SPECIFICATION Spec
CONSTANTS
    Packages = {k1, k2, k3}
    Applications = {a1}
    Artifacts = {t1}
    Registries = {g1}
    PageSize = 2
    MaxDisturbances = 1
INVARIANTS
    TypeOK
    NoErrorMeansWiped
    OnlyRequiredStay
PROPERTY WipeEnds
CHECK_DEADLOCK FALSE
