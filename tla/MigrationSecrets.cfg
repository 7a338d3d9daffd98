SPECIFICATION Spec
CONSTANTS
    Projects = {old, new}
    Names = {x, y}
    Contents = {c1, c2}
    None = None
    Requests = {r1}
    MaxRequests = 2
    MaxFaults = 1
    OldProject = old
    NewProject = new
    MaxCrashes = 2
SYMMETRY MigrationSymmetry
INVARIANTS
    TypeOK
    MigratedSecretsAgree
PROPERTIES
    MigrationLeavesNothing
CHECK_DEADLOCK FALSE
