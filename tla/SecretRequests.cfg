SPECIFICATION SecretsSpec
CONSTANTS
    Projects = {p1}
    Names = {x, y}
    Contents = {c1, c2}
    None = None
    Requests = {r1, r2}
    MaxRequests = 3
    MaxFaults = 1
INVARIANTS
    SecretsTypeOK
    SecretsAgree
PROPERTY RequestsEnd
CHECK_DEADLOCK FALSE
