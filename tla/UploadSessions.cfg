SPECIFICATION Spec
CONSTANTS
    Projects = {p1, p2}
    Requests = {r1, r2}
    SessionIds = {s1, s2}
    Uploads <- MCUploads
    MaxUploads = 2
    NoRequest = NoRequest
SYMMETRY SessionSymmetry
INVARIANTS
    TypeOK
    DefinedBeforeUse
    UploadedReferencesLead
    
PROPERTIES
    
    UploadsStayInProject
CHECK_DEADLOCK FALSE
