SPECIFICATION Spec
CONSTANTS
    Projects = {p1}
    RegistryIds = {r1, r2}
    ArtifactIds = {t1}
    ApplicationIds = {a1}
    PackageIds = {k1, k2}
    RegistryNames = {x}
    ArtifactNames = {x}
    ApplicationNames = {x}
    PackageNames = {x}
    Versions = {v1}
    DisplayNames = {x}
    Kinds = {"normal"}
    Contents = {"c1"}
    ProfileNames = {}
    IgnoredResources = {"i1"}
    ApplicationBodies <- IgnoringApplications
    PackageBodies <- PackagesAlike
    Handlers = {h1, h2}
    Unspecified = Unspecified
    NoRegistry = NoRegistry
SYMMETRY RowSymmetry
INVARIANTS
    TypeOK
    ReferentialIntegrity
    NamesIdentify
