SPECIFICATION Spec
CONSTANTS
    Projects = {p1}
    RegistryIds = {r1, r2}
    ArtifactIds = {}
    ApplicationIds = {a1}
    PackageIds = {k1}
    RegistryNames = {x, y}
    ArtifactNames = {}
    ApplicationNames = {x}
    PackageNames = {x}
    Versions = {v1}
    DisplayNames = {x, y}
    Kinds = {"normal"}
    Contents = {"c1"}
    ProfileNames = {}
    IgnoredResources = {}
    ApplicationBodies <- ApplicationsAlike
    PackageBodies <- PackagesAlike
    Handlers = {h1}
    Unspecified = Unspecified
    NoRegistry = NoRegistry
SYMMETRY RowSymmetry
PROPERTY DeployedApplicationsFrozen
