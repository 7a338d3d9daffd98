SPECIFICATION Spec
CONSTANTS
    Projects = {p1}
    RegistryIds = {r1, r2}
    ArtifactIds = {}
    ApplicationIds = {a1}
    PackageIds = {k1}
    RegistryNames = {x, y}
    ArtifactNames = {}
    ApplicationNames = {x}
    PackageNames = {x}
    Versions = {v1}
    DisplayNames = {x, y}
    Kinds = {"normal", "addon"}
    Contents = {"c1", "c2"}
    ProfileNames = {"n1", "n2"}
    IgnoredResources = {}
    ApplicationBodies <- ApplicationContents
    PackageBodies <- PackageContents
    Handlers = {h1}
    Unspecified = Unspecified
    NoRegistry = NoRegistry
SYMMETRY RowSymmetry
INVARIANTS
    RegistryTypesFitUse
PROPERTIES
    UsedRegistriesStay
    DeployedPackagesStay
    DeployedPackagesFrozen
    DeployedContentFrozen
    ReferencedApplicationsStay
