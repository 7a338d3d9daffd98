---------------------------- MODULE CatalogStore ----------------------------
(***************************************************************************)
(* The catalog's relational store and the request handlers that change it: *)
(* registries, artifacts, applications and deployment packages, with the   *)
(* references between them.                                                *)
(*                                                                         *)
(* A handler runs in two steps.  Begin reads the committed tables inside   *)
(* the READ COMMITTED transaction, runs every check of the Go code and     *)
(* keeps in tx what it read; a request that fails a check changes nothing  *)
(* and has no step.  Commit is the handler's writes with its COMMIT: the   *)
(* row, unique-key and foreign-key locks PostgreSQL takes for a write are  *)
(* held until the transaction ends, so what the writes find they find at   *)
(* the commit too.  What the writes do to a row that another handler       *)
(* deleted or changed since Begin is decided by the schema's constraints   *)
(* (unique indexes, NO ACTION, SET NULL, CASCADE), never by the checks.    *)
(***************************************************************************)

CONSTANTS
    Projects,           \* project UUIDs
    RegistryIds, ArtifactIds, ApplicationIds, PackageIds, \* surrogate row ids
    RegistryNames, ArtifactNames, ApplicationNames, PackageNames,
    Versions,
    DisplayNames,       \* display names up to letter case (display_name_lc)
    Kinds,              \* application and package kinds in the database
    Contents,           \* what the change detection compares besides the
                        \* fields below: description, chart, extensions, the
                        \* default profile, ...; the text of a profile
    ProfileNames,       \* names of application and deployment profiles
    IgnoredResources,   \* resources an application's deployment ignores
    ApplicationBodies,  \* that requests come with, see ApplicationBody
    PackageBodies,      \* and PackageBody
    Handlers,           \* requests being served at the same time
    Unspecified,        \* the empty string of an optional request field
    NoRegistry          \* NULL in the image registry column

ASSUME NamesAreDisplayNames ==
    RegistryNames \cup ArtifactNames \cup ApplicationNames \cup PackageNames
        \subseteq DisplayNames

ASSUME NormalIsAKind == "normal" \in Kinds

ASSUME NullsAreNotValues ==
    /\ Unspecified \notin DisplayNames \cup Kinds
    /\ NoRegistry \notin RegistryIds

VARIABLES
    registries, artifacts, applications, packages,  \* id -> row, live ids only
    tx                                              \* handler -> transaction

tables == <<registries, artifacts, applications, packages>>
vars == <<registries, artifacts, applications, packages, tx>>

RegistryTypes == {"HELM", "IMAGE"}

Registry == [project : Projects, name : RegistryNames,
             displayName : DisplayNames, type : RegistryTypes]

Artifact == [project : Projects, name : ArtifactNames,
             displayName : DisplayNames]

\* The profiles of one application or package: a unique index over the name
\* and the owner.  They go with their owner (CASCADE).
ProfileSets ==
    {s \in SUBSET [name : ProfileNames, content : Contents] :
        \A p, q \in s : p.name = q.name => p = q}

Application == [project : Projects, name : ApplicationNames, version : Versions,
                displayName : DisplayNames, kind : Kinds, content : Contents,
                profiles : ProfileSets, ignored : SUBSET IgnoredResources,
                registry : RegistryIds,
                imageRegistry : RegistryIds \cup {NoRegistry}]

\* pinned: the applications that a dependency or a default namespace of the
\* package names; their rows refer to the application with NO ACTION, while
\* the rows of the package-application join table CASCADE.
Package == [project : Projects, name : PackageNames, version : Versions,
            displayName : DisplayNames, kind : Kinds, content : Contents,
            profiles : ProfileSets, isDeployed : BOOLEAN,
            applications : SUBSET ApplicationIds,
            pinned : SUBSET ApplicationIds,
            artifacts : SUBSET ArtifactIds]

\* What a request says of an application or a package besides its identity,
\* display name, kind, state and references.
ApplicationBody == [content : Contents, profiles : ProfileSets,
                    ignored : SUBSET IgnoredResources]
PackageBody == [content : Contents, profiles : ProfileSets]

ASSUME RequestsHaveBodies == /\ ApplicationBodies \subseteq ApplicationBody
                             /\ PackageBodies \subseteq PackageBody

Idle == [op |-> "Idle"]

RegistryTx == [op : {"CreateRegistry", "UpdateRegistry"}, row : Registry]
              \cup [op : {"DeleteRegistry"}, project : Projects,
                    name : RegistryNames]

ArtifactTx == [op : {"CreateArtifact", "UpdateArtifact"}, row : Artifact]
              \cup [op : {"DeleteArtifact"}, project : Projects,
                    name : ArtifactNames]

\* id is the appDB or the pkgDB the handler loaded; added are the newProfiles,
\* and the set* flags the applicationChanges and packageChanges that make the
\* handler replace what is stored.
ApplicationTx == [op : {"CreateApplication", "UpdateApplicationKind"},
                  row : Application]
                 \cup [op : {"UpdateApplication"}, row : Application,
                       id : ApplicationIds, added : ProfileSets,
                       setProfiles : BOOLEAN, setIgnored : BOOLEAN]
                 \cup [op : {"DeleteApplication"}, project : Projects,
                       name : ApplicationNames, version : Versions]

PackageTx == [op : {"CreatePackage", "UpdatePackageState"}, row : Package]
             \cup [op : {"UpdatePackage"}, row : Package, id : PackageIds,
                   added : ProfileSets, setProfiles : BOOLEAN,
                   setApplications : BOOLEAN, setPinned : BOOLEAN,
                   setArtifacts : BOOLEAN]
             \cup [op : {"DeletePackage"}, project : Projects,
                   name : PackageNames, version : Versions]

TypeOK ==
    /\ registries \in [DOMAIN registries -> Registry]
    /\ DOMAIN registries \subseteq RegistryIds
    /\ artifacts \in [DOMAIN artifacts -> Artifact]
    /\ DOMAIN artifacts \subseteq ArtifactIds
    /\ applications \in [DOMAIN applications -> Application]
    /\ DOMAIN applications \subseteq ApplicationIds
    /\ packages \in [DOMAIN packages -> Package]
    /\ DOMAIN packages \subseteq PackageIds
    /\ tx \in [Handlers -> {Idle} \cup RegistryTx \cup ArtifactTx
                           \cup ApplicationTx \cup PackageTx]

-----------------------------------------------------------------------------
(* Rows and transactions.                                                  *)

EmptyTable == [i \in {} |-> Idle]

Insert(table, id, row) ==
    [i \in DOMAIN table \cup {id} |-> IF i = id THEN row ELSE table[i]]

Remove(table, id) == [i \in DOMAIN table \ {id} |-> table[i]]

\* Rows selected by (project, name), at most one by the unique index.
Named(table, project, name) ==
    {i \in DOMAIN table : table[i].project = project /\ table[i].name = name}

\* Rows selected by (project, name, version), at most one as well.
NamedVersion(table, project, name, version) ==
    {i \in Named(table, project, name) : table[i].version = version}

InProject(table, project) == {i \in DOMAIN table : table[i].project = project}

\* The ids a transaction has read and may still write.
HeldRegistryIds ==
    LET writers == {h \in Handlers : tx[h].op \in {"CreateApplication",
                                                   "UpdateApplication"}}
    IN  {tx[h].row.registry : h \in writers}
        \cup {tx[h].row.imageRegistry : h \in writers}

PackageWriters == {h \in Handlers : tx[h].op \in {"CreatePackage", "UpdatePackage"}}

HeldApplicationIds ==
    UNION {tx[h].row.applications \cup tx[h].row.pinned : h \in PackageWriters}
    \cup {tx[h].id : h \in {g \in Handlers : tx[g].op = "UpdateApplication"}}

HeldArtifactIds == UNION {tx[h].row.artifacts : h \in PackageWriters}

HeldPackageIds ==
    {tx[h].id : h \in {g \in Handlers : tx[g].op = "UpdatePackage"}}

\* Serial columns never give an id again: a new row gets an id that no row has
\* and no transaction remembers.
FreshRegistryIds == (RegistryIds \ DOMAIN registries) \ HeldRegistryIds
FreshArtifactIds == (ArtifactIds \ DOMAIN artifacts) \ HeldArtifactIds
FreshApplicationIds == (ApplicationIds \ DOMAIN applications) \ HeldApplicationIds
FreshPackageIds == (PackageIds \ DOMAIN packages) \ HeldPackageIds

Start(h, t) == /\ tx[h] = Idle
               /\ tx' = [tx EXCEPT ![h] = t]
               /\ UNCHANGED tables

Finish(h) == tx' = [tx EXCEPT ![h] = Idle]

\* Mutant: a blank display name is stored.
BlankDisplayName(name, displayName) == displayName

validateDisplayName(name, displayName) ==
    IF displayName = Unspecified THEN name ELSE displayName

\* Some other entity of the project has the display name.
DisplayNameTaken(table, project, name, displayName) ==
    \E i \in InProject(table, project) :
        table[i].displayName = displayName /\ table[i].name # name

kindToDB(kind) == IF kind = Unspecified THEN "normal" ELSE kind

\* Mutant: a profile that is missing or different is no change.
OnlyFirstProfiles(old, new) == old = {} /\ new # {}

\* Profiles that are removed or different are a change; added ones are not,
\* but the first ones come with a default profile where there was none.
profilesChanged(old, new) == ~(old \subseteq new) \/ (old = {} /\ new # {})

\* The profiles of row i after update t.  They are written under the id that
\* was loaded, all of them or those added.
ProfilesAfter(t, i, stored) ==
    IF i # t.id THEN stored
    ELSE IF t.setProfiles THEN t.row.profiles ELSE stored \cup t.added

WritesProfiles(t) == IF t.setProfiles THEN t.row.profiles # {} ELSE t.added # {}

\* An added profile of a name that is there by now breaks the unique index.
AddedAreNew(t, stored) ==
    t.setProfiles \/ \A p \in t.added, q \in stored : p.name # q.name

-----------------------------------------------------------------------------
(* Registries.                                                             *)

\* Blank display names pass: createRegistry fills the name in before it asks,
\* updateRegistry does not.
checkRegistryUniqueness(project, name, displayName) ==
    displayName = Unspecified
        \/ ~DisplayNameTaken(registries, project, name, displayName)

\* Mutant: the type of a registry in use may change.
NoRegistryTypeCheck(project, name, type) == Named(registries, project, name) # {}

\* A registry that applications use as image registry does not become a HELM
\* one, and one they take charts from does not become an IMAGE one.
checkRegistryType(project, name, type) ==
    \E r \in Named(registries, project, name) :
        registries[r].type # type =>
            \A a \in DOMAIN applications :
                IF type = "HELM" THEN applications[a].imageRegistry # r
                                 ELSE applications[a].registry # r

BeginCreateRegistry(h, project, name, displayName, type) ==
    LET given == validateDisplayName(name, displayName) IN
    /\ checkRegistryUniqueness(project, name, given)
    /\ Start(h, [op |-> "CreateRegistry",
                 row |-> [project |-> project, name |-> name,
                          displayName |-> given, type |-> type]])

\* Mutant: no unique index over project and name.
CreateRegistryUnindexed(h) ==
    /\ tx[h].op = "CreateRegistry"
    /\ \E id \in FreshRegistryIds : registries' = Insert(registries, id, tx[h].row)
    /\ Finish(h)
    /\ UNCHANGED <<artifacts, applications, packages>>

CommitCreateRegistry(h) ==
    /\ tx[h].op = "CreateRegistry"
    /\ Named(registries, tx[h].row.project, tx[h].row.name) = {}
    /\ \E id \in FreshRegistryIds : registries' = Insert(registries, id, tx[h].row)
    /\ Finish(h)
    /\ UNCHANGED <<artifacts, applications, packages>>

BeginUpdateRegistry(h, project, name, displayName, type) ==
    /\ checkRegistryUniqueness(project, name, displayName)
    /\ checkRegistryType(project, name, type)
    /\ Start(h, [op |-> "UpdateRegistry",
                 row |-> [project |-> project, name |-> name,
                          displayName |-> validateDisplayName(name, displayName),
                          type |-> type]])

CommitUpdateRegistry(h) ==
    /\ tx[h].op = "UpdateRegistry"
    /\ \E r \in Named(registries, tx[h].row.project, tx[h].row.name) :
           registries' = [registries EXCEPT ![r] = tx[h].row]
    /\ Finish(h)
    /\ UNCHANGED <<artifacts, applications, packages>>

\* Mutant: only the helm registry edge is asked for.
NoImageUse(project, name) ==
    \A a \in InProject(applications, project) :
        applications[a].registry \notin Named(registries, project, name)

\* The application.Or query of DeleteRegistry: both registry edges.
RegistryNotInUse(project, name) ==
    \A a \in InProject(applications, project) :
        {applications[a].registry, applications[a].imageRegistry}
            \cap {r \in DOMAIN registries : registries[r].name = name} = {}

BeginDeleteRegistry(h, project, name) ==
    /\ RegistryNotInUse(project, name)
    /\ Start(h, [op |-> "DeleteRegistry", project |-> project, name |-> name])

\* ON DELETE: NO ACTION for the helm registry of an application, SET NULL for
\* its image registry.
CommitDeleteRegistry(h) ==
    /\ tx[h].op = "DeleteRegistry"
    /\ \E r \in Named(registries, tx[h].project, tx[h].name) :
           /\ \A a \in DOMAIN applications : applications[a].registry # r
           /\ registries' = Remove(registries, r)
           /\ applications' =
                  [a \in DOMAIN applications |->
                      [applications[a] EXCEPT
                          !.imageRegistry = IF @ = r THEN NoRegistry ELSE @]]
    /\ Finish(h)
    /\ UNCHANGED <<artifacts, packages>>

-----------------------------------------------------------------------------
(* Artifacts.  The payload checks and the malware scan refuse a request or *)
(* leave no trace; Contents of an artifact play no part here.              *)

checkArtifactUniqueness(project, name, displayName) ==
    ~DisplayNameTaken(artifacts, project, name, displayName)

BeginCreateArtifact(h, project, name, displayName) ==
    LET given == validateDisplayName(name, displayName) IN
    /\ checkArtifactUniqueness(project, name, given)
    /\ Start(h, [op |-> "CreateArtifact",
                 row |-> [project |-> project, name |-> name,
                          displayName |-> given]])

CommitCreateArtifact(h) ==
    /\ tx[h].op = "CreateArtifact"
    /\ Named(artifacts, tx[h].row.project, tx[h].row.name) = {}
    /\ \E id \in FreshArtifactIds : artifacts' = Insert(artifacts, id, tx[h].row)
    /\ Finish(h)
    /\ UNCHANGED <<registries, applications, packages>>

BeginUpdateArtifact(h, project, name, displayName) ==
    LET given == validateDisplayName(name, displayName) IN
    /\ checkArtifactUniqueness(project, name, given)
    /\ Start(h, [op |-> "UpdateArtifact",
                 row |-> [project |-> project, name |-> name,
                          displayName |-> given]])

CommitUpdateArtifact(h) ==
    /\ tx[h].op = "UpdateArtifact"
    /\ \E a \in Named(artifacts, tx[h].row.project, tx[h].row.name) :
           artifacts' = [artifacts EXCEPT ![a] = tx[h].row]
    /\ Finish(h)
    /\ UNCHANGED <<registries, applications, packages>>

\* DeleteArtifact asks nothing first.
BeginDeleteArtifact(h, project, name) ==
    Start(h, [op |-> "DeleteArtifact", project |-> project, name |-> name])

\* Mutant: the references to an artifact do not stop its deletion.
DeleteArtifactInUse(h) ==
    /\ tx[h].op = "DeleteArtifact"
    /\ \E a \in Named(artifacts, tx[h].project, tx[h].name) :
           artifacts' = Remove(artifacts, a)
    /\ Finish(h)
    /\ UNCHANGED <<registries, applications, packages>>

\* ON DELETE NO ACTION: an artifact that a package refers to stays.
CommitDeleteArtifact(h) ==
    /\ tx[h].op = "DeleteArtifact"
    /\ \E a \in Named(artifacts, tx[h].project, tx[h].name) :
           /\ \A p \in DOMAIN packages : a \notin packages[p].artifacts
           /\ artifacts' = Remove(artifacts, a)
    /\ Finish(h)
    /\ UNCHANGED <<registries, applications, packages>>

-----------------------------------------------------------------------------
(* Applications.                                                           *)

checkApplicationUniqueness(project, name, displayName) ==
    displayName = Unspecified
        \/ ~DisplayNameTaken(applications, project, name, displayName)

getRegistry(project, name, type) ==
    {r \in Named(registries, project, name) : registries[r].type = type}

\* The image registry is optional.
getImageRegistry(project, name) ==
    IF name = Unspecified THEN {NoRegistry} ELSE getRegistry(project, name, "IMAGE")

BeginCreateApplication(h, project, name, version, displayName, helmName, imageName, kind, body) ==
    /\ checkApplicationUniqueness(project, name, displayName)
    /\ \E r \in getRegistry(project, helmName, "HELM"),
          i \in getImageRegistry(project, imageName) :
           Start(h, [op |-> "CreateApplication",
                     row |-> [project |-> project, name |-> name,
                              version |-> version,
                              displayName |-> validateDisplayName(name, displayName),
                              kind |-> kindToDB(kind), content |-> body.content,
                              profiles |-> body.profiles, ignored |-> body.ignored,
                              registry |-> r, imageRegistry |-> i]])

\* The foreign keys of a written application row name live registries.
RegistriesLive(row) ==
    /\ row.registry \in DOMAIN registries
    /\ row.imageRegistry \in DOMAIN registries \cup {NoRegistry}

CommitCreateApplication(h) ==
    /\ tx[h].op = "CreateApplication"
    /\ NamedVersion(applications, tx[h].row.project, tx[h].row.name,
                    tx[h].row.version) = {}
    /\ RegistriesLive(tx[h].row)
    /\ \E id \in FreshApplicationIds :
           applications' = Insert(applications, id, tx[h].row)
    /\ Finish(h)
    /\ UNCHANGED <<registries, artifacts, packages>>

\* Mutant: membership in a deployed package is not asked for.
NoDeployedPackageCheck(a) == TRUE

checkApplicationNotInDeployedPackages(a) ==
    \A p \in DOMAIN packages :
        a \in packages[p].applications => ~packages[p].isDeployed

\* Mutant: the chart and the other content are not compared.
ContentNotCompared(old, displayName, body) ==
    displayName # old.displayName \/ profilesChanged(old.profiles, body.profiles)

\* What applicationChanged and the profile comparisons tell apart.  The names
\* of the registries are compared with the registries found under those same
\* names, so moving to another registry is no change; neither are other
\* ignored resources, which changed() does not ask for.
applicationChanged(old, displayName, body) ==
    \/ displayName # old.displayName
    \/ body.content # old.content
    \/ profilesChanged(old.profiles, body.profiles)

\* The update of application a: profiles are replaced or added to, and a list
\* of ignored resources that is given and differs replaces the stored one.
ApplicationUpdate(a, row) ==
    LET old == applications[a] IN
    [op |-> "UpdateApplication", row |-> row, id |-> a,
     added |-> row.profiles \ old.profiles,
     setProfiles |-> ~(old.profiles \subseteq row.profiles),
     setIgnored |-> row.ignored \notin {{}, old.ignored}]

BeginUpdateApplication(h, project, name, version, displayName, helmName, imageName, kind, body) ==
    \E a \in NamedVersion(applications, project, name, version),
       r \in getRegistry(project, helmName, "HELM"),
       i \in getImageRegistry(project, imageName) :
        LET old == applications[a]
            given == validateDisplayName(name, displayName)
            newKind == IF kind = Unspecified THEN old.kind ELSE kind
            changed == applicationChanged(old, given, body)
            row == [project |-> project, name |-> name, version |-> version,
                    displayName |-> given, kind |-> newKind,
                    content |-> body.content, profiles |-> body.profiles,
                    ignored |-> body.ignored, registry |-> r, imageRegistry |-> i]
        IN  IF newKind # old.kind /\ ~changed
            THEN Start(h, [op |-> "UpdateApplicationKind", row |-> row])
            \* checkApplicationUniqueness is called with project "", which no
            \* row has, and so accepts every display name.
            ELSE /\ changed => checkApplicationNotInDeployedPackages(a)
                 /\ Start(h, ApplicationUpdate(a, row))

UpdatedApplication(t, a) ==
    LET old == applications[a] IN
    [t.row EXCEPT !.profiles = ProfilesAfter(t, a, old.profiles),
                  !.ignored = IF t.setIgnored THEN @ ELSE old.ignored]

\* The root record is updated by name, profiles and ignored resources are
\* written under the id that was loaded, which must still be there for them.
CommitUpdateApplication(h) ==
    /\ tx[h].op = "UpdateApplication"
    /\ RegistriesLive(tx[h].row)
    /\ \E a \in NamedVersion(applications, tx[h].row.project, tx[h].row.name,
                             tx[h].row.version) :
           /\ WritesProfiles(tx[h]) \/ tx[h].setIgnored => a = tx[h].id
           /\ AddedAreNew(tx[h], applications[a].profiles)
           /\ applications' = [applications EXCEPT ![a] = UpdatedApplication(tx[h], a)]
    /\ Finish(h)
    /\ UNCHANGED <<registries, artifacts, packages>>

\* updateApplicationKind: the rest of the request is dropped.
CommitUpdateApplicationKind(h) ==
    /\ tx[h].op = "UpdateApplicationKind"
    /\ \E a \in NamedVersion(applications, tx[h].row.project, tx[h].row.name,
                             tx[h].row.version) :
           applications' = [applications EXCEPT ![a].kind = tx[h].row.kind]
    /\ Finish(h)
    /\ UNCHANGED <<registries, artifacts, packages>>

\* Mutant: only deployed packages count.
NotInDeployedPackage(project, name, version) ==
    \A a \in NamedVersion(applications, project, name, version) :
        checkApplicationNotInDeployedPackages(a)

ApplicationNotInPackages(project, name, version) ==
    \A a \in NamedVersion(applications, project, name, version),
       p \in DOMAIN packages : a \notin packages[p].applications

BeginDeleteApplication(h, project, name, version) ==
    /\ ApplicationNotInPackages(project, name, version)
    /\ Start(h, [op |-> "DeleteApplication", project |-> project,
                 name |-> name, version |-> version])

\* ON DELETE: NO ACTION for dependencies and namespaces, CASCADE for the rows
\* of the join table.
CommitDeleteApplication(h) ==
    /\ tx[h].op = "DeleteApplication"
    /\ \E a \in NamedVersion(applications, tx[h].project, tx[h].name,
                             tx[h].version) :
           /\ \A p \in DOMAIN packages : a \notin packages[p].pinned
           /\ applications' = Remove(applications, a)
           /\ packages' = [p \in DOMAIN packages |->
                              [packages[p] EXCEPT !.applications = @ \ {a}]]
    /\ Finish(h)
    /\ UNCHANGED <<registries, artifacts>>

-----------------------------------------------------------------------------
(* Deployment packages.                                                    *)

checkDeploymentPackageUniqueness(project, name, displayName) ==
    displayName = Unspecified
        \/ ~DisplayNameTaken(packages, project, name, displayName)

\* The references of a request, resolved in the request's project.
References(project) ==
    [applications : SUBSET InProject(applications, project),
     artifacts : SUBSET InProject(artifacts, project)]

\* The row a request asks for; refs and pinned are the references found.
RequestedPackage(project, name, version, displayName, isDeployed, kind, body, refs, pinned) ==
    [project |-> project, name |-> name, version |-> version,
     displayName |-> validateDisplayName(name, displayName),
     kind |-> kindToDB(kind), content |-> body.content,
     profiles |-> body.profiles, isDeployed |-> isDeployed,
     applications |-> refs.applications, pinned |-> pinned,
     artifacts |-> refs.artifacts]

BeginCreatePackage(h, project, name, version, displayName, isDeployed, kind, body) ==
    /\ checkDeploymentPackageUniqueness(project, name, displayName)
    /\ \E refs \in References(project) : \E pinned \in SUBSET refs.applications :
           Start(h, [op |-> "CreatePackage",
                     row |-> RequestedPackage(project, name, version, displayName,
                                              isDeployed, kind, body, refs,
                                              pinned)])

CommitCreatePackage(h) ==
    /\ tx[h].op = "CreatePackage"
    /\ NamedVersion(packages, tx[h].row.project, tx[h].row.name,
                    tx[h].row.version) = {}
    /\ tx[h].row.applications \subseteq DOMAIN applications
    /\ tx[h].row.artifacts \subseteq DOMAIN artifacts
    /\ \E id \in FreshPackageIds : packages' = Insert(packages, id, tx[h].row)
    /\ Finish(h)
    /\ UNCHANGED <<registries, artifacts, applications>>

\* Mutant: a deployed package passes.
NoDeployedCheck(project, name, version, isDeployed) == TRUE

checkDeploymentPackageNotDeployed(project, name, version, isDeployed) ==
    \A p \in NamedVersion(packages, project, name, version) :
        ~(packages[p].isDeployed /\ isDeployed)

\* computePackageChanges without the kind and the deployed state.  The display
\* name is compared as it came: a blank one differs from what is stored.
packageChanged(old, displayName, body, refs, pinned) ==
    \/ displayName # old.displayName
    \/ body.content # old.content
    \/ profilesChanged(old.profiles, body.profiles)
    \/ refs.applications # old.applications
    \/ pinned # old.pinned
    \/ refs.artifacts # old.artifacts

\* The update of package p with what packageChanges says is to be rewritten.
PackageUpdate(p, row) ==
    LET old == packages[p] IN
    [op |-> "UpdatePackage", row |-> row, id |-> p,
     added |-> row.profiles \ old.profiles,
     setProfiles |-> \/ ~(old.profiles \subseteq row.profiles)
                     \/ row.applications # old.applications,
     setApplications |-> row.applications # old.applications,
     setPinned |-> row.pinned # old.pinned \/ row.applications # old.applications,
     setArtifacts |-> row.artifacts # old.artifacts]

\* A blank kind differs from every stored kind (isSameKind) and is stored as
\* normal.  checkDeploymentPackageUniqueness is called with project "" and
\* accepts every display name.
BeginUpdatePackage(h, project, name, version, displayName, isDeployed, kind, body) ==
    \E p \in NamedVersion(packages, project, name, version),
       refs \in References(project) : \E pinned \in SUBSET refs.applications :
        LET old == packages[p]
            changed == packageChanged(old, displayName, body, refs, pinned)
            row == RequestedPackage(project, name, version, displayName,
                                    isDeployed, kind, body, refs, pinned)
        IN  IF ~changed /\ (kind # old.kind \/ isDeployed # old.isDeployed)
            THEN Start(h, [op |-> "UpdatePackageState", row |-> row])
            ELSE /\ changed => checkDeploymentPackageNotDeployed(
                                   project, name, version, isDeployed)
                 /\ Start(h, PackageUpdate(p, row))

\* The row package p gets: references the handler found unchanged are not
\* rewritten, and those it rewrites are those of the package it loaded.
UpdatedPackage(t, p) ==
    LET old == packages[p] IN
    [t.row EXCEPT
        !.profiles = ProfilesAfter(t, p, old.profiles),
        !.applications = IF t.setApplications THEN @ ELSE old.applications,
        !.pinned = IF t.setPinned /\ p = t.id THEN @ ELSE old.pinned,
        !.artifacts = IF t.setArtifacts /\ p = t.id THEN @ ELSE old.artifacts]

\* The handler writes references and profiles under the id of the package it
\* loaded.
WritesReferences(t) == \/ t.setApplications
                       \/ WritesProfiles(t)
                       \/ t.setPinned /\ t.row.pinned # {}
                       \/ t.setArtifacts /\ t.row.artifacts # {}

\* When the package that was loaded is gone, references and profiles can be
\* deleted under its id but not written, while the root record is updated by name.  A
\* dependency is resolved among the package's own applications.
CommitUpdatePackage(h) ==
    /\ tx[h].op = "UpdatePackage"
    /\ \E p \in NamedVersion(packages, tx[h].row.project, tx[h].row.name,
                             tx[h].row.version) :
           LET new == UpdatedPackage(tx[h], p) IN
           /\ WritesReferences(tx[h]) => p = tx[h].id
           /\ AddedAreNew(tx[h], packages[p].profiles)
           /\ new.applications \subseteq DOMAIN applications
           /\ new.pinned \subseteq new.applications
           /\ new.artifacts \subseteq DOMAIN artifacts
           /\ packages' = [packages EXCEPT ![p] = new]
    /\ Finish(h)
    /\ UNCHANGED <<registries, artifacts, applications>>

\* updatePackageKindOrDeployedState.
CommitUpdatePackageState(h) ==
    /\ tx[h].op = "UpdatePackageState"
    /\ \E p \in NamedVersion(packages, tx[h].row.project, tx[h].row.name,
                             tx[h].row.version) :
           packages' = [packages EXCEPT ![p].isDeployed = tx[h].row.isDeployed,
                                        ![p].kind = tx[h].row.kind]
    /\ Finish(h)
    /\ UNCHANGED <<registries, artifacts, applications>>

BeginDeletePackage(h, project, name, version) ==
    /\ checkDeploymentPackageNotDeployed(project, name, version, TRUE)
    /\ Start(h, [op |-> "DeletePackage", project |-> project,
                 name |-> name, version |-> version])

CommitDeletePackage(h) ==
    /\ tx[h].op = "DeletePackage"
    /\ \E p \in NamedVersion(packages, tx[h].project, tx[h].name,
                             tx[h].version) :
           packages' = Remove(packages, p)
    /\ Finish(h)
    /\ UNCHANGED <<registries, artifacts, applications>>

-----------------------------------------------------------------------------
\* A constraint error, a row that is gone, an ended request context or a
\* failing database rolls the transaction back.
Rollback(h) == /\ tx[h] # Idle
               /\ Finish(h)
               /\ UNCHANGED tables

RegistryRequest(h) ==
    \E project \in Projects, name \in RegistryNames :
        \/ BeginDeleteRegistry(h, project, name)
        \/ \E displayName \in DisplayNames \cup {Unspecified},
              type \in RegistryTypes :
               \/ BeginCreateRegistry(h, project, name, displayName, type)
               \/ BeginUpdateRegistry(h, project, name, displayName, type)

ArtifactRequest(h) ==
    \E project \in Projects, name \in ArtifactNames :
        \/ BeginDeleteArtifact(h, project, name)
        \/ \E displayName \in DisplayNames \cup {Unspecified} :
               \/ BeginCreateArtifact(h, project, name, displayName)
               \/ BeginUpdateArtifact(h, project, name, displayName)

ApplicationRequest(h) ==
    \E project \in Projects, name \in ApplicationNames, version \in Versions :
        \/ BeginDeleteApplication(h, project, name, version)
        \/ \E displayName \in DisplayNames \cup {Unspecified},
              helmName \in RegistryNames,
              imageName \in RegistryNames \cup {Unspecified},
              kind \in Kinds \cup {Unspecified}, body \in ApplicationBodies :
               \/ BeginCreateApplication(h, project, name, version, displayName,
                                         helmName, imageName, kind, body)
               \/ BeginUpdateApplication(h, project, name, version, displayName,
                                         helmName, imageName, kind, body)

PackageRequest(h) ==
    \E project \in Projects, name \in PackageNames, version \in Versions :
        \/ BeginDeletePackage(h, project, name, version)
        \/ \E displayName \in DisplayNames \cup {Unspecified},
              isDeployed \in BOOLEAN,
              kind \in Kinds \cup {Unspecified}, body \in PackageBodies :
               \/ BeginCreatePackage(h, project, name, version, displayName,
                                     isDeployed, kind, body)
               \/ BeginUpdatePackage(h, project, name, version, displayName,
                                     isDeployed, kind, body)

Commit(h) ==
    \/ CommitCreateRegistry(h)
    \/ CommitUpdateRegistry(h)
    \/ CommitDeleteRegistry(h)
    \/ CommitCreateArtifact(h)
    \/ CommitUpdateArtifact(h)
    \/ CommitDeleteArtifact(h)
    \/ CommitCreateApplication(h)
    \/ CommitUpdateApplication(h)
    \/ CommitUpdateApplicationKind(h)
    \/ CommitDeleteApplication(h)
    \/ CommitCreatePackage(h)
    \/ CommitUpdatePackage(h)
    \/ CommitUpdatePackageState(h)
    \/ CommitDeletePackage(h)

Init == /\ registries = EmptyTable
        /\ artifacts = EmptyTable
        /\ applications = EmptyTable
        /\ packages = EmptyTable
        /\ tx = [h \in Handlers |-> Idle]

Next == \E h \in Handlers :
            \/ /\ tx[h] = Idle
               /\ \/ RegistryRequest(h)
                  \/ ArtifactRequest(h)
                  \/ ApplicationRequest(h)
                  \/ PackageRequest(h)
            \/ Commit(h)
            \/ Rollback(h)

Spec == Init /\ [][Next]_vars

-----------------------------------------------------------------------------
(* What every reader of the catalog relies on, whatever requests overlap.  *)

\* Every reference in the catalog leads to a row: the registries of an
\* application, the applications and artifacts of a package, and the
\* applications its dependencies and namespaces name.  Checks and deletions of
\* different requests interleave; the constraints of the schema must close
\* what the checks leave open (DeleteRegistry, DeleteArtifact,
\* DeleteApplication against the creations and updates).
ReferentialIntegrity ==
    /\ \A a \in DOMAIN applications : RegistriesLive(applications[a])
    /\ \A p \in DOMAIN packages :
           /\ packages[p].applications \subseteq DOMAIN applications
           /\ packages[p].pinned \subseteq packages[p].applications
           /\ packages[p].artifacts \subseteq DOMAIN artifacts

\* No reference crosses projects: what getRegistry, createApplicationReferences
\* and createArtifactReferences resolved in the request's project still belongs
\* to that project when the row is written.
ProjectIsolation ==
    /\ \A a \in DOMAIN applications, r \in DOMAIN registries :
           r \in {applications[a].registry, applications[a].imageRegistry} =>
               registries[r].project = applications[a].project
    /\ \A p \in DOMAIN packages :
           /\ \A a \in packages[p].applications \cap DOMAIN applications :
                  applications[a].project = packages[p].project
           /\ \A a \in packages[p].artifacts \cap DOMAIN artifacts :
                  artifacts[a].project = packages[p].project

\* A name (and version) identifies one entity of a project, which every lookup
\* by name with First or Only takes for granted.
NamesIdentify ==
    /\ \A r, s \in DOMAIN registries :
           registries[r].project = registries[s].project
           /\ registries[r].name = registries[s].name => r = s
    /\ \A r, s \in DOMAIN artifacts :
           artifacts[r].project = artifacts[s].project
           /\ artifacts[r].name = artifacts[s].name => r = s
    /\ \A r, s \in DOMAIN applications :
           applications[r].project = applications[s].project
           /\ applications[r].name = applications[s].name
           /\ applications[r].version = applications[s].version => r = s
    /\ \A r, s \in DOMAIN packages :
           packages[r].project = packages[s].project
           /\ packages[r].name = packages[s].name
           /\ packages[r].version = packages[s].version => r = s

-----------------------------------------------------------------------------
(* What the checks of the handlers promise.  They hold while one request   *)
(* is served at a time.                                                    *)

\* Applications take charts from HELM registries and images from IMAGE
\* registries, through every sequence of checkRegistryType and getRegistry.
RegistryTypesFitUse ==
    \A a \in DOMAIN applications, r \in DOMAIN registries :
        /\ r = applications[a].registry => registries[r].type = "HELM"
        /\ r = applications[a].imageRegistry => registries[r].type = "IMAGE"

\* A deployed package is not deleted (DeleteDeploymentPackage).
DeployedPackagesStay ==
    [][\A p \in DOMAIN packages :
          packages[p].isDeployed => p \in DOMAIN packages']_vars

\* Profiles may be added to those there are; none goes or changes, and where
\* there is none the default profile would be new as well.
OnlyAdds(old, new) == old \subseteq new /\ (old = {} => new = {})

\* While a package stays deployed nothing changes but its kind, and profiles
\* are only added to the ones it has (checkDeploymentPackageNotDeployed and
\* computePackageChanges in updateDeploymentPackage, and no application or
\* artifact leaves the package by other means).
DeployedPackagesFrozen ==
    [][\A p \in DOMAIN packages \cap DOMAIN packages' :
          packages[p].isDeployed /\ packages'[p].isDeployed =>
              /\ OnlyAdds(packages[p].profiles, packages'[p].profiles)
              /\ packages'[p] =
                     [packages[p] EXCEPT !.kind = packages'[p].kind,
                                         !.profiles = packages'[p].profiles]]_vars

InDeployedPackage(a) ==
    \E p \in DOMAIN packages :
        packages[p].isDeployed /\ a \in packages[p].applications

\* The description, chart, display name and profiles of an application of a
\* deployed package do not change, whatever the update is sent with, except
\* that profiles are added to the ones there are
\* (checkApplicationNotInDeployedPackages and computeApplicationChanges).
DeployedContentFrozen ==
    [][\A a \in DOMAIN applications : InDeployedPackage(a) =>
          /\ a \in DOMAIN applications'
          /\ applications'[a].content = applications[a].content
          /\ applications'[a].displayName = applications[a].displayName
          /\ OnlyAdds(applications[a].profiles, applications'[a].profiles)]_vars

\* An application of a deployed package changes in nothing but its kind: the
\* rule the comment over the check in updateApplication states.  Added
\* profiles are left out: the tests ask for them.
DeployedApplicationsFrozen ==
    [][\A a \in DOMAIN applications : InDeployedPackage(a) =>
          /\ a \in DOMAIN applications'
          /\ applications'[a] =
                 [applications[a] EXCEPT !.kind = applications'[a].kind,
                                         !.profiles = applications'[a].profiles]]_vars

\* No application that a package refers to is deleted (DeleteApplication).
ReferencedApplicationsStay ==
    [][\A p \in DOMAIN packages :
          packages[p].applications \subseteq DOMAIN applications']_vars

\* No registry that an application uses is deleted (DeleteRegistry).
UsedRegistriesStay ==
    [][\A a \in DOMAIN applications :
          {applications[a].registry, applications[a].imageRegistry}
              \subseteq DOMAIN registries' \cup {NoRegistry}]_vars
=============================================================================
