------------------------- MODULE CatalogStoreProofs -------------------------
(***************************************************************************)
(* Types, references, projects and names of the catalog's store, for any   *)
(* number of projects, rows, names and overlapping requests.               *)
(*                                                                         *)
(* First the types, which need no more than themselves.  Then the safety   *)
(* invariants together with PendingReferences, which says of the rows that *)
(* transactions are about to write what ProjectIsolation says of the rows  *)
(* that are there: what a transaction resolved may be gone when it         *)
(* commits, but has not moved to another project.                          *)
(*                                                                         *)
(* Last what the checks of the handlers promise, which takes that one      *)
(* request is served at a time: what a handler has checked then still      *)
(* holds when it commits.                                                  *)
(***************************************************************************)
EXTENDS CatalogStore, TLAPS

\* What a transaction carries, by its operation (the records tx holds).
LEMMA TxFields ==
    ASSUME TypeOK, NEW h \in Handlers
    PROVE  /\ tx[h].op \in {"CreateRegistry", "UpdateRegistry"} =>
                  tx[h].row \in Registry
           /\ tx[h].op \in {"CreateArtifact", "UpdateArtifact"} =>
                  tx[h].row \in Artifact
           /\ tx[h].op \in {"CreateApplication", "UpdateApplication",
                            "UpdateApplicationKind"} =>
                  tx[h].row \in Application
           /\ tx[h].op \in {"CreatePackage", "UpdatePackageState",
                            "UpdatePackage"} =>
                  tx[h].row \in Package
           /\ tx[h].op \in {"UpdateApplication", "UpdatePackage"} =>
                  tx[h].added \in ProfileSets
<1> DEFINE T == {Idle} \cup RegistryTx \cup ArtifactTx \cup ApplicationTx
                \cup PackageTx
<1>1. tx[h] \in T
  BY DEF TypeOK
<1>2. CASE tx[h] = Idle
  BY <1>2 DEF Idle
<1>3. CASE tx[h] \in RegistryTx
  BY <1>3 DEF RegistryTx
<1>4. CASE tx[h] \in ArtifactTx
  BY <1>4 DEF ArtifactTx
<1>5. CASE tx[h] \in ApplicationTx
  BY <1>5 DEF ApplicationTx
<1>6. CASE tx[h] \in PackageTx
  BY <1>6 DEF PackageTx
<1> QED
  BY <1>1, <1>2, <1>3, <1>4, <1>5, <1>6

\* A table with one more row is a table of such rows.
LEMMA InsertType ==
    ASSUME NEW Row, NEW Ids, NEW table, table \in [DOMAIN table -> Row],
           DOMAIN table \subseteq Ids, NEW id \in Ids, NEW row \in Row
    PROVE  /\ Insert(table, id, row) \in [DOMAIN Insert(table, id, row) -> Row]
           /\ DOMAIN Insert(table, id, row) = DOMAIN table \cup {id}
           /\ DOMAIN Insert(table, id, row) \subseteq Ids
BY DEF Insert

\* A table with one row less is a table of such rows.
LEMMA RemoveType ==
    ASSUME NEW Row, NEW Ids, NEW table, table \in [DOMAIN table -> Row],
           DOMAIN table \subseteq Ids, NEW id
    PROVE  /\ Remove(table, id) \in [DOMAIN Remove(table, id) -> Row]
           /\ DOMAIN Remove(table, id) = DOMAIN table \ {id}
           /\ DOMAIN Remove(table, id) \subseteq Ids
BY DEF Remove

Tx == {Idle} \cup RegistryTx \cup ArtifactTx \cup ApplicationTx \cup PackageTx

\* A request that begins keeps the types when its transaction has one.
LEMMA StartType ==
    ASSUME TypeOK, NEW h \in Handlers, NEW t \in Tx, Start(h, t)
    PROVE  TypeOK'
BY DEF TypeOK, Start, tables, Tx

\* A transaction that ends leaves its handler idle.
LEMMA FinishType ==
    ASSUME TypeOK, NEW h \in Handlers, Finish(h)
    PROVE  tx' \in [Handlers -> Tx]
BY DEF TypeOK, Finish, Tx

\* Display names and kinds that are stored come from the tables' domains.
LEMMA Stored ==
    /\ \A name \in DisplayNames, displayName \in DisplayNames \cup {Unspecified} :
           validateDisplayName(name, displayName) \in DisplayNames
    /\ \A kind \in Kinds \cup {Unspecified} : kindToDB(kind) \in Kinds
BY NormalIsAKind DEF validateDisplayName, kindToDB

\* Requests about registries start well-typed transactions: the display name
\* is filled in before it is stored.
LEMMA RegistryRequestType ==
    ASSUME TypeOK, NEW h \in Handlers, RegistryRequest(h)
    PROVE  TypeOK'
<1> PICK project \in Projects, name \in RegistryNames :
        \/ BeginDeleteRegistry(h, project, name)
        \/ \E displayName \in DisplayNames \cup {Unspecified},
              type \in RegistryTypes :
               \/ BeginCreateRegistry(h, project, name, displayName, type)
               \/ BeginUpdateRegistry(h, project, name, displayName, type)
  BY DEF RegistryRequest
<1> name \in DisplayNames
  BY NamesAreDisplayNames
<1>1. CASE BeginDeleteRegistry(h, project, name)
  <2>1. [op |-> "DeleteRegistry", project |-> project, name |-> name] \in Tx
    BY DEF Tx, RegistryTx
  <2> QED
    BY <1>1, <2>1, StartType DEF BeginDeleteRegistry
<1>2. ASSUME NEW displayName \in DisplayNames \cup {Unspecified},
             NEW type \in RegistryTypes,
             \/ BeginCreateRegistry(h, project, name, displayName, type)
             \/ BeginUpdateRegistry(h, project, name, displayName, type)
      PROVE  TypeOK'
  <2> DEFINE row == [project |-> project, name |-> name,
                     displayName |-> validateDisplayName(name, displayName),
                     type |-> type]
  <2>1. row \in Registry
    BY Stored DEF Registry
  <2>2. /\ [op |-> "CreateRegistry", row |-> row] \in Tx
        /\ [op |-> "UpdateRegistry", row |-> row] \in Tx
    BY <2>1 DEF Tx, RegistryTx
  <2> QED
    BY <1>2, <2>2, StartType DEF BeginCreateRegistry, BeginUpdateRegistry
<1> QED
  BY <1>1, <1>2

\* So do requests about artifacts.
LEMMA ArtifactRequestType ==
    ASSUME TypeOK, NEW h \in Handlers, ArtifactRequest(h)
    PROVE  TypeOK'
<1> PICK project \in Projects, name \in ArtifactNames :
        \/ BeginDeleteArtifact(h, project, name)
        \/ \E displayName \in DisplayNames \cup {Unspecified} :
               \/ BeginCreateArtifact(h, project, name, displayName)
               \/ BeginUpdateArtifact(h, project, name, displayName)
  BY DEF ArtifactRequest
<1> name \in DisplayNames
  BY NamesAreDisplayNames
<1>1. CASE BeginDeleteArtifact(h, project, name)
  <2>1. [op |-> "DeleteArtifact", project |-> project, name |-> name] \in Tx
    BY DEF Tx, ArtifactTx
  <2> QED
    BY <1>1, <2>1, StartType DEF BeginDeleteArtifact
<1>2. ASSUME NEW displayName \in DisplayNames \cup {Unspecified},
             \/ BeginCreateArtifact(h, project, name, displayName)
             \/ BeginUpdateArtifact(h, project, name, displayName)
      PROVE  TypeOK'
  <2> DEFINE row == [project |-> project, name |-> name,
                     displayName |-> validateDisplayName(name, displayName)]
  <2>1. row \in Artifact
    BY Stored DEF Artifact
  <2>2. /\ [op |-> "CreateArtifact", row |-> row] \in Tx
        /\ [op |-> "UpdateArtifact", row |-> row] \in Tx
    BY <2>1 DEF Tx, ArtifactTx
  <2> QED
    BY <1>2, <2>2, StartType DEF BeginCreateArtifact, BeginUpdateArtifact
<1> QED
  BY <1>1, <1>2

\* getRegistry finds registries of the project that are there.
LEMMA RegistriesFound ==
    ASSUME TypeOK, NEW project, NEW name, NEW type
    PROVE  /\ \A r \in getRegistry(project, name, type) :
                  r \in RegistryIds /\ r \in DOMAIN registries
                  /\ registries[r].project = project
           /\ \A r \in getImageRegistry(project, name) :
                  \/ r = NoRegistry
                  \/ r \in RegistryIds /\ r \in DOMAIN registries
                     /\ registries[r].project = project
BY DEF TypeOK, getRegistry, getImageRegistry, Named

\* Fewer profiles of an owner are profiles of an owner.
LEMMA FewerProfiles ==
    ASSUME NEW s \in ProfileSets, NEW u
    PROVE  s \ u \in ProfileSets
BY DEF ProfileSets

\* More of them are, when no two have a name.
LEMMA MoreProfiles ==
    ASSUME NEW s \in ProfileSets, NEW u \in ProfileSets,
           \A p \in u, q \in s : p.name # q.name
    PROVE  s \cup u \in ProfileSets
BY DEF ProfileSets

\* The update of an application is a transaction.
LEMMA ApplicationUpdateType ==
    ASSUME NEW a \in ApplicationIds, applications[a] \in Application,
           NEW row \in Application
    PROVE  ApplicationUpdate(a, row) \in Tx
<1>1. row.profiles \in ProfileSets
  BY DEF Application
<1>2. row.profiles \ applications[a].profiles \in ProfileSets
  BY <1>1, FewerProfiles
<1> QED
  BY <1>2 DEF ApplicationUpdate, Tx, ApplicationTx

\* So is the update of a package.
LEMMA PackageUpdateType ==
    ASSUME NEW p \in PackageIds, packages[p] \in Package, NEW row \in Package
    PROVE  PackageUpdate(p, row) \in Tx
<1>1. row.profiles \in ProfileSets
  BY DEF Package
<1>2. row.profiles \ packages[p].profiles \in ProfileSets
  BY <1>1, FewerProfiles
<1> QED
  BY <1>2 DEF PackageUpdate, Tx, PackageTx

\* So do requests about applications: the registries are ids that were found,
\* and a blank kind is stored as normal.
LEMMA ApplicationRequestType ==
    ASSUME TypeOK, NEW h \in Handlers, ApplicationRequest(h)
    PROVE  TypeOK'
<1> PICK project \in Projects, name \in ApplicationNames, version \in Versions :
        \/ BeginDeleteApplication(h, project, name, version)
        \/ \E displayName \in DisplayNames \cup {Unspecified},
              helmName \in RegistryNames,
              imageName \in RegistryNames \cup {Unspecified},
              kind \in Kinds \cup {Unspecified}, body \in ApplicationBodies :
               \/ BeginCreateApplication(h, project, name, version, displayName,
                                         helmName, imageName, kind, body)
               \/ BeginUpdateApplication(h, project, name, version, displayName,
                                         helmName, imageName, kind, body)
  BY DEF ApplicationRequest
<1> name \in DisplayNames
  BY NamesAreDisplayNames
<1>1. CASE BeginDeleteApplication(h, project, name, version)
  <2>1. [op |-> "DeleteApplication", project |-> project, name |-> name,
         version |-> version] \in Tx
    BY DEF Tx, ApplicationTx
  <2> QED
    BY <1>1, <2>1, StartType DEF BeginDeleteApplication
<1>2. ASSUME NEW displayName \in DisplayNames \cup {Unspecified},
             NEW helmName, NEW imageName,
             NEW kind \in Kinds \cup {Unspecified}, NEW body \in ApplicationBodies,
             \/ BeginCreateApplication(h, project, name, version, displayName,
                                       helmName, imageName, kind, body)
             \/ BeginUpdateApplication(h, project, name, version, displayName,
                                       helmName, imageName, kind, body)
      PROVE  TypeOK'
  <2> DEFINE row(k, r, i) ==
                 [project |-> project, name |-> name, version |-> version,
                  displayName |-> validateDisplayName(name, displayName),
                  kind |-> k, content |-> body.content,
                  profiles |-> body.profiles, ignored |-> body.ignored,
                  registry |-> r, imageRegistry |-> i]
  <2>1. ASSUME NEW k \in Kinds, NEW r \in getRegistry(project, helmName, "HELM"),
               NEW i \in getImageRegistry(project, imageName)
        PROVE  row(k, r, i) \in Application
    <3>1. /\ body.content \in Contents
          /\ body.profiles \in ProfileSets
          /\ body.ignored \in SUBSET IgnoredResources
      BY RequestsHaveBodies DEF ApplicationBody
    <3>2. /\ validateDisplayName(name, displayName) \in DisplayNames
          /\ r \in RegistryIds
          /\ i \in RegistryIds \cup {NoRegistry}
      BY <2>1, Stored, RegistriesFound
    <3> QED
      BY <2>1, <3>1, <3>2 DEF Application
  <2> HIDE DEF row
  <2>2. CASE BeginCreateApplication(h, project, name, version, displayName,
                                    helmName, imageName, kind, body)
    <3>1. PICK r \in getRegistry(project, helmName, "HELM"),
               i \in getImageRegistry(project, imageName) :
              Start(h, [op |-> "CreateApplication", row |-> row(kindToDB(kind), r, i)])
      BY <2>2 DEF BeginCreateApplication, row
    <3>2. row(kindToDB(kind), r, i) \in Application
      BY <2>1, Stored
    <3>3. [op |-> "CreateApplication", row |-> row(kindToDB(kind), r, i)] \in Tx
      BY <3>2 DEF Tx, ApplicationTx
    <3> QED
      BY <3>1, <3>3, StartType
  <2>3. CASE BeginUpdateApplication(h, project, name, version, displayName,
                                    helmName, imageName, kind, body)
    <3> DEFINE k(a) == IF kind = Unspecified THEN applications[a].kind ELSE kind
    <3>1. PICK a \in NamedVersion(applications, project, name, version),
               r \in getRegistry(project, helmName, "HELM"),
               i \in getImageRegistry(project, imageName) :
              \/ Start(h, [op |-> "UpdateApplicationKind", row |-> row(k(a), r, i)])
              \/ Start(h, ApplicationUpdate(a, row(k(a), r, i)))
      BY <2>3 DEF BeginUpdateApplication, row
    <3>2. a \in ApplicationIds /\ applications[a] \in Application
      BY DEF TypeOK, NamedVersion, Named
    <3>3. k(a) \in Kinds
      BY <3>2 DEF Application
    <3>4. row(k(a), r, i) \in Application
      BY <2>1, <3>3
    <3> HIDE DEF k
    <3>5. [op |-> "UpdateApplicationKind", row |-> row(k(a), r, i)] \in Tx
      BY <3>4 DEF Tx, ApplicationTx
    <3>6. ApplicationUpdate(a, row(k(a), r, i)) \in Tx
      BY <3>2, <3>4, ApplicationUpdateType
    <3> QED
      BY <3>1, <3>5, <3>6, StartType
  <2> QED
    BY <1>2, <2>2, <2>3
<1> QED
  BY <1>1, <1>2

\* References are live and of the project when a package request reads them.
LEMMA ReferencesFound ==
    ASSUME TypeOK, NEW project, NEW refs \in References(project)
    PROVE  /\ refs.applications \subseteq ApplicationIds
           /\ refs.artifacts \subseteq ArtifactIds
           /\ \A a \in refs.applications : a \in DOMAIN applications
                                          /\ applications[a].project = project
           /\ \A a \in refs.artifacts : a \in DOMAIN artifacts
                                       /\ artifacts[a].project = project
BY DEF TypeOK, References, InProject

\* So do requests about packages.
LEMMA PackageRequestType ==
    ASSUME TypeOK, NEW h \in Handlers, PackageRequest(h)
    PROVE  TypeOK'
<1> PICK project \in Projects, name \in PackageNames, version \in Versions :
        \/ BeginDeletePackage(h, project, name, version)
        \/ \E displayName \in DisplayNames \cup {Unspecified},
              isDeployed \in BOOLEAN,
              kind \in Kinds \cup {Unspecified}, body \in PackageBodies :
               \/ BeginCreatePackage(h, project, name, version, displayName,
                                     isDeployed, kind, body)
               \/ BeginUpdatePackage(h, project, name, version, displayName,
                                     isDeployed, kind, body)
  BY DEF PackageRequest
<1> name \in DisplayNames
  BY NamesAreDisplayNames
<1>1. CASE BeginDeletePackage(h, project, name, version)
  <2>1. [op |-> "DeletePackage", project |-> project, name |-> name,
         version |-> version] \in Tx
    BY DEF Tx, PackageTx
  <2> QED
    BY <1>1, <2>1, StartType DEF BeginDeletePackage
<1>2. ASSUME NEW displayName \in DisplayNames \cup {Unspecified},
             NEW isDeployed \in BOOLEAN,
             NEW kind \in Kinds \cup {Unspecified}, NEW body \in PackageBodies,
             \/ BeginCreatePackage(h, project, name, version, displayName,
                                   isDeployed, kind, body)
             \/ BeginUpdatePackage(h, project, name, version, displayName,
                                   isDeployed, kind, body)
      PROVE  TypeOK'
  <2> DEFINE row(refs, pinned) ==
                 RequestedPackage(project, name, version, displayName, isDeployed,
                                  kind, body, refs, pinned)
  <2>1. ASSUME NEW refs \in References(project), NEW pinned \in SUBSET refs.applications
        PROVE  row(refs, pinned) \in Package
    <3>1. /\ validateDisplayName(name, displayName) \in DisplayNames
          /\ kindToDB(kind) \in Kinds
          /\ body.content \in Contents
          /\ body.profiles \in ProfileSets
      BY Stored, RequestsHaveBodies DEF PackageBody
    <3> QED
      BY <3>1, ReferencesFound DEF Package, RequestedPackage
  <2> HIDE DEF row
  <2>2. CASE BeginCreatePackage(h, project, name, version, displayName,
                                isDeployed, kind, body)
    <3>1. PICK refs \in References(project) : \E pinned \in SUBSET refs.applications :
              Start(h, [op |-> "CreatePackage", row |-> row(refs, pinned)])
      BY <2>2 DEF BeginCreatePackage, row
    <3>2. PICK pinned \in SUBSET refs.applications :
              Start(h, [op |-> "CreatePackage", row |-> row(refs, pinned)])
      BY <3>1
    <3>3. [op |-> "CreatePackage", row |-> row(refs, pinned)] \in Tx
      BY <2>1 DEF Tx, PackageTx
    <3> QED
      BY <3>2, <3>3, StartType
  <2>3. CASE BeginUpdatePackage(h, project, name, version, displayName,
                                isDeployed, kind, body)
    <3>1. PICK p \in NamedVersion(packages, project, name, version),
               refs \in References(project) : \E pinned \in SUBSET refs.applications :
              \/ Start(h, [op |-> "UpdatePackageState", row |-> row(refs, pinned)])
              \/ Start(h, PackageUpdate(p, row(refs, pinned)))
      BY <2>3 DEF BeginUpdatePackage, row
    <3>2. PICK pinned \in SUBSET refs.applications :
              \/ Start(h, [op |-> "UpdatePackageState", row |-> row(refs, pinned)])
              \/ Start(h, PackageUpdate(p, row(refs, pinned)))
      BY <3>1
    <3>3. p \in PackageIds /\ packages[p] \in Package
      BY DEF TypeOK, NamedVersion, Named
    <3>4. [op |-> "UpdatePackageState", row |-> row(refs, pinned)] \in Tx
      BY <2>1 DEF Tx, PackageTx
    <3>5. PackageUpdate(p, row(refs, pinned)) \in Tx
      BY <2>1, <3>3, PackageUpdateType
    <3> QED
      BY <3>2, <3>4, <3>5, StartType
  <2> QED
    BY <1>2, <2>2, <2>3
<1> QED
  BY <1>1, <1>2

\* The profiles an update leaves are those of one owner: an added profile of
\* a name that is there is refused.
LEMMA ProfilesAfterType ==
    ASSUME TypeOK, NEW h \in Handlers, NEW i, NEW stored \in ProfileSets,
           tx[h].op \in {"UpdateApplication", "UpdatePackage"},
           AddedAreNew(tx[h], stored)
    PROVE  ProfilesAfter(tx[h], i, stored) \in ProfileSets
<1>1. tx[h].added \in ProfileSets /\ tx[h].row.profiles \in ProfileSets
  BY TxFields DEF Application, Package
<1>2. ~tx[h].setProfiles => stored \cup tx[h].added \in ProfileSets
  BY <1>1, MoreProfiles DEF AddedAreNew
<1> QED
  BY <1>1, <1>2 DEF ProfilesAfter

\* The row an update writes is an application row.
LEMMA UpdatedApplicationType ==
    ASSUME TypeOK, NEW h \in Handlers, tx[h].op = "UpdateApplication",
           NEW a \in DOMAIN applications,
           AddedAreNew(tx[h], applications[a].profiles)
    PROVE  UpdatedApplication(tx[h], a) \in Application
<1>1. tx[h].row \in Application /\ applications[a] \in Application
  BY TxFields DEF TypeOK
<1>2. applications[a].profiles \in ProfileSets
  BY <1>1 DEF Application
<1>3. ProfilesAfter(tx[h], a, applications[a].profiles) \in ProfileSets
  BY <1>2, ProfilesAfterType
<1> QED
  BY <1>1, <1>3 DEF UpdatedApplication, Application

\* The row an update writes is a package row.
LEMMA UpdatedPackageType ==
    ASSUME TypeOK, NEW h \in Handlers, tx[h].op = "UpdatePackage",
           NEW p \in DOMAIN packages, AddedAreNew(tx[h], packages[p].profiles)
    PROVE  UpdatedPackage(tx[h], p) \in Package
<1>1. tx[h].row \in Package /\ packages[p] \in Package
  BY TxFields DEF TypeOK
<1>2. packages[p].profiles \in ProfileSets
  BY <1>1 DEF Package
<1>3. ProfilesAfter(tx[h], p, packages[p].profiles) \in ProfileSets
  BY <1>2, ProfilesAfterType
<1> QED
  BY <1>1, <1>3 DEF UpdatedPackage, Package

\* Every commit leaves tables of well-typed rows.
LEMMA CommitType ==
    ASSUME TypeOK, NEW h \in Handlers, Commit(h)
    PROVE  TypeOK'
<1> USE TxFields
<1>1. CASE CommitCreateRegistry(h)
  <2>1. PICK id \in RegistryIds : registries' = Insert(registries, id, tx[h].row)
    BY <1>1 DEF CommitCreateRegistry, FreshRegistryIds
  <2>2. tx[h].row \in Registry
    BY <1>1 DEF CommitCreateRegistry
  <2>3. /\ registries' \in [DOMAIN registries' -> Registry]
        /\ DOMAIN registries' \subseteq RegistryIds
    BY <2>1, <2>2 DEF TypeOK, Insert
  <2> QED
    BY <1>1, <2>3, FinishType DEF TypeOK, CommitCreateRegistry, Tx
<1>2. CASE CommitUpdateRegistry(h)
  <2>1. PICK i \in DOMAIN registries :
            registries' = [registries EXCEPT ![i] = tx[h].row]
    BY <1>2 DEF CommitUpdateRegistry, Named
  <2>2. tx[h].row \in Registry
    BY <1>2 DEF CommitUpdateRegistry
  <2>3. registries' \in [DOMAIN registries -> Registry]
    BY <2>1, <2>2 DEF TypeOK
  <2> QED
    BY <1>2, <2>3, FinishType DEF TypeOK, CommitUpdateRegistry, Tx
<1>3. CASE CommitDeleteRegistry(h)
  <2>1. PICK r \in DOMAIN registries :
          /\ registries' = Remove(registries, r)
          /\ applications' =
                [a \in DOMAIN applications |->
                    [applications[a] EXCEPT
                        !.imageRegistry = IF @ = r THEN NoRegistry ELSE @]]
    BY <1>3 DEF CommitDeleteRegistry, Named
  <2>2. applications' \in [DOMAIN applications -> Application]
    BY <2>1 DEF TypeOK, Application
  <2>3. /\ registries' \in [DOMAIN registries' -> Registry]
        /\ DOMAIN registries' \subseteq RegistryIds
    BY <2>1, RemoveType DEF TypeOK
  <2> QED
    BY <1>3, <2>2, <2>3, FinishType DEF TypeOK, CommitDeleteRegistry, Tx
<1>4. CASE CommitCreateArtifact(h)
  <2>1. PICK id \in ArtifactIds : artifacts' = Insert(artifacts, id, tx[h].row)
    BY <1>4 DEF CommitCreateArtifact, FreshArtifactIds
  <2>2. tx[h].row \in Artifact
    BY <1>4 DEF CommitCreateArtifact
  <2>3. /\ artifacts' \in [DOMAIN artifacts' -> Artifact]
        /\ DOMAIN artifacts' \subseteq ArtifactIds
    BY <2>1, <2>2 DEF TypeOK, Insert
  <2> QED
    BY <1>4, <2>3, FinishType DEF TypeOK, CommitCreateArtifact, Tx
<1>5. CASE CommitUpdateArtifact(h)
  <2>1. PICK i \in DOMAIN artifacts :
            artifacts' = [artifacts EXCEPT ![i] = tx[h].row]
    BY <1>5 DEF CommitUpdateArtifact, Named
  <2>2. tx[h].row \in Artifact
    BY <1>5 DEF CommitUpdateArtifact
  <2>3. artifacts' \in [DOMAIN artifacts -> Artifact]
    BY <2>1, <2>2 DEF TypeOK
  <2> QED
    BY <1>5, <2>3, FinishType DEF TypeOK, CommitUpdateArtifact, Tx
<1>6. CASE CommitDeleteArtifact(h)
  <2>1. PICK i : artifacts' = Remove(artifacts, i)
    BY <1>6 DEF CommitDeleteArtifact
  <2>2. /\ artifacts' \in [DOMAIN artifacts' -> Artifact]
        /\ DOMAIN artifacts' \subseteq ArtifactIds
    BY <2>1, RemoveType DEF TypeOK
  <2> QED
    BY <1>6, <2>2, FinishType DEF TypeOK, CommitDeleteArtifact, Tx
<1>7. CASE CommitCreateApplication(h)
  <2>1. PICK id \in ApplicationIds : applications' = Insert(applications, id, tx[h].row)
    BY <1>7 DEF CommitCreateApplication, FreshApplicationIds
  <2>2. tx[h].row \in Application
    BY <1>7 DEF CommitCreateApplication
  <2>3. /\ applications' \in [DOMAIN applications' -> Application]
        /\ DOMAIN applications' \subseteq ApplicationIds
    BY <2>1, <2>2 DEF TypeOK, Insert
  <2> QED
    BY <1>7, <2>3, FinishType DEF TypeOK, CommitCreateApplication, Tx
<1>8. CASE CommitUpdateApplication(h)
  <2>1. PICK i \in DOMAIN applications :
            /\ AddedAreNew(tx[h], applications[i].profiles)
            /\ applications' = [applications EXCEPT ![i] = UpdatedApplication(tx[h], i)]
    BY <1>8 DEF CommitUpdateApplication, NamedVersion, Named
  <2>2. UpdatedApplication(tx[h], i) \in Application
    BY <1>8, <2>1, UpdatedApplicationType DEF CommitUpdateApplication
  <2>3. applications' \in [DOMAIN applications -> Application]
    BY <2>1, <2>2 DEF TypeOK
  <2> QED
    BY <1>8, <2>3, FinishType DEF TypeOK, CommitUpdateApplication, Tx
<1>9. CASE CommitUpdateApplicationKind(h)
  <2>1. PICK a \in DOMAIN applications :
            applications' = [applications EXCEPT ![a].kind = tx[h].row.kind]
    BY <1>9 DEF CommitUpdateApplicationKind, NamedVersion, Named
  <2>2. tx[h].row \in Application
    BY <1>9 DEF CommitUpdateApplicationKind
  <2>3. applications' \in [DOMAIN applications -> Application]
    BY <2>1, <2>2 DEF TypeOK, Application
  <2> QED
    BY <1>9, <2>3, FinishType DEF TypeOK, CommitUpdateApplicationKind, Tx
<1>10. CASE CommitDeleteApplication(h)
  <2>1. PICK a \in DOMAIN applications :
          /\ applications' = Remove(applications, a)
          /\ packages' = [p \in DOMAIN packages |->
                             [packages[p] EXCEPT !.applications = @ \ {a}]]
    BY <1>10 DEF CommitDeleteApplication, NamedVersion, Named
  <2>2. packages' \in [DOMAIN packages -> Package]
    <3>1. ASSUME NEW p \in DOMAIN packages
          PROVE  [packages[p] EXCEPT !.applications = @ \ {a}] \in Package
      <4>1. packages[p] \in Package
        BY DEF TypeOK
      <4> QED
        BY <4>1 DEF Package
    <3> QED
      BY <2>1, <3>1
  <2>3. /\ applications' \in [DOMAIN applications' -> Application]
        /\ DOMAIN applications' \subseteq ApplicationIds
    BY <2>1, RemoveType DEF TypeOK
  <2> QED
    BY <1>10, <2>2, <2>3, FinishType DEF TypeOK, CommitDeleteApplication, Tx
<1>11. CASE CommitCreatePackage(h)
  <2>1. PICK id \in PackageIds : packages' = Insert(packages, id, tx[h].row)
    BY <1>11 DEF CommitCreatePackage, FreshPackageIds
  <2>2. tx[h].row \in Package
    BY <1>11 DEF CommitCreatePackage
  <2>3. /\ packages' \in [DOMAIN packages' -> Package]
        /\ DOMAIN packages' \subseteq PackageIds
    BY <2>1, <2>2 DEF TypeOK, Insert
  <2> QED
    BY <1>11, <2>3, FinishType DEF TypeOK, CommitCreatePackage, Tx
<1>12. CASE CommitUpdatePackage(h)
  <2>1. PICK p \in DOMAIN packages :
            /\ AddedAreNew(tx[h], packages[p].profiles)
            /\ packages' = [packages EXCEPT ![p] = UpdatedPackage(tx[h], p)]
    BY <1>12 DEF CommitUpdatePackage, NamedVersion, Named
  <2>2. UpdatedPackage(tx[h], p) \in Package
    BY <1>12, <2>1, UpdatedPackageType DEF CommitUpdatePackage
  <2>3. packages' \in [DOMAIN packages -> Package]
    BY <2>1, <2>2 DEF TypeOK
  <2> QED
    BY <1>12, <2>3, FinishType DEF TypeOK, CommitUpdatePackage, Tx
<1>13. CASE CommitUpdatePackageState(h)
  <2>1. PICK p \in DOMAIN packages :
            packages' = [packages EXCEPT ![p].isDeployed = tx[h].row.isDeployed,
                                         ![p].kind = tx[h].row.kind]
    BY <1>13 DEF CommitUpdatePackageState, NamedVersion, Named
  <2>2. tx[h].row \in Package
    BY <1>13 DEF CommitUpdatePackageState
  <2>3. packages' \in [DOMAIN packages -> Package]
    BY <2>1, <2>2, ZenonT(40) DEF TypeOK, Package
  <2> QED
    BY <1>13, <2>3, FinishType DEF TypeOK, CommitUpdatePackageState, Tx
<1>14. CASE CommitDeletePackage(h)
  <2>1. PICK i : packages' = Remove(packages, i)
    BY <1>14 DEF CommitDeletePackage
  <2>2. /\ packages' \in [DOMAIN packages' -> Package]
        /\ DOMAIN packages' \subseteq PackageIds
    BY <2>1, RemoveType DEF TypeOK
  <2> QED
    BY <1>14, <2>2, FinishType DEF TypeOK, CommitDeletePackage, Tx
<1> QED
  BY <1>1, <1>2, <1>3, <1>4, <1>5, <1>6, <1>7, <1>8, <1>9, <1>10, <1>11,
     <1>12, <1>13, <1>14 DEF Commit

\* The empty catalog is well typed.
LEMMA InitType == Init => TypeOK
BY DEF Init, TypeOK, EmptyTable

\* Every step keeps the types.
LEMMA NextType == TypeOK /\ [Next]_vars => TypeOK'
<1> SUFFICES ASSUME TypeOK, [Next]_vars PROVE TypeOK'
  OBVIOUS
<1>1. CASE UNCHANGED vars
  BY <1>1 DEF vars, TypeOK
<1>2. ASSUME NEW h \in Handlers, Rollback(h)
      PROVE  TypeOK'
  BY <1>2, FinishType DEF Rollback, tables, TypeOK, Tx
<1> QED
  BY <1>1, <1>2, RegistryRequestType, ArtifactRequestType, ApplicationRequestType,
     PackageRequestType, CommitType DEF Next

\* Every state of the catalog is well typed: rows and pending transactions
\* hold stored display names, kinds and ids, never the blanks of a request
\* (validateDisplayName, kindToDB), whatever requests overlap.
THEOREM TypeCorrect == Spec => []TypeOK
BY InitType, NextType, PTL DEF Spec

-----------------------------------------------------------------------------
(* References and names.  The constraints alone do not keep projects       *)
(* apart: the invariant also says of every pending transaction that what   *)
(* it still remembers, and is still there, belongs to its project.         *)

\* What transaction t read, as far as it still exists, is of its project.
PendingOK(t) ==
    /\ t.op \in {"CreateApplication", "UpdateApplication"} =>
           \A r \in DOMAIN registries :
               r = t.row.registry \/ r = t.row.imageRegistry =>
                   registries[r].project = t.row.project
    /\ t.op \in {"CreatePackage", "UpdatePackage"} =>
           /\ \A a \in DOMAIN applications :
                  a \in t.row.applications => applications[a].project = t.row.project
           /\ \A a \in DOMAIN artifacts :
                  a \in t.row.artifacts => artifacts[a].project = t.row.project
           /\ t.row.pinned \subseteq t.row.applications

PendingReferences == \A h \in Handlers : PendingOK(tx[h])

IInv == /\ TypeOK
        /\ ReferentialIntegrity
        /\ ProjectIsolation
        /\ NamesIdentify
        /\ PendingReferences

\* A request that begins changes no row, and what it remembers it just read.
LEMMA StartKeeps ==
    ASSUME IInv, NEW h \in Handlers, NEW t, PendingOK(t), Start(h, t)
    PROVE  /\ ReferentialIntegrity'
           /\ ProjectIsolation'
           /\ NamesIdentify'
           /\ PendingReferences'
<1>1. UNCHANGED <<registries, artifacts, applications, packages>>
  BY DEF Start, tables
<1>2. \A g \in Handlers : tx'[g] = IF g = h THEN t ELSE tx[g]
  BY DEF Start, IInv, TypeOK
<1>3. PendingReferences'
  <2> SUFFICES ASSUME NEW g \in Handlers PROVE PendingOK(tx[g])'
    BY DEF PendingReferences
  <2>1. PendingOK(tx'[g])
    BY <1>2 DEF IInv, PendingReferences
  <2> QED
    BY <1>1, <2>1 DEF PendingOK
<1> QED
  BY <1>1, <1>3 DEF IInv, ReferentialIntegrity, RegistriesLive, ProjectIsolation,
                    NamesIdentify

\* A step that ends a transaction keeps PendingReferences when it moves no row
\* to another project and gives new rows ids that no transaction remembers.
LEMMA PendingKept ==
    ASSUME IInv, NEW h \in Handlers, Finish(h),
           \A r \in DOMAIN registries' :
               \/ r \in RegistryIds /\ r \notin HeldRegistryIds
               \/ r \in DOMAIN registries
                  /\ registries'[r].project = registries[r].project,
           \A a \in DOMAIN applications' :
               \/ a \in ApplicationIds /\ a \notin HeldApplicationIds
               \/ a \in DOMAIN applications
                  /\ applications'[a].project = applications[a].project,
           \A a \in DOMAIN artifacts' :
               \/ a \in ArtifactIds /\ a \notin HeldArtifactIds
               \/ a \in DOMAIN artifacts
                  /\ artifacts'[a].project = artifacts[a].project
    PROVE  PendingReferences'
<1> SUFFICES ASSUME NEW g \in Handlers PROVE PendingOK(tx[g])'
  BY DEF PendingReferences
<1>1. tx'[g] = IF g = h THEN Idle ELSE tx[g]
  BY DEF Finish, IInv, TypeOK
<1>2. CASE g = h
  BY <1>1, <1>2 DEF PendingOK, Idle
<1>3. CASE g # h
  <2>1. tx'[g] = tx[g] /\ PendingOK(tx[g])
    BY <1>1, <1>3 DEF IInv, PendingReferences
  <2>2. tx[g].op \in {"CreateApplication", "UpdateApplication"} =>
            {tx[g].row.registry, tx[g].row.imageRegistry} \subseteq HeldRegistryIds
    BY DEF HeldRegistryIds
  <2>3. tx[g].op \in {"CreatePackage", "UpdatePackage"} =>
            /\ tx[g].row.applications \subseteq HeldApplicationIds
            /\ tx[g].row.artifacts \subseteq HeldArtifactIds
    <3>1. ASSUME tx[g].op \in {"CreatePackage", "UpdatePackage"}
          PROVE  tx[g].row.applications \subseteq
                     UNION {tx[f].row.applications \cup tx[f].row.pinned :
                               f \in PackageWriters}
      BY <3>1 DEF PackageWriters
    <3>2. ASSUME tx[g].op \in {"CreatePackage", "UpdatePackage"}
          PROVE  tx[g].row.artifacts \subseteq HeldArtifactIds
      BY <3>2 DEF HeldArtifactIds, PackageWriters
    <3> QED
      BY <3>1, <3>2 DEF HeldApplicationIds
  <2> QED
    BY <2>1, <2>2, <2>3 DEF PendingOK
<1> QED
  BY <1>2, <1>3

\* The conjuncts of IInv besides the types.
Kept == ReferentialIntegrity /\ ProjectIsolation /\ NamesIdentify /\ PendingReferences

\* Transactions that carry no reference need no more than their start.
LEMMA PlainStartKeeps ==
    ASSUME IInv, NEW h \in Handlers, NEW t, Start(h, t),
           t.op \notin {"CreateApplication", "UpdateApplication",
                       "CreatePackage", "UpdatePackage"}
    PROVE  Kept'
<1>1. PendingOK(t)
  BY DEF PendingOK
<1> QED
  BY <1>1, StartKeeps DEF Kept

\* Requests about registries carry no references.
LEMMA RegistryRequestKeeps ==
    ASSUME IInv, NEW h \in Handlers, RegistryRequest(h)
    PROVE  Kept'
<1>1. ASSUME NEW project, NEW name, BeginDeleteRegistry(h, project, name)
      PROVE  Kept'
  BY <1>1, PlainStartKeeps DEF BeginDeleteRegistry
<1>2. ASSUME NEW project, NEW name, NEW displayName, NEW type,
             BeginCreateRegistry(h, project, name, displayName, type)
      PROVE  Kept'
  BY <1>2, PlainStartKeeps DEF BeginCreateRegistry
<1>3. ASSUME NEW project, NEW name, NEW displayName, NEW type,
             BeginUpdateRegistry(h, project, name, displayName, type)
      PROVE  Kept'
  BY <1>3, PlainStartKeeps DEF BeginUpdateRegistry
<1> QED
  BY <1>1, <1>2, <1>3 DEF RegistryRequest

\* Requests about artifacts carry none either.
LEMMA ArtifactRequestKeeps ==
    ASSUME IInv, NEW h \in Handlers, ArtifactRequest(h)
    PROVE  Kept'
<1>1. ASSUME NEW project, NEW name, BeginDeleteArtifact(h, project, name)
      PROVE  Kept'
  BY <1>1, PlainStartKeeps DEF BeginDeleteArtifact
<1>2. ASSUME NEW project, NEW name, NEW displayName,
             BeginCreateArtifact(h, project, name, displayName)
      PROVE  Kept'
  BY <1>2, PlainStartKeeps DEF BeginCreateArtifact
<1>3. ASSUME NEW project, NEW name, NEW displayName,
             BeginUpdateArtifact(h, project, name, displayName)
      PROVE  Kept'
  BY <1>3, PlainStartKeeps DEF BeginUpdateArtifact
<1> QED
  BY <1>1, <1>2, <1>3 DEF ArtifactRequest

\* An application request remembers registries of its own project.
LEMMA ApplicationRequestKeeps ==
    ASSUME IInv, NEW h \in Handlers, ApplicationRequest(h)
    PROVE  Kept'
<1> TypeOK
  BY DEF IInv
<1>1. PICK project, name, version, helmName, imageName :
        \/ BeginDeleteApplication(h, project, name, version)
        \/ \E displayName, kind, body :
               \/ BeginCreateApplication(h, project, name, version, displayName,
                                         helmName, imageName, kind, body)
               \/ BeginUpdateApplication(h, project, name, version, displayName,
                                         helmName, imageName, kind, body)
  BY DEF ApplicationRequest
<1>2. CASE BeginDeleteApplication(h, project, name, version)
  BY <1>2, PlainStartKeeps DEF BeginDeleteApplication
<1>3. ASSUME NEW displayName, NEW kind, NEW body,
             \/ BeginCreateApplication(h, project, name, version, displayName,
                                       helmName, imageName, kind, body)
             \/ BeginUpdateApplication(h, project, name, version, displayName,
                                       helmName, imageName, kind, body)
      PROVE  Kept'
  <2>1. ASSUME NEW r \in getRegistry(project, helmName, "HELM"),
               NEW i \in getImageRegistry(project, imageName), NEW t,
               Start(h, t), t.row.project = project, t.row.registry = r,
               t.row.imageRegistry = i,
               t.op \notin {"CreatePackage", "UpdatePackage"}
        PROVE  Kept'
    <3>1. NoRegistry \notin DOMAIN registries
      BY NullsAreNotValues DEF TypeOK
    <3>2. registries[r].project = project
      BY RegistriesFound
    <3>3. i \in DOMAIN registries => registries[i].project = project
      BY <3>1, RegistriesFound
    <3>4. PendingOK(t)
      BY <2>1, <3>2, <3>3 DEF PendingOK
    <3> QED
      BY <2>1, <3>4, StartKeeps DEF Kept
  <2>2. CASE BeginCreateApplication(h, project, name, version, displayName,
                                    helmName, imageName, kind, body)
    BY <2>1, <2>2 DEF BeginCreateApplication
  <2>3. CASE BeginUpdateApplication(h, project, name, version, displayName,
                                    helmName, imageName, kind, body)
    BY <2>1, <2>3 DEF BeginUpdateApplication, ApplicationUpdate
  <2> QED
    BY <1>3, <2>2, <2>3
<1> QED
  BY <1>1, <1>2, <1>3

\* A package request remembers applications and artifacts of its own project.
LEMMA PackageRequestKeeps ==
    ASSUME IInv, NEW h \in Handlers, PackageRequest(h)
    PROVE  Kept'
<1> TypeOK
  BY DEF IInv
<1>1. PICK project \in Projects, name \in PackageNames, version \in Versions :
        \/ BeginDeletePackage(h, project, name, version)
        \/ \E displayName, isDeployed, kind, body :
               \/ BeginCreatePackage(h, project, name, version, displayName,
                                     isDeployed, kind, body)
               \/ BeginUpdatePackage(h, project, name, version, displayName,
                                     isDeployed, kind, body)
  BY DEF PackageRequest
<1>2. CASE BeginDeletePackage(h, project, name, version)
  BY <1>2, PlainStartKeeps DEF BeginDeletePackage
<1>3. ASSUME NEW displayName, NEW isDeployed, NEW kind, NEW body,
             \/ BeginCreatePackage(h, project, name, version, displayName,
                                   isDeployed, kind, body)
             \/ BeginUpdatePackage(h, project, name, version, displayName,
                                   isDeployed, kind, body)
      PROVE  Kept'
  <2> DEFINE row(refs, pinned) ==
                 RequestedPackage(project, name, version, displayName, isDeployed,
                                  kind, body, refs, pinned)
  <2>1. ASSUME NEW refs \in References(project),
               NEW pinned \in SUBSET refs.applications, NEW t,
               t.row = row(refs, pinned),
               t.op \notin {"CreateApplication", "UpdateApplication"}
        PROVE  PendingOK(t)
    <3>1. /\ t.row.project = project
          /\ t.row.applications = refs.applications
          /\ t.row.pinned = pinned
          /\ t.row.artifacts = refs.artifacts
      BY <2>1 DEF RequestedPackage
    <3> QED
      BY <2>1, <3>1, ReferencesFound DEF PendingOK
  <2> HIDE DEF row
  <2>2. CASE BeginCreatePackage(h, project, name, version, displayName,
                                isDeployed, kind, body)
    <3>1. PICK refs \in References(project) : \E pinned \in SUBSET refs.applications :
              Start(h, [op |-> "CreatePackage", row |-> row(refs, pinned)])
      BY <2>2 DEF BeginCreatePackage, row
    <3>2. PICK pinned \in SUBSET refs.applications :
              Start(h, [op |-> "CreatePackage", row |-> row(refs, pinned)])
      BY <3>1
    <3> QED
      BY <2>1, <3>2, StartKeeps DEF Kept
  <2>3. CASE BeginUpdatePackage(h, project, name, version, displayName,
                                isDeployed, kind, body)
    <3>1. PICK p \in NamedVersion(packages, project, name, version),
               refs \in References(project) : \E pinned \in SUBSET refs.applications :
              \/ Start(h, [op |-> "UpdatePackageState", row |-> row(refs, pinned)])
              \/ Start(h, PackageUpdate(p, row(refs, pinned)))
      BY <2>3 DEF BeginUpdatePackage, row
    <3>2. PICK pinned \in SUBSET refs.applications :
              \/ Start(h, [op |-> "UpdatePackageState", row |-> row(refs, pinned)])
              \/ Start(h, PackageUpdate(p, row(refs, pinned)))
      BY <3>1
    <3>3. /\ PackageUpdate(p, row(refs, pinned)).row = row(refs, pinned)
          /\ PackageUpdate(p, row(refs, pinned)).op = "UpdatePackage"
      BY DEF PackageUpdate
    <3> QED
      BY <2>1, <3>2, <3>3, StartKeeps DEF Kept
  <2> QED
    BY <1>3, <2>2, <2>3
<1> QED
  BY <1>1, <1>2, <1>3

-----------------------------------------------------------------------------
(* The commits, table by table.                                            *)

\* Writes to the registry table: a registry goes only when no application
\* takes charts from it, and image registry columns are set to NULL.
LEMMA CommitRegistryKeeps ==
    ASSUME IInv, NEW h \in Handlers,
           CommitCreateRegistry(h) \/ CommitUpdateRegistry(h) \/ CommitDeleteRegistry(h)
    PROVE  Kept'
<1> TypeOK
  BY DEF IInv
<1>1. CASE CommitCreateRegistry(h)
  <2>1. PICK id \in FreshRegistryIds : registries' = Insert(registries, id, tx[h].row)
    BY <1>1 DEF CommitCreateRegistry
  <2>2. /\ DOMAIN registries' = DOMAIN registries \cup {id}
        /\ registries'[id] = tx[h].row
        /\ \A r \in DOMAIN registries : registries'[r] = registries[r]
        /\ id \in RegistryIds
        /\ id \notin DOMAIN registries
        /\ id \notin HeldRegistryIds
    BY <2>1 DEF Insert, FreshRegistryIds
  <2>3. UNCHANGED <<artifacts, applications, packages>> /\ Finish(h)
    BY <1>1 DEF CommitCreateRegistry
  <2>4. ReferentialIntegrity'
    BY <2>2, <2>3 DEF IInv, ReferentialIntegrity, RegistriesLive
  <2>5. ProjectIsolation'
    <3>1. \A a \in DOMAIN applications :
              applications[a].registry # id /\ applications[a].imageRegistry # id
      BY <2>2, NullsAreNotValues DEF IInv, ReferentialIntegrity, RegistriesLive
    <3> QED
      BY <2>2, <2>3, <3>1 DEF IInv, ProjectIsolation
  <2>6. NamesIdentify'
    <3>1. \A r \in DOMAIN registries :
              ~(registries[r].project = tx[h].row.project
                /\ registries[r].name = tx[h].row.name)
      BY <1>1 DEF CommitCreateRegistry, Named
    <3> QED
      BY <2>2, <2>3, <3>1 DEF IInv, NamesIdentify
  <2>7. PendingReferences'
    BY <2>2, <2>3, PendingKept
  <2> QED
    BY <2>4, <2>5, <2>6, <2>7 DEF Kept
<1>2. CASE CommitUpdateRegistry(h)
  <2>1. PICK i \in DOMAIN registries :
          /\ registries' = [registries EXCEPT ![i] = tx[h].row]
          /\ registries[i].project = tx[h].row.project
          /\ registries[i].name = tx[h].row.name
    BY <1>2 DEF CommitUpdateRegistry, Named
  <2>2. /\ DOMAIN registries' = DOMAIN registries
        /\ \A r \in DOMAIN registries :
              /\ registries'[r].project = registries[r].project
              /\ registries'[r].name = registries[r].name
    BY <2>1
  <2>3. UNCHANGED <<artifacts, applications, packages>> /\ Finish(h)
    BY <1>2 DEF CommitUpdateRegistry
  <2>4. ReferentialIntegrity'
    BY <2>2, <2>3 DEF IInv, ReferentialIntegrity, RegistriesLive
  <2>5. ProjectIsolation'
    BY <2>2, <2>3 DEF IInv, ProjectIsolation
  <2>6. NamesIdentify'
    BY <2>2, <2>3 DEF IInv, NamesIdentify
  <2>7. PendingReferences'
    BY <2>2, <2>3, PendingKept
  <2> QED
    BY <2>4, <2>5, <2>6, <2>7 DEF Kept
<1>3. CASE CommitDeleteRegistry(h)
  <2>1. PICK i \in DOMAIN registries :
          /\ \A a \in DOMAIN applications : applications[a].registry # i
          /\ registries' = Remove(registries, i)
          /\ applications' =
                [a \in DOMAIN applications |->
                    [applications[a] EXCEPT
                        !.imageRegistry = IF @ = i THEN NoRegistry ELSE @]]
    BY <1>3 DEF CommitDeleteRegistry, Named
  <2>2. /\ DOMAIN registries' = DOMAIN registries \ {i}
        /\ \A r \in DOMAIN registries' : registries'[r] = registries[r]
    BY <2>1 DEF Remove
  <2>3. /\ DOMAIN applications' = DOMAIN applications
        /\ \A a \in DOMAIN applications :
              /\ applications'[a].project = applications[a].project
              /\ applications'[a].name = applications[a].name
              /\ applications'[a].version = applications[a].version
              /\ applications'[a].registry = applications[a].registry
              /\ applications'[a].imageRegistry =
                     IF applications[a].imageRegistry = i
                     THEN NoRegistry ELSE applications[a].imageRegistry
    <3>1. ASSUME NEW a \in DOMAIN applications
          PROVE  applications[a] \in Application
      BY DEF TypeOK
    <3> QED
      BY <2>1, <3>1 DEF Application
  <2>4. UNCHANGED <<artifacts, packages>> /\ Finish(h)
    BY <1>3 DEF CommitDeleteRegistry
  <2>5. ReferentialIntegrity'
    BY <2>1, <2>2, <2>3, <2>4 DEF IInv, ReferentialIntegrity, RegistriesLive
  <2>6. ProjectIsolation'
    <3>1. NoRegistry \notin DOMAIN registries'
      BY <2>2, NullsAreNotValues DEF TypeOK
    <3> QED
      BY <2>2, <2>3, <2>4, <3>1 DEF IInv, ProjectIsolation
  <2>7. NamesIdentify'
    BY <2>2, <2>3, <2>4 DEF IInv, NamesIdentify
  <2>8. PendingReferences'
    BY <2>2, <2>3, <2>4, PendingKept
  <2> QED
    BY <2>5, <2>6, <2>7, <2>8 DEF Kept
<1> QED
  BY <1>1, <1>2, <1>3

\* Writes to the artifact table: an artifact goes only when no package refers
\* to it.
LEMMA CommitArtifactKeeps ==
    ASSUME IInv, NEW h \in Handlers,
           CommitCreateArtifact(h) \/ CommitUpdateArtifact(h) \/ CommitDeleteArtifact(h)
    PROVE  Kept'
<1> TypeOK
  BY DEF IInv
<1>0. UNCHANGED <<registries, applications, packages>> /\ Finish(h)
  BY DEF CommitCreateArtifact, CommitUpdateArtifact, CommitDeleteArtifact
<1>1. CASE CommitCreateArtifact(h)
  <2>1. PICK id \in FreshArtifactIds : artifacts' = Insert(artifacts, id, tx[h].row)
    BY <1>1 DEF CommitCreateArtifact
  <2>2. /\ DOMAIN artifacts' = DOMAIN artifacts \cup {id}
        /\ artifacts'[id] = tx[h].row
        /\ \A a \in DOMAIN artifacts : artifacts'[a] = artifacts[a]
        /\ id \in ArtifactIds
        /\ id \notin DOMAIN artifacts
        /\ id \notin HeldArtifactIds
    BY <2>1 DEF Insert, FreshArtifactIds
  <2>3. ReferentialIntegrity'
    BY <1>0, <2>2 DEF IInv, ReferentialIntegrity, RegistriesLive
  <2>4. ProjectIsolation'
    <3>1. \A p \in DOMAIN packages : id \notin packages[p].artifacts
      BY <2>2 DEF IInv, ReferentialIntegrity
    <3> QED
      BY <1>0, <2>2, <3>1 DEF IInv, ProjectIsolation
  <2>5. NamesIdentify'
    <3>1. \A a \in DOMAIN artifacts :
              ~(artifacts[a].project = tx[h].row.project
                /\ artifacts[a].name = tx[h].row.name)
      BY <1>1 DEF CommitCreateArtifact, Named
    <3> QED
      BY <1>0, <2>2, <3>1 DEF IInv, NamesIdentify
  <2>6. PendingReferences'
    BY <1>0, <2>2, PendingKept
  <2> QED
    BY <2>3, <2>4, <2>5, <2>6 DEF Kept
<1>2. CASE CommitUpdateArtifact(h)
  <2>1. PICK i \in DOMAIN artifacts :
          /\ artifacts' = [artifacts EXCEPT ![i] = tx[h].row]
          /\ artifacts[i].project = tx[h].row.project
          /\ artifacts[i].name = tx[h].row.name
    BY <1>2 DEF CommitUpdateArtifact, Named
  <2>2. /\ DOMAIN artifacts' = DOMAIN artifacts
        /\ \A a \in DOMAIN artifacts :
              /\ artifacts'[a].project = artifacts[a].project
              /\ artifacts'[a].name = artifacts[a].name
    BY <2>1
  <2>3. ReferentialIntegrity'
    BY <1>0, <2>2 DEF IInv, ReferentialIntegrity, RegistriesLive
  <2>4. ProjectIsolation'
    BY <1>0, <2>2 DEF IInv, ProjectIsolation
  <2>5. NamesIdentify'
    BY <1>0, <2>2 DEF IInv, NamesIdentify
  <2>6. PendingReferences'
    BY <1>0, <2>2, PendingKept
  <2> QED
    BY <2>3, <2>4, <2>5, <2>6 DEF Kept
<1>3. CASE CommitDeleteArtifact(h)
  <2>1. PICK i \in DOMAIN artifacts :
          /\ \A p \in DOMAIN packages : i \notin packages[p].artifacts
          /\ artifacts' = Remove(artifacts, i)
    BY <1>3 DEF CommitDeleteArtifact, Named
  <2>2. /\ DOMAIN artifacts' = DOMAIN artifacts \ {i}
        /\ \A a \in DOMAIN artifacts' : artifacts'[a] = artifacts[a]
    BY <2>1 DEF Remove
  <2>3. ReferentialIntegrity'
    BY <1>0, <2>1, <2>2 DEF IInv, ReferentialIntegrity, RegistriesLive
  <2>4. ProjectIsolation'
    BY <1>0, <2>2 DEF IInv, ProjectIsolation
  <2>5. NamesIdentify'
    BY <1>0, <2>2 DEF IInv, NamesIdentify
  <2>6. PendingReferences'
    BY <1>0, <2>2, PendingKept
  <2> QED
    BY <2>3, <2>4, <2>5, <2>6 DEF Kept
<1> QED
  BY <1>1, <1>2, <1>3

\* Writes to the application table: foreign keys must lead to rows, and a
\* deletion leaves the packages it was taken from.
LEMMA CommitApplicationKeeps ==
    ASSUME IInv, NEW h \in Handlers,
           \/ CommitCreateApplication(h)
           \/ CommitUpdateApplication(h)
           \/ CommitUpdateApplicationKind(h)
           \/ CommitDeleteApplication(h)
    PROVE  Kept'
<1> TypeOK /\ PendingOK(tx[h])
  BY DEF IInv, PendingReferences
<1>0. UNCHANGED <<registries, artifacts>> /\ Finish(h)
  BY DEF CommitCreateApplication, CommitUpdateApplication,
         CommitUpdateApplicationKind, CommitDeleteApplication
<1>1. CASE CommitCreateApplication(h)
  <2>1. PICK id \in FreshApplicationIds :
            applications' = Insert(applications, id, tx[h].row)
    BY <1>1 DEF CommitCreateApplication
  <2>2. /\ DOMAIN applications' = DOMAIN applications \cup {id}
        /\ applications'[id] = tx[h].row
        /\ \A a \in DOMAIN applications : applications'[a] = applications[a]
        /\ id \in ApplicationIds
        /\ id \notin DOMAIN applications
        /\ id \notin HeldApplicationIds
    BY <2>1 DEF Insert, FreshApplicationIds
  <2>3. UNCHANGED packages
    BY <1>1 DEF CommitCreateApplication
  <2>4. ReferentialIntegrity'
    <3>1. RegistriesLive(tx[h].row)
      BY <1>1 DEF CommitCreateApplication
    <3> QED
      BY <1>0, <2>2, <2>3, <3>1 DEF IInv, ReferentialIntegrity, RegistriesLive
  <2>5. ProjectIsolation'
    <3>1. \A p \in DOMAIN packages : id \notin packages[p].applications
      BY <2>2 DEF IInv, ReferentialIntegrity
    <3>2. \A r \in DOMAIN registries :
              r = tx[h].row.registry \/ r = tx[h].row.imageRegistry =>
                  registries[r].project = tx[h].row.project
      BY <1>1 DEF PendingOK, CommitCreateApplication
    <3> QED
      BY <1>0, <2>2, <2>3, <3>1, <3>2 DEF IInv, ProjectIsolation
  <2>6. NamesIdentify'
    <3>1. \A a \in DOMAIN applications :
              ~(applications[a].project = tx[h].row.project
                /\ applications[a].name = tx[h].row.name
                /\ applications[a].version = tx[h].row.version)
      BY <1>1 DEF CommitCreateApplication, NamedVersion, Named
    <3> QED
      BY <1>0, <2>2, <2>3, <3>1 DEF IInv, NamesIdentify
  <2>7. PendingReferences'
    BY <1>0, <2>2, PendingKept
  <2> QED
    BY <2>4, <2>5, <2>6, <2>7 DEF Kept
<1>2. CASE CommitUpdateApplication(h)
  <2> DEFINE new(a) == UpdatedApplication(tx[h], a)
  <2>1. PICK i \in DOMAIN applications :
          /\ applications' = [applications EXCEPT ![i] = new(i)]
          /\ applications[i].project = tx[h].row.project
          /\ applications[i].name = tx[h].row.name
          /\ applications[i].version = tx[h].row.version
    BY <1>2 DEF CommitUpdateApplication, NamedVersion, Named
  <2>8. /\ new(i).project = tx[h].row.project
        /\ new(i).name = tx[h].row.name
        /\ new(i).version = tx[h].row.version
        /\ new(i).registry = tx[h].row.registry
        /\ new(i).imageRegistry = tx[h].row.imageRegistry
    <3>1. tx[h].row \in Application
      BY <1>2, TxFields DEF CommitUpdateApplication
    <3> QED
      BY <3>1 DEF UpdatedApplication, Application
  <2> HIDE DEF new
  <2>2. /\ DOMAIN applications' = DOMAIN applications
        /\ \A a \in DOMAIN applications :
              /\ applications'[a].project = applications[a].project
              /\ applications'[a].name = applications[a].name
              /\ applications'[a].version = applications[a].version
              /\ \/ applications'[a] = applications[a]
                 \/ /\ applications'[a].registry = tx[h].row.registry
                    /\ applications'[a].imageRegistry = tx[h].row.imageRegistry
                    /\ applications'[a].project = tx[h].row.project
    BY <2>1, <2>8
  <2>3. UNCHANGED packages
    BY <1>2 DEF CommitUpdateApplication
  <2>4. ReferentialIntegrity'
    <3>1. RegistriesLive(tx[h].row)
      BY <1>2 DEF CommitUpdateApplication
    <3> QED
      BY <1>0, <2>2, <2>3, <3>1 DEF IInv, ReferentialIntegrity, RegistriesLive
  <2>5. ProjectIsolation'
    <3>1. \A r \in DOMAIN registries :
              r = tx[h].row.registry \/ r = tx[h].row.imageRegistry =>
                  registries[r].project = tx[h].row.project
      BY <1>2 DEF PendingOK, CommitUpdateApplication
    <3> QED
      BY <1>0, <2>2, <2>3, <3>1 DEF IInv, ProjectIsolation
  <2>6. NamesIdentify'
    BY <1>0, <2>2, <2>3 DEF IInv, NamesIdentify
  <2>7. PendingReferences'
    BY <1>0, <2>2, PendingKept
  <2> QED
    BY <2>4, <2>5, <2>6, <2>7 DEF Kept
<1>3. CASE CommitUpdateApplicationKind(h)
  <2>1. PICK i \in DOMAIN applications :
            applications' = [applications EXCEPT ![i].kind = tx[h].row.kind]
    BY <1>3 DEF CommitUpdateApplicationKind, NamedVersion, Named
  <2>2. /\ DOMAIN applications' = DOMAIN applications
        /\ \A a \in DOMAIN applications :
              /\ applications'[a].project = applications[a].project
              /\ applications'[a].name = applications[a].name
              /\ applications'[a].version = applications[a].version
              /\ applications'[a].registry = applications[a].registry
              /\ applications'[a].imageRegistry = applications[a].imageRegistry
    <3>1. \A a \in DOMAIN applications : applications[a] \in Application
      BY DEF TypeOK
    <3> QED
      BY <2>1, <3>1 DEF Application
  <2>3. UNCHANGED packages
    BY <1>3 DEF CommitUpdateApplicationKind
  <2>4. ReferentialIntegrity'
    BY <1>0, <2>2, <2>3 DEF IInv, ReferentialIntegrity, RegistriesLive
  <2>5. ProjectIsolation'
    BY <1>0, <2>2, <2>3 DEF IInv, ProjectIsolation
  <2>6. NamesIdentify'
    BY <1>0, <2>2, <2>3 DEF IInv, NamesIdentify
  <2>7. PendingReferences'
    BY <1>0, <2>2, PendingKept
  <2> QED
    BY <2>4, <2>5, <2>6, <2>7 DEF Kept
<1>4. CASE CommitDeleteApplication(h)
  <2>1. PICK i \in DOMAIN applications :
          /\ \A p \in DOMAIN packages : i \notin packages[p].pinned
          /\ applications' = Remove(applications, i)
          /\ packages' = [p \in DOMAIN packages |->
                             [packages[p] EXCEPT !.applications = @ \ {i}]]
    BY <1>4 DEF CommitDeleteApplication, NamedVersion, Named
  <2>2. /\ DOMAIN applications' = DOMAIN applications \ {i}
        /\ \A a \in DOMAIN applications' : applications'[a] = applications[a]
    BY <2>1 DEF Remove
  <2>3. /\ DOMAIN packages' = DOMAIN packages
        /\ \A p \in DOMAIN packages :
              /\ packages'[p].project = packages[p].project
              /\ packages'[p].name = packages[p].name
              /\ packages'[p].version = packages[p].version
              /\ packages'[p].applications = packages[p].applications \ {i}
              /\ packages'[p].pinned = packages[p].pinned
              /\ packages'[p].artifacts = packages[p].artifacts
    <3>1. ASSUME NEW p \in DOMAIN packages, NEW q,
                 q = [packages[p] EXCEPT !.applications = @ \ {i}]
          PROVE  /\ q.project = packages[p].project
                 /\ q.name = packages[p].name
                 /\ q.version = packages[p].version
                 /\ q.applications = packages[p].applications \ {i}
                 /\ q.pinned = packages[p].pinned
                 /\ q.artifacts = packages[p].artifacts
      <4>1. packages[p] \in Package
        BY DEF TypeOK
      <4> QED
        BY <3>1, <4>1 DEF Package
    <3> QED
      BY <2>1, <3>1
  <2>4. ReferentialIntegrity'
    <3>1. \A a \in DOMAIN applications' :
              /\ applications'[a].registry \in DOMAIN registries'
              /\ applications'[a].imageRegistry \in DOMAIN registries' \cup {NoRegistry}
      BY <1>0, <2>2 DEF IInv, ReferentialIntegrity, RegistriesLive
    <3>2. ASSUME NEW p \in DOMAIN packages'
          PROVE  /\ packages'[p].applications \subseteq DOMAIN applications'
                 /\ packages'[p].pinned \subseteq packages'[p].applications
                 /\ packages'[p].artifacts \subseteq DOMAIN artifacts'
      <4>1. /\ packages[p].applications \subseteq DOMAIN applications
            /\ packages[p].pinned \subseteq packages[p].applications
            /\ packages[p].artifacts \subseteq DOMAIN artifacts
            /\ i \notin packages[p].pinned
        BY <2>1, <2>3, <3>2 DEF IInv, ReferentialIntegrity
      <4> QED
        BY <1>0, <2>2, <2>3, <3>2, <4>1
    <3> QED
      BY <3>1, <3>2 DEF ReferentialIntegrity, RegistriesLive
  <2>5. ProjectIsolation'
    BY <1>0, <2>2, <2>3 DEF IInv, ProjectIsolation
  <2>6. NamesIdentify'
    BY <1>0, <2>2, <2>3 DEF IInv, NamesIdentify
  <2>7. PendingReferences'
    BY <1>0, <2>2, PendingKept
  <2> QED
    BY <2>4, <2>5, <2>6, <2>7 DEF Kept
<1> QED
  BY <1>1, <1>2, <1>3, <1>4

\* Writes to the package table: the references a package gets must lead to
\* rows, and those it keeps already do.
LEMMA CommitPackageKeeps ==
    ASSUME IInv, NEW h \in Handlers,
           \/ CommitCreatePackage(h)
           \/ CommitUpdatePackage(h)
           \/ CommitUpdatePackageState(h)
           \/ CommitDeletePackage(h)
    PROVE  Kept'
<1> TypeOK /\ PendingOK(tx[h])
  BY DEF IInv, PendingReferences
<1>0. UNCHANGED <<registries, artifacts, applications>> /\ Finish(h)
  BY DEF CommitCreatePackage, CommitUpdatePackage, CommitUpdatePackageState,
         CommitDeletePackage
<1>1. PendingReferences'
  BY <1>0, PendingKept
<1>2. CASE CommitCreatePackage(h)
  <2>1. PICK id \in FreshPackageIds : packages' = Insert(packages, id, tx[h].row)
    BY <1>2 DEF CommitCreatePackage
  <2>2. /\ DOMAIN packages' = DOMAIN packages \cup {id}
        /\ packages'[id] = tx[h].row
        /\ \A p \in DOMAIN packages : packages'[p] = packages[p]
        /\ id \notin DOMAIN packages
    BY <2>1 DEF Insert, FreshPackageIds
  <2>3. /\ tx[h].row.applications \subseteq DOMAIN applications
        /\ tx[h].row.artifacts \subseteq DOMAIN artifacts
        /\ tx[h].row.pinned \subseteq tx[h].row.applications
        /\ \A a \in DOMAIN applications : a \in tx[h].row.applications =>
               applications[a].project = tx[h].row.project
        /\ \A a \in DOMAIN artifacts : a \in tx[h].row.artifacts =>
               artifacts[a].project = tx[h].row.project
    BY <1>2 DEF CommitCreatePackage, PendingOK
  <2>4. ReferentialIntegrity'
    BY <1>0, <2>2, <2>3 DEF IInv, ReferentialIntegrity, RegistriesLive
  <2>5. ProjectIsolation'
    BY <1>0, <2>2, <2>3 DEF IInv, ProjectIsolation
  <2>6. NamesIdentify'
    <3>1. \A p \in DOMAIN packages :
              ~(packages[p].project = tx[h].row.project
                /\ packages[p].name = tx[h].row.name
                /\ packages[p].version = tx[h].row.version)
      BY <1>2 DEF CommitCreatePackage, NamedVersion, Named
    <3> QED
      BY <1>0, <2>2, <3>1 DEF IInv, NamesIdentify
  <2> QED
    BY <1>1, <2>4, <2>5, <2>6 DEF Kept
<1>3. CASE CommitUpdatePackage(h)
  <2>1. PICK i \in DOMAIN packages :
          LET new == UpdatedPackage(tx[h], i) IN
          /\ packages[i].project = tx[h].row.project
          /\ packages[i].name = tx[h].row.name
          /\ packages[i].version = tx[h].row.version
          /\ new.applications \subseteq DOMAIN applications
          /\ new.pinned \subseteq new.applications
          /\ new.artifacts \subseteq DOMAIN artifacts
          /\ packages' = [packages EXCEPT ![i] = new]
    BY <1>3 DEF CommitUpdatePackage, NamedVersion, Named
  <2> DEFINE new == UpdatedPackage(tx[h], i)
  <2>2. /\ new.project = tx[h].row.project
        /\ new.name = tx[h].row.name
        /\ new.version = tx[h].row.version
        /\ \/ new.applications = tx[h].row.applications
           \/ new.applications = packages[i].applications
        /\ \/ new.artifacts = tx[h].row.artifacts
           \/ new.artifacts = packages[i].artifacts
    <3>1. tx[h].row \in Package
      BY <1>3, TxFields DEF CommitUpdatePackage
    <3> QED
      BY <3>1 DEF UpdatedPackage, Package
  <2>3. /\ new.applications \subseteq DOMAIN applications
        /\ new.pinned \subseteq new.applications
        /\ new.artifacts \subseteq DOMAIN artifacts
    BY <2>1
  <2>4. /\ DOMAIN packages' = DOMAIN packages
        /\ packages'[i] = new
        /\ \A p \in DOMAIN packages : p # i => packages'[p] = packages[p]
    BY <2>1
  <2> HIDE DEF new
  <2>5. ReferentialIntegrity'
    BY <1>0, <2>3, <2>4 DEF IInv, ReferentialIntegrity, RegistriesLive
  <2>6. ProjectIsolation'
    <3>1. /\ \A a \in DOMAIN applications : a \in tx[h].row.applications =>
                 applications[a].project = tx[h].row.project
          /\ \A a \in DOMAIN artifacts : a \in tx[h].row.artifacts =>
                 artifacts[a].project = tx[h].row.project
      BY <1>3 DEF CommitUpdatePackage, PendingOK
    <3>2. /\ \A a \in new.applications \cap DOMAIN applications :
                 applications[a].project = new.project
          /\ \A a \in new.artifacts \cap DOMAIN artifacts :
                 artifacts[a].project = new.project
      BY <2>1, <2>2, <3>1 DEF IInv, ProjectIsolation
    <3> QED
      BY <1>0, <2>4, <3>2 DEF IInv, ProjectIsolation
  <2>7. NamesIdentify'
    <3>1. \A p \in DOMAIN packages :
            /\ packages'[p].project = packages[p].project
            /\ packages'[p].name = packages[p].name
            /\ packages'[p].version = packages[p].version
      BY <2>1, <2>2, <2>4
    <3> QED
      BY <1>0, <2>4, <3>1 DEF IInv, NamesIdentify
  <2> QED
    BY <1>1, <2>5, <2>6, <2>7 DEF Kept
<1>4. CASE CommitUpdatePackageState(h)
  <2>1. PICK i \in DOMAIN packages :
            packages' = [packages EXCEPT ![i].isDeployed = tx[h].row.isDeployed,
                                         ![i].kind = tx[h].row.kind]
    BY <1>4 DEF CommitUpdatePackageState, NamedVersion, Named
  <2>2. /\ DOMAIN packages' = DOMAIN packages
        /\ \A p \in DOMAIN packages :
              /\ packages'[p].project = packages[p].project
              /\ packages'[p].name = packages[p].name
              /\ packages'[p].version = packages[p].version
              /\ packages'[p].applications = packages[p].applications
              /\ packages'[p].pinned = packages[p].pinned
              /\ packages'[p].artifacts = packages[p].artifacts
    <3>1. \A p \in DOMAIN packages : packages[p] \in Package
      BY DEF TypeOK
    <3> QED
      BY <2>1, <3>1 DEF Package
  <2>3. ReferentialIntegrity'
    BY <1>0, <2>2 DEF IInv, ReferentialIntegrity, RegistriesLive
  <2>4. ProjectIsolation'
    BY <1>0, <2>2 DEF IInv, ProjectIsolation
  <2>5. NamesIdentify'
    BY <1>0, <2>2 DEF IInv, NamesIdentify
  <2> QED
    BY <1>1, <2>3, <2>4, <2>5 DEF Kept
<1>5. CASE CommitDeletePackage(h)
  <2>1. PICK i : packages' = Remove(packages, i)
    BY <1>5 DEF CommitDeletePackage
  <2>2. /\ DOMAIN packages' = DOMAIN packages \ {i}
        /\ \A p \in DOMAIN packages' : packages'[p] = packages[p]
    BY <2>1 DEF Remove
  <2>3. ReferentialIntegrity'
    BY <1>0, <2>2 DEF IInv, ReferentialIntegrity, RegistriesLive
  <2>4. ProjectIsolation'
    BY <1>0, <2>2 DEF IInv, ProjectIsolation
  <2>5. NamesIdentify'
    BY <1>0, <2>2 DEF IInv, NamesIdentify
  <2> QED
    BY <1>1, <2>3, <2>4, <2>5 DEF Kept
<1> QED
  BY <1>2, <1>3, <1>4, <1>5

-----------------------------------------------------------------------------
\* The empty catalog satisfies the inductive invariant.
LEMMA InitIInv == Init => IInv
<1> SUFFICES ASSUME Init PROVE IInv
  OBVIOUS
<1>1. TypeOK
  BY InitType
<1>2. /\ DOMAIN registries = {}
      /\ DOMAIN artifacts = {}
      /\ DOMAIN applications = {}
      /\ DOMAIN packages = {}
      /\ \A h \in Handlers : tx[h].op = "Idle"
  BY DEF Init, EmptyTable, Idle
<1> QED
  BY <1>1, <1>2 DEF IInv, ReferentialIntegrity, ProjectIsolation, NamesIdentify,
                    PendingReferences, PendingOK

\* Every step keeps the inductive invariant.
LEMMA NextIInv == IInv /\ [Next]_vars => IInv'
<1> SUFFICES ASSUME IInv, [Next]_vars PROVE IInv'
  OBVIOUS
<1>1. TypeOK'
  BY NextType DEF IInv
<1>2. Kept'
  <2>1. CASE UNCHANGED vars
    BY <2>1 DEF vars, IInv, Kept, ReferentialIntegrity, RegistriesLive,
                ProjectIsolation, NamesIdentify, PendingReferences, PendingOK
  <2>2. ASSUME NEW h \in Handlers, Rollback(h)
        PROVE  Kept'
    <3>1. UNCHANGED <<registries, artifacts, applications, packages>> /\ Finish(h)
      BY <2>2 DEF Rollback, tables
    <3>2. PendingReferences'
      BY <3>1, PendingKept
    <3> QED
      BY <3>1, <3>2 DEF IInv, Kept, ReferentialIntegrity, RegistriesLive,
                        ProjectIsolation, NamesIdentify
  <2>3. ASSUME NEW h \in Handlers, Commit(h)
        PROVE  Kept'
    BY <2>3, CommitRegistryKeeps, CommitArtifactKeeps, CommitApplicationKeeps,
       CommitPackageKeeps DEF Commit
  <2> QED
    BY <2>1, <2>2, <2>3, RegistryRequestKeeps, ArtifactRequestKeeps,
       ApplicationRequestKeeps, PackageRequestKeeps DEF Next
<1> QED
  BY <1>1, <1>2 DEF IInv, Kept

\* The inductive invariant of the store.
THEOREM Inductive == Spec => []IInv
BY InitIInv, NextIInv, PTL DEF Spec

\* Every reference leads to a row, however many requests overlap: what the
\* checks of DeleteRegistry, DeleteArtifact and DeleteApplication leave open,
\* the constraints of the schema close.
THEOREM ReferencesLead == Spec => []ReferentialIntegrity
BY Inductive, PTL DEF IInv

\* No reference crosses projects, although it is written after the lookup in
\* the request's project (getRegistry, createApplicationReferences,
\* createArtifactReferences).
THEOREM ProjectsIsolated == Spec => []ProjectIsolation
BY Inductive, PTL DEF IInv

\* A name and version identify at most one entity of a project.
THEOREM NamesUnique == Spec => []NamesIdentify
BY Inductive, PTL DEF IInv

-----------------------------------------------------------------------------
(* The checks of the handlers, while one request is served at a time: what *)
(* a handler has checked still holds when it commits.  With overlapping    *)
(* requests it need not, and the properties fail.                          *)

OneRequestAtATime == \A g, h \in Handlers : g = h

\* What the checks of transaction t found.
Checked(t) ==
    /\ t.op = "UpdateRegistry" => checkRegistryType(t.row.project, t.row.name, t.row.type)
    /\ t.op = "DeleteRegistry" => RegistryNotInUse(t.project, t.name)
    /\ t.op \in {"CreateApplication", "UpdateApplication"} =>
           /\ t.row.registry \in DOMAIN registries
           /\ registries[t.row.registry].type = "HELM"
           /\ \/ t.row.imageRegistry = NoRegistry
              \/ /\ t.row.imageRegistry \in DOMAIN registries
                 /\ registries[t.row.imageRegistry].type = "IMAGE"
    /\ t.op = "UpdateApplication" =>
           /\ t.added \subseteq t.row.profiles
           /\ \A a \in NamedVersion(applications, t.row.project, t.row.name,
                                     t.row.version) :
                  /\ applicationChanged(applications[a], t.row.displayName, t.row)
                         => checkApplicationNotInDeployedPackages(a)
                  /\ t.setProfiles => ~(applications[a].profiles \subseteq t.row.profiles)
    /\ t.op = "DeleteApplication" => ApplicationNotInPackages(t.project, t.name, t.version)
    /\ t.op = "UpdatePackage" =>
           /\ t.id \in NamedVersion(packages, t.row.project, t.row.name, t.row.version)
           /\ \/ checkDeploymentPackageNotDeployed(t.row.project, t.row.name,
                                                   t.row.version, t.row.isDeployed)
              \/ /\ t.row = [packages[t.id] EXCEPT !.kind = t.row.kind,
                                                  !.profiles = t.row.profiles]
                 /\ OnlyAdds(packages[t.id].profiles, t.row.profiles)
                 /\ ~t.setProfiles
                 /\ t.added \subseteq t.row.profiles
    /\ t.op = "DeletePackage" =>
           checkDeploymentPackageNotDeployed(t.project, t.name, t.version, TRUE)

SInv == /\ IInv
        /\ RegistryTypesFitUse
        /\ \A h \in Handlers : Checked(tx[h])

\* The steps that the action properties of CatalogStore allow.
RegistriesStay ==
    \A a \in DOMAIN applications :
        {applications[a].registry, applications[a].imageRegistry}
            \subseteq DOMAIN registries' \cup {NoRegistry}

ApplicationsStay ==
    \A p \in DOMAIN packages : packages[p].applications \subseteq DOMAIN applications'

PackagesStay == \A p \in DOMAIN packages : packages[p].isDeployed => p \in DOMAIN packages'

PackagesFrozen ==
    \A p \in DOMAIN packages \cap DOMAIN packages' :
        packages[p].isDeployed /\ packages'[p].isDeployed =>
            /\ OnlyAdds(packages[p].profiles, packages'[p].profiles)
            /\ packages'[p] = [packages[p] EXCEPT !.kind = packages'[p].kind,
                                                  !.profiles = packages'[p].profiles]

ContentFrozen ==
    \A a \in DOMAIN applications : InDeployedPackage(a) =>
        /\ a \in DOMAIN applications'
        /\ applications'[a].content = applications[a].content
        /\ applications'[a].displayName = applications[a].displayName
        /\ OnlyAdds(applications[a].profiles, applications'[a].profiles)

\* Nothing added is fine.
LEMMA AddsNothing == \A s : OnlyAdds(s, s)
BY DEF OnlyAdds

Safe == RegistriesStay /\ ApplicationsStay /\ PackagesStay /\ PackagesFrozen /\ ContentFrozen

\* A package is the same but for its kind and profiles.
LEMMA SamePackage ==
    ASSUME TypeOK, NEW p \in DOMAIN packages
    PROVE  /\ packages[p] = [packages[p] EXCEPT !.kind = packages[p].kind,
                                               !.profiles = packages[p].profiles]
           /\ OnlyAdds(packages[p].profiles, packages[p].profiles)
<1>1. packages[p] \in Package
  BY DEF TypeOK
<1> QED
  BY <1>1, AddsNothing DEF Package

\* What a step says of packages and applications that it leaves alone.
LEMMA PackagesUnchanged ==
    ASSUME TypeOK, UNCHANGED packages
    PROVE  PackagesStay /\ PackagesFrozen
BY SamePackage DEF PackagesStay, PackagesFrozen

LEMMA ApplicationsUnchanged ==
    ASSUME IInv, UNCHANGED applications
    PROVE  ApplicationsStay /\ ContentFrozen
<1>1. ReferentialIntegrity
  BY DEF IInv
<1>2. ApplicationsStay
  BY <1>1 DEF ReferentialIntegrity, ApplicationsStay
<1>3. ContentFrozen
  BY AddsNothing DEF ContentFrozen
<1> QED
  BY <1>2, <1>3

LEMMA RegistriesUnchanged ==
    ASSUME IInv, DOMAIN registries \subseteq DOMAIN registries'
    PROVE  RegistriesStay
<1>1. ReferentialIntegrity
  BY DEF IInv
<1> QED
  BY <1>1 DEF ReferentialIntegrity, RegistriesLive, RegistriesStay

\* A request that begins has just checked, and nobody else is served.
LEMMA StartChecked ==
    ASSUME IInv, OneRequestAtATime, NEW h \in Handlers, NEW t, Checked(t), Start(h, t)
    PROVE  \A g \in Handlers : Checked(tx[g])'
<1>1. UNCHANGED <<registries, artifacts, applications, packages>>
  BY DEF Start, tables
<1>2. \A g \in Handlers : tx'[g] = t
  BY DEF Start, IInv, TypeOK, OneRequestAtATime
<1>3. ASSUME NEW g \in Handlers PROVE Checked(tx[g])'
  <2>1. Checked(tx'[g])
    BY <1>2
  <2> QED
    BY <1>1, <2>1 DEF Checked, checkRegistryType, RegistryNotInUse, InProject, Named,
       NamedVersion, checkApplicationNotInDeployedPackages, ApplicationNotInPackages,
       checkDeploymentPackageNotDeployed
<1> QED
  BY <1>3

\* When the request is over there is nothing to check.
LEMMA FinishChecked ==
    ASSUME IInv, OneRequestAtATime, NEW h \in Handlers, Finish(h)
    PROVE  \A g \in Handlers : Checked(tx[g])'
<1>1. ASSUME NEW g \in Handlers PROVE Checked(tx[g])'
  <2>1. tx'[g].op = "Idle"
    BY DEF Finish, IInv, TypeOK, OneRequestAtATime, Idle
  <2> QED
    BY <2>1 DEF Checked
<1> QED
  BY <1>1

\* A name identifies at most one row.
LEMMA Identified ==
    ASSUME IInv, NEW project, NEW name, NEW version
    PROVE  /\ \A r, s \in Named(registries, project, name) : r = s
           /\ \A a, b \in NamedVersion(applications, project, name, version) : a = b
           /\ \A p, q \in NamedVersion(packages, project, name, version) : p = q
<1>1. NamesIdentify
  BY DEF IInv
<1> QED
  BY <1>1 DEF NamesIdentify, Named, NamedVersion

\* Requests that have nothing to check that a commit depends on.
LEMMA UncheckedStart ==
    ASSUME IInv, OneRequestAtATime, NEW h \in Handlers, NEW t, Start(h, t),
           t.op \in {"CreateRegistry", "CreateArtifact", "UpdateArtifact", "DeleteArtifact",
                     "UpdateApplicationKind", "CreatePackage", "UpdatePackageState"}
    PROVE  \A g \in Handlers : Checked(tx[g])'
<1>1. Checked(t)
  BY DEF Checked
<1> QED
  BY <1>1, StartChecked

LEMMA RegistryRequestChecked ==
    ASSUME IInv, OneRequestAtATime, NEW h \in Handlers, RegistryRequest(h)
    PROVE  \A g \in Handlers : Checked(tx[g])'
<1>1. ASSUME NEW project, NEW name, BeginDeleteRegistry(h, project, name)
      PROVE  \A g \in Handlers : Checked(tx[g])'
  <2> DEFINE t == [op |-> "DeleteRegistry", project |-> project, name |-> name]
  <2>1. Checked(t) /\ Start(h, t)
    BY <1>1 DEF BeginDeleteRegistry, Checked
  <2> QED
    BY <2>1, StartChecked
<1>2. ASSUME NEW project, NEW name, NEW displayName, NEW type,
             BeginCreateRegistry(h, project, name, displayName, type)
      PROVE  \A g \in Handlers : Checked(tx[g])'
  BY <1>2, UncheckedStart DEF BeginCreateRegistry
<1>3. ASSUME NEW project, NEW name, NEW displayName, NEW type,
             BeginUpdateRegistry(h, project, name, displayName, type)
      PROVE  \A g \in Handlers : Checked(tx[g])'
  <2> DEFINE t == [op |-> "UpdateRegistry",
                   row |-> [project |-> project, name |-> name,
                            displayName |-> validateDisplayName(name, displayName),
                            type |-> type]]
  <2>1. Checked(t) /\ Start(h, t)
    BY <1>3 DEF BeginUpdateRegistry, Checked
  <2> QED
    BY <2>1, StartChecked
<1> QED
  BY <1>1, <1>2, <1>3 DEF RegistryRequest

LEMMA ArtifactRequestChecked ==
    ASSUME IInv, OneRequestAtATime, NEW h \in Handlers, ArtifactRequest(h)
    PROVE  \A g \in Handlers : Checked(tx[g])'
BY UncheckedStart DEF ArtifactRequest, BeginDeleteArtifact, BeginCreateArtifact,
   BeginUpdateArtifact

\* getRegistry finds live registries of the type that was asked for.
LEMMA TypesFound ==
    ASSUME NEW project, NEW helmName, NEW imageName,
           NEW r \in getRegistry(project, helmName, "HELM"),
           NEW i \in getImageRegistry(project, imageName)
    PROVE  /\ r \in DOMAIN registries /\ registries[r].type = "HELM"
           /\ \/ i = NoRegistry
              \/ i \in DOMAIN registries /\ registries[i].type = "IMAGE"
BY DEF getRegistry, getImageRegistry, Named

LEMMA ApplicationRequestChecked ==
    ASSUME IInv, OneRequestAtATime, NEW h \in Handlers, ApplicationRequest(h)
    PROVE  \A g \in Handlers : Checked(tx[g])'
<1>1. ASSUME NEW project, NEW name, NEW version,
             BeginDeleteApplication(h, project, name, version)
      PROVE  \A g \in Handlers : Checked(tx[g])'
  <2> DEFINE t == [op |-> "DeleteApplication", project |-> project, name |-> name,
                   version |-> version]
  <2>1. Checked(t) /\ Start(h, t)
    BY <1>1 DEF BeginDeleteApplication, Checked
  <2> QED
    BY <2>1, StartChecked
<1>2. ASSUME NEW project, NEW name, NEW version, NEW displayName, NEW helmName,
             NEW imageName, NEW kind, NEW body,
             BeginCreateApplication(h, project, name, version, displayName, helmName,
                                    imageName, kind, body)
      PROVE  \A g \in Handlers : Checked(tx[g])'
  <2>1. PICK r \in getRegistry(project, helmName, "HELM"),
             i \in getImageRegistry(project, imageName) :
             Start(h, [op |-> "CreateApplication",
                       row |-> [project |-> project, name |-> name,
                                version |-> version,
                                displayName |-> validateDisplayName(name, displayName),
                                kind |-> kindToDB(kind), content |-> body.content,
                                profiles |-> body.profiles, ignored |-> body.ignored,
                                registry |-> r, imageRegistry |-> i]])
    BY <1>2 DEF BeginCreateApplication
  <2> DEFINE row == [project |-> project, name |-> name, version |-> version,
                     displayName |-> validateDisplayName(name, displayName),
                     kind |-> kindToDB(kind), content |-> body.content,
                     profiles |-> body.profiles, ignored |-> body.ignored,
                     registry |-> r, imageRegistry |-> i]
             t == [op |-> "CreateApplication", row |-> row]
  <2>2. Start(h, t)
    BY <2>1
  <2>3. t.op = "CreateApplication" /\ t.row.registry = r /\ t.row.imageRegistry = i
    OBVIOUS
  <2> HIDE DEF t
  <2>4. Checked(t)
    BY <2>3, TypesFound DEF Checked
  <2> QED
    BY <2>2, <2>4, StartChecked
<1>3. ASSUME NEW project, NEW name, NEW version, NEW displayName, NEW helmName,
             NEW imageName, NEW kind, NEW body,
             BeginUpdateApplication(h, project, name, version, displayName, helmName,
                                    imageName, kind, body)
      PROVE  \A g \in Handlers : Checked(tx[g])'
  <2> DEFINE given == validateDisplayName(name, displayName)
             newKind(a) == IF kind = Unspecified THEN applications[a].kind ELSE kind
             changed(a) == applicationChanged(applications[a], given, body)
             row(a, r, i) == [project |-> project, name |-> name, version |-> version,
                              displayName |-> given, kind |-> newKind(a),
                              content |-> body.content, profiles |-> body.profiles,
                              ignored |-> body.ignored, registry |-> r,
                              imageRegistry |-> i]
  <2>1. PICK a \in NamedVersion(applications, project, name, version),
             r \in getRegistry(project, helmName, "HELM"),
             i \in getImageRegistry(project, imageName) :
             IF newKind(a) # applications[a].kind /\ ~changed(a)
             THEN Start(h, [op |-> "UpdateApplicationKind", row |-> row(a, r, i)])
             ELSE /\ changed(a) => checkApplicationNotInDeployedPackages(a)
                  /\ Start(h, ApplicationUpdate(a, row(a, r, i)))
    BY <1>3 DEF BeginUpdateApplication
  <2>2. CASE newKind(a) # applications[a].kind /\ ~changed(a)
    <3>1. Start(h, [op |-> "UpdateApplicationKind", row |-> row(a, r, i)])
      BY <2>1, <2>2
    <3> QED
      BY <3>1, UncheckedStart
  <2>3. CASE ~(newKind(a) # applications[a].kind /\ ~changed(a))
    <3> DEFINE new == row(a, r, i)
               t == ApplicationUpdate(a, new)
    <3>1. /\ changed(a) => checkApplicationNotInDeployedPackages(a)
          /\ Start(h, t)
      BY <2>1, <2>3
    <3>2. /\ t.op = "UpdateApplication" /\ t.row = new
          /\ t.added \subseteq t.row.profiles
          /\ t.setProfiles => ~(applications[a].profiles \subseteq t.row.profiles)
      BY DEF ApplicationUpdate
    <3>3. /\ new.project = project /\ new.name = name /\ new.version = version
          /\ new.displayName = given /\ new.content = body.content
          /\ new.profiles = body.profiles
          /\ new.registry = r /\ new.imageRegistry = i
      OBVIOUS
    <3> HIDE DEF new, t, given
    <3>4. \A b \in NamedVersion(applications, project, name, version) : b = a
      BY <2>1, Identified
    <3>5. /\ r \in DOMAIN registries /\ registries[r].type = "HELM"
          /\ \/ i = NoRegistry
             \/ i \in DOMAIN registries /\ registries[i].type = "IMAGE"
      BY <2>1, TypesFound
    <3>6. applicationChanged(applications[a], new.displayName, new) = changed(a)
      BY <3>3 DEF applicationChanged
    <3>7. \A b \in NamedVersion(applications, project, name, version) :
             /\ applicationChanged(applications[b], new.displayName, new)
                    => checkApplicationNotInDeployedPackages(b)
             /\ t.setProfiles => ~(applications[b].profiles \subseteq t.row.profiles)
      BY <3>1, <3>2, <3>4, <3>6
    <3>8. Checked(t)
      BY <3>2, <3>3, <3>5, <3>7 DEF Checked
    <3> QED
      BY <3>1, <3>8, StartChecked
  <2> QED
    BY <2>2, <2>3
<1> QED
  BY <1>1, <1>2, <1>3 DEF ApplicationRequest

\* A package row with another kind and other profiles, field by field.
LEMMA PackageExcept ==
    ASSUME NEW r \in Package, NEW k, NEW b
    PROVE  [r EXCEPT !.kind = k, !.profiles = b] =
               [project |-> r.project, name |-> r.name, version |-> r.version,
                displayName |-> r.displayName, kind |-> k, content |-> r.content,
                profiles |-> b, isDeployed |-> r.isDeployed,
                applications |-> r.applications, pinned |-> r.pinned,
                artifacts |-> r.artifacts]
<1> DEFINE f == [r EXCEPT !.kind = k]
<1>1. [r EXCEPT !.kind = k, !.profiles = b] = [f EXCEPT !.profiles = b]
  BY DEF Package
<1>2. f = [project |-> r.project, name |-> r.name, version |-> r.version,
           displayName |-> r.displayName, kind |-> k, content |-> r.content,
           profiles |-> r.profiles, isDeployed |-> r.isDeployed,
           applications |-> r.applications, pinned |-> r.pinned,
           artifacts |-> r.artifacts]
  BY DEF Package
<1> HIDE DEF f
<1>3. [f EXCEPT !.profiles = b] =
          [project |-> r.project, name |-> r.name, version |-> r.version,
           displayName |-> r.displayName, kind |-> k, content |-> r.content,
           profiles |-> b, isDeployed |-> r.isDeployed,
           applications |-> r.applications, pinned |-> r.pinned,
           artifacts |-> r.artifacts]
  BY <1>2
<1> QED
  BY <1>1, <1>3

LEMMA PackageRequestChecked ==
    ASSUME IInv, OneRequestAtATime, NEW h \in Handlers, PackageRequest(h)
    PROVE  \A g \in Handlers : Checked(tx[g])'
<1>1. ASSUME NEW project, NEW name, NEW version,
             BeginDeletePackage(h, project, name, version)
      PROVE  \A g \in Handlers : Checked(tx[g])'
  <2> DEFINE t == [op |-> "DeletePackage", project |-> project, name |-> name,
                   version |-> version]
  <2>1. Checked(t) /\ Start(h, t)
    BY <1>1 DEF BeginDeletePackage, Checked
  <2> QED
    BY <2>1, StartChecked
<1>2. ASSUME NEW project, NEW name, NEW version, NEW displayName, NEW isDeployed,
             NEW kind, NEW body,
             BeginCreatePackage(h, project, name, version, displayName, isDeployed,
                                kind, body)
      PROVE  \A g \in Handlers : Checked(tx[g])'
  BY <1>2, UncheckedStart DEF BeginCreatePackage
<1>3. ASSUME NEW project, NEW name, NEW version, NEW displayName, NEW isDeployed,
             NEW kind, NEW body,
             BeginUpdatePackage(h, project, name, version, displayName, isDeployed,
                                kind, body)
      PROVE  \A g \in Handlers : Checked(tx[g])'
  <2> DEFINE row(refs, pinned) ==
                 RequestedPackage(project, name, version, displayName, isDeployed, kind,
                                  body, refs, pinned)
             changed(p, refs, pinned) ==
                 packageChanged(packages[p], displayName, body, refs, pinned)
  <2>1. PICK p \in NamedVersion(packages, project, name, version),
             refs \in References(project) : \E pinned \in SUBSET refs.applications :
             IF ~changed(p, refs, pinned)
                /\ (kind # packages[p].kind \/ isDeployed # packages[p].isDeployed)
             THEN Start(h, [op |-> "UpdatePackageState", row |-> row(refs, pinned)])
             ELSE /\ changed(p, refs, pinned) => checkDeploymentPackageNotDeployed(
                                                     project, name, version, isDeployed)
                  /\ Start(h, PackageUpdate(p, row(refs, pinned)))
    BY <1>3 DEF BeginUpdatePackage
  <2>2. PICK pinned \in SUBSET refs.applications :
             IF ~changed(p, refs, pinned)
                /\ (kind # packages[p].kind \/ isDeployed # packages[p].isDeployed)
             THEN Start(h, [op |-> "UpdatePackageState", row |-> row(refs, pinned)])
             ELSE /\ changed(p, refs, pinned) => checkDeploymentPackageNotDeployed(
                                                     project, name, version, isDeployed)
                  /\ Start(h, PackageUpdate(p, row(refs, pinned)))
    BY <2>1
  <2>3. CASE ~changed(p, refs, pinned)
             /\ (kind # packages[p].kind \/ isDeployed # packages[p].isDeployed)
    <3>1. Start(h, [op |-> "UpdatePackageState", row |-> row(refs, pinned)])
      BY <2>2, <2>3
    <3> QED
      BY <3>1, UncheckedStart
  <2>4. CASE ~(~changed(p, refs, pinned)
               /\ (kind # packages[p].kind \/ isDeployed # packages[p].isDeployed))
    <3> DEFINE new == row(refs, pinned)
               t == PackageUpdate(p, new)
    <3>1. /\ changed(p, refs, pinned) =>
                 checkDeploymentPackageNotDeployed(project, name, version, isDeployed)
          /\ Start(h, t)
      BY <2>2, <2>4
    <3>2. /\ t.op = "UpdatePackage" /\ t.row = new /\ t.id = p
          /\ t.added \subseteq t.row.profiles
          /\ t.setProfiles => \/ ~(packages[p].profiles \subseteq new.profiles)
                              \/ new.applications # packages[p].applications
      BY DEF PackageUpdate
    <3>3. /\ new.project = project /\ new.name = name /\ new.version = version
          /\ new.isDeployed = isDeployed /\ new.profiles = body.profiles
          /\ new.applications = refs.applications
      BY DEF RequestedPackage
    <3>6. ASSUME ~changed(p, refs, pinned)
          PROVE  OnlyAdds(packages[p].profiles, new.profiles) /\ ~t.setProfiles
      <4>1. /\ OnlyAdds(packages[p].profiles, body.profiles)
            /\ refs.applications = packages[p].applications
        BY <3>6 DEF packageChanged, profilesChanged, OnlyAdds
      <4> QED
        BY <3>2, <3>3, <4>1 DEF OnlyAdds
    <3>4. ASSUME ~changed(p, refs, pinned)
          PROVE  new = [packages[p] EXCEPT !.kind = new.kind, !.profiles = new.profiles]
      <4>1. packages[p] \in Package
        BY DEF IInv, TypeOK, NamedVersion, Named
      <4>2. /\ displayName = packages[p].displayName /\ body.content = packages[p].content
            /\ refs.applications = packages[p].applications
            /\ pinned = packages[p].pinned /\ refs.artifacts = packages[p].artifacts
            /\ isDeployed = packages[p].isDeployed
        BY <2>4, <3>4 DEF packageChanged
      <4>3. validateDisplayName(name, displayName) = packages[p].displayName
        BY <4>1, <4>2, NullsAreNotValues DEF validateDisplayName, Package
      <4>4. /\ packages[p].project = project /\ packages[p].name = name
            /\ packages[p].version = version
        BY DEF NamedVersion, Named
      <4> DEFINE same(k, b) ==
                     [project |-> project, name |-> name, version |-> version,
                      displayName |-> packages[p].displayName, kind |-> k,
                      content |-> packages[p].content, profiles |-> b,
                      isDeployed |-> packages[p].isDeployed,
                      applications |-> packages[p].applications,
                      pinned |-> packages[p].pinned, artifacts |-> packages[p].artifacts]
      <4>5. [packages[p] EXCEPT !.kind = new.kind, !.profiles = new.profiles]
                = same(new.kind, new.profiles)
        <5> HIDE DEF new
        <5> QED
          BY <4>1, <4>4, PackageExcept
      <4>6. new = same(kindToDB(kind), body.profiles)
        BY <4>2, <4>3 DEF RequestedPackage
      <4>7. new.kind = kindToDB(kind) /\ new.profiles = body.profiles
        BY DEF RequestedPackage
      <4> HIDE DEF same, new
      <4> QED
        BY <4>5, <4>6, <4>7
    <3> HIDE DEF new, t
    <3>5. Checked(t)
      BY <2>1, <3>1, <3>2, <3>3, <3>4, <3>6 DEF Checked
    <3> QED
      BY <3>1, <3>5, StartChecked
  <2> QED
    BY <2>3, <2>4
<1> QED
  BY <1>1, <1>2, <1>3 DEF PackageRequest

-----------------------------------------------------------------------------
(* What the commits write, as long as what was checked holds.              *)

LEMMA RegistryCommitIsSafe ==
    ASSUME SInv, NEW h \in Handlers,
           \/ CommitCreateRegistry(h)
           \/ CommitUpdateRegistry(h)
           \/ CommitDeleteRegistry(h)
    PROVE  Safe /\ RegistryTypesFitUse'
<1> IInv /\ TypeOK /\ Checked(tx[h])
  BY DEF SInv, IInv
<1>0. UNCHANGED packages
  BY DEF CommitCreateRegistry, CommitUpdateRegistry, CommitDeleteRegistry
<1>1. PackagesStay /\ PackagesFrozen
  BY <1>0, PackagesUnchanged
<1>2. CASE CommitCreateRegistry(h)
  <2>1. PICK id \in FreshRegistryIds : registries' = Insert(registries, id, tx[h].row)
    BY <1>2 DEF CommitCreateRegistry
  <2>2. /\ DOMAIN registries' = DOMAIN registries \cup {id}
        /\ id \notin DOMAIN registries /\ id \in RegistryIds
        /\ \A r \in DOMAIN registries : registries'[r] = registries[r]
    BY <2>1 DEF Insert, FreshRegistryIds
  <2>3. UNCHANGED applications
    BY <1>2 DEF CommitCreateRegistry
  <2>4. \A a \in DOMAIN applications :
            applications[a].registry # id /\ applications[a].imageRegistry # id
    BY <2>2, NullsAreNotValues DEF IInv, ReferentialIntegrity, RegistriesLive
  <2>5. RegistryTypesFitUse'
    BY <2>2, <2>3, <2>4 DEF SInv, RegistryTypesFitUse
  <2> QED
    BY <1>1, <2>2, <2>3, <2>5, ApplicationsUnchanged, RegistriesUnchanged DEF Safe
<1>3. CASE CommitUpdateRegistry(h)
  <2> DEFINE row == tx[h].row
  <2>1. PICK r \in Named(registries, row.project, row.name) :
            registries' = [registries EXCEPT ![r] = row]
    BY <1>3 DEF CommitUpdateRegistry
  <2>2. /\ DOMAIN registries' = DOMAIN registries
        /\ r \in DOMAIN registries /\ registries'[r] = row
        /\ \A s \in DOMAIN registries : s # r => registries'[s] = registries[s]
    BY <2>1 DEF Named
  <2>3. UNCHANGED applications
    BY <1>3 DEF CommitUpdateRegistry
  <2>4. registries[r].type # row.type =>
            \A a \in DOMAIN applications :
                IF row.type = "HELM" THEN applications[a].imageRegistry # r
                                     ELSE applications[a].registry # r
    <3>1. checkRegistryType(row.project, row.name, row.type)
      BY <1>3 DEF Checked, CommitUpdateRegistry
    <3>2. \A s \in Named(registries, row.project, row.name) : s = r
      BY <2>1, Identified
    <3> QED
      BY <3>1, <3>2 DEF checkRegistryType
  <2>5. row.type \in RegistryTypes
    BY <1>3, TxFields DEF CommitUpdateRegistry, Registry
  <2> HIDE DEF row
  <2>6. RegistryTypesFitUse'
    <3> SUFFICES ASSUME NEW a \in DOMAIN applications, NEW s \in DOMAIN registries
                 PROVE  /\ s = applications[a].registry => registries'[s].type = "HELM"
                        /\ s = applications[a].imageRegistry => registries'[s].type = "IMAGE"
      BY <2>2, <2>3 DEF RegistryTypesFitUse
    <3>1. /\ s = applications[a].registry => registries[s].type = "HELM"
          /\ s = applications[a].imageRegistry => registries[s].type = "IMAGE"
      BY DEF SInv, RegistryTypesFitUse
    <3>2. CASE s # r
      BY <2>2, <3>1, <3>2
    <3>3. CASE s = r
      BY <2>2, <2>4, <2>5, <3>1, <3>3 DEF RegistryTypes
    <3> QED
      BY <3>2, <3>3
  <2> QED
    BY <1>1, <2>2, <2>3, <2>6, ApplicationsUnchanged, RegistriesUnchanged DEF Safe
<1>4. CASE CommitDeleteRegistry(h)
  <2>1. PICK r \in Named(registries, tx[h].project, tx[h].name) :
          /\ registries' = Remove(registries, r)
          /\ applications' =
                 [a \in DOMAIN applications |->
                     [applications[a] EXCEPT
                         !.imageRegistry = IF @ = r THEN NoRegistry ELSE @]]
    BY <1>4 DEF CommitDeleteRegistry
  <2>2. /\ DOMAIN registries' = DOMAIN registries \ {r}
        /\ \A s \in DOMAIN registries' : registries'[s] = registries[s]
        /\ r \in DOMAIN registries /\ registries[r].project = tx[h].project
        /\ registries[r].name = tx[h].name
    BY <2>1 DEF Remove, Named
  <2>3. \A a \in DOMAIN applications :
            applications[a].registry # r /\ applications[a].imageRegistry # r
    <3> SUFFICES ASSUME NEW a \in DOMAIN applications,
                        r \in {applications[a].registry, applications[a].imageRegistry}
                 PROVE  FALSE
      OBVIOUS
    <3>1. RegistryNotInUse(tx[h].project, tx[h].name)
      BY <1>4 DEF Checked, CommitDeleteRegistry
    <3>2. registries[r].project = applications[a].project
      BY <2>2 DEF IInv, ProjectIsolation
    <3> QED
      BY <2>2, <3>1, <3>2 DEF RegistryNotInUse, InProject
  <2>4. applications' = applications
    <3>1. \A a \in DOMAIN applications : applications[a] \in Application
      BY DEF TypeOK
    <3>2. ASSUME NEW a \in DOMAIN applications
          PROVE  [applications[a] EXCEPT
                     !.imageRegistry = IF @ = r THEN NoRegistry ELSE @] = applications[a]
      BY <2>3, <3>1 DEF Application
    <3>3. applications = [a \in DOMAIN applications |-> applications[a]]
      BY DEF TypeOK
    <3> QED
      BY <2>1, <3>2, <3>3
  <2>5. RegistriesStay
    BY <2>2, <2>3 DEF IInv, ReferentialIntegrity, RegistriesLive, RegistriesStay
  <2>6. RegistryTypesFitUse'
    BY <2>2, <2>4 DEF SInv, RegistryTypesFitUse
  <2> QED
    BY <1>1, <2>4, <2>5, <2>6, ApplicationsUnchanged DEF Safe
<1> QED
  BY <1>2, <1>3, <1>4

LEMMA ApplicationCommitIsSafe ==
    ASSUME SInv, NEW h \in Handlers,
           \/ CommitCreateApplication(h)
           \/ CommitUpdateApplication(h)
           \/ CommitUpdateApplicationKind(h)
           \/ CommitDeleteApplication(h)
    PROVE  Safe /\ RegistryTypesFitUse'
<1> IInv /\ TypeOK /\ Checked(tx[h])
  BY DEF SInv, IInv
<1> DEFINE row == tx[h].row
<1>0. UNCHANGED registries
  BY DEF CommitCreateApplication, CommitUpdateApplication, CommitUpdateApplicationKind,
         CommitDeleteApplication
<1>1. RegistriesStay
  BY <1>0, RegistriesUnchanged
<1>2. \A p \in DOMAIN packages : packages[p].applications \subseteq DOMAIN applications
  BY DEF IInv, ReferentialIntegrity
<1>3. \A r \in RegistryIds : r # NoRegistry
  BY NullsAreNotValues
<1>4. CASE CommitCreateApplication(h)
  <2>1. PICK id \in FreshApplicationIds : applications' = Insert(applications, id, row)
    BY <1>4 DEF CommitCreateApplication
  <2>2. /\ DOMAIN applications' = DOMAIN applications \cup {id}
        /\ applications'[id] = row
        /\ \A a \in DOMAIN applications : a # id => applications'[a] = applications[a]
        /\ id \notin DOMAIN applications
    BY <2>1 DEF Insert, FreshApplicationIds
  <2>3. /\ registries[row.registry].type = "HELM"
        /\ row.imageRegistry = NoRegistry \/ registries[row.imageRegistry].type = "IMAGE"
    BY <1>4 DEF Checked, CommitCreateApplication
  <2>4. UNCHANGED packages
    BY <1>4 DEF CommitCreateApplication
  <2> HIDE DEF row
  <2>5. RegistryTypesFitUse'
    BY <1>0, <1>3, <2>2, <2>3 DEF SInv, RegistryTypesFitUse, TypeOK
  <2>6. ApplicationsStay /\ ContentFrozen
    BY <1>2, <2>2, AddsNothing DEF ApplicationsStay, ContentFrozen
  <2> QED
    BY <1>1, <2>4, <2>5, <2>6, PackagesUnchanged DEF Safe
<1>5. CASE CommitUpdateApplication(h)
  <2> DEFINE t == tx[h]
             new(a) == UpdatedApplication(t, a)
  <2>1. PICK i \in NamedVersion(applications, row.project, row.name, row.version) :
            applications' = [applications EXCEPT ![i] = new(i)]
    BY <1>5 DEF CommitUpdateApplication
  <2>9. row \in Application
    BY <1>5, TxFields DEF CommitUpdateApplication
  <2>10. /\ new(i).registry = row.registry
         /\ new(i).imageRegistry = row.imageRegistry
         /\ new(i).content = row.content
         /\ new(i).displayName = row.displayName
         /\ new(i).profiles = ProfilesAfter(t, i, applications[i].profiles)
    BY <2>9 DEF UpdatedApplication, Application
  <2> HIDE DEF new
  <2>2. /\ DOMAIN applications' = DOMAIN applications
        /\ i \in DOMAIN applications /\ applications'[i] = new(i)
        /\ \A a \in DOMAIN applications : a # i => applications'[a] = applications[a]
    BY <2>1 DEF NamedVersion, Named
  <2>3. /\ registries[row.registry].type = "HELM"
        /\ row.imageRegistry = NoRegistry \/ registries[row.imageRegistry].type = "IMAGE"
    BY <1>5 DEF Checked, CommitUpdateApplication
  <2>4. /\ applicationChanged(applications[i], row.displayName, row)
              => checkApplicationNotInDeployedPackages(i)
        /\ t.setProfiles => ~(applications[i].profiles \subseteq row.profiles)
        /\ t.added \subseteq row.profiles
    BY <1>5, <2>1 DEF Checked, CommitUpdateApplication
  <2>5. UNCHANGED packages
    BY <1>5 DEF CommitUpdateApplication
  <2>11. t.row = row
    OBVIOUS
  <2> HIDE DEF row, t
  <2>6. RegistryTypesFitUse'
    BY <1>0, <1>3, <2>2, <2>3, <2>10 DEF SInv, RegistryTypesFitUse, TypeOK
  <2>7. ApplicationsStay
    BY <1>2, <2>2 DEF ApplicationsStay
  <2>8. ContentFrozen
    <3>1. ASSUME InDeployedPackage(i)
          PROVE  /\ row.content = applications[i].content
                 /\ row.displayName = applications[i].displayName
                 /\ OnlyAdds(applications[i].profiles, row.profiles)
      <4>1. ~applicationChanged(applications[i], row.displayName, row)
        BY <2>4, <3>1 DEF InDeployedPackage, checkApplicationNotInDeployedPackages
      <4> QED
        BY <4>1 DEF applicationChanged, profilesChanged, OnlyAdds
    <3>2. ASSUME OnlyAdds(applications[i].profiles, row.profiles)
          PROVE  OnlyAdds(applications[i].profiles, new(i).profiles)
      BY <2>4, <2>10, <3>2 DEF ProfilesAfter, OnlyAdds
    <3> QED
      BY <2>2, <2>10, <3>1, <3>2, AddsNothing DEF ContentFrozen
  <2> QED
    BY <1>1, <2>5, <2>6, <2>7, <2>8, PackagesUnchanged DEF Safe
<1>6. CASE CommitUpdateApplicationKind(h)
  <2>1. PICK i \in DOMAIN applications :
            applications' = [applications EXCEPT ![i].kind = row.kind]
    BY <1>6 DEF CommitUpdateApplicationKind, NamedVersion, Named
  <2>2. /\ DOMAIN applications' = DOMAIN applications
        /\ \A a \in DOMAIN applications :
              /\ applications'[a].registry = applications[a].registry
              /\ applications'[a].imageRegistry = applications[a].imageRegistry
              /\ applications'[a].content = applications[a].content
              /\ applications'[a].displayName = applications[a].displayName
              /\ applications'[a].profiles = applications[a].profiles
    <3>1. \A a \in DOMAIN applications : applications[a] \in Application
      BY DEF TypeOK
    <3> QED
      BY <2>1, <3>1 DEF Application
  <2>3. UNCHANGED packages
    BY <1>6 DEF CommitUpdateApplicationKind
  <2>4. RegistryTypesFitUse'
    BY <1>0, <2>2 DEF SInv, RegistryTypesFitUse
  <2>5. ApplicationsStay /\ ContentFrozen
    BY <1>2, <2>2, AddsNothing DEF ApplicationsStay, ContentFrozen
  <2> QED
    BY <1>1, <2>3, <2>4, <2>5, PackagesUnchanged DEF Safe
<1>7. CASE CommitDeleteApplication(h)
  <2>1. PICK i \in NamedVersion(applications, tx[h].project, tx[h].name, tx[h].version) :
          /\ applications' = Remove(applications, i)
          /\ packages' = [p \in DOMAIN packages |->
                             [packages[p] EXCEPT !.applications = @ \ {i}]]
    BY <1>7 DEF CommitDeleteApplication
  <2>2. /\ DOMAIN applications' = DOMAIN applications \ {i}
        /\ \A a \in DOMAIN applications' : applications'[a] = applications[a]
    BY <2>1 DEF Remove
  <2>3. \A p \in DOMAIN packages : i \notin packages[p].applications
    BY <1>7, <2>1 DEF Checked, ApplicationNotInPackages, CommitDeleteApplication
  <2>4. packages' = packages
    <3>1. \A p \in DOMAIN packages : packages[p] \in Package
      BY DEF TypeOK
    <3>2. ASSUME NEW p \in DOMAIN packages
          PROVE  [packages[p] EXCEPT !.applications = @ \ {i}] = packages[p]
      <4>1. packages[p].applications \ {i} = packages[p].applications
        BY <2>3
      <4> QED
        BY <3>1, <4>1 DEF Package
    <3>3. packages = [p \in DOMAIN packages |-> packages[p]]
      BY DEF TypeOK
    <3> QED
      BY <2>1, <3>2, <3>3
  <2>5. RegistryTypesFitUse'
    BY <1>0, <2>2 DEF SInv, RegistryTypesFitUse
  <2>6. ApplicationsStay
    BY <1>2, <2>2, <2>3 DEF ApplicationsStay
  <2>7. ContentFrozen
    BY <2>2, <2>3, AddsNothing DEF ContentFrozen, InDeployedPackage
  <2> QED
    BY <1>1, <2>4, <2>5, <2>6, <2>7, PackagesUnchanged DEF Safe
<1> QED
  BY <1>4, <1>5, <1>6, <1>7

LEMMA PackageCommitIsSafe ==
    ASSUME SInv, NEW h \in Handlers,
           \/ CommitCreatePackage(h)
           \/ CommitUpdatePackage(h)
           \/ CommitUpdatePackageState(h)
           \/ CommitDeletePackage(h)
    PROVE  Safe /\ RegistryTypesFitUse'
<1> IInv /\ TypeOK /\ Checked(tx[h])
  BY DEF SInv, IInv
<1>0. UNCHANGED <<registries, applications>>
  BY DEF CommitCreatePackage, CommitUpdatePackage, CommitUpdatePackageState,
         CommitDeletePackage
<1>1. RegistriesStay /\ ApplicationsStay /\ ContentFrozen
  BY <1>0, RegistriesUnchanged, ApplicationsUnchanged
<1>2. RegistryTypesFitUse'
  BY <1>0 DEF SInv, RegistryTypesFitUse
<1>3. CASE CommitCreatePackage(h)
  <2>1. PICK id \in FreshPackageIds : packages' = Insert(packages, id, tx[h].row)
    BY <1>3 DEF CommitCreatePackage
  <2>2. /\ DOMAIN packages' = DOMAIN packages \cup {id}
        /\ \A p \in DOMAIN packages : packages'[p] = packages[p]
    BY <2>1 DEF Insert, FreshPackageIds
  <2>3. PackagesStay /\ PackagesFrozen
    BY <2>2, SamePackage DEF PackagesStay, PackagesFrozen
  <2> QED
    BY <1>1, <1>2, <2>3 DEF Safe
<1>4. CASE CommitUpdatePackage(h)
  <2> DEFINE t == tx[h]
  <2>1. PICK i \in NamedVersion(packages, t.row.project, t.row.name, t.row.version) :
            packages' = [packages EXCEPT ![i] = UpdatedPackage(t, i)]
    BY <1>4 DEF CommitUpdatePackage
  <2>2. /\ DOMAIN packages' = DOMAIN packages /\ i \in DOMAIN packages
        /\ packages'[i] = UpdatedPackage(t, i)
        /\ \A p \in DOMAIN packages : p # i => packages'[p] = packages[p]
    BY <2>1 DEF NamedVersion, Named
  <2>3. /\ t.id = i
        /\ \/ checkDeploymentPackageNotDeployed(t.row.project, t.row.name,
                                                t.row.version, t.row.isDeployed)
           \/ /\ t.row = [packages[i] EXCEPT !.kind = t.row.kind,
                                            !.profiles = t.row.profiles]
              /\ OnlyAdds(packages[i].profiles, t.row.profiles)
              /\ ~t.setProfiles
              /\ t.added \subseteq t.row.profiles
    <3>1. /\ t.id \in NamedVersion(packages, t.row.project, t.row.name, t.row.version)
          /\ \/ checkDeploymentPackageNotDeployed(t.row.project, t.row.name,
                                                  t.row.version, t.row.isDeployed)
             \/ /\ t.row = [packages[t.id] EXCEPT !.kind = t.row.kind,
                                                 !.profiles = t.row.profiles]
                /\ OnlyAdds(packages[t.id].profiles, t.row.profiles)
                /\ ~t.setProfiles
                /\ t.added \subseteq t.row.profiles
      BY <1>4 DEF Checked, CommitUpdatePackage
    <3>2. t.id = i
      BY <2>1, <3>1, Identified
    <3> QED
      BY <3>1, <3>2
  <2>4. t.row \in Package /\ packages[i] \in Package
    BY <1>4, <2>2, TxFields DEF CommitUpdatePackage, TypeOK
  <2> HIDE DEF t
  <2>5. UpdatedPackage(t, i).isDeployed = t.row.isDeployed
    BY <2>4 DEF UpdatedPackage, Package
  <2>6. ASSUME packages[i].isDeployed, packages'[i].isDeployed
        PROVE  /\ OnlyAdds(packages[i].profiles, packages'[i].profiles)
               /\ packages'[i] = [packages[i] EXCEPT !.kind = packages'[i].kind,
                                                     !.profiles = packages'[i].profiles]
    <3>1. ~checkDeploymentPackageNotDeployed(t.row.project, t.row.name, t.row.version,
                                             t.row.isDeployed)
      BY <2>1, <2>2, <2>5, <2>6 DEF checkDeploymentPackageNotDeployed
    <3>2. /\ t.row = [packages[i] EXCEPT !.kind = t.row.kind, !.profiles = t.row.profiles]
          /\ OnlyAdds(packages[i].profiles, t.row.profiles)
          /\ ~t.setProfiles
          /\ t.added \subseteq t.row.profiles
      BY <2>3, <3>1
    <3>3. /\ t.row.applications = packages[i].applications
          /\ t.row.pinned = packages[i].pinned
          /\ t.row.artifacts = packages[i].artifacts
      BY <2>4, <3>2 DEF Package
    <3> DEFINE after == packages[i].profiles \cup t.added
    <3>4. ProfilesAfter(t, i, packages[i].profiles) = after
      BY <2>3, <3>2 DEF ProfilesAfter
    <3>5. UpdatedPackage(t, i) = [t.row EXCEPT !.profiles = after]
      BY <2>4, <3>3, <3>4 DEF UpdatedPackage, Package
    <3>6. OnlyAdds(packages[i].profiles, after)
      BY <3>2 DEF OnlyAdds
    <3> HIDE DEF after
    <3>7. [t.row EXCEPT !.profiles = after]
              = [packages[i] EXCEPT !.kind = t.row.kind, !.profiles = after]
      BY <2>4, <3>2 DEF Package
    <3>8. packages'[i].kind = t.row.kind /\ packages'[i].profiles = after
      BY <2>2, <2>4, <3>5 DEF Package
    <3> QED
      BY <2>2, <3>5, <3>6, <3>7, <3>8
  <2>7. PackagesStay /\ PackagesFrozen
    BY <2>2, <2>6, SamePackage DEF PackagesStay, PackagesFrozen
  <2> QED
    BY <1>1, <1>2, <2>7 DEF Safe
<1>5. CASE CommitUpdatePackageState(h)
  <2> DEFINE row == tx[h].row
  <2>1. PICK i \in DOMAIN packages :
            packages' = [packages EXCEPT ![i].isDeployed = row.isDeployed,
                                         ![i].kind = row.kind]
    BY <1>5 DEF CommitUpdatePackageState, NamedVersion, Named
  <2> HIDE DEF row
  <2>2. /\ DOMAIN packages' = DOMAIN packages
        /\ packages'[i] = [packages[i] EXCEPT !.isDeployed = row.isDeployed,
                                              !.kind = row.kind]
        /\ \A p \in DOMAIN packages : p # i => packages'[p] = packages[p]
    BY <2>1
  <2>3. packages[i] \in Package
    BY DEF TypeOK
  <2>4. ASSUME packages[i].isDeployed, packages'[i].isDeployed
        PROVE  /\ OnlyAdds(packages[i].profiles, packages'[i].profiles)
               /\ packages'[i] = [packages[i] EXCEPT !.kind = packages'[i].kind,
                                                     !.profiles = packages'[i].profiles]
    <3>1. packages'[i].isDeployed = row.isDeployed /\ packages'[i].kind = row.kind
      BY <2>2, <2>3 DEF Package
    <3>2. packages[i].isDeployed = TRUE /\ row.isDeployed = packages'[i].isDeployed
      BY <2>3, <2>4, <3>1 DEF Package
    <3>3. row.isDeployed \in BOOLEAN
      BY <1>5, TxFields DEF CommitUpdatePackageState, Package, row
    <3>4. row.isDeployed = packages[i].isDeployed
      BY <2>4, <3>2, <3>3
    <3>5. packages'[i].profiles = packages[i].profiles
      BY <2>2, <2>3 DEF Package
    <3>6. packages'[i] = [packages[i] EXCEPT !.kind = row.kind]
      BY <2>2, <2>3, <3>4 DEF Package
    <3>7. [packages[i] EXCEPT !.kind = row.kind]
              = [packages[i] EXCEPT !.kind = row.kind, !.profiles = packages[i].profiles]
      BY <2>3 DEF Package
    <3> QED
      BY <3>1, <3>5, <3>6, <3>7, AddsNothing
  <2>5. PackagesStay /\ PackagesFrozen
    BY <2>2, <2>4, SamePackage DEF PackagesStay, PackagesFrozen
  <2> QED
    BY <1>1, <1>2, <2>5 DEF Safe
<1>6. CASE CommitDeletePackage(h)
  <2>1. PICK i \in NamedVersion(packages, tx[h].project, tx[h].name, tx[h].version) :
            packages' = Remove(packages, i)
    BY <1>6 DEF CommitDeletePackage
  <2>2. /\ DOMAIN packages' = DOMAIN packages \ {i}
        /\ \A p \in DOMAIN packages' : packages'[p] = packages[p]
    BY <2>1 DEF Remove
  <2>3. ~packages[i].isDeployed
    BY <1>6, <2>1 DEF Checked, checkDeploymentPackageNotDeployed, CommitDeletePackage
  <2>4. PackagesStay /\ PackagesFrozen
    BY <2>2, <2>3, SamePackage DEF PackagesStay, PackagesFrozen
  <2> QED
    BY <1>1, <1>2, <2>4 DEF Safe
<1> QED
  BY <1>3, <1>4, <1>5, <1>6

\* Steps that leave the tables alone.
LEMMA TablesUnchanged ==
    ASSUME SInv, UNCHANGED tables
    PROVE  Safe /\ RegistryTypesFitUse'
<1> IInv /\ TypeOK
  BY DEF SInv, IInv
<1>1. UNCHANGED <<registries, artifacts, applications, packages>>
  BY DEF tables
<1>2. RegistryTypesFitUse'
  BY <1>1 DEF SInv, RegistryTypesFitUse
<1> QED
  BY <1>1, <1>2, PackagesUnchanged, ApplicationsUnchanged, RegistriesUnchanged DEF Safe

LEMMA ArtifactCommitIsSafe ==
    ASSUME SInv, NEW h \in Handlers,
           \/ CommitCreateArtifact(h)
           \/ CommitUpdateArtifact(h)
           \/ CommitDeleteArtifact(h)
    PROVE  Safe /\ RegistryTypesFitUse'
<1> IInv /\ TypeOK
  BY DEF SInv, IInv
<1>1. UNCHANGED <<registries, applications, packages>>
  BY DEF CommitCreateArtifact, CommitUpdateArtifact, CommitDeleteArtifact
<1>2. RegistryTypesFitUse'
  BY <1>1 DEF SInv, RegistryTypesFitUse
<1> QED
  BY <1>1, <1>2, PackagesUnchanged, ApplicationsUnchanged, RegistriesUnchanged DEF Safe

LEMMA RequestsStart ==
    ASSUME NEW h, RegistryRequest(h) \/ ArtifactRequest(h) \/ ApplicationRequest(h)
                  \/ PackageRequest(h)
    PROVE  UNCHANGED tables
<1>1. CASE RegistryRequest(h) \/ ArtifactRequest(h)
  BY <1>1 DEF RegistryRequest, ArtifactRequest, BeginCreateRegistry, BeginUpdateRegistry,
     BeginDeleteRegistry, BeginCreateArtifact, BeginUpdateArtifact, BeginDeleteArtifact,
     Start
<1>2. CASE ApplicationRequest(h)
  <2>1. ASSUME NEW project, NEW name, NEW version, NEW displayName, NEW helmName,
               NEW imageName, NEW kind, NEW body,
               BeginUpdateApplication(h, project, name, version, displayName, helmName,
                                      imageName, kind, body)
        PROVE  UNCHANGED tables
    <3>1. \E t : Start(h, t)
      BY <2>1 DEF BeginUpdateApplication
    <3> QED
      BY <3>1 DEF Start
  <2>2. ASSUME NEW project, NEW name, NEW version, NEW displayName, NEW helmName,
               NEW imageName, NEW kind, NEW body,
               BeginCreateApplication(h, project, name, version, displayName, helmName,
                                      imageName, kind, body)
        PROVE  UNCHANGED tables
    BY <2>2 DEF BeginCreateApplication, Start
  <2>3. ASSUME NEW project, NEW name, NEW version,
               BeginDeleteApplication(h, project, name, version)
        PROVE  UNCHANGED tables
    BY <2>3 DEF BeginDeleteApplication, Start
  <2> QED
    BY <1>2, <2>1, <2>2, <2>3 DEF ApplicationRequest
<1>3. CASE PackageRequest(h)
  <2>1. ASSUME NEW project, NEW name, NEW version, NEW displayName, NEW isDeployed,
               NEW kind, NEW body,
               BeginUpdatePackage(h, project, name, version, displayName, isDeployed,
                                  kind, body)
        PROVE  UNCHANGED tables
    <3>1. \E t : Start(h, t)
      BY <2>1 DEF BeginUpdatePackage
    <3> QED
      BY <3>1 DEF Start
  <2>2. ASSUME NEW project, NEW name, NEW version, NEW displayName, NEW isDeployed,
               NEW kind, NEW body,
               BeginCreatePackage(h, project, name, version, displayName, isDeployed,
                                  kind, body)
        PROVE  UNCHANGED tables
    BY <2>2 DEF BeginCreatePackage, Start
  <2>3. ASSUME NEW project, NEW name, NEW version,
               BeginDeletePackage(h, project, name, version)
        PROVE  UNCHANGED tables
    BY <2>3 DEF BeginDeletePackage, Start
  <2> QED
    BY <1>3, <2>1, <2>2, <2>3 DEF PackageRequest
<1> QED
  BY <1>1, <1>2, <1>3

LEMMA CommitFinishes ==
    ASSUME NEW h, Commit(h)
    PROVE  Finish(h)
BY DEF Commit, CommitCreateRegistry, CommitUpdateRegistry, CommitDeleteRegistry,
   CommitCreateArtifact, CommitUpdateArtifact, CommitDeleteArtifact,
   CommitCreateApplication, CommitUpdateApplication, CommitUpdateApplicationKind,
   CommitDeleteApplication, CommitCreatePackage, CommitUpdatePackage,
   CommitUpdatePackageState, CommitDeletePackage

\* A step of a catalog that serves one request at a time is safe, and leaves
\* the next one checked.
LEMMA NextSInv ==
    ASSUME OneRequestAtATime
    PROVE  SInv /\ [Next]_vars => SInv' /\ [Safe]_vars
<1> SUFFICES ASSUME SInv, [Next]_vars PROVE SInv' /\ [Safe]_vars
  OBVIOUS
<1> IInv
  BY DEF SInv
<1>1. IInv'
  BY NextIInv
<1>2. CASE UNCHANGED vars
  <2>1. UNCHANGED <<registries, artifacts, applications, packages, tx>> /\ UNCHANGED tables
    BY <1>2 DEF vars, tables
  <2>2. ASSUME NEW g \in Handlers PROVE Checked(tx[g])'
    <3>1. Checked(tx[g])
      BY DEF SInv
    <3> QED
      BY <2>1, <3>1 DEF Checked, checkRegistryType, RegistryNotInUse, InProject, Named,
         NamedVersion, checkApplicationNotInDeployedPackages, ApplicationNotInPackages,
         checkDeploymentPackageNotDeployed
  <2> QED
    BY <1>1, <1>2, <2>1, <2>2, TablesUnchanged DEF SInv
<1>3. ASSUME NEW h \in Handlers,
             RegistryRequest(h) \/ ArtifactRequest(h) \/ ApplicationRequest(h)
             \/ PackageRequest(h)
      PROVE  SInv' /\ Safe
  <2>1. \A g \in Handlers : Checked(tx[g])'
    BY <1>3, RegistryRequestChecked, ArtifactRequestChecked, ApplicationRequestChecked,
       PackageRequestChecked
  <2> QED
    BY <1>1, <1>3, <2>1, RequestsStart, TablesUnchanged DEF SInv
<1>4. ASSUME NEW h \in Handlers, Commit(h)
      PROVE  SInv' /\ Safe
  <2>1. \A g \in Handlers : Checked(tx[g])'
    BY <1>4, CommitFinishes, FinishChecked
  <2>2. Safe /\ RegistryTypesFitUse'
    BY <1>4, RegistryCommitIsSafe, ArtifactCommitIsSafe, ApplicationCommitIsSafe,
       PackageCommitIsSafe DEF Commit
  <2> QED
    BY <1>1, <2>1, <2>2 DEF SInv
<1>5. ASSUME NEW h \in Handlers, Rollback(h)
      PROVE  SInv' /\ Safe
  <2>1. \A g \in Handlers : Checked(tx[g])'
    BY <1>5, FinishChecked DEF Rollback
  <2> QED
    BY <1>1, <1>5, <2>1, TablesUnchanged DEF SInv, Rollback
<1> QED
  BY <1>2, <1>3, <1>4, <1>5 DEF Next

\* One request at a time: the inductive invariant, and what every step keeps.
THEOREM ChecksHold ==
    ASSUME OneRequestAtATime
    PROVE  Spec => []SInv /\ [][Safe]_vars
<1>1. Init => SInv
  <2> SUFFICES ASSUME Init PROVE SInv
    OBVIOUS
  <2>1. DOMAIN applications = {} /\ \A h \in Handlers : tx[h].op = "Idle"
    BY DEF Init, EmptyTable, Idle
  <2> QED
    BY <2>1, InitIInv DEF SInv, RegistryTypesFitUse, Checked
<1>2. SInv /\ [Next]_vars => SInv' /\ [Safe]_vars
  BY NextSInv
<1> QED
  BY <1>1, <1>2, PTL DEF Spec

\* One request at a time, applications take charts from HELM registries and
\* images from IMAGE registries, through every sequence of checkRegistryType and
\* getRegistry.
THEOREM TypesFitUse ==
    ASSUME OneRequestAtATime
    PROVE  Spec => []RegistryTypesFitUse
<1>1. SInv => RegistryTypesFitUse
  BY DEF SInv
<1> QED
  BY <1>1, ChecksHold, PTL

\* One request at a time, a registry that an application uses is not deleted
\* (DeleteRegistry).
THEOREM UsedRegistriesAreKept ==
    ASSUME OneRequestAtATime
    PROVE  Spec => UsedRegistriesStay
<1>1. [Safe]_vars => [RegistriesStay]_vars
  BY DEF Safe
<1> QED
  BY <1>1, ChecksHold, PTL DEF UsedRegistriesStay, RegistriesStay

\* One request at a time, an application that a package refers to is not
\* deleted (DeleteApplication).
THEOREM ReferencedApplicationsAreKept ==
    ASSUME OneRequestAtATime
    PROVE  Spec => ReferencedApplicationsStay
<1>1. [Safe]_vars => [ApplicationsStay]_vars
  BY DEF Safe
<1> QED
  BY <1>1, ChecksHold, PTL DEF ReferencedApplicationsStay, ApplicationsStay

\* One request at a time, a deployed package is not deleted
\* (DeleteDeploymentPackage).
THEOREM DeployedPackagesAreKept ==
    ASSUME OneRequestAtATime
    PROVE  Spec => DeployedPackagesStay
<1>1. [Safe]_vars => [PackagesStay]_vars
  BY DEF Safe
<1> QED
  BY <1>1, ChecksHold, PTL DEF DeployedPackagesStay, PackagesStay

\* One request at a time, a package that stays deployed changes in its kind
\* only, and in profiles that are added to the ones it has
\* (updateDeploymentPackage, updatePackageKindOrDeployedState).
THEOREM DeployedPackagesOnlyGrow ==
    ASSUME OneRequestAtATime
    PROVE  Spec => DeployedPackagesFrozen
<1>1. [Safe]_vars => [PackagesFrozen]_vars
  BY DEF Safe
<1> QED
  BY <1>1, ChecksHold, PTL DEF DeployedPackagesFrozen, PackagesFrozen

\* One request at a time, content and display name of an application of a
\* deployed package do not change, and its profiles stay as they are while
\* others may be added to them (updateApplication).
THEOREM DeployedContentStays ==
    ASSUME OneRequestAtATime
    PROVE  Spec => DeployedContentFrozen
<1>1. [Safe]_vars => [ContentFrozen]_vars
  BY DEF Safe
<1> QED
  BY <1>1, ChecksHold, PTL DEF DeployedContentFrozen, ContentFrozen
=============================================================================
