---------------------------- MODULE ProjectWiper ----------------------------
(***************************************************************************)
(* The project wiper (pkg/wiper/grpc.go): a client of the catalog that     *)
(* first severs what packages refer to and then deletes the packages,      *)
(* applications, artifacts and registries of a project, page by page, and  *)
(* collects the errors of the calls.                                       *)
(*                                                                         *)
(* Each call is a transaction of the catalog.  Calls may fail, with or     *)
(* without having had their effect, and other clients go on working.       *)
(***************************************************************************)
EXTENDS Integers, FiniteSets, Functions

CONSTANTS
    Packages, Applications, Artifacts, Registries,    \* ids of entities
    PageSize,       \* maxPageSize
    MaxDisturbances \* bound on failing calls and requests of other clients

ASSUME PageIsPositive == PageSize \in Nat \ {0}

\* A project has finitely many entities, each of one kind.
ASSUME EntitiesDiffer ==
    /\ IsFiniteSet(Packages \union Applications \union Artifacts \union Registries)
    /\ Packages \intersect (Applications \union Artifacts \union Registries) = {}
    /\ Applications \intersect (Artifacts \union Registries) = {}
    /\ Artifacts \intersect Registries = {}
    /\ "none" \notin Packages

ASSUME BoundIsNumber == MaxDisturbances \in Nat

VARIABLES
    store,      \* the project's entities, with what they refer to
    phase,      \* the loop that Wipe is in
    page,       \* entities of the current page that are still to be handled
    hasMorePages,
    offset,     \* of the next listing of packages
    got,        \* the package that was read and is to be updated
    errors,     \* whether an error was collected
    faults,     \* calls that failed for no reason of the catalog's
    others,     \* requests of other clients so far
    atStart,    \* the entities when the wipe began
    required    \* the packages an application has required

vars == <<store, phase, page, hasMorePages, offset, got, errors, faults, others,
          atStart, required>>

Entities == Packages \union Applications \union Artifacts \union Registries

Kind(e) == CASE e \in Packages     -> "packages"
             [] e \in Applications -> "applications"
             [] e \in Artifacts    -> "artifacts"
             [] OTHER              -> "registries"

Listed(kind) == {e \in DOMAIN store : Kind(e) = kind}

\* A package refers to applications and artifacts; an application to its
\* registries, one at least, and by its requirements to packages.
PackageRow(known) ==
    [deployed : BOOLEAN,
     refers : SUBSET (known \intersect (Applications \union Artifacts))]

ApplicationRow(known) ==
    [deployed : {FALSE},
     refers : {r \in SUBSET (known \intersect (Registries \union Packages)) :
                  r \intersect Registries # {}}]

LeafRow == [deployed : {FALSE}, refers : {{}}]

\* Rows for these entities that refer to known ones.
Rows(new, known) ==
    {[e \in new |-> IF e \in Packages THEN p[e]
                    ELSE IF e \in Applications THEN a[e] ELSE l[e]] :
        p \in [new \intersect Packages -> PackageRow(known)],
        a \in [new \intersect Applications -> ApplicationRow(known)],
        l \in [new \intersect (Artifacts \union Registries) -> LeafRow]}

RequiredBy(rows) == UNION {rows[e].refers \intersect Packages :
                           e \in DOMAIN rows \intersect Applications}

Pages == INSTANCE Paging WITH
             MaxPageSize <- PageSize, DefaultPageSize <- PageSize,
             IntLimit <- 2 * PageSize + Cardinality(Entities) + 1,
             MaxRows <- Cardinality(Entities), total <- 0, pageSize <- PageSize,
             offset <- offset, first <- 0, seen <- {}, pc <- "reading"

NoPackage == [package |-> "none", refers |-> {}]

Init == /\ \E known \in SUBSET Entities : store \in Rows(known, known)
        /\ phase = "prepare"
        /\ page = {}
        /\ hasMorePages = TRUE
        /\ offset = 0
        /\ got = NoPackage
        /\ errors = FALSE
        /\ faults = 0
        /\ others = 0
        /\ atStart = DOMAIN store
        /\ required = RequiredBy(store)

-----------------------------------------------------------------------------

\* The order of Wipe.
NextPhase(p) == CASE p = "prepare"      -> "packages"
                  [] p = "packages"     -> "applications"
                  [] p = "applications" -> "artifacts"
                  [] p = "artifacts"    -> "registries"
                  [] OTHER              -> "done"

\* A call fails: the error is collected.
Fault == /\ faults + others < MaxDisturbances
         /\ faults' = faults + 1
         /\ errors' = TRUE

Enter(p) == phase' = p /\ page' = {} /\ hasMorePages' = TRUE /\ offset' = 0

\* Mutant: another page is asked for after the last.
MoreAtTheEnd(kind, n) ==
    IF phase = "prepare" THEN Cardinality(Listed(kind)) > offset + n
    ELSE Cardinality(Listed(kind)) >= n

\* Whether the answer of a listing says that there is more.  The loops that
\* delete start again from the first page.
MorePages(kind, n) ==
    IF phase = "prepare" THEN Cardinality(Listed(kind)) > offset + n
    ELSE Cardinality(Listed(kind)) > n

\* All of the last page was handled.
PageDone == phase # "done" /\ page = {} /\ got = NoPackage

\* A listing asks for no order: each gets some rows, as many as its page has.
List ==
    LET kind == IF phase = "prepare" THEN "packages" ELSE phase
    IN  /\ PageDone
        /\ hasMorePages
        /\ \E rows \in SUBSET Listed(kind) :
              /\ Cardinality(rows) =
                    Cardinality(Pages!Page(PageSize, offset, Cardinality(Listed(kind))))
              /\ page' = rows
              /\ hasMorePages' = MorePages(kind, Cardinality(rows))
              /\ offset' = IF phase = "prepare" THEN offset + Cardinality(rows) ELSE 0
        /\ UNCHANGED <<store, phase, got, errors, faults, others, atStart, required>>

\* A listing that fails ends the loop.
ListFails ==
    /\ PageDone
    /\ hasMorePages
    /\ Fault
    /\ Enter(NextPhase(phase))
    /\ UNCHANGED <<store, got, others, atStart, required>>

EndPhase ==
    /\ PageDone
    /\ ~ hasMorePages
    /\ Enter(NextPhase(phase))
    /\ UNCHANGED <<store, got, errors, faults, others, atStart, required>>

\* A page is handled in the order of the listing.  No two entities of a kind
\* refer to each other, so that one order stands for all.
IsNext(e) == page # {} /\ e = CHOOSE f \in page : TRUE

-----------------------------------------------------------------------------
(* preparePackageForDeletion.                                              *)

GetPackage(k) ==
    /\ phase = "prepare"
    /\ IsNext(k)
    /\ got = NoPackage
    /\ page' = page \ {k}
    /\ \/ /\ k \in DOMAIN store
          /\ got' = [package |-> k, refers |-> store[k].refers]
          /\ UNCHANGED <<errors, faults>>
       \/ Fault /\ UNCHANGED got
    /\ UNCHANGED <<store, phase, hasMorePages, offset, others, atStart, required>>

\* Mutant: the applications stay referred to.
UndeployOnly(refers) == refers

\* What the update leaves of a package's references: its artifacts.
Severed(refers) == refers \intersect Artifacts

\* The update of the package as it was read, not deployed.
UpdatePackage ==
    LET k == got.package
        updated == [store EXCEPT ![k] = [deployed |-> FALSE, refers |-> Severed(got.refers)]]
    IN  /\ got # NoPackage
        /\ \/ store' = updated /\ UNCHANGED <<errors, faults>>
           \/ Fault /\ store' \in {store, updated}
        /\ got' = NoPackage
        /\ UNCHANGED <<phase, page, hasMorePages, offset, others, atStart, required>>

-----------------------------------------------------------------------------
(* The loops that delete.                                                  *)

\* Mutant: what others refer to is deleted.
RefusedIfDeployed(e) == store[e].deployed

\* The catalog refuses to delete a package that is deployed or required, an
\* application or artifact of a package, and a registry in use.
Refused(e) == store[e].deployed \/ \E f \in DOMAIN store : e \in store[f].refers

\* Mutant: a refusal is not collected.
DeleteForgetsRefusal(e) ==
    LET deleted == Restrict(store, DOMAIN store \ {e})
    IN  /\ phase = Kind(e)
        /\ IsNext(e)
        /\ page' = page \ {e}
        /\ \/ /\ store' = IF Refused(e) THEN store ELSE deleted
              /\ UNCHANGED <<errors, faults>>
           \/ /\ Fault
              /\ store' \in IF Refused(e) THEN {store} ELSE {store, deleted}
        /\ UNCHANGED <<phase, hasMorePages, offset, got, others, atStart, required>>

Delete(e) ==
    LET deleted == Restrict(store, DOMAIN store \ {e})
    IN  /\ phase = Kind(e)
        /\ IsNext(e)
        /\ page' = page \ {e}
        /\ \/ ~ Refused(e) /\ store' = deleted /\ UNCHANGED <<errors, faults>>
           \/ Refused(e) /\ errors' = TRUE /\ UNCHANGED <<store, faults>>
           \/ /\ Fault
              /\ store' \in IF Refused(e) THEN {store} ELSE {store, deleted}
        /\ UNCHANGED <<phase, hasMorePages, offset, got, others, atStart, required>>

-----------------------------------------------------------------------------
(* Other clients of the project.                                           *)

OtherCreates(e) ==
    /\ phase # "done"
    /\ faults + others < MaxDisturbances
    /\ e \notin DOMAIN store \union atStart
    /\ \E row \in Rows({e}, DOMAIN store) :
          store' = [f \in DOMAIN store \union {e} |-> IF f = e THEN row[e] ELSE store[f]]
    /\ others' = others + 1
    /\ required' = required \union RequiredBy(store')
    /\ UNCHANGED <<phase, page, hasMorePages, offset, got, errors, faults, atStart>>

OtherDeploys(k) ==
    /\ phase # "done"
    /\ faults + others < MaxDisturbances
    /\ k \in DOMAIN store
    /\ store' = [store EXCEPT ![k].deployed = TRUE]
    /\ others' = others + 1
    /\ UNCHANGED <<phase, page, hasMorePages, offset, got, errors, faults, atStart,
                   required>>

-----------------------------------------------------------------------------

Wipe == \/ List
        \/ ListFails
        \/ EndPhase
        \/ \E k \in Packages : GetPackage(k)
        \/ UpdatePackage
        \/ \E e \in Entities : Delete(e)

Next == \/ Wipe
        \/ \E e \in Entities : OtherCreates(e)
        \/ \E k \in Packages : OtherDeploys(k)

\* Every call returns in the end, and the wiper goes on.
Spec == Init /\ [][Next]_vars /\ WF_vars(Wipe)

-----------------------------------------------------------------------------

\* Types; what an entity refers to exists, whatever the wiper has deleted.
TypeOK ==
    /\ DOMAIN store \subseteq Entities
    /\ \A e \in DOMAIN store :
          store[e] \in CASE e \in Packages     -> PackageRow(DOMAIN store)
                        [] e \in Applications -> ApplicationRow(DOMAIN store)
                        [] OTHER              -> LeafRow
    /\ phase \in {"prepare", "packages", "applications", "artifacts", "registries", "done"}
    /\ page \subseteq Entities
    /\ hasMorePages \in BOOLEAN
    /\ offset \in 0 .. Cardinality(Packages)
    /\ got = NoPackage \/ got.package \in DOMAIN store
    /\ errors \in BOOLEAN
    /\ faults \in 0 .. MaxDisturbances
    /\ others \in 0 .. MaxDisturbances

\* A wipe that reports no error has deleted all that the project held when it
\* began, however the pages came out and whatever other clients did meanwhile
\* (Wipe).
NoErrorMeansWiped == (phase = "done" /\ ~ errors) => DOMAIN store \intersect atStart = {}

\* When the packages fit a page and nothing interferes, a wipe leaves nothing but
\* packages that an application required, with their artifacts: severing the
\* packages first keeps them from holding applications and registries
\* (preparePackageForDeletion).
OnlyRequiredStay ==
    (/\ phase = "done" /\ faults = 0 /\ others = 0
     /\ Cardinality(atStart \intersect Packages) <= PageSize)
    => DOMAIN store \subseteq required \union Artifacts

\* The entities of the current loop that cannot be deleted.
Stuck == {e \in Listed(phase) : Refused(e)}

\* A wipe ends as long as what cannot be deleted does not fill a page: the
\* loops start again from the first page, and only get on by deleting.
WipeEnds == [](Cardinality(Stuck) < PageSize) => <>(phase = "done")
=============================================================================
