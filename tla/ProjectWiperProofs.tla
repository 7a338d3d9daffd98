------------------------ MODULE ProjectWiperProofs -------------------------
(***************************************************************************)
(* Proofs about ProjectWiper, for every project, page size and number of   *)
(* failing calls and requests of other clients.                            *)
(***************************************************************************)
EXTENDS ProjectWiper, FiniteSetTheorems, TLAPS

-----------------------------------------------------------------------------
(* The inductive invariant.                                                *)

\* The kind of entity that the loop of a phase lists.
KindOf(p) == IF p = "prepare" THEN "packages" ELSE p

\* The kinds whose loops are over.
Passed(p) == CASE p = "applications" -> {"packages"}
               [] p = "artifacts"    -> {"packages", "applications"}
               [] p = "registries"   -> {"packages", "applications", "artifacts"}
               [] p = "done"         -> {"packages", "applications", "artifacts", "registries"}
               [] OTHER              -> {}

\* An entity that a loop will try to delete: its loop is to come, or will list
\* again, or has it on its page.
StillToCome(e) == /\ Kind(e) \notin Passed(phase)
                  /\ Kind(e) = phase /\ ~ hasMorePages => e \in page

\* A package that was updated refers to artifacts only.
IsSevered(k) == ~ store[k].deployed /\ store[k].refers \subseteq Artifacts

\* What the wiper reads is there, as nobody else deletes.
Reading ==
    /\ page \subseteq Listed(KindOf(phase))
    /\ phase = "prepare" => offset <= Cardinality(Listed("packages"))
    /\ phase # "prepare" => got = NoPackage /\ offset = 0
    /\ got # NoPackage =>
          /\ got.package \in Packages \intersect DOMAIN store
          /\ got.refers \subseteq DOMAIN store
    /\ faults + others <= MaxDisturbances

\* Nothing of the start is passed over without an error.
Wiped == ~ errors => \A e \in DOMAIN store \intersect atStart : StillToCome(e)

\* Nothing interferes, and one page holds all packages.
Quiet == /\ faults = 0 /\ others = 0
         /\ Cardinality(atStart \intersect Packages) <= PageSize

\* Packages are severed before anything is deleted, the first page has all of
\* them.
AllSevered ==
    /\ DOMAIN store \subseteq atStart
    /\ phase = "prepare" /\ hasMorePages => offset = 0
    /\ phase # "prepare" \/ ~ hasMorePages =>
          \A k \in DOMAIN store \intersect Packages :
              \/ phase = "prepare" /\ (k \in page \/ got.package = k)
              \/ IsSevered(k)

\* Nothing but required packages and artifacts is passed over.
Cleared == \A e \in DOMAIN store \ (Artifacts \union required) : StillToCome(e)

IInv == /\ TypeOK
        /\ Reading
        /\ RequiredBy(store) \subseteq required /\ required \subseteq Packages
        /\ Wiped
        /\ Quiet => AllSevered /\ Cleared

-----------------------------------------------------------------------------
(* Entities, rows and pages.                                               *)

\* What TypeOK says of a row.
RowIn(row, e, known) ==
    row \in CASE e \in Packages     -> PackageRow(known)
              [] e \in Applications -> ApplicationRow(known)
              [] OTHER              -> LeafRow

LEMMA Kinds ==
    ASSUME NEW e \in Entities
    PROVE  /\ Kind(e) = "packages" <=> e \in Packages
           /\ Kind(e) = "applications" <=> e \in Applications
           /\ Kind(e) = "artifacts" <=> e \in Artifacts
           /\ Kind(e) = "registries" <=> e \in Registries
           /\ Kind(e) \in {"packages", "applications", "artifacts", "registries"}
  BY EntitiesDiffer DEF Kind, Entities

\* What a row of an entity refers to.
LEMMA RowRefers ==
    ASSUME NEW e \in Entities, NEW known, NEW row, RowIn(row, e, known)
    PROVE  /\ row.refers \subseteq known
           /\ row.deployed \in BOOLEAN
           /\ e \in Packages => row.refers \subseteq Applications \union Artifacts
           /\ e \in Applications => /\ row.refers \subseteq Registries \union Packages
                                    /\ ~ row.deployed
           /\ e \in Artifacts \union Registries => row.refers = {} /\ ~ row.deployed
  <1>1. CASE e \in Packages
    BY <1>1, EntitiesDiffer DEF RowIn, PackageRow
  <1>2. CASE e \in Applications
    BY <1>2, EntitiesDiffer DEF RowIn, ApplicationRow
  <1>3. CASE e \in Artifacts \union Registries
    BY <1>3, EntitiesDiffer DEF RowIn, LeafRow
  <1> QED
    BY <1>1, <1>2, <1>3 DEF Entities

\* A row stays one while what it refers to is known.
LEMMA RowKept ==
    ASSUME NEW e, NEW known, NEW other, NEW row,
           RowIn(row, e, known), row.refers \subseteq other
    PROVE  RowIn(row, e, other)
  <1>1. CASE e \in Packages
    <2>1. row \in PackageRow(known)
      BY <1>1, EntitiesDiffer DEF RowIn
    <2>2. /\ row = [deployed |-> row.deployed, refers |-> row.refers]
          /\ row.deployed \in BOOLEAN
          /\ row.refers \subseteq known \intersect (Applications \union Artifacts)
      BY <2>1 DEF PackageRow
    <2>3. row.refers \in SUBSET (other \intersect (Applications \union Artifacts))
      BY <2>2
    <2>4. row \in PackageRow(other)
      BY <2>2, <2>3 DEF PackageRow
    <2> QED
      BY <1>1, <2>4, EntitiesDiffer DEF RowIn
  <1>2. CASE e \notin Packages /\ e \in Applications
    <2>1. row \in ApplicationRow(known)
      BY <1>2 DEF RowIn
    <2>2. /\ row = [deployed |-> row.deployed, refers |-> row.refers]
          /\ row.deployed \in {FALSE}
          /\ row.refers \subseteq known \intersect (Registries \union Packages)
          /\ row.refers \intersect Registries # {}
      BY <2>1 DEF ApplicationRow
    <2>3. row.refers \in {r \in SUBSET (other \intersect (Registries \union Packages)) :
                             r \intersect Registries # {}}
      BY <2>2
    <2>4. row \in ApplicationRow(other)
      BY <2>2, <2>3 DEF ApplicationRow
    <2> QED
      BY <1>2, <2>4 DEF RowIn
  <1>3. CASE e \notin Packages /\ e \notin Applications
    BY <1>3 DEF RowIn
  <1> QED
    BY <1>1, <1>2, <1>3

LEMMA RowsAreRows ==
    ASSUME NEW new \in SUBSET Entities, NEW known, NEW rows \in Rows(new, known)
    PROVE  /\ DOMAIN rows = new
           /\ \A e \in new : RowIn(rows[e], e, known)
  <1>1. PICK p \in [new \intersect Packages -> PackageRow(known)],
             a \in [new \intersect Applications -> ApplicationRow(known)],
             l \in [new \intersect (Artifacts \union Registries) -> LeafRow] :
            rows = [e \in new |-> IF e \in Packages THEN p[e]
                                  ELSE IF e \in Applications THEN a[e] ELSE l[e]]
    BY SMTT(30) DEF Rows
  <1>2. DOMAIN rows = new
    BY <1>1
  <1>3. ASSUME NEW e \in new PROVE RowIn(rows[e], e, known)
    <2>1. CASE e \in Packages
      <3>1. rows[e] = p[e] /\ p[e] \in PackageRow(known)
        BY <1>1, <2>1
      <3> QED
        BY <2>1, <3>1, EntitiesDiffer DEF RowIn
    <2>2. CASE e \notin Packages /\ e \in Applications
      <3>1. rows[e] = a[e] /\ a[e] \in ApplicationRow(known)
        BY <1>1, <2>2
      <3> QED
        BY <2>2, <3>1 DEF RowIn
    <2>3. CASE e \notin Packages /\ e \notin Applications
      <3>1. e \in Artifacts \union Registries
        BY <2>3 DEF Entities
      <3>2. rows[e] = l[e] /\ l[e] \in LeafRow
        BY <1>1, <2>3, <3>1
      <3> QED
        BY <2>3, <3>2 DEF RowIn
    <2> QED
      BY <2>1, <2>2, <2>3
  <1> QED
    BY <1>2, <1>3

LEMMA StoredRows ==
    ASSUME TypeOK
    PROVE  /\ DOMAIN store \subseteq Entities
           /\ \A e \in DOMAIN store : RowIn(store[e], e, DOMAIN store)
  BY DEF TypeOK, RowIn

LEMMA ListedCounts ==
    ASSUME TypeOK, NEW kind
    PROVE  /\ IsFiniteSet(Listed(kind))
           /\ Cardinality(Listed(kind)) \in Nat
           /\ Cardinality(Entities) \in Nat
           /\ Cardinality(Listed(kind)) <= Cardinality(Entities)
           /\ Cardinality(Packages) \in Nat
           /\ Cardinality(Listed("packages")) <= Cardinality(Packages)
  <1>1. IsFiniteSet(Entities)
    BY EntitiesDiffer DEF Entities
  <1>2. Listed(kind) \subseteq Entities
    BY StoredRows DEF Listed
  <1>3. Packages \subseteq Entities
    BY DEF Entities
  <1>4. Listed("packages") \subseteq Packages
    BY StoredRows, Kinds DEF Listed
  <1>5. IsFiniteSet(Packages)
    BY <1>1, <1>3, FS_Subset
  <1> QED
    BY <1>1, <1>2, <1>4, <1>5, FS_Subset, FS_CardinalityType

\* A page goes no further than the listing, and the first one has all of a
\* listing that fits it.
LEMMA PageCounts ==
    ASSUME NEW from \in Nat, NEW count \in Nat, from <= count,
           count <= Cardinality(Entities), Cardinality(Entities) \in Nat
    PROVE  LET n == Cardinality(Pages!Page(PageSize, from, count))
           IN  /\ n \in Nat
               /\ from + n <= count
               /\ from = 0 /\ count <= PageSize => n = count
  <1> DEFINE n == Cardinality(Pages!Page(PageSize, from, count))
  <1>1. PageSize \in Nat /\ PageSize # 0
    BY PageIsPositive
  <1>2. Pages!Wrap(from + PageSize) = from + PageSize
    BY <1>1 DEF Pages!Wrap
  <1>3. CASE count = 0
    <2>1. Pages!Page(PageSize, from, count) = {}
      BY <1>3 DEF Pages!Page
    <2> QED
      BY <1>3, <2>1, FS_EmptySet
  <1>4. CASE count # 0 /\ (2 * from > count \/ from + PageSize > count)
    <2>1. Pages!Page(PageSize, from, count) = from .. count - 1
      BY <1>1, <1>2, <1>4 DEF Pages!Page, Pages!computePageRange
    <2>2. n = count - from
      BY <2>1, <1>4, FS_Interval
    <2> QED
      BY <2>2
  <1>5. CASE count # 0 /\ ~ (2 * from > count \/ from + PageSize > count)
    <2>1. Pages!Page(PageSize, from, count) = from .. from + PageSize - 1
      BY <1>1, <1>2, <1>5 DEF Pages!Page, Pages!computePageRange
    <2>2. n = PageSize
      BY <1>1, <2>1, FS_Interval
    <2> QED
      BY <1>1, <1>5, <2>2
  <1> QED
    BY <1>3, <1>4, <1>5

-----------------------------------------------------------------------------
(* Listings and the ends of loops.                                         *)

LEMMA InitIInv == Init => IInv
  <1> SUFFICES ASSUME Init PROVE IInv
    OBVIOUS
  <1>1. PICK known \in SUBSET Entities : store \in Rows(known, known)
    BY DEF Init
  <1>2. DOMAIN store = known /\ \A e \in known : RowIn(store[e], e, known)
    BY <1>1, RowsAreRows
  <1>3. /\ phase = "prepare" /\ page = {} /\ hasMorePages = TRUE /\ offset = 0
        /\ got = NoPackage /\ errors = FALSE /\ faults = 0 /\ others = 0
        /\ atStart = DOMAIN store /\ required = RequiredBy(store)
    BY DEF Init
  <1>4. Cardinality(Packages) \in Nat
    <2>1. Packages \subseteq Entities /\ IsFiniteSet(Entities)
      BY EntitiesDiffer DEF Entities
    <2> QED
      BY <2>1, FS_Subset, FS_CardinalityType
  <1>5. TypeOK
    <2>1. \A e \in DOMAIN store : RowIn(store[e], e, DOMAIN store)
      BY <1>2
    <2>2. 0 \in 0 .. MaxDisturbances /\ 0 \in 0 .. Cardinality(Packages)
      BY <1>4, BoundIsNumber
    <2> QED
      BY <1>2, <1>3, <2>1, <2>2 DEF TypeOK, RowIn
  <1>6. \A e \in DOMAIN store : StillToCome(e)
    BY <1>2, <1>3, Kinds DEF StillToCome, Passed
  <1>7. Reading
    BY <1>3, <1>5, ListedCounts, BoundIsNumber DEF Reading
  <1>8. RequiredBy(store) \subseteq Packages
    BY DEF RequiredBy
  <1> QED
    BY <1>3, <1>5, <1>6, <1>7, <1>8 DEF IInv, Wiped, AllSevered, Cleared

LEMMA ListKeeps ==
    ASSUME IInv, List
    PROVE  IInv'
  <1> DEFINE kind == KindOf(phase)
             count == Cardinality(Listed(kind))
  <1>1. PICK rows \in SUBSET Listed(kind) :
            /\ Cardinality(rows) = Cardinality(Pages!Page(PageSize, offset, count))
            /\ page' = rows
            /\ hasMorePages' = MorePages(kind, Cardinality(rows))
            /\ offset' = IF phase = "prepare" THEN offset + Cardinality(rows) ELSE 0
    BY DEF List, KindOf
  <1> DEFINE n == Cardinality(rows)
  <1>2. /\ hasMorePages /\ phase # "done" /\ got = NoPackage
        /\ UNCHANGED <<store, phase, got, errors, faults, others, atStart, required>>
    BY DEF List, PageDone
  <1>3. TypeOK /\ Reading
    BY DEF IInv
  <1>4. /\ IsFiniteSet(Listed(kind)) /\ count \in Nat
        /\ Cardinality(Entities) \in Nat /\ count <= Cardinality(Entities)
        /\ Cardinality(Packages) \in Nat
        /\ Cardinality(Listed("packages")) <= Cardinality(Packages)
    BY <1>3, ListedCounts
  <1>5. offset \in Nat /\ offset <= count
    BY <1>3, <1>4 DEF TypeOK, Reading, KindOf
  <1>6. /\ n \in Nat
        /\ offset + n <= count
        /\ offset = 0 /\ count <= PageSize => n = count
    BY <1>1, <1>4, <1>5, PageCounts
  <1>7. n >= count => rows = Listed(kind)
    <2>1. n <= count /\ (n = count => rows = Listed(kind))
      BY <1>4, FS_Subset
    <2> HIDE DEF n, count
    <2> QED
      BY <1>4, <1>6, <2>1
  <1> HIDE DEF n, count
  <1>8. Listed(kind)' = Listed(kind) /\ Listed("packages")' = Listed("packages")
    BY <1>2 DEF Listed, Kind, KindOf
  <1>9. TypeOK'
    <2>1. page' \subseteq Entities
      BY <1>1, <1>3, StoredRows DEF Listed
    <2>2. hasMorePages' \in BOOLEAN
      <3>1. CASE phase = "prepare"
        BY <1>1, <3>1 DEF MorePages
      <3>2. CASE phase # "prepare"
        BY <1>1, <3>2 DEF MorePages
      <3> QED
        BY <3>1, <3>2
    <2>3. offset' \in 0 .. Cardinality(Packages)
      BY <1>1, <1>4, <1>5, <1>6 DEF n, count, KindOf
    <2> QED
      BY <1>2, <1>3, <2>1, <2>2, <2>3 DEF TypeOK
  <1>10. Reading'
    <2>1. page' \subseteq Listed(KindOf(phase))'
      BY <1>1, <1>2, <1>8
    <2>2. phase = "prepare" => offset' <= Cardinality(Listed("packages"))
      BY <1>1, <1>6 DEF n, count, KindOf
    <2> QED
      BY <1>1, <1>2, <1>3, <1>8, <2>1, <2>2 DEF Reading
  <1>11. ASSUME NEW e \in DOMAIN store, StillToCome(e)
         PROVE  StillToCome(e)'
    <2>1. Kind(e) \notin Passed(phase')
      BY <1>2, <1>11 DEF StillToCome
    <2>2. ASSUME Kind(e) = phase, ~ hasMorePages' PROVE e \in page'
      <3>1. phase # "prepare"
        BY <1>3, <2>2, StoredRows, Kinds
      <3>2. ~ (count > n)
        BY <1>1, <2>2, <3>1 DEF MorePages, n, count
      <3>3. rows = Listed(kind)
        BY <1>4, <1>6, <1>7, <3>2
      <3> QED
        BY <1>1, <2>2, <3>1, <3>3 DEF Listed, KindOf
    <2> QED
      BY <1>2, <2>1, <2>2 DEF StillToCome, Kind
  <1>12. Wiped' /\ (Quiet => Cleared')
    BY <1>2, <1>11 DEF IInv, Wiped, Cleared
  <1>13. ASSUME Quiet PROVE AllSevered'
    <2>1. AllSevered
      BY <1>13 DEF IInv
    <2>2. CASE phase = "prepare"
      <3>1. offset = 0 /\ kind = "packages"
        BY <1>2, <2>1, <2>2 DEF AllSevered, KindOf
      <3>2. count <= PageSize
        <4>1. Listed(kind) \subseteq atStart \intersect Packages
          BY <1>3, <2>1, <3>1, StoredRows, Kinds DEF AllSevered, Listed
        <4>2. IsFiniteSet(atStart \intersect Packages)
          <5>1. IsFiniteSet(Packages)
            <6>1. Packages \subseteq Entities /\ IsFiniteSet(Entities)
              BY EntitiesDiffer DEF Entities
            <6> QED
              BY <6>1, FS_Subset
          <5> QED
            BY <5>1, FS_Subset
        <4>3. /\ count <= Cardinality(atStart \intersect Packages)
              /\ Cardinality(atStart \intersect Packages) \in Nat
          BY <4>1, <4>2, FS_Subset, FS_CardinalityType DEF count
        <4> QED
          BY <1>4, <1>13, <4>3, PageIsPositive DEF Quiet
      <3>3. n = count /\ rows = Listed("packages")
        BY <1>4, <1>6, <1>7, <3>1, <3>2
      <3>4. ~ hasMorePages'
        <4>1. hasMorePages' = (count > offset + n)
          BY <1>1, <2>2 DEF MorePages, n, count
        <4>2. ~ (count > offset + n)
          BY <1>4, <3>1, <3>3
        <4> QED
          BY <4>1, <4>2
      <3>5. \A k \in DOMAIN store \intersect Packages : k \in page'
        BY <1>1, <1>3, <3>3, StoredRows, Kinds DEF Listed
      <3> QED
        BY <1>2, <2>1, <2>2, <3>4, <3>5 DEF AllSevered
    <2>3. CASE phase # "prepare"
      BY <1>2, <2>1, <2>3 DEF AllSevered, IsSevered
    <2> QED
      BY <2>2, <2>3
  <1>14. Quiet' <=> Quiet
    BY <1>2 DEF Quiet
  <1>15. (RequiredBy(store) \subseteq required /\ required \subseteq Packages)'
    BY <1>2 DEF IInv, RequiredBy
  <1> QED
    BY <1>9, <1>10, <1>12, <1>13, <1>14, <1>15 DEF IInv

\* A loop ends, or is ended by a listing that fails.
LEMMA LoopEnds ==
    ASSUME IInv, ListFails \/ EndPhase
    PROVE  IInv'
  <1>1. /\ PageDone
        /\ Enter(NextPhase(phase))
        /\ UNCHANGED <<store, got, others, atStart, required>>
    BY DEF ListFails, EndPhase
  <1>2. /\ phase # "done" /\ page = {} /\ got = NoPackage
        /\ phase' = NextPhase(phase) /\ page' = {} /\ hasMorePages' = TRUE /\ offset' = 0
    BY <1>1 DEF PageDone, Enter
  <1>3. TypeOK /\ Reading
    BY DEF IInv
  <1>4. \/ /\ errors' = TRUE /\ faults' = faults + 1
           /\ faults + others < MaxDisturbances
        \/ ~ hasMorePages /\ UNCHANGED <<errors, faults>>
    BY DEF ListFails, EndPhase, Fault
  <1>5. phase' \in {"packages", "applications", "artifacts", "registries", "done"}
    BY <1>2 DEF NextPhase
  <1>6. /\ faults \in Nat /\ others \in Nat /\ faults' \in Nat
        /\ faults' + others <= MaxDisturbances
        /\ faults' \in 0 .. MaxDisturbances
    <2>1. faults \in 0 .. MaxDisturbances /\ others \in 0 .. MaxDisturbances
      BY <1>3 DEF TypeOK
    <2>2. faults + others <= MaxDisturbances
      BY <1>3 DEF Reading
    <2> QED
      BY <1>4, <2>1, <2>2, BoundIsNumber
  <1>7. TypeOK'
    <2>1. offset' \in 0 .. Cardinality(Packages)
      BY <1>2, <1>3, ListedCounts
    <2>2. errors' \in BOOLEAN
      BY <1>3, <1>4 DEF TypeOK
    <2> QED
      BY <1>1, <1>2, <1>3, <1>5, <1>6, <2>1, <2>2 DEF TypeOK
  <1>8. Reading'
    BY <1>1, <1>2, <1>5, <1>6 DEF Reading
  <1>9. ASSUME NEW e \in DOMAIN store, StillToCome(e), ~ hasMorePages
        PROVE  StillToCome(e)'
    <2>1. Kind(e) \notin Passed(phase) /\ Kind(e) # phase
      BY <1>2, <1>9 DEF StillToCome
    <2>2. Kind(e) \in {"packages", "applications", "artifacts", "registries"}
      BY <1>3, StoredRows, Kinds
    <2>3. phase \in {"prepare", "packages", "applications", "artifacts", "registries"}
      BY <1>2, <1>3 DEF TypeOK
    <2>4. Kind(e) \notin Passed(NextPhase(phase))
      <3> DEFINE t == Kind(e)
      <3> HIDE DEF t
      <3>1. t \notin Passed(phase) /\ t # phase
            => t \notin Passed(NextPhase(phase))
        BY <2>3 DEF Passed, NextPhase
      <3> QED
        BY <2>1, <3>1 DEF t
    <2> QED
      BY <1>2, <2>4 DEF StillToCome, Kind
  <1>10. Wiped'
    BY <1>1, <1>4, <1>9 DEF IInv, Wiped
  <1>11. ASSUME Quiet' PROVE Quiet /\ ~ hasMorePages
    BY <1>1, <1>4, <1>6, <1>11 DEF Quiet
  <1>12. ASSUME Quiet' PROVE AllSevered' /\ Cleared'
    <2>1. AllSevered /\ Cleared /\ ~ hasMorePages
      BY <1>11, <1>12 DEF IInv
    <2>2. Cleared'
      BY <1>1, <1>9, <2>1 DEF Cleared
    <2>3. \A k \in DOMAIN store \intersect Packages : IsSevered(k)
      BY <1>2, <2>1, EntitiesDiffer DEF AllSevered, NoPackage
    <2> QED
      BY <1>1, <1>5, <2>1, <2>2, <2>3 DEF AllSevered, IsSevered
  <1>13. (RequiredBy(store) \subseteq required /\ required \subseteq Packages)'
    BY <1>1 DEF IInv, RequiredBy
  <1> QED
    BY <1>7, <1>8, <1>10, <1>12, <1>13 DEF IInv

-----------------------------------------------------------------------------
(* Packages are read and updated.                                          *)

\* What a step may do to the counters.
LEMMA Counters ==
    ASSUME IInv,
           \/ Fault /\ UNCHANGED others
           \/ UNCHANGED <<errors, faults, others>>
           \/ /\ others' = others + 1 /\ UNCHANGED <<errors, faults>>
              /\ faults + others < MaxDisturbances
    PROVE  /\ errors' \in BOOLEAN
           /\ faults' \in 0 .. MaxDisturbances /\ others' \in 0 .. MaxDisturbances
           /\ faults' + others' <= MaxDisturbances
           /\ faults' = 0 /\ others' = 0 => UNCHANGED <<errors, faults, others>>
  <1>1. faults \in 0 .. MaxDisturbances /\ others \in 0 .. MaxDisturbances /\ errors \in BOOLEAN
    BY DEF IInv, TypeOK
  <1>2. faults + others <= MaxDisturbances
    BY DEF IInv, Reading
  <1>3. CASE Fault /\ UNCHANGED others
    <2>1. /\ faults + others < MaxDisturbances
          /\ faults' = faults + 1 /\ others' = others /\ errors' = TRUE
      BY <1>3 DEF Fault
    <2>2. /\ faults' \in 0 .. MaxDisturbances /\ others' \in 0 .. MaxDisturbances
          /\ faults' + others' <= MaxDisturbances
          /\ faults' # 0
      BY <1>1, <2>1, BoundIsNumber
    <2> QED
      BY <2>1, <2>2
  <1>4. CASE UNCHANGED <<errors, faults, others>>
    BY <1>1, <1>2, <1>4, BoundIsNumber
  <1>5. CASE /\ others' = others + 1 /\ UNCHANGED <<errors, faults>>
             /\ faults + others < MaxDisturbances
    BY <1>1, <1>2, <1>5, BoundIsNumber
  <1> QED
    BY <1>3, <1>4, <1>5

LEMMA GetPackageKeeps ==
    ASSUME IInv, NEW k \in Packages, GetPackage(k)
    PROVE  IInv'
  <1>1. /\ phase = "prepare" /\ phase' = "prepare" /\ k \in page /\ page' = page \ {k}
        /\ got = NoPackage
        /\ UNCHANGED <<store, phase, hasMorePages, offset, others, atStart, required>>
    BY DEF GetPackage, IsNext
  <1>2. \/ /\ k \in DOMAIN store
           /\ got' = [package |-> k, refers |-> store[k].refers]
           /\ UNCHANGED <<errors, faults>>
        \/ Fault /\ got' = NoPackage
    BY <1>1 DEF GetPackage
  <1>3. TypeOK /\ Reading
    BY DEF IInv
  <1>4. /\ errors' \in BOOLEAN
        /\ faults' \in 0 .. MaxDisturbances /\ others' \in 0 .. MaxDisturbances
        /\ faults' + others' <= MaxDisturbances
        /\ faults' = 0 /\ others' = 0 => UNCHANGED <<errors, faults, others>>
    BY <1>1, <1>2, Counters
  <1>5. ASSUME got' # NoPackage
        PROVE  /\ got' = [package |-> k, refers |-> store[k].refers]
               /\ k \in DOMAIN store /\ store[k].refers \subseteq DOMAIN store
    <2>1. k \in DOMAIN store /\ got' = [package |-> k, refers |-> store[k].refers]
      BY <1>2, <1>5
    <2>2. RowIn(store[k], k, DOMAIN store) /\ k \in Entities
      BY <1>3, <2>1, StoredRows
    <2> QED
      BY <2>1, <2>2, RowRefers
  <1>6. TypeOK'
    <2>1. got' = NoPackage \/ got'.package \in DOMAIN store'
      BY <1>1, <1>5
    <2>2. page' \subseteq Entities
      BY <1>1, <1>3 DEF TypeOK
    <2> QED
      BY <1>1, <1>3, <1>4, <2>1, <2>2 DEF TypeOK
  <1>7. Reading'
    <2>1. page' \subseteq Listed(KindOf(phase))'
      BY <1>1, <1>3 DEF Reading, Listed, Kind
    <2>2. (offset <= Cardinality(Listed("packages")))'
      BY <1>1, <1>3 DEF Reading, Listed, Kind
    <2> QED
      BY <1>1, <1>4, <1>5, <2>1, <2>2 DEF Reading
  <1>8. \A e \in DOMAIN store : StillToCome(e)'
    BY <1>1, <1>3, StoredRows, Kinds DEF StillToCome, Passed, Kind
  <1>9. ASSUME Quiet' PROVE AllSevered'
    <2>1. got' = [package |-> k, refers |-> store[k].refers]
      BY <1>1, <1>2, <1>3, <1>4, <1>9, BoundIsNumber DEF Quiet, Fault, TypeOK
    <2>2. AllSevered
      BY <1>1, <1>4, <1>9 DEF Quiet, IInv
    <2>3. ASSUME ~ hasMorePages, NEW j \in DOMAIN store \intersect Packages
          PROVE  j \in page' \/ got'.package = j \/ IsSevered(j)'
      <3>1. j \in page \/ got.package = j \/ IsSevered(j)
        BY <2>2, <2>3 DEF AllSevered
      <3>2. got.package # j
        BY <1>1, EntitiesDiffer DEF NoPackage
      <3>3. got'.package = k
        BY <2>1
      <3>4. IsSevered(j)' <=> IsSevered(j)
        BY <1>1 DEF IsSevered
      <3> QED
        BY <1>1, <3>1, <3>2, <3>3, <3>4
    <2> QED
      BY <1>1, <2>2, <2>3 DEF AllSevered
  <1>10. (RequiredBy(store) \subseteq required /\ required \subseteq Packages)'
    BY <1>1 DEF IInv, RequiredBy
  <1> QED
    BY <1>1, <1>6, <1>7, <1>8, <1>9, <1>10 DEF IInv, Wiped, Cleared

LEMMA UpdatePackageKeeps ==
    ASSUME IInv, UpdatePackage
    PROVE  IInv'
  <1> DEFINE k == got.package
             row == [deployed |-> FALSE, refers |-> got.refers \intersect Artifacts]
  <1>1. /\ got # NoPackage /\ got' = NoPackage
        /\ UNCHANGED <<phase, page, hasMorePages, offset, others, atStart, required>>
    BY DEF UpdatePackage
  <1>2. \/ /\ store' = [store EXCEPT ![k] = row]
           /\ UNCHANGED <<errors, faults>>
        \/ Fault /\ store' \in {store, [store EXCEPT ![k] = row]}
    BY DEF UpdatePackage, Severed
  <1>3. TypeOK /\ Reading
    BY DEF IInv
  <1>4. /\ phase = "prepare"
        /\ k \in Packages \intersect DOMAIN store
        /\ got.refers \subseteq DOMAIN store
    BY <1>1, <1>3 DEF Reading
  <1>5. /\ errors' \in BOOLEAN
        /\ faults' \in 0 .. MaxDisturbances /\ others' \in 0 .. MaxDisturbances
        /\ faults' + others' <= MaxDisturbances
        /\ faults' = 0 /\ others' = 0 => UNCHANGED <<errors, faults, others>>
    BY <1>1, <1>2, Counters
  <1>6. /\ DOMAIN store' = DOMAIN store
        /\ \A e \in DOMAIN store : store'[e] = store[e] \/ (e = k /\ store'[e] = row)
    BY <1>2, <1>4
  <1>7. RowIn(row, k, DOMAIN store)
    <2>1. row \in PackageRow(DOMAIN store)
      BY <1>4 DEF PackageRow
    <2> QED
      BY <1>4, <2>1, EntitiesDiffer DEF RowIn
  <1>8. \A e \in DOMAIN store : RowIn(store'[e], e, DOMAIN store)
    BY <1>3, <1>6, <1>7, StoredRows
  <1>9. TypeOK'
    BY <1>1, <1>3, <1>5, <1>6, <1>8 DEF TypeOK, RowIn
  <1>10. Reading'
    <2>1. \A kind : Listed(kind)' = Listed(kind)
      BY <1>6 DEF Listed, Kind
    <2> QED
      BY <1>1, <1>3, <1>4, <1>5, <2>1 DEF Reading
  <1>11. \A e \in DOMAIN store : StillToCome(e)'
    BY <1>1, <1>3, <1>4, StoredRows, Kinds DEF StillToCome, Passed, Kind
  <1>12. ASSUME Quiet' PROVE AllSevered'
    <2>1. store' = [store EXCEPT ![k] = row]
      BY <1>1, <1>2, <1>3, <1>5, <1>12, BoundIsNumber DEF Quiet, Fault, TypeOK
    <2>2. AllSevered
      BY <1>1, <1>5, <1>12 DEF Quiet, IInv
    <2>3. ASSUME ~ hasMorePages, NEW j \in DOMAIN store \intersect Packages
          PROVE  j \in page \/ IsSevered(j)'
      <3>1. CASE j = k
        <4>1. store'[j] = row
          BY <1>4, <2>1, <3>1
        <4> QED
          BY <4>1 DEF IsSevered
      <3>2. CASE j # k
        <4>1. j \in page \/ IsSevered(j)
          BY <1>4, <2>2, <2>3, <3>2 DEF AllSevered
        <4>2. store'[j] = store[j]
          BY <1>6, <3>2
        <4> QED
          BY <4>1, <4>2 DEF IsSevered
      <3> QED
        BY <3>1, <3>2
    <2> QED
      BY <1>1, <1>4, <1>6, <2>2, <2>3 DEF AllSevered
  <1>13. (RequiredBy(store) \subseteq required /\ required \subseteq Packages)'
    <2>1. RequiredBy(store') \subseteq RequiredBy(store)
      BY <1>4, <1>6, EntitiesDiffer DEF RequiredBy
    <2> QED
      BY <1>1, <2>1 DEF IInv
  <1> QED
    BY <1>1, <1>6, <1>9, <1>10, <1>11, <1>12, <1>13 DEF IInv, Wiped, Cleared

-----------------------------------------------------------------------------
(* Deletions.                                                              *)

\* What stays after a deletion that is not refused.
LEMMA DeletedRows ==
    ASSUME TypeOK, NEW e \in DOMAIN store, ~ Refused(e),
           NEW deleted, deleted = Restrict(store, DOMAIN store \ {e})
    PROVE  /\ DOMAIN deleted = DOMAIN store \ {e}
           /\ \A f \in DOMAIN deleted : /\ deleted[f] = store[f]
                                        /\ RowIn(deleted[f], f, DOMAIN deleted)
  <1>1. /\ DOMAIN deleted = DOMAIN store \ {e}
        /\ \A f \in DOMAIN deleted : deleted[f] = store[f]
    BY DEF Restrict
  <1>2. ASSUME NEW f \in DOMAIN deleted
        PROVE  RowIn(deleted[f], f, DOMAIN deleted)
    <2>1. RowIn(store[f], f, DOMAIN store) /\ f \in Entities
      BY <1>1, StoredRows
    <2>2. store[f].refers \subseteq DOMAIN store
      BY <2>1, RowRefers
    <2>3. e \notin store[f].refers
      BY <1>1 DEF Refused
    <2> QED
      BY <1>1, <2>1, <2>2, <2>3, RowKept
  <1> QED
    BY <1>1, <1>2

\* What the catalog refuses to delete when nothing interferes: required packages,
\* with their artifacts.
LEMMA RefusedIsKept ==
    ASSUME IInv, Quiet, NEW e \in DOMAIN store, phase = Kind(e), Refused(e)
    PROVE  e \in Artifacts \union required
  <1>1. TypeOK /\ AllSevered /\ Cleared /\ RequiredBy(store) \subseteq required
        /\ required \subseteq Packages
    BY DEF IInv
  <1>2. /\ e \in Entities /\ RowIn(store[e], e, DOMAIN store)
        /\ phase # "prepare"
    BY <1>1, StoredRows, Kinds
  <1>3. ASSUME NEW f \in DOMAIN store, e \in store[f].refers
        PROVE  e \in Artifacts \union required
    <2>1. f \in Entities /\ RowIn(store[f], f, DOMAIN store)
      BY <1>1, StoredRows
    <2>2. CASE f \in Packages
      <3>1. IsSevered(f)
        BY <1>1, <1>2, <2>2 DEF AllSevered
      <3> QED
        BY <1>3, <3>1 DEF IsSevered
    <2>3. CASE f \in Applications
      <3>1. e \in Registries \union Packages
        BY <1>3, <2>1, <2>3, RowRefers
      <3>2. e \in Packages => e \in required
        BY <1>1, <1>3, <2>3 DEF RequiredBy
      <3>3. e \notin Registries
        <4>1. SUFFICES ASSUME e \in Registries PROVE FALSE
          OBVIOUS
        <4>2. phase = "registries" /\ Kind(f) = "applications"
          BY <1>2, <2>1, <2>3, <4>1, Kinds
        <4>3. f \notin Artifacts \union required
          BY <1>1, <2>3, EntitiesDiffer
        <4>4. Kind(f) \notin Passed(phase)
          BY <1>1, <4>3 DEF Cleared, StillToCome
        <4> QED
          BY <4>2, <4>4 DEF Passed
      <3> QED
        BY <3>1, <3>2, <3>3
    <2>4. CASE f \in Artifacts \union Registries
      BY <1>3, <2>1, <2>4, RowRefers
    <2> QED
      BY <2>1, <2>2, <2>3, <2>4 DEF Entities
  <1>4. ~ store[e].deployed
    <2>1. CASE e \in Packages
      BY <1>1, <1>2, <2>1 DEF AllSevered, IsSevered
    <2>2. CASE e \notin Packages
      <3>1. e \in Applications \union Artifacts \union Registries
        BY <1>2, <2>2 DEF Entities
      <3> QED
        BY <1>2, <3>1, RowRefers
    <2> QED
      BY <2>1, <2>2
  <1> QED
    BY <1>3, <1>4 DEF Refused

LEMMA DeleteKeeps ==
    ASSUME IInv, NEW e \in Entities, Delete(e)
    PROVE  IInv'
  <1> DEFINE deleted == Restrict(store, DOMAIN store \ {e})
  <1>1. /\ phase = Kind(e) /\ e \in page /\ page' = page \ {e}
        /\ UNCHANGED <<phase, hasMorePages, offset, got, others, atStart, required>>
    BY DEF Delete, IsNext
  <1>2. \/ ~ Refused(e) /\ store' = deleted /\ UNCHANGED <<errors, faults>>
        \/ Refused(e) /\ errors' = TRUE /\ store' = store /\ UNCHANGED faults
        \/ Fault /\ (store' = store \/ (~ Refused(e) /\ store' = deleted))
    <2>1. \/ ~ Refused(e) /\ store' = deleted /\ UNCHANGED <<errors, faults>>
          \/ Refused(e) /\ errors' = TRUE /\ UNCHANGED <<store, faults>>
          \/ Fault /\ store' \in IF Refused(e) THEN {store} ELSE {store, deleted}
      BY DEF Delete
    <2>2. store' \in (IF Refused(e) THEN {store} ELSE {store, deleted})
          => store' = store \/ (~ Refused(e) /\ store' = deleted)
      <3> HIDE DEF deleted
      <3> QED
        OBVIOUS
    <2> HIDE DEF deleted
    <2> QED
      BY <2>1, <2>2
  <1>3. TypeOK /\ Reading
    BY DEF IInv
  <1>4. /\ phase \in {"packages", "applications", "artifacts", "registries"}
        /\ KindOf(phase) = Kind(e) /\ e \in DOMAIN store
        /\ got = NoPackage /\ offset = 0
    <2>1. phase \in {"packages", "applications", "artifacts", "registries"}
      BY <1>1, Kinds
    <2> QED
      BY <1>1, <1>3, <2>1 DEF Reading, KindOf, Listed
  <1>5. /\ errors' \in BOOLEAN
        /\ faults' \in 0 .. MaxDisturbances /\ others' \in 0 .. MaxDisturbances
        /\ faults' + others' <= MaxDisturbances
    <2>1. CASE Refused(e) /\ errors' = TRUE /\ store' = store /\ UNCHANGED faults
      BY <1>1, <1>3, <2>1 DEF TypeOK, Reading
    <2>2. CASE Fault \/ UNCHANGED <<errors, faults>>
      BY <1>1, <2>2, Counters
    <2> QED
      BY <1>2, <2>1, <2>2
  <1>6. /\ DOMAIN store' \subseteq DOMAIN store
        /\ DOMAIN store \subseteq DOMAIN store' \union {e}
        /\ \A f \in DOMAIN store' : /\ store'[f] = store[f]
                                    /\ RowIn(store'[f], f, DOMAIN store')
    <2>1. CASE store' = store
      BY <1>3, <2>1, StoredRows
    <2>2. CASE ~ Refused(e) /\ store' = deleted
      <3>1. /\ DOMAIN deleted = DOMAIN store \ {e}
            /\ \A f \in DOMAIN deleted : /\ deleted[f] = store[f]
                                         /\ RowIn(deleted[f], f, DOMAIN deleted)
        BY <1>3, <1>4, <2>2, DeletedRows
      <3> QED
        BY <2>2, <3>1
    <2> QED
      BY <1>2, <2>1, <2>2
  <1>7. e \in DOMAIN store' => errors' /\ (Refused(e) \/ faults' = faults + 1)
    <2>1. DOMAIN deleted = DOMAIN store \ {e}
      BY DEF Restrict
    <2> QED
      BY <1>2, <2>1 DEF Fault
  <1>8. TypeOK'
    <2>1. DOMAIN store' \subseteq Entities /\ page' \subseteq Entities
      BY <1>1, <1>3, <1>6 DEF TypeOK
    <2> QED
      BY <1>1, <1>3, <1>4, <1>5, <1>6, <2>1 DEF TypeOK, RowIn
  <1>9. Reading'
    <2>1. page' \subseteq Listed(KindOf(phase))'
      BY <1>1, <1>3, <1>6 DEF Reading, Listed, Kind
    <2> QED
      BY <1>1, <1>4, <1>5, <2>1 DEF Reading
  <1>10. ASSUME NEW f \in DOMAIN store, f # e, StillToCome(f)
         PROVE  StillToCome(f)'
    BY <1>1, <1>10 DEF StillToCome, Kind
  <1>11. Wiped'
    <2>1. ASSUME ~ errors' PROVE ~ errors /\ e \notin DOMAIN store'
      BY <1>2, <1>7, <2>1 DEF Fault
    <2> QED
      BY <1>1, <1>6, <1>10, <2>1 DEF IInv, Wiped
  <1>12. ASSUME Quiet' PROVE AllSevered' /\ Cleared'
    <2>1. UNCHANGED faults /\ ~ (faults' = faults + 1)
      BY <1>2, <1>3, <1>12, BoundIsNumber DEF Quiet, Fault, TypeOK
    <2>2. Quiet
      BY <1>1, <1>12, <2>1 DEF Quiet
    <2>3. AllSevered /\ Cleared
      BY <2>2 DEF IInv
    <2>4. AllSevered'
      BY <1>1, <1>4, <1>6, <2>3 DEF AllSevered, IsSevered
    <2>5. e \in DOMAIN store' => e \in Artifacts \union required
      BY <1>1, <1>4, <1>7, <2>1, <2>2, RefusedIsKept
    <2>6. Cleared'
      BY <1>1, <1>6, <1>10, <2>3, <2>5 DEF Cleared
    <2> QED
      BY <2>4, <2>6
  <1>13. (RequiredBy(store) \subseteq required /\ required \subseteq Packages)'
    <2>1. RequiredBy(store') \subseteq RequiredBy(store)
      BY <1>6 DEF RequiredBy
    <2> QED
      BY <1>1, <2>1 DEF IInv
  <1> QED
    BY <1>8, <1>9, <1>11, <1>12, <1>13 DEF IInv

-----------------------------------------------------------------------------
(* Other clients.                                                          *)

LEMMA OtherCreatesKeeps ==
    ASSUME IInv, NEW e \in Entities, OtherCreates(e)
    PROVE  IInv'
  <1>1. /\ e \notin DOMAIN store \union atStart
        /\ faults + others < MaxDisturbances
        /\ others' = others + 1
        /\ required' = required \union RequiredBy(store')
        /\ UNCHANGED <<phase, page, hasMorePages, offset, got, errors, faults, atStart>>
    BY DEF OtherCreates
  <1>2. PICK row \in Rows({e}, DOMAIN store) :
            store' = [f \in DOMAIN store \union {e} |-> IF f = e THEN row[e] ELSE store[f]]
    BY DEF OtherCreates
  <1>3. TypeOK /\ Reading
    BY DEF IInv
  <1>4. /\ errors' \in BOOLEAN
        /\ faults' \in 0 .. MaxDisturbances /\ others' \in 0 .. MaxDisturbances
        /\ faults' + others' <= MaxDisturbances
    BY <1>1, Counters
  <1>5. /\ DOMAIN store' = DOMAIN store \union {e}
        /\ \A f \in DOMAIN store : store'[f] = store[f]
        /\ store'[e] = row[e]
    BY <1>1, <1>2
  <1>6. \A f \in DOMAIN store' : RowIn(store'[f], f, DOMAIN store')
    <2>1. RowIn(row[e], e, DOMAIN store)
      BY <1>2, RowsAreRows
    <2>2. row[e].refers \subseteq DOMAIN store
      BY <2>1, RowRefers
    <2>3. RowIn(store'[e], e, DOMAIN store')
      BY <1>5, <2>1, <2>2, RowKept
    <2>4. ASSUME NEW f \in DOMAIN store
          PROVE  RowIn(store'[f], f, DOMAIN store')
      <3>1. RowIn(store[f], f, DOMAIN store) /\ f \in Entities
        BY <1>3, StoredRows
      <3>2. store[f].refers \subseteq DOMAIN store
        BY <3>1, RowRefers
      <3> QED
        BY <1>5, <3>1, <3>2, RowKept
    <2> QED
      BY <1>5, <2>3, <2>4
  <1>7. TypeOK'
    <2>1. DOMAIN store' \subseteq Entities
      BY <1>3, <1>5 DEF TypeOK
    <2> QED
      BY <1>1, <1>3, <1>4, <1>5, <1>6, <2>1 DEF TypeOK, RowIn
  <1>8. \A kind : Listed(kind) \subseteq Listed(kind)'
    BY <1>5 DEF Listed, Kind
  <1>9. Reading'
    <2>1. page' \subseteq Listed(KindOf(phase))'
      BY <1>1, <1>3, <1>8 DEF Reading, KindOf
    <2>2. phase = "prepare" => offset <= Cardinality(Listed("packages")')
      <3>1. Listed("packages")' \subseteq Packages
        BY <1>7, Kinds DEF TypeOK, Listed, Kind
      <3>2. IsFiniteSet(Packages)
        <4>1. Packages \subseteq Entities /\ IsFiniteSet(Entities)
          BY EntitiesDiffer DEF Entities
        <4> QED
          BY <4>1, FS_Subset
      <3>3. IsFiniteSet(Listed("packages")')
        BY <3>1, <3>2, FS_Subset
      <3>4. /\ Cardinality(Listed("packages")) <= Cardinality(Listed("packages")')
            /\ Cardinality(Listed("packages")) \in Nat
            /\ Cardinality(Listed("packages")') \in Nat
        BY <1>8, <3>3, FS_Subset, FS_CardinalityType
      <3>5. phase = "prepare" => offset <= Cardinality(Listed("packages"))
        BY <1>3 DEF Reading
      <3>6. offset \in 0 .. Cardinality(Packages) /\ Cardinality(Packages) \in Nat
        BY <1>3, ListedCounts DEF TypeOK
      <3> QED
        BY <3>4, <3>5, <3>6
    <2> QED
      BY <1>1, <1>3, <1>4, <1>5, <2>1, <2>2 DEF Reading
  <1>10. Wiped'
    BY <1>1, <1>5 DEF IInv, Wiped, StillToCome, Kind
  <1>11. ~ Quiet'
    <2>1. others \in 0 .. MaxDisturbances
      BY <1>3 DEF TypeOK
    <2> QED
      BY <1>1, <2>1, BoundIsNumber DEF Quiet
  <1>12. (RequiredBy(store) \subseteq required /\ required \subseteq Packages)'
    <2>1. RequiredBy(store') \subseteq Packages
      BY DEF RequiredBy
    <2> QED
      BY <1>1, <2>1 DEF IInv
  <1> QED
    BY <1>7, <1>9, <1>10, <1>11, <1>12 DEF IInv

LEMMA OtherDeploysKeeps ==
    ASSUME IInv, NEW k \in Packages, OtherDeploys(k)
    PROVE  IInv'
  <1>1. /\ k \in DOMAIN store
        /\ faults + others < MaxDisturbances
        /\ others' = others + 1
        /\ store' = [store EXCEPT ![k].deployed = TRUE]
        /\ UNCHANGED <<phase, page, hasMorePages, offset, got, errors, faults, atStart,
                       required>>
    BY DEF OtherDeploys
  <1>2. TypeOK /\ Reading
    BY DEF IInv
  <1>3. /\ errors' \in BOOLEAN
        /\ faults' \in 0 .. MaxDisturbances /\ others' \in 0 .. MaxDisturbances
        /\ faults' + others' <= MaxDisturbances
    BY <1>1, Counters
  <1>4. store[k] \in PackageRow(DOMAIN store)
    BY <1>1, <1>2, StoredRows, EntitiesDiffer DEF RowIn
  <1>5. /\ DOMAIN store' = DOMAIN store
        /\ \A f \in DOMAIN store : f # k => store'[f] = store[f]
        /\ store'[k] = [store[k] EXCEPT !.deployed = TRUE]
    BY <1>1
  <1>6. store'[k] \in PackageRow(DOMAIN store)
    BY <1>4, <1>5 DEF PackageRow
  <1>7. \A f \in DOMAIN store' : RowIn(store'[f], f, DOMAIN store')
    <2>1. RowIn(store'[k], k, DOMAIN store')
      BY <1>5, <1>6, EntitiesDiffer DEF RowIn
    <2> QED
      BY <1>2, <1>5, <2>1, StoredRows
  <1>8. TypeOK'
    BY <1>1, <1>2, <1>3, <1>5, <1>7 DEF TypeOK, RowIn
  <1>9. Reading'
    <2>1. \A kind : Listed(kind)' = Listed(kind)
      BY <1>5 DEF Listed, Kind
    <2> QED
      BY <1>1, <1>2, <1>3, <1>5, <2>1 DEF Reading
  <1>10. Wiped'
    BY <1>1, <1>5 DEF IInv, Wiped, StillToCome, Kind
  <1>11. ~ Quiet'
    <2>1. others \in 0 .. MaxDisturbances
      BY <1>2 DEF TypeOK
    <2> QED
      BY <1>1, <2>1, BoundIsNumber DEF Quiet
  <1>12. (RequiredBy(store) \subseteq required /\ required \subseteq Packages)'
    <2>1. RequiredBy(store') = RequiredBy(store)
      BY <1>1, <1>5, EntitiesDiffer DEF RequiredBy
    <2> QED
      BY <1>1, <2>1 DEF IInv
  <1> QED
    BY <1>8, <1>9, <1>10, <1>11, <1>12 DEF IInv

-----------------------------------------------------------------------------
(* The theorems.                                                           *)

LEMMA NextIInv == IInv /\ [Next]_vars => IInv'
  <1> SUFFICES ASSUME IInv, [Next]_vars PROVE IInv'
    OBVIOUS
  <1>1. CASE List
    BY <1>1, ListKeeps
  <1>2. CASE ListFails \/ EndPhase
    BY <1>2, LoopEnds
  <1>3. ASSUME NEW k \in Packages, GetPackage(k) PROVE IInv'
    BY <1>3, GetPackageKeeps
  <1>4. CASE UpdatePackage
    BY <1>4, UpdatePackageKeeps
  <1>5. ASSUME NEW e \in Entities, Delete(e) PROVE IInv'
    BY <1>5, DeleteKeeps
  <1>6. ASSUME NEW e \in Entities, OtherCreates(e) PROVE IInv'
    BY <1>6, OtherCreatesKeeps
  <1>7. ASSUME NEW k \in Packages, OtherDeploys(k) PROVE IInv'
    BY <1>7, OtherDeploysKeeps
  <1>8. CASE UNCHANGED vars
    BY <1>8 DEF vars, IInv, TypeOK, Reading, Wiped, Quiet, AllSevered, Cleared, StillToCome,
                IsSevered, Listed, RequiredBy
  <1> QED
    BY <1>1, <1>2, <1>3, <1>4, <1>5, <1>6, <1>7, <1>8 DEF Next, Wipe

\* The inductive invariant holds in every run.
THEOREM WiperInductive == Spec => []IInv
  <1> QED
    BY InitIInv, NextIInv, PTL DEF Spec

\* The wiper, other clients and failing calls keep to the types, and what an
\* entity refers to exists, whatever Wipe has deleted so far.
THEOREM WiperTypeCorrect == Spec => []TypeOK
  <1>1. IInv => TypeOK
    BY DEF IInv
  <1> QED
    BY <1>1, WiperInductive, PTL

\* Wipe passes over nothing that was there when it began without an error.
THEOREM NothingPassedOver == Spec => []NoErrorMeansWiped
  <1>1. IInv => NoErrorMeansWiped
    <2> SUFFICES ASSUME IInv, phase = "done", ~ errors
                 PROVE  DOMAIN store \intersect atStart = {}
      BY DEF NoErrorMeansWiped
    <2>1. ASSUME NEW e \in DOMAIN store \intersect atStart PROVE FALSE
      <3>1. StillToCome(e)
        BY DEF IInv, Wiped
      <3>2. Kind(e) \in {"packages", "applications", "artifacts", "registries"}
        BY StoredRows, Kinds DEF IInv
      <3> QED
        BY <3>1, <3>2 DEF StillToCome, Passed
    <2> QED
      BY <2>1
  <1> QED
    BY <1>1, WiperInductive, PTL

\* A wipe that nothing interferes with, of a project whose packages fit a page,
\* leaves required packages and their artifacts at most
\* (preparePackageForDeletion).
THEOREM RequiredAlone == Spec => []OnlyRequiredStay
  <1>1. IInv => OnlyRequiredStay
    <2> SUFFICES ASSUME IInv, phase = "done", Quiet
                 PROVE  DOMAIN store \subseteq required \union Artifacts
      BY DEF OnlyRequiredStay, Quiet
    <2>1. ASSUME NEW e \in DOMAIN store, e \notin Artifacts \union required PROVE FALSE
      <3>1. StillToCome(e)
        BY <2>1 DEF IInv, Cleared
      <3>2. Kind(e) \in {"packages", "applications", "artifacts", "registries"}
        BY StoredRows, Kinds DEF IInv
      <3> QED
        BY <3>1, <3>2 DEF StillToCome, Passed
    <2> QED
      BY <2>1
  <1> QED
    BY <1>1, WiperInductive, PTL
=============================================================================
