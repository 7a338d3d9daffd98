----------------------- MODULE ProjectMigrationProofs -----------------------
(***************************************************************************)
(* What a migration leaves behind, for any number of registries, requests, *)
(* failures, crashes and restarts.                                         *)
(***************************************************************************)
EXTENDS ProjectMigration, RegistrySecretsProofs

\* Rows and secrets of the name agree in both projects.
Fine(n) == Settled(Old(n)) /\ Settled(New(n))

\* The name is used in the old project only.
ToMove(n) == registries[Old(n)] # None /\ registries[New(n)] = None

\* The row is still to be moved, and its secret has been.
Moved(n) == /\ ToMove(n)
            /\ vault[Old(n)] = None
            /\ Claimed(New(n)) \/ vault[New(n)] = registries[Old(n)]

\* The row is still to be moved, and its secret is where it was.
Movable(n) == ToMove(n) /\ Settled(Old(n))

\* Where an attempt that was interrupted leaves a name.
Half(n) == Fine(n) \/ Moved(n) \/ Movable(n)

\* What the loop over the secrets leaves: nothing to move, a row that the update
\* of the registries will refuse, or a secret that was moved or is in doubt.
Passed(n) == \/ Fine(n) /\ ~ ToMove(n)
             \/ ToMove(n) /\ Old(n) \in doubtful
             \/ Moved(n)

InHand(n) == server \in {"write", "delete"} /\ current.name = n

\* The name whose secret is being moved.
HandSteps(n) ==
    /\ registries[Old(n)] # None
    /\ Settled(Old(n))
    /\ server = "write" => /\ Half(n)
                           /\ \/ current.secret = registries[Old(n)]
                              \/ Old(n) \in doubtful
    /\ server = "delete" => /\ registries[New(n)] = None
                            /\ \/ {Old(n), New(n)} \cap doubtful # {}
                               \/ vault[New(n)] = registries[Old(n)]

\* What is known of a name that nobody used while a migration was half done.
NameSteps(n) ==
    /\ server \in {"starting", "serving"} => Half(n)
    /\ server = "serving" /\ migration = "done" => Fine(n)
    /\ server \in {"login", "read", "write", "delete"} =>
          \/ n \in moving /\ ~ InHand(n) /\ registries[Old(n)] # None /\ Half(n)
          \/ n \notin moving /\ ~ InHand(n) /\ Passed(n)
          \/ n \notin moving /\ InHand(n) /\ HandSteps(n)
    /\ server = "registries" => Passed(n)
    /\ server \in Range(Tables) \cup {"commit"} => Fine(n)

\* Keys of other projects are no matter of the migration.
Elsewhere(k) == k[1] \notin {OldProject, NewProject}

\* What the updates have done when the migration is at a table.
TableSteps ==
    /\ server \in Range(Tables) \cup {"commit"} =>
          \A n \in Names : registries[Old(n)] = None
    /\ server = "applications" => "artifacts" \notin left
    /\ server = "packages" => {"artifacts", "applications"} \cap left = {}
    /\ server = "commit" => left = {}

\* The inductive invariant.
MInv == /\ TypeOK
        /\ Shape
        /\ server \in {"write", "delete"} => current \in [name : Names, secret : Contents]
        /\ \A k \in Keys : Elsewhere(k) => Settled(k)
        /\ \A n \in Names \ unsettled : NameSteps(n)
        /\ TableSteps

-----------------------------------------------------------------------------
(* Keys, and the state without requests.                                   *)

LEMMA KeysOfNames ==
    /\ \A n \in Names : Old(n) \in Keys /\ New(n) \in Keys /\ Old(n)[2] = n /\ New(n)[2] = n
    /\ \A n \in Names : Old(n)[1] = OldProject /\ New(n)[1] = NewProject
    /\ \A m, n \in Names : /\ Old(m) # New(n)
                           /\ m # n => Old(m) # Old(n) /\ New(m) # New(n)
    /\ \A k \in Keys : /\ k[1] = OldProject => k[2] \in Names /\ k = Old(k[2])
                       /\ k[1] = NewProject => k[2] \in Names /\ k = New(k[2])
BY ProjectsDiffer DEF Keys, Old, New

LEMMA QuietBefore ==
    ASSUME Busy = {}
    PROVE  /\ \A k : Claimed(k) <=> k \in doubtful
           /\ \A k \in Keys : Settled(k) <=> k \in doubtful \/ vault[k] = registries[k]
<1>1. \A r \in Requests : Called(r) = {}
  BY DEF Busy, Called
<1> QED
  BY <1>1 DEF Settled, Agrees, Claimed

LEMMA QuietAfter ==
    ASSUME Busy' = {}
    PROVE  /\ \A k : Claimed(k)' <=> k \in doubtful'
           /\ \A k \in Keys : Settled(k)' <=> k \in doubtful' \/ vault'[k] = registries'[k]
<1>1. \A r \in Requests : Called(r)' = {}
  BY DEF Busy, Called
<1> QED
  BY <1>1 DEF Settled, Agrees, Claimed

\* A name whose rows and secrets a step leaves alone.
Untouched(n) == /\ UNCHANGED <<registries[Old(n)], registries[New(n)],
                              vault[Old(n)], vault[New(n)]>>
                /\ {Old(n), New(n)} \cap doubtful \subseteq doubtful'

LEMMA UntouchedKeeps ==
    ASSUME Busy = {}, Busy' = {}, NEW n \in Names, Untouched(n)
    PROVE  /\ ToMove(n)' <=> ToMove(n)
           /\ Fine(n) => Fine(n)'
           /\ Half(n) => Half(n)'
           /\ Passed(n) => Passed(n)'
           /\ Settled(Old(n)) => Settled(Old(n))'
<1>1. Old(n) \in Keys /\ New(n) \in Keys /\ Old(n)' = Old(n) /\ New(n)' = New(n)
  BY KeysOfNames DEF Old, New
<1>2. ToMove(n)' <=> ToMove(n)
  BY <1>1 DEF ToMove, Untouched
<1>3. Fine(n) => Fine(n)'
  BY <1>1, QuietBefore, QuietAfter DEF Fine, Untouched
<1>4. Settled(Old(n)) => Settled(Old(n))'
  BY <1>1, QuietBefore, QuietAfter DEF Untouched
<1>5. Moved(n) => Moved(n)'
  BY <1>1, <1>2, QuietBefore, QuietAfter DEF Moved, Untouched
<1> QED
  BY <1>1, <1>2, <1>3, <1>4, <1>5 DEF Half, Movable, Passed, Untouched

\* The types of a step of the migration that leaves requests alone.
LEMMA MigrationTypes ==
    ASSUME TypeOK, Shape, Busy = {}, UNCHANGED <<request, arrived>>,
           registries' \in [Keys -> Values], vault' \in [Keys -> Values],
           late' \subseteq Keys \X Values, doubtful' \subseteq Keys,
           faults' \in 0 .. MaxFaults,
           server' \in {"starting", "login", "read", "write", "delete", "registries",
                        "commit", "serving"} \cup Range(Tables),
           moving' \subseteq Names,
           current' \in {NoSecret} \cup [name : Names, secret : Contents],
           left' \subseteq Range(Tables), migration' \in {"failed", "done"},
           unsettled' \subseteq Names, crashes' \in 0 .. MaxCrashes
    PROVE  TypeOK' /\ Shape' /\ Busy' = {}
<1>1. Busy' = {}
  BY DEF Busy
<1>2. Shape'
  BY DEF Shape, SecretsTypeOK
<1> QED
  BY <1>1, <1>2 DEF TypeOK, Shape

\* Keys of other projects.
LEMMA ElsewhereKept ==
    ASSUME MInv, Busy = {}, Busy' = {}, NEW k \in Keys, Elsewhere(k),
           vault'[k] = vault[k], registries'[k] = registries[k],
           k \in doubtful => k \in doubtful'
    PROVE  Settled(k)'
BY QuietBefore, QuietAfter DEF MInv

\* The names of the tables are no other steps.
LEMMA TablesAre ==
    /\ Range(Tables) = {"artifacts", "applications", "packages"}
    /\ DOMAIN Tables = 1 .. 3 /\ Len(Tables) = 3 /\ Head(Tables) = "artifacts"
    /\ Tables[1] = "artifacts" /\ Tables[2] = "applications" /\ Tables[3] = "packages"
<1>1. /\ DOMAIN Tables = 1 .. 3 /\ Len(Tables) = 3 /\ Head(Tables) = "artifacts"
      /\ Tables[1] = "artifacts" /\ Tables[2] = "applications" /\ Tables[3] = "packages"
  BY DEF Tables
<1>2. 1 .. 3 = {1, 2, 3}
  OBVIOUS
<1> QED
  BY <1>1, <1>2 DEF Range

-----------------------------------------------------------------------------
(* The migration.                                                          *)

LEMMA NotServing ==
    ASSUME MInv, server # "serving"
    PROVE  Busy = {} /\ TypeOK /\ Shape
BY DEF MInv, TypeOK

LEMMA StartMigrationKeeps ==
    ASSUME MInv, StartMigration
    PROVE  MInv'
<1>1. /\ server = "starting" /\ server' = "login"
      /\ moving' = {n \in Names : registries[Old(n)] # None}
      /\ UNCHANGED <<registries, vault, request, late, doubtful, arrived, faults,
                     current, left, migration, unsettled, crashes>>
  BY DEF StartMigration, svars
<1>2. TypeOK' /\ Shape' /\ Busy = {} /\ Busy' = {}
  BY <1>1, NotServing, MigrationTypes DEF TypeOK, SecretsTypeOK
<1>3. ASSUME NEW n \in Names \ unsettled'
      PROVE  NameSteps(n)'
  <2>1. Half(n)
    BY <1>1, <1>3 DEF MInv, NameSteps
  <2>2. Half(n)' /\ (Passed(n) => Passed(n)')
    BY <1>1, <1>2, <2>1, UntouchedKeeps DEF Untouched
  <2>3. n \notin moving' => Passed(n)
    BY <1>1, <2>1 DEF Half, Moved, Movable, ToMove, Passed
  <2> QED
    BY <1>1, <2>2, <2>3, TablesAre DEF NameSteps, InHand, Old
<1>4. ASSUME NEW k \in Keys, Elsewhere(k)
      PROVE  Settled(k)'
  BY <1>1, <1>2, <1>4, ElsewhereKept
<1>5. TableSteps'
  BY <1>1, TablesAre DEF TableSteps
<1> QED
  BY <1>1, <1>2, <1>3, <1>4, <1>5 DEF MInv, Elsewhere

\* A migration that fails before the secrets are moved, or at the registries.
LEMMA FailsKeeps ==
    ASSUME MInv, server \in {"login", "registries"} \cup Range(Tables) \cup {"commit"},
           Fails, faults' \in 0 .. MaxFaults,
           UNCHANGED <<registries, vault, request, late, doubtful, arrived,
                       moving, current, left, unsettled, crashes>>
    PROVE  MInv'
<1>1. server' = "serving" /\ migration' = "failed"
  BY DEF Fails
<1>2. TypeOK' /\ Shape' /\ Busy = {} /\ Busy' = {}
  BY <1>1, TablesAre, NotServing, MigrationTypes DEF TypeOK, SecretsTypeOK
<1>3. ASSUME NEW n \in Names \ unsettled'
      PROVE  NameSteps(n)'
  <2>1. Half(n) \/ Passed(n) \/ Fine(n)
    BY <1>3, TablesAre DEF MInv, NameSteps, InHand
  <2>2. Half(n)
    BY <2>1 DEF Passed, Half, Movable, Settled
  <2>3. Half(n)'
    BY <1>2, <1>3, <2>2, UntouchedKeeps DEF Untouched
  <2> QED
    BY <1>1, <2>3, TablesAre DEF NameSteps
<1>4. ASSUME NEW k \in Keys, Elsewhere(k)
      PROVE  Settled(k)'
  BY <1>2, <1>4, ElsewhereKept
<1>5. TableSteps'
  BY <1>1, TablesAre DEF TableSteps
<1> QED
  BY <1>1, <1>2, <1>3, <1>4, <1>5 DEF MInv, Elsewhere

LEMMA LoginKeeps ==
    ASSUME MInv, Login
    PROVE  MInv'
<1>1. /\ server = "login"
      /\ UNCHANGED <<registries, vault, request, late, doubtful, arrived,
                     moving, current, left, unsettled, crashes>>
  BY DEF Login
<1>2. CASE Fault /\ Fails
  BY <1>1, <1>2, NotServing, FaultCounts, FailsKeeps
<1>3. CASE server' = "read" /\ UNCHANGED <<migration, faults>>
  <2>1. TypeOK' /\ Shape' /\ Busy = {} /\ Busy' = {}
    BY <1>1, <1>3, NotServing, MigrationTypes DEF TypeOK, SecretsTypeOK
  <2>2. ASSUME NEW n \in Names \ unsettled'
        PROVE  NameSteps(n)'
    <3>1. /\ Half(n) => Half(n)'
          /\ Passed(n) => Passed(n)'
      BY <1>1, <2>1, <2>2, UntouchedKeeps DEF Untouched
    <3> QED
      BY <1>1, <1>3, <2>2, <3>1, TablesAre DEF MInv, NameSteps, InHand, Old
  <2>3. ASSUME NEW k \in Keys, Elsewhere(k)
        PROVE  Settled(k)'
    BY <1>1, <2>1, <2>3, ElsewhereKept
  <2>4. TableSteps'
    BY <1>3, TablesAre DEF TableSteps
  <2> QED
    BY <1>3, <2>1, <2>2, <2>3, <2>4 DEF MInv, Elsewhere
<1> QED
  BY <1>2, <1>3 DEF Login

\* A step of the loop over the secrets, from what it does to each name.
LEMMA LoopKeeps ==
    ASSUME MInv, server \in {"read", "write", "delete"}, server' \in {"read", "write", "delete"},
           TypeOK', Shape', Busy' = {},
           server' \in {"write", "delete"} => current' \in [name : Names, secret : Contents],
           UNCHANGED registries,
           \A k \in Keys : Elsewhere(k) => vault'[k] = vault[k],
           \A k \in Keys : Elsewhere(k) /\ k \in doubtful => k \in doubtful',
           unsettled \subseteq unsettled',
           \A n \in Names \ unsettled' :
              \/ n \in moving' /\ ~ InHand(n)' /\ registries[Old(n)] # None /\ Half(n)'
              \/ n \notin moving' /\ ~ InHand(n)' /\ Passed(n)'
              \/ n \notin moving' /\ InHand(n)' /\ HandSteps(n)'
    PROVE  MInv'
<1>1. Busy = {}
  BY NotServing
<1>2. ASSUME NEW n \in Names \ unsettled'
      PROVE  NameSteps(n)'
  BY <1>2, TablesAre DEF NameSteps, Old
<1>3. ASSUME NEW k \in Keys, Elsewhere(k)
      PROVE  Settled(k)'
  BY <1>1, <1>3, ElsewhereKept
<1>4. TableSteps'
  BY TablesAre DEF TableSteps
<1> QED
  BY <1>2, <1>3, <1>4 DEF MInv, Elsewhere

\* The names that the loop is not about.
LEMMA LoopLeaves ==
    ASSUME MInv, server \in {"read", "write", "delete"}, Busy' = {},
           NEW n \in Names \ unsettled, Untouched(n), ~ InHand(n), ~ InHand(n)',
           n \in moving' <=> n \in moving
    PROVE  \/ n \in moving' /\ ~ InHand(n)' /\ registries[Old(n)] # None /\ Half(n)'
           \/ n \notin moving' /\ ~ InHand(n)' /\ Passed(n)'
           \/ n \notin moving' /\ InHand(n)' /\ HandSteps(n)'
<1>1. Busy = {}
  BY NotServing
<1>2. /\ Half(n) => Half(n)'
      /\ Passed(n) => Passed(n)'
  BY <1>1, UntouchedKeeps
<1> QED
  BY <1>2 DEF MInv, NameSteps

LEMMA ReadOldSecretKeeps ==
    ASSUME MInv, NEW n \in Names, ReadOldSecret(n)
    PROVE  MInv'
<1>1. /\ server = "read" /\ n \in moving /\ moving' = moving \ {n}
      /\ UNCHANGED <<registries, vault, request, late, arrived,
                     left, migration, unsettled, crashes>>
  BY DEF ReadOldSecret
<1>2. \/ /\ vault[Old(n)] # None
         /\ current' = [name |-> n, secret |-> vault[Old(n)]]
         /\ server' = "write"
         /\ UNCHANGED <<doubtful, faults>>
      \/ /\ vault[Old(n)] = None
         /\ UNCHANGED <<current, server, doubtful, faults>>
      \/ /\ Fault
         /\ doubtful' = doubtful \cup {Old(n)}
         /\ UNCHANGED <<current, server>>
  BY DEF ReadOldSecret
<1>3. /\ Old(n) \in Keys /\ New(n) \in Keys /\ Old(n)' = Old(n) /\ New(n)' = New(n)
      /\ vault[Old(n)] \in Values /\ registries[Old(n)] \in Values
  BY KeysOfNames DEF Old, New, MInv, Shape, SecretsTypeOK
<1>4. current' \in {NoSecret} \cup [name : Names, secret : Contents]
  BY <1>2, <1>3 DEF Values, MInv, TypeOK
<1>5. server' \in {"read", "write"} /\ doubtful \subseteq doubtful'
  BY <1>1, <1>2
<1>6. TypeOK' /\ Shape' /\ Busy' = {} /\ Busy = {}
  <2>1. doubtful' \subseteq Keys /\ faults' \in 0 .. MaxFaults
    BY <1>2, <1>3, NotServing, FaultCounts DEF MInv, Shape, SecretsTypeOK
  <2> QED
    BY <1>1, <1>4, <1>5, <2>1, NotServing, MigrationTypes DEF TypeOK, SecretsTypeOK
<1>7. server' = "write" => current' \in [name : Names, secret : Contents] /\ current'.name = n
  BY <1>1, <1>2, <1>3 DEF Values
<1>8. ASSUME NEW m \in Names \ unsettled'
      PROVE  \/ m \in moving' /\ ~ InHand(m)' /\ registries[Old(m)] # None /\ Half(m)'
             \/ m \notin moving' /\ ~ InHand(m)' /\ Passed(m)'
             \/ m \notin moving' /\ InHand(m)' /\ HandSteps(m)'
  <2>1. Untouched(m)
    BY <1>1, <1>5 DEF Untouched
  <2>2. CASE m # n
    <3>1. ~ InHand(m) /\ ~ InHand(m)'
      BY <1>1, <1>5, <1>7, <2>2 DEF InHand
    <3> QED
      BY <1>1, <1>6, <1>8, <2>1, <2>2, <3>1, LoopLeaves
  <2>3. CASE m = n
    <3>1. registries[Old(n)] # None /\ Half(n)
      BY <1>1, <1>8, <2>3 DEF MInv, NameSteps
    <3>2. /\ ToMove(n)' <=> ToMove(n)
          /\ Half(n)' /\ (Passed(n) => Passed(n)')
          /\ Settled(Old(n)) => Settled(Old(n))'
      BY <1>6, <2>1, <2>3, <3>1, UntouchedKeeps
    <3>3. CASE server' = "write"
      <4>1. vault[Old(n)] # None /\ current' = [name |-> n, secret |-> vault[Old(n)]]
        BY <1>1, <1>2, <3>3
      <4>2. Settled(Old(n))
        BY <3>1, <4>1 DEF Half, Fine, Moved, Movable
      <4>3. Old(n) \in doubtful \/ vault[Old(n)] = registries[Old(n)]
        BY <1>3, <1>6, <4>2, QuietBefore
      <4>4. HandSteps(n)'
        BY <1>1, <1>3, <1>5, <3>1, <3>2, <3>3, <4>1, <4>2, <4>3 DEF HandSteps
      <4>5. InHand(n)'
        BY <3>3, <4>1 DEF InHand
      <4> QED
        BY <1>1, <2>3, <4>4, <4>5
    <3>4. CASE server' = "read"
      <4>1. ~ InHand(n)'
        BY <3>4 DEF InHand
      <4>2. vault[Old(n)] = None \/ Old(n) \in doubtful'
        BY <1>2, <3>4
      <4>3. Passed(n)'
        <5>1. CASE Old(n) \in doubtful'
          BY <1>3, <3>2, <5>1 DEF Passed, Half, Fine, Moved, Movable
        <5>2. CASE vault[Old(n)] = None /\ Old(n) \notin doubtful'
          <6>1. ~ Settled(Old(n))
            BY <1>3, <1>5, <1>6, <3>1, <5>2, QuietBefore
          <6>2. Moved(n)
            BY <3>1, <6>1 DEF Half, Fine, Movable
          <6> QED
            BY <3>2, <6>2 DEF Passed
        <5> QED
          BY <4>2, <5>1, <5>2
      <4> QED
        BY <1>1, <2>3, <4>1, <4>3
    <3> QED
      BY <1>5, <3>3, <3>4
  <2> QED
    BY <2>2, <2>3
<1> QED
  BY <1>1, <1>5, <1>6, <1>7, <1>8, LoopKeeps

LEMMA WriteNewSecretKeeps ==
    ASSUME MInv, WriteNewSecret
    PROVE  MInv'
<1>1. /\ server = "write"
      /\ UNCHANGED <<registries, request, arrived, moving, left, migration, crashes>>
  BY DEF WriteNewSecret
<1>2. current \in [name : Names, secret : Contents]
  BY <1>1 DEF MInv
<1> PICK n \in Names : n = current.name
  BY <1>2
<1>3. /\ Old(n) \in Keys /\ New(n) \in Keys /\ Old(n) # New(n)
      /\ current.secret \in Values
      /\ unsettled' = IF registries[New(n)] = None THEN unsettled ELSE unsettled \cup {n}
  BY <1>2, KeysOfNames DEF Values, WriteNewSecret
<1>4. \/ /\ vault' = [vault EXCEPT ![New(n)] = current.secret]
         /\ doubtful' = doubtful \ {New(n)}
         /\ server' = "delete"
         /\ UNCHANGED <<current, late, faults>>
      \/ /\ Fault
         /\ FailedCall(New(n), current.secret)
         /\ doubtful' = doubtful \cup {Old(n), New(n)}
         /\ server' = "read"
         /\ current' = NoSecret
  BY <1>1 DEF WriteNewSecret
<1>5. Busy = {} /\ TypeOK /\ Shape
  BY <1>1, NotServing
<1>6. /\ vault' \in [Keys -> Values] /\ late' \subseteq Keys \X Values
      /\ \A k \in Keys \ {New(n)} : vault'[k] = vault[k]
      /\ doubtful' \subseteq Keys /\ doubtful \ {New(n)} \subseteq doubtful'
      /\ faults' \in 0 .. MaxFaults
  <2>1. CASE server' = "delete"
    BY <1>3, <1>4, <1>5, <2>1 DEF Shape, SecretsTypeOK
  <2>2. CASE server' = "read"
    <3>1. Fault /\ FailedCall(New(n), current.secret)
             /\ doubtful' = doubtful \cup {Old(n), New(n)}
      BY <1>4, <2>2
    <3>2. /\ vault' \in [Keys -> Values] /\ late' \subseteq Keys \X Values
          /\ \A k \in Keys \ {New(n)} : vault'[k] = vault[k]
      BY <1>3, <1>5, <3>1 DEF FailedCall, Shape, SecretsTypeOK
    <3> QED
      BY <1>3, <1>5, <3>1, <3>2, FaultCounts DEF Shape, SecretsTypeOK
  <2> QED
    BY <1>4, <2>1, <2>2
<1>7. /\ server' \in {"delete", "read"} /\ unsettled \subseteq unsettled'
      /\ unsettled' \subseteq Names
      /\ current' \in {NoSecret} \cup [name : Names, secret : Contents]
      /\ server' = "delete" => current' = current
  BY <1>2, <1>3, <1>4, <1>5 DEF TypeOK
<1>8. TypeOK' /\ Shape' /\ Busy' = {}
  BY <1>1, <1>5, <1>6, <1>7, MigrationTypes DEF TypeOK, SecretsTypeOK
<1>9. ASSUME NEW m \in Names \ unsettled'
      PROVE  \/ m \in moving' /\ ~ InHand(m)' /\ registries[Old(m)] # None /\ Half(m)'
             \/ m \notin moving' /\ ~ InHand(m)' /\ Passed(m)'
             \/ m \notin moving' /\ InHand(m)' /\ HandSteps(m)'
  <2>1. m \in Names \ unsettled
    BY <1>7, <1>9
  <2>2. CASE m # n
    <3>1. Untouched(m)
      <4>1. /\ Old(m) \in Keys \ {New(n)} /\ New(m) \in Keys \ {New(n)}
            /\ Old(m)' = Old(m) /\ New(m)' = New(m)
        BY <1>3, <2>2, KeysOfNames DEF Old, New
      <4> QED
        BY <1>1, <1>6, <4>1 DEF Untouched
    <3>2. ~ InHand(m) /\ ~ InHand(m)'
      BY <1>1, <1>7, <2>2 DEF InHand
    <3> QED
      BY <1>1, <1>8, <2>1, <3>1, <3>2, LoopLeaves
  <2>3. CASE m = n
    <3>1. /\ registries[New(n)] = None /\ registries[Old(n)] # None
          /\ n \notin moving /\ InHand(n) /\ HandSteps(n)
      <4>1. InHand(n)
        BY <1>1 DEF InHand
      <4> QED
        BY <1>1, <1>3, <1>9, <2>1, <2>3, <4>1 DEF MInv, NameSteps, HandSteps
    <3>2. /\ Settled(Old(n))
          /\ current.secret = registries[Old(n)] \/ Old(n) \in doubtful
      BY <1>1, <3>1 DEF HandSteps
    <3>3. Old(n) \in doubtful \/ vault[Old(n)] = registries[Old(n)]
      BY <1>3, <1>5, <3>2, QuietBefore
    <3>4. Settled(Old(n))'
      <4>1. Old(n) \in doubtful' \/ vault'[Old(n)] = registries'[Old(n)]
        BY <1>1, <1>3, <1>6, <3>3
      <4> QED
        BY <1>3, <1>8, <4>1, QuietAfter DEF Old
    <3>5. CASE server' = "delete"
      <4>1. InHand(m)'
        BY <1>7, <2>3, <3>5 DEF InHand
      <4>2. /\ vault' = [vault EXCEPT ![New(n)] = current.secret]
            /\ doubtful' = doubtful \ {New(n)}
        BY <1>4, <3>5
      <4>3. \/ {Old(n), New(n)} \cap doubtful' # {}
            \/ vault'[New(n)] = registries[Old(n)]
        BY <1>3, <1>5, <3>2, <4>2 DEF Shape, SecretsTypeOK
      <4>4. HandSteps(m)'
        BY <1>1, <2>3, <3>1, <3>4, <3>5, <4>3 DEF HandSteps, Old, New
      <4> QED
        BY <1>1, <2>3, <3>1, <4>1, <4>4
    <3>6. CASE server' = "read"
      <4>1. ~ InHand(m)'
        BY <3>6 DEF InHand
      <4>2. Old(n) \in doubtful'
        BY <1>4, <3>6
      <4>3. Passed(m)'
        BY <1>1, <2>3, <3>1, <4>2 DEF Passed, ToMove, Old, New
      <4> QED
        BY <1>1, <2>3, <3>1, <4>1, <4>3
    <3> QED
      BY <1>7, <3>5, <3>6
  <2> QED
    BY <2>2, <2>3
<1>10. /\ \A k \in Keys : Elsewhere(k) => vault'[k] = vault[k]
       /\ \A k \in Keys : Elsewhere(k) /\ k \in doubtful => k \in doubtful'
  BY <1>3, <1>6, KeysOfNames DEF Elsewhere
<1> QED
  BY <1>1, <1>2, <1>7, <1>8, <1>9, <1>10, LoopKeeps

LEMMA DeleteOldSecretKeeps ==
    ASSUME MInv, DeleteOldSecret
    PROVE  MInv'
<1>1. /\ server = "delete" /\ server' = "read" /\ current' = NoSecret
      /\ UNCHANGED <<registries, request, arrived, moving, left, migration, unsettled, crashes>>
  BY DEF DeleteOldSecret
<1>2. current \in [name : Names, secret : Contents]
  BY <1>1 DEF MInv
<1> PICK n \in Names : n = current.name
  BY <1>2
<1>3. Old(n) \in Keys /\ New(n) \in Keys /\ Old(n) # New(n) /\ None \in Values
  BY <1>2, KeysOfNames DEF Values
<1>4. \/ /\ vault' = [vault EXCEPT ![Old(n)] = None]
         /\ UNCHANGED <<doubtful, late, faults>>
      \/ /\ Fault
         /\ FailedCall(Old(n), None)
         /\ doubtful' = doubtful \cup {Old(n)}
  BY DEF DeleteOldSecret
<1>5. Busy = {} /\ TypeOK /\ Shape
  BY <1>1, NotServing
<1>6. /\ vault' \in [Keys -> Values] /\ late' \subseteq Keys \X Values
      /\ \A k \in Keys \ {Old(n)} : vault'[k] = vault[k]
      /\ doubtful' \subseteq Keys /\ doubtful \subseteq doubtful'
      /\ faults' \in 0 .. MaxFaults
      /\ vault'[Old(n)] = None \/ Old(n) \in doubtful'
  <2>1. CASE /\ vault' = [vault EXCEPT ![Old(n)] = None]
             /\ UNCHANGED <<doubtful, late, faults>>
    BY <1>3, <1>5, <2>1 DEF Shape, SecretsTypeOK
  <2>2. CASE /\ Fault
             /\ FailedCall(Old(n), None)
             /\ doubtful' = doubtful \cup {Old(n)}
    <3>1. /\ vault' \in [Keys -> Values] /\ late' \subseteq Keys \X Values
          /\ \A k \in Keys \ {Old(n)} : vault'[k] = vault[k]
      BY <1>3, <1>5, <2>2 DEF FailedCall, Shape, SecretsTypeOK
    <3> QED
      BY <1>3, <1>5, <2>2, <3>1, FaultCounts DEF Shape, SecretsTypeOK
  <2> QED
    BY <1>4, <2>1, <2>2
<1>7. TypeOK' /\ Shape' /\ Busy' = {}
  BY <1>1, <1>5, <1>6, MigrationTypes DEF TypeOK, SecretsTypeOK
<1>8. ASSUME NEW m \in Names \ unsettled'
      PROVE  \/ m \in moving' /\ ~ InHand(m)' /\ registries[Old(m)] # None /\ Half(m)'
             \/ m \notin moving' /\ ~ InHand(m)' /\ Passed(m)'
             \/ m \notin moving' /\ InHand(m)' /\ HandSteps(m)'
  <2>1. m \in Names \ unsettled /\ ~ InHand(m)'
    BY <1>1, <1>8 DEF InHand
  <2>2. CASE m # n
    <3>1. Untouched(m)
      <4>1. /\ Old(m) \in Keys \ {Old(n)} /\ New(m) \in Keys \ {Old(n)}
            /\ Old(m)' = Old(m) /\ New(m)' = New(m)
        BY <1>3, <2>2, KeysOfNames DEF Old, New
      <4> QED
        BY <1>1, <1>6, <4>1 DEF Untouched
    <3>2. ~ InHand(m)
      BY <1>1, <2>2 DEF InHand
    <3> QED
      BY <1>1, <1>7, <2>1, <3>1, <3>2, LoopLeaves
  <2>3. CASE m = n
    <3>1. n \notin moving /\ HandSteps(n)
      <4>1. InHand(n)
        BY <1>1 DEF InHand
      <4> QED
        BY <1>1, <2>1, <2>3, <4>1 DEF MInv, NameSteps
    <3>2. /\ registries[Old(n)] # None /\ registries[New(n)] = None
          /\ \/ Old(n) \in doubtful \/ New(n) \in doubtful
             \/ vault[New(n)] = registries[Old(n)]
      BY <1>1, <3>1 DEF HandSteps
    <3>3. /\ \/ Old(n) \in doubtful'
             \/ /\ vault'[Old(n)] = None
                /\ New(n) \in doubtful' \/ vault'[New(n)] = registries'[Old(n)]
          /\ registries'[Old(n)] # None /\ registries'[New(n)] = None
      BY <1>1, <1>3, <1>6, <3>2
    <3>4. Passed(m)'
      BY <2>3, <3>3 DEF Passed, Moved, Claimed, ToMove, Old, New
    <3> QED
      BY <1>1, <2>1, <2>3, <3>1, <3>4
  <2> QED
    BY <2>2, <2>3
<1>9. /\ \A k \in Keys : Elsewhere(k) => vault'[k] = vault[k]
      /\ \A k \in Keys : Elsewhere(k) /\ k \in doubtful => k \in doubtful'
  BY <1>3, <1>6, KeysOfNames DEF Elsewhere
<1> QED
  BY <1>1, <1>7, <1>8, <1>9, LoopKeeps

LEMMA SecretsMovedKeeps ==
    ASSUME MInv, SecretsMoved
    PROVE  MInv'
<1>1. /\ server = "read" /\ moving = {} /\ server' = "registries"
      /\ UNCHANGED <<registries, vault, request, late, doubtful, arrived, faults,
                     moving, current, left, migration, unsettled, crashes>>
  BY DEF SecretsMoved, svars
<1>2. TypeOK' /\ Shape' /\ Busy = {} /\ Busy' = {}
  BY <1>1, NotServing, MigrationTypes DEF TypeOK, SecretsTypeOK
<1>3. ASSUME NEW n \in Names \ unsettled'
      PROVE  NameSteps(n)'
  <2>1. Passed(n)
    BY <1>1, <1>3 DEF MInv, NameSteps, InHand
  <2>2. Passed(n)'
    BY <1>1, <1>2, <1>3, <2>1, UntouchedKeeps DEF Untouched
  <2> QED
    BY <1>1, <2>2, TablesAre DEF NameSteps
<1>4. ASSUME NEW k \in Keys, Elsewhere(k)
      PROVE  Settled(k)'
  BY <1>1, <1>2, <1>4, ElsewhereKept
<1>5. TableSteps'
  BY <1>1, TablesAre DEF TableSteps
<1> QED
  BY <1>1, <1>2, <1>3, <1>4, <1>5 DEF MInv, Elsewhere

\* Every row of the old project gets its new key in one step.
LEMMA UpdateRegistriesKeeps ==
    ASSUME MInv, UpdateRegistries
    PROVE  MInv'
<1> DEFINE both == {n \in Names : registries[Old(n)] # None /\ registries[New(n)] # None}
           row(k) == CASE k[1] = OldProject -> None
                       [] k[1] = NewProject /\ registries[Old(k[2])] # None ->
                              registries[Old(k[2])]
                       [] OTHER -> registries[k]
<1>1. /\ server = "registries"
      /\ UNCHANGED <<vault, request, late, arrived, moving, current, left, unsettled, crashes>>
  BY DEF UpdateRegistries
<1>2. Busy = {} /\ TypeOK /\ Shape
  BY <1>1, NotServing
<1>3. CASE Fails /\ UNCHANGED <<registries, doubtful>> /\ (Fault \/ UNCHANGED faults)
  <2>1. faults' \in 0 .. MaxFaults
    BY <1>2, <1>3, FaultCounts DEF Shape, SecretsTypeOK
  <2> QED
    BY <1>1, <1>3, <2>1, FailsKeeps
<1>4. CASE /\ both = {}
           /\ registries' = [k \in Keys |-> row(k)]
           /\ doubtful' = doubtful \cup
                  {New(n) : n \in {m \in Names : /\ registries[Old(m)] # None
                                                /\ Old(m) \in doubtful}}
           /\ server' = Head(Tables)
           /\ UNCHANGED <<migration, faults>>
  <2>1. \A n \in Names : /\ registries'[Old(n)] = None
                         /\ registries'[New(n)] = IF registries[Old(n)] # None
                                                  THEN registries[Old(n)]
                                                  ELSE registries[New(n)]
    BY <1>4, KeysOfNames, ProjectsDiffer
  <2>2. \A k \in Keys : Elsewhere(k) => registries'[k] = registries[k]
    BY <1>4 DEF Elsewhere
  <2>3. registries' \in [Keys -> Values]
    <3>1. ASSUME NEW k \in Keys
          PROVE  row(k) \in Values
      <4>1. k[1] = NewProject => registries[Old(k[2])] \in Values
        BY <1>2, KeysOfNames DEF Shape, SecretsTypeOK
      <4> QED
        BY <1>2, <4>1 DEF Shape, SecretsTypeOK, Values
    <3> HIDE DEF row
    <3> QED
      BY <1>4, <3>1
  <2>4. doubtful \subseteq doubtful' /\ doubtful' \subseteq Keys
    BY <1>2, <1>4, KeysOfNames DEF Shape, SecretsTypeOK
  <2>5. \A n \in Names : registries[Old(n)] # None /\ Old(n) \in doubtful => New(n) \in doubtful'
    BY <1>4
  <2>6. \A n \in Names : registries[Old(n)] = None \/ registries[New(n)] = None
    BY <1>4
  <2>7. server' = "artifacts" /\ UNCHANGED <<migration, faults>>
    BY <1>4, TablesAre
  <2> HIDE DEF both, row
  <2>8. TypeOK' /\ Shape' /\ Busy' = {}
    BY <1>1, <1>2, <2>3, <2>4, <2>7, TablesAre, MigrationTypes DEF TypeOK, SecretsTypeOK
  <2>9. ASSUME NEW n \in Names \ unsettled'
        PROVE  NameSteps(n)'
    <3>1. Passed(n) /\ Old(n) \in Keys /\ New(n) \in Keys
      BY <1>1, <2>9, KeysOfNames DEF MInv, NameSteps
    <3>2. /\ Old(n) \in doubtful' \/ vault'[Old(n)] = registries'[Old(n)]
          /\ New(n) \in doubtful' \/ vault'[New(n)] = registries'[New(n)]
      <4>1. CASE Fine(n) /\ ~ ToMove(n)
        <5>1. registries[Old(n)] = None
          BY <2>6, <4>1 DEF ToMove
        <5>2. /\ Old(n) \in doubtful \/ vault[Old(n)] = registries[Old(n)]
              /\ New(n) \in doubtful \/ vault[New(n)] = registries[New(n)]
          BY <1>2, <3>1, <4>1, QuietBefore DEF Fine
        <5> QED
          BY <1>1, <2>1, <2>4, <5>1, <5>2
      <4>2. CASE ToMove(n) /\ Old(n) \in doubtful
        BY <2>4, <2>5, <4>2 DEF ToMove
      <4>3. CASE Moved(n)
        <5>1. /\ registries[Old(n)] # None /\ vault[Old(n)] = None
              /\ New(n) \in doubtful \/ vault[New(n)] = registries[Old(n)]
          BY <1>2, <4>3, QuietBefore DEF Moved, ToMove
        <5> QED
          BY <1>1, <2>1, <2>4, <5>1
      <4> QED
        BY <3>1, <4>1, <4>2, <4>3 DEF Passed
    <3>3. Fine(n)'
      BY <2>8, <3>1, <3>2, QuietAfter DEF Fine, Old, New
    <3> QED
      BY <2>7, <3>3, TablesAre DEF NameSteps
  <2>10. ASSUME NEW k \in Keys, Elsewhere(k)
         PROVE  Settled(k)'
    BY <1>1, <1>2, <2>2, <2>4, <2>8, <2>10, ElsewhereKept
  <2>11. TableSteps'
    BY <2>1, <2>7, TablesAre DEF TableSteps, Old
  <2> QED
    BY <2>7, <2>8, <2>9, <2>10, <2>11 DEF MInv, Elsewhere
<1> QED
  BY <1>3, <1>4 DEF UpdateRegistries

\* A step from table to table, or to the end.
LEMMA TableStepKeeps ==
    ASSUME MInv, server \in Range(Tables) \cup {"commit"},
           server' \in Range(Tables) \cup {"commit", "serving"},
           UNCHANGED <<registries, vault, request, late, doubtful, arrived, faults,
                       moving, current, unsettled, crashes>>,
           left' \subseteq left, migration' \in {"failed", "done"}, TableSteps'
    PROVE  MInv'
<1>1. TypeOK' /\ Shape' /\ Busy = {} /\ Busy' = {}
  BY TablesAre, NotServing, MigrationTypes DEF TypeOK, SecretsTypeOK
<1>2. ASSUME NEW n \in Names \ unsettled'
      PROVE  NameSteps(n)'
  <2>1. Fine(n)
    BY <1>2 DEF MInv, NameSteps
  <2>2. Fine(n)'
    BY <1>1, <1>2, <2>1, UntouchedKeeps DEF Untouched
  <2> QED
    BY <2>2, TablesAre DEF NameSteps, Half
<1>3. ASSUME NEW k \in Keys, Elsewhere(k)
      PROVE  Settled(k)'
  BY <1>1, <1>3, ElsewhereKept
<1> QED
  BY <1>1, <1>2, <1>3, TablesAre DEF MInv, Elsewhere

LEMMA UpdateTableKeeps ==
    ASSUME MInv, NEW i \in DOMAIN Tables, UpdateTable(i)
    PROVE  MInv'
<1>1. /\ server = Tables[i] /\ server \in Range(Tables)
      /\ UNCHANGED <<registries, vault, request, late, doubtful, arrived,
                     moving, current, unsettled, crashes>>
  BY DEF UpdateTable, Range
<1>2. CASE Fault /\ Fails /\ UNCHANGED left
  BY <1>1, <1>2, TablesAre, NotServing, FaultCounts, FailsKeeps
<1>3. CASE /\ left' = left \ {Tables[i]}
           /\ server' = IF i = Len(Tables) THEN "commit" ELSE Tables[i + 1]
           /\ UNCHANGED <<migration, faults>>
  <2>1. i \in {1, 2, 3}
    BY TablesAre
  <2>2. left \subseteq Range(Tables) /\ migration \in {"failed", "done"}
    BY DEF MInv, TypeOK
  <2>3. /\ i = 1 => server' = "applications" /\ server = "artifacts"
        /\ i = 2 => server' = "packages" /\ server = "applications"
        /\ i = 3 => server' = "commit" /\ server = "packages"
    BY <1>1, <1>3, <2>1, TablesAre
  <2>4. TableSteps
    BY DEF MInv
  <2>5. \A n \in Names : registries'[Old(n)] = None
    BY <1>1, <2>4 DEF TableSteps
  <2>6. TableSteps'
    BY <1>3, <2>1, <2>2, <2>3, <2>4, <2>5, TablesAre DEF TableSteps, Old
  <2> QED
    BY <1>1, <1>3, <2>1, <2>2, <2>3, <2>6, TablesAre, TableStepKeeps
<1> QED
  BY <1>2, <1>3 DEF UpdateTable

LEMMA CommitMigrationKeeps ==
    ASSUME MInv, CommitMigration
    PROVE  MInv'
<1>1. /\ server = "commit"
      /\ UNCHANGED <<registries, vault, request, late, doubtful, arrived,
                     moving, current, left, unsettled, crashes>>
  BY DEF CommitMigration
<1>2. CASE Fault /\ Fails
  BY <1>1, <1>2, NotServing, FaultCounts, FailsKeeps
<1>3. CASE server' = "serving" /\ migration' = "done" /\ UNCHANGED faults
  <2>1. TableSteps'
    BY <1>3, TablesAre DEF TableSteps
  <2> QED
    BY <1>1, <1>3, <2>1, TableStepKeeps
<1> QED
  BY <1>2, <1>3 DEF CommitMigration

-----------------------------------------------------------------------------
(* The server.                                                             *)

\* What requests and late calls do to a name when rows and secrets of it stay.
LEMMA HalfKept ==
    ASSUME Keeps, NEW n \in Names, Half(n),
           UNCHANGED <<registries[Old(n)], registries[New(n)],
                       vault[Old(n)], vault[New(n)]>>
    PROVE  Half(n)'
<1>1. /\ Old(n) \in Keys /\ New(n) \in Keys /\ Old(n)' = Old(n) /\ New(n)' = New(n)
  BY KeysOfNames DEF Old, New
<1>2. /\ Settled(Old(n)) => Settled(Old(n))'
      /\ Settled(New(n)) => Settled(New(n))'
      /\ Claimed(New(n)) => Claimed(New(n))' \/ registries'[New(n)] # None
  BY <1>1 DEF Keeps
<1>3. ToMove(n)' <=> ToMove(n)
  BY <1>1 DEF ToMove
<1>4. Moved(n) => Moved(n)'
  BY <1>1, <1>2, <1>3 DEF Moved, ToMove
<1> QED
  BY <1>2, <1>3, <1>4 DEF Half, Fine, Movable

LEMMA ServeRequestKeeps ==
    ASSUME MInv, NEW r \in Requests, ServeRequest(r)
    PROVE  MInv'
<1> DEFINE used == {n \in Names : \E p \in Projects :
                       \/ vault'[<<p, n>>] # vault[<<p, n>>]
                       \/ registries'[<<p, n>>] # registries[<<p, n>>]}
<1>1. /\ server = "serving" /\ Serve(r)
      /\ UNCHANGED <<server, moving, current, left, migration, crashes>>
      /\ unsettled' = IF migration = "done" THEN unsettled ELSE unsettled \cup used
  BY DEF ServeRequest
<1>2. Keeps
  BY <1>1, ServeKeeps DEF MInv
<1>3. TypeOK'
  BY <1>1, <1>2 DEF MInv, TypeOK, Keeps, Shape
<1>4. ASSUME NEW n \in Names \ unsettled'
      PROVE  NameSteps(n)'
  <2>1. CASE migration = "done"
    <3>1. Fine(n)
      BY <1>1, <1>4, <2>1 DEF MInv, NameSteps
    <3>2. Fine(n)'
      BY <1>2, <3>1, KeysOfNames DEF Fine, Keeps, Old, New
    <3> QED
      BY <1>1, <3>2, TablesAre DEF NameSteps, Half
  <2>2. CASE migration # "done"
    <3>1. n \notin unsettled /\ n \notin used
      BY <1>1, <1>4, <2>2
    <3>2. UNCHANGED <<registries[Old(n)], registries[New(n)], vault[Old(n)], vault[New(n)]>>
      BY <3>1, ProjectsDiffer DEF Old, New
    <3>3. Half(n)'
      BY <1>1, <1>2, <3>1, <3>2, HalfKept DEF MInv, NameSteps
    <3> QED
      BY <1>1, <2>2, <3>3, TablesAre DEF NameSteps
  <2> QED
    BY <2>1, <2>2
<1>5. ASSUME NEW k \in Keys, Elsewhere(k)
      PROVE  Settled(k)'
  BY <1>2, <1>5 DEF MInv, Keeps
<1>6. TableSteps'
  BY <1>1, TablesAre DEF TableSteps
<1> QED
  BY <1>1, <1>2, <1>3, <1>4, <1>5, <1>6 DEF MInv, Keeps, Elsewhere

LEMMA LateCallMigrationKeeps ==
    ASSUME MInv, NEW call \in late, LateCall(call), UNCHANGED mvars
    PROVE  MInv'
<1>1. /\ call[1] \in Keys /\ call[2] \in Values
      /\ vault' = [vault EXCEPT ![call[1]] = call[2]]
      /\ doubtful' = doubtful \cup {call[1]}
      /\ UNCHANGED <<registries, request, arrived, faults,
                     server, moving, current, left, migration, unsettled, crashes>>
  BY DEF LateCall, mvars, MInv, Shape, SecretsTypeOK
<1>2. Keeps
  BY LateCallKeeps DEF MInv
<1>3. TypeOK'
  <2>1. Busy' = Busy
    BY <1>1 DEF Busy
  <2> QED
    BY <1>1, <1>2, <2>1 DEF MInv, TypeOK, Keeps, Shape
<1>4. ASSUME NEW n \in Names \ unsettled'
      PROVE  NameSteps(n)'
  <2>1. /\ Old(n) \in Keys /\ New(n) \in Keys /\ Old(n)' = Old(n) /\ New(n)' = New(n)
    BY KeysOfNames DEF Old, New
  <2>2. /\ vault'[Old(n)] = vault[Old(n)] \/ Old(n) \in doubtful'
        /\ vault'[New(n)] = vault[New(n)] \/ New(n) \in doubtful'
        /\ doubtful \subseteq doubtful'
    BY <1>1, <2>1 DEF MInv, Shape, SecretsTypeOK
  <2>3. /\ Settled(Old(n)) => Settled(Old(n))'
        /\ Fine(n) => Fine(n)'
        /\ Claimed(New(n)) => Claimed(New(n))'
    <3>1. Claimed(New(n)) => Claimed(New(n))'
      BY <1>1, <2>1 DEF Claimed, Called
    <3> QED
      BY <1>2, <2>1, <3>1 DEF Fine, Keeps
  <2>4. ToMove(n)' <=> ToMove(n)
    BY <1>1, <2>1 DEF ToMove
  <2>5. Moved(n) => Moved(n)' \/ (ToMove(n)' /\ Old(n) \in doubtful')
    <3>1. New(n) \in doubtful' => Claimed(New(n))'
      BY <2>1 DEF Claimed
    <3> QED
      BY <1>1, <2>1, <2>2, <2>3, <2>4, <3>1 DEF Moved
  <2>6. Old(n) \in doubtful' => Settled(Old(n))'
    BY <2>1 DEF Settled
  <2>7. Half(n) => Half(n)'
    BY <2>3, <2>4, <2>5, <2>6 DEF Half, Movable
  <2>8. Passed(n) => Passed(n)'
    BY <2>1, <2>2, <2>3, <2>4, <2>5 DEF Passed
  <2>9. InHand(n)' <=> InHand(n)
    BY <1>1 DEF InHand
  <2>10. HandSteps(n) => HandSteps(n)'
    BY <1>1, <2>1, <2>2, <2>3, <2>7 DEF HandSteps
  <2> QED
    BY <1>1, <1>4, <2>1, <2>3, <2>7, <2>8, <2>9, <2>10 DEF MInv, NameSteps
<1>5. ASSUME NEW k \in Keys, Elsewhere(k)
      PROVE  Settled(k)'
  BY <1>2, <1>5 DEF MInv, Keeps
<1>6. TableSteps'
  BY <1>1 DEF MInv, TableSteps, Old
<1> QED
  BY <1>1, <1>2, <1>3, <1>4, <1>5, <1>6 DEF MInv, Keeps, Elsewhere

\* A crash leaves in doubt what requests have called Vault for.
LEMMA CrashKeeps ==
    ASSUME MInv, Crash
    PROVE  MInv'
<1>1. /\ crashes < MaxCrashes /\ crashes' = crashes + 1
      /\ server' = "starting" /\ moving' = {} /\ current' = NoSecret
      /\ request' = [r \in Requests |-> Idle]
      /\ doubtful' = doubtful \cup UNION {Called(r) : r \in Requests}
      /\ UNCHANGED <<registries, vault, late, arrived, faults, left, migration, unsettled>>
  BY DEF Crash
<1>2. Busy' = {}
  BY <1>1 DEF Busy
<1>3. UNION {Called(r) : r \in Requests} \subseteq Keys
  BY CalledIsWritten, WritesAre DEF MInv, Shape, SecretsTypeOK, Serving
<1>4. Shape'
  BY <1>1, <1>3 DEF MInv, Shape, SecretsTypeOK
<1>5. TypeOK'
  BY <1>1, <1>2, <1>4, CrashesAreCounted DEF MInv, TypeOK, Shape
<1>6. ASSUME NEW k \in Keys
      PROVE  /\ Settled(k) => Settled(k)'
             /\ Claimed(k) => k \in doubtful'
  <2>1. (\E r \in Requests : k \in Called(r)) => k \in doubtful'
    BY <1>1
  <2>2. CASE \A r \in Requests : k \notin Called(r)
    <3>1. Agrees(k) => vault[k] = registries[k]
      BY <2>2, AgreesMeans
    <3>2. Settled(k) => k \in doubtful' \/ vault'[k] = registries'[k]
      BY <1>1, <3>1 DEF Settled
    <3> QED
      BY <1>1, <1>2, <2>1, <3>2, QuietAfter DEF Claimed
  <2>3. CASE \E r \in Requests : k \in Called(r)
    BY <2>1, <2>3 DEF Settled
  <2> QED
    BY <2>2, <2>3
<1>7. ASSUME NEW n \in Names \ unsettled'
      PROVE  NameSteps(n)'
  <2>1. Old(n) \in Keys /\ New(n) \in Keys /\ Old(n)' = Old(n) /\ New(n)' = New(n)
    BY KeysOfNames DEF Old, New
  <2>2. Half(n)
    <3>1. NameSteps(n) /\ TypeOK
      BY <1>1, <1>7 DEF MInv
    <3>2. Passed(n) => Half(n)
      BY DEF Passed, Half, Movable, Settled
    <3>3. InHand(n) /\ HandSteps(n) => Half(n)
      BY DEF HandSteps, InHand, Half, Movable, ToMove
    <3> QED
      BY <3>1, <3>2, <3>3, TablesAre DEF NameSteps, TypeOK, Half
  <2>3. ToMove(n)' <=> ToMove(n)
    BY <1>1, <2>1 DEF ToMove
  <2>4. Moved(n) => Moved(n)'
    <3>1. Claimed(New(n)) => Claimed(New(n))'
      BY <1>6, <2>1 DEF Claimed
    <3> QED
      BY <1>1, <2>1, <2>3, <3>1 DEF Moved
  <2>5. Half(n)'
    BY <1>6, <2>1, <2>2, <2>3, <2>4 DEF Half, Fine, Movable
  <2> QED
    BY <1>1, <2>5, TablesAre DEF NameSteps
<1>8. ASSUME NEW k \in Keys, Elsewhere(k)
      PROVE  Settled(k)'
  BY <1>6, <1>8 DEF MInv
<1>9. TableSteps'
  BY <1>1, TablesAre DEF TableSteps
<1> QED
  BY <1>1, <1>4, <1>5, <1>7, <1>8, <1>9 DEF MInv, Elsewhere

-----------------------------------------------------------------------------

LEMMA MigrationInvariance == Spec => []MInv
<1>1. Init => MInv
  <2> SUFFICES ASSUME Init
               PROVE  MInv
    OBVIOUS
  <2>1. /\ SecretsInit /\ server = "starting" /\ moving = {} /\ current = NoSecret
        /\ left = Range(Tables) /\ migration = "failed" /\ unsettled = {} /\ crashes = 0
    BY DEF Init
  <2>2. Shape
    BY <2>1, BoundsAreNumbers DEF SecretsInit, Shape, SecretsTypeOK
  <2>3. Busy = {}
    BY <2>1 DEF SecretsInit, Busy
  <2>4. TypeOK
    BY <2>1, <2>2, <2>3, CrashesAreCounted DEF TypeOK, Shape
  <2>5. \A k \in Keys : Settled(k)
    BY <2>1, <2>3, QuietBefore DEF SecretsInit
  <2>6. \A n \in Names : Fine(n)
    BY <2>5, KeysOfNames DEF Fine
  <2>7. \A n \in Names : NameSteps(n)
    BY <2>1, <2>6, TablesAre DEF NameSteps, Half
  <2>8. TableSteps
    BY <2>1, TablesAre DEF TableSteps
  <2> QED
    BY <2>1, <2>2, <2>4, <2>5, <2>7, <2>8 DEF MInv
<1>2. MInv /\ [Next]_vars => MInv'
  <2> SUFFICES ASSUME MInv, [Next]_vars
               PROVE  MInv'
    OBVIOUS
  <2>1. ASSUME NEW r \in Requests, ServeRequest(r) PROVE MInv'
    BY <2>1, ServeRequestKeeps
  <2>2. ASSUME NEW call \in late, LateCall(call), UNCHANGED mvars PROVE MInv'
    BY <2>2, LateCallMigrationKeeps
  <2>3. CASE Migrate
    BY <2>3, StartMigrationKeeps, LoginKeeps, ReadOldSecretKeeps, WriteNewSecretKeeps,
       DeleteOldSecretKeeps, SecretsMovedKeeps, UpdateRegistriesKeeps, UpdateTableKeeps,
       CommitMigrationKeeps DEF Migrate
  <2>4. CASE Crash
    BY <2>4, CrashKeeps
  <2>5. CASE UNCHANGED vars
    <3>1. UNCHANGED <<registries, vault, request, late, doubtful, arrived, faults, server,
                      moving, current, left, migration, unsettled, crashes>>
      BY <2>5 DEF vars, svars, mvars
    <3>2. TypeOK' /\ Shape'
      BY <3>1 DEF MInv, TypeOK, Shape, SecretsTypeOK, Busy
    <3>3. \A k : /\ Settled(k)' <=> Settled(k)
                 /\ Claimed(k)' <=> Claimed(k)
      BY <3>1 DEF Settled, Agrees, Called, Claimed
    <3>4. \A n : /\ Settled(Old(n))' <=> Settled(Old(n))
                 /\ Settled(New(n))' <=> Settled(New(n))
                 /\ Claimed(New(n))' <=> Claimed(New(n))
                 /\ Old(n)' = Old(n) /\ New(n)' = New(n)
      BY <3>1 DEF Settled, Agrees, Called, Claimed, Old, New
    <3>5. \A n : /\ Fine(n)' <=> Fine(n)
                 /\ ToMove(n)' <=> ToMove(n)
                 /\ Moved(n)' <=> Moved(n)
      BY <3>1, <3>4 DEF Fine, ToMove, Moved
    <3>6. \A n : /\ Half(n)' <=> Half(n)
                 /\ Passed(n)' <=> Passed(n)
      BY <3>1, <3>4, <3>5 DEF Half, Movable, Passed
    <3>7. \A n : HandSteps(n)' <=> HandSteps(n)
      BY <3>1, <3>4, <3>6 DEF HandSteps
    <3>8. \A n : NameSteps(n) => NameSteps(n)'
      BY <3>1, <3>4, <3>5, <3>6, <3>7 DEF NameSteps, InHand
    <3>9. TableSteps'
      BY <3>1, <3>4 DEF MInv, TableSteps
    <3> QED
      BY <3>1, <3>2, <3>3, <3>8, <3>9 DEF MInv, Elsewhere
  <2> QED
    BY <2>1, <2>2, <2>3, <2>4, <2>5 DEF Next
<1> QED
  BY <1>1, <1>2, PTL DEF Spec

\* The types, and that no request is served while the server migrates, however
\* often it crashes and starts again (Start serves after the migration).
THEOREM MigrationTypeCorrect == Spec => []TypeOK
<1>1. MInv => TypeOK
  BY DEF MInv
<1> QED
  BY <1>1, MigrationInvariance, PTL

\* After a migration that returned no error the rows of both projects and their
\* secrets agree, for any number of registries, interrupted attempts and failed
\* calls before it (migrateSecret copies before it deletes, and the rows are
\* moved after all secrets).
THEOREM MigratedSecretsFollowRows == Spec => []MigratedSecretsAgree
<1>1. MInv => MigratedSecretsAgree
  <2> SUFFICES ASSUME MInv, server = "serving", migration = "done",
                      NEW k \in Keys \ doubtful, k[2] \notin unsettled
               PROVE  Agrees(k)
    BY DEF MigratedSecretsAgree
  <2>1. CASE Elsewhere(k)
    BY <2>1 DEF MInv, Settled
  <2>2. CASE ~ Elsewhere(k)
    <3>1. k[2] \in Names \ unsettled /\ (k = Old(k[2]) \/ k = New(k[2]))
      BY <2>2, KeysOfNames DEF Elsewhere
    <3>2. Fine(k[2])
      BY <3>1 DEF MInv, NameSteps
    <3> QED
      BY <3>1, <3>2 DEF Fine, Settled
  <2> QED
    BY <2>1, <2>2
<1> QED
  BY <1>1, MigrationInvariance, PTL

\* When a migration returns no error no row of the old project is left in any
\* table, whatever earlier attempts moved before they failed (migrate).
THEOREM MigrationIsComplete == Spec => MigrationLeavesNothing
<1> DEFINE Complete == server = "commit" /\ migration' = "done" =>
                          /\ left' = {}
                          /\ \A n \in Names : registries'[Old(n)] = None
<1>1. MInv /\ [Next]_vars => [Complete]_vars
  <2> SUFFICES ASSUME MInv, Next, server = "commit"
               PROVE  left' = {} /\ \A n \in Names : registries'[Old(n)] = None
    BY DEF vars
  <2>1. left = {} /\ \A n \in Names : registries[Old(n)] = None
    BY DEF MInv, TableSteps
  <2>2. ASSUME NEW call \in late, LateCall(call), UNCHANGED mvars
        PROVE  UNCHANGED <<left, registries>>
    BY <2>2 DEF LateCall, mvars
  <2>3. CASE Crash
    BY <2>1, <2>3 DEF Crash
  <2>4. CASE Migrate
    <3>1. CommitMigration
      BY <2>4, TablesAre DEF Migrate, StartMigration, Login, ReadOldSecret, WriteNewSecret,
         DeleteOldSecret, SecretsMoved, UpdateRegistries, UpdateTable
    <3> QED
      BY <2>1, <3>1 DEF CommitMigration
  <2>5. ~ \E r \in Requests : ServeRequest(r)
    BY DEF ServeRequest
  <2> QED
    BY <2>1, <2>2, <2>3, <2>4, <2>5 DEF Next
<1> QED
  BY <1>1, MigrationInvariance, PTL DEF Spec, MigrationLeavesNothing
=============================================================================
