----------------------- MODULE RegistrySecretsProofs -----------------------
(***************************************************************************)
(* Row locks, and the agreement of rows and secrets, for any number of     *)
(* requests that are served at the same time and any number of failures.   *)
(***************************************************************************)
EXTENDS RegistrySecrets, SequenceTheorems, TLAPS

\* A request that is being served has registries left unless it commits, each
\* once; its transaction has changed none of them but the first, and that one
\* between the statement and the answer of Vault.  A deletion has one registry,
\* and only a deletion wants no secret.
Sound(q) ==
    /\ q.pc # "commit" => q.todo # <<>>
    /\ \A i, j \in 1 .. Len(q.todo) : q.todo[i] = q.todo[j] => i = j
    /\ \A i \in 1 .. Len(q.todo) :
          q.todo[i] \in DOMAIN q.writes => i = 1 /\ q.pc \in {"vault", "abandoned"}
    /\ q.pc \in {"vault", "abandoned"} => /\ Head(q.todo) \in DOMAIN q.writes
                                          /\ q.writes[Head(q.todo)] = q.value
    /\ q.op = "delete" <=> q.value = None
    /\ q.op = "delete" => /\ q.pc # "query"
                          /\ Len(q.todo) <= 1
                          /\ q.pc = "row" => DOMAIN q.writes = {}
                          /\ q.pc = "vault" => DOMAIN q.writes = {Head(q.todo)}

Shape == /\ SecretsTypeOK
         /\ \A r \in Requests : request[r] # Idle => Sound(request[r])

\* The key is in doubt, or its row and its secret agree.
Settled(k) == k \in doubtful \/ Agrees(k)

\* The key is in doubt, or a request has given it a secret and has not ended.
Claimed(k) == \/ k \in doubtful
              \/ \E r \in Requests : k \in Called(r) /\ request[r].writes[k] # None

\* The inductive invariant.
IInv == Shape /\ \A k \in Keys : Settled(k)

-----------------------------------------------------------------------------
(* Records and functions.                                                  *)

LEMMA WritesAre ==
    /\ NoWrites \in Writes /\ DOMAIN NoWrites = {}
    /\ \A w \in Writes : /\ DOMAIN w \subseteq Keys
                         /\ \A k \in DOMAIN w : w[k] \in Values
    /\ \A w \in Writes, k \in Keys, v \in Values :
          [x \in DOMAIN w \cup {k} |-> IF x = k THEN v ELSE w[x]] \in Writes
<1>1. \A rows \in SUBSET Keys : [rows -> Values] \subseteq Writes
  BY DEF Writes
<1>2. NoWrites \in Writes /\ DOMAIN NoWrites = {}
  <2>1. NoWrites \in [{} -> Values] /\ DOMAIN NoWrites = {}
    BY DEF NoWrites
  <2> QED
    BY <1>1, <2>1
<1>3. ASSUME NEW w \in Writes
      PROVE  /\ DOMAIN w \subseteq Keys
             /\ \A k \in DOMAIN w : w[k] \in Values
  BY DEF Writes
<1>4. ASSUME NEW w \in Writes, NEW k \in Keys, NEW v \in Values
      PROVE  [x \in DOMAIN w \cup {k} |-> IF x = k THEN v ELSE w[x]] \in Writes
  <2> DEFINE rows == DOMAIN w \cup {k}
             f == [x \in rows |-> IF x = k THEN v ELSE w[x]]
  <2>1. rows \in SUBSET Keys
    BY <1>3
  <2>2. f \in [rows -> Values]
    BY <1>3
  <2> HIDE DEF rows, f
  <2>3. f \in Writes
    BY <1>1, <2>1, <2>2
  <2> QED
    BY <2>3 DEF f, rows
<1> QED
  BY <1>2, <1>3, <1>4

LEMMA IdleIsNotServing == Idle.pc = "idle" /\ Idle \notin Serving
<1>1. Idle.pc = "idle"
  BY DEF Idle
<1>2. \A q \in Serving : q.pc # "idle"
  BY DEF Serving
<1> QED
  BY <1>1, <1>2

LEMMA ServingHas ==
    ASSUME NEW q \in Serving
    PROVE  /\ q.pc \in {"query", "row", "vault", "commit", "abandoned"}
           /\ q.op \in {"create", "update", "delete", "load"}
           /\ q.todo \in Seq(Keys)
           /\ q.value \in Values
           /\ q.writes \in Writes
BY DEF Serving

\* The request behind a program counter.
LEMMA Serves ==
    ASSUME Shape, NEW r \in Requests, request[r].pc # "idle"
    PROVE  request[r] # Idle /\ request[r] \in Serving /\ Sound(request[r])
BY IdleIsNotServing DEF Shape, SecretsTypeOK

\* The other requests behind an EXCEPT expression.
LEMMA Others ==
    ASSUME Shape, NEW r \in Requests, NEW q, request' = [request EXCEPT ![r] = q]
    PROVE  /\ request'[r] = q
           /\ \A s \in Requests \ {r} : request'[s] = request[s]
BY DEF Shape, SecretsTypeOK

-----------------------------------------------------------------------------
(* One request changes.                                                    *)

Free(r, rows) == \A s \in Requests \ {r} :
                    request[s] # Idle => rows \cap DOMAIN request[s].writes = {}

StateTypes == /\ registries \in [Keys -> Values]
              /\ vault \in [Keys -> Values]
              /\ late \subseteq Keys \X Values
              /\ doubtful \subseteq Keys
              /\ arrived \in 0 .. MaxRequests
              /\ faults \in 0 .. MaxFaults

LEMMA ShapeKept ==
    ASSUME Shape, NEW r \in Requests, NEW q, request' = [request EXCEPT ![r] = q],
           q = Idle \/ (q \in Serving /\ Sound(q) /\ Free(r, DOMAIN q.writes)),
           StateTypes'
    PROVE  Shape'
<1>1. request' \in [Requests -> {Idle} \cup Serving]
  BY DEF Shape, SecretsTypeOK
<1>2. /\ request'[r] = q
      /\ \A s \in Requests \ {r} : request'[s] = request[s]
  BY Others
<1>3. \A s \in Requests : request'[s] # Idle => Sound(request'[s])
  BY <1>2 DEF Shape
<1>4. \A s, t \in Requests : s # t /\ request'[s] # Idle /\ request'[t] # Idle =>
          DOMAIN request'[s].writes \cap DOMAIN request'[t].writes = {}
  <2> SUFFICES ASSUME NEW s \in Requests, NEW t \in Requests, s # t,
                      request'[s] # Idle, request'[t] # Idle
               PROVE  DOMAIN request'[s].writes \cap DOMAIN request'[t].writes = {}
    OBVIOUS
  <2>1. CASE s = r
    BY <1>2, <2>1 DEF Free
  <2>2. CASE t = r
    BY <1>2, <2>2 DEF Free
  <2>3. CASE s # r /\ t # r
    BY <1>2, <2>3 DEF Shape, SecretsTypeOK
  <2> QED
    BY <2>1, <2>2, <2>3
<1>5. SecretsTypeOK'
  BY <1>1, <1>4 DEF SecretsTypeOK, StateTypes
<1> QED
  BY <1>3, <1>5 DEF Shape

\* Its writes stay free of others' while it adds none.
LEMMA OwnRowsAreFree ==
    ASSUME Shape, NEW r \in Requests, request[r] # Idle
    PROVE  Free(r, DOMAIN request[r].writes)
BY DEF Shape, SecretsTypeOK, Free

-----------------------------------------------------------------------------
(* What settles a key.                                                     *)

LEMMA CalledIsWritten ==
    ASSUME Shape, NEW r \in Requests, NEW k \in Called(r)
    PROVE  /\ request[r] # Idle
           /\ k \in DOMAIN request[r].writes
           /\ \A s \in Requests \ {r} : k \notin Called(s)
BY DEF Shape, SecretsTypeOK, Called

LEMMA AgreesMeans ==
    ASSUME NEW k \in Keys
    PROVE  Agrees(k) <=>
              /\ (\A r \in Requests : k \notin Called(r)) => vault[k] = registries[k]
              /\ \A r \in Requests : k \in Called(r) => vault[k] = request[r].writes[k]
BY DEF Agrees

\* The request has written the secret it wants.
LEMMA CallerSettles ==
    ASSUME Shape', NEW r \in Requests, NEW k \in Keys,
           k \in Called(r)', vault'[k] = request'[r].writes[k]
    PROVE  Agrees(k)'
<1>1. \A s \in Requests \ {r} : k \notin Called(s)'
  BY DEF Shape, SecretsTypeOK, Called
<1> QED
  BY <1>1 DEF Agrees

\* The request has nothing to do with the key.
LEMMA OthersSettle ==
    ASSUME NEW r \in Requests, NEW k \in Keys, Agrees(k),
           \A s \in Requests \ {r} : request'[s] = request[s],
           k \notin Called(r), k \notin Called(r)',
           vault'[k] = vault[k], registries'[k] = registries[k]
    PROVE  Agrees(k)'
<1>1. \A s \in Requests \ {r} : k \in Called(s)' <=> k \in Called(s)
  BY DEF Called
<1> QED
  BY <1>1 DEF Agrees

\* The request commits what it has written.
LEMMA CommitSettles ==
    ASSUME Shape, NEW r \in Requests, NEW k \in Keys, Agrees(k),
           \A s \in Requests \ {r} : request'[s] = request[s],
           k \in Called(r), k \notin Called(r)',
           vault'[k] = vault[k], registries'[k] = request[r].writes[k]
    PROVE  Agrees(k)'
<1>1. \A s \in Requests \ {r} : k \notin Called(s)
  BY CalledIsWritten
<1>2. \A s \in Requests : k \notin Called(s)'
  BY <1>1 DEF Called
<1>3. vault[k] = request[r].writes[k]
  BY AgreesMeans
<1> QED
  BY <1>2, <1>3 DEF Agrees

-----------------------------------------------------------------------------
(* The actions.                                                            *)

\* A claim ends with the row of the key.
Keeps == /\ Shape'
         /\ \A k \in Keys : Settled(k) => Settled(k)'
         /\ \A k \in Keys : Claimed(k) => Claimed(k)' \/ registries'[k] # None

\* The transaction ends: what it has called Vault for is in doubt, and Vault
\* has changed nothing else but torn keys.
LEMMA RollbackKeeps ==
    ASSUME Shape, NEW r \in Requests, NEW torn \in SUBSET Keys, Rollback(r, torn),
           vault' \in [Keys -> Values], \A k \in Keys \ torn : vault'[k] = vault[k],
           late' \subseteq Keys \X Values, arrived' \in 0 .. MaxRequests,
           faults' \in 0 .. MaxFaults
    PROVE  Keeps
<1>1. Called(r) \subseteq Keys
  BY CalledIsWritten, WritesAre DEF Shape, SecretsTypeOK, Serving
<1>2. Shape'
  <2>1. StateTypes'
    BY <1>1 DEF Rollback, Shape, SecretsTypeOK, StateTypes
  <2> QED
    BY <2>1, ShapeKept DEF Rollback
<1>3. ASSUME NEW k \in Keys, Settled(k), k \notin doubtful'
      PROVE  Agrees(k)'
  <2>1. k \notin Called(r) /\ k \notin torn /\ Agrees(k)
    BY <1>3 DEF Rollback, Settled
  <2>2. /\ \A s \in Requests \ {r} : request'[s] = request[s]
        /\ k \notin Called(r)'
    BY Others DEF Rollback, Called
  <2> QED
    BY <2>1, <2>2, OthersSettle DEF Rollback
<1>4. ASSUME NEW k \in Keys, Claimed(k)
      PROVE  Claimed(k)'
  <2>1. \A s \in Requests \ {r} : request'[s] = request[s] /\ Called(s)' = Called(s)
    BY Others DEF Rollback, Called
  <2> QED
    BY <1>4, <2>1 DEF Claimed, Rollback
<1> QED
  BY <1>2, <1>3, <1>4 DEF Keeps, Settled

\* A step that calls nobody and ends nothing.
LEMMA QuietStep ==
    ASSUME Shape, NEW r \in Requests, NEW q \in Serving,
           request' = [request EXCEPT ![r] = q], Sound(q), Free(r, DOMAIN q.writes),
           Called(r)' = Called(r),
           \A k \in Called(r) : q.writes[k] = request[r].writes[k],
           UNCHANGED <<registries, vault, late, doubtful, faults>>,
           arrived' \in 0 .. MaxRequests
    PROVE  Keeps
<1>1. Shape'
  <2>1. StateTypes'
    BY DEF Shape, SecretsTypeOK, StateTypes
  <2> QED
    BY <2>1, ShapeKept
<1>2. request'[r] = q /\ \A s \in Requests \ {r} : request'[s] = request[s]
  BY Others
<1>3. ASSUME NEW k \in Keys, Agrees(k)
      PROVE  Agrees(k)'
  <2>1. CASE k \in Called(r)
    <3>1. vault'[k] = request'[r].writes[k]
      BY <1>2, <1>3, <2>1, AgreesMeans
    <3> QED
      BY <1>1, <2>1, <3>1, CallerSettles
  <2>2. CASE k \notin Called(r)
    BY <1>2, <1>3, <2>2, OthersSettle
  <2> QED
    BY <2>1, <2>2
<1>4. ASSUME NEW k \in Keys, Claimed(k)
      PROVE  Claimed(k)'
  <2>1. \A s \in Requests \ {r} : Called(s)' = Called(s)
    BY <1>2 DEF Called
  <2> QED
    BY <1>2, <1>4, <2>1 DEF Claimed
<1> QED
  BY <1>1, <1>3, <1>4 DEF Keeps, Settled

LEMMA ArriveKeeps ==
    ASSUME Shape, NEW r \in Requests, Arrive(r)
    PROVE  Keeps
<1>1. PICK k \in Keys, c \in Contents :
          \/ \E op \in {"create", "update", "delete"} :
                 request' = [request EXCEPT
                     ![r] = [pc |-> "row", op |-> op, todo |-> <<k>>,
                             value |-> IF op = "delete" THEN None ELSE c,
                             writes |-> NoWrites]]
          \/ \E n \in Names \ {k[2]} :
                 request' = [request EXCEPT
                     ![r] = [pc |-> "query", op |-> "load", todo |-> <<k, <<k[1], n>>>>,
                             value |-> c, writes |-> NoWrites]]
  BY DEF Arrive
<1>2. /\ request[r] = Idle
      /\ UNCHANGED <<registries, vault, late, doubtful, faults>>
      /\ arrived' \in 0 .. MaxRequests
  BY BoundsAreNumbers DEF Arrive, Shape, SecretsTypeOK
<1>3. ASSUME NEW q \in Serving, request' = [request EXCEPT ![r] = q], Sound(q),
             q.writes = NoWrites, q.pc \in {"row", "query"}
      PROVE  Keeps
  <2>1. Free(r, DOMAIN q.writes)
    BY <1>3, WritesAre DEF Free
  <2>2. Called(r) = {} /\ Called(r)' = {}
    BY <1>2, <1>3, Others, WritesAre DEF Called
  <2> QED
    BY <1>2, <1>3, <2>1, <2>2, QuietStep
<1>4. ASSUME NEW op \in {"create", "update", "delete"},
             request' = [request EXCEPT
                 ![r] = [pc |-> "row", op |-> op, todo |-> <<k>>,
                         value |-> IF op = "delete" THEN None ELSE c,
                         writes |-> NoWrites]]
      PROVE  Keeps
  <2> DEFINE q == [pc |-> "row", op |-> op, todo |-> <<k>>,
                   value |-> IF op = "delete" THEN None ELSE c, writes |-> NoWrites]
  <2>1. q \in Serving
    BY WritesAre DEF Serving, Values
  <2>2. Sound(q)
    BY WritesAre, NoneIsNoContent DEF Sound
  <2> QED
    BY <1>3, <1>4, <2>1, <2>2
<1>5. ASSUME NEW n \in Names \ {k[2]},
             request' = [request EXCEPT
                 ![r] = [pc |-> "query", op |-> "load", todo |-> <<k, <<k[1], n>>>>,
                         value |-> c, writes |-> NoWrites]]
      PROVE  Keeps
  <2> DEFINE other == <<k[1], n>>
             q == [pc |-> "query", op |-> "load", todo |-> <<k, other>>,
                   value |-> c, writes |-> NoWrites]
  <2>1. other \in Keys /\ other # k
    BY DEF Keys
  <2> HIDE DEF other
  <2>2. q \in Serving
    BY <2>1, WritesAre DEF Serving, Values
  <2>3. Sound(q)
    BY <2>1, WritesAre, NoneIsNoContent DEF Sound
  <2>4. request' = [request EXCEPT ![r] = q]
    BY <1>5 DEF other
  <2> QED
    BY <1>3, <2>2, <2>3, <2>4
<1> QED
  BY <1>1, <1>4, <1>5

LEMMA QueryRowKeeps ==
    ASSUME Shape, NEW r \in Requests, QueryRow(r)
    PROVE  Keeps
<1>1. request[r] # Idle /\ request[r] \in Serving /\ Sound(request[r])
  BY Serves DEF QueryRow
<1> DEFINE op == IF Seen(r, Head(request[r].todo)) = None THEN "create" ELSE "update"
           q == [request[r] EXCEPT !.pc = "row", !.op = op]
<1>2. op \in {"create", "update"}
  OBVIOUS
<1>3. request' = [request EXCEPT ![r].pc = "row", ![r].op = op]
  BY DEF QueryRow
<1> HIDE DEF op
<1>4. request' = [request EXCEPT ![r] = q]
  BY <1>3 DEF Shape, SecretsTypeOK
<1>5. q \in Serving /\ Sound(q) /\ q.writes = request[r].writes /\ q.pc = "row"
  BY <1>1, <1>2 DEF Serving, Sound, QueryRow
<1> HIDE DEF q
<1>6. Called(r)' = Called(r)
  <2>1. Called(r) = DOMAIN request[r].writes
    BY <1>1 DEF QueryRow, Called
  <2>2. request'[r] = q /\ q # Idle
    BY <1>4, <1>5, Others, IdleIsNotServing
  <2> QED
    BY <1>5, <2>1, <2>2 DEF Called
<1> QED
  BY <1>1, <1>4, <1>5, <1>6, OwnRowsAreFree, QuietStep DEF QueryRow, Shape, SecretsTypeOK

\* A statement that changes a row has it for itself.
LEMMA RowIsFree ==
    ASSUME Shape, NEW r \in Requests, request[r].pc = "row", NEW k \in Keys,
           k = Head(request[r].todo), ~ Blocked(r),
           (Seen(r, k) # None) # (request[r].op = "create")
    PROVE  Free(r, DOMAIN request[r].writes \cup {k})
<1>1. request[r] # Idle
  BY Serves
<1>2. Free(r, DOMAIN request[r].writes)
  BY <1>1, OwnRowsAreFree
<1>3. CASE k \in DOMAIN request[r].writes
  BY <1>2, <1>3 DEF Free
<1>4. CASE k \notin DOMAIN request[r].writes
  <2>1. Seen(r, k) = registries[k]
    BY <1>4 DEF Seen
  <2>2. ~ Held(r, k)
    BY <2>1 DEF Blocked
  <2> QED
    BY <1>2, <2>2 DEF Held, Busy, Free
<1> QED
  BY <1>3, <1>4

LEMMA WriteRowKeeps ==
    ASSUME Shape, NEW r \in Requests, WriteRow(r)
    PROVE  Keeps
<1> DEFINE k == Head(request[r].todo)
           w == request[r].writes
           writes == [x \in DOMAIN w \cup {k} |-> IF x = k THEN request[r].value ELSE w[x]]
           q == [request[r] EXCEPT !.pc = "vault", !.writes = writes]
<1>1. request[r] # Idle /\ request[r] \in Serving /\ Sound(request[r])
  BY Serves DEF WriteRow
<1>2. /\ request[r].pc = "row" /\ request[r].todo \in Seq(Keys) /\ request[r].todo # <<>>
      /\ w \in Writes /\ request[r].value \in Values
  BY <1>1 DEF WriteRow, Serving, Sound
<1>3. k \in Keys /\ 1 \in 1 .. Len(request[r].todo) /\ k = request[r].todo[1]
  <2>1. Len(request[r].todo) \in Nat /\ Len(request[r].todo) # 0
    BY <1>2, EmptySeq
  <2> QED
    BY <1>2, <2>1, HeadTailProperties
<1>4. k \notin DOMAIN w
  BY <1>1, <1>2, <1>3 DEF Sound
<1>5. CASE (Seen(r, k) # None) = (request[r].op = "create")
  <2>1. Rollback(r, {}) /\ UNCHANGED <<vault, late, arrived, faults>>
    BY <1>5 DEF WriteRow
  <2> QED
    BY <2>1, RollbackKeeps DEF Shape, SecretsTypeOK
<1>6. CASE (Seen(r, k) # None) # (request[r].op = "create")
  <2>1. UNCHANGED <<registries, vault, late, doubtful, arrived, faults>> /\ ~ Blocked(r)
    BY <1>6 DEF WriteRow
  <2>2. request' = [request EXCEPT ![r].pc = "vault", ![r].writes = writes]
    BY <1>6 DEF WriteRow
  <2>3. writes \in Writes /\ DOMAIN writes = DOMAIN w \cup {k}
    BY <1>2, <1>3, WritesAre
  <2>4. /\ writes[k] = request[r].value
        /\ \A x \in DOMAIN w : x # k => writes[x] = w[x]
    OBVIOUS
  <2>5. Free(r, DOMAIN writes)
    BY <1>2, <1>3, <1>6, <2>1, <2>3, RowIsFree
  <2> HIDE DEF writes
  <2>6. request' = [request EXCEPT ![r] = q]
    BY <2>2 DEF Shape, SecretsTypeOK
  <2>7. /\ q \in Serving /\ q.writes = writes /\ q.pc = "vault"
        /\ q.todo = request[r].todo /\ q.value = request[r].value /\ q.op = request[r].op
    BY <1>1, <2>3 DEF Serving
  <2> HIDE DEF q
  <2>8. Sound(q)
    <3>1. \A i \in 1 .. Len(q.todo) : q.todo[i] \in DOMAIN writes => i = 1
      BY <1>1, <1>2, <1>3, <2>3, <2>7 DEF Sound
    <3> QED
      BY <1>1, <1>2, <1>3, <2>3, <2>4, <2>7, <3>1 DEF Sound
  <2>9. Called(r) = DOMAIN w /\ Called(r)' = DOMAIN w
    <3>1. Called(r) = DOMAIN w
      BY <1>1, <1>2 DEF Called
    <3>2. request'[r] = q /\ q # Idle
      BY <2>6, <2>7, Others, IdleIsNotServing
    <3> QED
      BY <1>4, <2>3, <2>7, <3>1, <3>2 DEF Called
  <2> QED
    BY <1>4, <2>1, <2>4, <2>5, <2>6, <2>7, <2>8, <2>9, QuietStep, ZenonT(40) DEF Shape, SecretsTypeOK
<1> QED
  BY <1>5, <1>6

\* The key that a request is about to call Vault for.
LEMMA KeyToCall ==
    ASSUME Shape, NEW r \in Requests, request[r].pc \in {"vault", "abandoned"}
    PROVE  /\ request[r] # Idle /\ request[r] \in Serving /\ Sound(request[r])
           /\ request[r].todo \in Seq(Keys) /\ request[r].todo # <<>>
           /\ Head(request[r].todo) \in Keys
           /\ Head(request[r].todo) = request[r].todo[1]
           /\ Head(request[r].todo) \in DOMAIN request[r].writes
           /\ request[r].writes[Head(request[r].todo)] = request[r].value
           /\ request[r].value \in Values
           /\ Len(request[r].todo) \in Nat /\ Len(request[r].todo) >= 1
<1>1. request[r] # Idle /\ request[r] \in Serving /\ Sound(request[r])
  BY Serves
<1>2. request[r].todo \in Seq(Keys) /\ request[r].todo # <<>> /\ request[r].value \in Values
  BY <1>1 DEF Serving, Sound
<1>3. Len(request[r].todo) \in Nat /\ Len(request[r].todo) # 0
  BY <1>2, EmptySeq
<1>4. Head(request[r].todo) \in Keys
  BY <1>2, HeadTailProperties
<1> QED
  BY <1>1, <1>2, <1>3, <1>4 DEF Sound

\* Vault has carried out the call, and the request goes on.
LEMMA AdvanceKeeps ==
    ASSUME Shape, NEW r \in Requests, request[r].pc = "vault", Advance(r),
           NEW k, k = Head(request[r].todo),
           vault' \in [Keys -> Values], \A x \in Keys \ {k} : vault'[x] = vault[x],
           vault'[k] = request[r].value \/ k \in doubtful',
           doubtful' \subseteq Keys, doubtful \ {k} \subseteq doubtful',
           k \in doubtful => k \in doubtful' \/ request[r].value # None,
           UNCHANGED <<registries, late, arrived>>, faults' \in 0 .. MaxFaults
    PROVE  Keeps
<1> DEFINE todo == Tail(request[r].todo)
           pc == IF Len(request[r].todo) = 1 THEN "commit" ELSE "query"
           q == [request[r] EXCEPT !.todo = todo, !.pc = pc]
<1>1. /\ request[r] # Idle /\ request[r] \in Serving /\ Sound(request[r])
      /\ request[r].todo \in Seq(Keys) /\ request[r].todo # <<>>
      /\ k \in Keys /\ k = request[r].todo[1]
      /\ k \in DOMAIN request[r].writes /\ request[r].writes[k] = request[r].value
      /\ Len(request[r].todo) \in Nat /\ Len(request[r].todo) >= 1
  BY KeyToCall
<1>2. /\ todo \in Seq(Keys) /\ Len(todo) = Len(request[r].todo) - 1
      /\ \A i \in 1 .. Len(todo) : todo[i] = request[r].todo[i + 1]
  BY <1>1, HeadTailProperties
<1>3. \A i \in 1 .. Len(todo) : i + 1 \in 1 .. Len(request[r].todo) /\ i + 1 # 1
  BY <1>1, <1>2
<1>4. pc \in {"commit", "query"} /\ (pc = "query" => todo # <<>>)
  <2>1. pc \in {"commit", "query"} /\ (pc = "query" => Len(request[r].todo) # 1)
    OBVIOUS
  <2>2. Len(request[r].todo) # 1 => Len(todo) # 0
    BY <1>1, <1>2
  <2> HIDE DEF todo, pc
  <2> QED
    BY <1>2, <2>1, <2>2, EmptySeq
<1>5. request' = [request EXCEPT ![r] = q]
  BY DEF Advance, Shape, SecretsTypeOK
<1> HIDE DEF todo, pc
<1>6. /\ q \in Serving /\ q.pc = pc /\ q.todo = todo
      /\ q.writes = request[r].writes /\ q.op = request[r].op /\ q.value = request[r].value
  BY <1>1, <1>2, <1>4 DEF Serving
<1> HIDE DEF q
<1>7. Sound(q)
  <2>1. \A i, j \in 1 .. Len(todo) : todo[i] = todo[j] => i = j
    <3> SUFFICES ASSUME NEW i \in 1 .. Len(todo), NEW j \in 1 .. Len(todo), todo[i] = todo[j]
                 PROVE  i = j
      OBVIOUS
    <3>1. /\ i + 1 \in 1 .. Len(request[r].todo) /\ j + 1 \in 1 .. Len(request[r].todo)
          /\ request[r].todo[i + 1] = request[r].todo[j + 1]
      BY <1>2, <1>3
    <3>2. i + 1 = j + 1
      BY <1>1, <3>1 DEF Sound
    <3> QED
      BY <3>2
  <2>2. \A i \in 1 .. Len(todo) : todo[i] \notin DOMAIN request[r].writes
    BY <1>1, <1>2, <1>3 DEF Sound
  <2>3. /\ q.op = "delete" <=> q.value = None
        /\ q.op = "delete" => Len(q.todo) <= 1 /\ q.pc # "query"
    <3>1. /\ q.op = "delete" <=> q.value = None
          /\ q.op = "delete" => Len(request[r].todo) <= 1
      BY <1>1, <1>6 DEF Sound
    <3>2. Len(request[r].todo) <= 1 => Len(request[r].todo) = 1 /\ Len(todo) = 0
      <4>1. \A len \in Nat : len >= 1 /\ len <= 1 => len = 1 /\ len - 1 = 0
        OBVIOUS
      <4>2. /\ Len(request[r].todo) \in Nat /\ Len(request[r].todo) >= 1
            /\ Len(todo) = Len(request[r].todo) - 1
        BY <1>1, <1>2
      <4> QED
        BY <4>1, <4>2
    <3>3. Len(request[r].todo) = 1 => pc = "commit"
      BY DEF pc
    <3> QED
      BY <1>6, <3>1, <3>2, <3>3
  <2> QED
    BY <1>4, <1>6, <2>1, <2>2, <2>3 DEF Sound
<1>8. Shape'
  <2>1. StateTypes'
    BY DEF StateTypes, Shape, SecretsTypeOK
  <2>2. Free(r, DOMAIN q.writes)
    BY <1>1, <1>6, OwnRowsAreFree
  <2> QED
    BY <1>5, <1>6, <1>7, <2>1, <2>2, ShapeKept
<1>9. /\ request'[r] = q /\ q # Idle
      /\ \A s \in Requests \ {r} : request'[s] = request[s]
  BY <1>5, <1>6, Others, IdleIsNotServing
<1>10. /\ Called(r) = DOMAIN request[r].writes \ {k}
       /\ Called(r)' = DOMAIN request[r].writes
  BY <1>1, <1>4, <1>6, <1>9 DEF Called
<1>11. ASSUME NEW x \in Keys, Settled(x), x \notin doubtful'
       PROVE  Agrees(x)'
  <2>1. CASE x = k
    BY <1>1, <1>6, <1>8, <1>9, <1>10, <1>11, <2>1, CallerSettles
  <2>2. CASE x # k /\ x \in DOMAIN request[r].writes
    <3>1. Agrees(x) /\ x \in Called(r)
      BY <1>10, <1>11, <2>2 DEF Settled
    <3>2. vault'[x] = request'[r].writes[x]
      BY <1>6, <1>9, <2>2, <3>1, AgreesMeans
    <3> QED
      BY <1>8, <1>10, <2>2, <3>2, CallerSettles
  <2>3. CASE x # k /\ x \notin DOMAIN request[r].writes
    <3>1. Agrees(x)
      BY <1>11, <2>3 DEF Settled
    <3> QED
      BY <1>9, <1>10, <2>3, <3>1, OthersSettle
  <2> QED
    BY <2>1, <2>2, <2>3
<1>12. ASSUME NEW x \in Keys, Claimed(x)
       PROVE  Claimed(x)'
  <2>1. \A s \in Requests \ {r} : Called(s)' = Called(s)
    BY <1>9 DEF Called
  <2>2. Called(r) \subseteq Called(r)' /\ request'[r].writes = request[r].writes
    BY <1>6, <1>9, <1>10
  <2>3. k \in Called(r)' /\ request'[r].writes[k] = request[r].value
    BY <1>1, <1>6, <1>9, <1>10
  <2> QED
    BY <1>9, <1>12, <2>1, <2>2, <2>3 DEF Claimed
<1> QED
  BY <1>8, <1>11, <1>12 DEF Keeps, Settled

LEMMA WriteSecretKeeps ==
    ASSUME Shape, NEW r \in Requests, WriteSecret(r)
    PROVE  Keeps
<1> DEFINE k == Head(request[r].todo)
<1>1. k \in Keys /\ request[r].value \in Values /\ request[r].pc = "vault"
  BY KeyToCall DEF WriteSecret
<1>2. /\ vault' = [vault EXCEPT ![k] = request[r].value]
      /\ doubtful' = doubtful \ {k}
      /\ Advance(r)
      /\ UNCHANGED <<registries, late, arrived, faults>>
  BY DEF WriteSecret
<1> HIDE DEF k
<1>3. /\ vault' \in [Keys -> Values] /\ vault'[k] = request[r].value
      /\ \A x \in Keys \ {k} : vault'[x] = vault[x]
  BY <1>1, <1>2 DEF Shape, SecretsTypeOK
<1>4. doubtful' \subseteq Keys /\ faults' \in 0 .. MaxFaults
  BY <1>2 DEF Shape, SecretsTypeOK
<1>5. request[r].value # None
  BY KeyToCall DEF WriteSecret, Sound
<1> QED
  BY <1>1, <1>2, <1>3, <1>4, <1>5, AdvanceKeeps DEF k

\* A failure is counted.
LEMMA FaultCounts ==
    ASSUME Shape, Fault
    PROVE  faults' \in 0 .. MaxFaults
BY BoundsAreNumbers DEF Shape, SecretsTypeOK, Fault

LEMMA DeleteSecretKeeps ==
    ASSUME Shape, NEW r \in Requests, DeleteSecret(r)
    PROVE  Keeps
<1> DEFINE k == Head(request[r].todo)
<1>1. /\ k \in Keys /\ request[r].pc = "vault" /\ request[r].op = "delete"
      /\ request[r].value = None
  BY KeyToCall DEF DeleteSecret, Sound
<1>2. /\ \/ vault' = [vault EXCEPT ![k] = None] /\ UNCHANGED <<doubtful, faults>>
         \/ Fault /\ doubtful' = doubtful \cup {k} /\ UNCHANGED vault
      /\ Advance(r)
      /\ UNCHANGED <<registries, late, arrived>>
  BY DEF DeleteSecret
<1> HIDE DEF k
<1>3. None \in Values
  BY DEF Values
<1>4. /\ vault' \in [Keys -> Values] /\ (vault'[k] = request[r].value \/ k \in doubtful')
      /\ \A x \in Keys \ {k} : vault'[x] = vault[x]
      /\ doubtful' \subseteq Keys /\ doubtful \subseteq doubtful'
  BY <1>1, <1>2, <1>3 DEF Shape, SecretsTypeOK
<1>5. faults' \in 0 .. MaxFaults
  BY <1>2, FaultCounts DEF Shape, SecretsTypeOK
<1> QED
  BY <1>1, <1>2, <1>4, <1>5, AdvanceKeeps DEF k

\* What a failed call leaves behind.
LEMMA FailedCallTears ==
    ASSUME Shape, NEW k \in Keys, NEW v \in Values, FailedCall(k, v)
    PROVE  /\ vault' \in [Keys -> Values]
           /\ late' \subseteq Keys \X Values
           /\ Torn(k) \in SUBSET Keys
           /\ \A x \in Keys \ Torn(k) : vault'[x] = vault[x]
<1>1. /\ vault' \in [Keys -> Values]
      /\ \A x \in Keys \ {k} : vault'[x] = vault[x]
  BY DEF FailedCall, Shape, SecretsTypeOK
<1>2. late' \subseteq Keys \X Values
  BY DEF FailedCall, Shape, SecretsTypeOK
<1>3. Torn(k) \in {{}, {k}} /\ (Torn(k) = {} => vault' = vault)
  BY DEF Torn
<1> QED
  BY <1>1, <1>2, <1>3

LEMMA WriteSecretFailsKeeps ==
    ASSUME Shape, NEW r \in Requests, WriteSecretFails(r)
    PROVE  Keeps
<1> DEFINE k == Head(request[r].todo)
<1>1. k \in Keys /\ request[r].value \in Values
  BY KeyToCall DEF WriteSecretFails
<1>2. /\ Fault /\ FailedCall(k, request[r].value) /\ Rollback(r, Torn(k))
      /\ UNCHANGED arrived
  BY DEF WriteSecretFails
<1> HIDE DEF k
<1>3. faults' \in 0 .. MaxFaults /\ arrived' \in 0 .. MaxRequests
  BY <1>2, FaultCounts DEF Shape, SecretsTypeOK
<1> QED
  BY <1>1, <1>2, <1>3, FailedCallTears, RollbackKeeps

LEMMA DeleteSecretFailsKeeps ==
    ASSUME Shape, NEW r \in Requests, DeleteSecretFails(r)
    PROVE  Keeps
<1> DEFINE k == Head(request[r].todo)
           q == [request[r] EXCEPT !.pc = "abandoned"]
<1>1. /\ request[r] # Idle /\ request[r] \in Serving /\ Sound(request[r])
      /\ k \in Keys /\ request[r].pc = "vault" /\ request[r].op = "delete"
      /\ DOMAIN request[r].writes = {k}
      /\ k \in DOMAIN request[r].writes /\ request[r].writes[k] = request[r].value
  BY KeyToCall DEF DeleteSecretFails, Sound
<1>2. /\ Fault /\ FailedCall(k, None) /\ doubtful' = doubtful \cup Torn(k)
      /\ UNCHANGED <<registries, arrived>>
  BY DEF DeleteSecretFails
<1>3. request' = [request EXCEPT ![r] = q]
  BY DEF DeleteSecretFails, Shape, SecretsTypeOK
<1>4. /\ q \in Serving /\ q.pc = "abandoned" /\ q.todo = request[r].todo
      /\ q.writes = request[r].writes /\ q.op = request[r].op /\ q.value = request[r].value
  BY <1>1 DEF Serving
<1> HIDE DEF k, q
<1>5. /\ vault' \in [Keys -> Values] /\ late' \subseteq Keys \X Values
      /\ Torn(k) \in SUBSET Keys
      /\ \A x \in Keys \ Torn(k) : vault'[x] = vault[x]
  <2>1. None \in Values
    BY DEF Values
  <2> QED
    BY <1>1, <1>2, <2>1, FailedCallTears
<1>6. Sound(q)
  BY <1>1, <1>4 DEF Sound, k
<1>7. Shape'
  <2>1. StateTypes'
    BY <1>2, <1>5, FaultCounts DEF Shape, SecretsTypeOK, StateTypes
  <2>2. Free(r, DOMAIN q.writes)
    BY <1>1, <1>4, OwnRowsAreFree
  <2> QED
    BY <1>3, <1>4, <1>6, <2>1, <2>2, ShapeKept
<1>8. Called(r) = {} /\ Called(r)' = {}
  <2>1. request'[r] = q
    BY <1>3, Others
  <2> QED
    BY <1>1, <1>4, <2>1 DEF Called, k
<1>9. \A s \in Requests \ {r} : request'[s] = request[s]
  BY <1>3, Others
<1>10. ASSUME NEW x \in Keys, Settled(x), x \notin doubtful'
       PROVE  Agrees(x)'
  <2>1. Agrees(x) /\ x \notin Torn(k)
    BY <1>2, <1>10 DEF Settled
  <2> QED
    BY <1>2, <1>5, <1>8, <1>9, <2>1, OthersSettle
<1>11. ASSUME NEW x \in Keys, Claimed(x)
       PROVE  Claimed(x)'
  <2>1. \A s \in Requests \ {r} : Called(s)' = Called(s)
    BY <1>9 DEF Called
  <2> QED
    BY <1>2, <1>8, <1>9, <1>11, <2>1 DEF Claimed
<1> QED
  BY <1>7, <1>10, <1>11 DEF Keeps, Settled

LEMMA CommitKeeps ==
    ASSUME Shape, NEW r \in Requests, Commit(r)
    PROVE  Keeps
<1>1. request[r] # Idle /\ request[r] \in Serving /\ request[r].pc = "commit"
  BY Serves DEF Commit
<1>2. request[r].writes \in Writes
  BY <1>1, ServingHas
<1>3. /\ registries' = [k \in Keys |-> Seen(r, k)]
      /\ request' = [request EXCEPT ![r] = Idle]
      /\ UNCHANGED <<vault, late, doubtful, arrived, faults>>
  BY DEF Commit
<1>4. Shape'
  <2>1. \A k \in Keys : Seen(r, k) \in Values
    BY <1>2, WritesAre DEF Seen, Shape, SecretsTypeOK
  <2>2. StateTypes'
    BY <1>3, <2>1 DEF Shape, SecretsTypeOK, StateTypes
  <2> QED
    BY <1>3, <2>2, ShapeKept
<1>5. /\ Called(r) = DOMAIN request[r].writes
      /\ request'[r] = Idle
      /\ \A s \in Requests \ {r} : request'[s] = request[s]
  BY <1>1, <1>3, Others DEF Called
<1>6. ASSUME NEW k \in Keys, Agrees(k)
      PROVE  Agrees(k)'
  <2>1. k \notin Called(r)'
    BY <1>5 DEF Called
  <2>2. CASE k \in Called(r)
    <3>1. registries'[k] = request[r].writes[k]
      BY <1>3, <1>5, <2>2 DEF Seen
    <3> QED
      BY <1>3, <1>5, <1>6, <2>1, <2>2, <3>1, CommitSettles
  <2>3. CASE k \notin Called(r)
    <3>1. registries'[k] = registries[k]
      BY <1>3, <1>5, <2>3 DEF Seen
    <3> QED
      BY <1>3, <1>5, <1>6, <2>1, <2>3, <3>1, OthersSettle
  <2> QED
    BY <2>2, <2>3
<1>7. ASSUME NEW k \in Keys, Claimed(k)
      PROVE  Claimed(k)' \/ registries'[k] # None
  <2>1. \A s \in Requests \ {r} : Called(s)' = Called(s)
    BY <1>5 DEF Called
  <2>2. k \in Called(r) => registries'[k] = request[r].writes[k]
    BY <1>3, <1>5 DEF Seen
  <2> QED
    BY <1>3, <1>5, <1>7, <2>1, <2>2 DEF Claimed
<1> QED
  BY <1>3, <1>4, <1>6, <1>7 DEF Keeps, Settled

\* The handlers and statements that only roll back.
LEMMA GivingUpKeeps ==
    ASSUME Shape, NEW r \in Requests,
           ContextEnds(r) \/ DeadlockDetected(r) \/ LoginFails(r) \/ CommitFails(r)
    PROVE  Keeps
<1>1. Rollback(r, {}) /\ UNCHANGED <<vault, late, arrived>>
  BY DEF ContextEnds, DeadlockDetected, LoginFails, CommitFails
<1>2. faults' \in 0 .. MaxFaults
  BY FaultCounts DEF ContextEnds, DeadlockDetected, LoginFails, CommitFails,
                     Shape, SecretsTypeOK
<1> QED
  BY <1>1, <1>2, RollbackKeeps DEF Shape, SecretsTypeOK

LEMMA ServeKeeps ==
    ASSUME Shape, NEW r \in Requests, Serve(r)
    PROVE  Keeps
BY ArriveKeeps, QueryRowKeeps, WriteRowKeeps, WriteSecretKeeps, DeleteSecretKeeps,
   CommitKeeps, WriteSecretFailsKeeps, DeleteSecretFailsKeeps, GivingUpKeeps
   DEF Serve, Proceed

LEMMA LateCallKeeps ==
    ASSUME Shape, NEW call \in late, LateCall(call)
    PROVE  Keeps
<1>1. /\ call[1] \in Keys /\ call[2] \in Values
      /\ vault' = [vault EXCEPT ![call[1]] = call[2]]
      /\ late' = late \ {call}
      /\ doubtful' = doubtful \cup {call[1]}
      /\ UNCHANGED <<registries, request, arrived, faults>>
  BY DEF LateCall, Shape, SecretsTypeOK
<1>2. Shape'
  BY <1>1 DEF Shape, SecretsTypeOK
<1>3. ASSUME NEW k \in Keys, Settled(k), k \notin doubtful'
      PROVE  Agrees(k)'
  <2>1. Agrees(k) /\ vault'[k] = vault[k] /\ registries'[k] = registries[k]
    BY <1>1, <1>3 DEF Settled, Shape, SecretsTypeOK
  <2>2. \A r \in Requests : Called(r)' = Called(r) /\ request'[r] = request[r]
    BY <1>1 DEF Called
  <2> QED
    BY <2>1, <2>2 DEF Agrees
<1>4. ASSUME NEW k \in Keys, Claimed(k)
      PROVE  Claimed(k)'
  BY <1>1, <1>4 DEF Claimed, Called
<1> QED
  BY <1>2, <1>3, <1>4 DEF Keeps, Settled

-----------------------------------------------------------------------------

LEMMA Invariance == SecretsSpec => []IInv
<1>1. SecretsInit => IInv
  <2> SUFFICES ASSUME SecretsInit
               PROVE  IInv
    OBVIOUS
  <2>1. Shape
    BY BoundsAreNumbers DEF SecretsInit, Shape, SecretsTypeOK
  <2>2. \A k \in Keys : Agrees(k)
    BY DEF SecretsInit, Agrees, Called
  <2> QED
    BY <2>1, <2>2 DEF IInv, Settled
<1>2. IInv /\ [SecretsNext]_svars => IInv'
  <2> SUFFICES ASSUME IInv, [SecretsNext]_svars
               PROVE  IInv'
    OBVIOUS
  <2>1. CASE SecretsNext
    <3>1. Keeps
      BY <2>1, ServeKeeps, LateCallKeeps DEF SecretsNext, IInv
    <3> QED
      BY <3>1 DEF Keeps, IInv
  <2>2. CASE UNCHANGED svars
    BY <2>2 DEF svars, IInv, Shape, SecretsTypeOK, Settled, Agrees, Called
  <2> QED
    BY <2>1, <2>2
<1> QED
  BY <1>1, <1>2, PTL DEF SecretsSpec

\* The types, and the row locks: whatever requests are served at the same time,
\* a row that a transaction has changed is changed by no other before it ends
\* (WriteRow, and the order in which the handlers end their transactions).
THEOREM TypeCorrect == SecretsSpec => []SecretsTypeOK
<1>1. IInv => SecretsTypeOK
  BY DEF IInv, Shape
<1> QED
  BY <1>1, Invariance, PTL

\* The secret of a registry is that of its committed row, or that of the one
\* request that has called Vault for it and has not committed, for any number of
\* overlapping requests: Vault is called while the row is locked.  A key is only
\* excepted when a failure left it in doubt, until the next write.
THEOREM SecretsFollowRows == SecretsSpec => []SecretsAgree
<1>1. IInv => SecretsAgree
  BY DEF IInv, Settled, SecretsAgree
<1> QED
  BY <1>1, Invariance, PTL
=============================================================================
