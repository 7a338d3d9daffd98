-------------------------- MODULE RegistrySecrets --------------------------
(***************************************************************************)
(* The credentials of registries in Vault (registry.go, vault.go, and      *)
(* loadRegistry of upload.go), when the secret service is in use.          *)
(*                                                                         *)
(* A request changes the row of a registry in its transaction, whose lock  *)
(* keeps other writers of the row waiting, then calls Vault, and commits.  *)
(* Vault knows nothing of transactions.  A content stands for what one     *)
(* request gave the registry: its row and its secret.  The checks of       *)
(* display names, types and uses are those of CatalogStore.                *)
(***************************************************************************)
EXTENDS Naturals, Sequences

CONSTANTS
    Projects,       \* project UUIDs
    Names,          \* of registries
    Contents,
    None,           \* no row, no secret
    Requests,       \* requests that are served at the same time
    MaxRequests,    \* bound on the requests of a behaviour
    MaxFaults       \* bound on failures of Vault and of commits

ASSUME NoneIsNoContent == None \notin Contents

ASSUME BoundsAreNumbers == MaxRequests \in Nat /\ MaxFaults \in Nat

\* MakeSecretPath: names and projects cannot be confused in a path.
Keys == Projects \X Names

VARIABLES
    registries,     \* committed rows, None where there is none
    vault,          \* secrets by path
    request,        \* the requests being served
    late,           \* calls that Vault still carries out after a timeout
    doubtful,       \* keys that a failure left in doubt
    arrived,        \* requests so far
    faults          \* failures so far

svars == <<registries, vault, request, late, doubtful, arrived, faults>>

Idle == [pc |-> "idle"]

NoWrites == [k \in {} |-> None]

Values == Contents \cup {None}

\* Rows that a transaction has changed, with their new values.
Writes == UNION {[rows -> Values] : rows \in SUBSET Keys}

\* todo: registries left, more than one in an upload; value: what they get, None
\* if they are deleted; writes: the rows the transaction has changed.
Serving == [pc : {"query", "row", "vault", "commit", "abandoned"},
            op : {"create", "update", "delete", "load"},
            todo : Seq(Keys), value : Values, writes : Writes]

\* The types, and the row locks: one transaction at a time has changed a row.
SecretsTypeOK ==
    /\ registries \in [Keys -> Values]
    /\ vault \in [Keys -> Values]
    /\ request \in [Requests -> {Idle} \cup Serving]
    /\ \A r, q \in Requests : r # q /\ request[r] # Idle /\ request[q] # Idle =>
           DOMAIN request[r].writes \cap DOMAIN request[q].writes = {}
    /\ late \subseteq Keys \X Values
    /\ doubtful \subseteq Keys
    /\ arrived \in 0 .. MaxRequests
    /\ faults \in 0 .. MaxFaults

\* Any catalog whose registries have their secrets.
SecretsInit == /\ registries \in [Keys -> Values]
               /\ vault = registries
               /\ request = [r \in Requests |-> Idle]
               /\ late = {}
               /\ doubtful = {}
               /\ arrived = 0
               /\ faults = 0

-----------------------------------------------------------------------------
Busy == {r \in Requests : request[r] # Idle}

\* A row that another transaction has changed and not committed.
Held(r, k) == \E q \in Busy \ {r} : k \in DOMAIN request[q].writes

\* The row as the request's transaction sees it.
Seen(r, k) == IF k \in DOMAIN request[r].writes THEN request[r].writes[k]
                                                ELSE registries[k]

\* The rows whose secret the request has written or deleted already.
Called(r) ==
    IF request[r] = Idle \/ request[r].pc = "abandoned" THEN {}
    ELSE DOMAIN request[r].writes
             \ IF request[r].pc = "vault" THEN {Head(request[r].todo)} ELSE {}

Fault == faults < MaxFaults /\ faults' = faults + 1

\* rollbackTransaction: rows are as they were, secrets are not.
Rollback(r, torn) ==
    /\ request' = [request EXCEPT ![r] = Idle]
    /\ doubtful' = doubtful \cup Called(r) \cup torn
    /\ UNCHANGED registries

\* What a call that was answered by an error did: nothing, what it was asked
\* to, or that later (the HTTP client gives up after ten seconds).
FailedCall(k, value) ==
    \/ UNCHANGED <<vault, late>>
    \/ vault' = [vault EXCEPT ![k] = value] /\ UNCHANGED late
    \/ late' = late \cup {<<k, value>>} /\ UNCHANGED vault

Torn(k) == IF vault' # vault \/ late' # late THEN {k} ELSE {}

-----------------------------------------------------------------------------
(* Requests.                                                               *)

\* CreateRegistry, UpdateRegistry, DeleteRegistry, and the registries of a
\* last upload.
Arrive(r) ==
    /\ request[r] = Idle
    /\ arrived < MaxRequests
    /\ arrived' = arrived + 1
    /\ \E k \in Keys, c \in Contents :
           \/ \E op \in {"create", "update", "delete"} :
                  request' = [request EXCEPT
                      ![r] = [pc |-> "row", op |-> op, todo |-> <<k>>,
                              value |-> IF op = "delete" THEN None ELSE c,
                              writes |-> NoWrites]]
           \/ \E n \in Names \ {k[2]} :
                  request' = [request EXCEPT
                      ![r] = [pc |-> "query", op |-> "load", todo |-> <<k, <<k[1], n>>>>,
                              value |-> c, writes |-> NoWrites]]
    /\ UNCHANGED <<registries, vault, late, doubtful, faults>>

\* loadRegistry asks whether the row is there, and creates or updates it.
QueryRow(r) ==
    /\ request[r].pc = "query"
    /\ request' = [request EXCEPT
           ![r].pc = "row",
           ![r].op = IF Seen(r, Head(request[r].todo)) = None THEN "create" ELSE "update"]
    /\ UNCHANGED <<registries, vault, late, doubtful, arrived, faults>>

\* A statement waits for the transaction that holds a row it can see; an
\* insert also for one that inserted the same key.
Blocked(r) ==
    LET k == Head(request[r].todo)
    IN  /\ request[r].pc = "row"
        /\ Held(r, k)
        /\ request[r].op = "create" \/ registries[k] # None

\* Mutant: the row is not locked.
WriteRowUnlocked(r) ==
    LET k == Head(request[r].todo)
        exists == Seen(r, k) # None
    IN  /\ request[r].pc = "row"
        /\ IF exists = (request[r].op = "create")
           THEN Rollback(r, {})
           ELSE /\ request' = [request EXCEPT ![r].pc = "vault",
                                  ![r].writes = [w \in DOMAIN @ \cup {k} |->
                                                    IF w = k THEN request[r].value ELSE @[w]]]
                /\ UNCHANGED <<registries, doubtful>>
        /\ UNCHANGED <<vault, late, arrived, faults>>

\* Mutant: an update does not call Vault.
WriteRowWithoutSecret(r) ==
    LET k == Head(request[r].todo)
        exists == Seen(r, k) # None
    IN  /\ request[r].pc = "row"
        /\ ~Blocked(r)
        /\ IF exists = (request[r].op = "create")
           THEN Rollback(r, {})
           ELSE /\ request' = [request EXCEPT
                       ![r].pc = IF request[r].op = "update" /\ Len(request[r].todo) = 1
                                 THEN "commit" ELSE "vault",
                       ![r].writes = [w \in DOMAIN @ \cup {k} |->
                                         IF w = k THEN request[r].value ELSE @[w]]]
                /\ UNCHANGED <<registries, doubtful>>
        /\ UNCHANGED <<vault, late, arrived, faults>>

\* The insert, update or delete.  A row that is there already, or is not, ends
\* the request.
WriteRow(r) ==
    LET k == Head(request[r].todo)
        exists == Seen(r, k) # None
    IN  /\ request[r].pc = "row"
        /\ ~Blocked(r)
        /\ IF exists = (request[r].op = "create")
           THEN Rollback(r, {})
           ELSE /\ request' = [request EXCEPT ![r].pc = "vault",
                                  ![r].writes = [w \in DOMAIN @ \cup {k} |->
                                                    IF w = k THEN request[r].value ELSE @[w]]]
                /\ UNCHANGED <<registries, doubtful>>
        /\ UNCHANGED <<vault, late, arrived, faults>>

\* On to the next registry of an upload, or to the commit.
Advance(r) ==
    request' = [request EXCEPT
        ![r].todo = Tail(@),
        ![r].pc = IF Len(request[r].todo) = 1 THEN "commit" ELSE "query"]

\* SecretServiceFactory fails.
LoginFails(r) ==
    /\ request[r].pc = "vault"
    /\ Fault
    /\ Rollback(r, {})
    /\ UNCHANGED <<vault, late, arrived>>

WriteSecret(r) ==
    LET k == Head(request[r].todo)
    IN  /\ request[r].pc = "vault"
        /\ request[r].op # "delete"
        /\ vault' = [vault EXCEPT ![k] = request[r].value]
        /\ doubtful' = doubtful \ {k}
        /\ Advance(r)
        /\ UNCHANGED <<registries, late, arrived, faults>>

WriteSecretFails(r) ==
    LET k == Head(request[r].todo)
    IN  /\ request[r].pc = "vault"
        /\ request[r].op # "delete"
        /\ Fault
        /\ FailedCall(k, request[r].value)
        /\ Rollback(r, Torn(k))
        /\ UNCHANGED arrived

\* A status that says the secret was not deleted is not looked at.
DeleteSecret(r) ==
    LET k == Head(request[r].todo)
    IN  /\ request[r].pc = "vault"
        /\ request[r].op = "delete"
        /\ \/ vault' = [vault EXCEPT ![k] = None] /\ UNCHANGED <<doubtful, faults>>
           \/ Fault /\ doubtful' = doubtful \cup {k} /\ UNCHANGED vault
        /\ Advance(r)
        /\ UNCHANGED <<registries, late, arrived>>

\* DeleteRegistry returns and does not end its transaction.
DeleteSecretFails(r) ==
    LET k == Head(request[r].todo)
    IN  /\ request[r].pc = "vault"
        /\ request[r].op = "delete"
        /\ Fault
        /\ FailedCall(k, None)
        /\ doubtful' = doubtful \cup Torn(k)
        /\ request' = [request EXCEPT ![r].pc = "abandoned"]
        /\ UNCHANGED <<registries, arrived>>

\* Mutant: the transaction does not depend on the request's context.
ContextNeverEnds(r) == request[r].pc = "abandoned" /\ FALSE /\ UNCHANGED svars

\* The context of a request ends when its handler has returned, and database/sql
\* rolls back the transaction of an ended context.
ContextEnds(r) ==
    /\ request[r].pc = "abandoned"
    /\ Rollback(r, {})
    /\ UNCHANGED <<vault, late, arrived, faults>>

Commit(r) ==
    /\ request[r].pc = "commit"
    /\ registries' = [k \in Keys |-> Seen(r, k)]
    /\ request' = [request EXCEPT ![r] = Idle]
    /\ UNCHANGED <<vault, late, doubtful, arrived, faults>>

\* The commit fails, or what an upload loads after its registries.
CommitFails(r) ==
    /\ request[r].pc \in {"query", "commit"}
    /\ DOMAIN request[r].writes # {}
    /\ Fault
    /\ Rollback(r, {})
    /\ UNCHANGED <<vault, late, arrived>>

\* The database ends one of two transactions that wait for each other.
DeadlockDetected(r) ==
    /\ Blocked(r)
    /\ \E q \in Busy \ {r} : /\ Blocked(q)
                             /\ Head(request[r].todo) \in DOMAIN request[q].writes
                             /\ Head(request[q].todo) \in DOMAIN request[r].writes
    /\ Rollback(r, {})
    /\ UNCHANGED <<vault, late, arrived, faults>>

\* A call that timed out reaches Vault.
LateCall(call) ==
    /\ call \in late
    /\ vault' = [vault EXCEPT ![call[1]] = call[2]]
    /\ late' = late \ {call}
    /\ doubtful' = doubtful \cup {call[1]}
    /\ UNCHANGED <<registries, request, arrived, faults>>

-----------------------------------------------------------------------------
Proceed(r) == \/ QueryRow(r)
              \/ WriteRow(r)
              \/ WriteSecret(r)
              \/ DeleteSecret(r)
              \/ ContextEnds(r)
              \/ Commit(r)
              \/ DeadlockDetected(r)

Serve(r) == \/ Arrive(r)
            \/ Proceed(r)
            \/ LoginFails(r)
            \/ WriteSecretFails(r)
            \/ DeleteSecretFails(r)
            \/ CommitFails(r)

SecretsNext == \/ \E r \in Requests : Serve(r)
               \/ \E call \in late : LateCall(call)

\* Handlers go on.  Waiters get a lock in turn, so a statement that can go on
\* again and again does.  gRPC ends the context of a request after its handler
\* has returned.  Nobody has to send requests.
SecretsSpec == /\ SecretsInit
               /\ [][SecretsNext]_svars
               /\ \A r \in Requests : WF_svars(Proceed(r)) /\ SF_svars(WriteRow(r))

-----------------------------------------------------------------------------
\* The secret of a key is that of the committed row, or what the request wrote
\* that has called Vault for the key and has not committed yet.
Agrees(k) ==
    LET callers == {r \in Requests : k \in Called(r)}
    IN  IF callers = {} THEN vault[k] = registries[k]
        ELSE \A r \in callers : vault[k] = request[r].writes[k]

\* Rows and secrets agree whatever requests interleave, unless Vault or a commit
\* failed for the key; the next write repairs it (createRegistry, updateRegistry
\* and DeleteRegistry call Vault while they hold the row).
SecretsAgree == \A k \in Keys \ doubtful : Agrees(k)

\* Every request ends and lets go of its rows, although DeleteRegistry returns
\* without ending its transaction when Vault fails.
RequestsEnd == \A r \in Requests : request[r] # Idle ~> request[r] = Idle
=============================================================================
