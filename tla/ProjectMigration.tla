-------------------------- MODULE ProjectMigration --------------------------
(***************************************************************************)
(* The start of the server (manager.go) and the move of everything that    *)
(* belongs to the project "default" to a project of its own                *)
(* (migration.go), composed with the requests of RegistrySecrets that are  *)
(* served afterwards.                                                      *)
(*                                                                         *)
(* The migration opens a transaction, but reads and writes outside of it:  *)
(* every update is committed by itself, and secrets are moved one by one.  *)
(* The server may crash at any point and then starts again.                *)
(***************************************************************************)
EXTENDS RegistrySecrets, Functions

CONSTANTS
    OldProject,     \* "default": also the project of requests that name none
    NewProject,     \* DefaultProjectUUID
    MaxCrashes      \* bound on crashes

ASSUME ProjectsDiffer == /\ OldProject \in Projects
                         /\ NewProject \in Projects
                         /\ OldProject # NewProject

ASSUME CrashesAreCounted == MaxCrashes \in Nat

\* The tables that are updated after the registries, in this order.
Tables == <<"artifacts", "applications", "packages">>

VARIABLES
    server,     \* the step of Start and of the migration, or "serving"
    moving,     \* names of registries whose secret is still to be moved
    current,    \* the one whose secret is being moved, with the secret
    left,       \* other tables that have rows of the old project
    migration,  \* how the last migration ended
    unsettled,  \* names that were in use while a migration was half done
    crashes     \* crashes so far

mvars == <<server, moving, current, left, migration, unsettled, crashes>>

vars == <<svars, mvars>>

Old(n) == <<OldProject, n>>
New(n) == <<NewProject, n>>

NoSecret == [name |-> None, secret |-> None]

\* The types, and what Start guarantees: no request is served while it migrates.
TypeOK ==
    /\ SecretsTypeOK
    /\ server # "serving" => Busy = {}
    /\ server \in {"starting", "login", "read", "write", "delete", "registries",
                   "commit", "serving"} \cup Range(Tables)
    /\ moving \subseteq Names
    /\ current \in {NoSecret} \cup [name : Names, secret : Contents]
    /\ left \subseteq Range(Tables)
    /\ migration \in {"failed", "done"}
    /\ unsettled \subseteq Names
    /\ crashes \in 0 .. MaxCrashes

\* The server starts on a catalog of the version before, in which every table
\* has rows of the old project.
Init == /\ SecretsInit
        /\ server = "starting"
        /\ moving = {}
        /\ current = NoSecret
        /\ left = Range(Tables)
        /\ migration = "failed"
        /\ unsettled = {}
        /\ crashes = 0

-----------------------------------------------------------------------------
(* The migration.  An error is logged, and the server starts all the same. *)

Fails == server' = "serving" /\ migration' = "failed"

\* The registries of the old project are listed.
StartMigration ==
    /\ server = "starting"
    /\ moving' = {n \in Names : registries[Old(n)] # None}
    /\ server' = "login"
    /\ UNCHANGED <<svars, current, left, migration, unsettled, crashes>>

Login ==
    /\ server = "login"
    /\ \/ server' = "read" /\ UNCHANGED <<migration, faults>>
       \/ Fault /\ Fails
    /\ UNCHANGED <<registries, vault, request, late, doubtful, arrived,
                   moving, current, left, unsettled, crashes>>

\* Mutant: the old secret is deleted before the new one is written.
ReadAndDeleteOldSecret(n) ==
    /\ server = "read"
    /\ n \in moving
    /\ moving' = moving \ {n}
    /\ IF vault[Old(n)] = None THEN UNCHANGED <<vault, current, server>>
       ELSE /\ current' = [name |-> n, secret |-> vault[Old(n)]]
            /\ vault' = [vault EXCEPT ![Old(n)] = None]
            /\ server' = "write"
    /\ UNCHANGED <<registries, request, late, doubtful, arrived, faults,
                   left, migration, unsettled, crashes>>

\* The secret of the next registry, in any order.  One that is not there or
\* cannot be read is passed over.
ReadOldSecret(n) ==
    /\ server = "read"
    /\ n \in moving
    /\ moving' = moving \ {n}
    /\ \/ /\ vault[Old(n)] # None
          /\ current' = [name |-> n, secret |-> vault[Old(n)]]
          /\ server' = "write"
          /\ UNCHANGED <<doubtful, faults>>
       \/ /\ vault[Old(n)] = None
          /\ UNCHANGED <<current, server, doubtful, faults>>
       \/ /\ Fault
          /\ doubtful' = doubtful \cup {Old(n)}
          /\ UNCHANGED <<current, server>>
    /\ UNCHANGED <<registries, vault, request, late, arrived,
                   left, migration, unsettled, crashes>>

\* The new key may be that of another registry of the same name, which the
\* update of the registries will meet.
WriteNewSecret ==
    LET n == current.name
    IN  /\ server = "write"
        /\ \/ /\ vault' = [vault EXCEPT ![New(n)] = current.secret]
              /\ doubtful' = doubtful \ {New(n)}
              /\ server' = "delete"
              /\ UNCHANGED <<current, late, faults>>
           \/ /\ Fault
              /\ FailedCall(New(n), current.secret)
              /\ doubtful' = doubtful \cup {Old(n), New(n)}
              /\ server' = "read"
              /\ current' = NoSecret
        /\ unsettled' = IF registries[New(n)] = None THEN unsettled
                        ELSE unsettled \cup {n}
        /\ UNCHANGED <<registries, request, arrived, moving, left, migration, crashes>>

DeleteOldSecret ==
    LET n == current.name
    IN  /\ server = "delete"
        /\ \/ /\ vault' = [vault EXCEPT ![Old(n)] = None]
              /\ UNCHANGED <<doubtful, late, faults>>
           \/ /\ Fault
              /\ FailedCall(Old(n), None)
              /\ doubtful' = doubtful \cup {Old(n)}
        /\ server' = "read"
        /\ current' = NoSecret
        /\ UNCHANGED <<registries, request, arrived,
                       moving, left, migration, unsettled, crashes>>

SecretsMoved ==
    /\ server = "read"
    /\ moving = {}
    /\ server' = "registries"
    /\ UNCHANGED <<svars, moving, current, left, migration, unsettled, crashes>>

\* One update moves all rows, and fails where a row would get the key of
\* another one.
UpdateRegistries ==
    LET both == {n \in Names : registries[Old(n)] # None /\ registries[New(n)] # None}
    IN  /\ server = "registries"
        /\ \/ /\ both = {}
              /\ registries' = [k \in Keys |->
                     CASE k[1] = OldProject -> None
                       [] k[1] = NewProject /\ registries[Old(k[2])] # None ->
                              registries[Old(k[2])]
                       [] OTHER -> registries[k]]
              /\ doubtful' = doubtful \cup
                     {New(n) : n \in {m \in Names : /\ registries[Old(m)] # None
                                                   /\ Old(m) \in doubtful}}
              /\ server' = Head(Tables)
              /\ UNCHANGED <<migration, faults>>
           \/ both # {} /\ Fails /\ UNCHANGED <<registries, doubtful, faults>>
           \/ Fault /\ Fails /\ UNCHANGED <<registries, doubtful>>
        /\ UNCHANGED <<vault, request, late, arrived,
                       moving, current, left, unsettled, crashes>>

\* Mutant: the packages stay.
UpdateTableButPackages(i) ==
    /\ server = Tables[i]
    /\ \/ /\ left' = left \ ({Tables[i]} \ {"packages"})
          /\ server' = IF i = Len(Tables) THEN "commit" ELSE Tables[i + 1]
          /\ UNCHANGED <<migration, faults>>
       \/ Fault /\ Fails /\ UNCHANGED left
    /\ UNCHANGED <<registries, vault, request, late, doubtful, arrived,
                   moving, current, unsettled, crashes>>

\* migrateArtifacts, migrateApplications, migratePackages; a name that the new
\* project has too makes them fail.
UpdateTable(i) ==
    /\ server = Tables[i]
    /\ \/ /\ left' = left \ {Tables[i]}
          /\ server' = IF i = Len(Tables) THEN "commit" ELSE Tables[i + 1]
          /\ UNCHANGED <<migration, faults>>
       \/ Fault /\ Fails /\ UNCHANGED left
    /\ UNCHANGED <<registries, vault, request, late, doubtful, arrived,
                   moving, current, unsettled, crashes>>

\* The transaction that was opened first, and did nothing.
CommitMigration ==
    /\ server = "commit"
    /\ \/ server' = "serving" /\ migration' = "done" /\ UNCHANGED faults
       \/ Fault /\ Fails
    /\ UNCHANGED <<registries, vault, request, late, doubtful, arrived,
                   moving, current, left, unsettled, crashes>>

-----------------------------------------------------------------------------
(* The server.                                                             *)

\* Requests are served once the migration has ended.  Secrets that they
\* change while a migration is half done are not settled by the next one.
ServeRequest(r) ==
    /\ server = "serving"
    /\ Serve(r)
    /\ unsettled' = IF migration = "done" THEN unsettled
                    ELSE unsettled \cup {n \in Names : \E p \in Projects :
                             \/ vault'[<<p, n>>] # vault[<<p, n>>]
                             \/ registries'[<<p, n>>] # registries[<<p, n>>]}
    /\ UNCHANGED <<server, moving, current, left, migration, crashes>>

\* Mutant: requests go on while the new server migrates.
CrashKeepsRequests ==
    /\ crashes < MaxCrashes
    /\ crashes' = crashes + 1
    /\ server' = "starting"
    /\ moving' = {}
    /\ current' = NoSecret
    /\ UNCHANGED <<svars, left, migration, unsettled>>

\* The server ends, whatever it is doing, and is started again: transactions
\* are rolled back, secrets are as they were left.
Crash ==
    /\ crashes < MaxCrashes
    /\ crashes' = crashes + 1
    /\ server' = "starting"
    /\ moving' = {}
    /\ current' = NoSecret
    /\ request' = [r \in Requests |-> Idle]
    /\ doubtful' = doubtful \cup UNION {Called(r) : r \in Requests}
    /\ UNCHANGED <<registries, vault, late, arrived, faults, left, migration, unsettled>>

Migrate == \/ StartMigration
           \/ Login
           \/ \E n \in Names : ReadOldSecret(n)
           \/ WriteNewSecret
           \/ DeleteOldSecret
           \/ SecretsMoved
           \/ UpdateRegistries
           \/ \E i \in DOMAIN Tables : UpdateTable(i)
           \/ CommitMigration

Next == \/ \E r \in Requests : ServeRequest(r)
        \/ \E call \in late : LateCall(call) /\ UNCHANGED mvars
        \/ Migrate
        \/ Crash

Spec == Init /\ [][Next]_vars

-----------------------------------------------------------------------------
\* After a migration that returned no error rows and secrets agree as they do
\* without it, however often it was interrupted or failed before, unless Vault
\* failed for the key, requests used the name while the migration was half
\* done, or both projects had the name (migrateSecret, migrateRegistries).
MigratedSecretsAgree ==
    server = "serving" /\ migration = "done" =>
        \A k \in Keys \ doubtful : k[2] \notin unsettled => Agrees(k)

\* When a migration returns no error nothing of the old project is left, with
\* whatever earlier attempts did (migrate).
MigrationLeavesNothing ==
    [][server = "commit" /\ migration' = "done" =>
          /\ left' = {}
          /\ \A n \in Names : registries'[Old(n)] = None]_vars
=============================================================================
