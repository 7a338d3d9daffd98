# A verification project for the application catalog

This directory holds TLA+ models of the application catalog (`app-orch-catalog`):
the store of registries, artifacts, applications and deployment packages behind
its gRPC service, the credentials of registries in Vault, the watch streams that
announce changes and the web-socket sessions that relay them, upload sessions, the
start of the server with its migration, the project wiper, and the page
arithmetic of listings. TLC checks them on small instances, TLAPS proves their
safety properties and refinements for every instance. `PROJECT.json` maps every
definition to the lines it models and lists runs, mutants, findings, hazards and
theorems.

## The system

| Component | State | Operations | Hard behaviour |
|---|---|---|---|
| Registries (`northbound/registry.go`, `vault.go`) | rows, secrets in Vault | create, update, delete, list, get, watch | checks and writes of overlapping requests; Vault outside the transaction |
| Artifacts (`artifact.go`) | rows | the same | deletion relies on foreign keys alone |
| Applications (`application.go`, `profile.go`) | rows, profiles, templates | the same | change detection against deployed packages; join rows that cascade |
| Deployment packages (`deployment-package.go`, `deployment-profile.go`) | rows, references, deployed state | the same | root record updated by name, references by id; kind and deployed state on a path of their own |
| Transactions (`service.go`, `ent/schema`) | PostgreSQL | begin (READ COMMITTED), commit, rollback | stale reads; constraints decide what the checks leave open |
| Events and listeners (`events.go`, `listeners.go`) | four maps of channels under one RWMutex | add, delete, send to all | unbuffered sends under a read lock |
| Watch streams (the `Watch*` handlers) | a channel per stream | replay, register, forward, remove | replay against registration; streams that end |
| Listings (`service.go`, `get*`) | none | page ranges, filters, orders | int32 arithmetic |
| Project wiper (`pkg/wiper`) | none | sweep and delete a project | loops over pages; failing deletions |
| Upload sessions (`upload.go`, `pkg/schema/upload`) | sessions with their uploads and events | upload, last upload | many entities in one transaction; retries |
| Web-socket sessions (`restproxy/session.go`, `event-handler.go`) | subscriptions | subscribe, unsubscribe, relay, ping | goroutines that share a socket and wait for each other |
| Project migration (`manager/migration.go`), manager | none | rename a project's rows and secrets before serving | writes outside the transaction it opens; crashes between them |
| Malware scanner, authorization, schema validator, generators, REST proxy, clients | none of interest | | they refuse requests or convert data |

Requests arrive concurrently. A handler opens a READ COMMITTED transaction,
reads, checks, writes and commits (registry handlers also talk to Vault), and
after the commit gives its events to the listeners, which are the channels of
the Watch streams. The wiper, the REST proxy and its web-socket sessions are
clients of the gRPC service.

What makes each component correct:

* store: references lead to rows, stay inside a project and survive overlapping
  requests; names identify; what is deployed or in use is neither deleted nor
  changed; display names are unique;
* secrets: every registry has the secret that was given with its row, whatever
  requests overlap, and requests let go of their rows;
* migration: nothing stays behind, however often it was interrupted;
* events: a registered stream gets what it asked for, once and in order; senders
  and streams make progress; the maps hold the channels of live streams;
* pages: inside the listing, no larger than asked for, and complete together;
* uploads: all files of a session or none, in an order that resolves, in the
  session's project, and announced once committed;
* web-socket sessions: one writer at a time, a live watch per subscribed kind,
  every message answered, every event in hand relayed, no watch left that nobody
  wants;
* wiper: an end, and no silence about what it could not delete.

## Modules

| Module | Contents |
|---|---|
| `CatalogStore` | the four tables with their constraints, and the create, update and delete handlers |
| `MCCatalogStore` | the contents requests come with, and the symmetry set |
| `CatalogStoreProofs` | types, references, projects, names; the handlers' checks, one request at a time |
| `EventListeners` | senders, Watch handlers and the RWMutex between them |
| `EventFeed` | abstract: what a stream promises its client |
| `MCEventListeners` | small sets of changes and requests |
| `EventListenersProofs` | the lock discipline, delivery, the refinement of `EventFeed` |
| `Paging` | `computePageRange`, the page loops and a client that sweeps |
| `MCPaging` | its instance |
| `PagingProofs` | bounds and completeness |
| `UploadSession` | upload sessions, the order of specs, the transaction of a last upload |
| `AtomicUpload` | abstract: all entities of a session enter the catalog in one step |
| `MCUploadSession` | small files and archives |
| `UploadSessionProofs` | types, the order of loading, references, announcements, the refinement of `AtomicUpload` |
| `RegistrySecrets` | registry requests with Vault inside their transactions |
| `RegistrySecretsProofs` | types, rows and secrets agree |
| `ProjectMigration` | start, migration, crashes and restarts, composed with `RegistrySecrets` |
| `ProjectMigrationProofs` | types, moved secrets, a migration that is complete |
| `WatchSession` | a web-socket session with its goroutines |
| `WatchSessionProofs` | types, the lock of the socket, subscriptions |
| `ProjectWiper` | the gRPC wiper against a catalog that others use; takes its pages from `Paging` |
| `ProjectWiperProofs` | types, nothing passed over, what a quiet wipe leaves |
| `MCRegistrySecrets`, `MCProjectMigration`, `MCWatchSession`, `MCProjectWiper` | their instances |

### CatalogStore

`registries`, `artifacts`, `applications` and `packages` map row ids to rows;
`tx` maps each handler to its pending transaction. A handler takes two steps.
`Begin...` stands for everything up to the last check: it reads the committed
tables, applies the code's conditions and remembers what it read. A request that
fails a check has no step, since it changes nothing. `Commit...` stands for the
writes and the COMMIT. PostgreSQL holds the locks of a write (row, unique key,
foreign key) until the transaction ends, so constraints that hold when the
statement runs hold at the commit. `Rollback` may happen at any time.

The schema's constraints are guards and effects of the commits: the unique
indexes (`Named`, `NamedVersion`), NO ACTION (an application's helm registry, a
package's artifacts, the applications its dependencies and namespaces name),
SET NULL (an application's image registry) and CASCADE (the rows of the
package-application join table).

Abstractions:

* all reads of one request see one committed state (READ COMMITTED lets each
  statement see a newer one; the checks that matter are single statements, and
  what follows them is written under constraints);
* `Contents` stands for description, chart, default profile, extensions,
  namespaces and their like, as far as the change detection compares them. A
  refusal that depends on them is a `Rollback`;
* profiles are sets of names with contents, which stand for what is in them:
  values, parameter templates and requirements of an application's profile, the
  application profiles that a deployment profile names. `profilesChanged` is
  what the code counts as a change: added profiles are none, so an update writes
  them for applications and packages that are deployed. Refusals of profiles
  that are in use are `Rollback`s;
* ignored resources are a set that an update replaces when one is given and it
  differs; `changed` does not ask for it, so this too is written for an
  application of a deployed package. An update of the kind alone drops all of the
  rest (`CommitUpdateApplicationKind`);
* display names are taken up to letter case, as `display_name_lc` compares them;
* a request's references are any subset of the rows of its project: names that
  are not found are refused by the code. `pinned` is the set of applications
  that dependencies and default namespaces name;
* Vault, events, malware scan and authorization are left out. They refuse
  requests or come after the commit;
* one entity is written per transaction. An upload writes many (`UploadSession`).

### EventListeners

`log` is the sequence of committed changes with the handler that made them.
A sender goes through `CommitChanges`, then for each event `RLock`,
`RangeListeners` (a map is ranged over in any order), a `SendEvent` for each
matching channel, and `RUnlock`. A watcher goes through `StartWatch`,
`FinishReplay`, `AnnounceWriter`, `AddListener`, `CommitReplay`, and then
`ForwardEvent` for each event until a forward fails and it removes itself with
`AnnounceWriter` and `DeleteListener`. `SendEvent` is the rendezvous on the
unbuffered channel. The lock is Go's `sync.RWMutex`: a writer announces itself
and keeps later readers out, waits for the readers before it, and on unlocking
lets the queued readers in.

`connected` holds the streams whose context has not ended. A forward fails
exactly when it has ended; so does the commit of the replay's transaction
(`database/sql` refuses to commit under an ended context), and then the handler
returns before it has deferred the removal of its listener. The database is
assumed to serve connected streams. Which entities are replayed is left out;
`registered` remembers how long `log` was when the channel was added. Only the kinds of applications and packages are filtered, and a deleted
event carries no kind.

### Paging

The limits 500 (page), 20 (default) and 2^31 (int32) are parameters. TLC runs
all requests with limits 5, 3 and 16; the theorems hold for all of them. Sums of
two int32 numbers wrap. The number of rows fits int32, as the answer's field
demands, and the listing does not change during a sweep.

### UploadSession

`sessions` are the sessions of the server: project, uploads, queued events and
the holder of the session's lock. `request` are the requests being served. A
request finds or makes its session (`newSession`, `getSession`), takes the lock
(`LockSession`), is refused by the scanner (`RefuseUpload`) or appends its upload
(`AddUpload`). A last upload (`AddLastUpload`) turns all uploads into file sets,
ranges over the files of each in any order and sorts their specs. `LoadSpec`
creates or updates one entity after the other; `RollbackUpload`, possible at any
time, stands for every refusal and failure; `CommitUpload` publishes the writes
and `SendEvents` announces the session's queues.

`RefTypes` says what a spec of a type can name: an application its registries and
the packages its profiles require, a package its applications and artifacts.
`Archives` and `BaseFileSet` split the uploads into file sets. `Less` and the
insertion sort (what `sort.Sort` is for up to twelve specs) are operators; `Sort`
is written as a recursive function, so that it can be reasoned about.
`DefinedBeforeUse` excepts a package that an application requires: it is sorted
behind the application. `catalog` holds a kind, a content, ignored resources and
references per entity; what else the entities' handlers check is in
`CatalogStore`. When the kind differs and nothing that counts as a change does
(`KindAlone`: `compared` fields are equal, profiles at most added, and the
references that are compared the same), an update writes the kind alone, queues
no event and succeeds: added profiles, another registry and other ignored
resources of the spec are dropped (`LoadedRow`). Only what the update looks up
has to be there for it (`LookedUp`). The transaction sees committed
rows and its own; rows it wrote are locked for other uploads, and rows it wrote
or refers to for deletions (`DeleteEntity`), as PostgreSQL does. `announced` is
the set of contents that were sent: how often and in which order is left to
`EventListeners`; events carry the content of the spec. The kind of a spec is
never blank (a document's kind is converted with `kindFromDB`, for which blank is
normal). Deployed state is left out: an upload always sends a package that is not
deployed, and who else sets the state is in `CatalogStore`. Specs of packages are
taken to give the display name, which is compared as it came. Values files,
extensions and the like are part of a content; a values file that is missing is a
refusal.

### The abstract specifications

`EventFeed` knows publishers, clients and a log: a client that has joined gets the
changes it wants, each once, those of one publisher in order and without a gap.
`EventListeners!Feed` maps a stream to a joined client from `AddListener` until
its handler returns; every step of locks and channels is then a stutter or one of
the feed's steps. `AtomicUpload` has sessions with what their files describe and a
step that applies all of it: each entity takes kind, content and ignored resources
from what the session says of it, but an entity of which nothing that is said
counts as a change may keep its content and ignored resources and take the kind
alone (`Stays`). `UploadSession!Upload` maps the catalog to kinds, contents and
ignored resources, without references, and a session to the specs of its file
sets, so that `CommitUpload` is `Apply` and `LoadSpec`, locks and rollbacks are
stutters.

### RegistrySecrets

A content stands for what one request gave a registry: the row in `registries`
and the secret in `vault`, by project and name. A request writes its row
(`WriteRow`; it waits for the transaction that holds the row, and ends if the row
is or is not there), calls Vault (`WriteSecret`, `DeleteSecret`) and commits; an
upload does so for two registries in either order, after a query that decides
between creation and update (`QueryRow`). Two transactions that wait for each
other are ended by the database (`DeadlockDetected`).

Faults: the login fails; a call fails without effect, with its effect, or takes
effect later (`LateCall`: the HTTP client gives up after ten seconds);
`DeleteSecret` ignores the status of the answer; the commit fails, or what an
upload loads after its registries. `doubtful` remembers the keys such a failure
left in doubt, and `WriteSecret` settles its key. `DeleteSecretFails` leaves the transaction
open, as the code does, until the request's context ends (`ContextEnds`).

### ProjectMigration

`server` is the step of `Start` and of the migration, or `"serving"`. The
migration reads the registries, moves the secrets one by one (`ReadOldSecret`,
`WriteNewSecret`, `DeleteOldSecret`, whose failures are suppressed), and updates
the four tables, each in a statement that commits by itself: the transaction that
`run` opens carries none of them. An error is logged and the server serves
all the same. `Crash` may happen at any step and starts the server again. The rows
of the other tables are represented by whether the old project has any (`left`).
`unsettled` holds names whose secret or row changed while a migration was half
done, and names both projects have.

### WatchSession

One session: the select loop (`main`), `receive`, `ping`, the watches in the order
they were started, and the mutex of the socket. A watch has the events the catalog
has sent it, those of its project, or of all for the blank one (`AnyProject`;
`listeners.go`); a cancelled stream may still deliver some, and a stream can fail
by itself at any time (`"broken"`). Messages carry an op, a kind, one of which no
watch exists for, and a project. Cancellations are kept by kind, as in the code:
`addSubscription` answers "subscribed" for any project and starts a watch only
for the first. `answered` holds the projects a client was told. A write can
miss its deadline; the client is then `"stuck"`, since the web-socket library
fails every write after one that failed, and what is written is lost
(`WriteFails`). Sessions share nothing but the map they are added to. The end of
a session has no action: `start` waits for `ping`, which waits for a context that
`start` cancels afterwards, and the `break` for `done` leaves only the `select`.

### ProjectWiper

`store` holds the entities of a project with what they refer to. `Wipe` goes
through its loops; each call is a step, so that other clients (`OtherCreates`,
`OtherDeploys`) come between any two. A listing has no order: `List` returns any
rows, as many as `Paging!Page` says. `Refused` is what the catalog refuses to
delete, by check or by foreign key, requirements of applications included.

## Runs

Passing runs:

| Run | Shows | Bounds |
|---|---|---|
| `StoreConcurrent` | `TypeOK`, `ReferentialIntegrity`, `NamesIdentify` with two overlapping requests | two registry and package ids, so that rows can be deleted and created again behind a transaction's back; one id otherwise; an ignored resource to set |
| `StoreRules` | `RegistryTypesFitUse`, `UsedRegistriesStay`, `DeployedPackagesStay`, `DeployedPackagesFrozen`, `DeployedContentFrozen`, `ReferencedApplicationsStay` | one request at a time; two registries that can take each other's name and place, an application, a package, two kinds and the blank one; requests that differ in the content or in a profile more (`PackageContents`, `ApplicationContents`), so that each clause of the properties of deployed packages has something to change |
| `ListenersDelivery` | `TypeOK`, `SendersUseRegisteredChannels`, `RegisteredMissNothing`, `ImplementsEventFeed` | two senders, two streams with different filters, one of whose clients goes away at any time, three changes (a deletion among them), batches of two |
| `ListenersProgress` | `EverySenderReturns`, `WatchersRegister` | two changes, clients stay |
| `UploadSessions` | `TypeOK`, `DefinedBeforeUse`, `UploadedReferencesLead`, `CommittedIsAnnounced`, `ImplementsAtomicUpload`, `UploadsStayInProject` | two requests, two sessions of two uploads, two projects; files that need each other, an application that requires the package, the same with another kind, a profile more and an ignored resource, a file uploaded twice, an archive |
| `PagingSweep` | `PageInBounds`, `SweepSeesAll`, `SweepEnds` | every int32 of five bits, up to 15 rows |
| `SecretRequests` | `SecretsTypeOK`, `SecretsAgree`, `RequestsEnd` | two requests at a time and three in all, two names and contents, one failure |
| `MigrationSecrets` | `TypeOK`, `MigratedSecretsAgree`, `MigrationLeavesNothing` | two names in two projects, two requests, one failure, two crashes: a migration interrupted, tried again and interrupted again |
| `WatchSessions` | `TypeOK`, `OneWriter`, `SubscribedIsWatched`, `MessagesAnswered`, `UnwantedWatchesEnd`, `EventsRelayed` | three messages, so that a client subscribes to a second project, or unsubscribes and subscribes again; one kind, a project and the blank one, one event; two watches, the ping and the select loop compete for the socket. More kinds, projects and messages are beyond TLC's liveness check; the first three properties are proved for any number |
| `Wiper` | `TypeOK`, `NoErrorMeansWiped`, `OnlyRequiredStay`, `WipeEnds` | all projects with up to three packages, an application, an artifact and a registry, pages of two, one failing call or request of another client |

Two overlapping requests are enough for the races of the store: each is between
one transaction that checked and another that committed. Runs of one request at
a time look for illegal states at the end of long sequences of legal requests.
`RowSymmetry` permutes row ids, handlers, projects and versions, which the handlers
only compare for equality; contents and profiles are no part of it, as the requests
of `StoreRules` do not treat them alike. The
store and the web-socket session are checked for deadlock. The other runs are not:
they stop when the bounded number of changes is delivered or of requests is served,
or the sweep or wipe is over.

One failure is enough to tell what it does to its key; the first failure puts
the key in doubt and a second one could only do so again. `PagingSweep` looks at
one sweep over a listing that stays; `Wiper` at a listing that changes.

Violating runs, each a disagreement between the code and what the repository
says (`findings` quotes the lines):

| Run | Property | What happens |
|---|---|---|
| `FindApplicationUpdate` | `DeployedApplicationsFrozen` | an application of a deployed package moves to another registry: the change detection compares each registry name with itself |
| `FindListenerDeadlock` | `WatchersRegister` | a stream that ends waits for the write lock while a sender waits, under the read lock, for the stream's channel |

### Known deviations without a run

The models reach these states too; no run asserts the contrary:

* an application update asks whether its display name is taken in project `""`
  (`BeginUpdateApplication`), so two applications can get the same one;
* a page whose offset lies beyond half of the listing has all remaining rows,
  whatever its size (`computePageRange`);
* profiles are added to applications of deployed packages, and deployment profiles
  to deployed packages (`ProfilesAfter`). The tests ask for this
  (`DeployedApplicationsFrozen` leaves profiles out), and `DeployedPackagesFrozen`
  and `DeployedContentFrozen` say that nothing is removed or changed in turn;
* the ignored resources of an application of a deployed package are replaced, as the
  change detection leaves them out (`applicationChanged`, application.go:666 and
  :834), which breaks the rule of `FindApplicationUpdate` a second way;
* an update that changes a kind and otherwise adds profiles, moves to another
  registry or ignores other resources writes the kind alone, sends no event and
  reports success (`CommitUpdateApplicationKind`, `KindAlone`); an uploaded
  spec can take effect in part for this reason;
* with two overlapping requests `RegistryTypesFitUse`, `UsedRegistriesStay`,
  `ReferencedApplicationsStay` and `DeployedPackagesStay` fail, as check and
  write are apart (a registry changes its type between an application's lookup
  and its insert, an image registry is set to NULL, a join row cascades away, a
  package becomes deployed before it is deleted);
* an application that requires a package of the same file set is refused unless the
  catalog has the package already: applications are loaded before packages and
  their requirements are looked up at once (`LoadSpec`);
* a last upload that is repeated after a failed one announces what the failed one
  had queued (`SendEvents`), committed or not;
* a stream whose client goes away before the replay's transaction commits leaves
  its channel registered (`CommitReplay`), and the next event for it blocks its
  sender;
* a change whose events are sent between the replay's query and the registration
  reaches the stream neither way (`RegisteredMissNothing` counts from the
  registration);
* a stream that watches kinds hears of no deletion (`eventKind`);
* an upload or request that is rolled back after its Vault call leaves the new
  secret with the old row (`Rollback`); a status that says that a secret was not
  deleted is ignored (`DeleteSecret`), and a failing `DeleteSecret` leaves the
  transaction to the end of the request's context (`DeleteSecretFails`);
* a migration of a name that both projects have overwrites the other secret and
  then fails (`WriteNewSecret`, `UpdateRegistries`); a failed migration is logged
  and the server starts; a secret that cannot be read stays where nothing looks
  for it;
* a second project of a kind that is watched is confirmed with "subscribed" and
  gets no watch (`addSubscription`), and "unsubscribed" ends the one there is,
  whatever project it was for;
* a write that misses its deadline loses its event or answer and all later ones,
  while the session goes on (`WriteFails`);
* a watch whose stream fails by itself keeps its cancellation, so that the client is
  told "subscribed" and nothing is started (`addSubscription`); events between that
  answer and the registration of the watch are missed; no session is ever removed;
* the wiper goes round for ever when as many entities as a page holds are refused
  (`MorePages`), and packages that applications require survive it (`Refused`),
  reported as errors.

Each property of a passing run has a mutant in `PROJECT.json`: a definition
changed as a plausible bug would change it, under which the property fails.

## Fairness

`EventListeners!FairSpec` assumes weak fairness of each sender and each watcher
once it has started: a goroutine that can go on does, a Go mutex does not starve
a waiter, a channel with a sender and a receiver passes a value, and a client
reads its stream or goes away. Nobody has to send requests, to start a watch or
to disconnect. `ListenersProgress` holds only while clients stay: with clients
that go away the code deadlocks, which is what `FindListenerDeadlock` shows under
the same fairness. `Paging!FairSpec` assumes
that a client that sweeps goes on.

`RegistrySecrets!SecretsSpec` assumes that a request that can go on does, that
PostgreSQL gives a row to its waiters in turn (strong fairness of `WriteRow`), and that
gRPC ends the context of a request whose handler has returned, whereupon
`database/sql` rolls its transaction back. No failure has to happen and none has
to stop.

`WatchSession!Spec` assumes weak fairness of the goroutines' steps and strong
fairness of the three ways to take the mutex: a `sync.Mutex` hands itself to a
goroutine that has waited for a millisecond. Nothing makes the client send, read
or leave, a ticker tick, a stream fail or an event occur; a write ends because it
has a deadline, and need not miss it. `EventsRelayed` promises an event that a
watch has in hand to a client that is there and reads, also when the watch is
cancelled meanwhile; what a cancelled or broken stream has buffered may be lost.

`ProjectWiper!Spec` assumes that calls return and the wiper goes on.

## Proofs

Every safety invariant and action property of the passing runs, and both
refinements, are theorems. They hold for every value of the constants under the
named assumptions of the modules:

* names are display names, `"normal"` is a kind, requests come with bodies of the
  right fields, NULLs and `None` are no values,
  nobody is no watcher and no request;
* the bounds of the models are natural numbers, of any size; page limits fit the
  width of the integers, and a page of the wiper holds at least one row;
* streams are finitely many, changes and requests to watch have their fields, and
  requests for registries and artifacts name no kinds;
* kinds with a watch are kinds;
* an upload that is no archive is one file, an archive has finitely many, and
  what files describe are specs, which name what `RefTypes` lets them name;
* the migration's two projects differ;
* a project to wipe has finitely many entities, each of one kind.

The inductive invariants, and why they are needed:

* `CatalogStoreProofs`: `TypeCorrect` is inductive by itself. `ReferencesLead`,
  `ProjectsIsolated` and `NamesUnique` follow from `IInv`, which adds
  `PendingReferences`: the rows a pending transaction resolved may be gone when
  it commits, but those that are left belong to its project. Without it the
  commit of an application could refer to a row of another project; it is
  preserved because no row changes its project and a new row gets an id no
  transaction remembers. There is one step per handler and one per commit, with
  one substep for each conjunct the commit can disturb.

  The properties of the handlers' checks (`TypesFitUse`, `UsedRegistriesAreKept`,
  `ReferencedApplicationsAreKept`, `DeployedPackagesAreKept`,
  `DeployedPackagesOnlyGrow`, `DeployedContentStays`) have the hypothesis
  `OneRequestAtATime`; two overlapping requests break them (see the known
  deviations). `SInv` adds `Checked`: what a pending transaction has checked is
  still so, and what it will add to the profiles of a row is what the request has
  more than the row. Each commit then takes only the steps that `Safe` allows;
  profiles only grow (`OnlyAdds`), and the registry and the ignored resources of
  an application are not among what stays.
* `EventListenersProofs`: `TypeCorrect` (the lock's readers are exactly the
  senders between RLock and RUnlock) and `NoRemovedChannel`. The inductive
  invariant adds that a sender has channels left only while it sends and has an
  event until it returns, and that a stream that forwards has an event. The maps
  change only under the write lock, when there are no readers and therefore no
  channels left to send on (`UnlockKeeps`).

  `NothingMissed` and `ListenersImplementFeed` rest on `DInv`: the events of a
  sender follow each other in the log behind what it has sent (`QueueSteps`), a
  range has no channel twice and only matching ones (`RangeSteps`), and a stream
  holds exactly the matching events that their senders have come past it with
  since its registration (`StreamSteps`). The last one is the heart: it turns
  "the sender is done with this stream" into "the stream has the event", from
  which no loss, no duplicate and the order per publisher follow. In the
  refinement `CommitChanges` publishes, the steps of a watcher are steps of the
  feed or stutters, and a sender's other steps are all stutters.
* `PagingProofs`: `PagesInBounds` and `SweepIsComplete`. `offset + pageSize` can
  only overflow where twice the offset exceeds every number of rows, so the
  condition that makes pages too large also catches the
  overflow; `RangeInBounds` is that argument.
* `UploadSessionProofs`: `UInv` says that a session's lock is held by whoever
  works in it (`SessionLock`), that a request works in a session of its project,
  that open transactions write different rows (`Disjoint`), of their own project
  (`OwnRows`), which refer to what they can see (`Resolved`), and that what a
  transaction writes is queued in its session or already in the catalog
  (`Noted`); `Told` is the strengthened `CommittedIsAnnounced`. `ReferencesLead`,
  `Announced` and `InOneProject` follow. `TInv` adds types, the order of what is
  left to load, and `Whole`: each spec of a transaction's session is left to load or
  has taken effect in a row the transaction wrote, as a whole or in its kind alone,
  and it wrote no other rows. `UploadTypeCorrect`, `LoadedInOrder`
  and `UploadsAreAtomic` follow. Below them are lemmas about the operators:
  inserting keeps a sequence sorted by type (`InsertSorts`), so sorting does
  (`SortSorts`), and flattened file sets have the specs of their files and no
  others. Inductions over sequences are done on the set of lengths for which a
  statement holds (`SetInduction`), which needs no operator parameter.
* `RegistrySecretsProofs`: `TypeCorrect` and `SecretsFollowRows`. The invariant
  adds the shape of a request (`Sound`): registries left, each once, of which only
  the first can be written and not yet told to Vault. A row is written by one
  open transaction at a time, which is why a commit finds the secret of its own
  call, or a key in doubt.
* `ProjectMigrationProofs`: `MigrationTypeCorrect`, `MigratedSecretsFollowRows`
  and `MigrationIsComplete`. `NameSteps` says of each name what each step of the
  migration may find: an interrupted attempt leaves it as it was, with its secret
  moved, or with both (`Half`); the loop over the secrets leaves nothing to move, a
  moved secret or a doubtful one (`Passed`); `HandSteps` is about the name whose
  secret is between the two projects. Crashes lead from each of these to `Half`
  again, which is what makes repeated attempts work. It uses the lemmas of
  `RegistrySecretsProofs` for requests that are served between two attempts.
* `WatchSessionProofs`: `TypeCorrect`, `SocketHasOneWriter` and
  `SubscriptionsWatched`. The inductive invariant adds that what the goroutines
  pass on are messages of the client (`MessageSteps`), that a watch has only
  published events and ends only when it was cancelled (`WatchSteps`; a watch
  whose stream failed is `"broken"`),
  that the cancellations kept are those of watches of the kind that nobody has
  cancelled (`CancellationsKept`), and that a client that was told or is being told
  it is subscribed has such a cancellation, of a watch for a project it was told or
  is being told (`ToldIsKept`). The last one is needed because the answer is
  written, and may wait for the lock, after the map changed. A client that missed
  an answer is no longer `"open"`, which is why `answered` keeps up with the map.
* `ProjectWiperProofs`: `WiperTypeCorrect`, `NothingPassedOver` and
  `RequiredAlone`. What the wiper has read is still there, as nobody else deletes
  (`Reading`). `Wiped`: while there is no error, everything of the start that is
  left is of a loop that is to come, will list again or has it on its page. If
  nothing interferes and one page holds all packages, they are severed
  before anything is deleted (`AllSevered`), and then the catalog refuses to delete
  only required packages and artifacts (`Cleared`).

`ProjectIsolation` has no run: the theorem covers every instance. The others are
also checked by the runs above, and TLC has checked the inductive invariants on
the instances of the runs.

Only model-checked: liveness, which needs fairness and `ENABLED` and is out of the
prover's reach (`EverySenderReturns`, `WatchersRegister`, `SweepEnds`,
`RequestsEnd`, `MessagesAnswered`, `UnwantedWatchesEnd`, `EventsRelayed`,
`WipeEnds`). The violating runs are counterexamples and need no proof.

## Not modelled

* Generated code: about 93,000 of the 107,000 lines of implementation are
  written by `ent`, `protoc` and `oapi-codegen`. What the models need of it, the
  constraints of the schema, is taken from `ent/schema` and the generated
  migration. The rest is serialisation, validation of single messages and query
  builders, and has no behaviour that a model could tell apart; the share of lines
  that the map covers is low for this reason.
* The REST wiper: it ignores refusals and error statuses and reads one page of
  what it deletes, so none of the properties of the gRPC wiper is promised.
* The REST proxy's upload handler: it sends the files of a form one after the other
  and goes on after an error. Its requests are among the sequences that
  `UploadSession` serves.
* Authorization, the malware scanner, payload validation and the schema validator
  only refuse requests, before anything is written.
* The chart handlers of the REST proxy, the generators and the command-line tools
  convert data and keep no state that requests share. Filters and order terms
  of listings are parsing.
* The schema migration by Atlas, and an old server that still serves while a new
  one migrates (a matter of the deployment).

## Plan

1. Done: `CatalogStore`, `EventListeners`, `Paging`, `UploadSession`,
   `RegistrySecrets`, `ProjectMigration`, `WatchSession`, `ProjectWiper`, their
   runs; the abstract specifications `EventFeed` and `AtomicUpload`.
2. Done: proofs of every safety invariant and action property of the passing runs
   and of both refinements.
3. `CatalogWatch`: `CatalogStore` and `EventListeners` composed: what a client
   that applies replay and events believes, against the tables (updates of kind
   and deployed state send no event; changes between replay and registration).
