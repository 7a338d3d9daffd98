--------------------------- MODULE UploadSession ---------------------------
(***************************************************************************)
(* UploadCatalogEntities (upload.go): sessions that collect files, and the *)
(* last upload of a session, which turns the files into specs, sorts them, *)
(* loads them in one transaction and announces what it wrote.              *)
(*                                                                         *)
(* An entity is a project, a type and a name (a number, as specs are       *)
(* sorted by name; versions are part of it).  A row of the catalog holds   *)
(* what specs gave it and the entities it refers to.                       *)
(***************************************************************************)
EXTENDS Naturals, Sequences, FiniteSets, SequencesExt

CONSTANTS
    Projects,       \* project UUIDs
    Requests,       \* upload requests that are served at the same time
    SessionIds,
    Uploads,        \* what a request may upload
    MaxUploads,     \* bound on the uploads of a session
    NoRequest

Types == {"Registry", "Application", "Artifact", "DeploymentPackage"}

\* What a spec names: the type and the name of an entity of its project.
Key == Types \X Nat

\* What a spec of a type can name: the registries of an application and the
\* packages that its profiles require, the applications and artifacts of a
\* package.
RefTypes == [Registry |-> {}, Artifact |-> {},
             Application |-> {"Registry", "DeploymentPackage"},
             DeploymentPackage |-> {"Application", "Artifact"}]

\* compared: the fields that an update compares with the stored ones; profiles:
\* the profiles, each with what is in it.
Content == [compared : Nat, profiles : SUBSET Nat]

\* ignored: the resources that an application's spec wants ignored.  (A
\* package's kind goes with its deployed state, which a spec says nothing of.)
YamlSpec == {d \in [type : Types, name : Nat, kind : Nat, content : Content,
                    ignored : SUBSET Nat, refs : SUBSET Key] :
                \A ref \in d.refs : ref[1] \in RefTypes[d.type]}

Entity == Projects \X Types \X Nat

Row == [kind : Nat, content : Content, ignored : SUBSET Nat, refs : SUBSET Entity]

Rows(f) == /\ DOMAIN f \subseteq Entity
           /\ \A e \in DOMAIN f : f[e] \in Row

\* An archive has files of its own; any other upload is one file.
ASSUME UploadsAreFiles ==
    /\ NoRequest \notin Requests
    /\ MaxUploads \in Nat
    /\ \A u \in Uploads : /\ u.archive \in BOOLEAN
                          /\ IsFiniteSet(DOMAIN u.files)
                          /\ u.archive \/ Cardinality(DOMAIN u.files) = 1
                          /\ \A f \in DOMAIN u.files : u.files[f] \in Seq(YamlSpec)

\* A map in which those of f stand before those of g.
Over(f, g) == [x \in DOMAIN f \cup DOMAIN g |-> IF x \in DOMAIN f THEN f[x] ELSE g[x]]

One(x, y) == [z \in {x} |-> y]

VARIABLES
    sessions,   \* the sessions of the server, by session id
    request,    \* the requests being served
    catalog,    \* committed rows, by project, type and name
    announced   \* contents of entities that were sent to all listeners

vars == <<sessions, request, catalog, announced>>

Session == [project : Projects, uploads : Seq(Uploads),
            events : SUBSET (Entity \X Content), \* queued, and never taken out
            holder : Requests \cup {NoRequest}]  \* of the session's lock

Idle == [pc |-> "idle"]

Incoming == [pc : {"waiting", "locked"}, session : SessionIds,
             project : Projects, upload : Uploads, last : BOOLEAN]

\* todo: the specs left to load, with the file set they are of; writes: the
\* rows the transaction has written, by entity.
Loading(q) == /\ DOMAIN q = {"pc", "session", "project", "todo", "writes"}
              /\ q.pc \in {"loading", "sending"}
              /\ q.session \in SessionIds
              /\ q.project \in Projects
              /\ q.todo \in Seq([set : Nat, spec : YamlSpec])
              /\ Rows(q.writes)

Init == /\ sessions = [s \in {} |-> {}]
        /\ request = [r \in Requests |-> Idle]
        /\ catalog = [e \in {} |-> {}]
        /\ announced = {}

-----------------------------------------------------------------------------
(* From uploads to specs.                                                  *)

\* The files that are no archives, by name; a later upload of a name replaces
\* an earlier one.
BaseFileSet(uploads) ==
    LET raw == {i \in DOMAIN uploads : ~uploads[i].archive}
        last(f) == CHOOSE i \in raw : /\ f \in DOMAIN uploads[i].files
                                      /\ \A j \in raw : f \in DOMAIN uploads[j].files => j <= i
    IN  [f \in UNION {DOMAIN uploads[i].files : i \in raw} |->
            uploads[last(f)].files[f]]

\* The archives, in the order of the uploads.
Archives(uploads) ==
    FlattenSeq([i \in DOMAIN uploads |->
                   IF uploads[i].archive THEN <<uploads[i].files>> ELSE <<>>])

\* Mutant: the single files are left out once there is an archive.
FileSetsOfArchivesFirst(uploads) ==
    IF Archives(uploads) = <<>> THEN <<BaseFileSet(uploads)>> ELSE Archives(uploads)

\* Each archive is a file set; the other files make up the last one.
loadFileSets(uploads) ==
    LET base == BaseFileSet(uploads)
    IN  Archives(uploads) \o IF DOMAIN base = {} THEN <<>> ELSE <<base>>

\* Mutant: artifacts do not come before packages.
LessArtifactsAnywhere(c, d) ==
    IF c.type = d.type THEN c.name < d.name
    ELSE \/ c.type = "Registry"
         \/ c.type = "Application" /\ d.type = "DeploymentPackage"

\* Applications and artifacts are not ordered against each other.  (The schema
\* validator refuses the legacy type that Less also knows.)
Less(c, d) ==
    IF c.type = d.type THEN c.name < d.name
    ELSE \/ c.type = "Registry"
         \/ c.type \in {"Application", "Artifact"} /\ d.type = "DeploymentPackage"

\* d before the specs at the end that it is less than.
Insert(sorted, d) ==
    LET place == SelectLastInSeq(sorted, LAMBDA c : ~Less(d, c))
    IN  SubSeq(sorted, 1, place) \o <<d>> \o SubSeq(sorted, place + 1, Len(sorted))

\* sort.Sort inserts the specs one by one (it is an insertion sort for up to
\* twelve of them).
Sort(specs) ==
    LET sorted[i \in 0 .. Len(specs)] ==
            IF i = 0 THEN <<>> ELSE Insert(sorted[i - 1], specs[i])
    IN  sorted[Len(specs)]

\* The results of ranging over the files, which Go does in any order.
loadYamlSpecs(fileSet) ==
    {Sort(FlattenSeq([i \in DOMAIN order |-> fileSet[order[i]]])) :
        order \in SetToSeqs(DOMAIN fileSet)}

\* The file sets' specs one after the other, with the file set they are of.
OrderedSpecs(fileSets) ==
    {FlattenSeq([i \in DOMAIN choice |->
                    [j \in DOMAIN choice[i] |-> [set |-> i, spec |-> choice[i][j]]]]) :
        choice \in {c \in [DOMAIN fileSets ->
                              UNION {loadYamlSpecs(fileSets[i]) : i \in DOMAIN fileSets}] :
                        \A i \in DOMAIN fileSets : c[i] \in loadYamlSpecs(fileSets[i])}}

-----------------------------------------------------------------------------
(* A request and its session.                                              *)

Serving(s) == {r \in Requests : request[r] # Idle /\ request[r].session = s}

\* The first upload of a batch makes a session.
newSession(r, project, u, last) ==
    /\ request[r] = Idle
    /\ \E s \in SessionIds \ DOMAIN sessions :
           /\ sessions' = Over(One(s, [project |-> project, uploads |-> <<>>,
                                       events |-> {}, holder |-> NoRequest]), sessions)
           /\ request' = [request EXCEPT
                  ![r] = [pc |-> "waiting", session |-> s, project |-> project,
                          upload |-> u, last |-> last]]
    /\ UNCHANGED <<catalog, announced>>

\* Mutant: a session is found whatever project asks for it.
GetSessionAnyProject(r, project, s, u, last) ==
    /\ request[r] = Idle
    /\ s \in DOMAIN sessions
    /\ request' = [request EXCEPT
           ![r] = [pc |-> "waiting", session |-> s, project |-> project,
                   upload |-> u, last |-> last]]
    /\ UNCHANGED <<sessions, catalog, announced>>

\* A later one finds the session of its project.
getSession(r, project, s, u, last) ==
    /\ request[r] = Idle
    /\ s \in DOMAIN sessions
    /\ sessions[s].project = project
    /\ request' = [request EXCEPT
           ![r] = [pc |-> "waiting", session |-> s, project |-> project,
                   upload |-> u, last |-> last]]
    /\ UNCHANGED <<sessions, catalog, announced>>

LockSession(r) ==
    /\ request[r].pc = "waiting"
    /\ sessions[request[r].session].holder = NoRequest
    /\ sessions' = [sessions EXCEPT ![request[r].session].holder = r]
    /\ request' = [request EXCEPT ![r].pc = "locked"]
    /\ UNCHANGED <<catalog, announced>>

\* The malware scanner finds something, or is needed and not there.
RefuseUpload(r) ==
    /\ request[r].pc = "locked"
    /\ request' = [request EXCEPT ![r] = Idle]
    /\ sessions' = [sessions EXCEPT ![request[r].session].holder = NoRequest]
    /\ UNCHANGED <<catalog, announced>>

\* The upload joins the session, and is all there is to do unless it is the
\* last one.
AddUpload(r) ==
    LET s == request[r].session
        uploads == Append(sessions[s].uploads, request[r].upload)
    IN  /\ request[r].pc = "locked"
        /\ ~request[r].last
        /\ sessions' = [sessions EXCEPT ![s].uploads = uploads,
                                        ![s].holder = NoRequest]
        /\ request' = [request EXCEPT ![r] = Idle]
        /\ UNCHANGED <<catalog, announced>>

\* The last upload starts a transaction for all uploads of the session, those
\* of earlier last uploads included.
AddLastUpload(r) ==
    LET s == request[r].session
        uploads == Append(sessions[s].uploads, request[r].upload)
    IN  /\ request[r].pc = "locked"
        /\ request[r].last
        /\ sessions' = [sessions EXCEPT ![s].uploads = uploads]
        /\ \E todo \in OrderedSpecs(loadFileSets(uploads)) :
               request' = [request EXCEPT
                   ![r] = [pc |-> "loading", session |-> s, project |-> request[r].project,
                           todo |-> todo, writes |-> [e \in {} |-> {}]]]
        /\ UNCHANGED <<catalog, announced>>

-----------------------------------------------------------------------------
(* The transaction of a last upload.                                       *)

\* The requests with an open transaction; the rows they wrote are locked.
Pending == {r \in Requests : request[r].pc = "loading"}

\* The rows that the foreign keys of written rows keep from being deleted.
Referenced(rows) == UNION {rows[e].refs : e \in DOMAIN rows}

\* The row of a spec, and its entity.
EntityOf(project, d) == <<project, d.type, d.name>>

RowOf(project, d) == [kind |-> d.kind, content |-> d.content, ignored |-> d.ignored,
                      refs |-> {<<project, ref[1], ref[2]>> : ref \in d.refs}]

\* What changed() says of two contents: profiles may be added.
changed(old, new) == \/ old.compared # new.compared
                     \/ ~(old.profiles \subseteq new.profiles)

\* The references that changed() compares: an application's registries are no
\* part of them, as the update looks them up by the names it compares, and the
\* packages that added profiles require are none either.
SameReferences(type, old, new) ==
    CASE type = "Application" -> {ref \in old : ref[2] = "DeploymentPackage"} \subseteq new
      [] type = "DeploymentPackage" -> old = new
      [] OTHER -> FALSE

HasKind(e) == e[2] \in {"Application", "DeploymentPackage"}

\* Mutant: a kind that differs is all that is written, whatever else does.
KindDiffers(view, e, row) ==
    /\ HasKind(e)
    /\ e \in DOMAIN view
    /\ row.kind # view[e].kind

\* An update of an application or a package whose kind differs, and nothing that
\* changed() counts.
KindAlone(view, e, row) ==
    /\ HasKind(e)
    /\ e \in DOMAIN view
    /\ row.kind # view[e].kind
    /\ ~changed(view[e].content, row.content)
    /\ SameReferences(e[2], view[e].refs, row.refs)

\* What it looks up: the kind-only update has the registries looked up, with
\* which it does nothing.
LookedUp(view, e, row) ==
    IF KindAlone(view, e, row) THEN {ref \in row.refs : ref[2] = "Registry"} ELSE row.refs

\* The row that a create or an update leaves: the kind-only update drops the
\* rest of the spec; ignored resources stay when the spec has none.
LoadedRow(view, e, row) ==
    LET from == IF KindAlone(view, e, row) THEN view[e] ELSE row
        stay == e \in DOMAIN view /\ from.ignored = {}
    IN  [kind |-> row.kind, content |-> from.content, refs |-> from.refs,
         ignored |-> IF stay THEN view[e].ignored ELSE from.ignored]

\* Mutant: an update of an entity queues no event.
QueueCreations(view, e, row) == IF e \in DOMAIN view THEN {} ELSE {<<e, row.content>>}

\* create* and update* of the catalog's entities queue an event once they have
\* written; the kind-only update returns without one.
Queued(view, e, row) == IF KindAlone(view, e, row) THEN {} ELSE {<<e, row.content>>}

\* Mutant: references are taken as they are.
LoadUnresolved(r) ==
    LET s == request[r].session
        d == Head(request[r].todo).spec
        e == EntityOf(sessions[s].project, d)
        row == RowOf(sessions[s].project, d)
        view == Over(request[r].writes, catalog)
    IN  /\ request[r].pc = "loading"
        /\ request[r].todo # <<>>
        /\ \A q \in Pending \ {r} : e \notin DOMAIN request[q].writes
        /\ sessions' = [sessions EXCEPT ![s].events = @ \cup Queued(view, e, row)]
        /\ request' = [request EXCEPT ![r].todo = Tail(@),
                                      ![r].writes = Over(One(e, LoadedRow(view, e, row)), @)]
        /\ UNCHANGED <<catalog, announced>>

\* loadRegistry, loadArtifact, loadApplication and loadDeploymentPackage create
\* or update the entity of the first spec, in the session's project.  They see
\* committed rows and those of the transaction, and wait for a transaction
\* that has written the same row.
LoadSpec(r) ==
    LET s == request[r].session
        d == Head(request[r].todo).spec
        e == EntityOf(sessions[s].project, d)
        row == RowOf(sessions[s].project, d)
        view == Over(request[r].writes, catalog)
    IN  /\ request[r].pc = "loading"
        /\ request[r].todo # <<>>
        /\ LookedUp(view, e, row) \subseteq DOMAIN view
        /\ \A q \in Pending \ {r} : e \notin DOMAIN request[q].writes
        /\ sessions' = [sessions EXCEPT ![s].events = @ \cup Queued(view, e, row)]
        /\ request' = [request EXCEPT ![r].todo = Tail(@),
                                      ![r].writes = Over(One(e, LoadedRow(view, e, row)), @)]
        /\ UNCHANGED <<catalog, announced>>

\* Mutant: a failing load returns with the session locked.
RollbackKeepsLock(r) ==
    /\ request[r].pc = "loading"
    /\ request' = [request EXCEPT ![r] = Idle]
    /\ UNCHANGED <<sessions, catalog, announced>>

\* A document that cannot be read, a reference that is not found, a check of
\* the entity's handler, a constraint or the database refuses: nothing is
\* written, and uploads and events stay in the session.
RollbackUpload(r) ==
    /\ request[r].pc = "loading"
    /\ request' = [request EXCEPT ![r] = Idle]
    /\ sessions' = [sessions EXCEPT ![request[r].session].holder = NoRequest]
    /\ UNCHANGED <<catalog, announced>>

CommitUpload(r) ==
    /\ request[r].pc = "loading"
    /\ request[r].todo = <<>>
    /\ catalog' = Over(request[r].writes, catalog)
    /\ request' = [request EXCEPT ![r].pc = "sending"]
    /\ UNCHANGED <<sessions, announced>>

\* sendToAll of the session's four queues, which stay as they are.
SendEvents(r) ==
    LET s == request[r].session
    IN  /\ request[r].pc = "sending"
        /\ announced' = announced \cup sessions[s].events
        /\ sessions' = [sessions EXCEPT ![s].holder = NoRequest]
        /\ request' = [request EXCEPT ![r] = Idle]
        /\ UNCHANGED catalog

\* Other requests delete what no row refers to; rows that a transaction wrote
\* or refers to are locked.
DeleteEntity(e) ==
    /\ e \in DOMAIN catalog
    /\ e \notin Referenced(catalog)
    /\ \A r \in Pending : /\ e \notin DOMAIN request[r].writes
                          /\ e \notin Referenced(request[r].writes)
    /\ catalog' = [f \in DOMAIN catalog \ {e} |-> catalog[f]]
    /\ UNCHANGED <<sessions, request, announced>>

-----------------------------------------------------------------------------
Arrive(r) ==
    \E project \in Projects, u \in Uploads, last \in BOOLEAN :
        \/ newSession(r, project, u, last)
        \/ \E s \in DOMAIN sessions :
               /\ Len(sessions[s].uploads) + Cardinality(Serving(s)) < MaxUploads
               /\ getSession(r, project, s, u, last)

Serve(r) == \/ LockSession(r)
            \/ RefuseUpload(r)
            \/ AddUpload(r)
            \/ AddLastUpload(r)
            \/ LoadSpec(r)
            \/ RollbackUpload(r)
            \/ CommitUpload(r)
            \/ SendEvents(r)

Next == \/ \E r \in Requests : Arrive(r) \/ Serve(r)
        \/ \E e \in DOMAIN catalog : DeleteEntity(e)

Spec == Init /\ [][Next]_vars

-----------------------------------------------------------------------------
\* A session's holder is the request that is past session.lock.Lock() and has
\* not returned.
SessionLock ==
    \A s \in DOMAIN sessions, r \in Requests :
        sessions[s].holder = r <=>
            /\ request[r].pc \in {"locked", "loading", "sending"}
            /\ request[r].session = s

\* The types, and the lock of a session.
TypeOK ==
    /\ DOMAIN sessions \subseteq SessionIds
    /\ \A s \in DOMAIN sessions : sessions[s] \in Session
    /\ \A r \in Requests : \/ request[r] \in {Idle} \cup Incoming
                           \/ Loading(request[r])
    /\ Rows(catalog)
    /\ announced \subseteq Entity \X Content
    /\ SessionLock

\* A spec is loaded after the specs of its file set that it refers to, in
\* whatever order the files were ranged over (Less, loadYamlSpecs).  A package
\* that an application requires comes after it: it has to be there before.
DefinedBeforeUse ==
    \A r \in Pending : \A i, j \in DOMAIN request[r].todo :
        LET c == request[r].todo[i]
            d == request[r].todo[j]
        IN  i < j /\ c.set = d.set /\ <<d.spec.type, d.spec.name>> \in c.spec.refs =>
                c.spec.type = "Application" /\ d.spec.type = "DeploymentPackage"

\* What the rows of uploads refer to is in the catalog, with deletions between
\* the steps of an upload's transaction (loadApplication, loadDeploymentPackage
\* against DeleteRegistry, DeleteArtifact, DeleteApplication).
UploadedReferencesLead == Referenced(catalog) \subseteq DOMAIN catalog

\* The uploads that count: a file that was uploaded again counts as it was
\* uploaded last.
Current(uploads) ==
    {i \in DOMAIN uploads :
        uploads[i].archive \/ \A j \in i + 1 .. Len(uploads) :
                                 ~uploads[j].archive
                                    => DOMAIN uploads[j].files # DOMAIN uploads[i].files}

\* What AtomicUpload sees of a spec or a row.
Face(x) == [kind |-> x.kind, content |-> x.content, ignored |-> x.ignored]

\* What the files of a session say of entities.
Uploaded(s) ==
    LET uploads == sessions[s].uploads
        specs == UNION {UNION {ToSet(uploads[i].files[f]) : f \in DOMAIN uploads[i].files} :
                            i \in Current(uploads)}
    IN  {<<EntityOf(sessions[s].project, d), Face(d)>> : d \in specs}

\* An upload only changes entities of the project it was sent for
\* (getSession, and the session's project in the load methods).
UploadsStayInProject ==
    [][\A e \in DOMAIN catalog' :
          (e \in DOMAIN catalog => catalog'[e] # catalog[e]) =>
              \E r \in Requests : request[r].pc = "loading" /\ request[r].project = e[1]]_vars

\* The content that the catalog holds was announced, unless a request is about to
\* do so, with updates that change a kind alone and queue nothing; events outlive failed attempts and other requests (events.append in the
\* create and update methods, sendToAll after the commit).
CommittedIsAnnounced ==
    (\A r \in Requests : request[r].pc # "sending") =>
        \A e \in DOMAIN catalog : <<e, catalog[e].content>> \in announced

\* The project of an entity.
ProjectOf(e) == e[1]


\* AtomicUpload as the sessions see it.
Upload == INSTANCE AtomicUpload WITH
              Entities <- Entity, Sessions <- SessionIds,
              ProjectOf <- ProjectOf, HasKind <- HasKind, Changed <- changed,
              catalog <- [e \in DOMAIN catalog |-> Face(catalog[e])],
              owner <- [s \in DOMAIN sessions |-> sessions[s].project],
              described <- [s \in SessionIds |->
                               IF s \in DOMAIN sessions THEN Uploaded(s) ELSE {}]

\* Uploads implement AtomicUpload: the specs that a last upload loads one by one
\* take effect in a single step, all specs of all files of its session and nothing
\* else, whoever else uploads or deletes meanwhile (processUploadSession, the
\* session's lock).  What a spec may leave as it was is the content of an entity
\* that changed() finds nothing to change in, the profiles it adds included, and
\* ignored resources (the kind-only paths of updateApplication and
\* updateDeploymentPackage).
ImplementsAtomicUpload == Upload!Spec
=============================================================================
