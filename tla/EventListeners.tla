--------------------------- MODULE EventListeners ---------------------------
(***************************************************************************)
(* Watch streams and the delivery of change events to them.                *)
(*                                                                         *)
(* After its transaction commits a request handler (a sender) gives its    *)
(* events to every matching listener: it holds the read lock of            *)
(* EventListeners while it ranges over the listener map and sends on each  *)
(* listener's unbuffered channel.  A Watch handler (a watcher) optionally  *)
(* replays the inventory, adds its channel to the map under the write      *)
(* lock, receives and forwards events to its client's stream, and removes  *)
(* the channel, again under the write lock, when a forward fails.          *)
(*                                                                         *)
(* One lock guards the four maps.  It is a sync.RWMutex: one writer at a   *)
(* time announces itself, later readers queue behind it, the readers       *)
(* before it drain, and when it unlocks the queued readers go first.       *)
(***************************************************************************)
EXTENDS Naturals, Sequences, FiniteSets

CONSTANTS
    Senders,        \* request handlers that commit changes
    Watchers,       \* Watch streams
    Changes,        \* changes that can be committed
    Request,        \* watcher -> its Watch request
    MayDisconnect,  \* watchers whose client may go away
    MaxChanges,     \* bound: changes committed in a behaviour
    MaxBatch,       \* bound: changes of one transaction (an upload has many)
    AnyProject,     \* the empty project id of a Watch request
    NoWriter

Entities == {"registry", "artifact", "application", "package"}

ASSUME BoundsAreNumbers == MaxChanges \in Nat /\ MaxBatch \in Nat

ASSUME NoWriterIsNoWatcher == NoWriter \notin Watchers

ASSUME WatchersAreFinite == IsFiniteSet(Watchers)

ASSUME ChangesHaveFields ==
    \A c \in Changes : /\ c.entity \in Entities
                       /\ c.type \in {"created", "updated", "deleted"}
                       /\ DOMAIN c = {"entity", "type", "project", "kind"}

ASSUME RequestsHaveFields ==
    \A w \in Watchers : /\ Request[w].entity \in Entities
                        /\ Request[w].entity \in {"registry", "artifact"} =>
                               Request[w].kinds = {}
                        /\ Request[w].noReplay \in BOOLEAN
                        /\ DOMAIN Request[w] =
                               {"entity", "projectId", "kinds", "noReplay"}

VARIABLES
    log,        \* committed changes with their sender, in commit order
    sender,     \* handler -> progress of its sendToAll
    watcher,    \* stream -> progress of its Watch handler
    listeners,  \* streams whose channel is in a listener map
    readers,    \* senders that hold the read lock
    writer,     \* the watcher that announced itself to the lock
    delivered,  \* stream -> positions of log sent to its client, in order
    connected   \* streams whose context has not ended

vars == <<log, sender, watcher, listeners, readers, writer, delivered, connected>>

Positions == 1 .. MaxChanges

Sender == [pc : {"idle", "rlock", "queued", "granted", "sending"},
           queue : Seq(Positions),      \* events not yet sent to all
           todo : Seq(Watchers)]        \* channels left for the first one

\* registered: length of log when the channel was added; event: the one being
\* forwarded, 0 if none.
Watcher == [pc : {"idle", "replaying", "adding", "committing", "receiving",
                  "forwarding", "deleting", "returned"},
            registered : 0 .. MaxChanges, event : 0 .. MaxChanges]

TypeOK == /\ log \in Seq([change : Changes, by : Senders])
          /\ Len(log) <= MaxChanges
          /\ sender \in [Senders -> Sender]
          /\ watcher \in [Watchers -> Watcher]
          /\ listeners \in SUBSET Watchers
          /\ readers = {s \in Senders : sender[s].pc \in {"granted", "sending"}}
          /\ writer \in Watchers \cup {NoWriter}
          /\ delivered \in [Watchers -> Seq(Positions)]
          /\ connected \in SUBSET Watchers

Init == /\ log = <<>>
        /\ sender = [s \in Senders |-> [pc |-> "idle", queue |-> <<>>, todo |-> <<>>]]
        /\ watcher = [w \in Watchers |->
                         [pc |-> "idle", registered |-> 0, event |-> 0]]
        /\ listeners = {}
        /\ readers = {}
        /\ writer = NoWriter
        /\ delivered = [w \in Watchers |-> <<>>]
        /\ connected = Watchers

-----------------------------------------------------------------------------
(* Which events a listener gets.                                           *)

\* The kind an event carries: a deleted event holds only name and version.
eventKind(c) == IF c.type = "deleted" THEN "unspecified" ELSE c.kind

kindMatches(kinds, kind) == kinds = {} \/ kind \in kinds

\* The filters of the send*Events methods.
Matches(w, c) ==
    /\ Request[w].entity = c.entity
    /\ Request[w].projectId \in {AnyProject, c.project}
    /\ c.entity \in {"application", "package"} =>
           kindMatches(Request[w].kinds, eventKind(c))

\* A map is ranged over in any order.
Orders(S) == {q \in [1 .. Cardinality(S) -> S] :
                  \A i, j \in 1 .. Cardinality(S) : q[i] = q[j] => i = j}

-----------------------------------------------------------------------------
(* Senders.                                                                *)

\* A transaction commits a batch of changes; sendToAll comes after.
CommitChanges(s, batch) ==
    /\ sender[s].pc = "idle"
    /\ Len(log) + Len(batch) <= MaxChanges
    /\ log' = log \o [i \in 1 .. Len(batch) |-> [change |-> batch[i], by |-> s]]
    /\ sender' = [sender EXCEPT
                     ![s] = [pc |-> "rlock",
                             queue |-> [i \in 1 .. Len(batch) |-> Len(log) + i],
                             todo |-> <<>>]]
    /\ UNCHANGED <<watcher, listeners, readers, writer, delivered, connected>>

RLock(s) ==
    /\ sender[s].pc = "rlock"
    /\ IF writer = NoWriter
       THEN /\ sender' = [sender EXCEPT ![s].pc = "granted"]
            /\ readers' = readers \cup {s}
       ELSE /\ sender' = [sender EXCEPT ![s].pc = "queued"]
            /\ UNCHANGED readers
    /\ UNCHANGED <<log, watcher, listeners, writer, delivered, connected>>

\* Mutant: the first listener of the range is skipped.
RangeSkipsOne(s) ==
    /\ sender[s].pc = "granted"
    /\ \E order \in Orders({w \in listeners : Matches(w, log[Head(sender[s].queue)].change)}) :
           sender' = [sender EXCEPT ![s].pc = "sending",
                                    ![s].todo = IF order = <<>> THEN order
                                                ELSE Tail(order)]
    /\ UNCHANGED <<log, watcher, listeners, readers, writer, delivered, connected>>

RangeListeners(s) ==
    /\ sender[s].pc = "granted"
    /\ \E order \in Orders({w \in listeners : Matches(w, log[Head(sender[s].queue)].change)}) :
           sender' = [sender EXCEPT ![s] = [pc |-> "sending", queue |-> @.queue,
                                            todo |-> order]]
    /\ UNCHANGED <<log, watcher, listeners, readers, writer, delivered, connected>>

\* ch <- event meets the range over ch in the watcher.
SendEvent(s, w) ==
    /\ sender[s].pc = "sending"
    /\ sender[s].todo # <<>>
    /\ w = Head(sender[s].todo)
    /\ watcher[w].pc = "receiving"
    /\ sender' = [sender EXCEPT ![s].todo = Tail(@)]
    /\ watcher' = [watcher EXCEPT ![w].pc = "forwarding",
                                  ![w].event = Head(sender[s].queue)]
    /\ UNCHANGED <<log, listeners, readers, writer, delivered, connected>>

\* Mutant: the read lock is kept.
RUnlockForgotten(s) ==
    /\ sender[s].pc = "sending"
    /\ sender[s].todo = <<>>
    /\ sender' = [sender EXCEPT
                     ![s].queue = Tail(@),
                     ![s].pc = IF Tail(sender[s].queue) = <<>> THEN "idle"
                                                               ELSE "rlock"]
    /\ UNCHANGED <<log, watcher, listeners, readers, writer, delivered, connected>>

\* Mutant: the event may be sent a second time.
RUnlockRepeats(s) ==
    /\ sender[s].pc = "sending"
    /\ sender[s].todo = <<>>
    /\ \E rest \in {sender[s].queue, Tail(sender[s].queue)} :
           sender' = [sender EXCEPT
                         ![s].queue = rest,
                         ![s].pc = IF rest = <<>> THEN "idle" ELSE "rlock"]
    /\ readers' = readers \ {s}
    /\ UNCHANGED <<log, watcher, listeners, writer, delivered, connected>>

\* The end of one send*Events call; sendToAll goes on with the next event.
RUnlock(s) ==
    /\ sender[s].pc = "sending"
    /\ sender[s].todo = <<>>
    /\ sender' = [sender EXCEPT
                     ![s] = [pc |-> IF Tail(@.queue) = <<>> THEN "idle" ELSE "rlock",
                             queue |-> Tail(@.queue), todo |-> <<>>]]
    /\ readers' = readers \ {s}
    /\ UNCHANGED <<log, watcher, listeners, writer, delivered, connected>>

-----------------------------------------------------------------------------
(* Watchers.                                                               *)

\* A stream starts with a transaction that reads the inventory, or goes
\* straight to its registration.
StartWatch(w) ==
    /\ watcher[w].pc = "idle"
    /\ watcher' = [watcher EXCEPT
                      ![w].pc = IF Request[w].noReplay THEN "adding" ELSE "replaying"]
    /\ UNCHANGED <<log, sender, listeners, readers, writer, delivered, connected>>

\* The replayed entities are sent; the first one that cannot be sent ends the
\* stream.  An empty inventory is replayed to nobody without an error.
FinishReplay(w) ==
    /\ watcher[w].pc = "replaying"
    /\ \/ watcher' = [watcher EXCEPT ![w].pc = "adding"]
       \/ /\ w \notin connected
          /\ watcher' = [watcher EXCEPT ![w].pc = "returned"]
    /\ UNCHANGED <<log, sender, listeners, readers, writer, delivered, connected>>

\* lock.Lock() first keeps other writers and later readers out.
AnnounceWriter(w) ==
    /\ watcher[w].pc \in {"adding", "deleting"}
    /\ writer = NoWriter
    /\ writer' = w
    /\ UNCHANGED <<log, sender, watcher, listeners, readers, delivered, connected>>

\* lock.Lock() returns when the readers before it are gone.
WriteLocked(w) == writer = w /\ readers = {}

Queued == {s \in Senders : sender[s].pc = "queued"}

\* lock.Unlock(): the queued readers hold the lock at once.
Unlock == /\ writer' = NoWriter
          /\ readers' = readers \cup Queued
          /\ sender' = [s \in Senders |->
                           IF s \in Queued THEN [sender[s] EXCEPT !.pc = "granted"]
                                           ELSE sender[s]]

\* Mutant: the write lock is kept.
AddListenerKeepsLock(w) ==
    /\ watcher[w].pc = "adding"
    /\ WriteLocked(w)
    /\ listeners' = listeners \cup {w}
    /\ watcher' = [watcher EXCEPT
                      ![w].pc = IF Request[w].noReplay THEN "receiving" ELSE "committing",
                      ![w].registered = Len(log)]
    /\ UNCHANGED <<log, sender, readers, writer, delivered, connected>>

AddListener(w) ==
    /\ watcher[w].pc = "adding"
    /\ WriteLocked(w)
    /\ listeners' = listeners \cup {w}
    /\ watcher' = [watcher EXCEPT
                      ![w].pc = IF Request[w].noReplay THEN "receiving" ELSE "committing",
                      ![w].registered = Len(log)]
    /\ Unlock
    /\ UNCHANGED <<log, delivered, connected>>

\* The replay's transaction ends after the registration; a commit under an
\* ended context fails, and the handler returns before it has deferred
\* the removal of its listener.
CommitReplay(w) ==
    /\ watcher[w].pc = "committing"
    /\ watcher' = [watcher EXCEPT
                      ![w].pc = IF w \in connected THEN "receiving" ELSE "returned"]
    /\ UNCHANGED <<log, sender, listeners, readers, writer, delivered, connected>>

\* server.Send in the loop over the channel.
ForwardEvent(w) ==
    /\ watcher[w].pc = "forwarding"
    /\ watcher' = [watcher EXCEPT
                      ![w].pc = IF w \in connected THEN "receiving" ELSE "deleting",
                      ![w].event = 0]
    /\ delivered' = IF w \in connected
                    THEN [delivered EXCEPT ![w] = Append(@, watcher[w].event)]
                    ELSE delivered
    /\ UNCHANGED <<log, sender, listeners, readers, writer, connected>>

\* Mutant: the listener is removed without the lock.
DeleteListenerUnlocked(w) ==
    /\ watcher[w].pc = "deleting"
    /\ listeners' = listeners \ {w}
    /\ watcher' = [watcher EXCEPT ![w].pc = "returned"]
    /\ UNCHANGED <<log, sender, readers, writer, delivered, connected>>

DeleteListener(w) ==
    /\ watcher[w].pc = "deleting"
    /\ WriteLocked(w)
    /\ listeners' = listeners \ {w}
    /\ watcher' = [watcher EXCEPT ![w].pc = "returned"]
    /\ Unlock
    /\ UNCHANGED <<log, delivered, connected>>

\* The client goes away: the context of the stream ends.
Disconnect(w) ==
    /\ w \in connected \cap MayDisconnect
    /\ connected' = connected \ {w}
    /\ UNCHANGED <<log, sender, watcher, listeners, readers, writer, delivered>>

-----------------------------------------------------------------------------
Batches == UNION {[1 .. n -> Changes] : n \in 1 .. MaxBatch}

SenderStep(s) == \/ RLock(s)
                 \/ RangeListeners(s)
                 \/ \E w \in Watchers : SendEvent(s, w)
                 \/ RUnlock(s)

WatcherStep(w) == \/ FinishReplay(w)
                  \/ AnnounceWriter(w)
                  \/ AddListener(w)
                  \/ CommitReplay(w)
                  \/ ForwardEvent(w)
                  \/ DeleteListener(w)

Next == \/ \E s \in Senders : \/ \E batch \in Batches : CommitChanges(s, batch)
                             \/ SenderStep(s)
        \/ \E w \in Watchers : \/ StartWatch(w)
                              \/ WatcherStep(w)
                              \/ Disconnect(w)

Spec == Init /\ [][Next]_vars

\* A started handler goes on, the lock and the channels are fair (a Go mutex
\* does not starve a waiter), and a client reads its stream or goes away.
\* Nobody has to send requests, to start watching or to disconnect.
FairSpec == /\ Spec
            /\ \A s \in Senders : WF_vars(SenderStep(s))
            /\ \A w \in Watchers : WF_vars(WatcherStep(w))

-----------------------------------------------------------------------------
\* A channel that some sendToAll still has to send on is registered: nobody
\* removes it while the read lock is held (sync.RWMutex in delete*Listener).
SendersUseRegisteredChannels ==
    \A s \in Senders : \A i \in 1 .. Len(sender[s].todo) :
        sender[s].todo[i] \in listeners

Got(w) == {delivered[w][i] : i \in 1 .. Len(delivered[w])} \cup {watcher[w].event}

InQueue(p) == \E s \in Senders : \E i \in 1 .. Len(sender[s].queue) :
                  sender[s].queue[i] = p

\* What a request asks for.  A deleted event carries no kind: a stream that
\* watches kinds only gets it by the unspecified one (kindMatches).
AsksFor(w, c) ==
    /\ Request[w].entity = c.entity
    /\ Request[w].projectId = AnyProject \/ Request[w].projectId = c.project
    /\ \/ Request[w].kinds = {}
       \/ c.kind \in Request[w].kinds /\ c.type # "deleted"
       \/ "unspecified" \in Request[w].kinds /\ c.type = "deleted"

\* A live stream misses no change that its filter lets through and that was
\* committed after its registration and handed to all listeners (sendToAll
\* against addListener).
RegisteredMissNothing ==
    \A w \in Watchers : watcher[w].pc \in {"receiving", "forwarding"} =>
        \A p \in watcher[w].registered + 1 .. Len(log) :
            AsksFor(w, log[p].change) /\ ~InQueue(p) => p \in Got(w)

\* Every request returns: its events do not block it for ever.
EverySenderReturns ==
    \A s \in Senders : sender[s].pc # "idle" ~> sender[s].pc = "idle"

\* A stream that goes to register its channel gets the lock
\* (addRegistryListener and its siblings).
WatchersRegister ==
    \A w \in Watchers : watcher[w].pc = "adding" ~> w \in listeners

\* EventFeed as the streams see it.  A stream has joined when its channel is in
\* the map, until its handler returns.
StageAt(pc) == CASE pc \in {"idle", "replaying", "adding"} -> "new"
                 [] pc = "returned" -> "left"
                 [] OTHER -> "joined"

Stage == [w \in Watchers |-> StageAt(watcher[w].pc)]

Since == [w \in Watchers |-> watcher[w].registered]

Feed == INSTANCE EventFeed WITH
            Publishers <- Senders, Clients <- Watchers, Wants <- AsksFor,
            stage <- Stage, since <- Since, got <- delivered

\* The listeners implement the feed of EventFeed: a client gets only what it asked
\* for, each event once, those of one transaction in their order and with none
\* left out since its channel was added, however senders and streams interleave
\* (sendToAll, the send*Events methods and the lock of EventListeners).
ImplementsEventFeed == Feed!Spec
=============================================================================
