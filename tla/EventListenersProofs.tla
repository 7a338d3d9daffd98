------------------------ MODULE EventListenersProofs ------------------------
(***************************************************************************)
(* The lock discipline of EventListeners, for any number of handlers,      *)
(* streams and changes.                                                    *)
(***************************************************************************)
EXTENDS EventListeners, FiniteSetTheorems, SequenceTheorems, TLAPS

\* A handler has an event to send until it returns, and channels left only
\* while it sends.
SenderSteps ==
    \A s \in Senders :
        /\ sender[s].pc # "idle" => sender[s].queue # <<>>
        /\ sender[s].pc # "sending" => sender[s].todo = <<>>

\* A stream that forwards has an event in hand.
WatcherSteps ==
    \A w \in Watchers : watcher[w].pc = "forwarding" => watcher[w].event \in Positions

IInv == TypeOK /\ SenderSteps /\ WatcherSteps /\ SendersUseRegisteredChannels

\* The orders of a set of streams are sequences of its members.
LEMMA OrdersAreSequences ==
    ASSUME NEW S \in SUBSET Watchers, NEW order \in Orders(S)
    PROVE  order \in Seq(S)
<1>1. Cardinality(S) \in Nat
  BY WatchersAreFinite, FS_Subset, FS_CardinalityType
<1> QED
  BY <1>1 DEF Orders

\* The type invariant speaks of one handler at a time.
LEMMA SenderFields ==
    ASSUME TypeOK, NEW s \in Senders
    PROVE  /\ sender[s] \in Sender
           /\ sender[s].queue \in Seq(Positions)
           /\ sender[s].todo \in Seq(Watchers)
           /\ sender[s].pc \in {"idle", "rlock", "queued", "granted", "sending"}
BY DEF TypeOK, Sender

\* The records behind the EXCEPT expressions of the senders' actions.
LEMMA SenderExcept ==
    ASSUME TypeOK, NEW s \in Senders, NEW x
    PROVE  /\ [sender EXCEPT ![s].pc = x] =
                  [sender EXCEPT ![s] = [pc |-> x, queue |-> sender[s].queue,
                                         todo |-> sender[s].todo]]
           /\ [sender EXCEPT ![s].todo = x] =
                  [sender EXCEPT ![s] = [pc |-> sender[s].pc,
                                         queue |-> sender[s].queue, todo |-> x]]
<1>1. sender \in [Senders -> Sender] /\ sender[s] \in Sender
  BY DEF TypeOK
<1>2. [sender[s] EXCEPT !.pc = x] =
          [pc |-> x, queue |-> sender[s].queue, todo |-> sender[s].todo]
  BY <1>1 DEF Sender
<1>3. [sender[s] EXCEPT !.todo = x] =
          [pc |-> sender[s].pc, queue |-> sender[s].queue, todo |-> x]
  BY <1>1 DEF Sender
<1>4. /\ [sender EXCEPT ![s].pc = x] =
             [sender EXCEPT ![s] = [sender[s] EXCEPT !.pc = x]]
      /\ [sender EXCEPT ![s].todo = x] =
             [sender EXCEPT ![s] = [sender[s] EXCEPT !.todo = x]]
  BY <1>1
<1> QED
  BY <1>2, <1>3, <1>4

\* A step that gives one handler a new record and the others none.
LEMMA SenderUpdate ==
    ASSUME TypeOK, NEW s \in Senders, NEW r \in Sender,
           sender' = [sender EXCEPT ![s] = r]
    PROVE  /\ sender' \in [Senders -> Sender]
           /\ sender'[s] = r
           /\ \A g \in Senders : g # s => sender'[g] = sender[g]
BY DEF TypeOK

\* The handlers that hold the read lock after such a step.
LEMMA ReadersUpdate ==
    ASSUME TypeOK, NEW s \in Senders,
           \A g \in Senders : g # s => sender'[g] = sender[g],
           \/ /\ sender'[s].pc \in {"granted", "sending"}
              /\ readers' = readers \cup {s}
           \/ /\ sender'[s].pc \notin {"granted", "sending"}
              /\ readers' = readers \ {s}
    PROVE  readers' = {g \in Senders : sender'[g].pc \in {"granted", "sending"}}
<1>1. readers = {g \in Senders : sender[g].pc \in {"granted", "sending"}}
  BY DEF TypeOK
<1>2. \A g : g \in readers' <=> /\ g \in Senders
                                 /\ sender'[g].pc \in {"granted", "sending"}
  BY <1>1
<1> QED
  BY <1>2

\* A step of one stream.
LEMMA WatcherUpdate ==
    ASSUME TypeOK, NEW w \in Watchers, NEW r \in Watcher,
           watcher' = [watcher EXCEPT ![w] = r]
    PROVE  /\ watcher' \in [Watchers -> Watcher]
           /\ watcher'[w] = r
           /\ \A v \in Watchers : v # w => watcher'[v] = watcher[v]
BY DEF TypeOK

\* Before the first request nobody sends or watches.
LEMMA InitIInv == Init => IInv
<1> SUFFICES ASSUME Init PROVE IInv
  OBVIOUS
<1>1. <<>> \in Seq(Positions) /\ <<>> \in Seq(Watchers)
      /\ <<>> \in Seq([change : Changes, by : Senders])
  OBVIOUS
<1>2. 0 \in 0 .. MaxChanges /\ Len(<<>>) <= MaxChanges
  BY BoundsAreNumbers
<1>3. TypeOK
  BY <1>1, <1>2 DEF Init, TypeOK, Sender, Watcher
<1>4. SenderSteps /\ WatcherSteps /\ SendersUseRegisteredChannels
  BY DEF Init, SenderSteps, WatcherSteps, SendersUseRegisteredChannels
<1> QED
  BY <1>3, <1>4 DEF IInv

-----------------------------------------------------------------------------
(* Senders.                                                                *)

\* A commit queues the positions of its changes.
LEMMA CommitChangesKeeps ==
    ASSUME IInv, NEW s \in Senders, NEW batch \in Batches, CommitChanges(s, batch)
    PROVE  IInv'
<1> TypeOK
  BY DEF IInv
<1>1. PICK n \in 1 .. MaxBatch : batch \in [1 .. n -> Changes]
  BY DEF Batches
<1>2. /\ n \in Nat /\ n >= 1 /\ Len(batch) = n
      /\ batch \in Seq(Changes)
  BY <1>1, BoundsAreNumbers
<1>3. Len(log) \in Nat /\ Len(log) + n <= MaxChanges
  BY <1>2 DEF CommitChanges, TypeOK
<1> DEFINE new == [i \in 1 .. Len(batch) |-> [change |-> batch[i], by |-> s]]
           queue == [i \in 1 .. Len(batch) |-> Len(log) + i]
           r == [pc |-> "rlock", queue |-> queue, todo |-> <<>>]
<1>4. new \in Seq([change : Changes, by : Senders]) /\ Len(new) = n
  BY <1>1, <1>2
<1>5. queue \in Seq(Positions) /\ Len(queue) = n /\ queue # <<>>
  BY <1>2, <1>3, BoundsAreNumbers DEF Positions
<1>6. /\ log' = log \o new
      /\ sender' = [sender EXCEPT ![s] = r]
      /\ UNCHANGED <<watcher, listeners, readers, writer, delivered, connected>>
      /\ sender[s].pc = "idle"
  BY DEF CommitChanges
<1> HIDE DEF new, queue
<1>7. log' \in Seq([change : Changes, by : Senders]) /\ Len(log') <= MaxChanges
  <2>1. log \in Seq([change : Changes, by : Senders])
    BY DEF TypeOK
  <2> QED
    BY <1>3, <1>4, <1>6, <2>1, ConcatProperties
<1>8. r \in Sender
  BY <1>5 DEF Sender
<1>10. /\ sender' \in [Senders -> Sender]
       /\ sender'[s] = r
       /\ \A g \in Senders : g # s => sender'[g] = sender[g]
  BY <1>6, <1>8, SenderUpdate
<1>11. TypeOK'
  <2>1. readers' = {g \in Senders : sender'[g].pc \in {"granted", "sending"}}
    BY <1>6, <1>10 DEF TypeOK
  <2> QED
    BY <1>6, <1>7, <1>10, <2>1 DEF TypeOK
<1>12. SenderSteps' /\ WatcherSteps'
  BY <1>5, <1>6, <1>10 DEF IInv, SenderSteps, WatcherSteps
<1>13. SendersUseRegisteredChannels'
  BY <1>6, <1>10 DEF IInv, SendersUseRegisteredChannels
<1> QED
  BY <1>11, <1>12, <1>13 DEF IInv

\* RLock grants the lock or queues the handler behind the announced writer.
LEMMA RLockKeeps ==
    ASSUME IInv, NEW s \in Senders, RLock(s)
    PROVE  IInv'
<1> TypeOK
  BY DEF IInv
<1>1. PICK next \in {"granted", "queued"} :
        /\ sender' = [sender EXCEPT ![s].pc = next]
        /\ readers' = IF next = "granted" THEN readers \cup {s} ELSE readers
  BY DEF RLock
<1>2. /\ UNCHANGED <<log, watcher, listeners, writer, delivered, connected>>
      /\ sender[s].pc = "rlock"
  BY DEF RLock
<1> DEFINE r == [pc |-> next, queue |-> sender[s].queue, todo |-> sender[s].todo]
<1>3. r \in Sender
  BY SenderFields DEF Sender
<1>4. sender' = [sender EXCEPT ![s] = r]
  BY <1>1, SenderExcept
<1>5. /\ sender' \in [Senders -> Sender]
      /\ sender'[s] = r
      /\ \A g \in Senders : g # s => sender'[g] = sender[g]
  BY <1>3, <1>4, SenderUpdate
<1>6. TypeOK'
  <2>1. readers' = {g \in Senders : sender'[g].pc \in {"granted", "sending"}}
    <3>1. s \notin readers
      BY <1>2 DEF TypeOK
    <3> QED
      BY <1>1, <1>5, <3>1, ReadersUpdate
  <2> QED
    BY <1>2, <1>5, <2>1 DEF TypeOK
<1>7. SenderSteps' /\ WatcherSteps'
  BY <1>2, <1>5 DEF IInv, SenderSteps, WatcherSteps
<1>8. SendersUseRegisteredChannels'
  BY <1>2, <1>5 DEF IInv, SendersUseRegisteredChannels
<1> QED
  BY <1>6, <1>7, <1>8 DEF IInv

\* The channels of a range are those of registered streams.
LEMMA RangeListenersKeeps ==
    ASSUME IInv, NEW s \in Senders, RangeListeners(s)
    PROVE  IInv'
<1> TypeOK
  BY DEF IInv
<1> DEFINE S == {w \in listeners : Matches(w, log[Head(sender[s].queue)].change)}
<1>1. PICK order \in Orders(S) :
          sender' = [sender EXCEPT ![s] = [pc |-> "sending", queue |-> @.queue,
                                           todo |-> order]]
  BY DEF RangeListeners
<1>2. /\ UNCHANGED <<log, watcher, listeners, readers, writer, delivered, connected>>
      /\ sender[s].pc = "granted"
  BY DEF RangeListeners
<1>3. S \subseteq listeners /\ listeners \subseteq Watchers
  BY DEF TypeOK
<1> HIDE DEF S
<1>4. order \in Seq(S)
  BY <1>3, OrdersAreSequences
<1>5. /\ order \in Seq(Watchers)
      /\ \A i \in 1 .. Len(order) : order[i] \in listeners
  BY <1>3, <1>4
<1> DEFINE r == [pc |-> "sending", queue |-> sender[s].queue, todo |-> order]
<1>6. r \in Sender
  BY <1>5, SenderFields DEF Sender
<1>7. sender' = [sender EXCEPT ![s] = r]
  BY <1>1
<1>8. /\ sender' \in [Senders -> Sender]
      /\ sender'[s] = r
      /\ \A g \in Senders : g # s => sender'[g] = sender[g]
  BY <1>6, <1>7, SenderUpdate
<1>9. TypeOK'
  <2>1. readers' = {g \in Senders : sender'[g].pc \in {"granted", "sending"}}
    <3>1. s \in readers
      BY <1>2 DEF TypeOK
    <3> QED
      BY <1>2, <1>8, <3>1, ReadersUpdate
  <2> QED
    BY <1>2, <1>8, <2>1 DEF TypeOK
<1>10. SenderSteps' /\ WatcherSteps'
  BY <1>2, <1>8 DEF IInv, SenderSteps, WatcherSteps
<1>11. SendersUseRegisteredChannels'
  BY <1>2, <1>5, <1>8 DEF IInv, SendersUseRegisteredChannels
<1> QED
  BY <1>9, <1>10, <1>11 DEF IInv

\* A send takes one channel off the range and gives the stream an event.
LEMMA SendEventKeeps ==
    ASSUME IInv, NEW s \in Senders, NEW w \in Watchers, SendEvent(s, w)
    PROVE  IInv'
<1> TypeOK
  BY DEF IInv
<1>1. /\ UNCHANGED <<log, listeners, readers, writer, delivered, connected>>
      /\ sender[s].pc = "sending"
      /\ sender[s].todo # <<>>
  BY DEF SendEvent
<1> DEFINE r == [pc |-> sender[s].pc, queue |-> sender[s].queue,
                 todo |-> Tail(sender[s].todo)]
<1>2. /\ Tail(sender[s].todo) \in Seq(Watchers)
      /\ Len(Tail(sender[s].todo)) = Len(sender[s].todo) - 1
      /\ \A i \in 1 .. Len(Tail(sender[s].todo)) :
             Tail(sender[s].todo)[i] = sender[s].todo[i + 1]
      /\ Len(sender[s].todo) \in Nat
  BY <1>1, SenderFields, HeadTailProperties
<1>3. r \in Sender
  BY <1>2, SenderFields DEF Sender
<1>4. sender' = [sender EXCEPT ![s] = r]
  BY SenderExcept DEF SendEvent
<1>5. /\ sender' \in [Senders -> Sender]
      /\ sender'[s] = r
      /\ \A g \in Senders : g # s => sender'[g] = sender[g]
  BY <1>3, <1>4, SenderUpdate
<1>6. Head(sender[s].queue) \in Positions
  <2>1. sender[s].queue # <<>>
    BY <1>1 DEF IInv, SenderSteps
  <2> QED
    BY <2>1, SenderFields, HeadTailProperties
<1> DEFINE v == [watcher[w] EXCEPT !.pc = "forwarding", !.event = Head(sender[s].queue)]
<1>7. /\ watcher' \in [Watchers -> Watcher]
      /\ \A u \in Watchers : u # w => watcher'[u] = watcher[u]
      /\ watcher'[w].event \in Positions
  <2>1. watcher[w] \in Watcher /\ Head(sender[s].queue) \in 0 .. MaxChanges
    BY <1>6, BoundsAreNumbers DEF TypeOK, Positions
  <2>2. v \in Watcher /\ v.event = Head(sender[s].queue)
    BY <2>1 DEF Watcher
  <2>3. watcher' = [watcher EXCEPT ![w] = v]
    BY DEF SendEvent, TypeOK
  <2> HIDE DEF v
  <2> QED
    BY <1>6, <2>2, <2>3, WatcherUpdate
<1>8. TypeOK'
  <2>1. readers' = {g \in Senders : sender'[g].pc \in {"granted", "sending"}}
    <3>1. s \in readers
      BY <1>1 DEF TypeOK
    <3> QED
      BY <1>1, <1>5, <3>1, ReadersUpdate
  <2> QED
    BY <1>1, <1>5, <1>7, <2>1 DEF TypeOK
<1>9. SenderSteps' /\ WatcherSteps'
  BY <1>1, <1>5, <1>7 DEF IInv, SenderSteps, WatcherSteps
<1>10. SendersUseRegisteredChannels'
  <2> SUFFICES ASSUME NEW g \in Senders, NEW i \in 1 .. Len(sender'[g].todo)
               PROVE  sender'[g].todo[i] \in listeners
    BY <1>1 DEF SendersUseRegisteredChannels
  <2>1. CASE g = s
    <3>1. i + 1 \in 1 .. Len(sender[s].todo)
      BY <1>2, <1>5, <2>1
    <3>2. sender'[g].todo = Tail(sender[s].todo)
      BY <1>5, <2>1
    <3>3. sender'[g].todo[i] = sender[s].todo[i + 1]
      BY <1>2, <3>2
    <3> QED
      BY <3>1, <3>3 DEF IInv, SendersUseRegisteredChannels
  <2>2. CASE g # s
    BY <1>5, <2>2 DEF IInv, SendersUseRegisteredChannels
  <2> QED
    BY <2>1, <2>2
<1> QED
  BY <1>8, <1>9, <1>10 DEF IInv

\* RUnlock ends a range that has no channel left.
LEMMA RUnlockKeeps ==
    ASSUME IInv, NEW s \in Senders, RUnlock(s)
    PROVE  IInv'
<1> TypeOK
  BY DEF IInv
<1>1. /\ UNCHANGED <<log, watcher, listeners, writer, delivered, connected>>
      /\ sender[s].pc = "sending"
      /\ readers' = readers \ {s}
  BY DEF RUnlock
<1> DEFINE rest == Tail(sender[s].queue)
           r == [pc |-> IF rest = <<>> THEN "idle" ELSE "rlock", queue |-> rest,
                 todo |-> <<>>]
<1>2. rest \in Seq(Positions)
  <2>1. sender[s].queue # <<>>
    BY <1>1 DEF IInv, SenderSteps
  <2> QED
    BY <2>1, SenderFields, HeadTailProperties
<1>3. sender' = [sender EXCEPT ![s] = r]
  BY DEF RUnlock
<1> HIDE DEF rest
<1>4. r \in Sender
  BY <1>2 DEF Sender
<1>5. /\ sender' \in [Senders -> Sender]
      /\ sender'[s] = r
      /\ \A g \in Senders : g # s => sender'[g] = sender[g]
  BY <1>3, <1>4, SenderUpdate
<1>6. TypeOK'
  <2>1. readers' = {g \in Senders : sender'[g].pc \in {"granted", "sending"}}
    BY <1>1, <1>5, ReadersUpdate
  <2> QED
    BY <1>1, <1>5, <2>1 DEF TypeOK
<1>7. SenderSteps' /\ WatcherSteps'
  BY <1>1, <1>5 DEF IInv, SenderSteps, WatcherSteps
<1>8. SendersUseRegisteredChannels'
  BY <1>1, <1>5 DEF IInv, SendersUseRegisteredChannels
<1> QED
  BY <1>6, <1>7, <1>8 DEF IInv

-----------------------------------------------------------------------------
(* Watchers.                                                               *)

\* Steps that touch neither the lock's readers nor the map keep its discipline.
LEMMA WatcherKeeps ==
    ASSUME IInv, watcher' \in [Watchers -> Watcher], WatcherSteps',
           writer' \in Watchers \cup {NoWriter},
           delivered' \in [Watchers -> Seq(Positions)],
           connected' \in SUBSET Watchers,
           UNCHANGED <<log, sender, listeners, readers>>
    PROVE  IInv'
<1>1. TypeOK'
  BY DEF IInv, TypeOK
<1>2. SenderSteps' /\ SendersUseRegisteredChannels'
  BY DEF IInv, SenderSteps, SendersUseRegisteredChannels
<1> QED
  BY <1>1, <1>2 DEF IInv

\* A stream that moves on to another step than forwarding.
LEMMA WatcherMoves ==
    ASSUME IInv, NEW w \in Watchers, NEW v \in Watcher, v.pc # "forwarding",
           watcher' = [watcher EXCEPT ![w] = v]
    PROVE  watcher' \in [Watchers -> Watcher] /\ WatcherSteps'
<1>1. TypeOK
  BY DEF IInv
<1> QED
  BY <1>1, WatcherUpdate DEF IInv, WatcherSteps

\* The record of one stream, and the current length of the log.
LEMMA WatcherFields ==
    ASSUME TypeOK, NEW w \in Watchers
    PROVE  /\ watcher \in [Watchers -> Watcher] /\ watcher[w] \in Watcher
           /\ Len(log) \in 0 .. MaxChanges
           /\ 0 \in 0 .. MaxChanges
BY BoundsAreNumbers DEF TypeOK

\* A Watch request reads the inventory or goes to its registration.
LEMMA StartWatchKeeps ==
    ASSUME IInv, NEW w \in Watchers, StartWatch(w)
    PROVE  IInv'
<1> TypeOK
  BY DEF IInv
<1>1. PICK next \in {"adding", "replaying"} :
          watcher' = [watcher EXCEPT ![w].pc = next]
  BY DEF StartWatch
<1> DEFINE v == [watcher[w] EXCEPT !.pc = next]
<1>2. v \in Watcher /\ v.pc # "forwarding"
  BY WatcherFields DEF Watcher
<1>3. watcher' = [watcher EXCEPT ![w] = v]
  BY <1>1, WatcherFields
<1> HIDE DEF v
<1>4. watcher' \in [Watchers -> Watcher] /\ WatcherSteps'
  BY <1>2, <1>3, WatcherMoves
<1> QED
  BY <1>4, WatcherKeeps DEF StartWatch, TypeOK

\* A step of a stream that only changes where it is.
LEMMA PcMoves ==
    ASSUME IInv, NEW w \in Watchers,
           NEW next \in {"adding", "receiving", "returned"},
           watcher' = [watcher EXCEPT ![w].pc = next]
    PROVE  watcher' \in [Watchers -> Watcher] /\ WatcherSteps'
<1> TypeOK
  BY DEF IInv
<1> DEFINE v == [watcher[w] EXCEPT !.pc = next]
<1>1. v \in Watcher /\ v.pc # "forwarding"
  BY WatcherFields DEF Watcher
<1>2. watcher' = [watcher EXCEPT ![w] = v]
  BY WatcherFields
<1> HIDE DEF v
<1> QED
  BY <1>1, <1>2, WatcherMoves

\* The end of a replay touches no lock.
LEMMA FinishReplayKeeps ==
    ASSUME IInv, NEW w \in Watchers, FinishReplay(w)
    PROVE  IInv'
<1>1. watcher' \in [Watchers -> Watcher] /\ WatcherSteps'
  BY PcMoves DEF FinishReplay
<1> QED
  BY <1>1, WatcherKeeps DEF FinishReplay, IInv, TypeOK

\* An announced writer is a stream.
LEMMA AnnounceWriterKeeps ==
    ASSUME IInv, NEW w \in Watchers, AnnounceWriter(w)
    PROVE  IInv'
<1>1. WatcherSteps'
  BY DEF AnnounceWriter, IInv, WatcherSteps
<1> QED
  BY <1>1, WatcherKeeps DEF AnnounceWriter, IInv, TypeOK

\* The commit of a replay touches no lock.
LEMMA CommitReplayKeeps ==
    ASSUME IInv, NEW w \in Watchers, CommitReplay(w)
    PROVE  IInv'
<1>1. PICK next \in {"receiving", "returned"} :
          watcher' = [watcher EXCEPT ![w].pc = next]
  BY DEF CommitReplay
<1>2. watcher' \in [Watchers -> Watcher] /\ WatcherSteps'
  BY <1>1, PcMoves
<1> QED
  BY <1>2, WatcherKeeps DEF CommitReplay, IInv, TypeOK

\* A forwarded event is a position of the log.
LEMMA ForwardEventKeeps ==
    ASSUME IInv, NEW w \in Watchers, ForwardEvent(w)
    PROVE  IInv'
<1> TypeOK
  BY DEF IInv
<1>1. PICK next \in {"receiving", "deleting"} :
          watcher' = [watcher EXCEPT ![w].pc = next, ![w].event = 0]
  BY DEF ForwardEvent
<1> DEFINE v == [watcher[w] EXCEPT !.pc = next, !.event = 0]
<1>2. v \in Watcher /\ v.pc # "forwarding"
  BY WatcherFields DEF Watcher
<1>3. watcher' = [watcher EXCEPT ![w] = v]
  BY <1>1, WatcherFields
<1> HIDE DEF v
<1>4. watcher' \in [Watchers -> Watcher] /\ WatcherSteps'
  BY <1>2, <1>3, WatcherMoves
<1>5. delivered' \in [Watchers -> Seq(Positions)]
  <2>1. watcher[w].event \in Positions
    BY DEF ForwardEvent, IInv, WatcherSteps
  <2>2. /\ delivered \in [Watchers -> Seq(Positions)]
        /\ delivered[w] \in Seq(Positions)
    BY DEF TypeOK
  <2>3. Append(delivered[w], watcher[w].event) \in Seq(Positions)
    BY <2>1, <2>2, AppendProperties
  <2> QED
    BY <2>2, <2>3 DEF ForwardEvent
<1> QED
  BY <1>4, <1>5, WatcherKeeps DEF ForwardEvent, TypeOK

\* A client that goes away touches no lock.
LEMMA DisconnectKeeps ==
    ASSUME IInv, NEW w \in Watchers, Disconnect(w)
    PROVE  IInv'
<1>1. WatcherSteps' /\ connected' \in SUBSET Watchers
  BY DEF Disconnect, IInv, WatcherSteps, TypeOK
<1> QED
  BY <1>1, WatcherKeeps DEF Disconnect, IInv, TypeOK

\* The maps change only while nobody holds the read lock, that is, while no
\* handler has a channel left to send on.
LEMMA UnlockKeeps ==
    ASSUME IInv, NEW w \in Watchers, WriteLocked(w), Unlock,
           watcher' \in [Watchers -> Watcher], WatcherSteps',
           listeners' \in SUBSET Watchers,
           UNCHANGED <<log, delivered, connected>>
    PROVE  IInv'
<1> TypeOK
  BY DEF IInv
<1>1. \A s \in Senders : sender[s].pc \notin {"granted", "sending"}
  BY DEF WriteLocked, TypeOK
<1>2. \A s \in Senders :
        sender'[s] = IF sender[s].pc = "queued" THEN [sender[s] EXCEPT !.pc = "granted"]
                                                ELSE sender[s]
  BY DEF Unlock, Queued
<1>3. \A s \in Senders : /\ sender'[s] \in Sender
                         /\ sender'[s].queue = sender[s].queue
                         /\ sender'[s].todo = sender[s].todo
                         /\ sender'[s].pc = IF sender[s].pc = "queued" THEN "granted"
                                                                       ELSE sender[s].pc
  BY <1>2, SenderFields DEF Sender
<1>4. sender' \in [Senders -> Sender]
  <2>1. sender' = [s \in Senders |-> sender'[s]]
    BY DEF Unlock
  <2> QED
    BY <1>3, <2>1
<1>5. readers' = {g \in Senders : sender'[g].pc \in {"granted", "sending"}}
  <2>1. readers' = {g \in Senders : sender[g].pc = "queued"}
    BY DEF Unlock, Queued, WriteLocked
  <2> QED
    BY <1>1, <1>3, <2>1
<1>6. TypeOK'
  BY <1>4, <1>5 DEF TypeOK, Unlock
<1>7. \A s \in Senders : sender'[s].todo = <<>>
  BY <1>1, <1>3 DEF IInv, SenderSteps
<1>8. SenderSteps'
  BY <1>3, <1>7 DEF IInv, SenderSteps
<1>9. SendersUseRegisteredChannels'
  BY <1>7 DEF SendersUseRegisteredChannels
<1> QED
  BY <1>6, <1>8, <1>9 DEF IInv

\* A stream adds its channel under the write lock.
LEMMA AddListenerKeeps ==
    ASSUME IInv, NEW w \in Watchers, AddListener(w)
    PROVE  IInv'
<1> TypeOK
  BY DEF IInv
<1>1. PICK next \in {"receiving", "committing"} :
          watcher' = [watcher EXCEPT ![w].pc = next, ![w].registered = Len(log)]
  BY DEF AddListener
<1> DEFINE v == [watcher[w] EXCEPT !.pc = next, !.registered = Len(log)]
<1>2. v \in Watcher /\ v.pc # "forwarding"
  BY WatcherFields DEF Watcher
<1>3. watcher' = [watcher EXCEPT ![w] = v]
  BY <1>1, WatcherFields
<1> HIDE DEF v
<1>4. watcher' \in [Watchers -> Watcher] /\ WatcherSteps'
  BY <1>2, <1>3, WatcherMoves
<1>5. listeners' \in SUBSET Watchers
  BY DEF AddListener, TypeOK
<1> QED
  BY <1>4, <1>5, UnlockKeeps DEF AddListener

\* A stream removes its channel under the write lock.
LEMMA DeleteListenerKeeps ==
    ASSUME IInv, NEW w \in Watchers, DeleteListener(w)
    PROVE  IInv'
<1>1. watcher' \in [Watchers -> Watcher] /\ WatcherSteps'
  BY PcMoves DEF DeleteListener
<1>2. listeners' \in SUBSET Watchers
  BY DEF DeleteListener, IInv, TypeOK
<1> QED
  BY <1>1, <1>2, UnlockKeeps DEF DeleteListener

-----------------------------------------------------------------------------
\* Every step keeps the inductive invariant.
LEMMA NextIInv == IInv /\ [Next]_vars => IInv'
<1> SUFFICES ASSUME IInv, [Next]_vars PROVE IInv'
  OBVIOUS
<1>1. ASSUME NEW s \in Senders, NEW batch \in Batches, CommitChanges(s, batch)
      PROVE  IInv'
  BY <1>1, CommitChangesKeeps
<1>2. ASSUME NEW s \in Senders, SenderStep(s)
      PROVE  IInv'
  BY <1>2, RLockKeeps, RangeListenersKeeps, SendEventKeeps, RUnlockKeeps DEF SenderStep
<1>3. ASSUME NEW w \in Watchers, StartWatch(w) \/ Disconnect(w)
      PROVE  IInv'
  BY <1>3, StartWatchKeeps, DisconnectKeeps
<1>4. ASSUME NEW w \in Watchers, WatcherStep(w)
      PROVE  IInv'
  BY <1>4, FinishReplayKeeps, AnnounceWriterKeeps, AddListenerKeeps,
     CommitReplayKeeps, ForwardEventKeeps, DeleteListenerKeeps DEF WatcherStep
<1>5. ASSUME UNCHANGED vars
      PROVE  IInv'
  BY <1>5 DEF vars, IInv, TypeOK, SenderSteps, WatcherSteps,
              SendersUseRegisteredChannels
<1> QED
  BY <1>1, <1>2, <1>3, <1>4, <1>5 DEF Next

\* The inductive invariant holds of every behaviour of the streams.
THEOREM Inductive == Spec => []IInv
<1>1. Init => IInv
  BY InitIInv
<1>2. IInv /\ [Next]_vars => IInv'
  BY NextIInv
<1> QED
  BY <1>1, <1>2, PTL DEF Spec

\* The readers the lock counts are exactly the handlers between RLock and
\* RUnlock, and every record has its type, for any number of handlers and
\* streams (the lock of EventListeners and its send*Events methods).
THEOREM TypeCorrect == Spec => []TypeOK
<1>1. IInv => TypeOK
  BY DEF IInv
<1> QED
  BY <1>1, Inductive, PTL

\* No handler sends on a channel that delete*Listener has removed, for any
\* number of handlers and streams.
THEOREM NoRemovedChannel == Spec => []SendersUseRegisteredChannels
<1>1. IInv => SendersUseRegisteredChannels
  BY DEF IInv
<1> QED
  BY <1>1, Inductive, PTL

-----------------------------------------------------------------------------
(* What the streams get.                                                   *)

Among(x, q) == \E i \in 1 .. Len(q) : q[i] = x

\* The events of a handler follow each other in the log, behind all that it
\* has sent before.
QueueSteps ==
    \A s \in Senders :
        /\ sender[s].pc = "idle" => sender[s].queue = <<>>
        /\ \A i \in 1 .. Len(sender[s].queue) : /\ sender[s].queue[i] \in 1 .. Len(log)
                                                /\ log[sender[s].queue[i]].by = s
        /\ \A i, j \in 1 .. Len(sender[s].queue) :
              i < j => sender[s].queue[i] < sender[s].queue[j]
        /\ \A p \in 1 .. Len(log) : log[p].by = s =>
              \/ Among(p, sender[s].queue)
              \/ \A i \in 1 .. Len(sender[s].queue) : p < sender[s].queue[i]

\* A range has no channel twice, and only those of streams that match.
RangeSteps ==
    \A s \in Senders :
        /\ \A i, j \in 1 .. Len(sender[s].todo) : sender[s].todo[i] = sender[s].todo[j] => i = j
        /\ \A i \in 1 .. Len(sender[s].todo) :
              Matches(sender[s].todo[i], log[Head(sender[s].queue)].change)

\* The handler that committed the change at p is past the stream with it.
Past(w, p) ==
    LET h == sender[log[p].by]
    IN  Among(p, h.queue) => h.pc = "sending" /\ p = Head(h.queue) /\ ~ Among(w, h.todo)

Holds(w, p) == watcher[w].event = p \/ Among(p, delivered[w])

Live(w) == watcher[w].pc \in {"committing", "receiving", "forwarding"}

\* What a stream has is what matched of all that handlers came past it with
\* since its registration; of one handler the event in hand is the last.
StreamOK(w) ==
    /\ watcher[w].pc # "forwarding" => watcher[w].event = 0
    /\ Live(w) => w \in listeners
    /\ \A p \in Positions : Holds(w, p) => /\ p \in 1 .. Len(log)
                                           /\ Matches(w, log[p].change)
                                           /\ Past(w, p)
    /\ Live(w) => \A p \in 1 .. Len(log) :
          watcher[w].registered < p /\ Matches(w, log[p].change) /\ Past(w, p)
              => Holds(w, p)
    /\ watcher[w].event # 0 => \A q \in Positions :
          Among(q, delivered[w]) /\ log[q].by = log[watcher[w].event].by
              => q < watcher[w].event

StreamSteps == \A w \in Watchers : StreamOK(w)

DInv == IInv /\ QueueSteps /\ RangeSteps /\ StreamSteps

\* An order of a set of streams has each of them once.
LEMMA OrdersHaveAll ==
    ASSUME NEW S \in SUBSET Watchers, NEW order \in Orders(S)
    PROVE  /\ \A i \in 1 .. Len(order) : order[i] \in S
           /\ \A i, j \in 1 .. Len(order) : order[i] = order[j] => i = j
           /\ \A w \in S : Among(w, order)
<1> DEFINE n == Cardinality(S)
<1>1. n \in Nat /\ IsFiniteSet(S)
  BY WatchersAreFinite, FS_Subset, FS_CardinalityType
<1>2. /\ order \in [1 .. n -> S]
      /\ \A i, j \in 1 .. n : order[i] = order[j] => i = j
  BY DEF Orders
<1> HIDE DEF n
<1>3. Len(order) = n
  BY <1>1, <1>2
<1>4. order \in Injection(1 .. n, S)
  BY <1>2 DEF Injection, IsInjective
<1>5. Cardinality(1 .. n) = n
  BY <1>1, FS_Interval
<1>6. order \in Surjection(1 .. n, S)
  BY <1>1, <1>4, <1>5, FS_Injection DEF n
<1>7. \A w \in S : \E i \in 1 .. n : order[i] = w
  BY <1>6 DEF Surjection
<1> QED
  BY <1>2, <1>3, <1>7 DEF Among

\* What a sequence has besides its first element.
LEMMA AmongTail ==
    ASSUME NEW T, NEW q \in Seq(T), q # <<>>
    PROVE  /\ Head(q) = q[1] /\ Tail(q) \in Seq(T) /\ 1 \in 1 .. Len(q)
           /\ \A i \in 1 .. Len(Tail(q)) : Tail(q)[i] = q[i + 1] /\ i + 1 \in 1 .. Len(q) /\ i + 1 > 1
           /\ \A x : Among(x, q) <=> x = Head(q) \/ Among(x, Tail(q))
<1>1. /\ Head(q) = q[1] /\ Tail(q) \in Seq(T) /\ Len(q) \in Nat /\ Len(q) >= 1
      /\ Len(Tail(q)) = Len(q) - 1
      /\ \A i \in 1 .. Len(Tail(q)) : Tail(q)[i] = q[i + 1]
  BY HeadTailProperties, EmptySeq
<1>2. \A i \in 1 .. Len(Tail(q)) : i + 1 \in 1 .. Len(q) /\ i + 1 > 1
  BY <1>1
<1>3. \A i \in 1 .. Len(q) : i = 1 \/ (i - 1 \in 1 .. Len(Tail(q)) /\ i = (i - 1) + 1)
  BY <1>1
<1>4. ASSUME NEW x PROVE Among(x, q) <=> x = Head(q) \/ Among(x, Tail(q))
  <2>1. ASSUME NEW i \in 1 .. Len(q), q[i] = x, i # 1
        PROVE  Among(x, Tail(q))
    <3>1. Tail(q)[i - 1] = q[i]
      BY <1>1, <1>3, <2>1
    <3> QED
      BY <1>3, <2>1, <3>1 DEF Among
  <2>2. Among(x, Tail(q)) => Among(x, q)
    BY <1>1, <1>2 DEF Among
  <2>3. 1 \in 1 .. Len(q)
    BY <1>1
  <2> QED
    BY <1>1, <2>1, <2>2, <2>3 DEF Among
<1> QED
  BY <1>1, <1>2, <1>4

LEMMA AmongEmpty == \A x : ~ Among(x, <<>>)
BY DEF Among

LEMMA LogFields ==
    ASSUME TypeOK
    PROVE  /\ Len(log) \in Nat
           /\ \A p \in 1 .. Len(log) : /\ p \in Positions /\ p \in Nat
                                       /\ log[p].by \in Senders
                                       /\ log[p].change \in Changes
<1>1. Len(log) \in Nat /\ Len(log) <= MaxChanges
  BY DEF TypeOK
<1>2. \A p \in 1 .. Len(log) : log[p] \in [change : Changes, by : Senders]
  BY <1>1, ElementOfSeq DEF TypeOK
<1> QED
  BY <1>1, <1>2, BoundsAreNumbers DEF Positions

\* The first event of a queue comes before the others.
LEMMA QueueFields ==
    ASSUME DInv, NEW s \in Senders, sender[s].queue # <<>>
    PROVE  /\ Head(sender[s].queue) \in 1 .. Len(log)
           /\ log[Head(sender[s].queue)].by = s
           /\ Among(Head(sender[s].queue), sender[s].queue)
           /\ ~ Among(Head(sender[s].queue), Tail(sender[s].queue))
           /\ \A p : Among(p, sender[s].queue) <=>
                         p = Head(sender[s].queue) \/ Among(p, Tail(sender[s].queue))
<1> DEFINE q == sender[s].queue
<1>0. TypeOK
  BY DEF DInv, IInv
<1>1. q \in Seq(Positions)
  BY <1>0, SenderFields
<1>2. /\ Head(q) = q[1] /\ 1 \in 1 .. Len(q)
      /\ \A i \in 1 .. Len(Tail(q)) : Tail(q)[i] = q[i + 1] /\ i + 1 \in 1 .. Len(q) /\ i + 1 > 1
      /\ \A x : Among(x, q) <=> x = Head(q) \/ Among(x, Tail(q))
  BY <1>1, AmongTail
<1>3. /\ \A i \in 1 .. Len(q) : q[i] \in 1 .. Len(log) /\ log[q[i]].by = s
      /\ \A i, j \in 1 .. Len(q) : i < j => q[i] < q[j]
  BY DEF DInv, QueueSteps
<1>4. \A i \in 1 .. Len(q) : q[i] \in Nat
  BY <1>0, <1>3, LogFields
<1>5. ASSUME NEW i \in 1 .. Len(Tail(q)) PROVE Tail(q)[i] # Head(q)
  <2> HIDE DEF q
  <2>1. i + 1 > 1 => 1 < i + 1
    OBVIOUS
  <2>2. q[1] < q[i + 1]
    BY <1>2, <1>3, <2>1
  <2>3. q[1] # q[i + 1]
    BY <1>2, <1>4, <2>2
  <2> QED
    BY <1>2, <2>3
<1> QED
  BY <1>2, <1>3, <1>5 DEF Among

\* The handler of a change that it has committed.
LEMMA OneSender ==
    ASSUME TypeOK, NEW s \in Senders, NEW r, sender' = [sender EXCEPT ![s] = r]
    PROVE  sender'[s] = r /\ \A g \in Senders : g # s => sender'[g] = sender[g]
BY DEF TypeOK

\* The streams while only handlers move: what was passed stays passed, and
\* nothing is passed that a stream should have got.
LEMMA StreamsKept ==
    ASSUME DInv, UNCHANGED <<watcher, delivered>>, listeners \subseteq listeners',
           Len(log') \in Nat, Len(log') >= Len(log),
           \A p \in 1 .. Len(log) : log'[p] = log[p],
           \A w \in Watchers : \A p \in 1 .. Len(log) :
               Holds(w, p) /\ Past(w, p) => Past(w, p)',
           \A w \in Watchers : \A p \in 1 .. Len(log') :
               Live(w) /\ watcher[w].registered < p /\ Matches(w, log'[p].change) /\ Past(w, p)'
                   => p \in 1 .. Len(log) /\ Past(w, p)
    PROVE  StreamSteps'
<1>0. TypeOK
  BY DEF DInv, IInv
<1>1. \A w : Live(w)' <=> Live(w)
  BY DEF Live
<1>2. \A w, p : Holds(w, p)' <=> Holds(w, p)
  BY DEF Holds, Among
<1>3. \A p \in 1 .. Len(log) : p \in 1 .. Len(log')
  BY <1>0, LogFields
<1> SUFFICES ASSUME NEW w \in Watchers
             PROVE  StreamOK(w)'
  BY DEF StreamSteps
<1>4. /\ watcher[w].pc # "forwarding" => watcher[w].event = 0
      /\ Live(w) => w \in listeners
      /\ \A p \in Positions : Holds(w, p) => /\ p \in 1 .. Len(log)
                                             /\ Matches(w, log[p].change)
                                             /\ Past(w, p)
      /\ Live(w) => \A p \in 1 .. Len(log) :
            watcher[w].registered < p /\ Matches(w, log[p].change) /\ Past(w, p)
                => Holds(w, p)
      /\ watcher[w].event # 0 => \A q \in Positions :
            Among(q, delivered[w]) /\ log[q].by = log[watcher[w].event].by
                => q < watcher[w].event
  BY DEF DInv, StreamSteps, StreamOK
<1>5. watcher[w].event # 0 => watcher[w].event \in Positions
  BY <1>0, BoundsAreNumbers DEF TypeOK, Watcher, Positions
<1>6. \A q \in Positions : Among(q, delivered[w]) => q \in 1 .. Len(log)
  BY <1>4 DEF Holds
<1>7. watcher[w].event # 0 => watcher[w].event \in 1 .. Len(log)
  BY <1>4, <1>5 DEF Holds
<1>8. /\ \A p \in Positions : Holds(w, p)' => /\ p \in 1 .. Len(log')
                                              /\ Matches(w, log'[p].change)
                                              /\ Past(w, p)'
  BY <1>2, <1>3, <1>4
<1>9. Live(w)' => \A p \in 1 .. Len(log') :
         watcher'[w].registered < p /\ Matches(w, log'[p].change) /\ Past(w, p)'
             => Holds(w, p)'
  BY <1>1, <1>2, <1>4
<1>10. watcher'[w].event # 0 => \A q \in Positions :
          Among(q, delivered'[w]) /\ log'[q].by = log'[watcher'[w].event].by
              => q < watcher'[w].event
  BY <1>4, <1>6, <1>7 DEF Among
<1> QED
  BY <1>1, <1>4, <1>8, <1>9, <1>10 DEF StreamOK, Positions

\* A commit queues its changes behind all others; nobody is past them.
LEMMA CommitChangesDelivers ==
    ASSUME DInv, IInv', NEW s \in Senders, NEW batch \in Batches, CommitChanges(s, batch)
    PROVE  QueueSteps' /\ RangeSteps' /\ StreamSteps'
<1>0. TypeOK /\ TypeOK'
  BY DEF DInv, IInv
<1>1. PICK n \in 1 .. MaxBatch : batch \in [1 .. n -> Changes]
  BY DEF Batches
<1>2. n \in Nat /\ n >= 1 /\ Len(batch) = n
  BY <1>1, BoundsAreNumbers
<1> DEFINE new == [i \in 1 .. n |-> [change |-> batch[i], by |-> s]]
           queue == [i \in 1 .. n |-> Len(log) + i]
<1>3. /\ log' = log \o new
      /\ sender' = [sender EXCEPT ![s] = [pc |-> "rlock", queue |-> queue, todo |-> <<>>]]
      /\ sender[s].pc = "idle"
      /\ UNCHANGED <<watcher, listeners, readers, writer, delivered, connected>>
  BY <1>2 DEF CommitChanges
<1>4. /\ sender'[s] = [pc |-> "rlock", queue |-> queue, todo |-> <<>>]
      /\ \A g \in Senders : g # s => sender'[g] = sender[g]
  BY <1>0, <1>3, OneSender
<1>5. /\ new \in Seq([change : Changes, by : Senders]) /\ Len(new) = n
      /\ \A i \in 1 .. n : new[i].by = s
      /\ Len(queue) = n /\ \A i \in 1 .. n : queue[i] = Len(log) + i
  BY <1>1, <1>2
<1>6. /\ Len(log) \in Nat /\ Len(log') = Len(log) + n
      /\ \A p \in 1 .. Len(log) : log'[p] = log[p]
      /\ \A p \in Len(log) + 1 .. Len(log) + n : log'[p].by = s
  <2> HIDE DEF new, queue
  <2>1. Len(log) \in Nat /\ log \in Seq([change : Changes, by : Senders])
    BY <1>0 DEF TypeOK
  <2>2. /\ Len(log \o new) = Len(log) + n
        /\ \A i \in 1 .. Len(log) + n :
               (log \o new)[i] = IF i <= Len(log) THEN log[i] ELSE new[i - Len(log)]
    BY <1>5, <2>1, ConcatProperties
  <2>3. \A p \in Len(log) + 1 .. Len(log) + n :
            p \in 1 .. Len(log) + n /\ ~ (p <= Len(log)) /\ p - Len(log) \in 1 .. n
    BY <1>2, <2>1
  <2>4. \A p \in 1 .. Len(log) : p \in 1 .. Len(log) + n /\ p <= Len(log)
    BY <1>2, <2>1
  <2> QED
    BY <1>3, <1>5, <2>1, <2>2, <2>3, <2>4
<1>7. \A p : Among(p, queue) <=> p \in Len(log) + 1 .. Len(log) + n
  <2>1. \A p \in Len(log) + 1 .. Len(log) + n :
            p - Len(log) \in 1 .. n /\ p = Len(log) + (p - Len(log))
    BY <1>2, <1>6
  <2>2. \A i \in 1 .. n : Len(log) + i \in Len(log) + 1 .. Len(log) + n
    BY <1>2, <1>6
  <2> HIDE DEF queue
  <2> QED
    BY <1>5, <2>1, <2>2 DEF Among
<1>8. /\ sender[s].queue = <<>>
      /\ \A p : ~ Among(p, sender[s].queue)
  BY <1>3, AmongEmpty DEF DInv, QueueSteps
<1>9. \A p \in 1 .. Len(log) : p \notin Len(log) + 1 .. Len(log) + n
  BY <1>6
<1>10. \A p \in 1 .. Len(log') : p \in 1 .. Len(log) \/ p \in Len(log) + 1 .. Len(log) + n
  BY <1>2, <1>6
<1>11. \A p \in 1 .. Len(log) : p \in 1 .. Len(log')
  BY <1>2, <1>6
<1> HIDE DEF new, queue
<1>12. QueueSteps'
  <2> SUFFICES ASSUME NEW g \in Senders
               PROVE  /\ sender'[g].pc = "idle" => sender'[g].queue = <<>>
                      /\ \A i \in 1 .. Len(sender'[g].queue) :
                            /\ sender'[g].queue[i] \in 1 .. Len(log')
                            /\ log'[sender'[g].queue[i]].by = g
                      /\ \A i, j \in 1 .. Len(sender'[g].queue) :
                            i < j => sender'[g].queue[i] < sender'[g].queue[j]
                      /\ \A p \in 1 .. Len(log') : log'[p].by = g =>
                            \/ Among(p, sender'[g].queue)
                            \/ \A i \in 1 .. Len(sender'[g].queue) : p < sender'[g].queue[i]
    BY DEF QueueSteps, Among
  <2>1. CASE g = s
    <3>1. \A i \in 1 .. n : /\ queue[i] \in Len(log) + 1 .. Len(log) + n
                            /\ queue[i] \in 1 .. Len(log')
      BY <1>2, <1>5, <1>6
    <3>2. \A i, j \in 1 .. n : i < j => queue[i] < queue[j]
      BY <1>2, <1>5, <1>6
    <3>3. \A p \in 1 .. Len(log) : \A i \in 1 .. n : p < queue[i]
      BY <1>2, <1>5, <1>6
    <3>4. sender'[g].queue = queue /\ sender'[g].pc = "rlock" /\ Len(queue) = n
      BY <1>4, <1>5, <2>1
    <3>5. \A i \in 1 .. n : log'[queue[i]].by = s
      BY <1>6, <3>1
    <3>6. \A p \in 1 .. Len(log') : Among(p, queue) \/ \A i \in 1 .. n : p < queue[i]
      BY <1>7, <1>10, <3>3
    <3> QED
      BY <2>1, <3>1, <3>2, <3>4, <3>5, <3>6
  <2>2. CASE g # s
    <3>1. sender'[g] = sender[g]
      BY <1>4, <2>2
    <3>2. /\ sender[g].pc = "idle" => sender[g].queue = <<>>
          /\ \A i \in 1 .. Len(sender[g].queue) : /\ sender[g].queue[i] \in 1 .. Len(log)
                                                  /\ log[sender[g].queue[i]].by = g
          /\ \A i, j \in 1 .. Len(sender[g].queue) :
                i < j => sender[g].queue[i] < sender[g].queue[j]
          /\ \A p \in 1 .. Len(log) : log[p].by = g =>
                \/ Among(p, sender[g].queue)
                \/ \A i \in 1 .. Len(sender[g].queue) : p < sender[g].queue[i]
      BY DEF DInv, QueueSteps
    <3>3. \A i \in 1 .. Len(sender[g].queue) : /\ sender[g].queue[i] \in 1 .. Len(log')
                                               /\ log'[sender[g].queue[i]].by = g
      BY <1>6, <1>11, <3>2
    <3>4. \A p \in 1 .. Len(log') : log'[p].by = g =>
             \/ Among(p, sender[g].queue)
             \/ \A i \in 1 .. Len(sender[g].queue) : p < sender[g].queue[i]
      BY <1>6, <1>10, <2>2, <3>2
    <3> QED
      BY <3>1, <3>2, <3>3, <3>4
  <2> QED
    BY <2>1, <2>2
<1>13. RangeSteps'
  <2> SUFFICES ASSUME NEW g \in Senders
               PROVE  /\ \A i, j \in 1 .. Len(sender'[g].todo) :
                            sender'[g].todo[i] = sender'[g].todo[j] => i = j
                      /\ \A i \in 1 .. Len(sender'[g].todo) :
                            Matches(sender'[g].todo[i], log'[Head(sender'[g].queue)].change)
    BY DEF RangeSteps
  <2>1. CASE g = s
    BY <1>4, <2>1
  <2>2. CASE g # s
    <3>1. sender[g].todo # <<>> => Head(sender[g].queue) \in 1 .. Len(log)
      BY QueueFields DEF DInv, IInv, SenderSteps
    <3>2. sender[g].todo = <<>> => ~ \E i \in 1 .. Len(sender[g].todo) : TRUE
      OBVIOUS
    <3> QED
      BY <1>4, <1>6, <2>2, <3>1, <3>2, ZenonT(40) DEF DInv, RangeSteps
  <2> QED
    BY <2>1, <2>2
<1>14. ASSUME NEW w \in Watchers, NEW p \in 1 .. Len(log)
       PROVE  Past(w, p)' <=> Past(w, p)
  <2>1. log'[p] = log[p] /\ log[p].by \in Senders
    BY <1>0, <1>6, LogFields
  <2>2. CASE log[p].by = s
    BY <1>4, <1>7, <1>8, <1>9, <2>1, <2>2 DEF Past, Among
  <2>3. CASE log[p].by # s
    BY <1>4, <2>1, <2>3 DEF Past, Among
  <2> QED
    BY <2>2, <2>3
<1>15. ASSUME NEW w \in Watchers, NEW p \in Len(log) + 1 .. Len(log) + n
       PROVE  ~ Past(w, p)'
  BY <1>4, <1>6, <1>7 DEF Past, Among
<1>16. StreamSteps'
  <2>1. /\ \A w \in Watchers : \A p \in 1 .. Len(log) :
               Holds(w, p) /\ Past(w, p) => Past(w, p)'
        /\ \A w \in Watchers : \A p \in 1 .. Len(log') :
               Live(w) /\ watcher[w].registered < p /\ Matches(w, log'[p].change) /\ Past(w, p)'
                   => p \in 1 .. Len(log) /\ Past(w, p)
    BY <1>10, <1>14, <1>15
  <2>2. Len(log') \in Nat /\ Len(log') >= Len(log)
    BY <1>2, <1>6
  <2> QED
    BY <1>3, <1>6, <2>1, <2>2, StreamsKept
<1> QED
  BY <1>12, <1>13, <1>16

\* The queues do not change.
LEMMA QueuesKept ==
    ASSUME DInv, UNCHANGED log,
           \A g \in Senders : /\ sender'[g].queue = sender[g].queue
                              /\ sender'[g].pc = "idle" => sender[g].pc = "idle"
    PROVE  QueueSteps'
<1> SUFFICES ASSUME NEW g \in Senders
             PROVE  /\ sender'[g].pc = "idle" => sender'[g].queue = <<>>
                    /\ \A i \in 1 .. Len(sender'[g].queue) :
                          /\ sender'[g].queue[i] \in 1 .. Len(log')
                          /\ log'[sender'[g].queue[i]].by = g
                    /\ \A i, j \in 1 .. Len(sender'[g].queue) :
                          i < j => sender'[g].queue[i] < sender'[g].queue[j]
                    /\ \A p \in 1 .. Len(log') : log'[p].by = g =>
                          \/ Among(p, sender'[g].queue)
                          \/ \A i \in 1 .. Len(sender'[g].queue) : p < sender'[g].queue[i]
  BY DEF QueueSteps, Among
<1>1. sender'[g].queue = sender[g].queue /\ (sender'[g].pc = "idle" => sender[g].pc = "idle")
  OBVIOUS
<1> QED
  BY <1>1 DEF DInv, QueueSteps

\* Handlers wait for the lock or get it, and are past nobody new.
LEMMA OnlyLocks ==
    ASSUME DInv, UNCHANGED log,
           \A g \in Senders : /\ sender'[g].queue = sender[g].queue
                              /\ sender'[g].todo = sender[g].todo
                              /\ sender'[g].pc = "idle" => sender[g].pc = "idle"
                              /\ sender'[g].pc = "sending" <=> sender[g].pc = "sending"
    PROVE  /\ QueueSteps' /\ RangeSteps'
           /\ \A w \in Watchers : \A p \in 1 .. Len(log) : Past(w, p)' <=> Past(w, p)
<1>0. TypeOK
  BY DEF DInv, IInv
<1>1. QueueSteps'
  BY QueuesKept
<1>2. RangeSteps'
  BY DEF DInv, RangeSteps
<1>3. ASSUME NEW w \in Watchers, NEW p \in 1 .. Len(log)
      PROVE  Past(w, p)' <=> Past(w, p)
  <2>1. log[p].by \in Senders /\ log' = log
    BY <1>0, LogFields
  <2>2. PICK g \in Senders : g = log[p].by /\ g = log'[p].by
    BY <2>1
  <2>3. Past(w, p) <=> (Among(p, sender[g].queue) =>
                          /\ sender[g].pc = "sending"
                          /\ p = Head(sender[g].queue) /\ ~ Among(w, sender[g].todo))
    BY <2>2 DEF Past
  <2>4. Past(w, p)' <=> (Among(p, sender'[g].queue) =>
                           /\ sender'[g].pc = "sending"
                           /\ p = Head(sender'[g].queue) /\ ~ Among(w, sender'[g].todo))
    BY <2>2 DEF Past, Among
  <2> QED
    BY <2>3, <2>4
<1> QED
  BY <1>1, <1>2, <1>3

LEMMA RLockDelivers ==
    ASSUME DInv, NEW s \in Senders, RLock(s)
    PROVE  QueueSteps' /\ RangeSteps' /\ StreamSteps'
<1>0. TypeOK
  BY DEF DInv, IInv
<1>1. PICK next \in {"granted", "queued"} : sender' = [sender EXCEPT ![s].pc = next]
  BY DEF RLock
<1>2. /\ UNCHANGED <<log, watcher, listeners, writer, delivered, connected>>
      /\ sender[s].pc = "rlock"
  BY DEF RLock
<1>3. sender' = [sender EXCEPT ![s] = [pc |-> next, queue |-> sender[s].queue,
                                       todo |-> sender[s].todo]]
  BY <1>0, <1>1, SenderExcept
<1>4. /\ sender'[s] = [pc |-> next, queue |-> sender[s].queue, todo |-> sender[s].todo]
      /\ \A g \in Senders : g # s => sender'[g] = sender[g]
  BY <1>0, <1>3, OneSender
<1>5. \A g \in Senders : /\ sender'[g].queue = sender[g].queue
                         /\ sender'[g].todo = sender[g].todo
                         /\ sender'[g].pc = "idle" => sender[g].pc = "idle"
                         /\ sender'[g].pc = "sending" <=> sender[g].pc = "sending"
  BY <1>2, <1>4
<1>6. /\ QueueSteps' /\ RangeSteps'
      /\ \A w \in Watchers : \A p \in 1 .. Len(log) : Past(w, p)' <=> Past(w, p)
  BY <1>2, <1>5, OnlyLocks
<1>7. Len(log) \in Nat /\ log' = log
  BY <1>0, <1>2, LogFields
<1> QED
  BY <1>2, <1>6, <1>7, StreamsKept

\* A range has the channels of all streams that match: the handler is past the
\* others with its event.
LEMMA RangeListenersDelivers ==
    ASSUME DInv, NEW s \in Senders, RangeListeners(s)
    PROVE  QueueSteps' /\ RangeSteps' /\ StreamSteps'
<1>0. TypeOK
  BY DEF DInv, IInv
<1> DEFINE S == {w \in listeners : Matches(w, log[Head(sender[s].queue)].change)}
<1>1. PICK order \in Orders(S) :
          sender' = [sender EXCEPT ![s] = [pc |-> "sending", queue |-> @.queue,
                                           todo |-> order]]
  BY DEF RangeListeners
<1>2. /\ UNCHANGED <<log, watcher, listeners, delivered>>
      /\ sender[s].pc = "granted" /\ sender[s].queue # <<>>
  BY DEF RangeListeners, DInv, IInv, SenderSteps
<1>3. S \in SUBSET Watchers
  BY <1>0 DEF TypeOK
<1>4. /\ \A i \in 1 .. Len(order) : order[i] \in S
      /\ \A i, j \in 1 .. Len(order) : order[i] = order[j] => i = j
      /\ \A w \in S : Among(w, order)
  <2> HIDE DEF S
  <2> QED
    BY <1>3, OrdersHaveAll
<1>5. /\ sender'[s] = [pc |-> "sending", queue |-> sender[s].queue, todo |-> order]
      /\ \A g \in Senders : g # s => sender'[g] = sender[g]
  BY <1>0, <1>1, OneSender
<1>6. QueueSteps'
  <2>1. \A g \in Senders : /\ sender'[g].queue = sender[g].queue
                           /\ sender'[g].pc = "idle" => sender[g].pc = "idle"
    BY <1>5
  <2> QED
    BY <1>2, <2>1, QueuesKept
<1>7. RangeSteps'
  <2> SUFFICES ASSUME NEW g \in Senders
               PROVE  /\ \A i, j \in 1 .. Len(sender'[g].todo) :
                            sender'[g].todo[i] = sender'[g].todo[j] => i = j
                      /\ \A i \in 1 .. Len(sender'[g].todo) :
                            Matches(sender'[g].todo[i], log'[Head(sender'[g].queue)].change)
    BY DEF RangeSteps
  <2>1. CASE g = s
    <3>1. sender'[g].todo = order /\ sender'[g].queue = sender[s].queue /\ log' = log
      BY <1>2, <1>5, <2>1
    <3>2. \A i \in 1 .. Len(order) : Matches(order[i], log[Head(sender[s].queue)].change)
      BY <1>4
    <3> QED
      BY <1>4, <3>1, <3>2
  <2>2. CASE g # s
    BY <1>2, <1>5, <2>2 DEF DInv, RangeSteps
  <2> QED
    BY <2>1, <2>2
<1>8. ASSUME NEW w \in Watchers, NEW p \in 1 .. Len(log)
      PROVE  /\ Past(w, p) => Past(w, p)'
             /\ Live(w) /\ Matches(w, log[p].change) /\ Past(w, p)' => Past(w, p)
  <2>1. log[p].by \in Senders /\ log' = log
    BY <1>0, <1>2, LogFields
  <2>2. CASE log[p].by = s
    <3>1. Past(w, p) <=> ~ Among(p, sender[s].queue)
      BY <1>2, <2>2 DEF Past
    <3>2. Past(w, p)' <=> (Among(p, sender[s].queue) =>
                             p = Head(sender[s].queue) /\ ~ Among(w, order))
      BY <1>5, <2>1, <2>2 DEF Past, Among
    <3>3. Live(w) => w \in listeners
      BY DEF DInv, StreamSteps, StreamOK
    <3>4. Live(w) /\ Matches(w, log[p].change) /\ p = Head(sender[s].queue) => Among(w, order)
      BY <1>4, <3>3
    <3> QED
      BY <3>1, <3>2, <3>4
  <2>3. CASE log[p].by # s
    BY <1>5, <2>1, <2>3 DEF Past, Among
  <2> QED
    BY <2>2, <2>3
<1>9. Len(log) \in Nat /\ log' = log
  BY <1>0, <1>2, LogFields
<1> QED
  BY <1>2, <1>6, <1>7, <1>8, <1>9, StreamsKept

\* The next event is sent after all channels of the range have got this one.
LEMMA RUnlockDelivers ==
    ASSUME DInv, NEW s \in Senders, RUnlock(s)
    PROVE  QueueSteps' /\ RangeSteps' /\ StreamSteps'
<1>0. TypeOK
  BY DEF DInv, IInv
<1> DEFINE q == sender[s].queue
           rest == Tail(sender[s].queue)
<1>1. /\ UNCHANGED <<log, watcher, listeners, delivered>>
      /\ sender[s].pc = "sending" /\ sender[s].todo = <<>> /\ q # <<>>
      /\ sender' = [sender EXCEPT ![s] = [pc |-> IF rest = <<>> THEN "idle" ELSE "rlock",
                                          queue |-> rest, todo |-> <<>>]]
  BY DEF RUnlock, DInv, IInv, SenderSteps
<1>2. /\ sender'[s] = [pc |-> IF rest = <<>> THEN "idle" ELSE "rlock",
                       queue |-> rest, todo |-> <<>>]
      /\ \A g \in Senders : g # s => sender'[g] = sender[g]
  BY <1>0, <1>1, OneSender
<1>3. /\ Head(q) = q[1] /\ 1 \in 1 .. Len(q)
      /\ \A i \in 1 .. Len(rest) : rest[i] = q[i + 1] /\ i + 1 \in 1 .. Len(q) /\ i + 1 > 1
  BY <1>0, <1>1, SenderFields, AmongTail
<1>4. /\ Head(q) \in 1 .. Len(log)
      /\ ~ Among(Head(q), rest)
      /\ \A p : Among(p, q) <=> p = Head(q) \/ Among(p, rest)
  BY <1>1, QueueFields
<1>5. /\ \A i \in 1 .. Len(q) : q[i] \in 1 .. Len(log) /\ log[q[i]].by = s
      /\ \A i, j \in 1 .. Len(q) : i < j => q[i] < q[j]
      /\ \A p \in 1 .. Len(log) : log[p].by = s =>
            Among(p, q) \/ \A i \in 1 .. Len(q) : p < q[i]
  BY DEF DInv, QueueSteps
<1> HIDE DEF q, rest
<1>6. QueueSteps'
  <2> SUFFICES ASSUME NEW g \in Senders
               PROVE  /\ sender'[g].pc = "idle" => sender'[g].queue = <<>>
                      /\ \A i \in 1 .. Len(sender'[g].queue) :
                            /\ sender'[g].queue[i] \in 1 .. Len(log')
                            /\ log'[sender'[g].queue[i]].by = g
                      /\ \A i, j \in 1 .. Len(sender'[g].queue) :
                            i < j => sender'[g].queue[i] < sender'[g].queue[j]
                      /\ \A p \in 1 .. Len(log') : log'[p].by = g =>
                            \/ Among(p, sender'[g].queue)
                            \/ \A i \in 1 .. Len(sender'[g].queue) : p < sender'[g].queue[i]
    BY DEF QueueSteps, Among
  <2>1. CASE g = s
    <3>1. /\ sender'[g].queue = rest /\ log' = log
          /\ sender'[g].pc = "idle" => rest = <<>>
      BY <1>1, <1>2, <2>1
    <3>2. \A i \in 1 .. Len(rest) : rest[i] \in 1 .. Len(log) /\ log[rest[i]].by = s
      BY <1>3, <1>5
    <3>3. ASSUME NEW i \in 1 .. Len(rest), NEW j \in 1 .. Len(rest), i < j
          PROVE  rest[i] < rest[j]
      <4>1. i + 1 < j + 1
        BY <3>3
      <4> QED
        BY <1>3, <1>5, <4>1
    <3>4. ASSUME NEW i \in 1 .. Len(rest) PROVE Head(q) < rest[i]
      <4>1. 1 < i + 1
        BY <1>3
      <4> QED
        BY <1>3, <1>5, <4>1
    <3>5. \A p \in 1 .. Len(log) : log[p].by = s =>
             Among(p, rest) \/ \A i \in 1 .. Len(rest) : p < rest[i]
      BY <1>3, <1>4, <1>5, <3>4
    <3> QED
      BY <2>1, <3>1, <3>2, <3>3, <3>5
  <2>2. CASE g # s
    <3>1. sender'[g] = sender[g] /\ log' = log
      BY <1>1, <1>2, <2>2
    <3> QED
      BY <3>1 DEF DInv, QueueSteps
  <2> QED
    BY <2>1, <2>2
<1>7. RangeSteps'
  <2> SUFFICES ASSUME NEW g \in Senders
               PROVE  /\ \A i, j \in 1 .. Len(sender'[g].todo) :
                            sender'[g].todo[i] = sender'[g].todo[j] => i = j
                      /\ \A i \in 1 .. Len(sender'[g].todo) :
                            Matches(sender'[g].todo[i], log'[Head(sender'[g].queue)].change)
    BY DEF RangeSteps
  <2>1. CASE g = s
    BY <1>2, <2>1
  <2>2. CASE g # s
    BY <1>1, <1>2, <2>2 DEF DInv, RangeSteps
  <2> QED
    BY <2>1, <2>2
<1>8. ASSUME NEW w \in Watchers, NEW p \in 1 .. Len(log)
      PROVE  Past(w, p) <=> Past(w, p)'
  <2>1. log[p].by \in Senders /\ log' = log
    BY <1>0, <1>1, LogFields
  <2>2. CASE log[p].by = s
    <3>1. Past(w, p) <=> (Among(p, q) => p = Head(q))
      BY <1>1, <2>2, AmongEmpty DEF Past, q
    <3>2. Past(w, p)' <=> ~ Among(p, rest)
      BY <1>2, <2>1, <2>2 DEF Past, Among
    <3> QED
      BY <1>4, <3>1, <3>2
  <2>3. CASE log[p].by # s
    BY <1>2, <2>1, <2>3 DEF Past, Among
  <2> QED
    BY <2>2, <2>3
<1>9. Len(log) \in Nat /\ log' = log
  BY <1>0, <1>1, LogFields
<1> QED
  BY <1>1, <1>6, <1>7, <1>8, <1>9, StreamsKept

\* A stream that a step does not touch.
LEMMA StreamSame ==
    ASSUME DInv, UNCHANGED log, NEW w \in Watchers,
           watcher'[w] = watcher[w], delivered'[w] = delivered[w],
           w \in listeners /\ Live(w) => w \in listeners',
           \A p \in 1 .. Len(log) : Past(w, p)' <=> Past(w, p)
    PROVE  StreamOK(w)'
<1>1. StreamOK(w)
  BY DEF DInv, StreamSteps
<1>2. Live(w)' <=> Live(w)
  BY DEF Live
<1>3. \A p : Holds(w, p)' <=> Holds(w, p)
  BY DEF Holds, Among
<1>4. \A q \in Positions : Among(q, delivered'[w]) <=> Among(q, delivered[w])
  BY DEF Among
<1>5. \A p \in Positions : Holds(w, p)' => /\ p \in 1 .. Len(log')
                                           /\ Matches(w, log'[p].change)
                                           /\ Past(w, p)'
  BY <1>1, <1>3 DEF StreamOK
<1>6. Live(w)' => \A p \in 1 .. Len(log') :
          watcher'[w].registered < p /\ Matches(w, log'[p].change) /\ Past(w, p)'
              => Holds(w, p)'
  BY <1>1, <1>2, <1>3 DEF StreamOK
<1>7. watcher'[w].event # 0 => \A q \in Positions :
          Among(q, delivered'[w]) /\ log'[q].by = log'[watcher'[w].event].by
              => q < watcher'[w].event
  BY <1>1, <1>4 DEF StreamOK
<1>8. /\ watcher'[w].pc # "forwarding" => watcher'[w].event = 0
      /\ Live(w)' => w \in listeners'
  BY <1>1, <1>2 DEF StreamOK
<1> QED
  BY <1>5, <1>6, <1>7, <1>8 DEF StreamOK, Positions

\* A stream that moves on and has no event in hand then.
LEMMA StreamMoves ==
    ASSUME DInv, UNCHANGED log, NEW w \in Watchers,
           watcher'[w].event = 0,
           \A p \in Positions : Holds(w, p)' => Holds(w, p),
           Live(w)' => /\ w \in listeners'
                       /\ \/ watcher'[w].registered = Len(log)
                          \/ /\ Live(w) /\ watcher'[w].registered = watcher[w].registered
                             /\ \A p \in Positions : Holds(w, p) => Holds(w, p)',
           \A p \in 1 .. Len(log) : Past(w, p)' <=> Past(w, p)
    PROVE  StreamOK(w)'
<1>0. TypeOK
  BY DEF DInv, IInv
<1>1. StreamOK(w)
  BY DEF DInv, StreamSteps
<1>2. Len(log) \in Nat /\ \A p \in 1 .. Len(log) : p \in Positions /\ ~ (Len(log) < p)
  BY <1>0, LogFields
<1>3. \A p \in Positions : Holds(w, p)' => /\ p \in 1 .. Len(log')
                                           /\ Matches(w, log'[p].change)
                                           /\ Past(w, p)'
  BY <1>1 DEF StreamOK
<1>4. Live(w)' => \A p \in 1 .. Len(log') :
          watcher'[w].registered < p /\ Matches(w, log'[p].change) /\ Past(w, p)'
              => Holds(w, p)'
  BY <1>1, <1>2 DEF StreamOK
<1> QED
  BY <1>3, <1>4 DEF StreamOK, Positions

\* A send: the handler is past this stream too, which has the event.
LEMMA SendEventDelivers ==
    ASSUME DInv, IInv', NEW s \in Senders, NEW w \in Watchers, SendEvent(s, w)
    PROVE  QueueSteps' /\ RangeSteps' /\ StreamSteps'
<1>0. TypeOK /\ TypeOK'
  BY DEF DInv, IInv
<1> DEFINE q == sender[s].queue
           todo == sender[s].todo
<1>1. /\ UNCHANGED <<log, listeners, delivered>>
      /\ sender[s].pc = "sending" /\ todo # <<>> /\ q # <<>>
      /\ w = Head(todo) /\ watcher[w].pc = "receiving"
      /\ sender' = [sender EXCEPT ![s].todo = Tail(todo)]
      /\ watcher' = [watcher EXCEPT ![w].pc = "forwarding", ![w].event = Head(q)]
  BY <1>0 DEF SendEvent, DInv, IInv, SenderSteps, TypeOK
<1>2. /\ sender'[s] = [pc |-> "sending", queue |-> q, todo |-> Tail(todo)]
      /\ \A g \in Senders : g # s => sender'[g] = sender[g]
  <2>1. sender' = [sender EXCEPT ![s] = [pc |-> "sending", queue |-> q, todo |-> Tail(todo)]]
    <3>1. \A x : [sender EXCEPT ![s].todo = x] =
                     [sender EXCEPT ![s] = [pc |-> sender[s].pc, queue |-> q, todo |-> x]]
      BY <1>0, SenderExcept
    <3>2. sender' = [sender EXCEPT ![s] = [pc |-> sender[s].pc, queue |-> q, todo |-> Tail(todo)]]
      BY <1>1, <3>1
    <3> QED
      BY <1>1, <3>2
  <2> QED
    BY <1>0, <2>1, OneSender
<1>3. /\ watcher'[w].pc = "forwarding" /\ watcher'[w].event = Head(q)
      /\ watcher'[w].registered = watcher[w].registered
      /\ \A v \in Watchers : v # w => watcher'[v] = watcher[v]
  <2>1. watcher[w] \in Watcher
    BY <1>0 DEF TypeOK
  <2> QED
    BY <1>0, <1>1, <2>1 DEF TypeOK, Watcher
<1>4. /\ Head(todo) = todo[1] /\ 1 \in 1 .. Len(todo)
      /\ \A i \in 1 .. Len(Tail(todo)) :
             Tail(todo)[i] = todo[i + 1] /\ i + 1 \in 1 .. Len(todo) /\ i + 1 > 1
      /\ \A x : Among(x, todo) <=> x = Head(todo) \/ Among(x, Tail(todo))
  BY <1>0, <1>1, SenderFields, AmongTail
<1>5. /\ \A i, j \in 1 .. Len(todo) : todo[i] = todo[j] => i = j
      /\ \A i \in 1 .. Len(todo) : Matches(todo[i], log[Head(q)].change)
  BY DEF DInv, RangeSteps
<1>6. ~ Among(w, Tail(todo))
  <2>1. ASSUME NEW i \in 1 .. Len(Tail(todo)) PROVE Tail(todo)[i] # w
    <3>1. i + 1 # 1
      BY <1>4
    <3> QED
      BY <1>1, <1>4, <1>5, <3>1
  <2> QED
    BY <2>1 DEF Among
<1>7. /\ Head(q) \in 1 .. Len(log) /\ log[Head(q)].by = s /\ Among(Head(q), q)
      /\ Head(q) \in Positions /\ Head(q) # 0
  <2>1. Head(q) \in 1 .. Len(log) /\ log[Head(q)].by = s /\ Among(Head(q), q)
    BY <1>1, QueueFields
  <2> QED
    BY <1>0, <2>1, LogFields
<1>8. QueueSteps'
  <2>1. \A g \in Senders : /\ sender'[g].queue = sender[g].queue
                           /\ sender'[g].pc = "idle" => sender[g].pc = "idle"
    BY <1>2
  <2> QED
    BY <1>1, <2>1, QueuesKept
<1> HIDE DEF q, todo
<1>9. RangeSteps'
  <2> SUFFICES ASSUME NEW g \in Senders
               PROVE  /\ \A i, j \in 1 .. Len(sender'[g].todo) :
                            sender'[g].todo[i] = sender'[g].todo[j] => i = j
                      /\ \A i \in 1 .. Len(sender'[g].todo) :
                            Matches(sender'[g].todo[i], log'[Head(sender'[g].queue)].change)
    BY DEF RangeSteps
  <2>1. CASE g = s
    <3>1. sender'[g].todo = Tail(todo) /\ sender'[g].queue = q /\ log' = log
      BY <1>1, <1>2, <2>1
    <3>2. ASSUME NEW i \in 1 .. Len(Tail(todo)), NEW j \in 1 .. Len(Tail(todo)),
                 Tail(todo)[i] = Tail(todo)[j]
          PROVE  i = j
      <4>1. i + 1 = j + 1
        BY <1>4, <1>5, <3>2
      <4> QED
        BY <4>1
    <3>3. \A i \in 1 .. Len(Tail(todo)) : Matches(Tail(todo)[i], log[Head(q)].change)
      BY <1>4, <1>5
    <3> QED
      BY <3>1, <3>2, <3>3
  <2>2. CASE g # s
    BY <1>1, <1>2, <2>2 DEF DInv, RangeSteps
  <2> QED
    BY <2>1, <2>2
<1>10. ASSUME NEW v \in Watchers, NEW p \in 1 .. Len(log)
       PROVE  /\ v # w => (Past(v, p)' <=> Past(v, p))
              /\ Past(w, p)' <=> Past(w, p) \/ p = Head(q)
  <2>1. log[p].by \in Senders /\ log' = log
    BY <1>0, <1>1, LogFields
  <2>2. CASE log[p].by = s
    <3>1. /\ sender[s].pc = "sending" /\ sender'[s].pc = "sending"
          /\ sender[s].queue = q /\ sender'[s].queue = q
          /\ sender[s].todo = todo /\ sender'[s].todo = Tail(todo)
      BY <1>1, <1>2 DEF q, todo
    <3>2. \A u : Past(u, p) <=> (Among(p, q) => p = Head(q) /\ ~ Among(u, todo))
      BY <2>2, <3>1 DEF Past
    <3>3. \A u : Past(u, p)' <=> (Among(p, q) => p = Head(q) /\ ~ Among(u, Tail(todo)))
      BY <2>1, <2>2, <3>1 DEF Past, Among
    <3> QED
      BY <1>1, <1>4, <1>6, <3>2, <3>3
  <2>3. CASE log[p].by # s
    BY <1>2, <1>7, <2>1, <2>3 DEF Past, Among
  <2> QED
    BY <2>2, <2>3
<1>11. ASSUME NEW v \in Watchers, v # w PROVE StreamOK(v)'
  BY <1>1, <1>3, <1>10, <1>11, StreamSame
<1>12. StreamOK(w)'
  <2>1. StreamOK(w) /\ Live(w) /\ Live(w)'
    BY <1>1, <1>3 DEF DInv, StreamSteps, Live
  <2>2. watcher[w].event = 0
    BY <1>1, <2>1 DEF StreamOK
  <2>3. \A p \in Positions : Holds(w, p)' <=> Holds(w, p) \/ p = Head(q)
    <3>1. \A p \in Positions : p # 0
      BY BoundsAreNumbers DEF Positions
    <3> QED
      BY <1>1, <1>3, <2>2, <3>1 DEF Holds, Among
  <2>4. Matches(w, log[Head(q)].change)
    BY <1>1, <1>4, <1>5
  <2>5. \A p \in Positions : Holds(w, p)' => /\ p \in 1 .. Len(log')
                                             /\ Matches(w, log'[p].change)
                                             /\ Past(w, p)'
    BY <1>1, <1>7, <1>10, <2>1, <2>3, <2>4 DEF StreamOK
  <2>6. \A p \in 1 .. Len(log') :
           watcher'[w].registered < p /\ Matches(w, log'[p].change) /\ Past(w, p)'
               => Holds(w, p)'
    <3>1. \A p \in 1 .. Len(log) : p \in Positions
      BY <1>0, LogFields
    <3> QED
      BY <1>1, <1>3, <1>10, <2>1, <2>3, <3>1 DEF StreamOK
  <2>7. ASSUME NEW x \in Positions, Among(x, delivered'[w]), log'[x].by = log'[Head(q)].by
        PROVE  x < Head(q)
    <3>1. x \in 1 .. Len(log) /\ log[x].by = s /\ Past(w, x)
      BY <1>1, <1>7, <2>1, <2>7 DEF StreamOK, Holds
    <3>2. ~ Among(x, q)
      BY <1>1, <1>4, <3>1 DEF Past, q, todo
    <3>3. \A i \in 1 .. Len(q) : x < q[i]
      BY <3>1, <3>2 DEF DInv, QueueSteps, q
    <3> QED
      BY <1>7, <3>3 DEF Among
  <2> QED
    BY <1>1, <1>3, <2>1, <2>5, <2>6, <2>7 DEF StreamOK, Positions
<1> QED
  BY <1>8, <1>9, <1>11, <1>12 DEF StreamSteps

\* A step of one stream, with handlers that at most get the lock.
LEMMA OneStream ==
    ASSUME DInv, NEW w \in Watchers, UNCHANGED log,
           sender' = sender \/ Unlock,
           \A v \in Watchers : v # w => /\ watcher'[v] = watcher[v]
                                        /\ delivered'[v] = delivered[v]
                                        /\ v \in listeners => v \in listeners',
           (\A p \in 1 .. Len(log) : Past(w, p)' <=> Past(w, p)) => StreamOK(w)'
    PROVE  QueueSteps' /\ RangeSteps' /\ StreamSteps'
<1>0. TypeOK
  BY DEF DInv, IInv
<1>1. ASSUME NEW g \in Senders
      PROVE  /\ sender'[g].queue = sender[g].queue
             /\ sender'[g].todo = sender[g].todo
             /\ sender'[g].pc = "idle" => sender[g].pc = "idle"
             /\ sender'[g].pc = "sending" <=> sender[g].pc = "sending"
  <2>1. CASE sender' = sender
    BY <2>1
  <2>2. CASE Unlock
    <3>1. sender'[g] = IF sender[g].pc = "queued" THEN [sender[g] EXCEPT !.pc = "granted"]
                                                  ELSE sender[g]
      BY <2>2 DEF Unlock, Queued
    <3>2. sender[g] \in Sender
      BY <1>0, SenderFields
    <3> QED
      BY <3>1, <3>2 DEF Sender
  <2> QED
    BY <2>1, <2>2
<1>2. /\ QueueSteps' /\ RangeSteps'
      /\ \A v \in Watchers : \A p \in 1 .. Len(log) : Past(v, p)' <=> Past(v, p)
  BY <1>1, OnlyLocks
<1>3. ASSUME NEW v \in Watchers PROVE StreamOK(v)'
  BY <1>2, StreamSame
<1> QED
  BY <1>2, <1>3 DEF StreamSteps

\* A stream that moves on with an empty hand.
LEMMA MoveDelivers ==
    ASSUME DInv, NEW w \in Watchers,
           watcher[w].pc # "forwarding",
           Live(w)' => Live(w),
           watcher'[w].event = watcher[w].event,
           watcher'[w].registered = watcher[w].registered,
           \A v \in Watchers : v # w => watcher'[v] = watcher[v],
           sender' = sender \/ Unlock,
           UNCHANGED <<log, delivered>>,
           \A v \in listeners : v \in listeners' \/ (v = w /\ ~ Live(w)')
    PROVE  QueueSteps' /\ RangeSteps' /\ StreamSteps'
<1>0. TypeOK /\ StreamOK(w)
  BY DEF DInv, IInv, StreamSteps
<1>1. watcher'[w].event = 0 /\ watcher[w].event = 0
  BY <1>0 DEF StreamOK
<1>2. \A p : Holds(w, p)' <=> Holds(w, p)
  BY <1>1 DEF Holds, Among
<1>3. Live(w)' => Live(w) /\ w \in listeners /\ w \in listeners'
  BY <1>0 DEF StreamOK
<1>4. (\A p \in 1 .. Len(log) : Past(w, p)' <=> Past(w, p)) => StreamOK(w)'
  BY <1>1, <1>2, <1>3, StreamMoves
<1> QED
  BY <1>1, <1>4, OneStream

\* A stream that adds its channel has missed nothing since.
LEMMA AddListenerDelivers ==
    ASSUME DInv, NEW w \in Watchers, AddListener(w)
    PROVE  QueueSteps' /\ RangeSteps' /\ StreamSteps'
<1>0. TypeOK /\ StreamOK(w)
  BY DEF DInv, IInv, StreamSteps
<1>1. /\ watcher[w].pc = "adding" /\ listeners' = listeners \cup {w} /\ Unlock
      /\ UNCHANGED <<log, delivered>>
      /\ \E x : watcher' = [watcher EXCEPT ![w].pc = x, ![w].registered = Len(log)]
  BY DEF AddListener
<1>2. /\ watcher'[w].event = 0 /\ watcher[w].event = 0
      /\ watcher'[w].registered = Len(log)
      /\ \A v \in Watchers : v # w => watcher'[v] = watcher[v]
  <2>1. PICK x : watcher' = [watcher EXCEPT ![w].pc = x, ![w].registered = Len(log)]
    BY <1>1
  <2>2. watcher[w].event = 0
    BY <1>0, <1>1 DEF StreamOK
  <2>3. watcher \in [Watchers -> Watcher] /\ watcher[w] \in Watcher
    BY <1>0 DEF TypeOK
  <2> QED
    BY <2>1, <2>2, <2>3 DEF Watcher
<1>3. \A p : Holds(w, p)' <=> Holds(w, p)
  BY <1>1, <1>2 DEF Holds, Among
<1>4. (\A p \in 1 .. Len(log) : Past(w, p)' <=> Past(w, p)) => StreamOK(w)'
  BY <1>1, <1>2, <1>3, StreamMoves
<1> QED
  BY <1>1, <1>2, <1>4, OneStream

\* A forwarded event joins those the client has; a stream that cannot forward
\* goes to remove its channel.
LEMMA ForwardEventDelivers ==
    ASSUME DInv, NEW w \in Watchers, ForwardEvent(w)
    PROVE  QueueSteps' /\ RangeSteps' /\ StreamSteps'
<1>0. TypeOK
  BY DEF DInv, IInv
<1> DEFINE e == watcher[w].event
<1>1. watcher[w].pc = "forwarding" /\ UNCHANGED <<log, sender, listeners>>
  BY DEF ForwardEvent
<1> PICK x \in {"receiving", "deleting"} :
        /\ watcher' = [watcher EXCEPT ![w].pc = x, ![w].event = 0]
        /\ \/ x = "deleting" /\ delivered' = delivered
           \/ delivered' = [delivered EXCEPT ![w] = Append(@, e)]
  BY DEF ForwardEvent
<1>2. /\ watcher'[w].event = 0 /\ watcher'[w].pc = x
      /\ watcher'[w].registered = watcher[w].registered
      /\ \A v \in Watchers : v # w => watcher'[v] = watcher[v]
  <2>1. watcher \in [Watchers -> Watcher] /\ watcher[w] \in Watcher
    BY <1>0 DEF TypeOK
  <2> QED
    BY <2>1 DEF Watcher
<1>3. /\ Live(w)
      /\ Live(w)' => delivered' = [delivered EXCEPT ![w] = Append(@, e)]
      /\ delivered' = delivered \/ delivered' = [delivered EXCEPT ![w] = Append(@, e)]
  BY <1>1, <1>2 DEF Live
<1>4. e \in Positions /\ e # 0
  BY <1>1, BoundsAreNumbers DEF DInv, IInv, WatcherSteps, Positions
<1>5. \A p \in Positions : p # 0
  BY BoundsAreNumbers DEF Positions
<1>6. ASSUME delivered' = [delivered EXCEPT ![w] = Append(@, e)]
      PROVE  /\ \A p \in Positions : Holds(w, p)' <=> Holds(w, p)
             /\ \A v \in Watchers : v # w => delivered'[v] = delivered[v]
  <2>1. delivered \in [Watchers -> Seq(Positions)] /\ delivered[w] \in Seq(Positions)
    BY <1>0 DEF TypeOK
  <2>2. delivered'[w] = Append(delivered[w], e)
    BY <1>6, <2>1
  <2>3. /\ Len(delivered[w]) \in Nat /\ Len(delivered'[w]) = Len(delivered[w]) + 1
        /\ delivered'[w][Len(delivered[w]) + 1] = e
        /\ \A i \in 1 .. Len(delivered[w]) : delivered'[w][i] = delivered[w][i]
    <3> HIDE DEF e
    <3> QED
      BY <1>4, <2>1, <2>2, AppendProperties
  <2>4. \A i \in 1 .. Len(delivered'[w]) : i \in 1 .. Len(delivered[w]) \/ i = Len(delivered[w]) + 1
    BY <2>3
  <2>5. /\ Len(delivered[w]) + 1 \in 1 .. Len(delivered'[w])
        /\ \A i \in 1 .. Len(delivered[w]) : i \in 1 .. Len(delivered'[w])
    BY <2>3
  <2>6. \A p : Among(p, delivered'[w]) <=> Among(p, delivered[w]) \/ p = e
    BY <2>3, <2>4, <2>5 DEF Among
  <2>7. \A p \in Positions : Holds(w, p)' <=> Among(p, delivered'[w])
    BY <1>2, <1>5 DEF Holds, Among
  <2>8. \A p \in Positions : Holds(w, p) <=> Among(p, delivered[w]) \/ p = e
    BY DEF Holds
  <2> QED
    BY <1>6, <2>1, <2>6, <2>7, <2>8
<1>7. /\ \A p \in Positions : Holds(w, p)' => Holds(w, p)
      /\ Live(w)' => \A p \in Positions : Holds(w, p) => Holds(w, p)'
      /\ \A v \in Watchers : v # w => delivered'[v] = delivered[v]
  <2>1. delivered' = delivered => \A p \in Positions : Holds(w, p)' => Holds(w, p)
    BY <1>2, <1>5 DEF Holds, Among
  <2> QED
    BY <1>3, <1>6, <2>1
<1>8. Live(w) => w \in listeners'
  BY <1>1 DEF DInv, StreamSteps, StreamOK
<1>9. (\A p \in 1 .. Len(log) : Past(w, p)' <=> Past(w, p)) => StreamOK(w)'
  BY <1>1, <1>2, <1>3, <1>7, <1>8, StreamMoves
<1> QED
  BY <1>1, <1>2, <1>7, <1>9, OneStream

\* Steps that leave streams and handlers where they are.
LEMMA RestDelivers ==
    ASSUME DInv, UNCHANGED <<log, sender, watcher, listeners, delivered>>
    PROVE  QueueSteps' /\ RangeSteps' /\ StreamSteps'
<1>1. /\ QueueSteps' /\ RangeSteps'
      /\ \A w \in Watchers : \A p \in 1 .. Len(log) : Past(w, p)' <=> Past(w, p)
  BY OnlyLocks
<1>2. \A w \in Watchers : StreamOK(w)'
  BY <1>1, StreamSame
<1> QED
  BY <1>1, <1>2 DEF StreamSteps

LEMMA WatcherStepDelivers ==
    ASSUME DInv, NEW w \in Watchers, StartWatch(w) \/ WatcherStep(w) \/ Disconnect(w)
    PROVE  QueueSteps' /\ RangeSteps' /\ StreamSteps'
<1>0. watcher \in [Watchers -> Watcher] /\ watcher[w] \in Watcher
  BY DEF DInv, IInv, TypeOK
<1>1. CASE StartWatch(w)
  <2>1. PICK x \in {"adding", "replaying"} : watcher' = [watcher EXCEPT ![w].pc = x]
    BY <1>1 DEF StartWatch
  <2>2. watcher[w].pc = "idle" /\ UNCHANGED <<log, sender, listeners, delivered>>
    BY <1>1 DEF StartWatch
  <2>3. /\ watcher'[w].event = watcher[w].event
        /\ watcher'[w].registered = watcher[w].registered
        /\ watcher'[w].pc = x
        /\ \A v \in Watchers : v # w => watcher'[v] = watcher[v]
    BY <1>0, <2>1 DEF Watcher
  <2> QED
    BY <2>2, <2>3, MoveDelivers DEF Live
<1>2. CASE FinishReplay(w)
  <2>1. PICK x \in {"adding", "returned"} : watcher' = [watcher EXCEPT ![w].pc = x]
    BY <1>2 DEF FinishReplay
  <2>2. watcher[w].pc = "replaying" /\ UNCHANGED <<log, sender, listeners, delivered>>
    BY <1>2 DEF FinishReplay
  <2>3. /\ watcher'[w].event = watcher[w].event
        /\ watcher'[w].registered = watcher[w].registered
        /\ watcher'[w].pc = x
        /\ \A v \in Watchers : v # w => watcher'[v] = watcher[v]
    BY <1>0, <2>1 DEF Watcher
  <2> QED
    BY <2>2, <2>3, MoveDelivers DEF Live
<1>3. CASE CommitReplay(w)
  <2>1. PICK x \in {"receiving", "returned"} : watcher' = [watcher EXCEPT ![w].pc = x]
    BY <1>3 DEF CommitReplay
  <2>2. watcher[w].pc = "committing" /\ UNCHANGED <<log, sender, listeners, delivered>>
    BY <1>3 DEF CommitReplay
  <2>3. /\ watcher'[w].event = watcher[w].event
        /\ watcher'[w].registered = watcher[w].registered
        /\ watcher'[w].pc = x
        /\ \A v \in Watchers : v # w => watcher'[v] = watcher[v]
    BY <1>0, <2>1 DEF Watcher
  <2>4. watcher[w].pc # "forwarding" /\ (Live(w)' => Live(w))
    BY <2>2 DEF Live
  <2>5. \A v \in listeners : v \in listeners' \/ (v = w /\ ~ Live(w)')
    BY <2>2
  <2>6. UNCHANGED <<log, delivered>> /\ (sender' = sender \/ Unlock)
    BY <2>2
  <2> QED
    BY <2>3, <2>4, <2>5, <2>6, MoveDelivers
<1>4. CASE DeleteListener(w)
  <2>1. /\ watcher[w].pc = "deleting" /\ UNCHANGED <<log, delivered>> /\ Unlock
        /\ listeners' = listeners \ {w} /\ watcher' = [watcher EXCEPT ![w].pc = "returned"]
    BY <1>4 DEF DeleteListener
  <2>2. /\ watcher'[w].event = watcher[w].event
        /\ watcher'[w].registered = watcher[w].registered
        /\ watcher'[w].pc = "returned"
        /\ \A v \in Watchers : v # w => watcher'[v] = watcher[v]
    BY <1>0, <2>1 DEF Watcher
  <2> QED
    BY <2>1, <2>2, MoveDelivers DEF Live
<1>5. CASE AnnounceWriter(w) \/ Disconnect(w)
  BY <1>5, RestDelivers DEF AnnounceWriter, Disconnect
<1> QED
  BY <1>1, <1>2, <1>3, <1>4, <1>5, AddListenerDelivers, ForwardEventDelivers DEF WatcherStep

THEOREM Delivers == Spec => []DInv
<1>1. Init => DInv
  <2> SUFFICES ASSUME Init PROVE DInv
    OBVIOUS
  <2>1. IInv
    BY InitIInv
  <2>2. QueueSteps /\ RangeSteps
    BY DEF Init, QueueSteps, RangeSteps
  <2>3. \A p \in Positions : p # 0
    BY BoundsAreNumbers DEF Positions
  <2>4. StreamSteps
    BY <2>3, AmongEmpty DEF Init, StreamSteps, StreamOK, Holds, Live
  <2> QED
    BY <2>1, <2>2, <2>4 DEF DInv
<1>2. DInv /\ [Next]_vars => DInv'
  <2> SUFFICES ASSUME DInv, [Next]_vars PROVE DInv'
    OBVIOUS
  <2>1. IInv'
    BY NextIInv DEF DInv
  <2>2. ASSUME NEW s \in Senders, NEW batch \in Batches, CommitChanges(s, batch)
        PROVE  QueueSteps' /\ RangeSteps' /\ StreamSteps'
    BY <2>1, <2>2, CommitChangesDelivers
  <2>3. ASSUME NEW s \in Senders, SenderStep(s)
        PROVE  QueueSteps' /\ RangeSteps' /\ StreamSteps'
    BY <2>1, <2>3, RLockDelivers, RangeListenersDelivers, SendEventDelivers,
       RUnlockDelivers DEF SenderStep
  <2>4. ASSUME UNCHANGED vars
        PROVE  QueueSteps' /\ RangeSteps' /\ StreamSteps'
    BY <2>4, RestDelivers DEF vars
  <2> QED
    BY <2>1, <2>2, <2>3, <2>4, WatcherStepDelivers DEF Next, DInv
<1> QED
  BY <1>1, <1>2, PTL DEF Spec

\* What a request asks for is what the filters of send*Events let through.
LEMMA FiltersFit ==
    ASSUME NEW w \in Watchers, NEW c \in Changes
    PROVE  AsksFor(w, c) <=> Matches(w, c)
BY ChangesHaveFields, RequestsHaveFields
   DEF AsksFor, Matches, kindMatches, eventKind, Entities

\* A live stream misses no change that it asked for, that was committed after
\* its registration and that its handler has handed to all listeners, for any
\* number of handlers, streams and changes (sendToAll against addListener).
THEOREM NothingMissed == Spec => []RegisteredMissNothing
<1>1. DInv => RegisteredMissNothing
  <2> SUFFICES ASSUME DInv, NEW w \in Watchers, watcher[w].pc \in {"receiving", "forwarding"},
                      NEW p \in watcher[w].registered + 1 .. Len(log),
                      AsksFor(w, log[p].change), ~ InQueue(p)
               PROVE  p \in Got(w)
    BY DEF RegisteredMissNothing
  <2>0. TypeOK
    BY DEF DInv, IInv
  <2>1. p \in 1 .. Len(log) /\ watcher[w].registered < p
    <3>1. watcher[w].registered \in Nat /\ Len(log) \in Nat
      BY <2>0, LogFields, BoundsAreNumbers DEF TypeOK, Watcher
    <3> QED
      BY <3>1
  <2>2. log[p].by \in Senders /\ Matches(w, log[p].change)
    BY <2>0, <2>1, LogFields, FiltersFit
  <2>3. Past(w, p)
    BY <2>2 DEF InQueue, Past, Among
  <2>4. Holds(w, p)
    BY <2>1, <2>2, <2>3 DEF DInv, StreamSteps, StreamOK, Live
  <2> QED
    BY <2>4 DEF Holds, Among, Got
<1> QED
  BY <1>1, Delivers, PTL

-----------------------------------------------------------------------------
(* The streams implement the feed.                                         *)

LEMMA StageUpdate ==
    ASSUME NEW w \in Watchers, \A v \in Watchers : v # w => watcher'[v] = watcher[v]
    PROVE  /\ Stage[w] = StageAt(watcher[w].pc) /\ Since[w] = watcher[w].registered
           /\ Stage' = [Stage EXCEPT ![w] = StageAt(watcher'[w].pc)]
           /\ Since' = [Since EXCEPT ![w] = watcher'[w].registered]
           /\ StageAt(watcher'[w].pc) = StageAt(watcher[w].pc) => Stage' = Stage
           /\ watcher'[w].registered = watcher[w].registered => Since' = Since
BY DEF Stage, Since

LEMMA Stages ==
    /\ StageAt("idle") = "new" /\ StageAt("replaying") = "new" /\ StageAt("adding") = "new"
    /\ StageAt("committing") = "joined" /\ StageAt("receiving") = "joined"
    /\ StageAt("forwarding") = "joined" /\ StageAt("deleting") = "joined"
    /\ StageAt("returned") = "left"
BY DEF StageAt

LEMMA CommitChangesPublishes ==
    ASSUME DInv, NEW s \in Senders, NEW batch \in Batches, CommitChanges(s, batch)
    PROVE  Feed!Publish(s)
<1>0. Len(log) \in Nat /\ log \in Seq([change : Changes, by : Senders])
  BY DEF DInv, IInv, TypeOK
<1>1. PICK n \in 1 .. MaxBatch : batch \in [1 .. n -> Changes]
  BY DEF Batches
<1>2. n \in Nat /\ n >= 1 /\ Len(batch) = n
  BY <1>1, BoundsAreNumbers
<1> DEFINE new == [i \in 1 .. n |-> [change |-> batch[i], by |-> s]]
<1>3. log' = log \o new /\ UNCHANGED <<watcher, delivered>>
  BY <1>2 DEF CommitChanges
<1>4. /\ new \in Seq([change : Changes, by : Senders]) /\ Len(new) = n
      /\ \A i \in 1 .. n : new[i].by = s
  BY <1>1, <1>2
<1> HIDE DEF new
<1>5. /\ log' \in Seq([change : Changes, by : Senders])
      /\ Len(log') = Len(log) + n
      /\ \A i \in 1 .. Len(log) + n :
             log'[i] = IF i <= Len(log) THEN log[i] ELSE new[i - Len(log)]
  BY <1>0, <1>3, <1>4, ConcatProperties
<1>6. \A p \in Len(log) + 1 .. Len(log') : log'[p].by = s
  <2>1. \A p \in Len(log) + 1 .. Len(log') :
            p \in 1 .. Len(log) + n /\ ~ (p <= Len(log)) /\ p - Len(log) \in 1 .. n
    BY <1>0, <1>2, <1>5
  <2> QED
    BY <1>4, <1>5, <2>1
<1>7. SubSeq(log', 1, Len(log)) = log
  <2>1. \A i \in 1 .. Len(log) : log'[i] = log[i]
    BY <1>0, <1>2, <1>5
  <2>2. /\ SubSeq(log', 1, Len(log)) \in Seq([change : Changes, by : Senders])
        /\ Len(SubSeq(log', 1, Len(log))) = Len(log)
        /\ \A i \in 1 .. Len(log) : SubSeq(log', 1, Len(log))[i] = log'[i]
    <3>1. \A i \in 1 .. Len(log) : log'[i] \in [change : Changes, by : Senders]
      BY <1>0, <2>1, ElementOfSeq
    <3>2. \A len \in Nat : /\ len - 1 + 1 = len
                           /\ (IF 1 <= len THEN len - 1 + 1 ELSE 0) = len
                           /\ \A i \in 1 .. len : 1 + i - 1 = i
      OBVIOUS
    <3>3. /\ SubSeq(log', 1, Len(log)) \in Seq([change : Changes, by : Senders])
          /\ Len(SubSeq(log', 1, Len(log))) = IF 1 <= Len(log) THEN Len(log) - 1 + 1 ELSE 0
          /\ \A i \in 1 .. Len(log) - 1 + 1 : SubSeq(log', 1, Len(log))[i] = log'[1 + i - 1]
      BY <1>0, <3>1, SubSeqProperties
    <3> QED
      BY <1>0, <3>2, <3>3
  <2> QED
    BY <1>0, <2>1, <2>2, SeqEqual
<1>8. Len(log') > Len(log)
  BY <1>0, <1>2, <1>5
<1>9. UNCHANGED <<Stage, Since, delivered>>
  BY <1>3 DEF Stage, Since
<1> QED
  BY <1>6, <1>7, <1>8, <1>9 DEF Feed!Publish

\* A stream that adds its channel joins.
LEMMA AddListenerJoins ==
    ASSUME DInv, NEW w \in Watchers, AddListener(w)
    PROVE  Feed!Join(w)
<1>0. watcher \in [Watchers -> Watcher] /\ watcher[w] \in Watcher
  BY DEF DInv, IInv, TypeOK
<1>1. PICK x \in {"receiving", "committing"} :
          watcher' = [watcher EXCEPT ![w].pc = x, ![w].registered = Len(log)]
  BY DEF AddListener
<1>2. watcher[w].pc = "adding" /\ UNCHANGED <<log, delivered>>
  BY DEF AddListener
<1>3. /\ watcher'[w].pc = x /\ watcher'[w].registered = Len(log)
      /\ \A v \in Watchers : v # w => watcher'[v] = watcher[v]
  BY <1>0, <1>1 DEF Watcher
<1>4. /\ Stage[w] = "new" /\ Stage' = [Stage EXCEPT ![w] = "joined"]
      /\ Since' = [Since EXCEPT ![w] = Len(log)]
  BY <1>2, <1>3, StageUpdate, Stages
<1> QED
  BY <1>2, <1>4 DEF Feed!Join

\* A stream that returns has left.
LEMMA ReturnLeaves ==
    ASSUME DInv, NEW w \in Watchers, watcher[w].pc # "returned",
           watcher' = [watcher EXCEPT ![w].pc = "returned"], UNCHANGED <<log, delivered>>
    PROVE  Feed!Leave(w)
<1>0. watcher \in [Watchers -> Watcher] /\ watcher[w] \in Watcher
  BY DEF DInv, IInv, TypeOK
<1>1. /\ watcher'[w].pc = "returned" /\ watcher'[w].registered = watcher[w].registered
      /\ \A v \in Watchers : v # w => watcher'[v] = watcher[v]
  BY <1>0 DEF Watcher
<1>2. StageAt(watcher[w].pc) # "left"
  BY <1>0 DEF StageAt, Watcher
<1>3. Stage[w] # "left" /\ Stage' = [Stage EXCEPT ![w] = "left"] /\ Since' = Since
  BY <1>1, <1>2, StageUpdate, Stages
<1> QED
  BY <1>3 DEF Feed!Leave

\* A stream that moves on and stays where it is in the feed.
LEMMA MoveStutters ==
    ASSUME DInv, NEW w \in Watchers, NEW x, StageAt(x) = StageAt(watcher[w].pc),
           watcher' = [watcher EXCEPT ![w].pc = x], UNCHANGED <<log, delivered>>
    PROVE  UNCHANGED Feed!vars
<1>0. watcher \in [Watchers -> Watcher] /\ watcher[w] \in Watcher
  BY DEF DInv, IInv, TypeOK
<1>1. /\ watcher'[w].pc = x /\ watcher'[w].registered = watcher[w].registered
      /\ \A v \in Watchers : v # w => watcher'[v] = watcher[v]
  BY <1>0 DEF Watcher
<1>2. Stage' = Stage /\ Since' = Since
  BY <1>1, StageUpdate
<1> QED
  BY <1>2 DEF Feed!vars

\* A forward delivers: none of the handler's later changes came before, and no
\* earlier one is left out.
LEMMA ForwardEventDeliversOne ==
    ASSUME DInv, NEW w \in Watchers, ForwardEvent(w)
    PROVE  UNCHANGED Feed!vars \/ \E p \in 1 .. Len(log) : Feed!Deliver(w, p)
<1>0. TypeOK /\ StreamOK(w) /\ watcher \in [Watchers -> Watcher] /\ watcher[w] \in Watcher
  BY DEF DInv, IInv, TypeOK, StreamSteps
<1>1. watcher[w].pc = "forwarding" /\ UNCHANGED log
  BY DEF ForwardEvent
<1>2. PICK x \in {"receiving", "deleting"} :
          watcher' = [watcher EXCEPT ![w].pc = x, ![w].event = 0]
  BY DEF ForwardEvent
<1>3. /\ watcher'[w].pc = x /\ watcher'[w].registered = watcher[w].registered
      /\ \A v \in Watchers : v # w => watcher'[v] = watcher[v]
  BY <1>0, <1>2 DEF Watcher
<1>4. /\ Stage' = Stage /\ Since' = Since /\ Stage[w] = "joined"
      /\ Since[w] = watcher[w].registered
  BY <1>1, <1>3, StageUpdate, Stages
<1>5. CASE w \notin connected
  BY <1>1, <1>4, <1>5 DEF ForwardEvent, Feed!vars
<1>6. CASE w \in connected
  <2>1. PICK p : p = watcher[w].event
    OBVIOUS
  <2>2. delivered' = [delivered EXCEPT ![w] = Append(@, p)]
    BY <1>6, <2>1 DEF ForwardEvent
  <2>3. p \in Positions /\ p # 0 /\ Holds(w, p)
    BY <1>1, <2>1, BoundsAreNumbers DEF DInv, IInv, WatcherSteps, Positions, Holds
  <2>4. p \in 1 .. Len(log) /\ Matches(w, log[p].change) /\ Past(w, p)
    BY <1>0, <2>3 DEF StreamOK
  <2>5. \A q \in Positions : Among(q, delivered[w]) /\ log[q].by = log[p].by => q < p
    BY <1>0, <2>1, <2>3 DEF StreamOK
  <2>6. /\ \A q \in 1 .. Len(log) : q \in Positions /\ q \in Nat /\ log[q].change \in Changes
        /\ log[p].by \in Senders /\ p \in Nat
    BY <1>0, <2>4, LogFields
  <2>7. AsksFor(w, log[p].change)
    BY <2>4, <2>6, FiltersFit
  <2>8. \A q : Feed!Has(w, q) <=> Among(q, delivered[w])
    BY DEF Feed!Has, Among
  <2>9. ~ Feed!Has(w, p)
    BY <2>3, <2>5, <2>6, <2>8
  <2>10. ASSUME NEW q \in 1 .. Len(log), log[q].by = log[p].by, q > p
         PROVE  ~ Feed!Has(w, q)
    BY <2>5, <2>6, <2>8, <2>10
  <2>11. ASSUME NEW q \in 1 .. Len(log), log[q].by = log[p].by, Since[w] < q, q < p,
                AsksFor(w, log[q].change)
         PROVE  Feed!Has(w, q)
    <3>1. PICK s \in Senders : log[p].by = s
      BY <2>6
    <3>2. ~ Among(q, sender[s].queue)
      <4>1. CASE ~ Among(p, sender[s].queue)
        <5>1. \A i \in 1 .. Len(sender[s].queue) : p < sender[s].queue[i]
          BY <2>4, <3>1, <4>1 DEF DInv, QueueSteps
        <5>2. \A i \in 1 .. Len(sender[s].queue) : sender[s].queue[i] \in 1 .. Len(log)
          BY DEF DInv, QueueSteps
        <5> QED
          BY <2>6, <2>11, <5>1, <5>2 DEF Among
      <4>2. CASE Among(p, sender[s].queue)
        <5>1. p = Head(sender[s].queue) /\ sender[s].queue # <<>>
          BY <2>4, <3>1, <4>2, AmongEmpty DEF Past
        <5>2. Head(sender[s].queue) = sender[s].queue[1] /\ 1 \in 1 .. Len(sender[s].queue)
          BY <1>0, <5>1, SenderFields, AmongTail
        <5>3. /\ \A i, j \in 1 .. Len(sender[s].queue) :
                     i < j => sender[s].queue[i] < sender[s].queue[j]
              /\ \A i \in 1 .. Len(sender[s].queue) : sender[s].queue[i] \in 1 .. Len(log)
          BY DEF DInv, QueueSteps
        <5>4. \A i \in 1 .. Len(sender[s].queue) : i = 1 \/ 1 < i
          OBVIOUS
        <5>5. ASSUME NEW i \in 1 .. Len(sender[s].queue) PROVE sender[s].queue[i] # q
          <6>1. sender[s].queue[i] = p \/ p < sender[s].queue[i]
            BY <5>1, <5>2, <5>3, <5>4
          <6>2. sender[s].queue[i] \in Nat
            BY <2>6, <5>3
          <6> QED
            BY <2>6, <2>11, <6>1, <6>2
        <5> QED
          BY <5>5 DEF Among
      <4> QED
        BY <4>1, <4>2
    <3>3. Past(w, q)
      BY <2>11, <3>1, <3>2 DEF Past
    <3>4. Matches(w, log[q].change)
      BY <2>6, <2>11, FiltersFit
    <3>5. Holds(w, q)
      BY <1>0, <1>1, <1>4, <2>11, <3>3, <3>4 DEF StreamOK, Live
    <3>6. q # p
      BY <2>6, <2>11
    <3> QED
      BY <2>1, <2>8, <3>5, <3>6 DEF Holds
  <2>12. Feed!Deliver(w, p)
    BY <1>1, <1>4, <2>2, <2>7, <2>9, <2>10, <2>11 DEF Feed!Deliver
  <2> QED
    BY <2>4, <2>12
<1> QED
  BY <1>5, <1>6

LEMMA SendersStutter ==
    ASSUME DInv, NEW s \in Senders, SenderStep(s)
    PROVE  UNCHANGED Feed!vars
<1>0. watcher \in [Watchers -> Watcher]
  BY DEF DInv, IInv, TypeOK
<1>1. CASE RLock(s) \/ RangeListeners(s) \/ RUnlock(s)
  BY <1>1 DEF RLock, RangeListeners, RUnlock, Feed!vars, Stage, Since
<1>2. ASSUME NEW w \in Watchers, SendEvent(s, w) PROVE UNCHANGED Feed!vars
  <2>1. watcher[w].pc = "receiving" /\ UNCHANGED <<log, delivered>>
    BY <1>2 DEF SendEvent
  <2> PICK e : watcher' = [watcher EXCEPT ![w].pc = "forwarding", ![w].event = e]
    BY <1>2 DEF SendEvent
  <2>2. watcher[w] \in Watcher
    BY <1>0
  <2>3. /\ watcher'[w].pc = "forwarding" /\ watcher'[w].registered = watcher[w].registered
        /\ \A v \in Watchers : v # w => watcher'[v] = watcher[v]
    BY <1>0, <2>1, <2>2 DEF Watcher
  <2>4. StageAt(watcher'[w].pc) = StageAt(watcher[w].pc)
    BY <2>1, <2>3, Stages
  <2>5. Stage' = Stage /\ Since' = Since
    BY <2>3, <2>4, StageUpdate
  <2> QED
    BY <2>1, <2>5 DEF Feed!vars
<1> QED
  BY <1>1, <1>2 DEF SenderStep

LEMMA StreamStepsFeed ==
    ASSUME DInv, NEW w \in Watchers, StartWatch(w) \/ WatcherStep(w) \/ Disconnect(w)
    PROVE  \/ UNCHANGED Feed!vars
           \/ Feed!Join(w) \/ Feed!Leave(w) \/ \E p \in 1 .. Len(log) : Feed!Deliver(w, p)
<1>1. CASE StartWatch(w)
  <2>1. PICK x \in {"adding", "replaying"} : watcher' = [watcher EXCEPT ![w].pc = x]
    BY <1>1 DEF StartWatch
  <2>2. StageAt(x) = StageAt(watcher[w].pc) /\ UNCHANGED <<log, delivered>>
    BY <1>1, Stages DEF StartWatch
  <2> QED
    BY <2>1, <2>2, MoveStutters
<1>2. CASE FinishReplay(w)
  <2>1. watcher[w].pc = "replaying" /\ UNCHANGED <<log, delivered>>
    BY <1>2 DEF FinishReplay
  <2>2. CASE watcher' = [watcher EXCEPT ![w].pc = "adding"]
    BY <2>1, <2>2, Stages, MoveStutters
  <2>3. CASE watcher' = [watcher EXCEPT ![w].pc = "returned"]
    BY <2>1, <2>3, ReturnLeaves
  <2> QED
    BY <1>2, <2>2, <2>3 DEF FinishReplay
<1>3. CASE CommitReplay(w)
  <2>1. watcher[w].pc = "committing" /\ UNCHANGED <<log, delivered>>
    BY <1>3 DEF CommitReplay
  <2>2. CASE w \in connected
    <3>1. watcher' = [watcher EXCEPT ![w].pc = "receiving"]
      BY <1>3, <2>2 DEF CommitReplay
    <3> QED
      BY <2>1, <3>1, Stages, MoveStutters
  <2>3. CASE w \notin connected
    <3>1. watcher' = [watcher EXCEPT ![w].pc = "returned"]
      BY <1>3, <2>3 DEF CommitReplay
    <3> QED
      BY <2>1, <3>1, ReturnLeaves
  <2> QED
    BY <2>2, <2>3
<1>4. CASE DeleteListener(w)
  BY <1>4, ReturnLeaves DEF DeleteListener
<1>5. CASE AnnounceWriter(w) \/ Disconnect(w)
  BY <1>5 DEF AnnounceWriter, Disconnect, Feed!vars, Stage, Since
<1> QED
  BY <1>1, <1>2, <1>3, <1>4, <1>5, AddListenerJoins, ForwardEventDeliversOne DEF WatcherStep

\* The listeners implement the feed: a client gets only what it asked for, each
\* change once, those of one handler in their order and with none left out since
\* its channel was added, for any number of handlers, streams and changes.
THEOREM ListenersImplementFeed == Spec => ImplementsEventFeed
<1>1. Init => Feed!Init
  BY Stages DEF Init, Feed!Init, Stage, Since
<1>2. DInv /\ [Next]_vars => [Feed!Next]_(Feed!vars)
  <2> SUFFICES ASSUME DInv, [Next]_vars, ~ UNCHANGED Feed!vars
               PROVE  Feed!Next
    OBVIOUS
  <2>1. ASSUME NEW s \in Senders, NEW batch \in Batches, CommitChanges(s, batch)
        PROVE  Feed!Next
    BY <2>1, CommitChangesPublishes DEF Feed!Next
  <2>2. ASSUME NEW s \in Senders, SenderStep(s) PROVE FALSE
    BY <2>2, SendersStutter
  <2>3. ASSUME NEW w \in Watchers, StartWatch(w) \/ WatcherStep(w) \/ Disconnect(w)
        PROVE  Feed!Next
    BY <2>3, StreamStepsFeed DEF Feed!Next
  <2>4. ~ UNCHANGED vars
    BY DEF vars, Feed!vars, Stage, Since
  <2> QED
    BY <2>1, <2>2, <2>3, <2>4 DEF Next
<1> QED
  BY <1>1, <1>2, Delivers, PTL DEF Spec, ImplementsEventFeed, Feed!Spec
=============================================================================
