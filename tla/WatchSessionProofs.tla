------------------------- MODULE WatchSessionProofs -------------------------
(***************************************************************************)
(* Types, the lock of the socket and the subscriptions of WatchSession,    *)
(* for any kinds and any number of messages, watches and events.           *)
(***************************************************************************)
EXTENDS WatchSession, SequenceTheorems, TLAPS

\* A message that is passed on or answered is one.
MessageSteps ==
    /\ receive.pc = "passing" => receive.message \in Message
    /\ main.pc # "select" => /\ main.message.op \in {"subscribe", "unsubscribe"}
                             /\ main.message.kind \in Kinds
                             /\ main.message.op = "subscribe"
                                   => main.message.project \in Projects

\* A watch only has events that were published, one in hand while it writes,
\* and only ends if it was cancelled.
Sound(watch, n) ==
    /\ \A i \in 1 .. Len(watch.queue) : watch.queue[i] \in 1 .. n
    /\ watch.pc \in {"lock", "write"} => watch.event \in 1 .. n
    /\ watch.pc = "ended" /\ watch.kind \in Watched => watch.cancelled

WatchSteps == \A w \in Ids : Sound(watches[w], events)

\* A kept cancellation is that of a watch of the kind which nobody cancelled.
CancellationsKept ==
    \A k \in Kinds : cancellations[k] # 0 =>
        /\ watches[cancellations[k]].kind = k
        /\ ~ watches[cancellations[k]].cancelled

\* The select loop answers a message of the kind.
Answering(k) == main.pc # "select" /\ main.message.kind = k

\* Whoever was told "subscribed" has a kept cancellation, and every kept one is
\* that of a watch whose project the client was told; the message being answered
\* has already done what the answer says.
ToldIsKept ==
    client = "open" =>
        /\ \A k \in Kinds : ~ Answering(k) =>
              /\ answered[k] # {} => cancellations[k] # 0
              /\ cancellations[k] # 0 => watches[cancellations[k]].project \in answered[k]
        /\ main.pc # "select" /\ main.message.op = "subscribe" =>
              /\ cancellations[main.message.kind] # 0
              /\ watches[cancellations[main.message.kind]].project
                    \in Told(main.message)
        /\ main.pc # "select" /\ main.message.op = "unsubscribe" =>
              cancellations[main.message.kind] = 0

IInv == /\ TypeOK
        /\ OneWriter
        /\ MessageSteps
        /\ WatchSteps
        /\ CancellationsKept
        /\ ToldIsKept

\* The type invariant speaks of one watch at a time.
LEMMA WatchFields ==
    ASSUME TypeOK, NEW w \in Ids
    PROVE  /\ watches[w] \in Watch
           /\ watches[w].kind \in Kinds
           /\ watches[w].project \in Projects
           /\ watches[w].pc \in {"starting", "receiving", "lock", "write", "ended", "broken"}
           /\ watches[w].cancelled \in BOOLEAN
           /\ watches[w].queue \in Seq(1 .. MaxEvents)
           /\ watches[w].event \in 0 .. MaxEvents
<1>1. watches[w] \in Watch
  BY DEF TypeOK, Ids
<1> QED
  BY <1>1 DEF Watch

\* The watches after a step of one of them.
LEMMA WatchUpdate ==
    ASSUME TypeOK, NEW w \in Ids, NEW r \in Watch,
           watches' = [watches EXCEPT ![w] = r]
    PROVE  /\ watches' \in Seq(Watch)
           /\ Len(watches') = Len(watches)
           /\ Ids' = Ids
           /\ watches'[w] = r
           /\ \A v \in Ids : v # w => watches'[v] = watches[v]
<1>1. watches \in Seq(Watch) /\ w \in 1 .. Len(watches)
  BY DEF TypeOK, Ids
<1>2. watches' \in Seq(Watch) /\ Len(watches') = Len(watches)
  BY <1>1, ExceptSeq
<1> QED
  BY <1>1, <1>2 DEF Ids

\* Steps that neither answer a message nor touch the subscriptions.
LEMMA ToldStays ==
    ASSUME IInv, client' = "open" => client = "open",
           UNCHANGED <<cancellations, answered>>,
           main'.pc # "select" <=> main.pc # "select", main'.message = main.message,
           \A w \in Ids : watches'[w].project = watches[w].project
    PROVE  ToldIsKept'
<1>1. \A k \in Kinds : cancellations[k] # 0 => cancellations[k] \in Ids
  BY DEF IInv, TypeOK, Ids
<1>2. main.pc # "select" => main.message.kind \in Kinds
  BY DEF IInv, MessageSteps
<1>3. Told(main.message)' = Told(main.message)
  BY DEF Told
<1>4. \A k \in Kinds : Answering(k)' <=> Answering(k)
  BY DEF Answering
<1> SUFFICES ASSUME client' = "open" PROVE ToldIsKept'
  BY DEF ToldIsKept
<1>5. client = "open" /\ ToldIsKept
  BY DEF IInv
<1>6. ASSUME NEW k \in Kinds, ~ Answering(k)'
      PROVE  /\ answered'[k] # {} => cancellations'[k] # 0
             /\ cancellations'[k] # 0
                   => watches'[cancellations'[k]].project \in answered'[k]
  BY <1>1, <1>4, <1>5, <1>6 DEF ToldIsKept
<1>7. ASSUME main'.pc # "select", main'.message.op = "subscribe"
      PROVE  /\ cancellations'[main'.message.kind] # 0
             /\ watches'[cancellations'[main'.message.kind]].project
                   \in Told(main.message)'
  <2>1. /\ cancellations[main.message.kind] # 0
        /\ watches[cancellations[main.message.kind]].project \in Told(main.message)
    BY <1>5, <1>7 DEF ToldIsKept
  <2> QED
    BY <1>1, <1>2, <1>3, <1>7, <2>1
<1>8. ASSUME main'.pc # "select", main'.message.op = "unsubscribe"
      PROVE  cancellations'[main'.message.kind] = 0
  BY <1>5, <1>8 DEF ToldIsKept
<1> QED
  BY <1>6, <1>7, <1>8 DEF ToldIsKept

\* A step of one watch keeps what the session knows of its watches.
LEMMA OneWatchSteps ==
    ASSUME IInv, NEW w \in Ids, NEW r \in Watch,
           watches' = [watches EXCEPT ![w] = r],
           r.kind = watches[w].kind, r.project = watches[w].project,
           r.cancelled = watches[w].cancelled, Sound(r, events),
           client' \in {client, "stuck"}, client' = "open" => client = "open",
           UNCHANGED <<asked, receive, ping, main, cancellations, events, answered>>
    PROVE  /\ MessageSteps'
           /\ WatchSteps'
           /\ CancellationsKept'
           /\ ToldIsKept'
           /\ (mutex' \in {"free", "main", "ping", "watch"}
               /\ relayed' \subseteq Ids \X (1 .. events)) => TypeOK'
<1>1. /\ watches' \in Seq(Watch) /\ Len(watches') = Len(watches) /\ Ids' = Ids
      /\ watches'[w] = r
      /\ \A v \in Ids : v # w => watches'[v] = watches[v]
  BY WatchUpdate DEF IInv
<1>2. MessageSteps'
  BY DEF IInv, MessageSteps
<1>3. WatchSteps'
  BY <1>1 DEF IInv, WatchSteps
<1>4. CancellationsKept'
  <2> SUFFICES ASSUME NEW k \in Kinds, cancellations[k] # 0
               PROVE  /\ watches'[cancellations[k]].kind = k
                      /\ ~ watches'[cancellations[k]].cancelled
    BY DEF CancellationsKept
  <2>1. cancellations[k] \in Ids
    BY DEF IInv, TypeOK, Ids
  <2> QED
    BY <1>1, <2>1 DEF IInv, CancellationsKept
<1>5. ToldIsKept'
  <2>1. \A v \in Ids : watches'[v].project = watches[v].project
    BY <1>1
  <2> QED
    BY <2>1, ToldStays
<1>6. (mutex' \in {"free", "main", "ping", "watch"}
       /\ relayed' \subseteq Ids \X (1 .. events)) => TypeOK'
  BY <1>1 DEF IInv, TypeOK
<1> QED
  BY <1>2, <1>3, <1>4, <1>5, <1>6

\* Steps that leave the watches alone.
LEMMA WatchesStay ==
    ASSUME IInv, UNCHANGED <<cancellations, watches, events>>
    PROVE  Ids' = Ids /\ WatchSteps' /\ CancellationsKept'
BY DEF IInv, Ids, WatchSteps, CancellationsKept

\* The client and receive.
LEMMA ClientKeeps ==
    ASSUME IInv, (\E message \in Message : Receive(message)) \/ Leave \/ ReceiveFails
    PROVE  IInv'
<1>1. Ids' = Ids /\ WatchSteps' /\ CancellationsKept'
  BY WatchesStay DEF Receive, Leave, ReceiveFails
<1> ToldIsKept'
  BY ToldStays DEF Receive, Leave, ReceiveFails
<1>2. CASE \E message \in Message : Receive(message)
  <2> PICK message \in Message : Receive(message)
    BY <1>2
  <2>1. TypeOK'
    BY <1>1, BoundsAreNumbers DEF Receive, IInv, TypeOK
  <2>2. OneWriter'
    BY <1>1 DEF Receive, IInv, OneWriter
  <2>3. MessageSteps'
    BY DEF Receive, IInv, MessageSteps
  <2> QED
    BY <1>1, <2>1, <2>2, <2>3 DEF IInv
<1>3. CASE Leave
  <2>1. TypeOK'
    BY <1>1, <1>3 DEF Leave, IInv, TypeOK
  <2>2. OneWriter' /\ MessageSteps'
    BY <1>1, <1>3 DEF Leave, IInv, OneWriter, MessageSteps
  <2> QED
    BY <1>1, <2>1, <2>2 DEF IInv
<1>4. CASE ReceiveFails
  <2>1. TypeOK'
    BY <1>1, <1>4 DEF ReceiveFails, IInv, TypeOK
  <2>2. OneWriter'
    BY <1>1, <1>4 DEF ReceiveFails, IInv, OneWriter
  <2>3. MessageSteps'
    BY <1>4 DEF ReceiveFails, IInv, TypeOK, MessageSteps
  <2> QED
    BY <1>1, <2>1, <2>2, <2>3 DEF IInv
<1> QED
  BY <1>2, <1>3, <1>4

\* The select loop, messages aside.
LEMMA AnswerKeeps ==
    ASSUME IInv, TakeError \/ LockMain \/ SendAnswer
    PROVE  IInv'
<1>1. Ids' = Ids /\ WatchSteps' /\ CancellationsKept'
  BY WatchesStay DEF TakeError, LockMain, SendAnswer
<1>2. CASE TakeError
  <2>1. TypeOK'
    BY <1>1, <1>2 DEF TakeError, IInv, TypeOK
  <2>2. OneWriter'
    BY <1>1, <1>2 DEF TakeError, IInv, OneWriter
  <2>3. MessageSteps'
    BY <1>2 DEF TakeError, IInv, TypeOK, MessageSteps
  <2>4. ToldIsKept'
    BY <1>2, ToldStays DEF TakeError
  <2> QED
    BY <1>1, <2>1, <2>2, <2>3, <2>4 DEF IInv
<1>3. CASE LockMain
  <2>1. TypeOK'
    BY <1>1, <1>3 DEF LockMain, IInv, TypeOK
  <2>2. main'.pc = "write" /\ main'.message = main.message
    BY <1>3 DEF LockMain, IInv, TypeOK
  <2>3. OneWriter'
    BY <1>1, <1>3, <2>2 DEF LockMain, IInv, OneWriter
  <2>4. MessageSteps'
    BY <1>3, <2>2 DEF LockMain, IInv, MessageSteps
  <2>5. ToldIsKept'
    BY <1>3, <2>2, ToldStays DEF LockMain
  <2> QED
    BY <1>1, <2>1, <2>3, <2>4, <2>5 DEF IInv
<1>4. CASE SendAnswer
  <2> DEFINE kind == main.message.kind
  <2>1. /\ kind \in Kinds /\ main.message.op \in {"subscribe", "unsubscribe"}
        /\ main.message.op = "subscribe" => main.message.project \in Projects
    BY <1>4 DEF SendAnswer, IInv, MessageSteps
  <2>2. TypeOK'
    <3>1. Told(main.message) \in SUBSET Projects
      BY <2>1 DEF Told, IInv, TypeOK
    <3>2. answered' \in [Kinds -> SUBSET Projects] /\ client' \in {"open", "stuck", "gone"}
      BY <1>4, <2>1, <3>1 DEF SendAnswer, WriteFails, IInv, TypeOK
    <3> QED
      BY <1>1, <1>4, <3>2 DEF SendAnswer, IInv, TypeOK
  <2>3. OneWriter'
    BY <1>1, <1>4 DEF SendAnswer, IInv, OneWriter
  <2>4. MessageSteps'
    BY <1>4 DEF SendAnswer, IInv, MessageSteps
  <2>5. ToldIsKept'
    <3> SUFFICES ASSUME client' = "open", NEW k \in Kinds
                 PROVE  /\ answered'[k] # {} => cancellations[k] # 0
                        /\ cancellations[k] # 0
                              => watches[cancellations[k]].project \in answered'[k]
      BY <1>4 DEF SendAnswer, ToldIsKept
    <3>1. client = "open" /\ answered' = [answered EXCEPT ![kind] = Told(main.message)]
      BY <1>4 DEF SendAnswer, WriteFails
    <3>2. CASE k = kind
      <4>1. answered'[k] = Told(main.message)
        BY <3>1, <3>2 DEF IInv, TypeOK
      <4>2. main.pc # "select"
        BY <1>4 DEF SendAnswer
      <4>3. CASE main.message.op = "subscribe"
        BY <3>1, <3>2, <4>1, <4>2, <4>3 DEF IInv, ToldIsKept
      <4>4. CASE main.message.op = "unsubscribe"
        <5>1. cancellations[k] = 0 /\ answered'[k] = {}
          BY <3>1, <3>2, <4>1, <4>2, <4>4 DEF IInv, ToldIsKept, Told
        <5> QED
          BY <5>1
      <4> QED
        BY <2>1, <4>3, <4>4
    <3>3. CASE k # kind
      <4>1. answered'[k] = answered[k]
        BY <3>1, <3>3 DEF IInv, TypeOK
      <4> QED
        BY <3>1, <3>3, <4>1 DEF IInv, ToldIsKept, Answering
    <3> QED
      BY <3>2, <3>3
  <2> QED
    BY <1>1, <2>2, <2>3, <2>4, <2>5 DEF IInv
<1> QED
  BY <1>2, <1>3, <1>4

\* ping.
LEMMA PingKeeps ==
    ASSUME IInv, Tick \/ LockPing \/ SendPing
    PROVE  IInv'
<1>1. Ids' = Ids /\ WatchSteps' /\ CancellationsKept'
  BY WatchesStay DEF Tick, LockPing, SendPing
<1>2. TypeOK'
  BY <1>1 DEF Tick, LockPing, SendPing, WriteFails, IInv, TypeOK
<1>3. MessageSteps' /\ ToldIsKept'
  <2>1. /\ client' = "open" => client = "open"
        /\ UNCHANGED <<receive, main, cancellations, watches, answered>>
    BY DEF Tick, LockPing, SendPing, WriteFails
  <2> QED
    BY <2>1, ToldStays DEF IInv, MessageSteps
<1>4. OneWriter'
  BY <1>1 DEF Tick, LockPing, SendPing, IInv, OneWriter
<1> QED
  BY <1>1, <1>2, <1>3, <1>4 DEF IInv

\* A new watch, and its cancellation.
LEMMA WatchAdded ==
    ASSUME IInv, NEW k \in Kinds, NEW p \in Projects,
           cancellations' = [cancellations EXCEPT ![k] = Len(watches) + 1],
           watches' = Append(watches, Started(k, p)),
           UNCHANGED events
    PROVE  /\ watches' \in Seq(Watch)
           /\ Len(watches') = Len(watches) + 1
           /\ cancellations' \in [Kinds -> 0 .. Len(watches')]
           /\ cancellations'[k] # 0
           /\ \A j \in Kinds \ {k} : cancellations'[j] = cancellations[j]
           /\ watches'[cancellations'[k]] = Started(k, p)
           /\ \A v \in Ids : v \in Ids' /\ watches'[v] = watches[v]
           /\ \A v \in Ids' : v \in Ids \/ watches'[v] = Started(k, p)
           /\ WatchSteps'
           /\ CancellationsKept'
<1>1. Started(k, p) \in Watch
  BY BoundsAreNumbers DEF Started, Watch
<1>2. watches \in Seq(Watch) /\ Len(watches) \in Nat
  BY DEF IInv, TypeOK
<1>3. /\ watches' \in Seq(Watch)
      /\ Len(watches') = Len(watches) + 1
      /\ \A v \in Ids : watches'[v] = watches[v]
      /\ watches'[Len(watches) + 1] = Started(k, p)
  BY <1>1, <1>2, AppendProperties DEF Ids
<1>4. \A v \in Ids : v \in Ids'
  BY <1>2, <1>3 DEF Ids
<1>5. \A v \in Ids' : v \in Ids \/ v = Len(watches) + 1
  BY <1>2, <1>3 DEF Ids
<1>6. /\ cancellations' \in [Kinds -> 0 .. Len(watches')]
      /\ cancellations'[k] # 0 /\ cancellations'[k] = Len(watches) + 1
      /\ \A j \in Kinds \ {k} : cancellations'[j] = cancellations[j]
  BY <1>2, <1>3 DEF IInv, TypeOK
<1>7. WatchSteps'
  <2>1. Sound(Started(k, p), events)
    <3>1. Started(k, p).queue = <<>> /\ Len(<<>>) = 0
      BY DEF Started
    <3>2. /\ Started(k, p).pc \notin {"lock", "write"}
          /\ ~ (Started(k, p).pc = "ended" /\ Started(k, p).kind \in Watched)
      BY DEF Started
    <3> QED
      BY <3>1, <3>2 DEF Sound
  <2> QED
    BY <1>3, <1>5, <2>1 DEF IInv, WatchSteps
<1>8. CancellationsKept'
  <2> SUFFICES ASSUME NEW j \in Kinds, cancellations'[j] # 0
               PROVE  /\ watches'[cancellations'[j]].kind = j
                      /\ ~ watches'[cancellations'[j]].cancelled
    BY DEF CancellationsKept
  <2>1. CASE j = k
    <3>1. watches'[cancellations'[j]] = Started(j, p)
      BY <1>3, <2>1 DEF IInv, TypeOK
    <3>2. Started(j, p).kind = j /\ Started(j, p).cancelled = FALSE
      BY DEF Started
    <3> QED
      BY <3>1, <3>2
  <2>2. CASE j # k
    <3>1. cancellations'[j] = cancellations[j] /\ cancellations[j] \in Ids
      BY <2>2 DEF IInv, TypeOK, Ids
    <3>2. watches'[cancellations'[j]] = watches[cancellations[j]]
      BY <1>3, <3>1
    <3>3. cancellations[j] # 0
      BY <3>1
    <3>4. watches[cancellations[j]].kind = j /\ ~ watches[cancellations[j]].cancelled
      BY <3>3 DEF IInv, CancellationsKept
    <3> QED
      BY <3>2, <3>4
  <2> QED
    BY <2>1, <2>2
<1> QED
  BY <1>3, <1>4, <1>5, <1>6, <1>7, <1>8

\* A watch that is cancelled, with its cancellation dropped.
LEMMA WatchCancelled ==
    ASSUME IInv, NEW k \in Kinds, removeSubscription(k), UNCHANGED events
    PROVE  /\ watches' \in Seq(Watch)
           /\ Len(watches') = Len(watches)
           /\ Ids' = Ids
           /\ cancellations' \in [Kinds -> 0 .. Len(watches')]
           /\ cancellations'[k] = 0
           /\ \A j \in Kinds \ {k} : cancellations'[j] = cancellations[j]
           /\ \A v \in Ids : /\ watches'[v].pc = watches[v].pc
                             /\ watches'[v].project = watches[v].project
           /\ WatchSteps'
           /\ CancellationsKept'
<1> DEFINE cancelled(v) == [watches[v] EXCEPT !.cancelled = TRUE]
<1>1. watches \in Seq(Watch) /\ Len(watches) \in Nat /\ Ids = 1 .. Len(watches)
  BY DEF IInv, TypeOK, Ids
<1>2. \A v \in Ids : /\ cancelled(v) \in Watch
                     /\ cancelled(v).pc = watches[v].pc
                     /\ cancelled(v).kind = watches[v].kind
                     /\ cancelled(v).project = watches[v].project
                     /\ cancelled(v).queue = watches[v].queue
                     /\ cancelled(v).event = watches[v].event
                     /\ cancelled(v).cancelled
  <2> SUFFICES ASSUME NEW v \in Ids
               PROVE  /\ cancelled(v) \in Watch
                      /\ cancelled(v).pc = watches[v].pc
                      /\ cancelled(v).kind = watches[v].kind
                      /\ cancelled(v).project = watches[v].project
                      /\ cancelled(v).queue = watches[v].queue
                      /\ cancelled(v).event = watches[v].event
                      /\ cancelled(v).cancelled
    OBVIOUS
  <2>1. watches[v] \in Watch
    BY WatchFields DEF IInv
  <2> QED
    BY <2>1 DEF Watch
<1>3. watches' = [v \in Ids |-> IF v # cancellations[k] THEN watches[v] ELSE cancelled(v)]
  BY DEF removeSubscription
<1> HIDE DEF cancelled
<1>4. \A v \in Ids : watches'[v] \in Watch
  BY <1>1, <1>2, <1>3
<1>5. /\ watches' \in Seq(Watch) /\ Len(watches') = Len(watches) /\ Ids' = Ids
  <2>1. watches' \in [1 .. Len(watches) -> Watch]
    BY <1>1, <1>3, <1>4
  <2> QED
    BY <1>1, <2>1 DEF Ids
<1>6. /\ cancellations' \in [Kinds -> 0 .. Len(watches')]
      /\ cancellations'[k] = 0
      /\ \A j \in Kinds \ {k} : cancellations'[j] = cancellations[j]
  BY <1>1, <1>5 DEF removeSubscription, IInv, TypeOK
<1>7. \A v \in Ids : /\ watches'[v].pc = watches[v].pc
                     /\ watches'[v].kind = watches[v].kind
                     /\ watches'[v].project = watches[v].project
                     /\ watches'[v].queue = watches[v].queue
                     /\ watches'[v].event = watches[v].event
                     /\ watches[v].cancelled => watches'[v].cancelled
  BY <1>2, <1>3
<1>8. WatchSteps'
  BY <1>5, <1>7 DEF IInv, WatchSteps, Sound
<1>9. CancellationsKept'
  <2> SUFFICES ASSUME NEW j \in Kinds, cancellations'[j] # 0
               PROVE  /\ watches'[cancellations'[j]].kind = j
                      /\ ~ watches'[cancellations'[j]].cancelled
    BY DEF CancellationsKept
  <2>1. j # k /\ cancellations'[j] = cancellations[j] /\ cancellations[j] \in Ids
    BY <1>1, <1>6 DEF IInv, TypeOK
  <2>2. watches[cancellations[j]].kind = j /\ ~ watches[cancellations[j]].cancelled
    BY <2>1 DEF IInv, CancellationsKept
  <2>3. cancellations[j] # cancellations[k]
    <3>1. CASE cancellations[k] = 0
      BY <2>1, <1>1, <3>1
    <3>2. CASE cancellations[k] # 0
      BY <2>1, <2>2, <3>2 DEF IInv, CancellationsKept
    <3> QED
      BY <3>1, <3>2
  <2>4. watches'[cancellations[j]] = watches[cancellations[j]]
    BY <1>3, <2>1, <2>3
  <2> QED
    BY <2>1, <2>2, <2>4
<1> QED
  BY <1>5, <1>6, <1>7, <1>8, <1>9

\* Messages that the select loop takes.
LEMMA MessageKeeps ==
    ASSUME IInv, TakeMessage
    PROVE  IInv'
<1> DEFINE message == receive.message
<1>1. /\ main.pc = "select" /\ message \in Message
      /\ receive' = [pc |-> "reading", message |-> NoMessage]
      /\ UNCHANGED <<client, asked, ping, mutex, events, answered, relayed>>
  BY DEF TakeMessage, IInv, MessageSteps
<1>2. \/ message.op = "other"
      \/ message.op = "subscribe" /\ message.kind \in Kinds /\ message.project \in Projects
      \/ message.op = "unsubscribe" /\ message.kind \in Kinds
  BY <1>1 DEF Message
<1>3. CASE message.op = "other"
  <2>1. UNCHANGED <<cancellations, watches, main>>
    BY <1>3 DEF TakeMessage
  <2>2. Ids' = Ids /\ WatchSteps' /\ CancellationsKept'
    BY <1>1, <2>1, WatchesStay
  <2>3. TypeOK'
    BY <1>1, <2>1, <2>2 DEF IInv, TypeOK
  <2>4. OneWriter' /\ ToldIsKept'
    BY <1>1, <2>1, <2>2, ToldStays DEF IInv, OneWriter
  <2>5. MessageSteps'
    BY <1>1, <2>1 DEF IInv, MessageSteps
  <2> QED
    BY <2>2, <2>3, <2>4, <2>5 DEF IInv
<1>4. ASSUME message.op \in {"subscribe", "unsubscribe"}, message.kind \in Kinds,
             message.op = "subscribe" => message.project \in Projects
      PROVE  /\ main' = [pc |-> "lock", message |-> message]
             /\ main' \in [pc : {"select", "lock", "write"},
                           message : Message \union {NoMessage}]
             /\ MessageSteps'
  <2>1. main' = [pc |-> "lock", message |-> message]
    BY <1>4 DEF TakeMessage
  <2>2. MessageSteps'
    BY <1>1, <1>4, <2>1 DEF MessageSteps
  <2> QED
    BY <1>1, <2>1, <2>2
<1>5. CASE message.op = "subscribe" /\ message.kind \in Kinds /\ message.project \in Projects
  <2>1. addSubscription(message.kind, message.project)
    BY <1>5 DEF TakeMessage
  <2>2. main' = [pc |-> "lock", message |-> message] /\ MessageSteps'
    BY <1>4, <1>5
  <2>3. CASE cancellations[message.kind] # 0
    <3>1. UNCHANGED <<cancellations, watches>>
      BY <2>1, <2>3 DEF addSubscription
    <3>2. Ids' = Ids /\ WatchSteps' /\ CancellationsKept'
      BY <1>1, <3>1, WatchesStay
    <3>3. TypeOK'
      BY <1>1, <1>4, <1>5, <3>1, <3>2 DEF IInv, TypeOK
    <3>4. OneWriter'
      BY <1>1, <2>2, <3>1, <3>2 DEF IInv, OneWriter
    <3>5. ToldIsKept'
      <4>1. \A k \in Kinds : ~ Answering(k) /\ (Answering(k)' <=> k = message.kind)
        BY <1>1, <2>2 DEF Answering
      <4>2. Told(main.message)' = answered[message.kind] \union {message.project}
        BY <1>1, <1>5, <2>2 DEF Told
      <4> QED
        BY <1>1, <1>5, <2>2, <2>3, <3>1, <4>1, <4>2 DEF IInv, ToldIsKept
    <3> QED
      BY <2>2, <3>2, <3>3, <3>4, <3>5 DEF IInv
  <2>4. CASE cancellations[message.kind] = 0
    <3>1. /\ cancellations' = [cancellations EXCEPT ![message.kind] = Len(watches) + 1]
          /\ watches' = Append(watches, Started(message.kind, message.project))
      BY <2>1, <2>4 DEF addSubscription
    <3>2. /\ watches' \in Seq(Watch)
          /\ Len(watches') = Len(watches) + 1
          /\ cancellations' \in [Kinds -> 0 .. Len(watches')]
          /\ cancellations'[message.kind] # 0
          /\ \A k \in Kinds \ {message.kind} : cancellations'[k] = cancellations[k]
          /\ watches'[cancellations'[message.kind]] = Started(message.kind, message.project)
          /\ \A v \in Ids : v \in Ids' /\ watches'[v] = watches[v]
          /\ \A v \in Ids' : v \in Ids \/ watches'[v] = Started(message.kind, message.project)
          /\ WatchSteps' /\ CancellationsKept'
      BY <1>1, <1>5, <3>1, WatchAdded
    <3>3. TypeOK'
      <4>1. relayed' \subseteq Ids' \X (1 .. events')
        BY <1>1, <3>2 DEF IInv, TypeOK
      <4> QED
        BY <1>1, <1>4, <1>5, <3>2, <4>1 DEF IInv, TypeOK
    <3>4. OneWriter'
      <4>1. Started(message.kind, message.project).pc # "write"
        BY DEF Started
      <4>2. \A v \in Ids' : watches'[v].pc = "write" => v \in Ids /\ watches[v].pc = "write"
        BY <3>2, <4>1
      <4>3. (\E v \in Ids' : watches'[v].pc = "write") <=> (\E v \in Ids : watches[v].pc = "write")
        BY <3>2, <4>2
      <4> QED
        BY <1>1, <2>2, <4>2, <4>3 DEF IInv, OneWriter
    <3>5. ToldIsKept'
      <4>1. \A k \in Kinds : ~ Answering(k) /\ (Answering(k)' <=> k = message.kind)
        BY <1>1, <2>2 DEF Answering
      <4>2. Told(main.message)' = answered[message.kind] \union {message.project}
        BY <1>1, <1>5, <2>2 DEF Told
      <4>3. watches'[cancellations'[message.kind]].project = message.project
        BY <3>2 DEF Started
      <4>4. \A k \in Kinds \ {message.kind} :
               /\ cancellations'[k] = cancellations[k]
               /\ cancellations[k] # 0
                     => watches'[cancellations'[k]] = watches[cancellations[k]]
        <5>1. \A k \in Kinds : cancellations[k] # 0 => cancellations[k] \in Ids
          BY DEF IInv, TypeOK, Ids
        <5> QED
          BY <3>2, <5>1
      <4> QED
        BY <1>1, <1>5, <2>2, <3>2, <4>1, <4>2, <4>3, <4>4 DEF IInv, ToldIsKept
    <3> QED
      BY <2>2, <3>2, <3>3, <3>4, <3>5 DEF IInv
  <2> QED
    BY <2>3, <2>4
<1>6. CASE message.op = "unsubscribe" /\ message.kind \in Kinds
  <2>1. removeSubscription(message.kind)
    BY <1>6 DEF TakeMessage
  <2>2. main' = [pc |-> "lock", message |-> message] /\ MessageSteps'
    BY <1>4, <1>6
  <2>3. /\ watches' \in Seq(Watch)
        /\ Len(watches') = Len(watches)
        /\ Ids' = Ids
        /\ cancellations' \in [Kinds -> 0 .. Len(watches')]
        /\ \A k \in Kinds \ {message.kind} : cancellations'[k] = cancellations[k]
        /\ cancellations'[message.kind] = 0
        /\ \A v \in Ids : /\ watches'[v].pc = watches[v].pc
                          /\ watches'[v].project = watches[v].project
        /\ WatchSteps' /\ CancellationsKept'
    BY <1>1, <1>6, <2>1, WatchCancelled
  <2>4. TypeOK'
    BY <1>1, <1>4, <1>6, <2>3 DEF IInv, TypeOK
  <2>5. OneWriter'
    <3>1. (\E v \in Ids' : watches'[v].pc = "write") <=> (\E v \in Ids : watches[v].pc = "write")
      BY <2>3
    <3>2. main'.pc # "write" /\ main.pc # "write"
      BY <1>1, <2>2
    <3>3. \A v, w \in Ids' : watches'[v].pc = "write" /\ watches'[w].pc = "write" => v = w
      BY <2>3 DEF IInv, OneWriter
    <3> QED
      BY <1>1, <3>1, <3>2, <3>3 DEF IInv, OneWriter
  <2>6. ToldIsKept'
    <3>1. \A k \in Kinds : ~ Answering(k) /\ (Answering(k)' <=> k = message.kind)
      BY <1>1, <2>2 DEF Answering
    <3>2. \A k \in Kinds : cancellations[k] # 0 => cancellations[k] \in Ids
      BY DEF IInv, TypeOK, Ids
    <3>3. \A k \in Kinds \ {message.kind} :
             cancellations'[k] # 0 => watches'[cancellations'[k]].project
                                        = watches[cancellations[k]].project
      BY <2>3, <3>2
    <3> QED
      BY <1>1, <1>6, <2>2, <2>3, <3>1, <3>3 DEF IInv, ToldIsKept
  <2> QED
    BY <2>2, <2>3, <2>4, <2>5, <2>6 DEF IInv
<1> QED
  BY <1>2, <1>3, <1>5, <1>6

\* The watches' records behind the EXCEPT expressions of their actions.
LEMMA WatchExcept ==
    ASSUME TypeOK, NEW w \in Ids, NEW pc, NEW queue, NEW event
    PROVE  /\ [watches EXCEPT ![w].pc = pc] =
                  [watches EXCEPT ![w] = [watches[w] EXCEPT !.pc = pc]]
           /\ [watches EXCEPT ![w].pc = pc, ![w].queue = queue] =
                  [watches EXCEPT ![w] = [watches[w] EXCEPT !.pc = pc, !.queue = queue]]
           /\ [watches EXCEPT ![w].pc = pc, ![w].event = event] =
                  [watches EXCEPT ![w] = [watches[w] EXCEPT !.pc = pc, !.event = event]]
           /\ [watches EXCEPT ![w].pc = pc, ![w].event = event, ![w].queue = queue] =
                  [watches EXCEPT ![w] = [watches[w] EXCEPT !.pc = pc, !.event = event,
                                                            !.queue = queue]]
BY DEF TypeOK, Ids

\* An event of the catalog.
LEMMA PublishKeeps ==
    ASSUME IInv, NEW kind \in Watched, NEW project \in Projects,
           Publish(kind, project)
    PROVE  IInv'
<1> DEFINE got(w) == [watches[w] EXCEPT !.queue = Append(@, events + 1)]
<1>1. /\ events \in Nat /\ events < MaxEvents /\ events' = events + 1
      /\ events' \in 0 .. MaxEvents
      /\ UNCHANGED <<client, asked, receive, ping, main, mutex, cancellations,
                     answered, relayed>>
  BY BoundsAreNumbers DEF Publish, IInv, TypeOK
<1>2. watches \in Seq(Watch) /\ Len(watches) \in Nat /\ Ids = 1 .. Len(watches)
  BY DEF IInv, TypeOK, Ids
<1>3. \A w \in Ids : /\ got(w) \in Watch
                     /\ got(w).pc = watches[w].pc
                     /\ got(w).kind = watches[w].kind
                     /\ got(w).project = watches[w].project
                     /\ got(w).cancelled = watches[w].cancelled
                     /\ got(w).event = watches[w].event
                     /\ got(w).queue = Append(watches[w].queue, events + 1)
  <2> SUFFICES ASSUME NEW w \in Ids
               PROVE  /\ got(w) \in Watch
                      /\ got(w).pc = watches[w].pc
                      /\ got(w).kind = watches[w].kind
                      /\ got(w).project = watches[w].project
                      /\ got(w).cancelled = watches[w].cancelled
                      /\ got(w).event = watches[w].event
                      /\ got(w).queue = Append(watches[w].queue, events + 1)
    OBVIOUS
  <2>1. watches[w] \in Watch /\ watches[w].queue \in Seq(1 .. MaxEvents)
    BY WatchFields DEF IInv
  <2>2. Append(watches[w].queue, events + 1) \in Seq(1 .. MaxEvents)
    BY <1>1, <2>1, BoundsAreNumbers, AppendProperties
  <2> QED
    BY <2>1, <2>2 DEF Watch
<1> PICK missing \in SUBSET {w \in Listening(kind, project) : watches[w].cancelled} :
       watches' = [w \in Ids |-> IF w \in Listening(kind, project) \ missing THEN got(w)
                                 ELSE watches[w]]
  BY DEF Publish
<1>4. \A w \in Ids : watches'[w] = got(w) \/ watches'[w] = watches[w]
  OBVIOUS
<1> HIDE DEF got
<1>5. watches' \in Seq(Watch) /\ Len(watches') = Len(watches) /\ Ids' = Ids
  <2>1. watches' \in [1 .. Len(watches) -> Watch]
    BY <1>2, <1>3
  <2> QED
    BY <1>2, <2>1 DEF Ids
<1>6. \A w \in Ids : /\ watches'[w].pc = watches[w].pc
                     /\ watches'[w].kind = watches[w].kind
                     /\ watches'[w].project = watches[w].project
                     /\ watches'[w].cancelled = watches[w].cancelled
                     /\ watches'[w].event = watches[w].event
                     /\ \/ watches'[w].queue = watches[w].queue
                        \/ watches'[w].queue = Append(watches[w].queue, events + 1)
  BY <1>3, <1>4
<1>7. TypeOK'
  <2>1. 1 .. events \subseteq 1 .. events'
    BY <1>1
  <2>2. relayed' \subseteq Ids' \X (1 .. events')
    BY <1>1, <1>5, <2>1 DEF IInv, TypeOK
  <2> QED
    BY <1>1, <1>5, <2>2 DEF IInv, TypeOK
<1>8. OneWriter'
  <2>1. \A w \in Ids : watches'[w].pc = "write" <=> watches[w].pc = "write"
    BY <1>6
  <2> QED
    BY <1>1, <1>5, <2>1 DEF IInv, OneWriter
<1>9. MessageSteps' /\ ToldIsKept'
  BY <1>1, <1>6, ToldStays DEF IInv, MessageSteps
<1>10. WatchSteps'
  <2> SUFFICES ASSUME NEW w \in Ids
               PROVE  Sound(watches'[w], events')
    BY <1>5 DEF WatchSteps
  <2>1. Sound(watches[w], events) /\ watches[w].queue \in Seq(1 .. MaxEvents)
    BY WatchFields DEF IInv, WatchSteps
  <2>2. \A i \in 1 .. Len(watches'[w].queue) : watches'[w].queue[i] \in 1 .. events'
    <3>1. CASE watches'[w].queue = watches[w].queue
      BY <1>1, <2>1, <3>1 DEF Sound
    <3>2. CASE watches'[w].queue = Append(watches[w].queue, events + 1)
      <4> DEFINE queue == watches[w].queue
      <4>1. \A i \in 1 .. Len(queue) : queue[i] \in 1 .. events
        BY <2>1 DEF Sound
      <4>2. queue \in Seq(1 .. MaxEvents) /\ events + 1 \in 1 .. MaxEvents
        BY <1>1, <2>1, BoundsAreNumbers
      <4> HIDE DEF queue
      <4>3. \A i \in 1 .. Len(Append(queue, events + 1)) :
               Append(queue, events + 1)[i] \in 1 .. events + 1
        BY <1>1, <4>1, <4>2, AppendProperties
      <4> QED
        BY <1>1, <3>2, <4>3 DEF queue
    <3> QED
      BY <1>6, <3>1, <3>2
  <2>3. watches'[w].pc \in {"lock", "write"} => watches'[w].event \in 1 .. events'
    BY <1>1, <1>6, <2>1 DEF Sound
  <2>4. (watches'[w].pc = "ended" /\ watches'[w].kind \in Watched) => watches'[w].cancelled
    BY <1>6, <2>1, Zenon DEF Sound
  <2> QED
    BY <2>2, <2>3, <2>4 DEF Sound
<1>11. CancellationsKept'
  <2> SUFFICES ASSUME NEW k \in Kinds, cancellations[k] # 0
               PROVE  /\ watches'[cancellations[k]].kind = k
                      /\ ~ watches'[cancellations[k]].cancelled
    BY <1>1 DEF CancellationsKept
  <2>1. cancellations[k] \in Ids
    BY <1>2 DEF IInv, TypeOK
  <2> QED
    BY <1>6, <2>1 DEF IInv, CancellationsKept
<1> QED
  BY <1>7, <1>8, <1>9, <1>10, <1>11 DEF IInv

\* The watches' steps that leave the socket alone.
LEMMA WatchRestKeeps ==
    ASSUME IInv, NEW w \in Ids, NEW r \in Watch,
           watches' = [watches EXCEPT ![w] = r],
           r.kind = watches[w].kind, r.project = watches[w].project,
           r.cancelled = watches[w].cancelled, Sound(r, events), r.pc # "write", watches[w].pc # "write",
           UNCHANGED <<client, asked, receive, ping, main, mutex, cancellations, events,
                       answered, relayed>>
    PROVE  IInv'
<1>1. MessageSteps' /\ WatchSteps' /\ CancellationsKept' /\ ToldIsKept'
  BY OneWatchSteps
<1>2. TypeOK'
  <2>1. mutex' \in {"free", "main", "ping", "watch"} /\ relayed' \subseteq Ids \X (1 .. events)
    BY DEF IInv, TypeOK
  <2> QED
    BY <2>1, OneWatchSteps
<1>3. OneWriter'
  <2>1. /\ Ids' = Ids /\ watches'[w] = r
        /\ \A v \in Ids : v # w => watches'[v] = watches[v]
    BY WatchUpdate DEF IInv
  <2>2. \A v \in Ids : watches'[v].pc = "write" <=> watches[v].pc = "write"
    BY <2>1
  <2> QED
    BY <2>1, <2>2 DEF IInv, OneWriter
<1> QED
  BY <1>1, <1>2, <1>3 DEF IInv

\* A watch that only takes another step.
LEMMA StepSound ==
    ASSUME IInv, NEW w \in Ids,
           NEW pc \in {"receiving", "ended", "broken"},
           pc = "ended" => watches[w].cancelled
    PROVE  LET r == [watches[w] EXCEPT !.pc = pc]
           IN  /\ r \in Watch /\ r.pc = pc
               /\ r.kind = watches[w].kind /\ r.project = watches[w].project
               /\ r.cancelled = watches[w].cancelled
               /\ Sound(r, events)
<1> DEFINE r == [watches[w] EXCEPT !.pc = pc]
<1>1. watches[w] \in Watch /\ Sound(watches[w], events)
  BY WatchFields DEF IInv, WatchSteps
<1>2. /\ r \in Watch /\ r.pc = pc
      /\ r.kind = watches[w].kind /\ r.project = watches[w].project
      /\ r.cancelled = watches[w].cancelled
      /\ r.queue = watches[w].queue
  BY <1>1 DEF Watch
<1> HIDE DEF r
<1>3. Sound(r, events)
  BY <1>1, <1>2 DEF Sound
<1> QED
  BY <1>2, <1>3 DEF r

\* Every step of a watch.
LEMMA WatchKeeps ==
    ASSUME IInv, NEW w \in Ids, WatchNext(w)
    PROVE  IInv'
<1> USE DEF Step
<1>1. /\ watches[w] \in Watch /\ Sound(watches[w], events)
      /\ watches[w].queue \in Seq(1 .. MaxEvents)
  BY WatchFields DEF IInv, WatchSteps
<1>2. TypeOK
  BY DEF IInv
<1>3. CASE StartWatch(w)
  <2>1. PICK pc \in {"receiving", "ended", "broken"} :
           /\ watches' = [watches EXCEPT ![w].pc = pc]
           /\ pc = "ended" => watches[w].cancelled
    BY <1>3 DEF StartWatch
  <2>2. watches' = [watches EXCEPT ![w] = [watches[w] EXCEPT !.pc = pc]]
    BY <1>2, <2>1, WatchExcept
  <2>3. pc # "write" /\ watches[w].pc # "write"
    BY <1>3, <2>1 DEF StartWatch
  <2>4. UNCHANGED <<client, asked, receive, ping, main, mutex, cancellations, events,
                    answered, relayed>>
    BY <1>3 DEF StartWatch
  <2> QED
    BY <2>1, <2>2, <2>3, <2>4, StepSound, WatchRestKeeps
<1>4. CASE RecvCancelled(w)
  <2>1. watches' = [watches EXCEPT ![w] = [watches[w] EXCEPT !.pc = "ended"]]
    BY <1>2, <1>4, WatchExcept DEF RecvCancelled
  <2>2. watches[w].cancelled /\ watches[w].pc # "write"
    BY <1>4 DEF RecvCancelled
  <2>3. UNCHANGED <<client, asked, receive, ping, main, mutex, cancellations, events,
                    answered, relayed>>
    BY <1>4 DEF RecvCancelled
  <2>4. LET r == [watches[w] EXCEPT !.pc = "ended"]
        IN  /\ r \in Watch /\ r.pc = "ended"
            /\ r.kind = watches[w].kind /\ r.project = watches[w].project
            /\ r.cancelled = watches[w].cancelled
            /\ Sound(r, events)
    BY <2>2, StepSound
  <2> QED
    BY <2>1, <2>2, <2>3, <2>4, WatchRestKeeps
<1>5. CASE RecvFails(w)
  <2> DEFINE pc == IF watches[w].cancelled THEN "ended" ELSE "broken"
             r == [watches[w] EXCEPT !.pc = pc, !.queue = <<>>]
  <2>1. watches' = [watches EXCEPT ![w] = r]
    BY <1>2, <1>5, WatchExcept, ZenonT(40) DEF RecvFails
  <2>2. pc \in {"ended", "broken"} /\ (pc = "ended" => watches[w].cancelled)
    OBVIOUS
  <2> HIDE DEF pc
  <2>3. /\ r \in Watch /\ r.pc = pc /\ r.queue = <<>>
        /\ r.kind = watches[w].kind /\ r.project = watches[w].project
        /\ r.cancelled = watches[w].cancelled
    <3>1. <<>> \in Seq(1 .. MaxEvents)
      OBVIOUS
    <3>2. pc \in {"starting", "receiving", "lock", "write", "ended", "broken"}
      BY <2>2
    <3> QED
      BY <1>1, <3>1, <3>2 DEF Watch
  <2>4. /\ watches[w].pc # "write"
        /\ UNCHANGED <<client, asked, receive, ping, main, mutex, cancellations, events,
                       answered, relayed>>
    BY <1>5 DEF RecvFails
  <2> HIDE DEF r
  <2>5. Sound(r, events)
    BY <2>2, <2>3 DEF Sound
  <2> QED
    BY <2>1, <2>2, <2>3, <2>4, <2>5, WatchRestKeeps
<1>6. CASE RecvEvent(w)
  <2> DEFINE queue == watches[w].queue
             r == [watches[w] EXCEPT !.pc = "lock", !.event = Head(queue), !.queue = Tail(queue)]
  <2>1. queue \in Seq(1 .. MaxEvents) /\ queue # <<>>
    BY <1>1, <1>6 DEF RecvEvent
  <2>2. \A i \in 1 .. Len(queue) : queue[i] \in 1 .. events
    BY <1>1 DEF Sound
  <2>3. watches' = [watches EXCEPT ![w] = r]
    <3>1. watches' = [watches EXCEPT ![w].pc = "lock", ![w].event = Head(queue),
                                     ![w].queue = Tail(queue)]
      BY <1>6 DEF RecvEvent
    <3> QED
      BY <1>2, <3>1, WatchExcept, ZenonT(40)
  <2> HIDE DEF queue
  <2>4. /\ Head(queue) \in 1 .. events /\ Head(queue) \in 0 .. MaxEvents
        /\ Tail(queue) \in Seq(1 .. MaxEvents)
        /\ \A i \in 1 .. Len(Tail(queue)) : Tail(queue)[i] \in 1 .. events
    <3>1. Head(queue) = queue[1] /\ 1 \in 1 .. Len(queue) /\ Head(queue) \in 1 .. MaxEvents
      <4>1. Len(queue) \in Nat /\ Len(queue) # 0
        BY <2>1, EmptySeq
      <4>2. Head(queue) = queue[1]
        BY <2>1
      <4>3. Head(queue) \in 1 .. MaxEvents
        BY <2>1, HeadTailProperties
      <4> QED
        BY <4>1, <4>2, <4>3
    <3>2. /\ Tail(queue) \in Seq(1 .. MaxEvents) /\ Len(Tail(queue)) = Len(queue) - 1
          /\ \A i \in 1 .. Len(Tail(queue)) : Tail(queue)[i] = queue[i + 1]
      BY <2>1, HeadTailProperties
    <3>3. \A i \in 1 .. Len(Tail(queue)) : i + 1 \in 1 .. Len(queue)
      BY <2>1, <3>2
    <3> QED
      BY <2>2, <3>1, <3>2, <3>3, BoundsAreNumbers
  <2>5. /\ r \in Watch /\ r.pc = "lock" /\ r.queue = Tail(queue) /\ r.event = Head(queue)
        /\ r.kind = watches[w].kind /\ r.project = watches[w].project
        /\ r.cancelled = watches[w].cancelled
    BY <1>1, <2>4 DEF Watch
  <2>6. /\ watches[w].pc # "write"
        /\ UNCHANGED <<client, asked, receive, ping, main, mutex, cancellations, events,
                       answered, relayed>>
    BY <1>6 DEF RecvEvent
  <2> HIDE DEF r
  <2>7. Sound(r, events)
    BY <2>4, <2>5 DEF Sound
  <2> QED
    BY <2>3, <2>5, <2>6, <2>7, WatchRestKeeps
<1>7. CASE LockWatch(w)
  <2> DEFINE r == [watches[w] EXCEPT !.pc = "write"]
  <2>1. watches' = [watches EXCEPT ![w] = r]
    BY <1>2, <1>7, WatchExcept DEF LockWatch
  <2>2. /\ r \in Watch /\ r.pc = "write" /\ r.queue = watches[w].queue
        /\ r.event = watches[w].event
        /\ r.kind = watches[w].kind /\ r.project = watches[w].project
        /\ r.cancelled = watches[w].cancelled
    BY <1>1 DEF Watch
  <2>3. /\ watches[w].pc = "lock" /\ mutex = "free" /\ mutex' = "watch"
        /\ UNCHANGED <<client, asked, receive, ping, main, cancellations, events,
                       answered, relayed>>
    BY <1>7 DEF LockWatch
  <2> HIDE DEF r
  <2>4. Sound(r, events)
    BY <1>1, <2>2, <2>3 DEF Sound
  <2>5. MessageSteps' /\ WatchSteps' /\ CancellationsKept' /\ ToldIsKept'
    BY <2>1, <2>2, <2>3, <2>4, OneWatchSteps
  <2>6. TypeOK'
    <3>1. relayed' \subseteq Ids \X (1 .. events)
      BY <2>3 DEF IInv, TypeOK
    <3> QED
      BY <2>1, <2>2, <2>3, <2>4, <3>1, OneWatchSteps
  <2>7. OneWriter'
    <3>1. /\ Ids' = Ids /\ watches'[w] = r
          /\ \A v \in Ids : v # w => watches'[v] = watches[v]
      BY <1>2, <2>1, <2>2, WatchUpdate
    <3>2. \A v \in Ids : watches[v].pc # "write"
      BY <2>3 DEF IInv, OneWriter
    <3>3. \A v \in Ids : watches'[v].pc = "write" <=> v = w
      BY <2>2, <3>1, <3>2
    <3> QED
      BY <2>3, <3>1, <3>3 DEF IInv, OneWriter
  <2> QED
    BY <2>5, <2>6, <2>7 DEF IInv
<1>8. CASE SendEvent(w)
  <2> DEFINE r == [watches[w] EXCEPT !.pc = "receiving", !.event = 0]
  <2>1. watches' = [watches EXCEPT ![w] = r]
    BY <1>2, <1>8, WatchExcept, ZenonT(40) DEF SendEvent
  <2>2. /\ r \in Watch /\ r.pc = "receiving" /\ r.queue = watches[w].queue
        /\ r.kind = watches[w].kind /\ r.project = watches[w].project
        /\ r.cancelled = watches[w].cancelled
    <3>1. 0 \in 0 .. MaxEvents
      BY BoundsAreNumbers
    <3>2. "receiving" \in {"starting", "receiving", "lock", "write", "ended", "broken"}
      OBVIOUS
    <3> QED
      BY <1>1, <3>1, <3>2 DEF Watch
  <2>3. /\ watches[w].pc = "write" /\ mutex' = "free"
        /\ relayed' \subseteq relayed \union {<<w, watches[w].event>>}
        /\ client' \in {client, "stuck"} /\ (client' = "open" => client = "open")
        /\ UNCHANGED <<asked, receive, ping, main, cancellations, events, answered>>
    BY <1>8 DEF SendEvent, WriteFails
  <2> HIDE DEF r
  <2>4. Sound(r, events)
    BY <1>1, <2>2 DEF Sound
  <2>5. MessageSteps' /\ WatchSteps' /\ CancellationsKept' /\ ToldIsKept'
    BY <2>1, <2>2, <2>3, <2>4, OneWatchSteps
  <2>6. TypeOK'
    <3>1. watches[w].event \in 1 .. events
      BY <1>1, <2>3 DEF Sound
    <3>2. relayed' \subseteq Ids \X (1 .. events)
      BY <2>3, <3>1 DEF IInv, TypeOK
    <3> QED
      BY <2>1, <2>2, <2>3, <2>4, <3>2, OneWatchSteps
  <2>7. OneWriter'
    <3>1. /\ Ids' = Ids /\ watches'[w] = r
          /\ \A v \in Ids : v # w => watches'[v] = watches[v]
      BY <1>2, <2>1, <2>2, WatchUpdate
    <3>2. mutex = "watch" /\ \A v \in Ids : watches[v].pc = "write" => v = w
      BY <2>3 DEF IInv, OneWriter
    <3>3. \A v \in Ids : watches'[v].pc # "write"
      BY <2>2, <3>1, <3>2
    <3> QED
      BY <2>3, <3>1, <3>2, <3>3 DEF IInv, OneWriter
  <2> QED
    BY <2>5, <2>6, <2>7 DEF IInv
<1> QED
  BY <1>3, <1>4, <1>5, <1>6, <1>7, <1>8 DEF WatchNext

\* The beginning of a session.
LEMMA InitGood == Init => IInv
<1> SUFFICES ASSUME Init PROVE IInv
  OBVIOUS
<1>1. Ids = {} /\ Len(watches) = 0 /\ watches \in Seq(Watch)
  BY DEF Init, Ids
<1>2. TypeOK
  BY <1>1, BoundsAreNumbers DEF Init, TypeOK
<1>3. OneWriter
  BY <1>1 DEF Init, OneWriter
<1>4. MessageSteps /\ WatchSteps /\ CancellationsKept /\ ToldIsKept
  BY <1>1 DEF Init, MessageSteps, WatchSteps, CancellationsKept, ToldIsKept
<1> QED
  BY <1>2, <1>3, <1>4 DEF IInv

\* Every step keeps the invariant.
LEMMA NextKeeps == IInv /\ [Next]_vars => IInv'
<1> SUFFICES ASSUME IInv, [Next]_vars PROVE IInv'
  OBVIOUS
<1>1. CASE UNCHANGED vars
  <2>1. Ids' = Ids /\ WatchSteps' /\ CancellationsKept'
    BY <1>1, WatchesStay DEF vars
  <2>2. TypeOK'
    BY <1>1, <2>1 DEF vars, IInv, TypeOK
  <2>3. OneWriter' /\ MessageSteps' /\ ToldIsKept'
    BY <1>1, <2>1, ToldStays DEF vars, IInv, OneWriter, MessageSteps
  <2> QED
    BY <2>1, <2>2, <2>3 DEF IInv
<1>2. CASE Next
  BY <1>2, ClientKeeps, MessageKeeps, AnswerKeeps, PingKeeps, PublishKeeps, WatchKeeps
     DEF Next
<1> QED
  BY <1>1, <1>2

\* The invariant of a session.
LEMMA Invariance == Spec => []IInv
BY InitGood, NextKeeps, PTL DEF Spec

\* The types of a session's state, for any number of messages, watches and events:
\* what is relayed was published, and cancellations are those of watches (session.go).
THEOREM TypeCorrect == Spec => []TypeOK
<1>1. IInv => TypeOK
  BY DEF IInv
<1> QED
  BY <1>1, Invariance, PTL

\* Answers, pings and events are written to the socket one at a time, by the
\* goroutine that holds m (send, Send).
THEOREM SocketHasOneWriter == Spec => []OneWriter
<1>1. IInv => OneWriter
  BY DEF IInv
<1> QED
  BY <1>1, Invariance, PTL

\* A client that was told "subscribed" for a kind and not "unsubscribed" since has
\* a watch of the kind that was not cancelled, for one of the projects it was told,
\* after any number of subscriptions (addSubscription, removeSubscription).
THEOREM SubscriptionsWatched == Spec => []SubscribedIsWatched
<1>1. IInv => SubscribedIsWatched
  <2> SUFFICES ASSUME IInv, NEW kind \in Watched, answered[kind] # {},
                      main.message.kind # kind, client = "open"
               PROVE  /\ cancellations[kind] # 0
                      /\ watches[cancellations[kind]].project \in answered[kind]
                      /\ ~ watches[cancellations[kind]].cancelled
                      /\ watches[cancellations[kind]].pc # "ended"
    BY DEF SubscribedIsWatched
  <2>1. kind \in Kinds
    BY WatchedAreKinds
  <2>2. /\ cancellations[kind] # 0
        /\ watches[cancellations[kind]].project \in answered[kind]
    BY <2>1 DEF IInv, ToldIsKept, Answering
  <2>3. cancellations[kind] \in Ids
    BY <2>1, <2>2 DEF IInv, TypeOK, Ids
  <2>4. /\ watches[cancellations[kind]].kind = kind
        /\ ~ watches[cancellations[kind]].cancelled
    BY <2>1, <2>2 DEF IInv, CancellationsKept
  <2>5. Sound(watches[cancellations[kind]], events)
    BY <2>3 DEF IInv, WatchSteps
  <2>6. watches[cancellations[kind]].pc # "ended"
    BY <2>4, <2>5 DEF Sound
  <2> QED
    BY <2>2, <2>4, <2>6
<1> QED
  BY <1>1, Invariance, PTL
=============================================================================
