---------------------------- MODULE WatchSession ----------------------------
(***************************************************************************)
(* A web-socket session of the REST proxy (session.go, event-handler.go):  *)
(* a client subscribes to kinds of entities, and the session relays to it  *)
(* the events of a Watch stream for each of them.                          *)
(*                                                                         *)
(* A session keeps one watch of a kind, for the project of the message that *)
(* started it: a later subscription of the kind to another project is      *)
(* answered "subscribed" and starts nothing.                               *)
(*                                                                         *)
(* Goroutines: the select loop of startSession, receive, ping, and one     *)
(* watch for every stream that was started.  The channels are unbuffered;  *)
(* the mutex m orders the writes to the socket.                            *)
(*                                                                         *)
(* start waits for receive and ping before it cancels the context that     *)
(* ping waits for, so nothing ever comes through done and no session is    *)
(* ever removed: neither is a step here.                                   *)
(***************************************************************************)
EXTENDS Naturals, Sequences

CONSTANTS
    Kinds,          \* of entities, as clients name them
    Watched,        \* the kinds that startWatching knows
    Projects,       \* that messages name
    AnyProject,     \* the blank project, whose streams get the events of all
    MaxMessages,    \* bound on the client's messages
    MaxEvents       \* bound on the events of the catalog

ASSUME WatchedAreKinds == Watched \subseteq Kinds

ASSUME BoundsAreNumbers == MaxMessages \in Nat /\ MaxEvents \in Nat

VARIABLES
    client,         \* "open"; "stuck" once a write has missed its deadline, and
                    \* every later one fails; "gone" when it has closed the socket
    asked,          \* its messages so far
    receive,        \* progress of receive, with the message it has read
    ping,           \* progress of ping
    main,           \* progress of the select loop, with its message
    mutex,          \* who holds m: "main", "ping", a watch, or "free"
    cancellations,  \* kind -> the watch whose cancellation is kept, 0 if none
    watches,        \* the watches, in the order they were started
    events,         \* events of the catalog so far
    answered,       \* kind -> the projects the client was told "subscribed" for,
                    \* since it was last told "unsubscribed"
    relayed         \* the events the client got, with the watch they came by

vars == <<client, asked, receive, ping, main, mutex, cancellations, watches,
          events, answered, relayed>>

NoMessage == [op |-> "none", kind |-> "none", project |-> "none"]

\* The project of an "unsubscribe" plays no part, nor does the kind of a message
\* that is no subscription.
Message == [op : {"subscribe"}, kind : Kinds, project : Projects]
           \union [op : {"unsubscribe"}, kind : Kinds, project : {"none"}]
           \union {[op |-> "other", kind |-> "none", project |-> "none"]}

\* pc: "broken" once its stream has failed by itself; queue: events the
\* catalog has sent it; event: the one in hand, being written.
Watch == [kind : Kinds, project : Projects,
          pc : {"starting", "receiving", "lock", "write", "ended", "broken"},
          cancelled : BOOLEAN, queue : Seq(1 .. MaxEvents), event : 0 .. MaxEvents]

Ids == 1 .. Len(watches)

Init == /\ client = "open"
        /\ asked = 0
        /\ receive = [pc |-> "reading", message |-> NoMessage]
        /\ ping = "waiting"
        /\ main = [pc |-> "select", message |-> NoMessage]
        /\ mutex = "free"
        /\ cancellations = [k \in Kinds |-> 0]
        /\ watches = <<>>
        /\ events = 0
        /\ answered = [k \in Kinds |-> {}]
        /\ relayed = {}

-----------------------------------------------------------------------------
(* The client, and receive.                                                *)

Receive(message) ==
    /\ receive.pc = "reading"
    /\ client # "gone"
    /\ asked < MaxMessages
    /\ asked' = asked + 1
    /\ receive' = [pc |-> "passing", message |-> message]
    /\ UNCHANGED <<client, ping, main, mutex, cancellations, watches, events,
                   answered, relayed>>

Leave == /\ client # "gone"
         /\ client' = "gone"
         /\ UNCHANGED <<asked, receive, ping, main, mutex, cancellations, watches,
                        events, answered, relayed>>

\* What cannot be read ends receive.  A close frame is passed on to the select
\* loop; a malformed message, a missing pong or a broken connection is not.
ReceiveFails ==
    /\ receive.pc = "reading"
    /\ \/ receive' = [receive EXCEPT !.pc = "ended"]
       \/ client = "gone" /\ receive' = [receive EXCEPT !.pc = "failing"]
    /\ UNCHANGED <<client, asked, ping, main, mutex, cancellations, watches, events,
                   answered, relayed>>

-----------------------------------------------------------------------------
(* The select loop.                                                        *)

\* startWatching, of a kind it knows or not.
Started(kind, project) ==
    [kind |-> kind, project |-> project,
     pc |-> IF kind \in Watched THEN "starting" ELSE "ended",
     cancelled |-> FALSE, queue |-> <<>>, event |-> 0]

\* A kind that is watched is left as it is, also when the project is another.
addSubscription(kind, project) ==
    IF cancellations[kind] # 0 THEN UNCHANGED <<cancellations, watches>>
    ELSE /\ cancellations' = [cancellations EXCEPT ![kind] = Len(watches) + 1]
         /\ watches' = Append(watches, Started(kind, project))

\* Mutant: the cancellation stays in the map.
RemoveKeepsCancellation(kind) ==
    /\ watches' = [w \in Ids |-> IF w # cancellations[kind] THEN watches[w]
                                 ELSE [watches[w] EXCEPT !.cancelled = TRUE]]
    /\ UNCHANGED cancellations

\* Mutant: the cancellation is dropped from the map and not called.
RemoveWithoutCancel(kind) ==
    /\ cancellations' = [cancellations EXCEPT ![kind] = 0]
    /\ UNCHANGED watches

removeSubscription(kind) ==
    /\ cancellations' = [cancellations EXCEPT ![kind] = 0]
    /\ watches' = [w \in Ids |-> IF w # cancellations[kind] THEN watches[w]
                                 ELSE [watches[w] EXCEPT !.cancelled = TRUE]]

\* A message comes through the channel; one of another op is left alone.
TakeMessage ==
    LET message == receive.message
    IN  /\ main.pc = "select"
        /\ receive.pc = "passing"
        /\ CASE message.op = "subscribe"   -> addSubscription(message.kind, message.project)
             [] message.op = "unsubscribe" -> removeSubscription(message.kind)
             [] OTHER                      -> UNCHANGED <<cancellations, watches>>
        /\ main' = IF message.op = "other" THEN main
                   ELSE [pc |-> "lock", message |-> message]
        /\ receive' = [pc |-> "reading", message |-> NoMessage]
        /\ UNCHANGED <<client, asked, ping, mutex, events, answered, relayed>>

\* An error comes through the channel, and is logged.
TakeError ==
    /\ main.pc = "select"
    /\ receive.pc = "failing"
    /\ receive' = [receive EXCEPT !.pc = "ended"]
    /\ UNCHANGED <<client, asked, ping, main, mutex, cancellations, watches, events,
                   answered, relayed>>

LockMain ==
    /\ main.pc = "lock"
    /\ mutex = "free"
    /\ mutex' = "main"
    /\ main' = [main EXCEPT !.pc = "write"]
    /\ UNCHANGED <<client, asked, receive, ping, cancellations, watches, events,
                   answered, relayed>>

\* A write to the socket that fails: the client has left, or it misses the
\* deadline, and then fails for good.
WriteFails == client' = IF client = "open" THEN "stuck" ELSE client

\* What a client has been told of a kind once it has got the answer.
Told(message) == IF message.op = "subscribe"
                 THEN answered[message.kind] \union {message.project} ELSE {}

\* Send of "subscribed" or "unsubscribed"; its error is dropped.
SendAnswer ==
    /\ main.pc = "write"
    /\ \/ /\ client = "open"
          /\ answered' = [answered EXCEPT ![main.message.kind] = Told(main.message)]
          /\ UNCHANGED client
       \/ WriteFails /\ UNCHANGED answered
    /\ mutex' = "free"
    /\ main' = [pc |-> "select", message |-> NoMessage]
    /\ UNCHANGED <<asked, receive, ping, cancellations, watches, events, relayed>>

-----------------------------------------------------------------------------
(* ping.                                                                   *)

Tick == /\ ping = "waiting"
        /\ ping' = "lock"
        /\ UNCHANGED <<client, asked, receive, main, mutex, cancellations, watches,
                       events, answered, relayed>>

LockPing == /\ ping = "lock"
            /\ mutex = "free"
            /\ mutex' = "ping"
            /\ ping' = "write"
            /\ UNCHANGED <<client, asked, receive, main, cancellations, watches,
                           events, answered, relayed>>

\* Mutant: an error of the write is passed on with m held, whatever it is.
SendPingForwards ==
    /\ ping = "write"
    /\ \/ client = "open" /\ UNCHANGED client
       \/ main.pc = "select" /\ WriteFails
    /\ mutex' = "free"
    /\ ping' = "waiting"
    /\ UNCHANGED <<asked, receive, main, cancellations, watches, events, answered,
                   relayed>>

\* The error of a write is no CloseError: handleError drops it, and does not
\* wait for the select loop with m held.
SendPing == /\ ping = "write"
            /\ (client = "open" /\ UNCHANGED client) \/ WriteFails
            /\ mutex' = "free"
            /\ ping' = "waiting"
            /\ UNCHANGED <<asked, receive, main, cancellations, watches, events,
                           answered, relayed>>

-----------------------------------------------------------------------------
(* The watches.                                                            *)

Step(w, pc) == watches' = [watches EXCEPT ![w].pc = pc]

\* The call that opens the stream: the catalog registers its listener, or it
\* fails and is logged.  A cancelled context makes it fail.
StartWatch(w) ==
    /\ watches[w].pc = "starting"
    /\ \/ ~ watches[w].cancelled /\ Step(w, "receiving")
       \/ Step(w, IF watches[w].cancelled THEN "ended" ELSE "broken")
    /\ UNCHANGED <<client, asked, receive, ping, main, mutex, cancellations, events,
                   answered, relayed>>

\* The catalog keeps a stream's events to its project.
Listening(kind, project) ==
    {w \in Ids : /\ watches[w].kind = kind
                 /\ watches[w].project \in {project, AnyProject}
                 /\ watches[w].pc \in {"receiving", "lock", "write"}}

\* The catalog publishes an event of the kind, in a project.  A stream that is
\* being cancelled may or may not still get it.
Publish(kind, project) ==
    /\ events < MaxEvents
    /\ events' = events + 1
    /\ \E missing \in SUBSET {w \in Listening(kind, project) : watches[w].cancelled} :
          watches' = [w \in Ids |->
              IF w \in Listening(kind, project) \ missing
              THEN [watches[w] EXCEPT !.queue = Append(@, events + 1)]
              ELSE watches[w]]
    /\ UNCHANGED <<client, asked, receive, ping, main, mutex, cancellations,
                   answered, relayed>>

\* Mutant: an event is dropped when the socket is in use.
RecvEventUnlessBusy(w) ==
    /\ watches[w].pc = "receiving"
    /\ watches[w].queue # <<>>
    /\ watches' = [watches EXCEPT ![w].pc = IF mutex = "free" THEN "lock" ELSE @,
                                  ![w].event = IF mutex = "free"
                                               THEN Head(watches[w].queue) ELSE 0,
                                  ![w].queue = Tail(@)]
    /\ UNCHANGED <<client, asked, receive, ping, main, mutex, cancellations, events,
                   answered, relayed>>

RecvEvent(w) ==
    /\ watches[w].pc = "receiving"
    /\ watches[w].queue # <<>>
    /\ watches' = [watches EXCEPT ![w].pc = "lock",
                                  ![w].event = Head(watches[w].queue),
                                  ![w].queue = Tail(@)]
    /\ UNCHANGED <<client, asked, receive, ping, main, mutex, cancellations, events,
                   answered, relayed>>

\* A cancelled stream fails, at the latest once what it has buffered is read.
RecvCancelled(w) ==
    /\ watches[w].pc = "receiving"
    /\ watches[w].cancelled
    /\ watches[w].queue = <<>>
    /\ Step(w, "ended")
    /\ UNCHANGED <<client, asked, receive, ping, main, mutex, cancellations, events,
                   answered, relayed>>

\* The catalog or the connection to it fails, or a cancelled stream does before
\* what it has buffered is read; that is lost.
RecvFails(w) ==
    /\ watches[w].pc = "receiving"
    /\ watches' = [watches EXCEPT
          ![w].pc = IF watches[w].cancelled THEN "ended" ELSE "broken",
          ![w].queue = <<>>]
    /\ UNCHANGED <<client, asked, receive, ping, main, mutex, cancellations, events,
                   answered, relayed>>

\* Mutant: the event is written without m.
LockWatchUnlocked(w) ==
    /\ watches[w].pc = "lock"
    /\ Step(w, "write")
    /\ UNCHANGED <<client, asked, receive, ping, main, mutex, cancellations, events,
                   answered, relayed>>

LockWatch(w) ==
    /\ watches[w].pc = "lock"
    /\ mutex = "free"
    /\ mutex' = "watch"
    /\ Step(w, "write")
    /\ UNCHANGED <<client, asked, receive, ping, main, cancellations, events,
                   answered, relayed>>

\* Mutant: the event is dropped before it is written.
SendDroppedEvent(w) ==
    /\ watches[w].pc = "write"
    /\ \/ /\ client = "open"
          /\ relayed' = relayed \union {<<w, 0>>}
          /\ UNCHANGED client
       \/ WriteFails /\ UNCHANGED relayed
    /\ mutex' = "free"
    /\ watches' = [watches EXCEPT ![w].pc = "receiving", ![w].event = 0]
    /\ UNCHANGED <<asked, receive, ping, main, cancellations, events, answered>>

\* Mutant: the event of a watch that was cancelled meanwhile is not written.
SendUnlessCancelled(w) ==
    /\ watches[w].pc = "write"
    /\ \/ /\ client = "open"
          /\ relayed' = IF watches[w].cancelled THEN relayed
                        ELSE relayed \union {<<w, watches[w].event>>}
          /\ UNCHANGED client
       \/ WriteFails /\ UNCHANGED relayed
    /\ mutex' = "free"
    /\ watches' = [watches EXCEPT ![w].pc = "receiving", ![w].event = 0]
    /\ UNCHANGED <<asked, receive, ping, main, cancellations, events, answered>>

\* processEvent: an error of Send is logged, the event is dropped, and the watch
\* goes on; nobody looks at the context between Recv and Send.
SendEvent(w) ==
    /\ watches[w].pc = "write"
    /\ \/ /\ client = "open"
          /\ relayed' = relayed \union {<<w, watches[w].event>>}
          /\ UNCHANGED client
       \/ WriteFails /\ UNCHANGED relayed
    /\ mutex' = "free"
    /\ watches' = [watches EXCEPT ![w].pc = "receiving", ![w].event = 0]
    /\ UNCHANGED <<asked, receive, ping, main, cancellations, events, answered>>

-----------------------------------------------------------------------------

WatchNext(w) == StartWatch(w) \/ RecvEvent(w) \/ RecvCancelled(w) \/ RecvFails(w)
                \/ LockWatch(w) \/ SendEvent(w)

Next == \/ \E message \in Message : Receive(message)
        \/ Leave
        \/ ReceiveFails
        \/ TakeMessage
        \/ TakeError
        \/ LockMain
        \/ SendAnswer
        \/ Tick
        \/ LockPing
        \/ SendPing
        \/ \E kind \in Watched, project \in Projects \ {AnyProject} : Publish(kind, project)
        \/ \E w \in Ids : WatchNext(w)

\* The watches that a bounded client can start.
WatchIds == 1 .. MaxMessages

\* Goroutines that can go on do; one that waits for m gets it in the end, as a
\* sync.Mutex hands itself to a goroutine that has waited for a millisecond.
\* Nothing makes the client send or leave, a write miss its deadline, a stream
\* fail or an event occur.
Fairness ==
    /\ WF_vars(TakeMessage) /\ WF_vars(TakeError)
    /\ SF_vars(LockMain) /\ WF_vars(SendAnswer)
    /\ SF_vars(LockPing) /\ WF_vars(SendPing)
    /\ \A w \in WatchIds :
          /\ WF_vars(w \in Ids /\ StartWatch(w))
          /\ WF_vars(w \in Ids /\ RecvEvent(w))
          /\ WF_vars(w \in Ids /\ RecvCancelled(w))
          /\ SF_vars(w \in Ids /\ LockWatch(w))
          /\ WF_vars(w \in Ids /\ SendEvent(w))

Spec == Init /\ [][Next]_vars /\ Fairness

-----------------------------------------------------------------------------

\* Types of the session's state: a kept cancellation is that of a watch that was
\* started, and the client only gets events that the catalog has published.
TypeOK ==
    /\ client \in {"open", "stuck", "gone"}
    /\ asked \in 0 .. MaxMessages
    /\ receive \in [pc : {"reading", "passing", "failing", "ended"},
                    message : Message \union {NoMessage}]
    /\ ping \in {"waiting", "lock", "write"}
    /\ main \in [pc : {"select", "lock", "write"}, message : Message \union {NoMessage}]
    /\ mutex \in {"free", "main", "ping", "watch"}
    /\ cancellations \in [Kinds -> 0 .. Len(watches)]
    /\ watches \in Seq(Watch)
    /\ events \in 0 .. MaxEvents
    /\ answered \in [Kinds -> SUBSET Projects]
    /\ relayed \subseteq Ids \X (1 .. events)

\* Only one goroutine writes to the socket at a time, and it holds m: the
\* web-socket library allows one concurrent writer, and answers, pings and the
\* events of every watch come from goroutines of their own.
OneWriter ==
    /\ main.pc = "write" <=> mutex = "main"
    /\ ping = "write" <=> mutex = "ping"
    /\ (\E w \in Ids : watches[w].pc = "write") <=> mutex = "watch"
    /\ \A v, w \in Ids : watches[v].pc = "write" /\ watches[w].pc = "write" => v = w

\* A client that was told "subscribed" for a kind, and not "unsubscribed" since,
\* has a watch of that kind for one of the projects it was told, which nobody has
\* cancelled, and which still runs unless its stream failed by itself, whatever
\* subscriptions came and went before (addSubscription, removeSubscription).  The
\* other projects it was told have none.
SubscribedIsWatched ==
    \A kind \in Watched :
        (answered[kind] # {} /\ main.message.kind # kind /\ client = "open")
        => /\ cancellations[kind] # 0
           /\ LET watch == watches[cancellations[kind]]
              IN  /\ watch.project \in answered[kind]
                  /\ ~ watch.cancelled
                  /\ watch.pc # "ended"

\* A message that the select loop has taken is answered and the loop goes back
\* to its select: neither pings nor events keep it from the socket for ever,
\* also after the client has gone.
MessagesAnswered == main.pc # "select" ~> main.pc = "select"

\* A watch that the session does not keep the cancellation of ends: unsubscribing
\* and subscribing again leaves no second stream that relays each event again.
UnwantedWatchesEnd ==
    \A w \in WatchIds :
        (w \in Ids /\ w # cancellations[watches[w].kind])
        ~> (w \in Ids /\ watches[w].pc \in {"ended", "broken"})

\* An event that a watch has received is relayed also when the watch is cancelled
\* before it is written, and one that was sent to a watch is received first unless
\* the watch is cancelled or its stream fails: whoever else writes to the socket,
\* as long as the client is there and no write misses its deadline.
EventsRelayed ==
    \A w \in WatchIds, e \in 1 .. MaxEvents :
        /\ (w \in Ids /\ watches[w].event = e)
           ~> (<<w, e>> \in relayed \/ client # "open")
        /\ (w \in Ids /\ e \in {watches[w].queue[i] : i \in DOMAIN watches[w].queue})
           ~> \/ <<w, e>> \in relayed
              \/ client # "open"
              \/ w \in Ids /\ (watches[w].cancelled \/ watches[w].pc = "broken")
=============================================================================
