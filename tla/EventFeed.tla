----------------------------- MODULE EventFeed -----------------------------
(***************************************************************************)
(* What the Watch requests promise, without locks and channels: a client   *)
(* that has joined gets the changes it wants, each once; those of one      *)
(* publisher in their order, and with no gap since it has joined.          *)
(***************************************************************************)
EXTENDS Naturals, Sequences

CONSTANTS
    Publishers,
    Clients,
    Wants(_, _)     \* whether a client wants a change

VARIABLES
    log,        \* the changes with their publisher
    stage,      \* client -> "new", "joined" or "left"
    since,      \* client -> length of the log when it joined
    got         \* client -> positions of the log, in the order it got them

vars == <<log, stage, since, got>>

Init == /\ log = <<>>
        /\ stage = [c \in Clients |-> "new"]
        /\ since = [c \in Clients |-> 0]
        /\ got = [c \in Clients |-> <<>>]

Has(c, p) == \E i \in 1 .. Len(got[c]) : got[c][i] = p

\* A publisher adds changes to the log.
Publish(s) == /\ Len(log') > Len(log)
              /\ SubSeq(log', 1, Len(log)) = log
              /\ \A p \in Len(log) + 1 .. Len(log') : log'[p].by = s
              /\ UNCHANGED <<stage, since, got>>

Join(c) == /\ stage[c] = "new"
           /\ stage' = [stage EXCEPT ![c] = "joined"]
           /\ since' = [since EXCEPT ![c] = Len(log)]
           /\ UNCHANGED <<log, got>>

\* The client gets the change at position p: it has none of the publisher's
\* later ones, and all earlier ones that it wants and that came after it joined.
Deliver(c, p) ==
    /\ stage[c] = "joined"
    /\ Wants(c, log[p].change)
    /\ ~ Has(c, p)
    /\ \A q \in 1 .. Len(log) :
          log[q].by = log[p].by =>
              /\ q > p => ~ Has(c, q)
              /\ (since[c] < q /\ q < p /\ Wants(c, log[q].change)) => Has(c, q)
    /\ got' = [got EXCEPT ![c] = Append(@, p)]
    /\ UNCHANGED <<log, stage, since>>

Leave(c) == /\ stage[c] # "left"
            /\ stage' = [stage EXCEPT ![c] = "left"]
            /\ UNCHANGED <<log, since, got>>

Next == \/ \E s \in Publishers : Publish(s)
        \/ \E c \in Clients : \/ Join(c)
                             \/ Leave(c)
                             \/ \E p \in 1 .. Len(log) : Deliver(c, p)

Spec == Init /\ [][Next]_vars
=============================================================================
