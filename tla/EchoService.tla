---------------------------- MODULE EchoService ----------------------------
(***************************************************************************)
(* What an echo server promises its clients.  A connection is refused only *)
(* when as many as capacity are open, and nothing is echoed on it; what is *)
(* echoed is what was sent, once and in order; and the server closes a     *)
(* connection only when the client has ended it and, unless the client     *)
(* vanished, has been sent everything back.                                *)
(***************************************************************************)
EXTENDS Integers, FiniteSets

CONSTANT Conns

VARIABLES conn,     \* "new", "queued", "open", "closed" or "refused"
          side,     \* the client: "on", "ended" (will say no more), "vanished"
          sent, echoed,
          capacity  \* of the server, once and for all

svars == <<conn, side, sent, echoed, capacity>>

SInit ==
    /\ conn = [c \in Conns |-> "new"]
    /\ side = [c \in Conns |-> "on"]
    /\ sent = [c \in Conns |-> 0]
    /\ echoed = [c \in Conns |-> 0]
    /\ capacity \in Nat \ {0}

Become(c, from, to) ==
    /\ conn[c] = from
    /\ conn' = [conn EXCEPT ![c] = to]
    /\ UNCHANGED <<side, sent, echoed>>

Ask(c) == Become(c, "new", "queued")

Admit(c) == Become(c, "queued", "open")

TurnAway(c) ==
    /\ Cardinality({d \in Conns : conn[d] = "open"}) = capacity
    /\ Become(c, "queued", "refused")

HangUp(c) ==
    /\ side[c] # "on"
    /\ side[c] = "ended" => echoed[c] = sent[c]
    /\ Become(c, "open", "closed")

Say(c) ==
    /\ conn[c] # "new" /\ side[c] = "on"
    /\ sent' = [sent EXCEPT ![c] = @ + 1]
    /\ UNCHANGED <<conn, side, echoed>>

Echo(c) ==
    /\ conn[c] = "open"
    /\ \E n \in 1 .. sent[c] - echoed[c] : echoed' = [echoed EXCEPT ![c] = @ + n]
    /\ UNCHANGED <<conn, side, sent>>

Leave(c, how) ==
    /\ side' = [side EXCEPT ![c] = how]
    /\ UNCHANGED <<conn, sent, echoed>>

SNext ==
    /\ \E c \in Conns :
          \/ Ask(c) \/ Admit(c) \/ TurnAway(c) \/ HangUp(c)
          \/ Say(c) \/ Echo(c) \/ Leave(c, "ended") \/ Leave(c, "vanished")
    /\ UNCHANGED capacity

SSpec == SInit /\ [][SNext]_svars
=============================================================================
