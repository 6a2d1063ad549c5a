----------------------------- MODULE WorkerPool -----------------------------
(***************************************************************************)
(* What a pre-forked server promises, with no processes, sockets or        *)
(* descriptors in sight.  A connection waits for the dispatcher, which     *)
(* either refuses it, and then only because no worker is free, or hands it *)
(* to one free worker.  A worker completes what it was handed, and becomes *)
(* free again only when it holds nothing.  When the dispatcher stops, the  *)
(* connections still waiting are dropped, those already handed over are    *)
(* not.  ProcessPool implements this specification when no fault occurs.   *)
(***************************************************************************)
CONSTANTS Conns,    \* the connections clients may open
          Workers   \* the pool

VARIABLES phase,    \* what became of each connection
          load,     \* the connections each worker has not completed yet
          free      \* the workers the dispatcher may hand a connection to

wvars == <<phase, load, free>>

WInit ==
    /\ phase = [c \in Conns |-> "new"]
    /\ load = [w \in Workers |-> {}]
    /\ free = Workers

Arrive(c) ==
    /\ phase[c] = "new"
    /\ phase' = [phase EXCEPT ![c] = "queued"]
    /\ UNCHANGED <<load, free>>

Assign(c, w) ==
    /\ phase[c] = "queued"
    /\ w \in free
    /\ phase' = [phase EXCEPT ![c] = "handed"]
    /\ load' = [load EXCEPT ![w] = @ \cup {c}]
    /\ free' = free \ {w}

TurnAway(c) ==
    /\ phase[c] = "queued"
    /\ free = {}
    /\ phase' = [phase EXCEPT ![c] = "refused"]
    /\ UNCHANGED <<load, free>>

Complete(c, w) ==
    /\ c \in load[w]
    /\ phase' = [phase EXCEPT ![c] = "served"]
    /\ load' = [load EXCEPT ![w] = @ \ {c}]
    /\ UNCHANGED free

Release(w) ==
    /\ w \notin free
    /\ load[w] = {}
    /\ free' = free \cup {w}
    /\ UNCHANGED <<phase, load>>

Stop ==
    /\ phase' = [c \in Conns |->
                    IF phase[c] = "queued" THEN "dropped" ELSE phase[c]]
    /\ UNCHANGED <<load, free>>

WNext ==
    \/ \E c \in Conns : Arrive(c) \/ TurnAway(c)
    \/ \E c \in Conns, w \in Workers : Assign(c, w) \/ Complete(c, w)
    \/ \E w \in Workers : Release(w)
    \/ Stop

WSpec == WInit /\ [][WNext]_wvars
=============================================================================
