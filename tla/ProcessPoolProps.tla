-------------------------- MODULE ProcessPoolProps --------------------------
(* What ProcessPool must satisfy, the specification it implements, and the  *)
(* invariant that explains why.                                            *)
EXTENDS ProcessPool

(* The messages and the work of child i that the parent has not yet taken  *)
(* back: a command in flight, a connection or a report in hand, a report   *)
(* in flight.                                                              *)
Outstanding(i) ==
    Len(cmdq[i]) + repq[i]
        + (IF cpc[i] \in {"serve", "echo", "report"} THEN 1 ELSE 0)

(* While the parent runs, a slot is marked busy exactly when its child has *)
(* something to do or to be read back, and never more than one thing: the  *)
(* table of lines 25-32, written in one process from events of another,    *)
(* does not drift, and no two reports can merge in one read (line 301).    *)
SlotsMatchChildren ==
    ppc # "exited" => \A i \in Children : state[i] = Outstanding(i)

(* childs_run_num, the gate of line 278, counts the busy slots.            *)
RunNumIsBusy == run_num = Cardinality(Busy)

(* A connection is never with two processes that would steal each other's  *)
(* bytes, nor still in the listen queue when it was handed over.           *)
AtMostOne ==
    \A c \in Conns : \A i \in Children :
        c \in held[i] \cup InCmd(i) =>
            /\ \A j \in Children \ {i} : c \notin held[j] \cup InCmd(j)
            /\ ~(c \in held[i] /\ c \in InCmd(i))
            /\ \A k \in DOMAIN backlog : backlog[k] # c

(* One that was handed over stays with its child, or for ever in the queue *)
(* of a slot whose fork failed; one that was served stays open (line 162)  *)
(* until some child dies; and none is dropped while the parent runs unless *)
(* a child died or has no descriptor left.                                 *)
NoneVanishes ==
    \A c \in Conns :
        /\ conn[c] = "handed" => \E i \in Children : c \in InCmd(i) \/ cur[i] = c
        /\ conn[c] = "served" => \E i \in Children : c \in held[i] \/ cpc[i] = "dead"
        /\ conn[c] = "dropped" =>
               \/ ppc = "exited"
               \/ \E i \in Children : cpc[i] = "dead" \/ Cardinality(held[i]) >= FdLimit

(* A connection that was handed over is in one place: in the queue of one  *)
(* child or in the hands of one child, whichever faults occur.             *)
OneHolder == AtMostOne /\ NoneVanishes

(* When deal_socket returns for a client that did not abort, everything    *)
(* the client sent before its FIN was written back once (lines 115-128).   *)
EchoedExactly ==
    \A c \in Conns :
        /\ echoed[c] <= sent[c]
        /\ conn[c] = "served" /\ cli[c] # "gone" => echoed[c] = sent[c]

(* The pool without its processes: what a child has to complete is what is *)
(* queued for it or in its hands, and a slot is free when its state is 0.  *)
PoolLoad == [i \in Children |-> InCmd(i) \cup ({cur[i]} \ {NoConn})]
PoolFree == {i \in Children : Idle(i)}

Pool == INSTANCE WorkerPool WITH
    Workers <- Children, phase <- conn, load <- PoolLoad, free <- PoolFree

(* The server implements WorkerPool: a connection is refused only when no  *)
(* slot is idle, goes to one idle worker otherwise, and once handed over   *)
(* is served even when the parent exits meanwhile.                         *)
ImplementsPool == Pool!WSpec

(* A connection the kernel completed is refused or served (lines 270-297). *)
ConnDecided ==
    \A c \in Conns : conn[c] = "queued" ~> conn[c] \in {"refused", "served"}

(* A slot marked busy becomes idle again (lines 164-167 and 298-308).      *)
SlotFreedAgain ==
    \A i \in Children : state[i] = 1 ~> state[i] = 0

(* When the parent exits, every child does (line 137), although each child *)
(* keeps the pipes of the earlier ones open until it exits itself.         *)
ChildrenExit == ppc = "exited" ~> \A i \in Children : ~Live(i)

(* Line 31, state 0 is idle: an idle slot's child, if it lives, is waiting *)
(* for a command and has none queued.                                      *)
IdleSlotIsIdle ==
    ppc = "run" =>
        \A i \in Children :
            Idle(i) /\ Live(i) => cpc[i] = "recv" /\ cmdq[i] = <<>>

-----------------------------------------------------------------------------
(* Why the safety properties hold: invariants that every step preserves.   *)

(* A child that is not forked is none, and a client that has not connected *)
(* has no connection.                                                      *)
StartInv ==
    /\ \A i \in Children : i >= nxt => cpc[i] = "none"
    /\ \A c \in Conns : cli[c] = "new" => conn[c] = "new"

(* The listen queue holds each waiting connection once.                    *)
BacklogInv ==
    \A k \in DOMAIN backlog :
        /\ conn[backlog[k]] = "queued"
        /\ \A j \in DOMAIN backlog : backlog[j] = backlog[k] => j = k

(* Which connections a child may have queued, in hand or left open, that   *)
(* its queue holds none twice and that no two children have the same one.  *)
HoldInv ==
    \A i \in Children :
        /\ IsFiniteSet(held[i])
        /\ cur[i] # NoConn <=> cpc[i] \in {"serve", "echo"}
        /\ cur[i] # NoConn => cur[i] \in held[i] /\ conn[cur[i]] = "handed"
        /\ \A c \in InCmd(i) : conn[c] = "handed" /\ c \notin held[i]
        /\ \A k, l \in DOMAIN cmdq[i] : cmdq[i][k] = cmdq[i][l] => k = l
        /\ \A c \in held[i] : conn[c] \in {"handed", "served"}
        /\ \A j \in Children \ {i} :
            \A c \in held[i] \cup InCmd(i) : c \notin held[j] \cup InCmd(j)

(* How far the conversation with a client has come.                        *)
EchoInv ==
    /\ \A i \in Children : cpc[i] = "echo" => echoed[cur[i]] < sent[cur[i]]
    /\ \A c \in Conns :
        /\ echoed[c] <= sent[c]
        /\ conn[c] = "served" =>
            \/ cli[c] \in {"fin", "closed"} /\ echoed[c] = sent[c]
            \/ cli[c] = "gone"

(* Whatever fails: nothing here speaks of the parent's table, which is     *)
(* wrong once a child has died (IdleSlotIsIdle).                           *)
FaultInv ==
    /\ TypeOK
    /\ StartInv
    /\ BacklogInv
    /\ HoldInv
    /\ NoneVanishes
    /\ EchoInv

(* No client aborts, no fork fails, and no child runs out of descriptors.  *)
Healthy ==
    /\ IsFiniteSet(Conns)
    /\ Cardinality(Conns) < FdLimit
    /\ MayAbort = {}
    /\ ForkMayFail = FALSE

(* Then children appear in order, and disappear only behind the parent;    *)
ForkOrder ==
    /\ ppc # "fork" => nxt = CHILDNUMBER
    /\ \A i \in Children :
        /\ cpc[i] = "none" <=> i >= nxt
        /\ cpc[i] = "none" => state[i] = 0
        /\ cpc[i] = "dead" => ppc = "exited"

(* the table is right about every child that has not exited, also after    *)
(* the parent has;                                                         *)
SlotInv == \A i \in Children : cpc[i] # "dead" => state[i] = Outstanding(i)

(* and no client vanishes, no connection is forgotten by the parent.       *)
ConnInv == \A c \in Conns : cli[c] # "gone" /\ conn[c] # "leaked"

PoolInv ==
    /\ FaultInv
    /\ ForkOrder
    /\ SlotInv
    /\ RunNumIsBusy
    /\ ConnInv
=============================================================================
