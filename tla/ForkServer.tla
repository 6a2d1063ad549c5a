----------------------------- MODULE ForkServer -----------------------------
(***************************************************************************)
(* The echo server of unp/src/app/u5.4_reflect_sv_fork: the parent accepts *)
(* and forks a child per connection; its SIGCHLD handler collects the      *)
(* children that have exited.                                              *)
(*                                                                         *)
(* A child is named by the connection it serves.  A connection is closed   *)
(* when no process has its descriptor any more: a child inherits every     *)
(* descriptor the parent holds at the fork.  SIGCHLD does not queue: two   *)
(* children that exit before the handler runs raise it once.               *)
(***************************************************************************)
EXTENDS EchoSockets_proofs     \* EchoSockets, and lemmas for the proofs

CONSTANTS
    Parent,         \* not a connection
    FdLimit,        \* connected descriptors the parent may have
    ForkMayFail     \* whether fork may fail

ForkConstants ==
    /\ Parent \notin Conns
    /\ FdLimit \in Nat
    /\ ForkMayFail \in BOOLEAN

VARIABLES
    ppc,        \* the parent: "accept", "fork", "close" or "exited"
    confd,      \* the connection it has just accepted
    holders,    \* the processes that have each connection's descriptor
    kid,        \* each child: "none", "read", "write", "exit", "zombie", "gone"
    n,          \* chunks a child has read and not written yet
    sigchld,    \* SIGCHLD is pending
    handler     \* the parent is in clean_child

forkVars == <<ppc, confd, holders, kid, n, sigchld, handler>>
vars == <<sockVars, forkVars>>

TypeOK ==
    /\ SockTypeOK
    /\ ppc \in {"accept", "fork", "close", "exited"}
    /\ confd \in Conns \cup {NoConn}
    /\ holders \in [Conns -> SUBSET (Conns \cup {Parent})]
    /\ kid \in [Conns -> {"none", "read", "write", "exit", "zombie", "gone"}]
    /\ n \in [Conns -> 0 .. MaxSend]
    /\ sigchld \in BOOLEAN
    /\ handler \in BOOLEAN

Init ==
    /\ SockInit
    /\ ppc = "accept" /\ confd = NoConn
    /\ holders = [c \in Conns |-> {}]
    /\ kid = [c \in Conns |-> "none"]
    /\ n = [c \in Conns |-> 0]
    /\ sigchld = FALSE
    /\ handler = FALSE

-----------------------------------------------------------------------------
(* The parent, when it is not in the handler.                              *)

At(where) == ppc = where /\ ~handler

HeldBy(p) == {c \in Conns : p \in holders[c]}

(* Process p closes the descriptors of S; the last close ends a connection.*)
Drop(p, S) ==
    /\ holders' = [c \in Conns |-> IF c \in S THEN holders[c] \ {p} ELSE holders[c]]
    /\ conn' = [c \in Conns |-> IF c \in S /\ holders[c] = {p} THEN "closed" ELSE conn[c]]
    /\ UNCHANGED <<cli, streamVars>>

(* accept; when a signal interrupts it, it is called again.                *)
Accept ==
    /\ At("accept") /\ backlog # <<>>
    /\ Cardinality(HeldBy(Parent)) < FdLimit
    /\ confd' = Head(backlog)
    /\ holders' = [holders EXCEPT ![confd'] = {Parent}]
    /\ Take("open")
    /\ ppc' = "fork"
    /\ UNCHANGED <<kid, n, sigchld, handler>>

(* The parent returns from main; its children go on.                       *)
AcceptError ==
    /\ At("accept") /\ backlog # <<>>
    /\ Cardinality(HeldBy(Parent)) >= FdLimit
    /\ ppc' = "exited"
    /\ holders' = [c \in Conns |-> holders[c] \ {Parent}]
    /\ conn' = [c \in Conns |-> IF conn[c] = "queued" \/ holders[c] = {Parent}
                                THEN "closed" ELSE conn[c]]
    /\ backlog' = <<>>
    /\ kid' = [c \in Conns |-> IF kid[c] = "zombie" THEN "gone" ELSE kid[c]]
    /\ UNCHANGED <<cli, streamVars, confd, n, sigchld, handler>>

Fork ==
    /\ At("fork")
    /\ kid' = [kid EXCEPT ![confd] = "read"]
    /\ holders' = [c \in Conns |-> IF Parent \in holders[c] THEN holders[c] \cup {confd}
                                   ELSE holders[c]]
    /\ ppc' = "close"
    /\ UNCHANGED <<sockVars, confd, n, sigchld, handler>>

(* "fork error": the parent keeps the descriptor.                          *)
ForkFails ==
    /\ At("fork") /\ ForkMayFail
    /\ ppc' = "accept" /\ confd' = NoConn
    /\ UNCHANGED <<sockVars, holders, kid, n, sigchld, handler>>

(* Mutant: the parent keeps its copy.                                      *)
ParentKeeps ==
    /\ At("close")
    /\ ppc' = "accept" /\ confd' = NoConn
    /\ UNCHANGED <<sockVars, holders, kid, n, sigchld, handler>>

ParentCloses ==
    /\ At("close")
    /\ Drop(Parent, {confd})
    /\ ppc' = "accept" /\ confd' = NoConn
    /\ UNCHANGED <<backlog, kid, n, sigchld, handler>>

-----------------------------------------------------------------------------
(* clean_child; SIGCHLD is blocked while it runs.                          *)

Signal ==
    /\ ppc # "exited" /\ sigchld /\ ~handler
    /\ sigchld' = FALSE
    /\ handler' = TRUE
    /\ UNCHANGED <<sockVars, ppc, confd, holders, kid, n>>

Zombies == {c \in Conns : kid[c] = "zombie"}

Reap ==
    /\ handler
    /\ \E c \in Zombies : kid' = [kid EXCEPT ![c] = "gone"]
    /\ UNCHANGED <<sockVars, ppc, confd, holders, n, sigchld, handler>>

(* Mutant: if instead of while.                                            *)
HandlerOnce ==
    /\ handler
    /\ handler' = FALSE
    /\ UNCHANGED <<sockVars, ppc, confd, holders, kid, n, sigchld>>

HandlerEnds ==
    /\ handler
    /\ Zombies = {}
    /\ handler' = FALSE
    /\ UNCHANGED <<sockVars, ppc, confd, holders, kid, n, sigchld>>

-----------------------------------------------------------------------------
(* The child that serves c.                                                *)

ReadSome(c) ==
    /\ kid[c] = "read"
    /\ \E k \in 1 .. MaxSend : Read(c, k) /\ n' = [n EXCEPT ![c] = k]
    /\ kid' = [kid EXCEPT ![c] = "write"]
    /\ UNCHANGED <<ppc, confd, holders, sigchld, handler>>

WriteBack(c) ==
    /\ kid[c] = "write"
    /\ Write(c, n[c])
    /\ n' = [n EXCEPT ![c] = 0]
    /\ kid' = [kid EXCEPT ![c] = "read"]
    /\ UNCHANGED <<ppc, confd, holders, sigchld, handler>>

ReadEnd(c) ==
    /\ kid[c] = "read"
    /\ AtEnd(c)
    /\ kid' = [kid EXCEPT ![c] = "exit"]
    /\ UNCHANGED <<sockVars, ppc, confd, holders, n, sigchld, handler>>

(* close and return from main, or SIGPIPE while writing.                   *)
ChildExits(c) ==
    /\ \/ kid[c] = "exit"
       \/ kid[c] = "write" /\ Breaks(c)
    /\ Drop(c, HeldBy(c))
    /\ kid' = [kid EXCEPT ![c] = IF ppc = "exited" THEN "gone" ELSE "zombie"]
    /\ sigchld' = (ppc # "exited")
    /\ n' = [n EXCEPT ![c] = 0]
    /\ UNCHANGED <<backlog, ppc, confd, handler>>

-----------------------------------------------------------------------------
ParentStep ==
    Accept \/ AcceptError \/ Fork \/ ForkFails \/ ParentCloses
           \/ Signal \/ Reap \/ HandlerEnds

ChildStep(c) == ReadSome(c) \/ WriteBack(c) \/ ReadEnd(c) \/ ChildExits(c)

Next ==
    \/ ParentStep
    \/ \E c \in Conns :
          \/ ChildStep(c)
          \/ ClientStep(c, ppc # "exited") /\ UNCHANGED forkVars

Spec == Init /\ [][Next]_vars

(* The kernel runs every process and delivers a pending signal.            *)
FairSpec ==
    /\ Spec
    /\ WF_vars(ParentStep) /\ WF_vars(Signal)
    /\ \A c \in Conns : WF_vars(ChildStep(c))
-----------------------------------------------------------------------------
(* What it must satisfy.                                                   *)

Lives(c) == kid[c] \in {"read", "write", "exit"}

(* An open connection is somebody's: its child's while it lives, the       *)
(* parent's until it has closed its copy, and of nobody who has exited; a  *)
(* copy too many would keep the client waiting for the FIN.                *)
HoldersAreRight ==
    \A c \in Conns :
        /\ conn[c] = "open" <=> holders[c] # {}
        /\ Lives(c) => c \in holders[c]
        /\ \A p \in holders[c] \ {Parent} : Lives(p)
        /\ ~ForkMayFail =>
              holders[c] = (IF Lives(c) THEN {c} ELSE {})
                             \cup (IF confd = c THEN {Parent} ELSE {})

(* Every exited child is seen by the handler that runs, or by one that is  *)
(* still to run: SIGCHLDs that merge lose no child.                        *)
NoZombieForgotten ==
    Zombies # {} => /\ ppc # "exited"
                    /\ sigchld \/ handler

(* What was read is what was written, but for what the child is writing or *)
(* had no client to write to any more.                                     *)
NothingLost ==
    \A c \in Conns :
        \/ got[c] - echoed[c] = n[c]
        \/ cli[c] = "gone" /\ ~Lives(c)

-----------------------------------------------------------------------------
(* The inductive invariant, with TypeOK and the three properties above.    *)

(* The parent has the connection it accepted, and its child comes next.    *)
ParentInv ==
    /\ ppc \in {"fork", "close"} => confd \in Conns /\ Parent \in holders[confd]
    /\ ppc \in {"accept", "exited"} => confd = NoConn
    /\ ppc = "fork" => kid[confd] = "none"
    /\ ppc = "close" => kid[confd] # "none"

(* A connection that waits has no child yet, and none is refused.          *)
WaitInv ==
    \A c \in Conns : /\ conn[c] # "refused"
                    /\ conn[c] \in {"new", "queued"} => kid[c] = "none"

(* How far each conversation is.                                           *)
TalkInv ==
    \A c \in Conns :
        /\ kid[c] = "none" => got[c] = echoed[c]
        /\ n[c] > 0 <=> kid[c] = "write"
        /\ kid[c] \in {"exit", "zombie", "gone"} =>
              \/ cli[c] = "gone"
              \/ cli[c] \in {"fin", "closed"} /\ echoed[c] = sent[c]

ForkInv ==
    /\ TypeOK /\ SockInv /\ ParentInv /\ WaitInv /\ TalkInv
    /\ HoldersAreRight /\ NoZombieForgotten /\ NothingLost

=============================================================================
