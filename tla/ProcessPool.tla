---------------------------- MODULE ProcessPool ----------------------------
(***************************************************************************)
(* The pre-forked echo server of unp/src/app/u15.7_reflect_sv_process_pool *)
(* with the kernel and the clients around it.                              *)
(*                                                                         *)
(* The parent forks CHILDNUMBER children, each joined to it by a Unix      *)
(* stream socket pair, then accepts connections in an epoll loop and       *)
(* passes each descriptor to a child it believes idle.  A child serves one *)
(* connection to its end and writes its own number back; the parent then   *)
(* counts it idle again.  The parent's table (state, childs_run_num) is    *)
(* only a belief about the children: the properties say when it is right.  *)
(*                                                                         *)
(* Abstracted: the bytes echoed (a client sends at most MaxSend chunks),   *)
(* the pids, the log file and every printf.                                *)
(***************************************************************************)
EXTENDS Integers, Sequences, FiniteSets

CONSTANTS
    CHILDNUMBER,    \* children forked before the server listens
    Conns,          \* the connections clients may open
    NoConn,         \* not a connection
    MaxSend,        \* bound: chunks one client sends
    FdLimit,        \* connected descriptors one child may hold (RLIMIT_NOFILE)
    MayAbort,       \* the clients that may vanish in mid-conversation
    ForkMayFail,    \* whether fork() may return -1
    ParentMayFail,  \* whether socket/bind/listen/accept may fail
    MaxUnder        \* bound: how far below zero childs_run_num is followed

ASSUME PoolConstants ==
    /\ CHILDNUMBER \in Nat \ {0}
    /\ NoConn \notin Conns
    /\ MaxSend \in Nat
    /\ FdLimit \in Nat
    /\ MayAbort \subseteq Conns
    /\ ForkMayFail \in BOOLEAN
    /\ ParentMayFail \in BOOLEAN
    /\ MaxUnder \in Nat

Children == 0 .. CHILDNUMBER - 1
Listen   == CHILDNUMBER     \* the listening socket, as an epoll event source

VARIABLES
    \* the parent
    ppc,        \* "fork": pre-forking, "run": in the epoll loop, "exited"
    nxt,        \* i of the fork loop
    state,      \* childs[i].state: 0 idle, 1 busy
    run_num,    \* childs_run_num
    batch,      \* the ready events epoll_wait returned and not handled yet
    \* the children
    cpc,        \* where each child is: blocked in read_fd ("recv"), reading
                \* ("serve") or writing ("echo") in deal_socket, about to write
                \* its number ("report"), not forked ("none") or gone ("dead")
    cur,        \* the connection each child is serving
    held,       \* the connected descriptors each child holds open
    \* the socket pairs
    cmdq,       \* commands with a descriptor on the way to each child
    repq,       \* reports of each child the parent has not read
    \* the kernel's listen queue and the clients
    backlog,    \* connections completed by the kernel, not accepted
    conn,       \* what became of each connection on the server's side
    cli,        \* each client: "new", "open", "fin" (sent its FIN and waits for
                \* the server's), "closed" (saw it) or "gone" (aborted)
    sent,       \* chunks each client sent
    echoed      \* chunks of each client the server wrote back

parentVars == <<ppc, nxt, state, run_num, batch>>
childVars  == <<cpc, cur, held>>
clientVars == <<cli, sent, echoed>>
vars == <<parentVars, childVars, cmdq, repq, backlog, conn, clientVars>>

TypeOK ==
    /\ ppc \in {"fork", "run", "exited"}
    /\ nxt \in 0 .. CHILDNUMBER
    /\ state \in [Children -> 0 .. 1]
    /\ run_num \in Int
    /\ batch \subseteq 0 .. CHILDNUMBER
    /\ cpc \in [Children -> {"none", "recv", "serve", "echo", "report", "dead"}]
    /\ cur \in [Children -> Conns \cup {NoConn}]
    /\ held \in [Children -> SUBSET Conns]
    /\ cmdq \in [Children -> Seq(Conns)]
    /\ repq \in [Children -> Nat]
    /\ backlog \in Seq(Conns)
    /\ conn \in [Conns -> {"new", "queued", "handed", "served",
                           "refused", "leaked", "dropped"}]
    /\ cli \in [Conns -> {"new", "open", "fin", "closed", "gone"}]
    /\ sent \in [Conns -> 0 .. MaxSend]
    /\ echoed \in [Conns -> Nat]

Init ==
    /\ ppc = "fork"
    /\ nxt = 0
    /\ state = [i \in Children |-> 0]
    /\ run_num = 0
    /\ batch = {}
    /\ cpc = [i \in Children |-> "none"]
    /\ cur = [i \in Children |-> NoConn]
    /\ held = [i \in Children |-> {}]
    /\ cmdq = [i \in Children |-> <<>>]
    /\ repq = [i \in Children |-> 0]
    /\ backlog = <<>>
    /\ conn = [c \in Conns |-> "new"]
    /\ cli = [c \in Conns |-> "new"]
    /\ sent = [c \in Conns |-> 0]
    /\ echoed = [c \in Conns |-> 0]

-----------------------------------------------------------------------------
(* Helpers.                                                                *)

Live(i)   == cpc[i] \notin {"none", "dead"}
InCmd(i)  == {cmdq[i][k] : k \in DOMAIN cmdq[i]}
Idle(i)   == state[i] = 0
Busy      == {i \in Children : state[i] = 1}

(* The first slot the parent's scan finds idle.  is_use is 1 in every slot  *)
(* from the fork loop on, so the scan's other condition never decides.     *)
FirstIdle(i) == Idle(i) /\ \A j \in Children : j < i => ~Idle(j)

(* Mutant: the child forgets close(sockfd[0]), line 201.                   *)
ParentEndKept(i) ==
    \/ ppc # "exited"
    \/ \E k \in Children : k >= i /\ Live(k)

(* A child closes only its own copy of the parent's end, so every later    *)
(* child still holds the parent's ends of the earlier ones.                *)
ParentEndOpen(i) ==
    \/ ppc # "exited"
    \/ \E k \in Children : k > i /\ Live(k)

(* Some process, or a message in flight, still holds c's descriptor.       *)
FdOpen(c) ==
    \/ conn[c] \in {"new", "queued", "leaked"}
    \/ \E i \in Children : c \in held[i] \cup InCmd(i)

(* Mutant: the listening socket is never added to the epoll set, line 254. *)
ReadyChildrenOnly == {e \in Children : repq[e] > 0 \/ cpc[e] = "dead"}

(* What epoll_wait reports: level-triggered, so whatever is readable now.  *)
(* A peer that exited makes its socket readable (EPOLLIN | EPOLLHUP).      *)
Ready ==
    {e \in 0 .. CHILDNUMBER :
        \/ e = Listen /\ backlog # <<>>
        \/ e \in Children /\ (repq[e] > 0 \/ cpc[e] = "dead")}

-----------------------------------------------------------------------------
(* The parent.                                                             *)

ForkChild ==
    /\ ppc = "fork"
    /\ nxt < CHILDNUMBER
    /\ state' = [state EXCEPT ![nxt] = 0]
    /\ \/ cpc' = [cpc EXCEPT ![nxt] = "recv"]
       \/ ForkMayFail /\ UNCHANGED cpc      \* printf only: the slot stays
    /\ nxt' = nxt + 1
    /\ UNCHANGED <<ppc, run_num, batch, cur, held, cmdq, repq, backlog, conn,
                   clientVars>>

(* socket, setsockopt, bind, listen, epoll_create and the epoll_ctl calls. *)
StartListening ==
    /\ ppc = "fork"
    /\ nxt = CHILDNUMBER
    /\ ppc' = "run"
    /\ UNCHANGED <<nxt, state, run_num, batch, childVars, cmdq, repq, backlog,
                   conn, clientVars>>

(* The parent's process ends: its descriptors close, and the kernel resets *)
(* the connections nobody accepted.                                        *)
ParentGone ==
    /\ ppc' = "exited"
    /\ batch' = {}
    /\ backlog' = <<>>
    /\ conn' = [c \in Conns |-> IF conn[c] \in {"queued", "leaked"}
                                THEN "dropped" ELSE conn[c]]
    /\ UNCHANGED <<nxt, state, run_num, childVars, cmdq, repq, clientVars>>

StartupError ==
    /\ ParentMayFail
    /\ ppc = "fork"
    /\ nxt = CHILDNUMBER
    /\ ParentGone

EpollWait ==
    /\ ppc = "run"
    /\ batch = {}
    /\ Ready # {}
    /\ batch' = Ready
    /\ UNCHANGED <<ppc, nxt, state, run_num, childVars, cmdq, repq, backlog,
                   conn, clientVars>>

(* The listening socket's event; accept takes the oldest connection.       *)
Accepting(c) ==
    /\ ppc = "run"
    /\ Listen \in batch
    /\ backlog # <<>>
    /\ c = Head(backlog)

Taken == batch' = batch \ {Listen} /\ backlog' = Tail(backlog)

AcceptError(c) ==
    /\ ParentMayFail
    /\ Accepting(c)
    /\ ParentGone

(* Mutant: an off-by-one in the gate of line 278.                          *)
RefuseEarly(c) ==
    /\ Accepting(c)
    /\ run_num >= CHILDNUMBER - 1
    /\ Taken
    /\ conn' = [conn EXCEPT ![c] = "refused"]
    /\ UNCHANGED <<ppc, nxt, state, run_num, childVars, cmdq, repq, clientVars>>

Refuse(c) ==
    /\ Accepting(c)
    /\ run_num >= CHILDNUMBER
    /\ Taken
    /\ conn' = [conn EXCEPT ![c] = "refused"]
    /\ UNCHANGED <<ppc, nxt, state, run_num, childVars, cmdq, repq, clientVars>>

(* Mutant: no break at line 295, every idle child gets the descriptor.     *)
DispatchToAll(c, i) ==
    /\ Accepting(c)
    /\ run_num < CHILDNUMBER
    /\ FirstIdle(i)
    /\ Taken
    /\ cmdq' = [j \in Children |->
                   IF Idle(j) THEN Append(cmdq[j], c) ELSE cmdq[j]]
    /\ state' = [j \in Children |-> 1]
    /\ run_num' = CHILDNUMBER
    /\ conn' = [conn EXCEPT ![c] = "handed"]
    /\ UNCHANGED <<ppc, nxt, childVars, repq, clientVars>>

(* Mutant: childs[i].state = 1 is missing, line 293.                       *)
DispatchUnmarked(c, i) ==
    /\ Accepting(c)
    /\ run_num < CHILDNUMBER
    /\ FirstIdle(i)
    /\ cpc[i] # "dead"
    /\ Taken
    /\ cmdq' = [cmdq EXCEPT ![i] = Append(@, c)]
    /\ run_num' = run_num + 1
    /\ conn' = [conn EXCEPT ![c] = "handed"]
    /\ UNCHANGED <<ppc, nxt, state, childVars, repq, clientVars>>

(* write_fd, close(confd), state = 1, childs_run_num++.  A slot whose fork *)
(* failed takes the message too: the parent never closed its sockfd[1].    *)
Dispatch(c, i) ==
    /\ Accepting(c)
    /\ run_num < CHILDNUMBER
    /\ FirstIdle(i)
    /\ cpc[i] # "dead"
    /\ Taken
    /\ cmdq' = [cmdq EXCEPT ![i] = Append(@, c)]
    /\ state' = [state EXCEPT ![i] = 1]
    /\ run_num' = run_num + 1
    /\ conn' = [conn EXCEPT ![c] = "handed"]
    /\ UNCHANGED <<ppc, nxt, childVars, repq, clientVars>>

(* sendmsg to a socket whose peer is closed raises SIGPIPE, which nothing  *)
(* ignores.                                                                *)
DispatchToDead(c, i) ==
    /\ Accepting(c)
    /\ run_num < CHILDNUMBER
    /\ FirstIdle(i)
    /\ cpc[i] = "dead"
    /\ ParentGone

(* The scan finds no slot although childs_run_num said one was idle: the   *)
(* loop ends with confd neither sent nor closed.                           *)
NoneFound(c) ==
    /\ Accepting(c)
    /\ run_num < CHILDNUMBER
    /\ \A i \in Children : ~Idle(i)
    /\ Taken
    /\ conn' = [conn EXCEPT ![c] = "leaked"]
    /\ UNCHANGED <<ppc, nxt, state, run_num, childVars, cmdq, repq, clientVars>>

SlotFreed(i, num) ==
    /\ ppc = "run"
    /\ i \in batch
    /\ batch' = batch \ {i}
    /\ state' = [state EXCEPT ![num] = 0]
    /\ run_num' = run_num - 1
    /\ UNCHANGED <<ppc, nxt, childVars, cmdq, backlog, conn, clientVars>>

(* One read takes every report buffered in the stream, and atol sees the   *)
(* first: the numbers of a child are all its own.                          *)
ReadReport(i) ==
    /\ repq[i] > 0
    /\ SlotFreed(i, i)
    /\ repq' = [repq EXCEPT ![i] = 0]

(* The child is gone: read returns 0 and leaves buf as it was, which is    *)
(* uninitialised or an older message.  Any child number may come out.      *)
ReadEof(i) ==
    /\ repq[i] = 0
    /\ cpc[i] = "dead"
    /\ run_num > -MaxUnder
    /\ \E num \in Children : SlotFreed(i, num)
    /\ UNCHANGED repq

ParentStep ==
    \/ ForkChild \/ StartListening \/ StartupError \/ EpollWait
    \/ \E c \in Conns : AcceptError(c) \/ Refuse(c) \/ NoneFound(c)
    \/ \E c \in Conns, i \in Children : Dispatch(c, i) \/ DispatchToDead(c, i)
    \/ \E i \in Children : ReadReport(i) \/ ReadEof(i)

-----------------------------------------------------------------------------
(* A child.                                                                *)

(* read_fd returns command '1' with a descriptor.                          *)
ReadFd(i) ==
    /\ cpc[i] = "recv"
    /\ cmdq[i] # <<>>
    /\ Cardinality(held[i]) < FdLimit
    /\ cmdq' = [cmdq EXCEPT ![i] = Tail(@)]
    /\ cpc' = [cpc EXCEPT ![i] = "serve"]
    /\ cur' = [cur EXCEPT ![i] = Head(cmdq[i])]
    /\ held' = [held EXCEPT ![i] = @ \cup {Head(cmdq[i])}]
    /\ UNCHANGED <<parentVars, repq, backlog, conn, clientVars>>

(* The descriptor table is full: the kernel delivers the byte and discards *)
(* the descriptor, recvfd is -1 and the loop continues.                    *)
ReadFdTruncated(i) ==
    /\ cpc[i] = "recv"
    /\ cmdq[i] # <<>>
    /\ Cardinality(held[i]) >= FdLimit
    /\ cmdq' = [cmdq EXCEPT ![i] = Tail(@)]
    /\ conn' = [conn EXCEPT ![Head(cmdq[i])] = "dropped"]
    /\ UNCHANGED <<parentVars, childVars, repq, backlog, clientVars>>

ServeRead(i) ==
    /\ cpc[i] = "serve"
    /\ echoed[cur[i]] < sent[cur[i]]
    /\ cpc' = [cpc EXCEPT ![i] = "echo"]
    /\ UNCHANGED <<parentVars, cur, held, cmdq, repq, backlog, conn, clientVars>>

ServeEcho(i) ==
    /\ cpc[i] = "echo"
    /\ cpc' = [cpc EXCEPT ![i] = "serve"]
    /\ echoed' = [echoed EXCEPT ![cur[i]] = @ + 1]
    /\ UNCHANGED <<parentVars, cur, held, cmdq, repq, backlog, conn, cli, sent>>

(* Mutant: deal_socket reads at most once, an if for the while of line 120. *)
ServeEndEarly(i) ==
    /\ cpc[i] = "serve"
    /\ \/ cli[cur[i]] = "fin" /\ echoed[cur[i]] <= sent[cur[i]]
       \/ cli[cur[i]] = "gone"
    /\ cpc' = [cpc EXCEPT ![i] = "report"]
    /\ conn' = [conn EXCEPT ![cur[i]] = "served"]
    /\ cur' = [cur EXCEPT ![i] = NoConn]
    /\ UNCHANGED <<parentVars, held, cmdq, repq, backlog, clientVars>>

(* read returns 0 at the client's FIN, once everything before it was read, *)
(* or -1 when the client reset the connection.  The descriptor stays open. *)
ServeEnd(i) ==
    /\ cpc[i] = "serve"
    /\ \/ cli[cur[i]] = "fin" /\ echoed[cur[i]] = sent[cur[i]]
       \/ cli[cur[i]] = "gone"
    /\ cpc' = [cpc EXCEPT ![i] = "report"]
    /\ conn' = [conn EXCEPT ![cur[i]] = "served"]
    /\ cur' = [cur EXCEPT ![i] = NoConn]
    /\ UNCHANGED <<parentVars, held, cmdq, repq, backlog, clientVars>>

(* Mutant: the child forgets to write its number back, line 167.           *)
NoReport(i) ==
    /\ cpc[i] = "report"
    /\ ParentEndOpen(i)
    /\ cpc' = [cpc EXCEPT ![i] = "recv"]
    /\ UNCHANGED <<parentVars, cur, held, cmdq, repq, backlog, conn, clientVars>>

Report(i) ==
    /\ cpc[i] = "report"
    /\ ParentEndOpen(i)
    /\ cpc' = [cpc EXCEPT ![i] = "recv"]
    /\ repq' = [repq EXCEPT ![i] = @ + 1]
    /\ UNCHANGED <<parentVars, cur, held, cmdq, backlog, conn, clientVars>>

(* The child's process ends: its descriptors close, and so do those still  *)
(* queued for it.                                                          *)
ChildGone(i) ==
    /\ cpc' = [cpc EXCEPT ![i] = "dead"]
    /\ held' = [held EXCEPT ![i] = {}]
    /\ cur' = [cur EXCEPT ![i] = NoConn]
    /\ cmdq' = [cmdq EXCEPT ![i] = <<>>]
    /\ conn' = [c \in Conns |-> IF c = cur[i] \/ c \in InCmd(i)
                                THEN "dropped" ELSE conn[c]]
    /\ UNCHANGED <<parentVars, repq, backlog, clientVars>>

(* read_fd returns 0: no process holds the other end any more.             *)
ChildEof(i) ==
    /\ cpc[i] = "recv"
    /\ cmdq[i] = <<>>
    /\ ~ParentEndOpen(i)
    /\ ChildGone(i)

(* SIGPIPE, which the children do not ignore either: on a write to a       *)
(* client that closed with data still to come back, or to the parent.      *)
SigPipe(i) ==
    /\ \/ cpc[i] = "echo" /\ cli[cur[i]] = "gone"
       \/ cpc[i] = "report" /\ ~ParentEndOpen(i)
    /\ ChildGone(i)

ChildStep(i) ==
    \/ ReadFd(i) \/ ReadFdTruncated(i) \/ ServeRead(i) \/ ServeEcho(i)
    \/ ServeEnd(i) \/ Report(i) \/ ChildEof(i) \/ SigPipe(i)

-----------------------------------------------------------------------------
(* A client: connects, sends, shuts its side down, waits for the FIN.      *)

Connect(c) ==
    /\ ppc = "run"
    /\ cli[c] = "new"
    /\ cli' = [cli EXCEPT ![c] = "open"]
    /\ conn' = [conn EXCEPT ![c] = "queued"]
    /\ backlog' = Append(backlog, c)
    /\ UNCHANGED <<parentVars, childVars, cmdq, repq, sent, echoed>>

Send(c) ==
    /\ cli[c] = "open"
    /\ sent[c] < MaxSend
    /\ sent' = [sent EXCEPT ![c] = @ + 1]
    /\ UNCHANGED <<parentVars, childVars, cmdq, repq, backlog, conn, cli, echoed>>

Shutdown(c) ==
    /\ cli[c] = "open"
    /\ cli' = [cli EXCEPT ![c] = "fin"]
    /\ UNCHANGED <<parentVars, childVars, cmdq, repq, backlog, conn, sent, echoed>>

SeeFin(c) ==
    /\ cli[c] \in {"open", "fin"}
    /\ ~FdOpen(c)
    /\ cli' = [cli EXCEPT ![c] = "closed"]
    /\ UNCHANGED <<parentVars, childVars, cmdq, repq, backlog, conn, sent, echoed>>

Abort(c) ==
    /\ c \in MayAbort
    /\ cli[c] \in {"open", "fin"}
    /\ cli' = [cli EXCEPT ![c] = "gone"]
    /\ UNCHANGED <<parentVars, childVars, cmdq, repq, backlog, conn, sent, echoed>>

ClientStep(c) ==
    Connect(c) \/ Send(c) \/ Shutdown(c) \/ SeeFin(c) \/ Abort(c)

-----------------------------------------------------------------------------
Next ==
    \/ ParentStep
    \/ \E i \in Children : ChildStep(i)
    \/ \E c \in Conns : ClientStep(c)

(* The kernel runs every process that can run; a client that keeps its     *)
(* side open is not forced to send, but ends its input some day (its       *)
(* standard input is finite) and reads what the server's close tells it.   *)
Fairness ==
    /\ WF_vars(ParentStep)
    /\ \A i \in Children : WF_vars(ChildStep(i))
    /\ \A c \in Conns : WF_vars(Shutdown(c)) /\ WF_vars(SeeFin(c))

Spec     == Init /\ [][Next]_vars
FairSpec == Spec /\ Fairness
=============================================================================
