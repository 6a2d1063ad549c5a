---------------------------- MODULE ThreadServer ----------------------------
(***************************************************************************)
(* The echo server of unp/src/app/u26.4_reflect_sv_thread: main accepts    *)
(* and starts a detached thread per connection, to which it passes the     *)
(* descriptor in a cell of the heap; the thread frees the cell.            *)
(*                                                                         *)
(* Descriptors and cells are numbers, given out lowest first and used      *)
(* again.                                                                  *)
(***************************************************************************)
EXTENDS EchoSockets_proofs     \* EchoSockets, and lemmas for the proofs

CONSTANTS
    Threads,        \* bound: the threads that may be started
    FdLimit,        \* connected descriptors the process may have
    CreateMayFail   \* whether pthread_create may fail

ThreadConstants ==
    /\ Threads \in Nat
    /\ FdLimit \in Nat
    /\ CreateMayFail \in BOOLEAN

Fds   == 1 .. FdLimit
Cells == 1 .. Threads + 1
Ids   == 1 .. Threads
None  == 0

VARIABLES
    mpc,        \* main: "malloc", "accept", "create" or "exited"
    confd,      \* main's cell
    heap,       \* the cells allocated
    cell,       \* their contents
    file,       \* the connection behind each descriptor
    tpc,        \* each thread: "none", "start", "read", "write", "close", "done"
    ptr,        \* its argument, a cell
    recvfd,     \* its descriptor
    n           \* chunks read and not written yet

mainVars == <<mpc, confd, heap, cell>>
threadVars == <<tpc, ptr, recvfd, n>>
vars == <<sockVars, mainVars, file, threadVars>>

TypeOK ==
    /\ SockTypeOK
    /\ mpc \in {"malloc", "accept", "create", "exited"}
    /\ confd \in Cells \cup {None}
    /\ heap \subseteq Cells
    /\ cell \in [Cells -> Fds \cup {None}]
    /\ file \in [Fds -> Conns \cup {NoConn}]
    /\ tpc \in [Ids -> {"none", "start", "read", "write", "close", "done"}]
    /\ ptr \in [Ids -> Cells \cup {None}]
    /\ recvfd \in [Ids -> Fds \cup {None}]
    /\ n \in [Ids -> 0 .. MaxSend]

Init ==
    /\ SockInit
    /\ mpc = "malloc" /\ confd = None
    /\ heap = {}
    /\ cell = [p \in Cells |-> None]
    /\ file = [fd \in Fds |-> NoConn]
    /\ tpc = [t \in Ids |-> "none"]
    /\ ptr = [t \in Ids |-> None]
    /\ recvfd = [t \in Ids |-> None]
    /\ n = [t \in Ids |-> 0]

Lowest(k, S) == k \in S /\ \A j \in S : k <= j

FreeFds == {fd \in Fds : file[fd] = NoConn}

-----------------------------------------------------------------------------
(* main.                                                                   *)

Malloc ==
    /\ mpc = "malloc"
    /\ \E p \in Cells : Lowest(p, Cells \ heap) /\ confd' = p
    /\ heap' = heap \cup {confd'}
    /\ mpc' = "accept"
    /\ UNCHANGED <<sockVars, cell, file, threadVars>>

Accept ==
    /\ mpc = "accept" /\ backlog # <<>>
    /\ \E fd \in Fds :
          /\ Lowest(fd, FreeFds)
          /\ file' = [file EXCEPT ![fd] = Head(backlog)]
          /\ cell' = [cell EXCEPT ![confd] = fd]
    /\ Take("open")
    /\ mpc' = "create"
    /\ UNCHANGED <<confd, heap, threadVars>>

(* EINTR.                                                                  *)
Interrupted ==
    /\ mpc = "accept"
    /\ heap' = heap \ {confd}
    /\ confd' = None
    /\ mpc' = "malloc"
    /\ UNCHANGED <<sockVars, cell, file, threadVars>>

(* main returns, and every thread with it.                                 *)
AcceptError ==
    /\ mpc = "accept" /\ backlog # <<>> /\ FreeFds = {}
    /\ mpc' = "exited"
    /\ ProcessEnds
    /\ UNCHANGED <<confd, heap, cell, file, threadVars>>

CreateThread ==
    /\ mpc = "create"
    /\ \E t \in Ids :
          /\ Lowest(t, {u \in Ids : tpc[u] = "none"})
          /\ tpc' = [tpc EXCEPT ![t] = "start"]
          /\ ptr' = [ptr EXCEPT ![t] = confd]
    /\ confd' = None
    /\ mpc' = "malloc"
    /\ UNCHANGED <<sockVars, heap, cell, file, recvfd, n>>

(* The result is ignored: the cell and the descriptor are lost.            *)
CreateFails ==
    /\ mpc = "create" /\ CreateMayFail
    /\ confd' = None
    /\ mpc' = "malloc"
    /\ UNCHANGED <<sockVars, heap, cell, file, threadVars>>

-----------------------------------------------------------------------------
(* A thread.                                                               *)

At(t, where) == mpc # "exited" /\ tpc[t] = where

Goes(t, where) == tpc' = [tpc EXCEPT ![t] = where]

Start(t) ==
    /\ At(t, "start") /\ Goes(t, "read")
    /\ recvfd' = [recvfd EXCEPT ![t] = cell[ptr[t]]]
    /\ heap' = heap \ {ptr[t]}
    /\ ptr' = [ptr EXCEPT ![t] = None]
    /\ UNCHANGED <<sockVars, mpc, confd, cell, file, n>>

Mine(t) == file[recvfd[t]]

ReadSome(t) ==
    /\ At(t, "read") /\ Goes(t, "write")
    /\ \E k \in 1 .. MaxSend : Read(Mine(t), k) /\ n' = [n EXCEPT ![t] = k]
    /\ UNCHANGED <<mainVars, file, ptr, recvfd>>

(* Mutant: a failed write is not repeated.                                 *)
WriteNothing(t) ==
    /\ At(t, "write") /\ Goes(t, "read")
    /\ n' = [n EXCEPT ![t] = 0]
    /\ UNCHANGED <<sockVars, mainVars, file, ptr, recvfd>>

WriteBack(t) ==
    /\ At(t, "write") /\ Goes(t, "read")
    /\ Write(Mine(t), n[t])
    /\ n' = [n EXCEPT ![t] = 0]
    /\ UNCHANGED <<mainVars, file, ptr, recvfd>>

(* SIGPIPE has its default action, for the whole process.                  *)
BrokenPipe(t) ==
    /\ At(t, "write") /\ Breaks(Mine(t))
    /\ mpc' = "exited"
    /\ ProcessEnds
    /\ UNCHANGED <<confd, heap, cell, file, threadVars>>

(* Mutant: closes the descriptor, which is closed again later.             *)
ReadEndCloses(t) ==
    /\ At(t, "read") /\ Goes(t, "close")
    /\ AtEnd(Mine(t))
    /\ Close(Mine(t))
    /\ file' = [file EXCEPT ![recvfd[t]] = NoConn]
    /\ UNCHANGED <<mainVars, ptr, recvfd, n>>

(* Mutant: nobody closes the descriptor.                                   *)
ReadEndDone(t) ==
    /\ At(t, "read") /\ Goes(t, "done")
    /\ AtEnd(Mine(t))
    /\ UNCHANGED <<sockVars, mainVars, file, ptr, recvfd, n>>

ReadEnd(t) ==
    /\ At(t, "read") /\ Goes(t, "close")
    /\ AtEnd(Mine(t))
    /\ UNCHANGED <<sockVars, mainVars, file, ptr, recvfd, n>>

CloseFd(t) ==
    /\ At(t, "close") /\ Goes(t, "done")
    /\ Close(Mine(t))
    /\ file' = [file EXCEPT ![recvfd[t]] = NoConn]
    /\ recvfd' = [recvfd EXCEPT ![t] = None]
    /\ UNCHANGED <<mainVars, ptr, n>>

-----------------------------------------------------------------------------
MainStep == Malloc \/ Accept \/ AcceptError \/ CreateThread \/ CreateFails

ThreadStep(t) ==
    Start(t) \/ ReadSome(t) \/ WriteBack(t) \/ BrokenPipe(t) \/ ReadEnd(t) \/ CloseFd(t)

Next ==
    \/ MainStep \/ Interrupted
    \/ \E t \in Ids : ThreadStep(t)
    \/ \E c \in Conns :
          /\ ClientStep(c, mpc # "exited")
          /\ UNCHANGED <<mainVars, file, threadVars>>

Spec == Init /\ [][Next]_vars

(* The kernel runs every thread; an accept is not interrupted for ever.    *)
FairSpec ==
    /\ Spec
    /\ SF_vars(Accept) /\ WF_vars(MainStep)
    /\ \A t \in Ids : WF_vars(ThreadStep(t))

-----------------------------------------------------------------------------
(* What it must satisfy.                                                   *)

Serving(t) == tpc[t] \in {"read", "write", "close"}

(* A thread that serves has an open descriptor and no other thread has it, *)
(* although numbers are used again as soon as they are closed.             *)
OneThread ==
    mpc # "exited" =>
        /\ \A t \in Ids : Serving(t) => recvfd[t] \in Fds \ FreeFds
        /\ \A t, u \in Ids :
              Serving(t) /\ Serving(u) /\ recvfd[t] = recvfd[u] => t = u

(* What was read is what was written, but for what its thread is writing.  *)
NothingLost ==
    mpc # "exited" =>
        \A c \in Conns :
            \/ got[c] = echoed[c]
            \/ \E t \in Ids : /\ tpc[t] = "write" /\ Mine(t) = c
                              /\ got[c] - echoed[c] = n[t]

-----------------------------------------------------------------------------
(* The inductive invariant.                                                *)

(* From its start to its close a thread has a descriptor, at first in the  *)
(* cell it was given.                                                      *)
Holding(t) == tpc[t] \in {"start", "read", "write", "close"}

FdOf(t) == IF tpc[t] = "start" THEN cell[ptr[t]] ELSE recvfd[t]

(* A cell belongs to main or to one thread that has not read it.           *)
CellInv ==
    /\ mpc = "malloc" => confd = None
    /\ mpc \in {"accept", "create"} => confd \in heap
    /\ \A t \in Ids : tpc[t] = "start" => ptr[t] \in heap /\ ptr[t] # confd
    /\ \A t, u \in Ids :
          tpc[t] = "start" /\ tpc[u] = "start" /\ ptr[t] = ptr[u] => t = u

(* An open descriptor belongs to main, to one thread, or is lost, and no   *)
(* connection is behind two.                                               *)
FdInv ==
    /\ \A t \in Ids : Holding(t) => FdOf(t) \in Fds \ FreeFds
    /\ \A t, u \in Ids : Holding(t) /\ Holding(u) /\ FdOf(t) = FdOf(u) => t = u
    /\ mpc = "create" => /\ cell[confd] \in Fds \ FreeFds
                         /\ \A t \in Ids : Holding(t) => FdOf(t) # cell[confd]
    /\ \A fd, fe \in Fds \ FreeFds : file[fd] = file[fe] => fd = fe

(* What is behind a descriptor is open.                                    *)
ConnInv == mpc # "exited" => \A fd \in Fds \ FreeFds : conn[file[fd]] = "open"

(* How far each conversation is.                                           *)
EchoInv ==
    /\ \A t \in Ids : tpc[t] = "write" =>
          n[t] > 0 /\ got[Mine(t)] - echoed[Mine(t)] = n[t]
    /\ \A c \in Conns : got[c] # echoed[c] => \E t \in Ids : tpc[t] = "write" /\ Mine(t) = c
    /\ mpc # "exited" => \A t \in Ids : tpc[t] = "close" =>
          \/ cli[Mine(t)] = "gone"
          \/ cli[Mine(t)] = "fin" /\ echoed[Mine(t)] = sent[Mine(t)]

ThreadInv == TypeOK /\ SockInv /\ CellInv /\ FdInv /\ ConnInv /\ EchoInv

=============================================================================
