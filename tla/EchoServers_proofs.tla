-------------------------- MODULE EchoServers_proofs --------------------------
(***************************************************************************)
(* What the five servers promise, as theorems of MCEchoServers.  First the *)
(* two that serve each client with a thread or a process of its own: each  *)
(* keeps its inductive invariant, what the invariant says of the server,   *)
(* and that its steps are steps of EchoService.  Then the program: the     *)
(* server that runs keeps its invariant, so that each of the checked       *)
(* invariants holds for any number of clients, descriptors, slots and      *)
(* threads; and where nothing fails it is an EchoService.                  *)
(***************************************************************************)
EXTENDS EventLoops_proofs

USE SocketConstants

-----------------------------------------------------------------------------
(* THREAD.  The inductive invariant is ThreadInv.                          *)

LEMMA ThrInit == Thr!ThreadConstants /\ Thr!Init => Thr!ThreadInv
<1> SUFFICES ASSUME Thr!ThreadConstants, Thr!Init PROVE Thr!ThreadInv
  OBVIOUS
<1> USE Thr!SocketConstants
        DEF Thr!ThreadConstants, Thr!Init, Thr!SockInit, Thr!Ids, Thr!Cells, Thr!Fds, Thr!None
<1>1. Thr!TypeOK /\ Thr!SockInv
  BY Thr!SockInitInv DEF Thr!TypeOK, Thr!SockInv
<1>2. Thr!CellInv /\ Thr!FdInv
  BY DEF Thr!CellInv, Thr!FdInv, Thr!Holding, Thr!FreeFds
<1>3. Thr!ConnInv /\ Thr!EchoInv
  BY DEF Thr!ConnInv, Thr!EchoInv, Thr!FreeFds
<1> QED
  BY <1>1, <1>2, <1>3 DEF Thr!ThreadInv

-----------------------------------------------------------------------------
(* A thread between its start and its close has a connection of its own.   *)

LEMMA ThrMineIsOpen ==
  ASSUME Thr!ThreadInv, NEW t \in Thr!Ids, tpc[t] \in {"read", "write", "close"}
  PROVE  /\ recvfd[t] \in Thr!Fds \ Thr!FreeFds
         /\ Thr!Mine(t) \in Conns
         /\ mpc # "exited" => conn[Thr!Mine(t)] = "open"
<1>1. recvfd[t] \in Thr!Fds \ Thr!FreeFds
  BY DEF Thr!ThreadInv, Thr!FdInv, Thr!Holding, Thr!FdOf
<1> QED
  BY <1>1 DEF Thr!ThreadInv, Thr!TypeOK, Thr!ConnInv, Thr!Mine, Thr!FreeFds

LEMMA ThrMineAlone ==
  ASSUME Thr!ThreadInv, NEW t \in Thr!Ids, tpc[t] \in {"read", "write", "close"},
         NEW u \in Thr!Ids, tpc[u] \in {"read", "write", "close"}, Thr!Mine(t) = Thr!Mine(u)
  PROVE  t = u
<1>1. recvfd[t] \in Thr!Fds \ Thr!FreeFds /\ recvfd[u] \in Thr!Fds \ Thr!FreeFds
  BY ThrMineIsOpen
<1>2. recvfd[t] = recvfd[u]
  BY <1>1 DEF Thr!ThreadInv, Thr!FdInv, Thr!Mine
<1> QED
  BY <1>2 DEF Thr!ThreadInv, Thr!FdInv, Thr!Holding, Thr!FdOf

-----------------------------------------------------------------------------
(* The clients.  What they do, the tables of the server do not show.       *)

LEMMA ThrClientKeeps ==
  ASSUME Thr!ThreadConstants, Thr!ThreadInv, NEW c \in Conns, NEW listening,
         Thr!ClientStep(c, listening), UNCHANGED <<Thr!mainVars, file, Thr!threadVars>>
  PROVE  Thr!ThreadInv'
<1>same. UNCHANGED <<mpc, confd, heap, cell, file, tpc, ptr, recvfd, n>>
  BY DEF Thr!mainVars, Thr!threadVars
<1>1. Thr!SockInv
  BY DEF Thr!ThreadInv
<1>2. Thr!SockInv' /\ Thr!SockTypeOK'
  BY <1>1, Thr!ClientKeepsSock DEF Thr!SockInv
<1>3. Thr!TypeOK'
  BY <1>2, <1>same DEF Thr!ThreadInv, Thr!TypeOK
<1>4. Thr!CellInv' /\ Thr!FdInv'
  BY <1>same DEF Thr!ThreadInv, Thr!CellInv, Thr!FdInv, Thr!Holding, Thr!FdOf, Thr!FreeFds
<1>5. /\ UNCHANGED <<got, echoed>>
      /\ \A d \in Conns : conn[d] = "open" => conn'[d] = "open"
  BY <1>1, Thr!ClientFrame
<1>6. Thr!ConnInv'
  BY <1>5, <1>same DEF Thr!ThreadInv, Thr!TypeOK, Thr!ConnInv, Thr!FreeFds
<1>7. ASSUME mpc # "exited", NEW t \in Thr!Ids, tpc[t] = "close"
      PROVE  \/ cli'[Thr!Mine(t)] = "gone"
             \/ cli'[Thr!Mine(t)] = "fin" /\ echoed[Thr!Mine(t)] = sent'[Thr!Mine(t)]
  <2>1. Thr!Mine(t) \in Conns /\ conn[Thr!Mine(t)] = "open"
    BY <1>7, ThrMineIsOpen
  <2>2. \/ cli[Thr!Mine(t)] = "gone"
        \/ cli[Thr!Mine(t)] = "fin" /\ echoed[Thr!Mine(t)] = sent[Thr!Mine(t)]
    BY <1>7 DEF Thr!ThreadInv, Thr!EchoInv
  <2>3. /\ cli[Thr!Mine(t)] = "gone" => cli'[Thr!Mine(t)] = "gone"
        /\ cli[Thr!Mine(t)] = "fin" =>
              sent'[Thr!Mine(t)] = sent[Thr!Mine(t)] /\ cli'[Thr!Mine(t)] \in {"fin", "gone"}
    BY <1>1, <2>1, Thr!ClientFrame
  <2> QED
    BY <2>2, <2>3
<1>8. Thr!EchoInv'
  BY <1>5, <1>7, <1>same DEF Thr!ThreadInv, Thr!EchoInv, Thr!Mine
<1> QED
  BY <1>2, <1>3, <1>4, <1>6, <1>8 DEF Thr!ThreadInv

-----------------------------------------------------------------------------
(* main.                                                                   *)

LEMMA ThrMallocKeeps == ASSUME Thr!ThreadConstants, Thr!ThreadInv, Thr!Malloc PROVE Thr!ThreadInv'
<1>step. /\ mpc = "malloc" /\ mpc' = "accept"
         /\ confd' \in Thr!Cells \ heap /\ heap' = heap \cup {confd'}
         /\ UNCHANGED <<Thr!sockVars, cell, file, Thr!threadVars>>
  BY DEF Thr!Malloc, Thr!Lowest
<1>same. UNCHANGED <<backlog, conn, cli, sent, got, echoed, tpc, ptr, recvfd, n, cell, file>>
  BY <1>step DEF Thr!sockVars, Thr!streamVars, Thr!threadVars
<1>1. Thr!TypeOK' /\ Thr!SockInv'
  BY <1>step, <1>same, Thr!SockStutters DEF Thr!ThreadInv, Thr!TypeOK, Thr!SockInv
<1>2. Thr!CellInv'
  BY <1>step, <1>same DEF Thr!ThreadInv, Thr!CellInv
<1>3. Thr!FdInv'
  BY <1>step, <1>same DEF Thr!ThreadInv, Thr!FdInv, Thr!Holding, Thr!FdOf, Thr!FreeFds
<1>4. Thr!ConnInv' /\ Thr!EchoInv'
  BY <1>step, <1>same DEF Thr!ThreadInv, Thr!ConnInv, Thr!EchoInv, Thr!Mine, Thr!FreeFds
<1> QED
  BY <1>1, <1>2, <1>3, <1>4 DEF Thr!ThreadInv

LEMMA ThrAcceptKeeps == ASSUME Thr!ThreadConstants, Thr!ThreadInv, Thr!Accept PROVE Thr!ThreadInv'
<1> USE Thr!SocketConstants
<1>type. Thr!TypeOK /\ Thr!SockTypeOK
  BY DEF Thr!ThreadInv, Thr!TypeOK
<1> DEFINE c == Head(backlog)
<1>take. /\ c \in Conns /\ conn[c] = "queued"
         /\ conn'[c] = "open" /\ \A d \in Conns : d # c => conn'[d] = conn[d]
         /\ UNCHANGED <<cli, sent, got, echoed>>
         /\ Thr!SockInv'
  BY Thr!TakeKeepsSock DEF Thr!Accept, Thr!ThreadInv
<1>1. PICK fd \in Thr!Fds : /\ Thr!Lowest(fd, Thr!FreeFds)
                        /\ file' = [file EXCEPT ![fd] = c]
                        /\ cell' = [cell EXCEPT ![confd] = fd]
  BY DEF Thr!Accept
<1>step. /\ mpc = "accept" /\ mpc' = "create"
         /\ UNCHANGED <<confd, heap, tpc, ptr, recvfd, n>>
  BY DEF Thr!Accept, Thr!threadVars
<1>2. file[fd] = NoConn
  BY <1>1 DEF Thr!Lowest, Thr!FreeFds
<1>3. /\ \A fe \in Thr!Fds : fe # fd => file'[fe] = file[fe]
      /\ file'[fd] = c
  BY <1>1, <1>type DEF Thr!TypeOK
<1>4. \A fe \in Thr!Fds \ Thr!FreeFds : /\ file[fe] \in Conns
                                        /\ conn[file[fe]] = "open"
                                        /\ file[fe] # c
  BY <1>take, <1>step, <1>type DEF Thr!ThreadInv, Thr!TypeOK, Thr!ConnInv, Thr!FreeFds
<1>5. (Thr!Fds \ Thr!FreeFds)' = (Thr!Fds \ Thr!FreeFds) \cup {fd}
  BY <1>2, <1>3, <1>take, Thr!SocketConstants DEF Thr!FreeFds
<1>6. confd \in Thr!Cells /\ cell'[confd] = fd
      /\ \A p \in Thr!Cells : p # confd => cell'[p] = cell[p]
  BY <1>1, <1>step, <1>type DEF Thr!ThreadInv, Thr!CellInv, Thr!TypeOK
<1>7. ASSUME NEW t \in Thr!Ids, Thr!Holding(t)'
      PROVE  Thr!Holding(t) /\ Thr!FdOf(t)' = Thr!FdOf(t) /\ Thr!FdOf(t) # fd
  BY <1>2, <1>6, <1>7, <1>step, <1>type
     DEF Thr!ThreadInv, Thr!CellInv, Thr!FdInv, Thr!Holding, Thr!FdOf, Thr!TypeOK, Thr!FreeFds
<1>8. \A t \in Thr!Ids : tpc[t] \in {"read", "write", "close"} => Thr!Mine(t)' = Thr!Mine(t)
  BY ThrMineIsOpen, <1>2, <1>3, <1>step DEF Thr!Mine, Thr!FreeFds
<1>9. Thr!TypeOK'
  BY <1>take, <1>1, <1>step, <1>type DEF Thr!TypeOK, Thr!SockInv
<1>10. Thr!CellInv'
  BY <1>step DEF Thr!ThreadInv, Thr!CellInv
<1>11. Thr!FdInv'
  <2>1. ASSUME NEW t \in Thr!Ids, Thr!Holding(t)'
        PROVE  Thr!FdOf(t)' \in (Thr!Fds \ Thr!FreeFds)' /\ Thr!FdOf(t)' # cell'[confd']
    BY <2>1, <1>5, <1>6, <1>7, <1>step DEF Thr!ThreadInv, Thr!FdInv
  <2>2. ASSUME NEW t \in Thr!Ids, NEW u \in Thr!Ids,
               Thr!Holding(t)', Thr!Holding(u)', Thr!FdOf(t)' = Thr!FdOf(u)'
        PROVE  t = u
    BY <2>2, <1>7 DEF Thr!ThreadInv, Thr!FdInv
  <2>3. cell'[confd'] \in (Thr!Fds \ Thr!FreeFds)'
    BY <1>5, <1>6, <1>step
  <2>4. \A fe, ff \in (Thr!Fds \ Thr!FreeFds)' : file'[fe] = file'[ff] => fe = ff
    BY <1>3, <1>4, <1>5 DEF Thr!ThreadInv, Thr!FdInv
  <2> QED
    BY <2>1, <2>2, <2>3, <2>4 DEF Thr!FdInv
<1>12. Thr!ConnInv'
  <2>1. \A fe \in (Thr!Fds \ Thr!FreeFds)' : conn'[file'[fe]] = "open"
    BY <1>3, <1>4, <1>5, <1>take
  <2> QED
    BY <2>1 DEF Thr!ConnInv
<1>13. Thr!EchoInv'
  BY <1>8, <1>step, <1>take DEF Thr!ThreadInv, Thr!EchoInv
<1> QED
  BY <1>take, <1>9, <1>10, <1>11, <1>12, <1>13 DEF Thr!ThreadInv

LEMMA ThrMainKeeps ==
  ASSUME Thr!ThreadConstants, Thr!ThreadInv,
         Thr!Interrupted \/ Thr!AcceptError \/ Thr!CreateThread \/ Thr!CreateFails
  PROVE  Thr!ThreadInv'
<1> USE DEF Thr!ThreadConstants
<1>type. Thr!TypeOK /\ Thr!SockTypeOK
  BY DEF Thr!ThreadInv, Thr!TypeOK
<1>1. CASE Thr!Interrupted \/ Thr!CreateFails
  <2>1. /\ confd' = Thr!None /\ mpc' = "malloc" /\ mpc # "exited"
        /\ heap' \subseteq heap /\ \A p \in heap : p # confd => p \in heap'
        /\ UNCHANGED <<backlog, conn, cli, sent, got, echoed, cell, file, tpc, ptr, recvfd, n>>
    BY <1>1 DEF Thr!Interrupted, Thr!CreateFails, Thr!sockVars, Thr!streamVars, Thr!threadVars
  <2>2. Thr!TypeOK' /\ Thr!SockInv'
    BY <2>1, <1>type, Thr!SockStutters
       DEF Thr!ThreadInv, Thr!TypeOK, Thr!SockInv, Thr!sockVars, Thr!streamVars
  <2>3. Thr!CellInv'
    BY <2>1, <1>type DEF Thr!ThreadInv, Thr!CellInv, Thr!TypeOK, Thr!None, Thr!Cells
  <2>4. Thr!FdInv' /\ Thr!ConnInv' /\ Thr!EchoInv'
    BY <2>1
       DEF Thr!ThreadInv, Thr!FdInv, Thr!ConnInv, Thr!EchoInv, Thr!Holding, Thr!FdOf,
           Thr!FreeFds, Thr!Mine
  <2> QED
    BY <2>2, <2>3, <2>4 DEF Thr!ThreadInv
<1>2. CASE Thr!AcceptError
  <2>1. /\ mpc' = "exited" /\ backlog' = <<>>
        /\ conn' = [c \in Conns |-> IF conn[c] \in {"queued", "open"} THEN "closed" ELSE conn[c]]
        /\ UNCHANGED <<cli, sent, got, echoed, confd, heap, cell, file, tpc, ptr, recvfd, n>>
    BY <1>2 DEF Thr!AcceptError, Thr!ProcessEnds, Thr!streamVars, Thr!threadVars
  <2>2. Thr!TypeOK' /\ Thr!SockInv'
    <3>1. Thr!SockInv'
      BY <2>1, <1>type, Thr!EndKeepsSock DEF Thr!ThreadInv, Thr!SockTypeOK
    <3> QED
      BY <2>1, <3>1, <1>type DEF Thr!TypeOK, Thr!SockInv
  <2>3. Thr!CellInv' /\ Thr!FdInv' /\ Thr!EchoInv'
    BY <2>1
       DEF Thr!ThreadInv, Thr!CellInv, Thr!FdInv, Thr!EchoInv, Thr!Holding, Thr!FdOf,
           Thr!FreeFds, Thr!Mine
  <2>4. Thr!ConnInv'
    BY <2>1 DEF Thr!ConnInv
  <2> QED
    BY <2>2, <2>3, <2>4 DEF Thr!ThreadInv
<1>3. CASE Thr!CreateThread
  <2>1. PICK t \in Thr!Ids : /\ Thr!Lowest(t, {u \in Thr!Ids : tpc[u] = "none"})
                         /\ tpc' = [tpc EXCEPT ![t] = "start"]
                         /\ ptr' = [ptr EXCEPT ![t] = confd]
    BY <1>3 DEF Thr!CreateThread
  <2>2. /\ mpc = "create" /\ mpc' = "malloc" /\ confd' = Thr!None
        /\ UNCHANGED <<backlog, conn, cli, sent, got, echoed, heap, cell, file, recvfd, n>>
    BY <1>3 DEF Thr!CreateThread, Thr!sockVars, Thr!streamVars
  <2>3. /\ tpc[t] = "none" /\ tpc'[t] = "start" /\ ptr'[t] = confd /\ confd \in heap
        /\ \A u \in Thr!Ids : u # t => tpc'[u] = tpc[u] /\ ptr'[u] = ptr[u]
    BY <2>1, <2>2, <1>type DEF Thr!Lowest, Thr!TypeOK, Thr!ThreadInv, Thr!CellInv
  <2>4. Thr!TypeOK' /\ Thr!SockInv'
    BY <2>1, <2>2, <1>type, Thr!SockStutters
       DEF Thr!ThreadInv, Thr!TypeOK, Thr!SockInv, Thr!sockVars, Thr!streamVars
  <2>5. Thr!CellInv'
    <3>1. heap \subseteq Thr!Cells /\ Thr!None \notin Thr!Cells
      BY <1>type DEF Thr!TypeOK, Thr!None, Thr!Cells
    <3>2. ASSUME NEW u \in Thr!Ids, tpc'[u] = "start"
          PROVE  ptr'[u] \in heap' /\ ptr'[u] # confd'
      BY <2>2, <2>3, <3>1, <3>2 DEF Thr!ThreadInv, Thr!CellInv
    <3>3. ASSUME NEW u \in Thr!Ids, NEW v \in Thr!Ids,
                 tpc'[u] = "start", tpc'[v] = "start", ptr'[u] = ptr'[v]
          PROVE  u = v
      BY <2>3, <3>3 DEF Thr!ThreadInv, Thr!CellInv
    <3> QED
      BY <2>2, <3>2, <3>3 DEF Thr!CellInv
  <2>6. Thr!FdOf(t)' = cell[confd] /\ Thr!Holding(t)'
        /\ \A u \in Thr!Ids : u # t =>
                 (Thr!Holding(u)' <=> Thr!Holding(u)) /\ Thr!FdOf(u)' = Thr!FdOf(u)
    BY <2>2, <2>3 DEF Thr!FdOf, Thr!Holding
  <2>7. Thr!FdInv'
    BY <2>2, <2>6 DEF Thr!ThreadInv, Thr!FdInv, Thr!FreeFds
  <2>8. Thr!ConnInv'
    BY <2>2 DEF Thr!ThreadInv, Thr!ConnInv, Thr!FreeFds
  <2>9. Thr!EchoInv'
    BY <2>2, <2>3 DEF Thr!ThreadInv, Thr!EchoInv, Thr!Mine
  <2> QED
    BY <2>4, <2>5, <2>7, <2>8, <2>9 DEF Thr!ThreadInv
<1> QED
  BY <1>1, <1>2, <1>3

-----------------------------------------------------------------------------
(* The threads.                                                            *)

LEMMA ThrStartKeeps ==
  ASSUME Thr!ThreadConstants, Thr!ThreadInv, NEW t \in Thr!Ids, Thr!Start(t)
  PROVE  Thr!ThreadInv'
<1>type. Thr!TypeOK /\ Thr!SockTypeOK
  BY DEF Thr!ThreadInv, Thr!TypeOK
<1>step. /\ mpc # "exited" /\ tpc[t] = "start"
         /\ tpc' = [tpc EXCEPT ![t] = "read"]
         /\ recvfd' = [recvfd EXCEPT ![t] = cell[ptr[t]]]
         /\ heap' = heap \ {ptr[t]}
         /\ ptr' = [ptr EXCEPT ![t] = Thr!None]
         /\ UNCHANGED <<backlog, conn, cli, sent, got, echoed, mpc, confd, cell, file, n>>
  BY DEF Thr!Start, Thr!At, Thr!Goes, Thr!sockVars, Thr!streamVars
<1>1. /\ tpc'[t] = "read" /\ recvfd'[t] = cell[ptr[t]]
      /\ \A u \in Thr!Ids : u # t =>
               tpc'[u] = tpc[u] /\ recvfd'[u] = recvfd[u] /\ ptr'[u] = ptr[u]
  BY <1>step, <1>type DEF Thr!TypeOK
<1>2. Thr!FdOf(t) = cell[ptr[t]] /\ Thr!FdOf(t) \in Thr!Fds
  BY <1>step DEF Thr!ThreadInv, Thr!FdInv, Thr!Holding, Thr!FdOf
<1>3. \A u \in Thr!Ids : (Thr!Holding(u)' <=> Thr!Holding(u)) /\ Thr!FdOf(u)' = Thr!FdOf(u)
  BY <1>1, <1>2, <1>step DEF Thr!Holding, Thr!FdOf
<1>4. Thr!TypeOK' /\ Thr!SockInv'
  BY <1>2, <1>step, <1>type, Thr!SockStutters
     DEF Thr!ThreadInv, Thr!TypeOK, Thr!SockInv, Thr!sockVars, Thr!streamVars
<1>5. Thr!CellInv'
  BY <1>1, <1>step DEF Thr!ThreadInv, Thr!CellInv
<1>6. Thr!FdInv' /\ Thr!ConnInv'
  BY <1>3, <1>step DEF Thr!ThreadInv, Thr!FdInv, Thr!ConnInv, Thr!FreeFds
<1>7. \A u \in Thr!Ids : tpc'[u] \in {"write", "close"} =>
          u # t /\ tpc'[u] = tpc[u] /\ Thr!Mine(u)' = Thr!Mine(u)
  BY <1>1, <1>step DEF Thr!Mine
<1>8. \A u \in Thr!Ids : tpc[u] = "write" => tpc'[u] = "write" /\ Thr!Mine(u)' = Thr!Mine(u)
  BY <1>1, <1>step DEF Thr!Mine
<1>9. Thr!EchoInv'
  BY <1>7, <1>8, <1>step DEF Thr!ThreadInv, Thr!EchoInv
<1> QED
  BY <1>4, <1>5, <1>6, <1>9 DEF Thr!ThreadInv

(* The loop of a thread changes neither the tables nor whose what is.      *)
LEMMA ThrLoopKeeps ==
  ASSUME Thr!ThreadConstants, Thr!ThreadInv, NEW t \in Thr!Ids,
         Thr!ReadSome(t) \/ Thr!WriteBack(t) \/ Thr!ReadEnd(t)
  PROVE  Thr!ThreadInv'
<1> USE Thr!SocketConstants
<1>type. Thr!TypeOK /\ Thr!SockTypeOK
  BY DEF Thr!ThreadInv, Thr!TypeOK
<1> DEFINE c == Thr!Mine(t)
<1>same. UNCHANGED <<backlog, conn, cli, sent, mpc, confd, heap, cell, file, ptr, recvfd>>
  BY DEF Thr!ReadSome, Thr!WriteBack, Thr!ReadEnd, Thr!Read, Thr!Write, Thr!mainVars,
         Thr!sockVars, Thr!streamVars
<1>1. /\ mpc # "exited" /\ tpc[t] \in {"read", "write"}
      /\ tpc' = [tpc EXCEPT ![t] = tpc'[t]]
      /\ tpc'[t] \in {"read", "write", "close"}
  BY <1>type DEF Thr!ReadSome, Thr!WriteBack, Thr!ReadEnd, Thr!At, Thr!Goes, Thr!TypeOK
<1>2. \A u \in Thr!Ids : u # t => tpc'[u] = tpc[u]
  BY <1>1, <1>type DEF Thr!TypeOK
<1>3. c \in Conns
  BY <1>1, ThrMineIsOpen
<1>4. \A u \in Thr!Ids : Thr!Mine(u)' = Thr!Mine(u)
  BY <1>same DEF Thr!Mine
<1>5. \A u \in Thr!Ids : tpc[u] \in {"read", "write", "close"} /\ u # t => Thr!Mine(u) # c
  BY <1>1, ThrMineAlone
<1>6. Thr!CellInv'
  BY <1>1, <1>2, <1>same DEF Thr!ThreadInv, Thr!CellInv
<1>7. Thr!FdInv'
  <2>1. \A u \in Thr!Ids : (Thr!Holding(u)' <=> Thr!Holding(u)) /\ Thr!FdOf(u)' = Thr!FdOf(u)
    BY <1>1, <1>2, <1>same DEF Thr!Holding, Thr!FdOf
  <2> QED
    BY <2>1, <1>1, <1>same DEF Thr!ThreadInv, Thr!FdInv, Thr!FreeFds
<1>8. Thr!ConnInv'
  BY <1>same DEF Thr!ThreadInv, Thr!ConnInv, Thr!FreeFds
<1>nat. /\ got[c] \in 0 .. MaxSend /\ echoed[c] \in 0 .. MaxSend /\ sent[c] \in 0 .. MaxSend
        /\ n[t] \in 0 .. MaxSend
  BY <1>3, <1>type DEF Thr!TypeOK, Thr!SockTypeOK
<1>9. CASE Thr!ReadSome(t)
  <2>1. PICK k \in 1 .. MaxSend : Thr!Read(c, k) /\ n' = [n EXCEPT ![t] = k]
    BY <1>9 DEF Thr!ReadSome
  <2>2. tpc[t] = "read" /\ tpc'[t] = "write"
    BY <1>9, <1>1, <1>type DEF Thr!ReadSome, Thr!At, Thr!Goes, Thr!TypeOK
  <2>3. /\ got'[c] = got[c] + k /\ \A d \in Conns : d # c => got'[d] = got[d]
        /\ echoed' = echoed
        /\ Thr!SockInv'
    BY <2>1, <1>3, Thr!ReadKeepsSock DEF Thr!ThreadInv
  <2>4. got[c] = echoed[c]
    BY <2>2, <1>3, <1>5 DEF Thr!ThreadInv, Thr!EchoInv
  <2>5. n'[t] = k /\ \A u \in Thr!Ids : u # t => n'[u] = n[u]
    BY <2>1, <1>type DEF Thr!TypeOK
  <2>6. Thr!TypeOK'
    BY <2>1, <2>3, <1>1, <1>same, <1>type DEF Thr!TypeOK, Thr!SockInv
  <2>8. ASSUME NEW u \in Thr!Ids, tpc'[u] = "write"
        PROVE  n'[u] > 0 /\ got'[Thr!Mine(u)] - echoed[Thr!Mine(u)] = n'[u]
    <3>1. CASE u = t
      BY <3>1, <2>1, <2>3, <2>4, <2>5, <1>nat
    <3>2. CASE u # t
      <4>1. tpc[u] = "write" /\ Thr!Mine(u) # c /\ Thr!Mine(u) \in Conns
        BY <3>2, <2>8, <1>2, <1>5, ThrMineIsOpen
      <4> QED
        BY <4>1, <3>2, <2>3, <2>5 DEF Thr!ThreadInv, Thr!EchoInv
    <3> QED
      BY <3>1, <3>2
  <2>9. ASSUME NEW d \in Conns, got'[d] # echoed[d]
        PROVE  \E u \in Thr!Ids : tpc'[u] = "write" /\ Thr!Mine(u) = d
    <3>1. CASE d = c
      BY <3>1, <2>2
    <3>2. CASE d # c
      <4>1. PICK u \in Thr!Ids : tpc[u] = "write" /\ Thr!Mine(u) = d
        BY <3>2, <2>3, <2>9 DEF Thr!ThreadInv, Thr!EchoInv
      <4> QED
        BY <4>1, <3>2, <1>2
    <3> QED
      BY <3>1, <3>2
  <2>10. \A u \in Thr!Ids : tpc'[u] = "close" => tpc[u] = "close"
    BY <2>2, <1>2
  <2>11. Thr!EchoInv'
    BY <2>3, <2>8, <2>9, <2>10, <1>1, <1>4, <1>same DEF Thr!ThreadInv, Thr!EchoInv
  <2> QED
    BY <2>3, <2>6, <2>11, <1>6, <1>7, <1>8 DEF Thr!ThreadInv
<1>10. CASE Thr!WriteBack(t)
  <2>1. /\ tpc[t] = "write" /\ tpc'[t] = "read" /\ Thr!Write(c, n[t])
        /\ n' = [n EXCEPT ![t] = 0]
    BY <1>10, <1>1, <1>type DEF Thr!WriteBack, Thr!At, Thr!Goes, Thr!TypeOK
  <2>2. got[c] - echoed[c] = n[t]
    BY <2>1 DEF Thr!ThreadInv, Thr!EchoInv
  <2>3. /\ echoed'[c] = got[c] /\ \A d \in Conns : d # c => echoed'[d] = echoed[d]
        /\ got' = got
        /\ Thr!SockInv'
    BY <2>1, <2>2, <1>3, <1>nat, Thr!WriteKeepsSock DEF Thr!ThreadInv
  <2>4. \A u \in Thr!Ids : u # t => n'[u] = n[u]
    BY <2>1, <1>type DEF Thr!TypeOK
  <2>5. Thr!TypeOK'
    BY <2>1, <2>3, <1>1, <1>same, <1>type DEF Thr!TypeOK, Thr!SockInv
  <2>6. ASSUME NEW u \in Thr!Ids, tpc'[u] \in {"write", "close"}
        PROVE  /\ u # t /\ tpc[u] = tpc'[u]
               /\ n'[u] = n[u] /\ echoed'[Thr!Mine(u)] = echoed[Thr!Mine(u)]
    <3>1. u # t
      BY <2>1, <2>6
    <3>2. tpc[u] = tpc'[u] /\ Thr!Mine(u) # c /\ Thr!Mine(u) \in Conns
      BY <3>1, <2>6, <1>2, <1>5, ThrMineIsOpen
    <3> QED
      BY <3>1, <3>2, <2>3, <2>4
  <2>7. ASSUME NEW d \in Conns, got[d] # echoed'[d]
        PROVE  \E u \in Thr!Ids : tpc'[u] = "write" /\ Thr!Mine(u) = d
    <3>1. d # c
      BY <2>3, <2>7
    <3>2. PICK u \in Thr!Ids : tpc[u] = "write" /\ Thr!Mine(u) = d
      BY <3>1, <2>3, <2>7 DEF Thr!ThreadInv, Thr!EchoInv
    <3> QED
      BY <3>1, <3>2, <1>2
  <2>8. Thr!EchoInv'
    BY <2>3, <2>6, <2>7, <1>1, <1>4, <1>same DEF Thr!ThreadInv, Thr!EchoInv
  <2> QED
    BY <2>3, <2>5, <2>8, <1>6, <1>7, <1>8 DEF Thr!ThreadInv
<1>11. CASE Thr!ReadEnd(t)
  <2>1. /\ tpc[t] = "read" /\ tpc'[t] = "close" /\ Thr!AtEnd(c)
        /\ UNCHANGED <<got, echoed, n>>
    BY <1>11, <1>1, <1>type
       DEF Thr!ReadEnd, Thr!At, Thr!Goes, Thr!TypeOK, Thr!sockVars, Thr!streamVars
  <2>2. got[c] = echoed[c]
    BY <2>1, <1>3, <1>5 DEF Thr!ThreadInv, Thr!EchoInv
  <2>3. cli[c] = "gone" \/ (cli[c] = "fin" /\ echoed[c] = sent[c])
    <3>1. (sent[c] - got[c] = 0 /\ cli[c] \in {"fin", "gone"}) \/ cli[c] = "gone"
      BY <2>1 DEF Thr!AtEnd, Thr!Unread
    <3>2. sent[c] \in Nat /\ got[c] \in Nat
      BY <1>nat
    <3> QED
      BY <3>1, <3>2, <2>2
  <2>4. Thr!TypeOK' /\ Thr!SockInv'
    BY <2>1, <1>1, <1>same, <1>type, Thr!SockStutters
       DEF Thr!ThreadInv, Thr!TypeOK, Thr!SockInv, Thr!sockVars, Thr!streamVars
  <2>5. \A u \in Thr!Ids : tpc'[u] = "write" <=> tpc[u] = "write"
    BY <2>1, <1>2
  <2>6. \A u \in Thr!Ids : tpc'[u] = "close" => u = t \/ tpc[u] = "close"
    BY <1>2
  <2>7. Thr!EchoInv'
    BY <2>1, <2>3, <2>5, <2>6, <1>1, <1>4, <1>same DEF Thr!ThreadInv, Thr!EchoInv
  <2> QED
    BY <2>4, <2>7, <1>6, <1>7, <1>8 DEF Thr!ThreadInv
<1> QED
  BY <1>9, <1>10, <1>11

LEMMA ThrEndKeeps ==
  ASSUME Thr!ThreadConstants, Thr!ThreadInv, NEW t \in Thr!Ids,
         Thr!BrokenPipe(t) \/ Thr!CloseFd(t)
  PROVE  Thr!ThreadInv'
<1> USE Thr!SocketConstants
<1>type. Thr!TypeOK /\ Thr!SockTypeOK
  BY DEF Thr!ThreadInv, Thr!TypeOK
<1>1. CASE Thr!BrokenPipe(t)
  <2>1. /\ mpc' = "exited" /\ backlog' = <<>>
        /\ conn' = [c \in Conns |-> IF conn[c] \in {"queued", "open"} THEN "closed" ELSE conn[c]]
        /\ UNCHANGED <<cli, sent, got, echoed, confd, heap, cell, file, tpc, ptr, recvfd, n>>
    BY <1>1 DEF Thr!BrokenPipe, Thr!ProcessEnds, Thr!streamVars, Thr!threadVars
  <2>2. Thr!TypeOK' /\ Thr!SockInv'
    <3>1. Thr!SockInv'
      BY <2>1, <1>type, Thr!EndKeepsSock DEF Thr!ThreadInv, Thr!SockTypeOK
    <3> QED
      BY <2>1, <3>1, <1>type DEF Thr!TypeOK, Thr!SockInv
  <2>3. Thr!CellInv' /\ Thr!FdInv' /\ Thr!EchoInv'
    BY <2>1
       DEF Thr!ThreadInv, Thr!CellInv, Thr!FdInv, Thr!EchoInv, Thr!Holding, Thr!FdOf,
           Thr!FreeFds, Thr!Mine
  <2>4. Thr!ConnInv'
    BY <2>1 DEF Thr!ConnInv
  <2> QED
    BY <2>2, <2>3, <2>4 DEF Thr!ThreadInv
<1>2. CASE Thr!CloseFd(t)
  <2> DEFINE c  == Thr!Mine(t)
             fd == recvfd[t]
  <2>1. /\ tpc[t] = "close" /\ mpc # "exited"
        /\ tpc' = [tpc EXCEPT ![t] = "done"]
        /\ conn' = [conn EXCEPT ![c] = "closed"]
        /\ file' = [file EXCEPT ![fd] = NoConn]
        /\ recvfd' = [recvfd EXCEPT ![t] = Thr!None]
        /\ UNCHANGED <<backlog, cli, sent, got, echoed, mpc, confd, heap, cell, ptr, n>>
    BY <1>2 DEF Thr!CloseFd, Thr!At, Thr!Goes, Thr!Close, Thr!mainVars, Thr!streamVars
  <2>2. fd \in Thr!Fds \ Thr!FreeFds /\ c \in Conns /\ conn[c] = "open"
    BY <2>1, ThrMineIsOpen
  <2>3. /\ tpc'[t] = "done" /\ file'[fd] = NoConn /\ conn'[c] = "closed"
        /\ \A u \in Thr!Ids : u # t => tpc'[u] = tpc[u] /\ recvfd'[u] = recvfd[u]
        /\ \A fe \in Thr!Fds : fe # fd => file'[fe] = file[fe]
        /\ \A d \in Conns : d # c => conn'[d] = conn[d]
    BY <2>1, <2>2, <1>type DEF Thr!TypeOK, Thr!SockTypeOK
  <2>4. (Thr!Fds \ Thr!FreeFds)' = (Thr!Fds \ Thr!FreeFds) \ {fd}
    BY <2>2, <2>3 DEF Thr!FreeFds
  <2>5. ASSUME NEW u \in Thr!Ids, Thr!Holding(u)'
        PROVE  u # t /\ Thr!Holding(u) /\ Thr!FdOf(u)' = Thr!FdOf(u)
    BY <2>1, <2>3, <2>5 DEF Thr!Holding, Thr!FdOf
  <2>6. Thr!Holding(t) /\ Thr!FdOf(t) = fd
    BY <2>1 DEF Thr!Holding, Thr!FdOf
  <2>7. \A u \in Thr!Ids : tpc'[u] \in {"read", "write", "close"} =>
            u # t /\ tpc[u] = tpc'[u] /\ Thr!Mine(u)' = Thr!Mine(u)
    <3>1. ASSUME NEW u \in Thr!Ids, tpc'[u] \in {"read", "write", "close"}
          PROVE  u # t /\ tpc[u] = tpc'[u] /\ Thr!Mine(u)' = Thr!Mine(u)
      <4>1. u # t /\ tpc[u] = tpc'[u]
        BY <3>1, <2>3
      <4>2. recvfd[u] \in Thr!Fds /\ recvfd[u] # fd
        BY <4>1, <3>1, <2>6 DEF Thr!ThreadInv, Thr!FdInv, Thr!Holding, Thr!FdOf
      <4> QED
        BY <4>1, <4>2, <2>3 DEF Thr!Mine
    <3> QED
      BY <3>1
  <2>8. Thr!TypeOK' /\ Thr!SockInv'
    <3>1. Thr!SockInv'
      BY <2>1, <2>2, <2>3, <1>type, Thr!EndKeepsSock DEF Thr!ThreadInv, Thr!SockTypeOK
    <3> QED
      BY <2>1, <3>1, <1>type DEF Thr!TypeOK, Thr!SockInv
  <2>9. Thr!CellInv'
    BY <2>1, <2>3 DEF Thr!ThreadInv, Thr!CellInv
  <2>10. Thr!FdInv'
    <3>1. ASSUME NEW u \in Thr!Ids, Thr!Holding(u)'
          PROVE  Thr!FdOf(u)' \in (Thr!Fds \ Thr!FreeFds)'
      BY <3>1, <2>4, <2>5, <2>6 DEF Thr!ThreadInv, Thr!FdInv
    <3>2. ASSUME NEW u \in Thr!Ids, NEW v \in Thr!Ids,
                 Thr!Holding(u)', Thr!Holding(v)', Thr!FdOf(u)' = Thr!FdOf(v)'
          PROVE  u = v
      BY <3>2, <2>5 DEF Thr!ThreadInv, Thr!FdInv
    <3>3. ASSUME mpc' = "create"
          PROVE  /\ cell'[confd'] \in (Thr!Fds \ Thr!FreeFds)'
                 /\ \A u \in Thr!Ids : Thr!Holding(u)' => Thr!FdOf(u)' # cell'[confd']
      <4>1. mpc = "create" /\ cell'[confd'] = cell[confd]
        BY <3>3, <2>1
      <4>2. cell[confd] \in Thr!Fds \ Thr!FreeFds /\ cell[confd] # fd
        BY <4>1, <2>6 DEF Thr!ThreadInv, Thr!FdInv
      <4>3. ASSUME NEW u \in Thr!Ids, Thr!Holding(u)' PROVE Thr!FdOf(u)' # cell[confd]
        BY <4>1, <4>3, <2>5 DEF Thr!ThreadInv, Thr!FdInv
      <4> QED
        BY <4>1, <4>2, <4>3, <2>4
    <3>4. \A fe, ff \in (Thr!Fds \ Thr!FreeFds)' : file'[fe] = file'[ff] => fe = ff
      BY <2>3, <2>4 DEF Thr!ThreadInv, Thr!FdInv
    <3> QED
      BY <3>1, <3>2, <3>3, <3>4 DEF Thr!FdInv
  <2>11. Thr!ConnInv'
    <3>1. \A fe \in (Thr!Fds \ Thr!FreeFds)' : /\ file'[fe] = file[fe]
                                               /\ file[fe] \in Conns
                                               /\ file[fe] # c
      BY <2>2, <2>3, <2>4, <1>type
         DEF Thr!ThreadInv, Thr!FdInv, Thr!TypeOK, Thr!Mine, Thr!FreeFds
    <3> QED
      BY <3>1, <2>1, <2>3, <2>4 DEF Thr!ThreadInv, Thr!ConnInv
  <2>12. Thr!EchoInv'
    <3>1. \A u \in Thr!Ids : tpc[u] = "write" => tpc'[u] = "write" /\ Thr!Mine(u)' = Thr!Mine(u)
      BY <2>1, <2>3, <2>7
    <3> QED
      BY <3>1, <2>1, <2>7 DEF Thr!ThreadInv, Thr!EchoInv
  <2> QED
    BY <2>8, <2>9, <2>10, <2>11, <2>12 DEF Thr!ThreadInv
<1> QED
  BY <1>1, <1>2

LEMMA ThrStepKeeps ==
  Thr!ThreadConstants /\ Thr!ThreadInv /\ [Thr!Next]_(Thr!vars) => Thr!ThreadInv'
<1> SUFFICES ASSUME Thr!ThreadConstants, Thr!ThreadInv, [Thr!Next]_(Thr!vars) PROVE Thr!ThreadInv'
  OBVIOUS
<1>1. CASE UNCHANGED Thr!vars
  BY <1>1, Thr!SockStutters
     DEF Thr!vars, Thr!sockVars, Thr!streamVars, Thr!mainVars, Thr!threadVars, Thr!ThreadInv,
         Thr!TypeOK, Thr!SockInv, Thr!CellInv, Thr!FdInv, Thr!ConnInv, Thr!EchoInv, Thr!Holding,
         Thr!FdOf, Thr!FreeFds, Thr!Mine
<1>2. CASE Thr!MainStep \/ Thr!Interrupted
  BY <1>2, ThrMallocKeeps, ThrAcceptKeeps, ThrMainKeeps DEF Thr!MainStep
<1>3. ASSUME NEW t \in Thr!Ids, Thr!ThreadStep(t) PROVE Thr!ThreadInv'
  BY <1>3, ThrStartKeeps, ThrLoopKeeps, ThrEndKeeps DEF Thr!ThreadStep
<1>4. ASSUME NEW c \in Conns, Thr!ClientStep(c, mpc # "exited"),
             UNCHANGED <<Thr!mainVars, file, Thr!threadVars>>
      PROVE  Thr!ThreadInv'
  BY <1>4, ThrClientKeeps
<1> QED
  BY <1>1, <1>2, <1>3, <1>4 DEF Thr!Next


(* What the invariant says of the server.                                  *)
LEMMA ThrShows ==
  ASSUME Thr!ThreadInv
  PROVE  Thr!TypeOK /\ Thr!OneThread /\ Thr!NothingLost
<1>1. \A t \in Thr!Ids : Thr!Serving(t) => Thr!Holding(t) /\ Thr!FdOf(t) = recvfd[t]
  BY DEF Thr!Serving, Thr!Holding, Thr!FdOf
<1>2. Thr!OneThread
  BY <1>1 DEF Thr!ThreadInv, Thr!FdInv, Thr!OneThread
<1>3. Thr!NothingLost
  BY DEF Thr!ThreadInv, Thr!EchoInv, Thr!NothingLost
<1> QED
  BY <1>2, <1>3 DEF Thr!ThreadInv

(* No descriptor is ever served by two threads, or by one after it was     *)
(* closed, however soon its number is used again and whatever fails:       *)
(* clients vanish, calls are interrupted, threads fail to start and        *)
(* descriptors run out (dd.cpp:27-110).                                    *)
THEOREM ThreadServerIsRight == Thr!Spec => [](Thr!TypeOK /\ Thr!OneThread /\ Thr!NothingLost)
<1>1. Thr!ThreadConstants
  BY ConcurrentConstants
<1>2. Thr!Init => Thr!ThreadInv
  BY <1>1, ThrInit
<1>3. Thr!ThreadInv /\ [Thr!Next]_(Thr!vars) => Thr!ThreadInv'
  BY <1>1, ThrStepKeeps
<1>4. Thr!ThreadInv => Thr!TypeOK /\ Thr!OneThread /\ Thr!NothingLost
  BY ThrShows
<1> QED
  BY <1>2, <1>3, <1>4, PTL DEF Thr!Spec

-----------------------------------------------------------------------------
(* The refinement.                                                         *)

(* With a descriptor for each client, one is free for a client that waits: *)
(* no two descriptors are of one connection.                               *)
LEMMA ThrDescriptorFree ==
  ASSUME Thr!ThreadConstants, server = "thread", Healthy, Thr!ThreadInv, mpc # "exited",
         backlog # <<>>
  PROVE  Thr!FreeFds # {}
<1> USE Thr!SocketConstants
<1>type. Thr!TypeOK /\ Thr!SockTypeOK
  BY DEF Thr!ThreadInv, Thr!TypeOK
<1> DEFINE h == Head(backlog)
           Others == Conns \ {h}
<1>1. h \in Conns /\ conn[h] = "queued"
  <2>1. 1 \in DOMAIN backlog /\ h = backlog[1]
    BY <1>type DEF Thr!SockTypeOK
  <2> QED
    BY <2>1, <1>type DEF Thr!SockTypeOK, Thr!ThreadInv, Thr!SockInv
<1>2. SUFFICES ASSUME Thr!FreeFds = {} PROVE FALSE
  OBVIOUS
<1>3. file \in [Thr!Fds -> Others]
  <2>1. \A fd \in Thr!Fds : file[fd] \in Conns /\ conn[file[fd]] = "open"
    BY <1>2, <1>type DEF Thr!TypeOK, Thr!FreeFds, Thr!ThreadInv, Thr!ConnInv
  <2> QED
    BY <2>1, <1>1, <1>type DEF Thr!TypeOK
<1>4. Thr!IsFiniteSet(Others) /\ Thr!Cardinality(Others) = Thr!Cardinality(Conns) - 1
  BY <1>1, Thr!FS_RemoveElement DEF Healthy, IsFiniteSet, Thr!IsFiniteSet
<1>5. Thr!IsFiniteSet(Thr!Fds) /\ Thr!Cardinality(Thr!Fds) = (FdLimit - 1)
  BY Thr!FS_Interval DEF Thr!Fds, Thr!ThreadConstants
<1>6. Thr!Cardinality(Others) < Thr!Cardinality(Thr!Fds)
  <2>1. FdLimit \in Nat
    BY EventLoopConstants DEF Sel!SelectConstants
  <2>2. Thr!Cardinality(Conns) < FdLimit /\ Thr!Cardinality(Conns) \in Nat
    BY FS_CardinalityType DEF Healthy, Cardinality, Thr!Cardinality
  <2> QED
    BY <1>4, <1>5, <2>1, <2>2
<1> HIDE DEF Others
<1>7. \E fd, fe \in Thr!Fds : fd # fe /\ file[fd] = file[fe]
  BY <1>3, <1>4, <1>5, <1>6, Thr!FS_PigeonHole
<1> QED
  BY <1>2, <1>7 DEF Thr!ThreadInv, Thr!FdInv

(* Then the process never ends.                                            *)
ThrRuns == mpc # "exited" /\ Thr!NobodyGone

LEMMA ThrStillRuns ==
  ASSUME Thr!ThreadConstants, server = "thread", Healthy, Thr!ThreadInv, ThrRuns,
         [Thr!Next]_(Thr!vars)
  PROVE  ThrRuns'
<1> USE Thr!SocketConstants
<1>type. Thr!TypeOK /\ Thr!SockTypeOK
  BY DEF Thr!ThreadInv, Thr!TypeOK
<1>1. CASE UNCHANGED Thr!vars
  BY <1>1 DEF Thr!vars, Thr!sockVars, Thr!mainVars, ThrRuns, Thr!NobodyGone
<1>2. CASE Thr!MainStep \/ Thr!Interrupted
  <2>1. ~Thr!AcceptError
    BY ThrDescriptorFree DEF Thr!AcceptError, ThrRuns, Thr!NobodyGone
  <2> QED
    BY <1>2, <2>1
       DEF Thr!MainStep, Thr!Interrupted, Thr!Malloc, Thr!Accept, Thr!CreateThread,
           Thr!CreateFails, Thr!Take, Thr!sockVars, ThrRuns, Thr!NobodyGone
<1>3. ASSUME NEW t \in Thr!Ids, Thr!ThreadStep(t) PROVE ThrRuns'
  <2>1. ~Thr!BrokenPipe(t)
    BY ThrMineIsOpen DEF Thr!BrokenPipe, Thr!At, Thr!Breaks, ThrRuns, Thr!NobodyGone
  <2> QED
    BY <1>3, <2>1
       DEF Thr!ThreadStep, Thr!Start, Thr!ReadSome, Thr!WriteBack, Thr!ReadEnd, Thr!CloseFd,
           Thr!Read, Thr!Write, Thr!Close, Thr!mainVars, Thr!sockVars, ThrRuns, Thr!NobodyGone
<1>4. ASSUME NEW c \in Conns, Thr!ClientStep(c, mpc # "exited"),
             UNCHANGED <<Thr!mainVars, file, Thr!threadVars>>
      PROVE  ThrRuns'
  BY <1>4, <1>type, Thr!NobodyGoes DEF Thr!mainVars, ThrRuns, Healthy
<1> QED
  BY <1>1, <1>2, <1>3, <1>4 DEF Thr!Next

LEMMA ThrInitRefines ==
  ASSUME server = "thread", Healthy, Thr!Init
  PROVE  Service!SInit /\ ThrRuns
<1>1. Side = [c \in Conns |-> "on"]
  BY Thr!SockInitInv DEF Thr!Init, Thr!Side, Side
<1>2. Capacity \in Nat \ {0}
  BY FS_CardinalityType DEF Healthy, Capacity
<1> QED
  BY <1>1, <1>2 DEF Thr!Init, Thr!SockInit, Service!SInit, ThrRuns, Thr!NobodyGone

(* The server takes a connection, writes back or closes; every other step  *)
(* of it is a stutter of the service.                                      *)
LEMMA ThrServerStepRefines ==
  ASSUME Capacity' = Capacity, Thr!ThreadConstants, server = "thread", Healthy,
         Thr!ThreadInv, ThrRuns,
         Thr!MainStep \/ Thr!Interrupted \/ \E t \in Thr!Ids : Thr!ThreadStep(t)
  PROVE  [Service!SNext]_(Service!svars)
<1> USE Thr!SocketConstants
<1>type. Thr!TypeOK /\ Thr!SockTypeOK
  BY DEF Thr!ThreadInv, Thr!TypeOK
<1>1. ASSUME UNCHANGED Thr!sockVars PROVE UNCHANGED Service!svars
  BY <1>1 DEF Thr!sockVars, Thr!streamVars, Service!svars, Side
<1>2. Side' = Side
  <2>1. cli' = cli
    <3>1. ~Thr!AcceptError /\ \A t \in Thr!Ids : ~Thr!BrokenPipe(t)
      BY ThrDescriptorFree, ThrMineIsOpen
         DEF Thr!AcceptError, Thr!BrokenPipe, Thr!At, Thr!Breaks, ThrRuns, Thr!NobodyGone
    <3> QED
      BY <3>1
         DEF Thr!MainStep, Thr!Interrupted, Thr!Malloc, Thr!Accept, Thr!CreateThread,
             Thr!CreateFails, Thr!Take, Thr!ThreadStep, Thr!Start, Thr!ReadSome, Thr!WriteBack,
             Thr!ReadEnd, Thr!CloseFd, Thr!Read, Thr!Write, Thr!Close, Thr!sockVars
  <2> QED
    BY <2>1 DEF Side
<1>3. CASE Thr!Accept
  <2>1. /\ backlog # <<>>
        /\ conn' = [conn EXCEPT ![Head(backlog)] = "open"]
        /\ UNCHANGED <<sent, echoed>>
    BY <1>3 DEF Thr!Accept, Thr!Take, Thr!streamVars
  <2>2. Head(backlog) \in Conns /\ conn[Head(backlog)] = "queued"
    BY <1>3, Thr!TakeKeepsSock DEF Thr!Accept, Thr!ThreadInv
  <2>3. Service!Admit(Head(backlog))
    BY <2>1, <2>2, <1>2 DEF Service!Admit, Service!Become
  <2> QED
    BY <2>2, <2>3 DEF Service!SNext
<1>4. CASE Thr!Malloc \/ Thr!CreateThread \/ Thr!CreateFails \/ Thr!Interrupted
  BY <1>1, <1>4 DEF Thr!Malloc, Thr!CreateThread, Thr!CreateFails, Thr!Interrupted
<1>5. ~Thr!AcceptError
  BY ThrDescriptorFree DEF Thr!AcceptError, ThrRuns
<1>6. ASSUME NEW t \in Thr!Ids, Thr!ThreadStep(t) PROVE [Service!SNext]_(Service!svars)
  <2>1. ~Thr!BrokenPipe(t)
    BY ThrMineIsOpen DEF Thr!BrokenPipe, Thr!At, Thr!Breaks, ThrRuns, Thr!NobodyGone
  <2>2. CASE Thr!Start(t) \/ Thr!ReadEnd(t)
    BY <1>1, <2>2 DEF Thr!Start, Thr!ReadEnd
  <2>3. CASE Thr!ReadSome(t)
    BY <2>3, <1>2 DEF Thr!ReadSome, Thr!Read, Service!svars
  <2>4. CASE Thr!WriteBack(t)
    <3>1. /\ tpc[t] = "write" /\ Thr!Mine(t) \in Conns /\ conn[Thr!Mine(t)] = "open"
          /\ echoed' = [echoed EXCEPT ![Thr!Mine(t)] = @ + n[t]]
          /\ UNCHANGED <<conn, sent>>
      BY <2>4, ThrMineIsOpen DEF Thr!WriteBack, Thr!At, Thr!Write, ThrRuns
    <3>2. n[t] \in 1 .. sent[Thr!Mine(t)] - echoed[Thr!Mine(t)]
      <4>1. /\ n[t] \in 0 .. MaxSend /\ n[t] > 0
            /\ sent[Thr!Mine(t)] \in 0 .. MaxSend /\ echoed[Thr!Mine(t)] \in 0 .. MaxSend
            /\ got[Thr!Mine(t)] \in 0 .. MaxSend
            /\ got[Thr!Mine(t)] - echoed[Thr!Mine(t)] = n[t]
            /\ got[Thr!Mine(t)] <= sent[Thr!Mine(t)]
        BY <3>1, <1>type DEF Thr!TypeOK, Thr!SockTypeOK, Thr!SockInv, Thr!ThreadInv, Thr!EchoInv
      <4> QED
        BY <4>1
    <3>3. Service!Echo(Thr!Mine(t))
      BY <3>1, <3>2, <1>2 DEF Service!Echo
    <3> QED
      BY <3>1, <3>3 DEF Service!SNext
  <2>5. CASE Thr!CloseFd(t)
    <3>1. /\ tpc[t] = "close" /\ Thr!Mine(t) \in Conns /\ conn[Thr!Mine(t)] = "open"
          /\ conn' = [conn EXCEPT ![Thr!Mine(t)] = "closed"]
          /\ UNCHANGED <<sent, echoed>>
      BY <2>5, ThrMineIsOpen DEF Thr!CloseFd, Thr!At, Thr!Close, Thr!streamVars, ThrRuns
    <3>2. cli[Thr!Mine(t)] = "fin" /\ echoed[Thr!Mine(t)] = sent[Thr!Mine(t)]
      BY <3>1 DEF Thr!ThreadInv, Thr!EchoInv, ThrRuns, Thr!NobodyGone
    <3>3. Side[Thr!Mine(t)] = "ended"
      BY <3>1, <3>2 DEF Side
    <3>4. Service!HangUp(Thr!Mine(t))
      BY <3>1, <3>2, <3>3, <1>2 DEF Service!HangUp, Service!Become
    <3> QED
      BY <3>1, <3>4 DEF Service!SNext
  <2> QED
    BY <1>6, <2>1, <2>2, <2>3, <2>4, <2>5 DEF Thr!ThreadStep
<1> QED
  BY <1>3, <1>4, <1>5, <1>6 DEF Thr!MainStep

LEMMA ThrClientStepRefines ==
  ASSUME Capacity' = Capacity, server = "thread", Healthy, Thr!SockInv, NEW c \in Conns,
         NEW listening, Thr!ClientStep(c, listening)
  PROVE  Service!SNext
<1>1. Service!Ask(c) \/ Service!Say(c) \/ Service!Leave(c, "ended")
  BY Thr!ClientSides
     DEF Healthy, Thr!Side, Side, Service!Ask, Service!Become, Service!Say, Service!Leave
<1> QED
  BY <1>1 DEF Service!SNext

(* Where no client vanishes and each may have a descriptor, the server is  *)
(* an echo service that refuses nobody.                                    *)
LEMMA ThrStepRefines ==
  ASSUME Thr!ThreadConstants, server = "thread", Healthy, Capacity' = Capacity,
         Thr!ThreadInv, ThrRuns, [Thr!Next]_(Thr!vars)
  PROVE  [Service!SNext]_(Service!svars)
<1>1. CASE UNCHANGED Thr!vars
  BY <1>1 DEF Thr!vars, Thr!sockVars, Thr!streamVars, Service!svars, Side
<1>2. CASE Thr!MainStep \/ Thr!Interrupted \/ \E t \in Thr!Ids : Thr!ThreadStep(t)
  BY <1>2, ThrServerStepRefines
<1>3. ASSUME NEW c \in Conns, Thr!ClientStep(c, mpc # "exited") PROVE Service!SNext
  BY <1>3, ThrClientStepRefines DEF Thr!ThreadInv
<1> QED
  BY <1>1, <1>2, <1>3 DEF Thr!Next

-----------------------------------------------------------------------------
(* FORK.  The inductive invariant is ForkInv.                              *)

LEMMA ForInit == For!ForkConstants /\ For!Init => For!ForkInv
<1> SUFFICES ASSUME For!ForkConstants, For!Init PROVE For!ForkInv
  OBVIOUS
<1> USE For!SocketConstants DEF For!ForkConstants, For!Init, For!SockInit
<1>1. For!TypeOK /\ For!SockInv
  <2>1. For!SockInv
    BY For!SockInitInv
  <2>2. n \in [Conns -> 0 .. MaxSend]
    OBVIOUS
  <2> QED
    BY <2>1, <2>2 DEF For!TypeOK, For!SockInv
<1>2. For!ParentInv /\ For!WaitInv /\ For!TalkInv
  BY DEF For!ParentInv, For!WaitInv, For!TalkInv
<1>3. For!HoldersAreRight /\ For!NoZombieForgotten /\ For!NothingLost
  BY DEF For!HoldersAreRight, For!NoZombieForgotten, For!NothingLost, For!Lives, For!Zombies
<1> QED
  BY <1>1, <1>2, <1>3 DEF For!ForkInv

-----------------------------------------------------------------------------
(* The clients.                                                            *)

LEMMA ForClientKeeps ==
  ASSUME For!ForkConstants, For!ForkInv, NEW c \in Conns, NEW listening,
         For!ClientStep(c, listening), UNCHANGED For!forkVars
  PROVE  For!ForkInv'
<1>same. UNCHANGED <<ppc, confd, holders, kid, n, sigchld, handler>>
  BY DEF For!forkVars
<1>1. For!SockInv
  BY DEF For!ForkInv
<1>2. For!SockInv' /\ For!SockTypeOK'
  BY <1>1, For!ClientKeepsSock DEF For!SockInv
<1>3. For!TypeOK' /\ For!ParentInv' /\ For!NoZombieForgotten'
  BY <1>2, <1>same
     DEF For!ForkInv, For!TypeOK, For!ParentInv, For!NoZombieForgotten, For!Zombies
<1>4. UNCHANGED <<got, echoed>>
  BY <1>1, For!ClientFrame
<1>5. \A d \in Conns : conn'[d] = conn[d] \/ (conn[d] = "new" /\ conn'[d] = "queued")
  BY <1>1, For!ClientFrame
<1>6. \A d \in Conns : /\ cli[d] \in {"fin", "closed", "gone"} =>
                              sent'[d] = sent[d] /\ cli'[d] \in {"fin", "closed", "gone"}
                       /\ cli[d] = "gone" => cli'[d] = "gone"
  BY <1>1, For!ClientFrame
<1>7. For!HoldersAreRight'
  BY <1>5, <1>same DEF For!ForkInv, For!HoldersAreRight, For!Lives
<1>8. For!WaitInv'
  BY <1>5, <1>same DEF For!ForkInv, For!WaitInv
<1>9. For!TalkInv'
  BY <1>4, <1>6, <1>same DEF For!ForkInv, For!TalkInv
<1>10. For!NothingLost'
  BY <1>4, <1>6, <1>same DEF For!ForkInv, For!NothingLost, For!Lives
<1> QED
  BY <1>2, <1>3, <1>7, <1>8, <1>9, <1>10 DEF For!ForkInv

-----------------------------------------------------------------------------
(* The parent.                                                             *)

LEMMA ForAcceptKeeps == ASSUME For!ForkConstants, For!ForkInv, For!Accept PROVE For!ForkInv'
<1> USE For!SocketConstants DEF For!ForkConstants
<1>type. For!TypeOK /\ For!SockTypeOK
  BY DEF For!ForkInv, For!TypeOK
<1>1. /\ ppc = "accept" /\ backlog # <<>> /\ For!Take("open") /\ ppc' = "fork"
      /\ confd' = Head(backlog)
      /\ holders' = [holders EXCEPT ![Head(backlog)] = {Parent}]
      /\ UNCHANGED <<kid, n, sigchld, handler>>
  BY DEF For!Accept, For!At
<1> DEFINE h == Head(backlog)
<1>2. /\ h \in Conns /\ conn[h] = "queued"
      /\ conn'[h] = "open" /\ \A d \in Conns : d # h => conn'[d] = conn[d]
      /\ UNCHANGED <<cli, sent, got, echoed>>
      /\ For!SockInv'
  BY <1>1, For!TakeKeepsSock DEF For!ForkInv
<1>3. kid[h] = "none"
  BY <1>2 DEF For!ForkInv, For!WaitInv
<1>4. /\ holders'[h] = {Parent} /\ \A d \in Conns : d # h => holders'[d] = holders[d]
      /\ holders' \in [Conns -> SUBSET (Conns \cup {Parent})]
  BY <1>1, <1>2, <1>type DEF For!TypeOK
<1>5. For!TypeOK'
  BY <1>1, <1>2, <1>4, <1>type DEF For!TypeOK, For!SockInv
<1>6. For!ParentInv'
  BY <1>1, <1>2, <1>3, <1>4 DEF For!ParentInv
<1>7. For!WaitInv'
  BY <1>1, <1>2 DEF For!ForkInv, For!WaitInv
<1>8. For!TalkInv' /\ For!NothingLost' /\ For!NoZombieForgotten'
  BY <1>1, <1>2
     DEF For!ForkInv, For!TalkInv, For!NothingLost, For!NoZombieForgotten, For!Lives,
         For!Zombies
<1>9. For!HoldersAreRight'
  <2>1. confd = NoConn
    BY <1>1 DEF For!ForkInv, For!ParentInv
  <2>2. \A c \in Conns : For!Lives(c)' <=> For!Lives(c)
    BY <1>1 DEF For!Lives
  <2>3. PICK first \in Conns : first = h
    BY <1>2
  <2>4. ASSUME NEW c \in Conns, c # first
        PROVE  /\ conn'[c] = "open" <=> holders'[c] # {}
               /\ For!Lives(c)' => c \in holders'[c]
               /\ \A p \in holders'[c] \ {Parent} : For!Lives(p)'
               /\ ~ForkMayFail => holders'[c] = IF For!Lives(c)' THEN {c} ELSE {}
    <3>1. /\ conn'[c] = conn[c]
          /\ holders'[c] = holders[c]
          /\ holders[c] \subseteq Conns \cup {Parent}
      BY <2>3, <2>4, <1>2, <1>4, <1>type DEF For!TypeOK
    <3>2. confd # c
      BY <2>1
    <3>3. ~ForkMayFail => holders[c] = IF For!Lives(c) THEN {c} ELSE {}
      BY <3>2 DEF For!ForkInv, For!HoldersAreRight
    <3>4. \A p \in holders[c] \ {Parent} : p \in Conns /\ For!Lives(p)
      BY <3>1 DEF For!ForkInv, For!HoldersAreRight
    <3>5. (conn[c] = "open" <=> holders[c] # {}) /\ (For!Lives(c) => c \in holders[c])
      BY DEF For!ForkInv, For!HoldersAreRight
    <3> QED
      BY <3>1, <3>3, <3>4, <3>5, <2>2
  <2>5. /\ holders'[first] = {Parent}
        /\ conn'[first] = "open"
        /\ ~For!Lives(first)'
        /\ confd' = first
    BY <2>2, <2>3, <1>1, <1>2, <1>3, <1>4 DEF For!Lives
  <2> QED
    BY <2>4, <2>5 DEF For!HoldersAreRight
<1> QED
  BY <1>2, <1>5, <1>6, <1>7, <1>8, <1>9 DEF For!ForkInv

LEMMA ForAcceptErrorKeeps ==
  ASSUME For!ForkConstants, For!ForkInv, For!AcceptError
  PROVE  For!ForkInv'
<1> USE For!SocketConstants DEF For!ForkConstants
<1>type. For!TypeOK /\ For!SockTypeOK
  BY DEF For!ForkInv, For!TypeOK
<1>1. /\ ppc = "accept" /\ ppc' = "exited"
      /\ holders' = [c \in Conns |-> holders[c] \ {Parent}]
      /\ conn' = [c \in Conns |-> IF conn[c] = "queued" \/ holders[c] = {Parent}
                                  THEN "closed" ELSE conn[c]]
      /\ backlog' = <<>>
      /\ kid' = [c \in Conns |-> IF kid[c] = "zombie" THEN "gone" ELSE kid[c]]
      /\ UNCHANGED <<cli, sent, got, echoed, confd, n, sigchld, handler>>
  BY DEF For!AcceptError, For!At, For!streamVars
<1>2. confd = NoConn
  BY <1>1 DEF For!ForkInv, For!ParentInv
<1>3. For!TypeOK'
  BY <1>1, <1>type DEF For!TypeOK, For!SockTypeOK
<1>4. For!ParentInv'
  BY <1>1, <1>2 DEF For!ParentInv
<1>5. For!SockInv' /\ For!WaitInv'
  <2>1. \A c \in Conns : \/ conn'[c] = conn[c]
                         \/ conn[c] \in {"queued", "open"} /\ conn'[c] = "closed"
    BY <1>1 DEF For!ForkInv, For!HoldersAreRight
  <2>2. conn' \in [Conns -> {"new", "queued", "open", "closed", "refused"}]
    BY <1>1, <1>type DEF For!SockTypeOK
  <2>3. For!SockInv'
    BY <2>1, <2>2, <1>1, For!EndKeepsSock DEF For!ForkInv
  <2>4. For!WaitInv'
    BY <2>1, <1>1 DEF For!ForkInv, For!WaitInv
  <2> QED
    BY <2>3, <2>4
<1>6. \A c \in Conns : /\ For!Lives(c)' <=> For!Lives(c)
                       /\ kid'[c] \in {"none", "write"} <=> kid[c] \in {"none", "write"}
                       /\ kid'[c] = "none" <=> kid[c] = "none"
                       /\ kid'[c] \in {"exit", "zombie", "gone"} => kid[c] \in {"exit", "zombie", "gone"}
  BY <1>1 DEF For!Lives
<1>7. For!TalkInv'
  BY <1>1, <1>6 DEF For!ForkInv, For!TalkInv
<1>8. For!NothingLost' /\ For!NoZombieForgotten'
  BY <1>1, <1>6 DEF For!ForkInv, For!NothingLost, For!NoZombieForgotten, For!Zombies
<1>9. For!HoldersAreRight'
  <2> SUFFICES ASSUME NEW c \in Conns
               PROVE  /\ conn'[c] = "open" <=> holders'[c] # {}
                      /\ For!Lives(c)' => c \in holders'[c]
                      /\ \A p \in holders'[c] \ {Parent} : For!Lives(p)'
                      /\ ~ForkMayFail => holders'[c] = IF For!Lives(c)' THEN {c} ELSE {}
    BY <1>1, <1>2 DEF For!HoldersAreRight
  <2>1. holders'[c] = holders[c] \ {Parent} /\ holders[c] \subseteq Conns \cup {Parent}
    BY <1>1, <1>type DEF For!TypeOK
  <2>2. conn'[c] = "open" <=> conn[c] = "open" /\ holders[c] # {Parent}
    BY <1>1
  <2>3. For!Lives(c)' => c \in holders'[c]
    BY <2>1, <1>6 DEF For!ForkInv, For!HoldersAreRight
  <2>4. \A p \in holders'[c] \ {Parent} : For!Lives(p)'
    BY <2>1, <1>6 DEF For!ForkInv, For!HoldersAreRight
  <2>5. ~ForkMayFail => holders'[c] = IF For!Lives(c)' THEN {c} ELSE {}
    BY <2>1, <1>2, <1>6 DEF For!ForkInv, For!HoldersAreRight
  <2>6. conn'[c] = "open" <=> holders'[c] # {}
    BY <2>1, <2>2 DEF For!ForkInv, For!HoldersAreRight
  <2> QED
    BY <2>3, <2>4, <2>5, <2>6
<1> QED
  BY <1>3, <1>4, <1>5, <1>7, <1>8, <1>9 DEF For!ForkInv

LEMMA ForKeeps ==
  ASSUME For!ForkConstants, For!ForkInv, For!Fork \/ For!ForkFails
  PROVE  For!ForkInv'
<1> USE For!SocketConstants DEF For!ForkConstants
<1>type. For!TypeOK /\ For!SockTypeOK
  BY DEF For!ForkInv, For!TypeOK
<1>1. /\ ppc = "fork" /\ confd \in Conns /\ Parent \in holders[confd] /\ kid[confd] = "none"
      /\ UNCHANGED <<backlog, conn, cli, sent, got, echoed, n, sigchld, handler>>
  BY DEF For!Fork, For!ForkFails, For!At, For!sockVars, For!streamVars, For!ForkInv,
         For!ParentInv
<1>2. CASE For!Fork
  <2>1. /\ kid' = [kid EXCEPT ![confd] = "read"]
        /\ holders' = [c \in Conns |-> IF Parent \in holders[c] THEN holders[c] \cup {confd}
                                       ELSE holders[c]]
        /\ ppc' = "close" /\ confd' = confd
    BY <1>2 DEF For!Fork
  <2> PICK d \in Conns : d = confd
    BY <1>1
  <2>2. kid'[d] = "read" /\ \A c \in Conns : c # d => kid'[c] = kid[c]
    BY <2>1, <1>type DEF For!TypeOK
  <2>3. \A c \in Conns : holders'[c] = IF Parent \in holders[c] THEN holders[c] \cup {d}
                                       ELSE holders[c]
    BY <2>1
  <2>4. For!TypeOK'
    <3>1. holders' \in [Conns -> SUBSET (Conns \cup {Parent})]
      BY <2>1, <1>1, <1>type DEF For!TypeOK
    <3> QED
      BY <3>1, <2>1, <1>1, <1>type DEF For!TypeOK, For!SockTypeOK
  <2>5. For!ParentInv'
    BY <2>1, <2>2, <2>3, <1>1 DEF For!ParentInv
  <2>6. conn[d] = "open"
    BY <1>1 DEF For!ForkInv, For!HoldersAreRight
  <2>7. For!SockInv' /\ For!WaitInv'
    BY <2>2, <2>6, <1>1, For!SockStutters
       DEF For!ForkInv, For!WaitInv, For!sockVars, For!streamVars
  <2>8. For!TalkInv' /\ For!NothingLost'
    <3>1. got[d] - echoed[d] = n[d]
      <4>1. kid[d] = "none" /\ got[d] = echoed[d]
        BY <1>1 DEF For!ForkInv, For!TalkInv
      <4>2. ~(n[d] > 0)
        BY <4>1 DEF For!ForkInv, For!TalkInv
      <4>3. n[d] \in 0 .. MaxSend /\ got[d] \in 0 .. MaxSend
        BY <1>type DEF For!TypeOK, For!SockTypeOK
      <4>4. MaxSend \in Nat
        BY For!SocketConstants
      <4> QED
        BY <4>1, <4>2, <4>3, <4>4
    <3>2. For!TalkInv'
      BY <2>2, <1>1 DEF For!ForkInv, For!TalkInv
    <3>3. For!NothingLost'
      BY <3>1, <2>2, <1>1 DEF For!ForkInv, For!NothingLost, For!Lives
    <3> QED
      BY <3>2, <3>3
  <2>9. For!NoZombieForgotten'
    BY <2>1, <2>2, <1>1 DEF For!ForkInv, For!NoZombieForgotten, For!Zombies
  <2>10. For!HoldersAreRight'
    <3>1. \A c \in Conns : For!Lives(c)' <=> For!Lives(c) \/ c = d
      BY <2>2 DEF For!Lives
    <3>2. ~For!Lives(d) /\ Parent # d
      BY <1>1 DEF For!Lives
    <3>3. ASSUME NEW c \in Conns
          PROVE  /\ conn'[c] = "open" <=> holders'[c] # {}
                 /\ For!Lives(c)' => c \in holders'[c]
                 /\ \A p \in holders'[c] \ {Parent} : For!Lives(p)'
      <4>1. holders[c] \subseteq Conns \cup {Parent}
        BY <1>type DEF For!TypeOK
      <4>2. holders'[c] = holders[c] \/ holders'[c] = holders[c] \cup {d}
        BY <2>3
      <4>3. conn'[c] = "open" <=> holders'[c] # {}
        BY <2>3, <1>1 DEF For!ForkInv, For!HoldersAreRight
      <4>4. For!Lives(c)' => c \in holders'[c]
        BY <4>2, <3>1, <2>3, <1>1 DEF For!ForkInv, For!HoldersAreRight
      <4>5. \A p \in holders'[c] \ {Parent} : For!Lives(p)'
        <5> TAKE p \in holders'[c] \ {Parent}
        <5>1. p \in Conns /\ (p \in holders[c] \ {Parent} \/ p = d)
          BY <4>1, <4>2
        <5> QED
          BY <5>1, <3>1 DEF For!ForkInv, For!HoldersAreRight
      <4> QED
        BY <4>3, <4>4, <4>5
    <3>4. ASSUME NEW c \in Conns, ~ForkMayFail
          PROVE  holders'[c] = (IF For!Lives(c)' THEN {c} ELSE {})
                                 \cup (IF confd' = c THEN {Parent} ELSE {})
      <4>1. holders[c] = (IF For!Lives(c) THEN {c} ELSE {})
                           \cup (IF d = c THEN {Parent} ELSE {})
        BY <3>4 DEF For!ForkInv, For!HoldersAreRight
      <4>2. CASE c = d
        BY <4>1, <4>2, <3>1, <3>2, <2>1, <2>3
      <4>3. CASE c # d
        BY <4>1, <4>3, <3>1, <3>2, <2>1, <2>3
      <4> QED
        BY <4>2, <4>3
    <3> QED
      BY <3>3, <3>4 DEF For!HoldersAreRight
  <2> QED
    BY <2>4, <2>5, <2>7, <2>8, <2>9, <2>10 DEF For!ForkInv
<1>3. CASE For!ForkFails
  <2>1. /\ ForkMayFail
        /\ ppc' = "accept" /\ confd' = NoConn
        /\ UNCHANGED <<holders, kid>>
    BY <1>3 DEF For!ForkFails
  <2>2. For!TypeOK'
    BY <2>1, <1>1, <1>type DEF For!TypeOK, For!SockTypeOK
  <2>3. For!SockInv' /\ For!ParentInv' /\ For!WaitInv' /\ For!TalkInv'
    BY <2>1, <1>1, For!SockStutters
       DEF For!ForkInv, For!ParentInv, For!WaitInv, For!TalkInv, For!sockVars, For!streamVars
  <2>4. For!HoldersAreRight'
    BY <2>1, <1>1 DEF For!ForkInv, For!HoldersAreRight, For!Lives
  <2>5. For!NothingLost' /\ For!NoZombieForgotten'
    BY <2>1, <1>1
       DEF For!ForkInv, For!NothingLost, For!NoZombieForgotten, For!Lives, For!Zombies
  <2> QED
    BY <2>2, <2>3, <2>4, <2>5 DEF For!ForkInv
<1> QED
  BY <1>2, <1>3

LEMMA ForCloseKeeps == ASSUME For!ForkConstants, For!ForkInv, For!ParentCloses PROVE For!ForkInv'
<1> USE For!SocketConstants DEF For!ForkConstants
<1>type. For!TypeOK /\ For!SockTypeOK
  BY DEF For!ForkInv, For!TypeOK
<1>1. /\ ppc = "close" /\ confd \in Conns /\ kid[confd] # "none"
      /\ holders' = [c \in Conns |-> IF c \in {confd} THEN holders[c] \ {Parent} ELSE holders[c]]
      /\ conn' = [c \in Conns |-> IF c \in {confd} /\ holders[c] = {Parent} THEN "closed"
                                  ELSE conn[c]]
      /\ ppc' = "accept" /\ confd' = NoConn
      /\ UNCHANGED <<backlog, cli, sent, got, echoed, kid, n, sigchld, handler>>
  BY DEF For!ParentCloses, For!At, For!Drop, For!streamVars, For!ForkInv, For!ParentInv
<1> PICK d \in Conns : d = confd
  BY <1>1
<1>2. /\ holders'[d] = holders[d] \ {Parent}
      /\ conn'[d] = IF holders[d] = {Parent} THEN "closed" ELSE conn[d]
      /\ \A c \in Conns : c # d => holders'[c] = holders[c] /\ conn'[c] = conn[c]
  BY <1>1
<1>3. conn[d] = "open"
  BY <1>1 DEF For!ForkInv, For!ParentInv, For!HoldersAreRight
<1>4. For!TypeOK'
  <2>1. /\ holders' \in [Conns -> SUBSET (Conns \cup {Parent})]
        /\ conn' \in [Conns -> {"new", "queued", "open", "closed", "refused"}]
    BY <1>1, <1>type DEF For!TypeOK, For!SockTypeOK
  <2> QED
    BY <2>1, <1>1, <1>type DEF For!TypeOK, For!SockTypeOK
<1>5. For!ParentInv' /\ For!TalkInv' /\ For!NothingLost' /\ For!NoZombieForgotten'
  BY <1>1
     DEF For!ForkInv, For!ParentInv, For!TalkInv, For!NothingLost, For!NoZombieForgotten,
         For!Lives, For!Zombies
<1>6. For!SockInv' /\ For!WaitInv'
  <2>1. \A c \in Conns : conn'[c] = conn[c] \/ (conn[c] = "open" /\ conn'[c] = "closed")
    BY <1>2, <1>3
  <2>2. For!SockInv'
    BY <2>1, <1>1, <1>4, For!EndKeepsSock DEF For!ForkInv, For!TypeOK, For!SockTypeOK
  <2>3. For!WaitInv'
    BY <2>1, <1>1 DEF For!ForkInv, For!WaitInv
  <2> QED
    BY <2>2, <2>3
<1>7. For!HoldersAreRight'
  <2>1. \A c \in Conns : For!Lives(c)' <=> For!Lives(c)
    BY <1>1 DEF For!Lives
  <2>2. holders[d] \subseteq Conns \cup {Parent}
    BY <1>type DEF For!TypeOK
  <2>3. ASSUME NEW c \in Conns, c # d
        PROVE  /\ conn'[c] = "open" <=> holders'[c] # {}
               /\ For!Lives(c)' => c \in holders'[c]
               /\ \A p \in holders'[c] \ {Parent} : For!Lives(p)'
               /\ ~ForkMayFail => holders'[c] = IF For!Lives(c)' THEN {c} ELSE {}
    <3>1. holders[c] \subseteq Conns \cup {Parent}
      BY <1>type DEF For!TypeOK
    <3>2. /\ holders'[c] = holders[c] /\ conn'[c] = conn[c] /\ confd # c
      BY <2>3, <1>2
    <3>3. ~ForkMayFail => holders[c] = IF For!Lives(c) THEN {c} ELSE {}
      BY <3>2 DEF For!ForkInv, For!HoldersAreRight
    <3>4. \A p \in holders[c] \ {Parent} : p \in Conns /\ For!Lives(p)
      BY <3>1 DEF For!ForkInv, For!HoldersAreRight
    <3>5. (conn[c] = "open" <=> holders[c] # {}) /\ (For!Lives(c) => c \in holders[c])
      BY DEF For!ForkInv, For!HoldersAreRight
    <3> QED
      BY <3>2, <3>3, <3>4, <3>5, <2>1
  <2>4. /\ conn'[d] = "open" <=> holders'[d] # {}
        /\ For!Lives(d)' => d \in holders'[d]
        /\ \A p \in holders'[d] \ {Parent} : For!Lives(p)'
        /\ ~ForkMayFail => holders'[d] = IF For!Lives(d)' THEN {d} ELSE {}
    <3>1. conn'[d] = "open" <=> holders'[d] # {}
      BY <1>1, <1>2, <1>3 DEF For!ForkInv, For!ParentInv
    <3>2. For!Lives(d)' => d \in holders'[d]
      BY <2>1, <1>2 DEF For!ForkInv, For!HoldersAreRight
    <3>3. \A p \in holders'[d] \ {Parent} : For!Lives(p)'
      BY <2>1, <2>2, <1>2 DEF For!ForkInv, For!HoldersAreRight
    <3>4. ~ForkMayFail => holders'[d] = IF For!Lives(d)' THEN {d} ELSE {}
      BY <2>1, <1>2 DEF For!ForkInv, For!HoldersAreRight
    <3> QED
      BY <3>1, <3>2, <3>3, <3>4
  <2>5. ASSUME NEW c \in Conns
        PROVE  /\ conn'[c] = "open" <=> holders'[c] # {}
               /\ For!Lives(c)' => c \in holders'[c]
               /\ \A p \in holders'[c] \ {Parent} : For!Lives(p)'
               /\ ~ForkMayFail =>
                     holders'[c] = (IF For!Lives(c)' THEN {c} ELSE {})
                                     \cup (IF confd' = c THEN {Parent} ELSE {})
    <3>1. confd' # c
      BY <1>1
    <3>2. CASE c = d
      BY <2>4, <3>1, <3>2
    <3>3. CASE c # d
      BY <2>3, <3>1, <3>3
    <3> QED
      BY <3>2, <3>3
  <2> QED
    BY <2>5 DEF For!HoldersAreRight
<1> QED
  BY <1>4, <1>5, <1>6, <1>7 DEF For!ForkInv

(* The handler changes children that have exited, and nothing else.        *)
LEMMA ForHandlerKeeps ==
  ASSUME For!ForkConstants, For!ForkInv, For!Signal \/ For!Reap \/ For!HandlerEnds
  PROVE  For!ForkInv'
<1> USE For!SocketConstants DEF For!ForkConstants
<1>type. For!TypeOK /\ For!SockTypeOK
  BY DEF For!ForkInv, For!TypeOK
<1>1. UNCHANGED <<backlog, conn, cli, sent, got, echoed, ppc, confd, holders, n>>
  BY DEF For!Signal, For!Reap, For!HandlerEnds, For!sockVars, For!streamVars
<1>2. \A c \in Conns : kid'[c] = kid[c] \/ (kid[c] = "zombie" /\ kid'[c] = "gone")
  BY <1>type DEF For!Signal, For!Reap, For!HandlerEnds, For!Zombies, For!TypeOK
<1>3. For!TypeOK'
  <2>1. /\ kid' \in [Conns -> {"none", "read", "write", "exit", "zombie", "gone"}]
        /\ sigchld' \in BOOLEAN /\ handler' \in BOOLEAN
    BY <1>type DEF For!Signal, For!Reap, For!HandlerEnds, For!TypeOK
  <2> QED
    BY <2>1, <1>1, <1>type DEF For!TypeOK, For!SockTypeOK
<1>4. For!ParentInv'
  BY <1>1, <1>2 DEF For!ForkInv, For!ParentInv
<1>5. For!SockInv' /\ For!WaitInv' /\ For!TalkInv'
  BY <1>1, <1>2, For!SockStutters
     DEF For!ForkInv, For!WaitInv, For!TalkInv, For!sockVars, For!streamVars
<1>6. \A c \in Conns : For!Lives(c)' <=> For!Lives(c)
  BY <1>2 DEF For!Lives
<1>7. For!NothingLost'
  BY <1>1, <1>6 DEF For!ForkInv, For!NothingLost
<1>8. For!HoldersAreRight'
  <2>1. \A c \in Conns : holders[c] \subseteq Conns \cup {Parent}
    BY <1>type DEF For!TypeOK
  <2> QED
    BY <2>1, <1>1, <1>6 DEF For!ForkInv, For!HoldersAreRight
<1>9. For!NoZombieForgotten'
  <2>1. CASE For!Signal
    BY <2>1 DEF For!Signal, For!NoZombieForgotten, For!Zombies
  <2>2. CASE For!Reap
    BY <2>2 DEF For!Reap, For!ForkInv, For!NoZombieForgotten, For!Zombies
  <2>3. CASE For!HandlerEnds
    BY <2>3 DEF For!HandlerEnds, For!NoZombieForgotten, For!Zombies
  <2> QED
    BY <2>1, <2>2, <2>3
<1> QED
  BY <1>3, <1>4, <1>5, <1>7, <1>8, <1>9 DEF For!ForkInv
-----------------------------------------------------------------------------
(* The children.                                                           *)

(* The loop of a child, which changes no descriptor.                       *)
LEMMA ForLoopKeeps ==
  ASSUME For!ForkConstants, For!ForkInv, NEW c \in Conns,
         For!ReadSome(c) \/ For!WriteBack(c) \/ For!ReadEnd(c)
  PROVE  For!ForkInv'
<1> USE For!SocketConstants DEF For!ForkConstants
<1>type. For!TypeOK /\ For!SockTypeOK
  BY DEF For!ForkInv, For!TypeOK
<1>1. UNCHANGED <<backlog, conn, cli, sent, ppc, confd, holders, sigchld, handler>>
  BY DEF For!ReadSome, For!WriteBack, For!ReadEnd, For!Read, For!Write, For!sockVars,
         For!streamVars
<1>2. /\ kid[c] \in {"read", "write"} /\ kid'[c] \in {"read", "write", "exit"}
      /\ kid' = [kid EXCEPT ![c] = kid'[c]]
      /\ \A d \in Conns : d # c => kid'[d] = kid[d]
  BY <1>type DEF For!ReadSome, For!WriteBack, For!ReadEnd, For!TypeOK
<1>3. \A d \in Conns : /\ For!Lives(d)' <=> For!Lives(d)
                       /\ kid'[d] = "none" <=> kid[d] = "none"
                       /\ kid'[d] = "zombie" <=> kid[d] = "zombie"
  BY <1>2 DEF For!Lives
<1>4. For!ParentInv' /\ For!WaitInv' /\ For!NoZombieForgotten'
  <2>1. For!ParentInv'
    BY <1>1, <1>3 DEF For!ForkInv, For!ParentInv
  <2>2. For!WaitInv'
    BY <1>1, <1>3 DEF For!ForkInv, For!WaitInv
  <2>3. For!NoZombieForgotten'
    BY <1>1, <1>3 DEF For!ForkInv, For!NoZombieForgotten, For!Zombies
  <2> QED
    BY <2>1, <2>2, <2>3
<1>5. For!HoldersAreRight'
  <2>1. \A d \in Conns : \A p \in holders[d] \ {Parent} : p \in Conns
    BY <1>type DEF For!TypeOK
  <2> QED
    BY <2>1, <1>1, <1>3 DEF For!ForkInv, For!HoldersAreRight
<1>nat. /\ got[c] \in Nat /\ echoed[c] \in Nat /\ n[c] \in 0 .. MaxSend
        /\ got[c] - echoed[c] = n[c] /\ (n[c] > 0 <=> kid[c] = "write")
  BY <1>2, <1>type
     DEF For!ForkInv, For!TalkInv, For!NothingLost, For!Lives, For!TypeOK, For!SockTypeOK
<1>6. CASE For!ReadSome(c)
  <2>1. PICK k \in 1 .. MaxSend : For!Read(c, k) /\ n' = [n EXCEPT ![c] = k]
    BY <1>6 DEF For!ReadSome
  <2>2. kid[c] = "read" /\ kid'[c] = "write"
    BY <1>6, <1>type DEF For!ReadSome, For!TypeOK
  <2>3. /\ got'[c] = got[c] + k /\ \A d \in Conns : d # c => got'[d] = got[d]
        /\ UNCHANGED echoed /\ For!SockInv'
    BY <2>1, For!ReadKeepsSock DEF For!ForkInv
  <2>4. got'[c] - echoed[c] = k /\ k > 0
    BY <2>1, <2>2, <2>3, <1>nat
  <2>5. n'[c] = k /\ \A d \in Conns : d # c => n'[d] = n[d]
    BY <2>1, <1>type DEF For!TypeOK
  <2>6. For!TypeOK'
    BY <2>1, <2>2, <2>3, <1>1, <1>2, <1>type DEF For!TypeOK, For!SockInv
  <2>7. ASSUME NEW d \in Conns
        PROVE  /\ kid'[d] = "none" => got'[d] = echoed[d]
               /\ n'[d] > 0 <=> kid'[d] = "write"
               /\ kid'[d] \in {"exit", "zombie", "gone"} =>
                     \/ cli[d] = "gone"
                     \/ cli[d] \in {"fin", "closed"} /\ echoed[d] = sent[d]
               /\ \/ got'[d] - echoed[d] = n'[d]
                  \/ cli[d] = "gone" /\ ~For!Lives(d)
    <3>1. CASE d = c
      BY <3>1, <2>2, <2>4, <2>5
    <3>2. CASE d # c
      BY <3>2, <2>3, <2>5, <1>2 DEF For!ForkInv, For!TalkInv, For!NothingLost
    <3> QED
      BY <3>1, <3>2
  <2> QED
    BY <2>3, <2>6, <2>7, <1>1, <1>3, <1>4, <1>5 DEF For!ForkInv, For!TalkInv, For!NothingLost
<1>7. CASE For!WriteBack(c)
  <2>1. /\ kid[c] = "write" /\ kid'[c] = "read" /\ For!Write(c, n[c])
        /\ n' = [n EXCEPT ![c] = 0]
    BY <1>7, <1>type DEF For!WriteBack, For!TypeOK
  <2>2. /\ echoed'[c] = got[c] /\ \A d \in Conns : d # c => echoed'[d] = echoed[d]
        /\ UNCHANGED got /\ For!SockInv'
    BY <2>1, <1>nat, For!WriteKeepsSock DEF For!ForkInv
  <2>3. n'[c] = 0 /\ \A d \in Conns : d # c => n'[d] = n[d]
    BY <2>1, <1>type DEF For!TypeOK
  <2>4. For!TypeOK'
    BY <2>1, <2>2, <1>1, <1>2, <1>type DEF For!TypeOK, For!SockInv
  <2>5. ASSUME NEW d \in Conns
        PROVE  /\ kid'[d] = "none" => got[d] = echoed'[d]
               /\ n'[d] > 0 <=> kid'[d] = "write"
               /\ kid'[d] \in {"exit", "zombie", "gone"} =>
                     \/ cli[d] = "gone"
                     \/ cli[d] \in {"fin", "closed"} /\ echoed'[d] = sent[d]
               /\ \/ got[d] - echoed'[d] = n'[d]
                  \/ cli[d] = "gone" /\ ~For!Lives(d)
    <3>1. CASE d = c
      BY <3>1, <2>1, <2>2, <2>3, <1>nat
    <3>2. CASE d # c
      BY <3>2, <2>2, <2>3, <1>2 DEF For!ForkInv, For!TalkInv, For!NothingLost
    <3> QED
      BY <3>1, <3>2
  <2> QED
    BY <2>2, <2>4, <2>5, <1>1, <1>3, <1>4, <1>5 DEF For!ForkInv, For!TalkInv, For!NothingLost
<1>8. CASE For!ReadEnd(c)
  <2>1. /\ kid[c] = "read" /\ kid'[c] = "exit" /\ For!AtEnd(c)
        /\ UNCHANGED <<got, echoed, n>>
    BY <1>8, <1>type DEF For!ReadEnd, For!TypeOK, For!sockVars, For!streamVars
  <2>2. got[c] = echoed[c] /\ n[c] = 0
    BY <2>1, <1>nat
  <2>3. (sent[c] - got[c] = 0 /\ cli[c] \in {"fin", "gone"}) \/ cli[c] = "gone"
    BY <2>1 DEF For!AtEnd, For!Unread
  <2>4. (cli[c] = "fin" /\ echoed[c] = sent[c]) \/ cli[c] = "gone"
    <3>1. sent[c] \in Nat
      BY <1>type DEF For!SockTypeOK
    <3> QED
      BY <3>1, <2>2, <2>3, <1>nat
  <2>5. For!TypeOK'
    BY <2>1, <1>1, <1>2, <1>type DEF For!TypeOK, For!SockTypeOK
  <2>6. For!TalkInv'
    BY <2>1, <2>2, <2>4, <1>1, <1>2 DEF For!ForkInv, For!TalkInv
  <2>7. For!NothingLost' /\ For!SockInv'
    BY <2>1, <1>1, <1>3, For!SockStutters
       DEF For!ForkInv, For!NothingLost, For!sockVars, For!streamVars
  <2> QED
    BY <2>5, <2>6, <2>7, <1>4, <1>5 DEF For!ForkInv
<1> QED
  BY <1>6, <1>7, <1>8

(* A child that exits gives up every descriptor it has.                    *)
LEMMA ForExitKeeps ==
  ASSUME For!ForkConstants, For!ForkInv, NEW c \in Conns, For!ChildExits(c)
  PROVE  For!ForkInv'
<1> USE For!SocketConstants DEF For!ForkConstants
<1>type. For!TypeOK /\ For!SockTypeOK
  BY DEF For!ForkInv, For!TypeOK
<1>1. /\ kid[c] = "exit" \/ (kid[c] = "write" /\ cli[c] = "gone")
      /\ holders' = [d \in Conns |-> IF d \in For!HeldBy(c) THEN holders[d] \ {c} ELSE holders[d]]
      /\ conn' = [d \in Conns |-> IF d \in For!HeldBy(c) /\ holders[d] = {c} THEN "closed" ELSE conn[d]]
      /\ kid' = [kid EXCEPT ![c] = IF ppc = "exited" THEN "gone" ELSE "zombie"]
      /\ sigchld' = (ppc # "exited")
      /\ n' = [n EXCEPT ![c] = 0]
      /\ UNCHANGED <<backlog, cli, sent, got, echoed, ppc, confd, handler>>
  BY DEF For!ChildExits, For!Drop, For!Breaks, For!streamVars
<1>2. \A d \in Conns : /\ holders'[d] = holders[d] \ {c}
                       /\ conn'[d] = IF holders[d] = {c} THEN "closed" ELSE conn[d]
  BY <1>1, <1>type DEF For!HeldBy, For!TypeOK
<1>3. /\ kid'[c] \in {"zombie", "gone"} /\ (ppc = "exited" => kid'[c] = "gone")
      /\ n'[c] = 0
      /\ \A d \in Conns : d # c => kid'[d] = kid[d] /\ n'[d] = n[d]
  BY <1>1, <1>type DEF For!TypeOK
<1>4. \A d \in Conns : For!Lives(d)' <=> For!Lives(d) /\ d # c
  BY <1>3 DEF For!Lives
<1>5. \A d \in Conns : conn'[d] = conn[d] \/ (conn[d] = "open" /\ conn'[d] = "closed")
  BY <1>2 DEF For!ForkInv, For!HoldersAreRight
<1>6. Parent # c /\ For!Lives(c)
  BY <1>1 DEF For!Lives
<1>7. For!TypeOK'
  <2>1. /\ holders' \in [Conns -> SUBSET (Conns \cup {Parent})]
        /\ conn' \in [Conns -> {"new", "queued", "open", "closed", "refused"}]
    BY <1>1, <1>type DEF For!TypeOK, For!SockTypeOK
  <2>2. /\ kid' \in [Conns -> {"none", "read", "write", "exit", "zombie", "gone"}]
        /\ n' \in [Conns -> 0 .. MaxSend]
        /\ sigchld' \in BOOLEAN
    BY <1>1, <1>type DEF For!TypeOK
  <2> QED
    BY <2>1, <2>2, <1>1, <1>type DEF For!TypeOK, For!SockTypeOK
<1>8. For!ParentInv'
  <2>1. \A d \in Conns : /\ Parent \in holders'[d] <=> Parent \in holders[d]
                         /\ kid'[d] = "none" <=> kid[d] = "none"
    BY <1>1, <1>2, <1>3, <1>6
  <2> QED
    BY <2>1, <1>1 DEF For!ForkInv, For!ParentInv
<1>9. For!SockInv' /\ For!WaitInv'
  <2>1. \A d \in Conns : kid[d] = "none" => kid'[d] = "none"
    BY <1>1, <1>3
  <2>2. For!SockInv'
    BY <1>1, <1>5, <1>7, For!EndKeepsSock DEF For!ForkInv, For!TypeOK, For!SockTypeOK
  <2>3. For!WaitInv'
    BY <2>1, <1>5 DEF For!ForkInv, For!WaitInv
  <2> QED
    BY <2>2, <2>3
<1>10. For!TalkInv'
  BY <1>1, <1>3 DEF For!ForkInv, For!TalkInv
<1>11. For!NothingLost'
  <2>1. got[c] - echoed[c] = n'[c] \/ cli[c] = "gone"
    <3>1. CASE kid[c] = "exit"
      <4>1. n[c] \in Nat /\ ~(n[c] > 0)
        BY <3>1, <1>type DEF For!ForkInv, For!TalkInv, For!TypeOK
      <4>2. got[c] - echoed[c] = n[c]
        BY <1>6 DEF For!ForkInv, For!NothingLost
      <4> QED
        BY <4>1, <4>2, <1>3
    <3> QED
      BY <3>1, <1>1
  <2> QED
    BY <2>1, <1>1, <1>3, <1>4 DEF For!ForkInv, For!NothingLost
<1>12. For!NoZombieForgotten'
  BY <1>1, <1>3 DEF For!ForkInv, For!NoZombieForgotten, For!Zombies
<1>13. For!HoldersAreRight'
  <2> SUFFICES ASSUME NEW d \in Conns
               PROVE  /\ conn'[d] = "open" <=> holders'[d] # {}
                      /\ For!Lives(d)' => d \in holders'[d]
                      /\ \A p \in holders'[d] \ {Parent} : For!Lives(p)'
                      /\ ~ForkMayFail =>
                           holders'[d] = (IF For!Lives(d)' THEN {d} ELSE {})
                                           \cup (IF confd' = d THEN {Parent} ELSE {})
    BY DEF For!HoldersAreRight
  <2>1. holders[d] \subseteq Conns \cup {Parent}
    BY <1>type DEF For!TypeOK
  <2>2. conn'[d] = "open" <=> holders'[d] # {}
    BY <1>2 DEF For!ForkInv, For!HoldersAreRight
  <2>3. For!Lives(d)' => d \in holders'[d]
    BY <1>2, <1>4 DEF For!ForkInv, For!HoldersAreRight
  <2>4. \A p \in holders'[d] \ {Parent} : For!Lives(p)'
    BY <2>1, <1>2, <1>4 DEF For!ForkInv, For!HoldersAreRight
  <2>5. ASSUME ~ForkMayFail
        PROVE  holders'[d] = (IF For!Lives(d)' THEN {d} ELSE {})
                               \cup (IF confd = d THEN {Parent} ELSE {})
    <3>1. holders[d] = (IF For!Lives(d) THEN {d} ELSE {}) \cup (IF confd = d THEN {Parent} ELSE {})
      BY <2>5 DEF For!ForkInv, For!HoldersAreRight
    <3>2. CASE d = c
      BY <3>1, <3>2, <1>2, <1>4, <1>6
    <3>3. CASE d # c
      BY <3>1, <3>3, <1>2, <1>4, <1>6
    <3> QED
      BY <3>2, <3>3
  <2> QED
    BY <2>2, <2>3, <2>4, <2>5, <1>1
<1> QED
  BY <1>7, <1>8, <1>9, <1>10, <1>11, <1>12, <1>13 DEF For!ForkInv

LEMMA ForStepKeeps == For!ForkConstants /\ For!ForkInv /\ [For!Next]_(For!vars) => For!ForkInv'
<1> SUFFICES ASSUME For!ForkConstants, For!ForkInv, [For!Next]_(For!vars) PROVE For!ForkInv'
  OBVIOUS
<1>1. CASE UNCHANGED For!vars
  <2>1. For!SockInv' /\ For!SockTypeOK'
    BY <1>1, For!SockStutters DEF For!vars, For!ForkInv, For!SockInv
  <2>2. UNCHANGED For!forkVars /\ UNCHANGED <<conn, cli, sent, got, echoed>>
    BY <1>1 DEF For!vars, For!sockVars, For!streamVars
  <2> QED
    BY <2>1, <2>2
       DEF For!forkVars, For!ForkInv, For!TypeOK, For!ParentInv, For!WaitInv, For!TalkInv,
           For!HoldersAreRight, For!NoZombieForgotten, For!NothingLost, For!Lives, For!Zombies
<1>2. CASE For!ParentStep
  BY <1>2, ForAcceptKeeps, ForAcceptErrorKeeps, ForKeeps, ForCloseKeeps, ForHandlerKeeps
     DEF For!ParentStep
<1>3. ASSUME NEW c \in Conns, For!ChildStep(c) PROVE For!ForkInv'
  BY <1>3, ForLoopKeeps, ForExitKeeps DEF For!ChildStep
<1>4. ASSUME NEW c \in Conns, For!ClientStep(c, ppc # "exited"), UNCHANGED For!forkVars
      PROVE  For!ForkInv'
  BY <1>4, ForClientKeeps
<1> QED
  BY <1>1, <1>2, <1>3, <1>4 DEF For!Next


(* No copy of a descriptor is left over that would keep a client waiting   *)
(* for its FIN, no child serves a connection it does not hold, and however *)
(* SIGCHLDs merge, a zombie has a handler that is still to see it: clients *)
(* vanish, forks fail, descriptors run out and the parent ends before its  *)
(* children (dd.cpp:19-108).                                               *)
THEOREM ForkServerIsRight ==
  For!Spec => [](/\ For!TypeOK /\ For!HoldersAreRight /\ For!NoZombieForgotten
                 /\ For!NothingLost)
<1>1. For!ForkConstants
  BY ConcurrentConstants
<1>2. For!Init => For!ForkInv
  BY <1>1, ForInit
<1>3. For!ForkInv /\ [For!Next]_(For!vars) => For!ForkInv'
  BY <1>1, ForStepKeeps
<1>4. For!ForkInv => /\ For!TypeOK /\ For!HoldersAreRight /\ For!NoZombieForgotten
                     /\ For!NothingLost
  BY DEF For!ForkInv
<1> QED
  BY <1>2, <1>3, <1>4, PTL DEF For!Spec

-----------------------------------------------------------------------------
(* The refinement.                                                         *)

(* The parent has only the connection it is forking for, so an accept      *)
(* never lacks a descriptor.                                               *)
LEMMA ForParentHasRoom ==
  ASSUME For!ForkConstants, server = "fork", Healthy, For!ForkInv
  PROVE  ~For!AcceptError
<1> USE For!SocketConstants DEF For!ForkConstants
<1> SUFFICES ASSUME For!AcceptError PROVE FALSE
  OBVIOUS
<1>1. confd = NoConn
  BY DEF For!AcceptError, For!At, For!ForkInv, For!ParentInv
<1>2. \A c \in Conns : Parent \notin holders[c]
  BY <1>1 DEF For!ForkInv, For!HoldersAreRight, Healthy
<1>3. For!HeldBy(Parent) = {}
  BY <1>2 DEF For!HeldBy
<1>4. For!Cardinality(For!HeldBy(Parent)) = 0
  BY <1>3, For!FS_EmptySet
<1>5. FdLimit \in Nat /\ FdLimit > 1
  BY EventLoopConstants DEF Sel!SelectConstants, Healthy
<1> QED
  BY <1>4, <1>5 DEF For!AcceptError

ForRuns == ppc # "exited" /\ For!NobodyGone

LEMMA ForStillRuns ==
  ASSUME For!ForkConstants, server = "fork", Healthy, For!ForkInv, ForRuns,
         [For!Next]_(For!vars)
  PROVE  ForRuns'
<1> USE For!SocketConstants DEF For!ForkConstants
<1>type. For!TypeOK /\ For!SockTypeOK
  BY DEF For!ForkInv, For!TypeOK
<1>1. CASE UNCHANGED For!vars
  BY <1>1 DEF For!vars, For!sockVars, For!forkVars, ForRuns, For!NobodyGone
<1>2. CASE For!ParentStep
  <2>1. ~For!AcceptError
    BY ForParentHasRoom
  <2> QED
    BY <1>2, <2>1
       DEF For!ParentStep, For!Accept, For!Fork, For!ForkFails, For!ParentCloses, For!Signal,
           For!Reap, For!HandlerEnds, For!Take, For!Drop, For!sockVars, ForRuns, For!NobodyGone
<1>3. ASSUME NEW c \in Conns, For!ChildStep(c) PROVE ForRuns'
  BY <1>3
     DEF For!ChildStep, For!ReadSome, For!WriteBack, For!ReadEnd, For!ChildExits, For!Read,
         For!Write, For!Drop, For!sockVars, ForRuns, For!NobodyGone
<1>4. ASSUME NEW c \in Conns, For!ClientStep(c, ppc # "exited"), UNCHANGED For!forkVars
      PROVE  ForRuns'
  BY <1>4, <1>type, For!NobodyGoes DEF For!forkVars, ForRuns, Healthy
<1> QED
  BY <1>1, <1>2, <1>3, <1>4 DEF For!Next

LEMMA ForInitRefines ==
  ASSUME server = "fork", Healthy, For!Init
  PROVE  Service!SInit /\ ForRuns
<1>1. Side = [c \in Conns |-> "on"]
  BY For!SockInitInv DEF For!Init, For!Side, Side
<1>2. Capacity \in Nat \ {0}
  BY FS_CardinalityType DEF Healthy, Capacity
<1> QED
  BY <1>1, <1>2 DEF For!Init, For!SockInit, Service!SInit, ForRuns, For!NobodyGone

(* A connection ends with the last copy of its descriptor, and when that is*)
(* closed its conversation is over.                                        *)
LEMMA ForLastCopy ==
  ASSUME server = "fork", Capacity' = Capacity, For!ForkConstants, For!ForkInv, ForRuns,
         NEW c \in Conns, kid[c] \in {"exit", "zombie", "gone"},
         conn[c] = "open", conn' = [conn EXCEPT ![c] = "closed"],
         UNCHANGED <<sent, echoed, Side>>
  PROVE  Service!SNext
<1>1. cli[c] \in {"fin", "closed"} /\ echoed[c] = sent[c]
  BY DEF For!ForkInv, For!TalkInv, ForRuns, For!NobodyGone
<1>2. Side[c] = "ended"
  BY <1>1 DEF Side
<1>3. Service!HangUp(c)
  BY <1>1, <1>2 DEF Service!HangUp, Service!Become
<1> QED
  BY <1>3 DEF Service!SNext

LEMMA ForParentStepRefines ==
  ASSUME Capacity' = Capacity, For!ForkConstants, server = "fork", Healthy, For!ForkInv,
         ForRuns, For!ParentStep
  PROVE  [Service!SNext]_(Service!svars)
<1> USE For!SocketConstants DEF For!ForkConstants
<1>type. For!TypeOK /\ For!SockTypeOK
  BY DEF For!ForkInv, For!TypeOK
<1>1. CASE For!Accept
  <2>1. /\ Head(backlog) \in Conns /\ conn[Head(backlog)] = "queued"
        /\ conn' = [conn EXCEPT ![Head(backlog)] = "open"]
        /\ UNCHANGED <<cli, sent, echoed>>
    BY <1>1, For!TakeKeepsSock DEF For!Accept, For!ForkInv
  <2>2. Side' = Side
    BY <2>1 DEF Side
  <2>3. Service!Admit(Head(backlog))
    BY <2>1, <2>2 DEF Service!Admit, Service!Become
  <2> QED
    BY <2>1, <2>3 DEF Service!SNext
<1>2. CASE For!Fork \/ For!ForkFails \/ For!Signal \/ For!Reap \/ For!HandlerEnds
  <2>1. UNCHANGED For!sockVars
    BY <1>2 DEF For!Fork, For!ForkFails, For!Signal, For!Reap, For!HandlerEnds
  <2> QED
    BY <2>1 DEF For!sockVars, For!streamVars, Service!svars, Side
<1>3. CASE For!ParentCloses
  <2>1. /\ ppc = "close" /\ confd \in Conns /\ kid[confd] # "none" /\ Parent \in holders[confd]
        /\ conn' = [c \in Conns |-> IF c \in {confd} /\ holders[c] = {Parent} THEN "closed"
                                    ELSE conn[c]]
        /\ UNCHANGED <<cli, sent, echoed>>
    BY <1>3 DEF For!ParentCloses, For!At, For!Drop, For!streamVars, For!ForkInv, For!ParentInv
  <2>2. Side' = Side
    BY <2>1 DEF Side
  <2> PICK c \in Conns : c = confd
    BY <2>1
  <2>3. CASE holders[c] = {Parent}
    <3>1. conn' = [conn EXCEPT ![c] = "closed"] /\ conn[c] = "open"
      <4>1. conn[c] = "open"
        BY <2>3 DEF For!ForkInv, For!HoldersAreRight
      <4>2. conn' = [d \in Conns |-> IF d = c THEN "closed" ELSE conn[d]]
        BY <2>1, <2>3
      <4> QED
        BY <4>1, <4>2, <1>type DEF For!SockTypeOK
    <3>2. ~For!Lives(c)
      BY <2>3 DEF For!ForkInv, For!HoldersAreRight
    <3>3. kid[c] \in {"exit", "zombie", "gone"}
      BY <3>2, <2>1, <1>type DEF For!Lives, For!TypeOK
    <3> QED
      BY <3>1, <3>3, <2>1, <2>2, ForLastCopy
  <2>4. CASE holders[c] # {Parent}
    <3>1. conn' = conn
      BY <2>1, <2>4, <1>type DEF For!SockTypeOK
    <3> QED
      BY <3>1, <2>1, <2>2 DEF Service!svars
  <2> QED
    BY <2>3, <2>4
<1> QED
  BY <1>1, <1>2, <1>3, ForParentHasRoom DEF For!ParentStep

LEMMA ForChildStepRefines ==
  ASSUME Capacity' = Capacity, For!ForkConstants, server = "fork", Healthy, For!ForkInv,
         ForRuns, NEW c \in Conns, For!ChildStep(c)
  PROVE  [Service!SNext]_(Service!svars)
<1> USE For!SocketConstants DEF For!ForkConstants
<1>type. For!TypeOK /\ For!SockTypeOK
  BY DEF For!ForkInv, For!TypeOK
<1>1. Side' = Side
  <2>1. cli' = cli
    BY DEF For!ChildStep, For!ReadSome, For!WriteBack, For!ReadEnd, For!ChildExits, For!Read,
           For!Write, For!Drop, For!sockVars
  <2> QED
    BY <2>1 DEF Side
<1>2. CASE For!ReadSome(c) \/ For!ReadEnd(c)
  BY <1>1, <1>2
     DEF For!ReadSome, For!ReadEnd, For!Read, For!sockVars, For!streamVars, Service!svars
<1>3. CASE For!WriteBack(c)
  <2>1. /\ kid[c] = "write"
        /\ echoed' = [echoed EXCEPT ![c] = @ + n[c]]
        /\ UNCHANGED <<conn, sent>>
    BY <1>3 DEF For!WriteBack, For!Write
  <2>2. n[c] \in 1 .. sent[c] - echoed[c]
    <3>1. /\ n[c] \in 0 .. MaxSend /\ n[c] > 0 /\ sent[c] \in 0 .. MaxSend
          /\ echoed[c] \in 0 .. MaxSend /\ got[c] \in 0 .. MaxSend
          /\ got[c] - echoed[c] = n[c] /\ got[c] <= sent[c]
      BY <2>1, <1>type
         DEF For!TypeOK, For!SockTypeOK, For!SockInv, For!ForkInv, For!TalkInv, For!NothingLost,
             For!Lives
    <3> QED
      BY <3>1
  <2>3. conn[c] = "open"
    BY <2>1 DEF For!ForkInv, For!HoldersAreRight, For!Lives
  <2>4. Service!Echo(c)
    BY <2>1, <2>2, <2>3, <1>1 DEF Service!Echo
  <2> QED
    BY <2>4 DEF Service!SNext
<1>4. CASE For!ChildExits(c)
  <2>1. /\ kid[c] = "exit"
        /\ conn' = [d \in Conns |-> IF d \in For!HeldBy(c) /\ holders[d] = {c} THEN "closed"
                                    ELSE conn[d]]
        /\ UNCHANGED <<sent, echoed>>
    BY <1>4 DEF For!ChildExits, For!Breaks, For!Drop, For!streamVars, ForRuns, For!NobodyGone
  <2>2. \A d \in Conns : holders[d] = {c} => d = c
    BY DEF For!ForkInv, For!HoldersAreRight, Healthy
  <2>3. CASE holders[c] = {c}
    <3>1. conn' = [conn EXCEPT ![c] = "closed"] /\ conn[c] = "open"
      <4>1. conn[c] = "open"
        BY <2>3 DEF For!ForkInv, For!HoldersAreRight
      <4>2. \A d \in Conns : d \in For!HeldBy(c) /\ holders[d] = {c} <=> d = c
        BY <2>2, <2>3 DEF For!HeldBy
      <4>3. conn' = [d \in Conns |-> IF d = c THEN "closed" ELSE conn[d]]
        BY <2>1, <4>2
      <4> QED
        BY <4>1, <4>3, <1>type DEF For!SockTypeOK
    <3> QED
      BY <3>1, <2>1, <1>1, ForLastCopy
  <2>4. CASE holders[c] # {c}
    <3>1. conn' = conn
      BY <2>1, <2>2, <2>4, <1>type DEF For!SockTypeOK
    <3> QED
      BY <3>1, <2>1, <1>1 DEF Service!svars
  <2> QED
    BY <2>3, <2>4
<1> QED
  BY <1>2, <1>3, <1>4 DEF For!ChildStep

LEMMA ForClientStepRefines ==
  ASSUME Capacity' = Capacity, server = "fork", Healthy, For!SockInv, NEW c \in Conns,
         NEW listening, For!ClientStep(c, listening)
  PROVE  Service!SNext
<1>1. Service!Ask(c) \/ Service!Say(c) \/ Service!Leave(c, "ended")
  BY For!ClientSides
     DEF Healthy, For!Side, Side, Service!Ask, Service!Become, Service!Say, Service!Leave
<1> QED
  BY <1>1 DEF Service!SNext

(* Where no client vanishes and no fork fails, the server is an echo       *)
(* service that refuses nobody, with a single descriptor for the parent:   *)
(* whichever of parent and child closes last, the connection ends when     *)
(* everything is echoed and not before.                                    *)
LEMMA ForStepRefines ==
  ASSUME For!ForkConstants, server = "fork", Healthy, Capacity' = Capacity,
         For!ForkInv, ForRuns, [For!Next]_(For!vars)
  PROVE  [Service!SNext]_(Service!svars)
<1>1. CASE UNCHANGED For!vars
  BY <1>1 DEF For!vars, For!sockVars, For!streamVars, Service!svars, Side
<1>2. CASE For!ParentStep
  BY <1>2, ForParentStepRefines
<1>3. ASSUME NEW c \in Conns, For!ChildStep(c) PROVE [Service!SNext]_(Service!svars)
  BY <1>3, ForChildStepRefines
<1>4. ASSUME NEW c \in Conns, For!ClientStep(c, ppc # "exited") PROVE Service!SNext
  BY <1>4, ForClientStepRefines DEF For!ForkInv
<1> QED
  BY <1>1, <1>2, <1>3, <1>4 DEF For!Next

-----------------------------------------------------------------------------
(* THE PROGRAM: one of the five servers.                                   *)

HIDE SocketConstants

(* The invariant of the server that runs.                                  *)
EchoInv ==
    /\ server \in {"select", "poll", "epoll", "thread", "fork"}
    /\ server = "select" => Sel!SelectInv
    /\ server = "poll" => Pol!PollInv
    /\ server = "epoll" => Epo!EpollInv
    /\ server = "thread" => Thr!ThreadInv
    /\ server = "fork" => For!ForkInv

(* Every server has the constants it asks for.                             *)
LEMMA EveryServersConstants ==
  /\ Sel!SelectConstants /\ Pol!PollConstants /\ Epo!EpollConstants
  /\ Thr!ThreadConstants /\ For!ForkConstants
BY EventLoopConstants, ConcurrentConstants

(* Which server runs is settled at the start, and a step of the program is *)
(* a step of that server or changes nothing of it.                         *)
LEMMA OneServerRuns ==
  ASSUME server \in {"select", "poll", "epoll", "thread", "fork"}, [Next]_all
  PROVE  /\ server' = server
         /\ server = "select" => [Sel!Next]_(Sel!vars)
         /\ server = "poll" => [Pol!Next]_(Pol!vars)
         /\ server = "epoll" => [Epo!Next]_(Epo!vars)
         /\ server = "thread" => [Thr!Next]_(Thr!vars)
         /\ server = "fork" => [For!Next]_(For!vars)
<1>1. CASE UNCHANGED all
  <2>1. UNCHANGED <<server, sockVars, spc, file, n, confd, client, nReady, slot, nFdUse>>
    BY <1>1 DEF all
  <2>2. /\ UNCHANGED <<nUserful, allset, maxfd1, rset, nDeal, revents>>
        /\ UNCHANGED <<watch, edge, md, events, garbled>>
        /\ UNCHANGED <<mpc, heap, cell, tpc, ptr, recvfd, ppc, holders, kid, sigchld, handler>>
    BY <1>1 DEF all
  <2>3. UNCHANGED Sel!vars /\ UNCHANGED Pol!vars
    BY <2>1, <2>2
       DEF sockVars, streamVars, Sel!vars, Sel!sockVars, Sel!streamVars, Sel!tableVars,
           Sel!loopVars, Pol!vars, Pol!sockVars, Pol!streamVars, Pol!tableVars, Pol!loopVars
  <2>4. UNCHANGED Epo!vars
    BY <2>1, <2>2
       DEF sockVars, streamVars, Epo!vars, Epo!sockVars, Epo!streamVars, Epo!epollVars
  <2>5. UNCHANGED Thr!vars /\ UNCHANGED For!vars
    BY <2>1, <2>2
       DEF sockVars, streamVars, Thr!vars, Thr!sockVars, Thr!streamVars, Thr!mainVars,
           Thr!threadVars, For!vars, For!sockVars, For!streamVars, For!forkVars
  <2> QED
    BY <2>1, <2>3, <2>4, <2>5
<1>2. CASE Next
  BY <1>2 DEF Next, SelectOthers, PollOthers, EpollOthers, ThreadOthers, ForkOthers
<1> QED
  BY <1>1, <1>2

LEMMA EchoInit == Init => EchoInv
<1> SUFFICES ASSUME Init PROVE EchoInv
  OBVIOUS
<1>1. /\ server \in {"select", "poll", "epoll", "thread", "fork"}
      /\ server = "select" => Sel!Init
      /\ server = "poll" => Pol!Init
      /\ server = "epoll" => Epo!Init
      /\ server = "thread" => Thr!Init
      /\ server = "fork" => For!Init
  BY DEF Init
<1> QED
  BY <1>1, EveryServersConstants, SelInit, PolInit, EpoInit, ThrInit, ForInit DEF EchoInv

LEMMA EchoStepKeeps == EchoInv /\ [Next]_all => EchoInv'
<1> SUFFICES ASSUME EchoInv, [Next]_all PROVE EchoInv'
  OBVIOUS
<1>1. server' = server
  BY OneServerRuns DEF EchoInv
<1>2. server = "select" => Sel!SelectInv'
  BY OneServerRuns, EveryServersConstants, SelStepKeeps DEF EchoInv
<1>3. server = "poll" => Pol!PollInv'
  BY OneServerRuns, EveryServersConstants, PolStepKeeps DEF EchoInv
<1>4. server = "epoll" => Epo!EpollInv'
  BY OneServerRuns, EveryServersConstants, EpoStepKeeps DEF EchoInv
<1>5. server = "thread" => Thr!ThreadInv'
  BY OneServerRuns, EveryServersConstants, ThrStepKeeps DEF EchoInv
<1>6. server = "fork" => For!ForkInv'
  BY OneServerRuns, EveryServersConstants, ForStepKeeps DEF EchoInv
<1> QED
  BY <1>1, <1>2, <1>3, <1>4, <1>5, <1>6 DEF EchoInv

(* Whichever server runs keeps its inductive invariant.                    *)
THEOREM EchoInvariant == Spec => []EchoInv
BY EchoInit, EchoStepKeeps, PTL DEF Spec

LEMMA EchoShows ==
  ASSUME EchoInv
  PROVE  /\ NothingLost /\ TablesAgree /\ NeverBlocks /\ NothingForgotten
         /\ OneThread /\ HoldersAreRight /\ NoZombieForgotten
<1> USE EveryServersConstants
<1>1. server = "select" => /\ Sel!TypeOK /\ Sel!TablesAgree /\ Sel!NeverBlocks
                           /\ Sel!NothingLost
  BY SelShows DEF EchoInv
<1>2. server = "poll" => /\ Pol!TypeOK /\ Pol!TablesAgree /\ Pol!NeverBlocks
                         /\ Pol!NothingLost
  BY PolShows DEF EchoInv
<1>3. server = "epoll" => /\ Epo!TypeOK /\ Epo!TablesAgree /\ Epo!NeverBlocks
                          /\ Epo!NothingLost /\ Epo!NothingForgotten
  BY EpoShows DEF EchoInv
<1>4. server = "thread" => /\ Thr!TypeOK /\ Thr!OneThread /\ Thr!NothingLost
  BY ThrShows DEF EchoInv
<1>5. server = "fork" => /\ For!TypeOK /\ For!HoldersAreRight /\ For!NoZombieForgotten
                         /\ For!NothingLost
  BY DEF EchoInv, For!ForkInv
<1> QED
  BY <1>1, <1>2, <1>3, <1>4, <1>5
     DEF NothingLost, TablesAgree, NeverBlocks, NothingForgotten, OneThread, HoldersAreRight,
         NoZombieForgotten

(* Whatever a server has read it has written, keeps in a buffer or is      *)
(* writing, on every connection and however many clients vanish: the       *)
(* read/write pair of each server's dd.cpp.                                *)
THEOREM NothingIsLost == Spec => []NothingLost
<1>1. EchoInv => NothingLost
  BY EchoShows
<1> QED
  BY <1>1, EchoInvariant, PTL

(* Of an event loop's tables, the slots or registrations, the open         *)
(* descriptors and the sets and counters say the same about every          *)
(* connection, when a slot is freed and its descriptor's number is used    *)
(* again, and when the table is full.                                      *)
THEOREM TheTablesAgree == Spec => []TablesAgree
<1>1. EchoInv => TablesAgree
  BY EchoShows
<1> QED
  BY <1>1, EchoInvariant, PTL

(* The single thread of an event loop calls accept and read only when they *)
(* do not wait, whatever was closed or accepted under a reused number      *)
(* since the kernel reported: no client holds up the others.               *)
THEOREM NoLoopBlocks == Spec => []NeverBlocks
<1>1. EchoInv => NeverBlocks
  BY EchoShows
<1> QED
  BY <1>1, EchoInvariant, PTL

(* The edge-triggered registrations of the epoll server lose no event:     *)
(* what can be read is reported, though an event is reported once          *)
(* (u_reflect_sv_epoll/dd.cpp).                                            *)
THEOREM NothingIsForgotten == Spec => []NothingForgotten
<1>1. EchoInv => NothingForgotten
  BY EchoShows
<1> QED
  BY <1>1, EchoInvariant, PTL

(* The thread server passes a heap cell to each thread, and no two threads *)
(* ever serve one descriptor (u_reflect_sv_thread/dd.cpp).                 *)
THEOREM OneThreadEach == Spec => []OneThread
<1>1. EchoInv => OneThread
  BY EchoShows
<1> QED
  BY <1>1, EchoInvariant, PTL

(* The fork server's descriptors are held by the child that serves them,   *)
(* and by the parent until it closes its copy, and by nobody else          *)
(* (u_reflect_sv_fork/dd.cpp).                                             *)
THEOREM TheHoldersAreRight == Spec => []HoldersAreRight
<1>1. EchoInv => HoldersAreRight
  BY EchoShows
<1> QED
  BY <1>1, EchoInvariant, PTL

(* A child that has exited has a handler that runs or is still to run,     *)
(* although SIGCHLDs that are pending together are one                     *)
(* (u_reflect_sv_fork/dd.cpp).                                             *)
THEOREM NoZombieIsForgotten == Spec => []NoZombieForgotten
<1>1. EchoInv => NoZombieForgotten
  BY EchoShows
<1> QED
  BY <1>1, EchoInvariant, PTL

-----------------------------------------------------------------------------
(* The refinement.                                                         *)

(* In a healthy environment no server ends.                                *)
Runs ==
    /\ server = "select" => SelRuns
    /\ server = "poll" => PolRuns
    /\ server = "epoll" => EpoRuns
    /\ server = "thread" => ThrRuns
    /\ server = "fork" => ForRuns

LEMMA HealthStays ==
  ASSUME Healthy, server' = server
  PROVE  Healthy' /\ Capacity' = Capacity
BY DEF Healthy, Capacity

LEMMA EchoInitRefines == Healthy /\ Init => Service!SInit /\ Runs
<1> SUFFICES ASSUME Healthy, Init PROVE Service!SInit /\ Runs
  OBVIOUS
<1>1. /\ server \in {"select", "poll", "epoll", "thread", "fork"}
      /\ server = "select" => Sel!Init
      /\ server = "poll" => Pol!Init
      /\ server = "epoll" => Epo!Init
      /\ server = "thread" => Thr!Init
      /\ server = "fork" => For!Init
  BY DEF Init
<1>2. server = "select" => Service!SInit /\ SelRuns
  BY <1>1, EveryServersConstants, SelInitRefines
<1>3. server = "poll" => Service!SInit /\ PolRuns
  BY <1>1, EveryServersConstants, PolInitRefines
<1>4. server = "epoll" => Service!SInit /\ EpoRuns
  BY <1>1, EveryServersConstants, EpoInitRefines
<1>5. server = "thread" => Service!SInit /\ ThrRuns
  BY <1>1, EveryServersConstants, ThrInitRefines
<1>6. server = "fork" => Service!SInit /\ ForRuns
  BY <1>1, EveryServersConstants, ForInitRefines
<1> QED
  BY <1>1, <1>2, <1>3, <1>4, <1>5, <1>6 DEF Runs

LEMMA EchoStepRefines ==
  EchoInv /\ Healthy /\ Runs /\ [Next]_all =>
      Healthy' /\ Runs' /\ [Service!SNext]_(Service!svars)
<1> SUFFICES ASSUME EchoInv, Healthy, Runs, [Next]_all
             PROVE  Healthy' /\ Runs' /\ [Service!SNext]_(Service!svars)
  OBVIOUS
<1>1. server' = server
  BY OneServerRuns DEF EchoInv
<1>2. Healthy' /\ Capacity' = Capacity
  BY <1>1, HealthStays
<1>3. server = "select" => SelRuns' /\ [Service!SNext]_(Service!svars)
  BY <1>2, OneServerRuns, EveryServersConstants, SelStillRuns, SelStepRefines
     DEF EchoInv, Runs
<1>4. server = "poll" => PolRuns' /\ [Service!SNext]_(Service!svars)
  BY <1>2, OneServerRuns, EveryServersConstants, PolStillRuns, PolStepRefines
     DEF EchoInv, Runs
<1>5. server = "epoll" => EpoRuns' /\ [Service!SNext]_(Service!svars)
  BY <1>2, OneServerRuns, EveryServersConstants, EpoStillRuns, EpoStepRefines
     DEF EchoInv, Runs
<1>6. server = "thread" => ThrRuns' /\ [Service!SNext]_(Service!svars)
  BY <1>2, OneServerRuns, EveryServersConstants, ThrStillRuns, ThrStepRefines
     DEF EchoInv, Runs
<1>7. server = "fork" => ForRuns' /\ [Service!SNext]_(Service!svars)
  BY <1>2, OneServerRuns, EveryServersConstants, ForStillRuns, ForStepRefines
     DEF EchoInv, Runs
<1> QED
  BY <1>1, <1>2, <1>3, <1>4, <1>5, <1>6, <1>7 DEF EchoInv, Runs

(* Where no client vanishes, no fork fails and descriptors suffice, each   *)
(* of the five servers is an echo service: it echoes what was sent, once   *)
(* and in order, refuses only at its capacity, and closes a connection     *)
(* when its client has ended it and not before everything is echoed.       *)
THEOREM EveryServerIsAnEchoService == Healthy /\ Spec => ImplementsEcho
<1>1. Spec => []EchoInv
  BY EchoInvariant
<1>2. Healthy /\ Init => Service!SInit /\ Runs
  BY EchoInitRefines
<1>3. EchoInv /\ Healthy /\ Runs /\ [Next]_all =>
          Healthy' /\ Runs' /\ [Service!SNext]_(Service!svars)
  BY EchoStepRefines
<1> QED
  BY <1>1, <1>2, <1>3, PTL DEF Spec, ImplementsEcho, Service!SSpec
=============================================================================
