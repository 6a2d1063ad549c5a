---------------------------- MODULE SelectServer ----------------------------
(***************************************************************************)
(* The echo server of unp/src/app/u6.8_reflect_sv_select: one process, one *)
(* select loop, descriptors kept in the slots of client[].  A turn of the  *)
(* loop over the slots is a step, and a read and the write after it are    *)
(* two.                                                                    *)
(*                                                                         *)
(* Descriptors are numbers, given out lowest first and used again, so a    *)
(* set computed before a close may name another connection after it.       *)
(***************************************************************************)
EXTENDS EchoSockets_proofs     \* EchoSockets, and lemmas for the proofs

CONSTANTS
    FD_SETSIZE,     \* slots of client[], and descriptors an fd_set holds
    FdLimit         \* descriptors the process may have (RLIMIT_NOFILE)

(* Beyond FD_SETSIZE line 104 would write outside the fd_set.              *)
SelectConstants ==
    /\ FD_SETSIZE \in Nat \ {0}
    /\ FdLimit \in 1 .. FD_SETSIZE

listenfd == 0       \* descriptors below it (the standard ones) are left out
Fds   == 1 .. FdLimit - 1
Slots == 0 .. FD_SETSIZE - 1
NoFd  == -1

VARIABLES
    spc,        \* "select", "listen", "scan", "write" or "exited"
    file,       \* the connection behind each descriptor
    client,     \* descriptor in each slot, or NoFd
    nUserful, allset, maxfd1,
    rset, nReady,           \* what select returned
    slot, nDeal,            \* the loop over client[]
    n                       \* chunks read and not written yet

loopVars == <<rset, nReady, slot, nDeal, n>>
tableVars == <<file, client, nUserful, allset, maxfd1>>
vars == <<sockVars, spc, tableVars, loopVars>>

TypeOK ==
    /\ SockTypeOK
    /\ spc \in {"select", "listen", "scan", "write", "exited"}
    /\ file \in [Fds -> Conns \cup {NoConn}]
    /\ client \in [Slots -> Fds \cup {NoFd}]
    /\ nUserful \in 0 .. FD_SETSIZE
    /\ allset \subseteq Fds \cup {listenfd}
    /\ maxfd1 \in 1 .. FdLimit
    /\ rset \subseteq Fds \cup {listenfd}
    /\ nReady \in 0 .. FdLimit
    /\ slot \in Slots
    /\ nDeal \in 0 .. FD_SETSIZE
    /\ n \in 0 .. MaxSend

Init ==
    /\ SockInit
    /\ spc = "select"
    /\ file = [fd \in Fds |-> NoConn]
    /\ client = [i \in Slots |-> NoFd]
    /\ nUserful = 0
    /\ allset = {listenfd}
    /\ maxfd1 = listenfd + 1
    /\ rset = {} /\ nReady = 0
    /\ slot = 0 /\ nDeal = 0 /\ n = 0

-----------------------------------------------------------------------------
IsReady(fd) == IF fd = listenfd THEN backlog # <<>> ELSE Readable(file[fd])

(* Mutant: the set handed to select is not the one tested afterwards.      *)
SelectStale ==
    /\ spc = "select"
    /\ \E fd \in allset : fd < maxfd1 /\ IsReady(fd)
    /\ rset' = allset
    /\ nReady' = Cardinality(allset)
    /\ spc' = "listen"
    /\ UNCHANGED <<sockVars, tableVars, slot, nDeal, n>>

Select ==
    /\ spc = "select"
    /\ rset' = {fd \in allset : fd < maxfd1 /\ IsReady(fd)}
    /\ rset' # {}
    /\ nReady' = Cardinality(rset')
    /\ spc' = "listen"
    /\ UNCHANGED <<sockVars, tableVars, slot, nDeal, n>>

(* Back to select; what the loop used is dead until then.                  *)
Again ==
    /\ spc' = "select"
    /\ rset' = {} /\ nReady' = 0
    /\ slot' = 0 /\ nDeal' = 0 /\ n' = 0

(* On to the loop over the slots, or back to select when nothing is left.  *)
Begin(left) ==
    IF left <= 0 THEN Again
    ELSE /\ nReady' = left
         /\ spc' = "scan"
         /\ UNCHANGED <<rset, slot, nDeal, n>>

NotListen ==
    /\ spc = "listen" /\ listenfd \notin rset
    /\ Begin(nReady)
    /\ UNCHANGED <<sockVars, tableVars>>

FreeFds == {fd \in Fds : file[fd] = NoConn}

(* Lines 98-100, for a full client[], are never reached: it has a slot for *)
(* every descriptor and more.                                              *)
Accept ==
    /\ spc = "listen" /\ listenfd \in rset
    /\ backlog # <<>>
    /\ \E confd \in FreeFds, i \in Slots :
          /\ \A fd \in FreeFds : confd <= fd
          /\ client[i] = NoFd /\ \A j \in Slots : j < i => client[j] # NoFd
          /\ file' = [file EXCEPT ![confd] = Head(backlog)]
          /\ client' = [client EXCEPT ![i] = confd]
          /\ allset' = allset \cup {confd}
          /\ maxfd1' = IF maxfd1 < confd + 1 THEN confd + 1 ELSE maxfd1
    /\ nUserful' = nUserful + 1
    /\ Take("open")
    /\ Begin(nReady - 1)

(* No descriptor is left: main returns.                                    *)
AcceptError ==
    /\ spc = "listen" /\ listenfd \in rset
    /\ backlog # <<>> /\ FreeFds = {}
    /\ spc' = "exited"
    /\ ProcessEnds
    /\ UNCHANGED <<tableVars, loopVars>>

-----------------------------------------------------------------------------
(* The loop over the slots.                                                *)

InScan == spc = "scan"
Here   == client[slot]
Ready  == Here # NoFd /\ Here \in rset

(* The end of a turn: deal open slots seen of useful, ready ones left.     *)
EndTurn(left, deal, useful) ==
    IF left <= 0 \/ deal >= useful \/ slot = FD_SETSIZE - 1
    THEN Again
    ELSE /\ spc' = "scan"
         /\ slot' = slot + 1
         /\ nReady' = left /\ nDeal' = deal /\ n' = 0
         /\ UNCHANGED rset

Pass ==
    /\ InScan /\ ~Ready
    /\ EndTurn(nReady, IF Here = NoFd THEN nDeal ELSE nDeal + 1, nUserful)
    /\ UNCHANGED <<sockVars, tableVars>>

ReadSome ==
    /\ InScan /\ Ready
    /\ n' \in 1 .. MaxSend
    /\ Read(file[Here], n')
    /\ nDeal' = nDeal + 1
    /\ spc' = "write"
    /\ UNCHANGED <<tableVars, rset, nReady, slot>>

(* Mutant: the descriptor stays in allset.                                 *)
ReadEndKept ==
    /\ InScan /\ Ready
    /\ AtEnd(file[Here])
    /\ Close(file[Here])
    /\ file' = [file EXCEPT ![Here] = NoConn]
    /\ allset' = allset
    /\ client' = [client EXCEPT ![slot] = NoFd]
    /\ nUserful' = nUserful - 1
    /\ EndTurn(nReady - 1, nDeal + 1, nUserful - 1)
    /\ UNCHANGED maxfd1

ReadEnd ==
    /\ InScan /\ Ready
    /\ AtEnd(file[Here])
    /\ Close(file[Here])
    /\ file' = [file EXCEPT ![Here] = NoConn]
    /\ allset' = allset \ {Here}
    /\ client' = [client EXCEPT ![slot] = NoFd]
    /\ nUserful' = nUserful - 1
    /\ EndTurn(nReady - 1, nDeal + 1, nUserful - 1)
    /\ UNCHANGED maxfd1

WriteBack ==
    /\ spc = "write"
    /\ Write(file[Here], n)
    /\ EndTurn(nReady - 1, nDeal, nUserful)
    /\ UNCHANGED tableVars

(* SIGPIPE has its default action.                                         *)
BrokenPipe ==
    /\ spc = "write" /\ Breaks(file[Here])
    /\ spc' = "exited"
    /\ ProcessEnds
    /\ UNCHANGED <<tableVars, loopVars>>

-----------------------------------------------------------------------------
ServerStep ==
    \/ Select \/ NotListen \/ Accept \/ AcceptError
    \/ Pass \/ ReadSome \/ ReadEnd \/ WriteBack \/ BrokenPipe

Next ==
    \/ ServerStep
    \/ \E c \in Conns :
          /\ ClientStep(c, spc # "exited")
          /\ UNCHANGED <<spc, tableVars, loopVars>>

Spec == Init /\ [][Next]_vars

(* One process, which the kernel runs as long as it is not blocked.        *)
FairSpec == Spec /\ WF_vars(ServerStep)

-----------------------------------------------------------------------------
(* What it must satisfy.                                                   *)

Running == spc # "exited"

(* The four tables agree: allset, the slots in use, the open descriptors   *)
(* and nUserful say the same, no slot or descriptor is used twice, and     *)
(* client[] always has room for one more (so lines 98-100 are dead code).  *)
TablesAgree ==
    Running =>
        LET used == {i \in Slots : client[i] # NoFd} IN
        /\ allset \ {listenfd} = {client[i] : i \in used}
        /\ allset \ {listenfd} = Fds \ FreeFds
        /\ {c \in Conns : conn[c] = "open"} = {file[fd] : fd \in Fds \ FreeFds}
        /\ \A i, j \in used : i # j => file[client[i]] # file[client[j]]
        /\ nUserful = Cardinality(used)
        /\ used # Slots
        /\ listenfd \in allset /\ \A fd \in allset : fd < maxfd1

(* The process blocks in select only: when it accepts or reads, there is   *)
(* something to accept or to read.  rset may be old by then: connections   *)
(* have been closed, and accepted under the same number, since select.     *)
NeverBlocks ==
    /\ spc = "listen" /\ listenfd \in rset => backlog # <<>>
    /\ spc = "scan" /\ Ready => file[Here] # NoConn /\ Readable(file[Here])

(* What was read is what was written, but for what is being written now.   *)
NothingLost ==
    Running =>
        \A c \in Conns :
            got[c] - echoed[c] =
                IF spc = "write" /\ file[Here] = c THEN n ELSE 0

-----------------------------------------------------------------------------
(* The inductive invariant.                                                *)

Used == {i \in Slots : client[i] # NoFd}

(* A slot in use has a descriptor, a descriptor in use has a slot and its  *)
(* bit in allset, and no connection has two.                               *)
TableInv ==
    /\ allset = {listenfd} \cup (Fds \ FreeFds)
    /\ \A fd \in allset : fd < maxfd1
    /\ \A i \in Used : client[i] \in Fds \ FreeFds
    /\ \A fd \in Fds \ FreeFds : \E i \in Used : client[i] = fd
    /\ \A i, j \in Used : file[client[i]] = file[client[j]] => i = j
    /\ nUserful = Cardinality(Used)

Open == {c \in Conns : conn[c] = "open"}

OpenInv == Running => Open = {file[fd] : fd \in Fds \ FreeFds}

(* A bit of rset that the turn has not come to is that of a connection     *)
(* that is still ready, or its slot has been emptied: a number is given to *)
(* another connection only before the scan, and then it has no bit.        *)
TurnInv ==
    /\ spc = "select" => rset = {}
    /\ spc \in {"select", "listen"} => slot = 0 /\ nDeal = 0
    /\ spc = "listen" => \A fd \in rset : fd \in allset /\ IsReady(fd)
    /\ spc = "scan" =>
          /\ nDeal <= slot
          /\ \A i \in Used : i >= slot /\ client[i] \in rset => Readable(file[client[i]])
    /\ spc = "write" =>
          /\ nDeal <= slot + 1 /\ Here # NoFd /\ n > 0
          /\ \A i \in Used : i > slot /\ client[i] \in rset => Readable(file[client[i]])

SelectInv ==
    /\ TypeOK /\ SockInv
    /\ TableInv /\ OpenInv /\ TurnInv /\ NothingLost
=============================================================================
