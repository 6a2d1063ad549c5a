------------------------- MODULE EventLoops_proofs --------------------------
(***************************************************************************)
(* The three servers that are one process and one loop: that each keeps    *)
(* its inductive invariant, what the invariant says of the server, and     *)
(* that its steps are steps of EchoService.  EchoServers_proofs does the   *)
(* same for the other two servers and puts the five together.              *)
(***************************************************************************)
EXTENDS MCEchoServers, EchoSockets_proofs

USE SocketConstants

-----------------------------------------------------------------------------
(* SELECT.  The inductive invariant is SelectInv.                          *)

(* There are fewer descriptors than slots.                                 *)
LEMMA SelSlotsFinite ==
  ASSUME Sel!SelectConstants
  PROVE  /\ Sel!listenfd \notin Sel!Fds /\ Sel!NoFd \notin Sel!Fds /\ Sel!NoFd # Sel!listenfd
         /\ 0 \in Sel!Slots
         /\ Sel!IsFiniteSet(Sel!Fds) /\ Sel!Cardinality(Sel!Fds) = FdLimit - 1
         /\ Sel!IsFiniteSet(Sel!Slots) /\ Sel!Cardinality(Sel!Slots) = FD_SETSIZE
         /\ \A S \in SUBSET Sel!Slots : /\ Sel!IsFiniteSet(S)
                                        /\ Sel!Cardinality(S) \in 0 .. FD_SETSIZE
         /\ \A S \in SUBSET (Sel!Fds \cup {Sel!listenfd}) : Sel!Cardinality(S) \in 0 .. FdLimit
<1> USE DEF Sel!SelectConstants, Sel!Slots, Sel!Fds, Sel!listenfd, Sel!NoFd
<1>1. Sel!IsFiniteSet(Sel!Slots) /\ Sel!Cardinality(Sel!Slots) = FD_SETSIZE
  BY Sel!FS_Interval
<1>2. Sel!IsFiniteSet(Sel!Fds) /\ Sel!Cardinality(Sel!Fds) = FdLimit - 1
  BY Sel!FS_Interval
<1>3. ASSUME NEW S \in SUBSET Sel!Slots
      PROVE  Sel!IsFiniteSet(S) /\ Sel!Cardinality(S) \in 0 .. FD_SETSIZE
  <2>1. Sel!IsFiniteSet(S) /\ Sel!Cardinality(S) <= FD_SETSIZE
    BY <1>1, Sel!FS_Subset
  <2> QED
    BY <2>1, Sel!FS_CardinalityType
<1>4. ASSUME NEW S \in SUBSET (Sel!Fds \cup {Sel!listenfd})
      PROVE  Sel!Cardinality(S) \in 0 .. FdLimit
  <2>1. \A U : U = 0 .. FdLimit - 1 =>
            /\ Sel!IsFiniteSet(U) /\ Sel!Cardinality(U) = FdLimit /\ S \subseteq U
    <3>1. \A U : U = 0 .. FdLimit - 1 => Sel!IsFiniteSet(U) /\ Sel!Cardinality(U) = FdLimit
      BY Sel!FS_Interval
    <3>2. S \subseteq 0 .. FdLimit - 1
      OBVIOUS
    <3> QED
      BY <3>1, <3>2
  <2>2. \A U : Sel!IsFiniteSet(U) /\ S \subseteq U =>
            Sel!IsFiniteSet(S) /\ Sel!Cardinality(S) <= Sel!Cardinality(U)
    BY Sel!FS_Subset
  <2>3. Sel!IsFiniteSet(S) /\ Sel!Cardinality(S) <= FdLimit
    BY <2>1, <2>2
  <2> QED
    BY <2>3, Sel!FS_CardinalityType
<1> QED
  BY <1>1, <1>2, <1>3, <1>4

LEMMA SelInit == Sel!SelectConstants /\ Sel!Init => Sel!SelectInv
<1> SUFFICES ASSUME Sel!SelectConstants, Sel!Init PROVE Sel!SelectInv
  OBVIOUS
<1> USE Sel!SocketConstants, SelSlotsFinite DEF Sel!Init
<1>1. Sel!SockInv
  BY Sel!SockInitInv
<1>2. Sel!TypeOK
  BY <1>1 DEF Sel!TypeOK, Sel!SockInv, Sel!Slots, Sel!SelectConstants, Sel!listenfd
<1>3. Sel!Used = {} /\ Sel!FreeFds = Sel!Fds
  BY DEF Sel!Used, Sel!FreeFds
<1>4. Sel!TableInv
  BY <1>3, Sel!FS_EmptySet DEF Sel!TableInv, Sel!listenfd
<1>5. Sel!OpenInv
  <2>1. Sel!Open = {}
    BY DEF Sel!Open, Sel!SockInit
  <2> QED
    BY <1>3, <2>1 DEF Sel!OpenInv
<1>6. Sel!TurnInv /\ Sel!NothingLost
  BY DEF Sel!TurnInv, Sel!NothingLost, Sel!SockInit
<1> QED
  BY <1>1, <1>2, <1>4, <1>5, <1>6 DEF Sel!SelectInv

-----------------------------------------------------------------------------
(* What the parts of the invariant say together.                           *)

(* A slot in use has an open connection of its own.                        *)
LEMMA SelSlotIsOpen ==
  ASSUME Sel!SelectConstants, Sel!SelectInv, NEW i \in Sel!Slots, client[i] # Sel!NoFd
  PROVE  /\ i \in Sel!Used
         /\ client[i] \in Sel!Fds \ Sel!FreeFds /\ client[i] # Sel!listenfd
         /\ file[client[i]] \in Conns
         /\ Sel!Running => conn[file[client[i]]] = "open"
<1>1. i \in Sel!Used /\ client[i] \in Sel!Fds \ Sel!FreeFds
  BY DEF Sel!SelectInv, Sel!TableInv, Sel!Used
<1>2. file[client[i]] \in Conns /\ client[i] # Sel!listenfd
  BY <1>1, SelSlotsFinite DEF Sel!SelectInv, Sel!TypeOK, Sel!FreeFds
<1>3. Sel!Running => file[client[i]] \in Sel!Open
  BY <1>1 DEF Sel!SelectInv, Sel!OpenInv
<1> QED
  BY <1>1, <1>2, <1>3 DEF Sel!Open

(* The slot the loop is at, when select reported it.                       *)
LEMMA SelHereIsOpen ==
  ASSUME Sel!SelectConstants, Sel!SelectInv, spc = "write" \/ (spc = "scan" /\ Sel!Ready)
  PROVE  /\ slot \in Sel!Used /\ slot \in Sel!Slots /\ slot \in Nat
         /\ Sel!Here \in Sel!Fds \ Sel!FreeFds
         /\ file[Sel!Here] \in Conns /\ conn[file[Sel!Here]] = "open"
         /\ spc = "scan" => Sel!Readable(file[Sel!Here])
<1>1. slot \in Sel!Slots /\ slot \in Nat /\ Sel!Here # Sel!NoFd
  BY DEF Sel!SelectInv, Sel!TypeOK, Sel!TurnInv, Sel!Ready, Sel!Slots
<1>2. slot \in Sel!Used /\ Sel!Running
  BY <1>1 DEF Sel!Used, Sel!Here, Sel!Running
<1>3. spc = "scan" => Sel!Readable(file[client[slot]])
  BY <1>1, <1>2 DEF Sel!SelectInv, Sel!TurnInv, Sel!Ready, Sel!Here
<1> QED
  BY <1>1, <1>2, <1>3, SelSlotIsOpen DEF Sel!Here

(* The next slot, or the next select: what is left of the turn stays true. *)
LEMMA SelEndTurnType ==
  ASSUME Sel!SelectConstants, Sel!TypeOK, NEW left \in Int, left <= nReady,
         NEW deal \in Nat, deal <= slot + 1, NEW useful, Sel!EndTurn(left, deal, useful)
  PROVE  /\ spc' \in {"select", "scan"} /\ rset' \subseteq Sel!Fds \cup {Sel!listenfd}
         /\ nReady' \in 0 .. FdLimit
         /\ slot' \in Sel!Slots
         /\ nDeal' \in 0 .. FD_SETSIZE
         /\ n' = 0
         /\ spc' = "select" => rset' = {} /\ slot' = 0 /\ nDeal' = 0
         /\ spc' = "scan" => slot' = slot + 1 /\ rset' = rset /\ nDeal' = deal
<1> USE DEF Sel!SelectConstants, Sel!Slots
<1>1. CASE Sel!Again
  BY <1>1 DEF Sel!Again
<1>2. CASE ~(left <= 0 \/ deal >= useful \/ slot = FD_SETSIZE - 1)
  <2>1. spc' = "scan" /\ slot' = slot + 1 /\ nReady' = left /\ nDeal' = deal /\ n' = 0
        /\ rset' = rset
    BY <1>2 DEF Sel!EndTurn
  <2>2. /\ rset \subseteq Sel!Fds \cup {Sel!listenfd}
        /\ nReady \in 0 .. FdLimit
        /\ slot \in 0 .. FD_SETSIZE - 1
    BY DEF Sel!TypeOK
  <2>3. left \in 0 .. FdLimit /\ slot + 1 \in Sel!Slots /\ deal \in 0 .. FD_SETSIZE
    BY <1>2, <2>2
  <2> QED
    BY <2>1, <2>2, <2>3
<1> QED
  BY <1>1, <1>2 DEF Sel!EndTurn

LEMMA SelBeginType ==
  ASSUME Sel!SelectConstants, Sel!TypeOK, slot = 0, nDeal = 0, NEW left \in Int, left <= nReady,
         Sel!Begin(left)
  PROVE  /\ spc' \in {"select", "scan"} /\ rset' \subseteq Sel!Fds \cup {Sel!listenfd}
         /\ nReady' \in 0 .. FdLimit /\ slot' = 0 /\ nDeal' = 0 /\ n' \in 0 .. MaxSend
         /\ spc' = "select" => rset' = {}
         /\ spc' = "scan" => rset' = rset
<1> USE Sel!SocketConstants DEF Sel!SelectConstants
<1>1. CASE Sel!Again
  BY <1>1 DEF Sel!Again
<1>2. CASE ~(left <= 0)
  <2>1. spc' = "scan" /\ nReady' = left /\ UNCHANGED <<rset, slot, nDeal, n>>
    BY <1>2 DEF Sel!Begin
  <2>2. /\ rset \subseteq Sel!Fds \cup {Sel!listenfd}
        /\ nReady \in 0 .. FdLimit
        /\ n \in 0 .. MaxSend
    BY DEF Sel!TypeOK
  <2> QED
    BY <1>2, <2>1, <2>2
<1> QED
  BY <1>1, <1>2 DEF Sel!Begin

-----------------------------------------------------------------------------
(* The clients, and the steps that leave the tables alone.                 *)

LEMMA SelTablesStay ==
  ASSUME Sel!SelectInv, UNCHANGED <<Sel!tableVars, conn>>, Sel!Running' => Sel!Running
  PROVE  Sel!TableInv' /\ Sel!OpenInv' /\ Sel!Used' = Sel!Used /\ Sel!FreeFds' = Sel!FreeFds
<1>1. Sel!Used' = Sel!Used /\ Sel!FreeFds' = Sel!FreeFds /\ Sel!Open' = Sel!Open
  BY DEF Sel!tableVars, Sel!Used, Sel!FreeFds, Sel!Open
<1>2. Sel!TableInv'
  BY <1>1 DEF Sel!SelectInv, Sel!TableInv, Sel!tableVars
<1>3. Sel!OpenInv'
  BY <1>1 DEF Sel!SelectInv, Sel!OpenInv, Sel!tableVars
<1> QED
  BY <1>1, <1>2, <1>3

(* What was ready stays ready, whatever the clients do.                    *)
LEMMA SelReadyStays ==
  ASSUME Sel!SockInv, NEW c \in Conns, NEW listening, Sel!ClientStep(c, listening)
  PROVE  /\ backlog # <<>> => backlog' # <<>>
         /\ \A d \in Conns : conn[d] = "open" /\ Sel!Readable(d) => Sel!Readable(d)'
<1>type. Sel!SockTypeOK
  BY DEF Sel!SockInv
<1>1. backlog # <<>> => backlog' # <<>>
  <2>1. CASE Sel!Connect(c)
    <3>1. backlog' = Append(backlog, c) /\ backlog \in Seq(Conns)
      BY <2>1, <1>type DEF Sel!Connect, Sel!SockTypeOK
    <3> QED
      BY <3>1
  <2>2. CASE ~Sel!Connect(c)
    BY <2>2 DEF Sel!ClientStep, Sel!Send, Sel!Shutdown, Sel!SeeFin, Sel!Reset
  <2> QED
    BY <2>1, <2>2
<1>2. ASSUME NEW d \in Conns, conn[d] = "open", Sel!Readable(d) PROVE Sel!Readable(d)'
  <2>1. /\ got' = got /\ sent'[d] >= sent[d]
        /\ cli[d] \in {"fin", "gone"} => cli'[d] \in {"fin", "gone"}
    BY <1>2, Sel!ClientFrame
  <2>2. got[d] \in Nat /\ sent[d] \in Nat /\ sent'[d] \in Nat
    BY <1>type, Sel!ClientKeepsSock DEF Sel!SockInv, Sel!SockTypeOK
  <2> QED
    BY <1>2, <2>1, <2>2 DEF Sel!Readable, Sel!Unread
<1> QED
  BY <1>1, <1>2

LEMMA SelClientKeeps ==
  ASSUME Sel!SelectConstants, Sel!SelectInv, NEW c \in Conns, Sel!ClientStep(c, spc # "exited"),
         UNCHANGED <<spc, Sel!tableVars, Sel!loopVars>>
  PROVE  Sel!SelectInv'
<1>1. Sel!SockInv /\ Sel!TypeOK
  BY DEF Sel!SelectInv
<1>2. Sel!SockInv' /\ Sel!SockTypeOK'
  BY <1>1, Sel!ClientKeepsSock DEF Sel!SockInv
<1>same. UNCHANGED <<spc, file, client, nUserful, allset, maxfd1, rset, nReady, slot, nDeal, n>>
  BY DEF Sel!tableVars, Sel!loopVars
<1>3. Sel!TypeOK'
  BY <1>1, <1>2, <1>same DEF Sel!TypeOK
<1>4. Sel!Used' = Sel!Used /\ Sel!FreeFds' = Sel!FreeFds /\ Sel!TableInv'
  BY <1>same DEF Sel!SelectInv, Sel!TableInv, Sel!Used, Sel!FreeFds
<1>5. Sel!OpenInv'
  <2>1. Sel!Open' = Sel!Open
    BY <1>1, Sel!ClientFrame DEF Sel!Open
  <2> QED
    BY <2>1, <1>4, <1>same DEF Sel!SelectInv, Sel!OpenInv, Sel!Running
<1>6. Sel!NothingLost'
  <2>1. UNCHANGED <<got, echoed>>
    BY <1>1, Sel!ClientFrame
  <2> QED
    BY <2>1, <1>same DEF Sel!SelectInv, Sel!NothingLost, Sel!Here, Sel!Running
<1>7. ASSUME Sel!Running, NEW i \in Sel!Used, Sel!Readable(file[client[i]])
      PROVE  Sel!Readable(file[client[i]])'
  <2>1. file[client[i]] \in Conns /\ conn[file[client[i]]] = "open"
    BY <1>7, SelSlotIsOpen DEF Sel!Used
  <2> PICK d \in Conns : d = file[client[i]]
    BY <2>1
  <2>2. Sel!Readable(d)'
    BY <2>1, <1>1, <1>7, SelReadyStays
  <2> QED
    BY <2>2, <1>same
<1>8. ASSUME spc = "listen", NEW fd \in rset
      PROVE  (fd \in allset /\ Sel!IsReady(fd))'
  <2>1. fd \in allset /\ Sel!IsReady(fd)
    BY <1>8 DEF Sel!SelectInv, Sel!TurnInv
  <2>2. CASE fd = Sel!listenfd
    BY <2>1, <2>2, <1>1, <1>same, SelReadyStays DEF Sel!IsReady
  <2>3. CASE fd # Sel!listenfd
    <3>1. fd \in Sel!Fds \ Sel!FreeFds
      BY <2>1, <2>3 DEF Sel!SelectInv, Sel!TableInv
    <3>2. PICK i \in Sel!Used : client[i] = fd
      BY <3>1 DEF Sel!SelectInv, Sel!TableInv
    <3>3. Sel!Readable(file[fd])'
      BY <3>2, <2>1, <2>3, <1>7, <1>8, <1>same DEF Sel!IsReady, Sel!Running
    <3> QED
      BY <3>3, <2>1, <2>3, <1>same DEF Sel!IsReady
  <2> QED
    BY <2>2, <2>3
<1>9. Sel!TurnInv'
  <2>1. spc = "scan" => /\ nDeal <= slot
                        /\ \A i \in Sel!Used : i >= slot /\ client[i] \in rset =>
                              Sel!Readable(file[client[i]])'
    BY <1>7 DEF Sel!SelectInv, Sel!TurnInv, Sel!Running
  <2>2. spc = "write" => /\ nDeal <= slot + 1 /\ Sel!Here # Sel!NoFd /\ n > 0
                         /\ \A i \in Sel!Used : i > slot /\ client[i] \in rset =>
                               Sel!Readable(file[client[i]])'
    BY <1>7 DEF Sel!SelectInv, Sel!TurnInv, Sel!Running
  <2>3. spc = "listen" => \A fd \in rset : (fd \in allset /\ Sel!IsReady(fd))'
    BY <1>8
  <2>4. /\ spc = "select" => rset = {}
        /\ spc \in {"select", "listen"} => slot = 0 /\ nDeal = 0
    BY DEF Sel!SelectInv, Sel!TurnInv
  <2> QED
    BY <2>1, <2>2, <2>3, <2>4, <1>4, <1>same DEF Sel!TurnInv, Sel!Here
<1> QED
  BY <1>2, <1>3, <1>4, <1>5, <1>6, <1>9 DEF Sel!SelectInv

LEMMA SelKeeps == ASSUME Sel!SelectConstants, Sel!SelectInv, Sel!Select PROVE Sel!SelectInv'
<1>type. Sel!TypeOK
  BY DEF Sel!SelectInv
<1>step. /\ spc = "select" /\ spc' = "listen"
         /\ rset' = {fd \in allset : fd < maxfd1 /\ Sel!IsReady(fd)}
         /\ nReady' = Sel!Cardinality(rset')
         /\ UNCHANGED <<Sel!sockVars, Sel!tableVars, slot, nDeal, n>>
  BY DEF Sel!Select
<1>1. Sel!TableInv' /\ Sel!OpenInv'
  BY <1>step, SelTablesStay DEF Sel!sockVars, Sel!Running
<1>2. Sel!SockInv'
  BY <1>step, Sel!SockStutters DEF Sel!SelectInv
<1>3. rset' \subseteq Sel!Fds \cup {Sel!listenfd} /\ nReady' \in 0 .. FdLimit
  BY <1>step, <1>type, SelSlotsFinite DEF Sel!TypeOK
<1>4. Sel!TypeOK'
  BY <1>2, <1>3, <1>step, <1>type DEF Sel!TypeOK, Sel!SockInv, Sel!tableVars
<1>5. Sel!TurnInv'
  <2>1. slot = 0 /\ nDeal = 0
    BY <1>step DEF Sel!SelectInv, Sel!TurnInv
  <2> QED
    BY <2>1, <1>step
       DEF Sel!TurnInv, Sel!IsReady, Sel!Readable, Sel!Unread, Sel!tableVars, Sel!sockVars,
           Sel!streamVars
<1>6. Sel!NothingLost'
  BY <1>step DEF Sel!SelectInv, Sel!NothingLost, Sel!Running, Sel!sockVars, Sel!streamVars
<1> QED
  BY <1>1, <1>2, <1>4, <1>5, <1>6 DEF Sel!SelectInv

(* In front of the scan every slot with a bit of rset is readable.         *)
LEMMA SelScanStarts ==
  ASSUME Sel!SelectConstants, Sel!SelectInv, spc = "listen", NEW i \in Sel!Used,
         client[i] \in rset
  PROVE  Sel!Readable(file[client[i]])
<1>1. client[i] # Sel!listenfd
  BY SelSlotIsOpen DEF Sel!Used
<1>2. Sel!IsReady(client[i])
  BY DEF Sel!SelectInv, Sel!TurnInv
<1> QED
  BY <1>1, <1>2 DEF Sel!IsReady

(* The listening socket or a slot is not ready.                            *)
LEMMA SelNotListenKeeps ==
  ASSUME Sel!SelectConstants, Sel!SelectInv, Sel!NotListen
  PROVE  Sel!SelectInv'
<1>type. Sel!TypeOK
  BY DEF Sel!SelectInv
<1>step. spc = "listen" /\ Sel!Begin(nReady) /\ UNCHANGED <<Sel!sockVars, Sel!tableVars>>
  BY DEF Sel!NotListen
<1>1. slot = 0 /\ nDeal = 0
  BY <1>step DEF Sel!SelectInv, Sel!TurnInv
<1>2. /\ spc' \in {"select", "scan"} /\ rset' \subseteq Sel!Fds \cup {Sel!listenfd}
      /\ nReady' \in 0 .. FdLimit /\ slot' = 0 /\ nDeal' = 0 /\ n' \in 0 .. MaxSend
      /\ spc' = "select" => rset' = {}
      /\ spc' = "scan" => rset' = rset
  <2>1. nReady \in Int /\ nReady <= nReady
    BY <1>type DEF Sel!TypeOK
  <2> QED
    BY <2>1, <1>1, <1>step, <1>type, SelBeginType
<1>3. Sel!TableInv' /\ Sel!OpenInv' /\ Sel!Used' = Sel!Used
  BY <1>step, SelTablesStay DEF Sel!sockVars, Sel!Running
<1>4. Sel!SockInv'
  BY <1>step, Sel!SockStutters DEF Sel!SelectInv
<1>5. Sel!TypeOK'
  BY <1>2, <1>4, <1>step, <1>type, SelSlotsFinite DEF Sel!TypeOK, Sel!SockInv, Sel!tableVars
<1>6. Sel!TurnInv'
  <2>1. \A i \in Sel!Used : client[i] \in rset => Sel!Readable(file[client[i]])'
    BY <1>step, SelScanStarts
       DEF Sel!Readable, Sel!Unread, Sel!tableVars, Sel!sockVars, Sel!streamVars
  <2> QED
    BY <2>1, <1>2, <1>3, <1>step DEF Sel!TurnInv, Sel!tableVars
<1>7. Sel!NothingLost'
  BY <1>step, <1>2 DEF Sel!SelectInv, Sel!NothingLost, Sel!Running, Sel!sockVars, Sel!streamVars
<1> QED
  BY <1>3, <1>4, <1>5, <1>6, <1>7 DEF Sel!SelectInv

LEMMA SelPassKeeps == ASSUME Sel!SelectConstants, Sel!SelectInv, Sel!Pass PROVE Sel!SelectInv'
<1>type. Sel!TypeOK
  BY DEF Sel!SelectInv
<1>step. /\ spc = "scan" /\ UNCHANGED <<Sel!sockVars, Sel!tableVars>>
         /\ Sel!EndTurn(nReady, IF Sel!Here = Sel!NoFd THEN nDeal ELSE nDeal + 1, nUserful)
  BY DEF Sel!Pass, Sel!InScan
<1> DEFINE deal == IF Sel!Here = Sel!NoFd THEN nDeal ELSE nDeal + 1
<1>1. /\ nReady \in Int /\ nReady <= nReady /\ slot \in Nat
      /\ deal \in Nat /\ deal <= slot + 1
  BY <1>step, <1>type DEF Sel!TypeOK, Sel!SelectInv, Sel!TurnInv, Sel!Slots
<1>2. Sel!EndTurn(nReady, deal, nUserful)
  BY <1>step
<1> HIDE DEF deal
<1>3. /\ spc' \in {"select", "scan"} /\ rset' \subseteq Sel!Fds \cup {Sel!listenfd}
      /\ nReady' \in 0 .. FdLimit /\ slot' \in Sel!Slots /\ nDeal' \in 0 .. FD_SETSIZE /\ n' = 0
      /\ spc' = "select" => rset' = {} /\ slot' = 0 /\ nDeal' = 0
      /\ spc' = "scan" => slot' = slot + 1 /\ rset' = rset /\ nDeal' = deal
  BY <1>1, <1>2, <1>type, SelEndTurnType
<1>4. Sel!TableInv' /\ Sel!OpenInv' /\ Sel!Used' = Sel!Used
  BY <1>step, SelTablesStay DEF Sel!sockVars, Sel!Running
<1>5. Sel!SockInv'
  BY <1>step, Sel!SockStutters DEF Sel!SelectInv
<1>6. Sel!TypeOK'
  <2>1. 0 \in 0 .. MaxSend
    BY Sel!SocketConstants
  <2> QED
    BY <2>1, <1>3, <1>5, <1>step, <1>type DEF Sel!TypeOK, Sel!SockInv, Sel!tableVars
<1>7. Sel!TurnInv'
  <2>1. \A i \in Sel!Used : i >= slot + 1 /\ client[i] \in rset =>
              Sel!Readable(file[client[i]])'
    <3> TAKE i \in Sel!Used
    <3>1. i >= slot + 1 => i >= slot
      BY <1>1 DEF Sel!Used, Sel!Slots
    <3> QED
      BY <3>1, <1>step
         DEF Sel!SelectInv, Sel!TurnInv, Sel!Readable, Sel!Unread, Sel!tableVars, Sel!sockVars,
             Sel!streamVars
  <2> QED
    BY <2>1, <1>1, <1>3, <1>4, <1>step DEF Sel!TurnInv, Sel!tableVars
<1>8. Sel!NothingLost'
  BY <1>step, <1>3 DEF Sel!SelectInv, Sel!NothingLost, Sel!Running, Sel!sockVars, Sel!streamVars
<1> QED
  BY <1>4, <1>5, <1>6, <1>7, <1>8 DEF Sel!SelectInv

-----------------------------------------------------------------------------
(* accept.                                                                 *)

(* A new descriptor was free, so it has no bit in rset: the scan that      *)
(* follows does not take it for the one select saw.                        *)
LEMMA SelAcceptKeeps == ASSUME Sel!SelectConstants, Sel!SelectInv, Sel!Accept PROVE Sel!SelectInv'
<1> USE SelSlotsFinite
<1>type. Sel!TypeOK /\ Sel!SockTypeOK
  BY DEF Sel!SelectInv, Sel!TypeOK
<1>1. PICK fd \in Sel!FreeFds, i \in Sel!Slots :
         /\ client[i] = Sel!NoFd
         /\ client' = [client EXCEPT ![i] = fd]
         /\ file' = [file EXCEPT ![fd] = Head(backlog)]
         /\ allset' = allset \cup {fd}
         /\ maxfd1' = IF maxfd1 < fd + 1 THEN fd + 1 ELSE maxfd1
  BY DEF Sel!Accept
<1>step. /\ spc = "listen" /\ backlog # <<>> /\ nUserful' = nUserful + 1
         /\ Sel!Take("open") /\ Sel!Begin(nReady - 1) /\ fd \in Sel!Fds /\ file[fd] = NoConn
  BY DEF Sel!Accept, Sel!FreeFds
<1>2. PICK c \in Conns : c = Head(backlog)
  BY <1>step, Sel!TakeKeepsSock DEF Sel!SelectInv
<1>take. /\ conn[c] = "queued"
         /\ conn'[c] = "open" /\ \A d \in Conns : d # c => conn'[d] = conn[d]
         /\ UNCHANGED <<cli, sent, got, echoed>>
         /\ Sel!SockInv'
  BY <1>step, <1>2, Sel!TakeKeepsSock DEF Sel!SelectInv
<1>3. slot = 0 /\ nDeal = 0
  BY <1>step DEF Sel!SelectInv, Sel!TurnInv
<1>4. /\ spc' \in {"select", "scan"} /\ rset' \subseteq Sel!Fds \cup {Sel!listenfd}
      /\ nReady' \in 0 .. FdLimit /\ slot' = 0 /\ nDeal' = 0 /\ n' \in 0 .. MaxSend
      /\ spc' = "select" => rset' = {}
      /\ spc' = "scan" => rset' = rset
  <2>1. nReady \in Nat
    BY <1>type DEF Sel!TypeOK
  <2>2. nReady - 1 \in Int /\ nReady - 1 <= nReady
    BY <2>1
  <2> QED
    BY <2>2, <1>3, <1>step, <1>type, SelBeginType
<1>5. /\ client'[i] = fd /\ \A j \in Sel!Slots : j # i => client'[j] = client[j]
      /\ file'[fd] = c /\ \A fe \in Sel!Fds : fe # fd => file'[fe] = file[fe]
  BY <1>1, <1>2, <1>step, <1>type DEF Sel!TypeOK
<1>6. /\ Sel!FreeFds' = Sel!FreeFds \ {fd}
      /\ (Sel!Fds \ Sel!FreeFds)' = (Sel!Fds \ Sel!FreeFds) \cup {fd}
  BY <1>step, <1>5, Sel!SocketConstants DEF Sel!FreeFds
<1>7. Sel!Used' = Sel!Used \cup {i} /\ i \notin Sel!Used
  BY <1>1, <1>step, <1>5 DEF Sel!Used
<1>8. \A j \in Sel!Used : /\ j # i /\ client[j] \in Sel!Fds \ Sel!FreeFds /\ client[j] # fd
                      /\ client'[j] = client[j] /\ file'[client[j]] = file[client[j]]
                      /\ file[client[j]] \in Conns /\ file[client[j]] # c
  <2> TAKE j \in Sel!Used
  <2>1. /\ client[j] \in Sel!Fds \ Sel!FreeFds
        /\ file[client[j]] \in Conns
        /\ conn[file[client[j]]] = "open"
    BY <1>step, SelSlotIsOpen DEF Sel!Used, Sel!Running
  <2>2. client[j] # fd
    BY <2>1, <1>step DEF Sel!FreeFds
  <2> QED
    BY <2>1, <2>2, <1>5, <1>7, <1>take DEF Sel!Used
<1>9. Sel!TableInv'
  <2>1. allset' = {Sel!listenfd} \cup (Sel!Fds \ Sel!FreeFds)'
    BY <1>1, <1>6 DEF Sel!SelectInv, Sel!TableInv
  <2>2. \A fe \in allset' : fe < maxfd1'
    <3> TAKE fe \in allset'
    <3>1. /\ fe \in Int /\ maxfd1 \in Int /\ fd \in Int
      BY <1>1, <1>step, <1>type DEF Sel!TypeOK, Sel!Fds, Sel!listenfd
    <3>2. fe = fd \/ fe < maxfd1
      BY <1>1 DEF Sel!SelectInv, Sel!TableInv
    <3> QED
      BY <3>1, <3>2, <1>1
  <2>3. \A j \in Sel!Used' : client'[j] \in (Sel!Fds \ Sel!FreeFds)'
    BY <1>5, <1>6, <1>7, <1>8
  <2>4. ASSUME NEW fe \in (Sel!Fds \ Sel!FreeFds)'
        PROVE  \E j \in Sel!Used' : client'[j] = fe
    <3>1. CASE fe = fd
      BY <3>1, <1>5, <1>7
    <3>2. CASE fe # fd
      <4>1. PICK j \in Sel!Used : client[j] = fe
        BY <3>2, <2>4, <1>6 DEF Sel!SelectInv, Sel!TableInv
      <4> QED
        BY <4>1, <1>7, <1>8
    <3> QED
      BY <3>1, <3>2
  <2>5. \A j, l \in Sel!Used' : file'[client'[j]] = file'[client'[l]] => j = l
    BY <1>5, <1>7, <1>8 DEF Sel!SelectInv, Sel!TableInv
  <2>6. nUserful' = Sel!Cardinality(Sel!Used')
    <3>1. Sel!IsFiniteSet(Sel!Used) /\ nUserful = Sel!Cardinality(Sel!Used)
      BY DEF Sel!Used, Sel!SelectInv, Sel!TableInv
    <3> QED
      BY <3>1, <1>step, <1>7, Sel!FS_AddElement
  <2> QED
    BY <2>1, <2>2, <2>3, <2>4, <2>5, <2>6 DEF Sel!TableInv
<1>10. Sel!TypeOK'
  <2>1. nUserful' \in 0 .. FD_SETSIZE
    BY <1>9 DEF Sel!TableInv, Sel!Used
  <2>2. /\ client' \in [Sel!Slots -> Sel!Fds \cup {Sel!NoFd}]
        /\ file' \in [Sel!Fds -> Conns \cup {NoConn}]
    BY <1>1, <1>step, <1>2, <1>type DEF Sel!TypeOK
  <2>3. allset' \subseteq Sel!Fds \cup {Sel!listenfd}
    BY <1>1, <1>step, <1>type DEF Sel!TypeOK
  <2>4. maxfd1' \in 1 .. FdLimit
    <3>1. fd + 1 \in 1 .. FdLimit /\ maxfd1 \in 1 .. FdLimit
      BY <1>step, <1>type DEF Sel!TypeOK, Sel!Fds, Sel!SelectConstants
    <3> QED
      BY <3>1, <1>1
  <2>5. 0 \in 0 .. FD_SETSIZE
    BY DEF Sel!SelectConstants
  <2> QED
    BY <2>1, <2>2, <2>3, <2>4, <2>5, <1>4, <1>take DEF Sel!TypeOK, Sel!SockInv
<1>11. Sel!OpenInv'
  <2>1. Sel!Open' = Sel!Open \cup {c}
    BY <1>take DEF Sel!Open
  <2>2. Sel!Open = {file[fe] : fe \in Sel!Fds \ Sel!FreeFds}
    BY <1>step DEF Sel!SelectInv, Sel!OpenInv, Sel!Running
  <2>3. \A fe \in Sel!Fds \ Sel!FreeFds : fe # fd /\ file'[fe] = file[fe]
    BY <1>step, <1>5 DEF Sel!FreeFds
  <2> QED
    BY <2>1, <2>2, <2>3, <1>5, <1>6 DEF Sel!OpenInv
<1>12. Sel!TurnInv'
  <2>1. ASSUME spc' = "scan", NEW j \in Sel!Used', client'[j] \in rset
        PROVE  Sel!Readable(file[client[j]])'
    <3>1. j \in Sel!Used /\ client'[j] = client[j]
      <4>1. fd \notin rset
        <5>1. fd \notin allset
          BY <1>1, <1>step DEF Sel!SelectInv, Sel!TableInv
        <5> QED
          BY <5>1, <1>step DEF Sel!SelectInv, Sel!TurnInv
      <4> QED
        BY <4>1, <2>1, <1>5, <1>7, <1>8
    <3>2. Sel!Readable(file[client[j]])
      BY <3>1, <2>1, <1>step, SelScanStarts
    <3>3. file'[client'[j]] = file[client[j]]
      BY <3>1, <1>8
    <3> QED
      BY <3>2, <3>3, <1>take DEF Sel!Readable, Sel!Unread
  <2> QED
    BY <2>1, <1>4 DEF Sel!TurnInv
<1>13. Sel!NothingLost'
  BY <1>step, <1>4, <1>take DEF Sel!SelectInv, Sel!NothingLost, Sel!Running
<1> QED
  BY <1>take, <1>9, <1>10, <1>11, <1>12, <1>13 DEF Sel!SelectInv

-----------------------------------------------------------------------------
(* The loop over the slots.                                                *)

(* What select reported of the slots behind this one stays, when the step  *)
(* is about this slot's connection and descriptor only.                    *)
LEMMA SelRestStays ==
  ASSUME Sel!SelectConstants, Sel!SelectInv, spc = "write" \/ (spc = "scan" /\ Sel!Ready),
         UNCHANGED <<cli, sent>>,
         \A d \in Conns : d # file[Sel!Here] => got'[d] = got[d],
         \A j \in Sel!Slots : j # slot => client'[j] = client[j],
         \A fd \in Sel!Fds : fd # Sel!Here => file'[fd] = file[fd],
         NEW i \in Sel!Used, i > slot, client[i] \in rset
  PROVE  Sel!Readable(file[client[i]])'
<1>1. slot \in Nat /\ i \in Nat /\ i \in Sel!Slots /\ client[i] # Sel!NoFd /\ slot \in Sel!Used
  BY SelHereIsOpen DEF Sel!Used, Sel!Slots
<1>2. /\ client[i] \in Sel!Fds /\ file[client[i]] \in Conns
      /\ Sel!Readable(file[client[i]])
  BY <1>1, SelSlotIsOpen DEF Sel!SelectInv, Sel!TurnInv
<1>3. file[client[i]] # file[Sel!Here] /\ i # slot
  BY <1>1, SelHereIsOpen DEF Sel!SelectInv, Sel!TableInv, Sel!Here
<1>4. client'[i] = client[i] /\ file'[client[i]] = file[client[i]]
  BY <1>1, <1>2, <1>3
<1> PICK d \in Conns : d = file[client[i]]
  BY <1>2
<1>5. got'[d] = got[d] /\ cli' = cli /\ sent' = sent /\ Sel!Readable(d)
  BY <1>2, <1>3
<1>6. Sel!Readable(d)'
  BY <1>5 DEF Sel!Readable, Sel!Unread
<1> QED
  BY <1>4, <1>6

LEMMA SelReadKeeps == ASSUME Sel!SelectConstants, Sel!SelectInv, Sel!ReadSome PROVE Sel!SelectInv'
<1>type. Sel!TypeOK /\ Sel!SockTypeOK
  BY DEF Sel!SelectInv, Sel!TypeOK
<1>step. /\ spc = "scan" /\ Sel!Ready /\ spc' = "write"
         /\ n' \in 1 .. MaxSend /\ Sel!Read(file[Sel!Here], n')
         /\ nDeal' = nDeal + 1
         /\ UNCHANGED <<file, client, nUserful, allset, maxfd1, rset, nReady, slot>>
  BY DEF Sel!ReadSome, Sel!InScan, Sel!tableVars
<1>1. /\ slot \in Sel!Used /\ slot \in Sel!Slots /\ slot \in Nat
      /\ Sel!Here \in Sel!Fds /\ file[Sel!Here] \in Conns
  BY <1>step, SelHereIsOpen
<1> PICK c \in Conns : c = file[Sel!Here]
  BY <1>1
<1>2. /\ got'[c] = got[c] + n' /\ \A d \in Conns : d # c => got'[d] = got[d]
      /\ UNCHANGED <<backlog, conn, cli, sent, echoed>>
      /\ Sel!SockInv'
  BY <1>step, Sel!ReadKeepsSock DEF Sel!SelectInv
<1>3. nDeal <= slot /\ nDeal \in Nat /\ nDeal' \in 0 .. FD_SETSIZE
  BY <1>step, <1>1, <1>type
     DEF Sel!SelectInv, Sel!TurnInv, Sel!TypeOK, Sel!Slots, Sel!SelectConstants
<1>4. Sel!TypeOK'
  BY <1>step, <1>2, <1>3, <1>type DEF Sel!TypeOK, Sel!SockInv
<1>5. Sel!TableInv' /\ Sel!OpenInv' /\ Sel!Used' = Sel!Used
  BY <1>step, <1>2, SelTablesStay DEF Sel!tableVars, Sel!Running
<1>6. Sel!TurnInv'
  <2>1. nDeal' <= slot' + 1 /\ n' > 0 /\ Sel!Here' # Sel!NoFd
    BY <1>step, <1>1, <1>3, SelSlotsFinite DEF Sel!Here
  <2>2. \A i \in Sel!Used : i > slot /\ client[i] \in rset => Sel!Readable(file[client[i]])'
    BY <1>step, <1>2, SelRestStays
  <2> QED
    BY <1>step, <1>5, <2>1, <2>2 DEF Sel!TurnInv
<1>7. Sel!NothingLost'
  <2>1. \A d \in Conns : got[d] - echoed[d] = 0
    BY <1>step DEF Sel!SelectInv, Sel!NothingLost, Sel!Running
  <2>2. \A d \in Conns : got[d] \in Nat /\ echoed[d] \in Nat
    BY <1>type DEF Sel!SockTypeOK
  <2>3. Sel!Here' = Sel!Here /\ file'[Sel!Here] = c
    BY <1>step DEF Sel!Here
  <2>4. n' \in Nat
    BY <1>step
  <2>5. got'[c] - echoed'[c] = n' /\ \A d \in Conns : d # c => got'[d] - echoed'[d] = 0
    BY <2>1, <2>2, <2>4, <1>2
  <2> QED
    BY <2>3, <2>5, <1>step DEF Sel!NothingLost
<1> QED
  BY <1>2, <1>4, <1>5, <1>6, <1>7 DEF Sel!SelectInv

LEMMA SelWriteKeeps == ASSUME Sel!SelectConstants, Sel!SelectInv, Sel!WriteBack PROVE Sel!SelectInv'
<1>type. Sel!TypeOK /\ Sel!SockTypeOK
  BY DEF Sel!SelectInv, Sel!TypeOK
<1>step. /\ spc = "write" /\ Sel!Write(file[Sel!Here], n)
         /\ Sel!EndTurn(nReady - 1, nDeal, nUserful)
         /\ UNCHANGED <<file, client, nUserful, allset, maxfd1>>
  BY DEF Sel!WriteBack, Sel!tableVars
<1>1. /\ slot \in Sel!Used /\ slot \in Nat /\ file[Sel!Here] \in Conns
  BY <1>step, SelHereIsOpen
<1> PICK c \in Conns : c = file[Sel!Here]
  BY <1>1
<1>2. got[c] - echoed[c] = n /\ n \in 0 .. MaxSend
  BY <1>step, <1>type DEF Sel!SelectInv, Sel!NothingLost, Sel!TypeOK, Sel!Running
<1>3. /\ echoed'[c] = got[c] /\ \A d \in Conns : d # c => echoed'[d] = echoed[d]
      /\ UNCHANGED <<backlog, conn, cli, sent, got>>
      /\ Sel!SockInv'
  BY <1>step, <1>2, Sel!WriteKeepsSock DEF Sel!SelectInv
<1>4. /\ spc' \in {"select", "scan"} /\ rset' \subseteq Sel!Fds \cup {Sel!listenfd}
      /\ nReady' \in 0 .. FdLimit /\ slot' \in Sel!Slots /\ nDeal' \in 0 .. FD_SETSIZE /\ n' = 0
      /\ spc' = "select" => rset' = {} /\ slot' = 0 /\ nDeal' = 0
      /\ spc' = "scan" => slot' = slot + 1 /\ rset' = rset /\ nDeal' = nDeal
  <2>1. nReady \in Nat /\ nDeal \in Nat /\ nDeal <= slot + 1
    BY <1>step, <1>type DEF Sel!TypeOK, Sel!SelectInv, Sel!TurnInv
  <2>2. nReady - 1 \in Int /\ nReady - 1 <= nReady
    BY <2>1
  <2> QED
    BY <1>step, <1>type, <2>1, <2>2, SelEndTurnType
<1>5. Sel!TypeOK'
  <2>1. 0 \in 0 .. MaxSend
    BY Sel!SocketConstants
  <2> QED
    BY <2>1, <1>step, <1>3, <1>4, <1>type DEF Sel!TypeOK, Sel!SockInv
<1>6. Sel!TableInv' /\ Sel!OpenInv' /\ Sel!Used' = Sel!Used
  BY <1>step, <1>3, SelTablesStay DEF Sel!tableVars, Sel!Running
<1>7. Sel!TurnInv'
  <2>1. ASSUME NEW i \in Sel!Used, i >= slot + 1, client[i] \in rset
        PROVE  Sel!Readable(file[client[i]])'
    <3>1. i > slot
      BY <2>1, <1>1 DEF Sel!Used, Sel!Slots
    <3> QED
      BY <3>1, <2>1, <1>step, <1>3, SelRestStays
  <2>2. nDeal <= slot + 1
    BY <1>step DEF Sel!SelectInv, Sel!TurnInv
  <2> QED
    BY <2>1, <2>2, <1>1, <1>4, <1>6, <1>step DEF Sel!TurnInv
<1>8. Sel!NothingLost'
  <2>1. \A d \in Conns : d # c => got[d] - echoed[d] = 0
    BY <1>step DEF Sel!SelectInv, Sel!NothingLost, Sel!Running
  <2>2. got[c] - echoed'[c] = 0
    BY <1>3, <1>type DEF Sel!SockTypeOK
  <2>3. \A d \in Conns : got'[d] - echoed'[d] = 0
    BY <2>1, <2>2, <1>3
  <2> QED
    BY <2>3, <1>4 DEF Sel!NothingLost
<1> QED
  BY <1>3, <1>5, <1>6, <1>7, <1>8 DEF Sel!SelectInv

LEMMA SelReadEndKeeps == ASSUME Sel!SelectConstants, Sel!SelectInv, Sel!ReadEnd PROVE Sel!SelectInv'
<1> USE SelSlotsFinite
<1>type. Sel!TypeOK /\ Sel!SockTypeOK
  BY DEF Sel!SelectInv, Sel!TypeOK
<1>step. /\ spc = "scan" /\ Sel!Ready /\ Sel!Close(file[Sel!Here])
         /\ file' = [file EXCEPT ![Sel!Here] = NoConn]
         /\ allset' = allset \ {Sel!Here}
         /\ client' = [client EXCEPT ![slot] = Sel!NoFd]
         /\ nUserful' = nUserful - 1
         /\ Sel!EndTurn(nReady - 1, nDeal + 1, nUserful - 1)
         /\ maxfd1' = maxfd1
  BY DEF Sel!ReadEnd, Sel!InScan
<1>1. /\ slot \in Sel!Used /\ slot \in Sel!Slots /\ slot \in Nat
      /\ Sel!Here \in Sel!Fds \ Sel!FreeFds
      /\ file[Sel!Here] \in Conns /\ conn[file[Sel!Here]] = "open"
  BY <1>step, SelHereIsOpen
<1> PICK c \in Conns : c = file[Sel!Here]
  BY <1>1
<1> PICK fd \in Sel!Fds \ Sel!FreeFds : fd = client[slot] /\ fd = Sel!Here
  BY <1>1 DEF Sel!Here
<1>2. /\ conn'[c] = "closed" /\ \A d \in Conns : d # c => conn'[d] = conn[d]
      /\ UNCHANGED <<backlog, cli, sent, got, echoed>>
      /\ Sel!SockInv'
  <2>1. /\ conn' = [conn EXCEPT ![c] = "closed"]
        /\ UNCHANGED <<backlog, cli, sent, got, echoed>>
    BY <1>step DEF Sel!Close, Sel!streamVars
  <2>2. conn'[c] = "closed" /\ \A d \in Conns : d # c => conn'[d] = conn[d]
    BY <2>1, <1>type DEF Sel!SockTypeOK
  <2>3. Sel!SockInv'
    BY <2>1, <2>2, <1>1, <1>type, Sel!EndKeepsSock DEF Sel!SelectInv, Sel!SockTypeOK
  <2> QED
    BY <2>1, <2>2, <2>3
<1>3. /\ client'[slot] = Sel!NoFd /\ \A j \in Sel!Slots : j # slot => client'[j] = client[j]
      /\ file'[fd] = NoConn /\ \A fe \in Sel!Fds : fe # fd => file'[fe] = file[fe]
  BY <1>step, <1>1, <1>type DEF Sel!TypeOK
<1>4. (Sel!Fds \ Sel!FreeFds)' = (Sel!Fds \ Sel!FreeFds) \ {fd}
  BY <1>3 DEF Sel!FreeFds
<1>5. Sel!Used' = Sel!Used \ {slot}
  BY <1>1, <1>3 DEF Sel!Used
<1>6. \A j \in Sel!Used \ {slot} :
         /\ client[j] \in Sel!Fds \ Sel!FreeFds /\ client[j] # fd
         /\ client'[j] = client[j] /\ file'[client[j]] = file[client[j]]
  <2> TAKE j \in Sel!Used \ {slot}
  <2>1. /\ client[j] \in Sel!Fds \ Sel!FreeFds
        /\ file[client[j]] # file[client[slot]]
        /\ j \in Sel!Slots
    BY <1>1 DEF Sel!SelectInv, Sel!TableInv, Sel!Used
  <2> QED
    BY <2>1, <1>3
<1>7. /\ spc' \in {"select", "scan"} /\ rset' \subseteq Sel!Fds \cup {Sel!listenfd}
      /\ nReady' \in 0 .. FdLimit /\ slot' \in Sel!Slots /\ nDeal' \in 0 .. FD_SETSIZE /\ n' = 0
      /\ spc' = "select" => rset' = {} /\ slot' = 0 /\ nDeal' = 0
      /\ spc' = "scan" => slot' = slot + 1 /\ rset' = rset /\ nDeal' = nDeal + 1
  <2>1. nReady \in Nat /\ nDeal \in Nat /\ nDeal <= slot
    BY <1>step, <1>type DEF Sel!TypeOK, Sel!SelectInv, Sel!TurnInv
  <2>2. nReady - 1 \in Int /\ nReady - 1 <= nReady /\ nDeal + 1 \in Nat /\ nDeal + 1 <= slot + 1
    BY <2>1, <1>1
  <2> QED
    BY <1>step, <1>type, <2>2, SelEndTurnType
<1>8. Sel!TableInv'
  <2>1. allset' = {Sel!listenfd} \cup (Sel!Fds \ Sel!FreeFds)'
    BY <1>step, <1>4 DEF Sel!SelectInv, Sel!TableInv
  <2>2. \A fe \in allset' : fe < maxfd1'
    BY <1>step DEF Sel!SelectInv, Sel!TableInv
  <2>3. \A j \in Sel!Used' : client'[j] \in (Sel!Fds \ Sel!FreeFds)'
    BY <1>4, <1>5, <1>6
  <2>4. ASSUME NEW fe \in (Sel!Fds \ Sel!FreeFds)'
        PROVE  \E j \in Sel!Used' : client'[j] = fe
    <3>1. PICK j \in Sel!Used : client[j] = fe
      BY <2>4, <1>4 DEF Sel!SelectInv, Sel!TableInv
    <3>2. j # slot
      BY <3>1, <2>4, <1>4
    <3> QED
      BY <3>1, <3>2, <1>5, <1>6
  <2>5. \A j, l \in Sel!Used' : file'[client'[j]] = file'[client'[l]] => j = l
    BY <1>5, <1>6 DEF Sel!SelectInv, Sel!TableInv
  <2>6. nUserful' = Sel!Cardinality(Sel!Used')
    <3>1. Sel!IsFiniteSet(Sel!Used) /\ nUserful = Sel!Cardinality(Sel!Used)
      BY DEF Sel!Used, Sel!SelectInv, Sel!TableInv
    <3> QED
      BY <3>1, <1>step, <1>1, <1>5, Sel!FS_RemoveElement
  <2> QED
    BY <2>1, <2>2, <2>3, <2>4, <2>5, <2>6 DEF Sel!TableInv
<1>9. Sel!TypeOK'
  <2>1. nUserful' \in 0 .. FD_SETSIZE
    BY <1>8 DEF Sel!TableInv, Sel!Used
  <2>2. /\ client' \in [Sel!Slots -> Sel!Fds \cup {Sel!NoFd}]
        /\ file' \in [Sel!Fds -> Conns \cup {NoConn}]
    BY <1>step, <1>type DEF Sel!TypeOK
  <2>3. allset' \subseteq Sel!Fds \cup {Sel!listenfd} /\ 0 \in 0 .. MaxSend
    BY <1>step, <1>type, Sel!SocketConstants DEF Sel!TypeOK
  <2> QED
    BY <2>1, <2>2, <2>3, <1>2, <1>7, <1>step, <1>type DEF Sel!TypeOK, Sel!SockInv
<1>10. Sel!OpenInv'
  <2>1. Sel!Open' = Sel!Open \ {c}
    BY <1>1, <1>2 DEF Sel!Open
  <2>2. Sel!Open = {file[fe] : fe \in Sel!Fds \ Sel!FreeFds}
    BY <1>step DEF Sel!SelectInv, Sel!OpenInv, Sel!Running
  <2>3. \A fe \in (Sel!Fds \ Sel!FreeFds)' : file'[fe] = file[fe] /\ file[fe] # c
    <3> TAKE fe \in (Sel!Fds \ Sel!FreeFds)'
    <3>1. PICK j \in Sel!Used : client[j] = fe
      BY <1>4 DEF Sel!SelectInv, Sel!TableInv
    <3>2. j # slot
      BY <3>1, <1>4
    <3>3. file[client[j]] # file[client[slot]]
      BY <3>1, <3>2, <1>1 DEF Sel!SelectInv, Sel!TableInv
    <3> QED
      BY <3>1, <3>2, <3>3, <1>6
  <2>4. \A fe \in Sel!Fds \ Sel!FreeFds : file[fe] # c => fe \in (Sel!Fds \ Sel!FreeFds)'
    BY <1>4
  <2>5. Sel!Open' = {file'[fe] : fe \in (Sel!Fds \ Sel!FreeFds)'}
    BY <2>1, <2>2, <2>3, <2>4, <1>4
  <2> QED
    BY <2>5 DEF Sel!OpenInv
<1>11. Sel!TurnInv'
  <2>1. ASSUME NEW i \in Sel!Used', i >= slot + 1, client'[i] \in rset
        PROVE  Sel!Readable(file[client[i]])'
    <3>1. i \in Sel!Used /\ i > slot /\ client'[i] = client[i]
      BY <2>1, <1>1, <1>5, <1>6 DEF Sel!Used, Sel!Slots
    <3> QED
      BY <3>1, <2>1, <1>step, <1>2, <1>3, SelRestStays
  <2>2. nDeal + 1 <= slot + 1
    BY <1>step, <1>1, <1>type DEF Sel!SelectInv, Sel!TurnInv, Sel!TypeOK
  <2> QED
    BY <2>1, <2>2, <1>1, <1>7 DEF Sel!TurnInv
<1>12. Sel!NothingLost'
  BY <1>step, <1>2, <1>7 DEF Sel!SelectInv, Sel!NothingLost, Sel!Running
<1> QED
  BY <1>2, <1>8, <1>9, <1>10, <1>11, <1>12 DEF Sel!SelectInv

(* accept fails for want of a descriptor, or SIGPIPE: the process is gone. *)
LEMMA SelEndKeeps ==
  ASSUME Sel!SelectConstants, Sel!SelectInv, Sel!AcceptError \/ Sel!BrokenPipe
  PROVE  Sel!SelectInv'
<1>type. Sel!TypeOK /\ Sel!SockTypeOK
  BY DEF Sel!SelectInv, Sel!TypeOK
<1>1. /\ spc' = "exited" /\ backlog' = <<>>
      /\ conn' = [c \in Conns |-> IF conn[c] \in {"queued", "open"} THEN "closed" ELSE conn[c]]
      /\ UNCHANGED <<cli, sent, got, echoed, file, client, nUserful, allset, maxfd1>>
      /\ UNCHANGED <<rset, nReady, slot, nDeal, n>>
  BY DEF Sel!AcceptError, Sel!BrokenPipe, Sel!ProcessEnds, Sel!streamVars, Sel!tableVars,
         Sel!loopVars
<1>2. Sel!SockInv'
  BY <1>1, <1>type, Sel!EndKeepsSock DEF Sel!SelectInv, Sel!SockTypeOK
<1>3. Sel!TypeOK'
  BY <1>1, <1>2, <1>type DEF Sel!TypeOK, Sel!SockInv
<1>4. Sel!TableInv'
  BY <1>1 DEF Sel!SelectInv, Sel!TableInv, Sel!Used, Sel!FreeFds
<1>5. Sel!OpenInv' /\ Sel!TurnInv' /\ Sel!NothingLost'
  BY <1>1 DEF Sel!OpenInv, Sel!TurnInv, Sel!NothingLost, Sel!Running
<1> QED
  BY <1>2, <1>3, <1>4, <1>5 DEF Sel!SelectInv

LEMMA SelStepKeeps ==
  Sel!SelectConstants /\ Sel!SelectInv /\ [Sel!Next]_(Sel!vars) => Sel!SelectInv'
<1> SUFFICES ASSUME Sel!SelectConstants, Sel!SelectInv, [Sel!Next]_(Sel!vars) PROVE Sel!SelectInv'
  OBVIOUS
<1>1. CASE UNCHANGED Sel!vars
  <2>1. Sel!SockInv'
    BY <1>1, Sel!SockStutters DEF Sel!vars, Sel!SelectInv
  <2>2. Sel!TypeOK'
    BY <1>1, <2>1
       DEF Sel!vars, Sel!tableVars, Sel!loopVars, Sel!SelectInv, Sel!TypeOK, Sel!SockInv
  <2>3. Sel!TableInv' /\ Sel!OpenInv' /\ Sel!Used' = Sel!Used
    BY <1>1, SelTablesStay DEF Sel!vars, Sel!sockVars, Sel!Running
  <2>4. Sel!TurnInv'
    BY <1>1, <2>3
       DEF Sel!vars, Sel!tableVars, Sel!loopVars, Sel!sockVars, Sel!streamVars, Sel!SelectInv,
           Sel!TurnInv, Sel!IsReady, Sel!Readable, Sel!Unread, Sel!Here
  <2>5. Sel!NothingLost'
    BY <1>1
       DEF Sel!vars, Sel!tableVars, Sel!loopVars, Sel!sockVars, Sel!streamVars, Sel!SelectInv,
           Sel!NothingLost, Sel!Running, Sel!Here
  <2> QED
    BY <2>1, <2>2, <2>3, <2>4, <2>5 DEF Sel!SelectInv
<1>2. CASE Sel!ServerStep
  BY <1>2, SelKeeps, SelNotListenKeeps, SelPassKeeps, SelAcceptKeeps, SelReadKeeps,
     SelWriteKeeps, SelReadEndKeeps, SelEndKeeps
     DEF Sel!ServerStep
<1>3. ASSUME NEW c \in Conns, Sel!ClientStep(c, spc # "exited"),
             UNCHANGED <<spc, Sel!tableVars, Sel!loopVars>>
      PROVE  Sel!SelectInv'
  BY <1>3, SelClientKeeps
<1> QED
  BY <1>1, <1>2, <1>3 DEF Sel!Next


(* What the invariant says of the server: its tables agree, client[] has   *)
(* room for one more, and select is where it waits.                        *)
LEMMA SelShows ==
  ASSUME Sel!SelectConstants, Sel!SelectInv
  PROVE  Sel!TypeOK /\ Sel!TablesAgree /\ Sel!NeverBlocks /\ Sel!NothingLost
<1>type. Sel!TypeOK
  BY DEF Sel!SelectInv
<1>1. Sel!Used # Sel!Slots
  <2> SUFFICES ASSUME Sel!Used = Sel!Slots PROVE FALSE
    OBVIOUS
  <2>1. \A i \in Sel!Slots : client[i] \in Sel!Fds
    BY DEF Sel!SelectInv, Sel!TableInv
  <2>2. client \in [Sel!Slots -> Sel!Fds]
    BY <2>1, <1>type DEF Sel!TypeOK
  <2>3. /\ Sel!IsFiniteSet(Sel!Slots) /\ Sel!IsFiniteSet(Sel!Fds)
        /\ Sel!Cardinality(Sel!Fds) < Sel!Cardinality(Sel!Slots)
    BY SelSlotsFinite DEF Sel!SelectConstants
  <2>4. \E i, j \in Sel!Slots : i # j /\ client[i] = client[j]
    BY <2>2, <2>3, Sel!FS_PigeonHole
  <2> QED
    BY <2>4 DEF Sel!SelectInv, Sel!TableInv
<1>2. Sel!TablesAgree
  <2> SUFFICES ASSUME spc # "exited" PROVE Sel!TablesAgree
    BY DEF Sel!TablesAgree, Sel!Running
  <2> DEFINE used == {i \in Sel!Slots : client[i] # Sel!NoFd}
  <2>1. used = Sel!Used
    BY DEF Sel!Used
  <2>2. /\ Sel!listenfd \in allset /\ \A fd \in allset : fd < maxfd1
        /\ allset \ {Sel!listenfd} = Sel!Fds \ Sel!FreeFds
    BY SelSlotsFinite DEF Sel!SelectInv, Sel!TableInv
  <2>3. {client[i] : i \in Sel!Used} = Sel!Fds \ Sel!FreeFds
    BY DEF Sel!SelectInv, Sel!TableInv
  <2>4. {c \in Conns : conn[c] = "open"} = {file[fd] : fd \in Sel!Fds \ Sel!FreeFds}
    BY DEF Sel!SelectInv, Sel!OpenInv, Sel!Open, Sel!Running
  <2>5. /\ \A i, j \in Sel!Used : i # j => file[client[i]] # file[client[j]]
        /\ nUserful = Sel!Cardinality(Sel!Used)
    BY DEF Sel!SelectInv, Sel!TableInv
  <2> QED
    BY <2>1, <2>2, <2>3, <2>4, <2>5, <1>1 DEF Sel!TablesAgree
<1>3. Sel!NeverBlocks
  <2>1. spc = "listen" /\ Sel!listenfd \in rset => backlog # <<>>
    BY DEF Sel!SelectInv, Sel!TurnInv, Sel!IsReady
  <2>2. ASSUME spc = "scan", Sel!Ready
        PROVE  file[Sel!Here] # NoConn /\ Sel!Readable(file[Sel!Here])
    <3>1. slot \in Sel!Used /\ slot >= slot
      BY <2>2, <1>type DEF Sel!Ready, Sel!Here, Sel!Used, Sel!TypeOK, Sel!Slots
    <3>2. Sel!Readable(file[client[slot]])
      BY <2>2, <3>1 DEF Sel!SelectInv, Sel!TurnInv, Sel!Ready, Sel!Here
    <3>3. client[slot] \in Sel!Fds \ Sel!FreeFds
      BY <3>1 DEF Sel!SelectInv, Sel!TableInv
    <3> QED
      BY <3>2, <3>3 DEF Sel!Here, Sel!FreeFds
  <2> QED
    BY <2>1, <2>2 DEF Sel!NeverBlocks
<1> QED
  BY <1>type, <1>2, <1>3 DEF Sel!SelectInv

(* The loop serves its clients right, in every environment: clients        *)
(* vanish, descriptors run out, numbers are used again (dd.cpp:59-145).    *)
THEOREM SelectServerIsRight ==
  Sel!Spec => [](Sel!TypeOK /\ Sel!TablesAgree /\ Sel!NeverBlocks /\ Sel!NothingLost)
<1>1. Sel!SelectConstants
  BY EventLoopConstants
<1>2. Sel!Init => Sel!SelectInv
  BY <1>1, SelInit
<1>3. Sel!SelectInv /\ [Sel!Next]_(Sel!vars) => Sel!SelectInv'
  BY <1>1, SelStepKeeps
<1>4. Sel!SelectInv => Sel!TypeOK /\ Sel!TablesAgree /\ Sel!NeverBlocks /\ Sel!NothingLost
  BY <1>1, SelShows
<1> QED
  BY <1>2, <1>3, <1>4, PTL DEF Sel!Spec

-----------------------------------------------------------------------------
(* The refinement.                                                         *)

(* With a descriptor for each client, one is free for a client that waits: *)
(* no two descriptors are of one connection.                               *)
LEMMA SelDescriptorFree ==
  ASSUME Sel!SelectConstants, server = "select", Healthy, Sel!SelectInv, spc # "exited",
         backlog # <<>>
  PROVE  Sel!FreeFds # {}
<1> USE Sel!SocketConstants
<1>type. Sel!TypeOK /\ Sel!SockTypeOK
  BY DEF Sel!SelectInv, Sel!TypeOK
<1> DEFINE h == Head(backlog)
           Others == Conns \ {h}
<1>1. h \in Conns /\ conn[h] = "queued"
  <2>1. 1 \in DOMAIN backlog /\ h = backlog[1]
    BY <1>type DEF Sel!SockTypeOK
  <2> QED
    BY <2>1, <1>type DEF Sel!SockTypeOK, Sel!SelectInv, Sel!SockInv
<1>2. SUFFICES ASSUME Sel!FreeFds = {} PROVE FALSE
  OBVIOUS
<1>3. file \in [Sel!Fds -> Others]
  <2>1. ASSUME NEW fd \in Sel!Fds PROVE file[fd] \in Conns /\ conn[file[fd]] = "open"
    <3>1. PICK i \in Sel!Used : client[i] = fd
      BY <1>2 DEF Sel!SelectInv, Sel!TableInv
    <3> QED
      BY <3>1, SelSlotIsOpen DEF Sel!Used, Sel!Running
  <2> QED
    BY <2>1, <1>1, <1>type DEF Sel!TypeOK
<1>4. Sel!IsFiniteSet(Others) /\ Sel!Cardinality(Others) = Sel!Cardinality(Conns) - 1
  BY <1>1, Sel!FS_RemoveElement DEF Healthy, IsFiniteSet, Sel!IsFiniteSet
<1>5. Sel!IsFiniteSet(Sel!Fds) /\ Sel!Cardinality(Sel!Fds) = FdLimit - 1
  BY SelSlotsFinite
<1>6. Sel!Cardinality(Others) < Sel!Cardinality(Sel!Fds)
  <2>1. FdLimit \in Nat
    BY DEF Sel!SelectConstants
  <2>2. Sel!Cardinality(Conns) < FdLimit /\ Sel!Cardinality(Conns) \in Nat
    BY FS_CardinalityType DEF Healthy, Cardinality, Sel!Cardinality
  <2> QED
    BY <1>4, <1>5, <2>1, <2>2
<1> HIDE DEF Others
<1>7. PICK fd, fe \in Sel!Fds : fd # fe /\ file[fd] = file[fe]
  BY <1>3, <1>4, <1>5, <1>6, Sel!FS_PigeonHole
<1>8. PICK i \in Sel!Used : client[i] = fd
  BY <1>2 DEF Sel!SelectInv, Sel!TableInv
<1>9. PICK j \in Sel!Used : client[j] = fe
  BY <1>2 DEF Sel!SelectInv, Sel!TableInv
<1> QED
  BY <1>7, <1>8, <1>9 DEF Sel!SelectInv, Sel!TableInv

(* Then the process never ends.                                            *)
SelRuns == spc # "exited" /\ Sel!NobodyGone

LEMMA SelNeverEnds ==
  ASSUME Sel!SelectConstants, server = "select", Healthy, Sel!SelectInv, SelRuns
  PROVE  ~Sel!AcceptError /\ ~Sel!BrokenPipe
<1>1. ~Sel!AcceptError
  BY SelDescriptorFree DEF Sel!AcceptError, SelRuns
<1>2. ~Sel!BrokenPipe
  BY SelHereIsOpen DEF Sel!BrokenPipe, Sel!Breaks, SelRuns, Sel!NobodyGone
<1> QED
  BY <1>1, <1>2

LEMMA SelStillRuns ==
  ASSUME Sel!SelectConstants, server = "select", Healthy, Sel!SelectInv, SelRuns,
         [Sel!Next]_(Sel!vars)
  PROVE  SelRuns'
<1>type. Sel!SockTypeOK
  BY DEF Sel!SelectInv, Sel!TypeOK
<1>1. CASE UNCHANGED Sel!vars
  BY <1>1 DEF Sel!vars, Sel!sockVars, SelRuns, Sel!NobodyGone
<1>2. CASE Sel!ServerStep
  BY <1>2, SelNeverEnds
     DEF Sel!ServerStep, Sel!Select, Sel!NotListen, Sel!Accept, Sel!Pass, Sel!ReadSome,
         Sel!ReadEnd, Sel!WriteBack, Sel!Begin, Sel!EndTurn, Sel!Again, Sel!Take, Sel!Read,
         Sel!Write, Sel!Close, Sel!sockVars, SelRuns, Sel!NobodyGone
<1>3. ASSUME NEW c \in Conns, Sel!ClientStep(c, spc # "exited"),
             UNCHANGED <<spc, Sel!tableVars, Sel!loopVars>>
      PROVE  SelRuns'
  BY <1>3, <1>type, Sel!NobodyGoes DEF SelRuns, Healthy
<1> QED
  BY <1>1, <1>2, <1>3 DEF Sel!Next

LEMMA SelInitRefines ==
  ASSUME Sel!SelectConstants, server = "select", Sel!Init
  PROVE  Service!SInit /\ SelRuns
<1>1. Side = [c \in Conns |-> "on"]
  BY Sel!SockInitInv DEF Sel!Init, Sel!Side, Side
<1>2. Capacity \in Nat \ {0}
  BY DEF Sel!SelectConstants, Capacity
<1> QED
  BY <1>1, <1>2 DEF Sel!Init, Sel!SockInit, Service!SInit, SelRuns, Sel!NobodyGone

(* The server takes a connection, writes back or closes; every other step  *)
(* of it is a stutter of the service.                                      *)
LEMMA SelServerStepRefines ==
  ASSUME Capacity' = Capacity, Sel!SelectConstants, server = "select", Healthy,
         Sel!SelectInv, SelRuns, Sel!ServerStep
  PROVE  [Service!SNext]_(Service!svars)
<1>type. Sel!TypeOK /\ Sel!SockTypeOK
  BY DEF Sel!SelectInv, Sel!TypeOK
<1>1. ~Sel!AcceptError /\ ~Sel!BrokenPipe
  BY SelNeverEnds
<1>2. Side' = Side
  <2>1. cli' = cli
    BY <1>1
       DEF Sel!ServerStep, Sel!Select, Sel!NotListen, Sel!Accept, Sel!Pass, Sel!ReadSome,
           Sel!ReadEnd, Sel!WriteBack, Sel!Take, Sel!Read, Sel!Write, Sel!Close, Sel!sockVars
  <2> QED
    BY <2>1 DEF Side
<1>3. CASE Sel!Select \/ Sel!NotListen \/ Sel!Pass
  BY <1>3, <1>2
     DEF Sel!Select, Sel!NotListen, Sel!Pass, Sel!sockVars, Sel!streamVars, Service!svars
<1>4. CASE Sel!Accept
  <2>1. /\ Head(backlog) \in Conns /\ conn[Head(backlog)] = "queued"
        /\ conn' = [conn EXCEPT ![Head(backlog)] = "open"]
        /\ UNCHANGED <<sent, echoed>>
    BY <1>4, Sel!TakeKeepsSock DEF Sel!Accept, Sel!SelectInv
  <2>2. Service!Admit(Head(backlog))
    BY <2>1, <1>2 DEF Service!Admit, Service!Become
  <2> QED
    BY <2>1, <2>2 DEF Service!SNext
<1>5. CASE Sel!ReadSome
  BY <1>5, <1>2 DEF Sel!ReadSome, Sel!Read, Service!svars
<1>6. CASE Sel!WriteBack
  <2>1. /\ file[Sel!Here] \in Conns /\ conn[file[Sel!Here]] = "open"
        /\ echoed' = [echoed EXCEPT ![file[Sel!Here]] = @ + n]
        /\ UNCHANGED <<conn, sent>>
    BY <1>6, SelHereIsOpen DEF Sel!WriteBack, Sel!Write
  <2> PICK c \in Conns : c = file[Sel!Here]
    BY <2>1
  <2>2. n \in 1 .. sent[c] - echoed[c]
    <3>1. /\ n \in 0 .. MaxSend /\ n > 0
          /\ sent[c] \in 0 .. MaxSend /\ echoed[c] \in 0 .. MaxSend /\ got[c] \in 0 .. MaxSend
          /\ got[c] - echoed[c] = n /\ got[c] <= sent[c]
      BY <1>6, <1>type
         DEF Sel!WriteBack, Sel!TypeOK, Sel!SockTypeOK, Sel!SelectInv, Sel!SockInv,
             Sel!TurnInv, Sel!NothingLost, Sel!Running
    <3> QED
      BY <3>1
  <2>3. Service!Echo(c)
    BY <2>1, <2>2, <1>2 DEF Service!Echo
  <2> QED
    BY <2>3 DEF Service!SNext
<1>7. CASE Sel!ReadEnd
  <2>1. /\ file[Sel!Here] \in Conns /\ conn[file[Sel!Here]] = "open"
        /\ Sel!AtEnd(file[Sel!Here]) /\ spc = "scan"
        /\ conn' = [conn EXCEPT ![file[Sel!Here]] = "closed"]
        /\ UNCHANGED <<sent, echoed>>
    BY <1>7, SelHereIsOpen DEF Sel!ReadEnd, Sel!InScan, Sel!Close, Sel!streamVars
  <2> PICK c \in Conns : c = file[Sel!Here]
    BY <2>1
  <2>2. cli[c] = "fin" /\ echoed[c] = sent[c]
    <3>1. cli[c] = "fin" /\ sent[c] - got[c] = 0 /\ got[c] - echoed[c] = 0
      BY <2>1
         DEF Sel!AtEnd, Sel!Unread, SelRuns, Sel!NobodyGone, Sel!SelectInv, Sel!NothingLost,
             Sel!Running
    <3>2. sent[c] \in Nat /\ got[c] \in Nat /\ echoed[c] \in Nat
      BY <1>type DEF Sel!SockTypeOK
    <3> QED
      BY <3>1, <3>2
  <2>3. Side[c] = "ended"
    BY <2>2 DEF Side
  <2>4. Service!HangUp(c)
    BY <2>1, <2>2, <2>3, <1>2 DEF Service!HangUp, Service!Become
  <2> QED
    BY <2>4 DEF Service!SNext
<1> QED
  BY <1>1, <1>3, <1>4, <1>5, <1>6, <1>7 DEF Sel!ServerStep

LEMMA SelClientStepRefines ==
  ASSUME Capacity' = Capacity, Healthy, Sel!SockInv, NEW c \in Conns, NEW listening,
         Sel!ClientStep(c, listening)
  PROVE  Service!SNext
<1>1. Service!Ask(c) \/ Service!Say(c) \/ Service!Leave(c, "ended")
  BY Sel!ClientSides
     DEF Healthy, Sel!Side, Side, Service!Ask, Service!Become, Service!Say, Service!Leave
<1> QED
  BY <1>1 DEF Service!SNext

(* Where no client vanishes and each may have a descriptor, the server is  *)
(* an echo service that refuses nobody: client[] never fills, so lines     *)
(* 97-100 are dead code.                                                   *)
LEMMA SelStepRefines ==
  ASSUME Sel!SelectConstants, server = "select", Healthy, Capacity' = Capacity,
         Sel!SelectInv, SelRuns, [Sel!Next]_(Sel!vars)
  PROVE  [Service!SNext]_(Service!svars)
<1>1. CASE UNCHANGED Sel!vars
  BY <1>1 DEF Sel!vars, Sel!sockVars, Sel!streamVars, Service!svars, Side
<1>2. CASE Sel!ServerStep
  BY <1>2, SelServerStepRefines
<1>3. ASSUME NEW c \in Conns, Sel!ClientStep(c, spc # "exited") PROVE Service!SNext
  BY <1>3, SelClientStepRefines DEF Sel!SelectInv
<1> QED
  BY <1>1, <1>2, <1>3 DEF Sel!Next

-----------------------------------------------------------------------------
(* POLL.  The inductive invariant is PollInv.                              *)

LEMMA PolSlotsFinite ==
  ASSUME Pol!PollConstants
  PROVE  /\ 0 \in Pol!Slots /\ Pol!listenfd # Pol!NoFd /\ Pol!listenfd \notin Pol!Fds
         /\ Pol!NoFd \notin Pol!Fds
         /\ \A S \in SUBSET Pol!Slots : /\ Pol!IsFiniteSet(S)
                                        /\ Pol!Cardinality(S) \in 0 .. POLL_MAXCLIENT
<1> USE DEF Pol!PollConstants, Pol!Slots, Pol!Fds, Pol!listenfd, Pol!NoFd
<1>1. Pol!IsFiniteSet(Pol!Slots) /\ Pol!Cardinality(Pol!Slots) = POLL_MAXCLIENT
  BY Pol!FS_Interval
<1>2. ASSUME NEW S \in SUBSET Pol!Slots
      PROVE  Pol!IsFiniteSet(S) /\ Pol!Cardinality(S) \in 0 .. POLL_MAXCLIENT
  <2>1. Pol!IsFiniteSet(S) /\ Pol!Cardinality(S) <= POLL_MAXCLIENT
    BY <1>1, Pol!FS_Subset
  <2> QED
    BY <2>1, Pol!FS_CardinalityType
<1> QED
  BY <1>2

LEMMA PolInit == Pol!PollConstants /\ Pol!Init => Pol!PollInv
<1> SUFFICES ASSUME Pol!PollConstants, Pol!Init PROVE Pol!PollInv
  OBVIOUS
<1> USE Pol!SocketConstants, PolSlotsFinite DEF Pol!Init
<1>1. Pol!SockInv
  BY Pol!SockInitInv
<1>2. Pol!TypeOK
  BY <1>1 DEF Pol!TypeOK, Pol!SockInv, Pol!Slots, Pol!PollConstants
<1>3. Pol!Used = {0} /\ Pol!FreeFds = Pol!Fds
  BY DEF Pol!Used, Pol!InUse, Pol!FreeFds
<1>4. Pol!TableInv
  BY <1>3, Pol!FS_Singleton DEF Pol!TableInv
<1>5. Pol!OpenInv
  <2>1. Pol!Open = {}
    BY DEF Pol!Open, Pol!SockInit
  <2> QED
    BY <1>3, <2>1, Pol!FS_EmptySet DEF Pol!OpenInv
<1>6. Pol!TurnInv /\ Pol!NothingLost
  BY DEF Pol!TurnInv, Pol!NothingLost, Pol!SockInit
<1> QED
  BY <1>1, <1>2, <1>4, <1>5, <1>6 DEF Pol!PollInv

-----------------------------------------------------------------------------
(* What the parts of the invariant say together.                           *)

(* A slot in use but the first has an open connection of its own.          *)
LEMMA PolSlotIsOpen ==
  ASSUME Pol!PollInv, NEW i \in Pol!Slots, i # 0, Pol!InUse(i)
  PROVE  /\ i \in Pol!Used \ {0}
         /\ client[i] \in Pol!Fds \ Pol!FreeFds /\ client[i] # Pol!listenfd
         /\ file[client[i]] \in Conns
         /\ spc # "exited" => conn[file[client[i]]] = "open"
<1>1. i \in Pol!Used \ {0} /\ client[i] \in Pol!Fds \ Pol!FreeFds
  BY DEF Pol!PollInv, Pol!TableInv, Pol!Used
<1>2. file[client[i]] \in Conns /\ client[i] # Pol!listenfd
  BY <1>1 DEF Pol!PollInv, Pol!TypeOK, Pol!FreeFds, Pol!Fds, Pol!listenfd
<1>3. spc # "exited" => file[client[i]] \in Pol!Open
  BY <1>1 DEF Pol!PollInv, Pol!OpenInv
<1> QED
  BY <1>1, <1>2, <1>3 DEF Pol!Open

(* The slot the loop is at, when poll reported it.                         *)
LEMMA PolHereIsOpen ==
  ASSUME Pol!PollInv, spc = "write" \/ (spc = "scan" /\ Pol!Ready)
  PROVE  /\ slot \in Pol!Used \ {0} /\ slot \in 1 .. POLL_MAXCLIENT - 1
         /\ Pol!Here \in Pol!Fds \ Pol!FreeFds
         /\ file[Pol!Here] \in Conns /\ conn[file[Pol!Here]] = "open"
         /\ spc = "scan" => Pol!Readable(file[Pol!Here])
<1>1. slot \in Pol!Slots /\ slot # 0 /\ Pol!InUse(slot) /\ slot \in 1 .. POLL_MAXCLIENT - 1
  BY DEF Pol!PollInv, Pol!TypeOK, Pol!TurnInv, Pol!Ready, Pol!Slots
<1>2. spc = "scan" => Pol!IsReady(client[slot])
  BY <1>1 DEF Pol!PollInv, Pol!TurnInv, Pol!Ready, Pol!First, Pol!Slots
<1> QED
  BY <1>1, <1>2, PolSlotIsOpen DEF Pol!Here, Pol!IsReady

(* The next slot, or the next poll: what is left of the turn stays true.   *)
LEMMA PolGoOnType ==
  ASSUME Pol!PollConstants, Pol!TypeOK, NEW i \in Nat, i > 0, NEW left \in Int, left <= nReady,
         Pol!GoOn(i, left)
  PROVE  /\ spc' \in {"poll", "scan"} /\ revents' \subseteq Pol!Slots
         /\ nReady' \in 0 .. POLL_MAXCLIENT
         /\ slot' \in Pol!Slots /\ n' = 0
         /\ spc' = "poll" => revents' = {}
         /\ spc' = "scan" => slot' = i /\ revents' = revents
<1> USE DEF Pol!PollConstants, Pol!Slots
<1>1. CASE Pol!Again
  BY <1>1 DEF Pol!Again
<1>2. CASE ~(left <= 0 \/ i >= POLL_MAXCLIENT)
  <2>1. spc' = "scan" /\ slot' = i /\ nReady' = left /\ n' = 0 /\ revents' = revents
    BY <1>2 DEF Pol!GoOn
  <2>2. revents \subseteq Pol!Slots /\ nReady \in 0 .. POLL_MAXCLIENT
    BY DEF Pol!TypeOK
  <2>3. left \in 0 .. POLL_MAXCLIENT /\ i \in Pol!Slots
    BY <1>2, <2>2
  <2> QED
    BY <2>1, <2>2, <2>3
<1> QED
  BY <1>1, <1>2 DEF Pol!GoOn

-----------------------------------------------------------------------------
(* The clients, and the steps that leave the tables alone.                 *)

LEMMA PolTablesStay ==
  ASSUME Pol!PollInv, UNCHANGED <<Pol!tableVars, conn>>, spc' # "exited" => spc # "exited"
  PROVE  Pol!TableInv' /\ Pol!OpenInv' /\ Pol!Used' = Pol!Used /\ Pol!FreeFds' = Pol!FreeFds
<1>1. Pol!Used' = Pol!Used /\ Pol!FreeFds' = Pol!FreeFds /\ Pol!Open' = Pol!Open
  BY DEF Pol!tableVars, Pol!Used, Pol!InUse, Pol!FreeFds, Pol!Open
<1>2. Pol!TableInv'
  BY <1>1 DEF Pol!PollInv, Pol!TableInv, Pol!tableVars
<1>3. Pol!OpenInv'
  BY <1>1 DEF Pol!PollInv, Pol!OpenInv, Pol!tableVars
<1> QED
  BY <1>1, <1>2, <1>3

(* What was ready stays ready, whatever the clients do.                    *)
LEMMA PolReadyStays ==
  ASSUME Pol!SockInv, NEW c \in Conns, NEW listening, Pol!ClientStep(c, listening)
  PROVE  /\ backlog # <<>> => backlog' # <<>>
         /\ \A d \in Conns : conn[d] = "open" /\ Pol!Readable(d) => Pol!Readable(d)'
<1>type. Pol!SockTypeOK
  BY DEF Pol!SockInv
<1>1. backlog # <<>> => backlog' # <<>>
  <2>1. CASE Pol!Connect(c)
    <3>1. backlog' = Append(backlog, c) /\ backlog \in Seq(Conns)
      BY <2>1, <1>type DEF Pol!Connect, Pol!SockTypeOK
    <3> QED
      BY <3>1
  <2>2. CASE ~Pol!Connect(c)
    BY <2>2 DEF Pol!ClientStep, Pol!Send, Pol!Shutdown, Pol!SeeFin, Pol!Reset
  <2> QED
    BY <2>1, <2>2
<1>2. ASSUME NEW d \in Conns, conn[d] = "open", Pol!Readable(d) PROVE Pol!Readable(d)'
  <2>1. /\ got' = got /\ sent'[d] >= sent[d]
        /\ cli[d] \in {"fin", "gone"} => cli'[d] \in {"fin", "gone"}
    BY <1>2, Pol!ClientFrame
  <2>2. got[d] \in Nat /\ sent[d] \in Nat /\ sent'[d] \in Nat
    BY <1>type, Pol!ClientKeepsSock DEF Pol!SockInv, Pol!SockTypeOK
  <2> QED
    BY <1>2, <2>1, <2>2 DEF Pol!Readable, Pol!Unread
<1> QED
  BY <1>1, <1>2

LEMMA PolClientKeeps ==
  ASSUME Pol!PollConstants, Pol!PollInv, NEW c \in Conns, Pol!ClientStep(c, spc # "exited"),
         UNCHANGED <<spc, Pol!tableVars, Pol!loopVars>>
  PROVE  Pol!PollInv'
<1>1. Pol!SockInv /\ Pol!TypeOK
  BY DEF Pol!PollInv
<1>2. Pol!SockInv' /\ Pol!SockTypeOK'
  BY <1>1, Pol!ClientKeepsSock DEF Pol!SockInv
<1>same. UNCHANGED <<spc, file, client, nFdUse, revents, nReady, slot, n>>
  BY DEF Pol!tableVars, Pol!loopVars
<1>3. Pol!TypeOK'
  BY <1>1, <1>2, <1>same DEF Pol!TypeOK
<1>4. Pol!Used' = Pol!Used /\ Pol!FreeFds' = Pol!FreeFds /\ Pol!TableInv'
  BY <1>same DEF Pol!PollInv, Pol!TableInv, Pol!Used, Pol!InUse, Pol!FreeFds
<1>5. Pol!OpenInv'
  <2>1. Pol!Open' = Pol!Open
    BY <1>1, Pol!ClientFrame DEF Pol!Open
  <2> QED
    BY <2>1, <1>4, <1>same DEF Pol!PollInv, Pol!OpenInv
<1>6. Pol!NothingLost'
  <2>1. UNCHANGED <<got, echoed>>
    BY <1>1, Pol!ClientFrame
  <2> QED
    BY <2>1, <1>same DEF Pol!PollInv, Pol!NothingLost, Pol!Here
<1>7. ASSUME spc # "exited", NEW i \in revents, Pol!InUse(i), Pol!IsReady(client[i])
      PROVE  Pol!IsReady(client[i])'
  <2>1. CASE client[i] = Pol!listenfd
    BY <2>1, <1>1, <1>7, <1>same, PolReadyStays DEF Pol!IsReady
  <2>2. CASE client[i] # Pol!listenfd
    <3>1. i \in Pol!Slots /\ i # 0
      BY <2>2, <1>1 DEF Pol!PollInv, Pol!TypeOK, Pol!TableInv
    <3>2. file[client[i]] \in Conns /\ conn[file[client[i]]] = "open"
      BY <3>1, <1>7, PolSlotIsOpen
    <3>3. Pol!Readable(file[client[i]])'
      <4> PICK d \in Conns : d = file[client[i]]
        BY <3>2
      <4>1. Pol!Readable(d)'
        BY <3>2, <2>2, <1>1, <1>7, PolReadyStays DEF Pol!IsReady
      <4> QED
        BY <4>1, <1>same
    <3> QED
      BY <3>3, <2>2, <1>same DEF Pol!IsReady
  <2> QED
    BY <2>1, <2>2
<1>8. Pol!TurnInv'
  BY <1>7, <1>same DEF Pol!PollInv, Pol!TurnInv, Pol!First, Pol!InUse
<1> QED
  BY <1>2, <1>3, <1>4, <1>5, <1>6, <1>8 DEF Pol!PollInv

LEMMA PolKeeps == ASSUME Pol!PollConstants, Pol!PollInv, Pol!Poll PROVE Pol!PollInv'
<1>type. Pol!TypeOK
  BY DEF Pol!PollInv
<1>step. /\ spc = "poll" /\ spc' = "listen"
         /\ revents' = {i \in Pol!Slots : Pol!InUse(i) /\ Pol!IsReady(client[i])}
         /\ nReady' = Pol!Cardinality(revents')
         /\ UNCHANGED <<Pol!sockVars, Pol!tableVars, slot, n>>
  BY DEF Pol!Poll
<1>1. Pol!TableInv' /\ Pol!OpenInv'
  BY <1>step, PolTablesStay DEF Pol!sockVars
<1>2. Pol!SockInv'
  BY <1>step, Pol!SockStutters DEF Pol!PollInv
<1>3. nReady' \in 0 .. POLL_MAXCLIENT
  BY <1>step, PolSlotsFinite
<1>4. Pol!TypeOK'
  BY <1>2, <1>3, <1>step, <1>type DEF Pol!TypeOK, Pol!SockInv, Pol!tableVars
<1>5. Pol!TurnInv'
  BY <1>step
     DEF Pol!TurnInv, Pol!InUse, Pol!IsReady, Pol!Readable, Pol!Unread, Pol!tableVars,
         Pol!sockVars, Pol!streamVars
<1>6. Pol!NothingLost'
  BY <1>step DEF Pol!PollInv, Pol!NothingLost, Pol!sockVars, Pol!streamVars
<1> QED
  BY <1>1, <1>2, <1>4, <1>5, <1>6 DEF Pol!PollInv

(* The listening socket is not ready or refuses the descriptor, or a slot  *)
(* is not ready.                                                           *)
LEMMA PolPassKeeps ==
  ASSUME Pol!PollConstants, Pol!PollInv, Pol!NotListen \/ Pol!AcceptError \/ Pol!Pass
  PROVE  Pol!PollInv'
<1>type. Pol!TypeOK
  BY DEF Pol!PollInv
<1>1. /\ spc \in {"listen", "scan"} /\ UNCHANGED <<Pol!sockVars, Pol!tableVars>>
      /\ \E i \in Nat, left \in Int : /\ Pol!GoOn(i, left) /\ left <= nReady
                                      /\ i > Pol!First \/ spc = "listen"
                                      /\ i > 0
  <2>1. nReady \in Nat /\ slot \in Nat
    BY <1>type DEF Pol!TypeOK, Pol!Slots
  <2>2. CASE Pol!NotListen
    BY <2>1, <2>2 DEF Pol!NotListen
  <2>3. CASE Pol!AcceptError
    BY <2>1, <2>3 DEF Pol!AcceptError
  <2>4. CASE Pol!Pass
    BY <2>1, <2>4 DEF Pol!Pass, Pol!First
  <2> QED
    BY <2>2, <2>3, <2>4
<1>2. PICK i \in Nat, left \in Int : /\ Pol!GoOn(i, left) /\ left <= nReady /\ i > 0
                                     /\ i > Pol!First \/ spc = "listen"
  BY <1>1
<1>3. /\ spc' \in {"poll", "scan"} /\ revents' \subseteq Pol!Slots
      /\ nReady' \in 0 .. POLL_MAXCLIENT
      /\ slot' \in Pol!Slots /\ n' = 0
      /\ spc' = "poll" => revents' = {}
      /\ spc' = "scan" => slot' = i /\ revents' = revents
  BY <1>2, <1>type, PolGoOnType
<1>4. Pol!TableInv' /\ Pol!OpenInv'
  BY <1>1, PolTablesStay DEF Pol!sockVars
<1>5. Pol!SockInv'
  BY <1>1, Pol!SockStutters DEF Pol!PollInv
<1>6. Pol!TypeOK'
  <2>1. 0 \in 0 .. MaxSend
    BY Pol!SocketConstants
  <2> QED
    BY <2>1, <1>1, <1>3, <1>5, <1>type DEF Pol!TypeOK, Pol!SockInv, Pol!tableVars
<1>7. Pol!TurnInv'
  <2>1. ASSUME spc' = "scan", NEW j \in revents, j >= i
        PROVE  Pol!InUse(j)' /\ Pol!IsReady(client[j])'
    <3>1. j \in Nat /\ j >= Pol!First
      BY <2>1, <1>2, <1>type DEF Pol!TypeOK, Pol!Slots, Pol!First
    <3>2. Pol!InUse(j) /\ Pol!IsReady(client[j])
      BY <3>1, <1>1 DEF Pol!PollInv, Pol!TurnInv
    <3> QED
      BY <3>2, <1>1
         DEF Pol!InUse, Pol!IsReady, Pol!Readable, Pol!Unread, Pol!tableVars, Pol!sockVars,
             Pol!streamVars
  <2> QED
    BY <2>1, <1>2, <1>3 DEF Pol!TurnInv, Pol!First
<1>8. Pol!NothingLost'
  BY <1>1, <1>3 DEF Pol!PollInv, Pol!NothingLost, Pol!sockVars, Pol!streamVars
<1> QED
  BY <1>4, <1>5, <1>6, <1>7, <1>8 DEF Pol!PollInv

-----------------------------------------------------------------------------
(* accept.                                                                 *)

(* A connection that waits is behind no descriptor.                        *)
LEMMA PolAcceptKeeps == ASSUME Pol!PollConstants, Pol!PollInv, Pol!Accept PROVE Pol!PollInv'
<1> USE PolSlotsFinite
<1>type. Pol!TypeOK /\ Pol!SockTypeOK
  BY DEF Pol!PollInv, Pol!TypeOK
<1>1. PICK fd \in Pol!Fds, i \in Pol!Slots :
         /\ Pol!Accepting(fd) /\ nFdUse + 1 <= POLL_MAXCLIENT
         /\ ~Pol!InUse(i)
         /\ client' = [client EXCEPT ![i] = fd]
         /\ file' = [file EXCEPT ![fd] = Head(backlog)]
         /\ nFdUse' = nFdUse + 1
         /\ Pol!Take("open")
  BY DEF Pol!Accept
<1>2. PICK c \in Conns : c = Head(backlog)
  BY <1>1, Pol!TakeKeepsSock DEF Pol!PollInv, Pol!Accepting
<1>take. /\ conn[c] = "queued"
         /\ conn'[c] = "open" /\ \A d \in Conns : d # c => conn'[d] = conn[d]
         /\ UNCHANGED <<cli, sent, got, echoed>>
         /\ Pol!SockInv'
  BY <1>1, <1>2, Pol!TakeKeepsSock DEF Pol!PollInv, Pol!Accepting
<1>3. spc = "listen" /\ file[fd] = NoConn /\ Pol!GoOn(1, nReady - 1) /\ i # 0
  BY <1>1 DEF Pol!Accepting, Pol!FreeFds, Pol!PollInv, Pol!TableInv, Pol!InUse
<1>4. /\ spc' \in {"poll", "scan"} /\ revents' \subseteq Pol!Slots
      /\ nReady' \in 0 .. POLL_MAXCLIENT
      /\ slot' \in Pol!Slots /\ n' = 0
      /\ spc' = "poll" => revents' = {}
      /\ spc' = "scan" => slot' = 1 /\ revents' = revents
  <2>1. nReady \in Nat
    BY <1>type DEF Pol!TypeOK
  <2>2. nReady - 1 \in Int /\ nReady - 1 <= nReady
    BY <2>1
  <2> QED
    BY <1>3, <1>type, <2>2, PolGoOnType
<1>5. /\ client'[i] = fd /\ \A j \in Pol!Slots : j # i => client'[j] = client[j]
      /\ file'[fd] = c /\ \A fe \in Pol!Fds : fe # fd => file'[fe] = file[fe]
  BY <1>1, <1>2, <1>type DEF Pol!TypeOK
<1>6. /\ Pol!FreeFds' = Pol!FreeFds \ {fd}
      /\ (Pol!Fds \ Pol!FreeFds)' = (Pol!Fds \ Pol!FreeFds) \cup {fd}
  BY <1>3, <1>5, Pol!SocketConstants DEF Pol!FreeFds
<1>7. Pol!Used' = Pol!Used \cup {i} /\ i \notin Pol!Used
  BY <1>1, <1>5 DEF Pol!Used, Pol!InUse
<1>8. \A j \in Pol!Used \ {0} : /\ client[j] \in Pol!Fds \ Pol!FreeFds /\ j # i
                            /\ client'[j] = client[j] /\ file'[client[j]] = file[client[j]]
                            /\ file[client[j]] \in Conns /\ file[client[j]] # c
  <2> TAKE j \in Pol!Used \ {0}
  <2>1. /\ client[j] \in Pol!Fds \ Pol!FreeFds
        /\ file[client[j]] \in Conns
        /\ conn[file[client[j]]] = "open"
    BY <1>3, PolSlotIsOpen DEF Pol!Used
  <2> QED
    BY <2>1, <1>3, <1>5, <1>7, <1>take DEF Pol!FreeFds, Pol!Used
<1>9. Pol!TypeOK'
  <2>1. nFdUse' \in 1 .. POLL_MAXCLIENT /\ 0 \in 0 .. MaxSend
    BY <1>1, <1>type, Pol!SocketConstants DEF Pol!TypeOK, Pol!PollConstants
  <2>2. /\ client' \in [Pol!Slots -> Pol!Fds \cup {Pol!listenfd, Pol!NoFd}]
        /\ file' \in [Pol!Fds -> Conns \cup {NoConn}]
    BY <1>1, <1>2, <1>type DEF Pol!TypeOK
  <2> QED
    BY <2>1, <2>2, <1>4, <1>take DEF Pol!TypeOK, Pol!SockInv
<1>10. Pol!TableInv'
  <2>1. client'[0] = Pol!listenfd
    BY <1>3, <1>5 DEF Pol!PollInv, Pol!TableInv
  <2>2. \A j \in (Pol!Used \ {0})' : client'[j] \in (Pol!Fds \ Pol!FreeFds)'
    BY <1>5, <1>6, <1>7, <1>8
  <2>3. ASSUME NEW fe \in (Pol!Fds \ Pol!FreeFds)'
        PROVE  \E j \in (Pol!Used \ {0})' : client'[j] = fe
    <3>1. CASE fe = fd
      BY <3>1, <1>3, <1>5, <1>7
    <3>2. CASE fe # fd
      <4>1. PICK j \in Pol!Used \ {0} : client[j] = fe
        BY <3>2, <2>3, <1>6 DEF Pol!PollInv, Pol!TableInv
      <4> QED
        BY <4>1, <1>7, <1>8
    <3> QED
      BY <3>1, <3>2
  <2>4. \A j, l \in (Pol!Used \ {0})' : file'[client'[j]] = file'[client'[l]] => j = l
    BY <1>5, <1>7, <1>8 DEF Pol!PollInv, Pol!TableInv
  <2>5. nFdUse' = Pol!Cardinality(Pol!Used')
    <3>1. Pol!IsFiniteSet(Pol!Used) /\ nFdUse = Pol!Cardinality(Pol!Used)
      BY DEF Pol!Used, Pol!PollInv, Pol!TableInv
    <3> QED
      BY <3>1, <1>1, <1>7, Pol!FS_AddElement
  <2> QED
    BY <2>1, <2>2, <2>3, <2>4, <2>5 DEF Pol!TableInv
<1>11. Pol!OpenInv'
  <2>1. Pol!Open' = Pol!Open \cup {c} /\ c \notin Pol!Open
    BY <1>take DEF Pol!Open
  <2>2. /\ Pol!Open = {file[fe] : fe \in Pol!Fds \ Pol!FreeFds}
        /\ Pol!IsFiniteSet(Pol!Open)
        /\ nFdUse = Pol!Cardinality(Pol!Open) + 1
    BY <1>3 DEF Pol!PollInv, Pol!OpenInv
  <2>3. Pol!Open' = {file'[fe] : fe \in (Pol!Fds \ Pol!FreeFds)'}
    <3>1. \A fe \in Pol!Fds \ Pol!FreeFds : fe # fd /\ file'[fe] = file[fe]
      BY <1>3, <1>5 DEF Pol!FreeFds
    <3> QED
      BY <2>1, <2>2, <3>1, <1>5, <1>6
  <2>4. Pol!IsFiniteSet(Pol!Open') /\ Pol!Cardinality(Pol!Open') = Pol!Cardinality(Pol!Open) + 1
    BY <2>1, <2>2, Pol!FS_AddElement
  <2>5. Pol!Cardinality(Pol!Open) \in Nat
    BY <2>2, Pol!FS_CardinalityType
  <2> QED
    BY <2>2, <2>3, <2>4, <2>5, <1>1 DEF Pol!OpenInv
<1>12. Pol!TurnInv'
  <2>1. ASSUME spc' = "scan", NEW j \in revents, j >= 1
        PROVE  Pol!InUse(j)' /\ Pol!IsReady(client[j])'
    <3>1. j \in Pol!Slots /\ j \in Nat /\ j # 0 /\ Pol!InUse(j) /\ Pol!IsReady(client[j])
      BY <2>1, <1>3, <1>type DEF Pol!PollInv, Pol!TurnInv, Pol!First, Pol!TypeOK, Pol!Slots
    <3>2. j \in Pol!Used \ {0} /\ client[j] # Pol!listenfd
      BY <3>1, PolSlotIsOpen
    <3>3. client'[j] = client[j] /\ file'[client[j]] = file[client[j]]
      BY <3>2, <1>8
    <3> QED
      BY <3>1, <3>2, <3>3, <1>take DEF Pol!InUse, Pol!IsReady, Pol!Readable, Pol!Unread
  <2> QED
    BY <2>1, <1>4 DEF Pol!TurnInv, Pol!First
<1>13. Pol!NothingLost'
  BY <1>3, <1>4, <1>take DEF Pol!PollInv, Pol!NothingLost
<1> QED
  BY <1>take, <1>9, <1>10, <1>11, <1>12, <1>13 DEF Pol!PollInv

LEMMA PolRefuseKeeps == ASSUME Pol!PollConstants, Pol!PollInv, Pol!Refuse PROVE Pol!PollInv'
<1> USE PolSlotsFinite
<1>type. Pol!TypeOK /\ Pol!SockTypeOK
  BY DEF Pol!PollInv, Pol!TypeOK
<1>1. PICK fd \in Pol!Fds : Pol!Accepting(fd) /\ Pol!Take("refused") /\ UNCHANGED Pol!tableVars
  BY DEF Pol!Refuse
<1>2. PICK c \in Conns : c = Head(backlog)
  BY <1>1, Pol!TakeKeepsSock DEF Pol!PollInv, Pol!Accepting
<1>take. /\ conn[c] = "queued"
         /\ conn'[c] = "refused" /\ \A d \in Conns : d # c => conn'[d] = conn[d]
         /\ UNCHANGED <<cli, sent, got, echoed>>
         /\ Pol!SockInv'
  BY <1>1, <1>2, Pol!TakeKeepsSock DEF Pol!PollInv, Pol!Accepting
<1>same. UNCHANGED <<file, client, nFdUse>>
  BY <1>1 DEF Pol!tableVars
<1>3. spc = "listen" /\ Pol!GoOn(1, nReady - 1)
  BY <1>1 DEF Pol!Accepting
<1>4. /\ spc' \in {"poll", "scan"} /\ revents' \subseteq Pol!Slots
      /\ nReady' \in 0 .. POLL_MAXCLIENT
      /\ slot' \in Pol!Slots /\ n' = 0
      /\ spc' = "poll" => revents' = {}
      /\ spc' = "scan" => slot' = 1 /\ revents' = revents
  <2>1. nReady \in Nat
    BY <1>type DEF Pol!TypeOK
  <2>2. nReady - 1 \in Int /\ nReady - 1 <= nReady
    BY <2>1
  <2> QED
    BY <1>3, <1>type, <2>2, PolGoOnType
<1>5. Pol!TypeOK'
  <2>1. 0 \in 0 .. MaxSend
    BY Pol!SocketConstants
  <2> QED
    BY <2>1, <1>4, <1>take, <1>same, <1>type DEF Pol!TypeOK, Pol!SockInv
<1>6. Pol!TableInv' /\ Pol!OpenInv'
  <2>1. Pol!Used' = Pol!Used /\ Pol!FreeFds' = Pol!FreeFds /\ Pol!Open' = Pol!Open
    BY <1>same, <1>take DEF Pol!Used, Pol!InUse, Pol!FreeFds, Pol!Open
  <2>2. Pol!TableInv'
    BY <2>1, <1>same DEF Pol!PollInv, Pol!TableInv
  <2>3. Pol!OpenInv'
    BY <2>1, <1>same, <1>3 DEF Pol!PollInv, Pol!OpenInv
  <2> QED
    BY <2>2, <2>3
<1>7. Pol!TurnInv'
  <2>1. ASSUME spc' = "scan", NEW j \in revents, j >= 1
        PROVE  Pol!InUse(j)' /\ Pol!IsReady(client[j])'
    <3>1. j \in Pol!Slots /\ j \in Nat /\ j # 0 /\ Pol!InUse(j) /\ Pol!IsReady(client[j])
      BY <2>1, <1>3, <1>type DEF Pol!PollInv, Pol!TurnInv, Pol!First, Pol!TypeOK, Pol!Slots
    <3>2. client[j] # Pol!listenfd
      BY <3>1, PolSlotIsOpen
    <3> QED
      BY <3>1, <3>2, <1>same, <1>take DEF Pol!InUse, Pol!IsReady, Pol!Readable, Pol!Unread
  <2> QED
    BY <2>1, <1>4 DEF Pol!TurnInv, Pol!First
<1>8. Pol!NothingLost'
  BY <1>3, <1>4, <1>take DEF Pol!PollInv, Pol!NothingLost
<1> QED
  BY <1>take, <1>5, <1>6, <1>7, <1>8 DEF Pol!PollInv

-----------------------------------------------------------------------------
(* The loop over the slots.                                                *)

(* What poll reported of the slots behind this one stays, when the step is *)
(* about this slot's connection and descriptor only.                       *)
LEMMA PolRestStays ==
  ASSUME Pol!PollInv, spc = "write" \/ (spc = "scan" /\ Pol!Ready),
         UNCHANGED <<backlog, cli, sent>>,
         \A d \in Conns : d # file[Pol!Here] => got'[d] = got[d],
         \A j \in Pol!Slots : j # slot => client'[j] = client[j],
         \A fd \in Pol!Fds : fd # Pol!Here => file'[fd] = file[fd],
         NEW i \in revents, i >= slot + 1
  PROVE  Pol!InUse(i)' /\ Pol!IsReady(client[i])'
<1>1. /\ i \in Pol!Slots /\ i # 0 /\ i # slot /\ Pol!InUse(i) /\ Pol!IsReady(client[i])
  <2>1. i \in Pol!Slots /\ i \in Nat /\ slot \in Nat
    BY DEF Pol!PollInv, Pol!TypeOK, Pol!Slots
  <2>2. i # 0 /\ i # slot /\ i >= Pol!First
    BY <2>1 DEF Pol!First
  <2> QED
    BY <2>1, <2>2 DEF Pol!PollInv, Pol!TurnInv
<1>2. /\ i \in Pol!Used \ {0}
      /\ client[i] \in Pol!Fds
      /\ client[i] # Pol!listenfd
      /\ file[client[i]] \in Conns
  BY <1>1, PolSlotIsOpen
<1>3. file[client[i]] # file[Pol!Here]
  BY <1>1, <1>2, PolHereIsOpen DEF Pol!PollInv, Pol!TableInv, Pol!Here
<1>4. client'[i] = client[i] /\ file'[client[i]] = file[client[i]]
  BY <1>1, <1>2, <1>3
<1>5. Pol!Readable(file[client[i]])
  BY <1>1, <1>2 DEF Pol!IsReady
<1>6. Pol!Readable(file[client[i]])'
  BY <1>2, <1>3, <1>4, <1>5 DEF Pol!Readable, Pol!Unread
<1> QED
  BY <1>1, <1>2, <1>4, <1>6 DEF Pol!InUse, Pol!IsReady

LEMMA PolReadKeeps == ASSUME Pol!PollConstants, Pol!PollInv, Pol!ReadSome PROVE Pol!PollInv'
<1>type. Pol!TypeOK /\ Pol!SockTypeOK
  BY DEF Pol!PollInv, Pol!TypeOK
<1>step. /\ spc = "scan" /\ Pol!Ready /\ spc' = "write"
         /\ n' \in 1 .. MaxSend /\ Pol!Read(file[Pol!Here], n')
         /\ UNCHANGED <<file, client, nFdUse, revents, nReady, slot>>
  BY DEF Pol!ReadSome, Pol!tableVars
<1>1. /\ slot \in Pol!Used \ {0} /\ slot \in 1 .. POLL_MAXCLIENT - 1
      /\ file[Pol!Here] \in Conns
  BY <1>step, PolHereIsOpen
<1> PICK c \in Conns : c = file[Pol!Here]
  BY <1>1
<1>2. /\ got'[c] = got[c] + n' /\ \A d \in Conns : d # c => got'[d] = got[d]
      /\ UNCHANGED <<backlog, conn, cli, sent, echoed>>
      /\ Pol!SockInv'
  BY <1>step, Pol!ReadKeepsSock DEF Pol!PollInv
<1>3. Pol!TypeOK'
  BY <1>step, <1>2, <1>type DEF Pol!TypeOK, Pol!SockInv
<1>4. Pol!TableInv' /\ Pol!OpenInv'
  BY <1>step, <1>2, PolTablesStay DEF Pol!tableVars
<1>5. Pol!TurnInv'
  <2>1. Pol!InUse(slot)' /\ slot' > 0 /\ n' > 0
    BY <1>step, <1>1 DEF Pol!InUse, Pol!Ready
  <2>2. \A i \in revents : i >= slot + 1 => Pol!InUse(i)' /\ Pol!IsReady(client[i])'
    BY <1>step, <1>2, PolRestStays
  <2> QED
    BY <1>step, <2>1, <2>2 DEF Pol!TurnInv, Pol!First
<1>6. Pol!NothingLost'
  <2>1. \A d \in Conns : got[d] - echoed[d] = 0
    BY <1>step DEF Pol!PollInv, Pol!NothingLost
  <2>2. \A d \in Conns : got[d] \in Nat /\ echoed[d] \in Nat
    BY <1>type DEF Pol!SockTypeOK
  <2>3. Pol!Here' = Pol!Here /\ file'[Pol!Here] = c
    BY <1>step DEF Pol!Here
  <2>4. n' \in Nat
    BY <1>step
  <2>5. got'[c] - echoed'[c] = n' /\ \A d \in Conns : d # c => got'[d] - echoed'[d] = 0
    BY <2>1, <2>2, <2>4, <1>2
  <2> QED
    BY <2>3, <2>5, <1>step DEF Pol!NothingLost
<1> QED
  BY <1>2, <1>3, <1>4, <1>5, <1>6 DEF Pol!PollInv

LEMMA PolWriteKeeps == ASSUME Pol!PollConstants, Pol!PollInv, Pol!WriteBack PROVE Pol!PollInv'
<1>type. Pol!TypeOK /\ Pol!SockTypeOK
  BY DEF Pol!PollInv, Pol!TypeOK
<1>step. /\ spc = "write" /\ Pol!Write(file[Pol!Here], n) /\ Pol!GoOn(slot + 1, nReady - 1)
         /\ UNCHANGED <<file, client, nFdUse>>
  BY DEF Pol!WriteBack, Pol!tableVars
<1>1. /\ slot \in Pol!Used \ {0} /\ slot \in 1 .. POLL_MAXCLIENT - 1
      /\ file[Pol!Here] \in Conns
  BY <1>step, PolHereIsOpen
<1> PICK c \in Conns : c = file[Pol!Here]
  BY <1>1
<1>2. got[c] - echoed[c] = n /\ n \in 0 .. MaxSend
  BY <1>step, <1>type DEF Pol!PollInv, Pol!NothingLost, Pol!TypeOK
<1>3. /\ echoed'[c] = got[c] /\ \A d \in Conns : d # c => echoed'[d] = echoed[d]
      /\ UNCHANGED <<backlog, conn, cli, sent, got>>
      /\ Pol!SockInv'
  BY <1>step, <1>2, Pol!WriteKeepsSock DEF Pol!PollInv
<1>4. /\ spc' \in {"poll", "scan"} /\ revents' \subseteq Pol!Slots
      /\ nReady' \in 0 .. POLL_MAXCLIENT
      /\ slot' \in Pol!Slots /\ n' = 0
      /\ spc' = "poll" => revents' = {}
      /\ spc' = "scan" => slot' = slot + 1 /\ revents' = revents
  <2>1. nReady \in Nat
    BY <1>type DEF Pol!TypeOK
  <2>2. nReady - 1 \in Int /\ nReady - 1 <= nReady /\ slot + 1 \in Nat /\ slot + 1 > 0
    BY <2>1, <1>1
  <2> QED
    BY <1>step, <1>type, <2>2, PolGoOnType
<1>5. Pol!TypeOK'
  <2>1. 0 \in 0 .. MaxSend
    BY Pol!SocketConstants
  <2> QED
    BY <2>1, <1>step, <1>3, <1>4, <1>type DEF Pol!TypeOK, Pol!SockInv
<1>6. Pol!TableInv' /\ Pol!OpenInv'
  BY <1>step, <1>3, PolTablesStay DEF Pol!tableVars
<1>7. Pol!TurnInv'
  <2>1. \A i \in revents : i >= slot + 1 => Pol!InUse(i)' /\ Pol!IsReady(client[i])'
    BY <1>step, <1>3, PolRestStays
  <2> QED
    BY <2>1, <1>1, <1>4, <1>step DEF Pol!TurnInv, Pol!First
<1>8. Pol!NothingLost'
  <2>1. \A d \in Conns : d # c => got[d] - echoed[d] = 0
    BY <1>step DEF Pol!PollInv, Pol!NothingLost
  <2>2. got[c] - echoed'[c] = 0
    BY <1>3, <1>type DEF Pol!SockTypeOK
  <2>3. \A d \in Conns : got'[d] - echoed'[d] = 0
    BY <2>1, <2>2, <1>3
  <2> QED
    BY <2>3, <1>4 DEF Pol!NothingLost
<1> QED
  BY <1>3, <1>5, <1>6, <1>7, <1>8 DEF Pol!PollInv

LEMMA PolReadEndKeeps == ASSUME Pol!PollConstants, Pol!PollInv, Pol!ReadEnd PROVE Pol!PollInv'
<1> USE PolSlotsFinite
<1>type. Pol!TypeOK /\ Pol!SockTypeOK
  BY DEF Pol!PollInv, Pol!TypeOK
<1>step. /\ spc = "scan" /\ Pol!Ready /\ Pol!Close(file[Pol!Here])
         /\ file' = [file EXCEPT ![Pol!Here] = NoConn]
         /\ client' = [client EXCEPT ![slot] = Pol!NoFd]
         /\ nFdUse' = nFdUse - 1
         /\ Pol!GoOn(slot + 1, nReady - 1)
  BY DEF Pol!ReadEnd
<1>1. /\ slot \in Pol!Used \ {0} /\ slot \in Pol!Slots /\ slot \in 1 .. POLL_MAXCLIENT - 1
      /\ Pol!Here \in Pol!Fds \ Pol!FreeFds
      /\ file[Pol!Here] \in Conns /\ conn[file[Pol!Here]] = "open"
  BY <1>step, PolHereIsOpen DEF Pol!Used
<1> PICK c \in Conns : c = file[Pol!Here]
  BY <1>1
<1> PICK fd \in Pol!Fds \ Pol!FreeFds : fd = client[slot] /\ fd = Pol!Here
  BY <1>1 DEF Pol!Here
<1>2. /\ conn'[c] = "closed" /\ \A d \in Conns : d # c => conn'[d] = conn[d]
      /\ UNCHANGED <<backlog, cli, sent, got, echoed>>
      /\ Pol!SockInv'
  <2>1. /\ conn' = [conn EXCEPT ![c] = "closed"]
        /\ UNCHANGED <<backlog, cli, sent, got, echoed>>
    BY <1>step DEF Pol!Close, Pol!streamVars
  <2>2. conn'[c] = "closed" /\ \A d \in Conns : d # c => conn'[d] = conn[d]
    BY <2>1, <1>type DEF Pol!SockTypeOK
  <2>3. Pol!SockInv'
    BY <2>1, <2>2, <1>1, <1>type, Pol!EndKeepsSock DEF Pol!PollInv, Pol!SockTypeOK
  <2> QED
    BY <2>1, <2>2, <2>3
<1>3. /\ client'[slot] = Pol!NoFd /\ \A j \in Pol!Slots : j # slot => client'[j] = client[j]
      /\ file'[fd] = NoConn /\ \A fe \in Pol!Fds : fe # fd => file'[fe] = file[fe]
  BY <1>step, <1>1, <1>type DEF Pol!TypeOK
<1>4. (Pol!Fds \ Pol!FreeFds)' = (Pol!Fds \ Pol!FreeFds) \ {fd}
  BY <1>3 DEF Pol!FreeFds
<1>5. Pol!Used' = Pol!Used \ {slot}
  BY <1>1, <1>3 DEF Pol!Used, Pol!InUse
<1>6. \A j \in (Pol!Used \ {0}) \ {slot} :
         /\ client[j] \in Pol!Fds \ Pol!FreeFds /\ client[j] # fd
         /\ client'[j] = client[j] /\ file'[client[j]] = file[client[j]]
  <2> SUFFICES ASSUME NEW j \in (Pol!Used \ {0}) \ {slot}
               PROVE  /\ client[j] \in Pol!Fds \ Pol!FreeFds /\ client[j] # fd
                      /\ client'[j] = client[j] /\ file'[client[j]] = file[client[j]]
    OBVIOUS
  <2>1. client[j] \in Pol!Fds \ Pol!FreeFds
    BY DEF Pol!PollInv, Pol!TableInv
  <2>2. file[client[j]] # file[client[slot]]
    BY <1>1 DEF Pol!PollInv, Pol!TableInv
  <2>3. j \in Pol!Slots
    BY DEF Pol!Used
  <2> QED
    BY <2>1, <2>2, <2>3, <1>3
<1>7. /\ spc' \in {"poll", "scan"} /\ revents' \subseteq Pol!Slots
      /\ nReady' \in 0 .. POLL_MAXCLIENT
      /\ slot' \in Pol!Slots /\ n' = 0
      /\ spc' = "poll" => revents' = {}
      /\ spc' = "scan" => slot' = slot + 1 /\ revents' = revents
  <2>1. nReady \in Nat
    BY <1>type DEF Pol!TypeOK
  <2>2. nReady - 1 \in Int /\ nReady - 1 <= nReady /\ slot + 1 \in Nat /\ slot + 1 > 0
    BY <2>1, <1>1
  <2> QED
    BY <1>step, <1>type, <2>2, PolGoOnType
<1>8. Pol!TableInv'
  <2>1. client'[0] = Pol!listenfd
    BY <1>1, <1>3 DEF Pol!PollInv, Pol!TableInv
  <2>2. \A j \in (Pol!Used \ {0})' : client'[j] \in (Pol!Fds \ Pol!FreeFds)'
    BY <1>4, <1>5, <1>6
  <2>3. ASSUME NEW fe \in (Pol!Fds \ Pol!FreeFds)'
        PROVE  \E j \in (Pol!Used \ {0})' : client'[j] = fe
    <3>1. PICK j \in Pol!Used \ {0} : client[j] = fe
      BY <2>3, <1>4 DEF Pol!PollInv, Pol!TableInv
    <3>2. j # slot
      BY <3>1, <2>3, <1>4
    <3> QED
      BY <3>1, <3>2, <1>5, <1>6
  <2>4. \A j, l \in (Pol!Used \ {0})' : file'[client'[j]] = file'[client'[l]] => j = l
    BY <1>5, <1>6 DEF Pol!PollInv, Pol!TableInv
  <2>5. nFdUse' = Pol!Cardinality(Pol!Used')
    <3>1. Pol!IsFiniteSet(Pol!Used) /\ nFdUse = Pol!Cardinality(Pol!Used)
      BY DEF Pol!Used, Pol!PollInv, Pol!TableInv
    <3> QED
      BY <3>1, <1>step, <1>1, <1>5, Pol!FS_RemoveElement
  <2> QED
    BY <2>1, <2>2, <2>3, <2>4, <2>5 DEF Pol!TableInv
<1>9. Pol!TypeOK'
  <2>1. nFdUse' \in 1 .. POLL_MAXCLIENT
    <3>1. 0 \in Pol!Used' /\ Pol!Used' \subseteq Pol!Slots
      BY <1>1, <1>5 DEF Pol!Used, Pol!InUse, Pol!PollInv, Pol!TableInv
    <3>2. nFdUse' \in 0 .. POLL_MAXCLIENT /\ nFdUse' # 0
      BY <1>8, <3>1, Pol!FS_EmptySet DEF Pol!TableInv
    <3> QED
      BY <3>2 DEF Pol!PollConstants
  <2>2. /\ client' \in [Pol!Slots -> Pol!Fds \cup {Pol!listenfd, Pol!NoFd}]
        /\ file' \in [Pol!Fds -> Conns \cup {NoConn}]
    BY <1>step, <1>type DEF Pol!TypeOK
  <2>3. 0 \in 0 .. MaxSend
    BY Pol!SocketConstants
  <2> QED
    BY <2>1, <2>2, <2>3, <1>2, <1>7 DEF Pol!TypeOK, Pol!SockInv
<1>10. Pol!OpenInv'
  <2>1. Pol!Open' = Pol!Open \ {c} /\ c \in Pol!Open
    BY <1>1, <1>2 DEF Pol!Open
  <2>2. /\ Pol!Open = {file[fe] : fe \in Pol!Fds \ Pol!FreeFds}
        /\ Pol!IsFiniteSet(Pol!Open)
        /\ nFdUse = Pol!Cardinality(Pol!Open) + 1
    BY <1>step DEF Pol!PollInv, Pol!OpenInv
  <2>3. Pol!Open' = {file'[fe] : fe \in (Pol!Fds \ Pol!FreeFds)'}
    <3>1. \A fe \in (Pol!Fds \ Pol!FreeFds)' : file'[fe] = file[fe] /\ file[fe] # c
      <4> TAKE fe \in (Pol!Fds \ Pol!FreeFds)'
      <4>1. PICK j \in (Pol!Used \ {0}) \ {slot} : client[j] = fe
        <5>1. PICK j \in Pol!Used \ {0} : client[j] = fe
          BY <1>4 DEF Pol!PollInv, Pol!TableInv
        <5>2. j # slot
          BY <5>1, <1>4
        <5> QED
          BY <5>1, <5>2
      <4>2. file[client[j]] # file[client[slot]]
        BY <4>1, <1>1 DEF Pol!PollInv, Pol!TableInv
      <4> QED
        BY <4>1, <4>2, <1>6
    <3>2. \A fe \in Pol!Fds \ Pol!FreeFds : file[fe] # c => fe \in (Pol!Fds \ Pol!FreeFds)'
      BY <1>4
    <3> QED
      BY <2>1, <2>2, <3>1, <3>2, <1>4
  <2>4. Pol!IsFiniteSet(Pol!Open') /\ Pol!Cardinality(Pol!Open') = Pol!Cardinality(Pol!Open) - 1
    BY <2>1, <2>2, Pol!FS_RemoveElement
  <2>5. Pol!Cardinality(Pol!Open) \in Nat
    BY <2>2, Pol!FS_CardinalityType
  <2> QED
    BY <2>2, <2>3, <2>4, <2>5, <1>step DEF Pol!OpenInv
<1>11. Pol!TurnInv'
  <2>1. \A i \in revents : i >= slot + 1 => Pol!InUse(i)' /\ Pol!IsReady(client[i])'
    BY <1>step, <1>2, <1>3, PolRestStays
  <2>2. spc' = "poll" => revents' = {}
    BY <1>7
  <2>3. spc' # "listen" /\ spc' # "write" /\ (spc' = "scan" => slot' > 0)
    BY <1>7, <1>1
  <2>4. spc' = "scan" => \A i \in revents' : i >= slot' => Pol!InUse(i)' /\ Pol!IsReady(client[i])'
    BY <2>1, <1>7
  <2> QED
    BY <2>2, <2>3, <2>4 DEF Pol!TurnInv, Pol!First
<1>12. Pol!NothingLost'
  BY <1>step, <1>2, <1>7 DEF Pol!PollInv, Pol!NothingLost
<1> QED
  BY <1>2, <1>8, <1>9, <1>10, <1>11, <1>12 DEF Pol!PollInv

LEMMA PolBreakKeeps == ASSUME Pol!PollConstants, Pol!PollInv, Pol!BrokenPipe PROVE Pol!PollInv'
<1>type. Pol!TypeOK /\ Pol!SockTypeOK
  BY DEF Pol!PollInv, Pol!TypeOK
<1>1. /\ spc' = "exited" /\ backlog' = <<>>
      /\ conn' = [c \in Conns |-> IF conn[c] \in {"queued", "open"} THEN "closed" ELSE conn[c]]
      /\ UNCHANGED <<cli, sent, got, echoed, file, client, nFdUse, revents, nReady, slot, n>>
  BY DEF Pol!BrokenPipe, Pol!ProcessEnds, Pol!streamVars, Pol!tableVars, Pol!loopVars
<1>2. Pol!SockInv'
  BY <1>1, <1>type, Pol!EndKeepsSock DEF Pol!PollInv, Pol!SockTypeOK
<1>3. Pol!TypeOK'
  BY <1>1, <1>2, <1>type DEF Pol!TypeOK, Pol!SockInv
<1>4. Pol!TableInv'
  BY <1>1 DEF Pol!PollInv, Pol!TableInv, Pol!Used, Pol!InUse, Pol!FreeFds
<1>5. Pol!OpenInv' /\ Pol!TurnInv' /\ Pol!NothingLost'
  BY <1>1 DEF Pol!OpenInv, Pol!TurnInv, Pol!NothingLost
<1> QED
  BY <1>2, <1>3, <1>4, <1>5 DEF Pol!PollInv

LEMMA PolStepKeeps == Pol!PollConstants /\ Pol!PollInv /\ [Pol!Next]_(Pol!vars) => Pol!PollInv'
<1> SUFFICES ASSUME Pol!PollConstants, Pol!PollInv, [Pol!Next]_(Pol!vars) PROVE Pol!PollInv'
  OBVIOUS
<1>1. CASE UNCHANGED Pol!vars
  <2>1. Pol!SockInv'
    BY <1>1, Pol!SockStutters DEF Pol!vars, Pol!PollInv
  <2>2. Pol!TypeOK'
    BY <1>1, <2>1
       DEF Pol!vars, Pol!tableVars, Pol!loopVars, Pol!PollInv, Pol!TypeOK, Pol!SockInv
  <2> QED
    BY <1>1, <2>1, <2>2
       DEF Pol!vars, Pol!tableVars, Pol!loopVars, Pol!sockVars, Pol!streamVars, Pol!PollInv,
           Pol!TableInv, Pol!OpenInv, Pol!TurnInv, Pol!NothingLost, Pol!Used, Pol!InUse,
           Pol!FreeFds, Pol!Open, Pol!First, Pol!IsReady, Pol!Readable, Pol!Unread, Pol!Here
<1>2. CASE Pol!ServerStep
  BY <1>2, PolKeeps, PolPassKeeps, PolAcceptKeeps, PolRefuseKeeps, PolReadKeeps, PolWriteKeeps,
     PolReadEndKeeps, PolBreakKeeps
     DEF Pol!ServerStep
<1>3. ASSUME NEW c \in Conns, Pol!ClientStep(c, spc # "exited"),
             UNCHANGED <<spc, Pol!tableVars, Pol!loopVars>>
      PROVE  Pol!PollInv'
  BY <1>3, PolClientKeeps
<1> QED
  BY <1>1, <1>2, <1>3 DEF Pol!Next


(* What the invariant says of the server.                                  *)
LEMMA PolShows ==
  ASSUME Pol!PollConstants, Pol!PollInv
  PROVE  Pol!TypeOK /\ Pol!TablesAgree /\ Pol!NeverBlocks /\ Pol!NothingLost
<1>1. Pol!TablesAgree
  <2> DEFINE used == {i \in Pol!Slots : Pol!InUse(i)}
  <2>1. used = Pol!Used
    BY DEF Pol!Used
  <2>2. {client[i] : i \in Pol!Used \ {0}} = Pol!Fds \ Pol!FreeFds
    BY DEF Pol!PollInv, Pol!TableInv
  <2>3. spc # "exited" =>
            {c \in Conns : conn[c] = "open"} = {file[fd] : fd \in Pol!Fds \ Pol!FreeFds}
    BY DEF Pol!PollInv, Pol!OpenInv, Pol!Open
  <2>4. \A i, j \in Pol!Used \ {0} : i # j => file[client[i]] # file[client[j]]
    BY DEF Pol!PollInv, Pol!TableInv
  <2> QED
    BY <2>1, <2>2, <2>3, <2>4 DEF Pol!PollInv, Pol!TableInv, Pol!TablesAgree
<1>2. Pol!NeverBlocks
  <2>1. spc = "listen" /\ 0 \in revents => backlog # <<>>
    BY DEF Pol!PollInv, Pol!TurnInv, Pol!TableInv, Pol!First, Pol!IsReady
  <2>2. spc = "scan" /\ Pol!Ready => file[Pol!Here] # NoConn /\ Pol!Readable(file[Pol!Here])
    BY PolHereIsOpen, Pol!SocketConstants
  <2> QED
    BY <2>1, <2>2 DEF Pol!NeverBlocks
<1> QED
  BY <1>1, <1>2 DEF Pol!PollInv

(* The loop serves its clients right, in every environment: clients        *)
(* vanish, accept fails for want of a descriptor, SIGPIPE                  *)
(* (dd.cpp:52-126).                                                        *)
THEOREM PollServerIsRight ==
  Pol!Spec => [](Pol!TypeOK /\ Pol!TablesAgree /\ Pol!NeverBlocks /\ Pol!NothingLost)
<1>1. Pol!PollConstants
  BY EventLoopConstants
<1>2. Pol!Init => Pol!PollInv
  BY <1>1, PolInit
<1>3. Pol!PollInv /\ [Pol!Next]_(Pol!vars) => Pol!PollInv'
  BY <1>1, PolStepKeeps
<1>4. Pol!PollInv => Pol!TypeOK /\ Pol!TablesAgree /\ Pol!NeverBlocks /\ Pol!NothingLost
  BY <1>1, PolShows
<1> QED
  BY <1>2, <1>3, <1>4, PTL DEF Pol!Spec

-----------------------------------------------------------------------------
(* The refinement.                                                         *)

(* When no client vanishes, the process never ends.                        *)
PolRuns == spc # "exited" /\ Pol!NobodyGone

LEMMA PolStillRuns ==
  ASSUME server = "poll", Healthy, Pol!PollInv, PolRuns, [Pol!Next]_(Pol!vars)
  PROVE  PolRuns'
<1>type. Pol!SockTypeOK
  BY DEF Pol!PollInv, Pol!TypeOK
<1>1. CASE UNCHANGED Pol!vars
  BY <1>1 DEF Pol!vars, Pol!sockVars, PolRuns, Pol!NobodyGone
<1>2. CASE Pol!ServerStep
  <2>1. ~Pol!BrokenPipe
    BY PolHereIsOpen DEF Pol!BrokenPipe, Pol!Breaks, PolRuns, Pol!NobodyGone
  <2> QED
    BY <1>2, <2>1
       DEF Pol!ServerStep, Pol!Poll, Pol!NotListen, Pol!Accept, Pol!Accepting, Pol!Refuse,
           Pol!AcceptError, Pol!Pass, Pol!ReadSome, Pol!ReadEnd, Pol!WriteBack, Pol!GoOn,
           Pol!Again, Pol!Take, Pol!Read, Pol!Write, Pol!Close, Pol!sockVars, PolRuns,
           Pol!NobodyGone
<1>3. ASSUME NEW c \in Conns, Pol!ClientStep(c, spc # "exited"),
             UNCHANGED <<spc, Pol!tableVars, Pol!loopVars>>
      PROVE  PolRuns'
  BY <1>3, <1>type, Pol!NobodyGoes DEF PolRuns, Healthy
<1> QED
  BY <1>1, <1>2, <1>3 DEF Pol!Next

LEMMA PolInitRefines ==
  ASSUME Pol!PollConstants, server = "poll", Healthy, Pol!Init
  PROVE  Service!SInit /\ PolRuns
<1>1. Side = [c \in Conns |-> "on"]
  BY Pol!SockInitInv DEF Pol!Init, Pol!Side, Side
<1>2. Capacity \in Nat \ {0}
  BY DEF Pol!PollConstants, Healthy, Capacity
<1> QED
  BY <1>1, <1>2 DEF Pol!Init, Pol!SockInit, Service!SInit, PolRuns, Pol!NobodyGone

(* The server takes or refuses a connection, writes back or closes; every  *)
(* other step of it is a stutter of the service.                           *)
LEMMA PolServerStepRefines ==
  ASSUME Capacity' = Capacity, Pol!PollConstants, server = "poll", Healthy, Pol!PollInv,
         PolRuns, Pol!ServerStep
  PROVE  [Service!SNext]_(Service!svars)
<1>type. Pol!TypeOK /\ Pol!SockTypeOK
  BY DEF Pol!PollInv, Pol!TypeOK
<1>1. ~Pol!BrokenPipe
  BY PolHereIsOpen DEF Pol!BrokenPipe, Pol!Breaks, PolRuns, Pol!NobodyGone
<1>2. Side' = Side
  <2>1. cli' = cli
    BY <1>1
       DEF Pol!ServerStep, Pol!Poll, Pol!NotListen, Pol!Accept, Pol!Accepting, Pol!Refuse,
           Pol!AcceptError, Pol!Pass, Pol!ReadSome, Pol!ReadEnd, Pol!WriteBack, Pol!Take,
           Pol!Read, Pol!Write, Pol!Close, Pol!sockVars
  <2> QED
    BY <2>1 DEF Side
<1>3. CASE Pol!Poll \/ Pol!NotListen \/ Pol!AcceptError \/ Pol!Pass
  BY <1>3, <1>2
     DEF Pol!Poll, Pol!NotListen, Pol!AcceptError, Pol!Pass, Pol!sockVars, Pol!streamVars,
         Service!svars
<1>4. CASE Pol!Accept
  <2>1. /\ Head(backlog) \in Conns /\ conn[Head(backlog)] = "queued"
        /\ conn' = [conn EXCEPT ![Head(backlog)] = "open"]
        /\ UNCHANGED <<sent, echoed>>
    BY <1>4, Pol!TakeKeepsSock DEF Pol!Accept, Pol!Accepting, Pol!PollInv
  <2>2. Service!Admit(Head(backlog))
    BY <2>1, <1>2 DEF Service!Admit, Service!Become
  <2> QED
    BY <2>1, <2>2 DEF Service!SNext
<1>5. CASE Pol!Refuse
  <2>1. /\ Head(backlog) \in Conns /\ conn[Head(backlog)] = "queued"
        /\ conn' = [conn EXCEPT ![Head(backlog)] = "refused"]
        /\ UNCHANGED <<sent, echoed>>
    BY <1>5, Pol!TakeKeepsSock DEF Pol!Refuse, Pol!Accepting, Pol!PollInv
  <2>2. Pol!Cardinality(Pol!Open) = Capacity
    <3>1. nFdUse = Pol!Cardinality(Pol!Open) + 1 /\ Pol!Cardinality(Pol!Open) \in Nat
      BY Pol!FS_CardinalityType DEF Pol!PollInv, Pol!OpenInv, PolRuns
    <3>2. /\ nFdUse + 1 > POLL_MAXCLIENT
          /\ nFdUse \in 1 .. POLL_MAXCLIENT
          /\ POLL_MAXCLIENT \in Nat
      BY <1>5, <1>type DEF Pol!Refuse, Pol!TypeOK, Pol!PollConstants
    <3> QED
      BY <3>1, <3>2 DEF Capacity
  <2>3. Service!TurnAway(Head(backlog))
    BY <2>1, <2>2, <1>2
       DEF Service!TurnAway, Service!Become, Pol!Open, Service!Cardinality, Pol!Cardinality
  <2> QED
    BY <2>1, <2>3 DEF Service!SNext
<1>6. CASE Pol!ReadSome
  BY <1>6, <1>2 DEF Pol!ReadSome, Pol!Read, Service!svars
<1>7. CASE Pol!WriteBack
  <2>1. /\ file[Pol!Here] \in Conns /\ conn[file[Pol!Here]] = "open"
        /\ echoed' = [echoed EXCEPT ![file[Pol!Here]] = @ + n]
        /\ UNCHANGED <<conn, sent>>
    BY <1>7, PolHereIsOpen DEF Pol!WriteBack, Pol!Write
  <2> PICK c \in Conns : c = file[Pol!Here]
    BY <2>1
  <2>2. n \in 1 .. sent[c] - echoed[c]
    <3>1. /\ n \in 0 .. MaxSend /\ n > 0
          /\ sent[c] \in 0 .. MaxSend /\ echoed[c] \in 0 .. MaxSend /\ got[c] \in 0 .. MaxSend
          /\ got[c] - echoed[c] = n /\ got[c] <= sent[c]
      BY <1>7, <1>type
         DEF Pol!WriteBack, Pol!TypeOK, Pol!SockTypeOK, Pol!PollInv, Pol!SockInv, Pol!TurnInv,
             Pol!NothingLost
    <3> QED
      BY <3>1
  <2>3. Service!Echo(c)
    BY <2>1, <2>2, <1>2 DEF Service!Echo
  <2> QED
    BY <2>3 DEF Service!SNext
<1>8. CASE Pol!ReadEnd
  <2>1. /\ file[Pol!Here] \in Conns
        /\ conn[file[Pol!Here]] = "open"
        /\ Pol!AtEnd(file[Pol!Here])
        /\ conn' = [conn EXCEPT ![file[Pol!Here]] = "closed"]
        /\ UNCHANGED <<sent, echoed>>
    BY <1>8, PolHereIsOpen DEF Pol!ReadEnd, Pol!Close, Pol!streamVars
  <2> PICK c \in Conns : c = file[Pol!Here]
    BY <2>1
  <2>2. cli[c] = "fin" /\ echoed[c] = sent[c]
    <3>1. cli[c] = "fin" /\ sent[c] - got[c] = 0 /\ got[c] - echoed[c] = 0
      BY <2>1, <1>8
         DEF Pol!AtEnd, Pol!Unread, PolRuns, Pol!NobodyGone, Pol!ReadEnd, Pol!PollInv,
             Pol!NothingLost
    <3>2. sent[c] \in Nat /\ got[c] \in Nat /\ echoed[c] \in Nat
      BY <1>type DEF Pol!SockTypeOK
    <3> QED
      BY <3>1, <3>2
  <2>3. Side[c] = "ended"
    BY <2>2 DEF Side
  <2>4. Service!HangUp(c)
    BY <2>1, <2>2, <2>3, <1>2 DEF Service!HangUp, Service!Become
  <2> QED
    BY <2>4 DEF Service!SNext
<1> QED
  BY <1>1, <1>3, <1>4, <1>5, <1>6, <1>7, <1>8 DEF Pol!ServerStep

LEMMA PolClientStepRefines ==
  ASSUME Capacity' = Capacity, server = "poll", Healthy, Pol!SockInv, NEW c \in Conns,
         NEW listening, Pol!ClientStep(c, listening)
  PROVE  Service!SNext
<1>1. Service!Ask(c) \/ Service!Say(c) \/ Service!Leave(c, "ended")
  BY Pol!ClientSides
     DEF Healthy, Pol!Side, Side, Service!Ask, Service!Become, Service!Say, Service!Leave
<1> QED
  BY <1>1 DEF Service!SNext

(* Where no client vanishes, the server is an echo service of MAXCLIENT - 1*)
(* clients: it turns one away exactly when that many are open, sends every *)
(* byte back once and closes when all is echoed.                           *)
LEMMA PolStepRefines ==
  ASSUME Pol!PollConstants, server = "poll", Healthy, Capacity' = Capacity,
         Pol!PollInv, PolRuns, [Pol!Next]_(Pol!vars)
  PROVE  [Service!SNext]_(Service!svars)
<1>1. CASE UNCHANGED Pol!vars
  BY <1>1 DEF Pol!vars, Pol!sockVars, Pol!streamVars, Service!svars, Side
<1>2. CASE Pol!ServerStep
  BY <1>2, PolServerStepRefines
<1>3. ASSUME NEW c \in Conns, Pol!ClientStep(c, spc # "exited") PROVE Service!SNext
  BY <1>3, PolClientStepRefines DEF Pol!PollInv
<1> QED
  BY <1>1, <1>2, <1>3 DEF Pol!Next

-----------------------------------------------------------------------------
(* EPOLL.  The inductive invariant is EpollInv.                            *)

LEMMA EpoFdsFinite ==
  ASSUME Epo!EpollConstants
  PROVE  /\ Epo!listenfd \notin Epo!Fds
         /\ \A S \in SUBSET Epo!Fds : Epo!IsFiniteSet(S) /\ Epo!Cardinality(S) \in Nat
<1> USE DEF Epo!EpollConstants, Epo!Fds, Epo!listenfd
<1>1. Epo!IsFiniteSet(Epo!Fds)
  BY Epo!FS_Interval
<1>2. ASSUME NEW S \in SUBSET Epo!Fds PROVE Epo!IsFiniteSet(S) /\ Epo!Cardinality(S) \in Nat
  <2>1. Epo!IsFiniteSet(S)
    BY <1>1, Epo!FS_Subset
  <2> QED
    BY <2>1, Epo!FS_CardinalityType
<1> QED
  BY <1>2

LEMMA EpoInit == Epo!EpollConstants /\ Epo!Init => Epo!EpollInv
<1> SUFFICES ASSUME Epo!EpollConstants, Epo!Init PROVE Epo!EpollInv
  OBVIOUS
<1> USE Epo!SocketConstants DEF Epo!Init
<1>1. Epo!SockInv
  BY Epo!SockInitInv
<1>2. Epo!TypeOK
  BY <1>1 DEF Epo!TypeOK, Epo!SockInv, Epo!EpollConstants
<1>3. Epo!Used = {} /\ Epo!Open = {}
  BY DEF Epo!Used, Epo!FreeFds, Epo!Open, Epo!SockInit
<1>4. Epo!TableInv /\ Epo!OpenInv
  BY <1>3, Epo!FS_EmptySet DEF Epo!TableInv, Epo!OpenInv
<1>5. Epo!EdgeInv /\ Epo!BufferInv
  BY <1>3 DEF Epo!EdgeInv, Epo!BufferInv, Epo!SockInit
<1>6. Epo!NeverBlocks /\ Epo!NothingForgotten
  BY DEF Epo!NeverBlocks, Epo!NothingForgotten
<1> QED
  BY <1>1, <1>2, <1>4, <1>5, <1>6 DEF Epo!EpollInv

-----------------------------------------------------------------------------
(* What the parts of the invariant say together.                           *)

LEMMA EpoUsedIsOpen ==
  ASSUME Epo!EpollInv, spc # "exited"
  PROVE  \A fd \in Epo!Used : file[fd] \in Conns /\ conn[file[fd]] = "open" /\ file[fd] # NoConn
BY DEF Epo!EpollInv, Epo!OpenInv, Epo!TypeOK, Epo!Open, Epo!Used, Epo!FreeFds

(* An event that is handled is about a connection, and about one whose     *)
(* read does not wait.                                                     *)
LEMMA EpoEventIsOpen ==
  ASSUME Epo!EpollConstants, Epo!EpollInv, spc = "run", NEW fd \in Epo!Fds, fd \in events
  PROVE  /\ fd \in Epo!Used /\ file[fd] \in Conns /\ conn[file[fd]] = "open"
         /\ watch[fd] # "out" => Epo!Readable(file[fd])
<1>1. watch[fd] # "none" /\ (watch[fd] # "out" => Epo!Readable(file[fd]))
  BY EpoFdsFinite DEF Epo!EpollInv, Epo!NeverBlocks
<1>2. fd \in Epo!Used
  BY <1>1 DEF Epo!EpollInv, Epo!TableInv
<1> QED
  BY <1>1, <1>2, EpoUsedIsOpen

-----------------------------------------------------------------------------
(* The clients.                                                            *)

(* What is readable stays so, and what becomes readable has an arrival.    *)
LEMMA EpoReadyStays ==
  ASSUME Epo!SockInv, NEW c \in Conns, NEW listening, Epo!ClientStep(c, listening)
  PROVE  /\ backlog # <<>> => backlog' # <<>>
         /\ \A d \in Conns : conn[d] = "open" =>
               /\ conn'[d] = "open"
               /\ Epo!Readable(d) => Epo!Readable(d)'
               /\ sent'[d] # sent[d] => Epo!Readable(d)'
               /\ cli'[d] \in {"fin", "gone"} => Epo!Readable(d)'
               /\ Epo!Readable(d)' /\ ~Epo!Readable(d) =>
                     \/ sent'[d] # sent[d]
                     \/ cli'[d] \in {"fin", "gone"} /\ cli'[d] # cli[d]
<1>type. Epo!SockTypeOK
  BY DEF Epo!SockInv
<1>1. backlog # <<>> => backlog' # <<>>
  <2>1. CASE Epo!Connect(c)
    <3>1. backlog' = Append(backlog, c) /\ backlog \in Seq(Conns)
      BY <2>1, <1>type DEF Epo!Connect, Epo!SockTypeOK
    <3> QED
      BY <3>1
  <2>2. CASE ~Epo!Connect(c)
    BY <2>2 DEF Epo!ClientStep, Epo!Send, Epo!Shutdown, Epo!SeeFin, Epo!Reset
  <2> QED
    BY <2>1, <2>2
<1>2. ASSUME NEW d \in Conns, conn[d] = "open"
      PROVE  /\ conn'[d] = "open"
             /\ Epo!Readable(d) => Epo!Readable(d)'
             /\ sent'[d] # sent[d] => Epo!Readable(d)'
             /\ cli'[d] \in {"fin", "gone"} => Epo!Readable(d)'
             /\ Epo!Readable(d)' /\ ~Epo!Readable(d) =>
                   \/ sent'[d] # sent[d]
                   \/ cli'[d] \in {"fin", "gone"} /\ cli'[d] # cli[d]
  <2>1. /\ got' = got /\ sent'[d] >= sent[d] /\ conn'[d] = "open"
        /\ cli[d] \in {"fin", "gone"} => cli'[d] \in {"fin", "gone"}
    BY <1>2, Epo!ClientFrame
  <2>2. got[d] \in Nat /\ sent[d] \in Nat /\ sent'[d] \in Nat /\ got[d] <= sent[d]
    BY <1>type, Epo!ClientKeepsSock DEF Epo!SockInv, Epo!SockTypeOK
  <2> QED
    BY <2>1, <2>2 DEF Epo!Readable, Epo!Unread
<1> QED
  BY <1>1, <1>2

LEMMA EpoClientKeeps ==
  ASSUME Epo!EpollConstants, Epo!EpollInv, NEW c \in Conns, Epo!ClientStep(c, spc # "exited"),
         edge' = edge \cup Epo!Arrivals,
         UNCHANGED <<spc, file, watch, md, nFdUse, events, garbled>>
  PROVE  Epo!EpollInv'
<1>1. Epo!SockInv /\ Epo!TypeOK
  BY DEF Epo!EpollInv
<1>2. Epo!SockInv' /\ Epo!SockTypeOK'
  BY <1>1, Epo!ClientKeepsSock DEF Epo!SockInv
<1>3. Epo!TypeOK'
  BY <1>1, <1>2 DEF Epo!TypeOK, Epo!Arrivals
<1>4. Epo!Used' = Epo!Used /\ Epo!FreeFds' = Epo!FreeFds
  BY DEF Epo!Used, Epo!FreeFds
<1>5. Epo!TableInv'
  BY <1>4 DEF Epo!EpollInv, Epo!TableInv
<1>6. Epo!Open' = Epo!Open
  BY <1>1, Epo!ClientFrame DEF Epo!Open
<1>7. Epo!OpenInv'
  BY <1>4, <1>6 DEF Epo!EpollInv, Epo!OpenInv
<1>8. Epo!BufferInv'
  <2>1. UNCHANGED <<got, echoed>>
    BY <1>1, Epo!ClientFrame
  <2> QED
    BY <2>1, <1>4, <1>6 DEF Epo!EpollInv, Epo!BufferInv
<1>9. ASSUME spc # "exited", NEW fd \in Epo!Used
      PROVE  /\ Epo!Readable(file[fd]) => Epo!Readable(file[fd])'
             /\ fd \in Epo!Arrivals => Epo!Readable(file[fd])'
             /\ watch[fd] = "edge" /\ Epo!Readable(file[fd])' =>
                   Epo!Readable(file[fd]) \/ fd \in Epo!Arrivals
  <2> PICK d \in Conns : d = file[fd] /\ conn[d] = "open" /\ d # NoConn
    BY <1>9, EpoUsedIsOpen
  <2>1. /\ Epo!Readable(d) => Epo!Readable(d)'
        /\ sent'[d] # sent[d] => Epo!Readable(d)'
        /\ cli'[d] \in {"fin", "gone"} => Epo!Readable(d)'
        /\ Epo!Readable(d)' /\ ~Epo!Readable(d) =>
              \/ sent'[d] # sent[d]
              \/ cli'[d] \in {"fin", "gone"} /\ cli'[d] # cli[d]
    BY <1>1, EpoReadyStays
  <2>2. file' = file /\ fd \in Epo!Fds
    BY DEF Epo!Used
  <2> QED
    BY <2>1, <2>2 DEF Epo!Arrivals
<1>10. Epo!Arrivals \subseteq Epo!Used
  BY DEF Epo!Arrivals, Epo!Used, Epo!FreeFds
<1>11. Epo!EdgeInv'
  <2>1. ASSUME spc # "exited", NEW fd \in edge
        PROVE  watch[fd] = "edge" /\ Epo!Readable(file[fd])'
    <3>1. watch[fd] = "edge" /\ Epo!Readable(file[fd]) /\ fd \in Epo!Used
      BY <2>1, <1>1 DEF Epo!EpollInv, Epo!EdgeInv, Epo!TableInv, Epo!TypeOK
    <3> QED
      BY <3>1, <2>1, <1>9
  <2>2. ASSUME spc # "exited", NEW fd \in Epo!Arrivals
        PROVE  watch[fd] = "edge" /\ Epo!Readable(file[fd])'
    BY <2>2, <1>9, <1>10 DEF Epo!Arrivals
  <2> QED
    BY <2>1, <2>2 DEF Epo!EdgeInv
<1>12. Epo!NeverBlocks'
  <2>1. ASSUME spc = "run", NEW e \in events, e # Epo!listenfd
        PROVE  watch[e] # "none" /\ (watch[e] # "out" => Epo!Readable(file[e])')
    <3>1. e \in Epo!Fds
      BY <2>1, <1>1 DEF Epo!TypeOK
    <3>2. e \in Epo!Used /\ watch[e] # "none" /\ (watch[e] # "out" => Epo!Readable(file[e]))
      BY <2>1, <3>1 DEF Epo!EpollInv, Epo!NeverBlocks, Epo!TableInv
    <3> QED
      BY <3>2, <2>1, <1>9
  <2>2. spc = "run" /\ Epo!listenfd \in events => backlog' # <<>>
    BY <1>1, EpoReadyStays DEF Epo!EpollInv, Epo!NeverBlocks
  <2> QED
    BY <2>1, <2>2 DEF Epo!NeverBlocks
<1>13. Epo!NothingForgotten'
  <2>1. ASSUME spc = "run", NEW fd \in Epo!Used, watch[fd] = "edge", Epo!Readable(file[fd])'
        PROVE  fd \in edge' \cup events
    BY <2>1, <1>9 DEF Epo!EpollInv, Epo!NothingForgotten, Epo!Used
  <2> QED
    BY <2>1, <1>4 DEF Epo!NothingForgotten, Epo!Used
<1> QED
  BY <1>2, <1>3, <1>5, <1>7, <1>8, <1>11, <1>12, <1>13 DEF Epo!EpollInv

-----------------------------------------------------------------------------
(* epoll_wait.                                                             *)

LEMMA EpoWaitKeeps == ASSUME Epo!EpollConstants, Epo!EpollInv, Epo!EpollWait PROVE Epo!EpollInv'
<1> USE EpoFdsFinite
<1>type. Epo!TypeOK
  BY DEF Epo!EpollInv
<1>step. /\ spc = "run" /\ events = {} /\ events' \subseteq Epo!AllWatched
         /\ edge' = edge \ events'
         /\ UNCHANGED <<Epo!sockVars, spc, file, watch, md, nFdUse, garbled>>
  BY DEF Epo!EpollWait
<1>same. UNCHANGED <<backlog, conn, cli, sent, got, echoed>>
  BY <1>step DEF Epo!sockVars, Epo!streamVars
<1>1. Epo!SockInv'
  BY <1>step, Epo!SockStutters DEF Epo!EpollInv
<1>2. Epo!TypeOK'
  BY <1>1, <1>step, <1>type DEF Epo!TypeOK, Epo!SockInv, Epo!AllWatched
<1>3. Epo!Used' = Epo!Used /\ Epo!FreeFds' = Epo!FreeFds /\ Epo!Open' = Epo!Open
  BY <1>step, <1>same DEF Epo!Used, Epo!FreeFds, Epo!Open
<1>4. Epo!TableInv' /\ Epo!OpenInv' /\ Epo!BufferInv'
  BY <1>3, <1>step, <1>same DEF Epo!EpollInv, Epo!TableInv, Epo!OpenInv, Epo!BufferInv
<1>5. \A d \in Conns : Epo!Readable(d)' <=> Epo!Readable(d)
  BY <1>same DEF Epo!Readable, Epo!Unread
<1>6. Epo!EdgeInv'
  BY <1>step, <1>same DEF Epo!EpollInv, Epo!EdgeInv, Epo!Readable, Epo!Unread
<1>7. Epo!NeverBlocks'
  <2>1. ASSUME NEW e \in events'
        PROVE  IF e = Epo!listenfd THEN backlog # <<>>
               ELSE watch[e] # "none" /\ (watch[e] # "out" => Epo!Readable(file[e]))
    <3>1. Epo!Watched(e) /\ e \in Epo!Fds \cup {Epo!listenfd}
      BY <2>1, <1>step DEF Epo!AllWatched
    <3>2. CASE e = Epo!listenfd
      BY <3>1, <3>2 DEF Epo!Watched
    <3>3. CASE e # Epo!listenfd
      <4>1. e \in Epo!Fds
        BY <3>1, <3>3
      <4>2. \/ watch[e] = "level" /\ Epo!Readable(file[e])
            \/ watch[e] = "edge" /\ e \in edge
            \/ watch[e] = "out"
        BY <3>1, <3>3, <4>1 DEF Epo!Watched
      <4> QED
        BY <4>1, <4>2, <3>3, <1>step DEF Epo!EpollInv, Epo!EdgeInv
    <3> QED
      BY <3>2, <3>3
  <2> QED
    BY <2>1, <1>step, <1>same DEF Epo!NeverBlocks, Epo!Readable, Epo!Unread
<1>8. Epo!NothingForgotten'
  BY <1>3, <1>step, <1>same DEF Epo!EpollInv, Epo!NothingForgotten, Epo!Readable, Epo!Unread
<1> QED
  BY <1>1, <1>2, <1>4, <1>6, <1>7, <1>8 DEF Epo!EpollInv

-----------------------------------------------------------------------------
(* The listening socket.                                                   *)

LEMMA EpoAcceptKeeps == ASSUME Epo!EpollConstants, Epo!EpollInv, Epo!Accept PROVE Epo!EpollInv'
<1> USE EpoFdsFinite
<1>type. Epo!TypeOK /\ Epo!SockTypeOK
  BY DEF Epo!EpollInv, Epo!TypeOK
<1>step. /\ spc = "run" /\ spc' = "run" /\ events' = events \ {Epo!listenfd}
         /\ backlog # <<>> /\ nFdUse + 1 <= EPOLL_MAXCLIENT
         /\ nFdUse' = nFdUse + 1 /\ Epo!Take("open")
         /\ UNCHANGED <<edge, md, garbled>>
  BY DEF Epo!Accept, Epo!Handle
<1>1. PICK fd \in Epo!FreeFds : /\ file' = [file EXCEPT ![fd] = Head(backlog)]
                            /\ watch' = [watch EXCEPT ![fd] = "level"]
  BY DEF Epo!Accept
<1>2. PICK c \in Conns : c = Head(backlog)
  BY <1>step, Epo!TakeKeepsSock DEF Epo!EpollInv
<1>take. /\ conn[c] = "queued"
         /\ conn'[c] = "open" /\ \A d \in Conns : d # c => conn'[d] = conn[d]
         /\ UNCHANGED <<cli, sent, got, echoed>>
         /\ Epo!SockInv'
  BY <1>step, <1>2, Epo!TakeKeepsSock DEF Epo!EpollInv
<1>3. /\ fd \in Epo!Fds
      /\ file[fd] = NoConn
      /\ fd \notin Epo!Used
      /\ watch[fd] = "none"
      /\ md[fd] = 0
  <2>1. fd \in Epo!Fds /\ file[fd] = NoConn /\ fd \notin Epo!Used
    BY DEF Epo!FreeFds, Epo!Used
  <2>2. watch[fd] = "none" /\ ~(md[fd] > 0)
    BY <2>1 DEF Epo!EpollInv, Epo!TableInv
  <2>3. md[fd] \in 0 .. MaxSend
    BY <2>1, <1>type DEF Epo!TypeOK
  <2> QED
    BY <2>1, <2>2, <2>3, Epo!SocketConstants
<1>4. /\ file'[fd] = c /\ \A fe \in Epo!Fds : fe # fd => file'[fe] = file[fe]
      /\ watch'[fd] = "level" /\ \A fe \in Epo!Fds : fe # fd => watch'[fe] = watch[fe]
  BY <1>1, <1>2, <1>3, <1>type DEF Epo!TypeOK
<1>5. Epo!Used' = Epo!Used \cup {fd}
  BY <1>3, <1>4, Epo!SocketConstants DEF Epo!Used, Epo!FreeFds
<1>6. \A fe \in Epo!Used : /\ fe \in Epo!Fds
                           /\ fe # fd
                           /\ file'[fe] = file[fe]
                           /\ watch'[fe] = watch[fe]
                       /\ file[fe] \in Conns /\ file[fe] # c /\ conn[file[fe]] = "open"
  BY <1>3, <1>4, <1>step, <1>take, EpoUsedIsOpen DEF Epo!Used
<1>7. \A d \in Conns : Epo!Readable(d)' <=> Epo!Readable(d)
  BY <1>take DEF Epo!Readable, Epo!Unread
<1>8. Epo!TypeOK'
  <2>1. nFdUse' \in 0 .. EPOLL_MAXCLIENT
    BY <1>step, <1>type DEF Epo!TypeOK
  <2>2. /\ file' \in [Epo!Fds -> Conns \cup {NoConn}]
        /\ watch' \in [Epo!Fds -> {"none", "level", "edge", "out"}]
    BY <1>1, <1>2, <1>type DEF Epo!TypeOK
  <2> QED
    BY <2>1, <2>2, <1>step, <1>take, <1>type DEF Epo!TypeOK, Epo!SockInv
<1>9. Epo!TableInv'
  <2>1. \A fe \in Epo!Fds : fe \in Epo!Used' <=> watch'[fe] # "none"
    BY <1>4, <1>5 DEF Epo!EpollInv, Epo!TableInv
  <2>2. \A fe, g \in Epo!Used' : file'[fe] = file'[g] => fe = g
    BY <1>4, <1>5, <1>6 DEF Epo!EpollInv, Epo!TableInv
  <2>3. \A fe \in Epo!Fds : md'[fe] > 0 <=> watch'[fe] = "out"
    BY <1>3, <1>4, <1>step DEF Epo!EpollInv, Epo!TableInv
  <2>4. nFdUse' = Epo!Cardinality(Epo!Used')
    <3>1. Epo!IsFiniteSet(Epo!Used) /\ nFdUse = Epo!Cardinality(Epo!Used)
      BY DEF Epo!Used, Epo!EpollInv, Epo!TableInv
    <3> QED
      BY <3>1, <1>step, <1>3, <1>5, Epo!FS_AddElement
  <2> QED
    BY <2>1, <2>2, <2>3, <2>4 DEF Epo!TableInv
<1>10. Epo!Open' = Epo!Open \cup {c} /\ c \notin Epo!Open
  BY <1>take DEF Epo!Open
<1>11. Epo!OpenInv'
  <2>1. /\ Epo!Open = {file[fe] : fe \in Epo!Used}
        /\ Epo!IsFiniteSet(Epo!Open)
        /\ nFdUse = Epo!Cardinality(Epo!Open)
    BY <1>step DEF Epo!EpollInv, Epo!OpenInv
  <2>2. Epo!Open' = {file'[fe] : fe \in Epo!Used'}
    BY <2>1, <1>4, <1>5, <1>6, <1>10
  <2>3. Epo!IsFiniteSet(Epo!Open') /\ Epo!Cardinality(Epo!Open') = Epo!Cardinality(Epo!Open) + 1
    BY <2>1, <1>10, Epo!FS_AddElement
  <2> QED
    BY <2>1, <2>2, <2>3, <1>step DEF Epo!OpenInv
<1>12. Epo!BufferInv'
  <2>1. \A fe \in Epo!Used : got[file[fe]] - echoed[file[fe]] = md[fe]
    BY <1>step DEF Epo!EpollInv, Epo!BufferInv
  <2>2. got[c] = echoed[c] /\ \A d \in Conns \ Epo!Open : got[d] = echoed[d]
    BY <1>step, <1>10 DEF Epo!EpollInv, Epo!BufferInv
  <2>3. got[c] - echoed[c] = 0
    BY <2>2, <1>type DEF Epo!SockTypeOK
  <2> QED
    BY <2>1, <2>2, <2>3, <1>3, <1>4, <1>5, <1>6, <1>10, <1>step, <1>take DEF Epo!BufferInv
<1>13. Epo!EdgeInv'
  <2>1. ASSUME NEW fe \in edge
        PROVE  watch'[fe] = "edge" /\ Epo!Readable(file[fe]) /\ fe \in Epo!Used
    <3>1. watch[fe] = "edge" /\ Epo!Readable(file[fe]) /\ fe \in Epo!Fds
      BY <1>step, <1>type DEF Epo!EpollInv, Epo!EdgeInv, Epo!TypeOK
    <3>2. fe \in Epo!Used
      BY <3>1 DEF Epo!EpollInv, Epo!TableInv
    <3> QED
      BY <3>1, <3>2, <1>6
  <2> QED
    BY <2>1, <1>6, <1>step, <1>take DEF Epo!EdgeInv, Epo!Readable, Epo!Unread
<1>14. Epo!NeverBlocks'
  <2>1. ASSUME NEW e \in events \ {Epo!listenfd}
        PROVE  watch'[e] # "none" /\ (watch'[e] # "out" => Epo!Readable(file[e])) /\ e \in Epo!Used
    <3>1. e \in Epo!Fds
      BY <1>type DEF Epo!TypeOK
    <3>2. e \in Epo!Used /\ watch[e] # "none" /\ (watch[e] # "out" => Epo!Readable(file[e]))
      BY <3>1, <1>step DEF Epo!EpollInv, Epo!NeverBlocks, Epo!TableInv
    <3> QED
      BY <3>2, <1>6
  <2> QED
    BY <2>1, <1>6, <1>step, <1>take DEF Epo!NeverBlocks, Epo!Readable, Epo!Unread
<1>15. Epo!NothingForgotten'
  <2>1. ASSUME NEW fe \in Epo!Used', watch'[fe] = "edge", Epo!Readable(file[fe])'
        PROVE  fe \in edge \cup (events \ {Epo!listenfd})
    <3>1. fe \in Epo!Used
      BY <2>1, <1>4, <1>5
    <3>2. watch[fe] = "edge" /\ Epo!Readable(file[fe])
      BY <3>1, <2>1, <1>6, <1>take DEF Epo!Readable, Epo!Unread
    <3>3. fe \in edge \cup events
      BY <3>1, <3>2, <1>step DEF Epo!EpollInv, Epo!NothingForgotten, Epo!Used
    <3> QED
      BY <3>1, <3>3, <1>6
  <2> QED
    BY <2>1, <1>step DEF Epo!NothingForgotten, Epo!Used
<1> QED
  BY <1>take, <1>8, <1>9, <1>11, <1>12, <1>13, <1>14, <1>15 DEF Epo!EpollInv

(* The connection is closed at once, or stays where it is.                 *)
LEMMA EpoRefuseKeeps ==
  ASSUME Epo!EpollConstants, Epo!EpollInv, Epo!Refuse \/ Epo!AcceptError
  PROVE  Epo!EpollInv'
<1> USE EpoFdsFinite
<1>type. Epo!TypeOK /\ Epo!SockTypeOK
  BY DEF Epo!EpollInv, Epo!TypeOK
<1>step. /\ spc = "run" /\ spc' = "run" /\ events' = events \ {Epo!listenfd}
         /\ UNCHANGED <<file, watch, edge, md, nFdUse, garbled>>
  BY DEF Epo!Refuse, Epo!AcceptError, Epo!Handle
<1>1. /\ Epo!SockInv' /\ UNCHANGED <<cli, sent, got, echoed>>
      /\ Epo!Open' = Epo!Open
  <2>1. CASE Epo!Refuse
    <3>1. backlog # <<>> /\ Epo!Take("refused")
      BY <2>1 DEF Epo!Refuse
    <3>2. PICK c \in Conns : c = Head(backlog)
      BY <3>1, Epo!TakeKeepsSock DEF Epo!EpollInv
    <3>3. /\ conn[c] = "queued"
          /\ conn'[c] = "refused" /\ \A d \in Conns : d # c => conn'[d] = conn[d]
          /\ UNCHANGED <<cli, sent, got, echoed>>
          /\ Epo!SockInv'
      BY <3>1, <3>2, Epo!TakeKeepsSock DEF Epo!EpollInv
    <3> QED
      BY <3>3 DEF Epo!Open
  <2>2. CASE Epo!AcceptError
    BY <2>2, Epo!SockStutters
       DEF Epo!AcceptError, Epo!EpollInv, Epo!sockVars, Epo!streamVars, Epo!Open
  <2> QED
    BY <2>1, <2>2
<1>2. Epo!TypeOK'
  BY <1>step, <1>1, <1>type DEF Epo!TypeOK, Epo!SockInv
<1>3. Epo!Used' = Epo!Used /\ Epo!FreeFds' = Epo!FreeFds
  BY <1>step DEF Epo!Used, Epo!FreeFds
<1>4. Epo!TableInv' /\ Epo!OpenInv' /\ Epo!BufferInv' /\ Epo!EdgeInv'
  BY <1>1, <1>3, <1>step
     DEF Epo!EpollInv, Epo!TableInv, Epo!OpenInv, Epo!BufferInv, Epo!EdgeInv, Epo!Readable,
         Epo!Unread
<1>5. Epo!NeverBlocks' /\ Epo!NothingForgotten'
  <2>1. Epo!listenfd \notin Epo!Fds \ Epo!FreeFds
    OBVIOUS
  <2> QED
    BY <2>1, <1>1, <1>3, <1>step
       DEF Epo!EpollInv, Epo!NeverBlocks, Epo!NothingForgotten, Epo!Readable, Epo!Unread
<1> QED
  BY <1>1, <1>2, <1>4, <1>5 DEF Epo!EpollInv

-----------------------------------------------------------------------------
(* The descriptors of the clients.                                         *)

(* A step about one descriptor and its connection leaves what the others   *)
(* have to read, and whether it is reported, as it is.                     *)
LEMMA EpoRestStays ==
  ASSUME Epo!EpollConstants, Epo!EpollInv, spc = "run", spc' = "run",
         NEW fd \in Epo!Fds, fd \in events, events' = events \ {fd},
         UNCHANGED <<backlog, cli, sent>>,
         \A d \in Conns : d # file[fd] => got'[d] = got[d],
         \A fe \in Epo!Fds : fe # fd => file'[fe] = file[fe] /\ watch'[fe] = watch[fe],
         edge' \ {fd} = edge \ {fd},
         Epo!Used' \subseteq Epo!Used,
         fd \in edge' => watch'[fd] = "edge" /\ Epo!Readable(file[fd])',
         fd \in Epo!Used' /\ watch'[fd] = "edge" /\ Epo!Readable(file[fd])' => fd \in edge'
  PROVE  Epo!EdgeInv' /\ Epo!NeverBlocks' /\ Epo!NothingForgotten'
<1> USE EpoFdsFinite
<1>type. Epo!TypeOK
  BY DEF Epo!EpollInv
<1>1. ASSUME NEW fe \in Epo!Used, fe # fd
      PROVE  /\ fe \in Epo!Fds /\ watch'[fe] = watch[fe]
             /\ Epo!Readable(file[fe])' <=> Epo!Readable(file[fe])
  <2>1. fe \in Epo!Fds /\ fd \in Epo!Used
    BY EpoEventIsOpen DEF Epo!Used
  <2>2. file[fe] # file[fd] /\ file[fe] \in Conns
    BY <1>1, <2>1, EpoUsedIsOpen DEF Epo!EpollInv, Epo!TableInv
  <2> QED
    BY <1>1, <2>1, <2>2 DEF Epo!Readable, Epo!Unread
<1>2. Epo!EdgeInv'
  <2>1. ASSUME NEW fe \in edge', fe # fd PROVE watch'[fe] = "edge" /\ Epo!Readable(file[fe])'
    <3>1. fe \in edge /\ fe \in Epo!Fds /\ watch[fe] = "edge" /\ Epo!Readable(file[fe])
      BY <2>1, <1>type DEF Epo!EpollInv, Epo!EdgeInv, Epo!TypeOK
    <3>2. fe \in Epo!Used
      BY <3>1 DEF Epo!EpollInv, Epo!TableInv
    <3> QED
      BY <3>1, <3>2, <2>1, <1>1
  <2> QED
    BY <2>1 DEF Epo!EdgeInv
<1>3. Epo!NeverBlocks'
  <2>1. ASSUME NEW e \in events', e # Epo!listenfd
        PROVE  watch'[e] # "none" /\ (watch'[e] # "out" => Epo!Readable(file[e])')
    <3>1. e \in Epo!Fds /\ e \in events /\ e # fd
      BY <2>1, <1>type DEF Epo!TypeOK
    <3>2. e \in Epo!Used /\ watch[e] # "none" /\ (watch[e] # "out" => Epo!Readable(file[e]))
      BY <3>1 DEF Epo!EpollInv, Epo!NeverBlocks, Epo!TableInv
    <3> QED
      BY <3>1, <3>2, <1>1
  <2> QED
    BY <2>1 DEF Epo!EpollInv, Epo!NeverBlocks
<1>4. Epo!NothingForgotten'
  <2>1. ASSUME NEW fe \in Epo!Used', watch'[fe] = "edge", Epo!Readable(file[fe])', fe # fd
        PROVE  fe \in edge' \cup events'
    <3>1. fe \in Epo!Used /\ watch[fe] = "edge" /\ Epo!Readable(file[fe])
      BY <2>1, <1>1
    <3> QED
      BY <3>1, <2>1 DEF Epo!EpollInv, Epo!NothingForgotten, Epo!Used
  <2> QED
    BY <2>1 DEF Epo!NothingForgotten, Epo!Used
<1> QED
  BY <1>2, <1>3, <1>4

LEMMA EpoReadKeeps ==
  ASSUME Epo!EpollConstants, Epo!EpollInv, NEW fd \in Epo!Fds, Epo!ReadSome(fd)
  PROVE  Epo!EpollInv'
<1>type. Epo!TypeOK /\ Epo!SockTypeOK
  BY DEF Epo!EpollInv, Epo!TypeOK
<1>step. /\ spc = "run" /\ spc' = "run" /\ fd \in events /\ events' = events \ {fd}
         /\ watch[fd] # "out"
         /\ watch' = [watch EXCEPT ![fd] = "out"] /\ edge' = edge \ {fd}
         /\ garbled' = garbled \/ garbled' = garbled \cup {file[fd]}
         /\ UNCHANGED <<file, nFdUse>>
  BY DEF Epo!ReadSome, Epo!Handle, Epo!ForReading
<1>1. PICK k \in 1 .. MaxSend : Epo!Read(file[fd], k) /\ md' = [md EXCEPT ![fd] = k]
  BY DEF Epo!ReadSome
<1>2. PICK c \in Conns : c = file[fd] /\ conn[c] = "open" /\ fd \in Epo!Used
  BY <1>step, EpoEventIsOpen
<1>3. /\ got'[c] = got[c] + k /\ \A d \in Conns : d # c => got'[d] = got[d]
      /\ UNCHANGED <<backlog, conn, cli, sent, echoed>>
      /\ Epo!SockInv'
  BY <1>1, <1>2, Epo!ReadKeepsSock DEF Epo!EpollInv
<1>4. /\ watch'[fd] = "out" /\ md'[fd] = k
      /\ \A fe \in Epo!Fds : fe # fd => watch'[fe] = watch[fe] /\ md'[fe] = md[fe]
  BY <1>step, <1>1, <1>type DEF Epo!TypeOK
<1>5. Epo!TypeOK'
  BY <1>step, <1>1, <1>2, <1>3, <1>type DEF Epo!TypeOK, Epo!SockInv
<1>6. Epo!Used' = Epo!Used /\ Epo!FreeFds' = Epo!FreeFds /\ Epo!Open' = Epo!Open
  BY <1>step, <1>3 DEF Epo!Used, Epo!FreeFds, Epo!Open
<1>7. Epo!TableInv'
  BY <1>2, <1>4, <1>6, <1>step DEF Epo!EpollInv, Epo!TableInv
<1>8. Epo!OpenInv'
  BY <1>6, <1>step DEF Epo!EpollInv, Epo!OpenInv
<1>9. Epo!BufferInv'
  <2>1. got[c] - echoed[c] = 0
    <3>1. got[c] - echoed[c] = md[fd] /\ ~(md[fd] > 0) /\ md[fd] \in 0 .. MaxSend
      BY <1>2, <1>step, <1>type DEF Epo!EpollInv, Epo!BufferInv, Epo!TableInv, Epo!TypeOK
    <3> QED
      BY <3>1, Epo!SocketConstants
  <2>2. got'[c] - echoed[c] = k
    BY <2>1, <1>3, <1>type DEF Epo!SockTypeOK
  <2>3. \A fe \in Epo!Used : fe # fd => fe \in Epo!Fds /\ file[fe] \in Conns /\ file[fe] # c
    BY <1>2, <1>step, EpoUsedIsOpen DEF Epo!EpollInv, Epo!TableInv, Epo!Used
  <2>4. \A fe \in Epo!Used : got'[file[fe]] - echoed[file[fe]] = md'[fe]
    BY <2>2, <2>3, <1>2, <1>3, <1>4, <1>step DEF Epo!EpollInv, Epo!BufferInv
  <2>5. \A d \in Conns \ Epo!Open : got'[d] = echoed[d]
    BY <1>2, <1>3, <1>step DEF Epo!EpollInv, Epo!BufferInv, Epo!Open
  <2> QED
    BY <2>4, <2>5, <1>3, <1>6, <1>step DEF Epo!BufferInv
<1>10. Epo!EdgeInv' /\ Epo!NeverBlocks' /\ Epo!NothingForgotten'
  BY <1>step, <1>2, <1>3, <1>4, <1>6, EpoRestStays
<1> QED
  BY <1>3, <1>5, <1>7, <1>8, <1>9, <1>10 DEF Epo!EpollInv

LEMMA EpoWriteKeeps ==
  ASSUME Epo!EpollConstants, Epo!EpollInv, NEW fd \in Epo!Fds, Epo!WriteBack(fd)
  PROVE  Epo!EpollInv'
<1>type. Epo!TypeOK /\ Epo!SockTypeOK
  BY DEF Epo!EpollInv, Epo!TypeOK
<1>step. /\ spc = "run" /\ spc' = "run" /\ fd \in events /\ events' = events \ {fd}
         /\ Epo!Write(file[fd], md[fd])
         /\ md' = [md EXCEPT ![fd] = 0]
         /\ watch' = [watch EXCEPT ![fd] = "edge"]
         /\ edge' = IF Epo!Readable(file[fd]) THEN edge \cup {fd} ELSE edge
         /\ UNCHANGED <<file, nFdUse, garbled>>
  BY DEF Epo!WriteBack, Epo!Handle
<1>out. watch[fd] = "out" /\ fd \notin edge
  BY <1>step DEF Epo!WriteBack, Epo!EpollInv, Epo!EdgeInv
<1>2. PICK c \in Conns : c = file[fd] /\ conn[c] = "open" /\ fd \in Epo!Used
  BY <1>step, EpoEventIsOpen
<1>3. got[c] - echoed[c] = md[fd] /\ md[fd] \in 0 .. MaxSend
  BY <1>2, <1>step, <1>type DEF Epo!EpollInv, Epo!BufferInv, Epo!TypeOK
<1>4. /\ echoed'[c] = got[c] /\ \A d \in Conns : d # c => echoed'[d] = echoed[d]
      /\ UNCHANGED <<backlog, conn, cli, sent, got>>
      /\ Epo!SockInv'
  BY <1>step, <1>2, <1>3, Epo!WriteKeepsSock DEF Epo!EpollInv
<1>5. /\ watch'[fd] = "edge" /\ md'[fd] = 0
      /\ \A fe \in Epo!Fds : fe # fd => watch'[fe] = watch[fe] /\ md'[fe] = md[fe]
  BY <1>step, <1>type DEF Epo!TypeOK
<1>6. Epo!TypeOK'
  <2>1. 0 \in 0 .. MaxSend
    BY Epo!SocketConstants
  <2> QED
    BY <2>1, <1>step, <1>4, <1>type DEF Epo!TypeOK, Epo!SockInv
<1>7. Epo!Used' = Epo!Used /\ Epo!FreeFds' = Epo!FreeFds /\ Epo!Open' = Epo!Open
  BY <1>step, <1>4 DEF Epo!Used, Epo!FreeFds, Epo!Open
<1>8. Epo!TableInv'
  BY <1>2, <1>5, <1>7, <1>step DEF Epo!EpollInv, Epo!TableInv
<1>9. Epo!OpenInv'
  BY <1>7, <1>step DEF Epo!EpollInv, Epo!OpenInv
<1>10. Epo!BufferInv'
  <2>1. got[c] - echoed'[c] = 0
    BY <1>4, <1>type DEF Epo!SockTypeOK
  <2>2. \A fe \in Epo!Used : fe # fd => fe \in Epo!Fds /\ file[fe] \in Conns /\ file[fe] # c
    BY <1>2, <1>step, EpoUsedIsOpen DEF Epo!EpollInv, Epo!TableInv, Epo!Used
  <2>3. \A fe \in Epo!Used : got[file[fe]] - echoed'[file[fe]] = md'[fe]
    BY <2>1, <2>2, <1>2, <1>4, <1>5, <1>step DEF Epo!EpollInv, Epo!BufferInv
  <2>4. \A d \in Conns \ Epo!Open : got[d] = echoed'[d]
    BY <1>2, <1>4, <1>step DEF Epo!EpollInv, Epo!BufferInv, Epo!Open
  <2> QED
    BY <2>3, <2>4, <1>4, <1>7, <1>step DEF Epo!BufferInv
<1>11. Epo!Readable(file[fd])' <=> Epo!Readable(file[fd])
  BY <1>4, <1>step DEF Epo!Readable, Epo!Unread
<1>12. Epo!EdgeInv' /\ Epo!NeverBlocks' /\ Epo!NothingForgotten'
  <2>1. /\ edge' \ {fd} = edge \ {fd}
        /\ fd \in edge' <=> Epo!Readable(file[fd])
    BY <1>step, <1>out
  <2> QED
    BY <2>1, <1>11, <1>step, <1>4, <1>5, <1>7, EpoRestStays
<1> QED
  BY <1>4, <1>6, <1>8, <1>9, <1>10, <1>12 DEF Epo!EpollInv

LEMMA EpoReadEndKeeps ==
  ASSUME Epo!EpollConstants, Epo!EpollInv, NEW fd \in Epo!Fds, Epo!ReadEnd(fd)
  PROVE  Epo!EpollInv'
<1> USE EpoFdsFinite
<1>type. Epo!TypeOK /\ Epo!SockTypeOK
  BY DEF Epo!EpollInv, Epo!TypeOK
<1>step. /\ spc = "run" /\ spc' = "run" /\ fd \in events /\ events' = events \ {fd}
         /\ watch[fd] # "out" /\ Epo!Close(file[fd])
         /\ file' = [file EXCEPT ![fd] = NoConn]
         /\ watch' = [watch EXCEPT ![fd] = "none"]
         /\ edge' = edge \ {fd}
         /\ nFdUse' = nFdUse - 1
         /\ UNCHANGED <<md, garbled>>
  BY DEF Epo!ReadEnd, Epo!Handle, Epo!ForReading
<1>2. PICK c \in Conns : c = file[fd] /\ conn[c] = "open" /\ fd \in Epo!Used
  BY <1>step, EpoEventIsOpen
<1>3. /\ conn'[c] = "closed" /\ \A d \in Conns : d # c => conn'[d] = conn[d]
      /\ UNCHANGED <<backlog, cli, sent, got, echoed>>
      /\ Epo!SockInv'
  <2>1. /\ conn' = [conn EXCEPT ![c] = "closed"]
        /\ UNCHANGED <<backlog, cli, sent, got, echoed>>
    BY <1>step, <1>2 DEF Epo!Close, Epo!streamVars
  <2>2. conn'[c] = "closed" /\ \A d \in Conns : d # c => conn'[d] = conn[d]
    BY <2>1, <1>type DEF Epo!SockTypeOK
  <2>3. Epo!SockInv'
    BY <2>1, <2>2, <1>2, <1>type, Epo!EndKeepsSock DEF Epo!EpollInv, Epo!SockTypeOK
  <2> QED
    BY <2>1, <2>2, <2>3
<1>4. /\ watch'[fd] = "none" /\ file'[fd] = NoConn
      /\ \A fe \in Epo!Fds : fe # fd => watch'[fe] = watch[fe] /\ file'[fe] = file[fe]
  BY <1>step, <1>type DEF Epo!TypeOK
<1>5. Epo!Used' = Epo!Used \ {fd}
  BY <1>4 DEF Epo!Used, Epo!FreeFds
<1>6. \A fe \in Epo!Used : fe # fd => /\ fe \in Epo!Fds /\ file'[fe] = file[fe]
                                  /\ file[fe] \in Conns /\ file[fe] # c
  BY <1>2, <1>4, <1>step, EpoUsedIsOpen DEF Epo!EpollInv, Epo!TableInv, Epo!Used
<1>7. Epo!Open' = Epo!Open \ {c} /\ c \in Epo!Open
  BY <1>2, <1>3 DEF Epo!Open
<1>8. Epo!TableInv'
  <2>1. \A fe \in Epo!Fds : fe \in Epo!Used' <=> watch'[fe] # "none"
    BY <1>4, <1>5 DEF Epo!EpollInv, Epo!TableInv
  <2>2. \A fe, g \in Epo!Used' : file'[fe] = file'[g] => fe = g
    BY <1>5, <1>6 DEF Epo!EpollInv, Epo!TableInv
  <2>3. \A fe \in Epo!Fds : md'[fe] > 0 <=> watch'[fe] = "out"
    BY <1>4, <1>step DEF Epo!EpollInv, Epo!TableInv
  <2>4. nFdUse' = Epo!Cardinality(Epo!Used')
    <3>1. Epo!IsFiniteSet(Epo!Used) /\ nFdUse = Epo!Cardinality(Epo!Used)
      BY DEF Epo!Used, Epo!EpollInv, Epo!TableInv
    <3> QED
      BY <3>1, <1>step, <1>2, <1>5, Epo!FS_RemoveElement
  <2> QED
    BY <2>1, <2>2, <2>3, <2>4 DEF Epo!TableInv
<1>9. Epo!TypeOK'
  <2>1. nFdUse' \in 0 .. EPOLL_MAXCLIENT
    <3>1. Epo!Cardinality(Epo!Used') \in Nat
      BY DEF Epo!Used
    <3>2. nFdUse' = Epo!Cardinality(Epo!Used')
      BY <1>8 DEF Epo!TableInv
    <3> QED
      BY <3>1, <3>2, <1>step, <1>type DEF Epo!TypeOK, Epo!EpollConstants
  <2>2. /\ file' \in [Epo!Fds -> Conns \cup {NoConn}]
        /\ watch' \in [Epo!Fds -> {"none", "level", "edge", "out"}]
    BY <1>step, <1>type DEF Epo!TypeOK
  <2> QED
    BY <2>1, <2>2, <1>step, <1>3, <1>type DEF Epo!TypeOK, Epo!SockInv
<1>10. Epo!OpenInv'
  <2>1. /\ Epo!Open = {file[fe] : fe \in Epo!Used}
        /\ Epo!IsFiniteSet(Epo!Open)
        /\ nFdUse = Epo!Cardinality(Epo!Open)
    BY <1>step DEF Epo!EpollInv, Epo!OpenInv
  <2>2. Epo!Open' = {file'[fe] : fe \in Epo!Used'}
    BY <2>1, <1>2, <1>5, <1>6, <1>7
  <2>3. Epo!IsFiniteSet(Epo!Open') /\ Epo!Cardinality(Epo!Open') = Epo!Cardinality(Epo!Open) - 1
    BY <2>1, <1>7, Epo!FS_RemoveElement
  <2> QED
    BY <2>1, <2>2, <2>3, <1>step DEF Epo!OpenInv
<1>11. Epo!BufferInv'
  <2>1. got[c] = echoed[c]
    <3>1. got[c] - echoed[c] = md[fd] /\ ~(md[fd] > 0) /\ md[fd] \in 0 .. MaxSend
      BY <1>2, <1>step, <1>type DEF Epo!EpollInv, Epo!BufferInv, Epo!TableInv, Epo!TypeOK
    <3>2. got[c] \in Nat /\ echoed[c] \in Nat
      BY <1>type DEF Epo!SockTypeOK
    <3> QED
      BY <3>1, <3>2, Epo!SocketConstants
  <2>2. \A fe \in Epo!Used' : got[file'[fe]] - echoed[file'[fe]] = md[fe]
    BY <1>5, <1>6, <1>step DEF Epo!EpollInv, Epo!BufferInv
  <2>3. \A d \in Conns \ Epo!Open' : got[d] = echoed[d]
    BY <2>1, <1>7, <1>step DEF Epo!EpollInv, Epo!BufferInv
  <2> QED
    BY <2>2, <2>3, <1>3, <1>step DEF Epo!BufferInv
<1>12. Epo!EdgeInv' /\ Epo!NeverBlocks' /\ Epo!NothingForgotten'
  BY <1>step, <1>2, <1>3, <1>4, <1>5, EpoRestStays
<1> QED
  BY <1>3, <1>8, <1>9, <1>10, <1>11, <1>12 DEF Epo!EpollInv

LEMMA EpoBreakKeeps ==
  ASSUME Epo!EpollConstants, Epo!EpollInv, NEW fd \in Epo!Fds, Epo!BrokenPipe(fd)
  PROVE  Epo!EpollInv'
<1>type. Epo!TypeOK /\ Epo!SockTypeOK
  BY DEF Epo!EpollInv, Epo!TypeOK
<1>1. /\ spc' = "exited" /\ backlog' = <<>>
      /\ conn' = [c \in Conns |-> IF conn[c] \in {"queued", "open"} THEN "closed" ELSE conn[c]]
      /\ UNCHANGED <<cli, sent, got, echoed, file, watch, edge, md, nFdUse, events, garbled>>
  BY DEF Epo!BrokenPipe, Epo!ProcessEnds, Epo!streamVars, Epo!epollVars
<1>2. Epo!SockInv'
  BY <1>1, <1>type, Epo!EndKeepsSock DEF Epo!EpollInv, Epo!SockTypeOK
<1>3. Epo!TypeOK'
  BY <1>1, <1>2, <1>type DEF Epo!TypeOK, Epo!SockInv
<1>4. Epo!TableInv'
  BY <1>1 DEF Epo!EpollInv, Epo!TableInv, Epo!Used, Epo!FreeFds
<1>5. /\ Epo!OpenInv'
      /\ Epo!EdgeInv'
      /\ Epo!BufferInv'
      /\ Epo!NeverBlocks'
      /\ Epo!NothingForgotten'
  BY <1>1 DEF Epo!OpenInv, Epo!EdgeInv, Epo!BufferInv, Epo!NeverBlocks, Epo!NothingForgotten
<1> QED
  BY <1>2, <1>3, <1>4, <1>5 DEF Epo!EpollInv

LEMMA EpoStepKeeps == Epo!EpollConstants /\ Epo!EpollInv /\ [Epo!Next]_(Epo!vars) => Epo!EpollInv'
<1> SUFFICES ASSUME Epo!EpollConstants, Epo!EpollInv, [Epo!Next]_(Epo!vars) PROVE Epo!EpollInv'
  OBVIOUS
<1>1. CASE UNCHANGED Epo!vars
  <2>1. Epo!SockInv'
    BY <1>1, Epo!SockStutters DEF Epo!vars, Epo!EpollInv
  <2>2. Epo!TypeOK'
    BY <1>1, <2>1 DEF Epo!vars, Epo!epollVars, Epo!EpollInv, Epo!TypeOK, Epo!SockInv
  <2>3. Epo!Used' = Epo!Used /\ Epo!FreeFds' = Epo!FreeFds /\ Epo!Open' = Epo!Open
    BY <1>1 DEF Epo!vars, Epo!epollVars, Epo!sockVars, Epo!Used, Epo!FreeFds, Epo!Open
  <2> QED
    BY <1>1, <2>1, <2>2, <2>3
       DEF Epo!vars, Epo!epollVars, Epo!sockVars, Epo!streamVars, Epo!EpollInv, Epo!TableInv,
           Epo!OpenInv, Epo!EdgeInv, Epo!BufferInv, Epo!NeverBlocks, Epo!NothingForgotten,
           Epo!Readable, Epo!Unread
<1>2. CASE Epo!EpollWait \/ Epo!Accept \/ Epo!Refuse \/ Epo!AcceptError
  BY <1>2, EpoWaitKeeps, EpoAcceptKeeps, EpoRefuseKeeps
<1>3. ASSUME NEW fd \in Epo!Fds,
             Epo!ReadSome(fd) \/ Epo!ReadEnd(fd) \/ Epo!WriteBack(fd) \/ Epo!BrokenPipe(fd)
      PROVE  Epo!EpollInv'
  BY <1>3, EpoReadKeeps, EpoReadEndKeeps, EpoWriteKeeps, EpoBreakKeeps
<1>4. ASSUME NEW c \in Conns, Epo!ClientStep(c, spc # "exited"), edge' = edge \cup Epo!Arrivals,
             UNCHANGED <<spc, file, watch, md, nFdUse, events, garbled>>
      PROVE  Epo!EpollInv'
  BY <1>4, EpoClientKeeps
<1> QED
  BY <1>1, <1>2, <1>3, <1>4 DEF Epo!Next, Epo!ServerStep


(* What the invariant says of the server.                                  *)
LEMMA EpoShows ==
  ASSUME Epo!EpollInv
  PROVE  /\ Epo!TypeOK /\ Epo!TablesAgree /\ Epo!NeverBlocks /\ Epo!NothingLost
         /\ Epo!NothingForgotten
<1>1. Epo!TablesAgree
  <2> DEFINE used == Epo!Fds \ Epo!FreeFds
  <2>1. used = Epo!Used
    BY DEF Epo!Used
  <2>2. Epo!Used = {fd \in Epo!Fds : watch[fd] # "none"}
    BY DEF Epo!EpollInv, Epo!TableInv, Epo!Used
  <2>3. spc # "exited" => {c \in Conns : conn[c] = "open"} = {file[fd] : fd \in Epo!Used}
    BY DEF Epo!EpollInv, Epo!OpenInv, Epo!Open
  <2> QED
    BY <2>1, <2>2, <2>3 DEF Epo!EpollInv, Epo!TableInv, Epo!TablesAgree
<1>2. ASSUME spc # "exited", NEW c \in Conns
      PROVE  IF conn[c] = "open"
             THEN \E fd \in Epo!Fds : file[fd] = c /\ got[c] - echoed[c] = md[fd]
             ELSE got[c] = echoed[c]
  <2>1. CASE conn[c] = "open"
    <3>1. PICK fd \in Epo!Used : file[fd] = c
      BY <1>2, <2>1 DEF Epo!EpollInv, Epo!OpenInv, Epo!Open
    <3> QED
      BY <1>2, <2>1, <3>1 DEF Epo!EpollInv, Epo!BufferInv, Epo!Used
  <2>2. CASE conn[c] # "open"
    BY <1>2, <2>2 DEF Epo!EpollInv, Epo!BufferInv, Epo!Open
  <2> QED
    BY <2>1, <2>2
<1>3. Epo!NothingLost
  BY <1>2 DEF Epo!NothingLost
<1> QED
  BY <1>1, <1>3 DEF Epo!EpollInv

(* The loop serves its clients right, in every environment, and the switch *)
(* to edge-triggered reports after the first echo forgets nobody           *)
(* (dd.cpp:61-150).                                                        *)
THEOREM EpollServerIsRight ==
  Epo!Spec => [](/\ Epo!TypeOK /\ Epo!TablesAgree /\ Epo!NeverBlocks /\ Epo!NothingLost
                 /\ Epo!NothingForgotten)
<1>1. Epo!EpollConstants
  BY EventLoopConstants
<1>2. Epo!Init => Epo!EpollInv
  BY <1>1, EpoInit
<1>3. Epo!EpollInv /\ [Epo!Next]_(Epo!vars) => Epo!EpollInv'
  BY <1>1, EpoStepKeeps
<1>4. Epo!EpollInv => /\ Epo!TypeOK /\ Epo!TablesAgree /\ Epo!NeverBlocks /\ Epo!NothingLost
                      /\ Epo!NothingForgotten
  BY EpoShows
<1> QED
  BY <1>2, <1>3, <1>4, PTL DEF Epo!Spec

-----------------------------------------------------------------------------
(* The refinement.                                                         *)

(* When no client vanishes, the process never ends.                        *)
EpoRuns == spc # "exited" /\ Epo!NobodyGone

LEMMA EpoNoSigpipe ==
  ASSUME Epo!EpollConstants, Epo!EpollInv, EpoRuns, NEW fd \in Epo!Fds
  PROVE  ~Epo!BrokenPipe(fd)
BY EpoEventIsOpen DEF Epo!BrokenPipe, Epo!Breaks, EpoRuns, Epo!NobodyGone

LEMMA EpoStillRuns ==
  ASSUME Epo!EpollConstants, server = "epoll", Healthy, Epo!EpollInv, EpoRuns,
         [Epo!Next]_(Epo!vars)
  PROVE  EpoRuns'
<1>type. Epo!SockTypeOK
  BY DEF Epo!EpollInv, Epo!TypeOK
<1>1. CASE UNCHANGED Epo!vars
  BY <1>1 DEF Epo!vars, Epo!sockVars, EpoRuns, Epo!NobodyGone
<1>2. CASE Epo!EpollWait \/ Epo!Accept \/ Epo!Refuse \/ Epo!AcceptError
  BY <1>2
     DEF Epo!EpollWait, Epo!Accept, Epo!Refuse, Epo!AcceptError, Epo!Handle, Epo!Take,
         Epo!sockVars, EpoRuns, Epo!NobodyGone
<1>3. ASSUME NEW fd \in Epo!Fds, Epo!ReadSome(fd) \/ Epo!ReadEnd(fd) \/ Epo!WriteBack(fd)
      PROVE  EpoRuns'
  BY <1>3
     DEF Epo!ReadSome, Epo!ReadEnd, Epo!WriteBack, Epo!Handle, Epo!Read, Epo!Write, Epo!Close,
         EpoRuns, Epo!NobodyGone
<1>4. ASSUME NEW c \in Conns, Epo!ClientStep(c, spc # "exited"), UNCHANGED spc PROVE EpoRuns'
  BY <1>4, <1>type, Epo!NobodyGoes DEF EpoRuns, Healthy
<1> QED
  BY <1>1, <1>2, <1>3, <1>4, EpoNoSigpipe DEF Epo!Next, Epo!ServerStep

LEMMA EpoInitRefines ==
  ASSUME Epo!EpollConstants, server = "epoll", Epo!Init
  PROVE  Service!SInit /\ EpoRuns
<1>1. Side = [c \in Conns |-> "on"]
  BY Epo!SockInitInv DEF Epo!Init, Epo!Side, Side
<1>2. Capacity \in Nat \ {0}
  BY DEF Epo!EpollConstants, Capacity
<1> QED
  BY <1>1, <1>2 DEF Epo!Init, Epo!SockInit, Service!SInit, EpoRuns, Epo!NobodyGone

(* accept admits a client, or turns it away when all places are taken.     *)
LEMMA EpoAcceptRefines ==
  ASSUME server = "epoll", Capacity' = Capacity, Epo!EpollConstants, Epo!EpollInv, EpoRuns,
         Epo!EpollWait \/ Epo!Accept \/ Epo!Refuse \/ Epo!AcceptError
  PROVE  [Service!SNext]_(Service!svars)
<1>type. Epo!TypeOK
  BY DEF Epo!EpollInv
<1>1. Side' = Side
  <2>1. cli' = cli
    BY DEF Epo!EpollWait, Epo!Accept, Epo!Refuse, Epo!AcceptError, Epo!Take, Epo!sockVars
  <2> QED
    BY <2>1 DEF Side
<1>2. CASE Epo!EpollWait \/ Epo!AcceptError
  BY <1>2, <1>1 DEF Epo!EpollWait, Epo!AcceptError, Epo!sockVars, Epo!streamVars, Service!svars
<1>3. CASE Epo!Accept
  <2>1. /\ Head(backlog) \in Conns /\ conn[Head(backlog)] = "queued"
        /\ conn' = [conn EXCEPT ![Head(backlog)] = "open"]
        /\ UNCHANGED <<sent, echoed>>
    BY <1>3, Epo!TakeKeepsSock DEF Epo!Accept, Epo!EpollInv
  <2>2. Service!Admit(Head(backlog))
    BY <2>1, <1>1 DEF Service!Admit, Service!Become
  <2> QED
    BY <2>1, <2>2 DEF Service!SNext
<1>4. CASE Epo!Refuse
  <2>1. /\ Head(backlog) \in Conns /\ conn[Head(backlog)] = "queued"
        /\ conn' = [conn EXCEPT ![Head(backlog)] = "refused"]
        /\ UNCHANGED <<sent, echoed>>
    BY <1>4, Epo!TakeKeepsSock DEF Epo!Refuse, Epo!EpollInv
  <2>2. Epo!Cardinality(Epo!Open) = Capacity
    <3>1. nFdUse = Epo!Cardinality(Epo!Open)
      BY DEF Epo!EpollInv, Epo!OpenInv, EpoRuns
    <3>2. /\ nFdUse + 1 > EPOLL_MAXCLIENT
          /\ nFdUse \in 0 .. EPOLL_MAXCLIENT
          /\ EPOLL_MAXCLIENT \in Nat
      BY <1>4, <1>type DEF Epo!Refuse, Epo!TypeOK, Epo!EpollConstants
    <3> QED
      BY <3>1, <3>2 DEF Capacity
  <2>3. Service!TurnAway(Head(backlog))
    BY <2>1, <2>2, <1>1
       DEF Service!TurnAway, Service!Become, Epo!Open, Service!Cardinality, Epo!Cardinality
  <2> QED
    BY <2>1, <2>3 DEF Service!SNext
<1> QED
  BY <1>2, <1>3, <1>4

(* A read is a stutter, a write an echo, and a close hangs up.             *)
LEMMA EpoServeRefines ==
  ASSUME server = "epoll", Capacity' = Capacity, Epo!EpollConstants, Epo!EpollInv, EpoRuns,
         NEW fd \in Epo!Fds,
         Epo!ReadSome(fd) \/ Epo!ReadEnd(fd) \/ Epo!WriteBack(fd)
  PROVE  [Service!SNext]_(Service!svars)
<1>type. Epo!TypeOK /\ Epo!SockTypeOK
  BY DEF Epo!EpollInv, Epo!TypeOK
<1>1. PICK c \in Conns : c = file[fd] /\ conn[c] = "open" /\ fd \in Epo!Used
  BY EpoEventIsOpen DEF Epo!ReadSome, Epo!ReadEnd, Epo!WriteBack, Epo!Handle
<1>2. got[c] - echoed[c] = md[fd] /\ (md[fd] > 0 <=> watch[fd] = "out") /\ md[fd] \in 0 .. MaxSend
  BY <1>1, <1>type DEF Epo!EpollInv, Epo!BufferInv, Epo!TableInv, EpoRuns, Epo!TypeOK
<1>3. /\ got[c] \in 0 .. MaxSend /\ echoed[c] \in 0 .. MaxSend /\ sent[c] \in 0 .. MaxSend
      /\ got[c] <= sent[c]
  BY <1>type DEF Epo!SockTypeOK, Epo!EpollInv, Epo!SockInv
<1>4. Side' = Side
  <2>1. cli' = cli
    BY DEF Epo!ReadSome, Epo!ReadEnd, Epo!WriteBack, Epo!Read, Epo!Write, Epo!Close
  <2> QED
    BY <2>1 DEF Side
<1>5. CASE Epo!ReadSome(fd)
  BY <1>5, <1>4 DEF Epo!ReadSome, Epo!Read, Service!svars
<1>6. CASE Epo!WriteBack(fd)
  <2>1. /\ watch[fd] = "out" /\ echoed' = [echoed EXCEPT ![c] = @ + md[fd]]
        /\ UNCHANGED <<conn, sent>>
    BY <1>6, <1>1 DEF Epo!WriteBack, Epo!Write
  <2>2. md[fd] \in 1 .. sent[c] - echoed[c]
    BY <2>1, <1>2, <1>3
  <2>3. Service!Echo(c)
    BY <2>1, <2>2, <1>1, <1>4 DEF Service!Echo
  <2> QED
    BY <2>3 DEF Service!SNext
<1>7. CASE Epo!ReadEnd(fd)
  <2>1. /\ watch[fd] # "out" /\ Epo!AtEnd(c)
        /\ conn' = [conn EXCEPT ![c] = "closed"]
        /\ UNCHANGED <<sent, echoed>>
    BY <1>7, <1>1 DEF Epo!ReadEnd, Epo!ForReading, Epo!Close, Epo!streamVars
  <2>2. cli[c] = "fin" /\ echoed[c] = sent[c]
    <3>1. cli[c] = "fin" /\ sent[c] - got[c] = 0
      BY <2>1 DEF Epo!AtEnd, Epo!Unread, EpoRuns, Epo!NobodyGone
    <3>2. ~(md[fd] > 0)
      BY <2>1, <1>2
    <3> QED
      BY <3>1, <3>2, <1>2, <1>3
  <2>3. Side[c] = "ended"
    BY <2>2 DEF Side
  <2>4. Service!HangUp(c)
    BY <2>1, <2>2, <2>3, <1>1, <1>4 DEF Service!HangUp, Service!Become
  <2> QED
    BY <2>4 DEF Service!SNext
<1> QED
  BY <1>5, <1>6, <1>7

LEMMA EpoClientStepRefines ==
  ASSUME Capacity' = Capacity, server = "epoll", Healthy, Epo!SockInv, NEW c \in Conns,
         NEW listening, Epo!ClientStep(c, listening)
  PROVE  Service!SNext
<1>1. Service!Ask(c) \/ Service!Say(c) \/ Service!Leave(c, "ended")
  BY Epo!ClientSides
     DEF Healthy, Epo!Side, Side, Service!Ask, Service!Become, Service!Say, Service!Leave
<1> QED
  BY <1>1 DEF Service!SNext

(* Where no client vanishes, the server is an echo service of MAXCLIENT    *)
(* clients: it turns one away exactly when that many are open, sends every *)
(* byte back once and closes when all is echoed.                           *)
LEMMA EpoStepRefines ==
  ASSUME Epo!EpollConstants, server = "epoll", Healthy, Capacity' = Capacity,
         Epo!EpollInv, EpoRuns, [Epo!Next]_(Epo!vars)
  PROVE  [Service!SNext]_(Service!svars)
<1>1. CASE UNCHANGED Epo!vars
  BY <1>1 DEF Epo!vars, Epo!sockVars, Epo!streamVars, Service!svars, Side
<1>2. CASE Epo!EpollWait \/ Epo!Accept \/ Epo!Refuse \/ Epo!AcceptError
  BY <1>2, EpoAcceptRefines
<1>3. ASSUME NEW fd \in Epo!Fds, Epo!ReadSome(fd) \/ Epo!ReadEnd(fd) \/ Epo!WriteBack(fd)
      PROVE  [Service!SNext]_(Service!svars)
  BY <1>3, EpoServeRefines
<1>4. ASSUME NEW c \in Conns, Epo!ClientStep(c, spc # "exited") PROVE Service!SNext
  BY <1>4, EpoClientStepRefines DEF Epo!EpollInv
<1> QED
  BY <1>1, <1>2, <1>3, <1>4, EpoNoSigpipe DEF Epo!Next, Epo!ServerStep
=============================================================================
