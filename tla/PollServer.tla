----------------------------- MODULE PollServer -----------------------------
(***************************************************************************)
(* The echo server of unp/src/app/u6.10_reflect_sv_poll: one process, one  *)
(* poll loop, client[0] the listening socket and a connection in each      *)
(* other slot in use.  Steps are cut as in SelectServer.                   *)
(***************************************************************************)
EXTENDS EchoSockets_proofs     \* EchoSockets, and lemmas for the proofs

CONSTANTS
    MAXCLIENT,      \* slots of client[]
    FdLimit         \* descriptors the process may have (RLIMIT_NOFILE)

PollConstants ==
    /\ MAXCLIENT \in Nat \ {0}
    /\ FdLimit \in Nat \ {0}

listenfd == 0       \* descriptors below it (the standard ones) are left out
Fds   == 1 .. FdLimit - 1
Slots == 0 .. MAXCLIENT - 1
NoFd  == -1

VARIABLES
    spc,        \* "poll", "listen", "scan", "write" or "exited"
    file,       \* the connection behind each descriptor
    client,     \* client[i].fd
    nFdUse,
    revents,    \* the slots poll found readable
    nReady, slot,
    n           \* chunks read and not written yet

loopVars == <<revents, nReady, slot, n>>
tableVars == <<file, client, nFdUse>>
vars == <<sockVars, spc, tableVars, loopVars>>

TypeOK ==
    /\ SockTypeOK
    /\ spc \in {"poll", "listen", "scan", "write", "exited"}
    /\ file \in [Fds -> Conns \cup {NoConn}]
    /\ client \in [Slots -> Fds \cup {listenfd, NoFd}]
    /\ nFdUse \in 1 .. MAXCLIENT
    /\ revents \subseteq Slots
    /\ nReady \in 0 .. MAXCLIENT
    /\ slot \in Slots
    /\ n \in 0 .. MaxSend

Init ==
    /\ SockInit
    /\ spc = "poll"
    /\ file = [fd \in Fds |-> NoConn]
    /\ client = [i \in Slots |-> IF i = 0 THEN listenfd ELSE NoFd]
    /\ nFdUse = 1
    /\ revents = {} /\ nReady = 0 /\ slot = 0 /\ n = 0

-----------------------------------------------------------------------------
InUse(i) == client[i] # NoFd

IsReady(fd) == IF fd = listenfd THEN backlog # <<>> ELSE Readable(file[fd])

(* poll clears revents of the slots with a negative descriptor.            *)
Poll ==
    /\ spc = "poll"
    /\ revents' = {i \in Slots : InUse(i) /\ IsReady(client[i])}
    /\ revents' # {}
    /\ nReady' = Cardinality(revents')
    /\ spc' = "listen"
    /\ UNCHANGED <<sockVars, tableVars, slot, n>>

(* Back to poll; what the loop used is dead until then.                    *)
Again == spc' = "poll" /\ revents' = {} /\ nReady' = 0 /\ slot' = 0 /\ n' = 0

(* On to slot i with left ready slots to handle, or back to poll.          *)
GoOn(i, left) ==
    IF left <= 0 \/ i >= MAXCLIENT THEN Again
    ELSE spc' = "scan" /\ slot' = i /\ nReady' = left /\ n' = 0 /\ UNCHANGED revents

NotListen ==
    /\ spc = "listen" /\ 0 \notin revents
    /\ GoOn(1, nReady)
    /\ UNCHANGED <<sockVars, tableVars>>

FreeFds == {fd \in Fds : file[fd] = NoConn}

(* accept; confd is the lowest free descriptor.                            *)
Accepting(confd) ==
    /\ spc = "listen" /\ 0 \in revents
    /\ backlog # <<>>
    /\ confd \in FreeFds /\ \A fd \in FreeFds : confd <= fd
    /\ GoOn(1, nReady - 1)

Accept ==
    \E confd \in Fds, i \in Slots :
        /\ Accepting(confd)
        /\ nFdUse + 1 <= MAXCLIENT
        /\ ~InUse(i) /\ \A j \in Slots : j < i => InUse(j)
        /\ client' = [client EXCEPT ![i] = confd]
        /\ file' = [file EXCEPT ![confd] = Head(backlog)]
        /\ nFdUse' = nFdUse + 1
        /\ Take("open")

(* Mutant: refuses one too early.                                          *)
RefuseEarly ==
    \E confd \in Fds :
        /\ Accepting(confd)
        /\ nFdUse + 2 > MAXCLIENT
        /\ Take("refused")
        /\ UNCHANGED tableVars

(* Mutant: gives up when the table is full.                                *)
RefuseNever ==
    \E confd \in Fds :
        /\ Accepting(confd)
        /\ nFdUse + 1 > MAXCLIENT
        /\ UNCHANGED <<sockVars, tableVars>>

(* "too many clients!!!": accepted and closed at once.                     *)
Refuse ==
    \E confd \in Fds :
        /\ Accepting(confd)
        /\ nFdUse + 1 > MAXCLIENT
        /\ Take("refused")
        /\ UNCHANGED tableVars

(* No descriptor is left; the connection stays where it is.                *)
AcceptError ==
    /\ spc = "listen" /\ 0 \in revents
    /\ backlog # <<>> /\ FreeFds = {}
    /\ GoOn(1, nReady - 1)
    /\ UNCHANGED <<sockVars, tableVars>>

-----------------------------------------------------------------------------
(* The loop over the slots.                                                *)

Here  == client[slot]
Ready == InUse(slot) /\ slot \in revents

Pass ==
    /\ spc = "scan" /\ ~Ready
    /\ GoOn(slot + 1, nReady)
    /\ UNCHANGED <<sockVars, tableVars>>

ReadSome ==
    /\ spc = "scan" /\ Ready
    /\ n' \in 1 .. MaxSend
    /\ Read(file[Here], n')
    /\ spc' = "write"
    /\ UNCHANGED <<tableVars, revents, nReady, slot>>

ReadEnd ==
    /\ spc = "scan" /\ Ready
    /\ AtEnd(file[Here])
    /\ Close(file[Here])
    /\ file' = [file EXCEPT ![Here] = NoConn]
    /\ client' = [client EXCEPT ![slot] = NoFd]
    /\ nFdUse' = nFdUse - 1
    /\ GoOn(slot + 1, nReady - 1)

WriteBack ==
    /\ spc = "write"
    /\ Write(file[Here], n)
    /\ GoOn(slot + 1, nReady - 1)
    /\ UNCHANGED tableVars

(* SIGPIPE has its default action.                                         *)
BrokenPipe ==
    /\ spc = "write" /\ Breaks(file[Here])
    /\ spc' = "exited"
    /\ ProcessEnds
    /\ UNCHANGED <<tableVars, loopVars>>

-----------------------------------------------------------------------------
ServerStep ==
    \/ Poll \/ NotListen \/ Accept \/ Refuse \/ AcceptError
    \/ Pass \/ ReadSome \/ ReadEnd \/ WriteBack \/ BrokenPipe

Next ==
    \/ ServerStep
    \/ \E c \in Conns :
          /\ ClientStep(c, spc # "exited")
          /\ UNCHANGED <<spc, tableVars, loopVars>>

Spec == Init /\ [][Next]_vars

(* One process, which the kernel runs as long as it is not blocked.        *)
FairSpec == Spec /\ WF_vars(ServerStep)

-----------------------------------------------------------------------------
(* What it must satisfy.                                                   *)

(* The slots in use, the open descriptors and nFdUse say the same; so when *)
(* nFdUse leaves room there is a free slot, and the search of line 84      *)
(* never ends without storing the descriptor.                              *)
TablesAgree ==
    spc # "exited" =>
        LET used == {i \in Slots : InUse(i)} IN
        /\ client[0] = listenfd
        /\ {client[i] : i \in used \ {0}} = Fds \ FreeFds
        /\ {c \in Conns : conn[c] = "open"} = {file[fd] : fd \in Fds \ FreeFds}
        /\ \A i, j \in used \ {0} : i # j => file[client[i]] # file[client[j]]
        /\ nFdUse = Cardinality(used)

(* The process blocks in poll only, although a slot may have been emptied  *)
(* and its number given to another connection since poll returned.         *)
NeverBlocks ==
    /\ spc = "listen" /\ 0 \in revents => backlog # <<>>
    /\ spc = "scan" /\ Ready => file[Here] # NoConn /\ Readable(file[Here])

(* What was read is what was written, but for what is being written now.   *)
NothingLost ==
    spc # "exited" =>
        \A c \in Conns :
            got[c] - echoed[c] =
                IF spc = "write" /\ file[Here] = c THEN n ELSE 0

-----------------------------------------------------------------------------
(* The inductive invariant.                                                *)

Used == {i \in Slots : InUse(i)}

(* A slot in use has a descriptor, a descriptor in use has a slot, and no  *)
(* connection has two.                                                     *)
TableInv ==
    /\ client[0] = listenfd
    /\ \A i \in Used \ {0} : client[i] \in Fds \ FreeFds
    /\ \A fd \in Fds \ FreeFds : \E i \in Used \ {0} : client[i] = fd
    /\ \A i, j \in Used \ {0} : file[client[i]] = file[client[j]] => i = j
    /\ nFdUse = Cardinality(Used)

(* The open connections are those behind a descriptor, one for each slot.  *)
Open == {c \in Conns : conn[c] = "open"}

OpenInv ==
    spc # "exited" =>
        /\ Open = {file[fd] : fd \in Fds \ FreeFds}
        /\ IsFiniteSet(Open)
        /\ nFdUse = Cardinality(Open) + 1

(* What poll reported and the loop has not come to is still in use, and    *)
(* still ready, though it may be another connection under the same number. *)
First == IF spc = "listen" THEN 0 ELSE IF spc = "scan" THEN slot ELSE slot + 1

TurnInv ==
    /\ spc = "poll" => revents = {}
    /\ spc \in {"scan", "write"} => slot > 0
    /\ spc = "write" => InUse(slot) /\ n > 0
    /\ spc \in {"listen", "scan", "write"} =>
          \A i \in revents : i >= First => InUse(i) /\ IsReady(client[i])

PollInv ==
    /\ TypeOK /\ SockInv
    /\ TableInv /\ OpenInv /\ TurnInv /\ NothingLost

=============================================================================
