---------------------------- MODULE EpollServer ----------------------------
(***************************************************************************)
(* The echo server of unp/src/app/u_reflect_sv_epoll: one process, one     *)
(* epoll loop.  A descriptor is watched either for reading or, once a      *)
(* chunk was read into a buffer of its own, for writing; the buffer goes   *)
(* with the registration.  use_et is 0, its value in the code.             *)
(*                                                                         *)
(* A registration is level-triggered for reading after accept, and edge-   *)
(* triggered after the first write (line 145): then the kernel reports the *)
(* descriptor once after the registration and once per arrival.            *)
(***************************************************************************)
EXTENDS EchoSockets_proofs     \* EchoSockets, and lemmas for the proofs

CONSTANTS
    MAXCLIENT,      \* connections served at a time
    FdLimit,        \* descriptors the process may have (RLIMIT_NOFILE)
    Nuls            \* the chunks in which text follows a NUL byte

EpollConstants ==
    /\ MAXCLIENT \in Nat \ {0}
    /\ FdLimit \in Nat \ {0}
    /\ Nuls \subseteq 1 .. MaxSend

listenfd == 0       \* descriptors below it (the standard ones) are left out
Fds == 1 .. FdLimit - 1

VARIABLES
    spc,        \* "run" or "exited"
    file,       \* the connection behind each descriptor
    watch,      \* its registration: "none", "level", "edge" or "out"
    edge,       \* the edge-triggered descriptors with something to report
    md,         \* chunks in the buffer of each descriptor watched for writing
    nFdUse,
    events,     \* what epoll_wait returned and is not handled yet
    garbled     \* the connections on which something else was echoed than sent

epollVars == <<file, watch, edge, md, nFdUse, events, garbled>>
vars == <<sockVars, spc, epollVars>>

TypeOK ==
    /\ SockTypeOK
    /\ spc \in {"run", "exited"}
    /\ file \in [Fds -> Conns \cup {NoConn}]
    /\ watch \in [Fds -> {"none", "level", "edge", "out"}]
    /\ edge \subseteq Fds
    /\ md \in [Fds -> 0 .. MaxSend]
    /\ nFdUse \in 0 .. MAXCLIENT
    /\ events \subseteq Fds \cup {listenfd}
    /\ garbled \subseteq Conns

Init ==
    /\ SockInit
    /\ spc = "run"
    /\ file = [fd \in Fds |-> NoConn]
    /\ watch = [fd \in Fds |-> "none"]
    /\ edge = {}
    /\ md = [fd \in Fds |-> 0]
    /\ nFdUse = 0
    /\ events = {}
    /\ garbled = {}

-----------------------------------------------------------------------------
FreeFds == {fd \in Fds : file[fd] = NoConn}

Watched(fd) ==
    CASE fd = listenfd -> backlog # <<>>
      [] fd \in Fds -> \/ watch[fd] = "level" /\ Readable(file[fd])
                       \/ watch[fd] = "edge" /\ fd \in edge
                       \/ watch[fd] = "out"

AllWatched == {fd \in Fds \cup {listenfd} : Watched(fd)}

(* events[] has no room for all of them when every client and the listening*)
(* socket are ready; what is left out is reported again.                   *)
EpollWait ==
    /\ spc = "run" /\ events = {}
    /\ events' \in SUBSET AllWatched
    /\ events' # {}
    /\ \/ events' = AllWatched /\ Cardinality(AllWatched) <= MAXCLIENT
       \/ Cardinality(events') = MAXCLIENT
    /\ edge' = edge \ events'
    /\ UNCHANGED <<sockVars, spc, file, watch, md, nFdUse, garbled>>

(* The loop body for one event; the kernel chooses the order.              *)
Handle(fd) ==
    /\ spc = "run" /\ fd \in events
    /\ events' = events \ {fd}
    /\ UNCHANGED spc

Accept ==
    /\ Handle(listenfd)
    /\ backlog # <<>>
    /\ nFdUse + 1 <= MAXCLIENT
    /\ \E confd \in FreeFds :
          /\ \A fd \in FreeFds : confd <= fd
          /\ file' = [file EXCEPT ![confd] = Head(backlog)]
          /\ watch' = [watch EXCEPT ![confd] = "level"]
    /\ nFdUse' = nFdUse + 1
    /\ Take("open")
    /\ UNCHANGED <<edge, md, garbled>>

(* "too many clients!!!": accepted and closed at once.                     *)
Refuse ==
    /\ Handle(listenfd)
    /\ backlog # <<>> /\ FreeFds # {}
    /\ nFdUse + 1 > MAXCLIENT
    /\ Take("refused")
    /\ UNCHANGED <<file, watch, edge, md, nFdUse, garbled>>

(* No descriptor is left; the connection stays where it is.                *)
AcceptError ==
    /\ Handle(listenfd)
    /\ FreeFds = {}
    /\ UNCHANGED <<sockVars, file, watch, edge, md, nFdUse, garbled>>

ForReading(fd) == fd \in Fds /\ watch[fd] \in {"level", "edge"}

(* strncpy copies up to the first NUL and fills the rest of the n bytes    *)
(* with NULs.                                                              *)
Copied(c, n) == (got[c] + 1 .. got[c] + n) \cap Nuls = {}

(* Mutant: goes on watching for reading.                                   *)
ReadSomeStill(fd) ==
    /\ ForReading(fd) /\ Handle(fd)
    /\ \E n \in 1 .. MaxSend :
          /\ Read(file[fd], n)
          /\ md' = [md EXCEPT ![fd] = n]
    /\ UNCHANGED <<file, watch, edge, nFdUse, garbled>>

ReadSome(fd) ==
    /\ ForReading(fd) /\ Handle(fd)
    /\ \E n \in 1 .. MaxSend :
          /\ Read(file[fd], n)
          /\ md' = [md EXCEPT ![fd] = n]
          /\ garbled' = IF Copied(file[fd], n) THEN garbled
                        ELSE garbled \cup {file[fd]}
    /\ watch' = [watch EXCEPT ![fd] = "out"]
    /\ edge' = edge \ {fd}
    /\ UNCHANGED <<file, nFdUse>>

ReadEnd(fd) ==
    /\ ForReading(fd) /\ Handle(fd)
    /\ AtEnd(file[fd])
    /\ Close(file[fd])
    /\ file' = [file EXCEPT ![fd] = NoConn]
    /\ watch' = [watch EXCEPT ![fd] = "none"]
    /\ edge' = edge \ {fd}
    /\ nFdUse' = nFdUse - 1
    /\ UNCHANGED <<md, garbled>>

(* Mutant: the registration is not renewed after the write.                *)
WriteBackUnarmed(fd) ==
    /\ fd \in Fds /\ watch[fd] = "out" /\ Handle(fd)
    /\ Write(file[fd], md[fd])
    /\ md' = [md EXCEPT ![fd] = 0]
    /\ watch' = [watch EXCEPT ![fd] = "edge"]
    /\ UNCHANGED <<file, edge, nFdUse, garbled>>

(* EPOLL_CTL_MOD looks at the descriptor again, so what arrived while it   *)
(* was watched for writing is reported too.                                *)
WriteBack(fd) ==
    /\ fd \in Fds /\ watch[fd] = "out" /\ Handle(fd)
    /\ Write(file[fd], md[fd])
    /\ md' = [md EXCEPT ![fd] = 0]
    /\ watch' = [watch EXCEPT ![fd] = "edge"]
    /\ edge' = IF Readable(file[fd]) THEN edge \cup {fd} ELSE edge
    /\ UNCHANGED <<file, nFdUse, garbled>>

(* SIGPIPE has its default action.                                         *)
BrokenPipe(fd) ==
    /\ spc = "run" /\ fd \in events
    /\ fd \in Fds /\ watch[fd] = "out" /\ Breaks(file[fd])
    /\ spc' = "exited"
    /\ ProcessEnds
    /\ UNCHANGED epollVars

-----------------------------------------------------------------------------
ServerStep ==
    \/ EpollWait \/ Accept \/ Refuse \/ AcceptError
    \/ \E fd \in Fds : ReadSome(fd) \/ ReadEnd(fd) \/ WriteBack(fd) \/ BrokenPipe(fd)

(* Every arrival is an edge.                                               *)
Arrivals ==
    {fd \in Fds : /\ watch[fd] = "edge"
                  /\ file[fd] # NoConn
                  /\ \/ sent'[file[fd]] # sent[file[fd]]
                     \/ cli'[file[fd]] \in {"fin", "gone"}
                        /\ cli'[file[fd]] # cli[file[fd]]}

Next ==
    \/ ServerStep
    \/ \E c \in Conns :
          /\ ClientStep(c, spc # "exited")
          /\ edge' = edge \cup Arrivals
          /\ UNCHANGED <<spc, file, watch, md, nFdUse, events, garbled>>

Spec == Init /\ [][Next]_vars

(* One process, which the kernel runs as long as it is not blocked.  The   *)
(* order of one batch is finite.                                           *)
FairSpec == Spec /\ WF_vars(ServerStep)

-----------------------------------------------------------------------------
(* What it must satisfy.                                                   *)

(* The open descriptors, the registrations and nFdUse say the same, and a  *)
(* buffer exists exactly while its descriptor is watched for writing: no   *)
(* buffer leaks and none is written or freed twice.                        *)
TablesAgree ==
    spc # "exited" =>
        LET used == Fds \ FreeFds IN
        /\ used = {fd \in Fds : watch[fd] # "none"}
        /\ {c \in Conns : conn[c] = "open"} = {file[fd] : fd \in used}
        /\ \A fd, g \in used : file[fd] = file[g] => fd = g
        /\ nFdUse = Cardinality(used)
        /\ \A fd \in Fds : md[fd] > 0 <=> watch[fd] = "out"

(* The process blocks in epoll_wait only, although descriptors may have    *)
(* been closed and given to other connections since it returned.           *)
NeverBlocks ==
    spc = "run" =>
        \A e \in events :
            IF e = listenfd THEN backlog # <<>>
            ELSE watch[e] # "none" /\ (watch[e] # "out" => Readable(file[e]))

(* What was read is what was written, but for what is in the buffers.      *)
NothingLost ==
    spc # "exited" =>
        \A c \in Conns :
            IF conn[c] = "open"
            THEN \E fd \in Fds : file[fd] = c /\ got[c] - echoed[c] = md[fd]
            ELSE got[c] = echoed[c]

(* The switch to edge-triggered reports loses nothing: what can be read is *)
(* reported, or will be when the descriptor is registered again.           *)
NothingForgotten ==
    spc = "run" =>
        \A fd \in Fds \ FreeFds :
            watch[fd] = "edge" /\ Readable(file[fd]) => fd \in edge \cup events

(* "The socket is writable, echo the message the client sent" (line 138).  *)
EchoIsFaithful == garbled = {}

-----------------------------------------------------------------------------
(* The inductive invariant, with NeverBlocks and NothingForgotten.         *)

Used == Fds \ FreeFds

(* A descriptor in use is registered, no connection has two, and a buffer  *)
(* belongs to a registration for writing.                                  *)
TableInv ==
    /\ \A fd \in Fds : fd \in Used <=> watch[fd] # "none"
    /\ \A fd, g \in Used : file[fd] = file[g] => fd = g
    /\ \A fd \in Fds : md[fd] > 0 <=> watch[fd] = "out"
    /\ nFdUse = Cardinality(Used)

(* The open connections are those behind a descriptor.                     *)
Open == {c \in Conns : conn[c] = "open"}

OpenInv ==
    spc # "exited" =>
        /\ Open = {file[fd] : fd \in Used}
        /\ IsFiniteSet(Open)
        /\ nFdUse = Cardinality(Open)

(* What an edge reports is there to be read.                               *)
EdgeInv ==
    spc # "exited" =>
        \A fd \in edge : watch[fd] = "edge" /\ Readable(file[fd])

(* What was read and not written is in the buffer of its descriptor.       *)
BufferInv ==
    spc # "exited" =>
        /\ \A fd \in Used : got[file[fd]] - echoed[file[fd]] = md[fd]
        /\ \A c \in Conns \ Open : got[c] = echoed[c]

EpollInv ==
    /\ TypeOK /\ SockInv
    /\ TableInv /\ OpenInv /\ EdgeInv /\ BufferInv
    /\ NeverBlocks /\ NothingForgotten

=============================================================================
