---------------------------- MODULE MCEchoServers ----------------------------
(***************************************************************************)
(* The five echo servers that speak with the same clients, checked against *)
(* the same promises.  They are alternatives: `server' says which one      *)
(* runs, and the variables of the others are Off.                          *)
(***************************************************************************)
EXTENDS EchoSockets, TLC

CONSTANTS
    FdLimit, FD_SETSIZE, POLL_MAXCLIENT, EPOLL_MAXCLIENT, Nuls,
    Threads, CreateMayFail, Parent, ForkMayFail

VARIABLES
    server,     \* "select", "poll", "epoll", "thread" or "fork"
    spc, file, n, confd,                                    \* shared names
    client, nReady, slot,
    nFdUse,
    nUserful, allset, maxfd1, rset, nDeal,                  \* select
    revents,                                                \* poll
    watch, edge, md, events, garbled,                       \* epoll
    mpc, heap, cell, tpc, ptr, recvfd,                      \* thread
    ppc, holders, kid, sigchld, handler                     \* fork

Sel == INSTANCE SelectServer
Pol == INSTANCE PollServer WITH MAXCLIENT <- POLL_MAXCLIENT
Epo == INSTANCE EpollServer WITH MAXCLIENT <- EPOLL_MAXCLIENT
(* The connected descriptors only are counted for these two.               *)
Thr == INSTANCE ThreadServer WITH FdLimit <- FdLimit - 1
For == INSTANCE ForkServer WITH FdLimit <- FdLimit - 1

ASSUME EventLoopConstants ==
    Sel!SelectConstants /\ Pol!PollConstants /\ Epo!EpollConstants
ASSUME ConcurrentConstants == Thr!ThreadConstants /\ For!ForkConstants

all == <<server, sockVars, spc, file, n, confd, client, nReady, slot, nFdUse,
         nUserful, allset, maxfd1, rset, nDeal, revents,
         watch, edge, md, events, garbled,
         mpc, heap, cell, tpc, ptr, recvfd, ppc, holders, kid, sigchld, handler>>

selectOnly == <<nUserful, allset, maxfd1, rset, nDeal>>
epollOnly  == <<watch, edge, md, events, garbled>>
threadOnly == <<mpc, heap, cell, tpc, ptr, recvfd>>
forkOnly   == <<ppc, holders, kid, sigchld, handler>>

-----------------------------------------------------------------------------
Off(v) == v = "off"

SelectOff == Off(nUserful) /\ Off(allset) /\ Off(maxfd1) /\ Off(rset) /\ Off(nDeal)
EpollOff  == Off(watch) /\ Off(edge) /\ Off(md) /\ Off(events) /\ Off(garbled)
ThreadOff == Off(mpc) /\ Off(heap) /\ Off(cell) /\ Off(tpc) /\ Off(ptr) /\ Off(recvfd)
ForkOff   == Off(ppc) /\ Off(holders) /\ Off(kid) /\ Off(sigchld) /\ Off(handler)

Init ==
    \/ /\ server = "select" /\ Sel!Init
       /\ EpollOff /\ ThreadOff /\ ForkOff
       /\ Off(nFdUse) /\ Off(revents) /\ Off(confd)
    \/ /\ server = "poll" /\ Pol!Init
       /\ SelectOff /\ EpollOff /\ ThreadOff /\ ForkOff
       /\ Off(confd)
    \/ /\ server = "epoll" /\ Epo!Init
       /\ SelectOff /\ ThreadOff /\ ForkOff
       /\ Off(client) /\ Off(nReady) /\ Off(slot) /\ Off(revents) /\ Off(n) /\ Off(confd)
    \/ /\ server = "thread" /\ Thr!Init
       /\ SelectOff /\ EpollOff /\ ForkOff
       /\ Off(spc) /\ Off(client) /\ Off(nReady) /\ Off(slot) /\ Off(nFdUse) /\ Off(revents)
    \/ /\ server = "fork" /\ For!Init
       /\ SelectOff /\ EpollOff /\ ThreadOff
       /\ Off(spc) /\ Off(file) /\ Off(client) /\ Off(nReady) /\ Off(slot) /\ Off(nFdUse)
       /\ Off(revents)

SelectOthers == UNCHANGED <<server, confd, nFdUse, revents, epollOnly, threadOnly, forkOnly>>
PollOthers   == UNCHANGED <<server, confd, selectOnly, epollOnly, threadOnly, forkOnly>>
EpollOthers  == UNCHANGED <<server, confd, n, client, nReady, slot, revents, selectOnly,
                            threadOnly, forkOnly>>
ThreadOthers == UNCHANGED <<server, spc, client, nReady, slot, nFdUse, revents, selectOnly,
                            epollOnly, forkOnly>>
ForkOthers   == UNCHANGED <<server, spc, file, client, nReady, slot, nFdUse, revents,
                            selectOnly, epollOnly, threadOnly>>

Next ==
    \/ server = "select" /\ Sel!Next /\ SelectOthers
    \/ server = "poll"   /\ Pol!Next /\ PollOthers
    \/ server = "epoll"  /\ Epo!Next /\ EpollOthers
    \/ server = "thread" /\ Thr!Next /\ ThreadOthers
    \/ server = "fork"   /\ For!Next /\ ForkOthers

Spec == Init /\ [][Next]_all

(* The fairness of whichever server runs.                                  *)
FairSpec ==
    /\ Spec
    /\ WF_all(\/ server = "select" /\ Sel!ServerStep /\ SelectOthers
              \/ server = "poll"   /\ Pol!ServerStep /\ PollOthers
              \/ server = "epoll"  /\ Epo!ServerStep /\ EpollOthers
              \/ server = "thread" /\ Thr!MainStep   /\ ThreadOthers
              \/ server = "fork"   /\ For!ParentStep /\ ForkOthers)
    /\ SF_all(server = "thread" /\ Thr!Accept /\ ThreadOthers)
    /\ \A t \in 1 .. Threads : WF_all(server = "thread" /\ Thr!ThreadStep(t) /\ ThreadOthers)
    /\ WF_all(server = "fork" /\ For!Signal /\ ForkOthers)
    /\ \A c \in Conns : WF_all(server = "fork" /\ For!ChildStep(c) /\ ForkOthers)

ConnSymmetry == Permutations(Conns)

-----------------------------------------------------------------------------
(* The connections a server takes before it refuses one; the last two      *)
(* never refuse.                                                           *)
Capacity ==
    CASE server = "select" -> FD_SETSIZE
      [] server = "poll"   -> POLL_MAXCLIENT - 1
      [] server = "epoll"  -> EPOLL_MAXCLIENT
      [] server \in {"thread", "fork"} -> Cardinality(Conns) + 1

Service == INSTANCE EchoService WITH capacity <- Capacity, side <- Side

(* Each server implements EchoService when it is Healthy: no client        *)
(* vanishes, a poll server has a slot for one, those that end when they    *)
(* have no descriptor have one for each client beside the listening        *)
(* socket's, and no fork fails, nor lacks the parent one to accept with.   *)
ImplementsEcho == Service!SSpec

Healthy ==
    /\ MayReset = {}
    /\ server = "poll" => POLL_MAXCLIENT > 1
    /\ server \in {"select", "thread"} => IsFiniteSet(Conns) /\ Cardinality(Conns) < FdLimit
    /\ server = "fork" => IsFiniteSet(Conns) /\ ~ForkMayFail /\ FdLimit > 1

(* What a server has read it has written, but for what it is writing or    *)
(* keeps in the buffer of a descriptor, and however many clients vanish.   *)
NothingLost ==
    /\ server = "select" => Sel!NothingLost
    /\ server = "poll"   => Pol!NothingLost
    /\ server = "epoll"  => Epo!NothingLost
    /\ server = "thread" => Thr!NothingLost
    /\ server = "fork"   => For!NothingLost

(* The tables of the event loops have their types and agree: slots or      *)
(* registrations, open descriptors, sets and counters say the same about   *)
(* every connection.                                                       *)
TablesAgree ==
    /\ server = "select" => Sel!TypeOK /\ Sel!TablesAgree
    /\ server = "poll"   => Pol!TypeOK /\ Pol!TablesAgree
    /\ server = "epoll"  => Epo!TypeOK /\ Epo!TablesAgree

(* An event loop calls accept and read only when they do not wait, though  *)
(* connections have been closed, and accepted under the same number, since *)
(* the kernel reported: no client holds up the others.                     *)
NeverBlocks ==
    /\ server = "select" => Sel!NeverBlocks
    /\ server = "poll"   => Pol!NeverBlocks
    /\ server = "epoll"  => Epo!NeverBlocks

(* epoll: what can be read on an edge-triggered registration is reported.  *)
NothingForgotten == server = "epoll" => Epo!NothingForgotten

(* thread: no descriptor is served by two threads, however soon its number *)
(* is used again.                                                          *)
OneThread == server = "thread" => Thr!TypeOK /\ Thr!OneThread

(* fork: a connection's descriptor is held by its child while it lives, by *)
(* the parent until it has closed its copy, and by nobody else.            *)
HoldersAreRight == server = "fork" => For!TypeOK /\ For!HoldersAreRight

(* fork: an exited child is seen by the handler that runs or by one that   *)
(* is still to run, although signals merge.                                *)
NoZombieForgotten == server = "fork" => For!NoZombieForgotten

=============================================================================
