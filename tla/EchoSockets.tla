---------------------------- MODULE EchoSockets ----------------------------
(***************************************************************************)
(* What the single-process echo servers of unp/src/app share: a listening  *)
(* socket, connections, and clients that behave as u5.2_reflect_client     *)
(* does.  Each server module extends this one with its own state and says  *)
(* when it accepts, reads, writes and closes.                              *)
(*                                                                         *)
(* A conversation is a byte stream, counted in chunks: sent by the client, *)
(* got by the server's reads, echoed by its writes.  A read takes any part *)
(* of what has arrived.                                                    *)
(***************************************************************************)
EXTENDS Integers, Sequences, FiniteSets

CONSTANTS
    Conns,      \* the connections clients may open
    NoConn,     \* not a connection
    MaxSend,    \* bound: chunks one client sends
    MayReset    \* the clients that may vanish in mid-conversation

ASSUME SocketConstants ==
    /\ NoConn \notin Conns
    /\ MaxSend \in Nat
    /\ MayReset \subseteq Conns

VARIABLES
    backlog,    \* connections completed by the kernel, not accepted
    conn,       \* the server's end: "new", "queued", "open", "closed", "refused"
    cli,        \* the client's end: "new", "open", "fin" (has shut its side
                \* down), "closed" (saw the server's FIN) or "gone" (vanished)
    sent, got, echoed

streamVars == <<sent, got, echoed>>
sockVars == <<backlog, conn, cli, streamVars>>

SockTypeOK ==
    /\ backlog \in Seq(Conns)
    /\ conn \in [Conns -> {"new", "queued", "open", "closed", "refused"}]
    /\ cli \in [Conns -> {"new", "open", "fin", "closed", "gone"}]
    /\ sent \in [Conns -> 0 .. MaxSend]
    /\ got \in [Conns -> 0 .. MaxSend]
    /\ echoed \in [Conns -> 0 .. MaxSend]

SockInit ==
    /\ backlog = <<>>
    /\ conn = [c \in Conns |-> "new"]
    /\ cli = [c \in Conns |-> "new"]
    /\ sent = [c \in Conns |-> 0]
    /\ got = [c \in Conns |-> 0]
    /\ echoed = [c \in Conns |-> 0]

-----------------------------------------------------------------------------
(* The clients.                                                            *)

Connect(c) ==
    /\ cli[c] = "new"
    /\ cli' = [cli EXCEPT ![c] = "open"]
    /\ conn' = [conn EXCEPT ![c] = "queued"]
    /\ backlog' = Append(backlog, c)
    /\ UNCHANGED streamVars

Send(c) ==
    /\ cli[c] = "open"
    /\ sent[c] < MaxSend
    /\ sent' = [sent EXCEPT ![c] = @ + 1]
    /\ UNCHANGED <<backlog, conn, cli, got, echoed>>

Shutdown(c) ==
    /\ cli[c] = "open"
    /\ cli' = [cli EXCEPT ![c] = "fin"]
    /\ UNCHANGED <<backlog, conn, streamVars>>

SeeFin(c) ==
    /\ cli[c] \in {"open", "fin"}
    /\ conn[c] \in {"closed", "refused"}
    /\ cli' = [cli EXCEPT ![c] = "closed"]
    /\ UNCHANGED <<backlog, conn, streamVars>>

Reset(c) ==
    /\ c \in MayReset
    /\ cli[c] \in {"open", "fin"}
    /\ cli' = [cli EXCEPT ![c] = "gone"]
    /\ UNCHANGED <<backlog, conn, streamVars>>

(* Nobody can connect to a server that has exited.                         *)
ClientStep(c, listening) ==
    \/ listening /\ Connect(c)
    \/ Send(c) \/ Shutdown(c) \/ SeeFin(c) \/ Reset(c)

-----------------------------------------------------------------------------
(* The system calls of a server on an open connection.                     *)

Unread(c) == sent[c] - got[c]

(* What poll, select and epoll call readable; a read then does not block.  *)
Readable(c) == Unread(c) > 0 \/ cli[c] \in {"fin", "gone"}

(* read returned n > 0.                                                    *)
Read(c, n) ==
    /\ n \in 1 .. Unread(c)
    /\ got' = [got EXCEPT ![c] = @ + n]
    /\ UNCHANGED <<backlog, conn, cli, sent, echoed>>

(* read returned 0, or -1 because of a reset, and the server closes.       *)
AtEnd(c) ==
    \/ Unread(c) = 0 /\ cli[c] \in {"fin", "gone"}
    \/ cli[c] = "gone"

Close(c) ==
    /\ conn' = [conn EXCEPT ![c] = "closed"]
    /\ UNCHANGED <<backlog, cli, streamVars>>

(* write; to a client that is gone it may also raise SIGPIPE (Breaks).     *)
Write(c, n) ==
    /\ echoed' = [echoed EXCEPT ![c] = @ + n]
    /\ UNCHANGED <<backlog, conn, cli, sent, got>>

Breaks(c) == cli[c] = "gone"

Take(result) ==
    /\ backlog' = Tail(backlog)
    /\ conn' = [conn EXCEPT ![Head(backlog)] = result]
    /\ UNCHANGED <<cli, streamVars>>

(* The process is gone and the kernel closes what it had open.             *)
ProcessEnds ==
    /\ backlog' = <<>>
    /\ conn' = [c \in Conns |-> IF conn[c] \in {"queued", "open"} THEN "closed"
                                ELSE conn[c]]
    /\ UNCHANGED <<cli, streamVars>>

-----------------------------------------------------------------------------
(* What every server must satisfy, in terms of this module.                *)

(* The queue and the two ends of a connection belong together.             *)
SockInv ==
    /\ SockTypeOK
    /\ \A j \in DOMAIN backlog : conn[backlog[j]] = "queued"
    /\ \A j, l \in DOMAIN backlog : backlog[j] = backlog[l] => j = l
    /\ \A c \in Conns : /\ cli[c] = "new" <=> conn[c] = "new"
                        /\ cli[c] = "closed" => conn[c] \in {"closed", "refused"}
                        /\ echoed[c] <= got[c] /\ got[c] <= sent[c]

(* The client's side, for the refinement of EchoService.                   *)
Side == [c \in Conns |-> CASE cli[c] \in {"new", "open"} -> "on"
                           [] cli[c] \in {"fin", "closed"} -> "ended"
                           [] cli[c] = "gone" -> "vanished"]

(* The listen queue does not grow old: a connection is accepted or refused.*)
QueuedIsDecided ==
    \A c \in Conns : conn[c] = "queued" ~> conn[c] # "queued"

(* On an open connection everything sent comes back, whether or not the    *)
(* client has ended its side.                                              *)
EchoComes ==
    \A c \in Conns :
        conn[c] = "open" /\ echoed[c] < sent[c]
            ~> echoed[c] = sent[c] \/ conn[c] # "open"

(* A client that ended or vanished has its connection closed in the end:   *)
(* no descriptor leaks.                                                    *)
CloseComes ==
    \A c \in Conns :
        conn[c] = "open" /\ cli[c] \in {"fin", "gone"} ~> conn[c] # "open"
=============================================================================
