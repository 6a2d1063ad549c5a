----------------------------- MODULE TimeServer -----------------------------
(***************************************************************************)
(* The time servers of unp/src/app, u1.5_timeserver and u4.6_timesv_showcli*)
(* (which also prints the client's address), with their client,            *)
(* u1.2_timeclient.  The server takes one client after the other, writes it*)
(* the time byte by byte and closes; the client reads until the end.       *)
(*                                                                         *)
(* A client that leaves early closes its socket: with bytes it has not read*)
(* the kernel sends a reset, otherwise a FIN, and a reset only in answer to*)
(* the next byte.  A write after that is SIGPIPE, which nobody handles.    *)
(***************************************************************************)
EXTENDS Integers, Sequences

CONSTANTS
    Clients,
    Length,         \* the bytes of a time: 26
    MayLeave,       \* the clients that may be killed or fail to print
    AcceptMayFail

TimeConstants ==
    /\ Length \in Nat
    /\ MayLeave \subseteq Clients
    /\ AcceptMayFail \in BOOLEAN

VARIABLES
    spc,        \* the server: "accept", "write", "close", "exit"
    connfd,     \* the client it serves
    sent,       \* the loop's i
    backlog,
    cpc,        \* each client: "connect", "read", its exit code, or "left"
    wire,       \* the bytes written to it and not read
    got,        \* the bytes it printed
    closed,     \* the server closed the connection
    peer        \* what the server's kernel knows of the client: "up", "fin",
                \* "reset" (an error to report), "broken" (SIGPIPE)

server   == <<spc, connfd, sent>>
timeVars == <<server, backlog, cpc, wire, got, closed, peer>>

Init ==
    /\ spc = "accept" /\ connfd \in Clients /\ sent = 0
    /\ backlog = <<>>
    /\ cpc = [c \in Clients |-> "connect"]
    /\ wire = [c \in Clients |-> 0]
    /\ got = [c \in Clients |-> 0]
    /\ closed = [c \in Clients |-> FALSE]
    /\ peer = [c \in Clients |-> "up"]

-----------------------------------------------------------------------------
(* The server.                                                             *)

Accept ==
    /\ spc = "accept" /\ backlog # <<>>
    /\ spc' = "write"
    /\ connfd' = Head(backlog)
    /\ sent' = 0
    /\ backlog' = Tail(backlog)
    /\ UNCHANGED <<cpc, wire, got, closed, peer>>

AcceptFails ==
    /\ AcceptMayFail
    /\ spc = "accept" /\ backlog # <<>>
    /\ spc' = "exit"
    /\ UNCHANGED <<connfd, sent, backlog, cpc, wire, got, closed, peer>>

(* A write that fails is printed, and the loop goes on.                    *)
Write ==
    /\ spc = "write" /\ sent < Length
    /\ IF peer[connfd] = "broken" THEN spc' = "exit" ELSE UNCHANGED spc
    /\ sent' = sent + 1
    /\ wire' = IF peer[connfd] \in {"up", "fin"} THEN [wire EXCEPT ![connfd] = @ + 1]
               ELSE wire
    /\ peer' = IF peer[connfd] = "reset" THEN [peer EXCEPT ![connfd] = "broken"] ELSE peer
    /\ UNCHANGED <<connfd, backlog, cpc, got, closed>>

(* Mutant: the loop stops at the newline.                                  *)
WrittenEarly ==
    /\ spc = "write" /\ sent >= Length - 1
    /\ spc' = "close"
    /\ UNCHANGED <<connfd, sent, backlog, cpc, wire, got, closed, peer>>

Written ==
    /\ spc = "write" /\ sent = Length
    /\ spc' = "close"
    /\ UNCHANGED <<connfd, sent, backlog, cpc, wire, got, closed, peer>>

Close ==
    /\ spc = "close"
    /\ spc' = "accept"
    /\ closed' = [closed EXCEPT ![connfd] = TRUE]
    /\ UNCHANGED <<connfd, sent, backlog, cpc, wire, got, peer>>

ServerStep == Accept \/ AcceptFails \/ Write \/ Written \/ Close

-----------------------------------------------------------------------------
(* The clients and the network.                                            *)

(* The backlog of 50 is never full.                                        *)
Connect(c) ==
    /\ cpc[c] = "connect"
    /\ IF spc = "exit"
       THEN cpc' = [cpc EXCEPT ![c] = "1"] /\ UNCHANGED backlog
       ELSE cpc' = [cpc EXCEPT ![c] = "read"] /\ backlog' = Append(backlog, c)
    /\ UNCHANGED <<server, wire, got, closed, peer>>

(* A connection of a server that ended is reset: read returns -1.          *)
Read(c) ==
    /\ cpc[c] = "read"
    /\ \/ /\ wire[c] > 0
          /\ got' = [got EXCEPT ![c] = @ + wire[c]]
          /\ wire' = [wire EXCEPT ![c] = 0]
          /\ UNCHANGED cpc
       \/ /\ wire[c] = 0
          /\ \/ closed[c] /\ cpc' = [cpc EXCEPT ![c] = "0"]
             \/ ~closed[c] /\ spc = "exit" /\ cpc' = [cpc EXCEPT ![c] = "1"]
          /\ UNCHANGED <<got, wire>>
    /\ UNCHANGED <<server, backlog, closed, peer>>

Leave(c) ==
    /\ c \in MayLeave
    /\ cpc[c] = "read"
    /\ cpc' = [cpc EXCEPT ![c] = "left"]
    /\ peer' = [peer EXCEPT ![c] = IF wire[c] > 0 THEN "reset" ELSE "fin"]
    /\ wire' = [wire EXCEPT ![c] = 0]
    /\ UNCHANGED <<server, backlog, got, closed>>

(* The answer to a byte that reached a socket closed by its client.        *)
Reset(c) ==
    /\ peer[c] = "fin" /\ wire[c] > 0
    /\ peer' = [peer EXCEPT ![c] = "broken"]
    /\ UNCHANGED <<server, backlog, cpc, wire, got, closed>>

Next ==
    \/ ServerStep
    \/ \E c \in Clients : Connect(c) \/ Read(c) \/ Leave(c) \/ Reset(c)

Spec == Init /\ [][Next]_timeVars

-----------------------------------------------------------------------------
(* Every client that connected comes to its end, whichever others left:    *)
(* one that stays gets the whole time or, when the server has ended,       *)
(* nothing.  SIGPIPE (dd.cpp:56) ends the server in the middle of a time,  *)
(* but only of one whose client has left.  The three ends are final.       *)
TimeIsTold ==
    \A c \in Clients :
        (cpc[c] = "read") ~> \/ cpc[c] = "0" /\ got[c] = Length
                             \/ cpc[c] = "1" /\ got[c] = 0 /\ spc = "exit"
                             \/ cpc[c] = "left"
=============================================================================
