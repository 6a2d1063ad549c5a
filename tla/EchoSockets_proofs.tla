------------------------- MODULE EchoSockets_proofs -------------------------
(* Lemmas about EchoSockets, shared by the proofs about the servers: what  *)
(* its steps do to SockInv, to each connection, and to what EchoService    *)
(* sees.                                                                   *)
EXTENDS EchoSockets, FiniteSetTheorems, TLAPS

LEMMA SockInitInv == SockInit => SockInv /\ Side = [c \in Conns |-> "on"]
<1> SUFFICES ASSUME SockInit PROVE SockInv /\ Side = [c \in Conns |-> "on"]
  OBVIOUS
<1> USE SocketConstants DEF SockInit
<1>1. SockTypeOK
  BY DEF SockTypeOK
<1>2. Side = [c \in Conns |-> "on"]
  BY DEF Side
<1> QED
  BY <1>1, <1>2 DEF SockInv

LEMMA SockStutters ==
  ASSUME SockInv, UNCHANGED sockVars
  PROVE  SockInv' /\ Side' = Side
BY DEF SockInv, SockTypeOK, sockVars, streamVars, Side

(* A client leaves every other connection alone, and one that has ended    *)
(* stays ended.                                                            *)
LEMMA ClientFrame ==
  ASSUME SockInv, NEW c \in Conns, NEW listening, ClientStep(c, listening)
  PROVE  /\ UNCHANGED <<got, echoed>>
         /\ \A d \in Conns :
               /\ conn'[d] = conn[d] \/ (conn[d] = "new" /\ conn'[d] = "queued")
               /\ cli'[d] = "new" <=> conn'[d] = "new"
               /\ sent'[d] >= sent[d]
               /\ cli[d] \in {"fin", "closed", "gone"} =>
                     sent'[d] = sent[d] /\ cli'[d] \in {"fin", "closed", "gone"}
               /\ cli[d] = "gone" => cli'[d] = "gone"
               /\ cli'[d] = "closed" => cli[d] = "closed" \/ conn[d] \in {"closed", "refused"}
<1> USE SocketConstants
<1>type. SockTypeOK
  BY DEF SockInv
<1>1. UNCHANGED <<got, echoed>>
  BY DEF ClientStep, Connect, Send, Shutdown, SeeFin, Reset, streamVars
<1> SUFFICES ASSUME NEW d \in Conns
             PROVE  /\ conn'[d] = conn[d] \/ (conn[d] = "new" /\ conn'[d] = "queued")
                    /\ cli'[d] = "new" <=> conn'[d] = "new"
                    /\ sent'[d] >= sent[d]
                    /\ cli[d] \in {"fin", "closed", "gone"} =>
                          sent'[d] = sent[d] /\ cli'[d] \in {"fin", "closed", "gone"}
                    /\ cli[d] = "gone" => cli'[d] = "gone"
                    /\ cli'[d] = "closed" => cli[d] = "closed" \/ conn[d] \in {"closed", "refused"}
  BY <1>1
<1>2. sent[d] \in Nat /\ (cli[d] = "new" <=> conn[d] = "new")
  BY <1>type DEF SockInv, SockTypeOK
<1>3. CASE Connect(c)
  <2>1. /\ cli[c] = "new" /\ cli' = [cli EXCEPT ![c] = "open"]
        /\ conn[c] = "new" /\ conn' = [conn EXCEPT ![c] = "queued"] /\ sent' = sent
    BY <1>3 DEF Connect, streamVars, SockInv
  <2>2. CASE d = c
    BY <2>1, <2>2, <1>2, <1>type DEF SockTypeOK
  <2>3. CASE d # c
    BY <2>1, <2>3, <1>2, <1>type DEF SockTypeOK
  <2> QED
    BY <2>2, <2>3
<1>4. CASE Send(c)
  <2>1. cli[c] = "open" /\ sent' = [sent EXCEPT ![c] = @ + 1] /\ UNCHANGED <<cli, conn>>
    BY <1>4 DEF Send
  <2>2. d # c => sent'[d] = sent[d]
    BY <2>1, <1>type DEF SockTypeOK
  <2>3. sent'[c] = sent[c] + 1
    BY <2>1, <1>type DEF SockTypeOK
  <2> QED
    BY <2>1, <2>2, <2>3, <1>2
<1>5. CASE Shutdown(c) \/ SeeFin(c) \/ Reset(c)
  <2>1. /\ cli[c] \in {"open", "fin"} /\ cli'[c] \in {"fin", "closed", "gone"}
        /\ cli'[c] = "closed" => conn[c] \in {"closed", "refused"}
        /\ d # c => cli'[d] = cli[d]
    BY <1>5, <1>type DEF Shutdown, SeeFin, Reset, SockTypeOK
  <2>2. UNCHANGED <<conn, sent>>
    BY <1>5 DEF Shutdown, SeeFin, Reset, streamVars
  <2> QED
    BY <2>1, <2>2, <1>2
<1> QED
  BY <1>3, <1>4, <1>5 DEF ClientStep

LEMMA ClientKeepsSock ==
  ASSUME SockInv, NEW c \in Conns, NEW listening, ClientStep(c, listening)
  PROVE  SockInv'
<1> USE SocketConstants
<1>type. SockTypeOK
  BY DEF SockInv
<1>1. SockTypeOK'
  <2>1. CASE Connect(c)
    BY <2>1, <1>type DEF Connect, SockTypeOK, streamVars
  <2>2. CASE Send(c)
    BY <2>2, <1>type DEF Send, SockTypeOK
  <2>3. CASE Shutdown(c) \/ SeeFin(c) \/ Reset(c)
    BY <2>3, <1>type DEF Shutdown, SeeFin, Reset, SockTypeOK, streamVars
  <2> QED
    BY <2>1, <2>2, <2>3 DEF ClientStep
<1>2. ASSUME NEW d \in Conns
      PROVE  /\ cli'[d] = "new" <=> conn'[d] = "new"
             /\ cli'[d] = "closed" => conn'[d] \in {"closed", "refused"}
             /\ echoed'[d] <= got'[d] /\ got'[d] <= sent'[d]
  <2>1. /\ UNCHANGED <<got, echoed>>
        /\ conn'[d] = conn[d] \/ (conn[d] = "new" /\ conn'[d] = "queued")
        /\ cli'[d] = "new" <=> conn'[d] = "new"
        /\ sent'[d] >= sent[d]
        /\ cli'[d] = "closed" => cli[d] = "closed" \/ conn[d] \in {"closed", "refused"}
    BY ClientFrame
  <2>2. /\ got[d] \in Nat /\ sent[d] \in Nat /\ sent'[d] \in Nat
        /\ echoed[d] <= got[d] /\ got[d] <= sent[d]
        /\ cli[d] = "closed" => conn[d] \in {"closed", "refused"}
    BY <1>type, <1>1 DEF SockInv, SockTypeOK
  <2> QED
    BY <2>1, <2>2
<1>3. /\ \A j \in DOMAIN backlog' : conn'[backlog'[j]] = "queued"
      /\ \A j, l \in DOMAIN backlog' : backlog'[j] = backlog'[l] => j = l
  <2>1. CASE Connect(c)
    <3>1. /\ conn[c] = "new" /\ conn' = [conn EXCEPT ![c] = "queued"]
          /\ backlog' = Append(backlog, c)
      BY <2>1 DEF Connect, SockInv
    <3>2. \A j \in DOMAIN backlog : backlog[j] \in Conns /\ backlog[j] # c
      BY <3>1, <1>type DEF SockInv, SockTypeOK
    <3>3. /\ DOMAIN backlog = 1 .. Len(backlog) /\ Len(backlog) \in Nat
          /\ DOMAIN backlog' = 1 .. Len(backlog) + 1
          /\ backlog'[Len(backlog) + 1] = c
          /\ \A j \in DOMAIN backlog : backlog'[j] = backlog[j]
      BY <3>1, <1>type DEF SockTypeOK
    <3>4. \A j \in DOMAIN backlog' : j \in DOMAIN backlog \/ j = Len(backlog) + 1
      BY <3>3
    <3>5. conn'[c] = "queued" /\ \A d \in Conns : d # c => conn'[d] = conn[d]
      BY <3>1, <1>type DEF SockTypeOK
    <3>6. \A j \in DOMAIN backlog' : conn'[backlog'[j]] = "queued"
      BY <3>2, <3>3, <3>4, <3>5 DEF SockInv
    <3>7. \A j, l \in DOMAIN backlog' : backlog'[j] = backlog'[l] => j = l
      BY <3>2, <3>3, <3>4 DEF SockInv
    <3> QED
      BY <3>6, <3>7
  <2>2. CASE ~Connect(c)
    <3>1. UNCHANGED <<backlog, conn>>
      BY <2>2 DEF ClientStep, Send, Shutdown, SeeFin, Reset
    <3> QED
      BY <3>1 DEF SockInv
  <2> QED
    BY <2>1, <2>2
<1> QED
  BY <1>1, <1>2, <1>3 DEF SockInv

(* accept takes the oldest connection out of the queue.                    *)
LEMMA TakeKeepsSock ==
  ASSUME SockInv, backlog # <<>>, NEW result \in {"open", "refused"}, Take(result)
  PROVE  /\ Head(backlog) \in Conns /\ conn[Head(backlog)] = "queued"
         /\ conn' = [conn EXCEPT ![Head(backlog)] = result]
         /\ conn'[Head(backlog)] = result
         /\ \A d \in Conns : d # Head(backlog) => conn'[d] = conn[d]
         /\ UNCHANGED <<cli, sent, got, echoed>>
         /\ SockInv'
<1>type. SockTypeOK
  BY DEF SockInv
<1>1. /\ backlog' = Tail(backlog)
      /\ conn' = [conn EXCEPT ![Head(backlog)] = result]
      /\ UNCHANGED <<cli, sent, got, echoed>>
  BY DEF Take, streamVars
<1>2. /\ DOMAIN backlog = 1 .. Len(backlog) /\ Len(backlog) \in Nat
      /\ 1 \in DOMAIN backlog /\ Head(backlog) = backlog[1] /\ Head(backlog) \in Conns
      /\ DOMAIN backlog' = 1 .. Len(backlog) - 1
      /\ \A j \in DOMAIN backlog' : backlog'[j] = backlog[j + 1] /\ j + 1 \in DOMAIN backlog
  BY <1>1, <1>type DEF SockTypeOK
<1> PICK h \in Conns : h = Head(backlog)
  BY <1>2
<1>3. conn[h] = "queued"
  BY <1>2 DEF SockInv
<1>4. conn'[h] = result /\ \A d \in Conns : d # h => conn'[d] = conn[d]
  BY <1>1, <1>type DEF SockTypeOK
<1>5. SockTypeOK'
  <2>1. backlog' \in Seq(Conns)
    BY <1>1, <1>type DEF SockTypeOK
  <2>2. conn' \in [Conns -> {"new", "queued", "open", "closed", "refused"}]
    BY <1>1, <1>type DEF SockTypeOK
  <2> QED
    BY <2>1, <2>2, <1>1, <1>type DEF SockTypeOK
<1>6. \A j \in DOMAIN backlog' : backlog'[j] \in Conns /\ backlog'[j] # h
  <2> TAKE j \in DOMAIN backlog'
  <2>1. j + 1 # 1 /\ j + 1 \in DOMAIN backlog /\ backlog'[j] = backlog[j + 1]
    BY <1>2
  <2>2. backlog[j + 1] \in Conns
    BY <2>1, <1>type DEF SockTypeOK
  <2>3. backlog[j + 1] = backlog[1] => j + 1 = 1
    BY <2>1, <1>2 DEF SockInv
  <2> QED
    BY <2>1, <2>2, <2>3, <1>2
<1>7. \A j \in DOMAIN backlog' : conn'[backlog'[j]] = "queued"
  BY <1>2, <1>4, <1>6 DEF SockInv
<1>8. \A j, l \in DOMAIN backlog' : backlog'[j] = backlog'[l] => j = l
  <2> TAKE j, l \in DOMAIN backlog'
  <2>1. backlog'[j] = backlog'[l] => j + 1 = l + 1
    BY <1>2 DEF SockInv
  <2> QED
    BY <2>1, <1>2
<1>9. ASSUME NEW d \in Conns
      PROVE  /\ cli[d] = "new" <=> conn'[d] = "new"
             /\ cli[d] = "closed" => conn'[d] \in {"closed", "refused"}
  BY <1>3, <1>4 DEF SockInv
<1> QED
  BY <1>1, <1>3, <1>4, <1>5, <1>7, <1>8, <1>9 DEF SockInv

(* The server's ends of some connections are closed, and then the queue    *)
(* may be gone as well.                                                    *)
LEMMA EndKeepsSock ==
  ASSUME SockInv, UNCHANGED <<cli, sent, got, echoed>>,
         conn' \in [Conns -> {"new", "queued", "open", "closed", "refused"}],
         \/ /\ backlog' = backlog
            /\ \A d \in Conns : conn'[d] = conn[d] \/ (conn[d] = "open" /\ conn'[d] = "closed")
         \/ /\ backlog' = <<>>
            /\ \A d \in Conns : \/ conn'[d] = conn[d]
                                \/ conn[d] \in {"queued", "open"} /\ conn'[d] = "closed"
  PROVE  SockInv'
<1>type. SockTypeOK
  BY DEF SockInv
<1>1. SockTypeOK'
  <2>1. backlog' = backlog \/ backlog' = <<>>
    OBVIOUS
  <2>2. backlog' \in Seq(Conns)
    <3>1. backlog \in Seq(Conns) /\ <<>> \in Seq(Conns)
      BY <1>type DEF SockTypeOK
    <3> QED
      BY <2>1, <3>1, Zenon
  <2> QED
    BY <2>2, <1>type DEF SockTypeOK
<1>2. \A d \in Conns : \/ conn'[d] = conn[d]
                       \/ conn[d] \in {"queued", "open"} /\ conn'[d] = "closed"
  OBVIOUS
<1>3. /\ \A j \in DOMAIN backlog' : conn'[backlog'[j]] = "queued"
      /\ \A j, l \in DOMAIN backlog' : backlog'[j] = backlog'[l] => j = l
  <2>1. CASE backlog' = <<>>
    BY <2>1
  <2>2. CASE /\ backlog' = backlog
             /\ \A d \in Conns : conn'[d] = conn[d] \/ (conn[d] = "open" /\ conn'[d] = "closed")
    <3>1. \A j \in DOMAIN backlog : backlog[j] \in Conns /\ conn[backlog[j]] = "queued"
      BY <1>type DEF SockInv, SockTypeOK
    <3> QED
      BY <3>1, <2>2 DEF SockInv
  <2> QED
    BY <2>1, <2>2
<1> QED
  BY <1>1, <1>2, <1>3 DEF SockInv

(* read and write.                                                         *)
LEMMA ReadKeepsSock ==
  ASSUME SockInv, NEW c \in Conns, NEW k, Read(c, k)
  PROVE  /\ k \in 1 .. MaxSend /\ got[c] + k <= sent[c]
         /\ got'[c] = got[c] + k /\ \A d \in Conns : d # c => got'[d] = got[d]
         /\ UNCHANGED <<backlog, conn, cli, sent, echoed>>
         /\ SockInv'
<1> USE SocketConstants
<1>type. SockTypeOK
  BY DEF SockInv
<1>1. /\ got[c] \in 0 .. MaxSend /\ sent[c] \in 0 .. MaxSend /\ echoed[c] \in 0 .. MaxSend
      /\ echoed[c] <= got[c]
  BY <1>type DEF SockInv, SockTypeOK
<1>2. /\ k \in 1 .. sent[c] - got[c]
      /\ got' = [got EXCEPT ![c] = got[c] + k]
      /\ UNCHANGED <<backlog, conn, cli, sent, echoed>>
  BY DEF Read, Unread
<1>3. k \in 1 .. MaxSend /\ got[c] + k \in 0 .. MaxSend /\ got[c] + k <= sent[c]
      /\ echoed[c] <= got[c] + k
  BY <1>1, <1>2
<1>4. got'[c] = got[c] + k /\ \A d \in Conns : d # c => got'[d] = got[d]
  BY <1>2, <1>type DEF SockTypeOK
<1>5. SockTypeOK'
  BY <1>2, <1>3, <1>type DEF SockTypeOK
<1>6. \A d \in Conns : echoed[d] <= got'[d] /\ got'[d] <= sent[d]
  BY <1>3, <1>4 DEF SockInv
<1> QED
  BY <1>2, <1>3, <1>4, <1>5, <1>6 DEF SockInv

LEMMA WriteKeepsSock ==
  ASSUME SockInv, NEW c \in Conns, NEW k \in 0 .. MaxSend, got[c] - echoed[c] = k, Write(c, k)
  PROVE  /\ echoed'[c] = got[c] /\ \A d \in Conns : d # c => echoed'[d] = echoed[d]
         /\ UNCHANGED <<backlog, conn, cli, sent, got>>
         /\ SockInv'
<1> USE SocketConstants
<1>type. SockTypeOK
  BY DEF SockInv
<1>1. got[c] \in 0 .. MaxSend /\ echoed[c] \in 0 .. MaxSend
  BY <1>type DEF SockTypeOK
<1>2. echoed[c] + k = got[c]
  BY <1>1
<1>3. /\ echoed' = [echoed EXCEPT ![c] = got[c]]
      /\ UNCHANGED <<backlog, conn, cli, sent, got>>
  BY <1>2 DEF Write
<1>4. echoed'[c] = got[c] /\ \A d \in Conns : d # c => echoed'[d] = echoed[d]
  BY <1>3, <1>type DEF SockTypeOK
<1>5. SockTypeOK'
  BY <1>1, <1>3, <1>type DEF SockTypeOK
<1>6. \A d \in Conns : echoed'[d] <= got[d]
  BY <1>1, <1>4 DEF SockInv
<1> QED
  BY <1>3, <1>4, <1>5, <1>6 DEF SockInv

-----------------------------------------------------------------------------
(* What EchoService sees, when no client vanishes.                         *)

(* A step of a client is one of Ask, Say and Leave.                        *)
LEMMA ClientSides ==
  ASSUME SockInv, MayReset = {}, NEW c \in Conns, NEW listening, ClientStep(c, listening)
  PROVE  \/ /\ conn[c] = "new" /\ conn' = [conn EXCEPT ![c] = "queued"]
            /\ UNCHANGED <<Side, sent, echoed>>
         \/ /\ conn[c] # "new" /\ Side[c] = "on" /\ sent' = [sent EXCEPT ![c] = @ + 1]
            /\ UNCHANGED <<conn, Side, echoed>>
         \/ /\ Side' = [Side EXCEPT ![c] = "ended"]
            /\ UNCHANGED <<conn, sent, echoed>>
<1> USE SocketConstants
<1>type. SockTypeOK
  BY DEF SockInv
<1>1. CASE Connect(c)
  <2>1. /\ cli[c] = "new" /\ cli' = [cli EXCEPT ![c] = "open"]
        /\ conn[c] = "new" /\ conn' = [conn EXCEPT ![c] = "queued"]
        /\ UNCHANGED <<sent, echoed>>
    BY <1>1 DEF Connect, streamVars, SockInv
  <2>2. Side' = Side
    BY <2>1, <1>type DEF Side, SockTypeOK
  <2> QED
    BY <2>1, <2>2
<1>2. CASE Send(c)
  <2>1. /\ cli[c] = "open" /\ sent' = [sent EXCEPT ![c] = @ + 1]
        /\ UNCHANGED <<cli, conn, echoed>>
    BY <1>2 DEF Send
  <2>2. Side' = Side /\ Side[c] = "on" /\ conn[c] # "new"
    BY <2>1 DEF Side, SockInv
  <2> QED
    BY <2>1, <2>2
<1>3. CASE Shutdown(c) \/ SeeFin(c)
  <2>1. PICK end \in {"fin", "closed"} : cli' = [cli EXCEPT ![c] = end]
    BY <1>3 DEF Shutdown, SeeFin
  <2>2. Side' = [Side EXCEPT ![c] = "ended"]
    BY <2>1, <1>type DEF Side, SockTypeOK
  <2>3. UNCHANGED <<conn, sent, echoed>>
    BY <1>3 DEF Shutdown, SeeFin, streamVars
  <2> QED
    BY <2>2, <2>3
<1>4. ~Reset(c)
  BY DEF Reset
<1> QED
  BY <1>1, <1>2, <1>3, <1>4 DEF ClientStep

NobodyGone == \A c \in Conns : cli[c] # "gone"

LEMMA NobodyGoes ==
  ASSUME SockTypeOK, NobodyGone, MayReset = {},
         NEW c \in Conns, NEW listening, ClientStep(c, listening)
  PROVE  NobodyGone'
<1>1. ~Reset(c)
  BY DEF Reset
<1>2. \/ cli' = cli
      \/ \E end \in {"open", "fin", "closed"} : cli' = [cli EXCEPT ![c] = end]
  BY <1>1 DEF ClientStep, Connect, Send, Shutdown, SeeFin
<1> QED
  BY <1>2 DEF NobodyGone, SockTypeOK
=============================================================================
