------------------------- MODULE ProcessPool_proofs -------------------------
(* Proofs about ProcessPool, for any number of children and connections.   *)
EXTENDS ProcessPoolProps, FiniteSetTheorems, SequenceTheorems, TLAPS

-----------------------------------------------------------------------------
(* Type correctness, whatever faults occur.                                *)

LEMMA TypeInit == Init => TypeOK
  BY PoolConstants, SMT DEF Init, TypeOK, Children

LEMMA TypeStep == TypeOK /\ [Next]_vars => TypeOK'
<1> SUFFICES ASSUME TypeOK, [Next]_vars PROVE TypeOK'
  OBVIOUS
<1> USE PoolConstants DEF TypeOK, Children, vars, parentVars, childVars,
                          clientVars
<1>gone. ASSUME ParentGone PROVE TypeOK'
  BY <1>gone DEF ParentGone
<1>taken. ASSUME NEW c \in Conns, Accepting(c), Taken
          PROVE  /\ batch' \subseteq 0 .. CHILDNUMBER
                 /\ backlog' \in Seq(Conns)
  BY <1>taken DEF Accepting, Taken
<1>1. CASE ForkChild
  <2>1. /\ state' \in [Children -> 0 .. 1]
        /\ nxt' \in 0 .. CHILDNUMBER
    BY <1>1 DEF ForkChild
  <2>2. cpc' \in [Children ->
                    {"none", "recv", "serve", "echo", "report", "dead"}]
    BY <1>1 DEF ForkChild
  <2> QED
    BY <1>1, <2>1, <2>2 DEF ForkChild
<1>2. CASE StartListening
  BY <1>2 DEF StartListening
<1>3. CASE StartupError
  BY <1>3, <1>gone DEF StartupError
<1>4. CASE EpollWait
  BY <1>4 DEF EpollWait, Ready
<1>5. ASSUME NEW c \in Conns,
             AcceptError(c) \/ Refuse(c) \/ NoneFound(c)
      PROVE  TypeOK'
  <2>1. CASE AcceptError(c)
    BY <2>1, <1>gone DEF AcceptError
  <2>2. CASE Refuse(c)
    BY <2>2, <1>taken DEF Refuse
  <2>3. CASE NoneFound(c)
    BY <2>3, <1>taken DEF NoneFound
  <2> QED
    BY <1>5, <2>1, <2>2, <2>3
<1>6. ASSUME NEW c \in Conns, NEW i \in Children, Dispatch(c, i)
      PROVE  TypeOK'
  <2>1. Append(cmdq[i], c) \in Seq(Conns)
    OBVIOUS
  <2>2. cmdq' \in [Children -> Seq(Conns)]
    BY <1>6, <2>1 DEF Dispatch
  <2>3. /\ state' \in [Children -> 0 .. 1]
        /\ run_num' \in Int
        /\ batch' \subseteq 0 .. CHILDNUMBER
        /\ backlog' \in Seq(Conns)
    BY <1>6, <1>taken DEF Dispatch
  <2>4. conn' \in [Conns -> {"new", "queued", "handed", "served", "refused",
                             "leaked", "dropped"}]
    BY <1>6 DEF Dispatch
  <2> QED
    BY <1>6, <2>2, <2>3, <2>4 DEF Dispatch
<1>7. ASSUME NEW c \in Conns, NEW i \in Children, DispatchToDead(c, i)
      PROVE  TypeOK'
  BY <1>7, <1>gone DEF DispatchToDead
<1>8. ASSUME NEW i \in Children, ReadReport(i) PROVE TypeOK'
  <2>1. /\ state' \in [Children -> 0 .. 1]
        /\ run_num' \in Int
        /\ batch' \subseteq 0 .. CHILDNUMBER
    BY <1>8 DEF ReadReport, SlotFreed
  <2>2. repq' \in [Children -> Nat]
    BY <1>8 DEF ReadReport
  <2> QED
    BY <1>8, <2>1, <2>2 DEF ReadReport, SlotFreed
<1>9. ASSUME NEW i \in Children, ReadEof(i) PROVE TypeOK'
  <2>1. PICK num \in Children : SlotFreed(i, num)
    BY <1>9 DEF ReadEof
  <2>2. /\ state' \in [Children -> 0 .. 1]
        /\ run_num' \in Int
        /\ batch' \subseteq 0 .. CHILDNUMBER
    BY <2>1 DEF SlotFreed
  <2> QED
    BY <1>9, <2>1, <2>2 DEF ReadEof, SlotFreed
<1>head. ASSUME NEW i \in Children, cmdq[i] # <<>>
         PROVE  Head(cmdq[i]) \in Conns /\ Tail(cmdq[i]) \in Seq(Conns)
  BY <1>head
<1>10. ASSUME NEW i \in Children, ReadFd(i) PROVE TypeOK'
  <2>1. cmdq' \in [Children -> Seq(Conns)]
    BY <1>10, <1>head DEF ReadFd
  <2>2. cur' \in [Children -> Conns \cup {NoConn}]
    BY <1>10, <1>head DEF ReadFd
  <2>3. held' \in [Children -> SUBSET Conns]
    BY <1>10, <1>head DEF ReadFd
  <2> QED
    BY <1>10, <2>1, <2>2, <2>3 DEF ReadFd
<1>11. ASSUME NEW i \in Children, ReadFdTruncated(i) PROVE TypeOK'
  <2>1. cmdq' \in [Children -> Seq(Conns)]
    BY <1>11, <1>head DEF ReadFdTruncated
  <2> QED
    BY <1>11, <2>1 DEF ReadFdTruncated
<1>12. ASSUME NEW i \in Children, ServeRead(i) \/ Report(i) PROVE TypeOK'
  <2>1. CASE ServeRead(i)
    BY <2>1 DEF ServeRead
  <2>2. CASE Report(i)
    <3>1. repq[i] + 1 \in Nat
      OBVIOUS
    <3>2. repq' \in [Children -> Nat]
      BY <2>2, <3>1 DEF Report
    <3> QED
      BY <2>2, <3>2 DEF Report
  <2> QED
    BY <1>12, <2>1, <2>2
<1>13. ASSUME NEW i \in Children, ServeEcho(i) PROVE TypeOK'
  <2>1. cur[i] \in Conns => echoed[cur[i]] + 1 \in Nat
    OBVIOUS
  <2>2. echoed' \in [Conns -> Nat]
    BY <1>13, <2>1 DEF ServeEcho
  <2> QED
    BY <1>13, <2>2 DEF ServeEcho
<1>14. ASSUME NEW i \in Children, ServeEnd(i) PROVE TypeOK'
  BY <1>14 DEF ServeEnd
<1>15. ASSUME NEW i \in Children, ChildEof(i) \/ SigPipe(i) PROVE TypeOK'
  <2>1. ChildGone(i)
    BY <1>15 DEF ChildEof, SigPipe
  <2>2. <<>> \in Seq(Conns)
    OBVIOUS
  <2>3. cmdq' \in [Children -> Seq(Conns)]
    BY <2>1, <2>2 DEF ChildGone
  <2> QED
    BY <2>1, <2>3 DEF ChildGone
<1>16. ASSUME NEW c \in Conns, ClientStep(c) PROVE TypeOK'
  <2>1. CASE Connect(c)
    <3>1. backlog' \in Seq(Conns)
      BY <2>1 DEF Connect
    <3> QED
      BY <2>1, <3>1 DEF Connect
  <2>2. CASE Send(c)
    <3>1. sent[c] + 1 \in 0 .. MaxSend
      BY <2>2 DEF Send
    <3>2. sent' \in [Conns -> 0 .. MaxSend]
      BY <2>2, <3>1 DEF Send
    <3> QED
      BY <2>2, <3>2 DEF Send
  <2>3. CASE Shutdown(c) \/ SeeFin(c) \/ Abort(c)
    BY <2>3 DEF Shutdown, SeeFin, Abort
  <2> QED
    BY <1>16, <2>1, <2>2, <2>3 DEF ClientStep
<1>17. CASE UNCHANGED vars
  BY <1>17
<1> QED
  BY <1>1, <1>2, <1>3, <1>4, <1>5, <1>6, <1>7, <1>8, <1>9, <1>10, <1>11,
     <1>12, <1>13, <1>14, <1>15, <1>16, <1>17 DEF Next, ParentStep, ChildStep

(* Every reachable state is well-typed, in particular every slot's state   *)
(* and child number stays in range, with or without faults.                *)
THEOREM TypeCorrect == Spec => []TypeOK
  BY TypeInit, TypeStep, PTL DEF Spec

-----------------------------------------------------------------------------
(* Facts about the operators of the model.                                 *)

LEMMA AppendElements ==
  ASSUME NEW S, NEW s \in Seq(S), NEW c \in S
  PROVE  {Append(s, c)[k] : k \in DOMAIN Append(s, c)}
           = {s[k] : k \in DOMAIN s} \cup {c}
<1> DEFINE t == Append(s, c)
<1>1. /\ Len(t) = Len(s) + 1
      /\ \A k \in 1 .. Len(s) : t[k] = s[k]
      /\ t[Len(s) + 1] = c
  OBVIOUS
<1>2. DOMAIN t = 1 .. Len(s) + 1 /\ DOMAIN s = 1 .. Len(s) /\ Len(s) \in Nat
  BY <1>1
<1> HIDE DEF t
<1>3. {t[k] : k \in 1 .. Len(s) + 1}
        = {s[k] : k \in 1 .. Len(s)} \cup {c}
  BY <1>1, <1>2
<1> QED
  BY <1>2, <1>3 DEF t

LEMMA OneElement ==
  ASSUME NEW S, NEW s \in Seq(S), Len(s) = 1
  PROVE  /\ Tail(s) = <<>>
         /\ {s[k] : k \in DOMAIN s} = {Head(s)}
         /\ Head(s) \in S
<1>1. DOMAIN s = {1} /\ Head(s) = s[1]
  OBVIOUS
<1>2. Len(Tail(s)) = 0 /\ Tail(s) \in Seq(S) /\ Head(s) \in S
  OBVIOUS
<1>3. Tail(s) = <<>>
  BY <1>2, EmptySeq
<1>4. {s[k] : k \in DOMAIN s} = {Head(s)}
  BY <1>1
<1> QED
  BY <1>2, <1>3, <1>4

(* Taking the first of a queue that holds nothing twice.                   *)
LEMMA TailElements ==
  ASSUME NEW S, NEW s \in Seq(S), s # <<>>,
         \A k, l \in DOMAIN s : s[k] = s[l] => k = l
  PROVE  /\ Head(s) \in S /\ Head(s) \in {s[k] : k \in DOMAIN s}
         /\ {Tail(s)[k] : k \in DOMAIN Tail(s)} = {s[k] : k \in DOMAIN s} \ {Head(s)}
         /\ \A k, l \in DOMAIN Tail(s) : Tail(s)[k] = Tail(s)[l] => k = l
<1> DEFINE t == Tail(s)
<1>1. /\ Len(s) \in Nat /\ Len(s) > 0 /\ DOMAIN s = 1 .. Len(s)
      /\ Head(s) = s[1] /\ s[1] \in S
      /\ DOMAIN t = 1 .. Len(s) - 1
      /\ \A k \in 1 .. Len(s) - 1 : t[k] = s[k + 1]
  OBVIOUS
<1> HIDE DEF t
<1>2. {t[k] : k \in DOMAIN t} \subseteq {s[k] : k \in DOMAIN s} \ {Head(s)}
  <2> SUFFICES ASSUME NEW k \in DOMAIN t
               PROVE  t[k] \in {s[j] : j \in DOMAIN s} /\ t[k] # s[1]
    BY <1>1
  <2>1. k + 1 \in DOMAIN s /\ 1 \in DOMAIN s /\ t[k] = s[k + 1] /\ k + 1 # 1
    BY <1>1
  <2> QED
    BY <2>1
<1>3. {s[k] : k \in DOMAIN s} \ {Head(s)} \subseteq {t[k] : k \in DOMAIN t}
  <2> SUFFICES ASSUME NEW k \in DOMAIN s, s[k] # s[1]
               PROVE  s[k] \in {t[j] : j \in DOMAIN t}
    BY <1>1
  <2>1. k - 1 \in DOMAIN t /\ t[k - 1] = s[k]
    BY <1>1
  <2> QED
    BY <2>1
<1>4. \A k, l \in DOMAIN t : t[k] = t[l] => k = l
  <2> SUFFICES ASSUME NEW k \in DOMAIN t, NEW l \in DOMAIN t, t[k] = t[l]
               PROVE  k = l
    OBVIOUS
  <2>1. k + 1 \in DOMAIN s /\ l + 1 \in DOMAIN s /\ s[k + 1] = s[l + 1]
    BY <1>1
  <2>2. k + 1 = l + 1
    BY <2>1
  <2> QED
    BY <2>2, <1>1
<1> QED
  BY <1>1, <1>2, <1>3, <1>4 DEF t

LEMMA ChildrenFinite ==
  IsFiniteSet(Children) /\ Cardinality(Children) = CHILDNUMBER
<1>1. 0 \in Int /\ CHILDNUMBER - 1 \in Int /\ ~(0 > CHILDNUMBER - 1)
  BY PoolConstants
<1>2. /\ IsFiniteSet(0 .. CHILDNUMBER - 1)
      /\ Cardinality(0 .. CHILDNUMBER - 1) = CHILDNUMBER - 1 - 0 + 1
  BY <1>1, FS_Interval
<1> QED
  BY <1>2, PoolConstants DEF Children

(* Marking one more slot, or one fewer, moves the count by one.            *)
LEMMA BusyCount ==
  ASSUME TypeOK
  PROVE  /\ IsFiniteSet(Busy) /\ Cardinality(Busy) \in Nat
         /\ Cardinality(Busy) <= CHILDNUMBER
         /\ Cardinality(Busy) = CHILDNUMBER => Busy = Children
         /\ \A i \in Children : i \notin Busy =>
               Cardinality(Busy \cup {i}) = Cardinality(Busy) + 1
         /\ \A i \in Busy : Cardinality(Busy \ {i}) = Cardinality(Busy) - 1
<1>1. Busy \in SUBSET Children
  BY DEF Busy
<1>2. /\ IsFiniteSet(Busy)
      /\ Cardinality(Busy) <= Cardinality(Children)
      /\ Cardinality(Children) = Cardinality(Busy) => Children = Busy
  BY <1>1, ChildrenFinite, FS_Subset
<1> QED
  BY <1>2, ChildrenFinite, FS_CardinalityType, FS_AddElement, FS_RemoveElement

-----------------------------------------------------------------------------
(* The steps one by one, whatever faults occur.                            *)

(* A step that moves no connection and ends no child.                      *)
LEMMA QuietStep ==
  ASSUME FaultInv, TypeOK',
         UNCHANGED <<backlog, conn, cur, held, cmdq, cli, sent, echoed>>,
         ppc = "exited" => ppc' = "exited",
         \A i \in Children :
            /\ cpc'[i] \in {"serve", "echo"} <=> cpc[i] \in {"serve", "echo"}
            /\ cpc[i] = "dead" => cpc'[i] = "dead"
            /\ cpc'[i] = "echo" => echoed[cur[i]] < sent[cur[i]]
            /\ i >= nxt' => cpc'[i] = "none"
  PROVE  FaultInv'
<1>1. \A i \in Children : InCmd(i)' = InCmd(i)
  BY DEF InCmd
<1>2. StartInv' /\ BacklogInv' /\ EchoInv'
  BY DEF FaultInv, StartInv, BacklogInv, EchoInv
<1>3. HoldInv'
  BY <1>1 DEF FaultInv, HoldInv
<1>4. NoneVanishes'
  <2> SUFFICES ASSUME NEW c \in Conns
               PROVE  /\ conn[c] = "handed" => \E i \in Children : c \in InCmd(i) \/ cur[i] = c
                      /\ conn[c] = "served" => \E i \in Children : c \in held[i] \/ cpc'[i] = "dead"
                      /\ conn[c] = "dropped" =>
                             \/ ppc' = "exited"
                             \/ \E i \in Children : \/ cpc'[i] = "dead"
                                                    \/ Cardinality(held[i]) >= FdLimit
    BY <1>1 DEF NoneVanishes
  <2> QED
    BY DEF FaultInv, NoneVanishes
<1> QED
  BY <1>2, <1>3, <1>4 DEF FaultInv

(* The parent takes nothing with it that a child has.                      *)
LEMMA ParentGoneStep ==
  ASSUME FaultInv, TypeOK', ParentGone
  PROVE  FaultInv'
<1>1. /\ ppc' = "exited" /\ backlog' = <<>>
      /\ \A c \in Conns : conn'[c] = IF conn[c] \in {"queued", "leaked"}
                                     THEN "dropped" ELSE conn[c]
      /\ UNCHANGED <<nxt, cpc, cur, held, cmdq, cli, sent, echoed>>
  BY DEF ParentGone, childVars, clientVars
<1>2. \A i \in Children : InCmd(i)' = InCmd(i) /\ InCmd(i) \subseteq Conns
  BY <1>1, ElementOfSeq DEF InCmd, FaultInv, TypeOK
<1>3. StartInv' /\ BacklogInv' /\ EchoInv'
  BY <1>1 DEF FaultInv, StartInv, BacklogInv, EchoInv
<1>4. HoldInv'
  <2>1. \A c \in Conns : conn[c] \in {"handed", "served"} => conn'[c] = conn[c]
    BY <1>1
  <2>2. ASSUME NEW i \in Children, cur[i] # NoConn
        PROVE  cur[i] \in held[i] /\ conn'[cur[i]] = "handed"
    BY <2>1, <2>2 DEF FaultInv, HoldInv, TypeOK
  <2>3. ASSUME NEW i \in Children, NEW c \in InCmd(i)
        PROVE  conn'[c] = "handed" /\ c \notin held[i]
    BY <2>1, <2>3, <1>2 DEF FaultInv, HoldInv
  <2>4. ASSUME NEW i \in Children, NEW c \in held[i]
        PROVE  conn'[c] \in {"handed", "served"}
    BY <2>1, <2>4 DEF FaultInv, HoldInv, TypeOK
  <2> QED
    BY <2>2, <2>3, <2>4, <1>1, <1>2 DEF FaultInv, HoldInv
<1>5. NoneVanishes'
  BY <1>1, <1>2 DEF FaultInv, NoneVanishes
<1> QED
  BY <1>3, <1>4, <1>5 DEF FaultInv

(* What accept takes from the listen queue is nowhere else.                *)
LEMMA TakenStep ==
  ASSUME FaultInv, NEW c \in Conns, Accepting(c), Taken,
         \A d \in Conns : d # c => conn'[d] = conn[d], conn'[c] # "queued"
  PROVE  /\ conn[c] = "queued" /\ cli[c] # "new"
         /\ \A i \in Children : /\ c \notin held[i] \cup InCmd(i)
                                /\ cur[i] # c
                                /\ InCmd(i) \subseteq Conns /\ held[i] \subseteq Conns
         /\ BacklogInv'
<1>1. /\ backlog \in Seq(Conns) /\ backlog # <<>> /\ c = Head(backlog)
      /\ \A k, l \in DOMAIN backlog : backlog[k] = backlog[l] => k = l
  BY DEF FaultInv, TypeOK, Accepting, BacklogInv
<1>2. /\ c \in {backlog[k] : k \in DOMAIN backlog}
      /\ {Tail(backlog)[k] : k \in DOMAIN Tail(backlog)}
            = {backlog[k] : k \in DOMAIN backlog} \ {c}
      /\ \A k, l \in DOMAIN Tail(backlog) : Tail(backlog)[k] = Tail(backlog)[l] => k = l
  BY <1>1, TailElements
<1>3. conn[c] = "queued"
  BY <1>2 DEF FaultInv, BacklogInv
<1>4. \A i \in Children : InCmd(i) \subseteq Conns /\ held[i] \subseteq Conns
  BY ElementOfSeq DEF FaultInv, TypeOK, InCmd
<1>5. BacklogInv'
  <2>1. backlog' = Tail(backlog)
    BY DEF Taken
  <2>2. \A k \in DOMAIN Tail(backlog) :
            Tail(backlog)[k] \in {backlog[j] : j \in DOMAIN backlog} \ {c}
    BY <1>2
  <2>3. \A d \in {backlog[j] : j \in DOMAIN backlog} \ {c} : conn'[d] = "queued"
    BY <1>1, ElementOfSeq DEF FaultInv, BacklogInv
  <2> SUFFICES ASSUME NEW k \in DOMAIN Tail(backlog)
               PROVE  /\ conn'[Tail(backlog)[k]] = "queued"
                      /\ \A j \in DOMAIN Tail(backlog) :
                            Tail(backlog)[j] = Tail(backlog)[k] => j = k
    BY <2>1 DEF BacklogInv
  <2>4. conn'[Tail(backlog)[k]] = "queued"
    BY <2>2, <2>3
  <2> QED
    BY <2>4, <1>2
<1>6. cli[c] # "new"
  BY <1>3 DEF FaultInv, StartInv
<1>7. \A i \in Children : c \notin held[i] \cup InCmd(i) /\ cur[i] # c
  BY <1>3, PoolConstants DEF FaultInv, HoldInv
<1> QED
  BY <1>3, <1>4, <1>5, <1>6, <1>7

LEMMA TurnedAwayStep ==
  ASSUME FaultInv, TypeOK', NEW c \in Conns, Refuse(c) \/ NoneFound(c)
  PROVE  FaultInv'
<1>1. /\ Accepting(c) /\ Taken
      /\ conn'[c] \in {"refused", "leaked"} /\ \A d \in Conns : d # c => conn'[d] = conn[d]
      /\ UNCHANGED <<ppc, nxt, cpc, cur, held, cmdq, cli, sent, echoed>>
  BY DEF Refuse, NoneFound, childVars, clientVars, FaultInv, TypeOK
<1>2. /\ conn[c] = "queued" /\ cli[c] # "new" /\ BacklogInv'
      /\ \A i \in Children : /\ c \notin held[i] \cup InCmd(i)
                             /\ InCmd(i) \subseteq Conns /\ held[i] \subseteq Conns
  BY <1>1, TakenStep
<1>3. \A i \in Children : InCmd(i)' = InCmd(i)
  BY <1>1 DEF InCmd
<1>4. StartInv' /\ EchoInv'
  BY <1>1, <1>2 DEF FaultInv, StartInv, EchoInv
<1>5. HoldInv'
  BY <1>1, <1>2, <1>3 DEF FaultInv, HoldInv
<1>6. NoneVanishes'
  BY <1>1, <1>2, <1>3 DEF FaultInv, NoneVanishes
<1> QED
  BY <1>2, <1>4, <1>5, <1>6 DEF FaultInv

LEMMA DispatchStep ==
  ASSUME FaultInv, TypeOK', NEW c \in Conns, NEW i \in Children, Dispatch(c, i)
  PROVE  FaultInv'
<1>1. /\ Accepting(c) /\ Taken
      /\ conn'[c] = "handed" /\ \A d \in Conns : d # c => conn'[d] = conn[d]
      /\ cmdq'[i] = Append(cmdq[i], c)
      /\ \A j \in Children : j # i => cmdq'[j] = cmdq[j]
      /\ UNCHANGED <<ppc, nxt, cpc, cur, held, cli, sent, echoed>>
  BY DEF Dispatch, childVars, clientVars, FaultInv, TypeOK
<1>2. /\ conn[c] = "queued" /\ cli[c] # "new" /\ BacklogInv'
      /\ \A j \in Children : /\ c \notin held[j] \cup InCmd(j)
                             /\ InCmd(j) \subseteq Conns /\ held[j] \subseteq Conns
  BY <1>1, TakenStep
<1>3. /\ InCmd(i)' = InCmd(i) \cup {c}
      /\ \A j \in Children : j # i => InCmd(j)' = InCmd(j)
  <2>1. cmdq[i] \in Seq(Conns)
    BY DEF FaultInv, TypeOK
  <2> QED
    <3>1. InCmd(i)' = InCmd(i) \cup {c}
      BY <1>1, <2>1, AppendElements DEF InCmd
    <3>2. \A j \in Children : j # i => InCmd(j)' = InCmd(j)
      BY <1>1 DEF InCmd
    <3> QED
      BY <3>1, <3>2
<1>4. \A k, l \in DOMAIN cmdq'[i] : cmdq'[i][k] = cmdq'[i][l] => k = l
  <2> DEFINE s == cmdq[i]
  <2>1. /\ s \in Seq(Conns)
        /\ \A k, l \in DOMAIN s : s[k] = s[l] => k = l
        /\ \A k \in DOMAIN s : s[k] # c
    BY <1>2 DEF FaultInv, TypeOK, HoldInv, InCmd
  <2> HIDE DEF s
  <2>2. \A k, l \in DOMAIN Append(s, c) : Append(s, c)[k] = Append(s, c)[l] => k = l
    BY <2>1
  <2> QED
    BY <1>1, <2>2 DEF s
<1>5. StartInv' /\ EchoInv'
  BY <1>1, <1>2 DEF FaultInv, StartInv, EchoInv
<1>6. HoldInv'
  <2> SUFFICES ASSUME NEW j \in Children
               PROVE  /\ cur[j] # NoConn => conn'[cur[j]] = "handed"
                      /\ \A d \in InCmd(j)' : conn'[d] = "handed" /\ d \notin held[j]
                      /\ \A k, l \in DOMAIN cmdq'[j] : cmdq'[j][k] = cmdq'[j][l] => k = l
                      /\ \A d \in held[j] : conn'[d] \in {"handed", "served"}
                      /\ \A l \in Children \ {j} :
                          \A d \in held[j] \cup InCmd(j)' : d \notin held[l] \cup InCmd(l)'
    BY <1>1 DEF FaultInv, HoldInv
  <2>1. cur[j] # NoConn => conn'[cur[j]] = "handed"
    BY <1>1, <1>2 DEF FaultInv, HoldInv
  <2>2. \A d \in InCmd(j)' : conn'[d] = "handed" /\ d \notin held[j]
    BY <1>1, <1>2, <1>3 DEF FaultInv, HoldInv
  <2>3. \A k, l \in DOMAIN cmdq'[j] : cmdq'[j][k] = cmdq'[j][l] => k = l
    <3>1. CASE j = i
      BY <3>1, <1>4
    <3>2. CASE j # i
      BY <3>2, <1>1 DEF FaultInv, HoldInv
    <3> QED
      BY <3>1, <3>2
  <2>4. \A d \in held[j] : conn'[d] \in {"handed", "served"}
    BY <1>1, <1>2 DEF FaultInv, HoldInv
  <2>5. ASSUME NEW l \in Children \ {j}, NEW d \in held[j] \cup InCmd(j)'
        PROVE  d \notin held[l] \cup InCmd(l)'
    BY <2>5, <1>2, <1>3 DEF FaultInv, HoldInv
  <2> QED
    BY <2>1, <2>2, <2>3, <2>4, <2>5
<1>7. NoneVanishes'
  BY <1>1, <1>2, <1>3 DEF FaultInv, NoneVanishes
<1> QED
  BY <1>2, <1>5, <1>6, <1>7 DEF FaultInv

(* What read_fd takes from a child's queue, with a descriptor or without.  *)
LEMMA HeadStep ==
  ASSUME FaultInv, NEW i \in Children, cmdq[i] # <<>>,
         cmdq' = [cmdq EXCEPT ![i] = Tail(@)]
  PROVE  /\ Head(cmdq[i]) \in Conns /\ Head(cmdq[i]) \in InCmd(i)
         /\ conn[Head(cmdq[i])] = "handed"
         /\ InCmd(i)' = InCmd(i) \ {Head(cmdq[i])}
         /\ \A j \in Children : j # i => InCmd(j)' = InCmd(j)
         /\ \A j \in Children : InCmd(j) \subseteq Conns /\ held[j] \subseteq Conns
         /\ \A j \in Children : \A k, l \in DOMAIN cmdq'[j] : cmdq'[j][k] = cmdq'[j][l] => k = l
<1>1. /\ cmdq[i] \in Seq(Conns) /\ cmdq'[i] = Tail(cmdq[i])
      /\ \A j \in Children : j # i => cmdq'[j] = cmdq[j]
      /\ \A j \in Children : \A k, l \in DOMAIN cmdq[j] : cmdq[j][k] = cmdq[j][l] => k = l
  BY DEF FaultInv, TypeOK, HoldInv
<1> DEFINE s == cmdq[i]
<1>2. /\ Head(s) \in Conns /\ Head(s) \in {s[k] : k \in DOMAIN s}
      /\ {Tail(s)[k] : k \in DOMAIN Tail(s)} = {s[k] : k \in DOMAIN s} \ {Head(s)}
      /\ \A k, l \in DOMAIN Tail(s) : Tail(s)[k] = Tail(s)[l] => k = l
  BY <1>1, TailElements
<1>3. /\ InCmd(i)' = InCmd(i) \ {Head(cmdq[i])}
      /\ \A j \in Children : j # i => InCmd(j)' = InCmd(j)
  <2>1. InCmd(i)' = InCmd(i) \ {Head(cmdq[i])}
    <3>1. InCmd(i)' = {Tail(s)[k] : k \in DOMAIN Tail(s)}
      BY <1>1 DEF InCmd
    <3>2. InCmd(i) = {s[k] : k \in DOMAIN s}
      BY DEF InCmd
    <3> QED
      BY <3>1, <3>2, <1>2
  <2>2. \A j \in Children : j # i => InCmd(j)' = InCmd(j)
    BY <1>1 DEF InCmd
  <2> QED
    BY <2>1, <2>2
<1>4. \A j \in Children : InCmd(j) \subseteq Conns /\ held[j] \subseteq Conns
  BY ElementOfSeq DEF FaultInv, TypeOK, InCmd
<1>5. Head(cmdq[i]) \in Conns /\ Head(cmdq[i]) \in InCmd(i)
  BY <1>2 DEF InCmd
<1>6. conn[Head(cmdq[i])] = "handed"
  BY <1>5 DEF FaultInv, HoldInv
<1>7. \A j \in Children : \A k, l \in DOMAIN cmdq'[j] : cmdq'[j][k] = cmdq'[j][l] => k = l
  <2> TAKE j \in Children
  <2>1. CASE j = i
    BY <1>1, <1>2, <2>1
  <2>2. CASE j # i
    BY <1>1, <2>2
  <2> QED
    BY <2>1, <2>2
<1> QED
  BY <1>3, <1>4, <1>5, <1>6, <1>7

LEMMA ReadFdStep ==
  ASSUME FaultInv, TypeOK', NEW i \in Children, ReadFd(i)
  PROVE  FaultInv'
<1> PICK h : h = Head(cmdq[i])
  OBVIOUS
<1>1. /\ cpc[i] = "recv" /\ cmdq[i] # <<>> /\ ~(Cardinality(held[i]) >= FdLimit)
      /\ cmdq' = [cmdq EXCEPT ![i] = Tail(@)]
      /\ cpc'[i] = "serve" /\ cur'[i] = h /\ held'[i] = held[i] \cup {h}
      /\ \A j \in Children : j # i => /\ cpc'[j] = cpc[j]
                                      /\ cur'[j] = cur[j] /\ held'[j] = held[j]
      /\ UNCHANGED <<ppc, nxt, backlog, conn, cli, sent, echoed>>
  <2>1. Cardinality(held[i]) < FdLimit => ~(Cardinality(held[i]) >= FdLimit)
    <3>1. IsFiniteSet(held[i])
      BY DEF FaultInv, HoldInv
    <3>2. Cardinality(held[i]) \in Nat
      BY <3>1, FS_CardinalityType
    <3> QED
      BY <3>2, PoolConstants
  <2> QED
    BY <2>1 DEF ReadFd, parentVars, clientVars, FaultInv, TypeOK
<1>2. /\ h \in Conns /\ h \in InCmd(i) /\ conn[h] = "handed"
      /\ InCmd(i)' = InCmd(i) \ {h}
      /\ \A j \in Children : j # i => InCmd(j)' = InCmd(j)
      /\ \A j \in Children : InCmd(j) \subseteq Conns /\ held[j] \subseteq Conns
      /\ \A j \in Children : \A k, l \in DOMAIN cmdq'[j] : cmdq'[j][k] = cmdq'[j][l] => k = l
  BY <1>1, HeadStep
<1>3. StartInv' /\ BacklogInv' /\ EchoInv'
  BY <1>1 DEF FaultInv, StartInv, BacklogInv, EchoInv
<1>4. /\ h \notin held[i] /\ cur[i] = NoConn
      /\ \A j \in Children \ {i} : h \notin held[j] \cup InCmd(j)
  BY <1>1, <1>2 DEF FaultInv, HoldInv
<1>5. HoldInv'
  <2> SUFFICES ASSUME NEW j \in Children
               PROVE  /\ IsFiniteSet(held'[j])
                      /\ cur'[j] # NoConn <=> cpc'[j] \in {"serve", "echo"}
                      /\ cur'[j] # NoConn => cur'[j] \in held'[j] /\ conn[cur'[j]] = "handed"
                      /\ \A c \in InCmd(j)' : conn[c] = "handed" /\ c \notin held'[j]
                      /\ \A c \in held'[j] : conn[c] \in {"handed", "served"}
                      /\ \A l \in Children \ {j} :
                          \A c \in held'[j] \cup InCmd(j)' : c \notin held'[l] \cup InCmd(l)'
    BY <1>1, <1>2 DEF HoldInv
  <2>1. CASE j = i
    <3>1. IsFiniteSet(held'[j])
      <4>1. IsFiniteSet(held[i])
        BY DEF FaultInv, HoldInv
      <4>2. IsFiniteSet(held[i] \cup {h})
        BY <4>1, FS_AddElement
      <4> QED
        BY <4>2, <2>1, <1>1
    <3> QED
      BY <3>1, <2>1, <1>1, <1>2, <1>4, PoolConstants DEF FaultInv, HoldInv
  <2>2. CASE j # i
    BY <2>2, <1>1, <1>2, <1>4 DEF FaultInv, HoldInv
  <2> QED
    BY <2>1, <2>2
<1>6. NoneVanishes'
  <2> SUFFICES ASSUME NEW c \in Conns
               PROVE  /\ conn[c] = "handed" =>
                            \E j \in Children : c \in InCmd(j)' \/ cur'[j] = c
                      /\ conn[c] = "served" =>
                            \E j \in Children : c \in held'[j] \/ cpc'[j] = "dead"
                      /\ conn[c] = "dropped" =>
                             \/ ppc = "exited"
                             \/ \E j \in Children : \/ cpc'[j] = "dead"
                                                    \/ Cardinality(held'[j]) >= FdLimit
    BY <1>1 DEF NoneVanishes
  <2>1. ASSUME conn[c] = "handed" PROVE \E j \in Children : c \in InCmd(j)' \/ cur'[j] = c
    <3>1. PICK j \in Children : c \in InCmd(j) \/ cur[j] = c
      BY <2>1 DEF FaultInv, NoneVanishes
    <3> QED
      BY <3>1, <1>1, <1>2, <1>4, PoolConstants
  <2>2. ASSUME conn[c] = "served"
        PROVE  \E j \in Children : c \in held'[j] \/ cpc'[j] = "dead"
    BY <2>2, <1>1 DEF FaultInv, NoneVanishes
  <2>3. ASSUME conn[c] = "dropped", ppc # "exited"
        PROVE  \E j \in Children : cpc'[j] = "dead" \/ Cardinality(held'[j]) >= FdLimit
    <3>1. PICK j \in Children : cpc[j] = "dead" \/ Cardinality(held[j]) >= FdLimit
      BY <2>3 DEF FaultInv, NoneVanishes
    <3>2. j # i
      BY <3>1, <1>1
    <3> QED
      BY <3>1, <3>2, <1>1
  <2> QED
    BY <2>1, <2>2, <2>3
<1> QED
  BY <1>3, <1>5, <1>6 DEF FaultInv

LEMMA TruncatedStep ==
  ASSUME FaultInv, TypeOK', NEW i \in Children, ReadFdTruncated(i)
  PROVE  FaultInv'
<1> PICK h : h = Head(cmdq[i])
  OBVIOUS
<1>1. /\ cmdq[i] # <<>> /\ Cardinality(held[i]) >= FdLimit
      /\ cmdq' = [cmdq EXCEPT ![i] = Tail(@)]
      /\ conn' = [conn EXCEPT ![h] = "dropped"]
      /\ UNCHANGED <<ppc, nxt, backlog, cpc, cur, held, cli, sent, echoed>>
  BY DEF ReadFdTruncated, parentVars, childVars, clientVars
<1>2. /\ h \in Conns /\ h \in InCmd(i) /\ conn[h] = "handed"
      /\ InCmd(i)' = InCmd(i) \ {h}
      /\ \A j \in Children : j # i => InCmd(j)' = InCmd(j)
      /\ \A j \in Children : InCmd(j) \subseteq Conns /\ held[j] \subseteq Conns
      /\ \A j \in Children : \A k, l \in DOMAIN cmdq'[j] : cmdq'[j][k] = cmdq'[j][l] => k = l
  BY <1>1, HeadStep
<1>3. conn'[h] = "dropped" /\ \A d \in Conns : d # h => conn'[d] = conn[d]
  BY <1>1, <1>2 DEF FaultInv, TypeOK
<1>4. \A j \in Children : /\ h \notin held[j] /\ cur[j] # h
                          /\ j # i => h \notin InCmd(j)
  <2>1. \A j \in Children : h \notin held[j] /\ (j # i => h \notin InCmd(j))
    BY <1>2 DEF FaultInv, HoldInv
  <2>2. \A j \in Children : cur[j] # h
    BY <2>1, <1>2, PoolConstants DEF FaultInv, HoldInv
  <2> QED
    BY <2>1, <2>2
<1>5. StartInv' /\ EchoInv'
  BY <1>1, <1>2, <1>3 DEF FaultInv, StartInv, EchoInv
<1>6. BacklogInv'
  <2>1. \A k \in DOMAIN backlog : backlog[k] \in Conns
    BY ElementOfSeq DEF FaultInv, TypeOK
  <2>2. \A k \in DOMAIN backlog : backlog[k] # h
    BY <1>2 DEF FaultInv, BacklogInv
  <2> QED
    BY <2>1, <2>2, <1>1, <1>3 DEF FaultInv, BacklogInv
<1>7. HoldInv'
  <2> SUFFICES ASSUME NEW j \in Children
               PROVE  /\ cur[j] # NoConn <=> cpc[j] \in {"serve", "echo"}
                      /\ cur[j] # NoConn => cur[j] \in held[j] /\ conn'[cur[j]] = "handed"
                      /\ \A c \in InCmd(j)' : conn'[c] = "handed" /\ c \notin held[j]
                      /\ \A c \in held[j] : conn'[c] \in {"handed", "served"}
                      /\ \A l \in Children \ {j} :
                          \A c \in held[j] \cup InCmd(j)' : c \notin held[l] \cup InCmd(l)'
    BY <1>1, <1>2 DEF FaultInv, HoldInv
  <2>1. InCmd(j)' \subseteq InCmd(j) /\ h \notin InCmd(j)'
    BY <1>2, <1>4
  <2>2. \A l \in Children : InCmd(l)' \subseteq InCmd(l)
    BY <1>2
  <2> QED
    BY <2>1, <2>2, <1>2, <1>3, <1>4 DEF FaultInv, HoldInv
<1>8. NoneVanishes'
  <2> SUFFICES ASSUME NEW c \in Conns
               PROVE  /\ conn'[c] = "handed" =>
                            \E j \in Children : c \in InCmd(j)' \/ cur[j] = c
                      /\ conn'[c] = "served" =>
                            \E j \in Children : c \in held[j] \/ cpc[j] = "dead"
    BY <1>1 DEF NoneVanishes
  <2> QED
    BY <1>2, <1>3 DEF FaultInv, NoneVanishes
<1> QED
  BY <1>5, <1>6, <1>7, <1>8 DEF FaultInv

LEMMA ServeEchoStep ==
  ASSUME FaultInv, TypeOK', NEW i \in Children, ServeEcho(i)
  PROVE  FaultInv'
<1> PICK c : c = cur[i]
  OBVIOUS
<1>1. /\ cpc[i] = "echo" /\ cpc' = [cpc EXCEPT ![i] = "serve"]
      /\ echoed' = [echoed EXCEPT ![c] = @ + 1]
      /\ UNCHANGED <<ppc, nxt, backlog, conn, cur, held, cmdq, cli, sent>>
  BY DEF ServeEcho, parentVars
<1>2. c \in Conns /\ c \in held[i] /\ conn[c] = "handed"
  BY <1>1 DEF FaultInv, HoldInv, TypeOK
<1>3. /\ cpc'[i] = "serve" /\ \A j \in Children : j # i => cpc'[j] = cpc[j]
      /\ echoed'[c] = echoed[c] + 1 /\ \A d \in Conns : d # c => echoed'[d] = echoed[d]
  BY <1>1, <1>2 DEF FaultInv, TypeOK
<1>4. \A j \in Children : InCmd(j)' = InCmd(j)
  BY <1>1 DEF InCmd
<1>5. StartInv' /\ BacklogInv' /\ HoldInv'
  BY <1>1, <1>3, <1>4 DEF FaultInv, StartInv, BacklogInv, HoldInv
<1>6. NoneVanishes'
  <2>1. \A j \in Children : cpc'[j] = "dead" <=> cpc[j] = "dead"
    BY <1>1, <1>3
  <2> QED
    BY <2>1, <1>1, <1>4 DEF FaultInv, NoneVanishes
<1>7. EchoInv'
  <2>1. echoed[c] + 1 <= sent[c]
    <3>1. echoed[c] < sent[c] /\ echoed[c] \in Nat /\ sent[c] \in 0 .. MaxSend
      BY <1>1, <1>2 DEF FaultInv, EchoInv, TypeOK
    <3> QED
      BY <3>1, PoolConstants
  <2>2. \A j \in Children : j # i => cur[j] # c
    BY <1>2, PoolConstants DEF FaultInv, HoldInv
  <2>3. ASSUME NEW j \in Children, cpc'[j] = "echo" PROVE echoed'[cur[j]] < sent[cur[j]]
    <3>1. j # i /\ cpc[j] = "echo" /\ cur[j] \in Conns /\ cur[j] # c
      <4>1. j # i /\ cpc[j] = "echo"
        BY <2>3, <1>3
      <4>2. cur[j] \in Conns
        BY <4>1 DEF FaultInv, HoldInv, TypeOK
      <4> QED
        BY <4>1, <4>2, <2>2
    <3> QED
      BY <3>1, <1>3 DEF FaultInv, EchoInv
  <2>4. \A d \in Conns : /\ echoed'[d] <= sent[d]
                         /\ conn[d] = "served" =>
                              \/ cli[d] \in {"fin", "closed"} /\ echoed'[d] = sent[d]
                              \/ cli[d] = "gone"
    BY <2>1, <1>2, <1>3 DEF FaultInv, EchoInv
  <2> QED
    BY <2>3, <2>4, <1>1 DEF EchoInv
<1> QED
  BY <1>5, <1>6, <1>7 DEF FaultInv

LEMMA ServeEndStep ==
  ASSUME FaultInv, TypeOK', NEW i \in Children, ServeEnd(i)
  PROVE  FaultInv'
<1> PICK c : c = cur[i]
  OBVIOUS
<1>1. /\ cpc[i] = "serve" /\ cpc' = [cpc EXCEPT ![i] = "report"]
      /\ (cli[c] = "fin" /\ echoed[c] = sent[c]) \/ cli[c] = "gone"
      /\ conn' = [conn EXCEPT ![c] = "served"] /\ cur' = [cur EXCEPT ![i] = NoConn]
      /\ UNCHANGED <<ppc, nxt, backlog, held, cmdq, cli, sent, echoed>>
  BY DEF ServeEnd, parentVars, clientVars
<1>2. c \in Conns /\ c \in held[i] /\ conn[c] = "handed"
  BY <1>1 DEF FaultInv, HoldInv, TypeOK
<1>3. /\ cpc'[i] = "report" /\ cur'[i] = NoConn
      /\ \A j \in Children : j # i => cpc'[j] = cpc[j] /\ cur'[j] = cur[j]
      /\ conn'[c] = "served" /\ \A d \in Conns : d # c => conn'[d] = conn[d]
  BY <1>1, <1>2 DEF FaultInv, TypeOK
<1>4. \A j \in Children : /\ InCmd(j)' = InCmd(j)
                          /\ InCmd(j) \subseteq Conns /\ held[j] \subseteq Conns
                          /\ c \notin InCmd(j) /\ (j # i => c \notin held[j] /\ cur[j] # c)
  <2>1. \A j \in Children : InCmd(j)' = InCmd(j)
    BY <1>1 DEF InCmd
  <2>2. \A j \in Children : InCmd(j) \subseteq Conns /\ held[j] \subseteq Conns
    BY ElementOfSeq DEF FaultInv, TypeOK, InCmd
  <2>3. \A j \in Children : c \notin InCmd(j) /\ (j # i => c \notin held[j] /\ cur[j] # c)
    BY <1>2, PoolConstants DEF FaultInv, HoldInv
  <2> QED
    BY <2>1, <2>2, <2>3
<1>5. StartInv' /\ EchoInv'
  <2>1. StartInv'
    BY <1>1, <1>2, <1>3 DEF FaultInv, StartInv
  <2>2. \A j \in Children : cpc'[j] = "echo" => j # i /\ cpc[j] = "echo" /\ cur'[j] = cur[j]
    BY <1>3
  <2> QED
    BY <2>1, <2>2, <1>1, <1>3 DEF FaultInv, EchoInv
<1>6. BacklogInv'
  <2>1. \A k \in DOMAIN backlog : backlog[k] \in Conns
    BY ElementOfSeq DEF FaultInv, TypeOK
  <2>2. \A k \in DOMAIN backlog : backlog[k] # c
    BY <1>2 DEF FaultInv, BacklogInv
  <2> QED
    BY <2>1, <2>2, <1>1, <1>3 DEF FaultInv, BacklogInv
<1>7. HoldInv'
  <2> SUFFICES ASSUME NEW j \in Children
               PROVE  /\ cur'[j] # NoConn <=> cpc'[j] \in {"serve", "echo"}
                      /\ cur'[j] # NoConn => cur'[j] \in held[j] /\ conn'[cur'[j]] = "handed"
                      /\ \A d \in InCmd(j) : conn'[d] = "handed" /\ d \notin held[j]
                      /\ \A d \in held[j] : conn'[d] \in {"handed", "served"}
    BY <1>1, <1>4 DEF FaultInv, HoldInv
  <2>1. CASE j = i
    BY <2>1, <1>3, <1>4 DEF FaultInv, HoldInv
  <2>2. CASE j # i
    <3>1. \A d \in held[j] \cup InCmd(j) : d # c /\ conn'[d] = conn[d]
      BY <2>2, <1>3, <1>4
    <3>2. cpc'[j] = cpc[j] /\ cur'[j] = cur[j]
      BY <2>2, <1>3
    <3> QED
      BY <3>1, <3>2 DEF FaultInv, HoldInv
  <2> QED
    BY <2>1, <2>2
<1>8. NoneVanishes'
  <2> SUFFICES ASSUME NEW d \in Conns
               PROVE  /\ conn'[d] = "handed" => \E j \in Children : d \in InCmd(j) \/ cur'[j] = d
                      /\ conn'[d] = "served" => \E j \in Children : d \in held[j] \/ cpc'[j] = "dead"
                      /\ conn'[d] = "dropped" =>
                             \/ ppc = "exited"
                             \/ \E j \in Children : \/ cpc'[j] = "dead"
                                                    \/ Cardinality(held[j]) >= FdLimit
    BY <1>1, <1>4 DEF NoneVanishes
  <2>1. \A j \in Children : cpc[j] = "dead" => cpc'[j] = "dead"
    BY <1>1, <1>3
  <2>2. CASE d = c
    BY <2>2, <1>2, <1>3
  <2>3. ASSUME d # c, conn[d] = "handed" PROVE \E j \in Children : d \in InCmd(j) \/ cur'[j] = d
    <3>1. PICK j \in Children : d \in InCmd(j) \/ cur[j] = d
      BY <2>3 DEF FaultInv, NoneVanishes
    <3> QED
      BY <3>1, <2>3, <1>3
  <2> QED
    BY <2>1, <2>2, <2>3, <1>3 DEF FaultInv, NoneVanishes
<1> QED
  BY <1>5, <1>6, <1>7, <1>8 DEF FaultInv

(* A child takes with it what it has and what is queued for it.            *)
LEMMA ChildGoneStep ==
  ASSUME FaultInv, TypeOK', NEW i \in Children, ChildGone(i), cpc[i] # "none"
  PROVE  FaultInv'
<1>1. /\ cpc' = [cpc EXCEPT ![i] = "dead"] /\ held' = [held EXCEPT ![i] = {}]
      /\ cur' = [cur EXCEPT ![i] = NoConn] /\ cmdq' = [cmdq EXCEPT ![i] = <<>>]
      /\ \A c \in Conns : conn'[c] = IF c = cur[i] \/ c \in InCmd(i) THEN "dropped" ELSE conn[c]
      /\ UNCHANGED <<ppc, nxt, backlog, cli, sent, echoed>>
  BY DEF ChildGone, parentVars, clientVars
<1>2. /\ cpc'[i] = "dead" /\ held'[i] = {} /\ cur'[i] = NoConn /\ cmdq'[i] = <<>>
      /\ \A j \in Children : j # i => /\ cpc'[j] = cpc[j] /\ held'[j] = held[j]
                                      /\ cur'[j] = cur[j] /\ cmdq'[j] = cmdq[j]
  BY <1>1 DEF FaultInv, TypeOK
<1>3. InCmd(i)' = {} /\ \A j \in Children : j # i => InCmd(j)' = InCmd(j)
  BY <1>2 DEF InCmd
<1>4. \A j \in Children : InCmd(j) \subseteq Conns /\ held[j] \subseteq Conns
  BY ElementOfSeq DEF FaultInv, TypeOK, InCmd
<1>5. \A c \in Conns : \/ conn'[c] = conn[c] /\ c # cur[i] /\ c \notin InCmd(i)
                       \/ conn[c] = "handed" /\ conn'[c] = "dropped"
  BY <1>1, PoolConstants DEF FaultInv, HoldInv
<1>6. StartInv' /\ EchoInv'
  <2>1. StartInv'
    BY <1>1, <1>2, <1>5 DEF FaultInv, StartInv
  <2>2. \A j \in Children : cpc'[j] = "echo" => j # i /\ cpc[j] = "echo" /\ cur'[j] = cur[j]
    BY <1>2
  <2> QED
    BY <2>1, <2>2, <1>1, <1>5 DEF FaultInv, EchoInv
<1>7. BacklogInv'
  <2>1. \A k \in DOMAIN backlog : backlog[k] \in Conns
    BY ElementOfSeq DEF FaultInv, TypeOK
  <2> QED
    BY <2>1, <1>1, <1>5 DEF FaultInv, BacklogInv
<1>8. HoldInv'
  <2> SUFFICES ASSUME NEW j \in Children
               PROVE  /\ IsFiniteSet(held'[j])
                      /\ cur'[j] # NoConn <=> cpc'[j] \in {"serve", "echo"}
                      /\ cur'[j] # NoConn => cur'[j] \in held'[j] /\ conn'[cur'[j]] = "handed"
                      /\ \A c \in InCmd(j)' : conn'[c] = "handed" /\ c \notin held'[j]
                      /\ \A k, l \in DOMAIN cmdq'[j] : cmdq'[j][k] = cmdq'[j][l] => k = l
                      /\ \A c \in held'[j] : conn'[c] \in {"handed", "served"}
                      /\ \A l \in Children \ {j} :
                          \A c \in held'[j] \cup InCmd(j)' : c \notin held'[l] \cup InCmd(l)'
    BY DEF HoldInv
  <2>1. CASE j = i
    BY <2>1, <1>2, <1>3, FS_EmptySet
  <2>2. CASE j # i
    <3>1. \A c \in held[j] \cup InCmd(j) : c \in Conns /\ conn'[c] = conn[c]
      <4>1. \A c \in held[j] \cup InCmd(j) : c # cur[i] /\ c \notin InCmd(i)
        BY <2>2, <1>4, PoolConstants DEF FaultInv, HoldInv
      <4> QED
        BY <4>1, <1>1, <1>4
    <3>2. \A l \in Children : held'[l] \subseteq held[l] /\ InCmd(l)' \subseteq InCmd(l)
      BY <1>2, <1>3
    <3> QED
      BY <2>2, <3>1, <3>2, <1>2, <1>3 DEF FaultInv, HoldInv
  <2> QED
    BY <2>1, <2>2
<1>9. NoneVanishes'
  <2> SUFFICES ASSUME NEW c \in Conns, conn'[c] = "handed"
               PROVE  \E j \in Children : c \in InCmd(j)' \/ cur'[j] = c
    BY <1>2 DEF NoneVanishes
  <2>1. conn[c] = "handed" /\ c # cur[i] /\ c \notin InCmd(i)
    BY <1>5
  <2>2. PICK j \in Children : c \in InCmd(j) \/ cur[j] = c
    BY <2>1 DEF FaultInv, NoneVanishes
  <2> QED
    BY <2>1, <2>2, <1>2, <1>3
<1> QED
  BY <1>6, <1>7, <1>8, <1>9 DEF FaultInv

LEMMA ConnectStep ==
  ASSUME FaultInv, TypeOK', NEW c \in Conns, Connect(c)
  PROVE  FaultInv'
<1>1. /\ cli[c] = "new" /\ backlog' = Append(backlog, c)
      /\ cli'[c] = "open" /\ conn'[c] = "queued"
      /\ \A d \in Conns : d # c => cli'[d] = cli[d] /\ conn'[d] = conn[d]
      /\ UNCHANGED <<ppc, nxt, cpc, cur, held, cmdq, sent, echoed>>
  BY DEF Connect, parentVars, childVars, FaultInv, TypeOK
<1>2. conn[c] = "new"
  BY <1>1 DEF FaultInv, StartInv
<1>3. \A j \in Children : /\ InCmd(j)' = InCmd(j)
                          /\ InCmd(j) \subseteq Conns /\ held[j] \subseteq Conns
                          /\ c \notin InCmd(j) /\ c \notin held[j]
  <2>1. \A j \in Children : InCmd(j)' = InCmd(j)
    BY <1>1 DEF InCmd
  <2>2. \A j \in Children : InCmd(j) \subseteq Conns /\ held[j] \subseteq Conns
    BY ElementOfSeq DEF FaultInv, TypeOK, InCmd
  <2>3. \A j \in Children : c \notin InCmd(j) /\ c \notin held[j]
    BY <1>2 DEF FaultInv, HoldInv
  <2> QED
    BY <2>1, <2>2, <2>3
<1>4. BacklogInv'
  <2> DEFINE s == backlog
  <2>1. /\ s \in Seq(Conns)
        /\ \A k, l \in DOMAIN s : s[k] = s[l] => k = l
        /\ \A k \in DOMAIN s : s[k] \in Conns /\ s[k] # c /\ conn'[s[k]] = "queued"
    BY <1>1, <1>2, ElementOfSeq DEF FaultInv, TypeOK, BacklogInv
  <2> HIDE DEF s
  <2>2. /\ \A k, l \in DOMAIN Append(s, c) : Append(s, c)[k] = Append(s, c)[l] => k = l
        /\ \A k \in DOMAIN Append(s, c) : conn'[Append(s, c)[k]] = "queued"
    BY <2>1, <1>1
  <2> QED
    BY <1>1, <2>2 DEF s, BacklogInv
<1>5. StartInv' /\ EchoInv'
  BY <1>1 DEF FaultInv, StartInv, EchoInv
<1>6. HoldInv'
  BY <1>1, <1>3 DEF FaultInv, HoldInv
<1>7. NoneVanishes'
  BY <1>1, <1>3 DEF FaultInv, NoneVanishes
<1> QED
  BY <1>4, <1>5, <1>6, <1>7 DEF FaultInv

(* A client that sends, ends its input, sees the end or vanishes.          *)
LEMMA ClientOnlyStep ==
  ASSUME FaultInv, TypeOK', NEW c \in Conns, Send(c) \/ Shutdown(c) \/ SeeFin(c) \/ Abort(c)
  PROVE  FaultInv'
<1>1. /\ cli[c] \in {"open", "fin"}
      /\ \A d \in Conns : d # c => cli'[d] = cli[d] /\ sent'[d] = sent[d]
      /\ UNCHANGED <<ppc, nxt, backlog, conn, cpc, cur, held, cmdq, echoed>>
      /\ \/ cli[c] = "open" /\ sent'[c] = sent[c] + 1 /\ cli'[c] = "open"
         \/ cli[c] = "open" /\ sent'[c] = sent[c] /\ cli'[c] = "fin"
         \/ sent'[c] = sent[c] /\ cli'[c] \in {"closed", "gone"}
  <2>1. cli \in [Conns -> {"new", "open", "fin", "closed", "gone"}] /\ DOMAIN sent = Conns
    BY DEF FaultInv, TypeOK
  <2>2. CASE Send(c)
    BY <2>1, <2>2 DEF Send, parentVars, childVars
  <2>3. CASE Shutdown(c) \/ SeeFin(c) \/ Abort(c)
    BY <2>1, <2>3 DEF Shutdown, SeeFin, Abort, parentVars, childVars
  <2> QED
    BY <2>2, <2>3
<1>2. \A j \in Children : InCmd(j)' = InCmd(j)
  BY <1>1 DEF InCmd
<1>3. StartInv' /\ BacklogInv'
  BY <1>1 DEF FaultInv, StartInv, BacklogInv
<1>4. HoldInv' /\ NoneVanishes'
  <2>1. HoldInv'
    BY <1>1, <1>2 DEF FaultInv, HoldInv
  <2>2. NoneVanishes'
    BY <1>1, <1>2 DEF FaultInv, NoneVanishes
  <2> QED
    BY <2>1, <2>2
<1>5. EchoInv'
  <2>1. \A d \in Conns : sent[d] \in Nat /\ sent'[d] \in Nat /\ echoed[d] \in Nat
    BY <1>1 DEF FaultInv, TypeOK
  <2>2. \A d \in Conns : sent'[d] >= sent[d]
    BY <1>1, <2>1
  <2>3. \A i \in Children : cpc[i] = "echo" => cur[i] \in Conns
    BY DEF FaultInv, HoldInv, TypeOK
  <2>4. \A d \in Conns : conn[d] = "served" =>
                            \/ cli'[d] \in {"fin", "closed"} /\ echoed[d] = sent'[d]
                            \/ cli'[d] = "gone"
    BY <1>1 DEF FaultInv, EchoInv
  <2>5. \A d \in Conns : echoed[d] <= sent'[d]
    BY <2>1, <2>2 DEF FaultInv, EchoInv
  <2>6. ASSUME NEW i \in Children, cpc[i] = "echo" PROVE echoed[cur[i]] < sent'[cur[i]]
    <3>1. cur[i] \in Conns /\ echoed[cur[i]] < sent[cur[i]]
      BY <2>3, <2>6 DEF FaultInv, EchoInv
    <3> QED
      BY <3>1, <2>1, <2>2
  <2> QED
    BY <1>1, <2>4, <2>5, <2>6 DEF EchoInv
<1> QED
  BY <1>3, <1>4, <1>5 DEF FaultInv

LEMMA FaultInit == Init => FaultInv
<1> SUFFICES ASSUME Init PROVE FaultInv
  OBVIOUS
<1>1. TypeOK
  BY TypeInit
<1>2. StartInv /\ BacklogInv /\ EchoInv /\ NoneVanishes
  BY DEF Init, StartInv, BacklogInv, EchoInv, NoneVanishes
<1>3. HoldInv
  BY PoolConstants, FS_EmptySet DEF Init, HoldInv, InCmd
<1> QED
  BY <1>1, <1>2, <1>3 DEF FaultInv

LEMMA FaultStep == FaultInv /\ [Next]_vars => FaultInv'
<1> SUFFICES ASSUME FaultInv, [Next]_vars PROVE FaultInv'
  OBVIOUS
<1>type. TypeOK /\ TypeOK'
  BY TypeStep DEF FaultInv
<1>quiet. ASSUME UNCHANGED <<backlog, conn, cpc, cur, held, cmdq, cli, sent, echoed, nxt>>,
                 ppc = "exited" => ppc' = "exited"
          PROVE  FaultInv'
  BY <1>quiet, <1>type, QuietStep DEF FaultInv, StartInv, EchoInv
<1>1. CASE ForkChild
  <2>1. /\ nxt \in Children /\ nxt' = nxt + 1 /\ cpc[nxt] = "none" /\ ppc' = ppc
        /\ cpc'[nxt] \in {"none", "recv"}
        /\ \A i \in Children : i # nxt => cpc'[i] = cpc[i]
        /\ UNCHANGED <<backlog, conn, cur, held, cmdq, cli, sent, echoed>>
    BY <1>1, PoolConstants DEF ForkChild, clientVars, FaultInv, TypeOK, StartInv, Children
  <2>2. \A i \in Children : i >= nxt' => i >= nxt /\ i # nxt
    BY <2>1 DEF Children
  <2> QED
    BY <2>1, <2>2, <1>type, QuietStep DEF FaultInv, StartInv, EchoInv
<1>2. CASE StartListening \/ EpollWait \/ UNCHANGED vars
  BY <1>2, <1>quiet DEF StartListening, EpollWait, vars, parentVars, childVars, clientVars
<1>3. ASSUME NEW i \in Children, ReadReport(i) \/ ReadEof(i) PROVE FaultInv'
  BY <1>3, <1>quiet DEF ReadReport, ReadEof, SlotFreed, childVars, clientVars
<1>4. ASSUME ParentGone PROVE FaultInv'
  BY <1>4, <1>type, ParentGoneStep
<1>5. CASE StartupError
  BY <1>5, <1>4 DEF StartupError
<1>6. ASSUME NEW c \in Conns, AcceptError(c) \/ Refuse(c) \/ NoneFound(c) PROVE FaultInv'
  BY <1>6, <1>4, <1>type, TurnedAwayStep DEF AcceptError
<1>7. ASSUME NEW c \in Conns, NEW i \in Children, Dispatch(c, i) \/ DispatchToDead(c, i)
      PROVE  FaultInv'
  BY <1>7, <1>4, <1>type, DispatchStep DEF DispatchToDead
<1>8. CASE ParentStep
  BY <1>8, <1>1, <1>2, <1>3, <1>5, <1>6, <1>7 DEF ParentStep
<1>9. ASSUME NEW i \in Children, ServeRead(i) \/ Report(i) PROVE FaultInv'
  <2>1. /\ cpc'[i] \in {"echo", "recv"} /\ cpc[i] \in {"serve", "report"}
        /\ cpc'[i] = "echo" <=> cpc[i] = "serve"
        /\ cpc'[i] = "echo" => echoed[cur[i]] < sent[cur[i]]
        /\ \A j \in Children : j # i => cpc'[j] = cpc[j]
        /\ UNCHANGED <<backlog, conn, cur, held, cmdq, cli, sent, echoed, nxt, ppc>>
    BY <1>9, <1>type DEF ServeRead, Report, parentVars, clientVars, TypeOK
  <2> QED
    BY <2>1, <1>type, QuietStep DEF FaultInv, StartInv, EchoInv
<1>10. ASSUME NEW i \in Children, ReadFd(i) \/ ReadFdTruncated(i) PROVE FaultInv'
  BY <1>10, <1>type, ReadFdStep, TruncatedStep
<1>11. ASSUME NEW i \in Children, ServeEcho(i) \/ ServeEnd(i) PROVE FaultInv'
  BY <1>11, <1>type, ServeEchoStep, ServeEndStep
<1>12. ASSUME NEW i \in Children, ChildEof(i) \/ SigPipe(i) PROVE FaultInv'
  BY <1>12, <1>type, ChildGoneStep DEF ChildEof, SigPipe
<1>13. ASSUME NEW i \in Children, ChildStep(i) PROVE FaultInv'
  BY <1>13, <1>9, <1>10, <1>11, <1>12 DEF ChildStep
<1>14. ASSUME NEW c \in Conns, ClientStep(c) PROVE FaultInv'
  BY <1>14, <1>type, ConnectStep, ClientOnlyStep DEF ClientStep
<1> QED
  BY <1>2, <1>8, <1>13, <1>14 DEF Next

(* Whatever fails, a connection that was accepted is known where it is and *)
(* how far its echo has come.                                              *)
THEOREM FaultInvariant == Spec => []FaultInv
  BY FaultInit, FaultStep, PTL DEF Spec

(* A connection handed over is in the hands of one child, and in one queue *)
(* before that; it is dropped only when a child dies, its child has no     *)
(* descriptor left, or the parent ends (write_fd at line 288, read_fd at   *)
(* line 140): in every environment.                                        *)
THEOREM HolderIsUnique == Spec => []OneHolder
<1>1. FaultInv => OneHolder
  BY DEF FaultInv, HoldInv, BacklogInv, OneHolder, AtMostOne
<1> QED
  BY <1>1, FaultInvariant, PTL

(* A client that was served and did not vanish got back all that it sent,  *)
(* and no client more than it sent (lines 115-128), in every environment.  *)
THEOREM EchoIsRight == Spec => []EchoedExactly
<1>1. FaultInv => EchoedExactly
  BY DEF FaultInv, EchoInv, EchoedExactly
<1> QED
  BY <1>1, FaultInvariant, PTL

-----------------------------------------------------------------------------
(* The steps that remain when no fault occurs.                             *)

HealthyNext ==
    \/ ForkChild /\ cpc' = [cpc EXCEPT ![nxt] = "recv"]
    \/ StartListening
    \/ ppc # "exited" /\ nxt = CHILDNUMBER /\ ParentGone
    \/ EpollWait
    \/ \E c \in Conns : Refuse(c)
    \/ \E c \in Conns, i \in Children : Dispatch(c, i)
    \/ \E i \in Children :
        \/ ReadReport(i)
        \/ ReadFd(i)
        \/ ServeRead(i)
        \/ ServeEcho(i)
        \/ ServeEnd(i) /\ cli[cur[i]] = "fin" /\ echoed[cur[i]] = sent[cur[i]]
        \/ Report(i)
        \/ /\ ChildGone(i)
           /\ ppc = "exited"
           /\ cpc[i] \in {"recv", "report"}
           /\ cmdq[i] = <<>>
           /\ cur[i] = NoConn
    \/ \E c \in Conns : Connect(c) \/ Send(c) \/ Shutdown(c) \/ SeeFin(c)
    \/ UNCHANGED vars

(* What a slot's bookkeeping says about its child's queue and report.      *)
LEMMA SlotCases ==
  ASSUME PoolInv, NEW i \in Children, cpc[i] # "dead"
  PROVE  /\ Len(cmdq[i]) \in 0 .. 1 /\ repq[i] \in 0 .. 1
         /\ cpc[i] \in {"serve", "echo", "report"} =>
                cmdq[i] = <<>> /\ repq[i] = 0 /\ state[i] = 1
         /\ repq[i] > 0 => /\ cmdq[i] = <<>> /\ repq[i] = 1 /\ state[i] = 1
                           /\ cpc[i] \in {"none", "recv"}
         /\ cmdq[i] # <<>> => /\ Len(cmdq[i]) = 1 /\ repq[i] = 0 /\ state[i] = 1
                              /\ cpc[i] \in {"none", "recv"}
         /\ state[i] = 0 => /\ cmdq[i] = <<>> /\ repq[i] = 0
                            /\ cpc[i] \in {"none", "recv"}
<1>1. /\ state[i] = Len(cmdq[i]) + repq[i]
            + (IF cpc[i] \in {"serve", "echo", "report"} THEN 1 ELSE 0)
      /\ state[i] \in 0 .. 1
      /\ repq[i] \in Nat
      /\ cmdq[i] \in Seq(Conns)
      /\ cpc[i] \in {"none", "recv", "serve", "echo", "report", "dead"}
  BY DEF PoolInv, FaultInv, TypeOK, SlotInv, Outstanding
<1>2. Len(cmdq[i]) \in Nat /\ (cmdq[i] # <<>> => Len(cmdq[i]) > 0)
  BY <1>1, EmptySeq, LenProperties
<1> DEFINE n == Len(cmdq[i])
<1> HIDE DEF n
<1>3. CASE cpc[i] \in {"serve", "echo", "report"}
  <2>1. n = 0 /\ repq[i] = 0 /\ state[i] = 1 /\ n \in Nat
    BY <1>1, <1>2, <1>3 DEF n
  <2> QED
    BY <1>2, <1>3, <2>1 DEF n
<1>4. CASE cpc[i] \in {"none", "recv"}
  <2>1. state[i] = n + repq[i] /\ n \in Nat
    BY <1>1, <1>2, <1>4 DEF n
  <2>2. /\ n \in 0 .. 1 /\ repq[i] \in 0 .. 1
        /\ repq[i] > 0 => n = 0 /\ repq[i] = 1 /\ state[i] = 1
        /\ n > 0 => n = 1 /\ repq[i] = 0 /\ state[i] = 1
        /\ state[i] = 0 => n = 0 /\ repq[i] = 0
    BY <1>1, <2>1
  <2> QED
    BY <1>2, <1>4, <2>2 DEF n
<1> QED
  BY <1>1, <1>3, <1>4

LEMMA HealthyStep ==
  ASSUME PoolInv, Healthy, [Next]_vars
  PROVE  HealthyNext
<1> USE DEF PoolInv, FaultInv
<1>1. ASSUME ForkChild PROVE cpc' = [cpc EXCEPT ![nxt] = "recv"]
  BY <1>1 DEF ForkChild, Healthy
<1>2. ASSUME StartupError
      PROVE  ppc # "exited" /\ nxt = CHILDNUMBER /\ ParentGone
  BY <1>2 DEF StartupError
<1>3. ASSUME NEW c \in Conns, AcceptError(c)
      PROVE  ppc # "exited" /\ nxt = CHILDNUMBER /\ ParentGone
  BY <1>3 DEF AcceptError, Accepting, ForkOrder
<1>4. ASSUME NEW c \in Conns, NoneFound(c) PROVE FALSE
  <2>1. \A i \in Children : state[i] = 1
    BY <1>4 DEF NoneFound, Idle, TypeOK
  <2>2. Busy = Children
    BY <2>1 DEF Busy
  <2> QED
    BY <1>4, <2>2, ChildrenFinite, PoolConstants DEF NoneFound, RunNumIsBusy
<1>5. ASSUME NEW c \in Conns, NEW i \in Children, DispatchToDead(c, i)
      PROVE  FALSE
  BY <1>5 DEF DispatchToDead, Accepting, ForkOrder
<1>6. ASSUME NEW i \in Children, ReadEof(i) PROVE FALSE
  BY <1>6 DEF ReadEof, SlotFreed, ForkOrder
<1>7. ASSUME NEW i \in Children, ReadFdTruncated(i) PROVE FALSE
  <2>1. held[i] \in SUBSET Conns
    BY DEF TypeOK
  <2>2. Cardinality(held[i]) <= Cardinality(Conns)
    BY <2>1, FS_Subset DEF Healthy
  <2>3. Cardinality(held[i]) \in Nat /\ Cardinality(Conns) \in Nat
    BY <2>1, FS_Subset, FS_CardinalityType DEF Healthy
  <2> QED
    BY <1>7, <2>2, <2>3, PoolConstants DEF ReadFdTruncated, Healthy
<1>8. ASSUME NEW c \in Conns, Abort(c) PROVE FALSE
  BY <1>8 DEF Abort, Healthy
<1>9. ASSUME NEW i \in Children, ServeEnd(i)
      PROVE  cli[cur[i]] = "fin" /\ echoed[cur[i]] = sent[cur[i]]
  <2>1. cur[i] \in Conns
    BY <1>9 DEF ServeEnd, HoldInv, TypeOK
  <2> QED
    BY <1>9, <2>1 DEF ServeEnd, ConnInv
<1>10. ASSUME NEW i \in Children, ChildEof(i) \/ SigPipe(i)
       PROVE  /\ ChildGone(i) /\ ppc = "exited" /\ cmdq[i] = <<>>
              /\ cpc[i] \in {"recv", "report"} /\ cur[i] = NoConn
  <2>1. ASSUME cpc[i] = "echo" PROVE cli[cur[i]] # "gone"
    BY <2>1 DEF HoldInv, ConnInv, TypeOK
  <2>2. /\ ChildGone(i) /\ ppc = "exited" /\ cpc[i] \in {"recv", "report"}
        /\ cpc[i] = "recv" => cmdq[i] = <<>>
    BY <1>10, <2>1 DEF ChildEof, SigPipe, ParentEndOpen
  <2>3. cmdq[i] = <<>> /\ cur[i] = NoConn
    BY <2>2, SlotCases DEF HoldInv
  <2> QED
    BY <2>2, <2>3
<1> QED
  BY <1>1, <1>2, <1>3, <1>4, <1>5, <1>6, <1>7, <1>8, <1>9, <1>10
  DEF Next, ParentStep, ChildStep, ClientStep, HealthyNext

-----------------------------------------------------------------------------
(* Each part of the invariant is preserved.                                *)

LEMMA ServingStep ==
  ASSUME NEW i \in Children,
         ReadFd(i) \/ ServeRead(i) \/ ServeEcho(i) \/ ServeEnd(i) \/ Report(i)
  PROVE  /\ UNCHANGED parentVars
         /\ cpc[i] \in {"recv", "serve", "echo", "report"}
         /\ \E v \in {"recv", "serve", "echo", "report"} :
                cpc' = [cpc EXCEPT ![i] = v]
  BY DEF ReadFd, ServeRead, ServeEcho, ServeEnd, Report

LEMMA ForkOrderStep ==
  ASSUME PoolInv, HealthyNext
  PROVE  ForkOrder'
<1>same. ASSUME UNCHANGED <<ppc, nxt, state>>,
                \A j \in Children :
                    /\ cpc'[j] = "none" <=> cpc[j] = "none"
                    /\ cpc'[j] = "dead" => cpc[j] = "dead" \/ ppc = "exited"
         PROVE  ForkOrder'
  BY <1>same DEF PoolInv, FaultInv, ForkOrder
<1> USE PoolConstants DEF PoolInv, FaultInv, TypeOK, ForkOrder, Children, vars,
                          parentVars, childVars, clientVars
<1>1. CASE ForkChild /\ cpc' = [cpc EXCEPT ![nxt] = "recv"]
  BY <1>1 DEF ForkChild
<1>2. CASE StartListening
  BY <1>2 DEF StartListening
<1>3. CASE ppc # "exited" /\ nxt = CHILDNUMBER /\ ParentGone
  BY <1>3 DEF ParentGone
<1>4. CASE EpollWait
  BY <1>4 DEF EpollWait
<1>5. ASSUME NEW c \in Conns, Refuse(c) PROVE ForkOrder'
  BY <1>5 DEF Refuse
<1>6. ASSUME NEW c \in Conns, NEW i \in Children, Dispatch(c, i)
      PROVE  ForkOrder'
  <2>1. ppc = "run" /\ \A j \in Children : cpc[j] # "none"
    BY <1>6 DEF Dispatch, Accepting
  <2>2. UNCHANGED <<ppc, nxt, cpc>>
    BY <1>6 DEF Dispatch
  <2> QED
    BY <2>1, <2>2
<1>7. ASSUME NEW i \in Children, ReadReport(i) PROVE ForkOrder'
  <2>1. ppc = "run" /\ \A j \in Children : cpc[j] # "none"
    BY <1>7 DEF ReadReport, SlotFreed
  <2>2. UNCHANGED <<ppc, nxt, cpc>>
    BY <1>7 DEF ReadReport, SlotFreed
  <2> QED
    BY <2>1, <2>2
<1>8. ASSUME NEW i \in Children,
             ReadFd(i) \/ ServeRead(i) \/ ServeEcho(i) \/ ServeEnd(i) \/ Report(i)
      PROVE  ForkOrder'
  <2>1. UNCHANGED <<ppc, nxt, state>>
    BY <1>8, ServingStep
  <2>2. /\ cpc[i] \notin {"none", "dead"} /\ cpc'[i] \notin {"none", "dead"}
        /\ \A j \in Children \ {i} : cpc'[j] = cpc[j]
    <3>1. PICK v \in {"recv", "serve", "echo", "report"} :
                    cpc' = [cpc EXCEPT ![i] = v]
      BY <1>8, ServingStep
    <3>2. cpc'[i] = v /\ \A j \in Children \ {i} : cpc'[j] = cpc[j]
      BY <3>1
    <3> QED
      BY <1>8, <3>2, ServingStep
  <2> QED
    BY <1>same, <2>1, <2>2
<1>9. ASSUME NEW i \in Children, ChildGone(i), ppc = "exited",
             cpc[i] \in {"recv", "report"}
      PROVE  ForkOrder'
  <2>1. /\ UNCHANGED <<ppc, nxt, state>> /\ cpc'[i] = "dead"
        /\ \A j \in Children \ {i} : cpc'[j] = cpc[j]
    BY <1>9 DEF ChildGone
  <2> QED
    BY <1>9, <1>same, <2>1
<1>10. ASSUME NEW c \in Conns, Connect(c) \/ Send(c) \/ Shutdown(c) \/ SeeFin(c)
       PROVE  ForkOrder'
  <2>1. UNCHANGED <<parentVars, childVars>>
    BY <1>10 DEF Connect, Send, Shutdown, SeeFin
  <2> QED
    BY <1>same, <2>1
<1>11. CASE UNCHANGED vars
  BY <1>11
<1> QED
  BY <1>1, <1>2, <1>3, <1>4, <1>5, <1>6, <1>7, <1>8, <1>9, <1>10, <1>11
  DEF HealthyNext

LEMMA SlotStep ==
  ASSUME PoolInv, HealthyNext
  PROVE  SlotInv'
<1> DEFINE InHand(i) == cpc[i] \in {"serve", "echo", "report"}
<1>same. ASSUME UNCHANGED <<state, cmdq, repq>>,
                \A i \in Children : cpc'[i] # "dead" => 
                    cpc[i] # "dead" /\ (InHand(i)' <=> InHand(i))
         PROVE  SlotInv'
  BY <1>same DEF PoolInv, FaultInv, SlotInv, Outstanding
<1>one. ASSUME NEW i \in Children,
               cpc'[i] # "dead" => state'[i] = Outstanding(i)',
               \A j \in Children \ {i} :
                   /\ cpc'[j] = cpc[j] /\ state'[j] = state[j]
                   /\ cmdq'[j] = cmdq[j] /\ repq'[j] = repq[j]
        PROVE  SlotInv'
  BY <1>one DEF PoolInv, FaultInv, SlotInv, Outstanding
<1> USE DEF vars, parentVars, childVars, clientVars
<1>type. TypeOK /\ ForkOrder
  BY DEF PoolInv, FaultInv
<1>1. CASE ForkChild /\ cpc' = [cpc EXCEPT ![nxt] = "recv"]
  <2>1. nxt \in Children /\ cpc[nxt] = "none" /\ state[nxt] = 0
    BY <1>1, <1>type, PoolConstants DEF ForkChild, ForkOrder, Children, TypeOK
  <2>2. state' = state /\ UNCHANGED <<cmdq, repq>>
    BY <1>1, <1>type, <2>1 DEF ForkChild, TypeOK
  <2> QED
    BY <1>1, <1>same, <1>type, <2>1, <2>2 DEF TypeOK
<1>2. CASE StartListening \/ EpollWait \/ ParentGone
  BY <1>2, <1>same DEF StartListening, EpollWait, ParentGone
<1>3. ASSUME NEW c \in Conns, Refuse(c) PROVE SlotInv'
  BY <1>3, <1>same DEF Refuse
<1>4. ASSUME NEW c \in Conns, NEW i \in Children, Dispatch(c, i)
      PROVE  SlotInv'
  <2>1. cpc[i] # "dead" /\ state[i] = 0
    BY <1>4 DEF Dispatch, FirstIdle, Idle
  <2>2. cmdq[i] = <<>> /\ repq[i] = 0 /\ cpc[i] \in {"none", "recv"}
    BY <2>1, SlotCases
  <2>3. /\ UNCHANGED <<cpc, repq>> /\ state' = [state EXCEPT ![i] = 1]
        /\ cmdq' = [cmdq EXCEPT ![i] = Append(@, c)]
    BY <1>4 DEF Dispatch
  <2>4. cmdq'[i] = Append(cmdq[i], c) /\ state'[i] = 1
    BY <1>type, <2>3 DEF TypeOK
  <2>5. cmdq[i] \in Seq(Conns) /\ Len(cmdq[i]) = 0
    BY <1>type, <2>2, EmptySeq DEF TypeOK
  <2>len. Len(cmdq'[i]) = 1
    BY <2>4, <2>5
  <2>same. repq'[i] = 0 /\ cpc'[i] \in {"none", "recv"} /\ state'[i] = 1
    BY <2>2, <2>3, <2>4
  <2>6. state'[i] = Outstanding(i)'
    BY <2>len, <2>same DEF Outstanding
  <2>7. \A j \in Children \ {i} : cmdq'[j] = cmdq[j] /\ state'[j] = state[j]
    BY <1>type, <2>3 DEF TypeOK
  <2> QED
    BY <1>one, <2>3, <2>6, <2>7
<1>5. ASSUME NEW i \in Children, ReadReport(i) PROVE SlotInv'
  <2>1. cpc[i] # "dead" /\ repq[i] > 0
    BY <1>5, <1>type DEF ReadReport, SlotFreed, ForkOrder
  <2>2. cmdq[i] = <<>> /\ cpc[i] \in {"none", "recv"}
    BY <2>1, SlotCases
  <2>3. Len(cmdq[i]) = 0
    BY <2>2, EmptySeq
  <2>4. /\ UNCHANGED <<cpc, cmdq>> /\ repq' = [repq EXCEPT ![i] = 0]
        /\ state' = [state EXCEPT ![i] = 0]
    BY <1>5 DEF ReadReport, SlotFreed
  <2>5. /\ repq'[i] = 0 /\ state'[i] = 0
        /\ \A j \in Children \ {i} : repq'[j] = repq[j] /\ state'[j] = state[j]
    BY <1>type, <2>4 DEF TypeOK
  <2>6. state'[i] = Outstanding(i)'
    BY <2>2, <2>3, <2>4, <2>5 DEF Outstanding
  <2> QED
    BY <1>one, <2>4, <2>5, <2>6
<1>6. ASSUME NEW i \in Children, ReadFd(i) PROVE SlotInv'
  <2>1. Len(cmdq[i]) = 1 /\ repq[i] = 0 /\ state[i] = 1
    BY <1>6, SlotCases DEF ReadFd
  <2>2. cmdq[i] \in Seq(Conns)
    BY <1>type DEF TypeOK
  <2>3. Tail(cmdq[i]) = <<>>
    BY <2>1, <2>2, OneElement
  <2>4. /\ UNCHANGED <<state, repq>> /\ cpc' = [cpc EXCEPT ![i] = "serve"]
        /\ cmdq' = [cmdq EXCEPT ![i] = Tail(@)]
    BY <1>6 DEF ReadFd
  <2>5. /\ cpc'[i] = "serve" /\ cmdq'[i] = <<>>
        /\ \A j \in Children \ {i} : cpc'[j] = cpc[j] /\ cmdq'[j] = cmdq[j]
    BY <1>type, <2>3, <2>4 DEF TypeOK
  <2>6. Len(<<>>) = 0
    OBVIOUS
  <2>7. state'[i] = Outstanding(i)'
    BY <2>1, <2>4, <2>5, <2>6 DEF Outstanding
  <2> QED
    BY <1>one, <2>4, <2>5, <2>7
<1>7. ASSUME NEW i \in Children, ServeRead(i) \/ ServeEcho(i) \/ ServeEnd(i)
      PROVE  SlotInv'
  BY <1>7, <1>same, <1>type DEF ServeRead, ServeEcho, ServeEnd, TypeOK
<1>8. ASSUME NEW i \in Children, Report(i) PROVE SlotInv'
  <2>1. cmdq[i] = <<>> /\ repq[i] = 0 /\ state[i] = 1
    BY <1>8, SlotCases DEF Report
  <2>2. Len(cmdq[i]) = 0
    BY <2>1
  <2>3. /\ UNCHANGED <<state, cmdq>> /\ cpc' = [cpc EXCEPT ![i] = "recv"]
        /\ repq' = [repq EXCEPT ![i] = @ + 1]
    BY <1>8 DEF Report
  <2>4. /\ cpc'[i] = "recv" /\ repq'[i] = 1
        /\ \A j \in Children \ {i} : cpc'[j] = cpc[j] /\ repq'[j] = repq[j]
    BY <1>type, <2>1, <2>3 DEF TypeOK
  <2>5. state'[i] = Outstanding(i)'
    BY <2>1, <2>2, <2>3, <2>4 DEF Outstanding
  <2> QED
    BY <1>one, <2>3, <2>4, <2>5
<1>9. ASSUME NEW i \in Children, ChildGone(i), cmdq[i] = <<>> PROVE SlotInv'
  <2>1. /\ UNCHANGED <<state, repq>> /\ cpc' = [cpc EXCEPT ![i] = "dead"]
        /\ cmdq' = [cmdq EXCEPT ![i] = <<>>]
    BY <1>9 DEF ChildGone
  <2>2. /\ cpc'[i] = "dead"
        /\ \A j \in Children \ {i} : cpc'[j] = cpc[j] /\ cmdq'[j] = cmdq[j]
    BY <1>type, <2>1 DEF TypeOK
  <2> QED
    BY <1>one, <2>1, <2>2
<1>10. ASSUME NEW c \in Conns, Connect(c) \/ Send(c) \/ Shutdown(c) \/ SeeFin(c)
       PROVE  SlotInv'
  BY <1>10, <1>same DEF Connect, Send, Shutdown, SeeFin
<1>11. CASE UNCHANGED vars
  BY <1>11, <1>same
<1> QED
  BY <1>1, <1>2, <1>3, <1>4, <1>5, <1>6, <1>7, <1>8, <1>9, <1>10, <1>11
  DEF HealthyNext

LEMMA RunNumStep ==
  ASSUME PoolInv, HealthyNext
  PROVE  RunNumIsBusy'
<1>same. ASSUME UNCHANGED <<state, run_num>> PROVE RunNumIsBusy'
  BY <1>same DEF PoolInv, FaultInv, RunNumIsBusy, Busy
<1> USE DEF PoolInv, FaultInv, TypeOK, vars, parentVars, childVars, clientVars
<1>1. CASE ForkChild
  <2>1. nxt \in Children /\ state[nxt] = 0
    BY <1>1, PoolConstants DEF ForkChild, ForkOrder, Children
  <2> QED
    BY <1>1, <1>same, <2>1 DEF ForkChild
<1>2. ASSUME NEW c \in Conns, NEW i \in Children, Dispatch(c, i)
      PROVE  RunNumIsBusy'
  <2>1. i \notin Busy /\ Busy' = Busy \cup {i}
    BY <1>2 DEF Dispatch, FirstIdle, Idle, Busy
  <2> QED
    BY <1>2, <2>1, BusyCount DEF Dispatch, RunNumIsBusy
<1>3. ASSUME NEW i \in Children, ReadReport(i) PROVE RunNumIsBusy'
  <2>1. state[i] = 1
    BY <1>3, SlotCases DEF ReadReport, SlotFreed, ForkOrder
  <2>2. i \in Busy /\ Busy' = Busy \ {i}
    BY <1>3, <2>1 DEF ReadReport, SlotFreed, Busy
  <2> QED
    BY <1>3, <2>2, BusyCount DEF ReadReport, SlotFreed, RunNumIsBusy
<1>4. CASE UNCHANGED <<state, run_num>>
  BY <1>4, <1>same
<1> QED
  BY <1>1, <1>2, <1>3, <1>4
  DEF HealthyNext, StartListening, ParentGone, EpollWait, Refuse, ReadFd,
      ServeRead, ServeEcho, ServeEnd, Report, ChildGone, Connect, Send,
      Shutdown, SeeFin

LEMMA ConnStep ==
  ASSUME PoolInv, HealthyNext
  PROVE  ConnInv'
<1>type. TypeOK /\ ConnInv
  BY DEF PoolInv, FaultInv
<1> USE DEF vars, clientVars
<1>0. CASE UNCHANGED <<cli, conn>>
  BY <1>0, <1>type DEF ConnInv
<1>1. CASE ParentGone
  BY <1>1, <1>type DEF ParentGone, ConnInv
<1>2. ASSUME NEW c \in Conns, UNCHANGED cli,
             \E v \in {"refused", "handed", "served"} : conn' = [conn EXCEPT ![c] = v]
      PROVE  ConnInv'
  BY <1>2, <1>type DEF ConnInv, TypeOK
<1>3. ASSUME NEW c \in Conns, Refuse(c) PROVE ConnInv'
  BY <1>2, <1>3 DEF Refuse
<1>4. ASSUME NEW c \in Conns, NEW i \in Children, Dispatch(c, i)
      PROVE  ConnInv'
  BY <1>2, <1>4 DEF Dispatch
<1>5. ASSUME NEW i \in Children, ServeEnd(i) PROVE ConnInv'
  BY <1>5, <1>type DEF ServeEnd, ConnInv, TypeOK
<1>6. ASSUME NEW i \in Children, ChildGone(i) PROVE ConnInv'
  BY <1>6, <1>type DEF ChildGone, ConnInv
<1>7. ASSUME NEW c \in Conns, Connect(c) \/ Send(c) \/ Shutdown(c) \/ SeeFin(c)
      PROVE  ConnInv'
  BY <1>7, <1>type DEF Connect, Send, Shutdown, SeeFin, ConnInv, TypeOK
<1> QED
  BY <1>0, <1>1, <1>3, <1>4, <1>5, <1>6, <1>7
  DEF HealthyNext, ForkChild, StartListening, EpollWait, ReadReport, SlotFreed,
      ReadFd, ServeRead, ServeEcho, Report

-----------------------------------------------------------------------------
(* The invariant and what follows from it.                                 *)

LEMMA PoolInit == Init => PoolInv
<1> SUFFICES ASSUME Init PROVE PoolInv
  OBVIOUS
<1>1. FaultInv
  BY FaultInit
<1>2. RunNumIsBusy
  <2>1. Busy = {} /\ run_num = 0
    BY DEF Init, Busy
  <2> QED
    BY <2>1, FS_EmptySet DEF RunNumIsBusy
<1>3. ForkOrder /\ SlotInv
  <2>1. \A i \in Children : i >= 0 /\ Len(cmdq[i]) = 0
    BY EmptySeq DEF Init, Children
  <2> QED
    BY <2>1, PoolConstants DEF Init, ForkOrder, SlotInv, Outstanding
<1>4. ConnInv
  BY DEF Init, ConnInv
<1> QED
  BY <1>1, <1>2, <1>3, <1>4 DEF PoolInv

(* Without faults every reachable state satisfies PoolInv.                 *)
THEOREM PoolInvariant ==
  ASSUME Healthy
  PROVE  Spec => []PoolInv
<1>1. ASSUME PoolInv, [Next]_vars PROVE PoolInv'
  <2>1. HealthyNext
    BY <1>1, HealthyStep
  <2>2. FaultInv'
    BY <1>1, FaultStep DEF PoolInv
  <2> QED
    BY <1>1, <2>1, <2>2, ForkOrderStep, SlotStep, RunNumStep, ConnStep DEF PoolInv
<1> QED
  BY <1>1, PoolInit, PTL DEF Spec

(* The slot table agrees with the children while the parent runs, for any  *)
(* CHILDNUMBER: lines 284-297 and 301-308 never drift apart.               *)
THEOREM SlotsAreRight ==
  ASSUME Healthy
  PROVE  Spec => []SlotsMatchChildren
<1>1. PoolInv => SlotsMatchChildren
  BY DEF PoolInv, FaultInv, ForkOrder, SlotInv, SlotsMatchChildren
<1> QED
  BY <1>1, PoolInvariant, PTL

(* childs_run_num is the number of busy slots at every step (line 184).    *)
THEOREM RunNumIsRight ==
  ASSUME Healthy
  PROVE  Spec => []RunNumIsBusy
<1>1. PoolInv => RunNumIsBusy
  BY DEF PoolInv, FaultInv
<1> QED
  BY <1>1, PoolInvariant, PTL

-----------------------------------------------------------------------------
(* The refinement of WorkerPool.                                           *)

LEMMA PoolRefInit == Init => Pool!WInit
<1> SUFFICES ASSUME Init PROVE Pool!WInit
  OBVIOUS
<1>1. PoolLoad = [i \in Children |-> {}]
  BY DEF Init, PoolLoad, InCmd
<1>2. PoolFree = Children
  BY DEF Init, PoolFree, Idle
<1> QED
  BY <1>1, <1>2 DEF Init, Pool!WInit

LEMMA PoolRefStep ==
  ASSUME PoolInv, HealthyNext
  PROVE  [Pool!WNext]_Pool!wvars
<1>type. TypeOK /\ ForkOrder /\ ConnInv /\ BacklogInv /\ HoldInv
  BY DEF PoolInv, FaultInv
<1>load. PoolLoad \in [Children -> SUBSET Conns] /\ PoolFree \subseteq Children
  BY <1>type, LenProperties DEF TypeOK, PoolLoad, PoolFree, InCmd
<1>stutter. ASSUME UNCHANGED <<state, cur, cmdq, conn>>
            PROVE  UNCHANGED Pool!wvars
  BY <1>stutter DEF Pool!wvars, PoolLoad, PoolFree, Idle, InCmd
<1> USE DEF vars, parentVars, childVars, clientVars
<1>head. ASSUME NEW c \in Conns, Accepting(c) PROVE conn[c] = "queued"
  BY <1>head, <1>type DEF Accepting, BacklogInv, TypeOK
<1>1. CASE ForkChild
  <2>1. nxt \in Children /\ state[nxt] = 0
    BY <1>1, <1>type, PoolConstants DEF ForkChild, ForkOrder, Children, TypeOK
  <2> QED
    BY <1>1, <1>stutter, <1>type, <2>1 DEF ForkChild, TypeOK
<1>2. CASE StartListening \/ EpollWait \/ UNCHANGED vars
  BY <1>2, <1>stutter DEF StartListening, EpollWait
<1>3. CASE ParentGone
  <2>1. UNCHANGED <<state, cur, cmdq>>
    BY <1>3 DEF ParentGone
  <2>2. PoolLoad' = PoolLoad /\ PoolFree' = PoolFree
    BY <2>1 DEF PoolLoad, PoolFree, Idle, InCmd
  <2>3. conn' = [c \in Conns |->
                    IF conn[c] = "queued" THEN "dropped" ELSE conn[c]]
    BY <1>3, <1>type DEF ParentGone, ConnInv
  <2>4. Pool!Stop
    BY <2>2, <2>3 DEF Pool!Stop
  <2> QED
    BY <2>4 DEF Pool!WNext
<1>4. ASSUME NEW c \in Conns, Refuse(c) PROVE Pool!WNext
  <2>1. /\ conn[c] = "queued" /\ conn' = [conn EXCEPT ![c] = "refused"]
        /\ UNCHANGED <<state, cur, cmdq>>
    BY <1>4, <1>head DEF Refuse
  <2>2. Busy = Children
    <3>1. Cardinality(Busy) >= CHILDNUMBER
      BY <1>4 DEF Refuse, PoolInv, FaultInv, RunNumIsBusy
    <3> QED
      BY <1>type, <3>1, BusyCount, PoolConstants
  <2>3. PoolFree = {}
    BY <2>2 DEF Busy, PoolFree, Idle
  <2>4. PoolLoad' = PoolLoad /\ PoolFree' = PoolFree
    BY <2>1 DEF PoolLoad, PoolFree, Idle, InCmd
  <2>5. Pool!TurnAway(c)
    BY <2>1, <2>3, <2>4 DEF Pool!TurnAway
  <2> QED
    BY <2>5 DEF Pool!WNext
<1>5. ASSUME NEW c \in Conns, NEW i \in Children, Dispatch(c, i)
      PROVE  Pool!WNext
  <2>1. /\ conn[c] = "queued" /\ conn' = [conn EXCEPT ![c] = "handed"]
        /\ state' = [state EXCEPT ![i] = 1] /\ state[i] = 0
        /\ UNCHANGED cur /\ cmdq' = [cmdq EXCEPT ![i] = Append(@, c)]
    BY <1>5, <1>head DEF Dispatch, FirstIdle, Idle
  <2>2. cmdq[i] \in Seq(Conns) /\ cmdq'[i] = Append(cmdq[i], c)
    BY <1>type, <2>1 DEF TypeOK
  <2>3. InCmd(i)' = InCmd(i) \cup {c}
    BY <2>2, AppendElements DEF InCmd
  <2>4. \A j \in Children \ {i} : InCmd(j)' = InCmd(j)
    BY <1>type, <2>1 DEF InCmd, TypeOK
  <2>5. PoolLoad' = [PoolLoad EXCEPT ![i] = @ \cup {c}]
    BY <2>1, <2>3, <2>4 DEF PoolLoad
  <2>6. i \in PoolFree /\ PoolFree' = PoolFree \ {i}
    BY <1>type, <2>1 DEF PoolFree, Idle, TypeOK
  <2>7. Pool!Assign(c, i)
    BY <2>1, <2>5, <2>6 DEF Pool!Assign
  <2> QED
    BY <2>7 DEF Pool!WNext
<1>6. ASSUME NEW i \in Children, ReadReport(i) PROVE Pool!WNext
  <2>1. cpc[i] # "dead" /\ repq[i] > 0
    BY <1>6, <1>type DEF ReadReport, SlotFreed, ForkOrder
  <2>2. cmdq[i] = <<>> /\ state[i] = 1 /\ cpc[i] \in {"none", "recv"}
    BY <2>1, SlotCases
  <2>3. cur[i] = NoConn
    BY <1>type, <2>2 DEF HoldInv
  <2>4. /\ UNCHANGED <<cmdq, conn, cur>> /\ state' = [state EXCEPT ![i] = 0]
    BY <1>6 DEF ReadReport, SlotFreed
  <2>5. i \notin PoolFree /\ PoolFree' = PoolFree \cup {i}
    BY <1>type, <2>2, <2>4 DEF PoolFree, Idle, TypeOK
  <2>6. PoolLoad[i] = {} /\ PoolLoad' = PoolLoad
    BY <2>2, <2>3, <2>4 DEF PoolLoad, InCmd
  <2>7. Pool!Release(i)
    BY <2>4, <2>5, <2>6 DEF Pool!Release
  <2> QED
    BY <2>7 DEF Pool!WNext
<1>7. ASSUME NEW i \in Children, ReadFd(i) PROVE UNCHANGED Pool!wvars
  <2> DEFINE h == Head(cmdq[i])
  <2>1. Len(cmdq[i]) = 1 /\ cmdq[i] \in Seq(Conns) /\ cpc[i] = "recv"
    BY <1>7, <1>type, SlotCases DEF ReadFd, TypeOK
  <2>2. Tail(cmdq[i]) = <<>> /\ InCmd(i) = {h} /\ h \in Conns
    BY <2>1, OneElement DEF InCmd
  <2> HIDE DEF h
  <2>3. cur[i] = NoConn
    BY <1>type, <2>1 DEF HoldInv
  <2>4. /\ UNCHANGED <<conn, state>> /\ cur' = [cur EXCEPT ![i] = h]
        /\ cmdq' = [cmdq EXCEPT ![i] = Tail(@)]
    BY <1>7 DEF ReadFd, h
  <2>5. /\ cur'[i] = h /\ cmdq'[i] = <<>>
        /\ \A j \in Children \ {i} : cur'[j] = cur[j] /\ cmdq'[j] = cmdq[j]
    BY <1>type, <2>2, <2>4 DEF TypeOK
  <2>6. /\ InCmd(i)' = {} /\ h # NoConn
        /\ \A j \in Children \ {i} : InCmd(j)' = InCmd(j)
    BY <2>2, <2>5, PoolConstants DEF InCmd
  <2>7. \A j \in Children : InCmd(j)' \cup ({cur'[j]} \ {NoConn})
                              = InCmd(j) \cup ({cur[j]} \ {NoConn})
    BY <2>2, <2>3, <2>5, <2>6
  <2>8. PoolLoad' = PoolLoad
    BY <2>7 DEF PoolLoad
  <2>9. PoolFree' = PoolFree
    BY <2>4 DEF PoolFree, Idle
  <2> QED
    BY <2>4, <2>8, <2>9 DEF Pool!wvars
<1>8. ASSUME NEW i \in Children, ServeRead(i) \/ ServeEcho(i) \/ Report(i)
      PROVE  UNCHANGED Pool!wvars
  BY <1>8, <1>stutter DEF ServeRead, ServeEcho, Report
<1>9. ASSUME NEW i \in Children, ServeEnd(i) PROVE Pool!WNext
  <2> DEFINE d == cur[i]
  <2>1. d \in Conns /\ d # NoConn /\ cpc[i] = "serve" /\ conn[d] = "handed"
    BY <1>9, <1>type, PoolConstants DEF ServeEnd, HoldInv, TypeOK
  <2>2. cmdq[i] = <<>>
    BY <2>1, SlotCases
  <2>3. /\ UNCHANGED <<state, cmdq>> /\ conn' = [conn EXCEPT ![d] = "served"]
        /\ cur' = [cur EXCEPT ![i] = NoConn]
    BY <1>9 DEF ServeEnd
  <2>4. cur'[i] = NoConn /\ \A j \in Children \ {i} : cur'[j] = cur[j]
    BY <1>type, <2>3 DEF TypeOK
  <2>5. InCmd(i) = {} /\ \A j \in Children : InCmd(j)' = InCmd(j)
    BY <2>2, <2>3 DEF InCmd
  <2>6. PoolLoad[i] = {d}
    BY <2>1, <2>5 DEF PoolLoad
  <2>7. PoolLoad'[i] = {}
    BY <2>4, <2>5 DEF PoolLoad
  <2>same. \A j \in Children \ {i} : PoolLoad'[j] = PoolLoad[j]
    BY <2>4, <2>5 DEF PoolLoad
  <2>load. PoolLoad' = [PoolLoad EXCEPT ![i] = @ \ {d}]
    <3>1. PoolLoad' \in [Children -> {PoolLoad'[j] : j \in Children}]
      BY DEF PoolLoad
    <3> QED
      BY <1>load, <2>6, <2>7, <2>same, <3>1
  <2>free. PoolFree' = PoolFree
    BY <2>3 DEF PoolFree, Idle
  <2>8. Pool!Complete(d, i)
    BY <2>3, <2>6, <2>load, <2>free DEF Pool!Complete
  <2> QED
    BY <2>1, <2>8 DEF Pool!WNext
<1>10. ASSUME NEW i \in Children, ChildGone(i), cmdq[i] = <<>>, cur[i] = NoConn
       PROVE  UNCHANGED Pool!wvars
  <2>1. \A c \in Conns : c # cur[i] /\ c \notin InCmd(i)
    BY <1>10, PoolConstants DEF InCmd
  <2>2. conn' = conn
    BY <1>10, <1>type, <2>1 DEF ChildGone, TypeOK
  <2>3. /\ cmdq' = [cmdq EXCEPT ![i] = cmdq[i]] /\ state' = state
        /\ cur' = [cur EXCEPT ![i] = cur[i]]
    BY <1>10 DEF ChildGone
  <2>4. cmdq' = cmdq /\ cur' = cur
    BY <1>type, <2>3 DEF TypeOK
  <2> QED
    BY <1>stutter, <2>2, <2>3, <2>4
<1>11. ASSUME NEW c \in Conns, Connect(c) PROVE Pool!WNext
  <2>1. /\ conn[c] = "new" /\ conn' = [conn EXCEPT ![c] = "queued"]
        /\ UNCHANGED <<state, cur, cmdq>>
    BY <1>11 DEF Connect, PoolInv, FaultInv, StartInv
  <2>2. PoolLoad' = PoolLoad /\ PoolFree' = PoolFree
    BY <2>1 DEF PoolLoad, PoolFree, Idle, InCmd
  <2>3. Pool!Arrive(c)
    BY <2>1, <2>2 DEF Pool!Arrive
  <2> QED
    BY <2>3 DEF Pool!WNext
<1>12. ASSUME NEW c \in Conns, Send(c) \/ Shutdown(c) \/ SeeFin(c)
       PROVE  UNCHANGED Pool!wvars
  BY <1>12, <1>stutter DEF Send, Shutdown, SeeFin
<1> QED
  BY <1>1, <1>2, <1>3, <1>4, <1>5, <1>6, <1>7, <1>8, <1>9, <1>10, <1>11, <1>12,
     <1>stutter DEF HealthyNext

(* Without faults the server implements WorkerPool: refusal only when all  *)
(* slots are taken, one idle worker per connection, and completion of all  *)
(* that was handed over, also when the parent stops (lines 266-311).       *)
THEOREM ServerImplementsPool ==
  ASSUME Healthy
  PROVE  Spec => ImplementsPool
<1>1. ASSUME PoolInv, [Next]_vars PROVE [Pool!WNext]_Pool!wvars
  BY <1>1, HealthyStep, PoolRefStep
<1> QED
  BY <1>1, PoolRefInit, PoolInvariant, PTL DEF Spec, ImplementsPool, Pool!WSpec
=============================================================================
