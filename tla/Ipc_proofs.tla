----------------------------- MODULE Ipc_proofs -----------------------------
(* Proofs about the three programs of ipc/: the mutex producers and the    *)
(* consumer, for any number of producers and any length of the array; the  *)
(* message queue, for any set of processes, commands, queues and capacity; *)
(* the shared memory, for any set of processes and contents.  They end with*)
(* the theorems of all three together.                                     *)
EXTENDS MCIpc, SequenceTheorems, TLAPS

-----------------------------------------------------------------------------
(* The producers and the consumer.                                         *)

LEMMA PCInit == Init => PCInv
<1> USE PCConstants DEF Init, Producers, Slots, Consumer, Free
<1>1. Init => TypeOK
  BY DEF TypeOK
<1>2. Init => LockInv
  BY DEF LockInv, InLock
<1>3. Init => ValueInv
  BY DEF ValueInv
<1>4. Init => ReadInv /\ WakeInv /\ JoinInv
  BY DEF ReadInv, NoWrongValue, WakeInv, NoLostWakeup, NeverAhead, JoinInv
<1> QED
  BY <1>1, <1>2, <1>3, <1>4 DEF PCInv

-----------------------------------------------------------------------------
(* A producer's steps.                                                     *)

(* A producer about to write, or between its two increments, holds the     *)
(* mutex, so that no other producer and no consumer is in its way.         *)
LEMMA ProducerAlone ==
  ASSUME PCInv, NEW p \in Producers, ppc[p] \in InLock
  PROVE  /\ mutex = p /\ p # Consumer /\ p # Free
         /\ cpc \notin {"test", "again"}
         /\ \A q \in Producers : q # p => ppc[q] \notin InLock
  BY PCConstants DEF PCInv, LockInv, Producers, Consumer, Free

LEMMA ProducerStep ==
  ASSUME PCInv, NEW p \in Producers, Produce(p)
  PROVE  PCInv'
<1> USE PCConstants DEF Producers, Slots
<1>type. TypeOK /\ LockInv /\ ValueInv /\ ReadInv /\ JoinInv
  BY DEF PCInv
<1>wake. ~SpuriousWakeups => WakeInv
  BY DEF PCInv
<1>nat. next_val \in 0 .. MAX_PRODUCT /\ i \in 0 .. MAX_PRODUCT /\ nput \in Nat
  BY <1>type DEF TypeOK
<1>1. CASE PLock(p)
  <2>1. /\ ppc' = [ppc EXCEPT ![p] = "limit"] /\ ppc[p] = "lock"
        /\ mutex = Free /\ mutex' = p
        /\ UNCHANGED <<buf, nput, next_val, count, cpc, i, wrong, mpc, k, sum>>
    BY <1>1 DEF PLock, Goto, OnlyProducer, main
  <2>2. /\ ppc'[p] = "limit"
        /\ \A q \in Producers : q # p => ppc'[q] = ppc[q]
    BY <2>1, <1>type DEF TypeOK
  <2>3. TypeOK'
    BY <2>1, <1>type DEF TypeOK
  <2>4. LockInv'
    BY <2>1, <2>2, <1>type DEF LockInv, InLock, Consumer, Free
  <2>5. ValueInv' /\ ReadInv' /\ JoinInv'
    BY <2>1, <2>2, <1>type DEF ValueInv, ReadInv, NoWrongValue, JoinInv
  <2>6. ~SpuriousWakeups => WakeInv'
    BY <2>1, <2>2, <1>wake DEF WakeInv, NoLostWakeup, NeverAhead
  <2> QED
    BY <2>3, <2>4, <2>5, <2>6, <2>1 DEF PCInv
<1>2. CASE PLimit(p)
  <2>1. /\ ppc[p] = "limit"
        /\ UNCHANGED <<buf, nput, next_val, count, cpc, i, wrong, mpc, k, sum>>
        /\ \/ /\ next_val = MAX_PRODUCT
              /\ ppc' = [ppc EXCEPT ![p] = "done"]
              /\ mutex' = Free
           \/ /\ next_val < MAX_PRODUCT
              /\ ppc' = [ppc EXCEPT ![p] = "store"]
              /\ mutex' = mutex
    <3>1. /\ ppc[p] = "limit"
          /\ UNCHANGED <<buf, nput, next_val, count, cpc, i, wrong, mpc, k, sum>>
      BY <1>2 DEF PLimit, Goto, OnlyProducer, main
    <3>2. CASE next_val >= MAX_PRODUCT
      <4>1. ppc' = [ppc EXCEPT ![p] = "done"] /\ mutex' = Free
        BY <1>2, <3>2 DEF PLimit, Goto
      <4> QED
        BY <3>1, <3>2, <4>1, <1>nat
    <3>3. CASE ~(next_val >= MAX_PRODUCT)
      <4>1. ppc' = [ppc EXCEPT ![p] = "store"] /\ mutex' = mutex
        BY <1>2, <3>3 DEF PLimit, Goto
      <4> QED
        BY <3>1, <3>3, <4>1, <1>nat
    <3> QED
      BY <3>2, <3>3
  <2>2. /\ ppc'[p] = IF next_val = MAX_PRODUCT THEN "done" ELSE "store"
        /\ \A q \in Producers : q # p => ppc'[q] = ppc[q]
    BY <2>1, <1>type DEF TypeOK
  <2>3. TypeOK'
    <3>1. ppc' \in [Producers -> {"none", "lock", "limit", "store", "next",
                                  "value", "signal", "unlock", "tally", "done"}]
      BY <2>1, <1>type DEF TypeOK
    <3>2. mutex' \in 0 .. THREADS_NUM + 1
      BY <2>1, <1>type DEF TypeOK, Free
    <3> QED
      BY <2>1, <3>1, <3>2, <1>type DEF TypeOK
  <2>alone. /\ mutex = p /\ p # Consumer /\ p # Free
            /\ cpc \notin {"test", "again"}
            /\ \A q \in Producers : q # p => ppc[q] \notin InLock
    BY <2>1, ProducerAlone DEF InLock
  <2>4. LockInv'
    <3>1. CASE next_val = MAX_PRODUCT
      BY <3>1, <2>1, <2>2, <2>alone DEF LockInv, InLock, Consumer, Free
    <3>2. CASE next_val < MAX_PRODUCT
      BY <3>2, <2>1, <2>2, <2>alone, <1>type, <1>nat DEF LockInv, InLock
    <3> QED
      BY <3>1, <3>2, <1>nat
  <2>5. ValueInv' /\ ReadInv' /\ JoinInv'
    BY <2>1, <2>2, <1>nat, <1>type DEF ValueInv, ReadInv, NoWrongValue, JoinInv
  <2>6. ~SpuriousWakeups => WakeInv'
    BY <2>1, <2>2, <1>wake DEF WakeInv, NoLostWakeup, NeverAhead
  <2> QED
    BY <2>3, <2>4, <2>5, <2>6, <2>1 DEF PCInv
<1>3. CASE PStore(p)
  <2>1. /\ ppc' = [ppc EXCEPT ![p] = "next"] /\ ppc[p] = "store"
        /\ buf' = [buf EXCEPT ![next_val] = nput]
        /\ UNCHANGED <<mutex, nput, next_val, count, cpc, i, wrong, mpc, k, sum>>
    BY <1>3 DEF PStore, Goto, OnlyProducer, main
  <2>2. /\ ppc'[p] = "next"
        /\ \A q \in Producers : q # p => ppc'[q] = ppc[q]
    BY <2>1, <1>type DEF TypeOK
  <2>3. TypeOK'
    BY <2>1, <1>type DEF TypeOK
  <2>alone. \A q \in Producers : q # p => ppc[q] \notin InLock
    BY <2>1, ProducerAlone DEF InLock
  <2>4. LockInv'
    BY <2>1, <2>2, <1>type DEF LockInv, InLock
  <2>5. nput = next_val /\ next_val < MAX_PRODUCT
    <3>1. \A q \in Producers : ppc[q] # "value"
      BY <2>1, <2>alone DEF InLock
    <3> QED
      BY <3>1, <2>1, <1>type DEF ValueInv
  <2>6. /\ buf'[next_val] = next_val
        /\ \A x \in Slots : x < next_val => buf'[x] = buf[x]
    BY <2>1, <2>5, <1>nat, <1>type DEF TypeOK
  <2>7. ValueInv'
    BY <2>1, <2>2, <2>5, <2>6, <2>alone, <1>type DEF ValueInv, InLock
  <2>8. ReadInv' /\ JoinInv'
    BY <2>1, <2>2, <1>type DEF ReadInv, NoWrongValue, JoinInv
  <2>9. ~SpuriousWakeups => WakeInv'
    BY <2>1, <2>2, <1>wake DEF WakeInv, NoLostWakeup, NeverAhead
  <2> QED
    BY <2>3, <2>4, <2>7, <2>8, <2>9, <2>1 DEF PCInv
<1>4. CASE PNext(p)
  <2>1. /\ ppc' = [ppc EXCEPT ![p] = "value"] /\ ppc[p] = "next"
        /\ next_val' = next_val + 1
        /\ UNCHANGED <<mutex, buf, nput, count, cpc, i, wrong, mpc, k, sum>>
    BY <1>4 DEF PNext, Goto, OnlyProducer, main
  <2>2. /\ ppc'[p] = "value"
        /\ \A q \in Producers : q # p => ppc'[q] = ppc[q]
    BY <2>1, <1>type DEF TypeOK
  <2>alone. /\ cpc \notin {"test", "again"}
            /\ \A q \in Producers : q # p => ppc[q] \notin InLock
    BY <2>1, ProducerAlone DEF InLock
  <2>4. LockInv'
    BY <2>1, <2>2, <1>type DEF LockInv, InLock
  <2>5. /\ nput = next_val /\ next_val < MAX_PRODUCT
        /\ buf[next_val] = next_val
    <3>1. \A q \in Producers : ppc[q] # "value"
      BY <2>1, <2>alone DEF InLock
    <3> QED
      BY <3>1, <2>1, <1>type DEF ValueInv
  <2>3. TypeOK'
    BY <2>1, <2>5, <1>nat, <1>type DEF TypeOK
  <2>7. ValueInv'
    <3>1. \A x \in Slots : x < next_val' => buf'[x] = x
      BY <2>1, <2>5, <1>nat, <1>type DEF ValueInv
    <3>2. \A q \in Producers : q # p => ppc'[q] \notin InLock
      BY <2>2, <2>alone
    <3> QED
      BY <2>1, <2>2, <2>5, <3>1, <3>2, <1>nat DEF ValueInv, InLock
  <2>8. ReadInv'
    BY <2>1, <1>nat, <1>type DEF ReadInv, NoWrongValue
  <2>10. JoinInv'
    BY <2>1, <2>2, <2>5, <1>type DEF JoinInv
  <2>9. ASSUME ~SpuriousWakeups PROVE WakeInv'
    <3>1. NoLostWakeup'
      BY <2>1, <2>2, <2>9, <2>alone, <1>wake, <1>nat DEF WakeInv, NoLostWakeup, InLock
    <3> QED
      BY <2>1, <2>9, <3>1, <1>wake, <1>nat DEF WakeInv, NeverAhead
  <2> QED
    BY <2>3, <2>4, <2>7, <2>8, <2>9, <2>10, <2>1 DEF PCInv
<1>5. CASE PValue(p)
  <2>1. /\ ppc' = [ppc EXCEPT ![p] = "signal"] /\ ppc[p] = "value"
        /\ nput' = nput + 1
        /\ UNCHANGED <<mutex, buf, next_val, count, cpc, i, wrong, mpc, k, sum>>
    BY <1>5 DEF PValue, Goto, OnlyProducer, main
  <2>2. /\ ppc'[p] = "signal"
        /\ \A q \in Producers : q # p => ppc'[q] = ppc[q]
    BY <2>1, <1>type DEF TypeOK
  <2>3. TypeOK'
    BY <2>1, <1>type DEF TypeOK
  <2>alone. \A q \in Producers : q # p => ppc[q] \notin InLock
    BY <2>1, ProducerAlone DEF InLock
  <2>4. LockInv'
    BY <2>1, <2>2, <1>type DEF LockInv, InLock
  <2>5. ValueInv'
    BY <2>1, <2>2, <2>alone, <1>nat, <1>type DEF ValueInv, InLock
  <2>6. ReadInv' /\ JoinInv'
    BY <2>1, <2>2, <1>type DEF ReadInv, NoWrongValue, JoinInv
  <2>7. ~SpuriousWakeups => WakeInv'
    BY <2>1, <2>2, <1>wake DEF WakeInv, NoLostWakeup, NeverAhead
  <2> QED
    BY <2>3, <2>4, <2>5, <2>6, <2>7, <2>1 DEF PCInv
<1>6. CASE PSignal(p)
  <2>1. /\ ppc' = [ppc EXCEPT ![p] = "unlock"] /\ ppc[p] = "signal"
        /\ cpc' = IF cpc = "waiting" THEN "woken" ELSE cpc
        /\ UNCHANGED <<mutex, buf, nput, next_val, count, i, wrong, mpc, k, sum>>
    BY <1>6 DEF PSignal, Goto, shared, main
  <2>2. /\ ppc'[p] = "unlock"
        /\ \A q \in Producers : q # p => ppc'[q] = ppc[q]
    BY <2>1, <1>type DEF TypeOK
  <2>3. TypeOK'
    BY <2>1, <1>type DEF TypeOK
  <2>4. LockInv'
    BY <2>1, <2>2, <1>type DEF LockInv, InLock
  <2>5. ValueInv'
    BY <2>1, <2>2, <1>type DEF ValueInv
  <2>6. ReadInv'
    BY <2>1, <1>type DEF ReadInv, NoWrongValue
  <2>7. JoinInv'
    BY <2>1, <2>2, <1>type DEF JoinInv
  <2>8. ASSUME ~SpuriousWakeups PROVE WakeInv'
    <3>1. cpc = "waiting" => i < next_val
      BY <2>1, <2>8, <1>wake DEF WakeInv
    <3> QED
      BY <2>1, <2>8, <3>1, <1>wake DEF WakeInv, NoLostWakeup, NeverAhead
  <2> QED
    BY <2>3, <2>4, <2>5, <2>6, <2>7, <2>8, <2>1 DEF PCInv
<1>7. CASE PUnlock(p)
  <2>1. /\ ppc' = [ppc EXCEPT ![p] = "tally"] /\ ppc[p] = "unlock"
        /\ mutex' = Free
        /\ UNCHANGED <<buf, nput, next_val, count, cpc, i, wrong, mpc, k, sum>>
    BY <1>7 DEF PUnlock, Goto, OnlyProducer, main
  <2>2. /\ ppc'[p] = "tally"
        /\ \A q \in Producers : q # p => ppc'[q] = ppc[q]
    BY <2>1, <1>type DEF TypeOK
  <2>3. TypeOK'
    BY <2>1, <1>type DEF TypeOK, Free
  <2>alone. /\ cpc \notin {"test", "again"}
            /\ \A q \in Producers : q # p => ppc[q] \notin InLock
    BY <2>1, ProducerAlone DEF InLock
  <2>4. LockInv'
    BY <2>1, <2>2, <2>alone DEF LockInv, InLock, Consumer, Free
  <2>5. ValueInv' /\ ReadInv' /\ JoinInv'
    BY <2>1, <2>2, <1>type DEF ValueInv, ReadInv, NoWrongValue, JoinInv
  <2>6. ~SpuriousWakeups => WakeInv'
    BY <2>1, <2>2, <1>wake DEF WakeInv, NoLostWakeup, NeverAhead
  <2> QED
    BY <2>3, <2>4, <2>5, <2>6, <2>1 DEF PCInv
<1>8. CASE PTally(p)
  <2>1. /\ ppc' = [ppc EXCEPT ![p] = "lock"] /\ ppc[p] = "tally"
        /\ count' = [count EXCEPT ![p] = @ + 1]
        /\ UNCHANGED <<mutex, buf, nput, next_val, cpc, i, wrong, mpc, k, sum>>
    BY <1>8 DEF PTally, Goto, shared, OnlyProducer, main
  <2>2. /\ ppc'[p] = "lock"
        /\ \A q \in Producers : q # p => ppc'[q] = ppc[q]
    BY <2>1, <1>type DEF TypeOK
  <2>3. TypeOK'
    BY <2>1, <1>type DEF TypeOK
  <2>4. LockInv'
    BY <2>1, <2>2, <1>type DEF LockInv, InLock
  <2>5. ValueInv' /\ ReadInv' /\ JoinInv'
    BY <2>1, <2>2, <1>type DEF ValueInv, ReadInv, NoWrongValue, JoinInv
  <2>6. ~SpuriousWakeups => WakeInv'
    BY <2>1, <2>2, <1>wake DEF WakeInv, NoLostWakeup, NeverAhead
  <2> QED
    BY <2>3, <2>4, <2>5, <2>6, <2>1 DEF PCInv
<1> QED
  BY <1>1, <1>2, <1>3, <1>4, <1>5, <1>6, <1>7, <1>8 DEF Produce

-----------------------------------------------------------------------------
(* The consumer's steps.                                                   *)

LEMMA ConsumerStep ==
  ASSUME PCInv, Consume \/ \E t \in Wakeable : SpuriousWakeup(t)
  PROVE  PCInv'
<1> USE PCConstants DEF Producers, Slots
<1>type. TypeOK /\ LockInv /\ ValueInv /\ ReadInv /\ JoinInv
  BY DEF PCInv
<1>wake. ~SpuriousWakeups => WakeInv
  BY DEF PCInv
<1>nat. next_val \in 0 .. MAX_PRODUCT /\ i \in 0 .. MAX_PRODUCT
  BY <1>type DEF TypeOK
<1>same. UNCHANGED <<buf, nput, next_val, count, ppc, mpc, k, sum>>
  BY DEF Consume, CLock, CDone, CTest, CRelock, CAgain, CRead,
         SpuriousWakeup, OnlyConsumer, main
<1>value. ValueInv' /\ JoinInv'
  BY <1>same, <1>type DEF ValueInv, JoinInv
<1>mpc. cpc # "none" => mpc' # "consumer"
  BY <1>same, <1>type DEF ReadInv
<1>1. CASE CLock
  <2>1. /\ cpc = "lock" /\ cpc' = "test" /\ mutex = Free /\ mutex' = Consumer
        /\ i < MAX_PRODUCT /\ i' = i /\ wrong' = wrong
    BY <1>1 DEF CLock
  <2>2. TypeOK'
    BY <2>1, <1>same, <1>type DEF TypeOK, Consumer
  <2>3. LockInv'
    BY <2>1, <1>same, <1>type DEF LockInv, Consumer, Free
  <2>4. ReadInv'
    BY <2>1, <1>type, <1>mpc DEF ReadInv, NoWrongValue
  <2>5. ~SpuriousWakeups => WakeInv'
    BY <2>1, <1>same, <1>wake DEF WakeInv, NoLostWakeup, NeverAhead
  <2> QED
    BY <2>2, <2>3, <2>4, <2>5, <1>value DEF PCInv
<1>2. CASE CDone
  <2>1. /\ cpc = "lock" /\ cpc' = "done"
        /\ mutex' = mutex /\ i' = i /\ wrong' = wrong
    BY <1>2 DEF CDone
  <2>2. TypeOK'
    BY <2>1, <1>same, <1>type DEF TypeOK
  <2>3. LockInv'
    BY <2>1, <1>same, <1>type DEF LockInv
  <2>4. ReadInv'
    BY <2>1, <1>type, <1>mpc DEF ReadInv, NoWrongValue
  <2>5. ~SpuriousWakeups => WakeInv'
    BY <2>1, <1>same, <1>wake DEF WakeInv, NoLostWakeup, NeverAhead
  <2> QED
    BY <2>2, <2>3, <2>4, <2>5, <1>value DEF PCInv
<1>3. CASE CTest
  <2>1. /\ cpc = "test" /\ i' = i /\ wrong' = wrong
        /\ \/ i = next_val /\ cpc' = "waiting" /\ mutex' = Free
           \/ i # next_val /\ cpc' = "again" /\ mutex' = mutex
    BY <1>3 DEF CTest
  <2>own. mutex = Consumer /\ \A p \in Producers : ppc[p] \notin InLock
    BY <2>1, <1>type DEF LockInv, Consumer
  <2>2. TypeOK'
    BY <2>1, <1>same, <1>type DEF TypeOK, Free
  <2>3. LockInv'
    BY <2>1, <2>own, <1>same, <1>type DEF LockInv, Consumer, Free
  <2>4. ReadInv'
    BY <2>1, <1>type, <1>mpc DEF ReadInv, NoWrongValue
  <2>5. ASSUME ~SpuriousWakeups PROVE WakeInv'
    BY <2>1, <2>5, <2>own, <1>same, <1>wake, <1>nat
    DEF WakeInv, NoLostWakeup, NeverAhead, InLock
  <2> QED
    BY <2>2, <2>3, <2>4, <2>5, <1>value DEF PCInv
<1>4. CASE \E t \in Wakeable : SpuriousWakeup(t)
  <2>1. /\ cpc = "waiting" /\ cpc' = "woken" /\ SpuriousWakeups
        /\ mutex' = mutex /\ i' = i /\ wrong' = wrong
    BY <1>4 DEF SpuriousWakeup, Wakeable
  <2>2. TypeOK'
    BY <2>1, <1>same, <1>type DEF TypeOK
  <2>3. LockInv'
    BY <2>1, <1>same, <1>type DEF LockInv
  <2>4. ReadInv'
    BY <2>1, <1>type, <1>mpc DEF ReadInv, NoWrongValue
  <2> QED
    BY <2>1, <2>2, <2>3, <2>4, <1>value DEF PCInv
<1>5. CASE CRelock
  <2>1. /\ cpc = "woken" /\ cpc' = "again" /\ mutex = Free /\ mutex' = Consumer
        /\ i' = i /\ wrong' = wrong
    BY <1>5 DEF CRelock
  <2>2. TypeOK'
    BY <2>1, <1>same, <1>type DEF TypeOK, Consumer
  <2>3. LockInv'
    BY <2>1, <1>same, <1>type DEF LockInv, Consumer, Free
  <2>4. ReadInv'
    BY <2>1, <1>type, <1>mpc DEF ReadInv, NoWrongValue
  <2>5. ~SpuriousWakeups => WakeInv'
    BY <2>1, <1>same, <1>wake DEF WakeInv, NoLostWakeup, NeverAhead
  <2> QED
    BY <2>2, <2>3, <2>4, <2>5, <1>value DEF PCInv
<1>6. CASE CAgain
  <2>1. /\ cpc = "again" /\ wrong' = wrong
        /\ \/ i < next_val /\ mutex' = Free /\ cpc' = "read" /\ i' = i
           \/ ~(i < next_val) /\ mutex' = mutex /\ cpc' = "lock" /\ i' = i + 1
    BY <1>6 DEF CAgain
  <2>own. mutex = Consumer /\ i < MAX_PRODUCT
    BY <2>1, <1>type DEF LockInv, ReadInv
  <2>2. TypeOK'
    <3>1. mutex' \in 0 .. THREADS_NUM + 1 /\ cpc' \in {"read", "lock"}
      BY <2>1, <1>type DEF TypeOK, Free
    <3>2. i' \in 0 .. MAX_PRODUCT
      BY <2>1, <2>own, <1>nat
    <3> QED
      BY <2>1, <3>1, <3>2, <1>same, <1>type DEF TypeOK
  <2>less. ~SpuriousWakeups => i < next_val
    BY <2>1, <1>wake DEF WakeInv
  <2>3. LockInv'
    <3>1. CASE i < next_val
      BY <3>1, <2>1, <2>own, <1>same, <1>type DEF LockInv, Consumer, Free
    <3>2. CASE ~(i < next_val)
      BY <3>2, <2>1, <2>less, <1>same, <1>type DEF LockInv
    <3> QED
      BY <3>1, <3>2
  <2>4. ReadInv'
    BY <2>1, <1>same, <1>type, <1>mpc DEF ReadInv, NoWrongValue
  <2>5. ~SpuriousWakeups => WakeInv'
    BY <2>1, <2>less, <1>same, <1>wake DEF WakeInv, NoLostWakeup, NeverAhead
  <2> QED
    BY <2>2, <2>3, <2>4, <2>5, <1>value DEF PCInv
<1>7. CASE CRead
  <2>1. /\ cpc = "read" /\ cpc' = "lock" /\ mutex' = mutex /\ i' = i + 1
        /\ wrong' = IF buf[i] = i THEN wrong ELSE wrong \cup {i}
    BY <1>7 DEF CRead
  <2>2. i < next_val /\ i < MAX_PRODUCT
    BY <2>1, <1>type DEF ReadInv
  <2>3. buf[i] = i
    BY <2>2, <1>type, <1>nat DEF ValueInv
  <2>4. TypeOK'
    BY <2>1, <2>2, <2>3, <1>same, <1>type DEF TypeOK
  <2>5. LockInv'
    BY <2>1, <1>same, <1>type DEF LockInv
  <2>6. ReadInv'
    BY <2>1, <2>3, <1>type, <1>mpc DEF ReadInv, NoWrongValue
  <2>7. ~SpuriousWakeups => WakeInv'
    BY <2>1, <2>2, <1>same, <1>nat DEF WakeInv, NoLostWakeup, NeverAhead
  <2> QED
    BY <2>4, <2>5, <2>6, <2>7, <1>value DEF PCInv
<1> QED
  BY <1>1, <1>2, <1>3, <1>4, <1>5, <1>6, <1>7 DEF Consume

-----------------------------------------------------------------------------
(* The steps of main.                                                      *)

LEMMA MainStep ==
  ASSUME PCInv, Main
  PROVE  PCInv'
<1> USE PCConstants DEF Producers, Slots
<1>type. TypeOK /\ LockInv /\ ValueInv /\ ReadInv /\ JoinInv
  BY DEF PCInv
<1>wake. ~SpuriousWakeups => WakeInv
  BY DEF PCInv
<1>same. UNCHANGED <<mutex, buf, nput, next_val, count, i, wrong>>
  BY DEF Main, CreateConsumer, CreateProducer, JoinProducer, JoinConsumer, shared
<1>1. CASE CreateConsumer
  <2>1. /\ mpc = "consumer" /\ mpc' = "producers" /\ cpc' = "lock"
        /\ UNCHANGED <<ppc, k, sum>>
    BY <1>1 DEF CreateConsumer
  <2>2. cpc = "none"
    BY <2>1, <1>type DEF ReadInv
  <2>3. TypeOK'
    BY <2>1, <1>same, <1>type DEF TypeOK
  <2>4. LockInv'
    BY <2>1, <2>2, <1>same, <1>type DEF LockInv
  <2>5. ValueInv' /\ ReadInv' /\ JoinInv'
    BY <2>1, <1>same, <1>type DEF ValueInv, ReadInv, NoWrongValue, JoinInv
  <2>6. ~SpuriousWakeups => WakeInv'
    BY <2>1, <1>same, <1>wake DEF WakeInv, NoLostWakeup, NeverAhead
  <2> QED
    BY <2>3, <2>4, <2>5, <2>6, <1>same DEF PCInv
<1>2. CASE CreateProducer /\ k < THREADS_NUM
  <2>1. /\ mpc = "producers" /\ mpc' = mpc /\ k' = k + 1
        /\ ppc[k] = "none" /\ ppc' = [ppc EXCEPT ![k] = "lock"]
        /\ UNCHANGED <<cpc, sum>>
    BY <1>2 DEF CreateProducer, Goto
  <2>2. /\ k \in Producers
        /\ ppc'[k] = "lock"
        /\ \A q \in Producers : q # k => ppc'[q] = ppc[q]
    BY <2>1, <1>2, <1>type DEF TypeOK
  <2>3. TypeOK'
    BY <2>1, <2>2, <1>same, <1>type DEF TypeOK
  <2>4. LockInv'
    BY <2>1, <2>2, <1>same, <1>type DEF LockInv, InLock
  <2>5. ValueInv'
    BY <2>1, <2>2, <1>same, <1>type DEF ValueInv
  <2>6. ReadInv' /\ JoinInv'
    BY <2>1, <2>2, <1>same, <1>type DEF ReadInv, NoWrongValue, JoinInv
  <2>7. ~SpuriousWakeups => WakeInv'
    BY <2>1, <2>2, <1>same, <1>wake DEF WakeInv, NoLostWakeup, NeverAhead
  <2> QED
    BY <2>3, <2>4, <2>5, <2>6, <2>7, <1>same DEF PCInv
<1>3. CASE \/ CreateProducer /\ ~(k < THREADS_NUM)
           \/ JoinProducer
           \/ JoinConsumer
  <2>1. UNCHANGED <<ppc, cpc>> /\ mpc' # "consumer"
    BY <1>3 DEF CreateProducer, JoinProducer, JoinConsumer
  <2>2. /\ mpc' \in {"join", "last", "exit"}
        /\ k' \in 0 .. THREADS_NUM
        /\ sum' \in Nat
    <3>1. CASE CreateProducer /\ ~(k < THREADS_NUM)
      BY <3>1, <1>type DEF CreateProducer, TypeOK
    <3>2. CASE JoinProducer
      BY <3>2, <1>type DEF JoinProducer, TypeOK
    <3>3. CASE JoinConsumer
      BY <3>3, <1>type DEF JoinConsumer, TypeOK
    <3> QED
      BY <1>3, <3>1, <3>2, <3>3
  <2>3. TypeOK'
    BY <2>1, <2>2, <1>same, <1>type DEF TypeOK
  <2>4. LockInv' /\ ValueInv' /\ ReadInv'
    BY <2>1, <1>same, <1>type DEF LockInv, ValueInv, ReadInv, NoWrongValue
  <2>5. JoinInv'
    <3>1. CASE CreateProducer /\ ~(k < THREADS_NUM)
      BY <3>1, <2>1, <1>same, <1>type DEF CreateProducer, JoinInv, TypeOK
    <3>2. CASE JoinProducer
      BY <3>2, <2>1, <1>same, <1>type DEF JoinProducer, JoinInv, TypeOK
    <3>3. CASE JoinConsumer
      BY <3>3, <2>1, <1>same, <1>type DEF JoinConsumer, JoinInv
    <3> QED
      BY <1>3, <3>1, <3>2, <3>3
  <2>6. ~SpuriousWakeups => WakeInv'
    BY <2>1, <1>same, <1>wake DEF WakeInv, NoLostWakeup, NeverAhead
  <2> QED
    BY <2>3, <2>4, <2>5, <2>6 DEF PCInv
<1> QED
  BY <1>1, <1>2, <1>3 DEF Main

-----------------------------------------------------------------------------
(* The theorems.                                                           *)

LEMMA PCStep == PCInv /\ [Next]_vars => PCInv'
<1> SUFFICES ASSUME PCInv, [Next]_vars PROVE PCInv'
  OBVIOUS
<1>1. CASE UNCHANGED vars
  BY <1>1 DEF vars, shared, main, PCInv, TypeOK, LockInv, ValueInv, ReadInv,
              WakeInv, JoinInv, NoWrongValue, NoLostWakeup, NeverAhead
<1>2. ASSUME NEW p \in Producers, Produce(p) PROVE PCInv'
  BY <1>2, ProducerStep
<1>3. CASE Consume \/ \E t \in Wakeable : SpuriousWakeup(t)
  BY <1>3, ConsumerStep
<1>4. CASE Main
  BY <1>4, MainStep
<1> QED
  BY <1>1, <1>2, <1>3, <1>4 DEF Next

(* The locks, the values and the wakeups are as the code means them to be, *)
(* with any number of producers (lines 25-93).                             *)
THEOREM PCInvariant == Spec => []PCInv
  BY PCInit, PCStep, PTL DEF Spec

(* The consumer's check outside the mutex never fails (lines 56-57).       *)
THEOREM ValuesAreRight == Spec => []NoWrongValue
<1>1. PCInv => NoWrongValue
  BY DEF PCInv, ReadInv
<1> QED
  BY <1>1, PCInvariant, PTL

(* The unlocked read never meets a write of the same element (lines 34 and *)
(* 56), with or without spurious wakeups.                                  *)
THEOREM ReadsAreQuiet == Spec => []ReadIsQuiet
<1>1. PCInv => ReadIsQuiet
  BY DEF PCInv, ReadInv, ReadIsQuiet, TypeOK
<1> QED
  BY <1>1, PCInvariant, PTL

(* If only signals wake the consumer, none that it needs is lost.          *)
THEOREM WakeupsAreKept == ~SpuriousWakeups /\ Spec => []NoLostWakeup
<1> SUFFICES ASSUME ~SpuriousWakeups PROVE Spec => []NoLostWakeup
  OBVIOUS
<1>1. PCInv => NoLostWakeup
  BY DEF PCInv, WakeInv
<1> QED
  BY <1>1, PCInvariant, PTL

(* What the joins find: an array that is full and in order, and two equal  *)
(* counters (lines 82-89).                                                 *)
LEMMA FullArray ==
  ASSUME PCInv, mpc \in {"last", "exit"}
  PROVE  /\ nput = next_val /\ next_val = MAX_PRODUCT
         /\ \A x \in Slots : buf[x] = x
<1>1. \A p \in Producers : ppc[p] = "done"
  BY DEF PCInv, JoinInv
<1>2. 0 \in Producers
  BY PCConstants DEF Producers
<1>3. nput = next_val /\ next_val = MAX_PRODUCT
  BY <1>1, <1>2 DEF PCInv, JoinInv, ValueInv
<1> QED
  BY <1>3, PCConstants DEF PCInv, ValueInv, Slots

(* Main's joins find an array that is full and in order (lines 82-89).     *)
THEOREM ArrayIsFull ==
  Spec => [](mpc \in {"last", "exit"} =>
                /\ nput = next_val /\ next_val = MAX_PRODUCT
                /\ \A x \in Slots : buf[x] = x)
  BY FullArray, PCInvariant, PTL

(* Without spurious wakeups the program implements the safety part of      *)
(* OrderedLog.                                                             *)
THEOREM ProgramImplementsLog == ~SpuriousWakeups /\ Spec => Log!LSafe
<1> SUFFICES ASSUME ~SpuriousWakeups PROVE Spec => Log!LSafe
  OBVIOUS
<1> USE DEF Log!LNext, Log!Make, Log!Take
<1>1. Init => Log!LInit
  BY DEF Init, Log!LInit
<1>2. ASSUME PCInv, [Next]_vars PROVE [Log!LNext]_<<next_val, i>>
  <2>1. CASE UNCHANGED vars
    BY <2>1 DEF vars, shared
  <2>2. ASSUME NEW p \in Producers, PNext(p) PROVE Log!Make
    BY <2>2, <1>2 DEF PNext, Goto, OnlyProducer, PCInv, ValueInv
  <2>3. ASSUME NEW p \in Producers, Produce(p), ~PNext(p)
        PROVE  UNCHANGED <<next_val, i>>
    BY <2>3 DEF Produce, PLock, PLimit, PStore, PValue, PSignal, PUnlock,
                PTally, OnlyProducer, shared
  <2>4. CASE CRead
    BY <2>4, <1>2 DEF CRead, OnlyConsumer, PCInv, ReadInv
  <2>5. CASE CAgain
    BY <2>5, <1>2 DEF CAgain, OnlyConsumer, PCInv, WakeInv
  <2>6. CASE CLock \/ CDone \/ CTest \/ CRelock \/ \E t \in Wakeable : SpuriousWakeup(t)
    BY <2>6 DEF CLock, CDone, CTest, CRelock, SpuriousWakeup, OnlyConsumer
  <2>7. CASE Main
    BY <2>7 DEF Main, CreateConsumer, CreateProducer, JoinProducer,
                JoinConsumer, shared
  <2> QED
    BY <1>2, <2>1, <2>2, <2>3, <2>4, <2>5, <2>6, <2>7 DEF Next, Consume
<1> QED
  BY <1>1, <1>2, PCInvariant, PTL DEF Spec, Log!LSafe

-----------------------------------------------------------------------------
(* The totals.                                                             *)

(* What p has put into the array, its tally still outstanding included.    *)
Made(p) == count[p] + (IF ppc[p] \in {"signal", "unlock", "tally"} THEN 1 ELSE 0)

(* subtotal[p]: what the producers below p have made.                      *)
AddsUp(subtotal) ==
    /\ subtotal[0] = 0
    /\ \A p \in Producers : subtotal[p + 1] = subtotal[p] + Made(p)
    /\ subtotal[THREADS_NUM] = nput
    /\ mpc \in {"consumer", "producers"} => sum = 0
    /\ mpc = "join" => sum = subtotal[k]
    /\ mpc \in {"last", "exit"} => sum = subtotal[THREADS_NUM]

Subtotals == [0 .. THREADS_NUM -> Nat]

TotalsInv == \E subtotal \in Subtotals : AddsUp(subtotal)

LEMMA TotalsInit == Init => TotalsInv
<1> SUFFICES ASSUME Init PROVE TotalsInv
  OBVIOUS
<1> DEFINE zero == [p \in 0 .. THREADS_NUM |-> 0]
<1>1. zero \in Subtotals
  BY DEF Subtotals
<1>2. AddsUp(zero)
  BY PCConstants DEF Init, AddsUp, Made, Producers
<1> QED
  BY <1>1, <1>2 DEF TotalsInv

(* A producer that put one more into the array raises the subtotals behind *)
(* it; main, which has joined only producers that are done, has added up   *)
(* none of these.                                                          *)
LEMMA TotalsValue ==
  ASSUME PCInv, TotalsInv, NEW p \in Producers, PValue(p)
  PROVE  TotalsInv'
<1> USE PCConstants DEF Producers
<1>type. TypeOK /\ JoinInv
  BY DEF PCInv
<1>step. /\ ppc[p] = "value" /\ ppc' = [ppc EXCEPT ![p] = "signal"]
         /\ nput' = nput + 1
         /\ UNCHANGED <<count, mpc, k, sum>>
  BY DEF PValue, Goto, OnlyProducer, main
<1>1. PICK old \in Subtotals : AddsUp(old)
  BY DEF TotalsInv
<1> DEFINE new == [q \in 0 .. THREADS_NUM |-> IF q > p THEN old[q] + 1 ELSE old[q]]
<1>old. \A q \in 0 .. THREADS_NUM : old[q] \in Nat
  BY DEF Subtotals
<1>made. /\ \A q \in Producers : Made(q) \in Nat
         /\ Made(p)' = Made(p) + 1
         /\ \A q \in Producers : q # p => Made(q)' = Made(q)
  BY <1>type, <1>step DEF TypeOK, Made
<1>2. new \in Subtotals
  BY <1>old DEF Subtotals
<1>3. /\ new[0] = 0
      /\ new[THREADS_NUM] = nput'
  BY <1>1, <1>step DEF AddsUp
<1>4. ASSUME NEW q \in Producers PROVE new[q + 1] = new[q] + Made(q)'
  <2>1. old[q + 1] = old[q] + Made(q)
    BY <1>1 DEF AddsUp
  <2>2. q \in 0 .. THREADS_NUM /\ q + 1 \in 0 .. THREADS_NUM
    OBVIOUS
  <2> QED
    BY <2>1, <2>2, <1>old, <1>made
<1>5. mpc = "join" => ~(k > p)
  BY <1>type, <1>step DEF JoinInv, TypeOK
<1>6. mpc \notin {"last", "exit"}
  BY <1>type, <1>step DEF JoinInv
<1>7. AddsUp(new)'
  BY <1>1, <1>3, <1>4, <1>5, <1>6, <1>step, <1>type DEF AddsUp, TypeOK
<1> QED
  BY <1>2, <1>7 DEF TotalsInv

(* Every other step of a producer or the consumer leaves what was made,    *)
(* and main's steps add up what a finished producer counted.               *)
LEMMA TotalsStep ==
  ASSUME PCInv, TotalsInv, [Next]_vars
  PROVE  TotalsInv'
<1> USE PCConstants DEF Producers
<1>type. TypeOK /\ JoinInv
  BY DEF PCInv
<1>1. PICK old \in Subtotals : AddsUp(old)
  BY DEF TotalsInv
<1>old. \A q \in 0 .. THREADS_NUM : old[q] \in Nat
  BY DEF Subtotals
<1>2. ASSUME \A q \in Producers : Made(q)' = Made(q),
             UNCHANGED <<nput, mpc, k, sum>>
      PROVE  TotalsInv'
  <2>1. AddsUp(old)'
    BY <1>1, <1>2 DEF AddsUp
  <2> QED
    BY <2>1 DEF TotalsInv
<1>3. CASE UNCHANGED vars
  BY <1>2, <1>3 DEF vars, shared, main, Made
<1>4. ASSUME NEW p \in Producers, Produce(p), ~PValue(p) PROVE TotalsInv'
  <2>1. UNCHANGED <<nput, mpc, k, sum>>
    BY <1>4 DEF Produce, PLock, PLimit, PStore, PNext, PSignal, PUnlock, PTally,
                OnlyProducer, shared, main
  <2>2. Made(p)' = Made(p)
    <3>1. CASE PTally(p)
      BY <3>1, <1>type DEF PTally, Goto, Made, TypeOK
    <3>2. CASE PSignal(p) \/ PUnlock(p)
      BY <3>2, <1>type DEF PSignal, PUnlock, Goto, Made, TypeOK
    <3>3. CASE PLock(p) \/ PLimit(p) \/ PStore(p) \/ PNext(p)
      BY <3>3, <1>type DEF PLock, PLimit, PStore, PNext, Goto, Made, TypeOK
    <3> QED
      BY <1>4, <3>1, <3>2, <3>3 DEF Produce
  <2>3. \A q \in Producers : q # p => Made(q)' = Made(q)
    BY <1>4, <1>type DEF Produce, PLock, PLimit, PStore, PNext, PSignal, PUnlock,
                PTally, Goto, Made, TypeOK, shared
  <2> QED
    BY <2>1, <2>2, <2>3, <1>2
<1>5. CASE Consume \/ \E t \in Wakeable : SpuriousWakeup(t)
  BY <1>5, <1>2 DEF Consume, CLock, CDone, CTest, CRelock, CAgain, CRead, SpuriousWakeup,
                    OnlyConsumer, Made, main
<1>6. CASE Main
  <2>1. \A q \in Producers : Made(q)' = Made(q)
    BY <1>6, <1>type DEF Main, CreateConsumer, CreateProducer, JoinProducer, JoinConsumer,
                         Goto, Made, TypeOK
  <2>2. nput' = nput
    BY <1>6 DEF Main, CreateConsumer, CreateProducer, JoinProducer, JoinConsumer, shared
  <2>3. /\ mpc' \in {"consumer", "producers"} => sum' = 0
        /\ mpc' = "join" => sum' = old[k']
        /\ mpc' \in {"last", "exit"} => sum' = old[THREADS_NUM]
    <3>1. CASE CreateConsumer
      BY <3>1, <1>1 DEF CreateConsumer, AddsUp
    <3>2. CASE CreateProducer
      BY <3>2, <1>1, <1>type DEF CreateProducer, AddsUp, TypeOK
    <3>3. CASE JoinProducer /\ k < THREADS_NUM
      <4>1. /\ mpc = "join" /\ mpc' = "join" /\ k' = k + 1
            /\ ppc[k] = "done" /\ sum' = sum + count[k]
        BY <3>3 DEF JoinProducer
      <4>2. k \in Producers /\ sum = old[k]
        BY <4>1, <3>3, <1>1, <1>type DEF AddsUp, TypeOK
      <4>3. old[k + 1] = old[k] + count[k]
        <5>1. Made(k) = count[k]
          BY <4>1, <4>2, <1>type DEF Made, TypeOK
        <5>2. old[k + 1] = old[k] + Made(k)
          BY <4>2, <1>1 DEF AddsUp
        <5> QED
          BY <5>1, <5>2
      <4> QED
        BY <4>1, <4>2, <4>3
    <3>4. CASE JoinProducer /\ ~(k < THREADS_NUM)
      BY <3>4, <1>1, <1>type DEF JoinProducer, AddsUp, TypeOK
    <3>5. CASE JoinConsumer
      BY <3>5, <1>1 DEF JoinConsumer, AddsUp
    <3> QED
      BY <1>6, <3>1, <3>2, <3>3, <3>4, <3>5 DEF Main
  <2>4. AddsUp(old)'
    BY <2>1, <2>2, <2>3, <1>1 DEF AddsUp
  <2> QED
    BY <2>4 DEF TotalsInv
<1> QED
  BY <1>3, <1>4, <1>5, <1>6, TotalsValue DEF Next

(* Whatever the order of the threads, and with wakeups that nothing        *)
(* signalled, the three totals main prints after its joins are the length  *)
(* of the array, although every producer counts outside the mutex (lines   *)
(* 38 and 88-89).                                                          *)
THEOREM TotalsAreTheLength == Spec => []TotalsAgree
<1>1. Init => PCInv /\ TotalsInv
  BY PCInit, TotalsInit
<1>2. PCInv /\ TotalsInv /\ [Next]_vars => (PCInv /\ TotalsInv)'
  BY PCStep, TotalsStep
<1>3. ASSUME PCInv, TotalsInv PROVE TotalsAgree
  <2>1. PICK subtotal \in Subtotals : AddsUp(subtotal)
    BY <1>3 DEF TotalsInv
  <2>2. CASE mpc \in {"last", "exit"}
    BY <2>1, <2>2, <1>3, FullArray DEF AddsUp, TotalsAgree
  <2> QED
    BY <2>2 DEF TotalsAgree
<1> QED
  BY <1>1, <1>2, <1>3, PTL DEF Spec

-----------------------------------------------------------------------------
(* The message queue.                                                      *)

(* A queue record with other messages.                                     *)
LEMMA OtherMessages ==
  ASSUME NEW S, NEW r \in [messages : S, alive : BOOLEAN], NEW m
  PROVE  [r EXCEPT !.messages = m] = [messages |-> m, alive |-> r.alive]
  OBVIOUS

LEMMA MqInit == Mq!Init => Mq!QueueInvariant
<1> SUFFICES ASSUME Mq!Init PROVE Mq!QueueInvariant
  OBVIOUS
<1> USE DEF Mq!Init
<1>1. Mq!TypeOK
  BY DEF Mq!TypeOK, Mq!Commands
<1>2. Mq!HeldInv
  BY DEF Mq!HeldInv
<1>3. Mq!QueueInv /\ Mq!SentInv /\ Mq!TakenInv
  BY DEF Mq!QueueInv, Mq!Aligned, Mq!SentInv, Mq!TakenInv, Mq!Gone
<1> QED
  BY <1>1, <1>2, <1>3 DEF Mq!QueueInvariant

(* A process that is not done has sent nothing and taken nothing.          *)
LEMMA MqFresh ==
  ASSUME Mq!QueueInvariant, NEW p \in Processes, at[p] # "0"
  PROVE  /\ \A q \in DOMAIN sent : \A n \in DOMAIN sent[q] : sent[q][n] # p
         /\ \A q \in DOMAIN taken : \A n \in DOMAIN taken[q] : taken[q][n] # p
  BY DEF Mq!QueueInvariant, Mq!SentInv, Mq!TakenInv, Mq!Gone

(* What is logged of a queue speaks of processes.                          *)
LEMMA MqTyped ==
  ASSUME Mq!TypeOK
  PROVE  /\ DOMAIN queues = 1 .. Len(queues) /\ Len(queues) \in Nat
         /\ DOMAIN sent = DOMAIN queues /\ DOMAIN taken = DOMAIN queues
         /\ \A q \in DOMAIN queues :
               /\ queues[q] \in [messages : Seq(Processes), alive : BOOLEAN]
               /\ sent[q] \in Seq(Processes) /\ taken[q] \in Seq(Processes)
               /\ queues[q].messages \in Seq(Processes)
               /\ DOMAIN sent[q] = 1 .. Len(sent[q])
               /\ DOMAIN taken[q] = 1 .. Len(taken[q])
               /\ DOMAIN queues[q].messages = 1 .. Len(queues[q].messages)
               /\ Len(sent[q]) \in Nat /\ Len(taken[q]) \in Nat
               /\ Len(queues[q].messages) \in Nat
               /\ \A n \in DOMAIN sent[q] : sent[q][n] \in Processes
               /\ \A n \in DOMAIN taken[q] : taken[q][n] \in Processes
<1>1. /\ DOMAIN queues = 1 .. Len(queues) /\ Len(queues) \in Nat
      /\ DOMAIN sent = DOMAIN queues /\ DOMAIN taken = DOMAIN queues
  BY DEF Mq!TypeOK
<1>2. ASSUME NEW q \in DOMAIN queues
      PROVE  /\ queues[q] \in [messages : Seq(Processes), alive : BOOLEAN]
             /\ sent[q] \in Seq(Processes) /\ taken[q] \in Seq(Processes)
  BY <1>1, ElementOfSeq DEF Mq!TypeOK
<1>3. ASSUME NEW q \in DOMAIN queues
      PROVE  queues[q].messages \in Seq(Processes)
  BY <1>2
<1> QED
  BY <1>1, <1>2, <1>3

(* Steps that change no queue: the invariant goes on to hold when only p   *)
(* moved, as it may.                                                       *)
LEMMA MqQuiet ==
  ASSUME Mq!QueueInvariant, NEW p \in Processes, at[p] # "0",
         UNCHANGED <<cmd, queues, sent, taken>>,
         Mq!TypeOK', Mq!HeldInv',
         \A r \in Processes \ {p} : at'[r] = at[r] /\ msqid'[r] = msqid[r]
                                    /\ content'[r] = content[r],
         at'[p] = "0" => /\ cmd[p] = "snd" => Mq!RemovedUnder(p)'
                         /\ cmd[p] = "rcv" => Mq!RemovedUnder(p)' /\ content'[p] = "garbage"
  PROVE  Mq!QueueInvariant'
<1>t. Mq!TypeOK /\ Mq!QueueInv /\ Mq!SentInv /\ Mq!TakenInv
  BY DEF Mq!QueueInvariant
<1>1. Mq!QueueInv'
  <2>1. \A c \in Processes :
           Mq!Gone(c, "close") => Mq!Gone(c, "close")' /\ msqid'[c] = msqid[c]
    BY DEF Mq!Gone
  <2>2. \A q \in DOMAIN queues : Mq!Aligned(q)'
    <3>1. \A q \in DOMAIN queues : Mq!Aligned(q)
      BY <1>t DEF Mq!QueueInv
    <3>2. \A q : Mq!Aligned(q)' <=> Mq!Aligned(q)
      BY DEF Mq!Aligned
    <3> QED
      BY <3>1, <3>2
  <2>3. \A q \in DOMAIN queues : ~queues[q].alive =>
           \E c \in Processes : Mq!Gone(c, "close") /\ msqid[c] = q
    BY <1>t DEF Mq!QueueInv
  <2> QED
    <3>1. DOMAIN queues' = DOMAIN queues
      OBVIOUS
    <3>2. \A q \in DOMAIN queues :
             ~queues'[q].alive => \E c \in Processes : Mq!Gone(c, "close")' /\ msqid'[c] = q
      BY <2>1, <2>3
    <3> QED
      BY <2>2, <3>1, <3>2 DEF Mq!QueueInv
<1>2. \A r \in Processes \ {p} : Mq!RemovedUnder(r)' <=> Mq!RemovedUnder(r)
  BY DEF Mq!RemovedUnder, Mq!Queue
<1>3. Mq!SentInv'
  <2>1. ASSUME NEW q \in DOMAIN sent, NEW n \in DOMAIN sent[q]
        PROVE  /\ Mq!Gone(sent[q][n], "snd")' /\ msqid'[sent[q][n]] = q
               /\ \A m \in DOMAIN sent[q] : sent[q][m] = sent[q][n] => m = n
    <3>1. /\ Mq!Gone(sent[q][n], "snd") /\ msqid[sent[q][n]] = q
          /\ \A m \in DOMAIN sent[q] : sent[q][m] = sent[q][n] => m = n
      BY <1>t DEF Mq!SentInv
    <3>2. sent[q][n] \in Processes \ {p}
      BY <1>t, MqTyped, MqFresh
    <3> QED
      BY <3>1, <3>2 DEF Mq!Gone
  <2>2. ASSUME NEW r \in Processes, Mq!Gone(r, "snd")'
        PROVE  Mq!Contains(sent[msqid'[r]], r) \/ Mq!RemovedUnder(r)'
    <3>1. CASE r = p
      BY <2>2, <3>1 DEF Mq!Gone
    <3>2. CASE r # p
      <4>1. Mq!Gone(r, "snd") /\ msqid'[r] = msqid[r]
        BY <2>2, <3>2 DEF Mq!Gone
      <4>2. Mq!Contains(sent[msqid[r]], r) \/ Mq!RemovedUnder(r)
        BY <4>1, <1>t DEF Mq!SentInv
      <4> QED
        BY <4>1, <4>2, <3>2, <1>2
    <3> QED
      BY <3>1, <3>2
  <2>3. sent' = sent
    OBVIOUS
  <2> QED
    BY <2>1, <2>2, <2>3 DEF Mq!SentInv, Mq!Contains
<1>4. Mq!TakenInv'
  <2>1. ASSUME NEW q \in DOMAIN taken, NEW n \in DOMAIN taken[q]
        PROVE  /\ Mq!Gone(taken[q][n], "rcv")' /\ msqid'[taken[q][n]] = q
               /\ content'[taken[q][n]] = sent[q][n]
               /\ \A m \in DOMAIN taken[q] : taken[q][m] = taken[q][n] => m = n
    <3>1. /\ Mq!Gone(taken[q][n], "rcv") /\ msqid[taken[q][n]] = q
          /\ content[taken[q][n]] = sent[q][n]
          /\ \A m \in DOMAIN taken[q] : taken[q][m] = taken[q][n] => m = n
      BY <1>t DEF Mq!TakenInv
    <3>2. taken[q][n] \in Processes \ {p}
      BY <1>t, MqTyped, MqFresh
    <3> QED
      BY <3>1, <3>2 DEF Mq!Gone
  <2>2. ASSUME NEW r \in Processes, Mq!Gone(r, "rcv")'
        PROVE  \/ Mq!Contains(taken[msqid'[r]], r)
               \/ content'[r] = "garbage" /\ Mq!RemovedUnder(r)'
    <3>1. CASE r = p
      BY <2>2, <3>1 DEF Mq!Gone
    <3>2. CASE r # p
      <4>1. Mq!Gone(r, "rcv") /\ msqid'[r] = msqid[r] /\ content'[r] = content[r]
        BY <2>2, <3>2 DEF Mq!Gone
      <4>2. \/ Mq!Contains(taken[msqid[r]], r)
            \/ content[r] = "garbage" /\ Mq!RemovedUnder(r)
        <5>1. Mq!TakenInv
          BY <1>t
        <5> QED
          BY <4>1, <5>1 DEF Mq!TakenInv
      <4>3. Mq!RemovedUnder(r)' <=> Mq!RemovedUnder(r)
        BY <3>2, <1>2
      <4> QED
        BY <4>1, <4>2, <4>3
    <3> QED
      BY <3>1, <3>2
  <2>3. sent' = sent /\ taken' = taken
    OBVIOUS
  <2> QED
    BY <2>1, <2>2, <2>3 DEF Mq!TakenInv, Mq!Contains
<1> QED
  BY <1>1, <1>3, <1>4 DEF Mq!QueueInvariant

LEMMA MqQuietSteps ==
  ASSUME Mq!QueueInvariant, NEW p \in Processes,
         \/ Mq!Start(p)
         \/ Mq!Create(p) /\ Mq!Current # {}
         \/ Mq!Msgget(p)
         \/ Mq!Msgsnd(p) /\ ~Mq!Queue(p).alive
         \/ Mq!Msgrcv(p) /\ ~Mq!Queue(p).alive
  PROVE  Mq!QueueInvariant'
<1>t. Mq!TypeOK /\ Mq!HeldInv /\ Mq!QueueInv /\ Mq!SentInv /\ Mq!TakenInv
  BY DEF Mq!QueueInvariant
<1>1. CASE Mq!Start(p)
  <2>1. /\ at[p] = "none"
        /\ \/ at' = [at EXCEPT ![p] = "-1"]
           \/ cmd[p] # "other" /\ at' = [at EXCEPT ![p] = "msgget"]
        /\ UNCHANGED <<cmd, msqid, content, queues, sent, taken>>
    BY <1>1 DEF Mq!Start, Mq!Exit
  <2>2. Mq!TypeOK'
    BY <2>1, <1>t DEF Mq!TypeOK
  <2>3. Mq!HeldInv'
    BY <2>1, <1>t DEF Mq!TypeOK, Mq!HeldInv
  <2>4. /\ at[p] # "0"
        /\ at'[p] = "0" => cmd[p] = "create"
        /\ \A r \in Processes \ {p} : at'[r] = at[r]
    BY <2>1, <1>t DEF Mq!TypeOK
  <2> QED
    BY <2>1, <2>2, <2>3, <2>4, MqQuiet
<1>2. CASE Mq!Create(p) /\ Mq!Current # {}
  <2>1. /\ at[p] = "msgget" /\ cmd[p] = "create" /\ at' = [at EXCEPT ![p] = "0"]
        /\ UNCHANGED <<cmd, msqid, content, queues, sent, taken>>
    BY <1>2 DEF Mq!Create, Mq!Exit
  <2>2. Mq!TypeOK'
    BY <2>1, <1>t DEF Mq!TypeOK
  <2>3. Mq!HeldInv'
    BY <2>1, <1>t DEF Mq!TypeOK, Mq!HeldInv
  <2>4. /\ at[p] # "0"
        /\ at'[p] = "0" => cmd[p] = "create"
        /\ \A r \in Processes \ {p} : at'[r] = at[r]
    BY <2>1, <1>t DEF Mq!TypeOK
  <2> QED
    BY <2>1, <2>2, <2>3, <2>4, MqQuiet
<1>3. CASE Mq!Msgget(p)
  <2>1. /\ at[p] = "msgget" /\ cmd[p] # "create"
        /\ UNCHANGED <<cmd, content, queues, sent, taken>>
    BY <1>3 DEF Mq!Msgget
  <2>3. cmd[p] \in {"snd", "snd-empty", "rcv", "close"}
    BY <2>1, <1>t DEF Mq!HeldInv, Mq!TypeOK, Mq!Commands
  <2>7. DOMAIN queues = 1 .. Len(queues) /\ Len(queues) \in Nat
    BY <1>t, MqTyped
  <2>2. \/ msqid' = msqid /\ at' = [at EXCEPT ![p] = "-1"]
        \/ \E q \in 1 .. Len(queues) :
              /\ msqid' = [msqid EXCEPT ![p] = q]
              /\ \/ at' = [at EXCEPT ![p] = "-1"]
                 \/ cmd[p] = "snd" /\ at' = [at EXCEPT ![p] = "msgsnd"]
                 \/ cmd[p] = "rcv" /\ at' = [at EXCEPT ![p] = "msgrcv"]
                 \/ cmd[p] = "close" /\ at' = [at EXCEPT ![p] = "msgctl"]
    BY <1>3, <2>3, <2>7 DEF Mq!Msgget, Mq!Exit, Mq!Current
  <2>8. msqid' \in [Processes -> Nat]
    <3>1. msqid \in [Processes -> Nat] /\ \A q \in 1 .. Len(queues) : q \in Nat
      BY <2>7, <1>t DEF Mq!TypeOK
    <3> QED
      BY <2>2, <3>1
  <2>9. at' \in [Processes -> {"none", "msgget", "msgctl", "msgsnd", "msgrcv", "0", "-1"}]
    BY <2>2, <1>t DEF Mq!TypeOK
  <2>4. Mq!TypeOK'
    BY <2>1, <2>8, <2>9, <1>t DEF Mq!TypeOK
  <2>5. Mq!HeldInv'
    BY <2>1, <2>2, <2>3, <1>t DEF Mq!TypeOK, Mq!HeldInv
  <2>6. /\ at[p] # "0" /\ at'[p] # "0"
        /\ \A r \in Processes \ {p} : at'[r] = at[r] /\ msqid'[r] = msqid[r]
    BY <2>1, <2>2, <2>3, <1>t DEF Mq!TypeOK
  <2> QED
    BY <2>1, <2>4, <2>5, <2>6, MqQuiet
<1>4. CASE Mq!Msgsnd(p) /\ ~Mq!Queue(p).alive
  <2>1. /\ at[p] = "msgsnd" /\ at' = [at EXCEPT ![p] = "0"]
        /\ UNCHANGED <<cmd, msqid, content, queues, sent, taken>>
    BY <1>4 DEF Mq!Msgsnd, Mq!Exit
  <2>2. Mq!TypeOK'
    BY <2>1, <1>t DEF Mq!TypeOK
  <2>3. Mq!HeldInv'
    BY <2>1, <1>t DEF Mq!TypeOK, Mq!HeldInv
  <2>4. cmd[p] = "snd" /\ Mq!RemovedUnder(p)'
    BY <1>4, <2>1, <1>t DEF Mq!HeldInv, Mq!RemovedUnder, Mq!Queue
  <2>5. at[p] # "0" /\ \A r \in Processes \ {p} : at'[r] = at[r]
    BY <2>1, <1>t DEF Mq!TypeOK
  <2> QED
    BY <2>1, <2>2, <2>3, <2>4, <2>5, MqQuiet
<1>5. CASE Mq!Msgrcv(p) /\ ~Mq!Queue(p).alive
  <2>1. /\ at[p] = "msgrcv" /\ at' = [at EXCEPT ![p] = "0"]
        /\ content' = [content EXCEPT ![p] = "garbage"]
        /\ UNCHANGED <<cmd, msqid, queues, sent, taken>>
    BY <1>5 DEF Mq!Msgrcv, Mq!Exit
  <2>2. Mq!TypeOK'
    BY <2>1, <1>t DEF Mq!TypeOK
  <2>3. Mq!HeldInv'
    BY <2>1, <1>t DEF Mq!TypeOK, Mq!HeldInv
  <2>4. cmd[p] = "rcv" /\ Mq!RemovedUnder(p)'
    BY <1>5, <2>1, <1>t DEF Mq!HeldInv, Mq!RemovedUnder, Mq!Queue
  <2>5. /\ at[p] # "0" /\ content'[p] = "garbage"
        /\ \A r \in Processes \ {p} : at'[r] = at[r] /\ content'[r] = content[r]
    BY <2>1, <1>t DEF Mq!TypeOK
  <2> QED
    BY <2>1, <2>2, <2>3, <2>4, <2>5, MqQuiet
<1> QED
  BY <1>1, <1>2, <1>3, <1>4, <1>5

(* A new queue.                                                            *)
LEMMA MqCreates ==
  ASSUME Mq!QueueInvariant, NEW p \in Processes, Mq!Create(p), Mq!Current = {}
  PROVE  Mq!QueueInvariant'
<1>t. Mq!TypeOK /\ Mq!HeldInv /\ Mq!QueueInv /\ Mq!SentInv /\ Mq!TakenInv
  BY DEF Mq!QueueInvariant
<1> DEFINE new == [messages |-> <<>>, alive |-> TRUE]
<1>1. /\ at[p] = "msgget" /\ cmd[p] = "create" /\ at' = [at EXCEPT ![p] = "0"]
      /\ queues' = Append(queues, new)
      /\ sent' = Append(sent, <<>>) /\ taken' = Append(taken, <<>>)
      /\ UNCHANGED <<cmd, msqid, content>>
  BY DEF Mq!Create, Mq!Exit
<1>2. Mq!TypeOK'
  <2>1. new \in [messages : Seq(Processes), alive : BOOLEAN]
    OBVIOUS
  <2>2. queues' \in Seq([messages : Seq(Processes), alive : BOOLEAN])
    BY <1>1, <1>t, <2>1, AppendProperties DEF Mq!TypeOK
  <2>3. sent' \in Seq(Seq(Processes)) /\ taken' \in Seq(Seq(Processes))
    BY <1>1, <1>t, AppendProperties DEF Mq!TypeOK
  <2> QED
    BY <1>1, <1>t, <2>2, <2>3 DEF Mq!TypeOK
<1>3. /\ Len(queues') = Len(queues) + 1
      /\ \A q \in DOMAIN queues : /\ queues'[q] = queues[q]
                                   /\ sent'[q] = sent[q] /\ taken'[q] = taken[q]
      /\ queues'[Len(queues) + 1] = new
      /\ sent'[Len(queues) + 1] = <<>> /\ taken'[Len(queues) + 1] = <<>>
      /\ DOMAIN queues' = 1 .. Len(queues) + 1
      /\ DOMAIN sent' = 1 .. Len(queues) + 1 /\ DOMAIN taken' = 1 .. Len(queues) + 1
  BY <1>1, <1>t DEF Mq!TypeOK
<1> HIDE DEF new
<1>4. /\ at'[p] = "0" /\ \A r \in Processes \ {p} : at'[r] = at[r]
      /\ \A r \in Processes : msqid[r] \in Nat
  BY <1>1, <1>t DEF Mq!TypeOK
<1>5. Mq!HeldInv'
  BY <1>1, <1>3, <1>4, <1>t, MqTyped DEF Mq!HeldInv
<1>6. \A c \in {"snd", "rcv", "close"} : \A r \in Processes : Mq!Gone(r, c)' <=> Mq!Gone(r, c)
  BY <1>1, <1>4 DEF Mq!Gone
<1>7. Mq!QueueInv'
  <2> SUFFICES ASSUME NEW q \in DOMAIN queues'
               PROVE  (LET messages == queues[q].messages IN
                       /\ Len(taken[q]) + Len(messages) <= Len(sent[q])
                       /\ \A n \in DOMAIN messages : messages[n] = sent[q][Len(taken[q]) + n]
                       /\ IF queues[q].alive
                          THEN Len(taken[q]) + Len(messages) = Len(sent[q])
                          ELSE \E c \in Processes : Mq!Gone(c, "close") /\ msqid[c] = q)'
    BY DEF Mq!QueueInv, Mq!Aligned
  <2>1. CASE q \in DOMAIN queues
    <3>1. queues'[q] = queues[q] /\ taken'[q] = taken[q] /\ sent'[q] = sent[q]
      BY <2>1, <1>3
    <3>2. \A c \in Processes : Mq!Gone(c, "close") => Mq!Gone(c, "close")'
      BY <1>6
    <3>3. LET messages == queues[q].messages IN
          /\ Len(taken[q]) + Len(messages) <= Len(sent[q])
          /\ \A n \in DOMAIN messages : messages[n] = sent[q][Len(taken[q]) + n]
          /\ IF queues[q].alive
             THEN Len(taken[q]) + Len(messages) = Len(sent[q])
             ELSE \E c \in Processes : Mq!Gone(c, "close") /\ msqid[c] = q
      BY <2>1, <1>t DEF Mq!QueueInv, Mq!Aligned
    <3> QED
      BY <3>1, <3>2, <3>3, <1>1
  <2>2. CASE q = Len(queues) + 1
    BY <2>2, <1>3 DEF new
  <2> QED
    BY <2>1, <2>2, <1>3, <1>t, MqTyped
<1>8. \A r \in Processes : msqid[r] \in DOMAIN queues =>
          Mq!RemovedUnder(r)' = Mq!RemovedUnder(r)
  BY <1>1, <1>3, <1>t, MqTyped DEF Mq!RemovedUnder, Mq!Queue
<1>9. \A r \in Processes : \A c \in {"snd", "rcv", "close"} :
          Mq!Gone(r, c) => msqid[r] \in DOMAIN queues
  BY <1>t, MqTyped DEF Mq!HeldInv, Mq!Gone
<1>10. Mq!SentInv'
  <2>1. ASSUME NEW q \in DOMAIN sent', NEW n \in DOMAIN sent'[q]
        PROVE  (/\ Mq!Gone(sent[q][n], "snd") /\ msqid[sent[q][n]] = q
                /\ \A m \in DOMAIN sent[q] : sent[q][m] = sent[q][n] => m = n)'
    <3>1. q \in DOMAIN queues /\ sent'[q] = sent[q]
      BY <1>3, <1>t, MqTyped
    <3>2. sent[q][n] \in Processes /\ (sent[q][n])' = sent[q][n]
      BY <3>1, <1>t, MqTyped
    <3> QED
      BY <3>1, <3>2, <1>1, <1>4, <1>t DEF Mq!SentInv, Mq!Gone
  <2>2. ASSUME NEW r \in Processes, Mq!Gone(r, "snd")'
        PROVE  Mq!Contains(sent'[msqid'[r]], r) \/ Mq!RemovedUnder(r)'
    BY <2>2, <1>1, <1>3, <1>6, <1>8, <1>9, <1>t DEF Mq!SentInv
  <2> QED
    BY <2>1, <2>2 DEF Mq!SentInv
<1>11. Mq!TakenInv'
  <2>1. ASSUME NEW q \in DOMAIN taken', NEW n \in DOMAIN taken'[q]
        PROVE  (/\ Mq!Gone(taken[q][n], "rcv") /\ msqid[taken[q][n]] = q
                /\ content[taken[q][n]] = sent[q][n]
                /\ \A m \in DOMAIN taken[q] : taken[q][m] = taken[q][n] => m = n)'
    <3>1. q \in DOMAIN queues /\ taken'[q] = taken[q] /\ sent'[q] = sent[q]
      BY <1>3, <1>t, MqTyped
    <3>2. taken[q][n] \in Processes /\ (taken[q][n])' = taken[q][n]
      BY <3>1, <1>t, MqTyped
    <3> QED
      BY <3>1, <3>2, <1>1, <1>4, <1>t DEF Mq!TakenInv, Mq!Gone
  <2>2. ASSUME NEW r \in Processes, Mq!Gone(r, "rcv")'
        PROVE  \/ Mq!Contains(taken'[msqid'[r]], r)
               \/ content'[r] = "garbage" /\ Mq!RemovedUnder(r)'
    BY <2>2, <1>1, <1>3, <1>6, <1>8, <1>9, <1>t DEF Mq!TakenInv
  <2> QED
    BY <2>1, <2>2 DEF Mq!TakenInv
<1> QED
  BY <1>2, <1>5, <1>7, <1>10, <1>11 DEF Mq!QueueInvariant

(* One more message in queue msqid[p].                                     *)
LEMMA MqSends ==
  ASSUME Mq!QueueInvariant, NEW p \in Processes, Mq!Msgsnd(p), Mq!Queue(p).alive
  PROVE  Mq!QueueInvariant'
<1>t. Mq!TypeOK /\ Mq!HeldInv /\ Mq!QueueInv /\ Mq!SentInv /\ Mq!TakenInv
  BY DEF Mq!QueueInvariant
<1>0. PICK own \in DOMAIN queues : own = msqid[p]
  BY <1>t, MqTyped DEF Mq!HeldInv, Mq!Msgsnd
<1>00. PICK old : old = queues[own].messages
  OBVIOUS
<1>1. /\ at[p] = "msgsnd" /\ at' = [at EXCEPT ![p] = "0"]
      /\ queues' = [queues EXCEPT ![own].messages = Append(@, p)]
      /\ sent' = [sent EXCEPT ![own] = Append(@, p)]
      /\ UNCHANGED <<cmd, msqid, content, taken>>
  BY <1>0 DEF Mq!Msgsnd, Mq!Exit, Mq!Queue
<1>2. cmd[p] = "snd" /\ queues[own].alive = TRUE
  BY <1>0, <1>1, <1>t, MqTyped DEF Mq!HeldInv, Mq!Queue
<1>3. /\ own \in DOMAIN sent /\ old \in Seq(Processes) /\ sent[own] \in Seq(Processes)
      /\ queues[own] \in [messages : Seq(Processes), alive : BOOLEAN]
  BY <1>2, <1>00, <1>t, MqTyped
<1>mm. PICK msgs : msgs = Append(old, p)
  OBVIOUS
<1>m. /\ msgs \in Seq(Processes) /\ Len(msgs) = Len(old) + 1 /\ msgs[Len(old) + 1] = p
      /\ \A n \in 1 .. Len(old) : msgs[n] = old[n]
  <2>1. old \in Seq(Processes)
    BY <1>3
  <2>2. /\ Append(old, p) \in Seq(Processes) /\ Len(Append(old, p)) = Len(old) + 1
        /\ Append(old, p)[Len(old) + 1] = p
        /\ \A n \in 1 .. Len(old) : Append(old, p)[n] = old[n]
    BY <2>1, AppendProperties
  <2> QED
    BY <2>2, <1>mm
<1>ss. PICK snt : snt = Append(sent[own], p)
  OBVIOUS
<1>s. /\ snt \in Seq(Processes) /\ Len(snt) = Len(sent[own]) + 1 /\ snt[Len(sent[own]) + 1] = p
      /\ \A n \in 1 .. Len(sent[own]) : snt[n] = sent[own][n]
  <2>1. sent[own] \in Seq(Processes)
    BY <1>3
  <2>2. /\ Append(sent[own], p) \in Seq(Processes)
        /\ Len(Append(sent[own], p)) = Len(sent[own]) + 1
        /\ Append(sent[own], p)[Len(sent[own]) + 1] = p
        /\ \A n \in 1 .. Len(sent[own]) : Append(sent[own], p)[n] = sent[own][n]
    BY <2>1, AppendProperties
  <2> QED
    BY <2>2, <1>ss
<1>n. /\ Len(old) \in Nat /\ Len(sent[own]) \in Nat
      /\ Len(msgs) = Len(old) + 1 /\ Len(snt) = Len(sent[own]) + 1
  BY <1>3, <1>m, <1>s
<1>4. /\ queues' = [queues EXCEPT ![own] = [messages |-> msgs, alive |-> TRUE]]
      /\ sent' = [sent EXCEPT ![own] = snt]
  <2>1. [queues[own] EXCEPT !.messages = msgs] = [messages |-> msgs, alive |-> TRUE]
    BY <1>2, <1>3, OtherMessages
  <2>2. queues' = [queues EXCEPT ![own] = [queues[own] EXCEPT !.messages = msgs]]
    BY <1>00, <1>1, <1>mm
  <2> QED
    BY <2>1, <2>2, <1>1, <1>ss
<1>5. /\ queues'[own] = [messages |-> msgs, alive |-> TRUE]
      /\ sent'[own] = snt
      /\ DOMAIN queues' = DOMAIN queues /\ DOMAIN sent' = DOMAIN sent
      /\ \A q \in DOMAIN queues \ {own} : queues'[q] = queues[q] /\ sent'[q] = sent[q]
      /\ Len(old) \in Nat /\ Len(sent[own]) \in Nat
      /\ DOMAIN old = 1 .. Len(old) /\ DOMAIN msgs = 1 .. Len(old) + 1
      /\ DOMAIN sent[own] = 1 .. Len(sent[own]) /\ DOMAIN snt = 1 .. Len(sent[own]) + 1
  BY <1>3, <1>4, <1>m, <1>s, <1>t, MqTyped
<1>6. Mq!TypeOK'
  <2>1. queues' \in Seq([messages : Seq(Processes), alive : BOOLEAN])
        /\ Len(queues') = Len(queues)
    BY <1>4, <1>5, <1>m, <1>s, <1>t, ExceptSeq DEF Mq!TypeOK
  <2>2. sent' \in Seq(Seq(Processes)) /\ Len(sent') = Len(sent)
    BY <1>1, <1>2, <1>5, <1>t, MqTyped, ExceptSeq DEF Mq!TypeOK
  <2> QED
    BY <1>1, <2>1, <2>2, <1>t DEF Mq!TypeOK
<1>7. /\ at'[p] = "0" /\ \A r \in Processes \ {p} : at'[r] = at[r]
      /\ Len(queues') = Len(queues)
  BY <1>1, <1>4, <1>6, <1>t, MqTyped DEF Mq!TypeOK
<1>8. Mq!HeldInv'
  BY <1>0, <1>1, <1>2, <1>7, <1>t, MqTyped DEF Mq!HeldInv
<1>9. \A r \in Processes : /\ Mq!Gone(r, "snd") => Mq!Gone(r, "snd")'
                           /\ Mq!Gone(r, "rcv") <=> Mq!Gone(r, "rcv")'
                           /\ Mq!Gone(r, "close") => Mq!Gone(r, "close")'
                           /\ r # p => (Mq!Gone(r, "snd")' <=> Mq!Gone(r, "snd"))
  BY <1>1, <1>2, <1>7 DEF Mq!Gone
<1>10. \A r \in Processes : Mq!RemovedUnder(r)' <=> Mq!RemovedUnder(r)
  BY <1>1, <1>2, <1>4, <1>3 DEF Mq!RemovedUnder, Mq!Queue
<1>11. Mq!QueueInv'
  <2> SUFFICES ASSUME NEW q \in DOMAIN queues'
               PROVE  (LET messages == queues[q].messages IN
                       /\ Len(taken[q]) + Len(messages) <= Len(sent[q])
                       /\ \A n \in DOMAIN messages : messages[n] = sent[q][Len(taken[q]) + n]
                       /\ IF queues[q].alive
                          THEN Len(taken[q]) + Len(messages) = Len(sent[q])
                          ELSE \E c \in Processes : Mq!Gone(c, "close") /\ msqid[c] = q)'
    BY DEF Mq!QueueInv, Mq!Aligned
  <2>1. LET messages == queues[q].messages IN
        /\ Len(taken[q]) + Len(messages) <= Len(sent[q])
        /\ \A n \in DOMAIN messages : messages[n] = sent[q][Len(taken[q]) + n]
        /\ IF queues[q].alive
           THEN Len(taken[q]) + Len(messages) = Len(sent[q])
           ELSE \E c \in Processes : Mq!Gone(c, "close") /\ msqid[c] = q
    BY <1>4, <1>t DEF Mq!QueueInv, Mq!Aligned
  <2>2. CASE q # own
    <3>1. queues'[q] = queues[q] /\ taken'[q] = taken[q] /\ sent'[q] = sent[q]
      BY <2>2, <1>1, <1>5
    <3>2. \A c \in Processes : Mq!Gone(c, "close") => Mq!Gone(c, "close")'
      BY <1>9
    <3>3. msqid' = msqid
      BY <1>1
    <3> QED
      BY <3>1, <3>2, <3>3, <2>1
  <2>3. CASE q = own
    <3>1. /\ Len(taken[own]) + Len(old) = Len(sent[own]) /\ Len(taken[own]) \in Nat
          /\ \A n \in 1 .. Len(old) : old[n] = sent[own][Len(taken[own]) + n]
      BY <2>1, <2>3, <1>00, <1>2, <1>5, <1>t, MqTyped
    <3>2. /\ queues'[own] = [messages |-> msgs, alive |-> TRUE]
          /\ sent'[own] = snt /\ taken'[own] = taken[own]
      BY <1>1, <1>5
    <3>n. /\ Len(taken[own]) \in Nat /\ Len(old) \in Nat /\ Len(sent[own]) \in Nat
          /\ Len(taken[own]) + Len(old) = Len(sent[own])
      BY <3>1, <1>n
    <3>3. PICK a, b, c : a = Len(taken[own]) /\ b = Len(old) /\ c = Len(sent[own])
      OBVIOUS
    <3>6. a \in Nat /\ b \in Nat /\ c \in Nat /\ a + b = c
      BY <3>n, <3>3
    <3>5. a + (b + 1) = c + 1 /\ a + (b + 1) <= c + 1
      BY <3>6
    <3>7. /\ Len(taken[own]) = a /\ Len(msgs) = b + 1 /\ Len(snt) = c + 1
          /\ Len(sent[own]) = c
      BY <3>3, <1>n
    <3>4. ASSUME NEW n \in 1 .. Len(old) + 1
          PROVE  msgs[n] = snt[Len(taken[own]) + n]
      <4>1. CASE n = Len(old) + 1
        <5>1. Len(taken[own]) + n = Len(sent[own]) + 1
          BY <4>1, <3>3, <3>5
        <5> QED
          BY <4>1, <5>1, <1>m, <1>s
      <4>2. CASE n \in 1 .. Len(old)
        <5>1. Len(taken[own]) + n \in 1 .. Len(sent[own])
          BY <4>2, <3>1, <1>n
        <5>2. msgs[n] = old[n] /\ snt[Len(taken[own]) + n] = sent[own][Len(taken[own]) + n]
          BY <4>2, <5>1, <1>m, <1>s
        <5> QED
          BY <4>2, <5>2, <3>1
      <4> QED
        BY <4>1, <4>2, <1>5
    <3> QED
      BY <2>3, <3>2, <3>4, <3>5, <3>7, <1>5
  <2> QED
    BY <2>2, <2>3
<1>12. Mq!SentInv'
  <2>1. ASSUME NEW q \in DOMAIN sent', NEW n \in DOMAIN sent'[q]
        PROVE  (/\ Mq!Gone(sent[q][n], "snd") /\ msqid[sent[q][n]] = q
                /\ \A m \in DOMAIN sent[q] : sent[q][m] = sent[q][n] => m = n)'
    <3>0. q \in DOMAIN queues /\ q \in DOMAIN sent
      BY <1>4, <1>t, MqTyped
    <3>1. CASE q # own
      <4>1. sent'[q] = sent[q]
        BY <3>0, <3>1, <1>4
      <4>2. sent[q][n] \in Processes
        BY <3>0, <4>1, <1>t, MqTyped
      <4> QED
        BY <3>0, <4>1, <4>2, <1>1, <1>9, <1>t DEF Mq!SentInv
    <3>2. CASE q = own
      <4>1. DOMAIN sent'[q] = 1 .. Len(sent[q]) + 1 /\ DOMAIN sent[q] = 1 .. Len(sent[q])
            /\ Len(sent[q]) \in Nat
        BY <3>2, <1>5
      <4>2. \A m \in DOMAIN sent[q] : sent'[q][m] = sent[q][m] /\ sent[q][m] # p
                                      /\ sent[q][m] \in Processes
        <5>1. \A m \in DOMAIN sent[q] : sent'[q][m] = sent[q][m]
          BY <3>2, <4>1, <1>5, <1>s
        <5>2. \A m \in DOMAIN sent[q] : sent[q][m] # p
          BY <3>0, <1>1, MqFresh
        <5> QED
          BY <3>0, <5>1, <5>2, <1>t, MqTyped
      <4>3. sent'[q][Len(sent[q]) + 1] = p /\ Mq!Gone(p, "snd")' /\ msqid'[p] = q
        BY <3>2, <1>0, <1>1, <1>2, <1>4, <1>5, <1>m, <1>s, <1>7 DEF Mq!Gone
      <4>4. CASE n = Len(sent[q]) + 1
        BY <4>1, <4>2, <4>3, <4>4
      <4>5. CASE n \in DOMAIN sent[q]
        BY <3>0, <4>1, <4>2, <4>3, <4>5, <1>1, <1>9, <1>t DEF Mq!SentInv
      <4> QED
        BY <4>1, <4>4, <4>5
    <3> QED
      BY <3>1, <3>2
  <2>2. ASSUME NEW r \in Processes, Mq!Gone(r, "snd")'
        PROVE  (Mq!Contains(sent[msqid[r]], r) \/ Mq!RemovedUnder(r))'
    <3>1. CASE r = p
      <4>1. Len(sent[own]) + 1 \in 1 .. Len(snt)
        BY <1>5, <1>s
      <4>2. /\ sent'[msqid'[r]] = snt /\ snt[Len(sent[own]) + 1] = r
            /\ DOMAIN snt = 1 .. Len(sent[own]) + 1
        BY <3>1, <1>0, <1>1, <1>5, <1>s
      <4>3. \E e \in DOMAIN snt : snt[e] = r
        BY <4>1, <4>2, <1>5, <1>s
      <4> QED
        BY <4>2, <4>3 DEF Mq!Contains
    <3>2. CASE r # p
      <4>1. Mq!Gone(r, "snd") /\ (Mq!Contains(sent[msqid[r]], r) \/ Mq!RemovedUnder(r))
        BY <2>2, <3>2, <1>9, <1>t DEF Mq!SentInv
      <4>2. msqid[r] \in DOMAIN queues
        BY <4>1, <1>t, MqTyped DEF Mq!HeldInv, Mq!Gone
      <4>3. CASE msqid[r] # own
        BY <4>1, <4>2, <4>3, <1>1, <1>4, <1>10
      <4>4. CASE msqid[r] = own
        BY <4>1, <4>2, <4>4, <1>1, <1>3, <1>4, <1>5, <1>m, <1>s, <1>m, <1>s, <1>10 DEF Mq!Contains
      <4> QED
        BY <4>3, <4>4
    <3> QED
      BY <3>1, <3>2
  <2> QED
    BY <2>1, <2>2 DEF Mq!SentInv
<1>13. Mq!TakenInv'
  <2>1. ASSUME NEW q \in DOMAIN taken', NEW n \in DOMAIN taken'[q]
        PROVE  (/\ Mq!Gone(taken[q][n], "rcv") /\ msqid[taken[q][n]] = q
                /\ content[taken[q][n]] = sent[q][n]
                /\ \A m \in DOMAIN taken[q] : taken[q][m] = taken[q][n] => m = n)'
    <3>1. /\ q \in DOMAIN queues /\ q \in DOMAIN taken /\ n \in DOMAIN taken[q]
          /\ n \in 1 .. Len(taken[q]) /\ taken[q][n] \in Processes
          /\ Len(taken[q]) \in Nat /\ Len(sent[q]) \in Nat
          /\ Len(queues[q].messages) \in Nat
      BY <1>1, <1>t, MqTyped
    <3>a. Len(taken[q]) + Len(queues[q].messages) <= Len(sent[q])
      BY <3>1, <1>t DEF Mq!QueueInv, Mq!Aligned
    <3>b. n \in 1 .. Len(sent[q])
      BY <3>1, <3>a
    <3>2. sent'[q][n] = sent[q][n]
      BY <3>1, <3>b, <1>4, <1>5, <1>m, <1>s
    <3>3. /\ Mq!Gone(taken[q][n], "rcv") /\ msqid[taken[q][n]] = q
          /\ content[taken[q][n]] = sent[q][n]
          /\ \A m \in DOMAIN taken[q] : taken[q][m] = taken[q][n] => m = n
      BY <3>1, <1>t DEF Mq!TakenInv
    <3>4. Mq!Gone(taken[q][n], "rcv")'
      <4>1. PICK r : r = taken[q][n]
        OBVIOUS
      <4>2. r \in Processes /\ Mq!Gone(r, "rcv")
        BY <3>1, <3>3, <4>1
      <4>3. Mq!Gone(r, "rcv")'
        BY <4>2, <1>9
      <4>4. taken' = taken
        BY <1>1
      <4> QED
        BY <4>1, <4>3, <4>4 DEF Mq!Gone
    <3>5. taken' = taken /\ msqid' = msqid /\ content' = content
      BY <1>1
    <3> QED
      BY <3>2, <3>3, <3>4, <3>5
  <2>2. ASSUME NEW r \in Processes, Mq!Gone(r, "rcv")'
        PROVE  (\/ Mq!Contains(taken[msqid[r]], r)
                \/ content[r] = "garbage" /\ Mq!RemovedUnder(r))'
    BY <2>2, <1>1, <1>9, <1>10, <1>t DEF Mq!TakenInv
  <2> QED
    BY <2>1, <2>2 DEF Mq!TakenInv
<1> QED
  BY <1>6, <1>8, <1>11, <1>12, <1>13 DEF Mq!QueueInvariant

(* The first message of queue msqid[p] goes to p.                          *)
LEMMA MqTakes ==
  ASSUME Mq!QueueInvariant, NEW p \in Processes, Mq!Msgrcv(p), Mq!Queue(p).alive
  PROVE  Mq!QueueInvariant'
<1>t. Mq!TypeOK /\ Mq!HeldInv /\ Mq!QueueInv /\ Mq!SentInv /\ Mq!TakenInv
  BY DEF Mq!QueueInvariant
<1>0. PICK own \in DOMAIN queues : own = msqid[p]
  BY <1>t, MqTyped DEF Mq!HeldInv, Mq!Msgrcv
<1>o. PICK old : old = queues[own].messages
  OBVIOUS
<1>mm. PICK msgs : msgs = Tail(old)
  OBVIOUS
<1>tt. PICK tkn : tkn = Append(taken[own], p)
  OBVIOUS
<1>1. /\ at[p] = "msgrcv" /\ at' = [at EXCEPT ![p] = "0"]
      /\ old # <<>>
      /\ content' = [content EXCEPT ![p] = Head(old)]
      /\ queues' = [queues EXCEPT ![own].messages = Tail(@)]
      /\ taken' = [taken EXCEPT ![own] = Append(@, p)]
      /\ UNCHANGED <<cmd, msqid, sent>>
  BY <1>0, <1>o DEF Mq!Msgrcv, Mq!Exit, Mq!Queue
<1>2. cmd[p] = "rcv" /\ queues[own].alive = TRUE
  BY <1>0, <1>1, <1>t, MqTyped DEF Mq!HeldInv, Mq!Queue
<1>3. /\ own \in DOMAIN taken /\ old \in Seq(Processes) /\ taken[own] \in Seq(Processes)
      /\ queues[own] \in [messages : Seq(Processes), alive : BOOLEAN]
  BY <1>2, <1>o, <1>t, MqTyped
<1>m. /\ msgs \in Seq(Processes) /\ Len(msgs) = Len(old) - 1
      /\ \A n \in 1 .. Len(old) - 1 : msgs[n] = old[n + 1]
      /\ Head(old) = old[1] /\ Head(old) \in Processes
  <2>1. old \in Seq(Processes) /\ old # <<>>
    BY <1>1, <1>3
  <2>2. /\ Tail(old) \in Seq(Processes) /\ Len(Tail(old)) = Len(old) - 1
        /\ \A n \in 1 .. Len(Tail(old)) : Tail(old)[n] = old[n + 1]
        /\ Head(old) \in Processes
    BY <2>1, HeadTailProperties
  <2> QED
    BY <2>1, <2>2, <1>mm
<1>s. /\ tkn \in Seq(Processes) /\ Len(tkn) = Len(taken[own]) + 1
      /\ tkn[Len(taken[own]) + 1] = p
      /\ \A n \in 1 .. Len(taken[own]) : tkn[n] = taken[own][n]
  <2>1. taken[own] \in Seq(Processes)
    BY <1>3
  <2>2. /\ Append(taken[own], p) \in Seq(Processes)
        /\ Len(Append(taken[own], p)) = Len(taken[own]) + 1
        /\ Append(taken[own], p)[Len(taken[own]) + 1] = p
        /\ \A n \in 1 .. Len(taken[own]) : Append(taken[own], p)[n] = taken[own][n]
    BY <2>1, AppendProperties
  <2> QED
    BY <2>2, <1>tt
<1>a. PICK a, b, c : a = Len(taken[own]) /\ b = Len(old) /\ c = Len(sent[own])
  OBVIOUS
<1>n. /\ a \in Nat /\ b \in Nat /\ c \in Nat /\ b # 0 /\ a + b = c
      /\ \A n \in 1 .. b : old[n] = sent[own][a + n]
      /\ DOMAIN old = 1 .. b /\ DOMAIN msgs = 1 .. b - 1
      /\ DOMAIN taken[own] = 1 .. a /\ DOMAIN tkn = 1 .. a + 1
      /\ DOMAIN sent[own] = 1 .. c
  <2>1. /\ Len(taken[own]) \in Nat /\ Len(old) \in Nat /\ Len(sent[own]) \in Nat
        /\ Len(old) # 0
    BY <1>1, <1>3, <1>t, MqTyped
  <2>2. /\ Len(taken[own]) + Len(old) = Len(sent[own])
        /\ \A n \in 1 .. Len(old) : old[n] = sent[own][Len(taken[own]) + n]
    <3>1. LET messages == queues[own].messages IN
          /\ Len(taken[own]) + Len(messages) <= Len(sent[own])
          /\ \A n \in DOMAIN messages : messages[n] = sent[own][Len(taken[own]) + n]
          /\ IF queues[own].alive
             THEN Len(taken[own]) + Len(messages) = Len(sent[own])
             ELSE \E cl \in Processes : Mq!Gone(cl, "close") /\ msqid[cl] = own
      BY <1>t DEF Mq!QueueInv, Mq!Aligned
    <3>2. DOMAIN old = 1 .. Len(old)
      BY <1>3
    <3> QED
      BY <3>1, <3>2, <1>2, <1>o
  <2>3. DOMAIN old = 1 .. Len(old) /\ DOMAIN msgs = 1 .. Len(old) - 1
        /\ DOMAIN taken[own] = 1 .. Len(taken[own]) /\ DOMAIN tkn = 1 .. Len(taken[own]) + 1
        /\ DOMAIN sent[own] = 1 .. Len(sent[own])
    BY <1>3, <1>m, <1>s, <1>t, MqTyped
  <2> QED
    BY <2>1, <2>2, <2>3, <1>a
<1>l. /\ Len(taken[own]) = a /\ Len(tkn) = a + 1 /\ Len(sent[own]) = c /\ Len(msgs) = b - 1
      /\ (a + 1) + (b - 1) = c /\ (a + 1) + (b - 1) <= c
      /\ tkn[a + 1] = p /\ \A n \in 1 .. a : tkn[n] = taken[own][n]
  <2>1. (a + 1) + (b - 1) = c /\ (a + 1) + (b - 1) <= c
    BY <1>n
  <2> QED
    BY <2>1, <1>a, <1>m, <1>s
<1>4. /\ queues' = [queues EXCEPT ![own] = [messages |-> msgs, alive |-> TRUE]]
      /\ taken' = [taken EXCEPT ![own] = tkn]
  <2>1. [queues[own] EXCEPT !.messages = msgs] = [messages |-> msgs, alive |-> TRUE]
    BY <1>2, <1>3, OtherMessages
  <2>2. queues' = [queues EXCEPT ![own] = [queues[own] EXCEPT !.messages = msgs]]
    BY <1>o, <1>1, <1>mm
  <2> QED
    BY <2>1, <2>2, <1>1, <1>tt
<1>5. /\ queues'[own] = [messages |-> msgs, alive |-> TRUE]
      /\ taken'[own] = tkn
      /\ DOMAIN queues' = DOMAIN queues /\ DOMAIN taken' = DOMAIN taken
      /\ \A q \in DOMAIN queues \ {own} : queues'[q] = queues[q] /\ taken'[q] = taken[q]
  BY <1>3, <1>4, <1>t, MqTyped
<1>c. /\ content'[p] = old[1] /\ old[1] = sent[own][a + 1]
      /\ \A r \in Processes \ {p} : content'[r] = content[r]
  <2>1. content \in [Processes -> Processes \cup {"garbage", "nothing"}]
    BY <1>t DEF Mq!TypeOK
  <2>2. 1 \in 1 .. b
    BY <1>n
  <2> QED
    BY <2>1, <2>2, <1>1, <1>m, <1>n
<1>6. Mq!TypeOK'
  <2>1. queues' \in Seq([messages : Seq(Processes), alive : BOOLEAN])
        /\ Len(queues') = Len(queues)
    BY <1>4, <1>m, <1>t, ExceptSeq DEF Mq!TypeOK
  <2>2. taken' \in Seq(Seq(Processes)) /\ Len(taken') = Len(taken)
    BY <1>3, <1>4, <1>s, <1>t, MqTyped, ExceptSeq DEF Mq!TypeOK
  <2>3. content' \in [Processes -> Processes \cup {"garbage", "nothing"}]
    BY <1>1, <1>m, <1>t DEF Mq!TypeOK
  <2> QED
    BY <1>1, <2>1, <2>2, <2>3, <1>t DEF Mq!TypeOK
<1>7. /\ at'[p] = "0" /\ \A r \in Processes \ {p} : at'[r] = at[r]
      /\ Len(queues') = Len(queues)
  BY <1>1, <1>4, <1>6, <1>t, MqTyped DEF Mq!TypeOK
<1>8. Mq!HeldInv'
  BY <1>0, <1>1, <1>2, <1>7, <1>t, MqTyped DEF Mq!HeldInv
<1>9. \A r \in Processes : /\ Mq!Gone(r, "snd") <=> Mq!Gone(r, "snd")'
                           /\ Mq!Gone(r, "rcv") => Mq!Gone(r, "rcv")'
                           /\ Mq!Gone(r, "close") => Mq!Gone(r, "close")'
                           /\ r # p => (Mq!Gone(r, "rcv")' <=> Mq!Gone(r, "rcv"))
  BY <1>1, <1>2, <1>7 DEF Mq!Gone
<1>10. \A r \in Processes : Mq!RemovedUnder(r)' <=> Mq!RemovedUnder(r)
  BY <1>1, <1>2, <1>4, <1>3 DEF Mq!RemovedUnder, Mq!Queue
<1>11. Mq!QueueInv'
  <2> SUFFICES ASSUME NEW q \in DOMAIN queues'
               PROVE  (LET messages == queues[q].messages IN
                       /\ Len(taken[q]) + Len(messages) <= Len(sent[q])
                       /\ \A n \in DOMAIN messages : messages[n] = sent[q][Len(taken[q]) + n]
                       /\ IF queues[q].alive
                          THEN Len(taken[q]) + Len(messages) = Len(sent[q])
                          ELSE \E cl \in Processes : Mq!Gone(cl, "close") /\ msqid[cl] = q)'
    BY DEF Mq!QueueInv, Mq!Aligned
  <2>2. CASE q # own
    <3>1. queues'[q] = queues[q] /\ taken'[q] = taken[q] /\ sent'[q] = sent[q]
      BY <2>2, <1>1, <1>5
    <3>2. \A cl \in Processes : Mq!Gone(cl, "close") => Mq!Gone(cl, "close")'
      BY <1>9
    <3>3. LET messages == queues[q].messages IN
          /\ Len(taken[q]) + Len(messages) <= Len(sent[q])
          /\ \A n \in DOMAIN messages : messages[n] = sent[q][Len(taken[q]) + n]
          /\ IF queues[q].alive
             THEN Len(taken[q]) + Len(messages) = Len(sent[q])
             ELSE \E cl \in Processes : Mq!Gone(cl, "close") /\ msqid[cl] = q
      BY <1>4, <1>t DEF Mq!QueueInv, Mq!Aligned
    <3>4. msqid' = msqid
      BY <1>1
    <3> QED
      BY <3>1, <3>2, <3>3, <3>4
  <2>3. CASE q = own
    <3>2. /\ queues'[own] = [messages |-> msgs, alive |-> TRUE]
          /\ sent'[own] = sent[own] /\ taken'[own] = tkn
      BY <1>1, <1>5
    <3>4. ASSUME NEW n \in 1 .. b - 1
          PROVE  msgs[n] = sent[own][(a + 1) + n]
      <4>0. n \in 1 .. b - 1 /\ a \in Nat /\ b \in Nat
        BY <1>n
      <4>1. n + 1 \in 1 .. b /\ a + (n + 1) = (a + 1) + n /\ n \in 1 .. Len(old) - 1
        <5>1. n + 1 \in 1 .. b /\ a + (n + 1) = (a + 1) + n
          BY <4>0
        <5> QED
          BY <4>0, <5>1, <1>a
      <4>2. msgs[n] = old[n + 1]
        BY <4>1, <1>m
      <4>3. old[n + 1] = sent[own][a + (n + 1)]
        BY <4>1, <1>n
      <4> QED
        BY <4>1, <4>2, <4>3
    <3> QED
      BY <2>3, <3>2, <3>4, <1>l, <1>n
  <2> QED
    BY <2>2, <2>3
<1>12. Mq!SentInv'
  <2>1. ASSUME NEW q \in DOMAIN sent', NEW n \in DOMAIN sent'[q]
        PROVE  (/\ Mq!Gone(sent[q][n], "snd") /\ msqid[sent[q][n]] = q
                /\ \A m \in DOMAIN sent[q] : sent[q][m] = sent[q][n] => m = n)'
    <3>1. q \in DOMAIN queues /\ sent[q][n] \in Processes
      BY <1>1, <1>t, MqTyped
    <3> QED
      BY <3>1, <1>1, <1>9, <1>t DEF Mq!SentInv
  <2>2. ASSUME NEW r \in Processes, Mq!Gone(r, "snd")'
        PROVE  (Mq!Contains(sent[msqid[r]], r) \/ Mq!RemovedUnder(r))'
    BY <2>2, <1>1, <1>9, <1>10, <1>t DEF Mq!SentInv
  <2> QED
    BY <2>1, <2>2 DEF Mq!SentInv
<1>13. Mq!TakenInv'
  <2>1. ASSUME NEW q \in DOMAIN taken', NEW n \in DOMAIN taken'[q]
        PROVE  (/\ Mq!Gone(taken[q][n], "rcv") /\ msqid[taken[q][n]] = q
                /\ content[taken[q][n]] = sent[q][n]
                /\ \A m \in DOMAIN taken[q] : taken[q][m] = taken[q][n] => m = n)'
    <3>0. q \in DOMAIN queues /\ q \in DOMAIN taken
      BY <1>5, <1>t, MqTyped
    <3>f. \A m \in DOMAIN taken[q] : taken[q][m] # p /\ taken[q][m] \in Processes
      BY <3>0, <1>1, <1>t, MqFresh, MqTyped
    <3>1. CASE q # own
      <4>1. taken'[q] = taken[q] /\ sent'[q] = sent[q]
        BY <3>0, <3>1, <1>1, <1>5
      <4>2. /\ Mq!Gone(taken[q][n], "rcv") /\ msqid[taken[q][n]] = q
            /\ content[taken[q][n]] = sent[q][n]
            /\ \A m \in DOMAIN taken[q] : taken[q][m] = taken[q][n] => m = n
        BY <3>0, <4>1, <1>t DEF Mq!TakenInv
      <4>3. /\ Mq!Gone(taken[q][n], "rcv")' /\ msqid' = msqid
            /\ content'[taken[q][n]] = content[taken[q][n]]
        BY <3>f, <4>1, <4>2, <1>1, <1>9, <1>c
      <4> QED
        BY <4>1, <4>2, <4>3
    <3>2. CASE q = own
      <4>1. DOMAIN taken'[q] = 1 .. a + 1 /\ DOMAIN taken[q] = 1 .. a
        BY <3>2, <1>5, <1>n
      <4>2. \A m \in DOMAIN taken[q] : taken'[q][m] = taken[q][m]
        BY <3>2, <4>1, <1>5, <1>l
      <4>3. /\ taken'[q][a + 1] = p /\ Mq!Gone(p, "rcv")' /\ msqid'[p] = q
            /\ content'[p] = sent'[q][a + 1]
        BY <3>2, <1>0, <1>1, <1>2, <1>5, <1>l, <1>7, <1>c DEF Mq!Gone
      <4>4. CASE n = a + 1
        <5>1. taken'[q][n] = p /\ content'[p] = sent'[q][n]
          BY <4>3, <4>4
        <5>2. ASSUME NEW m \in DOMAIN taken'[q], m # n PROVE taken'[q][m] # p
          <6>1. m \in DOMAIN taken[q]
            BY <5>2, <4>1, <4>4, <1>n
          <6> QED
            BY <6>1, <4>2, <3>f
        <5>3. /\ at'[taken'[q][n]] = "0" /\ cmd'[taken'[q][n]] = "rcv"
              /\ msqid'[taken'[q][n]] = q /\ content'[taken'[q][n]] = sent'[q][n]
          BY <4>3, <5>1 DEF Mq!Gone
        <5> QED
          BY <5>1, <5>2, <5>3 DEF Mq!Gone
      <4>5. CASE n \in DOMAIN taken[q]
        <5>1. taken'[q][n] = taken[q][n] /\ taken[q][n] \in Processes \ {p}
          BY <3>f, <4>2, <4>5
        <5>2. /\ at'[taken[q][n]] = "0" /\ cmd'[taken[q][n]] = "rcv"
              /\ msqid[taken[q][n]] = q /\ content'[taken[q][n]] = sent[q][n]
              /\ \A m \in DOMAIN taken[q] : taken[q][m] = taken[q][n] => m = n
          <6>1. /\ Mq!Gone(taken[q][n], "rcv") /\ msqid[taken[q][n]] = q
                /\ content[taken[q][n]] = sent[q][n]
                /\ \A m \in DOMAIN taken[q] : taken[q][m] = taken[q][n] => m = n
            BY <3>0, <4>5, <1>t DEF Mq!TakenInv
          <6>2. PICK r : r = taken[q][n]
            OBVIOUS
          <6>3. r \in Processes \ {p} /\ Mq!Gone(r, "rcv")
            BY <5>1, <6>1, <6>2
          <6>4. Mq!Gone(r, "rcv")' /\ content'[r] = content[r]
            BY <6>3, <1>9, <1>c
          <6>5. taken[q][n] = r /\ at'[r] = "0" /\ cmd'[r] = "rcv"
            BY <6>2, <6>4 DEF Mq!Gone
          <6> QED
            BY <6>1, <6>4, <6>5
        <5>3. taken'[q][n] = taken[q][n] /\ msqid' = msqid /\ sent' = sent
          BY <5>1, <1>1
        <5>4. \A m \in DOMAIN taken'[q] : taken'[q][m] = taken'[q][n] => m = n
          <6>1. SUFFICES ASSUME NEW m \in DOMAIN taken'[q], taken'[q][m] = taken'[q][n]
                         PROVE  m = n
            OBVIOUS
          <6>2. m # a + 1
            BY <6>1, <5>1, <4>3
          <6>3. m \in DOMAIN taken[q]
            BY <6>1, <6>2, <4>1, <1>n
          <6> QED
            BY <6>1, <6>3, <4>2, <5>2, <5>3
        <5> QED
          BY <5>2, <5>3, <5>4 DEF Mq!Gone
      <4> QED
        BY <4>1, <4>4, <4>5, <1>n
    <3> QED
      BY <3>1, <3>2
  <2>2. ASSUME NEW r \in Processes, Mq!Gone(r, "rcv")'
        PROVE  (\/ Mq!Contains(taken[msqid[r]], r)
                \/ content[r] = "garbage" /\ Mq!RemovedUnder(r))'
    <3>1. CASE r = p
      <4>1. a + 1 \in 1 .. Len(tkn)
        BY <1>n, <1>l
      <4>2. taken'[msqid'[r]] = tkn /\ tkn[a + 1] = r
        BY <3>1, <1>0, <1>1, <1>5, <1>l
      <4> QED
        BY <4>1, <4>2 DEF Mq!Contains
    <3>2. CASE r # p
      <4>1. /\ Mq!Gone(r, "rcv")
            /\ \/ Mq!Contains(taken[msqid[r]], r)
               \/ content[r] = "garbage" /\ Mq!RemovedUnder(r)
        BY <2>2, <3>2, <1>9, <1>t DEF Mq!TakenInv
      <4>2. msqid[r] \in DOMAIN queues
        BY <4>1, <1>t, MqTyped DEF Mq!HeldInv, Mq!Gone
      <4>3. CASE msqid[r] # own
        BY <3>2, <4>1, <4>2, <4>3, <1>1, <1>5, <1>10, <1>c
      <4>4. CASE Mq!Contains(taken[own], r) /\ msqid[r] = own
        <5>1. PICK m \in 1 .. a : taken[own][m] = r
          BY <4>4, <1>l DEF Mq!Contains
        <5>2. m \in 1 .. Len(tkn) /\ tkn[m] = r
          BY <5>1, <1>l, <1>n
        <5> QED
          BY <4>4, <5>2, <1>1, <1>5 DEF Mq!Contains
      <4> QED
        BY <3>2, <4>1, <4>3, <4>4, <1>10, <1>c
    <3> QED
      BY <3>1, <3>2
  <2> QED
    BY <2>1, <2>2 DEF Mq!TakenInv
<1> QED
  BY <1>6, <1>8, <1>11, <1>12, <1>13 DEF Mq!QueueInvariant

(* Queue msqid[p] is removed.                                              *)
LEMMA MqCloses ==
  ASSUME Mq!QueueInvariant, NEW p \in Processes, Mq!Close(p)
  PROVE  Mq!QueueInvariant'
<1>t. Mq!TypeOK /\ Mq!HeldInv /\ Mq!QueueInv /\ Mq!SentInv /\ Mq!TakenInv
  BY DEF Mq!QueueInvariant
<1>0. PICK own \in DOMAIN queues : own = msqid[p]
  BY <1>t, MqTyped DEF Mq!HeldInv, Mq!Close
<1>1. /\ at[p] = "msgctl" /\ at' = [at EXCEPT ![p] = "0"]
      /\ queues' = [queues EXCEPT ![own] = [messages |-> <<>>, alive |-> FALSE]]
      /\ UNCHANGED <<cmd, msqid, content, sent, taken>>
  BY <1>0 DEF Mq!Close, Mq!Exit
<1>2. cmd[p] = "close"
  BY <1>1, <1>t DEF Mq!HeldInv
<1>5. /\ queues'[own] = [messages |-> <<>>, alive |-> FALSE]
      /\ DOMAIN queues' = DOMAIN queues
      /\ \A q \in DOMAIN queues \ {own} : queues'[q] = queues[q]
  BY <1>1
<1>6. Mq!TypeOK'
  <2>1. [messages |-> <<>>, alive |-> FALSE] \in [messages : Seq(Processes), alive : BOOLEAN]
    OBVIOUS
  <2>2. queues' \in Seq([messages : Seq(Processes), alive : BOOLEAN])
        /\ Len(queues') = Len(queues)
    BY <1>1, <2>1, <1>t, ExceptSeq DEF Mq!TypeOK
  <2> QED
    BY <1>1, <2>2, <1>t DEF Mq!TypeOK
<1>7. /\ at'[p] = "0" /\ \A r \in Processes \ {p} : at'[r] = at[r]
      /\ Len(queues') = Len(queues)
  BY <1>1, <1>6, <1>t, MqTyped DEF Mq!TypeOK
<1>8. Mq!HeldInv'
  BY <1>0, <1>1, <1>2, <1>7, <1>t, MqTyped DEF Mq!HeldInv
<1>9. \A r \in Processes : /\ Mq!Gone(r, "snd") <=> Mq!Gone(r, "snd")'
                           /\ Mq!Gone(r, "rcv") <=> Mq!Gone(r, "rcv")'
                           /\ Mq!Gone(r, "close") => Mq!Gone(r, "close")'
  BY <1>1, <1>2, <1>7 DEF Mq!Gone
<1>10. \A r \in Processes : Mq!RemovedUnder(r) => Mq!RemovedUnder(r)'
  BY <1>1, <1>5 DEF Mq!RemovedUnder, Mq!Queue
<1>11. Mq!QueueInv'
  <2> SUFFICES ASSUME NEW q \in DOMAIN queues'
               PROVE  (LET messages == queues[q].messages IN
                       /\ Len(taken[q]) + Len(messages) <= Len(sent[q])
                       /\ \A n \in DOMAIN messages : messages[n] = sent[q][Len(taken[q]) + n]
                       /\ IF queues[q].alive
                          THEN Len(taken[q]) + Len(messages) = Len(sent[q])
                          ELSE \E c \in Processes : Mq!Gone(c, "close") /\ msqid[c] = q)'
    BY DEF Mq!QueueInv, Mq!Aligned
  <2>1. LET messages == queues[q].messages IN
        /\ Len(taken[q]) + Len(messages) <= Len(sent[q])
        /\ \A n \in DOMAIN messages : messages[n] = sent[q][Len(taken[q]) + n]
        /\ IF queues[q].alive
           THEN Len(taken[q]) + Len(messages) = Len(sent[q])
           ELSE \E c \in Processes : Mq!Gone(c, "close") /\ msqid[c] = q
    BY <1>5, <1>t DEF Mq!QueueInv, Mq!Aligned
  <2>2. CASE q # own
    <3>1. queues'[q] = queues[q]
      BY <2>2, <1>5
    <3>2. \A c \in Processes : Mq!Gone(c, "close") => Mq!Gone(c, "close")'
      BY <1>9
    <3>3. msqid' = msqid /\ sent' = sent /\ taken' = taken
      BY <1>1
    <3> QED
      BY <3>1, <3>2, <3>3, <2>1
  <2>3. CASE q = own
    <3>1. PICK a, b, c : a = Len(taken[q]) /\ b = Len(queues[q].messages) /\ c = Len(sent[q])
      OBVIOUS
    <3>2. a \in Nat /\ b \in Nat /\ c \in Nat /\ a + b <= c
      BY <2>1, <3>1, <1>5, <1>t, MqTyped
    <3>3. a + 0 <= c
      BY <3>2
    <3>4. Mq!Gone(p, "close")' /\ msqid'[p] = q
      BY <2>3, <1>0, <1>1, <1>2, <1>7 DEF Mq!Gone
    <3> QED
      BY <2>3, <3>1, <3>3, <3>4, <1>1, <1>5
  <2> QED
    BY <2>2, <2>3
<1>12. Mq!SentInv'
  <2>1. ASSUME NEW q \in DOMAIN sent', NEW n \in DOMAIN sent'[q]
        PROVE  (/\ Mq!Gone(sent[q][n], "snd") /\ msqid[sent[q][n]] = q
                /\ \A m \in DOMAIN sent[q] : sent[q][m] = sent[q][n] => m = n)'
    <3>1. q \in DOMAIN queues /\ sent[q][n] \in Processes
      BY <1>1, <1>t, MqTyped
    <3> QED
      BY <3>1, <1>1, <1>9, <1>t DEF Mq!SentInv
  <2>2. ASSUME NEW r \in Processes, Mq!Gone(r, "snd")'
        PROVE  (Mq!Contains(sent[msqid[r]], r) \/ Mq!RemovedUnder(r))'
    BY <2>2, <1>1, <1>9, <1>10, <1>t DEF Mq!SentInv
  <2> QED
    BY <2>1, <2>2 DEF Mq!SentInv
<1>13. Mq!TakenInv'
  <2>1. ASSUME NEW q \in DOMAIN taken', NEW n \in DOMAIN taken'[q]
        PROVE  (/\ Mq!Gone(taken[q][n], "rcv") /\ msqid[taken[q][n]] = q
                /\ content[taken[q][n]] = sent[q][n]
                /\ \A m \in DOMAIN taken[q] : taken[q][m] = taken[q][n] => m = n)'
    <3>1. q \in DOMAIN queues /\ taken[q][n] \in Processes
      BY <1>1, <1>t, MqTyped
    <3> QED
      BY <3>1, <1>1, <1>9, <1>t DEF Mq!TakenInv
  <2>2. ASSUME NEW r \in Processes, Mq!Gone(r, "rcv")'
        PROVE  (\/ Mq!Contains(taken[msqid[r]], r)
                \/ content[r] = "garbage" /\ Mq!RemovedUnder(r))'
    BY <2>2, <1>1, <1>9, <1>10, <1>t DEF Mq!TakenInv
  <2> QED
    BY <2>1, <2>2 DEF Mq!TakenInv
<1> QED
  BY <1>6, <1>8, <1>11, <1>12, <1>13 DEF Mq!QueueInvariant

LEMMA MqStutter ==
  ASSUME Mq!QueueInvariant,
         UNCHANGED <<cmd, at, content, msqid, queues, sent, taken>>
  PROVE  Mq!QueueInvariant'
<1>t. Mq!TypeOK /\ Mq!HeldInv /\ Mq!QueueInv /\ Mq!SentInv /\ Mq!TakenInv
  BY DEF Mq!QueueInvariant
<1>1. Mq!TypeOK' /\ Mq!HeldInv'
  BY <1>t DEF Mq!TypeOK, Mq!HeldInv
<1>2. \A p : /\ \A c : Mq!Gone(p, c)' <=> Mq!Gone(p, c)
             /\ Mq!RemovedUnder(p)' <=> Mq!RemovedUnder(p)
  BY DEF Mq!Gone, Mq!RemovedUnder, Mq!Queue
<1>3. Mq!QueueInv'
  <2>1. \A q \in DOMAIN queues : Mq!Aligned(q)
    BY <1>t DEF Mq!QueueInv
  <2>2. \A q : Mq!Aligned(q)' <=> Mq!Aligned(q)
    BY DEF Mq!Aligned
  <2>3. \A q \in DOMAIN queues : ~queues[q].alive =>
           \E c \in Processes : Mq!Gone(c, "close") /\ msqid[c] = q
    BY <1>t DEF Mq!QueueInv
  <2>4. \A q \in DOMAIN queues :
           ~queues'[q].alive => \E c \in Processes : Mq!Gone(c, "close")' /\ msqid'[c] = q
    BY <1>2, <2>3
  <2>5. DOMAIN queues' = DOMAIN queues
    OBVIOUS
  <2> QED
    BY <2>1, <2>2, <2>4, <2>5 DEF Mq!QueueInv
<1>4. Mq!SentInv'
  BY <1>2, <1>t DEF Mq!SentInv
<1>5. Mq!TakenInv'
  <2>1. ASSUME NEW q \in DOMAIN taken', NEW n \in DOMAIN taken'[q]
        PROVE  (/\ Mq!Gone(taken[q][n], "rcv") /\ msqid[taken[q][n]] = q
                /\ content[taken[q][n]] = sent[q][n]
                /\ \A m \in DOMAIN taken[q] : taken[q][m] = taken[q][n] => m = n)'
    BY <1>2, <1>t DEF Mq!TakenInv
  <2>2. ASSUME NEW r \in Processes, Mq!Gone(r, "rcv")'
        PROVE  (\/ Mq!Contains(taken[msqid[r]], r)
                \/ content[r] = "garbage" /\ Mq!RemovedUnder(r))'
    BY <2>2, <1>2, <1>t DEF Mq!TakenInv
  <2> QED
    BY <2>1, <2>2 DEF Mq!TakenInv
<1> QED
  BY <1>1, <1>3, <1>4, <1>5 DEF Mq!QueueInvariant

LEMMA MqNext ==
  ASSUME Mq!QueueInvariant, Mq!Next
  PROVE  Mq!QueueInvariant'
<1>1. PICK p \in Processes : Mq!Step(p)
  BY DEF Mq!Next
<1>2. CASE Mq!Create(p) /\ Mq!Current = {}
  BY <1>2, MqCreates
<1>3. CASE Mq!Msgsnd(p) /\ Mq!Queue(p).alive
  BY <1>3, MqSends
<1>4. CASE Mq!Msgrcv(p) /\ Mq!Queue(p).alive
  BY <1>4, MqTakes
<1>5. CASE Mq!Close(p)
  BY <1>5, MqCloses
<1>6. CASE \/ Mq!Start(p)
           \/ Mq!Create(p) /\ Mq!Current # {}
           \/ Mq!Msgget(p)
           \/ Mq!Msgsnd(p) /\ ~Mq!Queue(p).alive
           \/ Mq!Msgrcv(p) /\ ~Mq!Queue(p).alive
  BY <1>6, MqQuietSteps
<1> QED
  BY <1>1, <1>2, <1>3, <1>4, <1>5, <1>6 DEF Mq!Step

(* The one queue a sender that is done is in.                              *)
LEMMA MqSentOnce ==
  ASSUME Mq!QueueInvariant, NEW p \in Processes, Mq!Gone(p, "snd")
  PROVE  \/ \E q \in DOMAIN sent : {r \in DOMAIN sent : Mq!Contains(sent[r], p)} = {q}
         \/ Mq!RemovedUnder(p)
<1>t. Mq!TypeOK /\ Mq!HeldInv /\ Mq!SentInv
  BY DEF Mq!QueueInvariant
<1>1. CASE Mq!Contains(sent[msqid[p]], p)
  <2>1. msqid[p] \in DOMAIN sent
    BY <1>t, MqTyped DEF Mq!HeldInv, Mq!Gone
  <2>2. ASSUME NEW q \in DOMAIN sent, Mq!Contains(sent[q], p)
        PROVE  q = msqid[p]
    <3>1. DOMAIN sent[q] = 1 .. Len(sent[q])
      BY <1>t, MqTyped
    <3>2. PICK n \in DOMAIN sent[q] : sent[q][n] = p
      BY <2>2, <3>1 DEF Mq!Contains
    <3> QED
      BY <3>2, <1>t DEF Mq!SentInv
  <2>3. {r \in DOMAIN sent : Mq!Contains(sent[r], p)} = {msqid[p]}
    BY <1>1, <2>1, <2>2
  <2> QED
    BY <2>1, <2>3
<1> QED
  BY <1>1, <1>t DEF Mq!SentInv

(* What the receivers of a queue prt is a beginning of what was sent.  *)
LEMMA MqPrinted ==
  ASSUME Mq!QueueInvariant, NEW q \in DOMAIN queues, NEW pr,
         pr = [n \in DOMAIN taken[q] |-> content[taken[q][n]]]
  PROVE  /\ pr \in Seq(Processes) /\ Len(pr) = Len(taken[q])
         /\ DOMAIN pr = 1 .. Len(taken[q]) /\ Len(taken[q]) <= Len(sent[q])
         /\ \A n \in 1 .. Len(taken[q]) : pr[n] = sent[q][n]
<1>t. Mq!TypeOK /\ Mq!QueueInv /\ Mq!TakenInv
  BY DEF Mq!QueueInvariant
<1>1. PICK a, b, c : a = Len(taken[q]) /\ b = Len(queues[q].messages) /\ c = Len(sent[q])
  OBVIOUS
<1>2. a \in Nat /\ b \in Nat /\ c \in Nat /\ a + b <= c
  BY <1>1, <1>t, MqTyped DEF Mq!QueueInv, Mq!Aligned
<1>3. a <= c /\ \A n \in 1 .. a : n \in 1 .. c
  BY <1>2
<1>4. DOMAIN taken[q] = 1 .. a /\ DOMAIN sent[q] = 1 .. c /\ q \in DOMAIN taken
  BY <1>1, <1>t, MqTyped
<1>5. \A n \in 1 .. a : pr[n] = sent[q][n] /\ sent[q][n] \in Processes
  BY <1>3, <1>4, <1>t, MqTyped DEF Mq!TakenInv
<1>6. pr \in [1 .. a -> Processes]
  BY <1>4, <1>5
<1>7. pr \in Seq(Processes) /\ Len(pr) = a
  BY <1>2, <1>6, IsASeq
<1> QED
  BY <1>1, <1>3, <1>4, <1>5, <1>7

LEMMA MqLine ==
  ASSUME Mq!QueueInvariant, NEW q \in DOMAIN queues, NEW pr,
         pr = [n \in DOMAIN taken[q] |-> content[taken[q][n]]]
  PROVE  IF queues[q].alive THEN sent[q] = pr \o queues[q].messages
         ELSE Mq!IsPrefix(pr, sent[q])
<1>t. Mq!TypeOK /\ Mq!QueueInv
  BY DEF Mq!QueueInvariant
<1>0. PICK msgs, snt : msgs = queues[q].messages /\ snt = sent[q]
  OBVIOUS
<1>1. PICK a, b, c : a = Len(taken[q]) /\ b = Len(msgs) /\ c = Len(snt)
  OBVIOUS
<1>2. /\ a \in Nat /\ b \in Nat /\ c \in Nat /\ a + b <= c
      /\ msgs \in Seq(Processes) /\ snt \in Seq(Processes)
  BY <1>0, <1>1, <1>t, MqTyped DEF Mq!QueueInv, Mq!Aligned
<1>3. /\ pr \in Seq(Processes) /\ Len(pr) = a /\ a <= c
      /\ \A n \in 1 .. a : pr[n] = snt[n]
  BY <1>0, <1>1, MqPrinted
<1>4. CASE queues[q].alive
  <2>1. a + b = c /\ \A n \in 1 .. b : msgs[n] = snt[a + n]
    <3>1. DOMAIN msgs = 1 .. b
      BY <1>1, <1>2
    <3>2. LET messages == queues[q].messages IN
          /\ \A n \in DOMAIN messages : messages[n] = sent[q][Len(taken[q]) + n]
          /\ IF queues[q].alive
             THEN Len(taken[q]) + Len(messages) = Len(sent[q])
             ELSE \E cl \in Processes : Mq!Gone(cl, "close") /\ msqid[cl] = q
      BY <1>t DEF Mq!QueueInv, Mq!Aligned
    <3> QED
      BY <3>1, <3>2, <1>0, <1>1, <1>4
  <2>2. /\ pr \o msgs \in Seq(Processes) /\ Len(pr \o msgs) = a + b
        /\ \A n \in 1 .. a + b : (pr \o msgs)[n] = IF n <= a THEN pr[n] ELSE msgs[n - a]
    <3>1. pr \in Seq(Processes) /\ msgs \in Seq(Processes)
      BY <1>2, <1>3
    <3>2. /\ pr \o msgs \in Seq(Processes) /\ Len(pr \o msgs) = Len(pr) + Len(msgs)
          /\ \A n \in 1 .. Len(pr) + Len(msgs) :
                (pr \o msgs)[n] = IF n <= Len(pr) THEN pr[n] ELSE msgs[n - Len(pr)]
      BY <3>1, ConcatProperties
    <3> QED
      BY <3>2, <1>1, <1>3
  <2>3. ASSUME NEW n \in 1 .. a + b
        PROVE  (pr \o msgs)[n] = snt[n]
    <3>1. CASE n <= a
      <4>1. n \in 1 .. a
        BY <1>2, <3>1
      <4> QED
        BY <4>1, <3>1, <2>2, <1>3
    <3>2. CASE ~(n <= a)
      <4>1. n - a \in 1 .. b /\ a + (n - a) = n
        BY <1>2, <3>2
      <4>2. msgs[n - a] = snt[a + (n - a)]
        BY <4>1, <2>1
      <4> QED
        BY <4>1, <4>2, <3>2, <2>2
    <3> QED
      BY <3>1, <3>2
  <2>4. pr \o msgs = snt
    <3>1. Len(pr \o msgs) = Len(snt)
      BY <2>1, <2>2, <1>1
    <3>2. \A n \in 1 .. Len(pr \o msgs) : (pr \o msgs)[n] = snt[n]
      BY <2>2, <2>3
    <3> QED
      BY <3>1, <3>2, <2>2, <1>2, SeqEqual
  <2> QED
    BY <2>4, <1>0, <1>4
<1>5. CASE ~queues[q].alive
  <2>1. /\ SubSeq(pr, 1, a) \in Seq(Processes) /\ Len(SubSeq(pr, 1, a)) = a
        /\ \A n \in 1 .. a : SubSeq(pr, 1, a)[n] = pr[n]
    <3>1. \A n \in 1 .. a : pr[n] \in Processes
      BY <1>2, <1>3
    <3>2. /\ SubSeq(pr, 1, a) \in Seq(Processes)
          /\ Len(SubSeq(pr, 1, a)) = IF 1 <= a THEN a - 1 + 1 ELSE 0
          /\ \A n \in 1 .. a - 1 + 1 : SubSeq(pr, 1, a)[n] = pr[1 + n - 1]
      <4>1. 1 \in Int /\ a \in Int
        BY <1>2
      <4> QED
        BY <3>1, <4>1, SubSeqProperties
    <3>3. a - 1 + 1 = a /\ (IF 1 <= a THEN a - 1 + 1 ELSE 0) = a
      BY <1>2
    <3>4. \A n \in 1 .. a : 1 + n - 1 = n
      OBVIOUS
    <3> QED
      BY <3>2, <3>3, <3>4
  <2>2. /\ SubSeq(snt, 1, a) \in Seq(Processes) /\ Len(SubSeq(snt, 1, a)) = a
        /\ \A n \in 1 .. a : SubSeq(snt, 1, a)[n] = snt[n]
    <3>1. \A n \in 1 .. a : snt[n] \in Processes
      BY <1>1, <1>2, <1>3
    <3>2. /\ SubSeq(snt, 1, a) \in Seq(Processes)
          /\ Len(SubSeq(snt, 1, a)) = IF 1 <= a THEN a - 1 + 1 ELSE 0
          /\ \A n \in 1 .. a - 1 + 1 : SubSeq(snt, 1, a)[n] = snt[1 + n - 1]
      <4>1. 1 \in Int /\ a \in Int
        BY <1>2
      <4> QED
        BY <3>1, <4>1, SubSeqProperties
    <3>3. a - 1 + 1 = a /\ (IF 1 <= a THEN a - 1 + 1 ELSE 0) = a
      BY <1>2
    <3>4. \A n \in 1 .. a : 1 + n - 1 = n
      OBVIOUS
    <3> QED
      BY <3>2, <3>3, <3>4
  <2>3. SubSeq(pr, 1, a) = SubSeq(snt, 1, a)
    <3>1. /\ Len(SubSeq(pr, 1, a)) = Len(SubSeq(snt, 1, a))
          /\ \A n \in 1 .. Len(SubSeq(pr, 1, a)) : SubSeq(pr, 1, a)[n] = SubSeq(snt, 1, a)[n]
      BY <2>1, <2>2, <1>3
    <3> QED
      BY <3>1, <2>1, <2>2, SeqEqual
  <2> QED
    BY <2>3, <1>0, <1>1, <1>3, <1>5 DEF Mq!IsPrefix
<1> QED
  BY <1>4, <1>5

(* Two receivers never print the same message.                             *)
LEMMA MqNoTwo ==
  ASSUME Mq!QueueInvariant, NEW p \in Processes, NEW r \in Processes, p # r,
         Mq!Gone(p, "rcv"), Mq!Gone(r, "rcv"), content[p] = content[r]
  PROVE  content[p] = "garbage"
<1>t. Mq!TypeOK /\ Mq!HeldInv /\ Mq!QueueInv /\ Mq!SentInv /\ Mq!TakenInv
  BY DEF Mq!QueueInvariant
<1> SUFFICES ASSUME content[p] # "garbage" PROVE FALSE
  OBVIOUS
<1>1. ASSUME NEW x \in Processes, Mq!Gone(x, "rcv"), content[x] # "garbage"
      PROVE  /\ msqid[x] \in DOMAIN queues
             /\ \E n \in DOMAIN taken[msqid[x]] :
                   /\ taken[msqid[x]][n] = x /\ n \in DOMAIN sent[msqid[x]]
                   /\ content[x] = sent[msqid[x]][n]
  <2>1. msqid[x] \in DOMAIN queues
    BY <1>1, <1>t, MqTyped DEF Mq!HeldInv, Mq!Gone
  <2>2. Mq!Contains(taken[msqid[x]], x)
    BY <1>1, <1>t DEF Mq!TakenInv
  <2>3. DOMAIN taken[msqid[x]] = 1 .. Len(taken[msqid[x]])
    BY <2>1, <1>t, MqTyped
  <2>4. PICK n \in DOMAIN taken[msqid[x]] : taken[msqid[x]][n] = x
    BY <2>2, <2>3 DEF Mq!Contains
  <2>5. content[x] = sent[msqid[x]][n]
    BY <2>1, <2>4, <1>t, MqTyped DEF Mq!TakenInv
  <2>6. n \in DOMAIN sent[msqid[x]]
    <3>1. PICK a, b, c : /\ a = Len(taken[msqid[x]]) /\ b = Len(queues[msqid[x]].messages)
                         /\ c = Len(sent[msqid[x]])
      OBVIOUS
    <3>2. a \in Nat /\ b \in Nat /\ c \in Nat /\ a + b <= c
      BY <2>1, <3>1, <1>t, MqTyped DEF Mq!QueueInv, Mq!Aligned
    <3>3. n \in 1 .. a
      BY <2>3, <3>1
    <3>4. n \in 1 .. c
      BY <3>2, <3>3
    <3> QED
      BY <3>4, <3>1, <2>1, <1>t, MqTyped
  <2> QED
    BY <2>1, <2>4, <2>5, <2>6
<1>2. PICK n \in DOMAIN taken[msqid[p]] :
           /\ taken[msqid[p]][n] = p /\ n \in DOMAIN sent[msqid[p]]
           /\ content[p] = sent[msqid[p]][n]
  BY <1>1
<1>3. PICK m \in DOMAIN taken[msqid[r]] :
           /\ taken[msqid[r]][m] = r /\ m \in DOMAIN sent[msqid[r]]
           /\ content[r] = sent[msqid[r]][m]
  BY <1>1
<1>4. msqid[p] \in DOMAIN sent /\ msqid[r] \in DOMAIN sent
  BY <1>1, <1>t, MqTyped
<1>5. msqid[p] = msqid[r]
  <2>1. PICK s : s = sent[msqid[p]][n]
    OBVIOUS
  <2>2. s = sent[msqid[r]][m]
    BY <2>1, <1>2, <1>3
  <2>3. msqid[s] = msqid[p]
    BY <2>1, <1>2, <1>4, <1>t DEF Mq!SentInv
  <2>4. msqid[s] = msqid[r]
    BY <2>2, <1>3, <1>4, <1>t DEF Mq!SentInv
  <2> QED
    BY <2>3, <2>4
<1>6. m = n
  <2>1. /\ msqid[p] \in DOMAIN sent
        /\ n \in DOMAIN sent[msqid[p]] /\ m \in DOMAIN sent[msqid[p]]
        /\ sent[msqid[p]][m] = sent[msqid[p]][n]
    BY <1>2, <1>3, <1>4, <1>5
  <2> QED
    BY <2>1, <1>t DEF Mq!SentInv
<1> QED
  BY <1>2, <1>3, <1>5, <1>6

LEMMA MqImplies == Mq!QueueInvariant => Mq!MessagesInOrder
<1> SUFFICES ASSUME Mq!QueueInvariant PROVE Mq!MessagesInOrder
  OBVIOUS
<1>t. Mq!TypeOK /\ Mq!HeldInv /\ Mq!QueueInv /\ Mq!TakenInv
  BY DEF Mq!QueueInvariant
<1>1. ASSUME NEW q \in DOMAIN queues
      PROVE  LET printd == [n \in DOMAIN taken[q] |-> content[taken[q][n]]]
             IN  IF queues[q].alive THEN sent[q] = printd \o queues[q].messages
                 ELSE Mq!IsPrefix(printd, sent[q])
  <2>1. PICK pr : pr = [n \in DOMAIN taken[q] |-> content[taken[q][n]]]
    OBVIOUS
  <2>2. IF queues[q].alive THEN sent[q] = pr \o queues[q].messages
        ELSE Mq!IsPrefix(pr, sent[q])
    BY <2>1, MqLine
  <2> QED
    BY <2>1, <2>2
<1>2. ASSUME NEW p \in Processes, Mq!Gone(p, "rcv"), content[p] = "garbage"
      PROVE  Mq!RemovedUnder(p)
  <2>1. SUFFICES ASSUME Mq!Contains(taken[msqid[p]], p) PROVE FALSE
    BY <1>2, <1>t DEF Mq!TakenInv
  <2>2. msqid[p] \in DOMAIN queues
    BY <1>2, <1>t, MqTyped DEF Mq!HeldInv, Mq!Gone
  <2>3. PICK pr : pr = [n \in DOMAIN taken[msqid[p]] |-> content[taken[msqid[p]][n]]]
    OBVIOUS
  <2>4. pr \in Seq(Processes) /\ DOMAIN pr = 1 .. Len(taken[msqid[p]])
    BY <2>2, <2>3, MqPrinted
  <2>5. PICK n \in 1 .. Len(taken[msqid[p]]) : taken[msqid[p]][n] = p
    BY <2>1 DEF Mq!Contains
  <2>6. pr[n] \in Processes
    BY <2>4, <2>5
  <2>7. pr[n] = "garbage"
    BY <2>3, <2>4, <2>5, <1>2
  <2> QED
    BY <2>6, <2>7, IpcConstants DEF Mq!QueueConstants
<1>3. ASSUME NEW p \in Processes, Mq!RemovedUnder(p)
      PROVE  \E c \in Processes : Mq!Gone(c, "close") /\ msqid[c] = msqid[p]
  BY <1>3, <1>t DEF Mq!QueueInv, Mq!Aligned, Mq!RemovedUnder, Mq!Queue
<1>4. \A p, r \in Processes :
          p # r /\ Mq!Gone(p, "rcv") /\ Mq!Gone(r, "rcv") /\ content[p] = content[r]
              => content[p] = "garbage"
  BY MqNoTwo
<1>5. \A p \in Processes :
          Mq!Gone(p, "snd") =>
              \/ \E q \in DOMAIN sent : {r \in DOMAIN sent : Mq!Contains(sent[r], p)} = {q}
              \/ Mq!RemovedUnder(p)
  BY MqSentOnce
<1>6. ASSUME NEW p \in Processes
      PROVE  /\ Mq!Gone(p, "snd") =>
                    \/ \E q \in DOMAIN sent : {r \in DOMAIN sent : Mq!Contains(sent[r], p)} = {q}
                    \/ Mq!RemovedUnder(p)
             /\ Mq!Gone(p, "rcv") /\ content[p] = "garbage" => Mq!RemovedUnder(p)
             /\ Mq!RemovedUnder(p) =>
                    \E c \in Processes : Mq!Gone(c, "close") /\ msqid[c] = msqid[p]
  BY <1>2, <1>3, <1>5
<1> QED
  BY <1>1, <1>4, <1>6, Zenon DEF Mq!MessagesInOrder

-----------------------------------------------------------------------------
(* The shared memory.                                                      *)

Once(l) == \A m, n \in DOMAIN l : l[m] = l[n] => m = n

LEMMA TheOne ==
  ASSUME NEW l, Once(l), NEW event, NEW n \in DOMAIN l, l[n] = event
  PROVE  (CHOOSE m \in DOMAIN l : l[m] = event) = n
  BY DEF Once

(* Where an event is logged.                                               *)
LEMMA ShmPosition ==
  ASSUME Shm!TypeOK, Once(log), NEW p, NEW e, NEW n \in DOMAIN log, log[n] = <<p, e>>
  PROVE  Shm!IsLogged(p, e) /\ Shm!Position(p, e) = n
<1>1. DOMAIN log = 1 .. Len(log)
  BY DEF Shm!TypeOK
<1>2. Shm!IsLogged(p, e)
  BY <1>1 DEF Shm!IsLogged, Shm!Contains
<1>3. \A m \in DOMAIN log : log[m] = <<p, e>> => m = n
  BY DEF Once
<1> QED
  BY <1>2, <1>3 DEF Shm!Position

LEMMA ShmLogged ==
  ASSUME Shm!TypeOK, Once(log), NEW p, NEW e, Shm!IsLogged(p, e)
  PROVE  Shm!Position(p, e) \in DOMAIN log /\ log[Shm!Position(p, e)] = <<p, e>>
<1>1. DOMAIN log = 1 .. Len(log)
  BY DEF Shm!TypeOK
<1>2. PICK n \in DOMAIN log : log[n] = <<p, e>>
  BY <1>1 DEF Shm!IsLogged, Shm!Contains
<1> QED
  BY <1>2, ShmPosition

(* One more event at the end of the log moves no other.                    *)
LEMMA ShmAppends ==
  ASSUME Shm!TypeOK, Once(log), Shm!TypeOK', NEW x \in Users, NEW ev \in {"begin", "end"},
         ~Shm!IsLogged(x, ev), log' = Append(log, <<x, ev>>)
  PROVE  /\ Once(log')
         /\ \A p, e : Shm!IsLogged(p, e)' <=> Shm!IsLogged(p, e) \/ (p = x /\ e = ev)
         /\ \A p, e : Shm!IsLogged(p, e) =>
               /\ Shm!Position(p, e)' = Shm!Position(p, e)
               /\ Shm!Position(p, e) \in 1 .. Len(log)
         /\ Shm!Position(x, ev)' = Len(log) + 1
         /\ Len(log) \in Nat
<1>1. /\ log \in Seq(Users \X {"begin", "end"}) /\ <<x, ev>> \in Users \X {"begin", "end"}
      /\ DOMAIN log = 1 .. Len(log) /\ Len(log) \in Nat
  BY DEF Shm!TypeOK
<1>2. /\ DOMAIN log' = 1 .. Len(log) + 1
      /\ log'[Len(log) + 1] = <<x, ev>>
      /\ \A n \in 1 .. Len(log) : log'[n] = log[n]
  <2>1. /\ Append(log, <<x, ev>>) \in Seq(Users \X {"begin", "end"})
        /\ Len(Append(log, <<x, ev>>)) = Len(log) + 1
        /\ Append(log, <<x, ev>>)[Len(log) + 1] = <<x, ev>>
        /\ \A n \in 1 .. Len(log) : Append(log, <<x, ev>>)[n] = log[n]
    BY <1>1, AppendProperties
  <2> QED
    BY <2>1
<1>3. \A n \in 1 .. Len(log) : log[n] # <<x, ev>>
  BY DEF Shm!IsLogged, Shm!Contains
<1>4. Once(log')
  BY <1>1, <1>2, <1>3 DEF Once
<1>5. ASSUME NEW p, NEW e, Shm!IsLogged(p, e)
      PROVE  /\ Shm!IsLogged(p, e)' /\ Shm!Position(p, e)' = Shm!Position(p, e)
             /\ Shm!Position(p, e) \in 1 .. Len(log)
  <2>1. PICK n : n = Shm!Position(p, e)
    OBVIOUS
  <2>2. n \in 1 .. Len(log) /\ log[n] = <<p, e>>
    BY <1>1, <1>5, <2>1, ShmLogged
  <2>3. n \in DOMAIN log' /\ log'[n] = <<p, e>>
    BY <1>1, <1>2, <2>2
  <2>4. (Shm!IsLogged(p, e) /\ Shm!Position(p, e) = n)'
    <3>1. DOMAIN log' = 1 .. Len(log')
      BY DEF Shm!TypeOK
    <3>2. Shm!IsLogged(p, e)'
      BY <2>3, <3>1 DEF Shm!IsLogged, Shm!Contains
    <3>3. Shm!Position(p, e)' = n
      BY <1>4, <2>3, TheOne DEF Shm!Position
    <3> QED
      BY <3>2, <3>3
  <2> QED
    BY <2>1, <2>2, <2>4
<1>6. Shm!IsLogged(x, ev)' /\ Shm!Position(x, ev)' = Len(log) + 1
  <2>1. PICK n : n = Len(log) + 1
    OBVIOUS
  <2>2. n \in DOMAIN log' /\ log'[n] = <<x, ev>>
    BY <1>1, <1>2, <2>1
  <2>3. (Shm!IsLogged(x, ev) /\ Shm!Position(x, ev) = n)'
    <3>1. DOMAIN log' = 1 .. Len(log')
      BY DEF Shm!TypeOK
    <3>2. Shm!IsLogged(x, ev)'
      BY <2>2, <3>1 DEF Shm!IsLogged, Shm!Contains
    <3>3. Shm!Position(x, ev)' = n
      BY <1>4, <2>2, TheOne DEF Shm!Position
    <3> QED
      BY <3>2, <3>3
  <2> QED
    BY <2>1, <2>3
<1>7. ASSUME NEW p, NEW e, Shm!IsLogged(p, e)'
      PROVE  Shm!IsLogged(p, e) \/ (p = x /\ e = ev)
  <2>1. PICK n \in DOMAIN log' : log'[n] = <<p, e>>
    <3>1. DOMAIN log' = 1 .. Len(log')
      BY DEF Shm!TypeOK
    <3> QED
      BY <3>1, <1>7 DEF Shm!IsLogged, Shm!Contains
  <2>2. CASE n = Len(log) + 1
    BY <2>1, <2>2, <1>2
  <2>3. CASE n \in 1 .. Len(log)
    BY <2>1, <2>3, <1>1, <1>2, ShmPosition
  <2> QED
    BY <2>2, <2>3, <1>1, <1>2
<1> QED
  BY <1>1, <1>4, <1>5, <1>6, <1>7

(* Which of two begun actions precedes the other is settled for good.      *)
LEMMA ShmFrozen ==
  ASSUME Shm!TypeOK, Once(log), Shm!TypeOK', NEW x \in Users, NEW ev \in {"begin", "end"},
         \/ log' = log
         \/ ~Shm!IsLogged(x, ev) /\ log' = Append(log, <<x, ev>>),
         NEW w \in Users, NEW p \in Users,
         Shm!IsLogged(w, "begin"), Shm!IsLogged(p, "begin")
  PROVE  Shm!Precedes(w, p)' <=> Shm!Precedes(w, p)
<1>1. CASE log' = log
  BY <1>1 DEF Shm!Precedes, Shm!IsLogged, Shm!Contains, Shm!Position
<1>2. CASE ~Shm!IsLogged(x, ev) /\ log' = Append(log, <<x, ev>>)
  <2>1. /\ \A q, e : Shm!IsLogged(q, e)' <=> Shm!IsLogged(q, e) \/ (q = x /\ e = ev)
        /\ \A q, e : Shm!IsLogged(q, e) =>
              /\ Shm!Position(q, e)' = Shm!Position(q, e)
              /\ Shm!Position(q, e) \in 1 .. Len(log)
        /\ Shm!Position(x, ev)' = Len(log) + 1
        /\ Len(log) \in Nat
    BY <1>2, ShmAppends
  <2>2. CASE Shm!IsLogged(w, "end")
    BY <2>1, <2>2 DEF Shm!Precedes
  <2>3. CASE ~Shm!IsLogged(w, "end")
    <3>1. ~Shm!Precedes(w, p)
      BY <2>3 DEF Shm!Precedes
    <3>2. SUFFICES ASSUME Shm!Precedes(w, p)' PROVE FALSE
      BY <3>1
    <3>3. w = x /\ ev = "end"
      BY <2>1, <2>3, <3>2 DEF Shm!Precedes
    <3>4. /\ Shm!Position(w, "end")' = Len(log) + 1
          /\ Shm!Position(p, "begin")' \in 1 .. Len(log)
          /\ Shm!IsLogged(p, "begin")'
      BY <2>1, <3>3
    <3>5. Shm!Position(w, "end")' < Shm!Position(p, "begin")'
      BY <3>2, <3>4 DEF Shm!Precedes
    <3>6. PICK a, b, c : /\ a = Shm!Position(w, "end")' /\ b = Shm!Position(p, "begin")'
                         /\ c = Len(log)
      OBVIOUS
    <3>7. a = c + 1 /\ b \in 1 .. c /\ a < b /\ c \in Nat
      BY <2>1, <3>4, <3>5, <3>6
    <3> QED
      BY <3>7
  <2> QED
    BY <2>2, <2>3
<1> QED
  BY <1>1, <1>2

(* What begins now comes after all that ended, and before nothing.         *)
LEMMA ShmBeginning ==
  ASSUME Shm!TypeOK, Once(log), Shm!TypeOK', NEW x \in Users,
         ~Shm!IsLogged(x, "begin"), ~Shm!IsLogged(x, "end"),
         log' = Append(log, <<x, "begin">>), NEW w \in Users
  PROVE  /\ Shm!Precedes(w, x)' <=> Shm!IsLogged(w, "end")
         /\ ~Shm!Precedes(x, w)'
<1>1. /\ \A q, e : Shm!IsLogged(q, e)' <=> Shm!IsLogged(q, e) \/ (q = x /\ e = "begin")
      /\ \A q, e : Shm!IsLogged(q, e) =>
            /\ Shm!Position(q, e)' = Shm!Position(q, e)
            /\ Shm!Position(q, e) \in 1 .. Len(log)
      /\ Shm!Position(x, "begin")' = Len(log) + 1
      /\ Len(log) \in Nat
  BY ShmAppends
<1>2. ~Shm!IsLogged(x, "end")' /\ (Shm!IsLogged(w, "end")' <=> Shm!IsLogged(w, "end"))
  BY <1>1
<1>3. ASSUME Shm!IsLogged(w, "end")
      PROVE  Shm!Position(w, "end")' < Shm!Position(x, "begin")'
  <2>1. PICK a, b, c : /\ a = Shm!Position(w, "end")' /\ b = Shm!Position(x, "begin")'
                       /\ c = Len(log)
    OBVIOUS
  <2>2. a \in 1 .. c /\ b = c + 1 /\ c \in Nat
    BY <1>1, <1>3, <2>1
  <2>3. a < b
    BY <2>2
  <2> QED
    BY <2>1, <2>3
<1> QED
  BY <1>2, <1>3 DEF Shm!Precedes

LEMMA ShmInit == Shm!Init => Shm!ShmInvariant
<1> SUFFICES ASSUME Shm!Init PROVE Shm!ShmInvariant
  OBVIOUS
<1> USE DEF Shm!Init
<1>1. Shm!TypeOK
  BY DEF Shm!TypeOK, Shm!Commands
<1>2. PAGE \in Nat
  BY IpcConstants DEF Shm!ShmConstants
<1>3. Shm!PlaceInv
  BY <1>2 DEF Shm!PlaceInv
<1>4. Shm!LogInv
  BY DEF Shm!LogInv, Shm!LogOK, Shm!IsLogged, Shm!Contains
<1>5. Shm!SegmentInv /\ Shm!LengthInv /\ Shm!ReadInv
  BY DEF Shm!SegmentInv, Shm!LengthInv, Shm!LengthOK, Shm!ReadInv, Shm!ReadOK
<1> QED
  BY <1>1, <1>3, <1>4, <1>5 DEF Shm!ShmInvariant

(* What strlen may find in the array content.                              *)
LEMMA ShmContents ==
  /\ <<>> \in Shm!Contents
  /\ \A text \in Shm!Contents : text \in Seq(Characters) /\ Len(text) \in Nat
<1>1. ASSUME NEW a \in Arguments, NEW b \in Stack
      PROVE  Shm!Found(a, b) \in Seq(Characters)
  <2>1. a \in Seq(Characters) /\ b \in Seq(Characters) /\ MAX_DATA \in Nat /\ Len(a) \in Nat
    BY IpcConstants DEF Shm!ShmConstants
  <2>2. ASSUME ~(Len(a) < MAX_DATA)
        PROVE  SubSeq(a, 1, MAX_DATA) \o b \in Seq(Characters)
    <3>1. SubSeq(a, 1, MAX_DATA) \in Seq(Characters)
      <4>1. \A n \in 1 .. MAX_DATA : n \in 1 .. Len(a)
        BY <2>1, <2>2
      <4> QED
        BY <4>1, <2>1, SubSeqProperties
    <3> QED
      BY <3>1, <2>1, ConcatProperties
  <2> QED
    BY <2>1, <2>2 DEF Shm!Found
<1>2. <<>> \in Seq(Characters)
  OBVIOUS
<1>3. <<>> \in Shm!Contents
  BY DEF Shm!Contents
<1>4. ASSUME NEW text \in Shm!Contents
      PROVE  text \in Seq(Characters)
  <2>1. \/ text = <<>>
        \/ \E a \in Arguments : \E b \in Stack : text = Shm!Found(a, b)
    BY SMT DEF Shm!Contents
  <2> QED
    BY <2>1, <1>1, <1>2
<1> QED
  BY <1>3, <1>4

(* They do not change.                                                     *)
LEMMA ShmContentsStay == Shm!Contents' = Shm!Contents
  BY DEF Shm!Contents, Shm!Found

(* What an action that has begun depends on stays, whoever moves: the      *)
(* copies before it, their order, and so the text it finds.  A copy that   *)
(* begins now can only be too late.                                        *)
LEMMA ShmKept ==
  ASSUME Shm!ShmInvariant, Shm!TypeOK', NEW x \in Users, NEW ev \in {"begin", "end"},
         \/ log' = log
         \/ ~Shm!IsLogged(x, ev) /\ log' = Append(log, <<x, ev>>),
         UNCHANGED <<cmd, content>>,
         \A q \in Users : Shm!IsLogged(q, "begin") => shm_id'[q] = shm_id[q],
         NEW p \in Users, Shm!IsLogged(p, "begin")
  PROVE  /\ Shm!Before(p)' = Shm!Before(p)
         /\ Shm!Apart(p)' => Shm!Apart(p)
         /\ Shm!Ordered(Shm!Before(p))' <=> Shm!Ordered(Shm!Before(p))
         /\ Shm!Ended(p)' <=> Shm!Ended(p)
         /\ \A text : Shm!IsText(p, text)' <=> Shm!IsText(p, text)
<1>t. Shm!TypeOK /\ Shm!LogInv /\ Once(log)
  BY DEF Shm!ShmInvariant, Shm!LogInv, Once
<1>1. \A w, v \in Users : Shm!IsLogged(w, "begin") /\ Shm!IsLogged(v, "begin") =>
          (Shm!Precedes(w, v)' <=> Shm!Precedes(w, v))
  BY <1>t, ShmFrozen
<1>2. \A q \in Users : /\ Shm!IsLogged(q, "begin") => Shm!IsLogged(q, "begin")'
                       /\ Shm!IsLogged(q, "begin")' =>
                             \/ Shm!IsLogged(q, "begin")
                             \/ /\ q = x /\ ~Shm!IsLogged(x, "begin")
                                /\ log' = Append(log, <<x, "begin">>)
  <2>1. CASE log' = log
    BY <2>1 DEF Shm!IsLogged, Shm!Contains
  <2>2. CASE ~Shm!IsLogged(x, ev) /\ log' = Append(log, <<x, ev>>)
    <3>1. \A q, e : Shm!IsLogged(q, e)' <=> Shm!IsLogged(q, e) \/ (q = x /\ e = ev)
      BY <2>2, <1>t, ShmAppends
    <3> QED
      BY <2>2, <3>1
  <2> QED
    BY <2>1, <2>2
<1>3. ASSUME NEW w \in Shm!Writers(shm_id[p])
      PROVE  /\ w \in Users /\ Shm!IsLogged(w, "begin")
             /\ w \in Shm!Writers(shm_id[p])'
             /\ Shm!Precedes(w, p)' <=> Shm!Precedes(w, p)
             /\ Shm!Precedes(p, w)' <=> Shm!Precedes(p, w)
  BY <1>1, <1>2 DEF Shm!Writers, Shm!UsersOf
<1>4. ASSUME NEW w \in Shm!Writers(shm_id[p])'
      PROVE  \/ w \in Shm!Writers(shm_id[p])
             \/ ~Shm!Precedes(w, p)'
  <2>1. w \in Users /\ Shm!IsLogged(w, "begin")' /\ shm_id'[w] = shm_id'[p] /\ cmd[w] = "write"
    BY <1>4 DEF Shm!Writers, Shm!UsersOf
  <2>2. CASE Shm!IsLogged(w, "begin")
    BY <2>1, <2>2 DEF Shm!Writers, Shm!UsersOf
  <2>3. CASE w = x /\ ~Shm!IsLogged(x, "begin") /\ log' = Append(log, <<x, "begin">>)
    <3>1. ~Shm!IsLogged(x, "end")
      BY <2>3, <1>t DEF Shm!LogInv, Shm!LogOK
    <3> QED
      BY <2>3, <3>1, <1>t, ShmBeginning
  <2> QED
    BY <2>1, <2>2, <2>3, <1>2
<1>5. shm_id'[p] = shm_id[p]
  OBVIOUS
<1>6. Shm!Before(p)' = Shm!Before(p)
  BY <1>3, <1>4, <1>5 DEF Shm!Before
<1>7. Shm!Apart(p)' => Shm!Apart(p)
  BY <1>3, <1>5 DEF Shm!Apart
<1>8. \A w, v \in Shm!Before(p) : Shm!Precedes(w, v)' <=> Shm!Precedes(w, v)
  BY <1>1, <1>3 DEF Shm!Before
<1>9. Shm!Ordered(Shm!Before(p))' <=> Shm!Ordered(Shm!Before(p))
  BY <1>6, <1>8 DEF Shm!Ordered
<1>10. ASSUME NEW text
       PROVE  Shm!IsText(p, text)' <=> Shm!IsText(p, text)
  BY <1>6, <1>8 DEF Shm!IsText
<1>11. Shm!Ended(p)' <=> Shm!Ended(p)
  BY <1>6 DEF Shm!Ended
<1> QED
  BY <1>6, <1>7, <1>9, <1>10, <1>11

(* A print that another process's step leaves alone.                       *)
LEMMA ShmReadKept ==
  ASSUME Shm!ShmInvariant, Shm!TypeOK', NEW x \in Users, NEW ev \in {"begin", "end"},
         \/ log' = log
         \/ ~Shm!IsLogged(x, ev) /\ log' = Append(log, <<x, ev>>),
         UNCHANGED <<cmd, content>>,
         \A q \in Users : Shm!IsLogged(q, "begin") => shm_id'[q] = shm_id[q],
         NEW p \in Users, at'[p] = at[p], length'[p] = length[p], printed'[p] = printed[p]
  PROVE  Shm!ReadOK(p)'
<1> SUFFICES ASSUME cmd[p] = "read", at[p] \in {"strlen", "print", "done"},
                    Shm!Apart(p)', Shm!Ordered(Shm!Before(p))', Shm!Ended(p)'
             PROVE  \E text \in Shm!Contents : Shm!ReadSoFar(p, text)'
  BY ShmContentsStay DEF Shm!ReadOK
<1>1. Shm!IsLogged(p, "begin")
  BY DEF Shm!ShmInvariant, Shm!LogInv, Shm!LogOK
<1>2. /\ Shm!Apart(p) /\ Shm!Ordered(Shm!Before(p)) /\ Shm!Ended(p)
      /\ \A text : Shm!IsText(p, text)' <=> Shm!IsText(p, text)
  BY <1>1, ShmKept
<1>3. PICK text \in Shm!Contents : Shm!ReadSoFar(p, text)
  BY <1>2 DEF Shm!ShmInvariant, Shm!ReadInv, Shm!ReadOK
<1>4. Shm!ReadSoFar(p, text)'
  BY <1>2, <1>3 DEF Shm!ReadSoFar
<1> QED
  BY <1>4

(* A segment whose copies and cells a step leaves alone.                   *)
LEMMA ShmSegmentKept ==
  ASSUME Shm!ShmInvariant, Shm!TypeOK', NEW x \in Users, NEW ev \in {"begin", "end"},
         \/ log' = log
         \/ ~Shm!IsLogged(x, ev) /\ log' = Append(log, <<x, ev>>),
         UNCHANGED <<cmd, content>>,
         NEW s \in DOMAIN segments, segments'[s].cells = segments[s].cells,
         Shm!Writers(s)' = Shm!Writers(s),
         \A w \in Shm!Writers(s) : left'[w] = left[w]
  PROVE  Shm!SegmentOK(s)'
<1>t. Shm!TypeOK /\ Shm!LogInv /\ Once(log) /\ Shm!SegmentOK(s)
  BY DEF Shm!ShmInvariant, Shm!LogInv, Once, Shm!SegmentInv
<1>1. \A w, v \in Shm!Writers(s) : Shm!Precedes(w, v)' <=> Shm!Precedes(w, v)
  <2>1. \A w \in Shm!Writers(s) : w \in Users /\ Shm!IsLogged(w, "begin")
    BY DEF Shm!Writers, Shm!UsersOf
  <2> QED
    BY <2>1, <1>t, ShmFrozen
<1>2. Shm!Ordered(Shm!Writers(s))' => Shm!Ordered(Shm!Writers(s))
  BY <1>1 DEF Shm!Ordered
<1>3. \A w \in Shm!Writers(s) : Shm!LastOf(s, w)' <=> Shm!LastOf(s, w)
  BY <1>1 DEF Shm!LastOf
<1>4. \A w, pos : Shm!Character(w, pos)' = Shm!Character(w, pos)
  BY DEF Shm!Character
<1> QED
  BY <1>t, <1>2, <1>3, <1>4 DEF Shm!SegmentOK

(* Steps that begin no copy.                                               *)
LEMMA ShmNoNewCopy ==
  ASSUME Shm!ShmInvariant, Shm!TypeOK', NEW x \in Users, NEW ev \in {"begin", "end"},
         \/ log' = log
         \/ /\ ~Shm!IsLogged(x, ev) /\ log' = Append(log, <<x, ev>>)
            /\ ev = "end" \/ cmd[x] # "write",
         UNCHANGED cmd,
         \A q \in Users : Shm!IsLogged(q, "begin") => shm_id'[q] = shm_id[q],
         NEW s
  PROVE  Shm!Writers(s)' = Shm!Writers(s)
<1>t. Shm!TypeOK /\ Once(log)
  BY DEF Shm!ShmInvariant, Shm!LogInv, Once
<1>1. \A q \in Users : cmd[q] = "write" =>
          (Shm!IsLogged(q, "begin")' <=> Shm!IsLogged(q, "begin"))
  <2>1. CASE log' = log
    BY <2>1 DEF Shm!IsLogged, Shm!Contains
  <2>2. CASE /\ ~Shm!IsLogged(x, ev) /\ log' = Append(log, <<x, ev>>)
             /\ ev = "end" \/ cmd[x] # "write"
    <3>1. \A q, e : Shm!IsLogged(q, e)' <=> Shm!IsLogged(q, e) \/ (q = x /\ e = ev)
      BY <2>2, <1>t, ShmAppends
    <3> QED
      BY <2>2, <3>1
  <2> QED
    BY <2>1, <2>2
<1> QED
  BY <1>1 DEF Shm!Writers, Shm!UsersOf

(* How far a process looked stays right: no copy is ever taken back.       *)
LEMMA ShmLengthKept ==
  ASSUME Shm!ShmInvariant, Shm!TypeOK', NEW x \in Users, NEW ev \in {"begin", "end"},
         \/ log' = log
         \/ ~Shm!IsLogged(x, ev) /\ log' = Append(log, <<x, ev>>),
         UNCHANGED <<cmd, content>>,
         \A q \in Users : Shm!IsLogged(q, "begin") => shm_id'[q] = shm_id[q],
         NEW p \in Users, length'[p] = length[p],
         length[p] > 0 => shm_id'[p] = shm_id[p]
  PROVE  Shm!LengthOK(p)'
<1>t. Shm!TypeOK /\ Once(log)
  BY DEF Shm!ShmInvariant, Shm!LogInv, Once
<1>1. \A q \in Users : Shm!IsLogged(q, "begin") => Shm!IsLogged(q, "begin")'
  <2>1. CASE log' = log
    BY <2>1 DEF Shm!IsLogged, Shm!Contains
  <2>2. CASE ~Shm!IsLogged(x, ev) /\ log' = Append(log, <<x, ev>>)
    <3>1. \A q, e : Shm!IsLogged(q, e)' <=> Shm!IsLogged(q, e) \/ (q = x /\ e = ev)
      BY <2>2, <1>t, ShmAppends
    <3> QED
      BY <3>1
  <2> QED
    BY <2>1, <2>2
<1> SUFFICES ASSUME length[p] > 0
             PROVE  \E w \in Shm!Writers(shm_id[p])' : length[p] <= Len(content[w])
  BY DEF Shm!LengthOK
<1>2. PICK w \in Shm!Writers(shm_id[p]) : length[p] <= Len(content[w])
  BY DEF Shm!ShmInvariant, Shm!LengthInv, Shm!LengthOK
<1>3. w \in Shm!Writers(shm_id[p])'
  BY <1>1 DEF Shm!Writers, Shm!UsersOf
<1> QED
  BY <1>2, <1>3

(* Nobody uses a segment that is not there yet.                            *)
LEMMA ShmUsersAreThere ==
  ASSUME Shm!LogInv, NEW s, s \notin DOMAIN segments
  PROVE  Shm!Writers(s) = {}
  BY DEF Shm!LogInv, Shm!LogOK, Shm!Writers, Shm!UsersOf

(* Steps of a process that neither copies nor prints.                      *)
LEMMA ShmQuiet ==
  ASSUME Shm!ShmInvariant, Shm!TypeOK', Shm!PlaceInv', NEW p \in Users,
         at[p] \in {"shmget", "shmat", "shmctl"},
         UNCHANGED <<cmd, content, left, length, printed, log>>,
         \A q \in Users \ {p} : at'[q] = at[q] /\ shm_id'[q] = shm_id[q],
         length[p] > 0 => shm_id'[p] = shm_id[p],
         \/ at'[p] \in {"shmat", "shmctl", "crashed"}
         \/ at'[p] = "done" /\ cmd[p] \notin {"read", "write"},
         DOMAIN segments \subseteq DOMAIN segments',
         \A s \in DOMAIN segments : segments'[s].cells = segments[s].cells,
         \A s \in DOMAIN segments' \ DOMAIN segments :
            segments'[s].cells = [pos \in 1 .. PAGE |-> Shm!NUL]
  PROVE  Shm!ShmInvariant'
<1>t. Shm!TypeOK /\ Shm!PlaceInv /\ Shm!LogInv /\ Shm!SegmentInv
  BY DEF Shm!ShmInvariant
<1>1. ~Shm!IsLogged(p, "begin") /\ ~Shm!IsLogged(p, "end")
  BY <1>t DEF Shm!LogInv, Shm!LogOK
<1>2. \A q \in Users : Shm!IsLogged(q, "begin") => shm_id'[q] = shm_id[q] /\ at'[q] = at[q]
  BY <1>1
<1>3. \A q, e : Shm!IsLogged(q, e)' <=> Shm!IsLogged(q, e)
  BY DEF Shm!IsLogged, Shm!Contains
<1>4. Shm!LogInv'
  <2>1. \A m, n \in DOMAIN log' : log'[m] = log'[n] => m = n
    BY <1>t DEF Shm!LogInv
  <2>2. ASSUME NEW q \in Users
        PROVE  Shm!LogOK(q)'
    <3>1. Shm!LogOK(q)
      BY <1>t DEF Shm!LogInv
    <3>2. /\ Shm!IsLogged(q, "begin")' <=> Shm!IsLogged(q, "begin")
          /\ Shm!IsLogged(q, "end")' <=> Shm!IsLogged(q, "end")
      BY <1>3
    <3>3. CASE q # p
      BY <3>1, <3>2, <3>3, <1>2 DEF Shm!LogOK
    <3>4. CASE q = p
      BY <3>2, <3>4, <1>1 DEF Shm!LogOK
    <3> QED
      BY <3>3, <3>4
  <2> QED
    BY <2>1, <2>2 DEF Shm!LogInv
<1>5. \A s : Shm!Writers(s)' = Shm!Writers(s)
  BY <1>2, ShmNoNewCopy
<1>6. Shm!SegmentInv'
  <2> SUFFICES ASSUME NEW s \in DOMAIN segments' PROVE Shm!SegmentOK(s)'
    BY DEF Shm!SegmentInv
  <2>1. CASE s \in DOMAIN segments
    BY <2>1, <1>5, ShmSegmentKept
  <2>2. CASE s \notin DOMAIN segments
    <3>1. Shm!Writers(s)' = {}
      BY <2>2, <1>5, <1>t, ShmUsersAreThere
    <3>2. segments'[s].cells = [pos \in 1 .. PAGE |-> Shm!NUL]
      BY <2>2
    <3> QED
      BY <3>1, <3>2 DEF Shm!SegmentOK
  <2> QED
    BY <2>1, <2>2
<1>7. Shm!ReadInv'
  <2> SUFFICES ASSUME NEW q \in Users
               PROVE  Shm!ReadOK(q)'
    BY DEF Shm!ReadInv
  <2>1. CASE q = p
    BY <2>1 DEF Shm!ReadOK
  <2>2. CASE q # p
    BY <2>2, <1>2, ShmReadKept
  <2> QED
    BY <2>1, <2>2
<1>8. Shm!LengthInv'
  <2> SUFFICES ASSUME NEW q \in Users PROVE Shm!LengthOK(q)'
    BY DEF Shm!LengthInv
  <2>1. CASE q # p
    BY <2>1, <1>2, ShmLengthKept
  <2>2. CASE q = p
    <3>1. length'[p] = length[p] /\ (length[p] > 0 => shm_id'[p] = shm_id[p])
      OBVIOUS
    <3> QED
      BY <3>1, <2>2, <1>2, ShmLengthKept
  <2> QED
    BY <2>1, <2>2
<1> QED
  BY <1>4, <1>6, <1>7, <1>8 DEF Shm!ShmInvariant

LEMMA ShmQuietSteps ==
  ASSUME Shm!ShmInvariant, NEW p \in Users,
         \/ Shm!Shmget(p)
         \/ Shm!Shmctl(p)
         \/ Shm!Shmat(p) /\ (cmd[p] = "create" \/ ~Shm!Exists(shm_id[p]))
  PROVE  Shm!ShmInvariant'
<1>t. Shm!TypeOK /\ Shm!PlaceInv /\ Shm!LogInv
  BY DEF Shm!ShmInvariant
<1>0. PAGE \in Nat /\ DOMAIN segments = 1 .. Len(segments) /\ Len(segments) \in Nat
  BY <1>t, IpcConstants DEF Shm!ShmConstants, Shm!TypeOK
<1>1. CASE Shm!Shmget(p)
  <2> DEFINE new == [cells |-> [pos \in 1 .. PAGE |-> Shm!NUL], keyed |-> TRUE]
  <2>1. /\ at[p] = "shmget"
        /\ \/ /\ segments' = segments
              /\ \E s \in DOMAIN segments \cup {-1} : shm_id' = [shm_id EXCEPT ![p] = s]
           \/ /\ segments' = Append(segments, new)
              /\ shm_id' = [shm_id EXCEPT ![p] = Len(segments) + 1]
        /\ at' = [at EXCEPT ![p] = IF cmd[p] = "close" THEN "shmctl" ELSE "shmat"]
        /\ UNCHANGED <<cmd, content, left, length, printed, log>>
    BY <1>1 DEF Shm!Shmget, Shm!Goto, Shm!Current
  <2>2. /\ segments' \in Seq([cells : [1 .. PAGE -> Shm!Cell], keyed : BOOLEAN])
        /\ DOMAIN segments \subseteq DOMAIN segments'
        /\ \A s \in DOMAIN segments : segments'[s].cells = segments[s].cells
        /\ \A s \in DOMAIN segments' \ DOMAIN segments :
              segments'[s].cells = [pos \in 1 .. PAGE |-> Shm!NUL]
        /\ shm_id'[p] \in DOMAIN segments' \cup {-1} /\ shm_id' \in [Users -> Int]
    <3>1. CASE /\ segments' = Append(segments, new)
               /\ shm_id' = [shm_id EXCEPT ![p] = Len(segments) + 1]
      <4>1. new \in [cells : [1 .. PAGE -> Shm!Cell], keyed : BOOLEAN]
        BY DEF Shm!Cell
      <4>2. segments \in Seq([cells : [1 .. PAGE -> Shm!Cell], keyed : BOOLEAN])
        BY <1>t DEF Shm!TypeOK
      <4> HIDE DEF new
      <4>3. /\ Append(segments, new) \in Seq([cells : [1 .. PAGE -> Shm!Cell], keyed : BOOLEAN])
            /\ Len(Append(segments, new)) = Len(segments) + 1
            /\ \A pos \in 1 .. Len(segments) : Append(segments, new)[pos] = segments[pos]
            /\ Append(segments, new)[Len(segments) + 1] = new
        BY <4>1, <4>2, AppendProperties
      <4>4. DOMAIN segments' = 1 .. Len(segments) + 1
        BY <3>1, <4>3
      <4>5. shm_id' = [shm_id EXCEPT ![p] = Len(segments) + 1] /\ shm_id \in [Users -> Int]
        BY <3>1, <1>t DEF Shm!TypeOK
      <4>6. shm_id'[p] = Len(segments) + 1 /\ shm_id' \in [Users -> Int]
        BY <4>5, <1>0
      <4>7. \A s \in DOMAIN segments' \ DOMAIN segments : s = Len(segments) + 1
        BY <4>4, <1>0
      <4>8. new.cells = [pos \in 1 .. PAGE |-> Shm!NUL]
        BY DEF new
      <4>9. segments' = Append(segments, new)
        BY <3>1
      <4>10. DOMAIN segments \subseteq DOMAIN segments' /\ Len(segments) + 1 \in DOMAIN segments'
        BY <4>4, <1>0
      <4> QED
        BY <4>3, <4>4, <4>6, <4>7, <4>8, <4>9, <4>10, <1>0
    <3>2. CASE /\ segments' = segments
               /\ \E s \in DOMAIN segments \cup {-1} : shm_id' = [shm_id EXCEPT ![p] = s]
      BY <3>2, <1>0, <1>t DEF Shm!TypeOK
    <3> QED
      BY <2>1, <3>1, <3>2
  <2> HIDE DEF new
  <2>3. Shm!TypeOK'
    BY <2>1, <2>2, <1>t DEF Shm!TypeOK
  <2>4. /\ at'[p] \in {"shmat", "shmctl"}
        /\ at'[p] = "shmat" => cmd[p] # "close"
        /\ at'[p] = "shmctl" => cmd[p] = "close"
        /\ \A q \in Users \ {p} : at'[q] = at[q] /\ shm_id'[q] = shm_id[q]
    BY <2>1, <1>t DEF Shm!TypeOK
  <2>6. ~(length[p] > 0)
    BY <2>1, <1>t DEF Shm!PlaceInv
  <2>5. Shm!PlaceInv'
    BY <2>1, <2>2, <2>4, <1>t DEF Shm!PlaceInv
  <2>7. /\ at[p] \in {"shmget", "shmat", "shmctl"}
        /\ UNCHANGED <<cmd, content, left, length, printed, log>>
        /\ at'[p] \in {"shmat", "shmctl", "crashed"}
    BY <2>1, <2>4
  <2> QED
    BY <2>2, <2>3, <2>4, <2>5, <2>6, <2>7, ShmQuiet
<1>2. CASE Shm!Shmctl(p)
  <2>1. /\ at[p] = "shmctl" /\ at' = [at EXCEPT ![p] = "done"]
        /\ segments' = IF shm_id[p] = -1 THEN segments
                       ELSE [segments EXCEPT ![shm_id[p]].keyed = FALSE]
        /\ UNCHANGED <<cmd, content, shm_id, left, length, printed, log>>
    BY <1>2 DEF Shm!Shmctl, Shm!Goto
  <2>2. cmd[p] = "close" /\ shm_id[p] \in DOMAIN segments \cup {-1}
    BY <2>1, <1>t DEF Shm!PlaceInv
  <2>3. /\ segments' \in Seq([cells : [1 .. PAGE -> Shm!Cell], keyed : BOOLEAN])
        /\ DOMAIN segments' = DOMAIN segments
        /\ \A s \in DOMAIN segments : segments'[s].cells = segments[s].cells
    <3>1. CASE shm_id[p] = -1
      BY <3>1, <2>1, <1>t DEF Shm!TypeOK
    <3>2. CASE shm_id[p] \in DOMAIN segments /\ shm_id[p] # -1
      <4>1. PICK s \in DOMAIN segments : s = shm_id[p]
        BY <3>2
      <4>2. PICK r \in [cells : [1 .. PAGE -> Shm!Cell], keyed : BOOLEAN] : r = segments[s]
        BY <1>t, <1>0, ElementOfSeq DEF Shm!TypeOK
      <4>3. PICK new : new = [r EXCEPT !.keyed = FALSE]
        OBVIOUS
      <4>4. /\ new \in [cells : [1 .. PAGE -> Shm!Cell], keyed : BOOLEAN]
            /\ new.cells = r.cells
        BY <4>3
      <4>5. segments' = [segments EXCEPT ![s] = new]
        BY <3>2, <4>1, <4>2, <4>3, <2>1
      <4>6. segments' \in Seq([cells : [1 .. PAGE -> Shm!Cell], keyed : BOOLEAN])
        BY <4>4, <4>5, <1>t, <1>0, ExceptSeq DEF Shm!TypeOK
      <4> QED
        BY <4>2, <4>4, <4>5, <4>6
    <3> QED
      BY <3>1, <3>2, <2>2
  <2>4. Shm!TypeOK'
    BY <2>1, <2>3, <1>t DEF Shm!TypeOK
  <2>5. at'[p] = "done" /\ \A q \in Users \ {p} : at'[q] = at[q]
    BY <2>1, <1>t DEF Shm!TypeOK
  <2>7. Shm!PlaceInv'
    BY <2>1, <2>2, <2>3, <2>5, <1>t DEF Shm!PlaceInv
  <2> QED
    BY <2>1, <2>2, <2>3, <2>4, <2>5, <2>7, ShmQuiet
<1>3. CASE Shm!Shmat(p) /\ (cmd[p] = "create" \/ ~Shm!Exists(shm_id[p]))
  <2>1. /\ at[p] = "shmat"
        /\ \/ cmd[p] = "create" /\ at' = [at EXCEPT ![p] = "done"]
           \/ cmd[p] # "create" /\ at' = [at EXCEPT ![p] = "crashed"]
        /\ UNCHANGED <<cmd, content, shm_id, left, length, printed, segments, log>>
    <3>1. cmd[p] \in {"create", "write", "read"}
      BY <1>3, <1>t DEF Shm!TypeOK, Shm!Commands, Shm!PlaceInv, Shm!Shmat
    <3> QED
      BY <3>1, <1>3 DEF Shm!Shmat, Shm!Goto
  <2>2. Shm!TypeOK'
    BY <2>1, <1>t DEF Shm!TypeOK
  <2>3. /\ \/ at'[p] = "crashed"
           \/ at'[p] = "done" /\ cmd[p] = "create"
        /\ \A q \in Users \ {p} : at'[q] = at[q]
    <3>1. PICK place \in {"done", "crashed"} : /\ at' = [at EXCEPT ![p] = place]
                                               /\ place = "done" => cmd[p] = "create"
      BY <2>1
    <3>2. at'[p] = place /\ \A q \in Users \ {p} : at'[q] = at[q]
      BY <3>1, <1>t DEF Shm!TypeOK
    <3> QED
      BY <3>1, <3>2
  <2>4. Shm!PlaceInv'
    BY <2>1, <2>3, <1>t DEF Shm!PlaceInv
  <2> QED
    BY <2>1, <2>2, <2>3, <2>4, ShmQuiet
<1> QED
  BY <1>1, <1>2, <1>3

(* The log goes with the places.                                           *)
LEMMA ShmLogs ==
  ASSUME Shm!ShmInvariant, Shm!TypeOK', NEW p \in Users, NEW ev \in {"begin", "end"},
         UNCHANGED <<cmd, shm_id>>, DOMAIN segments' = DOMAIN segments,
         \A q \in Users \ {p} : at'[q] = at[q],
         log' = Append(log, <<p, ev>>), cmd[p] \in {"write", "read"},
         IF ev = "begin" THEN /\ at[p] = "shmat" /\ at'[p] \in {"memcpy", "strlen"}
                              /\ shm_id[p] \in DOMAIN segments
         ELSE at[p] \in {"memcpy", "print"} /\ at'[p] = "done"
  PROVE  /\ ~Shm!IsLogged(p, ev) /\ ~Shm!IsLogged(p, "end")
         /\ Shm!LogInv'
<1>t. Shm!TypeOK /\ Shm!LogInv /\ Once(log)
  BY DEF Shm!ShmInvariant, Shm!LogInv, Once
<1>1. ~Shm!IsLogged(p, ev) /\ ~Shm!IsLogged(p, "end")
  BY <1>t DEF Shm!LogInv, Shm!LogOK
<1>2. /\ Once(log')
      /\ \A q, e : Shm!IsLogged(q, e)' <=> Shm!IsLogged(q, e) \/ (q = p /\ e = ev)
  BY <1>1, <1>t, ShmAppends
<1>3. ASSUME NEW q \in Users
      PROVE  Shm!LogOK(q)'
  <2>1. Shm!LogOK(q)
    BY <1>t DEF Shm!LogInv
  <2>2. /\ Shm!IsLogged(q, "begin")' <=> Shm!IsLogged(q, "begin") \/ (q = p /\ "begin" = ev)
        /\ Shm!IsLogged(q, "end")' <=> Shm!IsLogged(q, "end") \/ (q = p /\ "end" = ev)
    BY <1>2
  <2>3. CASE q # p
    BY <2>1, <2>2, <2>3 DEF Shm!LogOK
  <2>4. CASE q = p /\ ev = "begin"
    BY <2>1, <2>2, <2>4 DEF Shm!LogOK
  <2>5. CASE q = p /\ ev = "end"
    BY <2>1, <2>2, <2>5 DEF Shm!LogOK
  <2> QED
    BY <2>3, <2>4, <2>5
<1>4. \A m, n \in DOMAIN log' : log'[m] = log'[n] => m = n
  BY <1>2 DEF Once
<1> QED
  BY <1>1, <1>3, <1>4 DEF Shm!LogInv

(* A copy begins.                                                          *)
LEMMA ShmBeginsCopy ==
  ASSUME Shm!ShmInvariant, NEW p \in Users, Shm!Shmat(p),
         cmd[p] = "write", Shm!Exists(shm_id[p])
  PROVE  Shm!ShmInvariant'
<1>t. Shm!TypeOK /\ Shm!PlaceInv /\ Shm!LogInv /\ Shm!SegmentInv /\ Once(log)
  BY DEF Shm!ShmInvariant, Shm!LogInv, Once
<1>1. /\ at[p] = "shmat" /\ at' = [at EXCEPT ![p] = "memcpy"]
      /\ left' = [left EXCEPT ![p] = 1 .. Len(content[p]) + 1]
      /\ log' = Append(log, <<p, "begin">>)
      /\ UNCHANGED <<cmd, content, shm_id, length, printed, segments>>
  BY DEF Shm!Shmat, Shm!Goto
<1>2. shm_id[p] \in DOMAIN segments
  BY DEF Shm!Exists
<1>3. content[p] \in Seq(Characters) /\ Len(content[p]) \in Nat
  BY <1>t, ShmContents DEF Shm!TypeOK
<1>4. Shm!TypeOK'
  <2>1. log' \in Seq(Users \X {"begin", "end"})
    BY <1>1, <1>t, AppendProperties DEF Shm!TypeOK
  <2>2. left' \in [Users -> SUBSET Nat]
    <3>1. 1 .. Len(content[p]) + 1 \subseteq Nat
      BY <1>3
    <3> QED
      BY <3>1, <1>1, <1>t DEF Shm!TypeOK
  <2>3. at' \in [Users -> {"shmget", "shmat", "memcpy", "strlen", "print",
                             "shmctl", "done", "crashed"}]
    BY <1>1, <1>t DEF Shm!TypeOK
  <2> QED
    BY <1>1, <1>t, <2>1, <2>2, <2>3 DEF Shm!TypeOK
<1>5. /\ at'[p] = "memcpy" /\ left'[p] = 1 .. Len(content[p]) + 1
      /\ \A q \in Users \ {p} : at'[q] = at[q] /\ left'[q] = left[q]
  BY <1>1, <1>t DEF Shm!TypeOK
<1>6. Shm!PlaceInv'
  BY <1>1, <1>2, <1>5, <1>t DEF Shm!PlaceInv
<1>7. ~Shm!IsLogged(p, "begin") /\ ~Shm!IsLogged(p, "end") /\ Shm!LogInv'
  BY <1>1, <1>2, <1>4, <1>5, ShmLogs
<1>8. \A q, e : Shm!IsLogged(q, e)' <=> Shm!IsLogged(q, e) \/ (q = p /\ e = "begin")
  BY <1>1, <1>4, <1>7, <1>t, ShmAppends
<1>9. \A s : s # shm_id[p] => Shm!Writers(s)' = Shm!Writers(s)
  BY <1>1, <1>8 DEF Shm!Writers, Shm!UsersOf
<1>10. \A s : s = shm_id[p] => Shm!Writers(s)' = Shm!Writers(s) \cup {p}
  BY <1>1, <1>8 DEF Shm!Writers, Shm!UsersOf
<1>11. \A s : p \notin Shm!Writers(s) /\ Shm!Writers(s) \subseteq Users
  BY <1>7 DEF Shm!Writers, Shm!UsersOf
<1>12. Shm!SegmentInv'
  <2> SUFFICES ASSUME NEW s \in DOMAIN segments PROVE Shm!SegmentOK(s)'
    BY <1>1 DEF Shm!SegmentInv
  <2>1. CASE s # shm_id[p]
    BY <2>1, <1>1, <1>4, <1>5, <1>7, <1>9, <1>11, ShmSegmentKept
  <2>2. CASE s = shm_id[p]
    <3>1. \A w \in Users : ~Shm!Precedes(p, w)'
      BY <1>1, <1>4, <1>7, <1>t, ShmBeginning
    <3>2. Shm!Writers(s)' = Shm!Writers(s) \cup {p}
      BY <2>2, <1>10
    <3>3. Shm!Ordered(Shm!Writers(s))' => Shm!LastOf(s, p)'
      BY <3>1, <3>2, <1>11 DEF Shm!Ordered, Shm!LastOf
    <3>4. \A w \in Shm!Writers(s)' : Shm!LastOf(s, w)' => w = p
      BY <3>1, <3>2, <1>11 DEF Shm!LastOf
    <3>5. \A pos \in 1 .. PAGE : segments'[s].cells[pos] # Shm!NUL =>
             \E w \in Shm!Writers(s) : pos <= Len(content'[w])
      BY <1>1, <1>t DEF Shm!SegmentInv, Shm!SegmentOK
    <3>6. \A pos \in (1 .. Len(content'[p]) + 1) \ left'[p] : FALSE
      BY <1>1, <1>5
    <3> QED
      BY <3>2, <3>3, <3>4, <3>5, <3>6 DEF Shm!SegmentOK
  <2> QED
    BY <2>1, <2>2
<1>13. Shm!ReadInv'
  <2> SUFFICES ASSUME NEW q \in Users
               PROVE  Shm!ReadOK(q)'
    BY DEF Shm!ReadInv
  <2>1. CASE q = p
    BY <2>1, <1>1 DEF Shm!ReadOK
  <2>2. CASE q # p
    BY <2>2, <1>1, <1>4, <1>5, <1>7, ShmReadKept
  <2> QED
    BY <2>1, <2>2
<1>14. Shm!LengthInv'
  BY <1>1, <1>4, <1>7, ShmLengthKept DEF Shm!LengthInv
<1> QED
  BY <1>4, <1>6, <1>7, <1>12, <1>13, <1>14 DEF Shm!ShmInvariant

(* A print begins.                                                         *)
LEMMA ShmBeginsPrint ==
  ASSUME Shm!ShmInvariant, NEW p \in Users, Shm!Shmat(p),
         cmd[p] = "read", Shm!Exists(shm_id[p])
  PROVE  Shm!ShmInvariant'
<1>t. Shm!TypeOK /\ Shm!PlaceInv /\ Shm!LogInv /\ Shm!SegmentInv /\ Once(log)
  BY DEF Shm!ShmInvariant, Shm!LogInv, Once
<1>1. /\ at[p] = "shmat" /\ at' = [at EXCEPT ![p] = "strlen"]
      /\ log' = Append(log, <<p, "begin">>)
      /\ UNCHANGED <<cmd, content, shm_id, left, length, printed, segments>>
  BY DEF Shm!Shmat, Shm!Goto
<1>2. shm_id[p] \in DOMAIN segments
  BY DEF Shm!Exists
<1>4. Shm!TypeOK'
  <2>1. log' \in Seq(Users \X {"begin", "end"})
    BY <1>1, <1>t, AppendProperties DEF Shm!TypeOK
  <2>3. at' \in [Users -> {"shmget", "shmat", "memcpy", "strlen", "print",
                             "shmctl", "done", "crashed"}]
    BY <1>1, <1>t DEF Shm!TypeOK
  <2> QED
    BY <1>1, <1>t, <2>1, <2>3 DEF Shm!TypeOK
<1>5. /\ at'[p] = "strlen"
      /\ \A q \in Users \ {p} : at'[q] = at[q]
  BY <1>1, <1>t DEF Shm!TypeOK
<1>6. Shm!PlaceInv'
  BY <1>1, <1>2, <1>5, <1>t DEF Shm!PlaceInv
<1>7. ~Shm!IsLogged(p, "begin") /\ ~Shm!IsLogged(p, "end") /\ Shm!LogInv'
  BY <1>1, <1>2, <1>4, <1>5, ShmLogs
<1>9. \A s : Shm!Writers(s)' = Shm!Writers(s)
  BY <1>1, <1>4, <1>7, ShmNoNewCopy
<1>12. Shm!SegmentInv'
  <2> SUFFICES ASSUME NEW s \in DOMAIN segments PROVE Shm!SegmentOK(s)'
    BY <1>1 DEF Shm!SegmentInv
  <2> QED
    BY <1>1, <1>4, <1>7, <1>9, ShmSegmentKept
<1>13. ASSUME Shm!Apart(p)', Shm!Ordered(Shm!Before(p))'
       PROVE  \E text \in Shm!Contents : Shm!ReadSoFar(p, text)'
  <2>0. PICK s \in DOMAIN segments : s = shm_id[p] /\ s = shm_id'[p]
    BY <1>1, <1>2
  <2>1. \A w \in Shm!Writers(s) : w \in Users /\ Shm!IsLogged(w, "begin")
    BY DEF Shm!Writers, Shm!UsersOf
  <2>2. \A w \in Users : ~Shm!Precedes(p, w)'
    BY <1>1, <1>4, <1>7, <1>t, ShmBeginning
  <2>3. \A w \in Shm!Writers(s) : Shm!Precedes(w, p)'
    BY <2>0, <2>1, <2>2, <1>9, <1>13 DEF Shm!Apart
  <2>4. Shm!Before(p)' = Shm!Writers(s)
    BY <2>0, <2>3, <1>9 DEF Shm!Before
  <2>5. \A w, v \in Shm!Writers(s) : Shm!Precedes(w, v)' <=> Shm!Precedes(w, v)
    BY <2>1, <1>1, <1>4, <1>7, <1>t, ShmFrozen
  <2>6. Shm!Ordered(Shm!Writers(s))
    BY <2>4, <2>5, <1>13 DEF Shm!Ordered
  <2>7. length'[p] = 0
    BY <1>1, <1>t DEF Shm!PlaceInv
  <2>8. CASE Shm!Writers(s) = {}
    <3>1. Shm!IsText(p, <<>>)'
      BY <2>4, <2>8 DEF Shm!IsText
    <3>2. Shm!ReadSoFar(p, <<>>)'
      BY <3>1, <2>7, <1>5 DEF Shm!ReadSoFar
    <3> QED
      BY <3>2, ShmContents
  <2>9. CASE Shm!Writers(s) # {}
    <3>1. PICK w \in Shm!Writers(s) : Shm!LastOf(s, w)
      BY <2>6, <2>9, <1>t DEF Shm!SegmentInv, Shm!SegmentOK
    <3>2. PICK text \in Shm!Contents : text = content[w]
      BY <3>1, <2>1, <1>t DEF Shm!TypeOK
    <3>3. Shm!IsText(p, text)'
      BY <3>1, <3>2, <2>4, <2>5, <1>1 DEF Shm!IsText, Shm!LastOf
    <3>4. Len(text) \in Nat
      BY ShmContents
    <3>5. Shm!ReadSoFar(p, text)'
      BY <3>3, <3>4, <2>7, <1>5 DEF Shm!ReadSoFar
    <3> QED
      BY <3>5
  <2> QED
    BY <2>8, <2>9
<1>14. Shm!ReadInv'
  <2> SUFFICES ASSUME NEW q \in Users
               PROVE  Shm!ReadOK(q)'
    BY DEF Shm!ReadInv
  <2>1. CASE q = p
    BY <2>1, <1>13 DEF Shm!ReadOK
  <2>2. CASE q # p
    BY <2>2, <1>1, <1>4, <1>5, <1>7, ShmReadKept
  <2> QED
    BY <2>1, <2>2
<1>15. Shm!LengthInv'
  BY <1>1, <1>4, <1>7, ShmLengthKept DEF Shm!LengthInv
<1> QED
  BY <1>4, <1>6, <1>7, <1>12, <1>14, <1>15 DEF Shm!ShmInvariant

(* A character is copied.                                                  *)
LEMMA ShmCopies ==
  ASSUME Shm!ShmInvariant, NEW p \in Users, Shm!Memcpy(p)
  PROVE  Shm!ShmInvariant'
<1>t. Shm!TypeOK /\ Shm!PlaceInv /\ Shm!LogInv /\ Shm!SegmentInv /\ Once(log)
  BY DEF Shm!ShmInvariant, Shm!LogInv, Once
<1>0. /\ at[p] = "memcpy" /\ cmd[p] = "write" /\ left[p] \subseteq 1 .. Len(content[p]) + 1
      /\ Shm!IsLogged(p, "begin") /\ shm_id[p] \in DOMAIN segments
  BY <1>t DEF Shm!Memcpy, Shm!PlaceInv, Shm!LogInv, Shm!LogOK
<1>i. PICK pos \in left[p] \cap (1 .. PAGE) :
          /\ segments' = [segments EXCEPT ![shm_id[p]].cells[pos] = Shm!Character(p, pos)]
          /\ left' = [left EXCEPT ![p] = @ \ {pos}]
          /\ IF left[p] = {pos}
             THEN at' = [at EXCEPT ![p] = "done"] /\ log' = Append(log, <<p, "end">>)
             ELSE UNCHANGED <<at, log>>
  BY DEF Shm!Memcpy, Shm!Goto
<1>1. UNCHANGED <<cmd, content, shm_id, length, printed>>
  BY DEF Shm!Memcpy
<1>2. /\ content[p] \in Seq(Characters) /\ Len(content[p]) \in Nat /\ PAGE \in Nat
  BY <1>t, IpcConstants, ShmContents DEF Shm!TypeOK, Shm!ShmConstants
<1>3. /\ pos \in 1 .. PAGE /\ Shm!Character(p, pos) \in Shm!Cell
      /\ Shm!Character(p, pos) # Shm!NUL => pos <= Len(content[p])
  <2>1. pos \in 1 .. Len(content[p]) + 1
    BY <1>0
  <2>2. pos \in 1 .. PAGE
    OBVIOUS
  <2>3. CASE pos > Len(content[p])
    BY <2>2, <2>3 DEF Shm!Character, Shm!Cell
  <2>4. CASE ~(pos > Len(content[p]))
    <3>1. pos \in 1 .. Len(content[p])
      BY <2>1, <2>4, <1>2
    <3>2. content[p][pos] \in Characters
      BY <3>1, <1>2
    <3>3. pos <= Len(content[p])
      BY <3>1, <1>2
    <3> QED
      BY <3>2, <3>3, <2>2, <2>4 DEF Shm!Character, Shm!Cell
  <2> QED
    BY <2>3, <2>4
<1>o. PICK own \in DOMAIN segments : own = shm_id[p]
  BY <1>0
<1>c. PICK ch : ch = Shm!Character(p, pos)
  OBVIOUS
<1>r. PICK r \in [cells : [1 .. PAGE -> Shm!Cell], keyed : BOOLEAN] : r = segments[own]
  <2>1. DOMAIN segments = 1 .. Len(segments)
    BY <1>t DEF Shm!TypeOK
  <2> QED
    BY <2>1, <1>t, ElementOfSeq DEF Shm!TypeOK
<1>n. PICK new : new = [r EXCEPT !.cells[pos] = ch]
  OBVIOUS
<1>4. /\ new \in [cells : [1 .. PAGE -> Shm!Cell], keyed : BOOLEAN]
      /\ new.cells[pos] = ch
      /\ \A j \in 1 .. PAGE \ {pos} : new.cells[j] = segments[own].cells[j]
  <2>1. new = [r EXCEPT !.cells = [r.cells EXCEPT ![pos] = ch]]
    BY <1>n
  <2>2. PICK f : f = [r.cells EXCEPT ![pos] = ch]
    OBVIOUS
  <2>3. /\ r.cells \in [1 .. PAGE -> Shm!Cell] /\ f \in [1 .. PAGE -> Shm!Cell]
        /\ f[pos] = ch /\ \A j \in 1 .. PAGE \ {pos} : f[j] = r.cells[j]
    BY <2>2, <1>3, <1>c
  <2>4. new = [r EXCEPT !.cells = f]
    BY <2>1, <2>2
  <2>5. new \in [cells : [1 .. PAGE -> Shm!Cell], keyed : BOOLEAN] /\ new.cells = f
    BY <2>3, <2>4
  <2> QED
    BY <2>3, <2>5, <1>r
<1>5. segments' = [segments EXCEPT ![own] = new]
  BY <1>i, <1>o, <1>r, <1>n, <1>c
<1>6. /\ segments' \in Seq([cells : [1 .. PAGE -> Shm!Cell], keyed : BOOLEAN])
      /\ DOMAIN segments' = DOMAIN segments /\ segments'[own] = new
      /\ \A s \in DOMAIN segments \ {own} : segments'[s] = segments[s]
  <2>1. DOMAIN segments = 1 .. Len(segments)
    BY <1>t DEF Shm!TypeOK
  <2>2. segments' \in Seq([cells : [1 .. PAGE -> Shm!Cell], keyed : BOOLEAN])
    BY <2>1, <1>4, <1>5, <1>t, ExceptSeq DEF Shm!TypeOK
  <2> QED
    BY <2>2, <1>5
<1>7. /\ left'[p] = left[p] \ {pos} /\ \A q \in Users \ {p} : left'[q] = left[q]
      /\ left' \in [Users -> SUBSET Nat]
  BY <1>i, <1>t DEF Shm!TypeOK
<1>8. /\ \A q \in Users \ {p} : at'[q] = at[q]
      /\ \/ /\ left'[p] = {} /\ at'[p] = "done" /\ log' = Append(log, <<p, "end">>)
         \/ at'[p] = "memcpy" /\ at' = at /\ log' = log
      /\ at' \in [Users -> {"shmget", "shmat", "memcpy", "strlen", "print",
                            "shmctl", "done", "crashed"}]
      /\ log' \in Seq(Users \X {"begin", "end"})
  <2>1. CASE left[p] = {pos}
    <3>1. at' = [at EXCEPT ![p] = "done"] /\ log' = Append(log, <<p, "end">>)
      BY <2>1, <1>i
    <3>2. Append(log, <<p, "end">>) \in Seq(Users \X {"begin", "end"})
      BY <1>t, AppendProperties DEF Shm!TypeOK
    <3> QED
      BY <3>1, <3>2, <2>1, <1>7, <1>t DEF Shm!TypeOK
  <2>2. CASE left[p] # {pos}
    BY <2>2, <1>i, <1>0, <1>t DEF Shm!TypeOK
  <2> QED
    BY <2>1, <2>2
<1>9. Shm!TypeOK'
  BY <1>1, <1>6, <1>7, <1>8, <1>t DEF Shm!TypeOK
<1>10. Shm!PlaceInv'
  BY <1>0, <1>1, <1>6, <1>7, <1>8, <1>t DEF Shm!PlaceInv
<1>11. /\ Shm!LogInv'
       /\ \/ log' = log
          \/ ~Shm!IsLogged(p, "end") /\ log' = Append(log, <<p, "end">>)
  <2>1. CASE at'[p] = "done" /\ log' = Append(log, <<p, "end">>)
    BY <2>1, <1>0, <1>1, <1>6, <1>8, <1>9, ShmLogs
  <2>2. CASE at' = at /\ log' = log
    <3>1. \A q, e : Shm!IsLogged(q, e)' <=> Shm!IsLogged(q, e)
      BY <2>2 DEF Shm!IsLogged, Shm!Contains
    <3> QED
      BY <3>1, <2>2, <1>1, <1>6, <1>t DEF Shm!LogInv, Shm!LogOK
  <2> QED
    BY <2>1, <2>2, <1>8
<1>12. \A s : Shm!Writers(s)' = Shm!Writers(s)
  BY <1>1, <1>9, <1>11, ShmNoNewCopy
<1>13. Shm!SegmentInv'
  <2> SUFFICES ASSUME NEW s \in DOMAIN segments PROVE Shm!SegmentOK(s)'
    BY <1>6 DEF Shm!SegmentInv
  <2>1. CASE s # own
    <3>1. p \notin Shm!Writers(s) /\ Shm!Writers(s) \subseteq Users
      BY <2>1, <1>o DEF Shm!Writers, Shm!UsersOf
    <3> QED
      BY <2>1, <3>1, <1>1, <1>6, <1>7, <1>9, <1>11, <1>12, ShmSegmentKept
  <2>2. CASE s = own
    <3>1. p \in Shm!Writers(own) /\ ~Shm!IsLogged(p, "end")
      BY <1>0, <1>o, <1>t DEF Shm!Writers, Shm!UsersOf, Shm!LogInv, Shm!LogOK
    <3>2. \A w, v \in Shm!Writers(own) : Shm!Precedes(w, v)' <=> Shm!Precedes(w, v)
      <4>1. \A w \in Shm!Writers(own) : w \in Users /\ Shm!IsLogged(w, "begin")
        BY DEF Shm!Writers, Shm!UsersOf
      <4> QED
        BY <4>1, <1>9, <1>11, <1>t, ShmFrozen
    <3>3. \A w \in Shm!Writers(own) : Shm!LastOf(own, w)' <=> Shm!LastOf(own, w)
      BY <3>2, <1>12 DEF Shm!LastOf
    <3>4. \A w : Shm!LastOf(own, w) => w = p
      BY <3>1 DEF Shm!LastOf, Shm!Precedes
    <3>5. Shm!SegmentOK(own)
      BY <1>t DEF Shm!SegmentInv
    <3>6. ASSUME NEW j \in 1 .. PAGE, new.cells[j] # Shm!NUL
          PROVE  \E w \in Shm!Writers(own) : j <= Len(content[w])
      <4>1. CASE j = pos
        BY <4>1, <3>1, <3>6, <1>3, <1>4, <1>c
      <4>2. CASE j # pos
        <5>1. segments[own].cells[j] # Shm!NUL
          BY <4>2, <3>6, <1>4
        <5> QED
          BY <5>1, <3>5 DEF Shm!SegmentOK
      <4> QED
        BY <4>1, <4>2
    <3>7. Shm!Ordered(Shm!Writers(own))' => \E w \in Shm!Writers(own) : Shm!LastOf(own, w)'
      <4>1. Shm!Ordered(Shm!Writers(own))' => Shm!Ordered(Shm!Writers(own))
        BY <3>2, <1>12 DEF Shm!Ordered
      <4> QED
        BY <4>1, <3>1, <3>3, <3>5 DEF Shm!SegmentOK
    <3>8. ASSUME Shm!LastOf(own, p), NEW j \in (1 .. Len(content[p]) + 1) \ left'[p],
                 j <= PAGE
          PROVE  new.cells[j] = Shm!Character(p, j)
      <4>1. CASE j = pos
        BY <4>1, <1>4, <1>c
      <4>2. CASE j # pos
        <5>3. j \in (1 .. PAGE) \ {pos}
          BY <4>2, <3>8, <1>2
        <5>1. j \in (1 .. PAGE) \ {pos} /\ j \in (1 .. Len(content[p]) + 1) \ left[p]
          BY <4>2, <5>3, <1>7
        <5>2. segments[own].cells[j] = Shm!Character(p, j)
          BY <5>1, <3>1, <3>5, <3>8 DEF Shm!SegmentOK
        <5> QED
          BY <5>1, <5>2, <1>4
      <4> QED
        BY <4>1, <4>2
    <3>9. \A j : Shm!Character(p, j)' = Shm!Character(p, j)
      BY <1>1 DEF Shm!Character
    <3>10. content' = content
      BY <1>1
    <3> QED
      BY <2>2, <3>1, <3>3, <3>4, <3>6, <3>7, <3>8, <3>9, <3>10, <1>6, <1>12 DEF Shm!SegmentOK
  <2> QED
    BY <2>1, <2>2
<1>14. Shm!ReadInv'
  <2> SUFFICES ASSUME NEW q \in Users
               PROVE  Shm!ReadOK(q)'
    BY DEF Shm!ReadInv
  <2>1. CASE q = p
    BY <2>1, <1>0, <1>1 DEF Shm!ReadOK
  <2>2. CASE q # p
    BY <2>2, <1>1, <1>8, <1>9, <1>11, ShmReadKept
  <2> QED
    BY <2>1, <2>2
<1>15. Shm!LengthInv'
  BY <1>1, <1>9, <1>11, ShmLengthKept DEF Shm!LengthInv
<1> QED
  BY <1>9, <1>10, <1>11, <1>13, <1>14, <1>15 DEF Shm!ShmInvariant

(* A byte of the copy that is not on the page.                             *)
LEMMA ShmCopiesBehind ==
  ASSUME Shm!ShmInvariant, NEW p \in Users, Shm!MemcpyBehind(p)
  PROVE  Shm!ShmInvariant'
<1>t. Shm!TypeOK /\ Shm!PlaceInv /\ Shm!LogInv /\ Shm!SegmentInv /\ Once(log)
  BY DEF Shm!ShmInvariant, Shm!LogInv, Once
<1>0. /\ at[p] = "memcpy" /\ cmd[p] = "write" /\ left[p] \subseteq 1 .. Len(content[p]) + 1
      /\ Shm!IsLogged(p, "begin") /\ shm_id[p] \in DOMAIN segments
  BY <1>t DEF Shm!MemcpyBehind, Shm!PlaceInv, Shm!LogInv, Shm!LogOK
<1>i. PICK pos \in left[p] :
          /\ pos > PAGE
          /\ \/ at' = [at EXCEPT ![p] = "crashed"] /\ UNCHANGED <<left, log>>
             \/ /\ left' = [left EXCEPT ![p] = @ \ {pos}]
                /\ IF left[p] = {pos}
                   THEN at' = [at EXCEPT ![p] = "done"] /\ log' = Append(log, <<p, "end">>)
                   ELSE UNCHANGED <<at, log>>
  BY DEF Shm!MemcpyBehind, Shm!Goto
<1>1. UNCHANGED <<cmd, content, shm_id, length, printed, segments>>
  BY DEF Shm!MemcpyBehind
<1>7. /\ left'[p] \in {left[p], left[p] \ {pos}} /\ \A q \in Users \ {p} : left'[q] = left[q]
      /\ left' \in [Users -> SUBSET Nat]
  BY <1>i, <1>t DEF Shm!TypeOK
<1>8. /\ \A q \in Users \ {p} : at'[q] = at[q]
      /\ \/ /\ left'[p] = {} /\ at'[p] = "done" /\ log' = Append(log, <<p, "end">>)
         \/ at'[p] \in {"memcpy", "crashed"} /\ log' = log
      /\ at' \in [Users -> {"shmget", "shmat", "memcpy", "strlen", "print",
                            "shmctl", "done", "crashed"}]
      /\ log' \in Seq(Users \X {"begin", "end"})
  <2>1. CASE left[p] = {pos} /\ left' = [left EXCEPT ![p] = @ \ {pos}]
             /\ at' = [at EXCEPT ![p] = "done"] /\ log' = Append(log, <<p, "end">>)
    <3>1. Append(log, <<p, "end">>) \in Seq(Users \X {"begin", "end"})
      BY <1>t, AppendProperties DEF Shm!TypeOK
    <3>2. left'[p] = {}
      BY <2>1, <1>t DEF Shm!TypeOK
    <3>3. /\ \A q \in Users \ {p} : at'[q] = at[q]
          /\ at'[p] = "done"
          /\ at' \in [Users -> {"shmget", "shmat", "memcpy", "strlen", "print",
                                "shmctl", "done", "crashed"}]
      BY <2>1, <1>t DEF Shm!TypeOK
    <3> QED
      BY <3>1, <3>2, <3>3, <2>1
  <2>2. CASE UNCHANGED <<at, log>>
    BY <2>2, <1>0, <1>t DEF Shm!TypeOK
  <2>3. CASE at' = [at EXCEPT ![p] = "crashed"] /\ UNCHANGED <<left, log>>
    BY <2>3, <1>t DEF Shm!TypeOK
  <2> QED
    BY <2>1, <2>2, <2>3, <1>i
<1>9. Shm!TypeOK'
  BY <1>1, <1>7, <1>8, <1>t DEF Shm!TypeOK
<1>10. Shm!PlaceInv'
  BY <1>0, <1>1, <1>7, <1>8, <1>t DEF Shm!PlaceInv
<1>11. /\ Shm!LogInv'
       /\ \/ log' = log
          \/ ~Shm!IsLogged(p, "end") /\ log' = Append(log, <<p, "end">>)
  <2>1. CASE at'[p] = "done" /\ log' = Append(log, <<p, "end">>)
    BY <2>1, <1>0, <1>1, <1>8, <1>9, ShmLogs
  <2>2. CASE at'[p] \in {"memcpy", "crashed"} /\ log' = log
    <3>1. \A q, e : Shm!IsLogged(q, e)' <=> Shm!IsLogged(q, e)
      BY <2>2 DEF Shm!IsLogged, Shm!Contains
    <3>2. ASSUME NEW q \in Users PROVE Shm!LogOK(q)'
      <4>1. Shm!LogOK(q)
        BY <1>t DEF Shm!LogInv
      <4>2. CASE q # p
        BY <4>1, <4>2, <3>1, <1>1, <1>8 DEF Shm!LogOK
      <4>3. CASE q = p
        BY <4>1, <4>3, <3>1, <2>2, <1>0, <1>1 DEF Shm!LogOK
      <4> QED
        BY <4>2, <4>3
    <3> QED
      BY <3>2, <2>2, <1>t DEF Shm!LogInv
  <2> QED
    BY <2>1, <2>2, <1>8
<1>12. \A s : Shm!Writers(s)' = Shm!Writers(s)
  BY <1>1, <1>9, <1>11, ShmNoNewCopy
<1>13. Shm!SegmentInv'
  <2> SUFFICES ASSUME NEW s \in DOMAIN segments PROVE Shm!SegmentOK(s)'
    BY <1>1 DEF Shm!SegmentInv
  <2>1. Shm!SegmentOK(s)
    BY <1>t DEF Shm!SegmentInv
  <2>2. \A w, v \in Shm!Writers(s) : Shm!Precedes(w, v)' <=> Shm!Precedes(w, v)
    <3>1. \A w \in Shm!Writers(s) : w \in Users /\ Shm!IsLogged(w, "begin")
      BY DEF Shm!Writers, Shm!UsersOf
    <3> QED
      BY <3>1, <1>9, <1>11, <1>t, ShmFrozen
  <2>3. \A w \in Shm!Writers(s) : Shm!LastOf(s, w)' <=> Shm!LastOf(s, w)
    BY <2>2, <1>12 DEF Shm!LastOf
  <2>4. Shm!Ordered(Shm!Writers(s))' => Shm!Ordered(Shm!Writers(s))
    BY <2>2, <1>12 DEF Shm!Ordered
  <2>5. \A w, j : Shm!Character(w, j)' = Shm!Character(w, j)
    BY <1>1 DEF Shm!Character
  <2>6. ASSUME NEW w \in Shm!Writers(s), NEW j \in (1 .. Len(content[w]) + 1) \ left'[w],
               j <= PAGE
        PROVE  j \notin left[w]
    <3>1. w \in Users
      BY DEF Shm!Writers, Shm!UsersOf
    <3>2. PAGE \in Nat /\ left[p] \in SUBSET Nat
      BY IpcConstants, <1>t DEF Shm!ShmConstants, Shm!TypeOK
    <3>3. j # pos
      BY <2>6, <3>2, <1>i
    <3> QED
      BY <3>1, <3>3, <2>6, <1>7
  <2>7. segments' = segments /\ content' = content
    BY <1>1
  <2> QED
    BY <2>1, <2>3, <2>4, <2>5, <2>6, <2>7, <1>12 DEF Shm!SegmentOK
<1>14. Shm!ReadInv'
  <2> SUFFICES ASSUME NEW q \in Users
               PROVE  Shm!ReadOK(q)'
    BY DEF Shm!ReadInv
  <2>1. CASE q = p
    BY <2>1, <1>0, <1>1 DEF Shm!ReadOK
  <2>2. CASE q # p
    BY <2>2, <1>1, <1>8, <1>9, <1>11, ShmReadKept
  <2> QED
    BY <2>1, <2>2
<1>15. Shm!LengthInv'
  BY <1>1, <1>9, <1>11, ShmLengthKept DEF Shm!LengthInv
<1> QED
  BY <1>9, <1>10, <1>11, <1>13, <1>14, <1>15 DEF Shm!ShmInvariant

(* What a print that no copy overlaps with finds in the cells.             *)
LEMMA ShmReads ==
  ASSUME Shm!ShmInvariant, NEW p \in Users, at[p] \in {"strlen", "print"},
         Shm!Apart(p), Shm!Ended(p), NEW text \in Shm!Contents, Shm!IsText(p, text)
  PROVE  /\ text \in Seq(Characters) /\ Len(text) \in Nat /\ Len(text) < PAGE
         /\ \A pos \in 1 .. Len(text) : Shm!Cells(p)[pos] = text[pos] /\ text[pos] # Shm!NUL
         /\ Shm!Cells(p)[Len(text) + 1] = Shm!NUL
<1>t. Shm!TypeOK /\ Shm!PlaceInv /\ Shm!LogInv /\ Shm!SegmentInv
  BY DEF Shm!ShmInvariant
<1>c. /\ PAGE \in Nat /\ PAGE >= 1 /\ Shm!NUL \notin Characters
      /\ \A s \in Shm!Contents : s \in Seq(Characters) /\ Len(s) \in Nat
  BY IpcConstants, ShmContents DEF Shm!ShmConstants
<1>1. Shm!IsLogged(p, "begin") /\ ~Shm!IsLogged(p, "end") /\ shm_id[p] \in DOMAIN segments
  BY <1>t DEF Shm!PlaceInv, Shm!LogInv, Shm!LogOK
<1>2. ASSUME NEW w \in Shm!Writers(shm_id[p])
      PROVE  w \in Users /\ Shm!Precedes(w, p) /\ left[w] = {}
  <2>1. w \in Users
    BY DEF Shm!Writers, Shm!UsersOf
  <2>2. Shm!Precedes(w, p)
    BY <1>1 DEF Shm!Apart, Shm!Precedes
  <2>3. at[w] = "done"
    BY <2>1, <2>2, <1>t DEF Shm!Precedes, Shm!LogInv, Shm!LogOK
  <2> QED
    BY <2>1, <2>2, <2>3, <1>t DEF Shm!PlaceInv
<1>3. Shm!Before(p) = Shm!Writers(shm_id[p])
  BY <1>2 DEF Shm!Before
<1>4. PICK s \in DOMAIN segments : s = shm_id[p]
  BY <1>1
<1>5. Shm!SegmentOK(s)
  BY <1>t DEF Shm!SegmentInv
<1>6. CASE Shm!Before(p) = {} /\ text = <<>>
  <2>1. Len(text) = 0 /\ 1 \in 1 .. PAGE
    BY <1>6, <1>c
  <2>2. Shm!Cells(p)[1] = Shm!NUL
    BY <2>1, <1>3, <1>4, <1>5, <1>6 DEF Shm!SegmentOK, Shm!Cells
  <2> QED
    BY <2>1, <2>2, <1>6, <1>c
<1>7. CASE \E w \in Shm!Before(p) : /\ \A v \in Shm!Before(p) \ {w} : Shm!Precedes(v, w)
                                   /\ text = content[w]
  <2>1. PICK w \in Shm!Before(p) : /\ \A v \in Shm!Before(p) \ {w} : Shm!Precedes(v, w)
                                  /\ text = content[w]
    BY <1>7
  <2>2. w \in Users /\ w \in Shm!Writers(s) /\ left[w] = {} /\ Shm!LastOf(s, w)
    BY <2>1, <1>2, <1>3, <1>4 DEF Shm!LastOf
  <2>3. text \in Shm!Contents
    BY <2>1, <2>2, <1>t DEF Shm!TypeOK
  <2>5. text \in Seq(Characters) /\ Len(text) \in Nat /\ Len(text) < PAGE
    BY <2>1, <2>3, <1>c DEF Shm!Ended
  <2>4. \A pos \in 1 .. Len(text) + 1 : Shm!Cells(p)[pos] = Shm!Character(w, pos)
    <3>1. \A pos \in 1 .. Len(text) + 1 : pos <= PAGE
      BY <2>5, <1>c
    <3> QED
      BY <3>1, <2>1, <2>2, <1>4, <1>5 DEF Shm!SegmentOK, Shm!Cells
  <2>6. ASSUME NEW pos \in 1 .. Len(text)
        PROVE  Shm!Cells(p)[pos] = text[pos] /\ text[pos] # Shm!NUL
    <3>1. pos \in 1 .. Len(text) + 1 /\ ~(pos > Len(text)) /\ text[pos] \in Characters
      BY <2>5
    <3> QED
      BY <3>1, <2>1, <2>4, <1>c DEF Shm!Character
  <2>7. Shm!Cells(p)[Len(text) + 1] = Shm!NUL
    <3>1. PICK n : n = Len(text) + 1
      OBVIOUS
    <3>2. n \in 1 .. Len(text) + 1 /\ n > Len(text)
      BY <3>1, <2>5
    <3> QED
      BY <3>1, <3>2, <2>1, <2>4 DEF Shm!Character
  <2> QED
    BY <2>5, <2>6, <2>7
<1> QED
  BY <1>6, <1>7 DEF Shm!IsText

(* Steps of a print.  What is left to show is how far it gets.             *)
LEMMA ShmPrints ==
  ASSUME Shm!ShmInvariant, Shm!TypeOK', Shm!PlaceInv', NEW p \in Users,
         cmd[p] = "read", at[p] \in {"strlen", "print"},
         at'[p] \in {"strlen", "print", "done", "crashed"}, Shm!LengthOK(p)',
         UNCHANGED <<cmd, content, shm_id, left, segments>>,
         \A q \in Users \ {p} : at'[q] = at[q] /\ length'[q] = length[q] /\ printed'[q] = printed[q],
         IF at'[p] = "done" THEN at[p] = "print" /\ log' = Append(log, <<p, "end">>)
         ELSE log' = log,
         ASSUME NEW text \in Shm!Contents, Shm!Apart(p), Shm!Ended(p), Shm!IsText(p, text),
                Shm!ReadSoFar(p, text), Shm!IsText(p, text)'
         PROVE  Shm!ReadSoFar(p, text)' /\ at'[p] # "crashed"
  PROVE  Shm!ShmInvariant'
<1>t. Shm!TypeOK /\ Shm!PlaceInv /\ Shm!LogInv /\ Shm!SegmentInv /\ Once(log)
  BY DEF Shm!ShmInvariant, Shm!LogInv, Once
<1>1. /\ Shm!LogInv'
      /\ \/ log' = log
         \/ ~Shm!IsLogged(p, "end") /\ log' = Append(log, <<p, "end">>)
  <2>1. CASE at'[p] = "done"
    BY <2>1, ShmLogs
  <2>2. CASE at'[p] # "done"
    <3>1. \A q, e : Shm!IsLogged(q, e)' <=> Shm!IsLogged(q, e)
      BY <2>2 DEF Shm!IsLogged, Shm!Contains
    <3>2. ASSUME NEW q \in Users PROVE Shm!LogOK(q)'
      <4>1. Shm!LogOK(q)
        BY <1>t DEF Shm!LogInv
      <4>2. CASE q # p
        BY <4>1, <4>2, <3>1 DEF Shm!LogOK
      <4>3. CASE q = p
        BY <4>1, <4>3, <3>1, <2>2 DEF Shm!LogOK
      <4> QED
        BY <4>2, <4>3
    <3> QED
      BY <3>2, <2>2, <1>t DEF Shm!LogInv
  <2> QED
    BY <2>1, <2>2
<1>2. \A s : Shm!Writers(s)' = Shm!Writers(s)
  BY <1>1, ShmNoNewCopy
<1>3. Shm!SegmentInv'
  <2> SUFFICES ASSUME NEW s \in DOMAIN segments PROVE Shm!SegmentOK(s)'
    BY DEF Shm!SegmentInv
  <2> QED
    BY <1>1, <1>2, ShmSegmentKept
<1>4. ASSUME Shm!Apart(p)', Shm!Ordered(Shm!Before(p))', Shm!Ended(p)'
      PROVE  \E text \in Shm!Contents : Shm!ReadSoFar(p, text)'
  <2>1. Shm!IsLogged(p, "begin")
    BY <1>t DEF Shm!LogInv, Shm!LogOK
  <2>2. /\ Shm!Apart(p) /\ Shm!Ordered(Shm!Before(p)) /\ Shm!Ended(p)
        /\ \A text : Shm!IsText(p, text)' <=> Shm!IsText(p, text)
    BY <2>1, <1>1, <1>4, ShmKept
  <2>3. PICK text \in Shm!Contents : Shm!ReadSoFar(p, text)
    BY <2>2 DEF Shm!ShmInvariant, Shm!ReadInv, Shm!ReadOK
  <2>4. Shm!IsText(p, text) /\ Shm!IsText(p, text)'
    BY <2>2, <2>3 DEF Shm!ReadSoFar
  <2> QED
    BY <2>2, <2>3, <2>4
<1>5. Shm!ReadInv'
  <2> SUFFICES ASSUME NEW q \in Users
               PROVE  Shm!ReadOK(q)'
    BY DEF Shm!ReadInv
  <2>1. CASE q = p
    BY <2>1, <1>4 DEF Shm!ReadOK
  <2>2. CASE q # p
    BY <2>2, <1>1, ShmReadKept
  <2> QED
    BY <2>1, <2>2
<1>6. Shm!LengthInv'
  <2> SUFFICES ASSUME NEW q \in Users, q # p PROVE Shm!LengthOK(q)'
    BY DEF Shm!LengthInv
  <2> QED
    BY <1>1, ShmLengthKept
<1> QED
  BY <1>1, <1>3, <1>5, <1>6 DEF Shm!ShmInvariant

LEMMA ShmStrlen ==
  ASSUME Shm!ShmInvariant, NEW p \in Users, Shm!Strlen(p)
  PROVE  Shm!ShmInvariant'
<1>t. Shm!TypeOK /\ Shm!PlaceInv /\ Shm!LogInv /\ Shm!SegmentInv
  BY DEF Shm!ShmInvariant
<1>1. /\ at[p] = "strlen"
      /\ \/ /\ length[p] < PAGE /\ Shm!Cells(p)[length[p] + 1] # Shm!NUL
            /\ length' = [length EXCEPT ![p] = @ + 1] /\ UNCHANGED at
         \/ /\ ~(length[p] < PAGE /\ Shm!Cells(p)[length[p] + 1] # Shm!NUL)
            /\ \/ at' = [at EXCEPT ![p] = "print"]
               \/ length[p] = PAGE /\ at' = [at EXCEPT ![p] = "crashed"]
            /\ UNCHANGED length
      /\ UNCHANGED <<cmd, content, shm_id, left, printed, segments, log>>
  BY DEF Shm!Strlen, Shm!Goto
<1>2. /\ cmd[p] = "read" /\ length[p] <= PAGE /\ printed[p] = <<>>
      /\ length[p] \in Nat /\ PAGE \in Nat
  BY <1>1, <1>t, IpcConstants DEF Shm!PlaceInv, Shm!TypeOK, Shm!ShmConstants
<1>3. Shm!TypeOK'
  <2>1. length' \in [Users -> Nat]
    <3>1. length[p] + 1 \in Nat /\ length \in [Users -> Nat]
      BY <1>2, <1>t DEF Shm!TypeOK
    <3>2. \/ length' = length
          \/ length' = [length EXCEPT ![p] = length[p] + 1]
      BY <1>1
    <3> QED
      BY <3>1, <3>2
  <2>2. at' \in [Users -> {"shmget", "shmat", "memcpy", "strlen", "print",
                           "shmctl", "done", "crashed"}]
    BY <1>1, <1>t DEF Shm!TypeOK
  <2> QED
    BY <2>1, <2>2, <1>1, <1>t DEF Shm!TypeOK
<1>4. /\ \A q \in Users \ {p} : at'[q] = at[q] /\ length'[q] = length[q]
      /\ \/ /\ length[p] < PAGE /\ Shm!Cells(p)[length[p] + 1] # Shm!NUL
            /\ length'[p] = length[p] + 1 /\ at'[p] = "strlen"
         \/ /\ length[p] < PAGE /\ Shm!Cells(p)[length[p] + 1] = Shm!NUL
            /\ length'[p] = length[p] /\ at'[p] = "print"
         \/ /\ length[p] = PAGE
            /\ length'[p] = length[p] /\ at'[p] \in {"print", "crashed"}
  <2>1. length[p] = PAGE \/ length[p] < PAGE
    BY <1>2
  <2>2. ~(length[p] = PAGE /\ length[p] < PAGE)
    BY <1>2
  <2> QED
    BY <2>1, <2>2, <1>1, <1>t DEF Shm!TypeOK
<1>5. length'[p] <= PAGE /\ Shm!LengthOK(p)'
  <2>1. CASE length'[p] = length[p]
    <3>1. log' = log /\ UNCHANGED <<cmd, content>> /\ shm_id' = shm_id
      BY <1>1
    <3>2. "end" \in {"begin", "end"}
      OBVIOUS
    <3>3. Shm!LengthOK(p)'
      BY <2>1, <3>1, <3>2, <1>3, ShmLengthKept
    <3> QED
      BY <2>1, <3>3, <1>2
  <2>2. CASE /\ length[p] < PAGE /\ Shm!Cells(p)[length[p] + 1] # Shm!NUL
             /\ length'[p] = length[p] + 1
    <3>1. PICK s \in DOMAIN segments : s = shm_id[p]
      BY <1>1, <1>2, <1>t DEF Shm!LogInv, Shm!LogOK
    <3>2. length[p] + 1 \in 1 .. PAGE
      BY <2>2, <1>2
    <3>3. PICK w \in Shm!Writers(s) : length[p] + 1 <= Len(content[w])
      BY <3>1, <3>2, <2>2, <1>t DEF Shm!SegmentInv, Shm!SegmentOK, Shm!Cells
    <3>4. Shm!Writers(s)' = Shm!Writers(s)
      BY <1>1 DEF Shm!Writers, Shm!UsersOf, Shm!IsLogged, Shm!Contains
    <3> QED
      BY <3>1, <3>2, <3>3, <3>4, <2>2, <1>1 DEF Shm!LengthOK
  <2> QED
    BY <2>1, <2>2, <1>4
<1>6. Shm!PlaceInv'
  BY <1>1, <1>2, <1>4, <1>5, <1>t DEF Shm!PlaceInv
<1>7. ASSUME NEW text \in Shm!Contents, Shm!Apart(p), Shm!Ended(p), Shm!IsText(p, text),
             Shm!ReadSoFar(p, text), Shm!IsText(p, text)'
      PROVE  Shm!ReadSoFar(p, text)' /\ at'[p] # "crashed"
  <2>1. /\ Len(text) \in Nat /\ Len(text) < PAGE
        /\ \A pos \in 1 .. Len(text) : Shm!Cells(p)[pos] # Shm!NUL
        /\ Shm!Cells(p)[Len(text) + 1] = Shm!NUL
    BY <1>1, <1>7, ShmReads
  <2>2. length[p] <= Len(text)
    BY <1>1, <1>7 DEF Shm!ReadSoFar
  <2>3. PICK n, len : n = length[p] /\ len = Len(text)
    OBVIOUS
  <2>4. n \in Nat /\ len \in Nat /\ n <= len
    BY <2>1, <2>2, <2>3, <1>2
  <2>5. CASE /\ Shm!Cells(p)[length[p] + 1] # Shm!NUL
             /\ length'[p] = length[p] + 1 /\ at'[p] = "strlen"
    <3>1. n # len
      BY <2>1, <2>3, <2>5
    <3>2. n + 1 <= len
      BY <3>1, <2>4
    <3> QED
      BY <3>2, <2>3, <2>5, <1>7 DEF Shm!ReadSoFar
  <2>6. CASE /\ Shm!Cells(p)[length[p] + 1] = Shm!NUL
             /\ length'[p] = length[p] /\ at'[p] = "print"
    <3>1. ~(n < len)
      <4>1. n < len => n + 1 \in 1 .. len
        BY <2>4
      <4> QED
        BY <4>1, <2>1, <2>3, <2>6
    <3>2. n = len
      BY <3>1, <2>4
    <3>3. printed'[p] = <<>>
      BY <1>1, <1>2
    <3>4. Len(printed'[p]) = 0
      BY <3>3
    <3>5. Len(printed'[p]) <= Len(text) /\ \A pos \in 1 .. Len(printed'[p]) : FALSE
      BY <3>4, <2>1
    <3> QED
      BY <3>2, <3>5, <2>3, <2>6, <1>7 DEF Shm!ReadSoFar
  <2>7. length[p] # PAGE
    BY <2>1, <2>3, <2>4, <1>2
  <2> QED
    BY <2>5, <2>6, <2>7, <1>4
<1> QED
  BY <1>1, <1>2, <1>3, <1>4, <1>5, <1>6, <1>7, ShmPrints

LEMMA Shmprintf ==
  ASSUME Shm!ShmInvariant, NEW p \in Users, Shm!printf(p)
  PROVE  Shm!ShmInvariant'
<1>t. Shm!TypeOK /\ Shm!PlaceInv /\ Shm!LogInv /\ Shm!SegmentInv
  BY DEF Shm!ShmInvariant
<1>1. /\ at[p] = "print"
      /\ \/ /\ Len(printed[p]) < length[p]
            /\ printed' = [printed EXCEPT ![p] = Append(@, Shm!Cells(p)[Len(@) + 1])]
            /\ UNCHANGED <<at, log>>
         \/ /\ ~(Len(printed[p]) < length[p])
            /\ at' = [at EXCEPT ![p] = "done"] /\ log' = Append(log, <<p, "end">>)
            /\ UNCHANGED printed
      /\ UNCHANGED <<cmd, content, shm_id, left, length, segments>>
  BY DEF Shm!printf, Shm!Goto
<1>2. /\ cmd[p] = "read" /\ length[p] <= PAGE /\ shm_id[p] \in DOMAIN segments
      /\ length[p] \in Nat /\ PAGE \in Nat /\ printed[p] \in Seq(Shm!Cell)
  BY <1>1, <1>t, IpcConstants DEF Shm!PlaceInv, Shm!TypeOK, Shm!ShmConstants,
     Shm!LogInv, Shm!LogOK
<1>n. PICK n, ch : n = Len(printed[p]) /\ ch = Shm!Cells(p)[Len(printed[p]) + 1]
  OBVIOUS
<1>p. PICK more : more = Append(printed[p], ch)
  OBVIOUS
<1>3. n \in Nat /\ (n < length[p] => ch \in Shm!Cell)
  <2>1. n \in Nat
    BY <1>2, <1>n
  <2>2. n < length[p] => n + 1 \in 1 .. PAGE
    BY <2>1, <1>2
  <2>3. PICK s \in DOMAIN segments : s = shm_id[p]
    BY <1>2
  <2>4. segments[s] \in [cells : [1 .. PAGE -> Shm!Cell], keyed : BOOLEAN]
    <3>1. DOMAIN segments = 1 .. Len(segments)
      BY <1>t DEF Shm!TypeOK
    <3> QED
      BY <3>1, <1>t, ElementOfSeq DEF Shm!TypeOK
  <2>5. \A j \in 1 .. PAGE : segments[s].cells[j] \in Shm!Cell
    BY <2>4
  <2> QED
    BY <2>1, <2>2, <2>3, <2>5, <1>n DEF Shm!Cells
<1>4. ASSUME n < length[p]
      PROVE  /\ more \in Seq(Shm!Cell) /\ Len(more) = n + 1 /\ more[n + 1] = ch
             /\ \A pos \in 1 .. n : more[pos] = printed[p][pos]
  <2>1. printed[p] \in Seq(Shm!Cell) /\ ch \in Shm!Cell
    BY <1>2, <1>3, <1>4
  <2>2. /\ Append(printed[p], ch) \in Seq(Shm!Cell)
        /\ Len(Append(printed[p], ch)) = Len(printed[p]) + 1
        /\ Append(printed[p], ch)[Len(printed[p]) + 1] = ch
        /\ \A pos \in 1 .. Len(printed[p]) : Append(printed[p], ch)[pos] = printed[p][pos]
    BY <2>1, AppendProperties
  <2> QED
    BY <2>2, <1>n, <1>p
<1>5. /\ \A q \in Users \ {p} : at'[q] = at[q] /\ printed'[q] = printed[q]
      /\ length'[p] = length[p]
      /\ \/ /\ n < length[p] /\ printed'[p] = more /\ printed' \in [Users -> Seq(Shm!Cell)]
            /\ at'[p] = "print" /\ UNCHANGED <<at, log>>
         \/ /\ ~(n < length[p]) /\ printed' = printed
            /\ at'[p] = "done" /\ log' = Append(log, <<p, "end">>)
            /\ at' \in [Users -> {"shmget", "shmat", "memcpy", "strlen", "print",
                                  "shmctl", "done", "crashed"}]
  <2>1. CASE Len(printed[p]) < length[p]
    <3>1. printed' = [printed EXCEPT ![p] = more] /\ UNCHANGED <<at, log>>
      BY <2>1, <1>1, <1>n, <1>p
    <3> QED
      BY <3>1, <2>1, <1>1, <1>4, <1>n, <1>t DEF Shm!TypeOK
  <2>2. CASE ~(Len(printed[p]) < length[p])
    BY <2>2, <1>1, <1>n, <1>t DEF Shm!TypeOK
  <2> QED
    BY <2>1, <2>2
<1>6. Shm!TypeOK'
  <2>1. Append(log, <<p, "end">>) \in Seq(Users \X {"begin", "end"})
    BY <1>t, AppendProperties DEF Shm!TypeOK
  <2> QED
    BY <2>1, <1>1, <1>5, <1>t DEF Shm!TypeOK
<1>7. Shm!PlaceInv'
  BY <1>1, <1>2, <1>5, <1>t DEF Shm!PlaceInv
<1>8. ASSUME NEW text \in Shm!Contents, Shm!Apart(p), Shm!Ended(p), Shm!IsText(p, text),
             Shm!ReadSoFar(p, text), Shm!IsText(p, text)'
      PROVE  Shm!ReadSoFar(p, text)' /\ at'[p] # "crashed"
  <2>1. /\ text \in Seq(Characters) /\ Len(text) \in Nat
        /\ \A pos \in 1 .. Len(text) : Shm!Cells(p)[pos] = text[pos]
    BY <1>1, <1>8, ShmReads
  <2>2. /\ length[p] = Len(text) /\ n <= Len(text)
        /\ \A pos \in 1 .. n : printed[p][pos] = text[pos]
    BY <1>1, <1>8, <1>n DEF Shm!ReadSoFar
  <2>3. PICK len : len = Len(text)
    OBVIOUS
  <2>4. n \in Nat /\ len \in Nat /\ n <= len /\ length[p] = len
    BY <2>1, <2>2, <2>3, <1>3
  <2>5. CASE n < length[p] /\ printed'[p] = more /\ at'[p] = "print"
    <3>1. n + 1 <= len /\ n + 1 \in 1 .. len
      BY <2>4, <2>5
    <3>2. Len(more) = n + 1 /\ more[n + 1] = text[n + 1]
          /\ \A pos \in 1 .. n : more[pos] = text[pos]
      BY <3>1, <2>1, <2>2, <2>3, <2>5, <1>4, <1>n
    <3>3. \A pos \in 1 .. n + 1 : pos = n + 1 \/ pos \in 1 .. n
      BY <2>4
    <3>4. \A pos \in 1 .. Len(more) : more[pos] = text[pos]
      BY <3>2, <3>3
    <3> QED
      BY <3>1, <3>2, <3>4, <2>3, <2>4, <2>5, <1>1, <1>8 DEF Shm!ReadSoFar
  <2>6. CASE ~(n < length[p]) /\ printed' = printed /\ at'[p] = "done"
    <3>1. n = len
      BY <2>4, <2>6
    <3>2. printed[p] = text
      <4>1. text \in Seq(Shm!Cell)
        <5>1. \A pos \in 1 .. len : text[pos] \in Shm!Cell
          BY <2>1, <2>3 DEF Shm!Cell
        <5> QED
          BY <5>1, <2>1, <2>3, <2>4 DEF Shm!Cell
      <4>2. Len(printed[p]) = Len(text) /\ \A pos \in 1 .. Len(printed[p]) : printed[p][pos] = text[pos]
        BY <3>1, <2>2, <2>3, <1>n
      <4> QED
        BY <4>1, <4>2, <1>2, SeqEqual
    <3> QED
      BY <3>2, <2>6, <1>8 DEF Shm!ReadSoFar
  <2> QED
    BY <2>5, <2>6, <1>5
<1>9. Shm!LengthOK(p)'
  <2>1. \/ log' = log
        \/ ~Shm!IsLogged(p, "end") /\ log' = Append(log, <<p, "end">>)
    BY <1>1, <1>5, <1>t DEF Shm!LogInv, Shm!LogOK
  <2> QED
    BY <2>1, <1>1, <1>6, ShmLengthKept
<1> QED
  BY <1>1, <1>2, <1>5, <1>6, <1>7, <1>8, <1>9, ShmPrints

LEMMA ShmStutter ==
  ASSUME Shm!ShmInvariant,
         UNCHANGED <<cmd, content, at, shm_id, left, length, printed, segments, log>>
  PROVE  Shm!ShmInvariant'
<1>t. Shm!TypeOK /\ Shm!PlaceInv /\ Shm!LogInv /\ Shm!SegmentInv
  BY DEF Shm!ShmInvariant
<1>1. Shm!TypeOK' /\ Shm!PlaceInv'
  BY <1>t DEF Shm!TypeOK, Shm!PlaceInv
<1>2. \A q, e : /\ Shm!IsLogged(q, e)' <=> Shm!IsLogged(q, e)
                /\ Shm!Position(q, e)' = Shm!Position(q, e)
  BY DEF Shm!IsLogged, Shm!Contains, Shm!Position
<1>3. \A w, v : Shm!Precedes(w, v)' <=> Shm!Precedes(w, v)
  BY <1>2 DEF Shm!Precedes
<1>4. \A s : Shm!Writers(s)' = Shm!Writers(s)
  BY <1>2 DEF Shm!Writers, Shm!UsersOf
<1>5. Shm!LogInv' /\ Shm!LengthInv'
  BY <1>2, <1>4, <1>t DEF Shm!LogInv, Shm!LogOK, Shm!ShmInvariant, Shm!LengthInv, Shm!LengthOK
<1>6. \A s : (Shm!Ordered(Shm!Writers(s))' <=> Shm!Ordered(Shm!Writers(s)))
           /\ \A w : Shm!LastOf(s, w)' <=> Shm!LastOf(s, w)
  BY <1>3, <1>4 DEF Shm!Ordered, Shm!LastOf
<1>7. Shm!SegmentInv'
  <2>1. \A w, pos : Shm!Character(w, pos)' = Shm!Character(w, pos)
    BY DEF Shm!Character
  <2>2. ASSUME NEW s \in DOMAIN segments, Shm!SegmentOK(s)
        PROVE  Shm!SegmentOK(s)'
    BY <2>1, <2>2, <1>4, <1>6 DEF Shm!SegmentOK
  <2> QED
    BY <2>2, <1>t DEF Shm!SegmentInv
<1>8. \A p : Shm!Before(p)' = Shm!Before(p) /\ (Shm!Apart(p)' <=> Shm!Apart(p))
  BY <1>3, <1>4 DEF Shm!Before, Shm!Apart
<1>9. \A p : Shm!Ordered(Shm!Before(p))' <=> Shm!Ordered(Shm!Before(p))
  BY <1>3, <1>8 DEF Shm!Ordered
<1>10. \A p, text : Shm!IsText(p, text)' <=> Shm!IsText(p, text)
  BY <1>3, <1>8 DEF Shm!IsText
<1>11. \A p, text : Shm!ReadSoFar(p, text)' <=> Shm!ReadSoFar(p, text)
  BY <1>10 DEF Shm!ReadSoFar
<1>13. \A p : Shm!Ended(p)' <=> Shm!Ended(p)
  BY <1>8 DEF Shm!Ended
<1>12. Shm!ReadInv'
  <2>1. ASSUME NEW p \in Users PROVE Shm!ReadOK(p)'
    <3>1. Shm!ReadOK(p)
      BY DEF Shm!ShmInvariant, Shm!ReadInv
    <3> QED
      BY <3>1, <1>8, <1>9, <1>11, <1>13, ShmContentsStay DEF Shm!ReadOK
  <2> QED
    BY <2>1 DEF Shm!ReadInv
<1> QED
  BY <1>1, <1>5, <1>7, <1>12 DEF Shm!ShmInvariant

LEMMA ShmNext ==
  ASSUME Shm!ShmInvariant, Shm!Next
  PROVE  Shm!ShmInvariant'
<1>1. PICK p \in Users : Shm!Step(p)
  BY DEF Shm!Next
<1>2. CASE \/ Shm!Shmget(p)
           \/ Shm!Shmctl(p)
           \/ Shm!Shmat(p) /\ (cmd[p] = "create" \/ ~Shm!Exists(shm_id[p]))
  BY <1>2, ShmQuietSteps
<1>3. CASE Shm!Shmat(p) /\ cmd[p] # "create" /\ Shm!Exists(shm_id[p])
  <2>1. cmd[p] \in {"write", "read"}
    BY <1>3 DEF Shm!Shmat, Shm!ShmInvariant, Shm!TypeOK, Shm!Commands, Shm!PlaceInv
  <2> QED
    BY <2>1, <1>3, ShmBeginsCopy, ShmBeginsPrint
<1>4. CASE Shm!Memcpy(p)
  BY <1>4, ShmCopies
<1>7. CASE Shm!MemcpyBehind(p)
  BY <1>7, ShmCopiesBehind
<1>5. CASE Shm!Strlen(p)
  BY <1>5, ShmStrlen
<1>6. CASE Shm!printf(p)
  BY <1>6, Shmprintf
<1> QED
  BY <1>1, <1>2, <1>3, <1>4, <1>5, <1>6, <1>7 DEF Shm!Step

LEMMA ShmImplies == Shm!ShmInvariant => Shm!PrintsAreWhole
<1> SUFFICES ASSUME Shm!ShmInvariant, NEW p \in Users, cmd[p] = "read",
                    at[p] \in {"strlen", "print", "done"}
             PROVE  /\ length[p] > 0 =>
                          \E w \in Shm!Writers(shm_id[p]) : length[p] <= Len(content[w])
                    /\ /\ at[p] = "done"
                       /\ Shm!Apart(p) /\ Shm!Ordered(Shm!Before(p)) /\ Shm!Ended(p)
                       => Shm!IsText(p, printed[p])
  BY DEF Shm!PrintsAreWhole
<1>1. Shm!LengthOK(p)
  BY DEF Shm!ShmInvariant, Shm!LengthInv
<1>2. ASSUME at[p] = "done", Shm!Apart(p), Shm!Ordered(Shm!Before(p)), Shm!Ended(p)
      PROVE  Shm!IsText(p, printed[p])
  <2>1. PICK text \in Shm!Contents : Shm!ReadSoFar(p, text)
    BY <1>2 DEF Shm!ShmInvariant, Shm!ReadInv, Shm!ReadOK
  <2> QED
    BY <2>1, <1>2 DEF Shm!ReadSoFar
<1> QED
  BY <1>1, <1>2 DEF Shm!LengthOK

-----------------------------------------------------------------------------
(* All three programs.                                                     *)

LEMMA AllInvInit ==
  ASSUME AllInit
  PROVE  /\ program = "mqueue" => Mq!QueueInvariant
         /\ program = "shm" => Shm!ShmInvariant
  BY MqInit, ShmInit DEF AllInit

LEMMA AllInvNext ==
  ASSUME program = "mqueue" => Mq!QueueInvariant,
         program = "shm" => Shm!ShmInvariant,
         [AllNext]_all
  PROVE  /\ (program = "mqueue" => Mq!QueueInvariant)'
         /\ (program = "shm" => Shm!ShmInvariant)'
<1>1. CASE program = "mutex" /\ UNCHANGED program
  BY <1>1
<1>2. CASE program = "mqueue" /\ Mq!Next /\ UNCHANGED program
  BY <1>2, MqNext
<1>3. CASE program = "shm" /\ Shm!Next /\ UNCHANGED program
  BY <1>3, ShmNext
<1>4. CASE UNCHANGED all
  <2>1. /\ UNCHANGED <<program, cmd, at, content, msqid, queues, sent, taken>>
        /\ UNCHANGED <<shm_id, left, length, printed, segments, log>>
    BY <1>4 DEF all, mqOnly, shmOnly
  <2>2. Mq!QueueInvariant => Mq!QueueInvariant'
    <3>1. UNCHANGED <<cmd, at, content, msqid, queues, sent, taken>>
      BY <2>1
    <3> QED
      BY <3>1, MqStutter
  <2>3. Shm!ShmInvariant => Shm!ShmInvariant'
    <3>1. UNCHANGED <<cmd, content, at, shm_id, left, length, printed, segments, log>>
      BY <2>1
    <3> QED
      BY <3>1, ShmStutter
  <2> QED
    BY <2>1, <2>2, <2>3
<1> QED
  BY <1>1, <1>2, <1>3, <1>4 DEF AllNext

(* Each of the programs runs as if it were alone: under the other two the  *)
(* threads stand still.                                                    *)
LEMMA ThreadsStandStill == AllSpec => Spec
<1>1. AllInit => Init
  BY DEF AllInit
<1>2. [AllNext]_all => [Next]_vars
  BY DEF AllNext, all
<1> QED
  BY <1>1, <1>2, PTL DEF AllSpec, Spec

(* With wakeups possibly spurious no producer writes the element that the  *)
(* consumer reads unlocked, and the totals main prints agree               *)
(* (u7.3_mutex_p_c/dd.c:40-92): the threads of all three programs.         *)
THEOREM ThreadsStayRight == AllSpec => [](ReadIsQuiet /\ TotalsAgree)
  BY ThreadsStandStill, ReadsAreQuiet, TotalsAreTheLength, PTL

(* Whoever sends, receives or removes, and whenever: a queue's messages are*)
(* printed in the order they were sent, each by one receiver at most, and  *)
(* only a process that removed the queue between another's msgget and its  *)
(* call makes that one lose its message or print garbage                   *)
(* (u6.6_mqueue/dd.c:63-97).                                               *)
THEOREM MessagesStayInOrder == AllSpec => []MessagesInOrder
<1> DEFINE Inv == /\ program = "mqueue" => Mq!QueueInvariant
                  /\ program = "shm" => Shm!ShmInvariant
<1>1. AllInit => Inv
  BY AllInvInit
<1>2. Inv /\ [AllNext]_all => Inv'
  BY AllInvNext
<1>3. Inv => MessagesInOrder
  BY MqImplies DEF MessagesInOrder
<1> QED
  BY <1>1, <1>2, <1>3, PTL DEF AllSpec

(* Nothing keeps copies and prints apart, and strings need not end inside  *)
(* the array: still a print runs no further than the longest string copied *)
(* to its segment, and one that no copy overlaps with shows the content    *)
(* copied last, whole, if the copies ended on the page                     *)
(* (u14.6_shm/dd.c:34-70).                                                 *)
THEOREM PrintsStayWhole == AllSpec => []PrintsAreWhole
<1> DEFINE Inv == /\ program = "mqueue" => Mq!QueueInvariant
                  /\ program = "shm" => Shm!ShmInvariant
<1>1. AllInit => Inv
  BY AllInvInit
<1>2. Inv /\ [AllNext]_all => Inv'
  BY AllInvNext
<1>3. Inv => PrintsAreWhole
  BY ShmImplies DEF PrintsAreWhole
<1> QED
  BY <1>1, <1>2, <1>3, PTL DEF AllSpec
=============================================================================
