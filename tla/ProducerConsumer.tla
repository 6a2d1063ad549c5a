-------------------------- MODULE ProducerConsumer --------------------------
(***************************************************************************)
(* The producers, the consumer and main of ipc/u7.3_mutex_p_c/dd.c: an     *)
(* array filled under a mutex by THREADS_NUM producers and checked by one  *)
(* consumer, which waits on a condition variable when it has caught up and *)
(* reads the array itself after it gave the mutex back.                    *)
(*                                                                         *)
(* The consumer tests its condition with if, not while, so what it does    *)
(* after a wakeup that no signal caused is part of the model; POSIX allows *)
(* such wakeups, and SpuriousWakeups says whether the run has them.        *)
(***************************************************************************)
EXTENDS Integers, FiniteSets

CONSTANTS
    THREADS_NUM,        \* producers
    MAX_PRODUCT,        \* length of the array
    SpuriousWakeups     \* whether pthread_cond_wait may return unsignalled

ASSUME PCConstants ==
    /\ THREADS_NUM \in Nat \ {0}
    /\ MAX_PRODUCT \in Nat
    /\ SpuriousWakeups \in BOOLEAN

Producers == 0 .. THREADS_NUM - 1
Consumer  == THREADS_NUM        \* the consumer's name as owner of the mutex
Free      == THREADS_NUM + 1    \* nobody owns the mutex
Slots     == 0 .. MAX_PRODUCT - 1

VARIABLES
    mutex,      \* the owner of share_data.mutex, or Free
    buf, nput, next_val,
    count,      \* main's count[], each slot written by one producer
    ppc,        \* each producer: "none", "lock", "limit", "store", "next",
                \* "value", "signal", "unlock", "tally", "done"
    cpc,        \* the consumer: "none", "lock", "test", "waiting", "woken",
                \* "again", "read", "done"
    i,          \* the consumer's loop index, a global
    wrong,      \* the indices the consumer printed an error for
    mpc,        \* main: "consumer", "producers", "join", "last", "exit"
    k,          \* main's loop index
    sum

shared == <<mutex, buf, nput, next_val>>
main   == <<mpc, k, sum>>
vars   == <<shared, count, ppc, cpc, i, wrong, main>>

TypeOK ==
    /\ mutex \in 0 .. THREADS_NUM + 1
    /\ buf \in [Slots -> Nat]
    /\ nput \in Nat
    /\ next_val \in 0 .. MAX_PRODUCT
    /\ count \in [Producers -> Nat]
    /\ ppc \in [Producers -> {"none", "lock", "limit", "store", "next",
                              "value", "signal", "unlock", "tally", "done"}]
    /\ cpc \in {"none", "lock", "test", "waiting", "woken", "again", "read",
                "done"}
    /\ i \in 0 .. MAX_PRODUCT
    /\ wrong \subseteq Slots
    /\ mpc \in {"consumer", "producers", "join", "last", "exit"}
    /\ k \in 0 .. THREADS_NUM
    /\ sum \in Nat

Init ==
    /\ mutex = Free
    /\ buf = [x \in Slots |-> 0]
    /\ nput = 0 /\ next_val = 0
    /\ count = [p \in Producers |-> 0]
    /\ ppc = [p \in Producers |-> "none"]
    /\ cpc = "none"
    /\ i = 0
    /\ wrong = {}
    /\ mpc = "consumer" /\ k = 0 /\ sum = 0

-----------------------------------------------------------------------------
(* A producer.                                                             *)

Goto(p, from, to) ==
    /\ ppc[p] = from
    /\ ppc' = [ppc EXCEPT ![p] = to]

(* Everything a producer does leaves the other threads' own state alone.   *)
OnlyProducer == UNCHANGED <<cpc, i, wrong, main>>

PLock(p) ==
    /\ Goto(p, "lock", "limit")
    /\ mutex = Free
    /\ mutex' = p
    /\ UNCHANGED <<buf, nput, next_val, count>> /\ OnlyProducer

(* Mutant: the early return forgets to unlock.                             *)
PLimitLocked(p) ==
    /\ Goto(p, "limit", IF next_val >= MAX_PRODUCT THEN "done" ELSE "store")
    /\ UNCHANGED <<shared, count>> /\ OnlyProducer

PLimit(p) ==
    /\ Goto(p, "limit", IF next_val >= MAX_PRODUCT THEN "done" ELSE "store")
    /\ mutex' = IF next_val >= MAX_PRODUCT THEN Free ELSE mutex
    /\ UNCHANGED <<buf, nput, next_val, count>> /\ OnlyProducer

PStore(p) ==
    /\ Goto(p, "store", "next")
    /\ buf' = [buf EXCEPT ![next_val] = nput]
    /\ UNCHANGED <<mutex, nput, next_val, count>> /\ OnlyProducer

PNext(p) ==
    /\ Goto(p, "next", "value")
    /\ next_val' = next_val + 1
    /\ UNCHANGED <<mutex, buf, nput, count>> /\ OnlyProducer

PValue(p) ==
    /\ Goto(p, "value", "signal")
    /\ nput' = nput + 1
    /\ UNCHANGED <<mutex, buf, next_val, count>> /\ OnlyProducer

(* Mutant: only the first product is signalled.                            *)
PSignalFirst(p) ==
    /\ Goto(p, "signal", "unlock")
    /\ cpc' = IF cpc = "waiting" /\ next_val = 1 THEN "woken" ELSE cpc
    /\ UNCHANGED <<shared, count, i, wrong, main>>

(* The consumer is the only thread that ever waits on the condition; with  *)
(* nobody waiting the signal is lost.                                      *)
PSignal(p) ==
    /\ Goto(p, "signal", "unlock")
    /\ cpc' = IF cpc = "waiting" THEN "woken" ELSE cpc
    /\ UNCHANGED <<shared, count, i, wrong, main>>

PUnlock(p) ==
    /\ Goto(p, "unlock", "tally")
    /\ mutex' = Free
    /\ UNCHANGED <<buf, nput, next_val, count>> /\ OnlyProducer

PTally(p) ==
    /\ Goto(p, "tally", "lock")
    /\ count' = [count EXCEPT ![p] = @ + 1]
    /\ UNCHANGED shared /\ OnlyProducer

Produce(p) ==
    \/ PLock(p) \/ PLimit(p) \/ PStore(p) \/ PNext(p) \/ PValue(p)
    \/ PSignal(p) \/ PUnlock(p) \/ PTally(p)

-----------------------------------------------------------------------------
(* The consumer.                                                           *)

OnlyConsumer == UNCHANGED <<buf, nput, next_val, count, ppc, main>>

(* The loop condition, then pthread_mutex_lock: the mutex is a default one *)
(* and a thread that already owns it waits for itself.                     *)
CLock ==
    /\ cpc = "lock" /\ i < MAX_PRODUCT
    /\ mutex = Free
    /\ mutex' = Consumer
    /\ cpc' = "test"
    /\ UNCHANGED <<i, wrong>> /\ OnlyConsumer

CDone ==
    /\ cpc = "lock" /\ i >= MAX_PRODUCT
    /\ cpc' = "done"
    /\ UNCHANGED <<mutex, i, wrong>> /\ OnlyConsumer

(* Mutant: the consumer waits one product too early.                       *)
CTestEarly ==
    /\ cpc = "test"
    /\ IF i + 1 = next_val
       THEN cpc' = "waiting" /\ mutex' = Free
       ELSE cpc' = "again" /\ UNCHANGED mutex
    /\ UNCHANGED <<i, wrong>> /\ OnlyConsumer

CTest ==
    /\ cpc = "test"
    /\ IF i = next_val
       THEN cpc' = "waiting" /\ mutex' = Free
       ELSE cpc' = "again" /\ UNCHANGED mutex
    /\ UNCHANGED <<i, wrong>> /\ OnlyConsumer

(* The threads to which pthread_cond_wait may return without a signal.     *)
Wakeable == IF SpuriousWakeups THEN {Consumer} ELSE {}

SpuriousWakeup(t) ==
    /\ t = Consumer
    /\ cpc = "waiting"
    /\ cpc' = "woken"
    /\ UNCHANGED <<mutex, i, wrong>> /\ OnlyConsumer

(* pthread_cond_wait takes the mutex back before it returns.               *)
CRelock ==
    /\ cpc = "woken"
    /\ mutex = Free
    /\ mutex' = Consumer
    /\ cpc' = "again"
    /\ UNCHANGED <<i, wrong>> /\ OnlyConsumer

(* Mutant: the test after the wait is one too far.                         *)
CAgainLate ==
    /\ cpc = "again"
    /\ IF i <= next_val
       THEN mutex' = Free /\ cpc' = "read" /\ UNCHANGED i
       ELSE i' = i + 1 /\ cpc' = "lock" /\ UNCHANGED mutex
    /\ UNCHANGED wrong /\ OnlyConsumer

(* The unlock is inside the if: with nothing to read the loop goes round   *)
(* with the mutex still held.                                              *)
CAgain ==
    /\ cpc = "again"
    /\ IF i < next_val
       THEN mutex' = Free /\ cpc' = "read" /\ UNCHANGED i
       ELSE i' = i + 1 /\ cpc' = "lock" /\ UNCHANGED mutex
    /\ UNCHANGED wrong /\ OnlyConsumer

CRead ==
    /\ cpc = "read"
    /\ wrong' = IF buf[i] = i THEN wrong ELSE wrong \cup {i}
    /\ i' = i + 1
    /\ cpc' = "lock"
    /\ UNCHANGED mutex /\ OnlyConsumer

Consume ==
    CLock \/ CDone \/ CTest \/ CRelock \/ CAgain \/ CRead

-----------------------------------------------------------------------------
(* main.                                                                   *)

CreateConsumer ==
    /\ mpc = "consumer"
    /\ mpc' = "producers"
    /\ cpc' = "lock"
    /\ UNCHANGED <<shared, count, ppc, i, wrong, k, sum>>

CreateProducer ==
    /\ mpc = "producers"
    /\ IF k < THREADS_NUM
       THEN /\ Goto(k, "none", "lock")
            /\ k' = k + 1
            /\ UNCHANGED mpc
       ELSE mpc' = "join" /\ k' = 0 /\ UNCHANGED ppc
    /\ UNCHANGED <<shared, count, cpc, i, wrong, sum>>

(* Mutant: main adds the counts up without joining.                        *)
JoinNobody ==
    /\ mpc = "join"
    /\ IF k < THREADS_NUM
       THEN sum' = sum + count[k] /\ k' = k + 1 /\ UNCHANGED mpc
       ELSE mpc' = "last" /\ UNCHANGED <<k, sum>>
    /\ UNCHANGED <<shared, count, ppc, cpc, i, wrong>>

JoinProducer ==
    /\ mpc = "join"
    /\ IF k < THREADS_NUM
       THEN /\ ppc[k] = "done"
            /\ sum' = sum + count[k]
            /\ k' = k + 1
            /\ UNCHANGED mpc
       ELSE mpc' = "last" /\ UNCHANGED <<k, sum>>
    /\ UNCHANGED <<shared, count, ppc, cpc, i, wrong>>

JoinConsumer ==
    /\ mpc = "last"
    /\ cpc = "done"
    /\ mpc' = "exit"
    /\ UNCHANGED <<shared, count, ppc, cpc, i, wrong, k, sum>>

Main == CreateConsumer \/ CreateProducer \/ JoinProducer \/ JoinConsumer

-----------------------------------------------------------------------------
Next ==
    \/ \E p \in Producers : Produce(p)
    \/ Consume
    \/ \E t \in Wakeable : SpuriousWakeup(t)
    \/ Main

(* The scheduler runs every thread that can run; nothing promises a thread *)
(* the mutex ahead of another, and nothing promises a spurious wakeup.     *)
Fairness ==
    /\ \A p \in Producers : WF_vars(Produce(p))
    /\ WF_vars(Consume)
    /\ WF_vars(Main)

Spec == Init /\ [][Next]_vars

FairSpec == Spec /\ Fairness
=============================================================================
