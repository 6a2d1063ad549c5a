----------------------- MODULE ProducerConsumerProps -----------------------
(* What ProducerConsumer must satisfy, the specification it implements and *)
(* its inductive invariant.                                                *)
EXTENDS ProducerConsumer

(* The consumer's own check (lines 56-57): every element it reads holds    *)
(* its own index, although it reads without the mutex.                     *)
NoWrongValue == wrong = {}

(* A consumer asleep in pthread_cond_wait (line 52) has nothing to read,   *)
(* or the producer that made its product has the signal of line 37 still   *)
(* to send: no wakeup is lost between the test and the wait.               *)
NoLostWakeup ==
    cpc = "waiting" =>
        \/ i = next_val
        \/ /\ next_val = i + 1
           /\ \E p \in Producers : ppc[p] \in {"value", "signal"}

(* The consumer goes past an index only after the product was made, so no  *)
(* element escapes the check of line 56.                                   *)
NeverAhead == i <= next_val

(* No producer writes the element the consumer is reading outside the      *)
(* mutex (lines 34 and 56).                                                *)
ReadIsQuiet ==
    \A p \in Producers : ~ (ppc[p] = "store" /\ cpc = "read" /\ next_val = i)

(* What main prints after it joined the producers (lines 88-89): the three *)
(* totals are the length of the array.                                     *)
TotalsAgree ==
    mpc \in {"last", "exit"} =>
        sum = nput /\ nput = next_val /\ next_val = MAX_PRODUCT

(* Every thread ends and main returns.                                     *)
Termination == <>(mpc = "exit")

Log == INSTANCE OrderedLog WITH made <- next_val, taken <- i

(* The program implements OrderedLog: the array is an ordered log whose    *)
(* elements are taken once each, and all of them are.                      *)
ImplementsLog == Log!LSpec

-----------------------------------------------------------------------------
(* The inductive invariant.                                                *)

InLock == {"limit", "store", "next", "value", "signal", "unlock"}

(* The owner of the mutex is where the code holds it.  Only after a        *)
(* spurious wakeup does the consumer keep it past its critical section.    *)
LockInv ==
    /\ \A p \in Producers : ppc[p] \in InLock <=> mutex = p
    /\ cpc \in {"test", "again"} => mutex = Consumer
    /\ mutex = Consumer /\ ~SpuriousWakeups => cpc \in {"test", "again"}

(* What was stored, and how the two counters of lines 35-36 run together.   *)
ValueInv ==
    /\ \A x \in Slots : x < next_val => buf[x] = x
    /\ \A p \in Producers :
          /\ ppc[p] \in {"store", "next"} => next_val < MAX_PRODUCT
          /\ ppc[p] = "next" => buf[next_val] = next_val
          /\ ppc[p] = "value" => next_val = nput + 1
    /\ (\A p \in Producers : ppc[p] # "value") => nput = next_val

(* Where the consumer stands.                                              *)
ReadInv ==
    /\ cpc = "read" => i < next_val
    /\ cpc \in {"test", "waiting", "woken", "again", "read"} => i < MAX_PRODUCT
    /\ mpc = "consumer" => cpc = "none"
    /\ NoWrongValue

(* A consumer that was woken has something to read.                        *)
WakeInv ==
    /\ NoLostWakeup
    /\ \A p \in Producers :
          cpc = "waiting" /\ ppc[p] \in {"value", "signal"} => i < next_val
    /\ cpc \in {"woken", "again"} => i < next_val
    /\ NeverAhead

(* The producers main joined found the array full.                         *)
JoinInv ==
    /\ \A p \in Producers : ppc[p] = "done" => next_val = MAX_PRODUCT
    /\ mpc = "join" => \A p \in Producers : p < k => ppc[p] = "done"
    /\ mpc \in {"last", "exit"} => \A p \in Producers : ppc[p] = "done"

PCInv ==
    /\ TypeOK
    /\ LockInv
    /\ ValueInv
    /\ ReadInv
    /\ ~SpuriousWakeups => WakeInv
    /\ JoinInv
=============================================================================
