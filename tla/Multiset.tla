------------------------------ MODULE Multiset ------------------------------
(***************************************************************************)
(* What a bag of numbers promises: insert adds one occurrence, find tells  *)
(* whether there is one, and del refuses a number that is not there.  A    *)
(* del that succeeds takes one occurrence of its number and nothing else;  *)
(* with three other elements or more it may also take nothing.             *)
(***************************************************************************)
EXTENDS Integers, FiniteSetsExt

CONSTANT Datas

VARIABLES bag,  \* how often each number is in
          ret   \* the answer to the latest call

BInit == bag = [d \in Datas |-> 0] /\ ret = [op |-> "none"]

Says(op, d, code) == ret' = [op |-> op, key |-> d, code |-> code]

Size == MapThenSumSet(LAMBDA d : bag[d], Datas)

Add(d) ==
    /\ Says("insert", d, 0)
    /\ bag' = [bag EXCEPT ![d] = @ + 1]

Take(d) ==
    /\ Says("del", d, 0)
    /\ bag[d] > 0
    /\ \/ bag' = [bag EXCEPT ![d] = @ - 1]
       \/ Size >= 4 /\ UNCHANGED bag

Refuse(d) ==
    /\ Says("del", d, -1)
    /\ bag[d] = 0
    /\ UNCHANGED bag

Look(d) ==
    /\ Says("find", d, IF bag[d] > 0 THEN 0 ELSE -1)
    /\ UNCHANGED bag

Drop == bag' = [d \in Datas |-> 0] /\ UNCHANGED ret

BNext ==
    \/ \E d \in Datas : Add(d) \/ Take(d) \/ Refuse(d) \/ Look(d)
    \/ Drop

BSpec == BInit /\ [][BNext]_<<bag, ret>>
=============================================================================
