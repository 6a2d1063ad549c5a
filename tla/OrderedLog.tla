----------------------------- MODULE OrderedLog -----------------------------
(***************************************************************************)
(* What the mutex program of ipc/u7.3_mutex_p_c promises, without threads, *)
(* lock or condition variable: MAX_PRODUCT products are made one at a time *)
(* and each is taken once, in the order they were made, never before it    *)
(* exists.  ProducerConsumer implements it when no wakeup is spurious.     *)
(***************************************************************************)
EXTENDS Naturals

CONSTANT MAX_PRODUCT

VARIABLES made, taken

LInit == made = 0 /\ taken = 0

Make ==
    /\ made < MAX_PRODUCT
    /\ made' = made + 1
    /\ UNCHANGED taken

Take ==
    /\ taken < made
    /\ taken' = taken + 1
    /\ UNCHANGED made

LNext == Make \/ Take

LSafe == LInit /\ [][LNext]_<<made, taken>>

LFair == WF_<<made, taken>>(Make) /\ WF_<<made, taken>>(Take)

LSpec == LSafe /\ LFair
=============================================================================
