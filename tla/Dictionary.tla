----------------------------- MODULE Dictionary -----------------------------
(***************************************************************************)
(* What a map of keys to data promises: insert refuses a key that is there *)
(* and adds one that is not, remove and find succeed exactly on the keys   *)
(* that are there, and find hands out the data last stored with the key.   *)
(* ret is the answer to the latest call.                                   *)
(***************************************************************************)
EXTENDS Integers

CONSTANTS Keys, Datas

VARIABLES dict, ret

DInit == dict = <<>> /\ ret = [op |-> "none"]

Has(k) == k \in DOMAIN dict

Insert(k, d) ==
    \/ /\ ret' = [op |-> "insert", key |-> k, code |-> -1]
       /\ Has(k)
       /\ UNCHANGED dict
    \/ /\ ret' = [op |-> "insert", key |-> k, code |-> 0]
       /\ ~Has(k)
       /\ LET old == dict
          IN dict' = [x \in DOMAIN old \cup {k} |-> IF x = k THEN d ELSE old[x]]

Remove(k) ==
    \/ /\ ret' = [op |-> "remove", key |-> k, code |-> -1]
       /\ ~Has(k)
       /\ UNCHANGED dict
    \/ /\ ret' = [op |-> "remove", key |-> k, code |-> 0]
       /\ Has(k)
       /\ LET old == dict
          IN dict' = [x \in DOMAIN old \ {k} |-> old[x]]

Find(k) ==
    \/ /\ ret' = [op |-> "find", key |-> k, code |-> -1]
       /\ ~Has(k)
       /\ UNCHANGED dict
    \/ /\ ret'.op = "find" /\ ret'.key = k
       /\ Has(k)
       /\ ret' = [op |-> "find", key |-> k, code |-> 0, data |-> dict[k]]
       /\ UNCHANGED dict

Drop == dict' = <<>> /\ UNCHANGED ret

DNext ==
    \/ \E k \in Keys : Remove(k) \/ Find(k) \/ \E d \in Datas : Insert(k, d)
    \/ Drop

DSpec == DInit /\ [][DNext]_<<dict, ret>>
=============================================================================
