---------------------------- MODULE AvlTreeProps ----------------------------
(* What AvlTree must satisfy and the multiset it implements.               *)
EXTENDS AvlTree

RECURSIVE Height(_)
Height(n) ==
    IF n = Null THEN 0
    ELSE LET l == Height(n.kid["left"])
             r == Height(n.kid["right"])
         IN 1 + IF l > r THEN l ELSE r

RECURSIVE Balanced(_)
(* Every balance is the difference of the two heights, at most one.        *)
Balanced(n) ==
    \/ n = Null
    \/ /\ n.balance = Height(n.kid["right"]) - Height(n.kid["left"])
       /\ n.balance \in {-1, 0, 1}
       /\ \A s \in Sides : Balanced(n.kid[s])

TwoKids(d) ==
    LET n == Reach(tree, d) IN n # Null /\ \A s \in Sides : n.kid[s] # Null

(* From a balanced tree, however it came about, an insertion and the       *)
(* deletion of a node that has not two children lead to a balanced tree    *)
(* and follow no null pointer (avl_tree.cpp:131-176, 195-243, 288-393).    *)
StaysBalanced ==
    Balanced(tree) /\ (\E d \in Numbers : Insert(d) \/ (~TwoKids(d) /\ Del(d)))
        => alive' /\ Balanced(tree')

TreeBag == [d \in Numbers |-> Count(tree, d)]

RECURSIVE TypeOf(_)
TypeOf(n) ==
    \/ n = Null
    \/ /\ n.data \in Numbers /\ n.balance \in {-1, 0, 1}
       /\ \A s \in Sides : TypeOf(n.kid[s])

TypeOK ==
    /\ TypeOf(tree)
    /\ alive \in BOOLEAN
    /\ \/ ret = [op |-> "none"]
       \/ ret.op \in {"insert", "del", "find"} /\ ret.code \in {-1, 0}

Bag == INSTANCE Multiset WITH bag <- TreeBag, Datas <- Numbers

(* The tree implements Multiset: no rotation loses, doubles or hides an    *)
(* element, with any mix of calls and of equal data, also once the         *)
(* balances are wrong.                                                     *)
ImplementsMultiset == Bag!BSpec
=============================================================================
