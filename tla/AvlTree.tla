------------------------------ MODULE AvlTree ------------------------------
(***************************************************************************)
(* The AVL tree of algorithm/avl_tree/avl_tree.cpp.  A tree is a value: a  *)
(* record with its two subtrees, or Null; a call is one step.  The code    *)
(* passes a node by the address of the pointer to it and a flag, taller or *)
(* shorter, by address; here a call returns both.                          *)
(*                                                                         *)
(* left_balance and right_balance, like the two halves of the loops, are   *)
(* each other's mirror image; here a side is a parameter.  A call that     *)
(* follows a null pointer ends the process.                                *)
(***************************************************************************)
EXTENDS Integers

CONSTANTS
    MaxData,    \* data are 1 .. MaxData
    Doubled     \* bound: the data that may be in twice, the others once

AvlConstants == MaxData \in Nat /\ Doubled \subseteq 1 .. MaxData

Numbers == 1 .. MaxData
Sides == {"left", "right"}
Null  == [null |-> TRUE]

Other(s)  == IF s = "left" THEN "right" ELSE "left"
Weight(s) == IF s = "left" THEN -1 ELSE 1

VARIABLES
    tree,   \* root and all it leads to
    alive,  \* neither destroyed nor crashed
    ret     \* the answer to the latest call

vars == <<tree, alive, ret>>

Init ==
    /\ tree = Null
    /\ alive = TRUE
    /\ ret = [op |-> "none"]

-----------------------------------------------------------------------------
(* create_node.                                                            *)
Node(d) == [data |-> d, balance |-> 0, kid |-> [s \in Sides |-> Null]]

(* Mutant: the inner subtree is dropped.                                   *)
RotateDrops(n, s) ==
    LET up == n.kid[Other(s)]
    IN [up EXCEPT !.kid[s] = [n EXCEPT !.kid[Other(s)] = Null]]

(* rotate_left (s = "left") and rotate_right: n sinks to side s.           *)
Rotate(n, s) ==
    LET up == n.kid[Other(s)]
    IN [up EXCEPT !.kid[s] = [n EXCEPT !.kid[Other(s)] = up.kid[s]]]

(* What a loop leaves behind: the subtree, and "yes" if its height changed.*)
Gives(n, changed) == [node |-> n, changed |-> changed]

Crash == Gives(Null, "crash")

(* The flag after a rotation that makes a subtree lower: an insertion ends *)
(* there, a deletion goes on.                                              *)
Lower(is_insert) == IF is_insert THEN "no" ELSE "yes"

(* n's subtree sub leans away from s: its inner child comes to the top.    *)
RotateTwice(n, s, is_insert) ==
    LET inner == n.kid[s].kid[Other(s)].balance
        painted == [n EXCEPT !.balance = IF inner = Weight(s) THEN -Weight(s) ELSE 0,
                             !.kid[s].balance = IF inner = -Weight(s) THEN Weight(s) ELSE 0,
                             !.kid[s].kid[Other(s)].balance = 0]
    IN Gives(Rotate([painted EXCEPT !.kid[s] = Rotate(@, s)], Other(s)), Lower(is_insert))

(* left_balance (s = "left") and right_balance: n is too heavy on side s.  *)
Rebalance(n, s, is_insert) ==
    LET sub == n.kid[s] IN
    CASE sub = Null -> Crash
      [] sub # Null /\ sub.balance = Weight(s) ->
            Gives(Rotate([n EXCEPT !.balance = 0, !.kid[s].balance = 0], Other(s)),
                  Lower(is_insert))
      [] sub # Null /\ sub.balance = 0 ->
            IF is_insert THEN Gives(n, "yes")
            ELSE Gives(Rotate([n EXCEPT !.kid[s].balance = -Weight(s)], Other(s)), "no")
      [] sub # Null /\ sub.balance = -Weight(s) ->
            IF sub.kid[Other(s)] = Null THEN Crash ELSE RotateTwice(n, s, is_insert)

-----------------------------------------------------------------------------
(* Mutant: a node that gets heavier is taken for one that was even.        *)
GrownAlways(n, s) ==
    IF n.balance = Weight(s) THEN Rebalance(n, s, TRUE)
    ELSE Gives([n EXCEPT !.balance = Weight(s)], "yes")

(* n's subtree on side s has grown.                                        *)
Grown(n, s) ==
    CASE n.balance = -Weight(s) -> Gives([n EXCEPT !.balance = 0], "no")
      [] n.balance = 0 -> Gives([n EXCEPT !.balance = Weight(s)], "yes")
      [] n.balance = Weight(s) -> Rebalance(n, s, TRUE)

RECURSIVE InsertLoop(_, _)
(* A singleton, as DeleteLoop: TLC computes the elements of a set once.    *)
InsertLoop(n, d) ==
    IF n = Null THEN {Gives(Node(d), "yes")}
    ELSE LET s == IF d > n.data THEN "right" ELSE "left"
             With(m) == [n EXCEPT !.kid[s] = m]
         IN {IF r.changed = "yes" THEN Grown(With(r.node), s)
             ELSE Gives(With(r.node), r.changed) : r \in InsertLoop(n.kid[s], d)}

(* n's subtree on side s has shrunk.                                       *)
Shrunk(n, s) ==
    CASE n.balance = Weight(s) -> Gives([n EXCEPT !.balance = 0], "yes")
      [] n.balance = 0 -> Gives([n EXCEPT !.balance = -Weight(s)], "no")
      [] n.balance = -Weight(s) -> Rebalance(n, Other(s), FALSE)

(* After the predecessor of the deleted node is gone: as if the left       *)
(* subtree had shrunk, but an even node leans to the left then.            *)
ShrunkBelow(n) ==
    IF n.balance = 0 THEN Gives([n EXCEPT !.balance = -1], "no")
    ELSE Shrunk(n, "left")

(* n holds the data.  With two children its left child, if that has no     *)
(* right one, gives n its data and goes; otherwise nothing happens.        *)
DeleteHere(n) ==
    LET left  == n.kid["left"]
        right == n.kid["right"]
    IN CASE left = Null -> Gives(right, "yes")
         [] left # Null /\ right = Null -> Gives(left, "yes")
         [] left # Null /\ right # Null ->
               IF left.kid["right"] = Null
               THEN ShrunkBelow([n EXCEPT !.data = left.data,
                                          !.kid["left"] = left.kid["left"]])
               ELSE Gives(n, "no")

RECURSIVE DeleteLoop(_, _)
DeleteLoop(n, d) ==
    IF d = n.data THEN {DeleteHere(n)}
    ELSE LET s == IF d > n.data THEN "right" ELSE "left"
             With(m) == [n EXCEPT !.kid[s] = m]
         IN IF n.kid[s] = Null THEN {Gives(n, "missing")}
            ELSE {IF r.changed = "yes" THEN Shrunk(With(r.node), s)
                  ELSE Gives(With(r.node), r.changed) : r \in DeleteLoop(n.kid[s], d)}

RECURSIVE Reach(_, _)
(* The node find stops at.                                                 *)
Reach(n, d) ==
    IF n = Null THEN Null
    ELSE IF n.data = d THEN n
    ELSE Reach(n.kid[IF d > n.data THEN "right" ELSE "left"], d)

-----------------------------------------------------------------------------
RECURSIVE Count(_, _)
(* How often d is in the tree.                                             *)
Count(n, d) ==
    IF n = Null THEN 0
    ELSE (IF n.data = d THEN 1 ELSE 0) + Count(n.kid["left"], d) + Count(n.kid["right"], d)

Answer(op, d, code) == ret' = [op |-> op, key |-> d, code |-> code]

(* The call returns, or the process is gone.                               *)
Ends(r, op, d, code) ==
    IF r.changed = "crash"
    THEN alive' = FALSE /\ UNCHANGED <<tree, ret>>
    ELSE tree' = r.node /\ Answer(op, d, code) /\ UNCHANGED alive

Insert(d) ==
    /\ alive
    /\ Count(tree, d) < IF d \in Doubled THEN 2 ELSE 1
    /\ \E r \in InsertLoop(tree, d) : Ends(r, "insert", d, 0)

Del(d) ==
    /\ alive
    /\ \E r \in IF tree = Null THEN {Gives(tree, "missing")} ELSE DeleteLoop(tree, d) :
          Ends(r, "del", d, IF r.changed = "missing" THEN -1 ELSE 0)

Find(d) ==
    /\ alive
    /\ Answer("find", d, IF Reach(tree, d) = Null THEN -1 ELSE 0)
    /\ UNCHANGED <<tree, alive>>

Destroy ==
    /\ alive
    /\ tree' = Null
    /\ alive' = FALSE
    /\ UNCHANGED ret

Next ==
    \/ \E d \in Numbers : Insert(d) \/ Del(d) \/ Find(d)
    \/ Destroy

Spec == Init /\ [][Next]_vars
=============================================================================
