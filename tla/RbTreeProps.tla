----------------------------- MODULE RbTreeProps -----------------------------
(* What RbTree must satisfy and the dictionary it implements.  The shape   *)
(* properties hold between any two steps, in the middle of a call too.     *)
EXTENDS RbTree

Ancestors(n) ==
    LET up[i \in 0 .. MaxKey] ==
            IF i = 0 THEN {n}
            ELSE LET S == up[i - 1]
                 IN S \cup ({t.parent[m] : m \in S} \ {Nil})
    IN up[MaxKey]

(* Every node allocated hangs in the tree, once, under the node its parent *)
(* pointer names, and nothing in the tree was deleted: no leak, no dangling*)
(* pointer, no cycle, whichever rotation or transplant ran last; and       *)
(* nothing is left once the tree is destroyed.                             *)
Linked ==
    /\ nodes = Reached
    /\ t.root # Nil => t.parent[t.root] = Nil
    /\ \A n \in nodes : \A s \in Sides :
          LET m == t.kid[n][s] IN
          m # Nil => t.parent[m] = n /\ m # t.kid[n][Other(s)] /\ m # t.root

(* No red node has a red parent, but for the node the insert fix is at and *)
(* for the node the remove fix will paint black, with its parent or child. *)
RedsApart ==
    \A n \in nodes :
        t.color[n] = Red /\ n # t.root /\ t.color[t.parent[n]] = Red =>
            \/ pc \in {"insertFix", "removeFix"} /\ n = cur
            \/ pc = "removeFix" /\ t.parent[n] = cur

(* Black nodes from n up to the root; what the remove fix is at counts one *)
(* more.                                                                   *)
BlacksAbove(n) ==
    Cardinality({m \in Ancestors(n) : t.color[m] = Black})
      + (IF pc = "removeFix" /\ cur \in Ancestors(n) THEN 1 ELSE 0)

(* Every empty place has as many black nodes above it as every other; the  *)
(* empty place a removed black node left counts the one it lost.           *)
Lost(n, s) ==
    IF /\ pc = "removeFix" /\ cur = Nil /\ t.parent[Nil] = n
       /\ SideOf(Nil) = s
    THEN 1 ELSE 0

SameBlacks ==
    \A m, n \in nodes : \A r, s \in Sides :
        t.kid[m][r] = Nil /\ t.kid[n][s] = Nil =>
            BlacksAbove(m) + Lost(m, r) = BlacksAbove(n) + Lost(n, s)

(* Where a fix loop takes a grandparent, an uncle or a brother for granted *)
(* there is one: it never reads through the sentinel's null pointers       *)
(* (rb_tree.h:412-440, 479-515).                                           *)
RelativesExist ==
    /\ t.color[Nil] = Black
    /\ pc = "insertFix" /\ t.color[t.parent[cur]] = Red => t.parent[t.parent[cur]] # Nil
    /\ pc = "removeFix" /\ cur # t.root /\ t.color[cur] = Black =>
          t.parent[cur] # Nil /\ t.kid[t.parent[cur]][Other(SideOf(cur))] # Nil

(* The colors keep the tree in shape, in mid-call too.                     *)
ColorsAreRight == RedsApart /\ SameBlacks /\ RelativesExist

(* The pointers make one tree of all that was allocated, between any two   *)
(* steps; colors and black heights are right, but for the one node a fix   *)
(* loop is at, and the loops find the relatives they ask for               *)
(* (rb_tree.h:320-551).                                                    *)
TreeIsRight == TreeTypeOK /\ Linked /\ ColorsAreRight

(* Every call comes to its end: the fix loops stop (rb_tree.h:402-551).    *)
CallsEnd == pc \notin {"idle", "destroyed"} ~> pc = "idle"

(* What searches from the root find.                                       *)
TreeDict == [k \in {x \in Keys : Lookup(x) = x} |-> t.data[k]]

Dict == INSTANCE Dictionary WITH dict <- TreeDict

(* The tree implements Dictionary: what a search from the root finds       *)
(* changes once per call, when the call's answer is settled, and no        *)
(* rotation, recoloring or transplant changes it again (rb_tree.h:116-318).*)
ImplementsDictionary == Dict!DSpec
=============================================================================
