------------------------------- MODULE RbTree -------------------------------
(***************************************************************************)
(* The red-black tree of algorithm/rb_tree/rb_tree.h: a heap of nodes that *)
(* insert, remove and find walk and relink.  A call up to its fix loop is  *)
(* one step, and each turn of a fix loop is another.                       *)
(*                                                                         *)
(* Keys are unique and a node's key never changes, so a node is named by   *)
(* its key and Nil is the sentinel.  The code writes every case of its two *)
(* fix loops twice, with left and right exchanged; here a side is a        *)
(* parameter.  t is everything the pointers lead to.                       *)
(***************************************************************************)
EXTENDS Integers, FiniteSets

CONSTANTS
    MaxKey,     \* keys are 1 .. MaxKey
    Datas,      \* the data a node may hold
    Varied      \* bound: the keys inserted with more than one datum; the
                \* code never looks at the data

ASSUME TreeConstants == MaxKey \in Nat /\ Datas # {} /\ Varied \subseteq 1 .. MaxKey

Keys  == 1 .. MaxKey
Nil   == 0                  \* the sentinel
Ptr   == Keys \cup {Nil}
Sides == {"left", "right"}
Red   == 0
Black == 1

Other(s) == IF s = "left" THEN "right" ELSE "left"

VARIABLES
    nodes,  \* the nodes allocated and not deleted
    t,      \* root; and of each node its kids, parent, color and data
    pc,     \* "idle", in a fix loop ("insertFix", "removeFix"), or "destroyed"
    cur,    \* insert or replace, the node the fix loop is at
    ret     \* the answer to the latest call

treeVars == <<nodes, t, pc, cur, ret>>

NoAnswer == [op |-> "none"]

AnyData == CHOOSE d \in Datas : TRUE

Trees == [root : Ptr,
          kid : [Ptr -> [Sides -> Ptr]],
          parent : [Ptr -> Ptr],
          color : [Ptr -> {Red, Black}],
          data : [Keys -> Datas]]

TreeTypeOK ==
    /\ nodes \subseteq Keys
    /\ t \in Trees
    /\ pc \in {"idle", "insertFix", "removeFix", "destroyed"}
    /\ cur \in Ptr
    /\ \/ ret = NoAnswer
       \/ ret.op \in {"insert", "remove", "find"} /\ ret.code \in {-1, 0}

(* A new node is red and its pointers lead to the sentinel.  The sentinel's*)
(* own kids are null in the code; ColorsAreRight says nobody follows them. *)
Unlinked == [s \in Sides |-> Nil]

InitTree ==
    /\ nodes = {}
    /\ t = [root |-> Nil,
            kid |-> [p \in Ptr |-> Unlinked],
            parent |-> [p \in Ptr |-> Nil],
            color |-> [p \in Ptr |-> IF p = Nil THEN Black ELSE Red],
            data |-> [k \in Keys |-> AnyData]]
    /\ pc = "idle"
    /\ cur = Nil
    /\ ret = NoAnswer

-----------------------------------------------------------------------------
(* Relinking.                                                              *)

(* rb_transplant: src takes dest's place under dest's parent.  src may be  *)
(* the sentinel, whose parent the remove fix then relies on.               *)
Transplant(tr, dest, src) ==
    LET p == tr.parent[dest] IN
    IF p = Nil THEN [tr EXCEPT !.root = src, !.parent[src] = p]
    ELSE LET s == IF tr.kid[p]["left"] = dest THEN "left" ELSE "right"
         IN [tr EXCEPT !.kid[p][s] = src, !.parent[src] = p]

(* Mutant: the inner child is dropped.                                     *)
RotateDrops(tr, n, s) ==
    LET up == tr.kid[n][Other(s)]
        t1 == [tr EXCEPT !.kid[n][Other(s)] = Nil]
    IN [Transplant(t1, n, up) EXCEPT !.kid[up][s] = n, !.parent[n] = up]

(* The first half of a rotation: n takes the inner child of the child that *)
(* goes up.                                                                *)
TakeInner(tr, n, s) ==
    LET inner == tr.kid[tr.kid[n][Other(s)]][s]
    IN [tr EXCEPT !.kid[n][Other(s)] = inner,
                  !.parent = IF inner = Nil THEN @ ELSE [@ EXCEPT ![inner] = n]]

(* left_rotate (s = "left") and right_rotate: n sinks to side s.           *)
Rotate(tr, n, s) ==
    LET up == tr.kid[n][Other(s)]
    IN [Transplant(TakeInner(tr, n, s), n, up) EXCEPT !.kid[up][s] = n, !.parent[n] = up]

Paint(tr, n, c) == [tr EXCEPT !.color[n] = c]

(* get_minimum_from_subtree.                                               *)
Minimum(tr, n) ==
    LET step[i \in 0 .. MaxKey] ==
            IF i = 0 THEN n
            ELSE LET m == step[i - 1]
                     l == tr.kid[m]["left"]
                 IN IF l = Nil THEN m ELSE l
    IN step[MaxKey]

(* The side of its parent n is on; what the code finds comparing it with   *)
(* the left child.                                                         *)
SideOf(n) == IF t.kid[t.parent[n]]["left"] = n THEN "left" ELSE "right"

-----------------------------------------------------------------------------
(* The search loop of insert, remove and find: after how many turns it is  *)
(* at which node, on its way from the root to k or to where k would be.    *)
(* (Singletons, since TLC computes the elements of a set once.)            *)
Steps(k) ==
    LET down(n) == IF n \in {Nil, k} THEN n
                   ELSE t.kid[n][IF k < n THEN "left" ELSE "right"]
        at[i \in 0 .. MaxKey] ==
            IF i = 0 THEN {t.root} ELSE {down(n) : n \in at[i - 1]}
    IN at

Lookup(k) == CHOOSE n \in Steps(k)[MaxKey] : TRUE

(* The last node on the way, p_parent.                                     *)
LastNode(k) ==
    LET at == Steps(k)
    IN IF t.root = Nil THEN Nil
       ELSE CHOOSE n \in Keys :
               \E i \in 0 .. MaxKey - 1 : n \in at[i] /\ Nil \in at[i + 1]

Answer(r) == pc' = "idle" /\ cur' = Nil /\ ret' = r

InsertExists(k) ==
    /\ pc = "idle"
    /\ Lookup(k) = k
    /\ Answer([op |-> "insert", key |-> k, code |-> -1])
    /\ UNCHANGED <<nodes, t>>

(* create_node and the link from the parent.                               *)
Insert(k, d) ==
    /\ pc = "idle"
    /\ Lookup(k) = Nil
    /\ LET par == LastNode(k)
           s == IF k < par THEN "left" ELSE "right"
           t1 == [t EXCEPT !.kid[k] = Unlinked, !.parent[k] = par,
                           !.color[k] = Red, !.data[k] = d]
       IN t' = IF par = Nil THEN [t1 EXCEPT !.root = k]
               ELSE [t1 EXCEPT !.kid[par][s] = k]
    /\ nodes' = nodes \cup {k}
    /\ cur' = k
    /\ pc' = "insertFix"
    /\ ret' = [op |-> "insert", key |-> k, code |-> 0]

(* One turn of rb_insert_fix's loop.                                       *)
InsertFix ==
    LET p == t.parent[cur]
        g == t.parent[p]
        s == SideOf(p)
        uncle == t.kid[g][Other(s)]
    IN
    /\ pc = "insertFix"
    /\ t.color[p] = Red
    /\ \/ /\ t.color[uncle] = Red                           \* case 1
          /\ t' = Paint(Paint(Paint(t, p, Black), uncle, Black), g, Red)
          /\ cur' = g
       \/ /\ t.color[uncle] = Black /\ cur = t.kid[p][Other(s)]     \* case 2
          /\ t' = Rotate(t, p, s)
          /\ cur' = p
       \/ /\ t.color[uncle] = Black /\ cur # t.kid[p][Other(s)]     \* case 3
          /\ t' = Rotate(Paint(Paint(t, p, Black), g, Red), g, Other(s))
          /\ UNCHANGED cur
    /\ UNCHANGED <<nodes, pc, ret>>

InsertDone ==
    /\ pc = "insertFix"
    /\ t.color[t.parent[cur]] = Black
    /\ t' = Paint(t, t.root, Black)
    /\ Answer(ret)
    /\ UNCHANGED nodes

RemoveMissing(k) ==
    /\ pc = "idle"
    /\ Lookup(k) = Nil
    /\ Answer([op |-> "remove", key |-> k, code |-> -1])
    /\ UNCHANGED <<nodes, t>>

(* n has a child at most on side s, which takes its place.                 *)
SpliceOut(n, s) ==
    [tree |-> Transplant(t, n, t.kid[n][s]),
     replace |-> t.kid[n][s],
     color |-> t.color[n]]

(* Mutant: the least node keeps its own color.                             *)
SpliceMinimumColor(n) ==
    LET m == Minimum(t, t.kid[n]["right"])
        r == t.kid[m]["right"]
        t1 == IF t.parent[m] = n THEN [t EXCEPT !.parent[r] = m]
              ELSE [Transplant(t, m, r) EXCEPT
                       !.kid[m]["right"] = t.kid[n]["right"],
                       !.parent[t.kid[n]["right"]] = m]
    IN [tree |-> [Transplant(t1, n, m) EXCEPT
                     !.kid[m]["left"] = t1.kid[n]["left"],
                     !.parent[t1.kid[n]["left"]] = m],
        replace |-> r,
        color |-> t.color[m]]

(* n has two children: m, the least node of its right subtree, takes its   *)
(* place and its color.                                                    *)
SpliceMinimum(n) ==
    LET m == Minimum(t, t.kid[n]["right"])
        r == t.kid[m]["right"]
        t1 == IF t.parent[m] = n THEN [t EXCEPT !.parent[r] = m]
              ELSE [Transplant(t, m, r) EXCEPT
                       !.kid[m]["right"] = t.kid[n]["right"],
                       !.parent[t.kid[n]["right"]] = m]
    IN [tree |-> [Transplant(t1, n, m) EXCEPT
                     !.kid[m]["left"] = t1.kid[n]["left"],
                     !.parent[t1.kid[n]["left"]] = m,
                     !.color[m] = t1.color[n]],
        replace |-> r,
        color |-> t.color[m]]

Splice(n) ==
    IF t.kid[n]["left"] = Nil THEN SpliceOut(n, "right")
    ELSE IF t.kid[n]["right"] = Nil THEN SpliceOut(n, "left")
    ELSE SpliceMinimum(n)

(* The memory of a deleted node, forgotten.                                *)
Forget(tr, n) ==
    [tr EXCEPT !.kid[n] = Unlinked, !.parent[n] = Nil, !.color[n] = Red,
               !.data[n] = AnyData]

Remove(k) ==
    LET sp == Splice(k)
        r == [op |-> "remove", key |-> k, code |-> 0]
    IN
    /\ pc = "idle"
    /\ Lookup(k) = k
    /\ t' = Forget(sp.tree, k)
    /\ nodes' = nodes \ {k}
    /\ IF sp.color = Black
       THEN pc' = "removeFix" /\ cur' = sp.replace /\ ret' = r
       ELSE Answer(r)

(* One turn of rb_remove_fix's loop.  After case 1 the code goes on in the *)
(* same turn with the new brother.                                         *)
RemoveFix ==
    LET p == t.parent[cur]
        s == SideOf(cur)
        old == t.kid[p][Other(s)]
        t1 == IF t.color[old] = Red                                 \* case 1
              THEN Rotate(Paint(Paint(t, old, Black), p, Red), p, s)
              ELSE t
        brother == t1.kid[p][Other(s)]
        near == t1.kid[brother][s]
        far  == t1.kid[brother][Other(s)]
    IN
    /\ pc = "removeFix"
    /\ cur # t.root /\ t.color[cur] = Black
    /\ \/ /\ t1.color[near] = Black /\ t1.color[far] = Black        \* case 2
          /\ t' = Paint(t1, brother, Red)
          /\ cur' = p
       \/ /\ t1.color[near] = Red /\ t1.color[far] = Black          \* case 3
          /\ t' = Rotate(Paint(Paint(t1, near, Black), brother, Red),
                         brother, Other(s))
          /\ UNCHANGED cur
       \/ /\ t1.color[far] = Red                                    \* case 4
          /\ t' = Rotate([t1 EXCEPT !.color = [@ EXCEPT ![brother] = t1.color[p],
                                                        ![p] = Black,
                                                        ![far] = Black]], p, s)
          /\ cur' = t'.root
    /\ UNCHANGED <<nodes, pc, ret>>

(* Mutant: the loop does not end at a black root.                          *)
RemoveDoneRed ==
    /\ pc = "removeFix"
    /\ t.color[cur] = Red
    /\ t' = Paint(t, cur, Black)
    /\ Answer(ret)
    /\ UNCHANGED nodes

RemoveDone ==
    /\ pc = "removeFix"
    /\ cur = t.root \/ t.color[cur] = Red
    /\ t' = Paint(t, cur, Black)
    /\ Answer(ret)
    /\ UNCHANGED nodes

Find(k) ==
    /\ pc = "idle"
    /\ Answer(IF Lookup(k) = k
              THEN [op |-> "find", key |-> k, code |-> 0, data |-> t.data[k]]
              ELSE [op |-> "find", key |-> k, code |-> -1])
    /\ UNCHANGED <<nodes, t>>

(* destroy_loop deletes what it reaches from the root.                     *)
Reached ==
    LET from[i \in 0 .. MaxKey] ==
            IF i = 0 THEN {t.root} \ {Nil}
            ELSE LET S == from[i - 1]
                 IN S \cup ({t.kid[n][s] : n \in S, s \in Sides} \ {Nil})
    IN from[MaxKey]

Destroy ==
    /\ pc = "idle"
    /\ pc' = "destroyed"
    /\ nodes' = nodes \ Reached
    /\ t' = [t EXCEPT !.root = Nil]
    /\ UNCHANGED <<cur, ret>>

-----------------------------------------------------------------------------
Call ==
    \/ \E k \in Keys : InsertExists(k) \/ RemoveMissing(k) \/ Remove(k) \/ Find(k)
    \/ \E k \in Keys : \E d \in IF k \in Varied THEN Datas ELSE {AnyData} : Insert(k, d)
    \/ Destroy

Fix == InsertFix \/ InsertDone \/ RemoveFix \/ RemoveDone

NextTree == Call \/ Fix

SpecTree == InitTree /\ [][NextTree]_treeVars

(* A call that has begun goes on; nobody has to call.                      *)
FairTree == SpecTree /\ WF_treeVars(Fix)
=============================================================================
