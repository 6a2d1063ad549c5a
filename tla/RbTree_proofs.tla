---------------------------- MODULE RbTree_proofs ----------------------------
(***************************************************************************)
(* The red-black tree keeps its shape, its black heights and its data for  *)
(* every number of keys: TreeIsRight and ImplementsDictionary as theorems  *)
(* of SpecTree.  N is a set of nodes, tr and v trees before a step and u   *)
(* one after it; lo and hi are the bounds of each node's keys, bh its black*)
(* height.                                                                 *)
(***************************************************************************)
EXTENDS RbTreeProps, FiniteSetTheorems, WellFoundedInduction, TLAPS

-----------------------------------------------------------------------------
(* The writes to a tree, one field at a time.                              *)

SetRoot(tr, a)      == [tr EXCEPT !.root = a]
SetKid(tr, a, s, b) == [tr EXCEPT !.kid[a][s] = b]
SetParent(tr, a, b) == [tr EXCEPT !.parent[a] = b]
SetData(tr, a, d)   == [tr EXCEPT !.data[a] = d]

(* A tree with these fields.                                               *)
Tree(root, kid, parent, color, data) ==
    [root |-> root, kid |-> kid, parent |-> parent, color |-> color, data |-> data]

LEMMA IsTree ==
  ASSUME NEW u, u \in Trees
  PROVE  /\ u.root \in Ptr /\ u.kid \in [Ptr -> [Sides -> Ptr]]
         /\ u.parent \in [Ptr -> Ptr] /\ u.color \in [Ptr -> {Red, Black}]
         /\ u.data \in [Keys -> Datas]
         /\ u = Tree(u.root, u.kid, u.parent, u.color, u.data)
  BY DEF Trees, Tree

LEMMA KidsReplaced ==
  ASSUME NEW r, NEW k, NEW p, NEW c, NEW d, NEW j, NEW tr, tr = Tree(r, k, p, c, d)
  PROVE  [tr EXCEPT !.kid = j] = Tree(r, j, p, c, d)
  BY SMT DEF Tree

WroteRoot(u, tr, a) ==
    /\ u \in Trees /\ u.root = a /\ u.kid = tr.kid /\ u.parent = tr.parent
    /\ u.color = tr.color /\ u.data = tr.data

LEMMA RootSet ==
  ASSUME NEW tr \in Trees, NEW a \in Ptr
  PROVE  WroteRoot(SetRoot(tr, a), tr, a)
<1> DEFINE u == SetRoot(tr, a)
<1>1. tr = Tree(tr.root, tr.kid, tr.parent, tr.color, tr.data)
  BY IsTree
<1>2. u = Tree(a, tr.kid, tr.parent, tr.color, tr.data)
  BY <1>1, SMT DEF SetRoot, Tree
<1>3. /\ tr.kid \in [Ptr -> [Sides -> Ptr]] /\ tr.parent \in [Ptr -> Ptr]
      /\ tr.color \in [Ptr -> {Red, Black}] /\ tr.data \in [Keys -> Datas]
  BY IsTree
<1> HIDE DEF u
<1>4. u \in Trees
  BY <1>2, <1>3, Zenon DEF Tree, Trees
<1>5. /\ u.root = a /\ u.kid = tr.kid /\ u.parent = tr.parent
      /\ u.color = tr.color /\ u.data = tr.data
  BY <1>2, SMT DEF Tree
<1> QED
  BY <1>4, <1>5 DEF u, WroteRoot

WroteKid(u, tr, a, s, b) ==
    /\ u \in Trees /\ u.root = tr.root /\ u.parent = tr.parent
    /\ u.color = tr.color /\ u.data = tr.data
    /\ \A x \in Ptr : \A z \in Sides :
          u.kid[x][z] = IF x = a /\ z = s THEN b ELSE tr.kid[x][z]

LEMMA KidSet ==
  ASSUME NEW tr \in Trees, NEW a \in Ptr, NEW s \in Sides, NEW b \in Ptr
  PROVE  WroteKid(SetKid(tr, a, s, b), tr, a, s, b)
<1> DEFINE u   == SetKid(tr, a, s, b)
           k   == tr.kid
           row == [k[a] EXCEPT ![s] = b]
           j   == [k EXCEPT ![a] = row]
<1>1. k \in [Ptr -> [Sides -> Ptr]] /\ tr = Tree(tr.root, k, tr.parent, tr.color, tr.data)
  BY IsTree
<1>2. u = Tree(tr.root, j, tr.parent, tr.color, tr.data)
  <2>1. u = [tr EXCEPT !.kid = j]
    BY DEF SetKid
  <2> HIDE DEF j, k, row, u
  <2> QED
    BY <1>1, <2>1, KidsReplaced
<1> HIDE DEF k
<1>3. row \in [Sides -> Ptr] /\ \A z \in Sides : row[z] = IF z = s THEN b ELSE k[a][z]
  BY <1>1
<1> HIDE DEF row
<1>4. j \in [Ptr -> [Sides -> Ptr]] /\ \A x \in Ptr : j[x] = IF x = a THEN row ELSE k[x]
  BY <1>1, <1>3
<1> HIDE DEF j
<1>5. \A x \in Ptr : \A z \in Sides : j[x][z] = IF x = a /\ z = s THEN b ELSE k[x][z]
  BY <1>3, <1>4
<1> HIDE DEF u
<1>6. /\ u \in Trees /\ u.root = tr.root /\ u.kid = j /\ u.parent = tr.parent
      /\ u.color = tr.color /\ u.data = tr.data
  <2>1. /\ tr.root \in Ptr /\ tr.parent \in [Ptr -> Ptr]
        /\ tr.color \in [Ptr -> {Red, Black}] /\ tr.data \in [Keys -> Datas]
    BY IsTree
  <2>2. u \in Trees
    BY <1>2, <1>4, <2>1, Zenon DEF Tree, Trees
  <2> QED
    BY <1>2, <2>2, SMT DEF Tree
<1> QED
  BY <1>5, <1>6 DEF k, u, WroteKid

WroteParent(u, tr, a, b) ==
    /\ u \in Trees /\ u.root = tr.root /\ u.kid = tr.kid /\ u.color = tr.color /\ u.data = tr.data
    /\ \A x \in Ptr : u.parent[x] = IF x = a THEN b ELSE tr.parent[x]

LEMMA ParentSet ==
  ASSUME NEW tr \in Trees, NEW a \in Ptr, NEW b \in Ptr
  PROVE  WroteParent(SetParent(tr, a, b), tr, a, b)
<1> DEFINE u == SetParent(tr, a, b)
           k == tr.parent
           j == [k EXCEPT ![a] = b]
<1>1. k \in [Ptr -> Ptr] /\ tr = Tree(tr.root, tr.kid, k, tr.color, tr.data)
  BY IsTree
<1>2. u = Tree(tr.root, tr.kid, j, tr.color, tr.data)
  BY <1>1, SMT DEF SetParent, Tree
<1> HIDE DEF k
<1>3. j \in [Ptr -> Ptr] /\ \A x \in Ptr : j[x] = IF x = a THEN b ELSE k[x]
  BY <1>1
<1> HIDE DEF j, u
<1>4. u \in Trees /\ u.parent = j /\ u.root = tr.root /\ u.kid = tr.kid /\ u.color = tr.color /\ u.data = tr.data
  <2>1. /\ tr.root \in Ptr /\ tr.kid \in [Ptr -> [Sides -> Ptr]]
        /\ tr.color \in [Ptr -> {Red, Black}] /\ tr.data \in [Keys -> Datas]
    BY IsTree
  <2>2. u \in Trees
    BY <1>2, <1>3, <2>1, Zenon DEF Tree, Trees
  <2> QED
    BY <1>2, <2>2, SMT DEF Tree
<1> QED
  BY <1>3, <1>4 DEF k, u, WroteParent

WroteColor(u, tr, a, b) ==
    /\ u \in Trees /\ u.root = tr.root /\ u.kid = tr.kid /\ u.parent = tr.parent /\ u.data = tr.data
    /\ \A x \in Ptr : u.color[x] = IF x = a THEN b ELSE tr.color[x]

LEMMA ColorSet ==
  ASSUME NEW tr \in Trees, NEW a \in Ptr, NEW b \in {Red, Black}
  PROVE  WroteColor(Paint(tr, a, b), tr, a, b)
<1> DEFINE u == Paint(tr, a, b)
           k == tr.color
           j == [k EXCEPT ![a] = b]
<1>1. k \in [Ptr -> {Red, Black}] /\ tr = Tree(tr.root, tr.kid, tr.parent, k, tr.data)
  BY IsTree
<1>2. u = Tree(tr.root, tr.kid, tr.parent, j, tr.data)
  BY <1>1, SMT DEF Paint, Tree
<1> HIDE DEF k
<1>3. j \in [Ptr -> {Red, Black}] /\ \A x \in Ptr : j[x] = IF x = a THEN b ELSE k[x]
  BY <1>1
<1> HIDE DEF j, u
<1>4. u \in Trees /\ u.color = j /\ u.root = tr.root /\ u.kid = tr.kid /\ u.parent = tr.parent /\ u.data = tr.data
  <2>1. /\ tr.root \in Ptr /\ tr.kid \in [Ptr -> [Sides -> Ptr]]
        /\ tr.parent \in [Ptr -> Ptr] /\ tr.data \in [Keys -> Datas]
    BY IsTree
  <2>2. u \in Trees
    BY <1>2, <1>3, <2>1, Zenon DEF Tree, Trees
  <2> QED
    BY <1>2, <2>2, SMT DEF Tree
<1> QED
  BY <1>3, <1>4 DEF k, u, WroteColor

WroteData(u, tr, a, b) ==
    /\ u \in Trees /\ u.root = tr.root /\ u.kid = tr.kid /\ u.parent = tr.parent /\ u.color = tr.color
    /\ \A x \in Keys : u.data[x] = IF x = a THEN b ELSE tr.data[x]

LEMMA DataSet ==
  ASSUME NEW tr \in Trees, NEW a \in Keys, NEW b \in Datas
  PROVE  WroteData(SetData(tr, a, b), tr, a, b)
<1> DEFINE u == SetData(tr, a, b)
           k == tr.data
           j == [k EXCEPT ![a] = b]
<1>1. k \in [Keys -> Datas] /\ tr = Tree(tr.root, tr.kid, tr.parent, tr.color, k)
  BY IsTree
<1>2. u = Tree(tr.root, tr.kid, tr.parent, tr.color, j)
  BY <1>1, SMT DEF SetData, Tree
<1> HIDE DEF k
<1>3. j \in [Keys -> Datas] /\ \A x \in Keys : j[x] = IF x = a THEN b ELSE k[x]
  BY <1>1
<1> HIDE DEF j, u
<1>4. u \in Trees /\ u.data = j /\ u.root = tr.root /\ u.kid = tr.kid /\ u.parent = tr.parent /\ u.color = tr.color
  <2>1. /\ tr.root \in Ptr /\ tr.kid \in [Ptr -> [Sides -> Ptr]]
        /\ tr.parent \in [Ptr -> Ptr] /\ tr.color \in [Ptr -> {Red, Black}]
    BY IsTree
  <2>2. u \in Trees
    BY <1>2, <1>3, <2>1, Zenon DEF Tree, Trees
  <2> QED
    BY <1>2, <2>2, SMT DEF Tree
<1> QED
  BY <1>3, <1>4 DEF k, u, WroteData

(* A child of p, or the root where there is no p, becomes c.               *)
Hung(tr, p, d, c) ==
    IF p = Nil THEN SetRoot(tr, c)
    ELSE SetKid(tr, p, IF tr.kid[p]["left"] = d THEN "left" ELSE "right", c)

LEMMA TransplantIs ==
  ASSUME NEW tr \in Trees, NEW d \in Ptr, NEW c \in Ptr
  PROVE  Transplant(tr, d, c) = SetParent(Hung(tr, tr.parent[d], d, c), c, tr.parent[d])
  BY DEF Transplant, SetParent, Hung, SetRoot, SetKid

-----------------------------------------------------------------------------
(* TRANSPLANTS AND ROTATIONS, write by write.                              *)

(* The side Transplant takes d to be on under p.                           *)
OnSide(tr, p, d) == IF tr.kid[p]["left"] = d THEN "left" ELSE "right"

(* u is tr with c hung in d's place under p.                               *)
Transplanted(u, tr, d, c, p) ==
    /\ u \in Trees /\ u.color = tr.color /\ u.data = tr.data
    /\ u.root = IF p = Nil THEN c ELSE tr.root
    /\ \A x \in Ptr : u.parent[x] = IF x = c THEN p ELSE tr.parent[x]
    /\ \A x \in Ptr : \A s \in Sides :
          u.kid[x][s] = IF p # Nil /\ x = p /\ s = OnSide(tr, p, d) THEN c
                        ELSE tr.kid[x][s]

LEMMA TransplantDoes ==
  ASSUME NEW tr \in Trees, NEW d \in Ptr, NEW c \in Ptr, NEW p \in Ptr, p = tr.parent[d]
  PROVE  Transplanted(Transplant(tr, d, c), tr, d, c, p)
<1> DEFINE z == OnSide(tr, p, d)
           h == Hung(tr, p, d, c)
           u == SetParent(h, c, p)
<1>1. z \in Sides /\ Transplant(tr, d, c) = u
  BY TransplantIs DEF Sides, OnSide
<1>2. /\ h \in Trees /\ h.color = tr.color /\ h.data = tr.data /\ h.parent = tr.parent
      /\ h.root = IF p = Nil THEN c ELSE tr.root
      /\ \A x \in Ptr : \A s \in Sides :
            h.kid[x][s] = IF p # Nil /\ x = p /\ s = z THEN c ELSE tr.kid[x][s]
  <2>1. CASE p = Nil
    <3>1. h = SetRoot(tr, c)
      BY <2>1 DEF Hung
    <3>2. WroteRoot(h, tr, c)
      BY <3>1, RootSet
    <3> QED
      BY <2>1, <3>2 DEF WroteRoot
  <2>2. CASE p # Nil
    <3>1. h = SetKid(tr, p, z, c)
      BY <2>2 DEF Hung, OnSide
    <3> HIDE DEF z, h
    <3>2. WroteKid(h, tr, p, z, c)
      BY <1>1, <3>1, KidSet
    <3> QED
      BY <2>2, <3>2 DEF WroteKid
  <2> QED
    BY <2>1, <2>2
<1> HIDE DEF h, z
<1>3. WroteParent(u, h, c, p)
  BY <1>2, ParentSet
<1> HIDE DEF u
<1> QED
  BY <1>1, <1>2, <1>3 DEF z, Transplanted, WroteParent

(* u is tr after n sank to side s below up.                                *)
Turned(tr, u, n, s, up, p) ==
    /\ u \in Trees /\ u.color = tr.color /\ u.data = tr.data
    /\ u.root = IF p = Nil THEN up ELSE tr.root
    /\ \A x \in Ptr :
          u.parent[x] = IF x = n THEN up
                        ELSE IF x = up THEN p
                        ELSE IF x # Nil /\ x = tr.kid[up][s] THEN n
                        ELSE tr.parent[x]
    /\ \A x \in Ptr : \A z \in Sides :
          u.kid[x][z] = IF x = n /\ z = Other(s) THEN tr.kid[up][s]
                        ELSE IF x = up /\ z = s THEN n
                        ELSE IF p # Nil /\ x = p /\ tr.kid[p][z] = n THEN up
                        ELSE tr.kid[x][z]

LEMMA RotateTurns ==
  ASSUME NEW tr \in Trees, NEW n \in Keys, NEW s \in Sides,
         NEW up \in Keys, up = tr.kid[n][Other(s)], NEW p \in Ptr, p = tr.parent[n],
         n # up, n # p, up # p, tr.kid[up][s] # n, tr.kid[up][s] # up,
         p # Nil => \E z \in Sides : tr.kid[p][z] = n /\ tr.kid[p][Other(z)] # n
  PROVE  Turned(tr, Rotate(tr, n, s), n, s, up, p)
<1> DEFINE inner == tr.kid[up][s]
           o  == Other(s)
           t0 == SetKid(tr, n, o, inner)
           t1 == IF inner = Nil THEN t0 ELSE SetParent(t0, inner, n)
           t2 == Transplant(t1, n, up)
           t3 == SetKid(t2, up, s, n)
           t4 == SetParent(t3, n, up)
<1>1. Rotate(tr, n, s) = t4
  <2>1. TakeInner(tr, n, s) = t1
    BY DEF TakeInner, SetKid, SetParent
  <2> HIDE DEF t1
  <2>2. Rotate(tr, n, s) =
            [Transplant(t1, n, up) EXCEPT !.kid[up][s] = n, !.parent[n] = up]
    BY <2>1 DEF Rotate
  <2>3. t4 = [Transplant(t1, n, up) EXCEPT !.kid[up][s] = n, !.parent[n] = up]
    BY Zenon DEF SetKid, SetParent
  <2> QED
    BY <2>2, <2>3, Zenon
<1>2. inner \in Ptr /\ o \in Sides /\ n \in Ptr /\ up \in Ptr /\ o # s /\ n # Nil /\ up # Nil
  BY IsTree, SMT DEF Other, Sides, Ptr, Keys, Nil
<1> HIDE DEF inner, o, t0
<1>3. WroteKid(t0, tr, n, o, inner)
  BY <1>2, KidSet DEF t0
<1>4. /\ t1 \in Trees /\ t1.color = tr.color /\ t1.data = tr.data /\ t1.root = tr.root
      /\ t1.kid = t0.kid
      /\ \A x \in Ptr : t1.parent[x] = IF x # Nil /\ x = inner THEN n ELSE tr.parent[x]
  <2>1. t0 \in Trees
    BY <1>3 DEF WroteKid
  <2>2. CASE inner = Nil
    BY <1>3, <2>2 DEF WroteKid
  <2>3. CASE inner # Nil
    <3>1. t1 = SetParent(t0, inner, n)
      BY <2>3
    <3> HIDE DEF t1
    <3>2. WroteParent(t1, t0, inner, n)
      BY <1>2, <2>1, <3>1, ParentSet
    <3> QED
      BY <1>3, <2>3, <3>2 DEF WroteKid, WroteParent
  <2> QED
    BY <2>2, <2>3
<1> HIDE DEF t1
<1>5. t1.parent[n] = p
  BY <1>2, <1>4 DEF inner
<1> DEFINE z0 == OnSide(t1, p, n)
<1>6. Transplanted(t2, t1, n, up, p)
  BY <1>2, <1>4, <1>5, TransplantDoes
<1>7. p # Nil => \A z \in Sides : z = z0 <=> tr.kid[p][z] = n
  <2> SUFFICES ASSUME p # Nil PROVE \A z \in Sides : z = z0 <=> tr.kid[p][z] = n
    OBVIOUS
  <2>1. \A z \in Sides : t1.kid[p][z] = tr.kid[p][z]
    BY <1>2, <1>3, <1>4 DEF WroteKid
  <2> QED
    BY <2>1, SMT DEF Sides, Other, OnSide
<1> HIDE DEF t2
<1>8. WroteKid(t3, t2, up, s, n)
  <2>1. t2 \in Trees
    BY <1>6 DEF Transplanted
  <2> QED
    BY <1>2, <2>1, KidSet
<1> HIDE DEF t3
<1>9. WroteParent(t4, t3, n, up)
  <2>1. t3 \in Trees
    BY <1>8 DEF WroteKid
  <2> QED
    BY <1>2, <2>1, ParentSet
<1> HIDE DEF t4
<1>10. \A x \in Ptr :
          t4.parent[x] = IF x = n THEN up
                         ELSE IF x = up THEN p
                         ELSE IF x # Nil /\ x = inner THEN n
                         ELSE tr.parent[x]
  BY <1>4, <1>6, <1>8, <1>9 DEF Transplanted, WroteKid, WroteParent
<1>11. \A x \in Ptr : \A z \in Sides :
          t4.kid[x][z] = IF x = n /\ z = o THEN inner
                         ELSE IF x = up /\ z = s THEN n
                         ELSE IF p # Nil /\ x = p /\ tr.kid[p][z] = n THEN up
                         ELSE tr.kid[x][z]
  <2> SUFFICES ASSUME NEW x \in Ptr, NEW z \in Sides
               PROVE  t4.kid[x][z] = IF x = n /\ z = o THEN inner
                         ELSE IF x = up /\ z = s THEN n
                         ELSE IF p # Nil /\ x = p /\ tr.kid[p][z] = n THEN up
                         ELSE tr.kid[x][z]
    OBVIOUS
  <2>1. t4.kid[x][z] = IF x = up /\ z = s THEN n ELSE t2.kid[x][z]
    BY <1>8, <1>9 DEF WroteKid, WroteParent
  <2>2. t2.kid[x][z] = IF p # Nil /\ x = p /\ z = z0 THEN up ELSE t1.kid[x][z]
    BY <1>6 DEF Transplanted
  <2>3. t1.kid[x][z] = IF x = n /\ z = o THEN inner ELSE tr.kid[x][z]
    BY <1>3, <1>4 DEF WroteKid
  <2> HIDE DEF z0
  <2>4. p # Nil => (z = z0 <=> tr.kid[p][z] = n)
    BY <1>7
  <2>5. CASE x = n
    BY <1>2, <2>1, <2>2, <2>3, <2>5
  <2>6. CASE x = up
    BY <1>2, <2>1, <2>2, <2>3, <2>6
  <2>7. CASE x = p /\ p # Nil
    <3>1. x # n /\ x # up
      BY <2>7
    <3> QED
      BY <2>1, <2>2, <2>3, <2>4, <2>7, <3>1
  <2>8. CASE x # n /\ x # up /\ ~(x = p /\ p # Nil)
    BY <2>1, <2>2, <2>3, <2>8
  <2> QED
    BY <2>5, <2>6, <2>7, <2>8
<1>12. t4.root = IF p = Nil THEN up ELSE tr.root
  BY <1>4, <1>6, <1>8, <1>9 DEF Transplanted, WroteKid, WroteParent
<1>13. t4 \in Trees /\ t4.color = tr.color /\ t4.data = tr.data
  BY <1>4, <1>6, <1>8, <1>9 DEF Transplanted, WroteKid, WroteParent
<1> QED
  BY <1>1, <1>10, <1>11, <1>12, <1>13 DEF Turned, inner, o

-----------------------------------------------------------------------------
(* THE SHAPE of a search tree: every node has bounds, its own key between  *)
(* them and its children's in the two halves; a rotation keeps them.       *)

End == MaxKey + 1

(* Every node lies between its bounds.                                     *)
Ordered(N, lo, hi) == \A x \in N : lo[x] < x /\ x < hi[x]

Rooted(N, tr, lo, hi) ==
    /\ tr.root = Nil => N = {}
    /\ tr.root # Nil => /\ tr.root \in N /\ tr.parent[tr.root] = Nil
                        /\ lo[tr.root] = 0 /\ hi[tr.root] = End

(* A left child lies between its parent's lower bound and its parent.      *)
LeftsHang(N, tr, lo, hi) ==
    \A x \in N :
        tr.kid[x]["left"] # Nil =>
            /\ tr.kid[x]["left"] \in N /\ tr.parent[tr.kid[x]["left"]] = x
            /\ lo[tr.kid[x]["left"]] = lo[x] /\ hi[tr.kid[x]["left"]] = x

RightsHang(N, tr, lo, hi) ==
    \A x \in N :
        tr.kid[x]["right"] # Nil =>
            /\ tr.kid[x]["right"] \in N /\ tr.parent[tr.kid[x]["right"]] = x
            /\ lo[tr.kid[x]["right"]] = x /\ hi[tr.kid[x]["right"]] = hi[x]

ParentsHold(N, tr) ==
    \A x \in N : x # tr.root =>
        /\ tr.parent[x] \in N
        /\ x = tr.kid[tr.parent[x]]["left"] \/ x = tr.kid[tr.parent[x]]["right"]

(* Nothing lies where a child is missing.                                  *)
GapsEmpty(N, tr, lo, hi) ==
    \A x, y \in N :
        /\ tr.kid[x]["left"] = Nil => ~(lo[x] < y /\ y < x)
        /\ tr.kid[x]["right"] = Nil => ~(x < y /\ y < hi[x])

(* A bound is an end or a node whose own bounds are wider.                 *)
Bounded(N, lo, hi) ==
    \A x \in N :
        /\ lo[x] # 0 => lo[x] \in N /\ hi[x] <= hi[lo[x]]
        /\ hi[x] # End => hi[x] \in N /\ lo[hi[x]] <= lo[x]

(* Two nodes' bounds exclude one of them from the other's.                 *)
Laminar(N, lo, hi) ==
    \A x, y \in N : x < y => hi[x] <= y \/ x <= lo[y]

Shape(N, tr, lo, hi) ==
    /\ Ordered(N, lo, hi) /\ Rooted(N, tr, lo, hi)
    /\ LeftsHang(N, tr, lo, hi) /\ RightsHang(N, tr, lo, hi)
    /\ ParentsHold(N, tr) /\ GapsEmpty(N, tr, lo, hi)
    /\ Bounded(N, lo, hi) /\ Laminar(N, lo, hi)

LEMMA LeftTurnShape ==
  ASSUME NEW N, N \subseteq Keys, MaxKey \in Nat, NEW tr \in Trees, NEW u,
         NEW lo \in [Keys -> Int], NEW hi \in [Keys -> Int],
         NEW n \in N, NEW up \in Keys, up = tr.kid[n]["right"],
         Shape(N, tr, lo, hi), Turned(tr, u, n, "left", up, tr.parent[n])
  PROVE  Shape(N, u, [lo EXCEPT ![up] = lo[n]], [hi EXCEPT ![n] = up])
<1> DEFINE lo2 == [lo EXCEPT ![up] = lo[n]]
           hi2 == [hi EXCEPT ![n] = up]
           p == tr.parent[n]
           inner == tr.kid[up]["left"]
<1> USE DEF Nil
<1>19. /\ Ordered(N, lo, hi) /\ Rooted(N, tr, lo, hi)
      /\ LeftsHang(N, tr, lo, hi) /\ RightsHang(N, tr, lo, hi)
      /\ ParentsHold(N, tr) /\ GapsEmpty(N, tr, lo, hi)
      /\ Bounded(N, lo, hi) /\ Laminar(N, lo, hi)
  BY DEF Shape
<1>20. \A x \in N : x \in Keys /\ x \in Int /\ x # 0 /\ lo[x] \in Int /\ hi[x] \in Int
  <2>1. \A x \in Keys : x \in Int /\ x # 0
    BY DEF Keys
  <2> QED
    BY <2>1
<1>21. p \in Ptr /\ inner \in Ptr
  BY IsTree DEF Sides, Ptr
<1>1. /\ up \in N /\ lo[up] = n /\ hi[up] = hi[n] /\ tr.parent[up] = n
      /\ n < up /\ up < hi[n] /\ lo[n] < n
  <2>1. up \in N /\ lo[up] = n /\ hi[up] = hi[n] /\ tr.parent[up] = n
    <3>1. up # Nil
      BY DEF Keys
    <3> QED
      BY <1>19, <3>1 DEF RightsHang
  <2>2. \A x \in N : lo[x] < x /\ x < hi[x]
    BY <1>19 DEF Ordered
  <2> QED
    BY <1>20, <2>1, <2>2
<1>2. inner # Nil => inner \in N /\ tr.parent[inner] = up /\ lo[inner] = n /\ hi[inner] = up
  BY <1>19, <1>1 DEF LeftsHang
<1>3. /\ n = tr.root => p = Nil
      /\ n # tr.root => p \in N /\ (n = tr.kid[p]["left"] \/ n = tr.kid[p]["right"])
  BY <1>19 DEF ParentsHold, Rooted
<1>4. /\ \A x \in N : lo2[x] = IF x = up THEN lo[n] ELSE lo[x]
      /\ \A x \in N : hi2[x] = IF x = n THEN up ELSE hi[x]
      /\ lo2 \in [Keys -> Int] /\ hi2 \in [Keys -> Int]
  <2>1. lo[n] \in Int /\ up \in Int
    BY <1>20, <1>1
  <2>2. lo2 \in [Keys -> Int] /\ \A x \in N : lo2[x] = IF x = up THEN lo[n] ELSE lo[x]
    BY <2>1
  <2>3. hi2 \in [Keys -> Int] /\ \A x \in N : hi2[x] = IF x = n THEN up ELSE hi[x]
    BY <2>1
  <2> QED
    BY <2>2, <2>3
<1>5. \A x \in N :
        /\ u.kid[x]["left"] = IF x = up THEN n
                              ELSE IF x = p /\ tr.kid[p]["left"] = n THEN up
                              ELSE tr.kid[x]["left"]
        /\ u.kid[x]["right"] = IF x = n THEN inner
                               ELSE IF x = p /\ tr.kid[p]["right"] = n THEN up
                               ELSE tr.kid[x]["right"]
  BY <1>20, <1>1, <1>21 DEF Turned, Sides, Other, Ptr
<1>6. /\ u.root = IF p = Nil THEN up ELSE tr.root
      /\ \A x \in N : u.parent[x] = IF x = n THEN up
                        ELSE IF x = up THEN p
                        ELSE IF x = inner THEN n
                        ELSE tr.parent[x]
  BY <1>20, <1>1, <1>21 DEF Turned, Ptr
<1> HIDE DEF p, inner, lo2, hi2
<1>11. Ordered(N, lo2, hi2)
  BY <1>19, <1>20, <1>1, <1>4 DEF Ordered
<1>12. Rooted(N, u, lo2, hi2)
  <2>1. CASE n = tr.root
    <3>1. lo[n] = 0 /\ hi[n] = End /\ n # Nil
      BY <1>19, <1>20, <2>1 DEF Rooted
    <3>2. u.root = up /\ u.parent[up] = Nil /\ up # n /\ up # Nil
      <4>1. up # n /\ up # Nil /\ p = Nil
        BY <1>20, <1>1, <1>3, <2>1
      <4> QED
        BY <1>1, <1>6, <4>1
    <3>3. lo2[up] = 0 /\ hi2[up] = End
      BY <1>1, <1>4, <3>1, <3>2
    <3> QED
      BY <1>1, <3>2, <3>3 DEF Rooted
  <2>2. CASE n # tr.root
    <3>1. tr.root \in N /\ tr.root # up /\ p # Nil
      BY <1>19, <1>20, <1>1, <1>3, <2>2 DEF Rooted
    <3>2. u.root = tr.root /\ u.parent[tr.root] = tr.parent[tr.root]
      BY <1>19, <1>20, <1>1, <1>2, <1>6, <3>1, <2>2 DEF Rooted
    <3> QED
    BY <1>19, <1>20, <1>1, <1>3, <1>4, <1>6, <2>2, <3>1, <3>2 DEF Rooted
  <2> QED
    BY <2>1, <2>2
<1>7. p # n /\ p # up /\ inner # n /\ inner # up
  BY <1>19, <1>20, <1>1, <1>2, <1>3 DEF Ordered, LeftsHang, RightsHang
<1>8. /\ p \in N /\ tr.kid[p]["left"] = n => lo[n] = lo[p] /\ hi[n] = p
      /\ p \in N /\ tr.kid[p]["right"] = n => lo[n] = p /\ hi[n] = hi[p]
  BY <1>19, <1>20 DEF LeftsHang, RightsHang
<1>13. LeftsHang(N, u, lo2, hi2)
  <2> SUFFICES ASSUME NEW x \in N, u.kid[x]["left"] # Nil
               PROVE  /\ u.kid[x]["left"] \in N /\ u.parent[u.kid[x]["left"]] = x
                      /\ lo2[u.kid[x]["left"]] = lo2[x] /\ hi2[u.kid[x]["left"]] = x
    BY DEF LeftsHang
  <2>1. CASE x = up
    <3>1. up # n
      BY <1>20, <1>1
    <3>2. u.kid[up]["left"] = n /\ u.parent[n] = up
      BY <1>1, <1>5, <1>6, <1>7, <3>1
    <3>3. lo2[n] = lo[n] /\ lo2[up] = lo[n] /\ hi2[n] = up
      BY <1>1, <1>4, <3>1
    <3> QED
      BY <2>1, <3>2, <3>3
  <2>2. CASE x = p /\ tr.kid[p]["left"] = n
    BY <1>20, <1>1, <1>4, <1>5, <1>6, <1>7, <1>8, <2>2
  <2>3. CASE x # up /\ ~(x = p /\ tr.kid[p]["left"] = n)
    <3> DEFINE c == tr.kid[x]["left"]
    <3>1. /\ u.kid[x]["left"] = c /\ c \in N /\ tr.parent[c] = x
          /\ lo[c] = lo[x] /\ hi[c] = x
      BY <1>19, <1>5, <2>3 DEF LeftsHang
    <3>2. c # n /\ c # up /\ c # inner
      BY <1>20, <1>1, <1>2, <2>3, <3>1 DEF p
    <3> QED
      BY <1>4, <1>6, <2>3, <3>1, <3>2
  <2> QED
    BY <2>1, <2>2, <2>3
<1>14. RightsHang(N, u, lo2, hi2)
  <2> SUFFICES ASSUME NEW x \in N, u.kid[x]["right"] # Nil
               PROVE  /\ u.kid[x]["right"] \in N /\ u.parent[u.kid[x]["right"]] = x
                      /\ lo2[u.kid[x]["right"]] = x /\ hi2[u.kid[x]["right"]] = hi2[x]
    BY DEF RightsHang
  <2>1. CASE x = n
    BY <1>20, <1>1, <1>2, <1>4, <1>5, <1>6, <1>7, <2>1
  <2>2. CASE x = p /\ tr.kid[p]["right"] = n
    BY <1>20, <1>1, <1>4, <1>5, <1>6, <1>7, <1>8, <2>2
  <2>3. CASE x # n /\ ~(x = p /\ tr.kid[p]["right"] = n)
    <3> DEFINE c == tr.kid[x]["right"]
    <3>1. /\ u.kid[x]["right"] = c /\ c \in N /\ tr.parent[c] = x
          /\ lo[c] = x /\ hi[c] = hi[x]
      BY <1>19, <1>5, <2>3 DEF RightsHang
    <3>2. c # n /\ c # up /\ c # inner
      BY <1>20, <1>1, <1>2, <2>3, <3>1 DEF p
    <3> QED
      BY <1>4, <1>6, <2>3, <3>1, <3>2
  <2> QED
    BY <2>1, <2>2, <2>3
<1>15. ParentsHold(N, u)
  <2> SUFFICES ASSUME NEW x \in N, x # u.root
               PROVE  /\ u.parent[x] \in N
                      /\ x = u.kid[u.parent[x]]["left"] \/ x = u.kid[u.parent[x]]["right"]
    BY DEF ParentsHold
  <2>1. CASE x = n
    BY <1>1, <1>5, <1>6, <2>1
  <2>2. CASE x = up
    <3>1. up # n /\ u.parent[up] = p
      BY <1>20, <1>1, <1>6
    <3>2. p \in N /\ (n = tr.kid[p]["left"] \/ n = tr.kid[p]["right"])
      BY <1>3, <1>6, <2>2
    <3>3. u.kid[p]["left"] = up \/ u.kid[p]["right"] = up
      BY <1>5, <1>7, <3>2
    <3> QED
      BY <2>2, <3>1, <3>2, <3>3
  <2>3. CASE x = inner
    BY <1>1, <1>2, <1>5, <1>6, <1>7, <2>3
  <2>4. CASE x # n /\ x # up /\ x # inner
    <3>1. u.parent[x] = tr.parent[x] /\ x # tr.root
      BY <1>20, <1>3, <1>6, <2>4
    <3>2. /\ tr.parent[x] \in N
          /\ x = tr.kid[tr.parent[x]]["left"] \/ x = tr.kid[tr.parent[x]]["right"]
      BY <1>19, <3>1 DEF ParentsHold
    <3> QED
      BY <1>1, <1>5, <2>4, <3>1, <3>2 DEF inner
  <2> QED
    BY <2>1, <2>2, <2>3, <2>4
<1>16. GapsEmpty(N, u, lo2, hi2)
  <2> SUFFICES ASSUME NEW x \in N, NEW y \in N
               PROVE  /\ u.kid[x]["left"] = Nil => ~(lo2[x] < y /\ y < x)
                      /\ u.kid[x]["right"] = Nil => ~(x < y /\ y < hi2[x])
    BY DEF GapsEmpty
  <2>1. ASSUME u.kid[x]["left"] = Nil PROVE ~(lo2[x] < y /\ y < x)
    <3>1. x # up /\ tr.kid[x]["left"] = Nil
      BY <1>20, <1>1, <1>5, <2>1
    <3>2. ~(lo[x] < y /\ y < x)
      BY <1>19, <3>1 DEF GapsEmpty
    <3> QED
      BY <1>4, <3>1, <3>2
  <2>2. ASSUME u.kid[x]["right"] = Nil PROVE ~(x < y /\ y < hi2[x])
    <3>1. CASE x = n
      <4>1. ~(lo[up] < y /\ y < up)
        BY <1>19, <1>1, <1>5, <2>2, <3>1 DEF GapsEmpty, inner
      <4> QED
        BY <1>1, <1>4, <3>1, <4>1
    <3>2. CASE x # n
      <4>1. tr.kid[x]["right"] = Nil
        BY <1>20, <1>1, <1>5, <2>2, <3>2
      <4> QED
        BY <1>19, <1>4, <3>2, <4>1 DEF GapsEmpty
    <3> QED
      BY <3>1, <3>2
  <2> QED
    BY <2>1, <2>2
<1>17. Bounded(N, lo2, hi2)
  BY <1>19, <1>20, <1>1, <1>4 DEF Ordered, Bounded, Laminar
<1>18. Laminar(N, lo2, hi2)
  BY <1>19, <1>20, <1>1, <1>4 DEF Ordered, Laminar
<1> QED
  BY <1>11, <1>12, <1>13, <1>14, <1>15, <1>16, <1>17, <1>18 DEF Shape, lo2, hi2

LEMMA RightTurnShape ==
  ASSUME NEW N, N \subseteq Keys, MaxKey \in Nat, NEW tr \in Trees, NEW u,
         NEW hi \in [Keys -> Int], NEW lo \in [Keys -> Int],
         NEW n \in N, NEW up \in Keys, up = tr.kid[n]["left"],
         Shape(N, tr, lo, hi), Turned(tr, u, n, "right", up, tr.parent[n])
  PROVE  Shape(N, u, [lo EXCEPT ![n] = up], [hi EXCEPT ![up] = hi[n]])
<1> DEFINE lo2 == [lo EXCEPT ![n] = up]
           hi2 == [hi EXCEPT ![up] = hi[n]]
           p == tr.parent[n]
           inner == tr.kid[up]["right"]
<1> USE DEF Nil
<1>19. /\ Ordered(N, lo, hi) /\ Rooted(N, tr, lo, hi)
      /\ RightsHang(N, tr, lo, hi) /\ LeftsHang(N, tr, lo, hi)
      /\ ParentsHold(N, tr) /\ GapsEmpty(N, tr, lo, hi)
      /\ Bounded(N, lo, hi) /\ Laminar(N, lo, hi)
  BY DEF Shape
<1>20. \A x \in N : x \in Keys /\ x \in Int /\ x # 0 /\ hi[x] \in Int /\ lo[x] \in Int
  <2>1. \A x \in Keys : x \in Int /\ x # 0
    BY DEF Keys
  <2> QED
    BY <2>1
<1>21. p \in Ptr /\ inner \in Ptr
  BY IsTree DEF Sides, Ptr
<1>1. /\ up \in N /\ hi[up] = n /\ lo[up] = lo[n] /\ tr.parent[up] = n
      /\ up < n /\ lo[n] < up /\ n < hi[n]
  <2>1. up \in N /\ hi[up] = n /\ lo[up] = lo[n] /\ tr.parent[up] = n
    <3>1. up # Nil
      BY DEF Keys
    <3> QED
      BY <1>19, <3>1 DEF LeftsHang
  <2>2. \A x \in N : lo[x] < x /\ x < hi[x]
    BY <1>19 DEF Ordered
  <2> QED
    BY <1>20, <2>1, <2>2
<1>2. inner # Nil => inner \in N /\ tr.parent[inner] = up /\ hi[inner] = n /\ lo[inner] = up
  BY <1>19, <1>1 DEF RightsHang
<1>3. /\ n = tr.root => p = Nil
      /\ n # tr.root => p \in N /\ (n = tr.kid[p]["right"] \/ n = tr.kid[p]["left"])
  BY <1>19 DEF ParentsHold, Rooted
<1>4. /\ \A x \in N : hi2[x] = IF x = up THEN hi[n] ELSE hi[x]
      /\ \A x \in N : lo2[x] = IF x = n THEN up ELSE lo[x]
      /\ hi2 \in [Keys -> Int] /\ lo2 \in [Keys -> Int]
  <2>1. hi[n] \in Int /\ up \in Int
    BY <1>20, <1>1
  <2>2. hi2 \in [Keys -> Int] /\ \A x \in N : hi2[x] = IF x = up THEN hi[n] ELSE hi[x]
    BY <2>1
  <2>3. lo2 \in [Keys -> Int] /\ \A x \in N : lo2[x] = IF x = n THEN up ELSE lo[x]
    BY <2>1
  <2> QED
    BY <2>2, <2>3
<1>5. \A x \in N :
        /\ u.kid[x]["right"] = IF x = up THEN n
                              ELSE IF x = p /\ tr.kid[p]["right"] = n THEN up
                              ELSE tr.kid[x]["right"]
        /\ u.kid[x]["left"] = IF x = n THEN inner
                               ELSE IF x = p /\ tr.kid[p]["left"] = n THEN up
                               ELSE tr.kid[x]["left"]
  BY <1>20, <1>1, <1>21 DEF Turned, Sides, Other, Ptr
<1>6. /\ u.root = IF p = Nil THEN up ELSE tr.root
      /\ \A x \in N : u.parent[x] = IF x = n THEN up
                        ELSE IF x = up THEN p
                        ELSE IF x = inner THEN n
                        ELSE tr.parent[x]
  BY <1>20, <1>1, <1>21 DEF Turned, Ptr
<1> HIDE DEF p, inner, lo2, hi2
<1>11. Ordered(N, lo2, hi2)
  BY <1>19, <1>20, <1>1, <1>4 DEF Ordered
<1>12. Rooted(N, u, lo2, hi2)
  <2>1. CASE n = tr.root
    <3>1. lo[n] = 0 /\ hi[n] = End /\ n # Nil
      BY <1>19, <1>20, <2>1 DEF Rooted
    <3>2. u.root = up /\ u.parent[up] = Nil /\ up # n /\ up # Nil
      <4>1. up # n /\ up # Nil /\ p = Nil
        BY <1>20, <1>1, <1>3, <2>1
      <4> QED
        BY <1>1, <1>6, <4>1
    <3>3. lo2[up] = 0 /\ hi2[up] = End
      BY <1>1, <1>4, <3>1, <3>2
    <3> QED
      BY <1>1, <3>2, <3>3 DEF Rooted
  <2>2. CASE n # tr.root
    <3>1. tr.root \in N /\ tr.root # up /\ p # Nil
      BY <1>19, <1>20, <1>1, <1>3, <2>2 DEF Rooted
    <3>2. u.root = tr.root /\ u.parent[tr.root] = tr.parent[tr.root]
      BY <1>19, <1>20, <1>1, <1>2, <1>6, <3>1, <2>2 DEF Rooted
    <3> QED
    BY <1>19, <1>20, <1>1, <1>3, <1>4, <1>6, <2>2, <3>1, <3>2 DEF Rooted
  <2> QED
    BY <2>1, <2>2
<1>7. p # n /\ p # up /\ inner # n /\ inner # up
  BY <1>19, <1>20, <1>1, <1>2, <1>3 DEF Ordered, RightsHang, LeftsHang
<1>8. /\ p \in N /\ tr.kid[p]["right"] = n => hi[n] = hi[p] /\ lo[n] = p
      /\ p \in N /\ tr.kid[p]["left"] = n => hi[n] = p /\ lo[n] = lo[p]
  BY <1>19, <1>20 DEF RightsHang, LeftsHang
<1>13. RightsHang(N, u, lo2, hi2)
  <2> SUFFICES ASSUME NEW x \in N, u.kid[x]["right"] # Nil
               PROVE  /\ u.kid[x]["right"] \in N /\ u.parent[u.kid[x]["right"]] = x
                      /\ hi2[u.kid[x]["right"]] = hi2[x] /\ lo2[u.kid[x]["right"]] = x
    BY DEF RightsHang
  <2>1. CASE x = up
    <3>1. up # n
      BY <1>20, <1>1
    <3>2. u.kid[up]["right"] = n /\ u.parent[n] = up
      BY <1>1, <1>5, <1>6, <1>7, <3>1
    <3>3. hi2[n] = hi[n] /\ hi2[up] = hi[n] /\ lo2[n] = up
      BY <1>1, <1>4, <3>1
    <3> QED
      BY <2>1, <3>2, <3>3
  <2>2. CASE x = p /\ tr.kid[p]["right"] = n
    BY <1>20, <1>1, <1>4, <1>5, <1>6, <1>7, <1>8, <2>2
  <2>3. CASE x # up /\ ~(x = p /\ tr.kid[p]["right"] = n)
    <3> DEFINE c == tr.kid[x]["right"]
    <3>1. /\ u.kid[x]["right"] = c /\ c \in N /\ tr.parent[c] = x
          /\ hi[c] = hi[x] /\ lo[c] = x
      BY <1>19, <1>5, <2>3 DEF RightsHang
    <3>2. c # n /\ c # up /\ c # inner
      BY <1>20, <1>1, <1>2, <2>3, <3>1 DEF p
    <3> QED
      BY <1>4, <1>6, <2>3, <3>1, <3>2
  <2> QED
    BY <2>1, <2>2, <2>3
<1>14. LeftsHang(N, u, lo2, hi2)
  <2> SUFFICES ASSUME NEW x \in N, u.kid[x]["left"] # Nil
               PROVE  /\ u.kid[x]["left"] \in N /\ u.parent[u.kid[x]["left"]] = x
                      /\ hi2[u.kid[x]["left"]] = x /\ lo2[u.kid[x]["left"]] = lo2[x]
    BY DEF LeftsHang
  <2>1. CASE x = n
    BY <1>20, <1>1, <1>2, <1>4, <1>5, <1>6, <1>7, <2>1
  <2>2. CASE x = p /\ tr.kid[p]["left"] = n
    BY <1>20, <1>1, <1>4, <1>5, <1>6, <1>7, <1>8, <2>2
  <2>3. CASE x # n /\ ~(x = p /\ tr.kid[p]["left"] = n)
    <3> DEFINE c == tr.kid[x]["left"]
    <3>1. /\ u.kid[x]["left"] = c /\ c \in N /\ tr.parent[c] = x
          /\ hi[c] = x /\ lo[c] = lo[x]
      BY <1>19, <1>5, <2>3 DEF LeftsHang
    <3>2. c # n /\ c # up /\ c # inner
      BY <1>20, <1>1, <1>2, <2>3, <3>1 DEF p
    <3> QED
      BY <1>4, <1>6, <2>3, <3>1, <3>2
  <2> QED
    BY <2>1, <2>2, <2>3
<1>15. ParentsHold(N, u)
  <2> SUFFICES ASSUME NEW x \in N, x # u.root
               PROVE  /\ u.parent[x] \in N
                      /\ x = u.kid[u.parent[x]]["right"] \/ x = u.kid[u.parent[x]]["left"]
    BY DEF ParentsHold
  <2>1. CASE x = n
    BY <1>1, <1>5, <1>6, <2>1
  <2>2. CASE x = up
    <3>1. up # n /\ u.parent[up] = p
      BY <1>20, <1>1, <1>6
    <3>2. p \in N /\ (n = tr.kid[p]["left"] \/ n = tr.kid[p]["right"])
      BY <1>3, <1>6, <2>2
    <3>3. u.kid[p]["left"] = up \/ u.kid[p]["right"] = up
      BY <1>5, <1>7, <3>2
    <3> QED
      BY <2>2, <3>1, <3>2, <3>3
  <2>3. CASE x = inner
    BY <1>1, <1>2, <1>5, <1>6, <1>7, <2>3
  <2>4. CASE x # n /\ x # up /\ x # inner
    <3>1. u.parent[x] = tr.parent[x] /\ x # tr.root
      BY <1>20, <1>3, <1>6, <2>4
    <3>2. /\ tr.parent[x] \in N
          /\ x = tr.kid[tr.parent[x]]["right"] \/ x = tr.kid[tr.parent[x]]["left"]
      BY <1>19, <3>1 DEF ParentsHold
    <3> QED
      BY <1>1, <1>5, <2>4, <3>1, <3>2 DEF inner
  <2> QED
    BY <2>1, <2>2, <2>3, <2>4
<1>16. GapsEmpty(N, u, lo2, hi2)
  <2> SUFFICES ASSUME NEW x \in N, NEW y \in N
               PROVE  /\ u.kid[x]["right"] = Nil => ~(y < hi2[x] /\ x < y)
                      /\ u.kid[x]["left"] = Nil => ~(y < x /\ lo2[x] < y)
    BY DEF GapsEmpty
  <2>1. ASSUME u.kid[x]["right"] = Nil PROVE ~(y < hi2[x] /\ x < y)
    <3>1. x # up /\ tr.kid[x]["right"] = Nil
      BY <1>20, <1>1, <1>5, <2>1
    <3>2. ~(y < hi[x] /\ x < y)
      BY <1>19, <3>1 DEF GapsEmpty
    <3> QED
      BY <1>4, <3>1, <3>2
  <2>2. ASSUME u.kid[x]["left"] = Nil PROVE ~(y < x /\ lo2[x] < y)
    <3>1. CASE x = n
      <4>1. ~(y < hi[up] /\ up < y)
        BY <1>19, <1>1, <1>5, <2>2, <3>1 DEF GapsEmpty, inner
      <4> QED
        BY <1>1, <1>4, <3>1, <4>1
    <3>2. CASE x # n
      <4>1. tr.kid[x]["left"] = Nil
        BY <1>20, <1>1, <1>5, <2>2, <3>2
      <4> QED
        BY <1>19, <1>4, <3>2, <4>1 DEF GapsEmpty
    <3> QED
      BY <3>1, <3>2
  <2> QED
    BY <2>1, <2>2
<1>17. Bounded(N, lo2, hi2)
  BY <1>19, <1>20, <1>1, <1>4 DEF Ordered, Bounded, Laminar
<1>18. Laminar(N, lo2, hi2)
  BY <1>19, <1>20, <1>1, <1>4 DEF Ordered, Laminar
<1> QED
  BY <1>11, <1>12, <1>13, <1>14, <1>15, <1>16, <1>17, <1>18 DEF Shape, lo2, hi2

(* The nodes N hang in tr as a search tree.                                *)
Shaped(N, tr) ==
    \E lo, hi \in [Keys -> Int] : Shape(N, tr, lo, hi)

(* What of it does not ask for the order of the keys.                      *)
RootHolds(N, tr) ==
    /\ tr.root = Nil => N = {}
    /\ tr.root # Nil => tr.root \in N /\ tr.parent[tr.root] = Nil

KidsHold(N, tr) ==
    \A x \in N : \A s \in Sides :
        tr.kid[x][s] # Nil =>
            /\ tr.kid[x][s] \in N /\ tr.parent[tr.kid[x][s]] = x
            /\ tr.kid[x][s] # x /\ tr.kid[x][s] # tr.kid[x][Other(s)]

ParentsMatch(N, tr) ==
    \A x \in N : x # tr.root =>
        /\ tr.parent[x] \in N /\ tr.parent[x] # x
        /\ \E s \in Sides : tr.kid[tr.parent[x]][s] = x
        /\ tr.parent[tr.parent[x]] # x

Family(N, tr) == RootHolds(N, tr) /\ KidsHold(N, tr) /\ ParentsMatch(N, tr)

(* What KidsHold says of one kid at a time. *)
KidsUp(N, tr) ==
    \A x \in N : \A s \in Sides :
        tr.kid[x][s] # Nil =>
            tr.kid[x][s] \in N /\ tr.parent[tr.kid[x][s]] = x /\ tr.kid[x][s] # x

LEMMA KidsAreUp ==
  ASSUME NEW N, NEW tr, KidsHold(N, tr)
  PROVE  KidsUp(N, tr)
<1> SUFFICES ASSUME NEW x \in N, NEW s \in Sides, tr.kid[x][s] # Nil
             PROVE  tr.kid[x][s] \in N /\ tr.parent[tr.kid[x][s]] = x /\ tr.kid[x][s] # x
  BY DEF KidsUp
<1> QED
  BY DEF KidsHold

LEMMA ShapeFamily ==
  ASSUME NEW N, N \subseteq Keys, MaxKey \in Nat, NEW tr \in Trees, Shaped(N, tr)
  PROVE  Family(N, tr)
<1>1. PICK lo \in [Keys -> Int], hi \in [Keys -> Int] : Shape(N, tr, lo, hi)
  BY DEF Shaped
<1>2. /\ Ordered(N, lo, hi) /\ Rooted(N, tr, lo, hi)
      /\ LeftsHang(N, tr, lo, hi) /\ RightsHang(N, tr, lo, hi) /\ ParentsHold(N, tr)
  BY <1>1 DEF Shape
<1>3. \A x \in N : x \in Keys /\ x \in Int /\ x # Nil /\ lo[x] \in Int /\ hi[x] \in Int
  <2>1. \A x \in Keys : x \in Int /\ x # Nil
    BY DEF Keys, Nil
  <2> QED
    BY <2>1
<1>4. RootHolds(N, tr)
  BY <1>2 DEF Rooted, RootHolds
<1>5. KidsHold(N, tr)
  <2> SUFFICES ASSUME NEW x \in N
               PROVE  \A s \in Sides : tr.kid[x][s] # Nil =>
            /\ tr.kid[x][s] \in N /\ tr.parent[tr.kid[x][s]] = x
            /\ tr.kid[x][s] # x /\ tr.kid[x][s] # tr.kid[x][Other(s)]
    BY DEF KidsHold
  <2>1. tr.kid[x]["left"] # Nil =>
            /\ tr.kid[x]["left"] \in N /\ tr.parent[tr.kid[x]["left"]] = x
            /\ tr.kid[x]["left"] < x
    BY <1>2, <1>3 DEF LeftsHang, Ordered
  <2>2. tr.kid[x]["right"] # Nil =>
            /\ tr.kid[x]["right"] \in N /\ tr.parent[tr.kid[x]["right"]] = x
            /\ x < tr.kid[x]["right"]
    BY <1>2, <1>3 DEF RightsHang, Ordered
  <2> QED
    BY <1>3, <2>1, <2>2 DEF Sides, Other
<1>6. ParentsMatch(N, tr)
  <2> SUFFICES ASSUME NEW x \in N, x # tr.root
               PROVE  /\ tr.parent[x] \in N /\ tr.parent[x] # x
                      /\ \E s \in Sides : tr.kid[tr.parent[x]][s] = x
                      /\ tr.parent[tr.parent[x]] # x
    BY DEF ParentsMatch
  <2> DEFINE p == tr.parent[x]
  <2>1. p \in N /\ (x = tr.kid[p]["left"] \/ x = tr.kid[p]["right"])
    BY <1>2 DEF ParentsHold
  <2>2. \/ lo[x] = lo[p] /\ hi[x] = p
        \/ lo[x] = p /\ hi[x] = hi[p]
    BY <1>2, <1>3, <2>1 DEF LeftsHang, RightsHang
  <2>3. p # x
    BY <1>2, <1>3, <2>1, <2>2 DEF Ordered
  <2>4. tr.parent[p] # x
    <3> SUFFICES ASSUME tr.parent[p] = x PROVE FALSE
      OBVIOUS
    <3>1. p # tr.root
      BY <1>2, <1>3 DEF Rooted
    <3>2. p = tr.kid[x]["left"] \/ p = tr.kid[x]["right"]
      BY <1>2, <2>1, <3>1 DEF ParentsHold
    <3>3. \/ lo[p] = lo[x] /\ hi[p] = x
          \/ lo[p] = x /\ hi[p] = hi[x]
      BY <1>2, <1>3, <2>1, <3>2 DEF LeftsHang, RightsHang
    <3> QED
      BY <1>2, <1>3, <2>1, <2>2, <3>3 DEF Ordered
  <2> QED
    BY <2>1, <2>3, <2>4 DEF Sides
<1> QED
  BY <1>4, <1>5, <1>6 DEF Family

(* A rotation turns the tree at n and keeps its shape.                     *)
LEMMA RotateKeeps ==
  ASSUME NEW N, N \subseteq Keys, MaxKey \in Nat, NEW tr \in Trees, Shaped(N, tr),
         NEW n \in N, NEW s \in Sides, NEW up, up = tr.kid[n][Other(s)], up # Nil
  PROVE  /\ up \in N
         /\ Turned(tr, Rotate(tr, n, s), n, s, up, tr.parent[n])
         /\ Shaped(N, Rotate(tr, n, s))
<1> DEFINE p == tr.parent[n]
           u == Rotate(tr, n, s)
<1>1. Family(N, tr)
  BY ShapeFamily
<1>2. /\ Other(s) \in Sides /\ Other(Other(s)) = s
      /\ \A x \in N : x \in Keys /\ x \in Ptr /\ x # Nil
  BY DEF Sides, Other, Keys, Ptr, Nil
<1>3. up \in N /\ tr.parent[up] = n /\ up # n /\ up # tr.root
  BY <1>1, <1>2 DEF Family, KidsHold, RootHolds
<1>4. p \in Ptr /\ (p # Nil <=> n # tr.root) /\ (n # tr.root => p \in N)
  BY <1>1, <1>2, IsTree DEF Family, RootHolds, ParentsMatch
<1>5. up # p /\ n # p
  BY <1>1, <1>2, <1>3, <1>4 DEF Family, ParentsMatch
<1>6. tr.kid[up][s] # n /\ tr.kid[up][s] # up
  BY <1>1, <1>2, <1>3, <1>5 DEF Family, KidsHold
<1>7. p # Nil => \E z \in Sides : tr.kid[p][z] = n /\ tr.kid[p][Other(z)] # n
  BY <1>1, <1>2, <1>4 DEF Family, KidsHold, ParentsMatch
<1>8. Turned(tr, u, n, s, up, p)
  BY <1>2, <1>3, <1>4, <1>5, <1>6, <1>7, RotateTurns
<1>9. PICK lo \in [Keys -> Int], hi \in [Keys -> Int] : Shape(N, tr, lo, hi)
  BY DEF Shaped
<1> HIDE DEF u
<1>10. Shaped(N, u)
  <2>1. CASE s = "left"
    <3> DEFINE lo2 == [lo EXCEPT ![up] = lo[n]]
               hi2 == [hi EXCEPT ![n] = up]
    <3>1. up \in Keys /\ up = tr.kid[n]["right"] /\ Turned(tr, u, n, "left", up, tr.parent[n])
      BY <1>2, <1>3, <1>8, <2>1 DEF Other
    <3>2. Shape(N, u, lo2, hi2)
      BY <1>9, <3>1, LeftTurnShape, Zenon
    <3>3. lo2 \in [Keys -> Int] /\ hi2 \in [Keys -> Int]
      <4>1. up \in Int /\ n \in Keys
        BY <1>2, <3>1 DEF Keys
      <4> QED
        BY <4>1
    <3> QED
      BY <3>2, <3>3, Zenon DEF Shaped
  <2>2. CASE s = "right"
    <3> DEFINE hi2 == [hi EXCEPT ![up] = hi[n]]
               lo2 == [lo EXCEPT ![n] = up]
    <3>1. up \in Keys /\ up = tr.kid[n]["left"] /\ Turned(tr, u, n, "right", up, tr.parent[n])
      BY <1>2, <1>3, <1>8, <2>2 DEF Other
    <3>2. Shape(N, u, lo2, hi2)
      BY <1>9, <3>1, RightTurnShape, Zenon
    <3>3. lo2 \in [Keys -> Int] /\ hi2 \in [Keys -> Int]
      <4>1. up \in Int /\ n \in Keys
        BY <1>2, <3>1 DEF Keys
      <4> QED
        BY <4>1
    <3> QED
      BY <3>2, <3>3, Zenon DEF Shaped
  <2> QED
    BY <2>1, <2>2 DEF Sides
<1> QED
  BY <1>3, <1>8, <1>10 DEF u

-----------------------------------------------------------------------------
(* A NODE TAKEN OUT OR HUNG UP: the bounds of the others, and the shape.   *)

(* In u, c hangs where n hung in tr.                                       *)
Replaced(N, u, tr, n, c) ==
    /\ u.root = IF n = tr.root THEN c ELSE tr.root
    /\ \A x \in N : u.parent[x] = IF x = c THEN tr.parent[n] ELSE tr.parent[x]
    /\ \A x \in N : \A s \in Sides :
          u.kid[x][s] = IF tr.kid[x][s] = n THEN c ELSE tr.kid[x][s]

LEMMA RightSplice ==
  ASSUME NEW N, N \subseteq Keys, MaxKey \in Nat, NEW tr \in Trees, NEW u,
         NEW lo \in [Keys -> Int], NEW hi \in [Keys -> Int], Shape(N, tr, lo, hi),
         NEW n \in N, tr.kid[n]["left"] = Nil,
         Replaced(N, u, tr, n, tr.kid[n]["right"])
  PROVE  Shaped(N \ {n}, u)
<1> DEFINE r == tr.kid[n]["right"]
           p == tr.parent[n]
           M == N \ {n}
           lo2 == [x \in Keys |-> IF lo[x] = n THEN lo[n] ELSE lo[x]]
<1> USE DEF Nil
<1>1. /\ Ordered(N, lo, hi) /\ Rooted(N, tr, lo, hi)
      /\ LeftsHang(N, tr, lo, hi) /\ RightsHang(N, tr, lo, hi)
      /\ ParentsHold(N, tr) /\ GapsEmpty(N, tr, lo, hi)
      /\ Bounded(N, lo, hi) /\ Laminar(N, lo, hi)
  BY DEF Shape
<1>2. \A x \in N : /\ x \in Keys /\ x \in Int /\ 0 < x /\ x < End /\ End \in Int
                 /\ lo[x] \in Int /\ hi[x] \in Int
  <2>1. \A x \in Keys : x \in Int /\ 0 < x /\ x < End /\ End \in Int
    BY DEF Keys, End
  <2> QED
    BY <2>1
<1>3. /\ u.root = IF n = tr.root THEN r ELSE tr.root
      /\ \A x \in M : u.parent[x] = IF x = r THEN p ELSE tr.parent[x]
      /\ \A x \in M : u.kid[x]["left"] = IF tr.kid[x]["left"] = n THEN r ELSE tr.kid[x]["left"]
      /\ \A x \in M : u.kid[x]["right"] = IF tr.kid[x]["right"] = n THEN r ELSE tr.kid[x]["right"]
  BY DEF Replaced, Sides
<1>4. /\ \A x \in M : x \in N /\ x # n
      /\ \A x \in N : x = n \/ x \in M
      /\ \A x \in N : lo2[x] = IF lo[x] = n THEN lo[n] ELSE lo[x]
  BY <1>2
<1>5. r # 0 => r \in M /\ tr.parent[r] = n /\ lo[r] = n /\ hi[r] = hi[n]
  BY <1>1, <1>2 DEF RightsHang, Ordered
<1> HIDE DEF r, p, M, lo2
<1>6. \A x \in N : hi[x] # n /\ ~(lo[n] < x /\ x < n)
  <2>1. \A x \in N : ~(lo[n] < x /\ x < n)
    BY <1>1 DEF GapsEmpty
  <2>2. \A x \in N : hi[x] # n
    BY <1>1, <1>2, <2>1 DEF Ordered, Bounded
  <2> QED
    BY <2>1, <2>2
<1>7. Ordered(M, lo2, hi)
  BY <1>1, <1>2, <1>4 DEF Ordered
<1>8. Rooted(M, u, lo2, hi)
  <2>1. CASE n # tr.root
    BY <1>1, <1>2, <1>3, <1>4, <1>5, <2>1 DEF Rooted
  <2>2. CASE n = tr.root /\ r # 0
    BY <1>1, <1>2, <1>3, <1>4, <1>5, <2>2 DEF Rooted, p
  <2>3. CASE n = tr.root /\ r = 0
    <3>1. lo[n] = 0 /\ hi[n] = End
      BY <1>1, <1>2, <2>3 DEF Rooted
    <3>2. \A x \in N : x = n
      BY <1>1, <1>2, <2>3, <3>1 DEF GapsEmpty, r
    <3> QED
      BY <1>3, <1>4, <2>3, <3>2 DEF Rooted
  <2> QED
    BY <2>1, <2>2, <2>3
<1>9. LeftsHang(M, u, lo2, hi)
  <2> SUFFICES ASSUME NEW x \in M, u.kid[x]["left"] # Nil
               PROVE  /\ u.kid[x]["left"] \in M /\ u.parent[u.kid[x]["left"]] = x
                      /\ lo2[u.kid[x]["left"]] = lo2[x] /\ hi[u.kid[x]["left"]] = x
    BY DEF LeftsHang
  <2>1. CASE tr.kid[x]["left"] = n
    <3>1. lo[n] = lo[x] /\ hi[n] = x /\ p = x
      BY <1>1, <1>2, <1>4, <2>1 DEF LeftsHang, p
    <3> QED
      BY <1>1, <1>2, <1>3, <1>4, <1>5, <2>1, <3>1 DEF Ordered
  <2>2. CASE tr.kid[x]["left"] # n
    <3> DEFINE c == tr.kid[x]["left"]
    <3>1. /\ u.kid[x]["left"] = c /\ c \in N /\ tr.parent[c] = x
          /\ lo[c] = lo[x] /\ hi[c] = x
      BY <1>1, <1>3, <1>4, <2>2 DEF LeftsHang
    <3> QED
      BY <1>2, <1>3, <1>4, <1>5, <2>2, <3>1
  <2> QED
    BY <2>1, <2>2
<1>10. RightsHang(M, u, lo2, hi)
  <2> SUFFICES ASSUME NEW x \in M, u.kid[x]["right"] # Nil
               PROVE  /\ u.kid[x]["right"] \in M /\ u.parent[u.kid[x]["right"]] = x
                      /\ lo2[u.kid[x]["right"]] = x /\ hi[u.kid[x]["right"]] = hi[x]
    BY DEF RightsHang
  <2>1. CASE tr.kid[x]["right"] = n
    <3>1. lo[n] = x /\ hi[n] = hi[x] /\ p = x
      BY <1>1, <1>2, <1>4, <2>1 DEF RightsHang, p
    <3> QED
      BY <1>1, <1>2, <1>3, <1>4, <1>5, <2>1, <3>1 DEF Ordered
  <2>2. CASE tr.kid[x]["right"] # n
    <3> DEFINE c == tr.kid[x]["right"]
    <3>1. /\ u.kid[x]["right"] = c /\ c \in N /\ tr.parent[c] = x
          /\ lo[c] = x /\ hi[c] = hi[x]
      BY <1>1, <1>3, <1>4, <2>2 DEF RightsHang
    <3> QED
      BY <1>2, <1>3, <1>4, <1>5, <2>2, <3>1
  <2> QED
    BY <2>1, <2>2
<1>11. ParentsHold(M, u)
  <2> SUFFICES ASSUME NEW x \in M, x # u.root
               PROVE  /\ u.parent[x] \in M
                      /\ x = u.kid[u.parent[x]]["left"] \/ x = u.kid[u.parent[x]]["right"]
    BY DEF ParentsHold
  <2>1. CASE x = r
    <3>1. n # tr.root /\ u.parent[x] = p
      BY <1>3, <2>1
    <3>2. p \in N /\ (n = tr.kid[p]["left"] \/ n = tr.kid[p]["right"])
      BY <1>1, <3>1 DEF ParentsHold, p
    <3>3. p \in M
      BY <1>1, <1>2, <1>4, <3>2 DEF LeftsHang, RightsHang, Ordered
    <3> QED
      BY <1>3, <2>1, <3>1, <3>2, <3>3
  <2>2. CASE x # r
    <3>1. x # tr.root /\ u.parent[x] = tr.parent[x]
      BY <1>1, <1>2, <1>3, <1>4, <2>2 DEF Rooted
    <3>2. /\ tr.parent[x] \in N
          /\ x = tr.kid[tr.parent[x]]["left"] \/ x = tr.kid[tr.parent[x]]["right"]
      BY <1>1, <1>4, <3>1 DEF ParentsHold
    <3>3. tr.parent[x] # n
      BY <1>2, <1>4, <2>2, <3>2 DEF r
    <3> QED
      BY <1>3, <1>4, <3>1, <3>2, <3>3
  <2> QED
    BY <2>1, <2>2
<1>12. GapsEmpty(M, u, lo2, hi)
  <2> SUFFICES ASSUME NEW x \in M, NEW y \in M
               PROVE  /\ u.kid[x]["left"] = Nil => ~(lo2[x] < y /\ y < x)
                      /\ u.kid[x]["right"] = Nil => ~(x < y /\ y < hi[x])
    BY DEF GapsEmpty
  <2>1. ASSUME u.kid[x]["left"] = Nil PROVE ~(lo2[x] < y /\ y < x)
    <3>1. CASE tr.kid[x]["left"] = n
      <4>1. r = 0 /\ lo[n] = lo[x] /\ hi[n] = x
        BY <1>1, <1>2, <1>3, <1>4, <2>1, <3>1 DEF LeftsHang
      <4>2. ~(n < y /\ y < hi[n])
        BY <1>1, <1>4, <4>1 DEF GapsEmpty, r
      <4> QED
        BY <1>1, <1>2, <1>4, <1>6, <4>1, <4>2 DEF Ordered
    <3>2. CASE tr.kid[x]["left"] # n
      <4>1. ~(lo[x] < y /\ y < x)
        BY <1>1, <1>3, <1>4, <2>1, <3>2 DEF GapsEmpty
      <4> QED
        BY <1>2, <1>4, <1>6, <4>1
    <3> QED
      BY <3>1, <3>2
  <2>2. ASSUME u.kid[x]["right"] = Nil PROVE ~(x < y /\ y < hi[x])
    <3>1. CASE tr.kid[x]["right"] = n
      <4>1. r = 0 /\ lo[n] = x /\ hi[n] = hi[x]
        BY <1>1, <1>2, <1>3, <1>4, <2>2, <3>1 DEF RightsHang
      <4>2. ~(n < y /\ y < hi[n])
        BY <1>1, <1>4, <4>1 DEF GapsEmpty, r
      <4> QED
        BY <1>2, <1>4, <1>6, <4>1, <4>2
    <3>2. CASE tr.kid[x]["right"] # n
      BY <1>1, <1>3, <1>4, <2>2, <3>2 DEF GapsEmpty
    <3> QED
      BY <3>1, <3>2
  <2> QED
    BY <2>1, <2>2
<1>13. Bounded(M, lo2, hi)
  BY <1>1, <1>2, <1>4, <1>6 DEF Ordered, Bounded
<1>14. Laminar(M, lo2, hi)
  BY <1>1, <1>2, <1>4, <1>6 DEF Ordered, Laminar
<1>15. Shape(M, u, lo2, hi)
  BY <1>7, <1>8, <1>9, <1>10, <1>11, <1>12, <1>13, <1>14 DEF Shape, r
<1>16. lo2 \in [Keys -> Int]
  BY <1>2 DEF lo2
<1> QED
  BY <1>15, <1>16 DEF Shaped, M

LEMMA LeftSplice ==
  ASSUME NEW N, N \subseteq Keys, MaxKey \in Nat, NEW tr \in Trees, NEW u,
         NEW hi \in [Keys -> Int], NEW lo \in [Keys -> Int], Shape(N, tr, lo, hi),
         NEW n \in N, tr.kid[n]["right"] = Nil,
         Replaced(N, u, tr, n, tr.kid[n]["left"])
  PROVE  Shaped(N \ {n}, u)
<1> DEFINE r == tr.kid[n]["left"]
           p == tr.parent[n]
           M == N \ {n}
           hi2 == [x \in Keys |-> IF hi[x] = n THEN hi[n] ELSE hi[x]]
<1> USE DEF Nil
<1>1. /\ Ordered(N, lo, hi) /\ Rooted(N, tr, lo, hi)
      /\ RightsHang(N, tr, lo, hi) /\ LeftsHang(N, tr, lo, hi)
      /\ ParentsHold(N, tr) /\ GapsEmpty(N, tr, lo, hi)
      /\ Bounded(N, lo, hi) /\ Laminar(N, lo, hi)
  BY DEF Shape
<1>2. \A x \in N : /\ x \in Keys /\ x \in Int /\ 0 < x /\ x < End /\ End \in Int
                 /\ hi[x] \in Int /\ lo[x] \in Int
  <2>1. \A x \in Keys : x \in Int /\ 0 < x /\ x < End /\ End \in Int
    BY DEF Keys, End
  <2> QED
    BY <2>1
<1>3. /\ u.root = IF n = tr.root THEN r ELSE tr.root
      /\ \A x \in M : u.parent[x] = IF x = r THEN p ELSE tr.parent[x]
      /\ \A x \in M : u.kid[x]["right"] = IF tr.kid[x]["right"] = n THEN r ELSE tr.kid[x]["right"]
      /\ \A x \in M : u.kid[x]["left"] = IF tr.kid[x]["left"] = n THEN r ELSE tr.kid[x]["left"]
  BY DEF Replaced, Sides
<1>4. /\ \A x \in M : x \in N /\ x # n
      /\ \A x \in N : x = n \/ x \in M
      /\ \A x \in N : hi2[x] = IF hi[x] = n THEN hi[n] ELSE hi[x]
  BY <1>2
<1>5. r # 0 => r \in M /\ tr.parent[r] = n /\ hi[r] = n /\ lo[r] = lo[n]
  BY <1>1, <1>2 DEF LeftsHang, Ordered
<1> HIDE DEF r, p, M, hi2
<1>6. \A x \in N : lo[x] # n /\ ~(x < hi[n] /\ n < x)
  <2>1. \A x \in N : ~(x < hi[n] /\ n < x)
    BY <1>1 DEF GapsEmpty
  <2>2. \A x \in N : lo[x] # n
    BY <1>1, <1>2, <2>1 DEF Ordered, Bounded
  <2> QED
    BY <2>1, <2>2
<1>7. Ordered(M, lo, hi2)
  BY <1>1, <1>2, <1>4 DEF Ordered
<1>8. Rooted(M, u, lo, hi2)
  <2>1. CASE n # tr.root
    BY <1>1, <1>2, <1>3, <1>4, <1>5, <2>1 DEF Rooted
  <2>2. CASE n = tr.root /\ r # 0
    BY <1>1, <1>2, <1>3, <1>4, <1>5, <2>2 DEF Rooted, p
  <2>3. CASE n = tr.root /\ r = 0
    <3>1. lo[n] = 0 /\ hi[n] = End
      BY <1>1, <1>2, <2>3 DEF Rooted
    <3>2. \A x \in N : x = n
      BY <1>1, <1>2, <2>3, <3>1 DEF GapsEmpty, r
    <3> QED
      BY <1>3, <1>4, <2>3, <3>2 DEF Rooted
  <2> QED
    BY <2>1, <2>2, <2>3
<1>9. RightsHang(M, u, lo, hi2)
  <2> SUFFICES ASSUME NEW x \in M, u.kid[x]["right"] # Nil
               PROVE  /\ u.kid[x]["right"] \in M /\ u.parent[u.kid[x]["right"]] = x
                      /\ hi2[u.kid[x]["right"]] = hi2[x] /\ lo[u.kid[x]["right"]] = x
    BY DEF RightsHang
  <2>1. CASE tr.kid[x]["right"] = n
    <3>1. hi[n] = hi[x] /\ lo[n] = x /\ p = x
      BY <1>1, <1>2, <1>4, <2>1 DEF RightsHang, p
    <3> QED
      BY <1>1, <1>2, <1>3, <1>4, <1>5, <2>1, <3>1 DEF Ordered
  <2>2. CASE tr.kid[x]["right"] # n
    <3> DEFINE c == tr.kid[x]["right"]
    <3>1. /\ u.kid[x]["right"] = c /\ c \in N /\ tr.parent[c] = x
          /\ hi[c] = hi[x] /\ lo[c] = x
      BY <1>1, <1>3, <1>4, <2>2 DEF RightsHang
    <3> QED
      BY <1>2, <1>3, <1>4, <1>5, <2>2, <3>1
  <2> QED
    BY <2>1, <2>2
<1>10. LeftsHang(M, u, lo, hi2)
  <2> SUFFICES ASSUME NEW x \in M, u.kid[x]["left"] # Nil
               PROVE  /\ u.kid[x]["left"] \in M /\ u.parent[u.kid[x]["left"]] = x
                      /\ hi2[u.kid[x]["left"]] = x /\ lo[u.kid[x]["left"]] = lo[x]
    BY DEF LeftsHang
  <2>1. CASE tr.kid[x]["left"] = n
    <3>1. hi[n] = x /\ lo[n] = lo[x] /\ p = x
      BY <1>1, <1>2, <1>4, <2>1 DEF LeftsHang, p
    <3> QED
      BY <1>1, <1>2, <1>3, <1>4, <1>5, <2>1, <3>1 DEF Ordered
  <2>2. CASE tr.kid[x]["left"] # n
    <3> DEFINE c == tr.kid[x]["left"]
    <3>1. /\ u.kid[x]["left"] = c /\ c \in N /\ tr.parent[c] = x
          /\ hi[c] = x /\ lo[c] = lo[x]
      BY <1>1, <1>3, <1>4, <2>2 DEF LeftsHang
    <3> QED
      BY <1>2, <1>3, <1>4, <1>5, <2>2, <3>1
  <2> QED
    BY <2>1, <2>2
<1>11. ParentsHold(M, u)
  <2> SUFFICES ASSUME NEW x \in M, x # u.root
               PROVE  /\ u.parent[x] \in M
                      /\ x = u.kid[u.parent[x]]["right"] \/ x = u.kid[u.parent[x]]["left"]
    BY DEF ParentsHold
  <2>1. CASE x = r
    <3>1. n # tr.root /\ u.parent[x] = p
      BY <1>3, <2>1
    <3>2. p \in N /\ (n = tr.kid[p]["right"] \/ n = tr.kid[p]["left"])
      BY <1>1, <3>1 DEF ParentsHold, p
    <3>3. p \in M
      BY <1>1, <1>2, <1>4, <3>2 DEF RightsHang, LeftsHang, Ordered
    <3> QED
      BY <1>3, <2>1, <3>1, <3>2, <3>3
  <2>2. CASE x # r
    <3>1. x # tr.root /\ u.parent[x] = tr.parent[x]
      BY <1>1, <1>2, <1>3, <1>4, <2>2 DEF Rooted
    <3>2. /\ tr.parent[x] \in N
          /\ x = tr.kid[tr.parent[x]]["right"] \/ x = tr.kid[tr.parent[x]]["left"]
      BY <1>1, <1>4, <3>1 DEF ParentsHold
    <3>3. tr.parent[x] # n
      BY <1>2, <1>4, <2>2, <3>2 DEF r
    <3> QED
      BY <1>3, <1>4, <3>1, <3>2, <3>3
  <2> QED
    BY <2>1, <2>2
<1>12. GapsEmpty(M, u, lo, hi2)
  <2> SUFFICES ASSUME NEW x \in M, NEW y \in M
               PROVE  /\ u.kid[x]["right"] = Nil => ~(y < hi2[x] /\ x < y)
                      /\ u.kid[x]["left"] = Nil => ~(y < x /\ lo[x] < y)
    BY DEF GapsEmpty
  <2>1. ASSUME u.kid[x]["right"] = Nil PROVE ~(y < hi2[x] /\ x < y)
    <3>1. CASE tr.kid[x]["right"] = n
      <4>1. r = 0 /\ hi[n] = hi[x] /\ lo[n] = x
        BY <1>1, <1>2, <1>3, <1>4, <2>1, <3>1 DEF RightsHang
      <4>2. ~(y < n /\ lo[n] < y)
        BY <1>1, <1>4, <4>1 DEF GapsEmpty, r
      <4> QED
        BY <1>1, <1>2, <1>4, <1>6, <4>1, <4>2 DEF Ordered
    <3>2. CASE tr.kid[x]["right"] # n
      <4>1. ~(y < hi[x] /\ x < y)
        BY <1>1, <1>3, <1>4, <2>1, <3>2 DEF GapsEmpty
      <4> QED
        BY <1>2, <1>4, <1>6, <4>1
    <3> QED
      BY <3>1, <3>2
  <2>2. ASSUME u.kid[x]["left"] = Nil PROVE ~(y < x /\ lo[x] < y)
    <3>1. CASE tr.kid[x]["left"] = n
      <4>1. r = 0 /\ hi[n] = x /\ lo[n] = lo[x]
        BY <1>1, <1>2, <1>3, <1>4, <2>2, <3>1 DEF LeftsHang
      <4>2. ~(y < n /\ lo[n] < y)
        BY <1>1, <1>4, <4>1 DEF GapsEmpty, r
      <4> QED
        BY <1>2, <1>4, <1>6, <4>1, <4>2
    <3>2. CASE tr.kid[x]["left"] # n
      BY <1>1, <1>3, <1>4, <2>2, <3>2 DEF GapsEmpty
    <3> QED
      BY <3>1, <3>2
  <2> QED
    BY <2>1, <2>2
<1>13. Bounded(M, lo, hi2)
  BY <1>1, <1>2, <1>4, <1>6 DEF Ordered, Bounded
<1>14. Laminar(M, lo, hi2)
  BY <1>1, <1>2, <1>4, <1>6 DEF Ordered, Laminar
<1>15. Shape(M, u, lo, hi2)
  BY <1>7, <1>8, <1>9, <1>10, <1>11, <1>12, <1>13, <1>14 DEF Shape, r
<1>16. hi2 \in [Keys -> Int]
  BY <1>2 DEF hi2
<1> QED
  BY <1>15, <1>16 DEF Shaped, M

(* u is tr with the leaf k under par on side s.                            *)
Grown(N, u, tr, k, par, s) ==
    /\ u.root = tr.root
    /\ u.parent[k] = par /\ u.kid[par][s] = k
    /\ \A z \in Sides : u.kid[k][z] = Nil
    /\ \A x \in N : u.parent[x] = tr.parent[x]
    /\ \A x \in N : \A z \in Sides : x # par \/ z # s => u.kid[x][z] = tr.kid[x][z]

LEMMA LeftLeaf ==
  ASSUME NEW N, N \subseteq Keys, MaxKey \in Nat, NEW tr \in Trees, NEW u,
         NEW lo \in [Keys -> Int], NEW hi \in [Keys -> Int], Shape(N, tr, lo, hi),
         NEW k \in Keys, k \notin N, NEW par \in N, tr.kid[par]["left"] = Nil,
         lo[par] < k, k < par, Grown(N, u, tr, k, par, "left")
  PROVE  Shaped(N \cup {k}, u)
<1> DEFINE M == N \cup {k}
           lo2 == [lo EXCEPT ![k] = lo[par]]
           hi2 == [hi EXCEPT ![k] = par]
<1> USE DEF Nil
<1>1. /\ Ordered(N, lo, hi) /\ Rooted(N, tr, lo, hi)
      /\ LeftsHang(N, tr, lo, hi) /\ RightsHang(N, tr, lo, hi)
      /\ ParentsHold(N, tr) /\ GapsEmpty(N, tr, lo, hi)
      /\ Bounded(N, lo, hi) /\ Laminar(N, lo, hi)
  BY DEF Shape
<1>2. /\ \A x \in N : /\ x \in Keys /\ x \in Int /\ 0 < x /\ x < End /\ End \in Int
                      /\ lo[x] \in Int /\ hi[x] \in Int /\ x # k
      /\ k \in Int /\ 0 < k /\ k < End
  <2>1. \A x \in Keys : x \in Int /\ 0 < x /\ x < End /\ End \in Int
    BY DEF Keys, End
  <2> QED
    BY <2>1
<1>3. /\ u.root = tr.root /\ u.parent[k] = par
      /\ u.kid[k]["left"] = 0 /\ u.kid[k]["right"] = 0 /\ u.kid[par]["left"] = k
      /\ \A x \in N : u.parent[x] = tr.parent[x]
      /\ \A x \in N : x # par => u.kid[x]["left"] = tr.kid[x]["left"]
      /\ \A x \in N : u.kid[x]["right"] = tr.kid[x]["right"]
  BY DEF Grown, Sides
<1>4. /\ \A x \in M : x \in N \/ x = k
      /\ \A x \in N : x \in M /\ lo2[x] = lo[x] /\ hi2[x] = hi[x]
      /\ k \in M /\ lo2[k] = lo[par] /\ hi2[k] = par
  BY <1>2
<1> HIDE DEF M, lo2, hi2
<1>5. \A y \in N : ~(lo[par] < y /\ y < par)
  BY <1>1 DEF GapsEmpty
<1>6. Ordered(M, lo2, hi2)
  BY <1>1, <1>2, <1>4 DEF Ordered
<1>7. Rooted(M, u, lo2, hi2)
  <2>1. /\ tr.root # Nil /\ tr.root \in N /\ tr.parent[tr.root] = Nil
        /\ lo[tr.root] = 0 /\ hi[tr.root] = End
    BY <1>1 DEF Rooted
  <2> QED
    BY <1>3, <1>4, <2>1 DEF Rooted
<1>8. LeftsHang(M, u, lo2, hi2)
  <2> SUFFICES ASSUME NEW x \in M, u.kid[x]["left"] # Nil
               PROVE  /\ u.kid[x]["left"] \in M /\ u.parent[u.kid[x]["left"]] = x
                      /\ hi2[u.kid[x]["left"]] = x /\ lo2[u.kid[x]["left"]] = lo2[x]
    BY DEF LeftsHang
  <2>1. CASE x = par
    BY <1>3, <1>4, <2>1
  <2>2. CASE x # par
    <3>1. x \in N /\ u.kid[x]["left"] = tr.kid[x]["left"]
      BY <1>3, <1>4, <2>2
    <3> QED
      BY <1>1, <1>3, <1>4, <3>1 DEF LeftsHang
  <2> QED
    BY <2>1, <2>2
<1>9. RightsHang(M, u, lo2, hi2)
  <2> SUFFICES ASSUME NEW x \in M, u.kid[x]["right"] # Nil
               PROVE  /\ u.kid[x]["right"] \in M /\ u.parent[u.kid[x]["right"]] = x
                      /\ lo2[u.kid[x]["right"]] = x /\ hi2[u.kid[x]["right"]] = hi2[x]
    BY DEF RightsHang
  <2>1. x \in N /\ u.kid[x]["right"] = tr.kid[x]["right"]
    BY <1>3, <1>4
  <2> QED
    BY <1>1, <1>3, <1>4, <2>1 DEF RightsHang
<1>10. ParentsHold(M, u)
  <2> SUFFICES ASSUME NEW x \in M, x # u.root
               PROVE  /\ u.parent[x] \in M
                      /\ x = u.kid[u.parent[x]]["left"] \/ x = u.kid[u.parent[x]]["right"]
    BY DEF ParentsHold
  <2>1. CASE x = k
    BY <1>3, <1>4, <2>1
  <2>2. CASE x \in N
    <3>1. /\ u.parent[x] = tr.parent[x] /\ tr.parent[x] \in N
          /\ x = tr.kid[tr.parent[x]]["left"] \/ x = tr.kid[tr.parent[x]]["right"]
      BY <1>1, <1>3, <2>2 DEF ParentsHold
    <3>2. CASE x = tr.kid[tr.parent[x]]["left"]
      <4>1. tr.parent[x] # par
        BY <1>2, <2>2, <3>2
      <4> QED
        BY <1>3, <1>4, <3>1, <3>2, <4>1
    <3>3. CASE x = tr.kid[tr.parent[x]]["right"]
      BY <1>3, <1>4, <3>1, <3>3
    <3> QED
      BY <3>1, <3>2, <3>3
  <2> QED
    BY <1>4, <2>1, <2>2
<1>11. \A x \in N : x # par => ~(lo[x] < k /\ k < x /\ tr.kid[x]["left"] = 0)
  BY <1>1, <1>2, <1>5 DEF Ordered, Bounded, Laminar, GapsEmpty
<1>12. \A x \in N : ~(x < k /\ k < hi[x] /\ tr.kid[x]["right"] = 0)
  BY <1>1, <1>2, <1>5 DEF Ordered, Bounded, Laminar, GapsEmpty
<1>13. GapsEmpty(M, u, lo2, hi2)
  BY <1>1, <1>2, <1>3, <1>4, <1>5, <1>11, <1>12 DEF GapsEmpty
<1>14. Bounded(M, lo2, hi2)
  BY <1>1, <1>2, <1>4, <1>5 DEF Ordered, Bounded
<1>15. Laminar(M, lo2, hi2)
  BY <1>1, <1>2, <1>4, <1>5 DEF Ordered, Laminar
<1>16. Shape(M, u, lo2, hi2)
  BY <1>6, <1>7, <1>8, <1>9, <1>10, <1>13, <1>14, <1>15 DEF Shape
<1>17. lo2 \in [Keys -> Int] /\ hi2 \in [Keys -> Int]
  BY <1>2 DEF lo2, hi2
<1> QED
  BY <1>16, <1>17 DEF Shaped, M

LEMMA RightLeaf ==
  ASSUME NEW N, N \subseteq Keys, MaxKey \in Nat, NEW tr \in Trees, NEW u,
         NEW hi \in [Keys -> Int], NEW lo \in [Keys -> Int], Shape(N, tr, lo, hi),
         NEW k \in Keys, k \notin N, NEW par \in N, tr.kid[par]["right"] = Nil,
         k < hi[par], par < k, Grown(N, u, tr, k, par, "right")
  PROVE  Shaped(N \cup {k}, u)
<1> DEFINE M == N \cup {k}
           hi2 == [hi EXCEPT ![k] = hi[par]]
           lo2 == [lo EXCEPT ![k] = par]
<1> USE DEF Nil
<1>1. /\ Ordered(N, lo, hi) /\ Rooted(N, tr, lo, hi)
      /\ RightsHang(N, tr, lo, hi) /\ LeftsHang(N, tr, lo, hi)
      /\ ParentsHold(N, tr) /\ GapsEmpty(N, tr, lo, hi)
      /\ Bounded(N, lo, hi) /\ Laminar(N, lo, hi)
  BY DEF Shape
<1>2. /\ \A x \in N : /\ x \in Keys /\ x \in Int /\ 0 < x /\ x < End /\ End \in Int
                      /\ hi[x] \in Int /\ lo[x] \in Int /\ x # k
      /\ k \in Int /\ 0 < k /\ k < End
  <2>1. \A x \in Keys : x \in Int /\ 0 < x /\ x < End /\ End \in Int
    BY DEF Keys, End
  <2> QED
    BY <2>1
<1>3. /\ u.root = tr.root /\ u.parent[k] = par
      /\ u.kid[k]["right"] = 0 /\ u.kid[k]["left"] = 0 /\ u.kid[par]["right"] = k
      /\ \A x \in N : u.parent[x] = tr.parent[x]
      /\ \A x \in N : x # par => u.kid[x]["right"] = tr.kid[x]["right"]
      /\ \A x \in N : u.kid[x]["left"] = tr.kid[x]["left"]
  BY DEF Grown, Sides
<1>4. /\ \A x \in M : x \in N \/ x = k
      /\ \A x \in N : x \in M /\ hi2[x] = hi[x] /\ lo2[x] = lo[x]
      /\ k \in M /\ hi2[k] = hi[par] /\ lo2[k] = par
  BY <1>2
<1> HIDE DEF M, hi2, lo2
<1>5. \A y \in N : ~(y < hi[par] /\ par < y)
  BY <1>1 DEF GapsEmpty
<1>6. Ordered(M, lo2, hi2)
  BY <1>1, <1>2, <1>4 DEF Ordered
<1>7. Rooted(M, u, lo2, hi2)
  <2>1. /\ tr.root # Nil /\ tr.root \in N /\ tr.parent[tr.root] = Nil
        /\ lo[tr.root] = 0 /\ hi[tr.root] = End
    BY <1>1 DEF Rooted
  <2> QED
    BY <1>3, <1>4, <2>1 DEF Rooted
<1>8. RightsHang(M, u, lo2, hi2)
  <2> SUFFICES ASSUME NEW x \in M, u.kid[x]["right"] # Nil
               PROVE  /\ u.kid[x]["right"] \in M /\ u.parent[u.kid[x]["right"]] = x
                      /\ lo2[u.kid[x]["right"]] = x /\ hi2[u.kid[x]["right"]] = hi2[x]
    BY DEF RightsHang
  <2>1. CASE x = par
    BY <1>3, <1>4, <2>1
  <2>2. CASE x # par
    <3>1. x \in N /\ u.kid[x]["right"] = tr.kid[x]["right"]
      BY <1>3, <1>4, <2>2
    <3> QED
      BY <1>1, <1>3, <1>4, <3>1 DEF RightsHang
  <2> QED
    BY <2>1, <2>2
<1>9. LeftsHang(M, u, lo2, hi2)
  <2> SUFFICES ASSUME NEW x \in M, u.kid[x]["left"] # Nil
               PROVE  /\ u.kid[x]["left"] \in M /\ u.parent[u.kid[x]["left"]] = x
                      /\ hi2[u.kid[x]["left"]] = x /\ lo2[u.kid[x]["left"]] = lo2[x]
    BY DEF LeftsHang
  <2>1. x \in N /\ u.kid[x]["left"] = tr.kid[x]["left"]
    BY <1>3, <1>4
  <2> QED
    BY <1>1, <1>3, <1>4, <2>1 DEF LeftsHang
<1>10. ParentsHold(M, u)
  <2> SUFFICES ASSUME NEW x \in M, x # u.root
               PROVE  /\ u.parent[x] \in M
                      /\ x = u.kid[u.parent[x]]["right"] \/ x = u.kid[u.parent[x]]["left"]
    BY DEF ParentsHold
  <2>1. CASE x = k
    BY <1>3, <1>4, <2>1
  <2>2. CASE x \in N
    <3>1. /\ u.parent[x] = tr.parent[x] /\ tr.parent[x] \in N
          /\ x = tr.kid[tr.parent[x]]["right"] \/ x = tr.kid[tr.parent[x]]["left"]
      BY <1>1, <1>3, <2>2 DEF ParentsHold
    <3>2. CASE x = tr.kid[tr.parent[x]]["right"]
      <4>1. tr.parent[x] # par
        BY <1>2, <2>2, <3>2
      <4> QED
        BY <1>3, <1>4, <3>1, <3>2, <4>1
    <3>3. CASE x = tr.kid[tr.parent[x]]["left"]
      BY <1>3, <1>4, <3>1, <3>3
    <3> QED
      BY <3>1, <3>2, <3>3
  <2> QED
    BY <1>4, <2>1, <2>2
<1>11. \A x \in N : x # par => ~(k < hi[x] /\ x < k /\ tr.kid[x]["right"] = 0)
  BY <1>1, <1>2, <1>5 DEF Ordered, Bounded, Laminar, GapsEmpty
<1>12. \A x \in N : ~(k < x /\ lo[x] < k /\ tr.kid[x]["left"] = 0)
  BY <1>1, <1>2, <1>5 DEF Ordered, Bounded, Laminar, GapsEmpty
<1>13. GapsEmpty(M, u, lo2, hi2)
  BY <1>1, <1>2, <1>3, <1>4, <1>5, <1>11, <1>12 DEF GapsEmpty
<1>14. Bounded(M, lo2, hi2)
  BY <1>1, <1>2, <1>4, <1>5 DEF Ordered, Bounded
<1>15. Laminar(M, lo2, hi2)
  BY <1>1, <1>2, <1>4, <1>5 DEF Ordered, Laminar
<1>16. Shape(M, u, lo2, hi2)
  BY <1>6, <1>7, <1>8, <1>9, <1>10, <1>13, <1>14, <1>15 DEF Shape
<1>17. lo2 \in [Keys -> Int] /\ hi2 \in [Keys -> Int]
  BY <1>2 DEF lo2, hi2
<1> QED
  BY <1>16, <1>17 DEF Shaped, M

(* In v, m has left its place in tr to its right child and taken n's.      *)
Inherited(N, v, tr, n, m) ==
    LET r == tr.kid[m]["right"] IN
    /\ v.root = IF n = tr.root THEN m ELSE tr.root
    /\ \A x \in N : x # m /\ x # n =>
          v.parent[x] = IF x = r THEN IF tr.parent[m] = n THEN m ELSE tr.parent[m]
                        ELSE IF tr.parent[x] = n THEN m ELSE tr.parent[x]
    /\ v.parent[m] = tr.parent[n]
    /\ \A x \in N : \A z \in Sides : x # m /\ x # n =>
          v.kid[x][z] = IF tr.kid[x][z] = n THEN m
                        ELSE IF tr.kid[x][z] = m THEN r ELSE tr.kid[x][z]
    /\ \A z \in Sides :
          v.kid[m][z] = IF tr.kid[n][z] = m THEN r ELSE tr.kid[n][z]

LEMMA HeirShape ==
  ASSUME NEW N, N \subseteq Keys, MaxKey \in Nat, NEW tr \in Trees, NEW v,
         NEW lo \in [Keys -> Int], NEW hi \in [Keys -> Int], Shape(N, tr, lo, hi),
         NEW n \in N, NEW m \in N, n < m, lo[m] = n, hi[m] <= hi[n],
         tr.kid[m]["left"] = Nil, Inherited(N, v, tr, n, m)
  PROVE  Shaped(N \ {n}, v)
<1> DEFINE M == N \ {n}
           r == tr.kid[m]["right"]
           lo2 == [x \in Keys |-> IF x = m THEN lo[n] ELSE IF lo[x] = n THEN m ELSE lo[x]]
           hi2 == [x \in Keys |-> IF x = m THEN hi[n] ELSE IF hi[x] = n THEN m ELSE hi[x]]
<1> USE DEF Nil
<1>1. /\ Ordered(N, lo, hi) /\ Rooted(N, tr, lo, hi)
      /\ LeftsHang(N, tr, lo, hi) /\ RightsHang(N, tr, lo, hi)
      /\ ParentsHold(N, tr) /\ GapsEmpty(N, tr, lo, hi)
      /\ Bounded(N, lo, hi) /\ Laminar(N, lo, hi)
  BY DEF Shape
<1>2. \A x \in N : /\ x \in Keys /\ x \in Int /\ 0 < x /\ x < End /\ End \in Int
                   /\ lo[x] \in Int /\ hi[x] \in Int
  <2>1. \A x \in Keys : x \in Int /\ 0 < x /\ x < End /\ End \in Int
    BY DEF Keys, End
  <2> QED
    BY <2>1
<1>3. /\ v.root = IF n = tr.root THEN m ELSE tr.root
      /\ v.parent[m] = tr.parent[n]
      /\ \A x \in N : x # m /\ x # n =>
            v.parent[x] = IF x = r THEN IF tr.parent[m] = n THEN m ELSE tr.parent[m]
                          ELSE IF tr.parent[x] = n THEN m ELSE tr.parent[x]
      /\ \A x \in N : x # m /\ x # n =>
            v.kid[x]["left"] = IF tr.kid[x]["left"] = n THEN m
                        ELSE IF tr.kid[x]["left"] = m THEN r ELSE tr.kid[x]["left"]
      /\ \A x \in N : x # m /\ x # n =>
            v.kid[x]["right"] = IF tr.kid[x]["right"] = n THEN m
                        ELSE IF tr.kid[x]["right"] = m THEN r ELSE tr.kid[x]["right"]
      /\ v.kid[m]["left"] = IF tr.kid[n]["left"] = m THEN r ELSE tr.kid[n]["left"]
      /\ v.kid[m]["right"] = IF tr.kid[n]["right"] = m THEN r ELSE tr.kid[n]["right"]
  BY DEF Inherited, Sides
<1>4. /\ \A x \in M : x \in N /\ x # n
      /\ \A x \in N : x # n => x \in M
      /\ m \in M
      /\ \A x \in N : lo2[x] = IF x = m THEN lo[n] ELSE IF lo[x] = n THEN m ELSE lo[x]
      /\ \A x \in N : hi2[x] = IF x = m THEN hi[n] ELSE IF hi[x] = n THEN m ELSE hi[x]
  BY <1>2
<1>5. r # 0 => r \in M /\ r # m /\ tr.parent[r] = m /\ lo[r] = m /\ hi[r] = hi[m]
  BY <1>1, <1>2, <1>4 DEF RightsHang, Ordered
<1> HIDE DEF M, r, lo2, hi2
(* m comes next after n.                                                   *)
<1>6. \A x \in N : ~(n < x /\ x < m) /\ hi[x] # m /\ (lo[x] <= n \/ m <= lo[x])
  <2>1. \A x \in N : ~(n < x /\ x < m)
    BY <1>1 DEF GapsEmpty
  <2>2. \A x \in N : hi[x] # m
    BY <1>1, <1>2, <2>1 DEF Ordered, Bounded
  <2> QED
    BY <1>1, <1>2, <2>1, <2>2 DEF Bounded
<1>7. m # tr.root /\ tr.kid[n]["left"] # m /\ lo[n] # n /\ hi[n] # n
  BY <1>1, <1>2 DEF Rooted, Ordered, LeftsHang
<1>8. Ordered(M, lo2, hi2)
  BY <1>1, <1>2, <1>4, <1>6 DEF Ordered
<1>9. Rooted(M, v, lo2, hi2)
  <2>1. CASE n # tr.root
    BY <1>1, <1>2, <1>3, <1>4, <1>5, <1>7, <2>1 DEF Rooted
  <2>2. CASE n = tr.root
    BY <1>1, <1>2, <1>3, <1>4, <2>2 DEF Rooted
  <2> QED
    BY <2>1, <2>2
<1>10. LeftsHang(M, v, lo2, hi2)
  <2> SUFFICES ASSUME NEW x \in M, v.kid[x]["left"] # Nil
               PROVE  /\ v.kid[x]["left"] \in M /\ v.parent[v.kid[x]["left"]] = x
                      /\ lo2[v.kid[x]["left"]] = lo2[x] /\ hi2[v.kid[x]["left"]] = x
    BY DEF LeftsHang
  <2> DEFINE c == tr.kid[x]["left"]
             d == tr.kid[n]["left"]
  <2>1. CASE x = m
    <3>1. v.kid[x]["left"] = d /\ d # 0
      BY <1>3, <1>7, <2>1
    <3>2. d \in N /\ tr.parent[d] = n /\ lo[d] = lo[n] /\ hi[d] = n /\ d # n
      BY <1>1, <1>2, <3>1 DEF LeftsHang, Ordered
    <3>3. d # m /\ d # r
      BY <1>1, <1>2, <1>5, <1>7, <3>2 DEF Ordered
    <3> HIDE DEF d
    <3> QED
      BY <1>3, <1>4, <1>7, <2>1, <3>1, <3>2, <3>3
  <2>2. CASE x # m /\ c = n
    <3>1. lo[n] = lo[x] /\ hi[n] = x /\ tr.parent[n] = x
      BY <1>1, <1>2, <1>4, <2>2 DEF LeftsHang
    <3> QED
      BY <1>1, <1>2, <1>3, <1>4, <1>7, <2>2, <3>1
  <2>3. CASE x # m /\ c = m
    <3>1. n = lo[x] /\ hi[m] = x /\ tr.parent[m] = x /\ r # 0
      BY <1>1, <1>2, <1>3, <1>4, <2>3 DEF LeftsHang
    <3> QED
      BY <1>1, <1>2, <1>3, <1>4, <1>5, <2>3, <3>1
  <2>4. CASE x # m /\ c # n /\ c # m
    <3>1. /\ v.kid[x]["left"] = c /\ c \in N /\ tr.parent[c] = x
          /\ lo[c] = lo[x] /\ hi[c] = x
      BY <1>1, <1>3, <1>4, <2>4 DEF LeftsHang
    <3>2. c # r
      BY <1>2, <1>5, <2>4, <3>1
    <3> HIDE DEF c
    <3> QED
      BY <1>3, <1>4, <2>4, <3>1, <3>2
  <2> QED
    BY <2>1, <2>2, <2>3, <2>4
<1>11. RightsHang(M, v, lo2, hi2)
  <2> SUFFICES ASSUME NEW x \in M, v.kid[x]["right"] # Nil
               PROVE  /\ v.kid[x]["right"] \in M /\ v.parent[v.kid[x]["right"]] = x
                      /\ lo2[v.kid[x]["right"]] = x /\ hi2[v.kid[x]["right"]] = hi2[x]
    BY DEF RightsHang
  <2> DEFINE c == tr.kid[x]["right"]
             d == tr.kid[n]["right"]
  <2>1. CASE x = m /\ d = m
    <3>1. tr.parent[m] = n /\ hi[m] = hi[n] /\ r # 0 /\ v.kid[x]["right"] = r
      BY <1>1, <1>2, <1>3, <2>1 DEF RightsHang
    <3> QED
      BY <1>1, <1>2, <1>3, <1>4, <1>5, <1>7, <2>1, <3>1
  <2>2. CASE x = m /\ d # m
    <3>1. v.kid[x]["right"] = d /\ d # 0
      BY <1>3, <2>2
    <3>2. d \in N /\ tr.parent[d] = n /\ lo[d] = n /\ hi[d] = hi[n] /\ d # n
      BY <1>1, <1>2, <3>1 DEF RightsHang, Ordered
    <3>3. d # r
      BY <1>2, <1>5, <3>2
    <3> HIDE DEF d
    <3> QED
      BY <1>3, <1>4, <1>7, <2>2, <3>1, <3>2, <3>3
  <2>3. CASE x # m /\ c = n
    <3>1. lo[n] = x /\ hi[n] = hi[x] /\ tr.parent[n] = x
      BY <1>1, <1>2, <1>4, <2>3 DEF RightsHang
    <3> QED
      BY <1>1, <1>2, <1>3, <1>4, <1>7, <2>3, <3>1
  <2>4. CASE x # m /\ c # n
    <3>1. c # m
      BY <1>1, <1>2, <1>4 DEF RightsHang
    <3>2. /\ v.kid[x]["right"] = c /\ c \in N /\ tr.parent[c] = x
          /\ lo[c] = x /\ hi[c] = hi[x]
      BY <1>1, <1>3, <1>4, <2>4, <3>1 DEF RightsHang
    <3>3. c # r
      BY <1>2, <1>5, <2>4, <3>2
    <3> HIDE DEF c
    <3> QED
      BY <1>3, <1>4, <2>4, <3>1, <3>2, <3>3
  <2> QED
    BY <2>1, <2>2, <2>3, <2>4
<1>12. ParentsHold(M, v)
  <2> SUFFICES ASSUME NEW x \in M, x # v.root
               PROVE  /\ v.parent[x] \in M
                      /\ x = v.kid[v.parent[x]]["left"] \/ x = v.kid[v.parent[x]]["right"]
    BY DEF ParentsHold
  <2>1. CASE x = m
    <3> DEFINE p == tr.parent[n]
    <3>1. p \in N /\ (n = tr.kid[p]["left"] \/ n = tr.kid[p]["right"])
      BY <1>1, <1>3, <2>1 DEF ParentsHold
    <3>2. p # n /\ p # m
      BY <1>1, <1>2, <1>5, <3>1 DEF LeftsHang, RightsHang, Ordered, r
    <3> QED
      BY <1>3, <1>4, <2>1, <3>1, <3>2
  <2>2. CASE x # m /\ x = r
    <3>1. CASE tr.parent[m] = n
      <4>1. m = tr.kid[n]["right"]
        BY <1>1, <1>7, <3>1 DEF ParentsHold
      <4> QED
        BY <1>3, <1>4, <2>2, <3>1, <4>1
    <3>2. CASE tr.parent[m] # n
      <4> DEFINE q == tr.parent[m]
      <4>1. q \in N /\ (m = tr.kid[q]["left"] \/ m = tr.kid[q]["right"])
        BY <1>1, <1>7 DEF ParentsHold
      <4>2. q # m
        BY <1>1, <1>2, <4>1 DEF LeftsHang, RightsHang, Ordered
      <4> QED
        BY <1>3, <1>4, <2>2, <3>2, <4>1, <4>2
    <3> QED
      BY <3>1, <3>2
  <2>3. CASE x # m /\ x # r
    <3> DEFINE q == tr.parent[x]
    <3>1. x # tr.root
      BY <1>3, <1>4, <2>3
    <3>2. q \in N /\ (x = tr.kid[q]["left"] \/ x = tr.kid[q]["right"])
      BY <1>1, <1>4, <3>1 DEF ParentsHold
    <3>3. q # m
      BY <1>2, <1>4, <2>3, <3>2 DEF r
    <3>4. v.parent[x] = IF q = n THEN m ELSE q
      BY <1>3, <1>4, <2>3
    <3> QED
      BY <1>3, <1>4, <2>3, <3>2, <3>3, <3>4
  <2> QED
    BY <2>1, <2>2, <2>3
<1>13. \A x \in M : \A y \in M : v.kid[x]["left"] = Nil => ~(lo2[x] < y /\ y < x)
  <2> SUFFICES ASSUME NEW x \in M, NEW y \in M, v.kid[x]["left"] = Nil
               PROVE  ~(lo2[x] < y /\ y < x)
    OBVIOUS
  <2>1. CASE x = m
    <3>1. ~(lo[n] < y /\ y < n)
      BY <1>1, <1>3, <1>4, <1>7, <2>1 DEF GapsEmpty
    <3> QED
      BY <1>2, <1>4, <1>6, <2>1, <3>1
  <2>2. CASE x # m /\ tr.kid[x]["left"] = m
    <3>1. lo[x] = n /\ hi[m] = x /\ r = 0
      BY <1>1, <1>2, <1>3, <1>4, <2>2 DEF LeftsHang
    <3>2. ~(m < y /\ y < hi[m])
      BY <1>1, <1>4, <3>1 DEF GapsEmpty, r
    <3> QED
      BY <1>2, <1>4, <2>2, <3>1, <3>2
  <2>3. CASE x # m /\ tr.kid[x]["left"] # m
    <3>1. ~(lo[x] < y /\ y < x)
      BY <1>1, <1>2, <1>3, <1>4, <2>3 DEF GapsEmpty
    <3> QED
      BY <1>2, <1>4, <2>3, <3>1
  <2> QED
    BY <2>1, <2>2, <2>3
<1>14. \A x \in M : \A y \in M : v.kid[x]["right"] = Nil => ~(x < y /\ y < hi2[x])
  <2> SUFFICES ASSUME NEW x \in M, NEW y \in M, v.kid[x]["right"] = Nil
               PROVE  ~(x < y /\ y < hi2[x])
    OBVIOUS
  <2>1. CASE x = m /\ tr.kid[n]["right"] = m
    <3>1. hi[m] = hi[n] /\ r = 0
      BY <1>1, <1>2, <1>3, <2>1 DEF RightsHang
    <3>2. ~(m < y /\ y < hi[m])
      BY <1>1, <1>4, <3>1 DEF GapsEmpty, r
    <3> QED
      BY <1>2, <1>4, <2>1, <3>1, <3>2
  <2>2. CASE x = m /\ tr.kid[n]["right"] # m
    <3>1. ~(n < y /\ y < hi[n])
      BY <1>1, <1>3, <1>4, <2>2 DEF GapsEmpty
    <3> QED
      BY <1>2, <1>4, <2>2, <3>1
  <2>3. CASE x # m
    <3>1. tr.kid[x]["right"] # m
      BY <1>1, <1>2, <1>4 DEF RightsHang
    <3>2. ~(x < y /\ y < hi[x])
      BY <1>1, <1>2, <1>3, <1>4, <2>3, <3>1 DEF GapsEmpty
    <3> QED
      BY <1>2, <1>4, <1>6, <2>3, <3>2
  <2> QED
    BY <2>1, <2>2, <2>3
<1>15. Bounded(M, lo2, hi2)
  BY <1>1, <1>2, <1>4, <1>6, <1>7 DEF Ordered, Bounded
<1>16. Laminar(M, lo2, hi2)
  BY <1>1, <1>2, <1>4, <1>6, <1>7 DEF Ordered, Laminar
<1>17. Shape(M, v, lo2, hi2)
  BY <1>8, <1>9, <1>10, <1>11, <1>12, <1>13, <1>14, <1>15, <1>16
     DEF Shape, GapsEmpty
<1>18. lo2 \in [Keys -> Int] /\ hi2 \in [Keys -> Int]
  BY <1>2 DEF lo2, hi2
<1> QED
  BY <1>17, <1>18 DEF Shaped, M

-----------------------------------------------------------------------------
(* THE LOOPS that walk the tree end where they should within MaxKey turns: *)
(* search, least node, reached nodes, ancestors.                           *)

LEMMA LeastNumber ==
  ASSUME NEW S \in SUBSET Nat, S # {}
  PROVE  \E x \in S : \A y \in S : x <= y
<1>1. IsWellFoundedOn(OpToRel(<, Nat), Nat)
  BY NatLessThanWellFounded
<1>2. PICK x \in S : \A y \in S : ~(<<y, x>> \in OpToRel(<, Nat))
  BY <1>1, WFMin
<1>3. ASSUME NEW y \in S PROVE x <= y
  <2>1. ~(<<y, x>> \in OpToRel(<, Nat))
    BY <1>2
  <2>2. ~(y < x)
    BY <2>1 DEF OpToRel
  <2> QED
    BY <2>2
<1> QED
  BY <1>3

(* Induction up to m.                                                      *)
LEMMA Climb ==
  ASSUME NEW m \in Nat, NEW H, 0 \in H,
         \A i \in 0 .. m : i # m /\ i \in H => i + 1 \in H
  PROVE  \A i \in 0 .. m : i \in H
<1> SUFFICES ASSUME NEW j \in 0 .. m, j \notin H PROVE FALSE
  OBVIOUS
<1> DEFINE S == {i \in 0 .. m : i \notin H}
<1>1. PICK x \in S : \A y \in S : x <= y
  <2>1. S \in SUBSET Nat /\ S # {}
    OBVIOUS
  <2> HIDE DEF S
  <2> QED
    BY <2>1, LeastNumber
<1>2. x # 0 /\ x \in 0 .. m /\ x \notin H
  BY <1>1
<1>3. x - 1 \in 0 .. m /\ x - 1 # m /\ x - 1 + 1 = x
  BY <1>2
<1>4. x - 1 \in H
  BY <1>1, <1>3
<1> QED
  BY <1>2, <1>3, <1>4

(* A function defined by its value before.                                 *)
Iterate(g, x, step, m) == g = [i \in 0 .. m |-> IF i = 0 THEN x ELSE step[g[i - 1]]]

LEMMA Iterates ==
  ASSUME NEW S, NEW x \in S, NEW step \in [S -> S], NEW m \in Nat
  PROVE  \E g \in [0 .. m -> S] : Iterate(g, x, step, m)
<1> DEFINE H == {i \in Nat : \E g \in [0 .. i -> S] : Iterate(g, x, step, i)}
<1>1. 0 \in H
  <2> DEFINE g == [i \in 0 .. 0 |-> x]
  <2>1. g \in [0 .. 0 -> S] /\ Iterate(g, x, step, 0)
    BY DEF Iterate
  <2> QED
    BY <2>1
<1>2. ASSUME NEW i \in 0 .. m, i # m, i \in H
      PROVE  i + 1 \in H
  <2>1. PICK g \in [0 .. i -> S] : Iterate(g, x, step, i)
    BY <1>2
  <2> DEFINE h == [j \in 0 .. i + 1 |-> IF j = i + 1 THEN step[g[i]] ELSE g[j]]
  <2>2. h \in [0 .. i + 1 -> S]
    BY <2>1
  <2>3. ASSUME NEW j \in 0 .. i + 1
        PROVE  h[j] = IF j = 0 THEN x ELSE step[h[j - 1]]
    <3>1. CASE j = i + 1
      BY <3>1
    <3>2. CASE j # i + 1
      <4>1. j \in 0 .. i /\ h[j] = g[j]
        BY <3>2
      <4>2. j # 0 => h[j - 1] = g[j - 1]
        BY <4>1
      <4> QED
        BY <2>1, <4>1, <4>2 DEF Iterate
    <3> QED
      BY <3>1, <3>2
  <2>4. Iterate(h, x, step, i + 1)
    BY <2>3 DEF Iterate
  <2> QED
    BY <2>2, <2>4
<1> HIDE DEF H
<1>3. m \in H
  BY <1>1, <1>2, Climb
<1> QED
  BY <1>3 DEF H

(* One turn of the search loop.                                            *)
Down(k, n) == IF n \in {Nil, k} THEN n ELSE t.kid[n][IF k < n THEN "left" ELSE "right"]

LEMMA StepsGo ==
  ASSUME MaxKey \in Nat, t \in Trees, NEW k \in Keys
  PROVE  /\ Steps(k)[0] = {t.root}
         /\ \A i \in 0 .. MaxKey : i # MaxKey =>
               Steps(k)[i + 1] = {Down(k, n) : n \in Steps(k)[i]}
<1> DEFINE F(f) == [i \in 0 .. MaxKey |->
                       IF i = 0 THEN {t.root} ELSE {Down(k, n) : n \in f[i - 1]}]
           at == CHOOSE f : f = F(f)
           step == [A \in SUBSET Ptr |-> {Down(k, n) : n \in A}]
<1>1. \A n \in Ptr : Down(k, n) \in Ptr
  BY IsTree DEF Down, Sides
<1>2. step \in [SUBSET Ptr -> SUBSET Ptr]
  BY <1>1
<1>3. {t.root} \in SUBSET Ptr
  BY IsTree
<1>4. PICK g \in [0 .. MaxKey -> SUBSET Ptr] : Iterate(g, {t.root}, step, MaxKey)
  <2> HIDE DEF step
  <2> QED
    BY <1>2, <1>3, Iterates
<1>5. g = F(g)
  <2>1. ASSUME NEW i \in 0 .. MaxKey
        PROVE  g[i] = F(g)[i]
    <3>1. CASE i = 0
      BY <1>4, <3>1 DEF Iterate
    <3>2. CASE i # 0
      <4>1. i - 1 \in 0 .. MaxKey
        BY <3>2
      <4>2. g[i] = step[g[i - 1]] /\ g[i - 1] \in SUBSET Ptr
        BY <1>4, <3>2, <4>1 DEF Iterate
      <4> QED
        BY <3>2, <4>2
    <3> QED
      BY <3>1, <3>2
  <2> QED
    BY <2>1
<1>6. at = F(at)
  BY <1>5
<1>7. Steps(k) = at
  BY DEF Steps, Down
<1> HIDE DEF at
<1>8. at[0] = {t.root}
  BY <1>6
<1>9. ASSUME NEW i \in 0 .. MaxKey, i # MaxKey
      PROVE  at[i + 1] = {Down(k, n) : n \in at[i]}
  <2>1. i + 1 \in 0 .. MaxKey /\ i + 1 # 0 /\ i + 1 - 1 = i
    BY <1>9
  <2>2. at[i + 1] = {Down(k, n) : n \in at[i + 1 - 1]}
    BY <1>6, <2>1
  <2> QED
    BY <2>1, <2>2
<1> QED
  BY <1>7, <1>8, <1>9

(* Where the search for k is: between the bounds of a node, or where k is  *)
(* missing.                                                                *)
Near(N, lo, hi, k, n, i) ==
    /\ n \in Ptr
    /\ n = Nil => k \notin N
    /\ n # Nil => n \in N /\ lo[n] < k /\ k < hi[n]
    /\ n # Nil /\ n # k => hi[n] - lo[n] <= End - i

LEMMA Descent ==
  ASSUME MaxKey \in Nat, t \in Trees, NEW N, N \subseteq Keys, NEW k \in Keys,
         NEW lo \in [Keys -> Int], NEW hi \in [Keys -> Int], Shape(N, t, lo, hi)
  PROVE  \A i \in 0 .. MaxKey :
            \E n \in Ptr : Steps(k)[i] = {n} /\ Near(N, lo, hi, k, n, i)
<1> DEFINE At(i) == \E n \in Ptr : Steps(k)[i] = {n} /\ Near(N, lo, hi, k, n, i)
           H == {i \in Nat : At(i)}
<1>1. /\ Ordered(N, lo, hi) /\ Rooted(N, t, lo, hi)
      /\ LeftsHang(N, t, lo, hi) /\ RightsHang(N, t, lo, hi)
      /\ GapsEmpty(N, t, lo, hi)
  BY DEF Shape
<1>2. /\ \A x \in N : /\ x \in Keys /\ x \in Int /\ x # Nil
                      /\ lo[x] \in Int /\ hi[x] \in Int
      /\ k \in Int /\ 0 < k /\ k < End /\ End \in Int /\ End = MaxKey + 1 /\ k # Nil
  <2>1. \A x \in Keys : x \in Int /\ 0 < x /\ x < End /\ End \in Int /\ x # Nil
    BY DEF Keys, End, Nil
  <2> QED
    BY <2>1 DEF End
<1>3. At(0)
  <2>1. Steps(k)[0] = {t.root} /\ t.root \in Ptr
    BY StepsGo, IsTree
  <2>2. Near(N, lo, hi, k, t.root, 0)
    BY <1>1, <1>2, <2>1 DEF Near, Rooted
  <2> QED
    BY <2>1, <2>2
<1>4. ASSUME NEW i \in 0 .. MaxKey, i # MaxKey, At(i)
      PROVE  At(i + 1)
  <2>1. PICK n \in Ptr : Steps(k)[i] = {n} /\ Near(N, lo, hi, k, n, i)
    BY <1>4
  <2>2. Steps(k)[i + 1] = {Down(k, n)}
    BY <1>4, <2>1, StepsGo
  <2>3. Near(N, lo, hi, k, Down(k, n), i + 1)
    <3>1. CASE n \in {Nil, k}
      BY <1>2, <2>1, <3>1 DEF Down, Near
    <3>2. CASE n \notin {Nil, k} /\ k < n
      <4> DEFINE c == t.kid[n]["left"]
      <4>1. /\ Down(k, n) = c /\ c \in Ptr /\ n \in N /\ lo[n] < k
            /\ hi[n] - lo[n] <= End - i
        BY <2>1, <3>2, IsTree DEF Down, Near, Sides
      <4>2. n < hi[n]
        BY <1>1, <4>1 DEF Ordered
      <4>3. CASE c = Nil
        <5>1. k \notin N
          BY <1>1, <3>2, <4>1, <4>3 DEF GapsEmpty
        <5> QED
          BY <4>1, <4>3, <5>1 DEF Near
      <4>4. CASE c # Nil
        <5>1. c \in N /\ lo[c] = lo[n] /\ hi[c] = n
          BY <1>1, <4>1, <4>4 DEF LeftsHang
        <5> HIDE DEF c
        <5> QED
          BY <1>2, <3>2, <4>1, <4>2, <4>4, <5>1 DEF Near
      <4> QED
        BY <4>3, <4>4
    <3>3. CASE n \notin {Nil, k} /\ ~(k < n)
      <4> DEFINE c == t.kid[n]["right"]
      <4>1. /\ Down(k, n) = c /\ c \in Ptr /\ n \in N /\ k < hi[n]
            /\ hi[n] - lo[n] <= End - i
        BY <2>1, <3>3, IsTree DEF Down, Near, Sides
      <4>2. lo[n] < n /\ n < k
        BY <1>1, <1>2, <3>3, <4>1 DEF Ordered
      <4>3. CASE c = Nil
        <5>1. k \notin N
          BY <1>1, <4>1, <4>2, <4>3 DEF GapsEmpty
        <5> QED
          BY <4>1, <4>3, <5>1 DEF Near
      <4>4. CASE c # Nil
        <5>1. c \in N /\ lo[c] = n /\ hi[c] = hi[n]
          BY <1>1, <4>1, <4>4 DEF RightsHang
        <5> HIDE DEF c
        <5> QED
          BY <1>2, <4>1, <4>2, <4>4, <5>1 DEF Near
      <4> QED
        BY <4>3, <4>4
    <3> QED
      BY <3>1, <3>2, <3>3
  <2>4. Down(k, n) \in Ptr
    BY <2>3 DEF Near
  <2> QED
    BY <2>2, <2>3, <2>4
<1> HIDE DEF At
<1>5. 0 \in H
  BY <1>3
<1>6. \A i \in 0 .. MaxKey : i # MaxKey /\ i \in H => i + 1 \in H
  BY <1>4
<1> HIDE DEF H
<1>7. \A i \in 0 .. MaxKey : i \in H
  BY <1>5, <1>6, Climb
<1> QED
  BY <1>7 DEF H, At

(* A search from the root finds the keys that are there ...                *)
LEMMA LookupIs ==
  ASSUME MaxKey \in Nat, t \in Trees, NEW N, N \subseteq Keys, NEW k \in Keys, Shaped(N, t)
  PROVE  Lookup(k) = IF k \in N THEN k ELSE Nil
<1>1. PICK lo \in [Keys -> Int], hi \in [Keys -> Int] : Shape(N, t, lo, hi)
  BY DEF Shaped
<1>2. PICK n \in Ptr : Steps(k)[MaxKey] = {n} /\ Near(N, lo, hi, k, n, MaxKey)
  BY <1>1, Descent
<1>3. n \in {Nil, k}
  <2> SUFFICES ASSUME n # Nil, n # k PROVE FALSE
    OBVIOUS
  <2>1. n \in N /\ hi[n] - lo[n] <= End - MaxKey
    BY <1>2 DEF Near
  <2>2. lo[n] < n /\ n < hi[n]
    BY <1>1, <2>1 DEF Shape, Ordered
  <2>3. n \in Int /\ lo[n] \in Int /\ hi[n] \in Int /\ End - MaxKey = 1
    <3>1. n \in Keys
      BY <2>1
    <3>2. n \in Int
      BY <3>1 DEF Keys
    <3> QED
      BY <3>1, <3>2 DEF End
  <2> QED
    BY <2>1, <2>2, <2>3
<1>4. Lookup(k) = n
  BY <1>2 DEF Lookup
<1>5. k # Nil
  BY DEF Keys, Nil
<1> QED
  BY <1>2, <1>3, <1>4, <1>5 DEF Near

(* ... and else ends at the place where the key belongs.                   *)
LEMMA LastNodeIs ==
  ASSUME MaxKey \in Nat, t \in Trees, NEW N, N \subseteq Keys, NEW k \in Keys, k \notin N,
         NEW lo \in [Keys -> Int], NEW hi \in [Keys -> Int], Shape(N, t, lo, hi)
  PROVE  /\ t.root = Nil => LastNode(k) = Nil
         /\ t.root # Nil =>
               /\ LastNode(k) \in N /\ LastNode(k) # k
               /\ lo[LastNode(k)] < k /\ k < hi[LastNode(k)]
               /\ t.kid[LastNode(k)][IF k < LastNode(k) THEN "left" ELSE "right"] = Nil
<1>1. t.root = Nil => LastNode(k) = Nil
  BY DEF LastNode
<1> SUFFICES ASSUME t.root # Nil
             PROVE  /\ LastNode(k) \in N /\ LastNode(k) # k
                    /\ lo[LastNode(k)] < k /\ k < hi[LastNode(k)]
                    /\ t.kid[LastNode(k)][IF k < LastNode(k) THEN "left" ELSE "right"] = Nil
  BY <1>1
<1> DEFINE Is(n) == \E i \in 0 .. MaxKey - 1 : n \in Steps(k)[i] /\ Nil \in Steps(k)[i + 1]
<1>2. \A i \in 0 .. MaxKey :
            \E n \in Ptr : Steps(k)[i] = {n} /\ Near(N, lo, hi, k, n, i)
  BY Descent
<1>3. \E n \in Keys : Is(n)
  <2> SUFFICES ASSUME \A n \in Keys : ~Is(n) PROVE FALSE
    OBVIOUS
  <2> DEFINE H == {i \in 0 .. MaxKey : Nil \notin Steps(k)[i]}
  <2>1. 0 \in H
    BY StepsGo
  <2>2. ASSUME NEW i \in 0 .. MaxKey, i # MaxKey, i \in H
        PROVE  i + 1 \in H
    <3>1. PICK n \in Ptr : Steps(k)[i] = {n}
      BY <1>2
    <3>2. n \in Keys
      BY <2>2, <3>1 DEF Ptr
    <3>3. i \in 0 .. MaxKey - 1 /\ i + 1 \in 0 .. MaxKey
      BY <2>2
    <3> QED
      BY <3>1, <3>2, <3>3
  <2> HIDE DEF H
  <2>3. MaxKey \in H
    BY <2>1, <2>2, Climb
  <2>4. Lookup(k) = Nil
    <3>1. Shaped(N, t)
      BY DEF Shaped
    <3> QED
      BY <3>1, LookupIs
  <2>5. PICK n \in Ptr : Steps(k)[MaxKey] = {n}
    BY <1>2
  <2>6. Lookup(k) = n
    BY <2>5 DEF Lookup
  <2> QED
    BY <2>3, <2>4, <2>5, <2>6 DEF H
<1>4. LastNode(k) = CHOOSE n \in Keys : Is(n)
  BY DEF LastNode
<1> DEFINE l == LastNode(k)
<1>5. l \in Keys /\ Is(l)
  BY <1>3, <1>4
<1> HIDE DEF l
<1>6. PICK i \in 0 .. MaxKey - 1 : l \in Steps(k)[i] /\ Nil \in Steps(k)[i + 1]
  BY <1>5
<1>7. i \in 0 .. MaxKey /\ i # MaxKey
  OBVIOUS
<1>8. Steps(k)[i] = {l} /\ Near(N, lo, hi, k, l, i)
  BY <1>2, <1>6, <1>7
<1>9. Down(k, l) = Nil
  BY <1>6, <1>7, <1>8, StepsGo
<1>10. k # Nil /\ l # Nil
  BY <1>5 DEF Keys, Nil
<1>11. l \in N /\ l # k /\ lo[l] < k /\ k < hi[l]
  BY <1>8, <1>10 DEF Near
<1>12. t.kid[l][IF k < l THEN "left" ELSE "right"] = Nil
  BY <1>9, <1>10, <1>11 DEF Down
<1> QED
  BY <1>11, <1>12 DEF l

(* What the order gives for every key's bounds.                            *)
Numbers(N, lo, hi) ==
    /\ \A x \in N : /\ x \in Keys /\ x \in Int /\ x # Nil
                    /\ lo[x] \in Int /\ hi[x] \in Int
                    /\ 0 <= lo[x] /\ hi[x] <= End /\ lo[x] < x /\ x < hi[x]
    /\ End \in Int /\ End = MaxKey + 1

LEMMA NumbersHold ==
  ASSUME MaxKey \in Nat, NEW N, N \subseteq Keys, NEW tr,
         NEW lo \in [Keys -> Int], NEW hi \in [Keys -> Int], Shape(N, tr, lo, hi)
  PROVE  Numbers(N, lo, hi)
<1>1. Ordered(N, lo, hi) /\ Bounded(N, lo, hi)
  BY DEF Shape
<1>2. \A x \in N : /\ x \in Keys /\ x \in Int /\ 0 < x /\ x < End /\ x # Nil
                   /\ lo[x] \in Int /\ hi[x] \in Int
  <2>1. \A x \in Keys : x \in Int /\ 0 < x /\ x < End /\ x # Nil
    BY DEF Keys, End, Nil
  <2> QED
    BY <2>1
<1>3. End \in Int /\ End = MaxKey + 1
  BY DEF End
<1> QED
  BY <1>1, <1>2, <1>3 DEF Ordered, Bounded, Numbers

(* The least node below n.                                                 *)
LEMMA MinimumIs ==
  ASSUME MaxKey \in Nat, NEW tr \in Trees, NEW N, N \subseteq Keys,
         NEW lo \in [Keys -> Int], NEW hi \in [Keys -> Int], Shape(N, tr, lo, hi),
         NEW n \in N, NEW m, m = Minimum(tr, n)
  PROVE  m \in N /\ lo[m] = lo[n] /\ hi[m] <= hi[n] /\ tr.kid[m]["left"] = Nil
<1> DEFINE Turn(x) == LET l == tr.kid[x]["left"] IN IF l = Nil THEN x ELSE l
           F(f) == [i \in 0 .. MaxKey |-> IF i = 0 THEN n ELSE Turn(f[i - 1])]
           at == CHOOSE f : f = F(f)
           step == [x \in Ptr |-> Turn(x)]
<1>1. step \in [Ptr -> Ptr]
  BY IsTree DEF Sides
<1>2. PICK g \in [0 .. MaxKey -> Ptr] : Iterate(g, n, step, MaxKey)
  <2>1. n \in Ptr
    BY DEF Ptr
  <2> HIDE DEF step
  <2> QED
    BY <1>1, <2>1, Iterates
<1>3. g = F(g)
  <2>1. ASSUME NEW i \in 0 .. MaxKey
        PROVE  g[i] = F(g)[i]
    <3>1. CASE i = 0
      BY <1>2, <3>1 DEF Iterate
    <3>2. CASE i # 0
      <4>1. i - 1 \in 0 .. MaxKey
        BY <3>2
      <4>2. g[i] = step[g[i - 1]] /\ g[i - 1] \in Ptr
        BY <1>2, <3>2, <4>1 DEF Iterate
      <4> QED
        BY <3>2, <4>2
    <3> QED
      BY <3>1, <3>2
  <2> QED
    BY <2>1
<1>4. at = F(at)
  BY <1>3
<1>5. m = at[MaxKey]
  BY DEF Minimum
<1> HIDE DEF at
<1>6. at[0] = n
  BY <1>4
<1>7. \A i \in 0 .. MaxKey : i # MaxKey => at[i + 1] = Turn(at[i])
  <2> SUFFICES ASSUME NEW i \in 0 .. MaxKey, i # MaxKey PROVE at[i + 1] = Turn(at[i])
    OBVIOUS
  <2>1. i + 1 \in 0 .. MaxKey /\ i + 1 # 0 /\ i + 1 - 1 = i
    OBVIOUS
  <2>2. at[i + 1] = Turn(at[i + 1 - 1])
    BY <1>4, <2>1
  <2> QED
    BY <2>1, <2>2
<1> DEFINE On(i) == /\ at[i] \in N /\ lo[at[i]] = lo[n] /\ hi[at[i]] <= hi[n]
                    /\ tr.kid[at[i]]["left"] = Nil \/ hi[at[i]] - lo[at[i]] <= End - i
           H == {i \in Nat : On(i)}
<1>8. Numbers(N, lo, hi) /\ LeftsHang(N, tr, lo, hi)
  BY NumbersHold DEF Shape
<1>9. On(0)
  BY <1>6, <1>8 DEF Numbers
<1>10. ASSUME NEW i \in 0 .. MaxKey, i # MaxKey, On(i)
       PROVE  On(i + 1)
  <2> DEFINE x == at[i]
             l == tr.kid[x]["left"]
  <2>1. CASE l = Nil
    BY <1>7, <1>10, <2>1
  <2>2. CASE l # Nil
    <3>1. at[i + 1] = l
      BY <1>7, <1>10, <2>2
    <3>2. x \in N /\ l \in N /\ lo[l] = lo[x] /\ hi[l] = x
      BY <1>8, <1>10, <2>2 DEF LeftsHang
    <3>3. lo[x] = lo[n] /\ hi[x] <= hi[n] /\ hi[x] - lo[x] <= End - i
      BY <1>10, <2>2
    <3> HIDE DEF x, l
    <3>4. lo[l] = lo[n] /\ hi[l] <= hi[n] /\ hi[l] - lo[l] <= End - (i + 1)
      BY <1>8, <3>2, <3>3 DEF Numbers
    <3> QED
      BY <3>1, <3>2, <3>4
  <2> QED
    BY <2>1, <2>2
<1> HIDE DEF On
<1>11. 0 \in H /\ \A i \in 0 .. MaxKey : i # MaxKey /\ i \in H => i + 1 \in H
  BY <1>9, <1>10
<1> HIDE DEF H
<1>12. \A i \in 0 .. MaxKey : i \in H
  BY <1>11, Climb
<1>13. On(MaxKey)
  BY <1>12 DEF H
<1> QED
  BY <1>5, <1>8, <1>13 DEF On, Numbers

(* The nodes above x, and x.                                               *)
Above(N, lo, hi, x) == {q \in N : lo[q] < x /\ x < hi[q]}

LEMMA AboveParent ==
  ASSUME MaxKey \in Nat, NEW tr \in Trees, NEW N, N \subseteq Keys,
         NEW lo \in [Keys -> Int], NEW hi \in [Keys -> Int], Shape(N, tr, lo, hi),
         NEW x \in N, x # tr.root
  PROVE  /\ tr.parent[x] \in N
         /\ Above(N, lo, hi, x) = {x} \cup Above(N, lo, hi, tr.parent[x])
         /\ x \notin Above(N, lo, hi, tr.parent[x])
         /\ hi[x] - lo[x] < hi[tr.parent[x]] - lo[tr.parent[x]]
<1> DEFINE p == tr.parent[x]
<1>1. /\ Numbers(N, lo, hi) /\ LeftsHang(N, tr, lo, hi) /\ RightsHang(N, tr, lo, hi)
      /\ ParentsHold(N, tr) /\ Bounded(N, lo, hi) /\ Laminar(N, lo, hi)
  BY NumbersHold DEF Shape
<1>2. /\ p \in N
      /\ \/ lo[x] = lo[p] /\ hi[x] = p
         \/ lo[x] = p /\ hi[x] = hi[p]
  <2>1. p \in N /\ (x = tr.kid[p]["left"] \/ x = tr.kid[p]["right"])
    BY <1>1 DEF ParentsHold
  <2> QED
    BY <1>1, <2>1 DEF Numbers, LeftsHang, RightsHang
<1> HIDE DEF p
<1>3. \A q \in N : lo[q] < x /\ x < hi[q] => q = x \/ (lo[q] < p /\ p < hi[q])
  BY <1>1, <1>2 DEF Numbers, Bounded, Laminar
<1>4. \A q \in N : lo[q] < p /\ p < hi[q] => lo[q] < x /\ x < hi[q]
  BY <1>1, <1>2 DEF Numbers, Bounded, Laminar
<1>5. ~(lo[x] < p /\ p < hi[x]) /\ lo[x] < x /\ x < hi[x]
  BY <1>1, <1>2 DEF Numbers
<1>6. hi[x] - lo[x] < hi[p] - lo[p]
  BY <1>1, <1>2 DEF Numbers
<1> QED
  BY <1>2, <1>3, <1>4, <1>5, <1>6 DEF Above, p

(* One turn of what Reached adds up.                                       *)
Beside(A) == A \cup ({t.kid[n][s] : n \in A, s \in Sides} \ {Nil})

LEMMA ReachedGoes ==
  ASSUME MaxKey \in Nat, t \in Trees
  PROVE  \E g : /\ g \in [0 .. MaxKey -> SUBSET Ptr] /\ Reached = g[MaxKey]
                /\ g[0] = {t.root} \ {Nil}
                /\ \A i \in 0 .. MaxKey : i # MaxKey => g[i + 1] = Beside(g[i])
<1> DEFINE A0 == {t.root} \ {Nil}
           F(f) == [i \in 0 .. MaxKey |-> IF i = 0 THEN A0 ELSE Beside(f[i - 1])]
           from == CHOOSE f : f = F(f)
           step == [A \in SUBSET Ptr |-> Beside(A)]
<1>1. \A A \in SUBSET Ptr : Beside(A) \in SUBSET Ptr
  BY IsTree DEF Beside
<1>2. step \in [SUBSET Ptr -> SUBSET Ptr] /\ A0 \in SUBSET Ptr
  BY <1>1, IsTree
<1>3. PICK g \in [0 .. MaxKey -> SUBSET Ptr] : Iterate(g, A0, step, MaxKey)
  <2> HIDE DEF step, A0
  <2> QED
    BY <1>2, Iterates
<1> HIDE DEF A0
<1>4. g = F(g)
  <2>1. ASSUME NEW i \in 0 .. MaxKey
        PROVE  g[i] = F(g)[i]
    <3>1. CASE i = 0
      BY <1>3, <3>1 DEF Iterate
    <3>2. CASE i # 0
      <4>1. i - 1 \in 0 .. MaxKey
        BY <3>2
      <4>2. g[i] = step[g[i - 1]] /\ g[i - 1] \in SUBSET Ptr
        BY <1>3, <3>2, <4>1 DEF Iterate
      <4> QED
        BY <3>2, <4>2
    <3> QED
      BY <3>1, <3>2
  <2> QED
    BY <2>1
<1>5. from = F(from)
  BY <1>4
<1>6. Reached = from[MaxKey]
  BY DEF Reached, Beside, A0
<1> HIDE DEF from
<1>7. from[0] = A0
  BY <1>5
<1>8. \A i \in 0 .. MaxKey : i # MaxKey => from[i + 1] = Beside(from[i])
  <2> SUFFICES ASSUME NEW i \in 0 .. MaxKey, i # MaxKey PROVE from[i + 1] = Beside(from[i])
    OBVIOUS
  <2>1. i + 1 \in 0 .. MaxKey /\ i + 1 # 0 /\ i + 1 - 1 = i
    OBVIOUS
  <2>2. from[i + 1] = Beside(from[i + 1 - 1])
    BY <1>5, <2>1
  <2> QED
    BY <2>1, <2>2
<1>9. from \in [0 .. MaxKey -> SUBSET Ptr]
  <2> DEFINE H == {i \in 0 .. MaxKey : from[i] \in SUBSET Ptr}
  <2>1. 0 \in H
    BY <1>2, <1>7
  <2>2. ASSUME NEW i \in 0 .. MaxKey, i # MaxKey, i \in H PROVE i + 1 \in H
    <3>1. i + 1 \in 0 .. MaxKey /\ from[i + 1] = Beside(from[i])
      BY <2>2, <1>8
    <3> QED
      BY <1>1, <2>2, <3>1
  <2>3. from = [i \in 0 .. MaxKey |-> from[i]]
    BY <1>5
  <2> HIDE DEF H
  <2>4. \A i \in 0 .. MaxKey : i \in H
    BY <2>1, <2>2, Climb
  <2> QED
    BY <2>3, <2>4 DEF H
<1> QED
  BY <1>6, <1>7, <1>8, <1>9 DEF A0

(* Everything hangs in the tree, and nothing else does.                    *)
LEMMA ReachedIs ==
  ASSUME MaxKey \in Nat, t \in Trees, NEW N, N \subseteq Keys, Shaped(N, t)
  PROVE  Reached = N
<1>1. PICK lo \in [Keys -> Int], hi \in [Keys -> Int] : Shape(N, t, lo, hi)
  BY DEF Shaped
<1>2. PICK g : /\ g \in [0 .. MaxKey -> SUBSET Ptr] /\ Reached = g[MaxKey]
               /\ g[0] = {t.root} \ {Nil}
               /\ \A i \in 0 .. MaxKey : i # MaxKey => g[i + 1] = Beside(g[i])
  BY ReachedGoes
<1>3. Family(N, t) /\ Numbers(N, lo, hi)
  BY <1>1, ShapeFamily, NumbersHold
<1> DEFINE Wide(x, i) == hi[x] - lo[x] >= End - i
           On(i) == g[i] \subseteq N /\ \A x \in N : Wide(x, i) => x \in g[i]
           H == {i \in Nat : On(i)}
<1>4. On(0)
  <2>1. g[0] \subseteq N
    BY <1>2, <1>3 DEF Family, RootHolds
  <2>2. ASSUME NEW x \in N, Wide(x, 0) PROVE x \in g[0]
    <3>1. x = t.root
      <4> SUFFICES ASSUME x # t.root PROVE FALSE
        OBVIOUS
      <4>1. t.parent[x] \in N /\ hi[x] - lo[x] < hi[t.parent[x]] - lo[t.parent[x]]
        BY <1>1, AboveParent
      <4> QED
        BY <1>3, <2>2, <4>1 DEF Numbers
    <3> QED
      BY <1>2, <1>3, <3>1 DEF Numbers
  <2> QED
    BY <2>1, <2>2
<1>5. ASSUME NEW i \in 0 .. MaxKey, i # MaxKey, On(i)
      PROVE  On(i + 1)
  <2>1. g[i + 1] = Beside(g[i])
    BY <1>2, <1>5
  <2>2. g[i + 1] \subseteq N
    BY <1>3, <1>5, <2>1 DEF Beside, Family, KidsHold
  <2>3. ASSUME NEW x \in N, Wide(x, i + 1) PROVE x \in g[i + 1]
    <3>1. CASE x = t.root
      <4>2. lo[x] = 0 /\ hi[x] = End
        BY <1>1, <1>3, <3>1 DEF Shape, Rooted, Numbers
      <4>3. Wide(x, i)
        BY <1>3, <4>2 DEF Numbers
      <4> QED
        BY <1>5, <2>1, <4>3 DEF Beside
    <3>2. CASE x # t.root
      <4>1. t.parent[x] \in N /\ hi[x] - lo[x] < hi[t.parent[x]] - lo[t.parent[x]]
        BY <1>1, <3>2, AboveParent
      <4>2. PICK s \in Sides : t.kid[t.parent[x]][s] = x
        BY <1>3, <3>2 DEF Family, ParentsMatch
      <4>3. Wide(t.parent[x], i)
        BY <1>3, <2>3, <4>1 DEF Numbers
      <4>4. t.parent[x] \in g[i] /\ x # Nil
        BY <1>3, <1>5, <4>1, <4>3 DEF Numbers
      <4> QED
        BY <2>1, <4>2, <4>4 DEF Beside
    <3> QED
      BY <3>1, <3>2
  <2> QED
    BY <2>2, <2>3
<1> HIDE DEF On
<1>6. 0 \in H /\ \A i \in 0 .. MaxKey : i # MaxKey /\ i \in H => i + 1 \in H
  BY <1>4, <1>5
<1> HIDE DEF H
<1>7. \A i \in 0 .. MaxKey : i \in H
  BY <1>6, Climb
<1>8. On(MaxKey)
  BY <1>7 DEF H
<1>9. ASSUME NEW x \in N PROVE Wide(x, MaxKey)
  BY <1>3 DEF Numbers
<1> QED
  BY <1>2, <1>8, <1>9 DEF On

(* One turn of what Ancestors adds up.                                     *)
Upward(A) == A \cup ({t.parent[m] : m \in A} \ {Nil})

LEMMA AncestorsGo ==
  ASSUME MaxKey \in Nat, t \in Trees, NEW x \in Ptr
  PROVE  \E g : /\ g \in [0 .. MaxKey -> SUBSET Ptr] /\ Ancestors(x) = g[MaxKey]
                /\ g[0] = {x}
                /\ \A i \in 0 .. MaxKey : i # MaxKey => g[i + 1] = Upward(g[i])
<1> DEFINE A0 == {x}
           F(f) == [i \in 0 .. MaxKey |-> IF i = 0 THEN A0 ELSE Upward(f[i - 1])]
           up == CHOOSE f : f = F(f)
           step == [A \in SUBSET Ptr |-> Upward(A)]
<1>1. \A A \in SUBSET Ptr : Upward(A) \in SUBSET Ptr
  BY IsTree DEF Upward
<1>2. step \in [SUBSET Ptr -> SUBSET Ptr] /\ A0 \in SUBSET Ptr
  BY <1>1, IsTree
<1>3. PICK g \in [0 .. MaxKey -> SUBSET Ptr] : Iterate(g, A0, step, MaxKey)
  <2> HIDE DEF step, A0
  <2> QED
    BY <1>2, Iterates
<1> HIDE DEF A0
<1>4. g = F(g)
  <2>1. ASSUME NEW i \in 0 .. MaxKey
        PROVE  g[i] = F(g)[i]
    <3>1. CASE i = 0
      BY <1>3, <3>1 DEF Iterate
    <3>2. CASE i # 0
      <4>1. i - 1 \in 0 .. MaxKey
        BY <3>2
      <4>2. g[i] = step[g[i - 1]] /\ g[i - 1] \in SUBSET Ptr
        BY <1>3, <3>2, <4>1 DEF Iterate
      <4> QED
        BY <3>2, <4>2
    <3> QED
      BY <3>1, <3>2
  <2> QED
    BY <2>1
<1>5. up = F(up)
  BY <1>4
<1>6. Ancestors(x) = up[MaxKey]
  BY DEF Ancestors, Upward, A0
<1> HIDE DEF up
<1>7. up[0] = A0
  BY <1>5
<1>8. \A i \in 0 .. MaxKey : i # MaxKey => up[i + 1] = Upward(up[i])
  <2> SUFFICES ASSUME NEW i \in 0 .. MaxKey, i # MaxKey PROVE up[i + 1] = Upward(up[i])
    OBVIOUS
  <2>1. i + 1 \in 0 .. MaxKey /\ i + 1 # 0 /\ i + 1 - 1 = i
    OBVIOUS
  <2>2. up[i + 1] = Upward(up[i + 1 - 1])
    BY <1>5, <2>1
  <2> QED
    BY <2>1, <2>2
<1>9. up \in [0 .. MaxKey -> SUBSET Ptr]
  <2> DEFINE H == {i \in 0 .. MaxKey : up[i] \in SUBSET Ptr}
  <2>1. 0 \in H
    BY <1>2, <1>7
  <2>2. ASSUME NEW i \in 0 .. MaxKey, i # MaxKey, i \in H PROVE i + 1 \in H
    <3>1. i + 1 \in 0 .. MaxKey /\ up[i + 1] = Upward(up[i])
      BY <2>2, <1>8
    <3> QED
      BY <1>1, <2>2, <3>1
  <2>3. up = [i \in 0 .. MaxKey |-> up[i]]
    BY <1>5
  <2> HIDE DEF H
  <2>4. \A i \in 0 .. MaxKey : i \in H
    BY <2>1, <2>2, Climb
  <2> QED
    BY <2>3, <2>4 DEF H
<1> QED
  BY <1>6, <1>7, <1>8, <1>9 DEF A0

LEMMA AncestorsAre ==
  ASSUME MaxKey \in Nat, t \in Trees, NEW N, N \subseteq Keys,
         NEW lo \in [Keys -> Int], NEW hi \in [Keys -> Int], Shape(N, t, lo, hi),
         NEW x \in N
  PROVE  Ancestors(x) = Above(N, lo, hi, x)
<1> DEFINE S == Above(N, lo, hi, x)
           Width(m) == hi[m] - lo[m]
<1>1. PICK g : /\ g \in [0 .. MaxKey -> SUBSET Ptr] /\ Ancestors(x) = g[MaxKey]
               /\ g[0] = {x}
               /\ \A i \in 0 .. MaxKey : i # MaxKey => g[i + 1] = Upward(g[i])
  <2>1. x \in Ptr
    BY DEF Ptr
  <2> QED
    BY <2>1, AncestorsGo
<1>2. /\ Shaped(N, t) /\ Numbers(N, lo, hi) /\ Rooted(N, t, lo, hi) /\ Laminar(N, lo, hi)
  BY NumbersHold DEF Shaped, Shape
<1>3. RootHolds(N, t)
  BY <1>2, ShapeFamily DEF Family
<1>4. \A m \in N : m # t.root =>
         /\ t.parent[m] \in N
         /\ Above(N, lo, hi, m) = {m} \cup Above(N, lo, hi, t.parent[m])
         /\ Width(m) < Width(t.parent[m])
  <2> SUFFICES ASSUME NEW m \in N, m # t.root
               PROVE  /\ t.parent[m] \in N
                      /\ Above(N, lo, hi, m) = {m} \cup Above(N, lo, hi, t.parent[m])
                      /\ Width(m) < Width(t.parent[m])
    OBVIOUS
  <2>1. t.parent[m] \in N /\ hi[m] - lo[m] < hi[t.parent[m]] - lo[t.parent[m]]
    BY AboveParent
  <2>2. Above(N, lo, hi, m) = {m} \cup Above(N, lo, hi, t.parent[m])
    BY AboveParent
  <2> QED
    BY <2>1, <2>2
<1>5. S \subseteq N /\ x \in S /\ \A q \in N : q \in Above(N, lo, hi, q)
  BY <1>2 DEF Above, Numbers
<1> DEFINE Chain(m) == m \in S /\ Above(N, lo, hi, m) \subseteq S
           On(i) == /\ \A m \in g[i] : Chain(m)
                    /\ \/ S \subseteq g[i]
                       \/ \E m \in g[i] : /\ S \ Above(N, lo, hi, m) \subseteq g[i]
                                         /\ Width(m) >= i + 2
           H == {i \in Nat : On(i)}
<1>6. On(0)
  BY <1>1, <1>2, <1>5 DEF Numbers
<1>7. ASSUME NEW i \in 0 .. MaxKey, i # MaxKey, On(i)
      PROVE  On(i + 1)
  <2>1. g[i + 1] = Upward(g[i])
    BY <1>1, <1>7
  <2>2. \A m \in g[i + 1] : Chain(m)
    <3> SUFFICES ASSUME NEW m \in g[i + 1], m \notin g[i] PROVE Chain(m)
      BY <1>7
    <3>1. PICK y \in g[i] : m = t.parent[y] /\ m # Nil
      BY <2>1 DEF Upward
    <3>2. Chain(y) /\ y \in N
      BY <1>5, <1>7
    <3>3. y # t.root
      BY <1>3, <3>1, <3>2 DEF RootHolds
    <3>4. m \in N /\ Above(N, lo, hi, y) = {y} \cup Above(N, lo, hi, m)
      BY <1>4, <3>1, <3>2, <3>3
    <3>5. m \in Above(N, lo, hi, m)
      BY <1>5, <3>4
    <3> QED
      BY <3>2, <3>4, <3>5
  <2>3. \/ S \subseteq g[i + 1]
        \/ \E m \in g[i + 1] : /\ S \ Above(N, lo, hi, m) \subseteq g[i + 1]
                              /\ Width(m) >= (i + 1) + 2
    <3>1. g[i] \subseteq g[i + 1]
      BY <2>1 DEF Upward
    <3>2. CASE S \subseteq g[i]
      BY <3>1, <3>2
    <3>3. CASE ~(S \subseteq g[i])
      <4>1. PICK m \in g[i] : S \ Above(N, lo, hi, m) \subseteq g[i] /\ Width(m) >= i + 2
        BY <1>7, <3>3
      <4>2. m \in N
        BY <1>5, <1>7
      <4>3. CASE m = t.root
        <5>1. Above(N, lo, hi, m) \subseteq {m}
          BY <1>2, <4>2, <4>3 DEF Rooted, Above, Numbers, Laminar
        <5> QED
          BY <3>1, <4>1, <5>1
      <4>4. CASE m # t.root
        <5>1. /\ t.parent[m] \in N
              /\ Above(N, lo, hi, m) = {m} \cup Above(N, lo, hi, t.parent[m])
              /\ Width(m) < Width(t.parent[m])
          BY <1>4, <4>2, <4>4
        <5>2. t.parent[m] \in g[i + 1]
          BY <1>2, <2>1, <5>1 DEF Upward, Numbers
        <5>3. S \ Above(N, lo, hi, t.parent[m]) \subseteq g[i + 1]
          BY <3>1, <4>1, <5>1
        <5>4. Width(t.parent[m]) >= (i + 1) + 2
          BY <1>2, <4>1, <4>2, <5>1 DEF Numbers
        <5> QED
          BY <5>2, <5>3, <5>4
      <4> QED
        BY <4>3, <4>4
    <3> QED
      BY <3>2, <3>3
  <2> QED
    BY <2>2, <2>3
<1> HIDE DEF On
<1>8. 0 \in H /\ \A i \in 0 .. MaxKey : i # MaxKey /\ i \in H => i + 1 \in H
  BY <1>6, <1>7
<1> HIDE DEF H
<1>9. \A i \in 0 .. MaxKey : i \in H
  BY <1>8, Climb
<1>10. On(MaxKey)
  BY <1>9 DEF H
<1>11. g[MaxKey] \subseteq S
  BY <1>10 DEF On
<1>12. S \subseteq g[MaxKey]
  <2> SUFFICES ASSUME NEW m \in g[MaxKey], Width(m) >= MaxKey + 2 PROVE FALSE
    BY <1>10 DEF On
  <2>1. m \in N
    BY <1>5, <1>11
  <2> QED
    BY <1>2, <2>1 DEF Numbers
<1> QED
  BY <1>1, <1>11, <1>12

-----------------------------------------------------------------------------
(* BLACK HEIGHTS. bh counts the black nodes below a node: the same on both *)
(* sides, but for a node or an empty place that counts one more.           *)

(* v has the links of tr.                                                  *)
SameLinks(v, tr) == v.root = tr.root /\ v.kid = tr.kid /\ v.parent = tr.parent

LEMMA ShapeOfLinks ==
  ASSUME NEW N, NEW v, NEW tr, SameLinks(v, tr), Shaped(N, tr)
  PROVE  Shaped(N, v)
<1>1. PICK lo \in [Keys -> Int], hi \in [Keys -> Int] : Shape(N, tr, lo, hi)
  BY DEF Shaped
<1>2. Shape(N, v, lo, hi)
  BY <1>1 DEF Shape, SameLinks, Rooted, LeftsHang, RightsHang, ParentsHold, GapsEmpty
<1> QED
  BY <1>2 DEF Shaped

(* The links of u are those of tr after n sank to side s below up.         *)
Sunk(N, u, tr, n, s, up) ==
    /\ u.root = IF n = tr.root THEN up ELSE tr.root
    /\ \A x \in N \cup {Nil} :
          u.parent[x] = IF x = n THEN up
                        ELSE IF x = up THEN tr.parent[n]
                        ELSE IF x # Nil /\ x = tr.kid[up][s] THEN n
                        ELSE tr.parent[x]
    /\ \A x \in N : \A z \in Sides :
          u.kid[x][z] = IF x = n /\ z = Other(s) THEN tr.kid[up][s]
                        ELSE IF x = up /\ z = s THEN n
                        ELSE IF tr.kid[x][z] = n THEN up
                        ELSE tr.kid[x][z]

Sinks(N, u, tr, v, n, s, up) ==
    /\ up \in N /\ Sunk(N, u, tr, n, s, up)
    /\ Shaped(N, u) /\ u \in Trees /\ u.color = v.color /\ u.data = v.data

LEMMA RotateSinks ==
  ASSUME NEW N, N \subseteq Keys, MaxKey \in Nat, NEW tr \in Trees, Shaped(N, tr),
         NEW v \in Trees, SameLinks(v, tr),
         NEW n \in N, NEW s \in Sides, NEW up, up = tr.kid[n][Other(s)], up # Nil
  PROVE  Sinks(N, Rotate(v, n, s), tr, v, n, s, up)
<1> DEFINE u == Rotate(v, n, s)
<1>1. Shaped(N, v) /\ up = v.kid[n][Other(s)] /\ Family(N, tr)
  BY ShapeOfLinks, ShapeFamily DEF SameLinks
<1>2. up \in N /\ Turned(v, u, n, s, up, v.parent[n]) /\ Shaped(N, u)
  BY <1>1, RotateKeeps
<1> HIDE DEF u
<1>3. u \in Trees /\ u.color = v.color /\ u.data = v.data
  BY <1>2 DEF Turned
<1>4. /\ \A x \in N : x \in Ptr /\ x # Nil
      /\ Nil \in Ptr
  BY DEF Ptr, Keys, Nil
<1>5. /\ n = tr.root <=> tr.parent[n] = Nil
      /\ n # tr.root => tr.parent[n] \in N
  BY <1>1, <1>4 DEF Family, RootHolds, ParentsMatch
<1>6. Sunk(N, u, tr, n, s, up)
  <2>1. u.root = IF n = tr.root THEN up ELSE tr.root
    BY <1>2, <1>5 DEF Turned, SameLinks
  <2>2. \A x \in N \cup {Nil} :
          u.parent[x] = IF x = n THEN up
                        ELSE IF x = up THEN tr.parent[n]
                        ELSE IF x # Nil /\ x = tr.kid[up][s] THEN n
                        ELSE tr.parent[x]
    BY <1>2, <1>4 DEF Turned, SameLinks
  <2>3. ASSUME NEW x \in N, NEW z \in Sides
        PROVE  u.kid[x][z] = IF x = n /\ z = Other(s) THEN tr.kid[up][s]
                        ELSE IF x = up /\ z = s THEN n
                        ELSE IF tr.kid[x][z] = n THEN up
                        ELSE tr.kid[x][z]
    <3>1. u.kid[x][z] = IF x = n /\ z = Other(s) THEN tr.kid[up][s]
                        ELSE IF x = up /\ z = s THEN n
                        ELSE IF tr.parent[n] # Nil /\ x = tr.parent[n] /\ tr.kid[tr.parent[n]][z] = n THEN up
                        ELSE tr.kid[x][z]
      BY <1>2, <1>4 DEF Turned, SameLinks
    <3>2. tr.kid[x][z] = n => tr.parent[n] = x /\ x # Nil
      BY <1>1, <1>4 DEF Family, KidsHold
    <3> QED
      BY <3>1, <3>2
  <2> QED
    BY <2>1, <2>2, <2>3 DEF Sunk
<1> QED
  BY <1>2, <1>3, <1>6 DEF Sinks, u

Nobody == -1

(* A black node counts one, and one more the node c.                       *)
Weight(tr, x, c) ==
    (IF tr.color[x] = Black THEN 1 ELSE 0) + (IF x = c THEN 1 ELSE 0)

(* The count of a kid and below, when bh counts below a node.  An empty    *)
(* place has none, but for c's.                                            *)
Place(tr, bh, x, s, c) ==
    IF tr.kid[x][s] # Nil THEN bh[tr.kid[x][s]] + Weight(tr, tr.kid[x][s], c)
    ELSE IF c = Nil /\ x = tr.parent[Nil] /\ s = OnSide(tr, x, Nil) THEN 1 ELSE 0

Even(N, tr, bh, c) == \A x \in N : \A s \in Sides : bh[x] = Place(tr, bh, x, s, c)

Leveled(N, tr, c) == \E bh \in [Keys -> Nat] : Even(N, tr, bh, c)

(* n sinks below a red child, and the two exchange their colors: the counts*)
(* stay as they are.                                                       *)
LEMMA RedTurn ==
  ASSUME NEW N, N \subseteq Keys, MaxKey \in Nat, NEW tr, Family(N, tr), NEW u,
         NEW n \in N, NEW s \in Sides, NEW up \in N, up = tr.kid[n][Other(s)],
         Sunk(N, u, tr, n, s, up),
         NEW c, NEW bh \in [Keys -> Nat], Even(N, tr, bh, c),
         c # n, c # up, tr.color[up] = Red, u.color[n] = Red, u.color[up] = tr.color[n],
         \A x \in N : x # n /\ x # up => u.color[x] = tr.color[x],
         c = Nil => /\ tr.parent[Nil] # up
                    /\ tr.parent[Nil] = n => tr.kid[up][s] # Nil
  PROVE  Even(N, u, bh, c)
<1> DEFINE inner == tr.kid[up][s]
           o == Other(s)
<1>1. /\ s \in Sides /\ o \in Sides /\ o # s /\ \A z \in Sides : z = s \/ z = o
      /\ \A x \in N : x # Nil /\ bh[x] \in Nat
  BY DEF Sides, Other, Keys, Nil
<1>2. KidsHold(N, tr) /\ tr.parent[up] = n /\ up # n
  BY <1>1 DEF Family, KidsHold
<1>3. bh[n] = bh[up]
  BY <1>1 DEF Even, Place, Weight, Red, Black
<1>4. u.parent[Nil] = tr.parent[Nil]
  BY <1>1 DEF Sunk
<1>5. \A x \in N : x # n /\ x # up => Weight(u, x, c) = Weight(tr, x, c)
  BY DEF Weight
<1>6. Weight(u, n, c) = 0 /\ Weight(u, up, c) = Weight(tr, n, c)
  BY DEF Weight, Red, Black
<1>7. \A x \in N : \A z \in Sides :
          u.kid[x][z] = IF x = n /\ z = o THEN inner
                        ELSE IF x = up /\ z = s THEN n
                        ELSE IF tr.kid[x][z] = n THEN up
                        ELSE tr.kid[x][z]
  BY DEF Sunk
<1>8. /\ bh[up] = Place(tr, bh, up, s, c)
      /\ tr.parent[n] # up /\ inner # n /\ inner # up /\ (inner # Nil => inner \in N)
  <2>1. up # tr.root
    BY <1>1, <1>2 DEF Family, RootHolds
  <2>2. tr.parent[n] # up
    BY <1>2, <2>1 DEF Family, ParentsMatch
  <2>3. inner # Nil => inner \in N /\ tr.parent[inner] = up
    BY <1>1, <1>2 DEF KidsHold
  <2>4. inner # n /\ inner # up
    BY <1>1, <1>2, <2>2, <2>3
  <2> QED
    BY <2>2, <2>3, <2>4 DEF Even
<1> HIDE DEF inner, o
<1>9. ASSUME NEW x \in N, NEW z \in Sides
      PROVE  bh[x] = Place(u, bh, x, z, c)
  <2> DEFINE y == tr.kid[x][z]
  <2>0. bh[x] = Place(tr, bh, x, z, c)
    BY DEF Even
  <2>1. CASE x = n /\ z = o
    <3>1. u.kid[x][z] = inner
      BY <1>7, <2>1
    <3>2. CASE inner = Nil
      BY <1>1, <1>3, <1>4, <1>8, <2>1, <3>1, <3>2 DEF Place, inner
    <3>3. CASE inner # Nil
      BY <1>3, <1>5, <1>8, <2>1, <3>1, <3>3 DEF Place, inner
    <3> QED
      BY <3>2, <3>3
  <2>2. CASE x = up /\ z = s
    <3>1. u.kid[x][z] = n
      BY <1>1, <1>2, <1>7, <2>2
    <3>2. Place(u, bh, x, z, c) = bh[n] + 0 /\ bh[n] \in Nat
      BY <1>1, <1>6, <3>1 DEF Place
    <3> QED
      BY <1>3, <2>2, <3>2
  <2>3. CASE y = n
    <3>1. x # n /\ x # up /\ u.kid[x][z] = up
      <4>1. tr.parent[n] = x /\ x # n
        BY <1>1, <1>2, <2>3 DEF KidsHold
      <4> QED
        BY <1>7, <1>8, <2>3, <4>1
    <3> QED
      BY <1>1, <1>3, <1>6, <2>0, <2>3, <3>1 DEF Place
  <2>4. CASE y # n /\ y # Nil /\ ~(x = n /\ z = o) /\ ~(x = up /\ z = s)
    <3>1. u.kid[x][z] = y /\ y \in N /\ y # up
      <4>1. y \in N /\ tr.parent[y] = x /\ y # tr.kid[x][Other(z)]
        BY <1>2, <2>4 DEF KidsHold
      <4>2. y # up
        <5> SUFFICES ASSUME y = up PROVE FALSE
          OBVIOUS
        <5>1. x = n
          BY <1>2, <4>1
        <5>2. z = s /\ Other(z) = o
          BY <1>1, <2>4, <5>1 DEF o
        <5> QED
          BY <4>1, <5>1, <5>2 DEF o
      <4> QED
        BY <1>7, <2>4, <4>1, <4>2
    <3> QED
      BY <1>5, <2>0, <2>4, <3>1 DEF Place
  <2>5. CASE y = Nil /\ ~(x = n /\ z = o) /\ ~(x = up /\ z = s)
    <3>1. u.kid[x][z] = Nil
      BY <1>1, <1>7, <2>5
    <3> SUFFICES ASSUME c = Nil, x = tr.parent[Nil]
                 PROVE  OnSide(u, x, Nil) = OnSide(tr, x, Nil)
      BY <1>4, <2>0, <2>5, <3>1 DEF Place
    <3>2. x # up /\ (x = n => inner # Nil)
      BY DEF inner
    <3>3. u.kid[x]["left"] = Nil <=> tr.kid[x]["left"] = Nil
      BY <1>1, <1>7, <3>2 DEF Sides, o
    <3> QED
      BY <3>3 DEF OnSide
  <2> QED
    BY <2>1, <2>2, <2>3, <2>4, <2>5
<1> QED
  BY <1>9 DEF Even

LEMMA OneLess ==
  ASSUME NEW a \in Nat, NEW b \in Nat, a = b + 1
  PROVE  a - 1 = b
  OBVIOUS

LEMMA OneMore ==
  ASSUME NEW a \in Nat, NEW b \in Nat, NEW d \in Nat, a = b + 1, a = d + 1
  PROVE  b = d
  OBVIOUS

LEMMA TwoMore ==
  ASSUME NEW a \in Nat, NEW b \in Nat, NEW d \in Nat, a = b + 1, a = d + 2
  PROVE  b = d + 1
  OBVIOUS

(* The last turn of a removal: the brother sinks p in its place, takes its *)
(* color and leaves p and the far nephew black, and the missing count is   *)
(* made up for.                                                            *)
LastTurned(N, u, tr, p, s, brother, near, far, c) ==
    /\ brother = tr.kid[p][Other(s)] /\ near = tr.kid[brother][s]
    /\ far = tr.kid[brother][Other(s)] /\ c = tr.kid[p][s]
    /\ Sunk(N, u, tr, p, s, brother)
    /\ c = Nil => tr.parent[Nil] = p /\ s = OnSide(tr, p, Nil)
    /\ tr.color[brother] = Black /\ tr.color[far] = Red
    /\ c # Nil => tr.color[c] = Black
    /\ u.color[p] = Black /\ u.color[far] = Black /\ u.color[brother] = tr.color[p]
    /\ \A x \in N : x # p /\ x # far /\ x # brother => u.color[x] = tr.color[x]

LEMMA LastTurn ==
  ASSUME NEW N, N \subseteq Keys, MaxKey \in Nat, NEW tr, Family(N, tr), NEW u,
         NEW p \in N, NEW s \in Sides, NEW brother \in N, NEW far \in N, NEW near, NEW c,
         LastTurned(N, u, tr, p, s, brother, near, far, c), Leveled(N, tr, c)
  PROVE  Leveled(N, u, Nobody)
<1>0. PICK bh \in [Keys -> Nat] : Even(N, tr, bh, c)
  BY DEF Leveled
<1> DEFINE o == Other(s)
           bh2 == [bh EXCEPT ![p] = bh[p] - 1, ![brother] = bh[p]]
<1>10. /\ brother = tr.kid[p][o] /\ near = tr.kid[brother][s]
       /\ far = tr.kid[brother][o] /\ c = tr.kid[p][s]
  BY DEF LastTurned
<1>11. /\ tr.color[brother] = Black /\ tr.color[far] = Red
       /\ c # Nil => tr.color[c] = Black
       /\ u.color[p] = Black /\ u.color[far] = Black /\ u.color[brother] = tr.color[p]
       /\ \A x \in N : x # p /\ x # far /\ x # brother => u.color[x] = tr.color[x]
  BY DEF LastTurned
<1>12. c = Nil => tr.parent[Nil] = p /\ s = OnSide(tr, p, Nil)
  BY DEF LastTurned
<1>1. /\ s \in Sides /\ o \in Sides /\ o # s /\ \A z \in Sides : z = s \/ z = o
      /\ \A x \in N : x # Nil /\ bh[x] \in Nat /\ x # Nobody /\ x \in Keys
      /\ Nil # Nobody
  <2>1. s \in Sides /\ o \in Sides /\ o # s /\ \A z \in Sides : z = s \/ z = o
    BY DEF Sides, Other
  <2>2. \A x \in N : x \in Keys /\ bh[x] \in Nat
    OBVIOUS
  <2>3. \A x \in Keys : x # Nil /\ x # Nobody
    BY DEF Keys, Nil, Nobody
  <2>4. Nil # Nobody
    BY DEF Nil, Nobody
  <2> QED
    BY <2>1, <2>2, <2>3, <2>4
<1>13. KidsHold(N, tr) /\ KidsUp(N, tr)
  BY KidsAreUp DEF Family
<1>2. tr.parent[brother] = p /\ brother # p /\ tr.parent[far] = brother /\ far # brother
  BY <1>1, <1>10, <1>13 DEF KidsUp
<1>3. /\ tr.parent[p] # brother /\ far # p /\ near # p /\ near # brother /\ near # far
      /\ near # Nil => near \in N /\ tr.parent[near] = brother
  <2>1. brother # tr.root
    BY <1>1, <1>2, <1>10 DEF Family, RootHolds
  <2>2. tr.parent[p] # brother
    BY <1>2, <2>1 DEF Family, ParentsMatch
  <2>3. near # Nil => near \in N /\ tr.parent[near] = brother /\ near # tr.kid[brother][o]
    <3>1. tr.kid[brother][s] # Nil =>
              /\ tr.kid[brother][s] \in N /\ tr.parent[tr.kid[brother][s]] = brother
              /\ tr.kid[brother][s] # tr.kid[brother][o]
      BY <1>13 DEF KidsHold
    <3> QED
      BY <1>10, <3>1
  <2>4. near # p /\ near # brother /\ near # far
    BY <1>1, <1>2, <1>10, <2>2, <2>3
  <2> QED
    BY <1>2, <2>2, <2>3, <2>4
<1>4. c # p /\ c # brother /\ c # far /\ (c # Nil => c \in N /\ tr.parent[c] = p /\ c # near)
  <2>1. c # Nil => c \in N /\ tr.parent[c] = p /\ c # tr.kid[p][o] /\ c # p
    <3>1. c # Nil => c \in N /\ tr.parent[c] = p /\ c # p
      BY <1>1, <1>10, <1>13 DEF KidsUp
    <3>2. c # Nil => c # tr.kid[p][o]
      BY <1>10, <1>13 DEF KidsHold
    <3> QED
      BY <3>1, <3>2
  <2> QED
    BY <1>1, <1>2, <1>3, <1>10, <2>1
<1>5. /\ bh[p] = bh[brother] + 1
      /\ bh[brother] = bh[far]
      /\ near # Nil => bh[brother] = bh[near] + Weight(tr, near, c)
      /\ near = Nil => bh[brother] = 0
      /\ c # Nil => bh[p] = bh[c] + 2
      /\ c = Nil => bh[p] = 1
  <2>1. bh[p] = Place(tr, bh, p, o, c) /\ bh[p] = Place(tr, bh, p, s, c)
    BY <1>0, <1>1 DEF Even
  <2>2. bh[brother] = Place(tr, bh, brother, o, c) /\ bh[brother] = Place(tr, bh, brother, s, c)
    BY <1>0, <1>1 DEF Even
  <2>3. bh[p] = bh[brother] + 1
    <3>1. Place(tr, bh, p, o, c) = bh[brother] + Weight(tr, brother, c)
      BY <1>1, <1>10 DEF Place
    <3>2. Weight(tr, brother, c) = 1
      BY <1>4, <1>11 DEF Weight
    <3> QED
      BY <2>1, <3>1, <3>2
  <2>4. bh[brother] = bh[far]
    <3>1. bh[brother] = bh[far] + Weight(tr, far, c)
      BY <1>1, <1>10, <2>2 DEF Place
    <3>2. Weight(tr, far, c) = 0
      BY <1>4, <1>11 DEF Weight, Red, Black
    <3>3. bh[far] \in Nat
      BY <1>1
    <3> QED
      BY <3>1, <3>2, <3>3
  <2>5. near # Nil => bh[brother] = bh[near] + Weight(tr, near, c)
    BY <1>10, <2>2 DEF Place
  <2>6. near = Nil => bh[brother] = 0
    <3>1. ASSUME c = Nil PROVE tr.parent[Nil] # brother
      BY <1>2, <1>12, <3>1
    <3> QED
      BY <1>10, <2>2, <3>1 DEF Place
  <2>7. c # Nil => bh[p] = bh[c] + 2
    <3> SUFFICES ASSUME c # Nil PROVE bh[p] = bh[c] + 2
      OBVIOUS
    <3>1. Place(tr, bh, p, s, c) = bh[c] + Weight(tr, c, c)
      BY <1>10 DEF Place
    <3>2. Weight(tr, c, c) = 2
      BY <1>11 DEF Weight
    <3> QED
      BY <2>1, <3>1, <3>2
  <2>8. c = Nil => bh[p] = 1
    BY <1>10, <1>12, <2>1 DEF Place
  <2> QED
    BY <2>3, <2>4, <2>5, <2>6, <2>7, <2>8
<1>6. /\ bh2 \in [Keys -> Nat]
      /\ \A x \in N : bh2[x] = IF x = brother THEN bh[p] ELSE IF x = p THEN bh[p] - 1 ELSE bh[x]
  <2>1. bh[p] \in Nat /\ bh[brother] \in Nat /\ bh[p] = bh[brother] + 1
    BY <1>1, <1>5
  <2>2. bh[p] - 1 \in Nat
    BY <2>1
  <2> QED
    BY <1>1, <1>2, <2>1, <2>2
<1>7. /\ \A x \in N : x # p /\ x # far /\ x # brother /\ x # c => Weight(u, x, Nobody) = Weight(tr, x, c)
      /\ Weight(u, p, Nobody) = 1 /\ Weight(u, far, Nobody) = 1
      /\ Weight(u, brother, Nobody) = Weight(tr, p, c)
      /\ c # Nil => Weight(u, c, Nobody) = 1
  BY <1>1, <1>4, <1>11 DEF Weight
<1>8. \A x \in N : \A z \in Sides :
          u.kid[x][z] = IF x = p /\ z = o THEN near
                        ELSE IF x = brother /\ z = s THEN p
                        ELSE IF tr.kid[x][z] = p THEN brother
                        ELSE tr.kid[x][z]
  <2>1. Sunk(N, u, tr, p, s, brother)
    BY DEF LastTurned
  <2> QED
    BY <1>10, <2>1 DEF Sunk
<1> HIDE DEF o, bh2
<1>9. ASSUME NEW x \in N, NEW z \in Sides
      PROVE  bh2[x] = Place(u, bh2, x, z, Nobody)
  <2> DEFINE y == tr.kid[x][z]
  <2>0. /\ bh[p] \in Nat /\ bh[brother] \in Nat /\ bh[far] \in Nat /\ bh[x] \in Nat
        /\ bh[p] = bh[brother] + 1 /\ bh[brother] = bh[far]
        /\ bh2[p] = bh[brother] /\ bh2[brother] = bh[p] /\ bh2[far] = bh[far]
        /\ x # Nil /\ x # Nobody /\ p # Nil /\ brother # Nil /\ far # Nil
    <3>1. /\ bh[p] \in Nat /\ bh[brother] \in Nat /\ bh[far] \in Nat /\ bh[x] \in Nat
          /\ x # Nil /\ x # Nobody /\ p # Nil /\ brother # Nil /\ far # Nil
      BY <1>1
    <3>2. bh[p] = bh[brother] + 1 /\ bh[brother] = bh[far]
      BY <1>5
    <3>3. bh2[p] = bh[p] - 1 /\ bh2[brother] = bh[p] /\ bh2[far] = bh[far]
      BY <1>2, <1>3, <1>6
    <3>4. bh[p] - 1 = bh[brother]
      BY <3>1, <3>2, OneLess
    <3>5. bh2[p] = bh[brother]
      BY <3>3, <3>4
    <3> QED
      BY <3>1, <3>2, <3>3, <3>5
  <2>1. bh[x] = Place(tr, bh, x, z, c)
    BY <1>0 DEF Even
  <2>2. CASE x = p /\ z = o
    <3>1. u.kid[x][z] = near
      BY <1>8, <2>2
    <3>2. CASE near = Nil
      <4>1. bh[brother] = 0
        BY <1>5, <3>2
      <4>2. Place(u, bh2, x, z, Nobody) = 0
        BY <1>1, <3>1, <3>2 DEF Place
      <4> QED
        BY <2>0, <2>2, <4>1, <4>2
    <3>3. CASE near # Nil
      <4>1. Weight(u, near, Nobody) = Weight(tr, near, c) /\ bh2[near] = bh[near]
        BY <1>3, <1>4, <1>6, <1>7, <3>3
      <4> QED
        <5>1. Place(u, bh2, x, z, Nobody) = bh[near] + Weight(tr, near, c)
          BY <3>1, <3>3, <4>1 DEF Place
        <5>2. bh[brother] = bh[near] + Weight(tr, near, c)
          BY <1>5, <3>3
        <5> QED
          BY <2>0, <2>2, <5>1, <5>2
    <3> QED
      BY <3>2, <3>3
  <2>3. CASE x = p /\ z = s
    <3>1. u.kid[x][z] = c
      BY <1>1, <1>2, <1>4, <1>8, <1>10, <2>3
    <3>2. CASE c = Nil
      <4>1. bh[p] = 1
        BY <1>5, <3>2
      <4>2. Place(u, bh2, x, z, Nobody) = 0
        BY <1>1, <3>1, <3>2 DEF Place
      <4>3. bh[brother] = 0
        <5>1. bh[p] = 0 + 1 /\ 0 \in Nat
          BY <4>1
        <5> QED
          BY <2>0, <5>1, OneMore
      <4> QED
        BY <2>0, <2>3, <4>2, <4>3
    <3>3. CASE c # Nil
      <4>1. bh2[c] = bh[c] /\ bh[c] \in Nat
        BY <1>1, <1>4, <1>6, <3>3
      <4> QED
        <5>1. Place(u, bh2, x, z, Nobody) = bh[c] + 1
          BY <1>7, <3>1, <3>3, <4>1 DEF Place
        <5>2. bh[p] = bh[c] + 2
          BY <1>5, <3>3
        <5>3. bh[brother] = bh[c] + 1
          BY <2>0, <4>1, <5>2, TwoMore
        <5> QED
          BY <2>0, <2>3, <5>1, <5>3
    <3> QED
      BY <3>2, <3>3
  <2>4. CASE x = brother /\ z = s
    <3>1. u.kid[x][z] = p
      BY <1>1, <1>2, <1>8, <2>4
    <3>2. Place(u, bh2, x, z, Nobody) = bh2[p] + 1
      BY <1>7, <2>0, <3>1 DEF Place
    <3> QED
      BY <2>0, <2>4, <3>2
  <2>5. CASE x = brother /\ z = o
    <3>1. u.kid[x][z] = far
      BY <1>1, <1>2, <1>3, <1>8, <1>10, <2>5
    <3>2. bh2[far] = bh[far]
      BY <1>2, <1>3, <1>6
    <3> QED
      BY <1>1, <1>2, <1>5, <1>6, <1>7, <2>5, <3>1, <3>2 DEF Place
  <2>6. CASE x # p /\ x # brother /\ y = p
    <3>1. u.kid[x][z] = brother
      BY <1>1, <1>2, <1>8, <2>6
    <3>2. Place(u, bh2, x, z, Nobody) = bh2[brother] + Weight(tr, p, c)
      BY <1>7, <2>0, <3>1 DEF Place
    <3>3. bh[x] = bh[p] + Weight(tr, p, c)
      BY <2>0, <2>1, <2>6 DEF Place
    <3>4. bh2[x] = bh[x]
      BY <1>6, <2>6
    <3> QED
      BY <2>0, <3>2, <3>3, <3>4
  <2>7. CASE x # p /\ x # brother /\ y # p
    <3>1. u.kid[x][z] = y
      BY <1>8, <2>7
    <3>2. CASE y = Nil
      <4>1. bh[x] = 0
        <5>1. ~(c = Nil /\ x = tr.parent[Nil])
          BY <1>12, <2>7
        <5> QED
          BY <2>1, <3>2, <5>1 DEF Place
      <4> QED
        BY <1>1, <1>6, <2>7, <3>1, <3>2, <4>1 DEF Place
    <3>3. CASE y # Nil
      <4>1. y \in N /\ tr.parent[y] = x
        BY <1>13, <3>3 DEF KidsUp
      <4>2. y # brother /\ y # far /\ y # c
        BY <1>1, <1>2, <1>4, <1>10, <2>7, <3>3, <4>1
      <4>3. Weight(u, y, Nobody) = Weight(tr, y, c) /\ bh2[y] = bh[y]
        BY <1>6, <1>7, <2>7, <4>1, <4>2
      <4> QED
        BY <1>6, <2>1, <2>7, <3>1, <3>3, <4>3 DEF Place
    <3> QED
      BY <3>2, <3>3
  <2> QED
    BY <1>1, <2>2, <2>3, <2>4, <2>5, <2>6, <2>7
<1> QED
  BY <1>6, <1>9 DEF Even, Leveled

(* Case 1 of an insertion: p and its brother turn black and g red, and the *)
(* count below g grows by one.                                             *)
LEMMA Recolor ==
  ASSUME NEW N, N \subseteq Keys, MaxKey \in Nat, NEW tr, Family(N, tr), NEW u, SameLinks(u, tr),
         NEW g \in N, NEW s \in Sides, NEW p \in N, p = tr.kid[g][s],
         NEW uncle \in N, uncle = tr.kid[g][Other(s)],
         NEW bh \in [Keys -> Nat], Even(N, tr, bh, Nobody),
         tr.color[g] = Black, tr.color[p] = Red, tr.color[uncle] = Red,
         u.color[g] = Red, u.color[p] = Black, u.color[uncle] = Black,
         \A x \in N : x # g /\ x # p /\ x # uncle => u.color[x] = tr.color[x]
  PROVE  Leveled(N, u, Nobody)
<1> DEFINE o == Other(s)
           bh2 == [bh EXCEPT ![g] = bh[g] + 1]
<1>1. /\ s \in Sides /\ o \in Sides /\ o # s /\ \A z \in Sides : z = s \/ z = o
      /\ \A x \in N : x # Nil /\ bh[x] \in Nat /\ x # Nobody /\ x \in Keys
      /\ Nil # Nobody
  <2>1. s \in Sides /\ o \in Sides /\ o # s /\ \A z \in Sides : z = s \/ z = o
    BY DEF Sides, Other
  <2>2. \A x \in N : x \in Keys /\ bh[x] \in Nat
    OBVIOUS
  <2>3. \A x \in Keys : x # Nil /\ x # Nobody
    BY DEF Keys, Nil, Nobody
  <2>4. Nil # Nobody
    BY DEF Nil, Nobody
  <2> QED
    BY <2>1, <2>2, <2>3, <2>4
<1>2. /\ KidsHold(N, tr) /\ p # g /\ uncle # g /\ tr.parent[p] = g /\ tr.parent[uncle] = g
      /\ p # uncle
  BY <1>1 DEF Family, KidsHold
<1>3. bh[g] = bh[p] /\ bh[g] = bh[uncle]
  <2>1. bh[g] = bh[p] + Weight(tr, p, Nobody) /\ bh[g] = bh[uncle] + Weight(tr, uncle, Nobody)
    BY <1>1 DEF Even, Place
  <2>2. Weight(tr, p, Nobody) = 0 /\ Weight(tr, uncle, Nobody) = 0
    BY <1>1 DEF Weight, Red, Black
  <2> QED
    BY <1>1, <2>1, <2>2
<1>4. /\ bh2 \in [Keys -> Nat]
      /\ \A x \in N : bh2[x] = IF x = g THEN bh[g] + 1 ELSE bh[x]
  <2>1. bh[g] + 1 \in Nat
    BY <1>1
  <2> QED
    BY <1>1, <2>1
<1>5. /\ Weight(u, g, Nobody) = 0 /\ Weight(tr, g, Nobody) = 1
      /\ Weight(u, p, Nobody) = 1 /\ Weight(u, uncle, Nobody) = 1
      /\ \A x \in N : x # g /\ x # p /\ x # uncle => Weight(u, x, Nobody) = Weight(tr, x, Nobody)
  BY <1>1 DEF Weight, Red, Black
<1>6. u.kid = tr.kid
  BY DEF SameLinks
<1> HIDE DEF o, bh2
<1>7. ASSUME NEW x \in N, NEW z \in Sides
      PROVE  bh2[x] = Place(u, bh2, x, z, Nobody)
  <2> DEFINE y == tr.kid[x][z]
  <2>1. bh[x] = Place(tr, bh, x, z, Nobody)
    BY DEF Even
  <2>2. CASE x = g
    <3>1. y \in {p, uncle}
      BY <1>1, <2>2 DEF o
    <3>2. bh2[y] = bh[g] /\ Weight(u, y, Nobody) = 1 /\ y # Nil
      <4>1. y \in N /\ y # g /\ y # Nil /\ bh[y] = bh[g]
        BY <1>1, <1>2, <1>3, <3>1
      <4> QED
        BY <1>4, <1>5, <3>1, <4>1
    <3>3. Place(u, bh2, x, z, Nobody) = bh[g] + 1
      BY <1>6, <3>2 DEF Place
    <3> QED
      BY <1>4, <2>2, <3>3
  <2>3. CASE x # g /\ y = g
    <3>1. bh[x] = bh[g] + 1
      BY <1>1, <1>5, <2>1, <2>3 DEF Place
    <3>2. Place(u, bh2, x, z, Nobody) = (bh[g] + 1) + 0
      BY <1>1, <1>4, <1>5, <1>6, <2>3 DEF Place
    <3>3. bh[g] \in Nat
      BY <1>1
    <3> QED
      BY <1>4, <2>3, <3>1, <3>2, <3>3
  <2>4. CASE x # g /\ y # g /\ y # Nil
    <3>1. y \in N /\ tr.parent[y] = x
      BY <1>2, <2>4 DEF KidsHold
    <3>2. bh2[y] = bh[y] /\ Weight(u, y, Nobody) = Weight(tr, y, Nobody)
      BY <1>2, <1>4, <1>5, <2>4, <3>1
    <3>3. Place(u, bh2, x, z, Nobody) = Place(tr, bh, x, z, Nobody)
      BY <1>6, <2>4, <3>2 DEF Place
    <3> QED
      BY <1>4, <2>1, <2>4, <3>3
  <2>5. CASE x # g /\ y = Nil
    BY <1>1, <1>4, <1>6, <2>1, <2>5 DEF Place
  <2> QED
    BY <2>2, <2>3, <2>4, <2>5
<1> QED
  BY <1>4, <1>7 DEF Even, Leveled

(* Case 2 of a removal: the brother turns red and the missing count is     *)
(* passed to the parent.                                                   *)
LEMMA PassUp ==
  ASSUME NEW N, N \subseteq Keys, MaxKey \in Nat, NEW tr, Family(N, tr), NEW u, SameLinks(u, tr),
         NEW p \in N, NEW s \in Sides, NEW brother \in N, brother = tr.kid[p][Other(s)],
         NEW c, c = tr.kid[p][s], c = Nil => tr.parent[Nil] = p /\ s = OnSide(tr, p, Nil),
         NEW bh \in [Keys -> Nat], Even(N, tr, bh, c),
         tr.color[brother] = Black, u.color[brother] = Red,
         c = Nil \/ tr.color[c] = Black,
         \A x \in N : x # brother => u.color[x] = tr.color[x]
  PROVE  Leveled(N, u, p)
<1> DEFINE o == Other(s)
           bh2 == [bh EXCEPT ![p] = bh[p] - 1]
<1>1. /\ s \in Sides /\ o \in Sides /\ o # s /\ \A z \in Sides : z = s \/ z = o
      /\ \A x \in N : x # Nil /\ bh[x] \in Nat /\ x \in Keys
  BY DEF Sides, Other, Keys, Nil
<1>2. /\ KidsHold(N, tr) /\ p # brother /\ tr.parent[brother] = p
      /\ brother # c /\ c # p
      /\ c # Nil => c \in N /\ tr.parent[c] = p
  BY <1>1 DEF Family, KidsHold
<1>3. bh[p] = bh[brother] + 1
  <2>1. bh[p] = bh[brother] + Weight(tr, brother, c)
    BY <1>1 DEF Even, Place
  <2>2. Weight(tr, brother, c) = 1
    BY <1>2 DEF Weight, Red, Black
  <2> QED
    BY <1>1, <2>1, <2>2
<1>4. /\ bh2 \in [Keys -> Nat]
      /\ bh2[p] = bh[brother]
      /\ \A x \in N : x # p => bh2[x] = bh[x]
  <2>1. bh[p] \in Nat /\ bh[brother] \in Nat
    BY <1>1
  <2>2. bh[p] - 1 = bh[brother]
    BY <1>3, <2>1, OneLess
  <2> QED
    BY <1>1, <2>1, <2>2
<1>5. /\ Weight(u, brother, p) = 0
      /\ Weight(u, p, p) = Weight(tr, p, c) + 1
      /\ c # Nil => Weight(tr, c, c) = 2 /\ Weight(u, c, p) = 1
      /\ \A x \in N : x # c /\ x # p /\ x # brother => Weight(u, x, p) = Weight(tr, x, c)
  BY <1>1, <1>2 DEF Weight, Red, Black
<1>6. u.kid = tr.kid
  BY DEF SameLinks
<1>7. Weight(tr, p, c) \in Nat
  BY DEF Weight
<1> HIDE DEF o, bh2
<1>8. ASSUME NEW x \in N, NEW z \in Sides
      PROVE  bh2[x] = Place(u, bh2, x, z, p)
  <2> DEFINE y == tr.kid[x][z]
  <2>0. bh[x] \in Nat /\ bh[p] \in Nat /\ bh[brother] \in Nat /\ p # Nil /\ brother # Nil
    BY <1>1
  <2>1. bh[x] = Place(tr, bh, x, z, c)
    BY DEF Even
  <2>2. CASE x = p /\ z = o
    <3>1. u.kid[x][z] = brother
      BY <1>6, <2>2 DEF o
    <3>2. Place(u, bh2, x, z, p) = bh2[brother] + 0
      BY <1>5, <2>0, <3>1 DEF Place
    <3>3. bh2[brother] = bh[brother]
      BY <1>2, <1>4
    <3> QED
      BY <1>4, <2>0, <2>2, <3>2, <3>3
  <2>3. CASE x = p /\ z = s /\ c = Nil
    <3>1. bh[p] = 0 + 1 /\ 0 \in Nat
      BY <2>1, <2>3 DEF Place
    <3>2. bh[brother] = 0
      BY <1>3, <2>0, <3>1, OneMore
    <3>3. Place(u, bh2, x, z, p) = 0
      BY <1>6, <2>0, <2>3 DEF Place
    <3> QED
      BY <1>4, <2>3, <3>2, <3>3
  <2>4. CASE x = p /\ z = s /\ c # Nil
    <3>1. bh[p] = bh[c] + 2
      BY <1>5, <2>1, <2>4 DEF Place
    <3>2. bh[c] \in Nat
      BY <1>1, <1>2, <2>4
    <3>3. bh[brother] = bh[c] + 1
      BY <1>3, <2>0, <3>1, <3>2, TwoMore
    <3>4. bh2[c] = bh[c]
      BY <1>2, <1>4, <2>4
    <3>5. Place(u, bh2, x, z, p) = bh[c] + 1
      BY <1>5, <1>6, <2>4, <3>4 DEF Place
    <3> QED
      BY <1>4, <2>4, <3>3, <3>5
  <2>5. CASE x # p /\ y = p
    <3>1. bh[x] = (bh[brother] + 1) + Weight(tr, p, c)
      BY <1>3, <2>0, <2>1, <2>5 DEF Place
    <3>2. Place(u, bh2, x, z, p) = bh[brother] + (Weight(tr, p, c) + 1)
      BY <1>4, <1>5, <1>6, <2>0, <2>5 DEF Place
    <3>3. bh2[x] = bh[x]
      BY <1>4, <2>5
    <3> QED
      BY <1>7, <2>0, <3>1, <3>2, <3>3
  <2>6. CASE x # p /\ y # p /\ y # Nil
    <3>1. y \in N /\ tr.parent[y] = x
      BY <1>2, <2>6 DEF KidsHold
    <3>2. bh2[y] = bh[y] /\ Weight(u, y, p) = Weight(tr, y, c)
      BY <1>2, <1>4, <1>5, <2>6, <3>1
    <3>3. Place(u, bh2, x, z, p) = Place(tr, bh, x, z, c)
      BY <1>6, <2>6, <3>2 DEF Place
    <3> QED
      BY <1>4, <2>1, <2>6, <3>3
  <2>7. CASE x # p /\ y = Nil
    <3>1. bh[x] = 0
      BY <2>1, <2>7 DEF Place
    <3>2. Place(u, bh2, x, z, p) = 0
      BY <1>6, <2>0, <2>7 DEF Place
    <3> QED
      BY <1>4, <2>7, <3>1, <3>2
  <2> QED
    BY <1>1, <2>2, <2>3, <2>4, <2>5, <2>6, <2>7
<1> QED
  BY <1>4, <1>8 DEF Even, Leveled

(* The root is no kid: its color does not matter, nor whether it counts    *)
(* one more.                                                               *)
LEMMA RootCounts ==
  ASSUME NEW N, N \subseteq Keys, MaxKey \in Nat, NEW tr, Family(N, tr), NEW u, SameLinks(u, tr),
         NEW c \in {Nobody, tr.root}, NEW c2 \in {Nobody, tr.root},
         Leveled(N, tr, c),
         \A x \in N : x # tr.root => u.color[x] = tr.color[x]
  PROVE  Leveled(N, u, c2)
<1>1. PICK bh \in [Keys -> Nat] : Even(N, tr, bh, c)
  BY DEF Leveled
<1>2. Nil # Nobody /\ \A x \in N : x # Nobody /\ x # Nil
  BY DEF Nil, Nobody, Keys
<1>3. u.kid = tr.kid
  BY DEF SameLinks
<1>4. ASSUME NEW x \in N, NEW z \in Sides
      PROVE  bh[x] = Place(u, bh, x, z, c2)
  <2>1. tr.root # Nil /\ tr.parent[tr.root] = Nil
    BY DEF Family, RootHolds
  <2>2. c # Nil /\ c2 # Nil
    BY <1>2, <2>1
  <2>3. bh[x] = Place(tr, bh, x, z, c)
    BY <1>1 DEF Even
  <2>4. CASE tr.kid[x][z] = Nil
    BY <1>3, <2>2, <2>3, <2>4 DEF Place
  <2>5. CASE tr.kid[x][z] # Nil
    <3> DEFINE y == tr.kid[x][z]
    <3>1. y \in N /\ y # tr.root
      BY <1>2, <2>1, <2>5 DEF Family, KidsHold
    <3>2. Weight(u, y, c2) = Weight(tr, y, c)
      BY <1>2, <3>1 DEF Weight
    <3> QED
      BY <1>3, <2>3, <2>5, <3>2 DEF Place
  <2> QED
    BY <2>4, <2>5
<1> QED
  BY <1>1, <1>4 DEF Even, Leveled

(* The missing count of a red node is made up for by painting it black.    *)
LEMMA RedCounts ==
  ASSUME NEW N, N \subseteq Keys, MaxKey \in Nat, NEW tr, Family(N, tr), NEW u, SameLinks(u, tr),
         NEW c \in N, Leveled(N, tr, c), tr.color[c] = Red, u.color[c] = Black,
         \A x \in N : x # c => u.color[x] = tr.color[x]
  PROVE  Leveled(N, u, Nobody)
<1>1. PICK bh \in [Keys -> Nat] : Even(N, tr, bh, c)
  BY DEF Leveled
<1>2. Nil # Nobody /\ \A x \in N : x # Nobody /\ x # Nil
  BY DEF Nil, Nobody, Keys
<1>3. u.kid = tr.kid
  BY DEF SameLinks
<1>4. ASSUME NEW x \in N, NEW z \in Sides
      PROVE  bh[x] = Place(u, bh, x, z, Nobody)
  <2>3. bh[x] = Place(tr, bh, x, z, c)
    BY <1>1 DEF Even
  <2>4. CASE tr.kid[x][z] = Nil
    BY <1>2, <1>3, <2>3, <2>4 DEF Place
  <2>5. CASE tr.kid[x][z] # Nil
    <3> DEFINE y == tr.kid[x][z]
    <3>1. y \in N
      BY <2>5 DEF Family, KidsHold
    <3>2. Weight(u, y, Nobody) = Weight(tr, y, c)
      BY <1>2, <3>1 DEF Weight, Red, Black
    <3> QED
      BY <1>3, <2>3, <2>5, <3>2 DEF Place
  <2> QED
    BY <2>4, <2>5
<1> QED
  BY <1>1, <1>4 DEF Even, Leveled

(* A red leaf counts nothing.                                              *)
LEMMA LeafCounts ==
  ASSUME NEW N, N \subseteq Keys, MaxKey \in Nat, NEW tr, Family(N, tr), NEW u,
         NEW k \in Keys, k \notin N, NEW par \in N, NEW s \in Sides, tr.kid[par][s] = Nil,
         Grown(N, u, tr, k, par, s), Leveled(N, tr, Nobody),
         u.color[k] = Red, \A x \in N : u.color[x] = tr.color[x]
  PROVE  Leveled(N \cup {k}, u, Nobody)
<1>1. PICK bh \in [Keys -> Nat] : Even(N, tr, bh, Nobody)
  BY DEF Leveled
<1> DEFINE bh2 == [bh EXCEPT ![k] = 0]
<1>2. /\ \A x \in N : x # Nil /\ x \in Keys /\ x # k /\ x # Nobody /\ bh[x] \in Nat
      /\ k # Nil /\ k # Nobody /\ Nil # Nobody
  BY DEF Keys, Nil, Nobody
<1>3. bh2 \in [Keys -> Nat] /\ bh2[k] = 0 /\ \A x \in N : bh2[x] = bh[x]
  BY <1>2
<1>4. Weight(u, k, Nobody) = 0 /\ \A x \in N : Weight(u, x, Nobody) = Weight(tr, x, Nobody)
  BY <1>2 DEF Weight, Red, Black
<1>5. /\ u.kid[par][s] = k
      /\ \A z \in Sides : u.kid[k][z] = Nil
      /\ \A x \in N : \A z \in Sides : x # par \/ z # s => u.kid[x][z] = tr.kid[x][z]
  BY DEF Grown
<1> HIDE DEF bh2
<1>6. ASSUME NEW x \in N \cup {k}, NEW z \in Sides
      PROVE  bh2[x] = Place(u, bh2, x, z, Nobody)
  <2>1. CASE x = k
    BY <1>2, <1>3, <1>5, <2>1 DEF Place
  <2>2. CASE x = par /\ z = s
    <3>1. bh[par] = Place(tr, bh, par, s, Nobody)
      BY <1>1 DEF Even
    <3>2. bh[par] = 0
      BY <1>2, <3>1 DEF Place
    <3>3. Place(u, bh2, x, z, Nobody) = 0 + 0
      BY <1>2, <1>3, <1>4, <1>5, <2>2 DEF Place
    <3> QED
      BY <1>3, <2>2, <3>2, <3>3
  <2>3. CASE x # k /\ (x # par \/ z # s)
    <3>1. x \in N /\ bh[x] = Place(tr, bh, x, z, Nobody)
      BY <1>1, <2>3 DEF Even
    <3>2. u.kid[x][z] = tr.kid[x][z]
      BY <1>5, <2>3, <3>1
    <3>3. CASE tr.kid[x][z] = Nil
      BY <1>2, <1>3, <3>1, <3>2, <3>3 DEF Place
    <3>4. CASE tr.kid[x][z] # Nil
      <4>1. tr.kid[x][z] \in N
        BY <3>1, <3>4 DEF Family, KidsHold
      <4> QED
        BY <1>3, <1>4, <3>1, <3>2, <3>4, <4>1 DEF Place
    <3> QED
      BY <3>3, <3>4
  <2> QED
    BY <2>1, <2>2, <2>3
<1> QED
  BY <1>3, <1>6 DEF Even, Leveled

(* What a removed black node counted is missing where its child took its   *)
(* place.                                                                  *)
LEMMA SpliceCounts ==
  ASSUME NEW N, N \subseteq Keys, MaxKey \in Nat, NEW tr, Family(N, tr), NEW u,
         NEW n \in N, NEW s \in Sides, tr.kid[n][Other(s)] = Nil,
         NEW r, r = tr.kid[n][s], Replaced(N, u, tr, n, r),
         r = Nil => u.parent[Nil] = tr.parent[n],
         Leveled(N, tr, Nobody), \A x \in N \ {n} : u.color[x] = tr.color[x]
  PROVE  Leveled(N \ {n}, u, IF tr.color[n] = Black THEN r ELSE Nobody)
<1>1. PICK bh \in [Keys -> Nat] : Even(N, tr, bh, Nobody)
  BY DEF Leveled
<1> DEFINE o == Other(s)
           c == IF tr.color[n] = Black THEN r ELSE Nobody
           one == IF tr.color[n] = Black THEN 1 ELSE 0
<1>2. /\ o \in Sides /\ o # s
      /\ \A x \in N : x # Nil /\ x \in Keys /\ x # Nobody /\ bh[x] \in Nat
      /\ Nil # Nobody
  BY DEF Keys, Nil, Nobody, Sides, Other
<1>3. /\ KidsHold(N, tr) /\ r # n
      /\ r # Nil => r \in N /\ tr.parent[r] = n
  BY <1>2 DEF Family, KidsHold
<1>4. bh[n] = 0
  <2>1. bh[n] = Place(tr, bh, n, o, Nobody)
    BY <1>1, <1>2 DEF Even
  <2> QED
    BY <1>2, <2>1 DEF Place
<1>5. r # Nil => bh[r] = 0 /\ tr.color[r] # Black
  <2> SUFFICES ASSUME r # Nil PROVE bh[r] = 0 /\ tr.color[r] # Black
    OBVIOUS
  <2>1. bh[n] = Place(tr, bh, n, s, Nobody)
    BY <1>1 DEF Even
  <2>2. bh[n] = bh[r] + Weight(tr, r, Nobody) /\ bh[r] \in Nat
    BY <1>2, <1>3, <2>1 DEF Place
  <2>3. Weight(tr, r, Nobody) \in Nat
    BY DEF Weight
  <2>4. bh[r] = 0 /\ Weight(tr, r, Nobody) = 0
    BY <1>4, <2>2, <2>3
  <2> QED
    BY <1>2, <1>3, <2>4 DEF Weight
<1>6. /\ one \in Nat /\ (c = Nil => r = Nil /\ one = 1) /\ (c # r => c = Nobody /\ one = 0)
      /\ c = r => one = 1
  BY <1>2, <1>3
<1>7. \A x \in N : x # n /\ x # r => Weight(u, x, c) = Weight(tr, x, Nobody)
  BY <1>2, <1>6 DEF Weight
<1>8. Weight(tr, n, Nobody) = one
  BY <1>2 DEF Weight
<1>9. r # Nil => Weight(u, r, c) = one
  BY <1>2, <1>3, <1>5, <1>6 DEF Weight
<1>10. \A x \in N : \A z \in Sides :
          u.kid[x][z] = IF tr.kid[x][z] = n THEN r ELSE tr.kid[x][z]
  BY DEF Replaced
<1> HIDE DEF o, c, one
<1>11. ASSUME NEW x \in N \ {n}, NEW z \in Sides
       PROVE  bh[x] = Place(u, bh, x, z, c)
  <2> DEFINE y == tr.kid[x][z]
  <2>1. bh[x] = Place(tr, bh, x, z, Nobody) /\ bh[x] \in Nat /\ x \in N /\ x # Nil
    BY <1>1, <1>2 DEF Even
  <2>2. CASE y = n
    <3>1. bh[x] = one
      BY <1>2, <1>4, <1>6, <1>8, <2>1, <2>2 DEF Place
    <3>2. u.kid[x][z] = r
      BY <1>10, <2>2
    <3>3. CASE r # Nil
      <4>1. Place(u, bh, x, z, c) = 0 + one
        BY <1>5, <1>9, <3>2, <3>3 DEF Place
      <4> QED
        BY <1>6, <3>1, <4>1
    <3>4. CASE r = Nil /\ one = 0
      BY <1>6, <3>1, <3>2, <3>4 DEF Place
    <3>5. CASE r = Nil /\ one # 0
      <4>1. c = Nil
        BY <1>6, <3>5
      <4>2. x = u.parent[Nil]
        BY <1>3, <2>1, <2>2, <3>5, <1>2 DEF KidsHold
      <4>3. z = OnSide(u, x, Nil)
        <5>1. CASE z = "left"
          BY <3>2, <3>5, <5>1 DEF OnSide
        <5>2. CASE z = "right"
          <6>1. "left" \in Sides /\ "left" = Other(z)
            BY <5>2 DEF Sides, Other
          <6>2. tr.kid[x]["left"] # n
            BY <1>2, <1>3, <2>1, <2>2, <6>1 DEF KidsHold
          <6>3. tr.kid[x]["left"] # Nil
            <7>1. bh[x] = Place(tr, bh, x, "left", Nobody)
              BY <1>1, <2>1, <6>1 DEF Even
            <7> QED
              BY <1>2, <3>1, <3>5, <7>1 DEF Place
          <6>4. u.kid[x]["left"] # Nil
            BY <1>10, <2>1, <6>1, <6>2, <6>3
          <6> QED
            BY <5>2, <6>4 DEF OnSide
        <5> QED
          BY <5>1, <5>2 DEF Sides
      <4>4. Place(u, bh, x, z, c) = 1
        BY <3>2, <3>5, <4>1, <4>2, <4>3 DEF Place
      <4> QED
        BY <1>6, <3>1, <4>1, <4>4
    <3> QED
      BY <3>3, <3>4, <3>5
  <2>3. CASE y # n /\ y # Nil
    <3>1. y \in N /\ tr.parent[y] = x
      BY <1>3, <2>1, <2>3 DEF KidsHold
    <3>2. y # r
      BY <1>3, <2>3, <3>1
    <3>3. u.kid[x][z] = y /\ Weight(u, y, c) = Weight(tr, y, Nobody)
      BY <1>7, <1>10, <2>1, <2>3, <3>1, <3>2
    <3> QED
      BY <2>1, <2>3, <3>3 DEF Place
  <2>4. CASE y = Nil
    <3>1. bh[x] = 0 /\ u.kid[x][z] = Nil
      BY <1>2, <1>10, <2>1, <2>4 DEF Place
    <3>2. ~(c = Nil /\ x = u.parent[Nil] /\ z = OnSide(u, x, Nil))
      <4> SUFFICES ASSUME c = Nil, x = u.parent[Nil], z = OnSide(u, x, Nil) PROVE FALSE
        OBVIOUS
      <4>1. tr.parent[n] = x /\ one = 1 /\ r = Nil
        BY <1>6
      <4>2. n # tr.root
        BY <2>1, <4>1 DEF Family, RootHolds
      <4>3. PICK w \in Sides : tr.kid[x][w] = n
        BY <4>1, <4>2 DEF Family, ParentsMatch
      <4>4. bh[x] = Place(tr, bh, x, w, Nobody)
        BY <1>1, <2>1 DEF Even
      <4>5. bh[x] = bh[n] + one
        BY <1>2, <1>8, <4>3, <4>4 DEF Place
      <4> QED
        BY <1>4, <3>1, <4>1, <4>5
    <3> QED
      BY <3>1, <3>2 DEF Place
  <2> QED
    BY <2>2, <2>3, <2>4
<1>12. Even(N \ {n}, u, bh, c)
  BY <1>11 DEF Even
<1> QED
  BY <1>12 DEF Leveled, c

(* m comes next after n in the tree, which has two children.               *)
HeirOf(N, tr, n, m) ==
    LET q == tr.parent[m] IN
    /\ m \in N /\ m # n /\ tr.kid[m]["left"] = Nil
    /\ tr.kid[n]["left"] # m /\ m # tr.root /\ tr.parent[n] # m
    /\ q \in N /\ q # m
    /\ q = n => m = tr.kid[n]["right"]
    /\ q # n => m = tr.kid[q]["left"] /\ m # tr.kid[n]["right"] /\ tr.parent[n] # q

(* v is tr without n, whose place m has taken.                             *)
HeirTook(N, v, tr, n, m) ==
    /\ v \in Trees /\ v.data = tr.data
    /\ v.color[m] = tr.color[n]
    /\ \A x \in Ptr : x # m => v.color[x] = tr.color[x]
    /\ Inherited(N, v, tr, n, m)
    /\ tr.kid[m]["right"] = Nil =>
          v.parent[Nil] = IF tr.parent[m] = n THEN m ELSE tr.parent[m]

(* The heir m counts in n's place what n did, and what a black m counted   *)
(* is missing where its child took its place.                              *)
LEMMA HeirCounts ==
  ASSUME NEW N, N \subseteq Keys, MaxKey \in Nat, NEW tr, Family(N, tr), NEW v,
         NEW n \in N, NEW m, HeirOf(N, tr, n, m),
         tr.kid[n]["left"] # Nil, tr.kid[n]["right"] # Nil,
         HeirTook(N, v, tr, n, m), Leveled(N, tr, Nobody)
  PROVE  Leveled(N \ {n}, v, IF tr.color[m] = Black THEN tr.kid[m]["right"] ELSE Nobody)
<1>0. /\ m \in N /\ m # n /\ tr.kid[m]["left"] = Nil
      /\ tr.kid[n]["left"] # m /\ m # tr.root /\ tr.parent[n] # m
      /\ tr.parent[m] = n => m = tr.kid[n]["right"]
      /\ tr.parent[m] # n => m = tr.kid[tr.parent[m]]["left"]
      /\ Inherited(N, v, tr, n, m) /\ v.color[m] = tr.color[n]
      /\ tr.kid[m]["right"] = Nil => v.parent[Nil] = IF tr.parent[m] = n THEN m ELSE tr.parent[m]
      /\ \A x \in N : x # n /\ x # m => v.color[x] = tr.color[x]
  BY DEF HeirOf, HeirTook, Ptr
<1>1. PICK bh \in [Keys -> Nat] : Even(N, tr, bh, Nobody)
  BY DEF Leveled
<1> DEFINE q   == tr.parent[m]
           r   == tr.kid[m]["right"]
           c   == IF tr.color[m] = Black THEN r ELSE Nobody
           one == IF tr.color[m] = Black THEN 1 ELSE 0
           bh2 == [bh EXCEPT ![m] = bh[n]]
<1>2. /\ "left" \in Sides /\ "right" \in Sides /\ \A z \in Sides : z = "left" \/ z = "right"
      /\ Other("left") = "right" /\ Other("right") = "left"
      /\ \A x \in N : x # Nil /\ x \in Keys /\ x # Nobody /\ bh[x] \in Nat
      /\ Nil # Nobody
  BY DEF Keys, Nil, Nobody, Sides, Other
<1>3. /\ KidsHold(N, tr) /\ r # m /\ q \in N /\ q # m
      /\ r # Nil => r \in N /\ tr.parent[r] = m
      /\ r # n
  <2>1. KidsHold(N, tr) /\ r # m /\ q \in N /\ q # m /\ (r # Nil => r \in N /\ tr.parent[r] = m)
    BY <1>0, <1>2 DEF Family, KidsHold, ParentsMatch
  <2>2. r # n
    BY <1>0, <1>2, <2>1
  <2> QED
    BY <1>0, <2>1, <2>2
<1>4. bh[m] = 0
  <2>1. bh[m] = Place(tr, bh, m, "left", Nobody)
    BY <1>0, <1>1, <1>2 DEF Even
  <2> QED
    BY <1>0, <1>2, <2>1 DEF Place
<1>5. r # Nil => bh[r] = 0 /\ tr.color[r] # Black
  <2> SUFFICES ASSUME r # Nil PROVE bh[r] = 0 /\ tr.color[r] # Black
    OBVIOUS
  <2>1. bh[m] = Place(tr, bh, m, "right", Nobody)
    BY <1>0, <1>1, <1>2 DEF Even
  <2>2. bh[m] = bh[r] + Weight(tr, r, Nobody) /\ bh[r] \in Nat
    BY <1>0, <1>2, <1>3, <2>1 DEF Place
  <2>3. Weight(tr, r, Nobody) \in Nat
    BY DEF Weight
  <2>4. bh[r] = 0 /\ Weight(tr, r, Nobody) = 0
    BY <1>0, <1>4, <2>2, <2>3
  <2> QED
    BY <1>0, <1>2, <1>3, <2>4 DEF Weight
<1>6. /\ one \in Nat /\ (c = Nil => r = Nil /\ one = 1) /\ (c # r => c = Nobody /\ one = 0)
      /\ c = r => one = 1
  BY <1>0, <1>2, <1>3
<1>7. /\ \A x \in N : x # n /\ x # m /\ x # r => Weight(v, x, c) = Weight(tr, x, Nobody)
      /\ Weight(v, m, c) = Weight(tr, n, Nobody)
      /\ Weight(tr, m, Nobody) = one
      /\ r # Nil => Weight(v, r, c) = one
  BY <1>0, <1>2, <1>3, <1>5, <1>6 DEF Weight
<1>8. /\ \A x \in N : \A z \in Sides : x # m /\ x # n =>
          v.kid[x][z] = IF tr.kid[x][z] = n THEN m
                        ELSE IF tr.kid[x][z] = m THEN r ELSE tr.kid[x][z]
      /\ v.kid[m]["left"] = tr.kid[n]["left"]
      /\ v.kid[m]["right"] = IF q = n THEN r ELSE tr.kid[n]["right"]
      /\ q # n => tr.kid[n]["right"] # m
  <2>1. \A x \in N : \A z \in Sides : x # m /\ x # n =>
          v.kid[x][z] = IF tr.kid[x][z] = n THEN m
                        ELSE IF tr.kid[x][z] = m THEN r ELSE tr.kid[x][z]
    BY <1>0 DEF Inherited
  <2>2. \A z \in Sides : v.kid[m][z] = IF tr.kid[n][z] = m THEN r ELSE tr.kid[n][z]
    BY <1>0 DEF Inherited
  <2>3. tr.kid[n]["right"] = m <=> q = n
    BY <1>0, <1>2, <1>3 DEF KidsHold
  <2> QED
    BY <1>0, <1>2, <2>1, <2>2, <2>3
<1>9. bh2 \in [Keys -> Nat] /\ bh2[m] = bh[n] /\ \A x \in N : x # m => bh2[x] = bh[x]
  BY <1>0, <1>2
<1> HIDE DEF q, r, c, one, bh2
<1>10. ASSUME NEW x \in N \ {n}, NEW z \in Sides
       PROVE  bh2[x] = Place(v, bh2, x, z, c)
  <2>1. x \in N /\ x # n /\ x # Nil /\ bh[x] \in Nat /\ m # Nil /\ bh[n] \in Nat
    BY <1>0, <1>2
  <2>2. CASE x = m /\ ~(z = "right" /\ q = n)
    <3> DEFINE y == tr.kid[n][z]
    <3>1. y # Nil /\ v.kid[x][z] = y /\ y # m
      BY <1>0, <1>2, <1>8, <2>2
    <3>2. y \in N /\ tr.parent[y] = n
      BY <1>0, <1>3, <3>1 DEF KidsHold
    <3>3. y # n /\ y # r
      BY <1>0, <1>2, <1>3, <3>1, <3>2 DEF KidsHold
    <3>4. Weight(v, y, c) = Weight(tr, y, Nobody) /\ bh2[y] = bh[y]
      BY <1>0, <1>7, <1>9, <3>1, <3>2, <3>3
    <3>5. bh[n] = Place(tr, bh, n, z, Nobody)
      BY <1>0, <1>1 DEF Even
    <3> QED
      BY <1>0, <1>9, <2>2, <3>1, <3>4, <3>5 DEF Place
  <2>3. CASE x = m /\ z = "right" /\ q = n
    <3>1. v.kid[x][z] = r
      BY <1>0, <1>8, <2>3
    <3>2. bh[n] = one
      <4>1. bh[n] = Place(tr, bh, n, z, Nobody)
        BY <1>0, <1>1 DEF Even
      <4>2. tr.kid[n][z] = m
        BY <1>0, <2>3 DEF q
      <4> QED
        BY <1>0, <1>4, <1>6, <1>7, <2>1, <4>1, <4>2 DEF Place
    <3>3. CASE r # Nil
      <4>1. bh2[r] = 0
        BY <1>0, <1>3, <1>5, <1>9, <3>3
      <4>2. Place(v, bh2, x, z, c) = 0 + one
        BY <1>0, <1>7, <3>1, <3>3, <4>1 DEF Place
      <4> QED
        BY <1>0, <1>6, <1>9, <2>3, <3>2, <4>2
    <3>4. CASE r = Nil /\ one = 0
      BY <1>0, <1>6, <1>9, <2>3, <3>1, <3>2, <3>4 DEF Place
    <3>5. CASE r = Nil /\ one # 0
      <4>1. c = Nil
        BY <1>0, <1>6, <3>5
      <4>2. x = v.parent[Nil]
        BY <1>0, <2>3, <3>5 DEF q, r
      <4>3. z = OnSide(v, x, Nil)
        BY <1>0, <1>8, <2>3 DEF OnSide
      <4>4. Place(v, bh2, x, z, c) = 1
        BY <1>0, <3>1, <3>5, <4>1, <4>2, <4>3 DEF Place
      <4> QED
        BY <1>0, <1>6, <1>9, <2>3, <3>2, <4>1, <4>4
    <3> QED
      BY <1>0, <3>3, <3>4, <3>5
  <2> DEFINE y == tr.kid[x][z]
  <2>4. bh[x] = Place(tr, bh, x, z, Nobody)
    BY <1>0, <1>1, <2>1 DEF Even
  <2>5. CASE x # m /\ y = m
    <3>1. x = q /\ z = "left"
      <4>1. x = q
        BY <1>0, <1>3, <2>1, <2>5, <2>1 DEF KidsHold, q
      <4>2. m = tr.kid[q]["left"] /\ q # n
        BY <1>0, <2>1, <4>1 DEF q
      <4> QED
        BY <1>0, <1>2, <1>3, <2>5, <4>1, <4>2 DEF KidsHold
    <3>2. bh[x] = one
      BY <1>0, <1>4, <1>6, <1>7, <2>1, <2>4, <2>5 DEF Place
    <3>3. v.kid[x][z] = r
      BY <1>0, <1>8, <2>1, <2>5
    <3>4. bh2[x] = bh[x]
      BY <1>0, <1>9, <2>1, <2>5
    <3>5. CASE r # Nil
      <4>1. bh2[r] = 0
        BY <1>0, <1>3, <1>5, <1>9, <3>5
      <4>2. Place(v, bh2, x, z, c) = 0 + one
        BY <1>0, <1>7, <3>3, <3>5, <4>1 DEF Place
      <4> QED
        BY <1>0, <1>6, <3>2, <3>4, <4>2
    <3>6. CASE r = Nil /\ one = 0
      BY <1>0, <1>6, <3>2, <3>3, <3>4, <3>6 DEF Place
    <3>7. CASE r = Nil /\ one # 0
      <4>1. c = Nil
        BY <1>0, <1>6, <3>7
      <4>2. x = v.parent[Nil]
        BY <1>0, <2>1, <3>1, <3>7 DEF q, r
      <4>3. z = OnSide(v, x, Nil)
        BY <1>0, <3>1, <3>3, <3>7 DEF OnSide
      <4>4. Place(v, bh2, x, z, c) = 1
        BY <1>0, <3>3, <3>7, <4>1, <4>2, <4>3 DEF Place
      <4> QED
        BY <1>0, <1>6, <3>2, <3>4, <4>1, <4>4
    <3> QED
      BY <1>0, <3>5, <3>6, <3>7
  <2>6. CASE x # m /\ y = n
    <3>1. v.kid[x][z] = m
      BY <1>0, <1>8, <2>1, <2>6
    <3>2. bh[x] = bh[n] + Weight(tr, n, Nobody)
      BY <1>0, <1>2, <2>4, <2>6 DEF Place
    <3>3. Place(v, bh2, x, z, c) = bh[n] + Weight(tr, n, Nobody)
      BY <1>0, <1>7, <1>9, <2>1, <3>1 DEF Place
    <3> QED
      BY <1>0, <1>9, <2>1, <2>6, <3>2, <3>3
  <2>7. CASE x # m /\ y # n /\ y # m /\ y # Nil
    <3>1. y \in N /\ tr.parent[y] = x
      BY <1>0, <1>3, <2>1, <2>7 DEF KidsHold
    <3>2. y # r
      BY <1>0, <1>3, <2>7, <3>1
    <3>3. v.kid[x][z] = y /\ Weight(v, y, c) = Weight(tr, y, Nobody) /\ bh2[y] = bh[y] /\ bh2[x] = bh[x]
      BY <1>0, <1>7, <1>8, <1>9, <2>1, <2>7, <3>1, <3>2
    <3> QED
      BY <1>0, <2>4, <2>7, <3>3 DEF Place
  <2>8. CASE x # m /\ y = Nil
    <3>1. v.kid[x][z] = Nil
      BY <1>0, <1>2, <1>8, <2>1, <2>8
    <3>2. bh[x] = 0 /\ bh2[x] = bh[x]
      BY <1>0, <1>2, <1>9, <2>1, <2>4, <2>8 DEF Place
    <3>3. ~(c = Nil /\ x = v.parent[Nil] /\ z = OnSide(v, x, Nil))
      <4> SUFFICES ASSUME c = Nil, x = v.parent[Nil], z = OnSide(v, x, Nil) PROVE FALSE
        OBVIOUS
      <4>1. r = Nil /\ x = q /\ q # n
        BY <1>0, <1>6, <2>8 DEF q, r
      <4>2. tr.kid[x]["left"] = m
        BY <1>0, <4>1 DEF q
      <4>3. v.kid[x]["left"] = Nil
        BY <1>0, <1>2, <1>8, <2>1, <2>8, <4>1, <4>2
      <4>4. z = "left"
        BY <4>3 DEF OnSide
      <4> QED
        BY <1>0, <2>1, <2>8, <4>2, <4>4
    <3> QED
      BY <1>0, <3>1, <3>2, <3>3 DEF Place
  <2> QED
    BY <1>0, <2>2, <2>3, <2>5, <2>6, <2>7, <2>8
<1>11. Even(N \ {n}, v, bh2, c)
  BY <1>0, <1>10 DEF Even
<1> QED
  BY <1>0, <1>9, <1>11 DEF Leveled, c, r

-----------------------------------------------------------------------------
(* THE WRITES of insert and remove, one call of each in all.               *)

SetRow(tr, a) == [tr EXCEPT !.kid[a] = Unlinked]

WroteRow(u, tr, a) ==
    /\ u \in Trees /\ u.root = tr.root /\ u.parent = tr.parent
    /\ u.color = tr.color /\ u.data = tr.data
    /\ \A x \in Ptr : \A z \in Sides : u.kid[x][z] = IF x = a THEN Nil ELSE tr.kid[x][z]

LEMMA RowSet ==
  ASSUME NEW tr \in Trees, NEW a \in Ptr
  PROVE  WroteRow(SetRow(tr, a), tr, a)
<1> DEFINE u == SetRow(tr, a)
           k == tr.kid
           j == [k EXCEPT ![a] = Unlinked]
<1>1. k \in [Ptr -> [Sides -> Ptr]] /\ tr = Tree(tr.root, k, tr.parent, tr.color, tr.data)
  BY IsTree
<1>2. u = Tree(tr.root, j, tr.parent, tr.color, tr.data)
  <2>1. u = [tr EXCEPT !.kid = j]
    BY DEF SetRow
  <2> HIDE DEF j, k, u
  <2> QED
    BY <1>1, <2>1, KidsReplaced
<1> HIDE DEF k
<1>3. Unlinked \in [Sides -> Ptr] /\ \A z \in Sides : Unlinked[z] = Nil
  BY DEF Unlinked, Ptr
<1>4. j \in [Ptr -> [Sides -> Ptr]] /\ \A x \in Ptr : j[x] = IF x = a THEN Unlinked ELSE k[x]
  BY <1>1, <1>3
<1> HIDE DEF j
<1>5. \A x \in Ptr : \A z \in Sides : j[x][z] = IF x = a THEN Nil ELSE k[x][z]
  BY <1>3, <1>4
<1> HIDE DEF u
<1>6. /\ u \in Trees /\ u.root = tr.root /\ u.kid = j /\ u.parent = tr.parent
      /\ u.color = tr.color /\ u.data = tr.data
  <2>1. /\ tr.root \in Ptr /\ tr.parent \in [Ptr -> Ptr]
        /\ tr.color \in [Ptr -> {Red, Black}] /\ tr.data \in [Keys -> Datas]
    BY IsTree
  <2>2. u \in Trees
    BY <1>2, <1>4, <2>1, Zenon DEF Tree, Trees
  <2> QED
    BY <1>2, <2>2, SMT DEF Tree
<1> QED
  BY <1>5, <1>6 DEF k, u, WroteRow

(* A node as it is created under par, or as it is forgotten.               *)
Blank(tr, a, par, d) ==
    [tr EXCEPT !.kid[a] = Unlinked, !.parent[a] = par, !.color[a] = Red, !.data[a] = d]

Blanked(u, tr, a, par, d) ==
    /\ u \in Trees /\ u.root = tr.root
    /\ \A x \in Ptr : \A z \in Sides : u.kid[x][z] = IF x = a THEN Nil ELSE tr.kid[x][z]
    /\ \A x \in Ptr : u.parent[x] = IF x = a THEN par ELSE tr.parent[x]
    /\ \A x \in Ptr : u.color[x] = IF x = a THEN Red ELSE tr.color[x]
    /\ \A x \in Keys : u.data[x] = IF x = a THEN d ELSE tr.data[x]

LEMMA DataWritten ==
  ASSUME NEW tr \in Trees, NEW a \in Keys, NEW d \in Datas
  PROVE  SetData(tr, a, d) \in Trees
<1> DEFINE u == SetData(tr, a, d)
           k == tr.data
           j == [k EXCEPT ![a] = d]
<1>1. k \in [Keys -> Datas] /\ tr = Tree(tr.root, tr.kid, tr.parent, tr.color, k)
  BY IsTree
<1>2. u = Tree(tr.root, tr.kid, tr.parent, tr.color, j)
  BY <1>1, SMT DEF SetData, Tree
<1>3. j \in [Keys -> Datas]
  BY <1>1
<1>4. /\ tr.root \in Ptr /\ tr.kid \in [Ptr -> [Sides -> Ptr]] /\ tr.parent \in [Ptr -> Ptr]
      /\ tr.color \in [Ptr -> {Red, Black}]
  BY IsTree
<1> HIDE DEF j, u
<1>5. u \in Trees
  BY <1>2, <1>3, <1>4, Zenon DEF Tree, Trees
<1> QED
  BY <1>5 DEF u

LEMMA BlankIs ==
  ASSUME NEW tr \in Trees, NEW a \in Keys, NEW par \in Ptr, NEW d \in Datas
  PROVE  Blanked(Blank(tr, a, par, d), tr, a, par, d)
<1> DEFINE t1 == SetRow(tr, a)
           t2 == SetParent(t1, a, par)
           t3 == Paint(t2, a, Red)
           t4 == SetData(t3, a, d)
<1>1. Blank(tr, a, par, d) = t4
  BY DEF Blank, SetRow, SetParent, Paint, SetData
<1>2. a \in Ptr /\ Red \in {Red, Black}
  BY DEF Ptr
<1> HIDE DEF t1
<1>3. WroteRow(t1, tr, a)
  BY <1>2, RowSet DEF t1
<1> HIDE DEF t2
<1>4. WroteParent(t2, t1, a, par)
  BY <1>2, <1>3, ParentSet DEF t2, WroteRow
<1> HIDE DEF t3
<1>5. WroteColor(t3, t2, a, Red)
  BY <1>2, <1>4, ColorSet DEF t3, WroteParent
<1> HIDE DEF t4
<1>6. WroteData(t4, t3, a, d) /\ t4 \in Trees
  BY <1>5, DataSet, DataWritten DEF t4, WroteColor
<1>7. Blanked(t4, tr, a, par, d)
  BY <1>3, <1>4, <1>5, <1>6 DEF WroteRow, WroteParent, WroteColor, WroteData, Blanked
<1> QED
  BY <1>1, <1>7

LEMMA ForgetIs ==
  ASSUME NEW tr \in Trees, NEW a \in Keys, Datas # {}
  PROVE  Blanked(Forget(tr, a), tr, a, Nil, AnyData)
<1>1. AnyData \in Datas
  BY DEF AnyData
<1>2. Nil \in Ptr
  BY DEF Ptr
<1>3. Forget(tr, a) = Blank(tr, a, Nil, AnyData)
  BY DEF Forget, Blank
<1> QED
  BY <1>1, <1>2, <1>3, BlankIs

(* A forgotten node is in nobody's way.                                    *)
LEMMA ForgottenShape ==
  ASSUME NEW N, N \subseteq Keys, NEW tr, NEW a, a \notin N, NEW par, NEW d, NEW u,
         Blanked(u, tr, a, par, d), Shaped(N, tr)
  PROVE  Shaped(N, u)
<1>1. PICK lo \in [Keys -> Int], hi \in [Keys -> Int] : Shape(N, tr, lo, hi)
  BY DEF Shaped
<1>2. /\ \A x \in N : x # a /\ x \in Ptr
      /\ u.root = tr.root
  BY DEF Ptr, Blanked
<1>3. \A x \in N : /\ u.kid[x]["left"] = tr.kid[x]["left"]
                   /\ u.kid[x]["right"] = tr.kid[x]["right"]
                   /\ u.parent[x] = tr.parent[x]
  BY <1>2 DEF Blanked, Sides
<1>4. Shape(N, u, lo, hi)
  <2>1. Rooted(N, u, lo, hi)
    BY <1>1, <1>2, <1>3 DEF Shape, Rooted
  <2>2. LeftsHang(N, u, lo, hi)
    BY <1>1, <1>3 DEF Shape, LeftsHang
  <2>3. RightsHang(N, u, lo, hi)
    BY <1>1, <1>3 DEF Shape, RightsHang
  <2>4. ParentsHold(N, u)
    BY <1>1, <1>2, <1>3 DEF Shape, ParentsHold
  <2>5. GapsEmpty(N, u, lo, hi)
    BY <1>1, <1>3 DEF Shape, GapsEmpty
  <2> QED
    BY <1>1, <2>1, <2>2, <2>3, <2>4, <2>5 DEF Shape
<1> QED
  BY <1>4 DEF Shaped

LEMMA ForgottenCounts ==
  ASSUME NEW N, N \subseteq Keys, MaxKey \in Nat, NEW tr, Family(N, tr),
         NEW a \in Keys, a \notin N, NEW par, NEW d, NEW u,
         Blanked(u, tr, a, par, d), NEW c, Leveled(N, tr, c)
  PROVE  Leveled(N, u, c)
<1>1. PICK bh \in [Keys -> Nat] : Even(N, tr, bh, c)
  BY DEF Leveled
<1>2. /\ \A x \in N : x # a /\ x \in Ptr /\ x # Nil
      /\ a # Nil /\ Nil \in Ptr
  BY DEF Ptr, Keys, Nil
<1>3. /\ \A x \in N : \A z \in Sides : u.kid[x][z] = tr.kid[x][z]
      /\ \A x \in N : Weight(u, x, c) = Weight(tr, x, c)
      /\ \A x \in N : OnSide(u, x, Nil) = OnSide(tr, x, Nil)
      /\ u.parent[Nil] = tr.parent[Nil]
  BY <1>2 DEF Blanked, Weight, OnSide, Sides
<1>4. ASSUME NEW x \in N, NEW z \in Sides
      PROVE  bh[x] = Place(u, bh, x, z, c)
  <2>1. bh[x] = Place(tr, bh, x, z, c)
    BY <1>1 DEF Even
  <2>2. CASE tr.kid[x][z] = Nil
    BY <1>3, <2>1, <2>2 DEF Place
  <2>3. CASE tr.kid[x][z] # Nil
    <3>1. tr.kid[x][z] \in N
      BY <2>3 DEF Family, KidsHold
    <3> QED
      BY <1>3, <2>1, <2>3, <3>1 DEF Place
  <2> QED
    BY <2>2, <2>3
<1> QED
  BY <1>1, <1>4 DEF Even, Leveled

(* u is tr without n, whose place r has taken.                             *)
SplicedOut(N, u, tr, n, r) ==
    /\ u \in Trees /\ u.color = tr.color /\ u.data = tr.data
    /\ Replaced(N, u, tr, n, r)
    /\ u.parent[Nil] = IF r = Nil THEN tr.parent[n] ELSE tr.parent[Nil]
    /\ Shaped(N \ {n}, u)

(* A node with at most one child is taken out.                             *)
LEMMA SpliceOutDoes ==
  ASSUME MaxKey \in Nat, t \in Trees, NEW N, N \subseteq Keys, Shaped(N, t),
         NEW n \in N, NEW s \in Sides, t.kid[n][Other(s)] = Nil,
         NEW r, r = t.kid[n][s]
  PROVE  SplicedOut(N, Transplant(t, n, r), t, n, r)
<1> DEFINE u == Transplant(t, n, r)
           p == t.parent[n]
<1>1. /\ Family(N, t) /\ KidsHold(N, t)
      /\ \A x \in N : x # Nil /\ x \in Ptr
      /\ Nil \in Ptr /\ "left" \in Sides /\ "right" \in Sides
      /\ \A z \in Sides : z = "left" \/ z = "right"
      /\ Other("left") = "right" /\ Other("right") = "left"
  <2>1. Family(N, t)
    BY ShapeFamily
  <2>2. \A x \in Keys : x # Nil /\ x \in Ptr
    BY DEF Ptr, Nil, Keys
  <2>3. Nil \in Ptr
    BY DEF Ptr
  <2> QED
    BY <2>1, <2>2, <2>3 DEF Sides, Other, Family
<1>2. r \in Ptr /\ p \in Ptr
  <2>1. t.kid \in [Ptr -> [Sides -> Ptr]] /\ t.parent \in [Ptr -> Ptr]
    BY IsTree
  <2>2. n \in Ptr
    BY <1>1
  <2> QED
    BY <2>1, <2>2
<1>3. Transplanted(u, t, n, r, p)
  BY <1>1, <1>2, TransplantDoes
<1> HIDE DEF u
<1>4. /\ n = t.root <=> p = Nil
      /\ n # t.root => p \in N
  BY <1>1 DEF Family, RootHolds, ParentsMatch
<1>5. ASSUME NEW x \in N, NEW z \in Sides
      PROVE  u.kid[x][z] = IF t.kid[x][z] = n THEN r ELSE t.kid[x][z]
  <2>1. u.kid[x][z] = IF p # Nil /\ x = p /\ z = OnSide(t, p, n) THEN r ELSE t.kid[x][z]
    BY <1>1, <1>3 DEF Transplanted
  <2>2. CASE p # Nil /\ x = p
    <3>1. PICK w \in Sides : t.kid[p][w] = n
      BY <1>4, <2>2, <1>1 DEF ParentsMatch, Family
    <3>2. t.kid[p][Other(w)] # n
      BY <1>1, <1>4, <2>2, <3>1 DEF KidsHold
    <3>3. t.kid[p][z] = n <=> z = OnSide(t, p, n)
      BY <1>1, <3>1, <3>2 DEF OnSide
    <3> QED
      BY <2>1, <2>2, <3>3
  <2>3. CASE ~(p # Nil /\ x = p)
    <3>1. t.kid[x][z] # n
      BY <1>1, <2>3 DEF KidsHold
    <3> QED
      BY <2>1, <2>3, <3>1
  <2> QED
    BY <2>2, <2>3
<1>6. Replaced(N, u, t, n, r)
  <2>1. u.root = IF n = t.root THEN r ELSE t.root
    BY <1>3, <1>4 DEF Transplanted
  <2>2. \A x \in N : u.parent[x] = IF x = r THEN p ELSE t.parent[x]
    BY <1>1, <1>3 DEF Transplanted
  <2> QED
    BY <1>5, <2>1, <2>2 DEF Replaced
<1>7. /\ u \in Trees /\ u.color = t.color /\ u.data = t.data
      /\ u.parent[Nil] = IF r = Nil THEN p ELSE t.parent[Nil]
  BY <1>1, <1>3 DEF Transplanted
<1>8. Shaped(N \ {n}, u)
  <2>1. PICK lo \in [Keys -> Int], hi \in [Keys -> Int] : Shape(N, t, lo, hi)
    BY DEF Shaped
  <2>3. CASE s = "right"
    <3>1. t.kid[n]["left"] = Nil /\ r = t.kid[n]["right"]
      BY <1>1, <2>3
    <3>2. Replaced(N, u, t, n, t.kid[n]["right"])
      BY <1>6, <3>1
    <3>3. Shaped(N \ {n}, u)
      BY <2>1, <3>1, <3>2, RightSplice
    <3> QED
      BY <3>3
  <2>4. CASE s = "left"
    <3>1. t.kid[n]["right"] = Nil /\ r = t.kid[n]["left"]
      BY <1>1, <2>4
    <3>2. Replaced(N, u, t, n, t.kid[n]["left"])
      BY <1>6, <3>1
    <3>3. Shaped(N \ {n}, u)
      BY <2>1, <3>1, <3>2, LeftSplice
    <3> QED
      BY <3>3
  <2> QED
    BY <1>1, <2>3, <2>4
<1> QED
  BY <1>6, <1>7, <1>8 DEF SplicedOut, u

LEMMA HeirIs ==
  ASSUME NEW N, N \subseteq Keys, MaxKey \in Nat, NEW tr \in Trees,
         NEW lo \in [Keys -> Int], NEW hi \in [Keys -> Int], Shape(N, tr, lo, hi),
         NEW n \in N, tr.kid[n]["left"] # Nil, tr.kid[n]["right"] # Nil,
         NEW m, m = Minimum(tr, tr.kid[n]["right"])
  PROVE  /\ HeirOf(N, tr, n, m)
         /\ n < m /\ lo[m] = n /\ hi[m] <= hi[n]
<1>1. /\ Ordered(N, lo, hi) /\ Rooted(N, tr, lo, hi)
      /\ LeftsHang(N, tr, lo, hi) /\ RightsHang(N, tr, lo, hi)
      /\ ParentsHold(N, tr) /\ Bounded(N, lo, hi) /\ Laminar(N, lo, hi)
      /\ Numbers(N, lo, hi) /\ Nil = 0
  BY NumbersHold DEF Shape, Nil
<1>2. \A x \in N : /\ x \in Int /\ lo[x] \in Int /\ hi[x] \in Int /\ 0 < x
                   /\ lo[x] < x /\ x < hi[x]
  BY <1>1 DEF Numbers
<1> DEFINE big == tr.kid[n]["right"]
           q   == tr.parent[m]
<1>3. big \in N /\ lo[big] = n /\ hi[big] = hi[n] /\ tr.parent[big] = n
  BY <1>1 DEF RightsHang
<1>16. m = Minimum(tr, big)
  OBVIOUS
<1> HIDE DEF big, q
<1>4. m \in N /\ lo[m] = lo[big] /\ hi[m] <= hi[big] /\ tr.kid[m]["left"] = Nil
  BY <1>3, <1>16, MinimumIs
<1>5. m \in N /\ lo[m] = n /\ hi[m] <= hi[n] /\ tr.kid[m]["left"] = Nil /\ n < m
  <2>1. lo[m] = n /\ hi[m] <= hi[n]
    BY <1>3, <1>4
  <2> QED
    BY <1>2, <1>4, <2>1
<1>6. m # n /\ m # tr.root
  BY <1>1, <1>2, <1>5 DEF Rooted
<1>7. tr.kid[n]["left"] # m
  BY <1>1, <1>2, <1>5 DEF LeftsHang
<1>8. q \in N /\ (m = tr.kid[q]["left"] \/ m = tr.kid[q]["right"])
  BY <1>5, <1>6, <1>1 DEF ParentsHold, q
<1>9. m = tr.kid[q]["left"] => lo[q] = n /\ hi[m] = q
  BY <1>1, <1>2, <1>5, <1>8 DEF LeftsHang
<1>10. m = tr.kid[q]["right"] => q = n
  BY <1>1, <1>2, <1>5, <1>8 DEF RightsHang
<1>11. q # m
  BY <1>2, <1>5, <1>8, <1>9, <1>10
<1>12. q = n => m = tr.kid[n]["right"]
  BY <1>2, <1>7, <1>8
<1>13. n # tr.root =>
          /\ tr.parent[n] \in N
          /\ lo[tr.parent[n]] < n
          /\ hi[n] - lo[n] < hi[tr.parent[n]] - lo[tr.parent[n]]
  <2> SUFFICES ASSUME n # tr.root
               PROVE  /\ tr.parent[n] \in N
                      /\ lo[tr.parent[n]] < n
                      /\ hi[n] - lo[n] < hi[tr.parent[n]] - lo[tr.parent[n]]
    OBVIOUS
  <2>1. /\ tr.parent[n] \in N
        /\ hi[n] - lo[n] < hi[tr.parent[n]] - lo[tr.parent[n]]
        /\ Above(N, lo, hi, n) = {n} \cup Above(N, lo, hi, tr.parent[n])
    BY AboveParent
  <2>2. tr.parent[n] \in Above(N, lo, hi, tr.parent[n])
    BY <1>2, <2>1 DEF Above
  <2>3. lo[tr.parent[n]] < n
    BY <2>1, <2>2 DEF Above
  <2> QED
    BY <2>1, <2>3
<1>14. tr.parent[n] # m /\ (q # n => tr.parent[n] # q)
  <2>1. CASE n = tr.root
    BY <1>1, <1>2, <1>5, <1>8, <2>1 DEF Rooted
  <2>2. CASE n # tr.root
    BY <1>2, <1>5, <1>8, <1>9, <1>10, <1>13, <2>2
  <2> QED
    BY <2>1, <2>2
<1>15. q # n => m # big
  BY <1>3 DEF q
<1> QED
  BY <1>5, <1>6, <1>7, <1>8, <1>10, <1>11, <1>12, <1>14, <1>15 DEF HeirOf, q, big

(* m has left its place in tr to its right child, and has n's right child  *)
(* below it.                                                               *)
Parted(u, tr, n, m) ==
    LET q == tr.parent[m]
        r == tr.kid[m]["right"]
        big == tr.kid[n]["right"]
    IN /\ u \in Trees /\ u.root = tr.root /\ u.color = tr.color /\ u.data = tr.data
       /\ \A x \in Ptr : \A z \in Sides :
             u.kid[x][z] = IF q # n /\ x = m /\ z = "right" THEN big
                           ELSE IF q # n /\ x = q /\ z = "left" THEN r
                           ELSE tr.kid[x][z]
       /\ \A x \in Ptr :
             u.parent[x] = IF q # n /\ x = big THEN m
                           ELSE IF x = r THEN IF q = n THEN m ELSE q
                           ELSE tr.parent[x]

Parting(tr, n, m) ==
    IF tr.parent[m] = n THEN [tr EXCEPT !.parent[tr.kid[m]["right"]] = m]
    ELSE [Transplant(tr, m, tr.kid[m]["right"]) EXCEPT
             !.kid[m]["right"] = tr.kid[n]["right"],
             !.parent[tr.kid[n]["right"]] = m]

LEMMA MinimumParts ==
  ASSUME MaxKey \in Nat, NEW N, N \subseteq Keys, NEW tr \in Trees, Family(N, tr),
         NEW n \in N, NEW m, HeirOf(N, tr, n, m), tr.kid[n]["right"] # Nil,
         NEW u, u = Parting(tr, n, m)
  PROVE  Parted(u, tr, n, m)
<1> DEFINE q == tr.parent[m]
           r == tr.kid[m]["right"]
           big == tr.kid[n]["right"]
<1>1. /\ KidsHold(N, tr)
      /\ \A x \in N : x # Nil /\ x \in Ptr
      /\ Nil \in Ptr /\ "left" \in Sides /\ "right" \in Sides
  BY DEF Ptr, Nil, Keys, Sides, Family
<1>2. m \in N /\ q \in N /\ q # m /\ (q # n => m = tr.kid[q]["left"] /\ m # big)
  BY DEF HeirOf
<1>3. r \in Ptr /\ big \in Ptr /\ q \in Ptr /\ m \in Ptr /\ m # Nil /\ q # Nil
  BY <1>1, <1>2, IsTree
<1>4. CASE q = n
  <2>1. u = SetParent(tr, r, m)
    BY <1>4 DEF Parting, SetParent
  <2>2. WroteParent(u, tr, r, m)
    BY <1>3, <2>1, ParentSet
  <2> QED
    BY <1>4, <2>2 DEF WroteParent, Parted
<1>5. CASE q # n
  <2> DEFINE t0 == Transplant(tr, m, r)
             t1 == SetKid(t0, m, "right", big)
             t2 == SetParent(t1, big, m)
  <2>1. u = t2
    BY <1>5 DEF Parting, SetKid, SetParent
  <2> HIDE DEF t0
  <2>2. Transplanted(t0, tr, m, r, q)
    BY <1>3, TransplantDoes DEF t0
  <2> HIDE DEF t1
  <2>3. WroteKid(t1, t0, m, "right", big)
    BY <1>1, <1>3, <2>2, KidSet DEF t1, Transplanted
  <2> HIDE DEF t2
  <2>4. WroteParent(t2, t1, big, m)
    BY <1>3, <2>3, ParentSet DEF t2, WroteKid
  <2>5. OnSide(tr, q, m) = "left"
    BY <1>2, <1>5 DEF OnSide
  <2> HIDE DEF q, r, big
  <2>6. /\ t2 \in Trees /\ t2.root = tr.root /\ t2.color = tr.color /\ t2.data = tr.data
    BY <1>3, <2>2, <2>3, <2>4 DEF Transplanted, WroteKid, WroteParent
  <2>7. \A x \in Ptr : \A z \in Sides :
             t2.kid[x][z] = IF x = m /\ z = "right" THEN big
                           ELSE IF x = q /\ z = "left" THEN r
                           ELSE tr.kid[x][z]
    BY <1>3, <2>2, <2>3, <2>4, <2>5 DEF Transplanted, WroteKid, WroteParent
  <2>8. \A x \in Ptr :
             t2.parent[x] = IF x = big THEN m
                           ELSE IF x = r THEN q
                           ELSE tr.parent[x]
    BY <1>3, <2>2, <2>3, <2>4 DEF Transplanted, WroteKid, WroteParent
  <2>9. \A x \in Ptr : \A z \in Sides :
             t2.kid[x][z] = IF q # n /\ x = m /\ z = "right" THEN big
                           ELSE IF q # n /\ x = q /\ z = "left" THEN r
                           ELSE tr.kid[x][z]
    BY <1>5, <2>7
  <2>10. \A x \in Ptr :
             t2.parent[x] = IF q # n /\ x = big THEN m
                           ELSE IF x = r THEN IF q = n THEN m ELSE q
                           ELSE tr.parent[x]
    BY <1>5, <2>8
  <2>11. Parted(t2, tr, n, m)
    BY <2>6, <2>9, <2>10, Zenon DEF Parted, q, r, big
  <2> QED
    BY <2>1, <2>11
<1> QED
  BY <1>4, <1>5

Taking(t1, n, m) ==
    [Transplant(t1, n, m) EXCEPT !.kid[m]["left"] = t1.kid[n]["left"],
                                 !.parent[t1.kid[n]["left"]] = m,
                                 !.color[m] = t1.color[n]]

(* A node with two children is taken out and its heir takes its place.     *)
LEMMA HeirTakes ==
  ASSUME MaxKey \in Nat, NEW N, N \subseteq Keys, NEW tr \in Trees, Family(N, tr),
         NEW n \in N, NEW m, HeirOf(N, tr, n, m),
         tr.kid[n]["left"] # Nil, tr.kid[n]["right"] # Nil,
         NEW t1, Parted(t1, tr, n, m)
  PROVE  HeirTook(N, Taking(t1, n, m), tr, n, m)
<1> DEFINE q == tr.parent[m]
           r == tr.kid[m]["right"]
           big == tr.kid[n]["right"]
           small == tr.kid[n]["left"]
           p == tr.parent[n]
           v == Taking(t1, n, m)
<1>1. /\ KidsHold(N, tr) /\ ParentsMatch(N, tr) /\ RootHolds(N, tr)
      /\ \A x \in N : x # Nil /\ x \in Ptr
      /\ Nil \in Ptr /\ "left" \in Sides /\ "right" \in Sides
      /\ \A z \in Sides : z = "left" \/ z = "right"
      /\ Other("left") = "right" /\ Other("right") = "left"
  BY DEF Ptr, Nil, Keys, Sides, Family, Other
<1>2. /\ m \in N /\ m # n /\ small # m /\ m # tr.root /\ p # m
      /\ q \in N /\ q # m /\ tr.kid[m]["left"] = Nil
      /\ q = n => m = big
      /\ q # n => m = tr.kid[q]["left"] /\ m # big /\ p # q
  BY DEF HeirOf
<1>3. /\ small \in N /\ tr.parent[small] = n /\ small # n
      /\ big \in N /\ tr.parent[big] = n /\ big # n /\ small # big
      /\ r # Nil => r \in N /\ tr.parent[r] = m
      /\ r # n /\ r # m /\ r # small /\ r # big
  <2>1. /\ small \in N /\ tr.parent[small] = n /\ small # n
        /\ big \in N /\ tr.parent[big] = n /\ big # n /\ small # big
        /\ r # Nil => r \in N /\ tr.parent[r] = m /\ r # m
    BY <1>1, <1>2 DEF KidsHold
  <2> QED
    BY <1>1, <1>2, <2>1
<1>4. /\ n = tr.root <=> p = Nil
      /\ n # tr.root => p \in N /\ p # n
      /\ p \in Ptr
  BY <1>1, IsTree DEF RootHolds, ParentsMatch
<1>5. /\ t1 \in Trees /\ t1.root = tr.root /\ t1.color = tr.color /\ t1.data = tr.data
      /\ \A x \in Ptr : \A z \in Sides :
            t1.kid[x][z] = IF q # n /\ x = m /\ z = "right" THEN big
                           ELSE IF q # n /\ x = q /\ z = "left" THEN r
                           ELSE tr.kid[x][z]
      /\ \A x \in Ptr :
            t1.parent[x] = IF q # n /\ x = big THEN m
                           ELSE IF x = r THEN IF q = n THEN m ELSE q
                           ELSE tr.parent[x]
  BY DEF Parted
<1>6. t1.kid[n]["left"] = small /\ t1.parent[n] = p /\ t1.color[n] = tr.color[n]
  BY <1>1, <1>2, <1>3, <1>5
<1> DEFINE t2 == Transplant(t1, n, m)
           t3 == SetKid(t2, m, "left", small)
           t4 == SetParent(t3, small, m)
           t5 == Paint(t4, m, tr.color[n])
<1>7. v = t5
  BY <1>6 DEF Taking, SetKid, SetParent, Paint
<1>8. m \in Ptr /\ n \in Ptr /\ small \in Ptr /\ tr.color[n] \in {Red, Black}
  BY <1>1, <1>2, <1>3, IsTree
<1> HIDE DEF q, r, big, small, p, t2, v
<1>9. Transplanted(t2, t1, n, m, p)
  BY <1>4, <1>5, <1>6, <1>8, TransplantDoes DEF t2
<1> HIDE DEF t3
<1>10. WroteKid(t3, t2, m, "left", small)
  BY <1>1, <1>8, <1>9, KidSet DEF t3, Transplanted
<1> HIDE DEF t4
<1>11. WroteParent(t4, t3, small, m)
  BY <1>8, <1>10, ParentSet DEF t4, WroteKid
<1> HIDE DEF t5
<1>12. WroteColor(t5, t4, m, tr.color[n])
  BY <1>8, <1>11, ColorSet DEF t5, WroteParent
<1>13. /\ v \in Trees /\ v.data = tr.data /\ v.root = IF p = Nil THEN m ELSE tr.root
       /\ \A x \in Ptr : v.color[x] = IF x = m THEN tr.color[n] ELSE tr.color[x]
  BY <1>5, <1>7, <1>9, <1>10, <1>11, <1>12 DEF Transplanted, WroteKid, WroteParent, WroteColor
<1>14. \A x \in Ptr : v.parent[x] = IF x = small THEN m ELSE IF x = m THEN p ELSE t1.parent[x]
  BY <1>7, <1>9, <1>10, <1>11, <1>12 DEF Transplanted, WroteKid, WroteParent, WroteColor
<1>15. \A x \in Ptr : \A z \in Sides :
          v.kid[x][z] = IF x = m /\ z = "left" THEN small
                        ELSE IF p # Nil /\ x = p /\ z = OnSide(t1, p, n) THEN m
                        ELSE t1.kid[x][z]
  BY <1>7, <1>9, <1>10, <1>11, <1>12 DEF Transplanted, WroteKid, WroteParent, WroteColor
<1>16. p # Nil => \A z \in Sides : z = OnSide(t1, p, n) <=> tr.kid[p][z] = n
  <2> SUFFICES ASSUME p # Nil, NEW z \in Sides
               PROVE  z = OnSide(t1, p, n) <=> tr.kid[p][z] = n
    OBVIOUS
  <2>1. p \in N /\ n # tr.root
    BY <1>4
  <2>2. PICK w \in Sides : tr.kid[p][w] = n
    BY <1>1, <2>1 DEF ParentsMatch, p
  <2>3. tr.kid[p][Other(w)] # n
    BY <1>1, <2>1, <2>2 DEF KidsHold
  <2>4. t1.kid[p]["left"] = tr.kid[p]["left"]
    BY <1>1, <1>2, <1>5, <2>1
  <2> QED
    BY <1>1, <2>2, <2>3, <2>4 DEF OnSide
<1>17. ASSUME NEW x \in N, NEW z \in Sides, x # m, x # n
       PROVE  v.kid[x][z] = IF tr.kid[x][z] = n THEN m
                            ELSE IF tr.kid[x][z] = m THEN r ELSE tr.kid[x][z]
  <2> DEFINE y == tr.kid[x][z]
  <2>1. x \in Ptr /\ x # Nil /\ n # Nil /\ m # Nil
    BY <1>1, <1>2
  <2>2. v.kid[x][z] = IF p # Nil /\ x = p /\ z = OnSide(t1, p, n) THEN m ELSE t1.kid[x][z]
    BY <1>15, <1>17, <2>1
  <2>3. t1.kid[x][z] = IF q # n /\ x = q /\ z = "left" THEN r ELSE y
    BY <1>5, <1>17, <2>1
  <2>4. y = n => p = x
    BY <1>1, <2>1 DEF KidsHold, p
  <2>5. y = m => q = x
    BY <1>1, <2>1 DEF KidsHold, q
  <2>6. CASE y = n
    BY <1>16, <2>1, <2>2, <2>4, <2>6
  <2>7. CASE y = m
    <3>1. x = q /\ q # n
      BY <1>17, <2>5, <2>7
    <3>2. z = "left"
      <4> SUFFICES ASSUME z # "left" PROVE FALSE
        OBVIOUS
      <4>1. z = "right"
        BY <1>1
      <4>2. tr.kid[x]["left"] = m /\ tr.kid[x]["right"] = m
        BY <1>2, <2>7, <3>1, <4>1
      <4> QED
        BY <1>1, <2>1, <4>2 DEF KidsHold
    <3> QED
      BY <1>2, <1>16, <2>1, <2>2, <2>3, <2>7, <3>1, <3>2
  <2>8. CASE y # n /\ y # m
    <3>1. v.kid[x][z] = t1.kid[x][z]
      BY <1>16, <2>2, <2>8
    <3>2. ~(q # n /\ x = q /\ z = "left")
      BY <1>2, <2>8
    <3> QED
      BY <2>3, <2>8, <3>1, <3>2
  <2> QED
    BY <2>6, <2>7, <2>8
<1>18. ASSUME NEW z \in Sides
       PROVE  v.kid[m][z] = IF tr.kid[n][z] = m THEN r ELSE tr.kid[n][z]
  <2>1. v.kid[m][z] = IF z = "left" THEN small ELSE t1.kid[m][z]
    BY <1>2, <1>8, <1>15
  <2>2. CASE z = "left"
    BY <1>2, <2>1, <2>2 DEF small
  <2>3. CASE z = "right" /\ q = n
    <3>1. t1.kid[m]["right"] = r
      BY <1>1, <1>5, <1>8, <2>3 DEF r
    <3> QED
      BY <1>2, <2>1, <2>3, <3>1 DEF big
  <2>4. CASE z = "right" /\ q # n
    <3>1. t1.kid[m]["right"] = big
      BY <1>1, <1>5, <1>8, <2>4
    <3> QED
      BY <1>2, <2>1, <2>4, <3>1 DEF big
  <2> QED
    BY <1>1, <2>2, <2>3, <2>4
<1>19. ASSUME NEW x \in N, x # m, x # n
       PROVE  v.parent[x] = IF x = r THEN IF q = n THEN m ELSE q
                            ELSE IF tr.parent[x] = n THEN m ELSE tr.parent[x]
  <2>1. x \in Ptr /\ x # Nil /\ n # Nil
    BY <1>1
  <2>2. v.parent[x] = IF x = small THEN m ELSE t1.parent[x]
    BY <1>14, <1>19, <2>1
  <2>3. t1.parent[x] = IF q # n /\ x = big THEN m
                       ELSE IF x = r THEN IF q = n THEN m ELSE q
                       ELSE tr.parent[x]
    BY <1>5, <2>1
  <2>4. tr.parent[x] = n => x = small \/ x = big
    <3> SUFFICES ASSUME tr.parent[x] = n PROVE x = small \/ x = big
      OBVIOUS
    <3>1. x # tr.root
      BY <1>1, <2>1 DEF RootHolds
    <3>2. PICK w \in Sides : tr.kid[n][w] = x
      BY <1>1, <3>1 DEF ParentsMatch
    <3> QED
      BY <1>1, <3>2 DEF small, big
  <2>5. x = r => tr.parent[x] # n
    BY <1>2, <1>3, <2>1
  <2>6. x = big => q # n
    BY <1>2, <1>19
  <2> QED
    BY <1>3, <2>2, <2>3, <2>4, <2>5, <2>6
<1>20. v.parent[m] = p
  BY <1>2, <1>8, <1>14
<1>21. v.root = IF n = tr.root THEN m ELSE tr.root
  BY <1>4, <1>13
<1>22. Inherited(N, v, tr, n, m)
  BY <1>17, <1>18, <1>19, <1>20, <1>21 DEF Inherited, p, q, r
<1>23. r = Nil => v.parent[Nil] = IF q = n THEN m ELSE q
  BY <1>1, <1>2, <1>3, <1>5, <1>14
<1> QED
  BY <1>8, <1>13, <1>22, <1>23 DEF HeirTook, q, r, v

-----------------------------------------------------------------------------
(* SOUND: what holds of the tree between any two steps; insert and remove  *)
(* lead to a sound tree in a fix loop or between calls.                    *)

RedPair(tr, x) == x # tr.root /\ tr.color[x] = Red /\ tr.color[tr.parent[x]] = Red

(* The sentinel, when the remove fix is at it, hangs where a node was.     *)
NilHangs(N, tr) ==
    tr.root # Nil => tr.parent[Nil] \in N /\ \E s \in Sides : tr.kid[tr.parent[Nil]][s] = Nil

(* What the fix loop p, at c, has not put right yet.                       *)
Colored(N, tr, p, c) ==
    /\ tr.color[Nil] = Black
    /\ tr.root # Nil /\ tr.color[tr.root] = Red => tr.root = c
    /\ \A x \in N : RedPair(tr, x) => x = c \/ (p = "removeFix" /\ tr.parent[x] = c)
    /\ p = "insertFix" => c \in N /\ tr.color[c] = Red
    /\ p = "removeFix" => c \in N \/ (c = Nil /\ NilHangs(N, tr))
    /\ p \in {"idle", "destroyed"} => c = Nil

Extra(p, c) == IF p = "removeFix" THEN c ELSE Nobody

Sound(N, tr, p, c) ==
    /\ N \subseteq Keys /\ tr \in Trees
    /\ Shaped(N, tr) /\ Leveled(N, tr, Extra(p, c)) /\ Colored(N, tr, p, c)

LEMMA SoundFamily ==
  ASSUME MaxKey \in Nat, NEW N, NEW tr, NEW p, NEW c, Sound(N, tr, p, c)
  PROVE  /\ Family(N, tr) /\ RootHolds(N, tr) /\ KidsHold(N, tr) /\ ParentsMatch(N, tr)
         /\ \A x \in N : x \in Keys /\ x \in Ptr /\ x # Nil /\ x # Nobody
         /\ Nil \in Ptr /\ Nil # Nobody
         /\ \A x \in Ptr : \A z \in Sides : tr.kid[x][z] \in Ptr /\ tr.parent[x] \in Ptr
         /\ \A x \in Ptr : tr.color[x] = Red \/ tr.color[x] = Black
<1>1. N \subseteq Keys /\ tr \in Trees /\ Shaped(N, tr)
  BY DEF Sound
<1>2. Family(N, tr)
  BY <1>1, ShapeFamily
<1>3. /\ \A x \in N : x \in Keys /\ x \in Ptr /\ x # Nil /\ x # Nobody
      /\ Nil \in Ptr /\ Nil # Nobody
  BY <1>1 DEF Keys, Ptr, Nil, Nobody
<1>4. /\ \A x \in Ptr : \A z \in Sides : tr.kid[x][z] \in Ptr /\ tr.parent[x] \in Ptr
      /\ \A x \in Ptr : tr.color[x] = Red \/ tr.color[x] = Black
  BY <1>1, IsTree
<1> QED
  BY <1>2, <1>3, <1>4 DEF Family

LEMMA SidesAre ==
  /\ "left" \in Sides /\ "right" \in Sides
  /\ \A s \in Sides : /\ Other(s) \in Sides /\ Other(s) # s /\ Other(Other(s)) = s
                      /\ \A z \in Sides : z = s \/ z = Other(s)
  BY DEF Sides, Other

Towards(k, par) == IF k < par THEN "left" ELSE "right"

(* The tree with the new node k under the last one on the way to it.       *)
Hooked(k, d) ==
    SetKid(Blank(t, k, LastNode(k), d), LastNode(k), Towards(k, LastNode(k)), k)

HookedSoundly(N, k, d) ==
    /\ Sound(N \cup {k}, Hooked(k, d), "insertFix", k)
    /\ \A x \in Keys : Hooked(k, d).data[x] = IF x = k THEN d ELSE t.data[x]

(* insert, before its fix loop, with a parent found ...                    *)
LEMMA InsertSound ==
  ASSUME MaxKey \in Nat, NEW N, Sound(N, t, "idle", Nil), NEW k \in Keys, k \notin N,
         NEW d \in Datas, t.root # Nil
  PROVE  HookedSoundly(N, k, d)
<1> DEFINE par == LastNode(k)
           s == Towards(k, par)
           t1 == Blank(t, k, par, d)
           u == Hooked(k, d)
<1>0. s = (IF k < par THEN "left" ELSE "right") /\ u = SetKid(t1, par, s, k)
  BY DEF Towards, Hooked
<1>1. /\ N \subseteq Keys /\ t \in Trees /\ Shaped(N, t) /\ Leveled(N, t, Nobody)
      /\ Colored(N, t, "idle", Nil)
  BY DEF Sound, Extra
<1>2. /\ Family(N, t) /\ RootHolds(N, t) /\ KidsHold(N, t) /\ ParentsMatch(N, t)
      /\ \A x \in N : x \in Keys /\ x \in Ptr /\ x # Nil /\ x # Nobody
      /\ Nil \in Ptr
  BY SoundFamily
<1>3. PICK lo \in [Keys -> Int], hi \in [Keys -> Int] : Shape(N, t, lo, hi)
  BY <1>1 DEF Shaped
<1>4. par \in N /\ par # k /\ lo[par] < k /\ k < hi[par] /\ t.kid[par][s] = Nil
  BY <1>0, <1>1, <1>3, LastNodeIs
<1>5. k \in Ptr /\ k # Nil /\ par \in Ptr /\ s \in Sides /\ k \in Int /\ par \in Int
  BY <1>0, <1>2, <1>4 DEF Keys, Ptr, Nil, Sides
<1> HIDE DEF t1, par, s, u
<1>6. Blanked(t1, t, k, par, d)
  BY <1>1, <1>5, BlankIs DEF t1
<1>7. WroteKid(u, t1, par, s, k)
  BY <1>0, <1>5, <1>6, KidSet DEF Blanked
<1>8. /\ u \in Trees /\ u.root = t.root
      /\ \A x \in Ptr : u.parent[x] = IF x = k THEN par ELSE t.parent[x]
      /\ \A x \in Ptr : u.color[x] = IF x = k THEN Red ELSE t.color[x]
      /\ \A x \in Keys : u.data[x] = IF x = k THEN d ELSE t.data[x]
      /\ \A x \in Ptr : \A z \in Sides :
            u.kid[x][z] = IF x = par /\ z = s THEN k ELSE IF x = k THEN Nil ELSE t.kid[x][z]
  BY <1>6, <1>7 DEF Blanked, WroteKid
<1>9. \A x \in N : x # k
  OBVIOUS
<1>10. Grown(N, u, t, k, par, s)
  BY <1>2, <1>4, <1>5, <1>8, <1>9 DEF Grown
<1>11. Shaped(N \cup {k}, u)
  <2>1. CASE k < par
    <3>1. s = "left"
      BY <1>0, <2>1
    <3>2. Grown(N, u, t, k, par, "left") /\ t.kid[par]["left"] = Nil
      BY <1>4, <1>10, <3>1
    <3> QED
      BY <1>1, <1>3, <1>4, <2>1, <3>2, LeftLeaf
  <2>2. CASE ~(k < par)
    <3>1. s = "right" /\ par < k
      BY <1>0, <1>4, <1>5, <2>2
    <3>2. Grown(N, u, t, k, par, "right") /\ t.kid[par]["right"] = Nil
      BY <1>4, <1>10, <3>1
    <3> QED
      BY <1>1, <1>3, <1>4, <3>1, <3>2, RightLeaf
  <2> QED
    BY <2>1, <2>2
<1>12. Leveled(N \cup {k}, u, Nobody)
  <2>1. u.color[k] = Red /\ \A x \in N : u.color[x] = t.color[x]
    BY <1>2, <1>5, <1>8, <1>9
  <2>2. /\ N \subseteq Keys /\ Family(N, t) /\ par \in N /\ s \in Sides /\ t.kid[par][s] = Nil
        /\ Leveled(N, t, Nobody)
    BY <1>1, <1>2, <1>4, <1>5
  <2> QED
    BY <1>10, <2>1, <2>2, LeafCounts
<1>13. Colored(N \cup {k}, u, "insertFix", k)
  <2>1. u.color[Nil] = Black /\ u.color[k] = Red
    BY <1>1, <1>2, <1>5, <1>8 DEF Colored
  <2>2. u.root # Nil /\ u.color[u.root] = Red => u.root = k
    <3>1. t.root \in N /\ t.root # k /\ t.root \in Ptr
      BY <1>2, <1>9 DEF RootHolds
    <3>2. t.color[t.root] # Red
      BY <1>1 DEF Colored
    <3> QED
      BY <1>8, <3>1, <3>2
  <2>3. ASSUME NEW x \in N \cup {k}, RedPair(u, x)
        PROVE  x = k
    <3> SUFFICES ASSUME x # k PROVE FALSE
      OBVIOUS
    <3>1. x \in N /\ x \in Ptr /\ x # t.root /\ t.color[x] = Red /\ u.parent[x] = t.parent[x]
      BY <1>2, <1>8, <2>3 DEF RedPair
    <3>2. t.parent[x] \in N /\ t.parent[x] # k /\ t.parent[x] \in Ptr
      BY <1>2, <1>9, <3>1 DEF ParentsMatch
    <3>3. RedPair(t, x)
      BY <1>8, <2>3, <3>1, <3>2 DEF RedPair
    <3> QED
      BY <1>1, <1>2, <3>1, <3>3 DEF Colored
  <2> QED
    BY <2>1, <2>2, <2>3 DEF Colored
<1>14. N \cup {k} \subseteq Keys /\ Extra("insertFix", k) = Nobody
  BY <1>1 DEF Extra
<1> QED
  BY <1>8, <1>11, <1>12, <1>13, <1>14 DEF Sound, HookedSoundly, u

(* ... and into the empty tree.                                            *)
LEMMA FirstSound ==
  ASSUME MaxKey \in Nat, NEW N, Sound(N, t, "idle", Nil), NEW k \in Keys, k \notin N,
         NEW d \in Datas, t.root = Nil,
         NEW u, u = SetRoot(Blank(t, k, Nil, d), k)
  PROVE  /\ Sound(N \cup {k}, u, "insertFix", k)
         /\ \A x \in Keys : u.data[x] = IF x = k THEN d ELSE t.data[x]
<1> DEFINE t1 == Blank(t, k, Nil, d)
<1>1. N = {} /\ t \in Trees /\ t.color[Nil] = Black
  BY SoundFamily DEF Sound, Colored, RootHolds
<1>2. k \in Ptr /\ k # Nil /\ k # Nobody /\ Nil \in Ptr /\ k \in Int /\ 0 < k /\ k < End /\ End \in Int /\ Nil = 0
  BY DEF Keys, Ptr, Nil, Nobody, End
<1> HIDE DEF t1
<1>3. Blanked(t1, t, k, Nil, d)
  BY <1>1, <1>2, BlankIs DEF t1
<1>4. WroteRoot(u, t1, k)
  BY <1>2, <1>3, RootSet DEF t1, Blanked
<1>5. /\ u \in Trees /\ u.root = k /\ u.parent[k] = Nil /\ u.color[k] = Red /\ u.color[Nil] = Black
      /\ \A x \in Keys : u.data[x] = IF x = k THEN d ELSE t.data[x]
      /\ \A z \in Sides : u.kid[k][z] = Nil
  BY <1>1, <1>2, <1>3, <1>4 DEF Blanked, WroteRoot
<1>6. Shaped({k}, u)
  <2> DEFINE lo == [x \in Keys |-> 0]
             hi == [x \in Keys |-> End]
  <2>1. lo \in [Keys -> Int] /\ hi \in [Keys -> Int] /\ lo[k] = 0 /\ hi[k] = End
    BY <1>2
  <2>2. u.kid[k]["left"] = Nil /\ u.kid[k]["right"] = Nil
    BY <1>5 DEF Sides
  <2> HIDE DEF lo, hi
  <2>3. Shape({k}, u, lo, hi)
    BY <1>2, <1>5, <2>1, <2>2
       DEF Shape, Ordered, Rooted, LeftsHang, RightsHang, ParentsHold, GapsEmpty, Bounded, Laminar
  <2> QED
    BY <2>1, <2>3 DEF Shaped
<1>7. Leveled({k}, u, Nobody)
  <2> DEFINE bh == [x \in Keys |-> 0]
  <2>1. bh \in [Keys -> Nat] /\ bh[k] = 0
    OBVIOUS
  <2> HIDE DEF bh
  <2>2. Even({k}, u, bh, Nobody)
    BY <1>2, <1>5, <2>1 DEF Even, Place, Nobody, Nil
  <2> QED
    BY <2>1, <2>2 DEF Leveled
<1>8. Colored({k}, u, "insertFix", k)
  BY <1>5 DEF Colored, RedPair
<1>9. N \cup {k} = {k} /\ {k} \subseteq Keys /\ Extra("insertFix", k) = Nobody
  BY <1>1 DEF Extra
<1> QED
  BY <1>5, <1>6, <1>7, <1>8, <1>9 DEF Sound

(* The fix loop a removal goes on to, and where it is.                     *)
FixOf(color) == IF color = Black THEN "removeFix" ELSE "idle"
FixAt(color, c) == IF color = Black THEN c ELSE Nil

LEMMA ExtraOfFix ==
  ASSUME NEW color, NEW c
  PROVE  Extra(FixOf(color), FixAt(color, c)) = IF color = Black THEN c ELSE Nobody
  BY DEF Extra, FixOf, FixAt

(* No red node has a red parent between calls.                             *)
LEMMA IdleApart ==
  ASSUME MaxKey \in Nat, NEW N, NEW tr, Sound(N, tr, "idle", Nil)
  PROVE  /\ tr.root # Nil => tr.color[tr.root] = Black
         /\ \A x \in N : ~RedPair(tr, x)
<1>1. Colored(N, tr, "idle", Nil)
  BY DEF Sound
<1>2. /\ \A x \in N : x # Nil
      /\ RootHolds(N, tr)
      /\ tr.root # Nil => tr.color[tr.root] = Red \/ tr.color[tr.root] = Black
  BY SoundFamily DEF RootHolds
<1> QED
  BY <1>1, <1>2 DEF Colored

LEMMA SpliceOutSound ==
  ASSUME MaxKey \in Nat, NEW N, Sound(N, t, "idle", Nil),
         NEW n \in N, NEW s \in Sides, t.kid[n][Other(s)] = Nil,
         NEW u, u = Transplant(t, n, t.kid[n][s])
  PROVE  /\ Sound(N \ {n}, u, FixOf(t.color[n]), FixAt(t.color[n], t.kid[n][s]))
         /\ u.data = t.data
<1> DEFINE r == t.kid[n][s]
           p == t.parent[n]
           M == N \ {n}
<1>1. /\ N \subseteq Keys /\ t \in Trees /\ Shaped(N, t) /\ Leveled(N, t, Nobody)
      /\ Colored(N, t, "idle", Nil)
  BY DEF Sound, Extra
<1>2. /\ Family(N, t) /\ RootHolds(N, t) /\ KidsHold(N, t) /\ ParentsMatch(N, t)
      /\ \A x \in N : x \in Keys /\ x \in Ptr /\ x # Nil /\ x # Nobody
      /\ Nil \in Ptr
      /\ \A x \in Ptr : t.color[x] = Red \/ t.color[x] = Black
  BY SoundFamily
<1>3. /\ u \in Trees /\ u.color = t.color /\ u.data = t.data
      /\ Replaced(N, u, t, n, r)
      /\ u.parent[Nil] = IF r = Nil THEN p ELSE t.parent[Nil]
      /\ Shaped(M, u)
  BY <1>1, SpliceOutDoes DEF SplicedOut
<1>4. Leveled(M, u, IF t.color[n] = Black THEN r ELSE Nobody)
  <2>1. /\ N \subseteq Keys /\ Family(N, t) /\ Leveled(N, t, Nobody)
        /\ r = Nil => u.parent[Nil] = t.parent[n]
        /\ \A x \in N \ {n} : u.color[x] = t.color[x]
    BY <1>1, <1>2, <1>3
  <2> QED
    BY <1>3, <2>1, SpliceCounts
<1>5. /\ u.root = IF n = t.root THEN r ELSE t.root
      /\ \A x \in N : u.parent[x] = IF x = r THEN p ELSE t.parent[x]
      /\ \A x \in N : \A z \in Sides :
            u.kid[x][z] = IF t.kid[x][z] = n THEN r ELSE t.kid[x][z]
  BY <1>3 DEF Replaced
<1>6. /\ r # Nil => r \in M /\ t.parent[r] = n
      /\ n = t.root <=> p = Nil
      /\ n # t.root => p \in M
  BY <1>2 DEF KidsHold, RootHolds, ParentsMatch
<1>7. /\ t.root # Nil => t.color[t.root] = Black
      /\ \A x \in N : ~RedPair(t, x)
      /\ t.color[Nil] = Black
  BY <1>1, IdleApart DEF Colored
<1> HIDE DEF r, p, M
<1>8. ASSUME NEW x \in M, RedPair(u, x)
      PROVE  x = r /\ t.color[n] = Black
  <2>1. x \in N /\ x # n
    BY DEF M
  <2>2. x = r
    <3> SUFFICES ASSUME x # r PROVE FALSE
      OBVIOUS
    <3>1. x # t.root
      BY <1>5, <1>8, <2>1 DEF RedPair
    <3>2. RedPair(t, x)
      BY <1>3, <1>5, <1>8, <2>1, <3>1 DEF RedPair
    <3> QED
      BY <1>7, <2>1, <3>2
  <2>3. t.color[n] = Black
    <3> SUFFICES ASSUME t.color[n] # Black PROVE FALSE
      OBVIOUS
    <3>1. t.color[n] = Red /\ n # t.root
      BY <1>2, <1>7
    <3>2. t.color[p] = Red
      BY <1>3, <1>5, <1>8, <2>1, <2>2 DEF RedPair
    <3> QED
      BY <1>7, <3>1, <3>2 DEF RedPair, p
  <2> QED
    BY <2>2, <2>3
<1>9. Colored(M, u, FixOf(t.color[n]), FixAt(t.color[n], r))
  <2>1. u.root # Nil /\ u.color[u.root] = Red => u.root = r /\ t.color[n] = Black
    <3>1. n # Nil /\ Red # Black
      BY <1>2 DEF Red, Black
    <3> QED
      BY <1>3, <1>5, <1>7, <3>1
  <2>2. CASE t.color[n] = Black
    <3>1. FixOf(t.color[n]) = "removeFix" /\ FixAt(t.color[n], r) = r
      BY <2>2 DEF FixOf, FixAt
    <3>2. r \in M \/ (r = Nil /\ NilHangs(M, u))
      <4> SUFFICES ASSUME r = Nil, u.root # Nil
                   PROVE  u.parent[Nil] \in M /\ \E z \in Sides : u.kid[u.parent[Nil]][z] = Nil
        BY <1>6 DEF NilHangs
      <4>1. n # t.root /\ u.parent[Nil] = p
        BY <1>3, <1>5
      <4>2. p \in M
        BY <1>6, <4>1
      <4>3. PICK z \in Sides : t.kid[p][z] = n
        BY <1>2, <4>1 DEF ParentsMatch, p
      <4>4. u.kid[p][z] = Nil
        BY <1>5, <4>2, <4>3 DEF M
      <4> QED
        BY <4>1, <4>2, <4>4
    <3> QED
      BY <1>3, <1>7, <1>8, <2>1, <3>1, <3>2 DEF Colored
  <2>3. CASE t.color[n] # Black
    <3>1. FixOf(t.color[n]) = "idle" /\ FixAt(t.color[n], r) = Nil
      BY <2>3 DEF FixOf, FixAt
    <3> QED
      BY <1>3, <1>7, <1>8, <2>1, <2>3, <3>1 DEF Colored
  <2> QED
    BY <2>2, <2>3
<1>10. M \subseteq Keys
  BY <1>1 DEF M
<1> QED
  BY <1>3, <1>4, <1>9, <1>10, ExtraOfFix DEF Sound, r, M

LEMMA HeirSound ==
  ASSUME MaxKey \in Nat, NEW N, Sound(N, t, "idle", Nil),
         NEW n \in N, t.kid[n]["left"] # Nil, t.kid[n]["right"] # Nil,
         NEW m, m = Minimum(t, t.kid[n]["right"]),
         NEW v, v = Taking(Parting(t, n, m), n, m)
  PROVE  /\ Sound(N \ {n}, v, FixOf(t.color[m]), FixAt(t.color[m], t.kid[m]["right"]))
         /\ v.data = t.data
<1> DEFINE r == t.kid[m]["right"]
           q == t.parent[m]
           p == t.parent[n]
           M == N \ {n}
<1>1. /\ N \subseteq Keys /\ t \in Trees /\ Shaped(N, t) /\ Leveled(N, t, Nobody)
      /\ Colored(N, t, "idle", Nil)
  BY DEF Sound, Extra
<1>2. /\ Family(N, t) /\ RootHolds(N, t) /\ KidsHold(N, t) /\ ParentsMatch(N, t)
      /\ \A x \in N : x \in Keys /\ x \in Ptr /\ x # Nil /\ x # Nobody
      /\ Nil \in Ptr
      /\ \A x \in Ptr : t.color[x] = Red \/ t.color[x] = Black
  BY SoundFamily
<1>3. PICK lo \in [Keys -> Int], hi \in [Keys -> Int] : Shape(N, t, lo, hi)
  BY <1>1 DEF Shaped
<1>4. HeirOf(N, t, n, m) /\ n < m /\ lo[m] = n /\ hi[m] <= hi[n]
  BY <1>1, <1>3, HeirIs
<1>5. Parted(Parting(t, n, m), t, n, m)
  BY <1>1, <1>2, <1>4, MinimumParts
<1>6. /\ HeirTook(N, v, t, n, m)
      /\ v \in Trees /\ v.data = t.data /\ v.color[m] = t.color[n]
      /\ \A x \in Ptr : x # m => v.color[x] = t.color[x]
      /\ Inherited(N, v, t, n, m)
      /\ r = Nil => v.parent[Nil] = IF q = n THEN m ELSE q
  <2>1. HeirTook(N, v, t, n, m)
    BY <1>1, <1>2, <1>4, <1>5, HeirTakes
  <2> QED
    BY <2>1 DEF HeirTook
<1>7. /\ m \in N /\ m # n /\ t.kid[m]["left"] = Nil
      /\ t.kid[n]["left"] # m /\ m # t.root /\ p # m
      /\ q \in N /\ q # m
      /\ q = n => m = t.kid[n]["right"]
      /\ q # n => m = t.kid[q]["left"]
  BY <1>4 DEF HeirOf
<1>8. Shaped(M, v)
  BY <1>1, <1>3, <1>4, <1>6, <1>7, HeirShape
<1>9. Leveled(M, v, IF t.color[m] = Black THEN r ELSE Nobody)
  <2>1. /\ N \subseteq Keys /\ Family(N, t) /\ Leveled(N, t, Nobody)
        /\ \A x \in N : x # n /\ x # m => v.color[x] = t.color[x]
    BY <1>1, <1>2, <1>6
  <2> HIDE DEF r, q, p, M
  <2>2. Leveled(N \ {n}, v, IF t.color[m] = Black THEN t.kid[m]["right"] ELSE Nobody)
    <3>1. /\ N \subseteq Keys /\ Family(N, t) /\ HeirOf(N, t, n, m)
          /\ HeirTook(N, v, t, n, m) /\ Leveled(N, t, Nobody)
      BY <1>4, <1>6, <2>1
    <3> HIDE DEF r, q, p, M
    <3> QED
      BY <3>1, HeirCounts, Zenon
  <2> QED
    BY <2>2 DEF M, r
<1>10. /\ v.root = IF n = t.root THEN m ELSE t.root
       /\ \A x \in N : x # m /\ x # n =>
             v.parent[x] = IF x = r THEN IF q = n THEN m ELSE q
                           ELSE IF t.parent[x] = n THEN m ELSE t.parent[x]
       /\ v.parent[m] = p
       /\ \A x \in N : \A z \in Sides : x # m /\ x # n =>
             v.kid[x][z] = IF t.kid[x][z] = n THEN m
                           ELSE IF t.kid[x][z] = m THEN r ELSE t.kid[x][z]
       /\ \A z \in Sides : v.kid[m][z] = IF t.kid[n][z] = m THEN r ELSE t.kid[n][z]
  BY <1>6 DEF Inherited
<1>11. /\ r # Nil => r \in M /\ t.parent[r] = m /\ r # m
       /\ n = t.root <=> p = Nil
       /\ n # t.root => p \in M
  <2>1. r # Nil => r \in N /\ t.parent[r] = m /\ r # m
    <3>1. KidsUp(N, t)
      BY <1>2, KidsAreUp
    <3> QED
      BY <1>7, <3>1, SidesAre DEF KidsUp
  <2>2. r # Nil => r # n
    BY <1>7, <2>1
  <2>3. n = t.root => p = Nil
    BY <1>2 DEF RootHolds
  <2>4. n # t.root => p \in N /\ p # n /\ p # Nil
    BY <1>2 DEF ParentsMatch
  <2> QED
    BY <2>1, <2>2, <2>3, <2>4
<1>12. /\ t.root # Nil => t.color[t.root] = Black
       /\ \A x \in N : ~RedPair(t, x)
       /\ t.color[Nil] = Black
  BY <1>1, IdleApart DEF Colored
<1> HIDE DEF r, p, q, M
<1>13. ASSUME NEW x \in M, RedPair(v, x)
       PROVE  x = r /\ t.color[m] = Black
  <2>1. x \in N /\ x # n /\ x \in Ptr
    BY <1>2 DEF M
  <2>2. x # m
    <3> SUFFICES ASSUME x = m PROVE FALSE
      OBVIOUS
    <3>1. n # t.root /\ t.color[n] = Red /\ v.color[p] = Red
      BY <1>6, <1>10, <1>13 DEF RedPair
    <3>2. t.color[p] = Red
      BY <1>2, <1>6, <1>7, <1>11, <3>1 DEF M
    <3> QED
      BY <1>12, <3>1, <3>2 DEF RedPair, p
  <2>3. x # t.root /\ t.color[x] = Red
    BY <1>6, <1>10, <1>13, <2>1, <2>2 DEF RedPair
  <2>4. x = r
    <3> SUFFICES ASSUME x # r PROVE FALSE
      OBVIOUS
    <3>1. v.parent[x] = IF t.parent[x] = n THEN m ELSE t.parent[x]
      BY <1>10, <2>1, <2>2
    <3>2. t.parent[x] \in N /\ t.parent[x] \in Ptr
      BY <1>2, <2>1, <2>3 DEF ParentsMatch
    <3>3. t.parent[x] # m
      <4> SUFFICES ASSUME t.parent[x] = m PROVE FALSE
        OBVIOUS
      <4>1. PICK z \in Sides : t.kid[m][z] = x
        BY <1>2, <2>1, <2>3 DEF ParentsMatch
      <4>2. z = "left" \/ z = "right"
        BY DEF Sides
      <4> QED
        BY <1>2, <1>7, <2>1, <4>1, <4>2 DEF r
    <3>4. t.color[t.parent[x]] = Red
      BY <1>6, <1>13, <3>1, <3>2, <3>3 DEF RedPair
    <3> QED
      BY <1>12, <2>1, <2>3, <3>4 DEF RedPair
  <2>5. t.color[m] = Black
    BY <1>2, <1>7, <1>11, <1>12, <2>1, <2>3, <2>4 DEF RedPair
  <2> QED
    BY <2>4, <2>5
<1>14. Colored(M, v, FixOf(t.color[m]), FixAt(t.color[m], r))
  <2>1. v.root # Nil => v.color[v.root] = Black
    <3>1. CASE n = t.root
      BY <1>2, <1>6, <1>10, <1>12, <3>1
    <3>2. CASE n # t.root
      <4>1. t.root \in Ptr
        BY <1>1, IsTree
      <4> QED
        <5>1. v.root = t.root /\ t.root # m
          BY <1>7, <1>10, <3>2
        <5>2. t.root # Nil => t.color[t.root] = Black
          BY <1>12
        <5>3. v.color[t.root] = t.color[t.root]
          BY <1>6, <4>1, <5>1
        <5> QED
          BY <5>1, <5>2, <5>3
    <3> QED
      BY <3>1, <3>2
  <2>2. v.color[Nil] = Black
    BY <1>2, <1>6, <1>7, <1>12
  <2>3. Red # Black
    BY DEF Red, Black
  <2>4. CASE t.color[m] = Black
    <3>1. FixOf(t.color[m]) = "removeFix" /\ FixAt(t.color[m], r) = r
      BY <2>4 DEF FixOf, FixAt
    <3>2. r \in M \/ (r = Nil /\ NilHangs(M, v))
      <4> SUFFICES ASSUME r = Nil
                   PROVE  v.parent[Nil] \in M /\ \E z \in Sides : v.kid[v.parent[Nil]][z] = Nil
        BY <1>11 DEF NilHangs
      <4>1. CASE q = n
        <5>1. v.parent[Nil] = m /\ m \in M /\ "right" \in Sides
          BY <1>6, <1>7, <4>1, SidesAre DEF M
        <5>2. v.kid[m]["right"] = Nil
          BY <1>7, <1>10, <4>1, SidesAre
        <5> QED
          BY <5>1, <5>2
      <4>2. CASE q # n
        <5>1. v.parent[Nil] = q /\ q \in M
          BY <1>6, <1>7, <4>2 DEF M
        <5>2. v.kid[q]["left"] = Nil
          BY <1>7, <1>10, <4>2, SidesAre
        <5> QED
          BY <5>1, <5>2, SidesAre
      <4> QED
        BY <4>1, <4>2
    <3> QED
      BY <1>13, <2>1, <2>2, <2>3, <3>1, <3>2 DEF Colored
  <2>5. CASE t.color[m] # Black
    <3>1. FixOf(t.color[m]) = "idle" /\ FixAt(t.color[m], r) = Nil
      BY <2>5 DEF FixOf, FixAt
    <3> QED
      BY <1>13, <2>1, <2>2, <2>3, <2>5, <3>1 DEF Colored
  <2> QED
    BY <2>4, <2>5
<1>15. M \subseteq Keys
  BY <1>1 DEF M
<1> QED
  BY <1>6, <1>8, <1>9, <1>14, <1>15, ExtraOfFix DEF Sound, r, M

LEMMA ForgetSound ==
  ASSUME MaxKey \in Nat, Datas # {}, NEW N, NEW tr, NEW p, NEW c, Sound(N, tr, p, c),
         NEW a \in Keys, a \notin N
  PROVE  /\ Sound(N, Forget(tr, a), p, c)
         /\ \A x \in Keys : x # a => Forget(tr, a).data[x] = tr.data[x]
<1> DEFINE u == Forget(tr, a)
<1>1. /\ N \subseteq Keys /\ tr \in Trees /\ Shaped(N, tr) /\ Leveled(N, tr, Extra(p, c))
      /\ Colored(N, tr, p, c)
  BY DEF Sound
<1>2. /\ Family(N, tr) /\ RootHolds(N, tr) /\ KidsHold(N, tr) /\ ParentsMatch(N, tr)
      /\ \A x \in N : x \in Ptr /\ x # Nil
      /\ Nil \in Ptr
  BY SoundFamily
<1>3. Blanked(u, tr, a, Nil, AnyData)
  BY <1>1, ForgetIs
<1> HIDE DEF u
<1>4. /\ u \in Trees /\ u.root = tr.root /\ a # Nil
      /\ \A x \in N \cup {Nil} : /\ \A z \in Sides : u.kid[x][z] = tr.kid[x][z]
                                 /\ u.parent[x] = tr.parent[x] /\ u.color[x] = tr.color[x]
      /\ \A x \in Keys : x # a => u.data[x] = tr.data[x]
  <2>1. a # Nil /\ \A x \in N \cup {Nil} : x \in Ptr /\ x # a
    BY <1>2 DEF Keys, Nil
  <2> QED
    BY <1>3, <2>1 DEF Blanked
<1>5. Shaped(N, u)
  BY <1>1, <1>3, ForgottenShape
<1>6. Leveled(N, u, Extra(p, c))
  BY <1>1, <1>2, <1>3, ForgottenCounts
<1>7. Colored(N, u, p, c)
  <2>1. u.color[Nil] = Black
    BY <1>1, <1>4 DEF Colored
  <2>2. u.root # Nil /\ u.color[u.root] = Red => u.root = c
    BY <1>1, <1>2, <1>4 DEF Colored, RootHolds
  <2>3. ASSUME NEW x \in N, RedPair(u, x)
        PROVE  x = c \/ (p = "removeFix" /\ u.parent[x] = c)
    <3>1. x # tr.root /\ u.parent[x] = tr.parent[x] /\ u.color[x] = tr.color[x]
      BY <1>4, <2>3 DEF RedPair
    <3>2. tr.parent[x] \in N
      BY <1>2, <3>1 DEF ParentsMatch
    <3>3. RedPair(tr, x)
      BY <1>4, <2>3, <3>1, <3>2 DEF RedPair
    <3> QED
      BY <1>1, <3>1, <3>3 DEF Colored
  <2>4. p = "insertFix" => c \in N /\ u.color[c] = Red
    BY <1>1, <1>4 DEF Colored
  <2>5. NilHangs(N, tr) => NilHangs(N, u)
    BY <1>4 DEF NilHangs
  <2> QED
    BY <1>1, <2>1, <2>2, <2>3, <2>4, <2>5 DEF Colored
<1> QED
  BY <1>1, <1>4, <1>5, <1>6, <1>7 DEF Sound, u

(* The tree without n, as its fix loop finds it.                           *)
Removed(N, tr, n, sp) ==
    /\ Sound(N \ {n}, sp.tree, FixOf(sp.color), FixAt(sp.color, sp.replace))
    /\ sp.tree.data = tr.data /\ sp.color \in {Red, Black}

(* remove, before its fix loop.                                            *)
LEMMA RemoveSound ==
  ASSUME MaxKey \in Nat, Datas # {}, NEW N, Sound(N, t, "idle", Nil), NEW k \in N
  PROVE  /\ Sound(N \ {k}, Forget(Splice(k).tree, k),
                  FixOf(Splice(k).color), FixAt(Splice(k).color, Splice(k).replace))
         /\ \A x \in Keys : x # k => Forget(Splice(k).tree, k).data[x] = t.data[x]
         /\ Splice(k).color \in {Red, Black}
<1> DEFINE sp == Splice(k)
           M == N \ {k}
<1>1. k \in Keys /\ k \notin M
  BY DEF Sound
<1>2. \A x \in N : t.color[x] \in {Red, Black}
  BY SoundFamily
<1>3. Removed(N, t, k, sp)
  <2>1. ASSUME NEW s \in Sides, t.kid[k][Other(s)] = Nil, sp = SpliceOut(k, s)
        PROVE  Removed(N, t, k, sp)
    <3> DEFINE r == t.kid[k][s]
               u == Transplant(t, k, r)
    <3>1. sp = [tree |-> u, replace |-> r, color |-> t.color[k]]
      BY <2>1 DEF SpliceOut
    <3> HIDE DEF sp
    <3>2. Sound(M, u, FixOf(t.color[k]), FixAt(t.color[k], r)) /\ u.data = t.data
      BY <2>1, SpliceOutSound
    <3> HIDE DEF u, r, M
    <3>3. sp.tree = u /\ sp.replace = r /\ sp.color = t.color[k]
      BY <3>1
    <3> QED
      BY <1>2, <3>2, <3>3 DEF Removed, M
  <2>2. ASSUME t.kid[k]["left"] # Nil, t.kid[k]["right"] # Nil, sp = SpliceMinimum(k)
        PROVE  Removed(N, t, k, sp)
    <3> DEFINE m == Minimum(t, t.kid[k]["right"])
               v == Taking(Parting(t, k, m), k, m)
    <3>1. sp = [tree |-> v, replace |-> t.kid[m]["right"], color |-> t.color[m]]
      BY <2>2 DEF SpliceMinimum, Taking, Parting
    <3> HIDE DEF sp
    <3>2. Sound(M, v, FixOf(t.color[m]), FixAt(t.color[m], t.kid[m]["right"])) /\ v.data = t.data
      BY <2>2, HeirSound
    <3>3. m \in N
      <4>1. PICK lo \in [Keys -> Int], hi \in [Keys -> Int] : Shape(N, t, lo, hi)
        BY DEF Sound, Shaped
      <4>2. HeirOf(N, t, k, m)
        BY <2>2, <4>1, HeirIs DEF Sound
      <4> QED
        BY <4>2 DEF HeirOf
    <3> HIDE DEF v, m, M
    <3>4. sp.tree = v /\ sp.replace = t.kid[m]["right"] /\ sp.color = t.color[m]
      BY <3>1
    <3> QED
      BY <1>2, <3>2, <3>3, <3>4 DEF Removed, M
  <2>3. CASE t.kid[k]["left"] = Nil
    <3>1. sp = SpliceOut(k, "right") /\ Other("right") = "left"
      BY <2>3 DEF Splice, Other
    <3> HIDE DEF sp
    <3> QED
      BY <2>1, <2>3, <3>1, SidesAre
  <2>4. CASE t.kid[k]["left"] # Nil /\ t.kid[k]["right"] = Nil
    <3>1. sp = SpliceOut(k, "left") /\ Other("left") = "right"
      BY <2>4 DEF Splice, Other
    <3> HIDE DEF sp
    <3> QED
      BY <2>1, <2>4, <3>1, SidesAre
  <2>5. CASE t.kid[k]["left"] # Nil /\ t.kid[k]["right"] # Nil
    <3>1. sp = SpliceMinimum(k)
      BY <2>5 DEF Splice
    <3> HIDE DEF sp
    <3> QED
      BY <2>2, <2>5, <3>1
  <2> QED
    BY <2>3, <2>4, <2>5
<1> HIDE DEF sp
<1>6. /\ Sound(M, sp.tree, FixOf(sp.color), FixAt(sp.color, sp.replace))
      /\ sp.tree.data = t.data /\ sp.color \in {Red, Black}
  BY <1>3 DEF Removed
<1> HIDE DEF M
<1>4. Sound(M, Forget(sp.tree, k), FixOf(sp.color), FixAt(sp.color, sp.replace))
  BY <1>1, <1>6, ForgetSound
<1>5. \A x \in Keys : x # k => Forget(sp.tree, k).data[x] = sp.tree.data[x]
  BY <1>1, <1>6, ForgetSound
<1> QED
  BY <1>4, <1>5, <1>6 DEF sp, M

-----------------------------------------------------------------------------
(* THE FIX LOOPS, case by case.                                            *)

(* c is red under the red p, which hangs on side s of g.                   *)
Generations(N, tr, c, p, g, s) ==
    /\ c \in N /\ p \in N /\ g \in N /\ s \in Sides
    /\ c # tr.root /\ p # tr.root
    /\ tr.parent[c] = p /\ tr.parent[p] = g /\ tr.kid[g][s] = p
    /\ c # p /\ p # g /\ c # g
    /\ \E z \in Sides : tr.kid[p][z] = c
    /\ tr.color[c] = Red /\ tr.color[p] = Red /\ tr.color[g] = Black

LEMMA SideIs ==
  ASSUME MaxKey \in Nat, NEW N, NEW tr, NEW p, NEW c, Sound(N, tr, p, c),
         NEW x \in N, x # tr.root
  PROVE  /\ OnSide(tr, tr.parent[x], x) \in Sides
         /\ tr.kid[tr.parent[x]][OnSide(tr, tr.parent[x], x)] = x
         /\ tr.parent[x] \in N
<1>1. PICK w \in Sides : tr.kid[tr.parent[x]][w] = x
  BY SoundFamily DEF ParentsMatch
<1>2. tr.parent[x] \in N
  BY SoundFamily DEF ParentsMatch
<1> QED
  BY <1>1, <1>2 DEF OnSide, Sides

LEMMA InsertNear ==
  ASSUME MaxKey \in Nat, NEW N, NEW tr, NEW c, Sound(N, tr, "insertFix", c),
         tr.color[tr.parent[c]] = Red
  PROVE  Generations(N, tr, c, tr.parent[c], tr.parent[tr.parent[c]],
                     OnSide(tr, tr.parent[tr.parent[c]], tr.parent[c]))
<1> DEFINE p == tr.parent[c]
           g == tr.parent[p]
           s == OnSide(tr, g, p)
<1>1. /\ RootHolds(N, tr) /\ KidsHold(N, tr) /\ ParentsMatch(N, tr)
      /\ \A x \in N : x \in Ptr /\ x # Nil
      /\ \A x \in Ptr : tr.color[x] = Red \/ tr.color[x] = Black
      /\ Red # Black
  BY SoundFamily DEF Red, Black
<1>2. Colored(N, tr, "insertFix", c)
  BY DEF Sound
<1>3. c \in N /\ tr.color[c] = Red /\ tr.color[Nil] = Black
  BY <1>2 DEF Colored
<1>4. c # tr.root
  BY <1>1, <1>3 DEF RootHolds
<1>5. p \in N /\ p # c /\ g # c /\ \E z \in Sides : tr.kid[p][z] = c
  BY <1>1, <1>3, <1>4 DEF ParentsMatch
<1>6. p # tr.root
  BY <1>1, <1>2, <1>5 DEF Colored
<1>7. s \in Sides /\ tr.kid[g][s] = p /\ g \in N /\ g # p
  BY <1>1, <1>5, <1>6, SideIs DEF ParentsMatch
<1>8. tr.color[g] = Black
  <2>1. ~RedPair(tr, p)
    BY <1>2, <1>5 DEF Colored
  <2> QED
    BY <1>1, <1>6, <1>7, <2>1 DEF RedPair
<1> HIDE DEF s
<1> QED
  BY <1>3, <1>4, <1>5, <1>6, <1>7, <1>8 DEF Generations, s

(* Case 1 of a turn of rb_insert_fix.                                      *)
LEMMA InsertCase1 ==
  ASSUME MaxKey \in Nat, NEW N, NEW tr, NEW c, Sound(N, tr, "insertFix", c),
         NEW p, NEW g, NEW s, Generations(N, tr, c, p, g, s),
         NEW uncle, uncle = tr.kid[g][Other(s)], tr.color[uncle] = Red
  PROVE  /\ Sound(N, Paint(Paint(Paint(tr, p, Black), uncle, Black), g, Red), "insertFix", g)
         /\ Paint(Paint(Paint(tr, p, Black), uncle, Black), g, Red).data = tr.data
<1> DEFINE t1 == Paint(tr, p, Black)
           t2 == Paint(t1, uncle, Black)
           u  == Paint(t2, g, Red)
<1>1. /\ N \subseteq Keys /\ tr \in Trees /\ Shaped(N, tr) /\ Leveled(N, tr, Nobody)
      /\ Colored(N, tr, "insertFix", c)
  BY DEF Sound, Extra
<1>2. /\ Family(N, tr) /\ RootHolds(N, tr) /\ KidsHold(N, tr) /\ ParentsMatch(N, tr)
      /\ \A x \in N : x \in Ptr /\ x # Nil
      /\ Nil \in Ptr /\ Red # Black
  BY SoundFamily DEF Red, Black
<1>3. /\ c \in N /\ p \in N /\ g \in N /\ s \in Sides
      /\ c # tr.root /\ p # tr.root
      /\ tr.parent[c] = p /\ tr.parent[p] = g /\ tr.kid[g][s] = p
      /\ c # p /\ p # g /\ c # g
      /\ tr.color[c] = Red /\ tr.color[p] = Red /\ tr.color[g] = Black
  BY DEF Generations
<1>4. uncle \in N /\ uncle # p /\ uncle # g /\ tr.parent[uncle] = g
  <2>1. uncle # Nil
    BY <1>1, <1>2 DEF Colored
  <2> QED
    BY <1>2, <1>3, <2>1, SidesAre DEF KidsHold
<1> HIDE DEF t1, t2, u
<1>5. /\ u \in Trees /\ SameLinks(u, tr) /\ u.data = tr.data
      /\ \A x \in Ptr : u.color[x] = IF x = g THEN Red
                                     ELSE IF x = p \/ x = uncle THEN Black ELSE tr.color[x]
  <2>1. WroteColor(t1, tr, p, Black)
    BY <1>1, <1>2, <1>3, ColorSet DEF t1
  <2>2. WroteColor(t2, t1, uncle, Black)
    BY <1>2, <1>4, <2>1, ColorSet DEF t2, WroteColor
  <2>3. WroteColor(u, t2, g, Red)
    BY <1>2, <1>3, <2>2, ColorSet DEF u, WroteColor
  <2> QED
    BY <2>1, <2>2, <2>3 DEF WroteColor, SameLinks
<1>6. Shaped(N, u)
  BY <1>1, <1>5, ShapeOfLinks
<1>7. Leveled(N, u, Nobody)
  <2>1. PICK bh \in [Keys -> Nat] : Even(N, tr, bh, Nobody)
    BY <1>1 DEF Leveled
  <2>2. /\ u.color[g] = Red /\ u.color[p] = Black /\ u.color[uncle] = Black
        /\ \A x \in N : x # g /\ x # p /\ x # uncle => u.color[x] = tr.color[x]
    BY <1>2, <1>3, <1>4, <1>5
  <2> QED
    BY <1>1, <1>2, <1>3, <1>4, <1>5, <2>1, <2>2, Recolor
<1>8. Colored(N, u, "insertFix", g)
  <2>1. u.color[Nil] = Black /\ u.color[g] = Red
    BY <1>1, <1>2, <1>3, <1>4, <1>5 DEF Colored
  <2>2. /\ u.root = tr.root /\ u.parent = tr.parent /\ u.kid = tr.kid
    BY <1>5 DEF SameLinks
  <2>3. u.root # Nil /\ u.color[u.root] = Red => u.root = g
    BY <1>1, <1>2, <1>3, <1>5, <2>2 DEF Colored, RootHolds
  <2>4. ASSUME NEW x \in N, RedPair(u, x), x # g
        PROVE  FALSE
    <3>1. x # tr.root /\ tr.color[x] = Red /\ x # p /\ x # uncle
      BY <1>2, <1>3, <1>4, <1>5, <2>2, <2>4 DEF RedPair
    <3>2. tr.parent[x] \in N /\ \E z \in Sides : tr.kid[tr.parent[x]][z] = x
      BY <1>2, <3>1 DEF ParentsMatch
    <3>3. tr.parent[x] # g
      BY <1>3, <3>1, <3>2, SidesAre
    <3>4. RedPair(tr, x) /\ tr.parent[x] # p
      BY <1>2, <1>5, <2>2, <2>4, <3>1, <3>2, <3>3 DEF RedPair
    <3> QED
      BY <1>1, <1>3, <3>4 DEF Colored
  <2> QED
    BY <1>3, <2>1, <2>3, <2>4 DEF Colored
<1> QED
  BY <1>1, <1>5, <1>6, <1>7, <1>8 DEF Sound, Extra, t1, t2, u

(* Case 2: p sinks below c.                                                *)
LEMMA InsertCase2 ==
  ASSUME MaxKey \in Nat, NEW N, NEW tr, NEW c, Sound(N, tr, "insertFix", c),
         NEW p, NEW g, NEW s, Generations(N, tr, c, p, g, s), c = tr.kid[p][Other(s)]
  PROVE  /\ Sound(N, Rotate(tr, p, s), "insertFix", p)
         /\ Rotate(tr, p, s).data = tr.data
<1> DEFINE u == Rotate(tr, p, s)
           inner == tr.kid[c][s]
<1>1. /\ N \subseteq Keys /\ tr \in Trees /\ Shaped(N, tr) /\ Leveled(N, tr, Nobody)
      /\ Colored(N, tr, "insertFix", c) /\ SameLinks(tr, tr)
  BY DEF Sound, Extra, SameLinks
<1>2. /\ Family(N, tr) /\ RootHolds(N, tr) /\ KidsHold(N, tr) /\ ParentsMatch(N, tr)
      /\ \A x \in N : x \in Ptr /\ x # Nil /\ x # Nobody
      /\ Nil \in Ptr /\ Nil # Nobody /\ Red # Black
  BY SoundFamily DEF Red, Black
<1>3. /\ c \in N /\ p \in N /\ g \in N /\ s \in Sides
      /\ c # tr.root /\ p # tr.root
      /\ tr.parent[c] = p /\ tr.parent[p] = g
      /\ c # p /\ p # g /\ c # g
      /\ tr.color[c] = Red /\ tr.color[p] = Red /\ tr.color[g] = Black
  BY DEF Generations
<1>4. /\ Sunk(N, u, tr, p, s, c) /\ Shaped(N, u) /\ u \in Trees
      /\ u.color = tr.color /\ u.data = tr.data
  <2>1. Sinks(N, u, tr, tr, p, s, c)
    BY <1>1, <1>2, <1>3, RotateSinks
  <2> QED
    BY <2>1 DEF Sinks
<1> HIDE DEF u
<1>5. Leveled(N, u, Nobody)
  <2>1. PICK bh \in [Keys -> Nat] : Even(N, tr, bh, Nobody)
    BY <1>1 DEF Leveled
  <2>2. Even(N, u, bh, Nobody)
    BY <1>1, <1>2, <1>3, <1>4, <2>1, RedTurn
  <2> QED
    BY <2>2 DEF Leveled
<1>6. Colored(N, u, "insertFix", p)
  <2>1. /\ u.root = tr.root
        /\ \A x \in N : u.parent[x] = IF x = p THEN c
                        ELSE IF x = c THEN g
                        ELSE IF x # Nil /\ x = tr.kid[c][s] THEN p
                        ELSE tr.parent[x]
    BY <1>3, <1>4 DEF Sunk
  <2>2. ASSUME NEW x \in N, RedPair(u, x), x # p
        PROVE  FALSE
    <3>1. x # tr.root /\ tr.color[x] = Red
      BY <1>4, <2>1, <2>2 DEF RedPair
    <3>2. x # c
      BY <1>2, <1>3, <1>4, <2>1, <2>2 DEF RedPair
    <3>3. CASE x = tr.kid[c][s]
      <4>1. tr.parent[x] = c
        BY <1>2, <1>3, <3>3 DEF KidsHold
      <4>2. RedPair(tr, x)
        BY <1>3, <3>1, <4>1 DEF RedPair
      <4> QED
        BY <1>1, <3>2, <4>2 DEF Colored
    <3>4. CASE x # tr.kid[c][s]
      <4>1. RedPair(tr, x)
        BY <1>4, <2>1, <2>2, <3>1, <3>2, <3>4 DEF RedPair
      <4> QED
        BY <1>1, <3>2, <4>1 DEF Colored
    <3> QED
      BY <3>3, <3>4
  <2> QED
    BY <1>1, <1>3, <1>4, <2>1, <2>2 DEF Colored
<1> QED
  BY <1>1, <1>4, <1>5, <1>6 DEF Sound, Extra, u

(* Case 3: g sinks below p, and they exchange their colors.                *)
LEMMA InsertCase3 ==
  ASSUME MaxKey \in Nat, NEW N, NEW tr, NEW c, Sound(N, tr, "insertFix", c),
         NEW p, NEW g, NEW s, Generations(N, tr, c, p, g, s), c # tr.kid[p][Other(s)],
         tr.color[tr.kid[g][Other(s)]] = Black,
         NEW v, v = Paint(Paint(tr, p, Black), g, Red)
  PROVE  /\ Sound(N, Rotate(v, g, Other(s)), "insertFix", c)
         /\ Rotate(v, g, Other(s)).data = tr.data
<1> DEFINE o == Other(s)
           u == Rotate(v, g, o)
           inner == tr.kid[p][o]
           uncle == tr.kid[g][o]
<1>1. /\ N \subseteq Keys /\ tr \in Trees /\ Shaped(N, tr) /\ Leveled(N, tr, Nobody)
      /\ Colored(N, tr, "insertFix", c)
  BY DEF Sound, Extra
<1>2. /\ Family(N, tr) /\ RootHolds(N, tr) /\ KidsHold(N, tr) /\ ParentsMatch(N, tr)
      /\ \A x \in N : x \in Ptr /\ x # Nil /\ x # Nobody
      /\ Nil \in Ptr /\ Nil # Nobody /\ Red # Black
  BY SoundFamily DEF Red, Black
<1>3. /\ c \in N /\ p \in N /\ g \in N /\ s \in Sides
      /\ c # tr.root /\ p # tr.root
      /\ tr.parent[c] = p /\ tr.parent[p] = g /\ tr.kid[g][s] = p
      /\ c # p /\ p # g /\ c # g
      /\ tr.color[c] = Red /\ tr.color[p] = Red /\ tr.color[g] = Black
  BY DEF Generations
<1>4. o \in Sides /\ Other(o) = s /\ o # s /\ \A z \in Sides : z = s \/ z = o
  BY <1>3, SidesAre
<1>5. /\ v \in Trees /\ SameLinks(v, tr) /\ v.data = tr.data
      /\ \A x \in Ptr : v.color[x] = IF x = g THEN Red ELSE IF x = p THEN Black ELSE tr.color[x]
  <2> DEFINE t1 == Paint(tr, p, Black)
  <2>1. WroteColor(t1, tr, p, Black)
    BY <1>1, <1>2, <1>3, ColorSet
  <2>3. v = Paint(t1, g, Red)
    OBVIOUS
  <2> HIDE DEF t1
  <2>4. t1 \in Trees /\ g \in Ptr /\ Red \in {Red, Black}
    BY <1>2, <1>3, <2>1 DEF WroteColor
  <2>2. WroteColor(Paint(t1, g, Red), t1, g, Red)
    BY <2>4, ColorSet
  <2>5. WroteColor(v, t1, g, Red)
    BY <2>2, <2>3
  <2> QED
    BY <2>1, <2>5 DEF WroteColor, SameLinks
<1> HIDE DEF o, u
<1>6. /\ Sunk(N, u, tr, g, o, p) /\ Shaped(N, u) /\ u \in Trees
      /\ u.color = v.color /\ u.data = v.data
  <2>1. Sinks(N, u, tr, v, g, o, p)
    BY <1>1, <1>2, <1>3, <1>4, <1>5, RotateSinks DEF u
  <2> QED
    BY <2>1 DEF Sinks
<1>7. /\ u.color[g] = Red /\ u.color[p] = Black
      /\ \A x \in N \cup {Nil} : x # g /\ x # p => u.color[x] = tr.color[x]
  BY <1>2, <1>3, <1>5, <1>6
<1>8. Leveled(N, u, Nobody)
  <2>1. PICK bh \in [Keys -> Nat] : Even(N, tr, bh, Nobody)
    BY <1>1 DEF Leveled
  <2>2. /\ N \subseteq Keys /\ Family(N, tr) /\ g \in N /\ o \in Sides /\ p \in N
        /\ p = tr.kid[g][Other(o)] /\ Sunk(N, u, tr, g, o, p)
        /\ Nobody # g /\ Nobody # p /\ tr.color[p] = Red /\ u.color[g] = Red
        /\ u.color[p] = tr.color[g] /\ Nobody # Nil
        /\ \A x \in N : x # g /\ x # p => u.color[x] = tr.color[x]
    BY <1>1, <1>2, <1>3, <1>4, <1>6, <1>7
  <2>3. Even(N, u, bh, Nobody)
    BY <2>1, <2>2, RedTurn
  <2> QED
    BY <2>3 DEF Leveled
<1>9. Colored(N, u, "insertFix", c)
  <2>1. /\ u.root = IF g = tr.root THEN p ELSE tr.root
        /\ \A x \in N : u.parent[x] = IF x = g THEN p
                        ELSE IF x = p THEN tr.parent[g]
                        ELSE IF x # Nil /\ x = tr.kid[p][o] THEN g
                        ELSE tr.parent[x]
    BY <1>6 DEF Sunk
  <2>2. u.color[Nil] = Black /\ u.color[c] = Red
    BY <1>1, <1>2, <1>3, <1>7 DEF Colored
  <2>3. u.root # Nil /\ u.color[u.root] = Red => u.root = c
    BY <1>1, <1>2, <1>3, <1>7, <2>1 DEF Colored, RootHolds
  <2>4. ASSUME NEW x \in N, RedPair(u, x), x # c
        PROVE  FALSE
    <3>1. x # g /\ x # p
      BY <1>2, <1>7, <2>1, <2>4 DEF RedPair
    <3>2. tr.color[x] = Red
      BY <1>7, <2>4, <3>1 DEF RedPair
    <3>3. x # tr.root
      BY <1>3, <2>1, <2>4, <3>1 DEF RedPair
    <3>4. ~RedPair(tr, x)
      BY <1>1, <2>4 DEF Colored
    <3>5. tr.parent[x] \in N /\ tr.parent[x] # p
      BY <1>2, <1>3, <3>2, <3>3, <3>4 DEF ParentsMatch, RedPair
    <3>6. x # tr.kid[p][o]
      BY <1>2, <1>3, <1>4, <3>5 DEF KidsHold
    <3>7. u.parent[x] = tr.parent[x]
      BY <2>1, <3>1, <3>6
    <3>8. tr.parent[x] # g
      <4> SUFFICES ASSUME tr.parent[x] = g PROVE FALSE
        OBVIOUS
      <4>1. PICK z \in Sides : tr.kid[g][z] = x
        BY <1>2, <3>3 DEF ParentsMatch
      <4>2. x = tr.kid[g][o]
        BY <1>3, <1>4, <3>1, <4>1
      <4> QED
        BY <1>2, <3>2, <4>2 DEF o
    <3>9. tr.color[tr.parent[x]] = Red
      BY <1>7, <2>4, <3>5, <3>7, <3>8 DEF RedPair
    <3> QED
      BY <3>2, <3>3, <3>4, <3>9 DEF RedPair
  <2> QED
    BY <1>3, <2>2, <2>3, <2>4 DEF Colored
<1> QED
  BY <1>1, <1>5, <1>6, <1>8, <1>9 DEF Sound, Extra, o, u

(* Where nobody hangs the colors do not count.                             *)
LEMMA NoneCount ==
  ASSUME NEW tr, NEW c
  PROVE  Leveled({}, tr, c)
<1>1. [x \in Keys |-> 0] \in [Keys -> Nat]
  OBVIOUS
<1>2. Even({}, tr, [x \in Keys |-> 0], c)
  BY DEF Even
<1> QED
  BY <1>1, <1>2 DEF Leveled

LEMMA NoneShaped ==
  ASSUME NEW tr, tr.root = Nil
  PROVE  Shaped({}, tr)
<1> DEFINE lo == [x \in Keys |-> 0]
<1>1. lo \in [Keys -> Int]
  OBVIOUS
<1> HIDE DEF lo
<1>2. Shape({}, tr, lo, lo)
  BY DEF Shape, Ordered, Rooted, LeftsHang, RightsHang, ParentsHold, GapsEmpty, Bounded, Laminar
<1> QED
  BY <1>1, <1>2 DEF Shaped

(* The tree of no nodes.                                                   *)
LEMMA NoneSound ==
  ASSUME NEW tr \in Trees, tr.root = Nil, tr.color[Nil] = Black,
         NEW p \in {"idle", "destroyed"}
  PROVE  Sound({}, tr, p, Nil)
<1>1. Colored({}, tr, p, Nil)
  BY DEF Colored
<1> QED
  BY <1>1, NoneCount, NoneShaped DEF Sound

LEMMA InitSound ==
  ASSUME MaxKey \in Nat, Datas # {}, InitTree
  PROVE  Sound({}, t, "idle", Nil) /\ TreeTypeOK
<1>1. AnyData \in Datas
  BY DEF AnyData
<1>2. Unlinked \in [Sides -> Ptr]
  BY DEF Unlinked, Ptr
<1>3. Nil \in Ptr
  BY DEF Ptr
<1>4. t \in Trees
  <2> DEFINE K == [x \in Ptr |-> Unlinked]
             P == [x \in Ptr |-> Nil]
             C == [x \in Ptr |-> IF x = Nil THEN Black ELSE Red]
             A == [k \in Keys |-> AnyData]
  <2>1. /\ K \in [Ptr -> [Sides -> Ptr]] /\ P \in [Ptr -> Ptr]
        /\ C \in [Ptr -> {Red, Black}] /\ A \in [Keys -> Datas]
    BY <1>1, <1>2, <1>3
  <2>2. t = Tree(Nil, K, P, C, A)
    BY DEF InitTree, Tree
  <2> HIDE DEF K, P, C, A
  <2> QED
    BY <1>3, <2>1, <2>2, Zenon DEF Tree, Trees
<1>5. t.root = Nil /\ t.color[Nil] = Black
  BY <1>3 DEF InitTree
<1>6. Sound({}, t, "idle", Nil)
  BY <1>4, <1>5, NoneSound
<1>7. TreeTypeOK
  BY <1>3, <1>4 DEF InitTree, TreeTypeOK
<1> QED
  BY <1>6, <1>7

(* u is tr with a painted b.                                               *)
Painted(N, u, tr, a, b) ==
    /\ u \in Trees /\ SameLinks(u, tr) /\ Shaped(N, u) /\ u.data = tr.data
    /\ \A x \in Ptr : u.color[x] = IF x = a THEN b ELSE tr.color[x]

LEMMA RepaintIs ==
  ASSUME NEW N, MaxKey \in Nat, NEW tr \in Trees, Shaped(N, tr), NEW a \in Ptr, NEW b \in {Red, Black}
  PROVE  Painted(N, Paint(tr, a, b), tr, a, b)
<1> DEFINE u == Paint(tr, a, b)
<1>1. WroteColor(u, tr, a, b)
  BY ColorSet
<1> HIDE DEF u
<1>2. SameLinks(u, tr)
  BY <1>1 DEF WroteColor, SameLinks
<1>3. Shaped(N, u)
  BY <1>2, ShapeOfLinks
<1>4. Painted(N, u, tr, a, b)
  BY <1>1, <1>2, <1>3 DEF WroteColor, Painted
<1> QED
  BY <1>4 DEF u

(* A loop ends with a node painted black.                                  *)
LEMMA PaintedSound ==
  ASSUME MaxKey \in Nat, NEW N, NEW tr, NEW p, NEW c, Sound(N, tr, p, c),
         NEW a \in Ptr, a \in N \/ a = Nil,
         tr.root # Nil /\ tr.color[tr.root] = Red => tr.root = a,
         \A x \in N : RedPair(tr, x) => x = a \/ tr.parent[x] = a,
         Leveled(N, Paint(tr, a, Black), Nobody)
  PROVE  Sound(N, Paint(tr, a, Black), "idle", Nil) /\ Paint(tr, a, Black).data = tr.data
<1> DEFINE u == Paint(tr, a, Black)
<1>1. N \subseteq Keys /\ tr \in Trees /\ Shaped(N, tr) /\ tr.color[Nil] = Black
  BY DEF Sound, Colored
<1>2. /\ RootHolds(N, tr) /\ ParentsMatch(N, tr)
      /\ \A x \in N : x \in Ptr
      /\ Nil \in Ptr /\ Red # Black /\ Black \in {Red, Black}
  BY SoundFamily DEF Red, Black
<1>3. /\ u \in Trees /\ SameLinks(u, tr) /\ Shaped(N, u) /\ u.data = tr.data
      /\ \A x \in Ptr : u.color[x] = IF x = a THEN Black ELSE tr.color[x]
  BY <1>1, <1>2, RepaintIs DEF Painted
<1> HIDE DEF u
<1>4. Colored(N, u, "idle", Nil)
  <2>1. u.color[Nil] = Black
    BY <1>1, <1>2, <1>3
  <2>2. ASSUME u.root # Nil, u.color[u.root] = Red
        PROVE  FALSE
    BY <1>2, <1>3, <2>2 DEF SameLinks, RootHolds
  <2>3. ASSUME NEW x \in N, RedPair(u, x)
        PROVE  FALSE
    <3>1. x # tr.root /\ u.parent[x] = tr.parent[x] /\ x # a /\ tr.color[x] = Red
      BY <1>2, <1>3, <2>3 DEF RedPair, SameLinks
    <3>2. tr.parent[x] \in N
      BY <1>2, <3>1 DEF ParentsMatch
    <3>3. tr.parent[x] # a /\ tr.color[tr.parent[x]] = Red
      BY <1>2, <1>3, <2>3, <3>1, <3>2 DEF RedPair
    <3> QED
      BY <3>1, <3>3 DEF RedPair
  <2> QED
    BY <2>1, <2>2, <2>3 DEF Colored
<1>5. Extra("idle", Nil) = Nobody
  BY DEF Extra
<1> QED
  BY <1>1, <1>3, <1>4, <1>5 DEF Sound, u

LEMMA InsertDoneSound ==
  ASSUME MaxKey \in Nat, NEW N, NEW tr, NEW c, Sound(N, tr, "insertFix", c),
         tr.color[tr.parent[c]] = Black
  PROVE  /\ Sound(N, Paint(tr, tr.root, Black), "idle", Nil)
         /\ Paint(tr, tr.root, Black).data = tr.data
<1> DEFINE u == Paint(tr, tr.root, Black)
<1>1. /\ N \subseteq Keys /\ tr \in Trees /\ Shaped(N, tr) /\ Leveled(N, tr, Nobody)
      /\ Colored(N, tr, "insertFix", c)
  BY DEF Sound, Extra
<1>2. /\ Family(N, tr) /\ RootHolds(N, tr)
      /\ \A x \in N : x \in Ptr
      /\ Nil \in Ptr /\ Red # Black /\ Black \in {Red, Black}
      /\ tr.root \in N \/ tr.root = Nil
      /\ tr.root \in Ptr
  BY SoundFamily DEF Red, Black, RootHolds
<1>3. SameLinks(u, tr) /\ \A x \in Ptr : u.color[x] = IF x = tr.root THEN Black ELSE tr.color[x]
  <2>1. Painted(N, u, tr, tr.root, Black)
    BY <1>1, <1>2, RepaintIs
  <2> QED
    BY <2>1 DEF Painted
<1> HIDE DEF u
<1>4. Leveled(N, u, Nobody)
  <2>1. \A x \in N : x # tr.root => u.color[x] = tr.color[x]
    BY <1>2, <1>3
  <2> QED
    BY <1>1, <1>2, <1>3, <2>1, RootCounts
<1>5. \A x \in N : ~RedPair(tr, x)
  BY <1>1, <1>2 DEF Colored, RedPair
<1> QED
  BY <1>2, <1>4, <1>5, PaintedSound DEF u

LEMMA RemoveDoneSound ==
  ASSUME MaxKey \in Nat, NEW N, NEW tr, NEW c, Sound(N, tr, "removeFix", c),
         c = tr.root \/ tr.color[c] = Red
  PROVE  /\ Sound(N, Paint(tr, c, Black), "idle", Nil)
         /\ Paint(tr, c, Black).data = tr.data
<1> DEFINE u == Paint(tr, c, Black)
<1>1. /\ N \subseteq Keys /\ tr \in Trees /\ Shaped(N, tr) /\ Leveled(N, tr, c)
      /\ Colored(N, tr, "removeFix", c)
  BY DEF Sound, Extra
<1>2. /\ Family(N, tr) /\ RootHolds(N, tr)
      /\ \A x \in N : x \in Ptr
      /\ Nil \in Ptr /\ Red # Black /\ Black \in {Red, Black}
  BY SoundFamily DEF Red, Black
<1>3. (c \in N \/ c = Nil) /\ c \in Ptr /\ tr.color[Nil] = Black
  BY <1>1, <1>2 DEF Colored
<1>4. SameLinks(u, tr) /\ \A x \in Ptr : u.color[x] = IF x = c THEN Black ELSE tr.color[x]
  BY <1>1, <1>2, <1>3, RepaintIs DEF Painted
<1> HIDE DEF u
<1>5. Leveled(N, u, Nobody)
  <2>1. \A x \in N : x # c => u.color[x] = tr.color[x]
    BY <1>2, <1>4
  <2>2. CASE c = tr.root
    BY <1>1, <1>2, <1>4, <2>1, <2>2, RootCounts
  <2>3. CASE tr.color[c] = Red
    <3>1. c \in N /\ u.color[c] = Black
      BY <1>2, <1>3, <1>4, <2>3
    <3> QED
      BY <1>1, <1>2, <1>4, <2>1, <2>3, <3>1, RedCounts
  <2> QED
    BY <2>2, <2>3
<1>6. /\ tr.root # Nil /\ tr.color[tr.root] = Red => tr.root = c
      /\ \A x \in N : RedPair(tr, x) => x = c \/ tr.parent[x] = c
  BY <1>1 DEF Colored
<1> QED
  BY <1>3, <1>5, <1>6, PaintedSound DEF u

(* destroy frees every node it reaches, and it reaches them all.           *)
LEMMA DestroySound ==
  ASSUME MaxKey \in Nat, NEW N, Sound(N, t, "idle", Nil), Reached = N,
         NEW u, u = [t EXCEPT !.root = Nil]
  PROVE  Sound(N \ Reached, u, "destroyed", Nil)
<1>1. t \in Trees /\ t.color[Nil] = Black /\ Nil \in Ptr
  BY DEF Sound, Colored, Ptr
<1>2. u = SetRoot(t, Nil)
  BY DEF SetRoot
<1>3. WroteRoot(SetRoot(t, Nil), t, Nil)
  BY <1>1, RootSet
<1>4. u \in Trees /\ u.root = Nil /\ u.color[Nil] = Black
  BY <1>1, <1>2, <1>3 DEF WroteRoot
<1>5. N \ Reached = {}
  OBVIOUS
<1> QED
  BY <1>4, <1>5, NoneSound

(* c, short of one, is on side s of p, and has a brother.                  *)
Short(N, tr, c, p, s) ==
    /\ p \in N /\ s \in Sides /\ tr.kid[p][s] = c /\ tr.parent[c] = p
    /\ c \in N \/ (c = Nil /\ s = OnSide(tr, p, Nil))
    /\ c # tr.root /\ tr.color[c] = Black /\ c # p
    /\ tr.kid[p][Other(s)] \in N /\ tr.kid[p][Other(s)] # p /\ tr.kid[p][Other(s)] # c
    /\ tr.parent[tr.kid[p][Other(s)]] = p /\ tr.kid[p][Other(s)] # tr.root
    /\ tr.parent[p] # tr.kid[p][Other(s)]
    /\ tr.color[tr.root] = Black
    /\ \A x \in N : ~RedPair(tr, x)

(* What of a tree a turn of the loop may rely on.                          *)
Facts(N, tr) ==
    /\ N \subseteq Keys /\ tr \in Trees /\ Shaped(N, tr)
    /\ Family(N, tr) /\ RootHolds(N, tr) /\ KidsHold(N, tr) /\ ParentsMatch(N, tr)
    /\ \A x \in N : x \in Keys /\ x \in Ptr /\ x # Nil /\ x # Nobody
    /\ Nil \in Ptr /\ Nil # Nobody /\ Red # Black
    /\ \A x \in Ptr : tr.color[x] = Red \/ tr.color[x] = Black
    /\ tr.color[Nil] = Black

LEMMA SoundFacts ==
  ASSUME MaxKey \in Nat, NEW N, NEW tr, NEW p, NEW c, Sound(N, tr, p, c)
  PROVE  Facts(N, tr)
<1>1. N \subseteq Keys /\ tr \in Trees /\ Shaped(N, tr) /\ tr.color[Nil] = Black /\ Red # Black
  BY DEF Sound, Colored, Red, Black
<1> QED
  BY <1>1, SoundFamily DEF Facts

LEMMA ShortNear ==
  ASSUME MaxKey \in Nat, NEW N, NEW tr, NEW c, Sound(N, tr, "removeFix", c),
         c # tr.root, tr.color[c] = Black
  PROVE  Short(N, tr, c, tr.parent[c], OnSide(tr, tr.parent[c], c))
<1> DEFINE p == tr.parent[c]
           s == OnSide(tr, p, c)
           b == tr.kid[p][Other(s)]
<1>1. Facts(N, tr) /\ Leveled(N, tr, c) /\ Colored(N, tr, "removeFix", c)
  BY SoundFacts DEF Sound, Extra
<1>2. c \in N \/ (c = Nil /\ NilHangs(N, tr))
  BY <1>1 DEF Colored
<1>3. tr.root # Nil
  BY <1>1, <1>2 DEF Facts, RootHolds
<1>4. p \in N /\ s \in Sides /\ tr.kid[p][s] = c
  <2>1. p \in N /\ \E z \in Sides : tr.kid[p][z] = c
    BY <1>1, <1>2, <1>3 DEF Facts, ParentsMatch, NilHangs
  <2> QED
    BY <2>1 DEF OnSide, Sides
<1>5. \A x \in N : ~RedPair(tr, x)
  BY <1>1 DEF Colored, RedPair, Facts
<1>6. tr.color[tr.root] = Black
  <2>1. tr.root \in Ptr
    BY <1>1, <1>3 DEF Facts, RootHolds
  <2> QED
    BY <1>1, <1>3, <2>1 DEF Colored, Facts
<1>7. b # Nil
  <2>1. PICK bh \in [Keys -> Nat] : Even(N, tr, bh, c)
    BY <1>1 DEF Leveled
  <2>2. Other(s) \in Sides /\ Other(s) # s
    BY <1>4, SidesAre
  <2>3. /\ bh[p] = Place(tr, bh, p, s, c)
        /\ bh[p] = Place(tr, bh, p, Other(s), c)
    BY <1>4, <2>1, <2>2 DEF Even
  <2>4. Place(tr, bh, p, s, c) # 0
    <3>1. CASE c = Nil
      BY <1>4, <3>1 DEF Place
    <3>2. CASE c # Nil
      <4>1. bh[c] \in Nat
        BY <1>1, <1>2, <3>2, <2>1 DEF Facts
      <4>2. Weight(tr, c, c) = 2
        BY DEF Weight
      <4>3. Place(tr, bh, p, s, c) = bh[c] + 2
        BY <1>4, <3>2, <4>2 DEF Place
      <4> QED
        BY <4>1, <4>3
    <3> QED
      BY <3>1, <3>2
  <2>5. b = Nil => Place(tr, bh, p, Other(s), c) = 0
    BY <2>2 DEF Place
  <2> QED
    BY <2>3, <2>4, <2>5
<1>8. Other(s) \in Sides /\ Other(s) # s
  BY <1>4, SidesAre
<1> HIDE DEF s
<1>9. b \in N /\ b # p /\ b # c /\ tr.parent[b] = p
  <2>1. Other(Other(s)) = s
    BY <1>4, SidesAre
  <2> QED
    BY <1>1, <1>4, <1>7, <1>8, <2>1 DEF Facts, KidsHold
<1>10. b # tr.root
  BY <1>1, <1>4, <1>9 DEF Facts, RootHolds
<1>11. tr.parent[p] # b
  BY <1>1, <1>9, <1>10 DEF Facts, ParentsMatch
<1>12. c # p
  BY <1>1, <1>2, <1>4 DEF Facts, ParentsMatch
<1>13. c = Nil => s = OnSide(tr, p, Nil)
  BY DEF s
<1> QED
  BY <1>2, <1>4, <1>5, <1>6, <1>9, <1>10, <1>11, <1>12, <1>13 DEF Short, s

LEMMA ShortSound ==
  ASSUME MaxKey \in Nat, NEW N, NEW tr \in Trees, NEW c, NEW p, NEW s,
         Short(N, tr, c, p, s), N \subseteq Keys, Shaped(N, tr), Leveled(N, tr, c),
         tr.color[Nil] = Black
  PROVE  Sound(N, tr, "removeFix", c)
<1>1. c \in N \/ (c = Nil /\ NilHangs(N, tr))
  BY DEF Short, NilHangs
<1>2. Red # Black
  BY DEF Red, Black
<1>3. Colored(N, tr, "removeFix", c)
  BY <1>1, <1>2 DEF Short, Colored
<1> QED
  BY <1>3 DEF Sound, Extra

(* A node of two colors changed.                                           *)
Repainted(tr, a, x, b, y) == Paint(Paint(tr, a, x), b, y)

LEMMA RepaintedIs ==
  ASSUME MaxKey \in Nat, NEW N, NEW tr \in Trees, Shaped(N, tr),
         NEW a \in N, NEW b \in N, N \subseteq Keys, NEW x \in {Red, Black}, NEW y \in {Red, Black}
  PROVE  /\ Repainted(tr, a, x, b, y) \in Trees /\ SameLinks(Repainted(tr, a, x, b, y), tr)
         /\ Repainted(tr, a, x, b, y).data = tr.data
         /\ \A z \in Ptr : Repainted(tr, a, x, b, y).color[z] =
               IF z = b THEN y ELSE IF z = a THEN x ELSE tr.color[z]
<1> DEFINE t1 == Paint(tr, a, x)
           t2 == Paint(t1, b, y)
<1>1. a \in Ptr /\ b \in Ptr
  BY DEF Ptr
<1>2. /\ t1 \in Trees /\ SameLinks(t1, tr) /\ t1.data = tr.data /\ Shaped(N, t1)
      /\ \A z \in Ptr : t1.color[z] = IF z = a THEN x ELSE tr.color[z]
  <2>1. Painted(N, t1, tr, a, x)
    BY <1>1, RepaintIs
  <2> QED
    BY <2>1 DEF Painted
<1> HIDE DEF t1
<1>3. /\ t2 \in Trees /\ SameLinks(t2, t1) /\ t2.data = t1.data
      /\ \A z \in Ptr : t2.color[z] = IF z = b THEN y ELSE t1.color[z]
  <2>1. Painted(N, t2, t1, b, y)
    BY <1>1, <1>2, RepaintIs
  <2> QED
    BY <2>1 DEF Painted
<1> HIDE DEF t2
<1>4. SameLinks(t2, tr)
  BY <1>2, <1>3 DEF SameLinks
<1> QED
  BY <1>2, <1>3, <1>4 DEF Repainted, t1, t2

(* What case 1 leaves: c below a black brother.                            *)
BelowBlack(N, u, tr, c, p, s) ==
    /\ Sound(N, u, "removeFix", c) /\ Short(N, u, c, p, s)
    /\ u.color[u.kid[p][Other(s)]] = Black /\ u.data = tr.data

(* Case 1 of a turn of rb_remove_fix: the red brother sinks p.             *)
LEMMA RemoveCase1 ==
  ASSUME MaxKey \in Nat, NEW N, NEW tr, NEW c, Sound(N, tr, "removeFix", c),
         NEW p, NEW s, Short(N, tr, c, p, s),
         NEW old, old = tr.kid[p][Other(s)], tr.color[old] = Red
  PROVE  BelowBlack(N, Rotate(Repainted(tr, old, Black, p, Red), p, s), tr, c, p, s)
<1> DEFINE v == Repainted(tr, old, Black, p, Red)
           u == Rotate(v, p, s)
           o == Other(s)
           near == tr.kid[old][s]
<1>1. Facts(N, tr) /\ Leveled(N, tr, c)
  BY SoundFacts DEF Sound, Extra
<1>2. /\ p \in N /\ s \in Sides /\ tr.kid[p][s] = c /\ tr.parent[c] = p
      /\ c \in N \/ (c = Nil /\ s = OnSide(tr, p, Nil))
      /\ c # tr.root /\ tr.color[c] = Black /\ c # p
      /\ old \in N /\ old # p /\ old # c /\ tr.parent[old] = p /\ old # tr.root
      /\ tr.parent[p] # old
      /\ tr.color[tr.root] = Black
      /\ \A x \in N : ~RedPair(tr, x)
  BY DEF Short
<1>3. o \in Sides /\ Other(o) = s /\ o # s /\ \A z \in Sides : z = s \/ z = o
  BY <1>2, SidesAre
<1>4. tr.color[p] = Black
  BY <1>1, <1>2 DEF RedPair, Facts
<1>5. PICK bh \in [Keys -> Nat] : Even(N, tr, bh, c)
  BY <1>1 DEF Leveled
<1>6. near \in N /\ near # old /\ near # p /\ near # c /\ tr.parent[near] = old
  <2>1. near # Nil
    <3>1. /\ bh[p] = Place(tr, bh, p, s, c) /\ bh[p] = Place(tr, bh, p, o, c)
          /\ bh[old] = Place(tr, bh, old, s, c)
      BY <1>2, <1>3, <1>5 DEF Even
    <3>2. Weight(tr, old, c) = 0 /\ bh[old] \in Nat
      BY <1>1, <1>2 DEF Weight, Facts
    <3>3. bh[p] = bh[old]
      <4>1. Place(tr, bh, p, o, c) = bh[old] + Weight(tr, old, c)
        BY <1>1, <1>2 DEF Place, Facts, Short
      <4> QED
        BY <3>1, <3>2, <4>1
    <3>4. bh[p] # 0
      <4>1. CASE c = Nil
        BY <1>1, <1>2, <3>1, <4>1 DEF Place, Facts
      <4>2. CASE c # Nil
        <5>1. bh[c] \in Nat /\ Weight(tr, c, c) = 2
          BY <1>1, <1>2, <4>2 DEF Facts, Weight
        <5> QED
          BY <1>2, <3>1, <4>2, <5>1 DEF Place
      <4> QED
        BY <4>1, <4>2
    <3>5. near = Nil => Place(tr, bh, old, s, c) = 0
      BY <1>2 DEF Place
    <3> QED
      BY <3>1, <3>3, <3>4, <3>5
  <2>2. near \in N /\ tr.parent[near] = old /\ near # old
    BY <1>1, <1>2, <2>1 DEF Facts, KidsHold
  <2> QED
    BY <1>2, <2>2
<1>7. tr.color[near] = Black
  <2>1. near # tr.root
    BY <1>1, <1>2, <1>6 DEF Facts, RootHolds
  <2> QED
    BY <1>1, <1>2, <1>6, <2>1 DEF Facts, RedPair
<1>8. /\ v \in Trees /\ SameLinks(v, tr) /\ v.data = tr.data
      /\ \A z \in Ptr : v.color[z] = IF z = p THEN Red ELSE IF z = old THEN Black ELSE tr.color[z]
  BY <1>1, <1>2, RepaintedIs DEF Facts
<1> HIDE DEF v, u, o
<1>9. /\ Sunk(N, u, tr, p, s, old) /\ Shaped(N, u) /\ u \in Trees
      /\ u.color = v.color /\ u.data = v.data
  <2>1. Sinks(N, u, tr, v, p, s, old)
    BY <1>1, <1>2, <1>8, RotateSinks DEF u, Facts
  <2> QED
    BY <2>1 DEF Sinks
<1>10. \A z \in N \cup {Nil} : u.color[z] = IF z = p THEN Red ELSE IF z = old THEN Black ELSE tr.color[z]
  BY <1>1, <1>8, <1>9 DEF Facts
<1>11. Leveled(N, u, c)
  <2>1. /\ N \subseteq Keys /\ Family(N, tr) /\ p \in N /\ s \in Sides /\ old \in N
        /\ old = tr.kid[p][Other(s)] /\ Sunk(N, u, tr, p, s, old)
        /\ c # p /\ c # old /\ tr.color[old] = Red /\ u.color[p] = Red
        /\ u.color[old] = tr.color[p]
        /\ \A x \in N : x # p /\ x # old => u.color[x] = tr.color[x]
    BY <1>1, <1>2, <1>4, <1>9, <1>10 DEF Facts
  <2>2. c = Nil => /\ tr.parent[Nil] # old
                   /\ tr.parent[Nil] = p => tr.kid[old][s] # Nil
    BY <1>1, <1>2, <1>6 DEF Facts
  <2>3. Even(N, u, bh, c)
    BY <1>5, <2>1, <2>2, RedTurn
  <2> QED
    BY <2>3 DEF Leveled
<1>12. /\ u.root = IF p = tr.root THEN old ELSE tr.root
       /\ \A x \in N \cup {Nil} : u.parent[x] = IF x = p THEN old
                        ELSE IF x = old THEN tr.parent[p]
                        ELSE IF x # Nil /\ x = near THEN p
                        ELSE tr.parent[x]
       /\ \A x \in N : \A z \in Sides :
          u.kid[x][z] = IF x = p /\ z = o THEN near
                        ELSE IF x = old /\ z = s THEN p
                        ELSE IF tr.kid[x][z] = p THEN old
                        ELSE tr.kid[x][z]
  BY <1>9 DEF Sunk, o
<1> HIDE DEF near
<1>13. u.kid[p][o] = near /\ u.kid[p][s] = c /\ u.parent[c] = p /\ u.parent[near] = p
  BY <1>1, <1>2, <1>3, <1>6, <1>12 DEF Facts
<1>14. Short(N, u, c, p, s)
  <2>1. c = Nil => s = OnSide(u, p, Nil)
    <3> SUFFICES ASSUME c = Nil PROVE s = OnSide(u, p, Nil)
      OBVIOUS
    <3>1. near # Nil /\ (s = "left" \/ s = "right") /\ (o = "left" \/ o = "right")
      BY <1>1, <1>2, <1>3, <1>6 DEF Facts, Sides
    <3> QED
      BY <1>3, <1>13, <3>1 DEF OnSide
  <2>2. c # u.root /\ u.color[c] = Black /\ u.color[u.root] = Black /\ near # u.root
    <3>1. tr.root \in N
      BY <1>1, <1>2 DEF Facts, RootHolds
    <3>2. near # tr.root
      BY <1>1, <1>2, <1>6 DEF Facts, RootHolds
    <3> QED
      BY <1>2, <1>6, <1>10, <1>12, <3>1, <3>2
  <2>3. ASSUME NEW x \in N, RedPair(u, x)
        PROVE  FALSE
    <3>1. x # p /\ x # old /\ tr.color[x] = Red
      BY <1>1, <1>2, <1>10, <1>12, <2>3 DEF RedPair, Facts
    <3>2. x # near /\ x # tr.root
      BY <1>1, <1>2, <1>7, <3>1 DEF Facts
    <3>3. u.parent[x] = tr.parent[x] /\ tr.parent[x] \in N
      BY <1>1, <1>12, <3>1, <3>2 DEF Facts, ParentsMatch
    <3>4. tr.parent[x] # p
      <4> SUFFICES ASSUME tr.parent[x] = p PROVE FALSE
        OBVIOUS
      <4>1. PICK z \in Sides : tr.kid[p][z] = x
        BY <1>1, <3>2 DEF Facts, ParentsMatch
      <4> QED
        BY <1>1, <1>2, <1>3, <3>1, <4>1 DEF Facts, o
    <3>5. tr.color[tr.parent[x]] = Red
      BY <1>1, <1>10, <2>3, <3>3, <3>4 DEF RedPair, Facts
    <3> QED
      BY <1>2, <3>1, <3>2, <3>5 DEF RedPair
  <2>4. u.parent[p] # near
    BY <1>2, <1>6, <1>12
  <2>5. u.kid[p][Other(s)] = near
    BY <1>13 DEF o
  <2> QED
    BY <1>2, <1>6, <1>13, <2>1, <2>2, <2>3, <2>4, <2>5 DEF Short
<1>15. u.color[Nil] = Black /\ u.color[near] = Black
  BY <1>1, <1>2, <1>6, <1>7, <1>10 DEF Facts
<1>16. Sound(N, u, "removeFix", c)
  BY <1>1, <1>9, <1>11, <1>14, <1>15, ShortSound DEF Facts
<1>17. u.color[u.kid[p][Other(s)]] = Black /\ u.data = tr.data
  BY <1>8, <1>9, <1>13, <1>15 DEF o
<1> QED
  BY <1>14, <1>16, <1>17 DEF BelowBlack, u, v

(* Case 2: the brother turns red, and p is short of one.                   *)
LEMMA RemoveCase2 ==
  ASSUME MaxKey \in Nat, NEW N, NEW tr, NEW c, Sound(N, tr, "removeFix", c),
         NEW p, NEW s, Short(N, tr, c, p, s),
         NEW b, b = tr.kid[p][Other(s)], tr.color[b] = Black,
         tr.color[tr.kid[b][s]] = Black, tr.color[tr.kid[b][Other(s)]] = Black
  PROVE  Sound(N, Paint(tr, b, Red), "removeFix", p) /\ Paint(tr, b, Red).data = tr.data
<1> DEFINE u == Paint(tr, b, Red)
<1>1. Facts(N, tr) /\ Leveled(N, tr, c)
  BY SoundFacts DEF Sound, Extra
<1>2. /\ p \in N /\ s \in Sides /\ tr.kid[p][s] = c /\ tr.parent[c] = p
      /\ c \in N \/ (c = Nil /\ s = OnSide(tr, p, Nil))
      /\ tr.color[c] = Black
      /\ b \in N /\ tr.parent[b] = p /\ b # tr.root /\ b # p
      /\ tr.color[tr.root] = Black
      /\ \A x \in N : ~RedPair(tr, x)
  BY DEF Short
<1>3. Painted(N, u, tr, b, Red)
  <2>1. b \in Ptr /\ Red \in {Red, Black} /\ tr \in Trees /\ Shaped(N, tr)
    BY <1>1, <1>2 DEF Facts
  <2> QED
    BY <2>1, RepaintIs
<1> HIDE DEF u
<1>4. /\ u \in Trees /\ SameLinks(u, tr) /\ Shaped(N, u) /\ u.data = tr.data
      /\ \A x \in N \cup {Nil} : u.color[x] = IF x = b THEN Red ELSE tr.color[x]
  BY <1>1, <1>3 DEF Painted, Facts
<1>5. Leveled(N, u, p)
  <2>1. PICK bh \in [Keys -> Nat] : Even(N, tr, bh, c)
    BY <1>1 DEF Leveled
  <2>2. /\ N \subseteq Keys /\ Family(N, tr) /\ u.color[b] = Red
        /\ \A x \in N : x # b => u.color[x] = tr.color[x]
        /\ c = Nil => tr.parent[Nil] = p /\ s = OnSide(tr, p, Nil)
    BY <1>1, <1>2, <1>4 DEF Facts
  <2> QED
    BY <1>2, <1>4, <2>1, <2>2, PassUp
<1>6. Colored(N, u, "removeFix", p)
  <2>1. tr.root \in N /\ u.root = tr.root /\ u.parent = tr.parent
    BY <1>1, <1>2, <1>4 DEF Facts, RootHolds, SameLinks
  <2>2. u.color[Nil] = Black /\ u.color[u.root] = Black
    BY <1>1, <1>2, <1>4, <2>1 DEF Facts
  <2>3. ASSUME NEW x \in N, RedPair(u, x)
        PROVE  u.parent[x] = p
    <3> SUFFICES ASSUME u.parent[x] # p PROVE FALSE
      OBVIOUS
    <3>1. x # b /\ tr.color[x] = Red /\ x # tr.root /\ tr.parent[x] \in N
      BY <1>1, <1>2, <1>4, <2>1, <2>3 DEF RedPair, Facts, ParentsMatch
    <3>2. tr.parent[x] # b
      <4> SUFFICES ASSUME tr.parent[x] = b PROVE FALSE
        OBVIOUS
      <4>1. PICK z \in Sides : tr.kid[b][z] = x
        BY <1>1, <3>1 DEF Facts, ParentsMatch
      <4>2. z = s \/ z = Other(s)
        BY <1>2, SidesAre
      <4> QED
        BY <1>1, <3>1, <4>1, <4>2 DEF Facts
    <3>3. tr.color[tr.parent[x]] = Red
      BY <1>4, <2>1, <2>3, <3>1, <3>2 DEF RedPair
    <3> QED
      BY <1>2, <3>1, <3>3 DEF RedPair
  <2>4. u.color[u.root] # Red
    BY <1>1, <2>2 DEF Facts
  <2> QED
    BY <1>2, <2>2, <2>3, <2>4 DEF Colored
<1> QED
  BY <1>1, <1>4, <1>5, <1>6 DEF Sound, Extra, Facts, u

(* b is the brother of c, and near and far are its nephews.                *)
Nephews(tr, p, s, b, near, far) ==
    /\ b = tr.kid[p][Other(s)]
    /\ near = tr.kid[b][s] /\ far = tr.kid[b][Other(s)]
    /\ tr.color[b] = Black

(* Case 3: the brother sinks below the red near nephew.                    *)
LEMMA RemoveCase3 ==
  ASSUME MaxKey \in Nat, NEW N, NEW tr, NEW c, Sound(N, tr, "removeFix", c),
         NEW p, NEW s, Short(N, tr, c, p, s),
         NEW b, NEW near, NEW far, Nephews(tr, p, s, b, near, far),
         tr.color[near] = Red, tr.color[far] = Black
  PROVE  /\ Sound(N, Rotate(Repainted(tr, near, Black, b, Red), b, Other(s)), "removeFix", c)
         /\ Rotate(Repainted(tr, near, Black, b, Red), b, Other(s)).data = tr.data
<1> DEFINE o == Other(s)
           v == Repainted(tr, near, Black, b, Red)
           u == Rotate(v, b, o)
           inner == tr.kid[near][o]
<1>1. Facts(N, tr) /\ Leveled(N, tr, c)
  BY SoundFacts DEF Sound, Extra
<1>2. /\ p \in N /\ s \in Sides /\ tr.kid[p][s] = c /\ tr.parent[c] = p
      /\ c \in N \/ (c = Nil /\ s = OnSide(tr, p, Nil))
      /\ tr.color[c] = Black /\ c # p
      /\ b \in N /\ tr.parent[b] = p /\ b # tr.root /\ b # p /\ b # c
      /\ tr.color[tr.root] = Black
      /\ \A x \in N : ~RedPair(tr, x)
  BY DEF Short, Nephews
<1>3. o \in Sides /\ Other(o) = s /\ o # s /\ \A z \in Sides : z = s \/ z = o
  BY <1>2, SidesAre
<1>0. near = tr.kid[b][s] /\ far = tr.kid[b][Other(s)]
  BY DEF Nephews
<1>4. /\ near \in N /\ near # b /\ tr.parent[near] = b /\ near # p /\ near # c /\ near # tr.root
  <2>1. near \in N /\ near # b /\ tr.parent[near] = b
    BY <1>0, <1>1, <1>2 DEF Facts, KidsHold
  <2> QED
    BY <1>1, <1>2, <2>1 DEF Facts, ParentsMatch
<1>5. inner # Nil => inner \in N /\ tr.parent[inner] = near /\ tr.color[inner] = Black
  <2> SUFFICES ASSUME inner # Nil PROVE inner \in N /\ tr.parent[inner] = near /\ tr.color[inner] = Black
    OBVIOUS
  <2>1. inner \in N /\ tr.parent[inner] = near
    BY <1>1, <1>3, <1>4 DEF Facts, KidsHold
  <2>2. inner # tr.root
    BY <1>1, <1>4, <2>1 DEF Facts, RootHolds
  <2> QED
    BY <1>1, <1>2, <2>1, <2>2 DEF RedPair, Facts
<1>6. /\ v \in Trees /\ SameLinks(v, tr) /\ v.data = tr.data
      /\ \A z \in Ptr : v.color[z] = IF z = b THEN Red ELSE IF z = near THEN Black ELSE tr.color[z]
  <2>1. /\ tr \in Trees /\ Shaped(N, tr) /\ near \in N /\ b \in N /\ N \subseteq Keys
        /\ Black \in {Red, Black} /\ Red \in {Red, Black}
    BY <1>1, <1>2, <1>4 DEF Facts
  <2> QED
    BY <2>1, RepaintedIs
<1> HIDE DEF v, u, o
<1>7. /\ Sunk(N, u, tr, b, o, near) /\ Shaped(N, u) /\ u \in Trees
      /\ u.color = v.color /\ u.data = v.data
  <2>1. Sinks(N, u, tr, v, b, o, near)
    <3>1. near = tr.kid[b][Other(o)] /\ near # Nil
      BY <1>0, <1>1, <1>3, <1>4 DEF Facts
    <3> QED
      BY <1>1, <1>2, <1>3, <1>6, <3>1, RotateSinks DEF u, Facts
  <2> QED
    BY <2>1 DEF Sinks
<1>8. \A z \in N \cup {Nil} : u.color[z] = IF z = b THEN Red ELSE IF z = near THEN Black ELSE tr.color[z]
  BY <1>1, <1>6, <1>7 DEF Facts
<1>9. Leveled(N, u, c)
  <2>1. PICK bh \in [Keys -> Nat] : Even(N, tr, bh, c)
    BY <1>1 DEF Leveled
  <2>2. /\ N \subseteq Keys /\ Family(N, tr) /\ b \in N /\ o \in Sides /\ near \in N
        /\ near = tr.kid[b][Other(o)] /\ Sunk(N, u, tr, b, o, near)
        /\ c # b /\ c # near /\ tr.color[near] = Red /\ u.color[b] = Red
        /\ u.color[near] = tr.color[b]
        /\ \A x \in N : x # b /\ x # near => u.color[x] = tr.color[x]
    BY <1>0, <1>1, <1>2, <1>3, <1>4, <1>7, <1>8 DEF Facts, Nephews
  <2>3. c = Nil => /\ tr.parent[Nil] # near
                   /\ tr.parent[Nil] = b => tr.kid[near][o] # Nil
    BY <1>2, <1>4
  <2>4. Even(N, u, bh, c)
    BY <2>1, <2>2, <2>3, RedTurn
  <2> QED
    BY <2>4 DEF Leveled
<1>10. /\ u.root = tr.root
       /\ \A x \in N \cup {Nil} : u.parent[x] = IF x = b THEN near
                        ELSE IF x = near THEN p
                        ELSE IF x # Nil /\ x = inner THEN b
                        ELSE tr.parent[x]
       /\ \A x \in N : \A z \in Sides :
          u.kid[x][z] = IF x = b /\ z = s THEN inner
                        ELSE IF x = near /\ z = o THEN b
                        ELSE IF tr.kid[x][z] = b THEN near
                        ELSE tr.kid[x][z]
  BY <1>0, <1>2, <1>3, <1>7 DEF Sunk
<1> HIDE DEF inner
<1>11. Colored(N, u, "removeFix", c)
  <2>1. tr.root \in N
    BY <1>1, <1>2 DEF Facts, RootHolds
  <2>0. Red # Black /\ tr.color[Nil] = Black /\ \A x \in N : x # Nil
    BY <1>1 DEF Facts
  <2>2. u.color[Nil] = Black /\ u.color[u.root] = Black
    BY <1>2, <1>4, <1>8, <1>10, <2>0, <2>1
  <2>3. ASSUME NEW x \in N, RedPair(u, x)
        PROVE  FALSE
    <3>1. x # b /\ x # near /\ tr.color[x] = Red /\ x # tr.root
      BY <1>2, <1>4, <1>8, <1>10, <2>0, <2>3 DEF RedPair
    <3>2. x # inner
      BY <1>1, <1>5, <3>1 DEF Facts
    <3>3. u.parent[x] = tr.parent[x] /\ tr.parent[x] \in N
      BY <1>1, <1>10, <3>1, <3>2 DEF Facts, ParentsMatch
    <3>4. tr.parent[x] # b
      <4> SUFFICES ASSUME tr.parent[x] = b PROVE FALSE
        OBVIOUS
      <4>1. PICK z \in Sides : tr.kid[b][z] = x
        BY <1>1, <3>1 DEF Facts, ParentsMatch
      <4> QED
        BY <1>0, <1>1, <1>3, <3>1, <4>1 DEF Facts, o
    <3>5. tr.color[tr.parent[x]] = Red
      BY <1>1, <1>8, <2>3, <3>3, <3>4 DEF RedPair, Facts
    <3> QED
      BY <1>2, <3>1, <3>5 DEF RedPair
  <2>4. u.color[u.root] # Red
    BY <1>1, <2>2 DEF Facts
  <2>5. c = Nil => NilHangs(N, u)
    <3> SUFFICES ASSUME c = Nil PROVE u.parent[Nil] \in N /\ \E z \in Sides : u.kid[u.parent[Nil]][z] = Nil
      BY DEF NilHangs
    <3>1. u.parent[Nil] = p
      BY <1>2, <1>4, <1>10, <2>0
    <3>2. u.kid[p][s] = Nil
      BY <1>2, <1>4, <1>10
    <3> QED
      BY <1>2, <3>1, <3>2
  <2> QED
    BY <1>2, <2>2, <2>3, <2>4, <2>5 DEF Colored
<1> QED
  BY <1>1, <1>6, <1>7, <1>9, <1>11 DEF Sound, Extra, Facts, u, v, o

(* The colors of case 4.                                                   *)
Handed(tr, b, p, far) ==
    [tr EXCEPT !.color = [@ EXCEPT ![b] = tr.color[p], ![p] = Black, ![far] = Black]]

LEMMA HandedIs ==
  ASSUME NEW tr \in Trees, NEW b \in Ptr, NEW p \in Ptr, NEW far \in Ptr, b # p, far # b
  PROVE  /\ Handed(tr, b, p, far) \in Trees /\ SameLinks(Handed(tr, b, p, far), tr)
         /\ Handed(tr, b, p, far).data = tr.data
         /\ \A z \in Ptr : Handed(tr, b, p, far).color[z] =
               IF z = p \/ z = far THEN Black ELSE IF z = b THEN tr.color[p] ELSE tr.color[z]
<1> DEFINE u == Handed(tr, b, p, far)
           k == tr.color
           j == [k EXCEPT ![b] = k[p], ![p] = Black, ![far] = Black]
<1>1. k \in [Ptr -> {Red, Black}] /\ tr = Tree(tr.root, tr.kid, tr.parent, k, tr.data)
  BY IsTree
<1>2. u = Tree(tr.root, tr.kid, tr.parent, j, tr.data)
  BY <1>1, SMT DEF Handed, Tree
<1> HIDE DEF k
<1>3. /\ j \in [Ptr -> {Red, Black}]
      /\ \A z \in Ptr : j[z] = IF z = p \/ z = far THEN Black ELSE IF z = b THEN k[p] ELSE k[z]
  BY <1>1
<1> HIDE DEF j, u
<1>4. u \in Trees /\ u.color = j /\ u.root = tr.root /\ u.kid = tr.kid /\ u.parent = tr.parent /\ u.data = tr.data
  <2>1. /\ tr.root \in Ptr /\ tr.kid \in [Ptr -> [Sides -> Ptr]]
        /\ tr.parent \in [Ptr -> Ptr] /\ tr.data \in [Keys -> Datas]
    BY IsTree
  <2>2. u \in Trees
    BY <1>2, <1>3, <2>1, Zenon DEF Tree, Trees
  <2> QED
    BY <1>2, <2>2, SMT DEF Tree
<1>5. SameLinks(u, tr)
  BY <1>4 DEF SameLinks
<1> QED
  BY <1>3, <1>4, <1>5 DEF k, u

(* Case 4: p sinks below its brother, and nothing is missing any more.     *)
LEMMA RemoveCase4 ==
  ASSUME MaxKey \in Nat, NEW N, NEW tr, NEW c, Sound(N, tr, "removeFix", c),
         NEW p, NEW s, Short(N, tr, c, p, s),
         NEW b, NEW near, NEW far, Nephews(tr, p, s, b, near, far),
         tr.color[far] = Red
  PROVE  /\ Sound(N, Rotate(Handed(tr, b, p, far), p, s), "removeFix",
                  Rotate(Handed(tr, b, p, far), p, s).root)
         /\ Rotate(Handed(tr, b, p, far), p, s).data = tr.data
<1> DEFINE o == Other(s)
           v == Handed(tr, b, p, far)
           u == Rotate(v, p, s)
<1>1. Facts(N, tr) /\ Leveled(N, tr, c)
  BY SoundFacts DEF Sound, Extra
<1>2. /\ p \in N /\ s \in Sides /\ tr.kid[p][s] = c /\ tr.parent[c] = p
      /\ c \in N \/ (c = Nil /\ s = OnSide(tr, p, Nil))
      /\ tr.color[c] = Black /\ c # p
      /\ b \in N /\ tr.parent[b] = p /\ b # tr.root /\ b # p /\ b # c
      /\ tr.parent[p] # b
      /\ tr.color[tr.root] = Black
      /\ \A x \in N : ~RedPair(tr, x)
  BY DEF Short, Nephews
<1>3. o \in Sides /\ Other(o) = s /\ o # s /\ \A z \in Sides : z = s \/ z = o
  BY <1>2, SidesAre
<1>0. /\ b = tr.kid[p][Other(s)] /\ near = tr.kid[b][s] /\ far = tr.kid[b][Other(s)]
      /\ tr.color[b] = Black
  BY DEF Nephews
<1>4. far \in N /\ far # b /\ tr.parent[far] = b /\ far # p
  <2>1. far \in N /\ far # b /\ tr.parent[far] = b
    <3>1. KidsUp(N, tr)
      BY <1>1, KidsAreUp DEF Facts
    <3>2. far # Nil
      BY <1>1 DEF Facts, Red, Black
    <3> QED
      BY <1>0, <1>2, <1>3, <3>1, <3>2 DEF KidsUp
  <2> QED
    BY <1>1, <1>2, <2>1 DEF Facts, ParentsMatch
<1>5. /\ v \in Trees /\ SameLinks(v, tr) /\ v.data = tr.data
      /\ \A z \in Ptr : v.color[z] = IF z = p \/ z = far THEN Black
                                     ELSE IF z = b THEN tr.color[p] ELSE tr.color[z]
  <2>1. /\ tr \in Trees /\ b \in Ptr /\ p \in Ptr /\ far \in Ptr
        /\ b # p /\ far # b
    BY <1>1, <1>2, <1>4 DEF Facts
  <2> QED
    BY <2>1, HandedIs
<1> HIDE DEF v, u, o
<1>7. /\ Sunk(N, u, tr, p, s, b) /\ Shaped(N, u) /\ u \in Trees
      /\ u.color = v.color /\ u.data = v.data
  <2>1. Sinks(N, u, tr, v, p, s, b)
    <3>1. b # Nil
      BY <1>1, <1>2 DEF Facts
    <3> QED
      BY <1>0, <1>1, <1>2, <1>5, <3>1, RotateSinks DEF u, Facts
  <2> QED
    BY <2>1 DEF Sinks
<1>8. \A z \in N \cup {Nil} : u.color[z] = IF z = p \/ z = far THEN Black
                                           ELSE IF z = b THEN tr.color[p] ELSE tr.color[z]
  BY <1>1, <1>5, <1>7 DEF Facts
<1>9. Leveled(N, u, Nobody)
  <2>1. /\ N \subseteq Keys /\ Family(N, tr) /\ p \in N /\ s \in Sides /\ b \in N
        /\ far \in N /\ Leveled(N, tr, c)
    BY <1>1, <1>2, <1>4 DEF Facts
  <2>2. LastTurned(N, u, tr, p, s, b, near, far, c)
    BY <1>0, <1>1, <1>2, <1>4, <1>7, <1>8 DEF Facts, LastTurned
  <2> QED
    BY <2>1, <2>2, LastTurn
<1>10. /\ u.root = IF p = tr.root THEN b ELSE tr.root
       /\ \A x \in N \cup {Nil} : u.parent[x] = IF x = p THEN b
                        ELSE IF x = b THEN tr.parent[p]
                        ELSE IF x # Nil /\ x = near THEN p
                        ELSE tr.parent[x]
  BY <1>0, <1>7 DEF Sunk
<1>11. u.root \in N
  BY <1>1, <1>2, <1>10 DEF Facts, RootHolds
<1>12. Leveled(N, u, u.root)
  <2>1. SameLinks(u, u) /\ \A x \in N : x # u.root => u.color[x] = u.color[x]
    BY DEF SameLinks
  <2>2. Family(N, u) /\ N \subseteq Keys
    BY <1>1, <1>7, ShapeFamily DEF Facts
  <2>3. Nobody \in {Nobody, u.root} /\ u.root \in {Nobody, u.root}
    OBVIOUS
  <2> QED
    BY <1>9, <2>1, <2>2, <2>3, RootCounts
<1>13. Colored(N, u, "removeFix", u.root)
  <2>0. Red # Black /\ tr.color[Nil] = Black /\ \A x \in N : x # Nil
    BY <1>1 DEF Facts
  <2>1. u.color[Nil] = Black
    BY <1>2, <1>4, <1>8, <2>0
  <2>3. ASSUME NEW x \in N, RedPair(u, x)
        PROVE  FALSE
    <3>1. x # p /\ x # far
      BY <1>8, <2>0, <2>3 DEF RedPair
    <3>2. CASE x = b
      <4>1. tr.color[p] = Red /\ p # tr.root
        BY <1>2, <1>8, <1>10, <2>0, <2>3, <3>1, <3>2 DEF RedPair
      <4>2. tr.parent[p] \in N /\ u.parent[x] = tr.parent[p]
        BY <1>1, <1>2, <1>10, <3>2, <4>1 DEF Facts, ParentsMatch
      <4>3. tr.color[tr.parent[p]] = Red
        BY <1>2, <1>8, <2>0, <2>3, <4>2 DEF RedPair
      <4> QED
        BY <1>2, <4>1, <4>3 DEF RedPair
    <3>3. CASE x # b
      <4>1. tr.color[x] = Red /\ x # tr.root
        BY <1>2, <1>8, <2>0, <2>3, <3>1, <3>3 DEF RedPair
      <4>2. x # near
        BY <1>2, <1>8, <1>10, <2>0, <2>3, <3>1, <3>3 DEF RedPair
      <4>3. u.parent[x] = tr.parent[x] /\ tr.parent[x] \in N
        BY <1>1, <1>10, <3>1, <3>3, <4>1, <4>2 DEF Facts, ParentsMatch
      <4>4. tr.parent[x] # b
        <5> SUFFICES ASSUME tr.parent[x] = b PROVE FALSE
          OBVIOUS
        <5>1. PICK z \in Sides : tr.kid[b][z] = x
          BY <1>1, <4>1 DEF Facts, ParentsMatch
        <5> QED
          BY <1>0, <1>3, <3>1, <4>2, <5>1 DEF o
      <4>5. tr.color[tr.parent[x]] = Red
        BY <1>8, <2>0, <2>3, <4>3, <4>4 DEF RedPair
      <4> QED
        BY <1>2, <4>1, <4>5 DEF RedPair
    <3> QED
      BY <3>2, <3>3
  <2> QED
    BY <1>11, <2>1, <2>3 DEF Colored
<1> QED
  BY <1>1, <1>5, <1>7, <1>12, <1>13 DEF Sound, Extra, Facts, u, v

(* Every step keeps the tree sound, and no turn of a loop touches the data.*)

LEMMA InsertTurn ==
  ASSUME MaxKey \in Nat, Sound(nodes, t, pc, cur), InsertFix
  PROVE  Sound(nodes, t', "insertFix", cur') /\ t'.data = t.data
<1> DEFINE p == t.parent[cur]
           g == t.parent[p]
           s == SideOf(p)
           uncle == t.kid[g][Other(s)]
<1>1. Sound(nodes, t, "insertFix", cur) /\ t.color[p] = Red
  BY DEF InsertFix
<1>2. Generations(nodes, t, cur, p, g, s)
  <2>1. s = OnSide(t, g, p)
    BY DEF SideOf, OnSide
  <2> HIDE DEF s
  <2> QED
    BY <1>1, <2>1, InsertNear
<1>3. \/ /\ t.color[uncle] = Red
         /\ t' = Paint(Paint(Paint(t, p, Black), uncle, Black), g, Red)
         /\ cur' = g
      \/ /\ t.color[uncle] = Black /\ cur = t.kid[p][Other(s)]
         /\ t' = Rotate(t, p, s)
         /\ cur' = p
      \/ /\ t.color[uncle] = Black /\ cur # t.kid[p][Other(s)]
         /\ t' = Rotate(Paint(Paint(t, p, Black), g, Red), g, Other(s))
         /\ cur' = cur
  BY DEF InsertFix
<1> HIDE DEF p, g, s
<1>4. ASSUME t.color[uncle] = Red
      PROVE  /\ Sound(nodes, Paint(Paint(Paint(t, p, Black), uncle, Black), g, Red), "insertFix", g)
             /\ Paint(Paint(Paint(t, p, Black), uncle, Black), g, Red).data = t.data
  BY <1>1, <1>2, <1>4, InsertCase1
<1>5. ASSUME cur = t.kid[p][Other(s)]
      PROVE  Sound(nodes, Rotate(t, p, s), "insertFix", p) /\ Rotate(t, p, s).data = t.data
  BY <1>1, <1>2, <1>5, InsertCase2
<1>6. ASSUME t.color[uncle] = Black, cur # t.kid[p][Other(s)]
      PROVE  /\ Sound(nodes, Rotate(Paint(Paint(t, p, Black), g, Red), g, Other(s)), "insertFix", cur)
             /\ Rotate(Paint(Paint(t, p, Black), g, Red), g, Other(s)).data = t.data
  BY <1>1, <1>2, <1>6, InsertCase3
<1> HIDE DEF uncle
<1> QED
  BY <1>3, <1>4, <1>5, <1>6

(* A turn of rb_remove_fix once the brother is black.                      *)
Turns(tr, c, p, s, b, near, far, u, c2) ==
    \/ /\ tr.color[near] = Black /\ tr.color[far] = Black
       /\ u = Paint(tr, b, Red)
       /\ c2 = p
    \/ /\ tr.color[near] = Red /\ tr.color[far] = Black
       /\ u = Rotate(Repainted(tr, near, Black, b, Red), b, Other(s))
       /\ c2 = c
    \/ /\ tr.color[far] = Red
       /\ u = Rotate(Handed(tr, b, p, far), p, s)
       /\ c2 = u.root

LEMMA BlackTurn ==
  ASSUME MaxKey \in Nat, NEW N, NEW tr, NEW c, NEW p, NEW s,
         Sound(N, tr, "removeFix", c), Short(N, tr, c, p, s),
         NEW b, NEW near, NEW far, Nephews(tr, p, s, b, near, far),
         NEW u, NEW c2, Turns(tr, c, p, s, b, near, far, u, c2)
  PROVE  Sound(N, u, "removeFix", c2) /\ u.data = tr.data
<1>1. CASE /\ tr.color[near] = Black /\ tr.color[far] = Black
           /\ u = Paint(tr, b, Red)
           /\ c2 = p
  <2>1. /\ b = tr.kid[p][Other(s)] /\ tr.color[b] = Black
        /\ tr.color[tr.kid[b][s]] = Black /\ tr.color[tr.kid[b][Other(s)]] = Black
    BY <1>1 DEF Nephews
  <2>2. Sound(N, Paint(tr, b, Red), "removeFix", p) /\ Paint(tr, b, Red).data = tr.data
    BY <2>1, RemoveCase2
  <2> QED
    BY <1>1, <2>2
<1>2. CASE /\ tr.color[near] = Red /\ tr.color[far] = Black
           /\ u = Rotate(Repainted(tr, near, Black, b, Red), b, Other(s))
           /\ c2 = c
  <2>1. tr.color[near] = Red /\ tr.color[far] = Black
    BY <1>2
  <2>2. /\ Sound(N, Rotate(Repainted(tr, near, Black, b, Red), b, Other(s)), "removeFix", c)
        /\ Rotate(Repainted(tr, near, Black, b, Red), b, Other(s)).data = tr.data
    BY <2>1, RemoveCase3
  <2> QED
    BY <1>2, <2>2
<1>3. CASE /\ tr.color[far] = Red
           /\ u = Rotate(Handed(tr, b, p, far), p, s)
           /\ c2 = u.root
  <2>1. tr.color[far] = Red
    BY <1>3
  <2>2. /\ Sound(N, Rotate(Handed(tr, b, p, far), p, s), "removeFix",
                  Rotate(Handed(tr, b, p, far), p, s).root)
        /\ Rotate(Handed(tr, b, p, far), p, s).data = tr.data
    BY <2>1, RemoveCase4
  <2> QED
    BY <1>3, <2>2
<1> QED
  BY <1>1, <1>2, <1>3 DEF Turns

LEMMA RemoveTurn ==
  ASSUME MaxKey \in Nat, Sound(nodes, t, pc, cur), RemoveFix
  PROVE  Sound(nodes, t', "removeFix", cur') /\ t'.data = t.data
<1> DEFINE p == t.parent[cur]
           s == SideOf(cur)
           old == t.kid[p][Other(s)]
           t1 == IF t.color[old] = Red
                 THEN Rotate(Paint(Paint(t, old, Black), p, Red), p, s)
                 ELSE t
           b == t1.kid[p][Other(s)]
           near == t1.kid[b][s]
           far  == t1.kid[b][Other(s)]
<1>1. Sound(nodes, t, "removeFix", cur) /\ cur # t.root /\ t.color[cur] = Black
  BY DEF RemoveFix
<1>2. Short(nodes, t, cur, p, s)
  <2>1. s = OnSide(t, p, cur)
    BY DEF SideOf, OnSide
  <2> HIDE DEF s
  <2> QED
    BY <1>1, <2>1, ShortNear
<1>3. Turns(t1, cur, p, s, b, near, far, t', cur')
  BY DEF RemoveFix, Repainted, Handed, Turns
<1> HIDE DEF p, s
<1>4. /\ Sound(nodes, t1, "removeFix", cur) /\ Short(nodes, t1, cur, p, s)
      /\ t1.color[b] = Black /\ t1.data = t.data
  <2>1. CASE t.color[old] = Red
    <3>1. BelowBlack(nodes, Rotate(Repainted(t, old, Black, p, Red), p, s), t, cur, p, s)
      BY <1>1, <1>2, <2>1, RemoveCase1
    <3>2. t1 = Rotate(Repainted(t, old, Black, p, Red), p, s)
      BY <2>1 DEF Repainted
    <3> HIDE DEF t1
    <3> QED
      BY <3>1, <3>2 DEF BelowBlack
  <2>2. CASE t.color[old] # Red
    <3>1. t1 = t
      BY <2>2
    <3>2. t.color[old] = Black
      <4>1. old \in nodes
        BY <1>2 DEF Short
      <4>2. old \in Ptr
        BY <1>1, <4>1, SoundFacts DEF Facts
      <4> QED
        BY <1>1, <2>2, <4>2, SoundFacts DEF Facts
    <3> HIDE DEF t1
    <3> QED
      BY <1>1, <1>2, <3>1, <3>2
  <2> QED
    BY <2>1, <2>2
<1> HIDE DEF t1
<1>5. Sound(nodes, t', "removeFix", cur') /\ t'.data = t1.data
  <2>1. Nephews(t1, p, s, b, near, far)
    BY <1>4 DEF Nephews
  <2> HIDE DEF b, near, far
  <2> QED
    BY <1>3, <1>4, <2>1, BlackTurn
<1> QED
  BY <1>4, <1>5

-----------------------------------------------------------------------------
(* THE STEPS, and the inductive invariant.                                 *)

LEMMA SearchFinds ==
  ASSUME MaxKey \in Nat, NEW p, NEW c, Sound(nodes, t, p, c), NEW k \in Keys
  PROVE  Lookup(k) = IF k \in nodes THEN k ELSE Nil
  BY LookupIs DEF Sound

LEMMA InsertStep ==
  ASSUME MaxKey \in Nat, Sound(nodes, t, pc, cur), NEW k \in Keys, NEW d \in Datas, Insert(k, d)
  PROVE  /\ k \notin nodes
         /\ Sound(nodes', t', pc', cur')
         /\ \A x \in Keys : t'.data[x] = IF x = k THEN d ELSE t.data[x]
<1> DEFINE par == LastNode(k)
           s == IF k < par THEN "left" ELSE "right"
           t1 == Blank(t, k, par, d)
<1>1. Sound(nodes, t, "idle", Nil)
  BY DEF Insert, Sound, Colored
<1>2. k \notin nodes
  <2>1. Lookup(k) = Nil /\ k # Nil
    BY DEF Insert, Keys, Nil
  <2> QED
    BY <1>1, <2>1, SearchFinds
<1>3. /\ nodes' = nodes \cup {k} /\ cur' = k /\ pc' = "insertFix"
      /\ t' = IF par = Nil THEN [t1 EXCEPT !.root = k] ELSE [t1 EXCEPT !.kid[par][s] = k]
  BY DEF Insert, Blank
<1> HIDE DEF t1
<1>4. par = Nil <=> t.root = Nil
  <2>1. nodes \subseteq Keys /\ t \in Trees /\ \A x \in nodes : x # Nil
    BY <1>1, SoundFamily DEF Sound
  <2>2. PICK lo \in [Keys -> Int], hi \in [Keys -> Int] : Shape(nodes, t, lo, hi)
    BY <1>1 DEF Sound, Shaped
  <2> HIDE DEF par
  <2>3. /\ t.root = Nil => par = Nil
        /\ t.root # Nil => par \in nodes
    BY <1>2, <2>1, <2>2, LastNodeIs DEF par
  <2> QED
    BY <2>1, <2>3
<1>5. CASE t.root = Nil
  <2> DEFINE u == SetRoot(Blank(t, k, Nil, d), k)
  <2>1. t' = u
    BY <1>3, <1>4, <1>5 DEF SetRoot, t1
  <2>2. /\ Sound(nodes \cup {k}, u, "insertFix", k)
        /\ \A x \in Keys : u.data[x] = IF x = k THEN d ELSE t.data[x]
    BY <1>1, <1>2, <1>5, FirstSound
  <2> HIDE DEF u
  <2> QED
    BY <1>2, <1>3, <2>1, <2>2
<1>6. CASE t.root # Nil
  <2>1. t' = Hooked(k, d)
    BY <1>3, <1>4, <1>6 DEF SetKid, Hooked, Towards, t1
  <2>2. /\ Sound(nodes \cup {k}, Hooked(k, d), "insertFix", k)
        /\ \A x \in Keys : Hooked(k, d).data[x] = IF x = k THEN d ELSE t.data[x]
    <3>1. /\ MaxKey \in Nat /\ Sound(nodes, t, "idle", Nil) /\ k \in Keys
          /\ k \notin nodes /\ d \in Datas /\ t.root # Nil
      BY <1>1, <1>2, <1>6
    <3>2. HookedSoundly(nodes, k, d)
      BY <3>1, InsertSound
    <3> QED
      BY <3>2 DEF HookedSoundly
  <2> QED
    BY <1>2, <1>3, <2>1, <2>2
<1> QED
  BY <1>5, <1>6

LEMMA RemoveStep ==
  ASSUME MaxKey \in Nat, Datas # {}, Sound(nodes, t, pc, cur), NEW k \in Keys, Remove(k)
  PROVE  /\ k \in nodes
         /\ Sound(nodes', t', pc', cur')
         /\ \A x \in Keys : x # k => t'.data[x] = t.data[x]
<1> DEFINE sp == Splice(k)
<1>1. Sound(nodes, t, "idle", Nil)
  BY DEF Remove, Sound, Colored
<1>2. k \in nodes
  <2>1. Lookup(k) = k /\ k # Nil
    BY DEF Remove, Keys, Nil
  <2> QED
    BY <1>1, <2>1, SearchFinds
<1>3. /\ nodes' = nodes \ {k} /\ t' = Forget(sp.tree, k)
      /\ IF sp.color = Black THEN pc' = "removeFix" /\ cur' = sp.replace ELSE pc' = "idle" /\ cur' = Nil
  BY DEF Remove, Answer
<1> HIDE DEF sp
<1>4. pc' = FixOf(sp.color) /\ cur' = FixAt(sp.color, sp.replace)
  BY <1>3 DEF FixOf, FixAt
<1>5. /\ Sound(nodes \ {k}, Forget(sp.tree, k), FixOf(sp.color), FixAt(sp.color, sp.replace))
      /\ \A x \in Keys : x # k => Forget(sp.tree, k).data[x] = t.data[x]
  BY <1>1, <1>2, RemoveSound DEF sp
<1> QED
  BY <1>2, <1>3, <1>4, <1>5

LEMMA InsertDoneStep ==
  ASSUME MaxKey \in Nat, Sound(nodes, t, pc, cur), InsertDone
  PROVE  Sound(nodes', t', pc', cur') /\ t'.data = t.data
<1>1. /\ Sound(nodes, t, "insertFix", cur) /\ t.color[t.parent[cur]] = Black
      /\ t' = Paint(t, t.root, Black) /\ pc' = "idle" /\ cur' = Nil /\ nodes' = nodes
  BY DEF InsertDone, Answer
<1>2. Sound(nodes, Paint(t, t.root, Black), "idle", Nil) /\ Paint(t, t.root, Black).data = t.data
  BY <1>1, InsertDoneSound
<1> QED
  BY <1>1, <1>2

LEMMA RemoveDoneStep ==
  ASSUME MaxKey \in Nat, Sound(nodes, t, pc, cur), RemoveDone
  PROVE  Sound(nodes', t', pc', cur') /\ t'.data = t.data
<1>1. /\ Sound(nodes, t, "removeFix", cur)
      /\ cur = t.root \/ t.color[cur] = Red
      /\ t' = Paint(t, cur, Black) /\ pc' = "idle" /\ cur' = Nil /\ nodes' = nodes
  BY DEF RemoveDone, Answer
<1>2. Sound(nodes, Paint(t, cur, Black), "idle", Nil) /\ Paint(t, cur, Black).data = t.data
  BY <1>1, RemoveDoneSound
<1> QED
  BY <1>1, <1>2

LEMMA AnswerStep ==
  ASSUME Sound(nodes, t, pc, cur), pc = "idle", NEW r, Answer(r), UNCHANGED <<nodes, t>>
  PROVE  Sound(nodes', t', pc', cur')
  BY DEF Answer, Sound, Colored

LEMMA DestroyStep ==
  ASSUME MaxKey \in Nat, Sound(nodes, t, pc, cur), Destroy
  PROVE  Sound(nodes', t', pc', cur') /\ nodes' = {}
<1>1. Sound(nodes, t, "idle", Nil) /\ cur = Nil
  BY DEF Destroy, Sound, Colored
<1>2. Reached = nodes
  BY <1>1, ReachedIs DEF Sound
<1>3. Sound(nodes \ Reached, [t EXCEPT !.root = Nil], "destroyed", Nil)
  BY <1>1, <1>2, DestroySound
<1> QED
  BY <1>1, <1>2, <1>3 DEF Destroy

(* The inductive invariant.                                                *)
TreeInv == TreeTypeOK /\ Sound(nodes, t, pc, cur)

LEMMA InvHolds ==
  ASSUME MaxKey \in Nat, Datas # {}
  PROVE  SpecTree => []TreeInv
<1>1. InitTree => TreeInv
  <2> SUFFICES ASSUME InitTree PROVE TreeInv
    OBVIOUS
  <2>1. nodes = {} /\ pc = "idle" /\ cur = Nil
    BY DEF InitTree
  <2> QED
    BY <2>1, InitSound DEF TreeInv
<1>2. TreeInv /\ [NextTree]_treeVars => TreeInv'
  <2> SUFFICES ASSUME TreeInv, [NextTree]_treeVars PROVE TreeInv'
    OBVIOUS
  <2>1. TreeTypeOK /\ Sound(nodes, t, pc, cur)
    BY DEF TreeInv
  <2> DEFINE Answered == \/ ret' = NoAnswer
                         \/ ret'.op \in {"insert", "remove", "find"} /\ ret'.code \in {-1, 0}
  <2>2. ASSUME Sound(nodes', t', pc', cur'),
               pc' \in {"idle", "insertFix", "removeFix", "destroyed"}, Answered
        PROVE  TreeInv'
    <3>1. /\ nodes' \subseteq Keys /\ t' \in Trees
          /\ cur' \in nodes' \/ cur' = Nil
      BY <2>2 DEF Sound, Colored
    <3>2. cur' \in Ptr
      BY <3>1 DEF Ptr
    <3> QED
      BY <2>2, <3>1, <3>2 DEF TreeInv, TreeTypeOK
  <2>3. UNCHANGED ret => Answered
    BY <2>1 DEF TreeTypeOK
  <2>4. ASSUME NEW k \in Keys, InsertExists(k)
        PROVE  TreeInv'
    BY <2>1, <2>2, <2>4, AnswerStep DEF InsertExists, Answer
  <2>5. ASSUME NEW k \in Keys, RemoveMissing(k)
        PROVE  TreeInv'
    BY <2>1, <2>2, <2>5, AnswerStep DEF RemoveMissing, Answer
  <2>6. ASSUME NEW k \in Keys, Find(k)
        PROVE  TreeInv'
    <3>1. Sound(nodes', t', pc', cur')
      BY <2>1, <2>6, AnswerStep DEF Find
    <3> QED
      BY <2>2, <2>6, <3>1 DEF Find, Answer
  <2>7. ASSUME NEW k \in Keys, Remove(k)
        PROVE  TreeInv'
    <3>1. Sound(nodes', t', pc', cur')
      BY <2>1, <2>7, RemoveStep
    <3>2. /\ pc' \in {"idle", "removeFix"}
          /\ ret' = [op |-> "remove", key |-> k, code |-> 0]
      BY <2>7 DEF Remove, Answer
    <3> QED
      BY <2>2, <3>1, <3>2
  <2>8. ASSUME NEW k \in Keys, NEW d \in Datas, Insert(k, d)
        PROVE  TreeInv'
    <3>1. Sound(nodes', t', pc', cur')
      BY <2>1, <2>8, InsertStep
    <3>2. pc' = "insertFix" /\ ret' = [op |-> "insert", key |-> k, code |-> 0]
      BY <2>8 DEF Insert
    <3> QED
      BY <2>2, <3>1, <3>2
  <2>9. ASSUME Destroy
        PROVE  TreeInv'
    <3>1. Sound(nodes', t', pc', cur')
      BY <2>1, <2>9, DestroyStep
    <3> QED
      BY <2>2, <2>3, <2>9, <3>1 DEF Destroy
  <2>10. ASSUME InsertFix
         PROVE  TreeInv'
    <3>1. Sound(nodes, t', "insertFix", cur')
      BY <2>1, <2>10, InsertTurn
    <3>2. nodes' = nodes /\ pc' = "insertFix" /\ ret' = ret
      BY <2>10 DEF InsertFix
    <3> QED
      BY <2>2, <2>3, <3>1, <3>2
  <2>11. ASSUME RemoveFix
         PROVE  TreeInv'
    <3>1. Sound(nodes, t', "removeFix", cur')
      BY <2>1, <2>11, RemoveTurn
    <3>2. nodes' = nodes /\ pc' = "removeFix" /\ ret' = ret
      BY <2>11 DEF RemoveFix
    <3> QED
      BY <2>2, <2>3, <3>1, <3>2
  <2>12. ASSUME InsertDone
         PROVE  TreeInv'
    <3>1. Sound(nodes', t', pc', cur')
      BY <2>1, <2>12, InsertDoneStep
    <3> QED
      BY <2>2, <2>3, <2>12, <3>1 DEF InsertDone, Answer
  <2>13. ASSUME RemoveDone
         PROVE  TreeInv'
    <3>1. Sound(nodes', t', pc', cur')
      BY <2>1, <2>13, RemoveDoneStep
    <3> QED
      BY <2>2, <2>3, <2>13, <3>1 DEF RemoveDone, Answer
  <2>14. ASSUME UNCHANGED treeVars
         PROVE  TreeInv'
    BY <2>1, <2>14 DEF treeVars, TreeInv, TreeTypeOK
  <2>15. \A k \in Keys : (IF k \in Varied THEN Datas ELSE {AnyData}) \subseteq Datas
    BY DEF AnyData
  <2> HIDE DEF Answered
  <2> QED
    BY <2>4, <2>5, <2>6, <2>7, <2>8, <2>9, <2>10, <2>11, <2>12, <2>13, <2>14, <2>15
       DEF NextTree, Call, Fix
<1> QED
  BY <1>1, <1>2, PTL DEF SpecTree

-----------------------------------------------------------------------------
(* WHAT THE INVARIANT SAYS of the tree.                                    *)

LEMMA LinkedHolds ==
  ASSUME MaxKey \in Nat, TreeInv
  PROVE  Linked
<1>1. Sound(nodes, t, pc, cur)
  BY DEF TreeInv
<1>2. Facts(nodes, t)
  BY <1>1, SoundFacts
<1>3. nodes = Reached
  BY <1>2, ReachedIs DEF Facts
<1>4. t.root # Nil => t.parent[t.root] = Nil
  BY <1>2 DEF Facts, RootHolds
<1>5. ASSUME NEW n \in nodes, NEW s \in Sides, t.kid[n][s] # Nil
      PROVE  t.parent[t.kid[n][s]] = n /\ t.kid[n][s] # t.kid[n][Other(s)] /\ t.kid[n][s] # t.root
  <2>1. t.parent[t.kid[n][s]] = n /\ t.kid[n][s] # t.kid[n][Other(s)] /\ n # Nil
    BY <1>2, <1>5 DEF Facts, KidsHold
  <2> QED
    BY <1>4, <1>5, <2>1
<1> QED
  BY <1>3, <1>4, <1>5 DEF Linked

LEMMA RedsHold ==
  ASSUME MaxKey \in Nat, TreeInv
  PROVE  RedsApart
<1>1. Colored(nodes, t, pc, cur) /\ pc \in {"idle", "insertFix", "removeFix", "destroyed"}
  BY DEF TreeInv, Sound, TreeTypeOK
<1>2. \A n \in nodes : n # Nil
  BY SoundFamily DEF TreeInv
<1> QED
  BY <1>1, <1>2 DEF RedsApart, Colored, RedPair

LEMMA RelativesHold ==
  ASSUME MaxKey \in Nat, TreeInv
  PROVE  RelativesExist
<1>1. Sound(nodes, t, pc, cur)
  BY DEF TreeInv
<1>2. t.color[Nil] = Black
  BY <1>1 DEF Sound, Colored
<1>3. \A n \in nodes : n # Nil
  BY <1>1, SoundFamily
<1>4. ASSUME pc = "insertFix", t.color[t.parent[cur]] = Red
      PROVE  t.parent[t.parent[cur]] # Nil
  <2>1. Sound(nodes, t, "insertFix", cur)
    BY <1>1, <1>4
  <2>2. Generations(nodes, t, cur, t.parent[cur], t.parent[t.parent[cur]],
                    OnSide(t, t.parent[t.parent[cur]], t.parent[cur]))
    BY <1>4, <2>1, InsertNear
  <2> QED
    BY <1>3, <2>2 DEF Generations
<1>5. ASSUME pc = "removeFix", cur # t.root, t.color[cur] = Black
      PROVE  t.parent[cur] # Nil /\ t.kid[t.parent[cur]][Other(SideOf(cur))] # Nil
  <2>1. Sound(nodes, t, "removeFix", cur)
    BY <1>1, <1>5
  <2>2. Short(nodes, t, cur, t.parent[cur], OnSide(t, t.parent[cur], cur))
    BY <1>5, <2>1, ShortNear
  <2>3. SideOf(cur) = OnSide(t, t.parent[cur], cur)
    BY DEF SideOf, OnSide
  <2> QED
    BY <1>3, <2>2, <2>3 DEF Short
<1> QED
  BY <1>2, <1>4, <1>5 DEF RelativesExist

(* A set with one more element, or not.                                    *)
LEMMA OneMoreElement ==
  ASSUME NEW A, IsFiniteSet(A), NEW x, x \notin A
  PROVE  Cardinality(A \cup {x}) = Cardinality(A) + 1 /\ Cardinality(A) \in Nat
  BY FS_AddElement, FS_CardinalityType

Blacks(tr, A) == {m \in A : tr.color[m] = Black}

(* What BlacksAbove counts.                                                *)
Counted(tr, A, c) == Cardinality(Blacks(tr, A)) + (IF c \in A THEN 1 ELSE 0)

LEMMA CountedGrows ==
  ASSUME NEW tr, NEW A, IsFiniteSet(A), NEW x, x \notin A, NEW c
  PROVE  /\ Counted(tr, A, c) \in Nat
         /\ Counted(tr, {x} \cup A, c) = Counted(tr, A, c) + Weight(tr, x, c)
<1> DEFINE B == Blacks(tr, A)
           C == Blacks(tr, {x} \cup A)
<1>1. IsFiniteSet(B) /\ x \notin B
  <2>1. B \subseteq A
    BY DEF Blacks
  <2> QED
    BY <2>1, FS_Subset
<1>2. C = IF tr.color[x] = Black THEN B \cup {x} ELSE B
  BY DEF Blacks
<1> HIDE DEF B, C
<1>3. Cardinality(B \cup {x}) = Cardinality(B) + 1 /\ Cardinality(B) \in Nat
  BY <1>1, OneMoreElement
<1>4. Cardinality(C) = Cardinality(B) + (IF tr.color[x] = Black THEN 1 ELSE 0)
  BY <1>2, <1>3
<1>5. (IF c \in {x} \cup A THEN 1 ELSE 0) = (IF c \in A THEN 1 ELSE 0) + (IF x = c THEN 1 ELSE 0)
  OBVIOUS
<1>6. Counted(tr, {x} \cup A, c) = Cardinality(C) + (IF c \in {x} \cup A THEN 1 ELSE 0)
  BY DEF Counted, C
<1>7. Counted(tr, A, c) = Cardinality(B) + (IF c \in A THEN 1 ELSE 0)
  BY DEF Counted, B
<1> QED
  BY <1>3, <1>4, <1>5, <1>6, <1>7 DEF Weight

(* From a node up and from it down it is as far as from any other.         *)
Far(N, tr, lo, hi, bh, c, x) == Counted(tr, Above(N, lo, hi, x), c) + bh[x]

LEMMA AboveFinite ==
  ASSUME MaxKey \in Nat, NEW N, N \subseteq Keys, NEW lo, NEW hi, NEW x
  PROVE  IsFiniteSet(Above(N, lo, hi, x))
<1>1. IsFiniteSet(Keys)
  BY FS_Interval DEF Keys
<1>2. Above(N, lo, hi, x) \subseteq Keys
  BY DEF Above
<1> QED
  BY <1>1, <1>2, FS_Subset

LEMMA FarOfParent ==
  ASSUME MaxKey \in Nat, NEW N, N \subseteq Keys, NEW tr \in Trees, Family(N, tr),
         NEW lo \in [Keys -> Int], NEW hi \in [Keys -> Int], Shape(N, tr, lo, hi),
         NEW bh \in [Keys -> Nat], NEW c, Even(N, tr, bh, c), NEW x \in N, x # tr.root
  PROVE  Far(N, tr, lo, hi, bh, c, x) = Far(N, tr, lo, hi, bh, c, tr.parent[x])
<1> DEFINE p == tr.parent[x]
           A == Above(N, lo, hi, p)
<1>1. /\ p \in N /\ Above(N, lo, hi, x) = {x} \cup A /\ x \notin A
  BY AboveParent
<1>2. IsFiniteSet(A)
  BY AboveFinite
<1> HIDE DEF A
<1>3. /\ Counted(tr, A, c) \in Nat
      /\ Counted(tr, {x} \cup A, c) = Counted(tr, A, c) + Weight(tr, x, c)
  BY <1>1, <1>2, CountedGrows
<1>4. bh[p] = bh[x] + Weight(tr, x, c)
  <2>1. PICK z \in Sides : tr.kid[p][z] = x
    BY DEF Family, ParentsMatch
  <2>2. x # Nil
    BY DEF Keys, Nil
  <2>3. bh[p] = Place(tr, bh, p, z, c)
    BY <1>1 DEF Even
  <2> QED
    BY <2>1, <2>2, <2>3 DEF Place
<1>5. bh[x] \in Nat /\ bh[p] \in Nat /\ Weight(tr, x, c) \in Nat
  <2>1. x \in Keys /\ p \in Keys
    BY <1>1
  <2> QED
    BY <2>1 DEF Weight
<1>6. /\ Far(N, tr, lo, hi, bh, c, x) = Counted(tr, {x} \cup A, c) + bh[x]
      /\ Far(N, tr, lo, hi, bh, c, p) = Counted(tr, A, c) + bh[p]
  BY <1>1 DEF Far, A
<1> QED
  BY <1>3, <1>4, <1>5, <1>6

LEMMA FarIsSame ==
  ASSUME MaxKey \in Nat, NEW N, N \subseteq Keys, NEW tr \in Trees,
         NEW lo \in [Keys -> Int], NEW hi \in [Keys -> Int], Shape(N, tr, lo, hi),
         NEW bh \in [Keys -> Nat], NEW c, Even(N, tr, bh, c), NEW x \in N
  PROVE  Far(N, tr, lo, hi, bh, c, x) = Far(N, tr, lo, hi, bh, c, tr.root)
<1> DEFINE Good(y) == Far(N, tr, lo, hi, bh, c, y) = Far(N, tr, lo, hi, bh, c, tr.root)
           Depth(y) == End - (hi[y] - lo[y])
           S == {n \in Nat : \E y \in N : n = Depth(y) /\ ~Good(y)}
<1>1. Family(N, tr) /\ Numbers(N, lo, hi)
  BY ShapeFamily, NumbersHold DEF Shaped
<1>2. \A y \in N : Depth(y) \in Nat
  BY <1>1 DEF Numbers
<1>3. S = {}
  <2> SUFFICES ASSUME S # {} PROVE FALSE
    OBVIOUS
  <2>1. PICK n \in S : \A m \in S : n <= m
    <3>1. S \in SUBSET Nat
      OBVIOUS
    <3> HIDE DEF S
    <3> QED
      BY <3>1, LeastNumber
  <2>2. PICK y \in N : n = Depth(y) /\ ~Good(y)
    BY <2>1
  <2>3. y # tr.root
    BY <2>2
  <2>4. /\ tr.parent[y] \in N
        /\ hi[y] - lo[y] < hi[tr.parent[y]] - lo[tr.parent[y]]
    BY <2>3, AboveParent
  <2>5. Far(N, tr, lo, hi, bh, c, y) = Far(N, tr, lo, hi, bh, c, tr.parent[y])
    BY <1>1, <2>3, FarOfParent
  <2>6. ~Good(tr.parent[y])
    BY <2>2, <2>5
  <2>7. Depth(tr.parent[y]) \in S
    BY <1>2, <2>4, <2>6
  <2>8. Depth(tr.parent[y]) < Depth(y)
    <3>1. /\ hi[y] \in Int /\ lo[y] \in Int /\ End \in Int
          /\ hi[tr.parent[y]] \in Int /\ lo[tr.parent[y]] \in Int
      BY <1>1, <2>4 DEF Numbers
    <3> QED
      BY <2>4, <3>1
  <2>9. n \in Nat /\ Depth(y) \in Nat /\ Depth(tr.parent[y]) \in Nat
    BY <1>2, <2>4, <2>2
  <2> HIDE DEF Depth, S, Good
  <2> QED
    BY <2>1, <2>2, <2>7, <2>8, <2>9
<1> HIDE DEF Good, Depth
<1>4. Good(x)
  BY <1>2, <1>3
<1> QED
  BY <1>4 DEF Good

LEMMA BlacksHold ==
  ASSUME MaxKey \in Nat, TreeInv
  PROVE  SameBlacks
<1> DEFINE c == Extra(pc, cur)
<1>1. Facts(nodes, t) /\ Leveled(nodes, t, c)
  BY SoundFacts DEF TreeInv, Sound
<1>2. PICK lo \in [Keys -> Int], hi \in [Keys -> Int] : Shape(nodes, t, lo, hi)
  BY <1>1 DEF Facts, Shaped
<1>3. PICK bh \in [Keys -> Nat] : Even(nodes, t, bh, c)
  BY <1>1 DEF Leveled
<1> HIDE DEF c
<1>4. ASSUME NEW n \in nodes
      PROVE  BlacksAbove(n) = Counted(t, Above(nodes, lo, hi, n), c)
  <2>1. Ancestors(n) = Above(nodes, lo, hi, n)
    BY <1>1, <1>2, AncestorsAre DEF Facts
  <2>2. (pc = "removeFix" /\ cur \in Ancestors(n)) <=> c \in Ancestors(n)
    <3>1. Nobody \notin Ancestors(n)
      BY <1>1, <2>1 DEF Facts, Above
    <3> QED
      BY <3>1 DEF c, Extra
  <2> QED
    BY <2>1, <2>2 DEF BlacksAbove, Counted, Blacks
<1>5. ASSUME NEW n \in nodes, NEW s \in Sides, t.kid[n][s] = Nil
      PROVE  Lost(n, s) = bh[n]
  <2>1. bh[n] = Place(t, bh, n, s, c)
    BY <1>3 DEF Even
  <2>2. c = Nil <=> pc = "removeFix" /\ cur = Nil
    BY <1>1 DEF c, Extra, Facts
  <2>3. t.parent[Nil] = n => SideOf(Nil) = OnSide(t, n, Nil)
    BY DEF SideOf, OnSide
  <2> QED
    BY <1>5, <2>1, <2>2, <2>3 DEF Place, Lost
<1>6. ASSUME NEW n \in nodes, NEW s \in Sides, t.kid[n][s] = Nil
      PROVE  BlacksAbove(n) + Lost(n, s) = Far(nodes, t, lo, hi, bh, c, t.root)
  <2>1. Far(nodes, t, lo, hi, bh, c, n) = Far(nodes, t, lo, hi, bh, c, t.root)
    BY <1>1, <1>2, <1>3, FarIsSame DEF Facts
  <2>2. BlacksAbove(n) + Lost(n, s) = Far(nodes, t, lo, hi, bh, c, n)
    BY <1>4, <1>5, <1>6 DEF Far
  <2> QED
    BY <2>1, <2>2
<1> QED
  BY <1>6 DEF SameBlacks

-----------------------------------------------------------------------------
(* THE DICTIONARY.                                                         *)

(* What is stored with the nodes N.                                        *)
Stored(N, tr) == [k \in N |-> tr.data[k]]

LEMMA DictIsStored ==
  ASSUME MaxKey \in Nat
  PROVE  /\ TreeInv => TreeDict = Stored(nodes, t)
         /\ TreeInv' => TreeDict' = Stored(nodes', t')
<1>1. TreeInv => TreeDict = Stored(nodes, t)
  <2> SUFFICES ASSUME TreeInv PROVE TreeDict = Stored(nodes, t)
    OBVIOUS
  <2>1. \A k \in Keys : Lookup(k) = IF k \in nodes THEN k ELSE Nil
    BY SearchFinds DEF TreeInv
  <2>2. \A k \in Keys : k # Nil
    BY DEF Keys, Nil
  <2>3. nodes \subseteq Keys
    BY DEF TreeInv, TreeTypeOK
  <2>4. {x \in Keys : Lookup(x) = x} = nodes
    BY <2>1, <2>2, <2>3
  <2> QED
    BY <2>4 DEF TreeDict, Stored
<1> DEFINE Same == TreeDict = Stored(nodes, t)
<1>2. TreeInv => Same
  BY <1>1
<1> HIDE DEF Same
<1>3. TreeInv' => Same'
  BY <1>2, PTL
<1>4. Same' => TreeDict' = Stored(nodes', t')
  BY DEF Same
<1> QED
  BY <1>1, <1>3, <1>4

LEMMA NothingStored ==
  ASSUME NEW tr
  PROVE  Stored({}, tr) = <<>>
  BY DEF Stored
LEMMA StoredSame ==
  ASSUME NEW N, N \subseteq Keys, NEW tr, NEW u, \A k \in N : u.data[k] = tr.data[k]
  PROVE  Stored(N, u) = Stored(N, tr)
  BY DEF Stored

LEMMA DictInit ==
  ASSUME MaxKey \in Nat, Datas # {}, InitTree
  PROVE  Dict!DInit
<1>1. TreeInv /\ nodes = {}
  BY InitSound DEF InitTree, TreeInv
<1>2. TreeDict = <<>>
  BY <1>1, DictIsStored, NothingStored
<1> QED
  BY <1>2 DEF InitTree, NoAnswer, Dict!DInit

(* A step that neither stores nor forgets, and answers nothing new.        *)
LEMMA DictStays ==
  ASSUME MaxKey \in Nat, TreeInv, TreeInv', nodes' = nodes,
         \A k \in nodes : t'.data[k] = t.data[k]
  PROVE  TreeDict' = TreeDict
<1>1. TreeDict' = Stored(nodes', t') /\ TreeDict = Stored(nodes, t) /\ nodes \subseteq Keys
  BY DictIsStored DEF TreeInv, TreeTypeOK
<1>2. Stored(nodes, t') = Stored(nodes, t)
  <2> DEFINE u == t'
  <2>1. \A k \in nodes : u.data[k] = t.data[k]
    OBVIOUS
  <2> HIDE DEF u
  <2>2. Stored(nodes, u) = Stored(nodes, t)
    BY <1>1, <2>1, StoredSame
  <2> QED
    BY <2>2 DEF u
<1> QED
  BY <1>1, <1>2

LEMMA DictStep ==
  ASSUME MaxKey \in Nat, Datas # {}, TreeInv, TreeInv', [NextTree]_treeVars
  PROVE  [Dict!DNext]_<<TreeDict, ret>>
<1>1. /\ Sound(nodes, t, pc, cur) /\ nodes \subseteq Keys
      /\ \A k \in Keys : Lookup(k) = IF k \in nodes THEN k ELSE Nil
      /\ \A k \in Keys : k # Nil
      /\ AnyData \in Datas
  BY SearchFinds DEF TreeInv, TreeTypeOK, Keys, Nil, AnyData
<1>2. /\ TreeDict = Stored(nodes, t) /\ TreeDict' = Stored(nodes', t')
      /\ DOMAIN TreeDict = nodes
      /\ \A k \in nodes : TreeDict[k] = t.data[k]
  BY DictIsStored DEF Stored
<1>3. UNCHANGED <<nodes, t>> => TreeDict' = TreeDict
  BY <1>2
<1>4. t'.data = t.data /\ nodes' = nodes => TreeDict' = TreeDict
  BY DictStays
<1>5. ASSUME NEW k \in Keys, InsertExists(k)
      PROVE  Dict!Insert(k, AnyData)
  <2>1. k \in nodes
    BY <1>1, <1>5 DEF InsertExists
  <2> QED
    BY <1>2, <1>3, <1>5, <2>1 DEF InsertExists, Answer, Dict!Insert, Dict!Has
<1>6. ASSUME NEW k \in Keys, RemoveMissing(k)
      PROVE  Dict!Remove(k)
  <2>1. k \notin nodes
    BY <1>1, <1>6 DEF RemoveMissing
  <2> QED
    BY <1>2, <1>3, <1>6, <2>1 DEF RemoveMissing, Answer, Dict!Remove, Dict!Has
<1>7. ASSUME NEW k \in Keys, Find(k)
      PROVE  Dict!Find(k)
  <2>1. TreeDict' = TreeDict
    BY <1>3, <1>7 DEF Find
  <2>2. CASE k \in nodes
    <3>1. ret' = [op |-> "find", key |-> k, code |-> 0, data |-> TreeDict[k]]
      BY <1>1, <1>2, <1>7, <2>2 DEF Find, Answer
    <3>2. ret'.op = "find" /\ ret'.key = k
      BY <3>1
    <3> QED
      BY <1>2, <2>1, <2>2, <3>1, <3>2 DEF Dict!Find, Dict!Has
  <2>3. CASE k \notin nodes
    <3>1. ret' = [op |-> "find", key |-> k, code |-> -1]
      BY <1>1, <1>7, <2>3 DEF Find, Answer
    <3> QED
      BY <1>2, <2>1, <2>3, <3>1 DEF Dict!Find, Dict!Has
  <2> QED
    BY <2>2, <2>3
<1>8. ASSUME NEW k \in Keys, NEW d \in Datas, Insert(k, d)
      PROVE  Dict!Insert(k, d)
  <2>1. k \notin nodes /\ \A x \in Keys : t'.data[x] = IF x = k THEN d ELSE t.data[x]
    BY <1>1, <1>8, InsertStep
  <2>2. nodes' = nodes \cup {k} /\ ret' = [op |-> "insert", key |-> k, code |-> 0]
    BY <1>8 DEF Insert
  <2>3. TreeDict' = [x \in nodes \cup {k} |-> IF x = k THEN d ELSE TreeDict[x]]
    <3>1. TreeDict' = [x \in nodes \cup {k} |-> t'.data[x]]
      BY <1>2, <2>2 DEF Stored
    <3>2. \A x \in nodes \cup {k} : t'.data[x] = IF x = k THEN d ELSE TreeDict[x]
      BY <1>1, <1>2, <2>1
    <3> QED
      BY <3>1, <3>2
  <2> QED
    BY <1>2, <2>1, <2>2, <2>3 DEF Dict!Insert, Dict!Has
<1>9. ASSUME NEW k \in Keys, Remove(k)
      PROVE  Dict!Remove(k)
  <2>1. k \in nodes /\ \A x \in Keys : x # k => t'.data[x] = t.data[x]
    BY <1>1, <1>9, RemoveStep
  <2>2. nodes' = nodes \ {k} /\ ret' = [op |-> "remove", key |-> k, code |-> 0]
    BY <1>9 DEF Remove, Answer
  <2>3. TreeDict' = [x \in nodes \ {k} |-> TreeDict[x]]
    <3>1. TreeDict' = [x \in nodes \ {k} |-> t'.data[x]]
      BY <1>2, <2>2 DEF Stored
    <3>2. \A x \in nodes \ {k} : t'.data[x] = TreeDict[x]
      BY <1>1, <1>2, <2>1
    <3> QED
      BY <3>1, <3>2
  <2> QED
    BY <1>2, <2>1, <2>2, <2>3 DEF Dict!Remove, Dict!Has
<1>10. ASSUME Destroy
       PROVE  Dict!Drop
  <2>1. nodes' = {} /\ ret' = ret
    BY <1>1, <1>10, DestroyStep DEF Destroy
  <2>2. TreeDict' = <<>>
    BY <1>2, <2>1, NothingStored
  <2> QED
    BY <2>1, <2>2 DEF Dict!Drop
<1>11. ASSUME Fix
       PROVE  UNCHANGED <<TreeDict, ret>>
  <2>1. nodes' = nodes /\ ret' = ret
    BY <1>11 DEF Fix, InsertFix, InsertDone, RemoveFix, RemoveDone, Answer
  <2>2. t'.data = t.data
    BY <1>1, <1>11, InsertTurn, InsertDoneStep, RemoveTurn, RemoveDoneStep DEF Fix
  <2> QED
    BY <1>4, <2>1, <2>2
<1>12. ASSUME UNCHANGED treeVars
       PROVE  UNCHANGED <<TreeDict, ret>>
  BY <1>3, <1>12 DEF treeVars
<1>13. \A k \in Keys : (IF k \in Varied THEN Datas ELSE {AnyData}) \subseteq Datas
  BY <1>1
<1> QED
  BY <1>1, <1>5, <1>6, <1>7, <1>8, <1>9, <1>10, <1>11, <1>12, <1>13
     DEF NextTree, Call, Dict!DNext

LEMMA ImplementsDict ==
  ASSUME MaxKey \in Nat, Datas # {}
  PROVE  SpecTree => ImplementsDictionary
<1>1. InitTree => Dict!DInit
  BY DictInit
<1>2. TreeInv /\ TreeInv' /\ [NextTree]_treeVars => [Dict!DNext]_<<TreeDict, ret>>
  BY DictStep
<1>3. SpecTree => []TreeInv
  BY InvHolds
<1> QED
  BY <1>1, <1>2, <1>3, PTL DEF SpecTree, ImplementsDictionary, Dict!DSpec

-----------------------------------------------------------------------------
(* THE THEOREMS.                                                           *)

(* Between any two steps the tree is a search tree of its nodes, as many   *)
(* black nodes are on every way down, and no red node has a red parent, but*)
(* for what the fix loop in progress has yet to put right (rb_tree.h:      *)
(* 116-551).                                                               *)
THEOREM TreeStaysSound == SpecTree => []TreeInv
<1>1. MaxKey \in Nat /\ Datas # {}
  BY TreeConstants DEF TreeConstants
<1> QED
  BY <1>1, InvHolds

(* In every tree, however many keys: no leak and no dangling pointer, no   *)
(* red node below a red one and the same black height everywhere, but at   *)
(* the node a fix loop is at, and no fix loop reads through the sentinel.  *)
THEOREM SearchTreeIsRight == SpecTree => []TreeIsRight
<1>1. MaxKey \in Nat
  BY TreeConstants DEF TreeConstants
<1>2. TreeInv => TreeIsRight
  <2> SUFFICES ASSUME TreeInv PROVE TreeIsRight
    OBVIOUS
  <2>1. TreeTypeOK
    BY DEF TreeInv
  <2>2. Linked /\ RedsApart /\ SameBlacks /\ RelativesExist
    BY <1>1, LinkedHolds, RedsHold, BlacksHold, RelativesHold
  <2> QED
    BY <2>1, <2>2 DEF TreeIsRight, ColorsAreRight
<1> QED
  BY <1>2, TreeStaysSound, PTL

(* What searches find changes once per call, as Dictionary says, and no    *)
(* rotation, recoloring or transplant loses a key or its data.             *)
THEOREM TreeImplementsDictionary == SpecTree => ImplementsDictionary
<1>1. MaxKey \in Nat /\ Datas # {}
  BY TreeConstants DEF TreeConstants
<1> QED
  BY <1>1, ImplementsDict
=============================================================================
