-------------------------- MODULE TsdbLoader_proofs --------------------------
(* Proofs about TsdbLoader, for any number of points and workers, any      *)
(* batch size and any threshold.                                           *)
EXTENDS TsdbLoaderProps, FiniteSetTheorems, FunctionTheorems, TLAPS

(* Whatever the loader keeps of the points is a finite set.                *)
LEMMA PointsFinite ==
  /\ IsFiniteSet(Points)
  /\ \A S \in SUBSET Points : IsFiniteSet(S) /\ Cardinality(S) \in Nat
<1>1. IsFiniteSet(Points)
  BY LoaderConstants, FS_Interval DEF Points
<1> QED
  BY <1>1, FS_Subset, FS_CardinalityType

LEMMA WorkersFinite ==
  /\ IsFiniteSet(Workers) /\ Cardinality(Workers) = WORKERS
  /\ \A S \in SUBSET Workers : IsFiniteSet(S) /\ Cardinality(S) \in Nat
<1>1. IsFiniteSet(Workers) /\ Cardinality(Workers) = WORKERS
  BY LoaderConstants, FS_Interval DEF Workers
<1> QED
  BY <1>1, FS_Subset, FS_CardinalityType

LEMMA LoaderInit == InitLoader => LoaderInv
<1> SUFFICES ASSUME InitLoader PROVE LoaderInv
  OBVIOUS
<1> USE LoaderConstants DEF InitLoader
<1>1. LoaderTypeOK
  <2>1. /\ sent = 0 /\ received = 0 /\ Count = 0 /\ exited = FALSE
        /\ stored = {} /\ lost = {}
    OBVIOUS
  <2>2. arr \in [Workers -> SUBSET Points]
    OBVIOUS
  <2>3. wpc \in [Workers -> {"receive", "insert", "count"}]
    OBVIOUS
  <2>4. sent \in 0 .. TOTAL /\ received \in 0 .. sent /\ sent - received <= CHAN_CAP
    BY <2>1
  <2>5. stored \subseteq Points /\ lost \subseteq Points /\ Count \in Nat
    BY <2>1
  <2>6. exited \in BOOLEAN
    BY <2>1, Zenon
  <2> QED
    BY <2>2, <2>3, <2>4, <2>5, <2>6, Zenon DEF LoaderTypeOK
<1>2. Cardinality({}) = 0
  BY FS_EmptySet
<1>3. BatchInv
  BY <1>2 DEF BatchInv
<1>4. PlaceInv
  BY DEF PlaceInv, OnePlace
<1>5. CountIsPosted
  <2>1. Counting = {} /\ stored \cup lost = {}
    BY DEF Counting
  <2> QED
    BY <1>2, <2>1 DEF CountIsPosted
<1> QED
  BY <1>1, <1>3, <1>4, <1>5 DEF LoaderInv

-----------------------------------------------------------------------------
(* The steps.                                                              *)

LEMMA GenStep ==
  ASSUME LoaderInv, Gen
  PROVE  LoaderInv'
<1>1. /\ sent' = sent + 1 /\ sent < TOTAL /\ sent - received < CHAN_CAP
      /\ UNCHANGED <<received, arr, wpc, stored, lost, Count, exited>>
  BY DEF Gen
<1>2. LoaderTypeOK'
  BY <1>1, LoaderConstants DEF LoaderInv, LoaderTypeOK
<1>3. BatchInv' /\ PlaceInv'
  BY <1>1 DEF LoaderInv, BatchInv, PlaceInv, OnePlace
<1>4. CountIsPosted'
  BY <1>1 DEF LoaderInv, CountIsPosted, Counting
<1> QED
  BY <1>1, <1>2, <1>3, <1>4 DEF LoaderInv

LEMMA ReceiveStep ==
  ASSUME LoaderInv, NEW w \in Workers, Receive(w)
  PROVE  LoaderInv'
<1> DEFINE n == received + 1
<1>type. LoaderTypeOK /\ BatchInv /\ PlaceInv /\ CountIsPosted
  BY DEF LoaderInv
<1>1. /\ wpc[w] = "receive" /\ received < sent /\ received' = n /\ ~exited
      /\ arr' = [arr EXCEPT ![w] = arr[w] \cup {n}]
      /\ wpc' = [wpc EXCEPT ![w] =
                    IF Cardinality(arr'[w]) = BATCH THEN "insert" ELSE "receive"]
      /\ UNCHANGED <<sent, stored, lost, Count, exited>>
  BY DEF Receive
<1>2. n \in Points /\ n \notin 1 .. received /\ 1 .. n = 1 .. received \cup {n}
  BY <1>1, <1>type, LoaderConstants DEF LoaderTypeOK, Points
<1>3. /\ arr'[w] = arr[w] \cup {n}
      /\ \A v \in Workers \ {w} : arr'[v] = arr[v]
  BY <1>1, <1>type DEF LoaderTypeOK
<1>4. /\ wpc'[w] \in {"insert", "receive"}
      /\ wpc'[w] = "insert" <=> Cardinality(arr'[w]) = BATCH
      /\ \A v \in Workers \ {w} : wpc'[v] = wpc[v]
  BY <1>1, <1>type DEF LoaderTypeOK
<1>5. LoaderTypeOK'
  <2>1. arr' \in [Workers -> SUBSET Points]
    BY <1>1, <1>2, <1>type DEF LoaderTypeOK
  <2>2. wpc' \in [Workers -> {"receive", "insert", "count"}]
    BY <1>1, <1>type DEF LoaderTypeOK
  <2>3. received' \in 0 .. sent' /\ sent' - received' <= CHAN_CAP
    BY <1>1, <1>type, LoaderConstants DEF LoaderTypeOK
  <2> QED
    BY <1>1, <2>1, <2>2, <2>3, <1>type DEF LoaderTypeOK
<1>6. BatchInv'
  <2>1. n \notin arr[w] /\ IsFiniteSet(arr[w]) /\ Cardinality(arr[w]) \in Nat
    BY <1>2, <1>type, PointsFinite DEF PlaceInv, LoaderTypeOK
  <2>2. Cardinality(arr'[w]) = Cardinality(arr[w]) + 1
    <3> DEFINE S == arr[w]
    <3>1. IsFiniteSet(S) /\ n \notin S
      BY <2>1
    <3> HIDE DEF S, n
    <3>2. Cardinality(S \cup {n}) = Cardinality(S) + 1
      BY <3>1, FS_AddElement
    <3> QED
      BY <3>2, <1>3 DEF S
  <2>3. Cardinality(arr[w]) < BATCH
    BY <1>1, <1>type DEF BatchInv
  <2>4. /\ wpc'[w] = "receive" => Cardinality(arr'[w]) < BATCH
        /\ wpc'[w] = "insert" => Cardinality(arr'[w]) = BATCH
        /\ wpc'[w] # "count"
    <3>1. Cardinality(arr'[w]) # BATCH => Cardinality(arr'[w]) < BATCH
      BY <2>1, <2>2, <2>3, LoaderConstants
    <3> QED
      BY <3>1, <1>4
  <2>5. ASSUME NEW v \in Workers \ {w}
        PROVE  /\ wpc'[v] = "receive" => Cardinality(arr'[v]) < BATCH
               /\ wpc'[v] = "insert" => Cardinality(arr'[v]) = BATCH
               /\ wpc'[v] = "count" => arr'[v] = {}
    BY <1>3, <1>4, <1>type DEF BatchInv
  <2> QED
    BY <2>4, <2>5 DEF BatchInv
<1>7. PlaceInv'
  <2>1. /\ \A v \in Workers : arr'[v] \subseteq 1 .. received'
        /\ stored' \subseteq 1 .. received' /\ lost' \subseteq 1 .. received'
    BY <1>1, <1>2, <1>3, <1>type DEF PlaceInv
  <2>2. n \notin stored \cup lost /\ \A v \in Workers : n \notin arr[v]
    BY <1>2, <1>type DEF PlaceInv
  <2>3. OnePlace'
    <3> SUFFICES ASSUME NEW m \in 1 .. n
                 PROVE  \/ m \in stored /\ m \notin lost
                           /\ \A v \in Workers : m \notin arr'[v]
                        \/ m \in lost /\ m \notin stored
                           /\ \A v \in Workers : m \notin arr'[v]
                        \/ /\ m \notin stored \cup lost
                           /\ \E v \in Workers :
                                m \in arr'[v] /\ \A u \in Workers \ {v} : m \notin arr'[u]
      BY <1>1 DEF OnePlace
    <3>1. CASE m = n
      BY <3>1, <2>2, <1>3
    <3>2. CASE m \in 1 .. received
      <4>1. m # n
        BY <3>2, <1>2
      <4>2. \A v \in Workers : m \in arr'[v] <=> m \in arr[v]
        BY <4>1, <1>3
      <4> QED
        BY <3>2, <4>2, <1>type DEF PlaceInv, OnePlace
    <3> QED
      BY <3>1, <3>2, <1>2
  <2> QED
    BY <2>1, <2>3 DEF PlaceInv
<1>8. CountIsPosted'
  <2>1. Counting' = Counting
    BY <1>1, <1>4 DEF Counting
  <2> QED
    BY <2>1, <1>1, <1>type DEF CountIsPosted
<1> QED
  BY <1>1, <1>5, <1>6, <1>7, <1>8 DEF LoaderInv

(* A batch posted, whether it was stored or lost.                          *)
LEMMA PostedStep ==
  ASSUME LoaderInv, NEW w \in Workers, InsertBatch(w) \/ InsertFails(w)
  PROVE  LoaderInv'
<1>type. LoaderTypeOK /\ BatchInv /\ PlaceInv /\ CountIsPosted
  BY DEF LoaderInv
<1>1. /\ wpc[w] = "insert" /\ ~exited
      /\ wpc' = [wpc EXCEPT ![w] = "count"]
      /\ arr' = [arr EXCEPT ![w] = {}]
      /\ UNCHANGED <<sent, received, Count, exited>>
  BY DEF InsertBatch, InsertFails, Posted
<1>2. \/ stored' = stored \cup arr[w] /\ lost' = lost
      \/ lost' = lost \cup arr[w] /\ stored' = stored
  BY DEF InsertBatch, InsertFails
<1>3. /\ arr'[w] = {} /\ wpc'[w] = "count"
      /\ \A v \in Workers \ {w} : arr'[v] = arr[v] /\ wpc'[v] = wpc[v]
  BY <1>1, <1>type DEF LoaderTypeOK
<1>4. arr[w] \in SUBSET Points /\ stored \cup lost \in SUBSET Points
  BY <1>type DEF LoaderTypeOK
<1>5. LoaderTypeOK'
  <2>1. arr' \in [Workers -> SUBSET Points]
    BY <1>1, <1>type DEF LoaderTypeOK
  <2>2. wpc' \in [Workers -> {"receive", "insert", "count"}]
    BY <1>1, <1>type DEF LoaderTypeOK
  <2>3. stored' \subseteq Points /\ lost' \subseteq Points
    BY <1>2, <1>4, <1>type DEF LoaderTypeOK
  <2> QED
    BY <1>1, <2>1, <2>2, <2>3, <1>type DEF LoaderTypeOK
<1>6. BatchInv'
  BY <1>3, <1>type DEF BatchInv
<1>7. PlaceInv'
  <2>1. /\ \A v \in Workers : arr'[v] \subseteq 1 .. received
        /\ stored' \subseteq 1 .. received /\ lost' \subseteq 1 .. received
    BY <1>2, <1>3, <1>type DEF PlaceInv
  <2>2. OnePlace'
    <3> SUFFICES ASSUME NEW m \in 1 .. received
                 PROVE  \/ m \in stored' /\ m \notin lost'
                           /\ \A v \in Workers : m \notin arr'[v]
                        \/ m \in lost' /\ m \notin stored'
                           /\ \A v \in Workers : m \notin arr'[v]
                        \/ /\ m \notin stored' \cup lost'
                           /\ \E v \in Workers :
                                m \in arr'[v] /\ \A u \in Workers \ {v} : m \notin arr'[u]
      BY <1>1 DEF OnePlace
    <3>1. \A v \in Workers : m \in arr'[v] <=> m \in arr[v] /\ v # w
      BY <1>3
    <3>2. \/ m \in stored /\ m \notin lost /\ \A v \in Workers : m \notin arr[v]
          \/ m \in lost /\ m \notin stored /\ \A v \in Workers : m \notin arr[v]
          \/ /\ m \notin stored \cup lost
             /\ \E v \in Workers :
                   m \in arr[v] /\ \A u \in Workers \ {v} : m \notin arr[u]
      BY <1>type DEF PlaceInv, OnePlace
    <3>3. CASE m \in arr[w]
      <4>1. m \notin stored \cup lost /\ \A u \in Workers \ {w} : m \notin arr[u]
        BY <3>2, <3>3
      <4> QED
        BY <4>1, <3>1, <3>3, <1>2
    <3>4. CASE m \notin arr[w]
      BY <3>1, <3>2, <3>4, <1>2
    <3> QED
      BY <3>3, <3>4
  <2> QED
    BY <2>1, <2>2, <1>1 DEF PlaceInv
<1>8. CountIsPosted'
  <2>1. stored' \cup lost' = (stored \cup lost) \cup arr[w]
    BY <1>2
  <2>2. (stored \cup lost) \cap arr[w] = {}
    BY <1>type DEF PlaceInv, OnePlace
  <2>3. Cardinality(arr[w]) = BATCH
    BY <1>1, <1>type DEF BatchInv
  <2>4. /\ IsFiniteSet(arr[w]) /\ IsFiniteSet(stored \cup lost)
        /\ Cardinality(stored \cup lost) \in Nat
    BY <1>4, PointsFinite
  <2>5. Cardinality(stored' \cup lost') = Cardinality(stored \cup lost) + BATCH
    BY <2>1, <2>2, <2>3, <2>4, FS_Union, FS_EmptySet, LoaderConstants
  <2>6. Counting' = Counting \cup {w} /\ w \notin Counting
    BY <1>1, <1>3 DEF Counting
  <2>7. Counting \in SUBSET Workers
    BY DEF Counting
  <2>8. /\ Cardinality(Counting) \in Nat
        /\ Cardinality(Counting') = Cardinality(Counting) + 1
    BY <2>6, <2>7, WorkersFinite, FS_AddElement
  <2>9. BATCH * (Cardinality(Counting) + 1) = BATCH * Cardinality(Counting) + BATCH
    BY <2>8, LoaderConstants
  <2>10. Count \in Nat /\ BATCH * Cardinality(Counting) \in Nat
    BY <2>8, <1>type, LoaderConstants DEF LoaderTypeOK
  <2>11. Count' + BATCH * Cardinality(Counting') = Count + BATCH * Cardinality(Counting) + BATCH
    BY <2>8, <2>9, <2>10, <1>1, LoaderConstants
  <2> QED
    BY <2>5, <2>11, <1>type DEF CountIsPosted
<1> QED
  BY <1>1, <1>5, <1>6, <1>7, <1>8 DEF LoaderInv

LEMMA AddCountStep ==
  ASSUME LoaderInv, NEW w \in Workers, AddCount(w)
  PROVE  LoaderInv'
<1>type. LoaderTypeOK /\ BatchInv /\ PlaceInv /\ CountIsPosted
  BY DEF LoaderInv
<1>1. /\ wpc[w] = "count" /\ ~exited
      /\ wpc' = [wpc EXCEPT ![w] = "receive"]
      /\ Count' = Count + BATCH
      /\ UNCHANGED <<sent, received, arr, stored, lost, exited>>
  BY DEF AddCount
<1>2. /\ wpc'[w] = "receive"
      /\ \A v \in Workers \ {w} : wpc'[v] = wpc[v]
  BY <1>1, <1>type DEF LoaderTypeOK
<1>3. LoaderTypeOK'
  BY <1>1, <1>type, LoaderConstants DEF LoaderTypeOK
<1>4. BatchInv'
  <2>1. Cardinality(arr[w]) = 0
    BY <1>1, <1>type, FS_EmptySet DEF BatchInv
  <2> QED
    BY <2>1, <1>1, <1>2, <1>type, LoaderConstants DEF BatchInv
<1>5. PlaceInv'
  BY <1>1, <1>type DEF PlaceInv, OnePlace
<1>6. CountIsPosted'
  <2>1. Counting' = Counting \ {w} /\ w \in Counting /\ Counting \in SUBSET Workers
    BY <1>1, <1>2 DEF Counting
  <2>2. /\ Cardinality(Counting) \in Nat /\ Cardinality(Counting') \in Nat
        /\ Cardinality(Counting) = Cardinality(Counting') + 1
    <3>1. Cardinality(Counting') = Cardinality(Counting) - 1
      BY <2>1, WorkersFinite, FS_RemoveElement
    <3>2. Cardinality(Counting) \in Nat /\ Counting' \in SUBSET Workers
      BY <2>1, WorkersFinite
    <3> QED
      BY <3>1, <3>2, WorkersFinite
  <2>3. BATCH * Cardinality(Counting) = BATCH * Cardinality(Counting') + BATCH
    BY <2>2, LoaderConstants
  <2>4. Count \in Nat /\ BATCH * Cardinality(Counting') \in Nat
    BY <2>2, <1>type, LoaderConstants DEF LoaderTypeOK
  <2>5. Count' + BATCH * Cardinality(Counting') = Count + BATCH * Cardinality(Counting)
    BY <2>3, <2>4, <1>1, LoaderConstants
  <2> QED
    BY <2>5, <1>1, <1>type DEF CountIsPosted
<1> QED
  BY <1>1, <1>3, <1>4, <1>5, <1>6 DEF LoaderInv

LEMMA PollStep ==
  ASSUME LoaderInv, PollDone
  PROVE  LoaderInv'
<1>1. /\ Count >= THRESHOLD /\ exited' = TRUE
      /\ UNCHANGED <<sent, received, arr, wpc, stored, lost, Count>>
  BY DEF PollDone
<1>2. LoaderTypeOK'
  BY <1>1 DEF LoaderInv, LoaderTypeOK
<1>3. BatchInv' /\ PlaceInv'
  BY <1>1 DEF LoaderInv, BatchInv, PlaceInv, OnePlace
<1>4. CountIsPosted'
  BY <1>1 DEF LoaderInv, CountIsPosted, Counting
<1> QED
  BY <1>1, <1>2, <1>3, <1>4 DEF LoaderInv

LEMMA LoaderStep == LoaderInv /\ [NextLoader]_loaderVars => LoaderInv'
<1> SUFFICES ASSUME LoaderInv, [NextLoader]_loaderVars PROVE LoaderInv'
  OBVIOUS
<1>1. CASE UNCHANGED loaderVars
  BY <1>1 DEF loaderVars, LoaderInv, LoaderTypeOK, BatchInv, PlaceInv, OnePlace,
              CountIsPosted, Counting
<1>2. ASSUME NEW w \in Workers, Worker(w) PROVE LoaderInv'
  <2>1. CASE Receive(w)
    BY <2>1, ReceiveStep
  <2>2. CASE InsertBatch(w) \/ InsertFails(w)
    BY <2>2, PostedStep
  <2>3. CASE AddCount(w)
    BY <2>3, AddCountStep
  <2> QED
    BY <1>2, <2>1, <2>2, <2>3 DEF Worker
<1>3. CASE Gen
  BY <1>3, GenStep
<1>4. CASE PollDone
  BY <1>4, PollStep
<1> QED
  BY <1>1, <1>2, <1>3, <1>4 DEF NextLoader

-----------------------------------------------------------------------------
(* The theorems.                                                           *)

(* The channel, the batches, the database and the count are as the code    *)
(* means them to be, for any numbers in place of those in the source.      *)
THEOREM LoaderInvariant == LoaderSpec => []LoaderInv
  BY LoaderInit, LoaderStep, PTL DEF LoaderSpec

(* No point is posted twice, and none is dropped between two batches.      *)
THEOREM PointsHaveOnePlace == LoaderSpec => []OnePlace
<1>1. LoaderInv => OnePlace
  BY DEF LoaderInv, PlaceInv
<1> QED
  BY <1>1, LoaderInvariant, PTL

(* The shared count follows the posts.                                     *)
THEOREM CountFollowsPosts == LoaderSpec => []CountIsPosted
<1>1. LoaderInv => CountIsPosted
  BY DEF LoaderInv
<1> QED
  BY <1>1, LoaderInvariant, PTL

LEMMA PostedCards ==
  ASSUME LoaderInv
  PROVE  /\ Cardinality(stored \cup lost) = Cardinality(stored) + Cardinality(lost)
         /\ Cardinality(stored \cup lost) \in Nat
         /\ Cardinality(Counting) \in Nat
<1>1. /\ stored \in SUBSET Points /\ lost \in SUBSET Points
      /\ stored \cup lost \in SUBSET Points
  BY DEF LoaderInv, LoaderTypeOK
<1>2. stored \cap lost = {}
  BY DEF LoaderInv, PlaceInv, OnePlace
<1>3. /\ IsFiniteSet(stored) /\ Cardinality(stored) \in Nat
      /\ IsFiniteSet(lost) /\ Cardinality(lost) \in Nat
      /\ Cardinality(stored \cup lost) \in Nat
  BY <1>1, PointsFinite
<1>4. Cardinality(stored \cup lost) = Cardinality(stored) + Cardinality(lost)
  <2>1. Cardinality(stored \cap lost) = 0
    BY <1>2, FS_EmptySet
  <2>2. Cardinality(stored \cup lost) =
          Cardinality(stored) + Cardinality(lost) - Cardinality(stored \cap lost)
    BY <1>3, FS_Union
  <2> QED
    BY <2>1, <2>2, <1>3
<1>5. Counting \in SUBSET Workers
  BY DEF Counting
<1> QED
  BY <1>3, <1>4, <1>5, WorkersFinite

(* main returns only when THRESHOLD points were posted.                    *)
THEOREM ExitComesLate == LoaderSpec => []ExitIsLate
<1>1. ASSUME LoaderInv PROVE ExitIsLate
  <2>1. Count + BATCH * Cardinality(Counting) = Cardinality(stored \cup lost)
    BY <1>1 DEF LoaderInv, CountIsPosted
  <2>2. Count \in Nat /\ BATCH * Cardinality(Counting) \in Nat
    BY <1>1, PostedCards, LoaderConstants DEF LoaderInv, LoaderTypeOK
  <2>3. Count <= Cardinality(stored) + Cardinality(lost)
    BY <1>1, <2>1, <2>2, PostedCards
  <2>4. Cardinality(stored) + Cardinality(lost) \in Nat
    BY <1>1, PostedCards
  <2> QED
    BY <1>1, <2>2, <2>3, <2>4, LoaderConstants DEF LoaderInv, ExitIsLate
<1> QED
  BY <1>1, LoaderInvariant, PTL

-----------------------------------------------------------------------------
(* The remainders.  A point still in a slice is numbered by its worker and *)
(* its place there, so there are at most WORKERS * (BATCH - 1) of them.    *)

(* A slice that is not full can be numbered by 1 .. BATCH - 1.             *)
LEMMA SliceNumbered ==
  ASSUME NEW S, IsFiniteSet(S), Cardinality(S) < BATCH
  PROVE  \E g \in [S -> 1 .. BATCH - 1] : \A a, b \in S : g[a] = g[b] => a = b
<1>1. Cardinality(S) \in Nat /\ ExistsBijection(1 .. Cardinality(S), S)
  BY FS_CardinalityType
<1>2. ExistsBijection(S, 1 .. Cardinality(S))
  BY <1>1, Fun_ExistsBijSymmetric
<1>3. PICK g \in Bijection(S, 1 .. Cardinality(S)) : TRUE
  BY <1>2 DEF ExistsBijection
<1>4. /\ g \in [S -> 1 .. Cardinality(S)]
      /\ \A a, b \in S : g[a] = g[b] => a = b
  BY <1>3 DEF Bijection, Injection, IsInjective
<1>5. 1 .. Cardinality(S) \subseteq 1 .. BATCH - 1
  BY <1>1, LoaderConstants
<1> QED
  BY <1>4, <1>5

LEMMA RemaindersBounded ==
  ASSUME LoaderInv, \A w \in Workers : wpc[w] = "receive"
  PROVE  received <= Cardinality(stored \cup lost) + WORKERS * (BATCH - 1)
<1> DEFINE Rest == (1 .. received) \ (stored \cup lost)
           Numbering(w) == {g \in [arr[w] -> 1 .. BATCH - 1] :
                               \A a, b \in arr[w] : g[a] = g[b] => a = b}
           G == [w \in Workers |-> CHOOSE g \in Numbering(w) : TRUE]
           Owner(n) == CHOOSE w \in Workers : n \in arr[w]
           F == [n \in Rest |-> <<Owner(n), G[Owner(n)][n]>>]
<1>1. ASSUME NEW w \in Workers PROVE G[w] \in Numbering(w)
  <2>1. IsFiniteSet(arr[w]) /\ Cardinality(arr[w]) < BATCH
    BY PointsFinite DEF LoaderInv, LoaderTypeOK, BatchInv
  <2>2. \E g \in [arr[w] -> 1 .. BATCH - 1] : \A a, b \in arr[w] : g[a] = g[b] => a = b
    BY <2>1, SliceNumbered
  <2>3. \E g : g \in Numbering(w)
    BY <2>2
  <2> QED
    BY <2>3
<1>2. ASSUME NEW n \in Rest PROVE Owner(n) \in Workers /\ n \in arr[Owner(n)]
  BY DEF LoaderInv, PlaceInv, OnePlace
<1> DEFINE Pairs == Workers \X (1 .. BATCH - 1)
<1>3. F \in [Rest -> Pairs]
  <2>1. ASSUME NEW n \in Rest PROVE <<Owner(n), G[Owner(n)][n]>> \in Pairs
    <3> DEFINE w == Owner(n)
    <3>1. w \in Workers /\ n \in arr[w]
      BY <1>2
    <3> HIDE DEF w
    <3>2. G[w] \in Numbering(w)
      BY <1>1, <3>1
    <3> HIDE DEF G
    <3>3. G[w][n] \in 1 .. BATCH - 1
      BY <3>1, <3>2
    <3> QED
      BY <3>1, <3>3 DEF w
  <2> QED
    BY <2>1
<1>4. \A m, n \in Rest : F[m] = F[n] => m = n
  <2> SUFFICES ASSUME NEW m \in Rest, NEW n \in Rest, F[m] = F[n]
               PROVE  m = n
    OBVIOUS
  <2>1. Owner(m) = Owner(n) /\ G[Owner(m)][m] = G[Owner(n)][n]
    <3>1. /\ F[m][1] = Owner(m) /\ F[m][2] = G[Owner(m)][m]
          /\ F[n][1] = Owner(n) /\ F[n][2] = G[Owner(n)][n]
      OBVIOUS
    <3> HIDE DEF F, Owner, G
    <3> QED
      BY <3>1
  <2> DEFINE w == Owner(m)
  <2>2. w \in Workers /\ m \in arr[w] /\ n \in arr[w] /\ G[w][m] = G[w][n]
    <3>1. /\ Owner(m) \in Workers /\ m \in arr[Owner(m)]
          /\ n \in arr[Owner(n)]
      BY <1>2
    <3>2. w = Owner(m)
      OBVIOUS
    <3> HIDE DEF Owner, G, F, w
    <3>3. w = Owner(n) /\ G[w][m] = G[w][n]
      BY <2>1, <3>2
    <3> QED
      BY <3>1, <3>2, <3>3
  <2> HIDE DEF w
  <2>3. G[w] \in Numbering(w)
    BY <1>1, <2>2
  <2> HIDE DEF G
  <2> QED
    BY <2>2, <2>3
<1>5. /\ IsFiniteSet(Rest) /\ Cardinality(Rest) \in Nat
      /\ Cardinality(Rest) = received - Cardinality(stored \cup lost)
  <2> HIDE DEF F, G, Owner, Pairs, Numbering
  <2>1. /\ received \in Nat /\ stored \cup lost \subseteq 1 .. received
        /\ (1 .. received) \cap (stored \cup lost) = stored \cup lost
    <3>1. received \in Nat
      BY LoaderConstants DEF LoaderInv, LoaderTypeOK
    <3>2. stored \cup lost \subseteq 1 .. received
      BY DEF LoaderInv, PlaceInv
    <3> QED
      BY <3>1, <3>2
  <2>2. IsFiniteSet(1 .. received) /\ Cardinality(1 .. received) = received
    BY <2>1, FS_Interval
  <2> DEFINE A == 1 .. received
             B == stored \cup lost
  <2>3. IsFiniteSet(A \ B) /\ Cardinality(A \ B) = received - Cardinality(B)
    <3>1. IsFiniteSet(A) /\ Cardinality(A) = received /\ A \cap B = B
      BY <2>1, <2>2
    <3> HIDE DEF A, B
    <3>2. IsFiniteSet(A \ B) /\ Cardinality(A \ B) = Cardinality(A) - Cardinality(A \cap B)
      BY <3>1, FS_Difference
    <3> QED
      BY <3>1, <3>2
  <2> QED
    BY <2>3, FS_CardinalityType
<1>6. /\ IsFiniteSet(Pairs)
      /\ Cardinality(Pairs) = WORKERS * (BATCH - 1)
  <2>1. IsFiniteSet(1 .. BATCH - 1) /\ Cardinality(1 .. BATCH - 1) = BATCH - 1
    BY LoaderConstants, FS_Interval
  <2> QED
    BY <2>1, WorkersFinite, FS_Product
<1> HIDE DEF Rest, F, G, Owner, Pairs
<1>7. F \in Injection(Rest, Pairs)
  BY <1>3, <1>4 DEF Injection, IsInjective
<1>8. Cardinality(Rest) <= Cardinality(Pairs)
  BY <1>6, <1>7, FS_Injection
<1>9. /\ received \in Nat /\ Cardinality(stored \cup lost) \in Nat
      /\ WORKERS * (BATCH - 1) \in Nat
  BY PostedCards, LoaderConstants DEF LoaderInv, LoaderTypeOK
<1> QED
  BY <1>5, <1>6, <1>8, <1>9

(* When gen is done and every worker waits, the count is short of TOTAL by *)
(* no more than the part batches: with 50 workers and batches of 100, by   *)
(* up to 4950, while main tolerates 1000.                                  *)
THEOREM RemaindersOnly == LoaderSpec => []OnlyRemainders
<1>1. ASSUME LoaderInv PROVE OnlyRemainders
  <2> SUFFICES ASSUME sent = TOTAL, received = sent,
                      \A w \in Workers : wpc[w] = "receive"
               PROVE  Count + WORKERS * (BATCH - 1) >= TOTAL
    BY DEF OnlyRemainders
  <2>1. Counting = {}
    BY DEF Counting
  <2>2. Cardinality(Counting) = 0
    BY <2>1, FS_EmptySet
  <2>3. Count = Cardinality(stored \cup lost)
    <3>1. Count \in Nat /\ BATCH * 0 = 0
      BY <1>1, LoaderConstants DEF LoaderInv, LoaderTypeOK
    <3> QED
      BY <1>1, <2>2, <3>1 DEF LoaderInv, CountIsPosted
  <2>4. received <= Cardinality(stored \cup lost) + WORKERS * (BATCH - 1)
    BY <1>1, RemaindersBounded
  <2>5. Count \in Nat /\ TOTAL \in Nat /\ WORKERS * (BATCH - 1) \in Nat
    BY <1>1, LoaderConstants DEF LoaderInv, LoaderTypeOK
  <2> QED
    BY <2>3, <2>4, <2>5
<1> QED
  BY <1>1, LoaderInvariant, PTL
=============================================================================
