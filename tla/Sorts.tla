------------------------------- MODULE Sorts -------------------------------
(***************************************************************************)
(* The seven sorting programs of algorithm/.  Each is one C function over  *)
(* an array; a loop is a fold or a recursion, and a whole sort one step,   *)
(* but for the two quick sorts, whose step is one call (the first picks    *)
(* its pivot at random, the second may never return).                      *)
(*                                                                         *)
(* The memory holds one cell before and one behind the array, with any     *)
(* content: two of the functions reach beyond their array.                 *)
(***************************************************************************)
EXTENDS Integers, Sequences, FiniteSets, SequencesExt

CONSTANTS
    Sorters,    \* the programs that are run
    MaxSize,    \* bound: the arrays have 1 .. MaxSize elements
    Values

SortConstants ==
    /\ Sorters \subseteq {"bubble", "selection", "quick", "quick2", "merge", "merge2", "heap"}
    /\ MaxSize \in Nat \ {0}
    /\ Values \subseteq Int

VARIABLES
    sort,       \* the program
    size,
    mem,        \* cells -1 .. size, of which 0 .. size - 1 are the array
    input,      \* mem before the call
    calls       \* calls of a quick sort still to make, the next one first

sortVars == <<sort, size, mem, input, calls>>

Init ==
    /\ sort \in Sorters
    /\ size \in 1 .. MaxSize
    /\ mem \in [-1 .. size -> Values]
    /\ input = mem
    /\ calls = <<<<0, size - 1>>>>

Up(lo, hi) == [n \in 1 .. hi - lo + 1 |-> lo + n - 1]

Down(hi, lo) == Reverse(Up(lo, hi))

(* The xor version does nothing when both are the same cell.               *)
Swap(m, i, j) == [m EXCEPT ![i] = m[j], ![j] = m[i]]

-----------------------------------------------------------------------------
(* Bubble and selection sort.                                              *)

(* Lines 28-29 compare a[length - 1] with a[length] in the first pass.     *)
BubblePass(m, i) ==
    FoldLeft(LAMBDA x, k : IF x[k] > x[k + 1] THEN Swap(x, k, k + 1) ELSE x,
             m, Up(0, size - i - 1))

BubbleSort(m) == FoldLeft(BubblePass, m, Up(0, size - 1))

SelectionPass(m, i) ==
    FoldLeft(LAMBDA x, k : IF x[i] > x[k] THEN Swap(x, i, k) ELSE x,
             m, Up(i + 1, size - 1))

SelectionSort(m) == FoldLeft(SelectionPass, m, Up(0, size - 1))

-----------------------------------------------------------------------------
(* Heap sort.                                                              *)

(* A division by two of C, which rounds towards zero.                      *)
Half(x) == IF x < 0 THEN - ((-x) \div 2) ELSE x \div 2

Larger(m, child, n, length) ==
    IF child <= length - 1 /\ m[child] > m[n] THEN child ELSE n

RECURSIVE HeapAdjust(_, _, _)
HeapAdjust(m, n, length) ==
    LET max == Larger(m, 2 * n + 2, Larger(m, 2 * n + 1, n, length), length)
    IN  IF n <= Half(length - 2) /\ max # n
        THEN HeapAdjust(Swap(m, n, max), max, length)
        ELSE m

(* The last parent of an even number of elements is left out.              *)
BuildHeap(m) ==
    FoldLeft(LAMBDA x, i : HeapAdjust(x, i, size), m, Down(Half(size - 1) - 1, 0))

HeapSort(m) ==
    FoldLeft(LAMBDA x, i : HeapAdjust(Swap(x, i, 0), 0, i),
             BuildHeap(m), Down(size - 1, 0))

-----------------------------------------------------------------------------
(* The two merge sorts.                                                    *)

Slice(m, lo, hi) == [n \in 1 .. hi - lo + 1 |-> m[lo + n - 1]]

Overwrite(m, lo, temp) ==
    [k \in DOMAIN m |-> IF k \in lo .. lo + Len(temp) - 1 THEN temp[k - lo + 1] ELSE m[k]]

(* Looks for the end of a half after it took the half's element.           *)
RECURSIVE Merge(_, _, _, _, _)
Merge(m, i, j, mid, last) ==
    IF m[i] <= m[j]
    THEN <<m[i]>> \o (IF i + 1 > mid THEN Slice(m, j, last)
                                     ELSE Merge(m, i + 1, j, mid, last))
    ELSE <<m[j]>> \o (IF j + 1 > last THEN Slice(m, i, mid)
                                      ELSE Merge(m, i, j + 1, mid, last))

RECURSIVE MergeSort(_, _, _)
MergeSort(m, first, last) ==
    LET mid == (first + last) \div 2
        x   == MergeSort(MergeSort(m, first, mid), mid + 1, last)
    IN  IF first = last THEN m
        ELSE Overwrite(x, first, Merge(x, first, mid + 1, mid, last))

(* Looks before it takes an element.                                       *)
RECURSIVE Merge2(_, _, _, _, _)
Merge2(m, i, j, mid, right) ==
    IF i <= mid /\ j <= right
    THEN IF m[i] <= m[j] THEN <<m[i]>> \o Merge2(m, i + 1, j, mid, right)
                         ELSE <<m[j]>> \o Merge2(m, i, j + 1, mid, right)
    ELSE IF j > right THEN Slice(m, i, mid) ELSE Slice(m, j, right)

RECURSIVE MergeSort2(_, _, _)
MergeSort2(m, left, right) ==
    LET mid == left + (right - left) \div 2
        x   == MergeSort2(MergeSort2(m, left, mid), mid + 1, right)
    IN  IF left >= right THEN m
        ELSE Overwrite(x, left, Merge2(x, left, mid + 1, mid, right))

-----------------------------------------------------------------------------
(* The two quick sorts: a call swaps the pivot to the right end, moves     *)
(* what is smaller to the left and calls itself for both sides.            *)

(* [mem, small] after the loop over the cells from lo to hi.               *)
Smaller(m, lo, hi, right) ==
    FoldLeft(LAMBDA x, k :
                 IF x.mem[k] < x.mem[right]
                 THEN [mem |-> Swap(x.mem, x.small + 1, k), small |-> x.small + 1]
                 ELSE x,
             [mem |-> m, small |-> lo - 1], Up(lo, hi))

Pending(left, index, right) ==
    (IF index > left THEN <<<<left, index - 1>>>> ELSE <<>>)
        \o (IF index < right THEN <<<<index + 1, right>>>> ELSE <<>>)

(* Mutant: the pivot goes to the last smaller element's place.             *)
SortOneLow(m, left, right, index) ==
    LET x == Smaller(Swap(m, index, right), left, right - 1, right)
    IN  [mem |-> Swap(x.mem, x.small + (IF x.small < left THEN 1 ELSE 0), right),
         at |-> x.small + 1]

SortOne(m, left, right, index) ==
    LET x == Smaller(Swap(m, index, right), left, right - 1, right)
    IN  [mem |-> Swap(x.mem, x.small + 1, right), at |-> x.small + 1]

(* sort_one refuses a range that is not in the array.                      *)
QuickSort(left, right) ==
    IF left = right \/ left < 0 \/ right >= size
    THEN mem' = mem /\ calls' = Tail(calls)
    ELSE \E index \in left .. right :
            LET x == SortOne(mem, left, right, index)
            IN  /\ mem' = x.mem
                /\ calls' = Pending(left, x.at, right) \o Tail(calls)

(* The pivot goes to the last smaller element's place (line 32), which     *)
(* without a smaller element is the cell before the range.                 *)
QuickSort2(left, right) ==
    IF left >= right
    THEN mem' = mem /\ calls' = Tail(calls)
    ELSE LET mid == left + (right - left) \div 2
             x   == Smaller(Swap(mem, mid, right), left, right, right)
             pos == x.small
         IN  /\ mem' = Swap(x.mem, pos, right)
             /\ calls' = <<<<left, pos - 1>>, <<pos + 1, right>>>> \o Tail(calls)

-----------------------------------------------------------------------------
Run ==
    /\ calls # <<>>
    /\ LET left == Head(calls)[1]
           right == Head(calls)[2]
       IN  CASE sort = "quick"  -> QuickSort(left, right)
             [] sort = "quick2" -> QuickSort2(left, right)
             [] OTHER ->
                  /\ calls' = <<>>
                  /\ mem' = CASE sort = "bubble"    -> BubbleSort(mem)
                              [] sort = "selection" -> SelectionSort(mem)
                              [] sort = "heap"      -> HeapSort(mem)
                              [] sort = "merge"     -> MergeSort(mem, 0, size - 1)
                              [] sort = "merge2"    -> MergeSort2(mem, 0, size - 1)
    /\ UNCHANGED <<sort, size, input>>

Spec == Init /\ [][Run]_sortVars

-----------------------------------------------------------------------------
Array == 0 .. size - 1

Sorted(S) == \A i, j \in S : i <= j => mem[i] <= mem[j]

Count(m, v) == Cardinality({k \in DOMAIN m : m[k] = v})

Outside == {-1, size}

(* At every step the memory holds what it held, in an order of its own: no *)
(* swap or merge of the seven loses or doubles an element.  Selection sort,*)
(* quick sort and the two merge sorts touch nothing outside their array,   *)
(* whatever pivots are drawn, and have sorted it when they return.         *)
SortsAreRight ==
    /\ \A v \in Values : Count(mem, v) = Count(input, v)
    /\ sort \in {"selection", "quick", "merge", "merge2"} =>
          /\ \A k \in Outside : mem[k] = input[k]
          /\ calls = <<>> => Sorted(Array)

(* Every program's main draws an array, has its function sort it and prints*)
(* it (bubble_sort.c:39-52, heap_sort/dd.c:65-78, quick_sort2.c:41-55): the*)
(* function has then sorted this array, and written to no other cell.      *)
EverySortSorts ==
    calls = <<>> => Sorted(Array) /\ \A k \in Outside : mem[k] = input[k]
=============================================================================
