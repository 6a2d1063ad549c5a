---------------------------- MODULE PointToOffer ----------------------------
(***************************************************************************)
(* The exercises of point_to_offer: a string class (p1), blanks made longer*)
(* in place (p4), counting bits (p10), a power (p11), a matrix read along a*)
(* spiral (p20) and the sums of dice (p43).  A function is called once and *)
(* its answer kept; the string class is a sequence of calls.               *)
(***************************************************************************)
EXTENDS Integers, Sequences, FiniteSetsExt, SequencesExt, Bitwise

CONSTANTS
    Width,          \* the bits of an int
    MaxLength,      \* bound: of a string that has blanks replaced
    Bases,          \* the bases of a power, integers
    MaxSide,        \* bound: the rows and columns of a matrix
    g_max_value,    \* the faces of a die
    MaxDice,        \* bound: the dice
    Objects,        \* the variables that hold a CMyString
    Texts,          \* their contents
    Buffers         \* what new may return; one more than Objects

ExerciseConstants ==
    /\ {Width, MaxLength, MaxSide, g_max_value, MaxDice} \subseteq Nat \ {0}
    /\ Bases \subseteq Int
    /\ Cardinality(Buffers) > Cardinality(Objects)

VARIABLES
    question,   \* [p, in]: which function, and its argument
    answer,     \* <<>> before the call, <<what it returned>> after
    object,     \* each object's m_pData: a buffer, "NULL", or "none": no object
    heap,       \* the buffers allocated and their contents
    crashed     \* a string function was given a null pointer

stringVars == <<object, heap, crashed>>
exerciseVars == <<question, answer, stringVars>>

-----------------------------------------------------------------------------
(* p4: from both strings' ends, until every blank has been moved.          *)
RECURSIVE Move(_, _, _, _, _)
Move(str, tail, str_end, count, num) ==
    IF count = num THEN str
    ELSE IF str[str_end] = " "
         THEN Move([str EXCEPT ![tail] = "0", ![tail - 1] = "2", ![tail - 2] = "%"],
                   tail - 3, str_end - 1, count + 1, num)
         ELSE Move([str EXCEPT ![tail] = str[str_end]], tail - 1, str_end - 1, count, num)

(* The memory behind the string is there, with any content.                *)
transfer(str) ==
    LET num == Cardinality({i \in DOMAIN str : str[i] = " "})
        len == Len(str) + 2 * num
    IN  Move([i \in 1 .. len |-> IF i <= Len(str) THEN str[i] ELSE "?"],
             len, Len(str), 0, num)

(* p10: an int is its bits, a number below 2^Width.                        *)
number_of_one(n) ==
    FoldLeft(LAMBDA count, k : IF (2^k & n) # 0 THEN count + 1 ELSE count,
             0, [k \in 1 .. Width |-> k - 1])

RECURSIVE number_of_one_other(_)
number_of_one_other(n) ==
    IF n = 0 THEN 0 ELSE 1 + number_of_one_other((n - 1) & n)

(* p11: a fraction <<numerator, denominator>>, or "input error".           *)
RECURSIVE power_with_unsigned_exponent(_, _)
power_with_unsigned_exponent(base, exponent) ==
    CASE exponent = 0 -> 1
      [] exponent = 1 -> base
      [] OTHER ->
           LET root == power_with_unsigned_exponent(base, exponent \div 2)
           IN  root * root * (IF exponent % 2 = 1 THEN base ELSE 1)

(* -1 * exponent is made unsigned: right for the least int as well.        *)
power(base, exponent) ==
    CASE base = 0 /\ exponent < 0 -> "input error"
      [] exponent >= 0 -> <<power_with_unsigned_exponent(base, exponent), 1>>
      [] OTHER -> <<1, power_with_unsigned_exponent(base, (-1 * exponent) % 2^Width)>>

(* p20: the places <<row, column>> printed, from 0.                        *)
Up(lo, hi)   == [n \in 1 .. hi - lo + 1 |-> lo + n - 1]
Down(hi, lo) == Reverse(Up(lo, hi))
Places(s, Place(_)) == [n \in DOMAIN s |-> Place(s[n])]

print_cycle(row, column, cycle) ==
    LET endX == column - 1 - cycle
        endY == row - 1 - cycle
    IN  Places(Up(cycle, endX), LAMBDA i : <<cycle, i>>)
        \o (IF cycle < endY
            THEN Places(Up(cycle + 1, endY), LAMBDA i : <<i, endX>>) ELSE <<>>)
        \o (IF cycle < endX /\ cycle < endY
            THEN Places(Down(endX - 1, cycle), LAMBDA i : <<endY, i>>) ELSE <<>>)
        \o (IF cycle < endX /\ cycle < endY - 1
            THEN Places(Down(endY - 1, cycle + 1), LAMBDA i : <<i, cycle>>) ELSE <<>>)

RECURSIVE Cycles(_, _, _)
Cycles(row, column, cycle) ==
    IF column > cycle * 2 /\ row > cycle * 2
    THEN print_cycle(row, column, cycle) \o Cycles(row, column, cycle + 1)
    ELSE <<>>

print_matrix(row, column) ==
    IF row <= 0 \/ column <= 0 THEN <<>> ELSE Cycles(row, column, 0)

(* p43: the array made from the other one for i dice; what was there of    *)
(* i - 2 dice is written over.                                             *)
Sums(other, old, i) ==
    [j \in DOMAIN old |->
        IF j \in 1 .. g_max_value * i
        THEN FoldLeft(LAMBDA sum, k : IF j - k > 0 THEN sum + other[j - k] ELSE sum,
                      0, Up(1, g_max_value))
        ELSE old[j]]

RECURSIVE Throw(_, _, _, _, _)
Throw(sum_array1, sum_array2, use_sum_array1, i, n) ==
    CASE i > n -> IF ~use_sum_array1 THEN sum_array1 ELSE sum_array2
      [] i <= n /\ use_sum_array1 ->
           Throw(Sums(sum_array2, sum_array1, i), sum_array2, FALSE, i + 1, n)
      [] i <= n /\ ~use_sum_array1 ->
           Throw(sum_array1, Sums(sum_array1, sum_array2, i), TRUE, i + 1, n)

printAll(n) ==
    LET zero == [j \in 0 .. g_max_value * n |-> 0]
    IN  Throw(zero, [j \in DOMAIN zero |-> IF j \in 1 .. g_max_value THEN 1 ELSE 0],
              TRUE, 2, n)

-----------------------------------------------------------------------------
Questions ==
    [p : {4},  in : UNION {[1 .. n -> {" ", "x", "y"}] : n \in 0 .. MaxLength}]
    \cup [p : {10}, in : 0 .. 2^Width - 1]
    \cup [p : {11}, in : Bases \X (-(2^(Width - 1)) .. 2^(Width - 1) - 1)]
    \cup [p : {20}, in : (0 .. MaxSide) \X (0 .. MaxSide)]
    \cup [p : {43}, in : 1 .. MaxDice]

NoQuestion == [p |-> 1, in |-> <<>>]

Init ==
    /\ question \in Questions \cup {NoQuestion}
    /\ answer = <<>>
    /\ object = [o \in Objects |-> "none"]
    /\ heap = <<>>
    /\ crashed = FALSE

Call ==
    /\ question.p # 1 /\ answer = <<>>
    /\ LET in == question.in
       IN  answer' = <<CASE question.p = 4  -> transfer(in)
                         [] question.p = 10 -> <<number_of_one(in), number_of_one_other(in)>>
                         [] question.p = 11 -> power(in[1], in[2])
                         [] question.p = 20 -> print_matrix(in[1], in[2])
                         [] question.p = 43 -> printAll(in)>>
    /\ UNCHANGED <<question, stringVars>>

-----------------------------------------------------------------------------
(* p1.                                                                     *)

Live(o) == object[o] # "none"

Without(h, b) == [x \in DOMAIN h \ {b} |-> h[x]]

(* m_pData = new char[...] and strcpy, after what it held was deleted.     *)
Allocate(o, h, text) ==
    \E b \in Buffers \ DOMAIN heap :
        /\ object' = [object EXCEPT ![o] = b]
        /\ heap' = h @@ (b :> text)

Construct(o, text) ==
    /\ ~Live(o)
    /\ \/ Allocate(o, heap, text)
       \/ object' = [object EXCEPT ![o] = "NULL"] /\ UNCHANGED heap
    /\ UNCHANGED crashed

(* strlen of a null pointer.                                               *)
Crash == crashed' = TRUE /\ UNCHANGED <<object, heap>>

CopyConstruct(o, str) ==
    /\ ~Live(o) /\ Live(str)
    /\ IF object[str] = "NULL" THEN Crash
       ELSE Allocate(o, heap, heap[object[str]]) /\ UNCHANGED crashed

(* Mutant: keeps the buffer it had.                                        *)
AssignLeaking(o, str) ==
    /\ Live(o) /\ Live(str)
    /\ CASE o = str -> UNCHANGED stringVars
         [] o # str /\ object[str] = "NULL" -> Crash
         [] OTHER -> Allocate(o, heap, heap[object[str]]) /\ UNCHANGED crashed

Assign(o, str) ==
    /\ Live(o) /\ Live(str)
    /\ CASE o = str -> UNCHANGED stringVars
         [] o # str /\ object[str] = "NULL" -> Crash
         [] OTHER -> /\ Allocate(o, Without(heap, object[o]), heap[object[str]])
                     /\ UNCHANGED crashed

Destruct(o) ==
    /\ Live(o)
    /\ heap' = Without(heap, object[o])
    /\ object' = [object EXCEPT ![o] = "none"]
    /\ UNCHANGED crashed

StringStep ==
    /\ question.p = 1 /\ ~crashed
    /\ \E o \in Objects :
          \/ \E text \in Texts : Construct(o, text)
          \/ \E str \in Objects : CopyConstruct(o, str) \/ Assign(o, str)
          \/ Destruct(o)
    /\ UNCHANGED <<question, answer>>

Next == Call \/ StringStep

Spec == Init /\ [][Next]_exerciseVars

-----------------------------------------------------------------------------
(* What the answers must be.                                               *)

Encoded(str) == FlattenSeq([i \in DOMAIN str |->
                               IF str[i] = " " THEN <<"%", "2", "0">> ELSE <<str[i]>>])

Bits(n) == Cardinality({k \in 0 .. Width - 1 : (n \div 2^k) % 2 = 1})

(* A walk to neighbouring places that turns right and visits each once.    *)
IsSpiral(s, row, column) ==
    LET step == [n \in 1 .. Len(s) - 1 |-> <<s[n + 1][1] - s[n][1], s[n + 1][2] - s[n][2]>>]
    IN  /\ ToSet(s) = (0 .. row - 1) \X (0 .. column - 1)
        /\ Len(s) = row * column
        /\ s # <<>> => s[1] = <<0, 0>>
        /\ \A n \in DOMAIN step : step[n] \in {<<0, 1>>, <<1, 0>>, <<0, -1>>, <<-1, 0>>}
        /\ \A n \in 1 .. Len(step) - 1 :
              step[n + 1] \in {step[n], <<step[n][2], -step[n][1]>>}

Ways(n, total) ==
    Cardinality({dice \in [1 .. n -> 1 .. g_max_value] :
                    FoldFunction(LAMBDA x, y : x + y, 0, dice) = total})

(* Every function gives what its exercise asks for, for every short input. *)
AnswersAreRight ==
    answer # <<>> =>
        LET in  == question.in
            out == Head(answer)
        IN  CASE question.p = 4  -> out = Encoded(in)
              [] question.p = 10 -> out = <<Bits(in), Bits(in)>>
              [] question.p = 11 ->
                   out = CASE in[1] = 0 /\ in[2] < 0 -> "input error"
                           [] in[2] = 0  -> <<1, 1>>
                           [] in[2] > 0  -> <<in[1] ^ in[2], 1>>
                           [] OTHER      -> <<1, in[1] ^ (-in[2])>>
              [] question.p = 20 -> IsSpiral(out, in[1], in[2])
              [] question.p = 43 -> \A total \in 1 .. g_max_value * in :
                                        out[total] = Ways(in, total)

(* CMyString: every object owns a buffer of its own or none, and every     *)
(* buffer has an owner: nothing is freed twice, used after, or lost.       *)
BuffersAreOwned ==
    /\ \A o \in Objects : object[o] \in DOMAIN heap \cup {"NULL", "none"}
    /\ \A b \in DOMAIN heap : \E o \in Objects : object[o] = b
    /\ \A o1, o2 \in Objects :
          object[o1] = object[o2] /\ object[o1] \in DOMAIN heap => o1 = o2

ExercisesAreRight == AnswersAreRight /\ BuffersAreOwned
=============================================================================
