---------------------------- MODULE SharedMemory ----------------------------
(***************************************************************************)
(* ipc/u14.6_shm: each run of the program is a process that makes the      *)
(* shared memory segment of SHM_KEY, copies a string into it, prints what  *)
(* is in it or removes it.  Nothing keeps a copy and a print apart, and no *)
(* call is checked: shmget with size 0 makes no segment, and shmat then    *)
(* gives an address that cannot be used.                                   *)
(*                                                                         *)
(* An argument of MAX_DATA characters or more leaves the array content     *)
(* without an end (strncpy, line 34): strlen then finds what follows it on *)
(* the stack, and the copy is longer than the segment.                     *)
(***************************************************************************)
EXTENDS Integers, Sequences, SequencesExt

CONSTANTS
    Processes,
    MAX_DATA,
    PAGE,           \* the cells shmat maps: MAX_DATA, rounded up by the kernel
    Characters,
    Arguments,      \* what -c may give: sequences of characters
    Stack,          \* what may stand behind content, up to the first NUL
    MaxSegments     \* bound: the segments made one after the other

NUL == "NUL"

ShmConstants ==
    /\ MAX_DATA \in Nat \ {0} /\ PAGE \in Nat /\ PAGE >= MAX_DATA
    /\ NUL \notin Characters
    /\ Arguments \subseteq Seq(Characters) /\ Stack \subseteq Seq(Characters)

(* What strlen finds in the array after strncpy put argument there.        *)
Found(argument, behind) ==
    IF Len(argument) < MAX_DATA THEN argument
    ELSE SubSeq(argument, 1, MAX_DATA) \o behind

Contents == {Found(a, b) : a \in Arguments, b \in Stack} \cup {<<>>}

Commands == {"create", "write", "read", "close"}

VARIABLES
    cmd, content,
    at,         \* "shmget", "shmat", "memcpy", "strlen", "print", "shmctl",
                \* "done" or "crashed"
    shm_id,     \* what shmget returned: a segment, or -1
    left,       \* the characters memcpy has still to copy
    length,     \* the characters printf has found before the end
    printed,
    segments,   \* every segment made: [cells, keyed]; without the key it goes
                \* when the last process that attached it ends
    log         \* the copies and prints begun and ended, <<process, "begin" or "end">>

shmVars == <<cmd, content, at, shm_id, left, length, printed, segments, log>>

Init ==
    /\ cmd \in [Processes -> Commands]
    /\ content \in [Processes -> Contents]
    /\ \A p \in Processes : cmd[p] # "write" => content[p] = <<>>
    /\ at = [p \in Processes |-> "shmget"]
    /\ shm_id = [p \in Processes |-> 0]
    /\ left = [p \in Processes |-> {}]
    /\ length = [p \in Processes |-> 0]
    /\ printed = [p \in Processes |-> <<>>]
    /\ segments = <<>>
    /\ log = <<>>

Current == {s \in DOMAIN segments : segments[s].keyed}

AttachedTo(s) ==
    {p \in Processes : shm_id[p] = s /\ at[p] \in {"memcpy", "strlen", "print"}}

Exists(s) == s \in DOMAIN segments /\ (segments[s].keyed \/ AttachedTo(s) # {})

Goto(p, place) == at' = [at EXCEPT ![p] = place]

(* A new segment is filled with zeros.                                     *)
Shmget(p) ==
    /\ at[p] = "shmget"
    /\ CASE Current # {} ->
              /\ \E s \in Current : shm_id' = [shm_id EXCEPT ![p] = s]
              /\ UNCHANGED segments
         [] Current = {} /\ cmd[p] = "create" ->
              /\ Len(segments) < MaxSegments
              /\ segments' = Append(segments,
                    [cells |-> [i \in 1 .. PAGE |-> NUL], keyed |-> TRUE])
              /\ shm_id' = [shm_id EXCEPT ![p] = Len(segments) + 1]
         [] Current = {} /\ cmd[p] # "create" ->
              /\ shm_id' = [shm_id EXCEPT ![p] = -1]
              /\ UNCHANGED segments
    /\ Goto(p, IF cmd[p] = "close" THEN "shmctl" ELSE "shmat")
    /\ UNCHANGED <<cmd, content, left, length, printed, log>>

(* IPC_RMID of -1, or of a segment that is gone, fails.                    *)
Shmctl(p) ==
    /\ at[p] = "shmctl"
    /\ Goto(p, "done")
    /\ segments' = IF shm_id[p] = -1 THEN segments
                   ELSE [segments EXCEPT ![shm_id[p]].keyed = FALSE]
    /\ UNCHANGED <<cmd, content, shm_id, left, length, printed, log>>

(* create does nothing with the address.                                   *)
Shmat(p) ==
    /\ at[p] = "shmat"
    /\ CASE cmd[p] = "create" -> Goto(p, "done") /\ UNCHANGED <<left, log>>
         [] cmd[p] # "create" /\ ~Exists(shm_id[p]) ->
              Goto(p, "crashed") /\ UNCHANGED <<left, log>>
         [] cmd[p] = "write" /\ Exists(shm_id[p]) ->
              /\ Goto(p, "memcpy")
              /\ left' = [left EXCEPT ![p] = 1 .. Len(content[p]) + 1]
              /\ log' = Append(log, <<p, "begin">>)
         [] cmd[p] = "read" /\ Exists(shm_id[p]) ->
              /\ Goto(p, "strlen")
              /\ log' = Append(log, <<p, "begin">>)
              /\ UNCHANGED left
    /\ UNCHANGED <<cmd, content, shm_id, length, printed, segments>>

(* Mutant: a copy without the end of the string.                           *)
CharacterOnly(p, i) == IF i > Len(content[p]) THEN "x" ELSE content[p][i]

Character(p, i) == IF i > Len(content[p]) THEN NUL ELSE content[p][i]

(* memcpy copies in any order, and does not stop at the end of the page.   *)
Memcpy(p) ==
    /\ at[p] = "memcpy"
    /\ \E i \in left[p] \cap (1 .. PAGE) :
          /\ segments' = [segments EXCEPT ![shm_id[p]].cells[i] = Character(p, i)]
          /\ left' = [left EXCEPT ![p] = @ \ {i}]
          /\ IF left[p] = {i}
             THEN Goto(p, "done") /\ log' = Append(log, <<p, "end">>)
             ELSE UNCHANGED <<at, log>>
    /\ UNCHANGED <<cmd, content, shm_id, length, printed>>

(* What is behind the page is nobody's, or somebody else's.                *)
MemcpyBehind(p) ==
    /\ at[p] = "memcpy"
    /\ \E i \in left[p] :
          /\ i > PAGE
          /\ \/ Goto(p, "crashed") /\ UNCHANGED <<left, log>>
             \/ /\ left' = [left EXCEPT ![p] = @ \ {i}]
                /\ IF left[p] = {i}
                   THEN Goto(p, "done") /\ log' = Append(log, <<p, "end">>)
                   ELSE UNCHANGED <<at, log>>
    /\ UNCHANGED <<cmd, content, shm_id, length, printed, segments>>

Cells(p) == segments[shm_id[p]].cells

(* printf looks for the end and then copies what stands before it.  Without*)
(* an end it crashes behind the page, or prints what it finds there as well*)
(* (which is not kept).                                                    *)
Strlen(p) ==
    /\ at[p] = "strlen"
    /\ IF length[p] < PAGE /\ Cells(p)[length[p] + 1] # NUL
       THEN length' = [length EXCEPT ![p] = @ + 1] /\ UNCHANGED at
       ELSE /\ \/ Goto(p, "print")
               \/ length[p] = PAGE /\ Goto(p, "crashed")
            /\ UNCHANGED length
    /\ UNCHANGED <<cmd, content, shm_id, left, printed, segments, log>>

printf(p) ==
    /\ at[p] = "print"
    /\ IF Len(printed[p]) < length[p]
       THEN /\ printed' = [printed EXCEPT ![p] = Append(@, Cells(p)[Len(@) + 1])]
            /\ UNCHANGED <<at, log>>
       ELSE /\ Goto(p, "done")
            /\ log' = Append(log, <<p, "end">>)
            /\ UNCHANGED printed
    /\ UNCHANGED <<cmd, content, shm_id, left, length, segments>>

Step(p) ==
    Shmget(p) \/ Shmctl(p) \/ Shmat(p) \/ Memcpy(p) \/ MemcpyBehind(p)
    \/ Strlen(p) \/ printf(p)

Next == \E p \in Processes : Step(p)

Spec == Init /\ [][Next]_shmVars

-----------------------------------------------------------------------------
IsLogged(p, event) == Contains(log, <<p, event>>)
Position(p, event) == CHOOSE n \in DOMAIN log : log[n] = <<p, event>>

(* What p did was over before q did anything.                              *)
Precedes(p, q) ==
    IsLogged(p, "end") /\ (IsLogged(q, "begin") => Position(p, "end") < Position(q, "begin"))

UsersOf(s) == {p \in Processes : shm_id[p] = s /\ IsLogged(p, "begin")}

Writers(s) == {p \in UsersOf(s) : cmd[p] = "write"}

(* The copies of p's segment that were over before p, all one by one.      *)
Before(p) == {w \in Writers(shm_id[p]) : Precedes(w, p)}

Ordered(copies) == \A v, w \in copies : v = w \/ Precedes(v, w) \/ Precedes(w, v)

(* No copy overlaps with p.                                                *)
Apart(p) == \A w \in Writers(shm_id[p]) : Precedes(w, p) \/ Precedes(p, w)

(* The text p finds: the content copied last, and nothing without a copy.  *)
IsText(p, text) ==
    \/ Before(p) = {} /\ text = <<>>
    \/ \E w \in Before(p) :
          /\ \A v \in Before(p) \ {w} : Precedes(v, w)
          /\ text = content[w]

(* The copies p finds had their end on the page.                           *)
Ended(p) == \A w \in Before(p) : Len(content[w]) < PAGE

(* Whatever is copied meanwhile, in whatever order, a print runs no further*)
(* than the longest string copied to the segment: it ends inside MAX_DATA  *)
(* cells unless an argument had no end there (dd.c:34).  Where copies that *)
(* ended on the page did not overlap with each other or the print, it is   *)
(* the content copied last, and nothing without a copy, also when the      *)
(* segment was removed in the meantime (dd.c:59-70).                       *)
PrintsAreWhole ==
    \A p \in Processes : cmd[p] = "read" /\ at[p] \in {"strlen", "print", "done"} =>
        /\ length[p] > 0 => \E w \in Writers(shm_id[p]) : length[p] <= Len(content[w])
        /\ at[p] = "done" /\ Apart(p) /\ Ordered(Before(p)) /\ Ended(p)
              => IsText(p, printed[p])

-----------------------------------------------------------------------------
(* The inductive invariant.                                                *)

Cell == Characters \cup {NUL}

TypeOK ==
    /\ cmd \in [Processes -> Commands]
    /\ content \in [Processes -> Contents]
    /\ at \in [Processes -> {"shmget", "shmat", "memcpy", "strlen", "print",
                             "shmctl", "done", "crashed"}]
    /\ shm_id \in [Processes -> Int]
    /\ left \in [Processes -> SUBSET Nat]
    /\ length \in [Processes -> Nat]
    /\ printed \in [Processes -> Seq(Cell)]
    /\ segments \in Seq([cells : [1 .. PAGE -> Cell], keyed : BOOLEAN])
    /\ log \in Seq(Processes \X {"begin", "end"})

(* Where a process is, and what it has then.                               *)
PlaceInv ==
    \A p \in Processes :
        /\ at[p] \in {"shmget", "shmat"} => printed[p] = <<>> /\ length[p] = 0
        /\ at[p] = "shmat" => cmd[p] # "close"
        /\ at[p] = "shmctl" => cmd[p] = "close"
        /\ at[p] \in {"shmat", "shmctl"} => shm_id[p] \in DOMAIN segments \cup {-1}
        /\ at[p] = "memcpy" => cmd[p] = "write"
        /\ left[p] \subseteq 1 .. Len(content[p]) + 1
        /\ at[p] \notin {"memcpy", "crashed"} => left[p] = {}
        /\ at[p] \in {"strlen", "print"} => cmd[p] = "read"
        /\ length[p] <= PAGE
        /\ at[p] = "strlen" => printed[p] = <<>>

(* What is logged, and when.                                               *)
LogOK(p) ==
    /\ cmd[p] \in {"write", "read"} /\ at[p] \in {"memcpy", "strlen", "print", "done"}
          => IsLogged(p, "begin")
    /\ IsLogged(p, "end") <=> cmd[p] \in {"write", "read"} /\ at[p] = "done"
    /\ IsLogged(p, "begin") => /\ cmd[p] \in {"write", "read"}
                               /\ at[p] \notin {"shmget", "shmat", "shmctl"}
                               /\ shm_id[p] \in DOMAIN segments

LogInv ==
    /\ \A m, n \in DOMAIN log : log[m] = log[n] => m = n
    /\ \A p \in Processes : LogOK(p)

(* What is in a segment, while its copies do not overlap.                  *)
LastOf(s, w) == w \in Writers(s) /\ \A v \in Writers(s) \ {w} : Precedes(v, w)

SegmentOK(s) ==
    LET cells == segments[s].cells IN
    /\ \A i \in 1 .. PAGE :
          cells[i] # NUL => \E w \in Writers(s) : i <= Len(content[w])
    /\ Writers(s) # {} /\ Ordered(Writers(s)) => \E w \in Writers(s) : LastOf(s, w)
    /\ \A w \in Writers(s) : LastOf(s, w) =>
          \A i \in (1 .. Len(content[w]) + 1) \ left[w] :
              i <= PAGE => cells[i] = Character(w, i)

SegmentInv == \A s \in DOMAIN segments : SegmentOK(s)

(* How far a print has looked for the end.                                 *)
LengthOK(p) ==
    length[p] > 0 => \E w \in Writers(shm_id[p]) : length[p] <= Len(content[w])

LengthInv == \A p \in Processes : LengthOK(p)

(* How far a print is that no copy overlaps with.                          *)
ReadSoFar(p, text) ==
    /\ IsText(p, text)
    /\ at[p] = "strlen" => length[p] <= Len(text)
    /\ at[p] = "print" => /\ length[p] = Len(text)
                          /\ Len(printed[p]) <= Len(text)
                          /\ \A i \in 1 .. Len(printed[p]) : printed[p][i] = text[i]
    /\ at[p] = "done" => printed[p] = text

ReadOK(p) ==
    /\ cmd[p] = "read" /\ at[p] \in {"strlen", "print", "done"}
    /\ Apart(p) /\ Ordered(Before(p)) /\ Ended(p)
    => \E text \in Contents : ReadSoFar(p, text)

ReadInv == \A p \in Processes : ReadOK(p)

ShmInvariant == TypeOK /\ PlaceInv /\ LogInv /\ SegmentInv /\ LengthInv /\ ReadInv
=============================================================================
