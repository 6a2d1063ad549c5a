----------------------------- MODULE MCLibraries -----------------------------
(***************************************************************************)
(* The sequential code: the two search trees, the sorts, the exercises of  *)
(* point_to_offer, and the common library's dates and times, properties    *)
(* file and logger.  They share no state; `part' says which one is called, *)
(* and the others stay as they are.                                        *)
(***************************************************************************)
EXTENDS RbTreeProps, FaTimesProps

CONSTANTS
    MaxData, Doubled,           \* the AVL tree
    Sorters, MaxSize, Values,   \* the sorts
    Width, MaxLength, MaxSide, g_max_value, MaxDice,    \* the exercises
    Objects, Texts, Buffers,
    MaxOpens, MaxMessages       \* the properties file and the logger

VARIABLES
    part,
    tree, alive, found,
    sort, size, mem, input, pending,
    question, answer, object, heap, crashed,
    mapLinevalue, loaded, opens,
    life, m_nLogLevel, m_fileOut, streams, disk, tried, told

Seqs == INSTANCE SequencesExt

Avl == INSTANCE AvlTreeProps WITH ret <- found

At(year, month, day, hour, minute, second) ==
    [year |-> year, month |-> month, day |-> day,
     hour |-> hour, minute |-> minute, second |-> second]

(* Ends of years, leap years, centuries, 1970 and the years of four digits,*)
(* what no calendar has, and a string that has a letter for its month.     *)
DateStrings ==
    {At(1970, 1, 1, 0, 0, 0), At(1999, 12, 31, 23, 59, 59), At(2000, 2, 28, 23, 59, 59),
     At(1900, 2, 28, 12, 30, 0), At(2100, 3, 1, 0, 0, 0), At(1904, 2, 29, 5, 5, 5),
     At(1999, 2, 29, 0, 0, 0), At(2001, 13, 1, 24, 0, 0), At(2004, 4, 31, 10, 60, 0),
     At(9999, 12, 31, 0, 0, 0), At(1, 1, 1, 0, 0, 0),
     [read |-> At(2001, 0, 28, 1, 2, 3)], TooShort}

Now == {At(2014, 9, 30, 10, 0, 0)}

(* 24855 days are the last whose seconds fit an int.                       *)
SomeDays    == {-1, 1, 366, 24855, 24856}
SomeHours   == {-1, 25, 600000}
SomeMinutes == {-1, 1441}
SomeSeconds == {-1, 86400, 2147483647}

Srt == INSTANCE Sorts WITH calls <- pending

Offer == INSTANCE PointToOffer WITH Bases <- -1 .. 3

Line(text) == [text |-> text, fits |-> TRUE]

(* Every line of up to three tokens with a "=", and some long ones.        *)
ConfigFiles ==
    {<<Line(text)>> : text \in
        {s \in Seqs!BoundedSeq({" ", "#", "=", "k"}, 3) : Seqs!Contains(s, "=") \/ Len(s) < 2}}
    \cup {<<Line(<<" ", "k", " ", "k", "=", " ", "v", " ", "#", "=">>),
            Line(<<"k", "=", "v", "=", "k", " ", "v">>)>>,
          <<Line(<<"v", "=", "k">>), [text |-> <<"k", "=", "v">>, fits |-> FALSE],
            Line(<<"v", "=", "v">>)>>}

Cfg == INSTANCE FaProperties WITH Files <- ConfigFiles, Numerals <- [w \in {"4"} |-> 4]

(* A number, a name that is read as 0, and a directory that is not there.  *)
LoggerFiles ==
    {<<Line(<<"level", "=", "1">>), Line(<<"filename", "=", "a.log">>)>>,
     <<Line(<<"level", "=", "INFO">>)>>,
     <<Line(<<"filename", "=", "nowhere/a.log">>)>>}

Log == INSTANCE FaLogger WITH
          Files       <- LoggerFiles,
          MaxOpens    <- 1,
          MaxInits    <- 2,
          Numerals    <- [w \in {"1", "4"} |-> IF w = "1" THEN 1 ELSE 4],
          LevelKey    <- <<"level">>,
          FileKey     <- <<"filename">>,
          DefaultFile <- <<"./logs/default.log">>,
          Missing     <- {<<"nowhere/a.log">>}

ASSUME Avl!AvlConstants
ASSUME Srt!SortConstants /\ Offer!ExerciseConstants

avlVars   == <<tree, alive, found>>
sortVars  == <<sort, size, mem, input, pending>>
offerVars == <<question, answer, object, heap, crashed>>
cfgVars   == <<mapLinevalue, loaded, opens>>
logVars   == <<life, m_nLogLevel, m_fileOut, streams, disk, tried, told>>
all == <<part, treeVars, avlVars, vars, sortVars, offerVars, cfgVars, logVars>>

-----------------------------------------------------------------------------
Off(v) == v = "off"

SortsOff  == Off(sort) /\ Off(size) /\ Off(mem) /\ Off(input) /\ Off(pending)
OfferOff  == Off(question) /\ Off(answer) /\ Off(object) /\ Off(heap) /\ Off(crashed)
ConfigOff == Off(mapLinevalue) /\ Off(loaded) /\ Off(opens)
LoggerOff == /\ Off(life) /\ Off(m_nLogLevel) /\ Off(m_fileOut)
             /\ Off(streams) /\ Off(disk) /\ Off(tried) /\ Off(told)

AllInit ==
    /\ part \in {"rb", "avl", "time", "sort", "exercise", "config", "log"}
    /\ InitTree
    /\ Avl!Init
    /\ Init
    /\ part # "time" => class = "FaTime"
    /\ \/ part = "sort"     /\ Srt!Init       /\ OfferOff /\ ConfigOff /\ LoggerOff
       \/ part = "exercise" /\ Offer!Init     /\ SortsOff /\ ConfigOff /\ LoggerOff
       \/ part = "config"   /\ Cfg!InitConfig /\ SortsOff /\ OfferOff  /\ LoggerOff
       \/ part = "log"      /\ Log!InitLogger /\ SortsOff /\ OfferOff
       \/ /\ part \in {"rb", "avl", "time"}
          /\ SortsOff /\ OfferOff /\ ConfigOff /\ LoggerOff

AllNext ==
    \/ /\ part = "rb" /\ NextTree
       /\ UNCHANGED <<part, avlVars, vars, sortVars, offerVars, cfgVars, logVars>>
    \/ /\ part = "avl" /\ Avl!Next
       /\ UNCHANGED <<part, treeVars, vars, sortVars, offerVars, cfgVars, logVars>>
    \/ /\ part = "time" /\ Next
       /\ UNCHANGED <<part, treeVars, avlVars, sortVars, offerVars, cfgVars, logVars>>
    \/ /\ part = "sort" /\ Srt!Run
       /\ UNCHANGED <<part, treeVars, avlVars, vars, offerVars, cfgVars, logVars>>
    \/ /\ part = "exercise" /\ Offer!Next
       /\ UNCHANGED <<part, treeVars, avlVars, vars, sortVars, cfgVars, logVars>>
    \/ /\ part = "config" /\ Cfg!NextConfig
       /\ UNCHANGED <<part, treeVars, avlVars, vars, sortVars, offerVars, logVars>>
    \/ /\ part = "log" /\ Log!NextLogger
       /\ UNCHANGED <<part, treeVars, avlVars, vars, sortVars, offerVars>>

AllSpec == AllInit /\ [][AllNext]_all

(* A call of the red-black tree that has begun goes on.                    *)
FairSpec ==
    AllSpec /\ WF_all(/\ part = "rb" /\ Fix
                   /\ UNCHANGED <<part, avlVars, vars, sortVars, offerVars, cfgVars, logVars>>)

-----------------------------------------------------------------------------
(* AVL tree: insertions and deletions of nodes without two children lead   *)
(* from a balanced tree to a balanced one.                                 *)
KeepsBalance == [][part = "avl" => Avl!StaysBalanced]_all

(* AVL tree: no rotation loses or doubles an element.                      *)
ImplementsMultiset == Avl!ImplementsMultiset

(* Sorts and exercises: no sort loses an element, and four of the seven    *)
(* sort their array and touch nothing else (the other three: Sorts_main);  *)
(* every answer of an exercise is the one asked for, and the string class  *)
(* neither loses nor shares a buffer.                                      *)
AlgorithmsAreRight ==
    /\ part = "sort"     => Srt!SortsAreRight
    /\ part = "exercise" => Offer!ExercisesAreRight

(* Properties file and logger: the map says what the lines say, if all fit;*)
(* no stream of a log loses a message, and a logger crashes only when it   *)
(* has no stream that could be opened.                                     *)
ConfigAndLogAreRight ==
    /\ part = "config" => Cfg!ConfigIsRight
    /\ part = "log"    => Log!LogIsRight
=============================================================================
