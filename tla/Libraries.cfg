\* Keys enough for every case of the red-black tree's fix loops, one of them
\* inserted with two data; an AVL tree of up to six numbers, one of them twice;
\* three calls on dates and times; every array of up to four of three values;
\* every int of four bits; three strings; two openings of the properties file,
\* and two messages of the logger.
CONSTANTS
    MaxKey = 6
    Datas = {d1, d2}
    Varied = {2}
    MaxData = 5
    Doubled = {2}
    TooShort = TooShort
    Strings <- DateStrings
    Clock <- Now
    Days <- SomeDays
    Hours <- SomeHours
    Minutes <- SomeMinutes
    Seconds <- SomeSeconds
    MaxCalls = 3
    Sorters = {"bubble", "selection", "quick", "quick2", "merge", "merge2", "heap"}
    MaxSize = 4
    Values = {1, 2, 3}
    Width = 4
    MaxLength = 4
    MaxSide = 4
    g_max_value = 3
    MaxDice = 4
    Objects = {o1, o2, o3}
    Texts = {t1, t2}
    Buffers = {b1, b2, b3, b4}
    MaxOpens = 2
    MaxMessages = 2
SPECIFICATION FairSpec
INVARIANTS
    TreeIsRight
    CalendarIsRight
    AlgorithmsAreRight
    ConfigAndLogAreRight
PROPERTIES
    ImplementsDictionary
    CallsEnd
    KeepsBalance
    ImplementsMultiset
    AdditionIsExact
\* Nothing follows a destructor, and the calls are bounded.
CHECK_DEADLOCK FALSE
