\* From 1 January 1900, a Monday, a week on.
CONSTANTS
    Strings = {}
    Clock = {}
    Days = {1, 6}
    Hours = {}
    Minutes = {}
    Seconds = {}
    TooShort = TooShort
    MaxCalls = 2
SPECIFICATION Spec
INVARIANT WeekDayAsPromised
\* The calls are bounded.
CHECK_DEADLOCK FALSE
