\* The arrays that the programs' mains draw, short, and a cell on either side.
\* TLC stops at bubble_sort; "heap" or "quick2" alone are violated as well.
CONSTANTS
    Sorters = {"bubble", "heap", "quick2"}
    MaxSize = 2
    Values = {1, 2}
SPECIFICATION Spec
INVARIANT EverySortSorts
\* A sort returns.
CHECK_DEADLOCK FALSE
