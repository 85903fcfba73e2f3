\* INIT and the three slots that fork may hand out: a zombie whose parent is
\* not a child of INIT can be left to INIT.  MaxLoad lets two processes be in a
\* call at once, one if the table is full; waiting for a child is not counted.
CONSTANTS
    MM = 4
    FS = 3
    InitProc = 5
    User = {9, 10, 11}
    MaxLoad = 5
    Watched = {9}
    Proc = {3, 4, 5, 9, 10, 11}
    IntTask = {}
    Body = {0}
    HARD_INT = 1
    ANY = 47
    INTERRUPT = 1000
    NO_TASK = 57
SPECIFICATION Spec
INVARIANTS  TableSettled
  
CHECK_DEADLOCK FALSE
