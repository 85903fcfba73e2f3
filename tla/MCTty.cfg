CONSTANTS
    TTY = 0
    FS = 3
    User = {6, 7}
    Proc = {0, 3, 6, 7}
    NR_CONSOLES = 2
    Letter = {"x"}
    TTY_IN_BYTES = 1
    MaxRead = 2
    Call = {"READ", "WRITE"}
    Opened <- MCOpened
    MaxKeys = 1
    IntTask = {0}
    Body <- Mail
    HARD_INT = HARD_INT
    ANY = 22
    INTERRUPT = 23
    NO_TASK = 24
SPECIFICATION Spec
INVARIANTS CallersKept LineExact StopsOnlyOnCrossing
\* A panic stops the kernel, and readers may wait for ever.
CHECK_DEADLOCK FALSE
