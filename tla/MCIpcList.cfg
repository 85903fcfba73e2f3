CONSTANTS
    Proc = {tty, fs, mm, usr}
    IntTask = {tty}
    Body = {m1}
    HARD_INT = HARD_INT
    ANY = ANY
    INTERRUPT = INTERRUPT
    NO_TASK = NO_TASK
    NULL = NULL
SPECIFICATION ListSpec
SYMMETRY MCSymmetry
INVARIANTS  NoMissedRendezvous NoSendCycle NoAssertFailure ProperLists InOrder
PROPERTIES DeliveryExact PanicOnlyOnCycle ImplementsRendezvous
\* The clients may all wait for one another, and a panic stops the kernel.
CHECK_DEADLOCK FALSE
