\* Three clients of one driver task, the disk's and the keyboard's in turn.
CONSTANTS
    Client = {fs, mm, usr}
    Device = {"disk", "keyboard"}
    ANY = ANY
    INTERRUPT = INTERRUPT
    NO_TASK = NO_TASK
SPECIFICATION IrqSpec
INVARIANTS DiskDeliveredIntact EntryConsistent
PROPERTY EveryRequestHandled
\* A failed assertion stops the kernel.
CHECK_DEADLOCK FALSE
