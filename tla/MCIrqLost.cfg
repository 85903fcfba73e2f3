\* The terminal task: the keyboard interrupts at any time.
CONSTANTS
    Client = {fs, usr}
    Device = {"keyboard"}
    ANY = ANY
    INTERRUPT = INTERRUPT
    NO_TASK = NO_TASK
SPECIFICATION IrqSpec
INVARIANT DeliveredIntact
CHECK_DEADLOCK FALSE
