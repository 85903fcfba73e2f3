CONSTANTS
    HD = HD
    SYS = SYS
    FS = FS
    User = {u1, u2}
    u1 = u1
    u2 = u2
    Proc = {HD, SYS, FS, u1, u2}
    COUNT_VALUES = 2
    MaxSectors = 3
    MaxTables = 2
    HZ = 100
    MAX_TICKS = 2147462093
    HD_TIMEOUT = 10000
    Uptime = {0, 2147461093}
    Delay = 500
    MaxDelays = 2
    IntTask = {HD}
    Body = {0}
    HARD_INT = HARD_INT
    ANY = ANY
    INTERRUPT = INTERRUPT
    NO_TASK = NO_TASK
SPECIFICATION Spec
INVARIANTS  CommandsComplete TimeoutExact
CONSTRAINT NotHarmed
SYMMETRY MCSymmetry
\* A panic stops the kernel.
CHECK_DEADLOCK FALSE
