\* FS, MM, INIT, TestA and one slot for fork; two ticks for a task, one
\* for the others.
CONSTANTS
    Proc = {3, 4, 5, 6, 9}
    Task = {3, 4}
    Idle = {6}
    Slot = {9}
    FS = 3
    MM = 4
    Exempt = {3}
    TASK_PRIO = 2
    USER_PRIO = 1
    Garbage = {0, 1}
SPECIFICATION Spec
INVARIANTS RunningReady ScanEnds PrioritiesRestored
PROPERTY NoStarvation
\* A scan with interrupts disabled that finds nobody stops the system.
CHECK_DEADLOCK FALSE
