CONSTANTS
    KB_IN_BYTES = 3
    Keys = {"a", "shift", "caps", "up"}
    MaxEvents = 3
SPECIFICATION KeySpec
INVARIANTS RingExact KeysExact
PROPERTY KeysNoticed
\* The user may stop typing, and TTY may wait for bytes that were dropped.
CHECK_DEADLOCK FALSE
