\* INIT and two children, who share two descriptors; three files, as many
\* inode numbers for them, and cache slots for two of them and the root.
CONSTANTS
    Proc = {InitProc, a, b}
    InitProc = InitProc
    Fd = {1, 2}
    Desc = {1, 2}
    Slot = {1, 2, 3}
    Inode = {1, 2, 3, 4, 5}
    Name = {f, g, h}
    EntriesPerSector = 2
    MaxEntries = 5
    MaxCount = 2
SPECIFICATION Spec
SYMMETRY Symmetry
INVARIANTS CountsExact InodesAllocated
PROPERTY SameFile
\* A panic stops FS.
CHECK_DEADLOCK FALSE
