\* The root directory, room for two files and one sector that is left over,
\* cmd.tar, room for one more file, and the log; 2 bytes to a sector, 2 bits to
\* a byte of the map.  Three files do not fit before cmd.tar: the third stops
\* FS unless another has gone.
CONSTANTS
    File = {f, g, h}
    Desc = {d, e}
    SECTOR_SIZE = 2
    BYTE = 2
    NR_FILE_SECTS = 2
    INSTALL_START = 7
    INSTALL_NR_SECTS = 1
    n_1st_sect = 2
    NrSects = 13
    NrBits = 16
    FSBUF_SECTS = 2
    MaxLen = 4
    MaxMoves = 3
SPECIFICATION Spec
SYMMETRY MCSymmetry
INVARIANTS  DataIntact
PROPERTY OverrunOneSector
\* A failed assertion stops FS.
CHECK_DEADLOCK FALSE
