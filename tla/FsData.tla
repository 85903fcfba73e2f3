------------------------------- MODULE FsData -------------------------------
(***************************************************************************)
(* What FS does to the sectors of the disk: reading, writing and seeking   *)
(* (fs/read_write.c, fs/open.c), truncation, the sector map with its       *)
(* allocation (alloc_smap_bit) and release (do_unlink), the layout mkfs    *)
(* makes, and the sectors at the end that the disk log takes               *)
(* (fs/disklog.c).                                                         *)
(*                                                                         *)
(* Sectors are numbered from the first data sector, n_1st_sect.  Of a byte *)
(* only one thing is kept: which file's data it is.                        *)
(***************************************************************************)
EXTENDS Integers, FiniteSets

CONSTANTS
    File,               \* regular files that processes create
    Desc,               \* open descriptors
    SECTOR_SIZE,        \* bytes of a sector
    BYTE,               \* bits of a byte of the sector map, 8
    NR_FILE_SECTS,      \* NR_DEFAULT_FILE_SECTS, and NR_SECTS_FOR_LOG
    INSTALL_START,      \* where cmd.tar is put
    INSTALL_NR_SECTS,
    n_1st_sect,         \* the absolute number of sector 0
    NrSects,            \* data sectors of the partition
    NrBits,             \* bits of the sector map
    FSBUF_SECTS,        \* FSBUF_SIZE in sectors
    MaxLen,             \* bound: bytes of one call, not more than fsbuf has
    MaxMoves            \* bound: LSEEK, READ and WRITE in one behaviour

CmdTar == "cmd.tar"
Root   == "/"
Log    == "log"
Junk   == "junk"        \* nobody's data, or data from before a truncation
Regular == File \cup {CmdTar}

Least(S) == CHOOSE x \in S : \A y \in S : x <= y
Less(a, b) == IF a < b THEN a ELSE b

LogStart == NrSects - NR_FILE_SECTS

ASSUME FsDataAssumption ==
    /\ \A c \in {SECTOR_SIZE, BYTE, NR_FILE_SECTS, INSTALL_NR_SECTS,
                 n_1st_sect, FSBUF_SECTS, MaxLen, MaxMoves} : c \in Nat \ {0}
    /\ {CmdTar, Root, Junk, Log, "none"} \cap File = {}
    /\ INSTALL_START \in Nat /\ INSTALL_START >= NR_FILE_SECTS
    /\ INSTALL_START + INSTALL_NR_SECTS < LogStart     \* asserted by mkfs
    /\ NrSects \in Nat /\ NrBits \in Nat
    /\ NrBits > NrSects + n_1st_sect /\ NrBits % BYTE = 0
    /\ MaxLen <= FSBUF_SECTS * SECTOR_SIZE

VARIABLES
    smap,      \* the bits of the sector map that are set
    inode,     \* per file: i_start_sect, i_nr_sects, i_size; none has 0 sectors
    desc,      \* per descriptor: the file or "none", and fd_pos
    data,      \* per byte of the data sectors: whose data it is
    logged,    \* the disk log has been started
    damaged,   \* history: the files with bytes that are not their own
    moves,     \* history: how many LSEEK, READ and WRITE there were
    halted     \* an assertion has stopped FS

vars == <<smap, inode, desc, data, logged, damaged, moves, halted>>

Sector == 0..(NrSects - 1)
Addr   == 0..(NrSects * SECTOR_SIZE - 1)
Bit    == 0..(NrBits - 1)

NoInode == [i_start_sect |-> 0, i_nr_sects |-> 0, i_size |-> 0]
NoDesc  == [fd_inode |-> "none", fd_pos |-> 0]

Exists(f) == inode[f].i_nr_sects > 0
Sectors(f) == {s \in Sector : /\ inode[f].i_start_sect <= s
                              /\ s < inode[f].i_start_sect + inode[f].i_nr_sects}
Byte0(f) == inode[f].i_start_sect * SECTOR_SIZE
Room(f)  == inode[f].i_nr_sects * SECTOR_SIZE
OpenOn(f) == {d \in Desc : desc[d].fd_inode = f}

\* "sect M <-> bit (M - sb.n_1stsect + 1)"; bit 0 is reserved.
BitOf(s) == s + 1

\* mkfs: the map holds bit 0, the root directory and cmd.tar.
Init ==
    /\ inode = [f \in Regular \cup {Root} |->
                  IF f = CmdTar
                  THEN [i_start_sect |-> INSTALL_START,
                        i_nr_sects |-> INSTALL_NR_SECTS,
                        i_size |-> INSTALL_NR_SECTS * SECTOR_SIZE]
                  ELSE IF f = Root
                  THEN [i_start_sect |-> 0, i_nr_sects |-> NR_FILE_SECTS,
                        i_size |-> SECTOR_SIZE]
                  ELSE NoInode]
    /\ smap = 0..NR_FILE_SECTS
              \cup {BitOf(INSTALL_START + i) : i \in 0..(INSTALL_NR_SECTS - 1)}
    /\ desc = [d \in Desc |-> NoDesc]
    /\ data = [a \in Addr |->
                 IF a \div SECTOR_SIZE < NR_FILE_SECTS THEN Root
                 ELSE IF a \div SECTOR_SIZE
                          \in INSTALL_START..(INSTALL_START + INSTALL_NR_SECTS - 1)
                 THEN CmdTar ELSE Junk]
    /\ logged = FALSE /\ damaged = {} /\ moves = 0 /\ halted = FALSE

Halt == halted' = TRUE /\ UNCHANGED <<smap, inode, desc, data, logged, damaged, moves>>

Connect(d, f) == desc' = [desc EXCEPT ![d] = [fd_inode |-> f, fd_pos |-> 0]]

\* Whose bytes in the sectors of f count no more.
Forget(f, start, n) ==
    [a \in Addr |-> IF a \div SECTOR_SIZE \in start..(start + n - 1)
                    THEN Junk ELSE data[a]]

-----------------------------------------------------------------------------
(* create_file: alloc_smap_bit and new_inode *)

FirstFree == Least(Bit \ smap)

\* From the first free bit on, the loop sets as many bits as it needs and
\* asserts of each that it was clear; in the end, that it has set them all.
Run == FirstFree..(FirstFree + NR_FILE_SECTS - 1)
RunFree == Bit \ smap # {} /\ Run \subseteq Bit \ smap

Create(d, f) ==
    /\ ~halted /\ ~Exists(f) /\ desc[d] = NoDesc
    /\ IF ~RunFree THEN Halt
       ELSE LET start == FirstFree - 1
            IN  /\ inode' = [inode EXCEPT ![f] =
                               [i_start_sect |-> start,
                                i_nr_sects |-> NR_FILE_SECTS, i_size |-> 0]]
                /\ data' = Forget(f, start, NR_FILE_SECTS)
                /\ smap' = smap \cup Run
                /\ Connect(d, f)
                /\ UNCHANGED <<logged, damaged, moves, halted>>

-----------------------------------------------------------------------------
(* do_open of a file that exists, do_close *)

Open(d, f) ==
    /\ ~halted /\ Exists(f) /\ desc[d] = NoDesc
    /\ Connect(d, f)
    /\ UNCHANGED <<smap, inode, data, logged, damaged, moves, halted>>

\* O_TRUNC sets the size to 0 whoever has the file open, at whatever position.
OpenTrunc(d, f) ==
    /\ ~halted /\ Exists(f) /\ desc[d] = NoDesc
    /\ Connect(d, f)
    /\ inode' = [inode EXCEPT ![f].i_size = 0]
    /\ data' = Forget(f, inode[f].i_start_sect, inode[f].i_nr_sects)
    /\ damaged' = IF \E e \in OpenOn(f) : desc[e].fd_pos > 0
                  THEN damaged \cup {f} ELSE damaged \ {f}
    /\ UNCHANGED <<smap, logged, moves, halted>>

Close(d) ==
    /\ ~halted /\ desc[d] # NoDesc
    /\ desc' = [desc EXCEPT ![d] = NoDesc]
    /\ UNCHANGED <<smap, inode, data, logged, damaged, moves, halted>>

-----------------------------------------------------------------------------
(* do_lseek: SEEK_SET, SEEK_CUR and SEEK_END reach any position there is *)

Move == moves < MaxMoves /\ moves' = moves + 1

Lseek(d, pos) ==
    /\ ~halted /\ desc[d] # NoDesc /\ Move
    /\ pos \in 0..inode[desc[d].fd_inode].i_size
    /\ desc' = [desc EXCEPT ![d].fd_pos = pos]
    /\ UNCHANGED <<smap, inode, data, logged, damaged, halted>>

-----------------------------------------------------------------------------
(* do_rdwt *)

\* Seeded fault: the loop goes on while there are bytes left.
MovedAll(pos, pos_end, bytes_left) == bytes_left

\* The bytes the loop over the sectors moves, from pos, when it is to touch
\* the sectors up to the one of pos_end and has bytes_left bytes to go.  The
\* last of its chunks may reach beyond that sector.
Moved(pos, pos_end, bytes_left) ==
    LET sects == (pos_end \div SECTOR_SIZE) - (pos \div SECTOR_SIZE) + 1
        chunk == Less(sects, FSBUF_SECTS)
        turns == (sects + chunk - 1) \div chunk
    IN  IF sects <= 0 THEN 0
        ELSE Less(bytes_left, (turns * chunk * SECTOR_SIZE) - (pos % SECTOR_SIZE))

\* Seeded fault: a READ is not cut at the end of the file.
ReadLeftUncut(pos, size, len) == len

\* i_size is unsigned: behind the end, i_size - pos is huge.
ReadLeft(pos, size, len) == IF pos > size THEN len ELSE Less(len, size - pos)

\* The position moves, and the size follows it, in a READ as in a WRITE.
Advance(d, f, n) ==
    LET pos == desc[d].fd_pos + n
    IN  /\ desc' = [desc EXCEPT ![d].fd_pos = pos]
        /\ inode' = [inode EXCEPT ![f].i_size = IF pos > @ THEN pos ELSE @]

Read(d, len) ==
    LET f   == desc[d].fd_inode
        pos == desc[d].fd_pos
    IN  /\ ~halted /\ desc[d] # NoDesc /\ Move
        /\ Advance(d, f, Moved(pos, Less(pos + len, inode[f].i_size),
                               ReadLeft(pos, inode[f].i_size, len)))
        /\ UNCHANGED <<smap, data, logged, damaged, halted>>

\* The file that begins where f ends.
Behind(f) == {g \in Regular : /\ g # f /\ Exists(g)
                              /\ inode[g].i_start_sect
                                   = inode[f].i_start_sect + inode[f].i_nr_sects}

Write(d, len) ==
    LET f   == desc[d].fd_inode
        pos == desc[d].fd_pos
        n   == Moved(pos, Less(pos + len, Room(f)), len)
    IN  /\ ~halted /\ desc[d] # NoDesc /\ Move
        /\ Advance(d, f, n)
        /\ data' = [a \in Addr |->
                      IF a \in (Byte0(f) + pos)..(Byte0(f) + pos + n - 1)
                      THEN f ELSE data[a]]
        /\ damaged' = damaged \cup (IF pos + n > Room(f) THEN Behind(f) ELSE {})
        /\ UNCHANGED <<smap, logged, halted>>

-----------------------------------------------------------------------------
(* do_unlink, and the disk log that is written after it *)

\* Seeded fault: the last byte of the map is not cleared.
ReleasedBytes(bit, n) ==
    LET upto == ((bit \div BYTE) + 1) * BYTE
    IN  bit..(upto - 1 + ((n - (BYTE - (bit % BYTE))) \div BYTE) * BYTE)

\* The bits cleared in the first byte, in whole bytes, and in the last one.
Released(bit, n) ==
    LET upto  == ((bit \div BYTE) + 1) * BYTE
        first == bit..(Less(bit + n, upto) - 1)
        bytes == (n - (BYTE - (bit % BYTE))) \div BYTE
        whole == upto..(upto + bytes * BYTE - 1)
        left  == n - Cardinality(first) - Cardinality(whole)
        rest  == upto + Cardinality(whole)
    IN  first \cup whole \cup rest..(rest + left - 1)

\* disklog takes the absolute number of the first log sector for the number
\* of its bit.
LogBits == {LogStart + n_1st_sect + i : i \in 0..(NR_FILE_SECTS - 1)}

\* dump_fd_graph after every UNLINK: the first time its bits are set in the
\* map, asserting that they were clear, and its sectors are blanked.
DiskLog(map, bytes) ==
    IF ~logged /\ LogBits \cap map # {}
    THEN halted' = TRUE /\ smap' = map /\ data' = bytes /\ logged' = logged
    ELSE /\ smap' = IF logged THEN map ELSE map \cup LogBits
         /\ data' = [a \in Addr |-> IF a \div SECTOR_SIZE >= LogStart
                                    THEN Log ELSE bytes[a]]
         /\ logged' = TRUE /\ halted' = halted

UnlinkDone(f) ==
    LET start == inode[f].i_start_sect
        n     == inode[f].i_nr_sects
        bits  == Released(BitOf(start), n)
    IN  /\ ~halted /\ Exists(f) /\ OpenOn(f) = {}
        /\ IF ~(bits \subseteq smap) THEN Halt
           ELSE /\ DiskLog(smap \ bits, Forget(f, start, n))
                /\ inode' = [inode EXCEPT ![f] = NoInode]
                /\ damaged' = damaged \ {f}
                /\ UNCHANGED <<desc, moves>>

\* No such file, or it is open.
UnlinkFails(f) ==
    /\ ~halted /\ (~Exists(f) \/ OpenOn(f) # {})
    /\ DiskLog(smap, data)
    /\ UNCHANGED <<inode, desc, damaged, moves>>

Unlink(f) == UnlinkDone(f) \/ UnlinkFails(f)

-----------------------------------------------------------------------------
Next ==
    \/ \E d \in Desc, f \in File : Create(d, f)
    \/ \E d \in Desc, f \in Regular : Open(d, f)
    \/ \E d \in Desc, f \in File : OpenTrunc(d, f)
    \/ \E d \in Desc : Close(d)
    \/ \E d \in Desc, pos \in 0..(NrSects * SECTOR_SIZE) : Lseek(d, pos)
    \/ \E d \in Desc, len \in 1..MaxLen : Read(d, len)
    \/ \E d \in {e \in Desc : desc[e].fd_inode \in File}, len \in 1..MaxLen :
          Write(d, len)                        \* nothing writes cmd.tar
    \/ \E f \in Regular : Unlink(f)

Spec == Init /\ [][Next]_vars
-----------------------------------------------------------------------------
(* The sector map is exact through every order of creation and removal: a  *)
(* bit is set for each sector of each file, of the root directory and for  *)
(* what disklog has set, for nothing else, and no two files share a        *)
(* sector.  alloc_smap_bit sets and do_unlink clears whole bytes at a time. *)
SmapExact ==
    halted \/
    /\ smap = {0} \cup (IF logged THEN LogBits ELSE {})
                  \cup {BitOf(s) : s \in UNION {Sectors(f) : f \in Regular \cup {Root}}}
    /\ \A f, g \in Regular \cup {Root} : f # g => Sectors(f) \cap Sectors(g) = {}
    /\ \A f \in Regular : \A s \in Sectors(f) : s < LogStart

(* What a READ of a file returns was written to that file: up to i_size    *)
(* each byte in its sectors is its own, except in a file that was cut      *)
(* under a reader, or whose neighbour in front wrote beyond its end.  Any  *)
(* slip in the positions, sectors and chunks of do_rdwt leaves a hole.     *)
DataIntact ==
    \A f \in Regular \ damaged :
        \A b \in 0..(Less(inode[f].i_size, Room(f)) - 1) : data[Byte0(f) + b] = f

(* However long a WRITE is and wherever it starts, it stays in the sectors *)
(* of its file and the one behind them, and the size does too.             *)
OverrunOneSector ==
    [][/\ \A f \in Regular : inode'[f].i_size <= Room(f)' + SECTOR_SIZE
       /\ \A a \in Addr, f \in Regular :
             data[a] # f /\ data'[a] = f =>
                 a \in Byte0(f)..(Byte0(f) + Room(f) + SECTOR_SIZE - 1)]_vars

-----------------------------------------------------------------------------
(* The inductive invariants of the proofs in FsDataProof.                  *)

\* The files that processes create fit before the log; if they do not,
\* create_file goes on into sectors of the log, whose bits are clear.
FilesFit ==
    /\ IsFiniteSet(File)
    /\ (Cardinality(File) + 1) * NR_FILE_SECTS + INSTALL_NR_SECTS <= LogStart

FsDataTypeOK ==
    /\ inode \in [Regular \cup {Root} ->
                     [i_start_sect : Nat, i_nr_sects : Nat, i_size : Nat]]
    /\ desc \in [Desc -> [fd_inode : Regular \cup {"none"}, fd_pos : Nat]]
    /\ smap \subseteq Nat /\ 0 \in smap
    /\ data \in [Addr -> Regular \cup {Root, Log, Junk}]
    /\ logged \in BOOLEAN /\ halted \in BOOLEAN

\* How large a file is does not change; positions and sizes stay near it.
ShapeOK ==
    /\ \A f \in File : inode[f] = NoInode \/ inode[f].i_nr_sects = NR_FILE_SECTS
    /\ inode[CmdTar] = NoInode \/ /\ inode[CmdTar].i_start_sect = INSTALL_START
                                  /\ inode[CmdTar].i_nr_sects = INSTALL_NR_SECTS
    /\ inode[Root].i_start_sect = 0 /\ inode[Root].i_nr_sects = NR_FILE_SECTS
    /\ \A f \in Regular : inode[f].i_size <= Room(f) + SECTOR_SIZE
    /\ \A d \in Desc : LET f == desc[d].fd_inode IN
          IF f = "none" THEN desc[d] = NoDesc
          ELSE Exists(f) /\ desc[d].fd_pos <= Room(f) + SECTOR_SIZE

\* The sectors of f end before this one.
End(f) == inode[f].i_start_sect + inode[f].i_nr_sects

\* Files lie apart, before the log, and their bits are set.
PlacesOK ==
    /\ \A f, g \in Regular \cup {Root} :
          f # g /\ Exists(f) /\ Exists(g) =>
             End(f) <= inode[g].i_start_sect \/ End(g) <= inode[f].i_start_sect
    /\ \A f \in Regular : Exists(f) => End(f) <= LogStart
    /\ \A b \in Nat : b \in smap <=>
          \/ b = 0
          \/ logged /\ b \in LogBits
          \/ \E f \in Regular \cup {Root} :
                Exists(f) /\ inode[f].i_start_sect < b /\ b <= End(f)

\* No descriptor stands behind the end of a file, so a WRITE leaves no hole.
NoHoles ==
    \A d \in Desc : LET f == desc[d].fd_inode IN
       f # "none" /\ f \notin damaged => desc[d].fd_pos <= inode[f].i_size

FsDataInv ==
    /\ FsDataTypeOK /\ ShapeOK
    /\ FilesFit => (halted \/ PlacesOK) /\ NoHoles /\ DataIntact
=============================================================================
