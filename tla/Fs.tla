--------------------------------- MODULE Fs ---------------------------------
(***************************************************************************)
(* The file system task: descriptors (filp, f_desc_table), the inode cache *)
(* (inode_table), the inode map and the root directory, through open,      *)
(* close, unlink and stat (fs/open.c, fs/link.c, fs/misc.c) and the two    *)
(* messages of MM, FORK and EXIT (fs/main.c).                              *)
(*                                                                         *)
(* FS serves one message at a time, so a call is one step; a fork is two,  *)
(* because MM copies the parent's filp[] before it tells FS.  What is in a *)
(* file, its size and the descriptor's position are left out.              *)
(***************************************************************************)
EXTENDS Naturals, FiniteSets

CONSTANTS
    Proc,       \* the processes
    InitProc,   \* INIT, the one that was there first and never exits
    Fd,         \* the indices of filp[], NR_FILES of them
    Desc,       \* those of f_desc_table[], NR_FILE_DESC
    Slot,       \* those of inode_table[], NR_INODE
    Inode,      \* the inode numbers that the map has bits for
    Name,       \* names of regular files, shorter than MAX_FILENAME_LEN
    EntriesPerSector,
    MaxEntries, \* bound: entries on the disk for the directory
    MaxCount    \* bound: a leaked i_cnt is not raised any further

First(S) == CHOOSE x \in S : \A y \in S : x <= y

ROOT_INODE == 1
Special == [nr \in {ROOT_INODE, 2} |-> IF nr = 2 THEN "dev_tty0" ELSE "."]

ASSUME FsAssumption ==
    /\ \A S \in {Fd, Desc, Slot, Inode} :
          S \subseteq Nat \ {0} /\ IsFiniteSet(S) /\ S # {}
    /\ InitProc \in Proc /\ 0 \notin Proc /\ IsFiniteSet(Proc)
    /\ DOMAIN Special \subseteq Inode
    /\ \A nr \in DOMAIN Special : Special[nr] \notin Name
    /\ "" \notin Name
    /\ EntriesPerSector \in Nat \ {0} /\ MaxCount \in Nat
    /\ MaxEntries \in Nat /\ MaxEntries >= Cardinality(DOMAIN Special)

VARIABLES
    alive,          \* the processes there are
    forking,        \* the parent of the fork under way, or 0, and the child
    child,          \* that MM has copied and FS does not know of yet, or 0
    filp,           \* per process and Fd: a descriptor, or 0
    f_desc_table,   \* per descriptor: fd_inode, a slot or 0, and fd_cnt
    inode_table,    \* per slot: i_num and i_cnt; a free slot has 0 in both
    imap,           \* the inode numbers whose bit is set
    dir,            \* the directory on the disk: inode_nr and name
    dir_size,       \* its i_size, in entries
    halted          \* a panic or an assertion has stopped FS

table == <<f_desc_table, inode_table>>
disk  == <<imap, dir, dir_size>>
procs == <<alive, forking, child>>
vars  == <<procs, filp, table, disk, halted>>

Entry == 1..MaxEntries
Blank == [inode_nr |-> 0, name |-> ""]

\* init_fs and mkfs.  cmd.tar is a regular file, here not yet there.
Init ==
    /\ alive = {InitProc} /\ forking = 0 /\ child = 0
    /\ filp = [p \in Proc |-> [fd \in Fd |-> 0]]
    /\ f_desc_table = [d \in Desc |-> [fd_inode |-> 0, fd_cnt |-> 0]]
    /\ inode_table = [s \in Slot |-> IF s = First(Slot)
                                     THEN [i_num |-> ROOT_INODE, i_cnt |-> 1]
                                     ELSE [i_num |-> 0, i_cnt |-> 0]]
    /\ imap = DOMAIN Special
    /\ dir = [i \in Entry |-> IF i \in DOMAIN Special
                              THEN [inode_nr |-> i, name |-> Special[i]]
                              ELSE Blank]
    /\ dir_size = Cardinality(DOMAIN Special)
    /\ halted = FALSE

Halt == halted' = TRUE /\ UNCHANGED <<procs, filp, table, disk>>

-----------------------------------------------------------------------------
(* get_inode, put_inode *)

Cached(nr) == {s \in Slot : inode_table[s].i_cnt > 0 /\ inode_table[s].i_num = nr}
FreeSlots == {s \in Slot : inode_table[s].i_cnt = 0}

\* "the inode table is full"
NoSlot(nr) == Cached(nr) = {} /\ FreeSlots = {}

GetSlot(nr) == IF Cached(nr) # {} THEN First(Cached(nr)) ELSE First(FreeSlots)

Count(nr) == inode_table[GetSlot(nr)].i_cnt

GetInode(nr, cnt) ==
    [inode_table EXCEPT ![GetSlot(nr)] = [i_num |-> nr, i_cnt |-> cnt]]

\* inode_table with n[s] references more or less on each slot s.
Put(n) ==
    [s \in Slot |->
        LET left == inode_table[s].i_cnt - n[s]
        IN  [i_cnt |-> left, i_num |-> IF left = 0 THEN 0 ELSE inode_table[s].i_num]]

\* i_mode: the inode array on the disk and the cache agree with the map.
IsRegular(nr) == nr \in imap \ DOMAIN Special

-----------------------------------------------------------------------------
(* The directory *)

InUse(size) == {i \in 1..size : dir[i].inode_nr # 0}

\* search_file compares a name before it counts the entry, so it looks at one
\* entry more than there are, if the last sector has one.
Searched ==
    LET sectors == (dir_size + EntriesPerSector - 1) \div EntriesPerSector
    IN  {i \in Entry : i <= dir_size + 1 /\ i <= sectors * EntriesPerSector}

Lookup(name) ==
    LET hits == {i \in Searched : dir[i].name = name}
    IN  IF hits = {} THEN 0 ELSE dir[First(hits)].inode_nr

\* new_dir_entry: the first hole, or else the entry after the last.
NewEntry ==
    LET holes == (1..dir_size) \ InUse(dir_size)
    IN  IF holes = {} THEN dir_size + 1 ELSE First(holes)

NewDirEntry(nr, name) ==
    /\ NewEntry \in Entry
    /\ dir' = [dir EXCEPT ![NewEntry] = [inode_nr |-> nr, name |-> name]]
    /\ dir_size' = IF NewEntry > dir_size THEN NewEntry ELSE dir_size

\* The end of do_unlink.  The holes before the last entry are not counted in
\* the new size.
ClearEntry(i) ==
    /\ dir' = [dir EXCEPT ![i] = Blank]
    /\ dir_size' = IF i = dir_size THEN Cardinality(InUse(i - 1)) ELSE dir_size

-----------------------------------------------------------------------------
(* do_open *)

Caller(p) == ~halted /\ p \in alive \ {forking, child}

FreeFd(p) == {fd \in Fd : filp[p][fd] = 0}
FreeDesc == {d \in Desc : f_desc_table[d].fd_inode = 0}

\* "filp[] is full", "f_desc_table[] is full"
OpenPanic(p) ==
    /\ Caller(p)
    /\ FreeFd(p) = {} \/ FreeDesc = {}
    /\ Halt

Connect(p, nr) ==
    /\ filp' = [filp EXCEPT ![p][First(FreeFd(p))] = First(FreeDesc)]
    /\ f_desc_table' = [f_desc_table EXCEPT
          ![First(FreeDesc)] = [fd_inode |-> GetSlot(nr), fd_cnt |-> 1]]

\* The flags are the caller's: an open of a file that exists succeeds with
\* O_RDWR, if O_CREAT comes with O_TRUNC; of one that does not, with O_CREAT.
\* Others are refused and change nothing.
OpenExisting(p, name) ==
    /\ Caller(p) /\ FreeFd(p) # {} /\ FreeDesc # {}
    /\ LET nr == Lookup(name)
       IN  /\ nr # 0
           /\ IF NoSlot(nr) THEN Halt
              ELSE /\ Connect(p, nr)
                   /\ inode_table' = GetInode(nr, Count(nr) + 1)
                   /\ UNCHANGED <<procs, disk, halted>>

\* create_file and the rest of do_open.  The bit is written before a panic of
\* get_inode.  A full map is beyond the model, and the sectors of a file come
\* and go with its inode number.
OpenCreate(p, name) ==
    /\ Caller(p) /\ FreeFd(p) # {} /\ FreeDesc # {}
    /\ Lookup(name) = 0
    /\ Inode \ imap # {}
    /\ LET nr == First(Inode \ imap)
       IN  /\ imap' = imap \cup {nr}
           /\ IF NoSlot(nr)
              THEN halted' = TRUE /\ UNCHANGED <<filp, table, dir, dir_size>>
              ELSE /\ inode_table' = GetInode(nr, 1)
                   /\ NewDirEntry(nr, name)
                   /\ Connect(p, nr)
                   /\ UNCHANGED halted
    /\ UNCHANGED procs

-----------------------------------------------------------------------------
(* do_close, do_stat, do_unlink *)

Refs(S, s) == Cardinality({fd \in S : f_desc_table[filp[fd[1]][fd[2]]].fd_inode = s})
Uses(S, d) == Cardinality({fd \in S : filp[fd[1]][fd[2]] = d})

\* The descriptors that some entries of the filp[] of a process refer to.
Opened(P) == {fd \in P \X Fd : filp[fd[1]][fd[2]] # 0}

ReleaseDesc(S) ==
    [d \in Desc |->
        LET left == f_desc_table[d].fd_cnt - Uses(S, d)
        IN  [fd_cnt |-> left,
             fd_inode |-> IF left = 0 THEN 0 ELSE f_desc_table[d].fd_inode]]

\* Gives back the references of the entries S of filp[].
Release(S) ==
    /\ inode_table' = Put([s \in Slot |-> Refs(S, s)])
    /\ f_desc_table' = ReleaseDesc(S)
    /\ filp' = [p \in Proc |-> [fd \in Fd |->
                   IF <<p, fd>> \in S THEN 0 ELSE filp[p][fd]]]

Close(p, fd) ==
    /\ Caller(p)
    /\ filp[p][fd] # 0
    /\ Release({<<p, fd>>})
    /\ UNCHANGED <<procs, disk, halted>>

\* do_stat gives the inode back at once; it matters only if there is no slot.
Stat(p, name) ==
    /\ Caller(p)
    /\ Lookup(name) # 0 /\ NoSlot(Lookup(name))
    /\ Halt

\* Seeded fault: i_cnt is not looked at.
RemovableOpen(nr) == IsRegular(nr)

Removable(nr) == IsRegular(nr) /\ Count(nr) = 0

\* do_unlink refuses a special file and one that is open, but keeps the inode.
UnlinkRefused(nr) ==
    /\ ~Removable(nr)
    /\ Count(nr) < MaxCount
    /\ inode_table' = GetInode(nr, Count(nr) + 1)
    /\ UNCHANGED <<procs, filp, f_desc_table, disk, halted>>

\* Otherwise do_unlink has the only reference.  assert(flg) fails if the
\* entry is the one that only search_file looks at.
UnlinkDone(nr) ==
    /\ Removable(nr)
    /\ imap' = imap \ {nr}
    /\ LET hits == {i \in 1..dir_size : dir[i].inode_nr = nr}
       IN  IF hits = {} THEN halted' = TRUE /\ UNCHANGED <<dir, dir_size>>
           ELSE ClearEntry(First(hits)) /\ UNCHANGED halted
    /\ UNCHANGED <<procs, filp, table>>

Unlink(p, name) ==
    /\ Caller(p)
    /\ LET nr == Lookup(name)
       IN  /\ nr # 0
           /\ IF NoSlot(nr) THEN Halt ELSE UnlinkRefused(nr) \/ UnlinkDone(nr)

-----------------------------------------------------------------------------
(* fork and exit, of which MM tells FS *)

\* *p = proc_table[pid] in do_fork; the parent waits for MM's answer.
Duplicate(parent, new) ==
    /\ Caller(parent) /\ forking = 0
    /\ new \notin alive
    /\ alive' = alive \cup {new}
    /\ forking' = parent /\ child' = new
    /\ filp' = [filp EXCEPT ![new] = filp[parent]]
    /\ UNCHANGED <<table, disk, halted>>

\* Seeded faults: the descriptors, or the inodes, are not counted.
KeepDescs(S)  == f_desc_table
KeepInodes(S) == inode_table

RaiseDescs(S) ==
    [d \in Desc |-> [f_desc_table[d] EXCEPT !.fd_cnt = @ + Uses(S, d)]]
RaiseInodes(S) ==
    [s \in Slot |-> [inode_table[s] EXCEPT !.i_cnt = @ + Refs(S, s)]]

\* fs_fork, for the child that MM names.
FsFork ==
    /\ ~halted /\ forking # 0
    /\ f_desc_table' = RaiseDescs(Opened({child}))
    /\ inode_table' = RaiseInodes(Opened({child}))
    /\ forking' = 0 /\ child' = 0
    /\ UNCHANGED <<alive, filp, disk, halted>>

\* fs_exit; MM then frees the slot.  MM is not in the middle of a fork.
FsExit(p) ==
    /\ Caller(p) /\ p # InitProc /\ forking = 0
    /\ Release(Opened({p}))
    /\ alive' = alive \ {p}
    /\ UNCHANGED <<forking, child, disk, halted>>

-----------------------------------------------------------------------------
\* Nobody opens the directory as a file.
Path == Name \cup {"dev_tty0"}

Open(p, name) == OpenExisting(p, name) \/ OpenCreate(p, name)

Next ==
    \/ \E p \in Proc : OpenPanic(p) \/ FsExit(p)
    \/ \E p \in Proc, name \in Path : Open(p, name) \/ Stat(p, name) \/ Unlink(p, name)
    \/ \E p \in Proc, fd \in Fd : Close(p, fd)
    \/ \E parent, new \in Proc : Duplicate(parent, new)
    \/ FsFork

Spec == Init /\ [][Next]_vars

-----------------------------------------------------------------------------
\* The entries of filp[] that FS knows of.
Known == Opened(alive \ {child})

\* fd_cnt is "How many procs share this desc" (include/sys/fs.h): the number of
\* entries of filp[] that refer to the descriptor, which is free just at 0.
FdCounts ==
    \A d \in Desc : /\ f_desc_table[d].fd_cnt = Uses(Known, d)
                    /\ f_desc_table[d].fd_inode = 0 <=> f_desc_table[d].fd_cnt = 0

\* No slot of the inode table is given to another inode while somebody refers to
\* it: its count covers all references, and root_inode.
InodesHeld ==
    \A s \in Slot :
        inode_table[s].i_cnt >= Refs(Known, s) + (IF s = First(Slot) THEN 1 ELSE 0)

\* Two opens of a file share its inode, so both see one i_cnt.
OneSlotPerInode ==
    \A s, t \in Slot :
        inode_table[s].i_num = inode_table[t].i_num => s = t \/ inode_table[s].i_num = 0

(* The reference counts cover every reference, and there is one count for  *)
(* each file, across forks, exits, opens and closes in every order, a fork *)
(* that MM has made and FS not yet counted included.                       *)
CountsExact == FdCounts /\ InodesHeld /\ OneSlotPerInode

\* A file that somebody has open is there: not removed, and its number not given
\* to a new file.
OpenFilesExist ==
    \A fd \in Opened(alive) :
        LET s == f_desc_table[filp[fd[1]][fd[2]]].fd_inode
        IN  s # 0 /\ inode_table[s].i_num \in imap

\* Every directory entry names an inode that is allocated, and no two the same
\* one, the entries that have fallen out of the directory included.
EntriesAllocated ==
    ~halted => \A i \in InUse(MaxEntries) :
        /\ dir[i].inode_nr \in imap
        /\ \A j \in InUse(MaxEntries) : dir[i].inode_nr = dir[j].inode_nr => i = j

(* The inode map tells what is in use: by a directory entry, whatever was  *)
(* removed and created in its place, or by an open file, even of a child   *)
(* that FS has not heard of.                                               *)
InodesAllocated == OpenFilesExist /\ EntriesAllocated

File(p, fd) == inode_table[f_desc_table[filp[p][fd]].fd_inode].i_num

\* Whoever has a file open has the same file open after the step.
FilesKept ==
    \A p \in alive, fd \in Fd :
        filp[p][fd] # 0 /\ filp'[p][fd] # 0 => File(p, fd)' = File(p, fd)

(* A descriptor refers to the same file from its open to its close,        *)
(* whatever the other processes open, close and remove in between.         *)
SameFile == [][FilesKept]_vars

-----------------------------------------------------------------------------
(* The inductive invariant of FsProof: besides the types and what is above, *)
(* a child shares the entries of the parent that is still in fork, and a    *)
(* slot in use holds an inode that is allocated.                            *)
FsTypeOK ==
    /\ alive \subseteq Proc
    /\ filp \in [Proc -> [Fd -> Desc \cup {0}]]
    /\ f_desc_table \in [Desc -> [fd_inode : Slot \cup {0}, fd_cnt : Nat]]
    /\ inode_table \in [Slot -> [i_num : Inode \cup {0}, i_cnt : Nat]]
    /\ imap \subseteq Inode
    /\ dir \in [Entry -> [inode_nr : Inode \cup {0}, name : Path \cup {".", ""}]]
    /\ dir_size \in 0..MaxEntries
    /\ halted \in BOOLEAN

ForkInv ==
    \/ forking = 0 /\ child = 0
    \/ /\ forking \in alive /\ child \in alive /\ forking # child
       /\ filp[child] = filp[forking]

SlotInv ==
    \A s \in Slot : /\ inode_table[s].i_num = 0 <=> inode_table[s].i_cnt = 0
                    /\ inode_table[s].i_cnt > 0 => inode_table[s].i_num \in imap

FsInv == FsTypeOK /\ ForkInv /\ SlotInv /\ CountsExact /\ EntriesAllocated
=============================================================================
