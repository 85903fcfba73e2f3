------------------------------ MODULE FsProof ------------------------------
(***************************************************************************)
(* The counts, the inode map and the open files of Fs, for any number of   *)
(* processes, descriptors, cache slots, inodes and directory entries.      *)
(***************************************************************************)
EXTENDS Fs, FiniteSetTheorems, WellFoundedInduction, TLAPS

-----------------------------------------------------------------------------
(* Sets of numbers and counting *)

\* The least of the free indices is one of them.
LEMMA FirstIs ==
    ASSUME NEW S, S \subseteq Nat, S # {}
    PROVE  First(S) \in S /\ \A y \in S : First(S) <= y
<1> DEFINE R == StrictSubsetOrdering(Nat)
           T == {0..n : n \in S}
<1>1. T # {} /\ T \subseteq FiniteSubsetsOf(Nat)
    <2>1. ASSUME NEW n \in S PROVE 0..n \in FiniteSubsetsOf(Nat)
        <3>1. IsFiniteSet(0..n)
            BY FS_Interval, 0 \in Int, n \in Int
        <3> QED  BY <3>1 DEF FiniteSubsetsOf
    <2> QED  BY <2>1
<1>2. PICK X \in T : \A Y \in T : <<Y, X>> \notin R
    BY <1>1, WFMin, FS_StrictSubsetOrderingWellFounded
<1>3. PICK x \in S : X = 0..x
    BY <1>2
<1>4. ASSUME NEW y \in S PROVE x <= y
    <2>1. SUFFICES ASSUME y < x PROVE FALSE
        BY <1>3
    <2>2. 0..y \subseteq 0..x /\ 0..y # 0..x
        BY <2>1
    <2>3. <<0..y, 0..x>> \in R
        BY <2>2 DEF StrictSubsetOrdering
    <2> QED  BY <2>3, <1>3, <1>2
<1> QED  BY <1>4 DEF First

\* Counts of disjoint sets add up; one of an empty set is 0.
LEMMA CountAdd ==
    ASSUME NEW A, NEW B, IsFiniteSet(A), IsFiniteSet(B), A \cap B = {}
    PROVE  /\ Cardinality(A) \in Nat /\ Cardinality(B) \in Nat
           /\ Cardinality(A \cup B) = Cardinality(A) + Cardinality(B)
           /\ Cardinality(A) = 0 <=> A = {}
<1>1. Cardinality(A \cup B) = Cardinality(A) + Cardinality(B) - Cardinality({})
    BY FS_Union
<1>2. Cardinality(A) \in Nat /\ Cardinality(B) \in Nat /\ Cardinality({}) = 0
    BY FS_EmptySet, FS_CardinalityType
<1>3. Cardinality(A) = 0 <=> A = {}
    BY FS_EmptySet
<1> QED  BY <1>1, <1>2, <1>3

LEMMA UsesAdd ==
    ASSUME NEW S, NEW T, IsFiniteSet(S), IsFiniteSet(T), S \cap T = {}, NEW d
    PROVE  /\ Uses(S, d) \in Nat /\ Uses(T, d) \in Nat
           /\ Uses(S \cup T, d) = Uses(S, d) + Uses(T, d)
           /\ Uses(S, d) = 0 <=> \A fd \in S : filp[fd[1]][fd[2]] # d
<1> DEFINE U(X) == {fd \in X : filp[fd[1]][fd[2]] = d}
<1>1. IsFiniteSet(U(S)) /\ IsFiniteSet(U(T))
    BY FS_Subset, U(S) \subseteq S, U(T) \subseteq T
<1>2. U(S) \cap U(T) = {} /\ U(S \cup T) = U(S) \cup U(T)
    OBVIOUS
<1>3. /\ Uses(S, d) = Cardinality(U(S)) /\ Uses(T, d) = Cardinality(U(T))
      /\ Uses(S \cup T, d) = Cardinality(U(S \cup T))
    BY DEF Uses
<1>4. U(S) = {} <=> \A fd \in S : filp[fd[1]][fd[2]] # d
    OBVIOUS
<1> HIDE DEF U
<1>5. /\ Cardinality(U(S)) \in Nat /\ Cardinality(U(T)) \in Nat
      /\ Cardinality(U(S) \cup U(T)) = Cardinality(U(S)) + Cardinality(U(T))
      /\ Cardinality(U(S)) = 0 <=> U(S) = {}
    BY <1>1, <1>2, CountAdd
<1> QED  BY <1>2, <1>3, <1>4, <1>5

LEMMA RefsAdd ==
    ASSUME NEW S, NEW T, IsFiniteSet(S), IsFiniteSet(T), S \cap T = {}, NEW s
    PROVE  /\ Refs(S, s) \in Nat /\ Refs(T, s) \in Nat
           /\ Refs(S \cup T, s) = Refs(S, s) + Refs(T, s)
           /\ Refs(S, s) = 0
                <=> \A fd \in S : f_desc_table[filp[fd[1]][fd[2]]].fd_inode # s
<1> DEFINE U(X) == {fd \in X : f_desc_table[filp[fd[1]][fd[2]]].fd_inode = s}
<1>1. IsFiniteSet(U(S)) /\ IsFiniteSet(U(T))
    BY FS_Subset, U(S) \subseteq S, U(T) \subseteq T
<1>2. U(S) \cap U(T) = {} /\ U(S \cup T) = U(S) \cup U(T)
    OBVIOUS
<1>3. /\ Refs(S, s) = Cardinality(U(S)) /\ Refs(T, s) = Cardinality(U(T))
      /\ Refs(S \cup T, s) = Cardinality(U(S \cup T))
    BY DEF Refs
<1>4. U(S) = {} <=> \A fd \in S : f_desc_table[filp[fd[1]][fd[2]]].fd_inode # s
    OBVIOUS
<1> HIDE DEF U
<1>5. /\ Cardinality(U(S)) \in Nat /\ Cardinality(U(T)) \in Nat
      /\ Cardinality(U(S) \cup U(T)) = Cardinality(U(S)) + Cardinality(U(T))
      /\ Cardinality(U(S)) = 0 <=> U(S) = {}
    BY <1>1, <1>2, CountAdd
<1> QED  BY <1>2, <1>3, <1>4, <1>5

\* There are finitely many entries of filp[].
LEMMA OpenedFinite ==
    ASSUME NEW P, P \subseteq Proc
    PROVE  IsFiniteSet(Opened(P))
<1>1. IsFiniteSet(P)
    BY FS_Subset, FsAssumption
<1>2. IsFiniteSet(P \X Fd)
    BY <1>1, FS_Product, FsAssumption
<1> QED  BY <1>2, FS_Subset DEF Opened

-----------------------------------------------------------------------------
(* What the invariant says of one entry of filp[] and of one slot *)

LEMMA KnownFinite ==
    ASSUME FsInv
    PROVE  IsFiniteSet(Known) /\ Known \subseteq alive \X Fd
BY OpenedFinite DEF FsInv, FsTypeOK, Known, Opened

\* A descriptor that is free is in no entry that FS knows of.
LEMMA FreeUnused ==
    ASSUME FsInv, NEW d \in Desc, f_desc_table[d].fd_inode = 0
    PROVE  \A fd \in Known : filp[fd[1]][fd[2]] # d
<1>1. Uses(Known, d) = 0
    BY DEF FsInv, CountsExact, FdCounts
<1>2. IsFiniteSet({}) /\ Known \cap {} = {}
    BY FS_EmptySet
<1> QED  BY <1>1, <1>2, KnownFinite, UsesAdd

\* An entry of a process, a child that FS has not heard of included, leads to
\* a descriptor, a slot and an inode that are all in use.
LEMMA Held ==
    ASSUME FsInv, NEW p \in alive, NEW fd \in Fd, filp[p][fd] # 0
    PROVE  LET d == filp[p][fd]
               s == f_desc_table[d].fd_inode
           IN  /\ d \in Desc /\ s \in Slot
               /\ f_desc_table[d].fd_cnt > 0 /\ inode_table[s].i_cnt > 0
               /\ inode_table[s].i_num \in imap /\ inode_table[s].i_num # 0
<1> DEFINE d == filp[p][fd]
           s == f_desc_table[d].fd_inode
<1>1. PICK x \in Known : filp[x[1]][x[2]] = d
    <2>1. CASE p # child
        BY <2>1, <<p, fd>> \in Known DEF Known, Opened
    <2>2. CASE p = child
        <3>1. 0 \notin Proc /\ alive \subseteq Proc
            BY FsAssumption DEF FsInv, FsTypeOK
        <3>2. forking \in alive \ {child} /\ filp[forking][fd] = d
            BY <2>2, <3>1 DEF FsInv, ForkInv
        <3> QED  BY <3>2, <<forking, fd>> \in Known DEF Known, Opened
    <2> QED  BY <2>1, <2>2
<1>2. d \in Desc
    <2>1. p \in Proc /\ filp \in [Proc -> [Fd -> Desc \cup {0}]]
        BY DEF FsInv, FsTypeOK
    <2> QED  BY <2>1
<1>3. IsFiniteSet({}) /\ Known \cap {} = {}
    BY FS_EmptySet
<1>4. s # 0
    BY <1>1, <1>2, FreeUnused
<1>5. s \in Slot /\ f_desc_table[d].fd_cnt \in Nat /\ inode_table[s].i_cnt \in Nat
    BY <1>2, <1>4 DEF FsInv, FsTypeOK
<1>6. f_desc_table[d].fd_cnt > 0
    BY <1>2, <1>4, <1>5 DEF FsInv, CountsExact, FdCounts
<1>7. Refs(Known, s) \in Nat /\ Refs(Known, s) # 0
    <2>1. f_desc_table[filp[x[1]][x[2]]].fd_inode = s
        BY <1>1
    <2> HIDE DEF d, s
    <2>2. /\ Refs(Known, s) \in Nat
          /\ Refs(Known, s) = 0
               <=> \A e \in Known : f_desc_table[filp[e[1]][e[2]]].fd_inode # s
        BY <1>3, KnownFinite, RefsAdd
    <2> QED  BY <2>1, <2>2
<1>8. inode_table[s].i_cnt >= Refs(Known, s)
    BY <1>5, <1>7 DEF FsInv, CountsExact, InodesHeld
<1>9. inode_table[s].i_cnt > 0
    BY <1>5, <1>7, <1>8
<1> QED  BY <1>2, <1>5, <1>6, <1>9 DEF FsInv, SlotInv

\* get_inode for one more reference, of an inode that is allocated or is being
\* allocated: the slots in use keep their inodes, and one count rises.
LEMMA GetInodeRaises ==
    ASSUME FsInv, NEW nr \in Inode, ~NoSlot(nr),
           imap' \subseteq Inode, imap \subseteq imap', nr \in imap',
           inode_table' = GetInode(nr, Count(nr) + 1)
    PROVE  /\ GetSlot(nr) \in Slot
           /\ inode_table' \in [Slot -> [i_num : Inode \cup {0}, i_cnt : Nat]]
           /\ SlotInv' /\ OneSlotPerInode'
           /\ inode_table'[GetSlot(nr)].i_num = nr
           /\ \A s \in Slot :
                 /\ inode_table'[s].i_cnt
                      = inode_table[s].i_cnt + (IF s = GetSlot(nr) THEN 1 ELSE 0)
                 /\ inode_table[s].i_cnt > 0
                      => inode_table'[s].i_num = inode_table[s].i_num
<1> DEFINE g == GetSlot(nr)
<1>1. Slot \subseteq Nat /\ Inode \subseteq Nat \ {0}
    BY FsAssumption
<1>2. inode_table \in [Slot -> [i_num : Inode \cup {0}, i_cnt : Nat]]
    BY DEF FsInv, FsTypeOK
<1>3. Cached(nr) \subseteq Slot /\ FreeSlots \subseteq Slot
    BY DEF Cached, FreeSlots
<1>4. g \in Slot /\ (g \in Cached(nr) \/ (Cached(nr) = {} /\ g \in FreeSlots))
    BY <1>1, <1>3, FirstIs DEF NoSlot, GetSlot
<1>5. inode_table' = [inode_table EXCEPT ![g] =
                         [i_num |-> nr, i_cnt |-> inode_table[g].i_cnt + 1]]
    BY DEF GetInode, Count
<1> HIDE DEF g
<1>6. inode_table[g].i_cnt \in Nat
    BY <1>2, <1>4
<1>7. /\ inode_table'[g] = [i_num |-> nr, i_cnt |-> inode_table[g].i_cnt + 1]
      /\ \A s \in Slot \ {g} : inode_table'[s] = inode_table[s]
    BY <1>2, <1>4, <1>5
<1>8. inode_table' \in [Slot -> [i_num : Inode \cup {0}, i_cnt : Nat]]
    BY <1>2, <1>4, <1>5, <1>6
<1>9. inode_table[g].i_cnt > 0 => inode_table[g].i_num = nr
    BY <1>4, <1>6 DEF Cached, FreeSlots
<1>10. \A s \in Slot : inode_table[s].i_num = nr => s = g
    <2>1. SUFFICES ASSUME NEW s \in Slot, inode_table[s].i_num = nr PROVE s = g
        OBVIOUS
    <2>2. nr # 0 /\ inode_table[s].i_cnt \in Nat
        BY <1>1, <1>2
    <2>3. s \in Cached(nr)
        BY <2>1, <2>2 DEF Cached, FsInv, SlotInv
    <2>4. inode_table[g].i_num = nr
        BY <1>4, <2>3 DEF Cached
    <2> QED  BY <2>1, <2>2, <2>4, <1>4 DEF FsInv, CountsExact, OneSlotPerInode
<1>11. SlotInv'
    <2>1. ASSUME NEW s \in Slot
          PROVE  /\ inode_table'[s].i_num = 0 <=> inode_table'[s].i_cnt = 0
                 /\ inode_table'[s].i_cnt > 0 => inode_table'[s].i_num \in imap'
        <3>1. CASE s = g
            BY <3>1, <1>1, <1>6, <1>7
        <3>2. CASE s # g
            BY <3>2, <1>7 DEF FsInv, SlotInv
        <3> QED  BY <3>1, <3>2
    <2> QED  BY <2>1 DEF SlotInv
<1>12. OneSlotPerInode'
    <2>1. ASSUME NEW s \in Slot, NEW t \in Slot,
                 inode_table'[s].i_num = inode_table'[t].i_num
          PROVE  s = t \/ inode_table'[s].i_num = 0
        BY <2>1, <1>7, <1>10 DEF FsInv, CountsExact, OneSlotPerInode
    <2> QED  BY <2>1 DEF OneSlotPerInode
<1>13. \A s \in Slot :
          /\ inode_table'[s].i_cnt = inode_table[s].i_cnt + (IF s = g THEN 1 ELSE 0)
          /\ inode_table[s].i_cnt > 0 => inode_table'[s].i_num = inode_table[s].i_num
    BY <1>2, <1>7, <1>9
<1> QED  BY <1>4, <1>7, <1>8, <1>11, <1>12, <1>13 DEF g

-----------------------------------------------------------------------------
(* open *)

\* The end of do_open: a free entry of filp[] and a free descriptor for one
\* more reference to an inode.
LEMMA Connected ==
    ASSUME FsInv, NEW p, Caller(p), FreeFd(p) # {}, FreeDesc # {},
           NEW nr \in Inode, ~NoSlot(nr), UNCHANGED procs,
           imap' \subseteq Inode, imap \subseteq imap', nr \in imap',
           inode_table' = GetInode(nr, Count(nr) + 1), Connect(p, nr)
    PROVE  /\ filp' \in [Proc -> [Fd -> Desc \cup {0}]]
           /\ f_desc_table' \in [Desc -> [fd_inode : Slot \cup {0}, fd_cnt : Nat]]
           /\ inode_table' \in [Slot -> [i_num : Inode \cup {0}, i_cnt : Nat]]
           /\ ForkInv' /\ SlotInv' /\ CountsExact' /\ FilesKept
<1> DEFINE fd0 == First(FreeFd(p))
           d0 == First(FreeDesc)
           g == GetSlot(nr)
           e == <<p, fd0>>
<1>1. /\ alive \subseteq Proc
      /\ filp \in [Proc -> [Fd -> Desc \cup {0}]]
      /\ f_desc_table \in [Desc -> [fd_inode : Slot \cup {0}, fd_cnt : Nat]]
      /\ inode_table \in [Slot -> [i_num : Inode \cup {0}, i_cnt : Nat]]
    BY DEF FsInv, FsTypeOK
<1>2. p \in alive /\ p \in Proc /\ p # forking /\ p # child
    BY <1>1 DEF Caller
<1>3. Fd \subseteq Nat /\ Desc \subseteq Nat \ {0} /\ Slot \subseteq Nat \ {0}
    BY FsAssumption
<1>4. fd0 \in Fd /\ filp[p][fd0] = 0
    <2>1. FreeFd(p) \subseteq Nat
        BY <1>3 DEF FreeFd
    <2> QED  BY <2>1, FirstIs DEF FreeFd
<1>5. d0 \in Desc /\ f_desc_table[d0].fd_inode = 0
    <2>1. FreeDesc \subseteq Nat
        BY <1>3 DEF FreeDesc
    <2> QED  BY <2>1, FirstIs DEF FreeDesc
<1>6. /\ g \in Slot /\ SlotInv' /\ OneSlotPerInode'
      /\ inode_table' \in [Slot -> [i_num : Inode \cup {0}, i_cnt : Nat]]
      /\ \A s \in Slot :
            /\ inode_table'[s].i_cnt = inode_table[s].i_cnt + (IF s = g THEN 1 ELSE 0)
            /\ inode_table[s].i_cnt > 0 => inode_table'[s].i_num = inode_table[s].i_num
    BY GetInodeRaises
<1>7. /\ filp' = [filp EXCEPT ![p][fd0] = d0]
      /\ f_desc_table' = [f_desc_table EXCEPT ![d0] = [fd_inode |-> g, fd_cnt |-> 1]]
      /\ alive' = alive /\ forking' = forking /\ child' = child
    BY DEF Connect, procs
<1> HIDE DEF fd0, d0, g
<1>8. filp' \in [Proc -> [Fd -> Desc \cup {0}]]
    BY <1>1, <1>2, <1>4, <1>5, <1>7
<1>9. f_desc_table' \in [Desc -> [fd_inode : Slot \cup {0}, fd_cnt : Nat]]
    BY <1>1, <1>5, <1>6, <1>7
<1>10. Known' = Known \cup {e} /\ e \notin Known
    <2>1. \A q \in Proc, fd \in Fd : <<q, fd>> # e => filp'[q][fd] = filp[q][fd]
        BY <1>1, <1>2, <1>4, <1>7
    <2>2. filp'[p][fd0] = d0 /\ d0 # 0
        BY <1>1, <1>2, <1>3, <1>4, <1>5, <1>7
    <2> QED  BY <1>1, <1>2, <1>4, <1>7, <2>1, <2>2 DEF Known, Opened
<1>11. /\ \A x \in Known : filp'[x[1]][x[2]] = filp[x[1]][x[2]]
       /\ filp'[p][fd0] = d0
    BY <1>1, <1>2, <1>4, <1>7, <1>10 DEF Known, Opened
<1>12. \A x \in Known : filp[x[1]][x[2]] # d0 /\ filp[x[1]][x[2]] \in Desc
    <2>1. \A x \in Known : filp[x[1]][x[2]] \in Desc
        BY <1>1 DEF Known, Opened
    <2> QED  BY <1>5, <2>1, FreeUnused
<1>13. \A d \in Desc \ {d0} : f_desc_table'[d] = f_desc_table[d]
    BY <1>1, <1>5, <1>7
<1>14. f_desc_table'[d0].fd_inode = g /\ f_desc_table'[d0].fd_cnt = 1
    BY <1>1, <1>5, <1>7
<1>15. FdCounts'
    <2>1. SUFFICES ASSUME NEW d \in Desc
                   PROVE  /\ f_desc_table'[d].fd_cnt = Uses(Known, d)'
                          /\ f_desc_table'[d].fd_inode = 0 <=> f_desc_table'[d].fd_cnt = 0
        BY DEF FdCounts
    <2>2. /\ f_desc_table[d].fd_cnt = Uses(Known, d)
          /\ f_desc_table[d].fd_inode = 0 <=> f_desc_table[d].fd_cnt = 0
        BY DEF FsInv, CountsExact, FdCounts
    <2>3. CASE d = d0
        <3>1. {x \in Known' : filp'[x[1]][x[2]] = d} = {e}
            BY <2>3, <1>10, <1>11, <1>12
        <3>2. Uses(Known, d)' = 1
            BY <3>1, FS_Singleton DEF Uses
        <3> QED  BY <3>2, <2>3, <1>3, <1>6, <1>14
    <2>4. CASE d # d0
        <3>1. {x \in Known' : filp'[x[1]][x[2]] = d} = {x \in Known : filp[x[1]][x[2]] = d}
            BY <2>4, <1>10, <1>11
        <3>2. Uses(Known, d)' = Uses(Known, d)
            BY <3>1 DEF Uses
        <3> QED  BY <3>2, <2>2, <2>4, <1>13
    <2> QED  BY <2>3, <2>4
<1>16. InodesHeld'
    <2>1. SUFFICES ASSUME NEW s \in Slot
                   PROVE  inode_table'[s].i_cnt
                            >= Refs(Known, s)' + (IF s = First(Slot) THEN 1 ELSE 0)
        BY DEF InodesHeld
    <2> DEFINE R == {x \in Known : f_desc_table[filp[x[1]][x[2]]].fd_inode = s}
    <2>2. \A x \in Known : f_desc_table'[filp'[x[1]][x[2]]] = f_desc_table[filp[x[1]][x[2]]]
        BY <1>11, <1>12, <1>13
    <2>3. {x \in Known' : f_desc_table'[filp'[x[1]][x[2]]].fd_inode = s}
             = IF s = g THEN R \cup {e} ELSE R
        BY <2>2, <1>10, <1>11, <1>14
    <2>4. IsFiniteSet(R) /\ e \notin R
        BY <1>10, KnownFinite, FS_Subset, R \subseteq Known
    <2> HIDE DEF R, e
    <2>5. Refs(Known, s)' = Cardinality(R) + (IF s = g THEN 1 ELSE 0)
        <3>1. Refs(Known, s)' = Cardinality(IF s = g THEN R \cup {e} ELSE R)
            BY <2>3 DEF Refs
        <3>2. Cardinality(R \cup {e}) = Cardinality(R) + 1 /\ Cardinality(R) \in Nat
            BY <2>4, FS_AddElement, FS_CardinalityType
        <3> QED  BY <3>1, <3>2
    <2>6. Cardinality(R) = Refs(Known, s) /\ Cardinality(R) \in Nat
        BY <2>4, FS_CardinalityType DEF R, Refs
    <2>7. inode_table[s].i_cnt >= Refs(Known, s) + (IF s = First(Slot) THEN 1 ELSE 0)
        BY DEF FsInv, CountsExact, InodesHeld
    <2>8. inode_table[s].i_cnt \in Nat
        BY <1>1
    <2> QED  BY <2>5, <2>6, <2>7, <2>8, <1>6
<1>17. ForkInv'
    BY <1>1, <1>2, <1>7 DEF FsInv, ForkInv
<1>18. FilesKept
    <2>1. SUFFICES ASSUME NEW q \in alive, NEW fd \in Fd, filp[q][fd] # 0
                   PROVE  File(q, fd)' = File(q, fd)
        BY DEF FilesKept
    <2> DEFINE d == filp[q][fd]
               s == f_desc_table[d].fd_inode
    <2>2. d \in Desc /\ s \in Slot /\ s # 0 /\ inode_table[s].i_cnt > 0
        BY <2>1, <1>3, Held
    <2>3. filp'[q][fd] = d
        BY <2>1, <1>1, <1>2, <1>4, <1>7
    <2>4. f_desc_table'[d].fd_inode = s
        BY <2>2, <1>5, <1>13
    <2>5. inode_table'[s].i_num = inode_table[s].i_num
        BY <2>2, <1>6
    <2> QED  BY <2>3, <2>4, <2>5 DEF File
<1> QED  BY <1>6, <1>8, <1>9, <1>15, <1>16, <1>17, <1>18 DEF CountsExact

-----------------------------------------------------------------------------
(* close and exit *)

\* Entries that are given back take their share of the counts with them, and
\* the other entries theirs not.
LEMMA Released ==
    ASSUME FsInv, NEW S \in SUBSET Known, Release(S), Known' = Known \ S,
           \A x \in S : x[1] \notin {forking, child},
           forking' = forking, child' = child, imap' = imap,
           forking # 0 => forking \in alive' /\ child \in alive'
    PROVE  /\ filp' \in [Proc -> [Fd -> Desc \cup {0}]]
           /\ f_desc_table' \in [Desc -> [fd_inode : Slot \cup {0}, fd_cnt : Nat]]
           /\ inode_table' \in [Slot -> [i_num : Inode \cup {0}, i_cnt : Nat]]
           /\ ForkInv' /\ SlotInv' /\ CountsExact' /\ FilesKept
<1> DEFINE K == Known \ S
<1>1. /\ alive \subseteq Proc
      /\ filp \in [Proc -> [Fd -> Desc \cup {0}]]
      /\ f_desc_table \in [Desc -> [fd_inode : Slot \cup {0}, fd_cnt : Nat]]
      /\ inode_table \in [Slot -> [i_num : Inode \cup {0}, i_cnt : Nat]]
    BY DEF FsInv, FsTypeOK
<1>2. Desc \subseteq Nat \ {0} /\ Slot \subseteq Nat \ {0} /\ 0 \notin Proc
    BY FsAssumption
<1>3. /\ filp' = [p \in Proc |-> [fd \in Fd |->
                     IF <<p, fd>> \in S THEN 0 ELSE filp[p][fd]]]
      /\ f_desc_table' = ReleaseDesc(S)
      /\ inode_table' = Put([s \in Slot |-> Refs(S, s)])
    BY DEF Release
<1>4. IsFiniteSet(K) /\ IsFiniteSet(S) /\ K \cap S = {} /\ K \cup S = Known
    BY KnownFinite, FS_Subset
<1>a. \A x \in K : x \in Known /\ x \notin S
    OBVIOUS
<1>b. Known' = K
    OBVIOUS
<1> HIDE DEF K
<1>5. ASSUME NEW d \in Desc
      PROVE  /\ Uses(K, d) \in Nat /\ Uses(S, d) \in Nat
             /\ f_desc_table[d].fd_cnt = Uses(K, d) + Uses(S, d)
             /\ Uses(K, d) = 0 <=> \A fd \in K : filp[fd[1]][fd[2]] # d
    <2>1. f_desc_table[d].fd_cnt = Uses(Known, d)
        BY DEF FsInv, CountsExact, FdCounts
    <2>2. /\ Uses(K, d) \in Nat /\ Uses(S, d) \in Nat
          /\ Uses(K \cup S, d) = Uses(K, d) + Uses(S, d)
          /\ Uses(K, d) = 0 <=> \A fd \in K : filp[fd[1]][fd[2]] # d
        BY <1>4, UsesAdd
    <2> QED  BY <1>4, <2>1, <2>2
<1>6. ASSUME NEW s \in Slot
      PROVE  /\ Refs(K, s) \in Nat /\ Refs(S, s) \in Nat
             /\ Refs(Known, s) = Refs(K, s) + Refs(S, s)
             /\ Refs(K, s) = 0
                  <=> \A fd \in K : f_desc_table[filp[fd[1]][fd[2]]].fd_inode # s
    <2>1. /\ Refs(K, s) \in Nat /\ Refs(S, s) \in Nat
          /\ Refs(K \cup S, s) = Refs(K, s) + Refs(S, s)
          /\ Refs(K, s) = 0
               <=> \A fd \in K : f_desc_table[filp[fd[1]][fd[2]]].fd_inode # s
        BY <1>4, RefsAdd
    <2> QED  BY <1>4, <2>1
<1>7. ASSUME NEW x \in K
      PROVE  filp'[x[1]][x[2]] = filp[x[1]][x[2]] /\ filp[x[1]][x[2]] \in Desc
    <2>1. x = <<x[1], x[2]>> /\ x[1] \in Proc /\ x[2] \in Fd /\ filp[x[1]][x[2]] # 0
        BY <1>1, <1>a DEF Known, Opened
    <2>2. <<x[1], x[2]>> \notin S
        BY <2>1, <1>a
    <2> QED  BY <2>1, <2>2, <1>1, <1>3
<1>8. ASSUME NEW d \in Desc
      PROVE  /\ f_desc_table'[d] \in [fd_inode : Slot \cup {0}, fd_cnt : Nat]
             /\ f_desc_table'[d].fd_cnt = Uses(K, d)
             /\ f_desc_table'[d].fd_inode
                  = IF Uses(K, d) = 0 THEN 0 ELSE f_desc_table[d].fd_inode
    <2>1. f_desc_table[d].fd_cnt - Uses(S, d) = Uses(K, d) /\ Uses(K, d) \in Nat
        BY <1>5
    <2>2. f_desc_table'[d] = [fd_cnt |-> Uses(K, d),
             fd_inode |-> IF Uses(K, d) = 0 THEN 0 ELSE f_desc_table[d].fd_inode]
        BY <1>3, <2>1 DEF ReleaseDesc
    <2>3. f_desc_table[d].fd_inode \in Slot \cup {0}
        BY <1>1
    <2> QED  BY <2>1, <2>2, <2>3
<1>9. ASSUME NEW s \in Slot
      PROVE  LET left == inode_table[s].i_cnt - Refs(S, s)
             IN  /\ left >= Refs(K, s) + (IF s = First(Slot) THEN 1 ELSE 0)
                 /\ inode_table'[s] \in [i_num : Inode \cup {0}, i_cnt : Nat]
                 /\ inode_table'[s].i_cnt = left
                 /\ inode_table'[s].i_num
                      = IF left = 0 THEN 0 ELSE inode_table[s].i_num
    <2> DEFINE root == IF s = First(Slot) THEN 1 ELSE 0
    <2>1. inode_table[s].i_cnt >= Refs(K, s) + Refs(S, s) + root
        BY <1>6 DEF FsInv, CountsExact, InodesHeld
    <2>2. root \in Nat
        OBVIOUS
    <2> HIDE DEF root
    <2>3. /\ inode_table[s].i_cnt - Refs(S, s) \in Nat
          /\ inode_table[s].i_cnt - Refs(S, s) >= Refs(K, s) + root
        BY <1>1, <1>6, <2>1, <2>2
    <2> DEFINE left == inode_table[s].i_cnt - Refs(S, s)
    <2>4. inode_table'[s] = [i_cnt |-> left,
             i_num |-> IF left = 0 THEN 0 ELSE inode_table[s].i_num]
        BY <1>3 DEF Put
    <2>5. inode_table[s].i_num \in Inode \cup {0}
        BY <1>1
    <2> QED  BY <2>3, <2>4, <2>5 DEF root
<1>10. ASSUME NEW x \in K
       PROVE  f_desc_table'[filp'[x[1]][x[2]]].fd_inode
                = f_desc_table[filp[x[1]][x[2]]].fd_inode
    <2>1. Uses(K, filp[x[1]][x[2]]) # 0
        BY <1>5, <1>7
    <2>2. f_desc_table'[filp[x[1]][x[2]]].fd_inode = f_desc_table[filp[x[1]][x[2]]].fd_inode
        BY <2>1, <1>7, <1>8
    <2> QED  BY <2>2, <1>7
<1>11. filp' \in [Proc -> [Fd -> Desc \cup {0}]]
    BY <1>1, <1>3
<1>12. f_desc_table' \in [Desc -> [fd_inode : Slot \cup {0}, fd_cnt : Nat]]
    <2>1. f_desc_table' = [d \in Desc |-> f_desc_table'[d]]
        BY <1>3 DEF ReleaseDesc
    <2>2. \A d \in Desc : f_desc_table'[d] \in [fd_inode : Slot \cup {0}, fd_cnt : Nat]
        BY <1>1, <1>5, <1>8
    <2> QED  BY <2>1, <2>2
<1>13. inode_table' \in [Slot -> [i_num : Inode \cup {0}, i_cnt : Nat]]
    <2>1. inode_table' = [s \in Slot |-> inode_table'[s]]
        BY <1>3 DEF Put
    <2>2. \A s \in Slot : inode_table'[s] \in [i_num : Inode \cup {0}, i_cnt : Nat]
        BY <1>1, <1>9
    <2> QED  BY <2>1, <2>2
<1>14. ForkInv'
    <2>1. CASE forking = 0
        BY <2>1, <1>1, <1>2 DEF FsInv, ForkInv
    <2>2. CASE forking # 0
        <3>1. forking \in Proc /\ child \in Proc
            BY <2>2, <1>1, <1>2 DEF FsInv, ForkInv
        <3>2. \A fd \in Fd : <<forking, fd>> \notin S /\ <<child, fd>> \notin S
            OBVIOUS
        <3>3. filp'[forking] = filp[forking] /\ filp'[child] = filp[child]
            BY <3>1, <3>2, <1>1, <1>3
        <3> QED  BY <2>2, <3>3 DEF FsInv, ForkInv
    <2> QED  BY <2>1, <2>2
<1>15. SlotInv'
    <2>1. ASSUME NEW s \in Slot
          PROVE  /\ inode_table'[s].i_num = 0 <=> inode_table'[s].i_cnt = 0
                 /\ inode_table'[s].i_cnt > 0 => inode_table'[s].i_num \in imap
        <3>1. /\ inode_table[s].i_num = 0 <=> inode_table[s].i_cnt = 0
              /\ inode_table[s].i_cnt > 0 => inode_table[s].i_num \in imap
            BY DEF FsInv, SlotInv
        <3>2. inode_table[s].i_cnt \in Nat /\ inode_table'[s].i_cnt \in Nat
            BY <1>1, <1>9
        <3> QED  BY <3>1, <3>2, <1>6, <1>9
    <2> QED  BY <2>1 DEF SlotInv
<1>16. OneSlotPerInode'
    BY <1>9 DEF FsInv, CountsExact, OneSlotPerInode
<1>17. FdCounts'
    <2>1. SUFFICES ASSUME NEW d \in Desc
                   PROVE  /\ f_desc_table'[d].fd_cnt = Uses(Known, d)'
                          /\ f_desc_table'[d].fd_inode = 0 <=> f_desc_table'[d].fd_cnt = 0
        BY DEF FdCounts
    <2>2. Uses(Known, d)' = Uses(K, d)
        <3>1. {x \in Known' : filp'[x[1]][x[2]] = d} = {x \in K : filp[x[1]][x[2]] = d}
            BY <1>7, <1>b
        <3> QED  BY <3>1 DEF Uses
    <2>3. f_desc_table[d].fd_inode = 0 <=> f_desc_table[d].fd_cnt = 0
        BY DEF FsInv, CountsExact, FdCounts
    <2> QED  BY <2>2, <2>3, <1>5, <1>8
<1>18. InodesHeld'
    <2>1. SUFFICES ASSUME NEW s \in Slot
                   PROVE  inode_table'[s].i_cnt
                            >= Refs(Known, s)' + (IF s = First(Slot) THEN 1 ELSE 0)
        BY DEF InodesHeld
    <2>2. Refs(Known, s)' = Refs(K, s)
        <3>1. {x \in Known' : f_desc_table'[filp'[x[1]][x[2]]].fd_inode = s}
                = {x \in K : f_desc_table[filp[x[1]][x[2]]].fd_inode = s}
            BY <1>10, <1>b
        <3> QED  BY <3>1 DEF Refs
    <2> QED  BY <2>2, <1>9
<1>19. FilesKept
    <2>1. SUFFICES ASSUME NEW q \in alive, NEW fd \in Fd,
                          filp[q][fd] # 0, filp'[q][fd] # 0
                   PROVE  File(q, fd)' = File(q, fd)
        BY DEF FilesKept
    <2> DEFINE d == filp[q][fd]
               s == f_desc_table[d].fd_inode
    <2>2. d \in Desc /\ s \in Slot
        BY <2>1, Held
    <2>3. filp'[q][fd] = d /\ <<q, fd>> \notin S
        BY <2>1, <1>1, <1>3
    <2>4. PICK x \in K : filp[x[1]][x[2]] = d
        <3>1. CASE q # child
            BY <3>1, <2>1, <2>3, <1>4, <<q, fd>> \in Known DEF Known, Opened
        <3>2. CASE q = child
            <4>1. forking \in alive \ {child} /\ filp[forking][fd] = d
                BY <3>2, <1>1, <1>2 DEF FsInv, ForkInv
            <4>2. <<forking, fd>> \in Known /\ <<forking, fd>> \notin S
                BY <4>1, <2>1 DEF Known, Opened
            <4> QED  BY <4>1, <4>2, <1>4
        <3> QED  BY <3>1, <3>2
    <2>5. f_desc_table'[d].fd_inode = s
        BY <2>2, <2>4, <1>7, <1>10
    <2>6. Refs(K, s) # 0
        BY <2>2, <2>4, <1>6
    <2>7. inode_table'[s].i_num = inode_table[s].i_num
        BY <2>2, <2>6, <1>6, <1>9
    <2> QED  BY <2>3, <2>5, <2>7 DEF File
<1> QED  BY <1>11, <1>12, <1>13, <1>14, <1>15, <1>16, <1>17, <1>18, <1>19 DEF CountsExact

LEMMA CloseInv ==
    ASSUME FsInv, NEW p \in Proc, NEW fd \in Fd, Close(p, fd)
    PROVE  FsInv' /\ FilesKept
<1> DEFINE S == {<<p, fd>>}
<1>1. p \in alive /\ p \notin {forking, child} /\ filp[p][fd] # 0 /\ Release(S)
    BY DEF Close, Caller
<1>2. UNCHANGED <<alive, forking, child, imap, dir, dir_size, halted>>
    BY DEF Close, procs, disk
<1>3. S \in SUBSET Known
    BY <1>1 DEF Known, Opened
<1>4. Known' = Known \ S
    <2>1. alive \subseteq Proc
        BY DEF FsInv, FsTypeOK
    <2>2. \A q \in Proc, f \in Fd : filp'[q][f] = IF <<q, f>> \in S THEN 0 ELSE filp[q][f]
        BY <1>1 DEF Release
    <2> QED  BY <1>2, <2>1, <2>2 DEF Known, Opened
<1>5. forking # 0 => forking \in alive' /\ child \in alive'
    BY <1>2 DEF FsInv, ForkInv
<1>6. /\ filp' \in [Proc -> [Fd -> Desc \cup {0}]]
      /\ f_desc_table' \in [Desc -> [fd_inode : Slot \cup {0}, fd_cnt : Nat]]
      /\ inode_table' \in [Slot -> [i_num : Inode \cup {0}, i_cnt : Nat]]
      /\ ForkInv' /\ SlotInv' /\ CountsExact' /\ FilesKept
    <2>1. \A x \in S : x[1] \notin {forking, child}
        BY <1>1
    <2> HIDE DEF S
    <2> QED  BY <1>1, <1>2, <1>3, <1>4, <1>5, <2>1, Released
<1>7. FsTypeOK'
    BY <1>2, <1>6 DEF FsInv, FsTypeOK
<1>8. EntriesAllocated'
    BY <1>2 DEF FsInv, EntriesAllocated, InUse
<1> QED  BY <1>6, <1>7, <1>8 DEF FsInv

LEMMA ExitInv ==
    ASSUME FsInv, NEW p \in Proc, FsExit(p)
    PROVE  FsInv' /\ FilesKept
<1> DEFINE S == Opened({p})
<1>1. p \in alive /\ forking = 0 /\ p \notin {forking, child} /\ Release(S)
    BY DEF FsExit, Caller
<1>2. /\ UNCHANGED <<forking, child, imap, dir, dir_size, halted>>
      /\ alive' = alive \ {p}
    BY DEF FsExit, disk
<1>3. S \in SUBSET Known
    BY <1>1 DEF Known, Opened
<1>4. Known' = Known \ S
    <2>1. alive \subseteq Proc
        BY DEF FsInv, FsTypeOK
    <2>2. \A q \in Proc, f \in Fd : filp'[q][f] = IF <<q, f>> \in S THEN 0 ELSE filp[q][f]
        BY <1>1 DEF Release
    <2>3. \A x : x \in S <=> /\ x \in {p} \X Fd /\ filp[x[1]][x[2]] # 0
        BY DEF Opened
    <2> QED  BY <1>2, <2>1, <2>2, <2>3 DEF Known, Opened
<1>5. \A x \in S : x[1] \notin {forking, child}
    BY <1>1 DEF Opened
<1>6. /\ filp' \in [Proc -> [Fd -> Desc \cup {0}]]
      /\ f_desc_table' \in [Desc -> [fd_inode : Slot \cup {0}, fd_cnt : Nat]]
      /\ inode_table' \in [Slot -> [i_num : Inode \cup {0}, i_cnt : Nat]]
      /\ ForkInv' /\ SlotInv' /\ CountsExact' /\ FilesKept
    <2> HIDE DEF S
    <2> QED  BY <1>1, <1>2, <1>3, <1>4, <1>5, Released
<1>7. FsTypeOK'
    BY <1>2, <1>6 DEF FsInv, FsTypeOK
<1>8. EntriesAllocated'
    BY <1>2 DEF FsInv, EntriesAllocated, InUse
<1> QED  BY <1>6, <1>7, <1>8 DEF FsInv

-----------------------------------------------------------------------------
(* fork *)

\* MM's copy adds an entry that FS does not count yet.
LEMMA DuplicateInv ==
    ASSUME FsInv, NEW parent \in Proc, NEW new \in Proc, Duplicate(parent, new)
    PROVE  FsInv' /\ FilesKept
<1>1. /\ parent \in alive /\ new \notin alive /\ forking = 0 /\ child = 0
      /\ alive' = alive \cup {new} /\ forking' = parent /\ child' = new
      /\ filp' = [filp EXCEPT ![new] = filp[parent]]
      /\ UNCHANGED <<f_desc_table, inode_table, imap, dir, dir_size, halted>>
    <2>1. 0 \notin alive
        BY FsAssumption DEF FsInv, FsTypeOK
    <2> QED  BY <2>1 DEF Duplicate, Caller, table, disk, FsInv, ForkInv
<1>2. alive \subseteq Proc /\ filp \in [Proc -> [Fd -> Desc \cup {0}]] /\ 0 \notin Proc
    BY FsAssumption DEF FsInv, FsTypeOK
<1>3. \A q \in alive : filp'[q] = filp[q]
    BY <1>1, <1>2
<1>4. Known' = Known /\ \A x \in Known : filp'[x[1]][x[2]] = filp[x[1]][x[2]]
    BY <1>1, <1>2, <1>3 DEF Known, Opened
<1>5. FsTypeOK'
    BY <1>1, <1>2 DEF FsInv, FsTypeOK
<1>6. ForkInv'
    BY <1>1, <1>2 DEF ForkInv
<1>7. SlotInv' /\ EntriesAllocated' /\ OneSlotPerInode'
    BY <1>1 DEF FsInv, SlotInv, EntriesAllocated, InUse, CountsExact, OneSlotPerInode
<1>8. FdCounts'
    <2>1. ASSUME NEW d \in Desc PROVE Uses(Known, d)' = Uses(Known, d)
        BY <1>4 DEF Uses
    <2> QED  BY <1>1, <2>1 DEF FsInv, CountsExact, FdCounts
<1>9. InodesHeld'
    <2>1. ASSUME NEW s \in Slot PROVE Refs(Known, s)' = Refs(Known, s)
        BY <1>1, <1>4 DEF Refs
    <2> QED  BY <1>1, <2>1 DEF FsInv, CountsExact, InodesHeld
<1>10. FilesKept
    BY <1>1, <1>3 DEF FilesKept, File
<1> QED  BY <1>5, <1>6, <1>7, <1>8, <1>9, <1>10 DEF FsInv, CountsExact

\* fs_fork counts exactly the entries that become known with it.
LEMMA FsForkInv ==
    ASSUME FsInv, FsFork
    PROVE  FsInv' /\ FilesKept
<1> DEFINE S == Opened({child})
<1>1. /\ forking # 0 /\ forking' = 0 /\ child' = 0
      /\ f_desc_table' = RaiseDescs(S) /\ inode_table' = RaiseInodes(S)
      /\ UNCHANGED <<alive, filp, imap, dir, dir_size, halted>>
    BY DEF FsFork, disk
<1>2. /\ alive \subseteq Proc /\ 0 \notin Proc
      /\ filp \in [Proc -> [Fd -> Desc \cup {0}]]
      /\ f_desc_table \in [Desc -> [fd_inode : Slot \cup {0}, fd_cnt : Nat]]
      /\ inode_table \in [Slot -> [i_num : Inode \cup {0}, i_cnt : Nat]]
    BY FsAssumption DEF FsInv, FsTypeOK
<1>3. forking \in alive /\ child \in alive /\ forking # child /\ filp[child] = filp[forking]
    BY <1>1 DEF FsInv, ForkInv
<1>4. Known' = Known \cup S /\ Known \cap S = {} /\ \A x \in S : x[1] = child
    BY <1>1, <1>2, <1>3 DEF Known, Opened
<1>5. IsFiniteSet(S) /\ IsFiniteSet(Known)
    BY <1>2, <1>3, OpenedFinite, KnownFinite
\* The parent's entry leads to the same descriptor as the child's.
<1>6. ASSUME NEW x \in S
      PROVE  \E y \in Known : filp[y[1]][y[2]] = filp[x[1]][x[2]]
    <2>1. x[2] \in Fd /\ x[1] = child /\ filp[child][x[2]] # 0
        BY <1>4 DEF Opened
    <2>2. <<forking, x[2]>> \in Known
        BY <2>1, <1>3 DEF Known, Opened
    <2> QED  BY <2>1, <2>2, <1>3
<1> HIDE DEF S
<1>7. ASSUME NEW d \in Desc
      PROVE  /\ Uses(S, d) \in Nat
             /\ Uses(Known \cup S, d) = f_desc_table[d].fd_cnt + Uses(S, d)
             /\ f_desc_table[d].fd_cnt = 0 => Uses(S, d) = 0
    <2>0. Known \cap S = {}
        BY <1>4
    <2>1. /\ Uses(Known, d) \in Nat /\ Uses(S, d) \in Nat
          /\ Uses(Known \cup S, d) = Uses(Known, d) + Uses(S, d)
          /\ Uses(Known, d) = 0 <=> \A fd \in Known : filp[fd[1]][fd[2]] # d
        BY <2>0, <1>5, UsesAdd
    <2>2. S \cap Known = {}
        BY <1>4
    <2>3. /\ Uses(S, d) \in Nat
          /\ Uses(S, d) = 0 <=> \A fd \in S : filp[fd[1]][fd[2]] # d
        BY <2>2, <1>5, UsesAdd
    <2>4. f_desc_table[d].fd_cnt = Uses(Known, d)
        BY DEF FsInv, CountsExact, FdCounts
    <2> QED  BY <2>1, <2>3, <2>4, <1>6
<1>8. ASSUME NEW s \in Slot
      PROVE  /\ Refs(Known, s) \in Nat /\ Refs(S, s) \in Nat
             /\ Refs(Known \cup S, s) = Refs(Known, s) + Refs(S, s)
             /\ Refs(Known, s) = 0 => Refs(S, s) = 0
    <2>0. Known \cap S = {}
        BY <1>4
    <2>1. /\ Refs(Known, s) \in Nat /\ Refs(S, s) \in Nat
          /\ Refs(Known \cup S, s) = Refs(Known, s) + Refs(S, s)
          /\ Refs(Known, s) = 0
               <=> \A fd \in Known : f_desc_table[filp[fd[1]][fd[2]]].fd_inode # s
        BY <2>0, <1>5, RefsAdd
    <2>2. S \cap Known = {}
        BY <1>4
    <2>3. /\ Refs(S, s) \in Nat
          /\ Refs(S, s) = 0
               <=> \A fd \in S : f_desc_table[filp[fd[1]][fd[2]]].fd_inode # s
        BY <2>2, <1>5, RefsAdd
    <2> QED  BY <2>1, <2>3, <1>6
<1>9. ASSUME NEW d \in Desc
      PROVE  /\ f_desc_table'[d] \in [fd_inode : Slot \cup {0}, fd_cnt : Nat]
             /\ f_desc_table'[d].fd_cnt = f_desc_table[d].fd_cnt + Uses(S, d)
             /\ f_desc_table'[d].fd_inode = f_desc_table[d].fd_inode
    <2>1. f_desc_table'[d] = [f_desc_table[d] EXCEPT !.fd_cnt = @ + Uses(S, d)]
        BY <1>1 DEF RaiseDescs
    <2> QED  BY <2>1, <1>2, <1>7
<1>10. ASSUME NEW s \in Slot
       PROVE  /\ inode_table'[s] \in [i_num : Inode \cup {0}, i_cnt : Nat]
              /\ inode_table'[s].i_cnt = inode_table[s].i_cnt + Refs(S, s)
              /\ inode_table'[s].i_num = inode_table[s].i_num
    <2>1. inode_table'[s] = [inode_table[s] EXCEPT !.i_cnt = @ + Refs(S, s)]
        BY <1>1 DEF RaiseInodes
    <2> QED  BY <2>1, <1>2, <1>8
<1>11. FsTypeOK'
    <2>1. f_desc_table' = [d \in Desc |-> f_desc_table'[d]]
        BY <1>1 DEF RaiseDescs
    <2>2. inode_table' = [s \in Slot |-> inode_table'[s]]
        BY <1>1 DEF RaiseInodes
    <2>3. /\ f_desc_table' \in [Desc -> [fd_inode : Slot \cup {0}, fd_cnt : Nat]]
          /\ inode_table' \in [Slot -> [i_num : Inode \cup {0}, i_cnt : Nat]]
        BY <2>1, <2>2, <1>9, <1>10
    <2> QED  BY <2>3, <1>1 DEF FsInv, FsTypeOK
<1>12. FdCounts'
    <2>1. ASSUME NEW d \in Desc
          PROVE  /\ f_desc_table'[d].fd_cnt = Uses(Known, d)'
                 /\ f_desc_table'[d].fd_inode = 0 <=> f_desc_table'[d].fd_cnt = 0
        <3>1. Uses(Known, d)' = Uses(Known \cup S, d)
            BY <1>1, <1>4 DEF Uses
        <3>2. f_desc_table[d].fd_inode = 0 <=> f_desc_table[d].fd_cnt = 0
            BY DEF FsInv, CountsExact, FdCounts
        <3>3. f_desc_table[d].fd_cnt \in Nat
            BY <1>2
        <3>4. Uses(Known, d)' = f_desc_table'[d].fd_cnt
            BY <3>1, <1>7, <1>9
        <3>5. f_desc_table'[d].fd_cnt = 0 <=> f_desc_table[d].fd_cnt = 0
            BY <3>3, <1>7, <1>9
        <3> QED  BY <3>2, <3>4, <3>5, <1>9
    <2> QED  BY <2>1 DEF FdCounts
<1>13. ASSUME NEW s \in Slot
       PROVE  inode_table[s].i_cnt >= Refs(Known, s) + (IF s = First(Slot) THEN 1 ELSE 0)
    BY DEF FsInv, CountsExact, InodesHeld
<1>14. InodesHeld'
    <2>1. ASSUME NEW s \in Slot
          PROVE  inode_table'[s].i_cnt
                   >= Refs(Known, s)' + (IF s = First(Slot) THEN 1 ELSE 0)
        <3>1. Refs(Known, s)' = Refs(Known \cup S, s)
            <4>1. \A x \in Known \cup S : filp[x[1]][x[2]] \in Desc
                BY <1>2, <1>3 DEF Known, Opened, S
            <4>2. {x \in Known \cup S : f_desc_table'[filp[x[1]][x[2]]].fd_inode = s}
                    = {x \in Known \cup S : f_desc_table[filp[x[1]][x[2]]].fd_inode = s}
                BY <4>1, <1>9
            <4> QED  BY <4>2, <1>1, <1>4 DEF Refs
        <3>2. inode_table[s].i_cnt \in Nat
            BY <1>2
        <3>3. Refs(Known, s)' = Refs(Known, s) + Refs(S, s)
            BY <3>1, <1>8
        <3>4. inode_table'[s].i_cnt = inode_table[s].i_cnt + Refs(S, s)
            BY <1>10
        <3>5. Refs(S, s) \in Nat /\ Refs(Known, s) \in Nat
            BY <1>8
        <3> QED  BY <3>2, <3>3, <3>4, <3>5, <1>13
    <2> QED  BY <2>1 DEF InodesHeld
<1>15. SlotInv'
    <2>1. ASSUME NEW s \in Slot
          PROVE  /\ inode_table'[s].i_num = 0 <=> inode_table'[s].i_cnt = 0
                 /\ inode_table'[s].i_cnt > 0 => inode_table'[s].i_num \in imap
        <3>1. /\ inode_table[s].i_num = 0 <=> inode_table[s].i_cnt = 0
              /\ inode_table[s].i_cnt > 0 => inode_table[s].i_num \in imap
            BY DEF FsInv, SlotInv
        <3>2. inode_table[s].i_cnt \in Nat
            BY <1>2
        <3>3. inode_table[s].i_cnt = 0 => Refs(S, s) = 0
            BY <3>2, <1>8, <1>13
        <3> QED  BY <3>1, <3>2, <3>3, <1>8, <1>10
    <2> QED  BY <2>1, <1>1 DEF SlotInv
<1>16. OneSlotPerInode'
    BY <1>10 DEF FsInv, CountsExact, OneSlotPerInode
<1>17. ForkInv' /\ EntriesAllocated'
    BY <1>1 DEF ForkInv, FsInv, EntriesAllocated, InUse
<1>18. FilesKept
    BY <1>1, <1>9, <1>10, Held DEF FilesKept, File
<1> QED  BY <1>11, <1>12, <1>14, <1>15, <1>16, <1>17, <1>18 DEF FsInv, CountsExact

-----------------------------------------------------------------------------
(* The directory *)

\* The entries are numbered from 1, and the directory is some of the first.
LEMMA Entries ==
    ASSUME FsInv
    PROVE  /\ MaxEntries \in Nat /\ dir_size \in Nat /\ dir_size <= MaxEntries
           /\ \A i \in Entry : i \in Nat /\ 1 <= i /\ i <= MaxEntries
           /\ \A i \in 1..dir_size : i \in Entry /\ i <= dir_size
<1>1. MaxEntries \in Nat
    BY FsAssumption
<1>2. dir_size \in Nat /\ dir_size <= MaxEntries
    <2>1. dir_size \in 0..MaxEntries
        BY DEF FsInv, FsTypeOK
    <2> QED  BY <1>1, <2>1
<1> QED  BY <1>1, <1>2 DEF Entry

\* A name that is found leads to an inode that is allocated.
LEMMA Found ==
    ASSUME FsInv, ~halted, NEW name, Lookup(name) # 0
    PROVE  Lookup(name) \in imap /\ Lookup(name) \in Inode
<1> DEFINE hits == {i \in Searched : dir[i].name = name}
<1>1. hits # {} /\ Lookup(name) = dir[First(hits)].inode_nr
    BY DEF Lookup
<1>2. hits \subseteq Entry /\ Entry \subseteq Nat
    BY Entries DEF Searched
<1>3. First(hits) \in hits
    BY <1>1, <1>2, FirstIs
<1> HIDE DEF hits
<1>4. First(hits) \in InUse(MaxEntries)
    BY <1>1, <1>2, <1>3 DEF InUse, Entry
<1> QED  BY <1>1, <1>4 DEF FsInv, FsTypeOK, EntriesAllocated

LEMMA HaltInv ==
    ASSUME FsInv, Halt
    PROVE  FsInv' /\ FilesKept
<1>1. UNCHANGED <<alive, forking, child, filp, f_desc_table, inode_table, imap, dir, dir_size>>
      /\ halted' = TRUE
    BY DEF Halt, procs, table, disk
<1>2. FsTypeOK' /\ ForkInv' /\ SlotInv' /\ EntriesAllocated'
    BY <1>1 DEF FsInv, FsTypeOK, ForkInv, SlotInv, EntriesAllocated
<1>3. CountsExact'
    BY <1>1 DEF FsInv, CountsExact, FdCounts, InodesHeld, OneSlotPerInode,
                Known, Opened, Uses, Refs
<1> QED  BY <1>1, <1>2, <1>3 DEF FsInv, FilesKept, File

LEMMA OpenExistingInv ==
    ASSUME FsInv, NEW p \in Proc, NEW name \in Path, OpenExisting(p, name)
    PROVE  FsInv' /\ FilesKept
<1> DEFINE nr == Lookup(name)
<1>1. Caller(p) /\ FreeFd(p) # {} /\ FreeDesc # {} /\ nr # 0
    BY DEF OpenExisting
<1>2. nr \in imap /\ nr \in Inode
    BY <1>1, Found DEF Caller
<1>3. CASE NoSlot(nr)
    BY <1>3, HaltInv DEF OpenExisting
<1>4. CASE ~NoSlot(nr)
    <2>1. /\ Connect(p, nr) /\ inode_table' = GetInode(nr, Count(nr) + 1)
          /\ UNCHANGED procs /\ UNCHANGED <<imap, dir, dir_size, halted>>
        BY <1>4 DEF OpenExisting, disk
    <2>2. imap' \subseteq Inode /\ imap \subseteq imap' /\ nr \in imap'
        BY <1>2, <2>1 DEF FsInv, FsTypeOK
    <2> HIDE DEF nr
    <2>3. /\ filp' \in [Proc -> [Fd -> Desc \cup {0}]]
          /\ f_desc_table' \in [Desc -> [fd_inode : Slot \cup {0}, fd_cnt : Nat]]
          /\ inode_table' \in [Slot -> [i_num : Inode \cup {0}, i_cnt : Nat]]
          /\ ForkInv' /\ SlotInv' /\ CountsExact' /\ FilesKept
        BY <1>1, <1>2, <1>4, <2>1, <2>2, Connected
    <2>4. FsTypeOK' /\ EntriesAllocated'
        BY <2>1, <2>3 DEF procs, FsInv, FsTypeOK, EntriesAllocated, InUse
    <2> QED  BY <2>3, <2>4 DEF FsInv
<1> QED  BY <1>3, <1>4

LEMMA OpenCreateInv ==
    ASSUME FsInv, NEW p \in Proc, NEW name \in Path, OpenCreate(p, name)
    PROVE  FsInv' /\ FilesKept
<1> DEFINE nr == First(Inode \ imap)
<1>1. Caller(p) /\ FreeFd(p) # {} /\ FreeDesc # {} /\ ~halted
    BY DEF OpenCreate, Caller
<1>2. imap' = imap \cup {nr} /\ UNCHANGED procs
    BY DEF OpenCreate
<1>3. nr \in Inode /\ nr \notin imap /\ nr # 0
    <2>1. Inode \subseteq Nat \ {0} /\ Inode \ imap # {}
        BY FsAssumption DEF OpenCreate
    <2> QED  BY <2>1, FirstIs
<1>4. imap' \subseteq Inode /\ imap \subseteq imap' /\ nr \in imap'
    BY <1>2, <1>3 DEF FsInv, FsTypeOK
<1>5. CASE NoSlot(nr)
    <2>1. halted' /\ UNCHANGED <<filp, f_desc_table, inode_table, dir, dir_size>>
        BY <1>5 DEF OpenCreate, table
    <2>2. FsTypeOK' /\ ForkInv' /\ SlotInv' /\ EntriesAllocated'
        <3> HIDE DEF nr
        <3>1. halted' = TRUE
            BY <1>5 DEF OpenCreate, nr
        <3> QED  BY <1>2, <1>4, <2>1, <3>1
                 DEF procs, FsInv, FsTypeOK, ForkInv, SlotInv, EntriesAllocated
    <2>3. CountsExact'
        BY <1>2, <2>1 DEF procs, FsInv, CountsExact, FdCounts, InodesHeld, OneSlotPerInode,
                          Known, Opened, Uses, Refs
    <2> QED  BY <2>1, <2>2, <2>3 DEF FsInv, FilesKept, File
<1>6. CASE ~NoSlot(nr)
    <2>1. /\ inode_table' = GetInode(nr, 1) /\ NewDirEntry(nr, name) /\ Connect(p, nr)
          /\ halted' = halted
        BY <1>6 DEF OpenCreate
    <2> HIDE DEF nr
    \* The number was free, so no slot in use has it.
    <2>2. Count(nr) = 0
        <3>1. Cached(nr) = {}
            BY <1>3 DEF Cached, FsInv, SlotInv
        <3>2. FreeSlots \subseteq Nat /\ FreeSlots # {}
            BY <1>6, <3>1, FsAssumption DEF NoSlot, FreeSlots
        <3>3. GetSlot(nr) \in FreeSlots
            BY <3>1, <3>2, FirstIs DEF GetSlot
        <3> QED  BY <3>3 DEF FreeSlots, Count
    <2>3. inode_table' = GetInode(nr, Count(nr) + 1)
        BY <2>1, <2>2
    <2>4. /\ filp' \in [Proc -> [Fd -> Desc \cup {0}]]
          /\ f_desc_table' \in [Desc -> [fd_inode : Slot \cup {0}, fd_cnt : Nat]]
          /\ inode_table' \in [Slot -> [i_num : Inode \cup {0}, i_cnt : Nat]]
          /\ ForkInv' /\ SlotInv' /\ CountsExact' /\ FilesKept
        BY <1>1, <1>2, <1>3, <1>4, <1>6, <2>1, <2>3, Connected
    <2>5. /\ dir \in [Entry -> [inode_nr : Inode \cup {0}, name : Path \cup {".", ""}]]
          /\ dir_size \in 0..MaxEntries /\ Entry = 1..MaxEntries /\ MaxEntries \in Nat
        BY FsAssumption DEF FsInv, FsTypeOK, Entry
    <2>6. /\ NewEntry \in Entry
          /\ dir' = [dir EXCEPT ![NewEntry] = [inode_nr |-> nr, name |-> name]]
          /\ dir_size' = IF NewEntry > dir_size THEN NewEntry ELSE dir_size
        BY <2>1 DEF NewDirEntry
    <2>7. FsTypeOK'
        <3>1. dir' \in [Entry -> [inode_nr : Inode \cup {0}, name : Path \cup {".", ""}]]
            BY <1>3, <2>5, <2>6
        <3>2. dir_size' \in 0..MaxEntries
            <4> DEFINE n == NewEntry
            <4>1. n \in Nat /\ n <= MaxEntries /\ dir_size \in Nat /\ dir_size <= MaxEntries
                BY <2>6, Entries
            <4>2. dir_size' = n \/ dir_size' = dir_size
                BY <2>6
            <4> HIDE DEF n
            <4> QED  BY <4>1, <4>2
        <3> QED  BY <1>2, <1>4, <2>1, <2>4, <3>1, <3>2 DEF procs, FsInv, FsTypeOK
    <2>8. EntriesAllocated'
        <3>1. \A i \in Entry : dir'[i] = IF i = NewEntry THEN [inode_nr |-> nr, name |-> name]
                                         ELSE dir[i]
            BY <2>5, <2>6
        <3>2. InUse(MaxEntries)' = InUse(MaxEntries) \cup {NewEntry}
            BY <1>3, <2>5, <2>6, <3>1 DEF InUse
        <3>3. ASSUME NEW i \in InUse(MaxEntries)
              PROVE  /\ dir[i].inode_nr \in imap /\ i \in Entry
                     /\ \A j \in InUse(MaxEntries) : dir[i].inode_nr = dir[j].inode_nr => i = j
            BY <1>1, <2>5 DEF FsInv, EntriesAllocated, InUse
        <3>4. dir'[NewEntry].inode_nr = nr
            BY <2>6, <3>1
        <3>5. ASSUME NEW i \in InUse(MaxEntries)', NEW j \in InUse(MaxEntries)',
                     dir'[i].inode_nr = dir'[j].inode_nr
              PROVE  i = j
            BY <1>3, <3>1, <3>2, <3>3, <3>4, <3>5
        <3>6. \A i \in InUse(MaxEntries)' : dir'[i].inode_nr \in imap'
            BY <1>2, <3>1, <3>2, <3>3, <3>4
        <3> QED  BY <3>5, <3>6 DEF EntriesAllocated
    <2> QED  BY <2>4, <2>7, <2>8 DEF FsInv
<1> QED  BY <1>5, <1>6

-----------------------------------------------------------------------------
(* unlink *)

LEMMA UnlinkRefusedInv ==
    ASSUME FsInv, NEW nr \in imap, ~NoSlot(nr), UnlinkRefused(nr)
    PROVE  FsInv' /\ FilesKept
<1>1. /\ inode_table' = GetInode(nr, Count(nr) + 1)
      /\ UNCHANGED <<alive, forking, child, filp, f_desc_table, imap, dir, dir_size, halted>>
    BY DEF UnlinkRefused, procs, disk
<1>2. nr \in Inode /\ imap' \subseteq Inode /\ imap \subseteq imap' /\ nr \in imap'
    BY <1>1 DEF FsInv, FsTypeOK
<1>3. /\ inode_table' \in [Slot -> [i_num : Inode \cup {0}, i_cnt : Nat]]
      /\ SlotInv' /\ OneSlotPerInode'
      /\ \A s \in Slot :
            /\ inode_table'[s].i_cnt
                 = inode_table[s].i_cnt + (IF s = GetSlot(nr) THEN 1 ELSE 0)
            /\ inode_table[s].i_cnt > 0 => inode_table'[s].i_num = inode_table[s].i_num
    BY <1>1, <1>2, GetInodeRaises
<1>4. FsTypeOK' /\ ForkInv' /\ EntriesAllocated'
    BY <1>1, <1>3 DEF FsInv, FsTypeOK, ForkInv, EntriesAllocated, InUse
<1>5. Known' = Known /\ FdCounts'
    BY <1>1 DEF FsInv, CountsExact, FdCounts, Known, Opened, Uses
<1>6. InodesHeld'
    <2>1. ASSUME NEW s \in Slot
          PROVE  inode_table'[s].i_cnt
                   >= Refs(Known, s)' + (IF s = First(Slot) THEN 1 ELSE 0)
        <3>1. Refs(Known, s)' = Refs(Known, s)
            BY <1>1, <1>5 DEF Refs
        <3>2. inode_table[s].i_cnt >= Refs(Known, s) + (IF s = First(Slot) THEN 1 ELSE 0)
            BY DEF FsInv, CountsExact, InodesHeld
        <3>3. Refs(Known, s) \in Nat
            <4>1. IsFiniteSet({}) /\ Known \cap {} = {} /\ IsFiniteSet(Known)
                BY KnownFinite, FS_EmptySet
            <4> QED  BY <4>1, RefsAdd
        <3>4. inode_table[s].i_cnt \in Nat
            BY DEF FsInv, FsTypeOK
        <3> QED  BY <3>1, <3>2, <3>3, <3>4, <1>3
    <2> QED  BY <2>1 DEF InodesHeld
<1>7. FilesKept
    BY <1>1, <1>3, Held DEF FilesKept, File
<1> QED  BY <1>3, <1>4, <1>5, <1>6, <1>7 DEF FsInv, CountsExact

\* What is removed has no slot, so nobody has it open, and just one entry.
LEMMA UnlinkDoneInv ==
    ASSUME FsInv, ~halted, NEW nr \in imap, ~NoSlot(nr), UnlinkDone(nr)
    PROVE  FsInv' /\ FilesKept
<1> DEFINE hits == {i \in 1..dir_size : dir[i].inode_nr = nr}
<1>1. /\ imap' = imap \ {nr} /\ Count(nr) = 0
      /\ UNCHANGED <<alive, forking, child, filp, f_desc_table, inode_table>>
    BY DEF UnlinkDone, Removable, procs, table
<1>2. /\ inode_table \in [Slot -> [i_num : Inode \cup {0}, i_cnt : Nat]]
      /\ nr \in Inode /\ Slot \subseteq Nat
    BY FsAssumption DEF FsInv, FsTypeOK
<1>3. \A s \in Slot : inode_table[s].i_cnt > 0 => inode_table[s].i_num # nr
    <2>1. SUFFICES ASSUME Cached(nr) # {} PROVE FALSE
        BY <1>2 DEF Cached
    <2>2. Cached(nr) \subseteq Nat
        BY <1>2 DEF Cached
    <2>3. GetSlot(nr) \in Cached(nr)
        BY <2>1, <2>2, FirstIs DEF GetSlot
    <2> QED  BY <2>3, <1>1, <1>2 DEF Cached, Count
<1>4. SlotInv'
    BY <1>1, <1>3 DEF FsInv, SlotInv
<1>5. ForkInv'
    BY <1>1 DEF FsInv, ForkInv
<1>6. CountsExact'
    BY <1>1 DEF FsInv, CountsExact, FdCounts, InodesHeld, OneSlotPerInode,
                Known, Opened, Uses, Refs
<1>7. FilesKept
    BY <1>1 DEF FilesKept, File
<1>8. FsTypeOK' /\ EntriesAllocated'
    <2>1. CASE hits = {}
        <3>1. halted' = TRUE /\ UNCHANGED <<dir, dir_size>>
            BY <2>1 DEF UnlinkDone
        <3> QED  BY <1>1, <3>1 DEF FsInv, FsTypeOK, EntriesAllocated
    <2>2. CASE hits # {}
        <3> DEFINE i0 == First(hits)
        <3>1. ClearEntry(i0) /\ halted' = halted
            BY <2>2 DEF UnlinkDone
        <3>2. /\ dir \in [Entry -> [inode_nr : Inode \cup {0}, name : Path \cup {".", ""}]]
              /\ dir_size \in 0..MaxEntries /\ Entry = 1..MaxEntries /\ MaxEntries \in Nat
            BY FsAssumption DEF FsInv, FsTypeOK, Entry
        <3>3. i0 \in hits
            <4>1. hits \subseteq Nat
                BY Entries
            <4> QED  BY <2>2, <4>1, FirstIs
        <3>4. i0 \in Entry /\ dir[i0].inode_nr = nr /\ i0 <= dir_size
            BY <3>3, Entries
        <3> HIDE DEF hits, i0
        <3>5. /\ dir' = [dir EXCEPT ![i0] = Blank]
              /\ dir_size' = IF i0 = dir_size THEN Cardinality(InUse(i0 - 1)) ELSE dir_size
            BY <3>1 DEF ClearEntry
        <3>6. dir_size' \in 0..MaxEntries
            <4>1. /\ IsFiniteSet(1..(i0 - 1)) /\ Cardinality(1..(i0 - 1)) <= i0 - 1
                  /\ i0 - 1 \in Nat
                <5>1. i0 \in Nat /\ i0 >= 1
                    BY <3>4, Entries
                <5>2. 1 \in Int /\ i0 - 1 \in Int
                    BY <5>1
                <5>3. /\ IsFiniteSet(1..(i0 - 1))
                      /\ Cardinality(1..(i0 - 1)) = IF 1 > i0 - 1 THEN 0 ELSE (i0 - 1) - 1 + 1
                    BY <5>2, FS_Interval
                <5> QED  BY <5>1, <5>3
            <4>2. InUse(i0 - 1) \subseteq 1..(i0 - 1)
                BY DEF InUse
            <4>3. /\ Cardinality(InUse(i0 - 1)) \in Nat
                  /\ Cardinality(InUse(i0 - 1)) <= Cardinality(1..(i0 - 1))
                  /\ Cardinality(1..(i0 - 1)) \in Nat
                BY <4>1, <4>2, FS_Subset, FS_CardinalityType
            <4>4. i0 - 1 <= MaxEntries /\ MaxEntries \in Nat
                BY <3>4, Entries
            <4> HIDE DEF i0
            <4>5. Cardinality(InUse(i0 - 1)) \in 0..MaxEntries
                BY <4>1, <4>3, <4>4
            <4> QED  BY <3>2, <3>5, <4>5
        <3>7. FsTypeOK'
            <4>1. dir' \in [Entry -> [inode_nr : Inode \cup {0}, name : Path \cup {".", ""}]]
                BY <3>2, <3>5 DEF Blank
            <4> QED  BY <1>1, <3>1, <3>6, <4>1 DEF FsInv, FsTypeOK
        <3>8. \A i \in Entry : dir'[i] = IF i = i0 THEN Blank ELSE dir[i]
            BY <3>2, <3>4, <3>5
        <3>9. InUse(MaxEntries)' = InUse(MaxEntries) \ {i0} /\ i0 \in InUse(MaxEntries)
            <4>1. nr # 0
                BY <1>2, FsAssumption
            <4>2. InUse(MaxEntries) = {i \in Entry : dir[i].inode_nr # 0}
                BY DEF InUse, Entry
            <4>3. InUse(MaxEntries)' = {i \in Entry : dir'[i].inode_nr # 0}
                BY DEF InUse, Entry
            <4>4. /\ dir'[i0].inode_nr = 0
                  /\ \A i \in Entry : i # i0 => dir'[i].inode_nr = dir[i].inode_nr
                <5>1. dir'[i0] = Blank /\ \A i \in Entry : i # i0 => dir'[i] = dir[i]
                    BY <3>4, <3>8
                <5>2. Blank.inode_nr = 0
                    BY DEF Blank
                <5> QED  BY <5>1, <5>2
            <4> QED  BY <4>1, <4>2, <4>3, <4>4, <3>4
        <3>10. ASSUME NEW i \in InUse(MaxEntries)
               PROVE  /\ dir[i].inode_nr \in imap /\ i \in Entry
                      /\ \A j \in InUse(MaxEntries) : dir[i].inode_nr = dir[j].inode_nr => i = j
            BY <3>2 DEF FsInv, EntriesAllocated, InUse
        <3>11. EntriesAllocated'
            BY <1>1, <3>4, <3>8, <3>9, <3>10 DEF EntriesAllocated
        <3> QED  BY <3>7, <3>11
    <2> QED  BY <2>1, <2>2
<1> QED  BY <1>4, <1>5, <1>6, <1>7, <1>8 DEF FsInv

LEMMA UnlinkInv ==
    ASSUME FsInv, NEW p \in Proc, NEW name \in Path, Unlink(p, name)
    PROVE  FsInv' /\ FilesKept
<1> DEFINE nr == Lookup(name)
<1>1. ~halted /\ nr # 0
    BY DEF Unlink, Caller
<1>2. nr \in imap
    BY <1>1, Found
<1>3. CASE NoSlot(nr)
    BY <1>3, HaltInv DEF Unlink
<1>4. CASE ~NoSlot(nr)
    <2>1. UnlinkRefused(nr) \/ UnlinkDone(nr)
        BY <1>4 DEF Unlink
    <2> HIDE DEF nr
    <2> QED  BY <1>1, <1>2, <1>4, <2>1, UnlinkRefusedInv, UnlinkDoneInv
<1> QED  BY <1>3, <1>4

-----------------------------------------------------------------------------
(* The theorems *)

LEMMA FsInitial ==
    ASSUME Init
    PROVE  FsInv
<1> DEFINE s0 == First(Slot)
<1>1. /\ Slot \subseteq Nat \ {0} /\ Slot # {} /\ DOMAIN Special = {1, 2}
      /\ {1, 2} \subseteq Inode /\ InitProc \in Proc /\ MaxEntries \in Nat
      /\ 0 \notin Proc
    BY FsAssumption DEF Special, ROOT_INODE
<1>2. s0 \in Slot
    BY <1>1, FirstIs
<1>3. Cardinality(DOMAIN Special) = 2 /\ 2 <= MaxEntries
    <2>1. Cardinality(1..2) = IF 1 > 2 THEN 0 ELSE 2 - 1 + 1
        BY FS_Interval, 1 \in Int, 2 \in Int
    <2>2. DOMAIN Special = 1..2
        BY <1>1
    <2>3. Cardinality(DOMAIN Special) = 2
        BY <2>1, <2>2
    <2> QED  BY <2>3, FsAssumption
<1>4. /\ alive = {InitProc} /\ forking = 0 /\ child = 0 /\ halted = FALSE
      /\ filp = [p \in Proc |-> [fd \in Fd |-> 0]]
      /\ f_desc_table = [d \in Desc |-> [fd_inode |-> 0, fd_cnt |-> 0]]
      /\ inode_table = [s \in Slot |-> IF s = s0
                                       THEN [i_num |-> 1, i_cnt |-> 1]
                                       ELSE [i_num |-> 0, i_cnt |-> 0]]
      /\ imap = {1, 2} /\ dir_size = 2
    BY <1>1, <1>3 DEF Init, ROOT_INODE
<1> HIDE DEF s0
<1>5. /\ inode_table[s0].i_num = 1 /\ inode_table[s0].i_cnt = 1
      /\ \A s \in Slot \ {s0} : inode_table[s].i_num = 0 /\ inode_table[s].i_cnt = 0
    BY <1>2, <1>4
<1>6. /\ \A i \in Entry \cap {1, 2} : dir[i] = [inode_nr |-> i, name |-> Special[i]]
      /\ \A i \in Entry \ {1, 2} : dir[i] = Blank
    BY <1>1 DEF Init
<1>7. FsTypeOK
    <2>1. dir \in [Entry -> [inode_nr : Inode \cup {0}, name : Path \cup {".", ""}]]
        <3> DEFINE N == Path \cup {".", ""}
        <3>1. dir = [i \in Entry |-> dir[i]]
            BY DEF Init
        <3>2. Special[1] = "." /\ Special[2] = "dev_tty0"
            BY DEF Special, ROOT_INODE
        <3>3. ASSUME NEW i \in Entry
              PROVE  dir[i] \in [inode_nr : Inode \cup {0}, name : Path \cup {".", ""}]
            <4>1. CASE i \in {1, 2}
                <5>1. dir[i] = [inode_nr |-> i, name |-> Special[i]]
                    BY <4>1, <1>6
                <5>2. i \in Inode /\ Special[i] \in N
                    BY <4>1, <1>1, <3>2 DEF Path
                <5> HIDE DEF N
                <5>3. dir[i] \in [inode_nr : Inode \cup {0}, name : N]
                    BY <5>1, <5>2
                <5> QED  BY <5>3 DEF N
            <4>2. CASE i \notin {1, 2}
                <5> DEFINE empty == ""
                <5>1. dir[i] = [inode_nr |-> 0, name |-> empty] /\ empty \in N
                    BY <4>2, <1>6 DEF Blank
                <5> HIDE DEF N, empty
                <5>2. dir[i] \in [inode_nr : Inode \cup {0}, name : N]
                    BY <5>1
                <5> QED  BY <5>2 DEF N
            <4> QED  BY <4>1, <4>2
        <3> QED  BY <3>1, <3>3
    <2>2. inode_table \in [Slot -> [i_num : Inode \cup {0}, i_cnt : Nat]]
        BY <1>1, <1>4
    <2>3. f_desc_table \in [Desc -> [fd_inode : Slot \cup {0}, fd_cnt : Nat]]
        BY <1>4
    <2>4. filp \in [Proc -> [Fd -> Desc \cup {0}]]
        BY <1>4
    <2>5. dir_size \in 0..MaxEntries
        BY <1>1, <1>3, <1>4
    <2> QED  BY <2>1, <2>2, <2>3, <2>4, <2>5, <1>1, <1>4 DEF FsTypeOK
<1>8. ForkInv
    BY <1>4 DEF ForkInv
<1>9. SlotInv
    BY <1>4, <1>5 DEF SlotInv
<1>10. Known = {}
    BY <1>1, <1>4 DEF Known, Opened
<1>11. \A x : Uses(Known, x) = 0 /\ Refs(Known, x) = 0
    BY <1>10, FS_EmptySet DEF Uses, Refs
<1>12. FdCounts
    BY <1>4, <1>11 DEF FdCounts
<1>13. InodesHeld
    <2>1. ASSUME NEW s \in Slot
          PROVE  inode_table[s].i_cnt >= Refs(Known, s) + (IF s = s0 THEN 1 ELSE 0)
        BY <1>5, <1>11
    <2> QED  BY <2>1 DEF InodesHeld, s0
<1>14. OneSlotPerInode
    BY <1>5 DEF OneSlotPerInode
<1>15. EntriesAllocated
    <2>1. \A i \in InUse(MaxEntries) : i \in Entry /\ dir[i].inode_nr # 0
        BY DEF InUse, Entry
    <2>2. ASSUME NEW i \in InUse(MaxEntries)
          PROVE  i \in {1, 2} /\ dir[i].inode_nr = i
        <3>1. Blank.inode_nr = 0
            BY DEF Blank
        <3>2. i \in {1, 2}
            BY <2>1, <3>1, <1>6
        <3>3. dir[i] = [inode_nr |-> i, name |-> Special[i]]
            BY <2>1, <3>2, <1>6
        <3> QED  BY <3>2, <3>3
    <2> QED  BY <2>1, <2>2, <1>4 DEF EntriesAllocated
<1> QED  BY <1>7, <1>8, <1>9, <1>12, <1>13, <1>14, <1>15 DEF FsInv, CountsExact

LEMMA FsStep ==
    ASSUME FsInv, [Next]_vars
    PROVE  FsInv' /\ FilesKept
<1>1. CASE UNCHANGED vars
    <2>1. UNCHANGED <<alive, forking, child, filp, f_desc_table, inode_table,
                      imap, dir, dir_size, halted>>
        BY <1>1 DEF vars, procs, table, disk
    <2>2. FsTypeOK' /\ ForkInv' /\ SlotInv' /\ EntriesAllocated'
        BY <2>1 DEF FsInv, FsTypeOK, ForkInv, SlotInv, EntriesAllocated, InUse
    <2>3. CountsExact'
        BY <2>1 DEF FsInv, CountsExact, FdCounts, InodesHeld, OneSlotPerInode,
                    Known, Opened, Uses, Refs
    <2> QED  BY <2>1, <2>2, <2>3 DEF FsInv, FilesKept, File
<1>2. ASSUME NEW p \in Proc, OpenPanic(p) PROVE FsInv' /\ FilesKept
    BY <1>2, HaltInv DEF OpenPanic
<1>3. ASSUME NEW p \in Proc, FsExit(p) PROVE FsInv' /\ FilesKept
    BY <1>3, ExitInv
<1>4. ASSUME NEW p \in Proc, NEW name \in Path, Open(p, name) PROVE FsInv' /\ FilesKept
    BY <1>4, OpenExistingInv, OpenCreateInv DEF Open
<1>5. ASSUME NEW p \in Proc, NEW name \in Path, Stat(p, name) PROVE FsInv' /\ FilesKept
    BY <1>5, HaltInv DEF Stat
<1>6. ASSUME NEW p \in Proc, NEW name \in Path, Unlink(p, name) PROVE FsInv' /\ FilesKept
    BY <1>6, UnlinkInv
<1>7. ASSUME NEW p \in Proc, NEW fd \in Fd, Close(p, fd) PROVE FsInv' /\ FilesKept
    BY <1>7, CloseInv
<1>8. ASSUME NEW p \in Proc, NEW new \in Proc, Duplicate(p, new) PROVE FsInv' /\ FilesKept
    BY <1>8, DuplicateInv
<1>9. ASSUME FsFork PROVE FsInv' /\ FilesKept
    BY <1>9, FsForkInv
<1> QED  BY <1>1, <1>2, <1>3, <1>4, <1>5, <1>6, <1>7, <1>8, <1>9 DEF Next

\* In every reachable state of FS, with any tables and any processes, the
\* invariant holds on which the theorems below rest (fs/open.c, fs/link.c,
\* fs/main.c, fs/misc.c).
THEOREM FsInvariance == Spec => []FsInv
<1>1. Init => FsInv
    BY FsInitial
<1>2. FsInv /\ [Next]_vars => FsInv'
    BY FsStep
<1> QED  BY <1>1, <1>2, PTL DEF Spec

\* fd_cnt is always the number of entries of filp[] that FS knows of, a
\* descriptor is free just when it is 0, and i_cnt covers every reference to a
\* slot, which alone holds its inode: through fs_fork, fs_exit, do_open and
\* do_close in every order (fs/main.c, fs/misc.c, fs/open.c).
THEOREM CountsAreExact == Spec => []CountsExact
<1>1. FsInv => CountsExact
    BY DEF FsInv
<1> QED  BY <1>1, FsInvariance, PTL

\* The inode map marks every inode in use: those that a directory entry names,
\* each by just one, and those of open files, even of a child that MM has
\* copied and FS not yet counted (do_unlink and create_file, fs/link.c and
\* fs/open.c).
THEOREM InodesAreAllocated == Spec => []InodesAllocated
<1>1. FsInv => InodesAllocated
    <2>1. ASSUME FsInv, NEW x \in Opened(alive)
          PROVE  LET s == f_desc_table[filp[x[1]][x[2]]].fd_inode
                 IN  s # 0 /\ inode_table[s].i_num \in imap
        <3>1. PICK p \in alive, fd \in Fd : x = <<p, fd>> /\ filp[p][fd] # 0
            BY DEF Opened
        <3>2. Slot \subseteq Nat \ {0}
            BY FsAssumption
        <3> QED  BY <2>1, <3>1, <3>2, Held
    <2> QED  BY <2>1 DEF FsInv, InodesAllocated, OpenFilesExist
<1> QED  BY <1>1, FsInvariance, PTL

\* No call of any process, and no fork or exit, makes a descriptor that stays
\* open refer to another file.
THEOREM FilesStaySame == Spec => SameFile
<1>1. FsInv /\ [Next]_vars => [FilesKept]_vars
    BY FsStep
<1> QED  BY <1>1, FsInvariance, PTL DEF Spec, SameFile
=============================================================================
