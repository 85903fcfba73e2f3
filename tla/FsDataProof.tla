---------------------------- MODULE FsDataProof ----------------------------
(***************************************************************************)
(* Proofs about FsData, for any layout of the disk and any sizes of        *)
(* sectors, buffers and calls: no WRITE goes more than one sector beyond   *)
(* its file, and, as long as the files fit before the log, the sector map  *)
(* is exact and the bytes of a file are its own.                           *)
(***************************************************************************)
EXTENDS FsData, FiniteSetTheorems, WellFoundedInduction, TLAPS

LEMMA Constants ==
    /\ SECTOR_SIZE \in Nat \ {0} /\ BYTE \in Nat \ {0} /\ NR_FILE_SECTS \in Nat \ {0}
    /\ INSTALL_NR_SECTS \in Nat \ {0} /\ n_1st_sect \in Nat \ {0}
    /\ FSBUF_SECTS \in Nat \ {0} /\ MaxLen \in Nat \ {0}
    /\ INSTALL_START \in Nat /\ INSTALL_START >= NR_FILE_SECTS
    /\ NrSects \in Nat /\ NrBits \in Nat /\ NrBits > NrSects + n_1st_sect
    /\ LogStart \in Int /\ LogStart = NrSects - NR_FILE_SECTS
    /\ INSTALL_START + INSTALL_NR_SECTS < LogStart
    /\ MaxLen <= FSBUF_SECTS * SECTOR_SIZE
<1>1. \A c \in {SECTOR_SIZE, BYTE, NR_FILE_SECTS, INSTALL_NR_SECTS,
                 n_1st_sect, FSBUF_SECTS, MaxLen, MaxMoves} : c \in Nat \ {0}
    BY FsDataAssumption
<1>2. /\ SECTOR_SIZE \in Nat \ {0} /\ BYTE \in Nat \ {0} /\ NR_FILE_SECTS \in Nat \ {0}
      /\ INSTALL_NR_SECTS \in Nat \ {0} /\ n_1st_sect \in Nat \ {0}
      /\ FSBUF_SECTS \in Nat \ {0} /\ MaxLen \in Nat \ {0}
    BY <1>1
<1> QED
    BY <1>2, FsDataAssumption DEF LogStart

LEMMA Names ==
    /\ CmdTar \notin File /\ Root \notin Regular /\ Junk \notin Regular
    /\ Log \notin Regular /\ "none" \notin Regular /\ "none" # Root
    /\ Regular = File \cup {CmdTar}
BY FsDataAssumption DEF CmdTar, Root, Junk, Log, Regular

-----------------------------------------------------------------------------
(* Sectors, bytes and the arithmetic of loops over them *)

LEMMA DivMod ==
    ASSUME NEW a \in Int, NEW b \in Nat \ {0}
    PROVE  /\ a \div b \in Int /\ a % b \in 0..(b - 1)
           /\ a = (b * (a \div b)) + (a % b)
           /\ a \in Nat => a \div b \in Nat
OBVIOUS

\* Quotients are where their multiples are.
LEMMA Quotient ==
    ASSUME NEW a \in Int, NEW b \in Nat \ {0}, NEW q \in Int
    PROVE  /\ q <= a \div b <=> q * b <= a
           /\ a \div b < q <=> a < q * b
<1> DEFINE d == a \div b
           r == a % b
<1>1. d \in Int /\ r \in 0..(b - 1) /\ a = b * d + r
    BY DivMod
<1> HIDE DEF d, r
<1>2. ASSUME q <= d PROVE q * b <= a
    <2>1. q * b <= d * b
        BY <1>1, <1>2
    <2> QED  BY <1>1, <2>1
<1>3. ASSUME d < q PROVE a < q * b
    <2>1. (d + 1) * b <= q * b
        BY <1>1, <1>3
    <2>2. (d + 1) * b = d * b + b
        BY <1>1
    <2> QED  BY <1>1, <2>1, <2>2
<1>4. q * b \in Int
    OBVIOUS
<1> QED
    BY <1>1, <1>2, <1>3, <1>4 DEF d

\* A byte is in the sectors from st on, n of them, if its sector is.
LEMMA InSectors ==
    ASSUME NEW a \in Int, NEW st \in Int, NEW n \in Int
    PROVE  a \div SECTOR_SIZE \in st..(st + n - 1)
              <=> st * SECTOR_SIZE <= a /\ a < (st + n) * SECTOR_SIZE
<1>1. /\ st <= a \div SECTOR_SIZE <=> st * SECTOR_SIZE <= a
      /\ a \div SECTOR_SIZE < st + n <=> a < (st + n) * SECTOR_SIZE
    BY Constants, Quotient
<1>2. a \div SECTOR_SIZE \in Int
    BY Constants, DivMod
<1> QED
    BY <1>1, <1>2

LEMMA Product ==
    ASSUME NEW a \in Nat, NEW b \in Nat
    PROVE  a * b \in Nat
OBVIOUS

(* Clearing the bits in the first byte, in whole bytes and in the last one *)
(* clears all of them and no other.                                        *)
LEMMA ReleasedIs ==
    ASSUME NEW bit \in Nat, NEW n \in Nat \ {0}
    PROVE  Released(bit, n) = bit..(bit + n - 1)
<1> DEFINE upto  == ((bit \div BYTE) + 1) * BYTE
           first == bit..(Less(bit + n, upto) - 1)
           bytes == (n - (BYTE - (bit % BYTE))) \div BYTE
           whole == upto..(upto + bytes * BYTE - 1)
           left  == n - Cardinality(first) - Cardinality(whole)
           rest  == upto + Cardinality(whole)
<1>1. BYTE \in Nat \ {0}
    BY Constants
<1>2. upto \in Nat /\ bit < upto /\ BYTE - (bit % BYTE) = upto - bit
    <2> DEFINE q == bit \div BYTE
    <2>1. q \in Nat /\ bit % BYTE \in 0..(BYTE - 1) /\ bit = BYTE * q + (bit % BYTE)
        <3>1. bit \in Int
            OBVIOUS
        <3> QED  BY <1>1, <3>1, DivMod
    <2>2. (q + 1) * BYTE = BYTE * q + BYTE /\ BYTE * q \in Nat
        BY <1>1, <2>1
    <2> HIDE DEF q
    <2>3. (q + 1) * BYTE \in Nat /\ bit < (q + 1) * BYTE /\ BYTE - (bit % BYTE) = (q + 1) * BYTE - bit
        BY <1>1, <2>1, <2>2
    <2> QED  BY <2>3 DEF q
<1>3. /\ bytes \in Int
      /\ 0 <= bytes <=> upto <= bit + n
      /\ bytes * BYTE <= bit + n - upto
      /\ bytes * BYTE \in Int
    <2> DEFINE k == n - (BYTE - (bit % BYTE))
    <2>1. k = bit + n - upto /\ k \in Int
        BY <1>2
    <2> HIDE DEF k
    <2>2. k \div BYTE \in Int /\ (0 <= k \div BYTE <=> 0 * BYTE <= k)
        <3>1. 0 \in Int
            OBVIOUS
        <3> QED  BY <1>1, <2>1, <3>1, DivMod, Quotient
    <2>3. (k \div BYTE) * BYTE <= k
        BY <1>1, <2>1, <2>2, Quotient
    <2>4. (k \div BYTE) * BYTE \in Int /\ 0 * BYTE = 0
        BY <1>1, <2>2
    <2> HIDE DEF upto
    <2>5. /\ k \div BYTE \in Int
          /\ 0 <= k \div BYTE <=> upto <= bit + n
          /\ (k \div BYTE) * BYTE <= bit + n - upto
        BY <1>2, <2>1, <2>2, <2>3, <2>4
    <2> QED  BY <2>4, <2>5 DEF k
<1>4. Released(bit, n) = first \cup whole \cup rest..(rest + left - 1)
    BY DEF Released
<1> HIDE DEF upto, bytes
<1>5. CASE bit + n < upto
    <2>1. Less(bit + n, upto) = bit + n
        BY <1>2, <1>5 DEF Less
    <2>2. first = bit..(bit + n - 1) /\ Cardinality(first) = n
        <3>1. first = bit..(bit + n - 1)
            BY <2>1
        <3>2. Cardinality(bit..(bit + n - 1)) = n
            BY FS_Interval
        <3> QED  BY <3>1, <3>2
    <2>3. whole = {} /\ Cardinality(whole) = 0
        <3>1. bytes * BYTE < 0
            BY <1>2, <1>3, <1>5
        <3>2. whole = {}
            BY <1>2, <1>3, <3>1
        <3> QED  BY <3>2, FS_EmptySet
    <2> HIDE DEF first, whole
    <2>4. rest..(rest + left - 1) = {}
        BY <1>2, <2>2, <2>3
    <2> QED  BY <1>4, <2>2, <2>3, <2>4
<1>6. CASE upto <= bit + n
    <2>1. Less(bit + n, upto) = upto
        BY <1>2, <1>6 DEF Less
    <2>2. first = bit..(upto - 1) /\ Cardinality(first) = upto - bit
        <3>1. first = bit..(upto - 1)
            BY <2>1
        <3>2. Cardinality(bit..(upto - 1)) = upto - bit
            BY <1>2, FS_Interval
        <3> QED  BY <3>1, <3>2
    <2>3. 0 <= bytes * BYTE
        BY <1>1, <1>3, <1>6
    <2> DEFINE w == bytes * BYTE
    <2>4. w \in Nat /\ w <= bit + n - upto
        BY <1>3, <2>3
    <2>5. Cardinality(whole) = w /\ whole = upto..(upto + w - 1)
        <3> HIDE DEF w
        <3>1. upto \in Int /\ upto + w - 1 \in Int
            BY <1>2, <2>4
        <3>2. Cardinality(upto..(upto + w - 1)) = w
            BY <1>2, <2>4, <3>1, FS_Interval
        <3> QED  BY <3>2 DEF w
    <2> HIDE DEF first, whole, w
    <2>6. rest..(rest + left - 1) = (upto + w)..(bit + n - 1)
        BY <1>2, <2>2, <2>4, <2>5
    <2> QED  BY <1>2, <1>4, <2>2, <2>4, <2>5, <2>6
<1> QED
    BY <1>2, <1>5, <1>6

\* The loop of do_rdwt moves at most what is asked for.  If its buffer has
\* room for the sectors to be touched, it ends with the last of them.
LEMMA MovedIs ==
    ASSUME NEW pos \in Nat, NEW pos_end \in Nat, NEW left \in Nat
    PROVE  LET p == pos \div SECTOR_SIZE
               e == pos_end \div SECTOR_SIZE
               n == Moved(pos, pos_end, left)
           IN  /\ n \in 0..left
               /\ e < p => n = 0
               /\ p <= e /\ e - p + 1 <= FSBUF_SECTS => pos + n <= (e + 1) * SECTOR_SIZE
<1> DEFINE p == pos \div SECTOR_SIZE
           e == pos_end \div SECTOR_SIZE
           r == pos % SECTOR_SIZE
           n == Moved(pos, pos_end, left)
           sects == e - p + 1
           chunk == Less(sects, FSBUF_SECTS)
           turns == (sects + chunk - 1) \div chunk
           reach == (turns * chunk * SECTOR_SIZE) - r
           Goal  == /\ n \in 0..left
                    /\ e < p => n = 0
                    /\ p <= e /\ e - p + 1 <= FSBUF_SECTS
                          => pos + n <= (e + 1) * SECTOR_SIZE
<1>1. /\ p \in Nat /\ r \in 0..(SECTOR_SIZE - 1) /\ pos = SECTOR_SIZE * p + r
      /\ e \in Nat /\ SECTOR_SIZE \in Nat \ {0} /\ FSBUF_SECTS \in Nat \ {0}
    <2>1. pos \in Int /\ pos_end \in Int
        OBVIOUS
    <2> QED  BY <2>1, Constants, DivMod
<1>2. n = IF sects <= 0 THEN 0 ELSE Less(left, reach)
    BY DEF Moved
<1> HIDE DEF p, e, r, n
<1>3. ASSUME e < p PROVE Goal
    BY <1>1, <1>2, <1>3
<1>4. ASSUME p <= e PROVE Goal
    <2>1. sects \in Nat \ {0} /\ chunk \in Nat \ {0}
        BY <1>1, <1>4 DEF Less
    <2> HIDE DEF chunk
    <2>2. turns \in Int /\ 1 <= turns
        <3> DEFINE x == sects + chunk - 1
        <3>1. x \in Int /\ 1 * chunk <= x
            BY <2>1
        <3> HIDE DEF x
        <3>2. x \div chunk \in Int /\ 1 <= x \div chunk
            <4>1. 1 \in Int
                OBVIOUS
            <4> QED  BY <2>1, <3>1, <4>1, DivMod, Quotient
        <3> QED  BY <3>2 DEF x
    <2> HIDE DEF turns
    <2>3. turns * chunk \in Nat /\ 1 <= turns * chunk
        BY <2>1, <2>2
    <2>4. turns * chunk * SECTOR_SIZE \in Nat /\ SECTOR_SIZE <= turns * chunk * SECTOR_SIZE
        <3> DEFINE k == turns * chunk
        <3> HIDE DEF k
        <3>1. ASSUME k \in Nat, 1 <= k
              PROVE  k * SECTOR_SIZE \in Nat /\ SECTOR_SIZE <= k * SECTOR_SIZE
            BY <1>1, <3>1
        <3> QED  BY <2>3, <3>1 DEF k
    <2>5. reach \in Nat
        BY <1>1, <2>4
    <2>6. n \in 0..left /\ n <= reach
        <3> HIDE DEF reach
        <3> QED  BY <1>1, <1>2, <1>4, <2>5 DEF Less
    <2>7. ASSUME sects <= FSBUF_SECTS PROVE pos + n <= (e + 1) * SECTOR_SIZE
        <3>1. chunk = sects
            BY <1>1, <2>7 DEF chunk, Less
        <3>2. turns = 1
            <4> DEFINE x == sects + chunk - 1
            <4>1. x \in Int /\ x < 2 * chunk
                BY <2>1, <3>1
            <4> HIDE DEF x
            <4>2. x \div chunk < 2
                <5>1. 2 \in Int
                    OBVIOUS
                <5> QED  BY <2>1, <4>1, <5>1, Quotient
            <4>3. turns < 2
                BY <4>2 DEF turns, x
            <4> QED  BY <2>2, <4>3
        <3>3. reach = (sects * SECTOR_SIZE) - r
            <4>1. turns * chunk = sects
                BY <2>1, <3>1, <3>2
            <4> QED  BY <4>1
        <3>4. (e + 1) * SECTOR_SIZE = SECTOR_SIZE * p + sects * SECTOR_SIZE
            BY <1>1
        <3>5. sects * SECTOR_SIZE \in Nat /\ SECTOR_SIZE * p \in Nat
            BY <1>1, <2>1, Product
        <3> HIDE DEF sects, reach
        <3> QED  BY <1>1, <2>6, <3>3, <3>4, <3>5
    <2> QED  BY <1>1, <1>4, <2>6, <2>7
<1> QED
    BY <1>1, <1>3, <1>4 DEF p, e, n

\* A WRITE in or just behind a file of nr sectors ends one sector behind it
\* at the latest.
LEMMA WriteBound ==
    ASSUME NEW nr \in Nat, NEW pos \in Nat, NEW len \in 1..MaxLen,
           pos <= nr * SECTOR_SIZE + SECTOR_SIZE
    PROVE  LET n == Moved(pos, Less(pos + len, nr * SECTOR_SIZE), len)
           IN  n \in 0..len /\ pos + n <= nr * SECTOR_SIZE + SECTOR_SIZE
<1> DEFINE room == nr * SECTOR_SIZE
           end  == Less(pos + len, room)
           p == pos \div SECTOR_SIZE
           n == Moved(pos, end, len)
<1>1. /\ SECTOR_SIZE \in Nat \ {0} /\ FSBUF_SECTS \in Nat \ {0}
      /\ len \in Nat /\ len <= FSBUF_SECTS * SECTOR_SIZE
      /\ FSBUF_SECTS * SECTOR_SIZE \in Nat
    BY Constants
<1>2. room \in Nat
    BY <1>1
<1>3. pos <= room + SECTOR_SIZE
    OBVIOUS
<1> HIDE DEF room
<1>4. end \in Nat
    BY <1>1, <1>2 DEF Less
<1>5. n \in 0..len
    BY <1>1, <1>4, MovedIs
<1>6. CASE room + SECTOR_SIZE < pos + len
    <2>1. end = room
        BY <1>1, <1>2, <1>6 DEF Less
    <2>2. room \div SECTOR_SIZE = nr
        <3>1. room \in Int /\ nr \in Int /\ nr + 1 \in Int
            BY <1>2
        <3>2. room \div SECTOR_SIZE \in Int
            BY <1>1, <3>1, DivMod
        <3>3. nr <= room \div SECTOR_SIZE
            BY <1>1, <3>1, Quotient DEF room
        <3>4. room < (nr + 1) * SECTOR_SIZE
            BY <1>1 DEF room
        <3>5. room \div SECTOR_SIZE < nr + 1
            BY <1>1, <3>1, <3>4, Quotient
        <3> QED  BY <3>2, <3>3, <3>5
    <2>3. p \in Nat /\ pos < (p + 1) * SECTOR_SIZE
        <3>1. pos \in Int
            OBVIOUS
        <3>2. p \in Nat
            BY <1>1, <3>1, DivMod
        <3>3. p + 1 \in Int /\ p < p + 1
            BY <3>2
        <3> QED  BY <1>1, <3>1, <3>2, <3>3, Quotient
    <2> HIDE DEF p
    <2>4. nr - p + 1 <= FSBUF_SECTS
        <3>1. room + SECTOR_SIZE < (p + 1) * SECTOR_SIZE + FSBUF_SECTS * SECTOR_SIZE
            <4> DEFINE a == (p + 1) * SECTOR_SIZE
                       b == FSBUF_SECTS * SECTOR_SIZE
            <4>1. a \in Int /\ b \in Int /\ pos < a /\ len <= b
                BY <1>1, <2>3
            <4> HIDE DEF a, b
            <4>2. room + SECTOR_SIZE < a + b
                BY <1>1, <1>2, <1>6, <4>1
            <4> QED  BY <4>2 DEF a, b
        <3>2. (nr + 1) * SECTOR_SIZE < (p + 1 + FSBUF_SECTS) * SECTOR_SIZE
            BY <1>1, <2>3, <3>1 DEF room
        <3>3. nr + 1 < p + 1 + FSBUF_SECTS
            <4> DEFINE x == nr + 1
                       y == p + 1 + FSBUF_SECTS
            <4>1. x \in Int /\ y \in Int /\ x * SECTOR_SIZE < y * SECTOR_SIZE
                BY <1>1, <2>3, <3>2
            <4> HIDE DEF x, y
            <4>2. ASSUME y <= x PROVE y * SECTOR_SIZE <= x * SECTOR_SIZE
                BY <1>1, <4>1, <4>2
            <4>3. x * SECTOR_SIZE \in Int /\ y * SECTOR_SIZE \in Int
                BY <1>1, <4>1
            <4>4. x < y
                BY <4>1, <4>2, <4>3
            <4> QED  BY <4>4 DEF x, y
        <3> QED  BY <1>1, <2>3, <3>3
    <2>5. /\ nr < p => n = 0
          /\ p <= nr => pos + n <= (nr + 1) * SECTOR_SIZE
        BY <1>1, <1>4, <2>1, <2>2, <2>4, MovedIs DEF p
    <2>6. (nr + 1) * SECTOR_SIZE = room + SECTOR_SIZE
        BY <1>1 DEF room
    <2> HIDE DEF n, end
    <2>7. n \in 0..len /\ pos + n <= room + SECTOR_SIZE
        BY <1>1, <1>2, <1>3, <1>5, <2>3, <2>5, <2>6
    <2> QED  BY <2>7 DEF n, end, room
<1>7. CASE pos + len <= room + SECTOR_SIZE
    <2> HIDE DEF n
    <2>1. n \in 0..len /\ pos + n <= room + SECTOR_SIZE
        BY <1>1, <1>2, <1>5, <1>7
    <2> QED  BY <2>1 DEF n, end, room
<1> QED
    BY <1>1, <1>2, <1>6, <1>7

\* A READ in front of the end of the file stays there; one behind it does
\* not go farther than a WRITE may have gone.
LEMMA ReadBound ==
    ASSUME NEW nr \in Nat, NEW pos \in Nat, NEW size \in Nat, NEW len \in 1..MaxLen,
           pos <= nr * SECTOR_SIZE + SECTOR_SIZE, size <= nr * SECTOR_SIZE + SECTOR_SIZE
    PROVE  LET n == Moved(pos, Less(pos + len, size), ReadLeft(pos, size, len))
           IN  /\ n \in 0..len
               /\ pos <= size => pos + n <= size
               /\ pos + n <= nr * SECTOR_SIZE + SECTOR_SIZE
<1> DEFINE end  == Less(pos + len, size)
           left == ReadLeft(pos, size, len)
           p == pos \div SECTOR_SIZE
           n == Moved(pos, end, left)
           limit == nr * SECTOR_SIZE + SECTOR_SIZE
           Goal == n \in 0..len /\ (pos <= size => pos + n <= size) /\ pos + n <= limit
<1>1. /\ SECTOR_SIZE \in Nat \ {0} /\ FSBUF_SECTS \in Nat \ {0} /\ len \in Nat
    BY Constants
<1>2. limit \in Nat /\ pos <= limit /\ size <= limit /\ limit = (nr + 1) * SECTOR_SIZE
    BY <1>1
<1> HIDE DEF limit
<1>3. /\ end \in Nat /\ left \in Nat /\ left <= len
      /\ pos <= size => left <= size - pos
      /\ size < pos => end = size
    BY <1>1 DEF Less, ReadLeft
<1> HIDE DEF end, left
<1>4. n \in 0..left
    BY <1>3, MovedIs
<1>5. ASSUME pos <= size PROVE Goal
    <2> HIDE DEF n
    <2> QED  BY <1>1, <1>2, <1>3, <1>4, <1>5
<1>6. ASSUME size < pos PROVE Goal
    <2> DEFINE e == size \div SECTOR_SIZE
    <2>1. e \in Nat /\ p \in Nat /\ size \in Int /\ pos \in Int /\ nr + 1 \in Int
        <3>1. size \in Int /\ pos \in Int /\ nr + 1 \in Int
            OBVIOUS
        <3> QED  BY <1>1, <3>1, DivMod
    <2>2. /\ e < p => n = 0
          /\ p <= e /\ e - p + 1 <= FSBUF_SECTS => pos + n <= (e + 1) * SECTOR_SIZE
        BY <1>3, <1>6, MovedIs
    <2>3. e <= p
        <3>1. e * SECTOR_SIZE <= size
            BY <1>1, <2>1, Quotient
        <3>2. e * SECTOR_SIZE \in Nat
            BY <1>1, <2>1, Product
        <3> HIDE DEF e
        <3>3. e * SECTOR_SIZE <= pos
            BY <1>6, <3>1, <3>2
        <3> QED  BY <1>1, <2>1, <3>3, Quotient
    <2>4. size < (nr + 1) * SECTOR_SIZE
        BY <1>2, <1>6
    <2>5. e < nr + 1
        BY <1>1, <2>1, <2>4, Quotient
    <2> HIDE DEF e, p, n
    <2>6. (e + 1) * SECTOR_SIZE \in Nat /\ (e + 1) * SECTOR_SIZE <= limit
        BY <1>1, <1>2, <2>1, <2>5
    <2> QED  BY <1>1, <1>2, <1>3, <1>4, <1>6, <2>1, <2>2, <2>3, <2>6
<1>7. Goal
    BY <1>5, <1>6
<1> QED
    BY <1>7 DEF limit, end, left

-----------------------------------------------------------------------------
(* Types, and the shape of files: no run of the files into the log matters *)

LEMMA FileOfDesc ==
    ASSUME FsDataTypeOK, ShapeOK, NEW d \in Desc, desc[d] # NoDesc
    PROVE  /\ desc[d].fd_inode \in Regular /\ Exists(desc[d].fd_inode)
           /\ desc[d].fd_pos \in Nat
           /\ desc[d].fd_pos <= Room(desc[d].fd_inode) + SECTOR_SIZE
<1>1. desc[d].fd_inode # "none"
    BY DEF ShapeOK
<1> QED
    BY <1>1 DEF FsDataTypeOK, ShapeOK

\* What a file is read from.
LEMMA FileIs ==
    ASSUME FsDataTypeOK, NEW f \in Regular \cup {Root}
    PROVE  /\ inode[f].i_start_sect \in Nat /\ inode[f].i_nr_sects \in Nat
           /\ inode[f].i_size \in Nat
           /\ inode[f] = [i_start_sect |-> inode[f].i_start_sect,
                          i_nr_sects |-> inode[f].i_nr_sects, i_size |-> inode[f].i_size]
           /\ Room(f) \in Nat /\ Byte0(f) \in Nat /\ End(f) \in Nat
           /\ Room(f) = inode[f].i_nr_sects * SECTOR_SIZE
           /\ Byte0(f) = inode[f].i_start_sect * SECTOR_SIZE
           /\ Byte0(f) + Room(f) = End(f) * SECTOR_SIZE
<1>1. SECTOR_SIZE \in Nat
    BY Constants
<1>2. inode[f] \in [i_start_sect : Nat, i_nr_sects : Nat, i_size : Nat]
    BY DEF FsDataTypeOK
<1> QED
    BY <1>1, <1>2, Product DEF Room, Byte0, End

LEMMA ShapeInit == Init => FsDataTypeOK /\ ShapeOK
<1> SUFFICES ASSUME Init PROVE FsDataTypeOK /\ ShapeOK
    OBVIOUS
<1> USE Constants, Names
<1>1. /\ inode[CmdTar] = [i_start_sect |-> INSTALL_START, i_nr_sects |-> INSTALL_NR_SECTS,
                          i_size |-> INSTALL_NR_SECTS * SECTOR_SIZE]
      /\ inode[Root] = [i_start_sect |-> 0, i_nr_sects |-> NR_FILE_SECTS,
                        i_size |-> SECTOR_SIZE]
      /\ \A f \in File : inode[f] = NoInode
    BY DEF Init
<1>2. FsDataTypeOK
    <2>1. inode \in [Regular \cup {Root} -> [i_start_sect : Nat, i_nr_sects : Nat, i_size : Nat]]
        <3>1. INSTALL_NR_SECTS * SECTOR_SIZE \in Nat
            BY Product
        <3> QED  BY <3>1 DEF Init, NoInode
    <2>2. desc \in [Desc -> [fd_inode : Regular \cup {"none"}, fd_pos : Nat]]
        BY DEF Init, NoDesc
    <2>3. smap \subseteq Nat /\ 0 \in smap
        BY DEF Init, BitOf
    <2>4. data \in [Addr -> Regular \cup {Root, Log, Junk}]
        BY DEF Init
    <2> QED  BY <2>1, <2>2, <2>3, <2>4 DEF FsDataTypeOK, Init
<1>3. ShapeOK
    <2>1. \A f \in Regular : inode[f].i_size <= Room(f) + SECTOR_SIZE
        <3>1. INSTALL_NR_SECTS * SECTOR_SIZE <= INSTALL_NR_SECTS * SECTOR_SIZE + SECTOR_SIZE
            BY Product
        <3>2. Room(CmdTar) = INSTALL_NR_SECTS * SECTOR_SIZE
            BY <1>1 DEF Room
        <3>3. \A f \in File : inode[f].i_size = 0 /\ Room(f) = 0
            BY <1>1 DEF Room, NoInode
        <3> QED  BY <1>1, <3>1, <3>2, <3>3
    <2>2. \A d \in Desc : desc[d] = NoDesc
        BY DEF Init
    <2> QED  BY <1>1, <2>1, <2>2 DEF ShapeOK, NoDesc
<1> QED
    BY <1>2, <1>3

\* No file is created or removed.
SamePlaces ==
    \A f \in Regular \cup {Root} : /\ inode'[f].i_start_sect = inode[f].i_start_sect
                                   /\ inode'[f].i_nr_sects = inode[f].i_nr_sects

LEMMA SameFiles ==
    ASSUME SamePlaces, NEW f \in Regular \cup {Root}
    PROVE  /\ Exists(f)' = Exists(f) /\ End(f)' = End(f) /\ Room(f)' = Room(f)
           /\ Byte0(f)' = Byte0(f)
BY DEF SamePlaces, Exists, End, Room, Byte0

LEMMA ShapeKept ==
    ASSUME FsDataTypeOK, ShapeOK, FsDataTypeOK', SamePlaces,
           \A f \in Regular \cup {Root} :
              \/ inode'[f] = inode[f]
              \/ Exists(f) /\ inode'[f].i_size <= Room(f) + SECTOR_SIZE,
           \A d \in Desc :
              \/ desc'[d] = desc[d] \/ desc'[d] = NoDesc
              \/ /\ desc'[d].fd_inode \in Regular /\ Exists(desc'[d].fd_inode)
                 /\ desc'[d].fd_pos <= Room(desc'[d].fd_inode) + SECTOR_SIZE
    PROVE  ShapeOK'
<1> USE Names
<1>1. \A f \in Regular : ~Exists(f) => inode'[f] = inode[f]
    OBVIOUS
<1>2. \A f \in Regular : Exists(f) <=> inode[f] # NoInode
    <2>1. ASSUME NEW f \in Regular PROVE Exists(f) <=> inode[f] # NoInode
        <3>1. CASE f \in File
            BY <3>1, Constants DEF ShapeOK, Exists, NoInode
        <3>2. CASE f = CmdTar
            BY <3>2, Constants DEF ShapeOK, Exists, NoInode
        <3> QED  BY <3>1, <3>2
    <2> QED  BY <2>1
<1>3. \A f \in File : inode'[f] = NoInode \/ inode'[f].i_nr_sects = NR_FILE_SECTS
    BY <1>1, <1>2 DEF ShapeOK, SamePlaces
<1>4. \/ inode'[CmdTar] = NoInode
      \/ /\ inode'[CmdTar].i_start_sect = INSTALL_START
         /\ inode'[CmdTar].i_nr_sects = INSTALL_NR_SECTS
    BY <1>1, <1>2 DEF ShapeOK, SamePlaces
<1>5. inode'[Root].i_start_sect = 0 /\ inode'[Root].i_nr_sects = NR_FILE_SECTS
    BY DEF ShapeOK, SamePlaces
<1>6. \A f \in Regular : inode'[f].i_size <= Room(f)' + SECTOR_SIZE
    BY SameFiles DEF ShapeOK
<1>7. ASSUME NEW d \in Desc
      PROVE  \/ desc'[d] = NoDesc
             \/ \E f \in Regular : /\ desc'[d].fd_inode = f /\ Exists(f)'
                                   /\ desc'[d].fd_pos <= Room(f)' + SECTOR_SIZE
    <2>1. CASE desc'[d] = desc[d] /\ desc'[d] # NoDesc
        BY <2>1, FileOfDesc, SameFiles
    <2>2. CASE /\ desc'[d].fd_inode \in Regular /\ Exists(desc'[d].fd_inode)
               /\ desc'[d].fd_pos <= Room(desc'[d].fd_inode) + SECTOR_SIZE
        BY <2>2, SameFiles
    <2> QED  BY <2>1, <2>2
<1>8. NoDesc.fd_inode = "none"
    BY DEF NoDesc
<1> QED
    BY <1>3, <1>4, <1>5, <1>6, <1>7, <1>8 DEF ShapeOK

\* The step of a READ or WRITE that has moved n bytes.
LEMMA AdvanceShape ==
    ASSUME FsDataTypeOK, ShapeOK, NEW d \in Desc, desc[d] # NoDesc, NEW n \in Nat,
           Advance(d, desc[d].fd_inode, n),
           desc[d].fd_pos + n <= Room(desc[d].fd_inode) + SECTOR_SIZE,
           UNCHANGED <<smap, logged, halted>>,
           data' \in [Addr -> Regular \cup {Root, Log, Junk}]
    PROVE  /\ FsDataTypeOK' /\ ShapeOK' /\ SamePlaces
           /\ LET f   == desc[d].fd_inode
                  pos == desc[d].fd_pos + n
              IN  /\ desc'[d].fd_inode = f /\ desc'[d].fd_pos = pos
                  /\ \A e \in Desc \ {d} : desc'[e] = desc[e]
                  /\ inode'[f].i_size = IF pos > inode[f].i_size THEN pos
                                        ELSE inode[f].i_size
                  /\ \A g \in (Regular \cup {Root}) \ {f} : inode'[g] = inode[g]
<1> DEFINE f   == desc[d].fd_inode
           pos == desc[d].fd_pos + n
<1>1. f \in Regular /\ Exists(f) /\ desc[d].fd_pos \in Nat /\ pos \in Nat
    BY FileOfDesc
<1>2. /\ desc' = [desc EXCEPT ![d].fd_pos = pos]
      /\ inode' = [inode EXCEPT ![f].i_size = IF pos > @ THEN pos ELSE @]
    BY DEF Advance
<1> HIDE DEF pos
<1>3. FsDataTypeOK'
    BY <1>1, <1>2 DEF FsDataTypeOK
<1>4. /\ desc'[d] = [desc[d] EXCEPT !.fd_pos = pos]
      /\ \A e \in Desc \ {d} : desc'[e] = desc[e]
      /\ inode'[f] = [inode[f] EXCEPT !.i_size = IF pos > inode[f].i_size THEN pos
                                                 ELSE inode[f].i_size]
      /\ \A g \in (Regular \cup {Root}) \ {f} : inode'[g] = inode[g]
    BY <1>1, <1>2 DEF FsDataTypeOK
<1>5. /\ desc'[d].fd_inode = f /\ desc'[d].fd_pos = pos
      /\ inode'[f].i_size = IF pos > inode[f].i_size THEN pos ELSE inode[f].i_size
      /\ inode'[f].i_start_sect = inode[f].i_start_sect
      /\ inode'[f].i_nr_sects = inode[f].i_nr_sects
    BY <1>1, <1>4 DEF FsDataTypeOK
<1>6. SamePlaces
    BY <1>4, <1>5 DEF SamePlaces
<1>7. inode'[f].i_size <= Room(f) + SECTOR_SIZE /\ pos <= Room(f) + SECTOR_SIZE
    BY <1>1, <1>5 DEF ShapeOK, pos
<1>8. ShapeOK'
    BY <1>1, <1>3, <1>4, <1>5, <1>6, <1>7, ShapeKept
<1> QED
    BY <1>3, <1>4, <1>5, <1>6, <1>8 DEF pos

\* What a step does to the files when it only takes or gives up descriptors.
LEMMA ConnectShape ==
    ASSUME FsDataTypeOK, ShapeOK, NEW d \in Desc, NEW f \in Regular, Exists(f),
           Connect(d, f), UNCHANGED <<smap, inode, data, logged, halted>>
    PROVE  /\ FsDataTypeOK' /\ ShapeOK' /\ SamePlaces
           /\ desc'[d].fd_inode = f /\ desc'[d].fd_pos = 0
           /\ \A e \in Desc \ {d} : desc'[e] = desc[e]
<1>1. desc' = [desc EXCEPT ![d] = [fd_inode |-> f, fd_pos |-> 0]]
    BY DEF Connect
<1>2. FsDataTypeOK'
    BY <1>1 DEF FsDataTypeOK
<1>3. /\ desc'[d] = [fd_inode |-> f, fd_pos |-> 0]
      /\ \A e \in Desc \ {d} : desc'[e] = desc[e]
    BY <1>1 DEF FsDataTypeOK
<1>4. 0 <= Room(f) + SECTOR_SIZE
    <2>1. Room(f) \in Nat
        BY FileIs
    <2> QED  BY <2>1, Constants
<1>5. SamePlaces
    BY DEF SamePlaces
<1>6. ShapeOK'
    BY <1>2, <1>3, <1>4, <1>5, ShapeKept
<1> QED
    BY <1>2, <1>3, <1>5, <1>6

LEMMA OpenTruncShape ==
    ASSUME FsDataTypeOK, ShapeOK, NEW d \in Desc, NEW f \in File, OpenTrunc(d, f)
    PROVE  /\ FsDataTypeOK' /\ ShapeOK' /\ SamePlaces
           /\ desc'[d].fd_inode = f /\ desc'[d].fd_pos = 0
           /\ \A e \in Desc \ {d} : desc'[e] = desc[e]
           /\ inode'[f].i_size = 0
           /\ \A g \in (Regular \cup {Root}) \ {f} : inode'[g] = inode[g]
<1> USE Names
<1>1. /\ desc' = [desc EXCEPT ![d] = [fd_inode |-> f, fd_pos |-> 0]]
      /\ inode' = [inode EXCEPT ![f].i_size = 0] /\ Exists(f)
      /\ data' = Forget(f, inode[f].i_start_sect, inode[f].i_nr_sects)
      /\ UNCHANGED <<smap, logged, halted>>
    BY DEF OpenTrunc, Connect
<1>2. data' \in [Addr -> Regular \cup {Root, Log, Junk}]
    BY <1>1 DEF Forget, FsDataTypeOK
<1>3. FsDataTypeOK'
    BY <1>1, <1>2 DEF FsDataTypeOK
<1>4. /\ desc'[d] = [fd_inode |-> f, fd_pos |-> 0]
      /\ \A e \in Desc \ {d} : desc'[e] = desc[e]
      /\ inode'[f] = [inode[f] EXCEPT !.i_size = 0]
      /\ \A g \in (Regular \cup {Root}) \ {f} : inode'[g] = inode[g]
    BY <1>1 DEF FsDataTypeOK
<1>5. /\ inode'[f].i_size = 0
      /\ inode'[f].i_start_sect = inode[f].i_start_sect
      /\ inode'[f].i_nr_sects = inode[f].i_nr_sects
    BY <1>4 DEF FsDataTypeOK
<1>6. 0 <= Room(f) + SECTOR_SIZE
    <2>1. Room(f) \in Nat
        BY FileIs
    <2> QED  BY <2>1, Constants
<1>7. SamePlaces
    BY <1>4, <1>5 DEF SamePlaces
<1>8. ShapeOK'
    BY <1>1, <1>3, <1>4, <1>5, <1>6, <1>7, ShapeKept
<1> QED
    BY <1>3, <1>4, <1>5, <1>7, <1>8

LEMMA CloseShape ==
    ASSUME FsDataTypeOK, ShapeOK, NEW d \in Desc, Close(d)
    PROVE  /\ FsDataTypeOK' /\ ShapeOK' /\ SamePlaces
           /\ desc'[d] = NoDesc /\ \A e \in Desc \ {d} : desc'[e] = desc[e]
<1>1. desc' = [desc EXCEPT ![d] = NoDesc] /\ UNCHANGED <<smap, inode, data, logged, halted>>
    BY DEF Close
<1>2. FsDataTypeOK'
    BY <1>1 DEF FsDataTypeOK, NoDesc
<1>3. desc'[d] = NoDesc /\ \A e \in Desc \ {d} : desc'[e] = desc[e]
    BY <1>1 DEF FsDataTypeOK
<1>4. SamePlaces
    BY <1>1 DEF SamePlaces
<1>5. ShapeOK'
    BY <1>1, <1>2, <1>3, <1>4, ShapeKept
<1> QED
    BY <1>2, <1>3, <1>4, <1>5

LEMMA LseekShape ==
    ASSUME FsDataTypeOK, ShapeOK, NEW d \in Desc, NEW pos \in Nat, Lseek(d, pos)
    PROVE  /\ FsDataTypeOK' /\ ShapeOK' /\ SamePlaces
           /\ desc'[d].fd_inode = desc[d].fd_inode /\ desc'[d].fd_pos = pos
           /\ pos <= inode[desc[d].fd_inode].i_size
           /\ \A e \in Desc \ {d} : desc'[e] = desc[e]
<1>1. /\ desc[d] # NoDesc /\ desc' = [desc EXCEPT ![d].fd_pos = pos]
      /\ pos <= inode[desc[d].fd_inode].i_size
      /\ UNCHANGED <<smap, inode, data, logged, halted>>
    BY DEF Lseek
<1>2. FsDataTypeOK'
    BY <1>1 DEF FsDataTypeOK
<1>3. /\ desc'[d].fd_inode = desc[d].fd_inode /\ desc'[d].fd_pos = pos
      /\ \A e \in Desc \ {d} : desc'[e] = desc[e]
    BY <1>1 DEF FsDataTypeOK
<1>4. SamePlaces
    BY <1>1 DEF SamePlaces
<1>5. desc[d].fd_inode \in Regular /\ Exists(desc[d].fd_inode)
    BY <1>1, FileOfDesc
<1>6. pos <= Room(desc[d].fd_inode) + SECTOR_SIZE
    <2> DEFINE f == desc[d].fd_inode
    <2>1. Room(f) \in Nat /\ inode[f].i_size \in Nat
        BY <1>5, FileIs
    <2>2. inode[f].i_size <= Room(f) + SECTOR_SIZE
        BY <1>5 DEF ShapeOK
    <2> QED  BY <1>1, <2>1, <2>2, Constants
<1>7. ShapeOK'
    BY <1>1, <1>2, <1>3, <1>4, <1>5, <1>6, ShapeKept
<1> QED
    BY <1>1, <1>2, <1>3, <1>4, <1>7

\* What a READ or a WRITE by d of n bytes does to the files.
MovesOn(d, n) ==
    LET f   == desc[d].fd_inode
        pos == desc[d].fd_pos + n
    IN  /\ f \in Regular /\ Exists(f)
        /\ pos <= Room(f) + SECTOR_SIZE
        /\ desc'[d].fd_inode = f /\ desc'[d].fd_pos = pos
        /\ \A e \in Desc \ {d} : desc'[e] = desc[e]
        /\ inode'[f].i_size = IF pos > inode[f].i_size THEN pos ELSE inode[f].i_size
        /\ \A g \in (Regular \cup {Root}) \ {f} : inode'[g] = inode[g]

LEMMA ReadShape ==
    ASSUME FsDataTypeOK, ShapeOK, NEW d \in Desc, NEW len \in 1..MaxLen, Read(d, len)
    PROVE  /\ FsDataTypeOK' /\ ShapeOK' /\ SamePlaces
           /\ \E n \in Nat :
                 /\ MovesOn(d, n)
                 /\ desc[d].fd_pos <= inode[desc[d].fd_inode].i_size
                       => desc[d].fd_pos + n <= inode[desc[d].fd_inode].i_size
<1> DEFINE f   == desc[d].fd_inode
           pos == desc[d].fd_pos
           n   == Moved(pos, Less(pos + len, inode[f].i_size),
                        ReadLeft(pos, inode[f].i_size, len))
<1>1. /\ desc[d] # NoDesc /\ Advance(d, f, n)
      /\ UNCHANGED <<smap, data, logged, halted>>
    BY DEF Read
<1>2. /\ f \in Regular /\ Exists(f) /\ pos \in Nat /\ pos <= Room(f) + SECTOR_SIZE
      /\ inode[f].i_size <= Room(f) + SECTOR_SIZE
    BY <1>1, FileOfDesc DEF ShapeOK
<1>3. /\ inode[f].i_nr_sects \in Nat /\ inode[f].i_size \in Nat
      /\ Room(f) = inode[f].i_nr_sects * SECTOR_SIZE
    BY <1>2, FileIs
<1>4. /\ n \in 0..len /\ (pos <= inode[f].i_size => pos + n <= inode[f].i_size)
      /\ pos + n <= Room(f) + SECTOR_SIZE
    <2> HIDE DEF f, pos
    <2> QED  BY <1>2, <1>3, ReadBound
<1>5. n \in Nat
    BY <1>4
<1>6. data' \in [Addr -> Regular \cup {Root, Log, Junk}]
    BY <1>1 DEF FsDataTypeOK
<1> HIDE DEF n
<1>7. FsDataTypeOK' /\ ShapeOK' /\ SamePlaces /\ MovesOn(d, n)
    BY <1>1, <1>2, <1>4, <1>5, <1>6, AdvanceShape DEF MovesOn
<1> QED
    BY <1>4, <1>5, <1>7

LEMMA WriteShape ==
    ASSUME FsDataTypeOK, ShapeOK, NEW d \in Desc, NEW len \in 1..MaxLen, Write(d, len)
    PROVE  /\ FsDataTypeOK' /\ ShapeOK' /\ SamePlaces
           /\ LET f     == desc[d].fd_inode
                  first == Byte0(f) + desc[d].fd_pos
              IN  \E n \in Nat :
                    /\ MovesOn(d, n)
                    /\ data' = [a \in Addr |-> IF a \in first..(first + n - 1)
                                               THEN f ELSE data[a]]
                    /\ damaged' = damaged \cup (IF desc[d].fd_pos + n > Room(f)
                                                THEN Behind(f) ELSE {})
<1> DEFINE f   == desc[d].fd_inode
           pos == desc[d].fd_pos
           n   == Moved(pos, Less(pos + len, Room(f)), len)
           new == [a \in Addr |-> IF a \in (Byte0(f) + pos)..(Byte0(f) + pos + n - 1)
                                  THEN f ELSE data[a]]
<1>1. /\ desc[d] # NoDesc /\ Advance(d, f, n) /\ data' = new
      /\ damaged' = damaged \cup (IF pos + n > Room(f) THEN Behind(f) ELSE {})
      /\ UNCHANGED <<smap, logged, halted>>
    BY DEF Write
<1>2. f \in Regular /\ Exists(f) /\ pos \in Nat /\ pos <= Room(f) + SECTOR_SIZE
    BY <1>1, FileOfDesc
<1>3. /\ inode[f].i_nr_sects \in Nat
      /\ Room(f) = inode[f].i_nr_sects * SECTOR_SIZE
    BY <1>2, FileIs
<1>4. n \in 0..len /\ pos + n <= Room(f) + SECTOR_SIZE
    <2> HIDE DEF f, pos
    <2> QED  BY <1>2, <1>3, WriteBound
<1>5. n \in Nat
    BY <1>4
<1> HIDE DEF n
<1>6. data' \in [Addr -> Regular \cup {Root, Log, Junk}]
    BY <1>1, <1>2 DEF FsDataTypeOK
<1>7. FsDataTypeOK' /\ ShapeOK' /\ SamePlaces /\ MovesOn(d, n)
    BY <1>1, <1>2, <1>4, <1>5, <1>6, AdvanceShape DEF MovesOn
<1> QED
    BY <1>1, <1>5, <1>7

-----------------------------------------------------------------------------
(* Creating and removing *)

\* Every set of numbers has a least one.
LEMMA LeastIs ==
    ASSUME NEW S, S \subseteq Nat, S # {}
    PROVE  Least(S) \in S /\ \A y \in S : Least(S) <= y
<1> DEFINE R == StrictSubsetOrdering(Nat)
           T == {0..n : n \in S}
<1>1. T # {} /\ T \subseteq FiniteSubsetsOf(Nat)
    <2>1. ASSUME NEW n \in S PROVE 0..n \in FiniteSubsetsOf(Nat)
        <3>1. IsFiniteSet(0..n)
            BY FS_Interval, 0 \in Int, n \in Int
        <3> QED  BY <3>1 DEF FiniteSubsetsOf
    <2> QED  BY <2>1
<1>2. PICK X \in T : \A Y \in T : <<Y, X>> \notin R
    BY <1>1, WFMin, FS_StrictSubsetOrderingWellFounded
<1>3. PICK x \in S : X = 0..x
    BY <1>2
<1>4. ASSUME NEW y \in S PROVE x <= y
    <2>1. SUFFICES ASSUME y < x PROVE FALSE
        BY <1>3
    <2>2. 0..y \subseteq 0..x /\ 0..y # 0..x
        BY <2>1
    <2>3. <<0..y, 0..x>> \in R
        BY <2>2 DEF StrictSubsetOrdering
    <2> QED  BY <2>3, <1>3, <1>2
<1> QED  BY <1>4 DEF Least

\* The run of free bits that a new file gets begins with the first free one.
LEMMA RunIs ==
    ASSUME FsDataTypeOK, RunFree
    PROVE  /\ FirstFree \in Nat \ {0} /\ FirstFree \in Bit
           /\ \A b \in 0..(FirstFree - 1) : b \in smap
           /\ Run = FirstFree..(FirstFree + NR_FILE_SECTS - 1)
           /\ Run \subseteq Nat /\ Run \cap smap = {}
<1>1. Bit \subseteq Nat /\ NrBits \in Nat
    BY Constants DEF Bit
<1>2. Bit \ smap # {} /\ Run \subseteq Bit \ smap
    BY DEF RunFree
<1>3. FirstFree \in Bit \ smap /\ \A y \in Bit \ smap : FirstFree <= y
    BY <1>1, <1>2, LeastIs DEF FirstFree
<1>4. FirstFree # 0
    BY <1>3 DEF FsDataTypeOK
<1>5. ASSUME NEW b \in 0..(FirstFree - 1) PROVE b \in smap
    <2>1. b \in Bit /\ b < FirstFree
        BY <1>1, <1>3 DEF Bit
    <2> QED  BY <1>1, <1>3, <2>1
<1> QED
    BY <1>1, <1>2, <1>3, <1>4, <1>5 DEF Run

\* f becomes a file of the run found.
Created(d, f) ==
    /\ RunFree /\ ~Exists(f) /\ desc[d] = NoDesc
    /\ inode'[f] = [i_start_sect |-> FirstFree - 1, i_nr_sects |-> NR_FILE_SECTS,
                    i_size |-> 0]
    /\ \A g \in (Regular \cup {Root}) \ {f} : inode'[g] = inode[g]
    /\ desc'[d].fd_inode = f /\ desc'[d].fd_pos = 0
    /\ \A e \in Desc \ {d} : desc'[e] = desc[e]
    /\ data' = Forget(f, FirstFree - 1, NR_FILE_SECTS)
    /\ smap' = smap \cup Run
    /\ UNCHANGED <<logged, damaged, halted>>

LEMMA HaltShape ==
    ASSUME FsDataTypeOK, ShapeOK, Halt
    PROVE  FsDataTypeOK' /\ ShapeOK'
<1>1. halted' = TRUE /\ UNCHANGED <<smap, inode, desc, data, logged>>
    BY DEF Halt
<1> QED
    BY <1>1 DEF FsDataTypeOK, ShapeOK, Exists, Room

LEMMA CreateShape ==
    ASSUME FsDataTypeOK, ShapeOK, NEW d \in Desc, NEW f \in File, Create(d, f)
    PROVE  FsDataTypeOK' /\ ShapeOK' /\ (Halt \/ Created(d, f))
<1> USE Names
<1>1. CASE ~RunFree
    BY <1>1, HaltShape DEF Create
<1>2. CASE RunFree
    <2>1. /\ ~Exists(f) /\ desc[d] = NoDesc
          /\ inode' = [inode EXCEPT ![f] =
                         [i_start_sect |-> FirstFree - 1, i_nr_sects |-> NR_FILE_SECTS,
                          i_size |-> 0]]
          /\ data' = Forget(f, FirstFree - 1, NR_FILE_SECTS)
          /\ smap' = smap \cup Run
          /\ desc' = [desc EXCEPT ![d] = [fd_inode |-> f, fd_pos |-> 0]]
          /\ UNCHANGED <<logged, damaged, halted>>
        BY <1>2 DEF Create, Connect
    <2>2. FirstFree - 1 \in Nat /\ Run \subseteq Nat
        BY <1>2, RunIs
    <2>3. /\ inode'[f] = [i_start_sect |-> FirstFree - 1, i_nr_sects |-> NR_FILE_SECTS,
                          i_size |-> 0]
          /\ \A g \in (Regular \cup {Root}) \ {f} : inode'[g] = inode[g]
          /\ desc'[d] = [fd_inode |-> f, fd_pos |-> 0]
          /\ \A e \in Desc \ {d} : desc'[e] = desc[e]
        BY <2>1 DEF FsDataTypeOK
    <2>4. Created(d, f)
        BY <1>2, <2>1, <2>3 DEF Created
    <2>5. FsDataTypeOK'
        <3>1. inode' \in [Regular \cup {Root} ->
                            [i_start_sect : Nat, i_nr_sects : Nat, i_size : Nat]]
            BY <2>1, <2>2, Constants DEF FsDataTypeOK
        <3>2. desc' \in [Desc -> [fd_inode : Regular \cup {"none"}, fd_pos : Nat]]
            BY <2>1 DEF FsDataTypeOK
        <3>3. data' \in [Addr -> Regular \cup {Root, Log, Junk}]
            BY <2>1 DEF Forget, FsDataTypeOK
        <3>4. smap' \subseteq Nat /\ 0 \in smap'
            BY <2>1, <2>2 DEF FsDataTypeOK
        <3> QED  BY <2>1, <3>1, <3>2, <3>3, <3>4 DEF FsDataTypeOK
    <2>6. \A g \in (Regular \cup {Root}) \ {f} : Exists(g)' = Exists(g) /\ Room(g)' = Room(g)
        BY <2>3 DEF Exists, Room
    <2>7. Exists(f)' /\ inode'[f].i_size = 0 /\ 0 <= Room(f)' + SECTOR_SIZE
        <3>1. Room(f)' = NR_FILE_SECTS * SECTOR_SIZE
            BY <2>3 DEF Room
        <3>2. Room(f)' \in Nat
            BY <3>1, Constants, Product
        <3> QED  BY <2>3, <3>2, Constants DEF Exists
    <2>8. \A e \in Desc : desc[e].fd_inode # f
        BY <2>1 DEF ShapeOK
    <2>9. ShapeOK'
        <3>1. \A g \in File : inode'[g] = NoInode \/ inode'[g].i_nr_sects = NR_FILE_SECTS
            BY <2>3 DEF ShapeOK
        <3>2. inode'[CmdTar] = inode[CmdTar] /\ inode'[Root] = inode[Root]
            BY <2>3
        <3>3. \A g \in Regular : inode'[g].i_size <= Room(g)' + SECTOR_SIZE
            BY <2>3, <2>6, <2>7 DEF ShapeOK
        <3>4. \A e \in Desc :
                 \/ desc'[e] = NoDesc
                 \/ \E g \in Regular : /\ desc'[e].fd_inode = g /\ Exists(g)'
                                       /\ desc'[e].fd_pos <= Room(g)' + SECTOR_SIZE
            BY <2>3, <2>6, <2>7, <2>8, FileOfDesc
        <3>5. NoDesc.fd_inode = "none"
            BY DEF NoDesc
        <3> QED  BY <3>1, <3>2, <3>3, <3>4, <3>5 DEF ShapeOK
    <2> QED  BY <2>4, <2>5, <2>9
<1> QED
    BY <1>1, <1>2

\* f is removed, and the disk log written.
Removed(f) ==
    /\ Exists(f) /\ (\A d \in Desc : desc[d].fd_inode # f)
    /\ inode'[f] = NoInode
    /\ \A g \in (Regular \cup {Root}) \ {f} : inode'[g] = inode[g]
    /\ DiskLog(smap \ ((inode[f].i_start_sect + 1)..End(f)),
               Forget(f, inode[f].i_start_sect, inode[f].i_nr_sects))
    /\ desc' = desc /\ damaged' = damaged \ {f}

LEMMA DiskLogTypes ==
    ASSUME FsDataTypeOK, NEW map, NEW bytes, DiskLog(map, bytes),
           map \subseteq Nat, 0 \in map,
           bytes \in [Addr -> Regular \cup {Root, Log, Junk}]
    PROVE  /\ smap' \subseteq Nat /\ 0 \in smap'
           /\ data' \in [Addr -> Regular \cup {Root, Log, Junk}]
           /\ logged' \in BOOLEAN /\ halted' \in BOOLEAN
<1>1. LogBits \subseteq Nat
    BY Constants DEF LogBits
<1> QED
    BY <1>1 DEF DiskLog, FsDataTypeOK

LEMMA UnlinkShape ==
    ASSUME FsDataTypeOK, ShapeOK, NEW f \in Regular, Unlink(f)
    PROVE  /\ FsDataTypeOK' /\ ShapeOK'
           /\ \/ Halt
              \/ Removed(f)
              \/ DiskLog(smap, data) /\ UNCHANGED <<inode, desc, damaged>>
<1> USE Names
<1>1. CASE UnlinkFails(f)
    <2>1. DiskLog(smap, data) /\ UNCHANGED <<inode, desc, damaged>>
        BY <1>1 DEF UnlinkFails
    <2>2. FsDataTypeOK'
        <3>1. /\ smap \subseteq Nat /\ 0 \in smap
              /\ data \in [Addr -> Regular \cup {Root, Log, Junk}]
            BY DEF FsDataTypeOK
        <3>2. /\ smap' \subseteq Nat /\ 0 \in smap'
              /\ data' \in [Addr -> Regular \cup {Root, Log, Junk}]
              /\ logged' \in BOOLEAN /\ halted' \in BOOLEAN
            BY <2>1, <3>1, DiskLogTypes
        <3> QED  BY <2>1, <3>2 DEF FsDataTypeOK
    <2>3. ShapeOK'
        BY <2>1 DEF ShapeOK, Exists, Room
    <2> QED  BY <2>1, <2>2, <2>3
<1>2. CASE UnlinkDone(f)
    <2> DEFINE start == inode[f].i_start_sect
               n     == inode[f].i_nr_sects
               bits  == Released(BitOf(start), n)
               old   == Forget(f, start, n)
    <2>1. Exists(f) /\ OpenOn(f) = {}
        BY <1>2 DEF UnlinkDone
    <2>5. start \in Nat /\ n \in Nat \ {0} /\ End(f) = start + n
        <3>1. start \in Nat /\ n \in Nat
            BY FileIs
        <3> QED  BY <2>1, <3>1 DEF End, Exists
    <2>2. bits = (start + 1)..End(f)
        <3> HIDE DEF start, n
        <3>1. BitOf(start) = start + 1 /\ start + 1 \in Nat
            BY <2>5 DEF BitOf
        <3>2. bits = (start + 1)..(start + 1 + n - 1)
            BY <2>5, <3>1, ReleasedIs
        <3> QED  BY <2>5, <3>2
    <2>3. CASE ~(bits \subseteq smap)
        <3>1. Halt
            BY <1>2, <2>3 DEF UnlinkDone
        <3> QED  BY <3>1, HaltShape
    <2>4. CASE bits \subseteq smap
        <3>1. /\ DiskLog(smap \ bits, old)
              /\ inode' = [inode EXCEPT ![f] = NoInode]
              /\ damaged' = damaged \ {f} /\ desc' = desc
            BY <1>2, <2>4 DEF UnlinkDone
        <3>2. /\ inode'[f] = NoInode
              /\ \A g \in (Regular \cup {Root}) \ {f} : inode'[g] = inode[g]
            BY <3>1 DEF FsDataTypeOK
        <3>3. \A d \in Desc : desc[d].fd_inode # f
            BY <2>1 DEF OpenOn
        <3>4. Removed(f)
            BY <2>1, <2>2, <3>1, <3>2, <3>3 DEF Removed
        <3>5. FsDataTypeOK'
            <4>1. old \in [Addr -> Regular \cup {Root, Log, Junk}]
                BY DEF Forget, FsDataTypeOK
            <4>2. 0 \notin (start + 1)..End(f)
                <5> HIDE DEF start, n
                <5> QED  BY <2>5
            <4>3. smap \ bits \subseteq Nat /\ 0 \in smap \ bits
                BY <2>2, <4>2 DEF FsDataTypeOK
            <4>4. /\ smap' \subseteq Nat /\ 0 \in smap'
                  /\ data' \in [Addr -> Regular \cup {Root, Log, Junk}]
                  /\ logged' \in BOOLEAN /\ halted' \in BOOLEAN
                BY <3>1, <4>1, <4>3, DiskLogTypes
            <4>5. inode' \in [Regular \cup {Root} ->
                                [i_start_sect : Nat, i_nr_sects : Nat, i_size : Nat]]
                BY <3>1 DEF FsDataTypeOK, NoInode
            <4> QED  BY <3>1, <4>4, <4>5 DEF FsDataTypeOK
        <3>6. ShapeOK'
            <4>1. \A g \in (Regular \cup {Root}) \ {f} : Exists(g)' = Exists(g) /\ Room(g)' = Room(g)
                BY <3>2 DEF Exists, Room
            <4>2. inode'[f].i_size = 0 /\ Room(f)' = 0 * SECTOR_SIZE
                BY <3>2 DEF NoInode, Room
            <4>3. \A g \in Regular : inode'[g].i_size <= Room(g)' + SECTOR_SIZE
                BY <3>2, <4>1, <4>2, Constants DEF ShapeOK
            <4>4. \A e \in Desc :
                     \/ desc'[e] = NoDesc
                     \/ \E g \in Regular : /\ desc'[e].fd_inode = g /\ Exists(g)'
                                           /\ desc'[e].fd_pos <= Room(g)' + SECTOR_SIZE
                BY <3>1, <3>3, <4>1, FileOfDesc
            <4>5. NoDesc.fd_inode = "none"
                BY DEF NoDesc
            <4>6. \A g \in File : inode'[g] = NoInode \/ inode'[g].i_nr_sects = NR_FILE_SECTS
                BY <3>2 DEF ShapeOK
            <4> QED  BY <3>2, <4>3, <4>4, <4>5, <4>6 DEF ShapeOK
        <3> QED  BY <3>4, <3>5, <3>6
    <2> QED  BY <2>3, <2>4
<1> QED
    BY <1>1, <1>2 DEF Unlink

-----------------------------------------------------------------------------
(* No WRITE goes far: whether or not files reach the log *)

\* Bytes become f's only in the sectors of f and the one behind them.
Contained ==
    \A a \in Addr, f \in Regular :
        data[a] # f /\ data'[a] = f =>
            a \in Byte0(f)..(Byte0(f) + Room(f) + SECTOR_SIZE - 1)

\* Forgetting and logging make bytes nobody's.
LEMMA OnlyForgotten ==
    ASSUME \A a \in Addr : data'[a] \in {data[a], Junk, Log}
    PROVE  Contained
BY Names DEF Contained

LEMMA ForgetIs ==
    ASSUME NEW f, NEW start, NEW n, NEW a \in Addr
    PROVE  Forget(f, start, n)[a] = IF a \div SECTOR_SIZE \in start..(start + n - 1)
                                    THEN Junk ELSE data[a]
BY DEF Forget

LEMMA LogIs ==
    ASSUME NEW map, NEW bytes, DiskLog(map, bytes), NEW a \in Addr
    PROVE  data'[a] \in {bytes[a], Log}
BY DEF DiskLog

LEMMA ShapeStep ==
    ASSUME FsDataTypeOK, ShapeOK, [Next]_vars
    PROVE  FsDataTypeOK' /\ ShapeOK' /\ Contained
<1> USE Names
<1>1. ASSUME NEW d \in Desc, NEW f \in File, Create(d, f)
      PROVE  FsDataTypeOK' /\ ShapeOK' /\ Contained
    <2>1. FsDataTypeOK' /\ ShapeOK' /\ (Halt \/ Created(d, f))
        BY <1>1, CreateShape
    <2>2. \A a \in Addr : data'[a] \in {data[a], Junk, Log}
        BY <2>1, ForgetIs DEF Halt, Created
    <2> QED  BY <2>1, <2>2, OnlyForgotten
<1>2. ASSUME NEW d \in Desc, NEW f \in Regular, Open(d, f)
      PROVE  FsDataTypeOK' /\ ShapeOK' /\ Contained
    <2>1. Exists(f) /\ Connect(d, f) /\ UNCHANGED <<smap, inode, data, logged, halted>>
        BY <1>2 DEF Open
    <2> QED  BY <2>1, ConnectShape, OnlyForgotten
<1>3. ASSUME NEW d \in Desc, NEW f \in File, OpenTrunc(d, f)
      PROVE  FsDataTypeOK' /\ ShapeOK' /\ Contained
    <2>1. FsDataTypeOK' /\ ShapeOK'
        BY <1>3, OpenTruncShape
    <2>2. data' = Forget(f, inode[f].i_start_sect, inode[f].i_nr_sects)
        BY <1>3 DEF OpenTrunc
    <2>3. \A a \in Addr : data'[a] \in {data[a], Junk, Log}
        BY <2>2, ForgetIs
    <2> QED  BY <2>1, <2>3, OnlyForgotten
<1>4. ASSUME NEW d \in Desc, Close(d)
      PROVE  FsDataTypeOK' /\ ShapeOK' /\ Contained
    <2>1. data' = data
        BY <1>4 DEF Close
    <2> QED  BY <1>4, <2>1, CloseShape, OnlyForgotten
<1>5. ASSUME NEW d \in Desc, NEW pos \in 0..(NrSects * SECTOR_SIZE), Lseek(d, pos)
      PROVE  FsDataTypeOK' /\ ShapeOK' /\ Contained
    <2>1. data' = data /\ pos \in Nat
        BY <1>5 DEF Lseek
    <2> QED  BY <1>5, <2>1, LseekShape, OnlyForgotten
<1>6. ASSUME NEW d \in Desc, NEW len \in 1..MaxLen, Read(d, len)
      PROVE  FsDataTypeOK' /\ ShapeOK' /\ Contained
    <2>1. data' = data
        BY <1>6 DEF Read
    <2> QED  BY <1>6, <2>1, ReadShape, OnlyForgotten
<1>7. ASSUME NEW d \in Desc, NEW len \in 1..MaxLen, Write(d, len)
      PROVE  FsDataTypeOK' /\ ShapeOK' /\ Contained
    <2> DEFINE f     == desc[d].fd_inode
               first == Byte0(f) + desc[d].fd_pos
    <2>1. FsDataTypeOK' /\ ShapeOK'
        BY <1>7, WriteShape
    <2>2. PICK n \in Nat :
                /\ MovesOn(d, n)
                /\ data' = [a \in Addr |-> IF a \in first..(first + n - 1)
                                           THEN f ELSE data[a]]
        BY <1>7, WriteShape
    <2>3. /\ f \in Regular /\ desc[d].fd_pos + n <= Room(f) + SECTOR_SIZE
          /\ desc[d].fd_pos \in Nat
        BY <2>2 DEF MovesOn, FsDataTypeOK
    <2>4. Byte0(f) \in Nat /\ Room(f) \in Nat /\ SECTOR_SIZE \in Nat
        BY <2>3, FileIs, Constants
    <2>5. ASSUME NEW a \in first..(first + n - 1)
          PROVE  a \in Byte0(f)..(Byte0(f) + Room(f) + SECTOR_SIZE - 1)
        <3> HIDE DEF f
        <3> QED  BY <2>3, <2>4
    <2>6. Contained
        BY <2>2, <2>5 DEF Contained
    <2> QED  BY <2>1, <2>6
<1>8. ASSUME NEW f \in Regular, Unlink(f)
      PROVE  FsDataTypeOK' /\ ShapeOK' /\ Contained
    <2>1. /\ FsDataTypeOK' /\ ShapeOK'
          /\ Halt \/ Removed(f) \/ DiskLog(smap, data)
        BY <1>8, UnlinkShape
    <2>2. \A a \in Addr : data'[a] \in {data[a], Junk, Log}
        <3>1. CASE Halt
            BY <3>1 DEF Halt
        <3>2. CASE Removed(f)
            BY <3>2, LogIs, ForgetIs DEF Removed
        <3>3. CASE DiskLog(smap, data)
            BY <3>3, LogIs
        <3> QED  BY <2>1, <3>1, <3>2, <3>3
    <2> QED  BY <2>1, <2>2, OnlyForgotten
<1>9. CASE UNCHANGED vars
    BY <1>9 DEF vars, FsDataTypeOK, ShapeOK, Contained, Exists, Room
<1>10. {e \in Desc : desc[e].fd_inode \in File} \subseteq Desc
    OBVIOUS
<1> QED
    BY <1>1, <1>2, <1>3, <1>4, <1>5, <1>6, <1>7, <1>8, <1>9, <1>10 DEF Next

(* The types of the state, what files and descriptors look like, and that  *)
(* a position is at most one sector behind its file.                       *)
THEOREM FsDataShape == Spec => [](FsDataTypeOK /\ ShapeOK)
<1>1. (FsDataTypeOK /\ ShapeOK) /\ [Next]_vars => (FsDataTypeOK /\ ShapeOK)'
    BY ShapeStep
<1> QED  BY <1>1, ShapeInit, PTL DEF Spec

(* A WRITE of any length at any position, and a READ that moves the size   *)
(* along, go one sector beyond the file at most, although the last chunk   *)
(* of do_rdwt may be longer than what is left of the file.                 *)
THEOREM OverrunsOneSector == Spec => OverrunOneSector
<1>1. (FsDataTypeOK /\ ShapeOK) /\ [Next]_vars =>
        [/\ \A f \in Regular : inode'[f].i_size <= Room(f)' + SECTOR_SIZE
         /\ \A a \in Addr, f \in Regular :
               data[a] # f /\ data'[a] = f =>
                   a \in Byte0(f)..(Byte0(f) + Room(f) + SECTOR_SIZE - 1)]_vars
    BY ShapeStep DEF ShapeOK, Contained
<1> QED  BY <1>1, FsDataShape, PTL DEF Spec, OverrunOneSector

-----------------------------------------------------------------------------
(* The sector map, as long as the files fit before the log *)

\* The bit b is one of the file's.
Owns(f, b) == Exists(f) /\ inode[f].i_start_sect < b /\ b <= End(f)

(* A new file goes before the log: before its run there are only the bits  *)
(* of the other files, and there are not enough of them to push it there.  *)
LEMMA RunFits ==
    ASSUME FilesFit, FsDataTypeOK, ShapeOK, PlacesOK, RunFree,
           NEW f \in File, ~Exists(f)
    PROVE  FirstFree - 1 + NR_FILE_SECTS <= LogStart
<1> DEFINE c == Cardinality(File)
           K == (c * NR_FILE_SECTS) + INSTALL_NR_SECTS + 1
           Others == (File \ {f}) \cup {Root}
           Slots == (Others \X (1..NR_FILE_SECTS)) \cup ({CmdTar} \X (1..INSTALL_NR_SECTS))
<1> USE Names
<1>1. /\ c \in Nat /\ c * NR_FILE_SECTS \in Nat /\ K \in Nat \ {0}
      /\ NR_FILE_SECTS \in Nat \ {0} /\ INSTALL_NR_SECTS \in Nat \ {0}
      /\ n_1st_sect \in Nat \ {0} /\ LogStart \in Int
      /\ K + NR_FILE_SECTS <= LogStart + 1
    <2>1. c \in Nat /\ (c + 1) * NR_FILE_SECTS + INSTALL_NR_SECTS <= LogStart
        BY FS_CardinalityType DEF FilesFit
    <2> HIDE DEF c
    <2>2. c * NR_FILE_SECTS \in Nat
        BY <2>1, Constants, Product
    <2>3. (c + 1) * NR_FILE_SECTS = c * NR_FILE_SECTS + NR_FILE_SECTS
        BY <2>1, Constants
    <2> DEFINE x == c * NR_FILE_SECTS
    <2>4. x \in Nat /\ x + NR_FILE_SECTS + INSTALL_NR_SECTS <= LogStart
        BY <2>1, <2>2, <2>3
    <2> HIDE DEF x
    <2>5. /\ x + INSTALL_NR_SECTS + 1 \in Nat \ {0}
          /\ x + INSTALL_NR_SECTS + 1 + NR_FILE_SECTS <= LogStart + 1
        BY <2>4, Constants
    <2> QED  BY <2>1, <2>2, <2>5, Constants DEF x
<1>2. IsFiniteSet(Others) /\ Cardinality(Others) = c
    <2>1. IsFiniteSet(File \ {f}) /\ Cardinality(File \ {f}) = c - 1
        BY FS_RemoveElement DEF FilesFit
    <2>2. Root \notin File \ {f}
        OBVIOUS
    <2>3. IsFiniteSet(Others) /\ Cardinality(Others) = c - 1 + 1
        BY <2>1, <2>2, FS_AddElement
    <2> QED  BY <1>1, <2>3
<1>3. IsFiniteSet(Slots) /\ Cardinality(Slots) = K - 1
    <2> HIDE DEF c, Others
    <2>1. /\ IsFiniteSet(1..NR_FILE_SECTS) /\ Cardinality(1..NR_FILE_SECTS) = NR_FILE_SECTS
          /\ IsFiniteSet(1..INSTALL_NR_SECTS)
          /\ Cardinality(1..INSTALL_NR_SECTS) = INSTALL_NR_SECTS
        <3>1. 1 \in Int /\ NR_FILE_SECTS \in Int /\ INSTALL_NR_SECTS \in Int
            BY <1>1
        <3>2. ASSUME NEW n \in Nat \ {0} PROVE IsFiniteSet(1..n) /\ Cardinality(1..n) = n
            <4>1. IsFiniteSet(1..n) /\ Cardinality(1..n) = IF 1 > n THEN 0 ELSE n - 1 + 1
                BY <3>1, FS_Interval
            <4> QED  BY <4>1
        <3> QED  BY <1>1, <3>2
    <2>2. /\ IsFiniteSet(Others \X (1..NR_FILE_SECTS))
          /\ Cardinality(Others \X (1..NR_FILE_SECTS)) = c * NR_FILE_SECTS
        BY <1>2, <2>1, FS_Product
    <2>3. /\ IsFiniteSet({CmdTar} \X (1..INSTALL_NR_SECTS))
          /\ Cardinality({CmdTar} \X (1..INSTALL_NR_SECTS)) = INSTALL_NR_SECTS
        <3>1. IsFiniteSet({CmdTar}) /\ Cardinality({CmdTar}) = 1
            BY FS_Singleton
        <3>2. /\ IsFiniteSet({CmdTar} \X (1..INSTALL_NR_SECTS))
              /\ Cardinality({CmdTar} \X (1..INSTALL_NR_SECTS)) = 1 * INSTALL_NR_SECTS
            BY <2>1, <3>1, FS_Product
        <3> QED  BY <1>1, <3>2
    <2>4. (Others \X (1..NR_FILE_SECTS)) \cap ({CmdTar} \X (1..INSTALL_NR_SECTS)) = {}
        BY DEF Others, Root, CmdTar
    <2>5. /\ IsFiniteSet(Slots)
          /\ Cardinality(Slots) = c * NR_FILE_SECTS + INSTALL_NR_SECTS - 0
        BY <2>2, <2>3, <2>4, FS_Union, FS_EmptySet
    <2> QED  BY <1>1, <2>5
<1>4. FirstFree \in Nat \ {0} /\ \A b \in 0..(FirstFree - 1) : b \in smap
    BY RunIs
<1>5. SUFFICES ASSUME K < FirstFree PROVE FALSE
    <2> HIDE DEF K
    <2> QED  BY <1>1, <1>4
<1> HIDE DEF K, c
<1>6. \A b \in 1..K : \E g \in Others \cup {CmdTar} : Owns(g, b)
    <2>1. SUFFICES ASSUME NEW b \in 1..K
                   PROVE  \E g \in Others \cup {CmdTar} : Owns(g, b)
        OBVIOUS
    <2>2. b \in Nat /\ b # 0 /\ b \in smap /\ b <= LogStart
        BY <1>1, <1>4, <1>5
    <2>3. b \notin LogBits
        BY <1>1, <2>2 DEF LogBits
    <2>4. PICK g \in Regular \cup {Root} : Owns(g, b)
        BY <2>2, <2>3 DEF PlacesOK, Owns
    <2>5. g # f
        BY <2>4 DEF Owns
    <2> QED  BY <2>4, <2>5
<1> DEFINE owner(b) == CHOOSE g \in Others \cup {CmdTar} : Owns(g, b)
           slot == [b \in 1..K |-> <<owner(b), b - inode[owner(b)].i_start_sect>>]
<1>7. \A b \in 1..K : owner(b) \in Others \cup {CmdTar} /\ Owns(owner(b), b)
    BY <1>6
<1>8. slot \in [1..K -> Slots]
    <2>1. SUFFICES ASSUME NEW b \in 1..K
                   PROVE  <<owner(b), b - inode[owner(b)].i_start_sect>> \in Slots
        OBVIOUS
    <2>2. PICK g \in Others \cup {CmdTar} : g = owner(b) /\ Owns(g, b)
        BY <1>7
    <2>3. /\ inode[g].i_start_sect \in Nat /\ inode[g].i_nr_sects \in Nat
          /\ inode[g].i_nr_sects > 0
        BY <2>2, FileIs DEF Owns, Exists
    <2>4. b - inode[g].i_start_sect \in 1..inode[g].i_nr_sects
        BY <1>1, <2>2, <2>3 DEF Owns, End
    <2>5. /\ g \in Others => inode[g].i_nr_sects = NR_FILE_SECTS
          /\ g = CmdTar => inode[g].i_nr_sects = INSTALL_NR_SECTS
        BY <2>3 DEF ShapeOK, NoInode
    <2>6. <<g, b - inode[g].i_start_sect>> \in Slots
        <3> HIDE DEF owner
        <3>1. g \in Others => <<g, b - inode[g].i_start_sect>> \in Others \X (1..NR_FILE_SECTS)
            BY <2>4, <2>5
        <3>2. g = CmdTar => <<g, b - inode[g].i_start_sect>>
                                \in {CmdTar} \X (1..INSTALL_NR_SECTS)
            BY <2>4, <2>5
        <3> QED  BY <2>2, <3>1, <3>2
    <2> HIDE DEF Slots, owner
    <2> QED  BY <2>2, <2>6
<1>9. IsFiniteSet(1..K) /\ Cardinality(Slots) < Cardinality(1..K)
    <2>1. 1 \in Int /\ K \in Int
        BY <1>1
    <2>2. IsFiniteSet(1..K) /\ Cardinality(1..K) = IF 1 > K THEN 0 ELSE K - 1 + 1
        BY <2>1, FS_Interval
    <2> HIDE DEF Slots
    <2> QED  BY <1>1, <1>3, <2>2
<1>10. PICK x, y \in 1..K : x # y /\ slot[x] = slot[y]
    <2> HIDE DEF Slots, slot
    <2>1. /\ IsFiniteSet(1..K) /\ IsFiniteSet(Slots)
          /\ Cardinality(Slots) < Cardinality(1..K) /\ slot \in [1..K -> Slots]
        BY <1>3, <1>8, <1>9
    <2>2. PICK S, T, h : S = 1..K /\ T = Slots /\ h = slot
        OBVIOUS
    <2>3. /\ IsFiniteSet(S) /\ IsFiniteSet(T) /\ Cardinality(T) < Cardinality(S)
          /\ h \in [S -> T]
        BY <2>1, <2>2
    <2>4. \E x, y \in S : x # y /\ h[x] = h[y]
        BY ONLY <2>3, FS_PigeonHole
    <2> QED  BY <2>2, <2>4
<1> HIDE DEF owner
<1>11. owner(x) = owner(y) /\ x - inode[owner(x)].i_start_sect = y - inode[owner(y)].i_start_sect
    BY <1>10
<1>12. inode[owner(x)].i_start_sect \in Nat
    <2>1. owner(x) \in Regular \cup {Root}
        BY <1>7
    <2> QED  BY <2>1, FileIs
<1>13. PICK n \in Nat : x - n = y - n
    BY <1>11, <1>12
<1>14. x \in Nat /\ y \in Nat
    BY <1>1
<1>15. x = y
    BY ONLY <1>14, x - n = y - n, n \in Nat
<1> QED
    BY <1>10, <1>15

LEMMA PlacesInit == Init => PlacesOK
<1> SUFFICES ASSUME Init PROVE PlacesOK
    OBVIOUS
<1> USE Constants, Names
<1>1. /\ inode[CmdTar].i_start_sect = INSTALL_START
      /\ inode[CmdTar].i_nr_sects = INSTALL_NR_SECTS
      /\ inode[Root].i_start_sect = 0 /\ inode[Root].i_nr_sects = NR_FILE_SECTS
      /\ \A f \in File : inode[f].i_nr_sects = 0
      /\ ~logged
    BY DEF Init, NoInode
<1>2. /\ Exists(CmdTar) /\ Exists(Root) /\ \A f \in File : ~Exists(f)
      /\ End(CmdTar) = INSTALL_START + INSTALL_NR_SECTS /\ End(Root) = NR_FILE_SECTS
    BY <1>1 DEF Exists, End
<1>3. \A f, g \in Regular \cup {Root} :
         f # g /\ Exists(f) /\ Exists(g) =>
            End(f) <= inode[g].i_start_sect \/ End(g) <= inode[f].i_start_sect
    BY <1>1, <1>2
<1>4. \A f \in Regular : Exists(f) => End(f) <= LogStart
    BY <1>2
<1>5. ASSUME NEW b \in Nat
      PROVE  b \in smap <=> \/ b = 0
                            \/ \E f \in Regular \cup {Root} :
                                  Exists(f) /\ inode[f].i_start_sect < b /\ b <= End(f)
    <2>1. smap = 0..NR_FILE_SECTS
                 \cup {INSTALL_START + i + 1 : i \in 0..(INSTALL_NR_SECTS - 1)}
        BY DEF Init, BitOf
    <2>2. b \in smap <=> \/ b <= NR_FILE_SECTS
                         \/ INSTALL_START < b /\ b <= INSTALL_START + INSTALL_NR_SECTS
        <3>1. ASSUME INSTALL_START < b, b <= INSTALL_START + INSTALL_NR_SECTS
              PROVE  b \in {INSTALL_START + i + 1 : i \in 0..(INSTALL_NR_SECTS - 1)}
            <4>1. /\ b - INSTALL_START - 1 \in 0..(INSTALL_NR_SECTS - 1)
                  /\ b = INSTALL_START + (b - INSTALL_START - 1) + 1
                BY <3>1
            <4> QED  BY <4>1
        <3>2. ASSUME NEW i \in 0..(INSTALL_NR_SECTS - 1), b = INSTALL_START + i + 1
              PROVE  INSTALL_START < b /\ b <= INSTALL_START + INSTALL_NR_SECTS
            BY <3>2
        <3> QED  BY <2>1, <3>1, <3>2
    <2> QED  BY <1>1, <1>2, <2>2
<1> QED
    BY <1>1, <1>3, <1>4, <1>5 DEF PlacesOK

LEMMA PlacesKept ==
    ASSUME PlacesOK, SamePlaces, smap' = smap, logged' = logged
    PROVE  PlacesOK'
BY SameFiles DEF PlacesOK, SamePlaces

\* Files end before the log, the root directory too.
LEMMA EndsBeforeLog ==
    ASSUME FsDataTypeOK, ShapeOK, PlacesOK, NEW f \in Regular \cup {Root}, Exists(f)
    PROVE  End(f) <= LogStart
<1>1. End(Root) = 0 + NR_FILE_SECTS
    BY DEF ShapeOK, End
<1> QED
    BY <1>1, Constants DEF PlacesOK

\* The bits of the log are above those of the files.
LEMMA LogBitsAbove ==
    ASSUME FsDataTypeOK, ShapeOK, PlacesOK, NEW b \in LogBits
    PROVE  /\ b \in Nat \ {0} /\ b > LogStart
           /\ \A f \in Regular \cup {Root} : Exists(f) => End(f) < b
<1>1. b \in Nat \ {0} /\ b > LogStart
    BY Constants DEF LogBits
<1>2. ASSUME NEW f \in Regular \cup {Root}, Exists(f) PROVE End(f) < b
    <2>1. End(f) \in Nat
        BY FileIs
    <2>2. End(f) <= LogStart /\ LogStart \in Int
        BY <1>2, EndsBeforeLog, Constants
    <2> QED  BY <1>1, <2>1, <2>2
<1> QED
    BY <1>1, <1>2

\* The run of a new file lies apart from the files there are.
LEMMA RunApart ==
    ASSUME FsDataTypeOK, PlacesOK, RunFree, NEW g \in Regular \cup {Root}, Exists(g)
    PROVE  \/ FirstFree - 1 + NR_FILE_SECTS <= inode[g].i_start_sect
           \/ End(g) <= FirstFree - 1
<1>1. /\ FirstFree \in Nat \ {0} /\ Run \cap smap = {}
      /\ Run = FirstFree..(FirstFree + NR_FILE_SECTS - 1)
    BY RunIs
<1> DEFINE s == inode[g].i_start_sect
           e == End(g)
           k == FirstFree
           n == NR_FILE_SECTS
<1>2. s \in Nat /\ e \in Nat /\ s < e /\ n \in Nat \ {0} /\ k \in Nat \ {0}
    <2>1. s \in Nat /\ inode[g].i_nr_sects \in Nat
        BY FileIs
    <2>2. inode[g].i_nr_sects > 0 /\ e = s + inode[g].i_nr_sects
        BY DEF Exists, End
    <2>3. n \in Nat \ {0} /\ k \in Nat \ {0}
        BY <1>1, Constants
    <2> HIDE DEF s, e, n, k
    <2> QED  BY <2>1, <2>2, <2>3
<1>3. \A b \in Nat : s < b /\ b <= e => b \in smap
    BY DEF PlacesOK
<1>4. \A b \in Nat : s < b /\ b <= e => ~(k <= b /\ b <= k + n - 1)
    <2>1. \A b \in Nat : k <= b /\ b <= k + n - 1 => b \notin smap
        BY <1>1, <1>2
    <2> QED  BY <1>3, <2>1
<1> HIDE DEF s, e, k, n
<1>5. ASSUME s < k - 1 + n, k - 1 < e PROVE FALSE
    <2>1. CASE k <= s
        <3>1. s + 1 \in Nat /\ s < s + 1 /\ s + 1 <= e /\ k <= s + 1 /\ s + 1 <= k + n - 1
            BY <1>2, <1>5, <2>1
        <3> QED  BY <1>4, <3>1
    <2>2. CASE s < k
        <3>1. s < k /\ k <= e /\ k <= k /\ k <= k + n - 1
            BY <1>2, <1>5, <2>2
        <3> QED  BY <1>2, <1>4, <3>1
    <2> QED  BY <1>2, <2>1, <2>2
<1>6. k - 1 + n <= s \/ e <= k - 1
    BY <1>2, <1>5
<1> QED
    BY <1>6 DEF s, e, k, n

LEMMA CreatePlaces ==
    ASSUME FilesFit, FsDataTypeOK, ShapeOK, PlacesOK, NEW d \in Desc, NEW f \in File,
           Created(d, f)
    PROVE  PlacesOK'
<1> USE Names
<1> DEFINE k == FirstFree
           n == NR_FILE_SECTS
<1>1. /\ RunFree /\ ~Exists(f)
      /\ inode'[f].i_start_sect = k - 1 /\ inode'[f].i_nr_sects = n
      /\ \A g \in (Regular \cup {Root}) \ {f} : inode'[g] = inode[g]
      /\ smap' = smap \cup Run /\ logged' = logged
    BY DEF Created
<1>2. /\ k \in Nat \ {0} /\ n \in Nat \ {0} /\ Run = k..(k + n - 1)
      /\ k - 1 + n <= LogStart
    BY <1>1, RunIs, RunFits, Constants
<1>3. ASSUME NEW g \in (Regular \cup {Root}) \ {f}
      PROVE  /\ Exists(g)' = Exists(g) /\ End(g)' = End(g)
             /\ inode'[g].i_start_sect = inode[g].i_start_sect
    BY <1>1 DEF Exists, End
<1>4. ASSUME NEW g \in Regular \cup {Root}, Exists(g)
      PROVE  k - 1 + n <= inode[g].i_start_sect \/ End(g) <= k - 1
    BY <1>1, <1>4, RunApart
<1> HIDE DEF k, n
<1>5. Exists(f)' /\ End(f)' = k - 1 + n
    BY <1>1, <1>2 DEF Exists, End
<1>6. \A g, h \in Regular \cup {Root} :
         g # h /\ Exists(g)' /\ Exists(h)' =>
            End(g)' <= inode'[h].i_start_sect \/ End(h)' <= inode'[g].i_start_sect
    <2>1. SUFFICES ASSUME NEW g \in Regular \cup {Root}, NEW h \in Regular \cup {Root},
                          g # h, Exists(g)', Exists(h)'
                   PROVE  End(g)' <= inode'[h].i_start_sect \/ End(h)' <= inode'[g].i_start_sect
        OBVIOUS
    <2>2. CASE g = f
        BY <1>1, <1>3, <1>4, <1>5, <2>1, <2>2
    <2>3. CASE h = f
        BY <1>1, <1>3, <1>4, <1>5, <2>1, <2>3
    <2>4. CASE g # f /\ h # f
        BY <1>3, <2>1, <2>4 DEF PlacesOK
    <2> QED  BY <2>2, <2>3, <2>4
<1>7. \A g \in Regular : Exists(g)' => End(g)' <= LogStart
    <2>1. ASSUME NEW g \in Regular, Exists(g)' PROVE End(g)' <= LogStart
        <3>1. CASE g = f
            BY <1>2, <1>5, <3>1
        <3>2. CASE g # f
            BY <1>3, <2>1, <3>2 DEF PlacesOK
        <3> QED  BY <3>1, <3>2
    <2> QED  BY <2>1
<1>8. \A b \in Nat : b \in smap' <=>
         \/ b = 0
         \/ logged' /\ b \in LogBits
         \/ \E g \in Regular \cup {Root} :
               Exists(g)' /\ inode'[g].i_start_sect < b /\ b <= End(g)'
    <2>1. SUFFICES ASSUME NEW b \in Nat
                   PROVE  b \in smap' <=>
                             \/ b = 0
                             \/ logged' /\ b \in LogBits
                             \/ \E g \in Regular \cup {Root} :
                                   Exists(g)' /\ inode'[g].i_start_sect < b /\ b <= End(g)'
        OBVIOUS
    <2>2. b \in Run <=> inode'[f].i_start_sect < b /\ b <= End(f)'
        BY <1>1, <1>2, <1>5
    <2>3. b \in smap <=>
             \/ b = 0
             \/ logged /\ b \in LogBits
             \/ \E g \in (Regular \cup {Root}) \ {f} :
                   Exists(g) /\ inode[g].i_start_sect < b /\ b <= End(g)
        BY <1>1 DEF PlacesOK
    <2> QED  BY <1>1, <1>3, <1>5, <2>2, <2>3
<1> QED
    BY <1>6, <1>7, <1>8 DEF PlacesOK

\* The first time the log is started its bits are clear, so FS goes on.
LEMMA LogStarts ==
    ASSUME FsDataTypeOK, ShapeOK, PlacesOK, NEW map, NEW bytes, DiskLog(map, bytes),
           map \subseteq smap, logged => LogBits \subseteq map
    PROVE  logged' = TRUE /\ halted' = halted /\ smap' = map \cup LogBits
<1>1. ~logged => LogBits \cap map = {}
    <2>1. ASSUME ~logged, NEW b \in LogBits PROVE b \notin smap
        <3>1. /\ b \in Nat \ {0}
              /\ \A f \in Regular \cup {Root} :
                    Exists(f) => End(f) < b /\ End(f) \in Nat
            BY LogBitsAbove, FileIs
        <3> QED  BY <2>1, <3>1 DEF PlacesOK
    <2> QED  BY <2>1
<1>2. logged \in BOOLEAN
    BY DEF FsDataTypeOK
<1> QED
    BY <1>1, <1>2 DEF DiskLog

LEMMA UnlinkPlaces ==
    ASSUME FsDataTypeOK, ShapeOK, PlacesOK, NEW f \in Regular,
           \/ Removed(f)
           \/ DiskLog(smap, data) /\ UNCHANGED inode
    PROVE  PlacesOK'
<1> USE Names
<1>1. \A b \in LogBits : b \in Nat
    BY LogBitsAbove
<1>2. logged => LogBits \subseteq smap
    BY <1>1 DEF PlacesOK
<1>3. CASE DiskLog(smap, data) /\ UNCHANGED inode
    <2>1. logged' = TRUE /\ smap' = smap \cup LogBits
        BY <1>2, <1>3, LogStarts
    <2>2. SamePlaces
        BY <1>3 DEF SamePlaces
    <2>3. \A b \in Nat : b \in smap' <=>
             \/ b = 0
             \/ b \in LogBits
             \/ \E g \in Regular \cup {Root} :
                   Exists(g) /\ inode[g].i_start_sect < b /\ b <= End(g)
        BY <2>1 DEF PlacesOK
    <2> QED  BY <2>1, <2>2, <2>3, SameFiles DEF PlacesOK, SamePlaces
<1>4. CASE Removed(f)
    <2> DEFINE bits == (inode[f].i_start_sect + 1)..End(f)
    <2>1. /\ Exists(f) /\ inode'[f] = NoInode
          /\ \A g \in (Regular \cup {Root}) \ {f} : inode'[g] = inode[g]
          /\ DiskLog(smap \ bits, Forget(f, inode[f].i_start_sect, inode[f].i_nr_sects))
        BY <1>4 DEF Removed
    <2>2. /\ inode[f].i_start_sect \in Nat /\ End(f) \in Nat
          /\ \A b \in Nat : b \in bits <=> inode[f].i_start_sect < b /\ b <= End(f)
        <3> DEFINE s == inode[f].i_start_sect
                   e == End(f)
        <3>1. s \in Nat /\ e \in Nat
            BY FileIs
        <3> HIDE DEF s, e
        <3>2. \A b \in Nat : b \in (s + 1)..e <=> s < b /\ b <= e
            BY <3>1
        <3> QED  BY <3>1, <3>2 DEF s, e
    <2> HIDE DEF bits
    <2>3. \A b \in LogBits : b \notin bits
        <3>1. ASSUME NEW b \in LogBits PROVE b \in Nat /\ End(f) < b
            BY <2>1, LogBitsAbove
        <3> QED  BY <2>2, <3>1
    <2>4. logged' = TRUE /\ smap' = (smap \ bits) \cup LogBits
        BY <1>2, <2>1, <2>3, LogStarts
    <2>5. ASSUME NEW g \in (Regular \cup {Root}) \ {f}
          PROVE  /\ Exists(g)' = Exists(g) /\ End(g)' = End(g)
                 /\ inode'[g].i_start_sect = inode[g].i_start_sect
        BY <2>1 DEF Exists, End
    <2>6. ~Exists(f)'
        BY <2>1 DEF Exists, NoInode
    <2>7. ASSUME NEW g \in (Regular \cup {Root}) \ {f}, Exists(g),
                 NEW b \in Nat, inode[g].i_start_sect < b, b <= End(g)
          PROVE  b \notin bits
        <3>1. End(f) <= inode[g].i_start_sect \/ End(g) <= inode[f].i_start_sect
            BY <2>1, <2>7 DEF PlacesOK
        <3>2. inode[g].i_start_sect \in Nat /\ End(g) \in Nat
            BY FileIs
        <3> QED  BY <2>2, <2>7, <3>1, <3>2
    <2>8. \A b \in Nat : b \in smap' <=>
             \/ b = 0
             \/ b \in LogBits
             \/ \E g \in (Regular \cup {Root}) \ {f} :
                   Exists(g) /\ inode[g].i_start_sect < b /\ b <= End(g)
        <3>1. SUFFICES ASSUME NEW b \in Nat
                       PROVE  b \in smap' <=>
                                 \/ b = 0
                                 \/ b \in LogBits
                                 \/ \E g \in (Regular \cup {Root}) \ {f} :
                                       Exists(g) /\ inode[g].i_start_sect < b /\ b <= End(g)
            OBVIOUS
        <3>2. b \in smap <=>
                 \/ b = 0
                 \/ logged /\ b \in LogBits
                 \/ inode[f].i_start_sect < b /\ b <= End(f)
                 \/ \E g \in (Regular \cup {Root}) \ {f} :
                       Exists(g) /\ inode[g].i_start_sect < b /\ b <= End(g)
            BY <2>1 DEF PlacesOK
        <3>3. 0 \notin bits
            BY <2>2
        <3> QED  BY <2>2, <2>4, <2>7, <3>2, <3>3
    <2> QED  BY <2>4, <2>5, <2>6, <2>8 DEF PlacesOK
<1> QED
    BY <1>3, <1>4

-----------------------------------------------------------------------------
(* The bytes of files, as long as the files fit before the log *)

\* The bytes of f that a READ returns are its own.
Own(f) == \A b \in 0..(Less(inode[f].i_size, Room(f)) - 1) : data[Byte0(f) + b] = f

InRoom(f, a) == Byte0(f) <= a /\ a < Byte0(f) + Room(f)

\* The bytes that f has room for are on the disk, before the log.
LEMMA RoomOnDisk ==
    ASSUME FsDataTypeOK, PlacesOK, NEW f \in Regular, NEW b \in Nat, b < Room(f)
    PROVE  /\ Exists(f) /\ Byte0(f) + b \in Addr /\ InRoom(f, Byte0(f) + b)
           /\ Byte0(f) + b < LogStart * SECTOR_SIZE
<1>1. /\ inode[f].i_nr_sects \in Nat /\ Room(f) = inode[f].i_nr_sects * SECTOR_SIZE
      /\ Room(f) \in Nat /\ Byte0(f) \in Nat /\ End(f) \in Nat
      /\ Byte0(f) + Room(f) = End(f) * SECTOR_SIZE
    BY FileIs
<1>2. /\ SECTOR_SIZE \in Nat \ {0} /\ LogStart \in Int /\ NrSects \in Nat
      /\ LogStart <= NrSects
    BY Constants
<1>3. Exists(f)
    <2>1. ASSUME inode[f].i_nr_sects = 0 PROVE FALSE
        BY <1>1, <1>2, <2>1
    <2> QED  BY <1>1, <2>1 DEF Exists
<1>4. End(f) <= LogStart
    BY <1>3 DEF PlacesOK
<1> DEFINE e == End(f) * SECTOR_SIZE
           l == LogStart * SECTOR_SIZE
           m == NrSects * SECTOR_SIZE
<1>5. e <= l /\ l <= m /\ e \in Int /\ l \in Int /\ m \in Int
    <2>1. ASSUME NEW x \in Int, NEW y \in Int, x <= y
          PROVE  x * SECTOR_SIZE <= y * SECTOR_SIZE
        BY <1>2, <2>1
    <2>2. ASSUME NEW x \in Int PROVE x * SECTOR_SIZE \in Int
        BY <1>2
    <2>3. End(f) \in Int /\ NrSects \in Int
        BY <1>1, <1>2
    <2> QED  BY <1>2, <1>4, <2>1, <2>2, <2>3
<1>6. Byte0(f) + Room(f) = e
    BY <1>1
<1> HIDE DEF e, l, m
<1>7. /\ Byte0(f) + b \in 0..(m - 1) /\ Byte0(f) + b < l
      /\ Byte0(f) <= Byte0(f) + b /\ Byte0(f) + b < Byte0(f) + Room(f)
    BY <1>1, <1>5, <1>6
<1> QED
    BY <1>3, <1>7 DEF Addr, InRoom, l, m

\* Sectors apart from those of a file are apart byte by byte.
LEMMA ForgetApart ==
    ASSUME FsDataTypeOK, NEW g \in Regular, NEW f, NEW st \in Nat, NEW n \in Nat,
           st + n <= inode[g].i_start_sect \/ End(g) <= st,
           NEW a \in Addr, InRoom(g, a)
    PROVE  Forget(f, st, n)[a] = data[a]
<1>1. /\ inode[g].i_start_sect \in Nat /\ End(g) \in Nat
      /\ Byte0(g) = inode[g].i_start_sect * SECTOR_SIZE
      /\ Byte0(g) + Room(g) = End(g) * SECTOR_SIZE
    BY FileIs
<1>2. SECTOR_SIZE \in Nat /\ a \in Int
    BY Constants DEF Addr
<1>3. ASSUME NEW x \in Int, NEW y \in Int, x <= y
      PROVE  /\ x * SECTOR_SIZE <= y * SECTOR_SIZE
             /\ x * SECTOR_SIZE \in Int /\ y * SECTOR_SIZE \in Int
    BY <1>2, <1>3
<1>4. ~(st * SECTOR_SIZE <= a /\ a < (st + n) * SECTOR_SIZE)
    <2> DEFINE s == inode[g].i_start_sect
               e == End(g)
               u == st + n
    <2>1. s \in Int /\ e \in Int /\ u \in Int /\ st \in Int
        BY <1>1
    <2>2. s * SECTOR_SIZE <= a /\ a < e * SECTOR_SIZE
        BY <1>1 DEF InRoom
    <2>3. u <= s \/ e <= st
        OBVIOUS
    <2> HIDE DEF s, e, u
    <2>4. CASE u <= s
        <3>1. u * SECTOR_SIZE <= s * SECTOR_SIZE
              /\ u * SECTOR_SIZE \in Int /\ s * SECTOR_SIZE \in Int
            BY <1>3, <2>1, <2>4
        <3> DEFINE x == u * SECTOR_SIZE
                   y == s * SECTOR_SIZE
        <3>2. x <= y /\ x \in Int /\ y \in Int /\ y <= a
            BY <2>2, <3>1
        <3> HIDE DEF x, y
        <3>3. ~(a < x)
            BY <1>2, <3>2
        <3> QED  BY <3>3 DEF x, u
    <2>5. CASE e <= st
        <3>1. e * SECTOR_SIZE <= st * SECTOR_SIZE
              /\ e * SECTOR_SIZE \in Int /\ st * SECTOR_SIZE \in Int
            BY <1>3, <2>1, <2>5
        <3> DEFINE x == e * SECTOR_SIZE
                   y == st * SECTOR_SIZE
        <3>2. x <= y /\ x \in Int /\ y \in Int /\ a < x
            BY <2>2, <3>1
        <3> HIDE DEF x, y
        <3>3. ~(y <= a)
            BY <1>2, <3>2
        <3> QED  BY <3>3 DEF y
    <2> QED  BY <2>3, <2>4, <2>5
<1>5. ~(a \div SECTOR_SIZE \in st..(st + n - 1))
    BY <1>2, <1>4, InSectors
<1> QED
    BY <1>5, ForgetIs

\* A file that a step leaves alone, on the disk too.
LEMMA OwnKept ==
    ASSUME FsDataTypeOK, PlacesOK, DataIntact, NEW g \in Regular, g \notin damaged,
           inode'[g] = inode[g],
           \A a \in Addr : InRoom(g, a) => data'[a] = data[a]
    PROVE  Own(g)'
<1>1. Room(g)' = Room(g) /\ Byte0(g)' = Byte0(g)
    BY DEF Room, Byte0
<1>2. SUFFICES ASSUME NEW b \in 0..(Less(inode[g].i_size, Room(g)) - 1)
               PROVE  data'[Byte0(g) + b] = g
    BY <1>1 DEF Own
<1>3. inode[g].i_size \in Nat /\ Room(g) \in Nat
    BY FileIs
<1>4. b \in Nat /\ b < Room(g)
    BY <1>3 DEF Less
<1>5. Byte0(g) + b \in Addr /\ InRoom(g, Byte0(g) + b)
    BY <1>4, RoomOnDisk
<1> QED
    BY <1>5 DEF DataIntact

LEMMA RoomBeforeLog ==
    ASSUME FsDataTypeOK, PlacesOK, NEW g \in Regular, NEW a \in Addr, InRoom(g, a)
    PROVE  Exists(g) /\ a < LogStart * SECTOR_SIZE
<1> DEFINE b == a - Byte0(g)
<1>1. a \in Int /\ Byte0(g) \in Nat /\ Room(g) \in Nat
    <2>1. a \in Int
        BY Constants DEF Addr
    <2> QED  BY <2>1, FileIs
<1>2. b \in Nat /\ b < Room(g) /\ Byte0(g) + b = a
    BY <1>1 DEF InRoom
<1> HIDE DEF b
<1> QED
    BY <1>2, RoomOnDisk

\* Files that lie apart have no bytes in common.
LEMMA RoomsApart ==
    ASSUME FsDataTypeOK, PlacesOK, NEW f \in Regular, NEW g \in Regular, f # g,
           Exists(f), NEW a \in Addr, InRoom(g, a)
    PROVE  ~InRoom(f, a) /\ Forget(f, inode[f].i_start_sect, inode[f].i_nr_sects)[a] = data[a]
<1> DEFINE st == inode[f].i_start_sect
           n  == inode[f].i_nr_sects
<1>1. Exists(g)
    BY RoomBeforeLog
<1>2. /\ st \in Nat /\ n \in Nat /\ st + n = End(f)
      /\ Byte0(f) = st * SECTOR_SIZE /\ Byte0(f) + Room(f) = (st + n) * SECTOR_SIZE
    BY FileIs DEF End
<1>3. st + n <= inode[g].i_start_sect \/ End(g) <= st
    BY <1>1, <1>2 DEF PlacesOK
<1> HIDE DEF st, n
<1>4. Forget(f, st, n)[a] = data[a]
    BY <1>2, <1>3, ForgetApart
<1>5. a \in Int /\ SECTOR_SIZE \in Nat /\ SECTOR_SIZE # 0
    BY Constants DEF Addr
<1>6. ~InRoom(f, a)
    <2> DEFINE s == inode[g].i_start_sect
               e == End(g)
               u == st + n
    <2>1. /\ s \in Int /\ e \in Int /\ u \in Int /\ st \in Int
          /\ Byte0(g) = s * SECTOR_SIZE /\ Byte0(g) + Room(g) = e * SECTOR_SIZE
        <3>1. /\ s \in Nat /\ e \in Nat
              /\ Byte0(g) = s * SECTOR_SIZE /\ Byte0(g) + Room(g) = e * SECTOR_SIZE
            BY FileIs
        <3> HIDE DEF s, e
        <3> QED  BY <1>2, <3>1
    <2>2. s * SECTOR_SIZE <= a /\ a < e * SECTOR_SIZE
        BY <2>1 DEF InRoom
    <2>3. u <= s \/ e <= st
        BY <1>3
    <2>4. Byte0(f) = st * SECTOR_SIZE /\ Byte0(f) + Room(f) = u * SECTOR_SIZE
        BY <1>2
    <2> HIDE DEF s, e, u
    <2>5. ASSUME NEW x \in Int, NEW y \in Int, x <= y
          PROVE  x * SECTOR_SIZE <= y * SECTOR_SIZE
        BY <1>5, <2>5
    <2>6. ASSUME NEW x \in Int PROVE x * SECTOR_SIZE \in Int
        BY <1>5
    <2> DEFINE s1 == s * SECTOR_SIZE
               e1 == e * SECTOR_SIZE
               u1 == u * SECTOR_SIZE
               t1 == st * SECTOR_SIZE
    <2>7. /\ s1 \in Int /\ e1 \in Int /\ u1 \in Int /\ t1 \in Int
          /\ u1 <= s1 \/ e1 <= t1
        BY <2>1, <2>3, <2>5, <2>6
    <2>8. s1 <= a /\ a < e1 /\ Byte0(f) = t1 /\ Byte0(f) + Room(f) = u1
        BY <2>2, <2>4
    <2> HIDE DEF s1, e1, u1, t1
    <2> QED  BY <1>5, <2>7, <2>8 DEF InRoom
<1> QED
    BY <1>4, <1>6 DEF st, n

\* A file without bytes, or without room for any.
LEMMA OwnNothing ==
    ASSUME FsDataTypeOK', NEW f \in Regular,
           inode'[f].i_size = 0 \/ inode'[f].i_nr_sects = 0
    PROVE  Own(f)'
<1>1. inode'[f].i_size \in Nat /\ inode'[f].i_nr_sects \in Nat
    BY DEF FsDataTypeOK
<1>2. Room(f)' = inode'[f].i_nr_sects * SECTOR_SIZE /\ SECTOR_SIZE \in Nat
    BY Constants DEF Room
<1>3. Room(f)' \in Nat /\ (inode'[f].i_nr_sects = 0 => Room(f)' = 0)
    BY <1>1, <1>2, Product
<1>4. \A s, r \in Nat : s = 0 \/ r = 0 => 0..(Less(s, r) - 1) = {}
    BY DEF Less
<1> QED
    BY <1>1, <1>3, <1>4 DEF Own

LEMMA CreateData ==
    ASSUME FsDataTypeOK, FsDataTypeOK', ShapeOK, PlacesOK, NoHoles, DataIntact,
           NEW d \in Desc, NEW f \in File, Created(d, f)
    PROVE  NoHoles' /\ \A g \in Regular \ damaged' : Own(g)'
<1> USE Names
<1>1. /\ RunFree /\ ~Exists(f)
      /\ inode'[f].i_size = 0
      /\ \A g \in (Regular \cup {Root}) \ {f} : inode'[g] = inode[g]
      /\ desc'[d].fd_inode = f /\ desc'[d].fd_pos = 0
      /\ \A e \in Desc \ {d} : desc'[e] = desc[e]
      /\ data' = Forget(f, FirstFree - 1, NR_FILE_SECTS)
      /\ damaged' = damaged
    BY DEF Created
<1>2. NoHoles'
    <2>1. SUFFICES ASSUME NEW e \in Desc, NEW g \in Regular, desc'[e].fd_inode = g,
                          g \notin damaged'
                   PROVE  desc'[e].fd_pos <= inode'[g].i_size
        BY DEF FsDataTypeOK, NoHoles
    <2>2. CASE e = d
        BY <1>1, <2>1, <2>2
    <2>3. CASE e # d
        <3>1. desc[e].fd_inode = g /\ g # f
            BY <1>1, <2>1, <2>3 DEF ShapeOK
        <3> QED  BY <1>1, <2>1, <2>3, <3>1 DEF NoHoles
    <2> QED  BY <2>2, <2>3
<1>3. ASSUME NEW g \in Regular \ damaged', g # f PROVE Own(g)'
    <2>1. inode'[g] = inode[g] /\ g \notin damaged
        BY <1>1, <1>3
    <2>2. ASSUME NEW a \in Addr, InRoom(g, a) PROVE data'[a] = data[a]
        <3>1. Exists(g)
            BY <2>2, RoomBeforeLog
        <3>2. \/ FirstFree - 1 + NR_FILE_SECTS <= inode[g].i_start_sect
              \/ End(g) <= FirstFree - 1
            BY <1>1, <3>1, RunApart
        <3>3. FirstFree - 1 \in Nat /\ NR_FILE_SECTS \in Nat
            BY <1>1, RunIs, Constants
        <3> QED  BY <1>1, <2>2, <3>2, <3>3, ForgetApart
    <2> QED  BY <2>1, <2>2, OwnKept
<1>4. Own(f)'
    BY <1>1, OwnNothing
<1> QED
    BY <1>2, <1>3, <1>4

\* A step that writes nothing and changes no size of a file without damage.
LEMMA DataSame ==
    ASSUME DataIntact, SamePlaces, data' = data, damaged' = damaged,
           \A f \in Regular \ damaged : inode'[f].i_size = inode[f].i_size
    PROVE  \A f \in Regular \ damaged' : Own(f)'
BY SameFiles DEF DataIntact, Own

LEMMA OpenData ==
    ASSUME FsDataTypeOK, ShapeOK, NoHoles, DataIntact,
           NEW d \in Desc, NEW f \in Regular, Open(d, f)
    PROVE  NoHoles' /\ \A g \in Regular \ damaged' : Own(g)'
<1> USE Names
<1>1. Exists(f) /\ Connect(d, f) /\ UNCHANGED <<smap, inode, data, logged, damaged, halted>>
    BY DEF Open
<1>2. /\ SamePlaces /\ desc'[d].fd_inode = f /\ desc'[d].fd_pos = 0
      /\ \A e \in Desc \ {d} : desc'[e] = desc[e]
    BY <1>1, ConnectShape
<1>3. inode[f].i_size \in Nat
    BY FileIs
<1>4. NoHoles'
    BY <1>1, <1>2, <1>3 DEF NoHoles
<1> QED
    BY <1>1, <1>2, <1>4, DataSame

LEMMA CloseData ==
    ASSUME FsDataTypeOK, ShapeOK, NoHoles, DataIntact, NEW d \in Desc, Close(d)
    PROVE  NoHoles' /\ \A g \in Regular \ damaged' : Own(g)'
<1>1. UNCHANGED <<inode, data, damaged>>
    BY DEF Close
<1>2. /\ SamePlaces /\ desc'[d] = NoDesc
      /\ \A e \in Desc \ {d} : desc'[e] = desc[e]
    BY CloseShape
<1>3. NoHoles'
    BY <1>1, <1>2 DEF NoHoles, NoDesc
<1> QED
    BY <1>1, <1>2, <1>3, DataSame

LEMMA LseekData ==
    ASSUME FsDataTypeOK, ShapeOK, NoHoles, DataIntact,
           NEW d \in Desc, NEW pos \in Nat, Lseek(d, pos)
    PROVE  NoHoles' /\ \A g \in Regular \ damaged' : Own(g)'
<1>1. UNCHANGED <<inode, data, damaged>>
    BY DEF Lseek
<1>2. /\ SamePlaces
      /\ desc'[d].fd_inode = desc[d].fd_inode /\ desc'[d].fd_pos = pos
      /\ pos <= inode[desc[d].fd_inode].i_size
      /\ \A e \in Desc \ {d} : desc'[e] = desc[e]
    BY LseekShape
<1>3. NoHoles'
    BY <1>1, <1>2 DEF NoHoles
<1> QED
    BY <1>1, <1>2, <1>3, DataSame

\* A READ does not pass the end of a file that its descriptor has not passed.
LEMMA ReadData ==
    ASSUME FsDataTypeOK, ShapeOK, NoHoles, DataIntact,
           NEW d \in Desc, NEW len \in 1..MaxLen, Read(d, len)
    PROVE  NoHoles' /\ \A g \in Regular \ damaged' : Own(g)'
<1> USE Names
<1> DEFINE f == desc[d].fd_inode
           p == desc[d].fd_pos
<1>1. data' = data /\ damaged' = damaged
    BY DEF Read
<1>2. SamePlaces
    BY ReadShape
<1>3. PICK n \in Nat : MovesOn(d, n) /\ (p <= inode[f].i_size => p + n <= inode[f].i_size)
    BY ReadShape
<1>4. /\ f \in Regular /\ desc'[d].fd_inode = f /\ desc'[d].fd_pos = p + n
      /\ \A e \in Desc \ {d} : desc'[e] = desc[e]
      /\ inode'[f].i_size = IF p + n > inode[f].i_size THEN p + n ELSE inode[f].i_size
      /\ \A g \in (Regular \cup {Root}) \ {f} : inode'[g] = inode[g]
    BY <1>3 DEF MovesOn
<1>5. p \in Nat /\ inode[f].i_size \in Nat
    BY <1>4, FileIs DEF FsDataTypeOK
<1>6. f \notin damaged => p + n <= inode[f].i_size /\ inode'[f].i_size = inode[f].i_size
    <2>1. ASSUME f \notin damaged PROVE p <= inode[f].i_size
        BY <1>4, <2>1 DEF NoHoles
    <2> HIDE DEF f, p
    <2> QED  BY <1>3, <1>4, <1>5, <2>1
<1>7. \A g \in Regular \ damaged : inode'[g].i_size = inode[g].i_size
    BY <1>4, <1>6
<1>8. NoHoles'
    <2>1. SUFFICES ASSUME NEW e \in Desc, desc'[e].fd_inode # "none",
                          desc'[e].fd_inode \notin damaged
                   PROVE  desc'[e].fd_pos <= inode'[desc'[e].fd_inode].i_size
        BY <1>1 DEF NoHoles
    <2>2. CASE e = d
        BY <1>4, <1>6, <2>1, <2>2
    <2>3. CASE e # d
        <3>1. desc'[e] = desc[e] /\ desc[e].fd_inode \in Regular
            BY <1>4, <2>1, <2>3 DEF FsDataTypeOK
        <3> QED  BY <1>7, <2>1, <3>1 DEF NoHoles
    <2> QED  BY <2>2, <2>3
<1> QED
    BY <1>1, <1>2, <1>7, <1>8, DataSame

LEMMA OpenTruncData ==
    ASSUME FsDataTypeOK, ShapeOK, PlacesOK, NoHoles, DataIntact,
           NEW d \in Desc, NEW f \in File, OpenTrunc(d, f)
    PROVE  NoHoles' /\ \A g \in Regular \ damaged' : Own(g)'
<1> USE Names
<1>1. /\ Exists(f) /\ desc[d] = NoDesc
      /\ data' = Forget(f, inode[f].i_start_sect, inode[f].i_nr_sects)
      /\ damaged' = IF \E e \in OpenOn(f) : desc[e].fd_pos > 0
                    THEN damaged \cup {f} ELSE damaged \ {f}
    BY DEF OpenTrunc
<1>2. /\ FsDataTypeOK' /\ SamePlaces
      /\ desc'[d].fd_inode = f /\ desc'[d].fd_pos = 0
      /\ \A e \in Desc \ {d} : desc'[e] = desc[e]
      /\ inode'[f].i_size = 0
      /\ \A g \in (Regular \cup {Root}) \ {f} : inode'[g] = inode[g]
    BY OpenTruncShape
<1>3. NoHoles'
    <2>1. SUFFICES ASSUME NEW e \in Desc, NEW g \in Regular, desc'[e].fd_inode = g,
                          g \notin damaged'
                   PROVE  desc'[e].fd_pos <= inode'[g].i_size
        BY <1>2 DEF FsDataTypeOK, NoHoles
    <2>2. CASE e = d
        BY <1>2, <2>1, <2>2
    <2>3. CASE e # d /\ g = f
        <3>1. desc'[e] = desc[e] /\ e \in OpenOn(f) /\ desc[e].fd_pos \in Nat
            BY <1>2, <2>1, <2>3 DEF OpenOn, FsDataTypeOK
        <3>2. ~(desc[e].fd_pos > 0)
            BY <1>1, <2>1, <2>3, <3>1
        <3> QED  BY <1>2, <2>3, <3>1, <3>2
    <2>4. CASE e # d /\ g # f
        <3>1. desc[e] = desc'[e] /\ g \notin damaged
            BY <1>1, <1>2, <2>1, <2>4
        <3> QED  BY <1>2, <2>1, <2>4, <3>1 DEF NoHoles
    <2> QED  BY <2>2, <2>3, <2>4
<1>4. ASSUME NEW g \in Regular \ damaged', g # f PROVE Own(g)'
    <2>1. inode'[g] = inode[g] /\ g \notin damaged
        BY <1>1, <1>2, <1>4
    <2>2. \A a \in Addr : InRoom(g, a) => data'[a] = data[a]
        BY <1>1, <1>4, RoomsApart
    <2> QED  BY <2>1, <2>2, OwnKept
<1>5. Own(f)'
    BY <1>2, OwnNothing
<1> QED
    BY <1>3, <1>4, <1>5

\* What the log is written over lies behind the files.
LEMMA LogApart ==
    ASSUME FsDataTypeOK, PlacesOK, NEW map, NEW bytes, DiskLog(map, bytes),
           NEW g \in Regular, NEW a \in Addr, InRoom(g, a)
    PROVE  data'[a] = bytes[a]
<1>1. a < LogStart * SECTOR_SIZE /\ a \in Int
    BY RoomBeforeLog, Constants DEF Addr
<1>2. a \div SECTOR_SIZE < LogStart /\ a \div SECTOR_SIZE \in Int /\ LogStart \in Int
    BY <1>1, Constants, Quotient, DivMod
<1>3. ~(a \div SECTOR_SIZE >= LogStart)
    BY <1>2
<1> QED
    BY <1>3 DEF DiskLog

LEMMA UnlinkData ==
    ASSUME FsDataTypeOK, FsDataTypeOK', PlacesOK, NoHoles, DataIntact, NEW f \in Regular,
           \/ Removed(f)
           \/ DiskLog(smap, data) /\ UNCHANGED <<inode, desc, damaged>>
    PROVE  NoHoles' /\ \A g \in Regular \ damaged' : Own(g)'
<1> USE Names
<1>1. CASE DiskLog(smap, data) /\ UNCHANGED <<inode, desc, damaged>>
    <2>1. NoHoles'
        BY <1>1 DEF NoHoles
    <2>2. ASSUME NEW g \in Regular \ damaged' PROVE Own(g)'
        <3>1. \A a \in Addr : InRoom(g, a) => data'[a] = data[a]
            BY <1>1, LogApart
        <3> QED  BY <1>1, <3>1, OwnKept
    <2> QED  BY <2>1, <2>2
<1>2. CASE Removed(f)
    <2> DEFINE old == Forget(f, inode[f].i_start_sect, inode[f].i_nr_sects)
    <2>1. /\ Exists(f) /\ (\A d \in Desc : desc[d].fd_inode # f)
          /\ inode'[f] = NoInode
          /\ \A g \in (Regular \cup {Root}) \ {f} : inode'[g] = inode[g]
          /\ DiskLog(smap \ ((inode[f].i_start_sect + 1)..End(f)), old)
          /\ desc' = desc /\ damaged' = damaged \ {f}
        BY <1>2 DEF Removed
    <2>2. NoHoles'
        BY <2>1 DEF NoHoles, FsDataTypeOK
    <2>3. ASSUME NEW g \in Regular \ damaged', g # f PROVE Own(g)'
        <3>1. inode'[g] = inode[g] /\ g \notin damaged
            BY <2>1, <2>3
        <3>2. ASSUME NEW a \in Addr, InRoom(g, a) PROVE data'[a] = data[a]
            <4>1. data'[a] = old[a]
                <5> HIDE DEF old
                <5> QED  BY <2>1, <3>2, LogApart
            <4>2. old[a] = data[a]
                BY <2>1, <2>3, <3>2, RoomsApart
            <4> QED  BY <4>1, <4>2
        <3> QED  BY <3>1, <3>2, OwnKept
    <2>4. Own(f)'
        BY <2>1, OwnNothing DEF NoInode
    <2> QED  BY <2>2, <2>3, <2>4
<1> QED
    BY <1>1, <1>2

(* A WRITE fills the file from where it stands, leaves no hole, and where   *)
(* it goes beyond the file's sectors it comes only to the file behind.      *)
LEMMA WriteData ==
    ASSUME FsDataTypeOK, ShapeOK, PlacesOK, NoHoles, DataIntact,
           NEW d \in Desc, NEW len \in 1..MaxLen, Write(d, len)
    PROVE  NoHoles' /\ \A g \in Regular \ damaged' : Own(g)'
<1> USE Names
<1> DEFINE f     == desc[d].fd_inode
           p     == desc[d].fd_pos
           first == Byte0(f) + p
<1>1. SamePlaces
    BY WriteShape
<1>2. PICK n \in Nat :
        /\ MovesOn(d, n)
        /\ data' = [a \in Addr |-> IF a \in first..(first + n - 1) THEN f ELSE data[a]]
        /\ damaged' = damaged \cup (IF p + n > Room(f) THEN Behind(f) ELSE {})
    BY WriteShape
<1>3. /\ f \in Regular /\ Exists(f) /\ p + n <= Room(f) + SECTOR_SIZE
      /\ desc'[d].fd_inode = f /\ desc'[d].fd_pos = p + n
      /\ \A e \in Desc \ {d} : desc'[e] = desc[e]
      /\ inode'[f].i_size = IF p + n > inode[f].i_size THEN p + n ELSE inode[f].i_size
      /\ \A g \in (Regular \cup {Root}) \ {f} : inode'[g] = inode[g]
    BY <1>2 DEF MovesOn
<1>4. p \in Nat
    BY DEF FsDataTypeOK
<1>5. damaged \subseteq damaged'
    BY <1>2
<1>6. /\ inode[f].i_size \in Nat /\ Room(f) \in Nat /\ Byte0(f) \in Nat
      /\ SECTOR_SIZE \in Nat \ {0}
    BY <1>3, FileIs, Constants
<1> DEFINE size2 == inode'[f].i_size
<1>7. size2 \in Nat /\ p + n <= size2 /\ inode[f].i_size <= size2
    <2> HIDE DEF p
    <2> QED  BY <1>3, <1>4, <1>6
<1>8. NoHoles'
    <2>1. SUFFICES ASSUME NEW e \in Desc, NEW g \in Regular, desc'[e].fd_inode = g,
                          g \notin damaged'
                   PROVE  desc'[e].fd_pos <= inode'[g].i_size
        <3>1. \A e \in Desc : desc'[e].fd_inode \in Regular \cup {"none"}
            BY <1>3 DEF FsDataTypeOK
        <3> QED  BY <3>1 DEF NoHoles
    <2>2. CASE e = d
        BY <1>3, <1>7, <2>1, <2>2
    <2>3. CASE e # d
        <3>1. desc[e] = desc'[e] /\ g \notin damaged /\ desc[e].fd_pos \in Nat
            BY <1>3, <1>5, <2>1, <2>3 DEF FsDataTypeOK
        <3>2. desc[e].fd_pos <= inode[g].i_size
            BY <2>1, <3>1 DEF NoHoles
        <3>3. CASE g = f
            <4> DEFINE q == desc[e].fd_pos
            <4>1. q \in Nat /\ q <= inode[f].i_size
                BY <3>1, <3>2, <3>3
            <4> HIDE DEF q, size2
            <4>2. q <= size2
                BY <1>6, <1>7, <4>1
            <4> QED  BY <3>1, <3>3, <4>2 DEF q, size2
        <3>4. CASE g # f
            BY <1>3, <3>1, <3>2, <3>4
        <3> QED  BY <3>3, <3>4
    <2> QED  BY <2>2, <2>3
<1>9. ASSUME NEW g \in Regular \ damaged', g # f PROVE Own(g)'
    <2>1. inode'[g] = inode[g] /\ g \notin damaged
        BY <1>3, <1>5, <1>9
    <2>2. ASSUME NEW a \in Addr, InRoom(g, a) PROVE data'[a] = data[a]
        <3>1. Exists(g) /\ ~InRoom(f, a)
            BY <1>3, <1>9, <2>2, RoomBeforeLog, RoomsApart
        <3>2. a \in Int
            BY Constants DEF Addr
        <3>3. ASSUME Byte0(f) + Room(f) <= a PROVE a >= first + n
            <4> DEFINE sf == inode[f].i_start_sect
                       sg == inode[g].i_start_sect
                       ef == End(f)
                       eg == End(g)
            <4>1. /\ sf \in Nat /\ sg \in Nat /\ ef \in Nat /\ eg \in Nat
                  /\ Byte0(f) + Room(f) = ef * SECTOR_SIZE
                  /\ Byte0(g) = sg * SECTOR_SIZE
                  /\ Byte0(g) + Room(g) = eg * SECTOR_SIZE
                  /\ Byte0(f) = sf * SECTOR_SIZE
                BY <1>3, FileIs
            <4>2. ef <= sg \/ eg <= sf
                BY <1>3, <1>9, <3>1 DEF PlacesOK
            <4>3. Byte0(g) <= a /\ a < Byte0(g) + Room(g)
                BY <2>2 DEF InRoom
            <4>4. p + n > Room(f) => ef # sg
                <5>1. ASSUME p + n > Room(f) PROVE g \notin Behind(f)
                    BY <1>2, <1>9, <5>1
                <5> QED  BY <1>9, <3>1, <5>1 DEF Behind, End
            <4> HIDE DEF sf, sg, ef, eg, f, p
            <4>5. ASSUME NEW x \in Int, NEW y \in Int, x <= y
                  PROVE  x * SECTOR_SIZE <= y * SECTOR_SIZE
                BY <1>6, <4>5
            <4>6. ASSUME NEW x \in Int
                  PROVE  /\ x * SECTOR_SIZE \in Int
                         /\ (x + 1) * SECTOR_SIZE = x * SECTOR_SIZE + SECTOR_SIZE
                BY <1>6
            <4>7. ef <= sg
                <5>1. ASSUME eg <= sf PROVE FALSE
                    <6>1. eg * SECTOR_SIZE <= sf * SECTOR_SIZE
                        BY <4>1, <4>5, <5>1
                    <6>2. /\ eg * SECTOR_SIZE \in Int /\ sf * SECTOR_SIZE \in Int
                        BY <4>1, <4>6
                    <6> DEFINE x == eg * SECTOR_SIZE
                               y == sf * SECTOR_SIZE
                    <6>3. /\ x <= y /\ x \in Int /\ y \in Int
                          /\ a < x /\ y + Room(f) <= a
                        BY <3>3, <4>1, <4>3, <6>1, <6>2
                    <6> HIDE DEF x, y
                    <6> QED  BY <1>6, <3>2, <6>3
                <5> QED  BY <4>2, <5>1
            <4>8. CASE p + n <= Room(f)
                BY <1>4, <1>6, <3>2, <3>3, <4>8 DEF p
            <4>9. CASE p + n > Room(f)
                <5>1. ef + 1 <= sg /\ ef + 1 \in Int /\ sg \in Int
                    BY <4>1, <4>4, <4>7, <4>9
                <5>2. (ef + 1) * SECTOR_SIZE <= sg * SECTOR_SIZE
                    BY <4>5, <5>1
                <5>3. /\ ef * SECTOR_SIZE \in Int /\ sg * SECTOR_SIZE \in Int
                      /\ (ef + 1) * SECTOR_SIZE = ef * SECTOR_SIZE + SECTOR_SIZE
                    BY <4>1, <4>6
                <5> DEFINE x == ef * SECTOR_SIZE
                           y == sg * SECTOR_SIZE
                <5>4. x \in Int /\ y \in Int /\ x + SECTOR_SIZE <= y
                    BY <5>2, <5>3
                <5>5. Byte0(f) + Room(f) = x /\ y <= a
                    BY <4>1, <4>3
                <5> HIDE DEF x, y
                <5>6. p \in Nat /\ p + n <= Room(f) + SECTOR_SIZE
                    BY <1>3, <1>4 DEF p, f
                <5> QED  BY <1>6, <3>2, <5>4, <5>5, <5>6
            <4> QED  BY <1>4, <1>6, <4>8, <4>9 DEF p
        <3>4. a \notin first..(first + n - 1)
            <4>1. a < Byte0(f) \/ Byte0(f) + Room(f) <= a
                BY <1>6, <3>1, <3>2 DEF InRoom
            <4> HIDE DEF f, p
            <4>2. p \in Nat
                BY <1>4 DEF p
            <4> QED  BY <1>6, <3>2, <3>3, <4>1, <4>2
        <3> QED  BY <1>2, <3>4
    <2> QED  BY <2>1, <2>2, OwnKept
<1>10. ASSUME NEW g \in Regular \ damaged', g = f PROVE Own(g)'
    <2>1. f \notin damaged /\ p <= inode[f].i_size
        BY <1>3, <1>5, <1>10 DEF NoHoles
    <2>2. /\ Room(g)' = Room(f) /\ Byte0(g)' = Byte0(f)
          /\ inode'[g].i_size = size2
        BY <1>1, <1>10, SameFiles
    <2>3. ASSUME NEW b \in 0..(Less(size2, Room(f)) - 1)
          PROVE  data'[Byte0(f) + b] = f
        <3>1. b \in Nat /\ b < Room(f) /\ b < size2
            <4> HIDE DEF f, size2
            <4> QED  BY <1>6, <1>7, <2>3 DEF Less
        <3>2. Byte0(f) + b \in Addr
            BY <1>3, <3>1, RoomOnDisk
        <3>3. CASE p <= b /\ b < p + n
            <4>1. Byte0(f) + b \in first..(first + n - 1)
                <5> HIDE DEF f, p
                <5>1. p \in Nat
                    BY <1>4 DEF p
                <5> QED  BY <1>6, <3>1, <3>3, <5>1
            <4> QED  BY <1>2, <3>2, <4>1
        <3>4. CASE ~(p <= b /\ b < p + n)
            <4>1. Byte0(f) + b \notin first..(first + n - 1)
                <5> HIDE DEF f, p
                <5>1. p \in Nat
                    BY <1>4 DEF p
                <5> QED  BY <1>6, <3>1, <3>4, <5>1
            <4>2. data'[Byte0(f) + b] = data[Byte0(f) + b]
                BY <1>2, <3>2, <4>1
            <4>3. b < inode[f].i_size
                <5>1. size2 = IF p + n > inode[f].i_size THEN p + n ELSE inode[f].i_size
                    BY <1>3
                <5> HIDE DEF f, p, size2
                <5>2. p \in Nat /\ p <= inode[f].i_size
                    BY <1>4, <2>1 DEF p
                <5> QED  BY <1>6, <3>1, <3>4, <5>1, <5>2
            <4>4. b \in 0..(Less(inode[f].i_size, Room(f)) - 1)
                <5> HIDE DEF f
                <5> QED  BY <1>6, <3>1, <4>3 DEF Less
            <4>5. data[Byte0(f) + b] = f
                BY <1>3, <2>1, <4>4 DEF DataIntact
            <4> QED  BY <4>2, <4>5
        <3> QED  BY <3>3, <3>4
    <2> HIDE DEF f, size2
    <2> QED  BY <1>10, <2>2, <2>3 DEF Own
<1> QED
    BY <1>8, <1>9, <1>10

-----------------------------------------------------------------------------
(* The invariant, and what it says of the map and of the bytes *)

LEMMA FsDataInit == Init => FsDataInv
<1> SUFFICES ASSUME Init PROVE FsDataInv
    OBVIOUS
<1> USE Names, Constants
<1>1. FsDataTypeOK /\ ShapeOK /\ PlacesOK
    BY ShapeInit, PlacesInit
<1>2. NoHoles
    BY DEF Init, NoHoles, NoDesc
<1>3. DataIntact
    <2>1. SUFFICES ASSUME NEW f \in Regular \ damaged,
                          NEW b \in 0..(Less(inode[f].i_size, Room(f)) - 1)
                   PROVE  data[Byte0(f) + b] = f
        BY DEF DataIntact
    <2>2. inode[f].i_size \in Nat /\ Room(f) \in Nat /\ Byte0(f) \in Nat
        BY <1>1, FileIs
    <2>3. b \in Nat /\ b < inode[f].i_size /\ b < Room(f)
        BY <2>2 DEF Less
    <2>4. f = CmdTar
        <3>1. f \in File => inode[f].i_size = 0
            BY DEF Init, NoInode
        <3> QED  BY <2>3, <3>1
    <2> DEFINE a == Byte0(f) + b
    <2>5. a \in Addr /\ a \in Int
        BY <1>1, <2>2, <2>3, RoomOnDisk
    <2>6. /\ inode[f].i_start_sect = INSTALL_START /\ inode[f].i_nr_sects = INSTALL_NR_SECTS
          /\ Byte0(f) + Room(f) = End(f) * SECTOR_SIZE
          /\ Byte0(f) = INSTALL_START * SECTOR_SIZE
          /\ End(f) = INSTALL_START + INSTALL_NR_SECTS
        <3>1. inode[f] = [i_start_sect |-> INSTALL_START, i_nr_sects |-> INSTALL_NR_SECTS,
                          i_size |-> INSTALL_NR_SECTS * SECTOR_SIZE]
            BY <2>4 DEF Init
        <3> QED  BY <1>1, <3>1, FileIs DEF End
    <2>7. /\ INSTALL_START * SECTOR_SIZE <= a
          /\ a < (INSTALL_START + INSTALL_NR_SECTS) * SECTOR_SIZE
        <3> DEFINE x == INSTALL_START * SECTOR_SIZE
                   y == (INSTALL_START + INSTALL_NR_SECTS) * SECTOR_SIZE
        <3>1. Byte0(f) = x /\ Byte0(f) + Room(f) = y
            BY <2>6
        <3> HIDE DEF x, y
        <3>2. x <= a /\ a < y
            BY <2>2, <2>3, <3>1
        <3> QED  BY <3>2 DEF x, y
    <2> HIDE DEF a
    <2>8. a \div SECTOR_SIZE \in INSTALL_START..(INSTALL_START + INSTALL_NR_SECTS - 1)
        <3>1. INSTALL_START \in Int /\ INSTALL_NR_SECTS \in Int
            OBVIOUS
        <3> QED  BY <2>5, <2>7, <3>1, InSectors
    <2>9. a \div SECTOR_SIZE \in Int /\ ~(a \div SECTOR_SIZE < NR_FILE_SECTS)
        <3>1. a \div SECTOR_SIZE \in Int
            BY <2>5, DivMod
        <3> QED  BY <2>8, <3>1
    <2>10. data[a] = CmdTar
        BY <2>5, <2>8, <2>9 DEF Init
    <2> QED  BY <2>4, <2>10 DEF a
<1> QED
    BY <1>1, <1>2, <1>3 DEF FsDataInv

LEMMA FsDataStep ==
    ASSUME FilesFit, FsDataTypeOK, ShapeOK, PlacesOK, NoHoles, DataIntact, ~halted, Next
    PROVE  (halted' \/ PlacesOK') /\ NoHoles' /\ DataIntact'
<1> USE Names
<1>1. FsDataTypeOK'
    BY ShapeStep
<1> DEFINE Goal == (halted' \/ PlacesOK') /\ NoHoles' /\ \A g \in Regular \ damaged' : Own(g)'
<1>2. ASSUME Halt PROVE Goal
    <2>1. halted' = TRUE /\ UNCHANGED <<inode, desc, data, damaged>>
        BY <1>2 DEF Halt
    <2>2. SamePlaces
        BY <2>1 DEF SamePlaces
    <2> QED  BY <2>1, <2>2, DataSame DEF NoHoles
<1>3. ASSUME NEW d \in Desc, NEW f \in File, Create(d, f) PROVE Goal
    BY <1>1, <1>2, <1>3, CreateShape, CreatePlaces, CreateData
<1>4. ASSUME NEW d \in Desc, NEW f \in Regular, Open(d, f) PROVE Goal
    <2>1. Exists(f) /\ Connect(d, f) /\ UNCHANGED <<smap, inode, data, logged, halted>>
        BY <1>4 DEF Open
    <2> QED  BY <1>4, <2>1, ConnectShape, PlacesKept, OpenData
<1>5. ASSUME NEW d \in Desc, NEW f \in File, OpenTrunc(d, f) PROVE Goal
    <2>1. smap' = smap /\ logged' = logged
        BY <1>5 DEF OpenTrunc
    <2> QED  BY <1>5, <2>1, OpenTruncShape, PlacesKept, OpenTruncData
<1>6. ASSUME NEW d \in Desc, Close(d) PROVE Goal
    <2>1. smap' = smap /\ logged' = logged
        BY <1>6 DEF Close
    <2> QED  BY <1>6, <2>1, CloseShape, PlacesKept, CloseData
<1>7. ASSUME NEW d \in Desc, NEW pos \in 0..(NrSects * SECTOR_SIZE), Lseek(d, pos) PROVE Goal
    <2>1. smap' = smap /\ logged' = logged /\ pos \in Nat
        BY <1>7 DEF Lseek
    <2> QED  BY <1>7, <2>1, LseekShape, PlacesKept, LseekData
<1>8. ASSUME NEW d \in Desc, NEW len \in 1..MaxLen, Read(d, len) PROVE Goal
    <2>1. smap' = smap /\ logged' = logged
        BY <1>8 DEF Read
    <2> QED  BY <1>8, <2>1, ReadShape, PlacesKept, ReadData
<1>9. ASSUME NEW d \in Desc, NEW len \in 1..MaxLen, Write(d, len) PROVE Goal
    <2>1. smap' = smap /\ logged' = logged
        BY <1>9 DEF Write
    <2> QED  BY <1>9, <2>1, WriteShape, PlacesKept, WriteData
<1>10. ASSUME NEW f \in Regular, Unlink(f) PROVE Goal
    <2>1. \/ Halt
          \/ Removed(f)
          \/ DiskLog(smap, data) /\ UNCHANGED <<inode, desc, damaged>>
        BY <1>10, UnlinkShape
    <2>2. CASE Halt
        BY <1>2, <2>2
    <2>3. CASE \/ Removed(f)
               \/ DiskLog(smap, data) /\ UNCHANGED <<inode, desc, damaged>>
        BY <1>1, <2>3, UnlinkPlaces, UnlinkData
    <2> QED  BY <2>1, <2>2, <2>3
<1>11. {e \in Desc : desc[e].fd_inode \in File} \subseteq Desc
    OBVIOUS
<1>12. Goal
    <2> HIDE DEF Goal
    <2> QED  BY <1>3, <1>4, <1>5, <1>6, <1>7, <1>8, <1>9, <1>10, <1>11 DEF Next
<1> QED
    BY <1>12 DEF DataIntact, Own

(* The invariant holds: while no assertion has stopped FS and the files    *)
(* fit, they lie apart and before the log, their bits are set and no       *)
(* others, and no descriptor stands behind the end of a file.              *)
THEOREM FsDataIsInvariant == Spec => []FsDataInv
<1>1. FsDataInv /\ [Next]_vars => FsDataInv'
    <2> SUFFICES ASSUME FsDataInv, [Next]_vars PROVE FsDataInv'
        OBVIOUS
    <2>1. FsDataTypeOK' /\ ShapeOK'
        BY ShapeStep DEF FsDataInv
    <2>2. ASSUME FilesFit PROVE (halted' \/ PlacesOK') /\ NoHoles' /\ DataIntact'
        <3>1. FsDataTypeOK /\ ShapeOK /\ (halted \/ PlacesOK) /\ NoHoles /\ DataIntact
            BY <2>2 DEF FsDataInv
        <3>2. CASE UNCHANGED vars
            <4>1. UNCHANGED <<smap, inode, desc, data, logged, damaged, halted>>
                BY <3>2 DEF vars
            <4>2. PlacesOK => PlacesOK'
                BY <4>1, PlacesKept DEF SamePlaces
            <4>3. NoHoles'
                BY <3>1, <4>1 DEF NoHoles
            <4>4. DataIntact'
                BY <3>1, <4>1 DEF DataIntact, Room, Byte0
            <4> QED  BY <3>1, <4>1, <4>2, <4>3, <4>4
        <3>3. CASE Next
            <4>1. ~halted
                BY <3>3 DEF Next, Create, Open, OpenTrunc, Close, Lseek, Read, Write,
                            Unlink, UnlinkDone, UnlinkFails
            <4> QED  BY <2>2, <3>1, <3>3, <4>1, FsDataStep
        <3> QED  BY <3>2, <3>3
    <2> QED  BY <2>1, <2>2 DEF FsDataInv
<1> QED  BY <1>1, FsDataInit, PTL DEF Spec

(* Every order of creating, opening and removing files leaves the bits of  *)
(* exactly their sectors set, and gives no sector to two files.            *)
THEOREM SmapIsExact == ASSUME FilesFit PROVE Spec => []SmapExact
<1>1. FsDataInv => SmapExact
    <2> SUFFICES ASSUME FsDataInv, ~halted PROVE SmapExact
        BY DEF SmapExact
    <2>1. FsDataTypeOK /\ ShapeOK /\ PlacesOK
        BY DEF FsDataInv
    <2>2. /\ LogStart \in Int /\ NrSects \in Nat /\ LogStart <= NrSects
        BY Constants
    <2>3. ASSUME NEW f \in Regular \cup {Root}
          PROVE  /\ inode[f].i_start_sect \in Nat /\ inode[f].i_nr_sects \in Nat
                 /\ End(f) = inode[f].i_start_sect + inode[f].i_nr_sects
                 /\ Exists(f) => End(f) <= LogStart
                 /\ \A s \in Int : s \in Sectors(f) <=>
                        Exists(f) /\ inode[f].i_start_sect <= s /\ s < End(f)
        <3>1. inode[f].i_start_sect \in Nat /\ inode[f].i_nr_sects \in Nat
            BY <2>1, FileIs
        <3>2. Exists(f) => End(f) <= LogStart
            BY <2>1, EndsBeforeLog
        <3> DEFINE st == inode[f].i_start_sect
                   n  == inode[f].i_nr_sects
        <3>3. /\ End(f) = st + n /\ (Exists(f) <=> n > 0)
              /\ Sectors(f) = {s \in 0..(NrSects - 1) : st <= s /\ s < st + n}
            BY DEF End, Exists, Sectors, Sector
        <3> HIDE DEF st, n
        <3>4. \A s \in Int : s \in Sectors(f) <=> Exists(f) /\ st <= s /\ s < End(f)
            BY <2>2, <3>1, <3>2, <3>3 DEF st, n
        <3> QED  BY <3>1, <3>2, <3>3, <3>4 DEF st, n
    <2>4. \A f \in Regular \cup {Root} : Sectors(f) \subseteq Int
        BY DEF Sectors, Sector
    <2>5. \A b \in Nat : (\E f \in Regular \cup {Root} :
                             Exists(f) /\ inode[f].i_start_sect < b /\ b <= End(f))
                      <=> b \in {BitOf(s) : s \in UNION {Sectors(f) : f \in Regular \cup {Root}}}
        <3>1. ASSUME NEW b \in Nat, NEW f \in Regular \cup {Root},
                     Exists(f), inode[f].i_start_sect < b, b <= End(f)
              PROVE  \E s \in Sectors(f) : b = BitOf(s)
            <4>1. b - 1 \in Int /\ inode[f].i_start_sect <= b - 1 /\ b - 1 < End(f)
                BY <2>3, <3>1
            <4>2. b - 1 \in Sectors(f) /\ b = BitOf(b - 1)
                BY <2>3, <3>1, <4>1 DEF BitOf
            <4> QED  BY <4>2
        <3>2. ASSUME NEW b \in Nat, NEW f \in Regular \cup {Root}, NEW s \in Sectors(f),
                     b = BitOf(s)
              PROVE  Exists(f) /\ inode[f].i_start_sect < b /\ b <= End(f)
            <4>1. s \in Int /\ b = s + 1
                BY <2>4, <3>2 DEF BitOf
            <4> QED  BY <2>3, <3>2, <4>1
        <3> QED  BY <3>1, <3>2
    <2>6. smap = {0} \cup (IF logged THEN LogBits ELSE {})
                 \cup {BitOf(s) : s \in UNION {Sectors(f) : f \in Regular \cup {Root}}}
        <3> DEFINE F == {BitOf(s) : s \in UNION {Sectors(f) : f \in Regular \cup {Root}}}
        <3>1. smap \subseteq Nat /\ LogBits \subseteq Nat /\ F \subseteq Nat
            <4>1. smap \subseteq Nat /\ LogBits \subseteq Nat
                BY <2>1, LogBitsAbove DEF FsDataTypeOK
            <4>2. F \subseteq Nat
                BY DEF Sectors, Sector, BitOf
            <4> QED  BY <4>1, <4>2
        <3>2. \A b \in Nat : b \in smap <=> b = 0 \/ (logged /\ b \in LogBits) \/ b \in F
            BY <2>1, <2>5 DEF PlacesOK
        <3> HIDE DEF F
        <3>3. smap = {0} \cup (IF logged THEN LogBits ELSE {}) \cup F
            BY <3>1, <3>2
        <3> QED  BY <3>3 DEF F
    <2>7. \A f, g \in Regular \cup {Root} : f # g => Sectors(f) \cap Sectors(g) = {}
        <3>1. ASSUME NEW f \in Regular \cup {Root}, NEW g \in Regular \cup {Root}, f # g,
                     NEW s \in Sectors(f), s \in Sectors(g)
              PROVE  FALSE
            <4>1. s \in Int
                BY <2>4
            <4>2. /\ Exists(f) /\ inode[f].i_start_sect <= s /\ s < End(f)
                  /\ Exists(g) /\ inode[g].i_start_sect <= s /\ s < End(g)
                BY <2>3, <3>1, <4>1
            <4>3. End(f) <= inode[g].i_start_sect \/ End(g) <= inode[f].i_start_sect
                BY <2>1, <3>1, <4>2 DEF PlacesOK
            <4> QED  BY <2>3, <4>1, <4>2, <4>3
        <3> QED  BY <3>1
    <2>8. \A f \in Regular : \A s \in Sectors(f) : s < LogStart
        <3>1. ASSUME NEW f \in Regular, NEW s \in Sectors(f) PROVE s < LogStart
            <4>1. s \in Int
                BY <2>4
            <4> QED  BY <2>2, <2>3, <4>1
        <3> QED  BY <3>1
    <2> QED  BY <2>6, <2>7, <2>8 DEF SmapExact
<1> QED  BY <1>1, FsDataIsInvariant, PTL

(* Whatever is written, cut, created and removed in whatever order, the    *)
(* bytes of a file up to its size are its own, except in a file that was   *)
(* cut under a reader or that its neighbour in front ran into.             *)
THEOREM DataStaysIntact == ASSUME FilesFit PROVE Spec => []DataIntact
<1>1. FsDataInv => DataIntact
    BY DEF FsDataInv
<1> QED  BY <1>1, FsDataIsInvariant, PTL
=============================================================================
