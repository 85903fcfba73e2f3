----------------------------- MODULE HdSysProof -----------------------------
(***************************************************************************)
(* Proofs about HdSys, for any number of user processes, sectors, tables   *)
(* and ticks: HdSysInv is inductive.  Hence the disk and HD agree between  *)
(* two commands and HD gives up no sooner than its time-out, even after    *)
(* kill has done harm; and until it does, no assertion fails, deadlock()   *)
(* raises no alarm, and whoever is in a call has somebody at work for it.  *)
(***************************************************************************)
EXTENDS HdSys, IpcProof

LEMMA ProcFacts ==
    /\ HD \in Proc /\ SYS \in Proc /\ FS \in Proc
    /\ HD # SYS /\ HD # FS /\ SYS # FS
    /\ \A u \in User : u \in Proc /\ u # HD /\ u # SYS /\ u # FS
    /\ \A p \in Proc : p \in {HD, SYS, FS} \/ p \in User
    /\ NO_TASK \notin Proc /\ ANY \notin Proc /\ INTERRUPT \notin Proc
    /\ NO_TASK # ANY /\ ANY # INTERRUPT /\ NO_TASK # INTERRUPT
    /\ NO_TASK \notin User
BY HdSysAssumption, SentinelAssumption

-----------------------------------------------------------------------------
(* Steps of the kernel *)

\* What a process does: nothing, send to one, await one; it does one of them.
Apart(p) ==
    /\ Unblocked(p) => p_flags[p] = {} /\ ~Sending(p) /\ ~Receiving(p)
    /\ \A d : SendsTo(p, d) =>
          /\ ~Unblocked(p) /\ p_flags[p] # {} /\ Sending(p) /\ ~Receiving(p) /\ p_sendto[p] = d
          /\ \A e : (SendsTo(p, e) => e = d) /\ ~Awaiting(p, e)
    /\ \A s : Awaiting(p, s) =>
          /\ ~Unblocked(p) /\ p_flags[p] # {} /\ ~Sending(p) /\ Receiving(p) /\ p_recvfrom[p] = s
          /\ \A e : (Awaiting(p, e) => e = s) /\ ~SendsTo(p, e)

LEMMA AllApart == \A p \in Proc : Apart(p) /\ Apart(p)'
BY DEF Apart, Unblocked, SendsTo, Awaiting, Sending, Receiving

\* The entry of q in the process table stays, and its MESSAGE buffer too.
EntryKept(q) ==
    /\ Unblocked(q)' <=> Unblocked(q)
    /\ \A d : SendsTo(q, d)' <=> SendsTo(q, d)
    /\ \A s : Awaiting(q, s)' <=> Awaiting(q, s)
    /\ p_flags'[q] = p_flags[q] /\ p_msg'[q] = p_msg[q]
    /\ p_sendto'[q] = p_sendto[q] /\ p_recvfrom'[q] = p_recvfrom[q]
Kept(q) == EntryKept(q) /\ buf'[q] = buf[q]

LEMMA EntryIsKept ==
    ASSUME NEW q, p_flags'[q] = p_flags[q], p_msg'[q] = p_msg[q],
           p_sendto'[q] = p_sendto[q], p_recvfrom'[q] = p_recvfrom[q]
    PROVE  EntryKept(q)
BY DEF EntryKept, Unblocked, SendsTo, Awaiting

\* What becomes of a message m of p for d.
Handed(p, d, m) ==
    /\ Awaiting(d, p) \/ Awaiting(d, ANY)
    /\ Unblocked(d)' /\ buf'[d] = Letter(p, m) /\ Unblocked(p) /\ Unblocked(p)'
Queued(p, d, m) == ~Awaits(d, p) /\ SendsTo(p, d)' /\ Kept(d)

\* What becomes of a RECEIVE of p: the interrupt, the message of q, or waiting.
TookInt(p, src) ==
    /\ src \in {ANY, INTERRUPT} /\ has_int_msg[p]
    /\ has_int_msg' = [has_int_msg EXCEPT ![p] = FALSE]
    /\ EntryKept(p) /\ buf'[p] = IntMessage
    /\ \A r \in Proc \ {p} : Kept(r)
Took(p, q, src) ==
    /\ q # p /\ src \in {ANY, q} /\ SendsTo(q, p) /\ Unblocked(q)'
    /\ Unblocked(p) /\ Unblocked(p)' /\ buf'[p] = buf[q] /\ buf'[q] = buf[q]
    /\ has_int_msg' = has_int_msg
    /\ \A r \in Proc \ {p, q} : Kept(r)
Blocks(p, src) ==
    /\ Awaiting(p, src)' /\ ~has_int_msg[p] /\ has_int_msg' = has_int_msg
    /\ buf'[p] = [buf[p] EXCEPT !.source = p]
    /\ \A r \in Proc \ {p} : Kept(r)

\* The assertions of msg_send: they pass, or the kernel has stopped.
LEMMA SendIs ==
    ASSUME TableOK, NEW p \in Proc, NEW d \in Proc, NEW m \in Mail,
           MsgSend(p, d, m), halted' = "no"
    PROVE  /\ TableOK' /\ halted = "no" /\ has_int_msg' = has_int_msg /\ p # d
           /\ buf'[p] = Letter(p, m)
           /\ \A q \in Proc \ {p, d} : Kept(q)
           /\ Handed(p, d, m) \/ Queued(p, d, m)
<1> USE ProcFacts
<1> DEFINE msg == Letter(p, m)
<1>1. p # d /\ halted = "no" /\ p_flags[p] = {}
    BY DEF MsgSend, Runnable
<1>2. msg \in [source : Proc \cup {INTERRUPT}, body : Mail \cup {HARD_INT}]
    BY DEF Letter
<1>3. CASE SendDeliver(p, d, m)
    <2>1. /\ buf' = [buf EXCEPT ![p] = msg, ![d] = msg]
          /\ p_msg' = [p_msg EXCEPT ![d] = FALSE]
          /\ p_flags' = [p_flags EXCEPT ![d] = @ \ {"RECEIVING"}]
          /\ p_recvfrom' = [p_recvfrom EXCEPT ![d] = NO_TASK]
          /\ UNCHANGED <<p_sendto, q_sending, has_int_msg>>
          /\ Awaits(d, p)
        BY <1>3 DEF SendDeliver, Letter
    <2>2. /\ p_msg[d] /\ p_flags'[d] = {} /\ p_sendto[d] = NO_TASK
          /\ ~p_msg[p] /\ p_sendto[p] = NO_TASK /\ p_recvfrom[p] = NO_TASK
        BY <1>3 DEF SendDeliver, Asserting
    <2> HIDE DEF msg
    <2>3. /\ p_flags'[p] = p_flags[p] /\ p_msg'[p] = p_msg[p] /\ p_recvfrom'[p] = p_recvfrom[p]
          /\ p_msg'[d] = FALSE /\ p_recvfrom'[d] = NO_TASK
          /\ buf'[p] = msg /\ buf'[d] = msg
          /\ p_sendto' = p_sendto
        BY <1>1, <2>1 DEF TableOK
    <2>4. p_flags[d] = {"RECEIVING"}
        <3>1. p_flags'[d] = p_flags[d] \ {"RECEIVING"} /\ "RECEIVING" \in p_flags[d]
            BY <2>1 DEF TableOK, Awaits, Receiving
        <3> QED  BY <2>2, <3>1
    <2>5. Unblocked(p) /\ Unblocked(p)' /\ Unblocked(d)' /\ (Awaiting(d, p) \/ Awaiting(d, ANY))
        BY <1>1, <2>1, <2>2, <2>3, <2>4 DEF Unblocked, Awaiting, Awaits
    <2>6. \A q \in Proc \ {p, d} : Kept(q)
        <3>1. ASSUME NEW q \in Proc \ {p, d} PROVE Kept(q)
            <4>1. /\ p_flags'[q] = p_flags[q] /\ p_msg'[q] = p_msg[q]
                  /\ p_sendto'[q] = p_sendto[q] /\ p_recvfrom'[q] = p_recvfrom[q]
                  /\ buf'[q] = buf[q]
                BY <2>1 DEF TableOK
            <4> QED  BY <4>1, EntryIsKept DEF Kept
        <3> QED  BY <3>1
    <2>7. TableOK'
        <3>1. /\ p_flags' \in [Proc -> SUBSET Flag] /\ p_msg' \in [Proc -> BOOLEAN]
              /\ p_recvfrom' \in [Proc -> Source \cup {NO_TASK}]
              /\ buf' \in [Proc -> [source : Proc \cup {INTERRUPT}, body : Mail \cup {HARD_INT}]]
            BY <2>1, <1>2 DEF TableOK
        <3> QED  BY <2>1, <3>1 DEF TableOK
    <2> QED  BY <1>1, <2>1, <2>3, <2>5, <2>6, <2>7 DEF Handed, msg
<1>4. CASE SendBlock(p, d, m)
    <2>1. /\ buf' = [buf EXCEPT ![p] = msg]
          /\ p_msg' = [p_msg EXCEPT ![p] = TRUE]
          /\ p_flags' = [p_flags EXCEPT ![p] = @ \cup {"SENDING"}]
          /\ p_sendto' = [p_sendto EXCEPT ![p] = d]
          /\ UNCHANGED <<p_recvfrom, has_int_msg>>
          /\ q_sending' = [q_sending EXCEPT ![d] = Append(@, p)]
          /\ ~Awaits(d, p)
        BY <1>4 DEF SendBlock, BlockSender, Letter
    <2>2. p_flags'[p] = {"SENDING"} /\ p_recvfrom[p] = NO_TASK
        BY <1>4 DEF SendBlock, BlockSender, Asserting
    <2> HIDE DEF msg
    <2>3. SendsTo(p, d)' /\ buf'[p] = msg
        BY <2>1, <2>2 DEF SendsTo, TableOK
    <2>6. \A q \in Proc \ {p} : Kept(q)
        <3>1. ASSUME NEW q \in Proc \ {p} PROVE Kept(q)
            <4>1. /\ p_flags'[q] = p_flags[q] /\ p_msg'[q] = p_msg[q]
                  /\ p_sendto'[q] = p_sendto[q] /\ p_recvfrom'[q] = p_recvfrom[q]
                  /\ buf'[q] = buf[q]
                BY <2>1 DEF TableOK
            <4> QED  BY <4>1, EntryIsKept DEF Kept
        <3> QED  BY <3>1
    <2>7. TableOK'
        <3>1. /\ p_flags' \in [Proc -> SUBSET Flag] /\ p_msg' \in [Proc -> BOOLEAN]
              /\ p_sendto' \in [Proc -> Proc \cup {NO_TASK}]
              /\ buf' \in [Proc -> [source : Proc \cup {INTERRUPT}, body : Mail \cup {HARD_INT}]]
            BY <2>1, <1>2 DEF TableOK, Flag
        <3>2. Append(q_sending[d], p) \in Seq(Proc)
            BY AppendProperties DEF TableOK
        <3>3. q_sending' \in [Proc -> Seq(Proc)]
            BY <2>1, <3>2 DEF TableOK
        <3> QED  BY <2>1, <3>1, <3>3 DEF TableOK
    <2> QED  BY <1>1, <2>1, <2>3, <2>6, <2>7 DEF Queued, msg
<1> QED  BY <1>1, <1>3, <1>4 DEF MsgSend, SendPanic

\* The assertions of msg_receive.
LEMMA ReceiveIs ==
    ASSUME TableOK, NEW p \in Proc, NEW src \in Source, MsgReceive(p, src), halted' = "no"
    PROVE  /\ TableOK' /\ halted = "no" /\ p # src
           /\ TookInt(p, src) \/ Blocks(p, src) \/ \E q \in Proc : Took(p, q, src)
<1> USE ProcFacts
<1>1. p # src /\ halted = "no" /\ p_flags[p] = {}
    BY DEF MsgReceive, Runnable
<1>2. CASE ReceiveInt(p, src)
    <2>1. /\ src \in {ANY, INTERRUPT} /\ has_int_msg[p]
          /\ buf' = [buf EXCEPT ![p] = IntMessage]
          /\ has_int_msg' = [has_int_msg EXCEPT ![p] = FALSE]
          /\ UNCHANGED <<p_flags, p_sendto, p_recvfrom, p_msg, q_sending>>
        BY <1>2 DEF ReceiveInt, TakesInt
    <2>2. buf'[p] = IntMessage /\ \A r \in Proc \ {p} : buf'[r] = buf[r]
        BY <2>1 DEF TableOK
    <2>3. \A r \in Proc : EntryKept(r)
        BY <2>1, EntryIsKept
    <2>4. IntMessage \in [source : Proc \cup {INTERRUPT}, body : Mail \cup {HARD_INT}]
        BY DEF IntMessage
    <2>5. TableOK'
        <3>1. /\ has_int_msg' \in [Proc -> BOOLEAN] /\ \A q \in Proc \ {HD} : ~has_int_msg'[q]
              /\ buf' \in [Proc -> [source : Proc \cup {INTERRUPT}, body : Mail \cup {HARD_INT}]]
            BY <2>1, <2>4 DEF TableOK
        <3> QED  BY <2>1, <3>1 DEF TableOK
    <2> QED  BY <1>1, <2>1, <2>2, <2>3, <2>5 DEF TookInt, Kept
<1>3. ASSUME NEW i \in DOMAIN q_sending[p], ReceiveTake(p, src, i)
      PROVE  TableOK' /\ \E q \in Proc : Took(p, q, src)
    <2>0. PICK q \in Proc : q = q_sending[p][i]
        BY DEF TableOK
    <2>1. /\ src \in {ANY, q}
          /\ buf' = [buf EXCEPT ![p] = buf[q]]
          /\ p_msg' = [p_msg EXCEPT ![q] = FALSE]
          /\ p_sendto' = [p_sendto EXCEPT ![q] = NO_TASK]
          /\ p_flags' = [p_flags EXCEPT ![q] = @ \ {"SENDING"}]
          /\ UNCHANGED <<p_recvfrom, has_int_msg>>
          /\ q_sending' = [q_sending EXCEPT ![p] = RemoveAt(@, i)]
        BY <1>3, <2>0 DEF ReceiveTake, TakeFrom, Unlink, Picks
    <2>2. /\ p_flags[q] = {"SENDING"} /\ p_msg[q] /\ p_recvfrom[q] = NO_TASK /\ p_sendto[q] = p
          /\ ~p_msg[p] /\ p_recvfrom[p] = NO_TASK /\ p_sendto[p] = NO_TASK
        BY <1>3, <2>0 DEF ReceiveTake, TakeFrom, Asserting
    <2>3. SendsTo(q, p) /\ Unblocked(p) /\ p # q
        BY <1>1, <2>2 DEF SendsTo, Unblocked
    <2>4. /\ p_flags'[q] = {} /\ p_msg'[q] = FALSE /\ p_sendto'[q] = NO_TASK
          /\ p_flags'[p] = {} /\ p_msg'[p] = p_msg[p] /\ p_sendto'[p] = NO_TASK
          /\ buf'[p] = buf[q] /\ buf'[q] = buf[q] /\ p_recvfrom' = p_recvfrom
        BY <1>1, <2>1, <2>2, <2>3 DEF TableOK
    <2>5. Unblocked(q)' /\ Unblocked(p)'
        BY <2>2, <2>4 DEF Unblocked
    <2>6. \A r \in Proc \ {p, q} : Kept(r)
        <3>1. ASSUME NEW r \in Proc \ {p, q} PROVE Kept(r)
            <4>1. /\ p_flags'[r] = p_flags[r] /\ p_msg'[r] = p_msg[r]
                  /\ p_sendto'[r] = p_sendto[r] /\ p_recvfrom'[r] = p_recvfrom[r]
                  /\ buf'[r] = buf[r]
                BY <2>1 DEF TableOK
            <4> QED  BY <4>1, EntryIsKept DEF Kept
        <3> QED  BY <3>1
    <2>7. TableOK'
        <3>1. /\ p_flags' \in [Proc -> SUBSET Flag] /\ p_msg' \in [Proc -> BOOLEAN]
              /\ p_sendto' \in [Proc -> Proc \cup {NO_TASK}]
              /\ buf' \in [Proc -> [source : Proc \cup {INTERRUPT}, body : Mail \cup {HARD_INT}]]
            BY <2>1 DEF TableOK
        <3>2. RemoveAt(q_sending[p], i) \in Seq(Proc)
            BY RemoveAtProperties DEF TableOK
        <3>3. q_sending' \in [Proc -> Seq(Proc)]
            BY <2>1, <3>2 DEF TableOK
        <3> QED  BY <2>1, <3>1, <3>3 DEF TableOK
    <2> QED  BY <2>1, <2>3, <2>4, <2>5, <2>6, <2>7 DEF Took
<1>4. CASE ReceiveBlock(p, src)
    <2>1. /\ buf' = [buf EXCEPT ![p].source = p]
          /\ p_msg' = [p_msg EXCEPT ![p] = TRUE]
          /\ p_flags' = [p_flags EXCEPT ![p] = @ \cup {"RECEIVING"}]
          /\ p_recvfrom' = [p_recvfrom EXCEPT ![p] = src]
          /\ UNCHANGED <<p_sendto, q_sending, has_int_msg>>
        BY <1>4 DEF ReceiveBlock, BlockReceiver
    <2>2. p_flags'[p] = {"RECEIVING"} /\ p_sendto[p] = NO_TASK /\ ~has_int_msg[p]
        BY <1>4 DEF ReceiveBlock, BlockReceiver, Asserting
    <2>3. Awaiting(p, src)' /\ buf'[p] = [buf[p] EXCEPT !.source = p]
        BY <2>1, <2>2 DEF Awaiting, TableOK
    <2>6. \A q \in Proc \ {p} : Kept(q)
        <3>1. ASSUME NEW q \in Proc \ {p} PROVE Kept(q)
            <4>1. /\ p_flags'[q] = p_flags[q] /\ p_msg'[q] = p_msg[q]
                  /\ p_sendto'[q] = p_sendto[q] /\ p_recvfrom'[q] = p_recvfrom[q]
                  /\ buf'[q] = buf[q]
                BY <2>1 DEF TableOK
            <4> QED  BY <4>1, EntryIsKept DEF Kept
        <3> QED  BY <3>1
    <2>7. TableOK'
        <3>1. /\ p_flags' \in [Proc -> SUBSET Flag] /\ p_msg' \in [Proc -> BOOLEAN]
              /\ p_recvfrom' \in [Proc -> Source \cup {NO_TASK}]
              /\ buf' \in [Proc -> [source : Proc \cup {INTERRUPT}, body : Mail \cup {HARD_INT}]]
            BY <2>1 DEF TableOK, Flag
        <3> QED  BY <2>1, <3>1 DEF TableOK
    <2> QED  BY <1>1, <2>1, <2>2, <2>3, <2>6, <2>7 DEF Blocks
<1> QED  BY <1>1, <1>2, <1>3, <1>4 DEF MsgReceive

\* An interrupt of the disk: HD waits for it, or it is noted.
LEMMA InformIs ==
    ASSUME TableOK, InformInt(HD), halted' = "no"
    PROVE  /\ TableOK' /\ halted = "no"
           /\ \A r \in Proc \ {HD} : Kept(r)
           /\ \/ /\ Awaiting(HD, INTERRUPT) \/ Awaiting(HD, ANY)
                 /\ Unblocked(HD)' /\ ~has_int_msg'[HD]
              \/ ~Awaiting(HD, INTERRUPT) /\ ~Awaiting(HD, ANY) /\ Kept(HD) /\ has_int_msg'[HD]
<1> USE ProcFacts
<1>1. halted = "no"
    BY DEF InformInt
<1>2. CASE InformPend(HD)
    <2>1. /\ ~Awaits(HD, INTERRUPT)
          /\ has_int_msg' = [has_int_msg EXCEPT ![HD] = TRUE]
          /\ UNCHANGED <<p_flags, p_sendto, p_recvfrom, p_msg, q_sending, buf, halted>>
        BY <1>2 DEF InformPend
    <2>2. \A r \in Proc : Kept(r)
        BY <2>1, EntryIsKept DEF Kept
    <2>3. ~Awaiting(HD, INTERRUPT) /\ ~Awaiting(HD, ANY)
        BY <2>1 DEF Awaits, Awaiting, Receiving
    <2>4. TableOK' /\ has_int_msg'[HD]
        BY <2>1 DEF TableOK
    <2> QED  BY <1>1, <2>2, <2>3, <2>4
<1>3. CASE InformWake(HD)
    <2>1. /\ buf' = [buf EXCEPT ![HD] = IntMessage]
          /\ p_msg' = [p_msg EXCEPT ![HD] = FALSE]
          /\ has_int_msg' = [has_int_msg EXCEPT ![HD] = FALSE]
          /\ p_flags' = [p_flags EXCEPT ![HD] = @ \ {"RECEIVING"}]
          /\ p_recvfrom' = [p_recvfrom EXCEPT ![HD] = NO_TASK]
          /\ UNCHANGED <<p_sendto, q_sending>>
          /\ Awaits(HD, INTERRUPT)
        BY <1>3 DEF InformWake
    <2>2. p_msg[HD] /\ p_flags'[HD] = {} /\ p_sendto[HD] = NO_TASK
        BY <1>3 DEF InformWake, Asserting
    <2>3. p_flags[HD] = {"RECEIVING"}
        <3>1. p_flags'[HD] = p_flags[HD] \ {"RECEIVING"} /\ "RECEIVING" \in p_flags[HD]
            BY <2>1 DEF TableOK, Awaits, Receiving
        <3> QED  BY <2>2, <3>1
    <2>4. Unblocked(HD)' /\ (Awaiting(HD, INTERRUPT) \/ Awaiting(HD, ANY)) /\ ~has_int_msg'[HD]
        BY <2>1, <2>2, <2>3 DEF TableOK, Unblocked, Awaiting, Awaits
    <2>5. \A r \in Proc \ {HD} : Kept(r)
        <3>1. ASSUME NEW r \in Proc \ {HD} PROVE Kept(r)
            <4>1. /\ p_flags'[r] = p_flags[r] /\ p_msg'[r] = p_msg[r]
                  /\ p_sendto'[r] = p_sendto[r] /\ p_recvfrom'[r] = p_recvfrom[r]
                  /\ buf'[r] = buf[r]
                BY <2>1 DEF TableOK
            <4> QED  BY <4>1, EntryIsKept DEF Kept
        <3> QED  BY <3>1
    <2>6. TableOK'
        <3>1. /\ has_int_msg' \in [Proc -> BOOLEAN] /\ \A q \in Proc \ {HD} : ~has_int_msg'[q]
              /\ p_flags' \in [Proc -> SUBSET Flag] /\ p_msg' \in [Proc -> BOOLEAN]
              /\ p_recvfrom' \in [Proc -> Source \cup {NO_TASK}]
            BY <2>1 DEF TableOK
        <3>2. IntMessage \in [source : Proc \cup {INTERRUPT}, body : Mail \cup {HARD_INT}]
            BY DEF IntMessage
        <3>3. buf' \in [Proc -> [source : Proc \cup {INTERRUPT}, body : Mail \cup {HARD_INT}]]
            BY <2>1, <3>2 DEF TableOK
        <3> QED  BY <2>1, <3>1, <3>3 DEF TableOK
    <2> QED  BY <1>1, <2>4, <2>5, <2>6
<1> QED  BY <1>2, <1>3 DEF InformInt

-----------------------------------------------------------------------------
(* Parts of the invariant that a step leaves alone *)

\* A task without a flag is not blocked.
LEMMA TasksRun ==
    ASSUME HdOK, SysOK, FsOK
    PROVE  /\ p_flags[HD] = {} => Unblocked(HD)
           /\ p_flags[SYS] = {} => Unblocked(SYS)
           /\ p_flags[FS] = {} => Unblocked(FS)
<1> USE ProcFacts, AllApart
<1>1. p_flags[HD] = {} => Unblocked(HD)
    BY DEF HdOK, HdAtPlace, Apart
<1>2. p_flags[SYS] = {} => Unblocked(SYS)
    BY DEF SysOK, SysAtPlace, Apart
<1>3. p_flags[FS] = {} => Unblocked(FS)
    BY DEF FsOK, FsAtPlace, Apart
<1> QED  BY <1>1, <1>2, <1>3

LEMMA AllKept ==
    ASSUME UNCHANGED ipcVars
    PROVE  /\ \A q \in Proc : Kept(q)
           /\ TableOK => TableOK'
           /\ has_int_msg' = has_int_msg /\ halted' = halted
BY EntryIsKept DEF ipcVars, Kept, TableOK

LEMMA HdStays ==
    ASSUME Kept(HD), hd' = hd
    PROVE  /\ HdOK => HdOK'
           /\ HdFree' <=> HdFree
           /\ HdAsks' <=> HdAsks
BY DEF Kept, EntryKept, HdOK, HdAtPlace, HdFree, HdAsks

LEMMA DiskStays ==
    ASSUME DiskOK, hd' = hd, disk' = disk, has_int_msg' = has_int_msg,
           Unblocked(HD)' <=> Unblocked(HD)
    PROVE  DiskOK'
BY DEF DiskOK, Quiet, Writing, Written, Reading, Transferring

LEMMA SysStays ==
    ASSUME Kept(SYS), sys' = sys
    PROVE  /\ SysOK => SysOK'
           /\ SysHasHd' <=> SysHasHd
           /\ SysAsks' <=> SysAsks
           /\ \A u \in User : SysHas(u)' <=> SysHas(u)
BY DEF Kept, EntryKept, SysOK, SysAtPlace, SysHasHd, SysAsks, SysHas

LEMMA FsStays ==
    ASSUME Kept(FS), fs' = fs
    PROVE  /\ FsOK /\ (HdFree' <=> HdFree) => FsOK'
           /\ FsHasSys' <=> FsHasSys
           /\ \A u \in User : FsHas(u)' <=> FsHas(u)
BY DEF Kept, EntryKept, FsOK, FsAtPlace, FsHasSys, FsHas

LEMMA MailStays ==
    ASSUME NEW u \in User, UserMail(u), Kept(u)
    PROVE  UserMail(u)'
BY DEF Kept, EntryKept, UserMail, Sending

LEMMA TimeStays ==
    ASSUME TimeOK, hd' = hd, ticks' = ticks, passed' = passed, Kept(HD), Kept(SYS)
    PROVE  TimeOK'
BY DEF Kept, EntryKept, TimeOK, Told

\* Who HD is free for, or asks, by its place.
LEMMA HdFreeIs ==
    ASSUME HdOK
    PROVE  /\ Unblocked(HD) => (HdFree <=> hd.at = "loop")
           /\ Unblocked(HD) => (HdAsks <=> hd.at \in {"begin", "asked"})
           /\ HdFree => hd.at \in {"loop", "dispatch"} /\ \A d : ~SendsTo(HD, d)
           /\ HdAsks => hd.at \in {"begin", "asked", "began", "look"} /\ ~HdFree
           /\ Awaiting(HD, ANY) => hd.at = "dispatch" /\ HdFree
           /\ \A s : Awaiting(HD, s) => s \in {ANY, SYS, INTERRUPT}
           /\ \A d : SendsTo(HD, d) =>
                 \/ d = FS /\ hd.at = "loop" /\ ~HdFree
                 \/ d = SYS /\ hd.at \in {"begin", "asked"} /\ ~HdFree
                    /\ buf[HD] = Letter(HD, Msg("GET_TICKS", 0))
BY ProcFacts, AllApart DEF HdOK, HdAtPlace, HdFree, HdAsks, Apart, HdIdle

\* Whom FS waits for, by its place.
LEMMA FsIs ==
    ASSUME FsOK, HdSysTypeOK
    PROVE  /\ Unblocked(FS) => (HdFree <=> fs.at # "asked")
           /\ \A s : Awaiting(FS, s) =>
                 \/ s = ANY /\ fs.at = "dispatch" /\ HdFree
                 \/ s = HD /\ fs.at \in {"mkfs", "loop", "serve"} /\ ~HdFree
           /\ \A d : SendsTo(FS, d) =>
                 /\ HdFree
                 /\ \/ d = HD /\ fs.at = "asked" /\ \E m \in HdRequest : buf[FS] = Letter(FS, m)
                    \/ fs.at = "loop" /\ d \in User \cup {SYS}
<1> USE ProcFacts, AllApart DEF FsOK, FsAtPlace, Apart
<1>1. fs.at \in {"boot", "mkfs", "loop", "dispatch", "asked", "serve"}
    BY DEF HdSysTypeOK, FsState
<1>2. Unblocked(FS) => (HdFree <=> fs.at # "asked")
    OBVIOUS
<1>3. ASSUME NEW s, Awaiting(FS, s)
      PROVE  \/ s = ANY /\ fs.at = "dispatch" /\ HdFree
             \/ s = HD /\ fs.at \in {"mkfs", "loop", "serve"} /\ ~HdFree
    BY <1>1, <1>3
<1>4. ASSUME NEW d, SendsTo(FS, d)
      PROVE  /\ HdFree
             /\ \/ d = HD /\ fs.at = "asked" /\ \E m \in HdRequest : buf[FS] = Letter(FS, m)
                \/ fs.at = "loop" /\ d \in User \cup {SYS}
    BY <1>1, <1>4
<1> QED  BY <1>2, <1>3, <1>4

\* Whom SYS waits for, by its place.
LEMMA SysIs ==
    ASSUME SysOK
    PROVE  /\ \A s : Awaiting(SYS, s) =>
                 (s = ANY /\ sys.at = "dispatch") \/ (s = FS /\ sys.at = "closed")
           /\ \A d : SendsTo(SYS, d) =>
                 \/ d = FS /\ sys.at = "close" /\ buf[SYS] = Letter(SYS, Msg("CLOSE", 0))
                 \/ sys.at = "loop" /\ sys = SysIdle /\ d \in User \cup {HD}
           /\ Unblocked(SYS) => (SysAsks <=> sys.at = "close")
           /\ Unblocked(SYS) => (SysHasHd <=> sys.at = "dispatch" /\ buf[SYS].source = HD)
BY ProcFacts, AllApart DEF SysOK, SysAtPlace, SysAsks, SysHasHd, Apart

\* Senders that are no tasks send to FS or SYS.
LEMMA SendersAre ==
    ASSUME DriverInv, NEW p \in Proc, NEW d, SendsTo(p, d)
    PROVE  /\ p = HD => d \in {FS, SYS}
           /\ p = SYS => d \in {HD, FS} \cup User
           /\ p = FS => d \in {HD, SYS} \cup User
           /\ p \in User => d \in {FS, SYS}
<1>1. p = HD => d \in {FS, SYS}
    BY HdFreeIs DEF DriverInv
<1>2. p = SYS => d \in {HD, FS} \cup User
    BY SysIs DEF DriverInv
<1>3. p = FS => d \in {HD, SYS} \cup User
    BY FsIs DEF DriverInv
<1>4. p \in User => d \in {FS, SYS}
    BY AllApart DEF DriverInv, UserMail, Apart
<1> QED  BY <1>1, <1>2, <1>3, <1>4

-----------------------------------------------------------------------------
(* The clock and the disk *)

LEMMA TimeLimits ==
    /\ MAX_TICKS \in Nat /\ MAX_TICKS > 0
    /\ Uptime \subseteq 0..(MAX_TICKS - 1) /\ Delay \in Nat /\ Delay < MAX_TICKS
BY TimeAssumption, HdSysAssumption

\* After Delay more ticks the time since x is longer by Delay at the most.
LEMMA SinceGrows ==
    ASSUME NEW x \in 0..(MAX_TICKS - 1), NEW now \in 0..(MAX_TICKS - 1), NEW next,
           next = IF now + Delay >= MAX_TICKS THEN now + Delay - MAX_TICKS ELSE now + Delay
    PROVE  /\ next \in 0..(MAX_TICKS - 1)
           /\ Since(x, now) \in Nat /\ Since(x, next) \in Nat
           /\ Since(x, next) <= Since(x, now) + Delay
BY TimeLimits DEF Since

LEMMA ClockStep ==
    ASSUME DriverInv, ClockHandler
    PROVE  DriverInv'
<1> USE ProcFacts DEF DriverInv
<1>1. /\ UNCHANGED ipcVars
      /\ disk' = disk /\ hd' = hd /\ sys' = sys /\ fs' = fs /\ user' = user /\ harmed' = harmed
      /\ ticks' = IF ticks + Delay >= MAX_TICKS THEN ticks + Delay - MAX_TICKS ELSE ticks + Delay
      /\ passed' = IF hd.at \in {"begin", "began", "asked", "look", "look again"}
                   THEN passed + Delay ELSE 0
    BY DEF ClockHandler
<1>2. /\ \A q \in Proc : Kept(q)
      /\ TableOK' /\ has_int_msg' = has_int_msg
    BY <1>1, AllKept
<1>3. /\ HdOK' /\ DiskOK' /\ SysOK' /\ FsOK' /\ TasksPair'
      /\ \A u \in User : UserMail(u)'
    <2>1. HdOK' /\ (HdFree' <=> HdFree) /\ (HdAsks' <=> HdAsks)
        BY <1>1, <1>2, HdStays
    <2>2. DiskOK'
        BY <1>1, <1>2, DiskStays DEF Kept, EntryKept
    <2>3. SysOK' /\ (SysHasHd' <=> SysHasHd) /\ (SysAsks' <=> SysAsks)
        BY <1>1, <1>2, SysStays
    <2>4. FsOK' /\ (FsHasSys' <=> FsHasSys)
        BY <1>1, <1>2, <2>1, FsStays
    <2> QED  BY <1>2, <2>1, <2>2, <2>3, <2>4, MailStays DEF TasksPair
<1>4. /\ ticks \in 0..(MAX_TICKS - 1) /\ passed \in Nat /\ Delay \in Nat
      /\ hd.t \in Nat
    BY TimeLimits DEF HdSysTypeOK, HdState
<1>5. HdSysTypeOK'
    <2>1. ticks' \in 0..(MAX_TICKS - 1)
        BY <1>1, <1>4, SinceGrows
    <2>2. passed' = passed + Delay \/ passed' = 0
        BY <1>1
    <2>3. passed' \in Nat
        BY <1>4, <2>2
    <2>4. disk' = disk /\ hd' = hd /\ sys' = sys /\ fs' = fs /\ user' = user /\ harmed' = harmed
        BY <1>1
    <2> QED  BY <2>1, <2>3, <2>4 DEF HdSysTypeOK
<1>6. ASSUME hd.at \in Polling, NEW x, Told(x) PROVE Told(x)'
    <2>1. x \in 0..(MAX_TICKS - 1) /\ passed' = passed + Delay
        BY <1>1, <1>6 DEF Told, Polling
    <2>2. Since(x, ticks') <= Since(x, ticks) + Delay /\ Since(x, ticks) \in Nat
             /\ Since(x, ticks') \in Nat
        BY <1>1, <1>4, <2>1, SinceGrows
    <2>3. CASE hd.at \in {"begin", "began"}
        <3>1. Since(x, ticks) <= passed
            BY <1>6, <2>3 DEF Told
        <3> HIDE DEF DriverInv
        <3>2. Since(x, ticks') <= passed'
            BY <3>1, <2>1, <2>2, <1>4
        <3> QED  BY <1>1, <2>1, <2>3, <3>2 DEF Told
    <2>4. CASE hd.at \notin {"begin", "began"}
        <3>1. Since(hd.t, x) + Since(x, ticks) <= passed
            BY <1>6, <2>4 DEF Told
        <3>2. Since(hd.t, x) \in Int
            BY <2>1, <1>4, TimeLimits DEF Since
        <3> HIDE DEF DriverInv
        <3>3. Since(hd.t, x) + Since(x, ticks') <= passed'
            BY <3>1, <3>2, <2>1, <2>2, <1>4
        <3> QED  BY <1>1, <2>1, <2>4, <3>3 DEF Told
    <2> QED  BY <2>3, <2>4
<1>7. hd.at \in {"asked", "look", "look again"} => hd.t < MAX_TICKS /\ Since(hd.t, ticks') <= passed'
    <2>1. SUFFICES ASSUME hd.at \in {"asked", "look", "look again"}
                   PROVE  hd.t < MAX_TICKS /\ Since(hd.t, ticks') <= passed'
        OBVIOUS
    <2>2. hd.t < MAX_TICKS /\ Since(hd.t, ticks) <= passed
        BY <2>1 DEF TimeOK
    <2>3. hd.t \in 0..(MAX_TICKS - 1)
        BY <2>2, <1>4, TimeLimits
    <2>4. Since(hd.t, ticks') <= Since(hd.t, ticks) + Delay /\ Since(hd.t, ticks) \in Nat
             /\ Since(hd.t, ticks') \in Nat
        BY <1>1, <1>4, <2>3, SinceGrows
    <2>5. passed' = passed + Delay
        BY <1>1, <2>1
    <2> HIDE DEF DriverInv
    <2> QED  BY <2>2, <2>4, <2>5, <1>4
<1>8. TimeOK'
    <2>1. SendsTo(SYS, HD) => hd.at \in Polling
        BY HdFreeIs DEF TasksPair, SysHasHd, Polling
    <2>2. hd.at \in {"began", "look"} => hd.at \in Polling
        BY DEF Polling
    <2>3. /\ Unblocked(HD)' <=> Unblocked(HD)
          /\ SendsTo(SYS, HD)' <=> SendsTo(SYS, HD)
          /\ buf' = buf
        BY <1>1, <1>2 DEF Kept, EntryKept, ipcVars
    <2> QED  BY <1>1, <1>6, <1>7, <2>1, <2>2, <2>3 DEF TimeOK
<1> QED  BY <1>2, <1>3, <1>5, <1>8

\* Where HD is while the disk is busy.
LEMMA BusyAt ==
    ASSUME HdOK, DiskOK, disk.busy
    PROVE  /\ ~HdFree /\ ~Awaiting(HD, ANY) /\ hd.at \notin {"loop", "dispatch", "command"}
           /\ disk.op # "out" => hd.at \in {"sector", "written", "interrupted"}
BY AllApart, ProcFacts, HdFreeIs
   DEF HdOK, HdAtPlace, DiskOK, Quiet, Writing, Written, Reading, Transferring, Polling, Apart

LEMMA DiskStep ==
    ASSUME DriverInv, DiskReady, halted = "no", halted' = "no"
    PROVE  DriverInv'
<1> USE ProcFacts DEF DriverInv
<1>1. /\ disk.busy
      /\ disk' = [disk EXCEPT !.busy = FALSE,
                              !.drq = disk.op # "written" \/ disk.left > 0,
                              !.op = IF @ = "written" THEN "out" ELSE @]
      /\ hd' = hd /\ sys' = sys /\ fs' = fs /\ user' = user /\ harmed' = harmed
      /\ ticks' = ticks /\ passed' = passed
    BY DEF DiskReady
<1>2. /\ disk' \in DiskState
      /\ disk'.busy = FALSE /\ disk'.left = disk.left
      /\ disk'.drq <=> disk.op # "written" \/ disk.left > 0
      /\ disk'.op = IF disk.op = "written" THEN "out" ELSE disk.op
      /\ disk.op \in {"in", "out", "written"} /\ disk.left \in Nat
    BY <1>1 DEF HdSysTypeOK, DiskState
<1>3. HdSysTypeOK'
    BY <1>1, <1>2 DEF HdSysTypeOK
<1>4. /\ ~HdFree /\ ~Awaiting(HD, ANY) /\ hd.at \notin {"loop", "dispatch", "command"}
      /\ disk.op # "out" => hd.at \in {"sector", "written", "interrupted"}
    BY <1>1, BusyAt
<1>5. /\ TableOK' /\ \A r \in Proc \ {HD} : Kept(r)
      /\ HdOK' /\ ~HdFree' /\ (HdAsks' <=> HdAsks) /\ DiskOK' /\ TimeOK'
    <2>1. CASE disk.op = "out"
        <3>1. \A q \in Proc : Kept(q)
            BY <1>1, <2>1, AllKept DEF DiskReady
        <3>2. TableOK' /\ has_int_msg' = has_int_msg
            BY <1>1, <2>1, AllKept DEF DiskReady
        <3>3. HdOK' /\ ~HdFree' /\ (HdAsks' <=> HdAsks) /\ TimeOK'
            BY <1>1, <1>4, <3>1, HdStays, TimeStays
        <3>4. Unblocked(HD)' <=> Unblocked(HD)
            BY <3>1 DEF Kept, EntryKept
        <3>5. DiskOK'
            BY <1>1, <1>2, <2>1, <3>2, <3>4
               DEF DiskOK, Quiet, Writing, Written, Reading, Transferring, Polling
        <3> QED  BY <3>1, <3>2, <3>3, <3>5
    <2>2. CASE disk.op # "out"
        <3>1. InformInt(HD)
            BY <2>2 DEF DiskReady
        <3>2. /\ TableOK' /\ \A r \in Proc \ {HD} : Kept(r)
              /\ \/ Awaiting(HD, INTERRUPT) /\ Unblocked(HD)' /\ ~has_int_msg'[HD]
                 \/ ~Awaiting(HD, INTERRUPT) /\ Kept(HD) /\ has_int_msg'[HD]
            BY <3>1, <1>4, InformIs
        <3>3. hd.at \in {"sector", "written", "interrupted"}
            BY <1>4, <2>2
        <3>4. Awaiting(HD, INTERRUPT) => hd.at = "interrupted" /\ ~Unblocked(HD)
            BY AllApart DEF HdOK, HdAtPlace, Apart
        <3>5. HdOK' /\ ~HdFree'
            BY <1>1, <1>4, <3>2, <3>3, <3>4, HdStays, AllApart DEF HdOK, HdAtPlace, HdFree, Apart
        <3>6. HdAsks' <=> HdAsks
            BY <1>1, <3>2, <3>3, <3>4, <3>5, HdStays, HdFreeIs, AllApart DEF HdAsks, Apart
        <3>7. TimeOK'
            <4>1. hd.at \notin {"asked", "look", "look again", "began"}
                BY <3>3
            <4>2. ~SendsTo(SYS, HD) /\ Kept(SYS)
                BY <3>2, <3>3, HdFreeIs DEF TasksPair, SysHasHd
            <4> QED  BY <1>1, <4>1, <4>2 DEF TimeOK, Kept, EntryKept
        <3>8. DiskOK'
            <4>1. Unblocked(HD) <=> ~Awaiting(HD, INTERRUPT)
                BY <3>3, <3>4 DEF HdOK, HdAtPlace
            <4>2. Unblocked(HD)'
                BY <3>2, <4>1 DEF Kept, EntryKept
            <4>3. CASE Head(hd.job).op = "out"
                BY <1>1, <1>2, <2>2, <3>2, <3>3, <3>4, <4>1, <4>2, <4>3
                   DEF DiskOK, Writing, Written, Transferring, Polling
            <4>4. CASE Head(hd.job).op # "out"
                BY <1>1, <1>2, <2>2, <3>2, <3>3, <3>4, <4>1, <4>2, <4>4
                   DEF DiskOK, Written, Reading, Transferring, Polling
            <4> QED  BY <4>3, <4>4
        <3> QED  BY <3>2, <3>5, <3>6, <3>7, <3>8
    <2> QED  BY <2>1, <2>2
<1>6. SysOK' /\ (SysHasHd' <=> SysHasHd) /\ (SysAsks' <=> SysAsks)
    BY <1>1, <1>5, SysStays
<1>7. FsOK' /\ (FsHasSys' <=> FsHasSys)
    BY <1>1, <1>4, <1>5, FsStays
<1>8. \A u \in User : UserMail(u)'
    BY <1>5, MailStays
<1> QED  BY <1>3, <1>5, <1>6, <1>7, <1>8 DEF TasksPair

-----------------------------------------------------------------------------
(* HD between its messages *)

LEMMA DriverTypes ==
    ASSUME DriverInv
    PROVE  /\ ticks \in 0..(MAX_TICKS - 1) /\ passed \in Nat
           /\ disk \in DiskState /\ hd \in HdState /\ sys \in SysState /\ fs \in FsState
           /\ user \in [User -> UserState] /\ harmed \in BOOLEAN
BY DEF DriverInv, HdSysTypeOK

LEMMA HdTypes ==
    ASSUME DriverInv, HdRest, hd' \in HdState, disk' \in DiskState, passed' \in Nat
    PROVE  HdSysTypeOK'
BY DriverTypes DEF HdRest, HdSysTypeOK

\* HD works on, neither at its loop nor asking SYS.
LEMMA HdMoves ==
    ASSUME DriverInv, UNCHANGED ipcVars, HdRest, p_flags[HD] = {},
           hd.at \notin {"loop", "begin", "asked"}, hd'.at \notin {"loop", "begin", "asked"}
    PROVE  /\ Unblocked(HD) /\ Unblocked(HD)' /\ ~SendsTo(SYS, HD)'
           /\ buf' = buf /\ has_int_msg' = has_int_msg
           /\ TableOK' /\ SysOK' /\ FsOK' /\ TasksPair' /\ \A u \in User : UserMail(u)'
<1> USE ProcFacts DEF DriverInv
<1>1. /\ \A q \in Proc : Kept(q)
      /\ TableOK' /\ has_int_msg' = has_int_msg /\ buf' = buf
    BY AllKept DEF ipcVars
<1>2. sys' = sys /\ fs' = fs
    BY DEF HdRest
<1>3. Unblocked(HD) /\ Unblocked(HD)'
    BY <1>1, TasksRun DEF Kept, EntryKept
<1>4. ~HdFree /\ ~HdFree' /\ ~HdAsks /\ ~HdAsks'
    BY <1>3, AllApart DEF HdFree, HdAsks, Apart
<1>5. SysOK' /\ (SysHasHd' <=> SysHasHd) /\ (SysAsks' <=> SysAsks)
    BY <1>1, <1>2, SysStays
<1>6. FsOK' /\ (FsHasSys' <=> FsHasSys)
    BY <1>1, <1>2, <1>4, FsStays
<1>7. TasksPair' /\ ~SendsTo(SYS, HD)'
    BY <1>4, <1>5, <1>6 DEF TasksPair, SysHasHd
<1> QED  BY <1>1, <1>3, <1>5, <1>6, <1>7, MailStays

LEMMA CountIs ==
    ASSUME NEW n \in Nat \ {0}
    PROVE  /\ Count(n) \in Nat \ {0} /\ Count(n) <= n
           /\ n <= COUNT_VALUES => Count(n) = n
<1>1. COUNT_VALUES \in Nat \ {0}
    BY HdSysAssumption
<1>2. n % COUNT_VALUES \in 0..(COUNT_VALUES - 1) /\ n \div COUNT_VALUES \in Nat
         /\ n = COUNT_VALUES * (n \div COUNT_VALUES) + (n % COUNT_VALUES)
    BY <1>1, Z3
<1>3. CASE n < COUNT_VALUES
    <2>1. n % COUNT_VALUES = n
        BY <1>1, <1>3, Z3
    <2> QED  BY <1>1, <1>3, <2>1 DEF Count
<1>4. CASE n = COUNT_VALUES
    <2>1. n % COUNT_VALUES = 0
        BY <1>1, <1>4, Z3
    <2> QED  BY <1>1, <1>4, <2>1 DEF Count
<1>5. CASE n > COUNT_VALUES
    BY <1>1, <1>2, <1>5 DEF Count
<1> QED  BY <1>1, <1>3, <1>4, <1>5

\* The commands of a request.
LEMMA JobIs ==
    ASSUME NEW m \in HdRequest, NEW job \in Job(m.type, m.n)
    PROVE  job \in Seq(Command)
<1>1. Identify \in Command /\ PartTable \in Command
    BY DEF Identify, PartTable, In, Command
<1>2. CASE m.type = "DEV_OPEN"
    <2>1. PICK k \in 1..MaxTables : job = <<Identify>> \o [i \in 1..k |-> PartTable]
        BY <1>2 DEF Job, Partition
    <2>2. [i \in 1..k |-> PartTable] \in Seq(Command) /\ <<Identify>> \in Seq(Command)
        BY <1>1, HdSysAssumption
    <2> QED  BY <2>1, <2>2, ConcatProperties
<1>3. CASE m.type # "DEV_OPEN"
    <2>1. m.type = "DEV_IOCTL" \/ (m.type \in {"DEV_READ", "DEV_WRITE"} /\ m.n \in 1..MaxSectors)
        BY <1>3 DEF HdRequest, Transfer, Msg
    <2>2. CASE m.type = "DEV_IOCTL"
        BY <2>2 DEF Job, Ioctl
    <2>3. CASE m.type # "DEV_IOCTL"
        <3>1. m.n \in Nat \ {0}
            BY <2>1, <2>3, HdSysAssumption
        <3>2. HdRdwt(m.type, m.n) \in Command
            BY <3>1 DEF HdRdwt, In, Out, Command
        <3>3. job = <<HdRdwt(m.type, m.n)>>
            BY <1>3, <2>3 DEF Job
        <3> QED  BY <3>2, <3>3
    <2> QED  BY <2>2, <2>3
<1> QED  BY <1>2, <1>3

LEMMA HdDispatchStep ==
    ASSUME DriverInv, HdDispatch
    PROVE  DriverInv'
<1> USE ProcFacts
<1>0. HdOK /\ DiskOK /\ SysOK /\ FsOK
    BY DEF DriverInv
<1>1. /\ hd.at = "dispatch" /\ p_flags[HD] = {} /\ UNCHANGED ipcVars /\ HdRest
      /\ disk' = disk /\ passed' = passed
    BY DEF HdDispatch, HdAt, Runnable
<1>2. PICK job \in Job(buf[HD].body.type, buf[HD].body.n) :
          hd' = [hd EXCEPT !.at = "command", !.src = buf[HD].source, !.job = job]
    BY DEF HdDispatch
<1>3. Unblocked(HD)
    BY <1>0, <1>1, TasksRun
<1>4. /\ hd = [HdIdle EXCEPT !.at = "dispatch"]
      /\ \E m \in HdRequest : buf[HD] = Letter(FS, m)
    BY <1>0, <1>1, <1>3, AllApart DEF HdOK, HdAtPlace, Apart
<1>5. PICK m \in HdRequest : buf[HD] = Letter(FS, m)
    BY <1>4
<1>6. job \in Seq(Command) /\ buf[HD].source = FS
    BY <1>2, <1>5, JobIs DEF Letter
<1>7. hd' = [at |-> "command", src |-> FS, job |-> job, left |-> 0, for |-> "BSY", t |-> 0]
    BY <1>2, <1>4, <1>6 DEF HdIdle
<1>8. /\ Unblocked(HD)' /\ ~SendsTo(SYS, HD)'
      /\ buf' = buf /\ has_int_msg' = has_int_msg
      /\ TableOK' /\ SysOK' /\ FsOK' /\ TasksPair' /\ \A u \in User : UserMail(u)'
    BY <1>1, <1>7, HdMoves
<1>9. HdSysTypeOK'
    <2>1. hd' \in HdState
        BY <1>6, <1>7 DEF HdState, HdPlace
    <2> QED  BY <1>1, <2>1, DriverTypes, HdTypes
<1>10. HdOK'
    BY <1>7, <1>8 DEF HdOK, HdAtPlace
<1>11. DiskOK'
    BY <1>0, <1>1, <1>7, <1>8 DEF DiskOK, Quiet
<1>12. TimeOK'
    BY <1>7, <1>8 DEF TimeOK
<1> QED  BY <1>8, <1>9, <1>10, <1>11, <1>12 DEF DriverInv

LEMMA HdLookStep ==
    ASSUME DriverInv, HdLook
    PROVE  DriverInv'
<1> USE ProcFacts
<1>0. HdOK /\ DiskOK /\ TimeOK
    BY DEF DriverInv
<1>1. /\ hd.at = "look" /\ p_flags[HD] = {} /\ UNCHANGED ipcVars /\ HdRest /\ disk' = disk
    BY DEF HdLook, HdAt, Runnable
<1>2. /\ hd'.at = IF ~Ready THEN "look again" ELSE IF hd.for = "BSY" THEN "out" ELSE "port"
      /\ hd'.src = hd.src /\ hd'.job = hd.job /\ hd'.left = hd.left /\ hd'.for = hd.for
      /\ ~Ready => hd'.t = hd.t /\ passed' = passed
      /\ hd' \in HdState /\ hd.for \in {"BSY", "DRQ"} /\ passed' \in Nat
    <2>0. hd \in HdState /\ passed \in Nat
        BY DriverTypes
    <2>1. CASE Ready
        <3>1. /\ passed' = 0
              /\ hd' = [hd EXCEPT !.at = IF hd.for = "BSY" THEN "out" ELSE "port", !.t = 0]
            BY <2>1 DEF HdLook
        <3> QED  BY <2>0, <2>1, <3>1 DEF HdState, HdPlace
    <2>2. CASE ~Ready
        <3>1. passed' = passed /\ hd' = [hd EXCEPT !.at = "look again"]
            BY <2>2 DEF HdLook, HdGoto
        <3> QED  BY <2>0, <2>2, <3>1 DEF HdState, HdPlace
    <2> QED  BY <2>1, <2>2
<1>3. hd'.at \in {"out", "port", "look again"}
    BY <1>2
<1>4. /\ Unblocked(HD) /\ Unblocked(HD)' /\ ~SendsTo(SYS, HD)'
      /\ buf' = buf /\ has_int_msg' = has_int_msg
      /\ TableOK' /\ SysOK' /\ FsOK' /\ TasksPair' /\ \A u \in User : UserMail(u)'
    BY <1>1, <1>3, HdMoves
<1>5. HdSysTypeOK'
    BY <1>1, <1>2, DriverTypes, HdTypes
<1>6. HdOK'
    BY <1>0, <1>1, <1>2, <1>3, <1>4 DEF HdOK, HdAtPlace
<1>7. DiskOK'
    <2>2. CASE hd.for = "BSY"
        BY <1>0, <1>1, <1>2, <1>4, <2>2 DEF DiskOK, Quiet, Polling
    <2>3. CASE hd.for = "DRQ"
        <3>1. Writing
            BY <1>0, <1>1, <2>3 DEF DiskOK, Polling
        <3>2. Writing' /\ (hd'.at = "port" => disk'.drq)
            BY <1>1, <1>2, <1>4, <2>3, <3>1 DEF Writing, Transferring, Ready
        <3> QED  BY <1>1, <1>2, <2>3, <3>2 DEF DiskOK, Polling
    <2> QED  BY <1>2, <2>2, <2>3
<1>8. TimeOK'
    BY <1>0, <1>1, <1>2, <1>4 DEF TimeOK, HdRest
<1> QED  BY <1>4, <1>5, <1>6, <1>7, <1>8 DEF DriverInv

LEMMA HdCmdOutStep ==
    ASSUME DriverInv, HdCmdOut
    PROVE  DriverInv'
<1> USE ProcFacts
<1>0. HdOK /\ DiskOK
    BY DEF DriverInv
<1>1. /\ hd.at = "out" /\ p_flags[HD] = {} /\ UNCHANGED ipcVars /\ HdRest /\ passed' = passed
      /\ disk' = [busy |-> TRUE, drq |-> FALSE, op |-> Head(hd.job).op,
                  left |-> Count(Head(hd.job).n)]
      /\ hd' = [hd EXCEPT !.at = "sector", !.left = Head(hd.job).n]
    BY DEF HdCmdOut, HdAt, Runnable
<1>2. hd.job \in Seq(Command) /\ hd.job # <<>>
    BY <1>0, <1>1, DriverTypes DEF HdOK, HdState
<1>3. Head(hd.job) \in Command
    BY <1>2, HeadTailProperties
<1>4. Head(hd.job).op \in {"in", "out"} /\ Head(hd.job).n \in Nat \ {0}
    BY <1>3 DEF Command
<1>5. /\ Count(Head(hd.job).n) \in Nat \ {0} /\ Count(Head(hd.job).n) <= Head(hd.job).n
      /\ Head(hd.job).n <= COUNT_VALUES => Count(Head(hd.job).n) = Head(hd.job).n
    BY <1>4, CountIs
<1>6. /\ hd'.at = "sector" /\ hd'.left = Head(hd.job).n
      /\ hd'.src = hd.src /\ hd'.job = hd.job /\ hd'.for = hd.for
      /\ hd' \in HdState
    BY <1>1, <1>4, DriverTypes DEF HdState, HdPlace
<1>7. /\ Unblocked(HD) /\ Unblocked(HD)' /\ ~SendsTo(SYS, HD)'
      /\ buf' = buf /\ has_int_msg' = has_int_msg
      /\ TableOK' /\ SysOK' /\ FsOK' /\ TasksPair' /\ \A u \in User : UserMail(u)'
    BY <1>1, <1>6, HdMoves
<1>8. HdSysTypeOK'
    <2>1. disk' \in DiskState
        BY <1>1, <1>4, <1>5 DEF DiskState
    <2> QED  BY <1>1, <1>6, <2>1, DriverTypes, HdTypes
<1>9. HdOK'
    BY <1>0, <1>1, <1>6, <1>7 DEF HdOK, HdAtPlace
<1>10. DiskOK'
    <2>1. ~has_int_msg[HD]
        BY <1>0, <1>1 DEF DiskOK, Quiet
    <2>2. Transferring' /\ disk'.busy /\ ~disk'.drq /\ disk'.left > 0 /\ disk'.op = Head(hd'.job).op
        BY <1>1, <1>4, <1>5, <1>6 DEF Transferring
    <2> QED  BY <1>4, <1>6, <1>7, <2>1, <2>2 DEF DiskOK, Writing, Reading, Polling
<1>11. TimeOK'
    BY <1>6, <1>7 DEF TimeOK
<1> QED  BY <1>7, <1>8, <1>9, <1>10, <1>11 DEF DriverInv

LEMMA HdPortWriteStep ==
    ASSUME DriverInv, HdPortWrite
    PROVE  DriverInv'
<1> USE ProcFacts
<1>0. HdOK /\ DiskOK
    BY DEF DriverInv
<1>1. /\ hd.at = "port" /\ p_flags[HD] = {} /\ UNCHANGED ipcVars /\ HdRest /\ passed' = passed
      /\ disk' = [disk EXCEPT !.busy = TRUE, !.drq = FALSE, !.op = "written", !.left = @ - 1]
      /\ hd' = [hd EXCEPT !.at = "written"]
    BY DEF HdPortWrite, HdAt, HdGoto, Runnable
<1>2. Writing /\ disk.drq
    BY <1>0, <1>1 DEF DiskOK, Polling
<1>3. disk.left \in Nat /\ disk.left > 0 /\ hd.left \in Nat
    BY <1>2, DriverTypes DEF Writing, DiskState, HdState
<1>4. /\ hd'.at = "written" /\ hd'.left = hd.left
      /\ hd'.src = hd.src /\ hd'.job = hd.job /\ hd'.for = hd.for
      /\ hd' \in HdState
    BY <1>1, DriverTypes DEF HdState, HdPlace
<1>5. /\ disk'.busy /\ ~disk'.drq /\ disk'.op = "written" /\ disk'.left = disk.left - 1
      /\ disk' \in DiskState
    <2>1. disk' = [busy |-> TRUE, drq |-> FALSE, op |-> "written", left |-> disk.left - 1]
        BY <1>1, DriverTypes DEF DiskState
    <2> QED  BY <1>3, <2>1 DEF DiskState
<1>6. /\ Unblocked(HD) /\ Unblocked(HD)' /\ ~SendsTo(SYS, HD)'
      /\ buf' = buf /\ has_int_msg' = has_int_msg
      /\ TableOK' /\ SysOK' /\ FsOK' /\ TasksPair' /\ \A u \in User : UserMail(u)'
    BY <1>1, <1>4, HdMoves
<1>7. HdSysTypeOK'
    BY <1>1, <1>4, <1>5, DriverTypes, HdTypes
<1>8. HdOK'
    BY <1>0, <1>1, <1>4, <1>6 DEF HdOK, HdAtPlace
<1>9. DiskOK'
    <2>1. Written'
        BY <1>2, <1>3, <1>4, <1>5, <1>6 DEF Writing, Written, Transferring
    <2>2. Head(hd'.job).op = "out"
        BY <1>2, <1>4 DEF Writing
    <2> QED  BY <1>4, <2>1, <2>2 DEF DiskOK, Polling
<1>10. TimeOK'
    BY <1>4, <1>6 DEF TimeOK
<1> QED  BY <1>6, <1>7, <1>8, <1>9, <1>10 DEF DriverInv

LEMMA HdSectorDoneStep ==
    ASSUME DriverInv, HdSectorDone
    PROVE  DriverInv'
<1> USE ProcFacts
<1>0. HdOK /\ DiskOK
    BY DEF DriverInv
<1>1. /\ hd.at = "interrupted" /\ p_flags[HD] = {} /\ UNCHANGED ipcVars /\ HdRest
      /\ passed' = passed
      /\ disk' = IF Head(hd.job).op = "out" THEN disk
                 ELSE [disk EXCEPT !.drq = FALSE, !.busy = disk.left > 1, !.left = @ - 1]
      /\ hd' = [hd EXCEPT !.left = @ - 1,
                          !.at = IF hd.left > 1 THEN "sector" ELSE "command",
                          !.job = IF hd.left > 1 THEN @ ELSE Tail(@)]
    BY DEF HdSectorDone, HdAt, Waits, Runnable
<1>2. hd.job \in Seq(Command) /\ hd.job # <<>> /\ hd.left \in Nat /\ disk.left \in Nat
    BY <1>0, <1>1, DriverTypes DEF HdOK, HdState, DiskState
<1>3. Tail(hd.job) \in Seq(Command) /\ Head(hd.job) \in Command
    BY <1>2, HeadTailProperties
<1>4. IF Head(hd.job).op = "out" THEN Written ELSE Reading
    BY <1>0, <1>1 DEF DiskOK, Polling
<1>5. hd.left > 0
    BY <1>4 DEF Written, Reading, Transferring
<1>6. /\ hd'.at = (IF hd.left > 1 THEN "sector" ELSE "command") /\ hd'.left = hd.left - 1
      /\ hd'.src = hd.src /\ hd'.for = hd.for
      /\ hd.left > 1 => hd'.job = hd.job
      /\ hd' \in HdState
    <2>1. hd \in HdState /\ hd.left - 1 \in Nat
        BY <1>2, <1>5, DriverTypes
    <2>2. CASE hd.left > 1
        <3>1. hd' = [hd EXCEPT !.left = hd.left - 1, !.at = "sector"]
            BY <1>1, <2>1, <2>2 DEF HdState
        <3>2. hd' \in HdState
            BY <2>1, <3>1 DEF HdState, HdPlace
        <3> QED  BY <2>1, <2>2, <3>1, <3>2 DEF HdState
    <2>3. CASE ~(hd.left > 1)
        <3>1. hd' = [hd EXCEPT !.left = hd.left - 1, !.at = "command", !.job = Tail(hd.job)]
            BY <1>1, <2>1, <2>3 DEF HdState
        <3>2. hd' \in HdState
            BY <1>3, <2>1, <3>1 DEF HdState, HdPlace
        <3> QED  BY <2>1, <2>3, <3>1, <3>2 DEF HdState
    <2> QED  BY <2>2, <2>3
<1>7. /\ Unblocked(HD) /\ Unblocked(HD)' /\ ~SendsTo(SYS, HD)'
      /\ buf' = buf /\ has_int_msg' = has_int_msg
      /\ TableOK' /\ SysOK' /\ FsOK' /\ TasksPair' /\ \A u \in User : UserMail(u)'
    BY <1>1, <1>6, HdMoves
<1>8. disk' \in DiskState /\ DiskOK'
    <2>1. CASE Head(hd.job).op = "out"
        <3>1. disk' = disk
            BY <1>1, <2>1
        <3>2. /\ disk.left < hd.left /\ (Head(hd.job).n <= COUNT_VALUES => disk.left = hd.left - 1)
              /\ ~disk.busy /\ disk.op = "out" /\ (disk.drq <=> disk.left > 0)
              /\ ~has_int_msg[HD]
            BY <1>1, <1>4, <1>7, <2>1 DEF Written
        <3>3. CASE hd.left > 1
            BY <1>2, <1>3, <1>6, <1>7, <2>1, <3>1, <3>2, <3>3, DriverTypes
               DEF DiskOK, Writing, Transferring, Polling
        <3>4. CASE ~(hd.left > 1)
            BY <1>2, <1>3, <1>6, <1>7, <2>1, <3>1, <3>2, <3>4, DriverTypes DEF DiskOK, Quiet
        <3> QED  BY <3>3, <3>4
    <2>2. CASE Head(hd.job).op # "out"
        <3>1. /\ disk.op = "in" /\ disk.left <= hd.left /\ disk.left > 0 /\ ~has_int_msg[HD]
              /\ Head(hd.job).n <= COUNT_VALUES => disk.left = hd.left
            BY <1>1, <1>4, <1>7, <2>2 DEF Reading, Transferring
        <3>2. /\ disk' \in DiskState /\ disk'.left = disk.left - 1 /\ ~disk'.drq
              /\ disk'.op = "in" /\ (disk'.busy <=> disk.left > 1)
            <4>1. disk' = [busy |-> disk.left > 1, drq |-> FALSE, op |-> disk.op,
                           left |-> disk.left - 1]
                BY <1>1, <2>2, DriverTypes DEF DiskState
            <4>2. disk' \in DiskState
                BY <1>2, <3>1, <4>1, DriverTypes DEF DiskState
            <4> QED  BY <1>2, <3>1, <4>1, <4>2
        <3>3. CASE hd.left > 1
            <4>1. Reading'
                BY <1>2, <1>6, <1>7, <3>1, <3>2, <3>3 DEF Reading, Transferring
            <4> QED  BY <1>6, <2>2, <3>2, <3>3, <4>1 DEF DiskOK, Polling
        <3>4. CASE ~(hd.left > 1)
            BY <1>2, <1>6, <1>7, <3>1, <3>2, <3>4 DEF DiskOK, Quiet
        <3> QED  BY <3>3, <3>4
    <2> QED  BY <2>1, <2>2
<1>9. HdSysTypeOK'
    BY <1>1, <1>6, <1>8, DriverTypes, HdTypes
<1>10. HdOK'
    BY <1>0, <1>1, <1>2, <1>6, <1>7 DEF HdOK, HdAtPlace
<1>11. TimeOK'
    BY <1>6, <1>7 DEF TimeOK
<1> QED  BY <1>7, <1>8, <1>9, <1>10, <1>11 DEF DriverInv

-----------------------------------------------------------------------------
(* HD's messages *)

\* get_ticks(): SYS has the question, or HD is in its queue.
LEMMA AskStep ==
    ASSUME DriverInv, AskTicks, halted' = "no", HdRest,
           hd.at \notin {"loop", "begin", "asked"}, hd'.at \in {"begin", "asked"}
    PROVE  /\ Unblocked(HD) /\ ~SendsTo(SYS, HD)' /\ has_int_msg' = has_int_msg
           /\ Unblocked(HD)' \/ SendsTo(HD, SYS)'
           /\ buf'[HD] = Letter(HD, Msg("GET_TICKS", 0))
           /\ TableOK' /\ SysOK' /\ FsOK' /\ TasksPair' /\ \A u \in User : UserMail(u)'
<1> USE ProcFacts
<1>0. /\ TableOK /\ HdOK /\ SysOK /\ FsOK /\ TasksPair
      /\ \A u \in User : UserMail(u)
    BY DEF DriverInv
<1>1. sys' = sys /\ fs' = fs
    BY DEF HdRest
<1> DEFINE m == Msg("GET_TICKS", 0)
<1>2. m \in Mail
    BY DEF Mail, Msg
<1> HIDE DEF m
<1>3. /\ TableOK' /\ has_int_msg' = has_int_msg /\ buf'[HD] = Letter(HD, m)
      /\ \A q \in Proc \ {HD, SYS} : Kept(q)
      /\ Handed(HD, SYS, m) \/ Queued(HD, SYS, m)
    BY <1>0, <1>2, SendIs DEF AskTicks, m
<1>4. Unblocked(HD)
    BY <1>0, TasksRun DEF AskTicks, MsgSend, Runnable
<1>5. ~HdFree /\ ~HdAsks /\ ~SysHasHd
    BY <1>0, <1>4, HdFreeIs DEF TasksPair
<1>6. CASE Handed(HD, SYS, m)
    <2>1. /\ Awaiting(SYS, ANY) /\ sys.at = "dispatch" /\ Unblocked(SYS)'
          /\ buf'[SYS] = Letter(HD, m) /\ Unblocked(HD)'
        BY <1>0, <1>6, SysIs DEF Handed
    <2>2. ~HdFree' /\ HdAsks'
        BY <2>1, AllApart DEF HdFree, HdAsks, Apart
    <2>3. sys = [SysIdle EXCEPT !.at = "dispatch"]
        BY <1>0, <2>1 DEF SysOK, SysAtPlace
    <2>4. SysOK'
        BY <1>1, <2>1, <2>3 DEF SysOK, SysAtPlace, m
    <2>5. SysHasHd' /\ ~SysAsks' /\ ~SysAsks /\ ~SendsTo(SYS, HD)'
        BY <1>1, <2>1, AllApart DEF SysHasHd, SysAsks, Apart, Letter
    <2>6. FsOK' /\ (FsHasSys' <=> FsHasSys)
        BY <1>0, <1>1, <1>3, <1>5, <2>2, FsStays
    <2>7. TasksPair'
        BY <1>0, <2>2, <2>5, <2>6 DEF TasksPair
    <2> QED  BY <1>0, <1>3, <1>4, <2>1, <2>4, <2>5, <2>6, <2>7, MailStays DEF m
<1>7. CASE Queued(HD, SYS, m)
    <2>1. Kept(SYS) /\ SendsTo(HD, SYS)'
        BY <1>7 DEF Queued
    <2>2. ~HdFree' /\ ~HdAsks'
        BY <2>1, AllApart DEF HdFree, HdAsks, Apart
    <2>3. SysOK' /\ ~SysHasHd' /\ (SysAsks' <=> SysAsks)
        BY <1>0, <1>1, <1>5, <2>1, SysStays
    <2>4. ~SendsTo(SYS, HD)'
        BY <2>3 DEF SysHasHd
    <2>5. FsOK' /\ (FsHasSys' <=> FsHasSys)
        BY <1>0, <1>1, <1>3, <1>5, <2>2, FsStays
    <2>6. TasksPair'
        BY <1>0, <2>2, <2>3, <2>5 DEF TasksPair
    <2> QED  BY <1>0, <1>3, <1>4, <2>1, <2>3, <2>4, <2>5, <2>6, MailStays DEF m
<1> QED  BY <1>3, <1>6, <1>7

LEMMA HdWaitforStep ==
    ASSUME DriverInv, HdWaitfor, halted' = "no"
    PROVE  DriverInv'
<1> USE ProcFacts
<1>0. HdOK /\ DiskOK
    BY DEF DriverInv
<1>1. /\ Polls /\ AskTicks /\ HdRest /\ passed' = 0 /\ disk' = disk
      /\ hd' = [hd EXCEPT !.at = "begin", !.for = IF hd.at = "command" THEN "BSY" ELSE "DRQ"]
    BY DEF HdWaitfor
<1>2. /\ hd'.at = "begin" /\ hd'.for = (IF hd.at = "command" THEN "BSY" ELSE "DRQ")
      /\ hd'.src = hd.src /\ hd'.job = hd.job /\ hd'.left = hd.left
      /\ hd' \in HdState
    BY <1>1, DriverTypes DEF HdState, HdPlace
<1>3. \/ hd.at = "command" /\ hd.job # <<>>
      \/ hd.at = "sector" /\ Head(hd.job).op = "out"
    BY <1>1 DEF Polls
<1>4. /\ Unblocked(HD) /\ ~SendsTo(SYS, HD)' /\ has_int_msg' = has_int_msg
      /\ Unblocked(HD)' \/ SendsTo(HD, SYS)'
      /\ buf'[HD] = Letter(HD, Msg("GET_TICKS", 0))
      /\ TableOK' /\ SysOK' /\ FsOK' /\ TasksPair' /\ \A u \in User : UserMail(u)'
    BY <1>1, <1>2, <1>3, AskStep
<1>5. HdSysTypeOK'
    BY <1>1, <1>2, DriverTypes, HdTypes
<1>6. HdOK'
    BY <1>0, <1>2, <1>3, <1>4 DEF HdOK, HdAtPlace
<1>7. DiskOK'
    <2>1. CASE hd.at = "command"
        BY <1>0, <1>1, <1>2, <1>4, <2>1 DEF DiskOK, Quiet, Polling
    <2>2. CASE hd.at # "command"
        <3>1. Writing
            BY <1>0, <1>3, <2>2 DEF DiskOK, Polling
        <3>2. Writing'
            BY <1>1, <1>2, <1>4, <3>1 DEF Writing, Transferring
        <3> QED  BY <1>2, <2>2, <3>2 DEF DiskOK, Polling
    <2> QED  BY <2>1, <2>2
<1>8. TimeOK'
    BY <1>2, <1>4 DEF TimeOK
<1> QED  BY <1>4, <1>5, <1>6, <1>7, <1>8 DEF DriverInv

\* Between two looks at the status the disk is as it was.
LEMMA PollingStays ==
    ASSUME DiskOK, hd.at \in Polling, hd'.at \in Polling, hd'.for = hd.for,
           hd'.job = hd.job, hd'.left = hd.left, disk' = disk, has_int_msg' = has_int_msg
    PROVE  DiskOK'
<1>1. CASE hd.for = "BSY"
    BY <1>1 DEF DiskOK, Quiet, Polling
<1>2. CASE hd.for # "BSY"
    <2>1. Writing
        BY <1>2 DEF DiskOK, Polling
    <2>2. Writing'
        BY <2>1 DEF Writing, Transferring
    <2> QED  BY <1>2, <2>2 DEF DiskOK, Polling
<1> QED  BY <1>1, <1>2

LEMMA HdAgainStep ==
    ASSUME DriverInv, HdAgain, halted' = "no"
    PROVE  DriverInv'
<1> USE ProcFacts
<1>0. HdOK /\ DiskOK /\ SysOK /\ FsOK /\ TimeOK
    BY DEF DriverInv
<1>1. /\ hd.at = "began" /\ AskTicks /\ HdRest /\ passed' = passed /\ disk' = disk
      /\ hd' = [hd EXCEPT !.at = "asked", !.t = buf[HD].body.n]
    BY DEF HdAgain
<1>2. Unblocked(HD)
    BY <1>0, <1>1, TasksRun DEF AskTicks, MsgSend, Runnable
<1>3. Told(buf[HD].body.n)
    BY <1>0, <1>1, <1>2 DEF TimeOK
<1>4. buf[HD].body.n \in 0..(MAX_TICKS - 1) /\ Since(buf[HD].body.n, ticks) <= passed
    BY <1>1, <1>3 DEF Told
<1>5. buf[HD].body.n \in Nat /\ buf[HD].body.n < MAX_TICKS
    BY <1>4, TimeLimits
<1>6. /\ hd'.at = "asked" /\ hd'.for = hd.for /\ hd'.t = buf[HD].body.n
      /\ hd'.src = hd.src /\ hd'.job = hd.job /\ hd'.left = hd.left
      /\ hd' \in HdState
    BY <1>1, <1>5, DriverTypes DEF HdState, HdPlace
<1>7. /\ ~SendsTo(SYS, HD)' /\ has_int_msg' = has_int_msg
      /\ Unblocked(HD)' \/ SendsTo(HD, SYS)'
      /\ buf'[HD] = Letter(HD, Msg("GET_TICKS", 0))
      /\ TableOK' /\ SysOK' /\ FsOK' /\ TasksPair' /\ \A u \in User : UserMail(u)'
    BY <1>1, <1>6, AskStep
<1>8. HdSysTypeOK'
    BY <1>1, <1>6, DriverTypes, HdTypes
<1>9. HdOK'
    BY <1>0, <1>1, <1>6, <1>7 DEF HdOK, HdAtPlace
<1>10. DiskOK'
    BY <1>0, <1>1, <1>6, <1>7, PollingStays DEF Polling
<1>11. TimeOK'
    BY <1>1, <1>4, <1>5, <1>6, <1>7 DEF TimeOK, HdRest
<1> QED  BY <1>7, <1>8, <1>9, <1>10, <1>11 DEF DriverInv

LEMMA HdLookAgainStep ==
    ASSUME DriverInv, HdLookAgain, halted' = "no"
    PROVE  DriverInv'
<1> USE ProcFacts
<1>0. HdOK /\ DiskOK /\ TimeOK
    BY DEF DriverInv
<1>1. /\ hd.at = "look again" /\ AskTicks /\ HdRest /\ passed' = passed /\ disk' = disk
      /\ hd' = [hd EXCEPT !.at = "asked"]
    BY DEF HdLookAgain, HdGoto
<1>2. /\ hd'.at = "asked" /\ hd'.for = hd.for /\ hd'.t = hd.t
      /\ hd'.src = hd.src /\ hd'.job = hd.job /\ hd'.left = hd.left
      /\ hd' \in HdState
    BY <1>1, DriverTypes DEF HdState, HdPlace
<1>3. /\ ~SendsTo(SYS, HD)' /\ has_int_msg' = has_int_msg
      /\ Unblocked(HD)' \/ SendsTo(HD, SYS)'
      /\ buf'[HD] = Letter(HD, Msg("GET_TICKS", 0))
      /\ TableOK' /\ SysOK' /\ FsOK' /\ TasksPair' /\ \A u \in User : UserMail(u)'
    BY <1>1, <1>2, AskStep
<1>4. HdSysTypeOK'
    BY <1>1, <1>2, DriverTypes, HdTypes
<1>5. HdOK'
    BY <1>0, <1>1, <1>2, <1>3 DEF HdOK, HdAtPlace
<1>6. DiskOK'
    BY <1>0, <1>1, <1>2, <1>3, PollingStays DEF Polling
<1>7. TimeOK'
    BY <1>0, <1>1, <1>2, <1>3 DEF TimeOK, HdRest
<1> QED  BY <1>3, <1>4, <1>5, <1>6, <1>7 DEF DriverInv

\* SYS has answered, or HD waits for the answer.
LEMMA HdTicksStep ==
    ASSUME DriverInv, HdTicks, halted' = "no"
    PROVE  DriverInv'
<1> USE ProcFacts
<1>0. /\ TableOK /\ HdOK /\ DiskOK /\ SysOK /\ FsOK /\ TasksPair /\ TimeOK
      /\ \A u \in User : UserMail(u)
    BY DEF DriverInv
<1>1. /\ hd.at \in {"begin", "asked"} /\ MsgReceive(HD, SYS) /\ HdRest
      /\ passed' = passed /\ disk' = disk
      /\ hd' = [hd EXCEPT !.at = IF hd.at = "begin" THEN "began" ELSE "look"]
    BY DEF HdTicks, HdGoto
<1>2. /\ hd'.at = (IF hd.at = "begin" THEN "began" ELSE "look") /\ hd'.for = hd.for /\ hd'.t = hd.t
      /\ hd'.src = hd.src /\ hd'.job = hd.job /\ hd'.left = hd.left
      /\ hd' \in HdState
    BY <1>1, DriverTypes DEF HdState, HdPlace
<1>3. Unblocked(HD) /\ sys' = sys /\ fs' = fs /\ ticks' = ticks
    BY <1>0, <1>1, TasksRun DEF MsgReceive, Runnable, HdRest
<1>4. HdAsks /\ SysHasHd /\ ~HdFree
    BY <1>0, <1>1, <1>3, HdFreeIs DEF TasksPair
<1>5. TableOK' /\ (Blocks(HD, SYS) \/ Took(HD, SYS, SYS))
    <2>1. SYS \in Source
        BY DEF Source
    <2>2. TableOK' /\ (TookInt(HD, SYS) \/ Blocks(HD, SYS) \/ \E q \in Proc : Took(HD, q, SYS))
        BY <1>0, <1>1, <2>1, ReceiveIs
    <2> QED  BY <2>2 DEF TookInt, Took
<1>6. HdSysTypeOK'
    BY <1>1, <1>2, DriverTypes, HdTypes
<1>7. has_int_msg' = has_int_msg /\ DiskOK'
    <2>1. has_int_msg' = has_int_msg
        BY <1>5 DEF Blocks, Took
    <2> QED  BY <1>0, <1>1, <1>2, <2>1, PollingStays DEF Polling
<1>10. \A x : Told(x) => Told(x)'
    BY <1>1, <1>2, <1>3 DEF Told
<1>11. hd'.at = "look" => hd'.t < MAX_TICKS /\ Since(hd'.t, ticks') <= passed'
    <2>1. hd'.at = "look" => hd.at = "asked"
        BY <1>1, <1>2
    <2>2. hd.at = "asked" => hd.t < MAX_TICKS /\ Since(hd.t, ticks) <= passed
        BY <1>0 DEF TimeOK
    <2> QED  BY <1>1, <1>2, <1>3, <2>1, <2>2
<1>8. CASE Blocks(HD, SYS)
    <2>1. Awaiting(HD, SYS)' /\ \A r \in Proc \ {HD} : Kept(r)
        BY <1>8 DEF Blocks
    <2>2. HdOK' /\ ~HdFree' /\ HdAsks' /\ ~Unblocked(HD)'
        BY <1>0, <1>1, <1>2, <2>1, AllApart DEF HdOK, HdAtPlace, HdFree, HdAsks, Apart
    <2>3. SysOK' /\ (SysHasHd' <=> SysHasHd) /\ (SysAsks' <=> SysAsks)
        BY <1>0, <1>3, <2>1, SysStays
    <2>4. FsOK' /\ (FsHasSys' <=> FsHasSys)
        BY <1>0, <1>3, <1>4, <2>1, <2>2, FsStays
    <2>5. TasksPair'
        BY <1>0, <1>4, <2>2, <2>3, <2>4 DEF TasksPair
    <2>6. TimeOK'
        <3>1. SendsTo(SYS, HD)' => Told(buf[SYS].body.n) /\ buf'[SYS] = buf[SYS]
            BY <1>0, <2>1 DEF TimeOK, Kept, EntryKept
        <3> QED  BY <1>2, <1>10, <1>11, <2>2, <3>1 DEF TimeOK
    <2> QED  BY <1>0, <1>5, <1>6, <1>7, <2>1, <2>2, <2>3, <2>4, <2>5, <2>6, MailStays DEF DriverInv
<1>9. CASE Took(HD, SYS, SYS)
    <2>1. /\ SendsTo(SYS, HD) /\ Unblocked(SYS)' /\ Unblocked(HD)' /\ buf'[HD] = buf[SYS]
          /\ \A r \in Proc \ {HD, SYS} : Kept(r)
        BY <1>9 DEF Took
    <2>2. HdOK' /\ ~HdFree' /\ ~HdAsks'
        BY <1>0, <1>1, <1>2, <2>1, AllApart DEF HdOK, HdAtPlace, HdFree, HdAsks, Apart
    <2>3. sys.at = "loop" /\ sys = SysIdle
        BY <1>0, <2>1, SysIs
    <2>4. SysOK' /\ ~SysHasHd' /\ ~SysAsks' /\ ~SysAsks /\ ~SendsTo(SYS, HD)'
        BY <1>0, <1>3, <2>1, <2>3, AllApart DEF SysOK, SysAtPlace, SysHasHd, SysAsks, Apart
    <2>5. FsOK' /\ (FsHasSys' <=> FsHasSys)
        BY <1>0, <1>3, <1>4, <2>1, <2>2, FsStays
    <2>6. TasksPair'
        BY <1>0, <2>2, <2>4, <2>5 DEF TasksPair
    <2>7. TimeOK'
        <3>1. Told(buf[SYS].body.n)
            BY <1>0, <2>1 DEF TimeOK
        <3> QED  BY <1>2, <1>10, <1>11, <2>1, <2>4, <3>1 DEF TimeOK
    <2> QED  BY <1>0, <1>5, <1>6, <1>7, <2>1, <2>2, <2>4, <2>5, <2>6, <2>7, MailStays DEF DriverInv
<1> QED  BY <1>5, <1>8, <1>9

LEMMA HdInterruptWaitStep ==
    ASSUME DriverInv, HdInterruptWait, halted' = "no"
    PROVE  DriverInv'
<1> USE ProcFacts
<1>0. /\ TableOK /\ HdOK /\ DiskOK /\ SysOK /\ FsOK /\ TasksPair /\ TimeOK
      /\ \A u \in User : UserMail(u)
    BY DEF DriverInv
<1>1. /\ hd.at = "written" \/ (hd.at = "sector" /\ Head(hd.job).op = "in")
      /\ MsgReceive(HD, INTERRUPT) /\ HdRest /\ passed' = passed /\ disk' = disk
      /\ hd' = [hd EXCEPT !.at = "interrupted"]
    BY DEF HdInterruptWait, Waits, HdGoto
<1>2. /\ hd'.at = "interrupted" /\ hd'.src = hd.src /\ hd'.job = hd.job /\ hd'.left = hd.left
      /\ hd' \in HdState
    BY <1>1, DriverTypes DEF HdState, HdPlace
<1>3. Unblocked(HD) /\ sys' = sys /\ fs' = fs
    BY <1>0, <1>1, TasksRun DEF MsgReceive, Runnable, HdRest
<1>4. ~HdAsks /\ ~HdFree
    BY <1>0, <1>1, <1>3, HdFreeIs
<1>5. TableOK' /\ (TookInt(HD, INTERRUPT) \/ Blocks(HD, INTERRUPT))
    <2>1. INTERRUPT \in Source
        BY DEF Source
    <2>2. /\ TableOK'
          /\ TookInt(HD, INTERRUPT) \/ Blocks(HD, INTERRUPT) \/ \E q \in Proc : Took(HD, q, INTERRUPT)
        BY <1>0, <1>1, <2>1, ReceiveIs
    <2> QED  BY <2>2 DEF Took
<1>6. HdSysTypeOK'
    BY <1>1, <1>2, DriverTypes, HdTypes
<1>7. /\ \A r \in Proc \ {HD} : Kept(r)
      /\ (has_int_msg[HD] /\ Unblocked(HD)') \/ (~has_int_msg[HD] /\ Awaiting(HD, INTERRUPT)')
      /\ ~has_int_msg'[HD]
    BY <1>0, <1>3, <1>5 DEF TookInt, Blocks, EntryKept, TableOK
<1>8. HdOK' /\ ~HdAsks' /\ ~HdFree'
    BY <1>0, <1>1, <1>2, <1>7, AllApart DEF HdOK, HdAtPlace, HdFree, HdAsks, Apart
<1>9. SysOK' /\ (SysHasHd' <=> SysHasHd) /\ (SysAsks' <=> SysAsks)
    BY <1>0, <1>3, <1>7, SysStays
<1>10. FsOK' /\ (FsHasSys' <=> FsHasSys)
    BY <1>0, <1>3, <1>4, <1>7, <1>8, FsStays
<1>11. TasksPair' /\ ~SendsTo(SYS, HD)'
    BY <1>0, <1>4, <1>8, <1>9, <1>10 DEF TasksPair, SysHasHd
<1>12. TimeOK'
    BY <1>2, <1>11 DEF TimeOK
<1>13. DiskOK'
    <2>1. Unblocked(HD)' <=> has_int_msg[HD]
        BY <1>7, AllApart DEF Apart
    <2>2. CASE hd.at = "written"
        <3>0. Written
            BY <1>0, <2>2 DEF DiskOK, Polling
        <3>1. Head(hd.job).op = "out" /\ Written
            BY <3>0 DEF Written
        <3> QED
            BY <1>1, <1>2, <1>3, <1>7, <2>1, <2>2, <3>1 DEF DiskOK, Written, Polling
    <2>3. CASE hd.at # "written"
        <3>1. Head(hd.job).op = "in" /\ hd.at = "sector"
            BY <1>1, <2>3
        <3>2. Reading
            BY <1>0, <3>1 DEF DiskOK, Polling
        <3>3. Reading'
            BY <1>1, <1>2, <1>3, <1>7, <2>1, <3>1, <3>2 DEF Reading, Transferring
        <3> QED  BY <1>2, <3>1, <3>3 DEF DiskOK, Polling
    <2> QED  BY <2>2, <2>3
<1> QED  BY <1>0, <1>5, <1>6, <1>7, <1>8, <1>9, <1>10, <1>11, <1>12, <1>13, MailStays DEF DriverInv

\* HD takes a request of FS, or waits for one.
LEMMA HdReceiveStep ==
    ASSUME DriverInv, HdReceive, halted' = "no"
    PROVE  DriverInv'
<1> USE ProcFacts
<1>0. /\ TableOK /\ HdOK /\ DiskOK /\ SysOK /\ FsOK /\ TasksPair /\ TimeOK
      /\ \A u \in User : UserMail(u)
    BY DEF DriverInv
<1>1. /\ hd.at = "loop" /\ MsgReceive(HD, ANY) /\ HdRest /\ passed' = passed /\ disk' = disk
      /\ hd' = [hd EXCEPT !.at = "dispatch"]
    BY DEF HdReceive, HdGoto
<1>2. hd'.at = "dispatch" /\ hd' \in HdState
    BY <1>1, DriverTypes DEF HdState, HdPlace
<1>3. hd = HdIdle
    BY <1>0, <1>1 DEF HdOK, HdAtPlace
<1>4. Unblocked(HD) /\ sys' = sys /\ fs' = fs
    BY <1>0, <1>1, TasksRun DEF MsgReceive, Runnable, HdRest
<1>5. HdFree /\ ~HdAsks /\ ~SysHasHd /\ ~SendsTo(SYS, HD) /\ Quiet
    BY <1>0, <1>1, <1>4, HdFreeIs DEF TasksPair, SysHasHd, DiskOK
<1>6. TableOK' /\ (Blocks(HD, ANY) \/ \E q \in Proc : Took(HD, q, ANY))
    <2>1. ANY \in Source
        BY DEF Source
    <2>2. TableOK' /\ (TookInt(HD, ANY) \/ Blocks(HD, ANY) \/ \E q \in Proc : Took(HD, q, ANY))
        BY <1>0, <1>1, <2>1, ReceiveIs
    <2> QED  BY <1>5, <2>2 DEF TookInt, Quiet
<1>7. has_int_msg' = has_int_msg
    BY <1>6 DEF Blocks, Took
<1>8. HdSysTypeOK' /\ DiskOK'
    <2>1. HdSysTypeOK'
        BY <1>1, <1>2, DriverTypes, HdTypes
    <2> QED  BY <1>1, <1>2, <1>5, <1>7, <2>1 DEF DiskOK, Quiet
<1>9. ~HdAsks' \/ Awaiting(HD, SYS)'
    BY <1>2 DEF HdAsks
<1>10. CASE Blocks(HD, ANY)
    <2>1. Awaiting(HD, ANY)' /\ \A r \in Proc \ {HD} : Kept(r)
        BY <1>10 DEF Blocks
    <2>2. HdOK' /\ HdFree' /\ ~HdAsks'
        BY <1>1, <1>2, <1>3, <1>9, <2>1, AllApart DEF HdOK, HdAtPlace, HdFree, Apart
    <2>3. SysOK' /\ (SysHasHd' <=> SysHasHd) /\ (SysAsks' <=> SysAsks)
        BY <1>0, <1>4, <2>1, SysStays
    <2>4. FsOK' /\ (FsHasSys' <=> FsHasSys)
        BY <1>0, <1>4, <1>5, <2>1, <2>2, FsStays
    <2>5. TasksPair' /\ ~SendsTo(SYS, HD)'
        BY <1>0, <1>5, <2>2, <2>3, <2>4 DEF TasksPair, SysHasHd
    <2>6. TimeOK'
        BY <1>2, <2>5 DEF TimeOK
    <2> QED  BY <1>0, <1>6, <1>8, <2>1, <2>2, <2>3, <2>4, <2>5, <2>6, MailStays DEF DriverInv
<1>11. ASSUME NEW q \in Proc, Took(HD, q, ANY)
       PROVE  DriverInv'
    <2>1. /\ q # HD /\ SendsTo(q, HD) /\ Unblocked(q)' /\ Unblocked(HD)' /\ buf'[HD] = buf[q]
          /\ \A r \in Proc \ {HD, q} : Kept(r)
        BY <1>11 DEF Took
    <2>2. q = FS
        BY <1>5, <2>1, SendersAre
    <2>3. fs.at = "asked" /\ \E m \in HdRequest : buf[FS] = Letter(FS, m)
        BY <1>0, <2>1, <2>2, DriverTypes, FsIs DEF HdSysTypeOK
    <2>4. HdOK' /\ ~HdFree' /\ ~HdAsks'
        <3>1. hd' = [HdIdle EXCEPT !.at = "dispatch"]
            BY <1>1, <1>3
        <3>2. \E m \in HdRequest : buf'[HD] = Letter(FS, m)
            BY <2>1, <2>2, <2>3
        <3> QED  BY <1>2, <1>9, <2>1, <3>1, <3>2, AllApart DEF HdOK, HdAtPlace, HdFree, Apart
    <2>5. Kept(SYS) /\ \A u \in User : Kept(u)
        BY <2>1, <2>2
    <2>6. SysOK' /\ (SysHasHd' <=> SysHasHd) /\ (SysAsks' <=> SysAsks)
        BY <1>0, <1>4, <2>5, SysStays
    <2>7. FsOK'
        BY <1>0, <1>4, <2>1, <2>2, <2>3, <2>4 DEF FsOK, FsAtPlace
    <2>8. ~FsHasSys /\ ~FsHasSys'
        BY <1>4, <2>1, <2>2, <2>3, AllApart DEF FsHasSys, Apart
    <2>9. TasksPair' /\ ~SendsTo(SYS, HD)'
        BY <1>0, <1>5, <2>4, <2>6, <2>8 DEF TasksPair, SysHasHd
    <2>10. TimeOK'
        BY <1>2, <2>9 DEF TimeOK
    <2> QED
        BY <1>0, <1>6, <1>8, <2>4, <2>5, <2>6, <2>7, <2>9, <2>10, MailStays DEF DriverInv
<1> QED  BY <1>6, <1>10, <1>11

LEMMA HdReplyStep ==
    ASSUME DriverInv, HdReply, halted' = "no"
    PROVE  DriverInv'
<1> USE ProcFacts
<1>0. /\ TableOK /\ HdSysTypeOK /\ HdOK /\ DiskOK /\ SysOK /\ FsOK /\ TasksPair /\ TimeOK
      /\ \A u \in User : UserMail(u)
    BY DEF DriverInv
<1>1. /\ hd.at = "command" /\ MsgSend(HD, hd.src, Nothing) /\ HdRest
      /\ passed' = passed /\ disk' = disk /\ hd' = HdIdle
    BY DEF HdReply
<1>2. hd'.at = "loop" /\ hd' \in HdState
    BY <1>1 DEF HdState, HdPlace, HdIdle
<1>3. hd.src = FS
    BY <1>0, <1>1 DEF HdOK
<1>4. Unblocked(HD) /\ sys' = sys /\ fs' = fs
    BY <1>0, <1>1, TasksRun DEF MsgSend, Runnable, HdRest
<1>5. ~HdFree /\ ~HdAsks /\ ~SysHasHd /\ Quiet
    BY <1>0, <1>1, <1>4, HdFreeIs DEF TasksPair, DiskOK
<1>6. Nothing \in Mail
    BY DEF Mail, Nothing, Msg
<1>7. /\ TableOK' /\ has_int_msg' = has_int_msg
      /\ \A q \in Proc \ {HD, FS} : Kept(q)
      /\ Handed(HD, FS, Nothing) \/ Queued(HD, FS, Nothing)
    BY <1>0, <1>1, <1>3, <1>6, SendIs
<1>8. HdSysTypeOK' /\ DiskOK'
    <2>1. HdSysTypeOK'
        BY <1>1, <1>2, DriverTypes, HdTypes
    <2> QED  BY <1>1, <1>2, <1>5, <1>7, <2>1 DEF DiskOK, Quiet
<1>9. SysOK' /\ (SysHasHd' <=> SysHasHd) /\ (SysAsks' <=> SysAsks)
    BY <1>0, <1>4, <1>7, SysStays
<1>10. ~SendsTo(SYS, HD)'
    BY <1>5, <1>9 DEF SysHasHd
<1>11. TimeOK'
    BY <1>2, <1>10 DEF TimeOK
<1>12. HdOK' /\ (HdFree' <=> Unblocked(HD)') /\ ~HdAsks' /\ FsOK' /\ (FsHasSys' <=> FsHasSys)
    <2>1. CASE Handed(HD, FS, Nothing)
        <3>1. /\ Awaiting(FS, HD) \/ Awaiting(FS, ANY)
              /\ Unblocked(FS)' /\ Unblocked(HD)'
            BY <2>1 DEF Handed
        <3>2. fs.at \in {"mkfs", "loop", "serve"} /\ ~Unblocked(FS) /\ \A d : ~SendsTo(FS, d)
            BY <1>0, <1>5, <3>1, FsIs, AllApart DEF Apart
        <3>3. HdOK' /\ HdFree' /\ ~HdAsks'
            BY <1>1, <1>2, <3>1, AllApart DEF HdOK, HdAtPlace, HdFree, HdAsks, Apart
        <3>4. FsOK'
            BY <1>0, <1>4, <3>1, <3>2, <3>3 DEF FsOK, FsAtPlace
        <3>5. ~FsHasSys /\ ~FsHasSys'
            BY <1>4, <3>1, <3>2, AllApart DEF FsHasSys, Apart
        <3> QED  BY <3>1, <3>3, <3>4, <3>5
    <2>2. CASE Queued(HD, FS, Nothing)
        <3>1. SendsTo(HD, FS)' /\ Kept(FS)
            BY <2>2 DEF Queued
        <3>2. HdOK' /\ ~HdFree' /\ ~HdAsks' /\ ~Unblocked(HD)'
            BY <1>1, <1>2, <3>1, AllApart DEF HdOK, HdAtPlace, HdFree, HdAsks, Apart
        <3> QED  BY <1>0, <1>4, <1>5, <3>1, <3>2, FsStays
    <2> QED  BY <1>7, <2>1, <2>2
<1>13. TasksPair'
    BY <1>0, <1>5, <1>9, <1>12 DEF TasksPair
<1> QED  BY <1>0, <1>7, <1>8, <1>9, <1>11, <1>12, <1>13, MailStays DEF DriverInv

\* What HD does keeps the part of the invariant about the tasks.
LEMMA HdStep ==
    ASSUME DriverInv, TaskHd, halted' = "no"
    PROVE  DriverInv'
<1>1. ~HdPanic
    BY DEF HdPanic
<1> QED
    BY <1>1, HdReceiveStep, HdDispatchStep, HdWaitforStep, HdTicksStep, HdAgainStep, HdLookStep,
       HdLookAgainStep, HdCmdOutStep, HdPortWriteStep, HdInterruptWaitStep, HdSectorDoneStep,
       HdReplyStep DEF TaskHd

-----------------------------------------------------------------------------
(* SYS *)

LEMMA SysTypes ==
    ASSUME DriverInv, SysRest, sys' \in SysState, harmed' \in BOOLEAN
    PROVE  HdSysTypeOK'
BY DriverTypes DEF SysRest, hdVars, HdSysTypeOK

\* A step that does not touch HD.
LEMMA NotHd ==
    ASSUME DriverInv, Kept(HD), UNCHANGED hdVars, has_int_msg' = has_int_msg
    PROVE  HdOK' /\ DiskOK' /\ (HdFree' <=> HdFree) /\ (HdAsks' <=> HdAsks)
<1>1. HdOK /\ DiskOK /\ hd' = hd /\ disk' = disk
    BY DEF DriverInv, hdVars
<1>2. HdOK' /\ (HdFree' <=> HdFree) /\ (HdAsks' <=> HdAsks)
    BY <1>1, HdStays
<1>3. Unblocked(HD)' <=> Unblocked(HD)
    BY DEF Kept, EntryKept
<1>4. DiskOK'
    BY <1>1, <1>3, DiskStays
<1> QED  BY <1>2, <1>4

LEMMA NotHdTime ==
    ASSUME DriverInv, Kept(HD), UNCHANGED hdVars, ticks' = ticks,
           SendsTo(SYS, HD)' => SendsTo(SYS, HD) /\ buf'[SYS] = buf[SYS]
    PROVE  TimeOK'
<1>1. TimeOK /\ hd' = hd /\ passed' = passed
    BY DEF DriverInv, hdVars
<1>2. \A x : Told(x) => Told(x)'
    BY <1>1 DEF Told
<1>3. (Unblocked(HD)' <=> Unblocked(HD)) /\ buf'[HD] = buf[HD]
    BY DEF Kept, EntryKept
<1> QED  BY <1>1, <1>2, <1>3 DEF TimeOK

LEMMA MailGoes ==
    ASSUME NEW u \in User, Unblocked(u)' \/ Kept(u), UserMail(u)
    PROVE  UserMail(u)'
<1>1. CASE Unblocked(u)'
    BY <1>1, AllApart, ProcFacts DEF Apart, UserMail
<1> QED  BY <1>1, MailStays

LEMMA SysReceiveStep ==
    ASSUME DriverInv, SysReceive, halted' = "no"
    PROVE  DriverInv'
<1> USE ProcFacts
<1>0. /\ TableOK /\ HdSysTypeOK /\ HdOK /\ DiskOK /\ SysOK /\ FsOK /\ TasksPair /\ TimeOK
      /\ \A u \in User : UserMail(u)
    BY DEF DriverInv
<1>1. /\ sys.at = "loop" /\ MsgReceive(SYS, ANY) /\ sys' = [sys EXCEPT !.at = "dispatch"]
      /\ SysRest /\ harmed' = harmed
    BY DEF SysReceive
<1>2. UNCHANGED hdVars /\ hd' = hd /\ disk' = disk /\ fs' = fs /\ ticks' = ticks /\ passed' = passed
    BY <1>1 DEF SysRest, hdVars
<1>3. Unblocked(SYS) /\ sys = SysIdle /\ sys' = [SysIdle EXCEPT !.at = "dispatch"]
    BY <1>0, <1>1, TasksRun DEF MsgReceive, Runnable, SysOK, SysAtPlace
<1>4. sys'.at = "dispatch" /\ sys' \in SysState
    BY <1>3 DEF SysIdle, SysState
<1>5. HdSysTypeOK'
    BY <1>1, <1>4, DriverTypes, SysTypes
<1>6. ~SysHasHd /\ ~HdAsks /\ ~SysAsks /\ ~FsHasSys
    BY <1>0, <1>1, <1>3, SysIs DEF TasksPair
<1>7. /\ TableOK' /\ has_int_msg' = has_int_msg
      /\ Blocks(SYS, ANY) \/ \E q \in Proc : Took(SYS, q, ANY)
    <2>1. ANY \in Source
        BY DEF Source
    <2>2. TableOK' /\ (TookInt(SYS, ANY) \/ Blocks(SYS, ANY) \/ \E q \in Proc : Took(SYS, q, ANY))
        BY <1>0, <1>1, <2>1, ReceiveIs
    <2>3. ~has_int_msg[SYS]
        BY <1>0 DEF TableOK
    <2> QED  BY <2>2, <2>3 DEF TookInt, Blocks, Took
<1>8. CASE Blocks(SYS, ANY)
    <2>1. Awaiting(SYS, ANY)' /\ \A r \in Proc \ {SYS} : Kept(r)
        BY <1>8 DEF Blocks
    <2>2. SysOK' /\ ~SysHasHd' /\ ~SysAsks' /\ ~SendsTo(SYS, HD)'
        BY <1>3, <1>4, <2>1, AllApart DEF SysOK, SysAtPlace, SysHasHd, SysAsks, Apart
    <2>3. HdOK' /\ DiskOK' /\ TimeOK' /\ (HdFree' <=> HdFree) /\ (HdAsks' <=> HdAsks)
        BY <1>2, <1>7, <2>1, <2>2, NotHd, NotHdTime
    <2>4. FsOK' /\ (FsHasSys' <=> FsHasSys)
        BY <1>0, <1>2, <2>1, <2>3, FsStays
    <2>5. TasksPair'
        BY <1>6, <2>2, <2>3, <2>4 DEF TasksPair
    <2> QED  BY <1>0, <1>5, <1>7, <2>1, <2>2, <2>3, <2>4, <2>5, MailStays DEF DriverInv
<1>9. ASSUME NEW q \in Proc, Took(SYS, q, ANY)
      PROVE  DriverInv'
    <2>1. /\ q # SYS /\ SendsTo(q, SYS) /\ Unblocked(q)' /\ Unblocked(SYS)' /\ buf'[SYS] = buf[q]
          /\ \A r \in Proc \ {SYS, q} : Kept(r)
        BY <1>9 DEF Took
    <2>2. ~SendsTo(SYS, HD)' /\ ~SysAsks' /\ (SysHasHd' <=> buf'[SYS].source = HD)
        BY <1>4, <2>1, AllApart DEF SysHasHd, SysAsks, Apart
    <2>3. q # FS
        BY <1>6, <2>1 DEF FsHasSys
    <2>4. \A u \in User : UserMail(u)'
        BY <1>0, <2>1, MailGoes
    <2>5. CASE q = HD
        <3>1. /\ hd.at \in {"begin", "asked"} /\ ~HdFree
              /\ buf[HD] = Letter(HD, Msg("GET_TICKS", 0))
            BY <1>0, <2>1, <2>5, HdFreeIs
        <3>2. HdOK' /\ HdAsks' /\ ~HdFree'
            BY <1>0, <1>2, <2>1, <2>5, <3>1, AllApart DEF HdOK, HdAtPlace, HdAsks, HdFree, Apart
        <3>3. DiskOK'
            BY <1>0, <1>2, <1>7, <3>1, PollingStays DEF Polling
        <3>4. SysOK' /\ SysHasHd'
            BY <1>3, <1>4, <2>1, <2>2, <2>5, <3>1 DEF SysOK, SysAtPlace, Letter
        <3>5. FsOK' /\ (FsHasSys' <=> FsHasSys)
            BY <1>0, <1>2, <2>1, <2>5, <3>1, <3>2, FsStays
        <3>6. TasksPair'
            BY <1>6, <2>2, <3>2, <3>4, <3>5 DEF TasksPair
        <3>7. TimeOK'
            BY <1>0, <1>2, <2>2, <3>1 DEF TimeOK
        <3> QED  BY <1>5, <1>7, <2>4, <3>2, <3>3, <3>4, <3>5, <3>6, <3>7 DEF DriverInv
    <2>6. CASE q \in User
        <3>1. \E m \in SysRequest : buf[q] = Letter(q, m)
            BY <1>0, <2>1, <2>6, AllApart DEF UserMail, Apart
        <3>2. SysOK' /\ ~SysHasHd'
            BY <1>3, <1>4, <2>1, <2>2, <2>6, <3>1 DEF SysOK, SysAtPlace, Letter
        <3>3. HdOK' /\ DiskOK' /\ TimeOK' /\ (HdFree' <=> HdFree) /\ (HdAsks' <=> HdAsks)
            BY <1>2, <1>7, <2>1, <2>2, <2>6, NotHd, NotHdTime
        <3>4. FsOK' /\ (FsHasSys' <=> FsHasSys)
            BY <1>0, <1>2, <2>1, <2>6, <3>3, FsStays
        <3>5. TasksPair'
            BY <1>6, <2>2, <3>2, <3>3, <3>4 DEF TasksPair
        <3> QED  BY <1>5, <1>7, <2>4, <3>2, <3>3, <3>4, <3>5 DEF DriverInv
    <2> QED  BY <2>1, <2>3, <2>5, <2>6
<1> QED  BY <1>7, <1>8, <1>9

\* The answer goes to HD, or to a user process.
LEMMA SysAnswerStep ==
    ASSUME DriverInv, SysAnswer, halted' = "no"
    PROVE  DriverInv'
<1> USE ProcFacts
<1>0. /\ TableOK /\ HdSysTypeOK /\ HdOK /\ DiskOK /\ SysOK /\ FsOK /\ TasksPair /\ TimeOK
      /\ \A u \in User : UserMail(u)
    BY DEF DriverInv
<1>1. /\ sys.at = "dispatch" /\ MsgSend(SYS, buf[SYS].source, Msg("SYSCALL_RET", ticks))
      /\ sys' = [sys EXCEPT !.at = "loop"] /\ SysRest /\ harmed' = harmed
    BY DEF SysAnswer
<1>2. UNCHANGED hdVars /\ hd' = hd /\ disk' = disk /\ fs' = fs /\ ticks' = ticks /\ passed' = passed
    BY <1>1 DEF SysRest, hdVars
<1>3. Unblocked(SYS)
    BY <1>0, <1>1, TasksRun DEF MsgSend, Runnable
<1>4. /\ sys = [SysIdle EXCEPT !.at = "dispatch"]
      /\ buf[SYS].source = HD \/ buf[SYS].source \in User
    <2>1. ~Awaiting(SYS, ANY)
        BY <1>3, AllApart DEF Apart
    <2>2. /\ sys = [SysIdle EXCEPT !.at = "dispatch"]
          /\ \/ buf[SYS] = Letter(HD, Msg("GET_TICKS", 0))
             \/ \E u \in User, m \in SysRequest : buf[SYS] = Letter(u, m)
        BY <1>0, <1>1, <2>1 DEF SysOK, SysAtPlace
    <2>3. \A u, m : buf[SYS] = Letter(u, m) => buf[SYS].source = u
        BY DEF Letter
    <2> QED  BY <2>2, <2>3
<1>5. sys' = SysIdle /\ sys'.at = "loop" /\ sys' \in SysState
    <2>1. sys' = SysIdle
        BY <1>1, <1>4 DEF SysIdle
    <2> QED  BY <2>1 DEF SysIdle, SysState
<1>6. HdSysTypeOK'
    BY <1>1, <1>5, DriverTypes, SysTypes
<1>7. ~SysAsks /\ ~FsHasSys /\ (SysHasHd <=> buf[SYS].source = HD) /\ ~SendsTo(SYS, HD)
    BY <1>0, <1>1, <1>3, SysIs, AllApart DEF TasksPair, Apart
<1>a. PICK d \in {HD} \cup User : d = buf[SYS].source
    BY <1>4
<1>b. ticks \in 0..(MAX_TICKS - 1) /\ Msg("SYSCALL_RET", ticks) \in Mail
    BY DriverTypes, TimeLimits DEF Mail, Msg
<1>c. PICK m \in Mail : m = Msg("SYSCALL_RET", ticks)
    BY <1>b
<1>8. ticks \in 0..(MAX_TICKS - 1) /\ m.n = ticks /\ (SysHasHd <=> d = HD)
    BY <1>7, <1>a, <1>b, <1>c DEF Msg
<1>9. /\ TableOK' /\ has_int_msg' = has_int_msg /\ buf'[SYS] = Letter(SYS, m)
      /\ \A q \in Proc \ {SYS, d} : Kept(q)
      /\ Handed(SYS, d, m) \/ Queued(SYS, d, m)
    <2>1. MsgSend(SYS, d, m)
        BY <1>1, <1>a, <1>c
    <2> QED  BY <1>0, <2>1, SendIs
<1>10. \A u \in User : UserMail(u)'
    <2>1. ASSUME NEW u \in User PROVE UserMail(u)'
        <3>1. Unblocked(u)' \/ Kept(u)
            BY <1>9 DEF Handed, Queued
        <3> QED  BY <1>0, <3>1, MailGoes
    <2> QED  BY <2>1
<1>11. SysOK' /\ ~SysAsks' /\ (SysHasHd' <=> SendsTo(SYS, HD)')
    <2>1. Unblocked(SYS)' \/ SendsTo(SYS, d)'
        BY <1>9 DEF Handed, Queued
    <2>2. SysOK'
        BY <1>5, <2>1 DEF SysOK, SysAtPlace
    <2>3. ~Awaiting(SYS, FS)'
        BY <2>1, AllApart DEF Apart
    <2> QED  BY <1>5, <2>2, <2>3 DEF SysHasHd, SysAsks
<1>12. CASE d = HD
    <2>1. HdAsks /\ ~HdFree /\ ~Awaiting(HD, ANY)
        BY <1>0, <1>8, <1>12, HdFreeIs DEF TasksPair
    <2>2. Kept(FS) /\ (FsHasSys' <=> FsHasSys)
        BY <1>2, <1>9, <1>12, FsStays
    <2>3. CASE Handed(SYS, d, m)
        <3>1. /\ Awaiting(HD, SYS) /\ Unblocked(HD)' /\ Unblocked(SYS)'
              /\ buf'[HD] = Letter(SYS, m)
            BY <1>12, <2>1, <2>3 DEF Handed
        <3>2. hd.at \in {"began", "look"}
            BY <1>0, <3>1, AllApart DEF HdOK, HdAtPlace, Apart
        <3>3. HdOK' /\ ~HdAsks' /\ ~HdFree'
            BY <1>0, <1>2, <3>1, <3>2, AllApart DEF HdOK, HdAtPlace, HdAsks, HdFree, Apart
        <3>4. DiskOK'
            BY <1>0, <1>2, <1>9, <3>2, PollingStays DEF Polling
        <3>5. FsOK' /\ ~SendsTo(SYS, HD)'
            BY <1>0, <1>2, <2>1, <2>2, <3>1, <3>3, FsStays, AllApart DEF Apart
        <3>6. TasksPair'
            BY <1>7, <1>11, <2>2, <3>3, <3>5 DEF TasksPair
        <3>7. TimeOK'
            <4>1. Since(ticks, ticks) = 0
                BY <1>8, TimeLimits DEF Since
            <4>2. hd.at = "look" => hd.t < MAX_TICKS /\ Since(hd.t, ticks) <= passed
                BY <1>0 DEF TimeOK
            <4>3. passed \in Nat /\ Since(hd.t, ticks) \in Int
                BY <1>8, DriverTypes, TimeLimits DEF Since, HdState
            <4>4. Told(ticks)
                BY <1>8, <3>2, <4>1, <4>2, <4>3 DEF Told
            <4>5. Told(ticks)'
                BY <1>2, <4>4 DEF Told
            <4>6. buf'[HD].body.n = ticks
                BY <1>8, <3>1 DEF Letter
            <4> QED  BY <1>2, <3>2, <3>5, <4>2, <4>5, <4>6 DEF TimeOK
        <3> QED  BY <1>6, <1>9, <1>10, <1>11, <3>3, <3>4, <3>5, <3>6, <3>7 DEF DriverInv
    <2>4. CASE Queued(SYS, d, m)
        <3>1. Kept(HD) /\ SendsTo(SYS, HD)' /\ ~Awaits(HD, SYS)
            BY <1>12, <2>4 DEF Queued
        <3>2. HdOK' /\ DiskOK' /\ (HdFree' <=> HdFree) /\ (HdAsks' <=> HdAsks)
            BY <1>2, <1>9, <3>1, NotHd
        <3>3. hd.at \in {"begin", "asked"}
            <4>1. ~Awaiting(HD, SYS)
                BY <3>1, AllApart DEF Awaits, Apart
            <4> QED  BY <2>1, <4>1 DEF HdAsks
        <3>4. FsOK'
            BY <1>0, <1>2, <2>2, <3>2, FsStays
        <3>5. TasksPair'
            BY <1>7, <1>11, <2>1, <2>2, <3>1, <3>2 DEF TasksPair
        <3>6. TimeOK'
            <4>1. Since(ticks, ticks) = 0
                BY <1>8, TimeLimits DEF Since
            <4>2. hd.at = "asked" => hd.t < MAX_TICKS /\ Since(hd.t, ticks) <= passed
                BY <1>0 DEF TimeOK
            <4>3. passed \in Nat /\ Since(hd.t, ticks) \in Int
                BY <1>8, DriverTypes, TimeLimits DEF Since, HdState
            <4>4. Told(ticks)
                BY <1>8, <3>3, <4>1, <4>2, <4>3 DEF Told
            <4>5. Told(ticks)'
                BY <1>2, <4>4 DEF Told
            <4>6. buf'[SYS].body.n = ticks
                BY <1>8, <1>9 DEF Letter
            <4> QED  BY <1>2, <3>3, <4>2, <4>5, <4>6 DEF TimeOK
        <3> QED  BY <1>6, <1>9, <1>10, <1>11, <3>2, <3>4, <3>5, <3>6 DEF DriverInv
    <2> QED  BY <1>9, <2>3, <2>4
<1>13. CASE d \in User
    <2>1. Kept(HD) /\ Kept(FS)
        BY <1>9, <1>13
    <2>2. Unblocked(SYS)' \/ SendsTo(SYS, d)'
        BY <1>9 DEF Handed, Queued
    <2>3. ~SendsTo(SYS, HD)'
        BY <1>13, <2>2, AllApart DEF Apart
    <2>4. HdOK' /\ DiskOK' /\ TimeOK' /\ (HdFree' <=> HdFree) /\ (HdAsks' <=> HdAsks)
        BY <1>2, <1>9, <2>1, <2>3, NotHd, NotHdTime
    <2>5. FsOK' /\ (FsHasSys' <=> FsHasSys)
        BY <1>0, <1>2, <2>1, <2>4, FsStays
    <2>6. TasksPair'
        BY <1>0, <1>7, <1>8, <1>11, <1>13, <2>3, <2>4, <2>5 DEF TasksPair
    <2> QED  BY <1>6, <1>9, <1>10, <1>11, <2>4, <2>5, <2>6 DEF DriverInv
<1> QED  BY <1>12, <1>13

\* SYS does what neither HD nor FS notices.
LEMMA SysAlone ==
    ASSUME DriverInv, SysRest, sys' \in SysState, harmed' \in BOOLEAN,
           TableOK', has_int_msg' = has_int_msg, Kept(HD), Kept(FS),
           \A u \in User : UserMail(u)',
           SysOK', ~SendsTo(SYS, HD)', ~SysHasHd, ~SysHasHd', SysAsks' <=> SysAsks
    PROVE  DriverInv'
<1>0. /\ TableOK /\ HdSysTypeOK /\ HdOK /\ DiskOK /\ SysOK /\ FsOK /\ TasksPair /\ TimeOK
      /\ \A u \in User : UserMail(u)
    BY DEF DriverInv
<1>1. UNCHANGED hdVars /\ fs' = fs /\ ticks' = ticks
    BY DEF SysRest
<1>2. HdSysTypeOK'
    BY SysTypes
<1>3. HdOK' /\ DiskOK' /\ TimeOK' /\ (HdFree' <=> HdFree) /\ (HdAsks' <=> HdAsks)
    BY <1>1, NotHd, NotHdTime
<1>4. FsOK' /\ (FsHasSys' <=> FsHasSys)
    BY <1>0, <1>1, <1>3, FsStays
<1>5. TasksPair'
    BY <1>0, <1>3, <1>4 DEF TasksPair
<1> QED  BY <1>2, <1>3, <1>4, <1>5 DEF DriverInv

\* SYS at a request of a user process.
LEMMA SysKillRequest ==
    ASSUME DriverInv, sys.at = "dispatch", Is(SYS, "KILL_PROC"), p_flags[SYS] = {}
    PROVE  /\ Unblocked(SYS) /\ ~SysHasHd /\ ~SysAsks
           /\ buf[SYS].source \in User /\ buf[SYS].body.n \in User
<1> USE ProcFacts
<1>0. SysOK /\ HdOK /\ FsOK
    BY DEF DriverInv
<1>1. Unblocked(SYS)
    BY <1>0, TasksRun
<1>2. ~Awaiting(SYS, ANY)
    BY <1>1, AllApart DEF Apart
<1>3. buf[SYS] # Letter(HD, Msg("GET_TICKS", 0))
    BY DEF Is, Letter, Msg
<1>4. PICK u \in User, m \in SysRequest : buf[SYS] = Letter(u, m)
    BY <1>0, <1>2, <1>3 DEF SysOK, SysAtPlace
<1>5. m.type = "KILL_PROC"
    BY <1>4 DEF Is, Letter
<1>6. m.n \in User
    BY <1>5 DEF SysRequest, Msg
<1>7. buf[SYS].source \in User /\ buf[SYS].body.n \in User
    BY <1>4, <1>6 DEF Letter
<1> QED  BY <1>0, <1>1, <1>7, SysIs

LEMMA SysCloseStep ==
    ASSUME DriverInv, SysClose, halted' = "no"
    PROVE  DriverInv'
<1> USE ProcFacts
<1>0. /\ TableOK /\ HdSysTypeOK /\ HdOK /\ DiskOK /\ SysOK /\ FsOK /\ TasksPair /\ TimeOK
      /\ \A u \in User : UserMail(u)
    BY DEF DriverInv
<1>1. /\ sys.at = "dispatch" /\ Is(SYS, "KILL_PROC") /\ MsgSend(SYS, FS, Msg("CLOSE", 0))
      /\ sys' = [at |-> "close", victim |-> buf[SYS].body.n, src |-> buf[SYS].source]
      /\ SysRest /\ harmed' = harmed
    BY DEF SysClose, Victim
<1>2. UNCHANGED hdVars /\ hd' = hd /\ fs' = fs /\ ticks' = ticks /\ harmed' \in BOOLEAN
    BY <1>1, DriverTypes DEF SysRest, hdVars
<1>3. /\ Unblocked(SYS) /\ ~SysHasHd /\ ~SysAsks
      /\ buf[SYS].source \in User /\ buf[SYS].body.n \in User
    BY <1>1, SysKillRequest DEF MsgSend, Runnable
<1>4. /\ sys' \in SysState /\ sys'.at = "close" /\ sys'.src \in User /\ sys'.victim \in User
    BY <1>1, <1>3 DEF SysState
<1>5. Msg("CLOSE", 0) \in Mail
    BY DEF Mail, Msg
<1>6. PICK m \in Mail : m = Msg("CLOSE", 0)
    BY <1>5
<1>7. /\ TableOK' /\ has_int_msg' = has_int_msg /\ buf'[SYS] = Letter(SYS, m)
      /\ \A q \in Proc \ {SYS, FS} : Kept(q)
      /\ Handed(SYS, FS, m) \/ Queued(SYS, FS, m)
    BY <1>0, <1>1, <1>6, SendIs
<1>8. Kept(HD) /\ \A u \in User : UserMail(u)'
    BY <1>0, <1>7, MailStays
<1>9. CASE Handed(SYS, FS, m)
    <2>1. /\ Awaiting(FS, SYS) \/ Awaiting(FS, ANY)
          /\ Unblocked(FS)' /\ Unblocked(SYS)' /\ buf'[FS] = Letter(SYS, m)
        BY <1>9 DEF Handed
    <2>2. fs.at = "dispatch" /\ HdFree
        BY <1>0, <2>1, FsIs
    <2>3. SysOK' /\ SysAsks' /\ ~SysHasHd' /\ ~SendsTo(SYS, HD)'
        BY <1>4, <2>1, AllApart DEF SysOK, SysAtPlace, SysAsks, SysHasHd, Apart
    <2>4. HdOK' /\ DiskOK' /\ TimeOK' /\ HdFree' /\ (HdAsks' <=> HdAsks)
        BY <1>2, <1>7, <1>8, <2>2, <2>3, NotHd, NotHdTime
    <2>5. FsOK' /\ FsHasSys'
        BY <1>2, <1>6, <2>1, <2>2, <2>4 DEF FsOK, FsAtPlace, FsHasSys, Letter
    <2>6. TasksPair'
        BY <1>0, <1>3, <2>3, <2>4, <2>5 DEF TasksPair
    <2>7. HdSysTypeOK'
        BY <1>1, <1>2, <1>4, SysTypes
    <2> QED  BY <1>7, <1>8, <2>3, <2>4, <2>5, <2>6, <2>7 DEF DriverInv
<1>10. CASE Queued(SYS, FS, m)
    <2>1. SendsTo(SYS, FS)' /\ Kept(FS)
        BY <1>10 DEF Queued
    <2>2. SysOK' /\ ~SysAsks' /\ ~SysHasHd' /\ ~SendsTo(SYS, HD)'
        BY <1>4, <1>6, <1>7, <2>1, AllApart DEF SysOK, SysAtPlace, SysAsks, SysHasHd, Apart
    <2> QED  BY <1>1, <1>2, <1>3, <1>4, <1>7, <1>8, <2>1, <2>2, SysAlone
<1> QED  BY <1>7, <1>9, <1>10

LEMMA SysClosedStep ==
    ASSUME DriverInv, SysClosed, halted' = "no"
    PROVE  DriverInv'
<1> USE ProcFacts
<1>0. /\ TableOK /\ HdSysTypeOK /\ HdOK /\ DiskOK /\ SysOK /\ FsOK /\ TasksPair /\ TimeOK
      /\ \A u \in User : UserMail(u)
    BY DEF DriverInv
<1>1. /\ sys.at = "close" /\ MsgReceive(SYS, FS) /\ sys' = [sys EXCEPT !.at = "closed"]
      /\ SysRest /\ harmed' = harmed
    BY DEF SysClosed
<1>2. UNCHANGED hdVars /\ hd' = hd /\ fs' = fs /\ ticks' = ticks /\ harmed' \in BOOLEAN
    BY <1>1, DriverTypes DEF SysRest, hdVars
<1>3. Unblocked(SYS) /\ sys.src \in User /\ sys.victim \in User
    BY <1>0, <1>1, TasksRun DEF MsgReceive, Runnable, SysOK
<1>4. sys' \in SysState /\ sys'.at = "closed" /\ sys'.src \in User /\ sys'.victim \in User
    BY <1>1, <1>3, DriverTypes DEF SysState
<1>5. SysAsks /\ FsHasSys /\ ~SysHasHd
    BY <1>0, <1>1, <1>3, SysIs DEF TasksPair
<1>6. TableOK' /\ (TookInt(SYS, FS) \/ Blocks(SYS, FS) \/ \E q \in Proc : Took(SYS, q, FS))
    <2>1. FS \in Source
        BY DEF Source
    <2> QED  BY <1>0, <1>1, <2>1, ReceiveIs
<1>7. ~TookInt(SYS, FS)
    BY <1>0 DEF TookInt, TableOK
<1>8. CASE Blocks(SYS, FS)
    <2>1. Awaiting(SYS, FS)' /\ has_int_msg' = has_int_msg /\ \A r \in Proc \ {SYS} : Kept(r)
        BY <1>8 DEF Blocks
    <2>2. SysOK' /\ SysAsks' /\ ~SysHasHd' /\ ~SendsTo(SYS, HD)'
        BY <1>4, <2>1, AllApart DEF SysOK, SysAtPlace, SysAsks, SysHasHd, Apart
    <2>3. Kept(HD) /\ Kept(FS) /\ \A u \in User : UserMail(u)'
        BY <1>0, <2>1, MailStays
    <2> QED  BY <1>1, <1>2, <1>4, <1>5, <1>6, <2>1, <2>2, <2>3, SysAlone
<1>9. CASE \E q \in Proc : Took(SYS, q, FS)
    <2>1. /\ SendsTo(FS, SYS) /\ Unblocked(FS)' /\ Unblocked(SYS)'
          /\ has_int_msg' = has_int_msg /\ \A r \in Proc \ {SYS, FS} : Kept(r)
        BY <1>9 DEF Took
    <2>2. Kept(HD) /\ \A u \in User : UserMail(u)'
        BY <1>0, <2>1, MailStays
    <2>3. fs.at = "loop" /\ HdFree
        BY <1>0, <2>1, FsIs
    <2>4. SysOK' /\ ~SysAsks' /\ ~SysHasHd' /\ ~SendsTo(SYS, HD)'
        BY <1>4, <2>1, AllApart DEF SysOK, SysAtPlace, SysAsks, SysHasHd, Apart
    <2>5. HdOK' /\ DiskOK' /\ TimeOK' /\ HdFree' /\ (HdAsks' <=> HdAsks)
        BY <1>2, <2>1, <2>2, <2>3, <2>4, NotHd, NotHdTime
    <2>6. FsOK' /\ ~FsHasSys'
        BY <1>2, <2>1, <2>3, <2>5, AllApart DEF FsOK, FsAtPlace, FsHasSys, Apart
    <2>7. TasksPair'
        BY <1>0, <1>5, <2>4, <2>5, <2>6 DEF TasksPair
    <2>8. HdSysTypeOK'
        BY <1>1, <1>2, <1>4, SysTypes
    <2> QED  BY <1>6, <2>2, <2>4, <2>5, <2>6, <2>7, <2>8 DEF DriverInv
<1> QED  BY <1>6, <1>7, <1>8, <1>9

LEMMA SysHangStep ==
    ASSUME DriverInv, SysHang
    PROVE  /\ DriverInv' /\ Unblocked(SYS)
           /\ Victim \in User /\ sys'.at = "killed" /\ Kept(SYS)
           /\ \A q \in Proc \ {Victim} : Kept(q)
<1> USE ProcFacts
<1>0. /\ TableOK /\ HdSysTypeOK /\ HdOK /\ DiskOK /\ SysOK /\ FsOK /\ TasksPair /\ TimeOK
      /\ \A u \in User : UserMail(u)
    BY DEF DriverInv
<1>1. /\ sys.at = "closed" \/ (sys.at = "dispatch" /\ Is(SYS, "KILL_PROC"))
      /\ p_flags[SYS] = {}
      /\ harmed' = (harmed \/ user[Victim].at # "user")
      /\ sys' = IF sys.at = "closed" THEN [sys EXCEPT !.at = "killed"]
                ELSE [at |-> "killed", victim |-> Victim, src |-> buf[SYS].source]
      /\ UNCHANGED <<p_sendto, p_recvfrom, p_msg, q_sending, has_int_msg, buf, halted>>
      /\ SysRest
    BY DEF SysHang, Runnable
<1>2. Unblocked(SYS) /\ ~SysHasHd /\ ~SysAsks /\ Victim \in User
    <2>1. CASE sys.at = "closed"
        <3>1. Unblocked(SYS) /\ sys.victim \in User
            BY <1>0, <1>1, <2>1, TasksRun DEF SysOK
        <3> QED  BY <1>0, <2>1, <3>1, SysIs DEF Victim
    <2>2. CASE sys.at = "dispatch"
        BY <1>1, <2>2, SysKillRequest DEF Victim
    <2> QED  BY <1>1, <2>1, <2>2
<1>3. PICK v \in User : v = Victim
    BY <1>2
<1>4. p_flags' = [p_flags EXCEPT ![v] = {"HANGING"}]
    BY <1>3 DEF SysHang
<1>5. \A q \in Proc \ {v} : Kept(q)
    <2>1. ASSUME NEW q \in Proc \ {v} PROVE Kept(q)
        <3>1. p_flags'[q] = p_flags[q]
            BY <1>0, <1>4 DEF TableOK
        <3> QED  BY <1>1, <3>1, EntryIsKept DEF Kept
    <2> QED  BY <2>1
<1>6. ~Sending(v)'
    BY <1>0, <1>4 DEF TableOK, Sending
<1>7. \A u \in User : UserMail(u)'
    <2>1. ASSUME NEW u \in User \ {v} PROVE UserMail(u)'
        BY <1>0, <1>5, MailStays
    <2> QED  BY <1>6, <2>1 DEF UserMail
<1>8. TableOK'
    <2>1. p_flags' \in [Proc -> SUBSET Flag]
        BY <1>0, <1>4 DEF TableOK, Flag
    <2> QED  BY <1>0, <1>1, <2>1 DEF TableOK
<1>9. Kept(HD) /\ Kept(FS) /\ Kept(SYS)
    BY <1>5
<1>10. sys' \in SysState /\ sys'.at = "killed" /\ sys'.src \in User /\ sys'.victim \in User
    <2>1. CASE sys.at = "closed"
        BY <1>0, <1>1, <2>1, DriverTypes DEF SysOK, SysState
    <2>2. CASE sys.at = "dispatch"
        <3>1. sys' = [at |-> "killed", victim |-> Victim, src |-> buf[SYS].source]
            BY <1>1, <2>2
        <3>2. buf[SYS].source \in User
            BY <1>1, <2>2, SysKillRequest
        <3> QED  BY <1>2, <3>1, <3>2 DEF SysState
    <2> QED  BY <1>1, <2>1, <2>2
<1>11. Unblocked(SYS)' /\ SysOK' /\ ~SysAsks' /\ ~SysHasHd' /\ ~SendsTo(SYS, HD)'
    <2>1. Unblocked(SYS)'
        BY <1>2, <1>9 DEF Kept, EntryKept
    <2> QED  BY <1>10, <2>1, AllApart DEF SysOK, SysAtPlace, SysAsks, SysHasHd, Apart
<1>12. harmed' \in BOOLEAN
    BY <1>1, DriverTypes
<1>13. DriverInv'
    BY <1>1, <1>2, <1>7, <1>8, <1>9, <1>10, <1>11, <1>12, SysAlone
<1> QED  BY <1>2, <1>3, <1>5, <1>9, <1>10, <1>13

LEMMA SysKilledStep ==
    ASSUME DriverInv, SysKilled, halted' = "no"
    PROVE  DriverInv'
<1> USE ProcFacts
<1>0. /\ TableOK /\ HdOK /\ SysOK /\ FsOK
      /\ \A u \in User : UserMail(u)
    BY DEF DriverInv
<1>1. /\ sys.at = "killed" /\ MsgSend(SYS, sys.src, Msg("SYSCALL_RET", 0))
      /\ sys' = SysIdle /\ SysRest /\ harmed' = harmed
    BY DEF SysKilled
<1>2. PICK d \in User : d = sys.src
    BY <1>0, <1>1 DEF SysOK
<1>3. Msg("SYSCALL_RET", 0) \in Mail
    BY DEF Mail, Msg
<1>4. PICK m \in Mail : m = Msg("SYSCALL_RET", 0)
    BY <1>3
<1>5. /\ TableOK' /\ has_int_msg' = has_int_msg
      /\ \A q \in Proc \ {SYS, d} : Kept(q)
      /\ Handed(SYS, d, m) \/ Queued(SYS, d, m)
    <2>1. MsgSend(SYS, d, m)
        BY <1>1, <1>2, <1>4
    <2> QED  BY <1>0, <2>1, SendIs
<1>6. Kept(HD) /\ Kept(FS) /\ \A u \in User : UserMail(u)'
    <2>1. ASSUME NEW u \in User PROVE Unblocked(u)' \/ Kept(u)
        BY <1>5 DEF Handed, Queued
    <2> QED  BY <1>0, <1>5, <2>1, MailGoes
<1>7. Unblocked(SYS)' \/ SendsTo(SYS, d)'
    BY <1>5 DEF Handed, Queued
<1>8. sys' \in SysState /\ sys'.at = "loop" /\ harmed' \in BOOLEAN
    BY <1>1, DriverTypes DEF SysIdle, SysState
<1>9. SysOK' /\ ~SendsTo(SYS, HD)' /\ ~SysHasHd' /\ ~SysAsks'
    <2>1. SysOK'
        BY <1>1, <1>7, <1>8 DEF SysOK, SysAtPlace
    <2>2. ~SendsTo(SYS, HD)' /\ ~Awaiting(SYS, FS)'
        BY <1>7, AllApart DEF Apart
    <2> QED  BY <1>8, <2>1, <2>2 DEF SysHasHd, SysAsks
<1>10. Unblocked(SYS) /\ ~SysHasHd /\ ~SysAsks
    <2>1. Unblocked(SYS)
        BY <1>0, <1>1, TasksRun DEF MsgSend, Runnable
    <2> QED  BY <1>0, <1>1, <2>1, SysIs
<1> QED  BY <1>1, <1>5, <1>6, <1>8, <1>9, <1>10, SysAlone

\* What SYS does keeps it.
LEMMA SysStep ==
    ASSUME DriverInv, TaskSys, halted' = "no"
    PROVE  DriverInv'
BY SysReceiveStep, SysAnswerStep, SysCloseStep, SysClosedStep, SysHangStep, SysKilledStep
   DEF TaskSys

-----------------------------------------------------------------------------
(* FS *)

LEMMA FsTypes ==
    ASSUME DriverInv, FsRest, fs' \in FsState
    PROVE  HdSysTypeOK'
BY DriverTypes DEF FsRest, hdVars, HdSysTypeOK

\* A letter to SYS goes to no other task.
LEMMA NotSysTime ==
    ASSUME DriverInv, Kept(SYS), UNCHANGED hdVars, ticks' = ticks,
           hd.at \notin {"began", "look"} \/ Kept(HD)
    PROVE  TimeOK'
<1>1. TimeOK /\ hd' = hd /\ passed' = passed
    BY DEF DriverInv, hdVars
<1>2. \A x : Told(x) => Told(x)'
    BY <1>1 DEF Told
<1>3. (SendsTo(SYS, HD)' <=> SendsTo(SYS, HD)) /\ buf'[SYS] = buf[SYS]
    BY DEF Kept, EntryKept
<1>4. Kept(HD) => (Unblocked(HD)' <=> Unblocked(HD)) /\ buf'[HD] = buf[HD]
    BY DEF Kept, EntryKept
<1> QED  BY <1>1, <1>2, <1>3, <1>4 DEF TimeOK

\* FS does what neither HD nor SYS notices.
LEMMA FsAlone ==
    ASSUME DriverInv, FsRest, fs' \in FsState,
           TableOK', has_int_msg' = has_int_msg, Kept(HD), Kept(SYS),
           \A u \in User : UserMail(u)',
           FsOK', FsHasSys' <=> FsHasSys
    PROVE  DriverInv'
<1>0. /\ TableOK /\ HdSysTypeOK /\ HdOK /\ DiskOK /\ SysOK /\ FsOK /\ TasksPair /\ TimeOK
      /\ \A u \in User : UserMail(u)
    BY DEF DriverInv
<1>1. UNCHANGED hdVars /\ sys' = sys /\ ticks' = ticks
    BY DEF FsRest
<1>2. HdSysTypeOK'
    BY FsTypes
<1>3. HdOK' /\ DiskOK' /\ TimeOK' /\ (HdFree' <=> HdFree) /\ (HdAsks' <=> HdAsks)
    BY <1>1, NotHd, NotSysTime
<1>4. SysOK' /\ (SysHasHd' <=> SysHasHd) /\ (SysAsks' <=> SysAsks)
    BY <1>0, <1>1, SysStays
<1>5. TasksPair'
    BY <1>0, <1>3, <1>4 DEF TasksPair
<1> QED  BY <1>2, <1>3, <1>4, <1>5 DEF DriverInv

\* FS has nothing of SYS, nor of a process, to send to HD for.
LEMMA FsAskStep ==
    ASSUME DriverInv, FsRest, halted' = "no",
           NEW m \in HdRequest, MsgSend(FS, HD, m),
           NEW src \in User \cup {NO_TASK}, NEW then \in {"mkfs", "loop", "serve"},
           src \in User <=> then = "serve",
           fs' = [at |-> "asked", src |-> src, then |-> then],
           fs.at # "asked", ~FsHasSys
    PROVE  DriverInv'
<1> USE ProcFacts
<1>0. /\ TableOK /\ HdSysTypeOK /\ HdOK /\ DiskOK /\ SysOK /\ FsOK /\ TasksPair /\ TimeOK
      /\ \A u \in User : UserMail(u)
    BY DEF DriverInv
<1>1. UNCHANGED hdVars /\ hd' = hd /\ disk' = disk /\ sys' = sys /\ ticks' = ticks
    BY DEF FsRest, hdVars
<1>2. Unblocked(FS) /\ HdFree
    BY <1>0, TasksRun, FsIs DEF MsgSend, Runnable
<1>3. m \in Mail
    BY HdSysAssumption DEF HdRequest, Transfer, Mail, Msg
<1>4. /\ TableOK' /\ has_int_msg' = has_int_msg /\ buf'[FS] = Letter(FS, m)
      /\ \A q \in Proc \ {FS, HD} : Kept(q)
      /\ Handed(FS, HD, m) \/ Queued(FS, HD, m)
    BY <1>0, <1>3, SendIs
<1>5. Kept(SYS) /\ \A u \in User : UserMail(u)'
    BY <1>0, <1>4, MailStays
<1>6. fs' \in FsState /\ fs'.at = "asked" /\ (fs'.src \in User <=> fs'.then = "serve")
    BY DEF FsState
<1>7. CASE Handed(FS, HD, m)
    <2>1. /\ Awaiting(HD, FS) \/ Awaiting(HD, ANY)
          /\ Unblocked(HD)' /\ Unblocked(FS)' /\ buf'[HD] = Letter(FS, m)
        BY <1>7 DEF Handed
    <2>2. Awaiting(HD, ANY) /\ hd.at = "dispatch"
        BY <1>0, <2>1, HdFreeIs
    <2>3. hd = [HdIdle EXCEPT !.at = "dispatch"]
        BY <1>0, <2>2 DEF HdOK, HdAtPlace
    <2>4. HdOK'
        BY <1>1, <2>1, <2>2, <2>3 DEF HdOK, HdAtPlace
    <2>5. ~HdFree' /\ ~HdAsks' /\ ~HdAsks
        BY <1>0, <1>1, <1>2, <2>1, <2>2, HdFreeIs, AllApart DEF HdFree, HdAsks, Apart
    <2>6. DiskOK'
        BY <1>0, <1>1, <1>4, <2>2 DEF DiskOK, Quiet
    <2>7. TimeOK'
        BY <1>1, <1>5, <2>2, NotSysTime
    <2>8. FsOK' /\ ~FsHasSys'
        BY <1>6, <2>1, <2>5, AllApart DEF FsOK, FsAtPlace, FsHasSys, Apart
    <2>9. SysOK' /\ (SysHasHd' <=> SysHasHd) /\ (SysAsks' <=> SysAsks)
        BY <1>0, <1>1, <1>5, SysStays
    <2>10. TasksPair'
        BY <1>0, <2>5, <2>8, <2>9 DEF TasksPair
    <2>11. HdSysTypeOK'
        BY <1>6, FsTypes
    <2> QED  BY <1>4, <1>5, <2>4, <2>6, <2>7, <2>8, <2>9, <2>10, <2>11 DEF DriverInv
<1>8. CASE Queued(FS, HD, m)
    <2>1. SendsTo(FS, HD)' /\ Kept(HD)
        BY <1>8 DEF Queued
    <2>2. HdFree'
        BY <1>0, <1>1, <1>2, <2>1, HdStays
    <2>3. FsOK' /\ ~FsHasSys'
        BY <1>4, <1>6, <2>1, <2>2, AllApart DEF FsOK, FsAtPlace, FsHasSys, Apart
    <2> QED  BY <1>4, <1>5, <1>6, <2>1, <2>3, FsAlone
<1> QED  BY <1>4, <1>7, <1>8

\* FS at the call of a process.
LEMMA FsWorking ==
    ASSUME DriverInv, Working, p_flags[FS] = {}
    PROVE  Unblocked(FS) /\ HdFree /\ Caller \in User /\ fs.at # "asked" /\ ~FsHasSys
<1> USE ProcFacts
<1>0. SysOK /\ HdOK /\ FsOK /\ HdSysTypeOK
    BY DEF DriverInv
<1>1. Unblocked(FS) /\ fs.at # "asked"
    BY <1>0, TasksRun DEF Working
<1>2. HdFree /\ ~SendsTo(FS, SYS) /\ ~Awaiting(FS, ANY)
    BY <1>0, <1>1, FsIs, AllApart DEF Apart
<1>3. CASE fs.at = "serve"
    BY <1>0, <1>1, <1>2, <1>3 DEF FsOK, Caller, FsHasSys
<1>4. CASE fs.at = "dispatch" /\ Is(FS, "CALL")
    <2>1. buf[FS] # Letter(SYS, Msg("CLOSE", 0))
        BY <1>4 DEF Is, Letter, Msg
    <2>2. PICK u \in User : buf[FS] = Letter(u, Msg("CALL", 0))
        BY <1>0, <1>2, <1>4, <2>1 DEF FsOK, FsAtPlace
    <2>3. buf[FS].source = u
        BY <2>2 DEF Letter
    <2> QED  BY <1>1, <1>2, <1>4, <2>3 DEF Caller, FsHasSys
<1> QED  BY <1>1, <1>2, <1>3, <1>4 DEF Working

LEMMA FsBootStep ==
    ASSUME DriverInv, FsBoot, halted' = "no"
    PROVE  DriverInv'
<1> USE ProcFacts
<1>0. FsOK /\ HdOK /\ SysOK /\ HdSysTypeOK
    BY DEF DriverInv
<1>1. FsRest /\ fs.at \in {"boot", "mkfs"} /\ p_flags[FS] = {}
    BY DEF FsBoot, FsAsk, MsgSend, Runnable
<1>2. Unblocked(FS)
    BY <1>0, <1>1, TasksRun
<1>3. ~FsHasSys /\ fs.at # "asked"
    BY <1>1, <1>2, AllApart DEF FsHasSys, Apart
<1>4. PICK then \in {"mkfs", "loop"}, m \in HdRequest :
          MsgSend(FS, HD, m) /\ fs' = [at |-> "asked", src |-> NO_TASK, then |-> then]
    BY DEF FsBoot, FsAsk, HdRequest
<1> QED  BY <1>1, <1>3, <1>4, FsAskStep

LEMMA FsRdwtStep ==
    ASSUME DriverInv, FsRdwt, halted' = "no"
    PROVE  DriverInv'
<1> USE ProcFacts
<1>1. PICK m \in HdRequest :
          MsgSend(FS, HD, m) /\ fs' = [at |-> "asked", src |-> Caller, then |-> "serve"]
    <2>1. PICK t \in {"DEV_READ", "DEV_WRITE"}, n \in 1..MaxSectors : FsAsk(t, n, Caller, "serve")
        BY DEF FsRdwt
    <2>2. Msg(t, n) \in HdRequest
        BY DEF HdRequest, Transfer
    <2> QED  BY <2>1, <2>2 DEF FsAsk
<1>2. FsRest /\ Working /\ p_flags[FS] = {}
    BY <1>1 DEF FsRdwt, MsgSend, Runnable
<1>3. Caller \in User /\ fs.at # "asked" /\ ~FsHasSys
    BY <1>2, FsWorking
<1>4. PICK c \in User : c = Caller
    BY <1>3
<1>5. fs' = [at |-> "asked", src |-> c, then |-> "serve"]
    BY <1>1, <1>4
<1> QED  BY <1>1, <1>2, <1>3, <1>5, FsAskStep

LEMMA FsReceiveStep ==
    ASSUME DriverInv, FsReceive, halted' = "no"
    PROVE  DriverInv'
<1> USE ProcFacts
<1>0. /\ TableOK /\ HdSysTypeOK /\ HdOK /\ DiskOK /\ SysOK /\ FsOK /\ TasksPair /\ TimeOK
      /\ \A u \in User : UserMail(u)
    BY DEF DriverInv
<1>1. fs.at = "loop" /\ MsgReceive(FS, ANY) /\ fs' = [fs EXCEPT !.at = "dispatch"] /\ FsRest
    BY DEF FsReceive
<1>2. UNCHANGED hdVars /\ hd' = hd /\ disk' = disk /\ sys' = sys /\ ticks' = ticks
    BY <1>1 DEF FsRest, hdVars
<1>3. Unblocked(FS) /\ HdFree /\ ~FsHasSys /\ ~SysAsks
    <2>1. Unblocked(FS)
        BY <1>0, <1>1, TasksRun DEF MsgReceive, Runnable
    <2>2. ~FsHasSys
        BY <1>1, <2>1, AllApart DEF FsHasSys, Apart
    <2> QED  BY <1>0, <1>1, <2>1, <2>2, FsIs DEF TasksPair
<1>4. fs'.at = "dispatch" /\ fs' \in FsState
    BY <1>1, DriverTypes DEF FsState
<1>5. TableOK' /\ (TookInt(FS, ANY) \/ Blocks(FS, ANY) \/ \E q \in Proc : Took(FS, q, ANY))
    <2>1. ANY \in Source
        BY DEF Source
    <2> QED  BY <1>0, <1>1, <2>1, ReceiveIs
<1>6. ~TookInt(FS, ANY)
    BY <1>0 DEF TookInt, TableOK
<1>7. CASE Blocks(FS, ANY)
    <2>1. Awaiting(FS, ANY)' /\ has_int_msg' = has_int_msg /\ \A r \in Proc \ {FS} : Kept(r)
        BY <1>7 DEF Blocks
    <2>2. Kept(HD) /\ Kept(SYS) /\ HdFree' /\ \A u \in User : UserMail(u)'
        BY <1>0, <1>2, <1>3, <2>1, MailStays, HdStays
    <2>3. FsOK' /\ ~FsHasSys'
        BY <1>4, <2>1, <2>2, AllApart DEF FsOK, FsAtPlace, FsHasSys, Apart
    <2> QED  BY <1>1, <1>3, <1>4, <1>5, <2>1, <2>2, <2>3, FsAlone
<1>8. ASSUME NEW q \in Proc, Took(FS, q, ANY)
      PROVE  DriverInv'
    <2>1. /\ q # FS /\ SendsTo(q, FS) /\ Unblocked(q)' /\ Unblocked(FS)' /\ buf'[FS] = buf[q]
          /\ has_int_msg' = has_int_msg /\ \A r \in Proc \ {FS, q} : Kept(r)
        BY <1>8 DEF Took
    <2>2. q # HD /\ Kept(HD)
        BY <1>0, <1>3, <2>1, HdFreeIs
    <2>3. \A u \in User : UserMail(u)'
        BY <1>0, <2>1, MailGoes
    <2>4. HdOK' /\ DiskOK' /\ (HdAsks' <=> HdAsks) /\ HdFree'
        BY <1>2, <1>3, <2>1, <2>2, NotHd
    <2>5. CASE q = SYS
        <3>1. sys.at = "close" /\ buf[SYS] = Letter(SYS, Msg("CLOSE", 0))
            BY <1>0, <2>1, <2>5, SysIs
        <3>2. FsOK' /\ FsHasSys'
            BY <1>4, <2>1, <2>4, <2>5, <3>1 DEF FsOK, FsAtPlace, FsHasSys, Letter
        <3>3. SysOK' /\ SysAsks' /\ ~SysHasHd' /\ ~SendsTo(SYS, HD)'
            BY <1>0, <1>2, <2>1, <2>5, <3>1, AllApart
               DEF SysOK, SysAtPlace, SysAsks, SysHasHd, Apart
        <3>4. ~SysHasHd
            BY <2>1, <2>5, <3>1, AllApart DEF SysHasHd, Apart
        <3>5. TasksPair'
            BY <1>0, <2>4, <3>2, <3>3, <3>4 DEF TasksPair
        <3>6. TimeOK'
            BY <1>2, <2>2, <3>3, NotHdTime
        <3>7. HdSysTypeOK'
            BY <1>1, <1>4, FsTypes
        <3> QED  BY <1>5, <2>3, <2>4, <3>2, <3>3, <3>5, <3>6, <3>7 DEF DriverInv
    <2>6. CASE q \in User
        <3>1. buf[q] = Letter(q, Msg("CALL", 0))
            BY <1>0, <2>1, <2>6, AllApart DEF UserMail, Apart
        <3>2. FsOK' /\ ~FsHasSys'
            BY <1>4, <2>1, <2>4, <2>6, <3>1, AllApart DEF FsOK, FsAtPlace, FsHasSys, Letter, Apart
        <3>3. Kept(SYS)
            BY <2>1, <2>6
        <3> QED  BY <1>1, <1>3, <1>4, <1>5, <2>1, <2>2, <2>3, <3>2, <3>3, FsAlone
    <2> QED  BY <2>1, <2>2, <2>5, <2>6
<1> QED  BY <1>5, <1>6, <1>7, <1>8

LEMMA FsGotStep ==
    ASSUME DriverInv, FsGot, halted' = "no"
    PROVE  DriverInv'
<1> USE ProcFacts
<1>0. /\ TableOK /\ HdSysTypeOK /\ HdOK /\ DiskOK /\ SysOK /\ FsOK /\ TasksPair /\ TimeOK
      /\ \A u \in User : UserMail(u)
    BY DEF DriverInv
<1>1. fs.at = "asked" /\ MsgReceive(FS, HD) /\ fs' = [fs EXCEPT !.at = fs.then] /\ FsRest
    BY DEF FsGot
<1>2. UNCHANGED hdVars /\ hd' = hd /\ disk' = disk /\ sys' = sys /\ ticks' = ticks
    BY <1>1 DEF FsRest, hdVars
<1>3. Unblocked(FS) /\ ~HdFree /\ ~FsHasSys
    <2>1. Unblocked(FS)
        BY <1>0, <1>1, TasksRun DEF MsgReceive, Runnable
    <2> QED  BY <1>0, <1>1, <2>1, FsIs, AllApart DEF FsHasSys, Apart
<1>4. /\ fs'.at \in {"mkfs", "loop", "serve"} /\ fs' \in FsState
      /\ fs'.at = "serve" => fs'.src \in User
    <2>1. fs \in FsState
        BY DriverTypes
    <2>2. fs'.at = fs.then /\ fs'.src = fs.src /\ fs' \in FsState
        BY <1>1, <2>1 DEF FsState
    <2> QED  BY <1>0, <1>1, <2>1, <2>2 DEF FsOK, FsState
<1>5. TableOK' /\ (TookInt(FS, HD) \/ Blocks(FS, HD) \/ \E q \in Proc : Took(FS, q, HD))
    <2>1. HD \in Source
        BY DEF Source
    <2> QED  BY <1>0, <1>1, <2>1, ReceiveIs
<1>6. ~TookInt(FS, HD)
    BY <1>0 DEF TookInt, TableOK
<1>7. CASE Blocks(FS, HD)
    <2>1. Awaiting(FS, HD)' /\ has_int_msg' = has_int_msg /\ \A r \in Proc \ {FS} : Kept(r)
        BY <1>7 DEF Blocks
    <2>2. Kept(HD) /\ Kept(SYS) /\ ~HdFree' /\ \A u \in User : UserMail(u)'
        BY <1>0, <1>2, <1>3, <2>1, MailStays, HdStays
    <2>3. FsOK' /\ ~FsHasSys'
        BY <1>4, <2>1, <2>2, AllApart DEF FsOK, FsAtPlace, FsHasSys, Apart
    <2> QED  BY <1>1, <1>3, <1>4, <1>5, <2>1, <2>2, <2>3, FsAlone
<1>8. CASE \E q \in Proc : Took(FS, q, HD)
    <2>1. /\ SendsTo(HD, FS) /\ Unblocked(HD)' /\ Unblocked(FS)'
          /\ has_int_msg' = has_int_msg /\ \A r \in Proc \ {FS, HD} : Kept(r)
        BY <1>8 DEF Took
    <2>2. hd.at = "loop" /\ hd = HdIdle
        BY <1>0, <2>1, HdFreeIs DEF HdOK, HdAtPlace
    <2>3. HdOK' /\ HdFree' /\ ~HdAsks /\ ~HdAsks'
        BY <1>2, <2>1, <2>2, AllApart DEF HdOK, HdAtPlace, HdFree, HdAsks, Apart
    <2>4. DiskOK'
        BY <1>0, <1>2, <2>1, <2>2 DEF DiskOK, Quiet
    <2>5. Kept(SYS) /\ \A u \in User : UserMail(u)'
        BY <1>0, <2>1, MailStays
    <2>6. TimeOK'
        BY <1>2, <2>2, <2>5, NotSysTime
    <2>7. FsOK' /\ ~FsHasSys'
        BY <1>4, <2>1, <2>3, AllApart DEF FsOK, FsAtPlace, FsHasSys, Apart
    <2>8. SysOK' /\ (SysHasHd' <=> SysHasHd) /\ (SysAsks' <=> SysAsks)
        BY <1>0, <1>2, <2>5, SysStays
    <2>9. TasksPair'
        BY <1>0, <1>3, <2>3, <2>7, <2>8 DEF TasksPair
    <2>10. HdSysTypeOK'
        BY <1>1, <1>4, FsTypes
    <2> QED  BY <1>5, <2>3, <2>4, <2>5, <2>6, <2>7, <2>8, <2>9, <2>10 DEF DriverInv
<1> QED  BY <1>5, <1>6, <1>7, <1>8

LEMMA FsReplyStep ==
    ASSUME DriverInv, FsReply, halted' = "no"
    PROVE  DriverInv'
<1> USE ProcFacts
<1>0. TableOK /\ HdOK /\ \A u \in User : UserMail(u)
    BY DEF DriverInv
<1>1. Working /\ MsgSend(FS, Caller, Nothing) /\ fs' = FsIdle /\ FsRest /\ p_flags[FS] = {}
    BY DEF FsReply, MsgSend, Runnable
<1>2. HdFree /\ ~FsHasSys /\ Caller \in User /\ hd' = hd
    BY <1>1, FsWorking DEF FsRest, hdVars
<1>3. PICK c \in User : c = Caller
    BY <1>2
<1>4. Nothing \in Mail
    BY DEF Mail, Nothing, Msg
<1>5. /\ TableOK' /\ has_int_msg' = has_int_msg
      /\ \A q \in Proc \ {FS, c} : Kept(q)
      /\ Handed(FS, c, Nothing) \/ Queued(FS, c, Nothing)
    <2>1. MsgSend(FS, c, Nothing)
        BY <1>1, <1>3
    <2> QED  BY <1>0, <1>4, <2>1, SendIs
<1>6. Kept(HD) /\ Kept(SYS) /\ \A u \in User : UserMail(u)'
    <2>1. ASSUME NEW u \in User PROVE Unblocked(u)' \/ Kept(u)
        BY <1>5 DEF Handed, Queued
    <2> QED  BY <1>0, <1>5, <2>1, MailGoes
<1>7. Unblocked(FS)' \/ SendsTo(FS, c)'
    BY <1>5 DEF Handed, Queued
<1>8. HdFree'
    BY <1>0, <1>2, <1>6, HdStays
<1>9. fs' \in FsState /\ fs'.at = "loop"
    BY <1>1 DEF FsIdle, FsState
<1>10. FsOK' /\ ~FsHasSys'
    BY <1>7, <1>8, <1>9, AllApart DEF FsOK, FsAtPlace, FsHasSys, Apart
<1> QED  BY <1>1, <1>2, <1>5, <1>6, <1>9, <1>10, FsAlone

LEMMA FsCloseStep ==
    ASSUME DriverInv, FsClose, halted' = "no"
    PROVE  DriverInv'
<1> USE ProcFacts
<1>0. /\ TableOK /\ HdSysTypeOK /\ HdOK /\ DiskOK /\ SysOK /\ FsOK /\ TasksPair /\ TimeOK
      /\ \A u \in User : UserMail(u)
    BY DEF DriverInv
<1>1. /\ fs.at = "dispatch" /\ Is(FS, "CLOSE") /\ MsgSend(FS, SYS, Nothing) /\ fs' = FsIdle
      /\ FsRest /\ p_flags[FS] = {}
    BY DEF FsClose, MsgSend, Runnable
<1>2. UNCHANGED hdVars /\ hd' = hd /\ disk' = disk /\ sys' = sys /\ ticks' = ticks
    BY <1>1 DEF FsRest, hdVars
<1>3. Unblocked(FS) /\ HdFree /\ FsHasSys /\ SysAsks
    <2>1. Unblocked(FS)
        BY <1>0, <1>1, TasksRun
    <2>2. ~Awaiting(FS, ANY)
        BY <2>1, AllApart DEF Apart
    <2>3. \A u \in User : buf[FS] # Letter(u, Msg("CALL", 0))
        BY <1>1 DEF Is, Letter, Msg
    <2>4. HdFree /\ buf[FS] = Letter(SYS, Msg("CLOSE", 0))
        BY <1>0, <1>1, <2>2, <2>3 DEF FsOK, FsAtPlace
    <2> QED  BY <1>0, <1>1, <2>1, <2>4 DEF FsHasSys, Letter, TasksPair
<1>4. Nothing \in Mail
    BY DEF Mail, Nothing, Msg
<1>5. /\ TableOK' /\ has_int_msg' = has_int_msg
      /\ \A q \in Proc \ {FS, SYS} : Kept(q)
      /\ Handed(FS, SYS, Nothing) \/ Queued(FS, SYS, Nothing)
    BY <1>0, <1>1, <1>4, SendIs
<1>6. Kept(HD) /\ \A u \in User : UserMail(u)'
    BY <1>0, <1>5, MailStays
<1>7. fs' \in FsState /\ fs'.at = "loop" /\ HdFree'
    BY <1>0, <1>1, <1>2, <1>3, <1>6, HdStays DEF FsIdle, FsState
<1>8. CASE Handed(FS, SYS, Nothing)
    <2>1. Awaiting(SYS, FS) \/ Awaiting(SYS, ANY)
        BY <1>8 DEF Handed
    <2>2. Unblocked(SYS)' /\ Unblocked(FS)'
        BY <1>8 DEF Handed
    <2>3. sys.at = "closed" /\ ~SysHasHd
        BY <1>0, <1>3, <2>1, SysIs, AllApart DEF SysAsks, SysHasHd, Apart
    <2>4. SysOK' /\ ~SysAsks' /\ ~SysHasHd' /\ ~SendsTo(SYS, HD)'
        BY <1>0, <1>2, <2>2, <2>3, AllApart DEF SysOK, SysAtPlace, SysAsks, SysHasHd, Apart
    <2>5. HdOK' /\ DiskOK' /\ TimeOK' /\ (HdAsks' <=> HdAsks)
        BY <1>2, <1>5, <1>6, <2>4, NotHd, NotHdTime
    <2>6. FsOK' /\ ~FsHasSys'
        BY <1>7, <2>2, AllApart DEF FsOK, FsAtPlace, FsHasSys, Apart
    <2>7. TasksPair'
        BY <1>0, <2>3, <2>4, <2>5, <2>6 DEF TasksPair
    <2>8. HdSysTypeOK'
        BY <1>1, <1>7, FsTypes
    <2> QED  BY <1>5, <1>6, <2>4, <2>5, <2>6, <2>7, <2>8 DEF DriverInv
<1>9. CASE Queued(FS, SYS, Nothing)
    <2>1. SendsTo(FS, SYS)' /\ Kept(SYS)
        BY <1>9 DEF Queued
    <2>2. FsOK' /\ FsHasSys'
        BY <1>7, <2>1 DEF FsOK, FsAtPlace, FsHasSys
    <2> QED  BY <1>1, <1>3, <1>5, <1>6, <1>7, <2>1, <2>2, FsAlone
<1> QED  BY <1>5, <1>8, <1>9

\* What FS does keeps it.
LEMMA FsStep ==
    ASSUME DriverInv, TaskFs, halted' = "no"
    PROVE  DriverInv'
<1>1. ~FsCloseFails
    BY DEF FsCloseFails
<1> QED  BY <1>1, FsBootStep, FsReceiveStep, FsRdwtStep, FsGotStep, FsReplyStep, FsCloseStep
         DEF TaskFs

-----------------------------------------------------------------------------
(* The processes *)

\* What a process does keeps it, if HD is left alone.
LEMMA UserAlone ==
    ASSUME DriverInv, UserRest, user' \in [User -> UserState],
           TableOK', has_int_msg' = has_int_msg, Kept(HD),
           \A u \in User : UserMail(u)',
           SysOK', SysHasHd' <=> SysHasHd, SysAsks' <=> SysAsks,
           SendsTo(SYS, HD)' => SendsTo(SYS, HD) /\ buf'[SYS] = buf[SYS],
           (HdFree' <=> HdFree) => FsOK', FsHasSys' <=> FsHasSys
    PROVE  DriverInv'
<1>0. /\ TableOK /\ HdSysTypeOK /\ HdOK /\ DiskOK /\ SysOK /\ FsOK /\ TasksPair /\ TimeOK
      /\ \A u \in User : UserMail(u)
    BY DEF DriverInv
<1>1. UNCHANGED hdVars /\ ticks' = ticks
    BY DEF UserRest
<1>2. HdSysTypeOK'
    BY DriverTypes DEF UserRest, hdVars, HdSysTypeOK
<1>3. HdOK' /\ DiskOK' /\ TimeOK' /\ (HdFree' <=> HdFree) /\ (HdAsks' <=> HdAsks)
    BY <1>1, NotHd, NotHdTime
<1>5. TasksPair' /\ FsOK'
    BY <1>0, <1>3 DEF TasksPair
<1> QED  BY <1>2, <1>3, <1>5 DEF DriverInv

LEMMA UserCallStep ==
    ASSUME DriverInv, halted' = "no", NEW u \in User, NEW t \in {"CALL", "GET_PID", "KILL_PROC"},
           NEW n, Msg(t, n) \in IF t = "CALL" THEN {Msg("CALL", 0)} ELSE SysRequest,
           UserCall(u, t, n)
    PROVE  DriverInv'
<1> USE ProcFacts
<1>0. /\ TableOK /\ HdSysTypeOK /\ HdOK /\ DiskOK /\ SysOK /\ FsOK /\ TasksPair /\ TimeOK
      /\ \A v \in User : UserMail(v)
    BY DEF DriverInv
<1>1. /\ MsgSend(u, Server(t), Msg(t, n)) /\ UserRest
      /\ user' = [user EXCEPT ![u] = [call |-> t, at |-> "sent"]]
      /\ fs' = fs /\ sys' = sys
    BY DEF UserCall, UserRest
<1>2. user' \in [User -> UserState]
    BY <1>1, DriverTypes DEF UserState
<1>3. Msg(t, n) \in Mail
    BY HdSysAssumption DEF SysRequest, Mail, Msg
<1>4. PICK m \in Mail : m = Msg(t, n)
    BY <1>3
<1>5. PICK d \in {FS, SYS} : d = Server(t)
    BY DEF Server
<1>6. /\ TableOK' /\ has_int_msg' = has_int_msg /\ buf'[u] = Letter(u, m)
      /\ \A q \in Proc \ {u, d} : Kept(q)
      /\ Handed(u, d, m) \/ Queued(u, d, m)
    <2>1. MsgSend(u, d, m)
        BY <1>1, <1>4, <1>5
    <2> QED  BY <1>0, <2>1, SendIs
<1>7. Kept(HD)
    BY <1>6
<1>8. IF d = FS THEN t = "CALL" /\ m = Msg("CALL", 0) ELSE m \in SysRequest
    BY <1>4, <1>5 DEF Server
<1>9. \A v \in User : UserMail(v)'
    <2>1. ASSUME NEW v \in User PROVE UserMail(v)'
        <3>1. CASE v # u
            BY <1>0, <1>6, <3>1, MailStays
        <3>2. CASE v = u /\ Handed(u, d, m)
            BY <1>0, <3>2, MailGoes DEF Handed
        <3>3. CASE v = u /\ Queued(u, d, m)
            <4>1. p_sendto'[u] = d
                BY <3>3 DEF Queued, SendsTo
            <4> QED  BY <1>6, <1>8, <3>3, <4>1 DEF UserMail
        <3> QED  BY <1>6, <3>1, <3>2, <3>3
    <2> QED  BY <2>1
<1>10. CASE Kept(SYS) /\ Kept(FS)
    <2>1. /\ SysOK' /\ (SysHasHd' <=> SysHasHd) /\ (SysAsks' <=> SysAsks)
          /\ (SendsTo(SYS, HD)' => SendsTo(SYS, HD)) /\ buf'[SYS] = buf[SYS]
        BY <1>0, <1>1, <1>10, SysStays DEF Kept, EntryKept
    <2>2. ((HdFree' <=> HdFree) => FsOK') /\ (FsHasSys' <=> FsHasSys)
        BY <1>0, <1>1, <1>10, FsStays
    <2> QED  BY <1>1, <1>2, <1>6, <1>7, <1>9, <2>1, <2>2, UserAlone
<1>11. CASE Handed(u, d, m) /\ d = SYS
    <2>1. /\ Awaiting(SYS, u) \/ Awaiting(SYS, ANY)
          /\ Unblocked(SYS)' /\ buf'[SYS] = Letter(u, m) /\ Kept(FS)
        BY <1>6, <1>11 DEF Handed
    <2>2. sys.at = "dispatch" /\ Awaiting(SYS, ANY)
        BY <1>0, <2>1, SysIs
    <2>3. sys = [SysIdle EXCEPT !.at = "dispatch"]
        BY <1>0, <2>2 DEF SysOK, SysAtPlace
    <2>4. SysOK'
        BY <1>1, <1>8, <1>11, <2>1, <2>2, <2>3 DEF SysOK, SysAtPlace
    <2>5. ~SysHasHd /\ ~SysHasHd' /\ ~SysAsks /\ ~SysAsks' /\ ~SendsTo(SYS, HD)'
        BY <1>1, <2>1, <2>2, AllApart DEF SysHasHd, SysAsks, Letter, Apart
    <2>6. ((HdFree' <=> HdFree) => FsOK') /\ (FsHasSys' <=> FsHasSys)
        BY <1>0, <1>1, <2>1, FsStays
    <2> QED  BY <1>1, <1>2, <1>6, <1>7, <1>9, <2>4, <2>5, <2>6, UserAlone
<1>12. CASE Handed(u, d, m) /\ d = FS
    <2>1. /\ Awaiting(FS, u) \/ Awaiting(FS, ANY)
          /\ Unblocked(FS)' /\ buf'[FS] = Letter(u, m) /\ Kept(SYS)
        BY <1>6, <1>12 DEF Handed
    <2>2. fs.at = "dispatch" /\ HdFree /\ Awaiting(FS, ANY)
        BY <1>0, <2>1, FsIs
    <2>3. (HdFree' <=> HdFree) => FsOK'
        BY <1>1, <1>8, <1>12, <2>1, <2>2 DEF FsOK, FsAtPlace
    <2>4. ~FsHasSys /\ ~FsHasSys'
        BY <1>1, <2>1, <2>2, AllApart DEF FsHasSys, Letter, Apart
    <2>5. /\ SysOK' /\ (SysHasHd' <=> SysHasHd) /\ (SysAsks' <=> SysAsks)
          /\ (SendsTo(SYS, HD)' => SendsTo(SYS, HD)) /\ buf'[SYS] = buf[SYS]
        BY <1>0, <1>1, <2>1, SysStays DEF Kept, EntryKept
    <2> QED  BY <1>1, <1>2, <1>6, <1>7, <1>9, <2>3, <2>4, <2>5, UserAlone
<1>13. Queued(u, d, m) => Kept(SYS) /\ Kept(FS)
    BY <1>6 DEF Queued
<1> QED  BY <1>6, <1>10, <1>11, <1>12, <1>13

LEMMA UserReceiveStep ==
    ASSUME DriverInv, halted' = "no", NEW u \in User, UserReceive(u)
    PROVE  DriverInv'
<1> USE ProcFacts
<1>0. /\ TableOK /\ HdSysTypeOK /\ HdOK /\ DiskOK /\ SysOK /\ FsOK /\ TasksPair /\ TimeOK
      /\ \A v \in User : UserMail(v)
    BY DEF DriverInv
<1>1. /\ MsgReceive(u, Server(user[u].call)) /\ UserRest
      /\ user' = [user EXCEPT ![u].at = "received"]
      /\ fs' = fs /\ sys' = sys
    BY DEF UserReceive, UserRest
<1>2. user' \in [User -> UserState]
    BY <1>1, DriverTypes DEF UserState
<1>3. PICK d \in {FS, SYS} : d = Server(user[u].call)
    BY DEF Server
<1>4. TableOK' /\ (TookInt(u, d) \/ Blocks(u, d) \/ \E q \in Proc : Took(u, q, d))
    <2>1. d \in Source /\ MsgReceive(u, d)
        BY <1>1, <1>3 DEF Source
    <2> QED  BY <1>0, <2>1, ReceiveIs
<1>5. ~TookInt(u, d)
    BY <1>0 DEF TookInt, TableOK
<1>6. /\ has_int_msg' = has_int_msg
      /\ \A r \in Proc \ {u, d} : Kept(r)
      /\ \/ Awaiting(u, d)' /\ Kept(d)
         \/ Unblocked(u)' /\ SendsTo(d, u) /\ Unblocked(d)'
    BY <1>4, <1>5 DEF Blocks, Took
<1>7. Kept(HD) /\ \A v \in User : UserMail(v)'
    <2>1. ASSUME NEW v \in User PROVE UserMail(v)'
        <3>1. CASE v # u
            BY <1>0, <1>6, <3>1, MailStays
        <3>2. CASE v = u
            BY <1>6, <3>2, AllApart DEF UserMail, Apart
        <3> QED  BY <3>1, <3>2
    <2> QED  BY <1>6, <2>1
<1>8. CASE Kept(SYS) /\ Kept(FS)
    <2>1. /\ SysOK' /\ (SysHasHd' <=> SysHasHd) /\ (SysAsks' <=> SysAsks)
          /\ (SendsTo(SYS, HD)' => SendsTo(SYS, HD)) /\ buf'[SYS] = buf[SYS]
        BY <1>0, <1>1, <1>8, SysStays DEF Kept, EntryKept
    <2>2. ((HdFree' <=> HdFree) => FsOK') /\ (FsHasSys' <=> FsHasSys)
        BY <1>0, <1>1, <1>8, FsStays
    <2> QED  BY <1>1, <1>2, <1>4, <1>6, <1>7, <2>1, <2>2, UserAlone
<1>9. CASE d = SYS /\ SendsTo(d, u) /\ Unblocked(d)'
    <2>1. sys.at = "loop" /\ sys = SysIdle /\ Kept(FS)
        BY <1>0, <1>6, <1>9, SysIs
    <2>2. SysOK' /\ ~SysHasHd' /\ ~SysAsks' /\ ~SendsTo(SYS, HD)'
        BY <1>1, <1>9, <2>1, AllApart DEF SysOK, SysAtPlace, SysHasHd, SysAsks, Apart
    <2>3. ~SysHasHd /\ ~SysAsks
        BY <1>9, <2>1, AllApart DEF SysHasHd, SysAsks, Apart
    <2>4. ((HdFree' <=> HdFree) => FsOK') /\ (FsHasSys' <=> FsHasSys)
        BY <1>0, <1>1, <2>1, FsStays
    <2> QED  BY <1>1, <1>2, <1>4, <1>6, <1>7, <2>2, <2>3, <2>4, UserAlone
<1>10. CASE d = FS /\ SendsTo(d, u) /\ Unblocked(d)'
    <2>1. fs.at = "loop" /\ HdFree /\ Kept(SYS)
        BY <1>0, <1>6, <1>10, FsIs
    <2>2. (HdFree' <=> HdFree) => FsOK'
        BY <1>1, <1>10, <2>1 DEF FsOK, FsAtPlace
    <2>3. ~FsHasSys /\ ~FsHasSys'
        BY <1>1, <1>10, <2>1, AllApart DEF FsHasSys, Apart
    <2>4. /\ SysOK' /\ (SysHasHd' <=> SysHasHd) /\ (SysAsks' <=> SysAsks)
          /\ (SendsTo(SYS, HD)' => SendsTo(SYS, HD)) /\ buf'[SYS] = buf[SYS]
        BY <1>0, <1>1, <2>1, SysStays DEF Kept, EntryKept
    <2> QED  BY <1>1, <1>2, <1>4, <1>6, <1>7, <2>2, <2>3, <2>4, UserAlone
<1>11. Kept(d) => Kept(SYS) /\ Kept(FS)
    BY <1>6
<1> QED  BY <1>6, <1>8, <1>9, <1>10, <1>11

LEMMA UserReturnStep ==
    ASSUME DriverInv, NEW u \in User, UserReturn(u)
    PROVE  DriverInv'
<1> USE ProcFacts
<1>0. /\ TableOK /\ HdSysTypeOK /\ HdOK /\ DiskOK /\ SysOK /\ FsOK /\ TasksPair /\ TimeOK
      /\ \A v \in User : UserMail(v)
    BY DEF DriverInv
<1>1. /\ p_flags[u] = {} /\ UserRest
      /\ user' = [user EXCEPT ![u] = [call |-> "none", at |-> "user"]]
      /\ buf' = [buf EXCEPT ![u] = [source |-> u, body |-> Nothing]]
      /\ UNCHANGED <<p_flags, p_sendto, p_recvfrom, p_msg, q_sending, has_int_msg, halted>>
      /\ fs' = fs /\ sys' = sys
    BY DEF UserReturn, UserRest, Runnable
<1>2. user' \in [User -> UserState]
    BY <1>1, DriverTypes DEF UserState
<1>3. TableOK'
    <2>1. [source |-> u, body |-> Nothing]
             \in [source : Proc \cup {INTERRUPT}, body : Mail \cup {HARD_INT}]
        BY DEF Mail, Nothing, Msg
    <2>2. buf' \in [Proc -> [source : Proc \cup {INTERRUPT}, body : Mail \cup {HARD_INT}]]
        BY <1>0, <1>1, <2>1 DEF TableOK
    <2> QED  BY <1>0, <1>1, <2>2 DEF TableOK
<1>4. \A r \in Proc \ {u} : Kept(r)
    <2>1. ASSUME NEW r \in Proc \ {u} PROVE Kept(r)
        <3>1. buf'[r] = buf[r]
            BY <1>0, <1>1 DEF TableOK
        <3> QED  BY <1>1, <3>1, EntryIsKept DEF Kept
    <2> QED  BY <2>1
<1>5. \A v \in User : UserMail(v)'
    <2>1. UserMail(u)'
        BY <1>1 DEF UserMail, Sending
    <2> QED  BY <1>0, <1>4, <2>1, MailStays
<1>6. Kept(HD) /\ Kept(SYS) /\ Kept(FS)
    BY <1>4
<1>7. /\ SysOK' /\ (SysHasHd' <=> SysHasHd) /\ (SysAsks' <=> SysAsks)
      /\ (SendsTo(SYS, HD)' => SendsTo(SYS, HD)) /\ buf'[SYS] = buf[SYS]
    BY <1>0, <1>1, <1>6, SysStays DEF Kept, EntryKept
<1>8. ((HdFree' <=> HdFree) => FsOK') /\ (FsHasSys' <=> FsHasSys)
    BY <1>0, <1>1, <1>6, FsStays
<1> QED  BY <1>1, <1>2, <1>3, <1>5, <1>6, <1>7, <1>8, UserAlone

\* The part of the invariant about the tasks is kept while the kernel runs.
LEMMA DriverNext ==
    ASSUME DriverInv, Next, halted = "no", halted' = "no"
    PROVE  DriverInv'
<1>1. CASE \E u \in User : UserCall(u, "CALL", 0) \/ UserCall(u, "GET_PID", 0) \/ UserStep(u)
    <2>1. PICK u \in User : UserCall(u, "CALL", 0) \/ UserCall(u, "GET_PID", 0) \/ UserStep(u)
        BY <1>1
    <2>2. Msg("GET_PID", 0) \in SysRequest
        BY DEF SysRequest
    <2>3. UserCall(u, "CALL", 0) => DriverInv'
        BY UserCallStep
    <2>4. UserCall(u, "GET_PID", 0) => DriverInv'
        BY <2>2, UserCallStep
    <2> QED  BY <2>1, <2>3, <2>4, UserReceiveStep, UserReturnStep DEF UserStep
<1>2. CASE \E u, v \in User : UserCall(u, "KILL_PROC", v)
    <2>1. PICK u \in User, v \in User : UserCall(u, "KILL_PROC", v)
        BY <1>2
    <2>2. Msg("KILL_PROC", v) \in SysRequest
        BY DEF SysRequest
    <2> QED  BY <2>1, <2>2, UserCallStep
<1> QED  BY <1>1, <1>2, ClockStep, DiskStep, HdStep, SysStep, FsStep DEF Next

-----------------------------------------------------------------------------
(* The time-out *)

LEMMA Words ==
    ASSUME NEW x \in Nat
    PROVE  \E k \in Nat, w \in Nat :
              w < 65536 /\ k = x \div 65536 /\ w = x % 65536 /\ x = 65536 * k + w
<1>1. /\ x \div 65536 \in Nat /\ x % 65536 \in Nat /\ x % 65536 < 65536
      /\ x = 65536 * (x \div 65536) + (x % 65536)
    BY SMT
<1> QED  BY <1>1, SMT

\* d * 1000 in the words of a 32 bit machine is no more than it is.
LEMMA Times1000Is ==
    ASSUME NEW d \in Nat, Times1000(d) >= 0
    PROVE  Times1000(d) \in Nat /\ Times1000(d) <= 1000 * d
<1>1. PICK q \in Nat, r \in Nat : 
          r < 65536 /\ q = d \div 65536 /\ r = d % 65536 /\ d = 65536 * q + r
    BY Words, SMT
<1>2. PICK low \in Nat : low = r * 1000
    BY <1>1, SMT
<1>3. PICK lq \in Nat, lr \in Nat : 
          lr < 65536 /\ lq = low \div 65536 /\ lr = low % 65536 /\ low = 65536 * lq + lr
    BY <1>2, Words, SMT
<1>4. PICK H \in Nat : H = q * 1000 + lq
    BY <1>1, <1>3, SMT
<1>5. PICK hq \in Nat, high \in Nat : 
          high < 65536 /\ hq = H \div 65536 /\ high = H % 65536 /\ H = 65536 * hq + high
    BY <1>4, Words, SMT
<1>6. Times1000(d) = (IF high < 32768 THEN high ELSE high - 65536) * 65536 + lr
    BY <1>1, <1>2, <1>3, <1>4, <1>5, SMT DEF Times1000
<1>7. high < 32768
    BY <1>3, <1>5, <1>6, SMT
<1>8. Times1000(d) = high * 65536 + lr
    BY <1>3, <1>5, <1>6, <1>7, SMT
<1>9. high * 65536 + lr <= 1000 * d
    BY <1>1, <1>2, <1>3, <1>4, <1>5, SMT
<1>10. high * 65536 + lr \in Nat
    BY <1>3, <1>5, SMT
<1> QED  BY <1>8, <1>9, <1>10, SMT

\* HD gives up: so much time has passed, or the ticks started again.
LEMMA PanicInTime ==
    ASSUME DriverInv, HdPanic
    PROVE  passed * 1000 >= HD_TIMEOUT * HZ \/ ticks < hd.t
<1> USE ProcFacts
<1>0. HdOK /\ SysOK /\ FsOK /\ TimeOK
    BY DEF DriverInv
<1>1. hd.at = "look" /\ p_flags[HD] = {} /\ TimedOut(hd.t, buf[HD].body.n)
    BY DEF HdPanic, HdAt, Runnable
<1>2. PICK now : now = buf[HD].body.n
    OBVIOUS
<1>3. hd.t < MAX_TICKS /\ Told(now)
    BY <1>0, <1>1, <1>2, TasksRun DEF TimeOK
<1>4. PICK t \in 0..(MAX_TICKS - 1) : t = hd.t
    BY <1>3, DriverTypes, TimeLimits DEF HdState
<1>5. now \in 0..(MAX_TICKS - 1) /\ Since(t, now) + Since(now, ticks) <= passed
    BY <1>1, <1>3, <1>4 DEF Told
<1>6. ticks \in 0..(MAX_TICKS - 1) /\ passed \in Nat
    BY DriverTypes
<1>7. TimedOut(t, now)
    BY <1>1, <1>2, <1>4
<1>8. HZ \in Nat \ {0} /\ HD_TIMEOUT \in Nat /\ MAX_TICKS \in Nat /\ HD_TIMEOUT * HZ <= MAX_TICKS
      /\ HD_TIMEOUT * HZ \in Nat
    BY TimeAssumption
<1>9. CASE now >= t
    <2>1. now - t \in Nat /\ now - t <= passed
        BY <1>5, <1>6, <1>9, TimeLimits DEF Since
    <2>2. Times1000(now - t) \in Nat /\ Times1000(now - t) <= 1000 * (now - t)
        BY <1>7, <2>1, Times1000Is DEF TimedOut
    <2>3. PICK v \in Nat : v = Times1000(now - t)
        BY <2>2
    <2>4. v \div HZ >= HD_TIMEOUT
        BY <1>7, <2>3 DEF TimedOut
    <2>5. v >= (v \div HZ) * HZ /\ v \div HZ \in Nat
        BY <1>8, Z3
    <2>6. (v \div HZ) * HZ >= HD_TIMEOUT * HZ
        BY <1>8, <2>4, <2>5, Z3
    <2>7. (v \div HZ) * HZ \in Nat
        BY <1>8, <2>5, Z3
    <2>8. v >= HD_TIMEOUT * HZ
        BY <1>8, <2>5, <2>6, <2>7
    <2>9. 1000 * (now - t) <= passed * 1000
        BY <2>1, <1>6
    <2> QED  BY <1>6, <1>8, <2>1, <2>2, <2>3, <2>8, <2>9
<1>10. CASE now < t /\ ticks >= t
    <2>1. passed >= MAX_TICKS
        BY <1>5, <1>6, <1>10, TimeLimits DEF Since
    <2> QED  BY <1>6, <1>8, <2>1
<1> QED  BY <1>4, <1>5, <1>6, <1>9, <1>10

-----------------------------------------------------------------------------
(* When the kernel stops *)

LEMMA SendHalts ==
    ASSUME NEW p, NEW d, NEW m, MsgSend(p, d, m)
    PROVE  halted = "no" /\ halted' # "hd" /\ has_int_msg' = has_int_msg
BY DEF MsgSend, Runnable, SendPanic, SendDeliver, SendBlock, BlockSender, Asserting

LEMMA ReceiveHalts ==
    ASSUME TableOK, NEW p, NEW src, MsgReceive(p, src)
    PROVE  /\ halted = "no" /\ halted' # "hd"
           /\ \A q \in Proc : has_int_msg'[q] => has_int_msg[q]
<1>1. halted = "no"
    BY DEF MsgReceive, Runnable
<1>2. CASE ReceiveInt(p, src)
    BY <1>1, <1>2 DEF ReceiveInt, Asserting, TableOK
<1>3. CASE \E i \in DOMAIN q_sending[p] : ReceiveTake(p, src, i)
    BY <1>1, <1>3 DEF ReceiveTake, TakeFrom, Asserting
<1>4. CASE ReceiveBlock(p, src)
    BY <1>1, <1>4 DEF ReceiveBlock, BlockReceiver, Asserting
<1> QED  BY <1>2, <1>3, <1>4 DEF MsgReceive

LEMMA QuietIs == DiskOK => CommandsComplete
BY DEF DiskOK, Quiet, CommandsComplete

\* HD may find the kernel stopped at no place where its disk is not quiet.
LEMMA HdHalts ==
    ASSUME DriverInv, TaskHd, halted = "no", halted' # "no"
    PROVE  CommandsComplete' /\ (halted' = "hd" => HdPanic)
<1>0. TableOK /\ CommandsComplete /\ hd \in HdState
    BY QuietIs, DriverTypes DEF DriverInv
<1>1. ~(UNCHANGED ipcVars)
    BY DEF ipcVars
<1>2. ~HdDispatch /\ ~HdLook /\ ~HdCmdOut /\ ~HdPortWrite /\ ~HdSectorDone
    BY <1>1 DEF HdDispatch, HdLook, HdCmdOut, HdPortWrite, HdSectorDone
<1>3. CASE HdReceive
    <2>1. MsgReceive(HD, ANY) /\ hd.at = "loop" /\ disk' = disk
        BY <1>3 DEF HdReceive
    <2> QED  BY <1>0, <2>1, ReceiveHalts, ProcFacts DEF CommandsComplete
<1>4. CASE HdReply
    <2>1. MsgSend(HD, hd.src, Nothing) /\ hd.at = "command" /\ disk' = disk
        BY <1>4 DEF HdReply
    <2> QED  BY <1>0, <2>1, SendHalts DEF CommandsComplete
<1>5. CASE HdPanic
    BY <1>5 DEF HdPanic, HdAt, hdVars, CommandsComplete
<1>6. CASE HdTicks
    <2>1. MsgReceive(HD, SYS) /\ hd'.at \in {"began", "look"}
        BY <1>0, <1>6 DEF HdTicks, HdGoto, HdState
    <2> QED  BY <1>0, <2>1, ReceiveHalts DEF CommandsComplete
<1>7. CASE HdInterruptWait
    <2>1. MsgReceive(HD, INTERRUPT) /\ hd'.at = "interrupted"
        BY <1>0, <1>7 DEF HdInterruptWait, HdGoto, HdState
    <2> QED  BY <1>0, <2>1, ReceiveHalts DEF CommandsComplete
<1>8. CASE HdWaitfor \/ HdAgain \/ HdLookAgain
    <2>1. AskTicks /\ hd'.at \in {"begin", "asked"}
        BY <1>0, <1>8 DEF HdWaitfor, HdAgain, HdLookAgain, HdGoto, HdState
    <2> QED  BY <2>1, SendHalts DEF AskTicks, CommandsComplete
<1> QED  BY <1>2, <1>3, <1>4, <1>5, <1>6, <1>7, <1>8 DEF TaskHd

\* The others stop the kernel in IPC only, or by the assertion of FS.
LEMMA OthersHalt ==
    ASSUME TableOK, halted = "no", TaskSys \/ TaskFs \/ \E u \in User : UserStep(u)
                     \/ \E t \in {"CALL", "GET_PID", "KILL_PROC"} : \E n : UserCall(u, t, n)
    PROVE  /\ halted' # "hd" /\ UNCHANGED <<hdVars, ticks>>
           /\ \A q \in Proc : has_int_msg'[q] => has_int_msg[q]
<1>1. CASE TaskSys
    <2>1. UNCHANGED <<hdVars, ticks>>
        BY <1>1 DEF TaskSys, SysReceive, SysAnswer, SysClose, SysClosed, SysHang, SysKilled, SysRest
    <2>2. \/ \E s : MsgReceive(SYS, s)
          \/ \E d, m : MsgSend(SYS, d, m)
          \/ UNCHANGED <<halted, has_int_msg>>
        BY <1>1 DEF TaskSys, SysReceive, SysAnswer, SysClose, SysClosed, SysHang, SysKilled
    <2> QED  BY <2>1, <2>2, SendHalts, ReceiveHalts
<1>2. CASE TaskFs
    <2>1. UNCHANGED <<hdVars, ticks>>
        BY <1>2 DEF TaskFs, FsBoot, FsReceive, FsRdwt, FsGot, FsReply, FsClose, FsCloseFails, FsRest
    <2>2. \/ \E s : MsgReceive(FS, s)
          \/ \E d, m : MsgSend(FS, d, m)
          \/ halted' = "assert" /\ has_int_msg' = has_int_msg
        BY <1>2 DEF TaskFs, FsBoot, FsAsk, FsReceive, FsRdwt, FsGot, FsReply, FsClose, FsCloseFails
    <2> QED  BY <2>1, <2>2, SendHalts, ReceiveHalts
<1>3. CASE \E u \in User : UserStep(u) \/ \E t \in {"CALL", "GET_PID", "KILL_PROC"} : \E n : UserCall(u, t, n)
    <2>1. PICK u \in User : UserStep(u) \/ \E t \in {"CALL", "GET_PID", "KILL_PROC"} : \E n : UserCall(u, t, n)
        BY <1>3
    <2>2. UNCHANGED <<hdVars, ticks>>
        BY <2>1 DEF UserStep, UserReceive, UserReturn, UserCall, UserRest
    <2>3. \/ \E s : MsgReceive(u, s)
          \/ \E d, m : MsgSend(u, d, m)
          \/ UNCHANGED <<halted, has_int_msg>>
        BY <2>1 DEF UserStep, UserReceive, UserReturn, UserCall
    <2> QED  BY <2>2, <2>3, SendHalts, ReceiveHalts
<1> QED  BY <1>1, <1>2, <1>3

LEMMA HaltingNext ==
    ASSUME DriverInv, Next, halted = "no", halted' # "no"
    PROVE  CommandsComplete' /\ TimeoutExact'
<1>0. TableOK /\ CommandsComplete /\ HdOK /\ DiskOK
    BY QuietIs DEF DriverInv
<1>1. ~ClockHandler
    BY DEF ClockHandler, ipcVars
<1>2. CASE DiskReady
    <2>1. hd' = hd /\ disk.busy
        BY <1>2 DEF DiskReady
    <2>2. halted' # "hd"
        BY <1>2 DEF DiskReady, ipcVars, InformInt, InformWake, InformPend, Asserting
    <2> QED  BY <1>0, <2>1, <2>2, BusyAt DEF CommandsComplete, TimeoutExact
<1>3. CASE TaskHd
    <2>1. CommandsComplete' /\ (halted' = "hd" => HdPanic)
        BY <1>3, HdHalts
    <2>2. HdPanic => passed' = passed /\ ticks' = ticks /\ hd' = hd
        BY DEF HdPanic, hdVars, HdRest
    <2> QED  BY <2>1, <2>2, PanicInTime DEF TimeoutExact
<1>4. CASE TaskSys \/ TaskFs \/ \E u \in User : UserStep(u)
             \/ \E t \in {"CALL", "GET_PID", "KILL_PROC"} : \E n : UserCall(u, t, n)
    <2>1. /\ halted' # "hd" /\ UNCHANGED <<hdVars, ticks>>
          /\ \A q \in Proc : has_int_msg'[q] => has_int_msg[q]
        BY <1>0, <1>4, OthersHalt
    <2> QED  BY <1>0, <2>1, ProcFacts DEF CommandsComplete, TimeoutExact, hdVars
<1> QED  BY <1>1, <1>2, <1>3, <1>4 DEF Next

\* A kernel that has stopped only lets the disk end what it does.
LEMMA HaltedNext ==
    ASSUME Next, halted # "no"
    PROVE  disk.busy /\ UNCHANGED <<hd, passed, ticks, halted, harmed>>
<1>1. ~ClockHandler /\ ~TaskHd /\ ~TaskSys /\ ~TaskFs
    <2>1. \A p, d, m : ~MsgSend(p, d, m)
        BY DEF MsgSend, Runnable
    <2>2. \A p, s : ~MsgReceive(p, s)
        BY DEF MsgReceive, Runnable
    <2>3. ~TaskHd
        BY <2>1, <2>2
           DEF TaskHd, HdReceive, HdDispatch, HdWaitfor, HdTicks, HdAgain, HdPanic, HdLook, HdLookAgain,
               HdCmdOut, HdPortWrite, HdInterruptWait, HdSectorDone, HdReply, AskTicks, HdAt, Runnable
    <2>4. ~TaskSys
        BY <2>1, <2>2 DEF TaskSys, SysReceive, SysAnswer, SysClose, SysClosed, SysHang, SysKilled, Runnable
    <2>5. ~TaskFs
        BY <2>1, <2>2
           DEF TaskFs, FsBoot, FsAsk, FsReceive, FsRdwt, FsGot, FsReply, FsClose, FsCloseFails, Runnable
    <2> QED  BY <2>3, <2>4, <2>5 DEF ClockHandler
<1>2. /\ \A u \in User : ~UserStep(u)
      /\ \A u \in User : \A t, n : ~UserCall(u, t, n)
    BY DEF UserStep, UserReceive, UserReturn, UserCall, MsgSend, MsgReceive, Runnable
<1>3. DiskReady
    BY <1>1, <1>2 DEF Next
<1> QED  BY <1>3 DEF DiskReady, InformInt, ipcVars

LEMMA TaskInit == Init => TaskInv /\ CallerInv /\ halted = "no"
<1> SUFFICES ASSUME Init PROVE TaskInv /\ CallerInv /\ halted = "no"
    OBVIOUS
<1> USE ProcFacts
<1>1. /\ \A p \in Proc : Unblocked(p) /\ ~has_int_msg[p] /\ ~Sending(p) /\ q_sending[p] = <<>>
      /\ hd = HdIdle /\ disk = DiskIdle /\ sys = SysIdle /\ fs = [FsIdle EXCEPT !.at = "boot"]
      /\ user = [u \in User |-> [call |-> "none", at |-> "user"]]
      /\ halted = "no" /\ harmed = FALSE /\ passed = 0 /\ ticks \in Uptime
    BY DEF Init, Unblocked, Sending
<1>2. TableOK
    <2>1. Nothing \in Mail /\ <<>> \in Seq(Proc)
        BY DEF Nothing, Mail, Msg
    <2>2. /\ p_flags \in [Proc -> SUBSET Flag]
          /\ p_sendto \in [Proc -> Proc \cup {NO_TASK}]
          /\ p_recvfrom \in [Proc -> Source \cup {NO_TASK}]
          /\ p_msg \in [Proc -> BOOLEAN]
          /\ q_sending \in [Proc -> Seq(Proc)]
          /\ has_int_msg \in [Proc -> BOOLEAN]
        BY <2>1 DEF Init
    <2>3. buf \in [Proc -> [source : Proc \cup {INTERRUPT}, body : Mail \cup {HARD_INT}]]
        BY <2>1 DEF Init
    <2> QED  BY <1>1, <2>2, <2>3 DEF TableOK
<1>3. HdSysTypeOK
    <2>1. ticks \in 0..(MAX_TICKS - 1) /\ passed \in Nat /\ harmed \in BOOLEAN
        BY <1>1, TimeLimits
    <2>2. hd \in HdState /\ disk \in DiskState
        BY <1>1 DEF HdIdle, DiskIdle, HdState, HdPlace, DiskState
    <2>3. sys \in SysState /\ fs \in FsState
        BY <1>1 DEF SysIdle, FsIdle, SysState, FsState
    <2>4. user \in [User -> UserState]
        BY <1>1 DEF UserState
    <2> QED  BY <2>1, <2>2, <2>3, <2>4 DEF HdSysTypeOK
<1>4. hd.at = "loop" /\ sys.at = "loop" /\ fs.at = "boot"
    BY <1>1 DEF HdIdle, SysIdle, FsIdle
<1>5. HdOK /\ SysOK /\ HdFree
    BY <1>1, <1>4 DEF HdOK, HdAtPlace, SysOK, SysAtPlace, HdFree
<1>6. FsOK
    BY <1>1, <1>4, <1>5 DEF FsOK, FsAtPlace
<1>7. \A p \in Proc : (\A d : ~SendsTo(p, d) /\ ~Awaiting(p, d))
    BY <1>1, AllApart DEF Apart
<1>13. NoneMissed
    BY <1>7 DEF NoneMissed
<1>8. TasksPair /\ TimeOK
    BY <1>1, <1>4, <1>7 DEF TasksPair, HdAsks, SysHasHd, SysAsks, FsHasSys, TimeOK
<1>9. DiskOK /\ CommandsComplete /\ TimeoutExact
    BY <1>1, <1>4 DEF DiskOK, Quiet, DiskIdle, CommandsComplete, TimeoutExact
<1>10. \A u \in User : UserMail(u)
    BY <1>1 DEF UserMail
<1>11. QueueExact
    <2>1. \A p \in Proc : ToSet(q_sending[p]) = {} /\ IsInjective(q_sending[p])
        BY <1>1 DEF ToSet, IsInjective
    <2> QED  BY <1>1, <2>1 DEF QueueExact
<1>12. \A u \in User : UserOK(u)
    <2>1. ASSUME NEW u \in User PROVE UserOK(u)
        <3>1. user[u].at = "user" /\ user[u].call = "none"
            BY <1>1
        <3> QED  BY <1>1, <1>4, <1>7, <3>1 DEF UserOK, FsHas, SysHas, Pending, InCall
    <2> QED  BY <2>1
<1> QED  BY <1>1, <1>2, <1>3, <1>5, <1>6, <1>7, <1>8, <1>9, <1>10, <1>11, <1>12, <1>13
         DEF TaskInv, DriverInv, CallerInv

LEMMA TaskNext ==
    ASSUME TaskInv, [Next]_vars
    PROVE  TaskInv'
<1>1. CASE UNCHANGED vars
    <2>1. UNCHANGED ipcVars /\ UNCHANGED <<ticks, disk, hd, passed, sys, fs, user, harmed>>
        BY <1>1 DEF vars, hdVars
    <2>2. /\ \A q \in Proc : Kept(q)
          /\ TableOK => TableOK'
          /\ has_int_msg' = has_int_msg /\ halted' = halted
        BY <2>1, AllKept
    <2>3. CommandsComplete' /\ TimeoutExact'
        BY <2>1, <2>2 DEF TaskInv, CommandsComplete, TimeoutExact
    <2>4. ASSUME DriverInv PROVE DriverInv'
        BY <2>1, <2>2, <2>4, ProcFacts, HdStays, DiskStays, SysStays, FsStays, MailStays, TimeStays
           DEF DriverInv, TasksPair, HdSysTypeOK, Kept, EntryKept
    <2> QED  BY <2>2, <2>3, <2>4 DEF TaskInv
<1>2. CASE Next /\ halted # "no"
    BY <1>2, HaltedNext DEF TaskInv, CommandsComplete, TimeoutExact
<1>3. CASE Next /\ halted = "no" /\ halted' = "no"
    <2>1. DriverInv'
        BY <1>3, DriverNext DEF TaskInv
    <2>2. CommandsComplete'
        BY <2>1 DEF DriverInv, DiskOK, Quiet, CommandsComplete
    <2> QED  BY <1>3, <2>1, <2>2 DEF TaskInv, TimeoutExact
<1>4. CASE Next /\ halted = "no" /\ halted' # "no"
    BY <1>4, HaltingNext DEF TaskInv
<1> QED  BY <1>1, <1>2, <1>3, <1>4

THEOREM TaskInvariant == Spec => []TaskInv
<1>1. Init => TaskInv
    BY TaskInit
<1>2. TaskInv /\ [Next]_vars => TaskInv'
    BY TaskNext
<1> QED  BY <1>1, <1>2, PTL DEF Spec

(* Between two commands HD and the disk agree, whatever kill does.         *)
THEOREM CommandsAreComplete == Spec => []CommandsComplete
<1>1. TaskInv => CommandsComplete
    BY DEF TaskInv
<1> QED  BY <1>1, TaskInvariant, PTL

(* HD panics only after HD_TIMEOUT, for any frequency of the clock and any *)
(* number at which its counter starts again.                               *)
THEOREM TimeoutIsExact == Spec => []TimeoutExact
<1>1. TaskInv => TimeoutExact
    BY DEF TaskInv
<1> QED  BY <1>1, TaskInvariant, PTL

-----------------------------------------------------------------------------
(* IPC stops the kernel neither with an assertion nor with the panic of     *)
(* deadlock(), while kill has done no harm.                                 *)

\* The entry of a process is one that IPC, or kill, may leave behind.
Formed(p) ==
    Unblocked(p) \/ Killed(p) \/ (\E d \in Proc : SendsTo(p, d)) \/ \E s \in Source : Awaiting(p, s)

LEMMA AllFormed ==
    ASSUME DriverInv, CallerInv, NEW p \in Proc
    PROVE  Formed(p)
<1> USE ProcFacts
<1>0. HdOK /\ SysOK /\ FsOK
    BY DEF DriverInv
<1>1. CASE p = HD
    BY <1>0, <1>1 DEF HdOK, HdAtPlace, Formed, Source
<1>2. CASE p = SYS
    BY <1>0, <1>2 DEF SysOK, SysAtPlace, Formed, Source
<1>3. CASE p = FS
    BY <1>0, <1>3 DEF FsOK, FsAtPlace, Formed, Source
<1>4. CASE p \in User
    <2>1. UserOK(p)
        BY <1>4 DEF CallerInv
    <2>2. Server(user[p].call) \in Proc
        BY DEF Server
    <2> QED  BY <2>1, <2>2 DEF UserOK, Formed, Source
<1> QED  BY <1>1, <1>2, <1>3, <1>4

\* The entry of a process that waits to send, or to receive.
LEMMA FormedIs ==
    ASSUME NEW p \in Proc, Formed(p)
    PROVE  /\ p_flags[p] = {} => Unblocked(p)
           /\ Sending(p) => SendsTo(p, p_sendto[p])
           /\ Receiving(p) => Awaiting(p, p_recvfrom[p])
BY DEF Formed, Unblocked, Killed, SendsTo, Awaiting, Sending, Receiving

Runs == halted = "no" /\ QueueExact /\ NoneMissed

\* What moves nobody but p and d and lets none of them wait.
LEMMA NoneMissedStays ==
    ASSUME NoneMissed, NEW p \in Proc, NEW d \in Proc, Unblocked(p)', Unblocked(d)',
           \A q \in Proc \ {p, d} : Kept(q)
    PROVE  NoneMissed'
<1> SUFFICES ASSUME NEW q \in Proc, NEW e \in Proc, SendsTo(q, e)', Awaits(e, q)' PROVE FALSE
    BY DEF NoneMissed
<1>1. q \notin {p, d} /\ e \notin {p, d}
    BY AllApart DEF Apart, Awaits
<1>2. SendsTo(q, e) /\ Awaits(e, q)
    BY <1>1 DEF Kept, EntryKept, Awaits, Receiving
<1> QED  BY <1>2 DEF NoneMissed

LEMMA SendRuns ==
    ASSUME DriverInv, CallerInv, NEW p \in Proc, NEW d \in Proc, NEW m \in Mail, MsgSend(p, d, m),
           NEW S \in SUBSET Proc, d \in S, p \notin S,
           \A q \in S, e \in Proc : SendsTo(q, e) => e \in S
    PROVE  Runs'
<1> USE ProcFacts
<1>0. TableOK /\ QueueExact /\ NoneMissed
    BY DEF DriverInv, CallerInv
<1>1. p # d /\ halted = "no" /\ Unblocked(p)
    BY AllFormed, FormedIs DEF MsgSend, Runnable
<1>2. ~Deadlock(p, d)
    <2>1. \A q \in S : Sending(q) => p_sendto[q] \in S
        <3>1. ASSUME NEW q \in S, Sending(q) PROVE p_sendto[q] \in S
            <4>1. SendsTo(q, p_sendto[q])
                BY <3>1, AllFormed, FormedIs
            <4>2. p_sendto[q] \in Proc
                <5>1. PICK e \in Proc : SendsTo(q, e)
                    BY <3>1, <4>1, AllFormed, AllApart DEF Formed, Apart, Killed, Sending
                <5> QED  BY <5>1 DEF SendsTo
            <4> QED  BY <4>1, <4>2
        <3> QED  BY <3>1
    <2> QED  BY <2>1 DEF Deadlock
<1>3. Awaits(d, p) => Awaiting(d, p_recvfrom[d])
    BY AllFormed, FormedIs DEF Awaits
<1>4. halted' = "no"
    <2>1. CASE SendDeliver(p, d, m)
        <3>1. /\ p_msg[d] /\ p_sendto[d] = NO_TASK /\ p_flags[d] = {"RECEIVING"}
              /\ p_flags' = [p_flags EXCEPT ![d] = @ \ {"RECEIVING"}]
            BY <1>3, <2>1 DEF SendDeliver, Awaiting
        <3>2. p_flags'[d] = {}
            BY <1>0, <3>1 DEF TableOK
        <3> QED  BY <1>1, <2>1, <3>1, <3>2 DEF SendDeliver, Asserting, Unblocked
    <2>2. CASE SendBlock(p, d, m)
        <3>1. p_flags' = [p_flags EXCEPT ![p] = @ \cup {"SENDING"}]
            BY <2>2 DEF SendBlock, BlockSender
        <3>2. p_flags'[p] = {"SENDING"}
            BY <1>0, <1>1, <3>1 DEF TableOK, Unblocked
        <3> QED  BY <1>1, <2>2, <3>2 DEF SendBlock, BlockSender, Asserting, Unblocked
    <2> QED  BY <1>2, <2>1, <2>2 DEF MsgSend, SendPanic
<1>5. /\ \A q \in Proc \ {p, d} : Kept(q)
      /\ Handed(p, d, m) \/ Queued(p, d, m)
    BY <1>0, <1>4, SendIs
<1>6. NoneMissed'
    <2>1. CASE Handed(p, d, m)
        <3>1. Unblocked(p)' /\ Unblocked(d)'
            BY <2>1 DEF Handed
        <3> QED  BY <1>0, <1>5, <3>1, NoneMissedStays
    <2>2. CASE Queued(p, d, m)
        <3>1. ~Awaits(d, p) /\ SendsTo(p, d)' /\ Kept(d)
            BY <2>2 DEF Queued
        <3>2. ASSUME NEW q \in Proc, NEW e \in Proc, SendsTo(q, e)', Awaits(e, q)' PROVE FALSE
            <4>1. e # p
                BY <3>1, <3>2, AllApart DEF Apart, Awaits
            <4>2. Awaits(e, q)
                BY <1>5, <3>1, <3>2, <4>1 DEF Kept, EntryKept, Awaits, Receiving
            <4>3. CASE q = p
                BY <3>1, <3>2, <4>2, <4>3, AllApart DEF Apart
            <4>4. CASE q # p
                BY <1>0, <1>5, <3>1, <3>2, <4>2, <4>4 DEF Kept, EntryKept, NoneMissed
            <4> QED  BY <4>3, <4>4
        <3> QED  BY <3>2 DEF NoneMissed
    <2> QED  BY <1>5, <2>1, <2>2
<1>7. QueueExact'
    <2>1. CASE SendDeliver(p, d, m)
        <3>1. p_sendto' = p_sendto /\ q_sending' = q_sending
            BY <2>1 DEF SendDeliver
        <3>2. p_flags' = [p_flags EXCEPT ![d] = @ \ {"RECEIVING"}]
            BY <2>1 DEF SendDeliver
        <3>3. \A q \in Proc : (Sending(q) <=> Sending(q)')
            BY <1>0, <3>2 DEF TableOK, Sending
        <3> QED  BY <1>0, <3>1, <3>3 DEF QueueExact
    <2>2. CASE SendBlock(p, d, m)
        <3>0. /\ q_sending' = [q_sending EXCEPT ![d] = Append(@, p)]
              /\ p_flags' = [p_flags EXCEPT ![p] = @ \cup {"SENDING"}]
              /\ p_sendto' = [p_sendto EXCEPT ![p] = d]
            BY <2>2 DEF SendBlock, BlockSender
        <3>1. /\ Sending(p)' /\ p_sendto'[p] = d /\ ~Sending(p)
              /\ \A q \in Proc \ {p} : (Sending(q)' <=> Sending(q)) /\ p_sendto'[q] = p_sendto[q]
            BY <1>0, <1>1, <3>0 DEF TableOK, Sending, Unblocked
        <3>2. \A e \in Proc : /\ ToSet(q_sending[e]) = {q \in Proc : Sending(q) /\ p_sendto[q] = e}
                              /\ IsInjective(q_sending[e]) /\ q_sending[e] \in Seq(Proc)
            BY <1>0 DEF TableOK, QueueExact
        <3>3. p \notin ToSet(q_sending[d])
            BY <3>1, <3>2
        <3>4. /\ ToSet(Append(q_sending[d], p)) = ToSet(q_sending[d]) \cup {p}
              /\ IsInjective(Append(q_sending[d], p))
            BY <3>2, <3>3, QueueAppend
        <3>5. /\ q_sending'[d] = Append(q_sending[d], p)
              /\ \A e \in Proc \ {d} : q_sending'[e] = q_sending[e]
            BY <1>0, <3>0 DEF TableOK
        <3>6. ASSUME NEW e \in Proc
              PROVE  /\ ToSet(q_sending'[e]) = {q \in Proc : Sending(q)' /\ p_sendto'[q] = e}
                     /\ IsInjective(q_sending'[e])
            <4>1. CASE e = d
                <5>1. {q \in Proc : Sending(q)' /\ p_sendto'[q] = d}
                        = {q \in Proc : Sending(q) /\ p_sendto[q] = d} \cup {p}
                    BY <3>1
                <5> QED  BY <4>1, <5>1, <3>2, <3>4, <3>5
            <4>2. CASE e # d
                <5>1. {q \in Proc : Sending(q)' /\ p_sendto'[q] = e}
                        = {q \in Proc : Sending(q) /\ p_sendto[q] = e}
                    BY <4>2, <3>1
                <5> QED  BY <4>2, <5>1, <3>2, <3>5
            <4> QED  BY <4>1, <4>2
        <3> QED  BY <3>6 DEF QueueExact
    <2> QED  BY <1>2, <2>1, <2>2 DEF MsgSend, SendPanic
<1> QED  BY <1>4, <1>6, <1>7 DEF Runs

LEMMA ReceiveRuns ==
    ASSUME DriverInv, CallerInv, NEW p \in Proc, NEW src \in Source, MsgReceive(p, src),
           src \in Proc => ~has_int_msg[p]
    PROVE  Runs'
<1> USE ProcFacts
<1>0. TableOK /\ QueueExact /\ NoneMissed
    BY DEF DriverInv, CallerInv
<1>1. p # src /\ halted = "no" /\ Unblocked(p)
    BY AllFormed, FormedIs DEF MsgReceive, Runnable
<1>2. \A e \in Proc : /\ ToSet(q_sending[e]) = {q \in Proc : Sending(q) /\ p_sendto[q] = e}
                      /\ IsInjective(q_sending[e]) /\ q_sending[e] \in Seq(Proc)
    BY <1>0 DEF TableOK, QueueExact
<1>3. /\ \A i \in DOMAIN q_sending[p] : q_sending[p][i] \in Proc /\ SendsTo(q_sending[p][i], p)
      /\ \A q \in Proc : SendsTo(q, p) => \E i \in DOMAIN q_sending[p] : q_sending[p][i] = q
    <2>1. \A q \in Proc : Sending(q) /\ p_sendto[q] = p => SendsTo(q, p)
        BY AllFormed, FormedIs
    <2>2. \A q \in Proc : SendsTo(q, p) => Sending(q) /\ p_sendto[q] = p
        BY AllApart DEF Apart
    <2> QED  BY <1>2, <2>1, <2>2 DEF ToSet
<1>4. CASE ReceiveInt(p, src)
    <2>1. halted' = "no"
        BY <1>1, <1>4 DEF ReceiveInt, Asserting, Unblocked
    <2>2. UNCHANGED <<p_flags, p_sendto, p_recvfrom, p_msg, q_sending>>
        BY <1>4 DEF ReceiveInt
    <2>3. QueueExact' /\ NoneMissed'
        BY <1>0, <2>2 DEF QueueExact, NoneMissed, SendsTo, Awaits, Sending, Receiving
    <2> QED  BY <2>1, <2>3 DEF Runs
<1>5. ASSUME NEW i \in DOMAIN q_sending[p], ReceiveTake(p, src, i) PROVE Runs'
    <2>0. PICK q \in Proc : q = q_sending[p][i]
        BY <1>3
    <2>1. SendsTo(q, p) /\ q # p
        BY <1>1, <1>3, <2>0, AllApart DEF Apart
    <2>3. /\ p_sendto' = [p_sendto EXCEPT ![q] = NO_TASK]
          /\ p_flags' = [p_flags EXCEPT ![q] = @ \ {"SENDING"}]
          /\ q_sending' = [q_sending EXCEPT ![p] = RemoveAt(@, i)]
        BY <1>5, <2>0 DEF ReceiveTake, TakeFrom, Unlink
    <2>4. halted' = "no"
        BY <1>1, <1>5, <2>0, <2>1 DEF ReceiveTake, TakeFrom, Asserting, SendsTo, Unblocked
    <2>5. NoneMissed'
        <3>1. PICK r \in Proc : Took(p, r, src)
            <4>1. ~Awaiting(p, src)'
                <5>1. p_flags'[p] = {}
                    BY <1>0, <1>1, <2>1, <2>3 DEF TableOK, Unblocked
                <5> QED  BY <5>1 DEF Awaiting
            <4>2. ~TookInt(p, src)
                BY <1>5 DEF TookInt, ReceiveTake, TakesInt
            <4> QED  BY <1>0, <2>4, <4>1, <4>2, ReceiveIs DEF Blocks
        <3>2. Unblocked(p)' /\ Unblocked(r)' /\ \A e \in Proc \ {p, r} : Kept(e)
            BY <3>1 DEF Took
        <3> QED  BY <1>0, <3>2, NoneMissedStays
    <2>7. QueueExact'
        <3>1. /\ Sending(q) /\ ~Sending(q)' /\ p_sendto[q] = p
              /\ \A r \in Proc \ {q} : (Sending(r)' <=> Sending(r)) /\ p_sendto'[r] = p_sendto[r]
            BY <1>0, <2>1, <2>3 DEF Sending, SendsTo, TableOK
        <3>2. /\ ToSet(RemoveAt(q_sending[p], i)) = ToSet(q_sending[p]) \ {q}
              /\ IsInjective(RemoveAt(q_sending[p], i))
            BY <1>2, <2>0, QueueRemove
        <3>3. /\ q_sending'[p] = RemoveAt(q_sending[p], i)
              /\ \A e \in Proc \ {p} : q_sending'[e] = q_sending[e]
            BY <1>0, <2>3 DEF TableOK
        <3>4. ASSUME NEW e \in Proc
              PROVE  /\ ToSet(q_sending'[e]) = {r \in Proc : Sending(r)' /\ p_sendto'[r] = e}
                     /\ IsInjective(q_sending'[e])
            <4>1. CASE e = p
                <5>1. {r \in Proc : Sending(r)' /\ p_sendto'[r] = p}
                        = {r \in Proc : Sending(r) /\ p_sendto[r] = p} \ {q}
                    BY <3>1
                <5> QED  BY <4>1, <5>1, <1>2, <3>2, <3>3
            <4>2. CASE e # p
                <5>1. {r \in Proc : Sending(r)' /\ p_sendto'[r] = e}
                        = {r \in Proc : Sending(r) /\ p_sendto[r] = e}
                    BY <4>2, <3>1
                <5> QED  BY <4>2, <5>1, <1>2, <3>3
            <4> QED  BY <4>1, <4>2
        <3> QED  BY <3>4 DEF QueueExact
    <2> QED  BY <2>4, <2>5, <2>7 DEF Runs
<1>6. CASE ReceiveBlock(p, src)
    <2>1. \A r \in Proc : ~(SendsTo(r, p) /\ src \in {ANY, r})
        <3>1. ASSUME NEW r \in Proc, SendsTo(r, p), src \in {ANY, r} PROVE FALSE
            <4>1. PICK i \in DOMAIN q_sending[p] : q_sending[p][i] = r
                BY <3>1, <1>3
            <4>2. Sending(r) /\ p_sendto[r] = p
                BY <3>1 DEF SendsTo, Sending
            <4>3. CASE src = ANY
                <5>1. 1 \in DOMAIN q_sending[p]
                    BY <4>1, <1>2, LenProperties
                <5> QED  BY <4>3, <5>1, <1>6 DEF ReceiveBlock, Picks
            <4>4. CASE src # ANY
                BY <4>1, <4>2, <4>4, <3>1, <1>6 DEF ReceiveBlock, Picks
            <4> QED  BY <4>3, <4>4
        <3> QED  BY <3>1
    <2>2. ~has_int_msg[p]
        BY <1>6 DEF ReceiveBlock, TakesInt, Source
    <2>3. /\ p_flags' = [p_flags EXCEPT ![p] = @ \cup {"RECEIVING"}]
          /\ UNCHANGED <<p_sendto, q_sending>>
        BY <1>6 DEF ReceiveBlock, BlockReceiver
    <2>4. p_flags'[p] = {"RECEIVING"} /\ \A q \in Proc : Sending(q)' <=> Sending(q)
        BY <1>0, <1>1, <2>3 DEF TableOK, Sending, Unblocked
    <2>5. halted' = "no"
        BY <1>1, <1>6, <2>2, <2>4 DEF ReceiveBlock, BlockReceiver, Asserting, Unblocked
    <2>6. QueueExact'
        BY <1>0, <2>3, <2>4 DEF QueueExact
    <2>7. Blocks(p, src)
        <3>1. ~Unblocked(p)' /\ ~TookInt(p, src)
            BY <2>2, <2>4 DEF Unblocked, TookInt
        <3> QED  BY <1>0, <2>5, <3>1, ReceiveIs DEF Took
    <2>8. NoneMissed'
        <3>1. ASSUME NEW q \in Proc, NEW e \in Proc, SendsTo(q, e)', Awaits(e, q)' PROVE FALSE
            <4>1. Awaiting(p, src)' /\ \A r \in Proc \ {p} : Kept(r)
                BY <2>7 DEF Blocks
            <4>2. q # p /\ SendsTo(q, e)
                BY <3>1, <4>1, AllApart DEF Apart, Kept, EntryKept
            <4>3. CASE e = p
                BY <2>1, <3>1, <4>1, <4>2, <4>3, AllApart DEF Apart, Awaits
            <4>4. CASE e # p
                BY <1>0, <3>1, <4>1, <4>2, <4>4 DEF Kept, EntryKept, NoneMissed, Awaits, Receiving
            <4> QED  BY <4>3, <4>4
        <3> QED  BY <3>1 DEF NoneMissed
    <2> QED  BY <2>5, <2>6, <2>8 DEF Runs
<1> QED  BY <1>4, <1>5, <1>6 DEF MsgReceive

\* Who is served is no sender, and is in a call.
LEMMA Served ==
    ASSUME CallerInv, NEW u \in User, FsHas(u) \/ SysHas(u)
    PROVE  Pending(u) /\ InCall(u) /\ \A d : ~SendsTo(u, d)
<1>1. Pending(u)
    BY DEF CallerInv, UserOK
<1> QED  BY <1>1, AllApart, ProcFacts DEF Pending, Apart

\* A send to one that is no sender closes no circle.
LEMMA SendToOne ==
    ASSUME DriverInv, CallerInv, NEW p \in Proc, NEW d \in Proc, NEW m \in Mail, MsgSend(p, d, m),
           \A e : ~SendsTo(d, e)
    PROVE  Runs'
<1>1. p # d
    BY DEF MsgSend
<1> DEFINE S == {d}
<1>2. S \in SUBSET Proc /\ d \in S /\ p \notin S /\ \A q \in S, e \in Proc : SendsTo(q, e) => e \in S
    BY <1>1
<1> HIDE DEF S
<1> QED  BY <1>2, SendRuns

LEMMA RunsStay ==
    ASSUME CallerInv, halted = "no", UNCHANGED ipcVars
    PROVE  Runs'
BY DEF CallerInv, Runs, ipcVars, QueueExact, NoneMissed, SendsTo, Awaits, Sending, Receiving

LEMMA AskTicksRuns ==
    ASSUME DriverInv, CallerInv, AskTicks, hd.at \in {"command", "sector", "began", "look again"}
    PROVE  Runs'
<1> USE ProcFacts
<1>0. HdOK /\ SysOK /\ FsOK /\ TasksPair /\ HdSysTypeOK
    BY DEF DriverInv
<1>1. MsgSend(HD, SYS, Msg("GET_TICKS", 0)) /\ Msg("GET_TICKS", 0) \in Mail
    BY DEF AskTicks, Mail, Msg
<1>2. Unblocked(HD)
    BY <1>0, <1>1, TasksRun DEF MsgSend, Runnable
<1>3. ~HdFree /\ ~HdAsks /\ ~SysHasHd
    BY <1>0, <1>2, HdFreeIs DEF TasksPair
<1> DEFINE S == {SYS, FS} \cup {u \in User : Pending(u)}
<1>4. ASSUME NEW e \in Proc, SendsTo(SYS, e) PROVE e \in S
    <2>1. e # HD
        BY <1>3, <1>4 DEF SysHasHd
    <2>2. e \in User => SysHas(e)
        BY <1>4 DEF SysHas
    <2> QED  BY <1>0, <1>4, <2>1, <2>2, SysIs, Served
<1>5. ASSUME NEW e \in Proc, SendsTo(FS, e) PROVE FALSE
    BY <1>0, <1>3, <1>5, FsIs
<1>6. ASSUME NEW u \in User, Pending(u), NEW e \in Proc, SendsTo(u, e) PROVE FALSE
    BY <1>6, AllApart DEF Pending, Apart
<1>7. \A q \in S, e \in Proc : SendsTo(q, e) => e \in S
    BY <1>4, <1>5, <1>6
<1>8. S \in SUBSET Proc /\ SYS \in S /\ HD \notin S
    OBVIOUS
<1> HIDE DEF S
<1>9. PICK m \in Mail : MsgSend(HD, SYS, m)
    BY <1>1
<1> QED  BY <1>7, <1>8, <1>9, SendRuns

LEMMA HdRuns ==
    ASSUME DriverInv, CallerInv, TaskHd
    PROVE  Runs' \/ halted' = "hd"
<1> USE ProcFacts
<1>0. HdOK /\ SysOK /\ FsOK /\ TasksPair /\ DiskOK /\ HdSysTypeOK
    BY DEF DriverInv
<1>1. CASE HdDispatch \/ HdLook \/ HdCmdOut \/ HdPortWrite \/ HdSectorDone
    <2>1. UNCHANGED ipcVars /\ halted = "no"
        BY <1>1 DEF HdDispatch, HdLook, HdCmdOut, HdPortWrite, HdSectorDone, HdAt, Runnable
    <2> QED  BY <2>1, RunsStay
<1>2. CASE HdWaitfor \/ HdAgain \/ HdLookAgain
    <2>1. AskTicks /\ hd.at \in {"command", "sector", "began", "look again"}
        BY <1>2 DEF HdWaitfor, HdAgain, HdLookAgain, Polls
    <2> QED  BY <2>1, AskTicksRuns
<1>3. CASE HdReceive
    <2>1. ANY \in Source /\ ANY \notin Proc /\ MsgReceive(HD, ANY)
        BY <1>3 DEF Source, HdReceive
    <2> QED  BY <2>1, ReceiveRuns
<1>4. CASE HdTicks
    <2>1. SYS \in Source /\ MsgReceive(HD, SYS) /\ hd.at \in {"begin", "asked"}
        BY <1>4 DEF Source, HdTicks
    <2>2. ~has_int_msg[HD]
        BY <1>0, <2>1 DEF DiskOK, Quiet, Writing, Polling
    <2> QED  BY <2>1, <2>2, ReceiveRuns
<1>5. CASE HdInterruptWait
    <2>1. INTERRUPT \in Source /\ INTERRUPT \notin Proc /\ MsgReceive(HD, INTERRUPT)
        BY <1>5 DEF Source, HdInterruptWait
    <2> QED  BY <2>1, ReceiveRuns
<1>6. CASE HdReply
    <2>1. MsgSend(HD, hd.src, Nothing) /\ hd.src = FS /\ hd.at = "command" /\ Nothing \in Mail
        BY <1>0, <1>6 DEF HdReply, HdOK, Nothing, Mail, Msg
    <2>2. ~HdFree
        BY <1>0, <2>1, TasksRun, HdFreeIs DEF MsgSend, Runnable
    <2>3. \A e : ~SendsTo(FS, e)
        BY <1>0, <2>2, FsIs
    <2> QED  BY <2>1, <2>3, SendToOne
<1>7. CASE HdPanic
    BY <1>7 DEF HdPanic
<1> QED  BY <1>1, <1>2, <1>3, <1>4, <1>5, <1>6, <1>7 DEF TaskHd

LEMMA SysCloseRuns ==
    ASSUME DriverInv, CallerInv, SysClose
    PROVE  Runs'
<1> USE ProcFacts
<1>0. HdOK /\ SysOK /\ FsOK /\ TasksPair /\ HdSysTypeOK
    BY DEF DriverInv
<1>1. /\ MsgSend(SYS, FS, Msg("CLOSE", 0)) /\ Msg("CLOSE", 0) \in Mail
      /\ sys.at = "dispatch" /\ Is(SYS, "KILL_PROC") /\ p_flags[SYS] = {}
    BY DEF SysClose, Mail, Msg, MsgSend, Runnable
<1>2. ~SysAsks /\ ~FsHasSys
    BY <1>0, <1>1, SysKillRequest DEF TasksPair
<1> DEFINE S == {FS} \cup {u \in User : Pending(u)} \cup (IF HdFree THEN {HD} ELSE {})
<1>3. ASSUME NEW e \in Proc, SendsTo(FS, e) PROVE e \in S
    <2>1. e # SYS
        BY <1>2, <1>3 DEF FsHasSys
    <2>2. e \in User => FsHas(e)
        BY <1>3 DEF FsHas
    <2>3. HdFree /\ e \in User \cup {HD}
        BY <1>0, <1>3, <2>1, FsIs
    <2> QED  BY <2>2, <2>3, Served
<1>4. ASSUME NEW e \in Proc, HdFree, SendsTo(HD, e) PROVE FALSE
    BY <1>0, <1>4, HdFreeIs
<1>5. ASSUME NEW u \in User, Pending(u), NEW e \in Proc, SendsTo(u, e) PROVE FALSE
    BY <1>5, AllApart DEF Pending, Apart
<1>6. \A q \in S, e \in Proc : SendsTo(q, e) => e \in S
    BY <1>3, <1>4, <1>5
<1>7. S \in SUBSET Proc /\ FS \in S /\ SYS \notin S
    OBVIOUS
<1> HIDE DEF S
<1>8. PICK m \in Mail : MsgSend(SYS, FS, m)
    BY <1>1
<1> QED  BY <1>6, <1>7, <1>8, SendRuns

\* SYS at an answer: to HD, which asked it, or to a process in a call.
LEMMA SysAnswerTo ==
    ASSUME DriverInv, sys.at = "dispatch", p_flags[SYS] = {}
    PROVE  /\ Unblocked(SYS)
           /\ (buf[SYS].source = HD /\ SysHasHd) \/ (buf[SYS].source \in User /\ ~SysHasHd)
           /\ \A u \in User : SysHas(u) <=> buf[SYS].source = u
<1> USE ProcFacts
<1>0. HdOK /\ SysOK /\ FsOK
    BY DEF DriverInv
<1>1. Unblocked(SYS)
    BY <1>0, TasksRun
<1>2. ~Awaiting(SYS, ANY) /\ \A d : ~SendsTo(SYS, d)
    BY <1>1, AllApart DEF Apart
<1>3. buf[SYS].source = HD \/ buf[SYS].source \in User
    <2>1. \/ buf[SYS] = Letter(HD, Msg("GET_TICKS", 0))
          \/ \E u \in User, m \in SysRequest : buf[SYS] = Letter(u, m)
        BY <1>0, <1>2 DEF SysOK, SysAtPlace
    <2>2. ASSUME NEW u \in User, NEW m, buf[SYS] = Letter(u, m) PROVE buf[SYS].source \in User
        BY <2>2 DEF Letter
    <2>3. ASSUME buf[SYS] = Letter(HD, Msg("GET_TICKS", 0)) PROVE buf[SYS].source = HD
        BY <2>3 DEF Letter
    <2> QED  BY <2>1, <2>2, <2>3
<1> QED  BY <1>1, <1>2, <1>3 DEF SysHasHd, SysHas

LEMMA SysRuns ==
    ASSUME DriverInv, CallerInv, TaskSys, ~harmed'
    PROVE  Runs'
<1> USE ProcFacts
<1>0. TableOK /\ HdOK /\ SysOK /\ FsOK /\ TasksPair
    BY DEF DriverInv
<1>1. CASE SysReceive
    <2>1. ANY \in Source /\ ANY \notin Proc /\ MsgReceive(SYS, ANY)
        BY <1>1 DEF Source, SysReceive
    <2> QED  BY <2>1, ReceiveRuns
<1>2. CASE SysAnswer
    <2>1. /\ MsgSend(SYS, buf[SYS].source, Msg("SYSCALL_RET", ticks))
          /\ sys.at = "dispatch" /\ p_flags[SYS] = {}
        BY <1>2 DEF SysAnswer, MsgSend, Runnable
    <2>2. Msg("SYSCALL_RET", ticks) \in Mail
        BY DriverTypes, TimeLimits DEF Mail, Msg
    <2>3. PICK d \in Proc, m \in Mail : d = buf[SYS].source /\ m = Msg("SYSCALL_RET", ticks)
        BY <2>1, <2>2, SysAnswerTo
    <2>4. CASE d = HD
        <3>1. HdAsks
            BY <1>0, <2>1, <2>3, <2>4, SysAnswerTo DEF TasksPair
        <3>2. \A e : ~SendsTo(HD, e)
            BY <3>1, AllApart DEF HdAsks, Apart
        <3> QED  BY <2>1, <2>3, <2>4, <3>2, SendToOne
    <2>5. CASE d # HD
        <3>1. d \in User /\ SysHas(d)
            BY <2>1, <2>3, <2>5, SysAnswerTo
        <3> QED  BY <2>1, <2>3, <3>1, SendToOne, Served
    <2> QED  BY <2>4, <2>5
<1>3. CASE SysClose
    BY <1>3, SysCloseRuns
<1>4. CASE SysClosed
    <2>1. FS \in Source /\ MsgReceive(SYS, FS) /\ ~has_int_msg[SYS]
        BY <1>0, <1>4 DEF Source, SysClosed, TableOK
    <2> QED  BY <2>1, ReceiveRuns
<1>5. CASE SysHang
    <2>1. PICK v \in User : v = Victim
        BY <1>5, SysHangStep
    <2>2. user[v].at = "user"
        BY <1>5, <2>1 DEF SysHang
    <2>3. Unblocked(v) \/ Killed(v)
        BY <2>2 DEF CallerInv, UserOK
    <2>4. /\ p_flags' = [p_flags EXCEPT ![v] = {"HANGING"}]
          /\ UNCHANGED <<p_sendto, p_recvfrom, q_sending, halted>> /\ halted = "no"
        BY <1>5, <2>1 DEF SysHang, Runnable
    <2>5. \A q \in Proc : (Sending(q)' <=> Sending(q)) /\ (Receiving(q)' <=> Receiving(q))
        BY <1>0, <2>3, <2>4 DEF TableOK, Sending, Receiving, Unblocked, Killed
    <2>6. \A q, d \in Proc : SendsTo(q, d)' => SendsTo(q, d)
        <3>1. ASSUME NEW q \in Proc, NEW d \in Proc, SendsTo(q, d)' PROVE SendsTo(q, d)
            <4>1. q # v
                BY <1>0, <2>4, <3>1 DEF TableOK, SendsTo
            <4> QED  BY <1>5, <2>1, <3>1, <4>1, SysHangStep DEF Kept, EntryKept
        <3> QED  BY <3>1
    <2>7. QueueExact' /\ NoneMissed'
        BY <2>4, <2>5, <2>6 DEF CallerInv, QueueExact, NoneMissed, Awaits
    <2> QED  BY <2>4, <2>7 DEF Runs
<1>6. CASE SysKilled
    <2>1. /\ MsgSend(SYS, sys.src, Msg("SYSCALL_RET", 0)) /\ Msg("SYSCALL_RET", 0) \in Mail
          /\ sys.at = "killed"
        BY <1>6 DEF SysKilled, Mail, Msg
    <2>2. sys.src \in User
        BY <1>0, <2>1 DEF SysOK
    <2>3. PICK d \in User, m \in Mail : d = sys.src /\ MsgSend(SYS, d, m)
        BY <2>1, <2>2
    <2>4. SysHas(d)
        BY <2>1, <2>3 DEF SysHas
    <2> QED  BY <2>3, <2>4, SendToOne, Served
<1> QED  BY <1>1, <1>2, <1>3, <1>4, <1>5, <1>6 DEF TaskSys

\* FS at a call.
LEMMA FsServes ==
    ASSUME DriverInv, Working, p_flags[FS] = {}
    PROVE  /\ Caller \in User
           /\ \A u \in User : FsHas(u) <=> Caller = u
<1>1. Unblocked(FS) /\ Caller \in User
    BY FsWorking
<1>2. \A d : ~SendsTo(FS, d)
    BY <1>1, AllApart, ProcFacts DEF Apart
<1> QED  BY <1>1, <1>2 DEF FsHas, Working, Caller

LEMMA FsRuns ==
    ASSUME DriverInv, CallerInv, TaskFs, ~harmed'
    PROVE  Runs'
<1> USE ProcFacts
<1>0. TableOK /\ HdOK /\ SysOK /\ FsOK /\ TasksPair /\ HdSysTypeOK
    BY DEF DriverInv
<1>1. CASE FsReceive
    <2>1. ANY \in Source /\ ANY \notin Proc /\ MsgReceive(FS, ANY)
        BY <1>1 DEF Source, FsReceive
    <2> QED  BY <2>1, ReceiveRuns
<1>2. CASE FsGot
    <2>1. HD \in Source /\ MsgReceive(FS, HD) /\ ~has_int_msg[FS]
        BY <1>0, <1>2 DEF Source, FsGot, TableOK
    <2> QED  BY <2>1, ReceiveRuns
<1>3. CASE FsBoot \/ FsRdwt
    <2>1. PICK m \in HdRequest : MsgSend(FS, HD, m)
        BY <1>3 DEF FsBoot, FsRdwt, FsAsk, HdRequest, Transfer
    <2>2. fs.at # "asked" /\ p_flags[FS] = {}
        BY <1>3, <2>1 DEF FsBoot, FsRdwt, Working, MsgSend, Runnable
    <2>3. HdFree
        BY <1>0, <2>2, TasksRun, FsIs
    <2>4. m \in Mail
        BY HdSysAssumption DEF HdRequest, Transfer, Mail, Msg
    <2>5. \A e : ~SendsTo(HD, e)
        BY <1>0, <2>3, HdFreeIs
    <2> QED  BY <2>1, <2>4, <2>5, SendToOne
<1>4. CASE FsReply
    <2>1. Working /\ MsgSend(FS, Caller, Nothing) /\ p_flags[FS] = {} /\ Nothing \in Mail
        BY <1>4 DEF FsReply, Nothing, Mail, Msg, MsgSend, Runnable
    <2>2. PICK d \in User : d = Caller /\ FsHas(d)
        BY <2>1, FsServes
    <2> QED  BY <2>1, <2>2, SendToOne, Served
<1>5. CASE FsClose
    <2>1. /\ MsgSend(FS, SYS, Nothing) /\ fs.at = "dispatch" /\ Is(FS, "CLOSE")
          /\ p_flags[FS] = {} /\ Nothing \in Mail
        BY <1>5 DEF FsClose, Nothing, Mail, Msg, MsgSend, Runnable
    <2>2. SysAsks
        <3>1. Unblocked(FS) /\ ~Awaiting(FS, ANY)
            BY <1>0, <2>1, TasksRun, AllApart DEF Apart
        <3>2. \A u \in User : buf[FS] # Letter(u, Msg("CALL", 0))
            BY <2>1 DEF Is, Letter, Msg
        <3>3. buf[FS] = Letter(SYS, Msg("CLOSE", 0))
            BY <1>0, <2>1, <3>1, <3>2 DEF FsOK, FsAtPlace
        <3> QED  BY <1>0, <2>1, <3>1, <3>3 DEF FsHasSys, Letter, TasksPair
    <2>3. \A e : ~SendsTo(SYS, e)
        BY <2>2, AllApart DEF SysAsks, Apart
    <2> QED  BY <2>1, <2>3, SendToOne
<1>6. ~FsCloseFails
    BY DEF FsCloseFails
<1> QED  BY <1>1, <1>2, <1>3, <1>4, <1>5, <1>6 DEF TaskFs

LEMMA UserCallRuns ==
    ASSUME DriverInv, CallerInv, NEW u \in User, NEW t, NEW n, UserCall(u, t, n),
           Msg(t, n) \in {Msg("CALL", 0)} \cup SysRequest
    PROVE  Runs'
<1> USE ProcFacts
<1>0. HdOK /\ SysOK /\ FsOK /\ HdSysTypeOK
    BY DEF DriverInv
<1>1. user[u].at = "user" /\ MsgSend(u, Server(t), Msg(t, n))
    BY DEF UserCall
<1>2. Msg(t, n) \in Mail
    <2>1. \A m \in {Msg("CALL", 0)} \cup SysRequest : m \in Mail
        BY HdSysAssumption DEF SysRequest, Mail, Msg
    <2> QED  BY <2>1
<1>3. PICK d \in {FS, SYS}, m \in Mail : MsgSend(u, d, m)
    BY <1>1, <1>2 DEF Server
<1> DEFINE S == {HD, SYS, FS} \cup {v \in User : Pending(v)}
<1>4. ASSUME NEW e \in Proc, SendsTo(HD, e) \/ SendsTo(SYS, e) \/ SendsTo(FS, e)
      PROVE  e \in S
    <2>1. e \in User => ~SendsTo(HD, e)
        BY <1>0, HdFreeIs
    <2>2. e \in User => FsHas(e) \/ SysHas(e)
        BY <1>4, <2>1 DEF FsHas, SysHas
    <2> QED  BY <2>2, Served
<1>5. ASSUME NEW v \in User, Pending(v), NEW e \in Proc, SendsTo(v, e) PROVE FALSE
    BY <1>5, AllApart DEF Pending, Apart
<1>6. \A q \in S, e \in Proc : SendsTo(q, e) => e \in S
    BY <1>4, <1>5
<1>7. S \in SUBSET Proc /\ d \in S /\ u \notin S
    BY <1>1 DEF Pending, InCall
<1> HIDE DEF S
<1> QED  BY <1>3, <1>6, <1>7, SendRuns

LEMMA UserStepRuns ==
    ASSUME DriverInv, CallerInv, NEW u \in User, UserStep(u)
    PROVE  Runs'
<1> USE ProcFacts
<1>0. TableOK
    BY DEF DriverInv
<1>1. CASE UserReceive(u)
    <2>1. PICK d \in {FS, SYS} : MsgReceive(u, d)
        BY <1>1 DEF UserReceive, Server
    <2>2. d \in Source /\ ~has_int_msg[u]
        BY <1>0 DEF Source, TableOK
    <2> QED  BY <2>1, <2>2, ReceiveRuns
<1>2. CASE UserReturn(u)
    <2>1. /\ UNCHANGED <<p_flags, p_sendto, p_recvfrom, p_msg, q_sending, has_int_msg, halted>>
          /\ halted = "no"
        BY <1>2 DEF UserReturn, Runnable
    <2> QED  BY <2>1 DEF CallerInv, Runs, QueueExact, NoneMissed, SendsTo, Awaits, Sending, Receiving
<1> QED  BY <1>1, <1>2 DEF UserStep

LEMMA DiskRuns ==
    ASSUME DriverInv, CallerInv, DiskReady, halted = "no"
    PROVE  Runs'
<1> USE ProcFacts
<1>0. TableOK /\ QueueExact /\ NoneMissed
    BY DEF DriverInv, CallerInv
<1>1. CASE UNCHANGED ipcVars
    BY <1>1, RunsStay
<1>2. CASE InformPend(HD)
    <2>1. UNCHANGED <<p_flags, p_sendto, p_recvfrom, p_msg, q_sending, halted>>
        BY <1>2 DEF InformPend
    <2> QED  BY <1>0, <2>1 DEF Runs, QueueExact, NoneMissed, SendsTo, Awaits, Sending, Receiving
<1>3. CASE InformWake(HD)
    <2>1. /\ Awaits(HD, INTERRUPT)
          /\ p_flags' = [p_flags EXCEPT ![HD] = @ \ {"RECEIVING"}]
          /\ UNCHANGED <<p_sendto, q_sending>>
        BY <1>3 DEF InformWake
    <2>2. Awaiting(HD, p_recvfrom[HD])
        BY <2>1, AllFormed, FormedIs DEF Awaits
    <2>3. p_flags'[HD] = {} /\ \A q \in Proc : Sending(q)' <=> Sending(q)
        BY <1>0, <2>1, <2>2 DEF TableOK, Awaiting, Sending
    <2>4. halted' = "no"
        BY <1>3, <2>2, <2>3 DEF InformWake, Asserting, Awaiting
    <2>5. QueueExact'
        BY <1>0, <2>1, <2>3 DEF QueueExact
    <2>6. InformInt(HD)
        BY <1>3 DEF InformInt
    <2>7. Unblocked(HD)' /\ \A q \in Proc \ {HD} : Kept(q)
        <3>1. ~Kept(HD)
            BY <2>2, <2>3, AllApart DEF Kept, EntryKept, Apart
        <3> QED  BY <1>0, <2>4, <2>6, <3>1, InformIs
    <2>8. NoneMissed'
        BY <1>0, <2>7, NoneMissedStays
    <2> QED  BY <2>4, <2>5, <2>8 DEF Runs
<1> QED  BY <1>1, <1>2, <1>3 DEF DiskReady, InformInt

\* No step halts the kernel but the panic of HD, or after kill did harm.
LEMMA NextRuns ==
    ASSUME DriverInv, CallerInv, Next, halted = "no", ~harmed'
    PROVE  Runs' \/ halted' = "hd"
<1>1. CASE ClockHandler
    BY <1>1, RunsStay DEF ClockHandler
<1>2. CASE \E u \in User : UserCall(u, "CALL", 0) \/ UserCall(u, "GET_PID", 0) \/ UserStep(u)
    <2>1. Msg("GET_PID", 0) \in SysRequest
        BY DEF SysRequest
    <2> QED  BY <1>2, <2>1, UserCallRuns, UserStepRuns
<1>3. CASE \E u, v \in User : UserCall(u, "KILL_PROC", v)
    <2>1. \A v \in User : Msg("KILL_PROC", v) \in SysRequest
        BY DEF SysRequest
    <2> QED  BY <1>3, <2>1, UserCallRuns
<1> QED  BY <1>1, <1>2, <1>3, DiskRuns, HdRuns, SysRuns, FsRuns DEF Next

-----------------------------------------------------------------------------
(* Who is in a call is served by FS or SYS until it has its answer. *)

UserStays(u) ==
    Kept(u) /\ user'[u] = user[u] /\ (FsHas(u)' <=> FsHas(u)) /\ (SysHas(u)' <=> SysHas(u))

LEMMA UserKept ==
    ASSUME NEW u \in User, UserOK(u), UserStays(u)
    PROVE  UserOK(u)'
<1>1. /\ Unblocked(u)' <=> Unblocked(u)
      /\ Killed(u)' <=> Killed(u)
      /\ \A d : SendsTo(u, d)' <=> SendsTo(u, d)
      /\ \A s : Awaiting(u, s)' <=> Awaiting(u, s)
      /\ buf'[u] = buf[u] /\ user'[u] = user[u]
    BY DEF UserStays, Kept, EntryKept, Killed
<1>2. Pending(u)' <=> Pending(u)
    BY <1>1 DEF Pending, InCall
<1> QED  BY <1>1, <1>2 DEF UserStays, UserOK

\* The server of u takes its request.
LEMMA UserTaken ==
    ASSUME NEW u \in User, UserOK(u), NEW d \in {FS, SYS}, SendsTo(u, d),
           Unblocked(u)', user'[u] = user[u],
           FsHas(u)' <=> d = FS, SysHas(u)' <=> d = SYS
    PROVE  UserOK(u)'
<1> USE ProcFacts
<1>1. /\ user[u].at = "sent" /\ user[u].call # "none" /\ SendsTo(u, Server(user[u].call))
    BY AllApart DEF UserOK, Apart, Killed, Sending, SendsTo
<1>2. d = Server(user[u].call)
    BY <1>1, AllApart DEF Apart
<1>3. Pending(u)'
    BY <1>1 DEF Pending, InCall
<1> QED  BY <1>1, <1>2, <1>3 DEF UserOK

\* u, which awaits an answer, gets it.
LEMMA UserAnswered ==
    ASSUME NEW u \in User, UserOK(u), NEW s, Awaiting(u, s),
           Unblocked(u)', user'[u] = user[u], ~FsHas(u)', ~SysHas(u)'
    PROVE  UserOK(u)'
<1> USE ProcFacts
<1>1. user[u].at \notin {"user", "sent"} /\ user[u].call # "none"
    BY AllApart DEF UserOK, Apart, Killed, Receiving, Awaiting
<1>2. ~Pending(u)'
    BY <1>1, AllApart DEF Pending, Apart
<1> QED  BY <1>1, <1>2 DEF UserOK

\* FS sends to HD, or hears of it, for the same process as before.
LEMMA FsServesOn ==
    ASSUME DriverInv, fs' = fs,
           \/ Kept(FS)
           \/ Unblocked(FS)' /\ (SendsTo(FS, HD) \/ SendsTo(FS, SYS))
           \/ Unblocked(FS)' /\ buf'[FS].source \notin User /\ \E s : Awaiting(FS, s)
    PROVE  \A u \in User : FsHas(u)' <=> FsHas(u)
<1> USE ProcFacts
<1>0. FsOK /\ HdSysTypeOK
    BY DEF DriverInv
<1>1. CASE Kept(FS)
    BY <1>1, FsStays
<1>2. CASE Unblocked(FS)' /\ (SendsTo(FS, HD) \/ SendsTo(FS, SYS))
    <2>1. (SendsTo(FS, HD) /\ fs.at = "asked") \/ (SendsTo(FS, SYS) /\ fs.at = "loop")
        BY <1>0, <1>2, FsIs
    <2> QED  BY <1>2, <2>1, AllApart DEF Apart, FsHas
<1>3. CASE Unblocked(FS)' /\ buf'[FS].source \notin User /\ \E s : Awaiting(FS, s)
    BY <1>3, AllApart DEF Apart, FsHas
<1> QED  BY <1>1, <1>2, <1>3

\* SYS tells the time to HD, or hears of it, and serves nobody meanwhile.
LEMMA SysServesOn ==
    ASSUME DriverInv, sys' = sys,
           \/ Kept(SYS)
           \/ Unblocked(SYS)' /\ (SendsTo(SYS, HD) \/ SendsTo(SYS, FS))
           \/ Unblocked(SYS)' /\ buf'[SYS].source \notin User /\ \E s : Awaiting(SYS, s)
    PROVE  \A u \in User : SysHas(u)' <=> SysHas(u)
<1> USE ProcFacts
<1>0. SysOK
    BY DEF DriverInv
<1>1. CASE Kept(SYS)
    BY <1>1, SysStays
<1>2. CASE Unblocked(SYS)' /\ (SendsTo(SYS, HD) \/ SendsTo(SYS, FS))
    <2>1. sys.at \in {"loop", "close"}
        BY <1>0, <1>2, SysIs
    <2> QED  BY <1>2, <2>1, AllApart DEF Apart, SysHas
<1>3. CASE Unblocked(SYS)' /\ buf'[SYS].source \notin User /\ \E s : Awaiting(SYS, s)
    BY <1>3, AllApart DEF Apart, SysHas
<1> QED  BY <1>1, <1>2, <1>3

LEMMA HdServes ==
    ASSUME DriverInv, TaskHd, halted' = "no"
    PROVE  \A u \in User : UserStays(u)
<1> USE ProcFacts
<1>0. TableOK /\ HdOK /\ SysOK /\ FsOK /\ HdSysTypeOK
    BY DEF DriverInv
<1>1. user' = user /\ fs' = fs /\ sys' = sys
    BY DEF TaskHd, HdReceive, HdDispatch, HdWaitfor, HdTicks, HdAgain, HdPanic, HdLook, HdLookAgain,
           HdCmdOut, HdPortWrite, HdInterruptWait, HdSectorDone, HdReply, HdRest
<1>2. CASE HdDispatch \/ HdLook \/ HdCmdOut \/ HdPortWrite \/ HdSectorDone
    <2>1. UNCHANGED ipcVars
        BY <1>2 DEF HdDispatch, HdLook, HdCmdOut, HdPortWrite, HdSectorDone
    <2>2. \A q \in Proc : Kept(q)
        BY <2>1, AllKept
    <2> QED  BY <1>1, <2>2, FsServesOn, SysServesOn DEF UserStays
<1>3. CASE HdWaitfor \/ HdAgain \/ HdLookAgain \/ HdReply
    <2>1. MsgSend(HD, SYS, Msg("GET_TICKS", 0)) \/ MsgSend(HD, FS, Nothing)
        BY <1>0, <1>3 DEF HdWaitfor, HdAgain, HdLookAgain, AskTicks, HdReply, HdOK
    <2>2. Msg("GET_TICKS", 0) \in Mail /\ Nothing \in Mail
        BY DEF Mail, Msg, Nothing
    <2>3. PICK d \in {FS, SYS}, m \in Mail : MsgSend(HD, d, m)
        BY <2>1, <2>2
    <2>4. /\ \A q \in Proc \ {HD, d} : Kept(q)
          /\ Handed(HD, d, m) \/ Queued(HD, d, m)
        BY <1>0, <2>3, SendIs
    <2>5. \/ Kept(d)
          \/ Unblocked(d)' /\ buf'[d].source = HD /\ \E s : Awaiting(d, s)
        BY <2>4 DEF Handed, Queued, Letter
    <2>6. \A u \in User : (FsHas(u)' <=> FsHas(u)) /\ (SysHas(u)' <=> SysHas(u))
        BY <1>1, <2>4, <2>5, FsServesOn, SysServesOn
    <2> QED  BY <1>1, <2>4, <2>6 DEF UserStays
<1>4. CASE HdReceive \/ HdTicks \/ HdInterruptWait
    <2>1. PICK src \in Source : MsgReceive(HD, src)
        BY <1>4 DEF HdReceive, HdTicks, HdInterruptWait, Source
    <2>2. TookInt(HD, src) \/ Blocks(HD, src) \/ \E q \in Proc : Took(HD, q, src)
        BY <1>0, <2>1, ReceiveIs
    <2>3. CASE \A r \in Proc \ {HD} : Kept(r)
        BY <1>1, <2>3, FsServesOn, SysServesOn DEF UserStays
    <2>4. CASE \E q \in Proc : Took(HD, q, src)
        <3>1. PICK q \in Proc : /\ q # HD /\ SendsTo(q, HD) /\ Unblocked(q)'
                                /\ \A r \in Proc \ {HD, q} : Kept(r)
            BY <2>4 DEF Took
        <3>2. q \in {FS, SYS}
            BY <3>1, SendersAre
        <3>3. \A u \in User : (FsHas(u)' <=> FsHas(u)) /\ (SysHas(u)' <=> SysHas(u))
            BY <1>1, <3>1, <3>2, FsServesOn, SysServesOn
        <3> QED  BY <1>1, <3>1, <3>2, <3>3 DEF UserStays
    <2> QED  BY <2>2, <2>3, <2>4 DEF TookInt, Blocks
<1>5. ~HdPanic
    BY DEF HdPanic
<1> QED  BY <1>2, <1>3, <1>4, <1>5 DEF TaskHd

\* SYS, or FS, answers the process it serves.
LEMMA SysReplies ==
    ASSUME DriverInv, CallerInv, halted' = "no", user' = user, fs' = fs, sys'.at = "loop",
           NEW d \in User, NEW m \in Mail, MsgSend(SYS, d, m),
           \A u \in User : SysHas(u) <=> u = d
    PROVE  \A u \in User : UserOK(u)'
<1> USE ProcFacts
<1>0. TableOK /\ \A u \in User : UserOK(u)
    BY DEF DriverInv, CallerInv
<1>1. /\ \A q \in Proc \ {SYS, d} : Kept(q)
      /\ Handed(SYS, d, m) \/ Queued(SYS, d, m)
    BY <1>0, SendIs
<1>2. \A u \in User : FsHas(u)' <=> FsHas(u)
    BY <1>1, FsServesOn
<1>3. CASE Handed(SYS, d, m)
    <2>1. Unblocked(SYS)' /\ Unblocked(d)' /\ \E s : Awaiting(d, s)
        BY <1>3 DEF Handed
    <2>2. \A u \in User : ~SysHas(u)'
        BY <2>1, AllApart DEF SysHas, Apart
    <2>3. ~FsHas(d)'
        BY <1>0, <1>2 DEF UserOK
    <2>4. UserOK(d)'
        BY <1>0, <2>1, <2>2, <2>3, UserAnswered
    <2>5. \A u \in User \ {d} : UserStays(u)
        BY <1>1, <1>2, <2>2 DEF UserStays
    <2> QED  BY <1>0, <2>4, <2>5, UserKept
<1>4. CASE Queued(SYS, d, m)
    <2>1. SendsTo(SYS, d)' /\ Kept(d)
        BY <1>4 DEF Queued
    <2>2. \A u \in User : SysHas(u)' <=> u = d
        BY <2>1, AllApart DEF SysHas, Apart
    <2>3. \A u \in User : UserStays(u)
        BY <1>1, <1>2, <2>1, <2>2 DEF UserStays
    <2> QED  BY <1>0, <2>3, UserKept
<1> QED  BY <1>1, <1>3, <1>4

LEMMA FsReplies ==
    ASSUME DriverInv, CallerInv, halted' = "no", user' = user, sys' = sys, fs'.at = "loop",
           NEW d \in User, NEW m \in Mail, MsgSend(FS, d, m),
           \A u \in User : FsHas(u) <=> u = d
    PROVE  \A u \in User : UserOK(u)'
<1> USE ProcFacts
<1>0. TableOK /\ \A u \in User : UserOK(u)
    BY DEF DriverInv, CallerInv
<1>1. /\ \A q \in Proc \ {FS, d} : Kept(q)
      /\ Handed(FS, d, m) \/ Queued(FS, d, m)
    BY <1>0, SendIs
<1>2. \A u \in User : SysHas(u)' <=> SysHas(u)
    BY <1>1, SysServesOn
<1>3. CASE Handed(FS, d, m)
    <2>1. Unblocked(FS)' /\ Unblocked(d)' /\ \E s : Awaiting(d, s)
        BY <1>3 DEF Handed
    <2>2. \A u \in User : ~FsHas(u)'
        BY <2>1, AllApart DEF FsHas, Apart
    <2>3. ~SysHas(d)'
        BY <1>0, <1>2 DEF UserOK
    <2>4. UserOK(d)'
        BY <1>0, <2>1, <2>2, <2>3, UserAnswered
    <2>5. \A u \in User \ {d} : UserStays(u)
        BY <1>1, <1>2, <2>2 DEF UserStays
    <2> QED  BY <1>0, <2>4, <2>5, UserKept
<1>4. CASE Queued(FS, d, m)
    <2>1. SendsTo(FS, d)' /\ Kept(d)
        BY <1>4 DEF Queued
    <2>2. \A u \in User : FsHas(u)' <=> u = d
        BY <2>1, AllApart DEF FsHas, Apart
    <2>3. \A u \in User : UserStays(u)
        BY <1>1, <1>2, <2>1, <2>2 DEF UserStays
    <2> QED  BY <1>0, <2>3, UserKept
<1> QED  BY <1>1, <1>3, <1>4

LEMMA SysReceiveServes ==
    ASSUME DriverInv, CallerInv, SysReceive, halted' = "no"
    PROVE  \A u \in User : UserOK(u)'
<1> USE ProcFacts
<1>0. /\ TableOK /\ HdOK /\ SysOK /\ FsOK /\ TasksPair
      /\ \A u \in User : UserOK(u)
    BY DEF DriverInv, CallerInv
<1>1. /\ sys.at = "loop" /\ MsgReceive(SYS, ANY) /\ sys'.at = "dispatch"
      /\ user' = user /\ fs' = fs
    BY DriverTypes DEF SysReceive, SysRest, SysState
<1>2. Unblocked(SYS)
    BY <1>0, <1>1, TasksRun DEF MsgReceive, Runnable
<1>3. \A u \in User : ~SysHas(u)
    BY <1>1, <1>2, AllApart DEF SysHas, Apart
<1>4. Blocks(SYS, ANY) \/ \E q \in Proc : Took(SYS, q, ANY)
    <2>1. ANY \in Source /\ ~has_int_msg[SYS]
        BY <1>0 DEF Source, TableOK
    <2> QED  BY <1>0, <1>1, <2>1, ReceiveIs DEF TookInt
<1>5. CASE Blocks(SYS, ANY)
    <2>1. Awaiting(SYS, ANY)' /\ \A r \in Proc \ {SYS} : Kept(r)
        BY <1>5 DEF Blocks
    <2>2. \A u \in User : ~SysHas(u)'
        BY <1>1, <2>1, AllApart DEF SysHas, Apart
    <2>3. \A u \in User : UserStays(u)
        BY <1>1, <1>3, <2>1, <2>2, FsServesOn DEF UserStays
    <2> QED  BY <1>0, <2>3, UserKept
<1>6. ASSUME NEW q \in Proc, Took(SYS, q, ANY)
      PROVE  \A u \in User : UserOK(u)'
    <2>1. /\ q # SYS /\ SendsTo(q, SYS) /\ Unblocked(q)' /\ Unblocked(SYS)' /\ buf'[SYS] = buf[q]
          /\ \A r \in Proc \ {SYS, q} : Kept(r)
        BY <1>6 DEF Took
    <2>2. \A u \in User : SysHas(u)' <=> buf[q].source = u
        BY <1>1, <2>1, AllApart DEF SysHas, Apart
    <2>3. q # FS
        BY <1>0, <1>1, <1>2, <2>1, SysIs DEF TasksPair, FsHasSys
    <2>4. \A u \in User : FsHas(u)' <=> FsHas(u)
        BY <1>1, <2>1, <2>3, FsServesOn
    <2>5. CASE q = HD
        <3>1. buf[q].source = HD
            BY <1>0, <2>1, <2>5, HdFreeIs DEF Letter
        <3>2. \A u \in User : UserStays(u)
            BY <1>1, <1>3, <2>1, <2>2, <2>4, <2>5, <3>1 DEF UserStays
        <3> QED  BY <1>0, <3>2, UserKept
    <2>6. CASE q \in User
        <3>1. buf[q].source = q
            <4>1. PICK m : buf[q] = Letter(q, m)
                BY <2>1, <2>6, AllApart DEF DriverInv, UserMail, Apart
            <4> QED  BY <4>1 DEF Letter
        <3>2. ~FsHas(q)
            BY <2>1, <2>6, Served
        <3>3. UserOK(q)'
            BY <1>0, <1>1, <2>1, <2>2, <2>4, <2>6, <3>1, <3>2, UserTaken
        <3>4. \A u \in User \ {q} : UserStays(u)
            BY <1>1, <1>3, <2>1, <2>2, <2>4, <3>1 DEF UserStays
        <3> QED  BY <1>0, <3>3, <3>4, UserKept
    <2> QED  BY <2>1, <2>3, <2>5, <2>6
<1> QED  BY <1>4, <1>5, <1>6

LEMMA SysServes ==
    ASSUME DriverInv, CallerInv, TaskSys, halted' = "no", ~harmed'
    PROVE  \A u \in User : UserOK(u)'
<1> USE ProcFacts
<1>0. /\ TableOK /\ HdOK /\ SysOK /\ FsOK
      /\ \A u \in User : UserOK(u)
    BY DEF DriverInv, CallerInv
<1>1. user' = user /\ fs' = fs
    BY DEF TaskSys, SysReceive, SysAnswer, SysClose, SysClosed, SysHang, SysKilled, SysRest
<1>2. CASE SysAnswer
    <2>1. /\ MsgSend(SYS, buf[SYS].source, Msg("SYSCALL_RET", ticks))
          /\ sys.at = "dispatch" /\ p_flags[SYS] = {} /\ sys'.at = "loop"
        BY <1>2, DriverTypes DEF SysAnswer, MsgSend, Runnable, SysState
    <2>2. Msg("SYSCALL_RET", ticks) \in Mail
        BY DriverTypes, TimeLimits DEF Mail, Msg
    <2>3. PICK d \in Proc, m \in Mail : d = buf[SYS].source /\ MsgSend(SYS, d, m)
        BY <2>1, <2>2, SysAnswerTo
    <2>4. \A u \in User : SysHas(u) <=> d = u
        BY <2>1, <2>3, SysAnswerTo
    <2>5. CASE d = HD
        <3>1. /\ \A q \in Proc \ {SYS, d} : Kept(q)
              /\ Unblocked(SYS)' \/ SendsTo(SYS, d)'
            BY <1>0, <2>3, SendIs DEF Handed, Queued
        <3>2. \A u \in User : ~SysHas(u)'
            BY <2>1, <2>5, <3>1, AllApart DEF SysHas, Apart
        <3>3. \A u \in User : UserStays(u)
            BY <1>1, <2>4, <2>5, <3>1, <3>2, FsServesOn DEF UserStays
        <3> QED  BY <1>0, <3>3, UserKept
    <2>6. CASE d \in User
        BY <1>1, <2>1, <2>3, <2>4, <2>6, SysReplies
    <2> QED  BY <2>1, <2>3, <2>5, <2>6, SysAnswerTo
<1>3. CASE SysClose
    <2>1. /\ MsgSend(SYS, FS, Msg("CLOSE", 0)) /\ Msg("CLOSE", 0) \in Mail
          /\ sys.at = "dispatch" /\ p_flags[SYS] = {}
          /\ sys'.at = "close" /\ sys'.src = buf[SYS].source
        BY <1>3 DEF SysClose, Mail, Msg, MsgSend, Runnable
    <2>2. PICK m \in Mail : MsgSend(SYS, FS, m)
        BY <2>1
    <2>3. /\ \A q \in Proc \ {SYS, FS} : Kept(q)
          /\ Handed(SYS, FS, m) \/ Queued(SYS, FS, m)
        BY <1>0, <2>2, SendIs
    <2>4. \/ Kept(FS) /\ SendsTo(SYS, FS)'
          \/ Unblocked(SYS)' /\ Unblocked(FS)' /\ buf'[FS].source = SYS /\ \E s : Awaiting(FS, s)
        BY <2>3 DEF Handed, Queued, Letter
    <2>5. \A u \in User : FsHas(u)' <=> FsHas(u)
        BY <1>1, <2>4, FsServesOn
    <2>6. \A u \in User : SysHas(u)' <=> SysHas(u)
        BY <2>1, <2>4, SysAnswerTo, AllApart DEF SysHas, Apart
    <2> QED  BY <1>0, <1>1, <2>3, <2>5, <2>6, UserKept DEF UserStays
<1>4. CASE SysClosed
    <2>1. /\ MsgReceive(SYS, FS) /\ FS \in Source /\ ~has_int_msg[SYS]
          /\ sys.at = "close" /\ p_flags[SYS] = {} /\ sys'.at = "closed" /\ sys'.src = sys.src
        BY <1>0, <1>4, DriverTypes DEF SysClosed, MsgReceive, Runnable, Source, SysState, TableOK
    <2>2. Blocks(SYS, FS) \/ \E q \in Proc : Took(SYS, q, FS)
        BY <1>0, <2>1, ReceiveIs DEF TookInt
    <2>3. /\ \A q \in Proc \ {SYS, FS} : Kept(q)
          /\ Kept(FS) \/ (Unblocked(FS)' /\ SendsTo(FS, SYS))
          /\ Unblocked(SYS)' \/ Awaiting(SYS, FS)'
        BY <2>2 DEF Blocks, Took
    <2>4. \A u \in User : FsHas(u)' <=> FsHas(u)
        BY <1>1, <2>3, FsServesOn
    <2>5. Unblocked(SYS)
        BY <1>0, <2>1, TasksRun
    <2>6. \A u \in User : SysHas(u)' <=> SysHas(u)
        BY <2>1, <2>3, <2>5, AllApart DEF SysHas, Apart
    <2> QED  BY <1>0, <1>1, <2>3, <2>4, <2>6, UserKept DEF UserStays
<1>5. CASE SysHang
    <2>1. PICK v \in User : v = Victim
        BY <1>5, SysHangStep
    <2>2. /\ Unblocked(SYS) /\ sys'.at = "killed" /\ Kept(SYS)
          /\ \A q \in Proc \ {v} : Kept(q)
        BY <1>5, <2>1, SysHangStep
    <2>3. /\ user[v].at = "user"
          /\ p_flags' = [p_flags EXCEPT ![v] = {"HANGING"}]
          /\ UNCHANGED <<p_sendto, p_recvfrom, p_msg>>
        BY <1>5, <2>1 DEF SysHang
    <2>4. \A u \in User : SysHas(u)' <=> SysHas(u)
        <3>1. (sys.at = "closed" /\ sys'.src = sys.src)
                 \/ (sys.at = "dispatch" /\ sys'.src = buf[SYS].source)
            BY <1>5, DriverTypes DEF SysHang, SysState
        <3>2. \A u \in User : ~SendsTo(SYS, u) /\ ~SendsTo(SYS, u)'
            BY <2>2, AllApart DEF Apart, Kept, EntryKept
        <3> QED  BY <2>2, <3>1, <3>2 DEF SysHas
    <2>5. \A u \in User : FsHas(u)' <=> FsHas(u)
        BY <1>1, <2>2, FsServesOn
    <2>6. Killed(v)'
        <3>1. Unblocked(v) \/ Killed(v)
            BY <1>0, <2>3 DEF UserOK
        <3>2. p_flags'[v] = {"HANGING"}
            BY <1>0, <2>3 DEF TableOK
        <3> QED  BY <2>3, <3>1, <3>2 DEF Unblocked, Killed
    <2>7. UserOK(v)'
        BY <1>0, <1>1, <2>3, <2>4, <2>5, <2>6 DEF UserOK, Pending, InCall
    <2>8. \A u \in User \ {v} : UserStays(u)
        BY <1>1, <2>2, <2>4, <2>5 DEF UserStays
    <2> QED  BY <1>0, <2>7, <2>8, UserKept
<1>6. CASE SysKilled
    <2>1. /\ MsgSend(SYS, sys.src, Msg("SYSCALL_RET", 0)) /\ Msg("SYSCALL_RET", 0) \in Mail
          /\ sys.at = "killed" /\ sys'.at = "loop" /\ p_flags[SYS] = {}
        BY <1>6 DEF SysKilled, Mail, Msg, SysIdle, MsgSend, Runnable
    <2>2. PICK d \in User, m \in Mail : d = sys.src /\ MsgSend(SYS, d, m)
        BY <1>0, <2>1 DEF SysOK
    <2>3. Unblocked(SYS)
        BY <1>0, <2>1, TasksRun
    <2>4. \A u \in User : SysHas(u) <=> u = d
        BY <2>1, <2>2, <2>3, AllApart DEF SysHas, Apart
    <2> QED  BY <1>1, <2>1, <2>2, <2>4, SysReplies
<1> QED  BY <1>2, <1>3, <1>4, <1>5, <1>6, SysReceiveServes DEF TaskSys

LEMMA FsReceiveServes ==
    ASSUME DriverInv, CallerInv, FsReceive, halted' = "no"
    PROVE  \A u \in User : UserOK(u)'
<1> USE ProcFacts
<1>0. /\ TableOK /\ HdOK /\ SysOK /\ FsOK /\ HdSysTypeOK
      /\ \A u \in User : UserOK(u)
    BY DEF DriverInv, CallerInv
<1>1. /\ fs.at = "loop" /\ MsgReceive(FS, ANY) /\ fs'.at = "dispatch"
      /\ user' = user /\ sys' = sys
    BY DriverTypes DEF FsReceive, FsRest, FsState
<1>2. Unblocked(FS) /\ HdFree
    BY <1>0, <1>1, TasksRun, FsIs DEF MsgReceive, Runnable
<1>3. \A u \in User : ~FsHas(u)
    BY <1>1, <1>2, AllApart DEF FsHas, Apart
<1>4. Blocks(FS, ANY) \/ \E q \in Proc : Took(FS, q, ANY)
    <2>1. ANY \in Source /\ ~has_int_msg[FS]
        BY <1>0 DEF Source, TableOK
    <2> QED  BY <1>0, <1>1, <2>1, ReceiveIs DEF TookInt
<1>5. CASE Blocks(FS, ANY)
    <2>1. Awaiting(FS, ANY)' /\ \A r \in Proc \ {FS} : Kept(r)
        BY <1>5 DEF Blocks
    <2>2. \A u \in User : ~FsHas(u)'
        BY <1>1, <2>1, AllApart DEF FsHas, Apart
    <2>3. \A u \in User : UserStays(u)
        BY <1>1, <1>3, <2>1, <2>2, SysServesOn DEF UserStays
    <2> QED  BY <1>0, <2>3, UserKept
<1>6. ASSUME NEW q \in Proc, Took(FS, q, ANY)
      PROVE  \A u \in User : UserOK(u)'
    <2>1. /\ q # FS /\ SendsTo(q, FS) /\ Unblocked(q)' /\ Unblocked(FS)' /\ buf'[FS] = buf[q]
          /\ \A r \in Proc \ {FS, q} : Kept(r)
        BY <1>6 DEF Took
    <2>2. \A u \in User : FsHas(u)' <=> buf[q].source = u
        BY <1>1, <2>1, AllApart DEF FsHas, Apart
    <2>3. q # HD
        BY <1>0, <1>2, <2>1, HdFreeIs
    <2>4. \A u \in User : SysHas(u)' <=> SysHas(u)
        BY <1>1, <2>1, SysServesOn
    <2>5. CASE q = SYS
        <3>1. buf[q].source = SYS
            BY <1>0, <2>1, <2>5, SysIs DEF Letter
        <3>2. \A u \in User : UserStays(u)
            BY <1>1, <1>3, <2>1, <2>2, <2>4, <2>5, <3>1 DEF UserStays
        <3> QED  BY <1>0, <3>2, UserKept
    <2>6. CASE q \in User
        <3>1. buf[q].source = q
            <4>1. PICK m : buf[q] = Letter(q, m)
                BY <2>1, <2>6, AllApart DEF DriverInv, UserMail, Apart
            <4> QED  BY <4>1 DEF Letter
        <3>2. ~SysHas(q)
            BY <2>1, <2>6, Served
        <3>3. UserOK(q)'
            BY <1>0, <1>1, <2>1, <2>2, <2>4, <2>6, <3>1, <3>2, UserTaken
        <3>4. \A u \in User \ {q} : UserStays(u)
            BY <1>1, <1>3, <2>1, <2>2, <2>4, <3>1 DEF UserStays
        <3> QED  BY <1>0, <3>3, <3>4, UserKept
    <2> QED  BY <2>1, <2>3, <2>5, <2>6
<1> QED  BY <1>4, <1>5, <1>6

LEMMA FsCallersStay ==
    ASSUME DriverInv, CallerInv, TaskFs, halted' = "no"
    PROVE  \A u \in User : UserOK(u)'
<1> USE ProcFacts
<1>0. /\ TableOK /\ HdOK /\ SysOK /\ FsOK /\ TasksPair /\ HdSysTypeOK
      /\ \A u \in User : UserOK(u)
    BY DEF DriverInv, CallerInv
<1>1. user' = user /\ sys' = sys
    BY DEF TaskFs, FsBoot, FsReceive, FsRdwt, FsGot, FsReply, FsClose, FsCloseFails, FsRest
<1>2. CASE FsBoot \/ FsRdwt
    <2>1. PICK m \in HdRequest : MsgSend(FS, HD, m)
        BY <1>2 DEF FsBoot, FsRdwt, FsAsk, HdRequest, Transfer
    <2>2. p_flags[FS] = {} /\ fs'.at = "asked"
        BY <1>2, <2>1 DEF FsBoot, FsRdwt, FsAsk, MsgSend, Runnable
    <2>3. m \in Mail
        BY HdSysAssumption DEF HdRequest, Transfer, Mail, Msg
    <2>4. /\ \A q \in Proc \ {FS, HD} : Kept(q)
          /\ Unblocked(FS)' \/ SendsTo(FS, HD)'
        BY <1>0, <2>1, <2>3, SendIs DEF Handed, Queued
    <2>5. \A u \in User : FsHas(u)' <=> fs'.src = u
        BY <2>2, <2>4, AllApart DEF FsHas, Apart
    <2>6. \A u \in User : FsHas(u) <=> fs'.src = u
        <3>1. CASE FsBoot
            <4>1. fs'.src = NO_TASK /\ fs.at \in {"boot", "mkfs"}
                BY <3>1 DEF FsBoot, FsAsk
            <4>2. Unblocked(FS)
                BY <1>0, <2>2, TasksRun
            <4> QED  BY <4>1, <4>2, AllApart DEF FsHas, Apart
        <3>2. CASE FsRdwt
            BY <2>2, <3>2, FsServes DEF FsRdwt, FsAsk
        <3> QED  BY <1>2, <3>1, <3>2
    <2>7. \A u \in User : SysHas(u)' <=> SysHas(u)
        BY <1>1, <2>4, SysServesOn
    <2> QED  BY <1>0, <1>1, <2>4, <2>5, <2>6, <2>7, UserKept DEF UserStays
<1>3. CASE FsGot
    <2>1. /\ MsgReceive(FS, HD) /\ HD \in Source /\ ~has_int_msg[FS]
          /\ fs.at = "asked" /\ p_flags[FS] = {} /\ fs'.at = fs.then /\ fs'.src = fs.src
        BY <1>0, <1>3, DriverTypes DEF FsGot, MsgReceive, Runnable, Source, FsState, TableOK
    <2>2. Blocks(FS, HD) \/ \E q \in Proc : Took(FS, q, HD)
        BY <1>0, <2>1, ReceiveIs DEF TookInt
    <2>3. /\ \A q \in Proc \ {FS, HD} : Kept(q)
          /\ Unblocked(FS)' \/ Awaiting(FS, HD)'
        BY <2>2 DEF Blocks, Took
    <2>4. Unblocked(FS) /\ (fs.src \in User <=> fs.then = "serve") /\ fs.then \in {"mkfs", "loop", "serve"}
        BY <1>0, <2>1, TasksRun, DriverTypes DEF FsOK, FsState
    <2>5. \A u \in User : FsHas(u)' <=> FsHas(u)
        BY <2>1, <2>3, <2>4, AllApart DEF FsHas, Apart
    <2>6. \A u \in User : SysHas(u)' <=> SysHas(u)
        BY <1>1, <2>3, SysServesOn
    <2> QED  BY <1>0, <1>1, <2>3, <2>5, <2>6, UserKept DEF UserStays
<1>4. CASE FsReply
    <2>1. /\ Working /\ MsgSend(FS, Caller, Nothing) /\ p_flags[FS] = {} /\ Nothing \in Mail
          /\ fs'.at = "loop"
        BY <1>4 DEF FsReply, FsIdle, Nothing, Mail, Msg, MsgSend, Runnable
    <2>2. PICK d \in User, m \in Mail : d = Caller /\ MsgSend(FS, d, m)
        BY <2>1, FsServes
    <2>3. \A u \in User : FsHas(u) <=> u = d
        BY <2>1, <2>2, FsServes
    <2> QED  BY <1>1, <2>1, <2>2, <2>3, FsReplies
<1>5. CASE FsClose
    <2>1. /\ MsgSend(FS, SYS, Nothing) /\ fs.at = "dispatch" /\ Is(FS, "CLOSE")
          /\ p_flags[FS] = {} /\ Nothing \in Mail /\ fs'.at = "loop"
        BY <1>5 DEF FsClose, FsIdle, Nothing, Mail, Msg, MsgSend, Runnable
    <2>2. PICK m \in Mail : MsgSend(FS, SYS, m)
        BY <2>1
    <2>3. /\ \A q \in Proc \ {FS, SYS} : Kept(q)
          /\ Handed(FS, SYS, m) \/ Queued(FS, SYS, m)
        BY <1>0, <2>2, SendIs
    <2>4. /\ \/ Kept(SYS)
             \/ Unblocked(SYS)' /\ buf'[SYS].source = FS /\ \E s : Awaiting(SYS, s)
          /\ Unblocked(FS)' \/ SendsTo(FS, SYS)'
        BY <2>3 DEF Handed, Queued, Letter
    <2>5. \A u \in User : SysHas(u)' <=> SysHas(u)
        BY <1>1, <2>4, SysServesOn
    <2>6. Unblocked(FS) /\ buf[FS].source = SYS
        <3>1. Unblocked(FS) /\ ~Awaiting(FS, ANY)
            BY <1>0, <2>1, TasksRun, AllApart DEF Apart
        <3>2. \A u \in User : buf[FS] # Letter(u, Msg("CALL", 0))
            BY <2>1 DEF Is, Letter, Msg
        <3>3. buf[FS] = Letter(SYS, Msg("CLOSE", 0))
            BY <1>0, <2>1, <3>1, <3>2 DEF FsOK, FsAtPlace
        <3> QED  BY <3>1, <3>3 DEF Letter
    <2>7. \A u \in User : ~FsHas(u) /\ ~FsHas(u)'
        BY <2>1, <2>4, <2>6, AllApart DEF FsHas, Apart
    <2> QED  BY <1>0, <1>1, <2>3, <2>5, <2>7, UserKept DEF UserStays
<1>6. ~FsCloseFails
    BY DEF FsCloseFails
<1> QED  BY <1>2, <1>3, <1>4, <1>5, <1>6, FsReceiveServes DEF TaskFs

LEMMA UserCallServes ==
    ASSUME DriverInv, CallerInv, halted' = "no",
           NEW u \in User, NEW t \in {"CALL", "GET_PID", "KILL_PROC"}, NEW n,
           Msg(t, n) \in {Msg("CALL", 0)} \cup SysRequest, UserCall(u, t, n)
    PROVE  \A v \in User : UserOK(v)'
<1> USE ProcFacts
<1>0. /\ TableOK /\ SysOK /\ FsOK /\ HdSysTypeOK
      /\ \A v \in User : UserOK(v)
    BY DEF DriverInv, CallerInv
<1>1. /\ user[u].at = "user" /\ MsgSend(u, Server(t), Msg(t, n))
      /\ user' = [user EXCEPT ![u] = [call |-> t, at |-> "sent"]]
      /\ fs' = fs /\ sys' = sys
    BY DEF UserCall, UserRest
<1>2. Msg(t, n) \in Mail
    <2>1. \A m \in {Msg("CALL", 0)} \cup SysRequest : m \in Mail
        BY HdSysAssumption DEF SysRequest, Mail, Msg
    <2> QED  BY <2>1
<1>3. PICK d \in {FS, SYS}, m \in Mail : d = Server(t) /\ m = Msg(t, n)
    BY <1>2 DEF Server
<1>4. /\ buf'[u] = Letter(u, m)
      /\ \A q \in Proc \ {u, d} : Kept(q)
      /\ Handed(u, d, m) \/ Queued(u, d, m)
    <2>1. MsgSend(u, d, m)
        BY <1>1, <1>3
    <2> QED  BY <1>0, <2>1, SendIs
<1>5. user'[u].call = t /\ user'[u].at = "sent" /\ \A v \in User \ {u} : user'[v] = user[v]
    BY <1>1, DriverTypes
<1>6. ~FsHas(u) /\ ~SysHas(u)
    BY <1>0, <1>1 DEF UserOK, Pending, InCall
<1>7. t # "none" /\ buf'[u].source = u /\ buf'[u].body.type = t
    BY <1>3, <1>4 DEF Letter, Msg
<1>8. CASE Handed(u, d, m)
    <2>1. Awaiting(d, u) \/ Awaiting(d, ANY)
        BY <1>8 DEF Handed
    <2>2. Unblocked(u)' /\ Unblocked(d)' /\ buf'[d].source = u
        BY <1>8 DEF Handed, Letter
    <2>3. \A v \in User : (FsHas(v)' <=> FsHas(v) \/ (v = u /\ d = FS))
        <3>1. CASE d = FS
            <4>1. Awaiting(FS, ANY) /\ fs.at = "dispatch"
                BY <1>0, <2>1, <3>1, FsIs
            <4> QED  BY <1>1, <2>2, <3>1, <4>1, AllApart DEF FsHas, Apart
        <3>2. CASE d = SYS
            <4>1. Kept(FS)
                BY <1>4, <3>2
            <4> QED  BY <1>1, <3>2, <4>1, FsServesOn
        <3> QED  BY <3>1, <3>2
    <2>4. \A v \in User : (SysHas(v)' <=> SysHas(v) \/ (v = u /\ d = SYS))
        <3>1. CASE d = SYS
            <4>1. Awaiting(SYS, ANY) /\ sys.at = "dispatch"
                BY <1>0, <2>1, <3>1, SysIs
            <4> QED  BY <1>1, <2>2, <3>1, <4>1, AllApart DEF SysHas, Apart
        <3>2. CASE d = FS
            <4>1. Kept(SYS)
                BY <1>4, <3>2
            <4> QED  BY <1>1, <3>2, <4>1, SysServesOn
        <3> QED  BY <3>1, <3>2
    <2>5. Pending(u)'
        BY <1>5, <2>2 DEF Pending, InCall
    <2>6. UserOK(u)'
        BY <1>3, <1>5, <1>6, <1>7, <2>2, <2>3, <2>4, <2>5 DEF UserOK
    <2>7. \A v \in User \ {u} : UserStays(v)
        BY <1>4, <1>5, <2>3, <2>4 DEF UserStays
    <2> QED  BY <1>0, <2>6, <2>7, UserKept
<1>9. CASE Queued(u, d, m)
    <2>1. SendsTo(u, d)' /\ Kept(FS) /\ Kept(SYS)
        BY <1>4, <1>9 DEF Queued
    <2>2. \A v \in User : (FsHas(v)' <=> FsHas(v)) /\ (SysHas(v)' <=> SysHas(v))
        BY <1>1, <2>1, FsServesOn, SysServesOn
    <2>3. ~Pending(u)'
        BY <2>1, AllApart DEF Pending, Apart
    <2>4. UserOK(u)'
        BY <1>3, <1>5, <1>6, <1>7, <2>1, <2>2, <2>3 DEF UserOK
    <2>5. \A v \in User \ {u} : UserStays(v)
        BY <1>4, <1>5, <2>2 DEF UserStays
    <2> QED  BY <1>0, <2>4, <2>5, UserKept
<1> QED  BY <1>4, <1>8, <1>9

LEMMA UserStepServes ==
    ASSUME DriverInv, CallerInv, halted' = "no", NEW u \in User, UserStep(u)
    PROVE  \A v \in User : UserOK(v)'
<1> USE ProcFacts
<1>0. /\ TableOK /\ SysOK /\ FsOK /\ HdSysTypeOK
      /\ \A v \in User : UserOK(v)
    BY DEF DriverInv, CallerInv
<1>1. fs' = fs /\ sys' = sys
    BY DEF UserStep, UserReceive, UserReturn, UserRest
<1>2. CASE UserReceive(u)
    <2>1. PICK d \in {FS, SYS} : d = Server(user[u].call)
        BY DEF Server
    <2>2. /\ user[u].at = "sent" /\ MsgReceive(u, d) /\ d \in Source /\ ~has_int_msg[u]
          /\ user' = [user EXCEPT ![u].at = "received"] /\ p_flags[u] = {}
        BY <1>0, <1>2, <2>1 DEF UserReceive, Source, TableOK, MsgReceive, Runnable
    <2>3. Unblocked(u) /\ user[u].call # "none"
        BY <1>0, <2>2, AllApart DEF UserOK, Apart
    <2>4. Blocks(u, d) \/ \E q \in Proc : Took(u, q, d)
        BY <1>0, <2>2, ReceiveIs DEF TookInt
    <2>5. /\ user'[u].at = "received" /\ user'[u].call = user[u].call
          /\ \A v \in User \ {u} : user'[v] = user[v]
        BY <2>2, DriverTypes DEF UserState
    <2>6. CASE Blocks(u, d)
        <3>1. Awaiting(u, d)' /\ \A r \in Proc \ {u} : Kept(r)
            BY <2>6 DEF Blocks
        <3>2. \A v \in User : (FsHas(v)' <=> FsHas(v)) /\ (SysHas(v)' <=> SysHas(v))
            BY <1>1, <3>1, FsServesOn, SysServesOn
        <3>3. Pending(u) /\ Pending(u)'
            BY <2>1, <2>2, <2>3, <2>5, <3>1 DEF Pending, InCall
        <3>4. UserOK(u)'
            BY <1>0, <2>1, <2>3, <2>5, <3>1, <3>2, <3>3 DEF UserOK
        <3>5. \A v \in User \ {u} : UserStays(v)
            BY <2>5, <3>1, <3>2 DEF UserStays
        <3> QED  BY <1>0, <3>4, <3>5, UserKept
    <2>7. CASE \E q \in Proc : Took(u, q, d)
        <3>1. /\ SendsTo(d, u) /\ Unblocked(d)' /\ Unblocked(u)'
              /\ \A r \in Proc \ {u, d} : Kept(r)
            BY <2>7 DEF Took
        <3>2. d = FS => fs.at = "loop"
            BY <1>0, <3>1, FsIs
        <3>3. d = SYS => sys.at = "loop"
            BY <1>0, <3>1, SysIs
        <3>4. \A v \in User : FsHas(v)' <=> FsHas(v) /\ ~(d = FS /\ v = u)
            <4>1. CASE d = FS
                BY <1>1, <3>1, <3>2, <4>1, AllApart DEF FsHas, Apart
            <4>2. CASE d = SYS
                <5>1. Kept(FS)
                    BY <3>1, <4>2
                <5> QED  BY <1>1, <4>2, <5>1, FsServesOn
            <4> QED  BY <4>1, <4>2
        <3>5. \A v \in User : SysHas(v)' <=> SysHas(v) /\ ~(d = SYS /\ v = u)
            <4>1. CASE d = SYS
                BY <1>1, <3>1, <3>3, <4>1, AllApart DEF SysHas, Apart
            <4>2. CASE d = FS
                <5>1. Kept(SYS)
                    BY <3>1, <4>2
                <5> QED  BY <1>1, <4>2, <5>1, SysServesOn
            <4> QED  BY <4>1, <4>2
        <3>6. ~FsHas(u)' /\ ~SysHas(u)'
            BY <1>0, <2>1, <3>4, <3>5 DEF UserOK
        <3>7. ~Pending(u)'
            BY <2>5, <3>1, AllApart DEF Pending, Apart
        <3>8. UserOK(u)'
            BY <2>3, <2>5, <3>1, <3>6, <3>7 DEF UserOK
        <3>9. \A v \in User \ {u} : UserStays(v)
            BY <2>5, <3>1, <3>4, <3>5 DEF UserStays
        <3> QED  BY <1>0, <3>8, <3>9, UserKept
    <2> QED  BY <2>4, <2>6, <2>7
<1>3. CASE UserReturn(u)
    <2>1. /\ user[u].at = "received" /\ p_flags[u] = {}
          /\ user' = [user EXCEPT ![u] = [call |-> "none", at |-> "user"]]
          /\ buf' = [buf EXCEPT ![u] = [source |-> u, body |-> Nothing]]
          /\ UNCHANGED <<p_flags, p_sendto, p_recvfrom, p_msg>>
        BY <1>3 DEF UserReturn, Runnable
    <2>2. Unblocked(u)
        BY <1>0, <2>1, AllApart DEF UserOK, Apart
    <2>3. EntryKept(u) /\ \A q \in Proc \ {u} : Kept(q)
        <3>1. \A q \in Proc \ {u} : buf'[q] = buf[q]
            BY <1>0, <2>1 DEF TableOK
        <3> QED  BY <2>1, <3>1, EntryIsKept DEF Kept
    <2>4. \A v \in User : (FsHas(v)' <=> FsHas(v)) /\ (SysHas(v)' <=> SysHas(v))
        BY <1>1, <2>3, FsServesOn, SysServesOn
    <2>5. ~Pending(u)
        BY <2>1, <2>2, AllApart DEF Pending, Apart
    <2>6. /\ user'[u].at = "user" /\ user'[u].call = "none"
          /\ \A v \in User \ {u} : user'[v] = user[v]
        BY <2>1, DriverTypes
    <2>7. ~Pending(u)' /\ Unblocked(u)'
        BY <2>2, <2>3, <2>6 DEF Pending, InCall, EntryKept
    <2>8. UserOK(u)'
        BY <1>0, <2>4, <2>5, <2>6, <2>7 DEF UserOK
    <2>9. \A v \in User \ {u} : UserStays(v)
        BY <2>3, <2>4, <2>6 DEF UserStays
    <2> QED  BY <1>0, <2>8, <2>9, UserKept
<1> QED  BY <1>2, <1>3 DEF UserStep

LEMMA NextServes ==
    ASSUME DriverInv, CallerInv, Next, halted' = "no", ~harmed'
    PROVE  \A u \in User : UserOK(u)'
<1> USE ProcFacts
<1>0. TableOK /\ \A u \in User : UserOK(u)
    BY DEF DriverInv, CallerInv
<1>1. CASE ClockHandler
    <2>1. UNCHANGED ipcVars /\ user' = user /\ fs' = fs /\ sys' = sys
        BY <1>1 DEF ClockHandler
    <2>2. \A q \in Proc : Kept(q)
        BY <2>1, AllKept
    <2> QED  BY <1>0, <2>1, <2>2, FsServesOn, SysServesOn, UserKept DEF UserStays
<1>2. CASE DiskReady
    <2>1. UNCHANGED ipcVars \/ InformInt(HD)
        BY <1>2 DEF DiskReady
    <2>2. \A q \in Proc \ {HD} : Kept(q)
        BY <1>0, <2>1, AllKept, InformIs
    <2>3. user' = user /\ fs' = fs /\ sys' = sys
        BY <1>2 DEF DiskReady
    <2> QED  BY <1>0, <2>2, <2>3, FsServesOn, SysServesOn, UserKept DEF UserStays
<1>3. CASE TaskHd
    BY <1>0, <1>3, HdServes, UserKept
<1>4. CASE \E u \in User : UserCall(u, "CALL", 0) \/ UserCall(u, "GET_PID", 0) \/ UserStep(u)
    <2>1. Msg("GET_PID", 0) \in SysRequest
        BY DEF SysRequest
    <2> QED  BY <1>4, <2>1, UserCallServes, UserStepServes
<1>5. CASE \E u, v \in User : UserCall(u, "KILL_PROC", v)
    <2>1. \A v \in User : Msg("KILL_PROC", v) \in SysRequest
        BY DEF SysRequest
    <2> QED  BY <1>5, <2>1, UserCallServes
<1> QED  BY <1>1, <1>2, <1>3, <1>4, <1>5, SysServes, FsCallersStay DEF Next

-----------------------------------------------------------------------------
(* The invariant, and what follows from it. *)

LEMMA CallerNext ==
    ASSUME DriverInv, CallerInv, Next, halted = "no", ~harmed'
    PROVE  halted' = "hd" \/ (halted' = "no" /\ CallerInv')
<1>1. CASE Runs'
    <2>1. halted' = "no" /\ QueueExact' /\ NoneMissed'
        BY <1>1 DEF Runs
    <2>2. \A u \in User : UserOK(u)'
        BY <2>1, NextServes
    <2> QED  BY <2>1, <2>2 DEF CallerInv
<1> QED  BY <1>1, NextRuns

LEMMA HarmStays ==
    ASSUME Next, harmed
    PROVE  harmed'
<1>1. CASE SysHang
    BY <1>1 DEF SysHang
<1>2. CASE FsCloseFails
    BY <1>2 DEF FsCloseFails
<1>3. CASE ClockHandler \/ DiskReady
    BY <1>3 DEF ClockHandler, DiskReady
<1>4. CASE TaskHd
    BY <1>4 DEF TaskHd, HdReceive, HdDispatch, HdWaitfor, HdTicks, HdAgain, HdPanic, HdLook, HdLookAgain,
           HdCmdOut, HdPortWrite, HdInterruptWait, HdSectorDone, HdReply, HdRest
<1>5. CASE SysReceive \/ SysAnswer \/ SysClose \/ SysClosed \/ SysKilled
    BY <1>5 DEF SysReceive, SysAnswer, SysClose, SysClosed, SysKilled
<1>6. CASE FsBoot \/ FsReceive \/ FsRdwt \/ FsGot \/ FsReply \/ FsClose
    BY <1>6 DEF FsBoot, FsReceive, FsRdwt, FsGot, FsReply, FsClose, FsRest
<1>7. CASE \E u \in User : UserStep(u) \/ \E t, n : UserCall(u, t, n)
    BY <1>7 DEF UserStep, UserReceive, UserReturn, UserCall, UserRest
<1> QED  BY <1>1, <1>2, <1>3, <1>4, <1>5, <1>6, <1>7 DEF Next, TaskSys, TaskFs

LEMMA HdSysNext ==
    ASSUME HdSysInv, [Next]_vars
    PROVE  HdSysInv'
<1> USE ProcFacts
<1>1. TaskInv'
    BY TaskNext DEF HdSysInv
<1>2. CASE UNCHANGED vars
    <2>1. /\ UNCHANGED ipcVars /\ harmed' = harmed
          /\ user' = user /\ fs' = fs /\ sys' = sys
        BY <1>2 DEF vars
    <2>2. halted' = halted /\ \A q \in Proc : Kept(q)
        BY <2>1, AllKept
    <2>3. ASSUME halted = "no", CallerInv PROVE CallerInv'
        <3>1. DriverInv
            BY <2>3 DEF HdSysInv, TaskInv
        <3>2. \A u \in User : UserOK(u)'
            BY <2>1, <2>2, <2>3, <3>1, FsServesOn, SysServesOn, UserKept DEF UserStays, CallerInv
        <3> QED  BY <2>1, <2>3, <3>2, RunsStay DEF CallerInv, Runs
    <2> QED  BY <1>1, <2>1, <2>2, <2>3 DEF HdSysInv
<1>3. CASE Next /\ harmed
    BY <1>1, <1>3, HarmStays DEF HdSysInv
<1>4. CASE Next /\ halted = "hd"
    BY <1>1, <1>4, HaltedNext DEF HdSysInv
<1>5. CASE Next /\ halted = "no" /\ CallerInv
    BY <1>1, <1>5, CallerNext DEF HdSysInv, TaskInv
<1> QED  BY <1>2, <1>3, <1>4, <1>5 DEF HdSysInv

(* Each task and each process in a call is at one of the places HdSysInv   *)
(* lists, with the entry in the process table that belongs to it: for any  *)
(* number of processes, tables and sectors.                                *)
THEOREM HdSysInvariant == Spec => []HdSysInv
<1>1. Init => HdSysInv
    BY TaskInit DEF HdSysInv
<1>2. HdSysInv /\ [Next]_vars => HdSysInv'
    BY HdSysNext
<1> QED  BY <1>1, <1>2, PTL DEF Spec

\* HD waits for the disk only while the disk is busy.
LEMMA InterruptComes ==
    ASSUME DriverInv, Awaiting(HD, INTERRUPT)
    PROVE  disk.busy \/ TooLong
<1> SUFFICES ASSUME ~disk.busy, ~TooLong PROVE FALSE
    OBVIOUS
<1> USE ProcFacts
<1>0. HdOK /\ DiskOK
    BY DEF DriverInv
<1>1. hd.at = "interrupted" /\ ~Unblocked(HD)
    BY <1>0, AllApart DEF HdOK, HdAtPlace, Apart
<1>2. hd.job # <<>> /\ hd.job \in Seq(Command) /\ hd.left \in Nat /\ disk.left \in Nat
    BY <1>0, <1>1, DriverTypes DEF HdOK, HdState, DiskState
<1>3. Head(hd.job).n \in Nat
    <2>1. Head(hd.job) \in Command
        BY <1>2
    <2> QED  BY <2>1 DEF Command
<1>4. Head(hd.job).n <= COUNT_VALUES
    BY <1>2, <1>3, HdSysAssumption DEF TooLong
<1>5. Reading
    BY <1>0, <1>1 DEF DiskOK, Polling, Written
<1> QED  BY <1>1, <1>2, <1>4, <1>5 DEF Reading, Transferring

\* A process that is served and cannot run awaits the answer.
LEMMA ServedAwaits ==
    ASSUME CallerInv, NEW u \in User, ~Unblocked(u)
    PROVE  /\ FsHas(u) => Awaiting(u, FS)
           /\ SysHas(u) => Awaiting(u, SYS)
BY DEF CallerInv, UserOK, Pending

\* When no task can run, HD, FS and SYS wait for requests, or in a circle.
LEMMA TasksWait ==
    ASSUME DriverInv, CallerInv, ~Unblocked(HD), ~Unblocked(SYS), ~Unblocked(FS),
           \A u \in User : InCall(u) => ~Unblocked(u),
           ~disk.busy, ~TooLong, ~KillCircle
    PROVE  Awaiting(HD, ANY) /\ Awaiting(FS, ANY) /\ Awaiting(SYS, ANY)
<1> USE ProcFacts
<1>0. HdOK /\ SysOK /\ FsOK /\ TasksPair /\ HdSysTypeOK /\ NoneMissed
    BY DEF DriverInv, CallerInv
<1>1. \A p, d \in Proc : SendsTo(p, d) => ~Awaiting(d, p) /\ ~Awaiting(d, ANY)
    BY <1>0, AllApart DEF NoneMissed, Awaits, Apart
<1>2. \A u \in User : ~SendsTo(FS, u) /\ ~SendsTo(SYS, u)
    <2>1. ASSUME NEW u \in User, SendsTo(FS, u) PROVE FALSE
        <3>1. FsHas(u)
            BY <2>1 DEF FsHas
        <3>2. Awaiting(u, FS)
            BY <3>1, Served, ServedAwaits
        <3> QED  BY <1>1, <2>1, <3>2
    <2>2. ASSUME NEW u \in User, SendsTo(SYS, u) PROVE FALSE
        <3>1. SysHas(u)
            BY <2>2 DEF SysHas
        <3>2. Awaiting(u, SYS)
            BY <3>1, Served, ServedAwaits
        <3> QED  BY <1>1, <2>2, <3>2
    <2> QED  BY <2>1, <2>2
<1>3. \/ SendsTo(HD, FS) /\ ~HdFree
      \/ SendsTo(HD, SYS) /\ ~HdFree
      \/ Awaiting(HD, SYS) /\ ~HdFree
      \/ Awaiting(HD, INTERRUPT)
      \/ Awaiting(HD, ANY) /\ HdFree
    <2>1. \/ SendsTo(HD, FS) \/ SendsTo(HD, SYS)
          \/ Awaiting(HD, SYS) \/ Awaiting(HD, INTERRUPT) \/ Awaiting(HD, ANY)
        BY <1>0 DEF HdOK, HdAtPlace
    <2>2. Awaiting(HD, SYS) => ~HdFree
        BY AllApart DEF HdFree, Apart
    <2> QED  BY <1>0, <2>1, <2>2, HdFreeIs
<1>4. ~Awaiting(HD, INTERRUPT)
    BY InterruptComes
<1>5. /\ Awaiting(FS, ANY) => HdFree
      /\ Awaiting(FS, HD) => ~HdFree
      /\ Awaiting(FS, ANY) \/ Awaiting(FS, HD) \/ (SendsTo(FS, HD) /\ HdFree)
           \/ (SendsTo(FS, SYS) /\ HdFree)
    BY <1>0, <1>2, FsIs DEF FsOK, FsAtPlace
<1>6. \/ Awaiting(SYS, ANY) \/ SendsTo(SYS, HD)
      \/ SendsTo(SYS, FS) /\ sys.at = "close"
      \/ Awaiting(SYS, FS)
    BY <1>0, <1>2 DEF SysOK, SysAtPlace
<1>7. /\ SendsTo(SYS, HD) <=> Awaiting(HD, SYS)
      /\ SendsTo(FS, SYS) <=> Awaiting(SYS, FS)
    BY <1>0 DEF TasksPair, HdAsks, SysHasHd, SysAsks, FsHasSys
<1>8. ~SendsTo(SYS, HD) /\ ~Awaiting(HD, SYS) /\ ~SendsTo(FS, SYS) /\ ~Awaiting(SYS, FS)
    BY <1>1, <1>7
<1>9. CASE HdFree
    <2>1. Awaiting(HD, ANY)
        BY <1>3, <1>4, <1>9
    <2>2. Awaiting(FS, ANY)
        BY <1>1, <1>5, <1>8, <1>9, <2>1
    <2>3. Awaiting(SYS, ANY)
        BY <1>1, <1>6, <1>8, <2>2
    <2> QED  BY <2>1, <2>2, <2>3
<1>10. CASE ~HdFree
    <2>1. Awaiting(FS, HD)
        BY <1>5, <1>10
    <2>2. SendsTo(HD, SYS)
        BY <1>1, <1>3, <1>4, <1>8, <1>10, <2>1
    <2>3. SendsTo(SYS, FS) /\ sys.at = "close"
        BY <1>1, <1>6, <1>8, <2>2
    <2>4. Sending(HD) /\ Sending(SYS) /\ Receiving(FS)
        BY <2>1, <2>2, <2>3 DEF SendsTo, Awaiting, Sending, Receiving
    <2> QED  BY <2>3, <2>4 DEF KillCircle
<1> QED  BY <1>9, <1>10

LEMMA SomeoneRuns ==
    ASSUME DriverInv, CallerInv, NEW u \in User, InCall(u)
    PROVE  \/ disk.busy \/ KillCircle \/ TooLong
           \/ Unblocked(HD) \/ Unblocked(SYS) \/ Unblocked(FS)
           \/ \E v \in User : InCall(v) /\ Unblocked(v)
<1> SUFFICES ASSUME ~disk.busy, ~TooLong, ~KillCircle,
                    ~Unblocked(HD), ~Unblocked(SYS), ~Unblocked(FS),
                    \A v \in User : InCall(v) => ~Unblocked(v)
             PROVE  FALSE
    OBVIOUS
<1> USE ProcFacts
<1>1. Awaiting(HD, ANY) /\ Awaiting(FS, ANY) /\ Awaiting(SYS, ANY)
    BY TasksWait
<1>2. fs.at = "dispatch" /\ sys.at = "dispatch"
    BY <1>1, FsIs, SysIs DEF DriverInv
<1>3. ~FsHas(u) /\ ~SysHas(u)
    BY <1>1, <1>2, AllApart DEF FsHas, SysHas, Apart
<1>4. UserOK(u) /\ NoneMissed /\ ~Unblocked(u)
    BY DEF CallerInv
<1>5. ~Pending(u)
    BY <1>3, <1>4 DEF UserOK, Server
<1>6. SendsTo(u, Server(user[u].call))
    BY <1>4, <1>5 DEF UserOK, Pending, InCall
<1>7. SendsTo(u, FS) \/ SendsTo(u, SYS)
    BY <1>6 DEF Server
<1> QED  BY <1>1, <1>4, <1>7 DEF NoneMissed, Awaits, Awaiting, Receiving

(* Until kill harms, no assertion fails and deadlock() does not panic, and *)
(* who is in a call is not waited for in vain: for any number of processes.*)
THEOREM DriversKeepRunning == Spec => []DriversRun
<1>1. ASSUME HdSysInv PROVE DriversRun
    <2>1. CASE harmed \/ halted = "hd"
        BY <2>1 DEF DriversRun
    <2>2. CASE halted = "no" /\ CallerInv
        <3>0. DriverInv
            BY <1>1, <2>2 DEF HdSysInv, TaskInv
        <3>1. ~Spins
            <4>1. SUFFICES ASSUME Spins PROVE FALSE
                OBVIOUS
            <4>2. hd.at = "dispatch" /\ p_flags[HD] = {} /\ buf[HD].source = INTERRUPT
                BY <4>1 DEF Spins, Runnable
            <4>3. Unblocked(HD) /\ ~Awaiting(HD, ANY)
                BY <3>0, <4>2, TasksRun, AllApart, ProcFacts DEF DriverInv, Apart
            <4>4. PICK m \in HdRequest : buf[HD] = Letter(FS, m)
                BY <3>0, <4>2, <4>3 DEF DriverInv, HdOK, HdAtPlace
            <4> QED  BY <4>2, <4>4, ProcFacts DEF Letter
        <3>2. ASSUME NEW u \in User, InCall(u)
              PROVE  \/ disk.busy \/ KillCircle \/ TooLong
                     \/ \E p \in Proc : Runnable(p) /\ (p \in User => InCall(p))
            <4>1. \A p \in Proc : Unblocked(p) => Runnable(p)
                BY <2>2 DEF Unblocked, Runnable
            <4> QED  BY <2>2, <3>0, <3>2, <4>1, SomeoneRuns, ProcFacts
        <3> QED  BY <2>2, <3>1, <3>2 DEF DriversRun
    <2> QED  BY <1>1, <2>1, <2>2 DEF HdSysInv
<1> QED  BY <1>1, HdSysInvariant, PTL
=============================================================================
