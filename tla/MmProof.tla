------------------------------ MODULE MmProof ------------------------------
(***************************************************************************)
(* Proofs about Mm, for any number of process slots: MmInv is inductive,   *)
(* hence no call of fork, wait or exit makes the kernel assert or panic,   *)
(* the process table is settled between two requests, and each caller gets *)
(* the answer to its own call.                                             *)
(***************************************************************************)
EXTENDS Mm, IpcProof, FiniteSetTheorems, WellFoundedInduction

\* The slot that MM picks of a set of slots is one of the set.
LEMMA MinIsMember ==
    ASSUME NEW S \in SUBSET Nat, S # {}
    PROVE  Min(S) \in S
<1> DEFINE R == StrictSubsetOrdering(Nat)
           T == {0..n : n \in S}
<1>1. T # {} /\ T \subseteq FiniteSubsetsOf(Nat)
    <2>1. ASSUME NEW n \in S PROVE 0..n \in FiniteSubsetsOf(Nat)
        <3>1. IsFiniteSet(0..n)
            BY FS_Interval, 0 \in Int, n \in Int
        <3> QED  BY <3>1 DEF FiniteSubsetsOf
    <2> QED  BY <2>1
<1>2. PICK X \in T : \A Y \in T : <<Y, X>> \notin R
    BY <1>1, WFMin, FS_StrictSubsetOrderingWellFounded
<1>3. PICK x \in S : X = 0..x
    BY <1>2
<1>4. ASSUME NEW y \in S PROVE x =< y
    <2>1. SUFFICES ASSUME y < x PROVE FALSE
        BY <1>3
    <2>2. 0..y \subseteq 0..x /\ 0..y # 0..x
        BY <2>1
    <2>3. <<0..y, 0..x>> \in R
        BY <2>2 DEF StrictSubsetOrdering
    <2> QED  BY <2>3, <1>3, <1>2
<1> QED  BY <1>4 DEF Min

\* The processes are the two tasks and the slots, all different.
LEMMA ProcFacts ==
    /\ MM \in Proc /\ FS \in Proc /\ InitProc \in Slot
    /\ MM \notin Slot /\ FS \notin Slot /\ MM # FS /\ InitProc \notin User
    /\ User \subseteq Slot /\ Slot \subseteq Proc /\ Slot \subseteq Nat
    /\ Proc = {MM, FS} \cup Slot
    /\ NO_TASK \notin Proc /\ ANY \notin Proc /\ INTERRUPT \notin Proc
    /\ NO_TASK # ANY /\ ANY # INTERRUPT /\ NO_TASK # INTERRUPT
BY MmAssumption, SentinelAssumption DEF Slot

-----------------------------------------------------------------------------
(* Steps of the kernel *)

\* The entry of q in the process table, and its MESSAGE buffer, stay.
EntryKept(q) ==
    /\ p_flags'[q] = p_flags[q] /\ p_msg'[q] = p_msg[q]
    /\ p_sendto'[q] = p_sendto[q] /\ p_recvfrom'[q] = p_recvfrom[q]
Kept(q) == EntryKept(q) /\ buf'[q] = buf[q]

\* What becomes of a message of p for d.
HandedOver(p, d) ==
    Awaits(d, p) /\ EntryKept(p) /\ Ready(d)' /\ buf'[d] = buf'[p]
Blocked(p, d) == ~Awaits(d, p) /\ SendsTo(p, d)' /\ Kept(d)

\* What becomes of a RECEIVE of p: the message of q, or waiting.
Taken(p, q, src) ==
    /\ q # p /\ SendsTo(q, p) /\ src \in {ANY, q}
    /\ Ready(q)' /\ EntryKept(p) /\ buf'[p] = buf[q] /\ buf'[q] = buf[q]
    /\ \A r \in Proc \ {p, q} : Kept(r)
Waits(p, src) ==
    /\ Awaiting(p, src)'
    /\ \A r \in Proc \ {p} : Kept(r) /\ ~(SendsTo(r, p) /\ src \in {ANY, r})

\* A send of a process that is not blocked, to one that does not wait for it
\* over others, ends in a delivery or with the sender in the queue.
LEMMA SendStep ==
    ASSUME TableOK, NEW p \in Proc, NEW d \in Proc, NEW m \in Mail, Ready(p),
           NEW S \in SUBSET Proc, d \in S, p \notin S,
           \A q \in S : Sending(q) => p_sendto[q] \in S,
           Awaits(d, p) =>
                p_flags[d] = {"RECEIVING"} /\ p_msg[d] /\ p_sendto[d] = NO_TASK,
           MsgSend(p, d, m)
    PROVE  /\ TableOK'
           /\ buf'[p] = [source |-> p, body |-> m]
           /\ \A q \in Proc \ {p, d} : Kept(q)
           /\ HandedOver(p, d) \/ Blocked(p, d)
<1> USE ProcFacts
<1>1. ~Deadlock(p, d) /\ p # d
    BY DEF Deadlock, MsgSend
<1>2. [source |-> p, body |-> m] \in [source : Proc, body : Mail]
    OBVIOUS
<1> DEFINE msg == [source |-> p, body |-> m]
<1>3. CASE SendDeliver(p, d, m)
    <2>1. Awaits(d, p)
        BY <1>3 DEF SendDeliver
    <2>2. p_flags[d] = {"RECEIVING"} /\ p_msg[d] /\ p_sendto[d] = NO_TASK
        BY <2>1
    <2>3. /\ buf' = [buf EXCEPT ![p] = msg, ![d] = msg]
          /\ p_msg' = [p_msg EXCEPT ![d] = FALSE]
          /\ p_flags' = [p_flags EXCEPT ![d] = @ \ {"RECEIVING"}]
          /\ p_recvfrom' = [p_recvfrom EXCEPT ![d] = NO_TASK]
          /\ UNCHANGED <<p_sendto, q_sending, has_int_msg>>
        BY <1>3 DEF SendDeliver
    <2>4. p_flags'[d] = {} /\ \A q \in Proc \ {d} : p_flags'[q] = p_flags[q]
        BY <2>2, <2>3 DEF TableOK
    <2>5. halted' = halted
        BY <1>3, <2>2, <2>4 DEF SendDeliver, Asserting, Ready
    <2> HIDE DEF msg
    <2>6. /\ buf'[p] = msg /\ buf'[d] = msg /\ Ready(d)' /\ EntryKept(p)
          /\ \A q \in Proc \ {p, d} : Kept(q)
        BY <1>1, <2>2, <2>3, <2>4 DEF TableOK, Ready, Kept, EntryKept
    <2>7. QueueExact'
        <3>1. \A q \in Proc : (Sending(q) <=> Sending(q)')
            BY <2>2, <2>4 DEF Sending
        <3>2. QueueExact
            BY DEF TableOK
        <3> QED  BY <2>3, <3>1, <3>2 DEF QueueExact
    <2>8. /\ p_flags' \in [Proc -> SUBSET Flag] /\ p_msg' \in [Proc -> BOOLEAN]
          /\ p_recvfrom' \in [Proc -> Source \cup {NO_TASK}]
          /\ buf' \in [Proc -> [source : Proc, body : Mail]]
        BY <2>3, <1>2 DEF TableOK, msg
    <2> QED
        BY <2>1, <2>3, <2>5, <2>6, <2>7, <2>8 DEF TableOK, KernelRuns, HandedOver, msg
<1>4. CASE SendBlock(p, d, m)
    <2>1. ~Awaits(d, p)
        BY <1>4 DEF SendBlock, BlockSender
    <2>3. /\ buf' = [buf EXCEPT ![p] = msg]
          /\ p_msg' = [p_msg EXCEPT ![p] = TRUE]
          /\ p_flags' = [p_flags EXCEPT ![p] = @ \cup {"SENDING"}]
          /\ p_sendto' = [p_sendto EXCEPT ![p] = d]
          /\ UNCHANGED <<p_recvfrom, has_int_msg>>
          /\ q_sending' = [q_sending EXCEPT ![d] = Append(@, p)]
        BY <1>4 DEF SendBlock, BlockSender
    <2>4. p_flags'[p] = {"SENDING"} /\ \A q \in Proc \ {p} : p_flags'[q] = p_flags[q]
        BY <2>3 DEF TableOK, Ready
    <2>5. halted' = halted
        BY <1>4, <2>4 DEF SendBlock, BlockSender, Asserting, Ready
    <2> HIDE DEF msg
    <2>6. /\ buf'[p] = msg /\ SendsTo(p, d)' /\ Kept(d)
          /\ \A q \in Proc \ {p, d} : Kept(q)
        BY <1>1, <2>3, <2>4 DEF TableOK, Ready, SendsTo, Kept, EntryKept
    <2>7. QueueExact' /\ q_sending' \in [Proc -> Seq(Proc)]
        <3>1. /\ Sending(p)' /\ p_sendto'[p] = d /\ ~Sending(p)
              /\ \A q \in Proc \ {p} : (Sending(q)' <=> Sending(q))
                                       /\ p_sendto'[q] = p_sendto[q]
            BY <2>3, <2>4 DEF Sending, Ready, TableOK
        <3>2. \A e \in Proc : /\ ToSet(q_sending[e]) = {q \in Proc : Sending(q) /\ p_sendto[q] = e}
                              /\ IsInjective(q_sending[e]) /\ q_sending[e] \in Seq(Proc)
            BY DEF TableOK, QueueExact
        <3>3. p \notin ToSet(q_sending[d])
            BY <3>1, <3>2
        <3>4. /\ Append(q_sending[d], p) \in Seq(Proc)
              /\ ToSet(Append(q_sending[d], p)) = ToSet(q_sending[d]) \cup {p}
              /\ IsInjective(Append(q_sending[d], p))
            BY <3>2, <3>3, QueueAppend
        <3>5. /\ q_sending'[d] = Append(q_sending[d], p)
              /\ \A e \in Proc \ {d} : q_sending'[e] = q_sending[e]
            BY <2>3 DEF TableOK
        <3>6. ASSUME NEW e \in Proc
              PROVE  /\ ToSet(q_sending'[e]) = {q \in Proc : Sending(q)' /\ p_sendto'[q] = e}
                     /\ IsInjective(q_sending'[e])
            <4>1. CASE e = d
                <5>1. {q \in Proc : Sending(q)' /\ p_sendto'[q] = d}
                        = {q \in Proc : Sending(q) /\ p_sendto[q] = d} \cup {p}
                    BY <3>1
                <5> QED  BY <4>1, <5>1, <3>2, <3>4, <3>5
            <4>2. CASE e # d
                <5>1. {q \in Proc : Sending(q)' /\ p_sendto'[q] = e}
                        = {q \in Proc : Sending(q) /\ p_sendto[q] = e}
                    BY <4>2, <3>1
                <5> QED  BY <4>2, <5>1, <3>2, <3>5
            <4> QED  BY <4>1, <4>2
        <3>7. q_sending' \in [Proc -> Seq(Proc)]
            BY <2>3, <3>4 DEF TableOK
        <3> QED  BY <3>6, <3>7 DEF QueueExact
    <2>8. /\ p_flags' \in [Proc -> SUBSET Flag] /\ p_msg' \in [Proc -> BOOLEAN]
          /\ p_sendto' \in [Proc -> Proc \cup {NO_TASK}]
          /\ buf' \in [Proc -> [source : Proc, body : Mail]]
        BY <2>3, <1>2 DEF TableOK, msg, Flag
    <2> QED
        BY <2>1, <2>3, <2>5, <2>6, <2>7, <2>8 DEF TableOK, KernelRuns, Blocked, msg
<1> QED
    BY <1>1, <1>3, <1>4 DEF MsgSend, SendPanic

\* A RECEIVE of a process that is not blocked takes a message from a sender
\* it asked for, or blocks if there is none.
LEMMA ReceiveStep ==
    ASSUME TableOK, NEW p \in Proc, NEW src \in Proc \cup {ANY}, Ready(p),
           \A q \in Proc : Sending(q) /\ p_sendto[q] = p => SendsTo(q, p),
           MsgReceive(p, src)
    PROVE  /\ TableOK'
           /\ (\E q \in Proc : Taken(p, q, src)) \/ Waits(p, src)
<1> USE ProcFacts
<1>1. ~TakesInt(p, src) /\ ~has_int_msg[p]
    BY DEF TakesInt, TableOK
<1>2. \A e \in Proc : /\ ToSet(q_sending[e]) = {q \in Proc : Sending(q) /\ p_sendto[q] = e}
                      /\ IsInjective(q_sending[e]) /\ q_sending[e] \in Seq(Proc)
    BY DEF TableOK, QueueExact
<1>3. /\ \A i \in DOMAIN q_sending[p] : q_sending[p][i] \in Proc /\ SendsTo(q_sending[p][i], p)
      /\ \A q \in Proc : SendsTo(q, p) => \E i \in DOMAIN q_sending[p] : q_sending[p][i] = q
    BY <1>2 DEF ToSet, SendsTo, Sending
<1>4. ASSUME NEW i \in DOMAIN q_sending[p], ReceiveTake(p, src, i)
      PROVE  TableOK' /\ \E q \in Proc : Taken(p, q, src)
    <2>0. PICK q \in Proc : q = q_sending[p][i]
        BY <1>3
    <2>1. SendsTo(q, p) /\ q # p
        BY <1>3, <2>0 DEF SendsTo, Ready
    <2>2. src \in {ANY, q}
        BY <1>4, <2>0 DEF ReceiveTake, Picks
    <2>3. /\ buf' = [buf EXCEPT ![p] = buf[q]]
          /\ p_msg' = [p_msg EXCEPT ![q] = FALSE]
          /\ p_sendto' = [p_sendto EXCEPT ![q] = NO_TASK]
          /\ p_flags' = [p_flags EXCEPT ![q] = @ \ {"SENDING"}]
          /\ UNCHANGED <<p_recvfrom, has_int_msg>>
          /\ q_sending' = [q_sending EXCEPT ![p] = RemoveAt(@, i)]
        BY <1>4, <2>0 DEF ReceiveTake, TakeFrom, Unlink
    <2>4. halted' = halted
        BY <1>4, <2>0, <2>1 DEF ReceiveTake, TakeFrom, Asserting, SendsTo, Ready
    <2>5. p_flags'[q] = {} /\ \A r \in Proc \ {q} : p_flags'[r] = p_flags[r]
        BY <2>1, <2>3 DEF TableOK, SendsTo
    <2>9. /\ p_msg'[q] = FALSE
          /\ p_sendto'[q] = NO_TASK /\ buf'[p] = buf[q]
          /\ \A r \in Proc \ {q} : p_msg'[r] = p_msg[r] /\ p_sendto'[r] = p_sendto[r]
          /\ \A r \in Proc \ {p} : buf'[r] = buf[r]
        BY <2>1, <2>3 DEF TableOK
    <2>6. Taken(p, q, src)
        <3>1. \A r \in Proc \ {q} : EntryKept(r)
            BY <2>3, <2>5, <2>9 DEF EntryKept
        <3>2. Ready(q)'
            BY <2>1, <2>3, <2>5, <2>9 DEF SendsTo, Ready
        <3> QED  BY <2>1, <2>2, <2>9, <3>1, <3>2 DEF Taken, Kept
    <2>7. QueueExact' /\ q_sending' \in [Proc -> Seq(Proc)]
        <3>1. /\ Sending(q) /\ ~Sending(q)' /\ p_sendto[q] = p
              /\ \A r \in Proc \ {q} : (Sending(r)' <=> Sending(r))
                                       /\ p_sendto'[r] = p_sendto[r]
            BY <2>1, <2>5, <2>9 DEF Sending, SendsTo
        <3>2. /\ RemoveAt(q_sending[p], i) \in Seq(Proc)
              /\ ToSet(RemoveAt(q_sending[p], i)) = ToSet(q_sending[p]) \ {q}
              /\ IsInjective(RemoveAt(q_sending[p], i))
            BY <1>2, <2>0, QueueRemove
        <3>3. /\ q_sending'[p] = RemoveAt(q_sending[p], i)
              /\ \A e \in Proc \ {p} : q_sending'[e] = q_sending[e]
            BY <2>3 DEF TableOK
        <3>4. ASSUME NEW e \in Proc
              PROVE  /\ ToSet(q_sending'[e]) = {r \in Proc : Sending(r)' /\ p_sendto'[r] = e}
                     /\ IsInjective(q_sending'[e])
            <4>1. CASE e = p
                <5>1. {r \in Proc : Sending(r)' /\ p_sendto'[r] = p}
                        = {r \in Proc : Sending(r) /\ p_sendto[r] = p} \ {q}
                    BY <3>1
                <5> QED  BY <4>1, <5>1, <1>2, <3>2, <3>3
            <4>2. CASE e # p
                <5>1. {r \in Proc : Sending(r)' /\ p_sendto'[r] = e}
                        = {r \in Proc : Sending(r) /\ p_sendto[r] = e}
                    BY <4>2, <3>1
                <5> QED  BY <4>2, <5>1, <1>2, <3>3
            <4> QED  BY <4>1, <4>2
        <3>5. q_sending' \in [Proc -> Seq(Proc)]
            BY <2>3, <3>2 DEF TableOK
        <3> QED  BY <3>4, <3>5 DEF QueueExact
    <2>8. /\ p_flags' \in [Proc -> SUBSET Flag] /\ p_msg' \in [Proc -> BOOLEAN]
          /\ p_sendto' \in [Proc -> Proc \cup {NO_TASK}]
          /\ buf' \in [Proc -> [source : Proc, body : Mail]]
        BY <2>1, <2>3 DEF TableOK
    <2> QED
        BY <2>1, <2>3, <2>4, <2>6, <2>7, <2>8 DEF TableOK, KernelRuns
<1>5. CASE ReceiveBlock(p, src)
    <2>1. \A r \in Proc : ~(SendsTo(r, p) /\ src \in {ANY, r})
        <3>1. ASSUME NEW r \in Proc, SendsTo(r, p), src \in {ANY, r} PROVE FALSE
            <4>1. PICK i \in DOMAIN q_sending[p] : q_sending[p][i] = r
                BY <3>1, <1>3
            <4>2. Sending(r) /\ p_sendto[r] = p
                BY <3>1 DEF SendsTo, Sending
            <4>3. CASE src = ANY
                <5>1. 1 \in DOMAIN q_sending[p]
                    BY <4>1, <1>2, LenProperties
                <5> QED  BY <4>3, <5>1, <1>5 DEF ReceiveBlock, Picks
            <4>4. CASE src # ANY
                BY <4>1, <4>2, <4>4, <3>1, <1>5 DEF ReceiveBlock, Picks
            <4> QED  BY <4>3, <4>4
        <3> QED  BY <3>1
    <2>3. /\ buf' = [buf EXCEPT ![p].source = p]
          /\ p_msg' = [p_msg EXCEPT ![p] = TRUE]
          /\ p_flags' = [p_flags EXCEPT ![p] = @ \cup {"RECEIVING"}]
          /\ p_recvfrom' = [p_recvfrom EXCEPT ![p] = src]
          /\ UNCHANGED <<p_sendto, q_sending, has_int_msg>>
        BY <1>5 DEF ReceiveBlock, BlockReceiver
    <2>4. p_flags'[p] = {"RECEIVING"} /\ \A q \in Proc \ {p} : p_flags'[q] = p_flags[q]
        BY <2>3 DEF TableOK, Ready
    <2>5. halted' = halted
        BY <1>1, <1>5, <2>4 DEF ReceiveBlock, BlockReceiver, Asserting, Ready
    <2>6. Waits(p, src)
        BY <2>1, <2>3, <2>4 DEF TableOK, Waits, Ready, Awaiting, Kept, EntryKept
    <2>7. QueueExact'
        <3>1. \A q \in Proc : (Sending(q) <=> Sending(q)')
            BY <2>4 DEF Sending, Ready
        <3>2. QueueExact
            BY DEF TableOK
        <3> QED  BY <2>3, <3>1, <3>2 DEF QueueExact
    <2>8. /\ p_flags' \in [Proc -> SUBSET Flag] /\ p_msg' \in [Proc -> BOOLEAN]
          /\ p_recvfrom' \in [Proc -> Source \cup {NO_TASK}]
          /\ buf' \in [Proc -> [source : Proc, body : Mail]]
        BY <2>3 DEF TableOK, Flag, Source
    <2> QED
        BY <2>3, <2>5, <2>6, <2>7, <2>8 DEF TableOK, KernelRuns
<1> QED
    BY <1>1, <1>4, <1>5 DEF MsgReceive, ReceiveInt

\* A step that sets other flags than SENDING, or writes buffers, keeps the
\* table as Ipc has it.
LEMMA FlagStep ==
    ASSUME TableOK, p_flags' \in [Proc -> SUBSET Flag],
           \A q \in Proc : Sending(q)' <=> Sending(q),
           buf' \in [Proc -> [source : Proc, body : Mail]],
           UNCHANGED <<p_sendto, p_recvfrom, p_msg, q_sending, has_int_msg, halted>>
    PROVE  TableOK'
<1>1. QueueExact'
    <2>1. QueueExact
        BY DEF TableOK
    <2> QED  BY <2>1 DEF QueueExact
<1> QED
    BY <1>1 DEF TableOK, KernelRuns

-----------------------------------------------------------------------------
(* Parts of the invariant *)

\* What the places say of the entries of MM, FS and the callers: a process
\* with no flag is not blocked, and one that sends is blocked by that alone,
\* sending to a process that does not send itself, or to MM.
LEMMA Entries ==
    ASSUME MmInv
    PROVE  /\ \A q \in Slot : Sending(q) => SendsTo(q, MM)
           /\ \/ Ready(MM) \/ Awaiting(MM, ANY)
              \/ Awaiting(MM, FS) /\ mm.at \in {"birth", "exit_parent"}
              \/ \E d \in Proc \ {MM} : SendsTo(MM, d) /\ ~Sending(d)
           /\ Ready(FS) \/ Awaiting(FS, ANY) \/ (SendsTo(FS, MM) /\ Ready(MM))
           /\ \A q \in Proc : p_flags[q] = {} => Ready(q)
           /\ \A q, d \in Proc : Sending(q) /\ p_sendto[q] = d => SendsTo(q, d)
<1> USE ProcFacts
<1>1. ASSUME NEW q \in Slot
      PROVE  (Sending(q) => SendsTo(q, MM)) /\ (p_flags[q] = {} => Ready(q))
    <2>1. UserOK(q)
        BY DEF MmInv
    <2> QED  BY <2>1 DEF UserOK, Pending, Bits, Ready, SendsTo, Sending, Receiving, Free
<1>2. \A d \in Slot : Open(d) => ~Sending(d)
    BY DEF Open, Pending, Bits, Sending
<1>3. /\ Ready(FS) \/ Awaiting(FS, ANY) \/ (SendsTo(FS, MM) /\ Ready(MM))
      /\ mm.at \in {"fork_told", "exit_told"} =>
            Ready(MM) \/ (SendsTo(MM, FS) /\ ~Sending(FS))
      /\ mm.at \in {"birth", "exit_parent"} => Ready(MM) \/ Awaiting(MM, FS)
    BY DEF MmInv, FsPlace, FsQuiet, FsAsked, Sending, Ready
<1>4. \/ Ready(MM) \/ Awaiting(MM, ANY)
      \/ Awaiting(MM, FS) /\ mm.at \in {"birth", "exit_parent"}
      \/ \E d \in Proc \ {MM} : SendsTo(MM, d) /\ ~Sending(d)
    <2>1. CASE AtLoop
        BY <2>1, <1>2 DEF AtLoop, Serves
    <2>2. CASE AtDispatch
        BY <2>2 DEF AtDispatch
    <2>3. CASE AtFork
        BY <2>3, <1>2, <1>3 DEF AtFork, Serves
    <2>4. CASE AtReply \/ AtChildren
        BY <2>4 DEF AtReply, AtChildren
    <2>5. CASE AtExit
        BY <2>5, <1>3 DEF AtExit
    <2>6. CASE AtCleanup
        <3>1. p_parent[mm.proc] \in Slot
            BY <2>6 DEF AtCleanup
        <3>2. Ready(MM) \/ (SendsTo(MM, p_parent[mm.proc]) /\ Open(p_parent[mm.proc]))
            BY <2>6, <3>1 DEF AtCleanup, Serves
        <3> QED  BY <1>2, <3>1, <3>2
    <2> QED  BY <2>1, <2>2, <2>3, <2>4, <2>5, <2>6 DEF MmInv, MmPlace
<1>5. \A q \in {MM, FS} : /\ p_flags[q] = {} => Ready(q)
                         /\ Sending(q) => SendsTo(q, p_sendto[q])
    BY <1>3, <1>4 DEF Ready, Awaiting, SendsTo, Sending
<1>6. \A q, d \in Proc : Sending(q) /\ p_sendto[q] = d => SendsTo(q, d)
    <2>1. ASSUME NEW q \in Proc, Sending(q) PROVE SendsTo(q, p_sendto[q])
        <3>1. CASE q \in Slot
            BY <2>1, <3>1, <1>1 DEF SendsTo
        <3>2. CASE q \in {MM, FS}
            BY <2>1, <3>2, <1>5 DEF Sending, SendsTo
        <3> QED  BY <3>1, <3>2
    <2> QED  BY <2>1
<1>7. \A q \in Proc : p_flags[q] = {} => Ready(q)
    <2>1. ASSUME NEW q \in Proc, p_flags[q] = {} PROVE Ready(q)
        <3>1. CASE q \in Slot
            BY <2>1, <3>1, <1>1
        <3>2. CASE q = MM
            BY <2>1, <3>2, <1>4 DEF Ready, Awaiting, SendsTo
        <3>3. CASE q = FS
            BY <2>1, <3>3, <1>3 DEF Ready, Awaiting, SendsTo
        <3> QED  BY <3>1, <3>2, <3>3
    <2> QED  BY <2>1
<1>8. \A q \in Slot : Sending(q) => SendsTo(q, MM)
    BY <1>1
<1> QED
    BY <1>3, <1>4, <1>6, <1>7, <1>8

\* A process that a step leaves alone.
SameUser(p) == Kept(p) /\ call'[p] = call[p] /\ stage'[p] = stage[p]

\* The children of p that fork may have told it of stay its children.
ForkPidsStay(p) ==
    Ready(p) /\ call[p] = "FORK" /\ stage[p] = "received" =>
        \A pid \in User : p_parent[pid] = p /\ ~Free(pid)
                             => p_parent'[pid] = p /\ ~Free(pid)'

SameMarks(p) ==
    /\ Free(p)' <=> Free(p)
    /\ Hanging(p)' <=> Hanging(p)
    /\ Waiting(p)' <=> Waiting(p)

LEMMA UserStays ==
    ASSUME NEW p \in Slot, UserOK(p), SameUser(p), ForkPidsStay(p)
    PROVE  /\ UserOK(p)'
           /\ (Pending(p)' <=> Pending(p)) /\ (Open(p)' <=> Open(p))
           /\ SameMarks(p)
           /\ ForkReturns(p) /\ WaitReturns(p)
<1>1. /\ p_flags'[p] = p_flags[p] /\ p_msg'[p] = p_msg[p]
      /\ p_sendto'[p] = p_sendto[p] /\ p_recvfrom'[p] = p_recvfrom[p]
      /\ buf'[p] = buf[p] /\ call'[p] = call[p] /\ stage'[p] = stage[p]
    BY DEF SameUser, Kept, EntryKept
<1>2. /\ Free(p)' <=> Free(p)
      /\ Hanging(p)' <=> Hanging(p)
      /\ Waiting(p)' <=> Waiting(p)
      /\ Receiving(p)' <=> Receiving(p)
      /\ Ready(p)' <=> Ready(p)
      /\ SendsTo(p, MM)' <=> SendsTo(p, MM)
    BY <1>1 DEF Free, Hanging, Waiting, Receiving, Ready, SendsTo
<1>3. (Pending(p)' <=> Pending(p)) /\ (Open(p)' <=> Open(p))
    BY <1>1, <1>2 DEF Pending, Open
<1>4. ForkReturns(p) /\ WaitReturns(p)
    BY <1>1, <1>2 DEF ForkReturns, WaitReturns, Answered
<1>5. Ready(p) /\ call[p] = "FORK" /\ stage[p] = "received" /\ ForkPid(p, buf[p].body.pid)
        => ForkPid(p, buf[p].body.pid)'
    BY <1>1 DEF ForkPidsStay, ForkPid
<1>6. UserOK(p)'
    BY <1>1, <1>2, <1>3, <1>5 DEF UserOK
<1> QED
    BY <1>2, <1>3, <1>4, <1>6 DEF SameMarks

\* A step that moves nobody in or out of the family, and sets no mark.
LEMMA FamilyStays ==
    ASSUME FamilyOK, MmTypeOK, p_parent' = p_parent,
           \A p \in Slot : SameMarks(p),
           \A p \in Slot : Leaving(p) => Leaving(p)'
    PROVE  FamilyOK'
<1> USE ProcFacts
<1>1. \A c \in User : p_parent[c] \in Slot \cup {NO_TASK}
    BY DEF MmTypeOK
<1>2. ASSUME NEW c \in User
      PROVE  /\ p_parent'[c] # c
             /\ p_parent'[c] = NO_TASK => Free(c)'
             /\ p_parent'[c] # NO_TASK =>
                   \/ ~Free(p_parent[c])' /\ ~Hanging(p_parent[c])'
                   \/ Leaving(p_parent[c])'
             /\ Hanging(c)' => ~Waiting(p_parent[c])'
    <2>1. PICK d \in Slot \cup {NO_TASK} : d = p_parent[c]
        BY <1>1
    <2>2. /\ d # c
          /\ d = NO_TASK => Free(c)
          /\ d # NO_TASK => (~Free(d) /\ ~Hanging(d)) \/ Leaving(d)
          /\ Hanging(c) => ~Waiting(d)
        BY <2>1 DEF FamilyOK
    <2>3. p_parent'[c] = d /\ SameMarks(c) /\ (Hanging(c) => ~Free(c))
        <3>1. p_parent'[c] = d /\ SameMarks(c)
            BY <2>1
        <3>2. p_flags[c] = {"FREE_SLOT"} => "HANGING" \notin p_flags[c]
            OBVIOUS
        <3> QED  BY <3>1, <3>2 DEF Hanging, Free
    <2>4. CASE d = NO_TASK
        BY <2>1, <2>2, <2>3, <2>4 DEF SameMarks
    <2>5. CASE d \in Slot
        <3>1. SameMarks(d) /\ (Leaving(d) => Leaving(d)') /\ d # NO_TASK
            BY <2>5
        <3> QED  BY <2>1, <2>2, <2>3, <3>1 DEF SameMarks
    <2> QED  BY <2>4, <2>5
<1> QED
    <2>1. p_parent'[InitProc] = NO_TASK
        BY DEF FamilyOK
    <2> QED  BY <1>2, <2>1 DEF FamilyOK

\* What a step of a process may change for the others: nothing that MM has
\* still to answer, and no exit.
StaysOwed(q) ==
    /\ SameMarks(q) /\ (Open(q)' <=> Open(q))
    /\ Pending(q) => Pending(q)' /\ call'[q] = call[q]
    /\ call[q] = "EXIT" => call'[q] = "EXIT"
    /\ call'[q] = "FORK" /\ stage'[q] = "received" =>
            (call[q] = "FORK" /\ stage[q] = "received") \/ Open(q)

LEMMA RightStays ==
    ASSUME NEW p \in Slot, NEW a, Right(p, a), call'[p] = call[p],
           p_parent' = p_parent,
           \A q \in Slot : SameMarks(q) /\ (call[q] = "EXIT" => call'[q] = "EXIT")
    PROVE  Right(p, a)'
<1> USE ProcFacts
<1>1. ForkPid(p, a.pid) => ForkPid(p, a.pid)'
    BY DEF ForkPid, SameMarks
<1>2. WaitPid(p, a.pid) => WaitPid(p, a.pid)'
    BY DEF WaitPid, SameMarks
<1> QED
    BY <1>1, <1>2 DEF Right

LEMMA PlaceStays ==
    ASSUME MmInv, mm' = mm, p_parent' = p_parent,
           \/ Kept(MM)
           \/ mm.at \in {"fork_told", "exit_told", "birth", "exit_parent"},
           \A q \in Slot : StaysOwed(q)
    PROVE  MmPlace'
<1> USE ProcFacts
<1>1. \A q \in Slot : Open(q) =>
            Pending(q) /\ call'[q] = call[q] /\ q \in Slot
    BY DEF Open, StaysOwed
<1>2. \A S : Serves(S) => Serves(S)' /\ \A q \in S : q \in Slot /\ Open(q) /\ call'[q] = call[q]
    BY <1>1 DEF Serves, StaysOwed
<1>3. \A q \in Slot : SameMarks(q) /\ (call[q] = "EXIT" => call'[q] = "EXIT")
    BY DEF StaysOwed
<1>4. Kept(MM) => /\ buf'[MM] = buf[MM]
                  /\ Ready(MM)' <=> Ready(MM)
                  /\ Awaiting(MM, ANY)' <=> Awaiting(MM, ANY)
                  /\ \A d : SendsTo(MM, d)' <=> SendsTo(MM, d)
    BY DEF Kept, EntryKept, Ready, Awaiting, SendsTo
<1>5. CASE AtLoop
    <2>1. Kept(MM)
        BY <1>5 DEF AtLoop, MmIdle
    <2>2. CASE Ready(MM) /\ Serves({})
        BY <1>2, <1>4, <1>5, <2>1, <2>2 DEF AtLoop, MmPlace
    <2>3. ASSUME NEW p \in Slot, SendsTo(MM, p), Serves({p}),
                 buf[MM].source = MM, Right(p, buf[MM].body)
          PROVE  AtLoop'
        <3>1. PICK a : a = buf[MM].body
            OBVIOUS
        <3>2. Right(p, a)'
            BY <1>2, <1>3, <2>3, <3>1, RightStays
        <3>3. buf'[MM].body = a
            BY <2>1, <1>4, <3>1
        <3>4. Right(p, buf[MM].body)'
            BY <3>2, <3>3 DEF Right
        <3> QED  BY <1>2, <1>4, <1>5, <2>1, <2>3, <3>4 DEF AtLoop
    <2> QED  BY <1>5, <2>2, <2>3 DEF AtLoop, MmPlace
<1>6. CASE AtDispatch
    <2>1. Kept(MM)
        BY <1>6 DEF AtDispatch, MmIdle
    <2> QED  BY <1>2, <1>4, <1>6, <2>1 DEF AtDispatch, MmPlace
<1>7. CASE AtFork
    <2>1. /\ mm.src \in Slot /\ mm.proc \in Slot
          /\ Serves({mm.src, mm.proc})' /\ call'[mm.src] = "FORK" /\ call'[mm.proc] = "FORK"
        BY <1>2, <1>7 DEF AtFork
    <2>2. \/ Kept(MM)
          \/ mm.at \in {"fork_told", "birth"}
        BY <1>7 DEF AtFork
    <2>3. AtFork'
        BY <1>4, <1>7, <2>1, <2>2 DEF AtFork
    <2> QED  BY <2>3 DEF MmPlace
<1>8. CASE AtReply
    <2>1. Kept(MM)
        BY <1>8 DEF AtReply
    <2>2. PICK a : a = Ret(mm.proc, mm.ret)
        OBVIOUS
    <2>3. Right(mm.src, a)'
        <3>1. PICK p \in Slot : p = mm.src
            BY <1>8 DEF AtReply
        <3>2. call'[p] = call[p] /\ Right(p, a)
            BY <1>2, <1>8, <3>1, <2>2 DEF AtReply
        <3>3. Right(p, a)'
            BY <1>3, <3>2, RightStays
        <3> QED  BY <3>1, <3>3
    <2>4. AtReply'
        BY <1>2, <1>4, <1>8, <2>1, <2>2, <2>3 DEF AtReply
    <2> QED  BY <2>4 DEF MmPlace
<1>9. CASE AtExit
    BY <1>2, <1>9 DEF AtExit, MmPlace
<1>10. CASE AtChildren
    <2>1. Kept(MM)
        BY <1>10 DEF AtChildren
    <2>2. SameMarks(mm.src)
        BY <1>3, <1>10 DEF AtChildren
    <2>3. AtChildren'
        BY <1>2, <1>4, <1>10, <2>1, <2>2 DEF AtChildren, SameMarks
    <2> QED  BY <2>3 DEF MmPlace
<1>11. CASE AtCleanup
    <2>1. Kept(MM)
        BY <1>11 DEF AtCleanup
    <2>2. PICK c \in User : c = mm.proc
        BY <1>11 DEF AtCleanup
    <2>3. PICK parent \in Slot : parent = p_parent[c]
        BY <1>11, <2>2 DEF AtCleanup
    <2>4. PICK ending : ending = {q \in {c} : ~Hanging(q)}
        OBVIOUS
    <2>5. ending = {q \in {c} : ~Hanging(q)}' /\ ending \subseteq {c}
        BY <1>3, <2>4 DEF SameMarks
    <2>6. /\ mm.at \in {"cleanup", "free"} /\ Pending(c) /\ call[c] = "EXIT"
          /\ Hanging(c) \/ (mm.then = "exit_children" /\ mm.src = c)
          /\ mm.then = "exit_children" =>
                mm.src \in User /\ (mm.src = c \/ Hanging(mm.src) \/ Free(mm.src))
          /\ \/ /\ mm.at = "cleanup" /\ Ready(MM)
                /\ Serves({parent} \cup ending) /\ call[parent] = "WAIT"
             \/ /\ mm.at = "free" /\ SendsTo(MM, parent)
                /\ Serves({parent} \cup ending) /\ call[parent] = "WAIT"
                /\ buf[MM] = [source |-> MM, body |-> Ret(c, 0)]
             \/ /\ mm.at = "free" /\ Ready(MM) /\ Serves(ending)
                /\ ~(call[parent] = "FORK" /\ stage[parent] = "received")
        BY <1>11, <2>2, <2>3, <2>4 DEF AtCleanup
    <2>7. /\ Pending(c)' /\ call'[c] = "EXIT" /\ p_parent'[c] = parent
          /\ Hanging(c)' \/ (mm.then = "exit_children" /\ mm.src = c)
        BY <1>3, <2>6, <2>3 DEF StaysOwed, SameMarks
    <2>8. mm.then = "exit_children" =>
                mm.src \in User /\ (mm.src = c \/ Hanging(mm.src)' \/ Free(mm.src)')
        <3>1. SUFFICES ASSUME mm.then = "exit_children"
                       PROVE  mm.src \in User /\ (mm.src = c \/ Hanging(mm.src)' \/ Free(mm.src)')
            OBVIOUS
        <3>2. SameMarks(mm.src)
            BY <1>3, <2>6, <3>1
        <3> QED  BY <2>6, <3>1, <3>2 DEF SameMarks
    <2>9. Serves(ending) /\ ~(call[parent] = "FORK" /\ stage[parent] = "received") =>
              Serves(ending)' /\ ~(call'[parent] = "FORK" /\ stage'[parent] = "received")
        <3>1. SUFFICES ASSUME Serves(ending),
                              ~(call[parent] = "FORK" /\ stage[parent] = "received"),
                              call'[parent] = "FORK" /\ stage'[parent] = "received"
                       PROVE  FALSE
            BY <1>2
        <3>2. Open(parent)
            BY <3>1 DEF StaysOwed
        <3>3. parent = c
            BY <3>1, <3>2, <2>5 DEF Serves
        <3> QED  BY <2>7, <3>1, <3>3
    <2>10. \/ /\ mm.at = "cleanup" /\ Ready(MM)'
              /\ Serves({parent} \cup ending)' /\ call'[parent] = "WAIT"
           \/ /\ mm.at = "free" /\ SendsTo(MM, parent)'
              /\ Serves({parent} \cup ending)' /\ call'[parent] = "WAIT"
              /\ buf'[MM] = [source |-> MM, body |-> Ret(c, 0)]
           \/ /\ mm.at = "free" /\ Ready(MM)' /\ Serves(ending)'
              /\ ~(call'[parent] = "FORK" /\ stage'[parent] = "received")
        BY <1>2, <1>4, <2>1, <2>6, <2>9
    <2>11. AtCleanup'
        BY <2>2, <2>3, <2>5, <2>6, <2>7, <2>8, <2>10 DEF AtCleanup
    <2> QED  BY <2>11 DEF MmPlace
<1> QED
    BY <1>5, <1>6, <1>7, <1>8, <1>9, <1>10, <1>11 DEF MmInv, MmPlace

\* Where MM is says which of its places it is at.
LEMMA PlaceIs ==
    ASSUME MmPlace
    PROVE  /\ mm.at = "loop" => AtLoop
           /\ mm.at = "dispatch" => AtDispatch
           /\ mm.at \in {"fork_copy", "fork_tell", "fork_told", "birth"} => AtFork
           /\ mm.at = "reply" => AtReply \/ (AtFork /\ SendsTo(MM, mm.proc))
           /\ mm.at \in {"exit_told", "exit_parent"} => AtExit
           /\ mm.at = "exit_children" => AtChildren
           /\ mm.at \in {"cleanup", "free"} => AtCleanup
<1>1. AtLoop => mm.at = "loop"
    BY DEF AtLoop, MmIdle
<1>2. AtDispatch => mm.at = "dispatch"
    BY DEF AtDispatch, MmIdle
<1>3. AtFork => \/ mm.at \in {"fork_copy", "fork_tell", "fork_told", "birth"}
                \/ mm.at = "reply" /\ SendsTo(MM, mm.proc)
    BY DEF AtFork
<1>4. /\ AtReply => mm.at = "reply"
      /\ AtExit => mm.at \in {"exit_told", "exit_parent"}
      /\ AtChildren => mm.at = "exit_children"
      /\ AtCleanup => mm.at \in {"cleanup", "free"}
    BY DEF AtReply, AtExit, AtChildren, AtCleanup
<1> QED
    BY <1>1, <1>2, <1>3, <1>4 DEF MmPlace

-----------------------------------------------------------------------------
(* Steps of a caller *)

\* What every step has to show: the invariant, and the answers it gives.
StepOK == MmInv' /\ \A q \in Slot : ForkReturns(q) /\ WaitReturns(q)

\* FS keeps its place while nothing happens to it, nor to MM where MM talks to it.
LEMMA FsStays ==
    ASSUME FsPlace, mm' = mm, fs' = fs, Kept(FS),
           \/ Kept(MM)
           \/ mm.at \notin {"fork_told", "exit_told", "birth", "exit_parent"}
    PROVE  FsPlace'
<1>1. /\ Ready(FS)' <=> Ready(FS)
      /\ Awaiting(FS, ANY)' <=> Awaiting(FS, ANY)
      /\ SendsTo(FS, MM)' <=> SendsTo(FS, MM)
      /\ buf'[FS] = buf[FS]
    BY DEF Kept, EntryKept, Ready, Awaiting, SendsTo
<1>2. (FsQuiet' <=> FsQuiet) /\ (FsAsked' <=> FsAsked)
    BY <1>1 DEF FsQuiet, FsAsked
<1>3. Kept(MM) => /\ Ready(MM)' <=> Ready(MM)
                  /\ Awaiting(MM, FS)' <=> Awaiting(MM, FS)
                  /\ SendsTo(MM, FS)' <=> SendsTo(MM, FS)
                  /\ buf'[MM] = buf[MM]
    BY DEF Kept, EntryKept, Ready, Awaiting, SendsTo
<1> QED
    BY <1>1, <1>2, <1>3 DEF FsPlace

\* The processes outside X, which a step leaves alone, stay as they were.
LEMMA UsersStay ==
    ASSUME MmInv, p_parent' = p_parent, NEW X, \A q \in Slot \ X : SameUser(q),
           \A q \in Slot : SameMarks(q)
    PROVE  \A q \in Slot \ X : /\ UserOK(q)' /\ StaysOwed(q)
                              /\ (Pending(q)' <=> Pending(q))
                              /\ ForkReturns(q) /\ WaitReturns(q)
<1> USE ProcFacts
<1>1. ASSUME NEW q \in Slot \ X
      PROVE  /\ UserOK(q)' /\ StaysOwed(q)
             /\ (Pending(q)' <=> Pending(q))
             /\ ForkReturns(q) /\ WaitReturns(q)
    <2>1. SameUser(q) /\ UserOK(q) /\ ForkPidsStay(q)
        BY DEF ForkPidsStay, SameMarks, MmInv
    <2>2. /\ UserOK(q)'
          /\ (Pending(q)' <=> Pending(q)) /\ (Open(q)' <=> Open(q))
          /\ SameMarks(q)
          /\ ForkReturns(q) /\ WaitReturns(q)
        BY <2>1, UserStays
    <2> QED  BY <2>1, <2>2 DEF StaysOwed, SameUser
<1> QED
    BY <1>1

\* What a step of the caller p alone leaves as it was.
LEMMA CallerFrame ==
    ASSUME MmInv, NEW p \in Slot, UNCHANGED <<p_parent, space, mm, fs>>,
           \A q \in Slot \ {p} : SameUser(q), SameMarks(p)
    PROVE  /\ \A q \in Slot \ {p} : /\ UserOK(q)' /\ StaysOwed(q)
                                    /\ (Pending(q)' <=> Pending(q))
                                    /\ ForkReturns(q) /\ WaitReturns(q)
           /\ FamilyOK' /\ SpaceOK'
<1> USE ProcFacts
<1>1. \A q \in Slot : SameMarks(q)
    BY DEF SameUser, Kept, EntryKept, SameMarks, Free, Hanging, Waiting
<1>2. FamilyOK'
    BY <1>1, FamilyStays DEF MmInv, Leaving
<1>3. SpaceOK'
    BY <1>1 DEF MmInv, SpaceOK, SameMarks
<1> QED
    BY <1>1, <1>2, <1>3, UsersStay

LEMMA UserCallStep ==
    ASSUME MmInv, NEW p \in Slot, NEW t \in Call, UserCall(p, t)
    PROVE  StepOK
<1> USE ProcFacts
<1>1. /\ stage[p] = "user" /\ p_flags[p] = {} /\ MsgSend(p, MM, Request(t, 0))
      /\ call' = [call EXCEPT ![p] = t] /\ stage' = [stage EXCEPT ![p] = "sent"]
      /\ UNCHANGED <<p_parent, space, mm, fs>>
      /\ p = InitProc => t # "EXIT"
    BY DEF UserCall, MsgSend, Runnable
<1>2. Ready(p)
    BY <1>1, Entries
<1>3. call[p] = "none" /\ ~Pending(p)
    BY <1>1, <1>2 DEF MmInv, UserOK, Free, SendsTo, Pending
<1>4. /\ call'[p] = t /\ stage'[p] = "sent" /\ MmTypeOK'
      /\ \A q \in Slot \ {p} : call'[q] = call[q] /\ stage'[q] = stage[q]
    BY <1>1 DEF MmInv, MmTypeOK
<1>5. Request(t, 0) \in Mail /\ Request(t, 0).type = t
    BY DEF Request, Mail
<1>6. PICK S \in SUBSET Proc : /\ MM \in S /\ p \notin S
                               /\ \A q \in S : Sending(q) => p_sendto[q] \in S
    <2>1. CASE ~Sending(MM)
        <3>1. {MM} \in SUBSET Proc /\ \A q \in {MM} : Sending(q) => p_sendto[q] \in {MM}
            BY <2>1
        <3> QED  BY <3>1
    <2>2. CASE Sending(MM)
        <3>1. PICK d \in Proc \ {MM} : SendsTo(MM, d) /\ ~Sending(d)
            BY <2>2, Entries DEF Ready, Awaiting, Sending
        <3>2. p # d
            <4>1. SUFFICES ASSUME d = p PROVE FALSE
                OBVIOUS
            <4>2. SendsTo(MM, p) /\ ~Open(p)
                BY <3>1, <4>1, <1>3 DEF Open
            <4>3. mm.at \notin {"fork_told", "exit_told", "birth", "exit_parent"}
                BY <4>2 DEF MmInv, FsPlace, SendsTo, Ready, Awaiting
            <4>4. CASE AtLoop
                BY <4>2, <4>4 DEF AtLoop, Serves, SendsTo, Ready
            <4>5. CASE AtFork
                BY <4>2, <4>3, <4>5 DEF AtFork, Serves, SendsTo, Ready
            <4>6. CASE AtCleanup
                BY <4>2, <4>6 DEF AtCleanup, Serves, SendsTo, Ready
            <4>7. CASE AtDispatch \/ AtReply \/ AtChildren \/ AtExit
                BY <4>2, <4>3, <4>7 DEF AtDispatch, AtReply, AtChildren, AtExit,
                                        SendsTo, Ready, Awaiting
            <4> QED  BY <4>4, <4>5, <4>6, <4>7 DEF MmInv, MmPlace
        <3>3. /\ {MM, d} \in SUBSET Proc /\ p \notin {MM, d}
              /\ \A q \in {MM, d} : Sending(q) => p_sendto[q] \in {MM, d}
            BY <3>1, <3>2 DEF SendsTo
        <3> QED  BY <3>3
    <2> QED  BY <2>1, <2>2
<1>7. Awaits(MM, p) => Awaiting(MM, ANY) /\ mm.at = "dispatch"
    <2>1. SUFFICES ASSUME Awaits(MM, p) PROVE Awaiting(MM, ANY) /\ mm.at = "dispatch"
        OBVIOUS
    <2>2. Awaiting(MM, ANY)
        BY <2>1, Entries DEF Awaits, Receiving, Ready, Awaiting, SendsTo
    <2>3. mm.at = "dispatch"
        <3>1. mm.at \notin {"fork_told", "exit_told", "birth", "exit_parent"}
            BY <2>2 DEF MmInv, FsPlace, SendsTo, Ready, Awaiting
        <3> QED
            BY <2>2, <3>1 DEF MmInv, MmPlace, AtLoop, AtDispatch, AtFork, AtReply, AtExit,
                              AtChildren, AtCleanup, MmIdle, Ready, SendsTo, Awaiting
    <2> QED  BY <2>2, <2>3
<1>8. /\ TableOK'
      /\ buf'[p] = [source |-> p, body |-> Request(t, 0)]
      /\ \A q \in Proc \ {p, MM} : Kept(q)
      /\ HandedOver(p, MM) \/ Blocked(p, MM)
    <2>1. Awaits(MM, p) =>
                p_flags[MM] = {"RECEIVING"} /\ p_msg[MM] /\ p_sendto[MM] = NO_TASK
        BY <1>7 DEF Awaiting
    <2> HIDE DEF Mail
    <2> QED  BY <1>1, <1>2, <1>5, <1>6, <2>1, SendStep DEF MmInv
<1>9. p_flags'[p] \in {{}, {"SENDING"}} /\ SameMarks(p)
    BY <1>1, <1>8 DEF HandedOver, Blocked, EntryKept, SendsTo, SameMarks, Free, Hanging, Waiting
<1>10. \A q \in Slot \ {p} : SameUser(q)
    BY <1>4, <1>8 DEF SameUser
<1>11. /\ \A q \in Slot \ {p} : /\ UserOK(q)' /\ StaysOwed(q)
                                /\ ForkReturns(q) /\ WaitReturns(q)
       /\ FamilyOK' /\ SpaceOK'
    BY <1>1, <1>9, <1>10, CallerFrame
<1>12. ForkReturns(p) /\ WaitReturns(p) /\ call'[InitProc] # "EXIT"
    BY <1>1, <1>3, <1>4 DEF ForkReturns, WaitReturns, MmInv
<1>13. CASE HandedOver(p, MM)
    <2>1. mm.at = "dispatch" /\ Awaiting(MM, ANY) /\ Ready(MM)' /\ buf'[MM] = buf'[p]
        BY <1>7, <1>13 DEF HandedOver
    <2>2. Pending(p)' /\ Open(p)' /\ UserOK(p)'
        BY <1>1, <1>2, <1>4, <1>13 DEF Pending, Open, UserOK, HandedOver, EntryKept, Ready,
                                       Waiting, Hanging, Call, Bits
    <2>3. AtDispatch'
        <3>1. AtDispatch
            BY <2>1, PlaceIs DEF MmInv
        <3>2. Serves({}) /\ mm = [MmIdle EXCEPT !.at = "dispatch"]
            BY <2>1, <3>1 DEF AtDispatch, Awaiting, Ready
        <3>3. Serves({p})'
            BY <1>11, <2>2, <3>2 DEF Serves, StaysOwed
        <3> QED  BY <1>1, <1>4, <1>8, <2>1, <3>2, <3>3 DEF AtDispatch
    <2>4. FsPlace'
        BY <1>1, <1>8, <2>1, FsStays DEF MmInv
    <2> QED
        BY <1>4, <1>8, <1>11, <1>12, <2>2, <2>3, <2>4 DEF StepOK, MmInv, MmPlace
<1>14. CASE Blocked(p, MM)
    <2>1. SendsTo(p, MM)' /\ Kept(MM)
        BY <1>14 DEF Blocked
    <2>2. UserOK(p)' /\ ~Pending(p)'
        BY <1>4, <1>8, <2>1 DEF UserOK, Pending, SendsTo
    <2>3. StaysOwed(p)
        BY <1>3, <1>4, <1>9, <2>2 DEF StaysOwed, Open
    <2>4. MmPlace' /\ FsPlace'
        BY <1>1, <1>8, <1>11, <2>1, <2>3, PlaceStays, FsStays DEF MmInv
    <2> QED
        BY <1>4, <1>8, <1>11, <1>12, <2>2, <2>4 DEF StepOK, MmInv
<1> QED
    BY <1>8, <1>13, <1>14

\* MM has answered p, or freed it, and owes it nothing more.
LEMMA ServesLess ==
    ASSUME NEW p \in Slot, NEW S, Serves(S), ~Open(p)',
           \A q \in Slot \ {p} : Open(q)' <=> Open(q)
    PROVE  Serves(S \ {p})'
<1>1. S \subseteq Slot /\ \A q \in Slot : Open(q) <=> q \in S
    BY DEF Serves
<1>2. \A q \in Slot : Open(q)' <=> q \in S \ {p}
    BY <1>1
<1> QED
    BY <1>1, <1>2 DEF Serves

\* The answer that MM sends to p, still blocked on it.
LEMMA AnswerSent ==
    ASSUME MmInv, NEW p \in Slot, SendsTo(MM, p)
    PROVE  /\ mm.at \in {"loop", "reply", "free"} /\ Open(p)
           /\ buf[MM].source = MM /\ Right(p, buf[MM].body)
<1> USE ProcFacts
<1>1. mm.at \notin {"fork_told", "exit_told", "birth", "exit_parent"} /\ ~Ready(MM)
    BY DEF MmInv, FsPlace, SendsTo, Ready, Awaiting
<1>2. CASE AtLoop
    <2>1. PICK q \in Slot : /\ SendsTo(MM, q) /\ Serves({q})
                            /\ buf[MM].source = MM /\ Right(q, buf[MM].body)
        BY <1>1, <1>2 DEF AtLoop
    <2>2. q = p
        BY <2>1 DEF SendsTo
    <2> QED  BY <1>2, <2>1, <2>2 DEF AtLoop, MmIdle, Serves
<1>3. CASE AtFork
    <2>1. /\ mm.at = "reply" /\ p = mm.proc /\ p \in User /\ Serves({mm.src, mm.proc})
          /\ buf[MM] = [source |-> MM, body |-> Ret(0, 0)] /\ call[p] = "FORK"
        BY <1>1, <1>3 DEF AtFork, SendsTo
    <2>2. Right(p, buf[MM].body)
        BY <2>1 DEF Right, ForkPid, Ret
    <2> QED  BY <2>1, <2>2 DEF Serves
<1>4. CASE AtCleanup
    <2>1. PICK c \in User : c = mm.proc
        BY <1>4 DEF AtCleanup
    <2>2. /\ mm.at = "free" /\ p = p_parent[c] /\ call[p] = "WAIT" /\ call[c] = "EXIT"
          /\ buf[MM] = [source |-> MM, body |-> Ret(c, 0)]
          /\ \E ending : Serves({p} \cup ending)
        BY <1>1, <1>4, <2>1 DEF AtCleanup, SendsTo
    <2>3. Right(p, buf[MM].body)
        BY <2>2 DEF Right, WaitPid, Ret
    <2> QED  BY <2>2, <2>3 DEF Serves
<1>5. ~AtDispatch /\ ~AtReply /\ ~AtChildren /\ ~AtExit
    BY <1>1 DEF AtDispatch, AtReply, AtChildren, AtExit, SendsTo, Awaiting
<1> QED
    BY <1>2, <1>3, <1>4, <1>5 DEF MmInv, MmPlace

LEMMA UserReceiveStep ==
    ASSUME MmInv, NEW p \in Slot, UserReceive(p)
    PROVE  StepOK
<1> USE ProcFacts
<1>1. /\ stage[p] = "sent" /\ p_flags[p] = {} /\ MsgReceive(p, MM) /\ call' = call
      /\ stage' = [stage EXCEPT ![p] = "received"]
      /\ UNCHANGED <<p_parent, space, mm, fs>>
    BY DEF UserReceive, MsgReceive, Runnable
<1>2. Ready(p)
    BY <1>1, Entries
<1>3. Pending(p) /\ Open(p)
    BY <1>1, <1>2 DEF MmInv, UserOK, Free, SendsTo, Open, Pending, Waiting, Hanging
<1>4. /\ stage'[p] = "received" /\ call'[p] = call[p] /\ MmTypeOK'
      /\ \A q \in Slot \ {p} : call'[q] = call[q] /\ stage'[q] = stage[q]
    BY <1>1 DEF MmInv, MmTypeOK
<1>5. /\ TableOK'
      /\ (\E q \in Proc : Taken(p, q, MM)) \/ Waits(p, MM)
    BY <1>1, <1>2, Entries, ReceiveStep DEF MmInv
<1>6. ForkReturns(p) /\ call'[InitProc] # "EXIT"
    BY <1>1 DEF ForkReturns, MmInv
<1>7. CASE Waits(p, MM)
    <2>1. Awaiting(p, MM)' /\ \A q \in Proc \ {p} : Kept(q)
        BY <1>7 DEF Waits
    <2>2. SameMarks(p) /\ \A q \in Slot \ {p} : SameUser(q)
        BY <1>1, <1>4, <2>1 DEF SameMarks, Awaiting, Free, Hanging, Waiting, SameUser
    <2>3. /\ \A q \in Slot \ {p} : /\ UserOK(q)' /\ StaysOwed(q)
                                   /\ ForkReturns(q) /\ WaitReturns(q)
          /\ FamilyOK' /\ SpaceOK'
        BY <1>1, <2>2, CallerFrame
    <2>4. Pending(p)' /\ Open(p)' /\ WaitReturns(p)
        BY <1>1, <1>3, <1>4, <2>1 DEF Pending, Open, Awaiting, Receiving, Waiting, Hanging, Bits,
                                      WaitReturns, Answered
    <2>5. StaysOwed(p) /\ UserOK(p)'
        BY <1>3, <1>4, <2>2, <2>4 DEF StaysOwed, UserOK
    <2>6. MmPlace' /\ FsPlace'
        BY <1>1, <2>1, <2>3, <2>5, PlaceStays, FsStays DEF MmInv
    <2> QED
        BY <1>4, <1>5, <1>6, <2>3, <2>4, <2>5, <2>6 DEF StepOK, MmInv
<1>8. ASSUME NEW q \in Proc, Taken(p, q, MM)
      PROVE  StepOK
    <2>1. /\ SendsTo(MM, p) /\ Ready(MM)' /\ EntryKept(p)
          /\ buf'[p] = buf[MM] /\ buf'[MM] = buf[MM]
          /\ \A r \in Proc \ {p, MM} : Kept(r)
        BY <1>8 DEF Taken
    <2>2. SameMarks(p) /\ Ready(p)' /\ \A r \in Slot \ {p} : SameUser(r)
        BY <1>2, <1>4, <2>1 DEF SameMarks, EntryKept, Ready, Free, Hanging, Waiting, SameUser
    <2>3. /\ \A r \in Slot \ {p} : /\ UserOK(r)' /\ StaysOwed(r)
                                   /\ ForkReturns(r) /\ WaitReturns(r)
          /\ FamilyOK' /\ SpaceOK'
        BY <1>1, <2>2, CallerFrame
    <2>4. PICK a : a = buf[MM].body
        OBVIOUS
    <2>5. Right(p, a) /\ mm.at \in {"loop", "reply", "free"} /\ buf'[p].body = a
        BY <2>1, <2>4, AnswerSent
    <2>6. \A r \in Slot : SameMarks(r) /\ (call[r] = "EXIT" => call'[r] = "EXIT")
        BY <1>1, <2>2, <2>3 DEF StaysOwed
    <2>7. Right(p, a)'
        BY <1>4, <1>1, <2>5, <2>6, RightStays
    <2>8. ~Pending(p)' /\ ~Open(p)' /\ UserOK(p)'
        BY <1>4, <2>2, <2>5, <2>7 DEF Pending, Open, UserOK, Right, Ready, Receiving
    <2>9. WaitReturns(p)
        BY <2>5 DEF Right, WaitReturns
    <2>10. FsPlace'
        BY <1>1, <2>1, <2>5, FsStays DEF MmInv
    <2>11. \A S : Serves(S) => Serves(S \ {p})'
        BY <2>3, <2>8, ServesLess DEF StaysOwed
    <2>12. MmPlace'
        <3>1. CASE mm.at = "loop"
            <4>1. AtLoop /\ ~Ready(MM)
                BY <2>1, <3>1, PlaceIs DEF MmInv, Ready, SendsTo
            <4>2. Serves({p})
                BY <2>1, <4>1 DEF AtLoop, SendsTo
            <4>3. Serves({p} \ {p})'
                BY <2>11, <4>2
            <4>4. {p} \ {p} = {}
                OBVIOUS
            <4> QED  BY <1>1, <2>1, <4>1, <4>3, <4>4 DEF AtLoop, MmPlace
        <3>2. CASE mm.at = "reply"
            <4>1. AtFork
                BY <2>1, <3>2, PlaceIs DEF MmInv, AtReply, Ready, SendsTo
            <4>2. PICK s \in Slot : s = mm.src
                BY <4>1 DEF AtFork
            <4>3. /\ p = mm.proc /\ p \in User /\ s # p /\ p_parent[p] = s /\ mm.ret = 0
                  /\ Serves({s, p}) /\ call[s] = "FORK"
                BY <2>1, <3>2, <4>1, <4>2 DEF AtFork, SendsTo, Ready
            <4>4. Serves({s, p} \ {p})' /\ {s, p} \ {p} = {s}
                BY <2>11, <4>3
            <4>5. ~Free(p)'
                BY <2>2 DEF Ready, Free
            <4>6. Right(s, Ret(p, 0))'
                BY <1>1, <4>3, <4>5 DEF Right, ForkPid, Ret
            <4> QED
                BY <1>1, <2>1, <3>2, <4>2, <4>3, <4>4, <4>6 DEF AtReply, MmPlace
        <3>3. CASE mm.at = "free"
            <4>1. AtCleanup
                BY <3>3, PlaceIs DEF MmInv
            <4>2. PICK c \in User : c = mm.proc
                BY <4>1 DEF AtCleanup
            <4>3. PICK ending : ending = {r \in {c} : ~Hanging(r)}
                OBVIOUS
            <4>4. /\ p_parent[c] = p /\ Serves({p} \cup ending) /\ call[p] = "WAIT"
                  /\ Pending(c) /\ call[c] = "EXIT"
                  /\ Hanging(c) \/ (mm.then = "exit_children" /\ mm.src = c)
                  /\ mm.then = "exit_children" =>
                       mm.src \in User /\ (mm.src = c \/ Hanging(mm.src) \/ Free(mm.src))
                BY <2>1, <3>3, <4>1, <4>2, <4>3 DEF AtCleanup, SendsTo, Ready
            <4>5. p # c /\ ending = {r \in {c} : ~Hanging(r)}' /\ SameMarks(c)
                BY <2>6, <4>3, <4>4 DEF SameMarks
            <4>6. Serves(({p} \cup ending) \ {p})' /\ ({p} \cup ending) \ {p} = ending
                BY <2>11, <4>3, <4>4, <4>5
            <4>7. Pending(c)' /\ call'[c] = "EXIT"
                BY <2>3, <4>4, <4>5 DEF StaysOwed
            <4>8. mm.then = "exit_children" =>
                       mm.src \in User /\ (mm.src = c \/ Hanging(mm.src)' \/ Free(mm.src)')
                <5>1. mm.then = "exit_children" => SameMarks(mm.src)
                    BY <2>6, <4>4
                <5> QED  BY <4>4, <5>1, <1>1 DEF SameMarks
            <4>9. AtCleanup'
                BY <1>1, <1>4, <2>1, <3>3, <4>2, <4>4, <4>5, <4>6, <4>7, <4>8
                   DEF AtCleanup, SameMarks
            <4> QED  BY <4>9 DEF MmPlace
        <3> QED  BY <2>5, <3>1, <3>2, <3>3
    <2> QED
        BY <1>4, <1>5, <1>6, <2>3, <2>8, <2>9, <2>10, <2>12 DEF StepOK, MmInv
<1> QED
    BY <1>5, <1>7, <1>8

LEMMA UserReturnStep ==
    ASSUME MmInv, NEW p \in Slot, UserReturn(p)
    PROVE  StepOK
<1> USE ProcFacts
<1>1. /\ stage[p] = "received" /\ p_flags[p] = {}
      /\ buf' = [buf EXCEPT ![p] = Dead(p)]
      /\ stage' = [stage EXCEPT ![p] = IF ForkFails(p) THEN "asserted" ELSE "user"]
      /\ call' = [call EXCEPT ![p] = "none"]
      /\ UNCHANGED <<p_flags, p_sendto, p_recvfrom, p_msg, q_sending, has_int_msg,
                     halted, p_parent, space, mm, fs>>
    BY DEF UserReturn, Runnable
<1>2. Ready(p)
    BY <1>1, Entries
<1>3. /\ call[p] \in {"FORK", "WAIT"} /\ ~Pending(p)
      /\ call[p] = "FORK" /\ buf[p].body.ret = 0 => ForkPid(p, buf[p].body.pid)
    BY <1>1, <1>2 DEF MmInv, UserOK, Free, SendsTo, Pending, Receiving
<1>4. /\ call'[p] = "none" /\ stage'[p] \in {"user", "asserted"}
      /\ stage'[p] = "user" => ~ForkFails(p)
      /\ \A q \in Slot \ {p} : call'[q] = call[q] /\ stage'[q] = stage[q]
    BY <1>1 DEF MmInv, MmTypeOK
<1>5. MmTypeOK'
    <2>1. call' \in [Slot -> Call \cup {"none"}]
        BY <1>1 DEF MmInv, MmTypeOK
    <2>2. stage' \in [Slot -> {"user", "sent", "received", "asserted"}]
        BY <1>1 DEF MmInv, MmTypeOK
    <2> QED  BY <1>1, <2>1, <2>2 DEF MmInv, MmTypeOK
<1>6. /\ buf' \in [Proc -> [source : Proc, body : Mail]]
      /\ \A q \in Proc \ {p} : buf'[q] = buf[q]
    <2>1. Dead(p) \in [source : Proc, body : Mail]
        BY DEF Dead, Mail, Ret
    <2> QED  BY <1>1, <2>1 DEF MmInv, TableOK
<1>7. TableOK'
    BY <1>1, <1>6, FlagStep DEF MmInv, TableOK, Sending
<1>8. /\ \A q \in Proc \ {p} : Kept(q)
      /\ SameMarks(p) /\ \A q \in Slot \ {p} : SameUser(q)
    BY <1>1, <1>4, <1>6 DEF Kept, EntryKept, SameMarks, Free, Hanging, Waiting, SameUser
<1>9. /\ \A q \in Slot \ {p} : /\ UserOK(q)' /\ StaysOwed(q)
                               /\ ForkReturns(q) /\ WaitReturns(q)
      /\ FamilyOK' /\ SpaceOK'
    BY <1>1, <1>8, CallerFrame
<1>10. UserOK(p)' /\ ~Pending(p)' /\ call'[InitProc] # "EXIT"
    BY <1>1, <1>2, <1>4 DEF UserOK, Ready, Pending, Call, MmInv
<1>11. StaysOwed(p)
    BY <1>3, <1>4, <1>8, <1>10 DEF StaysOwed, Open
<1>12. MmPlace' /\ FsPlace'
    BY <1>1, <1>8, <1>9, <1>11, PlaceStays, FsStays DEF MmInv
<1>13. ForkReturns(p)
    BY <1>3, <1>4 DEF ForkReturns, ForkFails
<1>14. WaitReturns(p)
    BY <1>1, <1>2 DEF WaitReturns, Answered, Receiving, Ready
<1> QED
    BY <1>5, <1>7, <1>9, <1>10, <1>12, <1>13, <1>14 DEF StepOK, MmInv

-----------------------------------------------------------------------------
(* Steps of FS *)

\* What a step of a task that touches no caller leaves as it was.
LEMMA TaskFrame ==
    ASSUME MmInv, UNCHANGED <<p_parent, space, userVars>>,
           \A q \in Slot : Kept(q)
    PROVE  /\ \A q \in Slot : /\ UserOK(q)' /\ StaysOwed(q)
                              /\ (Pending(q)' <=> Pending(q)) /\ SameMarks(q)
                              /\ ForkReturns(q) /\ WaitReturns(q)
           /\ call'[InitProc] # "EXIT"
<1>1. \A q \in Slot : SameUser(q) /\ SameMarks(q)
    BY DEF userVars, SameUser, Kept, EntryKept, SameMarks, Free, Hanging, Waiting
<1>2. \A q \in Slot \ {} : /\ UserOK(q)' /\ StaysOwed(q)
                           /\ (Pending(q)' <=> Pending(q))
                           /\ ForkReturns(q) /\ WaitReturns(q)
    BY <1>1, UsersStay
<1> QED
    BY <1>1, <1>2 DEF MmInv, userVars

\* The same for FS, which leaves MM's place too.
LEMMA FsFrame ==
    ASSUME MmInv, UNCHANGED <<p_parent, space, userVars, mm>>,
           \A q \in Slot : Kept(q), TableOK', FsPlace',
           \/ Kept(MM)
           \/ mm.at \in {"fork_told", "exit_told", "birth", "exit_parent"}
    PROVE  StepOK
<1>1. /\ \A q \in Slot : /\ UserOK(q)' /\ StaysOwed(q) /\ SameMarks(q)
                         /\ ForkReturns(q) /\ WaitReturns(q)
      /\ call'[InitProc] # "EXIT"
    BY TaskFrame
<1>2. MmPlace'
    BY <1>1, PlaceStays
<1>3. FamilyOK'
    BY <1>1, FamilyStays DEF MmInv, Leaving
<1>4. SpaceOK' /\ MmTypeOK'
    BY <1>1, ProcFacts DEF MmInv, SpaceOK, SameMarks, MmTypeOK, userVars
<1> QED
    BY <1>1, <1>2, <1>3, <1>4 DEF StepOK, MmInv

\* MM is blocked sending to FS only where it tells FS of a fork or an exit.
LEMMA FsIsTold ==
    ASSUME MmInv, SendsTo(MM, FS)
    PROVE  mm.at \in {"fork_told", "exit_told"} /\ buf[MM].source = MM
<1> USE ProcFacts
<1>1. mm.at \notin {"birth", "exit_parent"} /\ ~Ready(MM) /\ ~Awaiting(MM, ANY)
    BY DEF MmInv, FsPlace, SendsTo, Ready, Awaiting
<1>2. \A q \in Slot : ~SendsTo(MM, q)
    BY DEF SendsTo
<1>3. mm.at \in {"fork_told", "exit_told"}
    <2>1. ~AtLoop /\ ~AtDispatch /\ ~AtReply /\ ~AtChildren
        BY <1>1, <1>2 DEF AtLoop, AtDispatch, AtReply, AtChildren
    <2>2. ~AtCleanup
        BY <1>1, <1>2 DEF AtCleanup
    <2>3. AtFork \/ AtExit
        BY <2>1, <2>2 DEF MmInv, MmPlace
    <2> QED  BY <1>1, <1>2, <2>3 DEF AtFork, AtExit
<1> QED
    BY <1>1, <1>3 DEF MmInv, FsPlace

LEMMA FsReceiveStep ==
    ASSUME MmInv, FsReceive
    PROVE  StepOK
<1> USE ProcFacts
<1>1. /\ fs = "loop" /\ p_flags[FS] = {} /\ MsgReceive(FS, ANY) /\ fs' = "reply"
      /\ UNCHANGED <<p_parent, space, userVars, mm>>
    BY DEF FsReceive, MsgReceive, Runnable
<1>2. Ready(FS)
    BY <1>1, Entries
<1>3. /\ TableOK'
      /\ (\E q \in Proc : Taken(FS, q, ANY)) \/ Waits(FS, ANY)
    BY <1>1, <1>2, Entries, ReceiveStep DEF MmInv
<1>4. CASE Waits(FS, ANY)
    <2>1. Awaiting(FS, ANY)' /\ ~SendsTo(MM, FS) /\ \A q \in Proc \ {FS} : Kept(q)
        BY <1>4 DEF Waits
    <2>2. ~FsAsked /\ ~SendsTo(FS, MM)
        BY <1>1, <1>2 DEF FsAsked, Ready, SendsTo
    <2>3. FsQuiet' /\ (Ready(MM) => Ready(MM)')
        BY <1>1, <2>1 DEF FsQuiet, Kept, EntryKept, Ready
    <2>4. FsPlace'
        BY <1>1, <2>1, <2>2, <2>3 DEF MmInv, FsPlace
    <2> QED  BY <1>1, <1>3, <2>1, <2>4, FsFrame
<1>5. ASSUME NEW q \in Proc, Taken(FS, q, ANY)
      PROVE  StepOK
    <2>1. SendsTo(q, FS) /\ q # FS
        BY <1>5 DEF Taken
    <2>2. q = MM
        <3>1. q \notin Slot
            BY <2>1, Entries DEF SendsTo, Sending
        <3> QED  BY <2>1, <3>1
    <2>3. /\ SendsTo(MM, FS) /\ Ready(MM)' /\ EntryKept(FS) /\ buf'[FS] = buf[MM]
          /\ \A r \in Slot : Kept(r)
        BY <1>5, <2>2 DEF Taken
    <2>4. mm.at \in {"fork_told", "exit_told"} /\ buf[MM].source = MM
        BY <2>3, FsIsTold
    <2>5. FsAsked'
        BY <1>1, <1>2, <2>3, <2>4 DEF FsAsked, Ready, EntryKept
    <2>6. FsPlace'
        BY <1>1, <2>3, <2>4, <2>5 DEF FsPlace
    <2> QED  BY <1>1, <1>3, <2>3, <2>4, <2>6, FsFrame
<1> QED
    BY <1>3, <1>4, <1>5

LEMMA FsReplyStep ==
    ASSUME MmInv, FsReply
    PROVE  StepOK
<1> USE ProcFacts
<1>1. /\ fs = "reply" /\ p_flags[FS] = {} /\ MsgSend(FS, buf[FS].source, Ret(0, 0))
      /\ fs' = "loop" /\ UNCHANGED <<p_parent, space, userVars, mm>>
    BY DEF FsReply, MsgSend, Runnable
<1>2. Ready(FS)
    BY <1>1, Entries
<1>3. /\ FsAsked /\ mm.at \in {"fork_told", "exit_told", "birth", "exit_parent"}
      /\ mm.at \in {"fork_told", "exit_told"} => Ready(MM)
      /\ mm.at \in {"birth", "exit_parent"} => Awaiting(MM, FS)
    BY <1>1, <1>2 DEF MmInv, FsPlace, FsQuiet, FsAsked, Ready, SendsTo, Awaiting
<1>4. buf[FS].source = MM /\ Ret(0, 0) \in Mail
    BY <1>3 DEF FsAsked, Ret, Mail
<1>5. ~Sending(MM)
    BY <1>3 DEF Ready, Awaiting, Sending
<1>6. /\ TableOK'
      /\ \A q \in Proc \ {FS, MM} : Kept(q)
      /\ HandedOver(FS, MM) \/ Blocked(FS, MM)
    <2>1. Awaits(MM, FS) =>
                p_flags[MM] = {"RECEIVING"} /\ p_msg[MM] /\ p_sendto[MM] = NO_TASK
        BY <1>3 DEF Awaits, Receiving, Ready, Awaiting
    <2>2. {MM} \in SUBSET Proc /\ \A q \in {MM} : Sending(q) => p_sendto[q] \in {MM}
        BY <1>5
    <2>3. MsgSend(FS, MM, Ret(0, 0)) /\ MM \in {MM} /\ FS \notin {MM}
        BY <1>1, <1>4
    <2> HIDE DEF Mail
    <2> QED  BY <1>2, <1>4, <2>1, <2>2, <2>3, SendStep DEF MmInv
<1>7. CASE HandedOver(FS, MM)
    <2>1. Awaiting(MM, FS) /\ mm.at \in {"birth", "exit_parent"} /\ Ready(MM)' /\ EntryKept(FS)
        BY <1>3, <1>7 DEF HandedOver, Awaits, Receiving, Ready
    <2>2. FsQuiet'
        BY <1>1, <1>2, <2>1 DEF FsQuiet, EntryKept, Ready
    <2>3. FsPlace'
        BY <1>1, <2>1, <2>2 DEF FsPlace
    <2> QED  BY <1>1, <1>3, <1>6, <2>3, FsFrame
<1>8. CASE Blocked(FS, MM)
    <2>1. Ready(MM) /\ mm.at \in {"fork_told", "exit_told"} /\ SendsTo(FS, MM)' /\ Kept(MM)
        BY <1>3, <1>8 DEF Blocked, Awaits, Receiving, Awaiting
    <2>2. Ready(MM)'
        BY <2>1 DEF Kept, EntryKept, Ready
    <2>3. FsPlace'
        BY <1>1, <2>1, <2>2 DEF FsPlace
    <2> QED  BY <1>1, <1>3, <1>6, <2>3, FsFrame
<1> QED
    BY <1>6, <1>7, <1>8

-----------------------------------------------------------------------------
(* Steps of MM: what they have in common *)

TellsFs == {"fork_told", "exit_told", "birth", "exit_parent"}

\* MM at the request of a caller: its locals are still those of MmIdle.
LEMMA DispatchLocals ==
    ASSUME mm = [MmIdle EXCEPT !.at = "dispatch"]
    PROVE  /\ mm = [at |-> "dispatch", src |-> NO_TASK, proc |-> NO_TASK, ret |-> 0,
                    then |-> "loop"]
           /\ mm.at = "dispatch" /\ mm.then = "loop"
           /\ mm.src = NO_TASK /\ mm.proc = NO_TASK /\ mm.ret = 0
<1>1. mm = [at |-> "dispatch", src |-> NO_TASK, proc |-> NO_TASK, ret |-> 0,
            then |-> "loop"]
    BY DEF MmIdle
<1> QED
    BY <1>1 DEF MmIdle

\* A step of MM that leaves the processes outside X alone, sets no mark and
\* keeps whom it is letting go.
LEMMA MmFrame ==
    ASSUME MmInv, UNCHANGED <<p_parent, space, userVars, fs>>,
           NEW X, \A q \in Slot \ X : Kept(q), \A q \in Slot : SameMarks(q),
           \A q \in X \cap Slot : UserOK(q)' /\ ForkReturns(q) /\ WaitReturns(q),
           mm' \in MmLocals, TableOK', MmPlace', FsPlace',
           \A q \in Slot : Leaving(q) => Leaving(q)', mm.at # "fork_copy"
    PROVE  StepOK
<1> USE ProcFacts
<1>1. \A q \in Slot \ X : SameUser(q)
    BY DEF userVars, SameUser
<1>2. \A q \in Slot \ X : UserOK(q)' /\ ForkReturns(q) /\ WaitReturns(q)
    BY <1>1, UsersStay
<1>3. FamilyOK'
    BY FamilyStays DEF MmInv
<1>4. SpaceOK'
    BY DEF MmInv, SpaceOK, SameMarks
<1>5. MmTypeOK' /\ call'[InitProc] # "EXIT"
    BY DEF MmInv, MmTypeOK, userVars, MmLocals
<1> QED
    BY <1>2, <1>3, <1>4, <1>5 DEF StepOK, MmInv

LEMMA TableStays ==
    ASSUME MmInv, UNCHANGED ipcVars
    PROVE  TableOK' /\ \A q \in Proc : Kept(q) /\ (Ready(q)' <=> Ready(q))
<1>1. QueueExact /\ QueueExact'
    BY DEF MmInv, TableOK, QueueExact, ipcVars, Sending
<1>2. TableOK'
    BY <1>1 DEF MmInv, TableOK, ipcVars, KernelRuns
<1> QED
    BY <1>2 DEF ipcVars, Kept, EntryKept, Ready

\* FS stays quiet while MM does not talk to it.
LEMMA FsStaysQuiet ==
    ASSUME FsQuiet, fs' = fs, Kept(FS), mm'.at \notin TellsFs
    PROVE  FsPlace'
<1>1. FsQuiet'
    BY DEF FsQuiet, Kept, EntryKept, Ready, Awaiting
<1> QED
    BY <1>1 DEF FsPlace, TellsFs

LEMMA FsIsQuiet ==
    ASSUME MmInv, mm.at \notin TellsFs \/ (mm.at \notin {"fork_told", "exit_told"} /\ Ready(MM))
    PROVE  FsQuiet
BY DEF MmInv, FsPlace, TellsFs, Ready, Awaiting

\* MM tells FS of a fork or an exit.
LEMMA TellStep ==
    ASSUME MmInv, Ready(MM), FsQuiet, NEW m \in Mail, MsgSend(MM, FS, m), fs' = fs
    PROVE  /\ TableOK' /\ \A q \in Slot : Kept(q)
           /\ \/ SendsTo(MM, FS)' /\ buf'[MM].source = MM /\ fs' = "loop" /\ Ready(FS)'
              \/ Ready(MM)' /\ FsAsked'
<1> USE ProcFacts
<1>1. Awaits(FS, MM) => Awaiting(FS, ANY) /\ fs = "reply"
    BY DEF FsQuiet, Awaits, Receiving, Ready, Awaiting
<1>2. ~Awaits(FS, MM) => fs = "loop" /\ Ready(FS)
    BY DEF FsQuiet, Awaits, Receiving, Awaiting
<1>3. {FS} \in SUBSET Proc /\ \A q \in {FS} : Sending(q) => p_sendto[q] \in {FS}
    BY DEF FsQuiet, Ready, Awaiting, Sending
<1>4. /\ TableOK'
      /\ buf'[MM] = [source |-> MM, body |-> m]
      /\ \A q \in Proc \ {MM, FS} : Kept(q)
      /\ HandedOver(MM, FS) \/ Blocked(MM, FS)
    <2>1. Awaits(FS, MM) =>
                p_flags[FS] = {"RECEIVING"} /\ p_msg[FS] /\ p_sendto[FS] = NO_TASK
        BY <1>1 DEF Awaiting
    <2>2. FS \in {FS} /\ MM \notin {FS}
        OBVIOUS
    <2> HIDE DEF Mail
    <2> QED  BY <1>3, <2>1, <2>2, SendStep DEF MmInv
<1>5. CASE HandedOver(MM, FS)
    <2>1. Ready(MM)' /\ FsAsked'
        BY <1>1, <1>4, <1>5 DEF HandedOver, EntryKept, Ready, FsAsked
    <2> QED  BY <1>4, <2>1
<1>6. CASE Blocked(MM, FS)
    <2>1. Ready(FS)' /\ fs' = "loop" /\ SendsTo(MM, FS)'
        BY <1>2, <1>6 DEF Blocked, Kept, EntryKept, Ready
    <2> QED  BY <1>4, <2>1
<1> QED
    BY <1>4, <1>5, <1>6

\* MM hears the answer of FS, or waits for it.
LEMMA HearStep ==
    ASSUME MmInv, mm.at \in {"fork_told", "exit_told"}, Runnable(MM),
           MsgReceive(MM, FS), fs' = fs
    PROVE  /\ TableOK' /\ \A q \in Slot : Kept(q)
           /\ \/ Awaiting(MM, FS)' /\ FsAsked'
              \/ Ready(MM)' /\ FsQuiet'
<1> USE ProcFacts
<1>1. Ready(MM)
    BY Entries DEF Runnable
<1>2. FsAsked \/ (fs = "loop" /\ SendsTo(FS, MM))
    BY <1>1 DEF MmInv, FsPlace, Ready, SendsTo
<1>3. /\ TableOK'
      /\ (\E q \in Proc : Taken(MM, q, FS)) \/ Waits(MM, FS)
    BY <1>1, Entries, ReceiveStep DEF MmInv
<1>4. CASE Waits(MM, FS)
    <2>1. Awaiting(MM, FS)' /\ ~SendsTo(FS, MM) /\ \A q \in Proc \ {MM} : Kept(q)
        BY <1>4 DEF Waits
    <2>2. FsAsked'
        BY <1>2, <2>1 DEF FsAsked, Kept, EntryKept, Ready
    <2> QED  BY <1>3, <2>1, <2>2
<1>5. ASSUME NEW q \in Proc, Taken(MM, q, FS)
      PROVE  /\ Ready(MM)' /\ FsQuiet' /\ \A r \in Slot : Kept(r)
    <2>1. SendsTo(FS, MM) /\ Ready(FS)' /\ EntryKept(MM) /\ \A r \in Slot : Kept(r)
        BY <1>5 DEF Taken
    <2>2. fs = "loop"
        BY <1>2, <2>1 DEF FsAsked, Ready, SendsTo
    <2> QED  BY <1>1, <2>1, <2>2 DEF FsQuiet, EntryKept, Ready
<1> QED
    BY <1>3, <1>4, <1>5

\* What MM knows when it dispatches a request.
LEMMA Dispatched ==
    ASSUME MmInv, NEW t, Dispatches(t)
    PROVE  /\ mm = [MmIdle EXCEPT !.at = "dispatch"] /\ Ready(MM) /\ FsQuiet
           /\ Caller \in Slot /\ Serves({Caller}) /\ Open(Caller) /\ call[Caller] = t
<1>1. mm.at = "dispatch" /\ p_flags[MM] = {} /\ buf[MM].body.type = t
    BY DEF Dispatches, MmAt, Runnable
<1>2. Ready(MM) /\ AtDispatch
    BY <1>1, Entries, PlaceIs, ProcFacts DEF MmInv
<1>3. FsQuiet
    BY <1>1, FsIsQuiet DEF TellsFs
<1>4. PICK p \in Slot : /\ Serves({p})
                        /\ buf[MM] = [source |-> p, body |-> Request(call[p], 0)]
    BY <1>2 DEF AtDispatch, Ready, Awaiting
<1>5. Caller = p /\ call[p] = t
    BY <1>1, <1>4 DEF Caller, Request
<1>6. mm = [MmIdle EXCEPT !.at = "dispatch"]
    BY <1>2 DEF AtDispatch
<1> QED
    BY <1>2, <1>3, <1>4, <1>5, <1>6 DEF Serves

-----------------------------------------------------------------------------
(* Steps of MM that leave the callers alone *)

LEMMA MmLoopStep ==
    ASSUME MmInv, MmLoop
    PROVE  StepOK
<1> USE ProcFacts
<1>1. /\ mm.at = "loop" /\ p_flags[MM] = {} /\ MsgReceive(MM, ANY)
      /\ mm' = [mm EXCEPT !.at = "dispatch"]
      /\ UNCHANGED <<p_parent, space, userVars, fs>>
    BY DEF MmLoop, MmAt, Runnable, MmReceive, Goto
<1>2. Ready(MM) /\ AtLoop
    BY <1>1, Entries, PlaceIs DEF MmInv
<1>3. mm = MmIdle /\ Serves({})
    BY <1>2 DEF AtLoop, Ready, SendsTo
<1>4. mm' = [MmIdle EXCEPT !.at = "dispatch"] /\ mm' \in MmLocals /\ mm'.at = "dispatch"
    <2>1. mm' = [at |-> "dispatch", src |-> NO_TASK, proc |-> NO_TASK, ret |-> 0,
                 then |-> "loop"]
        BY <1>1, <1>3 DEF MmIdle
    <2>2. mm' = [MmIdle EXCEPT !.at = "dispatch"]
        BY <2>1 DEF MmIdle
    <2>3. mm' \in MmLocals
        BY <2>1 DEF MmLocals, Place
    <2> QED  BY <2>1, <2>2, <2>3
<1>5. FsQuiet
    BY <1>1, FsIsQuiet DEF TellsFs
<1>6. /\ TableOK'
      /\ (\E q \in Proc : Taken(MM, q, ANY)) \/ Waits(MM, ANY)
    BY <1>1, <1>2, Entries, ReceiveStep DEF MmInv
<1>7. \A q \in Slot : Leaving(q) => Leaving(q)'
    BY <1>1 DEF Leaving
<1>8. CASE Waits(MM, ANY)
    <2>1. Awaiting(MM, ANY)' /\ \A q \in Proc \ {MM} : Kept(q)
        BY <1>8 DEF Waits
    <2>2. FsPlace'
        BY <1>1, <1>4, <1>5, <2>1, FsStaysQuiet DEF TellsFs
    <2>3. \A q \in Slot : StaysOwed(q) /\ SameMarks(q)
        BY <1>1, <2>1, TaskFrame
    <2>4. MmPlace'
        BY <1>3, <1>4, <2>1, <2>3 DEF AtDispatch, MmPlace, Serves, StaysOwed
    <2>5. \A q \in Slot \ {} : Kept(q)
        BY <2>1
    <2> QED  BY <1>1, <1>4, <1>6, <1>7, <2>2, <2>3, <2>4, <2>5, MmFrame
<1>9. ASSUME NEW p \in Proc, Taken(MM, p, ANY)
      PROVE  StepOK
    <2>1. /\ SendsTo(p, MM) /\ Ready(p)' /\ EntryKept(MM) /\ buf'[MM] = buf[p]
          /\ \A q \in Proc \ {MM, p} : Kept(q) /\ p # MM
        BY <1>9, <1>2 DEF Taken, SendsTo, Ready
    <2>2. p \in Slot
        BY <1>5, <2>1 DEF FsQuiet, Ready, Awaiting, SendsTo
    <2>3. /\ stage[p] = "sent" /\ call[p] \in Call
          /\ buf[p] = [source |-> p, body |-> Request(call[p], 0)]
        BY <2>1, <2>2 DEF MmInv, UserOK, Free, Ready, SendsTo, Pending, Bits, Receiving
    <2>4. call'[p] = call[p] /\ stage'[p] = stage[p]
        BY <1>1 DEF userVars
    <2>5. Open(p)' /\ UserOK(p)' /\ SameMarks(p)
        BY <2>1, <2>3, <2>4 DEF Open, Pending, UserOK, Ready, SendsTo, SameMarks,
                               Waiting, Hanging, Free
    <2>6. ForkReturns(p) /\ WaitReturns(p)
        BY <2>1, <2>3, <2>4 DEF ForkReturns, WaitReturns, Answered, Receiving, SendsTo
    <2>7. Ready(MM)' /\ Kept(FS)
        BY <1>2, <2>1, <2>2 DEF EntryKept, Ready
    <2>8. FsPlace'
        BY <1>1, <1>4, <1>5, <2>7, FsStaysQuiet DEF TellsFs
    <2>9. \A q \in Slot \ {p} : SameUser(q) /\ SameMarks(q)
        BY <1>1, <2>1, <2>2 DEF userVars, SameUser, Kept, EntryKept, SameMarks, Free, Hanging, Waiting
    <2>10. \A q \in Slot \ {p} : StaysOwed(q)
        BY <1>1, <2>5, <2>9, UsersStay
    <2>11. Serves({p})'
        BY <1>3, <2>2, <2>5, <2>10 DEF Serves, StaysOwed
    <2>12. MmPlace'
        BY <1>4, <2>1, <2>2, <2>3, <2>4, <2>7, <2>11 DEF AtDispatch, MmPlace
    <2>13. \A q \in Slot \ {p} : Kept(q)
        BY <2>9 DEF SameUser
    <2>14. /\ \A q \in Slot : SameMarks(q)
           /\ \A q \in {p} \cap Slot : UserOK(q)' /\ ForkReturns(q) /\ WaitReturns(q)
        BY <2>5, <2>6, <2>9
    <2>15. mm.at # "fork_copy"
        BY <1>1
    <2> QED  BY <1>1, <1>4, <1>6, <1>7, <2>8, <2>12, <2>13, <2>14, <2>15, MmFrame
<1> QED
    BY <1>6, <1>8, <1>9

\* MM goes to another place and does nothing else.
LEMMA GoesOn ==
    ASSUME MmInv, UNCHANGED <<ipcVars, p_parent, space, userVars, fs>>,
           Ready(MM), mm.at \in {"dispatch", "exit_children"},
           mm' \in MmLocals, mm'.at \notin TellsFs, MmPlace',
           \A q \in Slot : Leaving(q) => Leaving(q)'
    PROVE  StepOK
<1> USE ProcFacts
<1>1. TableOK' /\ \A q \in Proc : Kept(q)
    BY TableStays
<1>2. FsPlace'
    BY <1>1, FsIsQuiet, FsStaysQuiet DEF TellsFs
<1>3. \A q \in Slot : SameMarks(q)
    BY <1>1, TaskFrame
<1>4. \A q \in Slot \ {} : Kept(q)
    BY <1>1
<1> QED
    BY <1>1, <1>2, <1>3, <1>4, MmFrame

LEMMA ForkNoSlotStep ==
    ASSUME MmInv, ForkNoSlot
    PROVE  StepOK
<1> USE ProcFacts
<1>1. PICK p \in Slot : /\ p = Caller /\ Serves({p}) /\ call[p] = "FORK" /\ Open(p)
                        /\ mm = [MmIdle EXCEPT !.at = "dispatch"] /\ Ready(MM)
    BY Dispatched DEF ForkNoSlot
<1>2. /\ mm' = [mm EXCEPT !.at = "reply", !.src = p, !.proc = 0, !.ret = -1]
      /\ UNCHANGED <<ipcVars, p_parent, space, userVars, fs>>
    BY <1>1 DEF ForkNoSlot
<1>3. /\ mm' \in MmLocals /\ mm'.at = "reply" /\ mm'.src = p /\ mm'.ret = -1
      /\ mm.at = "dispatch"
    <2>1. mm' = [at |-> "reply", src |-> p, proc |-> 0, ret |-> -1, then |-> "loop"]
        BY <1>1, <1>2 DEF MmIdle
    <2>2. mm.at = "dispatch"
        BY <1>1, DispatchLocals
    <2>3. mm' \in MmLocals
        BY <2>1 DEF MmLocals, Place
    <2> QED  BY <2>1, <2>2, <2>3
<1>4. \A q \in Slot : StaysOwed(q)
    BY <1>2, TableStays, TaskFrame
<1>5. Right(p, Ret(mm.proc, mm.ret))'
    BY <1>1, <1>2, <1>3 DEF Right, Ret, userVars
<1>6. Serves({p})' /\ Ready(MM)'
    BY <1>1, <1>2, <1>4, TableStays DEF Serves, StaysOwed
<1>7. AtReply'
    BY <1>3, <1>5, <1>6 DEF AtReply
<1> QED
    BY <1>1, <1>2, <1>3, <1>7, GoesOn DEF Leaving, TellsFs, MmPlace

LEMMA WaitChildlessStep ==
    ASSUME MmInv, WaitChildless
    PROVE  StepOK
<1> USE ProcFacts
<1>1. PICK p \in Slot : /\ p = Caller /\ Serves({p}) /\ call[p] = "WAIT" /\ Open(p)
                        /\ mm = [MmIdle EXCEPT !.at = "dispatch"] /\ Ready(MM)
    BY Dispatched DEF WaitChildless
<1>2. /\ mm' = [mm EXCEPT !.at = "reply", !.src = p, !.proc = NO_TASK, !.ret = 0]
      /\ UNCHANGED <<ipcVars, p_parent, space, userVars, fs>>
      /\ \A i \in Slot : p_parent[i] # p
    BY <1>1 DEF WaitChildless, ChildrenOf
<1>3. /\ mm' \in MmLocals /\ mm'.at = "reply" /\ mm'.src = p /\ mm'.ret = 0
      /\ mm.at = "dispatch" /\ mm'.proc = NO_TASK
    <2>1. mm' = [at |-> "reply", src |-> p, proc |-> NO_TASK, ret |-> 0, then |-> "loop"]
        BY <1>1, <1>2 DEF MmIdle
    <2>2. mm.at = "dispatch"
        BY <1>1, DispatchLocals
    <2>3. mm' \in MmLocals
        BY <2>1 DEF MmLocals, Place
    <2> QED  BY <2>1, <2>2, <2>3
<1>4. \A q \in Slot : StaysOwed(q)
    BY <1>2, TableStays, TaskFrame
<1>5. Right(p, Ret(NO_TASK, 0))' /\ Serves({p})' /\ Ready(MM)'
    BY <1>1, <1>2, <1>3, <1>4, TableStays DEF Right, WaitPid, Ret, Serves, StaysOwed, userVars
<1>6. MmPlace'
    BY <1>1, <1>3, <1>5 DEF AtReply, MmPlace
<1> QED
    BY <1>1, <1>2, <1>3, <1>6, GoesOn DEF Leaving, TellsFs

\* A process with the HANGING bit has called exit(), and MM keeps it for its parent.
LEMMA ZombieIs ==
    ASSUME MmInv, NEW c \in Slot, Hanging(c)
    PROVE  c \in User /\ Pending(c) /\ call[c] = "EXIT" /\ ~Free(c)
<1>1. ~Free(c) /\ ~Ready(c) /\ ~SendsTo(c, MM)
    BY DEF Hanging, Free, Ready, SendsTo
<1>2. Pending(c) /\ call[c] = "EXIT"
    BY <1>1 DEF MmInv, UserOK, Pending
<1>3. c # InitProc
    BY <1>2 DEF MmInv
<1> QED
    BY <1>1, <1>2, <1>3 DEF Slot

LEMMA WaitReapStep ==
    ASSUME MmInv, WaitReap
    PROVE  StepOK
<1> USE ProcFacts
<1>1. PICK p \in Slot : /\ p = Caller /\ Serves({p}) /\ call[p] = "WAIT" /\ Open(p)
                        /\ mm = [MmIdle EXCEPT !.at = "dispatch"] /\ Ready(MM)
    BY Dispatched DEF WaitReap
<1>2. PICK c \in Slot : c \in Zombies(p) /\ c = Min(Zombies(p))
    <2>1. Zombies(p) \in SUBSET Nat /\ Zombies(p) \subseteq Slot
        BY DEF Zombies, ChildrenOf
    <2>2. Zombies(p) # {}
        BY <1>1 DEF WaitReap
    <2> QED  BY <2>1, <2>2, MinIsMember
<1>3. /\ mm' = [mm EXCEPT !.at = "cleanup", !.proc = c, !.then = "loop"]
      /\ UNCHANGED <<ipcVars, p_parent, space, userVars, fs>>
    BY <1>1, <1>2 DEF WaitReap, Cleanup
<1>4. /\ mm' \in MmLocals /\ mm'.at = "cleanup" /\ mm'.proc = c /\ mm'.then = "loop"
      /\ mm.at = "dispatch"
    <2>1. mm' = [at |-> "cleanup", src |-> NO_TASK, proc |-> c, ret |-> 0, then |-> "loop"]
        BY <1>1, <1>3 DEF MmIdle
    <2>2. mm.at = "dispatch"
        BY <1>1, DispatchLocals
    <2>3. mm' \in MmLocals
        BY <2>1 DEF MmLocals, Place
    <2> QED  BY <2>1, <2>2, <2>3
<1>5. p_parent[c] = p /\ Hanging(c) /\ Pending(c) /\ call[c] = "EXIT" /\ c \in User
    BY <1>2, ZombieIs DEF Zombies, ChildrenOf
<1>6. \A q \in Slot : StaysOwed(q)
    BY <1>3, TableStays, TaskFrame
<1>7. Hanging(c)' /\ Pending(c)' /\ call'[c] = "EXIT" /\ p_parent'[c] = p
      /\ call'[p] = "WAIT" /\ Ready(MM)'
    BY <1>1, <1>3, <1>5, <1>6, TableStays DEF StaysOwed, SameMarks, userVars
<1>8. Serves({p})' /\ {p} \cup {q \in {c} : ~Hanging(q)}' = {p}
    BY <1>1, <1>6, <1>7 DEF Serves, StaysOwed
<1>9. MmPlace'
    <2>1. AtCleanup'
        BY <1>4, <1>5, <1>7, <1>8 DEF AtCleanup
    <2> QED  BY <2>1 DEF MmPlace
<1> QED
    BY <1>1, <1>3, <1>4, <1>9, GoesOn DEF Leaving, TellsFs

LEMMA ExitDoneStep ==
    ASSUME MmInv, ExitDone
    PROVE  StepOK
<1> USE ProcFacts
<1>1. /\ mm.at = "exit_children" /\ p_flags[MM] = {} /\ mm' = MmIdle
      /\ ChildrenOf(mm.src) = {}
      /\ UNCHANGED <<ipcVars, p_parent, space, userVars, fs>>
    BY DEF ExitDone, MmAt, Runnable
<1>2. Ready(MM) /\ Serves({})
    BY <1>1, PlaceIs DEF MmInv, AtChildren
<1>3. TableOK' /\ Ready(MM)' /\ \A q \in Proc : Kept(q)
    BY <1>1, <1>2, TableStays
<1>4. /\ \A q \in Slot : /\ UserOK(q)' /\ StaysOwed(q) /\ SameMarks(q)
                         /\ ForkReturns(q) /\ WaitReturns(q)
      /\ call'[InitProc] # "EXIT"
    BY <1>1, <1>3, TaskFrame
<1>5. mm' \in MmLocals /\ mm'.at = "loop"
    <2>1. mm' = [at |-> "loop", src |-> NO_TASK, proc |-> NO_TASK, ret |-> 0,
                 then |-> "loop"]
        BY <1>1 DEF MmIdle
    <2>3. mm' \in MmLocals
        BY <2>1 DEF MmLocals, Place
    <2> QED  BY <2>1, <2>3
<1>6. FsPlace'
    BY <1>1, <1>3, <1>5, FsIsQuiet, FsStaysQuiet DEF TellsFs
<1>7. MmPlace'
    BY <1>1, <1>2, <1>3, <1>4 DEF AtLoop, MmPlace, Serves, StaysOwed
<1>8. FamilyOK'
    <2>1. \A c \in User : p_parent[c] \in Slot \cup {NO_TASK} /\ p_parent[c] # mm.src
        BY <1>1 DEF MmInv, MmTypeOK, ChildrenOf
    <2>2. \A c \in User :
              /\ p_parent[c] # c
              /\ p_parent[c] = NO_TASK => Free(c)
              /\ p_parent[c] # NO_TASK => ~Free(p_parent[c]) /\ ~Hanging(p_parent[c])
              /\ Hanging(c) => ~Waiting(p_parent[c])
        BY <2>1 DEF MmInv, FamilyOK, Leaving
    <2> QED
        BY <1>1, <2>2 DEF MmInv, FamilyOK, ipcVars, Free, Hanging, Waiting
<1>9. SpaceOK' /\ MmTypeOK'
    BY <1>1, <1>4, <1>5 DEF MmInv, SpaceOK, SameMarks, MmTypeOK, userVars, MmLocals
<1> QED
    BY <1>3, <1>4, <1>6, <1>7, <1>8, <1>9 DEF StepOK, MmInv

\* MM goes to the place x and keeps its locals.
LEMMA PlaceMoves ==
    ASSUME MmInv, NEW x \in Place, mm' = [mm EXCEPT !.at = x]
    PROVE  /\ mm' \in MmLocals /\ mm'.at = x /\ mm'.src = mm.src /\ mm'.proc = mm.proc
           /\ mm'.ret = mm.ret /\ mm'.then = mm.then
<1>1. mm \in MmLocals
    BY DEF MmInv, MmTypeOK
<1> QED
    BY <1>1 DEF MmLocals

LEMMA ForkTalkStep ==
    ASSUME MmInv, ForkTell \/ ForkTold
    PROVE  StepOK
<1> USE ProcFacts
<1> DEFINE x == IF mm.at = "fork_tell" THEN "fork_told" ELSE "birth"
<1>1. /\ mm.at \in {"fork_tell", "fork_told"} /\ Runnable(MM)
      /\ mm' = [mm EXCEPT !.at = x] /\ x \in Place
      /\ UNCHANGED <<p_parent, space, userVars, fs>>
    BY DEF ForkTell, ForkTold, MmAt, MmSend, MmReceive, Goto, Place
<1>2. AtFork
    BY <1>1, PlaceIs DEF MmInv
<1>3. /\ mm' \in MmLocals /\ mm'.at = x /\ mm'.src = mm.src /\ mm'.proc = mm.proc
      /\ mm'.ret = mm.ret
    BY <1>1, PlaceMoves
<1>4. Ready(MM)
    BY <1>1, Entries DEF Runnable
<1>5. /\ TableOK' /\ FsPlace' /\ \A q \in Slot : Kept(q)
    <2>1. CASE ForkTell
        <3>1. mm.at = "fork_tell" /\ MsgSend(MM, FS, Request("FORK", mm.proc))
            BY <2>1 DEF ForkTell, MmAt, MmSend
        <3>2. FsQuiet
            BY <3>1, FsIsQuiet DEF TellsFs
        <3>3. Request("FORK", mm.proc) \in Mail
            BY <1>2 DEF AtFork, Request, Mail, Call
        <3>4. /\ TableOK' /\ \A q \in Slot : Kept(q)
              /\ \/ SendsTo(MM, FS)' /\ buf'[MM].source = MM /\ fs' = "loop" /\ Ready(FS)'
                 \/ Ready(MM)' /\ FsAsked'
            BY <1>1, <1>4, <3>1, <3>2, <3>3, TellStep
        <3>5. mm'.at = "fork_told"
            BY <1>3, <3>1
        <3> QED  BY <3>4, <3>5 DEF FsPlace
    <2>2. CASE ForkTold
        <3>1. mm.at = "fork_told" /\ MsgReceive(MM, FS)
            BY <2>2 DEF ForkTold, MmAt, MmReceive
        <3>2. /\ TableOK' /\ \A q \in Slot : Kept(q)
              /\ \/ Awaiting(MM, FS)' /\ FsAsked'
                 \/ Ready(MM)' /\ FsQuiet'
            BY <1>1, <3>1, HearStep
        <3>3. mm'.at = "birth"
            BY <1>3, <3>1
        <3> QED  BY <3>2, <3>3 DEF FsPlace
    <2> QED  BY <2>1, <2>2
<1>6. \A q \in Slot : StaysOwed(q) /\ SameMarks(q)
    BY <1>1, <1>5, TaskFrame
<1>7. MmPlace'
    <2>1. PICK s \in Slot, c \in User : s = mm.src /\ c = mm.proc
        BY <1>2 DEF AtFork
    <2>2. /\ s # c /\ p_parent[c] = s /\ mm.ret = 0 /\ Serves({s, c})
          /\ call[s] = "FORK" /\ call[c] = "FORK"
        BY <1>2, <2>1 DEF AtFork
    <2>3. Serves({s, c})'
        BY <1>6, <2>2 DEF Serves, StaysOwed
    <2>4. p_parent'[c] = s /\ call'[s] = "FORK" /\ call'[c] = "FORK"
        BY <1>1, <2>2 DEF userVars
    <2>5. mm'.at \in {"fork_told", "birth"}
        BY <1>3
    <2>6. AtFork'
        BY <1>3, <2>1, <2>2, <2>3, <2>4, <2>5 DEF AtFork
    <2> QED  BY <2>6 DEF MmPlace
<1>8. \A q \in Slot : Leaving(q) => Leaving(q)'
    BY <1>1 DEF Leaving
<1>9. mm.at # "fork_copy" /\ \A q \in Slot \ {} : Kept(q)
    BY <1>1, <1>5
<1> QED
    BY <1>1, <1>3, <1>5, <1>6, <1>7, <1>8, <1>9, MmFrame

LEMMA ExitTellStep ==
    ASSUME MmInv, ExitTell
    PROVE  StepOK
<1> USE ProcFacts
<1>1. PICK p \in Slot : /\ p = Caller /\ Serves({p}) /\ call[p] = "EXIT" /\ Open(p)
                        /\ mm = [MmIdle EXCEPT !.at = "dispatch"] /\ Ready(MM) /\ FsQuiet
    BY Dispatched DEF ExitTell
<1>2. /\ mm' = [mm EXCEPT !.at = "exit_told", !.src = p]
      /\ UNCHANGED <<p_parent, space, userVars, fs>>
      /\ MsgSend(MM, FS, Request("EXIT", p))
    BY <1>1 DEF ExitTell
<1>3. /\ mm' \in MmLocals /\ mm'.at = "exit_told" /\ mm'.src = p /\ mm.at = "dispatch"
    <2>1. mm' = [at |-> "exit_told", src |-> p, proc |-> NO_TASK, ret |-> 0, then |-> "loop"]
        BY <1>1, <1>2 DEF MmIdle
    <2>2. mm.at = "dispatch"
        BY <1>1, DispatchLocals
    <2>3. mm' \in MmLocals
        BY <2>1 DEF MmLocals, Place
    <2> QED  BY <2>1, <2>2, <2>3
<1>4. p \in User
    BY <1>1 DEF MmInv, Slot
<1>5. Request("EXIT", p) \in Mail
    BY DEF Request, Mail, Call
<1>6. /\ TableOK' /\ \A q \in Slot : Kept(q)
      /\ \/ SendsTo(MM, FS)' /\ buf'[MM].source = MM /\ fs' = "loop" /\ Ready(FS)'
         \/ Ready(MM)' /\ FsAsked'
    BY <1>1, <1>2, <1>5, TellStep
<1>7. FsPlace'
    BY <1>3, <1>6 DEF FsPlace
<1>8. \A q \in Slot : StaysOwed(q) /\ SameMarks(q)
    BY <1>2, <1>6, TaskFrame
<1>9. MmPlace'
    <2>1. Serves({p})' /\ call'[p] = "EXIT"
        BY <1>1, <1>2, <1>8 DEF Serves, StaysOwed, userVars
    <2>2. AtExit'
        BY <1>3, <1>4, <2>1 DEF AtExit
    <2> QED  BY <2>2 DEF MmPlace
<1>10. /\ \A q \in Slot : Leaving(q) => Leaving(q)'
       /\ mm.at # "fork_copy" /\ \A q \in Slot \ {} : Kept(q)
    BY <1>3, <1>6 DEF Leaving
<1> QED
    BY <1>2, <1>3, <1>6, <1>7, <1>8, <1>9, <1>10, MmFrame

LEMMA ExitToldStep ==
    ASSUME MmInv, ExitTold
    PROVE  StepOK
<1> USE ProcFacts
<1>1. /\ mm.at = "exit_told" /\ Runnable(MM) /\ MsgReceive(MM, FS)
      /\ mm' = [mm EXCEPT !.at = "exit_parent"]
      /\ UNCHANGED <<p_parent, space, userVars, fs>>
    BY DEF ExitTold, MmAt, MmReceive, Goto
<1>2. AtExit
    BY <1>1, PlaceIs DEF MmInv
<1>3. /\ mm' \in MmLocals /\ mm'.at = "exit_parent" /\ mm'.src = mm.src
    <2>1. "exit_parent" \in Place
        BY DEF Place
    <2> QED  BY <1>1, <2>1, PlaceMoves
<1>4. /\ TableOK' /\ \A q \in Slot : Kept(q)
      /\ \/ Awaiting(MM, FS)' /\ FsAsked'
         \/ Ready(MM)' /\ FsQuiet'
    BY <1>1, HearStep
<1>5. FsPlace'
    BY <1>3, <1>4 DEF FsPlace
<1>6. \A q \in Slot : StaysOwed(q) /\ SameMarks(q)
    BY <1>1, <1>4, TaskFrame
<1>7. MmPlace'
    <2>1. PICK p \in User : p = mm.src
        BY <1>2 DEF AtExit
    <2>2. Serves({p}) /\ call[p] = "EXIT"
        BY <1>2, <2>1 DEF AtExit
    <2>3. Serves({p})' /\ call'[p] = "EXIT"
        BY <1>1, <1>6, <2>2 DEF Serves, StaysOwed, userVars
    <2>4. AtExit'
        BY <1>3, <2>1, <2>3 DEF AtExit
    <2> QED  BY <2>4 DEF MmPlace
<1>8. /\ \A q \in Slot : Leaving(q) => Leaving(q)'
      /\ mm.at # "fork_copy" /\ \A q \in Slot \ {} : Kept(q)
    BY <1>1, <1>4 DEF Leaving
<1> QED
    BY <1>1, <1>3, <1>4, <1>5, <1>6, <1>7, <1>8, MmFrame

-----------------------------------------------------------------------------
(* Steps of MM that answer a caller *)

\* MM sends d the answer to its call: d gets it, or has not come to its
\* RECEIVE yet and MM blocks.
LEMMA AnswerStep ==
    ASSUME MmInv, Ready(MM), NEW d \in Slot, Open(d), NEW m \in Mail, MsgSend(MM, d, m)
    PROVE  /\ TableOK' /\ buf'[MM] = [source |-> MM, body |-> m]
           /\ \A q \in Proc \ {MM, d} : Kept(q)
           /\ \/ /\ stage[d] = "received" /\ Receiving(d)
                 /\ Ready(MM)' /\ Ready(d)' /\ buf'[d] = [source |-> MM, body |-> m]
              \/ SendsTo(MM, d)' /\ Kept(d)
<1> USE ProcFacts
<1>1. Receiving(d) => /\ p_flags[d] = {"RECEIVING"} /\ p_msg[d] /\ p_sendto[d] = NO_TASK
                      /\ stage[d] = "received"
    BY DEF Open, Pending, Receiving, Waiting, Hanging, Bits
<1>2. Awaits(d, MM) => Receiving(d)
    BY DEF Awaits
<1>3. {d} \in SUBSET Proc /\ d \in {d} /\ MM \notin {d}
      /\ \A q \in {d} : Sending(q) => p_sendto[q] \in {d}
    BY DEF Open, Pending, Bits, Sending
<1>4. Awaits(d, MM) =>
          p_flags[d] = {"RECEIVING"} /\ p_msg[d] /\ p_sendto[d] = NO_TASK
    BY <1>1, <1>2
<1>5. /\ TableOK'
      /\ buf'[MM] = [source |-> MM, body |-> m]
      /\ \A q \in Proc \ {MM, d} : Kept(q)
      /\ HandedOver(MM, d) \/ Blocked(MM, d)
    <2> HIDE DEF Mail
    <2> QED  BY <1>3, <1>4, SendStep DEF MmInv
<1>6. CASE HandedOver(MM, d)
    <2>1. Ready(MM)' /\ Ready(d)' /\ buf'[d] = buf'[MM]
        BY <1>6 DEF HandedOver, EntryKept, Ready
    <2> QED  BY <1>1, <1>2, <1>5, <1>6, <2>1 DEF HandedOver
<1>7. CASE Blocked(MM, d)
    BY <1>5, <1>7 DEF Blocked
<1> QED
    BY <1>5, <1>6, <1>7

\* d has its answer: it runs, MM owes it nothing, and the others are as before.
LEMMA Answering ==
    ASSUME MmInv, NEW d \in Slot, NEW a, Open(d), Right(d, a),
           UNCHANGED <<p_parent, userVars>>,
           stage[d] = "received", Receiving(d), Ready(d)', buf'[d].body = a,
           \A q \in Proc \ {MM, d} : Kept(q)
    PROVE  /\ \A q \in Slot : SameMarks(q)
           /\ \A q \in Slot \ {d} : StaysOwed(q) /\ (Pending(q)' <=> Pending(q))
           /\ UserOK(d)' /\ ForkReturns(d) /\ WaitReturns(d) /\ ~Open(d)'
           /\ \A S : Serves(S) => Serves(S \ {d})'
<1> USE ProcFacts
<1>1. call'[d] = call[d] /\ stage'[d] = stage[d] /\ p_flags'[d] = {}
    BY DEF userVars, Ready
<1>2. SameMarks(d)
    BY <1>1 DEF Open, Pending, SameMarks, Free, Hanging, Waiting, Receiving, Bits
<1>3. \A q \in Slot \ {d} : SameUser(q) /\ SameMarks(q)
    BY DEF userVars, SameUser, Kept, EntryKept, SameMarks, Free, Hanging, Waiting
<1>4. \A q \in Slot : SameMarks(q)
    BY <1>2, <1>3
<1>5. \A q \in Slot \ {d} : StaysOwed(q) /\ (Pending(q)' <=> Pending(q))
    BY <1>3, <1>4, UsersStay
<1>6. Right(d, a)'
    BY <1>1, <1>4, RightStays DEF userVars
<1>7. UserOK(d)'
    BY <1>1, <1>6 DEF UserOK, Right
<1>8. ~Open(d)'
    BY <1>1 DEF Open, Pending, Receiving
<1>9. ForkReturns(d) /\ WaitReturns(d)
    BY <1>1 DEF ForkReturns, WaitReturns, Right
<1>10. \A S : Serves(S) => Serves(S \ {d})'
    BY <1>5, <1>8, ServesLess DEF StaysOwed
<1> QED
    BY <1>4, <1>5, <1>7, <1>8, <1>9, <1>10

LEMMA ForkBirthStep ==
    ASSUME MmInv, ForkBirth
    PROVE  StepOK
<1> USE ProcFacts
<1>1. /\ mm.at = "birth" /\ Runnable(MM) /\ MsgSend(MM, mm.proc, Ret(0, 0))
      /\ mm' = [mm EXCEPT !.at = "reply"]
      /\ UNCHANGED <<p_parent, space, userVars, fs>>
    BY DEF ForkBirth, MmAt, MmSend, Goto
<1>2. AtFork /\ Ready(MM)
    BY <1>1, PlaceIs, Entries DEF MmInv, Runnable
<1>3. PICK s \in Slot, c \in User : s = mm.src /\ c = mm.proc
    BY <1>2 DEF AtFork
<1>4. /\ s # c /\ p_parent[c] = s /\ mm.ret = 0 /\ Serves({s, c})
      /\ call[s] = "FORK" /\ call[c] = "FORK"
    BY <1>2, <1>3 DEF AtFork
<1>5. /\ mm' \in MmLocals /\ mm'.at = "reply" /\ mm'.src = s /\ mm'.proc = c /\ mm'.ret = 0
    <2>1. "reply" \in Place
        BY DEF Place
    <2> QED  BY <1>1, <1>3, <1>4, <2>1, PlaceMoves
<1>6. Open(c) /\ Ret(0, 0) \in Mail
    BY <1>4 DEF Serves, Ret, Mail
<1>7. /\ TableOK' /\ buf'[MM] = [source |-> MM, body |-> Ret(0, 0)]
      /\ \A q \in Proc \ {MM, c} : Kept(q)
      /\ \/ /\ stage[c] = "received" /\ Receiving(c)
            /\ Ready(MM)' /\ Ready(c)' /\ buf'[c] = [source |-> MM, body |-> Ret(0, 0)]
         \/ SendsTo(MM, c)' /\ Kept(c)
    BY <1>1, <1>2, <1>3, <1>6, AnswerStep
<1>8. FsPlace'
    <2>1. FsQuiet
        BY <1>1, <1>2, FsIsQuiet
    <2> QED  BY <1>1, <1>5, <1>7, <2>1, FsStaysQuiet DEF TellsFs
<1>9. mm.at # "fork_copy" /\ \A q \in Slot : Leaving(q) => Leaving(q)'
    BY <1>1 DEF Leaving
<1>10. CASE SendsTo(MM, c)' /\ Kept(c)
    <2>1. \A q \in Slot \ {} : Kept(q)
        BY <1>7, <1>10
    <2>2. \A q \in Slot : StaysOwed(q) /\ SameMarks(q)
        BY <1>1, <2>1, TaskFrame
    <2>3. Serves({s, c})' /\ p_parent'[c] = s /\ call'[s] = "FORK" /\ call'[c] = "FORK"
        BY <1>1, <1>4, <2>2 DEF Serves, StaysOwed, userVars
    <2>4. AtFork'
        BY <1>4, <1>5, <1>7, <1>10, <2>3 DEF AtFork
    <2> QED
        BY <1>1, <1>5, <1>7, <1>8, <1>9, <2>1, <2>2, <2>4, MmFrame DEF MmPlace
<1>11. CASE /\ stage[c] = "received" /\ Receiving(c)
            /\ Ready(MM)' /\ Ready(c)' /\ buf'[c] = [source |-> MM, body |-> Ret(0, 0)]
    <2>1. Right(c, Ret(0, 0)) /\ buf'[c].body = Ret(0, 0)
        BY <1>4, <1>11 DEF Right, ForkPid, Ret
    <2>2. /\ \A q \in Slot : SameMarks(q)
          /\ UserOK(c)' /\ ForkReturns(c) /\ WaitReturns(c)
          /\ Serves({s, c} \ {c})'
        BY <1>1, <1>4, <1>6, <1>7, <1>11, <2>1, Answering
    <2>3. {s, c} \ {c} = {s}
        BY <1>4
    <2>4. ~Free(c)' /\ p_parent'[c] = s /\ call'[s] = "FORK"
        BY <1>1, <1>4, <1>11 DEF Free, Ready, userVars
    <2>5. Right(s, Ret(c, 0))'
        BY <2>4 DEF Right, ForkPid, Ret
    <2>6. AtReply'
        BY <1>5, <1>11, <2>2, <2>3, <2>5 DEF AtReply
    <2>7. /\ \A q \in Slot \ {c} : Kept(q)
          /\ \A q \in {c} \cap Slot : UserOK(q)' /\ ForkReturns(q) /\ WaitReturns(q)
        BY <1>7, <2>2
    <2> QED
        BY <1>1, <1>5, <1>7, <1>8, <1>9, <2>2, <2>6, <2>7, MmFrame DEF MmPlace
<1> QED
    BY <1>7, <1>10, <1>11

LEMMA ReplyStep ==
    ASSUME MmInv, Reply
    PROVE  StepOK
<1> USE ProcFacts
<1>1. /\ mm.at = "reply" /\ Runnable(MM) /\ MsgSend(MM, mm.src, Ret(mm.proc, mm.ret))
      /\ mm' = MmIdle /\ UNCHANGED <<p_parent, space, userVars, fs>>
    BY DEF Reply, MmAt, MmSend, Goto
<1>2. Ready(MM) /\ AtReply
    <2>1. Ready(MM)
        BY <1>1, Entries DEF Runnable
    <2> QED  BY <1>1, <2>1, PlaceIs DEF MmInv, Ready, SendsTo
<1>3. PICK p \in Slot, a \in {Ret(mm.proc, mm.ret)} : p = mm.src /\ a = Ret(mm.proc, mm.ret)
    BY <1>2 DEF AtReply
<1>4. Serves({p}) /\ Right(p, a) /\ Open(p)
    BY <1>2, <1>3 DEF AtReply, Serves
<1>5. a \in Mail
    <2>1. mm.proc \in Slot \cup {NO_TASK, 0} /\ mm.ret \in {0, -1}
        BY DEF MmInv, MmTypeOK, MmLocals
    <2> QED  BY <1>3, <2>1 DEF Ret, Mail
<1>6. mm' \in MmLocals /\ mm'.at = "loop"
    <2>1. mm' = [at |-> "loop", src |-> NO_TASK, proc |-> NO_TASK, ret |-> 0,
                 then |-> "loop"]
        BY <1>1 DEF MmIdle
    <2>2. mm' \in MmLocals
        BY <2>1 DEF MmLocals, Place
    <2> QED  BY <2>1, <2>2
<1>7. /\ TableOK' /\ buf'[MM] = [source |-> MM, body |-> a]
      /\ \A q \in Proc \ {MM, p} : Kept(q)
      /\ \/ /\ stage[p] = "received" /\ Receiving(p)
            /\ Ready(MM)' /\ Ready(p)' /\ buf'[p] = [source |-> MM, body |-> a]
         \/ SendsTo(MM, p)' /\ Kept(p)
    BY <1>1, <1>2, <1>3, <1>4, <1>5, AnswerStep
<1>8. FsPlace'
    <2>1. FsQuiet
        BY <1>1, FsIsQuiet DEF TellsFs
    <2> QED  BY <1>1, <1>6, <1>7, <2>1, FsStaysQuiet DEF TellsFs
<1>9. mm.at # "fork_copy" /\ \A q \in Slot : Leaving(q) => Leaving(q)'
    BY <1>1 DEF Leaving
<1>10. CASE SendsTo(MM, p)' /\ Kept(p)
    <2>1. \A q \in Slot \ {} : Kept(q)
        BY <1>7, <1>10
    <2>2. \A q \in Slot : StaysOwed(q) /\ SameMarks(q)
        BY <1>1, <2>1, TaskFrame
    <2>3. Right(p, a)'
        BY <1>1, <1>4, <2>2, RightStays DEF StaysOwed, userVars
    <2>4. Right(p, buf[MM].body)'
        BY <1>7, <2>3 DEF Right
    <2>5. Serves({p})' /\ buf'[MM].source = MM
        BY <1>4, <1>7, <2>2 DEF Serves, StaysOwed
    <2>6. AtLoop'
        BY <1>1, <1>10, <2>4, <2>5 DEF AtLoop
    <2> QED
        BY <1>1, <1>6, <1>7, <1>8, <1>9, <2>1, <2>2, <2>6, MmFrame DEF MmPlace
<1>11. CASE /\ stage[p] = "received" /\ Receiving(p)
            /\ Ready(MM)' /\ Ready(p)' /\ buf'[p] = [source |-> MM, body |-> a]
    <2>1. buf'[p].body = a
        BY <1>11
    <2>2. /\ \A q \in Slot : SameMarks(q)
          /\ UserOK(p)' /\ ForkReturns(p) /\ WaitReturns(p)
          /\ Serves({p} \ {p})'
        BY <1>1, <1>4, <1>7, <1>11, <2>1, Answering
    <2>3. {p} \ {p} = {}
        OBVIOUS
    <2>4. AtLoop'
        BY <1>1, <1>11, <2>2, <2>3 DEF AtLoop
    <2>5. /\ \A q \in Slot \ {p} : Kept(q)
          /\ \A q \in {p} \cap Slot : UserOK(q)' /\ ForkReturns(q) /\ WaitReturns(q)
        BY <1>7, <2>2
    <2> QED
        BY <1>1, <1>6, <1>7, <1>8, <1>9, <2>2, <2>4, <2>5, MmFrame DEF MmPlace
<1> QED
    BY <1>7, <1>10, <1>11

LEMMA CleanupSendStep ==
    ASSUME MmInv, CleanupSend
    PROVE  StepOK
<1> USE ProcFacts
<1>1. /\ mm.at = "cleanup" /\ Runnable(MM)
      /\ MsgSend(MM, p_parent[mm.proc], Ret(mm.proc, 0))
      /\ mm' = [mm EXCEPT !.at = "free"]
      /\ UNCHANGED <<p_parent, space, userVars, fs>>
    BY DEF CleanupSend, MmAt, MmSend, Goto
<1>2. Ready(MM) /\ AtCleanup
    BY <1>1, PlaceIs, Entries DEF MmInv, Runnable
<1>3. PICK c \in User : c = mm.proc
    BY <1>2 DEF AtCleanup
<1>4. PICK p \in Slot : p = p_parent[c]
    BY <1>2, <1>3 DEF AtCleanup
<1>5. PICK ending : ending = {q \in {c} : ~Hanging(q)}
    OBVIOUS
<1>6. /\ Pending(c) /\ call[c] = "EXIT" /\ Serves({p} \cup ending) /\ call[p] = "WAIT"
      /\ Hanging(c) \/ (mm.then = "exit_children" /\ mm.src = c)
      /\ mm.then = "exit_children" =>
            mm.src \in User /\ (mm.src = c \/ Hanging(mm.src) \/ Free(mm.src))
    BY <1>1, <1>2, <1>3, <1>4, <1>5 DEF AtCleanup
<1>7. /\ mm' \in MmLocals /\ mm'.at = "free" /\ mm'.src = mm.src /\ mm'.proc = c
      /\ mm'.then = mm.then
    <2>1. "free" \in Place
        BY DEF Place
    <2> QED  BY <1>1, <1>3, <2>1, PlaceMoves
<1>8. Open(p) /\ p # c /\ Ret(c, 0) \in Mail
    BY <1>6 DEF Serves, Ret, Mail
<1>9. /\ TableOK' /\ buf'[MM] = [source |-> MM, body |-> Ret(c, 0)]
      /\ \A q \in Proc \ {MM, p} : Kept(q)
      /\ \/ /\ stage[p] = "received" /\ Receiving(p)
            /\ Ready(MM)' /\ Ready(p)' /\ buf'[p] = [source |-> MM, body |-> Ret(c, 0)]
         \/ SendsTo(MM, p)' /\ Kept(p)
    BY <1>1, <1>2, <1>3, <1>4, <1>8, AnswerStep
<1>10. FsPlace'
    <2>1. FsQuiet
        BY <1>1, FsIsQuiet DEF TellsFs
    <2> QED  BY <1>1, <1>7, <1>9, <2>1, FsStaysQuiet DEF TellsFs
<1>11. mm.at # "fork_copy" /\ \A q \in Slot : Leaving(q) => Leaving(q)'
    BY <1>1, <1>7 DEF Leaving
<1>12. p_parent'[c] = p /\ call'[c] = "EXIT" /\ call'[p] = "WAIT"
    BY <1>1, <1>4, <1>6 DEF userVars
<1>13. ASSUME \A q \in Slot : SameMarks(q), Pending(c)',
              \/ SendsTo(MM, p)' /\ Serves({p} \cup ending)'
              \/ Ready(MM)' /\ Serves(ending)'
       PROVE  MmPlace'
    <2>1. ending = {q \in {c} : ~Hanging(q)}' /\ (Hanging(c)' <=> Hanging(c))
        BY <1>5, <1>13 DEF SameMarks
    <2>2. mm.then = "exit_children" =>
                mm.src \in User /\ (mm.src = c \/ Hanging(mm.src)' \/ Free(mm.src)')
        <3>1. mm.then = "exit_children" => SameMarks(mm.src)
            BY <1>6, <1>13
        <3> QED  BY <1>6, <3>1, <1>7 DEF SameMarks, Hanging, Free
    <2>3. AtCleanup'
        BY <1>6, <1>7, <1>9, <1>12, <1>13, <2>1, <2>2 DEF AtCleanup, Hanging, Free
    <2> QED  BY <2>3 DEF MmPlace
<1>14. CASE SendsTo(MM, p)' /\ Kept(p)
    <2>1. \A q \in Slot \ {} : Kept(q)
        BY <1>9, <1>14
    <2>2. \A q \in Slot : StaysOwed(q) /\ SameMarks(q)
        BY <1>1, <2>1, TaskFrame
    <2>3. Serves({p} \cup ending)' /\ Pending(c)'
        BY <1>6, <2>2 DEF Serves, StaysOwed
    <2>4. MmPlace'
        BY <1>13, <1>14, <2>2, <2>3
    <2> QED
        BY <1>1, <1>7, <1>9, <1>10, <1>11, <2>1, <2>2, <2>4, MmFrame
<1>15. CASE /\ stage[p] = "received" /\ Receiving(p)
            /\ Ready(MM)' /\ Ready(p)' /\ buf'[p] = [source |-> MM, body |-> Ret(c, 0)]
    <2>1. Right(p, Ret(c, 0)) /\ buf'[p].body = Ret(c, 0)
        BY <1>4, <1>6, <1>15 DEF Right, WaitPid, Ret
    <2>2. /\ \A q \in Slot : SameMarks(q)
          /\ \A q \in Slot \ {p} : (Pending(q)' <=> Pending(q))
          /\ UserOK(p)' /\ ForkReturns(p) /\ WaitReturns(p)
          /\ Serves(({p} \cup ending) \ {p})'
        BY <1>1, <1>6, <1>8, <1>9, <1>15, <2>1, Answering
    <2>3. ({p} \cup ending) \ {p} = ending /\ Pending(c)'
        BY <1>5, <1>6, <1>8, <2>2
    <2>4. MmPlace'
        BY <1>13, <1>15, <2>2, <2>3
    <2>5. /\ \A q \in Slot \ {p} : Kept(q)
          /\ \A q \in {p} \cap Slot : UserOK(q)' /\ ForkReturns(q) /\ WaitReturns(q)
        BY <1>9, <2>2
    <2> QED
        BY <1>1, <1>7, <1>9, <1>10, <1>11, <2>2, <2>4, <2>5, MmFrame
<1> QED
    BY <1>9, <1>14, <1>15

-----------------------------------------------------------------------------
(* Steps of MM that change the marks or the entries of processes *)

\* What MM keeps when it only sets marks: entries but for flags, and FS.
LEMMA MarkFrame ==
    ASSUME MmInv, UNCHANGED <<p_sendto, p_recvfrom, p_msg, q_sending, has_int_msg, buf, halted>>,
           NEW p \in Slot, NEW f \in SUBSET Flag, p_flags' = [p_flags EXCEPT ![p] = f],
           ~Sending(p), "SENDING" \notin f
    PROVE  /\ TableOK' /\ p_flags'[p] = f
           /\ \A q \in Proc \ {p} : Kept(q) /\ (Ready(q)' <=> Ready(q))
           /\ p_msg' = p_msg /\ p_sendto' = p_sendto /\ p_recvfrom' = p_recvfrom /\ buf' = buf
<1>1. /\ p_flags' \in [Proc -> SUBSET Flag]
      /\ p_flags'[p] = f /\ \A q \in Proc \ {p} : p_flags'[q] = p_flags[q]
    BY ProcFacts DEF MmInv, TableOK
<1>2. \A q \in Proc : Sending(q)' <=> Sending(q)
    BY <1>1 DEF Sending
<1>3. buf' \in [Proc -> [source : Proc, body : Mail]]
    BY DEF MmInv, TableOK
<1>4. TableOK'
    BY <1>1, <1>2, <1>3, FlagStep DEF MmInv
<1> QED
    BY <1>1, <1>4 DEF Kept, EntryKept, Ready

\* The processes outside X keep their places if fork()'s answers stay true.
LEMMA MarkedStay ==
    ASSUME MmInv, UNCHANGED userVars, NEW X, \A q \in Slot \ X : Kept(q),
           \A q \in Slot \ X : ForkPidsStay(q)
    PROVE  \A q \in Slot \ X : /\ UserOK(q)' /\ SameMarks(q)
                              /\ (Pending(q)' <=> Pending(q)) /\ (Open(q)' <=> Open(q))
                              /\ ForkReturns(q) /\ WaitReturns(q)
<1>1. ASSUME NEW q \in Slot \ X
      PROVE  /\ UserOK(q)' /\ SameMarks(q)
             /\ (Pending(q)' <=> Pending(q)) /\ (Open(q)' <=> Open(q))
             /\ ForkReturns(q) /\ WaitReturns(q)
    <2>1. SameUser(q) /\ UserOK(q) /\ ForkPidsStay(q)
        BY DEF userVars, SameUser, MmInv
    <2> QED  BY <2>1, UserStays
<1> QED
    BY <1>1

LEMMA WaitBlockStep ==
    ASSUME MmInv, WaitBlock
    PROVE  StepOK
<1> USE ProcFacts
<1>1. PICK p \in Slot : /\ p = Caller /\ Serves({p}) /\ call[p] = "WAIT" /\ Open(p)
                        /\ mm = [MmIdle EXCEPT !.at = "dispatch"] /\ Ready(MM) /\ FsQuiet
    BY Dispatched DEF WaitBlock
<1>2. PICK f : f = p_flags[p] \cup {"WAITING"}
    OBVIOUS
<1>3. /\ mm' = MmIdle /\ UNCHANGED <<p_parent, space, userVars, fs>>
      /\ UNCHANGED <<p_sendto, p_recvfrom, p_msg, q_sending, has_int_msg, buf, halted>>
      /\ p_flags' = [p_flags EXCEPT ![p] = f]
      /\ Zombies(p) = {}
    BY <1>1, <1>2 DEF WaitBlock, SetFlags
<1>4. /\ f \in SUBSET Flag /\ ~Sending(p) /\ "SENDING" \notin f
    BY <1>1, <1>2 DEF MmInv, TableOK, Flag, Open, Pending, Bits, Sending
<1>5. /\ TableOK' /\ p_flags'[p] = f
      /\ \A q \in Proc \ {p} : Kept(q) /\ (Ready(q)' <=> Ready(q))
      /\ p_msg' = p_msg /\ p_sendto' = p_sendto /\ p_recvfrom' = p_recvfrom /\ buf' = buf
    BY <1>3, <1>4, MarkFrame
<1>6. mm' \in MmLocals /\ mm'.at = "loop" /\ mm.at = "dispatch"
    <2>1. mm' = [at |-> "loop", src |-> NO_TASK, proc |-> NO_TASK, ret |-> 0,
                 then |-> "loop"]
        BY <1>3 DEF MmIdle
    <2>2. mm' \in MmLocals
        BY <2>1 DEF MmLocals, Place
    <2>3. mm.at = "dispatch"
        BY <1>1, DispatchLocals
    <2> QED  BY <2>1, <2>2, <2>3
<1>7. /\ p_flags'[p] = p_flags[p] \cup {"WAITING"} /\ call'[p] = "WAIT" /\ stage'[p] = stage[p]
      /\ Waiting(p)' /\ ~Hanging(p)' /\ ~Free(p)' /\ ~Free(p) /\ ~Hanging(p)
      /\ Receiving(p)' <=> Receiving(p)
    BY <1>1, <1>2, <1>3, <1>5 DEF userVars, Waiting, Hanging, Free, Receiving, Open, Pending, Bits
<1>8. Pending(p)' /\ ~Open(p)' /\ UserOK(p)'
    <2>1. Pending(p)'
        BY <1>1, <1>5, <1>7 DEF Open, Pending, Bits, Waiting, Hanging, Call
    <2> QED  BY <1>7, <2>1 DEF Open, UserOK
<1>9. ForkReturns(p) /\ WaitReturns(p)
    BY <1>1, <1>7 DEF ForkReturns, WaitReturns, Answered
<1>10. \A q \in Slot \ {p} : Free(q)' <=> Free(q)
    BY <1>5 DEF Kept, EntryKept, Free
<1>11. \A q \in Slot \ {p} : Kept(q) /\ ForkPidsStay(q)
    BY <1>3, <1>5, <1>7, <1>10 DEF ForkPidsStay
<1>12. \A q \in Slot \ {p} : /\ UserOK(q)' /\ SameMarks(q)
                             /\ (Pending(q)' <=> Pending(q)) /\ (Open(q)' <=> Open(q))
                             /\ ForkReturns(q) /\ WaitReturns(q)
    BY <1>3, <1>11, MarkedStay
<1>13. MmPlace'
    <2>1. Serves({p} \ {p})' /\ {p} \ {p} = {}
        BY <1>1, <1>8, <1>12, ServesLess
    <2>2. Ready(MM)'
        BY <1>1, <1>5
    <2>3. AtLoop'
        BY <1>3, <2>1, <2>2 DEF AtLoop
    <2> QED  BY <2>3 DEF MmPlace
<1>14. FsPlace'
    BY <1>1, <1>3, <1>5, <1>6, FsStaysQuiet DEF TellsFs
<1>15. FamilyOK'
    <2>1. ASSUME NEW c \in User, NEW d, d = p_parent[c]
          PROVE  /\ d # c
                 /\ d = NO_TASK => Free(c)'
                 /\ d # NO_TASK => ~Free(d)' /\ ~Hanging(d)'
                 /\ Hanging(c)' => ~Waiting(d)'
        <3>1. /\ d # c
              /\ d = NO_TASK => Free(c)
              /\ d # NO_TASK => ~Free(d) /\ ~Hanging(d)
              /\ Hanging(c) => ~Waiting(d)
            BY <1>6, <2>1 DEF MmInv, FamilyOK, Leaving
        <3>2. (Free(c)' <=> Free(c)) /\ (Hanging(c)' <=> Hanging(c)) /\ (Hanging(c) => ~Free(c))
            BY <1>7, <1>12 DEF SameMarks, Hanging, Free
        <3>3. d = p => ~Hanging(c)
            BY <1>3, <2>1 DEF Zombies, ChildrenOf
        <3>4. d \in Slot \cup {NO_TASK}
            BY <2>1 DEF MmInv, MmTypeOK
        <3> QED  BY <1>7, <1>12, <3>1, <3>2, <3>3, <3>4 DEF SameMarks
    <2>2. p_parent'[InitProc] = NO_TASK
        BY <1>3 DEF MmInv, FamilyOK
    <2> QED  BY <1>3, <2>1, <2>2 DEF FamilyOK
<1>16. SpaceOK' /\ MmTypeOK' /\ call'[InitProc] # "EXIT"
    <2>1. \A q \in User : Free(q) => Free(q)'
        BY <1>7, <1>10
    <2> QED  BY <1>3, <1>6, <2>1 DEF MmInv, SpaceOK, MmTypeOK, userVars
<1> QED
    BY <1>5, <1>8, <1>9, <1>12, <1>13, <1>14, <1>15, <1>16 DEF StepOK, MmInv

LEMMA ForkCopyStep ==
    ASSUME MmInv, ForkCopy
    PROVE  StepOK
<1> USE ProcFacts
<1>1. /\ mm.at = "fork_copy" /\ Runnable(MM)
      /\ buf' = [buf EXCEPT ![mm.proc] = buf[mm.src]]
      /\ space' = [space EXCEPT ![mm.proc] = mm.proc]
      /\ mm' = [mm EXCEPT !.at = "fork_tell"]
      /\ UNCHANGED <<p_flags, p_sendto, p_recvfrom, p_msg, q_sending,
                     has_int_msg, halted, p_parent, userVars, fs>>
    BY DEF ForkCopy, MmAt
<1>2. AtFork /\ Ready(MM)
    BY <1>1, PlaceIs, Entries DEF MmInv, Runnable
<1>3. PICK s \in Slot, c \in User : s = mm.src /\ c = mm.proc
    BY <1>2 DEF AtFork
<1>4. /\ s # c /\ p_parent[c] = s /\ mm.ret = 0 /\ Serves({s, c})
      /\ call[s] = "FORK" /\ call[c] = "FORK"
    BY <1>2, <1>3 DEF AtFork
<1>5. /\ mm' \in MmLocals /\ mm'.at = "fork_tell" /\ mm'.src = s /\ mm'.proc = c /\ mm'.ret = 0
    <2>1. "fork_tell" \in Place
        BY DEF Place
    <2> QED  BY <1>1, <1>3, <1>4, <2>1, PlaceMoves
<1>6. /\ buf' \in [Proc -> [source : Proc, body : Mail]]
      /\ \A q \in Proc \ {c} : buf'[q] = buf[q]
      /\ space' \in [Slot -> Slot] /\ space'[c] = c
      /\ \A q \in Slot \ {c} : space'[q] = space[q]
    BY <1>1, <1>3 DEF MmInv, TableOK, MmTypeOK
<1>7. TableOK'
    BY <1>1, <1>6, FlagStep DEF MmInv, TableOK, Sending
<1>8. \A q \in Proc \ {c} : Kept(q)
    BY <1>1, <1>6 DEF Kept, EntryKept
<1>9. \A q \in Slot : SameMarks(q)
    BY <1>1 DEF SameMarks, Free, Hanging, Waiting
<1>10. \A q \in Slot \ {c} : SameUser(q)
    BY <1>1, <1>8 DEF SameUser, userVars
<1>11. \A q \in Slot \ {c} : /\ UserOK(q)' /\ StaysOwed(q)
                             /\ ForkReturns(q) /\ WaitReturns(q)
    BY <1>1, <1>9, <1>10, UsersStay
<1>12. Open(c) /\ Open(c)' /\ UserOK(c)' /\ ForkReturns(c) /\ WaitReturns(c)
    <2>1. Open(c) /\ Pending(c) /\ call'[c] = call[c] /\ stage'[c] = stage[c]
        BY <1>1, <1>4 DEF Serves, Open, userVars
    <2>2. Pending(c)'
        BY <1>1, <2>1 DEF Pending, Receiving, Waiting, Hanging
    <2>3. Open(c)' /\ UserOK(c)'
        BY <1>1, <2>1, <2>2 DEF Open, UserOK, Waiting, Hanging
    <2>4. ForkReturns(c) /\ WaitReturns(c)
        BY <1>1, <1>4, <2>1 DEF ForkReturns, WaitReturns, Answered, Receiving
    <2> QED  BY <2>1, <2>3, <2>4
<1>13. MmPlace'
    <2>1. Serves({s, c})'
        BY <1>4, <1>11, <1>12 DEF Serves, StaysOwed
    <2>2. Ready(MM)' /\ p_parent'[c] = s /\ call'[s] = "FORK" /\ call'[c] = "FORK"
        BY <1>1, <1>2, <1>4 DEF Ready, userVars
    <2>3. AtFork'
        BY <1>4, <1>5, <2>1, <2>2 DEF AtFork
    <2> QED  BY <2>3 DEF MmPlace
<1>14. FsPlace'
    <2>1. FsQuiet /\ Kept(FS)
        BY <1>1, <1>8, FsIsQuiet DEF TellsFs
    <2> QED  BY <1>1, <1>5, <2>1, FsStaysQuiet DEF TellsFs
<1>15. FamilyOK'
    BY <1>1, <1>9, FamilyStays DEF MmInv, Leaving
<1>16. SpaceOK'
    BY <1>3, <1>6, <1>9 DEF MmInv, SpaceOK, SameMarks
<1>17. MmTypeOK' /\ call'[InitProc] # "EXIT"
    BY <1>1, <1>5, <1>6 DEF MmInv, MmTypeOK, userVars
<1> QED
    BY <1>7, <1>11, <1>12, <1>13, <1>14, <1>15, <1>16, <1>17 DEF StepOK, MmInv

\* The parent of p, told by the table: a process in use that has not exited,
\* unless it is the one whose exit MM carries out.
LEMMA ParentIs ==
    ASSUME MmInv, NEW c \in User, ~Free(c)
    PROVE  /\ p_parent[c] \in Slot /\ p_parent[c] # c
           /\ \/ ~Free(p_parent[c]) /\ ~Hanging(p_parent[c])
              \/ Leaving(p_parent[c])
           /\ Hanging(c) => ~Waiting(p_parent[c])
<1>1. p_parent[c] \in Slot \cup {NO_TASK}
    BY ProcFacts DEF MmInv, MmTypeOK
<1> QED
    BY <1>1 DEF MmInv, FamilyOK

\* The same for every slot, in use or not.
LEMMA ParentFacts ==
    ASSUME MmInv, NEW c \in User, NEW d, d = p_parent[c]
    PROVE  /\ d # c /\ d \in Slot \cup {NO_TASK}
           /\ d = NO_TASK => Free(c)
           /\ d # NO_TASK => (~Free(d) /\ ~Hanging(d)) \/ Leaving(d)
           /\ Hanging(c) => ~Waiting(d) /\ ~Free(c)
<1>1. d \in Slot \cup {NO_TASK}
    BY ProcFacts DEF MmInv, MmTypeOK
<1>2. Hanging(c) => ~Free(c)
    BY DEF Hanging, Free
<1> QED
    BY <1>1, <1>2 DEF MmInv, FamilyOK

\* A process that waits for a child is in a WAIT of which MM is done.
LEMMA WaitingIs ==
    ASSUME MmInv, NEW p \in Slot, Waiting(p)
    PROVE  Pending(p) /\ call[p] = "WAIT" /\ ~Open(p) /\ ~Hanging(p) /\ ~Free(p)
<1>1. ~Free(p) /\ ~Ready(p) /\ ~SendsTo(p, MM)
    BY DEF Waiting, Free, Ready, SendsTo
<1>2. Pending(p) /\ call[p] = "WAIT"
    BY <1>1 DEF MmInv, UserOK, Pending
<1> QED
    BY <1>1, <1>2 DEF Open, Pending

\* A blocked caller whose WAITING or HANGING bit MM sets or clears.
LEMMA MarkOne ==
    ASSUME MmInv, NEW p \in Slot, Pending(p), NEW f, p_flags'[p] = f,
           \/ f = p_flags[p] \ {"WAITING"}
           \/ f = p_flags[p] \cup {"HANGING"} /\ call[p] = "EXIT" /\ ~Waiting(p),
           UNCHANGED <<p_sendto, p_recvfrom, p_msg, userVars>>
    PROVE  /\ Pending(p)' /\ UserOK(p)' /\ ForkReturns(p) /\ WaitReturns(p)
           /\ ~Free(p)' /\ ~Waiting(p)'
           /\ Hanging(p)' <=> Hanging(p) \/ f = p_flags[p] \cup {"HANGING"}
           /\ Open(p)' <=> ~Hanging(p)'
<1>1. call'[p] = call[p] /\ stage'[p] = stage[p]
    BY DEF userVars
<1>2. /\ ~Waiting(p)' /\ (Receiving(p)' <=> Receiving(p))
      /\ Hanging(p)' <=> Hanging(p) \/ f = p_flags[p] \cup {"HANGING"}
      /\ "FREE_SLOT" \notin f
    BY DEF Waiting, Hanging, Receiving, Pending, Bits
<1>3. ~Free(p)'
    BY <1>2 DEF Free
<1>4. Pending(p)'
    BY <1>1, <1>2 DEF Pending, Bits, Hanging, Waiting
<1>5. ForkReturns(p) /\ WaitReturns(p)
    BY <1>1, <1>2 DEF ForkReturns, WaitReturns, Answered
<1> QED
    BY <1>2, <1>3, <1>4, <1>5 DEF UserOK, Open

LEMMA ExitParentStep ==
    ASSUME MmInv, ExitParent
    PROVE  StepOK
<1> USE ProcFacts
<1>1. mm.at = "exit_parent" /\ p_flags[MM] = {} /\ UNCHANGED <<p_parent, space, userVars, fs>>
    BY DEF ExitParent, MmAt, Runnable
<1>2. AtExit /\ Ready(MM)
    BY <1>1, PlaceIs, Entries DEF MmInv
<1>3. PICK c \in User : c = mm.src /\ Serves({c}) /\ call[c] = "EXIT"
    BY <1>2 DEF AtExit
<1>4. Open(c) /\ Pending(c) /\ ~Free(c) /\ ~Waiting(c) /\ ~Hanging(c)
    BY <1>3 DEF Serves, Open, Pending, Free, Bits
<1>5. PICK p \in Slot : p = p_parent[c] /\ p # c /\ ~Free(p) /\ ~Hanging(p)
    BY <1>1, <1>4, ParentIs DEF Leaving
<1>6. FsQuiet
    BY <1>1, <1>2, FsIsQuiet
<1>7. mm \in MmLocals
    BY DEF MmInv, MmTypeOK
<1>8. CASE Waiting(p)
    <2>1. PICK f : f = p_flags[p] \ {"WAITING"}
        OBVIOUS
    <2>2. /\ p_flags' = [p_flags EXCEPT ![p] = f]
          /\ UNCHANGED <<p_sendto, p_recvfrom, p_msg, q_sending, has_int_msg, buf, halted>>
          /\ mm' = [mm EXCEPT !.at = "cleanup", !.proc = c, !.then = "exit_children"]
        BY <1>3, <1>5, <1>8, <2>1 DEF ExitParent, SetFlags, NoLongerWaiting, Cleanup
    <2>3. /\ mm' \in MmLocals /\ mm'.at = "cleanup" /\ mm'.proc = c /\ mm'.src = c
          /\ mm'.then = "exit_children"
        BY <1>3, <1>7, <2>2 DEF MmLocals, Place
    <2>4. Pending(p) /\ call[p] = "WAIT" /\ ~Open(p)
        BY <1>8, WaitingIs
    <2>5. f \in SUBSET Flag /\ ~Sending(p) /\ "SENDING" \notin f
        BY <2>1, <2>4 DEF MmInv, TableOK, Pending, Bits, Sending, Flag
    <2>6. /\ TableOK' /\ p_flags'[p] = f
          /\ \A q \in Proc \ {p} : Kept(q) /\ (Ready(q)' <=> Ready(q))
        BY <2>2, <2>5, MarkFrame
    <2>7. /\ Pending(p)' /\ UserOK(p)' /\ ForkReturns(p) /\ WaitReturns(p)
          /\ ~Free(p)' /\ ~Waiting(p)' /\ (Open(p)' <=> ~Hanging(p)')
          /\ Hanging(p)' <=> Hanging(p) \/ f = p_flags[p] \cup {"HANGING"}
        BY <1>1, <2>1, <2>2, <2>4, <2>6, MarkOne
    <2>8. ~Hanging(p)' /\ Open(p)'
        BY <1>5, <2>1, <2>7 DEF Hanging
    <2>9. \A q \in Slot \ {p} : Kept(q) /\ ForkPidsStay(q)
        BY <1>1, <2>6, <2>7 DEF ForkPidsStay, Kept, EntryKept, Free
    <2>10. \A q \in Slot \ {p} : /\ UserOK(q)' /\ SameMarks(q)
                                 /\ (Pending(q)' <=> Pending(q)) /\ (Open(q)' <=> Open(q))
                                 /\ ForkReturns(q) /\ WaitReturns(q)
        BY <1>1, <2>9, MarkedStay
    <2>11. Serves({p, c})' /\ Ready(MM)' /\ Kept(FS)
        BY <1>2, <1>3, <2>6, <2>8, <2>10 DEF Serves
    <2>12. /\ Pending(c)' /\ call'[c] = "EXIT" /\ call'[p] = "WAIT" /\ p_parent'[c] = p
           /\ ~Hanging(c)'
        BY <1>1, <1>3, <1>4, <1>5, <2>4, <2>10 DEF SameMarks, userVars
    <2>13. MmPlace'
        <3>1. {q \in {c} : ~Hanging(q)}' = {c} /\ {p} \cup {c} = {p, c}
            BY <2>12
        <3>2. AtCleanup'
            BY <2>3, <2>11, <2>12, <3>1 DEF AtCleanup
        <3> QED  BY <3>2 DEF MmPlace
    <2>14. FsPlace'
        BY <1>1, <1>6, <2>3, <2>11, FsStaysQuiet DEF TellsFs
    <2>15. FamilyOK'
        <3>1. ASSUME NEW e \in User, NEW d, d = p_parent[e]
              PROVE  /\ d # e
                     /\ d = NO_TASK => Free(e)'
                     /\ d # NO_TASK => ~Free(d)' /\ ~Hanging(d)'
                     /\ Hanging(e)' => ~Waiting(d)'
            <4>1. /\ d # e
                  /\ d = NO_TASK => Free(e)
                  /\ d # NO_TASK => ~Free(d) /\ ~Hanging(d)
                  /\ Hanging(e) => ~Waiting(d)
                BY <1>1, <3>1 DEF MmInv, FamilyOK, Leaving
            <4>2. (Free(e)' <=> Free(e)) /\ (Hanging(e)' <=> Hanging(e)) /\ (Hanging(e) => ~Free(e))
                BY <1>5, <2>7, <2>8, <2>10 DEF SameMarks, Hanging, Free
            <4>3. d \in Slot \cup {NO_TASK}
                BY <3>1 DEF MmInv, MmTypeOK
            <4> QED  BY <2>7, <2>8, <2>10, <4>1, <4>2, <4>3 DEF SameMarks
        <3>2. p_parent'[InitProc] = NO_TASK
            BY <1>1 DEF MmInv, FamilyOK
        <3> QED  BY <1>1, <3>1, <3>2 DEF FamilyOK
    <2>16. SpaceOK' /\ MmTypeOK' /\ call'[InitProc] # "EXIT"
        <3>1. \A q \in User : Free(q) => Free(q)'
            BY <1>5, <2>10 DEF SameMarks
        <3> QED  BY <1>1, <2>3, <3>1 DEF MmInv, SpaceOK, MmTypeOK, userVars
    <2> QED
        BY <2>6, <2>7, <2>10, <2>13, <2>14, <2>15, <2>16 DEF StepOK, MmInv
<1>9. CASE ~Waiting(p)
    <2>1. PICK f : f = p_flags[c] \cup {"HANGING"}
        OBVIOUS
    <2>2. /\ p_flags' = [p_flags EXCEPT ![c] = f]
          /\ UNCHANGED <<p_sendto, p_recvfrom, p_msg, q_sending, has_int_msg, buf, halted>>
          /\ mm' = [mm EXCEPT !.at = "exit_children"]
        BY <1>3, <1>5, <1>9, <2>1 DEF ExitParent, SetFlags
    <2>3. mm' \in MmLocals /\ mm'.at = "exit_children" /\ mm'.src = c
        <3>1. "exit_children" \in Place
            BY DEF Place
        <3> QED  BY <1>3, <2>2, <3>1, PlaceMoves
    <2>4. f \in SUBSET Flag /\ ~Sending(c) /\ "SENDING" \notin f
        BY <1>4, <2>1 DEF MmInv, TableOK, Pending, Bits, Sending, Flag
    <2>5. /\ TableOK' /\ p_flags'[c] = f
          /\ \A q \in Proc \ {c} : Kept(q) /\ (Ready(q)' <=> Ready(q))
        BY <2>2, <2>4, MarkFrame
    <2>6. /\ Pending(c)' /\ UserOK(c)' /\ ForkReturns(c) /\ WaitReturns(c)
          /\ ~Free(c)' /\ ~Waiting(c)' /\ (Open(c)' <=> ~Hanging(c)')
          /\ Hanging(c)' <=> Hanging(c) \/ f = p_flags[c] \cup {"HANGING"}
        BY <1>1, <1>3, <1>4, <2>1, <2>2, <2>5, MarkOne
    <2>7. Hanging(c)' /\ ~Open(c)'
        BY <2>1, <2>6
    <2>8. \A q \in Slot \ {c} : Kept(q) /\ ForkPidsStay(q)
        BY <1>1, <2>5, <2>6 DEF ForkPidsStay, Kept, EntryKept, Free
    <2>9. \A q \in Slot \ {c} : /\ UserOK(q)' /\ SameMarks(q)
                                /\ (Pending(q)' <=> Pending(q)) /\ (Open(q)' <=> Open(q))
                                /\ ForkReturns(q) /\ WaitReturns(q)
        BY <1>1, <2>8, MarkedStay
    <2>10. Serves({c} \ {c})' /\ {c} \ {c} = {} /\ Ready(MM)' /\ Kept(FS)
        BY <1>2, <1>3, <2>5, <2>7, <2>9, ServesLess
    <2>11. MmPlace'
        BY <2>3, <2>7, <2>10 DEF AtChildren, MmPlace
    <2>12. FsPlace'
        BY <1>1, <1>6, <2>3, <2>10, FsStaysQuiet DEF TellsFs
    <2>13. FamilyOK'
        <3>1. ASSUME NEW e \in User, NEW d, d = p_parent[e]
              PROVE  /\ d # e
                     /\ d = NO_TASK => Free(e)'
                     /\ d # NO_TASK => (~Free(d)' /\ ~Hanging(d)') \/ d = c
                     /\ Hanging(e)' => ~Waiting(d)'
            <4>1. /\ d # e
                  /\ d = NO_TASK => Free(e)
                  /\ d # NO_TASK => ~Free(d) /\ ~Hanging(d)
                  /\ Hanging(e) => ~Waiting(d)
                BY <1>1, <3>1 DEF MmInv, FamilyOK, Leaving
            <4>2. (Free(e)' <=> Free(e)) /\ (Hanging(e)' => Hanging(e) \/ e = c)
                    /\ (Hanging(e) => ~Free(e))
                BY <1>4, <2>6, <2>9 DEF SameMarks, Hanging, Free
            <4>3. d \in Slot \cup {NO_TASK} /\ (e = c => d = p)
                BY <1>5, <3>1 DEF MmInv, MmTypeOK
            <4>4. d \in Slot => (Waiting(d)' => Waiting(d)) /\ (d # c => SameMarks(d))
                BY <2>6, <2>9 DEF SameMarks
            <4> QED  BY <1>4, <1>5, <1>9, <4>1, <4>2, <4>3, <4>4 DEF SameMarks
        <3>2. p_parent'[InitProc] = NO_TASK
            BY <1>1 DEF MmInv, FamilyOK
        <3>3. \A d : d = c => Leaving(d)'
            BY <2>3 DEF Leaving
        <3> QED  BY <1>1, <3>1, <3>2, <3>3 DEF FamilyOK
    <2>14. SpaceOK' /\ MmTypeOK' /\ call'[InitProc] # "EXIT"
        <3>1. \A q \in User : Free(q) => Free(q)'
            BY <1>4, <2>9 DEF SameMarks
        <3> QED  BY <1>1, <2>3, <3>1 DEF MmInv, SpaceOK, MmTypeOK, userVars
    <2> QED
        BY <2>5, <2>6, <2>9, <2>11, <2>12, <2>13, <2>14 DEF StepOK, MmInv
<1> QED
    BY <1>8, <1>9

\* INIT is in use and does not exit.
LEMMA InitStays ==
    ASSUME MmInv
    PROVE  ~Free(InitProc) /\ ~Hanging(InitProc) /\ p_parent[InitProc] = NO_TASK
<1>1. UserOK(InitProc)
    BY ProcFacts DEF MmInv
<1>2. ~Hanging(InitProc)
    BY ProcFacts, ZombieIs
<1>3. ~Free(InitProc)
    BY <1>1, ProcFacts DEF UserOK, Ready, SendsTo, Pending, Bits, Free, Receiving
<1> QED
    BY <1>2, <1>3 DEF MmInv, FamilyOK

LEMMA ExitChildStep ==
    ASSUME MmInv, ExitChild
    PROVE  StepOK
<1> USE ProcFacts
<1>1. mm.at = "exit_children" /\ p_flags[MM] = {} /\ UNCHANGED <<space, userVars, fs>>
    BY DEF ExitChild, MmAt, Runnable
<1>2. AtChildren /\ Ready(MM)
    BY <1>1, PlaceIs, Entries DEF MmInv
<1>3. PICK s \in User : s = mm.src /\ Serves({}) /\ (Hanging(s) \/ Free(s))
    BY <1>2 DEF AtChildren
<1>4. PICK i \in Slot : i = Min(ChildrenOf(s)) /\ p_parent[i] = s
    <2>1. ChildrenOf(s) \in SUBSET Nat /\ ChildrenOf(s) \subseteq Slot
        BY DEF ChildrenOf
    <2>2. ChildrenOf(s) # {}
        BY <1>3 DEF ExitChild
    <2>3. Min(ChildrenOf(s)) \in ChildrenOf(s)
        BY <2>1, <2>2, MinIsMember
    <2> QED  BY <2>3 DEF ChildrenOf
<1>5. i \in User /\ i # s
    <2>1. i # InitProc
        BY <1>4, InitStays
    <2> QED  BY <1>4, <2>1 DEF MmInv, FamilyOK, Slot
<1>6. /\ p_parent' = [p_parent EXCEPT ![i] = InitProc]
      /\ IF InheritsZombie(i)
         THEN /\ SetFlags([p_flags EXCEPT ![InitProc] = NoLongerWaiting(InitProc)])
              /\ mm' = Cleanup(i, "exit_children")
         ELSE UNCHANGED <<ipcVars, mm>>
    BY <1>3, <1>4 DEF ExitChild
<1>7. /\ p_parent' \in [Slot -> Slot \cup {NO_TASK}] /\ p_parent'[i] = InitProc
      /\ \A q \in Slot \ {i} : p_parent'[q] = p_parent[q]
    BY <1>4, <1>6 DEF MmInv, MmTypeOK
<1>8. FsQuiet
    BY <1>1, <1>2, FsIsQuiet
<1>9. ~Free(InitProc) /\ ~Hanging(InitProc) /\ p_parent[InitProc] = NO_TASK
    BY InitStays
<1>10. \A q \in Slot : Ready(q) => q # s
    BY <1>3 DEF Ready, Hanging, Free
<1>11. ASSUME \A q \in Slot : (Free(q)' <=> Free(q)) /\ (Hanging(q)' <=> Hanging(q)),
              \A q \in Slot \ {InitProc} : Waiting(q)' <=> Waiting(q),
              Waiting(InitProc)' => Waiting(InitProc),
              Waiting(InitProc)' => ~Hanging(i), Leaving(s)'
       PROVE  FamilyOK'
    <2>1. ASSUME NEW e \in User, NEW d, d = p_parent[e]
          PROVE  /\ p_parent'[e] # e
                 /\ p_parent'[e] = NO_TASK => Free(e)'
                 /\ p_parent'[e] # NO_TASK =>
                       (~Free(p_parent[e])' /\ ~Hanging(p_parent[e])') \/ Leaving(p_parent[e])'
                 /\ Hanging(e)' => ~Waiting(p_parent[e])'
        <3>1. /\ d # e /\ d \in Slot \cup {NO_TASK}
              /\ d = NO_TASK => Free(e)
              /\ d # NO_TASK => (~Free(d) /\ ~Hanging(d)) \/ d = s
              /\ Hanging(e) => ~Waiting(d) /\ ~Free(e)
            BY <1>3, <2>1, ParentFacts DEF Leaving
        <3>2. CASE e = i
            BY <1>7, <1>9, <1>11, <3>2
        <3>3. CASE e # i
            <4>1. p_parent'[e] = d
                BY <1>7, <2>1, <3>3
            <4>2. CASE d = NO_TASK
                BY <1>11, <3>1, <4>1, <4>2
            <4>3. CASE d \in Slot
                <5>1. Waiting(d)' => Waiting(d)
                    BY <1>11, <4>3
                <5>2. (Free(d)' <=> Free(d)) /\ (Hanging(d)' <=> Hanging(d))
                    BY <1>11, <4>3
                <5>3. d = s => Leaving(d)'
                    BY <1>11
                <5> QED  BY <1>11, <3>1, <4>1, <4>3, <5>1, <5>2, <5>3
            <4> QED  BY <3>1, <4>2, <4>3
        <3> QED  BY <3>2, <3>3
    <2>2. p_parent'[InitProc] = NO_TASK
        BY <1>5, <1>7, <1>9
    <2> QED  BY <2>1, <2>2 DEF FamilyOK
<1>12. CASE InheritsZombie(i)
    <2>1. Waiting(InitProc) /\ Hanging(i)
        BY <1>12 DEF InheritsZombie
    <2>2. PICK f : f = p_flags[InitProc] \ {"WAITING"}
        OBVIOUS
    <2>3. /\ p_flags' = [p_flags EXCEPT ![InitProc] = f]
          /\ UNCHANGED <<p_sendto, p_recvfrom, p_msg, q_sending, has_int_msg, buf, halted>>
          /\ mm' = [mm EXCEPT !.at = "cleanup", !.proc = i, !.then = "exit_children"]
        BY <1>6, <1>12, <2>2 DEF SetFlags, NoLongerWaiting, Cleanup
    <2>4. /\ mm' \in MmLocals /\ mm'.at = "cleanup" /\ mm'.proc = i /\ mm'.src = s
          /\ mm'.then = "exit_children"
        <3>1. mm \in MmLocals
            BY DEF MmInv, MmTypeOK
        <3> QED  BY <1>3, <1>4, <2>3, <3>1 DEF MmLocals, Place
    <2>5. Pending(InitProc) /\ call[InitProc] = "WAIT"
        BY <2>1, WaitingIs
    <2>6. f \in SUBSET Flag /\ ~Sending(InitProc) /\ "SENDING" \notin f
        BY <2>2, <2>5 DEF MmInv, TableOK, Pending, Bits, Sending, Flag
    <2>7. /\ TableOK' /\ p_flags'[InitProc] = f
          /\ \A q \in Proc \ {InitProc} : Kept(q) /\ (Ready(q)' <=> Ready(q))
        BY <2>3, <2>6, MarkFrame
    <2>8. /\ Pending(InitProc)' /\ UserOK(InitProc)'
          /\ ForkReturns(InitProc) /\ WaitReturns(InitProc)
          /\ ~Free(InitProc)' /\ ~Waiting(InitProc)' /\ (Open(InitProc)' <=> ~Hanging(InitProc)')
          /\ Hanging(InitProc)' <=> Hanging(InitProc) \/ f = p_flags[InitProc] \cup {"HANGING"}
        BY <1>1, <2>2, <2>3, <2>5, <2>7, MarkOne
    <2>9. ~Hanging(InitProc)' /\ Open(InitProc)'
        BY <1>9, <2>2, <2>8 DEF Hanging
    <2>10. \A q \in Slot \ {InitProc} : Kept(q) /\ ForkPidsStay(q)
        BY <1>4, <1>7, <1>10, <2>7 DEF ForkPidsStay, Kept, EntryKept, Free
    <2>11. \A q \in Slot \ {InitProc} :
                /\ UserOK(q)' /\ SameMarks(q)
                /\ (Pending(q)' <=> Pending(q)) /\ (Open(q)' <=> Open(q))
                /\ ForkReturns(q) /\ WaitReturns(q)
        BY <1>1, <2>10, MarkedStay
    <2>12. Serves({InitProc})' /\ Ready(MM)' /\ Kept(FS)
        BY <1>2, <1>3, <2>7, <2>9, <2>11 DEF Serves
    <2>13. /\ Pending(i)' /\ Hanging(i)' /\ call'[i] = "EXIT" /\ call'[InitProc] = "WAIT"
           /\ Hanging(s)' \/ Free(s)'
        BY <1>1, <1>3, <1>5, <2>1, <2>5, <2>11, ZombieIs DEF SameMarks, userVars
    <2>14. MmPlace'
        <3>1. {q \in {i} : ~Hanging(q)}' = {} /\ {InitProc} \cup {} = {InitProc}
            BY <2>13
        <3>2. AtCleanup'
            BY <1>5, <1>7, <2>4, <2>12, <2>13, <3>1 DEF AtCleanup
        <3> QED  BY <3>2 DEF MmPlace
    <2>15. FsPlace'
        BY <1>1, <1>8, <2>4, <2>12, FsStaysQuiet DEF TellsFs
    <2>16. FamilyOK'
        <3>1. Leaving(s)'
            BY <2>4 DEF Leaving
        <3>2. /\ \A q \in Slot : (Free(q)' <=> Free(q)) /\ (Hanging(q)' <=> Hanging(q))
              /\ \A q \in Slot \ {InitProc} : Waiting(q)' <=> Waiting(q)
            BY <1>9, <2>8, <2>9, <2>11 DEF SameMarks
        <3> QED  BY <1>11, <2>8, <3>1, <3>2
    <2>17. SpaceOK' /\ MmTypeOK' /\ call'[InitProc] # "EXIT"
        <3>1. \A q \in User : Free(q) => Free(q)'
            BY <2>11 DEF SameMarks
        <3> QED  BY <1>1, <1>7, <2>4, <3>1 DEF MmInv, SpaceOK, MmTypeOK, userVars
    <2> QED
        BY <2>7, <2>8, <2>11, <2>14, <2>15, <2>16, <2>17 DEF StepOK, MmInv
<1>13. CASE ~InheritsZombie(i)
    <2>1. UNCHANGED <<ipcVars, mm>>
        BY <1>6, <1>13
    <2>2. TableOK' /\ \A q \in Proc : Kept(q) /\ (Ready(q)' <=> Ready(q))
        BY <2>1, TableStays
    <2>3. \A q \in Slot \ {} : Kept(q) /\ ForkPidsStay(q)
        BY <1>4, <1>7, <1>10, <2>2 DEF ForkPidsStay, Kept, EntryKept, Free
    <2>4. \A q \in Slot : /\ UserOK(q)' /\ SameMarks(q)
                          /\ (Pending(q)' <=> Pending(q)) /\ (Open(q)' <=> Open(q))
                          /\ ForkReturns(q) /\ WaitReturns(q)
        BY <1>1, <2>3, MarkedStay
    <2>5. MmPlace'
        <3>1. Serves({})' /\ Ready(MM)' /\ (Hanging(s)' \/ Free(s)')
            BY <1>2, <1>3, <2>2, <2>4 DEF Serves, SameMarks
        <3>2. mm'.at = "exit_children" /\ mm'.src = s
            BY <1>1, <1>3, <2>1
        <3> QED  BY <3>1, <3>2 DEF AtChildren, MmPlace
    <2>6. FsPlace'
        BY <1>1, <1>8, <2>1, <2>2, FsStaysQuiet DEF TellsFs
    <2>7. FamilyOK'
        <3>1. Leaving(s)'
            BY <1>1, <1>3, <2>1 DEF Leaving
        <3>2. Waiting(InitProc)' => ~Hanging(i)
            BY <1>13, <2>4 DEF InheritsZombie, SameMarks
        <3> QED  BY <1>11, <2>4, <3>1, <3>2 DEF SameMarks
    <2>8. SpaceOK' /\ MmTypeOK' /\ call'[InitProc] # "EXIT"
        BY <1>1, <1>7, <2>1, <2>4 DEF MmInv, SpaceOK, MmTypeOK, userVars, SameMarks
    <2> QED
        BY <2>2, <2>4, <2>5, <2>6, <2>7, <2>8 DEF StepOK, MmInv
<1> QED
    BY <1>12, <1>13

LEMMA CleanupFreeStep ==
    ASSUME MmInv, CleanupFree
    PROVE  StepOK
<1> USE ProcFacts
<1>1. /\ mm.at = "free" /\ p_flags[MM] = {}
      /\ p_flags' = [p_flags EXCEPT ![mm.proc] = {"FREE_SLOT"}]
      /\ UNCHANGED <<p_sendto, p_recvfrom, p_msg, q_sending, has_int_msg, buf, halted>>
      /\ mm' = Goto(mm.then) /\ UNCHANGED <<p_parent, space, userVars, fs>>
    BY DEF CleanupFree, MmAt, Runnable, SetFlags
<1>2. AtCleanup /\ Ready(MM)
    BY <1>1, PlaceIs, Entries DEF MmInv
<1>3. PICK c \in User : c = mm.proc
    BY <1>2 DEF AtCleanup
<1>4. PICK p \in Slot : p = p_parent[c]
    BY <1>2, <1>3 DEF AtCleanup
<1>5. PICK ending : ending = {q \in {c} : ~Hanging(q)}
    OBVIOUS
<1>6. /\ Pending(c) /\ call[c] = "EXIT" /\ Serves(ending)
      /\ ~(call[p] = "FORK" /\ stage[p] = "received")
      /\ Hanging(c) \/ (mm.then = "exit_children" /\ mm.src = c)
      /\ mm.then = "exit_children" =>
            mm.src \in User /\ (mm.src = c \/ Hanging(mm.src) \/ Free(mm.src))
    BY <1>1, <1>2, <1>3, <1>4, <1>5 DEF AtCleanup, Ready, SendsTo
<1>7. {"FREE_SLOT"} \in SUBSET Flag /\ ~Sending(c) /\ "SENDING" \notin {"FREE_SLOT"}
    BY <1>6 DEF Flag, Pending, Bits, Sending
<1>8. /\ TableOK' /\ p_flags'[c] = {"FREE_SLOT"}
      /\ \A q \in Proc \ {c} : Kept(q) /\ (Ready(q)' <=> Ready(q))
      /\ p_msg' = p_msg
    <2>1. PICK f \in SUBSET Flag : f = {"FREE_SLOT"}
        BY <1>7
    <2>2. p_flags' = [p_flags EXCEPT ![c] = f] /\ c \in Slot /\ "SENDING" \notin f
        BY <1>1, <1>3, <2>1
    <2>3. /\ TableOK' /\ p_flags'[c] = f
          /\ \A q \in Proc \ {c} : Kept(q) /\ (Ready(q)' <=> Ready(q))
        BY <1>1, <1>7, <2>2, MarkFrame
    <2> QED  BY <1>1, <2>1, <2>3
<1>9. /\ Free(c)' /\ ~Hanging(c)' /\ ~Waiting(c)' /\ ~Open(c)' /\ UserOK(c)'
      /\ ~Free(c) /\ ~Waiting(c)
    BY <1>6, <1>8 DEF Free, Hanging, Waiting, Open, Pending, Bits, UserOK
<1>10. ForkReturns(c) /\ WaitReturns(c)
    BY <1>6 DEF ForkReturns, WaitReturns
<1>11. \A q \in Slot \ {c} : Kept(q) /\ ForkPidsStay(q)
    BY <1>1, <1>4, <1>6, <1>8 DEF ForkPidsStay, Kept, EntryKept, Free
<1>12. \A q \in Slot \ {c} : /\ UserOK(q)' /\ SameMarks(q)
                             /\ (Pending(q)' <=> Pending(q)) /\ (Open(q)' <=> Open(q))
                             /\ ForkReturns(q) /\ WaitReturns(q)
    BY <1>1, <1>11, MarkedStay
<1>13. Serves({})' /\ Ready(MM)' /\ Kept(FS)
    <2>1. Serves(ending \ {c})' /\ ending \ {c} = {}
        BY <1>5, <1>6, <1>9, <1>12, ServesLess
    <2> QED  BY <1>2, <1>8, <2>1
<1>14. mm.then = "loop" => mm' = MmIdle
    BY <1>1 DEF Goto
<1>15. mm.then = "exit_children" =>
            mm' \in MmLocals /\ mm'.at = "exit_children" /\ mm'.src = mm.src
    <2>1. "exit_children" \in Place
        BY DEF Place
    <2> QED  BY <1>1, <2>1, PlaceMoves DEF Goto
<1>16. mm.then \in {"loop", "exit_children"}
    BY DEF MmInv, MmTypeOK, MmLocals
<1>17. mm' \in MmLocals /\ mm'.at \in {"loop", "exit_children"}
    <2>1. CASE mm.then = "loop"
        <3>1. mm' = [at |-> "loop", src |-> NO_TASK, proc |-> NO_TASK, ret |-> 0,
                     then |-> "loop"]
            BY <1>14, <2>1 DEF MmIdle
        <3>2. mm' \in MmLocals
            BY <3>1 DEF MmLocals, Place
        <3> QED  BY <3>1, <3>2
    <2> QED  BY <1>15, <1>16, <2>1
<1>18. MmPlace'
    <2>1. CASE mm.then = "loop"
        BY <1>13, <1>14, <2>1 DEF AtLoop, MmPlace
    <2>2. CASE mm.then = "exit_children"
        <3>1. PICK s \in User : s = mm.src /\ (s = c \/ Hanging(s) \/ Free(s))
            BY <1>6, <2>2
        <3>2. Hanging(s)' \/ Free(s)'
            BY <1>9, <1>12, <3>1 DEF SameMarks
        <3> QED  BY <1>13, <1>15, <2>2, <3>1, <3>2 DEF AtChildren, MmPlace
    <2> QED  BY <1>16, <2>1, <2>2
<1>19. FsPlace'
    <2>1. FsQuiet
        BY <1>1, <1>2, FsIsQuiet DEF TellsFs
    <2> QED  BY <1>1, <1>13, <1>17, <2>1, FsStaysQuiet DEF TellsFs
<1>20. FamilyOK'
    <2>1. ASSUME NEW e \in User, NEW d, d = p_parent[e]
          PROVE  /\ d # e
                 /\ d = NO_TASK => Free(e)'
                 /\ d # NO_TASK => (~Free(d)' /\ ~Hanging(d)') \/ Leaving(d)'
                 /\ Hanging(e)' => ~Waiting(d)'
        <3>1. /\ d # e /\ d \in Slot \cup {NO_TASK}
              /\ d = NO_TASK => Free(e)
              /\ d # NO_TASK => (~Free(d) /\ ~Hanging(d)) \/ Leaving(d)
              /\ Hanging(e) => ~Waiting(d) /\ ~Free(e)
            BY <2>1, ParentFacts
        <3>2. Leaving(d) => mm.then = "exit_children" /\ d = mm.src /\ Leaving(d)'
            BY <1>1, <1>15 DEF Leaving
        <3>3. (Free(e) => Free(e)') /\ (Hanging(e)' => Hanging(e))
            BY <1>9, <1>12 DEF SameMarks
        <3>4. d \in Slot \ {c} => SameMarks(d)
            BY <1>12
        <3>5. d = c /\ d # NO_TASK => Leaving(d)'
            <4>1. SUFFICES ASSUME d = c PROVE Leaving(d)'
                OBVIOUS
            <4>2. CASE Hanging(c)
                BY <3>1, <3>2, <4>1, <4>2
            <4>3. CASE mm.then = "exit_children" /\ mm.src = c
                BY <1>15, <4>1, <4>3 DEF Leaving
            <4> QED  BY <1>6, <4>2, <4>3
        <3> QED  BY <1>9, <3>1, <3>2, <3>3, <3>4, <3>5 DEF SameMarks
    <2>2. p_parent'[InitProc] = NO_TASK
        BY <1>1 DEF MmInv, FamilyOK
    <2> QED  BY <1>1, <2>1, <2>2 DEF FamilyOK
<1>21. SpaceOK' /\ MmTypeOK' /\ call'[InitProc] # "EXIT"
    <2>1. \A q \in User : Free(q) => Free(q)'
        BY <1>9, <1>12 DEF SameMarks
    <2> QED  BY <1>1, <1>17, <2>1 DEF MmInv, SpaceOK, MmTypeOK, userVars
<1> QED
    BY <1>8, <1>9, <1>10, <1>12, <1>18, <1>19, <1>20, <1>21 DEF StepOK, MmInv

LEMMA ForkDupStep ==
    ASSUME MmInv, ForkDup
    PROVE  StepOK
<1> USE ProcFacts
<1>1. PICK p \in Slot : /\ p = Caller /\ Serves({p}) /\ call[p] = "FORK" /\ Open(p)
                        /\ mm = [MmIdle EXCEPT !.at = "dispatch"] /\ Ready(MM) /\ FsQuiet
    BY Dispatched DEF ForkDup
<1>2. PICK c \in User : c = Min(FreeSlots) /\ Free(c)
    <2>1. FreeSlots \in SUBSET Nat /\ FreeSlots # {}
        BY DEF FreeSlots, ForkDup
    <2>2. Min(FreeSlots) \in FreeSlots
        BY <2>1, MinIsMember
    <2> QED  BY <2>2 DEF FreeSlots
<1>3. /\ p_flags' = [p_flags EXCEPT ![c] = p_flags[p]]
      /\ p_sendto' = [p_sendto EXCEPT ![c] = p_sendto[p]]
      /\ p_recvfrom' = [p_recvfrom EXCEPT ![c] = p_recvfrom[p]]
      /\ p_msg' = [p_msg EXCEPT ![c] = p_msg[p]]
      /\ q_sending' = [q_sending EXCEPT ![c] = q_sending[p]]
      /\ has_int_msg' = [has_int_msg EXCEPT ![c] = has_int_msg[p]]
      /\ space' = [space EXCEPT ![c] = space[p]]
      /\ call' = [call EXCEPT ![c] = call[p]]
      /\ stage' = [stage EXCEPT ![c] = stage[p]]
      /\ p_parent' = [p_parent EXCEPT ![c] = p]
      /\ mm' = [mm EXCEPT !.at = "fork_copy", !.src = p, !.proc = c, !.ret = 0]
      /\ UNCHANGED <<buf, halted, fs>>
    BY <1>1, <1>2 DEF ForkDup
<1>4. p # c /\ p \in Slot /\ c \in Slot
    BY <1>1, <1>2 DEF Open, Pending, Bits, Free
<1>5. /\ p_flags'[c] = p_flags[p] /\ p_sendto'[c] = p_sendto[p]
      /\ p_recvfrom'[c] = p_recvfrom[p] /\ p_msg'[c] = p_msg[p]
      /\ q_sending'[c] = q_sending[p]
      /\ \A q \in Proc \ {c} : q_sending'[q] = q_sending[q] /\ Kept(q)
    BY <1>3, <1>4 DEF MmInv, TableOK, Kept, EntryKept
<1>6. /\ space'[c] = space[p] /\ call'[c] = call[p] /\ stage'[c] = stage[p] /\ p_parent'[c] = p
      /\ \A q \in Slot \ {c} : /\ space'[q] = space[q] /\ call'[q] = call[q]
                               /\ stage'[q] = stage[q] /\ p_parent'[q] = p_parent[q]
    BY <1>3, <1>4 DEF MmInv, MmTypeOK
<1>7. /\ mm' \in MmLocals /\ mm'.at = "fork_copy" /\ mm'.src = p /\ mm'.proc = c
      /\ mm'.ret = 0 /\ mm.at = "dispatch"
    <2>1. mm' = [at |-> "fork_copy", src |-> p, proc |-> c, ret |-> 0, then |-> "loop"]
        BY <1>1, <1>3 DEF MmIdle
    <2>2. mm.at = "dispatch"
        BY <1>1, DispatchLocals
    <2>3. mm' \in MmLocals
        BY <1>4, <2>1 DEF MmLocals, Place
    <2> QED  BY <2>1, <2>2, <2>3
<1>8. /\ ~Sending(p) /\ ~Sending(c) /\ ~Sending(c)'
      /\ \A q \in Proc \ {c} : (Sending(q)' <=> Sending(q)) /\ p_sendto'[q] = p_sendto[q]
    BY <1>1, <1>2, <1>5 DEF Sending, Open, Pending, Bits, Free, Kept, EntryKept
<1>9. \A q \in Proc : Sending(q) => p_sendto[q] \notin Slot
    <2>1. ASSUME NEW q \in Proc, Sending(q) PROVE p_sendto[q] \notin Slot
        <3>1. q # MM /\ q # FS
            BY <1>1, <2>1 DEF Sending, Ready, FsQuiet, Awaiting
        <3>2. SendsTo(q, MM)
            BY <2>1, <3>1, Entries
        <3> QED  BY <3>2 DEF SendsTo
    <2> QED  BY <2>1
<1>10. QueueExact'
    <2>1. \A e \in Proc : /\ ToSet(q_sending[e]) = {q \in Proc : Sending(q) /\ p_sendto[q] = e}
                          /\ IsInjective(q_sending[e])
        BY DEF MmInv, TableOK, QueueExact
    <2>2. ASSUME NEW e \in Proc
          PROVE  /\ ToSet(q_sending'[e]) = {q \in Proc : Sending(q)' /\ p_sendto'[q] = e}
                 /\ IsInjective(q_sending'[e])
        <3>1. CASE e = c
            <4>1. {q \in Proc : Sending(q)' /\ p_sendto'[q] = c} = {}
                BY <1>4, <1>8, <1>9
            <4>2. {q \in Proc : Sending(q) /\ p_sendto[q] = p} = {}
                BY <1>4, <1>9
            <4> QED  BY <1>4, <1>5, <2>1, <3>1, <4>1, <4>2
        <3>2. CASE e # c
            <4>1. {q \in Proc : Sending(q)' /\ p_sendto'[q] = e}
                      = {q \in Proc : Sending(q) /\ p_sendto[q] = e}
                BY <1>8
            <4> QED  BY <1>5, <2>1, <3>2, <4>1
        <3> QED  BY <3>1, <3>2
    <2> QED  BY <2>2 DEF QueueExact
<1>11. TableOK'
    <2>1. /\ p_flags' \in [Proc -> SUBSET Flag]
          /\ p_sendto' \in [Proc -> Proc \cup {NO_TASK}]
          /\ p_recvfrom' \in [Proc -> Source \cup {NO_TASK}]
          /\ p_msg' \in [Proc -> BOOLEAN]
          /\ q_sending' \in [Proc -> Seq(Proc)]
        BY <1>3, <1>4 DEF MmInv, TableOK
    <2>2. has_int_msg' = [q \in Proc |-> FALSE]
        BY <1>3, <1>4 DEF MmInv, TableOK
    <2> QED  BY <1>3, <1>10, <2>1, <2>2 DEF MmInv, TableOK, KernelRuns
<1>12. /\ Pending(c)' /\ Open(c)' /\ UserOK(c)'
       /\ ~Free(c)' /\ ~Hanging(c)' /\ ~Waiting(c)'
    <2>1. /\ Pending(p) /\ ~Waiting(p) /\ ~Hanging(p)
          /\ (Waiting(c)' <=> Waiting(p)) /\ (Hanging(c)' <=> Hanging(p))
          /\ (Receiving(c)' <=> Receiving(p)) /\ (Free(c)' <=> Free(p))
        BY <1>1, <1>5 DEF Open, Waiting, Hanging, Receiving, Free
    <2>2. Pending(c)'
        BY <1>5, <1>6, <2>1 DEF Pending
    <2>3. ~Free(p)
        BY <2>1 DEF Pending, Bits, Free
    <2> QED  BY <2>1, <2>2, <2>3 DEF Open, UserOK
<1>13. ForkReturns(c) /\ WaitReturns(c)
    <2>1. ~Receiving(c)
        BY <1>2 DEF Free, Receiving
    <2>2. stage'[c] # "user" /\ (stage'[c] = "received" => Receiving(c)')
        BY <1>1, <1>5, <1>6 DEF Open, Pending, Receiving
    <2> QED  BY <2>1, <2>2 DEF ForkReturns, WaitReturns, Answered
<1>14. ASSUME NEW q \in Slot \ {c}
       PROVE  /\ UserOK(q)' /\ SameMarks(q) /\ (Open(q)' <=> Open(q))
              /\ ForkReturns(q) /\ WaitReturns(q)
    <2>1. SameUser(q) /\ UserOK(q)
        BY <1>5, <1>6 DEF SameUser, MmInv
    <2>2. ForkPidsStay(q)
        <3>1. ASSUME NEW pid \in User, ~Free(pid)
              PROVE  p_parent'[pid] = p_parent[pid] /\ ~Free(pid)'
            BY <1>2, <1>5, <1>6, <3>1 DEF Kept, EntryKept, Free
        <3> QED  BY <3>1 DEF ForkPidsStay
    <2> QED  BY <2>1, <2>2, UserStays
<1>15. MmPlace'
    <2>1. Serves({p, c})' /\ Ready(MM)'
        BY <1>1, <1>4, <1>5, <1>12, <1>14 DEF Serves, Kept, EntryKept, Ready
    <2>2. call'[p] = "FORK" /\ call'[c] = "FORK"
        BY <1>1, <1>4, <1>6
    <2> QED  BY <1>4, <1>6, <1>7, <2>1, <2>2 DEF AtFork, MmPlace
<1>16. FsPlace'
    BY <1>1, <1>3, <1>5, <1>7, FsStaysQuiet DEF TellsFs
<1>17. FamilyOK'
    <2>1. ASSUME NEW e \in User \ {c}, NEW d, d = p_parent[e]
          PROVE  /\ d # e
                 /\ d = NO_TASK => Free(e)'
                 /\ d # NO_TASK => ~Free(d)' /\ ~Hanging(d)'
                 /\ Hanging(e)' => ~Waiting(d)'
        <3>1. /\ d # e /\ d \in Slot \cup {NO_TASK}
              /\ d = NO_TASK => Free(e)
              /\ d # NO_TASK => ~Free(d) /\ ~Hanging(d)
              /\ Hanging(e) => ~Waiting(d) /\ ~Free(e)
            BY <1>7, <2>1, ParentFacts DEF Leaving
        <3>2. d # c
            BY <1>2, <1>4, <3>1
        <3> QED  BY <1>14, <3>1, <3>2 DEF SameMarks
    <2>2. ~Free(p)' /\ ~Hanging(p)'
        BY <1>1, <1>4, <1>14 DEF SameMarks, Open, Pending, Bits, Free
    <2>3. p_parent'[InitProc] = NO_TASK
        BY <1>2, <1>6 DEF MmInv, FamilyOK
    <2>4. \A e \in User \ {c} : p_parent'[e] = p_parent[e]
        BY <1>6
    <2> QED  BY <1>4, <1>6, <1>12, <2>1, <2>2, <2>3, <2>4 DEF FamilyOK
<1>18. SpaceOK'
    BY <1>6, <1>7, <1>14 DEF MmInv, SpaceOK, SameMarks
<1>19. MmTypeOK' /\ call'[InitProc] # "EXIT"
    <2>1. /\ p_parent' \in [Slot -> Slot \cup {NO_TASK}] /\ space' \in [Slot -> Slot]
          /\ call' \in [Slot -> Call \cup {"none"}]
          /\ stage' \in [Slot -> {"user", "sent", "received", "asserted"}]
        BY <1>3, <1>4 DEF MmInv, MmTypeOK
    <2> QED  BY <1>2, <1>6, <1>7, <2>1 DEF MmInv, MmTypeOK
<1> QED
    BY <1>11, <1>12, <1>13, <1>14, <1>15, <1>16, <1>17, <1>18, <1>19 DEF StepOK, MmInv

-----------------------------------------------------------------------------
(* The invariant and the answers *)

LEMMA MmInitInv ==
    ASSUME MmInit
    PROVE  MmInv
<1> USE ProcFacts
<1>1. TableOK
    <2>1. ToSet(<<>>) = {} /\ IsInjective(<<>>)
        BY DEF ToSet, IsInjective
    <2>2. QueueExact
        BY <2>1 DEF MmInit, QueueExact, Sending
    <2>3. \A p \in Proc : Dead(p) \in [source : Proc, body : Mail]
        BY DEF Dead, Ret, Mail
    <2>4. buf \in [Proc -> [source : Proc, body : Mail]]
        BY <2>3 DEF MmInit
    <2>5. /\ p_flags \in [Proc -> SUBSET Flag]
          /\ p_sendto \in [Proc -> Proc \cup {NO_TASK}]
          /\ p_recvfrom \in [Proc -> Source \cup {NO_TASK}]
          /\ p_msg \in [Proc -> BOOLEAN]
        BY DEF MmInit, Flag
    <2>6. q_sending \in [Proc -> Seq(Proc)]
        BY EmptySeq DEF MmInit
    <2> QED  BY <2>2, <2>4, <2>5, <2>6 DEF MmInit, TableOK, KernelRuns
<1>2. mm = [at |-> "loop", src |-> NO_TASK, proc |-> NO_TASK, ret |-> 0, then |-> "loop"]
    BY DEF MmInit, MmIdle
<1>3. mm \in MmLocals
    BY <1>2 DEF MmLocals, Place
<1>4. mm.at = "loop"
    BY <1>2
<1>5. MmTypeOK
    BY <1>3 DEF MmInit, MmTypeOK
<1>6. \A p \in Slot : call[p] = "none" /\ stage[p] = "user" /\ ~Open(p)
    BY DEF MmInit, Open, Pending, Call
<1>7. \A p \in Proc \ User : Ready(p)
    BY DEF MmInit, Ready
<1>8. \A p \in User : Free(p) /\ ~Hanging(p) /\ p_parent[p] = NO_TASK
    BY DEF MmInit, Free, Hanging
<1>9. \A p \in Slot : UserOK(p)
    BY <1>6, <1>7, <1>8 DEF UserOK, Slot
<1>10. MmPlace
    BY <1>6, <1>7, MmAssumption DEF MmInit, MmPlace, AtLoop, Serves
<1>11. FsPlace
    <2>1. FsQuiet
        BY <1>7, MmAssumption DEF MmInit, FsQuiet
    <2> QED  BY <1>4, <2>1 DEF FsPlace
<1>12. FamilyOK
    BY <1>8 DEF MmInit, FamilyOK
<1>13. SpaceOK /\ call[InitProc] # "EXIT"
    BY <1>6, <1>8 DEF SpaceOK
<1> QED
    BY <1>1, <1>5, <1>9, <1>10, <1>11, <1>12, <1>13 DEF MmInv

LEMMA MmStep ==
    ASSUME MmInv, [Next]_vars
    PROVE  StepOK
<1>1. CASE UNCHANGED vars
    <2>1. UNCHANGED ipcVars /\ UNCHANGED <<p_parent, space, call, stage, mm, fs>>
        BY <1>1 DEF vars, mmVars
    <2>2. TableOK' /\ \A q \in Proc : Kept(q)
        BY <2>1, TableStays
    <2>3. FsPlace'
        BY <2>1, <2>2, FsStays, ProcFacts DEF MmInv
    <2> QED
        BY <2>1, <2>2, <2>3, FsFrame, ProcFacts DEF userVars
<1>2. ASSUME NEW p \in Slot, NEW t \in Call, UserCall(p, t) PROVE StepOK
    BY <1>2, UserCallStep
<1>3. ASSUME NEW p \in Slot, UserStep(p) PROVE StepOK
    BY <1>3, UserReceiveStep, UserReturnStep DEF UserStep
<1>4. CASE TaskFs
    BY <1>4, FsReceiveStep, FsReplyStep DEF TaskFs
<1>5. CASE MmLoop \/ CleanupSend \/ CleanupFree \/ Reply
    BY <1>5, MmLoopStep, CleanupSendStep, CleanupFreeStep, ReplyStep
<1>6. CASE DoFork
    BY <1>6, ForkDupStep, ForkNoSlotStep, ForkCopyStep, ForkTalkStep, ForkBirthStep DEF DoFork
<1>7. CASE DoExit
    BY <1>7, ExitTellStep, ExitToldStep, ExitParentStep, ExitChildStep, ExitDoneStep DEF DoExit
<1>8. CASE DoWait
    BY <1>8, WaitReapStep, WaitBlockStep, WaitChildlessStep DEF DoWait
<1> QED
    BY <1>1, <1>2, <1>3, <1>4, <1>5, <1>6, <1>7, <1>8 DEF Next, TaskMm

(* MmInv holds in every reachable state: whatever order the calls of fork, *)
(* wait and exit arrive in, every blocked process is one that MM will      *)
(* answer, waits for a child or is a zombie (mm/main.c, mm/forkexit.c).    *)
THEOREM MmInvariance == Spec => []MmInv
<1>1. MmInit => MmInv
    BY MmInitInv
<1>2. MmInv /\ [Next]_vars => MmInv'
    BY MmStep DEF StepOK
<1> QED
    BY <1>1, <1>2, PTL DEF Spec

(* The sends and receives of MM, FS and the callers never trip one of the  *)
(* assertions of proc.c and never panic as a deadlock, although MM puts    *)
(* WAITING and HANGING on processes that are blocked already.              *)
THEOREM KernelKeepsRunning == Spec => []KernelRuns
<1>1. MmInv => KernelRuns
    BY DEF MmInv, TableOK
<1> QED
    BY <1>1, MmInvariance, PTL

(* When MM is back in its main loop no zombie has a parent that waits, no  *)
(* process a parent that is gone, and each addresses its own memory: what  *)
(* do_fork, do_exit and do_wait leave behind them.                         *)
THEOREM TableIsSettled == Spec => []TableSettled
<1>1. MmInv => TableSettled
    <2> SUFFICES ASSUME MmInv, Idle PROVE NoMissedReap /\ ParentAlive /\ OwnSpace
        BY DEF TableSettled
    <2>1. mm.at = "loop"
        BY DEF Idle
    <2>2. NoMissedReap
        BY DEF MmInv, FamilyOK, NoMissedReap
    <2>3. ParentAlive
        BY <2>1, ParentIs DEF ParentAlive, Leaving
    <2>4. OwnSpace
        BY <2>1 DEF MmInv, SpaceOK, OwnSpace
    <2> QED  BY <2>2, <2>3, <2>4
<1> QED
    BY <1>1, MmInvariance, PTL

(* fork() returns 0 in the child and the child's PID in the parent, wait() *)
(* the PID of a child that has exited or none if there is none, and exit() *)
(* does not return, whichever of MM and the caller comes to the rendezvous *)
(* first.                                                                  *)
THEOREM AnswersAreExact == Spec => AnswersExact
<1>1. ASSUME MmInv, [Next]_vars, NEW p \in Slot
      PROVE  ForkReturns(p) /\ WaitReturns(p) /\ ~ExitReturns(p)
    <2>1. MmInv' /\ ForkReturns(p) /\ WaitReturns(p)
        BY <1>1, MmStep DEF StepOK
    <2>2. UserOK(p)'
        BY <2>1 DEF MmInv
    <2>3. ~ExitReturns(p)
        BY <2>2 DEF ExitReturns, UserOK, Runnable, Free, SendsTo, Pending, Receiving
    <2> QED  BY <2>1, <2>3
<1>2. MmInv /\ [Next]_vars
        => [\A p \in Slot : ForkReturns(p) /\ WaitReturns(p) /\ ~ExitReturns(p)]_vars
    BY <1>1
<1> QED
    BY <1>2, MmInvariance, PTL DEF Spec, AnswersExact
=============================================================================
