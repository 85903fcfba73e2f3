----------------------------- MODULE IpcProof -----------------------------
(***************************************************************************)
(* Proofs about Ipc, for any set of processes, interrupt tasks and bodies: *)
(* IpcInv is inductive, hence the queues are exact, no rendezvous is       *)
(* missed, blocked senders form no cycle and no assertion fails; and under *)
(* the mapping of IpcRefines every system call and every interrupt of      *)
(* proc.c is one step of the abstract Rendezvous.  At the end, that the    *)
(* pointer lists of IpcList are those queues.                              *)
(***************************************************************************)
EXTENDS IpcList, SequenceTheorems, FiniteSetTheorems, WellFoundedInduction, TLAPS

(* RemoveAt takes out the i-th element and moves up those behind it.       *)
LEMMA RemoveAtProperties ==
    ASSUME NEW S, NEW q \in Seq(S), NEW i \in DOMAIN q
    PROVE  /\ RemoveAt(q, i) \in Seq(S)
           /\ Len(RemoveAt(q, i)) = Len(q) - 1
           /\ \A j \in 1..(Len(q) - 1) :
                 RemoveAt(q, i)[j] = IF j < i THEN q[j] ELSE q[j + 1]
<1> DEFINE front == SubSeq(q, 1, i - 1)
           back  == SubSeq(q, i + 1, Len(q))
<1>1. i \in 1..Len(q) /\ i \in Nat /\ Len(q) \in Nat
    BY LenProperties
<1>2. front \in Seq(S) /\ Len(front) = i - 1
        /\ \A j \in 1..(i - 1) : front[j] = q[j]
    BY <1>1, SubSeqProperties, Z3
<1>3. back \in Seq(S) /\ Len(back) = Len(q) - i
        /\ \A j \in 1..(Len(q) - i) : back[j] = q[j + i]
    BY <1>1, SubSeqProperties, Z3
<1>4. RemoveAt(q, i) = front \o back
    BY DEF RemoveAt
<1> HIDE DEF front, back
<1>5. Len(front) + Len(back) = Len(q) - 1
    BY <1>1, <1>2, <1>3
<1>6. /\ front \o back \in Seq(S)
      /\ Len(front \o back) = Len(q) - 1
      /\ \A j \in 1..(Len(q) - 1) :
            (front \o back)[j] = IF j <= i - 1 THEN front[j] ELSE back[j - (i - 1)]
    <2>1. /\ front \o back \in Seq(S)
          /\ Len(front \o back) = Len(front) + Len(back)
          /\ \A j \in 1..(Len(front) + Len(back)) :
                (front \o back)[j] =
                    IF j <= Len(front) THEN front[j] ELSE back[j - Len(front)]
        BY <1>2, <1>3, ConcatProperties
    <2> QED
        BY <2>1, <1>2, <1>5
<1>7. ASSUME NEW j \in 1..(Len(q) - 1)
      PROVE  (front \o back)[j] = IF j < i THEN q[j] ELSE q[j + 1]
    <2>1. CASE j < i
        BY <2>1, <1>1, <1>2, <1>6
    <2>2. CASE ~(j < i)
        <3> DEFINE k == j - (i - 1)
        <3>1. k \in 1..(Len(q) - i) /\ k + i = j + 1
            BY <2>2, <1>1
        <3>2. (front \o back)[j] = back[k]
            BY <2>2, <3>1, <1>1, <1>6
        <3>3. back[k] = q[j + 1]
            BY <3>1, <1>3
        <3> QED
            BY <2>2, <3>2, <3>3
    <2> QED
        BY <2>1, <2>2
<1> QED
    BY <1>4, <1>6, <1>7

(* What the two changes of a queue do to the set of its processes.         *)
LEMMA QueueAppend ==
    ASSUME NEW S, NEW q \in Seq(S), NEW e \in S, IsInjective(q), e \notin ToSet(q)
    PROVE  /\ Append(q, e) \in Seq(S)
           /\ ToSet(Append(q, e)) = ToSet(q) \cup {e}
           /\ IsInjective(Append(q, e))
<1>1. Len(q) \in Nat /\ DOMAIN q = 1..Len(q)
    BY LenProperties
<1>2. /\ Append(q, e) \in Seq(S)
      /\ Len(Append(q, e)) = Len(q) + 1
      /\ \A i \in 1..Len(q) : Append(q, e)[i] = q[i]
      /\ Append(q, e)[Len(q) + 1] = e
    BY AppendProperties
<1>3. DOMAIN Append(q, e) = 1..(Len(q) + 1)
    BY <1>2, LenProperties
<1>4. ToSet(Append(q, e)) = ToSet(q) \cup {e}
    BY <1>1, <1>2, <1>3 DEF ToSet
<1>5. IsInjective(Append(q, e))
    BY <1>1, <1>2, <1>3 DEF IsInjective, ToSet
<1> QED
    BY <1>2, <1>4, <1>5

LEMMA QueueRemove ==
    ASSUME NEW S, NEW q \in Seq(S), NEW i \in DOMAIN q, IsInjective(q)
    PROVE  /\ RemoveAt(q, i) \in Seq(S)
           /\ ToSet(RemoveAt(q, i)) = ToSet(q) \ {q[i]}
           /\ IsInjective(RemoveAt(q, i))
<1> DEFINE r == RemoveAt(q, i)
<1>1. Len(q) \in Nat /\ DOMAIN q = 1..Len(q) /\ i \in 1..Len(q) /\ i \in Nat
    BY LenProperties
<1>2. /\ r \in Seq(S) /\ Len(r) = Len(q) - 1
      /\ \A j \in 1..(Len(q) - 1) : r[j] = IF j < i THEN q[j] ELSE q[j + 1]
    BY RemoveAtProperties
<1> HIDE DEF r
<1>3. DOMAIN r = 1..(Len(q) - 1)
    BY <1>2, LenProperties
<1>4. ASSUME NEW a \in DOMAIN r, NEW b \in DOMAIN r, r[a] = r[b]
      PROVE  a = b
    BY <1>1, <1>2, <1>3, <1>4 DEF IsInjective
<1>5. ToSet(r) \subseteq ToSet(q) \ {q[i]}
    BY <1>1, <1>2, <1>3 DEF IsInjective, ToSet
<1>6. ASSUME NEW x \in ToSet(q) \ {q[i]}
      PROVE  x \in ToSet(r)
    <2>1. PICK j \in 1..Len(q) : x = q[j] /\ j # i
        BY <1>1 DEF ToSet
    <2>2. CASE j < i
        BY <2>1, <2>2, <1>1, <1>2, <1>3 DEF ToSet
    <2>3. CASE i < j
        <3>1. j - 1 \in 1..(Len(q) - 1) /\ ~(j - 1 < i) /\ (j - 1) + 1 = j
            BY <2>1, <2>3, <1>1
        <3> QED
            BY <2>1, <3>1, <1>2, <1>3 DEF ToSet
    <2> QED
        BY <2>1, <2>2, <2>3, <1>1
<1> QED
    BY <1>2, <1>4, <1>5, <1>6 DEF r, IsInjective

-----------------------------------------------------------------------------
LEMMA InitInv == IpcInit => IpcInv
<1> SUFFICES ASSUME IpcInit PROVE IpcInv
    OBVIOUS
<1>1. IpcTypeOK
    BY EmptySeq DEF IpcInit, IpcTypeOK, Source, Message, Flag
<1>2. EntryExact
    BY SentinelAssumption DEF IpcInit, EntryExact, Sending, Receiving
<1>3. QueueExact
    <2>1. ToSet(<<>>) = {} /\ IsInjective(<<>>)
        BY DEF ToSet, IsInjective
    <2> QED
        BY <2>1 DEF IpcInit, QueueExact, Sending
<1>4. NoMissedRendezvous
    BY DEF IpcInit, NoMissedRendezvous, Sending, Awaits, Receiving
<1>5. NoSendCycle
    BY DEF IpcInit, NoSendCycle, Sending
<1>6. NoAssertFailure
    BY DEF IpcInit, NoAssertFailure
<1> QED
    BY <1>1, <1>2, <1>3, <1>4, <1>5, <1>6 DEF IpcInv

(* A step that blocks no further sender closes no cycle of senders.        *)
LEMMA NoNewEdge ==
    ASSUME NoSendCycle,
           \A p \in Proc : Sending(p)' => Sending(p) /\ p_sendto'[p] = p_sendto[p]
    PROVE  NoSendCycle'
BY DEF NoSendCycle

LEMMA SendPanicInv ==
    ASSUME IpcInv, NEW p \in Proc, NEW d \in Proc, NEW m \in Body, SendPanic(p, d, m)
    PROVE  IpcInv'
<1> USE DEF IpcInv, SendPanic
<1>1. IpcTypeOK'
    <2>1. [source |-> p, body |-> m] \in Message
        BY DEF Message
    <2> QED
        BY <2>1 DEF IpcTypeOK
<1>2. EntryExact'
    BY DEF EntryExact, Sending, Receiving
<1>3. QueueExact'
    BY DEF QueueExact, Sending
<1>4. NoMissedRendezvous'
    BY DEF NoMissedRendezvous, Sending, Awaits, Receiving
<1>5. NoSendCycle'
    BY DEF NoSendCycle, Sending
<1>6. NoAssertFailure'
    BY DEF NoAssertFailure
<1> QED
    BY <1>1, <1>2, <1>3, <1>4, <1>5, <1>6

LEMMA SendDeliverInv ==
    ASSUME IpcInv, NEW p \in Proc, NEW d \in Proc, NEW m \in Body,
           Runnable(p), p # d, SendDeliver(p, d, m)
    PROVE  IpcInv'
<1> USE DEF IpcInv, SendDeliver
<1>1. p_flags[p] = {} /\ p_flags[d] = {"RECEIVING"} /\ halted = "no"
    BY DEF Runnable, Awaits, Receiving, EntryExact
<1>2. /\ p_flags' = [p_flags EXCEPT ![d] = {}]
      /\ p_flags' \in [Proc -> SUBSET Flag]
    BY <1>1 DEF IpcTypeOK
<1>3. \A q \in Proc : /\ Sending(q)' <=> Sending(q)
                      /\ Receiving(q)' <=> Receiving(q) /\ q # d
    BY <1>1, <1>2 DEF Sending, Receiving, IpcTypeOK
<1>4. p_sendto[d] = NO_TASK /\ p_sendto[p] = NO_TASK /\ p_recvfrom[p] = NO_TASK
    BY <1>1 DEF EntryExact, Sending, Receiving
<1>5. IpcTypeOK'
    <2>1. [source |-> p, body |-> m] \in Message
        BY DEF Message
    <2>2. halted' \in {"no", "deadlock", "assert"}
        BY <1>1 DEF Asserting
    <2> QED
        BY <2>1, <2>2, <1>2 DEF IpcTypeOK
<1>6. EntryExact'
    BY <1>1, <1>2, <1>3, SentinelAssumption DEF EntryExact, IpcTypeOK
<1>7. QueueExact'
    BY <1>3 DEF QueueExact
<1>8. NoMissedRendezvous'
    BY <1>3 DEF NoMissedRendezvous, Awaits, IpcTypeOK
<1>9. NoSendCycle'
    BY <1>3, NoNewEdge
<1>10. NoAssertFailure'
    BY <1>1, <1>2, <1>4 DEF NoAssertFailure, Asserting, EntryExact, IpcTypeOK
<1> QED
    BY <1>5, <1>6, <1>7, <1>8, <1>9, <1>10

LEMMA SendBlockInv ==
    ASSUME IpcInv, NEW p \in Proc, NEW d \in Proc, NEW m \in Body,
           Runnable(p), p # d, SendBlock(p, d, m)
    PROVE  IpcInv'
<1> USE DEF IpcInv, SendBlock, BlockSender
<1>1. /\ p_flags[p] = {} /\ halted = "no"
      /\ p_recvfrom[p] = NO_TASK /\ ~Sending(p)
    BY DEF Runnable, Receiving, EntryExact, Sending
<1>2. /\ p_flags' = [p_flags EXCEPT ![p] = {"SENDING"}]
      /\ p_flags' \in [Proc -> SUBSET Flag]
    BY <1>1 DEF IpcTypeOK, Flag
<1>3. \A q \in Proc : /\ Sending(q)' <=> Sending(q) \/ q = p
                      /\ Receiving(q)' <=> Receiving(q)
                      /\ p_sendto'[q] = IF q = p THEN d ELSE p_sendto[q]
    BY <1>1, <1>2 DEF Sending, Receiving, IpcTypeOK
<1>4. IsInjective(q_sending[d]) /\ q_sending[d] \in Seq(Proc) /\ p \notin ToSet(q_sending[d])
    BY <1>1 DEF QueueExact, IpcTypeOK
<1>5. /\ Append(q_sending[d], p) \in Seq(Proc)
      /\ ToSet(Append(q_sending[d], p)) = ToSet(q_sending[d]) \cup {p}
      /\ IsInjective(Append(q_sending[d], p))
    BY <1>4, QueueAppend
<1>6. \A e \in Proc : q_sending'[e] =
            IF e = d THEN Append(q_sending[d], p) ELSE q_sending[e]
    BY DEF IpcTypeOK
<1>7. IpcTypeOK'
    <2>1. [source |-> p, body |-> m] \in Message
        BY DEF Message
    <2>2. halted' \in {"no", "deadlock", "assert"}
        BY <1>1 DEF Asserting
    <2>3. q_sending' \in [Proc -> Seq(Proc)]
        BY <1>5 DEF IpcTypeOK
    <2> QED
        BY <2>1, <2>2, <2>3, <1>2 DEF IpcTypeOK
<1>8. EntryExact'
    <2> SUFFICES ASSUME NEW q \in Proc
                 PROVE  /\ p_flags'[q] \in {{}, {"SENDING"}, {"RECEIVING"}}
                        /\ Sending(q)' <=> p_sendto'[q] # NO_TASK
                        /\ Receiving(q)' <=> p_recvfrom'[q] # NO_TASK
                        /\ p_msg'[q] <=> p_flags'[q] # {}
                        /\ p_sendto'[q] # q /\ p_recvfrom'[q] # q
        BY DEF EntryExact
    <2>1. CASE q = p
        BY <2>1, <1>1, <1>2, <1>3, SentinelAssumption DEF EntryExact, IpcTypeOK
    <2>2. CASE q # p
        <3>1. /\ p_flags'[q] = p_flags[q] /\ p_msg'[q] = p_msg[q]
              /\ p_sendto'[q] = p_sendto[q] /\ p_recvfrom'[q] = p_recvfrom[q]
            BY <2>2, <1>1, <1>2, <1>3 DEF IpcTypeOK
        <3> QED
            BY <2>2, <3>1, <1>3 DEF EntryExact
    <2> QED
        BY <2>1, <2>2
<1>9. QueueExact'
    <2> SUFFICES ASSUME NEW e \in Proc
                 PROVE  /\ ToSet(q_sending'[e]) =
                              {q \in Proc : Sending(q)' /\ p_sendto'[q] = e}
                        /\ IsInjective(q_sending'[e])
        BY DEF QueueExact
    <2>1. /\ ToSet(q_sending[e]) = {q \in Proc : Sending(q) /\ p_sendto[q] = e}
          /\ IsInjective(q_sending[e])
        BY DEF QueueExact
    <2>2. {q \in Proc : Sending(q)' /\ p_sendto'[q] = e} =
            {q \in Proc : Sending(q) /\ p_sendto[q] = e}
               \cup (IF e = d THEN {p} ELSE {})
        BY <1>1, <1>3
    <2> QED
        BY <2>1, <2>2, <1>5, <1>6
<1>10. NoMissedRendezvous'
    <2>1. \A e \in Proc : \A s : Awaits(e, s)' <=> Awaits(e, s)
        BY <1>3 DEF Awaits
    <2> QED
        BY <1>3, <2>1 DEF NoMissedRendezvous
<1>11. NoSendCycle'
    <2> SUFFICES ASSUME NEW S \in (SUBSET Proc) \ {{}},
                        \A q \in S : Sending(q)' /\ p_sendto'[q] \in S
                 PROVE  FALSE
        BY DEF NoSendCycle
    \* Without p the set was a circle before the step.
    <2>1. CASE p \notin S
        BY <2>1, <1>3 DEF NoSendCycle
    \* With p it holds d, and what the walk from d met was a circle.
    <2>2. CASE p \in S
        <3>1. d \in S
            BY <2>2, <1>3
        <3>2. PICK T \in SUBSET Proc :
                    /\ d \in T /\ p \notin T
                    /\ \A q \in T : Sending(q) => p_sendto[q] \in T
            BY DEF Deadlock
        <3>3. S \cap T \in (SUBSET Proc) \ {{}}
            BY <3>1, <3>2
        <3>4. \A q \in S \cap T : Sending(q) /\ p_sendto[q] \in S \cap T
            BY <3>2, <1>3
        <3> QED
            BY <3>3, <3>4 DEF NoSendCycle
    <2> QED
        BY <2>1, <2>2
<1>12. NoAssertFailure'
    BY <1>1, <1>2 DEF NoAssertFailure, Asserting, IpcTypeOK
<1> QED
    BY <1>7, <1>8, <1>9, <1>10, <1>11, <1>12

LEMMA ReceiveIntInv ==
    ASSUME IpcInv, NEW p \in Proc, NEW src \in Source, Runnable(p), ReceiveInt(p, src)
    PROVE  IpcInv'
<1> USE DEF IpcInv, ReceiveInt
<1>1. p_flags[p] = {} /\ halted = "no" /\ p_sendto[p] = NO_TASK /\ ~p_msg[p]
    BY DEF Runnable, EntryExact, Sending
<1>2. IpcTypeOK'
    <2>1. IntMessage \in Message
        BY DEF IntMessage, Message
    <2>2. halted' \in {"no", "deadlock", "assert"}
        BY <1>1 DEF Asserting
    <2> QED
        BY <2>1, <2>2 DEF IpcTypeOK
<1>3. EntryExact'
    BY DEF EntryExact, Sending, Receiving
<1>4. QueueExact'
    BY DEF QueueExact, Sending
<1>5. NoMissedRendezvous'
    BY DEF NoMissedRendezvous, Sending, Awaits, Receiving, IpcTypeOK
<1>6. NoSendCycle'
    BY DEF NoSendCycle, Sending
<1>7. NoAssertFailure'
    BY <1>1 DEF NoAssertFailure, Asserting
<1> QED
    BY <1>2, <1>3, <1>4, <1>5, <1>6, <1>7

LEMMA ReceiveTakeInv ==
    ASSUME IpcInv, NEW p \in Proc, NEW src \in Source, NEW i \in DOMAIN q_sending[p],
           Runnable(p), ReceiveTake(p, src, i)
    PROVE  IpcInv'
<1> DEFINE from == q_sending[p][i]
<1> USE DEF IpcInv, ReceiveTake, TakeFrom
<1>1. /\ p_flags[p] = {} /\ halted = "no"
      /\ p_sendto[p] = NO_TASK /\ p_recvfrom[p] = NO_TASK /\ ~p_msg[p]
    BY DEF Runnable, EntryExact, Sending, Receiving
<1>2. q_sending[p] \in Seq(Proc) /\ from \in ToSet(q_sending[p]) /\ from \in Proc
    BY ElementOfSeq, LenProperties DEF IpcTypeOK, ToSet
<1>3. Sending(from) /\ p_sendto[from] = p
    BY <1>2 DEF QueueExact
<1>4. /\ p_flags[from] = {"SENDING"} /\ p_recvfrom[from] = NO_TASK
      /\ p_msg[from] /\ from # p
    BY <1>1, <1>2, <1>3 DEF EntryExact, Sending, Receiving
<1> HIDE DEF from
<1>5. /\ buf' = [buf EXCEPT ![p] = buf[from]]
      /\ p_msg' = [p_msg EXCEPT ![from] = FALSE]
      /\ p_sendto' = [p_sendto EXCEPT ![from] = NO_TASK]
      /\ p_flags' = [p_flags EXCEPT ![from] = {}]
      /\ q_sending' = [q_sending EXCEPT ![p] = RemoveAt(q_sending[p], i)]
      /\ UNCHANGED <<p_recvfrom, has_int_msg>>
    BY <1>2, <1>4 DEF from, Unlink, IpcTypeOK
<1>6. halted' = "no"
    BY <1>1, <1>2, <1>3, <1>4 DEF from, Asserting
<1>7. \A q \in Proc : /\ Sending(q)' <=> Sending(q) /\ q # from
                      /\ Receiving(q)' <=> Receiving(q)
                      /\ p_sendto'[q] = IF q = from THEN NO_TASK ELSE p_sendto[q]
    BY <1>2, <1>4, <1>5 DEF Sending, Receiving, IpcTypeOK
<1>8. /\ RemoveAt(q_sending[p], i) \in Seq(Proc)
      /\ ToSet(RemoveAt(q_sending[p], i)) = ToSet(q_sending[p]) \ {from}
      /\ IsInjective(RemoveAt(q_sending[p], i))
    <2>1. IsInjective(q_sending[p])
        BY DEF QueueExact
    <2> QED
        BY <2>1, <1>2, QueueRemove DEF from
<1>9. IpcTypeOK'
    BY <1>2, <1>5, <1>6, <1>8 DEF IpcTypeOK
<1>10. EntryExact'
    <2> SUFFICES ASSUME NEW q \in Proc
                 PROVE  /\ p_flags'[q] \in {{}, {"SENDING"}, {"RECEIVING"}}
                        /\ Sending(q)' <=> p_sendto'[q] # NO_TASK
                        /\ Receiving(q)' <=> p_recvfrom'[q] # NO_TASK
                        /\ p_msg'[q] <=> p_flags'[q] # {}
                        /\ p_sendto'[q] # q /\ p_recvfrom'[q] # q
        BY DEF EntryExact
    <2>1. CASE q = from
        BY <2>1, <1>2, <1>3, <1>4, <1>5, <1>7, SentinelAssumption DEF EntryExact, IpcTypeOK
    <2>2. CASE q # from
        <3>1. /\ p_flags'[q] = p_flags[q] /\ p_msg'[q] = p_msg[q]
              /\ p_sendto'[q] = p_sendto[q] /\ p_recvfrom'[q] = p_recvfrom[q]
            BY <2>2, <1>2, <1>3, <1>4, <1>5, <1>7 DEF IpcTypeOK
        <3> QED
            BY <2>2, <3>1, <1>7 DEF EntryExact
    <2> QED
        BY <2>1, <2>2
<1>11. QueueExact'
    <2> SUFFICES ASSUME NEW e \in Proc
                 PROVE  /\ ToSet(q_sending'[e]) =
                              {q \in Proc : Sending(q)' /\ p_sendto'[q] = e}
                        /\ IsInjective(q_sending'[e])
        BY DEF QueueExact
    <2>1. /\ ToSet(q_sending[e]) = {q \in Proc : Sending(q) /\ p_sendto[q] = e}
          /\ IsInjective(q_sending[e])
        BY DEF QueueExact
    <2>2. {q \in Proc : Sending(q)' /\ p_sendto'[q] = e} =
            {q \in Proc : Sending(q) /\ p_sendto[q] = e} \ (IF e = p THEN {from} ELSE {})
        BY <1>3, <1>7
    <2>3. q_sending'[e] = IF e = p THEN RemoveAt(q_sending[p], i) ELSE q_sending[e]
        BY <1>5 DEF IpcTypeOK
    <2> QED
        BY <2>1, <2>2, <2>3, <1>8
<1>12. NoMissedRendezvous'
    <2>1. \A e \in Proc : \A s : Awaits(e, s)' <=> Awaits(e, s)
        BY <1>5, <1>7 DEF Awaits
    <2> QED
        BY <1>5, <1>7, <2>1 DEF NoMissedRendezvous
<1>13. NoSendCycle'
    BY <1>7, NoNewEdge
<1>14. NoAssertFailure'
    BY <1>6 DEF NoAssertFailure
<1> QED
    BY <1>9, <1>10, <1>11, <1>12, <1>13, <1>14

LEMMA ReceiveBlockInv ==
    ASSUME IpcInv, NEW p \in Proc, NEW src \in Source,
           Runnable(p), p # src, IntDiscipline(p, src), ReceiveBlock(p, src)
    PROVE  IpcInv'
<1> USE DEF IpcInv, ReceiveBlock, BlockReceiver
<1>1. /\ p_flags[p] = {} /\ halted = "no"
      /\ p_sendto[p] = NO_TASK /\ ~Sending(p)
    BY DEF Runnable, EntryExact, Sending
<1>2. ~has_int_msg[p]
    BY DEF TakesInt, IntDiscipline, Source
<1>3. /\ p_flags' = [p_flags EXCEPT ![p] = {"RECEIVING"}]
      /\ p_flags' \in [Proc -> SUBSET Flag]
    BY <1>1 DEF IpcTypeOK, Flag
<1>4. halted' = "no"
    BY <1>1, <1>2, <1>3 DEF Asserting, IpcTypeOK
<1>5. \A q \in Proc : /\ Sending(q)' <=> Sending(q)
                      /\ Receiving(q)' <=> Receiving(q) \/ q = p
                      /\ p_recvfrom'[q] = IF q = p THEN src ELSE p_recvfrom[q]
    BY <1>1, <1>3 DEF Sending, Receiving, IpcTypeOK
<1>6. IpcTypeOK'
    <2>1. [buf[p] EXCEPT !.source = p] \in Message
        BY DEF IpcTypeOK, Message
    <2> QED
        BY <2>1, <1>3, <1>4 DEF IpcTypeOK
<1>7. EntryExact'
    <2> SUFFICES ASSUME NEW q \in Proc
                 PROVE  /\ p_flags'[q] \in {{}, {"SENDING"}, {"RECEIVING"}}
                        /\ Sending(q)' <=> p_sendto'[q] # NO_TASK
                        /\ Receiving(q)' <=> p_recvfrom'[q] # NO_TASK
                        /\ p_msg'[q] <=> p_flags'[q] # {}
                        /\ p_sendto'[q] # q /\ p_recvfrom'[q] # q
        BY DEF EntryExact
    <2>1. CASE q = p
        BY <2>1, <1>1, <1>3, <1>5, SentinelAssumption DEF EntryExact, IpcTypeOK, Source
    <2>2. CASE q # p
        <3>1. /\ p_flags'[q] = p_flags[q] /\ p_msg'[q] = p_msg[q]
              /\ p_sendto'[q] = p_sendto[q] /\ p_recvfrom'[q] = p_recvfrom[q]
            BY <2>2, <1>1, <1>3, <1>5 DEF IpcTypeOK
        <3> QED
            BY <2>2, <3>1, <1>5 DEF EntryExact
    <2> QED
        BY <2>1, <2>2
<1>8. QueueExact'
    BY <1>5 DEF QueueExact
<1>9. NoMissedRendezvous'
    \* A sender that p would be waiting for is in its queue, where Picks
    \* finds it.
    <2>1. ASSUME NEW q \in Proc, Sending(q), p_sendto[q] = p
          PROVE  src \notin {q, ANY}
        <3>1. q \in ToSet(q_sending[p])
            BY <2>1 DEF QueueExact
        <3>2. q_sending[p] \in Seq(Proc)
            BY DEF IpcTypeOK
        <3>3. PICK j \in DOMAIN q_sending[p] : q_sending[p][j] = q
            BY <3>1 DEF ToSet
        <3>4. 1 \in DOMAIN q_sending[p]
            BY <3>2, <3>3, LenProperties
        <3> QED
            BY <2>1, <3>3, <3>4, SentinelAssumption DEF Picks
    <2>2. \A e \in Proc : \A s : Awaits(e, s)' <=>
                IF e = p THEN src \in {s, ANY} ELSE Awaits(e, s)
        BY <1>5 DEF Awaits
    <2> QED
        BY <1>2, <1>5, <2>1, <2>2 DEF NoMissedRendezvous
<1>10. NoSendCycle'
    BY <1>5, NoNewEdge
<1>11. NoAssertFailure'
    BY <1>4 DEF NoAssertFailure
<1> QED
    BY <1>6, <1>7, <1>8, <1>9, <1>10, <1>11

LEMMA InformInv ==
    ASSUME IpcInv, NEW t \in IntTask, InformInt(t)
    PROVE  IpcInv'
<1> USE DEF IpcInv
<1>1. t \in Proc /\ halted = "no"
    BY ProcAssumption DEF InformInt
<1>2. CASE InformPend(t)
    <2> USE DEF InformPend
    <2>1. IpcTypeOK'
        BY <1>1, <1>2 DEF IpcTypeOK
    <2>2. EntryExact'
        BY <1>2 DEF EntryExact, Sending, Receiving
    <2>3. QueueExact' /\ NoSendCycle' /\ NoAssertFailure'
        BY <1>2 DEF QueueExact, NoSendCycle, NoAssertFailure, Sending
    <2>4. NoMissedRendezvous'
        BY <1>1, <1>2 DEF NoMissedRendezvous, Sending, Awaits, Receiving, IpcTypeOK
    <2> QED
        BY <2>1, <2>2, <2>3, <2>4
<1>3. CASE InformWake(t)
    <2> USE DEF InformWake
    <2>1. p_flags[t] = {"RECEIVING"} /\ p_msg[t] /\ p_sendto[t] = NO_TASK
        BY <1>1, <1>3 DEF Awaits, Receiving, EntryExact, Sending
    <2>2. /\ p_flags' = [p_flags EXCEPT ![t] = {}]
          /\ p_flags' \in [Proc -> SUBSET Flag]
        BY <1>1, <1>3, <2>1 DEF IpcTypeOK
    <2>3. halted' = "no"
        BY <1>1, <1>3, <2>1, <2>2 DEF Asserting, IpcTypeOK
    <2>4. \A q \in Proc : /\ Sending(q)' <=> Sending(q)
                          /\ Receiving(q)' <=> Receiving(q) /\ q # t
        BY <1>1, <2>1, <2>2 DEF Sending, Receiving, IpcTypeOK
    <2>5. IpcTypeOK'
        <3>1. IntMessage \in Message
            BY DEF IntMessage, Message
        <3> QED
            BY <1>3, <2>2, <2>3, <3>1 DEF IpcTypeOK
    <2>6. EntryExact'
        BY <1>1, <1>3, <2>1, <2>2, <2>4, SentinelAssumption DEF EntryExact, IpcTypeOK
    <2>7. QueueExact'
        BY <1>3, <2>4 DEF QueueExact
    <2>8. NoMissedRendezvous'
        <3>1. \A e \in Proc : \A s : Awaits(e, s)' => Awaits(e, s)
            BY <1>1, <1>3, <2>4 DEF Awaits, IpcTypeOK
        <3>2. ~has_int_msg'[t] /\ \A e \in Proc \ {t} : has_int_msg'[e] = has_int_msg[e]
            BY <1>1, <1>3 DEF IpcTypeOK
        <3> QED
            BY <1>3, <2>4, <3>1, <3>2 DEF NoMissedRendezvous
    <2>9. NoSendCycle'
        BY <1>3, <2>4, NoNewEdge
    <2>10. NoAssertFailure'
        BY <2>3 DEF NoAssertFailure
    <2> QED
        BY <2>5, <2>6, <2>7, <2>8, <2>9, <2>10
<1> QED
    BY <1>2, <1>3 DEF InformInt

-----------------------------------------------------------------------------
(* IpcInv is inductive: one step for each action of IpcNext.               *)
LEMMA StepInv == IpcInv /\ [IpcNext]_ipcVars => IpcInv'
<1> SUFFICES ASSUME IpcInv, [IpcNext]_ipcVars PROVE IpcInv'
    OBVIOUS
<1>1. ASSUME NEW p \in Proc, NEW d \in Proc, NEW m \in Body, MsgSend(p, d, m)
      PROVE  IpcInv'
    BY <1>1, SendPanicInv, SendDeliverInv, SendBlockInv DEF MsgSend
<1>2. ASSUME NEW p \in Proc, NEW src \in Source, IntDiscipline(p, src), MsgReceive(p, src)
      PROVE  IpcInv'
    BY <1>2, ReceiveIntInv, ReceiveTakeInv, ReceiveBlockInv DEF MsgReceive
<1>3. ASSUME NEW t \in IntTask, InformInt(t)
      PROVE  IpcInv'
    BY <1>3, InformInv
<1>4. CASE UNCHANGED ipcVars
    BY <1>4 DEF ipcVars, IpcInv, IpcTypeOK, EntryExact, QueueExact,
                NoMissedRendezvous, NoSendCycle, NoAssertFailure,
                Sending, Receiving, Awaits
<1> QED
    BY <1>1, <1>2, <1>3, <1>4 DEF IpcNext

(* The inductive invariant: every process entry agrees with itself, the    *)
(* queues are exact, no rendezvous is missed, senders form no circle and   *)
(* no assertion of msg_send, msg_receive or inform_int has failed.         *)
THEOREM Invariance == IpcSpec => []IpcInv
BY InitInv, StepInv, PTL DEF IpcSpec

(* Type correctness of the process table, for any set of processes.        *)
THEOREM TypeCorrect == IpcSpec => []IpcTypeOK
<1>1. IpcInv => IpcTypeOK
    BY DEF IpcInv
<1> QED
    BY <1>1, Invariance, PTL

(* The sending queues of msg_send and msg_receive hold every blocked       *)
(* sender exactly once, however many processes there are.                  *)
THEOREM QueuesExact == IpcSpec => []QueueExact
<1>1. IpcInv => QueueExact
    BY DEF IpcInv
<1> QED
    BY <1>1, Invariance, PTL

(* No sender and receiver, and no interrupt and its task, wait for each    *)
(* other without meeting.                                                  *)
THEOREM RendezvousMet == IpcSpec => []NoMissedRendezvous
<1>1. IpcInv => NoMissedRendezvous
    BY DEF IpcInv
<1> QED
    BY <1>1, Invariance, PTL

(* deadlock() is enough to keep blocked senders from forming a circle of   *)
(* any length.                                                             *)
THEOREM SendersFormNoCycle == IpcSpec => []NoSendCycle
<1>1. IpcInv => NoSendCycle
    BY DEF IpcInv
<1> QED
    BY <1>1, Invariance, PTL

(* No assert() of msg_send, msg_receive or inform_int ever fails, provided *)
(* tasks with a pending interrupt keep to IntDiscipline.                   *)
THEOREM AssertionsHold == IpcSpec => []NoAssertFailure
<1>1. IpcInv => NoAssertFailure
    BY DEF IpcInv
<1> QED
    BY <1>1, Invariance, PTL

-----------------------------------------------------------------------------
(* What deadlock() finds is a circle but for its last link: the processes  *)
(* from which every walk along p_sendto comes to p are all blocked senders *)
(* that send to one another or to p.                                       *)
LEMMA DeadlockIsCycle ==
    ASSUME NEW p \in Proc, NEW d \in Proc, p # d, IpcInv, Deadlock(p, d)
    PROVE  \E S \in SUBSET Proc :
              /\ p \notin S /\ d \in S
              /\ \A q \in S : Sending(q) /\ p_sendto[q] \in S \cup {p}
<1> DEFINE Closed(T) == \A q \in T : Sending(q) => p_sendto[q] \in T
           Before == {r \in Proc : \A T \in SUBSET Proc : r \in T /\ Closed(T) => p \in T}
           S == Before \ {p}
<1>1. d \in S
    BY DEF Deadlock
<1>2. ASSUME NEW q \in S
      PROVE  Sending(q) /\ p_sendto[q] \in S \cup {p}
    <2>1. Sending(q)
        <3>1. SUFFICES ASSUME ~Sending(q) PROVE FALSE
            OBVIOUS
        <3>2. {q} \in SUBSET Proc /\ q \in {q} /\ Closed({q})
            BY <3>1
        <3>3. p \in {q}
            BY <3>2
        <3> QED
            BY <3>3
    <2>2. p_sendto[q] \in Proc
        BY <2>1 DEF IpcInv, IpcTypeOK, EntryExact
    <2>3. ASSUME NEW T \in SUBSET Proc, p_sendto[q] \in T, Closed(T)
          PROVE  p \in T
        <3>1. T \cup {q} \in SUBSET Proc /\ q \in T \cup {q} /\ Closed(T \cup {q})
            BY <2>3
        <3>2. p \in T \cup {q}
            BY <3>1
        <3> QED
            BY <3>2
    <2> QED
        BY <2>1, <2>2, <2>3
<1>3. S \in SUBSET Proc /\ p \notin S
    OBVIOUS
<1> HIDE DEF S
<1> QED
    BY <1>1, <1>2, <1>3

(* msg_send panics only when the send would close a circle of senders.     *)
THEOREM PanicsOnlyOnCycle == IpcSpec => PanicOnlyOnCycle
<1> DEFINE Cycle == \E p, d \in Proc, S \in SUBSET Proc :
                       /\ Runnable(p) /\ p \notin S /\ d \in S
                       /\ \A q \in S : Sending(q) /\ p_sendto[q] \in S \cup {p}
<1>1. ASSUME IpcInv, IpcNext, halted' = "deadlock"
      PROVE  Cycle
    <2>1. ASSUME NEW p \in Proc, NEW d \in Proc, NEW m \in Body, MsgSend(p, d, m)
          PROVE  Cycle
        <3>1. SendPanic(p, d, m)
            BY <1>1, <2>1 DEF MsgSend, Runnable, SendDeliver, SendBlock,
                              BlockSender, Asserting
        <3>2. Runnable(p) /\ p # d /\ Deadlock(p, d)
            BY <2>1, <3>1 DEF MsgSend, SendPanic
        <3> QED
            BY <1>1, <3>2, DeadlockIsCycle
    <2>2. ASSUME NEW p \in Proc, NEW src \in Source, MsgReceive(p, src)
          PROVE  FALSE
        BY <1>1, <2>2 DEF MsgReceive, Runnable, ReceiveInt, ReceiveTake, TakeFrom,
                          ReceiveBlock, BlockReceiver, Asserting
    <2>3. ASSUME NEW t \in IntTask, InformInt(t)
          PROVE  FALSE
        BY <1>1, <2>3 DEF InformInt, InformWake, InformPend, Asserting
    <2> QED
        BY <1>1, <2>1, <2>2, <2>3 DEF IpcNext
<1>2. IpcInv /\ [IpcNext]_ipcVars => [halted' = "deadlock" => Cycle]_ipcVars
    BY <1>1
<1> QED
    BY <1>2, Invariance, PTL DEF IpcSpec, PanicOnlyOnCycle

-----------------------------------------------------------------------------
\* What DeliveryExact says of one process.
Delivered(q) ==
    /\ Sending(q) /\ ~Sending(q)' =>
          /\ buf'[p_sendto[q]] = buf[q]
          /\ \A r \in Proc \ {q} : Sending(r) = Sending(r)'
          /\ Runnable(p_sendto[q])
    /\ Receiving(q) /\ ~Receiving(q)' =>
          /\ p_recvfrom[q] \in {ANY, buf'[q].source}
          /\ buf'[q].source = INTERRUPT => buf'[q] = IntMessage
    /\ p_flags[q] # {} /\ p_flags'[q] = p_flags[q] => buf'[q] = buf[q]

LEMMA SendDelivers ==
    ASSUME IpcInv, NEW q \in Proc, NEW p \in Proc, NEW d \in Proc, NEW m \in Body,
           MsgSend(p, d, m)
    PROVE  Delivered(q)
<1> USE DEF IpcInv, IpcTypeOK
<1>1. p_flags[p] = {} /\ p # d
    BY DEF MsgSend, Runnable
<1>2. CASE SendPanic(p, d, m)
    BY <1>1, <1>2 DEF SendPanic, Delivered, Sending, Receiving
<1>3. CASE SendDeliver(p, d, m)
    <2> USE <1>3 DEF SendDeliver
    <2>1. p_flags[d] = {"RECEIVING"} /\ p_recvfrom[d] \in {p, ANY}
        BY DEF Awaits, Receiving, EntryExact
    <2>2. /\ p_flags'[d] = {} /\ \A r \in Proc \ {d} : p_flags'[r] = p_flags[r]
          /\ buf'[d] = [source |-> p, body |-> m]
          /\ \A r \in Proc \ {p, d} : buf'[r] = buf[r]
        BY <1>1, <2>1
    <2>3. buf'[d].source = p /\ p # INTERRUPT
        BY <2>2, SentinelAssumption
    <2>4. CASE q = d
        BY <2>1, <2>2, <2>3, <2>4 DEF Delivered, Sending
    <2>5. CASE q # d
        BY <1>1, <2>2, <2>5 DEF Delivered, Sending, Receiving
    <2> QED
        BY <2>4, <2>5
<1>4. CASE SendBlock(p, d, m)
    BY <1>1, <1>4 DEF SendBlock, BlockSender, Delivered, Sending, Receiving
<1> QED
    BY <1>2, <1>3, <1>4 DEF MsgSend

LEMMA ReceiveDelivers ==
    ASSUME IpcInv, NEW q \in Proc, NEW p \in Proc, NEW src \in Source,
           MsgReceive(p, src)
    PROVE  Delivered(q)
<1> USE DEF IpcInv, IpcTypeOK
<1>1. p_flags[p] = {} /\ Runnable(p)
    BY DEF MsgReceive, Runnable
<1>2. CASE ReceiveInt(p, src)
    BY <1>1, <1>2 DEF ReceiveInt, Delivered, Sending, Receiving
<1>3. ASSUME NEW i \in DOMAIN q_sending[p], ReceiveTake(p, src, i)
      PROVE  Delivered(q)
    <2> DEFINE from == q_sending[p][i]
    <2>1. from \in Proc /\ from \in ToSet(q_sending[p])
        BY LenProperties, ElementOfSeq DEF ToSet
    <2>2. Sending(from) /\ p_sendto[from] = p
        BY <2>1 DEF QueueExact
    <2>3. p_flags[from] = {"SENDING"} /\ from # p
        <3> HIDE DEF from
        <3>1. "SENDING" \in p_flags[from]
            BY <2>2 DEF Sending
        <3>2. p_flags[from] \in {{}, {"SENDING"}, {"RECEIVING"}}
            BY <2>1 DEF EntryExact
        <3> QED
            BY <1>1, <3>1, <3>2
    <2>4. /\ buf' = [buf EXCEPT ![p] = buf[from]]
          /\ p_flags' = [p_flags EXCEPT ![from] = p_flags[from] \ {"SENDING"}]
        BY <1>3 DEF ReceiveTake, TakeFrom
    <2> HIDE DEF from
    <2>5. /\ p_flags'[from] = {} /\ \A r \in Proc \ {from} : p_flags'[r] = p_flags[r]
          /\ buf'[p] = buf[from] /\ \A r \in Proc \ {p} : buf'[r] = buf[r]
        BY <2>1, <2>3, <2>4
    <2>6. CASE q = from
        BY <1>1, <2>1, <2>2, <2>3, <2>5, <2>6 DEF Delivered, Sending, Receiving
    <2>7. CASE q # from
        BY <1>1, <2>5, <2>7 DEF Delivered, Sending, Receiving
    <2> QED
        BY <2>6, <2>7
<1>4. CASE ReceiveBlock(p, src)
    BY <1>1, <1>4 DEF ReceiveBlock, BlockReceiver, Delivered, Sending, Receiving
<1> QED
    BY <1>2, <1>3, <1>4 DEF MsgReceive

LEMMA InformDelivers ==
    ASSUME IpcInv, NEW q \in Proc, NEW t \in IntTask, InformInt(t)
    PROVE  Delivered(q)
<1> USE DEF IpcInv, IpcTypeOK
<1>1. CASE InformPend(t)
    BY <1>1 DEF InformPend, Delivered, Sending, Receiving
<1>2. CASE InformWake(t)
    <2>1. /\ t \in Proc /\ p_flags[t] = {"RECEIVING"}
          /\ p_recvfrom[t] \in {INTERRUPT, ANY}
        BY <1>2, ProcAssumption DEF InformWake, Awaits, Receiving, EntryExact
    <2>2. /\ p_flags'[t] = {} /\ \A r \in Proc \ {t} : p_flags'[r] = p_flags[r]
          /\ buf'[t] = IntMessage /\ \A r \in Proc \ {t} : buf'[r] = buf[r]
        BY <1>2, <2>1 DEF InformWake
    <2>3. CASE q = t
        BY <2>1, <2>2, <2>3 DEF Delivered, Sending, IntMessage
    <2>4. CASE q # t
        BY <2>2, <2>4 DEF Delivered, Sending, Receiving
    <2> QED
        BY <2>3, <2>4
<1> QED
    BY <1>1, <1>2 DEF InformInt

(* Messages arrive whole, once and where they were sent, for any set of    *)
(* processes: a sender unblocks only as its message is copied, a receiver  *)
(* only with a message it asked for, and nobody else's buffer is touched.  *)
THEOREM DeliveriesExact == IpcSpec => DeliveryExact
<1> DEFINE All == \A q \in Proc : Delivered(q)
<1>1. IpcInv /\ [IpcNext]_ipcVars => [All]_ipcVars
    BY SendDelivers, ReceiveDelivers, InformDelivers DEF IpcNext
<1>2. [All]_ipcVars =>
        [\A p \in Proc :
          /\ Sending(p) /\ ~Sending(p)' =>
                /\ buf'[p_sendto[p]] = buf[p]
                /\ \A q \in Proc \ {p} : Sending(q) = Sending(q)'
                /\ Runnable(p_sendto[p])
          /\ Receiving(p) /\ ~Receiving(p)' =>
                /\ p_recvfrom[p] \in {ANY, buf'[p].source}
                /\ buf'[p].source = INTERRUPT => buf'[p] = IntMessage
          /\ p_flags[p] # {} /\ p_flags'[p] = p_flags[p] => buf'[p] = buf[p]
        ]_ipcVars
    BY DEF Delivered
<1> QED
    BY <1>1, <1>2, Invariance, PTL DEF IpcSpec, DeliveryExact

-----------------------------------------------------------------------------
(* Ipc implements Rendezvous *)

\* What the flags of a process say it does.
LEMMA DoingIs ==
    ASSUME IpcInv, NEW p \in Proc
    PROVE  /\ Doing(p) = RV!Run <=> p_flags[p] = {}
           /\ \A d : RV!Offers(p, d) <=> Sending(p) /\ p_sendto[p] = d
           /\ \A s : RV!Accepts(p, s) <=> Awaits(p, s)
<1>1. p_flags[p] \in {{}, {"SENDING"}, {"RECEIVING"}}
    BY DEF IpcInv, EntryExact
<1>2. Doing(p) = RV!Run <=> p_flags[p] = {}
    BY <1>1 DEF Doing, RV!Run, Sending, Receiving
<1>3. ASSUME NEW d PROVE RV!Offers(p, d) <=> Sending(p) /\ p_sendto[p] = d
    BY <1>1 DEF Doing, RV!Offers, RV!Offering, Sending, Receiving
<1>4. ASSUME NEW s PROVE RV!Accepts(p, s) <=> Awaits(p, s)
    BY <1>1 DEF Doing, RV!Accepts, RV!Awaiting, Awaits, Sending, Receiving
<1> QED  BY <1>2, <1>3, <1>4

\* The walk of deadlock() finds the circles of offers.
LEMMA DeadlockIsCircle ==
    ASSUME IpcInv, NEW p \in Proc, NEW d \in Proc
    PROVE  Deadlock(p, d) <=> RV!ClosesCircle(p, d)
<1>1. ASSUME NEW S \in SUBSET Proc
      PROVE  (\A q \in S : Sending(q) => p_sendto[q] \in S) <=>
             (\A q \in S, r \in Proc : RV!Offers(q, r) => r \in S)
    <2>1. \A q \in S : Sending(q) => p_sendto[q] \in Proc
        BY DEF IpcInv, IpcTypeOK, EntryExact
    <2>2. \A q \in S, r \in Proc : RV!Offers(q, r) <=> Sending(q) /\ p_sendto[q] = r
        BY DoingIs
    <2> QED  BY <2>1, <2>2
<1> QED  BY <1>1 DEF Deadlock, RV!ClosesCircle

LEMMA InitRefines == IpcInit => RV!Init
<1> SUFFICES ASSUME IpcInit PROVE RV!Init
    OBVIOUS
<1>1. [p \in Proc |-> Doing(p)] = [p \in Proc |-> RV!Run]
    BY DEF IpcInit, Doing, Sending, Receiving, RV!Run
<1>2. buf \in [Proc -> [source : Proc, body : Body]]
    BY DEF IpcInit
<1>3. {p \in Proc : has_int_msg[p]} = {}
    BY DEF IpcInit
<1>4. (halted # "no") = FALSE
    BY DEF IpcInit
<1> QED  BY <1>1, <1>2, <1>3, <1>4 DEF RV!Init

-----------------------------------------------------------------------------
LEMMA SendRefines ==
    ASSUME IpcInv, IpcInv', NEW p \in Proc, NEW d \in Proc, NEW m \in Body,
           MsgSend(p, d, m)
    PROVE  RV!Send(p, d, m)
<1> DEFINE doing == [q \in Proc |-> Doing(q)]
           msg   == [source |-> p, body |-> m]
<1>1. p_flags[p] = {} /\ halted = "no" /\ p # d /\ doing[p] = RV!Run
    BY DoingIs DEF MsgSend, Runnable
<1>2. {q \in Proc : has_int_msg'[q]} = {q \in Proc : has_int_msg[q]}
    BY DEF MsgSend, SendPanic, SendDeliver, SendBlock, BlockSender
<1>3. CASE SendPanic(p, d, m)
    <2>1. RV!ClosesCircle(p, d) /\ (halted' # "no") = TRUE
        BY <1>3, DeadlockIsCircle DEF SendPanic
    <2>2. buf' = [buf EXCEPT ![p] = msg] /\ doing' = doing
        BY <1>3 DEF SendPanic, Doing, Sending, Receiving
    <2> QED  BY <1>1, <1>2, <2>1, <2>2 DEF RV!Send
<1>4. CASE SendDeliver(p, d, m)
    <2>1. ~RV!ClosesCircle(p, d) /\ RV!Accepts(d, p)
        BY <1>4, DeadlockIsCircle, DoingIs DEF SendDeliver
    <2>2. halted' = "no"
        BY <1>1, <1>4 DEF SendDeliver, Asserting, IpcInv, NoAssertFailure
    <2>3. /\ p_flags'[d] = {} /\ p_sendto' = p_sendto
          /\ \A q \in Proc \ {d} : /\ p_flags'[q] = p_flags[q]
                                   /\ p_recvfrom'[q] = p_recvfrom[q]
        BY <1>4 DEF SendDeliver, Awaits, Receiving, IpcInv, IpcTypeOK, EntryExact
    <2>4. doing' = RV!Wake({d})
        BY <2>3 DEF RV!Wake, RV!Run, Doing, Sending, Receiving
    <2>5. buf' = [buf EXCEPT ![p] = msg, ![d] = msg]
        BY <1>4 DEF SendDeliver
    <2>6. (halted' # "no") = (halted # "no")
        BY <1>1, <2>2
    <2> QED  BY <1>1, <1>2, <2>1, <2>4, <2>5, <2>6 DEF RV!Send
<1>5. CASE SendBlock(p, d, m)
    <2>1. ~RV!ClosesCircle(p, d) /\ ~RV!Accepts(d, p)
        BY <1>5, DeadlockIsCircle, DoingIs DEF SendBlock, BlockSender
    <2>2. halted' = "no"
        BY <1>1, <1>5 DEF SendBlock, BlockSender, Asserting, IpcInv, NoAssertFailure
    <2>3. /\ p_flags'[p] = {"SENDING"} /\ p_sendto'[p] = d /\ p_recvfrom' = p_recvfrom
          /\ \A q \in Proc \ {p} : /\ p_flags'[q] = p_flags[q]
                                   /\ p_sendto'[q] = p_sendto[q]
        BY <1>1, <1>5 DEF SendBlock, BlockSender, IpcInv, IpcTypeOK
    <2>4. doing' = [doing EXCEPT ![p] = RV!Offering(d)]
        BY <2>3 DEF RV!Offering, Doing, Sending, Receiving
    <2>5. buf' = [buf EXCEPT ![p] = msg]
        BY <1>5 DEF SendBlock, BlockSender
    <2>6. (halted' # "no") = (halted # "no")
        BY <1>1, <2>2
    <2> QED  BY <1>1, <1>2, <2>1, <2>4, <2>5, <2>6 DEF RV!Send
<1> QED  BY <1>3, <1>4, <1>5 DEF MsgSend

-----------------------------------------------------------------------------
\* Whoever offers a message that p would take stands where Picks finds it.
LEMMA OffersArePicked ==
    ASSUME IpcInv, NEW p \in Proc, NEW src \in Source, NEW q \in Proc,
           Sending(q), p_sendto[q] = p, src \in {q, ANY}
    PROVE  \E i \in DOMAIN q_sending[p] : Picks(p, src, i)
<1>1. q_sending[p] \in Seq(Proc) /\ q \in ToSet(q_sending[p])
    BY DEF IpcInv, IpcTypeOK, QueueExact
<1>2. PICK j \in DOMAIN q_sending[p] : q_sending[p][j] = q
    BY <1>1 DEF ToSet
<1>3. 1 \in DOMAIN q_sending[p]
    BY <1>1, <1>2, LenProperties
<1> QED  BY <1>2, <1>3, SentinelAssumption DEF Picks

LEMMA ReceiveRefines ==
    ASSUME IpcInv, IpcInv', NEW p \in Proc, NEW src \in Source, MsgReceive(p, src)
    PROVE  RV!Receive(p, src)
<1> DEFINE doing   == [q \in Proc |-> Doing(q)]
           pending == {q \in Proc : has_int_msg[q]}
<1>1. p_flags[p] = {} /\ halted = "no" /\ p # src /\ doing[p] = RV!Run
    BY DoingIs DEF MsgReceive, Runnable
<1>2. RV!Heard(p, src) <=> TakesInt(p, src)
    BY DEF RV!Heard, TakesInt
<1>3. \A q \in Proc : q \in RV!Offered(p, src) <=>
                        Sending(q) /\ p_sendto[q] = p /\ src \in {q, ANY}
    BY DoingIs DEF RV!Offered
<1>4. (halted' # "no") = (halted # "no")
    BY <1>1 DEF MsgReceive, ReceiveInt, ReceiveTake, TakeFrom, ReceiveBlock,
                BlockReceiver, Asserting, IpcInv, NoAssertFailure
<1>5. CASE ReceiveInt(p, src)
    <2>1. RV!Heard(p, src)
        BY <1>2, <1>5 DEF ReceiveInt
    <2>2. buf' = [buf EXCEPT ![p] = [source |-> INTERRUPT, body |-> HARD_INT]]
        BY <1>5 DEF ReceiveInt, IntMessage
    <2>3. pending' = pending \ {p}
        BY <1>5 DEF ReceiveInt, IpcInv, IpcTypeOK
    <2>4. doing' = doing
        BY <1>5 DEF ReceiveInt, Doing, Sending, Receiving
    <2> QED  BY <1>1, <1>4, <2>1, <2>2, <2>3, <2>4 DEF RV!Receive
<1>6. ASSUME NEW i \in DOMAIN q_sending[p], ReceiveTake(p, src, i)
      PROVE  RV!Receive(p, src)
    <2> DEFINE from == q_sending[p][i]
    <2>1. from \in Proc /\ from \in ToSet(q_sending[p])
        BY ElementOfSeq, LenProperties DEF IpcInv, IpcTypeOK, ToSet
    <2>2. Sending(from) /\ p_sendto[from] = p /\ src \in {from, ANY}
        BY <1>6, <2>1 DEF IpcInv, QueueExact, ReceiveTake, Picks
    <2>3. /\ ~RV!Heard(p, src)
          /\ buf' = [buf EXCEPT ![p] = buf[from]]
          /\ p_flags' = [p_flags EXCEPT ![from] = p_flags[from] \ {"SENDING"}]
          /\ p_sendto' = [p_sendto EXCEPT ![from] = NO_TASK]
          /\ UNCHANGED <<p_recvfrom, has_int_msg>>
        BY <1>2, <1>6, <2>1 DEF ReceiveTake, TakeFrom, IpcInv, IpcTypeOK
    <2> HIDE DEF from
    <2>4. from \in RV!Offered(p, src)
        BY <1>3, <2>1, <2>2
    <2>5. /\ p_flags'[from] = {}
          /\ \A q \in Proc \ {from} : /\ p_flags'[q] = p_flags[q]
                                      /\ p_sendto'[q] = p_sendto[q]
        <3>1. p_flags[from] = {"SENDING"}
            BY <2>1, <2>2 DEF Sending, IpcInv, EntryExact
        <3> QED  BY <2>1, <2>3, <3>1 DEF IpcInv, IpcTypeOK
    <2>6. doing' = RV!Wake({from})
        BY <2>3, <2>5 DEF RV!Wake, RV!Run, Doing, Sending, Receiving
    <2>7. pending' = pending
        BY <2>3
    <2> QED  BY <1>1, <1>4, <2>3, <2>4, <2>6, <2>7 DEF RV!Receive
<1>7. CASE ReceiveBlock(p, src)
    <2>1. ~RV!Heard(p, src)
        BY <1>2, <1>7 DEF ReceiveBlock
    <2>2. RV!Offered(p, src) = {}
        BY <1>3, <1>7, OffersArePicked DEF ReceiveBlock, RV!Offered
    <2>3. /\ p_flags'[p] = {"RECEIVING"} /\ p_recvfrom'[p] = src /\ p_sendto' = p_sendto
          /\ \A q \in Proc \ {p} : /\ p_flags'[q] = p_flags[q]
                                   /\ p_recvfrom'[q] = p_recvfrom[q]
        BY <1>1, <1>7 DEF ReceiveBlock, BlockReceiver, IpcInv, IpcTypeOK
    <2>4. doing' = [doing EXCEPT ![p] = RV!Awaiting(src)]
        <3>1. Doing(p)' = RV!Awaiting(src)
            BY <2>3 DEF RV!Awaiting, Doing, Sending, Receiving
        <3>2. \A q \in Proc \ {p} : Doing(q)' = Doing(q)
            BY <2>3 DEF Doing, Sending, Receiving
        <3> QED  BY <3>1, <3>2
    <2>5. buf' = [buf EXCEPT ![p].source = p] /\ pending' = pending
        BY <1>7 DEF ReceiveBlock, BlockReceiver
    <2> QED  BY <1>1, <1>4, <2>1, <2>2, <2>4, <2>5 DEF RV!Receive
<1> QED  BY <1>5, <1>6, <1>7 DEF MsgReceive

-----------------------------------------------------------------------------
LEMMA InterruptRefines ==
    ASSUME IpcInv, IpcInv', NEW t \in IntTask, InformInt(t)
    PROVE  RV!Interrupt(t)
<1> DEFINE doing   == [q \in Proc |-> Doing(q)]
           pending == {q \in Proc : has_int_msg[q]}
<1>1. t \in Proc /\ (RV!Accepts(t, INTERRUPT) <=> Awaits(t, INTERRUPT))
    BY ProcAssumption, DoingIs
<1>2. (halted' # "no") = (halted # "no")
    BY DEF InformInt, InformWake, InformPend, Asserting, IpcInv, NoAssertFailure
<1>3. CASE InformWake(t)
    <2>1. /\ p_flags'[t] = {} /\ p_sendto' = p_sendto
          /\ \A q \in Proc \ {t} : /\ p_flags'[q] = p_flags[q]
                                   /\ p_recvfrom'[q] = p_recvfrom[q]
        BY <1>1, <1>3 DEF InformWake, Awaits, Receiving, IpcInv, IpcTypeOK, EntryExact
    <2>2. doing' = RV!Wake({t})
        BY <2>1 DEF RV!Wake, RV!Run, Doing, Sending, Receiving
    \* A task that awaits its interrupt has none pending.
    <2>3. pending' = pending
        BY <1>1, <1>3 DEF InformWake, IpcInv, IpcTypeOK, NoMissedRendezvous
    <2>4. buf' = [buf EXCEPT ![t] = [source |-> INTERRUPT, body |-> HARD_INT]]
        BY <1>3 DEF InformWake, IntMessage
    <2> QED  BY <1>1, <1>2, <1>3, <2>2, <2>3, <2>4 DEF RV!Interrupt, InformWake
<1>4. CASE InformPend(t)
    <2>1. pending' = pending \cup {t}
        BY <1>1, <1>4 DEF InformPend, IpcInv, IpcTypeOK
    <2>2. doing' = doing /\ buf' = buf
        BY <1>4 DEF InformPend, Doing, Sending, Receiving
    <2> QED  BY <1>1, <1>2, <1>4, <2>1, <2>2 DEF RV!Interrupt, InformPend
<1> QED  BY <1>3, <1>4 DEF InformInt

(* Every step of Ipc is a step of Rendezvous or leaves its variables.      *)
LEMMA StepRefines ==
    ASSUME IpcInv, IpcInv', [IpcNext]_ipcVars
    PROVE  [RV!Next]_(RV!rvVars)
<1>1. ASSUME NEW p \in Proc, NEW d \in Proc, NEW m \in Body, MsgSend(p, d, m)
      PROVE  RV!Next
    <2>1. ~(halted # "no")
        BY <1>1 DEF MsgSend, Runnable
    <2> QED  BY <1>1, <2>1, SendRefines DEF RV!Next
<1>2. ASSUME NEW p \in Proc, NEW src \in Source, MsgReceive(p, src)
      PROVE  RV!Next
    <2>1. ~(halted # "no")
        BY <1>2 DEF MsgReceive, Runnable
    <2>2. RV!Receive(p, src)
        BY <1>2, ReceiveRefines
    <2> QED  BY <2>1, <2>2 DEF RV!Next, Source
<1>3. ASSUME NEW t \in IntTask, InformInt(t)
      PROVE  RV!Next
    <2>1. ~(halted # "no")
        BY <1>3 DEF InformInt
    <2> QED  BY <1>3, <2>1, InterruptRefines DEF RV!Next
<1>4. CASE UNCHANGED ipcVars
    BY <1>4 DEF ipcVars, RV!rvVars, Doing, Sending, Receiving
<1> QED  BY <1>1, <1>2, <1>3, <1>4 DEF IpcNext

(* The system calls of proc.c implement the rendezvous they promise: for   *)
(* any set of processes, messages meet in one step, interrupts are heard   *)
(* or stay pending, and only a circle of offers halts the kernel.          *)
THEOREM IpcImplementsRendezvous == IpcSpec => RV!Spec
BY InitRefines, StepRefines, StepInv, Invariance, PTL DEF IpcSpec, RV!Spec

-----------------------------------------------------------------------------
(* IpcList implements Ipc *)

\* A set of numbers has a least one.
LEMMA LeastIndex ==
    ASSUME NEW S, S \subseteq Nat, S # {}
    PROVE  \E x \in S : \A y \in S : x <= y
<1> DEFINE R == StrictSubsetOrdering(Nat)
           T == {0..n : n \in S}
<1>1. T # {} /\ T \subseteq FiniteSubsetsOf(Nat)
    <2>1. ASSUME NEW n \in S PROVE 0..n \in FiniteSubsetsOf(Nat)
        <3>1. IsFiniteSet(0..n)
            BY FS_Interval, 0 \in Int, n \in Int
        <3> QED  BY <3>1 DEF FiniteSubsetsOf
    <2> QED  BY <2>1
<1>2. PICK X \in T : \A Y \in T : <<Y, X>> \notin R
    BY <1>1, WFMin, FS_StrictSubsetOrderingWellFounded
<1>3. PICK x \in S : X = 0..x
    BY <1>2
<1>4. ASSUME NEW y \in S PROVE x <= y
    <2>1. SUFFICES ASSUME y < x PROVE FALSE
        BY <1>3
    <2>2. 0..y \subseteq 0..x /\ 0..y # 0..x
        BY <2>1
    <2>3. <<0..y, 0..x>> \in R
        BY <2>2 DEF StrictSubsetOrdering
    <2> QED  BY <2>3, <1>3, <1>2
<1> QED  BY <1>4

\* What the invariants say of the processes in the queue of d.
LEMMA InQueue ==
    ASSUME IpcInv, NEW d \in Proc
    PROVE  /\ q_sending[d] \in Seq(Proc) /\ Len(q_sending[d]) \in Nat
           /\ DOMAIN q_sending[d] = 1..Len(q_sending[d])
           /\ \A i \in DOMAIN q_sending[d] :
                 /\ q_sending[d][i] \in Proc
                 /\ Sending(q_sending[d][i]) /\ p_sendto[q_sending[d][i]] = d
           /\ \A i, j \in DOMAIN q_sending[d] :
                 q_sending[d][i] = q_sending[d][j] => i = j
           /\ \A p \in Proc : Sending(p) /\ p_sendto[p] = d =>
                 \E i \in DOMAIN q_sending[d] : q_sending[d][i] = p
<1> DEFINE q == q_sending[d]
<1>1. q \in Seq(Proc) /\ Len(q) \in Nat /\ DOMAIN q = 1..Len(q)
    BY LenProperties DEF IpcInv, IpcTypeOK
<1>2. IsInjective(q) /\ ToSet(q) = {p \in Proc : Sending(p) /\ p_sendto[p] = d}
    BY DEF IpcInv, QueueExact
<1>3. \A i \in DOMAIN q : q[i] \in ToSet(q)
    BY DEF ToSet
<1>4. \A p \in ToSet(q) : \E i \in DOMAIN q : q[i] = p
    BY DEF ToSet
<1>5. \A i, j \in DOMAIN q : q[i] = q[j] => i = j
    BY <1>2 DEF IsInjective
<1> QED  BY <1>1, <1>2, <1>3, <1>4, <1>5

\* The walk meets exactly the senders in the queue.
LEMMA WalkIs ==
    ASSUME IpcInv, ListExact, NEW d \in Proc
    PROVE  \A p : p \in Walk(d) <=>
                     \E i \in DOMAIN q_sending[d] : q_sending[d][i] = p
<1> DEFINE q == q_sending[d]
<1>1. /\ q \in Seq(Proc) /\ Len(q) \in Nat /\ DOMAIN q = 1..Len(q)
      /\ \A i \in DOMAIN q : q[i] \in Proc
    BY InQueue
<1>2. /\ first[d] = IF q = <<>> THEN NULL ELSE q[1]
      /\ \A i \in DOMAIN q :
            next_sending[q[i]] = IF i = Len(q) THEN NULL ELSE q[i + 1]
    BY DEF InOrder, ListExact, Spells
<1>3. q # <<>> => 1 \in DOMAIN q
    BY <1>1, EmptySeq
<1> HIDE DEF q
<1>4. ASSUME NEW p \in Walk(d) PROVE \E i \in DOMAIN q : q[i] = p
    <2> DEFINE S == {q[i] : i \in DOMAIN q}
    <2>1. S \in SUBSET Proc
        BY <1>1
    <2>2. first[d] \in S \cup {NULL}
        BY <1>2, <1>3
    <2>3. ASSUME NEW i \in DOMAIN q PROVE next_sending[q[i]] \in S \cup {NULL}
        <3>1. i # Len(q) => i + 1 \in DOMAIN q
            BY <1>1
        <3> QED  BY <3>1, <1>2
    <2>4. p \in S
        BY <2>1, <2>2, <2>3 DEF Walk
    <2> QED  BY <2>4
<1>5. ASSUME NEW k \in DOMAIN q PROVE q[k] \in Walk(d)
    <2> SUFFICES ASSUME NEW S \in SUBSET Proc, first[d] \in S \cup {NULL},
                        \A r \in S : next_sending[r] \in S \cup {NULL},
                        q[k] \notin S
                 PROVE  FALSE
        BY <1>1 DEF Walk
    <2> DEFINE Missed == {i \in DOMAIN q : q[i] \notin S}
    <2>1. Missed \subseteq Nat /\ Missed # {}
        BY <1>1
    <2>2. PICK i \in Missed : \A j \in Missed : i <= j
        BY <2>1, LeastIndex
    <2>3. CASE i = 1
        BY <2>3, <1>1, <1>2, NullAssumption
    <2>4. CASE i # 1
        <3>1. i - 1 \in DOMAIN q /\ i - 1 # Len(q) /\ (i - 1) + 1 = i /\ ~(i <= i - 1)
            BY <2>4, <1>1
        <3>2. q[i - 1] \in S
            BY <3>1, <2>2
        <3>3. next_sending[q[i - 1]] = q[i]
            BY <3>1, <1>2
        <3> QED  BY <3>2, <3>3, <1>1, NullAssumption
    <2> QED  BY <2>3, <2>4
<1> QED  BY <1>4, <1>5 DEF q

LEMMA ListInitExact == ListInit => ListExact
<1> SUFFICES ASSUME ListInit PROVE ListExact
    OBVIOUS
<1>1. \A d \in Proc : q_sending[d] = <<>> /\ DOMAIN q_sending[d] = {}
    BY DEF ListInit, IpcInit
<1> QED  BY <1>1 DEF ListInit, ListExact, InOrder, Spells

\* A step that leaves the lists, the queues and the senders leaves them exact.
LEMMA ListKept ==
    ASSUME ListExact, UNCHANGED lists, UNCHANGED q_sending,
           \A p \in Proc : Sending(p) => Sending(p)'
    PROVE  ListExact'
BY DEF InOrder, ListExact, Spells, lists

(* The walk of msg_send ends at the process that came last, and the new    *)
(* sender goes behind it.                                                  *)
LEMMA AppendExact ==
    ASSUME IpcInv, ListExact, NEW p \in Proc, NEW d \in Proc, ~Sending(p),
           AppendToList(d, p),
           q_sending' = [q_sending EXCEPT ![d] = Append(q_sending[d], p)],
           \A r \in Proc : Sending(r)' <=> Sending(r) \/ r = p
    PROVE  ListExact'
<1> DEFINE q == q_sending[d]
           a == Append(q, p)
<1>1. /\ q \in Seq(Proc) /\ Len(q) \in Nat /\ DOMAIN q = 1..Len(q)
      /\ \A i \in DOMAIN q : q[i] \in Proc /\ q[i] # p
      /\ \A i, j \in DOMAIN q : q[i] = q[j] => i = j
    BY InQueue
<1>2. /\ first[d] = IF q = <<>> THEN NULL ELSE q[1]
      /\ \A i \in DOMAIN q :
            next_sending[q[i]] = IF i = Len(q) THEN NULL ELSE q[i + 1]
    BY DEF InOrder, ListExact, Spells
<1>3. /\ Len(a) = Len(q) + 1 /\ a # <<>> /\ DOMAIN a = 1..(Len(q) + 1)
      /\ \A i \in 1..Len(q) : a[i] = q[i]
      /\ a[Len(q) + 1] = p
    BY <1>1, AppendProperties, LenProperties
<1>4. /\ q_sending \in [Proc -> Seq(Proc)]
      /\ first \in [Proc -> Proc \cup {NULL}]
      /\ next_sending \in [Proc -> Proc \cup {NULL}]
    BY DEF IpcInv, IpcTypeOK, ListExact
<1>5. q_sending'[d] = a /\ \A e \in Proc \ {d} : q_sending'[e] = q_sending[e]
    BY <1>4
<1>6. \A e \in Proc \ {d} : \A i \in DOMAIN q_sending[e] :
          /\ q_sending[e][i] \in Proc /\ q_sending[e][i] # p
          /\ \A j \in DOMAIN q : q_sending[e][i] # q[j]
    BY InQueue
<1>7. \A e \in Proc \ {d} : Spells(e, q_sending[e])
    BY DEF InOrder, ListExact
<1>8. next_sending[p] = NULL
    BY DEF InOrder, ListExact
<1>9. \A j \in DOMAIN q : Sending(q[j])
    BY InQueue
<1> HIDE DEF q, a
<1>10. CASE q = <<>>
    <2>1. /\ first' = [first EXCEPT ![d] = p]
          /\ next_sending' = [next_sending EXCEPT ![p] = NULL]
        BY <1>10, <1>2 DEF AppendToList
    <2>2. next_sending' = next_sending
        BY <2>1, <1>4, <1>8
    <2>3. Len(q) = 0
        BY <1>10
    <2>4. Spells(d, q_sending[d])'
        <3>1. first'[d] = p /\ a[1] = p /\ DOMAIN a = {1} /\ Len(a) = 1
            BY <2>1, <2>3, <1>3, <1>4
        <3>2. \A i \in DOMAIN a : i = Len(a) /\ next_sending'[a[i]] = NULL
            BY <3>1, <2>2, <1>8
        <3> QED  BY <3>1, <3>2, <1>3, <1>5 DEF Spells
    <2>5. ASSUME NEW e \in Proc \ {d} PROVE Spells(e, q_sending[e])'
        <3>1. first'[e] = first[e] /\ q_sending'[e] = q_sending[e]
            BY <2>1, <1>4, <1>5
        <3> QED  BY <3>1, <2>2, <1>7 DEF Spells
    <2>6. \A r \in Proc : ~Sending(r)' => next_sending'[r] = NULL
        BY <2>2 DEF InOrder, ListExact
    <2>7. first' \in [Proc -> Proc \cup {NULL}]
        BY <2>1, <1>4
    <2> QED
        BY <2>2, <2>4, <2>5, <2>6, <2>7, <1>4 DEF InOrder, ListExact
<1>11. CASE q # <<>>
    <2> DEFINE tail == q[Len(q)]
    <2>1. Len(q) \in DOMAIN q /\ 1 \in DOMAIN q
        BY <1>11, <1>1, EmptySeq
    <2>2. tail \in Walk(d) /\ next_sending[tail] = NULL
        BY <2>1, <1>2, WalkIs DEF q
    <2>3. ASSUME NEW r \in Walk(d), next_sending[r] = NULL PROVE r = tail
        <3>1. PICK i \in DOMAIN q : q[i] = r
            BY WalkIs DEF q
        <3>2. i # Len(q) => i + 1 \in DOMAIN q
            BY <1>1
        <3> QED  BY <2>3, <3>1, <3>2, <1>1, <1>2, NullAssumption
    <2>4. (CHOOSE r \in Walk(d) : next_sending[r] = NULL) = tail
        BY <2>2, <2>3
    <2>5. first[d] # NULL
        BY <1>11, <1>1, <1>2, <2>1, NullAssumption
    <2>6. /\ next_sending' = [next_sending EXCEPT ![tail] = p, ![p] = NULL]
          /\ first' = first
        BY <2>4, <2>5 DEF AppendToList
    <2>7. tail \in Proc /\ tail # p
        BY <2>1, <1>1
    <2> HIDE DEF tail
    <2>8. /\ next_sending'[p] = NULL /\ next_sending'[tail] = p
          /\ \A r \in Proc \ {p, tail} : next_sending'[r] = next_sending[r]
          /\ next_sending' \in [Proc -> Proc \cup {NULL}]
        BY <2>6, <2>7, <1>4
    <2>9. Spells(d, q_sending[d])'
        <3>1. first'[d] = a[1]
            BY <2>1, <2>6, <1>1, <1>2, <1>3, <1>11
        <3>2. ASSUME NEW i \in DOMAIN a
              PROVE  next_sending'[a[i]] = IF i = Len(a) THEN NULL ELSE a[i + 1]
            <4>1. CASE i = Len(q) + 1
                BY <4>1, <1>3, <2>8
            <4>2. CASE i = Len(q)
                BY <4>2, <1>1, <1>3, <2>1, <2>8 DEF tail
            <4>3. CASE i < Len(q)
                <5>1. i \in DOMAIN q /\ i + 1 \in DOMAIN q /\ i # Len(q) /\ i # Len(a)
                    BY <4>3, <1>1, <1>3
                <5>2. q[i] \in Proc \ {p, tail}
                    BY <5>1, <1>1, <2>1 DEF tail
                <5> QED  BY <5>1, <5>2, <2>8, <1>1, <1>2, <1>3
            <4> QED  BY <4>1, <4>2, <4>3, <1>1, <1>3
        <3> QED  BY <3>1, <3>2, <1>3, <1>5 DEF Spells
    <2>10. ASSUME NEW e \in Proc \ {d} PROVE Spells(e, q_sending[e])'
        <3>1. \A i \in DOMAIN q_sending[e] :
                  next_sending'[q_sending[e][i]] = next_sending[q_sending[e][i]]
            BY <2>1, <2>8, <1>6 DEF tail
        <3>2. first'[e] = first[e] /\ q_sending'[e] = q_sending[e]
            BY <2>6, <1>5
        <3> QED  BY <3>1, <3>2, <1>7 DEF Spells
    <2>11. \A r \in Proc : ~Sending(r)' => next_sending'[r] = NULL
        BY <2>1, <2>8, <1>9 DEF InOrder, ListExact, tail
    <2> QED
        BY <2>6, <2>8, <2>9, <2>10, <2>11, <1>4 DEF InOrder, ListExact
<1> QED  BY <1>10, <1>11

(* msg_receive takes the sender out of any place in the list, and those    *)
(* before and behind it stay linked.                                       *)
LEMMA UnlinkExact ==
    ASSUME IpcInv, ListExact, NEW p \in Proc, NEW i \in DOMAIN q_sending[p],
           UnlinkFrom(p, q_sending[p][i]),
           q_sending' = [q_sending EXCEPT ![p] = RemoveAt(q_sending[p], i)],
           \A r \in Proc : Sending(r)' <=> Sending(r) /\ r # q_sending[p][i]
    PROVE  ListExact'
<1> DEFINE q    == q_sending[p]
           from == q[i]
           rest == RemoveAt(q, i)
<1>1. /\ q \in Seq(Proc) /\ Len(q) \in Nat /\ DOMAIN q = 1..Len(q)
      /\ \A j \in DOMAIN q : q[j] \in Proc
      /\ \A j, k \in DOMAIN q : q[j] = q[k] => j = k
    BY InQueue
<1>2. /\ first[p] = IF q = <<>> THEN NULL ELSE q[1]
      /\ \A j \in DOMAIN q :
            next_sending[q[j]] = IF j = Len(q) THEN NULL ELSE q[j + 1]
    BY DEF InOrder, ListExact, Spells
<1>3. /\ Len(rest) = Len(q) - 1 /\ DOMAIN rest = 1..(Len(q) - 1)
      /\ \A j \in 1..(Len(q) - 1) : rest[j] = IF j < i THEN q[j] ELSE q[j + 1]
      /\ rest = <<>> <=> Len(q) = 1
    <2>1. /\ rest \in Seq(Proc) /\ Len(rest) = Len(q) - 1
          /\ \A j \in 1..(Len(q) - 1) : rest[j] = IF j < i THEN q[j] ELSE q[j + 1]
        BY <1>1, RemoveAtProperties
    <2>2. DOMAIN rest = 1..(Len(q) - 1)
        BY <2>1, LenProperties
    <2>3. rest = <<>> <=> Len(rest) = 0
        BY <2>1, EmptySeq
    <2> QED  BY <2>1, <2>2, <2>3, <1>1
<1>4. /\ q_sending \in [Proc -> Seq(Proc)]
      /\ first \in [Proc -> Proc \cup {NULL}]
      /\ next_sending \in [Proc -> Proc \cup {NULL}]
    BY DEF IpcInv, IpcTypeOK, ListExact
<1>5. q_sending'[p] = rest /\ \A e \in Proc \ {p} : q_sending'[e] = q_sending[e]
    BY <1>4
<1>6. \A e \in Proc \ {p} : \A k \in DOMAIN q_sending[e] :
          /\ q_sending[e][k] \in Proc
          /\ \A j \in DOMAIN q : q_sending[e][k] # q[j]
    BY InQueue
<1>7. \A e \in Proc \ {p} : Spells(e, q_sending[e])
    BY DEF InOrder, ListExact
<1>8. \A j \in DOMAIN q : Sending(q[j])
    BY InQueue
<1>9. i \in DOMAIN q /\ i \in 1..Len(q) /\ from \in Proc /\ 1 \in DOMAIN q /\ q # <<>>
    BY <1>1, EmptySeq
<1>10. next_sending[from] = IF i = Len(q) THEN NULL ELSE q[i + 1]
    BY <1>2, <1>9
<1> HIDE DEF q, rest
<1>11. CASE i = 1
    <2>1. first[p] = from
        BY <1>2, <1>9, <1>11
    <2>2. /\ first' = [first EXCEPT ![p] = next_sending[from]]
          /\ next_sending' = [next_sending EXCEPT ![from] = NULL]
        BY <2>1 DEF UnlinkFrom, q
    <2>3. next_sending[from] \in Proc \cup {NULL}
        BY <1>4, <1>9
    <2> HIDE DEF from
    <2>4. /\ first'[p] = next_sending[from]
          /\ \A e \in Proc \ {p} : first'[e] = first[e]
          /\ first' \in [Proc -> Proc \cup {NULL}]
          /\ next_sending'[from] = NULL
          /\ \A r \in Proc \ {from} : next_sending'[r] = next_sending[r]
          /\ next_sending' \in [Proc -> Proc \cup {NULL}]
        BY <2>2, <2>3, <1>4, <1>9
    <2>5. Spells(p, q_sending[p])'
        <3>1. first'[p] = IF rest = <<>> THEN NULL ELSE rest[1]
            BY <2>4, <1>1, <1>3, <1>9, <1>10, <1>11
        <3>2. ASSUME NEW j \in DOMAIN rest
              PROVE  next_sending'[rest[j]] = IF j = Len(rest) THEN NULL ELSE rest[j + 1]
            <4>1. /\ j + 1 \in DOMAIN q /\ rest[j] = q[j + 1] /\ j + 1 # i
                  /\ j # Len(rest) => rest[j + 1] = q[(j + 1) + 1]
                  /\ j = Len(rest) <=> j + 1 = Len(q)
                BY <1>1, <1>3, <1>11
            <4>2. q[j + 1] \in Proc \ {from}
                BY <4>1, <1>1, <1>9 DEF from
            <4> QED  BY <4>1, <4>2, <2>4, <1>2
        <3> QED  BY <3>1, <3>2, <1>5 DEF Spells
    <2>6. ASSUME NEW e \in Proc \ {p} PROVE Spells(e, q_sending[e])'
        <3>1. \A k \in DOMAIN q_sending[e] :
                  next_sending'[q_sending[e][k]] = next_sending[q_sending[e][k]]
            BY <2>4, <1>6, <1>9 DEF from
        <3> QED  BY <3>1, <2>4, <1>5, <1>7 DEF Spells
    <2>7. \A r \in Proc : ~Sending(r)' => next_sending'[r] = NULL
        BY <2>4 DEF InOrder, ListExact, from, q
    <2> QED  BY <2>4, <2>5, <2>6, <2>7 DEF InOrder, ListExact
<1>12. CASE i # 1
    <2> DEFINE prev == q[i - 1]
    <2>1. i - 1 \in DOMAIN q /\ i - 1 # Len(q) /\ (i - 1) + 1 = i
        BY <1>1, <1>9, <1>12
    <2>2. first[p] = q[1] /\ first[p] # from
        BY <1>1, <1>2, <1>9, <1>12
    <2>3. prev \in Walk(p) /\ next_sending[prev] = from
        BY <2>1, <1>2, WalkIs DEF q
    <2>4. ASSUME NEW r \in Walk(p), next_sending[r] = from PROVE r = prev
        <3>1. PICK j \in DOMAIN q : q[j] = r
            BY WalkIs DEF q
        <3>2. j # Len(q) /\ q[j + 1] = from
            BY <2>4, <3>1, <1>2, <1>9, NullAssumption
        <3>3. j + 1 \in DOMAIN q
            BY <3>2, <1>1
        <3>4. j + 1 = i
            BY <3>2, <3>3, <1>1, <1>9
        <3> QED  BY <3>1, <3>4, <1>1
    <2>5. (CHOOSE r \in Walk(p) : next_sending[r] = from) = prev
        BY <2>3, <2>4
    <2>6. /\ next_sending' = [next_sending EXCEPT
                 ![prev] = next_sending[from], ![from] = NULL]
          /\ first' = first
        BY <2>2, <2>5 DEF UnlinkFrom, q
    <2>7. prev \in Proc /\ prev # from /\ next_sending[from] \in Proc \cup {NULL}
        BY <2>1, <1>1, <1>4, <1>9
    <2> HIDE DEF prev, from
    <2>8. /\ next_sending'[from] = NULL /\ next_sending'[prev] = next_sending[from]
          /\ \A r \in Proc \ {from, prev} : next_sending'[r] = next_sending[r]
          /\ next_sending' \in [Proc -> Proc \cup {NULL}]
        BY <2>6, <2>7, <1>4, <1>9
    <2>9. Spells(p, q_sending[p])'
        <3>1. first'[p] = IF rest = <<>> THEN NULL ELSE rest[1]
            BY <2>2, <2>6, <1>1, <1>3, <1>9, <1>12
        <3>2. ASSUME NEW j \in DOMAIN rest
              PROVE  next_sending'[rest[j]] = IF j = Len(rest) THEN NULL ELSE rest[j + 1]
            <4>1. CASE j = i - 1
                <5>1. rest[j] = prev
                    BY <4>1, <1>1, <1>3, <1>9 DEF prev
                <5>2. j # Len(rest) => i # Len(q) /\ rest[j + 1] = q[i + 1]
                    BY <4>1, <1>1, <1>3, <1>9
                <5>3. j = Len(rest) => i = Len(q)
                    BY <4>1, <1>1, <1>3, <1>9
                <5> QED  BY <5>1, <5>2, <5>3, <2>8, <1>10
            <4>2. CASE j < i - 1
                <5>1. /\ j \in DOMAIN q /\ rest[j] = q[j] /\ rest[j + 1] = q[j + 1]
                      /\ j # Len(rest) /\ j # Len(q) /\ j # i /\ j # i - 1
                    BY <4>2, <1>1, <1>3, <1>9
                <5>2. q[j] \in Proc \ {from, prev}
                    BY <5>1, <2>1, <1>1, <1>9 DEF from, prev
                <5> QED  BY <5>1, <5>2, <2>8, <1>2
            <4>3. CASE j > i - 1
                <5>1. /\ j + 1 \in DOMAIN q /\ rest[j] = q[j + 1]
                      /\ j + 1 # i /\ j + 1 # i - 1
                      /\ j # Len(rest) => rest[j + 1] = q[(j + 1) + 1]
                      /\ j = Len(rest) <=> j + 1 = Len(q)
                    BY <4>3, <1>1, <1>3, <1>9
                <5>2. q[j + 1] \in Proc \ {from, prev}
                    BY <5>1, <2>1, <1>1, <1>9 DEF from, prev
                <5> QED  BY <5>1, <5>2, <2>8, <1>2
            <4> QED  BY <4>1, <4>2, <4>3, <1>1, <1>3, <1>9
        <3> QED  BY <3>1, <3>2, <1>5 DEF Spells
    <2>10. ASSUME NEW e \in Proc \ {p} PROVE Spells(e, q_sending[e])'
        <3>1. \A k \in DOMAIN q_sending[e] :
                  next_sending'[q_sending[e][k]] = next_sending[q_sending[e][k]]
            BY <2>1, <2>8, <1>6, <1>9 DEF from, prev
        <3>2. first'[e] = first[e] /\ q_sending'[e] = q_sending[e]
            BY <2>6, <1>5
        <3> QED  BY <3>1, <3>2, <1>7 DEF Spells
    <2>11. \A r \in Proc : ~Sending(r)' => next_sending'[r] = NULL
        <3>1. Sending(prev)
            BY <2>1, <1>8 DEF prev
        <3> QED  BY <3>1, <2>7, <2>8 DEF InOrder, ListExact, from, q
    <2>12. first' \in [Proc -> Proc \cup {NULL}]
        BY <2>6, <1>4
    <2> QED  BY <2>8, <2>9, <2>10, <2>11, <2>12 DEF InOrder, ListExact
<1> QED  BY <1>11, <1>12

-----------------------------------------------------------------------------
LEMMA ListSendStep ==
    ASSUME IpcInv, ListExact, NEW p \in Proc, NEW d \in Proc, NEW m \in Body,
           ListSend(p, d, m)
    PROVE  MsgSend(p, d, m) /\ ListExact'
<1>1. MsgSend(p, d, m)
    BY DEF ListSend, MsgSend
<1>2. p_flags \in [Proc -> SUBSET Flag] /\ p_flags[p] = {}
    BY DEF IpcInv, IpcTypeOK, ListSend, Runnable
<1>3. CASE UNCHANGED lists /\ SendPanic(p, d, m)
    BY <1>1, <1>3, ListKept DEF SendPanic, Sending
<1>4. CASE UNCHANGED lists /\ SendDeliver(p, d, m)
    <2>1. p_flags' = [p_flags EXCEPT ![d] = @ \ {"RECEIVING"}] /\ UNCHANGED q_sending
        BY <1>4 DEF SendDeliver
    <2>2. \A r \in Proc : Sending(r) => Sending(r)'
        BY <2>1, <1>2 DEF Sending
    <2> QED  BY <1>1, <1>4, <2>1, <2>2, ListKept
<1>5. CASE SendBlock(p, d, m) /\ AppendToList(d, p)
    <2>1. /\ p_flags' = [p_flags EXCEPT ![p] = @ \cup {"SENDING"}]
          /\ q_sending' = [q_sending EXCEPT ![d] = Append(q_sending[d], p)]
        BY <1>5 DEF SendBlock, BlockSender
    <2>2. ~Sending(p) /\ \A r \in Proc : Sending(r)' <=> Sending(r) \/ r = p
        BY <2>1, <1>2 DEF Sending
    <2> QED  BY <1>1, <1>5, <2>1, <2>2, AppendExact
<1> QED  BY <1>1, <1>3, <1>4, <1>5 DEF ListSend

(* msg_receive finds by its list the sender that Ipc finds by its queue:   *)
(* the one that came first, or the one it asks for.                        *)
LEMMA FromIsPicked ==
    ASSUME IpcInv, ListExact, NEW p \in Proc, NEW src \in Source
    PROVE  /\ \A from \in From(p, src) :
                 /\ Turn(p, from) \in DOMAIN q_sending[p]
                 /\ q_sending[p][Turn(p, from)] = from
                 /\ Picks(p, src, Turn(p, from))
           /\ From(p, src) = {} => \A i \in DOMAIN q_sending[p] : ~Picks(p, src, i)
<1> DEFINE q == q_sending[p]
<1>1. /\ q \in Seq(Proc) /\ Len(q) \in Nat /\ DOMAIN q = 1..Len(q)
      /\ \A j \in DOMAIN q : q[j] \in Proc
      /\ \A j, k \in DOMAIN q : q[j] = q[k] => j = k
      /\ \A r \in Proc : Sending(r) /\ p_sendto[r] = p => \E j \in DOMAIN q : q[j] = r
    BY InQueue
<1>2. first[p] = IF q = <<>> THEN NULL ELSE q[1]
    BY DEF InOrder, ListExact, Spells
<1>3. q # <<>> <=> 1 \in DOMAIN q
    BY <1>1, EmptySeq
<1>4. ASSUME NEW from \in From(p, src)
      PROVE  /\ Turn(p, from) \in DOMAIN q /\ q[Turn(p, from)] = from
             /\ Picks(p, src, Turn(p, from))
    <2>1. \E i \in DOMAIN q : q[i] = from
        BY <1>1, <1>2, <1>3 DEF From
    <2>2. Turn(p, from) \in DOMAIN q /\ q[Turn(p, from)] = from
        BY <2>1 DEF Turn
    <2>3. CASE src = ANY
        <3>1. q # <<>> /\ from = q[1]
            BY <2>3, <1>2 DEF From
        <3>2. Turn(p, from) = 1
            BY <3>1, <2>2, <1>1, <1>3
        <3> QED  BY <2>2, <2>3, <3>2 DEF Picks
    <2>4. CASE src # ANY
        BY <2>2, <2>4 DEF From, Picks
    <2> QED  BY <2>2, <2>3, <2>4
<1>5. ASSUME From(p, src) = {}, NEW i \in DOMAIN q PROVE ~Picks(p, src, i)
    <2>1. CASE src = ANY
        <3>1. q = <<>>
            BY <2>1, <1>1, <1>2, <1>3, <1>5, NullAssumption DEF From
        <3> QED  BY <3>1, <1>1
    <2>2. CASE src # ANY
        BY <2>2, <1>1, <1>5 DEF From, Picks
    <2> QED  BY <2>1, <2>2
<1> QED  BY <1>4, <1>5

LEMMA ListReceiveStep ==
    ASSUME IpcInv, ListExact, NEW p \in Proc, NEW src \in Source, ListReceive(p, src)
    PROVE  MsgReceive(p, src) /\ ListExact'
<1>1. p_flags \in [Proc -> SUBSET Flag]
    BY DEF IpcInv, IpcTypeOK
<1>2. Runnable(p) /\ p # src
    BY DEF ListReceive
<1>3. CASE UNCHANGED lists /\ ReceiveInt(p, src)
    BY <1>2, <1>3, ListKept DEF ReceiveInt, Sending, MsgReceive
<1>4. ASSUME ~TakesInt(p, src), NEW from \in From(p, src),
             TakeFrom(p, from), UnlinkFrom(p, from),
             q_sending' = [q_sending EXCEPT ![p] = Unlink(@, Turn(p, from))]
      PROVE  MsgReceive(p, src) /\ ListExact'
    <2> DEFINE i == Turn(p, from)
    <2>1. i \in DOMAIN q_sending[p] /\ q_sending[p][i] = from /\ Picks(p, src, i)
        BY FromIsPicked
    <2> HIDE DEF i
    <2>2. q_sending' = [q_sending EXCEPT ![p] = RemoveAt(q_sending[p], i)]
        BY <1>4 DEF Unlink, i
    <2>3. ReceiveTake(p, src, i)
        BY <1>4, <2>1 DEF ReceiveTake, i
    <2>4. from \in Proc
        BY <2>1, InQueue
    <2>5. \A r \in Proc : Sending(r)' <=> Sending(r) /\ r # from
        BY <1>1, <1>4, <2>4 DEF TakeFrom, Sending
    <2>6. ListExact'
        BY <1>4, <2>1, <2>2, <2>5, UnlinkExact
    <2> QED  BY <1>2, <2>1, <2>3, <2>6 DEF MsgReceive
<1>5. CASE ~TakesInt(p, src) /\ From(p, src) = {} /\ BlockReceiver(p, src) /\ UNCHANGED lists
    <2>1. ReceiveBlock(p, src)
        BY <1>5, FromIsPicked DEF ReceiveBlock
    <2>2. \A r \in Proc : Sending(r) => Sending(r)'
        BY <1>1, <1>5 DEF BlockReceiver, Sending
    <2>3. ListExact'
        BY <1>5, <2>2, ListKept DEF BlockReceiver
    <2> QED  BY <1>2, <2>1, <2>3 DEF MsgReceive
<1> QED  BY <1>3, <1>4, <1>5 DEF ListReceive

LEMMA ListStep ==
    ASSUME IpcInv, ListExact, [ListNext]_listVars
    PROVE  [IpcNext]_ipcVars /\ ListExact'
<1>1. ASSUME NEW p \in Proc, NEW d \in Proc, NEW m \in Body, ListSend(p, d, m)
      PROVE  IpcNext /\ ListExact'
    BY <1>1, ListSendStep DEF IpcNext
<1>2. ASSUME NEW p \in Proc, NEW src \in Source, IntDiscipline(p, src), ListReceive(p, src)
      PROVE  IpcNext /\ ListExact'
    BY <1>2, ListReceiveStep DEF IpcNext
<1>3. ASSUME NEW t \in IntTask, UNCHANGED lists, InformInt(t)
      PROVE  IpcNext /\ ListExact'
    <2>1. UNCHANGED q_sending /\ \A r \in Proc : Sending(r) => Sending(r)'
        <3>1. p_flags \in [Proc -> SUBSET Flag]
            BY DEF IpcInv, IpcTypeOK
        <3>2. CASE InformWake(t)
            BY <3>1, <3>2 DEF InformWake, Sending
        <3>3. CASE InformPend(t)
            BY <3>3 DEF InformPend, Sending
        <3> QED  BY <1>3, <3>2, <3>3 DEF InformInt
    <2> QED  BY <1>3, <2>1, ListKept DEF IpcNext
<1>4. CASE UNCHANGED listVars
    BY <1>4, ListKept DEF listVars, ipcVars, Sending
<1> QED  BY <1>1, <1>2, <1>3, <1>4 DEF ListNext

LEMMA ListsInvariance == ListSpec => [](IpcInv /\ ListExact)
<1>1. ListInit => IpcInv /\ ListExact
    BY InitInv, ListInitExact DEF ListInit
<1>2. IpcInv /\ ListExact /\ [ListNext]_listVars => (IpcInv /\ ListExact)'
    BY ListStep, StepInv
<1> QED  BY <1>1, <1>2, PTL DEF ListSpec

(* For any number of processes, appending by a walk to the tail and        *)
(* unlinking with a trailing pointer keep the lists proper: no sender is   *)
(* in two lists, cut off, or left with a pointer of its last SEND.         *)
THEOREM ListsStayProper == ListSpec => []ProperLists
<1>1. IpcInv /\ ListExact => ProperLists
    <2> SUFFICES ASSUME IpcInv, ListExact, NEW p \in Proc
                 PROVE  LET holders == {d \in Proc : first[d] = p}
                            preds   == {q \in Proc : next_sending[q] = p}
                        IN  IF Sending(p)
                            THEN \E q \in Proc : \/ holders = {q} /\ preds = {}
                                                 \/ holders = {} /\ preds = {q}
                            ELSE holders = {} /\ preds = {} /\ next_sending[p] = NULL
        BY DEF ProperLists
    <2> DEFINE holders == {d \in Proc : first[d] = p}
               preds   == {q \in Proc : next_sending[q] = p}
    \* Who holds or precedes p, and where p stands then.
    <2>1. ASSUME NEW d \in holders
          PROVE  Sending(p) /\ p_sendto[p] = d /\ q_sending[d][1] = p /\ 1 \in DOMAIN q_sending[d]
        <3>1. q_sending[d] # <<>> /\ q_sending[d][1] = p
            BY NullAssumption DEF InOrder, ListExact, Spells
        <3>2. 1 \in DOMAIN q_sending[d]
            BY <3>1, InQueue, EmptySeq
        <3> QED  BY <3>1, <3>2, InQueue
    <2>2. ASSUME NEW r \in preds
          PROVE  /\ Sending(p) /\ p_sendto[p] = p_sendto[r] /\ p_sendto[r] \in Proc
                 /\ \E i \in DOMAIN q_sending[p_sendto[r]] :
                       /\ q_sending[p_sendto[r]][i] = r
                       /\ i + 1 \in DOMAIN q_sending[p_sendto[r]]
                       /\ q_sending[p_sendto[r]][i + 1] = p
        <3>1. Sending(r) /\ r \in Proc
            BY NullAssumption DEF InOrder, ListExact
        <3> DEFINE d == p_sendto[r]
        <3>2. d \in Proc
            BY <3>1 DEF IpcInv, IpcTypeOK, EntryExact
        <3>3. PICK i \in DOMAIN q_sending[d] : q_sending[d][i] = r
            <4>1. \A a \in Proc : Sending(a) /\ p_sendto[a] = d =>
                     \E i \in DOMAIN q_sending[d] : q_sending[d][i] = a
                BY <3>2, InQueue
            <4> QED  BY <3>1, <4>1
        <3>4. i # Len(q_sending[d]) /\ q_sending[d][i + 1] = p
            BY <3>2, <3>3, NullAssumption DEF InOrder, ListExact, Spells
        <3>5. i + 1 \in DOMAIN q_sending[d]
            BY <3>2, <3>4, InQueue
        <3>6. Sending(p) /\ p_sendto[p] = d
            BY <3>2, <3>4, <3>5, InQueue
        <3> QED  BY <3>2, <3>3, <3>4, <3>5, <3>6
    <2>3. CASE ~Sending(p)
        BY <2>1, <2>2, <2>3 DEF InOrder, ListExact
    <2>4. CASE Sending(p)
        <3> DEFINE d == p_sendto[p]
                   q == q_sending[d]
        <3>1. d \in Proc
            BY <2>4 DEF IpcInv, IpcTypeOK, EntryExact
        <3>2. /\ Len(q) \in Nat /\ DOMAIN q = 1..Len(q)
              /\ \A j \in DOMAIN q : q[j] \in Proc
              /\ \A j, k \in DOMAIN q : q[j] = q[k] => j = k
            BY <3>1, InQueue
        <3>3. PICK i \in DOMAIN q : q[i] = p
            BY <2>4, <3>1, InQueue
        <3>4. ASSUME NEW e \in holders PROVE e = d /\ i = 1
            BY <2>1, <3>2, <3>3
        <3>5. ASSUME NEW r \in preds PROVE i # 1 /\ r = q[i - 1]
            <4>1. PICK j \in DOMAIN q : q[j] = r /\ j + 1 \in DOMAIN q /\ q[j + 1] = p
                BY <2>2
            <4>2. j + 1 = i
                BY <4>1, <3>2, <3>3
            <4> QED  BY <4>1, <4>2, <3>2
        <3>6. CASE i = 1
            <4>1. d \in holders
                BY <3>1, <3>2, <3>3, <3>6 DEF InOrder, ListExact, Spells
            <4>2. holders = {d} /\ preds = {}
                BY <4>1, <3>4, <3>5, <3>6
            <4> QED  BY <2>4, <4>2, <3>1
        <3>7. CASE i # 1
            <4>1. i - 1 \in DOMAIN q /\ i - 1 # Len(q) /\ (i - 1) + 1 = i
                BY <3>2, <3>3, <3>7
            <4>2. q[i - 1] \in Proc /\ next_sending[q[i - 1]] = p
                BY <4>1, <3>1, <3>2, <3>3 DEF InOrder, ListExact, Spells
            <4>3. holders = {} /\ preds = {q[i - 1]}
                BY <4>2, <3>4, <3>5, <3>7
            <4> QED  BY <2>4, <4>2, <4>3
        <3> QED  BY <3>6, <3>7
    <2> QED  BY <2>3, <2>4
<1> QED  BY <1>1, ListsInvariance, PTL

(* For any number of processes, the lists keep the order of arrival.       *)
THEOREM ListsKeepOrder == ListSpec => []InOrder
<1>1. ListExact => InOrder
    BY DEF ListExact
<1> QED  BY <1>1, ListsInvariance, PTL

(* The pointer lists implement the queues: for any number of processes,    *)
(* each system call over the lists is one of Ipc.                          *)
THEOREM ListsImplementQueues == ListSpec => IpcSpec
<1>1. ListInit => IpcInit
    BY DEF ListInit
<1>2. IpcInv /\ ListExact /\ [ListNext]_listVars => [IpcNext]_ipcVars
    BY ListStep
<1> QED  BY <1>1, <1>2, ListsInvariance, PTL DEF ListSpec, IpcSpec

(* Hence the code of proc.c, lists and all, does what Rendezvous promises. *)
THEOREM ListsImplementRendezvous == ListSpec => ImplementsRendezvous
BY ListsImplementQueues, IpcImplementsRendezvous DEF ImplementsRendezvous
=============================================================================
