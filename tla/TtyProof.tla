----------------------------- MODULE TtyProof -----------------------------
(***************************************************************************)
(* Proofs about Tty, for any number of processes, terminals and keys:      *)
(* TtyInv is inductive, hence every caller is kept on the way through FS   *)
(* and TTY and gets its own line, and the kernel stops only when the two   *)
(* tasks cross.                                                            *)
(***************************************************************************)
EXTENDS Tty, IpcProof

LEMMA Facts ==
    /\ TTY \in Proc /\ FS \in Proc /\ User \subseteq Proc /\ TTY # FS
    /\ TTY \notin User /\ FS \notin User /\ Proc = {TTY, FS} \cup User
    /\ NO_TASK \notin Proc /\ ANY \notin Proc /\ INTERRUPT \notin Proc
    /\ NO_TASK # ANY /\ ANY # INTERRUPT /\ NO_TASK # INTERRUPT
    /\ IntTask = {TTY} /\ Mail \subseteq Body
    /\ NR_CONSOLES \in Nat \ {0} /\ MaxRead \in Nat \ {0}
    /\ Call \subseteq {"OPEN", "READ", "WRITE"}
BY TtyAssumption, SentinelAssumption

-----------------------------------------------------------------------------
(* Steps of the kernel *)

\* What a step leaves of the entry of q, and of its MESSAGE.
EntryKept(q) ==
    p_flags'[q] = p_flags[q] /\ p_sendto'[q] = p_sendto[q] /\ p_recvfrom'[q] = p_recvfrom[q]
Kept(q) == EntryKept(q) /\ buf'[q] = buf[q]

\* What becomes of a message of p for d.
HandedOver(p, d) == Awaits(d, p) /\ EntryKept(p) /\ Ready(d)' /\ buf'[d] = buf'[p]
Queued(p, d)     == ~Awaits(d, p) /\ SendsTo(p, d)' /\ Kept(d)
Sent(p, d, m) ==
    /\ Ready(p) /\ p # d
    /\ buf'[p] = [source |-> p, body |-> m]
    /\ \A q \in Proc \ {p, d} : Kept(q)
    /\ has_int_msg' = has_int_msg
    /\ HandedOver(p, d) \/ Queued(p, d)

\* What becomes of a RECEIVE of p: an interrupt, the message of q, waiting.
Interrupted(p, src) ==
    /\ has_int_msg[p] /\ src \in {ANY, INTERRUPT}
    /\ EntryKept(p) /\ buf'[p] = IntMessage
    /\ \A r \in Proc \ {p} : Kept(r)
    /\ \A r \in Proc : has_int_msg'[r] => has_int_msg[r]
Taken(p, q, src) ==
    /\ q # p /\ SendsTo(q, p) /\ src \in {ANY, q}
    /\ Ready(q)' /\ EntryKept(p) /\ buf'[p] = buf[q] /\ buf'[q] = buf[q]
    /\ \A r \in Proc \ {p, q} : Kept(r)
    /\ has_int_msg' = has_int_msg
Waits(p, src) ==
    /\ Awaiting(p, src)'
    /\ \A r \in Proc \ {p} : Kept(r) /\ ~(SendsTo(r, p) /\ src \in {ANY, r})
    /\ has_int_msg' = has_int_msg

LEMMA SendIs ==
    ASSUME IpcInv, NEW p \in Proc, NEW d \in Proc, NEW m \in Body,
           MsgSend(p, d, m), halted' = "no"
    PROVE  Sent(p, d, m)
<1>1. Ready(p) /\ p # d /\ halted = "no"
    BY DEF MsgSend, Runnable, Ready
<1>2. CASE SendDeliver(p, d, m)
    <2>1. p_flags[d] = {"RECEIVING"} /\ Awaits(d, p)
        BY <1>2 DEF SendDeliver, Awaits, Receiving, IpcInv, EntryExact
    <2>2. /\ buf'[p] = [source |-> p, body |-> m] /\ buf'[d] = buf'[p]
          /\ \A q \in Proc \ {p, d} : buf'[q] = buf[q]
        BY <1>1, <1>2 DEF SendDeliver, IpcInv, IpcTypeOK
    <2>3. p_flags'[d] = {} /\ \A q \in Proc \ {d} : p_flags'[q] = p_flags[q]
        BY <1>2, <2>1 DEF SendDeliver, IpcInv, IpcTypeOK
    <2>4. /\ \A q \in Proc \ {d} : p_recvfrom'[q] = p_recvfrom[q]
          /\ p_sendto' = p_sendto /\ has_int_msg' = has_int_msg
        BY <1>2 DEF SendDeliver, IpcInv, IpcTypeOK
    <2> QED
        BY <1>1, <2>1, <2>2, <2>3, <2>4 DEF Sent, HandedOver, EntryKept, Kept, Ready
<1>3. CASE SendBlock(p, d, m)
    <2>1. ~Awaits(d, p)
        BY <1>3 DEF SendBlock, BlockSender
    <2>2. /\ buf'[p] = [source |-> p, body |-> m]
          /\ \A q \in Proc \ {p} : buf'[q] = buf[q]
        BY <1>3 DEF SendBlock, BlockSender, IpcInv, IpcTypeOK
    <2>3. p_flags'[p] = {"SENDING"} /\ \A q \in Proc \ {p} : p_flags'[q] = p_flags[q]
        BY <1>1, <1>3 DEF SendBlock, BlockSender, IpcInv, IpcTypeOK, Ready
    <2>4. /\ p_sendto'[p] = d /\ \A q \in Proc \ {p} : p_sendto'[q] = p_sendto[q]
          /\ p_recvfrom' = p_recvfrom /\ has_int_msg' = has_int_msg
        BY <1>3 DEF SendBlock, BlockSender, IpcInv, IpcTypeOK
    <2> QED
        BY <1>1, <2>1, <2>2, <2>3, <2>4 DEF Sent, Queued, EntryKept, Kept, SendsTo, Sending
<1>4. ~SendPanic(p, d, m)
    BY DEF SendPanic
<1> QED
    BY <1>2, <1>3, <1>4 DEF MsgSend

LEMMA ReceiveIs ==
    ASSUME IpcInv, NEW p \in Proc, NEW src \in Source,
           MsgReceive(p, src)
    PROVE  /\ Ready(p) /\ halted = "no"
           /\ \/ Interrupted(p, src)
              \/ \E q \in Proc : Taken(p, q, src)
              \/ Waits(p, src)
<1>1. Ready(p) /\ p # src /\ halted = "no"
    BY DEF MsgReceive, Runnable, Ready
<1>2. \A e \in Proc : /\ ToSet(q_sending[e]) = {q \in Proc : Sending(q) /\ p_sendto[q] = e}
                      /\ q_sending[e] \in Seq(Proc)
    BY DEF IpcInv, IpcTypeOK, QueueExact
<1>3. /\ \A i \in DOMAIN q_sending[p] : q_sending[p][i] \in Proc /\ SendsTo(q_sending[p][i], p)
      /\ \A q \in Proc : SendsTo(q, p) => \E i \in DOMAIN q_sending[p] : q_sending[p][i] = q
    BY <1>2 DEF ToSet, SendsTo, Sending
<1>4. CASE ReceiveInt(p, src)
    <2>1. has_int_msg[p] /\ src \in {ANY, INTERRUPT}
        BY <1>4 DEF ReceiveInt, TakesInt
    <2>2. /\ buf'[p] = IntMessage /\ \A r \in Proc \ {p} : buf'[r] = buf[r]
          /\ \A r \in Proc : has_int_msg'[r] => has_int_msg[r]
          /\ UNCHANGED <<p_flags, p_sendto, p_recvfrom>>
        BY <1>4 DEF ReceiveInt, IpcInv, IpcTypeOK
    <2> QED  BY <1>1, <2>1, <2>2 DEF Interrupted, EntryKept, Kept
<1>5. ASSUME NEW i \in DOMAIN q_sending[p], ReceiveTake(p, src, i)
      PROVE  \E q \in Proc : Taken(p, q, src)
    <2>1. PICK q \in Proc : q = q_sending[p][i]
        BY <1>3
    <2>2. SendsTo(q, p) /\ q # p
        BY <1>1, <1>3, <2>1 DEF SendsTo, Ready, Sending
    <2>3. src \in {ANY, q}
        BY <1>5, <2>1 DEF ReceiveTake, Picks
    <2>4. p_flags[q] = {"SENDING"}
        BY <2>2 DEF SendsTo, Sending, IpcInv, EntryExact
    <2>5. p_flags'[q] = {} /\ \A r \in Proc \ {q} : p_flags'[r] = p_flags[r]
        BY <1>5, <2>1, <2>4 DEF ReceiveTake, TakeFrom, IpcInv, IpcTypeOK
    <2>6. /\ buf'[p] = buf[q] /\ \A r \in Proc \ {p} : buf'[r] = buf[r]
          /\ \A r \in Proc \ {q} : p_sendto'[r] = p_sendto[r]
          /\ UNCHANGED <<p_recvfrom, has_int_msg>>
        BY <1>5, <2>1 DEF ReceiveTake, TakeFrom, IpcInv, IpcTypeOK
    <2>7. Taken(p, q, src)
        BY <2>2, <2>3, <2>5, <2>6 DEF Taken, Ready, EntryKept, Kept
    <2> QED  BY <2>7
<1>6. CASE ReceiveBlock(p, src)
    <2>1. \A r \in Proc : ~(SendsTo(r, p) /\ src \in {ANY, r})
        <3>1. ASSUME NEW r \in Proc, SendsTo(r, p), src \in {ANY, r} PROVE FALSE
            <4>1. PICK i \in DOMAIN q_sending[p] : q_sending[p][i] = r
                BY <3>1, <1>3
            <4>2. Sending(r) /\ p_sendto[r] = p
                BY <3>1 DEF SendsTo
            <4>3. CASE src = ANY
                <5>1. 1 \in DOMAIN q_sending[p]
                    BY <4>1, <1>2, LenProperties
                <5> QED  BY <4>3, <5>1, <1>6 DEF ReceiveBlock, Picks
            <4>4. CASE src # ANY
                BY <4>1, <4>2, <4>4, <3>1, <1>6 DEF ReceiveBlock, Picks
            <4> QED  BY <4>3, <4>4
        <3> QED  BY <3>1
    <2>2. p_flags'[p] = {"RECEIVING"} /\ \A q \in Proc \ {p} : p_flags'[q] = p_flags[q]
        BY <1>1, <1>6 DEF ReceiveBlock, BlockReceiver, Ready, IpcInv, IpcTypeOK
    <2>3. /\ \A q \in Proc \ {p} : buf'[q] = buf[q]
          /\ p_recvfrom'[p] = src /\ \A q \in Proc \ {p} : p_recvfrom'[q] = p_recvfrom[q]
          /\ UNCHANGED <<p_sendto, has_int_msg>>
        BY <1>6 DEF ReceiveBlock, BlockReceiver, IpcInv, IpcTypeOK
    <2> QED
        BY <1>1, <2>1, <2>2, <2>3 DEF Waits, Awaiting, Receiving, EntryKept, Kept
<1> QED
    BY <1>1, <1>4, <1>5, <1>6 DEF MsgReceive

-----------------------------------------------------------------------------
(* Parts of the invariant *)

Runs == TtyInv /\ halted = "no"

\* The message passing keeps its own invariant under the calls of Tty.
LEMMA SendKeeps ==
    ASSUME Runs, NEW p \in Proc, NEW d \in Proc, NEW m \in Body, MsgSend(p, d, m)
    PROVE  /\ IpcInv'
           /\ halted' = "no" \/ (halted' = "deadlock" /\ Deadlock(p, d))
           /\ halted' = "no" => Sent(p, d, m)
<1>1. IpcInv /\ halted = "no"
    BY DEF Runs, TtyInv
<1>2. IpcInv'
    BY <1>1, StepInv DEF IpcNext
<1>3. halted' # "assert"
    BY <1>2 DEF IpcInv, NoAssertFailure
<1>4. halted' = "no" \/ (halted' = "deadlock" /\ Deadlock(p, d))
    BY <1>1, <1>3 DEF MsgSend, SendPanic, SendDeliver, SendBlock, BlockSender, Asserting
<1> QED  BY <1>1, <1>2, <1>4, SendIs

LEMMA ReceiveKeeps ==
    ASSUME Runs, NEW p \in Proc, NEW src \in Source, p = TTY \/ src = ANY \/ ~has_int_msg[p],
           p = TTY => src = ANY, MsgReceive(p, src)
    PROVE  /\ IpcInv' /\ halted' = "no" /\ Ready(p)
           /\ \/ Interrupted(p, src)
              \/ \E q \in Proc : Taken(p, q, src)
              \/ Waits(p, src)
<1>1. IpcInv /\ halted = "no"
    BY DEF Runs, TtyInv
<1>2. IntDiscipline(p, src)
    BY Facts DEF IntDiscipline
<1>3. IpcInv'
    BY <1>1, <1>2, StepInv DEF IpcNext
<1>4. halted' # "assert"
    BY <1>3 DEF IpcInv, NoAssertFailure
<1>5. halted' = "no"
    BY <1>1, <1>4 DEF MsgReceive, ReceiveInt, ReceiveTake, TakeFrom, ReceiveBlock,
                     BlockReceiver, Asserting
<1> QED  BY <1>1, <1>3, <1>5, ReceiveIs

LEMMA InformKeeps ==
    ASSUME Runs, InformInt(TTY)
    PROVE  /\ IpcInv' /\ halted' = "no"
           /\ \A q \in Proc \ {TTY} : Kept(q) /\ has_int_msg'[q] = has_int_msg[q]
           /\ Kept(TTY) \/ (Awaits(TTY, INTERRUPT) /\ Ready(TTY)' /\ buf'[TTY] = IntMessage)
<1>1. IpcInv /\ halted = "no" /\ TTY \in IntTask /\ TTY \in Proc
    BY Facts DEF Runs, TtyInv
<1>2. IpcInv'
    BY <1>1, StepInv DEF IpcNext
<1>3. CASE InformPend(TTY)
    BY <1>1, <1>2, <1>3 DEF InformPend, Kept, EntryKept, IpcInv, IpcTypeOK
<1>4. CASE InformWake(TTY)
    <2>1. p_flags[TTY] = {"RECEIVING"} /\ Awaits(TTY, INTERRUPT)
        BY <1>1, <1>4 DEF InformWake, Awaits, Receiving, IpcInv, EntryExact
    <2>2. halted' = "no"
        BY <1>1, <1>2, <1>4 DEF InformWake, Asserting, IpcInv, NoAssertFailure
    <2>3. p_flags'[TTY] = {} /\ \A q \in Proc \ {TTY} : p_flags'[q] = p_flags[q]
        BY <1>1, <1>4, <2>1 DEF InformWake, IpcInv, IpcTypeOK
    <2>4. /\ buf'[TTY] = IntMessage
          /\ \A q \in Proc \ {TTY} : /\ buf'[q] = buf[q] /\ p_recvfrom'[q] = p_recvfrom[q]
                                      /\ has_int_msg'[q] = has_int_msg[q]
          /\ p_sendto' = p_sendto
        BY <1>1, <1>4 DEF InformWake, IpcInv, IpcTypeOK
    <2> QED  BY <1>2, <2>1, <2>2, <2>3, <2>4 DEF Kept, EntryKept, Ready
<1> QED  BY <1>1, <1>3, <1>4 DEF InformInt

\* A process is ready, sends, or receives, and only one of these.
LEMMA EntryIs ==
    ASSUME IpcInv, NEW p \in Proc
    PROVE  /\ Ready(p) => ~Sending(p) /\ ~Receiving(p)
           /\ Sending(p) => ~Receiving(p) /\ p_sendto[p] \in Proc
           /\ Ready(p) \/ Sending(p) \/ Receiving(p)
           /\ p_recvfrom[p] \in Source \cup {NO_TASK}
<1>1. p_flags[p] \in {{}, {"SENDING"}, {"RECEIVING"}}
    BY DEF IpcInv, EntryExact
<1>2. /\ Sending(p) => p_sendto[p] \in Proc
      /\ p_recvfrom[p] \in Source \cup {NO_TASK}
    BY DEF IpcInv, EntryExact, IpcTypeOK
<1>3. /\ Ready(p) => ~Sending(p) /\ ~Receiving(p)
      /\ Sending(p) => ~Receiving(p)
      /\ Ready(p) \/ Sending(p) \/ Receiving(p)
    BY <1>1 DEF Ready, Sending, Receiving
<1> QED  BY <1>2, <1>3

LEMMA EntryNext ==
    ASSUME IpcInv', NEW p \in Proc
    PROVE  /\ Ready(p)' => ~Sending(p)' /\ ~Receiving(p)'
           /\ Sending(p)' => ~Receiving(p)' /\ ~Ready(p)'
           /\ Receiving(p)' => ~Ready(p)'
           /\ Ready(p)' \/ Sending(p)' \/ Receiving(p)'
<1>1. p_flags'[p] \in {{}, {"SENDING"}, {"RECEIVING"}}
    BY DEF IpcInv, EntryExact
<1> QED  BY <1>1 DEF Ready, Sending, Receiving

\* FS and TTY never send to each other at once, and nothing waits that a
\* partner waits for.
LEMMA NoCrossing ==
    ASSUME IpcInv
    PROVE  /\ ~(SendsTo(FS, TTY) /\ SendsTo(TTY, FS))
           /\ \A p, d \in Proc : SendsTo(p, d) => ~Awaits(d, p)
<1>1. ~(SendsTo(FS, TTY) /\ SendsTo(TTY, FS))
    <2>1. {FS, TTY} \in (SUBSET Proc) \ {{}}
        BY Facts
    <2>2. PICK p \in {FS, TTY} : ~(Sending(p) /\ p_sendto[p] \in {FS, TTY})
        BY <2>1 DEF IpcInv, NoSendCycle
    <2> QED  BY <2>2 DEF SendsTo
<1> QED  BY <1>1 DEF IpcInv, NoMissedRendezvous, SendsTo

LEMMA NoCrossingNext ==
    ASSUME IpcInv'
    PROVE  ~(SendsTo(FS, TTY)' /\ SendsTo(TTY, FS)')
<1>1. {FS, TTY} \in (SUBSET Proc) \ {{}}
    BY Facts
<1>2. \E p \in {FS, TTY} : ~(Sending(p)' /\ p_sendto'[p] \in {FS, TTY})
    BY <1>1 DEF IpcInv, NoSendCycle
<1> QED  BY <1>2 DEF SendsTo

\* What a process sends to, by the places.
LEMMA SendersAre ==
    ASSUME Runs
    PROVE  /\ \A u \in User : Pending(u) => ~Sending(u)
           /\ \A u \in User : Sending(u) => SendsTo(u, FS) /\ user[u].at = "sent"
           /\ Sending(TTY) => SendsTo(TTY, FS)
           /\ Sending(FS) => \/ SendsTo(FS, TTY) /\ fs.at = "asked"
                            \/ \E u \in User : /\ SendsTo(FS, u) /\ fs.at = "loop"
                                               /\ FsHas = u /\ Pending(u)
<1> USE Facts DEF Runs, TtyInv, Working
<1>1. \A p \in Proc : /\ Ready(p) => ~Sending(p)
                      /\ Receiving(p) => ~Sending(p)
    BY EntryIs
<1>2. \A u \in User : Pending(u) => ~Sending(u)
    BY <1>1 DEF Pending, Awaiting
<1>3. ASSUME NEW u \in User, Sending(u) PROVE SendsTo(u, FS) /\ user[u].at = "sent"
    <2>1. UserOK(u) /\ ~Ready(u) /\ ~Awaiting(u, FS) /\ user[u].at \in {"user", "sent", "received"}
        BY <1>1, <1>3 DEF Awaiting, TtyTypeOK
    <2> QED  BY <2>1 DEF UserOK
<1>4. Sending(TTY) => SendsTo(TTY, FS)
    BY <1>1 DEF TtyOK, Awaiting
<1>5. ASSUME Sending(FS)
      PROVE  \/ SendsTo(FS, TTY) /\ fs.at = "asked"
             \/ \E u \in User : /\ SendsTo(FS, u) /\ fs.at = "loop"
                                /\ FsHas = u /\ Pending(u)
    <2>1. ~Ready(FS) /\ ~Receiving(FS)
        BY <1>1, <1>5
    <2>2. FsLoop \/ FsAsked
        BY <2>1 DEF FsOK, FsDispatch, FsReplies, Awaiting
    <2>3. CASE FsAsked
        BY <2>1, <2>3 DEF FsAsked, FsWaits, Awaiting
    <2>4. CASE FsLoop
        <3>1. PICK u \in User : SendsTo(FS, u)
            BY <2>1, <2>4 DEF FsLoop
        <3>2. FsHas = u /\ fs.at = "loop"
            BY <1>5, <2>4, <3>1 DEF FsLoop, FsHas, SendsTo
        <3> QED  BY <3>1, <3>2 DEF PlaceOK, Held
    <2> QED  BY <2>2, <2>3, <2>4
<1> QED  BY <1>2, <1>3, <1>4, <1>5

\* A send closes a circle only between FS and TTY.
LEMMA CircleIs ==
    ASSUME Runs, NEW p \in Proc, NEW d \in Proc, p # d, Ready(p), Deadlock(p, d),
           d \in User => ~Sending(d), p \in User => ~Pending(p)
    PROVE  /\ Sending(d)
           /\ \/ p = TTY /\ SendsTo(FS, TTY)
              \/ p = FS /\ SendsTo(TTY, FS)
<1> USE Facts
<1>1. PICK S \in SUBSET Proc :
            /\ p \notin S /\ d \in S
            /\ \A q \in S : Sending(q) /\ p_sendto[q] \in S \cup {p}
    BY DeadlockIsCycle DEF Runs, TtyInv
<1>2. Sending(d) /\ d \in {FS, TTY}
    BY <1>1
<1>3. ASSUME FS \in S PROVE p = TTY /\ SendsTo(FS, TTY)
    <2>1. CASE SendsTo(FS, TTY)
        <3>1. ~SendsTo(TTY, FS)
            BY <2>1, NoCrossing DEF Runs, TtyInv
        <3>2. ~Sending(TTY)
            BY <3>1, SendersAre
        <3> QED  BY <1>1, <1>3, <2>1, <3>2 DEF SendsTo
    <2>2. CASE \E u \in User : SendsTo(FS, u) /\ Pending(u)
        <3>1. PICK u \in User : SendsTo(FS, u) /\ Pending(u)
            BY <2>2
        <3>2. u \in S \/ u = p
            BY <1>1, <1>3, <3>1 DEF SendsTo
        <3> QED  BY <1>1, <3>1, <3>2, SendersAre
    <2> QED  BY <1>1, <1>3, <2>1, <2>2, SendersAre
<1>4. ASSUME d = TTY PROVE (p = TTY /\ SendsTo(FS, TTY)) \/ (p = FS /\ SendsTo(TTY, FS))
    <2>1. SendsTo(TTY, FS)
        BY <1>2, <1>4, SendersAre
    <2>2. FS \in S \/ FS = p
        BY <1>1, <1>4, <2>1 DEF SendsTo
    <2> QED  BY <1>3, <2>1, <2>2
<1> QED  BY <1>1, <1>2, <1>3, <1>4

-----------------------------------------------------------------------------
(* What a step leaves alone *)

\* What u asked for and what was typed for it.
DataKept(u) == user'[u].call = user[u].call /\ line'[u] = line[u] /\ mem'[u] = mem[u]

LEMMA UserStays ==
    ASSUME NEW u \in User, UserOK(u), Kept(u), user'[u] = user[u],
           Pending(u) \/ (line'[u] = line[u] /\ mem'[u] = mem[u])
    PROVE  UserOK(u)' /\ (Pending(u)' <=> Pending(u))
<1>1. Pending(u)' <=> Pending(u)
    BY DEF Pending, Kept, EntryKept, Ready, Awaiting, Receiving
<1>2. (Ready(u)' <=> Ready(u)) /\ (Awaiting(u, FS)' <=> Awaiting(u, FS))
      /\ (SendsTo(u, FS)' <=> SendsTo(u, FS)) /\ buf'[u] = buf[u]
    BY DEF Kept, EntryKept, Ready, Awaiting, Receiving, SendsTo, Sending
<1>3. CASE Pending(u)
    BY <1>1, <1>2, <1>3 DEF UserOK, Pending
<1>4. CASE line'[u] = line[u] /\ mem'[u] = mem[u]
    <2>1. /\ Request(u, buf[u])' <=> Request(u, buf[u])
          /\ Returns(u, buf[u].body)' <=> Returns(u, buf[u].body)
        BY <1>2, <1>4 DEF Request, Asks, Returns, Read
    <2> QED  BY <1>1, <1>2, <1>4, <2>1 DEF UserOK
<1> QED  BY <1>1, <1>3, <1>4

SamePlace(u) ==
    /\ Pending(u)' <=> Pending(u)
    /\ fs'.src = u => fs.src = u \/ FsHas = u
    /\ (FsHas = u)' <=> (FsHas = u)
    /\ (TtyHas = u)' <=> (TtyHas = u)
    /\ \A c \in Console : (TermHas(c) = u)' <=> (TermHas(c) = u)
    /\ u \notin overtaken' => u \notin overtaken

LEMMA PlaceStays ==
    ASSUME NEW u \in User, PlaceOK(u), SamePlace(u)
    PROVE  PlaceOK(u)'
BY DEF PlaceOK, SamePlace, Held

\* Steps that are not of TTY: the terminals and their readers stay.
LEMMA TermsStay ==
    ASSUME Runs, tty_table' = tty_table, tt' = tt,
           \A u \in User : Pending(u) => DataKept(u)
    PROVE  /\ LinesOK'
           /\ \A c \in Console : TermHas(c)' = TermHas(c)
<1> USE DEF Runs, TtyInv, Working
<1>1. \A c \in Console : (Serves(c)' <=> Serves(c)) /\ TermHas(c)' = TermHas(c)
    BY DEF Serves, TermHas
<1>2. ASSUME NEW c \in Console, Serves(c), NEW u \in User, u = tty_table[c].tty_procnr
      PROVE  DataKept(u)
    BY <1>2 DEF TermHas, PlaceOK, Held
<1>3. ASSUME tt.at = "resume", NEW u \in User, u = This.tty_procnr
      PROVE  DataKept(u)
    BY <1>3 DEF TtyHas, PlaceOK, Held
<1>4. LinesOK
    OBVIOUS
<1>5. ASSUME NEW c \in Console, Serves(c)'
      PROVE  LET t == tty_table[c]
             IN  /\ t.tty_procnr \in User /\ user'[t.tty_procnr].call = "READ"
                 /\ t.tty_left_cnt + t.tty_trans_cnt <= MaxRead
                 /\ line'[t.tty_procnr] = line[t.tty_procnr]
                 /\ mem'[t.tty_procnr] = mem[t.tty_procnr]
                 /\ Read(t.tty_procnr, t.tty_trans_cnt)
    BY <1>1, <1>2, <1>4, <1>5 DEF LinesOK, DataKept, Read
<1>6. ASSUME tt'.at = "resume"
      PROVE  /\ This.tty_procnr \in User /\ user'[This.tty_procnr].call = "READ"
             /\ line'[This.tty_procnr] = line[This.tty_procnr]
             /\ mem'[This.tty_procnr] = mem[This.tty_procnr]
             /\ Read(This.tty_procnr, This.tty_trans_cnt)
    BY <1>3, <1>4, <1>6 DEF LinesOK, DataKept, Read, This
<1>7. LinesOK'
    BY <1>5, <1>6 DEF LinesOK, Read, This
<1> QED  BY <1>1, <1>7

\* FS, when a step touches neither it nor what TTY does for it.
LEMMA FsStays ==
    ASSUME Runs, Kept(FS), fs' = fs,
           \A u \in User : FsHas = u => DataKept(u),
           FsWaits => Kept(TTY) /\ tt' = tt
    PROVE  FsOK' /\ (FsWaits' <=> FsWaits)
<1> USE Facts
<1>1. /\ FsOK /\ TtyOK /\ buf'[FS] = buf[FS]
      /\ Ready(FS)' <=> Ready(FS)
      /\ Awaiting(FS, ANY)' <=> Awaiting(FS, ANY)
      /\ Awaiting(FS, TTY)' <=> Awaiting(FS, TTY)
      /\ \A d : SendsTo(FS, d)' <=> SendsTo(FS, d)
    BY DEF Runs, TtyInv, Working, Kept, EntryKept, Ready, Awaiting, Receiving, SendsTo, Sending
<1>2. FsWaits' <=> FsWaits
    BY <1>1 DEF FsWaits
<1>3. CASE FsLoop
    <2>1. CASE Ready(FS)
        BY <1>1, <1>2, <1>3, <2>1 DEF FsLoop, FsOK
    <2>2. CASE ~Ready(FS)
        <3>1. PICK u \in User : SendsTo(FS, u) /\ Returns(u, buf[FS].body)
            BY <1>3, <2>2 DEF FsLoop
        <3>2. FsHas = u
            BY <1>3, <3>1 DEF FsLoop, FsHas, SendsTo
        <3>3. Returns(u, buf[FS].body)'
            BY <1>1, <3>1, <3>2 DEF DataKept, Returns, Read
        <3> QED  BY <1>1, <1>2, <1>3, <3>1, <3>3 DEF FsLoop, FsOK
    <2> QED  BY <2>1, <2>2
<1>4. CASE FsDispatch
    <2>1. CASE Awaiting(FS, ANY)
        BY <1>1, <1>2, <1>4, <2>1 DEF FsDispatch, FsOK
    <2>2. CASE ~Awaiting(FS, ANY)
        <3>1. PICK u \in User : Requested(u) \/ Resuming(u, buf[FS])
            BY <1>4, <2>2 DEF FsDispatch
        <3>2. FsHas = u
            BY <1>4, <2>2, <3>1 DEF FsDispatch, FsHas, Requested, Request, Resuming, Resumed
        <3>3. (Requested(u) \/ Resuming(u, buf[FS]))'
            BY <1>1, <3>1, <3>2
            DEF DataKept, Requested, Request, Asks, Resuming, Returns, Read
        <3> QED  BY <1>1, <1>2, <1>4, <2>2, <3>3 DEF FsDispatch, FsOK
    <2> QED  BY <2>1, <2>2
<1>5. CASE FsAsked
    <2>1. CASE fs.at = "asked" /\ SendsTo(FS, TTY) /\ DevAsks(fs.src, buf[FS])
        <3>1. ~Ready(FS) /\ ~Receiving(FS)
            BY <2>1, EntryIs DEF SendsTo, Runs, TtyInv
        <3>2. ~Suspending
            <4>1. ~SendsTo(TTY, FS)
                BY <2>1, NoCrossing DEF Runs, TtyInv
            <4>2. ~Sending(TTY)
                BY <4>1, SendersAre
            <4> QED  BY <2>1, <4>2 DEF Suspending
        <3>3. FsHas = fs.src
            BY <2>1, <3>2 DEF FsHas
        <3>4. DevAsks(fs.src, buf[FS])'
            BY <1>1, <1>5, <2>1, <3>3 DEF FsAsked, DataKept, DevAsks, Asks
        <3> QED  BY <1>1, <1>2, <1>5, <2>1, <3>4 DEF FsAsked, FsOK
    <2>2. CASE FsWaits /\ AtTty(fs.src)
        <3>1. /\ Ready(TTY)' <=> Ready(TTY)
              /\ SendsTo(TTY, FS)' <=> SendsTo(TTY, FS)
              /\ buf'[TTY] = buf[TTY] /\ tt' = tt
            BY <2>2 DEF Kept, EntryKept, Ready, SendsTo, Sending
        <3>2. CASE tt.at = "dispatch" /\ Ready(TTY) /\ DevAsks(fs.src, buf[TTY])
            <4>1. ~Suspending
                <5>1. ~Sending(TTY)
                    BY <3>2 DEF Ready, Sending
                <5>2. fs.at = "reply" => ~Ready(FS)
                    BY <2>2 DEF FsWaits, Awaiting, Ready, Receiving
                <5> QED  BY <5>1, <5>2 DEF Suspending
            <4>2. FsHas = fs.src
                BY <2>2, <4>1 DEF FsHas, FsWaits
            <4>3. DevAsks(fs.src, buf[TTY])'
                BY <1>5, <3>1, <3>2, <4>2 DEF FsAsked, DataKept, DevAsks, Asks
            <4> QED  BY <1>2, <1>5, <2>2, <3>1, <3>2, <4>3 DEF FsAsked, FsOK, AtTty
        <3>3. CASE tt.at = "loop" /\ SendsTo(TTY, FS) /\ Answers(fs.src, buf[TTY])
            <4>1. buf[TTY].body.type # "SUSPEND_PROC" => FsHas = fs.src
                <5>1. fs.at = "reply" => ~Ready(FS)
                    BY <2>2 DEF FsWaits, Awaiting, Ready, Receiving
                <5> QED  BY <2>2, <5>1 DEF FsHas, FsWaits, Suspending
            <4>2. Answers(fs.src, buf[TTY])'
                BY <1>5, <3>1, <3>3, <4>1 DEF FsAsked, DataKept, Answers
            <4> QED  BY <1>2, <1>5, <2>2, <3>1, <3>3, <4>2 DEF FsAsked, FsOK, AtTty
        <3> QED  BY <2>2, <3>2, <3>3 DEF AtTty
    <2> QED  BY <1>5, <2>1, <2>2 DEF FsAsked
<1>6. CASE FsReplies
    <2>1. buf[FS].body.type # "SUSPEND_PROC" => FsHas = fs.src
        BY <1>6 DEF FsReplies, FsHas, Suspending, Suspends
    <2>2. (Answers(fs.src, buf[FS]) \/ Resuming(fs.src, buf[FS]))'
        BY <1>1, <1>6, <2>1 DEF FsReplies, DataKept, Answers, Resuming, Returns, Read
    <2> QED  BY <1>1, <1>2, <1>6, <2>2 DEF FsReplies, FsOK
<1> QED  BY <1>1, <1>2, <1>3, <1>4, <1>5, <1>6 DEF FsOK

LEMMA FsHasStays ==
    ASSUME Kept(FS), fs' = fs, Suspending' <=> Suspending
    PROVE  FsHas' = FsHas
<1>1. /\ buf'[FS] = buf[FS] /\ p_sendto'[FS] = p_sendto[FS]
      /\ Ready(FS)' <=> Ready(FS)
      /\ Sending(FS)' <=> Sending(FS)
    BY DEF Kept, EntryKept, Ready, Sending
<1> QED  BY <1>1 DEF FsHas, Resumed

LEMMA SuspendingStays ==
    ASSUME Kept(FS), fs' = fs, Kept(TTY)
    PROVE  (Suspending' <=> Suspending) /\ (FsWaits' <=> FsWaits)
<1>1. /\ buf'[FS] = buf[FS] /\ buf'[TTY] = buf[TTY]
      /\ Ready(FS)' <=> Ready(FS)
      /\ Awaiting(FS, TTY)' <=> Awaiting(FS, TTY)
      /\ Sending(TTY)' <=> Sending(TTY)
    BY DEF Kept, EntryKept, Ready, Sending, Awaiting, Receiving
<1> QED  BY <1>1 DEF Suspending, Suspends, FsWaits

LEMMA TtyStays ==
    ASSUME Runs, Kept(TTY), tt' = tt, tty_table' = tty_table,
           FsWaits => FsWaits', \A u \in User : Pending(u) => DataKept(u)
    PROVE  TtyOK' /\ TtyHas' = TtyHas
<1> USE Facts
<1>1. /\ TtyOK /\ buf'[TTY] = buf[TTY]
      /\ Ready(TTY)' <=> Ready(TTY)
      /\ Sending(TTY)' <=> Sending(TTY)
      /\ Awaiting(TTY, ANY)' <=> Awaiting(TTY, ANY)
      /\ SendsTo(TTY, FS)' <=> SendsTo(TTY, FS)
    BY DEF Runs, TtyInv, Working, Kept, EntryKept, Ready, Awaiting, Receiving, SendsTo, Sending
<1>2. TtyHas' = TtyHas
    BY <1>1 DEF TtyHas, This
<1>3. ASSUME tt.at = "resumed", SendsTo(TTY, FS), NEW u \in User, Resuming(u, buf[TTY])
      PROVE  Resuming(u, buf[TTY])'
    <2>1. TtyHas = u
        BY <1>3 DEF TtyHas, SendsTo, Resuming
    <2>2. DataKept(u)
        BY <2>1 DEF Runs, TtyInv, Working, PlaceOK, Held
    <2> QED  BY <1>1, <1>3, <2>2 DEF DataKept, Resuming, Returns, Read
<1>4. TtyOK'
    BY <1>1, <1>3 DEF TtyOK
<1> QED  BY <1>2, <1>4

\* A step of a process, or of the keyboard, that FS and TTY do not notice.
LEMMA TasksStay ==
    ASSUME Runs, Kept(FS), Kept(TTY), fs' = fs, tt' = tt, tty_table' = tty_table,
           \A u \in User : Pending(u) => DataKept(u)
    PROVE  /\ FsOK' /\ TtyOK' /\ LinesOK'
           /\ FsHas' = FsHas /\ TtyHas' = TtyHas
           /\ \A c \in Console : TermHas(c)' = TermHas(c)
<1>1. \A u \in User : FsHas = u => DataKept(u)
    BY DEF Runs, TtyInv, Working, PlaceOK, Held
<1>2. (Suspending' <=> Suspending) /\ (FsWaits' <=> FsWaits)
    BY SuspendingStays
<1> QED  BY <1>1, <1>2, FsStays, FsHasStays, TtyStays, TermsStay

-----------------------------------------------------------------------------
(* Processes *)

\* The messages of the tasks and processes are of Mail.
LEMMA RequestIs ==
    ASSUME TtyInv, NEW u \in User, NEW t \in Call, NEW c \in Opened[u],
           NEW n \in IF t = "READ" THEN 1..MaxRead ELSE {1}
    PROVE  Asks(u, t, Msg(t, c, u, n)) /\ Msg(t, c, u, n) \in Body
<1>1. n \in 1..MaxRead
    BY Facts
<1>2. n \in 0..MaxRead /\ n > 0
    BY <1>1, Facts
<1>3. c \in Console
    BY TtyAssumption DEF Console
<1>4. Msg(t, c, u, n) \in Mail
    BY <1>2, <1>3, Facts DEF Msg, Mail, MsgType
<1> QED  BY <1>2, <1>4, Facts DEF Asks, Msg

LEMMA UserCallStep ==
    ASSUME Runs, NEW u \in User, NEW t \in Call, NEW c \in Opened[u], UserCall(u, t, c)
    PROVE  TtyInv'
<1> USE Facts DEF Runs, TtyInv, Working
<1>1. PICK n \in IF t = "READ" THEN 1..MaxRead ELSE {1} : MsgSend(u, FS, Msg(t, c, u, n))
    BY DEF UserCall
<1> DEFINE m == Msg(t, c, u, n)
<1>2. Asks(u, t, m) /\ m \in Body
    BY RequestIs
<1> HIDE DEF m
<1>3. /\ user[u].at = "user" /\ user' = [user EXCEPT ![u] = [call |-> t, at |-> "sent"]]
      /\ UNCHANGED <<ttyVars, fs>> /\ MsgSend(u, FS, m)
    BY <1>1 DEF UserCall, m
<1>4. /\ user'[u] = [call |-> t, at |-> "sent"]
      /\ \A v \in User \ {u} : user'[v] = user[v]
    BY <1>3 DEF TtyTypeOK
<1>5. UserOK(u) /\ ~Pending(u) /\ Ready(u) /\ line[u] = <<>>
    BY <1>3 DEF UserOK, Pending
<1>6. IpcInv' /\ halted' = "no" /\ Sent(u, FS, m)
    <2>1. ~SendsTo(FS, u)
        BY <1>5, SendersAre DEF SendsTo
    <2>2. ~Deadlock(u, FS)
        BY <1>5, CircleIs
    <2> QED  BY <1>2, <1>3, <2>2, SendKeeps
<1>7. TtyTypeOK'
    BY <1>3 DEF TtyTypeOK, ttyVars
<1>8. \A v \in User : Pending(v) => DataKept(v)
    BY <1>3, <1>4, <1>5 DEF DataKept, ttyVars
<1>9. ASSUME NEW v \in User \ {u} PROVE UserOK(v)' /\ (Pending(v)' <=> Pending(v))
    <2>1. Kept(v)
        BY <1>6 DEF Sent
    <2> QED  BY <1>3, <1>4, <2>1, UserStays DEF ttyVars
<1>10. Kept(TTY) /\ tt' = tt /\ tty_table' = tty_table /\ fs' = fs
    BY <1>3, <1>6 DEF Sent, ttyVars
<1>11. CASE HandedOver(u, FS)
    <2>1. fs = [at |-> "dispatch", src |-> NO_TASK] /\ Awaiting(FS, ANY)
        <3>1. Receiving(FS) /\ p_recvfrom[FS] \in {u, ANY} /\ ~Ready(FS) /\ ~Sending(FS)
            BY <1>6, <1>11, EntryIs DEF HandedOver, Awaits
        <3> QED
            BY <3>1 DEF FsOK, FsLoop, FsDispatch, FsAsked, FsReplies, FsWaits, Awaiting, SendsTo
    <2>2. Ready(FS)' /\ Request(u, buf[FS])' /\ Ready(u)'
        BY <1>2, <1>4, <1>6, <1>11 DEF HandedOver, Sent, Request, EntryKept, Ready
    <2>3. Requested(u)' /\ FsOK'
        BY <1>3, <1>5, <1>10, <2>1, <2>2 DEF Requested, FsOK, FsDispatch, ttyVars
    <2>4. FsHas = NO_TASK /\ FsHas' = u
        BY <1>10, <2>1, <2>2, EntryIs DEF FsHas, Request, Awaiting
    <2>5. ~FsWaits
        BY <2>1 DEF FsWaits
    <2>6. LinesOK' /\ \A e \in Console : TermHas(e)' = TermHas(e)
        BY <1>8, <1>10, TermsStay
    <2>7. TtyOK' /\ TtyHas' = TtyHas
        BY <1>8, <1>10, <2>5, TtyStays
    <2>8. Pending(u)' /\ UserOK(u)'
        BY <1>4, <2>2 DEF Pending, UserOK
    <2>9. PlaceOK(u)'
        BY <1>5, <2>4, <2>6, <2>7, <2>8 DEF PlaceOK, Held
    <2>10. ASSUME NEW v \in User \ {u} PROVE PlaceOK(v)'
        BY <1>3, <1>9, <2>4, <2>6, <2>7, PlaceStays DEF SamePlace, ttyVars
    <2> QED
        BY <1>6, <1>7, <1>9, <2>3, <2>6, <2>7, <2>8, <2>9, <2>10 DEF StopsOnlyOnCrossing, Sent
<1>12. CASE Queued(u, FS)
    <2>1. Kept(FS) /\ SendsTo(u, FS)' /\ buf'[u] = [source |-> u, body |-> m]
        BY <1>6, <1>12 DEF Queued, Sent
    <2>2. UserOK(u)' /\ ~Pending(u)'
        <3>1. ~Ready(u)' /\ ~Awaiting(u, FS)'
            BY <1>6, <2>1, EntryNext DEF SendsTo, Awaiting
        <3>2. Request(u, buf[u])' /\ line'[u] = <<>>
            BY <1>2, <1>3, <1>4, <1>5, <2>1 DEF Request, ttyVars
        <3> QED  BY <1>4, <2>1, <3>1, <3>2 DEF UserOK, Pending
    <2>3. /\ FsOK' /\ TtyOK' /\ LinesOK'
          /\ FsHas' = FsHas /\ TtyHas' = TtyHas
          /\ \A e \in Console : TermHas(e)' = TermHas(e)
        BY <1>8, <1>10, <2>1, TasksStay
    <2>4. ASSUME NEW v \in User PROVE PlaceOK(v)'
        BY <1>3, <1>5, <1>9, <2>2, <2>3, PlaceStays DEF SamePlace, ttyVars
    <2> QED
        BY <1>6, <1>7, <1>9, <2>2, <2>3, <2>4 DEF StopsOnlyOnCrossing, Sent
<1> QED  BY <1>6, <1>11, <1>12 DEF Sent

LEMMA UserReceiveStep ==
    ASSUME Runs, NEW u \in User, UserReceive(u)
    PROVE  TtyInv'
<1> USE Facts DEF Runs, TtyInv, Working
<1>1. /\ user[u].at = "sent" /\ user' = [user EXCEPT ![u].at = "received"]
      /\ UNCHANGED <<keys, current, tty_table, tt, mem, line, overtaken, fs>>
      /\ MsgReceive(u, FS)
    BY DEF UserReceive, ttyVars
<1>2. /\ user'[u].at = "received" /\ user'[u].call = user[u].call
      /\ \A v \in User \ {u} : user'[v] = user[v]
    BY <1>1 DEF TtyTypeOK
<1>3. TtyTypeOK'
    <2>1. user' \in [User -> [call : Call \cup {"none"}, at : {"user", "sent", "received"}]]
        <3>1. user'[u] = [call |-> user[u].call, at |-> "received"]
            BY <1>1 DEF TtyTypeOK
        <3>2. \A v \in User : user'[v] \in [call : Call \cup {"none"},
                                           at : {"user", "sent", "received"}]
            <4>1. user[u].call \in Call \cup {"none"}
                BY DEF TtyTypeOK
            <4>2. user'[u] \in [call : Call \cup {"none"}, at : {"user", "sent", "received"}]
                BY <3>1, <4>1
            <4>3. \A v \in User \ {u} :
                     user[v] \in [call : Call \cup {"none"}, at : {"user", "sent", "received"}]
                BY DEF TtyTypeOK
            <4> QED  BY <1>2, <4>2, <4>3
        <3> QED  BY <1>1, <3>2 DEF TtyTypeOK
    <2> QED  BY <1>1, <2>1 DEF TtyTypeOK
<1>4. /\ IpcInv' /\ halted' = "no" /\ Ready(u)
      /\ (\E q \in Proc : Taken(u, q, FS)) \/ Waits(u, FS)
    <2>1. u \in Proc /\ FS \in Source /\ ~has_int_msg[u] /\ u # TTY
        BY DEF Source
    <2> QED  BY <1>1, <2>1, ReceiveKeeps DEF Interrupted
<1>5. Pending(u) /\ user[u].call # "none" /\ UserOK(u) /\ PlaceOK(u)
    BY <1>1, <1>4 DEF Pending, UserOK
<1>6. \A v \in User : DataKept(v)
    BY <1>1, <1>2 DEF DataKept
<1>7. ASSUME NEW v \in User \ {u}, Kept(v) PROVE UserOK(v)' /\ (Pending(v)' <=> Pending(v))
    BY <1>1, <1>2, <1>7, UserStays
<1>8. CASE \E q \in Proc : Taken(u, q, FS)
    <2>1. Taken(u, FS, FS)
        BY <1>8 DEF Taken
    <2>2. SendsTo(FS, u) /\ fs.at = "loop" /\ FsHas = u
        <3>1. SendsTo(FS, u) /\ Sending(FS)
            BY <2>1 DEF Taken, SendsTo
        <3> QED  BY <3>1, SendersAre DEF SendsTo
    <2>3. fs = [at |-> "loop", src |-> NO_TASK] /\ Returns(u, buf[FS].body)
        <3>1. FsLoop
            BY <2>2 DEF FsOK, FsDispatch, FsAsked, FsWaits, FsReplies
        <3> QED  BY <2>2, <3>1, EntryIs DEF FsLoop, SendsTo
    <2>4. /\ Ready(FS)' /\ Ready(u)' /\ buf'[u] = buf[FS] /\ has_int_msg' = has_int_msg
          /\ \A q \in Proc \ {u, FS} : Kept(q)
        BY <1>4, <2>1 DEF Taken, EntryKept, Ready
    <2>5. Returns(u, buf[u].body)'
        BY <1>1, <1>2, <2>3, <2>4 DEF Returns, Read
    <2>6. UserOK(u)' /\ ~Pending(u)'
        BY <1>2, <1>4, <1>5, <2>4, <2>5, EntryNext DEF UserOK, Pending, Awaiting
    <2>7. FsOK' /\ FsHas' = NO_TASK
        BY <1>1, <1>4, <2>3, <2>4, EntryNext DEF FsOK, FsLoop, FsHas
    <2>8. ~FsWaits
        BY <2>3 DEF FsWaits
    <2>9. LinesOK' /\ \A e \in Console : TermHas(e)' = TermHas(e)
        BY <1>1, <1>6, TermsStay
    <2>10. TtyOK' /\ TtyHas' = TtyHas
        BY <1>1, <1>6, <2>4, <2>8, TtyStays
    <2>11. PlaceOK(u)'
        <3>1. fs'.src = NO_TASK /\ FsHas' # u
            BY <1>1, <2>3, <2>7
        <3>2. TtyHas' # u /\ \A c \in Console : TermHas(c)' # u
            BY <1>5, <2>2, <2>9, <2>10 DEF PlaceOK
        <3> QED  BY <2>6, <3>1, <3>2 DEF PlaceOK, Held
    <2>12. ASSUME NEW v \in User \ {u} PROVE UserOK(v)' /\ PlaceOK(v)'
        BY <1>1, <1>7, <2>2, <2>4, <2>7, <2>9, <2>10, PlaceStays DEF SamePlace
    <2> QED
        BY <1>3, <1>4, <2>4, <2>6, <2>7, <2>9, <2>10, <2>11, <2>12 DEF StopsOnlyOnCrossing
<1>9. CASE Waits(u, FS)
    <2>1. /\ Awaiting(u, FS)' /\ has_int_msg' = has_int_msg
          /\ \A q \in Proc \ {u} : Kept(q)
        BY <1>9 DEF Waits
    <2>2. UserOK(u)' /\ Pending(u)'
        BY <1>2, <1>5, <2>1 DEF UserOK, Pending
    <2>3. /\ FsOK' /\ TtyOK' /\ LinesOK'
          /\ FsHas' = FsHas /\ TtyHas' = TtyHas
          /\ \A e \in Console : TermHas(e)' = TermHas(e)
        BY <1>1, <1>6, <2>1, TasksStay
    <2>4. ASSUME NEW v \in User PROVE UserOK(v)' /\ PlaceOK(v)'
        BY <1>1, <1>5, <1>7, <2>1, <2>2, <2>3, PlaceStays DEF SamePlace
    <2> QED
        BY <1>3, <1>4, <2>1, <2>3, <2>4 DEF StopsOnlyOnCrossing
<1> QED  BY <1>4, <1>8, <1>9

LEMMA UserReturnStep ==
    ASSUME Runs, NEW u \in User, UserReturn(u)
    PROVE  TtyInv'
<1> USE Facts DEF Runs, TtyInv, Working
<1>1. /\ user[u].at = "received" /\ Ready(u)
      /\ user' = [user EXCEPT ![u] = [call |-> "none", at |-> "user"]]
      /\ buf' = [buf EXCEPT ![u] = [source |-> u, body |-> Nothing]]
      /\ mem' = [mem EXCEPT ![u] = <<>>] /\ line' = [line EXCEPT ![u] = <<>>]
      /\ UNCHANGED <<p_flags, p_sendto, p_recvfrom, p_msg, q_sending, has_int_msg, halted,
                     keys, current, tty_table, tt, overtaken, fs>>
    BY DEF UserReturn, Runnable, Ready
<1>2. /\ user'[u] = [call |-> "none", at |-> "user"] /\ line'[u] = <<>> /\ mem'[u] = <<>>
      /\ buf'[u] = [source |-> u, body |-> Nothing]
      /\ \A v \in User \ {u} : user'[v] = user[v] /\ line'[v] = line[v] /\ mem'[v] = mem[v]
      /\ \A p \in Proc \ {u} : buf'[p] = buf[p]
    BY <1>1 DEF TtyTypeOK, IpcInv, IpcTypeOK
<1>3. TtyTypeOK'
    BY <1>1, EmptySeq DEF TtyTypeOK
<1>4. IpcInv'
    <2>1. Nothing \in Body
        BY DEF Nothing, Msg, Mail, MsgType, Console
    <2>2. buf' \in [Proc -> Message]
        BY <1>1, <2>1 DEF IpcInv, IpcTypeOK, Message
    <2>3. IpcTypeOK'
        BY <1>1, <2>2 DEF IpcInv, IpcTypeOK
    <2>4. (EntryExact /\ QueueExact /\ NoMissedRendezvous /\ NoSendCycle /\ NoAssertFailure)'
        BY <1>1 DEF IpcInv, EntryExact, QueueExact, NoMissedRendezvous,
                    NoSendCycle, NoAssertFailure, Sending, Receiving, Awaits
    <2> QED  BY <2>3, <2>4 DEF IpcInv
<1>5. \A p \in Proc \ {u} : Kept(p)
    BY <1>1, <1>2 DEF Kept, EntryKept
<1>6. ~Pending(u) /\ ~Pending(u)' /\ UserOK(u)'
    <2>1. Ready(u)' /\ ~Awaiting(u, FS)
        BY <1>1, EntryIs DEF Ready, Awaiting
    <2>2. ~Awaiting(u, FS)'
        BY <1>4, <2>1, EntryNext DEF Awaiting
    <2>3. ~Pending(u)
        BY <1>1, <2>1 DEF Pending
    <2>4. user'[u].at = "user" /\ user'[u].call = "none"
        BY <1>2
    <2>5. ~Pending(u)'
        BY <2>4 DEF Pending
    <2>6. UserOK(u)'
        BY <1>2, <2>1, <2>4 DEF UserOK
    <2> QED  BY <2>3, <2>5, <2>6
<1>7. \A v \in User : Pending(v) => DataKept(v)
    BY <1>2, <1>6 DEF DataKept
<1>8. ASSUME NEW v \in User \ {u} PROVE UserOK(v)' /\ (Pending(v)' <=> Pending(v))
    BY <1>2, <1>5, UserStays
<1>9. /\ FsOK' /\ TtyOK' /\ LinesOK'
      /\ FsHas' = FsHas /\ TtyHas' = TtyHas
      /\ \A e \in Console : TermHas(e)' = TermHas(e)
    BY <1>1, <1>5, <1>7, TasksStay
<1>10. ASSUME NEW v \in User PROVE UserOK(v)' /\ PlaceOK(v)'
    BY <1>1, <1>6, <1>8, <1>9, PlaceStays DEF SamePlace
<1> QED
    BY <1>1, <1>3, <1>4, <1>9, <1>10 DEF StopsOnlyOnCrossing

-----------------------------------------------------------------------------
(* FS *)

LEMMA FsReceiveStep ==
    ASSUME Runs, FsReceive
    PROVE  TtyInv'
<1> USE Facts DEF Runs, TtyInv, Working
<1>1. /\ fs.at = "loop" /\ fs' = [fs EXCEPT !.at = "dispatch"] /\ MsgReceive(FS, ANY)
      /\ UNCHANGED <<keys, current, tty_table, tt, mem, line, overtaken, user>>
    BY DEF FsReceive, FsStep, ttyVars
<1>2. fs = [at |-> "loop", src |-> NO_TASK] /\ fs' = [at |-> "dispatch", src |-> NO_TASK]
    BY <1>1 DEF FsOK, FsLoop, FsDispatch, FsAsked, FsWaits, FsReplies
<1>3. TtyTypeOK'
    BY <1>1, <1>2 DEF TtyTypeOK
<1>4. /\ IpcInv' /\ halted' = "no" /\ Ready(FS)
      /\ (\E q \in Proc : Taken(FS, q, ANY)) \/ Waits(FS, ANY)
    <2>1. FS \in Proc /\ ANY \in Source /\ ~has_int_msg[FS]
        BY DEF Source
    <2> QED  BY <1>1, <2>1, ReceiveKeeps DEF Interrupted
<1>5. FsHas = NO_TASK /\ ~FsWaits /\ ~FsWaits'
    BY <1>2, <1>4, EntryIs DEF FsHas, FsWaits
<1>6. \A v \in User : DataKept(v)
    BY <1>1 DEF DataKept
<1>7. ASSUME NEW v \in User, Kept(v) PROVE UserOK(v)' /\ (Pending(v)' <=> Pending(v))
    BY <1>1, <1>7, UserStays
<1>8. LinesOK' /\ \A e \in Console : TermHas(e)' = TermHas(e)
    BY <1>1, <1>6, TermsStay
<1>9. CASE Waits(FS, ANY)
    <2>1. /\ Awaiting(FS, ANY)' /\ has_int_msg' = has_int_msg /\ ~Ready(FS)'
          /\ \A q \in Proc \ {FS} : Kept(q)
        BY <1>4, <1>9, EntryNext DEF Waits, Awaiting
    <2>2. FsOK' /\ FsHas' = NO_TASK
        BY <1>2, <2>1 DEF FsOK, FsDispatch, FsHas
    <2>3. TtyOK' /\ TtyHas' = TtyHas
        BY <1>1, <1>5, <1>6, <2>1, TtyStays
    <2>4. ASSUME NEW v \in User PROVE UserOK(v)' /\ PlaceOK(v)'
        BY <1>1, <1>5, <1>7, <1>8, <2>1, <2>2, <2>3, PlaceStays DEF SamePlace
    <2> QED
        BY <1>3, <1>4, <1>8, <2>1, <2>2, <2>3, <2>4 DEF StopsOnlyOnCrossing
<1>10. ASSUME NEW u \in User, Taken(FS, u, ANY) PROVE TtyInv'
    <2>1. /\ Ready(FS)' /\ Ready(u)' /\ buf'[FS] = buf[u] /\ has_int_msg' = has_int_msg
          /\ SendsTo(u, FS) /\ \A q \in Proc \ {u, FS} : Kept(q)
        BY <1>4, <1>10 DEF Taken, EntryKept, Ready
    <2>2. user[u].at = "sent" /\ ~Pending(u) /\ ~Ready(u)
        BY <2>1, SendersAre, EntryIs DEF SendsTo
    <2>3. UserOK(u) /\ Request(u, buf[u]) /\ line[u] = <<>>
        BY <2>2 DEF UserOK
    <2>4. Requested(u)' /\ FsOK'
        BY <1>1, <1>2, <2>1, <2>3 DEF Requested, Request, FsOK, FsDispatch
    <2>5. FsHas' = u
        BY <1>2, <2>1, <2>3 DEF FsHas, Request
    <2>6. Pending(u)' /\ UserOK(u)'
        BY <1>1, <2>1, <2>2, <2>3 DEF Pending, UserOK
    <2>7. TtyOK' /\ TtyHas' = TtyHas
        BY <1>1, <1>5, <1>6, <2>1, TtyStays
    <2>8. PlaceOK(u)'
        BY <1>8, <2>2, <2>5, <2>6, <2>7 DEF PlaceOK, Held
    <2>9. ASSUME NEW v \in User \ {u} PROVE UserOK(v)' /\ PlaceOK(v)'
        BY <1>1, <1>5, <1>7, <1>8, <2>1, <2>5, <2>7, PlaceStays DEF SamePlace
    <2> QED
        BY <1>3, <1>4, <1>8, <2>1, <2>4, <2>6, <2>7, <2>8, <2>9 DEF StopsOnlyOnCrossing
<1>11. CASE Taken(FS, TTY, ANY)
    <2>1. /\ Ready(FS)' /\ Ready(TTY)' /\ buf'[FS] = buf[TTY] /\ has_int_msg' = has_int_msg
          /\ SendsTo(TTY, FS) /\ \A q \in Proc \ {TTY, FS} : Kept(q)
        BY <1>4, <1>11 DEF Taken, EntryKept, Ready
    <2>2. tt.at = "resumed" /\ \E u \in User : Resuming(u, buf[TTY])
        BY <1>5, <2>1, EntryIs DEF TtyOK, SendsTo, Awaiting
    <2>3. PICK u \in User : Resuming(u, buf[TTY])
        BY <2>2
    <2>4. TtyHas = u /\ TtyHas' = NO_TASK
        BY <1>1, <1>4, <2>1, <2>2, <2>3, EntryNext DEF TtyHas, Resuming, SendsTo
    <2>5. Resuming(u, buf[FS])' /\ FsOK'
        BY <1>1, <1>2, <2>1, <2>3 DEF Resuming, Returns, Read, FsOK, FsDispatch
    <2>6. FsHas' = u
        BY <1>2, <2>1, <2>3 DEF FsHas, Resuming, Resumed
    <2>7. TtyOK'
        BY <1>1, <2>1, <2>2 DEF TtyOK
    <2>8. PlaceOK(u)'
        BY <1>1, <1>7, <1>8, <2>1, <2>4, <2>6 DEF PlaceOK, Held
    <2>9. ASSUME NEW v \in User \ {u} PROVE PlaceOK(v)'
        BY <1>1, <1>5, <1>7, <1>8, <2>1, <2>4, <2>6, PlaceStays DEF SamePlace
    <2> QED
        BY <1>3, <1>4, <1>7, <1>8, <2>1, <2>5, <2>7, <2>8, <2>9 DEF StopsOnlyOnCrossing
<1> QED  BY <1>4, <1>9, <1>10, <1>11 DEF Taken

LEMMA FsAskStep ==
    ASSUME Runs, FsAsk
    PROVE  TtyInv'
<1> USE Facts DEF Runs, TtyInv, Working
<1> DEFINE m == [buf[FS].body EXCEPT !.type = DevType(buf[FS].body.type)]
<1>1. /\ fs.at = "dispatch" /\ Ready(FS) /\ buf[FS].body.type \in Call
      /\ fs' = [at |-> "asked", src |-> buf[FS].source] /\ MsgSend(FS, TTY, m)
      /\ UNCHANGED <<keys, current, tty_table, tt, mem, line, overtaken, user>>
    BY DEF FsAsk, Runnable, Ready, ttyVars
<1>2. PICK u \in User : Requested(u)
    <2>1. FsDispatch
        BY <1>1 DEF FsOK, FsLoop, FsAsked, FsWaits, FsReplies
    <2>2. ~Awaiting(FS, ANY)
        BY <1>1, EntryIs DEF Awaiting
    <2> QED  BY <1>1, <2>1, <2>2 DEF FsDispatch, Resuming
<1>3. Asks(u, DevType(user[u].call), m) /\ m \in Body
    <2>1. /\ buf[FS].body \in Mail /\ buf[FS].body.type = user[u].call
          /\ buf[FS].body.PROC_NR = u /\ buf[FS].body.CNT > 0
        BY <1>2 DEF Requested, Request, Asks
    <2>2. DevType(user[u].call) \in MsgType
        BY <1>1, <2>1 DEF DevType, MsgType
    <2>3. m \in Mail /\ m.type = DevType(user[u].call) /\ m.PROC_NR = u /\ m.CNT > 0
        BY <2>1, <2>2 DEF Mail
    <2> QED  BY <2>3 DEF Asks
<1> HIDE DEF m
<1>4. fs' = [at |-> "asked", src |-> u] /\ line[u] = <<>>
    BY <1>1, <1>2 DEF Requested, Request
<1>5. FsHas = u /\ ~FsWaits
    BY <1>1, <1>2 DEF FsHas, FsWaits, Requested, Request
<1>6. TtyTypeOK'
    <2>1. fs' \in [at : {"loop", "dispatch", "asked", "reply"}, src : User \cup {NO_TASK}]
        BY <1>4
    <2> QED  BY <1>1, <2>1 DEF TtyTypeOK
<1>7. /\ IpcInv'
      /\ halted' = "no" \/ (halted' = "deadlock" /\ Deadlock(FS, TTY))
      /\ halted' = "no" => Sent(FS, TTY, m)
    BY <1>1, <1>3, SendKeeps
<1>8. \A v \in User : DataKept(v)
    BY <1>1 DEF DataKept
<1>9. LinesOK' /\ \A e \in Console : TermHas(e)' = TermHas(e)
    BY <1>1, <1>8, TermsStay
<1>10. CASE halted' = "deadlock"
    <2>1. SendsTo(TTY, FS)
        BY <1>1, <1>7, <1>10, CircleIs
    <2>2. tt.at = "resumed"
        BY <1>5, <2>1, EntryIs DEF TtyOK, SendsTo, Awaiting
    <2> QED  BY <1>1, <1>4, <1>6, <1>7, <1>10, <2>2 DEF StopsOnlyOnCrossing
<1>11. ASSUME halted' = "no",
              FsOK' /\ FsHas' = u, TtyOK' /\ TtyHas' = TtyHas
       PROVE  TtyInv'
    <2>1. has_int_msg' = has_int_msg /\ \A v \in User : Kept(v)
        BY <1>7, <1>11 DEF Sent
    <2>2. ASSUME NEW v \in User PROVE UserOK(v)' /\ (Pending(v)' <=> Pending(v))
        BY <1>1, <2>1, UserStays
    <2>3. ASSUME NEW v \in User PROVE PlaceOK(v)'
        <3>1. fs'.src = u
            BY <1>4
        <3>2. SamePlace(v)
            BY <1>1, <1>5, <1>9, <1>11, <2>2, <3>1 DEF SamePlace
        <3> QED  BY <3>2, PlaceStays
    <2> QED  BY <1>6, <1>7, <1>9, <1>11, <2>1, <2>2, <2>3 DEF StopsOnlyOnCrossing
<1>12. CASE halted' = "no" /\ HandedOver(FS, TTY)
    <2>1. tt.at = "dispatch" /\ Receiving(TTY)
        BY <1>12, EntryIs DEF TtyOK, HandedOver, Awaits, SendsTo
    <2>2. /\ Ready(TTY)' /\ Ready(FS)'
          /\ buf'[TTY] = [source |-> FS, body |-> m]
        BY <1>1, <1>7, <1>12 DEF HandedOver, Sent, EntryKept, Ready
    <2>3. DevAsks(u, buf[TTY])' /\ FsWaits'
        BY <1>1, <1>3, <1>4, <2>2 DEF DevAsks, Asks, FsWaits
    <2>4. FsOK'
        BY <1>1, <1>4, <2>1, <2>2, <2>3 DEF FsOK, FsAsked, AtTty
    <2>5. TtyOK' /\ TtyHas' = TtyHas
        BY <1>1, <2>1, <2>2, <2>3 DEF TtyOK, TtyHas
    <2>6. FsHas' = u
        BY <1>4, <1>7, <2>2, EntryNext DEF FsHas, Suspending
    <2> QED  BY <1>11, <1>12, <2>4, <2>5, <2>6
<1>13. CASE halted' = "no" /\ Queued(FS, TTY)
    <2>1. Kept(TTY) /\ SendsTo(FS, TTY)' /\ buf'[FS] = [source |-> FS, body |-> m]
        BY <1>7, <1>13 DEF Queued, Sent
    <2>2. ~Sending(TTY)'
        <3>1. ~SendsTo(TTY, FS)'
            BY <1>7, <2>1, NoCrossingNext DEF SendsTo, Sending
        <3>2. ~Sending(TTY)
            BY <2>1, <3>1, SendersAre DEF SendsTo, Sending, Kept, EntryKept
        <3> QED  BY <2>1, <3>2 DEF Sending, Kept, EntryKept
    <2>3. FsOK'
        BY <1>1, <1>3, <1>4, <2>1 DEF FsOK, FsAsked, DevAsks, Asks
    <2>4. TtyOK' /\ TtyHas' = TtyHas
        BY <1>1, <1>5, <1>8, <2>1, TtyStays
    <2>5. FsHas' = u
        BY <1>4, <2>2 DEF FsHas, Suspending
    <2> QED  BY <1>11, <1>13, <2>3, <2>4, <2>5
<1> QED  BY <1>7, <1>10, <1>12, <1>13 DEF Sent

LEMMA FsAnsweredStep ==
    ASSUME Runs, FsAnswered
    PROVE  TtyInv'
<1> USE Facts DEF Runs, TtyInv, Working
<1>1. /\ fs.at = "asked" /\ fs' = [fs EXCEPT !.at = "reply"] /\ MsgReceive(FS, TTY)
      /\ UNCHANGED <<keys, current, tty_table, tt, mem, line, overtaken, user>>
    BY DEF FsAnswered, FsStep, ttyVars
<1>2. /\ IpcInv' /\ halted' = "no" /\ Ready(FS)
      /\ (\E q \in Proc : Taken(FS, q, TTY)) \/ Waits(FS, TTY)
    <2>1. FS \in Proc /\ TTY \in Source /\ ~has_int_msg[FS]
        BY DEF Source
    <2> QED  BY <1>1, <2>1, ReceiveKeeps DEF Interrupted
<1>3. fs.src \in User /\ FsWaits /\ AtTty(fs.src) /\ ~Sending(FS)
    BY <1>1, <1>2, EntryIs DEF FsOK, FsLoop, FsDispatch, FsAsked, FsReplies, SendsTo
<1> DEFINE u == fs.src
<1>4. fs = [at |-> "asked", src |-> u] /\ fs' = [at |-> "reply", src |-> u]
    BY <1>1 DEF TtyTypeOK
<1> HIDE DEF u
<1>5. u \in User /\ AtTty(u)
    BY <1>3 DEF u
<1>6. TtyTypeOK'
    <2>1. fs' \in [at : {"loop", "dispatch", "asked", "reply"}, src : User \cup {NO_TASK}]
        BY <1>4, <1>5
    <2> QED  BY <1>1, <2>1 DEF TtyTypeOK
<1>7. \A v \in User : DataKept(v)
    BY <1>1 DEF DataKept
<1>8. LinesOK' /\ \A e \in Console : TermHas(e)' = TermHas(e)
    BY <1>1, <1>7, TermsStay
<1>9. ASSUME FsOK' /\ FsHas' = FsHas, TtyOK' /\ TtyHas' = TtyHas,
             \A v \in User : Kept(v), has_int_msg' = has_int_msg
      PROVE  TtyInv'
    <2>1. ASSUME NEW v \in User PROVE UserOK(v)' /\ (Pending(v)' <=> Pending(v))
        BY <1>1, <1>9, UserStays
    <2>2. ASSUME NEW v \in User PROVE PlaceOK(v)'
        BY <1>1, <1>8, <1>9, <2>1, PlaceStays DEF SamePlace
    <2> QED  BY <1>2, <1>6, <1>8, <1>9, <2>1, <2>2 DEF StopsOnlyOnCrossing
<1>10. CASE \E q \in Proc : Taken(FS, q, TTY)
    <2>1. Taken(FS, TTY, TTY)
        BY <1>10 DEF Taken
    <2>2. /\ Ready(FS)' /\ Ready(TTY)' /\ buf'[FS] = buf[TTY] /\ has_int_msg' = has_int_msg
          /\ SendsTo(TTY, FS) /\ \A v \in User : Kept(v)
        BY <1>2, <2>1 DEF Taken, EntryKept, Ready
    <2>3. tt.at = "loop" /\ Answers(u, buf[TTY]) /\ Sending(TTY)
        BY <1>5, <2>2, EntryIs DEF AtTty, SendsTo
    <2>4. FsOK'
        BY <1>1, <1>4, <1>5, <2>2, <2>3 DEF FsOK, FsReplies, Answers
    <2>5. Suspending' <=> Suspending
        BY <1>4, <2>2, <2>3 DEF Suspending, Suspends
    <2>6. FsHas' = FsHas
        BY <1>4, <2>5 DEF FsHas
    <2>7. TtyOK' /\ TtyHas' = TtyHas
        BY <1>1, <2>2, <2>3 DEF TtyOK, TtyHas
    <2> QED  BY <1>9, <2>2, <2>4, <2>6, <2>7
<1>11. CASE Waits(FS, TTY)
    <2>1. /\ Awaiting(FS, TTY)' /\ has_int_msg' = has_int_msg /\ ~Ready(FS)'
          /\ Kept(TTY) /\ ~SendsTo(TTY, FS) /\ \A v \in User : Kept(v)
        BY <1>2, <1>11, EntryNext DEF Waits, Awaiting
    <2>2. tt.at = "dispatch" /\ Ready(TTY) /\ DevAsks(u, buf[TTY])
        BY <1>5, <2>1 DEF AtTty
    <2>3. /\ FsWaits' /\ Ready(TTY)' /\ buf'[TTY] = buf[TTY]
          /\ ~Sending(TTY) /\ ~Sending(TTY)'
        BY <1>4, <2>1, <2>2 DEF FsWaits, Kept, EntryKept, Ready, Sending
    <2>4. FsOK'
        BY <1>1, <1>4, <1>5, <2>2, <2>3 DEF FsOK, FsAsked, AtTty, DevAsks, Asks
    <2>5. ~Suspending /\ ~Suspending'
        BY <1>4, <2>1, <2>3 DEF Suspending
    <2>6. FsHas' = FsHas
        BY <1>4, <2>5 DEF FsHas
    <2>7. TtyOK' /\ TtyHas' = TtyHas
        BY <1>1, <1>7, <2>1, <2>3, TtyStays
    <2> QED  BY <1>9, <2>1, <2>4, <2>6, <2>7
<1> QED  BY <1>2, <1>10, <1>11

LEMMA FsResumeStep ==
    ASSUME Runs, FsResume
    PROVE  TtyInv'
<1> USE Facts DEF Runs, TtyInv, Working
<1>1. /\ fs.at = "dispatch" /\ Ready(FS) /\ buf[FS].body.type = "RESUME_PROC"
      /\ fs' = [at |-> "reply", src |-> buf[FS].body.PROC_NR]
      /\ UNCHANGED <<ipcVars, keys, current, tty_table, tt, mem, line, overtaken, user>>
    BY DEF FsResume, Resumed, Runnable, Ready, ttyVars
<1>2. PICK u \in User : Resuming(u, buf[FS])
    <2>1. FsDispatch
        BY <1>1 DEF FsOK, FsLoop, FsAsked, FsWaits, FsReplies
    <2>2. ~Awaiting(FS, ANY)
        BY <1>1, EntryIs DEF Awaiting
    <2>3. \A v \in User : user[v].call \in Call \cup {"none"}
        BY DEF TtyTypeOK
    <2> QED  BY <1>1, <2>1, <2>2, <2>3 DEF FsDispatch, Requested, Request, Asks
<1>3. fs' = [at |-> "reply", src |-> u]
    BY <1>1, <1>2 DEF Resuming
<1>4. TtyTypeOK'
    <2>1. fs' \in [at : {"loop", "dispatch", "asked", "reply"}, src : User \cup {NO_TASK}]
        BY <1>3
    <2> QED  BY <1>1, <2>1 DEF TtyTypeOK
<1>5. IpcInv'
    BY <1>1, StepInv
<1>6. /\ \A p \in Proc : Kept(p)
      /\ has_int_msg' = has_int_msg /\ halted' = "no"
    BY <1>1 DEF Kept, EntryKept, ipcVars
<1>7. Ready(FS)' /\ buf'[FS] = buf[FS]
    BY <1>1, <1>6 DEF Kept, EntryKept, Ready
<1>8. FsOK'
    BY <1>1, <1>2, <1>3, <1>7 DEF FsOK, FsReplies, Resuming, Returns, Read
<1>9. FsHas = u /\ FsHas' = u
    <2>1. FsHas = u
        BY <1>1, <1>2 DEF FsHas, Resuming, Resumed
    <2>2. ~Suspending'
        BY <1>1, <1>3, <1>7 DEF Suspending, Suspends
    <2> QED  BY <1>3, <2>1, <2>2 DEF FsHas
<1>10. \A v \in User : DataKept(v)
    BY <1>1 DEF DataKept
<1>11. LinesOK' /\ \A e \in Console : TermHas(e)' = TermHas(e)
    BY <1>1, <1>10, TermsStay
<1>12. TtyOK' /\ TtyHas' = TtyHas
    <2>1. ~FsWaits
        BY <1>1 DEF FsWaits
    <2> QED  BY <1>1, <1>6, <1>10, <2>1, TtyStays
<1>13. ASSUME NEW v \in User PROVE UserOK(v)' /\ (Pending(v)' <=> Pending(v))
    BY <1>1, <1>6, UserStays
<1>14. ASSUME NEW v \in User PROVE PlaceOK(v)'
    <2>1. fs'.src = u
        BY <1>3
    <2>2. SamePlace(v)
        BY <1>1, <1>9, <1>11, <1>12, <1>13, <2>1 DEF SamePlace
    <2> QED  BY <2>2, PlaceStays
<1> QED
    BY <1>4, <1>5, <1>6, <1>8, <1>11, <1>12, <1>13, <1>14 DEF StopsOnlyOnCrossing

\* A count that FS or TTY passes on is one of Mail.
LEMMA AnswerIs ==
    ASSUME NEW m \in Mail
    PROVE  Answer(m.CNT) \in Mail /\ Answer(m.CNT) \in Body /\ Answer(m.CNT).CNT = m.CNT
<1>1. m.CNT \in 0..MaxRead /\ 0 \in Console
    BY Facts DEF Mail, Console
<1>2. Answer(m.CNT) \in Mail
    BY <1>1 DEF Answer, Msg, Mail, MsgType
<1> QED  BY <1>2, Facts DEF Answer, Msg

LEMMA FsReplyStep ==
    ASSUME Runs, FsReply
    PROVE  TtyInv'
<1> USE Facts DEF Runs, TtyInv, Working
<1>1. /\ fs.at = "reply" /\ Ready(FS) /\ fs' = [at |-> "loop", src |-> NO_TASK]
      /\ IF Suspends THEN UNCHANGED ipcVars ELSE MsgSend(FS, fs.src, Answer(buf[FS].body.CNT))
      /\ UNCHANGED <<keys, current, tty_table, tt, mem, line, overtaken, user>>
    BY DEF FsReply, Runnable, Ready, ttyVars
<1>2. TtyTypeOK'
    <2>1. fs' \in [at : {"loop", "dispatch", "asked", "reply"}, src : User \cup {NO_TASK}]
        BY <1>1
    <2> QED  BY <1>1, <2>1 DEF TtyTypeOK
<1>3. /\ fs.src \in User
      /\ Answers(fs.src, buf[FS]) \/ Resuming(fs.src, buf[FS])
      /\ ~FsWaits
    <2>1. ~Awaiting(FS, TTY)
        BY <1>1, EntryIs DEF Awaiting
    <2>2. ~FsWaits
        BY <1>1, <2>1 DEF FsWaits
    <2>3. FsReplies
        BY <1>1, <2>2 DEF FsOK, FsLoop, FsDispatch, FsAsked
    <2> QED  BY <2>2, <2>3 DEF FsReplies
<1>4. \A v \in User : DataKept(v)
    BY <1>1 DEF DataKept
<1>5. LinesOK' /\ \A e \in Console : TermHas(e)' = TermHas(e)
    BY <1>1, <1>4, TermsStay
<1>6. ASSUME NEW v \in User, Kept(v) PROVE UserOK(v)' /\ (Pending(v)' <=> Pending(v))
    BY <1>1, <1>6, UserStays
<1>7. CASE Suspends
    <2>1. IpcInv'
        BY <1>1, <1>7, StepInv
    <2>2. /\ \A p \in Proc : Kept(p)
          /\ has_int_msg' = has_int_msg /\ halted' = "no"
        BY <1>1, <1>7 DEF Kept, EntryKept, ipcVars
    <2>3. Ready(FS)'
        BY <1>1, <2>2 DEF Kept, EntryKept, Ready
    <2>4. FsHas = NO_TASK
        BY <1>1, <1>7 DEF FsHas, Suspending
    <2>5. FsHas' = NO_TASK /\ FsOK'
        BY <1>1, <2>1, <2>3, EntryNext DEF FsHas, FsOK, FsLoop
    <2>6. TtyOK' /\ TtyHas' = TtyHas
        BY <1>1, <1>3, <1>4, <2>2, TtyStays
    <2>7. ASSUME NEW v \in User PROVE UserOK(v)' /\ PlaceOK(v)'
        BY <1>1, <1>5, <1>6, <2>2, <2>4, <2>5, <2>6, PlaceStays DEF SamePlace
    <2> QED
        BY <1>2, <1>5, <2>1, <2>2, <2>5, <2>6, <2>7 DEF StopsOnlyOnCrossing
<1>8. CASE ~Suspends
    <2>1. PICK u \in User, m \in Mail : u = fs.src /\ m = buf[FS].body
        BY <1>3 DEF Answers, Resuming
    <2>2. PICK n \in Mail \cap Body : n = Answer(m.CNT) /\ n.CNT = m.CNT
        BY AnswerIs
    <2>3. u \in User /\ FsHas = u /\ MsgSend(FS, u, n) /\ Returns(u, n)
        <3>1. Returns(fs.src, buf[FS].body)
            BY <1>3, <1>8 DEF Answers, Resuming, Returns, Suspends
        <3>2. Returns(u, n)
            BY <2>1, <2>2, <3>1 DEF Returns
        <3>3. ~Suspending
            BY <1>1, <1>8 DEF Suspending
        <3> QED  BY <1>1, <1>8, <2>1, <2>2, <3>2, <3>3 DEF FsHas
    <2>4. Pending(u) /\ ~Sending(u) /\ UserOK(u) /\ PlaceOK(u)
        BY <2>3, SendersAre DEF PlaceOK, Held
    <2>5. IpcInv' /\ halted' = "no" /\ Sent(FS, u, n)
        <3>1. ~Deadlock(FS, u)
            BY <1>1, <2>3, <2>4, CircleIs
        <3> QED  BY <2>3, <3>1, SendKeeps
    <2>6. /\ has_int_msg' = has_int_msg /\ buf'[FS] = [source |-> FS, body |-> n]
          /\ Kept(TTY) /\ \A v \in User \ {u} : Kept(v)
        BY <2>3, <2>5 DEF Sent
    <2>7. TtyOK' /\ TtyHas' = TtyHas
        BY <1>1, <1>3, <1>4, <2>6, TtyStays
    <2>8. Returns(u, n)'
        BY <1>1, <2>3 DEF Returns, Read
    <2>9. CASE HandedOver(FS, u)
        <3>1. Ready(FS)' /\ Ready(u)' /\ buf'[u] = [source |-> FS, body |-> n]
            BY <1>1, <2>6, <2>9 DEF HandedOver, EntryKept, Ready
        <3>2. user[u].at = "received"
            BY <2>3, <2>4, <2>9, EntryIs DEF HandedOver, Awaits, Pending
        <3>3. FsOK' /\ FsHas' = NO_TASK
            BY <1>1, <2>5, <3>1, EntryNext DEF FsOK, FsLoop, FsHas
        <3>4. UserOK(u)'
            BY <1>1, <2>4, <2>8, <3>1, <3>2 DEF UserOK
        <3>5. ~Pending(u)'
            BY <1>1, <2>3, <2>5, <3>1, <3>2, EntryNext DEF Pending, Awaiting
        <3>6. PlaceOK(u)'
            <4>1. fs'.src = NO_TASK /\ FsHas' # u
                BY <1>1, <3>3
            <4>2. TtyHas' # u /\ \A c \in Console : TermHas(c)' # u
                BY <1>5, <2>3, <2>4, <2>7 DEF PlaceOK
            <4> QED  BY <3>5, <4>1, <4>2 DEF PlaceOK, Held
        <3>7. ASSUME NEW v \in User \ {u} PROVE UserOK(v)' /\ PlaceOK(v)'
            BY <1>1, <1>5, <1>6, <2>3, <2>6, <2>7, <3>3, PlaceStays DEF SamePlace
        <3> QED
            BY <1>2, <1>5, <2>5, <2>6, <2>7, <3>3, <3>4, <3>6, <3>7 DEF StopsOnlyOnCrossing
    <2>10. CASE Queued(FS, u)
        <3>1. SendsTo(FS, u)' /\ Kept(u)
            BY <2>10 DEF Queued
        <3>2. FsOK'
            BY <1>1, <2>3, <2>6, <2>8, <3>1 DEF FsOK, FsLoop
        <3>3. FsHas' = u
            BY <1>1, <3>1 DEF FsHas, SendsTo
        <3>4. ASSUME NEW v \in User PROVE UserOK(v)' /\ PlaceOK(v)'
            BY <1>1, <1>5, <1>6, <2>3, <2>6, <2>7, <3>1, <3>3, PlaceStays DEF SamePlace
        <3> QED
            BY <1>2, <1>5, <2>5, <2>6, <2>7, <3>2, <3>4 DEF StopsOnlyOnCrossing
    <2> QED  BY <2>5, <2>9, <2>10 DEF Sent
<1> QED  BY <1>7, <1>8

-----------------------------------------------------------------------------
(* The keyboard *)

\* A key press, or nothing at all, running or not.
LEMMA OnlyKeysStep ==
    ASSUME TtyInv, keys' \in Seq(Key),
           UNCHANGED <<ipcVars, current, tty_table, tt, mem, line, overtaken, fs, user>>
    PROVE  TtyInv'
<1> USE Facts DEF TtyInv
<1>1. UNCHANGED <<ipcVars, current, tty_table, tt, mem, line, overtaken, fs, user>>
    OBVIOUS
<1>2. TtyTypeOK'
    BY <1>1 DEF TtyTypeOK
<1>3. IpcInv' /\ StopsOnlyOnCrossing'
    BY <1>1, StepInv DEF ipcVars, StopsOnlyOnCrossing
<1>4. CASE halted = "no"
    <2> USE DEF Working
    <2>1. /\ \A p \in Proc : Kept(p)
          /\ has_int_msg' = has_int_msg /\ halted' = "no"
        BY <1>1, <1>4 DEF Kept, EntryKept, ipcVars
    <2>2. \A v \in User : DataKept(v)
        BY <1>1 DEF DataKept
    <2>3. /\ FsOK' /\ TtyOK' /\ LinesOK'
          /\ FsHas' = FsHas /\ TtyHas' = TtyHas
          /\ \A e \in Console : TermHas(e)' = TermHas(e)
        BY <1>1, <1>4, <2>1, <2>2, TasksStay DEF Runs
    <2>4. ASSUME NEW v \in User PROVE UserOK(v)' /\ (Pending(v)' <=> Pending(v))
        BY <1>1, <1>4, <2>1, UserStays
    <2>5. ASSUME NEW v \in User PROVE PlaceOK(v)'
        BY <1>1, <1>4, <2>3, <2>4, PlaceStays DEF SamePlace
    <2> QED  BY <1>2, <1>3, <1>4, <2>1, <2>3, <2>4, <2>5
<1>5. CASE halted # "no"
    BY <1>1, <1>2, <1>3, <1>5 DEF ipcVars
<1> QED  BY <1>4, <1>5

LEMMA PressStep ==
    ASSUME TtyInv, NEW k \in Key, Press(k)
    PROVE  TtyInv'
<1>1. keys' \in Seq(Key)
    BY AppendProperties DEF Press, TtyInv, TtyTypeOK
<1> QED  BY <1>1, OnlyKeysStep DEF Press

LEMMA ClockStep ==
    ASSUME Runs, Clock
    PROVE  TtyInv'
<1> USE Facts DEF Runs, TtyInv, Working
<1>1. /\ InformInt(TTY)
      /\ UNCHANGED <<keys, current, tty_table, tt, mem, line, overtaken, fs, user>>
    BY DEF Clock, ttyVars
<1>2. /\ IpcInv' /\ halted' = "no"
      /\ \A q \in Proc \ {TTY} : Kept(q) /\ has_int_msg'[q] = has_int_msg[q]
      /\ Kept(TTY) \/ (Awaits(TTY, INTERRUPT) /\ Ready(TTY)' /\ buf'[TTY] = IntMessage)
    BY <1>1, InformKeeps
<1>3. TtyTypeOK'
    BY <1>1 DEF TtyTypeOK
<1>4. \A v \in User : DataKept(v)
    BY <1>1 DEF DataKept
<1>5. ASSUME NEW v \in User PROVE UserOK(v)' /\ (Pending(v)' <=> Pending(v))
    BY <1>1, <1>2, UserStays
<1>6. CASE Kept(TTY)
    <2>1. /\ FsOK' /\ TtyOK' /\ LinesOK'
          /\ FsHas' = FsHas /\ TtyHas' = TtyHas
          /\ \A e \in Console : TermHas(e)' = TermHas(e)
        BY <1>1, <1>2, <1>4, <1>6, TasksStay
    <2>2. ASSUME NEW v \in User PROVE PlaceOK(v)'
        BY <1>1, <1>5, <2>1, PlaceStays DEF SamePlace
    <2> QED  BY <1>2, <1>3, <1>5, <2>1, <2>2 DEF StopsOnlyOnCrossing
<1>7. CASE Awaits(TTY, INTERRUPT) /\ Ready(TTY)' /\ buf'[TTY] = IntMessage
    <2>1. tt.at = "dispatch" /\ ~Ready(TTY) /\ ~Sending(TTY)
        BY <1>7, EntryIs DEF TtyOK, Awaits, SendsTo
    <2>2. ~FsWaits
        BY <2>1, EntryIs DEF FsOK, FsLoop, FsDispatch, FsAsked, FsReplies, FsWaits, AtTty,
                             SendsTo, Awaiting
    <2>3. TtyOK' /\ TtyHas' = TtyHas
        BY <1>1, <1>7, <2>1 DEF TtyOK, TtyHas, IntMessage
    <2>4. LinesOK' /\ \A e \in Console : TermHas(e)' = TermHas(e)
        BY <1>1, <1>4, TermsStay
    <2>5. FsOK'
        BY <1>1, <1>2, <1>4, <2>2, FsStays
    <2>6. FsHas' = FsHas
        <3>1. Suspending' <=> Suspending
            BY <1>1, <1>2, <1>7, <2>1, EntryNext
            DEF Suspending, Suspends, Kept, EntryKept, Ready
        <3> QED  BY <1>1, <1>2, <3>1, FsHasStays
    <2>7. ASSUME NEW v \in User PROVE PlaceOK(v)'
        BY <1>1, <1>5, <2>3, <2>4, <2>6, PlaceStays DEF SamePlace
    <2> QED  BY <1>2, <1>3, <1>5, <2>3, <2>4, <2>5, <2>7 DEF StopsOnlyOnCrossing
<1> QED  BY <1>2, <1>6, <1>7

-----------------------------------------------------------------------------
(* TTY: the terminals *)

\* The character that goes to place n + 1 of a buffer ends its first n + 1.
LEMMA PutAtIs ==
    ASSUME NEW S, NEW s \in Seq(S), NEW n \in Nat, n <= Len(s), NEW x \in S
    PROVE  /\ PutAt(s, n + 1, x) \in Seq(S) /\ n + 1 <= Len(PutAt(s, n + 1, x))
           /\ SubSeq(PutAt(s, n + 1, x), 1, n + 1) = Append(SubSeq(s, 1, n), x)
<1> DEFINE p == PutAt(s, n + 1, x)
<1>1. p \in Seq(S) /\ n + 1 <= Len(p) /\ p[n + 1] = x /\ \A i \in 1..n : p[i] = s[i]
    <2>1. CASE n + 1 <= Len(s)
        <3>1. p = [s EXCEPT ![n + 1] = x]
            BY <2>1 DEF PutAt
        <3> HIDE DEF p
        <3> QED  BY <2>1, <3>1, ExceptSeq, LenProperties
    <2>2. CASE ~(n + 1 <= Len(s))
        <3>1. p = Append(s, x) /\ Len(s) = n
            BY <2>2, LenProperties DEF PutAt
        <3> HIDE DEF p
        <3> QED  BY <3>1, AppendProperties
    <2> QED  BY <2>1, <2>2
<1> HIDE DEF p
<1> DEFINE a == SubSeq(p, 1, n + 1)
           b == SubSeq(s, 1, n)
<1>2. a \in Seq(S) /\ Len(a) = n + 1 /\ \A i \in 1..(n + 1) : a[i] = p[i]
    BY <1>1, SubSeqProperties
<1>3. b \in Seq(S) /\ Len(b) = n /\ \A i \in 1..n : b[i] = s[i]
    BY SubSeqProperties
<1> HIDE DEF a, b
<1>4. /\ Append(b, x) \in Seq(S) /\ Len(Append(b, x)) = n + 1
      /\ \A i \in 1..n : Append(b, x)[i] = b[i]
      /\ Append(b, x)[n + 1] = x
    BY <1>3, AppendProperties
<1>5. \A i \in 1..(n + 1) : a[i] = Append(b, x)[i]
    <2>1. \A i \in 1..(n + 1) : i \in 1..n \/ i = n + 1
        OBVIOUS
    <2> QED  BY <1>1, <1>2, <1>3, <1>4, <2>1
<1>6. a = Append(b, x)
    BY <1>2, <1>4, <1>5, SeqEqual
<1> QED  BY <1>1, <1>6 DEF a, b, p

LEMMA FrontIs ==
    ASSUME NEW S, NEW s \in Seq(S), NEW n \in Nat \ {0}, n <= Len(s)
    PROVE  Front(SubSeq(s, 1, n)) = SubSeq(s, 1, n - 1)
<1> DEFINE a == SubSeq(s, 1, n)
           b == SubSeq(s, 1, n - 1)
<1>1. a \in Seq(S) /\ Len(a) = n /\ \A i \in 1..n : a[i] = s[i]
    BY SubSeqProperties
<1>2. b \in Seq(S) /\ Len(b) = n - 1 /\ \A i \in 1..(n - 1) : b[i] = s[i]
    BY SubSeqProperties
<1> HIDE DEF a, b
<1> DEFINE c == SubSeq(a, 1, n - 1)
<1>3. c \in Seq(S) /\ Len(c) = n - 1 /\ \A i \in 1..(n - 1) : c[i] = a[i]
    BY <1>1, SubSeqProperties
<1> HIDE DEF c
<1>4. c = b
    BY <1>1, <1>2, <1>3, SeqEqual
<1> QED  BY <1>1, <1>4 DEF Front, a, b, c

Terminal == [ibuf : Seq(Key \ {"shift Fn"}), tty_procnr : User \cup {NO_TASK},
             tty_left_cnt : 0..MaxRead, tty_trans_cnt : 0..MaxRead]

LEMMA NextIs ==
    ASSUME NEW c \in Console
    PROVE  0 \in Console /\ (c + 1 # NR_CONSOLES => c + 1 \in Console)
BY Facts DEF Console

LEMMA NoneLeft == 0 \in 0..MaxRead
BY Facts

\* The table when one of its entries changes.
LEMMA TableIs ==
    ASSUME TtyTypeOK, NEW c \in Console, NEW t \in Terminal,
           tty_table' = [tty_table EXCEPT ![c] = t]
    PROVE  /\ tty_table' \in [Console -> Terminal] /\ tty_table'[c] = t
           /\ \A d \in Console \ {c} : tty_table'[d] = tty_table[d]
<1>1. tty_table \in [Console -> Terminal]
    BY DEF TtyTypeOK, Terminal
<1> QED  BY <1>1

\* The entries of the table, field by field.
LEMMA EntriesAre ==
    ASSUME TtyTypeOK, NEW c \in Console
    PROVE  /\ tty_table[c] \in Terminal /\ tty_table[c].ibuf \in Seq(Key \ {"shift Fn"})
           /\ tty_table[c].tty_procnr \in User \cup {NO_TASK}
           /\ tty_table[c].tty_left_cnt \in 0..MaxRead
           /\ tty_table[c].tty_trans_cnt \in 0..MaxRead
<1>1. tty_table[c] \in Terminal
    BY DEF TtyTypeOK, Terminal
<1> QED  BY <1>1 DEF Terminal

\* While TTY is at work with its terminals, FS waits for no answer of it.
LEMMA TtyAlone ==
    ASSUME Runs, Ready(TTY), ~(tt.at = "dispatch" /\ buf[TTY].source = FS)
    PROVE  ~FsWaits
<1>1. ~Sending(TTY) /\ FsOK
    BY Facts, EntryIs DEF Runs, TtyInv, Working
<1>2. ASSUME FsWaits PROVE FALSE
    <2>1. FsAsked
        BY <1>1, <1>2, EntryIs, Facts
        DEF FsOK, FsLoop, FsDispatch, FsReplies, FsWaits, Awaiting, Runs, TtyInv
    <2>2. AtTty(fs.src)
        BY <1>2, <2>1, EntryIs, Facts
        DEF FsAsked, FsWaits, SendsTo, Runs, TtyInv
    <2> QED  BY <1>1, <2>2 DEF AtTty, DevAsks, SendsTo
<1> QED  BY <1>2

\* A step of TTY alone: what it leaves of the processes and of FS.
LEMMA TtyAloneStep ==
    ASSUME Runs, Ready(TTY), ~(tt.at = "dispatch" /\ buf[TTY].source = FS),
           UNCHANGED <<ipcVars, fs, user>>, tt'.at # "dispatch",
           \A u \in User : (line'[u] = line[u] /\ mem'[u] = mem[u])
                           \/ (Pending(u) /\ FsHas # u)
    PROVE  /\ IpcInv' /\ StopsOnlyOnCrossing' /\ halted' = "no"
           /\ has_int_msg' = has_int_msg /\ ~Sending(TTY)'
           /\ \A u \in User : UserOK(u)' /\ (Pending(u)' <=> Pending(u))
           /\ FsOK' /\ TtyOK' /\ FsHas' = FsHas
<1> USE Facts DEF Runs, TtyInv, Working
<1>1. IpcInv'
    BY StepInv
<1>2. /\ \A p \in Proc : Kept(p)
      /\ has_int_msg' = has_int_msg /\ halted' = "no"
    BY DEF Kept, EntryKept, ipcVars
<1>3. Ready(TTY)' /\ ~Sending(TTY)'
    BY <1>1, <1>2, EntryNext DEF Kept, EntryKept, Ready
<1>4. TtyOK'
    BY <1>3 DEF TtyOK
<1>5. ~FsWaits
    BY TtyAlone
<1>6. \A u \in User : FsHas = u => DataKept(u)
    BY DEF DataKept
<1>7. FsOK'
    BY <1>2, <1>5, <1>6, FsStays
<1>8. FsHas' = FsHas
    BY <1>2, SuspendingStays, FsHasStays
<1>9. ASSUME NEW u \in User PROVE UserOK(u)' /\ (Pending(u)' <=> Pending(u))
    BY <1>2, UserStays
<1> QED
    BY <1>1, <1>2, <1>3, <1>4, <1>7, <1>8, <1>9 DEF StopsOnlyOnCrossing

\* A step of TTY alone that no reader notices.
LEMMA TtyQuietStep ==
    ASSUME Runs, Ready(TTY), ~(tt.at = "dispatch" /\ buf[TTY].source = FS),
           UNCHANGED <<ipcVars, fs, user, mem, line, overtaken>>,
           tt.at # "resume", tt'.at \notin {"dispatch", "resume", "resumed"}, TtyTypeOK',
           \A c \in Console :
              /\ Serves(c)' <=> Serves(c)
              /\ Serves(c) =>
                    /\ tty_table'[c].tty_procnr = tty_table[c].tty_procnr
                    /\ tty_table'[c].tty_left_cnt = tty_table[c].tty_left_cnt
                    /\ tty_table'[c].tty_trans_cnt = tty_table[c].tty_trans_cnt
    PROVE  TtyInv'
<1> USE Facts DEF Runs, TtyInv, Working
<1>1. /\ IpcInv' /\ StopsOnlyOnCrossing' /\ halted' = "no"
      /\ has_int_msg' = has_int_msg /\ ~Sending(TTY)'
      /\ \A u \in User : UserOK(u)' /\ (Pending(u)' <=> Pending(u))
      /\ FsOK' /\ TtyOK' /\ FsHas' = FsHas
    BY TtyAloneStep
<1>2. TtyHas = NO_TASK /\ TtyHas' = NO_TASK
    BY EntryIs DEF TtyHas
<1>3. \A c \in Console : TermHas(c)' = TermHas(c)
    BY DEF TermHas
<1>4. LinesOK'
    <2>1. ASSUME NEW c \in Console, Serves(c)'
          PROVE  LET t == tty_table'[c]
                 IN  /\ t.tty_procnr \in User /\ user'[t.tty_procnr].call = "READ"
                     /\ Read(t.tty_procnr, t.tty_trans_cnt)
                     /\ t.tty_left_cnt + t.tty_trans_cnt <= MaxRead
        BY <2>1 DEF LinesOK
    <2> QED  BY <2>1 DEF LinesOK, Read
<1>5. ASSUME NEW u \in User PROVE PlaceOK(u)'
    BY <1>1, <1>2, <1>3, PlaceStays DEF SamePlace
<1> QED  BY <1>1, <1>4, <1>5

LEMMA InProcessStep ==
    ASSUME Runs, InProcess
    PROVE  TtyInv'
<1> USE Facts DEF Runs, TtyInv, Working
<1>1. /\ tt.at \in {"read", "loop"} /\ Ready(TTY) /\ keys # <<>>
      /\ keys' = Tail(keys) /\ tt' = [tt EXCEPT !.at = "read"]
      /\ UNCHANGED <<ipcVars, mem, line, overtaken, fs, user>>
    BY DEF InProcess, Reading, Runnable, Ready, Goto
<1>2. tt'.at = "read" /\ tt'.nr = tt.nr /\ tt.nr \in Console
    BY <1>1 DEF TtyTypeOK
<1>3. keys' \in Seq(Key) /\ Head(keys) \in Key
    BY <1>1, HeadTailProperties DEF TtyTypeOK
<1>4. /\ current' \in Console
      /\ \/ tty_table' = tty_table
         \/ /\ Head(keys) # "shift Fn"
            /\ tty_table' = [tty_table EXCEPT ![tt.nr].ibuf = Append(@, Head(keys))]
    BY DEF InProcess, SelectConsole, This, TtyTypeOK
<1>5. /\ tty_table' \in [Console -> Terminal]
      /\ \A c \in Console : /\ tty_table'[c].tty_procnr = tty_table[c].tty_procnr
                            /\ tty_table'[c].tty_left_cnt = tty_table[c].tty_left_cnt
                            /\ tty_table'[c].tty_trans_cnt = tty_table[c].tty_trans_cnt
    <2>1. CASE tty_table' = tty_table
        BY <2>1 DEF TtyTypeOK, Terminal
    <2>2. CASE /\ Head(keys) # "shift Fn"
               /\ tty_table' = [tty_table EXCEPT ![tt.nr].ibuf = Append(@, Head(keys))]
        <3> DEFINE old == tty_table[tt.nr]
                   new == [old EXCEPT !.ibuf = Append(old.ibuf, Head(keys))]
        <3>1. Append(old.ibuf, Head(keys)) \in Seq(Key \ {"shift Fn"})
            BY <1>2, <1>3, <2>2, AppendProperties, EntriesAre
        <3>2. old \in Terminal
            BY <1>2, EntriesAre
        <3>3. /\ new \in Terminal /\ new.tty_procnr = old.tty_procnr
              /\ new.tty_left_cnt = old.tty_left_cnt
              /\ new.tty_trans_cnt = old.tty_trans_cnt
            BY <3>1, <3>2 DEF Terminal
        <3>4. tty_table' = [tty_table EXCEPT ![tt.nr] = new]
            BY <2>2
        <3> HIDE DEF new
        <3> QED  BY <1>2, <3>3, <3>4, TableIs
    <2> QED  BY <1>4, <2>1, <2>2
<1>6. TtyTypeOK'
    <2>1. tt' \in [at : {"loop", "read", "write", "resume", "resumed", "receive", "dispatch"},
                   nr : Console]
        BY <1>1 DEF TtyTypeOK
    <2> QED  BY <1>1, <1>3, <1>4, <1>5, <2>1 DEF TtyTypeOK, Terminal
<1>7. \A c \in Console : Serves(c)' <=> Serves(c)
    BY <1>1, <1>2, <1>5 DEF Serves
<1> QED  BY <1>1, <1>2, <1>5, <1>6, <1>7, TtyQuietStep

LEMMA ReadDoneStep ==
    ASSUME Runs, ReadDone
    PROVE  TtyInv'
<1> USE Facts DEF Runs, TtyInv, Working
<1>1. /\ tt.at \in {"read", "loop"} /\ Ready(TTY) /\ tt' = [tt EXCEPT !.at = "write"]
      /\ UNCHANGED <<ipcVars, keys, current, tty_table, mem, line, overtaken, fs, user>>
    BY DEF ReadDone, At, Runnable, Ready, Goto
<1>2. tt'.at = "write" /\ tt'.nr = tt.nr /\ tt' \in [at : {"write"}, nr : Console]
    BY <1>1 DEF TtyTypeOK
<1>3. TtyTypeOK'
    BY <1>1, <1>2 DEF TtyTypeOK
<1>4. \A c \in Console : Serves(c)' <=> Serves(c)
    BY <1>1, <1>2 DEF Serves
<1> QED  BY <1>1, <1>2, <1>3, <1>4, TtyQuietStep

LEMMA WriteDoneStep ==
    ASSUME Runs, WriteDone
    PROVE  TtyInv'
<1> USE Facts DEF Runs, TtyInv, Working
<1>1. /\ tt.at = "write" /\ Ready(TTY) /\ tt' = NextTty
      /\ UNCHANGED <<ipcVars, keys, current, tty_table, mem, line, overtaken, fs, user>>
    BY DEF WriteDone, At, Runnable, Ready
<1>2. tt' \in [at : {"loop", "receive"}, nr : Console]
    <2>1. tt.nr \in Console
        BY DEF TtyTypeOK
    <2>2. 0 \in Console /\ (tt.nr + 1 # NR_CONSOLES => tt.nr + 1 \in Console)
        BY <2>1, NextIs
    <2> QED  BY <1>1, <2>2 DEF NextTty
<1>3. TtyTypeOK'
    BY <1>1, <1>2 DEF TtyTypeOK
<1>4. \A c \in Console : Serves(c)' <=> Serves(c)
    BY <1>1, <1>2 DEF Serves
<1> QED  BY <1>1, <1>2, <1>3, <1>4, TtyQuietStep

LEMMA TtyHardIntStep ==
    ASSUME Runs, TtyHardInt
    PROVE  TtyInv'
<1> USE Facts DEF Runs, TtyInv, Working
<1>1. /\ tt.at = "dispatch" /\ buf[TTY].source = INTERRUPT
      /\ Ready(TTY) /\ tt' = [tt EXCEPT !.at = "loop"]
      /\ UNCHANGED <<ipcVars, keys, current, tty_table, mem, line, overtaken, fs, user>>
    BY DEF TtyHardInt, At, Runnable, Ready, Goto
<1>2. tt'.at = "loop" /\ tt' \in [at : {"loop"}, nr : Console]
    BY <1>1 DEF TtyTypeOK
<1>3. TtyTypeOK'
    BY <1>1, <1>2 DEF TtyTypeOK
<1>4. \A c \in Console : Serves(c)' <=> Serves(c)
    BY <1>1, <1>2 DEF Serves
<1> QED  BY <1>1, <1>2, <1>3, <1>4, TtyQuietStep

LEMMA DevResumedStep ==
    ASSUME Runs, DevResumed
    PROVE  TtyInv'
<1> USE Facts DEF Runs, TtyInv, Working
<1>1. /\ tt.at = "resumed" /\ Ready(TTY) /\ tt' = [tt EXCEPT !.at = "write"]
      /\ tty_table' = [tty_table EXCEPT ![tt.nr].tty_left_cnt = 0]
      /\ UNCHANGED <<ipcVars, keys, current, mem, line, overtaken, fs, user>>
    BY DEF DevResumed, At, Runnable, Ready, Goto
<1>2. tt'.at = "write" /\ tt'.nr = tt.nr /\ tt' \in [at : {"write"}, nr : Console]
    BY <1>1 DEF TtyTypeOK
<1>3. /\ tty_table'[tt.nr].tty_left_cnt = 0
      /\ \A c \in Console \ {tt.nr} : tty_table'[c] = tty_table[c]
      /\ tty_table' \in [Console -> Terminal] /\ tt.nr \in Console
    <2> DEFINE new == [tty_table[tt.nr] EXCEPT !.tty_left_cnt = 0]
    <2>1. tt.nr \in Console
        BY DEF TtyTypeOK
    <2>2. new \in Terminal /\ new.tty_left_cnt = 0
        <3>1. tty_table[tt.nr] \in Terminal
            BY <2>1, EntriesAre
        <3>2. 0 \in 0..MaxRead
            BY NoneLeft
        <3> QED  BY <3>1, <3>2 DEF Terminal
    <2>3. tty_table' = [tty_table EXCEPT ![tt.nr] = new]
        BY <1>1
    <2> HIDE DEF new
    <2> QED  BY <2>1, <2>2, <2>3, TableIs
<1>4. TtyTypeOK'
    BY <1>1, <1>2, <1>3 DEF TtyTypeOK, Terminal
<1>5. \A c \in Console : (Serves(c)' <=> Serves(c)) /\ (Serves(c) => tty_table'[c] = tty_table[c])
    BY <1>1, <1>2, <1>3 DEF Serves
<1> QED  BY <1>1, <1>2, <1>4, <1>5, TtyQuietStep

\* Counting and editing go together: the counts after a key describe the
\* line after it.
\* The first n characters of a line.
LEMMA Shortened ==
    ASSUME NEW S, NEW s \in Seq(S), NEW n \in Nat, n <= Len(s)
    PROVE  SubSeq(s, 1, n) \in Seq(S) /\ Len(SubSeq(s, 1, n)) = n
<1>1. \A i \in 1..n : s[i] \in S
    OBVIOUS
<1> QED  BY <1>1, SubSeqProperties

LEMMA CountIs ==
    ASSUME TtyTypeOK, NEW u \in User, NEW k,
           NEW left \in 1..MaxRead, NEW trans \in 0..MaxRead, left + trans <= MaxRead,
           Read(u, trans),
           line'[u] = Edited(line[u], k),
           mem'[u] = IF k \in Letter THEN PutAt(mem[u], trans + 1, k) ELSE mem[u]
    PROVE  LET n == Count(left, trans, k)
           IN  /\ n.left \in 0..MaxRead /\ n.trans \in 0..MaxRead
               /\ n.left + n.trans <= MaxRead /\ Read(u, n.trans)'
               /\ line'[u] \in Seq(Letter) /\ mem'[u] \in Seq(Letter)
<1>1. MaxRead \in Nat
    BY Facts
<1>2. /\ line[u] \in Seq(Letter) /\ mem[u] \in Seq(Letter)
      /\ trans = Len(line[u]) /\ trans <= Len(mem[u]) /\ SubSeq(mem[u], 1, trans) = line[u]
    <2>1. line[u] \in Seq(Letter) /\ mem[u] \in Seq(Letter)
        BY DEF TtyTypeOK
    <2> QED  BY <2>1 DEF Read
<1>3. left \in Nat /\ trans \in Nat /\ left > 0
    BY <1>1
<1>4. CASE k \in Letter
    <2>1. Count(left, trans, k) = [left |-> left - 1, trans |-> trans + 1]
        BY <1>4 DEF Count
    <2>2. line'[u] = Append(line[u], k) /\ mem'[u] = PutAt(mem[u], trans + 1, k)
        BY <1>4 DEF Edited
    <2>3. /\ line'[u] \in Seq(Letter) /\ Len(line'[u]) = trans + 1
        BY <1>2, <1>4, <2>2, AppendProperties
    <2>4. /\ mem'[u] \in Seq(Letter) /\ trans + 1 <= Len(mem'[u])
          /\ SubSeq(mem'[u], 1, trans + 1) = line'[u]
        <3>1. /\ PutAt(mem[u], trans + 1, k) \in Seq(Letter)
              /\ trans + 1 <= Len(PutAt(mem[u], trans + 1, k))
              /\ SubSeq(PutAt(mem[u], trans + 1, k), 1, trans + 1)
                      = Append(SubSeq(mem[u], 1, trans), k)
            BY <1>2, <1>4, <1>3, PutAtIs
        <3> QED  BY <1>2, <2>2, <3>1
    <2>5. Read(u, trans + 1)'
        BY <2>3, <2>4 DEF Read
    <2>6. left - 1 \in 0..MaxRead /\ trans + 1 \in 0..MaxRead
          /\ (left - 1) + (trans + 1) <= MaxRead
        BY <1>1, <1>3
    <2> QED  BY <2>1, <2>3, <2>4, <2>5, <2>6
<1>5. CASE k = "BACKSPACE" /\ trans > 0
    <2>1. k \notin Letter
        BY <1>5, TtyAssumption
    <2>2. Count(left, trans, k) = [left |-> left + 1, trans |-> trans - 1]
        BY <1>5, <2>1 DEF Count
    <2>3. line[u] # <<>>
        BY <1>2, <1>5, EmptySeq
    <2>4. line'[u] = Front(line[u]) /\ mem'[u] = mem[u]
        BY <1>5, <2>1, <2>3 DEF Edited
    <2>5. line'[u] = SubSeq(mem[u], 1, trans - 1)
        <3>1. Front(SubSeq(mem[u], 1, trans)) = SubSeq(mem[u], 1, trans - 1)
            BY <1>2, <1>5, <1>3, FrontIs
        <3> QED  BY <1>2, <2>4, <3>1
    <2>6. line'[u] \in Seq(Letter) /\ Len(line'[u]) = trans - 1
        <3>1. trans - 1 \in Nat /\ trans - 1 <= Len(mem[u])
            BY <1>2, <1>5, <1>3, LenProperties
        <3> QED  BY <1>2, <2>5, <3>1, Shortened
    <2>7. Read(u, trans - 1)'
        BY <1>2, <1>5, <2>4, <2>5, <2>6 DEF Read
    <2>8. left + 1 \in 0..MaxRead /\ trans - 1 \in 0..MaxRead
          /\ (left + 1) + (trans - 1) <= MaxRead
        BY <1>1, <1>5, <1>3
    <2>9. Count(left, trans, k).left = left + 1 /\ Count(left, trans, k).trans = trans - 1
        BY <2>2
    <2> QED  BY <1>2, <2>4, <2>6, <2>7, <2>8, <2>9
<1>6. CASE k \notin Letter /\ ~(k = "BACKSPACE" /\ trans > 0)
    <2>1. Count(left, trans, k) = [left |-> left, trans |-> trans]
        BY <1>6 DEF Count
    <2>2. line[u] # <<>> => trans > 0
        BY <1>2, <1>3, LenProperties
    <2>3. line'[u] = line[u] /\ mem'[u] = mem[u]
        BY <1>6, <2>2 DEF Edited
    <2>4. Read(u, trans)'
        BY <2>3 DEF Read
    <2> QED  BY <1>2, <2>1, <2>3, <2>4
<1> QED  BY <1>4, <1>5, <1>6

\* What DevWrite makes of the entry of its TTY.
Written(served, n) ==
    IF served THEN [This EXCEPT !.ibuf = Tail(This.ibuf), !.tty_left_cnt = n.left,
                                !.tty_trans_cnt = n.trans]
    ELSE [This EXCEPT !.ibuf = Tail(This.ibuf)]

LEMMA WrittenIs ==
    ASSUME TtyTypeOK, This.ibuf # <<>>, NEW served \in BOOLEAN, NEW n,
           n.left \in 0..MaxRead, n.trans \in 0..MaxRead
    PROVE  /\ tt.nr \in Console /\ Written(served, n) \in Terminal
           /\ Written(served, n).tty_procnr = This.tty_procnr
           /\ served => /\ Written(served, n).tty_left_cnt = n.left
                        /\ Written(served, n).tty_trans_cnt = n.trans
           /\ ~served => /\ Written(served, n).tty_left_cnt = This.tty_left_cnt
                         /\ Written(served, n).tty_trans_cnt = This.tty_trans_cnt
<1>1. tt.nr \in Console
    BY DEF TtyTypeOK
<1>2. This \in Terminal /\ This.ibuf \in Seq(Key \ {"shift Fn"})
    BY <1>1, EntriesAre DEF This
<1>3. Tail(This.ibuf) \in Seq(Key \ {"shift Fn"})
    BY <1>2, HeadTailProperties
<1>4. CASE served
    BY <1>1, <1>2, <1>3, <1>4 DEF Written, Terminal
<1>5. CASE ~served
    BY <1>1, <1>2, <1>3, <1>5 DEF Written, Terminal
<1> QED  BY <1>4, <1>5

\* The whole of DevWrite, by whether the TTY has a reader.
LEMMA DevWriteIs ==
    ASSUME DevWrite, tt.nr \in Console, tty_table \in [Console -> Terminal]
    PROVE  LET k == Head(This.ibuf)
               n == Count(This.tty_left_cnt, This.tty_trans_cnt, k)
               served == This.tty_left_cnt > 0
           IN  /\ tt.at = "write" /\ Ready(TTY) /\ This.ibuf # <<>>
               /\ tty_table' = [tty_table EXCEPT ![tt.nr] = Written(served, n)]
               /\ mem' = IF served /\ k \in Letter
                         THEN [mem EXCEPT ![This.tty_procnr] = PutAt(@, This.tty_trans_cnt + 1, k)]
                         ELSE mem
               /\ line' = IF served THEN [line EXCEPT ![This.tty_procnr] = Edited(@, k)]
                          ELSE line
               /\ tt' = [tt EXCEPT !.at = IF served /\ (k = "ENTER" \/ n.left = 0)
                                         THEN "resume" ELSE "write"]
               /\ UNCHANGED <<ipcVars, keys, current, overtaken, fs, user>>
<1> DEFINE k == Head(This.ibuf)
           n == Count(This.tty_left_cnt, This.tty_trans_cnt, k)
           served == This.tty_left_cnt > 0
<1>1. tty_table' = [tty_table EXCEPT ![tt.nr] = Written(served, n)]
    BY DEF DevWrite, Written
<1>2. /\ tt.at = "write" /\ Ready(TTY) /\ This.ibuf # <<>>
      /\ UNCHANGED <<ipcVars, keys, current, overtaken, fs, user>>
    BY DEF DevWrite, At, Runnable, Ready
<1>3. /\ mem' = IF served /\ k \in Letter
                THEN [mem EXCEPT ![This.tty_procnr] = PutAt(@, This.tty_trans_cnt + 1, k)]
                ELSE mem
      /\ line' = IF served THEN [line EXCEPT ![This.tty_procnr] = Edited(@, k)] ELSE line
    BY DEF DevWrite
<1>4. tt' = [tt EXCEPT !.at = IF served /\ (k = "ENTER" \/ n.left = 0)
                              THEN "resume" ELSE "write"]
    BY DEF DevWrite, Goto
<1> QED  BY <1>1, <1>2, <1>3, <1>4

LEMMA DevWriteUnread ==
    ASSUME Runs, DevWrite, This.tty_left_cnt = 0
    PROVE  TtyInv'
<1> USE Facts DEF Runs, TtyInv, Working
<1>1. /\ tt.at = "write" /\ Ready(TTY) /\ This.ibuf # <<>> /\ tt' = [tt EXCEPT !.at = "write"]
      /\ tty_table' = [tty_table EXCEPT ![tt.nr] = [This EXCEPT !.ibuf = Tail(This.ibuf)]]
      /\ UNCHANGED <<ipcVars, keys, current, mem, line, overtaken, fs, user>>
    <2>1. ~(This.tty_left_cnt > 0)
        OBVIOUS
    <2>2. tt.nr \in Console /\ tty_table \in [Console -> Terminal]
        BY DEF TtyTypeOK, Terminal
    <2> QED  BY <2>1, <2>2, DevWriteIs DEF Written
<1>2. tt'.at = "write" /\ tt'.nr = tt.nr /\ tt' \in [at : {"write"}, nr : Console]
    BY <1>1 DEF TtyTypeOK
<1> DEFINE none == [left |-> 0, trans |-> 0]
           new == Written(FALSE, none)
<1>3. /\ tt.nr \in Console /\ new \in Terminal /\ new.tty_procnr = This.tty_procnr
      /\ new.tty_left_cnt = This.tty_left_cnt
      /\ new.tty_trans_cnt = This.tty_trans_cnt
    <2>1. none.left \in 0..MaxRead /\ none.trans \in 0..MaxRead
        BY NoneLeft
    <2> HIDE DEF none
    <2> QED  BY <1>1, <2>1, WrittenIs
<1>4. tty_table' = [tty_table EXCEPT ![tt.nr] = new]
    BY <1>1 DEF Written
<1> HIDE DEF new
<1>5. /\ tty_table' \in [Console -> Terminal]
      /\ \A c \in Console : /\ tty_table'[c].tty_procnr = tty_table[c].tty_procnr
                            /\ tty_table'[c].tty_left_cnt = tty_table[c].tty_left_cnt
                            /\ tty_table'[c].tty_trans_cnt = tty_table[c].tty_trans_cnt
    BY <1>3, <1>4, TableIs DEF This
<1>6. TtyTypeOK'
    BY <1>1, <1>2, <1>5 DEF TtyTypeOK, Terminal
<1>7. \A c \in Console : Serves(c)' <=> Serves(c)
    BY <1>1, <1>2, <1>5 DEF Serves
<1> QED  BY <1>1, <1>2, <1>5, <1>6, <1>7, TtyQuietStep

\* The reader of c, as LinesOK has it.
ReaderOK(c) ==
    LET t == tty_table[c]
    IN  /\ t.tty_procnr \in User /\ user[t.tty_procnr].call = "READ"
        /\ Read(t.tty_procnr, t.tty_trans_cnt)
        /\ t.tty_left_cnt + t.tty_trans_cnt <= MaxRead

LEMMA DevWriteRead ==
    ASSUME Runs, DevWrite, This.tty_left_cnt > 0
    PROVE  TtyInv'
<1> USE Facts DEF Runs, TtyInv, Working
<1>1. PICK c \in Console : c = tt.nr /\ This = tty_table[c]
    BY DEF TtyTypeOK, This
<1>2. PICK k : k = Head(This.ibuf)
    OBVIOUS
<1>3. PICK n : n = Count(This.tty_left_cnt, This.tty_trans_cnt, k)
    OBVIOUS
<1>4. PICK r : r = This.tty_procnr
    OBVIOUS
<1>5. /\ tt.at = "write" /\ Ready(TTY) /\ This.ibuf # <<>>
      /\ tty_table' = [tty_table EXCEPT ![c] = Written(TRUE, n)]
      /\ mem' = IF k \in Letter THEN [mem EXCEPT ![r] = PutAt(@, This.tty_trans_cnt + 1, k)]
                ELSE mem
      /\ line' = [line EXCEPT ![r] = Edited(@, k)]
      /\ tt' = [tt EXCEPT !.at = IF k = "ENTER" \/ n.left = 0 THEN "resume" ELSE "write"]
      /\ UNCHANGED <<ipcVars, keys, current, overtaken, fs, user>>
    <2>1. tt.nr \in Console /\ tty_table \in [Console -> Terminal]
        BY DEF TtyTypeOK, Terminal
    <2> QED  BY <1>1, <1>2, <1>3, <1>4, <2>1, DevWriteIs
<1>6. Serves(c) /\ TermHas(c) = r
    BY <1>1, <1>4, <1>5 DEF Serves, TermHas
<1>7. /\ r \in User /\ user[r].call = "READ" /\ Read(r, This.tty_trans_cnt)
      /\ This.tty_left_cnt + This.tty_trans_cnt <= MaxRead
    BY <1>1, <1>4, <1>6 DEF LinesOK
<1>8. /\ Pending(r) /\ FsHas # r
      /\ \A d \in Console \ {c} : TermHas(d) # r
    BY <1>6, <1>7 DEF PlaceOK, Held
<1>9. /\ line'[r] = Edited(line[r], k)
      /\ mem'[r] = IF k \in Letter THEN PutAt(mem[r], This.tty_trans_cnt + 1, k) ELSE mem[r]
      /\ \A v \in User \ {r} : line'[v] = line[v] /\ mem'[v] = mem[v]
    BY <1>5, <1>7 DEF TtyTypeOK
<1>10. /\ n.left \in 0..MaxRead /\ n.trans \in 0..MaxRead
       /\ n.left + n.trans <= MaxRead /\ Read(r, n.trans)'
       /\ line'[r] \in Seq(Letter) /\ mem'[r] \in Seq(Letter)
    <2>1. /\ This.tty_left_cnt \in 0..MaxRead /\ This.tty_trans_cnt \in 0..MaxRead
        BY <1>1, EntriesAre
    <2>2. This.tty_left_cnt \in 1..MaxRead
        BY <2>1
    <2> QED  BY <1>3, <1>7, <1>9, <2>1, <2>2, CountIs
<1>11. /\ Written(TRUE, n) \in Terminal /\ Written(TRUE, n).tty_procnr = r
       /\ Written(TRUE, n).tty_left_cnt = n.left /\ Written(TRUE, n).tty_trans_cnt = n.trans
    BY <1>4, <1>5, <1>10, WrittenIs
<1>12. /\ tty_table' \in [Console -> Terminal]
       /\ tty_table'[c].tty_procnr = r /\ tty_table'[c].tty_left_cnt = n.left
       /\ tty_table'[c].tty_trans_cnt = n.trans
       /\ \A d \in Console \ {c} : tty_table'[d] = tty_table[d]
    BY <1>5, <1>11, TableIs
<1>13. /\ tt'.nr = c /\ tt' \in [at : {"resume", "write"}, nr : Console]
       /\ tt'.at = "write" => n.left > 0
       /\ tt'.at \in {"resume", "write"}
    <2>1. tt' = [at |-> IF k = "ENTER" \/ n.left = 0 THEN "resume" ELSE "write", nr |-> c]
        BY <1>1, <1>5 DEF TtyTypeOK
    <2> QED  BY <1>10, <2>1
<1>14. TtyTypeOK'
    <2>1. line' \in [User -> Seq(Letter)] /\ mem' \in [User -> Seq(Letter)]
        BY <1>5, <1>7, <1>9, <1>10 DEF TtyTypeOK
    <2> QED  BY <1>5, <1>12, <1>13, <2>1 DEF TtyTypeOK, Terminal
<1>15. /\ IpcInv' /\ StopsOnlyOnCrossing' /\ halted' = "no"
       /\ has_int_msg' = has_int_msg /\ ~Sending(TTY)'
       /\ \A u \in User : UserOK(u)' /\ (Pending(u)' <=> Pending(u))
       /\ FsOK' /\ TtyOK' /\ FsHas' = FsHas
    <2>1. \A u \in User : (line'[u] = line[u] /\ mem'[u] = mem[u])
                          \/ (Pending(u) /\ FsHas # u)
        BY <1>8, <1>9
    <2> QED  BY <1>5, <1>13, <2>1, TtyAloneStep
<1>16. TtyHas = NO_TASK
    BY <1>5 DEF TtyHas
<1>17. ASSUME NEW d \in Console \ {c}
       PROVE  (Serves(d)' <=> Serves(d)) /\ TermHas(d)' = TermHas(d)
    BY <1>1, <1>5, <1>12, <1>13 DEF Serves, TermHas
<1>18. ASSUME NEW d \in Console \ {c}, Serves(d)' PROVE ReaderOK(d)'
    <2>1. ReaderOK(d) /\ tty_table[d].tty_procnr # r
        BY <1>8, <1>17, <1>18 DEF LinesOK, ReaderOK, TermHas
    <2> QED  BY <1>5, <1>9, <1>12, <2>1 DEF ReaderOK, Read
<1>19. ReaderOK(c)'
    BY <1>5, <1>7, <1>10, <1>12 DEF ReaderOK, Read
<1>20. CASE tt'.at = "write"
    <2>1. Serves(c)' /\ TermHas(c)' = r /\ TtyHas' = NO_TASK
        BY <1>7, <1>12, <1>13, <1>20 DEF Serves, TermHas, TtyHas
    <2>2. LinesOK'
        BY <1>20, <1>18, <1>19 DEF LinesOK, ReaderOK
    <2>3. ASSUME NEW u \in User PROVE PlaceOK(u)'
        BY <1>5, <1>6, <1>15, <1>16, <1>17, <2>1, PlaceStays DEF SamePlace
    <2> QED  BY <1>14, <1>15, <2>2, <2>3
<1>21. CASE tt'.at = "resume"
    <2>1. /\ ~Serves(c)' /\ TermHas(c)' = NO_TASK /\ TtyHas' = r
        BY <1>12, <1>13, <1>21 DEF Serves, TermHas, TtyHas, This
    <2>2. LinesOK'
        <3>1. /\ This'.tty_procnr = r /\ This'.tty_trans_cnt = n.trans
              /\ user'[r].call = "READ"
            BY <1>5, <1>7, <1>12, <1>13 DEF This
        <3>2. Read(This.tty_procnr, This.tty_trans_cnt)'
            BY <1>10, <3>1 DEF Read
        <3> QED  BY <1>7, <1>18, <2>1, <3>1, <3>2 DEF LinesOK, ReaderOK
    <2>3. PlaceOK(r)'
        BY <1>7, <1>8, <1>15, <1>17, <2>1 DEF PlaceOK, Held
    <2>4. ASSUME NEW u \in User \ {r} PROVE PlaceOK(u)'
        BY <1>5, <1>6, <1>15, <1>16, <1>17, <2>1, PlaceStays DEF SamePlace
    <2> QED  BY <1>14, <1>15, <2>2, <2>3, <2>4
<1> QED  BY <1>13, <1>20, <1>21

LEMMA DevWriteStep ==
    ASSUME Runs, DevWrite
    PROVE  TtyInv'
<1>1. This.tty_left_cnt \in 0..MaxRead
    BY EntriesAre DEF Runs, TtyInv, TtyTypeOK, This
<1>2. This.tty_left_cnt = 0 \/ This.tty_left_cnt > 0
    BY <1>1, Facts
<1> QED  BY <1>2, DevWriteUnread, DevWriteRead

LEMMA DevResumeStep ==
    ASSUME Runs, DevResume
    PROVE  TtyInv'
<1> USE Facts DEF Runs, TtyInv, Working
<1>1. /\ tt.at = "resume" /\ Ready(TTY) /\ tt' = [tt EXCEPT !.at = "resumed"]
      /\ MsgSend(TTY, FS, Msg("RESUME_PROC", 0, This.tty_procnr, This.tty_trans_cnt))
      /\ UNCHANGED <<keys, current, tty_table, mem, line, overtaken, fs, user>>
    BY DEF DevResume, At, Runnable, Ready, Goto
<1>2. PICK u \in User : /\ u = This.tty_procnr /\ user[u].call = "READ"
                        /\ Read(u, This.tty_trans_cnt)
    BY <1>1 DEF LinesOK
<1>3. PICK m \in Mail : /\ m = Msg("RESUME_PROC", 0, u, This.tty_trans_cnt)
                        /\ Resuming(u, [source |-> TTY, body |-> m])
    <2> DEFINE x == Msg("RESUME_PROC", 0, u, This.tty_trans_cnt)
    <2>1. tt.nr \in Console
        BY DEF TtyTypeOK
    <2>2. 0 \in Console /\ This.tty_trans_cnt \in 0..MaxRead
        BY <2>1, NextIs, EntriesAre DEF This
    <2>3. x \in Mail
        BY <2>2 DEF Msg, Mail, MsgType
    <2>4. x.type = "RESUME_PROC" /\ x.PROC_NR = u /\ x.CNT = This.tty_trans_cnt
        BY DEF Msg
    <2> HIDE DEF x
    <2>5. Resuming(u, [source |-> TTY, body |-> x])
        BY <1>2, <2>3, <2>4 DEF Resuming, Returns
    <2> QED  BY <2>3, <2>5 DEF x
<1>4. m.type = "RESUME_PROC" /\ m.PROC_NR = u /\ m \in Body /\ MsgSend(TTY, FS, m)
    BY <1>1, <1>2, <1>3 DEF Resuming
<1>5. tt' = [at |-> "resumed", nr |-> tt.nr] /\ tt.nr \in Console
    BY <1>1 DEF TtyTypeOK
<1>6. TtyTypeOK'
    <2>1. tt' \in [at : {"resumed"}, nr : Console]
        BY <1>5
    <2> QED  BY <1>1, <2>1 DEF TtyTypeOK
<1>7. ~FsWaits /\ ~Sending(TTY)
    BY <1>1, TtyAlone, EntryIs
<1>8. /\ IpcInv'
      /\ halted' = "no" \/ (halted' = "deadlock" /\ Deadlock(TTY, FS))
      /\ halted' = "no" => Sent(TTY, FS, m)
    BY <1>4, SendKeeps
<1>9. \A v \in User : DataKept(v)
    BY <1>1 DEF DataKept
<1>10. TtyHas = u /\ PlaceOK(u)
    BY <1>1, <1>2 DEF TtyHas
<1>11. \A e \in Console : (Serves(e)' <=> Serves(e)) /\ TermHas(e)' = TermHas(e)
    BY <1>1, <1>5 DEF Serves, TermHas
<1>12. LinesOK'
    <2>1. \A e \in Console : Serves(e) => ReaderOK(e)
        BY DEF LinesOK, ReaderOK
    <2> QED  BY <1>1, <1>5, <1>11, <2>1 DEF LinesOK, ReaderOK, Read
<1>13. CASE halted' = "deadlock"
    <2>1. SendsTo(FS, TTY)
        BY <1>1, <1>8, <1>13, CircleIs
    <2>2. fs.at = "asked"
        BY <2>1, SendersAre DEF SendsTo
    <2> QED  BY <1>1, <1>5, <1>6, <1>8, <1>13, <2>2 DEF StopsOnlyOnCrossing
<1>14. CASE halted' = "no"
    <2>1. /\ has_int_msg' = has_int_msg /\ \A v \in User : Kept(v)
          /\ buf'[TTY] = [source |-> TTY, body |-> m]
        BY <1>8, <1>14 DEF Sent
    <2>2. ASSUME NEW v \in User PROVE UserOK(v)' /\ (Pending(v)' <=> Pending(v))
        BY <1>1, <2>1, UserStays
    <2>3. CASE HandedOver(TTY, FS)
        <3>1. Ready(FS)' /\ Ready(TTY)' /\ buf'[FS] = [source |-> TTY, body |-> m]
            BY <1>1, <2>1, <2>3 DEF HandedOver, EntryKept, Ready
        <3>2. fs = [at |-> "dispatch", src |-> NO_TASK] /\ Awaiting(FS, ANY)
            <4>1. Receiving(FS) /\ ~Ready(FS) /\ ~Sending(FS)
                BY <2>3, EntryIs DEF HandedOver, Awaits
            <4> QED
                BY <1>7, <4>1 DEF FsOK, FsLoop, FsDispatch, FsAsked, FsReplies, SendsTo
        <3>3. Resuming(u, buf[FS])'
            BY <1>1, <1>3, <3>1 DEF Resuming, Returns, Read
        <3>4. FsOK'
            BY <1>1, <3>1, <3>2, <3>3 DEF FsOK, FsDispatch
        <3>5. FsHas = NO_TASK /\ FsHas' = u
            BY <1>1, <1>4, <3>1, <3>2, EntryIs DEF FsHas, Resumed, Awaiting
        <3>6. TtyOK'
            BY <1>5, <3>1 DEF TtyOK
        <3>7. TtyHas' = NO_TASK
            BY <1>5, <1>8, <3>1, EntryNext DEF TtyHas
        <3>8. PlaceOK(u)'
            BY <1>1, <1>10, <1>11, <2>2, <3>5, <3>7 DEF PlaceOK, Held
        <3>9. ASSUME NEW v \in User \ {u} PROVE PlaceOK(v)'
            BY <1>1, <1>10, <1>11, <2>2, <3>5, <3>7, PlaceStays DEF SamePlace
        <3> QED
            BY <1>6, <1>8, <1>12, <1>14, <2>1, <2>2, <3>4, <3>6, <3>8, <3>9
            DEF StopsOnlyOnCrossing
    <2>4. CASE Queued(TTY, FS)
        <3>1. SendsTo(TTY, FS)' /\ Kept(FS)
            BY <2>4 DEF Queued
        <3>2. FsOK'
            BY <1>1, <1>7, <1>9, <3>1, FsStays
        <3>3. FsHas' = FsHas
            <4>1. Suspending' <=> Suspending
                BY <1>1, <1>4, <1>7, <2>1, <3>1 DEF Suspending, Suspends, Kept, EntryKept, Ready
            <4> QED  BY <1>1, <3>1, <4>1, FsHasStays
        <3>4. Resuming(u, buf[TTY])'
            BY <1>1, <1>3, <2>1 DEF Resuming, Returns, Read
        <3>5. TtyOK'
            BY <1>5, <3>1, <3>4 DEF TtyOK
        <3>6. TtyHas' = u
            BY <1>4, <1>5, <2>1, <3>1 DEF TtyHas, SendsTo
        <3>7. ASSUME NEW v \in User PROVE PlaceOK(v)'
            BY <1>1, <1>10, <1>11, <2>2, <3>3, <3>6, PlaceStays DEF SamePlace
        <3> QED
            BY <1>6, <1>8, <1>12, <1>14, <2>1, <2>2, <3>2, <3>5, <3>7
            DEF StopsOnlyOnCrossing
    <2> QED  BY <1>8, <1>14, <2>3, <2>4 DEF Sent
<1> QED  BY <1>8, <1>13, <1>14

-----------------------------------------------------------------------------
(* TTY: messages *)

LEMMA TtyReceiveStep ==
    ASSUME Runs, TtyReceive
    PROVE  TtyInv'
<1> USE Facts DEF Runs, TtyInv, Working
<1>1. /\ tt.at = "receive" /\ tt' = [tt EXCEPT !.at = "dispatch"] /\ MsgReceive(TTY, ANY)
      /\ UNCHANGED <<keys, current, tty_table, mem, line, overtaken, fs, user>>
    BY DEF TtyReceive, Goto
<1>2. /\ IpcInv' /\ halted' = "no" /\ Ready(TTY)
      /\ \/ Interrupted(TTY, ANY)
         \/ \E q \in Proc : Taken(TTY, q, ANY)
         \/ Waits(TTY, ANY)
    <2>1. TTY \in Proc /\ ANY \in Source
        BY DEF Source
    <2> QED  BY <1>1, <2>1, ReceiveKeeps
<1>3. tt' = [at |-> "dispatch", nr |-> tt.nr] /\ tt.nr \in Console
    BY <1>1 DEF TtyTypeOK
<1>4. TtyTypeOK'
    <2>1. tt' \in [at : {"dispatch"}, nr : Console]
        BY <1>3
    <2> QED  BY <1>1, <2>1 DEF TtyTypeOK
<1>5. ~FsWaits /\ ~Sending(TTY)
    BY <1>1, <1>2, TtyAlone, EntryIs
<1>6. \A v \in User : DataKept(v)
    BY <1>1 DEF DataKept
<1>7. TtyHas = NO_TASK /\ TtyHas' = NO_TASK
    BY <1>1, <1>3 DEF TtyHas
<1>8. \A e \in Console : (Serves(e)' <=> Serves(e)) /\ TermHas(e)' = TermHas(e)
    BY <1>1, <1>3 DEF Serves, TermHas
<1>9. LinesOK'
    <2>1. \A e \in Console : Serves(e) => ReaderOK(e)
        BY DEF LinesOK, ReaderOK
    <2> QED  BY <1>1, <1>3, <1>8, <2>1 DEF LinesOK, ReaderOK, Read
<1>10. ASSUME \A v \in User : Kept(v), \A p \in Proc \ {TTY} : ~has_int_msg'[p],
              FsOK' /\ FsHas' = FsHas, TtyOK'
       PROVE  TtyInv'
    <2>1. ASSUME NEW v \in User PROVE UserOK(v)' /\ (Pending(v)' <=> Pending(v))
        BY <1>1, <1>10, UserStays
    <2>2. ASSUME NEW v \in User PROVE PlaceOK(v)'
        BY <1>1, <1>7, <1>8, <1>10, <2>1, PlaceStays DEF SamePlace
    <2> QED  BY <1>2, <1>4, <1>9, <1>10, <2>1, <2>2 DEF StopsOnlyOnCrossing
<1>11. ASSUME Kept(FS), ~Sending(TTY)' PROVE FsOK' /\ FsHas' = FsHas
    <2>1. FsOK'
        BY <1>1, <1>5, <1>6, <1>11, FsStays
    <2>2. Suspending' <=> Suspending
        BY <1>1, <1>5, <1>11 DEF Suspending, Suspends, Kept, EntryKept, Ready
    <2> QED  BY <1>1, <1>11, <2>1, <2>2, FsHasStays
<1>12. CASE Interrupted(TTY, ANY)
    <2>1. /\ Ready(TTY)' /\ buf'[TTY] = IntMessage
          /\ \A p \in Proc \ {TTY} : Kept(p) /\ ~has_int_msg'[p]
        BY <1>2, <1>12 DEF Interrupted, EntryKept, Ready
    <2>2. TtyOK'
        BY <2>1 DEF TtyOK, IntMessage
    <2> QED  BY <1>2, <1>10, <1>11, <2>1, <2>2, EntryNext
<1>13. CASE Waits(TTY, ANY)
    <2>1. /\ Awaiting(TTY, ANY)' /\ ~Sending(TTY)'
          /\ \A p \in Proc \ {TTY} : Kept(p) /\ ~has_int_msg'[p]
        BY <1>2, <1>13, EntryNext DEF Waits, Awaiting
    <2>2. TtyOK'
        BY <1>3, <2>1 DEF TtyOK
    <2> QED  BY <1>10, <1>11, <2>1, <2>2
<1>14. CASE \E q \in Proc : Taken(TTY, q, ANY)
    <2>1. SendsTo(FS, TTY) /\ Taken(TTY, FS, ANY)
        <3>1. PICK q \in Proc : q # TTY /\ SendsTo(q, TTY) /\ Taken(TTY, q, ANY)
            BY <1>14 DEF Taken
        <3>2. q \notin User
            BY <3>1, SendersAre DEF SendsTo
        <3> QED  BY <3>1, <3>2
    <2>2. /\ Ready(FS)' /\ Ready(TTY)' /\ buf'[TTY] = buf[FS]
          /\ has_int_msg' = has_int_msg /\ \A v \in User : Kept(v)
        BY <1>2, <2>1 DEF Taken, EntryKept, Ready
    <2>3. fs.at = "asked" /\ fs.src \in User /\ DevAsks(fs.src, buf[FS])
        <3>1. fs.at = "asked"
            BY <2>1, SendersAre DEF SendsTo
        <3> QED  BY <1>5, <3>1 DEF FsOK, FsLoop, FsDispatch, FsAsked, FsReplies
    <2>4. FsWaits' /\ DevAsks(fs.src, buf[TTY])'
        BY <1>1, <2>2, <2>3 DEF FsWaits, DevAsks, Asks
    <2>5. FsOK'
        BY <1>1, <1>3, <2>2, <2>3, <2>4 DEF FsOK, FsAsked, AtTty
    <2>6. TtyOK'
        BY <2>2, <2>3, <2>4 DEF TtyOK, DevAsks
    <2>7. FsHas' = FsHas
        <3>1. ~Suspending /\ ~Suspending'
            BY <1>1, <1>2, <1>5, <2>2, <2>3, EntryNext DEF Suspending
        <3> QED  BY <1>1, <2>3, <3>1 DEF FsHas
    <2> QED  BY <1>10, <2>2, <2>5, <2>6, <2>7
<1> QED  BY <1>2, <1>12, <1>13, <1>14

\* What TTY has got from FS, and FS's place meanwhile.
LEMMA FsAsks ==
    ASSUME Runs, Ready(TTY), tt.at = "dispatch", buf[TTY].source # INTERRUPT
    PROVE  /\ buf[TTY].source = FS /\ fs.src \in User /\ FsWaits
           /\ DevAsks(fs.src, buf[TTY]) /\ FsHas = fs.src /\ ~SendsTo(FS, TTY)
           /\ user[fs.src].call \in Call
<1> USE Facts DEF Runs, TtyInv, Working
<1>1. buf[TTY].source = FS /\ FsWaits /\ ~Sending(TTY)
    BY EntryIs DEF TtyOK, Awaiting, SendsTo
<1>2. ~SendsTo(FS, TTY) /\ (fs.at = "reply" => ~Ready(FS))
    BY <1>1, EntryIs DEF FsWaits, SendsTo, Awaiting
<1>3. FsAsked
    BY <1>1, <1>2 DEF FsOK, FsLoop, FsDispatch, FsReplies, FsWaits
<1>4. fs.src \in User /\ DevAsks(fs.src, buf[TTY])
    BY <1>1, <1>2, <1>3 DEF FsAsked, AtTty, SendsTo
<1>5. FsHas = fs.src
    <2>1. ~Suspending
        BY <1>1, <1>2 DEF Suspending
    <2> QED  BY <1>1, <2>1 DEF FsHas, FsWaits
<1>6. user[fs.src].call \in Call
    <2>1. UserOK(fs.src) /\ Pending(fs.src)
        BY <1>4, <1>5 DEF PlaceOK, Held
    <2>2. user[fs.src].call # "none"
        BY <2>1 DEF UserOK, Pending
    <2>3. user[fs.src].call \in Call \cup {"none"}
        BY <1>4 DEF TtyTypeOK
    <2> QED  BY <2>2, <2>3
<1> QED  BY <1>1, <1>2, <1>4, <1>5, <1>6

\* TTY answers FS with m.
LEMMA TtyReplies ==
    ASSUME Runs, Ready(TTY), tt.at = "dispatch", buf[TTY].source # INTERRUPT,
           NEW m \in Mail, MsgSend(TTY, FS, m),
           m.type = "SUSPEND_PROC" \/ (m.type = "SYSCALL_RET" /\ user[fs.src].call # "READ"),
           tt' = [tt EXCEPT !.at = "loop"], UNCHANGED <<mem, line, fs, user>>
    PROVE  /\ IpcInv' /\ halted' = "no" /\ has_int_msg' = has_int_msg
           /\ FsOK' /\ TtyOK'
           /\ FsHas' = IF m.type = "SUSPEND_PROC" THEN NO_TASK ELSE fs.src
           /\ \A v \in User : UserOK(v)' /\ (Pending(v)' <=> Pending(v))
<1> USE Facts DEF Runs, TtyInv, Working
<1>1. /\ fs.src \in User /\ FsWaits /\ ~SendsTo(FS, TTY)
      /\ tt'.at = "loop" /\ tt'.nr = tt.nr
    BY FsAsks DEF TtyTypeOK
<1>2. m \in Body
    OBVIOUS
<1>3. IpcInv' /\ halted' = "no" /\ Sent(TTY, FS, m)
    <2>1. ~Deadlock(TTY, FS)
        BY <1>1, CircleIs
    <2> QED  BY <1>2, <2>1, SendKeeps
<1>4. /\ has_int_msg' = has_int_msg /\ \A v \in User : Kept(v)
      /\ buf'[TTY] = [source |-> TTY, body |-> m]
    BY <1>3 DEF Sent
<1>5. ASSUME NEW v \in User PROVE UserOK(v)' /\ (Pending(v)' <=> Pending(v))
    BY <1>4, UserStays
<1>6. CASE HandedOver(TTY, FS)
    <2>1. Ready(FS)' /\ Ready(TTY)' /\ buf'[FS] = [source |-> TTY, body |-> m]
        BY <1>4, <1>6 DEF HandedOver, EntryKept, Ready
    <2>2. fs.at = "reply"
        BY <1>1, <1>6, EntryIs DEF HandedOver, Awaits, FsWaits
    <2>3. Answers(fs.src, buf[FS])'
        BY <2>1 DEF Answers
    <2>4. FsOK' /\ TtyOK'
        BY <1>1, <2>1, <2>2, <2>3 DEF FsOK, FsReplies, TtyOK
    <2>5. Suspending' <=> m.type = "SUSPEND_PROC"
        BY <2>1, <2>2 DEF Suspending, Suspends
    <2>6. FsHas' = IF m.type = "SUSPEND_PROC" THEN NO_TASK ELSE fs.src
        BY <2>2, <2>5 DEF FsHas
    <2> QED  BY <1>3, <1>4, <1>5, <2>4, <2>6
<1>7. CASE Queued(TTY, FS)
    <2>1. SendsTo(TTY, FS)' /\ Kept(FS) /\ ~Awaits(FS, TTY)
        BY <1>7 DEF Queued
    <2>2. fs.at = "asked" /\ Ready(FS)' /\ FsWaits'
        BY <1>1, <2>1 DEF FsWaits, Awaits, Awaiting, Kept, EntryKept, Ready
    <2>3. Answers(fs.src, buf[TTY])'
        BY <1>4 DEF Answers
    <2>4. FsOK' /\ TtyOK'
        BY <1>1, <2>1, <2>2, <2>3 DEF FsOK, FsAsked, AtTty, TtyOK
    <2>5. Suspending' <=> m.type = "SUSPEND_PROC"
        BY <1>4, <2>1, <2>2 DEF Suspending, SendsTo
    <2>6. FsHas' = IF m.type = "SUSPEND_PROC" THEN NO_TASK ELSE fs.src
        BY <2>2, <2>5 DEF FsHas
    <2> QED  BY <1>3, <1>4, <1>5, <2>4, <2>6
<1> QED  BY <1>3, <1>6, <1>7 DEF Sent

LEMMA TtyAnswerStep ==
    ASSUME Runs, TtyAnswer
    PROVE  TtyInv'
<1> USE Facts DEF Runs, TtyInv, Working
<1>1. /\ tt.at = "dispatch" /\ Ready(TTY) /\ buf[TTY].source # INTERRUPT
      /\ buf[TTY].body.type \in {"DEV_WRITE", "DEV_OPEN"}
      /\ tt' = [tt EXCEPT !.at = "loop"]
      /\ MsgSend(TTY, buf[TTY].source, Answer(buf[TTY].body.CNT))
      /\ UNCHANGED <<keys, current, tty_table, mem, line, overtaken, fs, user>>
    BY DEF TtyAnswer, At, Is, Runnable, Ready, Goto
<1>2. /\ buf[TTY].source = FS /\ fs.src \in User /\ FsHas = fs.src
      /\ DevAsks(fs.src, buf[TTY]) /\ user[fs.src].call \in Call
    BY <1>1, FsAsks
<1>3. buf[TTY].body \in Mail /\ user[fs.src].call # "READ"
    BY <1>1, <1>2 DEF DevAsks, Asks, DevType
<1>4. PICK m \in Mail : m = Answer(buf[TTY].body.CNT)
    BY <1>3, AnswerIs
<1>5. m.type = "SYSCALL_RET" /\ MsgSend(TTY, FS, m)
    BY <1>1, <1>2, <1>4 DEF Answer, Msg
<1>6. /\ IpcInv' /\ halted' = "no" /\ has_int_msg' = has_int_msg
      /\ FsOK' /\ TtyOK' /\ FsHas' = FsHas
      /\ \A v \in User : UserOK(v)' /\ (Pending(v)' <=> Pending(v))
    BY <1>1, <1>2, <1>3, <1>5, TtyReplies
<1>7. tt' = [at |-> "loop", nr |-> tt.nr] /\ tt.nr \in Console
    BY <1>1 DEF TtyTypeOK
<1>8. TtyTypeOK'
    <2>1. tt' \in [at : {"loop"}, nr : Console]
        BY <1>7
    <2> QED  BY <1>1, <2>1 DEF TtyTypeOK
<1>9. TtyHas = NO_TASK /\ TtyHas' = NO_TASK
    BY <1>1, <1>7 DEF TtyHas
<1>10. \A e \in Console : (Serves(e)' <=> Serves(e)) /\ TermHas(e)' = TermHas(e)
    BY <1>1, <1>7 DEF Serves, TermHas
<1>11. LinesOK'
    <2>1. \A e \in Console : Serves(e) => ReaderOK(e)
        BY DEF LinesOK, ReaderOK
    <2> QED  BY <1>1, <1>7, <1>10, <2>1 DEF LinesOK, ReaderOK, Read
<1>12. ASSUME NEW v \in User PROVE PlaceOK(v)'
    BY <1>1, <1>6, <1>9, <1>10, PlaceStays DEF SamePlace
<1> QED  BY <1>6, <1>8, <1>11, <1>12 DEF StopsOnlyOnCrossing

LEMMA TtyDoReadStep ==
    ASSUME Runs, TtyDoRead
    PROVE  TtyInv'
<1> USE Facts DEF Runs, TtyInv, Working
<1>1. /\ tt.at = "dispatch" /\ Ready(TTY) /\ buf[TTY].source # INTERRUPT
      /\ buf[TTY].body.type = "DEV_READ" /\ tt' = [tt EXCEPT !.at = "loop"]
      /\ UNCHANGED <<keys, current, mem, line, fs, user>>
    BY DEF TtyDoRead, At, Is, Runnable, Ready, Goto
<1>2. /\ buf[TTY].source = FS /\ fs.src \in User /\ FsHas = fs.src
      /\ DevAsks(fs.src, buf[TTY]) /\ user[fs.src].call \in Call
    BY <1>1, FsAsks
<1>3. PICK u \in User, b \in Mail : u = fs.src /\ b = buf[TTY].body
    BY <1>2 DEF DevAsks, Asks
<1>4. /\ b.PROC_NR = u /\ b.CNT > 0 /\ user[u].call = "READ" /\ line[u] = <<>>
      /\ b.DEVICE \in Console /\ b.CNT \in 0..MaxRead
    <2>1. b.PROC_NR = u /\ b.CNT > 0 /\ user[u].call = "READ" /\ line[u] = <<>>
        BY <1>1, <1>2, <1>3 DEF DevAsks, Asks, DevType
    <2>2. b.DEVICE \in Console /\ b.CNT \in 0..MaxRead
        BY DEF Mail
    <2> QED  BY <2>1, <2>2
<1>5. PICK c \in Console : c = b.DEVICE
    BY <1>4
<1>6. PICK m \in Mail : m = [b EXCEPT !.type = "SUSPEND_PROC"]
    BY DEF Mail, MsgType
<1>7. m.type = "SUSPEND_PROC"
    BY <1>6 DEF Mail
<1>8. PICK new \in Terminal :
           /\ new = [tty_table[c] EXCEPT !.tty_procnr = u, !.tty_left_cnt = b.CNT,
                                         !.tty_trans_cnt = 0]
           /\ new.tty_procnr = u /\ new.tty_left_cnt = b.CNT /\ new.tty_trans_cnt = 0
    <2> DEFINE old == tty_table[c]
               x == [old EXCEPT !.tty_procnr = u, !.tty_left_cnt = b.CNT, !.tty_trans_cnt = 0]
    <2>1. old \in Terminal
        BY EntriesAre
    <2>2. 0 \in 0..MaxRead
        BY NoneLeft
    <2> HIDE DEF old
    <2>3. x \in Terminal
        BY <1>4, <2>1, <2>2 DEF Terminal
    <2>4. x.tty_procnr = u /\ x.tty_left_cnt = b.CNT /\ x.tty_trans_cnt = 0
        BY <2>1 DEF Terminal
    <2>5. x = [tty_table[c] EXCEPT !.tty_procnr = u, !.tty_left_cnt = b.CNT, !.tty_trans_cnt = 0]
        BY DEF old
    <2> HIDE DEF x
    <2> QED  BY <2>3, <2>4, <2>5
<1>9. /\ tty_table' = [tty_table EXCEPT ![c] = new]
      /\ overtaken' = (overtaken \ {u}) \cup
             (IF tty_table[c].tty_left_cnt > 0 THEN {tty_table[c].tty_procnr} ELSE {})
      /\ MsgSend(TTY, FS, m)
    BY <1>2, <1>3, <1>4, <1>5, <1>6, <1>8 DEF TtyDoRead
<1>10. /\ tty_table' \in [Console -> Terminal] /\ tty_table'[c] = new
       /\ \A d \in Console \ {c} : tty_table'[d] = tty_table[d]
    BY <1>9, TableIs
<1>11. /\ IpcInv' /\ halted' = "no" /\ has_int_msg' = has_int_msg
       /\ FsOK' /\ TtyOK' /\ FsHas' = NO_TASK
       /\ \A v \in User : UserOK(v)' /\ (Pending(v)' <=> Pending(v))
    BY <1>1, <1>7, <1>9, TtyReplies
<1>12. tt' = [at |-> "loop", nr |-> tt.nr] /\ tt.nr \in Console
    BY <1>1 DEF TtyTypeOK
<1>13. TtyHas = NO_TASK /\ TtyHas' = NO_TASK
    BY <1>1, <1>12 DEF TtyHas
<1>14. \A d \in Console \ {c} : (Serves(d)' <=> Serves(d)) /\ TermHas(d)' = TermHas(d)
    BY <1>1, <1>10, <1>12 DEF Serves, TermHas
<1>15. Serves(c)' /\ TermHas(c)' = u
    BY <1>4, <1>8, <1>10, <1>12 DEF Serves, TermHas
<1>16. \A v \in User : TermHas(c) = v => v \in overtaken'
    BY <1>9 DEF TermHas, Serves
<1>17. tty_table[c].tty_left_cnt > 0 => tty_table[c].tty_procnr \in User
    BY <1>1 DEF LinesOK, Serves
<1>18. TtyTypeOK'
    <2>1. overtaken' \subseteq User
        BY <1>9, <1>17 DEF TtyTypeOK
    <2>2. tt' \in [at : {"loop"}, nr : Console]
        BY <1>12
    <2> QED  BY <1>1, <1>10, <2>1, <2>2 DEF TtyTypeOK, Terminal
<1>19. LinesOK'
    <2>1. ASSUME NEW d \in Console \ {c}, Serves(d)' PROVE ReaderOK(d)'
        <3>1. ReaderOK(d)
            BY <1>14, <2>1 DEF LinesOK, ReaderOK
        <3> QED  BY <1>1, <1>10, <3>1 DEF ReaderOK, Read
    <2>2. ReaderOK(c)'
        <3>1. Read(u, 0)'
            <4>1. mem[u] \in Seq(Letter)
                BY DEF TtyTypeOK
            <4>2. SubSeq(mem[u], 1, 0) = <<>> /\ 0 = Len(<<>>) /\ 0 <= Len(mem[u])
                BY <4>1, SubSeqEmpty, LenProperties, EmptySeq
            <4> QED  BY <1>1, <1>4, <4>2 DEF Read
        <3>2. b.CNT + 0 <= MaxRead
            BY <1>4
        <3> QED  BY <1>1, <1>4, <1>8, <1>10, <3>1, <3>2 DEF ReaderOK, Read
    <2> QED  BY <1>12, <2>1, <2>2 DEF LinesOK, ReaderOK
<1>20. PlaceOK(u)'
    <2>1. PlaceOK(u) /\ FsHas = u
        BY <1>2, <1>3
    <2> QED  BY <1>11, <1>13, <1>14, <1>15, <2>1 DEF PlaceOK, Held
<1>21. ASSUME NEW v \in User \ {u} PROVE PlaceOK(v)'
    <2>1. PlaceOK(v) /\ FsHas # v
        BY <1>2, <1>3
    <2>2. v \notin overtaken' => v \notin overtaken /\ TermHas(c) # v
        BY <1>9, <1>16
    <2>3. fs'.src = u /\ fs.src = u
        BY <1>1, <1>3
    <2>4. FsHas' # v /\ TtyHas' # v /\ TtyHas # v /\ TermHas(c)' # v /\ (Pending(v)' <=> Pending(v))
        BY <1>11, <1>13, <1>15
    <2>5. Held(v)' => Held(v)
        BY <1>14, <2>4 DEF Held
    <2>6. v \notin overtaken' => v \notin overtaken /\ (Held(v) => Held(v)')
        BY <1>14, <2>1, <2>2, <2>4 DEF Held
    <2>7. \A d \in Console : TermHas(d)' = v => TermHas(d) = v
        BY <1>14, <2>4
    <2> QED  BY <2>1, <2>3, <2>4, <2>5, <2>6, <2>7 DEF PlaceOK
<1> QED  BY <1>11, <1>18, <1>19, <1>20, <1>21 DEF StopsOnlyOnCrossing

-----------------------------------------------------------------------------
(* The theorems *)

LEMMA TtyInit == Init => TtyInv
<1> SUFFICES ASSUME Init PROVE TtyInv
    OBVIOUS
<1> USE Facts DEF Init
<1>1. Nothing \in Mail /\ 0 \in Console
    BY DEF Nothing, Msg, Mail, MsgType, Console
<1>2. IpcInv
    <2>1. buf \in [Proc -> {[source |-> p, body |-> m] : p \in Proc, m \in Body}]
        BY <1>1
    <2>2. \A p \in Proc : buf[p].source = p
        OBVIOUS
    <2>3. /\ p_flags = [p \in Proc |-> {}] /\ p_sendto = [p \in Proc |-> NO_TASK]
          /\ p_recvfrom = [p \in Proc |-> NO_TASK] /\ p_msg = [p \in Proc |-> FALSE]
          /\ q_sending = [p \in Proc |-> <<>>]
          /\ has_int_msg = [p \in Proc |-> FALSE] /\ halted = "no"
        OBVIOUS
    <2> HIDE DEF Init
    <2>4. IpcInit
        BY <2>1, <2>2, <2>3 DEF IpcInit
    <2> QED  BY <2>4, InitInv
<1>3. \A c \in Console : tty_table[c] = [ibuf |-> <<>>, tty_procnr |-> NO_TASK,
                                        tty_left_cnt |-> 0, tty_trans_cnt |-> 0]
    OBVIOUS
<1>4. TtyTypeOK
    <2>1. tty_table \in [Console -> Terminal]
        BY <1>3, EmptySeq, NoneLeft DEF Terminal
    <2>2. <<>> \in Seq(Letter) /\ <<>> \in Seq(Key)
        BY EmptySeq
    <2>3. user \in [User -> [call : Call \cup {"none"}, at : {"user", "sent", "received"}]]
        OBVIOUS
    <2> QED  BY <1>1, <2>1, <2>2, <2>3 DEF TtyTypeOK, Terminal
<1>5. \A p \in Proc : Ready(p) /\ ~Sending(p) /\ ~Receiving(p) /\ ~has_int_msg[p]
    BY DEF Ready, Sending, Receiving
<1>6. \A u \in User : UserOK(u) /\ ~Pending(u)
    BY <1>5 DEF UserOK, Pending, Awaiting
<1>7. FsOK /\ FsHas = NO_TASK
    BY <1>5 DEF FsOK, FsLoop, FsHas
<1>8. TtyOK /\ TtyHas = NO_TASK
    BY <1>5 DEF TtyOK, TtyHas
<1>9. \A c \in Console : ~Serves(c) /\ TermHas(c) = NO_TASK
    BY <1>3 DEF Serves, TermHas
<1>10. LinesOK
    BY <1>9 DEF LinesOK
<1>11. \A u \in User : PlaceOK(u)
    BY <1>6, <1>7, <1>8, <1>9 DEF PlaceOK, Held
<1> QED
    BY <1>2, <1>4, <1>5, <1>6, <1>7, <1>8, <1>10, <1>11
    DEF TtyInv, Working, StopsOnlyOnCrossing

LEMMA TtyStep == TtyInv /\ [Next]_vars => TtyInv'
<1> SUFFICES ASSUME TtyInv, [Next]_vars PROVE TtyInv'
    OBVIOUS
<1>1. CASE UNCHANGED vars
    <2>1. keys' \in Seq(Key)
        BY <1>1 DEF vars, ttyVars, TtyInv, TtyTypeOK
    <2> QED  BY <1>1, <2>1, OnlyKeysStep DEF vars, ttyVars
<1>2. CASE \E k \in Key : Press(k)
    BY <1>2, PressStep
<1>3. CASE Next /\ halted = "no" /\ ~(\E k \in Key : Press(k))
    <2> USE DEF Runs
    <2>1. CASE \E u \in User, t \in Call : \E c \in Opened[u] : UserCall(u, t, c)
        BY <1>3, <2>1, UserCallStep
    <2>2. CASE \E u \in User : UserReceive(u) \/ UserReturn(u)
        BY <1>3, <2>2, UserReceiveStep, UserReturnStep
    <2>3. CASE Clock
        BY <1>3, <2>3, ClockStep
    <2>4. CASE TaskFs
        BY <1>3, <2>4, FsReceiveStep, FsAskStep, FsAnsweredStep, FsResumeStep, FsReplyStep
        DEF TaskFs
    <2>5. CASE TaskTty
        BY <1>3, <2>5, InProcessStep, ReadDoneStep, DevWriteStep, DevResumeStep,
           DevResumedStep, WriteDoneStep, TtyReceiveStep, TtyHardIntStep, TtyDoReadStep,
           TtyAnswerStep
        DEF TaskTty
    <2> QED  BY <1>3, <2>1, <2>2, <2>3, <2>4, <2>5 DEF Next
\* Whatever is no key press is a step of a running kernel.
<1>4. Next => halted = "no" \/ \E k \in Key : Press(k)
    <2>1. ASSUME NEW u \in User, NEW t, NEW c, UserCall(u, t, c) PROVE halted = "no"
        BY <2>1 DEF UserCall, MsgSend, Runnable
    <2>2. ASSUME NEW u \in User, UserReceive(u) \/ UserReturn(u) PROVE halted = "no"
        BY <2>2 DEF UserReceive, UserReturn, MsgReceive, Runnable
    <2>3. Clock => halted = "no"
        BY DEF Clock, InformInt
    <2>4. TaskFs => halted = "no"
        BY DEF TaskFs, FsReceive, FsAsk, FsAnswered, FsResume, FsReply, MsgReceive, Runnable
    <2>5. TaskTty => halted = "no"
        BY DEF TaskTty, InProcess, ReadDone, DevWrite, DevResume, DevResumed, WriteDone,
               TtyReceive, TtyHardInt, TtyDoRead, TtyAnswer, At, MsgReceive, Runnable
    <2> QED  BY <2>1, <2>2, <2>3, <2>4, <2>5 DEF Next
<1> QED  BY <1>1, <1>2, <1>3, <1>4

(* The inductive invariant: where every caller, FS, TTY and each terminal  *)
(* is, and which of them has whose call.                                   *)
THEOREM TtyInvariance == Spec => []TtyInv
<1>1. Init => TtyInv
    BY TtyInit
<1>2. TtyInv /\ [Next]_vars => TtyInv'
    BY TtyStep
<1> QED  BY <1>1, <1>2, PTL DEF Spec

(* The kernel stops only when TTY resumes a reader at the very moment FS   *)
(* asks TTY for something: the panic of msg_send in kernel/proc.c.  No     *)
(* other order of calls, keys and interrupts stops it.                     *)
THEOREM OnlyCrossingStops == Spec => []StopsOnlyOnCrossing
<1>1. TtyInv => StopsOnlyOnCrossing
    BY DEF TtyInv
<1> QED  BY <1>1, TtyInvariance, PTL

(* What a READ returns is the line typed for its caller since it asked,    *)
(* edited with its backspaces: tty_dev_write's count and the caller's      *)
(* buffer always agree, for any number of consoles and readers.            *)
THEOREM LinesAreExact == Spec => []LineExact
<1>1. ASSUME TtyInv, NEW u \in User, user[u] = [call |-> "READ", at |-> "received"], Runnable(u)
      PROVE  Read(u, buf[u].body.CNT)
    <2>1. Ready(u) /\ UserOK(u) /\ ~Awaiting(u, FS)
        BY <1>1, EntryIs, Facts DEF TtyInv, Working, Runnable, Ready, Awaiting
    <2> QED  BY <1>1, <2>1 DEF UserOK, Returns
<1>2. TtyInv => LineExact
    BY <1>1 DEF LineExact, Read
<1> QED  BY <1>2, TtyInvariance, PTL

\* Who is being answered, and who is asked for, in terms of whose call it is.
LEMMA AnsweringIs ==
    ASSUME Runs, NEW u \in User, Answering(u)
    PROVE  \/ TtyHas = u
           \/ /\ FsHas = u /\ ~Receiving(FS) /\ fs.at # "asked"
              /\ fs.at = "dispatch" => buf[FS].body.type = "RESUME_PROC"
<1> USE Facts DEF Runs, TtyInv, Working
<1>1. CASE tt.at = "resume" /\ This.tty_procnr = u
    BY <1>1 DEF TtyHas
<1>2. CASE Sending(TTY) /\ Is(TTY, "RESUME_PROC") /\ buf[TTY].body.PROC_NR = u
    <2>1. ~Ready(TTY) /\ ~Receiving(TTY)
        BY <1>2, EntryIs
    <2>2. ~(tt.at = "loop" /\ FsWaits)
        <3>1. ASSUME tt.at = "loop", FsWaits PROVE FALSE
            <4>1. FsAsked /\ ~Sending(FS)
                BY <3>1, EntryIs DEF FsOK, FsLoop, FsDispatch, FsReplies, FsWaits, Awaiting
            <4>2. Answers(fs.src, buf[TTY])
                BY <2>1, <3>1, <4>1 DEF FsAsked, AtTty, SendsTo
            <4> QED  BY <1>2, <4>2 DEF Answers, Is
        <3> QED  BY <3>1
    <2>3. tt.at = "resumed"
        BY <2>1, <2>2 DEF TtyOK, Awaiting
    <2> QED  BY <1>2, <2>3 DEF TtyHas
<1>3. CASE Got("RESUME_PROC") /\ buf[FS].body.PROC_NR = u
    <2>1. fs.at = "dispatch" /\ ~Receiving(FS) /\ buf[FS].body.type = "RESUME_PROC"
        BY <1>3 DEF Got, Is
    <2>2. FsDispatch
        BY <2>1 DEF FsOK, FsLoop, FsAsked, FsReplies, FsWaits
    <2>3. Ready(FS) /\ \E v \in User : Requested(v) \/ Resuming(v, buf[FS])
        BY <2>1, <2>2 DEF FsDispatch, Awaiting
    <2>4. \A v \in User : user[v].call # "RESUME_PROC"
        BY DEF TtyTypeOK
    <2>5. buf[FS].source = TTY
        BY <2>1, <2>3, <2>4 DEF Requested, Request, Asks, Resuming
    <2> QED  BY <1>3, <2>1, <2>3, <2>5 DEF FsHas, Resumed
<1>4. CASE fs.at = "reply" /\ ~Receiving(FS) /\ fs.src = u /\ ~Suspends
    BY <1>4 DEF FsHas, Suspending
<1>5. CASE Sending(FS) /\ p_sendto[FS] = u
    <2>1. fs.at = "loop" /\ FsHas = u
        BY <1>5, SendersAre DEF SendsTo
    <2> QED  BY <1>5, <2>1, EntryIs
<1> QED  BY <1>1, <1>2, <1>3, <1>4, <1>5 DEF Answering

LEMMA AskingIs ==
    ASSUME Runs, NEW u \in User, Asking(u)
    PROVE  \/ Sending(u)
           \/ /\ FsHas = u
              /\ \/ Receiving(FS)
                 \/ fs.at = "asked"
                 \/ fs.at = "dispatch" /\ buf[FS].body.type # "RESUME_PROC"
           \/ fs.src = u /\ fs.at = "asked" /\ TtyHas = NO_TASK
<1> USE Facts DEF Runs, TtyInv, Working
<1>1. CASE \E t \in Call : Got(t) /\ buf[FS].source = u
    <2>1. /\ fs.at = "dispatch" /\ ~Receiving(FS) /\ buf[FS].body.type # "RESUME_PROC"
          /\ buf[FS].source = u
        BY <1>1 DEF Got, Is
    <2>2. Ready(FS)
        BY <2>1 DEF FsOK, FsLoop, FsDispatch, FsAsked, FsReplies, FsWaits, Awaiting
    <2> QED  BY <2>1, <2>2 DEF FsHas
<1>2. CASE fs.src = u /\ (fs.at = "asked" \/ Receiving(FS))
    <2>1. fs.at \in {"asked", "reply"}
        BY <1>2 DEF FsOK, FsLoop, FsDispatch, FsAsked, FsReplies, FsWaits
    <2>2. CASE ~Suspending
        BY <1>2, <2>1, <2>2 DEF FsHas
    <2>3. CASE Suspending
        <3>1. fs.at = "asked" /\ Sending(TTY) /\ buf[TTY].body.type = "SUSPEND_PROC"
            BY <1>2, <2>1, <2>3, EntryIs DEF Suspending
        <3>2. ~(tt.at = "resumed" /\ \E v \in User : Resuming(v, buf[TTY]))
            BY <3>1 DEF Resuming
        <3>3. tt.at = "loop"
            BY <3>1, <3>2, EntryIs DEF TtyOK, Awaiting
        <3> QED  BY <1>2, <3>1, <3>3 DEF TtyHas
    <2> QED  BY <2>2, <2>3
<1> QED  BY <1>1, <1>2 DEF Asking

\* A caller whose call somebody has is found there.
LEMMA HeldIs ==
    ASSUME Runs, NEW u \in User, Pending(u), Held(u)
    PROVE  Asking(u) \/ Served(u) \/ Answering(u)
<1> USE Facts DEF Runs, TtyInv, Working
<1>1. CASE TtyHas = u
    <2>1. CASE tt.at = "resume"
        BY <1>1, <2>1 DEF TtyHas, Answering
    <2>2. CASE tt.at # "resume"
        <3>1. tt.at = "resumed" /\ Sending(TTY) /\ buf[TTY].body.PROC_NR = u
            BY <1>1, <2>2 DEF TtyHas
        <3>2. \E v \in User : Resuming(v, buf[TTY])
            BY <3>1, EntryIs DEF TtyOK, Awaiting
        <3>3. Is(TTY, "RESUME_PROC")
            BY <3>2 DEF Resuming, Is
        <3> QED  BY <3>1, <3>3 DEF Answering
    <2> QED  BY <2>1, <2>2
<1>2. CASE \E c \in Console : TermHas(c) = u
    <2>1. PICK c \in Console : Serves(c) /\ tty_table[c].tty_procnr = u
        BY <1>2 DEF TermHas
    <2> QED  BY <2>1 DEF Serves, Served
<1>3. CASE FsHas = u
    <2>1. CASE fs.at = "dispatch"
        <3>1. Ready(FS) /\ ~Receiving(FS)
            BY <1>3, <2>1, EntryIs DEF FsHas
        <3>2. PICK v \in User : Requested(v) \/ Resuming(v, buf[FS])
            BY <2>1, <3>1 DEF FsOK, FsLoop, FsDispatch, FsAsked, FsReplies, FsWaits, Awaiting
        <3>3. CASE Resuming(v, buf[FS])
            <4>1. buf[FS].body.PROC_NR = u /\ Got("RESUME_PROC")
                BY <1>3, <2>1, <3>1, <3>3 DEF FsHas, Resuming, Resumed, Got, Is
            <4> QED  BY <4>1 DEF Answering
        <3>4. CASE Requested(v)
            <4>1. buf[FS].source = u /\ v = u
                BY <1>3, <2>1, <3>1, <3>4 DEF FsHas, Requested, Request
            <4>2. user[u].call # "none" /\ user[u].call \in Call \cup {"none"}
                BY DEF UserOK, Pending, TtyTypeOK
            <4>3. Got(user[u].call)
                BY <2>1, <3>1, <3>4, <4>1 DEF Requested, Request, Asks, Got, Is
            <4> QED  BY <4>1, <4>2, <4>3 DEF Asking
        <3> QED  BY <3>2, <3>3, <3>4
    <2>2. CASE fs.at = "asked"
        BY <1>3, <2>2 DEF FsHas, Asking
    <2>3. CASE fs.at = "reply"
        <3>1. fs.src = u /\ ~Suspending
            BY <1>3, <2>3 DEF FsHas
        <3>2. Receiving(FS) \/ Ready(FS)
            BY <2>3 DEF FsOK, FsLoop, FsDispatch, FsAsked, FsReplies, FsWaits, Awaiting
        <3> QED  BY <2>3, <3>1, <3>2 DEF Asking, Answering, Suspending
    <2>4. CASE fs.at = "loop"
        BY <1>3, <2>4 DEF FsHas, Answering
    <2> QED  BY <2>1, <2>2, <2>3, <2>4 DEF TtyTypeOK
<1> QED  BY <1>1, <1>2, <1>3 DEF Held

(* A caller is never forgotten between FS and TTY, nor answered twice: its *)
(* call is with FS, with a terminal or on its way back, in exactly one of  *)
(* these places, until another reader takes its terminal.                  *)
THEOREM CallersAreKept == Spec => []CallersKept
<1>1. ASSUME TtyInv, halted = "no", NEW u \in User \ overtaken
      PROVE  IF user[u].at = "user" \/ (user[u].at = "received" /\ Runnable(u))
             THEN ~Asking(u) /\ ~Served(u) /\ ~Answering(u)
             ELSE /\ Asking(u) \/ Served(u) \/ Answering(u)
                  /\ Answering(u) => ~Asking(u)
                  /\ Served(u) => user[u].call = "READ" /\ ~Answering(u)
    <2>1. Runs /\ UserOK(u) /\ PlaceOK(u)
        BY <1>1 DEF Runs, TtyInv, Working
    <2>2. Ready(u) => ~Awaiting(u, FS)
        BY <1>1, EntryIs, Facts DEF TtyInv, Awaiting
    <2>3. ASSUME Served(u) PROVE Held(u) /\ FsHas # u /\ TtyHas # u /\ user[u].call = "READ"
        <3>1. PICK c \in Console : Serves(c) /\ tty_table[c].tty_procnr = u
            BY <2>3 DEF Served, Serves
        <3>2. TermHas(c) = u /\ user[u].call = "READ"
            BY <1>1, <3>1 DEF TermHas, TtyInv, Working, LinesOK
        <3> QED  BY <2>1, <3>2 DEF PlaceOK, Held
    <2>4. Answering(u) => FsHas = u \/ TtyHas = u
        BY <2>1, AnsweringIs
    <2>5. Asking(u) => Sending(u) \/ Pending(u)
        BY <2>1, AskingIs DEF PlaceOK, Held
    <2>6. Answering(u) => ~Asking(u)
        <3>1. ASSUME Answering(u), Asking(u) PROVE FALSE
            <4>1. Pending(u) /\ ~Sending(u)
                BY <2>1, <2>4, <3>1, SendersAre DEF PlaceOK, Held
            <4> QED  BY <2>1, <3>1, <4>1, AnsweringIs, AskingIs, Facts DEF PlaceOK
        <3> QED  BY <3>1
    <2>7. CASE user[u].at = "user" \/ (user[u].at = "received" /\ Runnable(u))
        <3>1. ~Pending(u) /\ ~Sending(u)
            BY <2>1, <2>2, <2>7, SendersAre DEF Pending, Runnable, Ready
        <3>2. ~Held(u)
            BY <2>1, <3>1 DEF PlaceOK
        <3> QED  BY <2>3, <2>4, <2>5, <2>7, <3>1, <3>2 DEF Held
    <2>8. CASE ~(user[u].at = "user" \/ (user[u].at = "received" /\ Runnable(u)))
        <3>1. Sending(u) \/ Pending(u)
            <4>1. user[u].at \in {"sent", "received"}
                BY <1>1, <2>8 DEF TtyInv, TtyTypeOK
            <4> QED  BY <1>1, <2>1, <2>8, <4>1 DEF UserOK, Pending, SendsTo, Runnable, Ready
        <3>2. Asking(u) \/ Served(u) \/ Answering(u)
            <4>1. CASE Sending(u)
                BY <4>1 DEF Asking
            <4>2. CASE Pending(u)
                BY <1>1, <2>1, <4>2, HeldIs DEF PlaceOK
            <4> QED  BY <3>1, <4>1, <4>2
        <3> QED  BY <2>3, <2>4, <2>6, <2>8, <3>2
    <2> QED  BY <2>7, <2>8
<1>2. TtyInv => CallersKept
    BY <1>1 DEF CallersKept
<1> QED  BY <1>2, TtyInvariance, PTL
=============================================================================
