-------------------------------- MODULE Ipc --------------------------------
(***************************************************************************)
(* The synchronous message passing of kernel/proc.c: sys_sendrec with      *)
(* msg_send and msg_receive, the send-cycle detector deadlock, and the     *)
(* interrupt notification inform_int.                                      *)
(*                                                                         *)
(* One system call is one step: the kernel never switches process inside a *)
(* system call (clock_handler returns early when k_reenter is set).  The   *)
(* one thing that may cut into msg_send, a hardware interrupt, is the      *)
(* subject of module IpcIrq.                                               *)
(***************************************************************************)
EXTENDS Naturals, SequencesExt

CONSTANTS
    Proc,        \* the processes in use: tasks and user processes
    IntTask,     \* the tasks that drivers inform of interrupts
    Body,        \* what a message may carry besides its source
    HARD_INT,    \* the type of the message that reports an interrupt
    ANY,         \* receive from whoever sends
    INTERRUPT,   \* receive from the hardware, and the source of HARD_INT
    NO_TASK      \* "no process" in p_sendto and p_recvfrom

ASSUME ProcAssumption == IntTask \subseteq Proc

ASSUME SentinelAssumption ==
    /\ {ANY, INTERRUPT, NO_TASK} \cap Proc = {}
    /\ ANY # INTERRUPT /\ ANY # NO_TASK /\ INTERRUPT # NO_TASK

ASSUME BodyAssumption == HARD_INT \notin Body /\ Body # {}

VARIABLES
    p_flags,       \* the set of the reasons why a process may not run
    p_sendto,      \* whom a blocked sender wants to send to
    p_recvfrom,    \* whom a blocked receiver waits for
    p_msg,         \* whether p_msg points at the caller's MESSAGE
    q_sending,     \* the processes blocked sending to this one, in order
    has_int_msg,   \* an interrupt came while the process could not take it
    buf,           \* the MESSAGE of the process's current call
    halted         \* how the kernel stopped, if it did

ipcVars == <<p_flags, p_sendto, p_recvfrom, p_msg, q_sending,
             has_int_msg, buf, halted>>

Flag    == {"SENDING", "RECEIVING", "WAITING", "HANGING", "FREE_SLOT"}
Message == [source : Proc \cup {INTERRUPT}, body : Body \cup {HARD_INT}]
Source  == Proc \cup {ANY, INTERRUPT}

IntMessage == [source |-> INTERRUPT, body |-> HARD_INT]

Sending(p)   == "SENDING" \in p_flags[p]
Receiving(p) == "RECEIVING" \in p_flags[p]

\* schedule() considers exactly the processes without a flag.
Runnable(p) == halted = "no" /\ p_flags[p] = {}

\* An assert() that fails stops the kernel where it stands.
Asserting(ok) == halted' = IF ok THEN halted ELSE "assert"

\* Seeded fault: any blocked receiver is served, whomever it waits for.
AwaitsAnybody(dest, src) == Receiving(dest)

\* dest is blocked in a RECEIVE that a message from src satisfies.
Awaits(dest, src) == Receiving(dest) /\ p_recvfrom[dest] \in {src, ANY}

\* Seeded faults: only an exchange of two senders is found; every blocked
\* destination is taken for a cycle.
DeadlockOfTwo(src, dest) == Sending(dest) /\ p_sendto[dest] = src
DeadlockIfSending(src, dest) == Sending(dest)

\* deadlock() follows p_sendto from dest while it meets blocked senders and
\* looks for src: src is in every set that holds dest and is closed under
\* the walk.
Deadlock(src, dest) ==
    \A S \in SUBSET Proc :
        (dest \in S /\ \A p \in S : Sending(p) => p_sendto[p] \in S)
            => src \in S

-----------------------------------------------------------------------------
(* msg_send *)

SendPanic(p, d, m) ==
    /\ Deadlock(p, d)
    /\ halted' = "deadlock"
    /\ buf' = [buf EXCEPT ![p] = [source |-> p, body |-> m]]
    /\ UNCHANGED <<p_flags, p_sendto, p_recvfrom, p_msg, q_sending,
                   has_int_msg>>

SendDeliver(p, d, m) ==
    /\ ~Deadlock(p, d)
    /\ Awaits(d, p)
    /\ LET msg == [source |-> p, body |-> m]
       IN  buf' = [buf EXCEPT ![p] = msg, ![d] = msg]
    /\ p_msg' = [p_msg EXCEPT ![d] = FALSE]
    /\ p_flags' = [p_flags EXCEPT ![d] = @ \ {"RECEIVING"}]
    /\ p_recvfrom' = [p_recvfrom EXCEPT ![d] = NO_TASK]
    /\ Asserting(/\ p_msg[d] /\ p_flags'[d] = {} /\ p_sendto[d] = NO_TASK
                 /\ ~p_msg[p] /\ p_flags[p] = {}
                 /\ p_sendto[p] = NO_TASK /\ p_recvfrom[p] = NO_TASK)
    /\ UNCHANGED <<p_sendto, q_sending, has_int_msg>>

BlockSender(p, d, m) ==
    /\ ~Deadlock(p, d)
    /\ ~Awaits(d, p)
    /\ buf' = [buf EXCEPT ![p] = [source |-> p, body |-> m]]
    /\ p_flags' = [p_flags EXCEPT ![p] = @ \cup {"SENDING"}]
    /\ p_sendto' = [p_sendto EXCEPT ![p] = d]
    /\ p_msg' = [p_msg EXCEPT ![p] = TRUE]
    /\ Asserting(p_flags'[p] = {"SENDING"} /\ p_recvfrom[p] = NO_TASK)
    /\ UNCHANGED <<p_recvfrom, has_int_msg>>

SendBlock(p, d, m) ==
    /\ BlockSender(p, d, m)
    /\ q_sending' = [q_sending EXCEPT ![d] = Append(@, p)]

\* sys_sendrec(SEND, d, m) called by the running process p.
MsgSend(p, d, m) ==
    /\ Runnable(p)
    /\ p # d
    /\ SendPanic(p, d, m) \/ SendDeliver(p, d, m) \/ SendBlock(p, d, m)

-----------------------------------------------------------------------------
(* msg_receive *)

\* Seeded fault: a pending interrupt is seen only by a RECEIVE of INTERRUPT.
TakesIntOnly(p, src) == has_int_msg[p] /\ src = INTERRUPT

TakesInt(p, src) == has_int_msg[p] /\ src \in {ANY, INTERRUPT}

ReceiveInt(p, src) ==
    /\ TakesInt(p, src)
    /\ buf' = [buf EXCEPT ![p] = IntMessage]
    /\ has_int_msg' = [has_int_msg EXCEPT ![p] = FALSE]
    /\ Asserting(~p_msg[p] /\ p_sendto[p] = NO_TASK)
    /\ UNCHANGED <<p_flags, p_sendto, p_recvfrom, p_msg, q_sending>>

\* The sender a RECEIVE from src picks is at position i of p's queue: the
\* first one for ANY, else src itself if it is blocked sending to p.
Picks(p, src, i) ==
    /\ i \in DOMAIN q_sending[p]
    /\ IF src = ANY
       THEN i = 1
       ELSE /\ q_sending[p][i] = src
            /\ Sending(src)
            /\ p_sendto[src] = p

\* The message of the blocked sender from goes to p, and from may run again.
TakeFrom(p, from) ==
    /\ buf' = [buf EXCEPT ![p] = buf[from]]
    /\ p_msg' = [p_msg EXCEPT ![from] = FALSE]
    /\ p_sendto' = [p_sendto EXCEPT ![from] = NO_TASK]
    /\ p_flags' = [p_flags EXCEPT ![from] = @ \ {"SENDING"}]
    /\ Asserting(/\ p_flags[from] = {"SENDING"} /\ p_msg[from]
                 /\ p_recvfrom[from] = NO_TASK /\ p_sendto[from] = p
                 /\ ~p_msg[p] /\ p_recvfrom[p] = NO_TASK
                 /\ p_sendto[p] = NO_TASK)
    /\ UNCHANGED <<p_recvfrom, has_int_msg>>

\* Seeded fault: the senders behind the one taken are cut off with it.
UnlinkTruncating(q, i) == SubSeq(q, 1, i - 1)

Unlink(q, i) == RemoveAt(q, i)

ReceiveTake(p, src, i) ==
    /\ ~TakesInt(p, src)
    /\ Picks(p, src, i)
    /\ TakeFrom(p, q_sending[p][i])
    /\ q_sending' = [q_sending EXCEPT ![p] = Unlink(@, i)]

BlockReceiver(p, src) ==
    /\ buf' = [buf EXCEPT ![p].source = p]
    /\ p_flags' = [p_flags EXCEPT ![p] = @ \cup {"RECEIVING"}]
    /\ p_msg' = [p_msg EXCEPT ![p] = TRUE]
    /\ p_recvfrom' = [p_recvfrom EXCEPT ![p] = src]
    /\ Asserting(/\ p_flags'[p] = {"RECEIVING"} /\ p_sendto[p] = NO_TASK
                 /\ ~has_int_msg[p])
    /\ UNCHANGED <<p_sendto, q_sending, has_int_msg>>

ReceiveBlock(p, src) ==
    /\ ~TakesInt(p, src)
    /\ \A i \in DOMAIN q_sending[p] : ~Picks(p, src, i)
    /\ BlockReceiver(p, src)

\* sys_sendrec(RECEIVE, src, m) called by the running process p.
MsgReceive(p, src) ==
    /\ Runnable(p)
    /\ p # src
    /\ \/ ReceiveInt(p, src)
       \/ \E i \in DOMAIN q_sending[p] : ReceiveTake(p, src, i)
       \/ ReceiveBlock(p, src)

-----------------------------------------------------------------------------
(* inform_int, called by the keyboard, clock and disk interrupt handlers *)

InformWake(t) ==
    /\ Awaits(t, INTERRUPT)
    /\ buf' = [buf EXCEPT ![t] = IntMessage]
    /\ p_msg' = [p_msg EXCEPT ![t] = FALSE]
    /\ has_int_msg' = [has_int_msg EXCEPT ![t] = FALSE]
    /\ p_flags' = [p_flags EXCEPT ![t] = @ \ {"RECEIVING"}]
    /\ p_recvfrom' = [p_recvfrom EXCEPT ![t] = NO_TASK]
    /\ Asserting(p_msg[t] /\ p_flags'[t] = {} /\ p_sendto[t] = NO_TASK)
    /\ UNCHANGED <<p_sendto, q_sending>>

InformPend(t) ==
    /\ ~Awaits(t, INTERRUPT)
    /\ has_int_msg' = [has_int_msg EXCEPT ![t] = TRUE]
    /\ UNCHANGED <<p_flags, p_sendto, p_recvfrom, p_msg, q_sending, buf,
                   halted>>

InformInt(t) ==
    /\ halted = "no"
    /\ InformWake(t) \/ InformPend(t)

-----------------------------------------------------------------------------
IpcInit ==
    /\ p_flags = [p \in Proc |-> {}]
    /\ p_sendto = [p \in Proc |-> NO_TASK]
    /\ p_recvfrom = [p \in Proc |-> NO_TASK]
    /\ p_msg = [p \in Proc |-> FALSE]
    /\ q_sending = [p \in Proc |-> <<>>]
    /\ has_int_msg = [p \in Proc |-> FALSE]
    /\ buf \in [Proc -> {[source |-> p, body |-> m] : p \in Proc, m \in Body}]
    /\ \A p \in Proc : buf[p].source = p
    /\ halted = "no"

\* The one discipline asked of the callers, for the assertion that ends
\* msg_receive: a task with a pending interrupt does not wait for a process.
IntDiscipline(p, src) == src \in Proc => ~has_int_msg[p]

IpcNext ==
    \/ \E p, d \in Proc, m \in Body : MsgSend(p, d, m)
    \/ \E p \in Proc, src \in Source : IntDiscipline(p, src) /\ MsgReceive(p, src)
    \/ \E t \in IntTask : InformInt(t)

IpcSpec == IpcInit /\ [][IpcNext]_ipcVars

-----------------------------------------------------------------------------
(* Types: p_flags holds flags, p_sendto and p_recvfrom hold processes or   *)
(* the sentinels of const.h, the queues hold processes (struct proc).      *)
IpcTypeOK ==
    /\ p_flags \in [Proc -> SUBSET Flag]
    /\ p_sendto \in [Proc -> Proc \cup {NO_TASK}]
    /\ p_recvfrom \in [Proc -> Source \cup {NO_TASK}]
    /\ p_msg \in [Proc -> BOOLEAN]
    /\ q_sending \in [Proc -> Seq(Proc)]
    /\ has_int_msg \in [Proc -> BOOLEAN]
    /\ buf \in [Proc -> Message]
    /\ halted \in {"no", "deadlock", "assert"}

(* A process waits in the queue of d exactly while it is blocked sending   *)
(* to d, and it is there once: the queues threaded through next_sending by *)
(* msg_send and cut by msg_receive never lose or repeat a sender.          *)
QueueExact ==
    \A d \in Proc :
        /\ ToSet(q_sending[d]) = {p \in Proc : Sending(p) /\ p_sendto[p] = d}
        /\ IsInjective(q_sending[d])

(* No rendezvous is missed: nobody stays blocked sending to a process that *)
(* waits for it, and no task sleeps waiting for an interrupt that is       *)
(* already pending.                                                        *)
NoMissedRendezvous ==
    \A d \in Proc :
        /\ \A p \in Proc : ~(Sending(p) /\ p_sendto[p] = d /\ Awaits(d, p))
        /\ ~(has_int_msg[d] /\ Awaits(d, INTERRUPT))

(* The check of deadlock() is enough: blocked senders never form a cycle   *)
(* A -> B -> ... -> A, because every send that would close one panics.     *)
(* Hence, too, the walk of deadlock() itself always ends.                  *)
NoSendCycle ==
    \A S \in (SUBSET Proc) \ {{}} :
        \E p \in S : ~(Sending(p) /\ p_sendto[p] \in S)

(* None of the assertions of msg_send, msg_receive and inform_int fails.   *)
NoAssertFailure == halted # "assert"

(* A message arrives whole, once and where it was sent: a sender unblocks  *)
(* only in the step that copies its message to the process it named, a     *)
(* receiver unblocks only with a message of a source it asked for, and the *)
(* buffer of a process that stays blocked is left alone.                   *)
DeliveryExact ==
    [][ \A p \in Proc :
          /\ Sending(p) /\ ~Sending(p)' =>
                /\ buf'[p_sendto[p]] = buf[p]
                /\ \A q \in Proc \ {p} : Sending(q) = Sending(q)'
                /\ Runnable(p_sendto[p])
          /\ Receiving(p) /\ ~Receiving(p)' =>
                /\ p_recvfrom[p] \in {ANY, buf'[p].source}
                /\ buf'[p].source = INTERRUPT => buf'[p] = IntMessage
          /\ p_flags[p] # {} /\ p_flags'[p] = p_flags[p] => buf'[p] = buf[p]
      ]_ipcVars

(* The panic of msg_send is never a false alarm: it comes only when the    *)
(* send would close a cycle of blocked senders.                            *)
PanicOnlyOnCycle ==
    [][ halted' = "deadlock" =>
          \E p, d \in Proc, S \in SUBSET Proc :
             /\ Runnable(p) /\ p \notin S /\ d \in S
             /\ \A q \in S : Sending(q) /\ p_sendto[q] \in S \cup {p}
      ]_ipcVars

-----------------------------------------------------------------------------
(* The inductive invariant of the proofs in IpcProof.  It adds what the    *)
(* assertions of proc.c say of one process entry at a time: a process has  *)
(* at most one reason not to run, p_sendto and p_recvfrom are set exactly  *)
(* while it is blocked on them, and p_msg while it is blocked at all.      *)
EntryExact ==
    \A p \in Proc :
        /\ p_flags[p] \in {{}, {"SENDING"}, {"RECEIVING"}}
        /\ Sending(p) <=> p_sendto[p] # NO_TASK
        /\ Receiving(p) <=> p_recvfrom[p] # NO_TASK
        /\ p_msg[p] <=> p_flags[p] # {}
        /\ p_sendto[p] # p /\ p_recvfrom[p] # p

IpcInv ==
    /\ IpcTypeOK /\ EntryExact /\ QueueExact
    /\ NoMissedRendezvous /\ NoSendCycle /\ NoAssertFailure
=============================================================================
