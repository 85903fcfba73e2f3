------------------------------ MODULE IpcIrq ------------------------------
(***************************************************************************)
(* msg_send against inform_int.  sys_call (kernel.asm) enables interrupts  *)
(* before it calls sys_sendrec; msg_receive disables them again, msg_send  *)
(* does not.  So while a client is inside msg_send, between any two of its *)
(* statements, an interrupt handler may run inform_int on the destination. *)
(*                                                                         *)
(* One driver task serves clients that send a request and wait for it to   *)
(* be handled.  The disk interrupts only while a command of its task is    *)
(* under way (hd.c); the keyboard interrupts when it likes (clock_handler  *)
(* informs the TTY task of its keys).                                      *)
(***************************************************************************)
EXTENDS Naturals, SequencesExt

CONSTANTS Client,
          Device,       \* the devices to consider, of "disk" and "keyboard"
          ANY, INTERRUPT, NO_TASK

ASSUME DeviceAssumption == Device \subseteq {"disk", "keyboard"}
ASSUME ClientAssumption ==
    /\ {ANY, INTERRUPT, NO_TASK} \cap Client = {}
    /\ ANY # INTERRUPT /\ ANY # NO_TASK /\ INTERRUPT # NO_TASK

VARIABLES
    device,     \* whose task this is; it never changes
    receiving, p_recvfrom, p_msg, has_int_msg, queue,   \* the task's proc entry
    msg,        \* the source of the MESSAGE in the task's buffer
    task, src,  \* where the task is in its main loop, and the request it has
    command,    \* whether the device owes an interrupt for a command
    client,     \* what each client does
    kernel,     \* where msg_send is, and for whom
    returned,   \* the client whose msg_send delivered the latest message
    halted

irqVars == <<device, receiving, p_recvfrom, p_msg, has_int_msg, queue, msg, task, src,
          command, client, kernel, returned, halted>>

entry == <<receiving, p_recvfrom, p_msg, has_int_msg>>
loop  == <<task, src, command>>

User     == [at |-> "user", by |-> NO_TASK]
InUser   == kernel = User /\ ~halted
At(step) == kernel.at = step /\ ~halted
Goto(step) == kernel' = [kernel EXCEPT !.at = step]

OnDemand == device = "disk"

IrqInit ==
    /\ device \in Device
    /\ receiving = FALSE /\ p_recvfrom = NO_TASK /\ p_msg = FALSE
    /\ has_int_msg = FALSE /\ queue = <<>>
    /\ msg = NO_TASK
    /\ task = "loop" /\ src = NO_TASK
    /\ command = FALSE
    /\ client = [c \in Client |-> "idle"]
    /\ kernel = User
    /\ returned = NO_TASK
    /\ halted = FALSE

-----------------------------------------------------------------------------
(* msg_send(c, task, m), one statement a step *)

SendCall(c) ==
    /\ InUser
    /\ client[c] = "idle"
    /\ kernel' = [at |-> "test", by |-> c]
    /\ UNCHANGED <<entry, queue, msg, loop, client, returned, halted>>

\* Does dest wait for this message?  If not, block and append.
SendTest ==
    /\ At("test")
    /\ IF receiving /\ p_recvfrom \in {kernel.by, ANY}
       THEN Goto("assert") /\ UNCHANGED <<queue, client>>
       ELSE /\ queue' = Append(queue, kernel.by)
            /\ client' = [client EXCEPT ![kernel.by] = "blocked"]
            /\ kernel' = User
    /\ UNCHANGED <<entry, msg, loop, returned, halted>>

\* assert(p_dest->p_msg)
SendAssert ==
    /\ At("assert")
    /\ halted' = ~p_msg
    /\ Goto("copy")
    /\ UNCHANGED <<entry, queue, msg, loop, client, returned>>

\* phys_copy to where p_msg points; through a null pointer it misses msg.
SendCopy ==
    /\ At("copy")
    /\ msg' = IF p_msg THEN kernel.by ELSE msg
    /\ Goto("clear")
    /\ UNCHANGED <<entry, queue, loop, client, returned, halted>>

SendClear ==
    /\ At("clear")
    /\ p_msg' = FALSE
    /\ Goto("unflag")
    /\ UNCHANGED <<receiving, p_recvfrom, has_int_msg, queue, msg, loop,
                   client, returned, halted>>

SendUnflag ==
    /\ At("unflag")
    /\ receiving' = FALSE
    /\ Goto("unfrom")
    /\ UNCHANGED <<p_recvfrom, p_msg, has_int_msg, queue, msg, loop,
                   client, returned, halted>>

\* p_recvfrom = NO_TASK, and back to the client: the message is delivered.
SendReturn ==
    /\ At("unfrom")
    /\ p_recvfrom' = NO_TASK
    /\ client' = [client EXCEPT ![kernel.by] = "await"]
    /\ returned' = kernel.by
    /\ kernel' = User
    /\ UNCHANGED <<receiving, p_msg, has_int_msg, queue, msg, loop, halted>>

MsgSend == SendTest \/ SendAssert \/ SendCopy \/ SendClear \/ SendUnflag \/ SendReturn

-----------------------------------------------------------------------------
(* inform_int(task), which may come between any two steps *)

\* Seeded fault: only a RECEIVE of INTERRUPT is woken.
WaitsForIntOnly == receiving /\ p_recvfrom = INTERRUPT

WaitsForInt == receiving /\ p_recvfrom \in {INTERRUPT, ANY}

InformInt ==
    /\ ~halted
    /\ OnDemand => command
    /\ command' = FALSE
    /\ IF WaitsForInt
       THEN /\ msg' = IF p_msg THEN INTERRUPT ELSE msg
            /\ p_msg' = FALSE
            /\ has_int_msg' = FALSE
            /\ receiving' = FALSE
            /\ p_recvfrom' = NO_TASK
       ELSE /\ has_int_msg' = TRUE
            /\ UNCHANGED <<receiving, p_recvfrom, p_msg, msg>>
    /\ UNCHANGED <<queue, task, src, client, kernel, returned, halted>>

-----------------------------------------------------------------------------
(* The task: RECEIVE(ANY), handle, answer; interrupt_wait inside a command *)

\* msg_receive(task, from), which runs with interrupts disabled.
Receive(from) ==
    \/ /\ has_int_msg
       /\ msg' = INTERRUPT
       /\ has_int_msg' = FALSE
       /\ UNCHANGED <<receiving, p_recvfrom, p_msg, queue, client, returned>>
    \/ /\ ~has_int_msg /\ from = ANY /\ queue # <<>>
       /\ msg' = Head(queue)
       /\ returned' = Head(queue)
       /\ queue' = Tail(queue)
       /\ client' = [client EXCEPT ![Head(queue)] = "await"]
       /\ UNCHANGED entry
    \/ /\ ~has_int_msg /\ (from = ANY => queue = <<>>)
       /\ receiving' = TRUE
       /\ p_msg' = TRUE
       /\ p_recvfrom' = from
       /\ UNCHANGED <<has_int_msg, queue, msg, client, returned>>

TaskRuns == InUser /\ ~receiving

TaskReceive ==
    /\ TaskRuns /\ task = "loop"
    /\ Receive(ANY)
    /\ task' = "handle"
    /\ UNCHANGED <<src, command, kernel, halted>>

\* Seeded fault: interrupt_wait takes any message for its interrupt.
DeviceSourceAny == ANY

DeviceSource == INTERRUPT

\* A request is taken up: the task notes whom to answer (src in task_hd).
\* That of the disk issues a command and waits for it, see hd_rdwt.
TaskTakeUp ==
    /\ TaskRuns /\ task = "handle" /\ msg \in Client
    /\ src' = msg
    /\ command' = OnDemand
    /\ task' = IF OnDemand THEN "issued" ELSE "answer"
    /\ returned' = NO_TASK
    /\ UNCHANGED <<entry, queue, msg, client, kernel, halted>>

InterruptWait ==
    /\ TaskRuns /\ task = "issued"
    /\ Receive(DeviceSource)
    /\ task' = "answer"
    /\ UNCHANGED <<src, command, kernel, halted>>

\* The request is done, and the client it came from goes on.
TaskAnswer ==
    /\ TaskRuns /\ task = "answer"
    /\ client' = [client EXCEPT ![src] = "idle"]
    /\ task' = "loop"
    /\ UNCHANGED <<entry, queue, msg, src, command, kernel, returned, halted>>

\* HARD_INT: the key is noted, and the loop goes on.
TaskHardInt ==
    /\ TaskRuns /\ task = "handle" /\ msg = INTERRUPT
    /\ task' = "loop"
    /\ returned' = NO_TASK
    /\ UNCHANGED <<entry, queue, msg, src, command, client, kernel, halted>>

DriverTask == TaskReceive \/ TaskTakeUp \/ InterruptWait \/ TaskAnswer \/ TaskHardInt

IrqNext ==
    /\ \/ \E c \in Client : SendCall(c)
       \/ MsgSend
       \/ InformInt
       \/ DriverTask
    /\ UNCHANGED device

\* The kernel runs on, the scheduler gives the task its turns, and a disk
\* answers a command it was given.
IrqFairness ==
    /\ WF_irqVars(MsgSend /\ UNCHANGED device) /\ WF_irqVars(DriverTask /\ UNCHANGED device)
    /\ WF_irqVars(OnDemand /\ InformInt /\ UNCHANGED device)

IrqSpec == IrqInit /\ [][IrqNext]_irqVars /\ IrqFairness

-----------------------------------------------------------------------------
(* "If dest is blocked waiting for the message, copy the message to it and *)
(* unblock dest" (proc.c:241): once msg_send has delivered a message the   *)
(* destination finds it, and when the task next looks at its buffer, that  *)
(* client's message is in it.                                              *)
DeliveredIntact ==
    (returned # NO_TASK /\ task = "handle" /\ TaskRuns) => msg = returned

(* The disk task never loses a message, and assert(p_dest->p_msg) in       *)
(* msg_send (proc.c:266) never fails for it: hd.c waits for its interrupts *)
(* with RECEIVE(INTERRUPT), so none is under way while a msg_send to it    *)
(* runs.                                                                   *)
DiskDeliveredIntact == OnDemand => ~halted /\ DeliveredIntact

(* Every client that sends to the disk gets its request handled.           *)
EveryRequestHandled ==
    OnDemand => \A c \in Client : (client[c] # "idle") ~> (client[c] = "idle")

(* Whatever the interleaving, outside msg_send the task's process entry    *)
(* agrees with itself: it is blocked exactly if it names a source and has  *)
(* a buffer to fill, and never on an interrupt that it waits for and that  *)
(* is pending already, even if that fell into a msg_send to it.            *)
EntryConsistent ==
    /\ InUser => /\ receiving <=> p_recvfrom # NO_TASK
                 /\ receiving <=> p_msg
    /\ ~(has_int_msg /\ receiving /\ p_recvfrom \in {ANY, INTERRUPT})

-----------------------------------------------------------------------------
(* The inductive invariants of the proofs in KernelProof.                  *)
IrqTypeOK ==
    /\ device \in Device
    /\ receiving \in BOOLEAN /\ p_msg \in BOOLEAN /\ has_int_msg \in BOOLEAN
    /\ command \in BOOLEAN /\ halted \in BOOLEAN
    /\ p_recvfrom \in {ANY, INTERRUPT, NO_TASK}
    /\ queue \in Seq(Client)
    /\ kernel.at \in {"user", "test", "assert", "copy", "clear", "unflag", "unfrom"}
    /\ kernel = [at |-> kernel.at, by |-> kernel.by]
    /\ IF kernel.at = "user" THEN kernel.by = NO_TASK ELSE kernel.by \in Client
    /\ task \in {"loop", "handle", "issued", "answer"}

\* The entry while msg_send changes it, field by field.
EntryInv ==
    /\ kernel.at # "unfrom" => (receiving <=> p_recvfrom # NO_TASK)
    /\ kernel.at = "unfrom" => ~receiving
    /\ kernel.at \notin {"unflag", "unfrom"} => (receiving <=> p_msg)
    /\ kernel.at \in {"unflag", "unfrom"} => ~p_msg
    /\ ~(has_int_msg /\ receiving /\ p_recvfrom \in {ANY, INTERRUPT})

\* msg_send delivers while the task waits in its loop; then the disk has no
\* command, so that nothing cuts into it.
Delivering == kernel.at \in {"assert", "copy", "clear", "unflag", "unfrom"}

DiskInv ==
    OnDemand =>
        /\ ~halted
        /\ has_int_msg => task = "issued" /\ ~command
        /\ command => \/ task = "issued"
                      \/ task = "answer" /\ receiving /\ p_recvfrom = INTERRUPT
        /\ receiving /\ p_recvfrom = ANY => task = "handle"
        /\ Delivering => task = "handle" /\ ~command
        /\ kernel.at \in {"assert", "copy"} => receiving /\ p_msg
        /\ kernel.at \in {"clear", "unflag", "unfrom"} => msg = kernel.by
        /\ kernel.at \in {"user", "test"} /\ returned # NO_TASK /\ task = "handle"
              /\ ~receiving => msg = returned

IrqInv == IrqTypeOK /\ EntryInv /\ DiskInv
=============================================================================
