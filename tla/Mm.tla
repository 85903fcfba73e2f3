-------------------------------- MODULE Mm --------------------------------
(***************************************************************************)
(* The life cycle of processes: fork, exit and wait as the MM task carries *)
(* them out (mm/main.c, mm/forkexit.c) for user processes that reach it    *)
(* through send_recv(BOTH) (lib), with FS told of every fork and exit.     *)
(* All talk goes through the message passing of Ipc.                       *)
(*                                                                         *)
(* MM is a task of ring 1: the clock may preempt it between any two of the *)
(* steps below, and every send_recv in it may block.                       *)
(***************************************************************************)
EXTENDS Ipc

CONSTANTS MM, FS, InitProc,
          User,      \* the slots of proc_table that fork may hand out
          MaxLoad,   \* bound: processes in use, plus those of them in a call
          Watched    \* the processes whose calls CallsComplete follows

ASSUME MmAssumption ==
    /\ User \subseteq Nat /\ InitProc \in Nat /\ MaxLoad \in Nat
    /\ Watched \subseteq {InitProc} \cup User
    /\ {MM, FS, InitProc} \cap User = {}
    /\ MM # FS /\ MM # InitProc /\ FS # InitProc
    /\ Proc = {MM, FS, InitProc} \cup User

VARIABLES
    p_parent,    \* the parent of a process, kept in its slot
    space,       \* whose memory block a process's segments address
    call,        \* the system call a user process is in
    stage,       \* how far it is: "user", "sent", "received", "asserted"
    mm,          \* where MM is in its main loop, and its locals
    fs           \* where FS is

mmVars   == <<p_parent, space, call, stage, mm, fs>>
userVars == <<call, stage>>
vars     == <<ipcVars, mmVars>>

Slot  == {InitProc} \cup User
Call  == {"FORK", "WAIT", "EXIT"}

Waiting(p) == "WAITING" \in p_flags[p]
Hanging(p) == "HANGING" \in p_flags[p]
Free(p)    == p_flags[p] = {"FREE_SLOT"}

Request(t, pid) == [type |-> t, pid |-> pid, ret |-> 0]
Ret(pid, ret)   == [type |-> "SYSCALL_RET", pid |-> pid, ret |-> ret]

\* A MESSAGE buffer between two calls of p, and MM's locals between requests.
Dead(p) == [source |-> p, body |-> Ret(0, 0)]
MmIdle  == [at |-> "loop", src |-> NO_TASK, proc |-> NO_TASK, ret |-> 0,
            then |-> "loop"]

MmInit ==
    /\ p_flags = [p \in Proc |-> IF p \in User THEN {"FREE_SLOT"} ELSE {}]
    /\ p_sendto = [p \in Proc |-> NO_TASK]
    /\ p_recvfrom = [p \in Proc |-> NO_TASK]
    /\ p_msg = [p \in Proc |-> FALSE]
    /\ q_sending = [p \in Proc |-> <<>>]
    /\ has_int_msg = [p \in Proc |-> FALSE]
    /\ buf = [p \in Proc |-> Dead(p)]
    /\ halted = "no"
    /\ p_parent = [p \in Slot |-> NO_TASK]
    /\ space = [p \in Slot |-> p]
    /\ call = [p \in Slot |-> "none"]
    /\ stage = [p \in Slot |-> "user"]
    /\ mm = MmIdle
    /\ fs = "loop"

-----------------------------------------------------------------------------
(* User processes: fork(), wait() and exit() of lib/ *)

\* In a call, and not waiting for a child or dead.
InCall(p) == call[p] # "none" /\ p_flags[p] \subseteq {"SENDING", "RECEIVING"}

UserCall(p, t) ==
    /\ stage[p] = "user"
    /\ Cardinality({q \in Slot : InCall(q)}) + Cardinality({q \in Slot : ~Free(q)}) < MaxLoad
    /\ p = InitProc => t # "EXIT"          \* INIT forks and waits for ever
    /\ MsgSend(p, MM, Request(t, 0))
    /\ call' = [call EXCEPT ![p] = t]
    /\ stage' = [stage EXCEPT ![p] = "sent"]
    /\ UNCHANGED <<p_parent, space, mm, fs>>

\* The RECEIVE half of send_recv(BOTH), a system call of its own.
UserReceive(p) ==
    /\ stage[p] = "sent"
    /\ MsgReceive(p, MM)
    /\ stage' = [stage EXCEPT ![p] = "received"]
    /\ UNCHANGED <<p_parent, space, call, mm, fs>>

\* fork() asserts RETVAL == 0, and a process whose assertion fails spins.
ForkFails(p) == call[p] = "FORK" /\ buf[p].body.ret # 0

\* The MESSAGE is a local of fork(), wait() and exit().
UserReturn(p) ==
    /\ stage[p] = "received"
    /\ Runnable(p)
    /\ buf' = [buf EXCEPT ![p] = Dead(p)]
    /\ stage' = [stage EXCEPT ![p] = IF ForkFails(p) THEN "asserted" ELSE "user"]
    /\ call' = [call EXCEPT ![p] = "none"]
    /\ UNCHANGED <<p_flags, p_sendto, p_recvfrom, p_msg, q_sending, has_int_msg,
                   halted, p_parent, space, mm, fs>>

-----------------------------------------------------------------------------
(* FS, as far as MM meets it: it answers FORK and EXIT *)

FsReceive ==
    /\ fs = "loop"
    /\ MsgReceive(FS, ANY)
    /\ fs' = "reply"
    /\ UNCHANGED <<p_parent, space, userVars, mm>>

FsReply ==
    /\ fs = "reply"
    /\ MsgSend(FS, buf[FS].source, Ret(0, 0))
    /\ fs' = "loop"
    /\ UNCHANGED <<p_parent, space, userVars, mm>>

-----------------------------------------------------------------------------
(* MM *)

MmAt(step) == mm.at = step /\ Runnable(MM)
Goto(step) == IF step = "loop" THEN MmIdle ELSE [mm EXCEPT !.at = step]

\* MM sends m to d, which may block it, and goes on at step.
MmSend(d, m, step) ==
    /\ MsgSend(MM, d, m)
    /\ mm' = Goto(step)
    /\ UNCHANGED <<p_parent, space, userVars, fs>>

MmReceive(src, step) ==
    /\ MsgReceive(MM, src)
    /\ mm' = Goto(step)
    /\ UNCHANGED <<p_parent, space, userVars, fs>>

\* MM sets flags of processes: everything else of their entries stays.
SetFlags(flags) ==
    /\ p_flags' = flags
    /\ UNCHANGED <<p_sendto, p_recvfrom, p_msg, q_sending, has_int_msg, buf,
                   halted>>

Cleanup(p, step) == [mm EXCEPT !.at = "cleanup", !.proc = p, !.then = step]

MmLoop == MmAt("loop") /\ MmReceive(ANY, "dispatch")

\* task_mm's switch on the type of the message.
Dispatches(t) == MmAt("dispatch") /\ buf[MM].body.type = t

Caller == buf[MM].source

----
(* do_fork *)

FreeSlots == {i \in User : Free(i)}

\* *p = proc_table[pid]: the child starts with the flags, the pointers and
\* the registers of the parent, and still with its segments.
ForkDup ==
    /\ Dispatches("FORK") /\ FreeSlots # {}
    /\ LET child   == Min(FreeSlots)
           pid     == Caller
           Dup(f)  == [f EXCEPT ![child] = f[pid]]
       IN  /\ p_flags' = Dup(p_flags) /\ p_sendto' = Dup(p_sendto)
           /\ p_recvfrom' = Dup(p_recvfrom) /\ p_msg' = Dup(p_msg)
           /\ q_sending' = Dup(q_sending) /\ has_int_msg' = Dup(has_int_msg)
           /\ space' = Dup(space) /\ call' = Dup(call) /\ stage' = Dup(stage)
           /\ p_parent' = [p_parent EXCEPT ![child] = pid]
           /\ mm' = [mm EXCEPT !.at = "fork_copy", !.src = pid, !.proc = child,
                               !.ret = 0]
    /\ UNCHANGED <<buf, halted, fs>>

ForkNoSlot ==
    /\ Dispatches("FORK") /\ FreeSlots = {}
    /\ mm' = [mm EXCEPT !.at = "reply", !.src = Caller, !.proc = 0, !.ret = -1]
    /\ UNCHANGED <<ipcVars, p_parent, space, userVars, fs>>

\* phys_copy of the parent's memory, and the child's own segments.
ForkCopy ==
    /\ MmAt("fork_copy")
    /\ buf' = [buf EXCEPT ![mm.proc] = buf[mm.src]]
    /\ space' = [space EXCEPT ![mm.proc] = mm.proc]
    /\ mm' = [mm EXCEPT !.at = "fork_tell"]
    /\ UNCHANGED <<p_flags, p_sendto, p_recvfrom, p_msg, q_sending,
                   has_int_msg, halted, p_parent, userVars, fs>>

\* Seeded fault: the child is not told of its birth.
ForkBirthSkipped ==
    /\ MmAt("birth")
    /\ mm' = [mm EXCEPT !.at = "reply"]
    /\ UNCHANGED <<ipcVars, p_parent, space, userVars, fs>>

ForkTell  == MmAt("fork_tell") /\ MmSend(FS, Request("FORK", mm.proc), "fork_told")
ForkTold  == MmAt("fork_told") /\ MmReceive(FS, "birth")
ForkBirth == MmAt("birth") /\ MmSend(mm.proc, Ret(0, 0), "reply")

\* if (reply): SYSCALL_RET to the caller; also the answer to a childless wait.
Reply == MmAt("reply") /\ MmSend(mm.src, Ret(mm.proc, mm.ret), "loop")

DoFork == ForkDup \/ ForkNoSlot \/ ForkCopy \/ ForkTell \/ ForkTold \/ ForkBirth

----
(* do_exit *)

ExitTell ==
    /\ Dispatches("EXIT")
    /\ MsgSend(MM, FS, Request("EXIT", Caller))
    /\ mm' = [mm EXCEPT !.at = "exit_told", !.src = Caller]
    /\ UNCHANGED <<p_parent, space, userVars, fs>>

ExitTold == MmAt("exit_told") /\ MmReceive(FS, "exit_parent")

\* Seeded fault: the WAITING bit is not cleaned.
StillWaiting(p) == p_flags[p]

NoLongerWaiting(p) == p_flags[p] \ {"WAITING"}

ExitParent ==
    /\ MmAt("exit_parent")
    /\ LET parent == p_parent[mm.src]
       IN  IF Waiting(parent)
           THEN /\ SetFlags([p_flags EXCEPT ![parent] = NoLongerWaiting(parent)])
                /\ mm' = Cleanup(mm.src, "exit_children")
           ELSE /\ SetFlags([p_flags EXCEPT ![mm.src] = @ \cup {"HANGING"}])
                /\ mm' = [mm EXCEPT !.at = "exit_children"]
    /\ UNCHANGED <<p_parent, space, userVars, fs>>

ChildrenOf(pid) == {i \in Slot : p_parent[i] = pid}

\* Seeded fault: INIT is not told of the zombies it inherits.
InheritsSilently(i) == FALSE

\* INIT waits and inherits a zombie.
InheritsZombie(i) == Waiting(InitProc) /\ Hanging(i)

ExitChild ==
    /\ MmAt("exit_children") /\ ChildrenOf(mm.src) # {}
    /\ LET i == Min(ChildrenOf(mm.src))
       IN  /\ p_parent' = [p_parent EXCEPT ![i] = InitProc]
           /\ IF InheritsZombie(i)
              THEN /\ SetFlags([p_flags EXCEPT ![InitProc] = NoLongerWaiting(InitProc)])
                   /\ mm' = Cleanup(i, "exit_children")
              ELSE UNCHANGED <<ipcVars, mm>>
    /\ UNCHANGED <<space, userVars, fs>>

ExitDone ==
    /\ MmAt("exit_children") /\ ChildrenOf(mm.src) = {}
    /\ mm' = MmIdle
    /\ UNCHANGED <<ipcVars, p_parent, space, userVars, fs>>

DoExit == ExitTell \/ ExitTold \/ ExitParent \/ ExitChild \/ ExitDone

----
(* cleanup *)

CleanupSend ==
    /\ MmAt("cleanup")
    /\ MmSend(p_parent[mm.proc], Ret(mm.proc, 0), "free")

CleanupFree ==
    /\ MmAt("free")
    /\ SetFlags([p_flags EXCEPT ![mm.proc] = {"FREE_SLOT"}])
    /\ mm' = Goto(mm.then)
    /\ UNCHANGED <<p_parent, space, userVars, fs>>

----
(* do_wait *)

\* Seeded fault: any child is reported, zombie or not.
AnyChild(pid) == ChildrenOf(pid)

Zombies(pid) == {i \in ChildrenOf(pid) : Hanging(i)}

WaitReap ==
    /\ Dispatches("WAIT") /\ Zombies(Caller) # {}
    /\ mm' = Cleanup(Min(Zombies(Caller)), "loop")
    /\ UNCHANGED <<ipcVars, p_parent, space, userVars, fs>>

WaitBlock ==
    /\ Dispatches("WAIT") /\ Zombies(Caller) = {} /\ ChildrenOf(Caller) # {}
    /\ SetFlags([p_flags EXCEPT ![Caller] = @ \cup {"WAITING"}])
    /\ mm' = MmIdle
    /\ UNCHANGED <<p_parent, space, userVars, fs>>

WaitChildless ==
    /\ Dispatches("WAIT") /\ ChildrenOf(Caller) = {}
    /\ mm' = [mm EXCEPT !.at = "reply", !.src = Caller, !.proc = NO_TASK, !.ret = 0]
    /\ UNCHANGED <<ipcVars, p_parent, space, userVars, fs>>

DoWait == WaitReap \/ WaitBlock \/ WaitChildless

-----------------------------------------------------------------------------
TaskMm == MmLoop \/ DoFork \/ DoExit \/ DoWait \/ CleanupSend \/ CleanupFree \/ Reply

TaskFs == FsReceive \/ FsReply

UserStep(p) == UserReceive(p) \/ UserReturn(p)

Next ==
    \/ \E p \in Slot, t \in Call : UserCall(p, t)
    \/ \E p \in Slot : UserStep(p)
    \/ TaskMm
    \/ TaskFs

\* schedule() gives every runnable process its turn (see Sched); whether a
\* user process makes another call is its own affair.
Fairness ==
    /\ WF_vars(TaskMm) /\ WF_vars(TaskFs)
    /\ \A p \in Slot : WF_vars(UserStep(p))

Spec == MmInit /\ [][Next]_vars /\ Fairness

-----------------------------------------------------------------------------
Idle == mm.at = "loop"

(* The protocol of MM, FS and the callers never trips an assertion of      *)
(* proc.c and never makes its deadlock check panic, whatever WAITING and   *)
(* HANGING bits MM has put on processes that are blocked already.          *)
KernelRuns == halted = "no"

\* No parent sleeps in wait() while a child of its is a zombie: a child that
\* exits, or is inherited, is reported.
NoMissedReap == \A c \in User : Hanging(c) => ~Waiting(p_parent[c])

\* Every process in use but INIT has a parent that is in use and has not
\* exited: orphans go to INIT in time.
ParentAlive ==
    \A c \in User :
        ~Free(c) => LET p == p_parent[c]
                    IN  p \in Slot /\ ~Free(p) /\ ~Hanging(p)

\* "a memory block is dedicated to one and only one PID" (mm/main.c:142).
OwnSpace == \A p \in User : ~Free(p) => space[p] = p

(* Between two requests of MM the process table is settled, whoever exited *)
(* while its children ran, hung or were being reaped: no orphan keeps a    *)
(* dead parent, no zombie a parent that waits and was not told, and every  *)
(* process addresses its own memory.                                       *)
TableSettled == Idle => NoMissedReap /\ ParentAlive /\ OwnSpace

\* What fork() may say to p: 0 if it has a parent, or else the PID of a child.
ForkPid(p, pid) ==
    \/ pid = 0 /\ p # InitProc
    \/ pid \in User /\ p_parent[pid] = p /\ ~Free(pid)

\* fork() returns twice, and tells each side the right thing.
ForkReturns(p) ==
    call[p] = "FORK" /\ stage[p] = "received" /\ stage'[p] = "user" =>
        ForkPid(p, buf[p].body.pid)

\* The step in which p gets MM's answer: MM sends it, or p picks it up.
Answered(p) ==
    \/ Receiving(p) /\ ~Receiving(p)'
    \/ stage[p] = "sent" /\ stage'[p] = "received" /\ ~Receiving(p)'

\* What wait() may say to p: a child that has called exit(), or that there is
\* none if there is none.
WaitPid(p, pid) ==
    IF pid = NO_TASK THEN \A c \in User : p_parent[c] = p => Free(c)
    ELSE pid \in User /\ p_parent[pid] = p /\ call[pid] = "EXIT"

WaitReturns(p) == call[p] = "WAIT" /\ Answered(p) => WaitPid(p, buf'[p].body.pid)

\* exit() does not return: a process that asked for it never runs again in the
\* same life of its slot.
ExitReturns(p) == (call[p] = "EXIT" /\ stage[p] = "received" /\ Runnable(p))'

(* Each caller gets the answer to its own call, and no other: fork() says  *)
(* 0 to the child and the child's PID to the parent, wait() the PID of a   *)
(* child that has exited, and nothing ever answers an exit().              *)
AnswersExact ==
    [][\A p \in Slot : ForkReturns(p) /\ WaitReturns(p) /\ ~ExitReturns(p)]_vars

\* p waits for a fork(), or for its exit() to end it: as a zombie, or with its
\* slot given back.
Owed(p) ==
    \/ call[p] = "FORK"
    \/ call[p] = "EXIT" /\ stage[p] = "sent" /\ ~Hanging(p) /\ ~Free(p)

(* Although MM calls FS in the middle and both serve others, every fork()  *)
(* is answered and every exit() carried through.                           *)
CallsComplete == \A p \in Watched : Owed(p) ~> ~Owed(p)
-----------------------------------------------------------------------------
(* The inductive invariant of MmProof.  It says of every process what its   *)
(* entry looks like, and of every place of MM and of FS which processes     *)
(* they still have to answer: nobody else is kept waiting.                  *)

Mail == [type : Call \cup {"SYSCALL_RET"}, pid : Proc \cup {NO_TASK, 0}, ret : {0, -1}]

\* The process table as Ipc has it, with no interrupts.
TableOK ==
    /\ p_flags \in [Proc -> SUBSET Flag]
    /\ p_sendto \in [Proc -> Proc \cup {NO_TASK}]
    /\ p_recvfrom \in [Proc -> Source \cup {NO_TASK}]
    /\ p_msg \in [Proc -> BOOLEAN]
    /\ q_sending \in [Proc -> Seq(Proc)]
    /\ has_int_msg = [p \in Proc |-> FALSE]
    /\ buf \in [Proc -> [source : Proc, body : Mail]]
    /\ QueueExact /\ KernelRuns

\* The places of MM and its locals there.
Place == {"loop", "dispatch", "reply", "fork_copy", "fork_tell", "fork_told", "birth",
          "exit_told", "exit_parent", "exit_children", "cleanup", "free"}
MmLocals == [at : Place, src : Slot \cup {NO_TASK}, proc : Slot \cup {NO_TASK, 0},
             ret : {0, -1}, then : {"loop", "exit_children"}]

MmTypeOK ==
    /\ p_parent \in [Slot -> Slot \cup {NO_TASK}]
    /\ space \in [Slot -> Slot]
    /\ call \in [Slot -> Call \cup {"none"}]
    /\ stage \in [Slot -> {"user", "sent", "received", "asserted"}]
    /\ mm \in MmLocals

\* A process is not blocked, or it is blocked by IPC alone.
Ready(p) ==
    p_flags[p] = {} /\ ~p_msg[p] /\ p_sendto[p] = NO_TASK /\ p_recvfrom[p] = NO_TASK
SendsTo(p, d) ==
    p_flags[p] = {"SENDING"} /\ p_msg[p] /\ p_sendto[p] = d /\ p_recvfrom[p] = NO_TASK
Awaiting(p, src) ==
    p_flags[p] = {"RECEIVING"} /\ p_msg[p] /\ p_sendto[p] = NO_TASK /\ p_recvfrom[p] = src

\* MM has the request of p, and p no answer.
Bits == {"WAITING", "HANGING"}
Pending(p) ==
    /\ call[p] \in Call /\ p_sendto[p] = NO_TASK
    /\ \/ /\ stage[p] = "sent" /\ p_flags[p] \subseteq Bits
          /\ ~p_msg[p] /\ p_recvfrom[p] = NO_TASK
       \/ /\ stage[p] = "received" /\ p_flags[p] \subseteq Bits \cup {"RECEIVING"}
          /\ Receiving(p) /\ p_msg[p] /\ p_recvfrom[p] = MM
    /\ Waiting(p) => call[p] = "WAIT"
    /\ Hanging(p) => call[p] = "EXIT"

\* It is neither waiting for a child nor a zombie: MM is at its request.
Open(p) == Pending(p) /\ ~Waiting(p) /\ ~Hanging(p)
Serves(S) == S \subseteq Slot /\ \A p \in Slot : Open(p) <=> p \in S

UserOK(p) ==
    \/ Free(p) /\ p \in User
    \/ stage[p] \in {"user", "asserted"} /\ call[p] = "none" /\ Ready(p)
    \/ /\ stage[p] = "sent" /\ call[p] \in Call /\ SendsTo(p, MM)
       /\ buf[p] = [source |-> p, body |-> Request(call[p], 0)]
    \/ Pending(p)
    \/ /\ stage[p] = "received" /\ call[p] \in {"FORK", "WAIT"} /\ Ready(p)
       /\ call[p] = "FORK" /\ buf[p].body.ret = 0 => ForkPid(p, buf[p].body.pid)

Right(p, answer) ==
    /\ call[p] \in {"FORK", "WAIT"}
    /\ call[p] = "FORK" /\ answer.ret = 0 => ForkPid(p, answer.pid)
    /\ call[p] = "WAIT" => WaitPid(p, answer.pid)

AtLoop ==
    /\ mm = MmIdle
    /\ \/ Ready(MM) /\ Serves({})
       \/ \E p \in Slot : /\ SendsTo(MM, p) /\ Serves({p})
                          /\ buf[MM].source = MM /\ Right(p, buf[MM].body)

AtDispatch ==
    /\ mm = [MmIdle EXCEPT !.at = "dispatch"]
    /\ \/ Awaiting(MM, ANY) /\ Serves({})
       \/ \E p \in Slot : /\ Ready(MM) /\ Serves({p})
                          /\ buf[MM] = [source |-> p, body |-> Request(call[p], 0)]

AtFork ==
    /\ mm.src \in Slot /\ mm.proc \in User /\ mm.src # mm.proc
    /\ p_parent[mm.proc] = mm.src /\ mm.ret = 0
    /\ Serves({mm.src, mm.proc})
    /\ call[mm.src] = "FORK" /\ call[mm.proc] = "FORK"
    /\ \/ mm.at \in {"fork_copy", "fork_tell"} /\ Ready(MM)
       \/ mm.at \in {"fork_told", "birth"}
       \/ /\ mm.at = "reply" /\ SendsTo(MM, mm.proc)
          /\ buf[MM] = [source |-> MM, body |-> Ret(0, 0)]

AtReply ==
    /\ mm.at = "reply" /\ Ready(MM)
    /\ mm.src \in Slot /\ Serves({mm.src}) /\ Right(mm.src, Ret(mm.proc, mm.ret))

AtExit ==
    /\ mm.at \in {"exit_told", "exit_parent"}
    /\ mm.src \in User /\ Serves({mm.src}) /\ call[mm.src] = "EXIT"

AtChildren ==
    /\ mm.at = "exit_children" /\ Ready(MM)
    /\ mm.src \in User /\ Serves({}) /\ (Hanging(mm.src) \/ Free(mm.src))

\* MM ends the process mm.proc, of which it tells the parent.
AtCleanup ==
    /\ mm.at \in {"cleanup", "free"}
    /\ mm.proc \in User /\ Pending(mm.proc) /\ call[mm.proc] = "EXIT"
    /\ Hanging(mm.proc) \/ (mm.then = "exit_children" /\ mm.src = mm.proc)
    /\ mm.then = "exit_children" =>
          mm.src \in User /\ (mm.src = mm.proc \/ Hanging(mm.src) \/ Free(mm.src))
    /\ LET parent == p_parent[mm.proc]
           ending == {p \in {mm.proc} : ~Hanging(p)}
       IN  /\ parent \in Slot
           /\ \/ /\ mm.at = "cleanup" /\ Ready(MM)
                 /\ Serves({parent} \cup ending) /\ call[parent] = "WAIT"
              \/ /\ mm.at = "free" /\ SendsTo(MM, parent)
                 /\ Serves({parent} \cup ending) /\ call[parent] = "WAIT"
                 /\ buf[MM] = [source |-> MM, body |-> Ret(mm.proc, 0)]
              \/ /\ mm.at = "free" /\ Ready(MM) /\ Serves(ending)
                 /\ ~(call[parent] = "FORK" /\ stage[parent] = "received")

MmPlace == AtLoop \/ AtDispatch \/ AtFork \/ AtReply \/ AtExit \/ AtChildren \/ AtCleanup

\* FS answers each request of MM before it takes another.
FsQuiet == \/ fs = "loop" /\ Ready(FS)
           \/ fs = "reply" /\ Awaiting(FS, ANY)
FsAsked == fs = "reply" /\ Ready(FS) /\ buf[FS].source = MM

FsPlace ==
    CASE mm.at \in {"fork_told", "exit_told"} ->
            \/ SendsTo(MM, FS) /\ buf[MM].source = MM /\ fs = "loop" /\ Ready(FS)
            \/ Ready(MM) /\ (FsAsked \/ (fs = "loop" /\ SendsTo(FS, MM)))
      [] mm.at \in {"birth", "exit_parent"} ->
            \/ Awaiting(MM, FS) /\ FsAsked
            \/ Ready(MM) /\ FsQuiet
      [] OTHER -> FsQuiet

\* Only children of a process whose exit is being carried out have a parent
\* that is gone, those of them included whose slots are free again.
Leaving(p) ==
    /\ p = mm.src
    /\ mm.at = "exit_children" \/ (mm.at \in {"cleanup", "free"} /\ mm.then = "exit_children")

FamilyOK ==
    /\ p_parent[InitProc] = NO_TASK
    /\ \A c \in User :
          /\ p_parent[c] # c
          /\ p_parent[c] = NO_TASK => Free(c)
          /\ p_parent[c] # NO_TASK =>
                \/ ~Free(p_parent[c]) /\ ~Hanging(p_parent[c])
                \/ Leaving(p_parent[c])
          /\ Hanging(c) => ~Waiting(p_parent[c])

SpaceOK == \A p \in User : Free(p) \/ space[p] = p \/ (mm.at = "fork_copy" /\ p = mm.proc)

MmInv ==
    /\ TableOK /\ MmTypeOK
    /\ call[InitProc] # "EXIT" /\ \A p \in Slot : UserOK(p)
    /\ MmPlace /\ FsPlace /\ FamilyOK /\ SpaceOK
=============================================================================
