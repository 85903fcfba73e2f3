---------------------------- MODULE KernelProof ----------------------------
(***************************************************************************)
(* What the kernel promises whatever interrupts come and wherever they     *)
(* fall: into msg_send (IpcIrq), for any number of clients; into           *)
(* schedule() and the system calls (Sched), for every process table,       *)
(* every choice of tasks, idle processes and forkable slots, and all       *)
(* priorities; and into the reading of the keyboard's ring (Keyboard),     *)
(* for any number of slots.                                                *)
(***************************************************************************)
EXTENDS Sched, IpcIrq, Keyboard, SequenceTheorems, TLAPS

-----------------------------------------------------------------------------
(* msg_send cut by interrupts *)

\* The step of IrqNext, without the device that never changes.
LEMMA NextCases ==
    ASSUME NEW P, [IrqNext]_irqVars,
           \A c \in Client : SendCall(c) => P,
           SendTest => P, SendAssert => P, SendCopy => P, SendClear => P,
           SendUnflag => P, SendReturn => P,
           InformInt => P,
           TaskReceive => P, TaskTakeUp => P, InterruptWait => P,
           TaskAnswer => P, TaskHardInt => P,
           UNCHANGED irqVars => P
    PROVE  P
BY DEF IrqNext, MsgSend, DriverTask

LEMMA IrqInitial == IrqInit => IrqInv
<1> SUFFICES ASSUME IrqInit PROVE IrqInv
    OBVIOUS
<1>1. IrqTypeOK
    <2>1. queue \in Seq(Client)
        BY EmptySeq DEF IrqInit
    <2>2. kernel = [at |-> "user", by |-> NO_TASK]
        BY DEF IrqInit, User
    <2>3. /\ receiving \in BOOLEAN /\ p_msg \in BOOLEAN /\ has_int_msg \in BOOLEAN
          /\ command \in BOOLEAN /\ halted \in BOOLEAN
        BY DEF IrqInit
    <2>4. device \in Device /\ p_recvfrom \in {ANY, INTERRUPT, NO_TASK} /\ task = "loop"
        BY DEF IrqInit
    <2> QED  BY <2>1, <2>2, <2>3, <2>4 DEF IrqTypeOK
<1>2. EntryInv
    BY DEF IrqInit, EntryInv, User
<1>3. DiskInv
    BY DEF IrqInit, DiskInv, Delivering, User
<1> QED  BY <1>1, <1>2, <1>3 DEF IrqInv

LEMMA DeviceFixed == [IrqNext]_irqVars => device' = device
BY DEF IrqNext, irqVars

-----------------------------------------------------------------------------
LEMMA TypeStep ==
    ASSUME IrqTypeOK, [IrqNext]_irqVars
    PROVE  IrqTypeOK'
<1> USE DEF IrqTypeOK
<1>1. device' = device
    BY DeviceFixed
<1>2. ASSUME NEW c \in Client, SendCall(c) PROVE IrqTypeOK'
    BY <1>1, <1>2 DEF SendCall, entry, loop
<1>3. ASSUME SendTest PROVE IrqTypeOK'
    BY <1>1, <1>3 DEF SendTest, At, Goto, User, entry, loop
<1>4. ASSUME SendAssert \/ SendCopy \/ SendClear \/ SendUnflag PROVE IrqTypeOK'
    BY <1>1, <1>4 DEF SendAssert, SendCopy, SendClear, SendUnflag, At, Goto, entry, loop
<1>5. ASSUME SendReturn PROVE IrqTypeOK'
    BY <1>1, <1>5 DEF SendReturn, User, loop
<1>6. ASSUME InformInt PROVE IrqTypeOK'
    BY <1>1, <1>6 DEF InformInt
<1>7. ASSUME NEW from \in {ANY, INTERRUPT}, Receive(from)
      PROVE  /\ receiving' \in BOOLEAN /\ p_msg' \in BOOLEAN /\ has_int_msg' \in BOOLEAN
             /\ p_recvfrom' \in {ANY, INTERRUPT, NO_TASK} /\ queue' \in Seq(Client)
    <2>1. CASE has_int_msg /\ has_int_msg' = FALSE /\ queue' = queue
                 /\ UNCHANGED <<receiving, p_recvfrom, p_msg>>
        BY <2>1
    <2>2. CASE queue # <<>> /\ queue' = Tail(queue) /\ UNCHANGED entry
        BY <2>2 DEF entry
    <2>3. CASE /\ receiving' = TRUE /\ p_msg' = TRUE /\ p_recvfrom' = from
               /\ UNCHANGED <<has_int_msg, queue>>
        BY <2>3
    <2> QED  BY <1>7, <2>1, <2>2, <2>3 DEF Receive
<1>8. ASSUME TaskReceive \/ InterruptWait PROVE IrqTypeOK'
    BY <1>1, <1>7, <1>8 DEF TaskReceive, InterruptWait, DeviceSource
<1>9. ASSUME TaskTakeUp \/ TaskAnswer \/ TaskHardInt PROVE IrqTypeOK'
    BY <1>1, <1>9 DEF TaskTakeUp, TaskAnswer, TaskHardInt, OnDemand, entry
<1>10. ASSUME UNCHANGED irqVars PROVE IrqTypeOK'
    BY <1>10 DEF irqVars
<1> QED
    BY <1>2, <1>3, <1>4, <1>5, <1>6, <1>8, <1>9, <1>10, NextCases

LEMMA EntryStep ==
    ASSUME IrqTypeOK, EntryInv, [IrqNext]_irqVars
    PROVE  EntryInv'
<1> USE ClientAssumption DEF EntryInv, IrqTypeOK
<1>1. ASSUME NEW c \in Client, SendCall(c) PROVE EntryInv'
    BY <1>1 DEF SendCall, InUser, User, entry
<1>2. ASSUME SendTest PROVE EntryInv'
    BY <1>2 DEF SendTest, At, Goto, User, entry
<1>3. ASSUME SendAssert \/ SendCopy PROVE EntryInv'
    BY <1>3 DEF SendAssert, SendCopy, At, Goto, entry
<1>4. ASSUME SendClear \/ SendUnflag PROVE EntryInv'
    BY <1>4 DEF SendClear, SendUnflag, At, Goto
<1>5. ASSUME SendReturn PROVE EntryInv'
    BY <1>5 DEF SendReturn, At, User
<1>6. ASSUME InformInt PROVE EntryInv'
    BY <1>6 DEF InformInt, WaitsForInt
<1>7. ASSUME NEW from \in {ANY, INTERRUPT}, Receive(from), InUser, kernel' = kernel
      PROVE  EntryInv'
    BY <1>7 DEF Receive, InUser, User, entry
<1>8. ASSUME TaskReceive \/ InterruptWait PROVE EntryInv'
    BY <1>7, <1>8 DEF TaskReceive, InterruptWait, TaskRuns, DeviceSource
<1>9. ASSUME TaskTakeUp \/ TaskAnswer \/ TaskHardInt PROVE EntryInv'
    BY <1>9 DEF TaskTakeUp, TaskAnswer, TaskHardInt, entry
<1>10. ASSUME UNCHANGED irqVars PROVE EntryInv'
    BY <1>10 DEF irqVars
<1> QED
    BY <1>1, <1>2, <1>3, <1>4, <1>5, <1>6, <1>8, <1>9, <1>10, NextCases

LEMMA DiskStep ==
    ASSUME IrqInv, [IrqNext]_irqVars
    PROVE  DiskInv'
<1> SUFFICES ASSUME OnDemand PROVE DiskInv'
    BY DeviceFixed DEF DiskInv, OnDemand
<1> USE ClientAssumption DEF IrqInv, DiskInv, IrqTypeOK, Delivering
<1>1. ASSUME NEW c \in Client, SendCall(c) PROVE DiskInv'
    BY <1>1 DEF SendCall, InUser, User, entry, loop
\* Only a wait for ANY takes a message, and that is the one of the main loop.
<1>2. ASSUME SendTest PROVE DiskInv'
    BY <1>2 DEF SendTest, At, Goto, User, entry, loop, EntryInv
<1>3. ASSUME SendAssert PROVE DiskInv'
    BY <1>3 DEF SendAssert, At, Goto, entry, loop
<1>4. ASSUME SendCopy PROVE DiskInv'
    BY <1>4 DEF SendCopy, At, Goto, entry, loop
<1>5. ASSUME SendClear \/ SendUnflag PROVE DiskInv'
    BY <1>5 DEF SendClear, SendUnflag, At, Goto, loop
<1>6. ASSUME SendReturn PROVE DiskInv'
    BY <1>6 DEF SendReturn, At, User, loop, EntryInv
\* The disk has a command, so no message is being delivered.
<1>7. ASSUME InformInt PROVE DiskInv'
    BY <1>7 DEF InformInt, WaitsForInt, EntryInv
<1>8. ASSUME TaskReceive PROVE DiskInv'
    BY <1>8 DEF TaskReceive, Receive, TaskRuns, InUser, User, entry
<1>9. ASSUME InterruptWait PROVE DiskInv'
    BY <1>9 DEF InterruptWait, Receive, DeviceSource, TaskRuns, InUser, User, entry, EntryInv
<1>10. ASSUME TaskTakeUp \/ TaskAnswer \/ TaskHardInt PROVE DiskInv'
    BY <1>10 DEF TaskTakeUp, TaskAnswer, TaskHardInt, TaskRuns, InUser, User, entry, OnDemand
<1>11. ASSUME UNCHANGED irqVars PROVE DiskInv'
    BY <1>11 DEF irqVars, OnDemand
<1> QED
    BY <1>1, <1>2, <1>3, <1>4, <1>5, <1>6, <1>7, <1>8, <1>9, <1>10, <1>11, NextCases

LEMMA IrqStep == IrqInv /\ [IrqNext]_irqVars => IrqInv'
BY TypeStep, EntryStep, DiskStep DEF IrqInv

-----------------------------------------------------------------------------
(* The inductive invariant: the entry of the task is consistent at every   *)
(* statement of msg_send, and the disk has no command while a message is   *)
(* being delivered to its task.                                            *)
THEOREM IrqInvariance == IrqSpec => []IrqInv
BY IrqInitial, IrqStep, PTL DEF IrqSpec

(* Outside msg_send the entry of a driver task agrees with itself, and it  *)
(* sleeps on no interrupt that is pending, whichever device it serves.     *)
THEOREM EntryIsConsistent == IrqSpec => []EntryConsistent
<1>1. IrqInv => EntryConsistent
    BY DEF IrqInv, EntryInv, EntryConsistent, InUser, User, IrqTypeOK
<1> QED  BY <1>1, IrqInvariance, PTL

(* No interrupt of the disk gets between the statements of a msg_send to   *)
(* its task, however many clients there are: no message is lost and the    *)
(* assertion on p_msg holds.                                               *)
THEOREM DiskLosesNothing == IrqSpec => []DiskDeliveredIntact
<1>1. IrqInv => DiskDeliveredIntact
    BY DEF IrqInv, DiskInv, DiskDeliveredIntact, DeliveredIntact, TaskRuns, InUser,
           User, IrqTypeOK
<1> QED  BY <1>1, IrqInvariance, PTL

-----------------------------------------------------------------------------
(* The scheduler *)

USE SchedAssumption

LEMMA InitInv == Init => SchedInv
<1> SUFFICES ASSUME Init PROVE SchedInv
    OBVIOUS
<1>1. p_proc_ready \in ready
    <2>1. PICK first \in Task : \A p \in Proc : first <= p
        OBVIOUS
    <2>2. first <= p_proc_ready /\ p_proc_ready <= first
        BY <2>1 DEF Init, First
    <2>3. first \in Nat /\ p_proc_ready \in Nat
        BY DEF Init, First
    <2>4. first = p_proc_ready
        BY <2>2, <2>3
    <2> QED
        BY <2>4 DEF Init
<1>2. DOMAIN tcks = {} /\ DOMAIN prio = {} /\ tcks \in [{} -> Nat] /\ prio \in [{} -> Nat]
    BY DEF Init, Nothing
<1>3. SchedTypeOK
    <2>1. priority \in [Proc -> Nat]
        BY DEF Init
    <2> QED
        BY <1>1, <1>2, <2>1 DEF Init, SchedTypeOK
<1>4. PrioritiesRestored
    BY DEF Init, PrioritiesRestored, InitialPriority
<1>5. Idle \subseteq ready
    BY DEF Init
<1> QED
    BY <1>1, <1>3, <1>4, <1>5 DEF SchedInv, RunningReady, PrioritiesKept,
                                        TestedStalled, Init

-----------------------------------------------------------------------------
(* What a scan finds is well typed: a refill hands out priorities.         *)
LEMMA SupplyType == SchedTypeOK => Supply \in [Proc -> Nat]
BY DEF SchedTypeOK, Supply, Refill

LEMMA ChooseInv == SchedInv /\ Choose => SchedInv'
<1> SUFFICES ASSUME SchedInv, Choose PROVE SchedInv'
    OBVIOUS
<1>1. PICK p \in ready : p_proc_ready' = p
    BY DEF Choose
<1>2. ticks' \in [Proc -> Nat]
    BY SupplyType DEF SchedInv, Choose
<1>3. SchedTypeOK'
    BY <1>1, <1>2 DEF SchedInv, SchedTypeOK, Choose, saved
<1>4. RunningReady'
    BY <1>1 DEF RunningReady, Choose
<1>5. PrioritiesRestored' /\ PrioritiesKept' /\ TestedStalled'
    BY DEF SchedInv, PrioritiesRestored, PrioritiesKept, TestedStalled,
           First, InitialPriority, Choose, saved
<1> QED
    BY <1>3, <1>4, <1>5 DEF SchedInv, Choose

LEMMA BlockInv == ASSUME NEW masked \in BOOLEAN, SchedInv, Block(masked)
                  PROVE  SchedInv'
<1>1. PICK p \in Proc \ Idle : Running(p) /\ ready' = ready \ {p}
    BY DEF Block
<1>2. scheduling' # "no" /\ scheduling' \in {"no", "open", "masked"}
    BY DEF Block
<1>3. SchedTypeOK'
    BY <1>1, <1>2 DEF SchedInv, SchedTypeOK, Block, saved
<1>4. PrioritiesRestored' /\ PrioritiesKept' /\ TestedStalled'
    BY DEF SchedInv, PrioritiesRestored, PrioritiesKept, TestedStalled,
           First, InitialPriority, Block, saved
<1>5. Idle \subseteq ready'
    BY <1>1 DEF SchedInv
<1> QED
    BY <1>2, <1>3, <1>4, <1>5 DEF SchedInv, RunningReady

LEMMA UnblockInv == ASSUME NEW p \in Proc, SchedInv, Unblock(p)
                    PROVE  SchedInv'
<1>1. SchedTypeOK'
    BY DEF SchedInv, SchedTypeOK, Unblock, saved
<1>2. RunningReady' /\ Idle \subseteq ready'
    BY DEF SchedInv, RunningReady, Unblock
<1>3. PrioritiesRestored' /\ PrioritiesKept' /\ TestedStalled'
    BY DEF SchedInv, PrioritiesRestored, PrioritiesKept, TestedStalled,
           First, InitialPriority, Unblock, saved
<1> QED
    BY <1>1, <1>2, <1>3 DEF SchedInv

LEMMA ClockInv == ASSUME NEW nested \in BOOLEAN, SchedInv, Clock(nested)
                  PROVE  SchedInv'
<1> DEFINE remaining == IF ticks[p_proc_ready] = 0 THEN 0 ELSE ticks[p_proc_ready] - 1
<1>1. remaining \in Nat
    BY DEF SchedInv, SchedTypeOK
<1>2. ticks' \in [Proc -> Nat]
    BY <1>1 DEF SchedInv, SchedTypeOK, Clock
<1>3. /\ scheduling' \in {"no", "open", "masked"}
      /\ scheduling' = "no" => scheduling = "no"
    BY DEF SchedInv, SchedTypeOK, Clock
<1>4. SchedTypeOK'
    BY <1>2, <1>3 DEF SchedInv, SchedTypeOK, Clock, saved
<1>5. RunningReady' /\ Idle \subseteq ready'
    BY <1>3 DEF SchedInv, RunningReady, Clock
<1>6. PrioritiesRestored' /\ PrioritiesKept' /\ TestedStalled'
    BY DEF SchedInv, PrioritiesRestored, PrioritiesKept, TestedStalled,
           First, InitialPriority, Clock, saved
<1> QED
    BY <1>4, <1>5, <1>6 DEF SchedInv

(* A fork writes the ticks and the priority of a free slot only.           *)
LEMMA ForkInv == ASSUME NEW parent \in Proc, NEW child \in Slot,
                        SchedInv, Fork(parent, child)
                 PROVE  SchedInv'
<1>1. child \in free /\ child \notin ready
    BY DEF SchedInv, SchedTypeOK, Fork, First
<1>2. ready' \subseteq Proc \ free' /\ ready \subseteq ready'
    BY <1>1 DEF SchedInv, SchedTypeOK, Fork
<1>3. /\ ticks' \in [Proc -> Nat] /\ priority' \in [Proc -> Nat]
      /\ \A p \in Proc \ Slot : priority'[p] = priority[p]
    BY DEF SchedInv, SchedTypeOK, Fork
<1>4. SchedTypeOK'
    BY <1>2, <1>3 DEF SchedInv, SchedTypeOK, Fork, saved
<1>5. RunningReady' /\ Idle \subseteq ready'
    BY <1>2 DEF SchedInv, RunningReady, Fork
<1>6. PrioritiesRestored' /\ PrioritiesKept' /\ TestedStalled'
    BY <1>3 DEF SchedInv, PrioritiesRestored, PrioritiesKept, TestedStalled,
           First, InitialPriority, Fork, saved
<1> QED
    BY <1>4, <1>5, <1>6 DEF SchedInv

(* MM runs when a slot is given back, so the slot is not that of the       *)
(* running process.                                                        *)
LEMMA ExitInv == ASSUME NEW p \in Slot, SchedInv, Exit(p)
                 PROVE  SchedInv'
<1>1. SchedTypeOK'
    BY DEF SchedInv, SchedTypeOK, Exit, saved
<1>2. p_proc_ready = MM /\ MM # p
    BY DEF Exit, Running
<1>3. RunningReady' /\ Idle \subseteq ready'
    BY <1>2 DEF SchedInv, RunningReady, Exit
<1>4. PrioritiesRestored' /\ PrioritiesKept' /\ TestedStalled'
    BY DEF SchedInv, PrioritiesRestored, PrioritiesKept, TestedStalled,
           First, InitialPriority, Exit, saved
<1> QED
    BY <1>1, <1>3, <1>4 DEF SchedInv

-----------------------------------------------------------------------------
LEMMA DumpBeginInv == SchedInv /\ DumpBegin => SchedInv'
<1> SUFFICES ASSUME SchedInv, DumpBegin PROVE SchedInv'
    OBVIOUS
<1>1. Stalled \subseteq Proc
    BY DEF Stalled
<1>2. /\ DOMAIN tcks' = Stalled /\ tcks' \in [Stalled -> Nat]
      /\ DOMAIN prio' = Stalled /\ prio' \in [Stalled -> Nat]
      /\ \A p \in Stalled : prio'[p] = priority[p]
    BY <1>1 DEF SchedInv, SchedTypeOK, DumpBegin, Restrict
<1>3. /\ ticks' \in [Proc -> Nat] /\ priority' \in [Proc -> Nat]
      /\ \A p \in Proc \ Stalled : priority'[p] = priority[p]
    BY DEF SchedInv, SchedTypeOK, DumpBegin
<1>4. SchedTypeOK'
    BY <1>1, <1>2, <1>3 DEF SchedInv, SchedTypeOK, DumpBegin
<1>5. PrioritiesKept'
    <2> SUFFICES ASSUME NEW p \in Proc \ Slot
                 PROVE  IF p \in left' \ Exempt
                        THEN p \in DOMAIN prio' /\ prio'[p] = InitialPriority(p)
                        ELSE priority'[p] = InitialPriority(p)
        BY DEF PrioritiesKept, InitialPriority
    <2>1. priority[p] = InitialPriority(p)
        BY DEF SchedInv, PrioritiesRestored, DumpBegin
    <2>2. p \in Stalled <=> p \notin Exempt
        BY DEF Stalled, SchedInv, SchedTypeOK
    <2> QED
        BY <1>2, <1>3, <2>1, <2>2 DEF DumpBegin
<1>6. PrioritiesRestored' /\ RunningReady' /\ Idle \subseteq ready'
    BY DEF SchedInv, PrioritiesRestored, RunningReady, DumpBegin
<1>7. TestedStalled'
    BY DEF TestedStalled, DumpBegin
<1> QED
    BY <1>4, <1>5, <1>6, <1>7 DEF SchedInv

(* What an entry passes over by its tests is exempt or a free slot, so no  *)
(* priority that has to come back is dropped.                              *)
LEMMA DumpTestInv == SchedInv /\ DumpTest => SchedInv'
<1> SUFFICES ASSUME SchedInv, DumpTest PROVE SchedInv'
    OBVIOUS
<1>1. PICK p \in left :
        /\ First(p, left)
        /\ IF p \in Stalled THEN tested' = TRUE /\ left' = left
                           ELSE tested' = FALSE /\ left' = left \ {p}
        /\ tcks' = Restrict(tcks, DOMAIN tcks \cap left')
        /\ prio' = Restrict(prio, DOMAIN prio \cap left')
    BY DEF DumpTest
<1>2. /\ DOMAIN tcks' = DOMAIN tcks \cap left' /\ DOMAIN prio' = DOMAIN tcks'
      /\ tcks' \in [DOMAIN tcks' -> Nat] /\ prio' \in [DOMAIN tcks' -> Nat]
      /\ \A q \in DOMAIN prio' : prio'[q] = prio[q]
    BY <1>1 DEF SchedInv, SchedTypeOK, Restrict
<1>3. SchedTypeOK'
    <2>1. tested' \in BOOLEAN
        BY <1>1
    <2>2. left' \subseteq left /\ DOMAIN tcks' \subseteq left'
        BY <1>1, <1>2
    <2> QED
        BY <1>2, <2>1, <2>2 DEF SchedInv, SchedTypeOK, DumpTest
<1>4. PrioritiesKept'
    <2> SUFFICES ASSUME NEW q \in Proc \ Slot
                 PROVE  IF q \in left' \ Exempt
                        THEN q \in DOMAIN prio' /\ prio'[q] = InitialPriority(q)
                        ELSE priority'[q] = InitialPriority(q)
        BY DEF PrioritiesKept, InitialPriority
    <2>1. IF q \in left \ Exempt
          THEN q \in DOMAIN prio /\ prio[q] = InitialPriority(q)
          ELSE priority[q] = InitialPriority(q)
        BY DEF SchedInv, PrioritiesKept, DumpTest
    <2>2. q \in left \ Exempt <=> q \in left' \ Exempt
        BY <1>1 DEF Stalled, SchedInv, SchedTypeOK
    <2>3. priority' = priority
        BY DEF DumpTest
    <2> QED
        BY <1>2, <2>1, <2>2, <2>3 DEF SchedInv, SchedTypeOK
<1>5. TestedStalled'
    <2> SUFFICES ASSUME tested', NEW q \in Exempt, First(q, left') PROVE FALSE
        BY DEF TestedStalled, First
    <2>1. p \in Proc \ Exempt /\ left' = left
        BY <1>1 DEF Stalled
    <2>2. p <= q /\ q <= p /\ q \in Proc
        BY <1>1, <2>1 DEF First
    <2>3. p \in Nat /\ q \in Nat
        BY <2>1, <2>2
    <2> QED
        BY <2>1, <2>2, <2>3
<1>6. PrioritiesRestored' /\ RunningReady' /\ Idle \subseteq ready'
    BY DEF SchedInv, PrioritiesRestored, RunningReady, DumpTest
<1> QED
    BY <1>3, <1>4, <1>5, <1>6 DEF SchedInv

(* A write of the restoring loop: the entry of p gets its priority back,   *)
(* or garbage if p is a slot, and nobody else's entry changes.             *)
LEMMA DumpRestoreInv == SchedInv /\ DumpRestore => SchedInv'
<1> SUFFICES ASSUME SchedInv, DumpRestore PROVE SchedInv'
    OBVIOUS
<1>1. PICK p \in left :
        /\ First(p, left)
        /\ PutBack(p)
        /\ tcks' = Restrict(tcks, DOMAIN tcks \ {p})
        /\ prio' = Restrict(prio, DOMAIN prio \ {p})
        /\ left' = left \ {p}
    BY DEF DumpRestore
<1>2. /\ DOMAIN prio' = DOMAIN tcks' /\ DOMAIN tcks' = DOMAIN tcks \ {p}
      /\ tcks' \in [DOMAIN tcks' -> Nat] /\ prio' \in [DOMAIN tcks' -> Nat]
      /\ \A q \in DOMAIN prio' : prio'[q] = prio[q]
    BY <1>1 DEF SchedInv, SchedTypeOK, Restrict
<1>3. /\ ticks' \in [Proc -> Nat] /\ priority' \in [Proc -> Nat]
      /\ \A q \in Proc \ {p} : priority'[q] = priority[q]
      /\ p \in DOMAIN tcks => priority'[p] = prio[p]
    <2>1. CASE p \in DOMAIN tcks
        BY <1>1, <2>1 DEF SchedInv, SchedTypeOK, PutBack
    <2>2. CASE p \notin DOMAIN tcks
        <3>1. PICK t \in Garbage, r \in Garbage :
                 /\ ticks' = [ticks EXCEPT ![p] = t]
                 /\ priority' = [priority EXCEPT ![p] = r]
            BY <1>1, <2>2 DEF PutBack
        <3> QED
            BY <3>1, <2>2 DEF SchedInv, SchedTypeOK
    <2> QED
        BY <2>1, <2>2
<1>4. SchedTypeOK'
    BY <1>1, <1>2, <1>3 DEF SchedInv, SchedTypeOK, DumpRestore
<1>5. PrioritiesKept'
    <2> SUFFICES ASSUME NEW q \in Proc \ Slot
                 PROVE  IF q \in left' \ Exempt
                        THEN q \in DOMAIN prio' /\ prio'[q] = InitialPriority(q)
                        ELSE priority'[q] = InitialPriority(q)
        BY DEF PrioritiesKept, InitialPriority
    <2>1. IF q \in left \ Exempt
          THEN q \in DOMAIN prio /\ prio[q] = InitialPriority(q)
          ELSE priority[q] = InitialPriority(q)
        BY DEF SchedInv, PrioritiesKept, DumpRestore
    <2>2. p \notin Exempt
        BY <1>1 DEF SchedInv, TestedStalled, DumpRestore
    <2>3. CASE q = p
        BY <1>1, <1>3, <2>1, <2>2, <2>3 DEF SchedInv, SchedTypeOK
    <2>4. CASE q # p
        BY <1>1, <1>2, <1>3, <2>1, <2>4 DEF SchedInv, SchedTypeOK
    <2> QED
        BY <2>3, <2>4
<1>6. /\ PrioritiesRestored' /\ TestedStalled'
      /\ RunningReady' /\ Idle \subseteq ready'
    BY DEF SchedInv, PrioritiesRestored, TestedStalled, RunningReady, DumpRestore
<1> QED
    BY <1>4, <1>5, <1>6 DEF SchedInv

LEMMA DumpEndInv == SchedInv /\ DumpEnd => SchedInv'
<1> SUFFICES ASSUME SchedInv, DumpEnd PROVE SchedInv'
    OBVIOUS
<1>1. /\ DOMAIN tcks' = {} /\ tcks' \in [{} -> Nat]
      /\ DOMAIN prio' = {} /\ prio' \in [{} -> Nat]
    BY DEF DumpEnd, Nothing
<1>2. SchedTypeOK'
    BY <1>1 DEF SchedInv, SchedTypeOK, DumpEnd
<1>3. PrioritiesRestored'
    BY DEF SchedInv, PrioritiesRestored, PrioritiesKept, InitialPriority, DumpEnd
<1>4. PrioritiesKept' /\ RunningReady' /\ Idle \subseteq ready'
    BY DEF SchedInv, PrioritiesKept, RunningReady, DumpEnd
<1>5. TestedStalled'
    BY DEF SchedInv, TestedStalled, First, DumpEnd
<1> QED
    BY <1>2, <1>3, <1>4, <1>5 DEF SchedInv

-----------------------------------------------------------------------------
LEMMA StepInv == SchedInv /\ [Next]_vars => SchedInv'
<1> SUFFICES ASSUME SchedInv, [Next]_vars PROVE SchedInv'
    OBVIOUS
<1>1. CASE UNCHANGED vars
    BY <1>1 DEF vars, saved, SchedInv, SchedTypeOK, RunningReady,
                PrioritiesRestored, PrioritiesKept, TestedStalled, First,
                InitialPriority
<1>2. ASSUME NEW masked \in BOOLEAN, Block(masked) PROVE SchedInv'
    BY <1>2, BlockInv
<1>3. ASSUME NEW p \in Proc, Unblock(p) PROVE SchedInv'
    BY <1>3, UnblockInv
<1>4. CASE Ticks
    BY <1>4, ClockInv DEF Ticks
<1>5. CASE Forks
    BY <1>5, ForkInv DEF Forks
<1>6. ASSUME NEW p \in Slot, Exit(p) PROVE SchedInv'
    BY <1>6, ExitInv
<1> QED
    BY <1>1, <1>2, <1>3, <1>4, <1>5, <1>6, ChooseInv, DumpBeginInv,
       DumpTestInv, DumpRestoreInv, DumpEndInv DEF Next

(* The invariant of the scheduler, for any process table.                  *)
THEOREM SchedInvariance == Spec => []SchedInv
BY InitInv, StepInv, PTL DEF Spec

(* Types of the scheduler's part of the process table.                     *)
THEOREM SchedTypes == Spec => []SchedTypeOK
BY SchedInvariance, PTL DEF SchedInv

(* Whoever blocks, wakes, is born or dies, and however interrupts fall,    *)
(* only a process without flags runs.                                      *)
THEOREM OnlyReadyRuns == Spec => []RunningReady
BY SchedInvariance, PTL DEF SchedInv

(* A dump of the disk log leaves no trace on the priority of any process   *)
(* that kernel_main set up, whoever ran during the restoring loop.         *)
THEOREM DumpRestores == Spec => []PrioritiesRestored
BY SchedInvariance, PTL DEF SchedInv

(* Outside a dump the loop of schedule() ends: an idle process is ready    *)
(* and has ticks, or gets its priority, which is not 0.                    *)
LEMMA ScanFinds == SchedInv => ScanEnds
<1> SUFFICES ASSUME SchedInv, scheduling # "no", ~dumping PROVE Found
    BY DEF ScanEnds
<1>1. CASE Spent
    <2>1. PICK p \in Idle : TRUE
        OBVIOUS
    <2>2. p \in ready /\ p \in Proc \ Slot
        BY <2>1 DEF SchedInv
    <2>3. priority[p] > 0
        BY <2>2 DEF SchedInv, PrioritiesRestored, InitialPriority
    <2> QED
        BY <1>1, <2>2, <2>3 DEF Found, Supply, Refill
<1>2. CASE ~Spent
    <2>1. PICK p \in ready : ticks[p] # 0
        BY <1>2 DEF Spent
    <2>2. ticks[p] \in Nat
        BY <2>1 DEF SchedInv, SchedTypeOK
    <2> QED
        BY <1>2, <2>1, <2>2 DEF Found, Supply
<1> QED
    BY <1>1, <1>2

(* schedule() never loops for ever outside a dump of the disk log.         *)
THEOREM ScansEnd == Spec => []ScanEnds
BY SchedInvariance, ScanFinds, PTL

-----------------------------------------------------------------------------
(* The ring of the keyboard, and the keys TTY gets *)

\* The codes of a key that is let go.
Release(k) == [Scan[k] EXCEPT ![Len(Scan[k])] = Break(@)]

LEMMA Codes ==
    ASSUME NEW k \in Keys
    PROVE  \/ k = "a" /\ Scan[k] = <<30>> /\ Release(k) = <<158>>
           \/ k = "shift" /\ Scan[k] = <<42>> /\ Release(k) = <<170>>
           \/ k = "caps" /\ Scan[k] = <<58>> /\ Release(k) = <<186>>
           \/ k = "num" /\ Scan[k] = <<69>> /\ Release(k) = <<197>>
           \/ k = "pad" /\ Scan[k] = <<72>> /\ Release(k) = <<200>>
           \/ k = "up" /\ Scan[k] = <<224, 72>> /\ Release(k) = <<224, 200>>
<1>1. k \in {"a", "shift", "caps", "num", "pad", "up"}
    BY KeyboardAssumption DEF Scan
<1>2. ASSUME NEW c \in 0..127, Scan[k] = <<c>>
      PROVE  Release(k) = <<c + 128>>
    BY <1>2 DEF Release, Break
<1>3. CASE k = "up"
    <2>1. Scan[k] = <<224, 72>>
        BY <1>3 DEF Scan
    <2>2. Release(k) = <<224, 200>>
        BY <2>1 DEF Release, Break
    <2> QED  BY <1>3, <2>1, <2>2
<1>4. CASE k = "a"
    <2>1. Scan[k] = <<30>>
        BY <1>4 DEF Scan
    <2> QED  BY <1>2, <1>4, <2>1
<1>5. CASE k = "shift"
    <2>1. Scan[k] = <<42>>
        BY <1>5 DEF Scan
    <2> QED  BY <1>2, <1>5, <2>1
<1>6. CASE k = "caps"
    <2>1. Scan[k] = <<58>>
        BY <1>6 DEF Scan
    <2> QED  BY <1>2, <1>6, <2>1
<1>7. CASE k = "num"
    <2>1. Scan[k] = <<69>>
        BY <1>7 DEF Scan
    <2> QED  BY <1>2, <1>7, <2>1
<1>8. CASE k = "pad"
    <2>1. Scan[k] = <<72>>
        BY <1>8 DEF Scan
    <2> QED  BY <1>2, <1>8, <2>1
<1> QED  BY <1>1, <1>3, <1>4, <1>5, <1>6, <1>7, <1>8

\* All of them are bytes.
LEMMA ScanBytes ==
    ASSUME NEW k \in Keys
    PROVE  Scan[k] \in Seq(Byte) /\ Release(k) \in Seq(Byte)
<1>1. ASSUME NEW c \in 0..127, Scan[k] = <<c>>, Release(k) = <<c + 128>>
      PROVE  Scan[k] \in Seq(Byte) /\ Release(k) \in Seq(Byte)
    <2>1. c \in Byte /\ c + 128 \in Byte
        BY DEF Byte
    <2> QED  BY <1>1, <2>1
<1>2. CASE Scan[k] = <<224, 72>> /\ Release(k) = <<224, 200>>
    <2>1. 224 \in Byte /\ 72 \in Byte /\ 200 \in Byte
        BY DEF Byte
    <2> QED  BY <1>2, <2>1
<1>3. \/ \E c \in 0..127 : Scan[k] = <<c>> /\ Release(k) = <<c + 128>>
      \/ Scan[k] = <<224, 72>> /\ Release(k) = <<224, 200>>
    <2>1. /\ 158 = 30 + 128 /\ 170 = 42 + 128 /\ 186 = 58 + 128 /\ 197 = 69 + 128
          /\ 200 = 72 + 128 /\ {30, 42, 58, 69, 72} \subseteq 0..127
        OBVIOUS
    <2> QED  BY <2>1, Codes
<1> QED  BY <1>1, <1>2, <1>3

\* So are those of Pause and PrintScreen.
LEMMA SpecialBytes ==
    /\ PausePress \in Seq(Byte) /\ PrintPress \in Seq(Byte)
    /\ PrintRelease \in Seq(Byte)
BY DEF PausePress, PrintPress, PrintRelease, Byte

\* The slot after the one p places behind the tail.
LEMMA SlotNext ==
    ASSUME NEW t \in Index, NEW n \in 0..KB_IN_BYTES
    PROVE  /\ RingSlot(t + n) \in Index
           /\ NextSlot(t) \in Index
           /\ NextSlot(RingSlot(t + n)) = RingSlot(t + n + 1) \/ n = KB_IN_BYTES
           /\ n > 0 => RingSlot(NextSlot(t) + n - 1) = RingSlot(t + n)
BY KeyboardAssumption DEF RingSlot, NextSlot, Index

\* Two slots less than a turn of the ring apart are different.
LEMMA SlotsDiffer ==
    ASSUME NEW t \in Index, NEW n \in 0..(KB_IN_BYTES - 1), NEW i \in 0..(n - 1)
    PROVE  RingSlot(t + i) # RingSlot(t + n)
BY KeyboardAssumption DEF RingSlot, Index

\* The interrupt handler writes where nothing is pending.
LEMMA PutKeeps ==
    ASSUME RingInv, NEW code \in Byte, Put(code), wire' \in Seq(Byte)
    PROVE  RingInv'
<1> USE KeyboardAssumption DEF RingInv, RingExact, Put
<1>1. count \in 0..(KB_IN_BYTES - 1) /\ p_head = RingSlot(p_tail + count)
    BY DEF Index
<1>2. /\ ring' \in [Index -> Byte] /\ pending' \in Seq(Byte)
      /\ count' \in 0..KB_IN_BYTES /\ count' = Len(pending')
    BY <1>1
<1>3. p_head' \in Index /\ p_tail' \in Index /\ p_head' = RingSlot(p_tail' + count')
    <2>1. p_tail \in Index /\ count \in 0..KB_IN_BYTES /\ count # KB_IN_BYTES
        BY <1>1
    <2>2. NextSlot(RingSlot(p_tail + count)) = RingSlot(p_tail + count + 1)
        BY <2>1, SlotNext
    <2>3. RingSlot(p_tail + count) \in Index
        BY <2>1, SlotNext
    <2>4. NextSlot(p_head) \in Index
        BY <1>1, <2>3 DEF NextSlot, Index
    <2>5. p_tail' + count' = p_tail + count + 1
        BY <2>1 DEF Index
    <2> QED  BY <1>1, <2>1, <2>2, <2>4, <2>5
<1>4. ASSUME NEW i \in 1..count'
      PROVE  ring'[RingSlot(p_tail' + i - 1)] = pending'[i]
    <2>1. CASE i = count'
        <3>1. pending'[i] = code
            BY <2>1
        <3>2. p_tail' + i - 1 = p_tail + count
            BY <2>1, <1>1 DEF Index
        <3> QED  BY <1>1, <3>1, <3>2
    <2>2. CASE i < count'
        <3>1. i \in 1..count /\ pending'[i] = pending[i]
            BY <2>2
        <3>2. RingSlot(p_tail + (i - 1)) # RingSlot(p_tail + count)
            BY <1>1, <3>1, SlotsDiffer
        <3>3. RingSlot(p_tail + (i - 1)) = RingSlot(p_tail + i - 1)
            BY <3>1 DEF Index
        <3> QED  BY <1>1, <3>1, <3>2, <3>3
    <2> QED  BY <2>1, <2>2, <1>1
<1> QED  BY <1>2, <1>3, <1>4

\* get_byte_from_kb_buf takes the oldest byte and moves the rest one place up.
LEMMA GetKeeps ==
    ASSUME RingInv, Get, wire' \in Seq(Byte)
    PROVE  RingInv'
<1> USE KeyboardAssumption DEF RingInv, RingExact, Get
<1>1. count \in 1..KB_IN_BYTES /\ pending # <<>>
    OBVIOUS
<1>2. /\ pending' \in Seq(Byte) /\ Len(pending') = count'
      /\ count' \in 0..KB_IN_BYTES
    BY <1>1
<1>3. p_tail' \in Index /\ p_head' = RingSlot(p_tail' + count')
    <2>1. NextSlot(p_tail) \in Index
        BY <1>1, SlotNext
    <2>2. RingSlot(NextSlot(p_tail) + count - 1) = RingSlot(p_tail + count)
        BY <1>1, SlotNext
    <2>3. NextSlot(p_tail) + count - 1 = p_tail' + count'
        BY <1>1, <2>1 DEF Index
    <2> QED  BY <2>1, <2>2, <2>3
<1>4. ASSUME NEW i \in 1..count'
      PROVE  ring'[RingSlot(p_tail' + i - 1)] = pending'[i]
    <2>1. i \in 0..KB_IN_BYTES /\ i + 1 \in 1..count /\ pending'[i] = pending[i + 1]
        BY <1>1
    <2>2. RingSlot(NextSlot(p_tail) + i - 1) = RingSlot(p_tail + i)
        BY <2>1, SlotNext
    <2>3. p_tail + (i + 1) - 1 = p_tail + i
        BY DEF Index
    <2> QED  BY <2>1, <2>2, <2>3
<1> QED  BY <1>2, <1>3, <1>4

LEMMA RingInitial == KeyInit => RingInv
<1> SUFFICES ASSUME KeyInit PROVE RingInv
    OBVIOUS
<1>1. ring \in [Index -> Byte] /\ pending \in Seq(Byte) /\ wire \in Seq(Byte)
    BY DEF KeyInit, RingInit, Index, Byte
<1>2. RingSlot(0) = 0 /\ 0 \in Index
    BY KeyboardAssumption DEF RingSlot, Index
<1> QED  BY <1>1, <1>2, KeyboardAssumption DEF KeyInit, RingInit, RingInv, RingExact

\* Everything but the two ends of the ring leaves it alone.
LEMMA RingUntouched ==
    ASSUME RingInv, UNCHANGED ringVars, wire' \in Seq(Byte)
    PROVE  RingInv'
BY DEF RingInv, RingExact, ringVars

LEMMA RingStep ==
    ASSUME RingInv, [KeyNext]_keyVars
    PROVE  RingInv'
<1> USE DEF RingInv
<1>1. ASSUME NEW k \in Keys, Press(k) \/ LetGo(k) PROVE RingInv'
    <2>1. wire' \in Seq(Byte) /\ UNCHANGED ringVars
        BY <1>1, ScanBytes DEF Press, LetGo, Event, Release
    <2> QED  BY <2>1, RingUntouched
<1>2. ASSUME NEW codes \in {PausePress, PrintPress, PrintRelease}, PressSpecial(codes)
      PROVE  RingInv'
    <2>1. wire' \in Seq(Byte) /\ UNCHANGED ringVars
        BY <1>2, SpecialBytes DEF PressSpecial, Event
    <2> QED  BY <2>1, RingUntouched
<1>3. CASE keyboard_handler
    <2>1. wire' \in Seq(Byte) /\ Head(wire) \in Byte
        BY <1>3 DEF keyboard_handler
    <2>2. CASE Put(Head(wire))
        BY <2>1, <2>2, PutKeeps
    <2>3. CASE UNCHANGED ringVars
        BY <2>1, <2>3, RingUntouched
    <2> QED  BY <1>3, <2>2, <2>3 DEF keyboard_handler
<1>4. CASE keyboard_read
    <2>1. Get /\ wire' \in Seq(Byte)
        BY <1>4 DEF keyboard_read, userVars
    <2> QED  BY <2>1, GetKeeps
<1>5. CASE \/ ReadDone \/ TtyReceive \/ TtyHardInt \/ TtyMessage \/ clock_handler
           \/ UNCHANGED keyVars
    <2>1. wire' \in Seq(Byte) /\ UNCHANGED ringVars
        BY <1>5 DEF ReadDone, TtyReceive, TtyHardInt, TtyMessage, clock_handler, keyVars
    <2> QED  BY <2>1, RingUntouched
<1> QED  BY <1>1, <1>2, <1>3, <1>4, <1>5 DEF KeyNext, TaskTty

\* The invariant of the ring holds always, for any number of slots.
THEOREM RingInvariance == KeySpec => []RingInv
BY RingInitial, RingStep, PTL DEF KeySpec

\* The ring holds exactly the bytes accepted and not yet taken, in order.
THEOREM RingIsExact == KeySpec => []RingExact
BY RingInvariance, PTL DEF RingInv
-----------------------------------------------------------------------------
(* What keyboard_read has read so far, and what it will have read when the *)
(* bytes in the ring and on the wire are taken: a track from one to other. *)

Out == {"a", "A", "8", "*", "UP", "shift UP"}
Reading == [taken : Seq(Byte), shift : BOOLEAN, caps : BOOLEAN, num : BOOLEAN, given : Seq(Out)]

Now   == [taken |-> taken, shift |-> shift_l, caps |-> caps_lock, num |-> num_lock,
          given |-> given]
Meant == [taken |-> <<>>, shift |-> Shifted, caps |-> caps_on, num |-> num_on,
          given |-> typed]

Means(s, k) ==
    CASE k = "a"   -> <<IF s.shift # s.caps THEN "A" ELSE "a">>
      [] k = "pad" -> <<IF s.shift \/ s.num THEN "8" ELSE "UP">>
      [] k = "up"  -> <<IF s.shift THEN "shift UP" ELSE "UP">>
      [] OTHER     -> <<>>

Special    == {PausePress, PrintPress, PrintRelease}

\* The key of a whole turn t is pressed, or let go, or there is none.
Pressed(s, k) ==
    [taken |-> <<>>, shift |-> (s.shift \/ k = "shift"), caps |-> (s.caps # (k = "caps")),
     num |-> (s.num # (k = "num")), given |-> s.given \o Means(s, k)]
Released(s, k) ==
    [taken |-> <<>>, shift |-> (s.shift /\ k # "shift"), caps |-> s.caps, num |-> s.num,
     given |-> s.given]
Paused(s) == [s EXCEPT !.taken = <<>>]
Completes(s, t, r) ==
    \/ t \in Special /\ r = Paused(s)
    \/ \E k \in Keys : t = Scan[k] /\ r = Pressed(s, k)
    \/ \E k \in Keys : t = Release(k) /\ r = Released(s, k)

Follows(s, b, r) ==
    LET t == Append(s.taken, b)
    IN  \/ Unfinished(t) /\ r = [s EXCEPT !.taken = t]
        \/ Completes(s, t, r)

\* The bytes that are still to be read.
Ahead   == Len(pending) + Len(wire)
Left(i) == IF i <= Len(pending) THEN pending[i] ELSE wire[i - Len(pending)]

Begins(s, t) == Len(s) <= Len(t) /\ s = SubSeq(t, 1, Len(s))

Track(f) ==
    /\ f \in [0..Ahead -> Reading]
    /\ f[0] = Now /\ f[Ahead] = Meant
    /\ \A i \in 1..Ahead : Follows(f[i - 1], Left(i), f[i])
    /\ \A i \in 0..Ahead : Begins(f[i].given, typed)

\* The inductive invariant of KeysExact.
KeysInv == RingInv /\ (lost \/ \E f : Track(f))

-----------------------------------------------------------------------------
(* The codes *)

\* A turn is unfinished exactly if it is a proper beginning of a long code.
LEMMA UnfinishedIs ==
    ASSUME NEW t \in Seq(Byte)
    PROVE  Unfinished(t) <=> \E c \in Special : Len(t) < Len(c) /\ \A i \in 1..Len(t) : t[i] = c[i]
<1>1. ASSUME NEW c \in Special
      PROVE  t \in StartOf(c) <=> Len(t) < Len(c) /\ \A i \in 1..Len(t) : t[i] = c[i]
    <2>1. c \in Seq(Byte)
        BY <1>1, SpecialBytes DEF Special
    <2>2. ASSUME NEW n \in 0..(Len(c) - 1)
          PROVE  /\ SubSeq(c, 1, n) \in Seq(Byte) /\ Len(SubSeq(c, 1, n)) = n
                 /\ \A i \in 1..n : SubSeq(c, 1, n)[i] = c[i]
        BY <2>1
    <2>3. ASSUME t \in StartOf(c)
          PROVE  Len(t) < Len(c) /\ \A i \in 1..Len(t) : t[i] = c[i]
        <3>1. PICK n \in 0..(Len(c) - 1) : t = SubSeq(c, 1, n)
            BY <2>3 DEF StartOf
        <3> QED  BY <2>1, <2>2, <3>1
    <2>4. ASSUME Len(t) < Len(c), \A i \in 1..Len(t) : t[i] = c[i]
          PROVE  t \in StartOf(c)
        <3>1. Len(t) \in 0..(Len(c) - 1)
            BY <2>1, <2>4
        <3>2. t = SubSeq(c, 1, Len(t))
            BY <2>2, <2>4, <3>1, SeqEqual
        <3> QED  BY <3>1, <3>2 DEF StartOf
    <2> QED  BY <2>3, <2>4
<1> QED  BY <1>1 DEF Unfinished, Special

\* Behind an E0 more may come.
LEMMA E0GoesOn ==
    ASSUME NEW t \in Seq(Byte), Len(t) = 1, t[1] = 224
    PROVE  Unfinished(t)
<1>1. PrintPress \in Special /\ PrintPress \in Seq(Byte)
    BY SpecialBytes DEF Special
<1>2. Len(PrintPress) = 4 /\ PrintPress[1] = 224
    BY DEF PrintPress
<1>3. Len(t) < Len(PrintPress)
    BY <1>2
<1>4. ASSUME NEW i \in 1..Len(t) PROVE t[i] = PrintPress[i]
    BY <1>2
<1>5. \E c \in Special : Len(t) < Len(c) /\ \A i \in 1..Len(t) : t[i] = c[i]
    BY <1>1, <1>3, <1>4
<1> QED  BY <1>5, UnfinishedIs

\* A whole turn is none that goes on.
LEMMA SpecialWhole ==
    ASSUME NEW t \in Special
    PROVE  ~Unfinished(t)
<1>1. /\ PausePress \in Seq(Byte) /\ PrintPress \in Seq(Byte) /\ PrintRelease \in Seq(Byte)
      /\ Len(PausePress) = 6 /\ Len(PrintPress) = 4 /\ Len(PrintRelease) = 4
    BY SpecialBytes DEF PausePress, PrintPress, PrintRelease
<1>2. PausePress[1] = 225 /\ PrintPress[1] = 224 /\ PrintRelease[1] = 224
    BY DEF PausePress, PrintPress, PrintRelease
<1>3. ASSUME NEW c \in Special, Len(t) < Len(c) PROVE 1 \in 1..Len(t) /\ t[1] # c[1]
    <2>1. c = PausePress /\ (t = PrintPress \/ t = PrintRelease)
        BY <1>1, <1>3 DEF Special
    <2>2. 1 \in 1..Len(t) /\ t[1] = 224 /\ c[1] = 225
        BY <1>1, <1>2, <2>1
    <2> QED  BY <2>2
<1>4. ~\E c \in Special : Len(t) < Len(c) /\ \A i \in 1..Len(t) : t[i] = c[i]
    BY <1>3
<1>5. t \in Seq(Byte)
    BY <1>1 DEF Special
<1> QED  BY <1>4, <1>5, UnfinishedIs

LEMMA WholeIs ==
    ASSUME NEW k \in Keys, NEW t \in {Scan[k], Release(k)} \cup Special
    PROVE  /\ t \in Seq(Byte) /\ t # <<>> /\ ~Unfinished(t)
           /\ t \notin Special => ~IsPrint(t) /\ t # PausePress
           /\ \A n \in 1..(Len(t) - 1) : Unfinished(SubSeq(t, 1, n))
<1>1. /\ Len(PausePress) = 6 /\ PausePress[1] = 225
      /\ Len(PrintPress) = 4 /\ PrintPress[1] = 224 /\ PrintPress[2] = 42
      /\ Len(PrintRelease) = 4 /\ PrintRelease[1] = 224 /\ PrintRelease[2] = 183
    BY DEF PausePress, PrintPress, PrintRelease
<1>2. t \in Seq(Byte)
    BY ScanBytes, SpecialBytes DEF Special
<1>3. CASE t \in Special
    <2>1. t # <<>>
        <3>1. Len(t) \in {4, 6}
            BY <1>1, <1>3 DEF Special
        <3> QED  BY <3>1
    <2>2. ASSUME NEW n \in 1..(Len(t) - 1) PROVE Unfinished(SubSeq(t, 1, n))
        BY <1>2, <1>3 DEF Unfinished, StartOf, Special
    <2> QED  BY <1>2, <1>3, <2>1, <2>2, SpecialWhole
<1>4. CASE t = Scan[k] \/ t = Release(k)
    <2>1. \/ Len(t) = 1 /\ t[1] \notin {224, 225}
          \/ Len(t) = 2 /\ t[1] = 224 /\ t[2] \notin {42, 183}
        <3>1. ASSUME NEW c \in {30, 42, 58, 69, 72, 158, 170, 186, 197, 200}, t = <<c>>
              PROVE  Len(t) = 1 /\ t[1] \notin {224, 225}
            BY <3>1
        <3>2. ASSUME NEW c \in {72, 200}, t = <<224, c>>
              PROVE  Len(t) = 2 /\ t[1] = 224 /\ t[2] \notin {42, 183}
            BY <3>2
        <3>3. \/ \E c \in {30, 42, 58, 69, 72, 158, 170, 186, 197, 200} : t = <<c>>
              \/ \E c \in {72, 200} : t = <<224, c>>
            BY <1>4, Codes
        <3> QED  BY <3>1, <3>2, <3>3
    <2>2. t # <<>> /\ t \notin Special
        BY <1>1, <2>1 DEF Special
    <2>3. \A c \in Special : Len(t) < Len(c) => \E i \in 1..Len(t) : t[i] # c[i]
        BY <1>1, <2>1 DEF Special
    <2>4. ASSUME NEW n \in 1..(Len(t) - 1) PROVE Unfinished(SubSeq(t, 1, n))
        <3>1. CASE Len(t) = 1
            BY <3>1
        <3>2. CASE Len(t) = 2 /\ t[1] = 224
            <4>1. n = 1
                BY <3>2
            <4>2. SubSeq(t, 1, 1) \in Seq(Byte) /\ Len(SubSeq(t, 1, 1)) = 1
                  /\ SubSeq(t, 1, 1)[1] = 224
                BY <1>2, <3>2
            <4> QED  BY <4>1, <4>2, E0GoesOn
        <3> QED  BY <2>1, <3>1, <3>2
    <2> QED  BY <1>2, <2>2, <2>3, <2>4, UnfinishedIs DEF IsPrint, Special
<1> QED  BY <1>3, <1>4

-----------------------------------------------------------------------------
(* keyboard_read decodes what was pressed *)

\* The code of a key.
CodeOf(k) == CASE k = "a" -> 30 [] k = "shift" -> 42 [] k = "caps" -> 58
               [] k = "num" -> 69 [] OTHER -> 72

LEMMA TurnIs ==
    ASSUME NEW k \in Keys
    PROVE  /\ k \in {"a", "shift", "caps", "num", "pad", "up"}
           /\ ScanCode(Scan[k]) = CodeOf(k) /\ ScanCode(Release(k)) = CodeOf(k) + 128
           /\ WithE0(Scan[k]) <=> k = "up"
           /\ WithE0(Release(k)) <=> k = "up"
<1>1. ASSUME NEW t, NEW c \in 0..255, t = <<c>>, c # 225
      PROVE  ScanCode(t) = c /\ ~WithE0(t)
    <2>1. Len(t) = 1 /\ t[1] = c
        BY <1>1
    <2> QED  BY <1>1, <2>1 DEF ScanCode, WithE0
<1>2. ASSUME NEW t, NEW c \in 0..255, t = <<224, c>>
      PROVE  ScanCode(t) = c /\ WithE0(t)
    <2>1. Len(t) = 2 /\ t[1] = 224 /\ t[2] = c
        BY <1>2
    <2> QED  BY <2>1 DEF ScanCode, WithE0
<1>3. ASSUME NEW c \in 0..96, k # "up", Scan[k] = <<c>>, Release(k) = <<c + 128>>, CodeOf(k) = c
      PROVE  /\ ScanCode(Scan[k]) = CodeOf(k) /\ ScanCode(Release(k)) = CodeOf(k) + 128
             /\ WithE0(Scan[k]) <=> k = "up"
             /\ WithE0(Release(k)) <=> k = "up"
    BY <1>1, <1>3
<1>4. CASE k = "a" /\ Scan[k] = <<30>> /\ Release(k) = <<158>>
    <2>1. CodeOf(k) = 30 /\ k # "up" /\ 158 = 30 + 128
        BY <1>4 DEF CodeOf
    <2> QED  BY <1>3, <1>4, <2>1
<1>5. CASE k = "shift" /\ Scan[k] = <<42>> /\ Release(k) = <<170>>
    <2>1. CodeOf(k) = 42 /\ k # "up" /\ 170 = 42 + 128
        BY <1>5 DEF CodeOf
    <2> QED  BY <1>3, <1>5, <2>1
<1>6. CASE k = "caps" /\ Scan[k] = <<58>> /\ Release(k) = <<186>>
    <2>1. CodeOf(k) = 58 /\ k # "up" /\ 186 = 58 + 128
        BY <1>6 DEF CodeOf
    <2> QED  BY <1>3, <1>6, <2>1
<1>7. CASE k = "num" /\ Scan[k] = <<69>> /\ Release(k) = <<197>>
    <2>1. CodeOf(k) = 69 /\ k # "up" /\ 197 = 69 + 128
        BY <1>7 DEF CodeOf
    <2> QED  BY <1>3, <1>7, <2>1
<1>8. CASE k = "pad" /\ Scan[k] = <<72>> /\ Release(k) = <<200>>
    <2>1. CodeOf(k) = 72 /\ k # "up" /\ 200 = 72 + 128
        BY <1>8 DEF CodeOf
    <2> QED  BY <1>3, <1>8, <2>1
<1>9. CASE k = "up" /\ Scan[k] = <<224, 72>> /\ Release(k) = <<224, 200>>
    <2>1. CodeOf(k) = 72 /\ 200 = 72 + 128
        BY <1>9 DEF CodeOf
    <2> QED  BY <1>2, <1>9, <2>1
<1> QED  BY <1>4, <1>5, <1>6, <1>7, <1>8, <1>9, Codes

LEMMA LookupIs ==
    ASSUME NEW k \in Keys, NEW t \in {Scan[k], Release(k)}
    PROVE  /\ k = "a" => Lookup(t) = IF Column(TRUE) THEN "A" ELSE "a"
           /\ k = "shift" => Lookup(t) = "SHIFT_L"
           /\ k = "caps" => Lookup(t) = "CAPS_LOCK"
           /\ k = "num" => Lookup(t) = "NUM_LOCK"
           /\ k = "pad" => Lookup(t) = IF Column(FALSE) THEN "8" ELSE "PAD_UP"
           /\ k = "up" => Lookup(t) = "UP"
<1>1. CodeOf(k) \in {30, 42, 58, 69, 72}
    BY DEF CodeOf
<1>2. ScanCode(t) % 128 = CodeOf(k) /\ (WithE0(t) <=> k = "up")
    <2>1. ScanCode(t) = CodeOf(k) \/ ScanCode(t) = CodeOf(k) + 128
        BY TurnIs
    <2> QED  BY <1>1, <2>1, TurnIs
<1>3. k = "a" => Lookup(t) = (IF Column(TRUE) THEN "A" ELSE "a")
    <2>1. k = "a" => CodeOf(k) = 30
        BY DEF CodeOf
    <2> QED  BY <1>2, <2>1 DEF Lookup, Column
<1>4. k = "shift" => Lookup(t) = "SHIFT_L"
    <2>1. k = "shift" => CodeOf(k) = 42
        BY DEF CodeOf
    <2> QED  BY <1>2, <2>1 DEF Lookup, Column
<1>5. k = "caps" => Lookup(t) = "CAPS_LOCK"
    <2>1. k = "caps" => CodeOf(k) = 58
        BY DEF CodeOf
    <2> QED  BY <1>2, <2>1 DEF Lookup, Column
<1>6. k = "num" => Lookup(t) = "NUM_LOCK"
    <2>1. k = "num" => CodeOf(k) = 69
        BY DEF CodeOf
    <2> QED  BY <1>2, <2>1 DEF Lookup, Column
<1>7. k = "pad" => Lookup(t) = (IF Column(FALSE) THEN "8" ELSE "PAD_UP")
    <2>1. k = "pad" => CodeOf(k) = 72
        BY DEF CodeOf
    <2> QED  BY <1>2, <2>1 DEF Lookup, Column
<1>8. k = "up" => Lookup(t) = "UP"
    <2>1. k = "up" => CodeOf(k) = 72
        BY DEF CodeOf
    <2> QED  BY <1>2, <2>1 DEF Lookup, Column
<1> QED  BY <1>3, <1>4, <1>5, <1>6, <1>7, <1>8

LEMMA PressDecoded ==
    ASSUME NEW k \in Keys, Now \in Reading, DecodeCode(Scan[k]), taken' = <<>>
    PROVE  Now' = Pressed(Now, k)
<1>1. shift_l \in BOOLEAN /\ caps_lock \in BOOLEAN /\ num_lock \in BOOLEAN
    BY DEF Now, Reading
<1>2. /\ k \in {"a", "shift", "caps", "num", "pad", "up"}
      /\ ScanCode(Scan[k]) < 128
    BY TurnIs DEF CodeOf
<1> DEFINE l == Lookup(Scan[k])
<1>3. /\ shift_l' = IF l = "SHIFT_L" THEN TRUE ELSE shift_l
      /\ caps_lock' = (caps_lock # (l = "CAPS_LOCK"))
      /\ num_lock' = (num_lock # (l = "NUM_LOCK"))
      /\ given' = given \o Process(l)
    BY <1>2 DEF DecodeCode
<1>4. /\ k = "a" => l = IF Column(TRUE) THEN "A" ELSE "a"
      /\ k = "shift" => l = "SHIFT_L"
      /\ k = "caps" => l = "CAPS_LOCK"
      /\ k = "num" => l = "NUM_LOCK"
      /\ k = "up" => l = "UP"
      /\ k = "pad" => l = IF Column(FALSE) THEN "8" ELSE "PAD_UP"
    BY LookupIs
<1> HIDE DEF l
<1>5. /\ l = "SHIFT_L" <=> k = "shift"
      /\ l = "CAPS_LOCK" <=> k = "caps"
      /\ l = "NUM_LOCK" <=> k = "num"
    <2>1. k = "a" => l \in {"A", "a"}
        BY <1>4
    <2>2. k = "pad" => l \in {"8", "PAD_UP"}
        BY <1>4
    <2> QED  BY <1>2, <1>4, <2>1, <2>2
<1>6. /\ shift_l' = (shift_l \/ k = "shift")
      /\ caps_lock' = (caps_lock # (k = "caps"))
      /\ num_lock' = (num_lock # (k = "num"))
    BY <1>1, <1>3, <1>5
<1>7. Process(l) = Means(Now, k)
    <2>1. CASE k = "a"
        <3>1. l = IF shift_l # caps_lock THEN "A" ELSE "a"
            BY <1>1, <1>4, <2>1 DEF Column
        <3>2. Process(l) = <<l>>
            BY <3>1 DEF Process
        <3>3. Means(Now, k) = <<IF shift_l # caps_lock THEN "A" ELSE "a">>
            BY <2>1 DEF Means, Now
        <3> QED  BY <3>1, <3>2, <3>3
    <2>2. CASE k = "pad"
        <3>1. shift_l' = shift_l /\ num_lock' = num_lock
            BY <1>1, <1>6, <2>2
        <3>2. l = IF shift_l THEN "8" ELSE "PAD_UP"
            BY <1>1, <1>4, <2>2 DEF Column
        <3>3. Process(l) = <<IF shift_l \/ num_lock THEN "8" ELSE "UP">>
            BY <3>1, <3>2 DEF Process
        <3>4. Means(Now, k) = <<IF shift_l \/ num_lock THEN "8" ELSE "UP">>
            BY <2>2 DEF Means, Now
        <3> QED  BY <3>3, <3>4
    <2>3. CASE k = "up"
        <3>1. shift_l' = shift_l
            BY <1>1, <1>6, <2>3
        <3> QED  BY <1>1, <1>4, <2>3, <3>1 DEF Process, Means, Now
    <2>4. CASE k \in {"shift", "caps", "num"}
        BY <1>4, <2>4 DEF Process, Means
    <2> QED  BY <1>2, <2>1, <2>2, <2>3, <2>4
<1> QED  BY <1>3, <1>6, <1>7 DEF Now, Pressed

LEMMA ReleaseDecoded ==
    ASSUME NEW k \in Keys, Now \in Reading, DecodeCode(Release(k)), taken' = <<>>
    PROVE  Now' = Released(Now, k)
<1>1. shift_l \in BOOLEAN /\ caps_lock \in BOOLEAN /\ num_lock \in BOOLEAN
    BY DEF Now, Reading
<1>2. ~(ScanCode(Release(k)) < 128)
    BY TurnIs DEF CodeOf
<1>3. Lookup(Release(k)) = "SHIFT_L" <=> k = "shift"
    BY TurnIs, LookupIs
<1>4. /\ shift_l' = (shift_l /\ k # "shift") /\ caps_lock' = caps_lock
      /\ num_lock' = num_lock /\ given' = given
    BY <1>1, <1>2, <1>3 DEF DecodeCode
<1> QED  BY <1>4 DEF Now, Released

LEMMA KeysAreNotSpecial ==
    ASSUME NEW k \in Keys
    PROVE  Scan[k] \notin Special /\ Release(k) \notin Special
<1>1. /\ \E i \in 1..2 : Len(Scan[k]) = i
      /\ \E i \in 1..2 : Len(Release(k)) = i
    BY Codes
<1>2. Len(PausePress) = 6 /\ Len(PrintPress) = 4 /\ Len(PrintRelease) = 4
    BY DEF PausePress, PrintPress, PrintRelease
<1>3. \A s \in Special : Len(s) \in {4, 6}
    BY <1>2 DEF Special
<1>4. \A s \in {Scan[k], Release(k)} : Len(s) \notin {4, 6}
    BY <1>1
<1> QED  BY <1>3, <1>4

\* A turn that ends: something was swallowed, or the track is followed.
LEMMA TurnDecoded ==
    ASSUME Now \in Reading, NEW t \in Seq(Byte), NEW r, Completes(Now, t, r),
           Decode(t), taken' = <<>>
    PROVE  lost' \/ Now' = r
<1>1. CASE t \in Special /\ r = Paused(Now)
    <2>1. DecodeSpecial(t)
        BY <1>1 DEF Decode, IsPrint, Special
    <2> QED  BY <1>1, <2>1 DEF DecodeSpecial, Now, Paused
<1>2. ASSUME NEW k \in Keys, t \in {Scan[k], Release(k)}, t \notin Special
      PROVE  lost' \/ DecodeCode(t)
    <2>1. ~IsPrint(t) /\ t # PausePress
        BY <1>2, WholeIs
    <2> QED  BY <2>1 DEF Decode, DecodeSpecial
<1>3. ASSUME NEW k \in Keys, t = Scan[k], r = Pressed(Now, k), t \notin Special
      PROVE  lost' \/ Now' = r
    BY <1>2, <1>3, PressDecoded
<1>4. ASSUME NEW k \in Keys, t = Release(k), r = Released(Now, k), t \notin Special
      PROVE  lost' \/ Now' = r
    BY <1>2, <1>4, ReleaseDecoded
<1> QED  BY <1>1, <1>3, <1>4, KeysAreNotSpecial DEF Completes

-----------------------------------------------------------------------------
(* The track through every step *)

LEMMA TrackFacts ==
    ASSUME NEW f, Track(f), RingInv
    PROVE  /\ Ahead \in Nat /\ Len(pending) \in Nat /\ Len(wire) \in Nat
           /\ Now \in Reading /\ Meant \in Reading
<1>1. Len(pending) \in Nat /\ Len(wire) \in Nat
    BY DEF RingInv
<1>2. Ahead \in Nat
    BY <1>1 DEF Ahead
<1> QED  BY <1>1, <1>2 DEF Track

\* Nothing of it changes.
LEMMA TrackStays ==
    ASSUME NEW f, Track(f), UNCHANGED <<pending, wire, taken, shift_l, caps_lock, num_lock,
                                        given, down, caps_on, num_on, typed>>
    PROVE  Track(f)'
BY DEF Track, Ahead, Left, Now, Meant, Shifted, Follows

\* The interrupt handler moves a byte from the wire into the ring.
LEMMA TrackPut ==
    ASSUME NEW f, Track(f), RingInv, wire # <<>>, wire' = Tail(wire), Put(Head(wire)),
           UNCHANGED <<ttyVars, userVars>>
    PROVE  Track(f)'
<1>1. pending \in Seq(Byte) /\ wire \in Seq(Byte) /\ Head(wire) \in Byte
    BY DEF RingInv
<1>2. pending' = Append(pending, Head(wire))
    BY DEF Put
<1>3. Len(pending') = Len(pending) + 1 /\ Len(wire') = Len(wire) - 1
      /\ Len(pending) \in Nat /\ Len(wire) \in Nat \ {0}
    BY <1>1, <1>2
<1>4. Ahead' = Ahead
    BY <1>3 DEF Ahead
<1>5. ASSUME NEW i \in 1..Ahead PROVE Left(i)' = Left(i)
    <2>1. CASE i <= Len(pending)
        BY <1>1, <1>2, <1>3, <2>1 DEF Left
    <2>2. CASE i = Len(pending) + 1
        BY <1>1, <1>2, <1>3, <2>2 DEF Left
    <2>3. CASE i > Len(pending) + 1
        <3>1. i - Len(pending) - 1 \in 1..(Len(wire) - 1)
            BY <1>3, <2>3 DEF Ahead
        <3>2. Tail(wire)[i - Len(pending) - 1] = wire[i - Len(pending)]
            BY <1>1, <1>3, <3>1
        <3>3. Left(i)' = wire'[i - Len(pending')]
            <4>1. ~(i <= Len(pending'))
                BY <1>3, <2>3
            <4> QED  BY <4>1 DEF Left
        <3>4. Left(i) = wire[i - Len(pending)]
            BY <1>3, <2>3 DEF Left
        <3>5. i - Len(pending') = i - Len(pending) - 1
            BY <1>3
        <3> QED  BY <3>2, <3>3, <3>4, <3>5
    <2> QED  BY <1>3, <2>1, <2>2, <2>3
<1>6. Now' = Now /\ Meant' = Meant /\ typed' = typed
    BY DEF Now, Meant, Shifted, ttyVars, userVars
<1> QED  BY <1>4, <1>5, <1>6 DEF Track, Follows

\* keyboard_read takes the first byte that is ahead.
LEMMA TrackGet ==
    ASSUME NEW f, Track(f), RingInv, keyboard_read, ~lost'
    PROVE  \E g : Track(g)'
<1>1. /\ Get /\ count > 0 /\ wire' = wire
      /\ Meant' = Meant /\ typed' = typed
    BY DEF keyboard_read, Get, userVars, Meant, Shifted
<1>2. /\ pending \in Seq(Byte) /\ wire \in Seq(Byte) /\ Len(pending) \in Nat \ {0}
      /\ ring[p_tail] = pending[1] /\ pending[1] \in Byte
    <2>1. pending \in Seq(Byte) /\ wire \in Seq(Byte) /\ Len(pending) \in Nat \ {0} /\ p_tail \in Index
        BY <1>1 DEF RingInv, RingExact
    <2>2. RingSlot(p_tail + 1 - 1) = p_tail
        BY <2>1, KeyboardAssumption DEF RingSlot, Index
    <2>3. ring[RingSlot(p_tail + 1 - 1)] = pending[1]
        BY <1>1, <2>1 DEF RingInv, RingExact
    <2> QED  BY <2>1, <2>2, <2>3
<1>3. /\ pending' = Tail(pending) /\ Len(pending') = Len(pending) - 1
      /\ \A i \in 1..Len(pending') : pending'[i] = pending[i + 1]
    BY <1>1, <1>2 DEF Get
<1>4. Ahead \in Nat \ {0} /\ Ahead' = Ahead - 1
    BY <1>1, <1>2, <1>3 DEF Ahead
<1>5. ASSUME NEW i \in 1..Ahead' PROVE Left(i)' = Left(i + 1)
    <2>1. CASE i <= Len(pending')
        <3>1. Left(i)' = pending'[i] /\ Left(i + 1) = pending[i + 1]
            BY <1>2, <1>3, <2>1 DEF Left
        <3> QED  BY <1>3, <2>1, <3>1
    <2>2. CASE ~(i <= Len(pending'))
        <3>1. Left(i)' = wire'[i - Len(pending')] /\ Left(i + 1) = wire[i + 1 - Len(pending)]
            BY <1>2, <1>3, <2>2 DEF Left
        <3>2. i - Len(pending') = i + 1 - Len(pending)
            BY <1>2, <1>3
        <3> QED  BY <1>1, <3>1, <3>2
    <2> QED  BY <2>1, <2>2
<1> DEFINE t == Append(taken, pending[1])
<1>6. t \in Seq(Byte) /\ Now \in Reading
    <2>1. Now \in Reading
        BY <1>4 DEF Track
    <2>2. taken \in Seq(Byte)
        BY <2>1 DEF Now, Reading
    <2> QED  BY <1>2, <2>1, <2>2, AppendProperties
<1>7. /\ Unfinished(t) => taken' = t /\ UNCHANGED <<shift_l, caps_lock, num_lock, given>>
      /\ ~Unfinished(t) => taken' = <<>> /\ Decode(t)
    BY <1>2 DEF keyboard_read
<1>8. \/ Unfinished(t) /\ f[1] = [Now EXCEPT !.taken = t]
      \/ Completes(Now, t, f[1])
    <2>1. Follows(Now, Left(1), f[1])
        <3>1. 1 \in 1..Ahead /\ f[1 - 1] = Now
            BY <1>4 DEF Track
        <3> QED  BY <3>1 DEF Track
    <2>2. Left(1) = pending[1] /\ Now.taken = taken
        BY <1>2 DEF Left, Now
    <2> QED  BY <2>1, <2>2 DEF Follows
<1>9. Completes(Now, t, f[1]) => ~Unfinished(t)
    BY WholeIs, SpecialWhole DEF Completes
<1> HIDE DEF t
<1>10. Now' = f[1]
    <2>1. CASE Unfinished(t)
        <3>1. f[1] = [Now EXCEPT !.taken = t]
            BY <1>8, <1>9, <2>1
        <3> QED  BY <1>7, <2>1, <3>1 DEF Now
    <2>2. CASE ~Unfinished(t)
        BY <1>6, <1>7, <1>8, <2>2, TurnDecoded
    <2> QED  BY <2>1, <2>2
<1>11. PICK g \in [0..(Ahead - 1) -> Reading] : \A i \in 0..(Ahead - 1) : g[i] = f[i + 1]
    <2> DEFINE h == [i \in 0..(Ahead - 1) |-> f[i + 1]]
    <2>1. \A i \in 0..(Ahead - 1) : i + 1 \in 0..Ahead
        BY <1>4
    <2>2. h \in [0..(Ahead - 1) -> Reading]
        BY <2>1 DEF Track
    <2> QED  BY <2>2
<1>12. g \in [0..Ahead' -> Reading] /\ g[0] = Now' /\ g[Ahead'] = Meant'
    <2>1. 0 \in 0..(Ahead - 1) /\ Ahead - 1 \in 0..(Ahead - 1) /\ (Ahead - 1) + 1 = Ahead
        BY <1>4
    <2>2. g[0] = f[1] /\ g[Ahead - 1] = f[Ahead]
        BY <1>11, <2>1
    <2> QED  BY <1>1, <1>4, <1>10, <1>11, <2>2 DEF Track
<1>13. ASSUME NEW i \in 1..Ahead' PROVE Follows(g[i - 1], Left(i)', g[i])
    <2>1. i - 1 \in 0..Ahead' /\ i \in 0..Ahead' /\ i + 1 \in 1..Ahead /\ (i + 1) - 1 = (i - 1) + 1
        BY <1>4
    <2>2. Follows(f[(i + 1) - 1], Left(i + 1), f[i + 1])
        BY <2>1 DEF Track
    <2>3. g[i - 1] = f[(i + 1) - 1] /\ g[i] = f[i + 1]
        BY <1>4, <1>11, <2>1
    <2> QED  BY <1>5, <2>2, <2>3
<1>14. ASSUME NEW i \in 0..Ahead' PROVE Begins(g[i].given, typed')
    <2>1. i + 1 \in 0..Ahead /\ g[i] = f[i + 1]
        BY <1>4, <1>11
    <2> QED  BY <1>1, <2>1 DEF Track
<1>15. Track(g)'
    BY <1>12, <1>13, <1>14 DEF Track, Follows
<1> QED  BY <1>15

LEMMA BeginsMore ==
    ASSUME NEW s \in Seq(Out), NEW t \in Seq(Out), NEW m \in Seq(Out)
    PROVE  /\ Begins(t, t) /\ t \o m \in Seq(Out)
           /\ Begins(s, t) => Begins(s, t \o m)
<1>1. Len(t) \in Nat /\ SubSeq(t, 1, Len(t)) = t
    BY SubSeqFull, LenProperties
<1>2. t \o m \in Seq(Out) /\ Len(t \o m) = Len(t) + Len(m)
    BY ConcatProperties
<1>3. ASSUME Begins(s, t) PROVE Begins(s, t \o m)
    <2>1. Len(s) \in Nat /\ Len(m) \in Nat /\ Len(s) <= Len(t)
        BY <1>3, LenProperties DEF Begins
    <2>2. SubSeq(t \o m, 1, Len(s)) \in Seq(Out) /\ Len(SubSeq(t \o m, 1, Len(s))) = Len(s)
        BY <1>1, <1>2, <2>1
    <2>3. ASSUME NEW i \in 1..Len(s) PROVE s[i] = SubSeq(t \o m, 1, Len(s))[i]
        <3>1. s[i] = SubSeq(t, 1, Len(s))[i]
            BY <1>3 DEF Begins
        <3>2. SubSeq(t, 1, Len(s))[i] = t[i]
            BY <1>1, <2>1
        <3>3. SubSeq(t \o m, 1, Len(s))[i] = (t \o m)[i]
            BY <1>1, <1>2, <2>1
        <3>4. (t \o m)[i] = t[i]
            BY <1>1, <2>1
        <3> QED  BY <3>1, <3>2, <3>3, <3>4
    <2>4. s = SubSeq(t \o m, 1, Len(s))
        BY <2>2, <2>3, SeqEqual
    <2> QED  BY <1>1, <1>2, <2>1, <2>4 DEF Begins
<1> QED  BY <1>1, <1>2, <1>3 DEF Begins

\* The codes of an event go behind all that is ahead; none were on the wire.
LEMMA TrackEvent ==
    ASSUME NEW f, Track(f), RingInv, NEW codes \in Seq(Byte), codes # <<>>, Event(codes),
           \A n \in 1..(Len(codes) - 1) : Unfinished(SubSeq(codes, 1, n)),
           Meant' \in Reading, Completes(Meant, codes, Meant'),
           NEW m \in Seq(Out), typed' = typed \o m
    PROVE  \E g : Track(g)'
<1>1. /\ wire = <<>> /\ wire' = codes /\ pending' = pending /\ pending \in Seq(Byte)
      /\ Now' = Now
    BY DEF Event, RingInv, ringVars, ttyVars, Now
<1>2. /\ Len(pending) \in Nat /\ Ahead = Len(pending)
      /\ Len(codes) \in Nat \ {0} /\ Ahead' = Ahead + Len(codes)
    BY <1>1 DEF Ahead
<1>3. Meant \in Reading /\ Now \in Reading /\ typed \in Seq(Out)
    <2>1. Meant \in Reading /\ Now \in Reading
        BY TrackFacts
    <2> QED  BY <2>1 DEF Meant, Reading
<1>4. PICK last \in Reading : last = Meant'
    OBVIOUS
<1>5. PICK all \in Nat : all = Ahead + Len(codes)
    BY <1>2
<1>6. PICK g \in [0..all -> Reading] :
          \A i \in 0..all : g[i] = IF i <= Ahead THEN f[i]
                                   ELSE IF i = all THEN last
                                   ELSE [Meant EXCEPT !.taken = SubSeq(codes, 1, i - Ahead)]
    <2> DEFINE h == [i \in 0..all |-> IF i <= Ahead THEN f[i]
                                       ELSE IF i = all THEN last
                                       ELSE [Meant EXCEPT !.taken = SubSeq(codes, 1, i - Ahead)]]
    <2>1. ASSUME NEW i \in 0..all PROVE h[i] \in Reading
        <3>1. CASE i <= Ahead
            BY <1>2, <2>1, <3>1 DEF Track
        <3>2. CASE i > Ahead /\ i # all
            <4>1. i - Ahead \in 1..(Len(codes) - 1)
                BY <1>2, <1>5, <3>2
            <4>2. SubSeq(codes, 1, i - Ahead) \in Seq(Byte)
                BY <1>2, <4>1
            <4>3. [Meant EXCEPT !.taken = SubSeq(codes, 1, i - Ahead)] \in Reading
                BY <1>3, <4>2 DEF Reading
            <4> QED  BY <1>2, <3>2, <4>3
        <3>3. CASE i > Ahead /\ i = all
            BY <1>2, <3>3
        <3> QED  BY <1>2, <3>1, <3>2, <3>3
    <2>2. h \in [0..all -> Reading]
        BY <2>1
    <2> QED  BY <2>2
<1>7. g[0] = Now' /\ g[all] = Meant'
    <2>1. 0 \in 0..all /\ all \in 0..all /\ 0 <= Ahead /\ ~(all <= Ahead)
        BY <1>2, <1>5
    <2>2. g[0] = f[0] /\ g[all] = last
        BY <1>6, <2>1
    <2> QED  BY <1>1, <1>4, <2>2 DEF Track
<1>8. ASSUME NEW i \in 1..all PROVE Follows(g[i - 1], Left(i)', g[i])
    <2>1. CASE i <= Ahead
        <3>1. g[i - 1] = f[i - 1] /\ g[i] = f[i] /\ i \in 1..Ahead
            BY <1>2, <1>5, <1>6, <2>1
        <3>2. Left(i)' = Left(i)
            BY <1>1, <1>2, <2>1 DEF Left
        <3> QED  BY <3>1, <3>2 DEF Track
    <2>2. CASE i > Ahead
        <3>1. PICK n \in 1..Len(codes) : n = i - Ahead /\ (n = Len(codes) <=> i = all)
            <4>1. i - Ahead \in 1..Len(codes) /\ (i - Ahead = Len(codes) <=> i = all)
                BY <1>2, <1>5, <2>2
            <4> QED  BY <4>1
        <3>2. Left(i)' = codes[n]
            BY <1>1, <1>2, <2>2, <3>1 DEF Left
        <3>3. g[i - 1] = [Meant EXCEPT !.taken = SubSeq(codes, 1, n - 1)]
            <4>1. CASE n = 1
                <5>1. g[i - 1] = f[Ahead]
                    BY <1>2, <1>5, <1>6, <3>1, <4>1
                <5>2. SubSeq(codes, 1, n - 1) = <<>>
                    <6>1. n - 1 = 0 /\ SubSeq(codes, 1, 0) = <<>>
                        BY <4>1, SubSeqEmpty
                    <6> QED  BY <6>1
                <5>3. [Meant EXCEPT !.taken = <<>>] = Meant
                    BY DEF Meant
                <5>4. g[i - 1] = Meant
                    BY <5>1 DEF Track
                <5> QED  BY <5>2, <5>3, <5>4
            <4>2. CASE n > 1
                <5>1. i - 1 \in 0..all /\ ~(i - 1 <= Ahead) /\ i - 1 # all
                      /\ (i - 1) - Ahead = n - 1
                    BY <1>2, <1>5, <3>1, <4>2
                <5>2. g[i - 1] = [Meant EXCEPT !.taken = SubSeq(codes, 1, (i - 1) - Ahead)]
                    BY <1>6, <5>1
                <5> QED  BY <5>1, <5>2
            <4> QED  BY <4>1, <4>2
        <3>4. Append(SubSeq(codes, 1, n - 1), codes[n]) = SubSeq(codes, 1, n)
            <4>1. SubSeq(codes, 1, n - 1) \in Seq(Byte) /\ codes[n] \in Byte
                BY <1>2, <3>1
            <4>2. SubSeq(codes, 1, n) = SubSeq(codes, 1, n - 1) \o <<codes[n]>>
                <5>1. 1 \in 1..Len(codes)
                    BY <1>2
                <5> QED  BY <3>1, <5>1, SubSeqRecursiveSecond
            <4> QED  BY <4>1, <4>2, AppendIsConcat
        <3>5. g[i - 1].taken = SubSeq(codes, 1, n - 1)
            BY <1>3, <3>3 DEF Reading
        <3>6. CASE n = Len(codes)
            <4>1. SubSeq(codes, 1, n) = codes
                BY <3>6, SubSeqFull
            <4>2. g[i] = last
                BY <1>2, <1>5, <1>6, <2>2, <3>1, <3>6
            <4>3. Completes(g[i - 1], codes, last)
                <5>1. /\ Paused(g[i - 1]) = Paused(Meant)
                      /\ \A k \in Keys : Pressed(g[i - 1], k) = Pressed(Meant, k)
                      /\ \A k \in Keys : Released(g[i - 1], k) = Released(Meant, k)
                    BY <1>3, <3>3 DEF Paused, Pressed, Released, Means, Reading
                <5> QED  BY <1>4, <5>1 DEF Completes
            <4> QED  BY <3>2, <3>4, <3>5, <4>1, <4>2, <4>3 DEF Follows
        <3>7. CASE n < Len(codes)
            <4>1. n \in 1..(Len(codes) - 1)
                BY <1>2, <3>7
            <4>2. g[i] = [Meant EXCEPT !.taken = SubSeq(codes, 1, n)]
                <5>1. i \in 0..all /\ ~(i <= Ahead) /\ i # all /\ i - Ahead = n
                    BY <1>2, <1>5, <2>2, <3>1, <3>7
                <5>2. g[i] = [Meant EXCEPT !.taken = SubSeq(codes, 1, i - Ahead)]
                    BY <1>6, <5>1
                <5> QED  BY <5>1, <5>2
            <4>3. g[i] = [g[i - 1] EXCEPT !.taken = SubSeq(codes, 1, n)]
                BY <1>3, <3>3, <4>2 DEF Reading
            <4> QED  BY <3>2, <3>4, <3>5, <4>1, <4>3 DEF Follows
        <3> QED  BY <1>2, <3>1, <3>6, <3>7
    <2> QED  BY <1>2, <2>1, <2>2
<1>9. ASSUME NEW i \in 0..all PROVE Begins(g[i].given, typed')
    <2>1. CASE i <= Ahead
        <3>1. i \in 0..Ahead /\ g[i] = f[i] /\ f[i] \in Reading
            BY <1>2, <1>6, <2>1 DEF Track
        <3>2. f[i].given \in Seq(Out) /\ Begins(f[i].given, typed)
            BY <3>1 DEF Track, Reading
        <3> QED  BY <1>3, <3>1, <3>2, BeginsMore
    <2>2. CASE i > Ahead /\ i = all
        <3>1. g[i].given = typed'
            BY <1>2, <1>4, <1>6, <2>2 DEF Meant
        <3> QED  BY <1>3, <3>1, BeginsMore
    <2>3. CASE i > Ahead /\ i # all
        <3>1. g[i].given = typed
            <4>1. g[i] = [Meant EXCEPT !.taken = SubSeq(codes, 1, i - Ahead)]
                BY <1>2, <1>6, <1>9, <2>3
            <4> QED  BY <4>1 DEF Meant
        <3> QED  BY <1>3, <3>1, BeginsMore
    <2> QED  BY <1>2, <2>1, <2>2, <2>3
<1>10. Track(g)'
    <2>1. Ahead' = all
        BY <1>2, <1>5
    <2> QED  BY <1>6, <1>7, <1>8, <1>9, <2>1 DEF Track, Follows
<1> QED  BY <1>10

\* The meaning of a key is that of the keyboard's state.
LEMMA MeansOut ==
    ASSUME NEW k \in Keys
    PROVE  Meaning(k) = Means(Meant, k) /\ Meaning(k) \in Seq(Out)
<1>1. Meaning(k) = Means(Meant, k)
    BY DEF Meaning, Means, Meant
<1>2. \A o \in Out : <<o>> \in Seq(Out)
    OBVIOUS
<1>3. Meaning(k) = <<>> \/ \E o \in Out : Meaning(k) = <<o>>
    BY DEF Meaning, Out
<1>4. <<>> \in Seq(Out)
    BY EmptySeq
<1> QED  BY <1>1, <1>2, <1>3, <1>4

LEMMA TrackPress ==
    ASSUME NEW f, Track(f), RingInv, NEW k \in Keys, Press(k)
    PROVE  \E g : Track(g)'
<1>1. Meant \in Reading
    BY TrackFacts
<1>2. /\ Event(Scan[k]) /\ down' = down \cup {k} /\ caps_on' = (caps_on # (k = "caps"))
      /\ num_on' = (num_on # (k = "num")) /\ typed' = typed \o Meaning(k)
    BY DEF Press
<1>3. Meant' = Pressed(Meant, k)
    <2>1. Shifted' = (Shifted \/ k = "shift")
        BY <1>2 DEF Shifted
    <2> QED  BY <1>2, <2>1, MeansOut DEF Meant, Pressed
<1>4. Meant' \in Reading
    <2>1. typed \in Seq(Out) /\ Meaning(k) \in Seq(Out)
        BY <1>1, MeansOut DEF Meant, Reading
    <2>2. typed' \in Seq(Out)
        BY <1>2, <2>1, ConcatProperties
    <2>3. caps_on' \in BOOLEAN /\ num_on' \in BOOLEAN /\ Shifted' \in BOOLEAN
        BY <1>2 DEF Shifted
    <2> QED  BY <2>2, <2>3, EmptySeq DEF Meant, Reading
<1>5. /\ Scan[k] \in Seq(Byte) /\ Scan[k] # <<>>
      /\ \A n \in 1..(Len(Scan[k]) - 1) : Unfinished(SubSeq(Scan[k], 1, n))
    BY WholeIs
<1>6. Completes(Meant, Scan[k], Meant')
    BY <1>3 DEF Completes
<1> QED  BY <1>2, <1>4, <1>5, <1>6, MeansOut, TrackEvent

LEMMA TrackLetGo ==
    ASSUME NEW f, Track(f), RingInv, NEW k \in Keys, LetGo(k)
    PROVE  \E g : Track(g)'
<1>1. Meant \in Reading
    BY TrackFacts
<1>2. Event(Release(k)) /\ down' = down \ {k} /\ UNCHANGED <<caps_on, num_on, typed>>
    BY DEF LetGo, Release
<1>3. Meant' = Released(Meant, k)
    <2>1. Shifted' = (Shifted /\ k # "shift")
        BY <1>2 DEF Shifted
    <2> QED  BY <1>2, <2>1 DEF Meant, Released
<1>4. Meant' \in Reading /\ typed \in Seq(Out)
    BY <1>1, <1>2, EmptySeq DEF Meant, Reading, Shifted
<1>5. /\ Release(k) \in Seq(Byte) /\ Release(k) # <<>>
      /\ \A n \in 1..(Len(Release(k)) - 1) : Unfinished(SubSeq(Release(k), 1, n))
    BY WholeIs
<1>6. Completes(Meant, Release(k), Meant')
    BY <1>3 DEF Completes
<1>7. typed' = typed \o <<>> /\ <<>> \in Seq(Out)
    BY <1>2, <1>4, ConcatEmptySeq, EmptySeq
<1> QED  BY <1>2, <1>4, <1>5, <1>6, <1>7, TrackEvent

LEMMA TrackSpecial ==
    ASSUME NEW f, Track(f), RingInv, NEW codes \in Special, PressSpecial(codes)
    PROVE  \E g : Track(g)'
<1>1. Meant \in Reading
    BY TrackFacts
<1>2. Event(codes) /\ UNCHANGED <<down, caps_on, num_on, typed>>
    BY DEF PressSpecial
<1>3. Meant' = Meant /\ Paused(Meant) = Meant
    BY <1>2 DEF Meant, Paused, Shifted
<1>4. /\ codes \in Seq(Byte) /\ codes # <<>>
      /\ \A n \in 1..(Len(codes) - 1) : Unfinished(SubSeq(codes, 1, n))
    <2>1. codes \in Seq(Byte)
        BY SpecialBytes DEF Special
    <2>2. codes # <<>>
        BY DEF Special, PausePress, PrintPress, PrintRelease
    <2>3. ASSUME NEW n \in 1..(Len(codes) - 1) PROVE Unfinished(SubSeq(codes, 1, n))
        <3>1. n \in 0..(Len(codes) - 1)
            BY <2>1
        <3> QED  BY <3>1 DEF Unfinished, StartOf, Special
    <2> QED  BY <2>1, <2>2, <2>3
<1>5. Completes(Meant, codes, Meant')
    BY <1>3 DEF Completes
<1>6. typed \in Seq(Out) /\ typed' = typed \o <<>> /\ <<>> \in Seq(Out)
    <2>1. typed \in Seq(Out)
        BY <1>1 DEF Meant, Reading
    <2> QED  BY <1>2, <2>1, ConcatEmptySeq, EmptySeq
<1> QED  BY <1>1, <1>2, <1>3, <1>4, <1>5, <1>6, TrackEvent

-----------------------------------------------------------------------------
(* The theorem *)

LEMMA KeysInitial == KeyInit => KeysInv
<1> SUFFICES ASSUME KeyInit PROVE KeysInv
    OBVIOUS
<1>1. pending = <<>> /\ wire = <<>> /\ typed = <<>>
    BY DEF KeyInit, RingInit
<1>2. Ahead = 0
    BY <1>1 DEF Ahead
<1>3. Now = Meant /\ Now \in Reading
    <2> DEFINE s == [taken |-> <<>>, shift |-> FALSE, caps |-> FALSE, num |-> TRUE, given |-> <<>>]
    <2>1. s \in Reading
        BY EmptySeq DEF Reading
    <2>2. Shifted = FALSE
        BY DEF KeyInit, Shifted
    <2>3. Now = s
        BY DEF KeyInit, Now
    <2>4. Meant = s
        BY <2>2 DEF KeyInit, Meant
    <2> QED  BY <2>1, <2>3, <2>4
<1>4. Begins(Now.given, typed)
    <2>1. Now.given = <<>> /\ typed = <<>> /\ <<>> \in Seq(Out)
        BY <1>1, EmptySeq DEF KeyInit, Now
    <2> QED  BY <2>1, BeginsMore
<1>5. PICK f \in [0..0 -> Reading] : f[0] = Now
    <2>1. [i \in 0..0 |-> Now] \in [0..0 -> Reading] /\ [i \in 0..0 |-> Now][0] = Now
        BY <1>3
    <2> QED  BY <2>1
<1>6. Track(f)
    BY <1>2, <1>3, <1>4, <1>5 DEF Track
<1> QED  BY <1>6, RingInitial DEF KeysInv

LEMMA KeysStep == KeysInv /\ [KeyNext]_keyVars => KeysInv'
<1> SUFFICES ASSUME KeysInv, [KeyNext]_keyVars PROVE KeysInv'
    OBVIOUS
<1>1. RingInv /\ RingInv'
    BY RingStep DEF KeysInv
<1>2. lost => lost'
    BY DEF KeyNext, Press, LetGo, PressSpecial, Event, keyboard_handler, keyboard_read, Decode,
           DecodeSpecial, DecodeCode, TaskTty, ReadDone, TtyReceive, TtyHardInt, TtyMessage,
           clock_handler, keyVars
<1>3. ASSUME ~lost, ~lost' PROVE \E g : Track(g)'
    <2>1. PICK f : Track(f)
        BY <1>3 DEF KeysInv
    <2>2. CASE \E k \in Keys : Press(k) \/ LetGo(k)
        BY <1>1, <2>1, <2>2, TrackPress, TrackLetGo
    <2>3. CASE \E codes \in {PausePress, PrintPress, PrintRelease} : PressSpecial(codes)
        BY <1>1, <2>1, <2>3, TrackSpecial DEF Special
    <2>4. CASE keyboard_handler
        BY <1>1, <1>3, <2>1, <2>4, TrackPut DEF keyboard_handler
    <2>5. CASE keyboard_read
        BY <1>1, <1>3, <2>1, <2>5, TrackGet
    <2>6. CASE \/ ReadDone \/ TtyReceive \/ TtyHardInt \/ TtyMessage \/ clock_handler
               \/ UNCHANGED keyVars
        <3>1. UNCHANGED <<pending, wire, taken, shift_l, caps_lock, num_lock, given, down,
                          caps_on, num_on, typed>>
            BY <2>6 DEF ReadDone, TtyReceive, TtyHardInt, TtyMessage, clock_handler, keyVars,
                        ringVars, ttyVars, userVars
        <3> QED  BY <2>1, <3>1, TrackStays
    <2> QED  BY <2>2, <2>3, <2>4, <2>5, <2>6 DEF KeyNext, TaskTty
<1> QED  BY <1>1, <1>2, <1>3 DEF KeysInv

(* TTY gets what was typed, in order and in the right case, unless a byte  *)
(* was dropped by the full ring or swallowed behind Pause or PrintScreen:  *)
(* for any number of slots of the ring and of keys.                        *)
THEOREM KeysAreExact == KeySpec => []KeysExact
<1>1. KeysInv => KeysExact
    <2> SUFFICES ASSUME KeysInv, ~lost PROVE KeysExact
        BY DEF KeysExact
    <2>1. PICK f : Track(f)
        BY DEF KeysInv
    <2>2. RingInv /\ Ahead \in Nat /\ Now.given = given
        BY <2>1, TrackFacts DEF KeysInv, Now
    <2>3. Begins(given, typed)
        <3>1. 0 \in 0..Ahead /\ f[0] = Now
            BY <2>1, <2>2 DEF Track
        <3> QED  BY <2>1, <2>2, <3>1 DEF Track
    <2>4. ASSUME wire = <<>>, count = 0, taken = <<>> PROVE Now = Meant
        <3>1. Ahead = 0
            BY <2>2, <2>4 DEF Ahead, RingInv, RingExact
        <3> QED  BY <2>1, <3>1 DEF Track
    <2> QED  BY <2>3, <2>4 DEF KeysExact, Begins, Now, Meant
<1>2. KeyInit => KeysInv
    BY KeysInitial
<1>3. KeysInv /\ [KeyNext]_keyVars => KeysInv'
    BY KeysStep
<1> QED  BY <1>1, <1>2, <1>3, PTL DEF KeySpec
=============================================================================
