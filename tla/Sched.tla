------------------------------- MODULE Sched -------------------------------
(***************************************************************************)
(* The scheduler: schedule() and block() of kernel/proc.c, clock_handler() *)
(* of kernel/clock.c, the tick a fork hands on (mm/forkexit.c) and the     *)
(* ticks that the disk log of FS takes away and gives back                 *)
(* (fs/disklog.c).                                                         *)
(*                                                                         *)
(* schedule() repeats a scan of the process table until it finds a process *)
(* with ticks left.  It is a step of its own here, so interrupts can fall  *)
(* into the loop, except when msg_receive called block() with interrupts   *)
(* disabled.                                                               *)
(***************************************************************************)
EXTENDS Naturals, Functions

CONSTANTS
    Proc,         \* the slots of proc_table, in the order of the table
    Task,         \* those of the tasks
    Idle,         \* the processes that never call the kernel: TestA, B, C
    Slot,         \* those that fork hands out
    FS, MM,
    Exempt,       \* the processes whose ticks dump_fd_graph leaves alone
    TASK_PRIO, USER_PRIO,
    Garbage       \* what the stack of FS may hold where nothing was stored

ASSUME SchedAssumption ==
    /\ Proc \subseteq Nat
    /\ Task \subseteq Proc /\ Idle \subseteq Proc /\ Slot \subseteq Proc
    /\ Task \cap Idle = {} /\ Slot \cap (Task \cup Idle) = {}
    /\ {FS, MM} \subseteq Task /\ FS \in Exempt /\ Exempt \subseteq Task
    /\ Idle # {}
    /\ \E first \in Task : \A p \in Proc : first <= p
    /\ Garbage \subseteq Nat
    /\ TASK_PRIO \in Nat \ {0} /\ USER_PRIO \in Nat \ {0}

VARIABLES
    ready,          \* the processes whose p_flags are 0
    free,           \* those whose p_flags are FREE_SLOT
    ticks,          \* what is left of each process's time
    priority,       \* what it is refilled to
    p_proc_ready,   \* the process that runs
    scheduling,     \* whether schedule() loops: "no", "open" or "masked"
    dumping,        \* whether FS is in dump_fd_graph, and its locals:
    tcks, prio,     \* what it has stored of the other processes,
    left,           \* whose turn in the restoring loop is yet to come
    tested          \* and whether the first of them has passed its tests

saved == <<dumping, tcks, prio, left, tested>>
vars  == <<ready, free, ticks, priority, p_proc_ready, scheduling, saved>>

Nothing == [p \in {} |-> 0]

\* p is the first of S in the order of the table.
First(p, S) == p \in S /\ \A q \in S : p <= q

Init ==
    /\ ready = Proc \ Slot
    /\ free = Slot
    /\ priority = [p \in Proc |-> IF p \in Task THEN TASK_PRIO ELSE USER_PRIO]
    /\ ticks = priority
    /\ First(p_proc_ready, Proc)
    /\ scheduling = "no"
    /\ dumping = FALSE /\ tcks = Nothing /\ prio = Nothing
    /\ left = {} /\ tested = FALSE

Running(p) == scheduling = "no" /\ p_proc_ready = p

-----------------------------------------------------------------------------
(* schedule *)

Spent == \A p \in ready : ticks[p] = 0

\* Seeded faults: only the first process is given new ticks; nobody is.
RefillFirst ==
    [p \in Proc |-> IF First(p, ready) THEN priority[p] ELSE ticks[p]]
RefillNobody == ticks

Refill == [p \in Proc |-> IF p \in ready THEN priority[p] ELSE ticks[p]]

\* The ticks a scan of the table finds in the end, if it finds any.
Supply == IF Spent THEN Refill ELSE ticks

Found == \E p \in ready : Supply[p] > 0

\* The first process of the table with the most ticks.
Choose ==
    /\ scheduling # "no"
    /\ \E p \in ready :
          /\ Supply[p] > 0
          /\ \A q \in ready :
                Supply[q] < Supply[p] \/ (Supply[q] = Supply[p] /\ p <= q)
          /\ p_proc_ready' = p
    /\ ticks' = Supply
    /\ scheduling' = "no"
    /\ UNCHANGED <<ready, free, priority, saved>>

\* Seeded fault: block() does not call schedule().
BlockOnly(masked) ==
    /\ \E p \in Proc \ Idle : Running(p) /\ ready' = ready \ {p}
    /\ UNCHANGED <<free, ticks, priority, p_proc_ready, scheduling, saved>>

\* The running process blocks in msg_receive (masked) or in msg_send.
Block(masked) ==
    /\ \E p \in Proc \ Idle : Running(p) /\ ready' = ready \ {p}
    /\ scheduling' = IF masked THEN "masked" ELSE "open"
    /\ UNCHANGED <<free, ticks, priority, p_proc_ready, saved>>

\* unblock(), by the running process or by an interrupt handler: nobody is
\* rescheduled.
Unblock(p) ==
    /\ scheduling # "masked"
    /\ p \notin ready \cup free \cup Idle
    /\ ready' = ready \cup {p}
    /\ UNCHANGED <<free, ticks, priority, p_proc_ready, scheduling, saved>>

-----------------------------------------------------------------------------
\* clock_handler; nested when it interrupts the kernel (k_reenter # 0).  Its
\* inform_int(TASK_TTY) is an Unblock.
Clock(nested) ==
    /\ scheduling # "masked"
    /\ LET remaining == IF ticks[p_proc_ready] = 0 THEN 0 ELSE ticks[p_proc_ready] - 1
       IN  /\ ticks' = [ticks EXCEPT ![p_proc_ready] = remaining]
           /\ scheduling' = IF scheduling = "no" /\ ~nested /\ remaining = 0
                            THEN "open" ELSE scheduling
    /\ UNCHANGED <<ready, free, priority, p_proc_ready, saved>>

-----------------------------------------------------------------------------
\* *p = proc_table[pid] in do_fork: the child has the ticks of its parent.
Fork(parent, child) ==
    /\ Running(MM)
    /\ parent \in Proc \ (free \cup Task \cup Idle)
    /\ First(child, free)
    /\ free' = free \ {child}
    /\ ready' = IF parent \in ready THEN ready \cup {child} ELSE ready
    /\ ticks' = [ticks EXCEPT ![child] = ticks[parent]]
    /\ priority' = [priority EXCEPT ![child] = priority[parent]]
    /\ UNCHANGED <<p_proc_ready, scheduling, saved>>

\* do_exit and cleanup: the slot is given back.
Exit(p) ==
    /\ Running(MM)
    /\ p \in Slot \ free
    /\ free' = free \cup {p}
    /\ ready' = ready \ {p}
    /\ UNCHANGED <<ticks, priority, p_proc_ready, scheduling, saved>>

-----------------------------------------------------------------------------
(* dump_fd_graph, which FS calls after every UNLINK *)

\* The processes the loops of dump_fd_graph pass over, and the others.
Stalled == Proc \ (free \cup Exempt)

\* With interrupts disabled, from the first entry of the table to the last.
DumpBegin ==
    /\ Running(FS) /\ ~dumping
    /\ dumping' = TRUE
    /\ tcks' = Restrict(ticks, Stalled)
    /\ prio' = Restrict(priority, Stalled)
    /\ left' = Proc /\ tested' = FALSE
    /\ ticks' = [p \in Proc |-> IF p \in Stalled THEN 0 ELSE ticks[p]]
    /\ priority' = [p \in Proc |-> IF p \in Stalled THEN 0 ELSE priority[p]]
    /\ UNCHANGED <<ready, free, p_proc_ready, scheduling>>

\* Seeded fault: the priority is not put back.
PutBackTicks(p) ==
    /\ ticks' = [ticks EXCEPT ![p] = tcks[p]]
    /\ UNCHANGED priority

\* tcks[p] and prio[p] hold whatever the stack held, if p was free when the
\* dump began.
PutBack(p) ==
    IF p \in DOMAIN tcks
    THEN /\ ticks' = [ticks EXCEPT ![p] = tcks[p]]
         /\ priority' = [priority EXCEPT ![p] = prio[p]]
    ELSE \E t, r \in Garbage :
            /\ ticks' = [ticks EXCEPT ![p] = t]
            /\ priority' = [priority EXCEPT ![p] = r]

\* A turn of the second loop tests an entry, calls getpid(), in which FS may
\* block and let others run, and then writes the entry, whatever it is by then.
DumpTest ==
    /\ Running(FS) /\ dumping /\ ~tested
    /\ \E p \in left :
          /\ First(p, left)
          /\ IF p \in Stalled THEN tested' = TRUE /\ left' = left
                             ELSE tested' = FALSE /\ left' = left \ {p}
          /\ tcks' = Restrict(tcks, DOMAIN tcks \cap left')
          /\ prio' = Restrict(prio, DOMAIN prio \cap left')
    /\ UNCHANGED <<ready, free, ticks, priority, p_proc_ready, scheduling, dumping>>

DumpRestore ==
    /\ Running(FS) /\ dumping /\ tested
    /\ \E p \in left :
          /\ First(p, left)
          /\ PutBack(p)
          /\ tcks' = Restrict(tcks, DOMAIN tcks \ {p})
          /\ prio' = Restrict(prio, DOMAIN prio \ {p})
          /\ left' = left \ {p}
    /\ tested' = FALSE
    /\ UNCHANGED <<ready, free, p_proc_ready, scheduling, dumping>>

DumpEnd ==
    /\ Running(FS) /\ dumping
    /\ left = {}
    /\ dumping' = FALSE
    /\ tcks' = Nothing /\ prio' = Nothing
    /\ UNCHANGED <<ready, free, ticks, priority, p_proc_ready, scheduling, left, tested>>

-----------------------------------------------------------------------------
Forks == \E parent \in Proc, child \in Slot : Fork(parent, child)
Ticks == \E nested \in BOOLEAN : Clock(nested)

Next ==
    \/ Choose
    \/ \E masked \in BOOLEAN : Block(masked)
    \/ \E p \in Proc : Unblock(p)
    \/ Ticks
    \/ Forks
    \/ \E p \in Slot : Exit(p)
    \/ DumpBegin
    \/ DumpTest
    \/ DumpRestore
    \/ DumpEnd

\* The timer goes on ticking, and an interrupt that comes while interrupts
\* are disabled stays pending; a scan that finds a process ends.
Fairness == SF_vars(Ticks) /\ WF_vars(Choose)

Spec == Init /\ [][Next]_vars /\ Fairness

-----------------------------------------------------------------------------
(* Types.  A process that runs has no flag set.                            *)
SchedTypeOK ==
    /\ ready \in SUBSET (Proc \ free)
    /\ free \in SUBSET Slot
    /\ ticks \in [Proc -> Nat] /\ priority \in [Proc -> Nat]
    /\ p_proc_ready \in Proc
    /\ scheduling \in {"no", "open", "masked"}
    /\ dumping \in BOOLEAN /\ tested \in BOOLEAN /\ left \subseteq Proc
    /\ DOMAIN tcks \subseteq left /\ tcks \in [DOMAIN tcks -> Nat]
    /\ DOMAIN prio = DOMAIN tcks /\ prio \in [DOMAIN tcks -> Nat]

(* Only a process without flags runs, whoever blocked, woke, was born or   *)
(* died since the last call of schedule().                                 *)
RunningReady == scheduling = "no" => p_proc_ready \in ready

(* schedule() returns: outside the dump of the disk log its scan finds a   *)
(* process, because TestA, TestB and TestC never block and are refilled.   *)
ScanEnds == (scheduling # "no" /\ ~dumping) => Found

InitialPriority(p) == IF p \in Task THEN TASK_PRIO ELSE USER_PRIO

(* The dump of the disk log leaves no trace on the processes that were     *)
(* there before it: once it is over, each is refilled to what kernel_main  *)
(* gave it, whoever ran while the dump was writing and restoring.          *)
PrioritiesRestored ==
    ~dumping => \A p \in Proc \ Slot : priority[p] = InitialPriority(p)

(* No starvation: a process that is ready gets the processor or blocks, if *)
(* its priority is not 0, unless forks (whose child takes ticks that       *)
(* nobody has paid for) or dumps of the disk log (which refill only some)  *)
(* come again and again.                                                   *)
NoStarvation ==
    \/ []<><<Forks>>_vars
    \/ []<>(dumping)
    \/ \A p \in Proc :
          p \in ready ~> (p_proc_ready = p \/ p \notin ready \/ priority[p] = 0)

-----------------------------------------------------------------------------
(* The inductive invariant of the proofs in KernelProof: idle processes    *)
(* stay ready, and during a dump the priority of every process that was    *)
(* there at the start is in its entry or in prio; an entry that is about   *)
(* to be written is not an exempt one.                                     *)
PrioritiesKept ==
    dumping => \A p \in Proc \ Slot :
        IF p \in left \ Exempt
        THEN p \in DOMAIN prio /\ prio[p] = InitialPriority(p)
        ELSE priority[p] = InitialPriority(p)

TestedStalled == tested => \A p \in Exempt : ~First(p, left)

SchedInv ==
    /\ SchedTypeOK /\ RunningReady /\ PrioritiesRestored
    /\ PrioritiesKept /\ TestedStalled /\ Idle \subseteq ready
=============================================================================
