------------------------------- MODULE HdSys -------------------------------
(***************************************************************************)
(* The hard disk driver task_hd (kernel/hd.c) and the SYS task task_sys    *)
(* (kernel/systask.c), with the disk below and FS and user processes above *)
(* them.  HD serves one request of FS at a time: it writes commands to the *)
(* disk, waits for its interrupts, and asks SYS for the time while it      *)
(* polls the status register.  SYS answers questions of anybody, and ends  *)
(* processes for the command kill.  All talk goes through Ipc.             *)
(***************************************************************************)
EXTENDS Ipc, Integers

CONSTANTS HD, SYS, FS, User,
          COUNT_VALUES,   \* values of hd_cmd.count, 256 with the 8 bits of hd.h
          MaxSectors,     \* bound: sectors of a READ or WRITE
          MaxTables,      \* bound: partition tables on the disk
          HZ, MAX_TICKS, HD_TIMEOUT,
          Uptime,         \* bound: the values of ticks at the start
          Delay,          \* bound: ticks that pass at a time
          MaxDelays       \* bound: how often they pass

ASSUME HdSysAssumption ==
    /\ Proc = {HD, SYS, FS} \cup User /\ IntTask = {HD}
    /\ {HD, SYS, FS} \cap User = {} /\ HD # SYS /\ HD # FS /\ SYS # FS
    /\ COUNT_VALUES \in Nat \ {0} /\ MaxSectors \in Nat \ {0} /\ MaxTables \in Nat \ {0}
    /\ Delay \in Nat /\ MaxDelays \in Nat

\* ticks runs for longer than the time-out before it starts again.
ASSUME TimeAssumption ==
    /\ HZ \in Nat \ {0} /\ HD_TIMEOUT \in Nat /\ MAX_TICKS \in Nat \ {0}
    /\ HD_TIMEOUT * HZ <= MAX_TICKS
    /\ Uptime \subseteq 0..(MAX_TICKS - 1) /\ Delay < MAX_TICKS

VARIABLES
    ticks,     \* the counter of clock_handler
    passed,    \* history: how many ticks passed while HD polls
    delays,    \* bound: how often time passed
    disk,      \* the disk: status bits, command, sectors it still transfers
    hd,        \* where HD is: its request, commands to come, sectors to come
    sys,       \* where SYS is
    fs,        \* where FS is, and for whom
    user,      \* per process: its call, and how far it is
    files,     \* the processes that have an open file
    harmed     \* history: kill hit a process in a call, or close() failed

hdVars == <<passed, disk, hd>>
vars   == <<ipcVars, ticks, delays, hdVars, sys, fs, user, files, harmed>>

Msg(t, n) == [type |-> t, n |-> n]
Nothing   == Msg("none", 0)
Is(p, t)  == buf[p].source # INTERRUPT /\ buf[p].body.type = t

\* A command: sectors come in or go out.
In(n)  == [op |-> "in", n |-> n]
Out(n) == [op |-> "out", n |-> n]

HdIdle   == [at |-> "loop", src |-> NO_TASK, job |-> <<>>, left |-> 0,
             for |-> "BSY", t |-> 0]
SysIdle  == [at |-> "loop", victim |-> NO_TASK, src |-> NO_TASK]
FsIdle   == [at |-> "loop", src |-> NO_TASK, then |-> "loop"]
DiskIdle == [busy |-> FALSE, drq |-> FALSE, op |-> "in", left |-> 0]

Init ==
    /\ p_flags = [p \in Proc |-> {}]
    /\ p_sendto = [p \in Proc |-> NO_TASK] /\ p_recvfrom = [p \in Proc |-> NO_TASK]
    /\ p_msg = [p \in Proc |-> FALSE] /\ q_sending = [p \in Proc |-> <<>>]
    /\ has_int_msg = [p \in Proc |-> FALSE]
    /\ buf = [p \in Proc |-> [source |-> p, body |-> Nothing]]
    /\ halted = "no"
    /\ ticks \in Uptime /\ passed = 0 /\ delays = 0
    /\ disk = DiskIdle /\ hd = HdIdle
    /\ sys = SysIdle /\ fs = [FsIdle EXCEPT !.at = "boot"]
    /\ user = [u \in User |-> [call |-> "none", at |-> "user"]]
    /\ files \in SUBSET User
    /\ harmed = FALSE

-----------------------------------------------------------------------------
(* The clock and the disk *)

ClockHandler ==
    /\ halted = "no" /\ delays < MaxDelays
    /\ ticks' = IF ticks + Delay >= MAX_TICKS THEN ticks + Delay - MAX_TICKS
                ELSE ticks + Delay
    /\ passed' = IF hd.at \in {"begin", "began", "asked", "look", "look again"}
                 THEN passed + Delay ELSE 0
    /\ delays' = delays + 1
    /\ UNCHANGED <<ipcVars, disk, hd, sys, fs, user, files, harmed>>

\* The disk has read or written a sector, and interrupts (hd_handler); it
\* takes the first sector to be written without an interrupt.
DiskReady ==
    /\ disk.busy
    /\ disk' = [disk EXCEPT !.busy = FALSE,
                            !.drq = disk.op # "written" \/ disk.left > 0,
                            !.op = IF @ = "written" THEN "out" ELSE @]
    /\ IF disk.op = "out" THEN UNCHANGED ipcVars ELSE InformInt(HD)
    /\ UNCHANGED <<ticks, delays, passed, hd, sys, fs, user, files, harmed>>

-----------------------------------------------------------------------------
(* HD *)

HdAt(step)   == hd.at = step /\ Runnable(HD)
HdGoto(step) == hd' = [hd EXCEPT !.at = step]
HdRest       == UNCHANGED <<ticks, delays, sys, fs, user, files, harmed>>

HdReceive ==
    /\ hd.at = "loop" /\ MsgReceive(HD, ANY) /\ HdGoto("dispatch")
    /\ UNCHANGED <<passed, disk>> /\ HdRest

\* hd_open: hd_identify reads a sector of information, and partition a table
\* for the drive and one for each extended partition.
Identify == In(1)
PartTable == In(1)
Partition == {[i \in 1..k |-> PartTable] : k \in 1..MaxTables}

\* hd_ioctl only copies what partition has found.
Ioctl == <<>>

HdRdwt(type, n) == IF type = "DEV_READ" THEN In(n) ELSE Out(n)

\* The commands a request takes.
Job(type, n) ==
    CASE type = "DEV_OPEN"  -> {<<Identify>> \o tables : tables \in Partition}
      [] type = "DEV_IOCTL" -> {Ioctl}
      [] OTHER              -> {<<HdRdwt(type, n)>>}

HdDispatch ==
    /\ HdAt("dispatch")
    /\ buf[HD].source # INTERRUPT              \* dump_msg, spin
    /\ \E job \in Job(buf[HD].body.type, buf[HD].body.n) :
          hd' = [hd EXCEPT !.at = "command", !.src = buf[HD].source, !.job = job]
    /\ UNCHANGED <<ipcVars, passed, disk>> /\ HdRest

\* waitfor(BSY, 0) before a command, waitfor(DRQ, DRQ) before a sector to be
\* written: get_ticks of SYS once, and then again before every look.
Polls == CASE hd.at = "command" -> hd.job # <<>>
           [] hd.at = "sector"  -> Head(hd.job).op = "out"
           [] OTHER -> FALSE

AskTicks == MsgSend(HD, SYS, Msg("GET_TICKS", 0))

HdWaitfor ==
    /\ Polls /\ AskTicks
    /\ hd' = [hd EXCEPT !.at = "begin", !.for = IF hd.at = "command" THEN "BSY" ELSE "DRQ"]
    /\ passed' = 0 /\ UNCHANGED disk /\ HdRest

HdTicks ==
    /\ hd.at \in {"begin", "asked"} /\ MsgReceive(HD, SYS)
    /\ HdGoto(IF hd.at = "begin" THEN "began" ELSE "look")
    /\ UNCHANGED <<passed, disk>> /\ HdRest

\* int t = get_ticks()
HdAgain ==
    /\ hd.at = "began" /\ AskTicks
    /\ hd' = [hd EXCEPT !.at = "asked", !.t = buf[HD].body.n]
    /\ UNCHANGED <<passed, disk>> /\ HdRest

\* d * 1000 as a signed number of 32 bits, from 16 bits at a time.
Times1000(d) ==
    LET low  == (d % 65536) * 1000
        high == ((d \div 65536) * 1000 + low \div 65536) % 65536
    IN  (IF high < 32768 THEN high ELSE high - 65536) * 65536 + (low % 65536)

\* Seeded fault: ticks are compared with milliseconds.
TimedOutInTicks(t, now) == Times1000(now - t) >= HD_TIMEOUT

\* The loop ends when (get_ticks() - t) * 1000 / HZ < timeout does not hold.
TimedOut(t, now) ==
    LET v == Times1000(now - t) IN v >= 0 /\ v \div HZ >= HD_TIMEOUT

\* panic("hd error.") and panic("hd writing error.")
HdPanic ==
    /\ HdAt("look") /\ TimedOut(hd.t, buf[HD].body.n)
    /\ halted' = "hd"
    /\ UNCHANGED <<p_flags, p_sendto, p_recvfrom, p_msg, q_sending, has_int_msg, buf>>
    /\ UNCHANGED hdVars /\ HdRest

Ready == IF hd.for = "BSY" THEN ~disk.busy ELSE disk.drq

\* return 1; t was a local of waitfor.
HdLook ==
    /\ HdAt("look") /\ ~TimedOut(hd.t, buf[HD].body.n)
    /\ IF Ready
       THEN /\ hd' = [hd EXCEPT !.at = IF hd.for = "BSY" THEN "out" ELSE "port", !.t = 0]
            /\ passed' = 0
       ELSE HdGoto("look again") /\ UNCHANGED passed
    /\ UNCHANGED <<ipcVars, disk>> /\ HdRest

HdLookAgain ==
    /\ hd.at = "look again" /\ AskTicks /\ HdGoto("asked")
    /\ UNCHANGED <<passed, disk>> /\ HdRest

\* Seeded fault: bytes / SECTOR_SIZE + 1.
CountPlusOne(n) == n + 1

\* hd_cmd.count is an unsigned char, and the disk takes 0 for 256.
Count(n) == LET c == n % COUNT_VALUES IN IF c = 0 THEN COUNT_VALUES ELSE c

\* hd_cmd_out
HdCmdOut ==
    /\ HdAt("out")
    /\ LET c == Head(hd.job)
       IN  /\ disk' = [busy |-> TRUE, drq |-> FALSE, op |-> c.op, left |-> Count(c.n)]
           /\ hd' = [hd EXCEPT !.at = "sector", !.left = c.n]
    /\ UNCHANGED <<ipcVars, passed>> /\ HdRest

\* port_write of a sector.
HdPortWrite ==
    /\ HdAt("port")
    /\ disk' = [disk EXCEPT !.busy = TRUE, !.drq = FALSE, !.op = "written", !.left = @ - 1]
    /\ HdGoto("written")
    /\ UNCHANGED <<ipcVars, passed>> /\ HdRest

\* Seeded fault: nobody waits for the interrupt that ends a sector written.
WaitsForInput == hd.at = "sector" /\ Head(hd.job).op = "in"

Waits == hd.at = "written" \/ (hd.at = "sector" /\ Head(hd.job).op = "in")

HdInterruptWait ==
    /\ Waits /\ MsgReceive(HD, INTERRUPT)
    /\ HdGoto("interrupted")
    /\ UNCHANGED <<passed, disk>> /\ HdRest

\* port_read, if there is something to read, and on to the next sector.
HdSectorDone ==
    /\ HdAt("interrupted") \/ (HdAt("written") /\ ~Waits)
    /\ disk' = IF Head(hd.job).op = "out" THEN disk
               ELSE [disk EXCEPT !.drq = FALSE, !.busy = disk.left > 1, !.left = @ - 1]
    /\ hd' = [hd EXCEPT !.left = @ - 1,
                        !.at = IF hd.left > 1 THEN "sector" ELSE "command",
                        !.job = IF hd.left > 1 THEN @ ELSE Tail(@)]
    /\ UNCHANGED <<ipcVars, passed>> /\ HdRest

HdReply ==
    /\ hd.at = "command" /\ hd.job = <<>>
    /\ MsgSend(HD, hd.src, Nothing)
    /\ hd' = HdIdle
    /\ UNCHANGED <<passed, disk>> /\ HdRest

TaskHd ==
    \/ HdReceive \/ HdDispatch
    \/ HdWaitfor \/ HdTicks \/ HdAgain \/ HdPanic \/ HdLook \/ HdLookAgain
    \/ HdCmdOut \/ HdPortWrite \/ HdInterruptWait \/ HdSectorDone \/ HdReply

-----------------------------------------------------------------------------
(* SYS *)

SysRest == UNCHANGED <<ticks, delays, hdVars, fs, user>>

SysReceive ==
    /\ sys.at = "loop" /\ MsgReceive(SYS, ANY)
    /\ sys' = [sys EXCEPT !.at = "dispatch"]
    /\ UNCHANGED <<files, harmed>> /\ SysRest

\* GET_TICKS; GET_PID, GET_RTC_TIME and GET_PROC_INFO differ in what they tell.
SysAnswer ==
    /\ sys.at = "dispatch" /\ (Is(SYS, "GET_TICKS") \/ Is(SYS, "GET_PID"))
    /\ MsgSend(SYS, buf[SYS].source, Msg("SYSCALL_RET", ticks))
    /\ sys' = [sys EXCEPT !.at = "loop"]
    /\ UNCHANGED <<files, harmed>> /\ SysRest

Victim == IF sys.at = "dispatch" THEN buf[SYS].body.n ELSE sys.victim

\* KILL_PROC closes the files of the victim: as its own, through FS.
SysClose ==
    /\ sys.at = "dispatch" /\ Is(SYS, "KILL_PROC") /\ Victim \in files
    /\ sys' = [at |-> "close", victim |-> Victim, src |-> buf[SYS].source]
    /\ MsgSend(SYS, FS, Msg("CLOSE", 0))
    /\ UNCHANGED <<files, harmed>> /\ SysRest

SysClosed ==
    /\ sys.at = "close" /\ MsgReceive(SYS, FS)
    /\ sys' = [sys EXCEPT !.at = "closed"]
    /\ files' = files \ {sys.victim}
    /\ UNCHANGED harmed /\ SysRest

\* target_proc->p_flags = HANGING, whatever the victim is doing.
SysHang ==
    /\ Runnable(SYS)
    /\ sys.at = "closed" \/ (sys.at = "dispatch" /\ Is(SYS, "KILL_PROC") /\ Victim \notin files)
    /\ p_flags' = [p_flags EXCEPT ![Victim] = {"HANGING"}]
    /\ harmed' = (harmed \/ user[Victim].at # "user")
    /\ sys' = IF sys.at = "closed" THEN [sys EXCEPT !.at = "killed"]
              ELSE [at |-> "killed", victim |-> Victim, src |-> buf[SYS].source]
    /\ UNCHANGED <<p_sendto, p_recvfrom, p_msg, q_sending, has_int_msg, buf, halted>>
    /\ UNCHANGED files /\ SysRest

SysKilled ==
    /\ sys.at = "killed" /\ MsgSend(SYS, sys.src, Msg("SYSCALL_RET", 0))
    /\ sys' = SysIdle
    /\ UNCHANGED <<files, harmed>> /\ SysRest

TaskSys == SysReceive \/ SysAnswer \/ SysClose \/ SysClosed \/ SysHang \/ SysKilled

-----------------------------------------------------------------------------
(* FS and user processes, as far as they use HD and SYS *)

FsRest == UNCHANGED <<ticks, delays, hdVars, sys, user, files, harmed>>

FsAsk(t, n, src, then) ==
    /\ MsgSend(FS, HD, Msg(t, n))
    /\ fs' = [at |-> "asked", src |-> src, then |-> then]

\* init_fs opens the root device; mkfs, which it calls at every boot, asks
\* for its size.  Their sectors go to and fro as those of a call do.
FsBoot ==
    /\ \/ fs.at = "boot" /\ FsAsk("DEV_OPEN", 0, NO_TASK, "mkfs")
       \/ fs.at = "mkfs" /\ FsAsk("DEV_IOCTL", 0, NO_TASK, "loop")
    /\ FsRest

FsReceive ==
    /\ fs.at = "loop" /\ MsgReceive(FS, ANY)
    /\ fs' = [fs EXCEPT !.at = "dispatch"] /\ FsRest

\* The call of a process that FS is working at.
Caller == IF fs.at = "dispatch" THEN buf[FS].source ELSE fs.src
Working == fs.at = "serve" \/ (fs.at = "dispatch" /\ Is(FS, "CALL"))

\* rw_sector, as often as the call needs it.
FsRdwt ==
    /\ Working
    /\ \E t \in {"DEV_READ", "DEV_WRITE"}, n \in 1..MaxSectors : FsAsk(t, n, Caller, "serve")
    /\ FsRest

FsGot ==
    /\ fs.at = "asked" /\ MsgReceive(FS, HD)
    /\ fs' = [fs EXCEPT !.at = fs.then] /\ FsRest

FsReply ==
    /\ Working /\ MsgSend(FS, Caller, Nothing)
    /\ fs' = FsIdle /\ FsRest

\* do_close of a null filp of SYS: put_inode of whatever lies at address 0,
\* and its assertion may fail.
FsClose ==
    /\ fs.at = "dispatch" /\ Is(FS, "CLOSE") /\ MsgSend(FS, SYS, Nothing)
    /\ fs' = FsIdle /\ FsRest

FsCloseFails ==
    /\ fs.at = "dispatch" /\ Is(FS, "CLOSE") /\ Runnable(FS)
    /\ halted' = "assert" /\ harmed' = TRUE
    /\ UNCHANGED <<p_flags, p_sendto, p_recvfrom, p_msg, q_sending, has_int_msg, buf,
                   ticks, delays, hdVars, sys, fs, user, files>>

TaskFs == FsBoot \/ FsReceive \/ FsRdwt \/ FsGot \/ FsReply \/ FsClose \/ FsCloseFails

Server(t) == IF t = "CALL" THEN FS ELSE SYS

UserRest == UNCHANGED <<ticks, delays, hdVars, sys, fs, files, harmed>>

UserCall(u, t, n) ==
    /\ user[u].at = "user"
    /\ MsgSend(u, Server(t), Msg(t, n))
    /\ user' = [user EXCEPT ![u] = [call |-> t, at |-> "sent"]] /\ UserRest

UserReceive(u) ==
    /\ user[u].at = "sent" /\ MsgReceive(u, Server(user[u].call))
    /\ user' = [user EXCEPT ![u].at = "received"] /\ UserRest

UserReturn(u) ==
    /\ user[u].at = "received" /\ Runnable(u)
    /\ user' = [user EXCEPT ![u] = [call |-> "none", at |-> "user"]]
    /\ buf' = [buf EXCEPT ![u] = [source |-> u, body |-> Nothing]]
    /\ UNCHANGED <<p_flags, p_sendto, p_recvfrom, p_msg, q_sending, has_int_msg, halted>>
    /\ UserRest

UserStep(u) == UserReceive(u) \/ UserReturn(u)

Next ==
    \/ ClockHandler \/ DiskReady \/ TaskHd \/ TaskSys \/ TaskFs
    \/ \E u \in User : UserCall(u, "CALL", 0) \/ UserCall(u, "GET_PID", 0) \/ UserStep(u)
    \/ \E u, v \in User : UserCall(u, "KILL_PROC", v)

Spec == Init /\ [][Next]_vars
-----------------------------------------------------------------------------

(* Between two commands HD and the disk agree: every interrupt was waited  *)
(* for once, and every sector of the command transferred once.             *)
CommandsComplete ==
    hd.at \in {"loop", "dispatch", "command"} =>
        ~disk.busy /\ ~disk.drq /\ disk.left = 0 /\ ~has_int_msg[HD]

(* HD gives the disk up only after HD_TIMEOUT since it began to poll, or   *)
(* when the counter of ticks starts again from 0 meanwhile.                *)
TimeoutExact ==
    halted = "hd" => passed * 1000 >= HD_TIMEOUT * HZ \/ ticks < hd.t

\* HD waits for more sectors than it could tell the disk.
TooLong == hd.job # <<>> /\ Head(hd.job).n > COUNT_VALUES

\* SYS closes a file through FS, who waits for HD, who asks SYS for the ticks.
KillCircle == sys.at = "close" /\ Sending(SYS) /\ Receiving(FS) /\ Sending(HD)

\* HD gets a message that is no request: dump_msg, spin.
Spins == hd.at = "dispatch" /\ Runnable(HD) /\ buf[HD].source = INTERRUPT

InCall(u) == user[u].at # "user"

(* HD, SYS and FS trip no assertion of the kernel and no deadlock panic,   *)
(* for HD talks to SYS only when it has no interrupt to come; and while a  *)
(* process is in a call, the disk is busy or a task or a caller can run:   *)
(* nobody waits for ever, which deadlock() would not find, for it follows  *)
(* senders and not receivers.  The exceptions are what kill does to a      *)
(* process in a call or by closing files, and a request that is longer     *)
(* than hd_cmd.count can say.                                              *)
DriversRun ==
    \/ harmed \/ halted = "hd"
    \/ /\ halted = "no" /\ ~Spins
       /\ (\E u \in User : InCall(u)) =>
             \/ disk.busy \/ KillCircle \/ TooLong
             \/ \E p \in Proc : Runnable(p) /\ (p \in User => InCall(p))

NotHarmed == ~harmed
-----------------------------------------------------------------------------
(* The inductive invariant of HdSysProof.  It says of each task what its    *)
(* entry in the process table looks like at each of its places, and which   *)
(* two of them wait for each other; that part is kept even when kill does   *)
(* harm.  Of the callers it says who has to answer them.                    *)

\* A process is not blocked, or it is blocked by IPC alone.
Unblocked(p) ==
    p_flags[p] = {} /\ ~p_msg[p] /\ p_sendto[p] = NO_TASK /\ p_recvfrom[p] = NO_TASK
SendsTo(p, d) ==
    p_flags[p] = {"SENDING"} /\ p_msg[p] /\ p_sendto[p] = d /\ p_recvfrom[p] = NO_TASK
Awaiting(p, src) ==
    p_flags[p] = {"RECEIVING"} /\ p_msg[p] /\ p_sendto[p] = NO_TASK /\ p_recvfrom[p] = src

\* What is sent: requests to HD, to FS, and to SYS.
Letter(p, m) == [source |-> p, body |-> m]
Transfer     == {Msg(t, n) : t \in {"DEV_READ", "DEV_WRITE"}, n \in 1..MaxSectors}
HdRequest    == {Msg("DEV_OPEN", 0), Msg("DEV_IOCTL", 0)} \cup Transfer
SysRequest   == {Msg("GET_PID", 0)} \cup {Msg("KILL_PROC", v) : v \in User}
Mail         == [type : {"DEV_OPEN", "DEV_IOCTL", "DEV_READ", "DEV_WRITE", "CALL", "CLOSE", "none",
                         "GET_TICKS", "GET_PID", "KILL_PROC", "SYSCALL_RET"},
                 n : Nat \cup User]

\* The process table as Ipc has it: only HD is interrupted.
TableOK ==
    /\ p_flags \in [Proc -> SUBSET Flag]
    /\ p_sendto \in [Proc -> Proc \cup {NO_TASK}]
    /\ p_recvfrom \in [Proc -> Source \cup {NO_TASK}]
    /\ p_msg \in [Proc -> BOOLEAN]
    /\ q_sending \in [Proc -> Seq(Proc)]
    /\ has_int_msg \in [Proc -> BOOLEAN] /\ \A p \in Proc \ {HD} : ~has_int_msg[p]
    /\ buf \in [Proc -> [source : Proc \cup {INTERRUPT}, body : Mail \cup {HARD_INT}]]

HdPlace  == {"loop", "dispatch", "command", "begin", "began", "asked", "look", "look again",
             "out", "sector", "port", "written", "interrupted"}
Command  == [op : {"in", "out"}, n : Nat \ {0}]
Polling  == {"begin", "began", "asked", "look", "look again"}

HdState  == [at : HdPlace, src : {FS, NO_TASK}, job : Seq(Command), left : Nat,
             for : {"BSY", "DRQ"}, t : Nat]
DiskState == [busy : BOOLEAN, drq : BOOLEAN, op : {"in", "out", "written"}, left : Nat]
SysState == [at : {"loop", "dispatch", "close", "closed", "killed"},
             victim : User \cup {NO_TASK}, src : User \cup {NO_TASK}]
FsState  == [at : {"boot", "mkfs", "loop", "dispatch", "asked", "serve"},
             src : User \cup {NO_TASK}, then : {"mkfs", "loop", "serve"}]
UserState == [call : {"none", "CALL", "GET_PID", "KILL_PROC"}, at : {"user", "sent", "received"}]

HdSysTypeOK ==
    /\ ticks \in 0..(MAX_TICKS - 1) /\ passed \in Nat
    /\ disk \in DiskState /\ hd \in HdState /\ sys \in SysState /\ fs \in FsState
    /\ user \in [User -> UserState] /\ harmed \in BOOLEAN

\* HD by its places: its entry, its locals.
HdAtPlace ==
    CASE hd.at = "loop" -> hd = HdIdle /\ (Unblocked(HD) \/ SendsTo(HD, FS))
      [] hd.at = "dispatch" ->
            /\ hd = [HdIdle EXCEPT !.at = "dispatch"]
            /\ \/ Awaiting(HD, ANY)
               \/ Unblocked(HD) /\ \E m \in HdRequest : buf[HD] = Letter(FS, m)
      [] hd.at \in {"begin", "asked"} ->
            \/ Unblocked(HD)
            \/ SendsTo(HD, SYS) /\ buf[HD] = Letter(HD, Msg("GET_TICKS", 0))
      [] hd.at \in {"began", "look"} -> Unblocked(HD) \/ Awaiting(HD, SYS)
      [] hd.at = "interrupted" -> Unblocked(HD) \/ Awaiting(HD, INTERRUPT)
      [] OTHER -> Unblocked(HD)

HdOK ==
    /\ HdAtPlace
    /\ hd.at \notin {"loop", "dispatch"} => hd.src = FS
    /\ hd.at \notin {"loop", "dispatch", "command"} => hd.job # <<>>

\* The disk is as far as HD is in its command.
Quiet == ~disk.busy /\ ~disk.drq /\ disk.left = 0 /\ ~has_int_msg[HD]
Transferring ==
    /\ hd.left > 0
    /\ disk.left <= hd.left /\ (Head(hd.job).n <= COUNT_VALUES => disk.left = hd.left)

Writing ==
    /\ Head(hd.job).op = "out" /\ disk.op = "out" /\ ~has_int_msg[HD] /\ Transferring
    /\ disk.busy => ~disk.drq /\ disk.left > 0
    /\ disk.drq => disk.left > 0

\* A sector was written, and the disk answers with an interrupt.
Written ==
    /\ Head(hd.job).op = "out" /\ hd.left > 0
    /\ disk.left < hd.left /\ (Head(hd.job).n <= COUNT_VALUES => disk.left = hd.left - 1)
    /\ \/ disk.busy /\ disk.op = "written" /\ ~disk.drq /\ ~has_int_msg[HD] /\ ~Unblocked(HD)
       \/ disk.busy /\ disk.op = "written" /\ ~disk.drq /\ ~has_int_msg[HD] /\ hd.at = "written"
       \/ /\ ~disk.busy /\ disk.op = "out" /\ (disk.drq <=> disk.left > 0)
          /\ has_int_msg[HD] <=> hd.at = "written"
          /\ Unblocked(HD)

Reading ==
    /\ disk.op = "in" /\ Transferring
    /\ \/ disk.busy /\ ~disk.drq /\ disk.left > 0 /\ ~has_int_msg[HD]
          /\ (Unblocked(HD) => hd.at = "sector")
       \/ ~disk.busy /\ ~disk.drq /\ disk.left = 0 /\ ~has_int_msg[HD]
          /\ (Unblocked(HD) => hd.at = "sector")
       \/ /\ ~disk.busy /\ disk.drq /\ disk.left > 0
          /\ has_int_msg[HD] <=> hd.at = "sector"
          /\ Unblocked(HD)

DiskOK ==
    IF hd.at \in {"loop", "dispatch", "command", "out"} \/ (hd.at \in Polling /\ hd.for = "BSY")
    THEN Quiet
    ELSE IF hd.at \in Polling \/ hd.at = "port" \/ (hd.at = "sector" /\ Head(hd.job).op = "out")
    THEN Writing /\ (hd.at = "port" => disk.drq)
    ELSE IF hd.at = "written" \/ Head(hd.job).op = "out" THEN Written ELSE Reading

\* SYS and FS by their places.
SysAtPlace ==
    CASE sys.at = "loop" ->
            /\ sys = SysIdle
            /\ Unblocked(SYS) \/ SendsTo(SYS, HD) \/ \E u \in User : SendsTo(SYS, u)
      [] sys.at = "dispatch" ->
            /\ sys = [SysIdle EXCEPT !.at = "dispatch"]
            /\ \/ Awaiting(SYS, ANY)
               \/ Unblocked(SYS) /\ buf[SYS] = Letter(HD, Msg("GET_TICKS", 0))
               \/ Unblocked(SYS) /\ \E u \in User, m \in SysRequest : buf[SYS] = Letter(u, m)
      [] sys.at = "close" ->
            \/ Unblocked(SYS)
            \/ SendsTo(SYS, FS) /\ buf[SYS] = Letter(SYS, Msg("CLOSE", 0))
      [] sys.at = "closed" -> Unblocked(SYS) \/ Awaiting(SYS, FS)
      [] OTHER -> Unblocked(SYS)

SysOK ==
    /\ SysAtPlace
    /\ sys.at \in {"close", "closed", "killed"} => sys.src \in User /\ sys.victim \in User

\* HD has no request of FS, and serves or answers none.
HdFree == (hd.at = "loop" /\ Unblocked(HD)) \/ Awaiting(HD, ANY)

FsAtPlace ==
    CASE fs.at = "boot" -> Unblocked(FS) /\ HdFree
      [] fs.at = "dispatch" ->
            /\ HdFree
            /\ \/ Awaiting(FS, ANY)
               \/ Unblocked(FS) /\ buf[FS] = Letter(SYS, Msg("CLOSE", 0))
               \/ Unblocked(FS) /\ \E u \in User : buf[FS] = Letter(u, Msg("CALL", 0))
      [] fs.at = "asked" ->
            \/ SendsTo(FS, HD) /\ HdFree /\ \E m \in HdRequest : buf[FS] = Letter(FS, m)
            \/ Unblocked(FS) /\ ~HdFree
      [] OTHER ->
            \/ Awaiting(FS, HD) /\ ~HdFree
            \/ Unblocked(FS) /\ HdFree
            \/ /\ fs.at = "loop" /\ HdFree
               /\ SendsTo(FS, SYS) \/ \E u \in User : SendsTo(FS, u)

FsOK ==
    /\ FsAtPlace
    /\ fs.at = "serve" => fs.src \in User
    /\ fs.at = "asked" => (fs.src \in User <=> fs.then = "serve")

\* SYS answers HD when HD waits for it, and FS answers SYS.
HdAsks   == (hd.at \in {"begin", "asked"} /\ Unblocked(HD)) \/ Awaiting(HD, SYS)
SysHasHd == (sys.at = "dispatch" /\ Unblocked(SYS) /\ buf[SYS].source = HD) \/ SendsTo(SYS, HD)
SysAsks  == (sys.at = "close" /\ Unblocked(SYS)) \/ Awaiting(SYS, FS)
FsHasSys == (fs.at = "dispatch" /\ Unblocked(FS) /\ buf[FS].source = SYS) \/ SendsTo(FS, SYS)
TasksPair == (HdAsks <=> SysHasHd) /\ (SysAsks <=> FsHasSys)

\* What is in the queue of FS or of SYS was sent by a process in a call.
UserMail(u) ==
    Sending(u) => \/ p_sendto[u] = FS /\ buf[u] = Letter(u, Msg("CALL", 0))
                  \/ p_sendto[u] = SYS /\ \E m \in SysRequest : buf[u] = Letter(u, m)

\* The time from a to b, and what HD, or SYS for HD, was told of it last.
Since(a, b) == IF b >= a THEN b - a ELSE MAX_TICKS - a + b
Told(x) ==
    /\ x \in 0..(MAX_TICKS - 1)
    /\ IF hd.at \in {"begin", "began"} THEN Since(x, ticks) <= passed
       ELSE Since(hd.t, x) + Since(x, ticks) <= passed

TimeOK ==
    /\ hd.at \in {"asked", "look", "look again"} =>
          hd.t < MAX_TICKS /\ Since(hd.t, ticks) <= passed
    /\ hd.at \in {"began", "look"} /\ Unblocked(HD) => Told(buf[HD].body.n)
    /\ SendsTo(SYS, HD) => Told(buf[SYS].body.n)

DriverInv ==
    /\ TableOK /\ HdSysTypeOK /\ HdOK /\ DiskOK /\ SysOK /\ FsOK /\ TasksPair
    /\ \A u \in User : UserMail(u)
    /\ TimeOK

\* FS or SYS has the request of u, and u no answer.
Pending(u) ==
    /\ InCall(u)
    /\ (user[u].at = "sent" /\ Unblocked(u)) \/ Awaiting(u, Server(user[u].call))
FsHas(u) ==
    \/ fs.at \in {"asked", "serve"} /\ fs.src = u
    \/ fs.at = "dispatch" /\ Unblocked(FS) /\ buf[FS].source = u
    \/ SendsTo(FS, u)
SysHas(u) ==
    \/ sys.at \in {"close", "closed", "killed"} /\ sys.src = u
    \/ sys.at = "dispatch" /\ Unblocked(SYS) /\ buf[SYS].source = u
    \/ SendsTo(SYS, u)

Killed(p) ==
    p_flags[p] = {"HANGING"} /\ ~p_msg[p] /\ p_sendto[p] = NO_TASK /\ p_recvfrom[p] = NO_TASK

UserOK(u) ==
    /\ CASE user[u].at = "user" -> user[u].call = "none" /\ (Unblocked(u) \/ Killed(u))
         [] user[u].at = "sent" ->
               /\ user[u].call # "none"
               /\ \/ Unblocked(u)
                  \/ /\ SendsTo(u, Server(user[u].call))
                     /\ buf[u].source = u /\ buf[u].body.type = user[u].call
         [] OTHER ->
               /\ user[u].call # "none"
               /\ Unblocked(u) \/ Awaiting(u, Server(user[u].call))
    /\ FsHas(u) <=> Pending(u) /\ Server(user[u].call) = FS
    /\ SysHas(u) <=> Pending(u) /\ Server(user[u].call) = SYS

\* Nobody waits to send to a process that waits for it.
NoneMissed == \A p, d \in Proc : SendsTo(p, d) => ~Awaits(d, p)

CallerInv ==
    /\ QueueExact /\ NoneMissed
    /\ \A u \in User : UserOK(u)

\* What kill cannot harm, and what it can.
TaskInv  == CommandsComplete /\ TimeoutExact /\ (halted = "no" => DriverInv)
HdSysInv == TaskInv /\ (harmed \/ halted = "hd" \/ (halted = "no" /\ CallerInv))
=============================================================================
