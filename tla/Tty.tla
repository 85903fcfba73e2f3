-------------------------------- MODULE Tty --------------------------------
(***************************************************************************)
(* Reading and writing a terminal: user processes ask FS, FS asks TTY      *)
(* (fs/read_write.c, fs/open.c), TTY suspends a reader, collects and edits *)
(* its line key by key and lets FS resume it (kernel/tty.c, fs/main.c).    *)
(* All talk goes through the message passing of Ipc; the keys come from    *)
(* the keyboard (see Keyboard) while any of them is anywhere.              *)
(***************************************************************************)
EXTENDS Ipc, Integers

CONSTANTS TTY, FS, User,
          NR_CONSOLES,
          Letter,          \* printable characters
          TTY_IN_BYTES,    \* slots of a TTY's input ring
          Opened,          \* per user process: the consoles it has opened
          Call,            \* the calls it makes, of OPEN, READ and WRITE
          MaxRead,         \* bound: characters asked for by a READ
          MaxKeys          \* bound: keys that lie in the keyboard's ring

Console == 0..(NR_CONSOLES - 1)
Key == Letter \cup {"BACKSPACE", "ENTER", "shift Fn"}

\* The messages of these tasks, and of the processes that call them.
Msg(t, dev, p, n) == [type |-> t, DEVICE |-> dev, PROC_NR |-> p, CNT |-> n]
MsgType == {"none", "OPEN", "READ", "WRITE", "DEV_OPEN", "DEV_READ", "DEV_WRITE",
            "SUSPEND_PROC", "RESUME_PROC", "SYSCALL_RET"}
Mail == [type : MsgType, DEVICE : Console, PROC_NR : User \cup {NO_TASK}, CNT : 0..MaxRead]

ASSUME TtyAssumption ==
    /\ NR_CONSOLES \in Nat \ {0} /\ TTY_IN_BYTES \in Nat \ {0}
    /\ MaxRead \in Nat \ {0} /\ MaxKeys \in Nat
    /\ TTY # FS /\ {TTY, FS} \cap User = {} /\ Proc = {TTY, FS} \cup User
    /\ IntTask = {TTY} /\ Mail \subseteq Body
    /\ {"BACKSPACE", "ENTER", "shift Fn"} \cap Letter = {}
    /\ Opened \in [User -> SUBSET (0..(NR_CONSOLES - 1))]
    /\ Call \subseteq {"OPEN", "READ", "WRITE"}

VARIABLES
    keys,       \* keys pressed and not yet read by TTY
    current,    \* nr_current_console
    tty_table,  \* per TTY: ibuf, tty_procnr, tty_left_cnt, tty_trans_cnt
    tt,         \* where TTY is in its loop, and with which TTY
    fs,         \* where FS is, and for whom
    user,       \* per process: its call, and how far it is
    mem,        \* per process: the buffer it gave to READ
    line,       \* history: per process, what was typed for it, as edited
    overtaken   \* history: readers whose TTY took another reader since

ttyVars == <<keys, current, tty_table, tt, mem, line, overtaken>>
vars == <<ipcVars, ttyVars, fs, user>>

Nothing == Msg("none", 0, NO_TASK, 0)

\* Of a reply the caller reads the count alone.
Answer(n) == Msg("SYSCALL_RET", 0, NO_TASK, n)
Is(p, t) == buf[p].source # INTERRUPT /\ buf[p].body.type = t

Init ==
    /\ p_flags = [p \in Proc |-> {}]
    /\ p_sendto = [p \in Proc |-> NO_TASK]
    /\ p_recvfrom = [p \in Proc |-> NO_TASK]
    /\ p_msg = [p \in Proc |-> FALSE]
    /\ q_sending = [p \in Proc |-> <<>>]
    /\ has_int_msg = [p \in Proc |-> FALSE]
    /\ buf = [p \in Proc |-> [source |-> p, body |-> Nothing]]
    /\ halted = "no"
    /\ keys = <<>> /\ current = 0
    /\ tty_table = [c \in Console |-> [ibuf |-> <<>>, tty_procnr |-> NO_TASK,
                                       tty_left_cnt |-> 0, tty_trans_cnt |-> 0]]
    /\ tt = [at |-> "loop", nr |-> 0]
    /\ fs = [at |-> "loop", src |-> NO_TASK]
    /\ user = [u \in User |-> [call |-> "none", at |-> "user"]]
    /\ mem = [u \in User |-> <<>>]
    /\ line = [u \in User |-> <<>>] /\ overtaken = {}

-----------------------------------------------------------------------------
(* User processes: open, read and write of lib/ *)

UserCall(u, t, c) ==
    /\ user[u].at = "user"
    /\ \E n \in IF t = "READ" THEN 1..MaxRead ELSE {1} : MsgSend(u, FS, Msg(t, c, u, n))
    /\ user' = [user EXCEPT ![u] = [call |-> t, at |-> "sent"]]
    /\ UNCHANGED <<ttyVars, fs>>

UserReceive(u) ==
    /\ user[u].at = "sent"
    /\ MsgReceive(u, FS)
    /\ user' = [user EXCEPT ![u].at = "received"]
    /\ UNCHANGED <<ttyVars, fs>>

\* A MESSAGE is a local of open(), read() and write().
UserReturn(u) ==
    /\ user[u].at = "received" /\ Runnable(u)
    /\ user' = [user EXCEPT ![u] = [call |-> "none", at |-> "user"]]
    /\ buf' = [buf EXCEPT ![u] = [source |-> u, body |-> Nothing]]
    /\ mem' = [mem EXCEPT ![u] = <<>>]
    /\ line' = [line EXCEPT ![u] = <<>>]
    /\ UNCHANGED <<p_flags, p_sendto, p_recvfrom, p_msg, q_sending, has_int_msg,
                   halted, keys, current, tty_table, tt, overtaken, fs>>

-----------------------------------------------------------------------------
(* FS *)

FsStep(step) == fs' = [fs EXCEPT !.at = step] /\ UNCHANGED <<ttyVars, user>>

FsReceive == fs.at = "loop" /\ MsgReceive(FS, ANY) /\ FsStep("dispatch")

\* do_rdwt, do_open: the call of a process becomes a call of the driver.
DevType(t) == CASE t = "READ" -> "DEV_READ" [] t = "WRITE" -> "DEV_WRITE"
                [] t = "OPEN" -> "DEV_OPEN"

FsAsk ==
    /\ fs.at = "dispatch" /\ Runnable(FS) /\ buf[FS].body.type \in Call
    /\ LET m == buf[FS].body
       IN  MsgSend(FS, TTY, [m EXCEPT !.type = DevType(m.type)])
    /\ fs' = [at |-> "asked", src |-> buf[FS].source]
    /\ UNCHANGED <<ttyVars, user>>

FsAnswered == fs.at = "asked" /\ MsgReceive(FS, TTY) /\ FsStep("reply")

\* Seeded fault: the reply goes to the sender of RESUME_PROC.
ResumedSource == buf[FS].source

\* RESUME_PROC: the reply goes to the process that was suspended.
Resumed == buf[FS].body.PROC_NR

FsResume ==
    /\ fs.at = "dispatch" /\ Runnable(FS) /\ buf[FS].body.type = "RESUME_PROC"
    /\ fs' = [at |-> "reply", src |-> Resumed]
    /\ UNCHANGED <<ipcVars, ttyVars, user>>

\* Seeded fault: a suspended process is answered, too.
SuspendsNobody == FALSE

Suspends == buf[FS].body.type = "SUSPEND_PROC"

FsReply ==
    /\ fs.at = "reply" /\ Runnable(FS)
    /\ IF Suspends THEN UNCHANGED ipcVars
       ELSE MsgSend(FS, fs.src, Answer(buf[FS].body.CNT))
    /\ fs' = [at |-> "loop", src |-> NO_TASK]
    /\ UNCHANGED <<ttyVars, user>>

TaskFs == FsReceive \/ FsAsk \/ FsAnswered \/ FsResume \/ FsReply

-----------------------------------------------------------------------------
(* The keyboard: a key is pressed, and the clock informs TTY of it. *)

Press(k) ==
    /\ Len(keys) < MaxKeys
    /\ keys' = Append(keys, k)
    /\ UNCHANGED <<ipcVars, current, tty_table, tt, mem, line, overtaken, fs, user>>

Clock ==
    /\ keys # <<>> /\ ~has_int_msg[TTY]
    /\ InformInt(TTY)
    /\ UNCHANGED <<ttyVars, fs, user>>

-----------------------------------------------------------------------------
(* TTY: tty_dev_read and tty_dev_write of every TTY in turn *)

At(step) == tt.at = step /\ Runnable(TTY)
Goto(step) == tt' = [tt EXCEPT !.at = step]
This == tty_table[tt.nr]

\* From one TTY to the next, and to the RECEIVE behind the last one.
NextTty == IF tt.nr + 1 = NR_CONSOLES THEN [at |-> "receive", nr |-> 0]
           ELSE [at |-> "loop", nr |-> tt.nr + 1]

\* tty_dev_read: only the TTY that is shown reads the keyboard.
IsCurrentConsole == tt.nr = current
Reading == tt.at = "read" \/ (tt.at = "loop" /\ IsCurrentConsole)

\* select_console shows any of the consoles.
SelectConsole == current' \in Console

\* in_process and put_key; the rest of the keys go to the same TTY even if
\* one of them shows another.
InProcess ==
    /\ Reading /\ Runnable(TTY) /\ keys # <<>>
    /\ keys' = Tail(keys) /\ Goto("read")
    /\ LET k == Head(keys)
       IN  \/ /\ k = "shift Fn" /\ SelectConsole
              /\ UNCHANGED tty_table
           \/ /\ k # "shift Fn"
              /\ tty_table' = IF Len(This.ibuf) < TTY_IN_BYTES
                              THEN [tty_table EXCEPT ![tt.nr].ibuf = Append(@, k)]
                              ELSE tty_table
              /\ UNCHANGED current
    /\ UNCHANGED <<ipcVars, mem, line, overtaken, fs, user>>

ReadDone ==
    /\ At("loop") \/ At("read")
    /\ Reading => keys = <<>>
    /\ Goto("write")
    /\ UNCHANGED <<ipcVars, keys, current, tty_table, mem, line, overtaken, fs, user>>

\* What a line is when k is typed behind it.
Edited(l, k) == IF k \in Letter THEN Append(l, k)
                ELSE IF k = "BACKSPACE" /\ l # <<>> THEN Front(l) ELSE l

\* Seeded fault: a backspace at the start of a line counts, too.
CountBack(left, trans, k) ==
    IF k = "BACKSPACE" THEN [left |-> left + 1, trans |-> trans - 1]
    ELSE [left |-> left - 1, trans |-> trans + 1]

\* tty_left_cnt and tty_trans_cnt after a letter or a backspace.
Count(left, trans, k) ==
    IF k \in Letter THEN [left |-> left - 1, trans |-> trans + 1]
    ELSE IF k = "BACKSPACE" /\ trans > 0 THEN [left |-> left + 1, trans |-> trans - 1]
    ELSE [left |-> left, trans |-> trans]

PutAt(s, i, ch) == IF i <= Len(s) THEN [s EXCEPT ![i] = ch] ELSE Append(s, ch)

\* A key of the ring goes to the reader, who gets a letter in its buffer;
\* a newline or a full buffer ends the line.  Without a reader it is lost.
DevWrite ==
    /\ At("write") /\ This.ibuf # <<>>
    /\ LET k == Head(This.ibuf)
           n == Count(This.tty_left_cnt, This.tty_trans_cnt, k)
           r == This.tty_procnr
           served == This.tty_left_cnt > 0
       IN  /\ tty_table' = [tty_table EXCEPT ![tt.nr] =
                 IF served
                 THEN [This EXCEPT !.ibuf = Tail(This.ibuf), !.tty_left_cnt = n.left,
                                   !.tty_trans_cnt = n.trans]
                 ELSE [This EXCEPT !.ibuf = Tail(This.ibuf)]]
           /\ mem' = IF served /\ k \in Letter
                     THEN [mem EXCEPT ![r] = PutAt(@, This.tty_trans_cnt + 1, k)]
                     ELSE mem
           /\ line' = IF served THEN [line EXCEPT ![r] = Edited(@, k)] ELSE line
           /\ Goto(IF served /\ (k = "ENTER" \/ n.left = 0) THEN "resume" ELSE "write")
    /\ UNCHANGED <<ipcVars, keys, current, overtaken, fs, user>>

DevResume ==
    /\ At("resume")
    /\ MsgSend(TTY, FS, Msg("RESUME_PROC", 0, This.tty_procnr, This.tty_trans_cnt))
    /\ Goto("resumed")
    /\ UNCHANGED <<keys, current, tty_table, mem, line, overtaken, fs, user>>

DevResumed ==
    /\ At("resumed")
    /\ tty_table' = [tty_table EXCEPT ![tt.nr].tty_left_cnt = 0]
    /\ Goto("write")
    /\ UNCHANGED <<ipcVars, keys, current, mem, line, overtaken, fs, user>>

WriteDone ==
    /\ At("write") /\ This.ibuf = <<>>
    /\ tt' = NextTty
    /\ UNCHANGED <<ipcVars, keys, current, tty_table, mem, line, overtaken, fs, user>>

-----------------------------------------------------------------------------
(* TTY: messages *)

TtyReceive ==
    /\ tt.at = "receive" /\ MsgReceive(TTY, ANY) /\ Goto("dispatch")
    /\ UNCHANGED <<keys, current, tty_table, mem, line, overtaken, fs, user>>

TtyHardInt ==
    /\ At("dispatch") /\ buf[TTY].source = INTERRUPT
    /\ Goto("loop")
    /\ UNCHANGED <<ipcVars, keys, current, tty_table, mem, line, overtaken, fs, user>>

\* tty_do_read: whoever was waiting for this TTY is forgotten.
TtyDoRead ==
    /\ At("dispatch") /\ Is(TTY, "DEV_READ")
    /\ LET m == buf[TTY].body
           t == tty_table[m.DEVICE]
       IN  /\ tty_table' = [tty_table EXCEPT ![m.DEVICE] =
                 [@ EXCEPT !.tty_procnr = m.PROC_NR, !.tty_left_cnt = m.CNT,
                           !.tty_trans_cnt = 0]]
           /\ overtaken' = (overtaken \ {m.PROC_NR})
                           \cup (IF t.tty_left_cnt > 0 THEN {t.tty_procnr} ELSE {})
           /\ MsgSend(TTY, buf[TTY].source, [m EXCEPT !.type = "SUSPEND_PROC"])
    /\ Goto("loop")
    /\ UNCHANGED <<keys, current, mem, line, fs, user>>

\* tty_do_write and DEV_OPEN: nothing that a reader would notice.
TtyAnswer ==
    /\ At("dispatch") /\ (Is(TTY, "DEV_WRITE") \/ Is(TTY, "DEV_OPEN"))
    /\ MsgSend(TTY, buf[TTY].source, Answer(buf[TTY].body.CNT))
    /\ Goto("loop")
    /\ UNCHANGED <<keys, current, tty_table, mem, line, overtaken, fs, user>>

TaskTty ==
    \/ InProcess \/ ReadDone
    \/ DevWrite \/ DevResume \/ DevResumed \/ WriteDone
    \/ TtyReceive \/ TtyHardInt \/ TtyDoRead \/ TtyAnswer

Next ==
    \/ \E u \in User, t \in Call : \E c \in Opened[u] : UserCall(u, t, c)
    \/ \E u \in User : UserReceive(u) \/ UserReturn(u)
    \/ \E k \in Key : Press(k)
    \/ Clock \/ TaskFs \/ TaskTty

Spec == Init /\ [][Next]_vars
-----------------------------------------------------------------------------

\* The places where a call of u may be: on its way to TTY, waiting in a TTY,
\* and on its way back.
Got(t) == fs.at = "dispatch" /\ ~Receiving(FS) /\ Is(FS, t)
Asking(u) ==
    \/ Sending(u)
    \/ \E t \in Call : Got(t) /\ buf[FS].source = u
    \/ fs.src = u /\ (fs.at = "asked" \/ Receiving(FS))
Served(u) ==
    \E c \in Console : /\ tty_table[c].tty_procnr = u
                       /\ tty_table[c].tty_left_cnt > 0
                       /\ ~(tt.nr = c /\ tt.at \in {"resume", "resumed"})
Answering(u) ==
    \/ tt.at = "resume" /\ This.tty_procnr = u
    \/ Sending(TTY) /\ Is(TTY, "RESUME_PROC") /\ buf[TTY].body.PROC_NR = u
    \/ Got("RESUME_PROC") /\ buf[FS].body.PROC_NR = u
    \/ fs.at = "reply" /\ ~Receiving(FS) /\ fs.src = u /\ ~Suspends
    \/ Sending(FS) /\ p_sendto[FS] = u

(* A caller is never forgotten on the long way through FS and TTY and      *)
(* back, nor answered twice: its call is being asked for, or its read is   *)
(* served by a TTY, or it is being answered, and only one of these, for as *)
(* long as nobody else reads from its TTY; and whoever is in no call is    *)
(* in none of these places.                                                *)
CallersKept ==
    halted # "no" \/
    \A u \in User \ overtaken :
        IF user[u].at = "user" \/ (user[u].at = "received" /\ Runnable(u))
        THEN ~Asking(u) /\ ~Served(u) /\ ~Answering(u)
        ELSE /\ Asking(u) \/ Served(u) \/ Answering(u)
             /\ Answering(u) => ~Asking(u)
             /\ Served(u) => user[u].call = "READ" /\ ~Answering(u)

(* What a READ returns is the line that was typed for this process since   *)
(* it asked, with the backspaces applied, whatever became of the reads of  *)
(* others in between, and not longer than it asked for.                    *)
LineExact ==
    \A u \in User :
        (user[u] = [call |-> "READ", at |-> "received"] /\ Runnable(u)) =>
            /\ buf[u].body.CNT = Len(line[u])
            /\ buf[u].body.CNT <= Len(mem[u])
            /\ SubSeq(mem[u], 1, buf[u].body.CNT) = line[u]

(* FS and TTY call each other.  The kernel stops only when TTY resumes a   *)
(* reader while FS asks it for something: the panic of msg_send, and never *)
(* on an assertion.                                                        *)
StopsOnlyOnCrossing ==
    halted = "no" \/ (halted = "deadlock" /\ tt.at = "resumed" /\ fs.at = "asked")
-----------------------------------------------------------------------------
(* The inductive invariant of the proofs in TtyProof.  While the kernel    *)
(* runs, it says of every process where it is in its call, and of FS, TTY  *)
(* and each terminal whose call they have.                                 *)
TtyTypeOK ==
    /\ keys \in Seq(Key) /\ current \in Console
    /\ tty_table \in [Console -> [ibuf : Seq(Key \ {"shift Fn"}), tty_procnr : User \cup {NO_TASK},
                                  tty_left_cnt : 0..MaxRead, tty_trans_cnt : 0..MaxRead]]
    /\ tt \in [at : {"loop", "read", "write", "resume", "resumed", "receive", "dispatch"},
               nr : Console]
    /\ fs \in [at : {"loop", "dispatch", "asked", "reply"}, src : User \cup {NO_TASK}]
    /\ user \in [User -> [call : Call \cup {"none"}, at : {"user", "sent", "received"}]]
    /\ mem \in [User -> Seq(Letter)] /\ line \in [User -> Seq(Letter)]
    /\ overtaken \subseteq User

Ready(p)        == p_flags[p] = {}
SendsTo(p, d)   == Sending(p) /\ p_sendto[p] = d
Awaiting(p, src) == Receiving(p) /\ p_recvfrom[p] = src

\* A call of u that has left it and is not answered.
Pending(u) == \/ user[u].at = "sent" /\ Ready(u)
              \/ user[u].at = "received" /\ Awaiting(u, FS)

\* What u has asked for, as a message of type t.
Asks(u, t, m) ==
    m \in Mail /\ m.type = t /\ m.PROC_NR = u /\ m.CNT > 0
Request(u, msg) == msg.source = u /\ Asks(u, user[u].call, msg.body)

\* The first n characters in the buffer of u are its line.
Read(u, n) ==
    n = Len(line[u]) /\ n <= Len(mem[u]) /\ SubSeq(mem[u], 1, n) = line[u]
\* An answer m that returns to u what was typed for it, if it reads.
Returns(u, m) == m \in Mail /\ (user[u].call = "READ" => Read(u, m.CNT))

UserOK(u) ==
    /\ user[u].at = "user" <=> user[u].call = "none"
    /\ CASE user[u].at = "user"     -> Ready(u) /\ line[u] = <<>>
         [] user[u].at = "sent"     ->
               Ready(u) \/ (SendsTo(u, FS) /\ Request(u, buf[u]) /\ line[u] = <<>>)
         [] user[u].at = "received" ->
               (Ready(u) /\ Returns(u, buf[u].body)) \/ Awaiting(u, FS)

\* FS has got the request of u, or TTY's order to let u go on.
Requested(u) == Request(u, buf[FS]) /\ line[u] = <<>>
Resuming(u, msg) ==
    /\ msg.source = TTY /\ msg.body \in Mail /\ msg.body.type = "RESUME_PROC"
    /\ msg.body.PROC_NR = u /\ user[u].call = "READ" /\ Returns(u, msg.body)

\* FS asks TTY for u.
DevAsks(u, msg) ==
    msg.source = FS /\ Asks(u, DevType(user[u].call), msg.body) /\ line[u] = <<>>
\* TTY answers FS.
Answers(u, msg) ==
    /\ msg.source = TTY /\ msg.body \in Mail
    /\ \/ msg.body.type = "SUSPEND_PROC"
       \/ msg.body.type = "SYSCALL_RET" /\ user[u].call # "READ"

FsLoop ==
    /\ fs = [at |-> "loop", src |-> NO_TASK]
    /\ Ready(FS) \/ \E u \in User : SendsTo(FS, u) /\ Returns(u, buf[FS].body)
FsDispatch ==
    /\ fs = [at |-> "dispatch", src |-> NO_TASK]
    /\ \/ Awaiting(FS, ANY)
       \/ Ready(FS) /\ \E u \in User : Requested(u) \/ Resuming(u, buf[FS])

\* The request for u is at TTY, or answered.
AtTty(u) ==
    \/ tt.at = "dispatch" /\ Ready(TTY) /\ DevAsks(u, buf[TTY])
    \/ tt.at = "loop" /\ SendsTo(TTY, FS) /\ Answers(u, buf[TTY])
FsWaits == \/ fs.at = "asked" /\ Ready(FS)
           \/ fs.at = "reply" /\ Awaiting(FS, TTY)
FsAsked ==
    /\ fs.src \in User
    /\ \/ fs.at = "asked" /\ SendsTo(FS, TTY) /\ DevAsks(fs.src, buf[FS])
       \/ FsWaits /\ AtTty(fs.src)
FsReplies ==
    /\ fs.at = "reply" /\ fs.src \in User /\ Ready(FS)
    /\ Answers(fs.src, buf[FS]) \/ Resuming(fs.src, buf[FS])

FsOK == FsLoop \/ FsDispatch \/ FsAsked \/ FsReplies

TtyOK ==
    \/ Ready(TTY) /\ (tt.at = "dispatch" =>
            buf[TTY].source = INTERRUPT \/ (buf[TTY].source = FS /\ FsWaits))
    \/ tt.at = "dispatch" /\ Awaiting(TTY, ANY)
    \/ tt.at = "loop" /\ SendsTo(TTY, FS) /\ FsWaits
    \/ /\ tt.at = "resumed" /\ SendsTo(TTY, FS)
       /\ \E u \in User : Resuming(u, buf[TTY])

\* Whose call FS, TTY and the terminals have.
Suspending ==
    \/ fs.at = "reply" /\ Ready(FS) /\ Suspends
    \/ fs.at = "asked" /\ Sending(TTY) /\ buf[TTY].body.type = "SUSPEND_PROC"
FsHas ==
    CASE fs.at = "dispatch" /\ Ready(FS) ->
            IF buf[FS].source = TTY THEN Resumed ELSE buf[FS].source
      [] fs.at \in {"asked", "reply"} /\ ~Suspending -> fs.src
      [] fs.at = "loop" /\ Sending(FS) -> p_sendto[FS]
      [] OTHER -> NO_TASK
TtyHas ==
    CASE tt.at = "resume" -> This.tty_procnr
      [] tt.at = "resumed" /\ Sending(TTY) -> buf[TTY].body.PROC_NR
      [] OTHER -> NO_TASK
Serves(c) == tty_table[c].tty_left_cnt > 0 /\ ~(tt.nr = c /\ tt.at \in {"resume", "resumed"})
TermHas(c) == IF Serves(c) THEN tty_table[c].tty_procnr ELSE NO_TASK

Held(u) == FsHas = u \/ TtyHas = u \/ \E c \in Console : TermHas(c) = u
PlaceOK(u) ==
    /\ Held(u) \/ fs.src = u => Pending(u)
    /\ Pending(u) /\ u \notin overtaken => Held(u)
    /\ ~(FsHas = u /\ TtyHas = u)
    /\ \A c \in Console : TermHas(c) = u =>
          /\ FsHas # u /\ TtyHas # u
          /\ \A d \in Console \ {c} : TermHas(d) # u

LinesOK ==
    /\ \A c \in Console :
          LET t == tty_table[c]
          IN  Serves(c) => /\ t.tty_procnr \in User /\ user[t.tty_procnr].call = "READ"
                           /\ Read(t.tty_procnr, t.tty_trans_cnt)
                           /\ t.tty_left_cnt + t.tty_trans_cnt <= MaxRead
    /\ tt.at = "resume" => /\ This.tty_procnr \in User /\ user[This.tty_procnr].call = "READ"
                           /\ Read(This.tty_procnr, This.tty_trans_cnt)

Working ==
    /\ \A p \in Proc \ {TTY} : ~has_int_msg[p]
    /\ \A u \in User : UserOK(u) /\ PlaceOK(u)
    /\ FsOK /\ TtyOK /\ LinesOK

TtyInv ==
    IpcInv /\ TtyTypeOK /\ StopsOnlyOnCrossing /\ (halted = "no" => Working)
=============================================================================
