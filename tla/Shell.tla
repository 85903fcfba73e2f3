------------------------------- MODULE Shell -------------------------------
(***************************************************************************)
(* The shell of one terminal and the programs it runs (kernel/main.c,      *)
(* lib/exec.c, mm/exec.c): a line is split at blanks and at "&", each      *)
(* command is checked against the parity that untar recorded for its file  *)
(* and executed by a child, for which the shell waits.                     *)
(*                                                                         *)
(* Data: all words are of one length, so that the k-th word of a line      *)
(* stands in the k-th cell of rdbuf, closed by its 0.  Of the contents of  *)
(* a file only matters whether it is the extracted one, a change of it     *)
(* that keeps the parity, or a change that does not.                       *)
(***************************************************************************)
EXTENDS Integers, SequencesExt

CONSTANTS
    Program,         \* the files of cmd.tar, in their order
    Text,            \* files that exist and have no record in the file check
    Line,            \* the lines that a user may type: sequences of words
    MAX_SHELL_PROC,
    Cells,           \* bound: words of a line
    MaxProcs,        \* bound: processes of the terminal
    MaxLines         \* bound: lines typed

ASSUME ShellAssumption ==
    /\ Program \in Seq(ToSet(Program)) /\ IsInjective(Program)
    /\ ToSet(Program) \cap (Text \cup {"set", "&", ""}) = {}
    /\ \A l \in Line : Len(l) <= Cells

ASSUME BoundAssumption ==
    MAX_SHELL_PROC \in Nat \ {0} /\ MaxProcs \in Nat \ {0} /\ MaxLines \in Nat \ {0}

VARIABLES
    boot,      \* how far untar is, and with which file
    marked,    \* whether the first byte of cmd.tar is 0
    content,   \* per program: the file
    check,     \* per program: the parity recorded in the file check
    proc,      \* the processes of the terminal
    lines,     \* history: how many lines were typed
    typed,     \* history: the commands of the last line, as typed
    longest,   \* history: the most words typed so far as the i-th command
    started    \* history: line and number of the last command that was executed

bootVars == <<boot, marked>>
fileVars == <<content, check>>
history  == <<lines, typed, longest, started>>
vars     == <<bootVars, fileVars, proc, history>>

File  == ToSet(Program)
Pid   == 1..MaxProcs
Slot  == 0..(MAX_SHELL_PROC - 1)
Null  == -1        \* for the number of a cell: a pointer that is 0,
Wild  == -2        \* and one that was never set
Free  == [at |-> "free"]

\* calculate_even_parity over a file.
Parity(c) == IF c = "changed" THEN 1 ELSE 0

At(p, step)   == boot.at = "up" /\ proc[p].at = step
Goto(p, step) == proc' = [proc EXCEPT ![p].at = step]

Init ==
    /\ boot = [at |-> "extract", k |-> 1] /\ marked = FALSE
    /\ content = [f \in File |-> "none"] /\ check = [f \in File |-> -1]
    /\ proc = [p \in Pid |-> Free]
    /\ lines = 0 /\ typed = <<>> /\ longest = [i \in Slot |-> 0]
    /\ started = <<0, 0>>

-----------------------------------------------------------------------------
(* untar, which does nothing once cmd.tar is marked; the power may fail *)

Extract ==
    /\ boot.at = "extract" /\ ~marked /\ boot.k <= Len(Program)
    /\ content' = [content EXCEPT ![Program[boot.k]] = "extracted"]
    /\ boot' = [boot EXCEPT !.at = "record"]
    /\ UNCHANGED <<marked, check, proc, history>>

\* The parity is that of the file as it can be read back.
Record ==
    /\ boot.at = "record"
    /\ check' = [check EXCEPT ![Program[boot.k]] = Parity(content[Program[boot.k]])]
    /\ boot' = [at |-> "extract", k |-> boot.k + 1]
    /\ UNCHANGED <<marked, content, proc, history>>

Mark ==
    /\ boot.at = "extract" /\ boot.k > Len(Program) /\ ~marked
    /\ marked' = TRUE
    /\ UNCHANGED <<boot, fileVars, proc, history>>

\* shabby_shell begins; nobody sets the pointers of multi_argv.
NewShell(ptr) ==
    [at |-> "prompt", parent |-> 0, rdbuf |-> [k \in 0..Cells |-> ""],
     multi_argv |-> [i \in Slot |-> [j \in 0..Cells |-> ptr]],
     num_proc |-> 0, i |-> 0, line |-> 0, wild |-> ptr = Wild,
     args |-> <<>>, image |-> "none", unchanged |-> TRUE]

\* Init forks the shell when untar has returned.
Start ==
    /\ boot.at = "extract" /\ marked
    /\ boot' = [boot EXCEPT !.at = "up"]
    /\ \E ptr \in {Null, Wild} : proc' = [proc EXCEPT ![1] = NewShell(ptr)]
    /\ UNCHANGED <<marked, fileVars, history>>

\* init_fs calls mkfs at every boot: cmd.tar keeps its sectors and with them
\* the mark, all other files are gone.
PowerFails ==
    /\ boot' = [at |-> "extract", k |-> 1]
    /\ content' = [f \in File |-> "none"] /\ check' = [f \in File |-> -1]
    /\ proc' = [p \in Pid |-> Free]
    /\ longest' = [i \in Slot |-> 0] /\ typed' = <<>>
    /\ UNCHANGED <<marked, lines, started>>

-----------------------------------------------------------------------------
(* The shell: a line, and its commands *)

\* The commands of a line, as the user meant them.
Commands(l) ==
    FoldLeft(LAMBDA cs, w : IF w = "&" THEN Append(cs, <<>>)
                            ELSE [cs EXCEPT ![Len(cs)] = Append(@, w)],
             << <<>> >>, l)

\* Seeded fault: a command that "&" ends gets no 0 behind its words.
NotTerminated(argv, n) == argv

Terminated(argv, n) == [argv EXCEPT ![n] = Null]

\* The words of l into multi_argv: pointers to cells of rdbuf, and a 0 only
\* in front of an "&"; too many commands stop it.
Filled(m, l) ==
    FoldLeft(LAMBDA s, k :
                IF s.i = MAX_SHELL_PROC THEN s
                ELSE IF l[k] = "&"
                THEN [m |-> [s.m EXCEPT ![s.i] = Terminated(@, s.n)], i |-> s.i + 1, n |-> 0]
                ELSE [s EXCEPT !.m[s.i][s.n] = k - 1, !.n = @ + 1],
             [m |-> m, i |-> 0, n |-> 0], [k \in 1..Len(l) |-> k])

\* The buffer after a read: behind the 0 that ends the line stands what was.
Buffer(rdbuf, l) ==
    [k \in 0..Cells |-> IF k < Len(l) THEN l[k + 1]
                        ELSE IF l = <<>> /\ k = 0 THEN "" ELSE rdbuf[k]]

\* A shell whose last line is l; if it has too many commands, it asks anew.
WithLine(s, l) ==
    LET f == Filled(s.multi_argv, l)
    IN  [s EXCEPT !.at = IF f.i < MAX_SHELL_PROC THEN "run" ELSE "prompt",
                  !.rdbuf = Buffer(@, l), !.multi_argv = f.m,
                  !.num_proc = f.i + 1, !.i = 0, !.line = lines + 1]

ReadLine(p, l) ==
    /\ At(p, "prompt") /\ lines < MaxLines
    /\ proc' = [proc EXCEPT ![p] = WithLine(@, l)]
    /\ LET cs == Commands(l)
       IN  /\ typed' = cs
           /\ longest' = [i \in Slot |->
                  IF i < Len(cs) THEN Max({longest[i], Len(cs[i + 1])}) ELSE longest[i]]
    /\ lines' = lines + 1
    /\ UNCHANGED <<bootVars, fileVars, started>>

\* What a pointer of p points to.
Word(s, ptr) == IF ptr >= 0 THEN s.rdbuf[ptr] ELSE "?"
Name(s) == Word(s, s.multi_argv[s.i][0])

\* What execv passes on: the words up to the first 0.
Args(s) ==
    LET argv == s.multi_argv[s.i]
        ends == {j \in 0..Cells : argv[j] = Null}
        n    == IF ends = {} THEN Cells + 1 ELSE Min(ends)
    IN  [j \in 1..n |-> Word(s, argv[j - 1])]

Exists(f) == f \in Text \/ (f \in File /\ content[f] # "none")
Running(p) == At(p, "run") /\ proc[p].i < proc[p].num_proc
NextCommand(s) == [s EXCEPT !.at = "run", !.i = @ + 1]

LineDone(p) ==
    /\ At(p, "run") /\ proc[p].i = proc[p].num_proc
    /\ Goto(p, "prompt")
    /\ UNCHANGED <<bootVars, fileVars, history>>

\* "set" is for the shell itself, and a name that open refuses for nobody.
Skip(p) ==
    /\ Running(p) /\ ~Exists(Name(proc[p]))
    /\ proc' = [proc EXCEPT ![p] = NextCommand(@)]
    /\ UNCHANGED <<bootVars, fileVars, history>>

\* open of a pointer that is 0 or was never set: strlen counts up to some 0,
\* and FS asserts that a name is not too long.
WildName(p) ==
    /\ Running(p) /\ proc[p].multi_argv[proc[p].i][0] < 0
    /\ boot' = [boot EXCEPT !.at = "halted"]
    /\ UNCHANGED <<marked, fileVars, proc, history>>

Fork(p) ==
    /\ Running(p) /\ Exists(Name(proc[p]))
    /\ LET free == {q \in Pid : proc[q] = Free}
       IN  \/ /\ free # {}
              /\ proc' = [proc EXCEPT ![Min(free)] = [proc[p] EXCEPT !.at = "child", !.parent = p],
                                      ![p].at = "wait"]
           \/ free = {} /\ Goto(p, "asserted")     \* fork() asserts, and the shell spins
    /\ UNCHANGED <<bootVars, fileVars, history>>

-----------------------------------------------------------------------------
(* The child: check_valid, execv; the program *)

\* Seeded fault: whatever has a record is valid.
HasRecord(f) == f \in File /\ check[f] # -1

CheckValid(f) == f \in File /\ check[f] # -1 /\ content[f] # "none"
                 /\ Parity(content[f]) = check[f]

\* A child that may not execute goes on behind the if, as a shell.
Child(p) ==
    /\ At(p, "child")
    /\ proc' = [proc EXCEPT ![p] = IF CheckValid(Name(@))
                                   THEN [@ EXCEPT !.at = "exec", !.unchanged = TRUE]
                                   ELSE NextCommand(@)]
    /\ UNCHANGED <<bootVars, fileVars, history>>

\* do_exec reads the file once more, and returns if it is gone.
Exec(p) ==
    /\ At(p, "exec")
    /\ LET f == Name(proc[p])
       IN  \/ /\ content[f] = "none"
              /\ proc' = [proc EXCEPT ![p] = NextCommand(@)]
              /\ UNCHANGED started
           \/ /\ content[f] # "none"
              /\ proc' = [proc EXCEPT ![p] = [@ EXCEPT !.at = "program", !.args = Args(proc[p]),
                                                       !.image = content[f]]]
              /\ started' = <<proc[p].line, proc[p].i>>
    /\ UNCHANGED <<bootVars, fileVars, lines, typed, longest>>

\* A program, here or at another terminal, writes or removes a file.
Modify(f) ==
    /\ boot.at = "up" /\ content[f] # "none"
    /\ content' \in {[content EXCEPT ![f] = c] : c \in {"none", "alike", "changed"}}
    /\ proc' = [p \in Pid |-> IF proc[p].at = "exec" THEN [proc[p] EXCEPT !.unchanged = FALSE]
                               ELSE proc[p]]
    /\ UNCHANGED <<bootVars, check, history>>

\* Seeded faults: an exit wakes nobody; wait() returns at once.
WakesNobody(p) == FALSE
NeverSleeps(p) == FALSE

\* Whether the parent of p waits: cleanup of MM ends its wait.
Wakes(p) == proc[proc[p].parent].at = "waiting"

Exit(p) ==
    /\ At(p, "program")
    /\ proc' = IF Wakes(p)
               THEN [proc EXCEPT ![p] = Free, ![proc[p].parent] = NextCommand(@)]
               ELSE [proc EXCEPT ![p].at = "zombie"]
    /\ UNCHANGED <<bootVars, fileVars, history>>

\* kill, from another terminal: SYS sets p_flags and does not tell MM.
Kill(p) ==
    /\ At(p, "program") /\ Goto(p, "killed")
    /\ UNCHANGED <<bootVars, fileVars, history>>

\* The children that wait() finds HANGING.
Ended(p) == {q \in Pid : proc[q].at \in {"zombie", "killed"} /\ proc[q].parent = p}

Reaped(p) == IF Ended(p) = {} THEN {} ELSE {Min(Ended(p))}

Sleeps(p) == Ended(p) = {}

Wait(p) ==
    /\ At(p, "wait")
    /\ IF Sleeps(p) THEN Goto(p, "waiting")
       ELSE proc' = [q \in Pid |-> IF q = p THEN NextCommand(proc[p])
                                  ELSE IF q \in Reaped(p) THEN Free ELSE proc[q]]
    /\ UNCHANGED <<bootVars, fileVars, history>>

-----------------------------------------------------------------------------
ShellStep(p) == LineDone(p) \/ Skip(p) \/ Fork(p) \/ Child(p) \/ Exec(p) \/ Wait(p)

Next ==
    \/ Extract \/ Record \/ Mark \/ Start \/ PowerFails
    \/ \E p \in Pid : ShellStep(p) \/ Exit(p) \/ Kill(p) \/ WildName(p)
    \/ \E p \in Pid, l \in Line : ReadLine(p, l)
    \/ \E f \in File : Modify(f)

\* The processes are scheduled, and programs end.
Fairness == \A p \in Pid : WF_vars(ShellStep(p)) /\ WF_vars(Exit(p))

Spec == Init /\ [][Next]_vars /\ Fairness
-----------------------------------------------------------------------------

\* Nothing was ever stored behind the words of the i-th command.
Fresh(p, i) == ~proc[p].wild /\ longest[i] <= Len(typed[i + 1])

(* A program gets the words that were typed for it, and these alone if an  *)
(* "&" ends the command, or if no longer command was typed in its place    *)
(* since the shell began on clean memory.                                  *)
ArgsExact ==
    \A p \in Pid : At(p, "program") =>
        LET i == proc[p].i
            w == typed[i + 1]
        IN  /\ IsPrefix(w, proc[p].args)
            /\ i + 1 < Len(typed) \/ Fresh(p, i) => proc[p].args = w

(* Whatever children fail to execute and go on as shells, every command of *)
(* a line is executed at most once, and the commands in their order.       *)
RunOnce ==
    [][ started' # started =>
          \/ started'[1] > started[1]
          \/ started'[1] = started[1] /\ started'[2] > started[2] ]_vars

(* Only one process of the terminal is not waiting for another, so that    *)
(* never two of them read from it: a shell and a program, or two shells.   *)
OneForeground ==
    Cardinality({p \in Pid : proc[p].at \notin
                    {"free", "wait", "waiting", "zombie", "killed"}}) <= 1

(* What is executed has the parity of the file that was extracted, however *)
(* often the power failed under untar; unless the file was changed behind  *)
(* the back of check_valid before do_exec read it.                         *)
ChecksHold ==
    \A p \in Pid : At(p, "program") /\ proc[p].unchanged =>
        Parity(proc[p].image) = Parity("extracted")

(* "need not unpack the file." (main.c:232): whenever a shell starts, the   *)
(* files of cmd.tar have been extracted and their parities recorded.       *)
Unpacked == boot.at = "up" => \A f \in File : check[f] # -1

\* A shell waits for a child that was killed meanwhile.
KilledUnseen ==
    \E p, q \in Pid : At(p, "waiting") /\ At(q, "killed") /\ proc[q].parent = p

(* The terminal gets its prompt back, or the power fails, or a wild name   *)
(* stops FS; or kill hits what a shell waits for, or so many children went *)
(* on as shells that there is no slot for another.                         *)
PromptReturns ==
    boot.at = "up" ~> \/ boot.at # "up"
                      \/ \E p \in Pid : At(p, "prompt") \/ At(p, "asserted")
                      \/ KilledUnseen
-----------------------------------------------------------------------------
(* The inductive invariant of the proofs in ShellProof.                    *)
Fields == {"at", "parent", "rdbuf", "multi_argv", "num_proc", "i", "line", "wild",
           "args", "image", "unchanged"}
Forked == {"child", "exec", "program", "zombie", "killed"}
Asleep == {"wait", "waiting"}

ShellTypeOK ==
    /\ boot = [at |-> boot.at, k |-> boot.k]
    /\ boot.at \in {"extract", "record", "up", "halted"} /\ boot.k \in Nat \ {0}
    /\ boot.at = "record" => boot.k <= Len(Program)
    /\ content \in [File -> {"none", "extracted", "alike", "changed"}]
    /\ check \in [File -> {-1, 0}]
    /\ lines \in Nat /\ started \in Nat \X Nat /\ started[1] <= lines
    /\ proc = [p \in Pid |-> proc[p]]
    /\ \A p \in Pid :
          \/ proc[p] = Free
          \/ /\ Fields \subseteq DOMAIN proc[p]
             /\ proc[p].at \in {"prompt", "run", "asserted"} \cup Asleep \cup Forked
             /\ proc[p].i \in Nat /\ proc[p].line \in Nat /\ proc[p].line <= lines

\* The processes of a terminal are 1..n, each the child of the one before it,
\* and all but the last wait.
Chained(n) ==
    /\ boot.at \in {"extract", "record"} => n = 0
    /\ \A p \in Pid : /\ proc[p] = Free <=> p > n
                      /\ p <= n => proc[p].parent = p - 1
                      /\ proc[p].at \in Asleep <=> p < n

Chain == \E n \in 0..MaxProcs : Chained(n)

\* The last command that was executed comes before the one that p is at; a
\* child is at the command of its parent.
Before(last, s) == last[1] < s.line \/ (last[1] = s.line /\ last[2] < s.i)
UpTo(last, s)   == last[1] < s.line \/ (last[1] = s.line /\ last[2] <= s.i)

CommandInv ==
    \A p \in Pid :
        /\ proc[p].at \in Forked =>
              p > 1 /\ proc[p].line = proc[p - 1].line /\ proc[p].i = proc[p - 1].i
        /\ proc[p].at \in {"run", "child", "exec"} => Before(started, proc[p])
        /\ proc[p].at \in {"program", "zombie", "killed"} => UpTo(started, proc[p])

\* What check_valid accepted still has its parity, until it is changed.
FileInv ==
    /\ boot.at = "record" => content[Program[boot.k]] = "extracted"
    /\ \A p \in Pid :
          /\ proc[p].at = "exec" =>
                /\ Name(proc[p]) \in File
                /\ proc[p].unchanged => Parity(content[Name(proc[p])]) = 0
          /\ proc[p].at = "program" /\ proc[p].unchanged => Parity(proc[p].image) = 0

ShellInv == ShellTypeOK /\ Chain /\ CommandInv /\ FileInv
=============================================================================
