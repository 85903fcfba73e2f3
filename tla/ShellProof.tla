----------------------------- MODULE ShellProof -----------------------------
(***************************************************************************)
(* The shell for any number of programs, lines, commands and processes:    *)
(* one process of a terminal is in the foreground, every command is        *)
(* executed at most once, and what is executed has the recorded parity.    *)
(***************************************************************************)
EXTENDS Shell, SequenceTheorems, FiniteSetTheorems, TLAPS

USE DEF Pid, Free, Null, Wild

LEMMA ShellInitial == Init => ShellInv
<1> SUFFICES ASSUME Init PROVE ShellInv
    OBVIOUS
<1>1. ShellTypeOK
    BY DEF Init, ShellTypeOK
<1>2. Chain
    <2>1. Chained(0)
        <3>1. \A p \in Pid : p > 0 /\ proc[p] = Free /\ proc[p].at \notin Asleep
            BY BoundAssumption DEF Init, Asleep
        <3>2. \A p \in Pid : ~(p <= 0) /\ ~(p < 0)
            BY BoundAssumption
        <3> QED  BY <3>1, <3>2 DEF Chained
    <2> QED  BY <2>1, BoundAssumption DEF Chain
<1>3. CommandInv
    BY DEF Init, CommandInv, Forked
<1>4. FileInv
    BY DEF Init, FileInv
<1> QED  BY <1>1, <1>2, <1>3, <1>4 DEF ShellInv

-----------------------------------------------------------------------------
\* A process that is neither asleep nor free is the last of the chain, and
\* the others are asleep or free.
LEMMA LastOfChain ==
    ASSUME ShellTypeOK, Chain, NEW p \in Pid, proc[p].at \notin Asleep \cup {"free"}
    PROVE  /\ Chained(p)
           /\ boot.at \in {"up", "halted"}
           /\ \A q \in Pid \ {p} : proc[q].at \in Asleep \cup {"free"}
<1>1. PICK n \in 0..MaxProcs : Chained(n)
    BY DEF Chain
<1>2. MaxProcs \in Nat /\ p \in Nat /\ n \in Nat
    BY BoundAssumption
<1>3. proc[p] # Free
    OBVIOUS
<1>4. p = n
    <2>1. ~(p > n) /\ ~(p < n)
        BY <1>1, <1>3 DEF Chained
    <2> QED  BY <1>2, <2>1
<1>5. \A q \in Pid \ {p} : proc[q] = Free \/ proc[q].at \in Asleep
    BY <1>1, <1>2, <1>4 DEF Chained
<1> QED  BY <1>1, <1>2, <1>4, <1>5 DEF Chained, ShellTypeOK

\* What the assignments to a process leave of it.
LEMMA GotoKeeps ==
    ASSUME NEW s, Fields \subseteq DOMAIN s, NEW a
    PROVE  LET r == [s EXCEPT !.at = a]
           IN  /\ DOMAIN r = DOMAIN s /\ r.at = a
               /\ r.i = s.i /\ r.line = s.line /\ r.parent = s.parent
               /\ r.rdbuf = s.rdbuf /\ r.multi_argv = s.multi_argv
               /\ r.unchanged = s.unchanged /\ r.image = s.image
BY DEF Fields

LEMMA NextCommandKeeps ==
    ASSUME NEW s, Fields \subseteq DOMAIN s
    PROVE  LET r == NextCommand(s)
           IN  /\ DOMAIN r = DOMAIN s /\ r.at = "run"
               /\ r.i = s.i + 1 /\ r.line = s.line /\ r.parent = s.parent
BY DEF Fields, NextCommand

\* The last process of the chain goes on as r, which is as it should be.
GoesOn(p, r) ==
    /\ proc[p].at \notin Asleep \cup {"free"}
    /\ proc' = [proc EXCEPT ![p] = r]
    /\ UNCHANGED <<boot, content, check>>
    /\ lines' \in Nat /\ lines <= lines'
    /\ started' \in Nat \X Nat /\ started'[1] <= lines'
    /\ Fields \subseteq DOMAIN r
    /\ r.at \in {"prompt", "run", "asserted"} \cup Forked
    /\ r.i \in Nat /\ r.line \in Nat /\ r.line <= lines'
    /\ r.parent = proc[p].parent
    /\ r.at \in Forked => /\ proc[p].at \in Forked
                          /\ r.line = proc[p].line /\ r.i = proc[p].i
    /\ r.at \in {"run", "child", "exec"} => Before(started', r)
    /\ r.at \in {"program", "zombie", "killed"} => UpTo(started', r)
    /\ r.at = "exec" => /\ Name(r) \in File
                        /\ r.unchanged => Parity(content[Name(r)]) = 0
    /\ r.at = "program" /\ r.unchanged => Parity(r.image) = 0

LEMMA LastStep ==
    ASSUME ShellInv, NEW p \in Pid, NEW r, GoesOn(p, r)
    PROVE  ShellInv'
<1> USE DEF ShellInv, GoesOn
<1>1. /\ Chained(p) /\ boot.at \in {"up", "halted"}
      /\ \A q \in Pid \ {p} : proc[q].at \in Asleep \cup {"free"}
    BY LastOfChain
<1>2. proc'[p] = r /\ \A q \in Pid \ {p} : proc'[q] = proc[q]
    BY DEF ShellTypeOK
<1>3. r # Free /\ r.at \notin Asleep /\ proc[p] # Free
    BY DEF Asleep, Forked
<1>4. ShellTypeOK'
    <2>1. proc' = [q \in Pid |-> proc'[q]]
        BY DEF ShellTypeOK
    <2>2. ASSUME NEW q \in Pid
          PROVE  \/ proc'[q] = Free
                 \/ /\ Fields \subseteq DOMAIN proc'[q]
                    /\ proc'[q].at \in {"prompt", "run", "asserted"} \cup Asleep \cup Forked
                    /\ proc'[q].i \in Nat /\ proc'[q].line \in Nat /\ proc'[q].line <= lines'
        <3>1. CASE q = p
            BY <1>2, <3>1
        <3>2. CASE q # p
            BY <1>2, <3>2 DEF ShellTypeOK
        <3> QED  BY <3>1, <3>2
    <2> QED  BY <2>1, <2>2 DEF ShellTypeOK
<1>5. Chain'
    <2>1. Chained(p)'
        BY <1>1, <1>2, <1>3 DEF Chained
    <2> QED  BY <2>1, BoundAssumption DEF Chain
<1>6. CommandInv'
    <2> SUFFICES ASSUME NEW q \in Pid
                 PROVE  /\ proc'[q].at \in Forked =>
                             /\ q > 1 /\ proc'[q].line = proc'[q - 1].line
                             /\ proc'[q].i = proc'[q - 1].i
                        /\ proc'[q].at \in {"run", "child", "exec"} => Before(started', proc'[q])
                        /\ proc'[q].at \in {"program", "zombie", "killed"} => UpTo(started', proc'[q])
        BY DEF CommandInv
    <2>1. CASE q = p
        <3>1. q > 1 => q - 1 \in Pid \ {p}
            BY <2>1, BoundAssumption
        <3>2. r.at \in Forked => /\ p > 1 /\ proc[p].line = proc[p - 1].line
                                 /\ proc[p].i = proc[p - 1].i
            BY DEF CommandInv
        <3> QED  BY <1>2, <2>1, <3>1, <3>2
    <2>2. CASE q # p
        BY <1>1, <1>2, <2>2 DEF Asleep, Forked
    <2> QED  BY <2>1, <2>2
<1>7. FileInv'
    <2>1. \A q \in Pid \ {p} : proc'[q].at \notin {"exec", "program"}
        BY <1>1, <1>2 DEF Asleep
    <2>2. /\ proc'[p].at = "exec" => /\ Name(proc'[p]) \in File
                                     /\ proc'[p].unchanged => Parity(content'[Name(proc'[p])]) = 0
          /\ proc'[p].at = "program" /\ proc'[p].unchanged => Parity(proc'[p].image) = 0
        BY <1>2
    <2>3. boot'.at # "record"
        BY <1>1
    <2> QED  BY <2>1, <2>2, <2>3 DEF FileInv, Name, Word
<1> QED  BY <1>4, <1>5, <1>6, <1>7

-----------------------------------------------------------------------------
(* The steps of the last process of the chain that leave the chain alone.  *)

LEMMA RecordOf ==
    ASSUME ShellInv, NEW p \in Pid, proc[p].at # "free"
    PROVE  /\ Fields \subseteq DOMAIN proc[p]
           /\ proc[p].at \in {"prompt", "run", "asserted"} \cup Asleep \cup Forked
           /\ proc[p].i \in Nat /\ proc[p].line \in Nat /\ proc[p].line <= lines
           /\ lines \in Nat /\ started \in Nat \X Nat /\ started[1] <= lines
BY DEF ShellInv, ShellTypeOK

LEMMA LineDoneStep ==
    ASSUME ShellInv, NEW p \in Pid, LineDone(p)
    PROVE  ShellInv'
<1> DEFINE r == [proc[p] EXCEPT !.at = "prompt"]
<1>1. proc[p].at = "run" /\ proc' = [proc EXCEPT ![p] = r]
    BY DEF LineDone, At, Goto
<1>2. UNCHANGED <<boot, content, check, lines, started>>
    BY DEF LineDone, bootVars, fileVars, history
<1>3. /\ Fields \subseteq DOMAIN r /\ r.at = "prompt" /\ r.parent = proc[p].parent
      /\ r.i = proc[p].i /\ r.line = proc[p].line
    BY <1>1, RecordOf, GotoKeeps
<1> HIDE DEF r
<1>8. GoesOn(p, r)
    BY <1>1, <1>2, <1>3, RecordOf DEF GoesOn, Asleep, Forked
<1> QED  BY <1>8, LastStep

LEMMA SkipStep ==
    ASSUME ShellInv, NEW p \in Pid, Skip(p)
    PROVE  ShellInv'
<1> DEFINE r == NextCommand(proc[p])
<1>1. proc[p].at = "run" /\ proc' = [proc EXCEPT ![p] = r]
    BY DEF Skip, Running, At
<1>2. UNCHANGED <<boot, content, check, lines, started>>
    BY DEF Skip, bootVars, fileVars, history
<1>3. /\ Fields \subseteq DOMAIN r /\ r.at = "run" /\ r.parent = proc[p].parent
      /\ r.i = proc[p].i + 1 /\ r.line = proc[p].line
    BY <1>1, RecordOf, NextCommandKeeps
<1> HIDE DEF r
<1>4. Before(started', r)
    <2>1. Before(started, proc[p])
        BY <1>1 DEF ShellInv, CommandInv
    <2> QED  BY <1>1, <1>2, <1>3, <2>1, RecordOf DEF Before
<1>8. GoesOn(p, r)
    BY <1>1, <1>2, <1>3, <1>4, RecordOf DEF GoesOn, Asleep, Forked
<1> QED  BY <1>8, LastStep

LEMMA ReadLineStep ==
    ASSUME ShellInv, NEW p \in Pid, NEW l \in Line, ReadLine(p, l)
    PROVE  ShellInv'
<1>1. proc[p].at = "prompt"
    BY DEF ReadLine, At
<1> DEFINE r == WithLine(proc[p], l)
<1>2. UNCHANGED <<boot, content, check, started>> /\ lines' = lines + 1
    BY DEF ReadLine, bootVars, fileVars
<1>3. /\ Fields \subseteq DOMAIN r /\ r.at \in {"run", "prompt"}
      /\ r.parent = proc[p].parent /\ r.i = 0 /\ r.line = lines + 1
    BY <1>1, RecordOf DEF Fields, WithLine
<1>4. proc' = [proc EXCEPT ![p] = r]
    BY DEF ReadLine
<1> HIDE DEF r
<1>5. Before(started', r)
    BY <1>1, <1>2, <1>3, RecordOf DEF Before
<1>8. GoesOn(p, r)
    BY <1>1, <1>2, <1>3, <1>4, <1>5, RecordOf DEF GoesOn, Asleep, Forked
<1> QED  BY <1>8, LastStep

LEMMA ChildStep ==
    ASSUME ShellInv, NEW p \in Pid, Child(p)
    PROVE  ShellInv'
<1> DEFINE r == IF CheckValid(Name(proc[p]))
                THEN [proc[p] EXCEPT !.at = "exec", !.unchanged = TRUE]
                ELSE NextCommand(proc[p])
<1>1. proc[p].at = "child" /\ proc' = [proc EXCEPT ![p] = r]
    BY DEF Child, At
<1>2. UNCHANGED <<boot, content, check, lines, started>>
    BY DEF Child, bootVars, fileVars, history
<1>3. Before(started, proc[p])
    BY <1>1 DEF ShellInv, CommandInv
<1>4. CASE CheckValid(Name(proc[p]))
    <2>1. /\ Fields \subseteq DOMAIN r /\ r.at = "exec" /\ r.parent = proc[p].parent
          /\ r.i = proc[p].i /\ r.line = proc[p].line
          /\ r.rdbuf = proc[p].rdbuf /\ r.multi_argv = proc[p].multi_argv
        BY <1>1, <1>4, RecordOf DEF Fields
    <2> HIDE DEF r
    <2>2. Before(started', r)
        BY <1>2, <1>3, <2>1 DEF Before
    \* The record is 0 where there is one.
    <2>3. Name(r) \in File /\ Parity(content[Name(r)]) = 0
        <3>1. Name(r) = Name(proc[p])
            BY <1>1, <2>1 DEF Name, Word
        <3>2. check \in [File -> {-1, 0}]
            BY DEF ShellInv, ShellTypeOK
        <3> QED  BY <1>4, <3>1, <3>2 DEF CheckValid
    <2>8. GoesOn(p, r)
        BY <1>1, <1>2, <2>1, <2>2, <2>3, RecordOf DEF GoesOn, Asleep, Forked
    <2> QED  BY <2>8, LastStep
<1>5. CASE ~CheckValid(Name(proc[p]))
    <2>1. /\ Fields \subseteq DOMAIN r /\ r.at = "run" /\ r.parent = proc[p].parent
          /\ r.i = proc[p].i + 1 /\ r.line = proc[p].line
        BY <1>1, <1>5, RecordOf, NextCommandKeeps
    <2> HIDE DEF r
    <2>2. Before(started', r)
        BY <1>1, <1>2, <1>3, <2>1, RecordOf DEF Before
    <2>8. GoesOn(p, r)
        BY <1>1, <1>2, <2>1, <2>2, RecordOf DEF GoesOn, Asleep, Forked
    <2> QED  BY <2>8, LastStep
<1> QED  BY <1>4, <1>5

LEMMA ExecStep ==
    ASSUME ShellInv, NEW p \in Pid, Exec(p)
    PROVE  ShellInv' /\ Before(started, proc[p]) /\ started' \in {started, <<proc[p].line, proc[p].i>>}
<1>1. proc[p].at = "exec"
    BY DEF Exec, At
<1>2. UNCHANGED <<boot, content, check, lines>>
    BY DEF Exec, bootVars, fileVars
<1>3. Before(started, proc[p])
    BY <1>1 DEF ShellInv, CommandInv
<1>4. ASSUME proc' = [proc EXCEPT ![p] = NextCommand(@)], started' = started
      PROVE  ShellInv'
    <2> DEFINE r == NextCommand(proc[p])
    <2>1. /\ Fields \subseteq DOMAIN r /\ r.at = "run" /\ r.parent = proc[p].parent
          /\ r.i = proc[p].i + 1 /\ r.line = proc[p].line
        BY <1>1, RecordOf, NextCommandKeeps
    <2>2. proc' = [proc EXCEPT ![p] = r] /\ started' = started
        BY <1>4
    <2> HIDE DEF r
    <2>3. Before(started', r)
        BY <1>1, <1>3, <2>1, <2>2, RecordOf DEF Before
    <2>8. GoesOn(p, r)
        BY <1>1, <1>2, <2>1, <2>2, <2>3, RecordOf DEF GoesOn, Asleep, Forked
    <2> QED  BY <2>8, LastStep
<1>5. ASSUME NEW a, started' = <<proc[p].line, proc[p].i>>,
             proc' = [proc EXCEPT ![p] = [@ EXCEPT !.at = "program", !.args = a,
                                             !.image = content[Name(proc[p])]]]
      PROVE  ShellInv'
    <2> DEFINE r == [proc[p] EXCEPT !.at = "program", !.args = a,
                                    !.image = content[Name(proc[p])]]
    <2>1. /\ Fields \subseteq DOMAIN r /\ r.at = "program" /\ r.parent = proc[p].parent
          /\ r.i = proc[p].i /\ r.line = proc[p].line
          /\ r.unchanged = proc[p].unchanged /\ r.image = content[Name(proc[p])]
        BY <1>1, RecordOf DEF Fields
    <2>2. proc' = [proc EXCEPT ![p] = r]
        BY <1>5
    <2> HIDE DEF r
    <2>3. UpTo(started', r)
        BY <1>1, <1>5, <2>1, RecordOf DEF UpTo
    <2>4. r.unchanged => Parity(r.image) = 0
        BY <1>1, <2>1 DEF ShellInv, FileInv
    <2>5. started' \in Nat \X Nat /\ started'[1] <= lines
        BY <1>1, <1>5, RecordOf
    <2>8. GoesOn(p, r)
        BY <1>1, <1>2, <2>1, <2>2, <2>3, <2>4, <2>5, RecordOf DEF GoesOn, Asleep, Forked
    <2> QED  BY <2>8, LastStep
<1> QED  BY <1>3, <1>4, <1>5 DEF Exec

LEMMA KillStep ==
    ASSUME ShellInv, NEW p \in Pid, Kill(p)
    PROVE  ShellInv'
<1> DEFINE r == [proc[p] EXCEPT !.at = "killed"]
<1>1. proc[p].at = "program" /\ proc' = [proc EXCEPT ![p] = r]
    BY DEF Kill, At, Goto
<1>2. UNCHANGED <<boot, content, check, lines, started>>
    BY DEF Kill, bootVars, fileVars, history
<1>3. /\ Fields \subseteq DOMAIN r /\ r.at = "killed" /\ r.parent = proc[p].parent
      /\ r.i = proc[p].i /\ r.line = proc[p].line
    BY <1>1, RecordOf, GotoKeeps
<1> HIDE DEF r
<1>4. UpTo(started', r)
    <2>1. UpTo(started, proc[p])
        BY <1>1 DEF ShellInv, CommandInv
    <2> QED  BY <1>2, <1>3, <2>1 DEF UpTo
<1>8. GoesOn(p, r)
    BY <1>1, <1>2, <1>3, <1>4, RecordOf DEF GoesOn, Asleep, Forked
<1> QED  BY <1>8, LastStep

-----------------------------------------------------------------------------
(* fork, exit and wait lengthen and shorten the chain.                     *)

LEMMA MinIs ==
    ASSUME NEW S \in SUBSET Int, NEW m \in S, \A x \in S : m <= x
    PROVE  Min(S) = m
<1>1. Min(S) \in S /\ \A x \in S : Min(S) <= x
    BY DEF Min
<1>2. m <= Min(S) /\ Min(S) <= m
    BY <1>1
<1>3. m \in Int /\ Min(S) \in Int
    BY <1>1
<1> HIDE DEF Min
<1> QED  BY <1>2, <1>3

LEMMA ForkStep ==
    ASSUME ShellInv, NEW p \in Pid, Fork(p)
    PROVE  ShellInv'
<1> USE BoundAssumption
<1> DEFINE free == {q \in Pid : proc[q] = Free}
<1>1. proc[p].at = "run"
    BY DEF Fork, Running, At
<1>2. UNCHANGED <<boot, content, check, lines, started>>
    BY DEF Fork, bootVars, fileVars, history
<1>3. CASE Goto(p, "asserted")
    <2> DEFINE r == [proc[p] EXCEPT !.at = "asserted"]
    <2>1. /\ Fields \subseteq DOMAIN r /\ r.at = "asserted" /\ r.parent = proc[p].parent
          /\ r.i = proc[p].i /\ r.line = proc[p].line
        BY <1>1, RecordOf, GotoKeeps
    <2>2. proc' = [proc EXCEPT ![p] = r]
        BY <1>3 DEF Goto
    <2> HIDE DEF r
    <2>8. GoesOn(p, r)
        BY <1>1, <1>2, <2>1, <2>2, RecordOf DEF GoesOn, Asleep, Forked
    <2> QED  BY <2>8, LastStep
<1>4. CASE free # {} /\ proc' = [proc EXCEPT ![Min(free)] = [proc[p] EXCEPT !.at = "child", !.parent = p],
                                             ![p].at = "wait"]
    <2> DEFINE c == [proc[p] EXCEPT !.at = "child", !.parent = p]
               w == [proc[p] EXCEPT !.at = "wait"]
    <2>1. /\ Chained(p) /\ boot.at \in {"up", "halted"}
          /\ \A q \in Pid \ {p} : proc[q].at \in Asleep \cup {"free"}
        BY <1>1, LastOfChain DEF ShellInv, Asleep
    <2>2. free = {q \in Pid : q > p}
        BY <2>1 DEF Chained
    <2>3. p + 1 \in free /\ Min(free) = p + 1
        <3>1. p + 1 \in free
            BY <1>4, <2>2
        <3>2. free \in SUBSET Int /\ \A q \in free : p + 1 <= q
            BY <2>2
        <3> HIDE DEF free
        <3> QED  BY <3>1, <3>2, MinIs
    <2>4. /\ Fields \subseteq DOMAIN c /\ c.at = "child" /\ c.parent = p
          /\ c.i = proc[p].i /\ c.line = proc[p].line
        BY <1>1, RecordOf DEF Fields
    <2>5. /\ Fields \subseteq DOMAIN w /\ w.at = "wait" /\ w.parent = proc[p].parent
          /\ w.i = proc[p].i /\ w.line = proc[p].line
        BY <1>1, RecordOf, GotoKeeps
    <2>6. /\ p + 1 \in Pid /\ proc'[p + 1] = c /\ proc'[p] = w
          /\ \A q \in Pid \ {p, p + 1} : proc'[q] = proc[q]
          /\ proc' = [q \in Pid |-> proc'[q]]
        <3>1. p + 1 \in Pid /\ p + 1 # p /\ p \in Pid
            BY <2>3
        <3>2. proc = [q \in Pid |-> proc[q]]
            BY DEF ShellInv, ShellTypeOK
        <3>3. proc' = [proc EXCEPT ![p + 1] = c, ![p].at = "wait"]
            BY <1>4, <2>3
        <3>4. [proc EXCEPT ![p + 1] = c][p] = proc[p]
            BY <3>1, <3>2
        <3>5. proc' = [proc EXCEPT ![p + 1] = c, ![p] = w]
            BY <3>3, <3>4
        <3> HIDE DEF c, w
        <3> QED  BY <3>1, <3>2, <3>5
    <2> HIDE DEF c, w, free
    <2>7. ShellTypeOK'
        <3>1. ASSUME NEW q \in Pid
              PROVE  \/ proc'[q] = Free
                     \/ /\ Fields \subseteq DOMAIN proc'[q]
                        /\ proc'[q].at \in {"prompt", "run", "asserted"} \cup Asleep \cup Forked
                        /\ proc'[q].i \in Nat /\ proc'[q].line \in Nat /\ proc'[q].line <= lines'
            <4>1. CASE q \in {p, p + 1}
                BY <1>1, <1>2, <2>4, <2>5, <2>6, <4>1, RecordOf DEF Asleep, Forked
            <4>2. CASE q \notin {p, p + 1}
                BY <1>2, <2>6, <4>2 DEF ShellInv, ShellTypeOK
            <4> QED  BY <4>1, <4>2
        <3> QED  BY <1>2, <2>6, <3>1 DEF ShellInv, ShellTypeOK
    <2>8. Chain'
        <3>1. c # Free /\ w # Free
            BY <2>4, <2>5
        <3>2. ASSUME NEW q \in Pid
              PROVE  /\ proc'[q] = Free <=> q > p + 1
                     /\ q <= p + 1 => proc'[q].parent = q - 1
                     /\ proc'[q].at \in Asleep <=> q < p + 1
            <4>1. CASE q = p
                BY <1>1, <2>1, <2>5, <2>6, <3>1, <4>1 DEF Chained, Asleep
            <4>2. CASE q = p + 1
                BY <2>4, <2>6, <3>1, <4>2 DEF Asleep
            <4>3. CASE q \notin {p, p + 1}
                BY <2>1, <2>6, <4>3 DEF Chained
            <4> QED  BY <4>1, <4>2, <4>3
        <3>3. boot'.at \notin {"extract", "record"}
            BY <1>2, <2>1
        <3>4. Chained(p + 1)'
            BY <3>2, <3>3 DEF Chained
        <3>5. p + 1 \in 0..MaxProcs
            BY <2>6
        <3> QED  BY <3>4, <3>5 DEF Chain
    <2>9. CommandInv'
        <3>1. Before(started, proc[p])
            BY <1>1 DEF ShellInv, CommandInv
        <3>2. Before(started', c)
            BY <1>2, <2>4, <3>1 DEF Before
        <3>3. (p + 1) - 1 = p /\ p + 1 > 1
            OBVIOUS
        <3>4. \A q \in Pid \ {p + 1} : proc'[q].at \in Asleep \cup {"free"}
            BY <2>1, <2>5, <2>6 DEF Asleep
        <3>5. ASSUME NEW q \in Pid
              PROVE  /\ proc'[q].at \in Forked =>
                           /\ q > 1 /\ proc'[q].line = proc'[q - 1].line
                           /\ proc'[q].i = proc'[q - 1].i
                     /\ proc'[q].at \in {"run", "child", "exec"} => Before(started', proc'[q])
                     /\ proc'[q].at \in {"program", "zombie", "killed"} => UpTo(started', proc'[q])
            <4>1. CASE q = p + 1
                BY <2>4, <2>5, <2>6, <3>2, <3>3, <4>1
            <4>2. CASE q # p + 1
                BY <3>4, <4>2 DEF Asleep, Forked
            <4> QED  BY <4>1, <4>2
        <3> QED  BY <3>5 DEF CommandInv
    <2>10. FileInv'
        <3>1. \A q \in Pid : proc'[q].at \notin {"exec", "program"}
            BY <2>1, <2>4, <2>5, <2>6 DEF Asleep
        <3> QED  BY <1>2, <2>1, <3>1 DEF FileInv
    <2> QED  BY <2>7, <2>8, <2>9, <2>10 DEF ShellInv
<1> QED  BY <1>3, <1>4 DEF Fork

\* The last process is gone, and the one before it goes on.
LEMMA ParentGoesOn ==
    ASSUME ShellInv, NEW p \in Pid, p + 1 \in Pid,
           proc[p + 1].at \in {"program", "zombie", "killed"},
           proc' = [q \in Pid |-> IF q = p THEN NextCommand(proc[p])
                                  ELSE IF q = p + 1 THEN Free ELSE proc[q]],
           UNCHANGED <<boot, content, check, lines, started>>
    PROVE  ShellInv'
<1> USE BoundAssumption
<1> DEFINE r == NextCommand(proc[p])
<1>1. /\ Chained(p + 1) /\ boot.at \in {"up", "halted"}
      /\ \A q \in Pid \ {p + 1} : proc[q].at \in Asleep \cup {"free"}
    BY LastOfChain DEF ShellInv, Asleep
<1>2. proc[p].at \in Asleep
    BY <1>1 DEF Chained
<1>3. /\ Fields \subseteq DOMAIN r /\ r.at = "run" /\ r.parent = proc[p].parent
      /\ r.i = proc[p].i + 1 /\ r.line = proc[p].line
    BY <1>2, RecordOf, NextCommandKeeps DEF Asleep
<1>4. /\ proc'[p] = r /\ proc'[p + 1] = Free
      /\ \A q \in Pid \ {p, p + 1} : proc'[q] = proc[q]
      /\ proc' = [q \in Pid |-> proc'[q]]
    OBVIOUS
<1> HIDE DEF r
<1>5. ShellTypeOK'
    <2>1. ASSUME NEW q \in Pid
          PROVE  \/ proc'[q] = Free
                 \/ /\ Fields \subseteq DOMAIN proc'[q]
                    /\ proc'[q].at \in {"prompt", "run", "asserted"} \cup Asleep \cup Forked
                    /\ proc'[q].i \in Nat /\ proc'[q].line \in Nat /\ proc'[q].line <= lines'
        <3>1. CASE q = p
            BY <1>2, <1>3, <1>4, <3>1, RecordOf DEF Asleep
        <3>2. CASE q # p
            BY <1>4, <3>2 DEF ShellInv, ShellTypeOK
        <3> QED  BY <3>1, <3>2
    <2> QED  BY <1>4, <2>1 DEF ShellInv, ShellTypeOK
<1>6. Chain'
    <2>1. r # Free
        BY <1>3
    <2>2. ASSUME NEW q \in Pid
          PROVE  /\ proc'[q] = Free <=> q > p
                 /\ q <= p => proc'[q].parent = q - 1
                 /\ proc'[q].at \in Asleep <=> q < p
        <3>1. CASE q = p
            BY <1>1, <1>3, <1>4, <2>1, <3>1 DEF Chained, Asleep
        <3>2. CASE q = p + 1
            BY <1>4, <3>2 DEF Asleep
        <3>3. CASE q \notin {p, p + 1}
            BY <1>1, <1>4, <3>3 DEF Chained
        <3> QED  BY <3>1, <3>2, <3>3
    <2>3. boot'.at \notin {"extract", "record"}
        BY <1>1
    <2>4. Chained(p)'
        BY <2>2, <2>3 DEF Chained
    <2>5. p \in 0..MaxProcs
        OBVIOUS
    <2> QED  BY <2>4, <2>5 DEF Chain
\* The parent was at the command of the child that is gone.
<1>7. CommandInv'
    <2>1. UpTo(started, proc[p + 1])
        BY DEF ShellInv, CommandInv
    <2>2. proc[p + 1].line = proc[p].line /\ proc[p + 1].i = proc[p].i
        <3>1. proc[p + 1].line = proc[(p + 1) - 1].line /\ proc[p + 1].i = proc[(p + 1) - 1].i
            BY DEF ShellInv, CommandInv, Forked
        <3>2. (p + 1) - 1 = p
            OBVIOUS
        <3> QED  BY <3>1, <3>2
    <2>3. Before(started', r)
        BY <1>2, <1>3, <2>1, <2>2, RecordOf DEF Before, UpTo, Asleep
    <2>4. \A q \in Pid \ {p} : proc'[q].at \in Asleep \cup {"free"}
        BY <1>1, <1>4
    <2>5. ASSUME NEW q \in Pid
          PROVE  /\ proc'[q].at \in Forked =>
                       /\ q > 1 /\ proc'[q].line = proc'[q - 1].line
                       /\ proc'[q].i = proc'[q - 1].i
                 /\ proc'[q].at \in {"run", "child", "exec"} => Before(started', proc'[q])
                 /\ proc'[q].at \in {"program", "zombie", "killed"} => UpTo(started', proc'[q])
        <3>1. CASE q = p
            BY <1>3, <1>4, <2>3, <3>1 DEF Forked
        <3>2. CASE q # p
            BY <2>4, <3>2 DEF Asleep, Forked
        <3> QED  BY <3>1, <3>2
    <2> QED  BY <2>5 DEF CommandInv
<1>8. FileInv'
    <2>1. \A q \in Pid : proc'[q].at \notin {"exec", "program"}
        BY <1>1, <1>3, <1>4 DEF Asleep
    <2> QED  BY <1>1, <2>1 DEF FileInv
<1> QED  BY <1>5, <1>6, <1>7, <1>8 DEF ShellInv

LEMMA ExitStep ==
    ASSUME ShellInv, NEW p \in Pid, Exit(p)
    PROVE  ShellInv'
<1> USE BoundAssumption
<1>1. proc[p].at = "program"
    BY DEF Exit, At
<1>2. UNCHANGED <<boot, content, check, lines, started>>
    BY DEF Exit, bootVars, fileVars, history
<1>3. CASE proc' = [proc EXCEPT ![p].at = "zombie"]
    <2> DEFINE r == [proc[p] EXCEPT !.at = "zombie"]
    <2>1. /\ Fields \subseteq DOMAIN r /\ r.at = "zombie" /\ r.parent = proc[p].parent
          /\ r.i = proc[p].i /\ r.line = proc[p].line
        BY <1>1, RecordOf, GotoKeeps
    <2>2. proc' = [proc EXCEPT ![p] = r]
        BY <1>3
    <2> HIDE DEF r
    <2>3. UpTo(started', r)
        <3>1. UpTo(started, proc[p])
            BY <1>1 DEF ShellInv, CommandInv
        <3> QED  BY <1>2, <2>1, <3>1 DEF UpTo
    <2>8. GoesOn(p, r)
        BY <1>1, <1>2, <2>1, <2>2, <2>3, RecordOf DEF GoesOn, Asleep, Forked
    <2> QED  BY <2>8, LastStep
<1>4. CASE proc' = [proc EXCEPT ![p] = Free, ![proc[p].parent] = NextCommand(@)]
    <2> DEFINE par == p - 1
    <2>1. p > 1 /\ Chained(p)
        BY <1>1, LastOfChain DEF ShellInv, CommandInv, Forked, Asleep
    <2>2. par \in Pid /\ par + 1 = p /\ proc[p].parent = par
        BY <2>1 DEF Chained
    <2>3. proc = [q \in Pid |-> proc[q]]
        BY DEF ShellInv, ShellTypeOK
    <2>4. par # p /\ proc' = [proc EXCEPT ![p] = Free, ![par] = NextCommand(@)]
        BY <1>4, <2>2
    <2> HIDE DEF par
    <2>5. [proc EXCEPT ![p] = Free][par] = proc[par]
        BY <2>2, <2>3, <2>4
    <2>6. proc' = [proc EXCEPT ![p] = Free, ![par] = NextCommand(proc[par])]
        BY <2>4, <2>5
    <2>7. proc' = [q \in Pid |-> IF q = par THEN NextCommand(proc[par])
                                 ELSE IF q = par + 1 THEN Free ELSE proc[q]]
        BY <2>2, <2>3, <2>4, <2>6
    <2>8. proc[par + 1].at \in {"program", "zombie", "killed"} /\ par + 1 \in Pid
        BY <1>1, <2>2
    <2> QED  BY <1>2, <2>2, <2>7, <2>8, ParentGoesOn
<1> QED  BY <1>3, <1>4 DEF Exit

LEMMA WaitStep ==
    ASSUME ShellInv, NEW p \in Pid, Wait(p)
    PROVE  ShellInv'
<1> USE BoundAssumption
<1>1. proc[p].at = "wait"
    BY DEF Wait, At
<1>2. UNCHANGED <<boot, content, check, lines, started>>
    BY DEF Wait, bootVars, fileVars, history
<1>3. CASE Goto(p, "waiting")
    <2> DEFINE r == [proc[p] EXCEPT !.at = "waiting"]
    <2>1. /\ Fields \subseteq DOMAIN r /\ r.at = "waiting" /\ r.parent = proc[p].parent
          /\ r.i = proc[p].i /\ r.line = proc[p].line
        BY <1>1, RecordOf, GotoKeeps
    <2>2. proc' = [proc EXCEPT ![p] = r]
        BY <1>3 DEF Goto
    <2> HIDE DEF r
    <2>3. /\ proc'[p] = r /\ \A q \in Pid \ {p} : proc'[q] = proc[q]
          /\ proc' = [q \in Pid |-> proc'[q]]
        BY <2>2 DEF ShellInv, ShellTypeOK
    <2>4. ShellTypeOK'
        <3>1. ASSUME NEW q \in Pid
              PROVE  \/ proc'[q] = Free
                     \/ /\ Fields \subseteq DOMAIN proc'[q]
                        /\ proc'[q].at \in {"prompt", "run", "asserted"} \cup Asleep \cup Forked
                        /\ proc'[q].i \in Nat /\ proc'[q].line \in Nat /\ proc'[q].line <= lines'
            <4>1. CASE q = p
                BY <1>1, <1>2, <2>1, <2>3, <4>1, RecordOf DEF Asleep
            <4>2. CASE q # p
                BY <1>2, <2>3, <4>2 DEF ShellInv, ShellTypeOK
            <4> QED  BY <4>1, <4>2
        <3> QED  BY <1>2, <2>3, <3>1 DEF ShellInv, ShellTypeOK
    <2>5. Chain'
        <3>1. PICK n \in 0..MaxProcs : Chained(n)
            BY DEF ShellInv, Chain
        <3>2. r # Free /\ proc[p] # Free
            BY <1>1, <2>1
        <3>3. Chained(n)'
            BY <1>1, <1>2, <2>1, <2>3, <3>1, <3>2 DEF Chained, Asleep
        <3> QED  BY <3>3 DEF Chain
    <2>6. CommandInv'
        <3>1. \A q \in Pid : proc'[q].line = proc[q].line /\ proc'[q].i = proc[q].i
            BY <2>1, <2>3
        <3>2. ASSUME NEW q \in Pid
              PROVE  /\ proc'[q].at \in Forked =>
                           /\ q > 1 /\ proc'[q].line = proc'[q - 1].line
                           /\ proc'[q].i = proc'[q - 1].i
                     /\ proc'[q].at \in {"run", "child", "exec"} => Before(started', proc'[q])
                     /\ proc'[q].at \in {"program", "zombie", "killed"} => UpTo(started', proc'[q])
            <4>1. CASE q = p
                BY <2>1, <2>3, <4>1 DEF Forked
            <4>2. CASE q # p
                <5>1. q > 1 => q - 1 \in Pid
                    OBVIOUS
                <5> QED  BY <1>2, <2>3, <3>1, <4>2, <5>1 DEF ShellInv, CommandInv
            <4> QED  BY <4>1, <4>2
        <3> QED  BY <3>2 DEF CommandInv
    <2>7. FileInv'
        BY <1>2, <2>1, <2>3 DEF ShellInv, FileInv, Name, Word
    <2> QED  BY <2>4, <2>5, <2>6, <2>7 DEF ShellInv
<1>4. CASE /\ Ended(p) # {}
           /\ proc' = [q \in Pid |-> IF q = p THEN NextCommand(proc[p])
                                     ELSE IF q \in Reaped(p) THEN Free ELSE proc[q]]
    <2>1. ASSUME NEW q \in Ended(p) PROVE q = p + 1
        <3>1. q \in Pid /\ proc[q].at \in {"zombie", "killed"} /\ proc[q].parent = p
            BY DEF Ended
        <3>2. Chained(q)
            BY <3>1, LastOfChain DEF ShellInv, Asleep
        <3> QED  BY <3>1, <3>2 DEF Chained
    <2>2. Ended(p) = {p + 1}
        BY <1>4, <2>1
    <2>3. p + 1 \in Pid /\ proc[p + 1].at \in {"zombie", "killed"}
        BY <2>2 DEF Ended
    <2>4. Reaped(p) = {p + 1}
        <3>1. Min({p + 1}) = p + 1
            BY MinIs
        <3> QED  BY <1>4, <2>2, <3>1 DEF Reaped
    <2>5. proc' = [q \in Pid |-> IF q = p THEN NextCommand(proc[p])
                                 ELSE IF q = p + 1 THEN Free ELSE proc[q]]
        BY <1>4, <2>4
    <2> QED  BY <1>2, <2>3, <2>5, ParentGoesOn
<1> QED  BY <1>3, <1>4 DEF Wait, Sleeps

-----------------------------------------------------------------------------
(* untar, the start of the shell, and what others do to the files.         *)

\* While untar runs there is no process.
LEMMA NobodyAtBoot ==
    ASSUME ShellInv, boot.at \in {"extract", "record"}
    PROVE  \A p \in Pid : proc[p] = Free
<1>1. Chained(0)
    BY DEF ShellInv, Chain, Chained
<1>2. \A p \in Pid : p > 0
    BY BoundAssumption
<1> QED  BY <1>1, <1>2 DEF Chained

\* Without processes only the types and the files need a look.
LEMMA NobodyStep ==
    ASSUME \A p \in Pid : proc'[p] = Free, ShellTypeOK',
           boot'.at = "record" => content'[Program[boot'.k]] = "extracted"
    PROVE  ShellInv'
<1>1. \A p \in Pid : p > 0 /\ ~(p < 0) /\ ~(p <= 0)
    BY BoundAssumption
<1>2. \A p \in Pid : proc'[p].at = "free"
    OBVIOUS
<1>3. Chained(0)'
    BY <1>1, <1>2 DEF Chained, Asleep
<1>4. Chain'
    BY <1>3, BoundAssumption DEF Chain
<1>5. CommandInv'
    BY <1>2 DEF CommandInv, Forked
<1>6. FileInv'
    BY <1>2 DEF FileInv
<1> QED  BY <1>4, <1>5, <1>6 DEF ShellInv

LEMMA ProgramIsFile ==
    ASSUME NEW k \in Nat \ {0}, k <= Len(Program)
    PROVE  Program[k] \in File
<1>1. Program \in Seq(ToSet(Program))
    BY ShellAssumption
<1>2. k \in DOMAIN Program
    BY <1>1, LenProperties
<1> QED  BY <1>2 DEF File, ToSet

LEMMA UntarStep ==
    ASSUME ShellInv, Extract \/ Record \/ Mark
    PROVE  ShellInv'
<1> USE DEF ShellInv, ShellTypeOK
<1>1. boot.at \in {"extract", "record"}
    BY DEF Extract, Record, Mark
<1>2. \A p \in Pid : proc'[p] = Free
    BY <1>1, NobodyAtBoot DEF Extract, Record, Mark
<1>3. CASE Extract
    <2> USE <1>3 DEF Extract, history
    <2>1. Program[boot.k] \in File
        BY ProgramIsFile
    <2>2. content' \in [File -> {"none", "extracted", "alike", "changed"}]
        BY <2>1
    <2>3. boot' = [at |-> "record", k |-> boot.k]
        OBVIOUS
    <2>4. ShellTypeOK'
        BY <1>2, <2>2, <2>3
    <2>5. content'[Program[boot'.k]] = "extracted"
        BY <2>1, <2>3
    <2> QED  BY <1>2, <2>4, <2>5, NobodyStep
\* What is recorded is the parity of the file just extracted.
<1>4. CASE Record
    <2> USE <1>4 DEF Record, history
    <2>1. Program[boot.k] \in File
        BY ProgramIsFile
    <2>2. Parity(content[Program[boot.k]]) = 0
        BY DEF FileInv, Parity
    <2>3. check' \in [File -> {-1, 0}]
        BY <2>1, <2>2
    <2>4. boot' = [at |-> "extract", k |-> boot.k + 1] /\ boot.k + 1 \in Nat \ {0}
        OBVIOUS
    <2>5. ShellTypeOK'
        BY <1>2, <2>3, <2>4
    <2> QED  BY <1>2, <2>4, <2>5, NobodyStep
<1>5. CASE Mark
    <2>1. ShellTypeOK' /\ boot' = boot /\ boot.at = "extract"
        BY <1>2, <1>5 DEF Mark, fileVars, history
    <2> QED  BY <1>2, <2>1, NobodyStep
<1> QED  BY <1>3, <1>4, <1>5

LEMMA StartStep ==
    ASSUME ShellInv, Start
    PROVE  ShellInv'
<1> USE BoundAssumption
<1>1. \A p \in Pid : proc[p] = Free
    BY NobodyAtBoot DEF Start
<1>2. PICK ptr : proc' = [proc EXCEPT ![1] = NewShell(ptr)]
    BY DEF Start
<1> DEFINE r == NewShell(ptr)
<1>3. /\ Fields \subseteq DOMAIN r /\ r.at = "prompt" /\ r.parent = 0
      /\ r.i = 0 /\ r.line = 0
    BY DEF NewShell, Fields
<1>4. /\ 1 \in Pid /\ proc'[1] = r /\ \A p \in Pid \ {1} : proc'[p] = Free
      /\ proc' = [p \in Pid |-> proc'[p]]
    <2>1. proc = [p \in Pid |-> proc[p]]
        BY DEF ShellInv, ShellTypeOK
    <2> HIDE DEF r
    <2>2. proc' = [proc EXCEPT ![1] = r] /\ 1 \in Pid
        BY <1>2 DEF r
    <2> QED  BY <1>1, <2>1, <2>2
<1> HIDE DEF r
<1>5. /\ boot' = [at |-> "up", k |-> boot.k]
      /\ UNCHANGED <<content, check, lines, started>>
    BY DEF Start, fileVars, history, ShellInv, ShellTypeOK
<1>6. ShellTypeOK'
    <2>1. /\ boot' = [at |-> boot'.at, k |-> boot'.k] /\ boot'.at = "up"
          /\ boot'.k \in Nat \ {0}
        BY <1>5 DEF ShellInv, ShellTypeOK
    <2>2. \A p \in Pid : \/ proc'[p] = Free
                         \/ /\ Fields \subseteq DOMAIN proc'[p] /\ proc'[p].at = "prompt"
                            /\ proc'[p].i = 0 /\ proc'[p].line = 0
        BY <1>3, <1>4
    <2> QED  BY <1>4, <1>5, <2>1, <2>2 DEF ShellInv, ShellTypeOK
<1>7. Chain'
    <2>1. r # Free
        BY <1>3
    <2>2. Chained(1)'
        BY <1>3, <1>4, <1>5, <2>1 DEF Chained, Asleep
    <2> QED  BY <2>2 DEF Chain
<1>8. \A p \in Pid : proc'[p].at \in {"free", "prompt"}
    BY <1>3, <1>4
<1>9. CommandInv' /\ FileInv'
    BY <1>5, <1>8 DEF CommandInv, FileInv, Forked
<1> QED  BY <1>6, <1>7, <1>9 DEF ShellInv

LEMMA PowerFailsStep ==
    ASSUME ShellInv, PowerFails
    PROVE  ShellInv'
<1>1. \A p \in Pid : proc'[p] = Free
    BY DEF PowerFails
<1>2. ShellTypeOK'
    BY <1>1 DEF PowerFails, fileVars, ShellInv, ShellTypeOK
<1>3. boot'.at = "extract"
    BY DEF PowerFails
<1> QED  BY <1>1, <1>2, <1>3, NobodyStep

LEMMA WildNameStep ==
    ASSUME ShellInv, NEW p \in Pid, WildName(p)
    PROVE  ShellInv'
<1>1. /\ boot' = [at |-> "halted", k |-> boot.k]
      /\ UNCHANGED <<content, check, proc, lines, started>>
    BY DEF WildName, fileVars, history, ShellInv, ShellTypeOK
<1>2. ShellTypeOK'
    <2>1. /\ boot' = [at |-> boot'.at, k |-> boot'.k] /\ boot'.at = "halted"
          /\ boot'.k \in Nat \ {0}
        BY <1>1 DEF ShellInv, ShellTypeOK
    <2> QED  BY <1>1, <2>1 DEF ShellInv, ShellTypeOK
<1>3. Chain'
    BY <1>1 DEF ShellInv, Chain, Chained
<1>4. CommandInv' /\ FileInv'
    BY <1>1 DEF ShellInv, CommandInv, FileInv, Name, Word
<1> QED  BY <1>2, <1>3, <1>4 DEF ShellInv

\* A changed file is one that no exec has checked.
LEMMA ModifyStep ==
    ASSUME ShellInv, NEW f \in File, Modify(f)
    PROVE  ShellInv'
<1>1. UNCHANGED <<boot, check, lines, started>> /\ boot.at = "up"
    BY DEF Modify, bootVars, history
<1>2. content' \in [File -> {"none", "extracted", "alike", "changed"}]
    BY DEF Modify, ShellInv, ShellTypeOK
<1>3. proc' = [p \in Pid |-> proc'[p]]
    BY DEF Modify
<1>4. ASSUME NEW p \in Pid, proc[p].at # "exec"
      PROVE  proc'[p] = proc[p]
    BY <1>4 DEF Modify
<1>5. ASSUME NEW p \in Pid, proc[p].at = "exec"
      PROVE  /\ DOMAIN proc'[p] = DOMAIN proc[p] /\ proc'[p].at = "exec"
             /\ proc'[p].parent = proc[p].parent /\ proc'[p].unchanged = FALSE
             /\ proc'[p].i = proc[p].i /\ proc'[p].line = proc[p].line
             /\ Name(proc[p])' = Name(proc[p])
    <2> DEFINE r == [proc[p] EXCEPT !.unchanged = FALSE]
    <2>1. proc'[p] = r
        BY <1>5 DEF Modify
    <2>2. Fields \subseteq DOMAIN proc[p]
        BY <1>5, RecordOf
    <2>3. /\ DOMAIN r = DOMAIN proc[p] /\ r.at = "exec"
          /\ r.parent = proc[p].parent /\ r.unchanged = FALSE
          /\ r.i = proc[p].i /\ r.line = proc[p].line
          /\ r.rdbuf = proc[p].rdbuf /\ r.multi_argv = proc[p].multi_argv
        BY <1>5, <2>2 DEF Fields
    <2> HIDE DEF r
    <2> QED  BY <2>1, <2>3 DEF Name, Word
<1>6. \A p \in Pid : /\ proc'[p].at = proc[p].at /\ (proc'[p] = Free <=> proc[p] = Free)
                     /\ proc'[p].parent = proc[p].parent
                     /\ proc'[p].i = proc[p].i /\ proc'[p].line = proc[p].line
                     /\ DOMAIN proc'[p] = DOMAIN proc[p]
    <2> TAKE p \in Pid
    <2>1. CASE proc[p].at = "exec"
        <3>1. proc[p] # Free
            BY <2>1
        <3>2. proc'[p].at = "exec"
            BY <1>5, <2>1
        <3>3. proc'[p] # Free
            BY <3>2
        <3> QED  BY <1>5, <2>1, <3>1, <3>3
    <2>2. CASE proc[p].at # "exec"
        BY <1>4, <2>2
    <2> QED  BY <2>1, <2>2
<1>7. ShellTypeOK'
    <2>1. ASSUME NEW p \in Pid
          PROVE  \/ proc'[p] = Free
                 \/ /\ Fields \subseteq DOMAIN proc'[p]
                    /\ proc'[p].at \in {"prompt", "run", "asserted"} \cup Asleep \cup Forked
                    /\ proc'[p].i \in Nat /\ proc'[p].line \in Nat /\ proc'[p].line <= lines'
        BY <1>1, <1>6 DEF ShellInv, ShellTypeOK
    <2> QED  BY <1>1, <1>2, <1>3, <2>1 DEF ShellInv, ShellTypeOK
<1>8. Chain'
    BY <1>1, <1>6 DEF ShellInv, Chain, Chained
<1>9. CommandInv'
    <2>1. \A p \in Pid : p > 1 => p - 1 \in Pid
        BY BoundAssumption
    <2> QED  BY <1>1, <1>6, <2>1 DEF ShellInv, CommandInv, Before, UpTo
<1>10. FileInv'
    <2>1. ASSUME NEW p \in Pid
          PROVE  /\ proc'[p].at = "exec" =>
                       Name(proc[p])' \in File /\ ~proc'[p].unchanged
                 /\ proc'[p].at = "program" /\ proc'[p].unchanged =>
                       Parity(proc'[p].image) = 0
        <3>1. CASE proc[p].at = "exec"
            BY <1>5, <3>1 DEF ShellInv, FileInv
        <3>2. CASE proc[p].at # "exec"
            BY <1>4, <3>2 DEF ShellInv, FileInv
        <3> QED  BY <3>1, <3>2
    <2> QED  BY <1>1, <2>1 DEF FileInv, Name, Word
<1> QED  BY <1>7, <1>8, <1>9, <1>10 DEF ShellInv

-----------------------------------------------------------------------------
LEMMA ShellStepInv == ShellInv /\ [Next]_vars => ShellInv'
<1> SUFFICES ASSUME ShellInv, [Next]_vars PROVE ShellInv'
    OBVIOUS
<1>1. ASSUME NEW p \in Pid, ShellStep(p) PROVE ShellInv'
    BY <1>1, LineDoneStep, SkipStep, ForkStep, ChildStep, ExecStep, WaitStep DEF ShellStep
<1>2. ASSUME NEW p \in Pid, Exit(p) \/ Kill(p) \/ WildName(p) PROVE ShellInv'
    BY <1>2, ExitStep, KillStep, WildNameStep
<1>3. ASSUME NEW p \in Pid, NEW l \in Line, ReadLine(p, l) PROVE ShellInv'
    BY <1>3, ReadLineStep
<1>4. ASSUME NEW f \in File, Modify(f) PROVE ShellInv'
    BY <1>4, ModifyStep
<1>5. CASE Extract \/ Record \/ Mark \/ Start \/ PowerFails
    BY <1>5, UntarStep, StartStep, PowerFailsStep
<1>6. CASE UNCHANGED vars
    BY <1>6 DEF vars, bootVars, fileVars, history, ShellInv, ShellTypeOK, Chain, Chained,
                CommandInv, FileInv, Name, Word
<1> QED  BY <1>1, <1>2, <1>3, <1>4, <1>5, <1>6 DEF Next

(* The inductive invariant: the processes of a terminal form a chain in    *)
(* which each waits for the next, a child is at the command of its parent, *)
(* and what was checked for execution is still what was recorded.          *)
THEOREM ShellInvariance == Spec => []ShellInv
BY ShellInitial, ShellStepInv, PTL DEF Spec

(* However many shells failed to execute and however deep they are nested, *)
(* at most one process of the terminal is not waiting for another.         *)
THEOREM ForegroundIsOne == Spec => []OneForeground
<1>1. ASSUME ShellInv PROVE OneForeground
    <2> DEFINE F == {p \in Pid : proc[p].at \notin {"free", "wait", "waiting", "zombie", "killed"}}
    <2>1. ASSUME NEW p \in F, NEW q \in F PROVE p = q
        <3>1. \A r \in F : r \in Pid /\ proc[r].at \notin Asleep \cup {"free"}
            BY DEF Asleep
        <3>2. \A r \in Pid \ {p} : proc[r].at \in Asleep \cup {"free"}
            BY <1>1, <3>1, LastOfChain DEF ShellInv
        <3> QED  BY <3>1, <3>2
    <2>2. CASE F = {}
        BY <2>2, FS_EmptySet DEF OneForeground
    <2>3. CASE F # {}
        <3>1. PICK p : F = {p}
            BY <2>1, <2>3
        <3>2. Cardinality(F) = 1
            BY <3>1, FS_Singleton
        <3> QED  BY <3>2 DEF OneForeground
    <2> QED  BY <2>2, <2>3
<1> QED  BY <1>1, ShellInvariance, PTL

(* No command of any line is executed twice or out of order, whatever      *)
(* children go on as shells.                                               *)
THEOREM CommandsRunOnce == Spec => RunOnce
<1> DEFINE Later == started' # started =>
                       \/ started'[1] > started[1]
                       \/ started'[1] = started[1] /\ started'[2] > started[2]
<1>1. ASSUME ShellInv, Next PROVE Later
    <2>1. ASSUME NEW p \in Pid, Exec(p) PROVE Later
        <3>1. proc[p].at # "free"
            BY <2>1 DEF Exec, At
        <3>2. /\ proc[p].i \in Nat /\ proc[p].line \in Nat /\ started \in Nat \X Nat
              /\ Before(started, proc[p])
              /\ started' \in {started, <<proc[p].line, proc[p].i>>}
            BY <1>1, <2>1, <3>1, RecordOf, ExecStep
        <3> QED  BY <3>2 DEF Before
    <2>2. ASSUME NEW p \in Pid,
                 LineDone(p) \/ Skip(p) \/ Fork(p) \/ Child(p) \/ Wait(p) \/ Exit(p)
                    \/ Kill(p) \/ WildName(p)
          PROVE  started' = started
        BY <2>2 DEF LineDone, Skip, Fork, Child, Wait, Exit, Kill, WildName, history
    <2>3. ASSUME NEW p \in Pid, NEW l \in Line, ReadLine(p, l) PROVE started' = started
        BY <2>3 DEF ReadLine
    <2>4. ASSUME NEW f \in File, Modify(f) PROVE started' = started
        BY <2>4 DEF Modify, history
    <2>5. CASE Extract \/ Record \/ Mark \/ Start \/ PowerFails
        BY <2>5 DEF Extract, Record, Mark, Start, PowerFails, history
    <2> QED  BY <1>1, <2>1, <2>2, <2>3, <2>4, <2>5 DEF Next, ShellStep
<1>2. ShellInv /\ [Next]_vars => [Later]_vars
    BY <1>1
<1> QED  BY <1>2, ShellInvariance, PTL DEF Spec, RunOnce

(* A program that nobody changed since check_valid has the parity of the   *)
(* extracted file, after any number of power failures under untar.         *)
THEOREM ChecksAreSound == Spec => []ChecksHold
<1>1. ASSUME ShellInv PROVE ChecksHold
    BY <1>1 DEF ShellInv, FileInv, ChecksHold, At, Parity
<1> QED  BY <1>1, ShellInvariance, PTL
=============================================================================
