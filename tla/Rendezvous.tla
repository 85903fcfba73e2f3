----------------------------- MODULE Rendezvous -----------------------------
(***************************************************************************)
(* What the message passing of kernel/proc.c promises, without queues,     *)
(* flag bits or pointers: a process runs, offers a message to a process,   *)
(* or awaits one from a source.  An offer and a matching wait meet in one  *)
(* step, which moves the message and lets both sides run; an interrupt     *)
(* meets a wait in the same way or stays pending.  An offer that would     *)
(* close a circle of offers halts the kernel instead.                      *)
(***************************************************************************)
EXTENDS Naturals

CONSTANTS Proc, IntTask, Body, HARD_INT, ANY, INTERRUPT

VARIABLES
    doing,     \* what each process does: Run, an offer or a wait
    buf,       \* each process's message buffer
    pending,   \* the tasks with an interrupt they have not heard of
    halted     \* whether a circle of offers was refused

rvVars == <<doing, buf, pending, halted>>

Run            == [op |-> "run"]
Offering(d)    == [op |-> "offer", to |-> d]
Awaiting(src)  == [op |-> "await", from |-> src]
Wake(S)        == [p \in Proc |-> IF p \in S THEN Run ELSE doing[p]]

Offers(p, d)   == doing[p] = Offering(d)
Accepts(d, s)  == doing[d] \in {Awaiting(s), Awaiting(ANY)}

\* An offer from p to d would close a circle of offers back to p.
ClosesCircle(p, d) ==
    \A S \in SUBSET Proc :
        (d \in S /\ \A q \in S, r \in Proc : Offers(q, r) => r \in S) => p \in S

Init ==
    /\ doing = [p \in Proc |-> Run]
    /\ buf \in [Proc -> [source : Proc, body : Body]]
    /\ pending = {}
    /\ halted = FALSE

Send(p, d, m) ==
    /\ doing[p] = Run /\ p # d
    /\ LET msg == [source |-> p, body |-> m]
       IN  \/ /\ ClosesCircle(p, d)
              /\ halted' = TRUE
              /\ buf' = [buf EXCEPT ![p] = msg]
              /\ UNCHANGED doing
           \/ /\ ~ClosesCircle(p, d) /\ Accepts(d, p)
              /\ doing' = Wake({d})
              /\ buf' = [buf EXCEPT ![p] = msg, ![d] = msg]
              /\ UNCHANGED halted
           \/ /\ ~ClosesCircle(p, d) /\ ~Accepts(d, p)
              /\ doing' = [doing EXCEPT ![p] = Offering(d)]
              /\ buf' = [buf EXCEPT ![p] = msg]
              /\ UNCHANGED halted
    /\ UNCHANGED pending

\* The offers a wait for src can meet.
Offered(p, src) == {q \in Proc : Offers(q, p) /\ src \in {q, ANY}}
Heard(p, src)   == p \in pending /\ src \in {INTERRUPT, ANY}

Receive(p, src) ==
    /\ doing[p] = Run /\ p # src
    /\ \/ /\ Heard(p, src)
          /\ buf' = [buf EXCEPT ![p] = [source |-> INTERRUPT, body |-> HARD_INT]]
          /\ pending' = pending \ {p}
          /\ UNCHANGED doing
       \/ \E q \in Offered(p, src) :
          /\ ~Heard(p, src)
          /\ buf' = [buf EXCEPT ![p] = buf[q]]
          /\ doing' = Wake({q})
          /\ UNCHANGED pending
       \/ /\ ~Heard(p, src) /\ Offered(p, src) = {}
          /\ doing' = [doing EXCEPT ![p] = Awaiting(src)]
          /\ buf' = [buf EXCEPT ![p].source = p]
          /\ UNCHANGED pending
    /\ UNCHANGED halted

Interrupt(t) ==
    /\ IF Accepts(t, INTERRUPT)
       THEN /\ doing' = Wake({t})
            /\ buf' = [buf EXCEPT ![t] = [source |-> INTERRUPT, body |-> HARD_INT]]
            /\ UNCHANGED pending
       ELSE /\ pending' = pending \cup {t}
            /\ UNCHANGED <<doing, buf>>
    /\ UNCHANGED halted

Next ==
    /\ ~halted
    /\ \/ \E p, d \in Proc, m \in Body : Send(p, d, m)
       \/ \E p \in Proc, src \in Proc \cup {ANY, INTERRUPT} : Receive(p, src)
       \/ \E t \in IntTask : Interrupt(t)

Spec == Init /\ [][Next]_rvVars
=============================================================================
