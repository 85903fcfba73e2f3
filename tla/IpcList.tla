------------------------------ MODULE IpcList ------------------------------
(***************************************************************************)
(* The sending queues of kernel/proc.c as the code keeps them: a head      *)
(* pointer q_sending in the receiver, here first, and a next_sending       *)
(* pointer in every sender.  msg_send appends by walking to the tail,      *)
(* msg_receive finds the sender it wants by walking with a trailing prev   *)
(* pointer and unlinks it.  Everything else is as in Ipc.  The sequences   *)
(* q_sending of Ipc are history in this module: they note who came when,   *)
(* and no system call looks at them.                                       *)
(***************************************************************************)
EXTENDS IpcRefines

CONSTANT NULL      \* the null pointer

ASSUME NullAssumption == NULL \notin Proc

VARIABLES
    first,           \* the first of the processes blocked sending to one
    next_sending     \* the process behind one in its queue

lists    == <<first, next_sending>>
listVars == <<ipcVars, lists>>

\* The processes met on a walk from d's head along next_sending: those in
\* every set that holds the head and is closed under the walk.
Walk(d) ==
    {p \in Proc : \A S \in SUBSET Proc :
        (/\ first[d] \in S \cup {NULL}
         /\ \A q \in S : next_sending[q] \in S \cup {NULL}) => p \in S}

-----------------------------------------------------------------------------
\* Seeded fault: the new sender goes before the others.
AppendInFront(d, p) ==
    /\ first' = [first EXCEPT ![d] = p]
    /\ next_sending' = [next_sending EXCEPT ![p] = first[d]]

AppendToList(d, p) ==
    IF first[d] = NULL
    THEN /\ first' = [first EXCEPT ![d] = p]
         /\ next_sending' = [next_sending EXCEPT ![p] = NULL]
    ELSE LET tail == CHOOSE q \in Walk(d) : next_sending[q] = NULL
         IN  /\ next_sending' = [next_sending EXCEPT ![tail] = p, ![p] = NULL]
             /\ UNCHANGED first

ListSend(p, d, m) ==
    /\ Runnable(p)
    /\ p # d
    /\ \/ UNCHANGED lists /\ SendPanic(p, d, m)
       \/ UNCHANGED lists /\ SendDeliver(p, d, m)
       \/ SendBlock(p, d, m) /\ AppendToList(d, p)

-----------------------------------------------------------------------------
\* p_from: the head of the queue for ANY, a source blocked sending to p else.
From(p, src) ==
    IF src = ANY THEN {first[p]} \ {NULL}
    ELSE {s \in Proc : s = src /\ Sending(s) /\ p_sendto[s] = p}

\* Seeded fault: the next pointer of the node taken out is left dangling.
UnlinkDangling(p, from) ==
    IF from = first[p]
    THEN /\ first' = [first EXCEPT ![p] = next_sending[from]]
         /\ UNCHANGED next_sending
    ELSE LET prev == CHOOSE q \in Walk(p) : next_sending[q] = from
         IN  /\ next_sending' = [next_sending EXCEPT ![prev] = next_sending[from]]
             /\ UNCHANGED first

UnlinkFrom(p, from) ==
    IF from = first[p]
    THEN /\ first' = [first EXCEPT ![p] = next_sending[from]]
         /\ next_sending' = [next_sending EXCEPT ![from] = NULL]
    ELSE LET prev == CHOOSE q \in Walk(p) : next_sending[q] = from
         IN  /\ next_sending' = [next_sending EXCEPT
                    ![prev] = next_sending[from], ![from] = NULL]
             /\ UNCHANGED first

\* Where from stands among those who came to p.
Turn(p, from) == CHOOSE i \in DOMAIN q_sending[p] : q_sending[p][i] = from

ListReceive(p, src) ==
    /\ Runnable(p)
    /\ p # src
    /\ \/ UNCHANGED lists /\ ReceiveInt(p, src)
       \/ /\ ~TakesInt(p, src)
          /\ \E from \in From(p, src) :
                /\ TakeFrom(p, from) /\ UnlinkFrom(p, from)
                /\ q_sending' = [q_sending EXCEPT ![p] = Unlink(@, Turn(p, from))]
       \/ /\ ~TakesInt(p, src)
          /\ From(p, src) = {}
          /\ BlockReceiver(p, src) /\ UNCHANGED lists

-----------------------------------------------------------------------------
ListInit ==
    /\ IpcInit
    /\ first = [p \in Proc |-> NULL]
    /\ next_sending = [p \in Proc |-> NULL]

ListNext ==
    \/ \E p, d \in Proc, m \in Body : ListSend(p, d, m)
    \/ \E p \in Proc, src \in Source : IntDiscipline(p, src) /\ ListReceive(p, src)
    \/ \E t \in IntTask : UNCHANGED lists /\ InformInt(t)

ListSpec == ListInit /\ [][ListNext]_listVars

-----------------------------------------------------------------------------
(* The pointers form proper lists: every node is reached from exactly one  *)
(* place (one head or one predecessor), a process that is not blocked      *)
(* sending is in no list and its own pointer is clear, so that the next    *)
(* append after it starts from a clean tail.                               *)
ProperLists ==
    \A p \in Proc :
        LET holders == {d \in Proc : first[d] = p}
            preds   == {q \in Proc : next_sending[q] = p}
        IN  IF Sending(p)
            THEN \E q \in Proc : \/ holders = {q} /\ preds = {}
                                 \/ holders = {} /\ preds = {q}
            ELSE holders = {} /\ preds = {} /\ next_sending[p] = NULL

\* From d's head along next_sending one meets q and nobody else.
Spells(d, q) ==
    /\ first[d] = IF q = <<>> THEN NULL ELSE q[1]
    /\ \A i \in DOMAIN q :
          next_sending[q[i]] = IF i = Len(q) THEN NULL ELSE q[i + 1]

(* A list holds the senders in the order in which they came, whoever was   *)
(* taken out from between them: a RECEIVE of ANY, which takes the first of *)
(* the list, serves the one that has waited longest.                       *)
InOrder == \A d \in Proc : Spells(d, q_sending[d])

(* The whole of kernel/proc.c's message passing, lists and all, does what  *)
(* Rendezvous promises: every step of msg_send, msg_receive and inform_int *)
(* is a step of it, so no message is lost, repeated or misdirected, and    *)
(* the kernel halts only to refuse a circle of senders.                    *)
ImplementsRendezvous == RV!Spec

-----------------------------------------------------------------------------
(* The inductive invariant of the proofs in IpcProof, beside IpcInv.       *)
ListExact ==
    /\ first \in [Proc -> Proc \cup {NULL}]
    /\ next_sending \in [Proc -> Proc \cup {NULL}]
    /\ InOrder
    /\ \A p \in Proc : ~Sending(p) => next_sending[p] = NULL
=============================================================================
