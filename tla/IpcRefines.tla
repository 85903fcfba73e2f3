----------------------------- MODULE IpcRefines -----------------------------
(* Ipc implements Rendezvous: the refinement mapping reads what a process  *)
(* does off its flags, and forgets the order of the queues.                *)
EXTENDS Ipc

Doing(p) ==
    IF Sending(p) THEN [op |-> "offer", to |-> p_sendto[p]]
    ELSE IF Receiving(p) THEN [op |-> "await", from |-> p_recvfrom[p]]
    ELSE [op |-> "run"]

RV == INSTANCE Rendezvous WITH
        doing   <- [p \in Proc |-> Doing(p)],
        pending <- {p \in Proc : has_int_msg[p]},
        halted  <- halted # "no"
=============================================================================
