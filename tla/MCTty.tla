-------------------------------- MODULE MCTty --------------------------------
EXTENDS Tty

\* Both processes have opened the first console.
MCOpened == [u \in User |-> {0}]
=============================================================================
