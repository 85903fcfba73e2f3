\* The power may fail after the first boot has unpacked cmd.tar.
CONSTANTS
    Program <- MCProgram
    Text = {"t"}
    Line <- MCLine
    MAX_SHELL_PROC = 2
    Cells = 5
    MaxProcs = 2
    MaxLines = 1
SPECIFICATION Spec
INVARIANT Unpacked
CHECK_DEADLOCK FALSE
