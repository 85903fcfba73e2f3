CONSTANTS
    Program <- MCProgram
    Text = {"t"}
    Line <- MCLine
    MAX_SHELL_PROC = 2
    Cells = 5
    MaxProcs = 3
    MaxLines = 2
SPECIFICATION Spec
INVARIANTS ArgsExact  
  
\* The kernel stops when FS fails an assertion.
CHECK_DEADLOCK FALSE
