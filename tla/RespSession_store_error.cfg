CONSTANTS
    Cmds <- MCCmdsStore
    Junk <- MCNoJunk
    MaxCmds = 3
    MaxParts = 3
    MaxSyms = 3
    Garbage = Garbage
    Faults = {"storeerr"}
SPECIFICATION Spec
\* After its last command the client stops and the server waits in
\* async_read_until, or the process has terminated: a legitimate end state.
CHECK_DEADLOCK FALSE
INVARIANT NoTeardown
