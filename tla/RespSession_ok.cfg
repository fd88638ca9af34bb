CONSTANTS
    Cmds <- MCCmdsOk
    Junk <- MCNoJunk
    MaxCmds = 3
    MaxParts = 3
    MaxSyms = 3
    Garbage = Garbage
    Faults = {}
SPECIFICATION Spec
\* After its last command the client stops and the server waits in
\* async_read_until forever: a legitimate end state.
CHECK_DEADLOCK FALSE
INVARIANTS TypeOK RepliesInOrder
PROPERTY EveryCommandAnswered
