SPECIFICATION CgiSpec
CONSTANTS
    MaxProcs = 3
    MaxCalls = 4
    Fds = {3, 4, 5, 6, 7, 8, 9, 10, 11}
    Bodies <- MCBodies
    Units = {"text", "nul"}
    MaxOut = 3
    BufSize = 2
INVARIANTS
    CgiTypeOK
    OneServer
    ScriptReadsBody
    OutputWhole
    DescriptorsReturned
PROPERTY ServiceReturns
CHECK_DEADLOCK FALSE
