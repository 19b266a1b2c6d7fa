SPECIFICATION Spec
CONSTANTS
    c1 = c1
    c2 = c2
    c3 = c3
    Clients = {c1, c2, c3}
    Listens = {1}
    Fds = {5, 6}
    Free = Free
    Port <- ThreeOnOnePort
    Script <- DepartingScript
    SndBuf = 2
    BufSize = 4
    Sizes = {3}
    Impatient = {c1, c2}
    Pipelining = {}
INVARIANTS
    StreamInv
    NoMisdelivery
    ShadowsIdle
    LoopInv
    LostForCause
PROPERTY EndsForCause
CHECK_DEADLOCK FALSE
