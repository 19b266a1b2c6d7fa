SPECIFICATION Spec
CONSTANTS
    c1 = c1
    c2 = c2
    c3 = c3
    Clients = {c1, c2}
    Listens = {1}
    Fds = {5}
    Free = Free
    Port <- OnePort
    Script <- PipeliningScript
    SndBuf = 2
    BufSize = 4
    Sizes = {1, 3}
    Impatient = {c2}
    Pipelining = {c2}
INVARIANTS
    NoMisdelivery
    HeaderIndexFresh
 
CHECK_DEADLOCK FALSE
