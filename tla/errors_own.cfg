SPECIFICATION Spec
CONSTANTS
    c1 = c1
    c2 = c2
    c3 = c3
    Clients = {c1, c2}
    Listens = {1, 2}
    Fds = {5, 6}
    Free = Free
    Port <- TwoPorts
    Script <- PoliteScript
    SndBuf = 2
    BufSize = 4
    Sizes = {1, 3}
    Impatient = {}
    Pipelining = {}
INVARIANT ErrorsAreOwn
CHECK_DEADLOCK FALSE
