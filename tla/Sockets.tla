------------------------------ MODULE Sockets ------------------------------
(***************************************************************************)
(* The environment of the event loop: the kernel's sockets, as             *)
(* webserver/ uses them, and the clients at the other end.  Everything     *)
(* here is external to the repository.  A client stands for one            *)
(* connection: it connects once, sends the tokens of its script, receives  *)
(* what is written to it, and leaves.                                      *)
(*                                                                         *)
(* A client outside Pipelining waits for the whole answer to a request     *)
(* before it sends the first byte of the next one.  A client outside       *)
(* Impatient leaves only when everything it sent has been answered; the    *)
(* others may close or reset their connection at any time.                 *)
(***************************************************************************)
EXTENDS Framing

CONSTANTS
    Listens,      \* the configured host:port pairs, numbered in config order
    Fds,          \* the descriptors the kernel has for connections
    Free,         \* the owner of a descriptor that is not open
    Port,         \* Port[c] is the listener client c connects to
    Script,       \* Script[c] is what client c sends: its requests' tokens
    SndBuf,       \* units a connection's send buffer holds
    BufSize,      \* tokens one recv() returns at most (BUF_SIZE - 1)
    Impatient,    \* the clients that may leave at any time
    Pipelining    \* the clients that send without waiting for answers

ASSUME SocketsAssumption ==
    /\ Listens \subseteq Nat
    /\ Fds \subseteq Nat
    /\ Free \notin Clients
    /\ Port \in [Clients -> Listens]
    /\ Script \in [Clients -> Seq(Token)]
    /\ SndBuf \in Nat \ {0}
    /\ BufSize \in Nat \ {0}

VARIABLES
    bound,        \* the listeners whose bind() succeeded
    backlog,      \* backlog[l]: connections of l waiting to be accepted
    file,         \* file[f]: the client whose connection descriptor f is
    peer,         \* "away", "open", "fin" (closed) or "rst" (reset)
    unsent,       \* unsent[c]: the rest of c's script
    inbox,        \* inbox[c]: tokens sent by c that the server has not read
    unread,       \* unread[c]: units written to c that c has not received
    got           \* got[c]: history of the writes to c, see Piece

netVars == <<bound, backlog, file, peer, unsent, inbox, unread, got>>
clientVars == <<peer, unsent, inbox, unread>>

\* An answer the server computed: toks is the request it answers, to the
\* connection whose bytes completed it, lis the listener the serving entry was
\* accepted on, ok whether the request line passed the parser, len its length.
Answer == [toks : Seq(Token), to : Clients, lis : Listens, ok : BOOLEAN,
           len : Nat]

\* One write(): the units from..upto-1 of an answer.
Piece == [res : Answer, from : Nat, upto : Nat]

SocketsTypeOK ==
    /\ bound \subseteq Listens
    /\ backlog \in [Listens -> Seq(Clients)]
    /\ file \in [Fds -> Clients \cup {Free}]
    /\ peer \in [Clients -> {"away", "open", "fin", "rst"}]
    /\ unsent \in [Clients -> Seq(Token)]
    /\ inbox \in [Clients -> Seq(Token)]
    /\ unread \in [Clients -> 0 .. SndBuf]
    /\ got \in [Clients -> Seq(Piece)]

\* bind() may fail for any of the listeners (port in use, no permission).
SocketsInit ==
    /\ bound \in SUBSET Listens
    /\ backlog = [l \in Listens |-> <<>>]
    /\ file = [f \in Fds |-> Free]
    /\ peer = [c \in Clients |-> "away"]
    /\ unsent = Script
    /\ inbox = [c \in Clients |-> <<>>]
    /\ unread = [c \in Clients |-> 0]
    /\ got = [c \in Clients |-> <<>>]

Open(f) == file[f] # Free
Readable(f) == inbox[file[f]] # <<>> \/ peer[file[f]] \in {"fin", "rst"}
Writable(f) == unread[file[f]] < SndBuf \/ peer[file[f]] = "rst"

\* How many answers were written to c to the end, and received by it.
EndsAnswer(q) == q.upto = q.res.len
Answered(c) == Cardinality({i \in DOMAIN got[c] : EndsAnswer(got[c][i])})
Received(c) == IF unread[c] = 0 THEN Answered(c) ELSE 0
Asked(c) == IF Script[c] = <<>> THEN 0 ELSE Last(Script[c]).no

Connect(c) ==
    /\ peer[c] = "away" /\ Port[c] \in bound
    /\ peer' = [peer EXCEPT ![c] = "open"]
    /\ backlog' = [backlog EXCEPT ![Port[c]] = Append(@, c)]
    /\ UNCHANGED <<bound, file, unsent, inbox, unread, got>>

\* The next token arrives at the server's socket.
Send(c) ==
    /\ peer[c] = "open" /\ unsent[c] # <<>>
    /\ c \in Pipelining \/ Received(c) >= Head(unsent[c]).no - 1
    /\ unsent' = [unsent EXCEPT ![c] = Tail(@)]
    /\ inbox' = [inbox EXCEPT ![c] = Append(@, Head(unsent[c]))]
    /\ UNCHANGED <<bound, backlog, file, peer, unread, got>>

\* The client receives what is in the send buffer.
Drain(c) ==
    /\ peer[c] = "open" /\ unread[c] > 0
    /\ unread' = [unread EXCEPT ![c] = 0]
    /\ UNCHANGED <<bound, backlog, file, peer, unsent, inbox, got>>

Fin(c) ==
    /\ peer[c] = "open"
    /\ c \in Impatient \/ (unsent[c] = <<>> /\ Received(c) >= Asked(c))
    /\ peer' = [peer EXCEPT ![c] = "fin"]
    /\ UNCHANGED <<bound, backlog, file, unsent, inbox, unread, got>>

\* A reset may come after a close: data was written to a closed socket.
Rst(c) ==
    /\ peer[c] \in {"open", "fin"} /\ c \in Impatient
    /\ peer' = [peer EXCEPT ![c] = "rst"]
    /\ UNCHANGED <<bound, backlog, file, unsent, inbox, unread, got>>

Client(c) == Connect(c) \/ Send(c) \/ Drain(c) \/ Fin(c) \/ Rst(c)
=============================================================================
