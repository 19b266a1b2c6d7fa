------------------------------ MODULE Streams ------------------------------
(***************************************************************************)
(* Why every client of Webserver gets its own answers, whole and in order, *)
(* and what ends the process: the inductive invariant, for clients that    *)
(* wait for their answers and frame their requests as readRequest expects  *)
(* them.  They may still leave and fail at any time, and send chunks that  *)
(* do not parse.                                                           *)
(***************************************************************************)
EXTENDS Webserver

\* The number of the request the first b tokens of c's script end in.
NumAt(c, b) == IF b = 0 THEN 0 ELSE Script[c][b].no

\* b tokens of c's script are a number of whole requests.
Boundary(c, b) ==
    b = 0 \/ b = Len(Script[c]) \/ NumAt(c, b) # NumAt(c, b + 1)

\* Requests are numbered from 1 on, and readRequest finds each of them complete
\* with its last token, not earlier.
Framed(c) ==
    LET s == Script[c]
    IN  /\ \A i \in DOMAIN s : s[i].no <= NumAt(c, i - 1) + 1
        /\ \A i \in DOMAIN s : s[i].no >= 1
        /\ \A i, j \in DOMAIN s : i < j => s[i].no <= s[j].no
        /\ \A b \in 0 .. Len(s) - 1 : \A i \in b + 1 .. Len(s) :
             LET r == SubSeq(s, b + 1, i)
             IN  Boundary(c, b) /\ s[b + 1].no = s[i].no =>
                    Complete(r, HeaderEnd(r)) <=> Boundary(c, i)

FramedScripts == \A c \in Clients : Framed(c)

\* decodeChunk can parse the chunks of every request c sends.
Parsable(c) ==
    \A b, m \in 0 .. Len(Script[c]) :
        Boundary(c, b) /\ Boundary(c, m) /\ NumAt(c, m) = NumAt(c, b) + 1
            => ~Garbled(SubSeq(Script[c], b + 1, m))

ParsableScripts == \A c \in Clients : Parsable(c)

\* Clients wait for the answer to a request before they send the next one.
AllWait == \A c \in Clients : c \notin Pipelining

\* They leave only when they have all their answers.
AllStay == \A c \in Clients : c \notin Impatient

\* There is a descriptor for every connection.
EnoughFds ==
    IsFiniteSet(Clients) /\ IsFiniteSet(Fds) /\ Cardinality(Fds) >= Cardinality(Clients)

---------------------------------------------------------------------------
(* What holds whatever clients do                                          *)

\* How many tokens of its script c has sent, and the server has read.
Issued(c) == Len(Script[c]) - Len(unsent[c])
Consumed(c) == Issued(c) - Len(inbox[c])

\* What c has to send and what is on its way are parts of its script.
InOrder(c) ==
    /\ Consumed(c) \in 0 .. Len(Script[c]) /\ Issued(c) \in 0 .. Len(Script[c])
    /\ unsent[c] = SubSeq(Script[c], Issued(c) + 1, Len(Script[c]))
    /\ inbox[c] = SubSeq(Script[c], Consumed(c) + 1, Issued(c))
TokensInOrder == \A c \in Clients : InOrder(c)

\* A connection waits in a backlog or has a descriptor, never two, and none
\* before it connects.
Waits(c) == \E l \in Listens : \E i \in DOMAIN backlog[l] : backlog[l][i] = c
HasFd(c) == \E f \in Fds : file[f] = c
OnePlaceEach ==
    /\ \A f, g \in Fds : Open(f) /\ file[f] = file[g] => f = g
    /\ \A l, m \in Listens : \A i \in DOMAIN backlog[l], j \in DOMAIN backlog[m] :
         backlog[l][i] = backlog[m][j] => l = m /\ i = j
    /\ \A c \in Clients : ~(Waits(c) /\ HasFd(c))
    /\ \A c \in Clients : peer[c] = "away" => ~Waits(c) /\ ~HasFd(c)

\* Only watched descriptors are heard, and nothing of an answer is out that is not
\* pending.
HearsWatched == pc = "dispatch" => sel.r \subseteq fdset
NothingHalfSent == \A i \in DOMAIN procs : ~procs[i].ready => procs[i].sent = 0

---------------------------------------------------------------------------
(* One connection                                                          *)

\* c has not begun a request before it got all answers to earlier ones.
Paced(c) == NumAt(c, Issued(c)) <= Answered(c) + 1

\* Nothing of an answer is missing in what was written to c.
AllWhole(c) == got[c] = <<>> \/ EndsAnswer(got[c][Len(got[c])])

\* The k-th piece written to c: whole answers to its requests follow each other, the
\* last one perhaps cut.
PieceFits(c, k) ==
    LET q == got[c][k]
        whole == k = 1 \/ EndsAnswer(got[c][k - 1])
    IN  /\ IF whole THEN q.from = 0
           ELSE q.from = got[c][k - 1].upto /\ q.res = got[c][k - 1].res
        /\ EndsAnswer(q) => q.res.toks = Sent(c, EndsUpTo(c, k))
PiecesFit(c) == \A k \in DOMAIN got[c] : PieceFits(c, k)

\* Entry p serves c, whose first b tokens are answered.  While it waits, it has
\* what was read of the next request, unless it gave up on the connection.
Waiting(c, p, b) ==
    /\ AllWhole(c)
    /\ p.fd \in fdset =>
         /\ b <= Consumed(c) /\ p.req = SubSeq(Script[c], b + 1, Consumed(c))
         /\ b < Consumed(c) => ~Boundary(c, Consumed(c))

\* While an answer is pending, it is the one to all that c has sent since.
Answering(c, p, b) ==
    /\ b < Consumed(c) /\ Consumed(c) = Issued(c) /\ Boundary(c, Issued(c))
    /\ NumAt(c, Issued(c)) = Answered(c) + 1
    /\ p.res.toks = Effective(SubSeq(Script[c], b + 1, Issued(c)))
    /\ p.sent < p.res.len
    /\ IF AllWhole(c) THEN p.sent = 0
       ELSE LET q == got[c][Len(got[c])] IN q.upto = p.sent /\ q.res = p.res

Serves(c, p) ==
    \E b \in 0 .. Len(Script[c]) :
        /\ Boundary(c, b) /\ NumAt(c, b) = Answered(c)
        /\ IF p.ready THEN Answering(c, p, b) ELSE Waiting(c, p, b)

\* The entry that is served for its descriptor.
Oldest(i) == \A j \in 1 .. i - 1 : procs[j].fd # procs[i].fd

\* Entries hold what their connections sent, and nothing of earlier ones.
EntriesFit ==
    \A i \in DOMAIN procs :
        /\ ~Open(procs[i].fd) => ~procs[i].ready /\ procs[i].req = <<>>
        /\ \A c \in Clients :
             Oldest(i) /\ file[procs[i].fd] = c => Serves(c, procs[i])

\* Nothing was read from or written to a connection that was never accepted.
NotYetRead(c) ==
    peer[c] = "away" \/ Waits(c) => Consumed(c) = 0 /\ got[c] = <<>>

AllFits ==
    /\ \A c \in Clients : Paced(c) /\ PiecesFit(c) /\ NotYetRead(c)
    /\ EntriesFit

\* c left before it got the answer to what it had begun to ask, and its connection
\* is gone: its entry may keep what the next connection at that descriptor gets.
Abandoned(c) == LeftEarly(c) /\ ~Waits(c) /\ ~HasFd(c)

\* c has begun to send what readRequest does not cut into requests where they end, or
\* is one of those that do not wait for answers and has begun its second request: its
\* entry may answer a part of a request, or several as one.
Strays(c) ==
    \/ Issued(c) > 0 /\ ~Framed(c)
    \/ c \in Pipelining /\ NumAt(c, Issued(c)) > 1

\* Every connection is served as it should be, until a client abandons one, or strays:
\* entries, buffers, cuts and descriptors belong together through every read, write,
\* accept and close.
StreamInv ==
    /\ TokensInOrder /\ OnePlaceEach /\ HearsWatched /\ NothingHalfSent /\ ShadowsIdle
    /\ AllFits \/ \E c \in Clients : Abandoned(c) \/ Strays(c)

\* All that c has sent since its last answered request is one request, to its end, and
\* decodeChunk cannot parse its chunks.
SentGarbled(c) ==
    \E b \in 0 .. Issued(c) :
        /\ Boundary(c, b) /\ NumAt(c, b) = Answered(c)
        /\ Boundary(c, Issued(c)) /\ NumAt(c, Issued(c)) = Answered(c) + 1
        /\ Garbled(SubSeq(Script[c], b + 1, Issued(c)))

\* The process ends for four causes only.  A client left before what it had begun to
\* ask was answered; or waits for the answer to a chunked request that does not parse,
\* however well it behaves else (decodeChunk throws); or strays, as said above; or a
\* connection comes in and every descriptor is taken.
EndsForCause ==
    [][pc # "stopped" /\ pc' = "stopped" =>
         \/ \E c \in Clients : LeftEarly(c) \/ SentGarbled(c) \/ Strays(c)
         \/ (\A f \in Fds : Open(f)) /\ \E l \in Listens : backlog[l] # <<>>]_vars

\* Nobody closes a connection on which something is left to ask or to answer.
NoneLeftEarly ==
    \A c \in Clients :
        /\ peer[c] # "rst"
        /\ peer[c] = "fin" => unsent[c] = <<>> /\ Answered(c) >= Asked(c)

\* With clients that stay until they have their answers every connection fits,
\* always.
Settled == AllFits /\ NoneLeftEarly
=============================================================================
