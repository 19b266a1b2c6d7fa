----------------------------- MODULE Webserver -----------------------------
(***************************************************************************)
(* The event loop (webserver/Webserver.cpp) and the entries it serves      *)
(* (webserver/WebserverProcess.cpp).  One thread: select(), then exactly   *)
(* one of write, read or accept, for the first entry in the vector that    *)
(* select() reported.  Clients move between any two of these steps.        *)
(*                                                                         *)
(* Entries are appended to _process_v by accept and never removed.  When a *)
(* connection ends its entry keeps the closed descriptor's number, and     *)
(* serves whatever connection gets that number next.                       *)
(***************************************************************************)
EXTENDS Sockets

CONSTANT Sizes    \* the lengths an answer may have, in units

ASSUME SizesAssumption == Sizes \subseteq Nat \ {0}

VARIABLES
    procs,        \* _process_v
    fdset,        \* the connections in _fd_set
    sel,          \* what the last select() reported: writing, reading, accept
    pc            \* "select", "dispatch", or "stopped" after main returned

loopVars == <<procs, fdset, sel, pc>>
vars == <<netVars, loopVars>>

\* A WebserverProcess in _process_v.  res is meant only while ready; verdict is
\* what the parser found the last start line it looked at to be.
Verdicts == {"line", "badline", "mute"}
Entry == [fd : Fds, lis : Listens, req : Seq(Token), hidx : Nat,
          verdict : Verdicts, ready : BOOLEAN, res : Answer, sent : Nat]

NoneReady == [w |-> {}, r |-> {}, a |-> {}]

TypeOK ==
    /\ SocketsTypeOK
    /\ procs \in Seq(Entry)
    /\ fdset \subseteq Fds
    /\ sel \in [w : SUBSET Fds, r : SUBSET Fds, a : SUBSET Listens]
    /\ pc \in {"select", "dispatch", "stopped"}

Init ==
    /\ SocketsInit
    /\ procs = <<>>
    /\ fdset = {}
    /\ sel = NoneReady
    /\ pc = "select"

---------------------------------------------------------------------------
(* select()                                                                *)

\* Mutant: descriptors that are not open are left out, and nothing fails.
WritingSetOfOpen ==
    {procs[i].fd : i \in {j \in DOMAIN procs :
                             procs[j].ready /\ Open(procs[j].fd)}}

WritingSet == {procs[i].fd : i \in {j \in DOMAIN procs : procs[j].ready}}

\* A set holds a descriptor that is not open: EBADF.
BadFd == \E f \in fdset \cup WritingSet : ~Open(f)

\* The process ends: run() returns -1 or throws, main returns, and the kernel
\* closes every descriptor.
Exit ==
    /\ pc' = "stopped"
    /\ procs' = <<>> /\ fdset' = {} /\ sel' = NoneReady
    /\ bound' = {} /\ file' = [f \in Fds |-> Free]
    /\ backlog' = [l \in Listens |-> <<>>]
    /\ UNCHANGED <<clientVars, got>>

\* One call that returns with something ready.  The socket of a listener that
\* could not be bound is in _fd_set as well and is reported every time, so
\* that with such a listener select() never waits.
Select ==
    /\ pc = "select" /\ ~BadFd
    /\ sel' = [w |-> {f \in WritingSet : Writable(f)},
               r |-> {f \in fdset : Readable(f)},
               a |-> {l \in bound : backlog[l] # <<>>}]
    /\ sel' # NoneReady \/ bound # Listens
    /\ pc' = "dispatch"
    /\ UNCHANGED <<netVars, procs, fdset>>

SelectFails == pc = "select" /\ BadFd /\ Exit

---------------------------------------------------------------------------
(* The one event of an iteration                                           *)

Wanting == {i \in DOMAIN procs : procs[i].ready /\ procs[i].fd \in sel.w}
Hearing == {i \in DOMAIN procs : procs[i].fd \in sel.r}
\* Mutant: the newest entry first.
FirstIsNewest(i, S) == i \in S /\ \A j \in S : j <= i
First(i, S) == i \in S /\ \A j \in S : i <= j

Writer(i) == pc = "dispatch" /\ First(i, Wanting)
Reader(i) == pc = "dispatch" /\ Wanting = {} /\ First(i, Hearing)
Acceptor(l) ==
    pc = "dispatch" /\ Wanting = {} /\ Hearing = {} /\ First(l, sel.a)

Return == pc' = "select" /\ sel' = NoneReady

---------------------------------------------------------------------------
(* writeResponse                                                           *)

\* Mutants of Finished: one of the fields is not reset.
FinishedKeepsSent(p) == [p EXCEPT !.req = <<>>, !.hidx = 0, !.ready = FALSE]
FinishedKeepsReq(p) == [p EXCEPT !.hidx = 0, !.ready = FALSE, !.sent = 0]
FinishedKeepsHidx(p) == [p EXCEPT !.req = <<>>, !.ready = FALSE, !.sent = 0]

\* What writeResponse resets when the last byte is out.  Bytes of a further
\* request that are already in _req go with it.
Finished(p) == [p EXCEPT !.req = <<>>, !.hidx = 0, !.ready = FALSE, !.sent = 0]

\* write() takes as much of what is left as the send buffer has room for.
WriteSome(i) ==
    LET p == procs[i]
        c == file[p.fd]
        rest == p.res.len - p.sent
        room == SndBuf - unread[c]
        n == IF rest <= room THEN rest ELSE room
    IN  /\ Writer(i)
        /\ rest >= 0 /\ peer[c] # "rst"
        /\ got' = [got EXCEPT ![c] = Append(@,
                     [res |-> p.res, from |-> p.sent, upto |-> p.sent + n])]
        /\ unread' = [unread EXCEPT ![c] = @ + n]
        /\ procs' = [procs EXCEPT ![i] =
                       IF n = rest THEN Finished(p) ELSE [p EXCEPT !.sent = @ + n]]
        /\ Return
        /\ UNCHANGED <<bound, backlog, file, peer, unsent, inbox, fdset>>

\* The connection was reset: EPIPE, and run() gives up.
WriteFails(i) == Writer(i) /\ peer[file[procs[i].fd]] = "rst" /\ Exit

\* _res was replaced by a shorter answer after _write_ret_sum bytes of the old
\* one were sent: substr throws out_of_range.
WriteThrows(i) == Writer(i) /\ procs[i].sent > procs[i].res.len /\ Exit

---------------------------------------------------------------------------
(* readRequest and process                                                 *)

\* recv() returns what is there, at most BufSize.
Taken(c) == IF Len(inbox[c]) <= BufSize THEN Len(inbox[c]) ELSE BufSize

\* The entry after recv(): the bytes are appended, and the header's end is
\* looked for unless it was found before.
Extended(p, c) ==
    LET req == p.req \o SubSeq(inbox[c], 1, Taken(c))
    IN  [p EXCEPT !.req = req,
                  !.hidx = IF @ = 0 THEN HeaderEnd(req) ELSE @]

\* parseStartLine on the request process() found complete: _status_code is
\* never set back to 200, and once it is not 200 no line is parsed any more.
VerdictOn(p) ==
    LET kind == Head(Effective(p.req)).kind
    IN  IF p.verdict # "line" THEN p.verdict
        ELSE IF kind \in Verdicts THEN kind ELSE "badline"

\* A rejected method that the configuration allows: Response::run does nothing,
\* and _response is empty unless it still holds an answer not yet sent.
Unanswered(p) == VerdictOn(p) = "mute" /\ ~p.ready

\* process(): the request is decoded in place, parsed, and answered; what the
\* answer is, and with it its length n, depends on the files and the CGI.
Processed(p, n) ==
    LET req == Effective(p.req)
        v == VerdictOn(p)
    IN  [p EXCEPT !.req = req, !.verdict = v, !.ready = ~Unanswered(p),
                  !.res = IF v = "mute" THEN @
                          ELSE [toks |-> req, to |-> file[p.fd], lis |-> p.lis,
                                ok |-> v = "line", len |-> n]]

Receive(i) ==
    LET c == file[procs[i].fd]
    IN  /\ Reader(i) /\ inbox[c] # <<>>
        /\ inbox' = [inbox EXCEPT ![c] = SubSeq(@, Taken(c) + 1, Len(@))]
        /\ UNCHANGED <<bound, backlog, file, peer, unsent, unread, got>>

\* The entry as the rest of readRequest finds it.
Heard(i) == {Extended(procs[i], file[procs[i].fd])}

ReadWait(i) ==
    /\ Receive(i)
    /\ \E p \in Heard(i) :
         /\ ~Complete(p.req, p.hidx)
         /\ procs' = [procs EXCEPT ![i] = p]
    /\ Return /\ UNCHANGED fdset

ReadAnswer(i) ==
    /\ Receive(i)
    /\ \E p \in Heard(i) :
         /\ Complete(p.req, p.hidx) /\ ~Unanswered(p)
         /\ \E n \in Sizes : procs' = [procs EXCEPT ![i] = Processed(p, n)]
    /\ Return /\ UNCHANGED fdset

\* RETURN_ERROR: the connection leaves _fd_set and stays open.
ReadMute(i) ==
    /\ Receive(i)
    /\ \E p \in Heard(i) :
         /\ Complete(p.req, p.hidx) /\ Unanswered(p)
         /\ procs' = [procs EXCEPT ![i] = Processed(p, p.res.len)]
         /\ fdset' = fdset \ {p.fd}
    /\ Return

\* decodeChunk throws.
ReadThrows(i) ==
    /\ Reader(i) /\ inbox[file[procs[i].fd]] # <<>>
    /\ \E p \in Heard(i) : Complete(p.req, p.hidx) /\ Garbled(p.req)
    /\ Exit

\* Mutant: close() without FD_CLR.
ReadCloseKeepsSet(i) ==
    LET f == procs[i].fd
    IN  /\ Reader(i) /\ inbox[file[f]] = <<>> /\ peer[file[f]] = "fin"
        /\ file' = [file EXCEPT ![f] = Free]
        /\ Return
        /\ UNCHANGED <<bound, backlog, clientVars, got, procs, fdset>>

\* Mutant: FD_CLR without close().
ReadCloseKeepsOpen(i) ==
    LET f == procs[i].fd
    IN  /\ Reader(i) /\ inbox[file[f]] = <<>> /\ peer[file[f]] = "fin"
        /\ fdset' = fdset \ {f}
        /\ Return
        /\ UNCHANGED <<netVars, procs>>

\* recv() returned 0: RETURN_CLOSE.
ReadClose(i) ==
    LET f == procs[i].fd
    IN  /\ Reader(i) /\ inbox[file[f]] = <<>> /\ peer[file[f]] = "fin"
        /\ file' = [file EXCEPT ![f] = Free]
        /\ fdset' = fdset \ {f}
        /\ Return
        /\ UNCHANGED <<bound, backlog, clientVars, got, procs>>

\* recv() failed: -1 is RETURN_ERROR, and the descriptor is not closed.
ReadError(i) ==
    LET f == procs[i].fd
    IN  /\ Reader(i) /\ peer[file[f]] = "rst"
        /\ fdset' = fdset \ {f}
        /\ Return
        /\ UNCHANGED <<netVars, procs>>

---------------------------------------------------------------------------
(* accept                                                                  *)

\* Mutant: _header_index starts as -1, as _sent does.
FreshUnset(f, l) ==
    [fd |-> f, lis |-> l, req |-> <<>>, hidx |-> -1, verdict |-> "line",
     ready |-> FALSE, sent |-> 0,
     res |-> [toks |-> <<>>, to |-> Head(backlog[l]), lis |-> l, ok |-> TRUE,
              len |-> 0]]

\* A copy of the listener's entry with the new descriptor.
Fresh(f, l) ==
    [fd |-> f, lis |-> l, req |-> <<>>, hidx |-> 0, verdict |-> "line",
     ready |-> FALSE, sent |-> 0,
     res |-> [toks |-> <<>>, to |-> Head(backlog[l]), lis |-> l, ok |-> TRUE,
              len |-> 0]]

\* push_back copies the entries when it moves the vector, and operator= drops
\* the header index; when it does is the library's choice.
Moved(ps, moved) ==
    IF moved THEN [i \in DOMAIN ps |-> [ps[i] EXCEPT !.hidx = 0]] ELSE ps

\* The kernel hands out the lowest free descriptor.
Lowest(f) == file[f] = Free /\ \A g \in Fds : file[g] = Free => f <= g

Accept(l) ==
    /\ Acceptor(l)
    /\ \E f \in Fds, moved \in BOOLEAN :
         /\ Lowest(f)
         /\ procs' = Append(Moved(procs, moved), Fresh(f, l))
         /\ file' = [file EXCEPT ![f] = Head(backlog[l])]
         /\ fdset' = fdset \cup {f}
    /\ backlog' = [backlog EXCEPT ![l] = Tail(@)]
    /\ Return
    /\ UNCHANGED <<bound, clientVars, got>>

\* EMFILE: run() returns -1.
AcceptFails(l) == Acceptor(l) /\ (\A f \in Fds : Open(f)) /\ Exit

\* Only the socket of an unbound listener was reported: nothing matches it.
Spin ==
    /\ pc = "dispatch" /\ sel = NoneReady
    /\ pc' = "select"
    /\ UNCHANGED <<netVars, procs, fdset, sel>>

---------------------------------------------------------------------------
Entries(i) ==
    \/ WriteSome(i) \/ WriteFails(i) \/ WriteThrows(i)
    \/ ReadWait(i) \/ ReadAnswer(i) \/ ReadMute(i) \/ ReadThrows(i)
    \/ ReadClose(i) \/ ReadError(i)

Server ==
    \/ Select \/ SelectFails \/ Spin
    \/ \E i \in DOMAIN procs : Entries(i)
    \/ \E l \in Listens : Accept(l) \/ AcceptFails(l)

\* The model ends with the process.
Next ==
    \/ Server
    \/ /\ pc # "stopped"
       /\ \E c \in Clients : Client(c) /\ UNCHANGED loopVars

Spec == Init /\ [][Next]_vars

\* The one server thread keeps running; clients go on connecting, sending and
\* receiving, and none of them is obliged to close.
Fairness ==
    /\ WF_vars(Server)
    /\ \A c \in Clients :
         WF_vars((Connect(c) \/ Send(c) \/ Drain(c)) /\ UNCHANGED loopVars)

FairSpec == Spec /\ Fairness

---------------------------------------------------------------------------
(* Properties                                                              *)

\* Every descriptor the loop will hand to select() for reading is open: a
\* close() without FD_CLR would end the server at its next iteration.
SelectableFdsOpen == \A f \in fdset : Open(f)

\* An answer reaches only the connection whose bytes completed the request,
\* although entries keep the numbers of closed descriptors, and those numbers
\* are handed out again while old entries may have an answer pending.
NoMisdelivery ==
    \A c \in Clients : \A k \in DOMAIN got[c] : got[c][k].res.to = c

\* Of the entries that share a descriptor only the oldest ever holds input or
\* an answer: two entries never work on one connection.
ShadowsIdle ==
    \A j \in DOMAIN procs : \A i \in 1 .. j - 1 :
        procs[i].fd = procs[j].fd => procs[j].req = <<>> /\ ~procs[j].ready

\* The cached _header_index is never stale: it is unset or what searching the
\* buffer again would give, through appends, in-place decoding, completed
\* answers and moves of the vector.
HeaderIndexFresh ==
    \A i \in DOMAIN procs : procs[i].hidx \in {0, HeaderEnd(procs[i].req)}

\* Why answers stay with their owners.  What select() reported stays true until
\* the one event it allows is handled; and between two calls of select() an
\* entry with an answer pending still has its client's connection, or has just
\* lost it and the next select() fails.
LoopInv ==
    /\ SelectableFdsOpen
    /\ pc = "dispatch" =>
         /\ \A f \in sel.w \cup sel.r : Open(f)
         /\ \A l \in sel.a : backlog[l] # <<>>
    /\ \A i \in DOMAIN procs : procs[i].ready =>
         \/ file[procs[i].fd] = procs[i].res.to
         \/ pc = "select" /\ ~Open(procs[i].fd)

\* c left before what it had begun to ask was answered.
Begun(c) ==
    IF unsent[c] = Script[c] THEN 0 ELSE Script[c][Len(Script[c]) - Len(unsent[c])].no
LeftEarly(c) == peer[c] \in {"fin", "rst"} /\ Answered(c) < Begun(c)

\* The connections that keep a descriptor for good, no longer watched, are those
\* that failed and those whose entry met a method it has no answer to.
LostForCause ==
    \A f \in Fds : Open(f) /\ f \notin fdset =>
        \/ peer[file[f]] = "rst"
        \/ \E i \in DOMAIN procs : procs[i].fd = f /\ procs[i].verdict = "mute"

\* With clients that send well-formed requests, wait for their answers and leave
\* when they have them, the process never ends: no closed descriptor in a set, no
\* write to a departed client, no exception of a shorter answer or of a body that
\* does not parse.
NeverStops == pc # "stopped"

\* What a connection received is a sequence of whole answers, each cut into
\* consecutive pieces; only the last one may be incomplete.
StreamIntact ==
    \A c \in Clients : \A k \in DOMAIN got[c] :
        LET q == got[c][k]
            whole == k = 1 \/ EndsAnswer(got[c][k - 1])
        IN  IF whole THEN q.from = 0
            ELSE q.from = got[c][k - 1].upto /\ q.res = got[c][k - 1].res

\* The k-th whole answer on a connection answers the k-th request its client
\* sent, with exactly the header and body that were sent: none is lost,
\* repeated, answered early or mixed with another connection's bytes.
StartOf(c, k) == SelectInSeq(Script[c], LAMBDA t : t.no = k)
EndOf(c, k) ==
    IF StartOf(c, k + 1) = 0 THEN Len(Script[c]) ELSE StartOf(c, k + 1) - 1
Sent(c, k) == Effective(SubSeq(Script[c], StartOf(c, k), EndOf(c, k)))
EndsUpTo(c, i) == Cardinality({j \in 1 .. i : EndsAnswer(got[c][j])})
AnswersMatchRequests ==
    \A c \in Clients : \A i \in DOMAIN got[c] :
        EndsAnswer(got[c][i]) => got[c][i].res.toks = Sent(c, EndsUpTo(c, i))

\* To clients that wait for their answers the loop, with its entries, pieces
\* and descriptors, is Service: whole answers only, in order, one for each
\* request, none before its request is complete and none for ever missing.
FullySent(c) == IF unsent[c] = <<>> THEN Asked(c) ELSE Head(unsent[c]).no - 1
EndOfAnswer(c, k) ==
    CHOOSE i \in DOMAIN got[c] : EndsAnswer(got[c][i]) /\ EndsUpTo(c, i) = k
AnsweredTo(c) == [k \in 1 .. Answered(c) |-> got[c][EndOfAnswer(c, k)].res.toks]
PartSent(c) == got[c] # <<>> /\ ~EndsAnswer(Last(got[c]))
Promised == INSTANCE Service WITH
    Requests <- [c \in Clients |-> [k \in 1 .. Asked(c) |-> Sent(c, k)]],
    asked <- [c \in Clients |-> FullySent(c)],
    answered <- [c \in Clients |-> AnsweredTo(c)],
    partial <- [c \in Clients |-> PartSent(c)]
ImplementsService == Promised!ServiceSpec

\* Every client of a listener that could be bound gets all its answers, even
\* when another listener could not be bound and select() never waits.
EveryRequestAnswered ==
    \A c \in Clients : Port[c] \in bound ~> Received(c) = Asked(c)

\* A request is answered by the listener its client connected to (only blocks
\* whose port matches may be candidates, findServerBlock).
RightPort ==
    \A c \in Clients : \A k \in DOMAIN got[c] : got[c][k].res.lis = Port[c]

\* A request is rejected only for what its own start line says (checkMethod:
\* the status changes if the method is not a valid one).
ErrorsAreOwn ==
    \A c \in Clients : \A k \in DOMAIN got[c] :
        got[c][k].res.ok \/ Head(got[c][k].res.toks).kind # "line"

\* A chunked request is answered only when all of it has been received
\* (readRequest: "chunked and received whole, or not chunked").
WholeBodies ==
    \A c \in Clients : \A k \in DOMAIN got[c] :
        LET toks == got[c][k].res.toks
        IN  Chunked(toks) => toks = Sent(c, Head(toks).no)
=============================================================================
