-------------------------- MODULE WebserverProofs --------------------------
(***************************************************************************)
(* Proofs about Webserver for any number of clients, listeners and         *)
(* descriptors, any scripts, any sizes, and clients that may pipeline,     *)
(* close and reset as they like.                                           *)
(***************************************************************************)
EXTENDS Webserver, SequenceTheorems, WellFoundedInduction, TLAPS

---------------------------------------------------------------------------
(* What the searches of Framing return, and what decoding a chunked        *)
(* request keeps of it, for requests of any length                         *)

\* A nonempty set of positions has a least one, and Min is it.
LEMMA LeastPosition ==
    ASSUME NEW S, S \subseteq Nat, S # {}
    PROVE  Min(S) \in S /\ \A x \in S : Min(S) <= x
<1> DEFINE Less == {ss \in Nat \X Nat : ss[1] < ss[2]}
<1>1. IsWellFoundedOn(Less, Nat)
  <2>1. OpToRel(<, Nat) = Less
    BY DEF OpToRel
  <2> QED
    BY <2>1, NatLessThanWellFounded
<1>2. PICK m \in S : \A y \in S : ~(<<y, m>> \in Less)
  <2> HIDE DEF Less
  <2> QED
    BY <1>1, WFMin
<1>3. ASSUME NEW y \in S
      PROVE  m <= y
  <2>1. y \in Nat /\ m \in Nat /\ (y < m => <<y, m>> \in Less)
    OBVIOUS
  <2> QED
    BY <1>2, <2>1
<1> QED
  BY <1>3, Zenon DEF Min

\* _req.find returns the first match, or "not found" when there is none.
LEMMA FirstOfIsFirst ==
    ASSUME NEW req \in Seq(Token), NEW K
    PROVE  /\ FirstOf(req, K) \in 0 .. Len(req)
           /\ FirstOf(req, K) # 0 =>
                /\ req[FirstOf(req, K)].kind \in K
                /\ \A i \in 1 .. FirstOf(req, K) - 1 : req[i].kind \notin K
           /\ FirstOf(req, K) = 0 => \A i \in 1 .. Len(req) : req[i].kind \notin K
<1> DEFINE I == {i \in 1 .. Len(req) : req[i].kind \in K}
<1>1. FirstOf(req, K) = IF I # {} THEN Min(I) ELSE 0
  BY DEF FirstOf, SelectInSeq
<1>2. CASE I = {}
  BY <1>1, <1>2
<1>3. CASE I # {}
  <2>1. Min(I) \in I /\ \A x \in I : Min(I) <= x
    <3>1. I \subseteq Nat
      OBVIOUS
    <3> HIDE DEF I
    <3> QED
      BY <1>3, <3>1, LeastPosition
  <2>2. FirstOf(req, K) \in I /\ \A x \in I : FirstOf(req, K) <= x
    BY <1>1, <1>3, <2>1
  <2>3. \A i \in 1 .. FirstOf(req, K) - 1 : req[i].kind \notin K
    BY <2>2
  <2> QED
    BY <2>2, <2>3
<1> QED
  BY <1>2, <1>3

\* A position that is the first match is what FirstOf returns.
LEMMA FirstOfUnique ==
    ASSUME NEW req \in Seq(Token), NEW K, NEW h \in 1 .. Len(req),
           req[h].kind \in K, \A i \in 1 .. h - 1 : req[i].kind \notin K
    PROVE  FirstOf(req, K) = h
<1> DEFINE f == FirstOf(req, K)
<1>1. /\ f \in 0 .. Len(req)
      /\ f # 0 => req[f].kind \in K /\ \A i \in 1 .. f - 1 : req[i].kind \notin K
      /\ f = 0 => \A i \in 1 .. Len(req) : req[i].kind \notin K
  BY FirstOfIsFirst
<1> HIDE DEF f
<1>2. f # 0
  BY <1>1
<1>3. ~(f < h) /\ ~(h < f)
  BY <1>1, <1>2
<1> QED
  BY <1>1, <1>3 DEF f

\* Bytes that arrive later do not move a header's end once it was found.
LEMMA HeaderEndStays ==
    ASSUME NEW req \in Seq(Token), NEW more \in Seq(Token), HeaderEnd(req) # 0
    PROVE  HeaderEnd(req \o more) = HeaderEnd(req)
<1> DEFINE K == {"eoh", "eoz", "last"}
           h == FirstOf(req, K)
<1>1. h \in 1 .. Len(req) /\ req[h].kind \in K
      /\ \A i \in 1 .. h - 1 : req[i].kind \notin K
  BY FirstOfIsFirst DEF HeaderEnd
<1>2. /\ req \o more \in Seq(Token)
      /\ Len(req \o more) = Len(req) + Len(more)
      /\ \A i \in 1 .. Len(req) : (req \o more)[i] = req[i]
  OBVIOUS
<1>3. Len(req) \in Nat /\ Len(more) \in Nat
  OBVIOUS
<1> HIDE DEF h
<1>4. FirstOf(req \o more, K) = h
  <2>1. h \in 1 .. Len(req \o more)
    BY <1>1, <1>2, <1>3
  <2>2. /\ (req \o more)[h].kind \in K
        /\ \A i \in 1 .. h - 1 : (req \o more)[i].kind \notin K
    BY <1>1, <1>2, <1>3
  <2> QED
    BY <1>2, <2>1, <2>2, FirstOfUnique
<1> QED
  BY <1>4 DEF HeaderEnd, h

\* decodeChunk keeps the header and never reaches beyond the buffer.
LEMMA ChunkCountBound ==
    ASSUME NEW req \in Seq(Token)
    PROVE  /\ HeaderEnd(req) \in 0 .. Len(req)
           /\ ChunkCount(req) \in Nat
           /\ HeaderEnd(req) + ChunkCount(req) <= Len(req)
<1> DEFINE h == HeaderEnd(req)
           rest == SubSeq(req, h + 1, Len(req))
           other == Kinds \ {"chunk"}
<1>1. h \in 0 .. Len(req)
  BY FirstOfIsFirst DEF HeaderEnd
<1>2. rest \in Seq(Token) /\ Len(rest) = Len(req) - h
  BY <1>1
<1>3. SelectInSeq(rest, LAMBDA t : t.kind # "chunk") = FirstOf(rest, other)
  <2>1. \A i \in 1 .. Len(rest) : rest[i].kind # "chunk" <=> rest[i].kind \in other
    <3> HIDE DEF rest
    <3>1. ASSUME NEW i \in 1 .. Len(rest)
          PROVE  rest[i].kind \in Kinds
      <4>1. rest[i] \in Token
        BY <1>2
      <4> QED
        BY <4>1 DEF Token
    <3> QED
      BY <3>1
  <2> HIDE DEF rest, other
  <2> QED
    BY <2>1 DEF FirstOf, SelectInSeq
<1>4. FirstOf(rest, other) \in 0 .. Len(rest)
  <2> HIDE DEF rest, other
  <2> QED
    BY <1>2, FirstOfIsFirst
<1>5. ChunkCount(req) = IF FirstOf(rest, other) = 0 THEN Len(rest)
                        ELSE FirstOf(rest, other) - 1
  BY <1>3 DEF ChunkCount
<1> QED
  <2> HIDE DEF rest, other, h
  <2> QED
    BY <1>1, <1>2, <1>4, <1>5 DEF h

\* What process() hands to the parser is a request buffer again, and its header
\* ends where it did: decoding in place leaves _header_index valid.
THEOREM EffectiveKeepsHeader ==
    ASSUME NEW req \in Seq(Token)
    PROVE  /\ Effective(req) \in Seq(Token)
           /\ HeaderEnd(Effective(req)) = HeaderEnd(req)
           /\ Len(Effective(req)) <= Len(req)
<1> DEFINE K == {"eoh", "eoz", "last"}
           h == HeaderEnd(req)
           n == ChunkCount(req)
           AsData(t) == [t EXCEPT !.kind = "data"]
<1>1. CASE ~Chunked(req)
  BY <1>1 DEF Effective
<1>2. CASE Chunked(req)
  <2>1. h \in 1 .. Len(req)
    <3>1. FirstOf(req, {"te"}) \in 0 .. Len(req)
      BY FirstOfIsFirst
    <3> QED
      BY <1>2, <3>1, ChunkCountBound DEF Chunked
  <2>2. n \in Nat /\ h + n <= Len(req)
    BY ChunkCountBound
  <2>3. req[h].kind \in K /\ \A i \in 1 .. h - 1 : req[i].kind \notin K
    BY <2>1, FirstOfIsFirst DEF HeaderEnd
  <2>4. Effective(req) = [i \in 1 .. h + n |->
            IF i <= h THEN req[i] ELSE AsData(req[i])]
    BY <1>2 DEF Effective, Decoded
  <2> HIDE DEF h, n
  <2>5. \A i \in 1 .. h + n : req[i] \in Token
    BY <2>1, <2>2
  <2>6. \A t \in Token : AsData(t) \in Token
    BY DEF Token, Kinds
  <2> HIDE DEF AsData
  <2>7. Effective(req) \in Seq(Token) /\ Len(Effective(req)) = h + n
    <3>1. \A i \in 1 .. h + n : Effective(req)[i] \in Token
      BY <2>4, <2>5, <2>6
    <3> QED
      BY <2>1, <2>2, <2>4, <3>1
  <2>8. \A i \in 1 .. h : Effective(req)[i] = req[i]
    BY <2>1, <2>2, <2>4
  <2>9. FirstOf(Effective(req), K) = h
    <3>1. h \in 1 .. Len(Effective(req))
      BY <2>1, <2>2, <2>7
    <3>2. /\ Effective(req)[h].kind \in K
          /\ \A i \in 1 .. h - 1 : Effective(req)[i].kind \notin K
      BY <2>1, <2>3, <2>8
    <3> QED
      BY <2>7, <3>1, <3>2, FirstOfUnique
  <2> QED
    BY <2>2, <2>7, <2>9 DEF HeaderEnd, h
<1> QED
  BY <1>1, <1>2

---------------------------------------------------------------------------

\* The inductive invariant: types, LoopInv, and the property it protects.
IInv == TypeOK /\ LoopInv /\ NoMisdelivery

USE SocketsAssumption, SizesAssumption

---------------------------------------------------------------------------
(* What the helpers of readRequest and writeResponse return                *)

\* recv() appends what it returned and touches nothing else of the entry but
\* the header index.
LEMMA ExtendedType ==
    ASSUME TypeOK, NEW p \in Entry, NEW c \in Clients
    PROVE  /\ Extended(p, c) \in Entry
           /\ Extended(p, c).fd = p.fd /\ Extended(p, c).lis = p.lis
           /\ Extended(p, c).ready = p.ready /\ Extended(p, c).res = p.res
           /\ SubSeq(inbox[c], Taken(c) + 1, Len(inbox[c])) \in Seq(Token)
<1> DEFINE more == SubSeq(inbox[c], 1, Taken(c))
           req == p.req \o more
<1>1. inbox[c] \in Seq(Token)
  BY DEF TypeOK, SocketsTypeOK
<1>2. Taken(c) \in 0 .. Len(inbox[c])
  BY <1>1 DEF Taken
<1>3. more \in Seq(Token) /\ SubSeq(inbox[c], Taken(c) + 1, Len(inbox[c])) \in Seq(Token)
  BY <1>1, <1>2
<1>4. p.req \in Seq(Token) /\ p.hidx \in Nat
  BY DEF Entry
<1>5. req \in Seq(Token)
  BY <1>3, <1>4
<1>6. HeaderEnd(req) \in Nat
  <2> HIDE DEF req
  <2> QED
    BY <1>5, ChunkCountBound
<1>7. Extended(p, c) = [p EXCEPT !.req = req,
          !.hidx = IF p.hidx = 0 THEN HeaderEnd(req) ELSE p.hidx]
  BY DEF Extended, Entry
<1> HIDE DEF req, more
<1> QED
  BY <1>3, <1>4, <1>5, <1>6, <1>7 DEF Entry

\* A written answer leaves an entry that has none.
LEMMA FinishedType ==
    ASSUME NEW p \in Entry
    PROVE  Finished(p) \in Entry /\ Finished(p).fd = p.fd /\ ~Finished(p).ready
<1>1. <<>> \in Seq(Token)
  OBVIOUS
<1> QED
  BY <1>1, Zenon DEF Finished, Entry

\* process() leaves the descriptor and the listener alone, and an answer it
\* makes is for the connection the entry's descriptor is at that moment.
LEMMA ProcessedType ==
    ASSUME TypeOK, NEW p \in Entry, file[p.fd] \in Clients, NEW n \in Nat
    PROVE  /\ Processed(p, n) \in Entry
           /\ Processed(p, n).fd = p.fd
           /\ Processed(p, n).ready =>
                \/ Processed(p, n).res.to = file[p.fd]
                \/ p.ready /\ Processed(p, n).res = p.res
<1>1. p.req \in Seq(Token)
  BY DEF Entry
<1>2. Effective(p.req) \in Seq(Token)
  BY <1>1, EffectiveKeepsHeader
<1>3. VerdictOn(p) \in Verdicts
  BY DEF VerdictOn, Entry, Verdicts
<1> DEFINE a == [toks |-> Effective(p.req), to |-> file[p.fd], lis |-> p.lis,
                 ok |-> VerdictOn(p) = "line", len |-> n]
<1>4. a \in Answer /\ a.to = file[p.fd]
  BY <1>2 DEF Answer, Entry
<1>5. Processed(p, n) = [p EXCEPT !.req = Effective(p.req),
          !.verdict = VerdictOn(p), !.ready = ~Unanswered(p),
          !.res = IF VerdictOn(p) = "mute" THEN p.res ELSE a]
  BY DEF Processed, Entry
<1>6. Unanswered(p) \in BOOLEAN /\ (VerdictOn(p) = "mute" /\ ~Unanswered(p) => p.ready)
  BY DEF Unanswered, Entry
<1> HIDE DEF a
<1> QED
  BY <1>2, <1>3, <1>4, <1>5, <1>6 DEF Entry

\* What the type of _process_v says of one of its entries.
LEMMA EntryType ==
    ASSUME TypeOK, NEW j \in DOMAIN procs
    PROVE  /\ procs[j] \in Entry /\ procs[j].fd \in Fds
           /\ procs[j].ready \in BOOLEAN
<1>1. procs[j] \in Entry
  BY DEF TypeOK
<1> QED
  BY <1>1 DEF Entry

---------------------------------------------------------------------------
(* The invariant holds initially and is kept by every step                 *)

\* Nothing is connected yet.
LEMMA InitEstablishes == Init => IInv
<1> SUFFICES ASSUME Init PROVE IInv
  OBVIOUS
<1>1. TypeOK
  BY DEF Init, SocketsInit, TypeOK, SocketsTypeOK, NoneReady
<1>2. LoopInv
  BY DEF Init, SocketsInit, LoopInv, SelectableFdsOpen
<1>3. NoMisdelivery
  BY DEF Init, SocketsInit, NoMisdelivery
<1> QED
  BY <1>1, <1>2, <1>3 DEF IInv

\* When the process ends nothing is left that could go wrong.
LEMMA ExitKeeps == ASSUME IInv, Exit PROVE IInv'
<1>1. TypeOK'
  BY DEF IInv, Exit, TypeOK, SocketsTypeOK, NoneReady, clientVars
<1>2. LoopInv'
  BY DEF Exit, LoopInv, SelectableFdsOpen
<1>3. NoMisdelivery'
  BY DEF IInv, Exit, NoMisdelivery
<1> QED
  BY <1>1, <1>2, <1>3 DEF IInv

\* Clients touch neither descriptors nor entries, and backlogs only grow.
LEMMA ClientKeeps ==
    ASSUME IInv, NEW c \in Clients, Client(c), UNCHANGED loopVars
    PROVE  IInv'
<1>1. /\ file' = file /\ got' = got /\ bound' = bound
      /\ procs' = procs /\ fdset' = fdset /\ sel' = sel /\ pc' = pc
  BY DEF Client, Connect, Send, Drain, Fin, Rst, loopVars
<1>2. SocketsTypeOK' /\ \A l \in Listens : backlog[l] # <<>> => backlog'[l] # <<>>
  <2>1. SocketsTypeOK
    BY DEF IInv, TypeOK
  <2>2. CASE Connect(c)
    <3>1. Port[c] \in Listens
      OBVIOUS
    <3>2. Append(backlog[Port[c]], c) \in Seq(Clients)
          /\ Append(backlog[Port[c]], c) # <<>>
      <4>1. backlog[Port[c]] \in Seq(Clients)
        BY <2>1, <3>1 DEF SocketsTypeOK
      <4>2. \A b \in Seq(Clients) : Append(b, c) \in Seq(Clients) /\ Append(b, c) # <<>>
        BY AppendProperties
      <4> QED
        BY <4>1, <4>2
    <3>3. backlog' \in [Listens -> Seq(Clients)]
          /\ \A l \in Listens : backlog[l] # <<>> => backlog'[l] # <<>>
      BY <2>1, <2>2, <3>2 DEF Connect, SocketsTypeOK
    <3> QED
      BY <2>1, <2>2, <3>3 DEF Connect, SocketsTypeOK
  <2>3. CASE Send(c)
    BY <2>1, <2>3 DEF Send, SocketsTypeOK
  <2>4. CASE Drain(c)
    BY <2>1, <2>4 DEF Drain, SocketsTypeOK
  <2>5. CASE Fin(c)
    BY <2>1, <2>5 DEF Fin, SocketsTypeOK
  <2>6. CASE Rst(c)
    BY <2>1, <2>6 DEF Rst, SocketsTypeOK
  <2> QED
    BY <2>2, <2>3, <2>4, <2>5, <2>6 DEF Client
<1>3. TypeOK'
  BY <1>1, <1>2 DEF IInv, TypeOK
<1>4. LoopInv'
  <2>1. sel.a \subseteq Listens
    BY DEF IInv, TypeOK
  <2> QED
    BY <1>1, <1>2, <2>1 DEF IInv, LoopInv, SelectableFdsOpen, Open
<1>5. NoMisdelivery'
  BY <1>1 DEF IInv, NoMisdelivery
<1> QED
  BY <1>3, <1>4, <1>5 DEF IInv

\* A select() that succeeds has seen every descriptor of its sets open.
LEMMA SelectKeeps == ASSUME IInv, Select PROVE IInv'
<1>1. TypeOK'
  <2>1. WritingSet \subseteq Fds
    BY EntryType DEF IInv, WritingSet
  <2> QED
    BY <2>1 DEF IInv, Select, TypeOK, SocketsTypeOK, netVars
<1>2. LoopInv'
  <2>1. \A f \in fdset \cup WritingSet : Open(f)
    BY DEF Select, BadFd
  <2>2. /\ sel'.w \subseteq WritingSet /\ sel'.r \subseteq fdset
        /\ \A l \in sel'.a : backlog[l] # <<>>
    BY DEF Select
  <2>3. \A i \in DOMAIN procs : procs[i].ready => Open(procs[i].fd)
    BY <2>1 DEF WritingSet
  <2>4. UNCHANGED <<file, backlog, procs, fdset>> /\ pc' = "dispatch"
    BY DEF Select, netVars
  <2> QED
    BY <2>1, <2>2, <2>3, <2>4 DEF IInv, LoopInv, SelectableFdsOpen, Open
<1>3. NoMisdelivery'
  BY DEF IInv, Select, netVars, NoMisdelivery
<1> QED
  BY <1>1, <1>2, <1>3 DEF IInv

\* An iteration without an event changes nothing.
LEMMA SpinKeeps == ASSUME IInv, Spin PROVE IInv'
<1>1. TypeOK'
  BY DEF IInv, Spin, TypeOK, SocketsTypeOK, netVars
<1>2. LoopInv'
  BY DEF IInv, Spin, netVars, LoopInv, SelectableFdsOpen, Open
<1>3. NoMisdelivery'
  BY DEF IInv, Spin, netVars, NoMisdelivery
<1> QED
  BY <1>1, <1>2, <1>3 DEF IInv

\* At dispatch, the entry that is served has a client at its descriptor, and a
\* ready entry has its own.
LEMMA Served ==
    ASSUME IInv, NEW i, Writer(i) \/ Reader(i)
    PROVE  /\ i \in DOMAIN procs /\ procs[i] \in Entry
           /\ procs[i].fd \in Fds
           /\ file[procs[i].fd] \in Clients
           /\ \A j \in DOMAIN procs :
                procs[j].ready => file[procs[j].fd] = procs[j].res.to
           /\ pc = "dispatch"
<1>1. i \in DOMAIN procs /\ pc = "dispatch"
  BY DEF Writer, Reader, First, Wanting, Hearing
<1>2. procs[i].fd \in sel.w \cup sel.r
  BY DEF Writer, Reader, First, Wanting, Hearing
<1>3. procs[i] \in Entry /\ procs[i].fd \in Fds
  BY <1>1, EntryType DEF IInv
<1>4. file[procs[i].fd] \in Clients
  BY <1>1, <1>2, <1>3 DEF IInv, TypeOK, SocketsTypeOK, LoopInv, Open
<1>5. \A j \in DOMAIN procs :
        procs[j].ready => file[procs[j].fd] = procs[j].res.to
  BY <1>1 DEF IInv, LoopInv
<1> QED
  BY <1>1, <1>3, <1>4, <1>5

\* Storing an entry in the vector.
LEMMA Replaced ==
    ASSUME TypeOK, NEW i \in DOMAIN procs, NEW e \in Entry,
           procs' = [procs EXCEPT ![i] = e]
    PROVE  /\ procs' \in Seq(Entry)
           /\ DOMAIN procs' = DOMAIN procs /\ procs'[i] = e
           /\ \A j \in DOMAIN procs : j # i => procs'[j] = procs[j]
<1>1. procs \in Seq(Entry)
  BY DEF TypeOK
<1> QED
  BY <1>1, ExceptSeq

\* After the event of an iteration the loop is back at select(): an entry that
\* kept or was given its client's answer keeps LoopInv.
LEMMA ReturnKeepsLoopInv ==
    ASSUME IInv, pc = "dispatch", Return, NEW i \in DOMAIN procs, NEW e \in Entry,
           procs' = [procs EXCEPT ![i] = e], file' = file, fdset' \subseteq fdset,
           e.fd = procs[i].fd,
           e.ready => file[e.fd] = e.res.to
    PROVE  LoopInv'
<1>1. /\ DOMAIN procs' = DOMAIN procs /\ procs'[i] = e
      /\ \A j \in DOMAIN procs : j # i => procs'[j] = procs[j]
  BY Replaced DEF IInv
<1>2. \A j \in DOMAIN procs' :
         procs'[j].ready => file'[procs'[j].fd] = procs'[j].res.to
  BY <1>1 DEF IInv, LoopInv
<1>3. SelectableFdsOpen' /\ pc' = "select"
  BY DEF IInv, LoopInv, SelectableFdsOpen, Open, Return
<1> QED
  BY <1>2, <1>3 DEF LoopInv

\* The piece that is written is of the answer to the client at the descriptor.
LEMMA WriteKeeps == ASSUME IInv, NEW i, WriteSome(i) PROVE IInv'
<1> DEFINE p == procs[i]
           c == file[p.fd]
           rest == p.res.len - p.sent
           room == SndBuf - unread[c]
           n == IF rest <= room THEN rest ELSE room
           q == [res |-> p.res, from |-> p.sent, upto |-> p.sent + n]
           e == IF n = rest THEN Finished(p) ELSE [p EXCEPT !.sent = p.sent + n]
<1>1. /\ i \in DOMAIN procs /\ p \in Entry /\ p.fd \in Fds /\ c \in Clients
      /\ p.ready /\ p.res.to = c /\ pc = "dispatch"
  <2>1. Writer(i)
    BY DEF WriteSome
  <2>2. p.ready
    BY <2>1 DEF Writer, First, Wanting
  <2> QED
    BY <2>1, <2>2, Served
<1>2. /\ got' = [got EXCEPT ![c] = Append(got[c], q)]
      /\ unread' = [unread EXCEPT ![c] = unread[c] + n]
      /\ procs' = [procs EXCEPT ![i] = e]
      /\ rest >= 0 /\ Return
      /\ UNCHANGED <<bound, backlog, file, peer, unsent, inbox, fdset>>
  BY <1>1 DEF WriteSome, Entry
<1>3. p.res \in Answer /\ p.res.len \in Nat /\ p.sent \in Nat
  BY <1>1 DEF Entry, Answer
<1>4. unread[c] \in 0 .. SndBuf
  BY <1>1 DEF IInv, TypeOK, SocketsTypeOK
<1>5. n \in Nat /\ unread[c] + n \in 0 .. SndBuf /\ p.sent + n \in Nat
  <2>1. rest \in Nat
    BY <1>2, <1>3
  <2>2. room \in Nat /\ unread[c] + room = SndBuf
    <3> HIDE DEF c
    <3> QED
      BY <1>4, SocketsAssumption DEF SocketsAssumption
  <2>3. n \in Nat /\ n <= room
    <3> HIDE DEF rest, room
    <3> QED
      BY <2>1, <2>2
  <2> HIDE DEF p, c, rest, room, n
  <2> QED
    BY <1>3, <1>4, <2>2, <2>3
<1>6. q \in Piece /\ q.res.to = c
  BY <1>1, <1>3, <1>5 DEF Piece
<1>7. e \in Entry /\ e.fd = p.fd /\ (e.ready => e.res = p.res)
  <2>1. Finished(p) \in Entry /\ Finished(p).fd = p.fd /\ ~Finished(p).ready
    BY <1>1, FinishedType
  <2>2. [p EXCEPT !.sent = p.sent + n] \in Entry
    <3> HIDE DEF p, n
    <3> QED
      BY <1>1, <1>5 DEF Entry
  <2> HIDE DEF p, n
  <2> QED
    BY <1>1, <2>1, <2>2 DEF Entry
<1> HIDE DEF q, e, n, rest, room
<1>8. TypeOK'
  <2>1. got[c] \in Seq(Piece)
    BY <1>1 DEF IInv, TypeOK, SocketsTypeOK
  <2>2. Append(got[c], q) \in Seq(Piece)
    BY <2>1, <1>6, AppendProperties
  <2>3. got' \in [Clients -> Seq(Piece)]
    BY <1>1, <1>2, <2>2 DEF IInv, TypeOK, SocketsTypeOK
  <2>4. unread' \in [Clients -> 0 .. SndBuf]
    BY <1>1, <1>2, <1>5 DEF IInv, TypeOK, SocketsTypeOK
  <2>5. SocketsTypeOK'
    BY <1>2, <2>3, <2>4 DEF IInv, TypeOK, SocketsTypeOK
  <2>6. procs' \in Seq(Entry)
    BY <1>1, <1>2, <1>7, Replaced DEF IInv
  <2> QED
    BY <1>2, <2>5, <2>6 DEF IInv, TypeOK, Return, NoneReady
<1>9. LoopInv'
  BY <1>1, <1>2, <1>7, ReturnKeepsLoopInv
<1>10. NoMisdelivery'
  <2>1. got[c] \in Seq(Piece) /\ got \in [Clients -> Seq(Piece)]
    BY <1>1 DEF IInv, TypeOK, SocketsTypeOK
  <2>2. \A k \in DOMAIN Append(got[c], q) : Append(got[c], q)[k].res.to = c
    <3>1. \A k \in DOMAIN got[c] : got[c][k].res.to = c
      BY <1>1 DEF IInv, NoMisdelivery
    <3>2. /\ DOMAIN Append(got[c], q) = 1 .. Len(got[c]) + 1
          /\ \A k \in 1 .. Len(got[c]) : Append(got[c], q)[k] = got[c][k]
          /\ Append(got[c], q)[Len(got[c]) + 1] = q
      BY <2>1, <1>6, AppendProperties
    <3> QED
      BY <1>6, <2>1, <3>1, <3>2
  <2>3. ASSUME NEW d \in Clients, NEW k \in DOMAIN got'[d]
        PROVE  got'[d][k].res.to = d
    <3>1. CASE d = c
      BY <1>2, <2>1, <2>2, <3>1
    <3>2. CASE d # c
      BY <1>2, <2>1, <3>2 DEF IInv, NoMisdelivery
    <3> QED
      BY <3>1, <3>2
  <2> QED
    BY <2>3 DEF NoMisdelivery
<1> QED
  BY <1>8, <1>9, <1>10 DEF IInv

\* Storing the entry that readRequest leaves, after the bytes left the inbox.
LEMMA ReceiveKeeps ==
    ASSUME IInv, NEW i, Receive(i), Return, fdset' \subseteq fdset,
           NEW e \in Entry, procs' = [procs EXCEPT ![i] = e],
           e.fd = procs[i].fd, e.ready => file[e.fd] = e.res.to
    PROVE  IInv'
<1> DEFINE c == file[procs[i].fd]
           rest == SubSeq(inbox[c], Taken(c) + 1, Len(inbox[c]))
<1>1. i \in DOMAIN procs /\ procs[i] \in Entry /\ c \in Clients /\ pc = "dispatch"
  BY Served DEF Receive
<1>2. /\ inbox' = [inbox EXCEPT ![c] = rest]
      /\ UNCHANGED <<bound, backlog, file, peer, unsent, unread, got>>
  BY <1>1 DEF Receive, IInv, TypeOK, SocketsTypeOK
<1>3. TypeOK'
  <2>1. rest \in Seq(Token)
    BY <1>1, ExtendedType DEF IInv
  <2> HIDE DEF c, rest
  <2>2. SocketsTypeOK'
    BY <1>1, <1>2, <2>1 DEF IInv, TypeOK, SocketsTypeOK
  <2>3. procs' \in Seq(Entry)
    BY <1>1, Replaced DEF IInv
  <2> QED
    BY <2>2, <2>3 DEF IInv, TypeOK, Return, NoneReady
<1>4. LoopInv'
  BY <1>1, <1>2, ReturnKeepsLoopInv
<1>5. NoMisdelivery'
  BY <1>2 DEF IInv, NoMisdelivery
<1> QED
  BY <1>3, <1>4, <1>5 DEF IInv

\* readRequest, whether it waits, answers or gives up on the request.
LEMMA ReadKeeps ==
    ASSUME IInv, NEW i, ReadWait(i) \/ ReadAnswer(i) \/ ReadMute(i)
    PROVE  IInv'
<1> DEFINE x == Extended(procs[i], file[procs[i].fd])
<1>1. Receive(i) /\ Return /\ fdset' \subseteq fdset
  BY DEF ReadWait, ReadAnswer, ReadMute
<1>2. /\ i \in DOMAIN procs /\ procs[i] \in Entry /\ file[procs[i].fd] \in Clients
      /\ \A j \in DOMAIN procs :
           procs[j].ready => file[procs[j].fd] = procs[j].res.to
  BY <1>1, Served DEF Receive
<1>3. /\ x \in Entry /\ x.fd = procs[i].fd
      /\ x.ready = procs[i].ready /\ x.res = procs[i].res
  BY <1>2, ExtendedType DEF IInv
<1> HIDE DEF x
<1>4. CASE ReadWait(i)
  <2>1. procs' = [procs EXCEPT ![i] = x]
    BY <1>4 DEF ReadWait, Heard, x
  <2> QED
    BY <1>1, <1>2, <1>3, <2>1, ReceiveKeeps
<1>5. CASE ReadAnswer(i) \/ ReadMute(i)
  <2>1. PICK n \in Nat : procs' = [procs EXCEPT ![i] = Processed(x, n)]
    <3>1. CASE ReadAnswer(i)
      BY <3>1 DEF ReadAnswer, Heard, x
    <3>2. CASE ReadMute(i)
      <4>1. procs' = [procs EXCEPT ![i] = Processed(x, x.res.len)]
        BY <3>2 DEF ReadMute, Heard, x
      <4>2. x.res.len \in Nat
        BY <1>3 DEF Entry, Answer
      <4> QED
        BY <4>1, <4>2
    <3> QED
      BY <1>5, <3>1, <3>2
  <2>2. /\ Processed(x, n) \in Entry /\ Processed(x, n).fd = x.fd
        /\ Processed(x, n).ready =>
             \/ Processed(x, n).res.to = file[x.fd]
             \/ x.ready /\ Processed(x, n).res = x.res
    BY <1>2, <1>3, ProcessedType DEF IInv
  <2>3. Processed(x, n).ready =>
          file[Processed(x, n).fd] = Processed(x, n).res.to
    BY <1>2, <1>3, <2>2
  <2> QED
    BY <1>1, <1>3, <2>1, <2>2, <2>3, ReceiveKeeps
<1> QED
  BY <1>4, <1>5

\* A close takes the descriptor out of the set; if its entry has an answer
\* pending, the descriptor is free until the next select(), which fails.
LEMMA CloseKeeps == ASSUME IInv, NEW i, ReadClose(i) PROVE IInv'
<1> DEFINE f == procs[i].fd
<1>1. /\ f \in Fds /\ pc = "dispatch"
      /\ \A j \in DOMAIN procs :
           procs[j].ready => file[procs[j].fd] = procs[j].res.to
  BY Served DEF ReadClose
<1>2. /\ file' = [file EXCEPT ![f] = Free] /\ fdset' = fdset \ {f}
      /\ Return
      /\ UNCHANGED <<bound, backlog, peer, unsent, inbox, unread, got, procs>>
  BY DEF ReadClose, clientVars
<1>3. file \in [Fds -> Clients \cup {Free}]
  BY DEF IInv, TypeOK, SocketsTypeOK
<1> HIDE DEF f
<1>4. TypeOK'
  BY <1>1, <1>2, <1>3 DEF IInv, TypeOK, SocketsTypeOK, Return, NoneReady
<1>5. LoopInv'
  <2>1. \A g \in fdset' : Open(g)'
    BY <1>2, <1>3 DEF IInv, LoopInv, SelectableFdsOpen, Open, TypeOK
  <2>2. ASSUME NEW j \in DOMAIN procs, procs[j].ready
        PROVE  file'[procs[j].fd] = procs[j].res.to \/ file'[procs[j].fd] = Free
    <3>1. procs[j].fd \in Fds
      BY EntryType DEF IInv
    <3> QED
      BY <1>1, <1>2, <1>3, <2>2, <3>1
  <2> QED
    BY <1>2, <2>1, <2>2 DEF LoopInv, SelectableFdsOpen, Open, Return
<1>6. NoMisdelivery'
  BY <1>2 DEF IInv, NoMisdelivery
<1> QED
  BY <1>4, <1>5, <1>6 DEF IInv

\* A failed recv() only takes the descriptor out of the set.
LEMMA ErrorKeeps == ASSUME IInv, NEW i, ReadError(i) PROVE IInv'
<1>1. /\ fdset' \subseteq fdset /\ Return
      /\ UNCHANGED <<netVars, procs>>
  BY DEF ReadError
<1>2. pc = "dispatch"
  BY DEF ReadError, Reader
<1>3. TypeOK'
  BY <1>1 DEF IInv, TypeOK, SocketsTypeOK, netVars, Return, NoneReady
<1>4. LoopInv'
  BY <1>1, <1>2 DEF IInv, LoopInv, SelectableFdsOpen, Open, Return, netVars
<1>5. NoMisdelivery'
  BY <1>1 DEF IInv, NoMisdelivery, netVars
<1> QED
  BY <1>3, <1>4, <1>5 DEF IInv

\* The new entry's descriptor was free, so no pending answer is meant for it;
\* moving the vector changes only header indexes.
LEMMA AcceptKeeps ==
    ASSUME IInv, NEW l \in Listens, Accept(l)
    PROVE  IInv'
<1>1. pc = "dispatch" /\ l \in sel.a
  BY DEF Accept, Acceptor, First
<1>2. backlog[l] \in Seq(Clients) /\ backlog[l] # <<>>
  BY <1>1 DEF IInv, TypeOK, SocketsTypeOK, LoopInv
<1>3. PICK f \in Fds, moved \in BOOLEAN :
         /\ Lowest(f)
         /\ procs' = Append(Moved(procs, moved), Fresh(f, l))
         /\ file' = [file EXCEPT ![f] = Head(backlog[l])]
         /\ fdset' = fdset \cup {f}
  BY DEF Accept
<1>4. /\ backlog' = [backlog EXCEPT ![l] = Tail(backlog[l])] /\ Return
      /\ UNCHANGED <<bound, peer, unsent, inbox, unread, got>>
  BY DEF Accept, clientVars
<1> DEFINE ps == Moved(procs, moved)
           e == Fresh(f, l)
           d == Head(backlog[l])
<1>5. d \in Clients /\ Tail(backlog[l]) \in Seq(Clients)
  BY <1>2
<1>6. e \in Entry /\ ~e.ready
  <2>1. <<>> \in Seq(Token) /\ 0 \in Nat
    OBVIOUS
  <2>2. [toks |-> <<>>, to |-> d, lis |-> l, ok |-> TRUE, len |-> 0] \in Answer
    BY <1>5, <2>1, Zenon DEF Answer
  <2> QED
    BY <2>1, <2>2, Zenon DEF Fresh, Entry, Verdicts
<1>7. procs \in Seq(Entry)
  BY DEF IInv, TypeOK
<1>8. /\ ps \in Seq(Entry) /\ Len(ps) = Len(procs)
      /\ \A j \in 1 .. Len(procs) : /\ ps[j].fd = procs[j].fd
                                    /\ ps[j].ready = procs[j].ready
                                    /\ ps[j].res = procs[j].res
  <2>1. CASE moved
    <3> DEFINE m(p) == [p EXCEPT !.hidx = 0]
    <3>1. \A p \in Entry : /\ m(p) \in Entry /\ m(p).fd = p.fd
                           /\ m(p).ready = p.ready /\ m(p).res = p.res
      BY DEF Entry
    <3>2. ps = [j \in 1 .. Len(procs) |-> m(procs[j])]
      BY <2>1, <1>7 DEF Moved
    <3> HIDE DEF m, ps
    <3>3. \A j \in 1 .. Len(procs) : procs[j] \in Entry
      BY <1>7
    <3> QED
      BY <1>7, <3>1, <3>2, <3>3
  <2>2. CASE ~moved
    BY <2>2, <1>7 DEF Moved
  <2> QED
    BY <2>1, <2>2
<1> HIDE DEF ps, e, d
<1>9. /\ procs' \in Seq(Entry) /\ Len(procs') = Len(procs) + 1
      /\ procs'[Len(procs) + 1] = e
      /\ \A j \in 1 .. Len(procs) : procs'[j] = ps[j]
  BY <1>3, <1>6, <1>8, AppendProperties DEF ps, e
<1>10. /\ file \in [Fds -> Clients \cup {Free}] /\ file[f] = Free
       /\ file' = [file EXCEPT ![f] = d]
  BY <1>3 DEF IInv, TypeOK, SocketsTypeOK, Lowest, d
<1>11. TypeOK'
  <2>1. SocketsTypeOK'
    BY <1>4, <1>5, <1>10 DEF IInv, TypeOK, SocketsTypeOK
  <2> QED
    BY <1>3, <1>4, <1>9, <2>1 DEF IInv, TypeOK, Return, NoneReady
<1>12. LoopInv'
  <2>1. \A g \in fdset' : Open(g)'
    BY <1>3, <1>5, <1>10 DEF IInv, LoopInv, SelectableFdsOpen, Open, TypeOK
  <2>2. ASSUME NEW j \in DOMAIN procs', procs'[j].ready
        PROVE  file'[procs'[j].fd] = procs'[j].res.to
    <3>1. j \in 1 .. Len(procs)
      BY <1>6, <1>7, <1>9, <2>2
    <3>2. /\ procs[j].ready /\ procs'[j].fd = procs[j].fd
          /\ procs'[j].res = procs[j].res
      BY <1>8, <1>9, <2>2, <3>1
    <3>3. procs[j].fd \in Fds /\ procs[j].res.to \in Clients
      <4>1. procs[j] \in Entry
        BY <1>7, <3>1
      <4> QED
        BY <4>1 DEF Entry, Answer
    <3>4. file[procs[j].fd] = procs[j].res.to
      BY <1>1, <1>7, <3>1, <3>2 DEF IInv, LoopInv
    <3> QED
      BY <1>10, <3>2, <3>3, <3>4
  <2> QED
    BY <1>4, <2>1, <2>2 DEF LoopInv, SelectableFdsOpen, Open, Return
<1>13. NoMisdelivery'
  BY <1>4 DEF IInv, NoMisdelivery
<1> QED
  BY <1>11, <1>12, <1>13 DEF IInv

\* Every step of the server, every move of a client, and every stutter.
THEOREM InductiveStep == IInv /\ [Next]_vars => IInv'
<1> SUFFICES ASSUME IInv, [Next]_vars PROVE IInv'
  OBVIOUS
<1>1. CASE Select
  BY <1>1, SelectKeeps
<1>2. CASE Spin
  BY <1>2, SpinKeeps
<1>3. CASE Exit
  BY <1>3, ExitKeeps
<1>4. ASSUME NEW i \in DOMAIN procs, Entries(i)
      PROVE  IInv'
  <2>1. CASE WriteSome(i)
    BY <2>1, WriteKeeps
  <2>2. CASE WriteFails(i) \/ WriteThrows(i) \/ ReadThrows(i)
    BY <2>2, <1>3 DEF WriteFails, WriteThrows, ReadThrows
  <2>3. CASE ReadWait(i) \/ ReadAnswer(i) \/ ReadMute(i)
    BY <2>3, ReadKeeps
  <2>4. CASE ReadClose(i)
    BY <2>4, CloseKeeps
  <2>5. CASE ReadError(i)
    BY <2>5, ErrorKeeps
  <2> QED
    BY <1>4, <2>1, <2>2, <2>3, <2>4, <2>5 DEF Entries
<1>5. ASSUME NEW l \in Listens, Accept(l)
      PROVE  IInv'
  BY <1>5, AcceptKeeps
<1>6. CASE SelectFails \/ \E l \in Listens : AcceptFails(l)
  BY <1>3, <1>6 DEF SelectFails, AcceptFails
<1>7. CASE \E c \in Clients : Client(c) /\ UNCHANGED loopVars
  BY <1>7, ClientKeeps
<1>8. CASE UNCHANGED vars
  BY <1>8 DEF IInv, TypeOK, SocketsTypeOK, LoopInv, SelectableFdsOpen, Open,
              NoMisdelivery, vars, netVars, loopVars
<1> QED
  BY <1>1, <1>2, <1>4, <1>5, <1>6, <1>7, <1>8 DEF Next, Server

---------------------------------------------------------------------------
(* The theorems                                                            *)

\* In every reachable state the invariant holds.
THEOREM Invariance == Spec => []IInv
  BY InitEstablishes, InductiveStep, PTL DEF Spec

\* Every variable of the loop and of the sockets keeps its type: in particular
\* no entry is served at a descriptor nobody has.
THEOREM TypeCorrect == Spec => []TypeOK
<1>1. IInv => TypeOK
  BY DEF IInv
<1> QED
  BY <1>1, Invariance, PTL

\* Between two calls of select() an entry with an answer pending has its
\* client's connection, or the next select() fails; and what select() reported
\* stays true until the one event is handled.
THEOREM LoopStaysSound == Spec => []LoopInv
<1>1. IInv => LoopInv
  BY DEF IInv
<1> QED
  BY <1>1, Invariance, PTL

\* The loop never hands select() a closed descriptor for reading.
THEOREM SelectsOpenFds == Spec => []SelectableFdsOpen
<1>1. IInv => SelectableFdsOpen
  BY DEF IInv, LoopInv
<1> QED
  BY <1>1, Invariance, PTL

\* No answer, nor any part of one, is written to another connection than the
\* one whose bytes completed the request, however descriptors are reused.
THEOREM AnswersReachOwner == Spec => []NoMisdelivery
<1>1. IInv => NoMisdelivery
  BY DEF IInv
<1> QED
  BY <1>1, Invariance, PTL

---------------------------------------------------------------------------
(* The header index                                                        *)

\* HeaderIndexFresh, of one entry.
IndexOk(p) == p.hidx \in {0, HeaderEnd(p.req)}

\* recv() and process() each leave an index that is unset or right.
LEMMA IndexAfterRead ==
    ASSUME TypeOK, NEW p \in Entry, IndexOk(p), NEW c \in Clients, NEW n
    PROVE  /\ IndexOk(Extended(p, c))
           /\ IndexOk(Processed(Extended(p, c), n))
<1> DEFINE more == SubSeq(inbox[c], 1, Taken(c))
           req == p.req \o more
           x == Extended(p, c)
<1>1. inbox[c] \in Seq(Token) /\ p.req \in Seq(Token)
  BY DEF TypeOK, SocketsTypeOK, Entry
<1>2. more \in Seq(Token)
  <2>1. Taken(c) \in 0 .. Len(inbox[c])
    BY <1>1 DEF Taken
  <2> QED
    BY <1>1, <2>1
<1>3. x \in Entry /\ x.req = req
      /\ x.hidx = IF p.hidx = 0 THEN HeaderEnd(req) ELSE p.hidx
  <2>1. x \in Entry
    BY ExtendedType
  <2>2. x = [p EXCEPT !.req = req,
               !.hidx = IF p.hidx = 0 THEN HeaderEnd(req) ELSE p.hidx]
    BY DEF Extended, Entry
  <2> HIDE DEF x, req
  <2> QED
    BY <2>1, <2>2 DEF Entry
<1>4. p.hidx # 0 => HeaderEnd(req) = p.hidx
  <2> SUFFICES ASSUME p.hidx # 0 PROVE HeaderEnd(req) = p.hidx
    OBVIOUS
  <2>1. p.hidx = HeaderEnd(p.req) /\ HeaderEnd(p.req) # 0
    BY DEF IndexOk
  <2> HIDE DEF more
  <2> QED
    BY <1>1, <1>2, <2>1, HeaderEndStays
<1>5. IndexOk(x)
  BY <1>3, <1>4 DEF IndexOk
<1> HIDE DEF x, req, more
<1>6. IndexOk(Processed(x, n))
  <2>1. /\ Processed(x, n).hidx = x.hidx
        /\ Processed(x, n).req = Effective(x.req)
    BY <1>3 DEF Processed, Entry
  <2>2. HeaderEnd(Effective(x.req)) = HeaderEnd(x.req)
    BY <1>3, EffectiveKeepsHeader DEF Entry
  <2> QED
    BY <1>5, <2>1, <2>2 DEF IndexOk
<1> QED
  BY <1>5, <1>6 DEF x

\* A buffer without bytes has no header.
LEMMA EmptyHasNoHeader == HeaderEnd(<<>>) = 0
<1>1. <<>> \in Seq(Token) /\ Len(<<>>) = 0
  OBVIOUS
<1>2. ASSUME NEW r \in Seq(Token), Len(r) = 0
      PROVE  HeaderEnd(r) = 0
  <2>1. HeaderEnd(r) \in 0 .. Len(r)
    BY ChunkCountBound
  <2> QED
    BY <1>2, <2>1
<1> QED
  BY <1>1, <1>2

\* Each step that stores an entry stores one whose index is unset or right.
THEOREM HeaderIndexStep ==
    IInv /\ HeaderIndexFresh /\ [Next]_vars => HeaderIndexFresh'
<1> SUFFICES ASSUME IInv, HeaderIndexFresh, [Next]_vars
             PROVE  HeaderIndexFresh'
  OBVIOUS
<1>1. \A j \in DOMAIN procs : IndexOk(procs[j])
  BY DEF HeaderIndexFresh, IndexOk
<1>2. procs \in Seq(Entry)
  BY DEF IInv, TypeOK
<1>3. CASE procs' = procs
  BY <1>3 DEF HeaderIndexFresh
<1>4. CASE procs' = <<>>
  BY <1>4 DEF HeaderIndexFresh
<1>5. ASSUME NEW i \in DOMAIN procs, NEW e, IndexOk(e),
             procs' = [procs EXCEPT ![i] = e]
      PROVE  HeaderIndexFresh'
  <2>1. ASSUME NEW j \in DOMAIN procs'
        PROVE  IndexOk(procs'[j])
    <3>1. j \in DOMAIN procs
      BY <1>2, <1>5
    <3>2. CASE j = i
      BY <1>2, <1>5, <3>2
    <3>3. CASE j # i
      <4>1. procs'[j] = procs[j]
        BY <1>2, <1>5, <3>1, <3>3
      <4> QED
        BY <1>1, <3>1, <4>1
    <3> QED
      BY <3>2, <3>3
  <2> QED
    BY <2>1 DEF HeaderIndexFresh, IndexOk
<1>6. ASSUME NEW i \in DOMAIN procs, WriteSome(i)
      PROVE  HeaderIndexFresh'
  <2> DEFINE p == procs[i]
             rest == p.res.len - p.sent
             room == SndBuf - unread[file[p.fd]]
             n == IF rest <= room THEN rest ELSE room
             e == IF n = rest THEN Finished(p) ELSE [p EXCEPT !.sent = p.sent + n]
  <2>1. p \in Entry
    BY <1>2
  <2>2. procs' = [procs EXCEPT ![i] = e]
    BY <1>6, <2>1 DEF WriteSome, Entry
  <2>3. IndexOk(e)
    <3>1. e.hidx = 0 \/ (e.hidx = p.hidx /\ e.req = p.req)
      <4> HIDE DEF p, n, rest
      <4> QED
        BY <2>1 DEF Finished, Entry
    <3> HIDE DEF e
    <3> QED
      BY <1>1, <3>1 DEF IndexOk
  <2> HIDE DEF e
  <2> QED
    BY <1>5, <2>2, <2>3
<1>7. ASSUME NEW i \in DOMAIN procs,
             ReadWait(i) \/ ReadAnswer(i) \/ ReadMute(i)
      PROVE  HeaderIndexFresh'
  <2> DEFINE c == file[procs[i].fd]
             x == Extended(procs[i], c)
  <2>1. procs[i] \in Entry /\ c \in Clients
    BY <1>7, Served DEF ReadWait, ReadAnswer, ReadMute, Receive
  <2>2. IndexOk(x) /\ \A n : IndexOk(Processed(x, n))
    BY <1>1, <2>1, IndexAfterRead DEF IInv
  <2> HIDE DEF x
  <2>3. \/ procs' = [procs EXCEPT ![i] = x]
        \/ \E n : procs' = [procs EXCEPT ![i] = Processed(x, n)]
    BY <1>7 DEF ReadWait, ReadAnswer, ReadMute, Heard, x
  <2> QED
    BY <1>5, <2>2, <2>3
<1>8. ASSUME NEW l \in Listens, Accept(l)
      PROVE  HeaderIndexFresh'
  <2>1. PICK f \in Fds, moved \in BOOLEAN :
           procs' = Append(Moved(procs, moved), Fresh(f, l))
    BY <1>8 DEF Accept
  <2> DEFINE ps == Moved(procs, moved)
             e == Fresh(f, l)
  <2>2. IndexOk(e)
    BY DEF Fresh, IndexOk
  <2>3. /\ ps \in Seq(Entry) /\ Len(ps) = Len(procs)
        /\ \A j \in 1 .. Len(procs) : IndexOk(ps[j])
    <3>1. CASE moved
      <4> DEFINE m(p) == [p EXCEPT !.hidx = 0]
      <4>1. \A p \in Entry : m(p) \in Entry /\ IndexOk(m(p))
        BY DEF Entry, IndexOk
      <4>2. ps = [j \in 1 .. Len(procs) |-> m(procs[j])]
        BY <1>2, <3>1 DEF Moved
      <4> HIDE DEF m, ps
      <4>3. \A j \in 1 .. Len(procs) : procs[j] \in Entry
        BY <1>2
      <4> QED
        BY <1>2, <4>1, <4>2, <4>3
    <3>2. CASE ~moved
      BY <1>1, <1>2, <3>2 DEF Moved
    <3> QED
      BY <3>1, <3>2
  <2> HIDE DEF ps, e
  <2>4. ASSUME NEW j \in DOMAIN procs'
        PROVE  IndexOk(procs'[j])
    <3>1. procs' = Append(ps, e)
      BY <2>1 DEF ps, e
    <3>2. j \in 1 .. Len(ps) + 1
      BY <2>3, <3>1
    <3>3. procs'[j] = IF j <= Len(ps) THEN ps[j] ELSE e
      BY <2>3, <3>1, <3>2
    <3> QED
      BY <2>2, <2>3, <3>2, <3>3
  <2> QED
    BY <2>4 DEF HeaderIndexFresh, IndexOk
<1> QED
  <2>1. CASE \E i \in DOMAIN procs : Entries(i)
    BY <1>3, <1>4, <1>6, <1>7, <2>1
    DEF Entries, WriteFails, WriteThrows, ReadThrows, ReadClose, ReadError, Exit
  <2> QED
    BY <1>3, <1>4, <1>8, <2>1
    DEF Next, Server, Select, SelectFails, Spin, AcceptFails, Exit, loopVars, vars

\* The cached _header_index is never stale, in any interleaving of appends,
\* in-place decoding, finished answers and moves of the vector.
THEOREM HeaderIndexNeverStale == Spec => []HeaderIndexFresh
<1>1. Init => HeaderIndexFresh
  BY DEF Init, HeaderIndexFresh
<1> QED
  BY <1>1, HeaderIndexStep, Invariance, PTL DEF Spec

---------------------------------------------------------------------------
(* Lost descriptors                                                        *)

\* A step that leaves descriptors alone and entries mute that were, loses none but
\* that of a mute entry.
LEMMA EntryKeepsCause ==
    ASSUME IInv, LostForCause, NEW i \in DOMAIN procs, NEW e \in Entry,
           procs' = [procs EXCEPT ![i] = e], e.fd = procs[i].fd,
           procs[i].verdict = "mute" => e.verdict = "mute",
           UNCHANGED <<file, peer>>,
           fdset' = fdset \/ (fdset' = fdset \ {e.fd} /\ e.verdict = "mute")
    PROVE  LostForCause'
<1>1. /\ DOMAIN procs' = DOMAIN procs /\ procs'[i] = e
      /\ \A j \in DOMAIN procs : j # i => procs'[j] = procs[j]
  BY Replaced DEF IInv
<1>2. \A j \in DOMAIN procs : /\ procs'[j].fd = procs[j].fd
                              /\ procs[j].verdict = "mute" => procs'[j].verdict = "mute"
  BY <1>1
<1>3. ASSUME NEW f \in Fds, Open(f), f \notin fdset', peer[file[f]] # "rst"
      PROVE  \E j \in DOMAIN procs : procs'[j].fd = f /\ procs'[j].verdict = "mute"
  <2>1. CASE f \in fdset
    BY <1>1, <1>3, <2>1
  <2>2. CASE f \notin fdset
    BY <1>2, <1>3, <2>2 DEF LostForCause
  <2> QED
    BY <2>1, <2>2
<1> QED
  BY <1>1, <1>3 DEF LostForCause, Open

\* A step that leaves entries and descriptors alone loses none, as a connection that
\* failed has failed for good.
LEMMA StaysLost ==
    ASSUME IInv, LostForCause, UNCHANGED <<procs, file, fdset>>,
           \A c \in Clients : peer[c] = "rst" => peer'[c] = "rst"
    PROVE  LostForCause'
<1>1. \A f \in Fds : Open(f) => file[f] \in Clients
  BY DEF IInv, TypeOK, SocketsTypeOK, Open
<1> QED
  BY <1>1 DEF LostForCause, Open

\* readRequest keeps a descriptor unless the entry becomes mute.
LEMMA ReadLoses ==
    ASSUME IInv, LostForCause, NEW i, ReadWait(i) \/ ReadAnswer(i) \/ ReadMute(i)
    PROVE  LostForCause'
<1> DEFINE x == Extended(procs[i], file[procs[i].fd])
<1>1. Receive(i)
  BY DEF ReadWait, ReadAnswer, ReadMute
<1>2. i \in DOMAIN procs /\ procs[i] \in Entry /\ file[procs[i].fd] \in Clients
  BY <1>1, Served DEF Receive
<1>3. UNCHANGED <<file, peer>>
  BY <1>1 DEF Receive
<1>4. x \in Entry /\ x.fd = procs[i].fd /\ x.verdict = procs[i].verdict
  <2>1. x \in Entry /\ x.fd = procs[i].fd
    BY <1>2, ExtendedType DEF IInv
  <2>2. x.verdict = procs[i].verdict
    BY <1>2 DEF Extended, Entry
  <2> QED
    BY <2>1, <2>2
<1> HIDE DEF x
<1>5. CASE ReadWait(i)
  <2>1. procs' = [procs EXCEPT ![i] = x] /\ fdset' = fdset
    BY <1>5 DEF ReadWait, Heard, x
  <2> QED
    BY <1>2, <1>3, <1>4, <2>1, EntryKeepsCause
<1>6. CASE ReadAnswer(i) \/ ReadMute(i)
  <2>1. PICK n \in Nat :
          /\ procs' = [procs EXCEPT ![i] = Processed(x, n)]
          /\ fdset' = fdset \/ (fdset' = fdset \ {x.fd} /\ Unanswered(x))
    <3>1. CASE ReadAnswer(i)
      <4>1. fdset' = fdset
        BY <3>1 DEF ReadAnswer
      <4>2. PICK n \in Sizes : procs' = [procs EXCEPT ![i] = Processed(x, n)]
        BY <3>1 DEF ReadAnswer, Heard, x
      <4>3. n \in Nat
        BY SizesAssumption
      <4> QED
        BY <4>1, <4>2, <4>3
    <3>2. CASE ReadMute(i)
      <4>1. /\ procs' = [procs EXCEPT ![i] = Processed(x, x.res.len)]
            /\ fdset' = fdset \ {x.fd} /\ Unanswered(x)
        BY <3>2 DEF ReadMute, Heard, x
      <4>2. x.res.len \in Nat
        BY <1>4 DEF Entry, Answer
      <4> QED
        BY <4>1, <4>2
    <3> QED
      BY <1>6, <3>1, <3>2
  <2>2. Processed(x, n) \in Entry /\ Processed(x, n).fd = x.fd
    BY <1>2, <1>4, ProcessedType DEF IInv
  <2>3. Processed(x, n).verdict = VerdictOn(x)
    BY <1>4 DEF Processed, Entry
  <2>4. /\ x.verdict = "mute" => VerdictOn(x) = "mute"
        /\ Unanswered(x) => VerdictOn(x) = "mute"
    BY DEF VerdictOn, Unanswered
  <2> QED
    BY <1>2, <1>3, <1>4, <2>1, <2>2, <2>3, <2>4, EntryKeepsCause
<1> QED
  BY <1>5, <1>6

\* Writing loses no descriptor.
LEMMA WriteLoses ==
    ASSUME IInv, LostForCause, NEW i, WriteSome(i)
    PROVE  LostForCause'
<1> DEFINE p == procs[i]
           rest == p.res.len - p.sent
           room == SndBuf - unread[file[p.fd]]
           n == IF rest <= room THEN rest ELSE room
           e == IF n = rest THEN Finished(p) ELSE [p EXCEPT !.sent = p.sent + n]
<1>1. i \in DOMAIN procs /\ p \in Entry
  BY Served DEF WriteSome
<1>2. procs' = [procs EXCEPT ![i] = e] /\ UNCHANGED <<file, peer, fdset>>
  BY <1>1 DEF WriteSome, Entry
<1>3. procs' \in Seq(Entry)
  BY WriteKeeps DEF IInv, TypeOK
<1>4. procs'[i] = e /\ i \in DOMAIN procs'
  BY <1>1, <1>2 DEF IInv, TypeOK
<1>5. e \in Entry
  <2> HIDE DEF e
  <2> QED
    BY <1>3, <1>4
<1>6. e.fd = p.fd /\ e.verdict = p.verdict
  <2> HIDE DEF p, n, rest
  <2> QED
    BY <1>1 DEF Finished, Entry
<1> HIDE DEF e
<1> QED
  BY <1>1, <1>2, <1>5, <1>6, EntryKeepsCause

\* A new entry is another way for the kernel to use a descriptor that was free.
LEMMA AcceptLoses ==
    ASSUME IInv, LostForCause, NEW l \in Listens, Accept(l)
    PROVE  LostForCause'
<1>1. PICK f \in Fds, moved \in BOOLEAN :
         /\ procs' = Append(Moved(procs, moved), Fresh(f, l))
         /\ file' = [file EXCEPT ![f] = Head(backlog[l])]
         /\ fdset' = fdset \cup {f}
  BY DEF Accept
<1>2. peer' = peer /\ procs \in Seq(Entry)
  BY DEF Accept, clientVars, IInv, TypeOK
<1> DEFINE ps == Moved(procs, moved)
<1>3. /\ ps \in Seq(Entry) /\ Len(ps) = Len(procs)
      /\ \A j \in 1 .. Len(procs) : ps[j].fd = procs[j].fd /\ ps[j].verdict = procs[j].verdict
  <2>1. CASE moved
    <3> DEFINE m(p) == [p EXCEPT !.hidx = 0]
    <3>1. \A p \in Entry : m(p) \in Entry /\ m(p).fd = p.fd /\ m(p).verdict = p.verdict
      BY DEF Entry
    <3>2. ps = [j \in 1 .. Len(procs) |-> m(procs[j])]
      BY <1>2, <2>1 DEF Moved
    <3> HIDE DEF m, ps
    <3>3. \A j \in 1 .. Len(procs) : procs[j] \in Entry
      BY <1>2
    <3> QED
      BY <1>2, <3>1, <3>2, <3>3
  <2>2. CASE ~moved
    BY <1>2, <2>2 DEF Moved
  <2> QED
    BY <2>1, <2>2
<1> HIDE DEF ps
<1>4. \A j \in DOMAIN procs : /\ j \in DOMAIN procs' /\ procs'[j].fd = procs[j].fd
                              /\ procs'[j].verdict = procs[j].verdict
  <2>1. procs' = Append(ps, Fresh(f, l))
    BY <1>1 DEF ps
  <2> QED
    BY <1>2, <1>3, <2>1
<1>5. ASSUME NEW g \in Fds, g # f, file'[g] # Free, g \notin fdset
      PROVE  \/ peer[file'[g]] = "rst"
             \/ \E j \in DOMAIN procs' : procs'[j].fd = g /\ procs'[j].verdict = "mute"
  <2>1. file'[g] = file[g]
    BY <1>1, <1>5 DEF IInv, TypeOK, SocketsTypeOK
  <2> QED
    BY <1>4, <1>5, <2>1 DEF LostForCause, Open
<1> QED
  BY <1>1, <1>2, <1>5 DEF LostForCause, Open

\* Every step keeps the causes.
THEOREM LossStep == IInv /\ LostForCause /\ [Next]_vars => LostForCause'
<1> SUFFICES ASSUME IInv, LostForCause, [Next]_vars PROVE LostForCause'
  OBVIOUS
<1>1. CASE Select \/ Spin \/ UNCHANGED vars
  <2>1. UNCHANGED <<procs, file, fdset, peer>>
    BY <1>1 DEF Select, Spin, vars, loopVars, netVars
  <2> QED
    BY <2>1, StaysLost
<1>2. CASE Exit
  BY <1>2 DEF Exit, LostForCause, Open
<1>3. ASSUME NEW i \in DOMAIN procs, Entries(i)
      PROVE  LostForCause'
  <2>1. CASE WriteSome(i)
    BY <2>1, WriteLoses
  <2>2. CASE WriteFails(i) \/ WriteThrows(i) \/ ReadThrows(i)
    BY <1>2, <2>2 DEF WriteFails, WriteThrows, ReadThrows
  <2>3. CASE ReadWait(i) \/ ReadAnswer(i) \/ ReadMute(i)
    BY <2>3, ReadLoses
  <2>4. CASE ReadClose(i)
    <3> DEFINE f == procs[i].fd
    <3>1. /\ file' = [file EXCEPT ![f] = Free] /\ fdset' = fdset \ {f}
          /\ UNCHANGED <<peer, procs>>
      BY <2>4 DEF ReadClose, clientVars
    <3>2. file \in [Fds -> Clients \cup {Free}]
      BY DEF IInv, TypeOK, SocketsTypeOK
    <3> HIDE DEF f
    <3> QED
      BY <3>1, <3>2 DEF LostForCause, Open
  <2>5. CASE ReadError(i)
    BY <2>5 DEF ReadError, netVars, LostForCause, Open
  <2> QED
    BY <1>3, <2>1, <2>2, <2>3, <2>4, <2>5 DEF Entries
<1>4. ASSUME NEW l \in Listens, Accept(l)
      PROVE  LostForCause'
  BY <1>4, AcceptLoses
<1>5. ASSUME NEW c \in Clients, Client(c), UNCHANGED loopVars
      PROVE  LostForCause'
  <2>1. UNCHANGED <<procs, file, fdset>>
    BY <1>5 DEF Client, Connect, Send, Drain, Fin, Rst, loopVars
  <2>2. \A d \in Clients : peer[d] = "rst" => peer'[d] = "rst"
    BY <1>5 DEF Client, Connect, Send, Drain, Fin, Rst, IInv, TypeOK, SocketsTypeOK
  <2> QED
    BY <2>1, <2>2, StaysLost
<1> QED
  BY <1>1, <1>2, <1>3, <1>4, <1>5 DEF Next, Server, SelectFails, AcceptFails

\* A descriptor is lost for good only to a connection that failed or to an entry
\* with a method it has no answer to, however many clients and descriptors there
\* are, and in every order of their closing, failing and being accepted.
THEOREM DescriptorsLostForCause == Spec => []LostForCause
<1>1. Init => LostForCause
  BY DEF Init, SocketsInit, LostForCause, Open
<1> QED
  BY <1>1, LossStep, Invariance, PTL DEF Spec
=============================================================================
