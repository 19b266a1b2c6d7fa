---------------------------- MODULE PlaceProofs ----------------------------
(***************************************************************************)
(* For any clients, patient or not, and any scripts: of the entries that   *)
(* share a descriptor only the oldest works, no connection is in two       *)
(* places, and no token is lost or overtaken on its way to an entry.       *)
(***************************************************************************)
EXTENDS Streams, WebserverProofs

---------------------------------------------------------------------------
(* Slices of a script                                                      *)

\* A slice, and the two parts it is cut into.
LEMMA SliceType ==
    ASSUME NEW s \in Seq(Token), NEW a \in Nat, NEW b \in Nat, a <= b, b <= Len(s)
    PROVE  /\ SubSeq(s, a + 1, b) \in Seq(Token)
           /\ Len(SubSeq(s, a + 1, b)) = b - a
           /\ \A i \in 1 .. b - a : SubSeq(s, a + 1, b)[i] = s[a + i]
  OBVIOUS

LEMMA SlicesEqual ==
    ASSUME NEW s \in Seq(Token), NEW t \in Seq(Token), Len(s) = Len(t),
           \A i \in 1 .. Len(s) : s[i] = t[i]
    PROVE  s = t
  BY SeqEqual

LEMMA SliceCut ==
    ASSUME NEW s \in Seq(Token), NEW a \in Nat, NEW b \in Nat, NEW d \in Nat,
           a <= b, b <= d, d <= Len(s)
    PROVE  /\ SubSeq(s, a + 1, b) \o SubSeq(s, b + 1, d) = SubSeq(s, a + 1, d)
           /\ SubSeq(SubSeq(s, a + 1, d), 1, b - a) = SubSeq(s, a + 1, b)
           /\ SubSeq(SubSeq(s, a + 1, d), b - a + 1, d - a) = SubSeq(s, b + 1, d)
<1> DEFINE r == SubSeq(s, a + 1, d)
           x == SubSeq(s, a + 1, b)
           y == SubSeq(s, b + 1, d)
<1>1. r \in Seq(Token) /\ Len(r) = d - a /\ \A i \in 1 .. d - a : r[i] = s[a + i]
  BY SliceType
<1>2. x \in Seq(Token) /\ Len(x) = b - a /\ \A i \in 1 .. b - a : x[i] = s[a + i]
  BY SliceType
<1>3. y \in Seq(Token) /\ Len(y) = d - b /\ \A i \in 1 .. d - b : y[i] = s[b + i]
  BY SliceType
<1>4. x \o y = r
  BY ConcatAdjacentSubSeq
<1> HIDE DEF r, x, y
<1>5. SubSeq(r, 1, b - a) = x
  BY <1>1, <1>2, SlicesEqual
<1>6. SubSeq(r, b - a + 1, d - a) = y
  BY <1>1, <1>3, SlicesEqual
<1> QED
  BY <1>4, <1>5, <1>6 DEF r, x, y

\* The next token of a slice goes to the end of the slice before it.
LEMMA SliceNext ==
    ASSUME NEW s \in Seq(Token), NEW a \in Nat, NEW b \in Nat, a <= b, b < Len(s)
    PROVE  /\ SubSeq(s, b + 1, Len(s)) # <<>>
           /\ Head(SubSeq(s, b + 1, Len(s))) = s[b + 1]
           /\ Tail(SubSeq(s, b + 1, Len(s))) = SubSeq(s, b + 2, Len(s))
           /\ Append(SubSeq(s, a + 1, b), s[b + 1]) = SubSeq(s, a + 1, b + 1)
<1> DEFINE y == SubSeq(s, b + 1, Len(s))
           x == SubSeq(s, a + 1, b)
           z == SubSeq(s, a + 1, b + 1)
<1>1. y # <<>>
  BY SliceType
<1>2. Head(y) = s[b + 1] /\ Tail(y) = SubSeq(s, b + 2, Len(s))
  BY HeadTailOfSubSeq
<1>3. x \in Seq(Token) /\ Len(x) = b - a /\ \A i \in 1 .. b - a : x[i] = s[a + i]
  BY SliceType
<1>4. z \in Seq(Token) /\ Len(z) = b + 1 - a
      /\ \A i \in 1 .. b + 1 - a : z[i] = s[a + i]
  BY SliceType
<1> HIDE DEF x, z
<1>5. Append(x, s[b + 1]) = z
  BY <1>3, <1>4, SlicesEqual, AppendProperties
<1> QED
  BY <1>1, <1>2, <1>5 DEF x, z

---------------------------------------------------------------------------
(* What one event does to the entry it is for                              *)

\* write() puts n units of the answer out, and the entry becomes e.
Written(i, n, e) ==
    LET p == procs[i]
        c == file[p.fd]
    IN  /\ p.sent + n <= p.res.len
        /\ procs' = [procs EXCEPT ![i] = e]
        /\ e.fd = p.fd
        /\ got' = [got EXCEPT ![c] = Append(got[c],
              [res |-> p.res, from |-> p.sent, upto |-> p.sent + n])]
        /\ \/ p.sent + n = p.res.len /\ e.req = <<>> /\ ~e.ready /\ e.sent = 0
           \/ /\ p.sent + n # p.res.len
              /\ e.req = p.req /\ e.ready /\ e.res = p.res /\ e.sent = p.sent + n

\* With the last unit of the answer the entry is reset.
LEMMA WriteEffect ==
    ASSUME IInv, NEW i, WriteSome(i)
    PROVE  LET p == procs[i]
               c == file[p.fd]
           IN  /\ i \in DOMAIN procs /\ p \in Entry /\ p.fd \in Fds /\ c \in Clients
               /\ p.ready /\ Writer(i) /\ pc = "dispatch" /\ Return
               /\ p.sent <= p.res.len
               /\ UNCHANGED <<bound, backlog, file, peer, unsent, inbox, fdset>>
               /\ \E n \in Nat, e \in Entry : Written(i, n, e)
<1> DEFINE p == procs[i]
           c == file[p.fd]
           rest == p.res.len - p.sent
           room == SndBuf - unread[c]
           n == IF rest <= room THEN rest ELSE room
           e == IF n = rest THEN Finished(p) ELSE [p EXCEPT !.sent = p.sent + n]
<1>1. Writer(i)
  BY DEF WriteSome
<1>2. p.ready
  BY <1>1 DEF Writer, First, Wanting
<1>3. i \in DOMAIN procs /\ p \in Entry /\ p.fd \in Fds /\ c \in Clients /\ pc = "dispatch"
  BY <1>1, Served
<1>4. /\ got' = [got EXCEPT ![c] = Append(got[c],
             [res |-> p.res, from |-> p.sent, upto |-> p.sent + n])]
      /\ procs' = [procs EXCEPT ![i] = e]
      /\ rest >= 0 /\ Return
      /\ UNCHANGED <<bound, backlog, file, peer, unsent, inbox, fdset>>
  BY <1>3 DEF WriteSome, Entry
<1>5. p.res.len \in Nat /\ p.sent \in Nat
  BY <1>3 DEF Entry, Answer
<1>6. room \in Nat
  <2>1. unread[c] \in 0 .. SndBuf
    BY <1>3 DEF IInv, TypeOK, SocketsTypeOK
  <2> HIDE DEF c
  <2> QED
    BY <2>1, SocketsAssumption DEF SocketsAssumption
<1>7. n \in Nat /\ n <= rest /\ rest \in Nat
  <2>1. rest \in Nat
    BY <1>4, <1>5
  <2> HIDE DEF rest, room
  <2> QED
    BY <1>6, <2>1
<1>8. n = rest <=> p.sent + n = p.res.len
  <2> HIDE DEF n, p
  <2> QED
    BY <1>5, <1>7
<1>9. p.sent + n <= p.res.len /\ p.sent <= p.res.len
  <2> HIDE DEF n, p
  <2> QED
    BY <1>5, <1>7
<1> HIDE DEF n, rest
<1>10. CASE n = rest
  <2>1. Finished(p) \in Entry /\ Finished(p).fd = p.fd /\ ~Finished(p).ready
    BY <1>3, FinishedType
  <2>2. Finished(p).req = <<>> /\ Finished(p).sent = 0
    <3> HIDE DEF p
    <3> QED
      BY <1>3 DEF Finished, Entry
  <2>3. procs' = [procs EXCEPT ![i] = Finished(p)]
    BY <1>4, <1>10
  <2>4. Written(i, n, Finished(p))
    BY <1>4, <1>8, <1>9, <1>10, <2>1, <2>2, <2>3 DEF Written
  <2> HIDE DEF p
  <2> QED
    BY <1>1, <1>2, <1>3, <1>4, <1>7, <1>9, <2>1, <2>4 DEF p
<1>11. CASE n # rest
  <2> DEFINE d == [p EXCEPT !.sent = p.sent + n]
  <2>1. p.sent + n \in Nat
    BY <1>5, <1>7
  <2>2. /\ d \in Entry /\ d.fd = p.fd /\ d.req = p.req /\ d.ready /\ d.res = p.res
        /\ d.sent = p.sent + n
    <3> HIDE DEF p
    <3> QED
      BY <1>2, <1>3, <2>1 DEF Entry
  <2>3. procs' = [procs EXCEPT ![i] = d]
    BY <1>4, <1>11
  <2> HIDE DEF d
  <2>4. Written(i, n, d)
    BY <1>4, <1>8, <1>9, <1>11, <2>2, <2>3 DEF Written
  <2> HIDE DEF p
  <2> QED
    BY <1>1, <1>2, <1>3, <1>4, <1>7, <1>9, <2>2, <2>4 DEF p
<1> QED
  BY <1>10, <1>11

\* readRequest takes tokens from the inbox and appends them to the request; then it
\* waits, or makes an answer of the request, or gives up on it.
LEMMA ReadEffect ==
    ASSUME IInv, NEW i, ReadWait(i) \/ ReadAnswer(i) \/ ReadMute(i)
    PROVE  LET p == procs[i]
               c == file[p.fd]
               x == Extended(p, c)
           IN  /\ i \in DOMAIN procs /\ p \in Entry /\ p.fd \in Fds /\ c \in Clients
               /\ Reader(i) /\ pc = "dispatch" /\ Return
               /\ inbox[c] # <<>> /\ Taken(c) \in 1 .. Len(inbox[c])
               /\ inbox' = [inbox EXCEPT ![c] =
                              SubSeq(inbox[c], Taken(c) + 1, Len(inbox[c]))]
               /\ UNCHANGED <<bound, backlog, file, peer, unsent, unread, got>>
               /\ x \in Entry /\ x.fd = p.fd /\ x.ready = p.ready /\ x.sent = p.sent
               /\ x.req = p.req \o SubSeq(inbox[c], 1, Taken(c))
               /\ \/ /\ ReadWait(i)
                     /\ ~Complete(x.req, x.hidx) /\ fdset' = fdset
                     /\ procs' = [procs EXCEPT ![i] = x]
                  \/ /\ ReadAnswer(i) \/ ReadMute(i)
                     /\ Complete(x.req, x.hidx)
                     /\ \E n \in Nat :
                          LET e == Processed(x, n)
                          IN  /\ procs' = [procs EXCEPT ![i] = e]
                              /\ e \in Entry /\ e.fd = p.fd /\ e.sent = p.sent
                              /\ \/ /\ ~Unanswered(x) /\ e.ready /\ n \in Sizes
                                    /\ fdset' = fdset
                                 \/ /\ Unanswered(x) /\ ~e.ready /\ ~p.ready
                                    /\ fdset' = fdset \ {p.fd}
<1> DEFINE p == procs[i]
           c == file[p.fd]
           x == Extended(p, c)
<1>1. Receive(i) /\ Return
  BY DEF ReadWait, ReadAnswer, ReadMute
<1>2. Reader(i) /\ inbox[c] # <<>>
      /\ UNCHANGED <<bound, backlog, file, peer, unsent, unread, got>>
  BY <1>1 DEF Receive
<1>3. i \in DOMAIN procs /\ p \in Entry /\ p.fd \in Fds /\ c \in Clients /\ pc = "dispatch"
  BY <1>2, Served
<1>4. inbox \in [Clients -> Seq(Token)] /\ inbox[c] \in Seq(Token)
  BY <1>3 DEF IInv, TypeOK, SocketsTypeOK
<1>5. inbox' = [inbox EXCEPT ![c] = SubSeq(inbox[c], Taken(c) + 1, Len(inbox[c]))]
  BY <1>1, <1>3, <1>4 DEF Receive
<1>6. Taken(c) \in 1 .. Len(inbox[c])
  <2>1. Len(inbox[c]) \in Nat \ {0}
    BY <1>2, <1>4, EmptySeq
  <2>2. BufSize \in Nat \ {0}
    BY SocketsAssumption DEF SocketsAssumption
  <2> HIDE DEF c
  <2> QED
    BY <2>1, <2>2 DEF Taken
<1>7. x \in Entry /\ x.fd = p.fd /\ x.ready = p.ready
  BY <1>3, ExtendedType DEF IInv
<1>8. x.sent = p.sent /\ x.req = p.req \o SubSeq(inbox[c], 1, Taken(c))
  <2> HIDE DEF p, c
  <2> QED
    BY <1>3 DEF Extended, Entry
<1> HIDE DEF x
<1>9. ASSUME NEW n \in Nat
      PROVE  LET e == Processed(x, n)
             IN  /\ e \in Entry /\ e.fd = p.fd /\ e.sent = p.sent
                 /\ e.ready = ~Unanswered(x)
  <2>1. Processed(x, n) \in Entry /\ Processed(x, n).fd = x.fd
    BY <1>3, <1>7, ProcessedType DEF IInv
  <2>2. Processed(x, n).sent = x.sent /\ Processed(x, n).ready = ~Unanswered(x)
    BY <1>7 DEF Processed, Entry
  <2> QED
    BY <1>7, <1>8, <2>1, <2>2
<1>10. \/ /\ ReadWait(i)
          /\ ~Complete(x.req, x.hidx) /\ fdset' = fdset
          /\ procs' = [procs EXCEPT ![i] = x]
       \/ /\ ReadAnswer(i)
          /\ Complete(x.req, x.hidx) /\ ~Unanswered(x) /\ fdset' = fdset
          /\ \E n \in Sizes : procs' = [procs EXCEPT ![i] = Processed(x, n)]
       \/ /\ ReadMute(i)
          /\ Complete(x.req, x.hidx) /\ Unanswered(x) /\ fdset' = fdset \ {x.fd}
          /\ procs' = [procs EXCEPT ![i] = Processed(x, x.res.len)]
  BY DEF ReadWait, ReadAnswer, ReadMute, Heard, x
<1>11. \/ /\ ReadWait(i)
          /\ ~Complete(x.req, x.hidx) /\ fdset' = fdset
          /\ procs' = [procs EXCEPT ![i] = x]
       \/ /\ ReadAnswer(i) \/ ReadMute(i)
          /\ Complete(x.req, x.hidx)
          /\ \E n \in Nat :
               LET e == Processed(x, n)
               IN  /\ procs' = [procs EXCEPT ![i] = e]
                   /\ e \in Entry /\ e.fd = p.fd /\ e.sent = p.sent
                   /\ \/ /\ ~Unanswered(x) /\ e.ready /\ n \in Sizes /\ fdset' = fdset
                      \/ /\ Unanswered(x) /\ ~e.ready /\ ~p.ready
                         /\ fdset' = fdset \ {p.fd}
  <2>1. CASE ReadWait(i) /\ ~Complete(x.req, x.hidx) /\ fdset' = fdset
             /\ procs' = [procs EXCEPT ![i] = x]
    BY <2>1
  <2>2. CASE /\ ReadAnswer(i)
             /\ Complete(x.req, x.hidx) /\ ~Unanswered(x) /\ fdset' = fdset
             /\ \E n \in Sizes : procs' = [procs EXCEPT ![i] = Processed(x, n)]
    <3>1. PICK n \in Sizes : procs' = [procs EXCEPT ![i] = Processed(x, n)]
      BY <2>2
    <3>2. n \in Nat
      BY SizesAssumption DEF SizesAssumption
    <3> HIDE DEF p
    <3> QED
      BY <1>9, <2>2, <3>1, <3>2
  <2>3. CASE /\ ReadMute(i)
             /\ Complete(x.req, x.hidx) /\ Unanswered(x) /\ fdset' = fdset \ {x.fd}
             /\ procs' = [procs EXCEPT ![i] = Processed(x, x.res.len)]
    <3>1. x.res.len \in Nat
      BY <1>7 DEF Entry, Answer
    <3>2. ~p.ready
      BY <1>7, <2>3 DEF Unanswered
    <3> HIDE DEF p
    <3> QED
      BY <1>7, <1>9, <2>3, <3>1, <3>2
  <2> QED
    BY <1>10, <2>1, <2>2, <2>3
<1> QED
  BY <1>1, <1>2, <1>3, <1>5, <1>6, <1>7, <1>8, <1>11 DEF x

\* recv() found the connection closed: the descriptor is given back.
LEMMA CloseEffect ==
    ASSUME IInv, NEW i, ReadClose(i)
    PROVE  LET f == procs[i].fd
           IN  /\ i \in DOMAIN procs /\ procs[i] \in Entry /\ f \in Fds
               /\ file[f] \in Clients /\ inbox[file[f]] = <<>> /\ peer[file[f]] = "fin"
               /\ Reader(i) /\ pc = "dispatch" /\ Return
               /\ file \in [Fds -> Clients \cup {Free}]
               /\ file' = [file EXCEPT ![f] = Free] /\ fdset' = fdset \ {f}
               /\ UNCHANGED <<bound, backlog, peer, unsent, inbox, unread, got, procs>>
<1>1. Reader(i)
  BY DEF ReadClose
<1>2. file \in [Fds -> Clients \cup {Free}]
  BY DEF IInv, TypeOK, SocketsTypeOK
<1> QED
  BY <1>1, <1>2, Served DEF ReadClose, clientVars

\* recv() failed: the descriptor is only taken out of the set.
LEMMA ErrorEffect ==
    ASSUME IInv, NEW i, ReadError(i)
    PROVE  LET f == procs[i].fd
           IN  /\ i \in DOMAIN procs /\ procs[i] \in Entry /\ f \in Fds
               /\ file[f] \in Clients /\ peer[file[f]] = "rst"
               /\ Reader(i) /\ pc = "dispatch" /\ Return
               /\ fdset' = fdset \ {f}
               /\ UNCHANGED <<netVars, procs>>
<1>1. Reader(i)
  BY DEF ReadError
<1> QED
  BY <1>1, Served DEF ReadError

\* A connection gets a descriptor that was free and an entry of its own; of the
\* other entries at most the header index changes.
LEMMA AcceptEffect ==
    ASSUME IInv, NEW l \in Listens, Accept(l)
    PROVE  LET c == Head(backlog[l])
           IN  /\ c \in Clients /\ backlog[l] \in Seq(Clients) /\ backlog[l] # <<>>
               /\ Acceptor(l) /\ pc = "dispatch" /\ Return
               /\ backlog' = [backlog EXCEPT ![l] = Tail(backlog[l])]
               /\ UNCHANGED <<bound, peer, unsent, inbox, unread, got>>
               /\ \E f \in Fds :
                    /\ file[f] = Free
                    /\ file' = [file EXCEPT ![f] = c] /\ fdset' = fdset \cup {f}
                    /\ procs' \in Seq(Entry) /\ Len(procs') = Len(procs) + 1
                    /\ LET e == procs'[Len(procs) + 1]
                       IN  e.fd = f /\ e.req = <<>> /\ ~e.ready /\ e.sent = 0
                    /\ \A j \in 1 .. Len(procs) :
                         /\ procs'[j].fd = procs[j].fd /\ procs'[j].req = procs[j].req
                         /\ procs'[j].ready = procs[j].ready
                         /\ procs'[j].res = procs[j].res
                         /\ procs'[j].sent = procs[j].sent
<1>1. Acceptor(l) /\ pc = "dispatch" /\ l \in sel.a
  BY DEF Accept, Acceptor, First
<1>2. backlog[l] \in Seq(Clients) /\ backlog[l] # <<>>
  BY <1>1 DEF IInv, TypeOK, SocketsTypeOK, LoopInv
<1>3. PICK f \in Fds, moved \in BOOLEAN :
         /\ Lowest(f)
         /\ procs' = Append(Moved(procs, moved), Fresh(f, l))
         /\ file' = [file EXCEPT ![f] = Head(backlog[l])]
         /\ fdset' = fdset \cup {f}
  BY DEF Accept
<1>4. /\ backlog' = [backlog EXCEPT ![l] = Tail(backlog[l])] /\ Return
      /\ UNCHANGED <<bound, peer, unsent, inbox, unread, got>>
  BY DEF Accept, clientVars
<1> DEFINE ps == Moved(procs, moved)
           e == Fresh(f, l)
<1>5. Head(backlog[l]) \in Clients
  BY <1>2
<1>6. e.fd = f /\ e.req = <<>> /\ ~e.ready /\ e.sent = 0
  BY DEF Fresh
<1>7. procs \in Seq(Entry)
  BY DEF IInv, TypeOK
<1>8. /\ ps \in Seq(Entry) /\ Len(ps) = Len(procs)
      /\ \A j \in 1 .. Len(procs) :
           /\ ps[j].fd = procs[j].fd /\ ps[j].req = procs[j].req
           /\ ps[j].ready = procs[j].ready
           /\ ps[j].res = procs[j].res
           /\ ps[j].sent = procs[j].sent
  <2>1. CASE moved
    <3> DEFINE m(p) == [p EXCEPT !.hidx = 0]
    <3>1. \A p \in Entry : /\ m(p) \in Entry /\ m(p).fd = p.fd /\ m(p).req = p.req
                           /\ m(p).ready = p.ready /\ m(p).res = p.res
                           /\ m(p).sent = p.sent
      BY DEF Entry
    <3>2. ps = [j \in 1 .. Len(procs) |-> m(procs[j])]
      BY <2>1, <1>7 DEF Moved
    <3> HIDE DEF m, ps
    <3>3. \A j \in 1 .. Len(procs) : procs[j] \in Entry
      BY <1>7
    <3>4. ps \in Seq(Entry) /\ Len(ps) = Len(procs)
      BY <1>7, <3>1, <3>2, <3>3
    <3>5. \A j \in 1 .. Len(procs) : ps[j] = m(procs[j])
      BY <3>2
    <3> QED
      BY <3>1, <3>3, <3>4, <3>5
  <2>2. CASE ~moved
    BY <2>2, <1>7 DEF Moved
  <2> QED
    BY <2>1, <2>2
<1>9. e \in Entry
  <2>1. <<>> \in Seq(Token) /\ 0 \in Nat
    OBVIOUS
  <2>2. [toks |-> <<>>, to |-> Head(backlog[l]), lis |-> l, ok |-> TRUE, len |-> 0]
           \in Answer
    BY <1>5, <2>1, Zenon DEF Answer
  <2> QED
    BY <2>1, <2>2, Zenon DEF Fresh, Entry, Verdicts
<1>10. procs' = Append(ps, e)
  BY <1>3
<1> HIDE DEF ps, e
<1>11. /\ procs' \in Seq(Entry) /\ Len(procs') = Len(procs) + 1
       /\ procs'[Len(procs) + 1] = e
       /\ \A j \in 1 .. Len(procs) : procs'[j] = ps[j]
  BY <1>8, <1>9, <1>10, AppendProperties
<1>12. file[f] = Free
  BY <1>3 DEF Lowest
<1>13. \A j \in 1 .. Len(procs) :
          /\ procs'[j].fd = procs[j].fd /\ procs'[j].req = procs[j].req
          /\ procs'[j].ready = procs[j].ready
          /\ procs'[j].res = procs[j].res
          /\ procs'[j].sent = procs[j].sent
  BY <1>8, <1>11
<1>14. LET a == procs'[Len(procs) + 1]
       IN  a.fd = f /\ a.req = <<>> /\ ~a.ready /\ a.sent = 0
  BY <1>6, <1>11
<1> HIDE DEF Acceptor, Return
<1> QED
  BY <1>1, <1>2, <1>3, <1>4, <1>5, <1>11, <1>12, <1>13, <1>14

---------------------------------------------------------------------------
(* Entries that share a descriptor                                         *)

\* The entry an event is for is the oldest of its descriptor: readRequest is called
\* for the first entry there, and only that one can have an answer pending.
LEMMA ServesOldest ==
    ASSUME IInv, ShadowsIdle, NEW i, Writer(i) \/ Reader(i)
    PROVE  Oldest(i)
<1>1. i \in DOMAIN procs
  BY Served
<1>2. procs \in Seq(Entry)
  BY DEF IInv, TypeOK
<1>3. ASSUME NEW j \in 1 .. i - 1, procs[j].fd = procs[i].fd
      PROVE  FALSE
  <2>1. j \in DOMAIN procs /\ j < i
    BY <1>1, <1>2
  <2>2. CASE Writer(i)
    <3>1. procs[i].ready
      BY <2>2 DEF Writer, First, Wanting
    <3> QED
      BY <1>1, <1>3, <3>1 DEF ShadowsIdle
  <2>3. CASE Reader(i)
    <3>1. j \in Hearing /\ \A k \in Hearing : i <= k
      BY <1>3, <2>1, <2>3 DEF Reader, First, Hearing
    <3> QED
      BY <1>1, <1>2, <2>1, <3>1
  <2> QED
    BY <2>2, <2>3
<1> QED
  BY <1>3 DEF Oldest

\* What an event leaves of the oldest entry of a descriptor disturbs no other.
LEMMA StoredKeepsShadows ==
    ASSUME IInv, ShadowsIdle, NEW i \in DOMAIN procs, Oldest(i), NEW e \in Entry,
           e.fd = procs[i].fd, procs' = [procs EXCEPT ![i] = e]
    PROVE  ShadowsIdle'
<1>1. /\ DOMAIN procs' = DOMAIN procs /\ procs'[i] = e
      /\ \A j \in DOMAIN procs : j # i => procs'[j] = procs[j]
  BY Replaced DEF IInv
<1>2. procs \in Seq(Entry)
  BY DEF IInv, TypeOK
<1>3. ASSUME NEW j \in DOMAIN procs, NEW k \in 1 .. j - 1, procs'[k].fd = procs'[j].fd
      PROVE  procs'[j].req = <<>> /\ ~procs'[j].ready
  <2>1. k \in DOMAIN procs
    BY <1>2
  <2>2. procs[k].fd = procs[j].fd
    BY <1>1, <1>3, <2>1
  <2>3. j # i
    BY <2>2 DEF Oldest
  <2> QED
    BY <1>1, <2>2, <2>3 DEF ShadowsIdle
<1> QED
  BY <1>1, <1>3 DEF ShadowsIdle

\* Every step keeps the younger entries of a descriptor idle.
THEOREM ShadowStep == IInv /\ ShadowsIdle /\ [Next]_vars => ShadowsIdle'
<1> SUFFICES ASSUME IInv, ShadowsIdle, [Next]_vars
             PROVE  ShadowsIdle'
  OBVIOUS
<1>1. CASE procs' = procs
  BY <1>1 DEF ShadowsIdle
<1>2. CASE procs' = <<>>
  BY <1>2 DEF ShadowsIdle
<1>3. ASSUME NEW i \in DOMAIN procs, Entries(i)
      PROVE  ShadowsIdle'
  <2>1. CASE WriteSome(i)
    <3>1. PICK n \in Nat, e \in Entry : Written(i, n, e)
      BY <2>1, WriteEffect
    <3> QED
      BY <2>1, <3>1, ServesOldest, StoredKeepsShadows DEF WriteSome, Written
  <2>2. CASE ReadWait(i) \/ ReadAnswer(i) \/ ReadMute(i)
    <3>1. PICK e \in Entry : procs' = [procs EXCEPT ![i] = e] /\ e.fd = procs[i].fd
      BY <2>2, ReadEffect
    <3>2. Oldest(i)
      BY <2>2, ServesOldest DEF ReadWait, ReadAnswer, ReadMute, Receive
    <3> QED
      BY <3>1, <3>2, StoredKeepsShadows
  <2>3. CASE WriteFails(i) \/ WriteThrows(i) \/ ReadThrows(i)
    BY <1>2, <2>3 DEF WriteFails, WriteThrows, ReadThrows, Exit
  <2>4. CASE ReadClose(i) \/ ReadError(i)
    BY <1>1, <2>4 DEF ReadClose, ReadError
  <2> QED
    BY <1>3, <2>1, <2>2, <2>3, <2>4 DEF Entries
<1>4. ASSUME NEW l \in Listens, Accept(l)
      PROVE  ShadowsIdle'
  <2>1. /\ procs' \in Seq(Entry) /\ Len(procs') = Len(procs) + 1
        /\ procs'[Len(procs) + 1].req = <<>> /\ ~procs'[Len(procs) + 1].ready
        /\ \A j \in 1 .. Len(procs) :
             /\ procs'[j].fd = procs[j].fd /\ procs'[j].req = procs[j].req
             /\ procs'[j].ready = procs[j].ready
    BY <1>4, AcceptEffect
  <2>2. procs \in Seq(Entry)
    BY DEF IInv, TypeOK
  <2>3. ASSUME NEW j \in DOMAIN procs', NEW k \in 1 .. j - 1,
               procs'[k].fd = procs'[j].fd
        PROVE  procs'[j].req = <<>> /\ ~procs'[j].ready
    <3>1. CASE j = Len(procs) + 1
      BY <2>1, <3>1
    <3>2. CASE j # Len(procs) + 1
      <4>1. j \in DOMAIN procs /\ j \in 1 .. Len(procs) /\ k \in 1 .. Len(procs)
        BY <2>1, <2>2, <3>2
      <4>2. procs[k].fd = procs[j].fd
        BY <2>1, <2>3, <4>1
      <4> QED
        BY <2>1, <4>1, <4>2 DEF ShadowsIdle
    <3> QED
      BY <3>1, <3>2
  <2> QED
    BY <2>3 DEF ShadowsIdle
<1> QED
  BY <1>1, <1>2, <1>3, <1>4
  DEF Next, Server, Select, SelectFails, Spin, AcceptFails, Exit, loopVars, vars

\* Of the entries that share a descriptor only the oldest ever holds input or an
\* answer, however often the descriptor is closed and handed out again.
THEOREM OldestServes == Spec => []ShadowsIdle
<1>1. Init => ShadowsIdle
  BY DEF Init, ShadowsIdle
<1> QED
  BY <1>1, ShadowStep, Invariance, PTL DEF Spec

---------------------------------------------------------------------------
(* Tokens on their way                                                     *)

\* What the types say of one client's tokens.
LEMMA TokensType ==
    ASSUME TypeOK, NEW c \in Clients
    PROVE  /\ Script[c] \in Seq(Token) /\ Len(Script[c]) \in Nat
           /\ unsent[c] \in Seq(Token) /\ Len(unsent[c]) \in Nat
           /\ inbox[c] \in Seq(Token) /\ Len(inbox[c]) \in Nat
           /\ Issued(c) \in Int /\ Consumed(c) \in Int
<1>1. Script[c] \in Seq(Token) /\ unsent[c] \in Seq(Token) /\ inbox[c] \in Seq(Token)
  BY SocketsAssumption DEF SocketsAssumption, TypeOK, SocketsTypeOK
<1> QED
  BY <1>1, LenProperties DEF Issued, Consumed

\* Slices left to send and to read say how much was sent and read.
LEMMA CutsTell ==
    ASSUME TypeOK, NEW c \in Clients, NEW a \in Nat, NEW b \in Nat,
           a <= b, b <= Len(Script[c]),
           unsent'[c] = SubSeq(Script[c], b + 1, Len(Script[c])),
           inbox'[c] = SubSeq(Script[c], a + 1, b)
    PROVE  InOrder(c)' /\ Issued(c)' = b /\ Consumed(c)' = a
<1>1. Script[c] \in Seq(Token) /\ Len(Script[c]) \in Nat
  BY TokensType
<1>2. Len(unsent'[c]) = Len(Script[c]) - b /\ Len(inbox'[c]) = b - a
  BY <1>1, SliceType
<1>3. /\ Issued(c)' = Len(Script[c]) - Len(unsent'[c])
      /\ Consumed(c)' = Issued(c)' - Len(inbox'[c])
  BY DEF Issued, Consumed
<1>4. Issued(c)' = b /\ Consumed(c)' = a
  <2> HIDE DEF Issued, Consumed
  <2> QED
    BY <1>1, <1>2, <1>3
<1> QED
  BY <1>1, <1>4 DEF InOrder

\* What InOrder says, for the arithmetic of slices.
LEMMA CutsType ==
    ASSUME TypeOK, TokensInOrder, NEW c \in Clients
    PROVE  /\ Script[c] \in Seq(Token) /\ Len(Script[c]) \in Nat
           /\ Consumed(c) \in Nat /\ Issued(c) \in Nat
           /\ Consumed(c) <= Issued(c) /\ Issued(c) <= Len(Script[c])
           /\ unsent[c] = SubSeq(Script[c], Issued(c) + 1, Len(Script[c]))
           /\ inbox[c] = SubSeq(Script[c], Consumed(c) + 1, Issued(c))
           /\ Len(inbox[c]) = Issued(c) - Consumed(c)
           /\ inbox[c] = <<>> <=> Consumed(c) = Issued(c)
<1>1. /\ Script[c] \in Seq(Token) /\ Len(Script[c]) \in Nat /\ Len(unsent[c]) \in Nat
      /\ inbox[c] \in Seq(Token) /\ Len(inbox[c]) \in Nat
  BY TokensType
<1>2. InOrder(c)
  BY DEF TokensInOrder
<1>3. Len(inbox[c]) = Issued(c) - Consumed(c)
  BY <1>1, <1>2 DEF Consumed, InOrder
<1>4. inbox[c] = <<>> <=> Len(inbox[c]) = 0
  BY <1>1
<1> QED
  BY <1>1, <1>2, <1>3, <1>4 DEF InOrder

\* A token that is sent moves from one slice to the other.
LEMMA SendMovesCut ==
    ASSUME TypeOK, TokensInOrder, NEW c \in Clients, Send(c)
    PROVE  /\ Issued(c) < Len(Script[c]) /\ Head(unsent[c]) = Script[c][Issued(c) + 1]
           /\ InOrder(c)' /\ Issued(c)' = Issued(c) + 1 /\ Consumed(c)' = Consumed(c)
           /\ \A d \in Clients : d # c => unsent'[d] = unsent[d] /\ inbox'[d] = inbox[d]
<1> DEFINE s == Script[c]
           b == Issued(c)
           a == Consumed(c)
<1>1. /\ s \in Seq(Token) /\ Len(s) \in Nat /\ a \in Nat /\ b \in Nat
      /\ a <= b /\ b <= Len(s)
      /\ unsent[c] = SubSeq(s, b + 1, Len(s)) /\ inbox[c] = SubSeq(s, a + 1, b)
  BY CutsType
<1>2. /\ unsent[c] # <<>>
      /\ unsent' = [unsent EXCEPT ![c] = Tail(unsent[c])]
      /\ inbox' = [inbox EXCEPT ![c] = Append(inbox[c], Head(unsent[c]))]
  BY DEF Send, TypeOK, SocketsTypeOK
<1>3. /\ unsent'[c] = Tail(unsent[c]) /\ inbox'[c] = Append(inbox[c], Head(unsent[c]))
      /\ \A d \in Clients : d # c => unsent'[d] = unsent[d] /\ inbox'[d] = inbox[d]
  BY <1>2 DEF TypeOK, SocketsTypeOK
<1> HIDE DEF s, a, b
<1>4. b < Len(s)
  <2>1. CASE b = Len(s)
    <3>1. Len(SubSeq(s, b + 1, Len(s))) = 0 /\ SubSeq(s, b + 1, Len(s)) \in Seq(Token)
      BY <1>1, <2>1, SliceType
    <3> QED
      BY <1>1, <1>2, <3>1
  <2> QED
    BY <1>1, <2>1
<1>5. /\ Head(unsent[c]) = s[b + 1]
      /\ unsent'[c] = SubSeq(s, b + 2, Len(s))
      /\ inbox'[c] = SubSeq(s, a + 1, b + 1)
  BY <1>1, <1>3, <1>4, SliceNext
<1>6. InOrder(c)' /\ Issued(c)' = b + 1 /\ Consumed(c)' = a
  <2>1. b + 1 \in Nat /\ a <= b + 1 /\ b + 1 <= Len(s) /\ (b + 1) + 1 = b + 2
    BY <1>1, <1>4
  <2> QED
    BY <1>1, <1>5, <2>1, CutsTell DEF s
<1> QED
  BY <1>3, <1>4, <1>5, <1>6 DEF s, a, b

\* What recv() takes moves from the inbox to the entry.
LEMMA ReadMovesCut ==
    ASSUME TypeOK, TokensInOrder, NEW c \in Clients, NEW t \in 1 .. Len(inbox[c]),
           UNCHANGED unsent,
           inbox' = [inbox EXCEPT ![c] = SubSeq(inbox[c], t + 1, Len(inbox[c]))]
    PROVE  /\ Consumed(c) + t <= Issued(c) /\ InOrder(c)'
           /\ Issued(c)' = Issued(c) /\ Consumed(c)' = Consumed(c) + t
           /\ SubSeq(inbox[c], 1, t) = SubSeq(Script[c], Consumed(c) + 1, Consumed(c) + t)
           /\ \A d \in Clients : d # c => unsent'[d] = unsent[d] /\ inbox'[d] = inbox[d]
<1> DEFINE s == Script[c]
           b == Issued(c)
           a == Consumed(c)
           m == a + t
<1>1. /\ s \in Seq(Token) /\ Len(s) \in Nat /\ a \in Nat /\ b \in Nat
      /\ a <= b /\ b <= Len(s)
      /\ unsent[c] = SubSeq(s, b + 1, Len(s)) /\ inbox[c] = SubSeq(s, a + 1, b)
      /\ Len(inbox[c]) = b - a
  BY CutsType
<1>2. /\ unsent'[c] = unsent[c]
      /\ inbox'[c] = SubSeq(inbox[c], t + 1, Len(inbox[c]))
      /\ \A d \in Clients : d # c => unsent'[d] = unsent[d] /\ inbox'[d] = inbox[d]
  BY DEF TypeOK, SocketsTypeOK
<1> HIDE DEF s, a, b
<1>3. m \in Nat /\ a <= m /\ m <= b /\ m - a = t
  BY <1>1
<1>4. /\ SubSeq(inbox[c], 1, t) = SubSeq(s, a + 1, m)
      /\ inbox'[c] = SubSeq(s, m + 1, b)
  <2> HIDE DEF m
  <2>1. /\ SubSeq(SubSeq(s, a + 1, b), 1, m - a) = SubSeq(s, a + 1, m)
        /\ SubSeq(SubSeq(s, a + 1, b), m - a + 1, b - a) = SubSeq(s, m + 1, b)
    BY <1>1, <1>3, SliceCut
  <2> QED
    BY <1>1, <1>2, <1>3, <2>1
<1>5. InOrder(c)' /\ Issued(c)' = b /\ Consumed(c)' = m
  <2> HIDE DEF m
  <2> QED
    BY <1>1, <1>2, <1>3, <1>4, CutsTell DEF s
<1> QED
  BY <1>2, <1>3, <1>4, <1>5 DEF s, a, b

\* The tokens of a client whose sockets' queues are left alone stay where they are.
LEMMA CutsStay ==
    ASSUME NEW d \in Clients, unsent'[d] = unsent[d], inbox'[d] = inbox[d]
    PROVE  /\ Issued(d)' = Issued(d) /\ Consumed(d)' = Consumed(d)
           /\ InOrder(d) => InOrder(d)'
<1>1. Issued(d)' = Issued(d)
  BY DEF Issued
<1>2. Consumed(d)' = Consumed(d)
  BY <1>1 DEF Consumed
<1> QED
  BY <1>1, <1>2 DEF InOrder

\* Every step keeps tokens in order.
LEMMA TokensStep ==
    ASSUME IInv, TokensInOrder, [Next]_vars
    PROVE  TokensInOrder'
<1>1. CASE UNCHANGED <<unsent, inbox>>
  BY <1>1, CutsStay DEF TokensInOrder
<1>2. ASSUME NEW c \in Clients, InOrder(c)',
             \A d \in Clients : d # c => unsent'[d] = unsent[d] /\ inbox'[d] = inbox[d]
      PROVE  TokensInOrder'
  BY <1>2, CutsStay DEF TokensInOrder
<1>3. ASSUME NEW i \in DOMAIN procs, Entries(i)
      PROVE  TokensInOrder'
  <2>1. CASE WriteSome(i)
    BY <1>1, <2>1 DEF WriteSome
  <2>2. CASE ReadWait(i) \/ ReadAnswer(i) \/ ReadMute(i)
    <3>1. PICK c \in Clients : \E t \in 1 .. Len(inbox[c]) :
             /\ UNCHANGED unsent
             /\ inbox' = [inbox EXCEPT ![c] = SubSeq(inbox[c], t + 1, Len(inbox[c]))]
      BY <2>2, ReadEffect
    <3>2. InOrder(c)' /\ \A d \in Clients :
             d # c => unsent'[d] = unsent[d] /\ inbox'[d] = inbox[d]
      BY <3>1, ReadMovesCut DEF IInv
    <3> QED
      BY <1>2, <3>1, <3>2
  <2>3. CASE WriteFails(i) \/ WriteThrows(i) \/ ReadThrows(i)
    BY <1>1, <2>3 DEF WriteFails, WriteThrows, ReadThrows, Exit, clientVars
  <2>4. CASE ReadClose(i) \/ ReadError(i)
    BY <1>1, <2>4 DEF ReadClose, ReadError, clientVars, netVars
  <2> QED
    BY <1>3, <2>1, <2>2, <2>3, <2>4 DEF Entries
<1>4. ASSUME NEW c \in Clients, Client(c)
      PROVE  TokensInOrder'
  <2>1. CASE Send(c)
    BY <1>2, <2>1, SendMovesCut DEF IInv
  <2> QED
    BY <1>1, <1>4, <2>1 DEF Client, Connect, Drain, Fin, Rst
<1> QED
  BY <1>1, <1>3, <1>4 DEF Next, Server, Select, SelectFails, Spin, Accept, AcceptFails,
                          Exit, vars, netVars, clientVars

---------------------------------------------------------------------------
(* Where a connection is                                                   *)

\* A connection that nothing moves stays where it is.
LEMMA PlacesStay ==
    ASSUME OnePlaceEach, UNCHANGED <<backlog, file>>,
           \A c \in Clients : peer'[c] = "away" => peer[c] = "away"
    PROVE  OnePlaceEach'
  BY DEF OnePlaceEach, Waits, HasFd, Open

\* A client that connects had no place before.
LEMMA ConnectTakesPlace ==
    ASSUME TypeOK, OnePlaceEach, NEW c \in Clients, Connect(c)
    PROVE  OnePlaceEach'
<1> DEFINE k == Port[c]
           q == backlog[k]
<1>1. k \in Listens /\ q \in Seq(Clients) /\ Len(q) \in Nat /\ DOMAIN q = 1 .. Len(q)
  <2>1. k \in Listens
    BY SocketsAssumption DEF SocketsAssumption
  <2>2. q \in Seq(Clients)
    BY <2>1 DEF TypeOK, SocketsTypeOK
  <2> QED
    BY <2>1, <2>2, LenProperties
<1>2. /\ peer[c] = "away" /\ peer' = [peer EXCEPT ![c] = "open"]
      /\ backlog' = [backlog EXCEPT ![k] = Append(q, c)] /\ file' = file
  BY DEF Connect, TypeOK, SocketsTypeOK
<1>3. /\ backlog \in [Listens -> Seq(Clients)]
      /\ peer \in [Clients -> {"away", "open", "fin", "rst"}]
  BY DEF TypeOK, SocketsTypeOK
<1>4. /\ backlog'[k] = Append(q, c)
      /\ \A l \in Listens : l # k => backlog'[l] = backlog[l]
      /\ peer'[c] = "open" /\ \A d \in Clients : d # c => peer'[d] = peer[d]
  BY <1>1, <1>2, <1>3
<1>5. /\ DOMAIN Append(q, c) = 1 .. Len(q) + 1
      /\ \A j \in 1 .. Len(q) : Append(q, c)[j] = q[j]
      /\ Append(q, c)[Len(q) + 1] = c
  BY <1>1, AppendProperties
<1>6. ~Waits(c) /\ ~HasFd(c)
  BY <1>2 DEF OnePlaceEach
<1> HIDE DEF q
<1>7. ASSUME NEW l \in Listens, NEW j \in DOMAIN backlog'[l]
      PROVE  \/ l = k /\ j = Len(q) + 1 /\ backlog'[l][j] = c
             \/ j \in DOMAIN backlog[l] /\ backlog'[l][j] = backlog[l][j]
                /\ backlog[l][j] # c
  <2>1. CASE l = k /\ j = Len(q) + 1
    BY <1>4, <1>5, <2>1
  <2>2. CASE l = k /\ j # Len(q) + 1
    <3>1. j \in 1 .. Len(q) /\ backlog'[l][j] = q[j] /\ j \in DOMAIN q
      BY <1>1, <1>4, <1>5, <1>7, <2>2
    <3> QED
      BY <1>6, <2>2, <3>1 DEF Waits, q
  <2>3. CASE l # k
    BY <1>4, <1>6, <1>7, <2>3 DEF Waits
  <2> QED
    BY <2>1, <2>2, <2>3
<1>8. \A d \in Clients : Waits(d)' => d = c \/ Waits(d)
  BY <1>7 DEF Waits
<1>9. \A d \in Clients : HasFd(d)' <=> HasFd(d)
  BY <1>2 DEF HasFd
<1>10. ASSUME NEW l \in Listens, NEW m \in Listens, NEW j \in DOMAIN backlog'[l],
              NEW n \in DOMAIN backlog'[m], backlog'[l][j] = backlog'[m][n]
       PROVE  l = m /\ j = n
  BY <1>7, <1>10 DEF OnePlaceEach
<1>11. \A f, g \in Fds : Open(f)' /\ file'[f] = file'[g] => f = g
  BY <1>2 DEF OnePlaceEach, Open
<1>12. \A d \in Clients : ~(Waits(d)' /\ HasFd(d)')
  BY <1>6, <1>8, <1>9 DEF OnePlaceEach
<1>13. \A d \in Clients : peer'[d] = "away" => ~Waits(d)' /\ ~HasFd(d)'
  BY <1>4, <1>8, <1>9 DEF OnePlaceEach
<1> QED
  BY <1>10, <1>11, <1>12, <1>13 DEF OnePlaceEach

\* accept() takes a connection out of its backlog and gives it a descriptor.
LEMMA AcceptMoves ==
    ASSUME IInv, OnePlaceEach, NEW l \in Listens, Accept(l)
    PROVE  /\ OnePlaceEach'
           /\ \A d \in Clients : Waits(d)' => Waits(d)
           /\ \E c \in Clients : c = Head(backlog[l]) /\ Waits(c) /\ HasFd(c)'
<1>0. PICK c \in Clients, q \in Seq(Clients) : c = Head(backlog[l]) /\ q = backlog[l]
  BY AcceptEffect
<1>1. /\ q # <<>> /\ c = Head(q)
      /\ backlog' = [backlog EXCEPT ![l] = Tail(q)] /\ peer' = peer
  BY <1>0, AcceptEffect
<1>2. PICK f \in Fds : file[f] = Free /\ file' = [file EXCEPT ![f] = c]
  BY <1>0, AcceptEffect
<1>3. /\ backlog \in [Listens -> Seq(Clients)] /\ file \in [Fds -> Clients \cup {Free}]
  BY DEF IInv, TypeOK, SocketsTypeOK
<1>4. /\ backlog'[l] = Tail(q) /\ \A m \in Listens : m # l => backlog'[m] = backlog[m]
      /\ file'[f] = c /\ \A g \in Fds : g # f => file'[g] = file[g]
  BY <1>1, <1>2, <1>3
<1>5. /\ Len(q) \in Nat \ {0} /\ DOMAIN q = 1 .. Len(q) /\ c = q[1]
      /\ DOMAIN Tail(q) = 1 .. Len(q) - 1
      /\ \A j \in 1 .. Len(q) - 1 : Tail(q)[j] = q[j + 1]
  <2>1. Len(q) \in Nat \ {0} /\ DOMAIN q = 1 .. Len(q)
    BY <1>1, EmptySeq, LenProperties
  <2>2. c = q[1]
    BY <1>1
  <2>3. /\ Tail(q) \in Seq(Clients) /\ Len(Tail(q)) = Len(q) - 1
        /\ \A j \in 1 .. Len(Tail(q)) : Tail(q)[j] = q[j + 1]
    BY <1>1, HeadTailProperties
  <2> QED
    BY <2>1, <2>2, <2>3
<1>6. 1 \in DOMAIN q /\ Waits(c)
  BY <1>0, <1>5 DEF Waits
<1>7. \A m \in Listens, n \in Listens : \A i \in DOMAIN backlog[m], j \in DOMAIN backlog[n] :
         backlog[m][i] = backlog[n][j] => m = n /\ i = j
  BY DEF OnePlaceEach
<1>8. ASSUME NEW m \in Listens, NEW j \in DOMAIN backlog'[m]
      PROVE  \E i \in DOMAIN backlog[m] :
                /\ backlog'[m][j] = backlog[m][i] /\ backlog[m][i] # c
                /\ i = IF m = l THEN j + 1 ELSE j
  <2>1. CASE m = l
    <3>1. j \in 1 .. Len(q) - 1 /\ j + 1 \in DOMAIN q /\ j + 1 # 1
      BY <1>4, <1>5, <1>8, <2>1
    <3>2. backlog'[m][j] = q[j + 1]
      BY <1>4, <1>5, <2>1, <3>1
    <3>3. q[j + 1] # q[1]
      BY <1>0, <1>6, <1>7, <3>1
    <3> QED
      BY <1>0, <1>5, <2>1, <3>1, <3>2, <3>3
  <2>2. CASE m # l
    <3>1. backlog'[m][j] = backlog[m][j] /\ j \in DOMAIN backlog[m]
      BY <1>4, <1>8, <2>2
    <3>2. backlog[m][j] # q[1]
      BY <1>0, <1>6, <1>7, <2>2, <3>1
    <3> QED
      BY <1>5, <2>2, <3>1, <3>2
  <2> QED
    BY <2>1, <2>2
<1>9. \A d \in Clients : Waits(d)' => Waits(d) /\ d # c
  BY <1>8 DEF Waits
<1>10. \A d \in Clients : d # c => (HasFd(d)' => HasFd(d))
  BY <1>2, <1>4 DEF HasFd
<1>11. ASSUME NEW m \in Listens, NEW n \in Listens, NEW i \in DOMAIN backlog'[m],
              NEW j \in DOMAIN backlog'[n], backlog'[m][i] = backlog'[n][j]
       PROVE  m = n /\ i = j
  <2>1. PICK x \in DOMAIN backlog[m] :
          backlog'[m][i] = backlog[m][x] /\ x = IF m = l THEN i + 1 ELSE i
    BY <1>8
  <2>2. PICK y \in DOMAIN backlog[n] :
          backlog'[n][j] = backlog[n][y] /\ y = IF n = l THEN j + 1 ELSE j
    BY <1>8
  <2>3. m = n /\ x = y
    <3>1. backlog[m][x] = backlog[n][y]
      BY <1>11, <2>1, <2>2
    <3> QED
      BY <1>7, <3>1
  <2>4. CASE m = l
    <3>1. i \in 1 .. Len(q) - 1 /\ j \in 1 .. Len(q) - 1
      BY <1>4, <1>5, <2>3, <2>4
    <3> QED
      BY <1>5, <2>1, <2>2, <2>3, <2>4, <3>1
  <2> QED
    BY <2>1, <2>2, <2>3, <2>4
<1>12. ~HasFd(c)
  BY <1>1, <1>6 DEF OnePlaceEach
<1>13. \A g, h \in Fds : file'[g] # Free /\ file'[g] = file'[h] => g = h
  BY <1>4, <1>12 DEF OnePlaceEach, Open, HasFd
<1>14. \A d \in Clients : ~(Waits(d)' /\ HasFd(d)')
  BY <1>9, <1>10 DEF OnePlaceEach
<1>15. peer[c] # "away"
  BY <1>1, <1>6 DEF OnePlaceEach
<1>16. \A d \in Clients : peer'[d] = "away" => ~Waits(d)' /\ ~HasFd(d)'
  BY <1>1, <1>9, <1>10, <1>15 DEF OnePlaceEach
<1>17. OnePlaceEach'
  BY <1>11, <1>13, <1>14, <1>16 DEF OnePlaceEach, Open
<1>18. HasFd(c)'
  BY <1>4 DEF HasFd
<1> QED
  BY <1>0, <1>6, <1>9, <1>17, <1>18

\* Every step leaves each connection one place at most.
LEMMA PlacesStep ==
    ASSUME IInv, OnePlaceEach, [Next]_vars
    PROVE  OnePlaceEach'
<1>1. CASE UNCHANGED <<backlog, file, peer>>
  BY <1>1, PlacesStay
<1>2. CASE Exit
  <2>1. /\ \A f \in Fds : file'[f] = Free
        /\ \A l \in Listens : backlog'[l] = <<>>
    BY <1>2 DEF Exit
  <2>2. \A c \in Clients : ~Waits(c)' /\ ~HasFd(c)'
    BY <2>1, SocketsAssumption DEF SocketsAssumption, Waits, HasFd
  <2> QED
    BY <2>1, <2>2 DEF OnePlaceEach, Open
<1>3. ASSUME NEW i \in DOMAIN procs, Entries(i)
      PROVE  OnePlaceEach'
  <2>1. CASE WriteSome(i)
    BY <1>1, <2>1, WriteEffect
  <2>2. CASE ReadWait(i) \/ ReadAnswer(i) \/ ReadMute(i)
    BY <1>1, <2>2, ReadEffect
  <2>3. CASE WriteFails(i) \/ WriteThrows(i) \/ ReadThrows(i)
    BY <1>2, <2>3 DEF WriteFails, WriteThrows, ReadThrows
  <2>4. CASE ReadClose(i)
    <3>1. PICK f \in Fds : file' = [file EXCEPT ![f] = Free]
                           /\ UNCHANGED <<backlog, peer>>
      BY <2>4, CloseEffect
    <3>2. /\ file'[f] = Free /\ \A g \in Fds : g # f => file'[g] = file[g]
      BY <3>1 DEF IInv, TypeOK, SocketsTypeOK
    <3>3. \A c \in Clients : (Waits(c)' <=> Waits(c)) /\ (HasFd(c)' => HasFd(c))
      BY <3>1, <3>2, SocketsAssumption DEF SocketsAssumption, Waits, HasFd
    <3> QED
      BY <3>1, <3>2, <3>3 DEF OnePlaceEach, Open
  <2>5. CASE ReadError(i)
    BY <1>1, <2>5 DEF ReadError, netVars
  <2> QED
    BY <1>3, <2>1, <2>2, <2>3, <2>4, <2>5 DEF Entries
<1>4. ASSUME NEW l \in Listens, Accept(l)
      PROVE  OnePlaceEach'
  BY <1>4, AcceptMoves
<1>5. ASSUME NEW c \in Clients, Client(c)
      PROVE  OnePlaceEach'
  <2>1. CASE Connect(c)
    BY <2>1, ConnectTakesPlace DEF IInv
  <2>2. CASE ~Connect(c)
    <3>1. UNCHANGED <<backlog, file>>
      BY <1>5, <2>2 DEF Client, Send, Drain, Fin, Rst
    <3>2. \A d \in Clients : peer'[d] = "away" => peer[d] = "away"
      BY <1>5, <2>2 DEF Client, Send, Drain, Fin, Rst, IInv, TypeOK, SocketsTypeOK
    <3> QED
      BY <3>1, <3>2, PlacesStay
  <2> QED
    BY <2>1, <2>2
<1>6. CASE Select \/ Spin \/ UNCHANGED vars
  BY <1>1, <1>6 DEF Select, Spin, vars, netVars
<1> QED
  BY <1>2, <1>3, <1>4, <1>5, <1>6 DEF Next, Server, SelectFails, AcceptFails

---------------------------------------------------------------------------
(* What is heard, and what is half sent                                    *)

\* Only select() reports a descriptor, and only one of _fd_set.
LEMMA HearsStep ==
    ASSUME IInv, HearsWatched, [Next]_vars
    PROVE  HearsWatched'
<1>1. CASE pc' = "select" \/ pc' = "stopped"
  BY <1>1 DEF HearsWatched
<1>2. CASE Select
  BY <1>2 DEF Select, HearsWatched
<1>3. CASE UNCHANGED <<pc, sel, fdset>>
  BY <1>3 DEF HearsWatched
<1>4. ASSUME NEW i \in DOMAIN procs, Entries(i)
      PROVE  HearsWatched'
  BY <1>1, <1>4 DEF Entries, WriteSome, WriteFails, WriteThrows, ReadWait, ReadAnswer,
                    ReadMute, ReadThrows, ReadClose, ReadError, Return, Exit
<1>5. ASSUME NEW l \in Listens, Accept(l) \/ AcceptFails(l)
      PROVE  HearsWatched'
  BY <1>1, <1>5 DEF Accept, AcceptFails, Return, Exit
<1>6. CASE SelectFails \/ Spin
  BY <1>1, <1>6 DEF SelectFails, Spin, Exit
<1> QED
  BY <1>2, <1>3, <1>4, <1>5, <1>6 DEF Next, Server, vars, loopVars

\* The event of an entry leaves nothing of an answer out that is not pending.
LEMMA HalfSentStep ==
    ASSUME IInv, NothingHalfSent, [Next]_vars
    PROVE  NothingHalfSent'
<1>1. CASE procs' = procs
  BY <1>1 DEF NothingHalfSent
<1>2. CASE procs' = <<>>
  BY <1>2 DEF NothingHalfSent
<1>3. ASSUME NEW i \in DOMAIN procs, NEW e \in Entry, procs' = [procs EXCEPT ![i] = e],
             ~e.ready => e.sent = 0
      PROVE  NothingHalfSent'
  <2>1. /\ DOMAIN procs' = DOMAIN procs /\ procs'[i] = e
        /\ \A j \in DOMAIN procs : j # i => procs'[j] = procs[j]
    BY <1>3, Replaced DEF IInv
  <2> QED
    BY <1>3, <2>1 DEF NothingHalfSent
<1>4. ASSUME NEW i \in DOMAIN procs, Entries(i)
      PROVE  NothingHalfSent'
  <2>1. CASE WriteSome(i)
    <3>1. PICK n \in Nat, e \in Entry : Written(i, n, e)
      BY <2>1, WriteEffect
    <3> QED
      BY <1>3, <3>1 DEF Written
  <2>2. CASE ReadWait(i) \/ ReadAnswer(i) \/ ReadMute(i)
    <3>1. PICK e \in Entry :
             /\ procs' = [procs EXCEPT ![i] = e] /\ e.sent = procs[i].sent
             /\ ~e.ready => ~procs[i].ready
      BY <2>2, ReadEffect
    <3> QED
      BY <1>3, <3>1 DEF NothingHalfSent
  <2>3. CASE WriteFails(i) \/ WriteThrows(i) \/ ReadThrows(i)
    BY <1>2, <2>3 DEF WriteFails, WriteThrows, ReadThrows, Exit
  <2>4. CASE ReadClose(i) \/ ReadError(i)
    BY <1>1, <2>4 DEF ReadClose, ReadError
  <2> QED
    BY <1>4, <2>1, <2>2, <2>3, <2>4 DEF Entries
<1>5. ASSUME NEW l \in Listens, Accept(l)
      PROVE  NothingHalfSent'
  <2>1. /\ procs' \in Seq(Entry) /\ Len(procs') = Len(procs) + 1
        /\ procs'[Len(procs) + 1].sent = 0
        /\ \A j \in 1 .. Len(procs) : procs'[j].ready = procs[j].ready
                                      /\ procs'[j].sent = procs[j].sent
    BY <1>5, AcceptEffect
  <2>2. procs \in Seq(Entry)
    BY DEF IInv, TypeOK
  <2> QED
    BY <2>1, <2>2 DEF NothingHalfSent
<1> QED
  BY <1>1, <1>2, <1>4, <1>5
  DEF Next, Server, Select, SelectFails, Spin, AcceptFails, Exit, loopVars, vars

---------------------------------------------------------------------------
(* All of it                                                               *)

\* What holds whatever clients do.
PlaceInv ==
    /\ IInv /\ HeaderIndexFresh
    /\ TokensInOrder /\ OnePlaceEach /\ HearsWatched /\ NothingHalfSent /\ ShadowsIdle

\* Nothing is sent, connected or served yet.
LEMMA InitPlaces == Init => PlaceInv
<1> SUFFICES ASSUME Init PROVE PlaceInv
  OBVIOUS
<1>1. IInv
  BY InitEstablishes
<1>2. HeaderIndexFresh /\ NothingHalfSent /\ ShadowsIdle /\ HearsWatched
  BY DEF Init, HeaderIndexFresh, NothingHalfSent, ShadowsIdle, HearsWatched
<1>3. TokensInOrder
  <2> SUFFICES ASSUME NEW c \in Clients PROVE InOrder(c)
    BY DEF TokensInOrder
  <2>1. Script[c] \in Seq(Token) /\ Len(Script[c]) \in Nat
    BY <1>1, TokensType DEF IInv
  <2>2. unsent[c] = Script[c] /\ inbox[c] = <<>>
    BY DEF Init, SocketsInit
  <2>3. Issued(c) = 0
    BY <2>1, <2>2 DEF Issued
  <2>4. Len(inbox[c]) = 0
    BY <2>2
  <2>5. Consumed(c) = 0
    BY <2>3, <2>4 DEF Consumed
  <2>6. SubSeq(Script[c], 0 + 1, Len(Script[c])) = Script[c]
    BY <2>1, SubSeqFull
  <2>7. SubSeq(Script[c], 0 + 1, 0) = <<>>
    BY SubSeqEmpty
  <2> QED
    BY <2>1, <2>2, <2>3, <2>5, <2>6, <2>7 DEF InOrder
<1>4. OnePlaceEach
  <2>1. \A c \in Clients : ~Waits(c) /\ ~HasFd(c)
    BY SocketsAssumption DEF SocketsAssumption, Init, SocketsInit, Waits, HasFd
  <2> QED
    BY <2>1 DEF Init, SocketsInit, OnePlaceEach, Open
<1> QED
  BY <1>1, <1>2, <1>3, <1>4 DEF PlaceInv

\* Every step of the server and of the clients keeps it.
LEMMA PlacesKept == PlaceInv /\ [Next]_vars => PlaceInv'
  BY InductiveStep, HeaderIndexStep, TokensStep, PlacesStep, HearsStep, HalfSentStep,
     ShadowStep
  DEF PlaceInv

\* No token is lost, doubled or overtaken, no connection is in two places, and no
\* entry but the oldest of its descriptor works, in every reachable state.
THEOREM PlaceInvariance == Spec => []PlaceInv
  BY InitPlaces, PlacesKept, PTL DEF Spec
=============================================================================
