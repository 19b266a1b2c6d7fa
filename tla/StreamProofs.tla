---------------------------- MODULE StreamProofs ----------------------------
(***************************************************************************)
(* StreamInv is inductive, for any number of clients, listeners and        *)
(* descriptors: until a client leaves unanswered, or begins to send what   *)
(* is not framed or not waited for, every client gets its answers whole,   *)
(* in order and one for each request, and the process ends for no other    *)
(* cause than these, chunks that do not parse, or the want of a            *)
(* descriptor.  From it, the event loop implements the safety part of      *)
(* Service: every write is a part of the next answer or makes it whole,    *)
(* every token sent completes a request or not, and no other step shows.   *)
(***************************************************************************)
EXTENDS PlaceProofs, FiniteSetTheorems

---------------------------------------------------------------------------
(* Framed scripts                                                          *)

\* Numbers of requests grow along a script.
LEMMA NumbersGrow ==
    ASSUME NEW c \in Clients, Framed(c)
    PROVE  /\ \A b \in 0 .. Len(Script[c]) : NumAt(c, b) \in Nat
           /\ \A a, b \in 0 .. Len(Script[c]) : a <= b => NumAt(c, a) <= NumAt(c, b)
<1> DEFINE s == Script[c]
<1>1. s \in Seq(Token) /\ Len(s) \in Nat /\ DOMAIN s = 1 .. Len(s)
  BY SocketsAssumption, LenProperties DEF SocketsAssumption
<1>2. \A i \in 1 .. Len(s) : s[i].no \in Nat
  <2> HIDE DEF s
  <2>1. \A i \in 1 .. Len(s) : s[i] \in Token
    BY <1>1
  <2> QED
    BY <2>1 DEF Token
<1>3. \A i, j \in 1 .. Len(s) : i < j => s[i].no <= s[j].no
  BY <1>1 DEF Framed
<1> HIDE DEF s
<1>4. \A b \in 0 .. Len(s) : NumAt(c, b) = IF b = 0 THEN 0 ELSE s[b].no
  BY DEF NumAt, s
<1>5. \A b \in 0 .. Len(s) : NumAt(c, b) \in Nat
  BY <1>1, <1>2, <1>4
<1>6. ASSUME NEW a \in 0 .. Len(s), NEW b \in 0 .. Len(s), a <= b
      PROVE  NumAt(c, a) <= NumAt(c, b)
  <2>1. CASE a = 0
    BY <1>4, <1>5, <2>1
  <2>2. CASE a = b
    BY <1>5, <2>2
  <2>3. CASE a # 0 /\ a # b
    <3>1. a \in 1 .. Len(s) /\ b \in 1 .. Len(s) /\ a < b
      BY <1>1, <1>6, <2>3
    <3> QED
      BY <1>3, <1>4, <3>1
  <2> QED
    BY <2>1, <2>2, <2>3
<1> QED
  BY <1>5, <1>6 DEF s

\* A boundary is followed by the first token of the next request.
LEMMA NextStarts ==
    ASSUME NEW c \in Clients, Framed(c), NEW b \in 0 .. Len(Script[c]) - 1, Boundary(c, b)
    PROVE  NumAt(c, b + 1) = NumAt(c, b) + 1
<1> DEFINE s == Script[c]
<1>1. s \in Seq(Token) /\ Len(s) \in Nat /\ DOMAIN s = 1 .. Len(s)
  BY SocketsAssumption, LenProperties DEF SocketsAssumption
<1>2. b \in Nat /\ b + 1 \in 1 .. Len(s) /\ b < Len(s) /\ b + 1 # 0 /\ (b + 1) - 1 = b
  BY <1>1
<1>3. /\ NumAt(c, b) \in Nat /\ NumAt(c, b + 1) \in Nat
      /\ NumAt(c, b) <= NumAt(c, b + 1)
  BY <1>2, NumbersGrow
<1>4. NumAt(c, b + 1) <= NumAt(c, b) + 1 /\ NumAt(c, b + 1) >= 1
  <2>1. s[b + 1].no <= NumAt(c, (b + 1) - 1) + 1 /\ s[b + 1].no >= 1
    BY <1>1, <1>2 DEF Framed
  <2>2. NumAt(c, b + 1) = s[b + 1].no
    BY <1>2 DEF NumAt
  <2> QED
    BY <1>2, <2>1, <2>2
<1>5. NumAt(c, b) # NumAt(c, b + 1)
  <2>1. CASE b = 0
    BY <1>4, <2>1 DEF NumAt
  <2>2. CASE b # 0
    BY <1>2, <2>2 DEF Boundary
  <2> QED
    BY <2>1, <2>2
<1> QED
  BY <1>3, <1>4, <1>5

\* Where a request starts in a script.
LEMMA StartUnique ==
    ASSUME NEW c \in Clients, NEW k, Script[c] \in Seq(Token)
    PROVE  /\ \A h \in 1 .. Len(Script[c]) :
                Script[c][h].no = k /\ (\A i \in 1 .. h - 1 : Script[c][i].no # k)
                   => StartOf(c, k) = h
           /\ (\A i \in 1 .. Len(Script[c]) : Script[c][i].no # k) => StartOf(c, k) = 0
<1> DEFINE s == Script[c]
           I == {i \in 1 .. Len(s) : s[i].no = k}
<1>1. StartOf(c, k) = IF I # {} THEN Min(I) ELSE 0
  BY DEF StartOf, SelectInSeq
<1>2. ASSUME NEW h \in 1 .. Len(s), s[h].no = k, \A i \in 1 .. h - 1 : s[i].no # k
      PROVE  StartOf(c, k) = h
  <2>1. h \in I
    BY <1>2
  <2>2. I \subseteq Nat
    OBVIOUS
  <2> HIDE DEF I
  <2>3. Min(I) \in I /\ \A x \in I : Min(I) <= x
    BY <2>1, <2>2, LeastPosition
  <2>4. Min(I) <= h /\ Min(I) \in 1 .. Len(s) /\ s[Min(I)].no = k
    BY <2>1, <2>3 DEF I
  <2> HIDE DEF s
  <2>5. Min(I) = h
    BY <1>2, <2>4
  <2> QED
    BY <1>1, <2>1, <2>5
<1>3. ASSUME \A i \in 1 .. Len(s) : s[i].no # k
      PROVE  StartOf(c, k) = 0
  BY <1>1, <1>3
<1> QED
  BY <1>2, <1>3

\* The tokens between two boundaries that are a request apart are that request.
LEMMA SentIsSlice ==
    ASSUME NEW c \in Clients, Framed(c),
           NEW a \in 0 .. Len(Script[c]), NEW b \in 0 .. Len(Script[c]), a < b,
           Boundary(c, a), Boundary(c, b), NumAt(c, b) = NumAt(c, a) + 1
    PROVE  Sent(c, NumAt(c, b)) = Effective(SubSeq(Script[c], a + 1, b))
<1> DEFINE s == Script[c]
           k == NumAt(c, b)
<1>1. s \in Seq(Token) /\ Len(s) \in Nat
  BY SocketsAssumption DEF SocketsAssumption
<1>2. /\ \A i \in 1 .. Len(s) : NumAt(c, i) = s[i].no /\ s[i].no \in Nat
      /\ NumAt(c, a) \in Nat /\ k \in Nat
      /\ \A i \in 1 .. Len(s) : i <= a => s[i].no <= NumAt(c, a)
      /\ \A i \in 1 .. Len(s) : i <= b => s[i].no <= k
  <2>1. \A i \in 1 .. Len(s) : NumAt(c, i) = s[i].no
    BY <1>1 DEF NumAt
  <2>2. \A i \in 1 .. Len(s) : i \in 0 .. Len(s)
    BY <1>1
  <2>3. /\ \A i \in 0 .. Len(s) : NumAt(c, i) \in Nat
        /\ \A i, j \in 0 .. Len(s) : i <= j => NumAt(c, i) <= NumAt(c, j)
    BY NumbersGrow
  <2> HIDE DEF s
  <2>4. a \in 0 .. Len(s) /\ b \in 0 .. Len(s)
    BY DEF s
  <2> QED
    BY <2>1, <2>2, <2>3, <2>4
<1>3. a \in Nat /\ b \in Nat /\ a + 1 \in 1 .. Len(s) /\ a < Len(s) /\ b <= Len(s)
  BY <1>1
<1>4. StartOf(c, k) = a + 1
  <2>1. s[a + 1].no = k
    <3>1. NumAt(c, a + 1) = NumAt(c, a) + 1
      BY <1>1, <1>3, NextStarts
    <3> QED
      BY <1>2, <1>3, <3>1
  <2>2. \A i \in 1 .. (a + 1) - 1 : s[i].no # k
    <3> HIDE DEF s, k
    <3>1. k = NumAt(c, a) + 1
      BY DEF k
    <3> QED
      BY <1>1, <1>2, <1>3, <3>1
  <2> QED
    BY <1>1, <1>3, <2>1, <2>2, StartUnique
<1>5. EndOf(c, k) = b
  <2>1. CASE b = Len(s)
    <3>1. \A i \in 1 .. Len(s) : s[i].no # k + 1
      <4> HIDE DEF s, k
      <4> QED
        BY <1>1, <1>2, <2>1
    <3>2. StartOf(c, k + 1) = 0
      BY <1>1, <3>1, StartUnique
    <3> QED
      BY <2>1, <3>2 DEF EndOf
  <2>2. CASE b # Len(s)
    <3>1. b + 1 \in 1 .. Len(s) /\ b \in 0 .. Len(s) - 1
      BY <1>1, <1>3, <2>2
    <3>2. s[b + 1].no = k + 1
      <4>1. NumAt(c, b + 1) = k + 1
        BY <3>1, NextStarts
      <4> QED
        BY <1>2, <3>1, <4>1
    <3>3. \A i \in 1 .. (b + 1) - 1 : s[i].no # k + 1
      <4> HIDE DEF s, k
      <4> QED
        BY <1>1, <1>2, <1>3
    <3>4. StartOf(c, k + 1) = b + 1
      BY <1>1, <3>1, <3>2, <3>3, StartUnique
    <3>5. b + 1 # 0 /\ (b + 1) - 1 = b
      BY <1>3
    <3> QED
      BY <3>4, <3>5 DEF EndOf
  <2> QED
    BY <2>1, <2>2
<1> QED
  BY <1>4, <1>5 DEF Sent

\* readRequest, which has all from a boundary on, finds the request complete when it
\* has it to its last token.
LEMMA CompleteAtBoundary ==
    ASSUME NEW c \in Clients, Framed(c),
           NEW b \in 0 .. Len(Script[c]), NEW m \in 0 .. Len(Script[c]), b < m,
           Boundary(c, b), NumAt(c, m) <= NumAt(c, b) + 1
    PROVE  LET r == SubSeq(Script[c], b + 1, m)
           IN  /\ NumAt(c, m) = NumAt(c, b) + 1
               /\ Complete(r, HeaderEnd(r)) <=> Boundary(c, m)
<1> DEFINE s == Script[c]
<1>1. s \in Seq(Token) /\ Len(s) \in Nat
  BY SocketsAssumption DEF SocketsAssumption
<1>2. /\ b \in Nat /\ m \in Nat /\ b \in 0 .. Len(s) - 1 /\ b + 1 \in 0 .. Len(s)
      /\ m \in b + 1 .. Len(s) /\ b + 1 <= m /\ b + 1 # 0 /\ m # 0
  BY <1>1
<1>3. NumAt(c, b + 1) = NumAt(c, b) + 1
  BY <1>2, NextStarts
<1>4. /\ NumAt(c, b) \in Nat /\ NumAt(c, m) \in Nat
      /\ NumAt(c, b + 1) <= NumAt(c, m)
  BY <1>2, NumbersGrow
<1>5. NumAt(c, m) = NumAt(c, b) + 1
  BY <1>3, <1>4
<1>6. s[b + 1].no = s[m].no
  BY <1>2, <1>3, <1>5 DEF NumAt
<1> QED
  BY <1>2, <1>5, <1>6 DEF Framed

\* Whether a script is framed does not change.
LEMMA FramedStays ==
    ASSUME NEW c \in Clients
    PROVE  Framed(c)' = Framed(c)
  BY DEF Framed, NumAt, Boundary, Complete, HeaderEnd, IsFinalChunked, FirstOf, SelectInSeq

\* Nobody has sent what is not framed or not waited for.
NoneStray == \A c \in Clients : ~Strays(c)

LEMMA NobodyStrays ==
    ASSUME FramedScripts, AllWait
    PROVE  NoneStray /\ NoneStray'
<1>1. \A c \in Clients : Framed(c)' /\ c \notin Pipelining
  BY FramedStays DEF FramedScripts, AllWait
<1> QED
  BY <1>1 DEF NoneStray, Strays, FramedScripts, AllWait

---------------------------------------------------------------------------
(* Counting answers                                                        *)

\* EndsUpTo, of any history of writes.
EndsIn(g, i) == {j \in 1 .. i : EndsAnswer(g[j])}

\* A further write adds one to the answers if it ends one, and leaves the earlier
\* counts alone.
LEMMA EndsAfterAppend ==
    ASSUME NEW g \in Seq(Piece), NEW q \in Piece
    PROVE  LET n == Len(g)
               h == Append(g, q)
           IN  /\ n \in Nat /\ Cardinality(EndsIn(g, n)) \in Nat
               /\ \A i \in 0 .. n : EndsIn(h, i) = EndsIn(g, i)
               /\ Cardinality(EndsIn(h, n + 1)) =
                    Cardinality(EndsIn(g, n)) + IF EndsAnswer(q) THEN 1 ELSE 0
<1> DEFINE n == Len(g)
           h == Append(g, q)
<1>1. /\ n \in Nat /\ \A i \in 1 .. n : h[i] = g[i]
      /\ h[n + 1] = q
  BY AppendProperties
<1> HIDE DEF n, h
<1>2. ASSUME NEW i \in 0 .. n
      PROVE  EndsIn(h, i) = EndsIn(g, i)
  <2>1. \A j \in 1 .. i : h[j] = g[j]
    BY <1>1
  <2> QED
    BY <2>1 DEF EndsIn
<1>3. IsFiniteSet(EndsIn(g, n))
  <2>1. IsFiniteSet(1 .. n)
    BY <1>1, FS_Interval
  <2>2. EndsIn(g, n) \subseteq 1 .. n
    BY DEF EndsIn
  <2> QED
    BY <2>1, <2>2, FS_Subset
<1>4. Cardinality(EndsIn(g, n)) \in Nat
  BY <1>3, FS_CardinalityType
<1>5. n + 1 \notin EndsIn(g, n)
  BY <1>1 DEF EndsIn
<1>6. EndsIn(h, n + 1) = IF EndsAnswer(q) THEN EndsIn(g, n) \cup {n + 1} ELSE EndsIn(g, n)
  <2>1. ASSUME NEW j
        PROVE  j \in EndsIn(h, n + 1) <=>
                 (j \in EndsIn(g, n) \/ (j = n + 1 /\ EndsAnswer(q)))
    <3>1. j \in 1 .. n + 1 <=> (j \in 1 .. n \/ j = n + 1)
      BY <1>1
    <3>2. n + 1 \notin 1 .. n
      BY <1>1
    <3> QED
      BY <1>1, <3>1, <3>2 DEF EndsIn
  <2> QED
    BY <2>1
<1>7. Cardinality(EndsIn(h, n + 1)) =
        Cardinality(EndsIn(g, n)) + IF EndsAnswer(q) THEN 1 ELSE 0
  <2>1. CASE EndsAnswer(q)
    <3>1. Cardinality(EndsIn(g, n) \cup {n + 1}) = Cardinality(EndsIn(g, n)) + 1
      BY <1>3, <1>5, FS_AddElement
    <3> QED
      BY <1>6, <2>1, <3>1
  <2>2. CASE ~EndsAnswer(q)
    BY <1>4, <1>6, <2>2
  <2> QED
    BY <2>1, <2>2
<1> QED
  BY <1>1, <1>2, <1>4, <1>7 DEF n, h

\* How many answers a client got.
LEMMA AnsweredType ==
    ASSUME TypeOK, NEW c \in Clients
    PROVE  /\ Answered(c) \in Nat /\ Received(c) \in Nat /\ Received(c) <= Answered(c)
           /\ got[c] \in Seq(Piece) /\ DOMAIN got[c] = 1 .. Len(got[c])
           /\ Answered(c) = EndsUpTo(c, Len(got[c]))
           /\ got[c] = <<>> => Answered(c) = 0
<1>1. got[c] \in Seq(Piece) /\ Len(got[c]) \in Nat /\ DOMAIN got[c] = 1 .. Len(got[c])
  BY LenProperties DEF TypeOK, SocketsTypeOK
<1> DEFINE S == {i \in 1 .. Len(got[c]) : EndsAnswer(got[c][i])}
<1>2. Answered(c) = Cardinality(S) /\ EndsUpTo(c, Len(got[c])) = Cardinality(S)
  BY <1>1 DEF Answered, EndsUpTo
<1>3. IsFiniteSet(S)
  <2>1. IsFiniteSet(1 .. Len(got[c]))
    BY <1>1, FS_Interval
  <2> QED
    BY <2>1, FS_Subset
<1>4. Cardinality(S) \in Nat
  BY <1>3, FS_CardinalityType
<1>5. got[c] = <<>> => Cardinality(S) = 0
  <2>1. ASSUME got[c] = <<>> PROVE S = {}
    <3>1. Len(got[c]) = 0
      BY <2>1
    <3> QED
      BY <3>1
  <2> HIDE DEF S
  <2> QED
    BY <2>1, FS_EmptySet
<1> HIDE DEF S
<1>6. Received(c) \in Nat /\ Received(c) <= Answered(c)
  BY <1>2, <1>4 DEF Received
<1> QED
  BY <1>1, <1>2, <1>4, <1>5, <1>6

\* The n + 1st piece written to c is q, and ends its answer or does not.
Longer(c, n, q) ==
    /\ DOMAIN got'[c] = 1 .. n + 1 /\ Len(got'[c]) = n + 1
    /\ got'[c][n + 1] = q /\ \A k \in 1 .. n : got'[c][k] = got[c][k]
    /\ \A k \in 1 .. n : EndsUpTo(c, k)' = EndsUpTo(c, k)
    /\ EndsUpTo(c, n + 1)' = Answered(c)'
    /\ Answered(c)' = Answered(c) + IF EndsAnswer(q) THEN 1 ELSE 0
    /\ \A d \in Clients : d # c => got'[d] = got[d]

\* A write to c and the answers it makes whole.
LEMMA WriteCounts ==
    ASSUME TypeOK, NEW c \in Clients, NEW q \in Piece, NEW n \in Nat, n = Len(got[c]),
           got' = [got EXCEPT ![c] = Append(got[c], q)]
    PROVE  Longer(c, n, q)
<1> DEFINE h == Append(got[c], q)
<1>1. got[c] \in Seq(Piece) /\ DOMAIN got[c] = 1 .. Len(got[c])
      /\ Answered(c) = EndsUpTo(c, Len(got[c]))
  BY AnsweredType
<1>2. got'[c] = h /\ \A d \in Clients : d # c => got'[d] = got[d]
  BY DEF TypeOK, SocketsTypeOK
<1>3. /\ h \in Seq(Piece) /\ Len(h) = n + 1 /\ DOMAIN h = 1 .. n + 1
      /\ h[n + 1] = q /\ \A k \in 1 .. n : h[k] = got[c][k]
  BY <1>1, AppendProperties, LenProperties
<1>4. /\ \A i \in 0 .. n : EndsIn(h, i) = EndsIn(got[c], i)
      /\ Cardinality(EndsIn(h, n + 1)) =
           Cardinality(EndsIn(got[c], n)) + IF EndsAnswer(q) THEN 1 ELSE 0
  BY <1>1, EndsAfterAppend
<1>5. \A k \in Nat : /\ EndsUpTo(c, k) = Cardinality(EndsIn(got[c], k))
                     /\ EndsUpTo(c, k)' = Cardinality(EndsIn(got'[c], k))
  BY DEF EndsUpTo, EndsIn
<1>6. Answered(c)' = Cardinality(EndsIn(got'[c], n + 1))
  <2>1. DOMAIN got'[c] = 1 .. n + 1
    BY <1>2, <1>3
  <2> QED
    BY <2>1 DEF Answered, EndsIn
<1> HIDE DEF h
<1>7. /\ \A k \in 1 .. n : EndsUpTo(c, k)' = EndsUpTo(c, k)
      /\ EndsUpTo(c, n + 1)' = Answered(c)'
      /\ Answered(c)' = Answered(c) + IF EndsAnswer(q) THEN 1 ELSE 0
  <2>1. \A k \in 1 .. n : k \in 0 .. n /\ k \in Nat
    OBVIOUS
  <2>2. n + 1 \in Nat
    OBVIOUS
  <2>3. Answered(c) = Cardinality(EndsIn(got[c], n))
    BY <1>1, <1>5
  <2>4. ASSUME NEW k \in 1 .. n
        PROVE  EndsUpTo(c, k)' = EndsUpTo(c, k)
    <3>1. EndsIn(got'[c], k) = EndsIn(got[c], k)
      BY <1>2, <1>4, <2>1
    <3> QED
      BY <1>5, <2>1, <3>1
  <2>5. EndsUpTo(c, n + 1)' = Answered(c)'
    BY <1>5, <1>6, <2>2
  <2>6. Answered(c)' = Cardinality(EndsIn(h, n + 1))
    BY <1>2, <1>6
  <2>7. Answered(c)' = Answered(c) + IF EndsAnswer(q) THEN 1 ELSE 0
    BY <1>4, <2>3, <2>6
  <2> QED
    BY <2>4, <2>5, <2>7
<1> QED
  BY <1>2, <1>3, <1>4, <1>7 DEF h, Longer

---------------------------------------------------------------------------
(* What a step leaves alone                                                *)

\* The stream of a client that a step does not touch.
Stream(c) == Paced(c) /\ PiecesFit(c) /\ NotYetRead(c)

LEMMA CountsStay ==
    ASSUME NEW d \in Clients, got'[d] = got[d]
    PROVE  /\ Answered(d)' = Answered(d) /\ AllWhole(d)' = AllWhole(d)
           /\ PiecesFit(d) => PiecesFit(d)'
<1>1. Answered(d)' = Answered(d)
  BY DEF Answered
<1>2. AllWhole(d)' = AllWhole(d)
  BY DEF AllWhole
<1>3. \A k : EndsUpTo(d, k)' = EndsUpTo(d, k)
  BY DEF EndsUpTo
<1>4. ASSUME NEW k \in DOMAIN got[d], PieceFits(d, k)
      PROVE  PieceFits(d, k)'
  BY <1>3, <1>4 DEF PieceFits
<1> QED
  BY <1>1, <1>2, <1>4 DEF PiecesFit

LEMMA StreamStays ==
    ASSUME NEW d \in Clients, Stream(d),
           got'[d] = got[d], unsent'[d] = unsent[d], inbox'[d] = inbox[d],
           peer'[d] = "away" \/ Waits(d)' => peer[d] = "away" \/ Waits(d)
    PROVE  Stream(d)'
<1>1. Issued(d)' = Issued(d) /\ Consumed(d)' = Consumed(d)
  BY CutsStay
<1>2. Answered(d)' = Answered(d) /\ (PiecesFit(d) => PiecesFit(d)')
  BY CountsStay
<1>3. Paced(d)'
  BY <1>1, <1>2 DEF Stream, Paced, NumAt
<1>4. NotYetRead(d)'
  BY <1>1 DEF Stream, NotYetRead
<1> QED
  BY <1>2, <1>3, <1>4 DEF Stream

\* An entry that keeps its connection, its request and its answer.
LEMMA ServesStays ==
    ASSUME NEW d \in Clients, NEW p, NEW e,
           e.fd = p.fd, e.req = p.req, e.ready = p.ready, e.res = p.res, e.sent = p.sent,
           got'[d] = got[d], unsent'[d] = unsent[d], inbox'[d] = inbox[d],
           p.fd \in fdset' => p.fd \in fdset,
           Serves(d, p)
    PROVE  Serves(d, e)'
<1>1. Issued(d)' = Issued(d) /\ Consumed(d)' = Consumed(d)
  BY CutsStay
<1>2. Answered(d)' = Answered(d) /\ AllWhole(d)' = AllWhole(d)
  BY CountsStay
<1>3. PICK b \in 0 .. Len(Script[d]) :
         /\ Boundary(d, b) /\ NumAt(d, b) = Answered(d)
         /\ IF p.ready THEN Answering(d, p, b) ELSE Waiting(d, p, b)
  BY DEF Serves
<1>4. CASE p.ready
  <2>1. Answering(d, p, b)
    BY <1>3, <1>4
  <2>2. Answering(d, e, b)'
    BY <1>1, <1>2, <2>1 DEF Answering, Boundary, NumAt
  <2>3. Boundary(d, b)' /\ NumAt(d, b)' = Answered(d)'
    BY <1>2, <1>3 DEF Boundary, NumAt
  <2> QED
    BY <1>4, <2>2, <2>3 DEF Serves
<1>5. CASE ~p.ready
  <2>1. Waiting(d, p, b)
    BY <1>3, <1>5
  <2>2. Waiting(d, e, b)'
    BY <1>1, <1>2, <2>1 DEF Waiting, Boundary, NumAt
  <2>3. Boundary(d, b)' /\ NumAt(d, b)' = Answered(d)'
    BY <1>2, <1>3 DEF Boundary, NumAt
  <2> QED
    BY <1>5, <2>2, <2>3 DEF Serves
<1> QED
  BY <1>4, <1>5

\* Entries that nothing touches.
LEMMA EntriesStay ==
    ASSUME EntriesFit, UNCHANGED <<procs, file, got, unsent, inbox>>,
           fdset' \subseteq fdset
    PROVE  EntriesFit'
<1>1. ASSUME NEW j \in DOMAIN procs, NEW p, p = procs[j]
      PROVE  /\ ~Open(p.fd)' => ~p.ready /\ p.req = <<>>
             /\ \A d \in Clients : Oldest(j)' /\ file'[p.fd] = d => Serves(d, p)'
  <2>1. (~Open(p.fd)' => ~Open(p.fd)) /\ (Oldest(j)' => Oldest(j))
    BY DEF Open, Oldest
  <2>2. ASSUME NEW d \in Clients, Oldest(j), file[p.fd] = d
        PROVE  Serves(d, p)'
    <3>1. Serves(d, p)
      BY <1>1, <2>2 DEF EntriesFit
    <3> QED
      BY <3>1, ServesStays
  <2> QED
    BY <1>1, <2>1, <2>2 DEF EntriesFit
<1> QED
  BY <1>1 DEF EntriesFit

\* The event of one entry touches its own client, and no other.
LEMMA EventFits ==
    ASSUME IInv, OnePlaceEach, EntriesFit, NEW i \in DOMAIN procs, Oldest(i),
           NEW f \in Fds, f = procs[i].fd, NEW c \in Clients, c = file[f],
           NEW e \in Entry, e.fd = f, procs' = [procs EXCEPT ![i] = e],
           file' = file, fdset' \subseteq fdset,
           \A d \in Clients : d # c =>
               got'[d] = got[d] /\ unsent'[d] = unsent[d] /\ inbox'[d] = inbox[d],
           Serves(c, e)'
    PROVE  EntriesFit'
<1>1. /\ DOMAIN procs' = DOMAIN procs /\ procs'[i] = e
      /\ \A j \in DOMAIN procs : j # i => procs'[j] = procs[j]
  BY Replaced DEF IInv
<1>2. \A j \in DOMAIN procs : procs'[j].fd = procs[j].fd
  BY <1>1
<1>3. procs \in Seq(Entry)
  BY DEF IInv, TypeOK
<1>4. \A j \in DOMAIN procs : Oldest(j)' => Oldest(j)
  <2>1. \A j \in DOMAIN procs : \A k \in 1 .. j - 1 : k \in DOMAIN procs
    BY <1>3
  <2> QED
    BY <1>2, <2>1 DEF Oldest
<1>5. Open(f)
  BY SocketsAssumption DEF SocketsAssumption, Open
<1>6. ASSUME NEW j \in DOMAIN procs, NEW p, p = procs'[j]
      PROVE  /\ ~Open(p.fd)' => ~p.ready /\ p.req = <<>>
             /\ \A d \in Clients : Oldest(j)' /\ file'[p.fd] = d => Serves(d, p)'
  <2>1. CASE j = i
    BY <1>1, <1>5, <1>6, <2>1 DEF Open
  <2>2. CASE j # i
    <3>1. p = procs[j] /\ p.fd \in Fds
      BY <1>1, <1>6, <2>2, EntryType DEF IInv
    <3>2. ~Open(p.fd)' => ~p.ready /\ p.req = <<>>
      BY <3>1 DEF EntriesFit, Open
    <3>3. ASSUME NEW d \in Clients, Oldest(j), file[p.fd] = d
          PROVE  Serves(d, p)'
      <4>1. d # c
        <5>1. SUFFICES ASSUME d = c PROVE FALSE
          OBVIOUS
        <5>2. p.fd = f
          BY <1>5, <3>1, <3>3, <5>1 DEF OnePlaceEach
        <5>3. i \in 1 .. j - 1 \/ j \in 1 .. i - 1
          BY <1>3, <2>2
        <5> QED
          BY <3>1, <3>3, <5>2, <5>3 DEF Oldest
      <4>2. Serves(d, p)
        BY <3>1, <3>3 DEF EntriesFit
      <4> QED
        BY <4>1, <4>2, ServesStays
    <3> QED
      BY <1>4, <3>2, <3>3
  <2> QED
    BY <2>1, <2>2
<1> QED
  BY <1>1, <1>6 DEF EntriesFit

---------------------------------------------------------------------------
(* Every action of the server                                              *)

\* The client at a descriptor came and waits in no backlog: what it was written
\* and what was read from it need not be nothing any more.
LEMMA ServedIsIn ==
    ASSUME OnePlaceEach, NEW c \in Clients, HasFd(c), UNCHANGED <<backlog, peer>>
    PROVE  NotYetRead(c)'
<1>1. ~Waits(c) /\ peer[c] # "away"
  BY DEF OnePlaceEach
<1>2. ~Waits(c)' /\ peer'[c] # "away"
  BY <1>1 DEF Waits
<1> QED
  BY <1>2 DEF NotYetRead

\* A piece of the pending answer continues what was written before, and the last one
\* makes it the whole answer to the next request.
LEMMA WriteFits ==
    ASSUME PlaceInv, NoneStray, AllFits, NEW i, WriteSome(i)
    PROVE  AllFits'
<1>1. PICK p \in Entry, f \in Fds, c \in Clients :
         p = procs[i] /\ f = p.fd /\ c = file[f] /\ p.ready /\ i \in DOMAIN procs
  BY WriteEffect DEF PlaceInv
<1>2. /\ Writer(i) /\ UNCHANGED <<backlog, file, peer, unsent, inbox, fdset>>
      /\ \E n \in Nat, e \in Entry : Written(i, n, e)
  BY WriteEffect DEF PlaceInv
<1>3. PICK n \in Nat, e \in Entry : Written(i, n, e)
  BY <1>2
<1> DEFINE q == [res |-> p.res, from |-> p.sent, upto |-> p.sent + n]
<1>4. /\ p.sent + n <= p.res.len /\ procs' = [procs EXCEPT ![i] = e] /\ e.fd = f
      /\ got' = [got EXCEPT ![c] = Append(got[c], q)]
      /\ \/ p.sent + n = p.res.len /\ e.req = <<>> /\ ~e.ready /\ e.sent = 0
         \/ /\ p.sent + n # p.res.len
            /\ e.req = p.req /\ e.ready /\ e.res = p.res /\ e.sent = p.sent + n
  BY <1>1, <1>3 DEF Written
<1>5. p.sent \in Nat /\ p.res \in Answer /\ p.res.len \in Nat
  BY <1>1 DEF Entry, Answer
<1>6. q \in Piece /\ (EndsAnswer(q) <=> p.sent + n = p.res.len)
  BY <1>5 DEF Piece, EndsAnswer
<1>7. TypeOK /\ IInv /\ TokensInOrder /\ OnePlaceEach /\ ShadowsIdle
  BY DEF PlaceInv, IInv
<1>8. Oldest(i)
  BY <1>2, <1>7, ServesOldest
<1>9. EntriesFit /\ Stream(c) /\ HasFd(c)
  BY <1>1 DEF AllFits, Stream, HasFd
<1>10. Serves(c, p)
  BY <1>1, <1>8, <1>9 DEF EntriesFit
<1>11. PICK b \in 0 .. Len(Script[c]) :
         Boundary(c, b) /\ NumAt(c, b) = Answered(c) /\ Answering(c, p, b)
  BY <1>1, <1>10 DEF Serves
<1>12. Len(Script[c]) \in Nat /\ Consumed(c) \in Nat /\ Issued(c) \in 0 .. Len(Script[c])
  BY <1>7, CutsType
<1>13. PICK m \in 0 .. Len(Script[c]) : m = Issued(c)
  BY <1>12
<1>14. /\ b < m /\ Consumed(c) = m /\ Boundary(c, m)
       /\ NumAt(c, m) = Answered(c) + 1 /\ NumAt(c, m) = NumAt(c, b) + 1
       /\ p.res.toks = Effective(SubSeq(Script[c], b + 1, m))
       /\ p.sent < p.res.len
       /\ IF AllWhole(c) THEN p.sent = 0
          ELSE got[c][Len(got[c])].upto = p.sent /\ got[c][Len(got[c])].res = p.res
  BY <1>11, <1>13 DEF Answering
<1>15. Issued(c)' = m /\ Consumed(c)' = m
  BY <1>2, <1>13, <1>14, CutsStay
<1>16. PICK k \in Nat : k = Len(got[c])
  BY <1>7, AnsweredType, LenProperties
<1> HIDE DEF q
<1>17. /\ DOMAIN got'[c] = 1 .. k + 1 /\ Len(got'[c]) = k + 1
       /\ got'[c][k + 1] = q /\ \A j \in 1 .. k : got'[c][j] = got[c][j]
       /\ \A j \in 1 .. k : EndsUpTo(c, j)' = EndsUpTo(c, j)
       /\ EndsUpTo(c, k + 1)' = Answered(c)'
       /\ Answered(c)' = Answered(c) + IF EndsAnswer(q) THEN 1 ELSE 0
       /\ \A d \in Clients : d # c => got'[d] = got[d]
  <2>1. TypeOK /\ q \in Piece /\ got' = [got EXCEPT ![c] = Append(got[c], q)]
    BY <1>4, <1>6, <1>7
  <2>2. Longer(c, k, q)
    BY <1>16, <2>1, WriteCounts
  <2> QED
    BY <2>2 DEF Longer
<1>18. Answered(c) \in Nat /\ DOMAIN got[c] = 1 .. k /\ (got[c] = <<>> <=> k = 0)
  BY <1>7, <1>16, AnsweredType
<1>19. Paced(c)'
  <2>1. NumAt(c, m) <= Answered(c)' + 1
    BY <1>14, <1>17, <1>18
  <2> QED
    BY <1>15, <2>1 DEF Paced, NumAt
<1>20. PiecesFit(c)'
  <2>1. ASSUME NEW j \in 1 .. k
        PROVE  PieceFits(c, j)'
    <3>1. PieceFits(c, j)
      BY <1>9, <1>18 DEF Stream, PiecesFit
    <3>2. j # 1 => j - 1 \in 1 .. k
      OBVIOUS
    <3>3. got'[c][j] = got[c][j] /\ (j # 1 => got'[c][j - 1] = got[c][j - 1])
      BY <1>17, <3>2
    <3> QED
      BY <1>17, <3>1, <3>3 DEF PieceFits
  <2>2. PieceFits(c, k + 1)'
    <3>1. (k + 1) - 1 = k /\ (k + 1 = 1 <=> k = 0) /\ (k # 0 => k \in 1 .. k)
      OBVIOUS
    <3>2. k # 0 => got'[c][k] = got[c][k]
      BY <1>17, <3>1
    <3>3. AllWhole(c) <=> k = 0 \/ EndsAnswer(got'[c][k])
      BY <1>16, <1>18, <3>2 DEF AllWhole
    <3>4. IF k = 0 \/ EndsAnswer(got'[c][k]) THEN q.from = 0
          ELSE q.from = got'[c][k].upto /\ q.res = got'[c][k].res
      <4>1. q.from = p.sent /\ q.res = p.res
        BY DEF q
      <4> QED
        BY <1>14, <1>16, <3>2, <3>3, <4>1
    <3>5. EndsAnswer(q) => q.res.toks = Sent(c, EndsUpTo(c, k + 1)')
      <4>1. Sent(c, NumAt(c, m)) = Effective(SubSeq(Script[c], b + 1, m))
        <5>1. Issued(c) > 0
          BY <1>12, <1>13, <1>14
        <5>2. Framed(c)
          BY <5>1 DEF NoneStray, Strays
        <5> QED
          BY <1>11, <1>14, <5>2, SentIsSlice
      <4>2. q.res = p.res
        BY DEF q
      <4> QED
        BY <1>14, <1>17, <4>1, <4>2
    <3> QED
      BY <1>17, <3>1, <3>4, <3>5 DEF PieceFits
  <2> QED
    BY <1>17, <1>18, <2>1, <2>2 DEF PiecesFit
<1>21. Serves(c, e)'
  <2>1. CASE p.sent + n = p.res.len
    <3>1. Answered(c)' = NumAt(c, m) /\ EndsAnswer(q)
      BY <1>6, <1>14, <1>17, <2>1
    <3>2. AllWhole(c)'
      BY <1>17, <3>1 DEF AllWhole
    <3>3. e.req = SubSeq(Script[c], m + 1, m) /\ ~e.ready
      <4>1. m \in Int /\ m + 1 \in Int /\ m < m + 1
        BY <1>12
      <4>2. SubSeq(Script[c], m + 1, m) = <<>>
        BY <4>1, SubSeqEmpty
      <4> QED
        BY <1>4, <2>1, <4>2
    <3>4. Waiting(c, e, m)'
      BY <1>15, <3>2, <3>3 DEF Waiting
    <3> QED
      BY <1>14, <3>1, <3>3, <3>4 DEF Serves, Boundary, NumAt
  <2>2. CASE p.sent + n # p.res.len
    <3>1. Answered(c)' = Answered(c) /\ ~EndsAnswer(q)
      BY <1>6, <1>17, <1>18, <2>2
    <3>2. ~AllWhole(c)' /\ got'[c][Len(got'[c])] = q
      <4>1. got'[c] # <<>>
        BY <1>17
      <4> QED
        BY <1>17, <3>1, <4>1 DEF AllWhole
    <3>3. q.upto = e.sent /\ q.res = e.res /\ e.ready /\ e.res = p.res
      BY <1>4, <2>2 DEF q
    <3>4. e.sent < e.res.len
      BY <1>4, <1>5, <2>2
    <3>5. Answering(c, e, b)'
      BY <1>14, <1>15, <3>1, <3>2, <3>3, <3>4 DEF Answering, Boundary, NumAt
    <3> QED
      BY <1>11, <3>1, <3>3, <3>5 DEF Serves, Boundary, NumAt
  <2> QED
    BY <2>1, <2>2
<1>22. EntriesFit'
  BY <1>1, <1>2, <1>4, <1>7, <1>8, <1>9, <1>17, <1>21, EventFits
<1>23. ASSUME NEW d \in Clients
       PROVE  Stream(d)'
  <2>1. CASE d = c
    BY <1>2, <1>7, <1>9, <1>19, <1>20, <2>1, ServedIsIn DEF Stream
  <2>2. CASE d # c
    BY <1>2, <1>17, <2>2, StreamStays DEF AllFits, Stream, Waits
  <2> QED
    BY <2>1, <2>2
<1> QED
  BY <1>22, <1>23 DEF AllFits, Stream

\* Entry p, which has what c sent after its first b tokens, hears more of it, to the
\* m-th token: more of one request, which it finds complete at its end.
Hears(c, p, b, m) ==
    LET x == Extended(p, c)
    IN  /\ Boundary(c, b) /\ NumAt(c, b) = Answered(c) /\ AllWhole(c)
        /\ b < m /\ m = Consumed(c) + Taken(c) /\ m <= Issued(c)
        /\ x.req = SubSeq(Script[c], b + 1, m)
        /\ NumAt(c, m) = Answered(c) + 1
        /\ Complete(x.req, x.hidx) <=> Boundary(c, m)
        /\ Boundary(c, m) => m = Issued(c)

\* An entry that is read for has no answer pending, and hears its client's next request.
LEMMA ReaderHears ==
    ASSUME PlaceInv, NoneStray, AllFits, NEW i \in DOMAIN procs, Reader(i),
           NEW p \in Entry, p = procs[i], NEW c \in Clients, c = file[p.fd],
           inbox[c] # <<>>
    PROVE  /\ Oldest(i) /\ ~p.ready /\ p.sent = 0 /\ Taken(c) \in 1 .. Len(inbox[c])
           /\ \E b, m \in 0 .. Len(Script[c]) : Hears(c, p, b, m)
<1>1. TypeOK /\ IInv /\ TokensInOrder /\ OnePlaceEach /\ ShadowsIdle /\ HearsWatched
  BY DEF PlaceInv, IInv
<1>2. Oldest(i)
  BY <1>1, ServesOldest
<1>3. EntriesFit /\ Paced(c)
  BY DEF AllFits
<1>4. Serves(c, p)
  BY <1>2, <1>3 DEF EntriesFit
<1>5. p.fd \in fdset
  BY <1>1 DEF Reader, First, Hearing, HearsWatched
<1>6. /\ Script[c] \in Seq(Token) /\ Len(Script[c]) \in Nat
      /\ Consumed(c) \in Nat /\ Issued(c) \in Nat
      /\ Consumed(c) <= Issued(c) /\ Issued(c) <= Len(Script[c])
      /\ inbox[c] = SubSeq(Script[c], Consumed(c) + 1, Issued(c))
      /\ Len(inbox[c]) = Issued(c) - Consumed(c)
      /\ Consumed(c) # Issued(c)
  BY <1>1, CutsType
<1>6a. Framed(c)
  BY <1>6 DEF NoneStray, Strays
<1>7. PICK b \in 0 .. Len(Script[c]) :
         /\ Boundary(c, b) /\ NumAt(c, b) = Answered(c)
         /\ IF p.ready THEN Answering(c, p, b) ELSE Waiting(c, p, b)
  BY <1>4 DEF Serves
<1>8. ~p.ready
  BY <1>6, <1>7 DEF Answering
<1>9. /\ AllWhole(c) /\ b <= Consumed(c) /\ p.req = SubSeq(Script[c], b + 1, Consumed(c))
  BY <1>5, <1>7, <1>8 DEF Waiting
<1>10. p.sent = 0
  BY <1>8 DEF PlaceInv, NothingHalfSent
<1>11. PICK a \in 0 .. Len(Script[c]), d \in 0 .. Len(Script[c]) :
          a = Consumed(c) /\ d = Issued(c)
  BY <1>6
<1>12. Taken(c) \in 1 .. Len(inbox[c])
  <2>1. BufSize \in Nat \ {0} /\ Len(inbox[c]) \in Nat \ {0}
    BY <1>6, SocketsAssumption DEF SocketsAssumption
  <2> QED
    BY <2>1 DEF Taken
<1>13. PICK t \in 1 .. d - a : t = Taken(c)
  BY <1>6, <1>11, <1>12
<1>14. PICK m \in 0 .. Len(Script[c]) : m = a + t
  BY <1>6, <1>11
<1>15. /\ a \in Nat /\ b \in Nat /\ m \in Nat /\ d \in Nat /\ t \in Nat
       /\ b <= a /\ a < m /\ m <= d /\ b < m /\ m - a = t
       /\ a <= m /\ d <= Len(Script[c]) /\ m <= Len(Script[c])
  <2>1. a \in Nat /\ b \in Nat /\ m \in Nat /\ d \in Nat
    BY <1>6
  <2>2. b <= a
    BY <1>9, <1>11
  <2>3. t \in Nat /\ 1 <= t /\ t <= d - a
    BY <2>1
  <2> QED
    BY <1>6, <1>14, <2>1, <2>2, <2>3
<1> DEFINE s == Script[c]
           x == Extended(p, c)
<1>15a. s \in Seq(Token) /\ Len(s) \in Nat
  BY <1>6
<1>16. /\ x.req = p.req \o SubSeq(inbox[c], 1, Taken(c))
       /\ x.hidx = IF p.hidx = 0 THEN HeaderEnd(x.req) ELSE p.hidx
  BY DEF Extended, Entry
<1> HIDE DEF x, s
<1>17. SubSeq(inbox[c], 1, Taken(c)) = SubSeq(Script[c], a + 1, m)
  <2>1. SubSeq(SubSeq(Script[c], a + 1, d), 1, m - a) = SubSeq(Script[c], a + 1, m)
    BY <1>6, <1>15, SliceCut
  <2> QED
    BY <1>6, <1>11, <1>13, <1>15, <2>1
<1>18. x.req = SubSeq(Script[c], b + 1, m)
  <2>1. SubSeq(s, b + 1, a) \o SubSeq(s, a + 1, m) = SubSeq(s, b + 1, m)
    BY <1>15a, <1>15, SliceCut DEF s
  <2> QED
    BY <1>9, <1>11, <1>16, <1>17, <2>1 DEF s
<1>19. x.hidx = HeaderEnd(x.req)
  <2>1. CASE p.hidx = 0
    BY <1>16, <2>1
  <2>2. CASE p.hidx # 0
    <3>1. p.hidx = HeaderEnd(p.req) /\ p.req \in Seq(Token)
      BY <2>2 DEF PlaceInv, HeaderIndexFresh, Entry
    <3>2. SubSeq(inbox[c], 1, Taken(c)) \in Seq(Token)
      <4>1. SubSeq(Script[c], a + 1, m) \in Seq(Token)
        BY <1>6, <1>15, SliceType
      <4> QED
        BY <1>17, <4>1
    <3>3. HeaderEnd(p.req \o SubSeq(inbox[c], 1, Taken(c))) = HeaderEnd(p.req)
      BY <2>2, <3>1, <3>2, HeaderEndStays
    <3> QED
      BY <1>16, <2>2, <3>1, <3>3
  <2> QED
    BY <2>1, <2>2
<1>20. NumAt(c, m) <= NumAt(c, d) /\ NumAt(c, d) <= NumAt(c, b) + 1
  <2>1. NumAt(c, m) <= NumAt(c, d)
    BY <1>6a, <1>15, NumbersGrow
  <2> QED
    BY <1>3, <1>7, <1>11, <2>1 DEF Paced
<1>21. /\ \A j \in 0 .. Len(Script[c]) : NumAt(c, j) \in Nat
       /\ \A j, k \in 0 .. Len(Script[c]) : j <= k => NumAt(c, j) <= NumAt(c, k)
  BY <1>6a, NumbersGrow
<1>22. NumAt(c, m) <= NumAt(c, b) + 1
  <2>1. NumAt(c, m) \in Nat /\ NumAt(c, d) \in Nat /\ NumAt(c, b) \in Nat
    BY <1>3, <1>7, <1>11, <1>15, <1>21
  <2> QED
    BY <1>20, <2>1
<1>23. /\ NumAt(c, m) = NumAt(c, b) + 1
       /\ Complete(x.req, HeaderEnd(x.req)) <=> Boundary(c, m)
  BY <1>6a, <1>7, <1>15, <1>18, <1>22, CompleteAtBoundary
<1>24. Boundary(c, m) => m = d
  <2> SUFFICES ASSUME Boundary(c, m), m # d PROVE FALSE
    OBVIOUS
  <2>1. m \in 0 .. Len(Script[c]) - 1 /\ m + 1 \in 0 .. Len(Script[c]) /\ m + 1 <= d
    BY <1>15a, <1>15 DEF s
  <2>2. NumAt(c, m + 1) = NumAt(c, m) + 1
    BY <1>6a, <2>1, NextStarts
  <2>3. NumAt(c, m + 1) <= NumAt(c, d)
    BY <1>21, <2>1
  <2> QED
    BY <1>20, <1>21, <1>23, <2>2, <2>3
<1>25. Hears(c, p, b, m)
  BY <1>7, <1>9, <1>11, <1>13, <1>14, <1>15, <1>18, <1>19, <1>23, <1>24 DEF Hears, x
<1> QED
  BY <1>2, <1>8, <1>10, <1>12, <1>25

\* readRequest waits at no boundary, answers at one, and there answers just what was
\* sent; an entry it gives up on is heard no more.
LEMMA ReadFits ==
    ASSUME PlaceInv, NoneStray, AllFits, NEW i,
           ReadWait(i) \/ ReadAnswer(i) \/ ReadMute(i)
    PROVE  AllFits'
<1>1. PICK p \in Entry, f \in Fds, c \in Clients :
         /\ p = procs[i] /\ f = p.fd /\ c = file[f] /\ i \in DOMAIN procs
         /\ Reader(i) /\ inbox[c] # <<>>
  BY ReadEffect DEF PlaceInv
<1>2. PICK x \in Entry : x = Extended(p, c) /\ x.fd = f /\ x.ready = p.ready
                         /\ x.sent = p.sent
  BY <1>1, ReadEffect DEF PlaceInv
<1>3. /\ UNCHANGED <<backlog, file, peer, unsent, got>>
      /\ inbox' = [inbox EXCEPT ![c] = SubSeq(inbox[c], Taken(c) + 1, Len(inbox[c]))]
  BY <1>1, ReadEffect DEF PlaceInv
<1>4. \/ /\ ~Complete(x.req, x.hidx) /\ fdset' = fdset
         /\ procs' = [procs EXCEPT ![i] = x]
      \/ /\ Complete(x.req, x.hidx)
         /\ \E n \in Nat :
              LET e == Processed(x, n)
              IN  /\ procs' = [procs EXCEPT ![i] = e]
                  /\ e \in Entry /\ e.fd = f /\ e.sent = p.sent
                  /\ \/ /\ ~Unanswered(x) /\ e.ready /\ n \in Sizes /\ fdset' = fdset
                     \/ /\ Unanswered(x) /\ ~e.ready /\ fdset' = fdset \ {f}
  BY <1>1, <1>2, ReadEffect DEF PlaceInv
<1>5. TypeOK /\ IInv /\ TokensInOrder /\ OnePlaceEach /\ ShadowsIdle
  BY DEF PlaceInv, IInv
<1>6. EntriesFit /\ Stream(c) /\ HasFd(c)
  BY <1>1 DEF AllFits, Stream, HasFd
<1>7. /\ Oldest(i) /\ ~p.ready /\ p.sent = 0 /\ Taken(c) \in 1 .. Len(inbox[c])
      /\ \E b, m \in 0 .. Len(Script[c]) : Hears(c, p, b, m)
  BY <1>1, ReaderHears
<1>8. PICK b \in 0 .. Len(Script[c]), m \in 0 .. Len(Script[c]) : Hears(c, p, b, m)
  BY <1>7
<1>9. /\ Boundary(c, b) /\ NumAt(c, b) = Answered(c) /\ AllWhole(c)
      /\ b < m /\ m = Consumed(c) + Taken(c)
      /\ x.req = SubSeq(Script[c], b + 1, m)
      /\ NumAt(c, m) = Answered(c) + 1
      /\ Complete(x.req, x.hidx) <=> Boundary(c, m)
      /\ Boundary(c, m) => m = Issued(c)
  BY <1>2, <1>8 DEF Hears
<1>10. PICK t \in 1 .. Len(inbox[c]) : t = Taken(c)
  BY <1>7
<1>11. /\ Issued(c)' = Issued(c) /\ Consumed(c)' = m
       /\ \A d \in Clients : d # c => unsent'[d] = unsent[d] /\ inbox'[d] = inbox[d]
  BY <1>3, <1>5, <1>9, <1>10, ReadMovesCut
<1>12. Answered(c)' = Answered(c) /\ AllWhole(c)' = AllWhole(c)
       /\ (PiecesFit(c) => PiecesFit(c)')
  BY <1>3, CountsStay
<1>13. PICK e \in Entry :
          /\ procs' = [procs EXCEPT ![i] = e] /\ e.fd = f /\ fdset' \subseteq fdset
          /\ Serves(c, e)'
  <2>1. CASE /\ ~Complete(x.req, x.hidx) /\ fdset' = fdset
             /\ procs' = [procs EXCEPT ![i] = x]
    <3>1. Waiting(c, x, b)'
      <4>1. b <= m /\ ~Boundary(c, m)
        BY <1>9, <2>1
      <4> QED
        BY <1>9, <1>11, <1>12, <4>1 DEF Waiting, Boundary, NumAt
    <3>2. Serves(c, x)'
      BY <1>2, <1>7, <1>9, <1>12, <3>1 DEF Serves, Boundary, NumAt
    <3> QED
      BY <1>2, <2>1, <3>2
  <2>2. CASE Complete(x.req, x.hidx)
    <3>1. PICK n \in Nat, e \in Entry :
             /\ e = Processed(x, n)
             /\ procs' = [procs EXCEPT ![i] = e] /\ e.fd = f /\ e.sent = p.sent
             /\ \/ /\ ~Unanswered(x) /\ e.ready /\ n \in Sizes /\ fdset' = fdset
                \/ /\ Unanswered(x) /\ ~e.ready /\ fdset' = fdset \ {f}
      BY <1>4, <2>2
    <3>2. Boundary(c, m) /\ m = Issued(c)
      BY <1>9, <2>2
    <3>3. CASE ~Unanswered(x) /\ e.ready /\ n \in Sizes /\ fdset' = fdset
      <4>1. e.res.toks = Effective(x.req) /\ e.res.len = n
        <5>1. VerdictOn(x) # "mute"
          BY <1>2, <1>7, <3>3 DEF Unanswered
        <5>2. e.res = [toks |-> Effective(x.req), to |-> file[x.fd], lis |-> x.lis,
                       ok |-> VerdictOn(x) = "line", len |-> n]
          BY <3>1, <5>1 DEF Processed, Entry
        <5> QED
          BY <5>2
      <4>2. e.sent < e.res.len /\ e.sent = 0
        BY <1>7, <3>1, <3>3, <4>1, SizesAssumption DEF SizesAssumption
      <4>3. Answering(c, e, b)'
        BY <1>9, <1>11, <1>12, <3>2, <4>1, <4>2 DEF Answering, Boundary, NumAt
      <4>4. Serves(c, e)'
        BY <1>9, <1>12, <3>3, <4>3 DEF Serves, Boundary, NumAt
      <4> QED
        BY <3>1, <3>3, <4>4
    <3>4. CASE Unanswered(x) /\ ~e.ready /\ fdset' = fdset \ {f}
      <4>1. Waiting(c, e, b)'
        BY <1>9, <1>12, <3>1, <3>4 DEF Waiting
      <4>2. Serves(c, e)'
        BY <1>9, <1>12, <3>4, <4>1 DEF Serves, Boundary, NumAt
      <4> QED
        BY <3>1, <3>4, <4>2
    <3> QED
      BY <3>1, <3>3, <3>4
  <2> QED
    BY <1>4, <2>1, <2>2
<1>14. EntriesFit'
  BY <1>1, <1>3, <1>5, <1>6, <1>7, <1>11, <1>13, EventFits
<1>15. ASSUME NEW d \in Clients
       PROVE  Stream(d)'
  <2>1. CASE d = c
    <3>1. Paced(c)'
      BY <1>6, <1>11, <1>12 DEF Stream, Paced, NumAt
    <3> QED
      BY <1>3, <1>5, <1>6, <1>12, <2>1, <3>1, ServedIsIn DEF Stream
  <2>2. CASE d # c
    BY <1>3, <1>11, <2>2, StreamStays DEF AllFits, Stream, Waits
  <2> QED
    BY <2>1, <2>2
<1> QED
  BY <1>14, <1>15 DEF AllFits, Stream

\* What a client has begun to ask.
LEMMA BegunIsIssued ==
    ASSUME TypeOK, TokensInOrder, NEW c \in Clients
    PROVE  Begun(c) = NumAt(c, Issued(c))
<1>1. /\ Script[c] \in Seq(Token) /\ Len(Script[c]) \in Nat
      /\ Issued(c) \in Nat /\ Issued(c) <= Len(Script[c])
      /\ unsent[c] = SubSeq(Script[c], Issued(c) + 1, Len(Script[c]))
  BY CutsType
<1>2. Issued(c) = Len(Script[c]) - Len(unsent[c])
  BY DEF Issued
<1>3. CASE Issued(c) = 0
  <2>1. unsent[c] = Script[c]
    BY <1>1, <1>3, SubSeqFull
  <2> QED
    BY <1>3, <2>1 DEF Begun, NumAt
<1>4. CASE Issued(c) # 0
  <2>1. unsent[c] # Script[c]
    <3> SUFFICES ASSUME unsent[c] = Script[c] PROVE FALSE
      OBVIOUS
    <3>1. Issued(c) = Len(Script[c]) - Len(Script[c]) /\ Len(Script[c]) \in Nat
      BY <1>1, <1>2
    <3> QED
      BY <1>4, <3>1
  <2> QED
    BY <1>2, <1>4, <2>1 DEF Begun, NumAt
<1> QED
  BY <1>3, <1>4

\* The entry of a client's descriptor that still has to answer or to hear has one whose
\* request is begun and not answered.
LEMMA BusyMeansBegun ==
    ASSUME PlaceInv, NoneStray, AllFits, NEW i \in DOMAIN procs, Oldest(i),
           NEW p \in Entry, p = procs[i], NEW c \in Clients, c = file[p.fd],
           \/ p.ready
           \/ p.req # <<>> /\ inbox[c] = <<>> /\ p.fd \in fdset
    PROVE  Answered(c) < Begun(c)
<1>1. TypeOK /\ TokensInOrder
  BY DEF PlaceInv, IInv
<1>2. Begun(c) = NumAt(c, Issued(c)) /\ Answered(c) \in Nat
  BY <1>1, BegunIsIssued, AnsweredType
<1>3. Serves(c, p)
  BY DEF AllFits, EntriesFit
<1>4. PICK b \in 0 .. Len(Script[c]) :
         /\ Boundary(c, b) /\ NumAt(c, b) = Answered(c)
         /\ IF p.ready THEN Answering(c, p, b) ELSE Waiting(c, p, b)
  BY <1>3 DEF Serves
<1>5. CASE p.ready
  <2>1. NumAt(c, Issued(c)) = Answered(c) + 1
    BY <1>4, <1>5 DEF Answering
  <2> QED
    BY <1>2, <2>1
<1>6. CASE ~p.ready
  <2>1. p.req # <<>> /\ inbox[c] = <<>> /\ p.fd \in fdset
    BY <1>6
  <2>2. b <= Consumed(c) /\ p.req = SubSeq(Script[c], b + 1, Consumed(c))
    BY <1>4, <1>6, <2>1 DEF Waiting
  <2>3. /\ Len(Script[c]) \in Nat /\ Consumed(c) = Issued(c)
        /\ Issued(c) \in Nat /\ Issued(c) <= Len(Script[c])
    BY <1>1, <2>1, CutsType
  <2>4. b # Issued(c)
    <3> SUFFICES ASSUME b = Issued(c) PROVE FALSE
      OBVIOUS
    <3>1. b \in Int /\ b + 1 \in Int /\ b < b + 1
      BY <2>3
    <3>2. SubSeq(Script[c], b + 1, b) = <<>>
      BY <3>1, SubSeqEmpty
    <3> QED
      BY <2>1, <2>2, <2>3, <3>2
  <2>5. b \in 0 .. Len(Script[c]) - 1 /\ b + 1 \in 0 .. Len(Script[c]) /\ b + 1 <= Issued(c)
    BY <2>2, <2>3, <2>4
  <2>5a. Framed(c)
    BY <2>3, <2>5 DEF NoneStray, Strays
  <2>6. NumAt(c, b + 1) = NumAt(c, b) + 1
    BY <1>4, <2>5, <2>5a, NextStarts
  <2>7. NumAt(c, b + 1) <= NumAt(c, Issued(c)) /\ NumAt(c, Issued(c)) \in Nat
    BY <2>3, <2>5, <2>5a, NumbersGrow
  <2> QED
    BY <1>2, <1>4, <2>6, <2>7
<1> QED
  BY <1>5, <1>6

\* A connection that ends with nothing asked leaves an idle entry; one that ends sooner
\* is abandoned.
LEMMA CloseFits ==
    ASSUME PlaceInv, NoneStray, AllFits, NEW i, ReadClose(i)
    PROVE  AllFits' \/ \E c \in Clients : Abandoned(c)'
<1>1. PICK p \in Entry, f \in Fds, c \in Clients :
         /\ p = procs[i] /\ f = p.fd /\ c = file[f] /\ i \in DOMAIN procs
         /\ Reader(i) /\ inbox[c] = <<>> /\ peer[c] = "fin"
         /\ file' = [file EXCEPT ![f] = Free] /\ fdset' = fdset \ {f}
         /\ UNCHANGED <<backlog, peer, unsent, inbox, got, procs>>
  BY CloseEffect DEF PlaceInv
<1>2. TypeOK /\ IInv /\ TokensInOrder /\ OnePlaceEach /\ ShadowsIdle /\ HearsWatched
  BY DEF PlaceInv, IInv
<1>3. Oldest(i) /\ f \in fdset /\ procs \in Seq(Entry)
  BY <1>1, <1>2, ServesOldest DEF Reader, First, Hearing, HearsWatched, TypeOK
<1>4. /\ file'[f] = Free /\ \A g \in Fds : g # f => file'[g] = file[g]
      /\ Free \notin Clients
  BY <1>1, <1>2, SocketsAssumption DEF TypeOK, SocketsTypeOK, SocketsAssumption
<1>5. CASE p.ready \/ p.req # <<>>
  <2>1. Answered(c) < Begun(c)
    BY <1>1, <1>3, <1>5, BusyMeansBegun
  <2>2. LeftEarly(c)'
    BY <1>1, <2>1 DEF LeftEarly, Answered, Begun
  <2>3. HasFd(c)
    BY <1>1 DEF HasFd
  <2>4. ~Waits(c)'
    BY <1>1, <1>2, <2>3 DEF OnePlaceEach, Waits
  <2>5. ~HasFd(c)'
    <3>1. \A g \in Fds : file[g] = c => g = f
      BY <1>1, <1>2, <1>4 DEF OnePlaceEach, Open
    <3> QED
      BY <1>4, <3>1 DEF HasFd
  <2> QED
    BY <2>2, <2>4, <2>5 DEF Abandoned
<1>6. CASE ~p.ready /\ p.req = <<>>
  <2>1. ASSUME NEW j \in DOMAIN procs, NEW e, e = procs[j]
        PROVE  /\ ~Open(e.fd)' => ~e.ready /\ e.req = <<>>
               /\ \A d \in Clients : Oldest(j)' /\ file'[e.fd] = d => Serves(d, e)'
    <3>1. e.fd \in Fds
      BY <1>2, <2>1, EntryType
    <3>2. CASE e.fd = f
      <4>1. ~e.ready /\ e.req = <<>>
        <5>1. CASE j = i
          BY <1>1, <1>6, <2>1, <5>1
        <5>2. CASE j # i
          <6>1. i \in 1 .. j - 1
            <7>1. i \in 1 .. j - 1 \/ j \in 1 .. i - 1
              BY <1>1, <1>3, <5>2
            <7> QED
              BY <1>1, <1>3, <2>1, <3>2, <7>1 DEF Oldest
          <6> QED
            BY <1>1, <1>2, <2>1, <3>2, <6>1 DEF ShadowsIdle
        <5> QED
          BY <5>1, <5>2
      <4> QED
        BY <1>4, <3>2, <4>1
    <3>3. CASE e.fd # f
      <4>1. file'[e.fd] = file[e.fd]
        BY <1>4, <3>1, <3>3
      <4>2. ~Open(e.fd)' => ~e.ready /\ e.req = <<>>
        BY <2>1, <4>1 DEF AllFits, EntriesFit, Open
      <4>3. ASSUME NEW d \in Clients, Oldest(j)', file'[e.fd] = d
            PROVE  Serves(d, e)'
        <5>1. Serves(d, e)
          BY <1>1, <2>1, <4>1, <4>3 DEF AllFits, EntriesFit, Oldest
        <5> QED
          BY <1>1, <5>1, ServesStays
      <4> QED
        BY <4>2, <4>3
    <3> QED
      BY <3>2, <3>3
  <2>2. EntriesFit'
    BY <1>1, <2>1 DEF EntriesFit
  <2>3. \A d \in Clients : Stream(d)'
    BY <1>1, StreamStays DEF AllFits, Stream, Waits
  <2> QED
    BY <2>2, <2>3 DEF AllFits, Stream
<1> QED
  BY <1>5, <1>6

\* A connection that is accepted finds an entry that is idle, its own or an older one,
\* and nothing of it was read yet.
LEMMA AcceptFits ==
    ASSUME PlaceInv, AllFits, NEW l \in Listens, Accept(l)
    PROVE  AllFits'
<1>1. /\ procs' \in Seq(Entry) /\ Len(procs') = Len(procs) + 1
      /\ UNCHANGED <<peer, unsent, inbox, got>>
      /\ \E f \in Fds :
           /\ file[f] = Free
           /\ file' = [file EXCEPT ![f] = Head(backlog[l])] /\ fdset' = fdset \cup {f}
           /\ LET e == procs'[Len(procs) + 1]
              IN  e.fd = f /\ e.req = <<>> /\ ~e.ready /\ e.sent = 0
      /\ \A j \in 1 .. Len(procs) :
           /\ procs'[j].fd = procs[j].fd /\ procs'[j].req = procs[j].req
           /\ procs'[j].ready = procs[j].ready /\ procs'[j].res = procs[j].res
           /\ procs'[j].sent = procs[j].sent
  BY AcceptEffect DEF PlaceInv
<1>2. /\ TypeOK /\ IInv /\ TokensInOrder /\ OnePlaceEach /\ OnePlaceEach'
      /\ ShadowsIdle'
  BY AcceptMoves, ShadowStep DEF PlaceInv, IInv, Next, Server
<1>3. PICK c \in Clients : c = Head(backlog[l]) /\ Waits(c)
  BY <1>2, AcceptMoves
<1>4. \A d \in Clients : Waits(d)' => Waits(d)
  BY <1>2, AcceptMoves
<1>5. PICK f \in Fds :
         /\ file[f] = Free
         /\ file' = [file EXCEPT ![f] = c] /\ fdset' = fdset \cup {f}
         /\ LET e == procs'[Len(procs) + 1]
            IN  e.fd = f /\ e.req = <<>> /\ ~e.ready /\ e.sent = 0
  BY <1>1, <1>3
<1>6. /\ file'[f] = c /\ \A g \in Fds : g # f => file'[g] = file[g]
      /\ Free \notin Clients /\ procs \in Seq(Entry) /\ Len(procs) \in Nat
  BY <1>2, <1>5, SocketsAssumption DEF TypeOK, SocketsTypeOK, SocketsAssumption
<1>7. got[c] = <<>> /\ Consumed(c) = 0
  BY <1>3 DEF AllFits, NotYetRead
<1>8. ASSUME NEW e, ~e.ready, e.req = <<>>
      PROVE  Serves(c, e)'
  <2>1. Answered(c)' = 0
    BY <1>1, <1>2, <1>7, AnsweredType, CountsStay
  <2>2. Consumed(c)' = 0
    BY <1>1, <1>7, CutsStay
  <2>3. AllWhole(c)'
    BY <1>1, <1>7 DEF AllWhole
  <2>4. e.req = SubSeq(Script[c], 0 + 1, 0)
    BY <1>8, SubSeqEmpty
  <2>5. Waiting(c, e, 0)'
    BY <2>2, <2>3, <2>4 DEF Waiting
  <2>6. 0 \in 0 .. Len(Script[c])
    BY <1>2, CutsType
  <2> QED
    BY <1>8, <2>1, <2>5, <2>6 DEF Serves, Boundary, NumAt
<1>9. ASSUME NEW j \in DOMAIN procs', NEW e, e = procs'[j]
      PROVE  /\ ~Open(e.fd)' => ~e.ready /\ e.req = <<>>
             /\ \A d \in Clients : Oldest(j)' /\ file'[e.fd] = d => Serves(d, e)'
  <2>1. CASE j = Len(procs) + 1
    <3>1. ~e.ready /\ e.req = <<>> /\ e.fd = f
      BY <1>5, <1>9, <2>1
    <3> QED
      BY <1>6, <1>8, <3>1
  <2>2. CASE j # Len(procs) + 1
    <3>1. j \in 1 .. Len(procs) /\ j \in DOMAIN procs
      BY <1>1, <1>6, <2>2
    <3>2. PICK p \in Entry : p = procs[j]
      BY <1>6, <3>1
    <3>3. /\ e.fd = p.fd /\ e.req = p.req /\ e.ready = p.ready /\ e.res = p.res
          /\ e.sent = p.sent /\ p.fd \in Fds
      BY <1>1, <1>9, <3>1, <3>2 DEF Entry
    <3>4. CASE p.fd = f
      <4>1. ~e.ready /\ e.req = <<>>
        BY <1>5, <3>1, <3>2, <3>3, <3>4 DEF AllFits, EntriesFit, Open
      <4> QED
        BY <1>6, <1>8, <3>3, <3>4, <4>1
    <3>5. CASE p.fd # f
      <4>1. file'[e.fd] = file[p.fd] /\ (p.fd \in fdset' => p.fd \in fdset)
        BY <1>5, <1>6, <3>3, <3>5
      <4>2. ~Open(e.fd)' => ~e.ready /\ e.req = <<>>
        BY <3>1, <3>2, <3>3, <4>1 DEF AllFits, EntriesFit, Open
      <4>3. ASSUME NEW d \in Clients, Oldest(j)', file'[e.fd] = d
            PROVE  Serves(d, e)'
        <5>1. Oldest(j)
          <6>1. \A k \in 1 .. j - 1 : k \in 1 .. Len(procs)
            BY <1>6, <3>1
          <6> QED
            BY <1>1, <3>1, <4>3, <6>1 DEF Oldest
        <5>2. Serves(d, p)
          BY <3>1, <3>2, <4>1, <4>3, <5>1 DEF AllFits, EntriesFit
        <5> QED
          BY <1>1, <3>3, <4>1, <5>2, ServesStays
      <4> QED
        BY <4>2, <4>3
    <3> QED
      BY <3>4, <3>5
  <2> QED
    BY <2>1, <2>2
<1>10. EntriesFit'
  BY <1>9 DEF EntriesFit
<1>11. \A d \in Clients : Stream(d)'
  BY <1>1, <1>4, StreamStays DEF AllFits, Stream
<1> QED
  BY <1>10, <1>11 DEF AllFits, Stream

\* Steps that move no token, no answer and no descriptor.
LEMMA QuietFits ==
    ASSUME AllFits, UNCHANGED <<procs, file, got, unsent, inbox>>, fdset' \subseteq fdset,
           \A d \in Clients : peer'[d] = "away" \/ Waits(d)' => peer[d] = "away" \/ Waits(d)
    PROVE  AllFits'
<1>1. EntriesFit'
  BY EntriesStay DEF AllFits
<1>2. \A d \in Clients : Stream(d)'
  BY StreamStays DEF AllFits, Stream
<1> QED
  BY <1>1, <1>2 DEF AllFits, Stream

\* The end of the process takes the entries with it and leaves what was written.
LEMMA ExitFits ==
    ASSUME TypeOK, AllFits, Exit
    PROVE  AllFits'
<1>1. procs' = <<>> /\ UNCHANGED <<peer, unsent, inbox, got>>
  BY DEF Exit, clientVars
<1>2. \A d \in Clients : ~Waits(d)'
  <2>1. \A l \in Listens : backlog'[l] = <<>>
    BY DEF Exit
  <2>2. \A l \in Listens : DOMAIN backlog'[l] = {}
    BY <2>1
  <2> QED
    BY <2>2 DEF Waits
<1>3. EntriesFit'
  <2>1. DOMAIN procs' = {}
    BY <1>1
  <2> QED
    BY <2>1 DEF EntriesFit
<1>4. \A d \in Clients : Stream(d)'
  BY <1>1, <1>2, StreamStays DEF AllFits, Stream
<1> QED
  BY <1>3, <1>4 DEF AllFits, Stream

\* A client that waits for its answers, or sends its first request, begins a request only
\* when no answer to it is pending.
LEMMA SendFits ==
    ASSUME PlaceInv, AllFits, NEW c \in Clients, Framed(c), Send(c),
           c \in Pipelining => NumAt(c, Issued(c) + 1) <= 1, UNCHANGED loopVars
    PROVE  AllFits'
<1>1. TypeOK /\ TokensInOrder /\ IInv
  BY DEF PlaceInv, IInv
<1>2. /\ Issued(c) < Len(Script[c]) /\ Head(unsent[c]) = Script[c][Issued(c) + 1]
      /\ Issued(c)' = Issued(c) + 1 /\ Consumed(c)' = Consumed(c)
      /\ \A d \in Clients : d # c => unsent'[d] = unsent[d] /\ inbox'[d] = inbox[d]
  BY <1>1, SendMovesCut
<1>3. UNCHANGED <<backlog, file, peer, got, procs, fdset>>
  BY DEF Send, loopVars
<1>4. /\ Issued(c) \in Nat /\ Len(Script[c]) \in Nat /\ Framed(c)
      /\ Answered(c) \in Nat /\ Received(c) <= Answered(c) /\ Received(c) \in Nat
  BY <1>1, CutsType, AnsweredType
<1>5. PICK m \in 0 .. Len(Script[c]) : m = Issued(c) + 1 /\ m # 0
  BY <1>2, <1>4
<1>6. NumAt(c, m) <= Answered(c) + 1 /\ NumAt(c, m) \in Nat
  <2>1. c \in Pipelining \/ Received(c) >= Head(unsent[c]).no - 1
    BY DEF Send
  <2>2. Head(unsent[c]).no = NumAt(c, m)
    BY <1>2, <1>5 DEF NumAt
  <2>3. NumAt(c, m) \in Nat
    BY <1>4, NumbersGrow
  <2>4. CASE c \in Pipelining
    BY <1>4, <1>5, <2>3, <2>4
  <2>5. CASE c \notin Pipelining
    BY <1>4, <2>1, <2>2, <2>3, <2>5
  <2> QED
    BY <2>4, <2>5
<1>7. \A d \in Clients : /\ Answered(d)' = Answered(d) /\ AllWhole(d)' = AllWhole(d)
                         /\ (PiecesFit(d) => PiecesFit(d)')
  BY <1>3, CountsStay
<1>8. ASSUME NEW p, Serves(c, p)
      PROVE  Serves(c, p)'
  <2>1. PICK b \in 0 .. Len(Script[c]) :
           /\ Boundary(c, b) /\ NumAt(c, b) = Answered(c)
           /\ IF p.ready THEN Answering(c, p, b) ELSE Waiting(c, p, b)
    BY <1>8 DEF Serves
  <2>2. ~p.ready
    <3> SUFFICES ASSUME p.ready PROVE FALSE
      OBVIOUS
    <3>1. Boundary(c, Issued(c)) /\ NumAt(c, Issued(c)) = Answered(c) + 1
      BY <2>1 DEF Answering
    <3>2. Issued(c) \in 0 .. Len(Script[c]) - 1
      BY <1>2, <1>4
    <3>3. NumAt(c, Issued(c) + 1) = NumAt(c, Issued(c)) + 1
      BY <1>4, <3>1, <3>2, NextStarts
    <3> QED
      BY <1>4, <1>5, <1>6, <3>1, <3>3
  <2>3. Waiting(c, p, b)'
    BY <1>2, <1>3, <1>7, <2>1, <2>2 DEF Waiting, Boundary, NumAt
  <2> QED
    BY <1>7, <2>1, <2>2, <2>3 DEF Serves, Boundary, NumAt
<1>9. ASSUME NEW j \in DOMAIN procs, NEW p, p = procs[j]
      PROVE  /\ ~Open(p.fd)' => ~p.ready /\ p.req = <<>>
             /\ \A d \in Clients : Oldest(j)' /\ file'[p.fd] = d => Serves(d, p)'
  <2>1. (~Open(p.fd)' => ~Open(p.fd)) /\ (Oldest(j)' => Oldest(j)) /\ file' = file
    BY <1>3 DEF Open, Oldest
  <2>2. ASSUME NEW d \in Clients, Oldest(j), file[p.fd] = d
        PROVE  Serves(d, p)'
    <3>1. Serves(d, p)
      BY <1>9, <2>2 DEF AllFits, EntriesFit
    <3>2. CASE d = c
      BY <1>8, <3>1, <3>2
    <3>3. CASE d # c
      BY <1>2, <1>3, <3>1, <3>3, ServesStays
    <3> QED
      BY <3>2, <3>3
  <2> QED
    BY <1>9, <2>1, <2>2 DEF AllFits, EntriesFit
<1>10. EntriesFit'
  BY <1>3, <1>9 DEF EntriesFit
<1>11. ASSUME NEW d \in Clients
       PROVE  Stream(d)'
  <2>1. CASE d = c
    <3>1. Paced(c)'
      BY <1>2, <1>5, <1>6, <1>7 DEF Paced, NumAt
    <3>2. NotYetRead(c)'
      BY <1>2, <1>3 DEF AllFits, NotYetRead, Waits
    <3> QED
      BY <1>7, <2>1, <3>1, <3>2 DEF AllFits, Stream
  <2>2. CASE d # c
    BY <1>2, <1>3, <2>2, StreamStays DEF AllFits, Stream, Waits
  <2> QED
    BY <2>1, <2>2
<1> QED
  BY <1>10, <1>11 DEF AllFits, Stream

\* Whatever else a client does.
LEMMA ClientFits ==
    ASSUME PlaceInv, AllFits, NEW c \in Clients, Client(c), UNCHANGED loopVars
    PROVE  AllFits' \/ Strays(c)'
<1>1. TypeOK /\ TokensInOrder
  BY DEF PlaceInv, IInv
<1>2. CASE Connect(c)
  <2>1. /\ UNCHANGED <<procs, file, got, unsent, inbox, fdset>>
        /\ peer[c] = "away" /\ peer' = [peer EXCEPT ![c] = "open"]
        /\ backlog' = [backlog EXCEPT ![Port[c]] = Append(@, c)]
    BY <1>2 DEF Connect, loopVars
  <2>2. ASSUME NEW d \in Clients, d # c, Waits(d)'
        PROVE  Waits(d)
    <3>1. PICK l \in Listens : \E i \in DOMAIN backlog'[l] : backlog'[l][i] = d
      BY <2>2 DEF Waits
    <3>2. PICK i \in DOMAIN backlog'[l] : backlog'[l][i] = d
      BY <3>1
    <3>3. backlog[l] \in Seq(Clients)
      BY <1>1 DEF TypeOK, SocketsTypeOK
    <3>4. CASE backlog'[l] = backlog[l]
      BY <3>2, <3>4 DEF Waits
    <3>5. CASE backlog'[l] = Append(backlog[l], c)
      <4>1. i \in DOMAIN backlog[l] /\ backlog[l][i] = d
        BY <2>2, <3>2, <3>3, <3>5
      <4> QED
        BY <4>1 DEF Waits
    <3>6. backlog'[l] = backlog[l] \/ backlog'[l] = Append(backlog[l], c)
      BY <1>1, <2>1 DEF TypeOK, SocketsTypeOK
    <3> QED
      BY <3>4, <3>5, <3>6
  <2>3. \A d \in Clients : d # c => peer'[d] = peer[d]
    BY <1>1, <2>1 DEF TypeOK, SocketsTypeOK
  <2> QED
    BY <2>1, <2>2, <2>3, QuietFits
<1>3. CASE Send(c)
  <2>1. Issued(c) < Len(Script[c]) /\ Issued(c)' = Issued(c) + 1
    BY <1>1, <1>3, SendMovesCut
  <2>2. Issued(c) \in Nat /\ Len(Script[c]) \in Nat
    BY <1>1, CutsType
  <2>3. NumAt(c, Issued(c))' = NumAt(c, Issued(c) + 1)
    BY <2>1 DEF NumAt
  <2>4. CASE ~Framed(c)
    BY <2>1, <2>2, <2>4, FramedStays DEF Strays
  <2>5. CASE Framed(c) /\ (c \in Pipelining => NumAt(c, Issued(c) + 1) <= 1)
    BY <1>3, <2>5, SendFits
  <2>6. CASE Framed(c) /\ c \in Pipelining /\ ~(NumAt(c, Issued(c) + 1) <= 1)
    <3>1. NumAt(c, Issued(c) + 1) \in Nat
      BY <2>1, <2>2, <2>6, NumbersGrow
    <3> QED
      BY <2>3, <2>6, <3>1 DEF Strays
  <2> QED
    BY <2>4, <2>5, <2>6
<1>4. CASE Drain(c) \/ Fin(c) \/ Rst(c)
  <2>1. UNCHANGED <<procs, file, got, unsent, inbox, fdset, backlog>>
    BY <1>4 DEF Drain, Fin, Rst, loopVars
  <2>2. \A d \in Clients : peer'[d] = "away" => peer[d] = "away"
    BY <1>1, <1>4 DEF Drain, Fin, Rst, TypeOK, SocketsTypeOK
  <2> QED
    BY <2>1, <2>2, QuietFits DEF Waits
<1> QED
  BY <1>2, <1>3, <1>4 DEF Client

\* Each step keeps every stream, or leaves a client that closed too early, or that has
\* just begun to send what is not framed or not waited for.
LEMMA FitsStep ==
    ASSUME PlaceInv, NoneStray, AllFits, [Next]_vars
    PROVE  AllFits' \/ \E c \in Clients : Abandoned(c)' \/ Strays(c)'
<1>1. TypeOK /\ IInv
  BY DEF PlaceInv, IInv
<1>2. CASE UNCHANGED vars
  BY <1>2, QuietFits DEF vars, netVars, loopVars, Waits
<1>3. CASE Select \/ Spin
  BY <1>3, QuietFits DEF Select, Spin, netVars, Waits
<1>4. CASE SelectFails
  BY <1>1, <1>4, ExitFits DEF SelectFails
<1>5. ASSUME NEW i \in DOMAIN procs, Entries(i)
      PROVE  AllFits' \/ \E c \in Clients : Abandoned(c)'
  <2>1. CASE WriteSome(i)
    BY <2>1, WriteFits
  <2>2. CASE WriteFails(i) \/ WriteThrows(i) \/ ReadThrows(i)
    BY <1>1, <2>2, ExitFits DEF WriteFails, WriteThrows, ReadThrows
  <2>3. CASE ReadWait(i) \/ ReadAnswer(i) \/ ReadMute(i)
    BY <2>3, ReadFits
  <2>4. CASE ReadClose(i)
    BY <2>4, CloseFits
  <2>5. CASE ReadError(i)
    <3>1. UNCHANGED <<netVars, procs>> /\ fdset' \subseteq fdset
      BY <2>5 DEF ReadError
    <3> QED
      BY <3>1, QuietFits DEF netVars, Waits
  <2> QED
    BY <1>5, <2>1, <2>2, <2>3, <2>4, <2>5 DEF Entries
<1>6. ASSUME NEW l \in Listens, Accept(l) \/ AcceptFails(l)
      PROVE  AllFits'
  BY <1>1, <1>6, AcceptFits, ExitFits DEF AcceptFails
<1>7. ASSUME NEW c \in Clients, Client(c), UNCHANGED loopVars
      PROVE  AllFits' \/ Strays(c)'
  BY <1>7, ClientFits
<1> QED
  BY <1>2, <1>3, <1>4, <1>5, <1>6, <1>7 DEF Next, Server

\* A client that closed its connection sends nothing more, connects no more, and gets
\* nothing where it has no descriptor.
LEMMA AbandonedStays ==
    ASSUME PlaceInv, NEW c \in Clients, Abandoned(c), [Next]_vars
    PROVE  Abandoned(c)'
<1>1. /\ TypeOK /\ IInv /\ OnePlaceEach
      /\ peer[c] \in {"fin", "rst"} /\ Answered(c) < Begun(c)
      /\ ~Waits(c) /\ ~HasFd(c)
  BY DEF PlaceInv, IInv, Abandoned, LeftEarly
<1>2. ASSUME got'[c] = got[c], unsent'[c] = unsent[c], peer'[c] \in {"fin", "rst"}
      PROVE  LeftEarly(c)'
  BY <1>1, <1>2 DEF LeftEarly, Answered, Begun
<1>3. CASE UNCHANGED netVars
  BY <1>1, <1>2, <1>3 DEF Abandoned, netVars, Waits, HasFd
<1>4. CASE Exit
  <2>1. UNCHANGED <<got, unsent, peer>> /\ Free # c
    BY <1>4, SocketsAssumption DEF Exit, clientVars, SocketsAssumption
  <2>2. ~HasFd(c)'
    BY <1>4, <2>1 DEF Exit, HasFd
  <2>3. \A l \in Listens : DOMAIN backlog'[l] = {}
    <3>1. \A l \in Listens : backlog'[l] = <<>>
      BY <1>4 DEF Exit
    <3> QED
      BY <3>1
  <2> QED
    BY <1>1, <1>2, <2>1, <2>2, <2>3 DEF Abandoned, Waits
<1>5. ASSUME NEW i \in DOMAIN procs, Entries(i)
      PROVE  Abandoned(c)'
  <2>1. CASE WriteSome(i)
    <3>1. PICK d \in Clients, f \in Fds, p \in Entry :
             p = procs[i] /\ f = p.fd /\ d = file[f]
      BY <1>1, <2>1, WriteEffect
    <3>2. d # c
      BY <1>1, <3>1 DEF HasFd
    <3>3. \E q : got' = [got EXCEPT ![d] = Append(@, q)]
      BY <2>1, <3>1 DEF WriteSome
    <3>4. got'[c] = got[c]
      BY <1>1, <3>2, <3>3 DEF TypeOK, SocketsTypeOK
    <3>5. UNCHANGED <<backlog, file, peer, unsent>>
      BY <2>1 DEF WriteSome
    <3> QED
      BY <1>1, <1>2, <3>4, <3>5 DEF Abandoned, Waits, HasFd
  <2>2. CASE WriteFails(i) \/ WriteThrows(i) \/ ReadThrows(i)
    BY <1>4, <2>2 DEF WriteFails, WriteThrows, ReadThrows
  <2>3. CASE ReadWait(i) \/ ReadAnswer(i) \/ ReadMute(i)
    <3>1. UNCHANGED <<backlog, file, peer, unsent, got>>
      BY <1>1, <2>3, ReadEffect
    <3> QED
      BY <1>1, <1>2, <3>1 DEF Abandoned, Waits, HasFd
  <2>4. CASE ReadClose(i)
    <3>1. PICK f \in Fds : f = procs[i].fd
      BY <1>1, <2>4, CloseEffect
    <3>2. /\ UNCHANGED <<backlog, peer, unsent, got>>
          /\ file \in [Fds -> Clients \cup {Free}] /\ file' = [file EXCEPT ![f] = Free]
      BY <1>1, <2>4, <3>1, CloseEffect
    <3>3. ~HasFd(c)'
      BY <1>1, <3>2, SocketsAssumption DEF HasFd, SocketsAssumption
    <3> QED
      BY <1>1, <1>2, <3>2, <3>3 DEF Abandoned, Waits
  <2>5. CASE ReadError(i)
    BY <1>3, <2>5 DEF ReadError
  <2> QED
    BY <1>5, <2>1, <2>2, <2>3, <2>4, <2>5 DEF Entries
<1>6. ASSUME NEW l \in Listens, Accept(l)
      PROVE  Abandoned(c)'
  <2>1. PICK d \in Clients : d = Head(backlog[l]) /\ Waits(d)
    BY <1>1, <1>6, AcceptMoves
  <2>2. \A e \in Clients : Waits(e)' => Waits(e)
    BY <1>1, <1>6, AcceptMoves
  <2>3. /\ UNCHANGED <<peer, unsent, got>>
        /\ \E f \in Fds : file' = [file EXCEPT ![f] = d]
    BY <1>1, <1>6, <2>1, AcceptEffect
  <2>4. d # c
    BY <1>1, <2>1
  <2>5. ~HasFd(c)'
    BY <1>1, <2>3, <2>4 DEF HasFd, TypeOK, SocketsTypeOK
  <2> QED
    BY <1>1, <1>2, <2>2, <2>3, <2>5 DEF Abandoned
<1>7. ASSUME NEW d \in Clients, Client(d)
      PROVE  Abandoned(c)'
  <2>1. UNCHANGED <<file, got>>
    BY <1>7 DEF Client, Connect, Send, Drain, Fin, Rst
  <2>2. CASE d = c
    <3>1. UNCHANGED <<backlog, unsent>> /\ peer'[c] \in {"fin", "rst"}
      BY <1>1, <1>7, <2>2 DEF Client, Connect, Send, Drain, Fin, Rst, TypeOK, SocketsTypeOK
    <3> QED
      BY <1>1, <1>2, <2>1, <3>1 DEF Abandoned, Waits, HasFd
  <2>3. CASE d # c
    <3>1. unsent'[c] = unsent[c] /\ peer'[c] = peer[c]
      BY <1>1, <1>7, <2>3 DEF Client, Connect, Send, Drain, Fin, Rst, TypeOK, SocketsTypeOK
    <3>2. ~Waits(c)'
      <4>1. ASSUME NEW l \in Listens, NEW i \in DOMAIN backlog'[l]
            PROVE  backlog'[l][i] # c
        <5>1. backlog[l] \in Seq(Clients)
          BY <1>1 DEF TypeOK, SocketsTypeOK
        <5>2. backlog'[l] = backlog[l] \/ backlog'[l] = Append(backlog[l], d)
          BY <1>1, <1>7 DEF Client, Connect, Send, Drain, Fin, Rst, TypeOK, SocketsTypeOK
        <5>3. \A k \in DOMAIN backlog[l] : backlog[l][k] # c
          BY <1>1 DEF Waits
        <5> QED
          BY <2>3, <4>1, <5>1, <5>2, <5>3
      <4> QED
        BY <4>1 DEF Waits
    <3> QED
      BY <1>1, <1>2, <2>1, <3>1, <3>2 DEF Abandoned, HasFd
  <2> QED
    BY <2>2, <2>3
<1>8. CASE UNCHANGED vars \/ Select \/ Spin
  BY <1>3, <1>8 DEF vars, Select, Spin
<1>9. CASE SelectFails \/ \E l \in Listens : AcceptFails(l)
  BY <1>4, <1>9 DEF SelectFails, AcceptFails
<1> QED
  BY <1>5, <1>6, <1>7, <1>8, <1>9 DEF Next, Server

\* Only writes and what clients send show.
LEMMA StepKind ==
    ASSUME [Next]_vars
    PROVE  \/ \E i : WriteSome(i)
           \/ \E c \in Clients : Send(c)
           \/ UNCHANGED <<got, unsent>>
<1>1. CASE UNCHANGED vars \/ Exit
  BY <1>1 DEF vars, netVars, clientVars, Exit
<1>2. CASE Select \/ Spin \/ \E l \in Listens : Accept(l)
  BY <1>2 DEF Select, Spin, Accept, netVars, clientVars
<1>3. CASE SelectFails \/ \E l \in Listens : AcceptFails(l)
  BY <1>1, <1>3 DEF SelectFails, AcceptFails
<1>4. ASSUME NEW i, Entries(i), ~WriteSome(i)
      PROVE  Exit \/ UNCHANGED <<got, unsent>>
  BY <1>4 DEF Entries, WriteFails, WriteThrows, ReadThrows, ReadWait, ReadAnswer, ReadMute,
              Receive, ReadClose, ReadError, netVars, clientVars
<1>5. ASSUME NEW c \in Clients, Client(c), ~Send(c)
      PROVE  UNCHANGED <<got, unsent>>
  BY <1>5 DEF Client, Connect, Drain, Fin, Rst
<1> QED
  BY <1>1, <1>2, <1>3, <1>4, <1>5 DEF Next, Server

\* What was sent is not taken back.
LEMMA StraysStay ==
    ASSUME PlaceInv, NEW c \in Clients, Strays(c), [Next]_vars
    PROVE  Strays(c)'
<1>1. TypeOK /\ TokensInOrder
  BY DEF PlaceInv, IInv
<1>2. PICK m \in 0 .. Len(Script[c]) : m = Issued(c)
  <2>1. Issued(c) \in 0 .. Len(Script[c])
    BY <1>1, CutsType
  <2> QED
    BY <2>1
<1>3. Len(Script[c]) \in Nat
  BY <1>1, CutsType
<1>4. PICK k \in 0 .. Len(Script[c]) : k = Issued(c)' /\ m <= k
  <2>1. ASSUME NEW d \in Clients, Send(d)
        PROVE  Issued(c)' = m \/ (Issued(c)' = m + 1 /\ m < Len(Script[c]))
    <3>1. CASE d = c
      BY <1>1, <1>2, <2>1, <3>1, SendMovesCut
    <3>2. CASE d # c
      <4>1. unsent'[c] = unsent[c]
        BY <1>1, <2>1, <3>2, SendMovesCut
      <4> QED
        BY <1>2, <4>1 DEF Issued
    <3> QED
      BY <3>1, <3>2
  <2>2. unsent' = unsent \/ \E d \in Clients : Send(d)
    <3>1. \A i : WriteSome(i) => unsent' = unsent
      BY DEF WriteSome
    <3> QED
      BY <3>1, StepKind
  <2>3. ASSUME NEW d \in Clients, Send(d)
        PROVE  Issued(c)' \in 0 .. Len(Script[c]) /\ m <= Issued(c)'
    <3>1. Issued(c)' = m \/ (Issued(c)' = m + 1 /\ m < Len(Script[c]))
      BY <2>1, <2>3
    <3> QED
      BY <1>3, <3>1
  <2>4. Issued(c)' \in 0 .. Len(Script[c]) /\ m <= Issued(c)'
    <3>1. CASE unsent' = unsent
      <4>1. Issued(c)' = m
        BY <1>2, <3>1 DEF Issued
      <4> QED
        BY <1>3, <4>1
    <3>2. CASE \E d \in Clients : Send(d)
      BY <2>3, <3>2
    <3> QED
      BY <2>2, <3>1, <3>2
  <2> QED
    BY <2>4
<1>5. NumAt(c, Issued(c))' = NumAt(c, k) /\ NumAt(c, Issued(c)) = NumAt(c, m)
  BY <1>2, <1>4 DEF NumAt
<1>6. CASE Framed(c)
  <2>1. NumAt(c, m) \in Nat /\ NumAt(c, k) \in Nat /\ NumAt(c, m) <= NumAt(c, k)
    BY <1>4, <1>6, NumbersGrow
  <2>2. c \in Pipelining /\ NumAt(c, m) > 1
    BY <1>5, <1>6 DEF Strays
  <2> QED
    BY <1>5, <2>1, <2>2 DEF Strays
<1>7. CASE ~Framed(c)
  <2>1. m # 0
    <3>1. m = 0 => NumAt(c, m) = 0
      BY DEF NumAt
    <3> QED
      BY <1>2, <1>5, <3>1 DEF Strays
  <2>2. Issued(c)' > 0
    BY <1>3, <1>4, <2>1
  <2> QED
    BY <1>7, <2>2, FramedStays DEF Strays
<1> QED
  BY <1>6, <1>7

---------------------------------------------------------------------------
(* The streams of all clients                                              *)

\* Nothing was sent or written: every stream begins well.
LEMMA InitFits == Init => AllFits
<1> SUFFICES ASSUME Init PROVE AllFits
  OBVIOUS
<1>1. /\ procs = <<>> /\ unsent = Script
      /\ \A c \in Clients : inbox[c] = <<>> /\ got[c] = <<>>
  BY DEF Init, SocketsInit
<1>2. EntriesFit
  <2>1. DOMAIN procs = {}
    BY <1>1
  <2> QED
    BY <2>1 DEF EntriesFit
<1>3. ASSUME NEW c \in Clients
      PROVE  Stream(c)
  <2>1. Len(Script[c]) \in Nat
    BY SocketsAssumption, LenProperties DEF SocketsAssumption
  <2>2. Issued(c) = 0 /\ Consumed(c) = 0
    BY <1>1, <2>1 DEF Issued, Consumed
  <2>3. TypeOK
    BY InitPlaces DEF PlaceInv, IInv
  <2>4. Paced(c)
    BY <2>2, <2>3, AnsweredType DEF Paced, NumAt
  <2>5. DOMAIN got[c] = {}
    BY <1>1
  <2> QED
    BY <1>1, <2>2, <2>4, <2>5 DEF Stream, PiecesFit, NotYetRead
<1> QED
  BY <1>2, <1>3 DEF AllFits, Stream

\* What is inductive, whatever clients do.
Flowing == PlaceInv /\ (AllFits \/ \E c \in Clients : Abandoned(c) \/ Strays(c))

LEMMA FlowingStep == Flowing /\ [Next]_vars => Flowing'
<1> SUFFICES ASSUME Flowing, [Next]_vars PROVE Flowing'
  OBVIOUS
<1>1. PlaceInv /\ PlaceInv'
  BY PlacesKept DEF Flowing
<1>2. CASE AllFits /\ NoneStray
  BY <1>1, <1>2, FitsStep DEF Flowing
<1>3. ASSUME NEW c \in Clients, Abandoned(c)
      PROVE  Abandoned(c)'
  BY <1>1, <1>3, AbandonedStays
<1>4. ASSUME NEW c \in Clients, Strays(c)
      PROVE  Strays(c)'
  BY <1>1, <1>4, StraysStay
<1> QED
  BY <1>1, <1>2, <1>3, <1>4 DEF Flowing, NoneStray

LEMMA FlowingAlways == Spec => []Flowing
<1>1. Init => Flowing
  BY InitPlaces, InitFits DEF Flowing
<1> QED
  BY <1>1, FlowingStep, PTL DEF Spec

\* Every client has got a sequence of whole answers to its requests, in order, the last
\* one perhaps cut, and its entry holds what is left to answer; until a client leaves
\* with a request begun and not answered, or begins to send what is not framed, or a
\* second request while it is one of those that do not wait.
THEOREM StreamsFlow == Spec => []StreamInv
<1>1. Flowing => StreamInv
  BY DEF Flowing, PlaceInv, StreamInv
<1> QED
  BY <1>1, FlowingAlways, PTL

---------------------------------------------------------------------------
(* Why the process ends                                                    *)

\* A connection that cannot be accepted was reported, and waits still.
LEMMA RefusedWaits ==
    ASSUME PlaceInv, NEW l \in Listens, AcceptFails(l)
    PROVE  backlog[l] # <<>> /\ \A f \in Fds : Open(f)
  BY DEF PlaceInv, IInv, LoopInv, AcceptFails, Acceptor, First

\* While every stream fits, the process ends because a client left unanswered, because
\* the chunks of the request that a client waits on do not parse, or because it accepts
\* a connection when it has no descriptor for one.
LEMMA ExitCause ==
    ASSUME PlaceInv, NoneStray, AllFits, Next, pc' = "stopped", pc # "stopped"
    PROVE  \/ \E c \in Clients : LeftEarly(c) \/ SentGarbled(c)
           \/ \E l \in Listens : AcceptFails(l)
<1>1. /\ TypeOK /\ IInv /\ LoopInv /\ SelectableFdsOpen /\ ShadowsIdle /\ HearsWatched
      /\ EntriesFit
  BY DEF PlaceInv, IInv, LoopInv, AllFits
<1>2. ~SelectFails
  <2> SUFFICES ASSUME SelectFails PROVE FALSE
    OBVIOUS
  <2>1. PICK f \in fdset \cup WritingSet : ~Open(f)
    BY DEF SelectFails, BadFd
  <2>2. f \in WritingSet
    BY <1>1, <2>1 DEF SelectableFdsOpen
  <2>3. PICK j \in DOMAIN procs : procs[j].ready /\ procs[j].fd = f
    BY <2>2 DEF WritingSet
  <2> QED
    BY <1>1, <2>1, <2>3 DEF EntriesFit
<1>3. ASSUME NEW i \in DOMAIN procs, Entries(i)
      PROVE  \E c \in Clients : LeftEarly(c) \/ SentGarbled(c)
  <2>1. WriteFails(i) \/ WriteThrows(i) \/ ReadThrows(i)
    BY <1>3 DEF Entries, WriteSome, ReadWait, ReadAnswer, ReadMute, ReadClose, ReadError,
                Return
  <2>2. Writer(i) \/ Reader(i)
    BY <2>1 DEF WriteFails, WriteThrows, ReadThrows
  <2>3. PICK p \in Entry, c \in Clients : p = procs[i] /\ c = file[p.fd]
    BY <1>1, <2>2, Served
  <2>4. Oldest(i)
    BY <1>1, <2>2, ServesOldest
  <2>5. CASE WriteFails(i)
    <3>1. p.ready /\ peer[c] = "rst"
      BY <2>3, <2>5 DEF WriteFails, Writer, First, Wanting
    <3>2. Answered(c) < Begun(c)
      BY <2>3, <2>4, <3>1, BusyMeansBegun
    <3> QED
      BY <3>1, <3>2 DEF LeftEarly
  <2>6. CASE WriteThrows(i)
    <3>1. p.ready /\ p.sent > p.res.len
      BY <2>3, <2>6 DEF WriteThrows, Writer, First, Wanting
    <3>2. Serves(c, p)
      BY <1>1, <2>3, <2>4 DEF EntriesFit
    <3>3. p.sent < p.res.len
      BY <3>1, <3>2 DEF Serves, Answering
    <3>4. p.sent \in Nat /\ p.res.len \in Nat
      BY DEF Entry, Answer
    <3> QED
      BY <3>1, <3>3, <3>4
  <2>7. CASE ReadThrows(i)
    <3>1. /\ Reader(i) /\ inbox[c] # <<>>
          /\ LET x == Extended(p, c) IN Complete(x.req, x.hidx) /\ Garbled(x.req)
      BY <2>3, <2>7 DEF ReadThrows, Heard
    <3>2. PICK b \in 0 .. Len(Script[c]), m \in 0 .. Len(Script[c]) : Hears(c, p, b, m)
      BY <2>3, <3>1, ReaderHears
    <3>3. /\ Boundary(c, b) /\ NumAt(c, b) = Answered(c) /\ b < m
          /\ Boundary(c, m) /\ m = Issued(c) /\ NumAt(c, m) = Answered(c) + 1
          /\ Garbled(SubSeq(Script[c], b + 1, m))
      BY <3>1, <3>2 DEF Hears
    <3>4. b \in 0 .. m
      BY <1>1, <3>3, CutsType DEF TokensInOrder
    <3> QED
      BY <3>3, <3>4 DEF SentGarbled
  <2> QED
    BY <2>1, <2>5, <2>6, <2>7
<1>4. ASSUME NEW c \in Clients, UNCHANGED loopVars
      PROVE  FALSE
  BY <1>4 DEF loopVars
<1>5. ~Select /\ ~Spin /\ \A l \in Listens : ~Accept(l)
  BY DEF Select, Spin, Accept, Return
<1> QED
  BY <1>2, <1>3, <1>4, <1>5 DEF Next, Server

\* The process ends only because of a client that left before what it had begun to ask
\* was answered, that waits for the answer to chunks that do not parse, that has begun
\* to send what is not framed, or that does not wait and has begun its second request;
\* or for want of a descriptor.  The clients, their scripts and manners may be any.
THEOREM EndsOnlyForCause == Spec => EndsForCause
<1> DEFINE Ends == pc # "stopped" /\ pc' = "stopped"
           Cause == \/ \E c \in Clients : LeftEarly(c) \/ SentGarbled(c) \/ Strays(c)
                    \/ (\A f \in Fds : Open(f)) /\ \E l \in Listens : backlog[l] # <<>>
<1>1. Flowing /\ [Next]_vars => [Ends => Cause]_vars
  <2> SUFFICES ASSUME Flowing, [Next]_vars, ~UNCHANGED vars, Ends PROVE Cause
    OBVIOUS
  <2>1. Next /\ PlaceInv
    BY DEF Flowing
  <2>2. CASE AllFits /\ NoneStray
    <3>1. CASE \E l \in Listens : AcceptFails(l)
      BY <2>1, <3>1, RefusedWaits
    <3> QED
      BY <2>1, <2>2, <3>1, ExitCause
  <2>3. CASE \E c \in Clients : Abandoned(c)
    BY <2>3 DEF Abandoned
  <2>4. CASE \E c \in Clients : Strays(c)
    BY <2>4
  <2> QED
    BY <2>2, <2>3, <2>4 DEF Flowing, NoneStray
<1> QED
  BY <1>1, FlowingAlways, PTL DEF Spec, EndsForCause

---------------------------------------------------------------------------
(* Clients that stay until they have their answers                         *)

\* What a client asks in all is the number of its last token.
LEMMA AskedType ==
    ASSUME NEW c \in Clients
    PROVE  Asked(c) \in Nat /\ Asked(c) = NumAt(c, Len(Script[c]))
<1>1. Script[c] \in Seq(Token)
  BY SocketsAssumption DEF SocketsAssumption
<1>2. CASE Script[c] = <<>>
  <2>1. Len(Script[c]) = 0
    BY <1>2
  <2> QED
    BY <1>2, <2>1 DEF Asked, NumAt
<1>3. CASE Script[c] # <<>>
  <2>1. Len(Script[c]) \in 1 .. Len(Script[c])
    BY <1>1, <1>3
  <2>2. Script[c][Len(Script[c])] \in Token /\ Len(Script[c]) # 0
    BY <1>1, <2>1
  <2> QED
    BY <1>3, <2>2 DEF Asked, Last, NumAt, Token
<1> QED
  BY <1>2, <1>3

\* Answers are never taken back: a client that has them all has them all for good.
LEMMA StayStep ==
    ASSUME PlaceInv, AllStay, NoneLeftEarly, [Next]_vars
    PROVE  NoneLeftEarly'
<1>1. TypeOK /\ IInv
  BY DEF PlaceInv, IInv
<1> SUFFICES ASSUME NEW c \in Clients
             PROVE  /\ peer'[c] # "rst"
                    /\ peer'[c] = "fin" => unsent'[c] = <<>> /\ Answered(c)' >= Asked(c)'
  BY DEF NoneLeftEarly
<1>2. /\ peer[c] # "rst"
      /\ peer[c] = "fin" => unsent[c] = <<>> /\ Answered(c) >= Asked(c)
      /\ Asked(c)' = Asked(c)
  BY DEF NoneLeftEarly, Asked
<1>3. CASE UNCHANGED <<peer, unsent, got>>
  BY <1>2, <1>3 DEF Answered
<1>4. CASE Exit
  BY <1>3, <1>4 DEF Exit, clientVars
<1>5. ASSUME NEW i \in DOMAIN procs, WriteSome(i)
      PROVE  peer' = peer /\ unsent' = unsent /\ (Answered(c) >= Asked(c) => Answered(c)' >= Asked(c))
  <2>1. PICK p \in Entry, d \in Clients, n \in Nat, e \in Entry :
           p = procs[i] /\ d = file[p.fd] /\ Written(i, n, e)
    BY <1>1, <1>5, WriteEffect
  <2> DEFINE q == [res |-> p.res, from |-> p.sent, upto |-> p.sent + n]
  <2>2. q \in Piece
    BY DEF Piece, Entry
  <2>3. got' = [got EXCEPT ![d] = Append(got[d], q)]
    BY <2>1 DEF Written
  <2> HIDE DEF q
  <2>4. PICK k \in Nat : k = Len(got[d])
    BY <1>1, AnsweredType, LenProperties
  <2>5. /\ Answered(d)' = Answered(d) + IF EndsAnswer(q) THEN 1 ELSE 0
        /\ \A b \in Clients : b # d => got'[b] = got[b]
    <3>1. Longer(d, k, q)
      BY <1>1, <2>2, <2>3, <2>4, WriteCounts
    <3> QED
      BY <3>1 DEF Longer
  <2>6. Answered(c) \in Nat /\ Asked(c) \in Nat
    BY <1>1, AnsweredType, AskedType
  <2>7. Answered(c)' = Answered(c) \/ Answered(c)' = Answered(c) + 1
    <3>1. CASE c = d
      BY <2>5, <2>6, <3>1
    <3>2. CASE c # d
      BY <2>5, <3>2, CountsStay
    <3> QED
      BY <3>1, <3>2
  <2>8. Answered(c) >= Asked(c) => Answered(c)' >= Asked(c)
    BY <2>6, <2>7
  <2> QED
    BY <1>5, <2>8 DEF WriteSome
<1>6. ASSUME NEW i \in DOMAIN procs, Entries(i), ~WriteSome(i)
      PROVE  Exit \/ UNCHANGED <<peer, unsent, got>>
  BY <1>6 DEF Entries, WriteFails, WriteThrows, ReadThrows, ReadWait, ReadAnswer, ReadMute,
              Receive, ReadClose, ReadError, netVars, clientVars
<1>7. ASSUME NEW d \in Clients, Client(d)
      PROVE  /\ peer'[c] # "rst"
             /\ peer'[c] = "fin" => unsent'[c] = <<>> /\ Answered(c)' >= Asked(c)'
  <2>1. Answered(c)' = Answered(c) /\ Received(c) <= Answered(c)
        /\ Answered(c) \in Nat /\ Received(c) \in Nat
    <3>1. got' = got
      BY <1>7 DEF Client, Connect, Send, Drain, Fin, Rst
    <3> QED
      BY <1>1, <3>1, CountsStay, AnsweredType
  <2>2. CASE d # c
    <3>1. peer'[c] = peer[c] /\ unsent'[c] = unsent[c]
      BY <1>1, <1>7, <2>2 DEF Client, Connect, Send, Drain, Fin, Rst, TypeOK, SocketsTypeOK
    <3> QED
      BY <1>2, <2>1, <3>1
  <2>3. CASE d = c
    <3>1. CASE Connect(c) \/ Send(c) \/ Drain(c)
      <4>1. peer'[c] = "open"
        BY <1>1, <3>1 DEF Connect, Send, Drain, TypeOK, SocketsTypeOK
      <4> QED
        BY <4>1
    <3>2. CASE Fin(c)
      <4>1. /\ unsent'[c] = unsent[c] /\ unsent[c] = <<>> /\ Received(c) >= Asked(c)
            /\ peer'[c] = "fin"
        BY <1>1, <3>2 DEF Fin, AllStay, TypeOK, SocketsTypeOK
      <4> QED
        BY <1>2, <2>1, <4>1, AskedType
    <3>3. ~Rst(c)
      BY DEF Rst, AllStay
    <3> QED
      BY <1>7, <2>3, <3>1, <3>2, <3>3 DEF Client
  <2> QED
    BY <2>2, <2>3
<1>8. CASE UNCHANGED vars \/ Select \/ Spin \/ \E l \in Listens : Accept(l)
  BY <1>3, <1>8 DEF vars, netVars, clientVars, Select, Spin, Accept
<1>9. CASE SelectFails \/ \E l \in Listens : AcceptFails(l)
  BY <1>4, <1>9 DEF SelectFails, AcceptFails
<1> QED
  BY <1>2, <1>3, <1>4, <1>5, <1>6, <1>7, <1>8, <1>9 DEF Next, Server

\* A client that has all its answers left nothing it had begun to ask unanswered.
LEMMA NobodyEarly ==
    PlaceInv /\ NoneLeftEarly => \A c \in Clients : ~LeftEarly(c)
<1> SUFFICES ASSUME PlaceInv, NoneLeftEarly, NEW c \in Clients, LeftEarly(c) PROVE FALSE
  OBVIOUS
<1>1. TypeOK /\ TokensInOrder
  BY DEF PlaceInv, IInv
<1>2. /\ unsent[c] = <<>> /\ Answered(c) >= Asked(c) /\ Answered(c) < Begun(c)
  BY DEF LeftEarly, NoneLeftEarly
<1>3. Issued(c) = Len(Script[c])
  <2>1. Len(unsent[c]) = 0 /\ Len(Script[c]) \in Nat
    BY <1>1, <1>2, CutsType
  <2> QED
    BY <2>1 DEF Issued
<1>4. Begun(c) = Asked(c)
  BY <1>1, <1>3, AskedType, BegunIsIssued
<1>5. Asked(c) \in Nat /\ Answered(c) \in Nat
  BY <1>1, AskedType, AnsweredType
<1> QED
  BY <1>2, <1>4, <1>5

\* When a connection waits and every descriptor serves another one, there are fewer
\* descriptors than clients.
LEMMA FdsSuffice ==
    ASSUME PlaceInv, EnoughFds, NEW l \in Listens
    PROVE  ~AcceptFails(l)
<1> SUFFICES ASSUME AcceptFails(l) PROVE FALSE
  OBVIOUS
<1>1. /\ backlog[l] # <<>> /\ \A f \in Fds : Open(f)
      /\ backlog[l] \in Seq(Clients) /\ file \in [Fds -> Clients \cup {Free}]
      /\ OnePlaceEach
  BY DEF PlaceInv, IInv, LoopInv, TypeOK, SocketsTypeOK, AcceptFails, Acceptor, First
<1>2. PICK c \in Clients : Waits(c)
  <2>1. 1 \in DOMAIN backlog[l] /\ backlog[l][1] \in Clients
    BY <1>1
  <2> QED
    BY <2>1 DEF Waits
<1> DEFINE T == Clients \ {c}
<1>3. file \in [Fds -> T]
  <2>1. ~HasFd(c)
    BY <1>1, <1>2 DEF OnePlaceEach
  <2> QED
    BY <1>1, <2>1 DEF HasFd, Open
<1>4. IsFiniteSet(T) /\ Cardinality(T) = Cardinality(Clients) - 1
  BY FS_RemoveElement DEF EnoughFds
<1>5. Cardinality(T) < Cardinality(Fds) /\ IsFiniteSet(Fds)
  <2>1. Cardinality(Clients) \in Nat /\ Cardinality(Fds) \in Nat
    BY FS_CardinalityType DEF EnoughFds
  <2> HIDE DEF T
  <2> QED
    BY <1>4, <2>1 DEF EnoughFds
<1> HIDE DEF T
<1>6. PICK f \in Fds, g \in Fds : f # g /\ file[f] = file[g]
  BY <1>3, <1>4, <1>5, FS_PigeonHole
<1> QED
  BY <1>1, <1>6 DEF OnePlaceEach

\* What is inductive when clients also stay until they have their answers.
Settling == PlaceInv /\ Settled

LEMMA SettlingStep ==
    ASSUME FramedScripts, AllWait, AllStay
    PROVE  Settling /\ [Next]_vars => Settling'
<1> SUFFICES ASSUME Settling, [Next]_vars PROVE Settling'
  OBVIOUS
<1>1. PlaceInv' /\ NoneLeftEarly'
  BY PlacesKept, StayStep DEF Settling, Settled
<1>2. (\A c \in Clients : ~LeftEarly(c))'
  BY <1>1, NobodyEarly, PTL
<1>3. AllFits' \/ \E c \in Clients : Abandoned(c)' \/ Strays(c)'
  BY NobodyStrays, FitsStep DEF Settling, Settled
<1>4. \A c \in Clients : ~Strays(c)'
  BY NobodyStrays DEF NoneStray
<1> QED
  BY <1>1, <1>2, <1>3, <1>4 DEF Settling, Settled, Abandoned

LEMMA SettlingAlways ==
    ASSUME FramedScripts, AllWait, AllStay
    PROVE  Spec => []Settling
<1>1. Init => Settling
  BY InitPlaces, InitFits DEF Settling, Settled, NoneLeftEarly, Init, SocketsInit
<1>2. Settling /\ [Next]_vars => Settling'
  BY SettlingStep
<1> QED
  BY <1>1, <1>2, PTL DEF Spec

\* Every connection is served as it should be, always, when clients wait for their
\* answers, frame their requests and stay until they have them.
THEOREM StreamsSettle ==
    ASSUME FramedScripts, AllWait, AllStay
    PROVE  Spec => []Settled
<1>1. Settling => Settled
  BY DEF Settling
<1> QED
  BY <1>1, SettlingAlways, PTL

\* The pieces written to a client are cut from whole answers, one after the other.
THEOREM StreamsAreIntact ==
    ASSUME FramedScripts, AllWait, AllStay
    PROVE  Spec => []StreamIntact
<1>1. Settling => StreamIntact
  BY DEF Settling, Settled, AllFits, PiecesFit, PieceFits, StreamIntact
<1> QED
  BY <1>1, SettlingAlways, PTL

\* The k-th whole answer a client gets is the one to the k-th request it sent, to just
\* the header and body that it sent.
THEOREM AnswersMatch ==
    ASSUME FramedScripts, AllWait, AllStay
    PROVE  Spec => []AnswersMatchRequests
<1>1. Settling => AnswersMatchRequests
  BY DEF Settling, Settled, AllFits, PiecesFit, PieceFits, AnswersMatchRequests
<1> QED
  BY <1>1, SettlingAlways, PTL

\* What can be parsed is not garbled.
LEMMA NobodyGarbles ==
    ASSUME PlaceInv, ParsableScripts, NEW c \in Clients
    PROVE  ~SentGarbled(c)
<1>1. Issued(c) \in 0 .. Len(Script[c]) /\ Len(Script[c]) \in Nat
  BY CutsType DEF PlaceInv, IInv
<1>2. PICK m \in 0 .. Len(Script[c]) : m = Issued(c)
  BY <1>1
<1>3. \A b \in 0 .. m : b \in 0 .. Len(Script[c])
  BY <1>1
<1> QED
  BY <1>2, <1>3 DEF SentGarbled, ParsableScripts, Parsable

\* With a descriptor for every connection, and requests that are framed and parse, the
\* process never ends.
THEOREM ServerNeverStops ==
    ASSUME FramedScripts, ParsableScripts, AllWait, AllStay, EnoughFds
    PROVE  Spec => []NeverStops
<1>1. Init => NeverStops
  BY DEF Init, NeverStops
<1>2. Settling /\ NeverStops /\ [Next]_vars => NeverStops'
  <2> SUFFICES ASSUME Settling, NeverStops, [Next]_vars, ~NeverStops' PROVE FALSE
    OBVIOUS
  <2>1. pc # "stopped" /\ pc' = "stopped" /\ Next
    BY DEF NeverStops, vars, loopVars
  <2>2. \/ \E c \in Clients : LeftEarly(c) \/ SentGarbled(c)
        \/ \E l \in Listens : AcceptFails(l)
    BY <2>1, NobodyStrays, ExitCause DEF Settling, Settled
  <2> QED
    BY <2>2, NobodyEarly, NobodyGarbles, FdsSuffice DEF Settling, Settled
<1>3. Spec => []Settling
  BY SettlingAlways
<1> QED
  BY <1>1, <1>2, <1>3, PTL DEF Spec

---------------------------------------------------------------------------
(* The refinement mapping                                                  *)

\* How many requests c has sent to the end, by its script.
LEMMA AskedByScript ==
    ASSUME PlaceInv, NEW c \in Clients, Framed(c)
    PROVE  /\ FullySent(c) = IF Issued(c) = Len(Script[c]) THEN Asked(c)
                             ELSE NumAt(c, Issued(c) + 1) - 1
           /\ FullySent(c) \in Nat /\ FullySent(c) <= Asked(c)
           /\ Boundary(c, Issued(c)) => FullySent(c) = NumAt(c, Issued(c))
<1>1. /\ Script[c] \in Seq(Token) /\ Len(Script[c]) \in Nat
      /\ Issued(c) \in Nat /\ Issued(c) <= Len(Script[c])
      /\ unsent[c] = SubSeq(Script[c], Issued(c) + 1, Len(Script[c]))
  BY CutsType DEF PlaceInv, IInv
<1>2. PICK m \in 0 .. Len(Script[c]) : m = Issued(c)
  BY <1>1
<1>3. Asked(c) \in Nat /\ Asked(c) = NumAt(c, Len(Script[c]))
  BY AskedType
<1>4. CASE m = Len(Script[c])
  <2>1. unsent[c] = <<>>
    <3>1. m \in Int /\ m + 1 \in Int /\ m < m + 1
      BY <1>1
    <3>2. SubSeq(Script[c], m + 1, m) = <<>>
      BY <3>1, SubSeqEmpty
    <3> QED
      BY <1>1, <1>2, <1>4, <3>2
  <2>2. FullySent(c) = Asked(c)
    BY <2>1 DEF FullySent
  <2> QED
    BY <1>2, <1>3, <1>4, <2>2
<1>5. CASE m # Len(Script[c])
  <2>1. m \in 0 .. Len(Script[c]) - 1 /\ m + 1 \in 0 .. Len(Script[c]) /\ m + 1 # 0
    BY <1>1, <1>5
  <2>2. unsent[c] # <<>> /\ Head(unsent[c]) = Script[c][m + 1]
    <3>1. m \in Nat /\ 0 \in Nat /\ 0 <= m /\ m < Len(Script[c])
      BY <1>1, <2>1
    <3>2. LET r == SubSeq(Script[c], m + 1, Len(Script[c]))
          IN  r # <<>> /\ Head(r) = Script[c][m + 1]
      BY <1>1, <3>1, SliceNext
    <3> QED
      BY <1>1, <1>2, <3>2
  <2>3. FullySent(c) = NumAt(c, m + 1) - 1
    BY <2>1, <2>2 DEF FullySent, NumAt
  <2>4. NumAt(c, m + 1) \in Nat /\ NumAt(c, m + 1) >= 1 /\ NumAt(c, m + 1) <= Asked(c)
    <3>1. NumAt(c, m + 1) >= 1
      <4>1. m + 1 \in DOMAIN Script[c]
        BY <1>1, <2>1
      <4>2. Script[c][m + 1].no >= 1
        BY <4>1 DEF Framed
      <4> QED
        BY <2>1, <4>2 DEF NumAt
    <3>2. Len(Script[c]) \in 0 .. Len(Script[c]) /\ m + 1 <= Len(Script[c])
      BY <1>1, <2>1
    <3> QED
      BY <1>3, <2>1, <3>1, <3>2, NumbersGrow
  <2>5. Boundary(c, m) => NumAt(c, m + 1) = NumAt(c, m) + 1
    BY <2>1, NextStarts
  <2>6. NumAt(c, m) \in Nat
    BY NumbersGrow
  <2> QED
    BY <1>2, <1>3, <1>5, <2>3, <2>4, <2>5, <2>6
<1> QED
  BY <1>4, <1>5

\* The same, for the next state too.
AskedFor(c) ==
    /\ FullySent(c) = IF Issued(c) = Len(Script[c]) THEN Asked(c)
                      ELSE NumAt(c, Issued(c) + 1) - 1
    /\ FullySent(c) <= Asked(c)

AskedRight == \A c \in Clients : AskedFor(c)

LEMMA AskedAlways ==
    ASSUME FramedScripts
    PROVE  PlaceInv => AskedRight
  BY AskedByScript DEF FramedScripts, AskedFor, AskedRight

---------------------------------------------------------------------------
(* The answers a client got, one for each number                           *)

Ends(c, i, k) == i \in DOMAIN got[c] /\ EndsAnswer(got[c][i]) /\ EndsUpTo(c, i) = k

\* Each of the answers to c is ended by one of the writes.
Counted(c) == \A k \in 1 .. Answered(c) : \E i \in DOMAIN got[c] : Ends(c, i, k)
AnswersCounted == \A c \in Clients : Counted(c)

LEMMA CountedStays ==
    ASSUME NEW c \in Clients, Counted(c), got'[c] = got[c]
    PROVE  Counted(c)'
<1>1. Answered(c)' = Answered(c) /\ \A k : EndsUpTo(c, k)' = EndsUpTo(c, k)
  BY CountsStay DEF EndsUpTo
<1> QED
  BY <1>1 DEF Counted, Ends

\* A write that ends an answer ends the one after those that c has.
LEMMA CountedGrows ==
    ASSUME TypeOK, NEW c \in Clients, Counted(c), NEW n \in Nat, n = Len(got[c]),
           NEW q, Longer(c, n, q)
    PROVE  Counted(c)'
<1>1. /\ DOMAIN got[c] = 1 .. n /\ Answered(c) \in Nat
  BY AnsweredType
<1>2. /\ DOMAIN got'[c] = 1 .. n + 1 /\ got'[c][n + 1] = q
      /\ \A k \in 1 .. n : got'[c][k] = got[c][k] /\ EndsUpTo(c, k)' = EndsUpTo(c, k)
      /\ EndsUpTo(c, n + 1)' = Answered(c)'
      /\ Answered(c)' = Answered(c) + IF EndsAnswer(q) THEN 1 ELSE 0
  BY DEF Longer
<1>3. ASSUME NEW k \in 1 .. Answered(c)
      PROVE  \E i \in 1 .. n + 1 : Ends(c, i, k)'
  <2>1. PICK i \in DOMAIN got[c] : Ends(c, i, k)
    BY DEF Counted
  <2>2. i \in 1 .. n /\ i \in 1 .. n + 1
    BY <1>1
  <2>3. Ends(c, i, k)'
    BY <1>2, <2>1, <2>2 DEF Ends
  <2> QED
    BY <2>2, <2>3
<1>4. PICK a \in Nat : a = Answered(c)
  BY <1>1
<1>5. ASSUME EndsAnswer(q)
      PROVE  Ends(c, n + 1, a + 1)'
  <2>1. n + 1 \in 1 .. n + 1
    OBVIOUS
  <2>2. EndsUpTo(c, n + 1)' = a + 1
    BY <1>2, <1>4, <1>5
  <2> QED
    BY <1>2, <1>5, <2>1, <2>2 DEF Ends
<1>6. ASSUME NEW k \in 1 .. Answered(c)'
      PROVE  \E i \in 1 .. n + 1 : Ends(c, i, k)'
  <2>1. CASE k \in 1 .. a
    BY <1>3, <1>4, <2>1
  <2>2. CASE k \notin 1 .. a
    <3>1. Answered(c)' = a + 1 /\ EndsAnswer(q) /\ k = a + 1
      BY <1>2, <1>4, <1>6, <2>2
    <3>2. n + 1 \in 1 .. n + 1
      OBVIOUS
    <3> QED
      BY <1>5, <3>1, <3>2
  <2> QED
    BY <2>1, <2>2
<1> QED
  BY <1>2, <1>6 DEF Counted

---------------------------------------------------------------------------
(* Steps of Service                                                        *)

\* What shows of the loop: all answers are whole answers to the requests so far.
Shown == Settling /\ AnswersCounted

AnswersRight ==
    \A c \in Clients : AnsweredTo(c) = [k \in 1 .. Answered(c) |-> Sent(c, k)]

LEMMA ShownAnswers == Shown => AnswersRight
<1> SUFFICES ASSUME Shown, NEW c \in Clients
             PROVE  AnsweredTo(c) = [k \in 1 .. Answered(c) |-> Sent(c, k)]
  BY DEF AnswersRight
<1>1. ASSUME NEW k \in 1 .. Answered(c)
      PROVE  got[c][EndOfAnswer(c, k)].res.toks = Sent(c, k)
  <2>1. \E i \in DOMAIN got[c] : EndsAnswer(got[c][i]) /\ EndsUpTo(c, i) = k
    BY DEF Shown, AnswersCounted, Counted, Ends
  <2>2. PICK e : e = EndOfAnswer(c, k)
    OBVIOUS
  <2>3. e \in DOMAIN got[c] /\ EndsAnswer(got[c][e]) /\ EndsUpTo(c, e) = k
    BY <2>1, <2>2 DEF EndOfAnswer
  <2>4. PieceFits(c, e)
    BY <2>3 DEF Shown, Settling, Settled, AllFits, PiecesFit
  <2> QED
    BY <2>2, <2>3, <2>4 DEF PieceFits
<1> QED
  BY <1>1 DEF AnsweredTo

\* The answers that show are so many, and fix what shows.
LEMMA ShownLength ==
    ASSUME Shown, NEW c \in Clients
    PROVE  Len(AnsweredTo(c)) = Answered(c) /\ Answered(c) \in Nat
<1>1. Answered(c) \in Nat
  BY AnsweredType DEF Shown, Settling, PlaceInv, IInv
<1>2. AnsweredTo(c) = [k \in 1 .. Answered(c) |-> Sent(c, k)]
  BY ShownAnswers DEF AnswersRight
<1> QED
  BY <1>1, <1>2

LEMMA AnswersFixed ==
    ASSUME Shown, Shown', NEW c \in Clients, got'[c] = got[c]
    PROVE  AnsweredTo(c)' = AnsweredTo(c) /\ PartSent(c)' = PartSent(c)
<1>1. Answered(c)' = Answered(c)
  BY CountsStay
<1>2. AnsweredTo(c) = [k \in 1 .. Answered(c) |-> Sent(c, k)]
  BY ShownAnswers DEF AnswersRight
<1>3. AnswersRight'
  <2>1. Shown'
    OBVIOUS
  <2> QED
    BY <2>1, ShownAnswers, PTL
<1>4. AnsweredTo(c)' = [k \in 1 .. Answered(c)' |-> Sent(c, k)]
  BY <1>3 DEF AnswersRight
<1>5. PartSent(c)' = PartSent(c)
  BY DEF PartSent, EndsAnswer, Last
<1> QED
  BY <1>1, <1>2, <1>4, <1>5

\* Nothing shows of a step that neither sends nor writes.
LEMMA QuietUnseen ==
    ASSUME Shown, Shown', got' = got, unsent' = unsent
    PROVE  UNCHANGED Promised!serviceVars
<1>1. \A c \in Clients : AnsweredTo(c)' = AnsweredTo(c) /\ PartSent(c)' = PartSent(c)
  BY AnswersFixed
<1>2. \A c \in Clients : FullySent(c)' = FullySent(c)
  BY DEF FullySent, Asked
<1> QED
  BY <1>1, <1>2 DEF Promised!serviceVars

\* A token more of a request is sent: it completes the request, or does not show.
LEMMA SendAsks ==
    ASSUME FramedScripts, AllWait, Shown, Shown', NEW c \in Clients, Send(c)
    PROVE  Promised!Ask(c) \/ UNCHANGED Promised!serviceVars
<1>1. PlaceInv /\ TypeOK /\ TokensInOrder /\ Framed(c)
  BY DEF Shown, Settling, PlaceInv, IInv, FramedScripts
<1>2. PICK L \in Nat : L = Len(Script[c])
  BY <1>1, CutsType
<1>3. PICK m \in 0 .. L - 1 : m = Issued(c)
  BY <1>1, <1>2, CutsType, SendMovesCut
<1>4. Issued(c)' = m + 1 /\ \A d \in Clients : d # c => unsent'[d] = unsent[d]
  BY <1>1, <1>3, SendMovesCut
<1>5. /\ FullySent(c) = NumAt(c, m + 1) - 1 /\ FullySent(c) \in Nat
  BY <1>1, <1>2, <1>3, AskedByScript
<1>6. /\ FullySent(c)' = IF m + 1 = L THEN Asked(c) ELSE NumAt(c, m + 2) - 1
      /\ FullySent(c)' <= Asked(c)
  <2>1. PlaceInv'
    BY DEF Shown, Settling
  <2>2. AskedRight'
    BY <2>1, AskedAlways, PTL
  <2>3. /\ FullySent(c)' = IF Issued(c)' = L THEN Asked(c) ELSE (NumAt(c, Issued(c) + 1) - 1)'
        /\ FullySent(c)' <= Asked(c)
    BY <1>2, <2>2 DEF AskedRight, AskedFor, Asked
  <2>4. NumAt(c, Issued(c) + 1)' = NumAt(c, (m + 1) + 1)
    BY <1>4 DEF NumAt
  <2>5. (m + 1) + 1 = m + 2
    OBVIOUS
  <2> QED
    BY <1>4, <2>3, <2>4, <2>5
<1>7. /\ NumAt(c, m + 1) \in Nat /\ Asked(c) = NumAt(c, L) /\ Asked(c) \in Nat
      /\ m + 1 # L => NumAt(c, m + 2) \in NumAt(c, m + 1) .. NumAt(c, m + 1) + 1
  <2>1. m + 1 \in 0 .. Len(Script[c])
    BY <1>2
  <2>2. ASSUME m + 1 # L
        PROVE  NumAt(c, m + 2) \in NumAt(c, m + 1) .. NumAt(c, m + 1) + 1
    <3>1. m + 2 \in 0 .. Len(Script[c]) /\ m + 1 <= m + 2 /\ m + 2 \in 1 .. Len(Script[c])
      BY <1>2, <2>2
    <3>2. NumAt(c, m + 2) \in Nat /\ NumAt(c, m + 1) <= NumAt(c, m + 2)
          /\ NumAt(c, m + 1) \in Nat
      BY <1>1, <2>1, <3>1, NumbersGrow
    <3>3. NumAt(c, m + 2) <= NumAt(c, m + 1) + 1
      <4>1. m + 2 \in DOMAIN Script[c]
        BY <1>1, <3>1, CutsType
      <4>2. Script[c][m + 2].no <= NumAt(c, (m + 2) - 1) + 1
        BY <1>1, <4>1 DEF Framed
      <4>3. (m + 2) - 1 = m + 1 /\ m + 2 # 0
        OBVIOUS
      <4>4. NumAt(c, m + 2) = Script[c][m + 2].no
        BY <4>3 DEF NumAt
      <4> QED
        BY <4>2, <4>3, <4>4
    <3> QED
      BY <3>2, <3>3
  <2> QED
    BY <1>1, <1>2, <2>1, <2>2, NumbersGrow, AskedType
<1>8. PICK a \in Nat, b \in Nat : a = FullySent(c) /\ b = FullySent(c)'
  BY <1>5, <1>6, <1>7
<1>9. b = a \/ b = a + 1
  BY <1>5, <1>6, <1>7, <1>8
<1>10. \A d \in Clients : d # c => FullySent(d)' = FullySent(d)
  BY <1>4 DEF FullySent, Asked
<1>11. got' = got
  BY DEF Send
<1>12. \A d \in Clients : AnsweredTo(d)' = AnsweredTo(d) /\ PartSent(d)' = PartSent(d)
  BY <1>11, AnswersFixed
<1>13. CASE b = a
  <2>1. \A d \in Clients : FullySent(d)' = FullySent(d)
    BY <1>8, <1>10, <1>13
  <2> QED
    BY <1>12, <2>1 DEF Promised!serviceVars
<1>14. CASE b = a + 1
  <2>1. Len(AnsweredTo(c)) >= a
    <3>1. Received(c) >= Head(unsent[c]).no - 1
      BY DEF Send, AllWait
    <3>2. FullySent(c) = Head(unsent[c]).no - 1
      BY DEF Send, FullySent
    <3>3. Received(c) \in Nat /\ Received(c) <= Answered(c) /\ Answered(c) \in Nat
      BY <1>1, AnsweredType
    <3>4. Len(AnsweredTo(c)) = Answered(c)
      BY ShownLength
    <3> QED
      BY <1>8, <3>1, <3>2, <3>3, <3>4
  <2>2. Len([k \in 1 .. Asked(c) |-> Sent(c, k)]) = Asked(c) /\ a < Asked(c)
    BY <1>6, <1>7, <1>8, <1>14
  <2>3. FullySent(c) = a /\ FullySent(c)' = a + 1 /\ Len(AnsweredTo(c)) \in Nat
    BY <1>8, <1>14, ShownLength
  <2>4. ~Promised!Waiting(c)
    BY <2>1, <2>3 DEF Promised!Waiting
  <2>5. [d \in Clients |-> FullySent(d)]' =
          [[d \in Clients |-> FullySent(d)] EXCEPT ![c] = a + 1]
    BY <1>10, <2>3
  <2> QED
    BY <1>12, <2>2, <2>3, <2>4, <2>5 DEF Promised!Ask
<1> QED
  BY <1>9, <1>13, <1>14

\* One answer more is the one to the next request.
LEMMA AppendNext ==
    ASSUME NEW c, NEW n \in Nat
    PROVE  Append([k \in 1 .. n |-> Sent(c, k)], Sent(c, n + 1)) = [k \in 1 .. n + 1 |-> Sent(c, k)]
<1> DEFINE s == [k \in 1 .. n |-> Sent(c, k)]
           t == [k \in 1 .. n + 1 |-> Sent(c, k)]
           R == {Sent(c, k) : k \in 1 .. n + 1}
<1>1. s \in Seq(R) /\ Len(s) = n
  OBVIOUS
<1>2. t \in Seq(R) /\ Len(t) = n + 1
  OBVIOUS
<1>3. Sent(c, n + 1) \in R
  OBVIOUS
<1>4. \A k \in 1 .. n : s[k] = Sent(c, k) /\ t[k] = Sent(c, k)
  OBVIOUS
<1>5. t[n + 1] = Sent(c, n + 1)
  OBVIOUS
<1> HIDE DEF s, t, R
<1>6. /\ Append(s, Sent(c, n + 1)) \in Seq(R) /\ Len(Append(s, Sent(c, n + 1))) = n + 1
      /\ \A k \in 1 .. n : Append(s, Sent(c, n + 1))[k] = s[k]
      /\ Append(s, Sent(c, n + 1))[n + 1] = Sent(c, n + 1)
  BY <1>1, <1>3, AppendProperties
<1>7. \A k \in 1 .. n + 1 : Append(s, Sent(c, n + 1))[k] = t[k]
  BY <1>4, <1>5, <1>6
<1>8. Append(s, Sent(c, n + 1)) = t
  BY <1>2, <1>6, <1>7, SeqEqual
<1> QED
  BY <1>8 DEF s, t

\* A write is a part of the answer to a request that was sent to the end, or makes that
\* answer whole.
LEMMA WriteShows ==
    ASSUME FramedScripts, Shown, Shown', NEW i, WriteSome(i)
    PROVE  \E c \in Clients : Promised!AnswerPart(c) \/ Promised!AnswerWhole(c)
<1>1. PlaceInv /\ IInv /\ TypeOK /\ TokensInOrder /\ ShadowsIdle /\ EntriesFit
  BY DEF Shown, Settling, Settled, AllFits, PlaceInv, IInv
<1>2. PICK p \in Entry, c \in Clients, n \in Nat, e \in Entry :
        /\ p = procs[i] /\ c = file[p.fd] /\ p.ready /\ Writer(i) /\ i \in DOMAIN procs
        /\ Written(i, n, e)
  BY <1>1, WriteEffect
<1>3. Serves(c, p)
  <2>1. Oldest(i)
    BY <1>1, <1>2, ServesOldest
  <2> QED
    BY <1>1, <1>2, <2>1 DEF EntriesFit
<1>4. PICK b \in 0 .. Len(Script[c]) : Answering(c, p, b)
  BY <1>2, <1>3 DEF Serves
<1>5. Framed(c)
  BY DEF FramedScripts
<1>6. PICK a \in Nat : a = Answered(c)
  BY <1>1, AnsweredType
<1>7. FullySent(c) = a + 1 /\ a + 1 <= Asked(c) /\ Asked(c) \in Nat
  <2>1. FullySent(c) = NumAt(c, Issued(c)) /\ FullySent(c) <= Asked(c)
    BY <1>1, <1>4, <1>5, AskedByScript DEF Answering
  <2>2. NumAt(c, Issued(c)) = a + 1
    BY <1>4, <1>6 DEF Answering
  <2> QED
    BY <2>1, <2>2, AskedType
<1>8. Len(AnsweredTo(c)) = a /\ AnsweredTo(c) = [k \in 1 .. a |-> Sent(c, k)]
  BY <1>6, ShownLength, ShownAnswers DEF AnswersRight
<1>9. Promised!Waiting(c)
  BY <1>7, <1>8 DEF Promised!Waiting
<1> DEFINE q == [res |-> p.res, from |-> p.sent, upto |-> p.sent + n]
<1>10. q \in Piece /\ got' = [got EXCEPT ![c] = Append(got[c], q)]
  BY <1>2 DEF Piece, Entry, Written
<1> HIDE DEF q
<1>11. PICK k \in Nat : k = Len(got[c])
  BY <1>1, AnsweredType, LenProperties
<1>12. Longer(c, k, q)
  BY <1>1, <1>10, <1>11, WriteCounts
<1>13. /\ Answered(c)' = a + IF EndsAnswer(q) THEN 1 ELSE 0
       /\ \A d \in Clients : d # c => got'[d] = got[d]
       /\ PartSent(c)' = ~EndsAnswer(q)
  <2>1. Len(got'[c]) = k + 1 /\ got'[c][k + 1] = q
    BY <1>12 DEF Longer
  <2>2. got'[c] # <<>> /\ Last(got'[c]) = q
    BY <2>1 DEF Last
  <2> QED
    BY <1>6, <1>12, <2>2 DEF Longer, PartSent, EndsAnswer
<1>14. \A d \in Clients : d # c => AnsweredTo(d)' = AnsweredTo(d) /\ PartSent(d)' = PartSent(d)
  BY <1>13, AnswersFixed
<1>15. \A d \in Clients : FullySent(d)' = FullySent(d)
  BY DEF WriteSome, FullySent, Asked
<1>16. AnsweredTo(c)' = [j \in 1 .. Answered(c)' |-> Sent(c, j)]
  <2>1. Shown'
    OBVIOUS
  <2>2. AnswersRight'
    BY <2>1, ShownAnswers, PTL
  <2> QED
    BY <2>2 DEF AnswersRight
<1>17. CASE EndsAnswer(q)
  <2>1. AnsweredTo(c)' = Append(AnsweredTo(c), Sent(c, a + 1))
    BY <1>8, <1>13, <1>16, <1>17, AppendNext
  <2>2. [j \in 1 .. Asked(c) |-> Sent(c, j)][Len(AnsweredTo(c)) + 1] = Sent(c, a + 1)
    BY <1>7, <1>8
  <2>3. PartSent(c)' = FALSE
    BY <1>13, <1>17
  <2>4. Promised!AnswerWhole(c)
    BY <1>9, <1>14, <1>15, <2>1, <2>2, <2>3 DEF Promised!AnswerWhole
  <2> QED
    BY <2>4
<1>18. CASE ~EndsAnswer(q)
  <2>1. AnsweredTo(c)' = AnsweredTo(c)
    BY <1>8, <1>13, <1>16, <1>18
  <2>2. PartSent(c)' = TRUE
    BY <1>13, <1>18
  <2>3. Promised!AnswerPart(c)
    BY <1>9, <1>14, <1>15, <2>1, <2>2 DEF Promised!AnswerPart
  <2> QED
    BY <2>3
<1> QED
  BY <1>17, <1>18

LEMMA ShownStep ==
    ASSUME FramedScripts, AllWait, AllStay
    PROVE  Shown /\ [Next]_vars => Shown'
<1> SUFFICES ASSUME Shown, [Next]_vars PROVE Shown'
  OBVIOUS
<1>1. Settling'
  BY SettlingStep DEF Shown
<1>2. PlaceInv /\ IInv /\ TypeOK
  BY DEF Shown, Settling, PlaceInv, IInv
<1>3. \A c \in Clients : Counted(c)
  BY DEF Shown, AnswersCounted
<1>4. CASE got' = got
  BY <1>1, <1>3, <1>4, CountedStays DEF Shown, AnswersCounted
<1>5. ASSUME NEW i, WriteSome(i)
      PROVE  AnswersCounted'
  <2>1. PICK p \in Entry, c \in Clients, n \in Nat, e \in Entry :
          p = procs[i] /\ c = file[p.fd] /\ Written(i, n, e)
    BY <1>2, <1>5, WriteEffect
  <2> DEFINE q == [res |-> p.res, from |-> p.sent, upto |-> p.sent + n]
  <2>2. q \in Piece /\ got' = [got EXCEPT ![c] = Append(got[c], q)]
    BY <2>1 DEF Piece, Entry, Written
  <2> HIDE DEF q
  <2>3. PICK k \in Nat : k = Len(got[c])
    BY <1>2, AnsweredType, LenProperties
  <2>4. Longer(c, k, q)
    BY <1>2, <2>2, <2>3, WriteCounts
  <2>5. Counted(c)'
    BY <1>2, <1>3, <2>3, <2>4, CountedGrows
  <2>6. \A d \in Clients : d # c => Counted(d)'
    BY <1>3, <2>4, CountedStays DEF Longer
  <2> QED
    BY <2>5, <2>6 DEF AnswersCounted
<1>6. ASSUME NEW c \in Clients, Send(c)
      PROVE  got' = got
  BY <1>6 DEF Send
<1> QED
  BY <1>1, <1>4, <1>5, <1>6, StepKind DEF Shown

\* At the start nothing was asked and nothing answered.
LEMMA InitShows ==
    ASSUME FramedScripts
    PROVE  Init => Shown /\ Promised!ServiceInit
<1> SUFFICES ASSUME Init PROVE Shown /\ Promised!ServiceInit
  OBVIOUS
<1>1. Settling /\ PlaceInv /\ TypeOK /\ TokensInOrder
  BY InitPlaces, InitFits DEF Settling, Settled, NoneLeftEarly, Init, SocketsInit, PlaceInv,
                             IInv
<1>2. \A c \in Clients : Answered(c) = 0 /\ got[c] = <<>> /\ unsent[c] = Script[c]
  BY <1>1, AnsweredType DEF Init, SocketsInit
<1>3. AnswersCounted
  BY <1>2 DEF AnswersCounted, Counted
<1>4. ASSUME NEW c \in Clients
      PROVE  FullySent(c) = 0
  <2>1. Issued(c) = 0 /\ Len(Script[c]) \in Nat
    BY <1>1, <1>2, CutsType DEF Issued
  <2>2. Boundary(c, Issued(c)) /\ NumAt(c, Issued(c)) = 0
    BY <2>1 DEF Boundary, NumAt
  <2> QED
    BY <1>1, <2>2, AskedByScript DEF FramedScripts
<1>5. ASSUME NEW c \in Clients
      PROVE  AnsweredTo(c) = <<>> /\ PartSent(c) = FALSE
  <2>1. Len(AnsweredTo(c)) = 0 /\ AnsweredTo(c) = [k \in 1 .. 0 |-> Sent(c, k)]
    BY <1>1, <1>2, <1>3, ShownLength, ShownAnswers DEF Shown, AnswersRight
  <2>2. AnsweredTo(c) = <<>>
    BY <2>1
  <2> QED
    BY <1>2, <2>2 DEF PartSent
<1> QED
  BY <1>1, <1>3, <1>4, <1>5 DEF Shown, Promised!ServiceInit

\* To clients that wait for their answers and stay until they have them the loop is
\* Service: what shows of every step is that a request was asked, that a part of the
\* next answer was sent, that it was sent whole, or nothing.
THEOREM LoopIsService ==
    ASSUME FramedScripts, AllWait, AllStay
    PROVE  Spec => Promised!ServiceSafety
<1>1. Init => Shown /\ Promised!ServiceInit
  BY InitShows
<1>2. Shown /\ [Next]_vars => Shown'
  BY ShownStep
<1>3. Shown /\ Shown' /\ [Next]_vars => [Promised!ServiceNext]_(Promised!serviceVars)
  <2> SUFFICES ASSUME Shown, Shown', [Next]_vars
               PROVE  Promised!ServiceNext \/ UNCHANGED Promised!serviceVars
    OBVIOUS
  <2>1. CASE \E i : WriteSome(i)
    BY <2>1, WriteShows DEF Promised!ServiceNext
  <2>2. CASE \E c \in Clients : Send(c)
    BY <2>2, SendAsks DEF Promised!ServiceNext
  <2>3. CASE UNCHANGED <<got, unsent>>
    BY <2>3, QuietUnseen
  <2> QED
    BY <2>1, <2>2, <2>3, StepKind
<1> QED
  BY <1>1, <1>2, <1>3, PTL DEF Spec, Promised!ServiceSafety
=============================================================================
