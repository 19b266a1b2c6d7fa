---------------------------- MODULE ParserProofs ----------------------------
(***************************************************************************)
(* What holds of ConfigParser for every set of files, whatever the memory  *)
(* behind a file's last word holds: the blocks keep their shape, no word   *)
(* is lost or read for another directive, and the end of the file is       *)
(* passed only in a file that leaves something open.                       *)
(***************************************************************************)
EXTENDS ConfigParser, SequenceTheorems, FiniteSetTheorems, WellFoundedInduction, TLAPS

---------------------------------------------------------------------------
(* FlattenSeq                                                              *)

\* A set of numbers that is not empty has a least one.
LEMMA LeastOf ==
    ASSUME NEW T, T \subseteq Nat, T # {}
    PROVE  \E m \in T : \A k \in Nat : k < m => k \notin T
<1> DEFINE Less == {ss \in Nat \X Nat : ss[1] < ss[2]}
<1>1. IsWellFoundedOn(Less, Nat)
  <2>1. OpToRel(<, Nat) = Less
    BY DEF OpToRel
  <2> QED
    BY <2>1, NatLessThanWellFounded
<1>2. PICK m \in T : \A y \in T : ~(<<y, m>> \in Less)
  <2> HIDE DEF Less
  <2> QED
    BY <1>1, WFMin
<1>3. ASSUME NEW k \in Nat, k < m, k \in T
      PROVE  FALSE
  <2>1. m \in Nat /\ <<k, m>> \in Less
    BY <1>3
  <2> QED
    BY <1>2, <1>3, <2>1
<1> QED
  BY <1>3

\* f[i] is the concatenation of the first i sequences of s, for i up to n.
Flat(s, n, f) ==
    f = [i \in 1 .. n |-> IF i = 1 THEN s[i] ELSE f[i-1] \o s[i]]

LEMMA FlatAt ==
    ASSUME NEW s, NEW n, NEW f, Flat(s, n, f), NEW i \in 1 .. n
    PROVE  f[i] = IF i = 1 THEN s[i] ELSE f[i-1] \o s[i]
  BY Zenon DEF Flat

\* One more sequence: one more concatenation.
LEMMA FlatNext ==
    ASSUME NEW S, NEW s \in Seq(Seq(S)), NEW n \in 1 .. Len(s),
           NEW f \in [1 .. n - 1 -> Seq(S)], Flat(s, n - 1, f)
    PROVE  \E g \in [1 .. n -> Seq(S)] : Flat(s, n, g)
<1> DEFINE next == IF n = 1 THEN s[n] ELSE f[n-1] \o s[n]
           g == [i \in 1 .. n |-> IF i = n THEN next ELSE f[i]]
<1>1. s[n] \in Seq(S)
  BY ElementOfSeq
<1>2. next \in Seq(S)
  <2>1. CASE n = 1
    BY <1>1, <2>1
  <2>2. CASE n # 1
    <3>1. n - 1 \in 1 .. n - 1
      BY <2>2
    <3>2. f[n-1] \in Seq(S)
      BY <3>1
    <3> QED
      BY <1>1, <2>2, <3>2, ConcatProperties
  <2> QED
    BY <2>1, <2>2
<1> HIDE DEF next
<1>3. g \in [1 .. n -> Seq(S)]
  <2>1. ASSUME NEW i \in 1 .. n, i # n
        PROVE  f[i] \in Seq(S)
    <3>1. i \in 1 .. n - 1
      BY <2>1
    <3> QED
      BY <3>1
  <2> QED
    BY <1>2, <2>1
<1>4. ASSUME NEW i \in 1 .. n
      PROVE  g[i] = IF i = 1 THEN s[i] ELSE g[i-1] \o s[i]
  <2>1. CASE i = n
    <3>1. i # 1 => i - 1 \in 1 .. n - 1 /\ i - 1 # n
      BY <2>1
    <3>2. i # 1 => g[i-1] = f[i-1]
      BY <3>1
    <3> QED
      BY <2>1, <3>2 DEF next
  <2>2. CASE i # n
    <3>1. i \in 1 .. n - 1 /\ (i # 1 => i - 1 \in 1 .. n /\ i - 1 # n)
      BY <2>2
    <3>2. f[i] = IF i = 1 THEN s[i] ELSE f[i-1] \o s[i]
      BY <3>1 DEF Flat
    <3>3. i # 1 => g[i-1] = f[i-1]
      BY <3>1
    <3> QED
      BY <2>2, <3>2, <3>3
  <2> QED
    BY <2>1, <2>2
<1>5. Flat(s, n, g)
  <2> SUFFICES g = [i \in 1 .. n |-> IF i = 1 THEN s[i] ELSE g[i-1] \o s[i]]
    BY DEF Flat
  <2>1. g = [i \in 1 .. n |-> g[i]]
    OBVIOUS
  <2> HIDE DEF g
  <2> QED
    BY <1>4, <2>1, Zenon
<1> QED
  BY <1>3, <1>5

\* There is such a function.
LEMMA FlatExists ==
    ASSUME NEW S, NEW s \in Seq(Seq(S))
    PROVE  \E f \in [1 .. Len(s) -> Seq(S)] : Flat(s, Len(s), f)
<1> DEFINE None == {n \in 0 .. Len(s) : ~\E f \in [1 .. n -> Seq(S)] : Flat(s, n, f)}
<1>1. CASE None = {}
  <2>1. Len(s) \in 0 .. Len(s)
    BY LenProperties
  <2> QED
    BY <1>1, <2>1
<1>2. CASE None # {}
  <2>1. None \subseteq Nat
    OBVIOUS
  <2>2. PICK m \in None : \A k \in Nat : k < m => k \notin None
    <3> HIDE DEF None
    <3> QED
      BY <1>2, <2>1, LeastOf
  <2>3. m # 0
    <3>1. [i \in 1 .. 0 |-> <<>>] \in [1 .. 0 -> Seq(S)]
      OBVIOUS
    <3>2. Flat(s, 0, [i \in 1 .. 0 |-> <<>>])
      BY DEF Flat
    <3> QED
      BY <3>1, <3>2, <2>2
  <2>4. m \in 1 .. Len(s) /\ m - 1 \in Nat /\ m - 1 < m /\ m - 1 \in 0 .. Len(s)
    BY <2>3, LenProperties
  <2>5. PICK f \in [1 .. m - 1 -> Seq(S)] : Flat(s, m - 1, f)
    BY <2>2, <2>4
  <2> QED
    BY <2>2, <2>4, <2>5, FlatNext
<1> QED
  BY <1>1, <1>2

\* And no other.
LEMMA FlatUnique ==
    ASSUME NEW s, NEW n \in Nat, NEW f, NEW g, Flat(s, n, f), Flat(s, n, g)
    PROVE  f = g
<1> DEFINE Differ == {i \in 1 .. n : f[i] # g[i]}
<1>0. f = [i \in 1 .. n |-> f[i]] /\ g = [i \in 1 .. n |-> g[i]]
  BY DEF Flat
<1>1. CASE Differ = {}
  BY <1>0, <1>1
<1>2. CASE Differ # {}
  <2>1. Differ \subseteq Nat
    OBVIOUS
  <2>2. PICK m \in Differ : \A k \in Nat : k < m => k \notin Differ
    <3> HIDE DEF Differ
    <3> QED
      BY <1>2, <2>1, LeastOf
  <2>3. /\ f[m] = IF m = 1 THEN s[m] ELSE f[m-1] \o s[m]
        /\ g[m] = IF m = 1 THEN s[m] ELSE g[m-1] \o s[m]
    BY Zenon DEF Flat
  <2>4. m # 1 => m - 1 \in 1 .. n /\ m - 1 < m
    OBVIOUS
  <2>5. m # 1 => f[m-1] = g[m-1]
    BY <2>2, <2>4
  <2> QED
    BY <2>3, <2>5
<1> QED
  BY <1>1, <1>2

\* FlattenSeq is what that function says.
LEMMA FlattenIs ==
    ASSUME NEW s, Len(s) \in Nat \ {0}, NEW f, Flat(s, Len(s), f)
    PROVE  FlattenSeq(s) = f[Len(s)]
<1> DEFINE h == CHOOSE g : Flat(s, Len(s), g)
<1>1. FlattenSeq(s) = h[Len(s)]
  BY Zenon DEF FlattenSeq, Flat
<1>2. Flat(s, Len(s), h)
  BY Zenon
<1>3. h = f
  <2> HIDE DEF h
  <2> QED
    BY <1>2, FlatUnique
<1> QED
  BY <1>1, <1>3

\* What FlattenSeq makes of one sequence more.
LEMMA FlattenAppend ==
    ASSUME NEW S, NEW s \in Seq(Seq(S)), NEW e \in Seq(S)
    PROVE  /\ FlattenSeq(s) \in Seq(S)
           /\ FlattenSeq(Append(s, e)) = FlattenSeq(s) \o e
<1> DEFINE t == Append(s, e)
           n == Len(s)
<1>1. /\ t \in Seq(Seq(S)) /\ Len(t) = n + 1 /\ n \in Nat
      /\ \A i \in 1 .. n : t[i] = s[i]
      /\ t[n + 1] = e
  BY AppendProperties, LenProperties
<1> HIDE DEF t
<1>2. PICK f \in [1 .. n + 1 -> Seq(S)] : Flat(t, n + 1, f)
  BY <1>1, FlatExists
<1>3. FlattenSeq(t) = f[n + 1]
  BY <1>1, <1>2, FlattenIs
<1>4. f[n + 1] = IF n = 0 THEN e ELSE f[n] \o e
  <2>1. PICK m : m = n + 1
    OBVIOUS
  <2>2. m \in 1 .. m /\ (m = 1 <=> n = 0) /\ m - 1 = n
    BY <1>1, <2>1
  <2>3. Flat(t, m, f)
    BY <1>2, <2>1
  <2>4. f[m] = IF m = 1 THEN t[m] ELSE f[m-1] \o t[m]
    BY <2>2, <2>3, Zenon DEF Flat
  <2> QED
    BY <1>1, <2>1, <2>2, <2>4
<1>5. CASE n = 0
  <2>1. FlattenSeq(s) = <<>> /\ s = <<>>
    BY <1>5, EmptySeq DEF FlattenSeq
  <2> QED
    BY <1>3, <1>4, <1>5, <2>1, ConcatEmptySeq DEF t
<1>6. CASE n # 0
  <2> DEFINE g == [i \in 1 .. n |-> f[i]]
  <2>1. ASSUME NEW i \in 1 .. n
        PROVE  g[i] = IF i = 1 THEN s[i] ELSE g[i-1] \o s[i]
    <3>1. i \in 1 .. n + 1 /\ (i # 1 => i - 1 \in 1 .. n)
      BY <1>1
    <3>2. f[i] = IF i = 1 THEN t[i] ELSE f[i-1] \o t[i]
      BY <1>2, <3>1, Zenon DEF Flat
    <3> QED
      BY <1>1, <3>1, <3>2
  <2>2. Flat(s, n, g)
    <3>1. g = [i \in 1 .. n |-> g[i]]
      OBVIOUS
    <3> HIDE DEF g
    <3> QED
      BY <2>1, <3>1, Zenon DEF Flat
  <2>3. n \in 1 .. n /\ n \in 1 .. n + 1
    BY <1>1, <1>6
  <2>4. FlattenSeq(s) = f[n]
    <3>1. g[n] = f[n]
      BY <2>3
    <3> HIDE DEF g
    <3> QED
      BY <1>1, <1>6, <2>2, <3>1, FlattenIs
  <2> QED
    BY <1>3, <1>4, <1>6, <2>3, <2>4 DEF t
<1> QED
  BY <1>5, <1>6

---------------------------------------------------------------------------
(* Frames                                                                  *)

\* The words there are; the provers do not know of a literal that it is a string.
Word == STRING \cup {NoWord, "server", "location", "{", "}"}

BlockOk(b) ==
    /\ DOMAIN b \subseteq Seq(Word) /\ <<>> \in DOMAIN b
    /\ \A names \in DOMAIN b :
         /\ DOMAIN b[names] = DOMAIN NewBlock
         /\ names # <<>> => Front(names) \in DOMAIN b

Frames(B) == [kind : {"server", "location"}, block : B, dir : Word, args : Seq(Word),
              inner : Word]

\* A frame, between two words.
FrameOk(f) ==
    /\ \E B : f \in Frames(B)
    /\ f.dir \in Directives[f.kind] \cup {NoWord}
    /\ f.dir = NoWord => f.args = <<>>
    /\ BlockOk(f.block)

LEMMA FrameIs ==
    ASSUME NEW f, FrameOk(f)
    PROVE  /\ f.kind \in {"server", "location"} /\ f.dir \in Word
           /\ f.args \in Seq(Word) /\ f.inner \in Word
           /\ f.dir # NoWord => /\ f.dir \in Directives[f.kind]
                            /\ f.dir \in Common \cup {"server_name", "listen", "alias"}
           /\ BlockOk(f.block)
<1>1. PICK B : f \in Frames(B)
  BY DEF FrameOk
<1>2. /\ f.kind \in {"server", "location"} /\ f.dir \in Word
      /\ f.args \in Seq(Word) /\ f.inner \in Word
  BY <1>1 DEF Frames
<1>3. ASSUME f.dir # NoWord
      PROVE  /\ f.dir \in Directives[f.kind]
             /\ f.dir \in Common \cup {"server_name", "listen", "alias"}
  <2>1. f.dir \in Directives[f.kind]
    BY <1>3 DEF FrameOk
  <2>2. /\ Directives["server"] = Common \cup {"server_name", "listen"}
        /\ Directives["location"] = Common \cup {"alias"}
    BY DEF Directives
  <2> QED
    BY <1>2, <2>1, <2>2
<1> QED
  BY <1>2, <1>3, Zenon DEF FrameOk

\* A frame with other contents.
LEMMA FrameChanged ==
    ASSUME NEW f, FrameOk(f), NEW b, BlockOk(b), NEW dir \in Word,
           dir \in Directives[f.kind] \cup {NoWord},
           NEW args \in Seq(Word), dir = NoWord => args = <<>>, NEW inner \in Word
    PROVE  FrameOk([kind |-> f.kind, block |-> b, dir |-> dir, args |-> args,
                    inner |-> inner])
<1> DEFINE g == [kind |-> f.kind, block |-> b, dir |-> dir, args |-> args,
                 inner |-> inner]
<1>1. /\ g.kind = f.kind /\ g.block = b /\ g.dir = dir /\ g.args = args
      /\ g.inner = inner
  OBVIOUS
<1>2. g \in Frames({b})
  BY FrameIs DEF Frames
<1> HIDE DEF g
<1>3. FrameOk(g)
  BY <1>1, <1>2 DEF FrameOk
<1> QED
  BY <1>3 DEF g

LEMMA FrontIs ==
    ASSUME NEW S, NEW q \in Seq(S), q # <<>>
    PROVE  /\ Front(q) \in Seq(S) /\ Len(Front(q)) = Len(q) - 1
           /\ \A i \in 1 .. Len(q) - 1 : Front(q)[i] = q[i]
<1> DEFINE n == Len(q) - 1
           r == SubSeq(q, 1, n)
<1>1. Len(q) \in Nat \ {0} /\ n \in Nat /\ 1 \in Int /\ n \in Int
  BY EmptySeq
<1>2. \A i \in 1 .. n : q[i] \in S
  BY <1>1, ElementOfSeq
<1>3. /\ r \in Seq(S)
      /\ Len(r) = IF 1 <= n THEN n - 1 + 1 ELSE 0
      /\ \A i \in 1 .. n - 1 + 1 : r[i] = q[1 + i - 1]
  <2> HIDE DEF n
  <2> QED
    BY <1>1, <1>2, SubSeqProperties
<1>4. Front(q) = r
  BY DEF Front
<1> HIDE DEF r
<1> QED
  BY <1>1, <1>3, <1>4

LEMMA FrontOfOne ==
    ASSUME NEW S, NEW x \in S, NEW q \in Seq(S)
    PROVE  /\ <<x>> \o q \in Seq(S) /\ <<x>> \o q # <<>>
           /\ (<<x>> \o q)[1] = x
           /\ Tail(<<x>> \o q) = q
           /\ Front(<<x>> \o q) = IF q = <<>> THEN <<>> ELSE <<x>> \o Front(q)
           /\ q # <<>> => Front(q) \in Seq(S)
<1> DEFINE s == <<x>> \o q
<1>1. <<x>> \in Seq(S) /\ Len(<<x>>) = 1 /\ <<x>>[1] = x
  OBVIOUS
<1>2. /\ s \in Seq(S) /\ Len(s) = 1 + Len(q) /\ Len(q) \in Nat
      /\ \A i \in 1 .. 1 + Len(q) : s[i] = IF i <= 1 THEN <<x>>[i] ELSE q[i-1]
  BY <1>1, ConcatProperties, LenProperties
<1> HIDE DEF s
<1>3. s # <<>> /\ s[1] = x
  BY <1>1, <1>2
<1>4. Tail(s) = q
  <2>1. /\ Tail(s) \in Seq(S) /\ Len(Tail(s)) = Len(s) - 1
        /\ \A i \in 1 .. Len(Tail(s)) : Tail(s)[i] = s[i+1]
    BY <1>2, <1>3, HeadTailProperties
  <2>2. ASSUME NEW i \in 1 .. Len(q)
        PROVE  Tail(s)[i] = q[i]
    BY <1>2, <2>1
  <2> QED
    BY <1>2, <2>1, <2>2, SeqEqual
<1>6. CASE q = <<>>
  <2>1. Len(q) = 0
    BY <1>6
  <2>2. Front(s) \in Seq(S) /\ Len(Front(s)) = 0
    BY <1>2, <1>3, <2>1, FrontIs
  <2>3. Front(s) = <<>>
    BY <2>2, EmptySeq
  <2> QED
    BY <1>2, <1>3, <1>4, <1>6, <2>3 DEF s
<1>7. CASE q # <<>>
  <2>1. Len(q) \in Nat \ {0}
    BY <1>7, EmptySeq
  <2>3. /\ Front(q) \in Seq(S) /\ Len(Front(q)) = Len(q) - 1
        /\ \A i \in 1 .. Len(q) - 1 : Front(q)[i] = q[i]
    BY <1>7, FrontIs
  <2>4. /\ Front(s) \in Seq(S) /\ Len(Front(s)) = Len(q)
        /\ \A i \in 1 .. Len(q) : Front(s)[i] = s[i]
    <3>1. Len(s) - 1 = Len(q)
      BY <1>2
    <3>2. /\ Front(s) \in Seq(S) /\ Len(Front(s)) = Len(s) - 1
          /\ \A i \in 1 .. Len(s) - 1 : Front(s)[i] = s[i]
      BY <1>2, <1>3, FrontIs
    <3> QED
      BY <3>1, <3>2
  <2>5. /\ <<x>> \o Front(q) \in Seq(S) /\ Len(<<x>> \o Front(q)) = Len(q)
        /\ \A i \in 1 .. Len(q) :
              (<<x>> \o Front(q))[i] = IF i <= 1 THEN <<x>>[i] ELSE Front(q)[i-1]
    <3>1. /\ <<x>> \o Front(q) \in Seq(S)
          /\ Len(<<x>> \o Front(q)) = Len(<<x>>) + Len(Front(q))
          /\ \A i \in 1 .. Len(<<x>>) + Len(Front(q)) :
              (<<x>> \o Front(q))[i] =
                 IF i <= Len(<<x>>) THEN <<x>>[i] ELSE Front(q)[i - Len(<<x>>)]
      BY <1>1, <2>3, ConcatProperties
    <3> QED
      BY <1>1, <2>1, <2>3, <3>1
  <2>6. ASSUME NEW i \in 1 .. Len(q)
        PROVE  Front(s)[i] = (<<x>> \o Front(q))[i]
    BY <1>1, <1>2, <2>3, <2>4, <2>5
  <2>7. Front(s) = <<x>> \o Front(q)
    BY <2>4, <2>5, <2>6, SeqEqual
  <2> QED
    BY <1>2, <1>3, <1>4, <1>7, <2>3, <2>7 DEF s
<1> QED
  BY <1>6, <1>7

\* A call begins.
LEMMA NewFrame ==
    ASSUME NEW kind \in {"server", "location"}
    PROVE  FrameOk(Frame(kind)) /\ Frame(kind).kind = kind /\ Frame(kind).dir = NoWord
<1> DEFINE b == [names \in {<<>>} |-> NewBlock]
<1>1. DOMAIN b = {<<>>} /\ b[<<>>] = NewBlock
  OBVIOUS
<1>2. BlockOk(b)
  <2> HIDE DEF b
  <2> QED
    BY <1>1, EmptySeq DEF BlockOk
<1> HIDE DEF b
<1> DEFINE f == [kind |-> kind, block |-> b, dir |-> NoWord, args |-> <<>>, inner |-> NoWord]
<1>3. Frame(kind) = f
  BY DEF Frame, b
<1>4. f.kind = kind /\ f.block = b /\ f.dir = NoWord /\ f.args = <<>>
  OBVIOUS
<1>5. f \in Frames({b})
  <2>1. <<>> \in Seq(Word) /\ NoWord \in Word
    BY EmptySeq DEF Word
  <2> QED
    BY <2>1 DEF Frames
<1> HIDE DEF f
<1> QED
  BY <1>2, <1>3, <1>4, <1>5 DEF FrameOk

\* The functions called for a directive add no member to a block.
LEMMA AddedKeeps ==
    ASSUME NEW dir \in Common \cup {"server_name", "listen", "alias"}, NEW b, NEW a
    PROVE  DOMAIN Added(dir, b, a) = DOMAIN b
<1>1. dir \in {"root", "autoindex", "allow_methods", "error_page", "redirect", "index",
               "client_body_buffer_size", "cgi_param", "cgi_pass", "server_name",
               "listen", "alias"}
  BY DEF Common
<1> QED
  BY <1>1 DEF Added

LEMMA CalledOk ==
    ASSUME NEW f, FrameOk(f)
    PROVE  /\ FrameOk(Called(f)) /\ Called(f).dir = NoWord /\ Called(f).kind = f.kind
           /\ Called(f).inner = f.inner
<1>1. CASE f.dir = NoWord
  BY <1>1 DEF Called
<1>2. CASE f.dir # NoWord
  <2> DEFINE b == [f.block EXCEPT ![<<>>] = Added(f.dir, @, f.args)]
  <2>1. Called(f) = [f EXCEPT !.block = b, !.dir = NoWord, !.args = <<>>]
    BY <1>2 DEF Called
  <2>2. BlockOk(b)
    <3>1. BlockOk(f.block)
      BY FrameIs
    <3>2. f.dir \in Common \cup {"server_name", "listen", "alias"}
      BY <1>2, FrameIs
    <3>3. DOMAIN b = DOMAIN f.block
      OBVIOUS
    <3>4. ASSUME NEW names \in DOMAIN b
          PROVE  DOMAIN b[names] = DOMAIN NewBlock
      <4>1. DOMAIN f.block[names] = DOMAIN NewBlock
        BY <3>1, <3>3 DEF BlockOk
      <4>2. CASE names = <<>>
        <5>1. b[names] = Added(f.dir, f.block[names], f.args)
          BY <3>3, <4>2
        <5> HIDE DEF b
        <5>2. DOMAIN Added(f.dir, f.block[names], f.args) = DOMAIN f.block[names]
          BY <3>2, AddedKeeps
        <5> QED
          BY <4>1, <5>1, <5>2
      <4>3. CASE names # <<>>
        BY <3>3, <4>1, <4>3
      <4> QED
        BY <4>2, <4>3
    <3> HIDE DEF b
    <3> QED
      BY <3>1, <3>3, <3>4 DEF BlockOk
  <2> HIDE DEF b
  <2>3. Called(f) = [kind |-> f.kind, block |-> b, dir |-> NoWord, args |-> <<>>,
                     inner |-> f.inner]
    <3>1. PICK B : f \in Frames(B)
      BY DEF FrameOk
    <3> QED
      BY <2>1, <3>1 DEF Frames
  <2>4. <<>> \in Seq(Word) /\ NoWord \in Word /\ f.inner \in Word
    BY FrameIs, EmptySeq DEF Word
  <2>5. FrameOk(Called(f))
    BY <2>2, <2>3, <2>4, FrameChanged
  <2> QED
    BY <2>3, <2>5
<1> QED
  BY <1>1, <1>2

LEMMA DirectiveOk ==
    ASSUME NEW f, FrameOk(f), f.dir = NoWord, NEW w \in Word, w \in Directives[f.kind]
    PROVE  /\ FrameOk([f EXCEPT !.dir = w])
           /\ w # NoWord /\ [f EXCEPT !.dir = w].dir = w /\ [f EXCEPT !.dir = w].args = <<>>
           /\ [f EXCEPT !.dir = w].kind = f.kind
<1>0. PICK B : f \in Frames(B)
  BY DEF FrameOk
<1>1. [f EXCEPT !.dir = w] =
        [kind |-> f.kind, block |-> f.block, dir |-> w, args |-> f.args,
         inner |-> f.inner]
  BY <1>0 DEF Frames
<1>2. f.args = <<>>
  BY DEF FrameOk
<1>3. w # NoWord
  <2>1. /\ Directives["server"] = Common \cup {"server_name", "listen"}
        /\ Directives["location"] = Common \cup {"alias"}
    BY DEF Directives
  <2>2. w \in {"root", "autoindex", "allow_methods", "error_page", "redirect", "index",
               "client_body_buffer_size", "cgi_param", "cgi_pass", "server_name",
               "listen", "alias"}
    BY <2>1, FrameIs DEF Common
  <2>4. w # NoWord
    <3> SUFFICES ASSUME w = NoWord PROVE FALSE
      OBVIOUS
    <3> QED
      BY <2>2, Zenon DEF NoWord
  <2> QED
    BY <2>4
<1>4. FrameOk([kind |-> f.kind, block |-> f.block, dir |-> w, args |-> f.args,
               inner |-> f.inner])
  BY <1>2, <1>3, FrameIs, FrameChanged
<1> QED
  BY <1>1, <1>2, <1>3, <1>4

LEMMA ArgumentOk ==
    ASSUME NEW f, FrameOk(f), f.dir # NoWord, NEW w \in Word
    PROVE  \A g : g = [f EXCEPT !.args = Append(f.args, w)] =>
              /\ FrameOk(g) /\ g.dir = f.dir /\ g.args = Append(f.args, w)
              /\ g.kind = f.kind
<1> DEFINE longer == Append(f.args, w)
           g == [f EXCEPT !.args = longer]
<1>0. PICK B : f \in Frames(B)
  BY DEF FrameOk
<1>1. g = [kind |-> f.kind, block |-> f.block, dir |-> f.dir, args |-> longer,
           inner |-> f.inner]
  <2> HIDE DEF longer
  <2> QED
    BY <1>0 DEF Frames
<1>2. Append(f.args, w) \in Seq(Word)
  BY FrameIs, AppendProperties
<1> HIDE DEF g
<1>3. FrameOk(g) /\ g.dir = f.dir /\ g.args = Append(f.args, w) /\ g.kind = f.kind
  <2>1. FrameOk(g)
    BY <1>1, <1>2, FrameIs, FrameChanged
  <2> QED
    BY <1>1, <2>1
<1> QED
  BY <1>3, Zenon DEF g, longer

Named(f, w) == [f EXCEPT !.inner = w]

LEMMA InnerOk ==
    ASSUME NEW f, FrameOk(f), NEW w \in Word
    PROVE  /\ FrameOk(Named(f, w)) /\ Named(f, w).dir = f.dir
           /\ Named(f, w).inner = w /\ Named(f, w).kind = f.kind
<1> DEFINE g == [f EXCEPT !.inner = w]
<1>0. PICK B : f \in Frames(B)
  BY DEF FrameOk
<1>1. g = [kind |-> f.kind, block |-> f.block, dir |-> f.dir, args |-> f.args,
           inner |-> w]
  BY <1>0 DEF Frames
<1> HIDE DEF g
<1>2. f.dir = NoWord => f.args = <<>>
  BY DEF FrameOk
<1>3. f.dir \in Directives[f.kind] \cup {NoWord}
  BY DEF FrameOk
<1>4. FrameOk(g)
  BY <1>1, <1>2, <1>3, FrameIs, FrameChanged
<1>5. FrameOk(g) /\ g.dir = f.dir /\ g.inner = w /\ g.kind = f.kind
  BY <1>1, <1>4
<1> QED
  BY <1>5 DEF g, Named

\* Storing a location leaves a block whole: what is around any location in it
\* is in it as well.
LEMMA StoringOk ==
    ASSUME NEW f, FrameOk(f), NEW b, BlockOk(b)
    PROVE  /\ FrameOk(Storing(f, b)) /\ Storing(f, b).dir = f.dir
           /\ Storing(f, b).kind = f.kind
<1> DEFINE others == {names \in DOMAIN f.block : names = <<>> \/ names[1] # f.inner}
           moved == {<<f.inner>> \o q : q \in DOMAIN b}
           c == [names \in others \cup moved |->
                    IF names \in others THEN f.block[names] ELSE b[Tail(names)]]
<1>1. Storing(f, b) = [f EXCEPT !.block = c]
  BY DEF Storing
<1>2. BlockOk(f.block) /\ f.inner \in Word
  BY FrameIs
<1>3. ASSUME NEW names \in moved
      PROVE  /\ names \in Seq(Word) /\ Tail(names) \in DOMAIN b
             /\ names # <<>> /\ Front(names) \in others \cup moved
  <2>1. PICK q \in DOMAIN b : names = <<f.inner>> \o q
    OBVIOUS
  <2>2. q \in Seq(Word) /\ (q # <<>> => Front(q) \in DOMAIN b)
    BY DEF BlockOk
  <2>3. /\ names \in Seq(Word) /\ names # <<>> /\ Tail(names) = q
        /\ Front(names) = IF q = <<>> THEN <<>> ELSE <<f.inner>> \o Front(q)
    <3>1. f.inner \in Word /\ q \in Seq(Word)
      BY <1>2, <2>2
    <3> HIDE DEF others, moved, c
    <3>2. /\ <<f.inner>> \o q \in Seq(Word) /\ <<f.inner>> \o q # <<>>
          /\ Tail(<<f.inner>> \o q) = q
          /\ Front(<<f.inner>> \o q) =
                IF q = <<>> THEN <<>> ELSE <<f.inner>> \o Front(q)
      BY <3>1, FrontOfOne
    <3> QED
      BY <2>1, <3>2, Zenon
  <2>4. <<>> \in others
    BY <1>2 DEF BlockOk
  <2>5. q # <<>> => <<f.inner>> \o Front(q) \in moved
    BY <2>2
  <2> HIDE DEF others, moved
  <2> QED
    BY <2>3, <2>4, <2>5
<1>4. ASSUME NEW names \in others
      PROVE  /\ names \in Seq(Word)
             /\ names # <<>> => Front(names) \in others
  <2>1. names \in Seq(Word) /\ (names # <<>> => Front(names) \in DOMAIN f.block)
    BY <1>2 DEF BlockOk
  <2>2. CASE names # <<>>
    <3>1. Front(names) # <<>> => Front(names)[1] = names[1]
      <4>1. /\ Front(names) \in Seq(Word) /\ Len(Front(names)) = Len(names) - 1
            /\ \A i \in 1 .. Len(names) - 1 : Front(names)[i] = names[i]
        BY <2>1, <2>2, FrontIs
      <4>2. Front(names) # <<>> => 1 \in 1 .. Len(names) - 1
        BY <4>1, EmptySeq
      <4> QED
        BY <4>1, <4>2
    <3> QED
      BY <2>1, <2>2, <3>1
  <2> QED
    BY <2>1, <2>2
<1>5. BlockOk(c)
  <2>1. DOMAIN c = others \cup moved
    OBVIOUS
  <2>2. <<>> \in others
    BY <1>2 DEF BlockOk
  <2>3. ASSUME NEW names \in DOMAIN c
        PROVE  DOMAIN c[names] = DOMAIN NewBlock
    <3>1. CASE names \in others
      BY <1>2, <3>1 DEF BlockOk
    <3>2. CASE names \notin others
      <4>1. names \in moved /\ c[names] = b[Tail(names)]
        BY <3>2
      <4>2. Tail(names) \in DOMAIN b
        BY <1>3, <4>1
      <4> QED
        BY <4>1, <4>2 DEF BlockOk
    <3> QED
      BY <3>1, <3>2
  <2>4. ASSUME NEW names \in DOMAIN c
        PROVE  /\ names \in Seq(Word)
               /\ names # <<>> => Front(names) \in DOMAIN c
    <3> HIDE DEF c, others, moved
    <3> QED
      BY <1>3, <1>4, <2>1
  <2> HIDE DEF c, others, moved
  <2> QED
    BY <2>1, <2>2, <2>3, <2>4 DEF BlockOk
<1> HIDE DEF c
<1>6. Storing(f, b) = [kind |-> f.kind, block |-> c, dir |-> f.dir, args |-> f.args,
                       inner |-> f.inner]
  <2>1. PICK B : f \in Frames(B)
    BY DEF FrameOk
  <2> QED
    BY <1>1, <2>1 DEF Frames
<1>7. /\ f.dir = NoWord => f.args = <<>>
      /\ f.dir \in Directives[f.kind] \cup {NoWord}
  BY DEF FrameOk
<1>8. FrameOk([kind |-> f.kind, block |-> c, dir |-> f.dir, args |-> f.args,
               inner |-> f.inner])
  BY <1>5, <1>7, FrameIs, FrameChanged
<1> QED
  BY <1>6, <1>8

---------------------------------------------------------------------------
(* The stack                                                               *)

\* The outermost frame is a server block's; only the innermost one is
\* collecting a directive's words.
StackOk(s) ==
    /\ \E S : s \in Seq(S)
    /\ \A k \in 1 .. Len(s) :
         /\ FrameOk(s[k])
         /\ s[k].kind = "server" <=> k = 1
         /\ k < Len(s) => s[k].dir = NoWord

LEMMA TopIs ==
    ASSUME NEW s, StackOk(s), s # <<>>
    PROVE  /\ Len(s) \in Nat \ {0} /\ DOMAIN s = 1 .. Len(s)
           /\ Last(s) = s[Len(s)] /\ FrameOk(Last(s))
           /\ Last(s).kind = "server" <=> Len(s) = 1
<1>1. PICK S : s \in Seq(S)
  BY DEF StackOk
<1>2. Len(s) \in Nat \ {0} /\ DOMAIN s = 1 .. Len(s)
  BY <1>1, EmptySeq, LenProperties
<1>3. Last(s) = s[Len(s)] /\ Len(s) \in 1 .. Len(s)
  BY <1>2 DEF Last
<1> QED
  BY <1>2, <1>3 DEF StackOk

LEMMA StackSet ==
    ASSUME NEW s, StackOk(s), s # <<>>, NEW f, FrameOk(f), f.kind = Last(s).kind
    PROVE  LET t == [s EXCEPT ![Len(s)] = f]
           IN  StackOk(t) /\ t # <<>> /\ Last(t) = f /\ Len(t) = Len(s)
<1> DEFINE t == [s EXCEPT ![Len(s)] = f]
<1>1. PICK S : s \in Seq(S)
  BY DEF StackOk
<1> DEFINE T == S \cup {f}
<1>2. s \in Seq(T) /\ f \in T
  BY <1>1, SeqMonotonic
<1>3. /\ Len(s) \in Nat \ {0} /\ Len(s) \in 1 .. Len(s)
      /\ Last(s) = s[Len(s)] /\ (Last(s).kind = "server" <=> Len(s) = 1)
  BY TopIs
<1>4. /\ t \in Seq(T) /\ Len(t) = Len(s)
      /\ \A j \in 1 .. Len(s) : t[j] = IF j = Len(s) THEN f ELSE s[j]
  <2> HIDE DEF T
  <2> QED
    BY <1>2, <1>3, ExceptSeq
<1> HIDE DEF t, T
<1>5. t # <<>> /\ Last(t) = f
  BY <1>3, <1>4 DEF Last
<1>6. ASSUME NEW k \in 1 .. Len(t)
      PROVE  /\ FrameOk(t[k])
             /\ t[k].kind = "server" <=> k = 1
             /\ k < Len(t) => t[k].dir = NoWord
  <2>1. CASE k = Len(s)
    BY <1>3, <1>4, <2>1
  <2>2. CASE k # Len(s)
    <3>1. t[k] = s[k] /\ k \in 1 .. Len(s)
      BY <1>4, <2>2
    <3> QED
      BY <1>4, <3>1 DEF StackOk
  <2> QED
    BY <2>1, <2>2
<1>7. StackOk(t)
  BY <1>4, <1>6 DEF StackOk
<1> QED
  BY <1>4, <1>5, <1>7 DEF t

LEMMA StackPush ==
    ASSUME NEW s, StackOk(s), s # <<>>, Last(s).dir = NoWord,
           NEW f, FrameOk(f), f.kind = "location"
    PROVE  LET t == Append(s, f)
           IN  StackOk(t) /\ t # <<>> /\ Last(t) = f /\ Len(t) = Len(s) + 1
<1> DEFINE t == Append(s, f)
<1>1. PICK S : s \in Seq(S)
  BY DEF StackOk
<1> DEFINE T == S \cup {f}
<1>2. s \in Seq(T) /\ f \in T
  BY <1>1, SeqMonotonic
<1>3. Len(s) \in Nat \ {0} /\ Last(s) = s[Len(s)]
  BY TopIs
<1>4. /\ t \in Seq(T) /\ Len(t) = Len(s) + 1
      /\ \A j \in 1 .. Len(s) : t[j] = s[j]
      /\ t[Len(s) + 1] = f
  <2> HIDE DEF T
  <2> QED
    BY <1>2, AppendProperties
<1> HIDE DEF t, T
<1>5. t # <<>> /\ Last(t) = f
  BY <1>3, <1>4 DEF Last
<1>6. ASSUME NEW k \in 1 .. Len(t)
      PROVE  /\ FrameOk(t[k])
             /\ t[k].kind = "server" <=> k = 1
             /\ k < Len(t) => t[k].dir = NoWord
  <2>1. CASE k = Len(s) + 1
    <3>1. t[k] = f /\ k # 1 /\ ~(k < Len(t))
      BY <1>3, <1>4, <2>1
    <3> QED
      BY <3>1
  <2>2. CASE k # Len(s) + 1
    <3>1. t[k] = s[k] /\ k \in 1 .. Len(s) /\ (k < Len(s) \/ k = Len(s))
      BY <1>3, <1>4, <2>2
    <3>2. s[k].dir = NoWord
      BY <1>3, <3>1 DEF StackOk
    <3> QED
      BY <3>1, <3>2 DEF StackOk
  <2> QED
    BY <2>1, <2>2
<1>7. StackOk(t)
  BY <1>4, <1>6 DEF StackOk
<1> QED
  BY <1>4, <1>5, <1>7 DEF t

\* The frame around the innermost one, and what storing a location in it leaves.
LEMMA StackPop ==
    ASSUME NEW s, StackOk(s), s # <<>>, Last(s).kind = "location"
    PROVE  /\ Len(s) - 1 \in Nat \ {0} /\ FrameOk(s[Len(s) - 1])
           /\ s[Len(s) - 1].dir = NoWord
           /\ \A f : FrameOk(f) /\ f.kind = s[Len(s) - 1].kind =>
                LET t == Append(SubSeq(s, 1, Len(s) - 2), f)
                IN  StackOk(t) /\ t # <<>> /\ Last(t) = f /\ Len(t) = Len(s) - 1
<1>1. PICK S : s \in Seq(S)
  BY DEF StackOk
<1>2. Len(s) \in Nat \ {0} /\ Len(s) # 1
  BY TopIs
<1>3. /\ Len(s) - 1 \in Nat \ {0} /\ Len(s) - 1 \in 1 .. Len(s)
      /\ Len(s) - 1 < Len(s)
      /\ Len(s) - 2 \in Nat /\ Len(s) - 2 \in Int /\ Len(s) - 2 + 1 = Len(s) - 1
  <2>1. \A m \in Nat \ {0} : m # 1 =>
            /\ m - 1 \in Nat \ {0} /\ m - 1 \in 1 .. m /\ m - 1 < m
            /\ m - 2 \in Nat /\ m - 2 \in Int /\ m - 2 + 1 = m - 1
    OBVIOUS
  <2> QED
    BY <1>2, <2>1, Zenon
<1>4. FrameOk(s[Len(s) - 1]) /\ s[Len(s) - 1].dir = NoWord
  BY <1>3 DEF StackOk
<1>5. ASSUME NEW f, FrameOk(f), f.kind = s[Len(s) - 1].kind
      PROVE  LET t == Append(SubSeq(s, 1, Len(s) - 2), f)
             IN  StackOk(t) /\ t # <<>> /\ Last(t) = f /\ Len(t) = Len(s) - 1
  <2> DEFINE n == Len(s) - 2
             r == SubSeq(s, 1, n)
             t == Append(r, f)
             T == S \cup {f}
  <2>1. n \in Nat /\ n \in Int /\ 1 \in Int /\ f \in T /\ n + 1 = Len(s) - 1
    BY <1>3
  <2>2. \A i \in 1 .. n : s[i] \in T
    <3>1. ASSUME NEW i \in 1 .. n
          PROVE  s[i] \in T
      <4>1. i \in 1 .. Len(s)
        BY <2>1
      <4> QED
        BY <1>1, <4>1, ElementOfSeq
    <3> QED
      BY <3>1
  <2>3. /\ r \in Seq(T) /\ Len(r) = n
        /\ \A i \in 1 .. n : r[i] = s[i]
    <3>1. /\ r \in Seq(T)
          /\ Len(r) = IF 1 <= n THEN n - 1 + 1 ELSE 0
          /\ \A i \in 1 .. n - 1 + 1 : r[i] = s[1 + i - 1]
      <4> HIDE DEF n, T
      <4> QED
        BY <2>1, <2>2, SubSeqProperties
    <3> HIDE DEF n, r, T
    <3> QED
      BY <2>1, <3>1
  <2> HIDE DEF n, r
  <2>4. /\ t \in Seq(T) /\ Len(t) = n + 1
        /\ \A j \in 1 .. n : t[j] = r[j]
        /\ t[n + 1] = f
    <3> HIDE DEF T
    <3> QED
      BY <2>1, <2>3, AppendProperties
  <2> HIDE DEF t, T
  <2>5. t # <<>> /\ Last(t) = f
    BY <2>1, <2>4 DEF Last
  <2>6. ASSUME NEW k \in 1 .. Len(t)
        PROVE  /\ FrameOk(t[k])
               /\ t[k].kind = "server" <=> k = 1
               /\ k < Len(t) => t[k].dir = NoWord
    <3>1. CASE k = n + 1
      <4>1. t[k] = f /\ k \in 1 .. Len(s) /\ k = Len(s) - 1 /\ ~(k < Len(t))
        <5>1. k = Len(s) - 1 /\ t[k] = f /\ Len(t) = k
          BY <2>1, <2>4, <3>1
        <5>2. k \in 1 .. Len(s) /\ ~(k < k)
          BY <1>3, <5>1
        <5> QED
          BY <5>1, <5>2
      <4>2. f.kind = "server" <=> k = 1
        BY <1>5, <4>1 DEF StackOk
      <4> QED
        BY <1>5, <4>1, <4>2
    <3>2. CASE k # n + 1
      <4>1. t[k] = s[k] /\ k \in 1 .. Len(s) /\ k < Len(s)
        BY <2>1, <2>3, <2>4, <3>2
      <4> QED
        BY <4>1 DEF StackOk
    <3> QED
      BY <3>1, <3>2
  <2>7. StackOk(t)
    BY <2>4, <2>6 DEF StackOk
  <2>8. StackOk(t) /\ t # <<>> /\ Last(t) = f /\ Len(t) = Len(s) - 1
    BY <2>1, <2>4, <2>5, <2>7
  <2> QED
    BY <2>8 DEF t, r, n
<1> QED
  BY <1>3, <1>4, <1>5

LEMMA StackOne ==
    /\ StackOk(<<>>)
    /\ LET t == <<Frame("server")>>
       IN  StackOk(t) /\ t # <<>> /\ Last(t) = Frame("server") /\ Len(t) = 1
<1>1. StackOk(<<>>)
  <2>1. <<>> \in Seq({}) /\ Len(<<>>) = 0
    BY EmptySeq
  <2> QED
    BY <2>1 DEF StackOk
<1> DEFINE f == Frame("server")
           t == <<f>>
<1>2. FrameOk(f) /\ f.kind = "server"
  BY NewFrame
<1> HIDE DEF f
<1>3. t \in Seq({f}) /\ Len(t) = 1 /\ t[1] = f
  OBVIOUS
<1> HIDE DEF t
<1>4. t # <<>> /\ Last(t) = f
  BY <1>3 DEF Last
<1>5. StackOk(t)
  BY <1>2, <1>3 DEF StackOk
<1> QED
  BY <1>1, <1>3, <1>4, <1>5 DEF t, f

---------------------------------------------------------------------------
(* The words behind the log                                                *)

Events == Seq(Word) \ {<<>>}

Accounted(l) == FlattenSeq([k \in DOMAIN l |-> EventWords(l[k])])

LEMMA Tuples ==
    ASSUME NEW S, NEW x \in S, NEW y \in S
    PROVE  /\ <<x>> \in Seq(S) /\ <<x>> # <<>> /\ <<x>>[1] = x
           /\ <<x, y>> \in Seq(S) /\ <<x, y>> # <<>> /\ <<x, y>>[1] = x
           /\ <<x, y>> = Append(<<x>>, y) /\ <<x, y>> = <<x>> \o <<y>>
<1>1. <<x>> \in Seq(S) /\ <<x>> # <<>> /\ <<x>>[1] = x
  OBVIOUS
<1>2. <<x, y>> \in Seq(S) /\ <<x, y>> # <<>> /\ <<x, y>>[1] = x
  OBVIOUS
<1>3. <<x, y>> = Append(<<x>>, y)
  OBVIOUS
<1>4. Append(<<x>>, y) = <<x>> \o <<y>>
  OBVIOUS
<1> QED
  BY <1>1, <1>2, <1>3, <1>4

LEMMA EventWordsOk ==
    ASSUME NEW e \in Events
    PROVE  EventWords(e) \in Seq(Word)
<1>1. "server" \in Word /\ "{" \in Word
  BY DEF Word
<1>2. <<"server", "{">> \in Seq(Word) /\ Append(e, "{") \in Seq(Word)
  <2>1. <<"server", "{">> \in Seq(Word)
    BY <1>1, Tuples
  <2>2. e \in Seq(Word)
    BY DEF Events
  <2> QED
    BY <1>1, <2>1, <2>2, AppendProperties
<1>3. EventWords(e) \in {<<"server", "{">>, Append(e, "{"), e}
  BY DEF EventWords
<1> QED
  BY <1>2, <1>3 DEF Events

\* The words of one event more.
LEMMA AccountedAppend ==
    ASSUME NEW l \in Seq(Events), NEW e \in Events
    PROVE  /\ Accounted(l) \in Seq(Word)
           /\ Append(l, e) \in Seq(Events)
           /\ Accounted(Append(l, e)) = Accounted(l) \o EventWords(e)
<1> DEFINE m == Append(l, e)
           s == [k \in DOMAIN l |-> EventWords(l[k])]
           t == [k \in DOMAIN m |-> EventWords(m[k])]
           n == Len(l)
<1>1. /\ m \in Seq(Events) /\ Len(m) = n + 1 /\ n \in Nat
      /\ \A i \in 1 .. n : m[i] = l[i]
      /\ m[n + 1] = e
      /\ DOMAIN l = 1 .. n /\ DOMAIN m = 1 .. n + 1
  BY AppendProperties, LenProperties
<1> HIDE DEF m
<1>2. s \in Seq(Seq(Word)) /\ Len(s) = n /\ \A i \in 1 .. n : s[i] = EventWords(l[i])
  <2>1. \A i \in 1 .. n : EventWords(l[i]) \in Seq(Word)
    BY ElementOfSeq, EventWordsOk
  <2>2. s = [k \in 1 .. n |-> EventWords(l[k])]
    BY <1>1
  <2>3. s \in [1 .. n -> Seq(Word)]
    BY <2>1, <2>2
  <2> HIDE DEF s
  <2> QED
    BY <1>1, <2>2, <2>3
<1>3. t \in Seq(Seq(Word)) /\ Len(t) = n + 1
      /\ \A i \in 1 .. n + 1 : t[i] = EventWords(m[i])
  <2>1. \A i \in 1 .. n + 1 : EventWords(m[i]) \in Seq(Word)
    BY <1>1, ElementOfSeq, EventWordsOk
  <2>2. t = [k \in 1 .. n + 1 |-> EventWords(m[k])]
    BY <1>1
  <2>3. t \in [1 .. n + 1 -> Seq(Word)]
    BY <2>1, <2>2
  <2> HIDE DEF t
  <2> QED
    BY <1>1, <2>2, <2>3
<1> HIDE DEF s, t
<1>4. EventWords(e) \in Seq(Word)
  BY EventWordsOk
<1> DEFINE u == Append(s, EventWords(e))
<1>5. /\ u \in Seq(Seq(Word)) /\ Len(u) = n + 1
      /\ \A i \in 1 .. n : u[i] = s[i]
      /\ u[n + 1] = EventWords(e)
  BY <1>2, <1>4, AppendProperties
<1> HIDE DEF u
<1>6. t = u
  <2>1. ASSUME NEW i \in 1 .. n + 1
        PROVE  t[i] = u[i]
    <3>1. CASE i = n + 1
      BY <1>1, <1>3, <1>5, <3>1
    <3>2. CASE i # n + 1
      <4>1. i \in 1 .. n
        BY <1>1, <3>2
      <4> QED
        BY <1>1, <1>2, <1>3, <1>5, <4>1
    <3> QED
      BY <3>1, <3>2
  <2> QED
    BY <1>1, <1>3, <1>5, <2>1, SeqEqual
<1>7. FlattenSeq(s) \in Seq(Word) /\ FlattenSeq(u) = FlattenSeq(s) \o EventWords(e)
  BY <1>2, <1>4, FlattenAppend DEF u
<1>8. Accounted(l) = FlattenSeq(s) /\ Accounted(m) = FlattenSeq(t)
  BY DEF Accounted, s, t
<1>9. /\ Accounted(l) \in Seq(Word) /\ m \in Seq(Events)
      /\ Accounted(m) = Accounted(l) \o EventWords(e)
  BY <1>1, <1>6, <1>7, <1>8
<1> QED
  BY <1>9 DEF m

\* A directive's word and its arguments.
Waiting(f) == IF f.dir = NoWord THEN <<>> ELSE <<f.dir>> \o f.args

\* They are what is collected, and become an event when the call is made.
LEMMA Pended ==
    ASSUME NEW f, FrameOk(f), NEW l \in Seq(Events)
    PROVE  /\ Waiting(f) \in Seq(Word) /\ FlattenSeq(Pending(f)) = Waiting(f)
           /\ l \o Pending(f) \in Seq(Events)
           /\ Accounted(l \o Pending(f)) = Accounted(l) \o Waiting(f)
           /\ Accounted(l) \in Seq(Word)
<1>0. Accounted(l) \in Seq(Word)
  <2>1. <<"}">> \in Events
    <3>1. "}" \in Word
      BY DEF Word
    <3> QED
      BY <3>1, Tuples DEF Events
  <2> QED
    BY <2>1, AccountedAppend
<1>1. CASE f.dir = NoWord
  <2>1. Pending(f) = <<>> /\ Waiting(f) = <<>> /\ Waiting(f) \in Seq(Word)
    BY <1>1, EmptySeq DEF Pending, Waiting
  <2>2. FlattenSeq(<<>>) = <<>>
    BY DEF FlattenSeq
  <2>3. l \o <<>> = l /\ Accounted(l) \o <<>> = Accounted(l)
    BY <1>0, ConcatEmptySeq
  <2> QED
    BY <1>0, <2>1, <2>2, <2>3
<1>2. CASE f.dir # NoWord
  <2> DEFINE e == <<f.dir>> \o f.args
  <2>1. /\ f.dir \in Word /\ f.args \in Seq(Word)
        /\ f.dir \in Common \cup {"server_name", "listen", "alias"}
    BY <1>2, FrameIs
  <2>2. e \in Seq(Word) /\ e # <<>> /\ e[1] = f.dir
    BY <2>1, FrontOfOne
  <2>3. Pending(f) = <<e>> /\ Waiting(f) = e
    BY <1>2 DEF Pending, Waiting
  <2> HIDE DEF e
  <2>4. e[1] # "server" /\ e[1] # "location"
    BY <2>1, <2>2 DEF Common
  <2>5. e \in Events /\ EventWords(e) = e
    BY <2>2, <2>4 DEF Events, EventWords
  <2>6. l \o <<e>> = Append(l, e)
    BY <2>5, AppendIsConcat
  <2>7. /\ Append(l, e) \in Seq(Events)
        /\ Accounted(Append(l, e)) = Accounted(l) \o e
    BY <2>5, AccountedAppend
  <2>8. FlattenSeq(<<e>>) = e
    <3>1. <<>> \in Seq(Seq(Word)) /\ Append(<<>>, e) = <<e>> /\ FlattenSeq(<<>>) = <<>>
      <4>1. <<>> \in Seq(Seq(Word))
        BY EmptySeq
      <4>2. Append(<<>>, e) = <<e>>
        OBVIOUS
      <4>3. FlattenSeq(<<>>) = <<>>
        BY DEF FlattenSeq
      <4> QED
        BY <4>1, <4>2, <4>3
    <3>2. FlattenSeq(Append(<<>>, e)) = FlattenSeq(<<>>) \o e
      BY <2>2, <3>1, FlattenAppend
    <3> QED
      BY <2>2, <3>1, <3>2, ConcatEmptySeq
  <2> QED
    BY <1>0, <2>2, <2>3, <2>6, <2>7, <2>8
<1> QED
  BY <1>1, <1>2

---------------------------------------------------------------------------
(* The invariant                                                           *)

Start == IF which = "config" THEN 1 ELSE 3

ParserInv ==
    /\ which \in {"default", "config"} /\ file \in Seq(Word) /\ past \in BOOLEAN
    /\ at \in Nat /\ at >= Start
    /\ state \in {"top", "open", "block", "name", "brace"} \cup Ends
    /\ StackOk(stack) /\ log \in Seq(Events)
    /\ state \in {"top", "open"} => stack = <<>>
    /\ state \in {"block", "name", "brace"} => stack # <<>>
    /\ state \in {"name", "brace"} => Last(stack).dir = NoWord

CollectedIn(st, s) ==
    CASE st = "open" -> <<"server">>
      [] st = "name" -> <<"location">>
      [] st = "brace" -> <<"location", Last(s).inner>>
      [] st = "block" -> FlattenSeq(Pending(Last(s)))
      [] OTHER -> <<>>

LEMMA CollectedIs ==
    /\ Collected = CollectedIn(state, stack)
    /\ \A s : /\ CollectedIn("open", s) = <<"server">>
              /\ CollectedIn("name", s) = <<"location">>
              /\ CollectedIn("brace", s) = <<"location", Last(s).inner>>
              /\ CollectedIn("block", s) = FlattenSeq(Pending(Last(s)))
              /\ CollectedIn("top", s) = <<>> /\ CollectedIn("accepted", s) = <<>>
<1>1. Collected = CollectedIn(state, stack)
  BY DEF Collected, CollectedIn, Top
<1>2. ASSUME NEW s
      PROVE  /\ CollectedIn("open", s) = <<"server">>
             /\ CollectedIn("name", s) = <<"location">>
             /\ CollectedIn("brace", s) = <<"location", Last(s).inner>>
             /\ CollectedIn("block", s) = FlattenSeq(Pending(Last(s)))
             /\ CollectedIn("top", s) = <<>> /\ CollectedIn("accepted", s) = <<>>
  BY DEF CollectedIn
<1> QED
  BY <1>1, <1>2

\* A block opens only at a "{", and one closes at every "}".
Nests(w) ==
    /\ Len(stack) \in Nat /\ Len(stack') \in Nat
    /\ w = "{" => Len(stack') <= Len(stack) + 1
    /\ w = "}" => Len(stack') + 1 <= Len(stack)
    /\ w \notin {"{", "}"} => Len(stack') <= Len(stack)

\* A word is read, and nothing but this word is added to what is accounted for.
Takes(w) ==
    /\ Reads(w) /\ w \in Word /\ at' = at + 1 /\ UNCHANGED <<which, file>>
    /\ state \notin Ends /\ (InFile \/ state # "top")
    /\ Accounted(log') \o CollectedIn(state', stack') =
          (Accounted(log) \o CollectedIn(state, stack)) \o <<w>>
    /\ Nests(w)
    /\ state' = "open" => w = "server"

\* The end is not passed, or just now and within a block or its opening.
Looked == past' = past \/ (past' = TRUE /\ ~InFile /\ state # "top")

\* Parsing ends, perhaps after a look past the end.
Stops ==
    /\ UNCHANGED <<which, file, at, stack, log>>
    /\ state \notin Ends /\ state' \in Ends
    /\ state' = "accepted" => state = "top" /\ past' = past
    /\ Looked

LEMMA ReadsIs ==
    ASSUME ParserInv, NEW w, Reads(w)
    PROVE  /\ InFile => w = file[at] /\ past' = past
           /\ ~InFile => w \in Memory /\ past' = TRUE
           /\ w \in Word /\ past' \in BOOLEAN
<1>1. /\ InFile => w = file[at] /\ past' = past
      /\ ~InFile => w \in Memory /\ past' = TRUE
  BY DEF Reads
<1>2. Memory \subseteq Word
  BY ConfigParserAssumption DEF Word
<1>3. InFile => at \in 1 .. Len(file)
  BY DEF InFile, ParserInv, Start
<1>4. InFile => file[at] \in Word
  BY <1>3, ElementOfSeq DEF ParserInv
<1> QED
  BY <1>1, <1>2, <1>4 DEF ParserInv

LEMMA KindIs ==
    ASSUME NEW w
    PROVE  /\ Kind(w) = "directive" => w \in Directives[Top.kind]
           /\ Kind(w) = "location" => w = "location"
           /\ Kind(w) = "argument" => w # "}"
  BY DEF Kind

---------------------------------------------------------------------------
(* Every step takes a word or stops                                        *)

Step == ParserInv' /\ ((\E w : Takes(w)) \/ Stops)

LEMMA Literals ==
    /\ <<"server">> \in Events /\ <<"}">> \in Events
    /\ \A x \in Word : <<"location", x>> \in Events
    /\ \A x \in Word : <<x>> \in Seq(Word) /\ x \in Word
    /\ EventWords(<<"server">>) = <<"server">> \o <<"{">>
    /\ EventWords(<<"}">>) = <<"}">>
    /\ \A x \in Word : EventWords(<<"location", x>>) = <<"location", x>> \o <<"{">>
    /\ \A x \in Word : <<"location", x>> = <<"location">> \o <<x>>
    /\ \A x \in Word : <<"location", x>> \in Seq(Word)
    /\ "server" \in Word /\ "location" \in Word /\ "{" \in Word /\ "}" \in Word
<1>1. "server" \in Word /\ "location" \in Word /\ "{" \in Word /\ "}" \in Word
  BY DEF Word
<1>2. ASSUME NEW x \in Word
      PROVE  /\ <<x>> \in Seq(Word) /\ <<x>> # <<>> /\ <<x>>[1] = x
             /\ <<"location", x>> \in Seq(Word) /\ <<"location", x>> # <<>>
             /\ <<"location", x>>[1] = "location"
             /\ <<"location", x>> = <<"location">> \o <<x>>
  BY <1>1, Tuples
<1>3. EventWords(<<"server">>) = <<"server">> \o <<"{">>
  <2>1. <<"server">>[1] = "server" /\ <<"server", "{">> = <<"server">> \o <<"{">>
    BY <1>1, Tuples
  <2>2. EventWords(<<"server">>) = <<"server", "{">>
    BY <2>1, Zenon DEF EventWords
  <2> QED
    BY <2>1, <2>2
<1>4. EventWords(<<"}">>) = <<"}">>
  <2> DEFINE e == <<"}">>
  <2>1. e[1] = "}"
    BY <1>1, Tuples
  <2> HIDE DEF e
  <2>2. EventWords(e) = e
    BY <2>1 DEF EventWords
  <2> QED
    BY <2>2 DEF e
<1>5. ASSUME NEW x \in Word
      PROVE  EventWords(<<"location", x>>) = <<"location", x>> \o <<"{">>
  <2> DEFINE e == <<"location", x>>
  <2>1. e[1] = "location" /\ e \in Seq(Word)
    BY <1>2
  <2> HIDE DEF e
  <2>2. EventWords(e) = Append(e, "{")
    BY <2>1 DEF EventWords
  <2>3. Append(e, "{") = e \o <<"{">>
    BY <1>1, <2>1, AppendIsConcat
  <2> QED
    BY <2>2, <2>3 DEF e
<1> QED
  BY <1>1, <1>2, <1>3, <1>4, <1>5, Zenon DEF Events

\* The parts of a sum, put together again.
LEMMA Regroup ==
    ASSUME NEW a \in Seq(Word), NEW b \in Seq(Word), NEW w \in Word
    PROVE  /\ a \o (b \o <<w>>) = (a \o b) \o <<w>>
           /\ a \o <<>> = a /\ <<>> \o a = a
           /\ a \o b \in Seq(Word) /\ <<w>> \in Seq(Word)
<1>1. <<w>> \in Seq(Word)
  OBVIOUS
<1> QED
  BY <1>1, ConcatAssociative, ConcatEmptySeq, ConcatProperties

LEMMA AccountedTyped ==
    ASSUME NEW l \in Seq(Events)
    PROVE  Accounted(l) \in Seq(Word)
  BY Literals, AccountedAppend

LEMMA OneMore ==
    /\ \A m, n \in Nat : n >= m => n + 1 \in Nat /\ n + 1 >= m
    /\ \A m \in Nat : m <= m + 1 /\ m <= m
  OBVIOUS

LEMMA SameDepth ==
    ASSUME NEW w, w # "}", Len(stack) \in Nat, Len(stack') = Len(stack)
    PROVE  Nests(w)
<1>2. /\ Len(stack') \in Nat
      /\ Len(stack') <= Len(stack) + 1 /\ Len(stack') <= Len(stack)
  BY OneMore, Zenon
<1> QED
  BY <1>2, Zenon DEF Nests

LEMMA RegroupAll == \A a, b \in Seq(Word), w \in Word : a \o (b \o <<w>>) = (a \o b) \o <<w>>
  BY Regroup

\* What the actions that take a word leave to be shown.
LEMMA TakingStep ==
    ASSUME ParserInv, NEW w, Reads(w), at' = at + 1, UNCHANGED <<which, file>>,
           state \in {"top", "open", "block", "name", "brace"}, InFile \/ state # "top",
           StackOk(stack'), log' \in Seq(Events),
           state' \in {"top", "open", "block", "name", "brace", "accepted"},
           state' \in {"top", "open"} => stack' = <<>>,
           state' \in {"block", "name", "brace"} => stack' # <<>>,
           state' \in {"name", "brace"} => Last(stack').dir = NoWord,
           Accounted(log') \o CollectedIn(state', stack') =
              (Accounted(log) \o CollectedIn(state, stack)) \o <<w>>,
           Nests(w),
           state' = "open" => w = "server"
    PROVE  Step
<1>1. w \in Word /\ past' \in BOOLEAN
  BY ReadsIs
<1>3. state \notin Ends
  BY DEF Ends
<1>4. Takes(w)
  BY <1>1, <1>3 DEF Takes
<1>5. ParserInv'
  <2>1. at' \in Nat /\ at' >= Start'
    <3>1. Start' = Start /\ Start \in Nat /\ at \in Nat /\ at >= Start
      BY DEF ParserInv, Start
    <3> QED
      BY <3>1, OneMore, Zenon
  <2>2. state' \in {"top", "open", "block", "name", "brace"} \cup Ends
    BY DEF Ends
  <2>3. which' \in {"default", "config"} /\ file' \in Seq(Word)
    BY DEF ParserInv
  <2> QED
    BY <1>1, <2>1, <2>2, <2>3, Zenon DEF ParserInv
<1> QED
  BY <1>4, <1>5 DEF Step

\* What the actions that stop leave to be shown.
LEMMA StoppingStep ==
    ASSUME ParserInv, NEW how, how \in Ends, Stop(how), state \notin Ends,
           how = "accepted" => state = "top" /\ past' = past,
           Looked
    PROVE  Step
<1>1. Stops
  BY DEF Stop, Stops
<1>2. state' \notin {"top", "open", "block", "name", "brace"}
  BY DEF Stop, Ends
<1>3. ParserInv'
  <2>1. at' \in Nat /\ at' >= Start' /\ past' \in BOOLEAN
    BY DEF ParserInv, Start, Stop, Looked
  <2>2. state' \in {"top", "open", "block", "name", "brace"} \cup Ends
    BY DEF Stop
  <2>3. which' \in {"default", "config"} /\ file' \in Seq(Word)
    BY DEF ParserInv, Stop
  <2>4. StackOk(stack') /\ log' \in Seq(Events)
    BY DEF ParserInv, Stop
  <2> QED
    BY <1>2, <2>1, <2>2, <2>3, <2>4 DEF ParserInv
<1> QED
  BY <1>1, <1>3 DEF Step

LEMMA TopSteps ==
    ASSUME ParserInv, TopServer \/ TopOther \/ TopEnd
    PROVE  Step
<1>1. CASE TopServer
  <2>1. /\ state = "top" /\ InFile /\ file[at] = "server" /\ state' = "open"
        /\ at' = at + 1 /\ UNCHANGED <<which, file, stack, servers, past, log>>
    BY <1>1 DEF TopServer, Advance
  <2>2. Reads("server")
    BY <2>1 DEF Reads
  <2>3. StackOk(stack) /\ log \in Seq(Events) /\ stack = <<>>
    BY <2>1 DEF ParserInv
  <2>4. /\ CollectedIn(state, stack) = <<>>
        /\ CollectedIn(state', stack') = <<"server">>
    BY <2>1, CollectedIs
  <2>5. Accounted(log') \o CollectedIn(state', stack') =
              (Accounted(log) \o CollectedIn(state, stack)) \o <<"server">>
    BY <2>1, <2>3, <2>4, AccountedTyped, ConcatEmptySeq
  <2>6. Nests("server")
    <3>1. Len(stack) = 0 /\ Len(stack') = 0
      BY <2>1, <2>3, EmptySeq
    <3> QED
      BY <3>1 DEF Nests
  <2> QED
    BY <2>1, <2>2, <2>3, <2>5, <2>6, TakingStep
<1>2. CASE TopOther
  <2>1. state = "top" /\ Stop("rejected") /\ past' = past
    BY <1>2 DEF TopOther
  <2> QED
    <3>1. "rejected" \in Ends /\ "accepted" \in Ends /\ state \notin Ends
      BY <2>1 DEF Ends
    <3>2. Looked
      BY <2>1 DEF Looked
    <3> QED
      BY <2>1, <3>1, <3>2, StoppingStep
<1>3. CASE TopEnd
  <2>1. state = "top" /\ Stop("accepted") /\ past' = past
    BY <1>3 DEF TopEnd
  <2> QED
    <3>1. "rejected" \in Ends /\ "accepted" \in Ends /\ state \notin Ends
      BY <2>1 DEF Ends
    <3>2. Looked
      BY <2>1 DEF Looked
    <3> QED
      BY <2>1, <3>1, <3>2, StoppingStep
<1> QED
  BY <1>1, <1>2, <1>3

LEMMA OpenSteps ==
    ASSUME ParserInv, Open \/ OpenOther
    PROVE  Step
<1>1. CASE Open
  <2>1. /\ state = "open" /\ Reads("{") /\ state' = "block" /\ at' = at + 1
        /\ stack' = <<Frame("server")>> /\ log' = Append(log, <<"server">>)
        /\ UNCHANGED <<which, file, servers>>
    BY <1>1 DEF Open, Advance
  <2>2. /\ StackOk(stack') /\ stack' # <<>> /\ Last(stack') = Frame("server")
        /\ Len(stack') = 1
    BY <2>1, StackOne
  <2>3. log \in Seq(Events) /\ stack = <<>>
    BY <2>1 DEF ParserInv
  <2>4. /\ log' \in Seq(Events)
        /\ Accounted(log') = Accounted(log) \o (<<"server">> \o <<"{">>)
        /\ Accounted(log) \in Seq(Word)
    BY <2>1, <2>3, Literals, AccountedAppend
  <2>5. CollectedIn(state, stack) = <<"server">> /\ CollectedIn(state', stack') = <<>>
    <3>1. CollectedIn("block", stack') = FlattenSeq(Pending(Frame("server")))
      BY <2>2, CollectedIs
    <3>2. FlattenSeq(Pending(Frame("server"))) = Waiting(Frame("server"))
      BY <2>3, NewFrame, Pended
    <3>3. Waiting(Frame("server")) = <<>>
      BY NewFrame DEF Waiting
    <3> QED
      BY <2>1, <3>1, <3>2, <3>3, CollectedIs
  <2>6. Accounted(log') \o CollectedIn(state', stack') =
              (Accounted(log) \o CollectedIn(state, stack)) \o <<"{">>
    <3>1. /\ <<"server">> \in Seq(Word) /\ "{" \in Word
          /\ <<"server">> \o <<"{">> \in Seq(Word)
      BY Literals, ConcatProperties
    <3>2. Accounted(log') \in Seq(Word)
      BY <2>4, AccountedTyped
    <3>3. Accounted(log') \o <<>> = Accounted(log')
      BY <3>2, ConcatEmptySeq
    <3>4. Accounted(log) \o (<<"server">> \o <<"{">>)
            = (Accounted(log) \o <<"server">>) \o <<"{">>
      BY <2>4, <3>1, RegroupAll, Zenon
    <3> QED
      BY <2>4, <2>5, <3>3, <3>4
  <2>7. Nests("{")
    <3>1. Len(stack) = 0
      BY <2>3, EmptySeq
    <3> QED
      BY <2>2, <3>1 DEF Nests
  <2> QED
    BY <2>1, <2>2, <2>4, <2>6, <2>7, TakingStep
<1>2. CASE OpenOther
  <2>1. PICK w \in Words : Reads(w)
    BY <1>2 DEF OpenOther
  <2>2. state = "open" /\ Stop("rejected")
    BY <1>2 DEF OpenOther
  <2>3. InFile \/ past' = TRUE
    BY <2>1, ReadsIs
  <2>4. InFile => past' = past
    BY <2>1, ReadsIs
  <2> QED
    <3>1. "rejected" \in Ends /\ "rejected" # "accepted" /\ state \notin Ends /\ state # "top"
      BY <2>2 DEF Ends
    <3>2. Looked
      BY <2>3, <2>4, <3>1, Zenon DEF Looked
    <3> QED
      BY <2>2, <3>1, <3>2, StoppingStep
<1> QED
  BY <1>1, <1>2

\* The word the loops of parseServerBlock and parseLocationBlock look at.
LEMMA WordHere ==
    ASSUME ParserInv, InBlock
    PROVE  /\ state = "block" /\ InFile /\ file[at] \in Word
           /\ past' = past => Reads(file[at])
           /\ log \in Seq(Events) /\ Accounted(log) \in Seq(Word)
           /\ StackOk(stack) /\ stack # <<>> /\ FrameOk(Top) /\ Top = Last(stack)
           /\ Len(stack) \in Nat \ {0}
           /\ CollectedIn(state, stack) = Waiting(Top) /\ Waiting(Top) \in Seq(Word)
<1>1. state = "block" /\ InFile
  BY DEF InBlock
<1>2. file[at] \in Word
  <2>1. at \in 1 .. Len(file)
    BY <1>1 DEF InFile, ParserInv, Start
  <2> QED
    BY <2>1, ElementOfSeq DEF ParserInv
<1>3. log \in Seq(Events) /\ StackOk(stack) /\ stack # <<>>
  BY <1>1 DEF ParserInv
<1>4. FrameOk(Top) /\ Top = Last(stack) /\ Len(stack) \in Nat \ {0}
  BY <1>3, TopIs DEF Top
<1>5. CollectedIn("block", stack) = Waiting(Top) /\ Waiting(Top) \in Seq(Word)
  BY <1>3, <1>4, Pended, CollectedIs
<1>6. past' = past => Reads(file[at])
  BY <1>1 DEF Reads
<1> QED
  BY <1>1, <1>2, <1>3, <1>4, <1>5, <1>6, AccountedTyped

LEMMA DirectiveStep ==
    ASSUME ParserInv, DirectiveWord
    PROVE  Step
<1> DEFINE w == file[at]
           g == Called(Top)
           h == [g EXCEPT !.dir = w]
<1>1. /\ InBlock /\ Kind(w) = "directive" /\ at' = at + 1
      /\ stack' = [stack EXCEPT ![Len(stack)] = h]
      /\ log' = log \o Pending(Top)
      /\ UNCHANGED <<which, file, servers, state, past>>
  BY DEF DirectiveWord, SetTop, Advance
<1>2. /\ state = "block" /\ InFile /\ w \in Word /\ Reads(w)
      /\ log \in Seq(Events) /\ Accounted(log) \in Seq(Word)
      /\ StackOk(stack) /\ stack # <<>> /\ FrameOk(Top) /\ Top = Last(stack)
      /\ CollectedIn(state, stack) = Waiting(Top) /\ Waiting(Top) \in Seq(Word)
      /\ Len(stack) \in Nat
  BY <1>1, WordHere
<1>3. w \in Directives[Top.kind] /\ w # "}"
  <2>1. w \in Directives[Top.kind]
    BY <1>1, KindIs
  <2>2. /\ Directives["server"] = Common \cup {"server_name", "listen"}
        /\ Directives["location"] = Common \cup {"alias"}
    BY DEF Directives
  <2>3. "}" \notin Common \cup {"server_name", "listen", "alias"}
    BY DEF Common
  <2>4. Top.kind \in {"server", "location"}
    BY <1>2, FrameIs
  <2> QED
    BY <2>1, <2>2, <2>3, <2>4
<1> HIDE DEF w
<1>4. FrameOk(g) /\ g.dir = NoWord /\ g.kind = Top.kind
  BY <1>2, CalledOk
<1> HIDE DEF g
<1>5. FrameOk(h) /\ w # NoWord /\ h.dir = w /\ h.args = <<>> /\ h.kind = Top.kind
  <2>1. w \in Directives[g.kind]
    BY <1>3, <1>4
  <2> QED
    BY <1>2, <1>4, <2>1, DirectiveOk
<1> HIDE DEF h
<1>6. StackOk(stack') /\ stack' # <<>> /\ Last(stack') = h /\ Len(stack') = Len(stack)
  BY <1>1, <1>2, <1>5, StackSet
<1>7. /\ log' \in Seq(Events) /\ Accounted(log') = Accounted(log) \o Waiting(Top)
      /\ Accounted(log') \in Seq(Word)
  BY <1>1, <1>2, Pended, AccountedTyped
<1>8. CollectedIn(state', stack') = <<w>>
  <2>1. CollectedIn("block", stack') = Waiting(h)
    BY <1>2, <1>5, <1>6, Pended, CollectedIs
  <2>2. Waiting(h) = <<w>> \o <<>>
    BY <1>5 DEF Waiting
  <2>3. <<w>> \o <<>> = <<w>>
    BY <1>2, Tuples, ConcatEmptySeq
  <2> QED
    BY <1>1, <1>2, <2>1, <2>2, <2>3
<1>9. Accounted(log') \o CollectedIn(state', stack') =
              (Accounted(log) \o CollectedIn(state, stack)) \o <<w>>
  BY <1>2, <1>7, <1>8
<1>10. Nests(w)
  BY <1>2, <1>3, <1>6, SameDepth
<1>11. state' = "block"
  BY <1>1, <1>2
<1> QED
  BY <1>1, <1>2, <1>6, <1>7, <1>9, <1>10, <1>11, TakingStep

LEMMA ArgumentStep ==
    ASSUME ParserInv, ArgumentWord
    PROVE  Step
<1> DEFINE w == file[at]
           h == [Top EXCEPT !.args = Append(@, w)]
<1>1. /\ InBlock /\ Kind(w) = "argument" /\ Top.dir # NoWord /\ at' = at + 1
      /\ stack' = [stack EXCEPT ![Len(stack)] = h]
      /\ UNCHANGED <<which, file, servers, state, past, log>>
  BY DEF ArgumentWord, SetTop, Advance
<1>2. /\ state = "block" /\ InFile /\ w \in Word /\ Reads(w)
      /\ log \in Seq(Events) /\ Accounted(log) \in Seq(Word)
      /\ StackOk(stack) /\ stack # <<>> /\ FrameOk(Top) /\ Top = Last(stack)
      /\ CollectedIn(state, stack) = Waiting(Top) /\ Waiting(Top) \in Seq(Word)
      /\ Len(stack) \in Nat
  BY <1>1, WordHere
<1>3. w # "}"
  BY <1>1, KindIs
<1> HIDE DEF w
<1>4. h = [Top EXCEPT !.args = Append(Top.args, w)]
  OBVIOUS
<1> HIDE DEF h
<1>5. /\ FrameOk(h) /\ h.dir = Top.dir /\ h.args = Append(Top.args, w)
      /\ h.kind = Top.kind
  <2>1. FrameOk(Top) /\ Top.dir # NoWord /\ w \in Word
    BY <1>1, <1>2
  <2> QED
    BY <1>4, <2>1, ArgumentOk, Zenon
<1>6. StackOk(stack') /\ stack' # <<>> /\ Last(stack') = h /\ Len(stack') = Len(stack)
  BY <1>1, <1>2, <1>5, StackSet
<1>8. CollectedIn(state', stack') = Waiting(Top) \o <<w>>
  <2>1. CollectedIn("block", stack') = Waiting(h)
    BY <1>2, <1>5, <1>6, Pended, CollectedIs
  <2>2. /\ Waiting(h) = <<Top.dir>> \o Append(Top.args, w)
        /\ Waiting(Top) = <<Top.dir>> \o Top.args
    BY <1>1, <1>5 DEF Waiting
  <2>3. Top.args \in Seq(Word) /\ Top.dir \in Word
    BY <1>2, FrameIs
  <2>4. Append(Top.args, w) = Top.args \o <<w>>
    BY <1>2, <2>3, AppendIsConcat
  <2>5. <<Top.dir>> \in Seq(Word)
    BY <2>3, Tuples
  <2>6. <<Top.dir>> \o (Top.args \o <<w>>) = (<<Top.dir>> \o Top.args) \o <<w>>
    BY <1>2, <2>3, <2>5, RegroupAll, Zenon
  <2> QED
    BY <1>1, <1>2, <2>1, <2>2, <2>4, <2>6
<1>9. Accounted(log') \o CollectedIn(state', stack') =
              (Accounted(log) \o CollectedIn(state, stack)) \o <<w>>
  <2>1. Accounted(log) \o (Waiting(Top) \o <<w>>) =
            (Accounted(log) \o Waiting(Top)) \o <<w>>
    BY <1>2, Regroup
  <2> QED
    BY <1>1, <1>2, <1>8, <2>1
<1>10. Nests(w)
  BY <1>2, <1>3, <1>6, SameDepth
<1>11. state' = "block"
  BY <1>1, <1>2
<1> QED
  BY <1>1, <1>2, <1>6, <1>9, <1>10, <1>11, TakingStep

\* Where nothing is looked at past the end.
LEMMA PlainStop ==
    ASSUME ParserInv, Stop("rejected"), past' = past, state = "block"
    PROVE  Step
<1>1. "rejected" \in Ends /\ "rejected" # "accepted" /\ state \notin Ends
  BY DEF Ends
<1>2. Looked
  BY DEF Looked
<1> QED
  BY <1>1, <1>2, StoppingStep

\* Where a word was looked at.
LEMMA WordStop ==
    ASSUME ParserInv, NEW w, Reads(w), Stop("rejected"),
           state \in {"open", "block", "name", "brace"}
    PROVE  Step
<1>1. "rejected" \in Ends /\ "rejected" # "accepted" /\ state \notin Ends /\ state # "top"
  BY DEF Ends
<1>2. InFile => past' = past
  BY ReadsIs
<1>3. ~InFile => past' = TRUE
  BY ReadsIs
<1>4. Looked
  BY <1>1, <1>2, <1>3, Zenon DEF Looked
<1> QED
  BY <1>1, <1>4, StoppingStep

LEMMA StoppedInBlock ==
    ASSUME ParserInv, StrayWord \/ CallThrows \/ Unclosed
    PROVE  Step
<1>1. CASE StrayWord
  BY <1>1, PlainStop DEF StrayWord, InBlock
<1>2. CASE CallThrows
  BY <1>2, PlainStop DEF CallThrows
<1>3. CASE Unclosed
  <2>1. PICK w \in Memory : Reads(w)
    BY <1>3 DEF Unclosed
  <2> QED
    BY <1>3, <2>1, WordStop DEF Unclosed
<1> QED
  BY <1>1, <1>2, <1>3

LEMMA NameSteps ==
    ASSUME ParserInv, NoName \/ NoBrace
    PROVE  Step
<1>1. CASE NoName
  <2>1. PICK w \in {"{", "}"} : Reads(w)
    BY <1>1 DEF NoName
  <2> QED
    BY <1>1, <2>1, WordStop DEF NoName
<1>2. CASE NoBrace
  <2>1. PICK w \in Words : Reads(w)
    BY <1>2 DEF NoBrace
  <2> QED
    BY <1>2, <2>1, WordStop DEF NoBrace
<1> QED
  BY <1>1, <1>2

LEMMA CrashStep ==
    ASSUME ParserInv, Crash
    PROVE  Step
<1>1. /\ state \in {"open", "name", "brace", "block"} /\ ~InFile /\ past' = TRUE
      /\ Stop("crashed")
  BY DEF Crash
<1>2. "crashed" \in Ends /\ "crashed" # "accepted" /\ state \notin Ends /\ state # "top"
  BY <1>1 DEF Ends
<1>3. Looked
  BY <1>1, <1>2 DEF Looked
<1> QED
  BY <1>1, <1>2, <1>3, StoppingStep

LEMMA LocationWordStep ==
    ASSUME ParserInv, LocationWord
    PROVE  Step
<1> DEFINE w == file[at]
           g == Called(Top)
<1>1. /\ InBlock /\ Kind(w) = "location" /\ at' = at + 1
      /\ stack' = [stack EXCEPT ![Len(stack)] = g]
      /\ log' = log \o Pending(Top) /\ state' = "name"
      /\ UNCHANGED <<which, file, servers, past>>
  BY DEF LocationWord, SetTop, Advance
<1>2. /\ state = "block" /\ InFile /\ w \in Word /\ Reads(w)
      /\ log \in Seq(Events) /\ Accounted(log) \in Seq(Word)
      /\ StackOk(stack) /\ stack # <<>> /\ FrameOk(Top) /\ Top = Last(stack)
      /\ CollectedIn(state, stack) = Waiting(Top) /\ Waiting(Top) \in Seq(Word)
      /\ Len(stack) \in Nat
  BY <1>1, WordHere
<1>3. w = "location" /\ w # "}"
  BY <1>1, KindIs
<1> HIDE DEF w
<1>4. FrameOk(g) /\ g.dir = NoWord /\ g.kind = Top.kind
  BY <1>2, CalledOk
<1> HIDE DEF g
<1>5. StackOk(stack') /\ stack' # <<>> /\ Last(stack') = g /\ Len(stack') = Len(stack)
  BY <1>1, <1>2, <1>4, StackSet
<1>6. /\ log' \in Seq(Events) /\ Accounted(log') = Accounted(log) \o Waiting(Top)
  BY <1>1, <1>2, Pended
<1>7. CollectedIn(state', stack') = <<w>>
  BY <1>1, <1>3, CollectedIs
<1>8. Accounted(log') \o CollectedIn(state', stack') =
              (Accounted(log) \o CollectedIn(state, stack)) \o <<w>>
  BY <1>2, <1>6, <1>7
<1>9. Nests(w)
  BY <1>2, <1>3, <1>5, SameDepth
<1>10. Last(stack').dir = NoWord
  BY <1>4, <1>5
<1> QED
  BY <1>1, <1>2, <1>5, <1>6, <1>8, <1>9, <1>10, TakingStep

LEMMA LocationNameStep ==
    ASSUME ParserInv, LocationName
    PROVE  Step
<1>1. PICK w \in Words \ {"{", "}"} :
        Reads(w) /\ stack' = [stack EXCEPT ![Len(stack)] = [Top EXCEPT !.inner = w]]
  BY DEF LocationName, SetTop
<1>2. /\ state = "name" /\ state' = "brace" /\ at' = at + 1
      /\ UNCHANGED <<which, file, servers, log>>
  BY DEF LocationName, Advance
<1>3. w \in Word /\ w # "}"
  BY <1>1, ReadsIs
<1>4. /\ StackOk(stack) /\ stack # <<>> /\ Last(stack).dir = NoWord
      /\ log \in Seq(Events)
  BY <1>2 DEF ParserInv
<1>5. FrameOk(Top) /\ Top = Last(stack) /\ Len(stack) \in Nat
  BY <1>4, TopIs DEF Top
<1> DEFINE h == [Top EXCEPT !.inner = w]
<1>6. FrameOk(h) /\ h.dir = NoWord /\ h.inner = w /\ h.kind = Top.kind
  <2>1. FrameOk(h) /\ h.dir = Top.dir /\ h.inner = w /\ h.kind = Top.kind
    <3>1. h = Named(Top, w)
      BY DEF Named
    <3>2. FrameOk(Top)
      BY <1>5
    <3> HIDE DEF h
    <3> QED
      BY <1>3, <3>1, <3>2, InnerOk
  <2> HIDE DEF h
  <2> QED
    BY <1>4, <1>5, <2>1, Zenon
<1>7. stack' = [stack EXCEPT ![Len(stack)] = h]
  BY <1>1
<1> HIDE DEF h
<1>8. StackOk(stack') /\ stack' # <<>> /\ Last(stack') = h /\ Len(stack') = Len(stack)
  BY <1>4, <1>5, <1>6, <1>7, StackSet
<1>9. /\ CollectedIn(state, stack) = <<"location">>
      /\ CollectedIn(state', stack') = <<"location", w>>
  BY <1>2, <1>6, <1>8, CollectedIs
<1>10. Accounted(log') \o CollectedIn(state', stack') =
              (Accounted(log) \o CollectedIn(state, stack)) \o <<w>>
  <2>1. <<"location", w>> = <<"location">> \o <<w>> /\ <<"location">> \in Seq(Word)
    BY <1>3, Literals
  <2>2. Accounted(log) \in Seq(Word)
    BY <1>4, AccountedTyped
  <2>3. Accounted(log) \o (<<"location">> \o <<w>>)
            = (Accounted(log) \o <<"location">>) \o <<w>>
    BY <1>3, <2>1, <2>2, RegroupAll, Zenon
  <2> QED
    BY <1>2, <1>9, <2>1, <2>3
<1>11. Nests(w)
  BY <1>3, <1>5, <1>8, SameDepth
<1>12. Last(stack').dir = NoWord
  BY <1>6, <1>8
<1> QED
  BY <1>1, <1>2, <1>4, <1>8, <1>10, <1>11, <1>12, TakingStep

\* A frame that was just pushed collects nothing.
LEMMA NothingWaits ==
    ASSUME NEW s, s # <<>>, StackOk(s), Last(s).dir = NoWord
    PROVE  CollectedIn("block", s) = <<>>
<1>1. FrameOk(Last(s))
  BY TopIs
<1>2. FlattenSeq(Pending(Last(s))) = Waiting(Last(s))
  <2>1. <<>> \in Seq(Events)
    BY EmptySeq
  <2> QED
    BY <1>1, <2>1, Pended
<1>3. Waiting(Last(s)) = <<>>
  BY DEF Waiting
<1> QED
  BY <1>2, <1>3, CollectedIs

LEMMA LocationOpensStep ==
    ASSUME ParserInv, LocationOpens
    PROVE  Step
<1> DEFINE f == Frame("location")
           e == <<"location", Top.inner>>
<1>1. /\ state = "brace" /\ Reads("{") /\ at' = at + 1
      /\ stack' = Append(stack, f) /\ log' = Append(log, e) /\ state' = "block"
      /\ UNCHANGED <<which, file, servers>>
  BY DEF LocationOpens, Advance
<1>2. /\ StackOk(stack) /\ stack # <<>> /\ Last(stack).dir = NoWord
      /\ log \in Seq(Events)
  BY <1>1 DEF ParserInv
<1>3. FrameOk(Top) /\ Top = Last(stack) /\ Len(stack) \in Nat
  BY <1>2, TopIs DEF Top
<1>4. Top.inner \in Word
  BY <1>3, FrameIs
<1>5. FrameOk(f) /\ f.kind = "location" /\ f.dir = NoWord
  BY NewFrame
<1> HIDE DEF f
<1>6. StackOk(stack') /\ stack' # <<>> /\ Last(stack') = f /\ Len(stack') = Len(stack) + 1
  BY <1>1, <1>2, <1>5, StackPush
<1>7. /\ CollectedIn(state, stack) = e /\ e \in Seq(Word) /\ e \in Events
      /\ EventWords(e) = e \o <<"{">> /\ "{" \in Word
  BY <1>1, <1>3, <1>4, CollectedIs, Literals
<1>8. CollectedIn(state', stack') = <<>>
  BY <1>1, <1>5, <1>6, NothingWaits
<1> HIDE DEF e
<1>9. /\ log' \in Seq(Events) /\ Accounted(log') = Accounted(log) \o (e \o <<"{">>)
      /\ Accounted(log) \in Seq(Word) /\ Accounted(log') \in Seq(Word)
  BY <1>1, <1>2, <1>7, AccountedAppend, AccountedTyped
<1>10. Accounted(log') \o CollectedIn(state', stack') =
              (Accounted(log) \o CollectedIn(state, stack)) \o <<"{">>
  <2>1. Accounted(log') \o <<>> = Accounted(log')
    BY <1>9, ConcatEmptySeq
  <2>2. Accounted(log) \o (e \o <<"{">>) = (Accounted(log) \o e) \o <<"{">>
    BY <1>7, <1>9, RegroupAll, Zenon
  <2> QED
    BY <1>7, <1>8, <1>9, <2>1, <2>2
<1>11. Nests("{")
  BY <1>3, <1>6 DEF Nests
<1> QED
  BY <1>1, <1>6, <1>9, <1>10, <1>11, TakingStep

\* Either loop's end: the last call is made, and the "}" is read.
LEMMA ClosingIs ==
    ASSUME ParserInv, NEW kind, Closing(kind)
    PROVE  /\ state = "block" /\ Reads("}") /\ Top.kind = kind
           /\ StackOk(stack) /\ stack # <<>> /\ FrameOk(Top) /\ Top = Last(stack)
           /\ log' \in Seq(Events) /\ Accounted(log') \in Seq(Word)
           /\ Accounted(log') = (Accounted(log) \o CollectedIn(state, stack)) \o <<"}">>
<1>1. /\ state = "block" /\ Reads("}") /\ Top.kind = kind
      /\ log' = (log \o Pending(Top)) \o <<<<"}">>>>
  BY DEF Closing
<1>2. StackOk(stack) /\ stack # <<>> /\ log \in Seq(Events)
  BY <1>1 DEF ParserInv
<1>3. FrameOk(Top) /\ Top = Last(stack)
  BY <1>2, TopIs DEF Top
<1> DEFINE l == log \o Pending(Top)
           e == <<"}">>
<1>4. /\ l \in Seq(Events) /\ Accounted(l) = Accounted(log) \o Waiting(Top)
      /\ FlattenSeq(Pending(Top)) = Waiting(Top)
  BY <1>2, <1>3, Pended
<1>5. CollectedIn(state, stack) = Waiting(Top)
  BY <1>1, <1>3, <1>4, CollectedIs
<1>6. e \in Events /\ EventWords(e) = e
  BY Literals
<1>7. log' = l \o <<e>>
  BY <1>1
<1> HIDE DEF l, e
<1>8. log' = Append(l, e)
  BY <1>4, <1>6, <1>7, AppendIsConcat
<1>9. log' \in Seq(Events) /\ Accounted(log') = Accounted(l) \o e
  BY <1>4, <1>6, <1>8, AccountedAppend
<1>10. Accounted(log') \in Seq(Word)
  BY <1>9, AccountedTyped
<1> QED
  BY <1>1, <1>2, <1>3, <1>4, <1>5, <1>9, <1>10 DEF e

LEMMA ServerClosesStep ==
    ASSUME ParserInv, ServerCloses
    PROVE  Step
<1>1. /\ Closing("server") /\ stack' = <<>> /\ at' = at + 1
      /\ state' = (IF which = "config" THEN "top" ELSE "accepted")
      /\ UNCHANGED <<which, file>>
  BY DEF ServerCloses, Advance
<1>2. /\ state = "block" /\ Reads("}") /\ Top.kind = "server"
      /\ StackOk(stack) /\ stack # <<>> /\ FrameOk(Top) /\ Top = Last(stack)
      /\ log' \in Seq(Events) /\ Accounted(log') \in Seq(Word)
      /\ Accounted(log') = (Accounted(log) \o CollectedIn(state, stack)) \o <<"}">>
  BY <1>1, ClosingIs
<1>3. state' \in {"top", "accepted"} /\ CollectedIn(state', stack') = <<>>
  BY <1>1, CollectedIs
<1>4. Accounted(log') \o CollectedIn(state', stack') =
              (Accounted(log) \o CollectedIn(state, stack)) \o <<"}">>
  <2>1. Accounted(log') \o <<>> = Accounted(log')
    BY <1>2, ConcatEmptySeq
  <2> QED
    BY <1>2, <1>3, <2>1
<1>5. StackOk(stack') /\ Len(stack') = 0
  BY <1>1, StackOne, EmptySeq
<1>6. Nests("}")
  <2>1. Len(stack) \in Nat \ {0}
    BY <1>2, TopIs
  <2> QED
    BY <1>5, <2>1 DEF Nests
<1> QED
  BY <1>1, <1>2, <1>3, <1>4, <1>5, <1>6, TakingStep

LEMMA LocationClosesStep ==
    ASSUME ParserInv, LocationCloses
    PROVE  Step
<1> DEFINE outer == stack[Len(stack) - 1]
           b == Called(Top).block
           f == Storing(outer, b)
<1>1. /\ Closing("location") /\ at' = at + 1
      /\ stack' = Append(SubSeq(stack, 1, Len(stack) - 2), f)
      /\ UNCHANGED <<which, file, servers, state>>
  BY DEF LocationCloses, Advance
<1>2. /\ state = "block" /\ Reads("}") /\ Top.kind = "location"
      /\ StackOk(stack) /\ stack # <<>> /\ FrameOk(Top) /\ Top = Last(stack)
      /\ log' \in Seq(Events) /\ Accounted(log') \in Seq(Word)
      /\ Accounted(log') = (Accounted(log) \o CollectedIn(state, stack)) \o <<"}">>
  BY <1>1, ClosingIs
<1>3. /\ Len(stack) - 1 \in Nat \ {0} /\ FrameOk(outer) /\ outer.dir = NoWord
      /\ \A g : FrameOk(g) /\ g.kind = outer.kind =>
            LET t == Append(SubSeq(stack, 1, Len(stack) - 2), g)
            IN  StackOk(t) /\ t # <<>> /\ Last(t) = g /\ Len(t) = Len(stack) - 1
  BY <1>2, StackPop
<1>4. BlockOk(b)
  <2>1. FrameOk(Called(Top))
    BY <1>2, CalledOk
  <2> QED
    BY <2>1, FrameIs
<1> HIDE DEF outer, b
<1>5. FrameOk(f) /\ f.dir = NoWord /\ f.kind = outer.kind
  BY <1>3, <1>4, StoringOk
<1> HIDE DEF f
<1>6. /\ StackOk(stack') /\ stack' # <<>> /\ Last(stack') = f
      /\ Len(stack') = Len(stack) - 1
  BY <1>1, <1>3, <1>5
<1>7. CollectedIn(state', stack') = <<>>
  BY <1>1, <1>2, <1>5, <1>6, NothingWaits
<1>8. Accounted(log') \o CollectedIn(state', stack') =
              (Accounted(log) \o CollectedIn(state, stack)) \o <<"}">>
  <2>1. Accounted(log') \o <<>> = Accounted(log')
    BY <1>2, ConcatEmptySeq
  <2> QED
    BY <1>2, <1>7, <2>1
<1>9. Nests("}")
  <2>1. Len(stack) \in Nat
    BY <1>2, TopIs
  <2> QED
    BY <1>3, <1>6, <2>1 DEF Nests
<1>10. state' = "block"
  BY <1>1, <1>2
<1> QED
  BY <1>1, <1>2, <1>6, <1>8, <1>9, <1>10, TakingStep

LEMMA EveryStep ==
    ASSUME ParserInv, ParserNext
    PROVE  Step
<1>1. CASE TopServer \/ TopOther \/ TopEnd
  BY <1>1, TopSteps
<1>2. CASE Open \/ OpenOther
  BY <1>2, OpenSteps
<1>3. CASE DirectiveWord
  BY <1>3, DirectiveStep
<1>4. CASE ArgumentWord
  BY <1>4, ArgumentStep
<1>5. CASE StrayWord \/ CallThrows \/ Unclosed
  BY <1>5, StoppedInBlock
<1>6. CASE LocationWord
  BY <1>6, LocationWordStep
<1>7. CASE LocationName
  BY <1>7, LocationNameStep
<1>8. CASE NoName \/ NoBrace
  BY <1>8, NameSteps
<1>9. CASE LocationOpens
  BY <1>9, LocationOpensStep
<1>10. CASE ServerCloses
  BY <1>10, ServerClosesStep
<1>11. CASE LocationCloses
  BY <1>11, LocationClosesStep
<1>12. CASE Crash
  BY <1>12, CrashStep
<1> QED
  BY <1>1, <1>2, <1>3, <1>4, <1>5, <1>6, <1>7, <1>8, <1>9, <1>10, <1>11, <1>12
  DEF ParserNext

---------------------------------------------------------------------------
(* Blocks keep their shape                                                 *)

LEMMA InitEstablishes == ParserInit => ParserInv
<1> SUFFICES ASSUME ParserInit PROVE ParserInv
  OBVIOUS
<1>1. /\ which \in {"default", "config"} /\ file \in Files
      /\ at = Start /\ past = FALSE /\ log = <<>>
      /\ stack = IF which = "config" THEN <<>> ELSE <<Frame("server")>>
      /\ state = IF which = "config" THEN "top"
                 ELSE IF file = <<>> THEN "rejected" ELSE "block"
  BY DEF ParserInit, Start
<1>2. file \in Seq(Word)
  <2>1. file \in Seq(STRING) /\ STRING \subseteq Word
    BY <1>1, ConfigParserAssumption DEF Word
  <2> QED
    BY <2>1, SeqMonotonic
<1>3. at \in Nat /\ at >= Start
  BY <1>1 DEF Start
<1>4. StackOk(stack) /\ (which # "config" => stack # <<>>)
  BY <1>1, StackOne
<1>5. log \in Seq(Events)
  BY <1>1, EmptySeq
<1>6. CASE which = "config"
  <2>1. state = "top" /\ stack = <<>>
    BY <1>1, <1>6
  <2> QED
    BY <1>1, <1>2, <1>3, <1>4, <1>5, <2>1 DEF ParserInv
<1>7. CASE which # "config"
  <2>1. state \in {"rejected", "block"}
    BY <1>1, <1>7
  <2>2. past \in BOOLEAN /\ state \in {"top", "open", "block", "name", "brace"} \cup Ends
    BY <1>1, <2>1 DEF Ends
  <2>3. state \notin {"top", "open", "name", "brace"}
    BY <2>1
  <2> QED
    BY <1>1, <1>2, <1>3, <1>4, <1>5, <1>7, <2>2, <2>3 DEF ParserInv
<1> QED
  BY <1>6, <1>7

LEMMA InductiveStep == ParserInv /\ [ParserNext]_parserVars => ParserInv'
<1> SUFFICES ASSUME ParserInv, [ParserNext]_parserVars PROVE ParserInv'
  OBVIOUS
<1>1. CASE ParserNext
  BY <1>1, EveryStep DEF Step
<1>2. CASE UNCHANGED parserVars
  BY <1>2 DEF parserVars, ParserInv, Start
<1> QED
  BY <1>1, <1>2

THEOREM ParserInvariance == ParserSpec => []ParserInv
  BY InitEstablishes, InductiveStep, PTL DEF ParserSpec

\* Whatever the file: a server block is parsed outermost and locations inside
\* it, a directive being collected is one of the block's kind, and whatever is
\* around a location in the map of a block is in it as well.
THEOREM ParserTypeCorrect == ParserSpec => []ParserTypeOK
<1>1. ParserInv => ParserTypeOK
  <2> SUFFICES ASSUME ParserInv PROVE ParserTypeOK
    OBVIOUS
  <2>1. at \in Nat \ {0}
    BY DEF ParserInv, Start
  <2>2. /\ state \in {"top", "open", "block", "name", "brace"} \cup Ends
        /\ state = "top" => stack = <<>>
    BY DEF ParserInv
  <2>3. ASSUME NEW k \in DOMAIN stack
        PROVE  /\ stack[k].kind = "server" <=> k = 1
               /\ stack[k].dir \in Directives[stack[k].kind] \cup {NoWord}
               /\ stack[k].dir = NoWord => stack[k].args = <<>>
               /\ <<>> \in DOMAIN stack[k].block
               /\ \A names \in DOMAIN stack[k].block :
                    /\ DOMAIN stack[k].block[names] = DOMAIN NewBlock
                    /\ names # <<>> => Front(names) \in DOMAIN stack[k].block
    <3>1. k \in 1 .. Len(stack)
      <4>1. PICK S : stack \in Seq(S)
        BY DEF ParserInv, StackOk
      <4> QED
        BY <4>1, LenProperties
    <3>2. FrameOk(stack[k]) /\ (stack[k].kind = "server" <=> k = 1)
      BY <3>1 DEF ParserInv, StackOk
    <3> QED
      BY <3>2 DEF FrameOk, BlockOk
  <2> QED
    BY <2>1, <2>2, <2>3 DEF ParserTypeOK
<1> QED
  BY <1>1, ParserInvariance, PTL

---------------------------------------------------------------------------
(* No word is lost                                                         *)

\* The words read since the first.
Read == SubSeq(file, Start, at - 1)

\* NothingLost, of the log and the stack by themselves.
WordsInv ==
    state \notin {"rejected", "crashed"} /\ ~past =>
        Accounted(log) \o CollectedIn(state, stack) = Read

LEMMA ReadNext ==
    ASSUME ParserInv, InFile, at' = at + 1, UNCHANGED <<which, file>>
    PROVE  Read' = Read \o <<file[at]>>
<1>1. file \in Seq(Word) /\ Start \in 1 .. Len(file) /\ at \in Start .. Len(file)
  BY DEF ParserInv, InFile, Start
<1>2. SubSeq(file, Start, at) = SubSeq(file, Start, at - 1) \o <<file[at]>>
  BY <1>1, SubSeqRecursiveSecond
<1>3. at' - 1 = at /\ Start' = Start /\ file' = file
  BY <1>1 DEF Start
<1> QED
  BY <1>2, <1>3 DEF Read

LEMMA WordsInit == ParserInit => WordsInv
<1> SUFFICES ASSUME ParserInit PROVE WordsInv
  OBVIOUS
<1>1. at = Start /\ log = <<>>
  BY DEF ParserInit, Start
<1>2. Read = <<>>
  <2>1. Start \in Int /\ at - 1 \in Int /\ at - 1 < Start
    BY <1>1 DEF Start
  <2> QED
    BY <2>1, SubSeqEmpty DEF Read
<1>3. Accounted(<<>>) = <<>>
  <2> DEFINE s == [k \in DOMAIN <<>> |-> EventWords(<<>>[k])]
  <2>1. s = <<>>
    OBVIOUS
  <2>2. FlattenSeq(<<>>) = <<>>
    BY DEF FlattenSeq
  <2> QED
    BY <2>1, <2>2 DEF Accounted
<1>4. state \notin {"rejected", "crashed"} => CollectedIn(state, stack) = <<>>
  <2>1. CASE which = "config"
    <3>1. state = "top"
      BY <2>1 DEF ParserInit
    <3> QED
      BY <3>1, CollectedIs
  <2>2. CASE which # "config" /\ file # <<>>
    <3>1. state = "block" /\ stack = <<Frame("server")>>
      BY <2>2 DEF ParserInit
    <3>2. StackOk(stack) /\ stack # <<>> /\ Last(stack).dir = NoWord
      BY <3>1, StackOne, NewFrame
    <3> QED
      BY <3>1, <3>2, NothingWaits
  <2>3. CASE which # "config" /\ file = <<>>
    BY <2>3 DEF ParserInit
  <2> QED
    BY <2>1, <2>2, <2>3
<1>5. <<>> \o <<>> = <<>>
  BY EmptySeq, ConcatEmptySeq
<1> QED
  BY <1>1, <1>2, <1>3, <1>4, <1>5 DEF WordsInv

LEMMA WordsStep == ParserInv /\ WordsInv /\ [ParserNext]_parserVars => WordsInv'
<1> SUFFICES ASSUME ParserInv, WordsInv, [ParserNext]_parserVars,
                    state' \notin {"rejected", "crashed"}, ~past'
             PROVE  (Accounted(log) \o CollectedIn(state, stack) = Read)'
  BY DEF WordsInv
<1>1. ASSUME NEW w, Takes(w)
      PROVE  (Accounted(log) \o CollectedIn(state, stack) = Read)'
  <2>1. /\ Reads(w) /\ at' = at + 1 /\ UNCHANGED <<which, file>> /\ state \notin Ends
        /\ Accounted(log') \o CollectedIn(state', stack') =
              (Accounted(log) \o CollectedIn(state, stack)) \o <<w>>
    BY <1>1 DEF Takes
  <2>2. InFile /\ w = file[at] /\ ~past
    BY <2>1, ReadsIs, Zenon
  <2>3. Accounted(log) \o CollectedIn(state, stack) = Read
    <3>1. state \notin {"rejected", "crashed"}
      BY <2>1 DEF Ends
    <3> QED
      BY <2>2, <3>1 DEF WordsInv
  <2>4. Read' = Read \o <<w>>
    BY <2>1, <2>2, ReadNext
  <2> QED
    BY <2>1, <2>3, <2>4
<1>2. CASE Stops
  <2>1. /\ UNCHANGED <<which, file, at, stack, log>> /\ state' \in Ends
        /\ state' = "accepted" => state = "top" /\ past' = past
    BY <1>2 DEF Stops
  <2>2. state' = "accepted" /\ state = "top" /\ ~past
    <3>1. state' = "accepted"
      BY <2>1 DEF Ends
    <3>2. state = "top" /\ past' = past
      BY <2>1, <3>1
    <3> QED
      BY <3>1, <3>2, Zenon
  <2>3. CollectedIn(state', stack') = CollectedIn(state, stack)
    BY <2>2, CollectedIs
  <2>4. Accounted(log) \o CollectedIn(state, stack) = Read
    BY <2>2 DEF WordsInv
  <2>5. Read' = Read
    BY <2>1 DEF Read, Start
  <2> QED
    BY <2>1, <2>3, <2>4, <2>5
<1>3. CASE UNCHANGED parserVars
  <2>1. /\ UNCHANGED <<which, file, at, stack, log, state>> /\ past' = past
    BY <1>3 DEF parserVars
  <2>2. Accounted(log) \o CollectedIn(state, stack) = Read
    BY <2>1, Zenon DEF WordsInv
  <2>3. Read' = Read
    BY <2>1 DEF Read, Start
  <2> QED
    BY <2>1, <2>2, <2>3
<1> QED
  BY <1>1, <1>2, <1>3, EveryStep DEF Step

\* In every file, the words read are the events of the log and what is being
\* collected, in this order and with nothing between them: whatever blocks
\* nest, no word is skipped or read twice where one call of the parser hands
\* the position to another.
THEOREM NoWordLost == ParserSpec => []NothingLost
<1>1. WordsInv => NothingLost
  <2>1. Collected = CollectedIn(state, stack)
    BY CollectedIs
  <2> QED
    BY <2>1, Zenon DEF WordsInv, NothingLost, Accounted, Read, Start
<1> QED
  BY <1>1, ParserInvariance, WordsInit, WordsStep, PTL DEF ParserSpec

---------------------------------------------------------------------------
(* The end of the file                                                     *)

Seen(w) == {k \in Start .. at - 1 : file[k] = w}

\* The "{" that is skipped in default.conf.
Skipped == IF which = "default" THEN 1 ELSE 0

\* While the file is not passed: there is a "{" for every "}" and every block
\* that is open, counting the one that is skipped.
BraceInv ==
    state \notin Ends /\ ~past =>
        /\ at <= Len(file) + 1 \/ Len(file) = 1
        /\ Cardinality(Seen("}")) + Len(stack) <=
              Cardinality(Seen("{")) + Skipped
        /\ state = "open" => at - 1 \in 1 .. Len(file) /\ file[at - 1] = "server"

LEMMA SeenNext ==
    ASSUME ParserInv, NEW w
    PROVE  /\ Cardinality(Seen(w)) \in Nat
           /\ InFile /\ at' = at + 1 /\ UNCHANGED <<which, file>> =>
                /\ file[at] = w => Cardinality(Seen(w)') = Cardinality(Seen(w)) + 1
                /\ file[at] # w => Cardinality(Seen(w)') = Cardinality(Seen(w))
<1>1. at \in Nat /\ Start \in Nat /\ at >= Start
  BY DEF ParserInv, Start
<1>2. IsFiniteSet(Seen(w)) /\ at \notin Seen(w)
  <2>1. IsFiniteSet(Start .. at - 1)
    BY <1>1, FS_Interval
  <2>2. Seen(w) \subseteq Start .. at - 1
    BY DEF Seen
  <2> QED
    BY <1>1, <2>1, <2>2, FS_Subset
<1>3. Cardinality(Seen(w)) \in Nat
  BY <1>2, FS_CardinalityType
<1>4. ASSUME InFile, at' = at + 1, UNCHANGED <<which, file>>
      PROVE  /\ file[at] = w => Cardinality(Seen(w)') = Cardinality(Seen(w)) + 1
             /\ file[at] # w => Cardinality(Seen(w)') = Cardinality(Seen(w))
  <2>1. Seen(w)' = {k \in Start .. at : file[k] = w}
    BY <1>1, <1>4 DEF Seen, Start
  <2>2. \A k \in Start .. at : k \in Start .. at - 1 \/ k = at
    BY <1>1
  <2>3. Start .. at - 1 \subseteq Start .. at /\ at \in Start .. at
    BY <1>1
  <2>4. CASE file[at] = w
    <3>1. Seen(w)' = Seen(w) \cup {at}
      BY <2>1, <2>2, <2>3, <2>4 DEF Seen
    <3>2. Cardinality(Seen(w) \cup {at}) = Cardinality(Seen(w)) + 1
      BY <1>2, FS_AddElement
    <3> QED
      BY <2>4, <3>1, <3>2
  <2>5. CASE file[at] # w
    <3>1. Seen(w)' = Seen(w)
      BY <2>1, <2>2, <2>3, <2>5 DEF Seen
    <3> QED
      BY <1>3, <2>5, <3>1
  <2> QED
    BY <2>4, <2>5
<1> QED
  BY <1>3, <1>4

\* What a word does to the braces seen (a closed, b open), the blocks open (n),
\* and the one that was opened unseen (d).
LEMMA BraceSum ==
    \A a, b, n, n2, d \in Nat : a + n <= b + d =>
        /\ n2 <= n + 1 => a + n2 <= (b + 1) + d
        /\ n2 + 1 <= n => (a + 1) + n2 <= b + d
        /\ n2 <= n => a + n2 <= b + d
  OBVIOUS

LEMMA BraceLeft ==
    \A a, b \in Nat, n \in Nat \ {0} :
        /\ a + n <= b + 0 => b > a
        /\ a + n <= b + 1 => b >= a
  OBVIOUS

LEMMA PastLast == \A p \in Nat, l \in Nat : p <= l + 1 /\ ~(p <= l) => p - 1 = l
  OBVIOUS

LEMMA BraceStart ==
    /\ 0 + 0 <= 0 + 0 /\ 0 + 1 <= 0 + 1
    /\ \A l \in Nat : 1 <= l + 1 /\ (l # 0 => 3 <= l + 1 \/ l = 1)
  OBVIOUS

LEMMA BraceInit == ParserInit => BraceInv
<1> SUFFICES ASSUME ParserInit, state \notin Ends
             PROVE  /\ at <= Len(file) + 1 \/ Len(file) = 1
                    /\ Cardinality(Seen("}")) + Len(stack) <=
                          Cardinality(Seen("{")) + Skipped
                    /\ state # "open"
  BY DEF BraceInv
<1>1. ParserInv
  BY InitEstablishes
<1>2. Len(file) \in Nat /\ (file # <<>> => Len(file) # 0)
  BY <1>1, EmptySeq, LenProperties DEF ParserInv
<1>3. \A w : Seen(w) = {}
  BY DEF ParserInit, Seen, Start
<1>4. Cardinality({}) = 0
  BY FS_EmptySet
<1>5. Cardinality(Seen("}")) = 0 /\ Cardinality(Seen("{")) = 0
  BY <1>3, <1>4
<1>6. CASE which = "config"
  <2>1. at = 1 /\ stack = <<>> /\ state = "top"
    BY <1>6 DEF ParserInit
  <2>2. Len(stack) = 0 /\ Skipped = 0
    BY <1>6, <2>1, EmptySeq DEF Skipped
  <2>3. at <= Len(file) + 1
    BY <1>2, <2>1, BraceStart, Zenon
  <2>4. Cardinality(Seen("}")) + Len(stack) <= Cardinality(Seen("{")) + Skipped
    BY <1>5, <2>2, BraceStart, Zenon
  <2>5. state # "open"
    BY <2>1
  <2> QED
    BY <2>3, <2>4, <2>5, Zenon
<1>7. CASE which # "config"
  <2>1. at = 3 /\ stack = <<Frame("server")>> /\ which = "default"
    BY <1>7 DEF ParserInit
  <2>2. file # <<>> /\ state = "block"
    BY <1>7 DEF ParserInit, Ends
  <2>3. Len(stack) = 1 /\ Skipped = 1
    BY <2>1, StackOne DEF Skipped
  <2>4. at <= Len(file) + 1 \/ Len(file) = 1
    BY <1>2, <2>1, <2>2, BraceStart, Zenon
  <2>5. Cardinality(Seen("}")) + Len(stack) <= Cardinality(Seen("{")) + Skipped
    BY <1>5, <2>3, BraceStart, Zenon
  <2>6. state # "open"
    BY <2>2
  <2> QED
    BY <2>4, <2>5, <2>6, Zenon
<1> QED
  BY <1>6, <1>7

LEMMA BraceStep == ParserInv /\ BraceInv /\ [ParserNext]_parserVars => BraceInv'
<1> SUFFICES ASSUME ParserInv, BraceInv, [ParserNext]_parserVars,
                    state' \notin Ends, ~past'
             PROVE  (/\ at <= Len(file) + 1 \/ Len(file) = 1
                     /\ Cardinality(Seen("}")) + Len(stack) <=
                           Cardinality(Seen("{")) + Skipped
                     /\ state = "open" => /\ at - 1 \in 1 .. Len(file)
                                          /\ file[at - 1] = "server")'
  BY DEF BraceInv
<1>1. ASSUME NEW w, Takes(w)
      PROVE  (/\ at <= Len(file) + 1 \/ Len(file) = 1
              /\ Cardinality(Seen("}")) + Len(stack) <=
                    Cardinality(Seen("{")) + Skipped
              /\ state = "open" => /\ at - 1 \in 1 .. Len(file)
                                   /\ file[at - 1] = "server")'
  <2>1. /\ Reads(w) /\ at' = at + 1 /\ UNCHANGED <<which, file>> /\ state \notin Ends
        /\ Nests(w) /\ (state' = "open" => w = "server")
    BY <1>1 DEF Takes
  <2>2. InFile /\ w = file[at] /\ ~past
    BY <2>1, ReadsIs, Zenon
  <2>3. Cardinality(Seen("}")) + Len(stack) <=
              Cardinality(Seen("{")) + Skipped
    BY <2>1, <2>2, Zenon DEF BraceInv
  <2>4. /\ Cardinality(Seen("}")) \in Nat /\ Cardinality(Seen("{")) \in Nat
    BY SeenNext
  <2>9. /\ w = "}" => Cardinality(Seen("}")') = Cardinality(Seen("}")) + 1
        /\ w # "}" => Cardinality(Seen("}")') = Cardinality(Seen("}"))
        /\ w = "{" => Cardinality(Seen("{")') = Cardinality(Seen("{")) + 1
        /\ w # "{" => Cardinality(Seen("{")') = Cardinality(Seen("{"))
    BY <2>1, <2>2, SeenNext, Zenon
  <2>5. Cardinality(Seen("}")') + Len(stack') <=
              Cardinality(Seen("{")') + Skipped
    <3>1. /\ Skipped \in Nat /\ Len(stack) \in Nat /\ Len(stack') \in Nat
          /\ w = "{" => Len(stack') <= Len(stack) + 1
          /\ w = "}" => Len(stack') + 1 <= Len(stack)
          /\ w \notin {"{", "}"} => Len(stack') <= Len(stack)
      BY <2>1 DEF Nests, Skipped
    <3>2. PICK a, b, a2, b2, n, n2, d :
            /\ a = Cardinality(Seen("}")) /\ b = Cardinality(Seen("{"))
            /\ a2 = Cardinality(Seen("}")') /\ b2 = Cardinality(Seen("{")')
            /\ n = Len(stack) /\ n2 = Len(stack') /\ d = Skipped
      OBVIOUS
    <3>3. a \in Nat /\ b \in Nat /\ n \in Nat /\ n2 \in Nat /\ d \in Nat /\ a + n <= b + d
      BY <2>3, <2>4, <3>1, <3>2
    <3>7. (w = "{" => w # "}") /\ (w = "}" => w # "{")
      OBVIOUS
    <3>4. CASE w = "{"
      <4>1. a2 = a /\ b2 = b + 1 /\ n2 <= n + 1
        BY <2>9, <3>1, <3>2, <3>7, <3>4, Zenon
      <4>2. a2 + n2 <= b2 + d
        BY <3>3, <4>1, BraceSum, Zenon
      <4> QED
        BY <3>2, <4>2, Zenon
    <3>5. CASE w = "}"
      <4>1. a2 = a + 1 /\ b2 = b /\ n2 + 1 <= n
        BY <2>9, <3>1, <3>2, <3>7, <3>5, Zenon
      <4>2. a2 + n2 <= b2 + d
        BY <3>3, <4>1, BraceSum, Zenon
      <4> QED
        BY <3>2, <4>2, Zenon
    <3>6. CASE w \notin {"{", "}"}
      <4>1. a2 = a /\ b2 = b /\ n2 <= n
        BY <2>9, <3>1, <3>2, <3>7, <3>6, Zenon
      <4>2. a2 + n2 <= b2 + d
        BY <3>3, <4>1, BraceSum, Zenon
      <4> QED
        BY <3>2, <4>2, Zenon
    <3> QED
      BY <3>4, <3>5, <3>6
  <2>6. at \in 1 .. Len(file) /\ at' - 1 = at /\ at' <= Len(file') + 1
    BY <2>1, <2>2 DEF InFile, ParserInv, Start
  <2>7. state' = "open" => at' - 1 \in 1 .. Len(file') /\ file'[at' - 1] = "server"
    BY <2>1, <2>2, <2>6
  <2>8. Skipped' = Skipped
    BY <2>1 DEF Skipped
  <2> QED
    BY <2>5, <2>6, <2>7, <2>8
<1>2. CASE Stops
  BY <1>2 DEF Stops
<1>3. CASE UNCHANGED parserVars
  <2>1. /\ UNCHANGED <<which, file, at, stack, log, state>> /\ past' = past
    BY <1>3 DEF parserVars
  <2>2. /\ at <= Len(file) + 1 \/ Len(file) = 1
        /\ Cardinality(Seen("}")) + Len(stack) <=
              Cardinality(Seen("{")) + Skipped
        /\ state = "open" => at - 1 \in 1 .. Len(file) /\ file[at - 1] = "server"
    BY <2>1, Zenon DEF BraceInv
  <2>3. Seen("}")' = Seen("}") /\ Seen("{")' = Seen("{") /\ Skipped' = Skipped
    BY <2>1 DEF Seen, Start, Skipped
  <2> QED
    BY <2>1, <2>2, <2>3
<1> QED
  BY <1>1, <1>2, <1>3, EveryStep DEF Step

\* What PastEndOnlyIfUnclosed says of such a file.
Unclosing ==
    \/ Len(file) = 1 \/ Last(file) = "server"
    \/ which = "config" /\ Count("{", 1) > Count("}", 1)
    \/ which = "default" /\ Count("{", 3) >= Count("}", 3)

\* The step past the end is taken only in a file like that.
LEMMA PastStep ==
    ParserInv /\ BraceInv /\ PastEndOnlyIfUnclosed /\ [ParserNext]_parserVars
        => PastEndOnlyIfUnclosed'
<1> SUFFICES ASSUME ParserInv, BraceInv, PastEndOnlyIfUnclosed,
                    [ParserNext]_parserVars, past'
             PROVE  Unclosing'
  BY DEF PastEndOnlyIfUnclosed, Unclosing
<1>1. UNCHANGED <<which, file>>
  BY EveryStep DEF Step, Takes, Stops, parserVars
<1>2. SUFFICES Unclosing
  BY <1>1 DEF Unclosing, Count
<1>3. CASE past
  BY <1>3 DEF PastEndOnlyIfUnclosed, Unclosing
<1>4. CASE ~past
  <2>1. ~InFile /\ state \notin Ends /\ state # "top"
    <3>1. CASE ParserNext
      <4>1. ASSUME NEW w, Takes(w)
            PROVE  ~InFile /\ state \notin Ends /\ state # "top"
        <5>1. Reads(w) /\ state \notin Ends /\ (InFile \/ state # "top")
          BY <4>1 DEF Takes
        <5>2. ~InFile
          BY <1>4, <5>1, ReadsIs, Zenon
        <5> QED
          BY <5>1, <5>2
      <4>2. CASE Stops
        BY <1>4, <4>2, Zenon DEF Stops, Looked
      <4> QED
        BY <3>1, <4>1, <4>2, EveryStep DEF Step
    <3>2. CASE UNCHANGED parserVars
      BY <1>4, <3>2, Zenon DEF parserVars
    <3> QED
      BY <3>1, <3>2
  <2>2. /\ at <= Len(file) + 1 \/ Len(file) = 1
        /\ Cardinality(Seen("}")) + Len(stack) <=
              Cardinality(Seen("{")) + Skipped
        /\ state = "open" => at - 1 \in 1 .. Len(file) /\ file[at - 1] = "server"
    BY <1>4, <2>1, Zenon DEF BraceInv
  <2>3. CASE Len(file) = 1
    BY <2>3 DEF Unclosing
  <2>4. CASE Len(file) # 1
    <3>1. at - 1 = Len(file)
      <4>1. at \in Nat /\ Len(file) \in Nat
        BY LenProperties DEF ParserInv
      <4>2. at <= Len(file) + 1 /\ ~(at <= Len(file))
        BY <2>1, <2>2, <2>4 DEF InFile
      <4> QED
        BY <4>1, <4>2, PastLast, Zenon
    <3>2. CASE state = "open"
      BY <2>2, <3>1, <3>2 DEF Unclosing, Last
    <3>3. CASE state # "open"
      <4>1. stack # <<>> /\ StackOk(stack)
        BY <2>1, <3>3 DEF ParserInv
      <4>2. Len(stack) \in Nat \ {0}
        BY <4>1, TopIs
      <4>3. \A w : Seen(w) = {k \in Start .. Len(file) : file[k] = w}
        BY <3>1 DEF Seen
      <4>4. /\ Cardinality(Seen("}")) = Count("}", Start)
            /\ Cardinality(Seen("{")) = Count("{", Start)
            /\ Count("}", Start) \in Nat /\ Count("{", Start) \in Nat
        BY <4>3, SeenNext DEF Count
      <4>5. CASE which = "config"
        <5>1. Count("{", 1) > Count("}", 1)
          <6>1. Start = 1 /\ Skipped = 0
            BY <4>5 DEF Start, Skipped
          <6>2. Count("}", 1) + Len(stack) <= Count("{", 1) + 0
            BY <2>2, <4>4, <6>1, Zenon
          <6> QED
            BY <4>2, <4>4, <6>1, <6>2, BraceLeft, Zenon
        <5> QED
          BY <4>5, <5>1 DEF Unclosing
      <4>6. CASE which = "default"
        <5>1. Count("{", 3) >= Count("}", 3)
          <6>1. Start = 3 /\ Skipped = 1
            BY <4>6 DEF Start, Skipped
          <6>2. Count("}", 3) + Len(stack) <= Count("{", 3) + 1
            BY <2>2, <4>4, <6>1, Zenon
          <6> QED
            BY <4>2, <4>4, <6>1, <6>2, BraceLeft, Zenon
        <5> QED
          BY <4>6, <5>1 DEF Unclosing
      <4> QED
        BY <4>5, <4>6 DEF ParserInv
    <3> QED
      BY <3>2, <3>3
  <2> QED
    BY <2>3, <2>4
<1> QED
  BY <1>3, <1>4

\* For every file and whatever lies behind it in memory: the parser looks at
\* what is not in the file only if the file leaves a block open, breaks off
\* after "server", or is a default.conf of one word.
THEOREM EndPassedOnlyIfUnclosed == ParserSpec => []PastEndOnlyIfUnclosed
<1>1. ParserInit => PastEndOnlyIfUnclosed
  BY DEF ParserInit, PastEndOnlyIfUnclosed
<1> QED
  BY <1>1, ParserInvariance, BraceInit, BraceStep, PastStep, PTL DEF ParserSpec
=============================================================================
