--------------------------- MODULE ExchangeProofs ---------------------------
(***************************************************************************)
(* Every property of the module Exchange that holds, for any configuration,*)
(* files and requests: whatever an entry remembers of earlier requests,    *)
(*  - it changes no file that the location of the path it acts on does not *)
(*    let it change.  No invariant is needed: the checks read the request  *)
(*    the method then acts on, remembered or not;                          *)
(*  - every outcome of run() is made of what its own answer needs (Fine)   *)
(*    and tells what became of the files (Tells), so that EntryInv, of     *)
(*    answers and their headers, is inductive;                             *)
(*  - the parser reads a request that it accepts (Own), for all that a     *)
(*    rejected one leaves is never read again: Whole, what an entry        *)
(*    remembers between two requests, is inductive.                        *)
(***************************************************************************)
EXTENDS Exchange, SequenceTheorems, WellFoundedInduction, TLAPS

\* A page or an answer without one leaves the files alone.
LEMMA PageKeepsDisk == ASSUME NEW s, NEW c PROVE Page(s, c).disk = disk
BY DEF Page, Says, Typed

\* Nor does what a CGI's answer is made of.
LEMMA CgiKeepsDisk ==
    ASSUME NEW q, NEW s, NEW o \in CgiResults(q, s)
    PROVE  o.disk = disk
<1>1. PICK c \in CgiStatus, type \in CgiTypes : o = CgiResult(q, s, c, type)
  BY DEF CgiResults
<1>2. CgiSays(q, c, type).disk = disk
  BY DEF CgiSays, Says, Typed
<1>3. ASSUME NEW p PROVE CgiPaged(s, p).disk = disk
  BY DEF CgiPaged, Page, Says, Typed
<1> QED
  BY <1>1, <1>2, <1>3 DEF CgiResult

\* What answers GET, HEAD and POST leaves the files alone.
LEMMA GetKeepsDisk ==
    ASSUME NEW q, NEW s, NEW t, NEW o \in Get(q, s, t) \cup Post(q, s) \cup {ReadContent(s, t)}
    PROVE  o.disk = disk
<1>1. ReadContent(s, t).disk = disk
  BY PageKeepsDisk DEF ReadContent, Says, Typed
<1>2. \A c \in CgiResults(q, s) : c.disk = disk
  BY CgiKeepsDisk
<1>3. Redirected(s.redirect).disk = disk
  BY DEF Redirected, Says
<1>4. Says(204, "").disk = disk
  BY DEF Says
<1>5. Page(s, q.status).disk = disk
  BY PageKeepsDisk
<1>6. ASSUME o \in Get(q, s, t)
      PROVE  \/ o = Redirected(s.redirect) \/ o \in CgiResults(q, s)
             \/ o = ReadContent(s, t) \/ o = Page(s, q.status)
  BY <1>6, Zenon DEF Get
<1>7. ASSUME o \in Post(q, s)
      PROVE  o \in CgiResults(q, s) \/ o = Says(204, "")
  BY <1>7, Zenon DEF Post
<1>8. o \in Get(q, s, t) \/ o \in Post(q, s) \/ o = ReadContent(s, t)
  OBVIOUS
<1>9. CASE o \in Get(q, s, t)
  BY <1>1, <1>2, <1>3, <1>5, <1>6, <1>9, Zenon
<1>10. CASE o \in Post(q, s)
  BY <1>2, <1>4, <1>7, <1>10, Zenon
<1> QED
  BY <1>1, <1>8, <1>9, <1>10, Zenon

\* A request that is refused leaves the files alone, and so do those that read.
LEMMA OnlyAllowedChange ==
    ASSUME NEW q, NEW s, NEW t, NEW o \in Run(q, s, t), o.disk # disk
    PROVE  Refuses(q, s) = 0 /\ q.method \in {"PUT", "DELETE"}
<1>1. Refuses(q, s) = 0
  <2> DEFINE n == Refuses(q, s)
  <2>1. Says(n, "").disk = disk
    BY DEF Says
  <2> HIDE DEF n
  <2>2. n # 0 => o = Says(n, "")
    BY Zenon DEF Run, n
  <2> QED
    BY <2>1, <2>2 DEF n
<1>2. CASE q.method \in {"GET", "HEAD", "POST"}
  BY <1>1, <1>2, GetKeepsDisk DEF Run
<1> QED
  BY <1>1, <1>2 DEF Run

\* Every step that changes a file processes a request, and that was not refused.
LEMMA StepObeys ==
    [ExchangeNext]_exchangeVars /\ disk' # disk =>
        /\ request'.method \in {"PUT", "DELETE"}
        /\ request'.method \in Settings(request').methods
        /\ ~(Settings(request').size < Len(request'.body))
<1> SUFFICES ASSUME [ExchangeNext]_exchangeVars, disk' # disk
             PROVE  /\ request'.method \in {"PUT", "DELETE"}
                    /\ request'.method \in Settings(request').methods
                    /\ ~(Settings(request').size < Len(request'.body))
  OBVIOUS
<1>1. \E r : Process(r)
  BY DEF ExchangeNext, Exchange, Again, Mute, Finish, Move, exchangeVars
<1>2. PICK r : Process(r)
  BY <1>1
<1> DEFINE q == ParseProcess(r)
           s == Conf[Found(q).block]
           t == TargetAt(q, Found(q))
<1>3. request' = q
  BY <1>2 DEF Process
<1>4. PICK o \in Run(q, s, t) : disk' = o.disk
  BY <1>2 DEF Process
<1>5. Refuses(q, s) = 0 /\ q.method \in {"PUT", "DELETE"}
  <2> HIDE DEF q, s, t
  <2> QED
    BY <1>4, OnlyAllowedChange
<1>6. q.method \in s.methods /\ ~(s.size < Len(q.body))
  <2> HIDE DEF q, s
  <2> QED
    BY <1>5 DEF Refuses
<1> HIDE DEF q
<1> QED
  BY <1>3, <1>5, <1>6 DEF Settings

\* No step on any instance changes a file against the settings of the location.
THEOREM ConfigAlwaysObeyed == ExchangeSpec => ConfigObeyed
BY StepObeys, PTL DEF ExchangeSpec, ConfigObeyed

---------------------------------------------------------------------------
(* What is left of a body                                                  *)

\* A nonempty set of positions has a least one, and Min is it.
LEMMA LeastPosition ==
    ASSUME NEW S, S \subseteq Nat, S # {}
    PROVE  Min(S) \in S /\ \A x \in S : Min(S) <= x
<1> DEFINE Less == {ss \in Nat \X Nat : ss[1] < ss[2]}
<1>1. IsWellFoundedOn(Less, Nat)
  <2>1. OpToRel(<, Nat) = Less
    BY DEF OpToRel
  <2> QED
    BY <2>1, NatLessThanWellFounded
<1>2. PICK m \in S : \A y \in S : ~(<<y, m>> \in Less)
  <2> HIDE DEF Less
  <2> QED
    BY <1>1, WFMin
<1>3. ASSUME NEW y \in S
      PROVE  m <= y
  <2>1. y \in Nat /\ m \in Nat /\ (y < m => <<y, m>> \in Less)
    OBVIOUS
  <2> QED
    BY <1>2, <2>1
<1> QED
  BY <1>3, Zenon DEF Min

\* Every unit a request may hold; that a literal is in STRING the provers do not know.
Units == STRING \cup Blanks \cup {"more", "length", ""}

\* Where the first unit is that is no blank.
LEMMA FirstInk ==
    ASSUME NEW u \in Seq(Units)
    PROVE  LET i == SelectInSeq(u, LAMBDA x : x \notin Blanks)
           IN  /\ (\A k \in 1 .. Len(u) : u[k] \in Blanks) => i = 0
               /\ (\E k \in 1 .. Len(u) : u[k] \notin Blanks) =>
                     /\ i \in 1 .. Len(u) /\ u[i] \notin Blanks
                     /\ \A k \in 1 .. i - 1 : u[k] \in Blanks
<1> DEFINE I == {k \in 1 .. Len(u) : u[k] \notin Blanks}
           i == SelectInSeq(u, LAMBDA x : x \notin Blanks)
<1>1. i = IF I # {} THEN Min(I) ELSE 0
  BY DEF SelectInSeq
<1>2. I \subseteq Nat
  OBVIOUS
<1>3. I # {} => Min(I) \in I /\ \A x \in I : Min(I) <= x
  <2> HIDE DEF I
  <2> QED
    BY <1>2, LeastPosition
<1>4. \A k \in 1 .. Len(u) : k \in I <=> u[k] \notin Blanks
  OBVIOUS
<1>5. CASE I = {}
  <2>1. i = 0 /\ \A k \in 1 .. Len(u) : u[k] \in Blanks
    BY <1>1, <1>4, <1>5
  <2> QED
    BY <2>1
<1>6. CASE I # {}
  <2>1. i \in I /\ \A x \in I : i <= x
    BY <1>1, <1>3, <1>6
  <2>2. \A k \in 1 .. i - 1 : k \in 1 .. Len(u) /\ ~(i <= k)
    BY <2>1
  <2>3. \A k \in 1 .. i - 1 : u[k] \in Blanks
    BY <1>4, <2>1, <2>2
  <2>4. i \in 1 .. Len(u) /\ u[i] \notin Blanks
    BY <2>1
  <2> HIDE DEF i
  <2> QED
    BY <2>3, <2>4 DEF i
<1> QED
  BY <1>5, <1>6

\* What parseBody cuts off is blanks.
Cut(b) == Max({k \in 0 .. 4 : k <= Len(b) /\
                 SubSeq(b, Len(b) - k + 1, Len(b)) = SubSeq(LineEnds, 5 - k, 4)})

LEMMA CutsBlanks ==
    ASSUME NEW b \in Seq(Units)
    PROVE  /\ Cut(b) \in 0 .. 4 /\ Cut(b) <= Len(b)
           /\ \A k \in Len(b) - Cut(b) + 1 .. Len(b) : b[k] \in Blanks
<1> DEFINE L == Len(b)
           S == {k \in 0 .. 4 : k <= L /\ SubSeq(b, L - k + 1, L) = SubSeq(LineEnds, 5 - k, 4)}
<1>1. L \in Nat
  OBVIOUS
<1>2. 0 \in S
  <2>1. SubSeq(b, L - 0 + 1, L) = <<>> /\ SubSeq(LineEnds, 5 - 0, 4) = <<>>
    BY <1>1, SubSeqEmpty
  <2> QED
    BY <1>1, <2>1
<1>3. Max(S) \in S
  <2>1. S \subseteq 0 .. 4
    OBVIOUS
  <2> HIDE DEF S
  <2>2. \E x \in S : \A y \in S : x >= y
    BY <1>2, <2>1
  <2> QED
    BY <2>2 DEF Max
<1>4. PICK c \in S : c = Cut(b)
  BY <1>3 DEF Cut
<1>5. c \in 0 .. 4 /\ c <= L /\ SubSeq(b, L - c + 1, L) = SubSeq(LineEnds, 5 - c, 4)
  OBVIOUS
<1>6. ASSUME NEW k \in L - c + 1 .. L
      PROVE  b[k] \in Blanks
  <2>1. SubSeq(b, L - c + 1, L)[k - (L - c)] = b[k]
    BY <1>1, <1>5
  <2>2. SubSeq(LineEnds, 5 - c, 4)[k - (L - c)] = LineEnds[5 - c + (k - (L - c)) - 1]
    BY <1>1, <1>5 DEF LineEnds
  <2>3. 5 - c + (k - (L - c)) - 1 \in 1 .. 4
    BY <1>1, <1>5
  <2>4. \A j \in 1 .. 4 : LineEnds[j] \in Blanks
    <3>1. LineEnds[1] \in Blanks /\ LineEnds[2] \in Blanks /\ LineEnds[3] \in Blanks
          /\ LineEnds[4] \in Blanks
      BY DEF LineEnds, Blanks
    <3>2. \A j \in 1 .. 4 : j = 1 \/ j = 2 \/ j = 3 \/ j = 4
      OBVIOUS
    <3> QED
      BY <3>1, <3>2
  <2> QED
    BY <1>5, <2>1, <2>2, <2>3, <2>4
<1> HIDE DEF S
<1> QED
  BY <1>4, <1>5, <1>6

\* What is left starts with the first unit that is no blank, and is nothing only when all
\* are blanks.
LEMMA BodyType ==
    ASSUME NEW u \in Seq(Units)
    PROVE  /\ BodyOf(u) \in Seq(Units)
           /\ BodyOf(u) = <<>> \/ Head(BodyOf(u)) \notin Blanks
           /\ (\E k \in 1 .. Len(u) : u[k] \notin Blanks) => BodyOf(u) # <<>>
<1> DEFINE i == SelectInSeq(u, LAMBDA x : x \notin Blanks)
           b == SubSeq(u, (i - 1) + 1, Len(u))
           r == SubSeq(b, 1, Len(b) - Cut(b))
<1>1. BodyOf(u) = IF i - 1 < 0 THEN <<>> ELSE r
  BY DEF BodyOf, Cut
<1>2. CASE \A k \in 1 .. Len(u) : u[k] \in Blanks
  <2>1. i = 0
    BY <1>2, FirstInk
  <2>2. i - 1 < 0
    BY <2>1
  <2> QED
    BY <1>1, <1>2, <2>2
<1>3. CASE \E k \in 1 .. Len(u) : u[k] \notin Blanks
  <2>1. i \in 1 .. Len(u) /\ u[i] \notin Blanks
    BY <1>3, FirstInk
  <2> HIDE DEF i
  <2>2. b \in Seq(Units) /\ Len(b) = Len(u) - i + 1 /\ Len(b) \in Nat \ {0} /\ b[1] = u[i]
    BY <2>1
  <2> HIDE DEF b
  <2>3. Cut(b) \in 0 .. Len(b) - 1
    BY <2>1, <2>2, CutsBlanks
  <2>4. r \in Seq(Units) /\ r # <<>> /\ Head(r) = b[1]
    BY <2>2, <2>3
  <2> HIDE DEF r
  <2>5. BodyOf(u) = r
    BY <1>1, <2>1
  <2> QED
    BY <2>1, <2>2, <2>4, <2>5
<1> QED
  BY <1>2, <1>3

\* Blanks before a body make no difference.
LEMMA BodySkips ==
    ASSUME NEW u \in Seq(Units), NEW e \in Seq(Units), NEW n \in Nat, n = Len(e),
           \A k \in 1 .. n : e[k] \in Blanks
    PROVE  BodyOf(e \o u) = BodyOf(u)
<1> DEFINE v == e \o u
           i == SelectInSeq(u, LAMBDA x : x \notin Blanks)
           j == SelectInSeq(v, LAMBDA x : x \notin Blanks)
           b == SubSeq(u, (i - 1) + 1, Len(u))
           d == SubSeq(v, (j - 1) + 1, Len(v))
<1>1. /\ BodyOf(u) = IF i - 1 < 0 THEN <<>> ELSE SubSeq(b, 1, Len(b) - Cut(b))
      /\ BodyOf(v) = IF j - 1 < 0 THEN <<>> ELSE SubSeq(d, 1, Len(d) - Cut(d))
  BY DEF BodyOf, Cut
<1>2. /\ v \in Seq(Units) /\ Len(v) = Len(u) + n /\ Len(u) \in Nat
      /\ \A k \in 1 .. n : v[k] \in Blanks
      /\ \A k \in 1 .. Len(u) : v[k + n] = u[k]
  BY ConcatProperties
<1> HIDE DEF v
<1>3. CASE \A k \in 1 .. Len(u) : u[k] \in Blanks
  <2>1. \A k \in 1 .. Len(v) : v[k] \in Blanks
    <3> SUFFICES ASSUME NEW k \in 1 .. Len(v), k \notin 1 .. n PROVE v[k] \in Blanks
      BY <1>2
    <3>1. k - n \in 1 .. Len(u) /\ (k - n) + n = k
      BY <1>2
    <3> QED
      BY <1>2, <1>3, <3>1
  <2>2. i = 0 /\ j = 0
    BY <1>2, <1>3, <2>1, FirstInk
  <2>3. i - 1 < 0 /\ j - 1 < 0
    BY <2>2
  <2> HIDE DEF i, j, b, d
  <2> QED
    BY <1>1, <2>3 DEF v
<1>4. CASE \E k \in 1 .. Len(u) : u[k] \notin Blanks
  <2>1. i \in 1 .. Len(u) /\ u[i] \notin Blanks /\ \A k \in 1 .. i - 1 : u[k] \in Blanks
    BY <1>4, FirstInk
  <2>2. j \in 1 .. Len(v) /\ v[j] \notin Blanks /\ \A k \in 1 .. j - 1 : v[k] \in Blanks
    <3>1. PICK k \in 1 .. Len(u) : u[k] \notin Blanks
      BY <1>4
    <3>2. k + n \in 1 .. Len(v) /\ v[k + n] \notin Blanks
      BY <1>2, <3>1
    <3> QED
      BY <1>2, <3>2, FirstInk
  <2> HIDE DEF i, j
  <2>3. j = i + n
    <3>1. j \notin 1 .. n
      BY <1>2, <2>2
    <3>2. j - n \in 1 .. Len(u) /\ u[j - n] \notin Blanks
      <4>1. j - n \in 1 .. Len(u) /\ (j - n) + n = j
        BY <1>2, <2>2, <3>1
      <4> QED
        BY <1>2, <2>2, <4>1
    <3>3. ~(j - n < i)
      BY <2>1, <2>2, <3>2
    <3>4. ~(i + n < j)
      <4>1. v[i + n] \notin Blanks
        BY <1>2, <2>1
      <4> QED
        BY <2>1, <2>2, <4>1
    <3> QED
      BY <2>1, <2>2, <3>3, <3>4
  <2>4. b = d
    <3>1. b \in Seq(Units) /\ Len(b) = Len(u) - i + 1
          /\ \A k \in 1 .. Len(u) - i + 1 : b[k] = u[i + k - 1]
      BY <2>1
    <3>2. d \in Seq(Units) /\ Len(d) = Len(v) - j + 1
          /\ \A k \in 1 .. Len(v) - j + 1 : d[k] = v[j + k - 1]
      BY <1>2, <2>2
    <3>3. Len(v) - j + 1 = Len(u) - i + 1
      BY <1>2, <2>1, <2>3
    <3>4. ASSUME NEW k \in 1 .. Len(u) - i + 1
          PROVE  b[k] = d[k]
      <4>1. i + k - 1 \in 1 .. Len(u) /\ (i + k - 1) + n = j + k - 1
        BY <1>2, <2>1, <2>3
      <4>2. v[(i + k - 1) + n] = u[i + k - 1]
        BY <1>2, <4>1
      <4> QED
        BY <3>1, <3>2, <3>3, <4>1, <4>2
    <3> HIDE DEF b, d
    <3> QED
      BY <3>1, <3>2, <3>3, <3>4, SeqEqual
  <2>5. ~(i - 1 < 0) /\ ~(j - 1 < 0)
    BY <2>1, <2>2
  <2> HIDE DEF b, d
  <2> QED
    BY <1>1, <2>4, <2>5 DEF v
<1> QED
  BY <1>3, <1>4

---------------------------------------------------------------------------
(* What an answer is made of                                               *)

KeptFields == {"type", "location"}

\* What holds of every outcome: a listing or a page has its own type, and what was left
\* in _response shows only while something was.
Fine(o) ==
    /\ DOMAIN o = {"status", "body", "disk", "kept"} /\ o.status \in Nat
    /\ DOMAIN o.kept = KeptFields
    /\ o.body \in {"listing", "page"} => o.kept.type = "text/html"
    /\ text = "" => o.body \notin {"stale", "cut"}

LEMMA SaysFine ==
    ASSUME DOMAIN kept = KeptFields, NEW n \in Nat, NEW b,
           b \notin {"listing", "page"}, text = "" => b \notin {"stale", "cut"}
    PROVE  Fine(Says(n, b)) /\ \A type : Fine(Typed(Says(n, b), type))
BY DEF Fine, Says, Typed, KeptFields

LEMMA HtmlFine ==
    ASSUME DOMAIN kept = KeptFields, NEW n \in Nat, NEW b \in {"listing", "page", "", "no page"}
    PROVE  Fine(Typed(Says(n, b), "text/html"))
BY DEF Fine, Says, Typed, KeptFields

LEMMA PageFine ==
    ASSUME DOMAIN kept = KeptFields, NEW s, NEW n \in Nat
    PROVE  Fine(Page(s, n)) /\ Page(s, n).status = n /\ Page(s, n).body \in {"page", "no page"}
<1>1. Page(s, n) \in {Typed(Says(n, "page"), "text/html"), Says(n, "no page")}
  BY DEF Page
<1>2. Fine(Typed(Says(n, "page"), "text/html")) /\ Fine(Says(n, "no page"))
  BY SaysFine, HtmlFine
<1>3. /\ Typed(Says(n, "page"), "text/html").status = n
      /\ Typed(Says(n, "page"), "text/html").body = "page"
      /\ Says(n, "no page").status = n /\ Says(n, "no page").body = "no page"
  BY DEF Typed, Says
<1> QED
  BY <1>1, <1>2, <1>3

LEMMA ReadFine ==
    ASSUME DOMAIN kept = KeptFields, NEW s, NEW t
    PROVE  Fine(ReadContent(s, t))
<1>1. \A n \in Nat : Fine(Page(s, n)) /\ Fine(Says(n, "file"))
  BY PageFine, SaysFine
<1>2. ASSUME NEW n \in Nat
      PROVE  Fine(Typed(Says(n, Listing(t)), "text/html"))
  BY HtmlFine DEF Listing
<1> DEFINE ok == 200
           denied == 403
           absent == 404
<1>3. ok \in Nat /\ denied \in Nat /\ absent \in Nat
  OBVIOUS
<1>4. ReadContent(s, t) =
        IF t \in DOMAIN disk
        THEN IF t \in Unreadable THEN Page(s, denied) ELSE Says(ok, "file")
        ELSE IF s.auto THEN Typed(Says(ok, Listing(t)), "text/html") ELSE Page(s, absent)
  BY DEF ReadContent
<1> HIDE DEF ok, denied, absent
<1> QED
  BY <1>1, <1>2, <1>3, <1>4, Zenon

LEMMA CgiFine ==
    ASSUME DOMAIN kept = KeptFields, NEW q, q.status \in Nat, NEW s, NEW o \in CgiResults(q, s)
    PROVE  Fine(o)
<1>1. PICK c \in CgiStatus, type \in CgiTypes : o = CgiResult(q, s, c, type)
  BY DEF CgiResults
<1> DEFINE said == CgiSays(q, c, type)
           failed == 500
           page == Page(s, failed)
<1>2. Fine(said)
  <2> DEFINE n == IF c = 0 THEN q.status ELSE c
             b == IF text = "" THEN "cgi" ELSE "cut"
  <2>1. n \in Nat
    BY ExchangeAssumption DEF ExchangeAssumption
  <2>2. b \notin {"listing", "page"} /\ (text = "" => b \notin {"stale", "cut"})
    OBVIOUS
  <2>3. said = Says(n, b) \/ said = Typed(Says(n, b), type)
    BY DEF CgiSays
  <2> HIDE DEF n, b, said
  <2> QED
    BY <2>1, <2>2, <2>3, SaysFine
<1>3. Fine(page) /\ page.body \in {"page", "no page"}
  <2>1. failed \in Nat
    OBVIOUS
  <2> HIDE DEF failed
  <2> QED
    BY <2>1, PageFine
<1> HIDE DEF said, page
<1>4. Fine([page EXCEPT !.kept = IF page.body = "page" THEN @ ELSE said.kept])
  BY <1>2, <1>3 DEF Fine
<1>5. o = said \/ o = [page EXCEPT !.kept = IF page.body = "page" THEN @ ELSE said.kept]
  BY <1>1 DEF CgiResult, CgiPaged, said, page
<1> QED
  BY <1>2, <1>4, <1>5

LEMMA RedirectFine ==
    ASSUME DOMAIN kept = KeptFields, NEW target
    PROVE  LET o == Redirected(target)
           IN  Fine(o) /\ o.status = 301 /\ o.kept.location = target
<1> DEFINE b == IF text = "" THEN "" ELSE "stale"
           o == [Says(301, b) EXCEPT !.kept.location = target]
<1>1. Fine(Says(301, b)) /\ Says(301, b).status = 301
  <2>1. \A n \in Nat : Fine(Says(n, b)) /\ Says(n, b).status = n
    <3>1. b \notin {"listing", "page"} /\ (text = "" => b \notin {"stale", "cut"})
      OBVIOUS
    <3> HIDE DEF b
    <3>2. \A n \in Nat : Says(n, b).status = n
      BY DEF Says
    <3> QED
      BY <3>1, <3>2, SaysFine
  <2>2. 301 \in Nat
    OBVIOUS
  <2> QED
    BY <2>1, <2>2, Zenon
<1>2. Says(301, b).body = b /\ b \notin {"listing", "page"}
  BY DEF Says
<1> DEFINE p == Says(301, b)
<1>3. ASSUME NEW x, Fine(x), x.body \notin {"listing", "page"}
      PROVE  LET y == [x EXCEPT !.kept.location = target]
             IN  Fine(y) /\ y.status = x.status /\ y.kept.location = target
  BY <1>3 DEF Fine, KeptFields
<1>4. Redirected(target) = o
  BY Zenon DEF Redirected
<1> HIDE DEF b
<1>5. Fine(o) /\ o.status = 301 /\ o.kept.location = target
  BY <1>1, <1>2, <1>3
<1> QED
  BY <1>4, <1>5

\* Storing or removing a file does not change what the answer says.
LEMMA DiskFine ==
    ASSUME NEW o, Fine(o), NEW d
    PROVE  Fine([o EXCEPT !.disk = d])
BY DEF Fine

LEMMA WriteFine ==
    ASSUME DOMAIN kept = KeptFields, NEW q, NEW s, NEW t
    PROVE  Fine(Put(q, s, t)) /\ Fine(Delete(s, t))
<1>1. \A n \in Nat : Fine(Page(s, n)) /\ Fine(Says(n, ""))
  BY PageFine, SaysFine
<1>2. \A n \in Nat : \A d : Fine([Says(n, "") EXCEPT !.disk = d])
  BY <1>1, DiskFine
<1> DEFINE created == 201
           done == 204
           denied == 403
           absent == 404
<1>3. created \in Nat /\ done \in Nat /\ denied \in Nat /\ absent \in Nat
  OBVIOUS
<1>4. Fine(Put(q, s, t))
  <2> DEFINE n == IF t \in DOMAIN disk THEN done ELSE created
             refusal == Page(s, denied)
             nothing == Says(done, "")
             stored == [Says(n, "") EXCEPT !.disk = With(t, q.body)]
  <2>1. Put(q, s, t) = IF t \in Locked /\ t \notin DOMAIN disk THEN refusal
                       ELSE IF t \in Locked THEN nothing ELSE stored
    BY Zenon DEF Put
  <2> HIDE DEF created, done, denied
  <2>2. n \in Nat
    BY <1>3
  <2>3. Fine(refusal) /\ Fine(nothing)
    BY <1>1, <1>3
  <2> HIDE DEF n
  <2>4. Fine(stored)
    BY <1>2, <2>2, Zenon
  <2> HIDE DEF refusal, nothing, stored
  <2> QED
    BY <2>1, <2>3, <2>4, Zenon
<1>5. Fine(Delete(s, t))
  <2> DEFINE refusal == Page(s, denied)
             nothing == Page(s, absent)
             removed == [Says(done, "") EXCEPT !.disk = Without(t)]
  <2>1. Delete(s, t) = IF t \notin DOMAIN disk THEN nothing
                       ELSE IF t \in Locked THEN refusal ELSE removed
    BY Zenon DEF Delete
  <2> HIDE DEF done, denied, absent
  <2>2. Fine(refusal) /\ Fine(nothing)
    BY <1>1, <1>3
  <2>3. Fine(removed)
    BY <1>2, <1>3, Zenon
  <2> HIDE DEF refusal, nothing, removed
  <2> QED
    BY <2>1, <2>2, <2>3, Zenon
<1> QED
  BY <1>4, <1>5

\* Every outcome of a request, refused or not.
FineFor(q, s, o) ==
    /\ Fine(o)
    /\ Refuses(q, s) # 0 => o.body = ""
    /\ Refuses(q, s) = 0 /\ q.method = "GET" /\ s.redirect # <<>> =>
          o.status = 301 /\ o.kept.location = s.redirect

LEMMA OutcomeFine ==
    ASSUME DOMAIN kept = KeptFields, NEW q, q.status \in Nat, NEW s, NEW t, NEW o \in Run(q, s, t)
    PROVE  FineFor(q, s, o)
<1> SUFFICES /\ Fine(o)
             /\ Refuses(q, s) # 0 => o.body = ""
             /\ Refuses(q, s) = 0 /\ q.method = "GET" /\ s.redirect # <<>> =>
                   o.status = 301 /\ o.kept.location = s.redirect
  BY DEF FineFor
<1> DEFINE n == Refuses(q, s)
<1>1. n \in Nat
  BY DEF Refuses
<1>2. Fine(Says(n, "")) /\ Says(n, "").body = ""
  <2> HIDE DEF n
  <2>1. Says(n, "").body = ""
    BY DEF Says
  <2> QED
    BY <1>1, <2>1, SaysFine
<1>3. CASE n # 0
  <2> HIDE DEF n
  <2>1. o = Says(n, "")
    BY <1>3, Zenon DEF Run, n
  <2> QED
    BY <1>2, <1>3, <2>1 DEF n
<1>4. CASE n = 0
  <2>1. Fine(ReadContent(s, t)) /\ Fine(Put(q, s, t)) /\ Fine(Delete(s, t))
    BY ReadFine, WriteFine
  <2>2. Fine(Page(s, q.status))
    BY PageFine
  <2>3. \A c \in CgiResults(q, s) : Fine(c)
    BY CgiFine
  <2>4. /\ Fine(Redirected(s.redirect)) /\ Redirected(s.redirect).status = 301
        /\ Redirected(s.redirect).kept.location = s.redirect
    BY RedirectFine
  <2>5. Fine(Says(204, ""))
    <3>1. \A k \in Nat : Fine(Says(k, ""))
      BY SaysFine
    <3>2. 204 \in Nat
      OBVIOUS
    <3> QED
      BY <3>1, <3>2, Zenon
  <2> HIDE DEF n
  <2>6. CASE q.method = "GET"
    <3>1. o \in Get(q, s, t)
      BY <1>4, <2>6 DEF Run, n
    <3>2. s.redirect # <<>> => o = Redirected(s.redirect)
      BY <3>1, Zenon DEF Get
    <3>3. \/ o = Redirected(s.redirect) \/ o \in CgiResults(q, s)
          \/ o = ReadContent(s, t) \/ o = Page(s, q.status)
      BY <3>1, Zenon DEF Get
    <3>4. Fine(o)
      BY <2>1, <2>2, <2>3, <2>4, <3>3, Zenon
    <3> QED
      BY <1>4, <2>4, <3>2, <3>4 DEF n
  <2>7. CASE q.method # "GET"
    <3>1. \/ o = ReadContent(s, t) \/ o \in Post(q, s)
          \/ o = Put(q, s, t) \/ o = Delete(s, t)
      BY <1>4, <2>7 DEF Run, n
    <3>2. o \in Post(q, s) => o \in CgiResults(q, s) \/ o = Says(204, "")
      BY Zenon DEF Post
    <3>3. Fine(o)
      BY <2>1, <2>3, <2>5, <3>1, <3>2, Zenon
    <3> QED
      BY <1>4, <2>7, <3>3 DEF n
  <2> QED
    BY <2>6, <2>7
<1> QED
  BY <1>3, <1>4

---------------------------------------------------------------------------
(* What the parser makes of a request                                      *)

RequestFields == {"method", "path", "query", "version", "host", "auth", "known", "env",
                  "status", "body"}

\* The start line: a request that is accepted was not rejected before, and gives
\* its own method and path, and its query if it has one.
StartKeeps(q, p) ==
    /\ DOMAIN p = RequestFields /\ p.status \in {200, 400}
    /\ p.body = q.body /\ p.env = q.env /\ p.auth = q.auth

StartReads(q, r, p) ==
    p.status = 200 =>
        /\ q.status = 200 /\ p.method = r.method /\ p.path = r.path
        /\ p.query = LastQuery(q, r) /\ KnownVersion(p.version)
        /\ r.words \in 1 .. 3 => r.method \in ValidMethods

LEMMA StartLineReads ==
    ASSUME NEW q, DOMAIN q = RequestFields, q.status \in {200, 400}, NEW r
    PROVE  StartKeeps(q, StartLine(q, r)) /\ StartReads(q, r, StartLine(q, r))
<1> DEFINE withMethod == [q EXCEPT !.method = r.method]
           withPath == [withMethod EXCEPT !.path = r.path, !.query = LastQuery(q, r)]
           withVersion == IF r.version = "" THEN withPath
                          ELSE [withPath EXCEPT !.version = r.version]
           Kept(p) == /\ DOMAIN p = RequestFields /\ p.status = q.status
                      /\ p.body = q.body /\ p.env = q.env /\ p.auth = q.auth
           p == StartLine(q, r)
<1>1. Kept(q) /\ Kept(withMethod)
  BY DEF RequestFields
<1>2. Kept(withPath) /\ withPath.method = r.method /\ withPath.path = r.path
      /\ withPath.query = LastQuery(q, r)
  BY DEF RequestFields
<1>3. Kept(withVersion) /\ withVersion.method = r.method /\ withVersion.path = r.path
      /\ withVersion.query = LastQuery(q, r)
  <2> HIDE DEF withPath
  <2> QED
    BY <1>2 DEF RequestFields
<1>4. ASSUME NEW x, Kept(x)
      PROVE  LET y == [x EXCEPT !.status = 400]
             IN  /\ DOMAIN y = RequestFields /\ y.status = 400
                 /\ y.body = q.body /\ y.env = q.env /\ y.auth = q.auth
  BY <1>4 DEF RequestFields
<1>5. CASE q.status # 200
  <2>1. p = q
    BY <1>5 DEF StartLine
  <2> QED
    BY <1>5, <2>1 DEF StartKeeps, StartReads
<1>6. CASE q.status = 200
  <2>1. \/ \E x \in {q, withMethod, withVersion} : p = [x EXCEPT !.status = 400]
        \/ /\ p = withVersion /\ KnownVersion(withVersion.version)
           /\ r.words \in 1 .. 3 => r.method \in ValidMethods
    <3>1. CASE r.words = 1
      BY <1>6, <3>1 DEF StartLine
    <3>2. CASE r.words # 1 /\ r.words > 1 /\ r.method \notin ValidMethods
      <4>1. p = [withMethod EXCEPT !.status = 400]
        BY <1>6, <3>2 DEF StartLine
      <4> HIDE DEF p, withMethod, withPath, withVersion
      <4> QED
        BY <4>1
    <3>3. CASE r.words = 2 /\ r.method \in ValidMethods
      <4>1. p = [withMethod EXCEPT !.status = 400]
        BY <1>6, <3>3 DEF StartLine
      <4> HIDE DEF p, withMethod, withPath, withVersion
      <4> QED
        BY <4>1
    <3>4. CASE /\ r.words # 1 /\ ~(r.words > 1 /\ r.method \notin ValidMethods)
               /\ ~(r.words = 2 /\ r.method \in ValidMethods)
      <4>1. p = IF KnownVersion(withVersion.version) THEN withVersion
                ELSE [withVersion EXCEPT !.status = 400]
        BY <1>6, <3>4 DEF StartLine
      <4>2. r.words \in 1 .. 3 => r.method \in ValidMethods
        BY <3>4
      <4> HIDE DEF p, withMethod, withPath, withVersion
      <4> QED
        BY <4>1, <4>2
    <3> QED
      BY <3>1, <3>2, <3>3, <3>4
  <2> HIDE DEF withMethod, withPath, withVersion, p
  <2>2. CASE /\ p = withVersion /\ KnownVersion(withVersion.version)
             /\ r.words \in 1 .. 3 => r.method \in ValidMethods
    <3> QED
      BY <1>3, <1>6, <2>2 DEF p, StartKeeps, StartReads
  <2>3. ASSUME NEW x \in {q, withMethod, withVersion}, p = [x EXCEPT !.status = 400]
        PROVE  /\ DOMAIN p = RequestFields /\ p.status = 400
               /\ p.body = q.body /\ p.env = q.env /\ p.auth = q.auth
    <3>1. Kept(x)
      BY <1>1, <1>3
    <3> HIDE DEF Kept
    <3> QED
      BY <1>4, <2>3, <3>1
  <2>4. CASE \E x \in {q, withMethod, withVersion} : p = [x EXCEPT !.status = 400]
    <3>1. /\ DOMAIN p = RequestFields /\ p.status = 400
          /\ p.body = q.body /\ p.env = q.env /\ p.auth = q.auth
      BY <2>3, <2>4
    <3> QED
      BY <3>1 DEF p, StartKeeps, StartReads
  <2> QED
    BY <2>1, <2>2, <2>4
<1> QED
  BY <1>5, <1>6

\* The header and the body: what the start line said stays, and a body is what
\* comes behind the lines that were read.
Rest(q, r) ==
    BodyOf(Text(IF q.status # 400 \/ Lines(r) = <<>> THEN <<>> ELSE Tail(Lines(r)))
           \o <<"\r", "\n">> \o r.body)

HeadKeeps(q, p) ==
    /\ DOMAIN p = RequestFields /\ p.status = q.status
    /\ p.method = q.method /\ p.path = q.path /\ p.query = q.query /\ p.version = q.version

HeadBody(q, r, p) == p.body = IF Rest(q, r) # <<>> THEN Rest(q, r) ELSE q.body

Secret(q, r) == IF q.status # 400 THEN r.secret ELSE ""

HeadEnters(q, r, p) ==
    p.auth \in {r.auth, q.auth} /\ p.env = Environment(q, Secret(q, r), p.auth)

LEMMA HeaderReads ==
    ASSUME NEW q, DOMAIN q = RequestFields, NEW r
    PROVE  LET p == HeaderAndBody(q, r)
           IN  HeadKeeps(q, p) /\ HeadBody(q, r, p) /\ HeadEnters(q, r, p)
<1> DEFINE auth == IF q.status # 400 /\ r.auth # "" /\ q.known THEN r.auth ELSE q.auth
           host == IF r.host # "" /\ q.status # 400 THEN r.host ELSE q.host
           env == Environment(q, Secret(q, r), auth)
           body == IF Rest(q, r) # <<>> THEN Rest(q, r) ELSE q.body
           p == [q EXCEPT !.host = host, !.auth = auth, !.known = TRUE, !.env = env,
                          !.body = body]
<1>1. HeaderAndBody(q, r) = p
  BY DEF HeaderAndBody, Rest, Secret
<1>2. auth \in {r.auth, q.auth}
  OBVIOUS
<1> HIDE DEF auth, host, env, body
<1>3. HeadKeeps(q, p) /\ p.body = body /\ p.auth = auth /\ p.env = env
  BY DEF RequestFields, HeadKeeps
<1> HIDE DEF p
<1>4. HeadBody(q, r, p)
  BY <1>3 DEF HeadBody, body
<1>5. HeadEnters(q, r, p)
  <2>1. p.env = Environment(q, Secret(q, r), p.auth)
    BY <1>3, Zenon DEF env
  <2> QED
    BY <1>2, <1>3, <2>1 DEF HeadEnters
<1> QED
  BY <1>1, <1>3, <1>4, <1>5, Zenon

---------------------------------------------------------------------------
(* What an answer says                                                     *)

\* What an entry is between any two steps: its request and its response are whole,
\* and text is left only while an answer is on its way.
EntrySound ==
    /\ DOMAIN request = RequestFields /\ request.status \in {200, 400}
    /\ DOMAIN kept = KeptFields
    /\ text \in {"", "answer"} /\ (~Pending => text = "")

LEMMA ParsedWhole ==
    ASSUME DOMAIN request = RequestFields, request.status \in {200, 400}, NEW r
    PROVE  LET q == ParseProcess(r)
           IN  DOMAIN q = RequestFields /\ q.status \in {200, 400}
<1> DEFINE p == StartLine(request, r)
<1>1. DOMAIN p = RequestFields /\ p.status \in {200, 400}
  BY StartLineReads DEF StartKeeps
<1> HIDE DEF p
<1>2. LET q == HeaderAndBody(p, r)
      IN  DOMAIN q = RequestFields /\ q.status = p.status
  <2>1. LET q == HeaderAndBody(p, r) IN HeadKeeps(p, q)
    BY <1>1, HeaderReads
  <2> QED
    BY <2>1 DEF HeadKeeps
<1> QED
  BY <1>1, <1>2 DEF ParseProcess, p

\* The header of any outcome of an accepted or a rejected request.
FineHeader(o, h) ==
    /\ h.location # <<>> => o.status = 201 \/ o.status \in 300 .. 399
    /\ o.body \in {"listing", "page"} => h.type = "text/html"
    /\ h.allow = {}
    /\ o.status = 301 => h.location = o.kept.location

LEMMA HeaderFits ==
    ASSUME NEW o, Fine(o), NEW t
    PROVE  FineHeader(o, Header(o, t))
<1> DEFINE h == Header(o, t)
<1>1. /\ h.type = IF o.kept.type # "" THEN o.kept.type ELSE TypeByName(t)
      /\ h.location = IF Moves(o.status) THEN o.kept.location ELSE <<>>
      /\ h.allow = {}
  BY DEF Header
<1>2. \A n \in Nat : Moves(n) => n = 201 \/ n \in 300 .. 399
  BY DEF Moves
<1>3. \A n \in Nat : n = 301 => Moves(n)
  BY DEF Moves
<1>4. o.status \in Nat /\ (o.body \in {"listing", "page"} => o.kept.type = "text/html")
  BY DEF Fine
<1> HIDE DEF h
<1>5. h.location # <<>> => o.status = 201 \/ o.status \in 300 .. 399
  <2>1. h.location # <<>> => Moves(o.status)
    BY <1>1
  <2>2. PICK n \in Nat : n = o.status
    BY <1>4
  <2>3. Moves(n) => n = 201 \/ n \in 300 .. 399
    BY <1>2
  <2> QED
    BY <2>1, <2>2, <2>3
<1>6. o.status = 301 => h.location = o.kept.location
  BY <1>1, <1>3, <1>4
<1>7. o.body \in {"listing", "page"} => h.type = "text/html"
  BY <1>1, <1>4
<1> QED
  BY <1>1, <1>5, <1>6, <1>7 DEF h, FineHeader

\* The answer a request gets, made whenever its entry is sound.
LEMMA ProcessFits ==
    ASSUME EntrySound, NEW r, Process(r)
    PROVE  EntrySound' /\ AnswerIsOwn' /\ HeadersFit'
<1> DEFINE q == ParseProcess(r)
           found == Found(q)
           s == Conf[found.block]
           t == TargetAt(q, found)
           refused == Refuses(q, s) # 0
           content == ContentAt(q, found)
           env == IF RunsCgi(q, s) THEN CgiEnv(q, s, content) ELSE NoAnswer.env
<1>1. DOMAIN q = RequestFields /\ q.status \in {200, 400}
  BY ParsedWhole DEF EntrySound
<1>2. request' = q /\ text' = "answer"
  BY DEF Process
<1>3. PICK o \in Run(q, s, t) :
        /\ kept' = o.kept
        /\ answer' = [req |-> r, parsed |-> q, again |-> Pending, sent |-> FALSE,
                      status |-> o.status, body |-> o.body,
                      header |-> IF refused THEN Refusal(s, content) ELSE Header(o, t),
                      env |-> env, target |-> t, block |-> found.block]
  BY DEF Process
<1> HIDE DEF q, t, content, env
<1>4. /\ Fine(o) /\ (refused => o.body = "")
      /\ ~refused /\ q.method = "GET" /\ s.redirect # <<>> =>
            o.status = 301 /\ o.kept.location = s.redirect
  <2> HIDE DEF s, found
  <2>1. DOMAIN kept = KeptFields
    BY DEF EntrySound
  <2>2. q.status \in Nat
    BY <1>1
  <2>3. FineFor(q, s, o)
    BY <1>3, <2>1, <2>2, OutcomeFine
  <2> QED
    BY <2>3 DEF FineFor
<1>5. /\ answer'.again = Pending /\ answer'.sent = FALSE /\ answer'.status = o.status
      /\ answer'.body = o.body /\ answer'.parsed = q /\ Conf[answer'.block] = s
      /\ answer'.header = IF refused THEN Refusal(s, content) ELSE Header(o, t)
  BY <1>3
<1>6. EntrySound'
  BY <1>1, <1>2, <1>3, <1>4, <1>5 DEF EntrySound, Pending, Fine
<1>7. AnswerIsOwn'
  BY <1>4, <1>5 DEF EntrySound, AnswerIsOwn, Fine
<1>8. HeadersFit'
  <2> DEFINE h == IF refused THEN Refusal(s, content) ELSE Header(o, t)
  <2>1. CASE refused
    <3>1. h.location = <<>> /\ h.allow = s.methods
      BY <2>1 DEF Refusal
    <3> HIDE DEF h, s
    <3> QED
      BY <1>4, <1>5, <2>1, <3>1 DEF HeadersFit, h
  <2>2. CASE ~refused
    <3>1. /\ h.location # <<>> => o.status = 201 \/ o.status \in 300 .. 399
          /\ o.body \in {"listing", "page"} => h.type = "text/html"
          /\ h.allow = {}
          /\ o.status = 301 => h.location = o.kept.location
      <4>1. h = Header(o, t)
        BY <2>2
      <4> HIDE DEF h, s, found, refused
      <4>2. FineHeader(o, h)
        BY <1>4, <4>1, HeaderFits
      <4> QED
        BY <4>2 DEF FineHeader
    <3> HIDE DEF h, s
    <3> QED
      BY <1>4, <1>5, <2>2, <3>1 DEF HeadersFit, h
  <2> QED
    BY <2>1, <2>2
<1> QED
  BY <1>6, <1>7, <1>8

EntryInv == EntrySound /\ AnswerIsOwn /\ HeadersFit

LEMMA EntryInit == ExchangeInit => EntryInv
<1> SUFFICES ASSUME ExchangeInit PROVE EntryInv
  OBVIOUS
<1>1. answer.sent = TRUE /\ answer.body = "" /\ ~Pending
  BY DEF ExchangeInit, NoAnswer, Pending
<1>2. EntrySound
  BY DEF ExchangeInit, EntrySound, RequestFields, KeptFields
<1> QED
  BY <1>1, <1>2 DEF EntryInv, AnswerIsOwn, HeadersFit

\* What is said of an answer holds while the answer is the same.
LEMMA SameAnswer ==
    ASSUME AnswerIsOwn, HeadersFit, answer' = answer
    PROVE  AnswerIsOwn' /\ HeadersFit' /\ Pending' = Pending
<1>1. AnswerIsOwn' /\ Pending' = Pending
  BY DEF AnswerIsOwn, Pending
<1>2. HeadersFit'
  BY <1>1 DEF HeadersFit
<1> QED
  BY <1>1, <1>2

LEMMA EntryNext == EntryInv /\ [ExchangeNext]_exchangeVars => EntryInv'
<1> SUFFICES ASSUME EntryInv, [ExchangeNext]_exchangeVars PROVE EntryInv'
  OBVIOUS
<1>1. EntrySound /\ AnswerIsOwn /\ HeadersFit
  BY DEF EntryInv
<1>2. CASE \E r : Process(r)
  BY <1>1, <1>2, ProcessFits DEF EntryInv
<1>3. CASE \E r : Mute(r)
  <2>1. PICK r : Mute(r)
    BY <1>3
  <2>2. UNCHANGED <<text, kept, answer>> /\ request' = ParseProcess(r)
    BY <2>1 DEF Mute
  <2>3. DOMAIN request' = RequestFields /\ request'.status \in {200, 400}
    <3>1. DOMAIN request = RequestFields /\ request.status \in {200, 400}
      BY <1>1 DEF EntrySound
    <3>2. LET q == ParseProcess(r) IN DOMAIN q = RequestFields /\ q.status \in {200, 400}
      BY <3>1, ParsedWhole
    <3> QED
      BY <2>2, <3>2
  <2>4. AnswerIsOwn' /\ HeadersFit' /\ Pending' = Pending
    BY <1>1, <2>2, SameAnswer
  <2>5. EntrySound'
    BY <1>1, <2>2, <2>3, <2>4 DEF EntrySound
  <2> QED
    BY <2>4, <2>5 DEF EntryInv
<1>4. CASE Finish
  <2>1. answer' = NoAnswer
    BY <1>4 DEF Finish
  <2>2. ~Pending' /\ answer'.body = ""
    BY <2>1 DEF NoAnswer, Pending
  <2>3. EntrySound'
    BY <1>1, <1>4, <2>2 DEF Finish, EntrySound, RequestFields
  <2>4. AnswerIsOwn' /\ HeadersFit'
    BY <2>2 DEF AnswerIsOwn, HeadersFit
  <2> QED
    BY <2>3, <2>4 DEF EntryInv
<1>5. CASE Move
  <2>1. answer' = answer
    BY <1>5 DEF Move
  <2>2. AnswerIsOwn' /\ HeadersFit' /\ Pending' = Pending
    BY <1>1, <2>1, SameAnswer
  <2>3. EntrySound'
    BY <1>1, <1>5, <2>2 DEF Move, EntrySound, RequestFields, KeptFields
  <2> QED
    BY <2>2, <2>3 DEF EntryInv
<1>6. CASE UNCHANGED exchangeVars
  <2>1. AnswerIsOwn' /\ HeadersFit' /\ Pending' = Pending
    BY <1>1, <1>6, SameAnswer DEF exchangeVars
  <2>2. EntrySound'
    BY <1>1, <1>6, <2>1 DEF exchangeVars, EntrySound
  <2> QED
    BY <2>1, <2>2 DEF EntryInv
<1> QED
  BY <1>2, <1>3, <1>4, <1>5, <1>6 DEF ExchangeNext, Exchange, Again

\* No answer made while none was pending holds, or is cut to, what an earlier one left.
THEOREM AnswersAreOwn == ExchangeSpec => []AnswerIsOwn
<1>1. EntryInv => AnswerIsOwn
  BY DEF EntryInv
<1> QED
  BY <1>1, EntryInit, EntryNext, PTL DEF ExchangeSpec

\* Every answer's header fits that answer, whatever the Response remembers.
THEOREM HeadersAlwaysFit == ExchangeSpec => []HeadersFit
<1>1. EntryInv => HeadersFit
  BY DEF EntryInv
<1> QED
  BY <1>1, EntryInit, EntryNext, PTL DEF ExchangeSpec

---------------------------------------------------------------------------
(* What becomes of the files                                               *)

\* What an outcome's status says of the files: see StatusTellsEffect.
Tells(q, t, o) ==
    /\ o.disk # disk => o.status \in {201, 204}
    /\ \A f \in DOMAIN disk \ {t} : f \in DOMAIN o.disk /\ o.disk[f] = disk[f]
    /\ DOMAIN o.disk \subseteq DOMAIN disk \cup {t}
    /\ q.method = "PUT" /\ o.status = 201 => t \notin DOMAIN disk /\ t \in DOMAIN o.disk
    /\ q.method = "DELETE" /\ o.status = 204 => t \notin DOMAIN o.disk
    /\ q.method = "PUT" /\ o.disk # disk => o.disk[t] = q.body
    /\ DOMAIN o.disk \cap Locked = DOMAIN disk \cap Locked

LEMMA PutTells ==
    ASSUME NEW q, q.method = "PUT", NEW s, NEW t
    PROVE  Tells(q, t, Put(q, s, t))
<1> DEFINE stored == With(t, q.body)
           o == Put(q, s, t)
<1>1. CASE t \in Locked /\ t \notin DOMAIN disk
  <2>1. o.disk = disk /\ o.status = 403
    <3>1. o = Page(s, 403)
      BY <1>1 DEF Put
    <3>2. Page(s, 403).disk = disk /\ Page(s, 403).status = 403
      BY DEF Page, Says, Typed
    <3> QED
      BY <3>1, <3>2
  <2> HIDE DEF o
  <2> QED
    BY <2>1 DEF Tells, o
<1>2. CASE t \in Locked /\ t \in DOMAIN disk
  <2>1. o.disk = disk /\ o.status = 204
    BY <1>2 DEF Put, Says
  <2> HIDE DEF o
  <2> QED
    BY <2>1 DEF Tells, o
<1>3. CASE t \notin Locked
  <2>1. o.disk = stored /\ o.status = IF t \in DOMAIN disk THEN 204 ELSE 201
    BY <1>3 DEF Put, Says
  <2>2. /\ DOMAIN stored = DOMAIN disk \cup {t} /\ stored[t] = q.body
        /\ \A f \in DOMAIN disk \ {t} : stored[f] = disk[f]
    BY DEF With
  <2> HIDE DEF o, stored
  <2> QED
    BY <1>3, <2>1, <2>2 DEF Tells, o
<1> QED
  BY <1>1, <1>2, <1>3

LEMMA DeleteTells ==
    ASSUME NEW q, q.method = "DELETE", NEW s, NEW t
    PROVE  Tells(q, t, Delete(s, t))
<1> DEFINE o == Delete(s, t)
<1>1. CASE t \in Locked \/ t \notin DOMAIN disk
  <2>1. o.disk = disk /\ o.status \in {403, 404}
    <3>1. /\ t \notin DOMAIN disk => o = Page(s, 404)
          /\ t \in DOMAIN disk => o = Page(s, 403)
      BY <1>1 DEF Delete
    <3>2. /\ Page(s, 403).disk = disk /\ Page(s, 403).status = 403
          /\ Page(s, 404).disk = disk /\ Page(s, 404).status = 404
      BY DEF Page, Says, Typed
    <3> QED
      BY <3>1, <3>2
  <2> HIDE DEF o
  <2> QED
    BY <2>1 DEF Tells, o
<1>2. CASE t \notin Locked /\ t \in DOMAIN disk
  <2>1. o.disk = Without(t) /\ o.status = 204
    BY <1>2 DEF Delete, Says
  <2>2. DOMAIN Without(t) = DOMAIN disk \ {t} /\ \A f \in DOMAIN disk \ {t} : Without(t)[f] = disk[f]
    BY DEF Without
  <2> HIDE DEF o
  <2> QED
    BY <1>2, <2>1, <2>2 DEF Tells, o
<1> QED
  BY <1>1, <1>2

LEMMA OutcomeTells ==
    ASSUME NEW q, NEW s, NEW t, NEW o \in Run(q, s, t)
    PROVE  Tells(q, t, o)
<1>1. CASE o.disk # disk
  <2>1. Refuses(q, s) = 0 /\ q.method \in {"PUT", "DELETE"}
    BY <1>1, OnlyAllowedChange
  <2>2. \/ q.method = "PUT" /\ o = Put(q, s, t)
        \/ q.method = "DELETE" /\ o = Delete(s, t)
    BY <2>1 DEF Run
  <2> QED
    BY <2>2, PutTells, DeleteTells
<1>2. CASE o.disk = disk
  <2>1. CASE Refuses(q, s) # 0
    <3> DEFINE n == Refuses(q, s)
    <3>1. n \in {0, 405, 413}
      BY DEF Refuses
    <3> HIDE DEF n
    <3>2. o = Says(n, "") /\ Says(n, "").status = n
      BY <2>1, Zenon DEF Run, n, Says
    <3>3. o.status \notin {201, 204}
      <4>1. n \notin {201, 204}
        BY <3>1
      <4> QED
        BY <3>2, <4>1
    <3> QED
      BY <1>2, <2>1, <3>3 DEF Tells
  <2>2. CASE Refuses(q, s) = 0 /\ q.method \in {"PUT", "DELETE"}
    <3>1. \/ q.method = "PUT" /\ o = Put(q, s, t)
          \/ q.method = "DELETE" /\ o = Delete(s, t)
      BY <2>2 DEF Run
    <3> QED
      BY <3>1, PutTells, DeleteTells
  <2>3. CASE q.method \notin {"PUT", "DELETE"}
    BY <1>2, <2>3 DEF Tells
  <2> QED
    BY <2>1, <2>2, <2>3
<1> QED
  BY <1>1, <1>2

\* A step that answers, or that changes a file, processes a request.
LEMMA OnlyProcess ==
    ASSUME [ExchangeNext]_exchangeVars, Answers \/ disk' # disk
    PROVE  \E r : Process(r)
<1>1. CASE Finish
  <2>1. disk' = disk /\ answer'.sent = TRUE
    BY <1>1 DEF Finish, NoAnswer
  <2> QED
    BY <2>1 DEF Answers
<1> QED
  BY <1>1 DEF ExchangeNext, Exchange, Again, Mute, Move, exchangeVars, Answers

LEMMA StepTells ==
    ASSUME NEW r, Process(r)
    PROVE  \E q, t, o : /\ q = ParseProcess(r) /\ request' = q /\ answer'.target = t
                        /\ answer'.req = r /\ answer'.parsed = q
                        /\ answer'.status = o.status /\ disk' = o.disk /\ Tells(q, t, o)
<1> DEFINE q == ParseProcess(r)
           found == Found(q)
           s == Conf[found.block]
           t == TargetAt(q, found)
<1>1. PICK o \in Run(q, s, t) :
        /\ disk' = o.disk /\ answer'.target = t /\ answer'.status = o.status
        /\ answer'.req = r /\ answer'.parsed = q
  BY DEF Process
<1>2. request' = q
  BY DEF Process
<1> HIDE DEF q, s, t, found
<1>3. Tells(q, t, o)
  BY OutcomeTells
<1> QED
  BY <1>1, <1>2, <1>3 DEF q

\* The status of every answer tells what became of the files.
THEOREM StatusAlwaysTells == ExchangeSpec => StatusTellsEffect
<1> DEFINE Told == Answers =>
         LET t == answer'.target
             m == request'.method
         IN  /\ disk' # disk => answer'.status \in {201, 204}
             /\ \A f \in DOMAIN disk \ {t} : f \in DOMAIN disk' /\ disk'[f] = disk[f]
             /\ DOMAIN disk' \subseteq DOMAIN disk \cup {t}
             /\ m = "PUT" /\ answer'.status = 201 =>
                  t \notin DOMAIN disk /\ t \in DOMAIN disk'
             /\ m = "DELETE" /\ answer'.status = 204 => t \notin DOMAIN disk'
<1>1. ASSUME [ExchangeNext]_exchangeVars PROVE Told
  <2> SUFFICES ASSUME Answers PROVE Told
    OBVIOUS
  <2>1. PICK r : Process(r)
    BY <1>1, OnlyProcess
  <2>2. PICK q, t, o : /\ request' = q /\ answer'.target = t
                       /\ answer'.status = o.status /\ disk' = o.disk /\ Tells(q, t, o)
    BY <2>1, StepTells
  <2> QED
    BY <2>2 DEF Tells
<1> HIDE DEF Told
<1>2. [ExchangeNext]_exchangeVars => Told
  BY <1>1
<1> QED
  BY <1>2, PTL DEF ExchangeSpec, StatusTellsEffect, Told

---------------------------------------------------------------------------
(* What a request is given of its own                                      *)

\* No request of this behaviour has a private header.
Quiet == \A i \in session : i.secret = "" /\ i.auth = ""

\* What is known of the request an answer is for: it is one of the session, with more
\* behind its body perhaps.
Arrived(r) ==
    /\ {"words", "host", "secret", "auth", "body"} \subseteq DOMAIN r /\ r.words \in 1 .. 3
    /\ {r.host, r.secret, r.auth} \subseteq STRING /\ r.body \in Seq(Units)
    /\ Quiet => r.secret = "" /\ r.auth = ""

LEMMA SessionArrives == ASSUME session \in Sessions, NEW r \in session PROVE Arrived(r)
<1>1. r \in Input
  BY ExchangeAssumption DEF ExchangeAssumption
<1>2. /\ {"words", "host", "secret", "auth", "body"} \subseteq DOMAIN r /\ r.words \in 1 .. 3
      /\ {r.host, r.secret, r.auth} \subseteq STRING /\ r.body \in Seq(STRING)
  BY <1>1 DEF Input
<1>3. STRING \subseteq Units
  BY DEF Units
<1> QED
  BY <1>2, <1>3, SeqMonotonic DEF Arrived, Quiet

LEMMA MoreArrives ==
    ASSUME NEW r, Arrived(r)
    PROVE  LET m == [r EXCEPT !.body = Append(@, "more")]
           IN  Arrived(m) /\ \E k \in 1 .. Len(m.body) : m.body[k] \notin Blanks
<1> DEFINE m == [r EXCEPT !.body = Append(@, "more")]
<1>1. /\ DOMAIN m = DOMAIN r /\ m.words = r.words /\ m.host = r.host /\ m.secret = r.secret /\ m.auth = r.auth
      /\ m.body = Append(r.body, "more")
  BY DEF Arrived
<1>2. "more" \in Units /\ "more" \notin Blanks
  BY DEF Units, Blanks
<1>3. r.body \in Seq(Units)
  BY DEF Arrived
<1>4. /\ m.body \in Seq(Units) /\ Len(m.body) = Len(r.body) + 1
      /\ m.body[Len(r.body) + 1] = "more"
  <2> HIDE DEF m
  <2> QED
    BY <1>1, <1>2, <1>3
<1> HIDE DEF m
<1>5. Arrived(m)
  BY <1>1, <1>4 DEF Arrived
<1>6. Len(r.body) + 1 \in 1 .. Len(m.body)
  BY <1>3, <1>4
<1> QED
  BY <1>2, <1>4, <1>5, <1>6 DEF m

\* Lines as text are units of a request.
LEMMA TextUnits ==
    ASSUME NEW lines \in Seq(Units)
    PROVE  Text(lines) \in Seq(Units)
<1> DEFINE n == 3 * Len(lines)
<1>1. n \in Nat
  OBVIOUS
<1>2. ASSUME NEW i \in 1 .. n
      PROVE  Text(lines)[i] \in Units
  <2>1. CASE i % 3 = 1
    <3>1. i \div 3 + 1 \in 1 .. Len(lines)
      BY <2>1
    <3>2. Text(lines)[i] = lines[i \div 3 + 1]
      BY <2>1 DEF Text
    <3> QED
      BY <3>1, <3>2
  <2>2. CASE i % 3 # 1
    <3>1. Text(lines)[i] \in {"\r", "\n"}
      BY <2>2 DEF Text
    <3> QED
      BY <3>1 DEF Units, Blanks
  <2> QED
    BY <2>1, <2>2
<1>3. Text(lines) = [i \in 1 .. n |-> Text(lines)[i]]
  BY DEF Text
<1> QED
  BY <1>1, <1>2, <1>3

LEMMA RestUnits ==
    ASSUME NEW q, NEW r, Arrived(r)
    PROVE  /\ Rest(q, r) = <<>> \/ Head(Rest(q, r)) \notin Blanks
           /\ q.status # 400 => Rest(q, r) = BodyOf(r.body)
<1> DEFINE others == IF q.status # 400 \/ Lines(r) = <<>> THEN <<>> ELSE Tail(Lines(r))
           e == Text(others) \o <<"\r", "\n">>
<1>1. Rest(q, r) = BodyOf(e \o r.body)
  BY DEF Rest
<1>2. Lines(r) \in Seq(Units)
  <2>1. \A l \in Units : Line(l) \in Seq(Units)
    <3> SUFFICES ASSUME NEW l \in Units PROVE Line(l) \in Seq(Units)
      OBVIOUS
    <3>1. <<>> \in Seq(Units) /\ <<l>> \in Seq(Units)
      OBVIOUS
    <3> QED
      BY <3>1, Zenon DEF Line
  <2>2. /\ r.host \in Units /\ r.secret \in Units /\ r.auth \in Units
        /\ (IF r.sized THEN "length" ELSE "") \in Units
    <3>1. r.host \in Units /\ r.secret \in Units /\ r.auth \in Units
      BY DEF Arrived, Units
    <3>2. "" \in Units /\ "length" \in Units
      BY DEF Units
    <3> QED
      BY <3>1, <3>2, Zenon
  <2>3. \A a, b, c, d \in Seq(Units) : a \o b \o c \o d \in Seq(Units)
    OBVIOUS
  <2> QED
    BY <2>1, <2>2, <2>3 DEF Lines
<1>3. others \in Seq(Units)
  BY <1>2
<1>4. <<"\r", "\n">> \in Seq(Units)
  BY DEF Units, Blanks
<1>5. Text(others) \in Seq(Units)
  <2> HIDE DEF others
  <2> QED
    BY <1>3, TextUnits
<1>6. e \in Seq(Units) /\ r.body \in Seq(Units)
  <2> HIDE DEF others
  <2>1. \A a, b \in Seq(Units) : a \o b \in Seq(Units)
    OBVIOUS
  <2>2. e \in Seq(Units)
    BY <1>4, <1>5, <2>1, Zenon
  <2> QED
    BY <2>2 DEF Arrived
<1>7. Rest(q, r) = <<>> \/ Head(Rest(q, r)) \notin Blanks
  <2> HIDE DEF e
  <2>1. e \o r.body \in Seq(Units)
    BY <1>6
  <2> QED
    BY <1>1, <2>1, BodyType
<1>8. ASSUME q.status # 400
      PROVE  Rest(q, r) = BodyOf(r.body)
  <2>1. Text(others) = <<>>
    <3>1. others = <<>>
      BY <1>8
    <3>2. Text(<<>>) = <<>>
      BY DEF Text
    <3> QED
      BY <3>1, <3>2, Zenon
  <2>2. e = <<"\r", "\n">>
    <3> HIDE DEF others
    <3> QED
      BY <2>1
  <2>3. \A k \in 1 .. 2 : e[k] \in Blanks
    <3> HIDE DEF e
    <3>1. e[1] = "\r" /\ e[2] = "\n"
      BY <2>2
    <3>2. \A k \in 1 .. 2 : k = 1 \/ k = 2
      OBVIOUS
    <3> QED
      BY <3>1, <3>2 DEF Blanks
  <2>4. Len(e) = 2
    <3> HIDE DEF e
    <3> QED
      BY <2>2
  <2> HIDE DEF e
  <2>5. PICK n \in Nat : n = Len(e) /\ \A k \in 1 .. n : e[k] \in Blanks
    BY <2>3, <2>4
  <2> QED
    BY <1>1, <1>6, <2>5, BodySkips
<1> QED
  BY <1>7, <1>8

\* The provers need to be told that nothing is in <<>>, as a function too.
LEMMA NothingThere == DOMAIN <<>> = {}
<1>1. \A s \in Seq({}) : DOMAIN s = 1 .. Len(s)
  OBVIOUS
<1>2. <<>> \in Seq({}) /\ Len(<<>>) = 0 /\ 1 .. 0 = {}
  OBVIOUS
<1>3. DOMAIN <<>> = 1 .. 0
  BY <1>1, <1>2, Zenon
<1> QED
  BY <1>2, <1>3, Zenon

LEMMA NothingIs ==
    ASSUME NEW F(_), NEW D, D = {}
    PROVE  [n \in D |-> F(n)] = <<>>
<1>1. [n \in D |-> F(n)] \in [1 .. 0 -> {}]
  OBVIOUS
<1>2. ASSUME NEW f \in [1 .. 0 -> {}]
      PROVE  f = <<>>
  <2>1. f \in Seq({}) /\ Len(f) = 0
    BY IsASeq DEF IsASeq
  <2>2. \A s : s \in Seq({}) /\ Len(s) = 0 => s = <<>>
    OBVIOUS
  <2> QED
    BY <2>1, <2>2
<1> QED
  BY <1>1, <1>2

Given(secret, auth) == [n \in {"HTTP_SECRET", "Www-Authenticate"} |->
                           IF n = "HTTP_SECRET" THEN secret ELSE auth]
Named(secret, auth) == {n \in DOMAIN Given(secret, auth) : Given(secret, auth)[n] # ""}

\* A private header of this request is entered for a CGI, and nothing is entered when
\* there is none and was none.
LEMMA EnvironmentHolds ==
    ASSUME NEW q, NEW secret, NEW auth, NEW e, e = Environment(q, secret, auth), secret # ""
    PROVE  e["HTTP_SECRET"] = secret /\ e # <<>>
<1>1. "HTTP_SECRET" \in Named(secret, auth) /\ Given(secret, auth)["HTTP_SECRET"] = secret
  BY DEF Named, Given
<1>2. /\ DOMAIN e = DOMAIN q.env \cup Named(secret, auth)
      /\ \A n \in Named(secret, auth) : e[n] = Given(secret, auth)[n]
  BY DEF Environment, Given, Named
<1>3. "HTTP_SECRET" \in DOMAIN e /\ e["HTTP_SECRET"] = secret
  BY <1>1, <1>2, Zenon
<1>4. \A n : n \notin DOMAIN <<>>
  BY NothingThere, Zenon
<1> QED
  BY <1>3, <1>4, Zenon

LEMMA EnvironmentEmpty ==
    ASSUME NEW q, q.env = <<>>, NEW e, e = Environment(q, "", "")
    PROVE  e = <<>>
<1> DEFINE D == DOMAIN q.env \cup Named("", "")
           F(n) == IF n \in Named("", "") THEN Given("", "")[n] ELSE q.env[n]
<1>1. D = {}
  <2>1. Named("", "") = {}
    BY DEF Named, Given
  <2>2. DOMAIN q.env = {}
    BY NothingThere, Zenon
  <2> QED
    BY <2>1, <2>2
<1>2. e = [n \in D |-> F(n)]
  BY Zenon DEF Environment, Named, Given
<1> HIDE DEF D, F
<1> QED
  BY <1>1, <1>2, NothingIs

\* What the parser promises of any request it leaves behind.
ProperLine(status, version) ==
    status \in {200, 400} /\ (status = 200 /\ version # "" => version \in Versions)
Proper(q) ==
    ProperLine(q.status, q.version) /\ (q.body = <<>> \/ Head(q.body) \notin Blanks)

\* An accepted request is the one that arrived.
Own(q, r) ==
    q.status = 200 =>
        /\ q.method = r.method /\ q.path = r.path /\ q.body = BodyOf(r.body)
        /\ q.method \in ValidMethods
        /\ r.query # "none" => q.query = r.query
        /\ r.secret # "" => q.env["HTTP_SECRET"] = r.secret /\ q.env # <<>>

\* Nothing is entered for a CGI when nobody gives a private header.
Plain(q) == q.env = <<>> /\ q.auth = ""

LEMMA ParseReads ==
    ASSUME EntrySound, Proper(request), NEW r, Arrived(r), Quiet => Plain(request),
           request.status = 200 => request.body = <<>> \/ BodyOf(r.body) # <<>>
    PROVE  /\ Proper(ParseProcess(r)) /\ Own(ParseProcess(r), r)
           /\ Quiet => Plain(ParseProcess(r))
<1> DEFINE p == StartLine(request, r)
           q == ParseProcess(r)
<1>1. DOMAIN request = RequestFields /\ request.status \in {200, 400} /\ r.words \in 1 .. 3
  BY DEF EntrySound, Arrived
<1>2. StartKeeps(request, p) /\ StartReads(request, r, p)
  BY <1>1, StartLineReads
<1>3. q = HeaderAndBody(p, r)
  BY DEF ParseProcess
<1> HIDE DEF p, q
<1>4. DOMAIN p = RequestFields /\ p.status \in {200, 400}
  BY <1>2 DEF StartKeeps
<1>5. HeadKeeps(p, q) /\ HeadBody(p, r, q) /\ HeadEnters(p, r, q)
  BY <1>3, <1>4, HeaderReads
<1>6. /\ Rest(p, r) = <<>> \/ Head(Rest(p, r)) \notin Blanks
      /\ p.status # 400 => Rest(p, r) = BodyOf(r.body)
  BY RestUnits
<1>7. q.status \in {200, 400} /\ q.status = p.status
  BY <1>4, <1>5 DEF HeadKeeps
<1>8. Proper(q)
  <2>1. q.status = 200 => q.version \in Versions
    BY <1>2, <1>5, <1>7 DEF StartReads, HeadKeeps, KnownVersion
  <2>2. q.body = <<>> \/ Head(q.body) \notin Blanks
    <3>1. p.body = <<>> \/ Head(p.body) \notin Blanks
      <4>1. p.body = request.body
        BY <1>2 DEF StartKeeps
      <4> QED
        BY <4>1, Zenon DEF Proper
    <3>2. q.body = Rest(p, r) \/ q.body = p.body
      BY <1>5 DEF HeadBody
    <3> QED
      BY <1>6, <3>1, <3>2, Zenon
  <2> QED
    BY <1>7, <2>1, <2>2 DEF Proper, ProperLine
<1>9. ASSUME q.status = 200
      PROVE  /\ q.method = r.method /\ q.path = r.path /\ q.body = BodyOf(r.body)
             /\ q.method \in ValidMethods
             /\ r.query # "none" => q.query = r.query
             /\ r.secret # "" => q.env["HTTP_SECRET"] = r.secret /\ q.env # <<>>
  <2>1. p.status = 200 /\ p.status # 400
    BY <1>7, <1>9
  <2>2. /\ request.status = 200 /\ p.method = r.method /\ p.path = r.path
        /\ p.query = LastQuery(request, r) /\ r.method \in ValidMethods
    BY <1>1, <1>2, <2>1 DEF StartReads
  <2>3. q.method = r.method /\ q.path = r.path /\ q.method \in ValidMethods
    BY <1>5, <2>2 DEF HeadKeeps
  <2>4. q.body = BodyOf(r.body)
    <3>1. p.body = <<>> \/ BodyOf(r.body) # <<>>
      BY <1>2, <2>2 DEF StartKeeps
    <3>2. Rest(p, r) = BodyOf(r.body)
      BY <1>6, <2>1
    <3> QED
      BY <1>5, <3>1, <3>2 DEF HeadBody
  <2>5. r.query # "none" => q.query = r.query
    BY <1>5, <2>2 DEF HeadKeeps, LastQuery
  <2>6. q.env = Environment(p, Secret(p, r), q.auth)
    BY <1>5 DEF HeadEnters
  <2>7. Secret(p, r) = r.secret
    BY <2>1 DEF Secret
  <2>8. r.secret # "" => q.env["HTTP_SECRET"] = r.secret /\ q.env # <<>>
    <3>1. PICK e : e = q.env
      OBVIOUS
    <3>2. PICK own : own = r.secret
      OBVIOUS
    <3>3. PICK auth : auth = q.auth
      OBVIOUS
    <3>4. e = Environment(p, own, auth)
      BY <2>6, <2>7, <3>1, <3>2, <3>3, Zenon
    <3>5. own # "" => e["HTTP_SECRET"] = own /\ e # <<>>
      BY <3>4, EnvironmentHolds
    <3> QED
      BY <3>1, <3>2, <3>5, Zenon
  <2> QED
    BY <2>3, <2>4, <2>5, <2>8
<1>10. Own(q, r)
  BY <1>9 DEF Own
<1>11. ASSUME Quiet
       PROVE  Plain(q)
  <2>1. r.secret = "" /\ r.auth = "" /\ p.env = <<>> /\ p.auth = ""
    BY <1>2, <1>11 DEF Arrived, Plain, StartKeeps
  <2>2. q.auth = ""
    BY <1>5, <2>1 DEF HeadEnters
  <2>3. q.env = Environment(p, Secret(p, r), q.auth)
    BY <1>5 DEF HeadEnters
  <2>4. Secret(p, r) = ""
    BY <2>1 DEF Secret
  <2>5. q.env = <<>>
    <3>1. q.env = Environment(p, "", "")
      BY <2>2, <2>3, <2>4, Zenon
    <3> QED
      BY <2>1, <3>1, EnvironmentEmpty
  <2> QED
    BY <2>2, <2>5 DEF Plain
<1> QED
  BY <1>8, <1>10, <1>11 DEF q

---------------------------------------------------------------------------
(* What an entry remembers between requests                                *)

\* Between two answers an accepted request has no body left; after a request that was
\* rejected it may, but no later one on this entry is accepted.
Whole ==
    /\ EntrySound /\ ExchangeTypeOK /\ session \in Sessions
    /\ Pending => Arrived(answer.req)
    /\ ~Pending /\ request.status = 200 => request.body = <<>>
    /\ Quiet => Plain(request)
    /\ CgiSeesRequest

LEMMA WholeIsProper == ExchangeTypeOK => Proper(request)
BY DEF ExchangeTypeOK, Proper, ProperLine

LEMMA ProperNext ==
    ASSUME ExchangeTypeOK, Proper(request'), text' \in {"", "answer"},
           DOMAIN disk' \cap Locked = DOMAIN disk \cap Locked
    PROVE  ExchangeTypeOK'
<1>1. /\ ProperLine(request'.status, request'.version)
      /\ request'.body = <<>> \/ Head(request'.body) \notin Blanks
  BY Zenon DEF Proper
<1>2. DOMAIN disk' \cap Locked = DOMAIN Disk0 \cap Locked
  BY DEF ExchangeTypeOK
<1> QED
  BY <1>1, <1>2 DEF ExchangeTypeOK, ProperLine

LEMMA SameProper ==
    ASSUME NEW p, Proper(p), NEW q, q.status = p.status, q.version = p.version,
           q.body = p.body \/ q.body = <<>>
    PROVE  Proper(q)
<1>1. ProperLine(q.status, q.version)
  BY Zenon DEF Proper
<1>2. q.body = <<>> \/ Head(q.body) \notin Blanks
  <2>1. p.body = <<>> \/ Head(p.body) \notin Blanks
    BY Zenon DEF Proper
  <2> QED
    BY <2>1, Zenon
<1> QED
  BY <1>1, <1>2, Zenon DEF Proper

\* A method that the parser accepts has an outcome.
LEMMA SomeOutcome ==
    ASSUME NEW q, q.method \in ValidMethods, NEW s, NEW t
    PROVE  Run(q, s, t) # {}
<1>1. CASE Refuses(q, s) # 0
  BY <1>1, Zenon DEF Run
<1>2. CASE Refuses(q, s) = 0
  <2>1. PICK c \in CgiStatus, type \in CgiTypes : TRUE
    BY ExchangeAssumption DEF ExchangeAssumption
  <2>2. CgiResult(q, s, c, type) \in CgiResults(q, s)
    BY DEF CgiResults
  <2>3. Get(q, s, t) # {} /\ Post(q, s) # {}
    BY <2>2, Zenon DEF Get, Post
  <2>4. q.method \in {"GET", "HEAD", "POST", "PUT", "DELETE"}
    BY DEF ValidMethods
  <2>5. CASE q.method = "GET"
    BY <1>2, <2>3, <2>5 DEF Run
  <2>6. CASE q.method = "POST"
    BY <1>2, <2>3, <2>6 DEF Run
  <2>7. CASE q.method \in {"HEAD", "PUT", "DELETE"}
    BY <1>2, <2>7 DEF Run
  <2> QED
    BY <2>4, <2>5, <2>6, <2>7
<1> QED
  BY <1>1, <1>2

\* A request being processed: it arrived, and what is left of a body is from bytes of
\* its own.
Processed(r) ==
    /\ Process(r) /\ Arrived(r)
    /\ request.status = 200 => request.body = <<>> \/ BodyOf(r.body) # <<>>

LEMMA StepIsKnown ==
    ASSUME Whole, [ExchangeNext]_exchangeVars
    PROVE  \/ \E r : Processed(r)
           \/ \E r \in session : Mute(r)
           \/ Finish \/ Move \/ UNCHANGED exchangeVars
<1>1. ASSUME NEW r \in session, Exchange(r)
      PROVE  Processed(r)
  <2>1. Arrived(r)
    BY SessionArrives DEF Whole
  <2> QED
    BY <1>1, <2>1 DEF Processed, Exchange, Whole
<1>2. ASSUME Again
      PROVE  \E r : Processed(r)
  <2> DEFINE m == [answer.req EXCEPT !.body = Append(@, "more")]
  <2>1. Pending /\ Process(m)
    BY <1>2 DEF Again
  <2>2. Arrived(m) /\ \E k \in 1 .. Len(m.body) : m.body[k] \notin Blanks
    BY <2>1, MoreArrives DEF Whole
  <2> HIDE DEF m
  <2>3. BodyOf(m.body) # <<>>
    BY <2>2, BodyType DEF Arrived
  <2> QED
    BY <2>1, <2>2, <2>3 DEF Processed
<1> QED
  BY <1>1, <1>2 DEF ExchangeNext

\* What processing a request leaves.
LEMMA ProcessedWhole ==
    ASSUME Whole, NEW r, Processed(r)
    PROVE  Whole' /\ Own(request', r)
<1> DEFINE q == ParseProcess(r)
           found == Found(q)
           s == Conf[found.block]
           t == TargetAt(q, found)
           content == ContentAt(q, found)
<1>1. Process(r) /\ Arrived(r) /\ EntrySound /\ ExchangeTypeOK /\ session \in Sessions
      /\ (Quiet => Plain(request))
  BY DEF Processed, Whole
<1>2. Proper(q) /\ Own(q, r) /\ (Quiet => Plain(q))
  BY <1>1, WholeIsProper, ParseReads DEF Processed
<1>3. EntrySound'
  BY <1>1, ProcessFits
<1>4. request' = q /\ text' = "answer" /\ session' = session
  BY <1>1 DEF Process
<1>5. PICK o \in Run(q, s, t) :
        /\ disk' = o.disk
        /\ answer'.sent = FALSE /\ answer'.req = r /\ answer'.parsed = q
        /\ answer'.block = found.block
        /\ answer'.env = IF RunsCgi(q, s) THEN CgiEnv(q, s, content) ELSE NoAnswer.env
  BY <1>1 DEF Process
<1>6. Tells(q, t, o)
  <2> HIDE DEF q, s, t, found
  <2> QED
    BY OutcomeTells
<1>7. ExchangeTypeOK'
  <2>1. DOMAIN disk' \cap Locked = DOMAIN disk \cap Locked
    <3> HIDE DEF q, t, s
    <3> QED
      BY <1>5, <1>6 DEF Tells
  <2>2. Proper(request') /\ text' = "answer"
    BY <1>2, <1>4
  <2> QED
    BY <1>1, <2>1, <2>2, ProperNext
<1>8. Arrived(r)' /\ Pending' /\ (Quiet' => Plain(request'))
  <2> HIDE DEF q
  <2>1. Quiet' = Quiet
    BY <1>4 DEF Quiet
  <2>2. Arrived(r)'
    BY <1>1, <2>1 DEF Arrived
  <2> QED
    BY <1>2, <1>4, <1>5, <2>1, <2>2 DEF Pending
<1>9. CgiSeesRequest'
  <2> SUFFICES ASSUME answer'.env # NoAnswer.env, q.status = 200
               PROVE  LET e == answer'.env
                      IN  /\ e.method = r.method /\ e.path = r.path /\ e.body = BodyOf(r.body)
                          /\ r.query # "none" => e.query = r.query
                          /\ r.secret # "" => e.params["HTTP_SECRET"] = r.secret
                          /\ Quiet => e.params = s.params
    <3> HIDE DEF q, s, t, content
    <3> QED
      BY <1>4, <1>5 DEF CgiSeesRequest, Quiet, s
  <2> DEFINE e == answer'.env
  <2>1. /\ e.method = q.method /\ e.path = q.path /\ e.query = q.query /\ e.body = q.body
        /\ e.params = IF q.env # <<>> THEN q.env ELSE s.params
    <3> HIDE DEF q, s, t, content
    <3>1. answer'.env = CgiEnv(q, s, content)
      BY <1>5
    <3> QED
      BY <3>1 DEF CgiEnv
  <2> HIDE DEF q, s, e
  <2> QED
    BY <1>2, <2>1 DEF Own, Plain, e
<1> HIDE DEF q
<1>10. Own(request', r)
  BY <1>2, <1>4
<1> QED
  BY <1>1, <1>3, <1>4, <1>5, <1>7, <1>8, <1>9, <1>10 DEF Whole

LEMMA WholeInit == ExchangeInit => Whole
<1> SUFFICES ASSUME ExchangeInit PROVE Whole
  OBVIOUS
<1>1. EntrySound
  BY EntryInit DEF EntryInv
<1>2. ~Pending /\ answer.env = NoAnswer.env
  BY DEF ExchangeInit, NoAnswer, Pending
<1>3. ExchangeTypeOK /\ session \in Sessions /\ request.body = <<>> /\ Plain(request)
  BY DEF ExchangeInit, ExchangeTypeOK, Plain
<1> QED
  BY <1>1, <1>2, <1>3 DEF Whole, CgiSeesRequest

\* What is said of an answer and its session holds while they are the same.
LEMMA SameCgi ==
    ASSUME CgiSeesRequest, answer' = answer, session' = session
    PROVE  CgiSeesRequest'
BY DEF CgiSeesRequest

LEMMA SameArrival ==
    ASSUME Pending => Arrived(answer.req), answer' = answer, session' = session
    PROVE  (Pending => Arrived(answer.req))' /\ Quiet' = Quiet /\ Pending' = Pending
BY DEF Pending, Arrived, Quiet

LEMMA WholeNext == Whole /\ [ExchangeNext]_exchangeVars => Whole'
<1> SUFFICES ASSUME Whole, [ExchangeNext]_exchangeVars PROVE Whole'
  OBVIOUS
<1> DEFINE Arrives == Pending => Arrived(answer.req)
<1>1. /\ EntrySound /\ ExchangeTypeOK /\ session \in Sessions /\ Arrives
      /\ (~Pending /\ request.status = 200 => request.body = <<>>)
      /\ (Quiet => Plain(request)) /\ CgiSeesRequest
  BY DEF Whole
<1>2. CASE \E r : Processed(r)
  BY <1>2, ProcessedWhole
<1>3. CASE \E r \in session : Mute(r)
  <2>1. PICK r \in session : Mute(r)
    BY <1>3
  <2> DEFINE q == ParseProcess(r)
             s == Conf[Found(q).block]
             t == TargetAt(q, Found(q))
  <2>2. /\ UNCHANGED <<session, text, kept, disk, answer>> /\ request' = q /\ ~Pending
        /\ Run(q, s, t) = {}
    BY <2>1 DEF Mute
  <2>3. Arrived(r)
    BY <1>1, SessionArrives
  <2>4. Proper(q) /\ Own(q, r) /\ (Quiet => Plain(q))
    BY <1>1, <2>2, <2>3, WholeIsProper, ParseReads
  <2>5. DOMAIN q = RequestFields
    BY <1>1, ParsedWhole DEF EntrySound
  <2> HIDE DEF q, s, t
  <2>6. q.status # 200
    <3>1. q.status = 200 => q.method \in ValidMethods
      BY <2>4 DEF Own
    <3>2. q.method \notin ValidMethods
      BY <2>2, SomeOutcome
    <3> QED
      BY <3>1, <3>2
  <2>7. Arrives' /\ Quiet' = Quiet /\ Pending' = Pending /\ CgiSeesRequest'
    BY <1>1, <2>2, SameArrival, SameCgi
  <2> HIDE DEF Arrives
  <2>8. EntrySound'
    <3>1. request'.status \in {200, 400}
      BY <2>2, <2>4 DEF Proper, ProperLine
    <3> QED
      BY <1>1, <2>2, <2>5, <2>7, <3>1 DEF EntrySound
  <2>9. ExchangeTypeOK'
    <3>1. Proper(request') /\ text' = text /\ disk' = disk
      BY <2>2, <2>4
    <3> QED
      BY <1>1, <3>1, ProperNext DEF EntrySound
  <2> QED
    BY <1>1, <2>2, <2>4, <2>6, <2>7, <2>8, <2>9 DEF Whole, Arrives
<1>4. CASE Finish
  <2>1. ~Pending' /\ answer'.env = NoAnswer.env /\ session' = session /\ Quiet' = Quiet
    BY <1>4 DEF Finish, NoAnswer, Pending, Quiet
  <2>2. DOMAIN request = RequestFields
    BY <1>1 DEF EntrySound
  <2>3. /\ DOMAIN request' = RequestFields /\ request'.body = <<>>
        /\ request'.status = request.status /\ request'.version = request.version
        /\ request'.env = request.env /\ request'.auth = request.auth
    BY <1>4, <2>2 DEF Finish, RequestFields
  <2>4. EntrySound'
    BY <1>1, <1>4, <2>1, <2>3 DEF Finish, EntrySound
  <2>5. ExchangeTypeOK'
    <3>1. Proper(request')
      <4>1. Proper(request)
        BY <1>1, WholeIsProper
      <4> QED
        BY <2>3, <4>1, SameProper
    <3>2. text' = "" /\ disk' = disk
      BY <1>4 DEF Finish
    <3> QED
      BY <1>1, <3>1, <3>2, ProperNext
  <2>6. (Quiet => Plain(request))'
    BY <1>1, <2>1, <2>3 DEF Plain
  <2> QED
    BY <1>1, <2>1, <2>3, <2>4, <2>5, <2>6 DEF Whole, CgiSeesRequest
<1>5. CASE Move
  <2>1. UNCHANGED <<session, text, disk, answer>> /\ DOMAIN kept' = KeptFields
    BY <1>5 DEF Move, KeptFields
  <2>2. DOMAIN request = RequestFields
    BY <1>1 DEF EntrySound
  <2>3. /\ DOMAIN request' = RequestFields /\ request'.body = request.body
        /\ request'.status = request.status /\ request'.version = request.version
        /\ request'.env = <<>> /\ request'.auth = request.auth
    BY <1>5, <2>2 DEF Move, RequestFields
  <2>4. Arrives' /\ Quiet' = Quiet /\ Pending' = Pending /\ CgiSeesRequest'
    BY <1>1, <2>1, SameArrival, SameCgi
  <2> HIDE DEF Arrives
  <2>5. EntrySound'
    BY <1>1, <2>1, <2>3, <2>4 DEF EntrySound
  <2>6. ExchangeTypeOK'
    <3>1. Proper(request')
      <4>1. Proper(request)
        BY <1>1, WholeIsProper
      <4> QED
        BY <2>3, <4>1, SameProper
    <3> QED
      BY <1>1, <2>1, <3>1, ProperNext DEF EntrySound
  <2>7. (Quiet => Plain(request))'
    BY <1>1, <2>3, <2>4 DEF Plain
  <2> QED
    BY <1>1, <2>1, <2>3, <2>4, <2>5, <2>6, <2>7 DEF Whole, Arrives
<1>6. CASE UNCHANGED exchangeVars
  <2>1. UNCHANGED <<session, request, text, kept, disk, answer>>
    BY <1>6 DEF exchangeVars
  <2>2. Arrives' /\ Quiet' = Quiet /\ Pending' = Pending /\ CgiSeesRequest'
    BY <1>1, <2>1, SameArrival, SameCgi
  <2> HIDE DEF Arrives
  <2>3. EntrySound' /\ ExchangeTypeOK'
    BY <1>1, <2>1, <2>2 DEF EntrySound, ExchangeTypeOK
  <2> QED
    BY <1>1, <2>1, <2>2, <2>3 DEF Whole, Arrives, Plain
<1> QED
  BY <1>2, <1>3, <1>4, <1>5, <1>6, StepIsKnown

LEMMA AlwaysWhole == ExchangeSpec => []Whole
BY WholeInit, WholeNext, PTL DEF ExchangeSpec

\* Whatever arrives, the entry's request is one of the parser's, and a path that cannot be
\* written stays as it was.
THEOREM ExchangeTypeCorrect == ExchangeSpec => []ExchangeTypeOK
<1>1. Whole => ExchangeTypeOK
  BY DEF Whole
<1> QED
  BY <1>1, AlwaysWhole, PTL

\* A CGI is told of the request it answers and of no other.
THEOREM CgiAlwaysSeesRequest == ExchangeSpec => []CgiSeesRequest
<1>1. Whole => CgiSeesRequest
  BY DEF Whole
<1> QED
  BY <1>1, AlwaysWhole, PTL

\* An accepted request stores its own body and nothing of an earlier one.
THEOREM AlwaysStoresOwnBody == ExchangeSpec => StoresOwnBody
<1> DEFINE Stores == Answers /\ request'.status = 200 /\ request'.method = "PUT"
                     /\ disk' # disk => disk'[answer'.target] = BodyOf(answer'.req.body)
<1>1. ASSUME Whole, [ExchangeNext]_exchangeVars PROVE Stores
  <2> SUFFICES ASSUME Answers, request'.status = 200, request'.method = "PUT", disk' # disk
               PROVE  disk'[answer'.target] = BodyOf(answer'.req.body)
    OBVIOUS
  <2>1. PICK r : Processed(r)
    <3>1. ~(\E r \in session : Mute(r)) /\ ~Finish /\ ~Move /\ ~UNCHANGED exchangeVars
      BY DEF Mute, Finish, Move, exchangeVars
    <3> QED
      BY <1>1, <3>1, StepIsKnown
  <2>2. Own(request', r)
    BY <1>1, <2>1, ProcessedWhole
  <2>3. PICK q, t, o : /\ request' = q /\ answer'.target = t /\ answer'.req = r
                       /\ disk' = o.disk /\ Tells(q, t, o)
    BY <2>1, StepTells DEF Processed
  <2>4. o.disk[t] = q.body
    BY <2>3 DEF Tells
  <2>5. q.body = BodyOf(r.body)
    BY <2>2, <2>3 DEF Own
  <2> QED
    BY <2>3, <2>4, <2>5
<1> HIDE DEF Stores
<1>2. Whole /\ [ExchangeNext]_exchangeVars => Stores
  BY <1>1
<1> QED
  BY <1>2, AlwaysWhole, PTL DEF ExchangeSpec, StoresOwnBody, Stores
=============================================================================
