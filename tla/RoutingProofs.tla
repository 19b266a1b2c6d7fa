--------------------------- MODULE RoutingProofs ---------------------------
(***************************************************************************)
(* For any forest of blocks, any settings and any requests: once the file  *)
(* is read every block has the settings it should, a request is answered   *)
(* by a server that listens where it came in, and by the location in it    *)
(* that fits best.                                                         *)
(*                                                                         *)
(* LoadInv: a setting is as it was read or as it should be (HalfWay); the  *)
(* calls of passMembers come in order, so that a block is passed only what *)
(* is settled by then (CallsInOrder); and what is not settled yet lies in  *)
(* a block passMembers is still to come by (AllComing).                    *)
(*                                                                         *)
(* The search is a recursive function.  That there is one is proved from   *)
(* an explicit solution of its equations (SearchExists), and what it finds *)
(* by taking the innermost block from which it would go wrong.             *)
(***************************************************************************)
EXTENDS Routing, WellFoundedInduction, TLAPS

---------------------------------------------------------------------------
(* The forest                                                              *)

LEMMA OuterType == \A b \in Blocks : Outer[b] \in Blocks
BY RoutingAssumption DEF Outer

LEMMA OuterOfLocation ==
    ASSUME NEW p \in Blocks, NEW b \in Blocks, Contains(Children[p], b)
    PROVE  Outer[b] = p
<1>1. \A q \in Blocks : Contains(Children[q], b) => q = p
  BY ForestAssumption
<1> QED
  BY <1>1 DEF Outer

LEMMA LocationType ==
    ASSUME NEW p \in Blocks, NEW i \in DOMAIN Children[p]
    PROVE  /\ Children[p][i] \in Blocks \ {Default} /\ Contains(Children[p], Children[p][i])
           /\ Outer[Children[p][i]] = p
<1>1. Children[p] \in Seq(Blocks \ {Default})
  BY RoutingAssumption
<1>2. Children[p][i] \in Blocks \ {Default}
  BY <1>1
<1>3. Contains(Children[p], Children[p][i])
  BY <1>1 DEF Contains
<1> QED
  BY <1>2, <1>3, OuterOfLocation

LEMMA DefaultOutmost == Outer[Default] = Default
<1>1. \A p \in Blocks : ~Contains(Children[p], Default)
  <2> SUFFICES ASSUME NEW p \in Blocks, NEW i \in 1 .. Len(Children[p]),
                      Children[p][i] = Default
               PROVE  FALSE
    BY DEF Contains
  <2>1. Children[p] \in Seq(Blocks \ {Default})
    BY RoutingAssumption
  <2> QED
    BY <2>1
<1> QED
  BY <1>1, RoutingAssumption DEF Outer

LEMMA ServerOuter ==
    ASSUME NEW k \in DOMAIN Servers
    PROVE  /\ Servers[k] \in Blocks \ {Default} /\ Contains(Servers, Servers[k])
           /\ Outer[Servers[k]] = Default
<1>1. Servers \in Seq(Blocks \ {Default}) /\ k \in 1 .. Len(Servers)
  BY RoutingAssumption
<1>2. Contains(Servers, Servers[k])
  BY <1>1, Zenon DEF Contains
<1>3. Servers[k] \in Blocks \ {Default}
  BY <1>1
<1>4. ~ \E p \in Blocks : Contains(Children[p], Servers[k])
  BY <1>2, <1>3, ForestAssumption
<1> QED
  BY <1>2, <1>3, <1>4 DEF Outer

\* A block is a server or a location of the block around it.
LEMMA Placed ==
    ASSUME NEW b \in Blocks \ {Default}
    PROVE  Contains(Servers, b) \/ (Outer[b] # Default /\ Contains(Children[Outer[b]], b))
<1>1. CASE Contains(Servers, b)
  BY <1>1
<1>2. CASE ~Contains(Servers, b)
  <2>1. PICK p \in Blocks : Contains(Children[p], b)
    BY <1>2, ForestAssumption
  <2>2. Outer[b] = p
    BY <2>1, OuterOfLocation
  <2>3. p # Default
    <3>1. ~Contains(<<>>, b)
      BY DEF Contains
    <3> QED
      BY <2>1, <3>1, ForestAssumption
  <2> QED
    BY <2>1, <2>2, <2>3
<1> QED
  BY <1>1, <1>2

LEMMA AroundIs ==
    ASSUME NEW b \in Blocks, NEW c \in Blocks
    PROVE  c \in Around[b] <=>
             \A S \in SUBSET Blocks : b \in S /\ (\A d \in S : Outer[d] \in S) => c \in S
BY DEF Around

LEMMA AroundType == \A b \in Blocks : Around[b] \subseteq Blocks /\ b \in Around[b]
BY DEF Around

\* Around a block are itself and what is around its outer block.
LEMMA AroundOuter ==
    ASSUME NEW b \in Blocks
    PROVE  Around[b] = {b} \cup Around[Outer[b]]
<1>1. Outer[b] \in Blocks
  BY OuterType
<1>2. ASSUME NEW c \in Around[Outer[b]]
      PROVE  c \in Around[b]
  <2>1. c \in Blocks
    BY <1>1, <1>2, AroundType
  <2>2. ASSUME NEW S \in SUBSET Blocks, b \in S, \A d \in S : Outer[d] \in S
        PROVE  c \in S
    <3>1. Outer[b] \in S
      BY <2>2
    <3> QED
      BY <1>1, <1>2, <2>1, <2>2, <3>1, AroundIs
  <2> QED
    BY <2>1, <2>2, AroundIs
<1>3. ASSUME NEW c \in Around[b], c # b
      PROVE  c \in Around[Outer[b]]
  <2>1. c \in Blocks
    BY <1>3, AroundType
  <2>2. ASSUME NEW S \in SUBSET Blocks, Outer[b] \in S, \A d \in S : Outer[d] \in S
        PROVE  c \in S
    <3> DEFINE T == S \cup {b}
    <3>1. T \in SUBSET Blocks /\ b \in T /\ \A d \in T : Outer[d] \in T
      BY <2>2
    <3>2. c \in T
      <4> HIDE DEF T
      <4> QED
        BY <1>3, <2>1, <3>1, AroundIs
    <3> QED
      BY <1>3, <3>2
  <2> QED
    BY <1>1, <2>1, <2>2, AroundIs
<1>4. b \in Around[b] /\ Around[b] \subseteq Blocks
  BY AroundType
<1> QED
  BY <1>2, <1>3, <1>4

LEMMA AroundDefault == Around[Default] = {Default}
<1>1. Default \in Blocks /\ Default \in Around[Default] /\ Around[Default] \subseteq Blocks
  BY AroundType, RoutingAssumption
<1>2. ASSUME NEW c \in Around[Default] PROVE c = Default
  <2>1. c \in Blocks
    BY <1>1, <1>2
  <2>2. \A d \in {Default} : Outer[d] \in {Default}
    BY DefaultOutmost
  <2>3. {Default} \in SUBSET Blocks
    BY <1>1
  <2>4. c \in {Default}
    BY <1>1, <1>2, <2>1, <2>2, <2>3, AroundIs
  <2> QED
    BY <2>4
<1> QED
  BY <1>1, <1>2

LEMMA AroundGrows ==
    ASSUME NEW b \in Blocks, NEW c \in Around[b], NEW d \in Around[c]
    PROVE  d \in Around[b]
<1>1. c \in Blocks /\ d \in Blocks
  BY AroundType
<1>2. ASSUME NEW S \in SUBSET Blocks, b \in S, \A e \in S : Outer[e] \in S
      PROVE  d \in S
  <2>1. c \in S
    BY <1>1, <1>2, AroundIs
  <2> QED
    BY <1>1, <1>2, <2>1, AroundIs
<1> QED
  BY <1>1, <1>2, AroundIs

\* No block is around the one around it.
LEMMA NotAroundOuter ==
    ASSUME NEW b \in Blocks \ {Default}
    PROVE  b \notin Around[Outer[b]]
<1> SUFFICES ASSUME b \in Around[Outer[b]] PROVE FALSE
  OBVIOUS
<1> DEFINE C == {c \in Around[b] : b \in Around[c]}
<1>1. b \in C /\ C \subseteq Blocks
  BY AroundType
<1>2. Default \notin C
  BY AroundDefault
<1>3. ASSUME NEW c \in C PROVE Outer[c] \in C
  <2>1. c \in Blocks /\ Outer[c] \in Blocks /\ c \in Around[b] /\ b \in Around[c]
    BY <1>1, OuterType
  <2>2. Outer[c] \in Around[c]
    <3>1. Outer[c] \in Around[Outer[c]]
      BY <2>1, AroundType
    <3> QED
      BY <2>1, <3>1, AroundOuter
  <2>3. Outer[c] \in Around[b]
    BY <2>1, <2>2, AroundGrows
  <2>4. b \in Around[Outer[c]]
    BY <2>1, AroundOuter
  <2> QED
    BY <2>3, <2>4
<1>4. C \in SUBSET (Blocks \ {Default}) /\ C # {}
  BY <1>1, <1>2
<1> HIDE DEF C
<1> QED
  BY <1>3, <1>4, ForestAssumption

\* Between a block and another around it there is one directly inside the other.
LEMMA AroundInside ==
    ASSUME NEW b \in Blocks, NEW s \in Around[b], s # b, s # Default
    PROVE  \E d \in Around[b] : Contains(Children[s], d)
<1> DEFINE S == {d \in Around[b] : s \in Around[d] /\ d # s}
<1>1. b \in S /\ S \in SUBSET Blocks /\ s \in Blocks /\ s \notin S
  BY AroundType
<1>2. PICK d \in S : Outer[d] \notin S
  <2> HIDE DEF S
  <2> QED
    BY <1>1, AroundIs
<1>3. d \in Blocks /\ d \in Around[b] /\ s \in Around[d] /\ d # s
  BY <1>1
<1>4. Outer[d] \in Around[b]
  <2>1. Outer[d] \in Around[Outer[d]]
    BY <1>3, OuterType, AroundType
  <2>2. Outer[d] \in Around[d]
    BY <1>3, <2>1, AroundOuter
  <2> QED
    BY <1>3, <2>2, AroundGrows
<1>5. s \in Around[Outer[d]]
  BY <1>3, AroundOuter
<1>6. Outer[d] = s
  BY <1>2, <1>4, <1>5
<1>7. d # Default
  BY <1>3, AroundDefault
<1>8. ~Contains(Servers, d)
  <2> SUFFICES ASSUME Contains(Servers, d) PROVE FALSE
    OBVIOUS
  <2>1. PICK k \in 1 .. Len(Servers) : Servers[k] = d
    BY DEF Contains
  <2>2. k \in DOMAIN Servers
    BY RoutingAssumption
  <2> QED
    BY <1>6, <2>1, <2>2, ServerOuter
<1> QED
  BY <1>3, <1>6, <1>7, <1>8, Placed

LEMMA AroundOnce ==
    ASSUME NEW b \in Blocks, NEW c \in Around[b], b \in Around[c]
    PROVE  b = c
<1> SUFFICES ASSUME b # c PROVE FALSE
  OBVIOUS
<1>1. c \in Blocks
  BY AroundType
<1>2. b # Default
  BY AroundDefault
<1>3. c \in Around[Outer[b]]
  BY AroundOuter
<1>4. b \in Around[Outer[b]]
  BY <1>3, AroundGrows, OuterType
<1> QED
  BY <1>2, <1>4, NotAroundOuter

---------------------------------------------------------------------------
(* The setting a block should have                                         *)

Kinds == {"listen", "root", "size", "cgi", "methods"}

LEMMA UnsetDomain == DOMAIN Unset = Kinds /\ Kinds \subseteq Settings
BY DEF Unset, Kinds, Settings

\* A block has its own value or that of the block around it.
LEMMA NearestOwn ==
    ASSUME NEW b \in Blocks, NEW x, raw[b][x] # Unset[x]
    PROVE  Nearest(b, x) = raw[b][x]
<1> DEFINE setting == {c \in Around[b] : raw[c][x] # Unset[x]}
<1>1. b \in setting /\ setting \subseteq Around[b]
  BY AroundType
<1>2. ASSUME NEW c \in setting, setting \subseteq Around[c] PROVE c = b
  BY <1>1, <1>2, AroundOnce
<1>3. (CHOOSE c \in setting : setting \subseteq Around[c]) = b
  <2> HIDE DEF setting
  <2> QED
    BY <1>1, <1>2
<1>4. Nearest(b, x) = IF setting = {} THEN Unset[x]
                      ELSE raw[CHOOSE c \in setting : setting \subseteq Around[c]][x]
  BY DEF Nearest
<1> HIDE DEF setting
<1> QED
  BY <1>1, <1>3, <1>4

LEMMA NearestOuter ==
    ASSUME NEW b \in Blocks, NEW x, raw[b][x] = Unset[x]
    PROVE  Nearest(b, x) = IF b = Default THEN Unset[x] ELSE Nearest(Outer[b], x)
<1> DEFINE setting == {c \in Around[b] : raw[c][x] # Unset[x]}
           around == {c \in Around[Outer[b]] : raw[c][x] # Unset[x]}
<1>1. setting = around
  BY AroundOuter
<1>2. Nearest(b, x) = IF setting = {} THEN Unset[x]
                      ELSE raw[CHOOSE c \in setting : setting \subseteq Around[c]][x]
  BY DEF Nearest
<1>3. Nearest(Outer[b], x) = IF around = {} THEN Unset[x]
                      ELSE raw[CHOOSE c \in around : around \subseteq Around[c]][x]
  BY DEF Nearest
<1>4. b = Default => setting = {}
  BY AroundDefault
<1> HIDE DEF setting, around
<1> QED
  BY <1>1, <1>2, <1>3, <1>4

\* What passMembers does to one of these settings.
LEMMA PassedOnIs ==
    ASSUME NEW p, NEW s, DOMAIN s = Settings, NEW x \in Kinds
    PROVE  PassedOn(p, s)[x] = OrElse(s[x], Unset[x], p[x])
<1> DEFINE t == PassedOn(p, s)
<1>1. /\ t["listen"] = OrElse(s["listen"], <<>>, p["listen"])
      /\ t["root"] = OrElse(s["root"], <<>>, p["root"])
      /\ t["size"] = OrElse(s["size"], 0, p["size"])
      /\ t["cgi"] = OrElse(s["cgi"], "", p["cgi"])
      /\ t["methods"] = OrElse(s["methods"], {}, p["methods"])
  BY DEF PassedOn, Settings
<1>2. /\ Unset["listen"] = <<>> /\ Unset["root"] = <<>> /\ Unset["size"] = 0
      /\ Unset["cgi"] = "" /\ Unset["methods"] = {}
  BY DEF Unset
<1> HIDE DEF t
<1>3. t[x] = OrElse(s[x], Unset[x], p[x])
  <2>1. CASE x = "listen"
    BY <1>1, <1>2, <2>1
  <2>2. CASE x = "root"
    BY <1>1, <1>2, <2>2
  <2>3. CASE x = "size"
    BY <1>1, <1>2, <2>3
  <2>4. CASE x = "cgi"
    BY <1>1, <1>2, <2>4
  <2>5. CASE x = "methods"
    BY <1>1, <1>2, <2>5
  <2> QED
    BY <2>1, <2>2, <2>3, <2>4, <2>5 DEF Kinds
<1> QED
  BY <1>3 DEF t

LEMMA PassedOnFields ==
    ASSUME NEW p, NEW s, DOMAIN s = Settings
    PROVE  DOMAIN PassedOn(p, s) = Settings
BY DEF PassedOn

---------------------------------------------------------------------------
(* The index file a block should have                                      *)

LEMMA LeastOf ==
    ASSUME NEW I \in SUBSET Nat, I # {}
    PROVE  \E x \in I : \A y \in I : x <= y
<1>1. PICK x \in I : \A y \in I : ~ (<<y, x>> \in OpToRel(<, Nat))
  BY NatLessThanWellFounded, WFMin
<1>2. \A y \in I : ~ (y < x)
  BY <1>1 DEF OpToRel
<1> QED
  BY <1>2

\* Some file of X is first in s if any is there.
LEMMA FirstNone ==
    ASSUME NEW T, NEW s \in Seq(T), NEW X
    PROVE  FirstOf(s, X) = {} <=> ToSet(s) \cap X = {}
<1> DEFINE I == {k \in 1 .. Len(s) : s[k] \in X}
<1>1. DOMAIN s = 1 .. Len(s) /\ Len(s) \in Nat
  OBVIOUS
<1>2. FirstOf(s, X) = {s[k] : k \in {k \in 1 .. Len(s) :
                                 s[k] \in X /\ \A j \in 1 .. k - 1 : s[j] \notin X}}
  BY <1>1 DEF FirstOf
<1>3. ToSet(s) = {s[k] : k \in 1 .. Len(s)}
  BY <1>1 DEF ToSet
<1>4. ASSUME I # {} PROVE FirstOf(s, X) # {}
  <2>1. I \in SUBSET Nat
    OBVIOUS
  <2>2. PICK k \in I : \A j \in I : k <= j
    <3> HIDE DEF I
    <3> QED
      BY <1>4, <2>1, LeastOf
  <2>3. \A j \in 1 .. k - 1 : s[j] \notin X
    BY <1>1, <2>2
  <2> QED
    BY <1>2, <2>2, <2>3
<1> QED
  BY <1>2, <1>3, <1>4

\* passMembers puts the outer block's files first: they win.
LEMMA FirstJoined ==
    ASSUME NEW T, NEW s \in Seq(T), NEW t \in Seq(T), NEW X
    PROVE  FirstOf(s \o t, X) = IF FirstOf(s, X) # {} THEN FirstOf(s, X) ELSE FirstOf(t, X)
<1> DEFINE Firsts(q) == {k \in 1 .. Len(q) : q[k] \in X /\ \A j \in 1 .. k - 1 : q[j] \notin X}
<1>1. PICK u : u = s \o t
  OBVIOUS
<1>2. PICK m, n : m = Len(s) /\ n = Len(t)
  OBVIOUS
<1>3. /\ u \in Seq(T) /\ m \in Nat /\ n \in Nat /\ Len(u) = m + n
      /\ \A k \in 1 .. m : u[k] = s[k]
      /\ \A k \in 1 .. n : u[m + k] = t[k]
  BY <1>1, <1>2
<1>4. \A q \in Seq(T) : FirstOf(q, X) = {q[k] : k \in Firsts(q)}
  BY DEF FirstOf
<1>5. Firsts(s) = {} => FirstOf(s, X) = {}
  <2>1. FirstOf(s, X) = {s[k] : k \in Firsts(s)}
    BY <1>4
  <2> HIDE DEF Firsts
  <2> QED
    BY <2>1
<1>6. \A k \in 1 .. m : k \in Firsts(u) <=> k \in Firsts(s)
  <2> TAKE k \in 1 .. m
  <2>1. k \in 1 .. Len(u) /\ k \in 1 .. Len(s) /\ u[k] = s[k]
    BY <1>2, <1>3
  <2>2. \A j \in 1 .. k - 1 : u[j] = s[j]
    BY <1>3
  <2> QED
    BY <2>1, <2>2
<1>7. CASE FirstOf(s, X) # {}
  <2>1. PICK k \in Firsts(s) : TRUE
    BY <1>5, <1>7
  <2>2. k \in 1 .. m /\ u[k] \in X
    BY <1>2, <1>3, <2>1
  <2>3. Firsts(u) \subseteq 1 .. m
    BY <1>3, <2>2
  <2>4. Firsts(u) = Firsts(s)
    BY <1>2, <1>6, <2>3
  <2>5. \A i \in Firsts(s) : i \in 1 .. m /\ u[i] = s[i]
    BY <1>2, <1>3
  <2> HIDE DEF Firsts
  <2>6. {u[i] : i \in Firsts(u)} = {s[i] : i \in Firsts(s)}
    BY <2>4, <2>5
  <2> QED
    BY <1>1, <1>3, <1>4, <1>7, <2>6
<1>8. CASE FirstOf(s, X) = {}
  <2>1. \A k \in 1 .. m : u[k] \notin X
    <3>1. ToSet(s) \cap X = {}
      BY <1>8, FirstNone
    <3> QED
      BY <1>2, <1>3, <3>1 DEF ToSet
  <2>2. \A k \in 1 .. n : m + k \in Firsts(u) <=> k \in Firsts(t)
    <3> TAKE k \in 1 .. n
    <3>1. m + k \in 1 .. Len(u) /\ k \in 1 .. Len(t) /\ u[m + k] = t[k]
      <4>1. Len(u) = m + n /\ m \in Nat /\ n \in Nat /\ u[m + k] = t[k] /\ Len(t) = n
        BY <1>2, <1>3
      <4>2. m + k \in 1 .. m + n
        BY <4>1
      <4> QED
        BY <4>1, <4>2
    <3>2. ASSUME \A j \in 1 .. k - 1 : t[j] \notin X, NEW j \in 1 .. (m + k) - 1
          PROVE  u[j] \notin X
      <4>1. \/ j \in 1 .. m
            \/ j - m \in 1 .. k - 1 /\ j - m \in 1 .. n /\ m + (j - m) = j
        BY <1>3
      <4> QED
        BY <1>3, <2>1, <3>2, <4>1
    <3>3. ASSUME \A j \in 1 .. (m + k) - 1 : u[j] \notin X, NEW j \in 1 .. k - 1
          PROVE  t[j] \notin X
      <4>1. m + j \in 1 .. (m + k) - 1 /\ j \in 1 .. n
        BY <1>3
      <4> QED
        BY <1>3, <3>3, <4>1
    <3> QED
      BY <3>1, <3>2, <3>3
  <2>3. \A i \in Firsts(u) : i - m \in 1 .. n /\ m + (i - m) = i
    BY <1>3, <2>1
  <2>4. \A k \in Firsts(t) : k \in 1 .. n
    BY <1>2
  <2> HIDE DEF Firsts
  <2>5. {u[i] : i \in Firsts(u)} = {t[k] : k \in Firsts(t)}
    <3>1. ASSUME NEW i \in Firsts(u) PROVE u[i] \in {t[k] : k \in Firsts(t)}
      <4>1. PICK k \in 1 .. n : m + k = i
        BY <2>3
      <4> QED
        BY <1>3, <2>2, <4>1
    <3>2. ASSUME NEW k \in Firsts(t) PROVE t[k] \in {u[i] : i \in Firsts(u)}
      <4>1. m + k \in Firsts(u) /\ u[m + k] = t[k]
        BY <1>3, <2>2, <2>4
      <4> QED
        BY <4>1
    <3> QED
      BY <3>1, <3>2
  <2> QED
    BY <1>1, <1>3, <1>4, <1>8, <2>5
<1> QED
  BY <1>7, <1>8

Naming(b, X) == {c \in Around[b] : ToSet(raw[c].index) \cap X # {}}
Outermost(b, X) == {c \in Naming(b, X) : \A d \in Naming(b, X) : c \in Around[d]}

LEMMA FirstAroundIs ==
    \A b, X : FirstAround(b, X) = UNION {FirstOf(raw[c].index, X) : c \in Outermost(b, X)}
BY DEF FirstAround, Outermost, Naming

\* A block has what is due to the block around it, and otherwise its own.
LEMMA FirstOuter ==
    ASSUME NEW b \in Blocks, NEW X, raw[b].index \in Seq(Seq(STRING))
    PROVE  FirstAround(b, X) = IF b # Default /\ Naming(Outer[b], X) # {}
                               THEN FirstAround(Outer[b], X) ELSE FirstOf(raw[b].index, X)
<1>1. Outer[b] \in Blocks /\ Around[b] = {b} \cup Around[Outer[b]] /\ b \in Around[b]
  BY OuterType, AroundOuter, AroundType
<1>2. CASE b # Default /\ Naming(Outer[b], X) # {}
  <2>1. b \notin Around[Outer[b]]
    BY <1>2, NotAroundOuter
  <2>2. Outermost(b, X) = Outermost(Outer[b], X)
    <3>1. Naming(Outer[b], X) \subseteq Naming(b, X)
      BY <1>1 DEF Naming
    <3>2. \A c \in Naming(b, X) : c = b \/ c \in Naming(Outer[b], X)
      BY <1>1 DEF Naming
    <3>3. ASSUME NEW c \in Outermost(b, X) PROVE c \in Outermost(Outer[b], X)
      <4>1. c \in Naming(b, X) /\ \A d \in Naming(b, X) : c \in Around[d]
        BY <3>3 DEF Outermost
      <4>2. PICK d \in Naming(Outer[b], X) : TRUE
        BY <1>2
      <4>3. d \in Around[Outer[b]] /\ c \in Around[d]
        BY <3>1, <4>1 DEF Naming
      <4>4. c \in Around[Outer[b]]
        BY <1>1, <4>3, AroundGrows
      <4> QED
        BY <2>1, <3>1, <3>2, <4>1, <4>4 DEF Outermost
    <3>4. ASSUME NEW c \in Outermost(Outer[b], X) PROVE c \in Outermost(b, X)
      <4>1. c \in Naming(Outer[b], X) /\ \A d \in Naming(Outer[b], X) : c \in Around[d]
        BY <3>4 DEF Outermost
      <4>2. c \in Around[b]
        BY <1>1, <4>1 DEF Naming
      <4> QED
        BY <3>1, <3>2, <4>1, <4>2 DEF Outermost
    <3> QED
      BY <3>3, <3>4
  <2> QED
    BY <1>2, <2>2, FirstAroundIs
<1>3. CASE ~(b # Default /\ Naming(Outer[b], X) # {})
  <2>1. Naming(b, X) \subseteq {b}
    BY <1>1, <1>3, AroundDefault DEF Naming
  <2>2. CASE ToSet(raw[b].index) \cap X # {}
    <3>1. Naming(b, X) = {b}
      BY <1>1, <2>1, <2>2 DEF Naming
    <3>2. Outermost(b, X) = {b}
      BY <1>1, <3>1 DEF Outermost
    <3> QED
      BY <1>3, <3>2, FirstAroundIs
  <2>3. CASE ToSet(raw[b].index) \cap X = {}
    <3>1. Naming(b, X) = {}
      BY <2>1, <2>3 DEF Naming
    <3>2. Outermost(b, X) = {}
      BY <3>1 DEF Outermost
    <3>3. FirstOf(raw[b].index, X) = {}
      BY <2>3, FirstNone
    <3> QED
      BY <1>3, <3>2, <3>3, FirstAroundIs
  <2> QED
    BY <2>2, <2>3
<1> QED
  BY <1>2, <1>3

\* Something is due to a block as soon as one around it names a file.
LEMMA SomeOutermost ==
    ASSUME \A b \in Blocks : raw[b].index \in Seq(Seq(STRING)), NEW X
    PROVE  \A b \in Blocks : Naming(b, X) = {} <=> FirstAround(b, X) = {}
<1> DEFINE S == {b \in Blocks : Naming(b, X) # {} /\ FirstAround(b, X) = {}}
<1>1. ASSUME NEW b \in S PROVE b # Default /\ Outer[b] \in S
  <2>1. b \in Blocks /\ Outer[b] \in Blocks /\ Naming(b, X) # {} /\ FirstAround(b, X) = {}
    BY OuterType
  <2>2. b # Default /\ Naming(Outer[b], X) # {}
    <3> SUFFICES ASSUME ~(b # Default /\ Naming(Outer[b], X) # {}) PROVE FALSE
      OBVIOUS
    <3>1. FirstOf(raw[b].index, X) = {}
      BY <2>1, FirstOuter
    <3>2. b \notin Naming(b, X)
      BY <2>1, <3>1, FirstNone DEF Naming
    <3>3. Naming(b, X) \subseteq {b}
      BY <2>1, AroundDefault, AroundOuter DEF Naming
    <3> QED
      BY <2>1, <3>2, <3>3
  <2>3. FirstAround(Outer[b], X) = {}
    BY <2>1, <2>2, FirstOuter
  <2> QED
    BY <2>1, <2>2, <2>3
<1>2. S = {}
  <2>1. S \in SUBSET (Blocks \ {Default})
    BY <1>1
  <2> HIDE DEF S
  <2> QED
    BY <1>1, <2>1, ForestAssumption
<1>3. ASSUME NEW b \in Blocks, Naming(b, X) = {} PROVE FirstAround(b, X) = {}
  BY <1>3, FirstAroundIs DEF Outermost
<1> QED
  BY <1>2, <1>3

LEMMA FirstDue ==
    ASSUME \A b \in Blocks : raw[b].index \in Seq(Seq(STRING)), NEW b \in Blocks, NEW X
    PROVE  FirstAround(b, X) = IF b # Default /\ FirstAround(Outer[b], X) # {}
                               THEN FirstAround(Outer[b], X) ELSE FirstOf(raw[b].index, X)
<1>1. Outer[b] \in Blocks
  BY OuterType
<1>2. Naming(Outer[b], X) = {} <=> FirstAround(Outer[b], X) = {}
  BY <1>1, SomeOutermost
<1> QED
  BY <1>2, FirstOuter

---------------------------------------------------------------------------
(* Loading                                                                 *)

\* b has all the settings it should have.
Settled(b) ==
    /\ \A x \in Kinds : conf[b][x] = Nearest(b, x)
    /\ \A X : FirstOf(conf[b].index, X) = FirstAround(b, X)

\* passMembers is still to come by b.
Awaits(b) ==
    \/ \E k \in DOMAIN Servers : k > closed /\ Servers[k] = b
    \/ \E i \in DOMAIN calls : calls[i][2] = b

Shape ==
    /\ raw \in Parsed /\ closed \in 0 .. Len(Servers)
    /\ DOMAIN conf = Blocks
    /\ \A b \in Blocks : DOMAIN conf[b] = Settings /\ conf[b].index \in Seq(Seq(STRING))
    /\ calls \in Seq(Blocks \X (Blocks \ {Default}))

\* A setting is as it was read or as it should be.
HalfWay ==
    \A b \in Blocks :
        /\ \A x \in Kinds : conf[b][x] \in {raw[b][x], Nearest(b, x)}
        /\ \A X : FirstOf(conf[b].index, X) \in {FirstOf(raw[b].index, X), FirstAround(b, X)}

\* A block is passed what the one around it has, and by then that has what it should.
CallsInOrder ==
    \A i \in DOMAIN calls :
        /\ calls[i][1] = Outer[calls[i][2]]
        /\ Settled(calls[i][1]) \/ \E j \in 1 .. i - 1 : calls[j][2] = calls[i][1]

\* What has not its settings yet is in a block that passMembers will come by.
AllComing == \A b \in Blocks : Settled(b) \/ \E c \in Around[b] : Awaits(c)

LoadInv == Shape /\ HalfWay /\ CallsInOrder /\ AllComing

LEMMA RawIndex ==
    ASSUME raw \in Parsed
    PROVE  \A b \in Blocks : raw[b].index \in Seq(Seq(STRING))
BY ForestAssumption

LEMMA DefaultSettled == ASSUME LoadInv PROVE Settled(Default)
<1>1. Default \in Blocks
  BY RoutingAssumption
<1>2. ASSUME NEW x \in Kinds PROVE conf[Default][x] = Nearest(Default, x)
  <2>1. Nearest(Default, x) = raw[Default][x]
    BY <1>1, NearestOwn, NearestOuter
  <2> QED
    BY <1>1, <2>1 DEF LoadInv, HalfWay
<1>3. ASSUME NEW X PROVE FirstOf(conf[Default].index, X) = FirstAround(Default, X)
  <2>1. FirstAround(Default, X) = FirstOf(raw[Default].index, X)
    BY <1>1, RawIndex, FirstDue DEF LoadInv, Shape
  <2> QED
    BY <1>1, <2>1 DEF LoadInv, HalfWay
<1> QED
  BY <1>2, <1>3 DEF Settled

LEMMA SettledPasses ==
    ASSUME LoadInv, NEW s \in Blocks \ {Default}, Settled(Outer[s]), NEW x \in Kinds
    PROVE  PassedOn(conf[Outer[s]], conf[s])[x] = Nearest(s, x)
<1> DEFINE own == conf[s][x]
           out == conf[Outer[s]][x]
<1>1. PassedOn(conf[Outer[s]], conf[s])[x] = OrElse(own, Unset[x], out)
  BY PassedOnIs DEF LoadInv, Shape
<1>2. own \in {raw[s][x], Nearest(s, x)} /\ out = Nearest(Outer[s], x)
  BY DEF LoadInv, HalfWay, Settled
<1>3. CASE raw[s][x] # Unset[x]
  BY <1>1, <1>2, <1>3, NearestOwn DEF OrElse
<1>4. CASE raw[s][x] = Unset[x]
  <2>1. Nearest(s, x) = Nearest(Outer[s], x)
    BY <1>4, NearestOuter
  <2> QED
    BY <1>1, <1>2, <1>4, <2>1 DEF OrElse
<1> QED
  BY <1>3, <1>4

LEMMA IndexPasses ==
    ASSUME LoadInv, NEW s \in Blocks \ {Default}, Settled(Outer[s])
    PROVE  /\ PassedOn(conf[Outer[s]], conf[s]).index \in Seq(Seq(STRING))
           /\ \A X : FirstOf(PassedOn(conf[Outer[s]], conf[s]).index, X) = FirstAround(s, X)
<1>1. PICK own, out : own = conf[s].index /\ out = conf[Outer[s]].index
  OBVIOUS
<1>2. own \in Seq(Seq(STRING)) /\ out \in Seq(Seq(STRING))
  BY <1>1, OuterType DEF LoadInv, Shape
<1>3. PassedOn(conf[Outer[s]], conf[s]).index = out \o own
  BY <1>1 DEF PassedOn, IndexFirst, LoadInv, Shape, Settings
<1>4. ASSUME NEW X PROVE FirstOf(out \o own, X) = FirstAround(s, X)
  <2>1. FirstOf(out \o own, X) = IF FirstOf(out, X) # {} THEN FirstOf(out, X)
                                 ELSE FirstOf(own, X)
    BY <1>2, FirstJoined
  <2>2. FirstOf(out, X) = FirstAround(Outer[s], X)
    BY <1>1 DEF Settled
  <2>3. FirstOf(own, X) \in {FirstOf(raw[s].index, X), FirstAround(s, X)}
    BY <1>1 DEF LoadInv, HalfWay
  <2>4. FirstAround(s, X) = IF FirstAround(Outer[s], X) # {}
                            THEN FirstAround(Outer[s], X) ELSE FirstOf(raw[s].index, X)
    BY RawIndex, FirstDue DEF LoadInv, Shape
  <2> QED
    BY <2>1, <2>2, <2>3, <2>4
<1> QED
  BY <1>2, <1>3, <1>4

\* What is due to a block depends only on what was read.
LEMMA SameDue ==
    ASSUME UNCHANGED raw
    PROVE  /\ \A b, x : Nearest(b, x)' = Nearest(b, x)
           /\ \A b, X : FirstAround(b, X)' = FirstAround(b, X)
BY DEF Nearest, FirstAround

Call2 == Blocks \X (Blocks \ {Default})

\* What is in the calls c of l and then r.
Joins(S, l, r, c) ==
    /\ c \in Seq(S) /\ Len(c) = Len(l) + Len(r)
    /\ \A i \in 1 .. Len(l) : c[i] = l[i]
    /\ \A i \in 1 .. Len(r) : c[Len(l) + i] = r[i]

LEMMA Joined ==
    ASSUME NEW S, NEW l \in Seq(S), NEW r \in Seq(S), NEW c, c = l \o r
    PROVE  Joins(S, l, r, c)
BY DEF Joins

LEMMA CallsFromType ==
    ASSUME NEW b \in Blocks
    PROVE  /\ CallsFrom(b) \in Seq(Call2) /\ Len(CallsFrom(b)) = Len(Children[b])
           /\ \A i \in 1 .. Len(CallsFrom(b)) : CallsFrom(b)[i] = <<b, Children[b][i]>>
<1>1. Children[b] \in Seq(Blocks \ {Default})
  BY RoutingAssumption
<1>2. \A i \in 1 .. Len(Children[b]) : <<b, Children[b][i]>> \in Call2
  BY <1>1 DEF Call2
<1> QED
  BY <1>1, <1>2 DEF CallsFrom

\* One block gets what it should have, and its locations' calls come first.
LEMMA LoadStep ==
    ASSUME LoadInv, UNCHANGED raw, NEW s \in Blocks \ {Default}, Settled(s)',
           DOMAIN conf' = Blocks, DOMAIN conf'[s] = Settings,
           conf'[s].index \in Seq(Seq(STRING)),
           \A b \in Blocks \ {s} : conf'[b] = conf[b],
           closed' \in 0 .. Len(Servers),
           NEW rest \in Seq(Call2), Joins(Call2, CallsFrom(s), rest, calls'),
           \A i \in DOMAIN rest :
               /\ rest[i][1] = Outer[rest[i][2]]
               /\ \/ rest[i][1] = s \/ Settled(rest[i][1])
                  \/ \E j \in 1 .. i - 1 : rest[j][2] = rest[i][1],
           \A b \in Blocks \ {s} : Awaits(b) =>
               \/ \E i \in DOMAIN rest : rest[i][2] = b
               \/ \E k \in DOMAIN Servers : k > closed' /\ Servers[k] = b
    PROVE  LoadInv'
<1> DEFINE new == CallsFrom(s)
           n == Len(new)
<1>1. /\ calls' \in Seq(Call2) /\ Len(calls') = n + Len(rest) /\ n \in Nat
      /\ \A i \in 1 .. n : calls'[i] = new[i]
      /\ \A i \in 1 .. Len(rest) : calls'[n + i] = rest[i]
  BY CallsFromType DEF Joins
<1>2. /\ \A b, x : Nearest(b, x)' = Nearest(b, x)
      /\ \A b, X : FirstAround(b, X)' = FirstAround(b, X)
  BY SameDue
<1>3. \A b \in Blocks : Settled(b) => Settled(b)'
  BY <1>2 DEF Settled
<1>4. /\ Len(new) = Len(Children[s]) /\ DOMAIN Children[s] = 1 .. Len(Children[s])
      /\ \A i \in 1 .. n : new[i] = <<s, Children[s][i]>>
  BY CallsFromType, RoutingAssumption
<1>5. Shape'
  BY <1>1 DEF LoadInv, Shape, Call2
<1>6. HalfWay'
  <2> SUFFICES ASSUME NEW b \in Blocks
               PROVE  /\ \A x \in Kinds : conf'[b][x] \in {raw'[b][x], Nearest(b, x)'}
                      /\ \A X : FirstOf(conf'[b].index, X) \in
                                  {FirstOf(raw'[b].index, X), FirstAround(b, X)'}
    BY DEF HalfWay
  <2>1. CASE b = s
    BY <2>1 DEF Settled
  <2>2. CASE b # s
    BY <1>2, <2>2 DEF LoadInv, HalfWay
  <2> QED
    BY <2>1, <2>2
<1>7. CallsInOrder'
  <2> SUFFICES ASSUME NEW i \in DOMAIN calls'
               PROVE  /\ calls'[i][1] = Outer[calls'[i][2]]
                      /\ \/ Settled(calls[i][1])'
                         \/ \E j \in 1 .. i - 1 : calls'[j][2] = calls'[i][1]
    BY DEF CallsInOrder
  <2>1. i \in 1 .. n \/ \E m \in 1 .. Len(rest) : i = n + m
    <3>1. Len(rest) \in Nat /\ i \in 1 .. n + Len(rest)
      BY <1>1
    <3>2. i > n => i - n \in 1 .. Len(rest) /\ i = n + (i - n)
      BY <1>1, <3>1
    <3> QED
      BY <1>1, <3>1, <3>2
  <2>2. CASE i \in 1 .. n
    <3>1. calls'[i] = <<s, Children[s][i]>> /\ i \in DOMAIN Children[s]
      <4>1. calls'[i] = new[i] /\ new[i] = <<s, Children[s][i]>>
        BY <1>1, <1>4, <2>2
      <4>2. i \in DOMAIN Children[s]
        BY <1>4, <2>2
      <4> QED
        BY <4>1, <4>2, Zenon
    <3>2. Outer[Children[s][i]] = s
      BY <3>1, LocationType
    <3> QED
      BY <3>1, <3>2
  <2>3. ASSUME NEW m \in 1 .. Len(rest), i = n + m
        PROVE  /\ calls'[i][1] = Outer[calls'[i][2]]
               /\ \/ Settled(calls[i][1])'
                  \/ \E j \in 1 .. i - 1 : calls'[j][2] = calls'[i][1]
    <3>1. calls'[i] = rest[m] /\ m \in DOMAIN rest
      <4>1. calls'[n + m] = rest[m]
        BY <1>1, Zenon
      <4>2. m \in DOMAIN rest
        OBVIOUS
      <4> QED
        BY <2>3, <4>1, <4>2, Zenon
    <3>2. rest[m][1] \in Blocks
      BY <3>1 DEF Call2
    <3>3. PICK q \in Blocks : q = rest[m][1]
      BY <3>2
    <3>4. CASE q = s \/ Settled(q)
      BY <1>3, <3>1, <3>3, <3>4
    <3>5. ASSUME NEW j \in 1 .. m - 1, rest[j][2] = rest[m][1]
          PROVE  \E h \in 1 .. i - 1 : calls'[h][2] = calls'[i][1]
      <4>1. j \in 1 .. Len(rest) /\ n + j \in 1 .. i - 1
        BY <1>1, <2>3
      <4>2. calls'[n + j] = rest[j]
        BY <1>1, <4>1
      <4> QED
        BY <3>1, <3>5, <4>1, <4>2
    <3> QED
      BY <3>1, <3>3, <3>4, <3>5
  <2> QED
    BY <2>1, <2>2, <2>3
<1>8. \A b \in Blocks \ {s} : Awaits(b) => Awaits(b)'
  <2> SUFFICES ASSUME NEW b \in Blocks \ {s}, Awaits(b) PROVE Awaits(b)'
    OBVIOUS
  <2>1. CASE \E k \in DOMAIN Servers : k > closed' /\ Servers[k] = b
    BY <2>1 DEF Awaits
  <2>2. ASSUME NEW i \in DOMAIN rest, rest[i][2] = b PROVE Awaits(b)'
    <3>1. i \in 1 .. Len(rest)
      OBVIOUS
    <3>2. n + i \in DOMAIN calls' /\ calls'[n + i] = rest[i]
      BY <1>1, <3>1
    <3> QED
      BY <2>2, <3>2 DEF Awaits
  <2> QED
    BY <2>1, <2>2
<1>9. AllComing'
  <2> SUFFICES ASSUME NEW b \in Blocks, ~Settled(b)'
               PROVE  \E c \in Around[b] : Awaits(c)'
    BY DEF AllComing
  <2>1. PICK c \in Around[b] : Awaits(c)
    BY <1>3 DEF LoadInv, AllComing
  <2>2. c \in Blocks
    BY AroundType
  <2>3. CASE c # s
    BY <1>8, <2>1, <2>2, <2>3
  <2>4. CASE c = s
    <3>1. PICK d \in Around[b] : Contains(Children[s], d)
      BY <2>1, <2>4, AroundInside
    <3>2. PICK i \in 1 .. Len(Children[s]) : Children[s][i] = d
      BY <3>1 DEF Contains
    <3>3. calls'[i][2] = d /\ i \in DOMAIN calls'
      BY <1>1, <1>4, <3>2
    <3> QED
      BY <3>3 DEF Awaits
  <2> QED
    BY <2>3, <2>4
<1> QED
  BY <1>5, <1>6, <1>7, <1>9 DEF LoadInv

LEMMA PassKeeps == ASSUME LoadInv, PassMembers PROVE LoadInv'
<1>1. calls \in Seq(Call2) /\ calls # <<>>
  BY DEF LoadInv, Shape, PassMembers, Call2
<1>2. PICK p, s : p = Head(calls)[1] /\ s = Head(calls)[2]
  OBVIOUS
<1>3. PICK rest : rest = Tail(calls)
  OBVIOUS
<1>4. /\ 1 \in DOMAIN calls /\ calls[1] = Head(calls) /\ rest \in Seq(Call2)
      /\ Len(calls) \in Nat /\ DOMAIN calls = 1 .. Len(calls)
      /\ Len(rest) = Len(calls) - 1 /\ \A i \in 1 .. Len(rest) : rest[i] = calls[i + 1]
  BY <1>1, <1>3
<1>5. p \in Blocks /\ s \in Blocks \ {Default}
  BY <1>1, <1>2, <1>4 DEF Call2
<1>6. p = Outer[s] /\ Settled(p)
  <2>1. calls[1][1] = p /\ calls[1][2] = s
    BY <1>2, <1>4
  <2>2. ~ \E j \in 1 .. 1 - 1 : calls[j][2] = p
    OBVIOUS
  <2> QED
    BY <1>4, <2>1, <2>2 DEF LoadInv, CallsInOrder
<1>7. /\ conf' = [conf EXCEPT ![s] = PassedOn(conf[p], conf[s])]
      /\ calls' = CallsFrom(s) \o rest
      /\ UNCHANGED <<raw, closed>>
  BY <1>2, <1>3 DEF PassMembers
<1>8. /\ DOMAIN conf' = Blocks /\ conf'[s] = PassedOn(conf[p], conf[s])
      /\ \A b \in Blocks \ {s} : conf'[b] = conf[b]
  BY <1>5, <1>7 DEF LoadInv, Shape
<1>9. DOMAIN conf'[s] = Settings
  BY <1>5, <1>8, PassedOnFields DEF LoadInv, Shape
<1>10. Settled(s)'
  <2>1. ASSUME NEW x \in Kinds PROVE conf'[s][x] = Nearest(s, x)
    BY <1>5, <1>6, <1>8, SettledPasses
  <2>2. \A X : FirstOf(conf'[s].index, X) = FirstAround(s, X)
    BY <1>5, <1>6, <1>8, IndexPasses
  <2>3. /\ \A x : Nearest(s, x)' = Nearest(s, x)
        /\ \A X : FirstAround(s, X)' = FirstAround(s, X)
    BY <1>7, SameDue
  <2> QED
    BY <2>1, <2>2, <2>3 DEF Settled
<1>11. Joins(Call2, CallsFrom(s), rest, calls')
  BY <1>4, <1>5, <1>7, CallsFromType, Joined
<1>12. closed' \in 0 .. Len(Servers)
  BY <1>7 DEF LoadInv, Shape
<1>13. ASSUME NEW i \in DOMAIN rest
       PROVE  /\ rest[i][1] = Outer[rest[i][2]]
              /\ \/ rest[i][1] = s \/ Settled(rest[i][1])
                 \/ \E j \in 1 .. i - 1 : rest[j][2] = rest[i][1]
  <2>1. i \in 1 .. Len(rest) /\ i + 1 \in DOMAIN calls /\ rest[i] = calls[i + 1]
    BY <1>4
  <2>2. /\ rest[i][1] = Outer[rest[i][2]]
        /\ \/ Settled(rest[i][1])
           \/ \E j \in 1 .. (i + 1) - 1 : calls[j][2] = rest[i][1]
    BY <2>1 DEF LoadInv, CallsInOrder
  <2>3. ASSUME NEW j \in 1 .. (i + 1) - 1, calls[j][2] = rest[i][1]
        PROVE  rest[i][1] = s \/ \E h \in 1 .. i - 1 : rest[h][2] = rest[i][1]
    <3>1. CASE j = 1
      BY <1>2, <1>4, <2>3, <3>1
    <3>2. CASE j # 1
      <4>1. j - 1 \in 1 .. i - 1 /\ j - 1 \in 1 .. Len(rest) /\ (j - 1) + 1 = j
        BY <1>4, <2>1, <3>2
      <4>2. rest[j - 1] = calls[j]
        BY <1>4, <4>1
      <4> QED
        BY <2>3, <4>1, <4>2
    <3> QED
      BY <3>1, <3>2
  <2> QED
    BY <2>2, <2>3
<1>14. ASSUME NEW b \in Blocks \ {s}, Awaits(b)
       PROVE  \/ \E i \in DOMAIN rest : rest[i][2] = b
              \/ \E k \in DOMAIN Servers : k > closed' /\ Servers[k] = b
  <2>1. CASE \E k \in DOMAIN Servers : k > closed /\ Servers[k] = b
    BY <1>7, <2>1
  <2>2. ASSUME NEW i \in DOMAIN calls, calls[i][2] = b
        PROVE  \E h \in DOMAIN rest : rest[h][2] = b
    <3>1. i # 1
      BY <1>2, <1>4, <1>14, <2>2
    <3>2. i - 1 \in 1 .. Len(rest) /\ (i - 1) + 1 = i
      BY <1>4, <3>1
    <3>3. rest[i - 1] = calls[i] /\ i - 1 \in DOMAIN rest
      BY <1>4, <3>2
    <3> QED
      BY <2>2, <3>3
  <2> QED
    BY <1>14, <2>1, <2>2 DEF Awaits
<1>15. \A i \in DOMAIN rest :
          /\ rest[i][1] = Outer[rest[i][2]]
          /\ \/ rest[i][1] = s \/ Settled(rest[i][1])
             \/ \E j \in 1 .. i - 1 : rest[j][2] = rest[i][1]
  BY <1>13
<1>16. \A b \in Blocks \ {s} : Awaits(b) =>
          \/ \E i \in DOMAIN rest : rest[i][2] = b
          \/ \E k \in DOMAIN Servers : k > closed' /\ Servers[k] = b
  BY <1>14
<1>17. UNCHANGED raw /\ rest \in Seq(Call2)
  BY <1>4, <1>7
<1>18. conf'[s].index \in Seq(Seq(STRING))
  BY <1>5, <1>6, <1>8, IndexPasses
<1> QED
  BY <1>5, <1>8, <1>9, <1>10, <1>11, <1>12, <1>15, <1>16, <1>17, <1>18, LoadStep, Zenon

LEMMA CloseKeeps == ASSUME LoadInv, CloseServer PROVE LoadInv'
<1>1. /\ calls = <<>> /\ closed < Len(Servers) /\ closed' = closed + 1
      /\ UNCHANGED <<raw, conf>>
  BY DEF CloseServer
<1>2. PICK k : k = closed + 1
  OBVIOUS
<1>3. PICK s : s = Servers[k]
  OBVIOUS
<1>4. k \in DOMAIN Servers /\ k \in 1 .. Len(Servers) /\ closed \in Nat
  BY <1>1, <1>2, RoutingAssumption DEF LoadInv, Shape
<1>5. s \in Blocks \ {Default} /\ Outer[s] = Default
  BY <1>3, <1>4, ServerOuter
<1>6. PICK first : first = <<<<Default, s>>>>
  OBVIOUS
<1>7. first \in Seq(Call2) /\ Len(first) = 1 /\ first[1] = <<Default, s>>
  BY <1>5, <1>6, RoutingAssumption DEF Call2
<1>8. Joins(Call2, first, CallsFrom(s), calls')
  <2>1. calls' = first \o CallsFrom(s)
    BY <1>2, <1>3, <1>6 DEF CloseServer
  <2> QED
    BY <1>5, <1>7, <2>1, CallsFromType, Joined
<1> DEFINE new == CallsFrom(s)
           n == Len(new)
<1>9. /\ calls' \in Seq(Call2) /\ Len(calls') = 1 + n /\ n \in Nat
      /\ calls'[1] = <<Default, s>>
      /\ \A i \in 1 .. n : calls'[1 + i] = <<s, Children[s][i]>> /\ i \in DOMAIN Children[s]
  <2>1. /\ new \in Seq(Call2) /\ n = Len(Children[s])
        /\ \A i \in 1 .. n : new[i] = <<s, Children[s][i]>>
    BY <1>5, CallsFromType
  <2>2. DOMAIN Children[s] = 1 .. Len(Children[s])
    BY <1>5, RoutingAssumption
  <2>3. /\ calls' \in Seq(Call2) /\ Len(calls') = 1 + n /\ calls'[1] = first[1]
        /\ \A i \in 1 .. n : calls'[1 + i] = new[i]
    BY <1>7, <1>8 DEF Joins
  <2> HIDE DEF new
  <2>4. n \in Nat
    BY <2>1
  <2> QED
    BY <1>7, <2>1, <2>2, <2>3, <2>4
<1>10. /\ \A b, x : Nearest(b, x)' = Nearest(b, x)
       /\ \A b, X : FirstAround(b, X)' = FirstAround(b, X)
  BY <1>1, SameDue
<1>11. \A b \in Blocks : Settled(b)' <=> Settled(b)
  BY <1>1, <1>10 DEF Settled
<1>12. Shape'
  BY <1>1, <1>9 DEF LoadInv, Shape, Call2
<1>13. HalfWay'
  BY <1>1, <1>10 DEF LoadInv, HalfWay
<1>14. CallsInOrder'
  <2> SUFFICES ASSUME NEW i \in DOMAIN calls'
               PROVE  /\ calls'[i][1] = Outer[calls'[i][2]]
                      /\ \/ Settled(calls[i][1])'
                         \/ \E j \in 1 .. i - 1 : calls'[j][2] = calls'[i][1]
    BY DEF CallsInOrder
  <2>1. i = 1 \/ (i - 1 \in 1 .. n /\ 1 + (i - 1) = i /\ 1 \in 1 .. i - 1)
    BY <1>9
  <2>2. CASE i = 1
    BY <1>5, <1>9, <1>11, <2>2, DefaultSettled, RoutingAssumption
  <2>3. CASE i - 1 \in 1 .. n /\ 1 + (i - 1) = i /\ 1 \in 1 .. i - 1
    <3>1. calls'[i] = <<s, Children[s][i - 1]>> /\ i - 1 \in DOMAIN Children[s]
      BY <1>9, <2>3
    <3>2. Outer[Children[s][i - 1]] = s
      BY <1>5, <3>1, LocationType
    <3>3. calls'[1][2] = s
      BY <1>9
    <3> QED
      BY <2>3, <3>1, <3>2, <3>3
  <2> QED
    BY <2>1, <2>2, <2>3
<1>15. AllComing'
  <2>1. ASSUME NEW c, Awaits(c) PROVE Awaits(c)'
    <3>1. ~ \E i \in DOMAIN calls : calls[i][2] = c
      BY <1>1
    <3>2. PICK h \in DOMAIN Servers : h > closed /\ Servers[h] = c
      BY <2>1, <3>1 DEF Awaits
    <3>3. CASE h = k
      <4>1. 1 \in DOMAIN calls' /\ calls'[1][2] = c
        BY <1>3, <1>9, <3>2, <3>3
      <4> QED
        BY <4>1 DEF Awaits
    <3>4. CASE h # k
      <4>1. h > closed'
        BY <1>1, <1>2, <1>4, <3>2, <3>4, RoutingAssumption
      <4> QED
        BY <3>2, <4>1 DEF Awaits
    <3> QED
      BY <3>3, <3>4
  <2> QED
    BY <1>11, <2>1 DEF LoadInv, AllComing
<1> QED
  BY <1>12, <1>13, <1>14, <1>15 DEF LoadInv

\* Every block but the default one is in a server.
LEMMA InServer ==
    ASSUME NEW b \in Blocks \ {Default}
    PROVE  \E c \in Around[b] : Contains(Servers, c)
<1> SUFFICES ASSUME \A c \in Around[b] : ~Contains(Servers, c) PROVE FALSE
  OBVIOUS
<1> DEFINE S == Around[b] \ {Default}
<1>1. b \in S /\ S \in SUBSET (Blocks \ {Default})
  BY AroundType
<1>2. ASSUME NEW c \in S PROVE Outer[c] \in S
  <2>1. c \in Blocks \ {Default} /\ c \in Around[b] /\ ~Contains(Servers, c)
    BY <1>1
  <2>2. Outer[c] # Default
    BY <2>1, Placed
  <2>3. Outer[c] \in Around[c]
    BY <2>1, AroundOuter, AroundType, OuterType
  <2> QED
    BY <2>1, <2>2, <2>3, AroundGrows
<1> HIDE DEF S
<1> QED
  BY <1>1, <1>2, ForestAssumption

LEMMA LoadInit == RoutingInit => LoadInv
<1> SUFFICES ASSUME RoutingInit PROVE LoadInv
  OBVIOUS
<1>1. raw \in Parsed /\ conf = raw /\ calls = <<>> /\ closed = 0
  BY DEF RoutingInit
<1>2. /\ DOMAIN conf = Blocks
      /\ \A b \in Blocks : DOMAIN conf[b] = Settings /\ conf[b].index \in Seq(Seq(STRING))
  BY <1>1, ForestAssumption
<1>3. 0 \in 0 .. Len(Servers)
  BY RoutingAssumption
<1>4. Shape
  BY <1>1, <1>2, <1>3 DEF Shape
<1>5. HalfWay
  BY <1>1 DEF HalfWay
<1>6. CallsInOrder
  BY <1>1 DEF CallsInOrder
<1>7. ASSUME NEW b \in Blocks PROVE Settled(b) \/ \E c \in Around[b] : Awaits(c)
  <2>1. CASE b = Default
    <3>1. ASSUME NEW x \in Kinds PROVE conf[b][x] = Nearest(b, x)
      <4>1. raw[b][x] # Unset[x] => Nearest(b, x) = raw[b][x]
        BY NearestOwn
      <4>2. raw[b][x] = Unset[x] => Nearest(b, x) = raw[b][x]
        BY <2>1, NearestOuter
      <4> QED
        BY <1>1, <4>1, <4>2
    <3>2. ASSUME NEW X PROVE FirstOf(conf[b].index, X) = FirstAround(b, X)
      BY <1>1, <2>1, RawIndex, FirstDue
    <3> QED
      BY <3>1, <3>2 DEF Settled
  <2>2. CASE b # Default
    <3>1. PICK c \in Around[b] : Contains(Servers, c)
      BY <2>2, InServer
    <3>2. PICK k \in 1 .. Len(Servers) : Servers[k] = c
      BY <3>1 DEF Contains
    <3>3. k \in DOMAIN Servers /\ k > 0
      BY RoutingAssumption
    <3> QED
      BY <1>1, <3>2, <3>3 DEF Awaits
  <2> QED
    BY <2>1, <2>2
<1> QED
  BY <1>4, <1>5, <1>6, <1>7 DEF LoadInv, AllComing

LEMMA SameLoad == ASSUME LoadInv, UNCHANGED <<raw, conf, calls, closed>> PROVE LoadInv'
<1>1. /\ \A b, x : Nearest(b, x)' = Nearest(b, x)
      /\ \A b, X : FirstAround(b, X)' = FirstAround(b, X)
  BY SameDue
<1>2. \A b : Settled(b)' <=> Settled(b)
  BY <1>1 DEF Settled
<1>3. \A b : Awaits(b)' <=> Awaits(b)
  BY DEF Awaits
<1>4. Shape' /\ HalfWay'
  BY <1>1 DEF LoadInv, Shape, HalfWay
<1>5. CallsInOrder'
  <2>1. \A i : Settled(calls[i][1])' <=> Settled(calls[i][1])
    BY <1>1 DEF Settled
  <2> QED
    BY <2>1 DEF LoadInv, CallsInOrder
<1>6. AllComing'
  BY <1>2, <1>3 DEF LoadInv, AllComing
<1> QED
  BY <1>4, <1>5, <1>6 DEF LoadInv

LEMMA LoadNext == LoadInv /\ [RoutingNext]_routingVars => LoadInv'
<1> SUFFICES ASSUME LoadInv, [RoutingNext]_routingVars PROVE LoadInv'
  OBVIOUS
<1>1. CASE CloseServer
  BY <1>1, CloseKeeps
<1>2. CASE PassMembers
  BY <1>2, PassKeeps
<1>3. CASE Serve
  BY <1>3, SameLoad DEF Serve
<1>4. CASE UNCHANGED routingVars
  BY <1>4, SameLoad DEF routingVars
<1> QED
  BY <1>1, <1>2, <1>3, <1>4 DEF RoutingNext

LEMMA AlwaysLoads == RoutingSpec => []LoadInv
BY LoadInit, LoadNext, PTL DEF RoutingSpec

LEMMA LoadedSettled ==
    ASSUME LoadInv, Loaded, NEW b \in Blocks
    PROVE  Settled(b)
<1>1. closed = Len(Servers) /\ calls = <<>>
  BY DEF Loaded
<1>2. \A k \in DOMAIN Servers : ~(k > closed)
  BY <1>1, RoutingAssumption
<1>3. \A c : ~Awaits(c)
  BY <1>1, <1>2 DEF Awaits
<1> QED
  BY <1>3 DEF LoadInv, AllComing

\* Once the file is read every block has, for each setting, its own value or that of
\* the innermost block around it that sets one, however deep blocks nest and however
\* often and in whatever order passMembers comes by.
THEOREM SettingsComeFromNearest == RoutingSpec => []NearestSettingWins
<1>1. LoadInv => NearestSettingWins
  BY LoadedSettled, UnsetDomain DEF NearestSettingWins, Settled
<1> QED
  BY <1>1, AlwaysLoads, PTL

\* Once the file is read, and whichever files exist: the index file found for a block
\* is the first of the outermost block around it that names one of them, although
\* passMembers came by more than once and put the outer block's files in front again.
THEOREM IndexFilesSettle == RoutingSpec => []IndexSettles
<1>1. LoadInv => IndexSettles
  BY LoadedSettled DEF IndexSettles, Settled
<1> QED
  BY <1>1, AlwaysLoads, PTL

---------------------------------------------------------------------------
(* Requests                                                                *)

LEMMA FirstIs ==
    ASSUME NEW I \in SUBSET Nat, I # {}
    PROVE  Min(I) \in I
BY LeastOf DEF Min

\* findServerBlock finds a block that listens there, by its name if there is one.
LEMMA FoundListens ==
    ASSUME NEW host, NEW listen, AllListens(listen)
    PROVE  \E k \in DOMAIN Servers :
              /\ FindServer(host, listen) = Servers[k]
              /\ Contains(conf[Servers[k]].listen, listen)
              /\ (\E m \in DOMAIN Servers : MatchBoth(Servers[m], host, listen))
                    => MatchBoth(Servers[k], host, listen)
<1> DEFINE Both == {k \in 1 .. Len(Servers) : MatchBoth(Servers[k], host, listen)}
           Here == {k \in 1 .. Len(Servers) : Contains(conf[Servers[k]].listen, listen)}
           named == IF Both # {} THEN Min(Both) ELSE 0
           other == IF Here # {} THEN Min(Here) ELSE 0
<1>1. FindServer(host, listen) = Servers[IF named # 0 THEN named ELSE other]
  BY DEF FindServer, SelectInSeq
<1>2. DOMAIN Servers = 1 .. Len(Servers)
  BY RoutingAssumption
<1>3. Here # {}
  BY <1>2 DEF AllListens
<1>4. Min(Here) \in Here
  <2>1. Here \in SUBSET Nat
    OBVIOUS
  <2> HIDE DEF Here
  <2> QED
    BY <1>3, <2>1, FirstIs
<1>5. Both # {} => Min(Both) \in Both
  <2>1. Both \in SUBSET Nat
    OBVIOUS
  <2> HIDE DEF Both
  <2> QED
    BY <2>1, FirstIs
<1>6. CASE Both = {}
  <2>1. named = 0 /\ other = Min(Here)
    BY <1>3, <1>6
  <2> QED
    BY <1>1, <1>2, <1>4, <1>6, <2>1
<1>7. CASE Both # {}
  <2>1. named = Min(Both) /\ named # 0
    BY <1>5, <1>7
  <2>2. named \in 1 .. Len(Servers) /\ MatchBoth(Servers[named], host, listen)
    BY <1>5, <1>7, <2>1
  <2> QED
    BY <1>1, <1>2, <2>1, <2>2 DEF MatchBoth
<1> QED
  BY <1>6, <1>7

---------------------------------------------------------------------------
(* The search for a location                                               *)

Ends(b, path) == path = <<>> \/ Entered(b, path) = {}
Into(b, path) == CHOOSE c \in Entered(b, path) : TRUE
Fits(c, path) == IsLocationOf(c, path) \/ IsSuffixOf(c, path)

\* No location beside c has a longer prefix of the path than it.
Best(c, path) ==
    /\ Fits(c, path)
    /\ \A d \in ToSet(Children[Outer[c]]) : IsLocationOf(d, path) =>
         ~Name[c].star /\ Len(Name[d].text) <= Len(Name[c].text)

LEMMA FirstFound ==
    ASSUME NEW b \in Blocks, NEW path
    PROVE  LET k == FirstSuffix(b, path)
           IN  \/ k = 0 /\ \A c \in ToSet(Children[b]) : ~IsSuffixOf(c, path)
               \/ k \in DOMAIN Children[b] /\ IsSuffixOf(Children[b][k], path)
<1> DEFINE I == {k \in 1 .. Len(Children[b]) : IsSuffixOf(Children[b][k], path)}
<1>1. DOMAIN Children[b] = 1 .. Len(Children[b])
  BY RoutingAssumption
<1>2. FirstSuffix(b, path) = IF I # {} THEN Min(I) ELSE 0
  BY DEF FirstSuffix, SelectInSeq
<1>3. I = {} => \A c \in ToSet(Children[b]) : ~IsSuffixOf(c, path)
  BY <1>1 DEF ToSet
<1>4. I # {} => Min(I) \in I
  <2>1. I \in SUBSET Nat
    OBVIOUS
  <2> HIDE DEF I
  <2> QED
    BY <2>1, FirstIs
<1> QED
  BY <1>1, <1>2, <1>3, <1>4

LEMMA LocationOf ==
    ASSUME NEW b \in Blocks, NEW c \in ToSet(Children[b])
    PROVE  /\ c \in Blocks \ {Default} /\ Outer[c] = b /\ c \in DOMAIN Name
           /\ Name[c].star \in BOOLEAN /\ Name[c].text \in Seq(STRING)
<1>1. PICK i \in DOMAIN Children[b] : Children[b][i] = c
  BY DEF ToSet
<1> QED
  BY <1>1, LocationType, RoutingAssumption

\* What is entered fits best.
LEMMA EnteredBest ==
    ASSUME NEW b \in Blocks, NEW path, NEW c \in Entered(b, path)
    PROVE  c \in ToSet(Children[b]) /\ Best(c, path)
<1> DEFINE prefixes == {d \in ToSet(Children[b]) : IsLocationOf(d, path)}
           suffix == FirstSuffix(b, path)
<1>1. CASE prefixes # {}
  <2>1. c \in prefixes /\ \A d \in prefixes : LongestFirst(c, d)
    BY <1>1 DEF Entered
  <2>2. c \in ToSet(Children[b]) /\ IsLocationOf(c, path)
    BY <2>1
  <2>3. ~Name[c].star
    BY <2>2 DEF IsLocationOf
  <2>4. \A d \in ToSet(Children[b]) : IsLocationOf(d, path) =>
           Len(Name[d].text) <= Len(Name[c].text)
    <3> SUFFICES ASSUME NEW d \in ToSet(Children[b]), IsLocationOf(d, path)
                 PROVE  Len(Name[d].text) <= Len(Name[c].text)
      OBVIOUS
    <3>1. LongestFirst(c, d)
      BY <2>1
    <3>2. Name[c].text \in Seq(STRING) /\ Name[d].text \in Seq(STRING)
      BY <2>2, LocationOf
    <3>3. Len(Name[c].text) >= Len(Name[d].text)
      BY <3>1 DEF LongestFirst
    <3> QED
      BY <3>2, <3>3
  <2>5. Outer[c] = b
    BY <2>2, LocationOf
  <2> QED
    BY <2>2, <2>3, <2>4, <2>5 DEF Best, Fits
<1>2. CASE prefixes = {}
  <2>1. suffix # 0 /\ c = Children[b][suffix]
    BY <1>2 DEF Entered
  <2>2. suffix \in DOMAIN Children[b] /\ IsSuffixOf(c, path)
    BY <2>1, FirstFound
  <2>3. c \in ToSet(Children[b])
    BY <2>1, <2>2 DEF ToSet
  <2>4. Outer[c] = b
    BY <2>3, LocationOf
  <2>5. \A d \in ToSet(Children[b]) : ~IsLocationOf(d, path)
    BY <1>2
  <2> QED
    BY <2>2, <2>3, <2>4, <2>5 DEF Best, Fits
<1> QED
  BY <1>1, <1>2

\* Where nothing is entered, nothing fits.
LEMMA NoneEntered ==
    ASSUME NEW b \in Blocks, NEW path \in Seq(STRING), Ends(b, path)
    PROVE  \A d \in ToSet(Children[b]) : ~Fits(d, path)
<1> DEFINE prefixes == {d \in ToSet(Children[b]) : IsLocationOf(d, path)}
           suffix == FirstSuffix(b, path)
<1>1. \A d \in prefixes : /\ Name[d].text \in Seq(STRING) /\ Name[d].text # <<>>
                          /\ Len(Name[d].text) <= Len(path)
  BY LocationOf DEF IsLocationOf, IsPrefix
<1>2. CASE path = <<>>
  <2> SUFFICES ASSUME NEW d \in ToSet(Children[b]), Fits(d, path) PROVE FALSE
    OBVIOUS
  <2>1. Name[d].text \in Seq(STRING)
    BY LocationOf
  <2>2. CASE IsLocationOf(d, path)
    BY <1>1, <1>2, <2>1, <2>2
  <2>3. CASE IsSuffixOf(d, path)
    BY <1>2, <2>1, <2>3 DEF IsSuffixOf
  <2> QED
    BY <2>2, <2>3 DEF Fits
<1>3. CASE Entered(b, path) = {}
  <2>1. prefixes = {}
    <3> SUFFICES ASSUME prefixes # {} PROVE FALSE
      OBVIOUS
    <3> DEFINE rests == {Len(path) - Len(Name[d].text) : d \in prefixes}
    <3>1. rests \in SUBSET Nat /\ rests # {}
      BY <1>1
    <3>2. PICK x \in rests : \A y \in rests : x <= y
      <4> HIDE DEF rests
      <4> QED
        BY <3>1, LeastOf
    <3>3. PICK c \in prefixes : x = Len(path) - Len(Name[c].text)
      OBVIOUS
    <3>4. \A d \in prefixes : Len(Name[c].text) >= Len(Name[d].text)
      <4> SUFFICES ASSUME NEW d \in prefixes
                   PROVE  Len(Name[c].text) >= Len(Name[d].text)
        OBVIOUS
      <4>1. x <= Len(path) - Len(Name[d].text)
        BY <3>2
      <4>2. Len(Name[c].text) \in Nat /\ Len(Name[d].text) \in Nat /\ Len(path) \in Nat
        BY <1>1
      <4> QED
        BY <3>3, <4>1, <4>2
    <3>5. c \in Entered(b, path)
      BY <3>3, <3>4 DEF Entered, LongestFirst
    <3> QED
      BY <1>3, <3>5
  <2>2. suffix = 0
    BY <1>3, <2>1 DEF Entered
  <2>3. \A c \in ToSet(Children[b]) : ~IsSuffixOf(c, path)
    BY <2>2, FirstFound
  <2> QED
    BY <2>1, <2>3 DEF Fits
<1> QED
  BY <1>2, <1>3 DEF Ends

LEMMA IntoType ==
    ASSUME NEW b \in Blocks, NEW path, ~Ends(b, path)
    PROVE  /\ Into(b, path) \in ToSet(Children[b]) /\ Into(b, path) \in Blocks \ {Default}
           /\ Best(Into(b, path), path) /\ Outer[Into(b, path)] = b
<1>1. Into(b, path) \in Entered(b, path)
  BY DEF Ends, Into
<1> QED
  BY <1>1, EnteredBest, LocationOf

\* The blocks the search goes through from b on.
Reach(b, path) ==
    {c \in Blocks : \A S \in SUBSET Blocks :
        b \in S /\ (\A d \in S : ~Ends(d, path) => Into(d, path) \in S) => c \in S}

LEMMA ReachIs ==
    ASSUME NEW b \in Blocks, NEW path, NEW c \in Blocks
    PROVE  c \in Reach(b, path) <=>
             \A S \in SUBSET Blocks :
                 b \in S /\ (\A d \in S : ~Ends(d, path) => Into(d, path) \in S) => c \in S
BY DEF Reach

LEMMA ReachType ==
    ASSUME NEW b \in Blocks, NEW path
    PROVE  Reach(b, path) \subseteq Blocks /\ b \in Reach(b, path)
BY DEF Reach

LEMMA ReachEnd ==
    ASSUME NEW b \in Blocks, NEW path, Ends(b, path)
    PROVE  Reach(b, path) = {b}
<1>1. {b} \in SUBSET Blocks /\ \A d \in {b} : ~Ends(d, path) => Into(d, path) \in {b}
  OBVIOUS
<1>2. \A c \in Reach(b, path) : c \in {b}
  BY <1>1, ReachType, ReachIs
<1> QED
  BY <1>2, ReachType

LEMMA ReachOn ==
    ASSUME NEW b \in Blocks, NEW path, ~Ends(b, path)
    PROVE  Reach(b, path) = {b} \cup Reach(Into(b, path), path)
<1> DEFINE next == Into(b, path)
<1>1. next \in Blocks
  BY IntoType
<1> HIDE DEF next
<1>2. ASSUME NEW c \in Reach(next, path) PROVE c \in Reach(b, path)
  <2>1. c \in Blocks
    BY <1>1, <1>2, ReachType
  <2>2. ASSUME NEW S \in SUBSET Blocks, b \in S,
               \A d \in S : ~Ends(d, path) => Into(d, path) \in S
        PROVE  c \in S
    <3>1. next \in S
      BY <2>2 DEF next
    <3> QED
      BY <1>1, <1>2, <2>1, <2>2, <3>1, ReachIs
  <2> QED
    BY <2>1, <2>2, ReachIs
<1>3. ASSUME NEW c \in Reach(b, path), c # b PROVE c \in Reach(next, path)
  <2>1. c \in Blocks
    BY <1>3, ReachType
  <2>2. ASSUME NEW S \in SUBSET Blocks, next \in S,
               \A d \in S : ~Ends(d, path) => Into(d, path) \in S
        PROVE  c \in S
    <3> DEFINE T == S \cup {b}
    <3>1. T \in SUBSET Blocks /\ b \in T
      OBVIOUS
    <3>2. \A d \in T : ~Ends(d, path) => Into(d, path) \in T
      BY <2>2 DEF next
    <3>3. c \in T
      <4> HIDE DEF T
      <4> QED
        BY <1>3, <2>1, <3>1, <3>2, ReachIs
    <3> QED
      BY <1>3, <3>3
  <2> QED
    BY <1>1, <2>1, <2>2, ReachIs
<1>4. b \in Reach(b, path)
  BY ReachType
<1> QED
  BY <1>2, <1>3, <1>4 DEF next

\* The search only goes inwards.
LEMMA ReachInside ==
    ASSUME NEW b \in Blocks, NEW path, NEW c \in Reach(b, path)
    PROVE  b \in Around[c]
<1> DEFINE S == {d \in Blocks : b \in Around[d]}
<1>1. S \in SUBSET Blocks /\ b \in S
  BY AroundType
<1>2. ASSUME NEW d \in S, ~Ends(d, path) PROVE Into(d, path) \in S
  <2>1. d \in Blocks /\ b \in Around[d]
    OBVIOUS
  <2>2. Into(d, path) \in Blocks /\ Outer[Into(d, path)] = d
    BY <1>2, <2>1, IntoType
  <2>3. b \in Around[Into(d, path)]
    BY <2>1, <2>2, AroundOuter
  <2> QED
    BY <2>2, <2>3
<1>3. c \in Blocks
  BY ReachType
<1>4. c \in S
  <2> HIDE DEF S
  <2> QED
    BY <1>1, <1>2, <1>3, ReachIs
<1> QED
  BY <1>4

LEMMA ReachOnce ==
    ASSUME NEW b \in Blocks, NEW path, ~Ends(b, path)
    PROVE  b \notin Reach(Into(b, path), path)
<1> SUFFICES ASSUME b \in Reach(Into(b, path), path) PROVE FALSE
  OBVIOUS
<1>1. Into(b, path) \in Blocks \ {Default} /\ Outer[Into(b, path)] = b
  BY IntoType
<1>2. Into(b, path) \in Around[b]
  BY <1>1, ReachInside
<1> QED
  BY <1>1, <1>2, NotAroundOuter

\* The equations of the search have a solution: where it ends, and the name of the
\* innermost location it comes by that is no "*suffix".
Matched == {<<>>} \cup {Name[c].text : c \in DOMAIN Name}

SearchOn(search, path, at) ==
    LET c == Into(at[1], path)
    IN  search[<<c, IF Name[c].star THEN at[2] ELSE Name[c].text>>]

SearchAt(search, path, at) ==
    IF Ends(at[1], path) THEN [block |-> at[1], matched |-> at[2]]
    ELSE SearchOn(search, path, at)

Searches(search, path) ==
    search = [at \in Blocks \X Matched |-> SearchAt(search, path, at)]

AnyOf(S) == CHOOSE x : x \in S
EndsOf(b, path) == {e \in Reach(b, path) : Ends(e, path)}
Plain(b, path) == {c \in Reach(b, path) : c # b /\ ~Name[c].star}
LastPlain(b, path) ==
    {c \in Plain(b, path) : \A d \in Plain(b, path) : d \in Reach(c, path) => d = c}
Found(b, m, path) ==
    [block |-> AnyOf(EndsOf(b, path)),
     matched |-> IF Plain(b, path) = {} THEN m ELSE Name[AnyOf(LastPlain(b, path))].text]

LEMMA FoundEnd ==
    ASSUME NEW b \in Blocks, NEW path, Ends(b, path), NEW m
    PROVE  Found(b, m, path) = [block |-> b, matched |-> m]
<1>1. EndsOf(b, path) = {b} /\ Plain(b, path) = {}
  BY ReachEnd DEF EndsOf, Plain
<1>2. AnyOf({b}) = b
  BY DEF AnyOf
<1> QED
  BY <1>1, <1>2 DEF Found

LEMMA FoundOn ==
    ASSUME NEW b \in Blocks, NEW path, ~Ends(b, path), NEW m
    PROVE  LET c == Into(b, path)
           IN  Found(b, m, path) = Found(c, IF Name[c].star THEN m ELSE Name[c].text, path)
<1> DEFINE c == Into(b, path)
<1>1. c \in Blocks /\ c \in Reach(c, path) /\ Reach(c, path) \subseteq Blocks
  BY IntoType, ReachType
<1>2. Reach(b, path) = {b} \cup Reach(c, path) /\ b \notin Reach(c, path)
  BY ReachOn, ReachOnce
<1> HIDE DEF c
<1>3. EndsOf(b, path) = EndsOf(c, path)
  BY <1>2 DEF EndsOf
<1>4. Plain(b, path) = IF Name[c].star THEN Plain(c, path) ELSE Plain(c, path) \cup {c}
  BY <1>1, <1>2 DEF Plain
<1>5. CASE Name[c].star
  <2>1. Plain(b, path) = Plain(c, path)
    BY <1>4, <1>5
  <2>2. LastPlain(b, path) = LastPlain(c, path)
    BY <2>1 DEF LastPlain
  <2> QED
    BY <1>3, <1>5, <2>1, <2>2 DEF Found, c
<1>6. CASE ~Name[c].star
  <2>1. Plain(b, path) = Plain(c, path) \cup {c} /\ c \notin Plain(c, path)
    BY <1>4, <1>6 DEF Plain
  <2>2. CASE Plain(c, path) = {}
    <3>1. LastPlain(b, path) = {c}
      BY <2>1, <2>2 DEF LastPlain
    <3>2. AnyOf({c}) = c
      BY DEF AnyOf
    <3> QED
      BY <1>3, <1>6, <2>1, <2>2, <3>1, <3>2 DEF Found, c
  <2>3. CASE Plain(c, path) # {}
    <3>1. \A d \in Plain(c, path) : d \in Reach(c, path) /\ d # c
      BY DEF Plain
    <3>2. ASSUME NEW d \in Plain(c, path) PROVE c \notin Reach(d, path)
      <4> SUFFICES ASSUME c \in Reach(d, path) PROVE FALSE
        OBVIOUS
      <4>1. d \in Blocks /\ d \in Reach(c, path) /\ d # c
        BY <1>1, <3>1, <3>2
      <4>2. c \in Around[d] /\ d \in Around[c]
        BY <1>1, <4>1, ReachInside
      <4> QED
        BY <1>1, <4>1, <4>2, AroundOnce
    <3>3. LastPlain(b, path) = LastPlain(c, path)
      BY <2>1, <2>3, <3>1, <3>2, Zenon DEF LastPlain
    <3> QED
      BY <1>3, <1>6, <2>1, <2>3, <3>3 DEF Found, c
  <2> QED
    BY <2>2, <2>3
<1> QED
  BY <1>5, <1>6 DEF c

LEMMA SearchExists == ASSUME NEW path PROVE \E search : Searches(search, path)
<1> DEFINE F == [at \in Blocks \X Matched |-> Found(at[1], at[2], path)]
<1>1. \A b \in Blocks, m \in Matched : F[<<b, m>>] = Found(b, m, path)
  OBVIOUS
<1>2. ASSUME NEW at \in Blocks \X Matched
      PROVE  Found(at[1], at[2], path) = SearchAt(F, path, at)
  <2> DEFINE b == at[1]
             m == at[2]
             c == Into(b, path)
             n == IF Name[c].star THEN m ELSE Name[c].text
  <2>1. b \in Blocks /\ m \in Matched
    OBVIOUS
  <2>2. CASE Ends(b, path)
    BY <2>1, <2>2, FoundEnd DEF SearchAt
  <2>3. CASE ~Ends(b, path)
    <3>1. c \in Blocks /\ n \in Matched
      <4>1. c \in ToSet(Children[b])
        BY <2>1, <2>3, IntoType
      <4>2. c \in DOMAIN Name /\ c \in Blocks
        BY <2>1, <4>1, LocationOf
      <4> QED
        BY <2>1, <4>2 DEF Matched
    <3>2. Found(b, m, path) = Found(c, n, path)
      BY <2>1, <2>3, FoundOn
    <3>3. SearchAt(F, path, at) = F[<<c, n>>]
      BY <2>3 DEF SearchAt, SearchOn
    <3>4. F[<<c, n>>] = Found(c, n, path)
      <4> HIDE DEF c, n, F
      <4> QED
        BY <1>1, <3>1
    <3> QED
      BY <3>2, <3>3, <3>4
  <2> QED
    BY <2>2, <2>3
<1>3. F = [at \in Blocks \X Matched |-> SearchAt(F, path, at)]
  BY <1>2, Zenon
<1> QED
  BY <1>3 DEF Searches

LEMMA LocatedIs ==
    ASSUME NEW path, NEW s \in Blocks
    PROVE  \E search : Searches(search, path) /\ Located(s, path) = search[<<s, <<>>>>]
<1> DEFINE search == CHOOSE search : Searches(search, path)
<1>1. Located(s, path) = search[<<s, <<>>>>]
  BY DEF Located, Searches, SearchAt, SearchOn, Ends, Into, Matched
<1>2. Searches(search, path)
  BY SearchExists
<1> QED
  BY <1>1, <1>2

\* What the search finds from b on, if what was matched so far is a prefix of path.
WellFound(search, path, b) ==
    \A m \in Matched : IsPrefix(m, path) =>
        LET r == search[<<b, m>>]
        IN  /\ r.block \in Blocks /\ b \in Around[r.block]
            /\ \A d \in ToSet(Children[r.block]) : ~Fits(d, path)
            /\ IsPrefix(r.matched, path)
            /\ \A c \in Around[r.block] \ Around[b] : Best(c, path)

LEMMA WellFoundOn ==
    ASSUME NEW path \in Seq(STRING), NEW search, Searches(search, path), NEW b \in Blocks,
           ~Ends(b, path) => WellFound(search, path, Into(b, path))
    PROVE  WellFound(search, path, b)
<1> SUFFICES ASSUME NEW m \in Matched, IsPrefix(m, path)
             PROVE  LET r == search[<<b, m>>]
                    IN  /\ r.block \in Blocks /\ b \in Around[r.block]
                        /\ \A d \in ToSet(Children[r.block]) : ~Fits(d, path)
                        /\ IsPrefix(r.matched, path)
                        /\ \A c \in Around[r.block] \ Around[b] : Best(c, path)
  BY DEF WellFound
<1> DEFINE r == search[<<b, m>>]
<1>1. r = SearchAt(search, path, <<b, m>>)
  BY DEF Searches
<1>2. CASE Ends(b, path)
  <2>1. r = [block |-> b, matched |-> m]
    BY <1>1, <1>2 DEF SearchAt
  <2> HIDE DEF r
  <2>2. r.block = b /\ r.matched = m
    BY <2>1
  <2>3. b \in Around[b]
    BY AroundType
  <2>4. \A d \in ToSet(Children[b]) : ~Fits(d, path)
    BY <1>2, NoneEntered
  <2> QED
    BY <2>2, <2>3, <2>4 DEF r
<1>3. CASE ~Ends(b, path)
  <2> DEFINE c == Into(b, path)
             n == IF Name[c].star THEN m ELSE Name[c].text
  <2>1. /\ c \in ToSet(Children[b]) /\ c \in Blocks \ {Default}
        /\ Best(c, path) /\ Outer[c] = b
    BY <1>3, IntoType
  <2>2. c \in DOMAIN Name
    BY <2>1, LocationOf
  <2>3. r = search[<<c, n>>]
    BY <1>1, <1>3 DEF SearchAt, SearchOn
  <2>4. n \in Matched
    BY <2>2 DEF Matched
  <2>5. IsPrefix(n, path)
    <3>1. ~Name[c].star => IsPrefix(Name[c].text, path)
      BY <2>1 DEF Best, Fits, IsLocationOf, IsSuffixOf
    <3> QED
      BY <3>1
  <2> HIDE DEF c, n, r
  <2>6. /\ r.block \in Blocks /\ c \in Around[r.block]
        /\ \A d \in ToSet(Children[r.block]) : ~Fits(d, path)
        /\ IsPrefix(r.matched, path)
        /\ \A d \in Around[r.block] \ Around[c] : Best(d, path)
    BY <1>3, <2>3, <2>4, <2>5 DEF WellFound, c
  <2>7. b \in Around[c] /\ Around[c] = {c} \cup Around[b]
    BY <2>1, AroundType, AroundOuter
  <2>8. b \in Around[r.block]
    BY <2>6, <2>7, AroundGrows
  <2>9. \A d \in Around[r.block] \ Around[b] : Best(d, path)
    BY <2>1, <2>6, <2>7
  <2> QED
    BY <2>6, <2>8, <2>9 DEF r
<1> QED
  BY <1>2, <1>3

LEMMA AlwaysWellFound ==
    ASSUME NEW path \in Seq(STRING), NEW search, Searches(search, path),
           NEW b \in Blocks \ {Default}
    PROVE  WellFound(search, path, b)
<1> DEFINE S == {c \in Blocks \ {Default} : ~WellFound(search, path, c)}
<1> SUFFICES S = {}
  OBVIOUS
<1> SUFFICES ASSUME S # {} PROVE FALSE
  OBVIOUS
<1>1. PICK c \in S : \A d \in S : ~Contains(Children[c], d)
  <2>1. S \in SUBSET (Blocks \ {Default})
    OBVIOUS
  <2> HIDE DEF S
  <2> QED
    BY <2>1, ForestAssumption
<1>2. ASSUME ~Ends(c, path) PROVE WellFound(search, path, Into(c, path))
  <2>1. Into(c, path) \in ToSet(Children[c]) /\ Into(c, path) \in Blocks \ {Default}
    BY <1>2, IntoType
  <2>2. Contains(Children[c], Into(c, path))
    BY <2>1, RoutingAssumption DEF ToSet, Contains
  <2> QED
    BY <1>1, <2>1, <2>2
<1>3. WellFound(search, path, c)
  BY <1>2, WellFoundOn
<1> QED
  BY <1>3

\* The location found for a path in a server fits best.
LEMMA LocatedBest ==
    ASSUME NEW path \in Seq(STRING), NEW s \in Blocks \ {Default}
    PROVE  /\ Located(s, path).block \in Blocks
           /\ \A d \in ToSet(Children[Located(s, path).block]) : ~Fits(d, path)
           /\ IsPrefix(Located(s, path).matched, path)
           /\ \A c \in Around[Located(s, path).block] \ Around[s] : Best(c, path)
<1>1. PICK search : Searches(search, path) /\ Located(s, path) = search[<<s, <<>>>>]
  BY LocatedIs
<1>2. WellFound(search, path, s)
  BY <1>1, AlwaysWellFound
<1>3. <<>> \in Matched
  BY DEF Matched
<1>4. IsPrefix(<<>>, path)
  BY DEF IsPrefix
<1> QED
  BY <1>1, <1>2, <1>3, <1>4 DEF WellFound

LEMMA ServeFits == ASSUME Serve PROVE LocationFitsBest' /\ route'.block \in Blocks
<1>1. PICK q \in Requests, disk \in Disks :
         /\ AllListens(q.listen)
         /\ route'.req = q /\ route'.server = FindServer(q.host, q.listen)
         /\ route'.block = Located(FindServer(q.host, q.listen), q.path).block
         /\ route'.matched = Located(FindServer(q.host, q.listen), q.path).matched
  BY DEF Serve
<1>2. PICK k \in DOMAIN Servers : FindServer(q.host, q.listen) = Servers[k]
  BY <1>1, FoundListens
<1> DEFINE s == Servers[k]
           path == q.path
           b == Located(s, path).block
<1>3. path \in Seq(STRING)
  BY RoutingAssumption
<1>4. s \in Blocks \ {Default} /\ Outer[s] = Default
  BY ServerOuter
<1>5. Around[s] = {s, Default}
  BY <1>4, AroundOuter, AroundDefault
<1>6. /\ route'.req.path = path /\ route'.server = s /\ route'.block = b
      /\ route'.matched = Located(s, path).matched
  BY <1>1, <1>2
<1>7. /\ b \in Blocks
      /\ \A d \in ToSet(Children[b]) : ~Fits(d, path)
      /\ IsPrefix(route'.matched, path)
      /\ \A c \in Around[b] \ {s, Default} : Best(c, path)
  BY <1>3, <1>4, <1>5, <1>6, LocatedBest
<1> HIDE DEF s, path, b
<1> QED
  BY <1>6, <1>7 DEF LocationFitsBest, Best, Fits

Served == (route # NoRoute => Loaded) /\ ServerListens

LEMMA ServeListens == ASSUME Serve PROVE Served'
<1>1. PICK q \in Requests, disk \in Disks :
         /\ AllListens(q.listen)
         /\ route'.req = q /\ route'.server = FindServer(q.host, q.listen)
  BY DEF Serve
<1>2. Loaded'
  BY DEF Serve, Loaded
<1>3. PICK k \in DOMAIN Servers :
         /\ FindServer(q.host, q.listen) = Servers[k]
         /\ Contains(conf[Servers[k]].listen, q.listen)
         /\ (\E m \in DOMAIN Servers : MatchBoth(Servers[m], q.host, q.listen))
               => MatchBoth(Servers[k], q.host, q.listen)
  BY <1>1, FoundListens
<1>4. conf' = conf /\ \A m \in DOMAIN Servers : Servers[m] \in ToSet(Servers)
  BY DEF Serve, ToSet
<1>5. \A b \in ToSet(Servers) : \E m \in DOMAIN Servers : Servers[m] = b
  BY DEF ToSet
<1> QED
  BY <1>1, <1>2, <1>3, <1>4, <1>5 DEF Served, ServerListens, MatchBoth

\* A request is answered by a server block that listens where it came in, and by one
\* with the name it asks for if any listens there.
THEOREM ServersListen == RoutingSpec => []ServerListens
<1>1. RoutingInit => Served
  BY DEF RoutingInit, Served, ServerListens
<1>2. ASSUME LoadInv, Served, [RoutingNext]_routingVars PROVE Served'
  <2>1. CASE CloseServer
    <3>1. ~Loaded
      BY <2>1, RoutingAssumption DEF CloseServer, Loaded
    <3> QED
      BY <1>2, <2>1, <3>1 DEF Served, ServerListens, CloseServer
  <2>2. CASE PassMembers
    BY <1>2, <2>2 DEF Served, ServerListens, PassMembers, Loaded
  <2>3. CASE Serve
    BY <2>3, ServeListens
  <2>4. CASE UNCHANGED routingVars
    BY <1>2, <2>4 DEF Served, ServerListens, routingVars, Loaded
  <2> QED
    BY <1>2, <2>1, <2>2, <2>3, <2>4 DEF RoutingNext
<1>3. Served => ServerListens
  BY DEF Served
<1> QED
  BY <1>1, <1>2, <1>3, AlwaysLoads, PTL DEF RoutingSpec

\* The search for a location ends in the one that fits best: it and those around it
\* fit, none beside them has a longer prefix, none inside it fits, and what is cut off
\* the path for an alias is a prefix of it.
THEOREM SearchFitsBest == RoutingSpec => []LocationFitsBest
<1>1. RoutingInit => LocationFitsBest
  BY DEF RoutingInit, LocationFitsBest
<1>2. LocationFitsBest /\ [RoutingNext]_routingVars => LocationFitsBest'
  <2> SUFFICES ASSUME LocationFitsBest, [RoutingNext]_routingVars PROVE LocationFitsBest'
    OBVIOUS
  <2>1. CASE Serve
    BY <2>1, ServeFits
  <2>2. CASE UNCHANGED route
    BY <2>2 DEF LocationFitsBest
  <2> QED
    BY <2>1, <2>2 DEF RoutingNext, CloseServer, PassMembers, routingVars
<1> QED
  BY <1>1, <1>2, PTL DEF RoutingSpec

---------------------------------------------------------------------------
(* Types                                                                   *)

\* What passMembers may be called with.
MayPass ==
    ({Default} \X ToSet(Servers))
        \cup {pc \in Blocks \X Blocks : Contains(Children[pc[1]], pc[2])}

LEMMA CallsMayPass ==
    ASSUME NEW b \in Blocks
    PROVE  CallsFrom(b) \in Seq(MayPass)
<1>1. CallsFrom(b) \in Seq(Call2) /\ Len(CallsFrom(b)) = Len(Children[b])
  BY CallsFromType
<1>2. ASSUME NEW i \in 1 .. Len(CallsFrom(b)) PROVE CallsFrom(b)[i] \in MayPass
  <2>1. i \in DOMAIN Children[b]
    BY <1>1, <1>2, RoutingAssumption
  <2>2. Children[b][i] \in Blocks /\ Contains(Children[b], Children[b][i])
    BY <2>1, LocationType
  <2>3. CallsFrom(b)[i] = <<b, Children[b][i]>>
    BY <1>2, CallsFromType
  <2> QED
    BY <2>2, <2>3 DEF MayPass
<1> QED
  BY <1>1, <1>2

\* The calls of passMembers go from the default block to a server or from a block to a
\* location in it, and the blocks stay the same.
THEOREM RoutingTypeCorrect == RoutingSpec => []RoutingTypeOK
<1> DEFINE CallsOK == calls \in Seq(MayPass)
           Inv == CallsOK /\ (route = NoRoute \/ route.block \in Blocks)
<1>1. RoutingInit => Inv
  BY DEF RoutingInit
<1>2. ASSUME LoadInv, Inv, [RoutingNext]_routingVars PROVE Inv'
  <2>1. CASE CloseServer
    <3> DEFINE k == closed + 1
               s == Servers[k]
    <3>1. k \in DOMAIN Servers
      BY <1>2, <2>1, RoutingAssumption DEF CloseServer, LoadInv, Shape
    <3>2. s \in Blocks /\ s \in ToSet(Servers)
      BY <3>1, ServerOuter DEF ToSet
    <3>3. <<<<Default, s>>>> \in Seq(MayPass)
      BY <3>2 DEF MayPass
    <3>4. CallsFrom(s) \in Seq(MayPass)
      BY <3>2, CallsMayPass
    <3>5. calls' = <<<<Default, s>>>> \o CallsFrom(s) /\ route' = route
      BY <2>1 DEF CloseServer
    <3> HIDE DEF s
    <3>6. CallsOK'
      BY <3>3, <3>4, <3>5
    <3> QED
      BY <1>2, <3>5, <3>6
  <2>2. CASE PassMembers
    <3>1. calls # <<>> /\ calls \in Seq(Call2)
      BY <1>2, <2>2 DEF PassMembers, LoadInv, Shape, Call2
    <3>2. Head(calls) \in Call2
      BY <3>1
    <3> DEFINE s == Head(calls)[2]
    <3>3. s \in Blocks
      BY <3>2 DEF Call2
    <3>4. Tail(calls) \in Seq(MayPass)
      BY <1>2, <3>1
    <3>5. CallsFrom(s) \in Seq(MayPass)
      BY <3>3, CallsMayPass
    <3>6. calls' = CallsFrom(s) \o Tail(calls) /\ route' = route
      BY <2>2 DEF PassMembers
    <3> HIDE DEF s
    <3>7. CallsOK'
      BY <3>4, <3>5, <3>6
    <3> QED
      BY <1>2, <3>6, <3>7
  <2>3. CASE Serve
    <3>1. route'.block \in Blocks
      BY <2>3, ServeFits
    <3> QED
      BY <1>2, <2>3, <3>1 DEF Serve
  <2>4. CASE UNCHANGED routingVars
    BY <1>2, <2>4 DEF routingVars
  <2> QED
    BY <1>2, <2>1, <2>2, <2>3, <2>4 DEF RoutingNext
<1>3. LoadInv /\ Inv => RoutingTypeOK
  BY DEF LoadInv, Shape, RoutingTypeOK, MayPass
<1> QED
  BY <1>1, <1>2, <1>3, AlwaysLoads, PTL DEF RoutingSpec
=============================================================================
