--------------------------- MODULE SettingsProofs ---------------------------
(***************************************************************************)
(* ConfigParser: every block of an accepted file has the settings its text *)
(* gives it, for every set of files and whatever default.conf states.      *)
(*                                                                         *)
(* The text is what the log holds, a sequence of openings, closings and    *)
(* directives; the blocks of the text are read off it by counting.  The    *)
(* definitions here are those of the property, of any log lg, so that a    *)
(* log can be compared with the one an event later.  While a file is       *)
(* parsed, the frames hold what the text says of the blocks that are open  *)
(* (FramesOk), and the server blocks what it says of those that are done,  *)
(* with what they take from the blocks around them (Finished).             *)
(***************************************************************************)
EXTENDS ParserProofs

---------------------------------------------------------------------------
(* Counting openings and closings                                          *)

Opens(lg, e) == lg[e][1] \in {"server", "location"}
Closes(lg, e) == lg[e] = <<"}">>

Openings(lg, o, m) == {x \in o .. m : Opens(lg, x)}
Closings(lg, o, m) == {x \in o .. m : Closes(lg, x)}
Balance(lg, o, m) == Cardinality(Openings(lg, o, m)) - Cardinality(Closings(lg, o, m))

In(lg, e) ==
    {o \in 1 .. e - 1 :
        /\ Opens(lg, o)
        /\ \A m \in o .. e - 1 :
             Cardinality(Openings(lg, o, m)) > Cardinality(Closings(lg, o, m))}

LEMMA Counted ==
    ASSUME NEW lg, NEW o \in Int, NEW m \in Int
    PROVE  /\ IsFiniteSet(Openings(lg, o, m)) /\ IsFiniteSet(Closings(lg, o, m))
           /\ Cardinality(Openings(lg, o, m)) \in Nat
           /\ Cardinality(Closings(lg, o, m)) \in Nat
           /\ Balance(lg, o, m) \in Int
           /\ Cardinality(Openings(lg, o, m)) > Cardinality(Closings(lg, o, m))
                <=> Balance(lg, o, m) > 0
<1>1. IsFiniteSet(o .. m)
  BY FS_Interval
<1>2. Openings(lg, o, m) \in SUBSET (o .. m) /\ Closings(lg, o, m) \in SUBSET (o .. m)
  BY DEF Openings, Closings
<1>3. IsFiniteSet(Openings(lg, o, m)) /\ IsFiniteSet(Closings(lg, o, m))
  BY <1>1, <1>2, FS_Subset
<1>4. /\ Cardinality(Openings(lg, o, m)) \in Nat
      /\ Cardinality(Closings(lg, o, m)) \in Nat
  BY <1>3, FS_CardinalityType
<1> QED
  BY <1>3, <1>4 DEF Balance

\* A stretch of the log cut in two.
LEMMA CardinalitySum ==
    ASSUME NEW S, NEW T, IsFiniteSet(S), IsFiniteSet(T), S \cap T = {}
    PROVE  Cardinality(S \cup T) = Cardinality(S) + Cardinality(T)
<1>1. Cardinality(S \cup T) = Cardinality(S) + Cardinality(T) - Cardinality(S \cap T)
  BY FS_Union
<1>2. Cardinality(S) \in Nat /\ Cardinality(T) \in Nat /\ Cardinality({}) = 0
  BY FS_CardinalityType, FS_EmptySet
<1>3. Cardinality(S \cap T) = 0
  BY <1>2, Zenon
<1> QED
  BY <1>1, <1>2, <1>3

LEMMA Stretch ==
    ASSUME NEW o \in Int, NEW c \in Int, NEW m \in Int, o <= c, c <= m + 1
    PROVE  /\ o .. m = (o .. c - 1) \cup (c .. m)
           /\ (o .. c - 1) \cap (c .. m) = {}
  OBVIOUS

LEMMA BalanceSum ==
    ASSUME NEW lg, NEW o \in Int, NEW c \in Int, NEW m \in Int, o <= c, c <= m + 1
    PROVE  Balance(lg, o, m) = Balance(lg, o, c - 1) + Balance(lg, c, m)
<1>1. c - 1 \in Int
  OBVIOUS
<1>2. /\ Openings(lg, o, m) = Openings(lg, o, c - 1) \cup Openings(lg, c, m)
      /\ Openings(lg, o, c - 1) \cap Openings(lg, c, m) = {}
      /\ Closings(lg, o, m) = Closings(lg, o, c - 1) \cup Closings(lg, c, m)
      /\ Closings(lg, o, c - 1) \cap Closings(lg, c, m) = {}
  BY Stretch DEF Openings, Closings
<1>3. /\ IsFiniteSet(Openings(lg, o, c - 1)) /\ IsFiniteSet(Openings(lg, c, m))
      /\ IsFiniteSet(Closings(lg, o, c - 1)) /\ IsFiniteSet(Closings(lg, c, m))
      /\ Cardinality(Openings(lg, o, c - 1)) \in Nat
      /\ Cardinality(Openings(lg, c, m)) \in Nat
      /\ Cardinality(Closings(lg, o, c - 1)) \in Nat
      /\ Cardinality(Closings(lg, c, m)) \in Nat
  BY <1>1, Counted
<1>4. /\ Cardinality(Openings(lg, o, m)) =
            Cardinality(Openings(lg, o, c - 1)) + Cardinality(Openings(lg, c, m))
      /\ Cardinality(Closings(lg, o, m)) =
            Cardinality(Closings(lg, o, c - 1)) + Cardinality(Closings(lg, c, m))
  BY <1>2, <1>3, CardinalitySum
<1> QED
  BY <1>3, <1>4 DEF Balance

\* What one event counts.
Weight(lg, e) == IF Opens(lg, e) THEN 1 ELSE IF Closes(lg, e) THEN -1 ELSE 0

LEMMA OpensOrCloses ==
    ASSUME NEW lg, NEW e, Closes(lg, e)
    PROVE  ~Opens(lg, e)
<1>1. PICK w : w = "}" /\ lg[e] = <<w>>
  BY Zenon DEF Closes
<1>2. <<w>>[1] = w
  OBVIOUS
<1>3. lg[e][1] = "}"
  BY <1>1, <1>2, Zenon
<1> QED
  BY <1>3 DEF Opens

LEMMA BalanceOne ==
    ASSUME NEW lg, NEW e \in Int
    PROVE  Balance(lg, e, e) = Weight(lg, e)
<1>1. e .. e = {e}
  OBVIOUS
<1>2. /\ Openings(lg, e, e) = IF Opens(lg, e) THEN {e} ELSE {}
      /\ Closings(lg, e, e) = IF Closes(lg, e) THEN {e} ELSE {}
  BY <1>1 DEF Openings, Closings
<1>3. Cardinality({e}) = 1 /\ Cardinality({}) = 0
  BY FS_Singleton, FS_EmptySet
<1> QED
  BY <1>2, <1>3, OpensOrCloses DEF Balance, Weight

LEMMA BalanceNext ==
    ASSUME NEW lg, NEW o \in Int, NEW e \in Int, o <= e
    PROVE  Balance(lg, o, e) = Balance(lg, o, e - 1) + Weight(lg, e)
<1>1. e <= e + 1
  OBVIOUS
<1> QED
  BY <1>1, BalanceSum, BalanceOne

\* l2 goes on from lg.
Longer(lg, l2) ==
    /\ Len(lg) \in Nat /\ Len(l2) \in Nat /\ Len(lg) <= Len(l2)
    /\ \A k \in 1 .. Len(lg) : l2[k] = lg[k]

LEMMA BalanceSame ==
    ASSUME NEW lg, NEW l2, Longer(lg, l2), NEW o \in Nat \ {0}, NEW m \in Int, m <= Len(lg)
    PROVE  Balance(l2, o, m) = Balance(lg, o, m)
<1>1. \A x \in o .. m : l2[x] = lg[x]
  BY DEF Longer
<1>2. /\ Openings(l2, o, m) = Openings(lg, o, m)
      /\ Closings(l2, o, m) = Closings(lg, o, m)
  BY <1>1 DEF Openings, Closings, Opens, Closes
<1> QED
  BY <1>2 DEF Balance

---------------------------------------------------------------------------
(* The blocks open at an event                                             *)

LEMMA InIs ==
    ASSUME NEW lg, NEW e \in Int, NEW o
    PROVE  o \in In(lg, e) <=> /\ o \in 1 .. e - 1 /\ Opens(lg, o)
                               /\ \A m \in o .. e - 1 : Balance(lg, o, m) > 0
<1>1. ASSUME o \in 1 .. e - 1, NEW m \in o .. e - 1
      PROVE  Cardinality(Openings(lg, o, m)) > Cardinality(Closings(lg, o, m))
                <=> Balance(lg, o, m) > 0
  <2>1. o \in Int /\ m \in Int
    BY <1>1
  <2> QED
    BY <2>1, Counted
<1> QED
  BY <1>1 DEF In

LEMMA InFinite ==
    ASSUME NEW lg, NEW e \in Int
    PROVE  /\ IsFiniteSet(In(lg, e)) /\ Cardinality(In(lg, e)) \in Nat
           /\ In(lg, e) \subseteq 1 .. e - 1 /\ e \notin In(lg, e)
<1>1. In(lg, e) \in SUBSET (1 .. e - 1)
  BY DEF In
<1>2. IsFiniteSet(1 .. e - 1)
  BY FS_Interval
<1>3. IsFiniteSet(In(lg, e))
  BY <1>1, <1>2, FS_Subset
<1> QED
  BY <1>1, <1>3, FS_CardinalityType

\* A block open at an event was open at every event since it opened.
LEMMA InNarrow ==
    ASSUME NEW lg, NEW e \in Int, NEW c \in Int, c <= e, NEW a \in In(lg, e), a < c
    PROVE  a \in In(lg, c)
<1>1. /\ a \in 1 .. e - 1 /\ Opens(lg, a)
      /\ \A m \in a .. e - 1 : Balance(lg, a, m) > 0
  BY InIs
<1>2. a \in 1 .. c - 1
  BY <1>1
<1>3. a .. c - 1 \subseteq a .. e - 1
  BY <1>1
<1> QED
  BY <1>1, <1>2, <1>3, InIs

\* What is around a block that is open is open.
LEMMA InWiden ==
    ASSUME NEW lg, NEW e \in Int, NEW c \in In(lg, e), NEW a \in In(lg, c)
    PROVE  a \in In(lg, e)
<1>1. /\ c \in 1 .. e - 1 /\ \A m \in c .. e - 1 : Balance(lg, c, m) > 0
  BY InIs
<1>2. c \in Int
  BY <1>1
<1>3. /\ a \in 1 .. c - 1 /\ Opens(lg, a)
      /\ \A m \in a .. c - 1 : Balance(lg, a, m) > 0
  BY <1>2, InIs
<1>4. ASSUME NEW m \in a .. e - 1
      PROVE  Balance(lg, a, m) > 0
  <2>1. CASE m < c
    <3>1. m \in a .. c - 1
      BY <1>2, <1>3, <2>1
    <3> QED
      BY <1>3, <3>1
  <2>2. CASE m >= c
    <3>1. a \in Int /\ m \in Int /\ a <= c /\ c <= m + 1 /\ c - 1 \in Int
          /\ c - 1 \in a .. c - 1 /\ m \in c .. e - 1
      BY <1>2, <1>3, <2>2
    <3>2. Balance(lg, a, m) = Balance(lg, a, c - 1) + Balance(lg, c, m)
      BY <1>2, <3>1, BalanceSum
    <3>3. Balance(lg, a, c - 1) > 0 /\ Balance(lg, c, m) > 0
      BY <1>1, <1>3, <3>1
    <3>4. Balance(lg, a, c - 1) \in Int /\ Balance(lg, c, m) \in Int
      BY <1>2, <3>1, Counted
    <3> QED
      BY <3>2, <3>3, <3>4
  <2>3. m \in Int
    OBVIOUS
  <2> QED
    BY <1>2, <2>1, <2>2, <2>3
<1>5. a \in 1 .. e - 1
  BY <1>1, <1>3
<1> QED
  BY <1>3, <1>4, <1>5, InIs

LEMMA InSame ==
    ASSUME NEW lg, NEW l2, Longer(lg, l2), NEW e \in Int, e <= Len(lg) + 1
    PROVE  In(l2, e) = In(lg, e)
<1>0. Len(lg) \in Nat
  BY DEF Longer
<1>1. ASSUME NEW o \in 1 .. e - 1
      PROVE  /\ Opens(l2, o) <=> Opens(lg, o)
             /\ \A m \in o .. e - 1 : Balance(l2, o, m) = Balance(lg, o, m)
  <2>1. o \in 1 .. Len(lg) /\ o \in Nat \ {0}
    BY <1>0
  <2>2. Opens(l2, o) <=> Opens(lg, o)
    BY <2>1 DEF Opens, Longer
  <2>3. ASSUME NEW m \in o .. e - 1
        PROVE  Balance(l2, o, m) = Balance(lg, o, m)
    <3>1. m \in Int /\ m <= Len(lg)
      BY <1>0
    <3> QED
      BY <2>1, <3>1, BalanceSame
  <2> QED
    BY <2>2, <2>3
<1>2. ASSUME NEW o
      PROVE  o \in In(l2, e) <=> o \in In(lg, e)
  BY <1>1, InIs
<1> QED
  BY <1>2

\* One event more.
LEMMA InNext ==
    ASSUME NEW lg, NEW e \in Nat \ {0}, NEW o
    PROVE  o \in In(lg, e + 1) <=>
             \/ o \in In(lg, e) /\ Balance(lg, o, e) > 0
             \/ o = e /\ Opens(lg, e)
<1>1. o \in In(lg, e + 1) <=> /\ o \in 1 .. e /\ Opens(lg, o)
                              /\ \A m \in o .. e : Balance(lg, o, m) > 0
  <2>1. e + 1 \in Int /\ e + 1 - 1 = e
    OBVIOUS
  <2> QED
    BY <2>1, InIs
<1>2. o \in In(lg, e) <=> /\ o \in 1 .. e - 1 /\ Opens(lg, o)
                          /\ \A m \in o .. e - 1 : Balance(lg, o, m) > 0
  BY InIs
<1>3. CASE o = e
  <2>1. Balance(lg, e, e) = Weight(lg, e)
    BY BalanceOne
  <2>2. e .. e = {e} /\ e \in 1 .. e /\ e \notin 1 .. e - 1
    OBVIOUS
  <2>3. Opens(lg, e) => Balance(lg, e, e) > 0
    BY <2>1 DEF Weight
  <2> QED
    BY <1>1, <1>2, <1>3, <2>2, <2>3
<1>4. CASE o # e
  <2>1. o \in 1 .. e <=> o \in 1 .. e - 1
    BY <1>4
  <2>2. ASSUME o \in 1 .. e - 1
        PROVE  o .. e = (o .. e - 1) \cup {e}
    BY <2>2
  <2> QED
    BY <1>1, <1>2, <1>4, <2>1, <2>2
<1> QED
  BY <1>3, <1>4

---------------------------------------------------------------------------
(* The blocks around a block                                               *)

Ar(lg, o) == In(lg, o) \cup {o}
Par(lg, e) == Newest(In(lg, e))
Depth(lg, o) == Cardinality(In(lg, o))

LEMMA NewestOf ==
    ASSUME NEW n \in Int, NEW S, S \subseteq 1 .. n, S # {}
    PROVE  Newest(S) \in S /\ \A p \in S : p <= Newest(S)
<1> DEFINE Bounds == {m \in Nat : \A p \in S : p <= m}
<1>0. n \in Nat
  <2>1. PICK s : s \in S
    OBVIOUS
  <2>2. s \in 1 .. n
    BY <2>1
  <2> QED
    BY <2>2
<1>1. Bounds # {} /\ Bounds \subseteq Nat
  <2>1. n \in Bounds
    BY <1>0
  <2> QED
    BY <2>1
<1>2. PICK m \in Bounds : \A k \in Nat : k < m => k \notin Bounds
  <2> HIDE DEF Bounds
  <2> QED
    BY <1>1, LeastOf
<1>3. m \in Nat /\ \A p \in S : p <= m
  BY <1>2
<1>4. m \in S
  <2> SUFFICES ASSUME m \notin S PROVE FALSE
    OBVIOUS
  <2>1. PICK s : s \in S
    OBVIOUS
  <2>2. s \in 1 .. n /\ s <= m
    BY <1>3, <2>1
  <2>3. m - 1 \in Nat /\ m - 1 < m
    BY <1>3, <2>2
  <2>4. \A p \in S : p <= m - 1
    BY <1>3
  <2> QED
    BY <1>2, <2>3, <2>4
<1>5. \E o \in S : \A p \in S : p <= o
  BY <1>3, <1>4
<1> QED
  BY <1>5, Zenon DEF Newest

LEMMA NewestIs ==
    ASSUME NEW S, S \subseteq Int, NEW o \in S, \A p \in S : p <= o
    PROVE  Newest(S) = o
<1>1. Newest(S) \in S /\ \A p \in S : p <= Newest(S)
  BY Zenon DEF Newest
<1>2. o <= Newest(S) /\ Newest(S) <= o /\ Newest(S) \in Int
  BY <1>1
<1> QED
  BY <1>2

LEMMA DepthIs ==
    ASSUME NEW lg, NEW o \in Int
    PROVE  /\ Depth(lg, o) \in Nat /\ (Depth(lg, o) = 0 <=> In(lg, o) = {})
           /\ Ar(lg, o) \subseteq Int /\ In(lg, o) \subseteq Int
  BY InFinite, FS_EmptySet DEF Depth, Ar

\* A block deeper inside is deeper.
LEMMA DepthLess ==
    ASSUME NEW lg, NEW o \in Int, NEW l \in In(lg, o)
    PROVE  Depth(lg, l) < Depth(lg, o) /\ l < o
<1>1. /\ IsFiniteSet(In(lg, o)) /\ In(lg, o) \subseteq 1 .. o - 1
      /\ Cardinality(In(lg, o)) \in Nat
  BY InFinite
<1>2. l \in Int /\ l < o
  BY <1>1
<1>3. IsFiniteSet(In(lg, l)) /\ l \notin In(lg, l) /\ Cardinality(In(lg, l)) \in Nat
  BY <1>2, InFinite
<1>4. In(lg, l) \in SUBSET In(lg, o)
  BY InWiden
<1>5. /\ Cardinality(In(lg, l)) <= Cardinality(In(lg, o))
      /\ Cardinality(In(lg, o)) = Cardinality(In(lg, l)) => In(lg, o) = In(lg, l)
  BY <1>1, <1>4, FS_Subset
<1> QED
  BY <1>1, <1>2, <1>3, <1>5 DEF Depth

\* The blocks around a block lie inside each other.
LEMMA Nested ==
    ASSUME NEW lg, NEW o \in Int, NEW x \in Ar(lg, o), NEW y \in Ar(lg, o), x < y
    PROVE  x \in In(lg, y) /\ Depth(lg, x) < Depth(lg, y)
<1>1. In(lg, o) \subseteq 1 .. o - 1
  BY InFinite
<1>2. x \in Int /\ y \in Int /\ y <= o
  BY <1>1 DEF Ar
<1>3. x \in In(lg, o)
  BY <1>2 DEF Ar
<1>4. x \in In(lg, y)
  BY <1>2, <1>3, InNarrow
<1> QED
  BY <1>2, <1>4, DepthLess

\* As many are around it as it is deep.
LEMMA AtDepth ==
    ASSUME NEW lg, NEW o \in Nat, NEW d \in Nat, d <= Depth(lg, o)
    PROVE  \E l \in Ar(lg, o) : Depth(lg, l) = d
<1> DEFINE Has(x) == \E l \in Ar(lg, x) : Depth(lg, l) = d
           Without == {x \in Nat : d <= Depth(lg, x) /\ ~Has(x)}
<1>1. CASE Without = {}
  BY <1>1
<1>2. CASE Without # {}
  <2>1. Without \subseteq Nat
    OBVIOUS
  <2>2. PICK m \in Without : \A k \in Nat : k < m => k \notin Without
    <3> HIDE DEF Without
    <3> QED
      BY <1>2, <2>1, LeastOf
  <2>3. m \in Nat /\ d <= Depth(lg, m) /\ ~Has(m)
    BY <2>2
  <2>4. m \in Ar(lg, m) /\ Depth(lg, m) \in Nat
    BY <2>3, DepthIs DEF Ar
  <2>5. d < Depth(lg, m)
    BY <2>3, <2>4
  <2>6. In(lg, m) # {} /\ In(lg, m) \subseteq 1 .. m - 1
    BY <2>3, <2>5, InFinite, DepthIs
  <2>7. PICK p : p = Newest(In(lg, m))
    OBVIOUS
  <2>8. p \in In(lg, m) /\ \A x \in In(lg, m) : x <= p
    <3>1. m - 1 \in Int
      BY <2>3
    <3> QED
      BY <2>6, <2>7, <3>1, NewestOf
  <2>9. p \in Nat /\ p < m
    BY <2>3, <2>6, <2>8
  <2>10. In(lg, m) \subseteq In(lg, p) \cup {p}
    <3>1. ASSUME NEW x \in In(lg, m), x # p
          PROVE  x \in In(lg, p)
      <4>1. x < p /\ x \in Ar(lg, m) /\ p \in Ar(lg, m)
        BY <2>3, <2>6, <2>8, <2>9, <3>1 DEF Ar
      <4> QED
        BY <2>3, <4>1, Nested
    <3> QED
      BY <3>1
  <2>11. Depth(lg, m) <= Depth(lg, p) + 1
    <3>1. /\ IsFiniteSet(In(lg, p)) /\ p \notin In(lg, p)
          /\ Cardinality(In(lg, p)) \in Nat
      BY <2>9, InFinite
    <3>2. /\ IsFiniteSet(In(lg, p) \cup {p})
          /\ Cardinality(In(lg, p) \cup {p}) = Cardinality(In(lg, p)) + 1
      BY <3>1, FS_AddElement
    <3>3. Cardinality(In(lg, m)) <= Cardinality(In(lg, p) \cup {p})
      BY <2>10, <3>2, FS_Subset
    <3> QED
      BY <3>2, <3>3 DEF Depth
  <2>12. d <= Depth(lg, p)
    <3>1. Depth(lg, p) \in Nat
      BY <2>9, DepthIs
    <3> QED
      BY <2>4, <2>5, <2>11, <3>1
  <2>13. Has(p)
    BY <2>2, <2>9, <2>12
  <2>14. Ar(lg, p) \subseteq Ar(lg, m)
    BY <2>3, <2>8, InWiden DEF Ar
  <2> QED
    BY <2>3, <2>13, <2>14
<1> QED
  BY <1>1, <1>2

\* One step further in from p, towards o.
LEMMA Child ==
    ASSUME NEW lg, NEW o \in Nat, NEW p \in In(lg, o)
    PROVE  \E l \in Ar(lg, o) : /\ Depth(lg, l) = Depth(lg, p) + 1 /\ p \in In(lg, l)
                                /\ Par(lg, l) = p
<1>1. Depth(lg, p) < Depth(lg, o) /\ p < o /\ Depth(lg, o) \in Nat /\ p \in Int
  BY DepthLess, DepthIs
<1>2. Depth(lg, p) \in Nat
  BY <1>1, DepthIs
<1>3. PICK l \in Ar(lg, o) : Depth(lg, l) = Depth(lg, p) + 1
  <2>1. Depth(lg, p) + 1 \in Nat /\ Depth(lg, p) + 1 <= Depth(lg, o)
    BY <1>1, <1>2
  <2> QED
    BY <2>1, AtDepth
<1>4. p \in Ar(lg, o) /\ Ar(lg, o) \subseteq Int
  BY DepthIs DEF Ar
<1>5. l \in Int
  BY <1>4
<1>6. p < l
  <2>1. ~(l < p) /\ l # p
    <3>1. l < p => Depth(lg, l) < Depth(lg, p)
      BY <1>4, Nested
    <3> QED
      BY <1>2, <1>3, <3>1
  <2> QED
    BY <1>1, <1>5, <2>1
<1>7. p \in In(lg, l)
  BY <1>4, <1>6, Nested
<1>8. ASSUME NEW x \in In(lg, l)
      PROVE  x <= p
  <2> SUFFICES ASSUME p < x PROVE FALSE
    <3>1. x \in Int
      BY <1>5, DepthIs
    <3> QED
      BY <1>1, <3>1
  <2>1. x \in Ar(lg, l) /\ p \in Ar(lg, l) /\ x \in Int
    BY <1>5, <1>7, DepthIs DEF Ar
  <2>2. Depth(lg, p) < Depth(lg, x)
    BY <1>5, <2>1, Nested
  <2>3. Depth(lg, x) < Depth(lg, l) /\ Depth(lg, x) \in Nat
    BY <1>5, <2>1, DepthLess, DepthIs
  <2> QED
    BY <1>2, <1>3, <2>2, <2>3
<1>9. Par(lg, l) = p
  <2>1. In(lg, l) \subseteq Int
    BY <1>5, DepthIs
  <2> QED
    BY <1>7, <1>8, <2>1, NewestIs DEF Par
<1> QED
  BY <1>3, <1>7, <1>9

\* The block a block is in, and what is around both.
LEMMA ParentIs ==
    ASSUME NEW lg, NEW o \in Int, In(lg, o) # {}
    PROVE  /\ Par(lg, o) \in In(lg, o) /\ Par(lg, o) \in 1 .. o - 1
           /\ \A x \in In(lg, o) : x <= Par(lg, o)
           /\ In(lg, o) = Ar(lg, Par(lg, o))
           /\ Depth(lg, o) = Depth(lg, Par(lg, o)) + 1
<1> DEFINE p == Par(lg, o)
<1>1. In(lg, o) \subseteq 1 .. o - 1 /\ o - 1 \in Int
  BY InFinite
<1>2. p \in In(lg, o) /\ \A x \in In(lg, o) : x <= p
  BY <1>1, NewestOf DEF Par
<1>3. p \in 1 .. o - 1 /\ p \in Int
  BY <1>1, <1>2
<1> HIDE DEF p
<1>4. In(lg, o) = Ar(lg, p)
  <2>1. ASSUME NEW x \in In(lg, o), x # p
        PROVE  x \in In(lg, p)
    <3>1. x < p /\ x \in Ar(lg, o) /\ p \in Ar(lg, o)
      BY <1>1, <1>2, <1>3, <2>1 DEF Ar
    <3> QED
      BY <3>1, Nested
  <2>2. In(lg, p) \subseteq In(lg, o)
    BY <1>2, InWiden
  <2> QED
    BY <1>2, <2>1, <2>2 DEF Ar
<1>5. Depth(lg, o) = Depth(lg, p) + 1
  <2>1. IsFiniteSet(In(lg, p)) /\ p \notin In(lg, p)
    BY <1>3, InFinite
  <2>2. Cardinality(In(lg, p) \cup {p}) = Cardinality(In(lg, p)) + 1
    BY <2>1, FS_AddElement
  <2> QED
    BY <1>4, <2>2 DEF Depth, Ar
<1> QED
  BY <1>2, <1>3, <1>4, <1>5 DEF p

---------------------------------------------------------------------------
(* The names that lead to a block                                          *)

NamesIn(lg, o) ==
    [depth \in 1 .. Depth(lg, o) |->
        lg[Newest({l \in Ar(lg, o) : Depth(lg, l) = depth})][2]]

\* The name at a block's depth is that of the block.
LEMMA NameAt ==
    ASSUME NEW lg, NEW o \in Int, NEW l \in Ar(lg, o), Depth(lg, l) # 0
    PROVE  /\ Depth(lg, l) \in 1 .. Depth(lg, o)
           /\ NamesIn(lg, o)[Depth(lg, l)] = lg[l][2]
<1>1. Ar(lg, o) \subseteq Int /\ Depth(lg, o) \in Nat
  BY DepthIs
<1>2. Depth(lg, l) \in Nat
  BY <1>1, DepthIs
<1>3. Depth(lg, l) \in 1 .. Depth(lg, o)
  <2>1. l = o \/ Depth(lg, l) < Depth(lg, o)
    BY DepthLess DEF Ar
  <2> QED
    BY <1>1, <1>2, <2>1
<1> DEFINE S == {x \in Ar(lg, o) : Depth(lg, x) = Depth(lg, l)}
<1>4. S \subseteq Int /\ l \in S
  BY <1>1
<1>5. ASSUME NEW x \in S
      PROVE  x <= l
  <2> SUFFICES ASSUME l < x PROVE FALSE
    BY <1>4
  <2>1. x \in Ar(lg, o) /\ Depth(lg, x) = Depth(lg, l)
    BY <1>5
  <2>2. Depth(lg, l) < Depth(lg, x)
    BY <2>1, Nested
  <2> QED
    BY <1>2, <2>1, <2>2
<1>6. NamesIn(lg, o)[Depth(lg, l)] = lg[Newest(S)][2]
  BY <1>3 DEF NamesIn
<1> HIDE DEF S
<1>7. Newest(S) = l
  BY <1>4, <1>5, NewestIs
<1> QED
  BY <1>3, <1>6, <1>7

\* A log of events, with every block opened inside another one but a server's.
LogOk(lg) ==
    /\ lg \in Seq(Events)
    /\ \A e \in 1 .. Len(lg) :
         /\ In(lg, e) = {} <=> lg[e][1] = "server"
         /\ lg[e][1] = "location" => Len(lg[e]) = 2
         /\ lg[e][1] = "cgi_pass" => Len(lg[e]) = 2 /\ lg[e][2] # ""

LEMMA NamesTyped ==
    ASSUME NEW lg, LogOk(lg), NEW o \in 1 .. Len(lg), Opens(lg, o)
    PROVE  /\ NamesIn(lg, o) \in Seq(Word) /\ Len(NamesIn(lg, o)) = Depth(lg, o)
           /\ Depth(lg, o) \in Nat
<1>1. o \in Nat /\ Depth(lg, o) \in Nat
  BY DepthIs
<1>2. ASSUME NEW d \in 1 .. Depth(lg, o)
      PROVE  NamesIn(lg, o)[d] \in Word
  <2>1. PICK l \in Ar(lg, o) : Depth(lg, l) = d
    <3>1. d \in Nat /\ d <= Depth(lg, o)
      BY <1>1
    <3> QED
      BY <1>1, <3>1, AtDepth
  <2>2. NamesIn(lg, o)[d] = lg[l][2]
    <3>1. Depth(lg, l) # 0
      BY <1>1, <2>1
    <3> QED
      BY <1>1, <2>1, <3>1, NameAt
  <2>3. l \in 1 .. Len(lg) /\ Opens(lg, l)
    <3>1. In(lg, o) \subseteq 1 .. o - 1 /\ (l \in In(lg, o) => Opens(lg, l))
      BY <1>1, InFinite, InIs
    <3> QED
      BY <3>1 DEF Ar
  <2>4. In(lg, l) # {}
    <3>1. l \in Int /\ d # 0
      BY <1>1, <2>3
    <3> QED
      BY <2>1, <3>1, DepthIs
  <2>5. lg[l][1] = "location"
    BY <2>3, <2>4 DEF Opens, LogOk
  <2>6. lg[l] \in Seq(Word) /\ Len(lg[l]) = 2
    <3>1. lg[l] \in Events
      BY <2>3, ElementOfSeq DEF LogOk
    <3> QED
      BY <2>3, <2>5, <3>1 DEF LogOk, Events
  <2>7. lg[l][2] \in Word
    <3>1. 2 \in 1 .. Len(lg[l])
      BY <2>6
    <3> QED
      BY <2>6, <3>1, ElementOfSeq
  <2> QED
    BY <2>2, <2>7
<1> DEFINE f == NamesIn(lg, o)
           n == Depth(lg, o)
<1>3. f = [i \in 1 .. n |-> f[i]]
  BY DEF NamesIn
<1> HIDE DEF f, n
<1>4. f \in Seq(Word) /\ Len(f) = n
  <2>1. f \in [1 .. n -> Word]
    BY <1>2, <1>3 DEF f, n
  <2>2. n \in Nat
    BY <1>1 DEF n
  <2> QED
    BY <2>1, <2>2
<1> QED
  BY <1>1, <1>4 DEF f, n

\* The names from depth k on.
Path(lg, k, o) == SubSeq(NamesIn(lg, o), k + 1, Depth(lg, o))

LEMMA PathIs ==
    ASSUME NEW lg, LogOk(lg), NEW o \in 1 .. Len(lg), Opens(lg, o),
           NEW k \in 0 .. Depth(lg, o)
    PROVE  /\ Path(lg, k, o) \in Seq(Word)
           /\ Path(lg, k, o) = <<>> <=> k = Depth(lg, o)
           /\ k = 0 => Path(lg, k, o) = NamesIn(lg, o)
           /\ k # Depth(lg, o) =>
                /\ Path(lg, k, o) = <<NamesIn(lg, o)[k + 1]>> \o Path(lg, k + 1, o)
                /\ Path(lg, k, o)[1] = NamesIn(lg, o)[k + 1]
                /\ NamesIn(lg, o)[k + 1] \in Word /\ Path(lg, k + 1, o) \in Seq(Word)
<1> DEFINE f == NamesIn(lg, o)
           n == Depth(lg, o)
<1>1. f \in Seq(Word) /\ Len(f) = n /\ n \in Nat
  BY NamesTyped
<1>2. ASSUME NEW j \in 0 .. n
      PROVE  SubSeq(f, j + 1, n) \in Seq(Word) /\ Len(SubSeq(f, j + 1, n)) = n - j
  <2>1. j + 1 \in Int /\ n \in Int
    BY <1>1
  <2>2. \A i \in j + 1 .. n : f[i] \in Word
    BY <1>1, ElementOfSeq
  <2>3. /\ SubSeq(f, j + 1, n) \in Seq(Word)
        /\ Len(SubSeq(f, j + 1, n)) = IF j + 1 <= n THEN n - (j + 1) + 1 ELSE 0
    <3> HIDE DEF f, n
    <3> QED
      BY <2>1, <2>2, SubSeqProperties
  <2> QED
    BY <1>1, <2>3
<1> HIDE DEF f, n
<1>3. k \in 0 .. n /\ k \in Nat
  BY DEF n
<1> DEFINE q == SubSeq(f, k + 1, n)
<1>4. q \in Seq(Word) /\ Len(q) = n - k
  BY <1>2, <1>3
<1>5. q = <<>> <=> k = n
  <2>1. Len(<<>>) = 0 /\ (Len(q) = 0 => q = <<>>)
    BY <1>4, EmptySeq
  <2> HIDE DEF q
  <2> QED
    BY <1>1, <1>3, <1>4, <2>1
<1>6. k = 0 => q = f
  <2>1. SubSeq(f, 1, Len(f)) = f
    BY <1>1, SubSeqFull
  <2> QED
    BY <1>1, <2>1
<1>7. ASSUME k # n
      PROVE  /\ q = <<f[k + 1]>> \o SubSeq(f, k + 1 + 1, n)
             /\ q[1] = f[k + 1]
             /\ f[k + 1] \in Word /\ SubSeq(f, k + 1 + 1, n) \in Seq(Word)
  <2>1. k + 1 \in 1 .. Len(f) /\ n \in k + 1 .. Len(f) /\ k + 1 \in 0 .. n
    BY <1>1, <1>3, <1>7
  <2>2. q = <<f[k + 1]>> \o SubSeq(f, k + 1 + 1, n)
    BY <1>1, <2>1, SubSeqRecursiveFirst
  <2>3. f[k + 1] \in Word
    BY <1>1, <2>1, ElementOfSeq
  <2>4. SubSeq(f, k + 1 + 1, n) \in Seq(Word)
    BY <1>2, <2>1
  <2>5. q[1] = f[k + 1]
    <3> HIDE DEF q
    <3> QED
      BY <2>2, <2>3, <2>4, FrontOfOne
  <2> QED
    BY <2>2, <2>3, <2>4, <2>5
<1>8. Path(lg, k, o) = q /\ Path(lg, k + 1, o) = SubSeq(f, k + 1 + 1, n)
  BY DEF Path, f, n
<1> HIDE DEF q
<1> QED
  BY <1>4, <1>5, <1>6, <1>7, <1>8 DEF f, n

\* A location's names end in its own.
LEMMA NamesFront ==
    ASSUME NEW lg, LogOk(lg), NEW o \in 1 .. Len(lg), Opens(lg, o), In(lg, o) # {}
    PROVE  /\ NamesIn(lg, o) # <<>>
           /\ Front(NamesIn(lg, o)) = NamesIn(lg, Par(lg, o))
<1> DEFINE p == Par(lg, o)
           f == NamesIn(lg, o)
           g == NamesIn(lg, p)
<1>0. o \in Int
  OBVIOUS
<1>1. /\ p \in In(lg, o) /\ p \in 1 .. o - 1 /\ In(lg, o) = Ar(lg, p)
      /\ Depth(lg, o) = Depth(lg, p) + 1
  BY <1>0, ParentIs
<1>2. p \in 1 .. Len(lg) /\ Opens(lg, p)
  <2>1. Len(lg) \in Nat
    BY LenProperties DEF LogOk
  <2>2. Opens(lg, p)
    BY <1>0, <1>1, InIs
  <2> QED
    BY <1>1, <2>1, <2>2
<1>3. /\ f \in Seq(Word) /\ Len(f) = Depth(lg, p) + 1 /\ g \in Seq(Word)
      /\ Len(g) = Depth(lg, p) /\ Depth(lg, p) \in Nat
  BY <1>1, <1>2, NamesTyped
<1>4. ASSUME NEW d \in 1 .. Depth(lg, p)
      PROVE  f[d] = g[d]
  <2>1. p \in Nat /\ d \in Nat /\ d <= Depth(lg, p)
    BY <1>2, <1>3
  <2>2. PICK l \in Ar(lg, p) : Depth(lg, l) = d
    BY <2>1, AtDepth
  <2>3. l \in Ar(lg, o) /\ Depth(lg, l) # 0
    BY <1>1, <2>2 DEF Ar
  <2> QED
    BY <1>0, <2>1, <2>2, <2>3, NameAt
<1> HIDE DEF p, f, g
<1>5. f # <<>>
  <2>1. Len(<<>>) = 0
    BY EmptySeq
  <2> QED
    BY <1>3, <2>1
<1>6. /\ Front(f) \in Seq(Word) /\ Len(Front(f)) = Len(f) - 1
      /\ \A i \in 1 .. Len(f) - 1 : Front(f)[i] = f[i]
  BY <1>3, <1>5, FrontIs
<1>7. Len(f) - 1 = Depth(lg, p)
  BY <1>3
<1>8. Front(f) = g
  BY <1>3, <1>4, <1>6, <1>7, SeqEqual
<1> QED
  BY <1>5, <1>8 DEF f, g, p

---------------------------------------------------------------------------
(* A log that grows                                                        *)

\* Its blocks stay where they are.
LEMMA SameBlocks ==
    ASSUME NEW lg, NEW l2, Longer(lg, l2), NEW e \in Int, e <= Len(lg) + 1
    PROVE  /\ In(l2, e) = In(lg, e) /\ Ar(l2, e) = Ar(lg, e)
           /\ Par(l2, e) = Par(lg, e) /\ Depth(l2, e) = Depth(lg, e)
           /\ e \in 1 .. Len(lg) => /\ Opens(l2, e) <=> Opens(lg, e)
                                    /\ NamesIn(l2, e) = NamesIn(lg, e)
<1>1. In(l2, e) = In(lg, e)
  BY InSame
<1>2. /\ Ar(l2, e) = Ar(lg, e) /\ Par(l2, e) = Par(lg, e)
      /\ Depth(l2, e) = Depth(lg, e)
  BY <1>1 DEF Ar, Par, Depth
<1>3. ASSUME e \in 1 .. Len(lg)
      PROVE  /\ Opens(l2, e) <=> Opens(lg, e)
             /\ NamesIn(l2, e) = NamesIn(lg, e)
  <2>1. Opens(l2, e) <=> Opens(lg, e)
    BY <1>3 DEF Opens, Longer
  <2>2. \A l \in Ar(lg, e) : l \in 1 .. Len(lg)
    BY <1>3, InFinite DEF Ar
  <2>3. \A l \in Ar(lg, e) : l2[l] = lg[l] /\ Depth(l2, l) = Depth(lg, l)
    <3>1. ASSUME NEW l \in Ar(lg, e)
          PROVE  l2[l] = lg[l] /\ Depth(l2, l) = Depth(lg, l)
      <4>1. l \in 1 .. Len(lg)
        BY <2>2
      <4>2. l \in Int /\ l <= Len(lg) + 1 /\ l2[l] = lg[l]
        BY <4>1 DEF Longer
      <4>3. In(l2, l) = In(lg, l)
        BY <4>2, InSame
      <4> QED
        BY <4>2, <4>3 DEF Depth
    <3> QED
      BY <3>1
  <2>4. ASSUME NEW d \in 1 .. Depth(lg, e)
        PROVE  l2[Newest({l \in Ar(l2, e) : Depth(l2, l) = d})][2] =
               lg[Newest({l \in Ar(lg, e) : Depth(lg, l) = d})][2]
    <3>1. {l \in Ar(l2, e) : Depth(l2, l) = d} = {l \in Ar(lg, e) : Depth(lg, l) = d}
      BY <1>2, <2>3
    <3>2. e \in Nat /\ d \in Nat /\ d <= Depth(lg, e)
      <4>1. Depth(lg, e) \in Nat
        BY DepthIs
      <4> QED
        BY <1>3, <4>1
    <3>3. PICK l \in Ar(lg, e) : Depth(lg, l) = d
      BY <3>2, AtDepth
    <3> DEFINE S == {x \in Ar(lg, e) : Depth(lg, x) = d}
    <3>4. S # {} /\ S \subseteq 1 .. Len(lg)
      BY <2>2, <3>3
    <3>5. S \subseteq Ar(lg, e)
      OBVIOUS
    <3> HIDE DEF S
    <3>6. Newest(S) \in S
      <4>1. Len(lg) \in Int
        BY DEF Longer
      <4> QED
        BY <3>4, <4>1, NewestOf
    <3>7. l2[Newest(S)] = lg[Newest(S)]
      BY <2>3, <3>5, <3>6
    <3> QED
      BY <3>1, <3>7, Zenon DEF S
  <2>5. NamesIn(l2, e) = NamesIn(lg, e)
    BY <1>2, <2>4, Zenon DEF NamesIn
  <2> QED
    BY <2>1, <2>5
<1> QED
  BY <1>1, <1>2, <1>3

\* No later location took the place of o or of a block around it.
StandsIn(lg, o) ==
    \A l \in Ar(lg, o) : lg[l][1] = "location" =>
        ~\E m \in l + 1 .. Len(lg) : lg[m] = lg[l] /\ Par(lg, m) = Par(lg, l)

LEMMA StoodBefore ==
    ASSUME NEW lg, NEW l2, Longer(lg, l2), NEW o \in 1 .. Len(lg), StandsIn(l2, o)
    PROVE  StandsIn(lg, o)
<1>1. Len(lg) \in Nat /\ Len(l2) \in Nat /\ Len(lg) <= Len(l2)
  BY DEF Longer
<1>2. ASSUME NEW l \in Ar(lg, o), lg[l][1] = "location",
             NEW m \in l + 1 .. Len(lg), lg[m] = lg[l], Par(lg, m) = Par(lg, l)
      PROVE  FALSE
  <2>1. o \in Int /\ o <= Len(lg) + 1
    BY <1>1
  <2>2. Ar(l2, o) = Ar(lg, o)
    BY <2>1, SameBlocks
  <2>3. l \in 1 .. Len(lg)
    BY <1>2, <2>1, InFinite DEF Ar
  <2>4. m \in 1 .. Len(lg) /\ m \in l + 1 .. Len(l2)
    BY <1>1, <1>2, <2>3
  <2>5. l2[l] = lg[l] /\ l2[m] = lg[m]
    BY <2>3, <2>4 DEF Longer
  <2>6. /\ l \in Int /\ l <= Len(lg) + 1
        /\ m \in Int /\ m <= Len(lg) + 1
    BY <1>1, <2>3, <2>4
  <2>7. Par(l2, l) = Par(lg, l) /\ Par(l2, m) = Par(lg, m)
    BY <2>6, SameBlocks
  <2> QED
    BY <1>2, <2>2, <2>4, <2>5, <2>7 DEF StandsIn
<1> QED
  BY <1>2 DEF StandsIn

LEMMA StandsAround ==
    ASSUME NEW lg, NEW o \in Int, NEW l \in In(lg, o), StandsIn(lg, o)
    PROVE  StandsIn(lg, l)
<1>1. Ar(lg, l) \subseteq Ar(lg, o)
  BY InWiden DEF Ar
<1> QED
  BY <1>1 DEF StandsIn

\* The arguments of the last directive dir in block o itself.
Stating(lg, o, dir) == {e \in 1 .. Len(lg) : lg[e][1] = dir /\ Par(lg, e) = o}
StatedIn(lg, o, dir) ==
    IF Stating(lg, o, dir) = {} THEN <<>> ELSE Tail(lg[Newest(Stating(lg, o, dir))])

LEMMA StatedNext ==
    ASSUME NEW lg, NEW l2, Longer(lg, l2), Len(l2) = Len(lg) + 1, NEW o, NEW dir
    PROVE  LET e == Len(lg) + 1
           IN  StatedIn(l2, o, dir) =
                  IF l2[e][1] = dir /\ Par(lg, e) = o THEN Tail(l2[e])
                  ELSE StatedIn(lg, o, dir)
<1> DEFINE e == Len(lg) + 1
           S == Stating(lg, o, dir)
           T == Stating(l2, o, dir)
<1>1. Len(lg) \in Nat /\ e \in Int /\ e <= Len(lg) + 1
  BY DEF Longer
<1>2. Par(l2, e) = Par(lg, e)
  BY <1>1, SameBlocks
<1>3. ASSUME NEW x \in 1 .. Len(lg)
      PROVE  l2[x] = lg[x] /\ Par(l2, x) = Par(lg, x)
  <2>1. x \in Int /\ x <= Len(lg) + 1
    BY <1>1
  <2> QED
    BY <2>1, SameBlocks DEF Longer
<1>4. 1 .. Len(l2) = (1 .. Len(lg)) \cup {e} /\ e \notin 1 .. Len(lg)
  BY <1>1
<1>5. S \subseteq 1 .. Len(lg)
  BY DEF Stating
<1>6. T = S \cup (IF l2[e][1] = dir /\ Par(lg, e) = o THEN {e} ELSE {})
  BY <1>2, <1>3, <1>4 DEF Stating
<1> HIDE DEF S, T
<1>7. CASE l2[e][1] = dir /\ Par(lg, e) = o
  <2>1. T = S \cup {e}
    BY <1>6, <1>7
  <2>2. Newest(T) = e
    <3>1. /\ \A x \in 1 .. Len(lg) : x \in Int /\ x <= e
          /\ e \in Int /\ e <= e
      BY <1>1
    <3> HIDE DEF e
    <3>2. T \subseteq Int /\ e \in T /\ \A x \in T : x <= e
      BY <1>5, <2>1, <3>1
    <3> QED
      BY <3>2, NewestIs
  <2>3. T # {}
    BY <2>1
  <2> QED
    BY <1>7, <2>2, <2>3 DEF StatedIn, T
<1>8. CASE ~(l2[e][1] = dir /\ Par(lg, e) = o)
  <2>1. T = S
    BY <1>6, <1>8
  <2>2. S # {} => Newest(S) \in 1 .. Len(lg)
    <3>1. Len(lg) \in Int
      BY <1>1
    <3> QED
      BY <1>5, <3>1, NewestOf
  <2>3. S # {} => l2[Newest(S)] = lg[Newest(S)]
    BY <1>3, <2>2
  <2> QED
    BY <1>8, <2>1, <2>3 DEF StatedIn, S, T
<1> QED
  BY <1>7, <1>8

\* A block that has just been opened states nothing.
LEMMA StatedFirst ==
    ASSUME NEW lg, NEW e \in Int, e >= Len(lg), Len(lg) \in Nat, NEW dir,
           \A x \in 1 .. Len(lg) : In(lg, x) = {} => lg[x][1] # dir
    PROVE  StatedIn(lg, e, dir) = <<>>
<1>1. ASSUME NEW x \in Stating(lg, e, dir)
      PROVE  FALSE
  <2>1. x \in 1 .. Len(lg) /\ lg[x][1] = dir /\ Par(lg, x) = e
    BY <1>1 DEF Stating
  <2>2. x \in Int /\ In(lg, x) # {}
    BY <2>1
  <2>3. Par(lg, x) \in 1 .. x - 1
    BY <2>2, ParentIs
  <2> QED
    BY <2>1, <2>3
<1>2. Stating(lg, e, dir) = {}
  BY <1>1
<1> QED
  BY <1>2 DEF StatedIn

\* What is stated nearest to o.
Near(lg, o, dir) == {l \in Ar(lg, o) : StatedIn(lg, l, dir) # <<>>}
NearestIn(lg, o, dir) ==
    IF Near(lg, o, dir) = {} THEN <<>> ELSE StatedIn(lg, Newest(Near(lg, o, dir)), dir)

LEMMA NearestUp ==
    ASSUME NEW lg, NEW o \in Int, NEW dir
    PROVE  /\ StatedIn(lg, o, dir) # <<>> =>
                NearestIn(lg, o, dir) = StatedIn(lg, o, dir)
           /\ StatedIn(lg, o, dir) = <<>> /\ In(lg, o) = {} => NearestIn(lg, o, dir) = <<>>
           /\ StatedIn(lg, o, dir) = <<>> /\ In(lg, o) # {} =>
                NearestIn(lg, o, dir) = NearestIn(lg, Par(lg, o), dir)
<1> DEFINE S == Near(lg, o, dir)
<1>1. S \subseteq Ar(lg, o) /\ Ar(lg, o) \subseteq Int
  BY DepthIs DEF Near
<1>2. ASSUME StatedIn(lg, o, dir) # <<>>
      PROVE  NearestIn(lg, o, dir) = StatedIn(lg, o, dir)
  <2>1. o \in S
    BY <1>2 DEF Near, Ar
  <2>2. \A x \in S : x <= o
    BY <1>1, DepthLess DEF Ar
  <2>3. S \subseteq Int
    BY <1>1
  <2> HIDE DEF S
  <2>4. Newest(S) = o
    BY <2>1, <2>2, <2>3, NewestIs
  <2> QED
    BY <2>1, <2>4 DEF NearestIn, S
<1>3. ASSUME StatedIn(lg, o, dir) = <<>>, In(lg, o) = {}
      PROVE  NearestIn(lg, o, dir) = <<>>
  <2>1. S = {}
    BY <1>3 DEF Near, Ar
  <2> QED
    BY <2>1 DEF NearestIn
<1>4. ASSUME StatedIn(lg, o, dir) = <<>>, In(lg, o) # {}
      PROVE  NearestIn(lg, o, dir) = NearestIn(lg, Par(lg, o), dir)
  <2>1. In(lg, o) = Ar(lg, Par(lg, o))
    BY <1>4, ParentIs
  <2>2. S = Near(lg, Par(lg, o), dir)
    BY <1>4, <2>1 DEF Near, Ar
  <2> QED
    BY <2>2 DEF NearestIn
<1> QED
  BY <1>2, <1>3, <1>4

LEMMA NearestSame ==
    ASSUME NEW lg, NEW l2, Longer(lg, l2), NEW o \in 1 .. Len(lg), NEW dir,
           \A l \in Ar(lg, o) : StatedIn(l2, l, dir) = StatedIn(lg, l, dir)
    PROVE  NearestIn(l2, o, dir) = NearestIn(lg, o, dir)
<1>1. o \in Int /\ o <= Len(lg) + 1 /\ Len(lg) \in Nat
  BY DEF Longer
<1>2. Ar(l2, o) = Ar(lg, o)
  BY <1>1, SameBlocks
<1>3. Near(l2, o, dir) = Near(lg, o, dir)
  BY <1>2 DEF Near
<1>4. Near(lg, o, dir) # {} => Newest(Near(lg, o, dir)) \in Ar(lg, o)
  <2>1. Ar(lg, o) \subseteq 1 .. o
    BY <1>1, InFinite DEF Ar
  <2>2. Near(lg, o, dir) \subseteq 1 .. o /\ Near(lg, o, dir) \subseteq Ar(lg, o)
    BY <2>1 DEF Near
  <2> QED
    BY <1>1, <2>2, NewestOf
<1> QED
  BY <1>3, <1>4 DEF NearestIn

---------------------------------------------------------------------------
(* The blocks open at the end of a log                                     *)

Now(lg) == In(lg, Len(lg) + 1)

\* An opening counts for every block around it that is open.
Balanced(lg) ==
    \A l \in Now(lg) : Balance(lg, l, Len(lg)) = Depth(lg, Len(lg) + 1) - Depth(lg, l)

LEMMA NowIs ==
    ASSUME NEW lg, Len(lg) \in Nat
    PROVE  /\ IsFiniteSet(Now(lg)) /\ Now(lg) \subseteq 1 .. Len(lg)
           /\ Cardinality(Now(lg)) = Depth(lg, Len(lg) + 1)
           /\ Depth(lg, Len(lg) + 1) \in Nat
           /\ \A l \in Now(lg) : /\ l \in Int /\ Opens(lg, l) /\ Depth(lg, l) \in Nat
                                 /\ Depth(lg, l) < Depth(lg, Len(lg) + 1)
           /\ Now(lg) # {} => /\ Newest(Now(lg)) \in Now(lg)
                              /\ \A l \in Now(lg) : l <= Newest(Now(lg))
                              /\ Depth(lg, Len(lg) + 1) = Depth(lg, Newest(Now(lg))) + 1
<1> DEFINE e == Len(lg) + 1
<1>1. e \in Int /\ e - 1 = Len(lg)
  OBVIOUS
<1>2. Now(lg) = In(lg, e)
  BY DEF Now
<1> HIDE DEF e
<1>3. IsFiniteSet(Now(lg)) /\ Now(lg) \subseteq 1 .. Len(lg)
  BY <1>1, <1>2, InFinite
<1>4. Cardinality(Now(lg)) = Depth(lg, e) /\ Depth(lg, e) \in Nat
  BY <1>1, <1>2, DepthIs DEF Depth
<1>5. ASSUME NEW l \in Now(lg)
      PROVE  /\ l \in Int /\ Opens(lg, l) /\ Depth(lg, l) \in Nat
             /\ Depth(lg, l) < Depth(lg, e)
  <2>1. l \in Int
    BY <1>3
  <2> QED
    BY <1>1, <1>2, <2>1, InIs, DepthIs, DepthLess
<1>6. ASSUME Now(lg) # {}
      PROVE  /\ Newest(Now(lg)) \in Now(lg)
             /\ \A l \in Now(lg) : l <= Newest(Now(lg))
             /\ Depth(lg, e) = Depth(lg, Newest(Now(lg))) + 1
  BY <1>1, <1>2, <1>6, ParentIs DEF Par
<1> QED
  BY <1>3, <1>4, <1>5, <1>6 DEF e

LEMMA AppendLonger ==
    ASSUME NEW lg \in Seq(Events), NEW ev \in Events
    PROVE  LET l2 == Append(lg, ev)
           IN  /\ Longer(lg, l2) /\ l2 \in Seq(Events) /\ Len(lg) \in Nat
               /\ Len(l2) = Len(lg) + 1 /\ l2[Len(lg) + 1] = ev
<1> DEFINE l2 == Append(lg, ev)
<1>1. /\ l2 \in Seq(Events) /\ Len(l2) = Len(lg) + 1 /\ Len(lg) \in Nat
      /\ \A i \in 1 .. Len(lg) : l2[i] = lg[i]
      /\ l2[Len(lg) + 1] = ev
  BY AppendProperties, LenProperties
<1> HIDE DEF l2
<1>2. Longer(lg, l2)
  BY <1>1 DEF Longer
<1> QED
  BY <1>1, <1>2 DEF l2

LEMMA NowNext ==
    ASSUME NEW lg, NEW l2, Longer(lg, l2), Len(l2) = Len(lg) + 1, NEW o
    PROVE  LET e == Len(lg) + 1
           IN  /\ o \in Now(l2) <=>
                    \/ o \in Now(lg) /\ Balance(l2, o, e) > 0
                    \/ o = e /\ Opens(l2, e)
               /\ o \in Now(lg) =>
                    Balance(l2, o, e) = Balance(lg, o, Len(lg)) + Weight(l2, e)
               /\ Balance(l2, e, e) = Weight(l2, e)
               /\ In(l2, e) = Now(lg) /\ Depth(l2, e) = Depth(lg, e)
<1> DEFINE e == Len(lg) + 1
<1>1. Len(lg) \in Nat /\ e \in Nat \ {0} /\ e \in Int /\ e <= Len(lg) + 1 /\ e - 1 = Len(lg)
  BY DEF Longer
<1>2. Now(l2) = In(l2, e + 1) /\ Now(lg) = In(lg, e)
  BY DEF Now
<1> HIDE DEF e
<1>3. In(l2, e) = In(lg, e) /\ Depth(l2, e) = Depth(lg, e)
  BY <1>1, SameBlocks
<1>4. o \in Now(l2) <=> \/ o \in Now(lg) /\ Balance(l2, o, e) > 0
                        \/ o = e /\ Opens(l2, e)
  BY <1>1, <1>2, <1>3, InNext
<1>5. ASSUME o \in Now(lg)
      PROVE  Balance(l2, o, e) = Balance(lg, o, Len(lg)) + Weight(l2, e)
  <2>1. o \in 1 .. Len(lg)
    BY <1>1, <1>5, NowIs
  <2>2. o \in Nat \ {0} /\ o \in Int /\ o <= e /\ Len(lg) \in Int /\ Len(lg) <= Len(lg)
    BY <1>1, <2>1
  <2>3. Balance(l2, o, e) = Balance(l2, o, e - 1) + Weight(l2, e)
    BY <1>1, <2>2, BalanceNext
  <2>4. Balance(l2, o, Len(lg)) = Balance(lg, o, Len(lg))
    BY <2>2, BalanceSame
  <2> QED
    BY <1>1, <2>3, <2>4
<1>6. Balance(l2, e, e) = Weight(l2, e)
  BY <1>1, BalanceOne
<1> QED
  BY <1>2, <1>3, <1>4, <1>5, <1>6 DEF e

\* A directive opens and closes nothing.
LEMMA NowStays ==
    ASSUME NEW lg, NEW l2, Longer(lg, l2), Len(l2) = Len(lg) + 1, Balanced(lg),
           Weight(l2, Len(lg) + 1) = 0, ~Opens(l2, Len(lg) + 1)
    PROVE  Now(l2) = Now(lg) /\ Balanced(l2)
<1> DEFINE e == Len(lg) + 1
<1>1. Len(lg) \in Nat /\ Len(l2) = e
  BY DEF Longer
<1>2. ASSUME NEW o \in Now(lg)
      PROVE  /\ Balance(l2, o, e) = Balance(lg, o, Len(lg)) /\ o \in Now(l2)
             /\ Balance(lg, o, Len(lg)) = Depth(lg, e) - Depth(lg, o)
             /\ o \in Int /\ o <= Len(lg) + 1
  <2>1. Balance(l2, o, e) = Balance(lg, o, Len(lg)) + 0
    BY NowNext
  <2>2. Balance(lg, o, Len(lg)) = Depth(lg, e) - Depth(lg, o)
    BY DEF Balanced
  <2>3. /\ Depth(lg, o) \in Nat /\ Depth(lg, e) \in Nat /\ Depth(lg, o) < Depth(lg, e)
        /\ o \in Int /\ o \in 1 .. Len(lg)
    BY <1>1, NowIs
  <2>4. Balance(l2, o, e) = Balance(lg, o, Len(lg)) /\ Balance(l2, o, e) > 0
    BY <2>1, <2>2, <2>3
  <2> QED
    BY <1>1, <2>2, <2>3, <2>4, NowNext
<1>3. Now(l2) \subseteq Now(lg)
  BY NowNext
<1>4. Now(l2) = Now(lg)
  BY <1>2, <1>3
<1>5. Depth(l2, Len(l2) + 1) = Depth(lg, e)
  BY <1>4 DEF Depth, Now
<1>6. \A o \in Now(l2) : Depth(l2, o) = Depth(lg, o)
  BY <1>2, <1>4, SameBlocks
<1>7. Balanced(l2)
  BY <1>1, <1>2, <1>4, <1>5, <1>6 DEF Balanced
<1> QED
  BY <1>4, <1>7

\* An opening.
LEMMA NowOpens ==
    ASSUME NEW lg, NEW l2, Longer(lg, l2), Len(l2) = Len(lg) + 1, Balanced(lg),
           Opens(l2, Len(lg) + 1)
    PROVE  /\ Now(l2) = Now(lg) \cup {Len(lg) + 1} /\ Balanced(l2)
           /\ In(l2, Len(lg) + 1) = Now(lg)
           /\ Depth(l2, Len(lg) + 1) = Depth(lg, Len(lg) + 1)
           /\ Depth(l2, Len(l2) + 1) = Depth(lg, Len(lg) + 1) + 1
<1> DEFINE e == Len(lg) + 1
<1>1. /\ Len(lg) \in Nat /\ Len(l2) = e /\ Weight(l2, e) = 1
      /\ IsFiniteSet(Now(lg)) /\ e \notin Now(lg) /\ Depth(lg, e) \in Nat
      /\ Cardinality(Now(lg)) = Depth(lg, e)
  <2>1. Len(lg) \in Nat
    BY DEF Longer
  <2> QED
    BY <2>1, NowIs DEF Weight
<1>2. ASSUME NEW o \in Now(lg)
      PROVE  /\ Balance(l2, o, e) = Depth(lg, e) - Depth(lg, o) + 1 /\ o \in Now(l2)
             /\ o \in Int /\ o <= Len(lg) + 1 /\ Depth(lg, o) \in Nat
  <2>1. Balance(l2, o, e) = Balance(lg, o, Len(lg)) + 1
    BY <1>1, NowNext
  <2>2. Balance(lg, o, Len(lg)) = Depth(lg, e) - Depth(lg, o)
    BY DEF Balanced
  <2>3. /\ Depth(lg, o) \in Nat /\ Depth(lg, e) \in Nat /\ Depth(lg, o) < Depth(lg, e)
        /\ o \in Int /\ o \in 1 .. Len(lg)
    BY <1>1, NowIs
  <2>4. Balance(l2, o, e) = Depth(lg, e) - Depth(lg, o) + 1 /\ Balance(l2, o, e) > 0
    BY <2>1, <2>2, <2>3
  <2> QED
    BY <1>1, <2>2, <2>3, <2>4, NowNext
<1>3. /\ Now(l2) \subseteq Now(lg) \cup {e} /\ e \in Now(l2)
      /\ In(l2, e) = Now(lg) /\ Depth(l2, e) = Depth(lg, e)
      /\ Balance(l2, e, e) = 1
  BY <1>1, NowNext
<1>4. Now(l2) = Now(lg) \cup {e}
  BY <1>2, <1>3
<1>5. Depth(l2, Len(l2) + 1) = Depth(lg, e) + 1
  <2>1. Cardinality(Now(lg) \cup {e}) = Cardinality(Now(lg)) + 1
    BY <1>1, FS_AddElement
  <2> QED
    BY <1>1, <1>4, <2>1 DEF Depth, Now
<1>6. \A o \in Now(lg) : Depth(l2, o) = Depth(lg, o)
  BY <1>2, SameBlocks
<1>7. ASSUME NEW o \in Now(l2)
      PROVE  Balance(l2, o, Len(l2)) = Depth(l2, Len(l2) + 1) - Depth(l2, o)
  <2>1. CASE o = e
    BY <1>1, <1>3, <1>5, <2>1
  <2>2. CASE o # e
    <3>1. o \in Now(lg)
      BY <1>4, <2>2
    <3> HIDE DEF e
    <3> QED
      BY <1>1, <1>2, <1>5, <1>6, <3>1
  <2> QED
    BY <2>1, <2>2
<1> QED
  BY <1>3, <1>4, <1>5, <1>7 DEF Balanced

\* A closing closes the innermost block.
LEMMA NowCloses ==
    ASSUME NEW lg, NEW l2, Longer(lg, l2), Len(l2) = Len(lg) + 1, Balanced(lg),
           Closes(l2, Len(lg) + 1), Now(lg) # {}
    PROVE  /\ Now(l2) = Now(lg) \ {Newest(Now(lg))} /\ Balanced(l2)
           /\ Depth(l2, Len(l2) + 1) = Depth(lg, Len(lg) + 1) - 1
<1> DEFINE e == Len(lg) + 1
           top == Newest(Now(lg))
<1>1. /\ Len(lg) \in Nat /\ Len(l2) = e /\ Weight(l2, e) = -1 /\ ~Opens(l2, e)
      /\ IsFiniteSet(Now(lg)) /\ Depth(lg, e) \in Nat
      /\ Cardinality(Now(lg)) = Depth(lg, e)
      /\ top \in Now(lg) /\ Depth(lg, e) = Depth(lg, top) + 1
      /\ \A l \in Now(lg) : l <= top
  <2>1. Len(lg) \in Nat
    BY DEF Longer
  <2>2. ~Opens(l2, e) /\ Weight(l2, e) = -1
    BY OpensOrCloses DEF Weight
  <2> QED
    BY <2>1, <2>2, NowIs
<1>2. ASSUME NEW o \in Now(lg)
      PROVE  /\ Balance(l2, o, e) = Depth(lg, e) - Depth(lg, o) - 1
             /\ o \in Now(l2) <=> o # top
             /\ o \in Int /\ o <= Len(lg) + 1 /\ Depth(lg, o) \in Nat
  <2>1. Balance(l2, o, e) = Balance(lg, o, Len(lg)) + (-1)
    BY <1>1, NowNext
  <2>2. Balance(lg, o, Len(lg)) = Depth(lg, e) - Depth(lg, o)
    BY DEF Balanced
  <2>3. /\ Depth(lg, o) \in Nat /\ Depth(lg, e) \in Nat /\ Depth(lg, o) < Depth(lg, e)
        /\ o \in Int /\ o \in 1 .. Len(lg)
    BY <1>1, NowIs
  <2>4. Balance(l2, o, e) = Depth(lg, e) - Depth(lg, o) - 1
    BY <2>1, <2>2, <2>3
  <2>5. Balance(l2, o, e) > 0 <=> o # top
    <3>1. CASE o = top
      BY <1>1, <2>3, <2>4, <3>1
    <3>2. CASE o # top
      <4>1. o < top /\ top \in Int
        <5>1. top \in Int
          BY <1>1, NowIs
        <5> QED
          BY <1>1, <2>3, <3>2, <5>1
      <4>2. o \in Ar(lg, e) /\ top \in Ar(lg, e) /\ e \in Int
        BY <1>1 DEF Ar, Now
      <4>3. Depth(lg, o) < Depth(lg, top)
        <5> HIDE DEF e, top
        <5> QED
          BY <4>1, <4>2, Nested
      <4>4. Depth(lg, top) \in Nat
        BY <1>1, NowIs
      <4> QED
        BY <1>1, <2>3, <2>4, <3>2, <4>3, <4>4
    <3> QED
      BY <3>1, <3>2
  <2> QED
    BY <1>1, <2>3, <2>4, <2>5, NowNext
<1>3. Now(l2) \subseteq Now(lg)
  BY <1>1, NowNext
<1>4. Now(l2) = Now(lg) \ {top}
  BY <1>2, <1>3
<1>5. Depth(l2, Len(l2) + 1) = Depth(lg, e) - 1
  <2>1. Cardinality(Now(lg) \ {top}) = Cardinality(Now(lg)) - 1
    BY <1>1, FS_RemoveElement
  <2> QED
    BY <1>1, <1>4, <2>1 DEF Depth, Now
<1>6. \A o \in Now(lg) : Depth(l2, o) = Depth(lg, o)
  BY <1>2, SameBlocks
<1>7. ASSUME NEW o \in Now(l2)
      PROVE  Balance(l2, o, Len(l2)) = Depth(l2, Len(l2) + 1) - Depth(l2, o)
  <2>1. o \in Now(lg)
    BY <1>3
  <2> HIDE DEF e
  <2> QED
    BY <1>1, <1>2, <1>5, <1>6, <2>1
<1> QED
  BY <1>4, <1>5, <1>7 DEF Balanced

---------------------------------------------------------------------------
(* What a block says                                                       *)

\* The members that a location takes from the block around it, the directive
\* that sets each, to what, and what stands for nothing stated.
Taken == {"root", "methods", "cgi"}
DirOf(x) == CASE x = "root" -> "root" [] x = "methods" -> "allow_methods"
              [] x = "cgi" -> "cgi_pass"
Value(x, a) == CASE x = "root" -> a [] x = "methods" -> ToSet(a)
                 [] x = "cgi" -> IF a = <<>> THEN "" ELSE a[1]
Unset(x) == CASE x = "root" -> <<>> [] x = "methods" -> {} [] x = "cgi" -> ""

\* The block has what block o of the text states, and no more.
Says(b, lg, o) ==
    /\ \A x \in Taken : b[x] = Value(x, StatedIn(lg, o, DirOf(x)))
    /\ b.auto <=> StatedIn(lg, o, "autoindex") = <<"on">>

LEMMA UnsetIs ==
    ASSUME NEW x \in Taken
    PROVE  Value(x, <<>>) = Unset(x) /\ NewBlock[x] = Unset(x)
<1>1. ToSet(<<>>) = {}
  BY DEF ToSet
<1>2. NewBlock.root = <<>> /\ NewBlock.methods = {} /\ NewBlock.cgi = ""
  BY DEF NewBlock
<1> QED
  BY <1>1, <1>2 DEF Taken, Value, Unset

LEMMA NotEmpty ==
    ASSUME NEW s, Len(s) = 1
    PROVE  s # <<>>
<1>1. Len(<<>>) = 0
  BY EmptySeq
<1> QED
  BY <1>1

\* c has what directive dir with arguments a sets, and the rest from b.
SetBy(dir, a, b, c) ==
    /\ \A x \in Taken : c[x] = IF dir = DirOf(x) THEN Value(x, a) ELSE b[x]
    /\ c.auto <=> IF dir = "autoindex" THEN a = <<"on">> ELSE b.auto

LEMMA AddedSays ==
    ASSUME NEW dir \in Common \cup {"server_name", "listen", "alias"},
           NEW b, DOMAIN b = DOMAIN NewBlock, NEW a \in Seq(Word), CanAdd(dir, b, a)
    PROVE  SetBy(dir, a, b, Added(dir, b, a)) /\ (dir = "cgi_pass" => Len(a) = 1)
<1>1. /\ "root" \in DOMAIN b /\ "methods" \in DOMAIN b /\ "cgi" \in DOMAIN b
      /\ "auto" \in DOMAIN b
  BY DEF NewBlock
<1>2. dir \in {"root", "autoindex", "allow_methods", "error_page", "redirect", "index",
               "client_body_buffer_size", "cgi_param", "cgi_pass", "server_name",
               "listen", "alias"}
  BY DEF Common
<1>3. CASE dir = "root"
  <2>1. Added(dir, b, a) = [b EXCEPT !.root = a]
    BY <1>3 DEF Added
  <2> QED
    BY <1>1, <1>3, <2>1 DEF SetBy, Taken, DirOf, Value
<1>4. CASE dir = "allow_methods"
  <2>1. Added(dir, b, a) = [b EXCEPT !.methods = ToSet(a)]
    BY <1>4 DEF Added
  <2> QED
    BY <1>1, <1>4, <2>1 DEF SetBy, Taken, DirOf, Value
<1>5. CASE dir = "cgi_pass"
  <2>1. Added(dir, b, a) = [b EXCEPT !.cgi = a[1]] /\ Len(a) = 1
    BY <1>5 DEF Added, CanAdd
  <2>2. a # <<>>
    <3>1. Len(a) = 1
      BY <2>1
    <3> QED
      BY <3>1, NotEmpty
  <2> QED
    BY <1>1, <1>5, <2>1, <2>2 DEF SetBy, Taken, DirOf, Value
<1>6. CASE dir = "autoindex"
  <2>1. Len(a) = 1
    BY <1>6 DEF CanAdd
  <2>2. PICK g : g = (a[1] = "on")
    OBVIOUS
  <2>3. Added(dir, b, a) = [b EXCEPT !.auto = g]
    BY <1>6, <2>2 DEF Added
  <2>4. Added(dir, b, a).auto = g
    BY <1>1, <2>3
  <2>5. \A x \in Taken : Added(dir, b, a)[x] = b[x]
    <3>1. /\ Added(dir, b, a).root = b.root /\ Added(dir, b, a).methods = b.methods
          /\ Added(dir, b, a).cgi = b.cgi
      BY <1>1, <2>3
    <3> QED
      BY <3>1 DEF Taken
  <2>6. a = <<"on">> <=> a[1] = "on"
    BY <2>1
  <2> QED
    BY <1>6, <2>2, <2>4, <2>5, <2>6 DEF SetBy, Taken, DirOf
<1>7. CASE dir \notin {"root", "allow_methods", "cgi_pass", "autoindex"}
  <2>1. /\ Added(dir, b, a).root = b.root /\ Added(dir, b, a).methods = b.methods
        /\ Added(dir, b, a).cgi = b.cgi /\ Added(dir, b, a).auto = b.auto
    BY <1>2, <1>7 DEF Added
  <2> QED
    BY <1>7, <2>1 DEF SetBy, Taken, DirOf
<1> QED
  BY <1>3, <1>4, <1>5, <1>6, <1>7

---------------------------------------------------------------------------
(* The blocks being parsed                                                 *)

\* The directives the property is about.
Watched == {"root", "allow_methods", "cgi_pass", "autoindex"}

\* l is the innermost of the blocks around o that are open.
Under(lg, l, o) ==
    /\ l \in Now(lg) /\ l \in Ar(lg, o)
    /\ \A x \in Ar(lg, o) \cap Now(lg) : x <= l

\* The frame of l has in its block what was parsed inside l.
Kept(lg, l, b) ==
    \A o \in 1 .. Len(lg) :
        Opens(lg, o) /\ Under(lg, l, o) /\ StandsIn(lg, o) =>
            LET q == Path(lg, Depth(lg, l), o)
            IN  q \in DOMAIN b /\ Says(b[q], lg, o)

LEMMA SaysSame ==
    ASSUME NEW lg, NEW l2, NEW o, NEW b, Says(b, lg, o),
           \A dir \in Watched : StatedIn(l2, o, dir) = StatedIn(lg, o, dir)
    PROVE  Says(b, l2, o)
<1>1. \A x \in Taken : DirOf(x) \in Watched
  BY DEF Taken, DirOf, Watched
<1>2. "autoindex" \in Watched
  BY DEF Watched
<1> QED
  BY <1>1, <1>2 DEF Says

\* Blocks opened earlier are where they were as long as none is closed.
LEMMA KeptOld ==
    ASSUME NEW lg, LogOk(lg), NEW l2, Longer(lg, l2), Now(l2) \cap (1 .. Len(lg)) = Now(lg),
           NEW l \in Now(lg), NEW b, Kept(lg, l, b),
           NEW o \in 1 .. Len(lg), Opens(l2, o), Under(l2, l, o), StandsIn(l2, o)
    PROVE  /\ Opens(lg, o) /\ Under(lg, l, o) /\ StandsIn(lg, o)
           /\ Depth(l2, l) = Depth(lg, l)
           /\ Path(l2, Depth(l2, l), o) = Path(lg, Depth(lg, l), o)
           /\ Path(lg, Depth(lg, l), o) \in DOMAIN b
           /\ Says(b[Path(lg, Depth(lg, l), o)], lg, o)
<1>1. Len(lg) \in Nat
  BY DEF Longer
<1>2. l \in 1 .. Len(lg)
  BY <1>1, NowIs
<1>3. /\ o \in Int /\ o <= Len(lg) + 1 /\ l \in Int /\ l <= Len(lg) + 1
  BY <1>1, <1>2
<1>4. /\ Ar(l2, o) = Ar(lg, o) /\ Depth(l2, o) = Depth(lg, o)
      /\ Opens(lg, o) /\ NamesIn(l2, o) = NamesIn(lg, o)
  BY <1>3, SameBlocks
<1>5. Depth(l2, l) = Depth(lg, l)
  BY <1>3, SameBlocks
<1>6. Ar(lg, o) \subseteq 1 .. Len(lg)
  BY <1>1, InFinite DEF Ar
<1>7. Under(lg, l, o)
  BY <1>4, <1>6 DEF Under
<1>8. StandsIn(lg, o)
  BY StoodBefore
<1>9. Path(l2, Depth(l2, l), o) = Path(lg, Depth(lg, l), o)
  BY <1>4, <1>5 DEF Path
<1> QED
  BY <1>4, <1>5, <1>7, <1>8, <1>9 DEF Kept

\* o itself is at no names of its own frame; anything inside it has some.
LEMMA PathEnds ==
    ASSUME NEW lg, LogOk(lg), NEW o \in 1 .. Len(lg), Opens(lg, o), NEW l \in Ar(lg, o)
    PROVE  /\ Depth(lg, l) \in 0 .. Depth(lg, o)
           /\ Path(lg, Depth(lg, l), o) = <<>> <=> l = o
           /\ l # o => l \in In(lg, o) /\ l < o
<1>1. o \in Int /\ Ar(lg, o) \subseteq Int /\ Depth(lg, o) \in Nat
  BY DepthIs
<1>2. Depth(lg, l) \in Nat
  BY <1>1, DepthIs
<1>3. l # o => l \in In(lg, o) /\ l < o /\ Depth(lg, l) < Depth(lg, o)
  BY <1>1, DepthLess DEF Ar
<1>4. Depth(lg, l) \in 0 .. Depth(lg, o) /\ (Depth(lg, l) = Depth(lg, o) <=> l = o)
  BY <1>1, <1>2, <1>3
<1>5. Path(lg, Depth(lg, l), o) = <<>> <=> Depth(lg, l) = Depth(lg, o)
  BY <1>4, PathIs
<1> QED
  BY <1>3, <1>4, <1>5

\* A directive is called: the innermost block says so, the others what they did.
LEMMA KeptDirective ==
    ASSUME NEW lg, LogOk(lg), Balanced(lg), Now(lg) # {},
           NEW dir \in Common \cup {"server_name", "listen", "alias"},
           NEW a \in Seq(Word), NEW l2, Longer(lg, l2), Len(l2) = Len(lg) + 1,
           l2[Len(lg) + 1][1] = dir, Tail(l2[Len(lg) + 1]) = a, Now(l2) = Now(lg),
           NEW l \in Now(lg), NEW b, BlockOk(b), Kept(lg, l, b)
    PROVE  /\ l # Newest(Now(lg)) => Kept(l2, l, b)
           /\ l = Newest(Now(lg)) /\ CanAdd(dir, b[<<>>], a) =>
                Kept(l2, l, [b EXCEPT ![<<>>] = Added(dir, @, a)])
<1> DEFINE e == Len(lg) + 1
           top == Newest(Now(lg))
           c == [b EXCEPT ![<<>>] = Added(dir, @, a)]
<1>1. Len(lg) \in Nat /\ Par(lg, e) = top
  BY DEF Longer, Par, Now
<1>2. Now(lg) \subseteq 1 .. Len(lg) /\ \A x \in Now(lg) : x <= top
  BY <1>1, NowIs
<1>3. dir \notin {"server", "location"}
  BY DEF Common
<1>4. ~Opens(l2, e)
  BY <1>3 DEF Opens
<1>5. ASSUME NEW o \in 1 .. Len(l2), Opens(l2, o), Under(l2, l, o), StandsIn(l2, o)
      PROVE  /\ o \in 1 .. Len(lg) /\ l \in Ar(lg, o)
             /\ Path(l2, Depth(l2, l), o) \in DOMAIN b
             /\ Says(b[Path(l2, Depth(l2, l), o)], lg, o)
             /\ Path(l2, Depth(l2, l), o) = <<>> <=> l = o
             /\ \A d : StatedIn(l2, o, d) = IF dir = d /\ top = o THEN a
                                            ELSE StatedIn(lg, o, d)
             /\ top = o => l = o
  <2>1. o \in 1 .. Len(lg)
    <3>1. o # e
      BY <1>4, <1>5
    <3> QED
      BY <1>1, <3>1
  <2>2. Now(l2) \cap (1 .. Len(lg)) = Now(lg)
    BY <1>2
  <2> HIDE DEF e, top, c
  <2>3. /\ Opens(lg, o) /\ Under(lg, l, o)
        /\ Path(l2, Depth(l2, l), o) = Path(lg, Depth(lg, l), o)
        /\ Path(lg, Depth(lg, l), o) \in DOMAIN b
        /\ Says(b[Path(lg, Depth(lg, l), o)], lg, o)
    BY <1>5, <2>1, <2>2, KeptOld
  <2>4. l \in Ar(lg, o) /\ \A x \in Ar(lg, o) \cap Now(lg) : x <= l
    BY <2>3 DEF Under
  <2>5. /\ Path(lg, Depth(lg, l), o) = <<>> <=> l = o
        /\ l # o => l < o
    BY <2>1, <2>3, <2>4, PathEnds
  <2>6. top = o => l = o
    <3>1. ASSUME top = o, l # o
          PROVE  FALSE
      <4>1. top \in Now(lg)
        BY <1>1, NowIs DEF top
      <4>2. o <= l /\ l < o
        BY <2>4, <2>5, <3>1, <4>1 DEF Ar
      <4>3. l \in Int /\ o \in Int
        BY <1>2
      <4> QED
        BY <4>2, <4>3
    <3> QED
      BY <3>1
  <2>7. ASSUME NEW d
        PROVE  StatedIn(l2, o, d) = IF dir = d /\ top = o THEN a ELSE StatedIn(lg, o, d)
    <3>1. StatedIn(l2, o, d) =
             IF l2[Len(lg) + 1][1] = d /\ Par(lg, Len(lg) + 1) = o THEN Tail(l2[Len(lg) + 1])
             ELSE StatedIn(lg, o, d)
      BY StatedNext
    <3>2. Par(lg, Len(lg) + 1) = top
      BY <1>1 DEF e
    <3> QED
      BY <3>1, <3>2
  <2> QED
    BY <2>1, <2>3, <2>4, <2>5, <2>6, <2>7
<1>6. ASSUME l # top
      PROVE  Kept(l2, l, b)
  <2> SUFFICES ASSUME NEW o \in 1 .. Len(l2), Opens(l2, o), Under(l2, l, o), StandsIn(l2, o)
               PROVE  /\ Path(l2, Depth(l2, l), o) \in DOMAIN b
                      /\ Says(b[Path(l2, Depth(l2, l), o)], l2, o)
    BY DEF Kept
  <2> HIDE DEF e, top, c
  <2>1. /\ Path(l2, Depth(l2, l), o) \in DOMAIN b
        /\ Says(b[Path(l2, Depth(l2, l), o)], lg, o)
        /\ \A d : StatedIn(l2, o, d) = StatedIn(lg, o, d)
    BY <1>5, <1>6
  <2> QED
    BY <2>1, SaysSame
<1>7. ASSUME l = top, CanAdd(dir, b[<<>>], a)
      PROVE  Kept(l2, l, c)
  <2> SUFFICES ASSUME NEW o \in 1 .. Len(l2), Opens(l2, o), Under(l2, l, o), StandsIn(l2, o)
               PROVE  /\ Path(l2, Depth(l2, l), o) \in DOMAIN c
                      /\ Says(c[Path(l2, Depth(l2, l), o)], l2, o)
    BY DEF Kept
  <2> DEFINE q == Path(l2, Depth(l2, l), o)
  <2>1. /\ q \in DOMAIN b /\ Says(b[q], lg, o)
        /\ q = <<>> <=> top = o
        /\ \A d : StatedIn(l2, o, d) = IF dir = d /\ top = o THEN a
                                       ELSE StatedIn(lg, o, d)
    BY <1>5, <1>7
  <2>2. /\ DOMAIN c = DOMAIN b
        /\ c[q] = IF q = <<>> THEN Added(dir, b[<<>>], a) ELSE b[q]
    BY <2>1
  <2> HIDE DEF c, q, e, top
  <2>3. ASSUME q = <<>>
        PROVE  q \in DOMAIN c /\ Says(c[q], l2, o)
    <3>0. PICK own : own = b[<<>>]
      OBVIOUS
    <3>1. Says(own, lg, o) /\ top = o
      BY <2>1, <2>3, <3>0
    <3>2. DOMAIN own = DOMAIN NewBlock /\ CanAdd(dir, own, a)
      BY <1>7, <3>0 DEF BlockOk
    <3>3. SetBy(dir, a, own, Added(dir, own, a))
      BY <3>2, AddedSays
    <3>4. \A x \in Taken : Added(dir, own, a)[x] =
                  Value(x, StatedIn(l2, o, DirOf(x)))
      BY <2>1, <3>1, <3>3 DEF Says, SetBy
    <3>5. Added(dir, own, a).auto <=> StatedIn(l2, o, "autoindex") = <<"on">>
      BY <2>1, <3>1, <3>3 DEF Says, SetBy
    <3>6. Says(Added(dir, own, a), l2, o)
      BY <3>4, <3>5, Zenon DEF Says
    <3> QED
      BY <2>1, <2>2, <2>3, <3>0, <3>6
  <2>4. ASSUME q # <<>>
        PROVE  q \in DOMAIN c /\ Says(c[q], l2, o)
    <3>1. \A d : StatedIn(l2, o, d) = StatedIn(lg, o, d)
      BY <2>1, <2>4
    <3>2. Says(b[q], l2, o)
      BY <2>1, <3>1, SaysSame
    <3> QED
      BY <2>1, <2>2, <2>4, <3>2
  <2>5. q \in DOMAIN c /\ Says(c[q], l2, o)
    BY <2>3, <2>4
  <2> QED
    BY <2>5 DEF q
<1> QED
  BY <1>6, <1>7

\* An event that is none of the directives states nothing.
LEMMA NothingStated ==
    ASSUME NEW lg, NEW l2, Longer(lg, l2), Len(l2) = Len(lg) + 1,
           l2[Len(lg) + 1][1] \notin Watched, NEW o, NEW dir \in Watched
    PROVE  StatedIn(l2, o, dir) = StatedIn(lg, o, dir)
<1>1. StatedIn(l2, o, dir) =
         IF l2[Len(lg) + 1][1] = dir /\ Par(lg, Len(lg) + 1) = o THEN Tail(l2[Len(lg) + 1])
         ELSE StatedIn(lg, o, dir)
  BY StatedNext
<1> QED
  BY <1>1

\* A block is opened: nothing is parsed in it yet, and the others keep what they had.
LEMMA KeptOpening ==
    ASSUME NEW lg, LogOk(lg), NEW l2, LogOk(l2), Longer(lg, l2), Len(l2) = Len(lg) + 1,
           Opens(l2, Len(lg) + 1), Now(l2) = Now(lg) \cup {Len(lg) + 1}
    PROVE  /\ \A l \in Now(lg) : \A b : Kept(lg, l, b) => Kept(l2, l, b)
           /\ Kept(l2, Len(lg) + 1, [names \in {<<>>} |-> NewBlock])
<1> DEFINE e == Len(lg) + 1
<1>1. /\ Len(lg) \in Nat /\ e \in Int /\ e \in 1 .. Len(l2) /\ e \notin 1 .. Len(lg)
      /\ 1 .. Len(l2) = (1 .. Len(lg)) \cup {e} /\ Now(lg) \subseteq 1 .. Len(lg)
      /\ \A x \in 1 .. Len(lg) : x < e
      /\ e <= Len(l2) /\ Len(l2) = e
  <2>1. Len(lg) \in Nat
    BY DEF Longer
  <2> QED
    BY <2>1, NowIs
<1>2. \A dir \in Watched : \A o : StatedIn(l2, o, dir) = StatedIn(lg, o, dir)
  <2>1. l2[Len(lg) + 1][1] \notin Watched
    BY DEF Opens, Watched
  <2> QED
    BY <2>1, NothingStated
<1>3. ASSUME NEW l \in Now(lg), NEW b, Kept(lg, l, b)
      PROVE  Kept(l2, l, b)
  <2> SUFFICES ASSUME NEW o \in 1 .. Len(l2), Opens(l2, o), Under(l2, l, o), StandsIn(l2, o)
               PROVE  /\ Path(l2, Depth(l2, l), o) \in DOMAIN b
                      /\ Says(b[Path(l2, Depth(l2, l), o)], l2, o)
    BY DEF Kept
  <2>1. o \in 1 .. Len(lg)
    <3>1. ASSUME o = e
          PROVE  FALSE
      <4>1. e <= l
        BY <3>1 DEF Under, Ar
      <4>2. l < e /\ l \in Int
        BY <1>1
      <4> QED
        BY <1>1, <4>1, <4>2
    <3> QED
      BY <1>1, <3>1
  <2>2. Now(l2) \cap (1 .. Len(lg)) = Now(lg)
    BY <1>1
  <2> HIDE DEF e
  <2>3. /\ Path(l2, Depth(l2, l), o) = Path(lg, Depth(lg, l), o)
        /\ Path(lg, Depth(lg, l), o) \in DOMAIN b
        /\ Says(b[Path(lg, Depth(lg, l), o)], lg, o)
    BY <1>3, <2>1, <2>2, KeptOld
  <2>4. Says(b[Path(lg, Depth(lg, l), o)], l2, o)
    BY <1>2, <2>3, SaysSame
  <2> QED
    BY <2>3, <2>4
<1>4. Kept(l2, e, [names \in {<<>>} |-> NewBlock])
  <2> DEFINE b == [names \in {<<>>} |-> NewBlock]
  <2> SUFFICES ASSUME NEW o \in 1 .. Len(l2), Opens(l2, o), Under(l2, e, o), StandsIn(l2, o)
               PROVE  /\ Path(l2, Depth(l2, e), o) \in DOMAIN b
                      /\ Says(b[Path(l2, Depth(l2, e), o)], l2, o)
    BY DEF Kept
  <2>1. e \in Ar(l2, o)
    BY DEF Under
  <2> HIDE DEF e, b
  <2>2. e = o /\ Path(l2, Depth(l2, e), o) = <<>>
    <3>1. /\ Path(l2, Depth(l2, e), o) = <<>> <=> e = o
          /\ e # o => e < o
      BY <2>1, PathEnds
    <3>2. o \in Int /\ o <= e
      BY <1>1
    <3> QED
      BY <1>1, <3>1, <3>2
  <2>3. ASSUME NEW dir \in Watched
        PROVE  StatedIn(l2, e, dir) = <<>>
    <3>1. \A x \in 1 .. Len(l2) : In(l2, x) = {} => l2[x][1] # dir
      <4>1. dir # "server"
        BY DEF Watched
      <4> QED
        BY <4>1 DEF LogOk
    <3>2. e \in Int /\ e >= Len(l2) /\ Len(l2) \in Nat
      BY <1>1
    <3> QED
      BY <3>1, <3>2, StatedFirst
  <2>4. Says(NewBlock, l2, e)
    <3>1. \A x \in Taken : DirOf(x) \in Watched
      BY DEF Taken, DirOf, Watched
    <3>2. \A x \in Taken : NewBlock[x] = Value(x, StatedIn(l2, e, DirOf(x)))
      BY <2>3, <3>1, UnsetIs
    <3>3. StatedIn(l2, e, "autoindex") = <<>> /\ <<>> # <<"on">>
      <4>1. "autoindex" \in Watched
        BY DEF Watched
      <4>2. Len(<<"on">>) = 1
        OBVIOUS
      <4> QED
        BY <2>3, <4>1, <4>2, NotEmpty
    <3>4. ~NewBlock.auto
      BY DEF NewBlock
    <3> QED
      BY <3>2, <3>3, <3>4 DEF Says
  <2>5. <<>> \in DOMAIN b /\ b[<<>>] = NewBlock
    BY DEF b
  <2> QED
    BY <2>2, <2>4, <2>5
<1> QED
  BY <1>3, <1>4

\* A location is closed: what was parsed in it is under its name in the block
\* around it, what is deeper there under other names stays, and what had the
\* same name stands no longer.
LEMMA KeptClosing ==
    ASSUME NEW lg, LogOk(lg), Balanced(lg), NEW l2, LogOk(l2), Longer(lg, l2),
           Len(l2) = Len(lg) + 1, Closes(l2, Len(lg) + 1),
           Now(lg) # {}, NEW top, top = Newest(Now(lg)), Now(l2) = Now(lg) \ {top},
           Now(l2) # {}, NEW p, p = Newest(Now(l2))
    PROVE  /\ p = Par(lg, top) /\ p \in Now(lg) /\ p \in In(lg, top)
           /\ \A l \in Now(l2) : \A b : l # p /\ Kept(lg, l, b) => Kept(l2, l, b)
           /\ \A f, b : /\ FrameOk(f) /\ BlockOk(b) /\ f.inner = lg[top][2]
                        /\ Kept(lg, p, f.block) /\ Kept(lg, top, b)
                        => Kept(l2, p, Storing(f, b).block)
<1> DEFINE e == Len(lg) + 1
<1>1. /\ Len(lg) \in Nat /\ Len(l2) \in Nat
      /\ Now(lg) \subseteq 1 .. Len(lg) /\ top \in Now(lg) /\ \A x \in Now(lg) : x <= top
      /\ Now(l2) \subseteq Now(lg) /\ p \in Now(l2) /\ \A x \in Now(l2) : x <= p
      /\ 1 .. Len(l2) = (1 .. Len(lg)) \cup {e}
  <2>1. Len(lg) \in Nat /\ Len(l2) \in Nat
    BY DEF Longer
  <2>2. Now(lg) \subseteq 1 .. Len(lg) /\ top \in Now(lg) /\ \A x \in Now(lg) : x <= top
    BY <2>1, NowIs
  <2>3. p \in Now(l2) /\ \A x \in Now(l2) : x <= p
    BY <2>1, NowIs
  <2>4. 1 .. Len(l2) = (1 .. Len(lg)) \cup {e}
    BY <2>1
  <2>5. Now(l2) \subseteq Now(lg)
    OBVIOUS
  <2> HIDE DEF e
  <2> QED
    BY <2>1, <2>2, <2>3, <2>4, <2>5, Zenon
<1>2. p \in Now(lg) /\ p # top /\ p < top /\ p \in Int /\ top \in Int /\ e \in Int
      /\ p \in 1 .. Len(lg) /\ top \in 1 .. Len(lg)
  <2>1. p \in Now(lg) /\ p # top
    BY <1>1
  <2>2. p <= top /\ p \in 1 .. Len(lg) /\ top \in 1 .. Len(lg)
    BY <1>1, <2>1
  <2> QED
    BY <1>1, <2>1, <2>2
<1>3. p \in In(lg, top)
  <2>1. p \in Ar(lg, e) /\ top \in Ar(lg, e)
    BY <1>1, <1>2 DEF Ar, Now
  <2> HIDE DEF e
  <2> QED
    BY <1>2, <2>1, Nested
<1>4. In(lg, top) \subseteq Now(lg)
  <2>1. e \in Int /\ Now(lg) = In(lg, e)
    BY <1>2 DEF Now
  <2> HIDE DEF e
  <2> QED
    BY <1>1, <2>1, InWiden
<1>5. p = Par(lg, top)
  <2>1. In(lg, top) \subseteq 1 .. top - 1
    BY <1>2, InFinite
  <2>2. In(lg, top) \subseteq Now(l2)
    <3>1. top \notin In(lg, top)
      BY <1>2, InFinite
    <3> QED
      BY <1>4, <3>1
  <2>3. \A x \in In(lg, top) : x <= p
    BY <1>1, <2>2
  <2>4. In(lg, top) \subseteq Int
    BY <2>1
  <2> QED
    BY <1>3, <2>3, <2>4, NewestIs DEF Par
<1>6. \A dir \in Watched : \A o : StatedIn(l2, o, dir) = StatedIn(lg, o, dir)
  <2>1. l2[Len(lg) + 1][1] \notin Watched
    <3>1. PICK w : w = "}" /\ l2[Len(lg) + 1] = <<w>>
      BY Zenon DEF Closes
    <3>2. <<w>>[1] = w
      OBVIOUS
    <3>3. l2[Len(lg) + 1][1] = "}"
      BY <3>1, <3>2, Zenon
    <3> QED
      BY <3>3 DEF Watched
  <2> QED
    BY <2>1, NothingStated
<1>7. ASSUME NEW o \in 1 .. Len(l2), Opens(l2, o), NEW l, Under(l2, l, o), StandsIn(l2, o)
      PROVE  /\ o \in 1 .. Len(lg) /\ Opens(lg, o) /\ StandsIn(lg, o)
             /\ Ar(l2, o) = Ar(lg, o) /\ Depth(l2, l) = Depth(lg, l)
             /\ Path(l2, Depth(l2, l), o) = Path(lg, Depth(lg, l), o)
             /\ l \in Now(l2) /\ l \in Ar(lg, o)
             /\ top \in Ar(lg, o) => l = p /\ Under(lg, top, o)
             /\ top \notin Ar(lg, o) => Under(lg, l, o)
  <2>1. o # e
    <3>1. ~Opens(l2, e)
      BY OpensOrCloses
    <3> QED
      BY <1>7, <3>1
  <2>2. o \in 1 .. Len(lg)
    BY <1>1, <2>1
  <2>3. l \in Now(l2) /\ l \in 1 .. Len(lg) /\ l \in Ar(l2, o)
    BY <1>1, <1>7 DEF Under
  <2>4. o \in Int /\ o <= Len(lg) + 1 /\ l \in Int /\ l <= Len(lg) + 1
    BY <1>1, <2>2, <2>3
  <2>5. /\ Ar(l2, o) = Ar(lg, o) /\ Depth(l2, o) = Depth(lg, o) /\ Opens(lg, o)
        /\ NamesIn(l2, o) = NamesIn(lg, o) /\ Depth(l2, l) = Depth(lg, l)
    BY <1>7, <2>2, <2>4, SameBlocks
  <2>6. StandsIn(lg, o)
    BY <1>7, <2>2, StoodBefore
  <2>7. Path(l2, Depth(l2, l), o) = Path(lg, Depth(lg, l), o)
    BY <2>5 DEF Path
  <2>8. \A x \in Ar(lg, o) \cap Now(l2) : x <= l
    BY <1>7, <2>5 DEF Under
  <2>9. ASSUME top \in Ar(lg, o)
        PROVE  l = p /\ Under(lg, top, o)
    <3>1. p \in Ar(lg, o)
      <4>1. top # o => top \in In(lg, o)
        BY <2>9 DEF Ar
      <4> QED
        BY <1>3, <2>4, <4>1, InWiden DEF Ar
    <3>2. p <= l /\ l <= p
      BY <1>1, <2>3, <2>8, <3>1
    <3>3. l = p
      BY <1>2, <2>4, <3>2
    <3> QED
      BY <1>1, <2>9, <3>3 DEF Under
  <2>10. ASSUME top \notin Ar(lg, o)
         PROVE  Under(lg, l, o)
    BY <1>1, <2>3, <2>5, <2>8, <2>10 DEF Under
  <2> QED
    BY <2>2, <2>3, <2>5, <2>6, <2>7, <2>9, <2>10
<1> HIDE DEF e
<1>8. ASSUME NEW l \in Now(l2), NEW b, l # p, Kept(lg, l, b)
      PROVE  Kept(l2, l, b)
  <2> SUFFICES ASSUME NEW o \in 1 .. Len(l2), Opens(l2, o), Under(l2, l, o), StandsIn(l2, o)
               PROVE  /\ Path(l2, Depth(l2, l), o) \in DOMAIN b
                      /\ Says(b[Path(l2, Depth(l2, l), o)], l2, o)
    BY DEF Kept
  <2>1. /\ o \in 1 .. Len(lg) /\ Opens(lg, o) /\ StandsIn(lg, o)
        /\ Path(l2, Depth(l2, l), o) = Path(lg, Depth(lg, l), o)
        /\ Under(lg, l, o)
    BY <1>7, <1>8
  <2>2. /\ Path(lg, Depth(lg, l), o) \in DOMAIN b
        /\ Says(b[Path(lg, Depth(lg, l), o)], lg, o)
    BY <1>8, <2>1 DEF Kept
  <2>3. Says(b[Path(lg, Depth(lg, l), o)], l2, o)
    BY <1>6, <2>2, SaysSame
  <2> QED
    BY <2>1, <2>2, <2>3
<1>9. ASSUME NEW f, NEW b, FrameOk(f), BlockOk(b), f.inner = lg[top][2],
             Kept(lg, p, f.block), Kept(lg, top, b)
      PROVE  Kept(l2, p, Storing(f, b).block)
  <2> DEFINE others == {names \in DOMAIN f.block : names = <<>> \/ names[1] # f.inner}
             moved == {<<f.inner>> \o q : q \in DOMAIN b}
             c == [names \in others \cup moved |->
                      IF names \in others THEN f.block[names] ELSE b[Tail(names)]]
  <2>1. Storing(f, b).block = c
    <3>1. PICK B : f \in Frames(B)
      BY <1>9 DEF FrameOk
    <3>2. Storing(f, b) = [f EXCEPT !.block = c]
      BY DEF Storing
    <3> HIDE DEF c
    <3> QED
      BY <3>1, <3>2 DEF Frames
  <2>2. SUFFICES ASSUME NEW o \in 1 .. Len(l2), Opens(l2, o), Under(l2, p, o),
                        StandsIn(l2, o)
                 PROVE  /\ Path(l2, Depth(l2, p), o) \in DOMAIN c
                        /\ Says(c[Path(l2, Depth(l2, p), o)], l2, o)
    BY <2>1 DEF Kept
  <2> DEFINE k == Depth(lg, p)
             q == Path(lg, k, o)
  <2>3. /\ o \in 1 .. Len(lg) /\ Opens(lg, o) /\ StandsIn(lg, o) /\ p \in Ar(lg, o)
        /\ Path(l2, Depth(l2, p), o) = q
        /\ top \in Ar(lg, o) => Under(lg, top, o)
        /\ top \notin Ar(lg, o) => Under(lg, p, o)
    BY <1>7, <2>2
  <2> HIDE DEF c
  <2>4. SUFFICES q \in DOMAIN c /\ Says(c[q], lg, o)
    BY <1>6, <2>3, SaysSame
  <2>5. k \in Nat /\ Depth(lg, top) = k + 1 /\ o \in Int /\ Depth(lg, o) \in Nat
    <3>1. In(lg, top) # {}
      BY <1>3
    <3>2. Depth(lg, top) = Depth(lg, Par(lg, top)) + 1
      BY <1>2, <3>1, ParentIs
    <3> QED
      BY <1>2, <1>5, <2>3, <3>2, DepthIs
  <2>6. /\ k \in 0 .. Depth(lg, o) /\ (q = <<>> <=> p = o)
        /\ p # o => p \in In(lg, o)
    BY <2>3, PathEnds
  <2>7. CASE top \in Ar(lg, o)
    <3> DEFINE r == Path(lg, k + 1, o)
    <3>1. r \in DOMAIN b /\ Says(b[r], lg, o)
      <4>1. Under(lg, top, o)
        BY <2>3, <2>7
      <4> QED
        BY <1>9, <2>3, <2>5, <4>1 DEF Kept
    <3>2. k + 1 \in 1 .. Depth(lg, o) /\ NamesIn(lg, o)[k + 1] = f.inner
      <4>1. Depth(lg, top) # 0
        BY <2>5
      <4>2. /\ Depth(lg, top) \in 1 .. Depth(lg, o)
            /\ NamesIn(lg, o)[Depth(lg, top)] = lg[top][2]
        BY <2>5, <2>7, <4>1, NameAt
      <4> QED
        BY <1>9, <2>5, <4>2
    <3>3. k # Depth(lg, o)
      BY <2>5, <3>2
    <3>4. q = <<f.inner>> \o r /\ q[1] = f.inner /\ f.inner \in Word /\ r \in Seq(Word)
      <4>1. /\ q = <<NamesIn(lg, o)[k + 1]>> \o r /\ q[1] = NamesIn(lg, o)[k + 1]
            /\ NamesIn(lg, o)[k + 1] \in Word /\ r \in Seq(Word)
        <5>1. k \in 0 .. Depth(lg, o)
          BY <2>6
        <5> HIDE DEF k
        <5> QED
          BY <2>3, <3>3, <5>1, PathIs
      <4> HIDE DEF q, r, k
      <4> QED
        BY <3>2, <4>1, Zenon
    <3>5. Tail(q) = r /\ q # <<>>
      <4> HIDE DEF q, r
      <4> QED
        BY <3>4, FrontOfOne
    <3>6. q \in moved /\ q \notin others
      BY <3>1, <3>4, <3>5
    <3>7. q \in DOMAIN c /\ c[q] = b[r]
      <4> HIDE DEF q, r, others, moved
      <4> QED
        BY <3>5, <3>6 DEF c
    <3> QED
      BY <3>1, <3>7
  <2>8. CASE top \notin Ar(lg, o)
    <3>1. q \in DOMAIN f.block /\ Says(f.block[q], lg, o)
      BY <1>9, <2>3, <2>8 DEF Kept
    <3>2. ASSUME q # <<>>
          PROVE  q[1] # f.inner
      <4>1. p \in In(lg, o) /\ o \in Nat
        BY <2>3, <2>6, <3>2
      <4>2. PICK l \in Ar(lg, o) : Depth(lg, l) = k + 1 /\ p \in In(lg, l) /\ Par(lg, l) = p
        BY <4>1, Child
      <4>3. q[1] = lg[l][2]
        <5>1. Depth(lg, l) # 0
          BY <2>5, <4>2
        <5>2. k + 1 \in 1 .. Depth(lg, o) /\ NamesIn(lg, o)[k + 1] = lg[l][2]
          BY <2>5, <4>2, <5>1, NameAt
        <5>3. k # Depth(lg, o)
          BY <2>5, <5>2
        <5>4. k \in 0 .. Depth(lg, o)
          BY <2>6
        <5>5. Path(lg, k, o)[1] = NamesIn(lg, o)[k + 1]
          <6>1. o \in 1 .. Len(lg) /\ Opens(lg, o)
            BY <2>3
          <6> HIDE DEF k
          <6> QED
            BY <5>3, <5>4, <6>1, PathIs
        <5> QED
          BY <5>2, <5>5
      <4>4. l \in 1 .. Len(lg) /\ l <= o /\ Opens(lg, l) /\ Opens(lg, top)
        <5>1. In(lg, o) \subseteq 1 .. o - 1 /\ (l \in In(lg, o) => Opens(lg, l))
          BY <2>5, InFinite, InIs
        <5>2. Opens(lg, top)
          BY <1>1, NowIs
        <5> QED
          BY <2>3, <5>1, <5>2 DEF Ar
      <4>5. /\ lg[l][1] = "location" /\ Len(lg[l]) = 2 /\ lg[l] \in Seq(Word)
            /\ lg[top][1] = "location" /\ Len(lg[top]) = 2 /\ lg[top] \in Seq(Word)
        <5>1. In(lg, l) # {} /\ In(lg, top) # {}
          BY <1>3, <4>2
        <5>2. lg[l] \in Events /\ lg[top] \in Events
          BY <1>2, <4>4, ElementOfSeq DEF LogOk
        <5> QED
          BY <1>2, <4>4, <5>1, <5>2 DEF LogOk, Opens, Events
      <4>6. l < top
        <5>1. ASSUME top < l
              PROVE  FALSE
          <6>1. top \in In(lg, e) /\ e \in Int /\ l <= e /\ l \in Int
            BY <1>1, <1>2, <4>4 DEF Now, e
          <6>2. top \in In(lg, l)
            BY <5>1, <6>1, InNarrow
          <6>3. top <= p
            BY <4>2, <6>1, <6>2, ParentIs
          <6> QED
            BY <1>2, <6>3
        <5>2. l # top
          BY <2>8
        <5> QED
          BY <1>2, <4>4, <5>1, <5>2
      <4>7. ASSUME q[1] = f.inner
            PROVE  FALSE
        <5>1. lg[l][2] = lg[top][2]
          BY <1>9, <4>3, <4>7
        <5>2. lg[top] = lg[l]
          <6>1. \A i \in 1 .. 2 : lg[top][i] = lg[l][i]
            BY <4>5, <5>1
          <6> QED
            BY <4>5, <6>1, SeqEqual
        <5>3. top \in l + 1 .. Len(lg)
          BY <1>2, <4>4, <4>6
        <5> QED
          BY <1>5, <2>3, <4>2, <4>5, <5>2, <5>3 DEF StandsIn
      <4> QED
        BY <4>7
    <3>3. q \in others
      BY <3>1, <3>2
    <3>4. q \in DOMAIN c /\ c[q] = f.block[q]
      <4> HIDE DEF q, others, moved
      <4> QED
        BY <3>3 DEF c
    <3> QED
      BY <3>1, <3>4
  <2> QED
    BY <2>7, <2>8
<1> QED
  BY <1>2, <1>3, <1>5, <1>8, <1>9

---------------------------------------------------------------------------
(* Filling the locations of a server block                                 *)

\* g is what Inwards looks for, on the names in D.
IsFilled(own, b, D, g) ==
    g = [names \in D |-> IF names = <<>> THEN own ELSE R!PassedOn(g[Front(names)], b[names])]

LEMMA IsFilledIf ==
    ASSUME NEW own, NEW b, NEW D, NEW g, g = [names \in D |-> g[names]],
           \A names \in D : g[names] = IF names = <<>> THEN own
                                       ELSE R!PassedOn(g[Front(names)], b[names])
    PROVE  IsFilled(own, b, D, g)
  BY Zenon DEF IsFilled

\* The names of at most n locations.
Short(b, n) == {names \in DOMAIN b : Len(names) <= n}

LEMMA FrontShort ==
    ASSUME NEW b, BlockOk(b), NEW names \in DOMAIN b, names # <<>>
    PROVE  /\ Front(names) \in DOMAIN b /\ Len(Front(names)) = Len(names) - 1
           /\ Len(names) \in Nat \ {0} /\ Len(Front(names)) \in Nat
<1>1. names \in Seq(Word) /\ Front(names) \in DOMAIN b
  BY DEF BlockOk
<1>2. Len(Front(names)) = Len(names) - 1 /\ Len(names) \in Nat \ {0}
  BY <1>1, FrontIs, EmptySeq
<1> QED
  BY <1>1, <1>2

LEMMA EmptyShort ==
    ASSUME NEW b, BlockOk(b), NEW names \in DOMAIN b
    PROVE  Len(names) \in Nat /\ (Len(names) = 0 <=> names = <<>>)
<1>1. names \in Seq(Word)
  BY DEF BlockOk
<1> QED
  BY <1>1, EmptySeq

LEMMA ShortFilled ==
    ASSUME NEW own, NEW b, BlockOk(b), NEW n \in Nat
    PROVE  \E g : IsFilled(own, b, Short(b, n), g)
<1> DEFINE None == {m \in Nat : ~\E g : IsFilled(own, b, Short(b, m), g)}
<1>1. CASE None = {}
  BY <1>1
<1>2. CASE None # {}
  <2>1. None \subseteq Nat
    OBVIOUS
  <2>2. PICK m \in None : \A k \in Nat : k < m => k \notin None
    <3> HIDE DEF None
    <3> QED
      BY <1>2, <2>1, LeastOf
  <2>3. m \in Nat /\ ~\E g : IsFilled(own, b, Short(b, m), g)
    BY <2>2
  <2>4. m # 0
    <3> SUFFICES ASSUME m = 0 PROVE FALSE
      OBVIOUS
    <3> DEFINE g == [names \in Short(b, 0) |-> own]
    <3>1. ASSUME NEW names \in Short(b, 0)
          PROVE  names = <<>>
      BY EmptyShort DEF Short
    <3>2. g = [names \in Short(b, 0) |-> g[names]]
      OBVIOUS
    <3>3. ASSUME NEW names \in Short(b, 0)
          PROVE  g[names] = IF names = <<>> THEN own
                            ELSE R!PassedOn(g[Front(names)], b[names])
      <4>1. g[names] = own /\ names = <<>>
        BY <3>1
      <4> HIDE DEF g
      <4> QED
        BY <4>1
    <3> HIDE DEF g
    <3>4. IsFilled(own, b, Short(b, 0), g)
      BY <3>2, <3>3, IsFilledIf
    <3> QED
      BY <2>3, <3>4
  <2>5. m - 1 \in Nat /\ m - 1 < m
    BY <2>3, <2>4
  <2>6. PICK g : IsFilled(own, b, Short(b, m - 1), g)
    BY <2>2, <2>5
  <2> DEFINE h == [names \in Short(b, m) |->
                      IF names = <<>> THEN own ELSE R!PassedOn(g[Front(names)], b[names])]
  <2>7. ASSUME NEW names \in Short(b, m), names # <<>>
        PROVE  /\ Front(names) \in Short(b, m) /\ Front(names) \in Short(b, m - 1)
               /\ h[Front(names)] = g[Front(names)]
    <3>1. /\ Front(names) \in DOMAIN b /\ Len(Front(names)) = Len(names) - 1
          /\ Len(names) \in Nat /\ Len(names) <= m
      BY <2>7, FrontShort DEF Short
    <3>2. Front(names) \in Short(b, m) /\ Front(names) \in Short(b, m - 1)
      BY <2>3, <3>1 DEF Short
    <3>3. g[Front(names)] = IF Front(names) = <<>> THEN own
                            ELSE R!PassedOn(g[Front(Front(names))], b[Front(names)])
      BY <2>6, <3>2, Zenon DEF IsFilled
    <3>4. h[Front(names)] = IF Front(names) = <<>> THEN own
                            ELSE R!PassedOn(g[Front(Front(names))], b[Front(names)])
      BY <3>2, Zenon
    <3> QED
      BY <3>2, <3>3, <3>4, Zenon
  <2>8. h = [names \in Short(b, m) |-> h[names]]
    OBVIOUS
  <2>9. ASSUME NEW names \in Short(b, m)
        PROVE  h[names] = IF names = <<>> THEN own
                          ELSE R!PassedOn(h[Front(names)], b[names])
    <3>1. h[names] = IF names = <<>> THEN own ELSE R!PassedOn(g[Front(names)], b[names])
      BY Zenon
    <3>2. names # <<>> => h[Front(names)] = g[Front(names)]
      BY <2>7
    <3> HIDE DEF h
    <3> QED
      BY <3>1, <3>2, Zenon
  <2> HIDE DEF h
  <2>10. IsFilled(own, b, Short(b, m), h)
    BY <2>8, <2>9, IsFilledIf
  <2> QED
    BY <2>3, <2>10
<1> QED
  BY <1>1, <1>2

\* Two of them agree where both are defined.
LEMMA FilledAgree ==
    ASSUME NEW own, NEW b, BlockOk(b), NEW m \in Nat, NEW n \in Nat, NEW g, NEW h,
           IsFilled(own, b, Short(b, m), g), IsFilled(own, b, Short(b, n), h),
           NEW p \in Short(b, m), p \in Short(b, n)
    PROVE  g[p] = h[p]
<1> DEFINE Differs(q) == /\ q \in Short(b, m) /\ q \in Short(b, n)
                         /\ g[q] # h[q]
           Lens == {k \in Nat : \E q \in DOMAIN b : Len(q) = k /\ Differs(q)}
<1>1. CASE Lens = {}
  <2>1. p \in DOMAIN b /\ Len(p) \in Nat
    BY EmptyShort DEF Short
  <2> QED
    BY <1>1, <2>1
<1>2. CASE Lens # {}
  <2>1. Lens \subseteq Nat
    OBVIOUS
  <2>2. PICK k \in Lens : \A j \in Nat : j < k => j \notin Lens
    <3> HIDE DEF Lens
    <3> QED
      BY <1>2, <2>1, LeastOf
  <2>3. PICK q \in DOMAIN b : Len(q) = k /\ Differs(q)
    BY <2>2
  <2>0. q \in Short(b, m) /\ q \in Short(b, n) /\ g[q] # h[q]
    BY <2>3
  <2>4. /\ g[q] = IF q = <<>> THEN own ELSE R!PassedOn(g[Front(q)], b[q])
        /\ h[q] = IF q = <<>> THEN own ELSE R!PassedOn(h[Front(q)], b[q])
    <3>1. g[q] = IF q = <<>> THEN own ELSE R!PassedOn(g[Front(q)], b[q])
      BY <2>0, Zenon DEF IsFilled
    <3>2. h[q] = IF q = <<>> THEN own ELSE R!PassedOn(h[Front(q)], b[q])
      BY <2>0, Zenon DEF IsFilled
    <3> QED
      BY <3>1, <3>2
  <2>5. q # <<>>
    BY <2>3, <2>4
  <2>6. /\ Front(q) \in DOMAIN b /\ Len(Front(q)) = k - 1 /\ k \in Nat \ {0}
        /\ k - 1 \in Nat /\ k - 1 < k
    BY <2>3, <2>5, FrontShort
  <2>7. Front(q) \in Short(b, m) /\ Front(q) \in Short(b, n)
    BY <2>3, <2>6 DEF Short
  <2>8. ~Differs(Front(q))
    BY <2>2, <2>6
  <2>9. g[Front(q)] = h[Front(q)]
    BY <2>7, <2>8
  <2> QED
    BY <2>3, <2>4, <2>5, <2>9
<1> QED
  BY <1>1, <1>2

LEMMA InwardsIs ==
    ASSUME NEW own, NEW b, BlockOk(b)
    PROVE  IsFilled(own, b, DOMAIN b, Inwards(own, b))
<1> DEFINE G(n) == CHOOSE g : IsFilled(own, b, Short(b, n), g)
           f == [names \in DOMAIN b |-> G(Len(names))[names]]
<1>1. ASSUME NEW n \in Nat
      PROVE  IsFilled(own, b, Short(b, n), G(n))
  BY ShortFilled, Zenon
<1> HIDE DEF G
<1>2. ASSUME NEW names \in DOMAIN b
      PROVE  f[names] = IF names = <<>> THEN own ELSE R!PassedOn(f[Front(names)], b[names])
  <2>1. PICK n : n = Len(names)
    OBVIOUS
  <2>2. n \in Nat /\ names \in Short(b, n)
    BY <2>1, EmptyShort DEF Short
  <2>3. IsFilled(own, b, Short(b, n), G(n))
    BY <1>1, <2>2
  <2>4. f[names] = G(n)[names]
    BY <2>1
  <2>5. G(n)[names] = IF names = <<>> THEN own
                      ELSE R!PassedOn(G(n)[Front(names)], b[names])
    BY <2>2, <2>3, Zenon DEF IsFilled
  <2>6. ASSUME names # <<>>
        PROVE  f[Front(names)] = G(n)[Front(names)]
    <3>1. /\ Front(names) \in DOMAIN b /\ Len(Front(names)) = n - 1
          /\ n \in Nat \ {0} /\ n - 1 \in Nat
      BY <2>1, <2>6, FrontShort
    <3>2. PICK j : j = n - 1
      OBVIOUS
    <3>3. j \in Nat /\ Front(names) \in Short(b, j) /\ Front(names) \in Short(b, n)
      BY <3>1, <3>2 DEF Short
    <3>4. IsFilled(own, b, Short(b, j), G(j))
      BY <1>1, <3>3
    <3>5. f[Front(names)] = G(j)[Front(names)]
      BY <3>1, <3>2
    <3>6. G(j)[Front(names)] = G(n)[Front(names)]
      BY <2>2, <2>3, <3>3, <3>4, FilledAgree
    <3> QED
      BY <3>5, <3>6
  <2> HIDE DEF f
  <2> QED
    BY <2>4, <2>5, <2>6, Zenon
<1>3. f = [names \in DOMAIN b |-> f[names]]
  OBVIOUS
<1> HIDE DEF f
<1>4. IsFilled(own, b, DOMAIN b, f)
  BY <1>2, <1>3, IsFilledIf
<1>5. Inwards(own, b) = CHOOSE g : IsFilled(own, b, DOMAIN b, g)
  BY Zenon DEF Inwards, IsFilled
<1> QED
  BY <1>4, <1>5, Zenon

LEMMA PassedOnIs ==
    ASSUME NEW p, NEW s, DOMAIN s = DOMAIN NewBlock
    PROVE  /\ DOMAIN R!PassedOn(p, s) = DOMAIN NewBlock
           /\ \A x \in Taken : R!PassedOn(p, s)[x] = IF s[x] = Unset(x) THEN p[x] ELSE s[x]
           /\ R!PassedOn(p, s).auto = s.auto
<1>1. /\ "root" \in DOMAIN s /\ "methods" \in DOMAIN s /\ "cgi" \in DOMAIN s
      /\ "auto" \in DOMAIN s
  BY DEF NewBlock
<1>2. DOMAIN R!PassedOn(p, s) = DOMAIN s
  BY DEF R!PassedOn
<1>3. /\ R!PassedOn(p, s).root = IF s.root = <<>> THEN p.root ELSE s.root
      /\ R!PassedOn(p, s).methods = IF s.methods = {} THEN p.methods ELSE s.methods
      /\ R!PassedOn(p, s).cgi = IF s.cgi = "" THEN p.cgi ELSE s.cgi
      /\ R!PassedOn(p, s).auto = s.auto
  BY <1>1 DEF R!PassedOn, R!OrElse
<1> QED
  BY <1>2, <1>3 DEF Taken, Unset

\* A member that is not set is that of the block around.
Outwards(d, b, t) ==
    /\ DOMAIN t = DOMAIN b
    /\ \A names \in DOMAIN b, x \in Taken :
         t[names][x] = IF b[names][x] # Unset(x) THEN b[names][x]
                       ELSE IF names = <<>> THEN d[x] ELSE t[Front(names)][x]
    /\ \A names \in DOMAIN b : t[names].auto = b[names].auto

LEMMA InwardsSays ==
    ASSUME NEW own, NEW b, BlockOk(b), DOMAIN own = DOMAIN NewBlock
    PROVE  LET t == Inwards(own, b)
           IN  /\ DOMAIN t = DOMAIN b /\ BlockOk(t) /\ t[<<>>] = own
               /\ \A names \in DOMAIN b : names # <<>> =>
                    /\ Front(names) \in DOMAIN b
                    /\ \A x \in Taken : t[names][x] = IF b[names][x] = Unset(x)
                                                      THEN t[Front(names)][x]
                                                      ELSE b[names][x]
                    /\ t[names].auto = b[names].auto
<1> DEFINE t == Inwards(own, b)
<1>1. IsFilled(own, b, DOMAIN b, t)
  BY InwardsIs
<1> HIDE DEF t
<1>2. DOMAIN t = DOMAIN b
  <2>1. t = [names \in DOMAIN b |-> IF names = <<>> THEN own
                                    ELSE R!PassedOn(t[Front(names)], b[names])]
    BY <1>1, Zenon DEF IsFilled
  <2> QED
    BY <2>1, Zenon
<1>3. <<>> \in DOMAIN b /\ DOMAIN b \subseteq Seq(Word)
  BY DEF BlockOk
<1>4. t[<<>>] = own
  BY <1>1, <1>3, Zenon DEF IsFilled
<1>5. ASSUME NEW names \in DOMAIN b, names # <<>>
      PROVE  /\ Front(names) \in DOMAIN b /\ DOMAIN t[names] = DOMAIN NewBlock
             /\ \A x \in Taken : t[names][x] = IF b[names][x] = Unset(x)
                                               THEN t[Front(names)][x]
                                               ELSE b[names][x]
             /\ t[names].auto = b[names].auto
  <2>1. t[names] = R!PassedOn(t[Front(names)], b[names])
    BY <1>1, <1>5, Zenon DEF IsFilled
  <2>2. PICK p : p = t[Front(names)]
    OBVIOUS
  <2>3. PICK s : s = b[names]
    OBVIOUS
  <2>4. DOMAIN s = DOMAIN NewBlock /\ Front(names) \in DOMAIN b
    BY <1>5, <2>3 DEF BlockOk
  <2>5. /\ DOMAIN R!PassedOn(p, s) = DOMAIN NewBlock
        /\ \A x \in Taken : R!PassedOn(p, s)[x] = IF s[x] = Unset(x) THEN p[x] ELSE s[x]
        /\ R!PassedOn(p, s).auto = s.auto
    BY <2>4, PassedOnIs
  <2>6. t[names] = R!PassedOn(p, s)
    BY <2>1, <2>2, <2>3, Zenon
  <2> QED
    BY <2>2, <2>3, <2>4, <2>5, <2>6
<1>6. BlockOk(t)
  BY <1>2, <1>3, <1>4, <1>5 DEF BlockOk
<1> QED
  BY <1>2, <1>4, <1>5, <1>6 DEF t

\* Filling the locations once more changes none of these members.
LEMMA InwardsAgain ==
    ASSUME NEW own, NEW s, BlockOk(s), own = s[<<>>],
           \A names \in DOMAIN s, x \in Taken :
               names # <<>> /\ s[names][x] = Unset(x) => s[Front(names)][x] = Unset(x)
    PROVE  LET t == Inwards(own, s)
           IN  /\ DOMAIN t = DOMAIN s
               /\ \A names \in DOMAIN s : t[names].auto = s[names].auto
               /\ \A names \in DOMAIN s, x \in Taken : t[names][x] = s[names][x]
<1> DEFINE t == Inwards(own, s)
<1>0. DOMAIN own = DOMAIN NewBlock /\ <<>> \in DOMAIN s
  BY DEF BlockOk
<1>1. /\ DOMAIN t = DOMAIN s /\ t[<<>>] = own
      /\ \A names \in DOMAIN s : names # <<>> =>
            /\ Front(names) \in DOMAIN s
            /\ \A x \in Taken : t[names][x] = IF s[names][x] = Unset(x)
                                              THEN t[Front(names)][x] ELSE s[names][x]
            /\ t[names].auto = s[names].auto
  BY <1>0, InwardsSays
<1> HIDE DEF t
<1>2. \A names \in DOMAIN s : t[names].auto = s[names].auto
  BY <1>1
<1>3. ASSUME NEW x \in Taken, NEW names \in DOMAIN s
      PROVE  t[names][x] = s[names][x]
  <2> DEFINE Lens == {k \in Nat : \E q \in DOMAIN s : Len(q) = k /\ t[q][x] # s[q][x]}
  <2>1. CASE Lens = {}
    <3>1. Len(names) \in Nat
      BY EmptyShort
    <3> QED
      BY <2>1, <3>1
  <2>2. CASE Lens # {}
    <3>1. Lens \subseteq Nat
      OBVIOUS
    <3>2. PICK k \in Lens : \A j \in Nat : j < k => j \notin Lens
      <4> HIDE DEF Lens
      <4> QED
        BY <2>2, <3>1, LeastOf
    <3>3. PICK q \in DOMAIN s : Len(q) = k /\ t[q][x] # s[q][x]
      BY <3>2
    <3>4. q # <<>>
      BY <1>1, <3>3
    <3>5. /\ Front(q) \in DOMAIN s /\ Len(Front(q)) = k - 1 /\ k - 1 \in Nat /\ k - 1 < k
      BY <3>3, <3>4, FrontShort
    <3>6. t[Front(q)][x] = s[Front(q)][x]
      BY <3>2, <3>5
    <3>7. t[q][x] = IF s[q][x] = Unset(x) THEN t[Front(q)][x] ELSE s[q][x]
      BY <1>1, <3>4
    <3> QED
      BY <3>3, <3>4, <3>6, <3>7
  <2> QED
    BY <2>1, <2>2
<1> QED
  BY <1>1, <1>2, <1>3 DEF t

LEMMA FilledSays ==
    ASSUME NEW b, BlockOk(b)
    PROVE  Outwards(Given, b, Filled(b))
<1> DEFINE own == R!PassedOn(Given, b[<<>>])
           s == Inwards(own, b)
           t == Inwards(s[<<>>], s)
<1>1. Filled(b) = t
  BY DEF Filled
<1>2. PICK d : d = Given
  OBVIOUS
<1>3. PICK first : first = b[<<>>]
  OBVIOUS
<1>4. DOMAIN first = DOMAIN NewBlock /\ <<>> \in DOMAIN b
  BY <1>3 DEF BlockOk
<1>5. own = R!PassedOn(d, first)
  BY <1>2, <1>3, Zenon
<1> HIDE DEF own
<1>6. /\ DOMAIN own = DOMAIN NewBlock
      /\ \A x \in Taken : own[x] = IF first[x] = Unset(x) THEN d[x] ELSE first[x]
      /\ own.auto = first.auto
  BY <1>4, <1>5, PassedOnIs
<1>7. /\ DOMAIN s = DOMAIN b /\ BlockOk(s) /\ s[<<>>] = own
      /\ \A names \in DOMAIN b : names # <<>> =>
            /\ Front(names) \in DOMAIN b
            /\ \A x \in Taken : s[names][x] = IF b[names][x] = Unset(x)
                                              THEN s[Front(names)][x]
                                              ELSE b[names][x]
            /\ s[names].auto = b[names].auto
  BY <1>6, InwardsSays
<1> HIDE DEF s
<1>8. \A names \in DOMAIN s, x \in Taken :
        names # <<>> /\ s[names][x] = Unset(x) => s[Front(names)][x] = Unset(x)
  BY <1>7
<1>9. PICK top : top = s[<<>>]
  OBVIOUS
<1>10. t = Inwards(top, s)
  BY <1>9, Zenon
<1> HIDE DEF t
<1>11. /\ DOMAIN t = DOMAIN s
       /\ \A names \in DOMAIN s : t[names].auto = s[names].auto
       /\ \A names \in DOMAIN s, x \in Taken : t[names][x] = s[names][x]
  BY <1>7, <1>8, <1>9, <1>10, InwardsAgain
<1>12. ASSUME NEW names \in DOMAIN b, NEW x \in Taken
       PROVE  t[names][x] = IF b[names][x] # Unset(x) THEN b[names][x]
                            ELSE IF names = <<>> THEN d[x] ELSE t[Front(names)][x]
  <2>1. CASE names = <<>>
    BY <1>3, <1>6, <1>7, <1>11, <2>1
  <2>2. CASE names # <<>>
    BY <1>7, <1>11, <2>2
  <2> QED
    BY <2>1, <2>2
<1>13. ASSUME NEW names \in DOMAIN b
       PROVE  t[names].auto = b[names].auto
  <2>1. CASE names = <<>>
    BY <1>3, <1>6, <1>7, <1>11, <2>1
  <2>2. CASE names # <<>>
    BY <1>7, <1>11, <2>2
  <2> QED
    BY <2>1, <2>2
<1>14. Outwards(d, b, t)
  BY <1>7, <1>11, <1>12, <1>13 DEF Outwards
<1> QED
  BY <1>1, <1>2, <1>14, Zenon

---------------------------------------------------------------------------
(* The blocks that are done                                                *)

\* The block t is what the text says of o, with d the default block.
Done(d, t, lg, o) ==
    /\ \A x \in Taken : t[x] = IF NearestIn(lg, o, DirOf(x)) # <<>>
                               THEN Value(x, NearestIn(lg, o, DirOf(x))) ELSE d[x]
    /\ t.auto <=> StatedIn(lg, o, "autoindex") = <<"on">>

\* What a directive sets is not what stands for nothing set.
LEMMA StatedSets ==
    ASSUME NEW lg, LogOk(lg), NEW o, NEW x \in Taken
    PROVE  StatedIn(lg, o, DirOf(x)) # <<>> <=>
                Value(x, StatedIn(lg, o, DirOf(x))) # Unset(x)
<1> DEFINE a == StatedIn(lg, o, DirOf(x))
           S == Stating(lg, o, DirOf(x))
<1>1. CASE S = {}
  <2>1. a = <<>>
    BY <1>1 DEF StatedIn
  <2> HIDE DEF a
  <2>2. Value(x, <<>>) = Unset(x)
    BY UnsetIs
  <2> QED
    BY <2>1, <2>2 DEF a
<1>2. CASE S # {}
  <2>1. PICK e : e = Newest(S)
    OBVIOUS
  <2>2. e \in 1 .. Len(lg) /\ lg[e][1] = DirOf(x) /\ a = Tail(lg[e])
    <3>1. S \subseteq 1 .. Len(lg)
      BY DEF Stating
    <3>2. Len(lg) \in Int
      <4>1. lg \in Seq(Events)
        BY DEF LogOk
      <4>2. Len(lg) \in Nat
        BY <4>1, LenProperties
      <4> QED
        BY <4>2
    <3>3. e \in S
      <4> HIDE DEF S
      <4> QED
        BY <1>2, <2>1, <3>1, <3>2, NewestOf
    <3>4. a = Tail(lg[e])
      BY <1>2, <2>1 DEF StatedIn
    <3> QED
      BY <3>1, <3>3, <3>4 DEF Stating
  <2>3. lg[e] \in Seq(Word) /\ lg[e] # <<>>
    <3>1. lg[e] \in Events
      BY <2>2, ElementOfSeq DEF LogOk
    <3> QED
      BY <3>1 DEF Events
  <2>4. /\ a \in Seq(Word) /\ Len(a) = Len(lg[e]) - 1
        /\ \A i \in 1 .. Len(a) : a[i] = lg[e][i + 1]
    BY <2>2, <2>3, HeadTailProperties
  <2> HIDE DEF a, S
  <2>5. CASE x = "root"
    <3>1. Value(x, a) = a /\ Unset(x) = <<>>
      BY <2>5 DEF Value, Unset
    <3> QED
      BY <3>1 DEF a
  <2>6. CASE x = "methods"
    <3>1. Value(x, a) = ToSet(a) /\ Unset(x) = {}
      BY <2>6 DEF Value, Unset
    <3>2. a # <<>> <=> ToSet(a) # {}
      <4>1. DOMAIN a = 1 .. Len(a) /\ Len(a) \in Nat
        BY <2>4, LenProperties
      <4>2. a # <<>> => a[1] \in ToSet(a)
        <5>1. a # <<>> => Len(a) \in Nat \ {0}
          BY <2>4, EmptySeq
        <5> QED
          BY <4>1, <5>1 DEF ToSet
      <4>3. ToSet(<<>>) = {}
        BY DEF ToSet
      <4> QED
        BY <4>2, <4>3
    <3> QED
      BY <3>1, <3>2 DEF a
  <2>7. CASE x = "cgi"
    <3>1. DirOf(x) = "cgi_pass"
      BY <2>7 DEF DirOf
    <3>2. Len(lg[e]) = 2 /\ lg[e][2] # ""
      BY <2>2, <3>1 DEF LogOk
    <3>3. Len(a) = 1 /\ a[1] # ""
      <4>1. Len(a) = 1
        <5>1. Len(a) = Len(lg[e]) - 1
          BY <2>4
        <5>2. Len(a) = 2 - 1
          BY <3>2, <5>1, Zenon
        <5> QED
          BY <5>2
      <4>2. 1 \in 1 .. Len(a) /\ 1 + 1 = 2
        BY <4>1
      <4>3. a[1] = lg[e][1 + 1]
        BY <2>4, <4>2
      <4> QED
        BY <3>2, <4>1, <4>2, <4>3
    <3>4. a # <<>>
      BY <3>3, NotEmpty
    <3>5. Value(x, a) # Unset(x)
      BY <2>7, <3>3, <3>4 DEF Value, Unset
    <3> QED
      BY <3>4, <3>5 DEF a
  <2> QED
    BY <2>5, <2>6, <2>7 DEF Taken
<1> QED
  BY <1>1, <1>2

\* The only block that is open is closed and filled: it is done with all that
\* is in it.
LEMMA FilledDone ==
    ASSUME NEW lg, LogOk(lg), NEW top, Now(lg) = {top}, NEW b, Kept(lg, top, b),
           NEW d, NEW t, Outwards(d, b, t),
           NEW o \in 1 .. Len(lg), Opens(lg, o), top \in Ar(lg, o), StandsIn(lg, o)
    PROVE  NamesIn(lg, o) \in DOMAIN t /\ Done(d, t[NamesIn(lg, o)], lg, o)
<1> DEFINE Is(m) == m \in 1 .. Len(lg) /\ Opens(lg, m) /\ top \in Ar(lg, m) /\ StandsIn(lg, m)
           Right(m) == NamesIn(lg, m) \in DOMAIN t /\ Done(d, t[NamesIn(lg, m)], lg, m)
           Wrong == {m \in Nat : Is(m) /\ ~Right(m)}
<1>1. CASE Wrong = {}
  <2>1. o \in Nat /\ Is(o)
    OBVIOUS
  <2> QED
    BY <1>1, <2>1
<1>2. CASE Wrong # {}
  <2>1. Wrong \subseteq Nat
    OBVIOUS
  <2>2. PICK m \in Wrong : \A j \in Nat : j < m => j \notin Wrong
    <3> HIDE DEF Wrong
    <3> QED
      BY <1>2, <2>1, LeastOf
  <2>3. /\ m \in Nat /\ ~Right(m)
        /\ m \in 1 .. Len(lg) /\ Opens(lg, m) /\ top \in Ar(lg, m) /\ StandsIn(lg, m)
    BY <2>2
  <2>4. \A j \in Nat : j < m /\ Is(j) => Right(j)
    BY <2>2
  <2> HIDE DEF Right, Wrong
  <2>5. /\ Len(lg) \in Nat /\ top \in Int /\ Depth(lg, top) = 0 /\ In(lg, top) = {}
    <3>1. Len(lg) \in Nat
      BY LenProperties DEF LogOk
    <3>2. Depth(lg, Len(lg) + 1) = Depth(lg, Newest(Now(lg))) + 1
      BY <3>1, NowIs
    <3>3. Newest(Now(lg)) = top /\ top \in Int /\ Depth(lg, top) \in Nat
      BY <3>1, NowIs
    <3>4. Cardinality(Now(lg)) = 1 /\ Cardinality(Now(lg)) = Depth(lg, Len(lg) + 1)
      BY <3>1, NowIs, FS_Singleton
    <3>5. Depth(lg, top) = 0
      BY <3>2, <3>3, <3>4
    <3> QED
      BY <3>1, <3>3, <3>5, DepthIs
  <2> DEFINE q == NamesIn(lg, m)
  <2>6. /\ q \in DOMAIN b /\ Says(b[q], lg, m)
        /\ q = <<>> <=> top = m
        /\ top # m => top \in In(lg, m)
    <3>1. Under(lg, top, m)
      BY <2>3, <2>5 DEF Under
    <3>2. Depth(lg, top) \in 0 .. Depth(lg, m) /\ Path(lg, 0, m) = NamesIn(lg, m)
      <4>1. Depth(lg, top) \in 0 .. Depth(lg, m)
        BY <2>3, PathEnds
      <4>2. 0 \in 0 .. Depth(lg, m)
        BY <2>5, <4>1
      <4> QED
        BY <2>3, <4>1, <4>2, PathIs
    <3>3. Path(lg, 0, m) \in DOMAIN b /\ Says(b[Path(lg, 0, m)], lg, m)
      BY <2>3, <2>5, <3>1 DEF Kept
    <3>4. /\ Path(lg, 0, m) = <<>> <=> top = m
          /\ top # m => top \in In(lg, m)
      BY <2>3, <2>5, PathEnds
    <3> QED
      BY <3>2, <3>3, <3>4
  <2>7. /\ q \in DOMAIN t
        /\ \A x \in Taken :
              t[q][x] = IF b[q][x] # Unset(x) THEN b[q][x]
                        ELSE IF q = <<>> THEN d[x] ELSE t[Front(q)][x]
        /\ t[q].auto = b[q].auto
    BY <2>6 DEF Outwards
  <2>8. \A x \in Taken : b[q][x] = Value(x, StatedIn(lg, m, DirOf(x)))
    BY <2>6 DEF Says
  <2>9. \A x \in Taken : StatedIn(lg, m, DirOf(x)) # <<>> <=> b[q][x] # Unset(x)
    BY <2>8, StatedSets
  <2>10. t[q].auto <=> StatedIn(lg, m, "autoindex") = <<"on">>
    BY <2>6, <2>7 DEF Says
  <2> HIDE DEF q
  <2>11. ASSUME NEW x \in Taken
         PROVE  t[q][x] = IF NearestIn(lg, m, DirOf(x)) # <<>>
                          THEN Value(x, NearestIn(lg, m, DirOf(x))) ELSE d[x]
    <3>1. CASE StatedIn(lg, m, DirOf(x)) # <<>>
      <4>1. NearestIn(lg, m, DirOf(x)) = StatedIn(lg, m, DirOf(x))
        BY <2>3, <3>1, NearestUp
      <4> QED
        BY <2>7, <2>8, <2>9, <3>1, <4>1
    <3>2. CASE StatedIn(lg, m, DirOf(x)) = <<>> /\ top = m
      <4>1. NearestIn(lg, m, DirOf(x)) = <<>>
        BY <2>3, <2>5, <3>2, NearestUp
      <4> QED
        BY <2>6, <2>7, <2>9, <3>2, <4>1
    <3>3. CASE StatedIn(lg, m, DirOf(x)) = <<>> /\ top # m
      <4> DEFINE p == Par(lg, m)
      <4>1. In(lg, m) # {} /\ m \in Int
        BY <2>3, <2>6, <3>3
      <4>2. NearestIn(lg, m, DirOf(x)) = NearestIn(lg, p, DirOf(x))
        BY <3>3, <4>1, NearestUp
      <4>3. /\ p \in In(lg, m) /\ p \in 1 .. m - 1 /\ In(lg, m) = Ar(lg, p)
        BY <4>1, ParentIs
      <4>4. Front(q) = NamesIn(lg, p)
        BY <2>3, <4>1, NamesFront DEF q
      <4> HIDE DEF p
      <4>5. p \in Nat /\ p < m /\ p \in 1 .. Len(lg)
        BY <2>3, <2>5, <4>3
      <4>6. Is(p)
        <5>1. Opens(lg, p)
          BY <4>1, <4>3, InIs
        <5>2. top \in Ar(lg, p)
          BY <2>6, <3>3, <4>3
        <5>3. StandsIn(lg, p)
          BY <2>3, <4>1, <4>3, StandsAround
        <5> QED
          BY <4>5, <5>1, <5>2, <5>3
      <4>7. Right(p)
        BY <2>4, <4>5, <4>6
      <4>8. t[NamesIn(lg, p)][x] = IF NearestIn(lg, p, DirOf(x)) # <<>>
                                   THEN Value(x, NearestIn(lg, p, DirOf(x))) ELSE d[x]
        BY <4>7 DEF Right, Done
      <4> QED
        BY <2>6, <2>7, <2>9, <3>3, <4>2, <4>4, <4>8
    <3> QED
      BY <3>1, <3>2, <3>3
  <2>12. Done(d, t[q], lg, m)
    BY <2>10, <2>11 DEF Done
  <2> QED
    BY <2>3, <2>7, <2>12 DEF Right, q
<1> QED
  BY <1>1, <1>2

---------------------------------------------------------------------------
(* The servers that are done                                               *)

ServersTo(lg, o) == {x \in 1 .. o : lg[x][1] = "server"}
ServerOf(lg, o) == Cardinality(ServersTo(lg, o))

LEMMA ServersCounted ==
    ASSUME NEW lg, NEW o \in Int
    PROVE  IsFiniteSet(ServersTo(lg, o)) /\ ServerOf(lg, o) \in Nat
<1>1. IsFiniteSet(1 .. o)
  BY FS_Interval
<1>2. ServersTo(lg, o) \subseteq 1 .. o
  BY DEF ServersTo
<1>3. IsFiniteSet(ServersTo(lg, o))
  BY <1>1, <1>2, FS_Subset
<1> QED
  BY <1>3, FS_CardinalityType DEF ServerOf

LEMMA ServersNext ==
    ASSUME NEW lg, NEW l2, Longer(lg, l2), Len(l2) = Len(lg) + 1
    PROVE  /\ \A o \in 1 .. Len(lg) : ServerOf(l2, o) = ServerOf(lg, o)
           /\ ServerOf(l2, Len(l2)) =
                ServerOf(lg, Len(lg)) + (IF l2[Len(l2)][1] = "server" THEN 1 ELSE 0)
<1>1. Len(lg) \in Nat /\ \A k \in 1 .. Len(lg) : l2[k] = lg[k]
  BY DEF Longer
<1>2. ASSUME NEW o \in Int, o <= Len(lg)
      PROVE  ServersTo(l2, o) = ServersTo(lg, o)
  <2>1. \A x \in 1 .. o : x \in 1 .. Len(lg)
    BY <1>1, <1>2
  <2> QED
    BY <1>1, <2>1 DEF ServersTo
<1>3. \A o \in 1 .. Len(lg) : ServerOf(l2, o) = ServerOf(lg, o)
  BY <1>1, <1>2 DEF ServerOf
<1>4. ServerOf(l2, Len(l2)) =
        ServerOf(lg, Len(lg)) + (IF l2[Len(l2)][1] = "server" THEN 1 ELSE 0)
  <2> DEFINE e == Len(l2)
             S == ServersTo(lg, Len(lg))
  <2>1. S = ServersTo(l2, Len(lg))
    BY <1>1, <1>2
  <2>2. IsFiniteSet(S) /\ Cardinality(S) \in Nat /\ e \notin S
    <3>1. IsFiniteSet(S) /\ ServerOf(lg, Len(lg)) \in Nat
      BY <1>1, ServersCounted
    <3> QED
      BY <1>1, <3>1 DEF ServerOf, ServersTo
  <2>3. ServersTo(l2, e) = IF l2[e][1] = "server" THEN S \cup {e} ELSE S
    <3>1. 1 .. e = (1 .. Len(lg)) \cup {e}
      BY <1>1
    <3> QED
      BY <2>1, <3>1 DEF ServersTo
  <2> HIDE DEF S, e
  <2>4. Cardinality(S \cup {e}) = Cardinality(S) + 1
    BY <2>2, FS_AddElement
  <2>5. ServerOf(l2, e) = Cardinality(S) + (IF l2[e][1] = "server" THEN 1 ELSE 0)
    BY <2>2, <2>3, <2>4 DEF ServerOf
  <2> QED
    BY <2>5 DEF S, e, ServerOf
<1> QED
  BY <1>3, <1>4

\* No server begins inside another one.
LEMMA ServerStays ==
    ASSUME NEW lg, LogOk(lg), NEW top \in Now(lg), In(lg, top) = {},
           NEW o \in 1 .. Len(lg), top \in Ar(lg, o)
    PROVE  ServerOf(lg, o) = ServerOf(lg, Len(lg))
<1>1. lg \in Seq(Events)
  BY DEF LogOk
<1>2. Len(lg) \in Nat /\ o \in Int
  BY <1>1, LenProperties
<1>3. top \in Int /\ top <= o
  <2>1. In(lg, o) \subseteq 1 .. o - 1
    BY <1>2, InFinite
  <2> QED
    BY <1>2, <2>1 DEF Ar
<1>4. ASSUME NEW x \in o + 1 .. Len(lg)
      PROVE  lg[x][1] # "server"
  <2>1. x \in Int /\ x <= Len(lg) + 1 /\ top < x /\ Len(lg) + 1 \in Int /\ x \in 1 .. Len(lg)
    BY <1>2, <1>3
  <2>2. top \in In(lg, Len(lg) + 1)
    BY DEF Now
  <2>3. top \in In(lg, x)
    BY <2>1, <2>2, InNarrow
  <2> QED
    BY <2>1, <2>3 DEF LogOk
<1>5. \A x \in 1 .. Len(lg) : x \in 1 .. o \/ x \in o + 1 .. Len(lg)
  BY <1>2
<1>6. \A x \in 1 .. o : x \in 1 .. Len(lg)
  BY <1>2
<1>7. ServersTo(lg, o) = ServersTo(lg, Len(lg))
  BY <1>4, <1>5, <1>6 DEF ServersTo
<1> QED
  BY <1>7 DEF ServerOf

\* Each server block that was parsed is what the text says, with d the default
\* block, in the block itself and in the locations in it.
Finished(d, lg, srv) ==
    /\ \E S : srv \in Seq(S)
    /\ ServerOf(lg, Len(lg)) = Len(srv) + (IF Now(lg) = {} THEN 0 ELSE 1)
    /\ \A o \in 1 .. Len(lg) :
          Opens(lg, o) /\ Ar(lg, o) \cap Now(lg) = {} /\ StandsIn(lg, o) =>
            /\ ServerOf(lg, o) \in 1 .. Len(srv)
            /\ Done(d, srv[ServerOf(lg, o)][NamesIn(lg, o)], lg, o)

\* A block that is closed states nothing more.
LEMMA ClosedStates ==
    ASSUME NEW lg, NEW l2, LogOk(l2), Longer(lg, l2), Len(l2) = Len(lg) + 1,
           NEW o \in 1 .. Len(lg), Ar(lg, o) \cap Now(lg) = {},
           NEW l \in Ar(lg, o), NEW dir \in Watched
    PROVE  StatedIn(l2, l, dir) = StatedIn(lg, l, dir)
<1> DEFINE e == Len(lg) + 1
<1>1. Len(lg) \in Nat
  BY DEF Longer
<1>2. StatedIn(l2, l, dir) = IF l2[e][1] = dir /\ Par(lg, e) = l THEN Tail(l2[e])
                             ELSE StatedIn(lg, l, dir)
  BY StatedNext
<1>3. ASSUME l2[e][1] = dir
      PROVE  Par(lg, e) # l
  <2>1. e \in 1 .. Len(l2)
    BY <1>1
  <2>2. l2[e][1] # "server"
    BY <1>3 DEF Watched
  <2>3. In(l2, e) # {}
    BY <2>1, <2>2 DEF LogOk
  <2>4. In(l2, e) = Now(lg)
    BY NowNext
  <2>5. Now(lg) # {} /\ Newest(Now(lg)) \in Now(lg)
    BY <1>1, <2>3, <2>4, NowIs
  <2>6. Par(lg, e) = Newest(Now(lg))
    BY DEF Par, Now
  <2> QED
    BY <2>5, <2>6
<1> QED
  BY <1>2, <1>3

LEMMA DoneSame ==
    ASSUME NEW lg, NEW l2, Longer(lg, l2), NEW o \in 1 .. Len(lg),
           \A l \in Ar(lg, o), dir \in Watched : StatedIn(l2, l, dir) = StatedIn(lg, l, dir),
           NEW d, NEW t, Done(d, t, lg, o)
    PROVE  Done(d, t, l2, o)
<1>1. ASSUME NEW x \in Taken
      PROVE  t[x] = IF NearestIn(l2, o, DirOf(x)) # <<>>
                    THEN Value(x, NearestIn(l2, o, DirOf(x))) ELSE d[x]
  <2>1. DirOf(x) \in Watched
    BY DEF DirOf, Watched, Taken
  <2>2. NearestIn(l2, o, DirOf(x)) = NearestIn(lg, o, DirOf(x))
    BY <2>1, NearestSame
  <2> QED
    BY <2>2 DEF Done
<1>2. t.auto <=> StatedIn(l2, o, "autoindex") = <<"on">>
  <2>1. o \in Ar(lg, o)
    BY DEF Ar
  <2>2. StatedIn(l2, o, "autoindex") = StatedIn(lg, o, "autoindex")
    BY <2>1 DEF Watched
  <2> QED
    BY <2>2 DEF Done
<1> QED
  BY <1>1, <1>2 DEF Done

\* What is done stays done.
LEMMA FinishedOld ==
    ASSUME NEW d, NEW lg, NEW srv, Finished(d, lg, srv),
           NEW l2, LogOk(l2), Longer(lg, l2), Len(l2) = Len(lg) + 1,
           NEW o \in 1 .. Len(lg), Opens(l2, o), StandsIn(l2, o),
           Ar(lg, o) \cap Now(lg) = {}
    PROVE  /\ ServerOf(l2, o) \in 1 .. Len(srv)
           /\ Done(d, srv[ServerOf(l2, o)][NamesIn(l2, o)], l2, o)
<1>1. Opens(lg, o) /\ NamesIn(l2, o) = NamesIn(lg, o)
  <2>1. Len(lg) \in Nat /\ o \in Int /\ o <= Len(lg) + 1
    BY DEF Longer
  <2> QED
    BY <2>1, SameBlocks
<1>2. StandsIn(lg, o)
  BY StoodBefore
<1>3. ServerOf(l2, o) = ServerOf(lg, o)
  BY ServersNext
<1>4. /\ ServerOf(lg, o) \in 1 .. Len(srv)
      /\ Done(d, srv[ServerOf(lg, o)][NamesIn(lg, o)], lg, o)
  BY <1>1, <1>2 DEF Finished
<1>5. \A l \in Ar(lg, o), dir \in Watched : StatedIn(l2, l, dir) = StatedIn(lg, l, dir)
  BY ClosedStates
<1>6. Done(d, srv[ServerOf(lg, o)][NamesIn(lg, o)], l2, o)
  BY <1>4, <1>5, DoneSame
<1> QED
  BY <1>1, <1>3, <1>4, <1>6

\* An event inside a server, or that opens one: nothing else is done by it.
LEMMA FinishedInside ==
    ASSUME NEW d, NEW lg, NEW srv, Finished(d, lg, srv), LogOk(lg),
           NEW l2, LogOk(l2), Longer(lg, l2), Len(l2) = Len(lg) + 1, Now(l2) # {},
           \A x \in Now(lg) : x \in Now(l2) \/ In(lg, x) \cap Now(l2) # {}
    PROVE  Finished(d, l2, srv)
<1> DEFINE e == Len(lg) + 1
<1>1. Len(lg) \in Nat /\ e \in 1 .. Len(l2)
  BY DEF Longer
<1>2. ServerOf(l2, Len(l2)) = Len(srv) + 1
  <2>1. ServerOf(l2, Len(l2)) =
          ServerOf(lg, Len(lg)) + (IF l2[Len(l2)][1] = "server" THEN 1 ELSE 0)
    BY ServersNext
  <2>2. In(l2, e) = Now(lg)
    BY NowNext
  <2>3. Now(lg) = {} <=> l2[Len(l2)][1] = "server"
    BY <1>1, <2>2 DEF LogOk
  <2>4. ServerOf(lg, Len(lg)) = Len(srv) + (IF Now(lg) = {} THEN 0 ELSE 1)
    BY DEF Finished
  <2>5. Len(srv) \in Nat
    BY LenProperties DEF Finished
  <2>6. CASE Now(lg) = {}
    <3>1. ServerOf(lg, Len(lg)) = Len(srv) + 0
      BY <2>4, <2>6
    <3>2. ServerOf(l2, Len(l2)) = ServerOf(lg, Len(lg)) + 1
      BY <2>1, <2>3, <2>6
    <3> QED
      BY <2>5, <3>1, <3>2
  <2>7. CASE Now(lg) # {}
    <3>1. ServerOf(lg, Len(lg)) = Len(srv) + 1
      BY <2>4, <2>7
    <3>2. ServerOf(l2, Len(l2)) = ServerOf(lg, Len(lg)) + 0
      BY <2>1, <2>3, <2>7
    <3> QED
      BY <2>5, <3>1, <3>2
  <2> QED
    BY <2>6, <2>7
<1>3. ASSUME NEW o \in 1 .. Len(l2), Opens(l2, o), Ar(l2, o) \cap Now(l2) = {},
             StandsIn(l2, o)
      PROVE  /\ ServerOf(l2, o) \in 1 .. Len(srv)
             /\ Done(d, srv[ServerOf(l2, o)][NamesIn(l2, o)], l2, o)
  <2>1. o # e
    <3>1. SUFFICES ASSUME o = e
                   PROVE  FALSE
      OBVIOUS
    <3>2. Balance(l2, e, e) = 1
      <4>1. Weight(l2, e) = 1
        BY <1>3, <3>1 DEF Weight
      <4> QED
        BY <4>1, NowNext
    <3>3. e \in Now(l2)
      BY <1>3, <3>1, NowNext
    <3> QED
      BY <1>3, <3>1, <3>3 DEF Ar
  <2>2. o \in 1 .. Len(lg) /\ o \in Int /\ o <= Len(lg) + 1
    BY <1>1, <2>1
  <2>3. Ar(l2, o) = Ar(lg, o)
    BY <2>2, SameBlocks
  <2>4. ASSUME NEW x \in Ar(lg, o), x \in Now(lg)
        PROVE  FALSE
    <3>1. x \notin Now(l2)
      BY <1>3, <2>3, <2>4
    <3>2. PICK p \in In(lg, x) : p \in Now(l2)
      BY <2>4, <3>1
    <3>3. p \in In(lg, o)
      <4>1. CASE x = o
        BY <4>1
      <4>2. CASE x \in In(lg, o)
        BY <2>2, <4>2, InWiden
      <4> QED
        BY <4>1, <4>2 DEF Ar
    <3> QED
      BY <1>3, <2>3, <3>2, <3>3 DEF Ar
  <2>5. Ar(lg, o) \cap Now(lg) = {}
    BY <2>4
  <2> QED
    BY <1>3, <2>2, <2>5, FinishedOld
<1>4. \E S : srv \in Seq(S)
  BY DEF Finished
<1> QED
  BY <1>2, <1>3, <1>4 DEF Finished

\* A server is closed and filled: all its blocks are done.
LEMMA FinishedServer ==
    ASSUME NEW d, NEW lg, NEW srv, Finished(d, lg, srv), LogOk(lg),
           NEW l2, LogOk(l2), Longer(lg, l2), Len(l2) = Len(lg) + 1,
           Closes(l2, Len(lg) + 1), NEW top, Now(lg) = {top}, Now(l2) = {},
           NEW b, Kept(lg, top, b), NEW t, Outwards(d, b, t)
    PROVE  Finished(d, l2, Append(srv, t))
<1> DEFINE e == Len(lg) + 1
<1>1. Len(lg) \in Nat /\ e \in 1 .. Len(l2)
  BY DEF Longer
<1>2. PICK S : srv \in Seq(S)
  BY DEF Finished
<1>3. /\ Append(srv, t) \in Seq(S \cup {t}) /\ Len(srv) \in Nat
      /\ Len(Append(srv, t)) = Len(srv) + 1
      /\ \A i \in 1 .. Len(srv) : Append(srv, t)[i] = srv[i]
      /\ Append(srv, t)[Len(srv) + 1] = t
  <2>1. srv \in Seq(S \cup {t})
    BY <1>2
  <2> QED
    BY <2>1, AppendProperties, LenProperties
<1> DEFINE s2 == Append(srv, t)
<1> HIDE DEF s2
<1>4. l2[Len(l2)][1] # "server" /\ l2[Len(l2)][1] \notin Watched
  <2>1. PICK w : w = "}" /\ l2[Len(lg) + 1] = <<w>>
    BY Zenon DEF Closes
  <2>2. <<w>>[1] = w
    OBVIOUS
  <2>3. l2[Len(lg) + 1][1] = w
    BY <2>1, <2>2, Zenon
  <2>4. w \notin Watched /\ w # "server"
    BY <2>1 DEF Watched
  <2> QED
    BY <2>3, <2>4
<1>5. ServerOf(lg, Len(lg)) = Len(srv) + 1
  <2>1. Now(lg) # {}
    OBVIOUS
  <2> QED
    BY <2>1 DEF Finished
<1>6. ServerOf(l2, Len(l2)) = Len(s2) + 0
  <2>1. ServerOf(l2, Len(l2)) = ServerOf(lg, Len(lg)) + 0
    BY <1>4, ServersNext
  <2> QED
    BY <1>3, <1>5, <2>1 DEF s2
<1>7. ASSUME NEW o \in 1 .. Len(l2), Opens(l2, o), StandsIn(l2, o)
      PROVE  /\ ServerOf(l2, o) \in 1 .. Len(s2)
             /\ Done(d, s2[ServerOf(l2, o)][NamesIn(l2, o)], l2, o)
  <2>1. o # e
    BY <1>7, OpensOrCloses
  <2>2. o \in 1 .. Len(lg) /\ o \in Int /\ o <= Len(lg) + 1
    BY <1>1, <2>1
  <2>3. CASE top \notin Ar(lg, o)
    <3>1. Ar(lg, o) \cap Now(lg) = {}
      BY <2>3
    <3>2. /\ ServerOf(l2, o) \in 1 .. Len(srv)
          /\ Done(d, srv[ServerOf(l2, o)][NamesIn(l2, o)], l2, o)
      BY <1>7, <2>2, <3>1, FinishedOld
    <3>3. s2[ServerOf(l2, o)] = srv[ServerOf(l2, o)]
      BY <1>3, <3>2 DEF s2
    <3>4. ServerOf(l2, o) \in 1 .. Len(s2)
      BY <1>3, <3>2 DEF s2
    <3> QED
      BY <3>2, <3>3, <3>4
  <2>4. CASE top \in Ar(lg, o)
    <3>1. Opens(lg, o) /\ NamesIn(l2, o) = NamesIn(lg, o)
      BY <1>7, <2>2, SameBlocks
    <3>2. StandsIn(lg, o)
      BY <1>7, <2>2, StoodBefore
    <3>3. Done(d, t[NamesIn(lg, o)], lg, o)
      BY <2>2, <2>4, <3>1, <3>2, FilledDone
    <3>4. \A l \in Ar(lg, o), dir \in Watched : StatedIn(l2, l, dir) = StatedIn(lg, l, dir)
      BY <1>4, NothingStated
    <3>5. Done(d, t[NamesIn(lg, o)], l2, o)
      BY <2>2, <3>3, <3>4, DoneSame
    <3>6. In(lg, top) = {}
      <4>1. top \in Now(lg) /\ Newest(Now(lg)) = top
        BY <1>1, NowIs
      <4>2. Depth(lg, Len(lg) + 1) = 1
        BY <1>1, NowIs, FS_Singleton
      <4>3. /\ Depth(lg, Len(lg) + 1) = Depth(lg, top) + 1
            /\ Depth(lg, top) \in Nat /\ top \in Int
        BY <1>1, <4>1, NowIs
      <4>4. Depth(lg, top) = 0
        BY <4>2, <4>3
      <4> QED
        BY <4>3, <4>4, DepthIs
    <3>7. ServerOf(lg, o) = ServerOf(lg, Len(lg))
      BY <2>2, <2>4, <3>6, ServerStays
    <3>8. ServerOf(l2, o) = Len(srv) + 1
      BY <1>5, <2>2, <3>7, ServersNext
    <3>9. s2[ServerOf(l2, o)] = t /\ ServerOf(l2, o) \in 1 .. Len(s2)
      BY <1>3, <3>8 DEF s2
    <3> QED
      BY <3>1, <3>5, <3>9
  <2> QED
    BY <2>3, <2>4
<1>8. \E T : s2 \in Seq(T)
  BY <1>3 DEF s2
<1>9. Finished(d, l2, s2)
  BY <1>6, <1>7, <1>8 DEF Finished
<1> QED
  BY <1>9 DEF s2

---------------------------------------------------------------------------
(* The text, the frames and the servers                                    *)

\* The frame of a block that is open is as deep in the stack as the block in
\* the text; it holds what was parsed in the block, and the frame around it
\* the block's name.
FramesOk(lg, st) ==
    /\ Depth(lg, Len(lg) + 1) = Len(st) /\ Balanced(lg)
    /\ \A l \in Now(lg) :
          /\ Kept(lg, l, st[Depth(lg, l) + 1].block)
          /\ Depth(lg, l) # 0 => st[Depth(lg, l)].inner = lg[l][2]

Agree(d, lg, st, srv) == LogOk(lg) /\ FramesOk(lg, st) /\ Finished(d, lg, srv)

LEMMA FramePlace ==
    ASSUME NEW lg, LogOk(lg), NEW st, FramesOk(lg, st)
    PROVE  /\ Len(lg) \in Nat /\ Len(st) \in Nat
           /\ Now(lg) = {} <=> Len(st) = 0
           /\ \A l \in Now(lg) :
                /\ l \in 1 .. Len(lg) /\ Depth(lg, l) \in Nat
                /\ Depth(lg, l) + 1 \in 1 .. Len(st)
                /\ Depth(lg, l) # 0 => Depth(lg, l) \in 1 .. Len(st) - 1
                /\ Depth(lg, l) + 1 = Len(st) <=> l = Newest(Now(lg))
           /\ Now(lg) # {} => /\ Newest(Now(lg)) \in Now(lg)
                              /\ Depth(lg, Newest(Now(lg))) + 1 = Len(st)
<1>1. lg \in Seq(Events) /\ Depth(lg, Len(lg) + 1) = Len(st)
  BY DEF LogOk, FramesOk
<1>2. Len(lg) \in Nat
  BY <1>1, LenProperties
<1>3. /\ Len(st) \in Nat /\ Now(lg) \subseteq 1 .. Len(lg)
      /\ \A l \in Now(lg) : l \in Int /\ Depth(lg, l) \in Nat /\ Depth(lg, l) < Len(st)
      /\ Now(lg) # {} => /\ Newest(Now(lg)) \in Now(lg)
                         /\ \A l \in Now(lg) : l <= Newest(Now(lg))
                         /\ Len(st) = Depth(lg, Newest(Now(lg))) + 1
  BY <1>1, <1>2, NowIs
<1>4. Now(lg) = {} <=> Len(st) = 0
  <2>1. Len(lg) + 1 \in Int
    BY <1>2
  <2> QED
    BY <1>1, <2>1, DepthIs DEF Now
<1>5. ASSUME NEW l \in Now(lg), l # Newest(Now(lg))
      PROVE  Depth(lg, l) + 1 # Len(st)
  <2> DEFINE n == Newest(Now(lg))
  <2>1. /\ n \in Now(lg) /\ l < n /\ Len(lg) + 1 \in Int
        /\ Depth(lg, n) \in Nat /\ Depth(lg, l) \in Nat
    <3>1. n \in Now(lg) /\ l <= n /\ l \in Int
      BY <1>3, <1>5
    <3>2. n \in Int /\ Depth(lg, n) \in Nat /\ Depth(lg, l) \in Nat
      BY <1>3, <3>1
    <3> QED
      BY <1>2, <1>5, <3>1, <3>2
  <2>2. l \in Ar(lg, Len(lg) + 1) /\ n \in Ar(lg, Len(lg) + 1)
    BY <2>1 DEF Now, Ar
  <2> HIDE DEF n
  <2>3. Depth(lg, l) < Depth(lg, n)
    BY <2>1, <2>2, Nested
  <2>4. Len(st) = Depth(lg, n) + 1
    BY <1>3, <2>1 DEF n
  <2> QED
    BY <2>1, <2>3, <2>4
<1>6. ASSUME NEW l \in Now(lg)
      PROVE  /\ l \in 1 .. Len(lg) /\ Depth(lg, l) \in Nat
             /\ Depth(lg, l) + 1 \in 1 .. Len(st)
             /\ Depth(lg, l) # 0 => Depth(lg, l) \in 1 .. Len(st) - 1
             /\ Depth(lg, l) + 1 = Len(st) <=> l = Newest(Now(lg))
  <2>1. l \in 1 .. Len(lg) /\ Depth(lg, l) \in Nat /\ Depth(lg, l) < Len(st)
    BY <1>3
  <2>2. Depth(lg, l) + 1 \in 1 .. Len(st)
    BY <1>3, <2>1
  <2>3. Depth(lg, l) # 0 => Depth(lg, l) \in 1 .. Len(st) - 1
    BY <1>3, <2>1
  <2>4. Depth(lg, l) + 1 = Len(st) <=> l = Newest(Now(lg))
    BY <1>3, <1>5
  <2> QED
    BY <2>1, <2>2, <2>3, <2>4
<1>7. Now(lg) # {} => /\ Newest(Now(lg)) \in Now(lg)
                      /\ Depth(lg, Newest(Now(lg))) + 1 = Len(st)
  BY <1>3
<1> QED
  BY <1>2, <1>3, <1>4, <1>6, <1>7

\* Where nothing was read.
LEMMA AgreeAtFirst ==
    ASSUME NEW d
    PROVE  Agree(d, <<>>, <<>>, <<>>)
<1> DEFINE lg == << >>
<1>1. lg \in Seq(Events) /\ Len(lg) = 0 /\ lg = <<>>
  OBVIOUS
<1> HIDE DEF lg
<1>2. Now(lg) = {}
  <2>1. Now(lg) \subseteq 1 .. Len(lg)
    BY <1>1, NowIs
  <2> QED
    BY <1>1, <2>1
<1>3. LogOk(lg)
  BY <1>1 DEF LogOk
<1>4. FramesOk(lg, lg)
  <2>1. Depth(lg, Len(lg) + 1) = Len(lg)
    BY <1>1, <1>2, FS_EmptySet DEF Now, Depth
  <2> QED
    BY <1>2, <2>1 DEF FramesOk, Balanced
<1>5. Finished(d, lg, lg)
  <2>1. ServerOf(lg, Len(lg)) = 0
    <3>1. ServersTo(lg, Len(lg)) = {}
      BY <1>1 DEF ServersTo
    <3> QED
      BY <3>1, FS_EmptySet DEF ServerOf
  <2> QED
    BY <1>1, <1>2, <2>1 DEF Finished
<1>6. Agree(d, lg, lg, lg)
  BY <1>3, <1>4, <1>5 DEF Agree
<1> QED
  BY <1>1, <1>6

\* Words that are collected, and the name of the location to come, change nothing.
LEMMA AgreeAlike ==
    ASSUME NEW d, NEW lg, NEW st, NEW srv, Agree(d, lg, st, srv),
           NEW s2, Len(s2) = Len(st),
           \A k \in 1 .. Len(st) : s2[k].block = st[k].block,
           \A k \in 1 .. Len(st) - 1 : s2[k].inner = st[k].inner
    PROVE  Agree(d, lg, s2, srv)
<1>1. LogOk(lg) /\ FramesOk(lg, st) /\ Finished(d, lg, srv)
  BY DEF Agree
<1>2. ASSUME NEW l \in Now(lg)
      PROVE  /\ Kept(lg, l, s2[Depth(lg, l) + 1].block)
             /\ Depth(lg, l) # 0 => s2[Depth(lg, l)].inner = lg[l][2]
  <2>1. /\ Kept(lg, l, st[Depth(lg, l) + 1].block)
        /\ Depth(lg, l) # 0 => st[Depth(lg, l)].inner = lg[l][2]
    BY <1>1 DEF FramesOk
  <2>2. /\ Depth(lg, l) + 1 \in 1 .. Len(st)
        /\ Depth(lg, l) # 0 => Depth(lg, l) \in 1 .. Len(st) - 1
    BY <1>1, FramePlace
  <2> QED
    BY <2>1, <2>2
<1>3. FramesOk(lg, s2)
  BY <1>1, <1>2 DEF FramesOk
<1> QED
  BY <1>1, <1>3 DEF Agree

LEMMA BeforeLast ==
    \A n \in Nat : \A e \in 1 .. n + 1 :
        e # n + 1 => e \in 1 .. n /\ e \in Int /\ e <= n + 1
  OBVIOUS

\* An event that may be next.
Fits(lg, ev) ==
    /\ ev \in Events
    /\ Now(lg) = {} <=> ev[1] = "server"
    /\ ev[1] = "location" => Len(ev) = 2
    /\ ev[1] = "cgi_pass" => Len(ev) = 2 /\ ev[2] # ""

\* l2 is lg with one event more.
Grown(lg, ev, l2) ==
    /\ Longer(lg, l2) /\ l2 \in Seq(Events) /\ Len(lg) \in Nat
    /\ Len(l2) = Len(lg) + 1 /\ l2[Len(lg) + 1] = ev

LEMMA GrownIs ==
    ASSUME NEW lg, LogOk(lg), NEW ev \in Events
    PROVE  Grown(lg, ev, Append(lg, ev))
<1>1. lg \in Seq(Events)
  BY DEF LogOk
<1> QED
  BY <1>1, AppendLonger DEF Grown

LEMMA LogNext ==
    ASSUME NEW lg, LogOk(lg), NEW ev, Fits(lg, ev), NEW l2, Grown(lg, ev, l2)
    PROVE  /\ LogOk(l2) /\ Longer(lg, l2) /\ Len(l2) = Len(lg) + 1
           /\ l2[Len(lg) + 1] = ev /\ Len(lg) \in Nat
<1>2. /\ Longer(lg, l2) /\ l2 \in Seq(Events) /\ Len(lg) \in Nat
      /\ Len(l2) = Len(lg) + 1 /\ l2[Len(lg) + 1] = ev
  BY DEF Grown
<1>3. ASSUME NEW e \in 1 .. Len(l2)
      PROVE  /\ In(l2, e) = {} <=> l2[e][1] = "server"
             /\ l2[e][1] = "location" => Len(l2[e]) = 2
             /\ l2[e][1] = "cgi_pass" => Len(l2[e]) = 2 /\ l2[e][2] # ""
  <2>1. CASE e = Len(lg) + 1
    <3>1. In(l2, e) = Now(lg)
      BY <1>2, <2>1, NowNext
    <3> QED
      BY <1>2, <2>1, <3>1 DEF Fits
  <2>2. CASE e # Len(lg) + 1
    <3>1. e \in 1 .. Len(lg) /\ e \in Int /\ e <= Len(lg) + 1
      <4>1. e \in 1 .. Len(lg) + 1
        BY <1>2, Zenon
      <4>2. Len(lg) \in Nat
        BY <1>2, Zenon
      <4> QED
        BY <2>2, <4>1, <4>2, BeforeLast, Zenon
    <3>2. In(l2, e) = In(lg, e) /\ l2[e] = lg[e]
      BY <1>2, <3>1, InSame DEF Longer
    <3> QED
      BY <3>1, <3>2 DEF LogOk
  <2> QED
    BY <2>1, <2>2
<1>4. LogOk(l2)
  BY <1>2, <1>3 DEF LogOk
<1> QED
  BY <1>2, <1>4

\* What the call for a directive changes of a frame.
LEMMA CalledIs ==
    ASSUME NEW f, FrameOk(f)
    PROVE  /\ f.dir = NoWord => Called(f) = f /\ Pending(f) = <<>>
           /\ f.dir # NoWord =>
                /\ Called(f).block = [f.block EXCEPT ![<<>>] = Added(f.dir, @, f.args)]
                /\ Pending(f) = <<<<f.dir>> \o f.args>>
<1>1. PICK B : f \in Frames(B)
  BY DEF FrameOk
<1>2. ASSUME f.dir # NoWord
      PROVE  Called(f).block = [f.block EXCEPT ![<<>>] = Added(f.dir, @, f.args)]
  <2> DEFINE b == [f.block EXCEPT ![<<>>] = Added(f.dir, @, f.args)]
  <2>1. Called(f) = [f EXCEPT !.block = b, !.dir = NoWord, !.args = <<>>]
    BY <1>2 DEF Called
  <2> HIDE DEF b
  <2>2. Called(f).block = b
    BY <1>1, <2>1 DEF Frames
  <2> QED
    BY <2>2 DEF b
<1> QED
  BY <1>2 DEF Called, Pending

\* None of the words is empty.
NoneEmpty(a) == \A i \in 1 .. Len(a) : a[i] # ""

\* The event of a directive.
LEMMA DirectiveEvent ==
    ASSUME NEW dir \in Common \cup {"server_name", "listen", "alias"}, dir \in Word,
           NEW a \in Seq(Word), NoneEmpty(a),
           NEW b, DOMAIN b = DOMAIN NewBlock, CanAdd(dir, b, a)
    PROVE  LET e == <<dir>> \o a
           IN  /\ e \in Events /\ e[1] = dir /\ Tail(e) = a
               /\ e[1] \notin {"server", "location"} /\ e # <<"}">>
               /\ e[1] = "cgi_pass" => Len(e) = 2 /\ e[2] # ""
<1> DEFINE e == <<dir>> \o a
<1>1. e \in Seq(Word) /\ e # <<>> /\ e[1] = dir /\ Tail(e) = a
  BY FrontOfOne
<1> HIDE DEF e
<1>2. e \in Events
  BY <1>1 DEF Events
<1>3. dir \notin {"server", "location", "}"}
  BY DEF Common
<1>4. e # <<"}">>
  <2>1. SUFFICES ASSUME e = <<"}">>
                 PROVE  FALSE
    OBVIOUS
  <2>2. PICK w : w = "}" /\ e = <<w>>
    BY <2>1, Zenon
  <2>3. <<w>>[1] = w
    OBVIOUS
  <2>4. e[1] = w
    BY <2>2, <2>3, Zenon
  <2> QED
    BY <1>1, <1>3, <2>2, <2>4
<1>5. ASSUME dir = "cgi_pass"
      PROVE  Len(e) = 2 /\ e[2] # ""
  <2>1. Len(a) = 1
    BY <1>5, AddedSays
  <2>2. /\ Len(Tail(e)) = Len(e) - 1 /\ Len(e) \in Nat
        /\ \A i \in 1 .. Len(Tail(e)) : Tail(e)[i] = e[i + 1]
    BY <1>1, HeadTailProperties, LenProperties
  <2>3. 1 = Len(e) - 1 /\ \A i \in 1 .. 1 : a[i] = e[i + 1]
    BY <1>1, <2>1, <2>2, Zenon
  <2>4. Len(e) = 2 /\ a[1] = e[2]
    <3>1. Len(e) = 2
      BY <2>2, <2>3
    <3>2. a[1] = e[1 + 1]
      BY <2>3
    <3> QED
      BY <3>1, <3>2
  <2>5. a[1] # ""
    <3>1. 1 \in 1 .. Len(a)
      BY <2>1
    <3> QED
      BY <3>1, Zenon DEF NoneEmpty
  <2> QED
    BY <2>4, <2>5
<1>6. /\ e \in Events /\ e[1] = dir /\ Tail(e) = a
      /\ e[1] \notin {"server", "location"} /\ e # <<"}">>
      /\ e[1] = "cgi_pass" => Len(e) = 2 /\ e[2] # ""
  BY <1>1, <1>2, <1>3, <1>4, <1>5
<1> QED
  BY <1>6 DEF e

\* The stacks differ in nothing but the innermost frame.
SameBelow(st, s2) ==
    /\ Len(s2) = Len(st)
    /\ \A k \in 1 .. Len(st) - 1 : s2[k].block = st[k].block /\ s2[k].inner = st[k].inner

BlocksOk(st) == \A k \in 1 .. Len(st) : BlockOk(st[k].block)

\* Below n, or n.
LEMMA BelowOr ==
    \A n \in Nat : \A k \in 1 .. n : k \in Nat /\ (k = n \/ k \in 1 .. n - 1)
  OBVIOUS

\* The call for a directive: the log and the block around it say the same again.
LEMMA AgreeDirective ==
    ASSUME NEW d, NEW lg, NEW st, NEW srv, Agree(d, lg, st, srv), BlocksOk(st), Len(st) # 0,
           NEW dir \in Common \cup {"server_name", "listen", "alias"}, dir \in Word,
           NEW a \in Seq(Word), NoneEmpty(a),
           NEW b, st[Len(st)].block = b, CanAdd(dir, b[<<>>], a),
           NEW s2, SameBelow(st, s2),
           s2[Len(st)].block = [b EXCEPT ![<<>>] = Added(dir, @, a)]
    PROVE  \A l2 : Grown(lg, <<dir>> \o a, l2) => Agree(d, l2, s2, srv)
<1>1. LogOk(lg) /\ FramesOk(lg, st) /\ Finished(d, lg, srv)
  BY DEF Agree
<1>2. /\ Len(lg) \in Nat /\ Len(st) \in Nat /\ Now(lg) # {}
      /\ Balanced(lg) /\ Depth(lg, Len(lg) + 1) = Len(st)
  BY <1>1, FramePlace DEF FramesOk
<1>3. Len(st) \in 1 .. Len(st) /\ BlockOk(b)
  BY <1>2 DEF BlocksOk
<1>4. PICK e : e = <<dir>> \o a
  OBVIOUS
<1>5. /\ e \in Events /\ e[1] = dir /\ Tail(e) = a
      /\ e[1] \notin {"server", "location"} /\ e # <<"}">>
      /\ e[1] = "cgi_pass" => Len(e) = 2 /\ e[2] # ""
  <2>1. DOMAIN b[<<>>] = DOMAIN NewBlock
    BY <1>3 DEF BlockOk
  <2> QED
    BY <1>4, <2>1, DirectiveEvent
<1>6. SUFFICES ASSUME NEW l2, Grown(lg, e, l2)
                PROVE  Agree(d, l2, s2, srv)
  BY <1>4
<1>7. /\ LogOk(l2) /\ Longer(lg, l2) /\ Len(l2) = Len(lg) + 1
      /\ l2[Len(lg) + 1] = e
  <2>1. /\ Now(lg) = {} <=> e[1] = "server"
        /\ e[1] = "location" => Len(e) = 2
    BY <1>2, <1>5
  <2>2. e \in Events /\ (e[1] = "cgi_pass" => Len(e) = 2 /\ e[2] # "")
    BY <1>5
  <2>3. Fits(lg, e)
    BY <2>1, <2>2 DEF Fits
  <2> QED
    BY <1>1, <1>6, <2>3, LogNext
<1>8. ~Opens(l2, Len(lg) + 1) /\ ~Closes(l2, Len(lg) + 1)
  BY <1>5, <1>7 DEF Opens, Closes
<1>9. Now(l2) = Now(lg) /\ Balanced(l2)
  <2>1. Weight(l2, Len(lg) + 1) = 0
    BY <1>8 DEF Weight
  <2> QED
    BY <1>2, <1>7, <1>8, <2>1, NowStays
<1>10. Depth(l2, Len(l2) + 1) = Len(s2)
  <2>1. Len(s2) = Len(st)
    BY DEF SameBelow
  <2> QED
    BY <1>2, <1>9, <2>1 DEF Depth, Now
<1>11. ASSUME NEW l \in Now(lg)
       PROVE  /\ Kept(l2, l, s2[Depth(l2, l) + 1].block)
              /\ Depth(l2, l) # 0 => s2[Depth(l2, l)].inner = l2[l][2]
  <2>1. /\ l \in 1 .. Len(lg) /\ Depth(lg, l) \in Nat
        /\ Depth(lg, l) + 1 \in 1 .. Len(st)
        /\ Depth(lg, l) # 0 => Depth(lg, l) \in 1 .. Len(st) - 1
        /\ Depth(lg, l) + 1 = Len(st) <=> l = Newest(Now(lg))
    BY <1>1, FramePlace
  <2>2. /\ Kept(lg, l, st[Depth(lg, l) + 1].block)
        /\ Depth(lg, l) # 0 => st[Depth(lg, l)].inner = lg[l][2]
    BY <1>1 DEF FramesOk
  <2>3. l \in Int /\ l <= Len(lg) + 1
    BY <1>2, <2>1
  <2>4. Depth(l2, l) = Depth(lg, l) /\ l2[l] = lg[l]
    BY <1>7, <2>1, <2>3, SameBlocks DEF Longer
  <2>5. PICK n : n = Depth(lg, l)
    OBVIOUS
  <2>6. PICK c : c = st[n + 1].block
    OBVIOUS
  <2>7. BlockOk(c) /\ Kept(lg, l, c)
    BY <2>1, <2>2, <2>5, <2>6 DEF BlocksOk
  <2>8. /\ l # Newest(Now(lg)) => Kept(l2, l, c)
        /\ l = Newest(Now(lg)) /\ CanAdd(dir, c[<<>>], a) =>
              Kept(l2, l, [c EXCEPT ![<<>>] = Added(dir, @, a)])
    BY <1>1, <1>2, <1>5, <1>7, <1>9, <2>7, KeptDirective
  <2>9. n # 0 => s2[n].inner = l2[l][2]
    BY <2>1, <2>2, <2>4, <2>5 DEF SameBelow
  <2>10. Kept(l2, l, s2[n + 1].block)
    <3>1. CASE l # Newest(Now(lg))
      <4>1. n + 1 \in 1 .. Len(st) - 1
        BY <1>2, <2>1, <2>5, <3>1, BelowOr
      <4>2. s2[n + 1].block = c
        BY <2>6, <4>1 DEF SameBelow
      <4> QED
        BY <2>8, <3>1, <4>2
    <3>2. CASE l = Newest(Now(lg))
      <4>1. n + 1 = Len(st)
        BY <2>1, <2>5, <3>2
      <4>2. c = b
        BY <2>6, <4>1
      <4>3. Kept(l2, l, [b EXCEPT ![<<>>] = Added(dir, @, a)])
        BY <2>8, <3>2, <4>2
      <4> QED
        BY <4>1, <4>3
    <3> QED
      BY <3>1, <3>2
  <2> QED
    BY <2>4, <2>5, <2>9, <2>10
<1>12. FramesOk(l2, s2)
  BY <1>9, <1>10, <1>11 DEF FramesOk
<1>13. Finished(d, l2, srv)
  BY <1>1, <1>2, <1>7, <1>9, FinishedInside
<1>14. Agree(d, l2, s2, srv)
  BY <1>7, <1>12, <1>13 DEF Agree
<1> QED
  BY <1>14

LEMMA AgreeCalled ==
    ASSUME NEW d, NEW lg, NEW st, NEW srv, Agree(d, lg, st, srv), BlocksOk(st), Len(st) # 0,
           NEW f, FrameOk(f), CanCall(f), NoneEmpty(f.args), st[Len(st)].block = f.block,
           NEW s2, SameBelow(st, s2), s2[Len(st)].block = Called(f).block
    PROVE  Agree(d, lg \o Pending(f), s2, srv)
<1>1. LogOk(lg) /\ FramesOk(lg, st) /\ lg \in Seq(Events)
  BY DEF Agree, LogOk
<1>2. Len(st) \in Nat
  BY <1>1, FramePlace
<1>3. CASE f.dir = NoWord
  <2>1. lg \o Pending(f) = lg /\ Called(f).block = f.block
    BY <1>1, <1>3, CalledIs, ConcatEmptySeq
  <2>2. ASSUME NEW k \in 1 .. Len(st)
        PROVE  s2[k].block = st[k].block
    <3>1. k = Len(st) \/ k \in 1 .. Len(st) - 1
      BY <1>2, BelowOr
    <3> QED
      BY <2>1, <3>1 DEF SameBelow
  <2>3. Agree(d, lg, s2, srv)
    BY <2>2, AgreeAlike DEF SameBelow
  <2> QED
    BY <2>1, <2>3
<1>4. CASE f.dir # NoWord
  <2>1. PICK dir, a, b : dir = f.dir /\ a = f.args /\ b = f.block
    OBVIOUS
  <2>2. /\ dir \in Common \cup {"server_name", "listen", "alias"} /\ dir \in Word
        /\ a \in Seq(Word)
    BY <1>4, <2>1, FrameIs
  <2>3. NoneEmpty(a) /\ CanAdd(dir, b[<<>>], a) /\ st[Len(st)].block = b
    BY <1>4, <2>1 DEF CanCall
  <2>4. PICK e : e = <<dir>> \o a
    OBVIOUS
  <2>5. /\ s2[Len(st)].block = [b EXCEPT ![<<>>] = Added(dir, @, a)]
        /\ Pending(f) = <<e>>
    BY <1>4, <2>1, <2>4, CalledIs
  <2>6. \A l2 : Grown(lg, e, l2) => Agree(d, l2, s2, srv)
    BY <2>2, <2>3, <2>4, <2>5, AgreeDirective
  <2>7. e \in Events
    <3>1. e \in Seq(Word) /\ e # <<>>
      BY <2>2, <2>4, FrontOfOne
    <3> QED
      BY <3>1 DEF Events
  <2>8. lg \o <<e>> = Append(lg, e) /\ Grown(lg, e, Append(lg, e))
    BY <1>1, <2>7, AppendIsConcat, GrownIs
  <2> QED
    BY <2>5, <2>6, <2>8
<1> QED
  BY <1>3, <1>4

\* The stack with one frame more.
Pushed(st, f, s2) ==
    /\ Len(s2) = Len(st) + 1 /\ s2[Len(st) + 1] = f
    /\ \A k \in 1 .. Len(st) : s2[k] = st[k]

\* A block opens, inside the innermost one and under the name that one was given.
LEMMA AgreeOpening ==
    ASSUME NEW d, NEW lg, NEW st, NEW srv, Agree(d, lg, st, srv),
           NEW ev, Fits(lg, ev), ev[1] \in {"server", "location"},
           Len(st) # 0 => st[Len(st)].inner = ev[2],
           NEW f, f.block = [names \in {<<>>} |-> NewBlock],
           NEW s2, Pushed(st, f, s2), NEW l2, Grown(lg, ev, l2)
    PROVE  Agree(d, l2, s2, srv)
<1>1. LogOk(lg) /\ FramesOk(lg, st) /\ Finished(d, lg, srv)
  BY DEF Agree
<1>2. /\ Len(lg) \in Nat /\ Len(st) \in Nat
      /\ Balanced(lg) /\ Depth(lg, Len(lg) + 1) = Len(st)
  BY <1>1, FramePlace DEF FramesOk
<1>4. /\ LogOk(l2) /\ Longer(lg, l2) /\ Len(l2) = Len(lg) + 1
      /\ l2[Len(lg) + 1] = ev
  BY <1>1, LogNext
<1>5. Opens(l2, Len(lg) + 1)
  BY <1>4 DEF Opens
<1>6. /\ Now(l2) = Now(lg) \cup {Len(lg) + 1} /\ Balanced(l2)
      /\ Depth(l2, Len(lg) + 1) = Len(st)
      /\ Depth(l2, Len(l2) + 1) = Len(st) + 1
  BY <1>2, <1>4, <1>5, NowOpens
<1>7. /\ \A l \in Now(lg) : \A b : Kept(lg, l, b) => Kept(l2, l, b)
      /\ Kept(l2, Len(lg) + 1, [names \in {<<>>} |-> NewBlock])
  BY <1>1, <1>4, <1>5, <1>6, KeptOpening
<1>8. ASSUME NEW l \in Now(lg)
      PROVE  /\ Kept(l2, l, s2[Depth(l2, l) + 1].block)
             /\ Depth(l2, l) # 0 => s2[Depth(l2, l)].inner = l2[l][2]
  <2>1. /\ l \in 1 .. Len(lg) /\ Depth(lg, l) \in Nat
        /\ Depth(lg, l) + 1 \in 1 .. Len(st)
        /\ Depth(lg, l) # 0 => Depth(lg, l) \in 1 .. Len(st) - 1
    BY <1>1, FramePlace
  <2>2. /\ Kept(lg, l, st[Depth(lg, l) + 1].block)
        /\ Depth(lg, l) # 0 => st[Depth(lg, l)].inner = lg[l][2]
    BY <1>1 DEF FramesOk
  <2>3. l \in Int /\ l <= Len(lg) + 1
    BY <1>2, <2>1
  <2>4. Depth(l2, l) = Depth(lg, l) /\ l2[l] = lg[l]
    BY <1>4, <2>1, <2>3, SameBlocks DEF Longer
  <2>5. PICK n : n = Depth(lg, l)
    OBVIOUS
  <2>6. s2[n + 1] = st[n + 1] /\ (n # 0 => s2[n] = st[n])
    <3>1. n # 0 => n \in 1 .. Len(st)
      BY <1>2, <2>1, <2>5
    <3> QED
      BY <2>1, <2>5, <3>1 DEF Pushed
  <2> QED
    BY <1>7, <2>2, <2>4, <2>5, <2>6
<1>9. ASSUME NEW l, l = Len(lg) + 1
      PROVE  /\ Kept(l2, l, s2[Depth(l2, l) + 1].block)
             /\ Depth(l2, l) # 0 => s2[Depth(l2, l)].inner = l2[l][2]
  <2>1. s2[Len(st) + 1].block = [names \in {<<>>} |-> NewBlock]
    BY DEF Pushed
  <2>2. Len(st) # 0 => s2[Len(st)].inner = ev[2]
    <3>1. Len(st) # 0 => Len(st) \in 1 .. Len(st)
      BY <1>2
    <3> QED
      BY <3>1 DEF Pushed
  <2> QED
    BY <1>4, <1>6, <1>7, <1>9, <2>1, <2>2
<1>10. FramesOk(l2, s2)
  <2>1. Len(s2) = Len(st) + 1
    BY DEF Pushed
  <2> QED
    BY <1>6, <1>8, <1>9, <2>1 DEF FramesOk
<1>11. Finished(d, l2, srv)
  BY <1>1, <1>4, <1>6, FinishedInside
<1> QED
  BY <1>4, <1>10, <1>11 DEF Agree

LEMMA OneAndNone == \A k \in Nat : k + 1 \in Int /\ (k - 1 = 0 <=> k = 1)
  OBVIOUS

\* What a closing leaves open.
LEMMA ClosingLeaves ==
    ASSUME NEW lg, NEW st, LogOk(lg), FramesOk(lg, st), Len(st) # 0,
           NEW ev, ev = <<"}">>, NEW l2, Grown(lg, ev, l2)
    PROVE  /\ LogOk(l2) /\ Longer(lg, l2) /\ Len(l2) = Len(lg) + 1
           /\ Closes(l2, Len(lg) + 1)
           /\ Now(l2) = Now(lg) \ {Newest(Now(lg))} /\ Balanced(l2)
           /\ Depth(l2, Len(l2) + 1) = Len(st) - 1
           /\ Now(l2) = {} <=> Len(st) = 1
<1>1. /\ Len(lg) \in Nat /\ Len(st) \in Nat /\ Now(lg) # {}
      /\ Balanced(lg) /\ Depth(lg, Len(lg) + 1) = Len(st)
  BY FramePlace DEF FramesOk
<1>2. Fits(lg, ev)
  <2>1. PICK w : w = "}" /\ ev = <<w>>
    BY Zenon
  <2>2. <<w>>[1] = w
    OBVIOUS
  <2>3. ev[1] = w
    BY <2>1, <2>2, Zenon
  <2>4. ev[1] \notin {"server", "location", "cgi_pass"}
    BY <2>1, <2>3
  <2>5. ev \in Events
    BY Literals, Zenon
  <2> QED
    BY <1>1, <2>4, <2>5 DEF Fits
<1>3. /\ LogOk(l2) /\ Longer(lg, l2) /\ Len(l2) = Len(lg) + 1
      /\ l2[Len(lg) + 1] = ev
  BY <1>2, LogNext
<1>4. Closes(l2, Len(lg) + 1)
  BY <1>3 DEF Closes
<1>5. /\ Now(l2) = Now(lg) \ {Newest(Now(lg))} /\ Balanced(l2)
      /\ Depth(l2, Len(l2) + 1) = Len(st) - 1
  BY <1>1, <1>3, <1>4, NowCloses
<1>6. Now(l2) = {} <=> Len(st) = 1
  <2>1. Len(l2) + 1 \in Int
    <3>1. Len(l2) \in Nat
      BY <1>3, Zenon DEF Longer
    <3> QED
      BY <3>1, OneAndNone, Zenon
  <2>2. Depth(l2, Len(l2) + 1) = 0 <=> Now(l2) = {}
    <3>1. PICK n : n = Len(l2) + 1
      OBVIOUS
    <3>2. Depth(l2, n) = 0 <=> In(l2, n) = {}
      BY <2>1, <3>1, DepthIs
    <3> QED
      BY <3>1, <3>2, Zenon DEF Now
  <2>3. PICK m : m = Depth(l2, Len(l2) + 1)
    OBVIOUS
  <2>4. m = Len(st) - 1 /\ (m = 0 <=> Now(l2) = {})
    BY <1>5, <2>2, <2>3, Zenon
  <2>5. m = 0 <=> Len(st) = 1
    <3>1. Len(st) \in Nat
      BY <1>1, Zenon
    <3> QED
      BY <2>4, <3>1, OneAndNone, Zenon
  <2> QED
    BY <2>4, <2>5
<1> QED
  BY <1>3, <1>4, <1>5, <1>6

\* A location closes, and is stored in the frame around it.
LEMMA AgreeLocationCloses ==
    ASSUME NEW d, NEW lg, NEW st, NEW srv, Agree(d, lg, st, srv), BlocksOk(st),
           NEW n \in Nat \ {0}, Len(st) = n + 1, FrameOk(st[n]),
           NEW s2, Len(s2) = n, \A k \in 1 .. n - 1 : s2[k] = st[k],
           s2[n].block = Storing(st[n], st[n + 1].block).block
    PROVE  \A l2 : Grown(lg, <<"}">>, l2) => Agree(d, l2, s2, srv)
<1>1. LogOk(lg) /\ FramesOk(lg, st) /\ Finished(d, lg, srv)
  BY DEF Agree
<1>2. /\ Len(lg) \in Nat /\ Balanced(lg) /\ Len(st) # 0 /\ Len(st) # 1 /\ Now(lg) # {}
      /\ n \in 1 .. Len(st) /\ n + 1 \in 1 .. Len(st)
  <2>1. Len(lg) \in Nat /\ Balanced(lg) /\ (Now(lg) = {} <=> Len(st) = 0)
    BY <1>1, FramePlace DEF FramesOk
  <2>2. Len(st) # 0 /\ Len(st) # 1 /\ n \in 1 .. Len(st) /\ n + 1 \in 1 .. Len(st)
    OBVIOUS
  <2> QED
    BY <2>1, <2>2
<1>3. PICK ev : ev = <<"}">>
  OBVIOUS
<1>4. SUFFICES ASSUME NEW l2, Grown(lg, ev, l2)
                PROVE  Agree(d, l2, s2, srv)
  BY <1>3
<1>5. /\ LogOk(l2) /\ Longer(lg, l2) /\ Len(l2) = Len(lg) + 1
      /\ Closes(l2, Len(lg) + 1)
      /\ Now(l2) = Now(lg) \ {Newest(Now(lg))} /\ Balanced(l2)
      /\ Depth(l2, Len(l2) + 1) = Len(st) - 1
      /\ Now(l2) # {}
  <2>1. /\ LogOk(l2) /\ Longer(lg, l2) /\ Len(l2) = Len(lg) + 1
        /\ Closes(l2, Len(lg) + 1)
        /\ Now(l2) = Now(lg) \ {Newest(Now(lg))} /\ Balanced(l2)
        /\ Depth(l2, Len(l2) + 1) = Len(st) - 1
        /\ Now(l2) = {} <=> Len(st) = 1
    BY <1>1, <1>2, <1>3, <1>4, ClosingLeaves, Zenon
  <2> QED
    BY <1>2, <2>1, Zenon
<1>6. PICK top, p : top = Newest(Now(lg)) /\ p = Newest(Now(l2))
  OBVIOUS
<1>7. /\ p = Par(lg, top) /\ p \in Now(lg) /\ p \in In(lg, top)
      /\ \A l \in Now(l2) : \A b : l # p /\ Kept(lg, l, b) => Kept(l2, l, b)
      /\ \A f, b : /\ FrameOk(f) /\ BlockOk(b) /\ f.inner = lg[top][2]
                   /\ Kept(lg, p, f.block) /\ Kept(lg, top, b)
                   => Kept(l2, p, Storing(f, b).block)
  <2>1. Now(l2) = Now(lg) \ {top}
    BY <1>5, <1>6
  <2> QED
    BY <1>1, <1>2, <1>5, <1>6, <2>1, KeptClosing
<1>8. /\ top \in Now(lg) /\ Depth(lg, top) + 1 = n + 1 /\ Depth(lg, top) \in Nat
  <2>1. Newest(Now(lg)) \in Now(lg) /\ Depth(lg, Newest(Now(lg))) + 1 = Len(st)
    BY <1>1, <1>2, FramePlace
  <2>2. Depth(lg, Newest(Now(lg))) \in Nat
    BY <1>1, <2>1, FramePlace
  <2> QED
    BY <1>6, <2>1, <2>2
<1>9. Depth(lg, top) = n
  BY <1>8
<1>10. Depth(lg, p) + 1 = n
  <2>1. top \in Int
    <3>1. top \in 1 .. Len(lg)
      BY <1>1, <1>8, FramePlace
    <3> QED
      BY <3>1
  <2>2. In(lg, top) # {}
    BY <1>7
  <2>3. Depth(lg, top) = Depth(lg, Par(lg, top)) + 1
    BY <2>1, <2>2, ParentIs
  <2> QED
    BY <1>7, <1>9, <2>3
<1>11. /\ Kept(lg, top, st[n + 1].block) /\ st[n].inner = lg[top][2]
       /\ Kept(lg, p, st[n].block)
  <2>1. \A l \in Now(lg) :
          /\ Kept(lg, l, st[Depth(lg, l) + 1].block)
          /\ Depth(lg, l) # 0 => st[Depth(lg, l)].inner = lg[l][2]
    BY <1>1 DEF FramesOk
  <2>2. /\ Kept(lg, top, st[Depth(lg, top) + 1].block)
        /\ Depth(lg, top) # 0 => st[Depth(lg, top)].inner = lg[top][2]
    BY <1>8, <2>1, Zenon
  <2>3. Kept(lg, p, st[Depth(lg, p) + 1].block)
    BY <1>7, <2>1, Zenon
  <2>4. n # 0
    OBVIOUS
  <2> QED
    BY <1>9, <1>10, <2>2, <2>3, <2>4, Zenon
<1>12. Kept(l2, p, s2[n].block)
  <2>1. BlockOk(st[n + 1].block)
    BY <1>2 DEF BlocksOk
  <2> QED
    BY <1>7, <1>11, <2>1
<1>13. ASSUME NEW l \in Now(l2)
       PROVE  /\ Kept(l2, l, s2[Depth(l2, l) + 1].block)
              /\ Depth(l2, l) # 0 => s2[Depth(l2, l)].inner = l2[l][2]
  <2>0. l \in Now(lg) /\ l # top
    BY <1>5, <1>6
  <2>1. /\ l \in 1 .. Len(lg) /\ Depth(lg, l) \in Nat
        /\ Depth(lg, l) + 1 \in 1 .. Len(st)
        /\ Depth(lg, l) + 1 # Len(st)
    BY <1>1, <1>6, <2>0, FramePlace
  <2>2. /\ Kept(lg, l, st[Depth(lg, l) + 1].block)
        /\ Depth(lg, l) # 0 => st[Depth(lg, l)].inner = lg[l][2]
    BY <1>1, <2>0 DEF FramesOk
  <2>3. l \in Int /\ l <= Len(lg) + 1
    BY <1>2, <2>1
  <2>4. Depth(l2, l) = Depth(lg, l) /\ l2[l] = lg[l]
    BY <1>5, <2>1, <2>3, SameBlocks DEF Longer
  <2>5. PICK m : m = Depth(lg, l)
    OBVIOUS
  <2>6. m \in Nat /\ m + 1 \in 1 .. n /\ (m # 0 => m \in 1 .. n - 1)
    BY <2>1, <2>5
  <2>7. m # 0 => s2[m].inner = l2[l][2]
    BY <2>2, <2>4, <2>5, <2>6
  <2>8. CASE l = p
    BY <1>10, <1>12, <2>4, <2>5, <2>7, <2>8
  <2>9. CASE l # p
    <3>1. m + 1 # n
      <4>1. l \in In(lg, Len(lg) + 1) /\ p \in In(lg, Len(lg) + 1) /\ l <= p
        <5>1. /\ Newest(Now(l2)) \in Now(l2) /\ \A x \in Now(l2) : x <= Newest(Now(l2))
          <6>1. Len(l2) \in Nat
            BY <1>5 DEF Longer
          <6> QED
            BY <1>5, <6>1, NowIs
        <5> QED
          BY <1>6, <1>7, <2>0, <5>1 DEF Now
      <4>2. Len(lg) + 1 \in Int /\ p \in Int
        <5>1. p \in 1 .. Len(lg)
          BY <1>1, <1>7, FramePlace
        <5> QED
          BY <1>2, <5>1
      <4>3. l < p
        BY <2>3, <2>9, <4>1, <4>2
      <4>4. Depth(lg, l) < Depth(lg, p)
        BY <4>1, <4>2, <4>3, Nested DEF Ar
      <4>5. Depth(lg, p) \in Nat
        BY <4>2, DepthIs
      <4> QED
        BY <1>10, <2>5, <2>6, <4>4, <4>5
    <3>2. m + 1 \in 1 .. n - 1
      BY <2>6, <3>1
    <3>3. s2[m + 1] = st[m + 1]
      BY <3>2
    <3>4. Kept(l2, l, st[m + 1].block)
      BY <1>7, <2>2, <2>5, <2>9
    <3> QED
      BY <2>4, <2>5, <2>7, <3>3, <3>4
  <2> QED
    BY <2>8, <2>9
<1>14. FramesOk(l2, s2)
  <2>1. Depth(l2, Len(l2) + 1) = Len(s2)
    BY <1>5
  <2> QED
    BY <1>5, <1>13, <2>1 DEF FramesOk
<1>15. Finished(d, l2, srv)
  <2>1. ASSUME NEW x \in Now(lg), x \notin Now(l2)
        PROVE  In(lg, x) \cap Now(l2) # {}
    <3>1. x = top
      BY <1>5, <1>6, <2>1
    <3>2. p # top
      BY <1>9, <1>10
    <3>3. p \in Now(l2)
      BY <1>5, <1>6, <1>7, <3>2
    <3> QED
      BY <1>7, <3>1, <3>3
  <2> QED
    BY <1>1, <1>5, <2>1, FinishedInside
<1> QED
  BY <1>5, <1>14, <1>15 DEF Agree

\* A server block closes and is filled.
LEMMA AgreeServerCloses ==
    ASSUME NEW d, NEW lg, NEW st, NEW srv, Agree(d, lg, st, srv), Len(st) = 1,
           NEW t, Outwards(d, st[1].block, t)
    PROVE  \A l2 : Grown(lg, <<"}">>, l2) => Agree(d, l2, <<>>, Append(srv, t))
<1>1. LogOk(lg) /\ FramesOk(lg, st) /\ Finished(d, lg, srv)
  BY DEF Agree
<1>2. PICK ev : ev = <<"}">>
  OBVIOUS
<1>3. SUFFICES ASSUME NEW l2, Grown(lg, ev, l2)
                PROVE  Agree(d, l2, <<>>, Append(srv, t))
  BY <1>2
<1>4. /\ LogOk(l2) /\ Longer(lg, l2) /\ Len(l2) = Len(lg) + 1
      /\ Closes(l2, Len(lg) + 1)
      /\ Now(l2) = Now(lg) \ {Newest(Now(lg))} /\ Balanced(l2)
      /\ Depth(l2, Len(l2) + 1) = 0
      /\ Now(l2) = {}
  <2>1. Len(st) # 0 /\ Len(st) - 1 = 0
    OBVIOUS
  <2>2. /\ LogOk(l2) /\ Longer(lg, l2) /\ Len(l2) = Len(lg) + 1
        /\ Closes(l2, Len(lg) + 1)
        /\ Now(l2) = Now(lg) \ {Newest(Now(lg))} /\ Balanced(l2)
        /\ Depth(l2, Len(l2) + 1) = Len(st) - 1
        /\ Now(l2) = {} <=> Len(st) = 1
    BY <1>1, <1>2, <1>3, <2>1, ClosingLeaves, Zenon
  <2> QED
    BY <2>1, <2>2, Zenon
<1>5. PICK top : top = Newest(Now(lg))
  OBVIOUS
<1>6. Now(lg) = {top} /\ Depth(lg, top) + 1 = 1
  <2>1. Now(lg) # {}
    BY <1>1, FramePlace
  <2>2. Newest(Now(lg)) \in Now(lg) /\ Depth(lg, Newest(Now(lg))) + 1 = 1
    BY <1>1, <2>1, FramePlace
  <2> QED
    BY <1>4, <1>5, <2>2
<1>7. Kept(lg, top, st[1].block)
  BY <1>1, <1>6 DEF FramesOk
<1>8. Finished(d, l2, Append(srv, t))
  BY <1>1, <1>4, <1>6, <1>7, FinishedServer
<1>9. FramesOk(l2, <<>>)
  <2>1. Depth(l2, Len(l2) + 1) = Len(<<>>)
    BY <1>4
  <2> QED
    BY <1>4, <2>1 DEF FramesOk
<1> QED
  BY <1>4, <1>8, <1>9 DEF Agree

---------------------------------------------------------------------------
(* The invariant                                                           *)

SettingsNow ==
    /\ Agree(DefaultBlock, log, stack, servers)
    /\ NoneEmpty(file)
    /\ stack # <<>> => NoneEmpty(Last(stack).args)
    /\ state = "accepted" => stack = <<>>

\* At every point of a configuration file, the frames hold what was read.
SettingsInv == which = "config" /\ ~past => SettingsNow

LEMMA NoneEmptyOfNone == NoneEmpty(<<>>)
<1>1. PICK n : n = Len(<<>>) /\ n = 0
  OBVIOUS
<1>2. 1 .. n = {}
  BY <1>1
<1> QED
  BY <1>1, <1>2, Zenon DEF NoneEmpty

LEMMA AppendIs ==
    ASSUME NEW a \in Seq(Word), NEW w \in Word
    PROVE  /\ Len(a) \in Nat /\ Len(Append(a, w)) = Len(a) + 1
           /\ \A i \in 1 .. Len(a) : Append(a, w)[i] = a[i]
           /\ Append(a, w)[Len(a) + 1] = w
  BY AppendProperties, LenProperties

LEMMA NoneEmptyNext ==
    ASSUME NEW a \in Seq(Word), NoneEmpty(a), NEW w \in Word, w # ""
    PROVE  NoneEmpty(Append(a, w))
<1> DEFINE b == Append(a, w)
<1>1. /\ Len(a) \in Nat /\ Len(b) = Len(a) + 1 /\ b[Len(a) + 1] = w
      /\ \A i \in 1 .. Len(a) : b[i] = a[i]
  BY AppendIs
<1> HIDE DEF b
<1>2. ASSUME NEW i \in 1 .. Len(b)
      PROVE  b[i] # ""
  <2>1. i = Len(a) + 1 \/ i \in 1 .. Len(a)
    <3>1. i \in 1 .. Len(a) + 1
      BY <1>1, Zenon
    <3> QED
      BY <1>1, <3>1, BeforeLast, Zenon
  <2>2. i \in 1 .. Len(a) => a[i] # ""
    BY Zenon DEF NoneEmpty
  <2> QED
    BY <1>1, <2>1, <2>2, Zenon
<1>3. NoneEmpty(b)
  BY <1>2, Zenon DEF NoneEmpty
<1> QED
  BY <1>3 DEF b

\* The stack, as the lemmas on the text take it.
LEMMA StackIs ==
    ASSUME NEW s, StackOk(s)
    PROVE  /\ BlocksOk(s)
           /\ s = <<>> <=> Len(s) = 0
           /\ s # <<>> => /\ Len(s) \in Nat \ {0} /\ Last(s) = s[Len(s)]
                          /\ FrameOk(Last(s))
<1>1. \A k \in 1 .. Len(s) : BlockOk(s[k].block)
  BY FrameIs DEF StackOk
<1>2. PICK S : s \in Seq(S)
  BY DEF StackOk
<1>3. s = <<>> <=> Len(s) = 0
  BY <1>2, EmptySeq, LenProperties
<1> QED
  BY <1>1, <1>3, TopIs DEF BlocksOk

LEMMA SetLast ==
    ASSUME NEW s, StackOk(s), s # <<>>, NEW f
    PROVE  LET t == [s EXCEPT ![Len(s)] = f]
           IN  SameBelow(s, t) /\ t[Len(s)] = f /\ Last(t) = f /\ Len(t) = Len(s)
<1> DEFINE t == [s EXCEPT ![Len(s)] = f]
<1>1. PICK S : s \in Seq(S)
  BY DEF StackOk
<1> DEFINE T == S \cup {f}
<1>2. s \in Seq(T) /\ f \in T
  BY <1>1, SeqMonotonic
<1>3. Len(s) \in Nat \ {0} /\ Len(s) \in 1 .. Len(s)
  BY TopIs
<1>4. /\ t \in Seq(T) /\ Len(t) = Len(s)
      /\ \A j \in 1 .. Len(s) : t[j] = IF j = Len(s) THEN f ELSE s[j]
  <2> HIDE DEF T
  <2> QED
    BY <1>2, <1>3, ExceptSeq
<1> HIDE DEF t, T
<1>5. \A k \in 1 .. Len(s) - 1 : t[k] = s[k]
  BY <1>3, <1>4
<1>6. SameBelow(s, t)
  BY <1>4, <1>5 DEF SameBelow
<1>7. t[Len(s)] = f /\ Last(t) = f
  BY <1>3, <1>4 DEF Last
<1> QED
  BY <1>4, <1>6, <1>7 DEF t

LEMMA SettingsStop ==
    ASSUME SettingsNow, NEW how, Stop(how), how = "accepted" => stack = <<>>
    PROVE  SettingsNow'
  BY DEF SettingsNow, Stop

\* A server block opens.
LEMMA SettingsOpen ==
    ASSUME ParserInv, SettingsNow, Open
    PROVE  SettingsNow'
<1>1. /\ state = "open" /\ state' = "block" /\ stack' = <<Frame("server")>>
      /\ log' = Append(log, <<"server">>) /\ UNCHANGED <<file, servers>>
  BY DEF Open
<1>2. stack = <<>> /\ Len(stack) = 0
  BY <1>1 DEF ParserInv
<1>3. PICK ev : ev = <<"server">>
  OBVIOUS
<1>4. PICK f : f = Frame("server")
  OBVIOUS
<1>5. LogOk(log) /\ FramesOk(log, stack)
  BY DEF SettingsNow, Agree
<1>6. Fits(log, ev) /\ ev[1] = "server" /\ ev \in Events
  <2>1. Now(log) = {}
    BY <1>2, <1>5, FramePlace
  <2>2. PICK w : w = "server" /\ ev = <<w>>
    BY <1>3, Zenon
  <2>3. <<w>>[1] = w
    OBVIOUS
  <2>4. ev[1] = w
    BY <2>2, <2>3, Zenon
  <2>5. ev[1] = "server" /\ ev[1] # "location" /\ ev[1] # "cgi_pass"
    BY <2>2, <2>4
  <2>6. ev \in Events
    BY <1>3, Literals
  <2> QED
    BY <2>1, <2>5, <2>6 DEF Fits
<1>7. f.block = [names \in {<<>>} |-> NewBlock] /\ f.args = <<>>
  BY <1>4 DEF Frame
<1>8. PICK s2 : s2 = <<f>>
  OBVIOUS
<1>9. Pushed(stack, f, s2) /\ Last(s2) = f
  BY <1>2, <1>8 DEF Pushed, Last
<1>10. Grown(log, ev, log')
  BY <1>1, <1>3, <1>5, <1>6, GrownIs
<1>11. Agree(DefaultBlock, log', s2, servers)
  <2>1. Agree(DefaultBlock, log, stack, servers)
    BY DEF SettingsNow
  <2>2. ev[1] \in {"server", "location"}
    BY <1>6
  <2> QED
    BY <1>2, <1>6, <1>7, <1>9, <1>10, <2>1, <2>2, AgreeOpening
<1>12. stack' = s2
  BY <1>1, <1>4, <1>8
<1>13. NoneEmpty(Last(s2).args)
  BY <1>7, <1>9, NoneEmptyOfNone
<1> QED
  BY <1>1, <1>11, <1>12, <1>13 DEF SettingsNow

\* The innermost frame is changed by the call that is waiting.
LEMMA SettingsCalled ==
    ASSUME ParserInv, SettingsNow, state = "block", CanCall(Top)
    PROVE  /\ FrameOk(Top) /\ Top = Last(stack) /\ stack # <<>> /\ StackOk(stack)
           /\ FrameOk(Called(Top)) /\ Called(Top).dir = NoWord
           /\ Called(Top).kind = Top.kind
           /\ \A g : g.block = Called(Top).block =>
                Agree(DefaultBlock, log \o Pending(Top), SetTop(g), servers)
<1>1. StackOk(stack) /\ stack # <<>>
  BY DEF ParserInv
<1>2. FrameOk(Top) /\ Top = Last(stack)
  BY <1>1, TopIs DEF Top
<1>3. /\ BlocksOk(stack) /\ Len(stack) # 0 /\ stack[Len(stack)] = Top
      /\ Len(stack) \in Nat
  BY <1>1, <1>2, StackIs
<1>4. /\ Agree(DefaultBlock, log, stack, servers) /\ NoneEmpty(Top.args)
  BY <1>1, <1>2 DEF SettingsNow
<1>5. ASSUME NEW g, g.block = Called(Top).block
      PROVE  Agree(DefaultBlock, log \o Pending(Top), SetTop(g), servers)
  <2>1. SameBelow(stack, SetTop(g)) /\ SetTop(g)[Len(stack)] = g
    BY <1>1, SetLast DEF SetTop
  <2>2. stack[Len(stack)].block = Top.block /\ SetTop(g)[Len(stack)].block = Called(Top).block
    BY <1>3, <1>5, <2>1
  <2> QED
    BY <1>2, <1>3, <1>4, <2>1, <2>2, AgreeCalled
<1> QED
  BY <1>1, <1>2, <1>5, CalledOk

\* A directive's word, or a location's.
LEMMA SettingsDirective ==
    ASSUME ParserInv, SettingsNow, DirectiveWord
    PROVE  SettingsNow'
<1>1. /\ InBlock /\ Kind(file[at]) = "directive" /\ CanCall(Top)
      /\ stack' = SetTop([Called(Top) EXCEPT !.dir = file[at]])
      /\ log' = log \o Pending(Top)
      /\ UNCHANGED <<file, servers, state>>
  BY DEF DirectiveWord
<1>2. state = "block"
  BY <1>1 DEF InBlock
<1>3. /\ FrameOk(Called(Top)) /\ Called(Top).dir = NoWord
      /\ stack # <<>> /\ StackOk(stack)
      /\ \A g : g.block = Called(Top).block =>
           Agree(DefaultBlock, log \o Pending(Top), SetTop(g), servers)
  BY <1>1, <1>2, SettingsCalled
<1>4. PICK f : f = Called(Top)
  OBVIOUS
<1>5. PICK w : w = file[at]
  OBVIOUS
<1>6. PICK g : g = [f EXCEPT !.dir = w]
  OBVIOUS
<1>7. g.block = f.block /\ g.args = <<>>
  <2>1. PICK B : f \in Frames(B)
    BY <1>3, <1>4 DEF FrameOk
  <2>2. f.args = <<>>
    BY <1>3, <1>4 DEF FrameOk
  <2> QED
    BY <1>6, <2>1, <2>2 DEF Frames
<1>8. stack' = SetTop(g)
  BY <1>1, <1>4, <1>5, <1>6, Zenon
<1>9. Agree(DefaultBlock, log', stack', servers)
  BY <1>1, <1>3, <1>4, <1>7, <1>8
<1>10. Last(stack') = g
  BY <1>3, <1>8, SetLast DEF SetTop
<1> QED
  BY <1>1, <1>2, <1>7, <1>9, <1>10, NoneEmptyOfNone DEF SettingsNow

LEMMA SettingsLocation ==
    ASSUME ParserInv, SettingsNow, LocationWord
    PROVE  SettingsNow'
<1>1. /\ InBlock /\ CanCall(Top) /\ stack' = SetTop(Called(Top))
      /\ log' = log \o Pending(Top) /\ state' = "name"
      /\ UNCHANGED <<file, servers>>
  BY DEF LocationWord
<1>2. state = "block"
  BY <1>1 DEF InBlock
<1>3. /\ FrameOk(Called(Top)) /\ Called(Top).dir = NoWord
      /\ stack # <<>> /\ StackOk(stack)
      /\ \A g : g.block = Called(Top).block =>
           Agree(DefaultBlock, log \o Pending(Top), SetTop(g), servers)
  BY <1>1, <1>2, SettingsCalled
<1>4. PICK f : f = Called(Top)
  OBVIOUS
<1>5. f.args = <<>>
  BY <1>3, <1>4 DEF FrameOk
<1>6. Agree(DefaultBlock, log', stack', servers)
  BY <1>1, <1>3
<1>7. Last(stack') = f
  BY <1>1, <1>3, <1>4, SetLast DEF SetTop
<1> QED
  BY <1>1, <1>5, <1>6, <1>7, NoneEmptyOfNone DEF SettingsNow

\* An argument, or the name of the location to come.
LEMMA SettingsTop ==
    ASSUME ParserInv, SettingsNow, stack # <<>>, NEW g,
           g.block = Top.block, NoneEmpty(g.args), stack' = SetTop(g),
           UNCHANGED <<file, servers, log>>, state' # "accepted"
    PROVE  SettingsNow'
<1>1. StackOk(stack)
  BY DEF ParserInv
<1>2. /\ SameBelow(stack, SetTop(g)) /\ SetTop(g)[Len(stack)] = g /\ Last(SetTop(g)) = g
      /\ Len(SetTop(g)) = Len(stack)
  BY <1>1, SetLast DEF SetTop
<1>3. Len(stack) \in Nat \ {0} /\ Top = stack[Len(stack)]
  BY <1>1, TopIs DEF Top
<1>4. PICK s2 : s2 = SetTop(g)
  OBVIOUS
<1>5. ASSUME NEW k \in 1 .. Len(stack)
      PROVE  s2[k].block = stack[k].block
  <2>1. k = Len(stack) \/ k \in 1 .. Len(stack) - 1
    BY <1>3, BelowOr
  <2> QED
    BY <1>2, <1>3, <1>4, <2>1 DEF SameBelow
<1>6. Len(s2) = Len(stack) /\ \A k \in 1 .. Len(stack) - 1 : s2[k].inner = stack[k].inner
  BY <1>2, <1>4 DEF SameBelow
<1>7. Agree(DefaultBlock, log, stack, servers)
  BY DEF SettingsNow
<1>8. Agree(DefaultBlock, log, s2, servers)
  BY <1>5, <1>6, <1>7, AgreeAlike
<1> QED
  BY <1>2, <1>4, <1>8 DEF SettingsNow

LEMMA SettingsArgument ==
    ASSUME ParserInv, SettingsNow, which = "config", ArgumentWord
    PROVE  SettingsNow'
<1>1. /\ InBlock /\ stack' = SetTop([Top EXCEPT !.args = Append(@, file[at])])
      /\ UNCHANGED <<file, servers, state, log>>
  BY DEF ArgumentWord
<1>2. /\ state = "block" /\ InFile /\ file[at] \in Word /\ FrameOk(Top) /\ stack # <<>>
  BY <1>1, WordHere
<1>3. file[at] # ""
  <2>1. at \in 1 .. Len(file)
    <3>1. at \in Nat /\ at >= 1 /\ Len(file) \in Nat
      BY LenProperties DEF ParserInv, Start
    <3> QED
      BY <1>2, <3>1 DEF InFile
  <2>2. NoneEmpty(file)
    BY DEF SettingsNow
  <2> QED
    BY <2>1, <2>2, Zenon DEF NoneEmpty
<1>4. PICK w : w = file[at]
  OBVIOUS
<1>5. PICK f : f = Top
  OBVIOUS
<1>6. PICK g : g = [f EXCEPT !.args = Append(f.args, w)]
  OBVIOUS
<1>7. g.block = f.block /\ g.args = Append(f.args, w)
  <2>1. PICK B : f \in Frames(B)
    BY <1>2, <1>5 DEF FrameOk
  <2> QED
    BY <1>6, <2>1 DEF Frames
<1>8. stack' = SetTop(g)
  BY <1>1, <1>4, <1>5, <1>6, Zenon
<1>9. NoneEmpty(g.args)
  <2>1. NoneEmpty(f.args)
    BY <1>2, <1>5 DEF SettingsNow, Top
  <2>2. f.args \in Seq(Word)
    BY <1>2, <1>5, FrameIs
  <2> QED
    BY <1>2, <1>3, <1>4, <1>7, <2>1, <2>2, NoneEmptyNext
<1>10. g.block = Top.block
  BY <1>5, <1>7
<1> QED
  BY <1>1, <1>2, <1>8, <1>9, <1>10, SettingsTop

LEMMA SettingsName ==
    ASSUME ParserInv, SettingsNow, LocationName
    PROVE  SettingsNow'
<1>1. PICK w \in Words \ {"{", "}"} : stack' = SetTop([Top EXCEPT !.inner = w])
  BY DEF LocationName
<1>2. state = "name" /\ state' = "brace" /\ UNCHANGED <<file, servers, log>>
  BY DEF LocationName
<1>3. stack # <<>> /\ StackOk(stack) /\ Last(stack).dir = NoWord
  BY <1>2 DEF ParserInv
<1>4. FrameOk(Top) /\ Top = Last(stack)
  BY <1>3, TopIs DEF Top
<1>5. PICK f : f = Top
  OBVIOUS
<1>6. PICK g : g = [f EXCEPT !.inner = w]
  OBVIOUS
<1>7. g.block = f.block /\ g.args = <<>>
  <2>1. PICK B : f \in Frames(B)
    BY <1>4, <1>5 DEF FrameOk
  <2>2. f.args = <<>>
    BY <1>3, <1>4, <1>5 DEF FrameOk
  <2> QED
    BY <1>6, <2>1, <2>2 DEF Frames
<1>8. stack' = SetTop(g)
  BY <1>1, <1>5, <1>6, Zenon
<1>9. g.block = Top.block /\ NoneEmpty(g.args)
  BY <1>5, <1>7, NoneEmptyOfNone
<1> QED
  BY <1>2, <1>3, <1>8, <1>9, SettingsTop

\* A location opens.
LEMMA SettingsLocationOpens ==
    ASSUME ParserInv, SettingsNow, LocationOpens
    PROVE  SettingsNow'
<1>1. /\ state = "brace" /\ state' = "block"
      /\ stack' = Append(stack, Frame("location"))
      /\ log' = Append(log, <<"location", Top.inner>>) /\ UNCHANGED <<file, servers>>
  BY DEF LocationOpens
<1>2. stack # <<>> /\ StackOk(stack)
  BY <1>1 DEF ParserInv
<1>3. /\ FrameOk(Top) /\ Top = stack[Len(stack)] /\ Len(stack) \in Nat \ {0}
      /\ Top.inner \in Word
  BY <1>2, TopIs, FrameIs DEF Top
<1>4. PICK x : x = Top.inner
  OBVIOUS
<1>5. PICK ev : ev = <<"location", x>>
  OBVIOUS
<1>6. PICK f : f = Frame("location")
  OBVIOUS
<1>7. LogOk(log) /\ FramesOk(log, stack)
  BY DEF SettingsNow, Agree
<1>8. Fits(log, ev) /\ ev[1] = "location" /\ ev[2] = x /\ ev \in Events
  <2>1. Now(log) # {}
    BY <1>3, <1>7, FramePlace
  <2>2. PICK w : w = "location" /\ ev = <<w, x>>
    BY <1>5, Zenon
  <2>3. <<w, x>>[1] = w /\ <<w, x>>[2] = x /\ Len(<<w, x>>) = 2
    OBVIOUS
  <2>4. ev[1] = w /\ ev[2] = x /\ Len(ev) = 2
    BY <2>2, <2>3, Zenon
  <2>5. ev[1] = "location" /\ ev[1] # "server" /\ ev[1] # "cgi_pass"
    BY <2>2, <2>4
  <2>6. ev \in Events
    BY <1>3, <1>4, <1>5, Literals
  <2> QED
    BY <2>1, <2>4, <2>5, <2>6 DEF Fits
<1>9. f.block = [names \in {<<>>} |-> NewBlock] /\ f.args = <<>>
  BY <1>6 DEF Frame
<1>10. PICK s2 : s2 = Append(stack, f)
  OBVIOUS
<1>11. Pushed(stack, f, s2) /\ Last(s2) = f
  <2>1. PICK S : stack \in Seq(S)
    BY <1>2 DEF StackOk
  <2>2. stack \in Seq(S \cup {f}) /\ f \in S \cup {f}
    BY <2>1, SeqMonotonic
  <2>3. /\ Len(s2) = Len(stack) + 1 /\ s2[Len(stack) + 1] = f
        /\ \A k \in 1 .. Len(stack) : s2[k] = stack[k]
    BY <1>10, <2>2, AppendProperties
  <2> QED
    BY <2>3 DEF Pushed, Last
<1>12. Grown(log, ev, log')
  BY <1>1, <1>4, <1>5, <1>7, <1>8, GrownIs
<1>13. Agree(DefaultBlock, log', s2, servers)
  <2>1. Agree(DefaultBlock, log, stack, servers)
    BY DEF SettingsNow
  <2>2. ev[1] \in {"server", "location"} /\ stack[Len(stack)].inner = ev[2]
    BY <1>3, <1>4, <1>8
  <2> QED
    BY <1>8, <1>9, <1>11, <1>12, <2>1, <2>2, AgreeOpening
<1>14. stack' = s2
  BY <1>1, <1>6, <1>10
<1>15. NoneEmpty(Last(s2).args)
  BY <1>9, <1>11, NoneEmptyOfNone
<1> QED
  BY <1>1, <1>13, <1>14, <1>15 DEF SettingsNow

\* Before either kind of block closes.
LEMMA SettingsClosing ==
    ASSUME ParserInv, SettingsNow, NEW kind, Closing(kind)
    PROVE  /\ Agree(DefaultBlock, log \o Pending(Top), SetTop(Called(Top)), servers)
           /\ Grown(log \o Pending(Top), <<"}">>, log')
           /\ FrameOk(Called(Top)) /\ Called(Top).dir = NoWord
           /\ StackOk(SetTop(Called(Top))) /\ Len(SetTop(Called(Top))) = Len(stack)
           /\ Last(SetTop(Called(Top))) = Called(Top)
           /\ SetTop(Called(Top))[Len(stack)] = Called(Top)
           /\ \A k \in 1 .. Len(stack) - 1 : SetTop(Called(Top))[k] = stack[k]
           /\ Top.kind = kind /\ stack # <<>> /\ StackOk(stack)
<1>1. /\ state = "block" /\ CanCall(Top) /\ Top.kind = kind
      /\ log' = (log \o Pending(Top)) \o <<<<"}">>>>
  BY DEF Closing
<1>2. /\ FrameOk(Called(Top)) /\ Called(Top).dir = NoWord /\ Called(Top).kind = Top.kind
      /\ stack # <<>> /\ StackOk(stack) /\ FrameOk(Top) /\ Top = Last(stack)
      /\ Agree(DefaultBlock, log \o Pending(Top), SetTop(Called(Top)), servers)
  BY <1>1, SettingsCalled
<1>3. PICK f : f = Called(Top)
  OBVIOUS
<1>4. PICK l : l = log \o Pending(Top)
  OBVIOUS
<1>5. LogOk(l) /\ l \in Seq(Events)
  BY <1>2, <1>4 DEF Agree, LogOk
<1>6. Grown(l, <<"}">>, log')
  <2>1. PICK e : e = <<"}">> /\ e \in Events
    BY Literals
  <2>2. log' = l \o <<e>>
    BY <1>1, <1>4, <2>1, Zenon
  <2>3. log' = Append(l, e)
    BY <1>5, <2>1, <2>2, AppendIsConcat
  <2> QED
    BY <1>5, <2>1, <2>3, GrownIs
<1>7. /\ StackOk(SetTop(f)) /\ Len(SetTop(f)) = Len(stack) /\ Last(SetTop(f)) = f
  BY <1>2, <1>3, StackSet DEF SetTop
<1>8. SetTop(f)[Len(stack)] = f
  BY <1>2, SetLast DEF SetTop
<1>9. ASSUME NEW k \in 1 .. Len(stack) - 1
      PROVE  SetTop(f)[k] = stack[k]
  <2>1. PICK S : stack \in Seq(S)
    BY <1>2 DEF StackOk
  <2>2. k \in DOMAIN stack /\ k # Len(stack)
    BY <1>2, TopIs
  <2> QED
    BY <2>2 DEF SetTop
<1> QED
  BY <1>1, <1>2, <1>3, <1>4, <1>6, <1>7, <1>8, <1>9

LEMMA SettingsServerCloses ==
    ASSUME ParserInv, SettingsNow, which = "config", ServerCloses
    PROVE  SettingsNow'
<1>1. /\ Closing("server") /\ servers' = Append(servers, Filled(Called(Top).block))
      /\ stack' = <<>> /\ UNCHANGED file
  BY DEF ServerCloses
<1>2. /\ Agree(DefaultBlock, log \o Pending(Top), SetTop(Called(Top)), servers)
      /\ Grown(log \o Pending(Top), <<"}">>, log')
      /\ FrameOk(Called(Top)) /\ StackOk(SetTop(Called(Top)))
      /\ Len(SetTop(Called(Top))) = Len(stack)
      /\ SetTop(Called(Top))[Len(stack)] = Called(Top)
      /\ Top.kind = "server" /\ stack # <<>> /\ StackOk(stack)
  BY <1>1, SettingsClosing
<1>3. Len(stack) = 1
  BY <1>2, TopIs DEF Top
<1>4. PICK b : b = Called(Top).block
  OBVIOUS
<1>5. BlockOk(b)
  BY <1>2, <1>4, FrameIs
<1>6. PICK t : t = Filled(b)
  OBVIOUS
<1>7. Outwards(DefaultBlock, b, t)
  <2>1. Outwards(Given, b, Filled(b))
    BY <1>5, FilledSays
  <2>2. Given = DefaultBlock
    BY DEF Given
  <2> QED
    BY <1>6, <2>1, <2>2, Zenon
<1>8. servers' = Append(servers, t)
  BY <1>1, <1>4, <1>6, Zenon
<1>9. PICK st, l : st = SetTop(Called(Top)) /\ l = log \o Pending(Top)
  OBVIOUS
<1>10. /\ Agree(DefaultBlock, l, st, servers) /\ Grown(l, <<"}">>, log')
       /\ Len(st) = 1 /\ st[1].block = b
  BY <1>2, <1>3, <1>4, <1>9
<1>11. \A l2 : Grown(l, <<"}">>, l2) => Agree(DefaultBlock, l2, <<>>, Append(servers, t))
  BY <1>7, <1>10, AgreeServerCloses
<1>12. Agree(DefaultBlock, log', <<>>, servers')
  BY <1>8, <1>10, <1>11
<1> QED
  BY <1>1, <1>12 DEF SettingsNow

LEMMA SettingsLocationCloses ==
    ASSUME ParserInv, SettingsNow, LocationCloses
    PROVE  SettingsNow'
<1> DEFINE outer == stack[Len(stack) - 1]
           b == Called(Top).block
           f == Storing(outer, b)
<1>1. /\ Closing("location") /\ stack' = Append(SubSeq(stack, 1, Len(stack) - 2), f)
      /\ UNCHANGED <<file, servers, state>>
  BY DEF LocationCloses
<1>2. /\ Agree(DefaultBlock, log \o Pending(Top), SetTop(Called(Top)), servers)
      /\ Grown(log \o Pending(Top), <<"}">>, log')
      /\ FrameOk(Called(Top)) /\ StackOk(SetTop(Called(Top)))
      /\ Len(SetTop(Called(Top))) = Len(stack)
      /\ SetTop(Called(Top))[Len(stack)] = Called(Top)
      /\ \A k \in 1 .. Len(stack) - 1 : SetTop(Called(Top))[k] = stack[k]
      /\ Top.kind = "location" /\ stack # <<>> /\ StackOk(stack)
  BY <1>1, SettingsClosing
<1>3. /\ Len(stack) - 1 \in Nat \ {0} /\ FrameOk(outer) /\ outer.dir = NoWord
      /\ \A g : FrameOk(g) /\ g.kind = outer.kind =>
            LET t == Append(SubSeq(stack, 1, Len(stack) - 2), g)
            IN  StackOk(t) /\ t # <<>> /\ Last(t) = g /\ Len(t) = Len(stack) - 1
  BY <1>2, StackPop DEF Top
<1>4. BlockOk(b) /\ Len(stack) \in Nat
  BY <1>2, FrameIs, TopIs
<1>5. state = "block"
  BY <1>1 DEF Closing
<1> HIDE DEF outer, b
<1>6. FrameOk(f) /\ f.dir = NoWord /\ f.kind = outer.kind
  BY <1>3, <1>4, StoringOk
<1>7. f.args = <<>>
  BY <1>6 DEF FrameOk
<1> HIDE DEF f
<1>8. stack' # <<>> /\ Last(stack') = f /\ Len(stack') = Len(stack) - 1 /\ StackOk(stack')
  BY <1>1, <1>3, <1>6
<1>9. PICK n : n = Len(stack) - 1
  OBVIOUS
<1>10. n \in Nat \ {0} /\ Len(stack) = n + 1 /\ Len(stack') = n
  BY <1>3, <1>4, <1>8, <1>9
<1>11. \A k \in 1 .. n - 1 : stack'[k] = stack[k]
  <2>1. PICK S : stack \in Seq(S)
    BY <1>2 DEF StackOk
  <2>2. PICK u : u = SubSeq(stack, 1, Len(stack) - 2)
    OBVIOUS
  <2>3. Len(stack) - 2 = n - 1 /\ n - 1 \in Nat /\ n - 1 <= Len(stack) /\ 1 - 1 <= n - 1
    BY <1>10
  <2>4. u = SubSeq(stack, 1, n - 1)
    BY <2>2, <2>3, Zenon
  <2>5. /\ u \in Seq(S) /\ Len(u) = n - 1
        /\ \A k \in 1 .. n - 1 : u[k] = stack[k]
    <3>1. \A i \in 1 .. n - 1 : i \in 1 .. Len(stack)
      BY <1>10
    <3>2. \A i \in 1 .. n - 1 : stack[i] \in S
      BY <2>1, <3>1, ElementOfSeq
    <3>3. /\ SubSeq(stack, 1, n - 1) \in Seq(S) /\ Len(SubSeq(stack, 1, n - 1)) = n - 1
          /\ \A k \in 1 .. n - 1 : SubSeq(stack, 1, n - 1)[k] = stack[k]
      BY <1>10, <2>1, <3>2
    <3> QED
      BY <2>4, <3>3, Zenon
  <2>6. u \in Seq(S \cup {f}) /\ f \in S \cup {f}
    BY <2>5, SeqMonotonic
  <2>7. \A k \in 1 .. Len(u) : Append(u, f)[k] = u[k]
    BY <2>6, AppendProperties
  <2>8. stack' = Append(u, f)
    BY <1>1, <2>2
  <2> QED
    BY <2>5, <2>7, <2>8
<1>12. stack'[n] = f
  BY <1>8, <1>10 DEF Last
<1>13. PICK st, l, s2 : st = SetTop(Called(Top)) /\ l = log \o Pending(Top) /\ s2 = stack'
  OBVIOUS
<1>14. /\ Agree(DefaultBlock, l, st, servers) /\ Grown(l, <<"}">>, log')
       /\ Len(st) = n + 1 /\ st[n + 1].block = b /\ BlocksOk(st)
       /\ \A k \in 1 .. n : st[k] = stack[k]
  <2>1. BlocksOk(st)
    BY <1>2, <1>13, StackIs
  <2>2. Len(stack) - 1 = n
    BY <1>10
  <2> QED
    BY <1>2, <1>10, <1>13, <2>1, <2>2 DEF b
<1>15. st[n] = outer /\ FrameOk(st[n]) /\ n \in 1 .. n
  <2>1. n \in 1 .. n
    BY <1>10
  <2>2. st[n] = stack[n]
    BY <1>14, <2>1
  <2>3. stack[n] = outer
    BY <1>9 DEF outer
  <2> QED
    BY <1>3, <2>1, <2>2, <2>3
<1>16. s2[n].block = Storing(st[n], st[n + 1].block).block
  BY <1>12, <1>13, <1>14, <1>15 DEF f
<1>17. Len(s2) = n /\ \A k \in 1 .. n - 1 : s2[k] = st[k]
  <2>1. \A k \in 1 .. n - 1 : k \in 1 .. n
    BY <1>10
  <2> QED
    BY <1>10, <1>11, <1>13, <1>14, <2>1
<1>18. \A l2 : Grown(l, <<"}">>, l2) => Agree(DefaultBlock, l2, s2, servers)
  BY <1>10, <1>14, <1>15, <1>16, <1>17, AgreeLocationCloses
<1>19. Agree(DefaultBlock, log', stack', servers)
  BY <1>13, <1>14, <1>18
<1> QED
  BY <1>1, <1>5, <1>7, <1>8, <1>19, NoneEmptyOfNone DEF SettingsNow

---------------------------------------------------------------------------
(* The property                                                            *)

LEMMA SettingsInit == ParserInit => SettingsInv
<1> SUFFICES ASSUME ParserInit, which = "config"
             PROVE  SettingsNow
  BY DEF SettingsInv
<1>1. file \in Files /\ stack = <<>> /\ servers = <<>> /\ log = <<>> /\ state = "top"
  BY DEF ParserInit
<1>2. Agree(DefaultBlock, log, stack, servers)
  BY <1>1, AgreeAtFirst
<1>3. NoneEmpty(file)
  <2>1. file \in Seq(STRING) /\ \A k \in DOMAIN file : file[k] # ""
    BY <1>1, ConfigParserAssumption
  <2>2. DOMAIN file = 1 .. Len(file)
    BY <2>1, LenProperties
  <2> QED
    BY <2>1, <2>2 DEF NoneEmpty
<1> QED
  BY <1>1, <1>2, <1>3 DEF SettingsNow

LEMMA SettingsSteps ==
    ASSUME ParserInv, SettingsNow, which = "config", ParserNext
    PROVE  SettingsNow'
<1>1. CASE TopServer
  BY <1>1 DEF TopServer, SettingsNow
<1>2. CASE TopEnd
  <2>1. stack = <<>> /\ Stop("accepted")
    BY <1>2 DEF TopEnd, ParserInv
  <2> QED
    BY <2>1, SettingsStop
<1>3. CASE TopOther \/ OpenOther \/ StrayWord \/ CallThrows \/ NoName \/ NoBrace \/ Unclosed
  <2>1. Stop("rejected")
    BY <1>3 DEF TopOther, OpenOther, StrayWord, CallThrows, NoName, NoBrace, Unclosed
  <2> QED
    BY <2>1, SettingsStop
<1>4. CASE Crash
  <2>1. Stop("crashed")
    BY <1>4 DEF Crash
  <2> QED
    BY <2>1, SettingsStop
<1>5. CASE Open
  BY <1>5, SettingsOpen
<1>6. CASE DirectiveWord
  BY <1>6, SettingsDirective
<1>7. CASE ArgumentWord
  BY <1>7, SettingsArgument
<1>8. CASE LocationWord
  BY <1>8, SettingsLocation
<1>9. CASE LocationName
  BY <1>9, SettingsName
<1>10. CASE LocationOpens
  BY <1>10, SettingsLocationOpens
<1>11. CASE ServerCloses
  BY <1>11, SettingsServerCloses
<1>12. CASE LocationCloses
  BY <1>12, SettingsLocationCloses
<1> QED
  BY <1>1, <1>2, <1>3, <1>4, <1>5, <1>6, <1>7, <1>8, <1>9, <1>10, <1>11, <1>12 DEF ParserNext

\* The end of the file, once passed, stays passed, and it stays the same file.
LEMMA PastStays ==
    ASSUME ParserInv, [ParserNext]_parserVars
    PROVE  which' = which /\ (past => past')
<1>1. CASE UNCHANGED parserVars
  BY <1>1 DEF parserVars
<1>2. CASE ParserNext
  <2>1. (\E w : Takes(w)) \/ Stops
    BY <1>2, EveryStep DEF Step
  <2>2. CASE Stops
    BY <2>2 DEF Stops, Looked
  <2>3. ASSUME NEW w, Takes(w)
        PROVE  which' = which /\ (past => past')
    <3>1. Reads(w) /\ which' = which
      BY <2>3 DEF Takes
    <3> QED
      BY <3>1, ReadsIs
  <2> QED
    BY <2>1, <2>2, <2>3
<1> QED
  BY <1>1, <1>2

LEMMA SettingsStep == ParserInv /\ SettingsInv /\ [ParserNext]_parserVars => SettingsInv'
<1> SUFFICES ASSUME ParserInv, SettingsInv, [ParserNext]_parserVars,
                    which' = "config", ~past'
             PROVE  SettingsNow'
  BY DEF SettingsInv
<1>1. which = "config" /\ SettingsNow
  BY PastStays DEF SettingsInv
<1>2. CASE UNCHANGED parserVars
  BY <1>1, <1>2 DEF parserVars, SettingsNow
<1>3. CASE ParserNext
  BY <1>1, <1>3, SettingsSteps
<1> QED
  BY <1>2, <1>3

\* The definitions of the property are those of the lemmas, of the log.
LEMMA TextIs ==
    ASSUME log \in Seq(Events)
    PROVE  /\ \A o : IsOpening(o) <=> Opens(log, o)
           /\ \A o : Stands(o) <=> StandsIn(log, o)
           /\ \A o, dir : Stated(o, dir) = StatedIn(log, o, dir)
           /\ \A o, dir : Nearest(o, dir) = NearestIn(log, o, dir)
           /\ \A o : Parsed(o) = servers[ServerOf(log, o)][NamesIn(log, o)]
<1>1. \A o : IsOpening(o) <=> Opens(log, o)
  BY DEF IsOpening, Opens
<1>2. \A e : Inside(e) = In(log, e)
  BY DEF Inside, In, IsOpening, Openings, Closings, Opens, Closes
<1>3. \A e : Parent(e) = Par(log, e) /\ Around(e) = Ar(log, e)
  BY <1>2 DEF Parent, Par, Around, Ar
<1>4. \A o : Stands(o) <=> StandsIn(log, o)
  BY <1>3 DEF Stands, StandsIn
<1>5. ASSUME NEW o, NEW dir
      PROVE  Stated(o, dir) = StatedIn(log, o, dir)
  <2>1. DOMAIN log = 1 .. Len(log)
    BY LenProperties
  <2>2. {e \in DOMAIN log : log[e][1] = dir /\ Parent(e) = o} = Stating(log, o, dir)
    BY <1>3, <2>1 DEF Stating
  <2> QED
    BY <2>2, Zenon DEF Stated, StatedIn
<1>6. ASSUME NEW o, NEW dir
      PROVE  Nearest(o, dir) = NearestIn(log, o, dir)
  <2>1. {l \in Around(o) : Stated(l, dir) # <<>>} = Near(log, o, dir)
    BY <1>3, <1>5 DEF Near
  <2> QED
    BY <1>5, <2>1, Zenon DEF Nearest, NearestIn
<1>7. ASSUME NEW o
      PROVE  Parsed(o) = servers[ServerOf(log, o)][NamesIn(log, o)]
  <2>1. \A depth : {l \in Around(o) : Cardinality(Inside(l)) = depth}
                     = {l \in Ar(log, o) : Depth(log, l) = depth}
    BY <1>2, <1>3 DEF Depth
  <2>2. Cardinality(Inside(o)) = Depth(log, o)
    BY <1>2 DEF Depth
  <2>3. Names(o) = NamesIn(log, o)
    BY <2>1, <2>2 DEF Names, NamesIn
  <2>4. Cardinality({x \in 1 .. o : log[x][1] = "server"}) = ServerOf(log, o)
    BY DEF ServerOf, ServersTo
  <2> QED
    BY <2>3, <2>4, Zenon DEF Parsed
<1> QED
  BY <1>1, <1>4, <1>5, <1>6, <1>7

LEMMA SettingsHold == ParserInv /\ SettingsInv => SettingsFollowText
<1> SUFFICES ASSUME ParserInv, SettingsInv,
                    state = "accepted", which = "config", ~past,
                    NEW o \in DOMAIN log, IsOpening(o), Stands(o)
             PROVE  /\ Parsed(o).root =
                         IF Nearest(o, "root") # <<>> THEN Nearest(o, "root")
                         ELSE DefaultBlock.root
                    /\ Parsed(o).methods =
                         IF Nearest(o, "allow_methods") # <<>>
                         THEN ToSet(Nearest(o, "allow_methods")) ELSE DefaultBlock.methods
                    /\ Parsed(o).cgi =
                         IF Nearest(o, "cgi_pass") # <<>> THEN Nearest(o, "cgi_pass")[1]
                         ELSE DefaultBlock.cgi
                    /\ Parsed(o).auto <=> Stated(o, "autoindex") = <<"on">>
  BY DEF SettingsFollowText
<1>1. stack = <<>> /\ Agree(DefaultBlock, log, stack, servers) /\ log \in Seq(Events)
  BY DEF SettingsInv, SettingsNow, ParserInv
<1>2. o \in 1 .. Len(log)
  BY <1>1, LenProperties
<1>3. /\ Opens(log, o) /\ StandsIn(log, o)
      /\ \A dir : Stated(o, dir) = StatedIn(log, o, dir)
      /\ \A dir : Nearest(o, dir) = NearestIn(log, o, dir)
      /\ Parsed(o) = servers[ServerOf(log, o)][NamesIn(log, o)]
  BY <1>1, TextIs
<1>4. Now(log) = {}
  <2>1. LogOk(log) /\ FramesOk(log, stack) /\ Len(stack) = 0
    BY <1>1 DEF Agree
  <2> QED
    BY <2>1, FramePlace
<1>5. PICK b : b = Parsed(o)
  OBVIOUS
<1>6. Done(DefaultBlock, b, log, o)
  <2>1. Ar(log, o) \cap Now(log) = {}
    BY <1>4
  <2>2. Finished(DefaultBlock, log, servers)
    BY <1>1 DEF Agree
  <2>3. Done(DefaultBlock, servers[ServerOf(log, o)][NamesIn(log, o)], log, o)
    BY <1>2, <1>3, <2>1, <2>2 DEF Finished
  <2> QED
    BY <1>3, <1>5, <2>3
<1>7. \A x \in Taken : b[x] = IF Nearest(o, DirOf(x)) # <<>>
                              THEN Value(x, Nearest(o, DirOf(x))) ELSE DefaultBlock[x]
  BY <1>3, <1>6 DEF Done
<1>8. b.auto <=> Stated(o, "autoindex") = <<"on">>
  BY <1>3, <1>6 DEF Done
<1>9. /\ "root" \in Taken /\ "methods" \in Taken /\ "cgi" \in Taken
      /\ DirOf("root") = "root" /\ DirOf("methods") = "allow_methods"
      /\ DirOf("cgi") = "cgi_pass"
      /\ \A a : /\ Value("root", a) = a /\ Value("methods", a) = ToSet(a)
                /\ a # <<>> => Value("cgi", a) = a[1]
  BY DEF Taken, DirOf, Value
<1>10. b.root = IF Nearest(o, "root") # <<>> THEN Nearest(o, "root") ELSE DefaultBlock.root
  BY <1>7, <1>9
<1>11. b.methods = IF Nearest(o, "allow_methods") # <<>>
                   THEN ToSet(Nearest(o, "allow_methods")) ELSE DefaultBlock.methods
  BY <1>7, <1>9
<1>12. b.cgi = IF Nearest(o, "cgi_pass") # <<>> THEN Nearest(o, "cgi_pass")[1]
               ELSE DefaultBlock.cgi
  BY <1>7, <1>9
<1> QED
  BY <1>5, <1>8, <1>10, <1>11, <1>12

\* Whatever file is accepted and whatever default.conf states: in every block
\* that no later one of its name takes the place of, the root, the methods and
\* the CGI program are those of the nearest block around it that states them, or
\* the default's, and autoindex is on exactly if the block itself says so.
THEOREM SettingsFromText == ParserSpec => []SettingsFollowText
<1>1. ParserInit => ParserInv /\ SettingsInv
  BY InitEstablishes, SettingsInit
<1>2. ParserInv /\ SettingsInv /\ [ParserNext]_parserVars => (ParserInv /\ SettingsInv)'
  BY InductiveStep, SettingsStep
<1>3. ParserInv /\ SettingsInv => SettingsFollowText
  BY SettingsHold
<1> QED
  BY <1>1, <1>2, <1>3, PTL DEF ParserSpec
=============================================================================
