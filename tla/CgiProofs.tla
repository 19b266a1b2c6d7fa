----------------------------- MODULE CgiProofs -----------------------------
(***************************************************************************)
(* For any number of processes, calls and descriptors, and any bodies and  *)
(* outputs: two processes never run server code at the same time, a script *)
(* reads the body of its request, its output comes back whole, and a       *)
(* server gets its descriptors back.                                       *)
(*                                                                         *)
(* The first holds because the processes form a chain (ChainInv): whoever  *)
(* has a process behind it is in waitpid, so that only the last one can    *)
(* act, and a new process starts where the chain ends.  The others need to *)
(* know what each descriptor of each process refers to (Sound), what is in *)
(* the two files of each call at each step of it (InFiles), and that two   *)
(* calls share a file only if one process is the child that the other made *)
(* in that call (Apart).  CallInv has it all.                              *)
(***************************************************************************)
EXTENDS Cgi, FiniteSetTheorems, WellFoundedInduction, TLAPS

Fields == {"pc", "fd", "own", "body", "out", "lost", "said", "told", "took", "eof"}

\* Every process has its record.
IsProcs == /\ DOMAIN proc = Procs
           /\ \A k \in Procs : DOMAIN proc[k] = Fields

\* Whoever has a process behind it waits.
Chain == \A j, k \in Procs : j < k /\ proc[k].pc # "none" => proc[j].pc = "wait"

ChainInv == IsProcs /\ Chain

LEMMA InitChain == CgiInit => ChainInv
<1> SUFFICES ASSUME CgiInit PROVE ChainInv
  OBVIOUS
<1>1. DOMAIN NoProc = Fields /\ NoProc.pc = "none"
  BY DEF NoProc, Fields
<1>2. DOMAIN proc = Procs /\ \A k \in Procs : DOMAIN proc[k] = Fields
  BY <1>1 DEF CgiInit
<1>3. \A k \in Procs : k # 1 => proc[k].pc = "none"
  BY <1>1 DEF CgiInit
<1> QED
  BY <1>2, <1>3 DEF ChainInv, IsProcs, Chain, Procs

\* Only process k changes, and it was not waiting: it was the last one.
LEMMA LastActs ==
    ASSUME ChainInv, NEW k \in Procs, proc[k].pc \notin {"none", "wait"},
           DOMAIN proc' = Procs, \A j \in Procs \ {k} : proc'[j] = proc[j],
           DOMAIN proc'[k] = Fields, proc'[k].pc # "none"
    PROVE  ChainInv'
BY SMT DEF ChainInv, IsProcs, Chain, Procs

\* The same, with the record it gets.
LEMMA LastBecomes ==
    ASSUME ChainInv, NEW k \in Procs, proc[k].pc \notin {"none", "wait"}, NEW p,
           proc' = [proc EXCEPT ![k] = p], DOMAIN p = Fields, p.pc # "none"
    PROVE  ChainInv'
BY LastActs DEF ChainInv, IsProcs

\* A call of executeCgi begins, or ends the process.
LEMMA CallKeepsChain ==
    ASSUME ChainInv, NEW k \in Procs, NEW b, Call(k, b) \/ CallCrashes(k)
    PROVE  ChainInv'
<1>1. CASE Call(k, b)
  BY <1>1, LastActs DEF Call, ChainInv, IsProcs, Fields
<1>2. CASE CallCrashes(k)
  BY <1>2, LastActs DEF CallCrashes, Ended, NoProc, ChainInv, IsProcs, Fields
<1> QED
  BY <1>1, <1>2

\* The parent starts to wait when its child appears behind it.
LEMMA ForkKeepsChain ==
    ASSUME ChainInv, NEW k \in Procs, Fork(k)
    PROVE  ChainInv'
<1>1. k + 1 \in Procs /\ k # k + 1
  BY CgiAssumption DEF Fork, Procs
<1>2. /\ DOMAIN proc' = Procs
      /\ \A j \in Procs \ {k, k + 1} : proc'[j] = proc[j]
      /\ DOMAIN proc'[k] = Fields /\ proc'[k].pc = "wait"
      /\ DOMAIN proc'[k + 1] = Fields
  BY <1>1 DEF Fork, ChainInv, IsProcs, Fields
<1>3. proc[k].pc = "fork"
  BY DEF Fork
<1> QED
  BY <1>1, <1>2, <1>3 DEF ChainInv, IsProcs, Chain, Procs

\* The child's record is given up when its parent goes on.
LEMMA ReapKeepsChain ==
    ASSUME ChainInv, NEW k \in Procs, Reap(k)
    PROVE  ChainInv'
<1>1. k # k + 1
  BY DEF Procs
<1>2. /\ proc[k].pc = "wait" /\ proc[k + 1].pc = "zombie"
      /\ DOMAIN proc' = Procs
      /\ \A j \in Procs \ {k, k + 1} : proc'[j] = proc[j]
      /\ DOMAIN proc'[k] = Fields /\ proc'[k].pc = "read"
      /\ k + 1 \in Procs => DOMAIN proc'[k + 1] = Fields /\ proc'[k + 1].pc = "none"
  BY <1>1 DEF Reap, Reaps, NoProc, ChainInv, IsProcs, Fields
<1>3. \A n \in Procs : n > k => proc'[n].pc = "none"
  <2> SUFFICES ASSUME NEW n \in Procs, n > k, n # k + 1 PROVE proc'[n].pc = "none"
    BY <1>2
  <2>1. k + 1 \in Procs /\ k + 1 < n
    BY CgiAssumption DEF Procs
  <2> QED
    BY <1>2, <2>1 DEF ChainInv, Chain, Procs
<1>4. \A n \in Procs : n < k => proc'[n].pc = "wait"
  BY <1>2 DEF ChainInv, Chain, Procs
<1> QED
  BY <1>2, <1>3, <1>4 DEF ChainInv, IsProcs, Chain, Procs

\* The other steps of a call change one process only.
LEMMA CallGoesOnKeepsChain ==
    ASSUME ChainInv, NEW k \in Procs, CallGoesOn(k)
    PROVE  ChainInv'
<1>1. CASE Fork(k)
  BY <1>1, ForkKeepsChain
<1>2. CASE ForkFails(k)
  BY <1>2, LastActs DEF ForkFails, Back, ChainInv, IsProcs, Fields
<1>3. CASE Exec(k)
  BY <1>3, LastActs DEF Exec, Redirected, ChainInv, IsProcs, Fields
<1>4. CASE ExecFails(k)
  <2> DEFINE r == Redirected(proc[k])
             p == [r EXCEPT !.pc = "clean", !.said = <<"500">>]
  <2>1. proc' = [proc EXCEPT ![k] = p] /\ proc[k].pc = "child"
    BY <1>4 DEF ExecFails
  <2>2. DOMAIN r = DOMAIN proc[k]
    BY DEF Redirected
  <2>3. DOMAIN p = Fields /\ p.pc = "clean"
    <3> HIDE DEF r
    <3> QED
      BY <2>2 DEF ChainInv, IsProcs, Fields
  <2> HIDE DEF p
  <2> QED
    BY <2>1, <2>3, LastBecomes
<1>5. CASE Reap(k)
  BY <1>5, ReapKeepsChain
<1>6. CASE Read(k)
  <2> DEFINE f == file[OutOf(k)]
             n == Min({BufSize, Len(f.data) - f.at})
             out == proc[k].out \o UpToNul(SubSeq(f.data, f.at + 1, f.at + n))
             pc == IF n = 0 THEN "clean" ELSE proc[k].pc
  <2>1. proc' = [proc EXCEPT ![k].out = out, ![k].pc = pc] /\ proc[k].pc = "read"
    BY <1>6 DEF Read
  <2>2. pc \in {"read", "clean"}
    BY <2>1
  <2> HIDE DEF out, pc
  <2> QED
    BY <2>1, <2>2, LastActs DEF ChainInv, IsProcs, Fields
<1>7. CASE Clean(k)
  <2> DEFINE r == Back(proc[k])
             fd == Restored(proc[k], Range(proc[k].own))
             p == [r EXCEPT !.fd = fd]
  <2>1. proc' = [proc EXCEPT ![k] = p] /\ proc[k].pc = "clean"
    BY <1>7 DEF Clean
  <2>2. DOMAIN r = Fields /\ r.pc = "loop"
    BY DEF Back, ChainInv, IsProcs, Fields
  <2>3. DOMAIN p = Fields /\ p.pc = "loop"
    <3> HIDE DEF r, fd
    <3> QED
      BY <2>2 DEF Fields
  <2> HIDE DEF p
  <2> QED
    BY <2>1, <2>3, LastBecomes
<1> QED
  BY <1>1, <1>2, <1>3, <1>4, <1>5, <1>6, <1>7 DEF CallGoesOn

LEMMA ScriptKeepsChain ==
    ASSUME ChainInv, NEW k \in Procs, Script(k)
    PROVE  ChainInv'
<1>1. CASE ScriptReads(k)
  BY <1>1, LastActs DEF ScriptReads, ChainInv, IsProcs, Fields
<1>2. CASE ScriptEnds(k)
  BY <1>2, LastActs DEF ScriptEnds, Ended, NoProc, ChainInv, IsProcs, Fields
<1>3. CASE \E u \in Units : ScriptWrites(k, u)
  BY <1>3, LastActs DEF ScriptWrites, ChainInv, IsProcs, Fields
<1> QED
  BY <1>1, <1>2, <1>3 DEF Script

LEMMA StepKeepsChain == ChainInv /\ [CgiNext]_cgiVars => ChainInv'
<1> SUFFICES ASSUME ChainInv, [CgiNext]_cgiVars PROVE ChainInv'
  OBVIOUS
<1>1. CASE UNCHANGED cgiVars
  BY <1>1 DEF ChainInv, IsProcs, Chain, cgiVars
<1>2. CASE CgiNext
  <2> PICK k \in Procs : \/ \E b \in Bodies : Call(k, b)
                         \/ CallCrashes(k) \/ CallGoesOn(k) \/ Script(k) \/ ServerEnds(k)
    BY <1>2 DEF CgiNext
  <2>1. CASE (\E b \in Bodies : Call(k, b)) \/ CallCrashes(k)
    BY <2>1, CallKeepsChain
  <2>2. CASE CallGoesOn(k)
    BY <2>2, CallGoesOnKeepsChain
  <2>3. CASE Script(k)
    BY <2>3, ScriptKeepsChain
  <2>4. CASE ServerEnds(k)
    BY <2>4, LastActs DEF ServerEnds, Ended, NoProc, ChainInv, IsProcs, Fields
  <2> QED
    BY <2>1, <2>2, <2>3, <2>4
<1> QED
  BY <1>1, <1>2

\* Two processes never run server code at the same time, although a failed execve
\* leaves a second server behind, for any number of processes and calls.
THEOREM OneServerRuns == CgiSpec => []OneServer
<1>1. ChainInv => OneServer
  BY DEF ChainInv, Chain, OneServer, Running, Procs
<1> QED
  BY <1>1, InitChain, StepKeepsChain, PTL DEF CgiSpec
---------------------------------------------------------------------------
(* Descriptors, bodies and outputs.                                        *)

Files == Temp \cup {Closed, Stdin, Stdout}
Live(p) == p.pc \notin {"none", "zombie"}
Called(p) == p.pc \in InCall \cup {"script"}
Holds(p) == {f \in Fds : p.fd[f] # Closed}

\* 0 and 1 are main's, or the files of the call.
Standard(p) == p.fd[0] = Stdin /\ p.fd[1] = Stdout
OnFiles(p) == p.fd[0] = p.fd[p.own[3]] /\ p.fd[1] = p.fd[p.own[4]]

\* The descriptors a call made.
Owning(p) ==
    /\ p.own \in [1 .. 4 -> Fds]
    /\ \A i, j \in 1 .. 4 : p.own[i] = p.own[j] => i = j
    /\ p.fd[p.own[1]] = Stdin /\ p.fd[p.own[2]] = Stdout
    /\ p.fd[p.own[3]] \in Temp /\ p.fd[p.own[4]] \in Temp
    /\ p.fd[p.own[3]] # p.fd[p.own[4]]

\* The descriptors of a process that is alive.
Descriptors(p) ==
    /\ p.fd \in [Fds \cup {0, 1} -> Files]
    /\ p.pc \notin {"script", "clean"} => Standard(p)
    /\ p.pc = "clean" => Standard(p) \/ OnFiles(p)
    /\ p.pc = "script" => OnFiles(p)
    /\ Called(p) => Owning(p)
    /\ Cardinality(Holds(p)) = p.lost + IF Called(p) THEN 4 ELSE 0

\* What a process remembers, apart from its descriptors.
Memory(p) ==
    /\ p.body \in Seq(Bytes) /\ p.told \in Seq(Bytes) /\ p.took \in Seq(Bytes)
    /\ p.pc # "script" => p.took = <<>> /\ p.eof = FALSE
    /\ p.pc \notin {"read", "clean"} => p.out = <<>> /\ p.told = <<>>

Sound(p) ==
    /\ p.pc \in States /\ p.lost \in Nat /\ p.said \in Seq(Bytes)
    /\ p.pc = "none" => p = NoProc
    /\ p.pc = "zombie" => p.fd = <<>>
    /\ Live(p) => Descriptors(p) /\ Memory(p)

DiskOK == /\ file \in [Temp -> [data : Seq(Bytes), at : Nat]]
          /\ \A f \in Temp : file[f].at <= Len(file[f].data)

\* The files of a call.
InOf(k) == proc[k].fd[proc[k].own[3]]

\* A file written up to its end.
Written(data) == [data |-> data, at |-> Len(data)]

\* What is read of the output so far, and all of it.
PartRead(told, at, out) ==
    IF "nul" \in Range(told)
    THEN /\ Len(out) <= at
         /\ "nul" \in Range(SubSeq(told, 1, at)) => Len(out) < at
    ELSE out = SubSeq(told, 1, at)
AllRead(told, out) ==
    IF "nul" \in Range(told) THEN Len(out) < Len(told) ELSE out = told

\* What is in the files of process k's call.
InFiles(k) ==
    LET p == proc[k]
    IN  /\ p.pc \in {"fork", "child"} => file[InOf(k)] = Input(p.body)
        /\ p.pc \in {"fork", "child"} => file[OutOf(k)] = Written(<<>>)
        /\ p.pc = "child" => p.said = <<>>
        /\ p.pc = "script" =>
             /\ file[InOf(k)] = [data |-> p.body, at |-> Len(p.took)]
             /\ file[OutOf(k)] = Written(p.said)
             /\ p.took = SubSeq(p.body, 1, Len(p.took))
             /\ p.eof => Len(p.took) = Len(p.body)
        /\ p.pc = "wait" =>
             /\ k + 1 \in Procs /\ proc[k + 1].pc # "none"
             /\ file[OutOf(k)] = Written(proc[k + 1].said)
        /\ p.pc = "read" =>
             /\ file[OutOf(k)].data = p.told /\ p.out \in Seq(Bytes)
             /\ PartRead(p.told, file[OutOf(k)].at, p.out)
        /\ p.pc = "clean" => AllRead(p.told, p.out)

\* The calls that go on have files of their own, but a child those of its parent.
Apart(j, k) ==
    LET p == proc[k]
    IN  /\ p.pc \in {"fork", "child", "script"} => InOf(k) # OutOf(j)
        /\ p.pc \in {"fork", "wait", "read"} => OutOf(k) # OutOf(j)
        /\ p.pc \in {"child", "script"} => (OutOf(k) = OutOf(j) <=> k = j + 1)

CallInv ==
    /\ ChainInv /\ DiskOK
    /\ \A k \in Procs : Sound(proc[k])
    /\ \A k \in Procs : InFiles(k)
    /\ \A j, k \in Procs : j < k => Apart(j, k)
    /\ calls \in 0 .. MaxCalls

---------------------------------------------------------------------------
(* What the lowest free numbers are.                                       *)

LEMMA LeastOf ==
    ASSUME NEW S \in SUBSET Nat, S # {}
    PROVE  \E x \in S : \A y \in S : x <= y
<1>1. PICK x \in S : \A y \in S : ~ (<<y, x>> \in OpToRel(<, Nat))
  BY NatLessThanWellFounded, WFMin
<1>2. \A y \in S : ~ (y < x)
  BY <1>1 DEF OpToRel
<1> QED
  BY <1>2

Below(S, x) == {y \in S : y < x}

\* The one at place i, if there are more, has another behind it.
LEMMA NextPlace ==
    ASSUME NEW S \in SUBSET Nat, IsFiniteSet(S), NEW i \in Nat,
           NEW x \in S, Cardinality(Below(S, x)) = i, Cardinality(S) > i + 1
    PROVE  \E z \in S : Cardinality(Below(S, z)) = i + 1
<1> DEFINE A == {y \in S : y > x}
           L == Below(S, x) \cup {x}
<1>1. IsFiniteSet(Below(S, x)) /\ x \notin Below(S, x)
  BY FS_Subset DEF Below
<1>2. IsFiniteSet(L) /\ Cardinality(L) = i + 1
  BY <1>1, FS_AddElement
<1>3. A # {}
  <2>1. SUFFICES ASSUME A = {} PROVE FALSE
    OBVIOUS
  <2>2. \A y \in S : y < x \/ y = x
    BY <2>1
  <2>3. \A y : y \in S <=> y \in Below(S, x) \/ y = x
    BY <2>2 DEF Below
  <2>4. S = L
    BY <2>3
  <2> QED
    BY <1>2, <2>4
<1>4. PICK z \in A : \A y \in A : z <= y
  BY <1>3, LeastOf
<1>5. Below(S, z) = L
  <2>1. x < z
    OBVIOUS
  <2>2. \A y \in S : y < z <=> y < x \/ y = x
    BY <1>4, <2>1
  <2>3. \A y : y \in Below(S, z) <=> y \in Below(S, x) \/ y = x
    BY <2>1, <2>2 DEF Below
  <2> QED
    BY <2>3
<1> QED
  BY <1>2, <1>4, <1>5

LEMMA Places ==
    ASSUME NEW S \in SUBSET Nat, IsFiniteSet(S), NEW n \in 1 .. 4, Cardinality(S) >= n,
           NEW i \in 1 .. n
    PROVE  \E x \in S : Cardinality(Below(S, x)) = i - 1
<1> DEFINE P(m) == \E x \in S : Cardinality(Below(S, x)) = m
<1>1. Cardinality(S) \in Nat
  BY FS_CardinalityType
<1>2. P(0)
  <2>1. S # {}
    BY <1>1, FS_EmptySet
  <2>2. PICK x \in S : \A y \in S : x <= y
    BY <2>1, LeastOf
  <2>3. \A y \in S : ~ (y < x)
    BY <2>2
  <2>4. Below(S, x) = {}
    BY <2>3, Zenon DEF Below
  <2> QED
    BY <2>4, FS_EmptySet
<1>3. ASSUME NEW m \in Nat, P(m), Cardinality(S) > m + 1
      PROVE  P(m + 1)
  BY <1>3, NextPlace
<1>4. 0 \in Nat /\ 1 \in Nat /\ 2 \in Nat
  OBVIOUS
<1>5. Cardinality(S) > 1 => P(1)
  BY <1>2, <1>3, <1>4
<1>6. Cardinality(S) > 2 => P(2)
  BY <1>1, <1>3, <1>4, <1>5
<1>7. Cardinality(S) > 3 => P(3)
  BY <1>1, <1>3, <1>4, <1>6
<1> HIDE DEF P
<1>8. P(i - 1)
  BY <1>1, <1>2, <1>5, <1>6, <1>7
<1> QED
  BY <1>8 DEF P

\* n different ones of S.
Picked(f, n, S) ==
    /\ f \in [1 .. n -> S]
    /\ \A i, j \in 1 .. n : f[i] = f[j] => i = j

LEMMA LowestPicks ==
    ASSUME NEW S \in SUBSET Nat, IsFiniteSet(S), NEW n \in 1 .. 4, Cardinality(S) >= n
    PROVE  Picked(Lowest(n, S), n, S)
<1> DEFINE f == Lowest(n, S)
           C(i) == CHOOSE x \in S : Cardinality(Below(S, x)) = i - 1
<1>1. f = [i \in 1 .. n |-> C(i)]
  BY DEF Lowest, Below
<1>2. ASSUME NEW i \in 1 .. n
      PROVE  C(i) \in S /\ Cardinality(Below(S, C(i))) = i - 1
  BY Places
<1> HIDE DEF C
<1>3. f \in [1 .. n -> S]
  BY <1>1, <1>2
<1>4. ASSUME NEW i \in 1 .. n, NEW j \in 1 .. n, f[i] = f[j]
      PROVE  i = j
  <2>1. C(i) = C(j)
    BY <1>1, <1>4
  <2> QED
    BY <1>2, <2>1
<1> QED
  BY <1>3, <1>4 DEF Picked

LEMMA FourOf ==
    ASSUME NEW S, NEW f, Picked(f, 4, S)
    PROVE  /\ IsFiniteSet(Range(f)) /\ Cardinality(Range(f)) = 4
           /\ Range(f) = {f[1], f[2], f[3], f[4]} /\ Range(f) \subseteq S
<1> DEFINE A == {f[1]}
           B == A \cup {f[2]}
           C == B \cup {f[3]}
           D == C \cup {f[4]}
<1>1. Range(f) = D /\ D \subseteq S
  BY DEF Picked, Range
<1>2. f[2] \notin A /\ f[3] \notin B /\ f[4] \notin C
  BY DEF Picked
<1>3. IsFiniteSet(A) /\ Cardinality(A) = 1
  BY FS_Singleton
<1>4. ASSUME NEW T, IsFiniteSet(T), NEW x, x \notin T
      PROVE  IsFiniteSet(T \cup {x}) /\ Cardinality(T \cup {x}) = Cardinality(T) + 1
  BY <1>4, FS_AddElement
<1>5. IsFiniteSet(B) /\ Cardinality(B) = 1 + 1
  BY <1>2, <1>3, <1>4, Zenon
<1>6. IsFiniteSet(C) /\ Cardinality(C) = 1 + 1 + 1
  BY <1>2, <1>4, <1>5, Zenon
<1>7. IsFiniteSet(D) /\ Cardinality(D) = 1 + 1 + 1 + 1
  BY <1>2, <1>4, <1>6, Zenon
<1>8. 1 + 1 + 1 + 1 = 4
  OBVIOUS
<1> QED
  BY <1>1, <1>7, <1>8

LEMMA NothingThere == DOMAIN <<>> = {}
<1>1. \A s \in Seq({}) : DOMAIN s = 1 .. Len(s)
  OBVIOUS
<1>2. <<>> \in Seq({}) /\ Len(<<>>) = 0 /\ 1 .. 0 = {}
  OBVIOUS
<1>3. DOMAIN <<>> = 1 .. 0
  BY <1>1, <1>2, Zenon
<1> QED
  BY <1>2, <1>3, Zenon

---------------------------------------------------------------------------
(* Every process finds two unused files when it calls.                     *)

\* A temporary file somebody has open is at a descriptor besides 0 and 1.
LEMMA UsedFrom ==
    ASSUME CallInv, NEW j \in Procs, NEW f \in Temp, f \in Range(proc[j].fd)
    PROVE  \E x \in Fds : proc[j].fd[x] = f
<1> DEFINE p == proc[j]
<1>1. Live(p)
  <2>1. Range(<<>>) = {}
    BY NothingThere DEF Range
  <2> QED
    BY <2>1 DEF CallInv, Sound, Live, NoProc
<1>2. Descriptors(p) /\ p.pc \in States
  BY <1>1 DEF CallInv, Sound
<1>3. PICK x \in Fds \cup {0, 1} : p.fd[x] = f
  BY <1>2 DEF Descriptors, Range
<1>4. f # Stdin /\ f # Stdout
  BY DEF Temp, Stdin, Stdout
<1>5. CASE x \in Fds
  BY <1>3, <1>5
<1>6. CASE x \in {0, 1}
  <2>1. ~ Standard(p)
    BY <1>3, <1>4, <1>6 DEF Standard
  <2>2. OnFiles(p) /\ Owning(p)
    BY <1>2, <2>1 DEF Descriptors, Called, InCall
  <2>3. p.own[3] \in Fds /\ p.own[4] \in Fds
    BY <2>2 DEF Owning
  <2> QED
    BY <1>3, <1>6, <2>2, <2>3 DEF OnFiles
<1> QED
  BY <1>3, <1>5, <1>6

LEMMA EnoughUnused ==
    ASSUME CallInv, NEW k \in Procs, Cardinality(Available(k)) >= 4
    PROVE  /\ Unused \in SUBSET Nat /\ IsFiniteSet(Unused) /\ Unused \subseteq Temp
           /\ Cardinality(Unused) >= 2
<1> DEFINE C == {k} \X Available(k)
           D == (Procs \X Fds) \ C
           U == Temp \ Unused
           At(d) == proc[d[1]].fd[d[2]]
           h == [f \in U |-> CHOOSE d \in D : At(d) = f]
           m == MaxProcs * Cardinality(Fds)
           a == Cardinality(Available(k))
<1>1. /\ IsFiniteSet(Fds) /\ Cardinality(Fds) \in Nat
      /\ IsFiniteSet(Procs) /\ Cardinality(Procs) = MaxProcs
      /\ IsFiniteSet(Available(k)) /\ a \in Nat /\ Available(k) \subseteq Fds
  <2>1. IsFiniteSet(Fds) /\ MaxProcs \in Nat
    BY CgiAssumption
  <2>2. IsFiniteSet(Procs) /\ Cardinality(Procs) = MaxProcs
    <3>1. IsFiniteSet(1 .. MaxProcs) /\ Cardinality(1 .. MaxProcs) = MaxProcs
      BY <2>1, FS_Interval
    <3> QED
      BY <3>1, Zenon DEF Procs
  <2>3. Available(k) \subseteq Fds
    BY DEF Available
  <2> QED
    BY <2>1, <2>2, <2>3, FS_Subset, FS_CardinalityType
<1>2. m \in Nat
  BY <1>1, CgiAssumption
<1>3. IsFiniteSet(Temp) /\ Cardinality(Temp) = m
  <2>1. Temp = 3 .. 2 + m
    BY DEF Temp
  <2> HIDE DEF m
  <2> QED
    BY <1>2, <2>1, FS_Interval
<1>4. IsFiniteSet(D) /\ Cardinality(D) = m - a
  <2>1. IsFiniteSet(Procs \X Fds) /\ Cardinality(Procs \X Fds) = m
    BY <1>1, FS_Product
  <2>2. Cardinality(C) = a
    <3>1. IsFiniteSet({k}) /\ Cardinality({k}) = 1
      BY FS_Singleton
    <3>2. Cardinality(C) = Cardinality({k}) * a
      BY <1>1, <3>1, FS_Product
    <3> HIDE DEF a, C
    <3> QED
      BY <1>1, <3>1, <3>2
  <2>3. (Procs \X Fds) \cap C = C
    BY <1>1
  <2>4. IsFiniteSet(D) /\ Cardinality(D) = m - Cardinality((Procs \X Fds) \cap C)
    <3> HIDE DEF m, C
    <3> QED
      BY <2>1, FS_Difference
  <2> QED
    BY <2>2, <2>3, <2>4, Zenon
<1>5. \A f \in U : h[f] \in D /\ At(h[f]) = f
  <2> SUFFICES ASSUME NEW f \in U PROVE \E d \in D : At(d) = f
    BY Zenon
  <2>1. PICK j \in Procs : f \in Range(proc[j].fd)
    BY DEF Unused
  <2>2. PICK x \in Fds : proc[j].fd[x] = f
    BY <2>1, UsedFrom
  <2>3. f # Closed
    BY DEF Temp, Closed
  <2>4. <<j, x>> \in D
    BY <2>2, <2>3 DEF Available
  <2> QED
    BY <2>2, <2>4
<1>6. IsFiniteSet(U) /\ Cardinality(U) <= m - a
  <2>1. h \in Injection(U, D)
    <3> HIDE DEF D, U, At
    <3>1. h \in [U -> D]
      <4> HIDE DEF h
      <4>1. h = [f \in U |-> CHOOSE d \in D : At(d) = f]
        BY DEF h
      <4> QED
        BY <1>5, <4>1
    <3> HIDE DEF h
    <3>2. \A f, g \in U : h[f] = h[g] => f = g
      BY <1>5
    <3> QED
      BY <3>1, <3>2 DEF Injection, IsInjective
  <2> QED
    BY <1>4, <2>1, FS_Injection
<1>7. Unused = Temp \ U /\ Temp \cap U = U
  BY DEF Unused
<1>8. Cardinality(Unused) = m - Cardinality(U) /\ IsFiniteSet(Unused)
  <2> HIDE DEF m, U
  <2> QED
    BY <1>3, <1>7, FS_Difference
<1>9. Cardinality(U) \in Nat
  BY <1>6, FS_CardinalityType
<1>10. Unused \subseteq Temp /\ Temp \subseteq Nat
  BY DEF Unused, Temp
<1>11. a >= 4
  OBVIOUS
<1>12. Cardinality(Unused) >= 2
  <2> HIDE DEF m, a, U
  <2> QED
    BY <1>1, <1>2, <1>6, <1>8, <1>9, <1>11
<1> QED
  BY <1>8, <1>10, <1>12, Zenon

---------------------------------------------------------------------------
(* Every step keeps what is said of descriptors, bodies and outputs.       *)

LEMMA NoProcSound == Sound(NoProc) /\ NoProc.pc = "none" /\ DOMAIN NoProc = Fields
<1>1. <<>> \in Seq(Bytes)
  OBVIOUS
<1> QED
  BY <1>1 DEF Sound, NoProc, Fields, States, Live

LEMMA InitCall == CgiInit => CallInv
<1> SUFFICES ASSUME CgiInit PROVE CallInv
  OBVIOUS
<1>1. ChainInv
  BY InitChain
<1> DEFINE fd == [f \in Fds \cup {0, 1} |->
                    CASE f = 0 -> Stdin [] f = 1 -> Stdout [] OTHER -> Closed]
           p == [NoProc EXCEPT !.pc = "loop", !.fd = fd]
<1>2. DiskOK
  <2>1. <<>> \in Seq(Bytes) /\ Len(<<>>) = 0
    OBVIOUS
  <2>2. [data |-> <<>>, at |-> 0] \in [data : Seq(Bytes), at : Nat]
    BY <2>1
  <2>3. file = [f \in Temp |-> [data |-> <<>>, at |-> 0]]
    BY DEF CgiInit
  <2> QED
    BY <2>1, <2>2, <2>3 DEF DiskOK
<1>3. \A k \in Procs : proc[k] = IF k = 1 THEN p ELSE NoProc
  BY DEF CgiInit
<1>4. /\ p.pc = "loop" /\ p.fd = fd /\ p.lost = 0 /\ p.said = <<>> /\ p.body = <<>>
      /\ p.told = <<>> /\ p.took = <<>> /\ p.eof = FALSE /\ p.out = <<>>
  BY DEF NoProc
<1> HIDE DEF p
<1>5. fd \in [Fds \cup {0, 1} -> Files] /\ fd[0] = Stdin /\ fd[1] = Stdout
  BY DEF Files
<1>6. \A f \in Fds : fd[f] = Closed
  BY CgiAssumption
<1>7. Sound(p)
  <2> HIDE DEF fd
  <2>1. Holds(p) = {}
    BY <1>4, <1>6 DEF Holds
  <2>2. Cardinality(Holds(p)) = 0
    BY <2>1, FS_EmptySet
  <2>3. Descriptors(p)
    BY <1>4, <1>5, <2>2 DEF Descriptors, Standard, Called, InCall
  <2>4. <<>> \in Seq(Bytes)
    OBVIOUS
  <2>5. Memory(p)
    BY <1>4, <2>4 DEF Memory
  <2> QED
    BY <1>4, <2>3, <2>4, <2>5 DEF Sound, States
<1>8. \A k \in Procs : proc[k].pc \in {"loop", "none"} /\ Sound(proc[k])
  BY <1>3, <1>4, <1>7, NoProcSound
<1>9. calls \in 0 .. MaxCalls
  <2>1. calls = 0
    BY DEF CgiInit
  <2> QED
    BY <2>1, CgiAssumption
<1>10. \A k \in Procs : InFiles(k) /\ \A j \in Procs : Apart(j, k)
  <2> SUFFICES ASSUME NEW k \in Procs PROVE InFiles(k) /\ \A j \in Procs : Apart(j, k)
    OBVIOUS
  <2>1. proc[k].pc = "loop" \/ proc[k].pc = "none"
    BY <1>8
  <2> QED
    BY <2>1 DEF InFiles, Apart
<1> QED
  BY <1>1, <1>2, <1>8, <1>9, <1>10 DEF CallInv

\* The last process acts: the files of those before it stay, but the output it
\* writes for the one before it grows by what it says it wrote.
LEMMA LastSteps ==
    ASSUME CallInv, NEW k \in Procs, proc[k].pc \notin {"none", "wait"}, NEW p,
           proc' = [proc EXCEPT ![k] = p], DOMAIN p = Fields,
           p.pc \notin {"none", "wait"}, Sound(p), DiskOK', InFiles(k)',
           \A j \in Procs : j < k => Apart(j, k)',
           \A j \in Procs : j < k => file'[OutOf(j)] =
               IF k = j + 1 THEN Written(p.said) ELSE file[OutOf(j)],
           calls' \in 0 .. MaxCalls
    PROVE  CallInv'
<1>1. ChainInv'
  BY LastBecomes DEF CallInv
<1>2. proc'[k] = p /\ \A j \in Procs \ {k} : proc'[j] = proc[j]
  BY DEF CallInv, ChainInv, IsProcs
<1>3. \A j \in Procs : j < k => proc[j].pc = "wait"
  BY DEF CallInv, ChainInv, Chain
<1>4. \A j \in Procs : j > k => proc[j].pc = "none"
  BY DEF CallInv, ChainInv, Chain
<1>5. \A j \in Procs : Sound(proc[j])'
  BY <1>2 DEF CallInv
<1>6. ASSUME NEW j \in Procs, j < k
      PROVE  InFiles(j)'
  <2>1. OutOf(j)' = OutOf(j) /\ proc'[j] = proc[j] /\ proc[j].pc = "wait"
    BY <1>2, <1>3, <1>6 DEF OutOf
  <2>2. j + 1 \in Procs /\ file[OutOf(j)] = Written(proc[j + 1].said)
    BY <2>1 DEF CallInv, InFiles
  <2>3. j + 1 = k \/ j + 1 < k
    BY <1>6 DEF Procs
  <2>4. proc'[j + 1].pc # "none"
    BY <1>2, <1>3, <2>2, <2>3
  <2>5. file'[OutOf(j)] = Written(proc'[j + 1].said)
    BY <1>2, <1>6, <2>2, <2>3
  <2> QED
    BY <2>1, <2>2, <2>4, <2>5 DEF InFiles
<1>7. ASSUME NEW j \in Procs, j > k
      PROVE  InFiles(j)'
  BY <1>2, <1>4, <1>7 DEF InFiles
<1>8. \A j \in Procs : InFiles(j)'
  <2>1. \A j \in Procs : j = k \/ j < k \/ j > k
    BY DEF Procs
  <2> QED
    BY <1>6, <1>7, <2>1
<1>9. ASSUME NEW i \in Procs, NEW j \in Procs, i < j
      PROVE  Apart(i, j)'
  <2>1. CASE j = k
    BY <1>9, <2>1
  <2>2. CASE j < k
    <3>1. proc'[i] = proc[i] /\ proc'[j] = proc[j]
      BY <1>2, <1>9, <2>2 DEF Procs
    <3> QED
      BY <1>9, <3>1 DEF CallInv, Apart, InOf, OutOf
  <2>3. CASE j > k
    BY <1>2, <1>4, <2>3 DEF Apart
  <2> QED
    BY <2>1, <2>2, <2>3 DEF Procs
<1> QED
  BY <1>1, <1>5, <1>8, <1>9 DEF CallInv

\* The ones before the last wait, and have had its output.
LEMMA ThoseBefore ==
    ASSUME CallInv, NEW k \in Procs, proc[k].pc # "none", NEW j \in Procs, j < k
    PROVE  /\ proc[j].pc = "wait" /\ OutOf(j) \in Temp /\ OutOf(j) \in Range(proc[j].fd)
           /\ k = j + 1 => file[OutOf(j)] = Written(proc[k].said)
           /\ Apart(j, k)
<1>1. proc[j].pc = "wait"
  BY DEF CallInv, ChainInv, Chain
<1>2. Descriptors(proc[j]) /\ Owning(proc[j])
  BY <1>1 DEF CallInv, Sound, Live, Descriptors, Called, InCall
<1>3. OutOf(j) \in Temp /\ OutOf(j) \in Range(proc[j].fd)
  BY <1>2 DEF OutOf, Descriptors, Owning, Range
<1>4. k = j + 1 => file[OutOf(j)] = Written(proc[k].said)
  BY <1>1 DEF CallInv, InFiles
<1> QED
  BY <1>1, <1>3, <1>4 DEF CallInv

\* A step that leaves the files alone and says nothing.
LEMMA QuietSteps ==
    ASSUME CallInv, NEW k \in Procs, proc[k].pc \notin {"none", "wait"}, NEW p,
           proc' = [proc EXCEPT ![k] = p], DOMAIN p = Fields,
           p.pc \notin {"none", "wait"}, Sound(p), p.said = proc[k].said,
           UNCHANGED file, InFiles(k)', \A j \in Procs : j < k => Apart(j, k)',
           calls' \in 0 .. MaxCalls
    PROVE  CallInv'
<1>1. DiskOK'
  BY DEF CallInv, DiskOK
<1>2. \A j \in Procs : j < k => file'[OutOf(j)] =
          IF k = j + 1 THEN Written(p.said) ELSE file[OutOf(j)]
  BY ThoseBefore
<1> QED
  BY <1>1, <1>2, LastSteps

\* A server or a script ends.
LEMMA EndKeeps ==
    ASSUME CallInv, NEW k \in Procs, proc[k].pc \notin {"none", "wait"},
           proc' = [proc EXCEPT ![k] = Ended(@)], UNCHANGED file,
           calls' \in 0 .. MaxCalls
    PROVE  CallInv'
<1> DEFINE p == Ended(proc[k])
<1>1. /\ DOMAIN p = Fields /\ p.pc = "zombie" /\ p.said = proc[k].said
      /\ p.fd = <<>> /\ p.lost = 0
  BY DEF Ended, NoProc, Fields
<1>2. proc' = [proc EXCEPT ![k] = p]
  OBVIOUS
<1> HIDE DEF p
<1>3. Sound(p)
  BY <1>1 DEF Sound, States, Live, CallInv
<1>4. proc'[k] = p
  BY <1>2 DEF CallInv, ChainInv, IsProcs
<1>5. InFiles(k)' /\ \A j \in Procs : Apart(j, k)'
  BY <1>1, <1>4 DEF InFiles, Apart
<1> QED
  BY <1>1, <1>2, <1>3, <1>5, QuietSteps

\* The fork fails: the four descriptors are kept for ever.
LEMMA ForkFailsKeeps ==
    ASSUME CallInv, NEW k \in Procs, ForkFails(k)
    PROVE  CallInv'
<1> DEFINE q == proc[k]
           p == [Back(q) EXCEPT !.lost = @ + 4]
<1>1. proc' = [proc EXCEPT ![k] = p] /\ q.pc = "fork" /\ UNCHANGED <<file, calls>>
  BY DEF ForkFails
<1>2. DOMAIN q = Fields /\ Sound(q) /\ Descriptors(q) /\ Memory(q)
  BY <1>1 DEF CallInv, ChainInv, IsProcs, Sound, Live
<1>3. /\ DOMAIN p = Fields /\ p.pc = "loop" /\ p.lost = q.lost + 4 /\ p.fd = q.fd
      /\ p.said = q.said /\ p.took = q.took /\ p.eof = q.eof
      /\ p.body = <<>> /\ p.out = <<>> /\ p.told = <<>>
  BY <1>2 DEF Back, Fields
<1> HIDE DEF p
<1>4. Descriptors(p)
  <2>1. Standard(p) /\ Holds(p) = Holds(q)
    BY <1>1, <1>2, <1>3 DEF Descriptors, Standard, Holds
  <2>2. Cardinality(Holds(p)) = q.lost + 4
    BY <1>1, <1>2, <2>1 DEF Descriptors, Called, InCall
  <2> QED
    BY <1>2, <1>3, <2>1, <2>2 DEF Descriptors, Called, InCall, Sound
<1>5. <<>> \in Seq(Bytes)
  OBVIOUS
<1>6. Memory(p)
  BY <1>1, <1>2, <1>3, <1>5 DEF Memory
<1>7. Sound(p)
  BY <1>2, <1>3, <1>4, <1>6 DEF Sound, States
<1>8. proc'[k] = p
  BY <1>1 DEF CallInv, ChainInv, IsProcs
<1>9. InFiles(k)' /\ \A j \in Procs : Apart(j, k)'
  BY <1>3, <1>8 DEF InFiles, Apart
<1>10. calls' \in 0 .. MaxCalls
  BY <1>1 DEF CallInv
<1> QED
  BY <1>1, <1>3, <1>7, <1>9, <1>10, QuietSteps

\* What a child's dup2() does to its descriptors.
Redirects(r, p) ==
    /\ DOMAIN r = Fields /\ r.fd \in [Fds \cup {0, 1} -> Files] /\ OnFiles(r)
    /\ \A f \in Fds : r.fd[f] = p.fd[f]
    /\ \A field \in Fields \ {"fd"} : r[field] = p[field]

LEMMA RedirectedIs ==
    ASSUME NEW p, DOMAIN p = Fields, Descriptors(p), Owning(p)
    PROVE  Redirects(Redirected(p), p)
<1> DEFINE fd == [[p.fd EXCEPT ![0] = p.fd[p.own[3]]] EXCEPT ![1] = p.fd[p.own[4]]]
           r == [p EXCEPT !.fd = fd]
<1>1. /\ p.own[3] \in Fds /\ p.own[4] \in Fds
      /\ p.fd[p.own[3]] \in Files /\ p.fd[p.own[4]] \in Files
  BY DEF Descriptors, Owning
<1>2. /\ fd \in [Fds \cup {0, 1} -> Files] /\ \A f \in Fds : fd[f] = p.fd[f]
      /\ fd[0] = p.fd[p.own[3]] /\ fd[1] = p.fd[p.own[4]]
  BY <1>1, CgiAssumption DEF Descriptors
<1>3. Redirected(p) = r
  BY DEF Redirected, Fields
<1> HIDE DEF fd
<1>4. /\ DOMAIN r = Fields /\ r.fd = fd
      /\ \A field \in Fields \ {"fd"} : r[field] = p[field]
  BY DEF Fields
<1>5. r.own = p.own
  BY <1>4 DEF Fields
<1> HIDE DEF r
<1>6. OnFiles(r)
  BY <1>1, <1>2, <1>4, <1>5 DEF OnFiles
<1> QED
  BY <1>2, <1>3, <1>4, <1>6 DEF Redirects

\* A child on its files has its parent's descriptors otherwise.
LEMMA OnFilesKeeps ==
    ASSUME NEW p, NEW q, Descriptors(p), Called(p), q.pc \in {"script", "clean"},
           q.own = p.own, q.lost = p.lost, OnFiles(q),
           q.fd \in [Fds \cup {0, 1} -> Files], \A f \in Fds : q.fd[f] = p.fd[f]
    PROVE  Descriptors(q)
<1>1. Holds(q) = Holds(p)
  BY DEF Holds
<1>2. Owning(p)
  BY DEF Descriptors
<1>3. \A i \in 1 .. 4 : p.own[i] \in Fds
  BY <1>2 DEF Owning
<1>4. Owning(q)
  BY <1>2, <1>3 DEF Owning
<1>5. Called(q)
  BY DEF Called, InCall
<1> QED
  BY <1>1, <1>4, <1>5 DEF Descriptors

\* execve succeeds: the script is at the beginning of its input.
LEMMA ExecKeeps ==
    ASSUME CallInv, NEW k \in Procs, Exec(k)
    PROVE  CallInv'
<1> DEFINE q == proc[k]
           r == Redirected(q)
           p == [r EXCEPT !.pc = "script"]
<1>1. proc' = [proc EXCEPT ![k] = p] /\ q.pc = "child" /\ UNCHANGED <<file, calls>>
  BY DEF Exec
<1>2. DOMAIN q = Fields /\ Sound(q) /\ Descriptors(q) /\ Memory(q) /\ Called(q)
  BY <1>1 DEF CallInv, ChainInv, IsProcs, Sound, Live, Called, InCall
<1>3. Owning(q)
  BY <1>2 DEF Descriptors
<1>4. Redirects(r, q)
  BY <1>2, <1>3, RedirectedIs
<1> HIDE DEF r
<1>5. /\ DOMAIN p = Fields /\ p.pc = "script" /\ p.fd = r.fd
      /\ p.said = q.said /\ p.took = q.took /\ p.eof = q.eof /\ p.lost = q.lost
      /\ p.body = q.body /\ p.out = q.out /\ p.told = q.told
      /\ p.own = q.own /\ r.own = q.own
  BY <1>4 DEF Redirects, Fields
<1> HIDE DEF p
<1>6. Descriptors(p)
  BY <1>2, <1>4, <1>5, OnFilesKeeps DEF Redirects, OnFiles
<1>7. Sound(p)
  BY <1>1, <1>2, <1>5, <1>6 DEF Sound, States, Memory
<1>8. proc'[k] = p /\ \A j \in Procs \ {k} : proc'[j] = proc[j]
  BY <1>1 DEF CallInv, ChainInv, IsProcs
<1>9. InOf(k)' = InOf(k) /\ OutOf(k)' = OutOf(k)
  BY <1>3, <1>4, <1>5, <1>8 DEF InOf, OutOf, Owning, Redirects
<1>10. InFiles(k)'
  <2>1. file'[InOf(k)'] = Input(q.body) /\ q.took = <<>> /\ q.eof = FALSE
    <3>1. file[InOf(k)] = Input(q.body)
      BY <1>1 DEF CallInv, InFiles
    <3>2. q.took = <<>> /\ q.eof = FALSE
      BY <1>1, <1>2 DEF Memory
    <3> QED
      BY <1>1, <1>9, <3>1, <3>2
  <2>4. file'[OutOf(k)'] = Written(p.said)
    BY <1>1, <1>5, <1>9 DEF CallInv, InFiles
  <2>2. Len(<<>>) = 0 /\ q.body \in Seq(Bytes)
    <3>1. q.body \in Seq(Bytes)
      BY <1>2 DEF Memory
    <3>2. Len(<<>>) = 0
      OBVIOUS
    <3> QED
      BY <3>1, <3>2
  <2>3. SubSeq(q.body, 1, 0) = <<>>
    BY <2>2
  <2> QED
    BY <1>5, <1>8, <2>1, <2>2, <2>3, <2>4 DEF InFiles, Input
<1>11. \A j \in Procs : j < k => Apart(j, k)'
  <2> SUFFICES ASSUME NEW j \in Procs, j < k PROVE Apart(j, k)'
    OBVIOUS
  <2>1. OutOf(j)' = OutOf(j) /\ Apart(j, k)
    BY <1>1, <1>8, ThoseBefore DEF OutOf
  <2> QED
    BY <1>1, <1>5, <1>8, <1>9, <2>1 DEF Apart
<1>12. calls' \in 0 .. MaxCalls
  BY <1>1 DEF CallInv
<1> QED
  BY <1>1, <1>5, <1>7, <1>10, <1>11, <1>12, QuietSteps

\* One more unit at the end of a file.
LEMMA WroteOnce ==
    ASSUME DiskOK, NEW p, NEW f \in Temp, p.fd[1] = f, NEW unit \in Bytes,
           NEW said \in Seq(Bytes), file[f] = Written(said), Wrote(p, unit)
    PROVE  /\ DiskOK'
           /\ file'[f] = Written(Append(said, unit))
           /\ \A g \in Temp \ {f} : file'[g] = file[g]
<1> DEFINE w == [data |-> Append(SubSeq(file[f].data, 1, file[f].at), unit),
                 at |-> file[f].at + 1]
<1>1. file' = [file EXCEPT ![f] = w]
  BY DEF Wrote
<1>2. SubSeq(said, 1, Len(said)) = said /\ Len(Append(said, unit)) = Len(said) + 1
  OBVIOUS
<1>3. w = Written(Append(said, unit))
  <2>1. file[f].data = said /\ file[f].at = Len(said)
    BY DEF Written
  <2> QED
    BY <1>2, <2>1 DEF Written
<1>4. Append(said, unit) \in Seq(Bytes) /\ Len(said) + 1 \in Nat
  OBVIOUS
<1>5. w \in [data : Seq(Bytes), at : Nat] /\ w.at <= Len(w.data)
  BY <1>2, <1>3, <1>4 DEF Written
<1> HIDE DEF w
<1>6. file' \in [Temp -> [data : Seq(Bytes), at : Nat]]
  BY <1>1, <1>5 DEF DiskOK
<1>7. file'[f] = w /\ \A g \in Temp \ {f} : file'[g] = file[g]
  BY <1>1 DEF DiskOK
<1> QED
  BY <1>3, <1>5, <1>6, <1>7 DEF DiskOK

\* The child of a failed execve goes to the end of its call, having said so.
LEMMA ExecFailsKeeps ==
    ASSUME CallInv, NEW k \in Procs, ExecFails(k)
    PROVE  CallInv'
<1> DEFINE q == proc[k]
           r == Redirected(q)
           p == [r EXCEPT !.pc = "clean", !.said = <<"500">>]
<1>1. /\ proc' = [proc EXCEPT ![k] = p] /\ q.pc = "child" /\ UNCHANGED calls
      /\ Wrote(r, "500")
  BY DEF ExecFails
<1>2. DOMAIN q = Fields /\ Sound(q) /\ Descriptors(q) /\ Memory(q) /\ Called(q)
  BY <1>1 DEF CallInv, ChainInv, IsProcs, Sound, Live, Called, InCall
<1>3. Owning(q)
  BY <1>2 DEF Descriptors
<1>4. Redirects(r, q)
  BY <1>2, <1>3, RedirectedIs
<1> HIDE DEF r
<1>5. /\ DOMAIN p = Fields /\ p.pc = "clean" /\ p.fd = r.fd
      /\ p.said = <<"500">> /\ p.took = q.took /\ p.eof = q.eof /\ p.lost = q.lost
      /\ p.body = q.body /\ p.out = q.out /\ p.told = q.told
      /\ p.own = q.own /\ r.own = q.own
  BY <1>4 DEF Redirects, Fields
<1> HIDE DEF p
<1>6. Descriptors(p)
  BY <1>2, <1>4, <1>5, OnFilesKeeps DEF Redirects, OnFiles
<1>7. "500" \in Bytes
  BY DEF Bytes
<1>8. Append(<<>>, "500") = <<"500">> /\ <<"500">> \in Seq(Bytes) /\ <<>> \in Seq(Bytes)
  BY <1>7
<1>9. Sound(p)
  BY <1>1, <1>2, <1>5, <1>6, <1>8 DEF Sound, States, Memory
<1>10. proc'[k] = p /\ \A j \in Procs \ {k} : proc'[j] = proc[j]
  BY <1>1 DEF CallInv, ChainInv, IsProcs
<1>11. PICK f : f = OutOf(k)
  OBVIOUS
<1>12. /\ DiskOK' /\ file'[f] = Written(<<"500">>)
       /\ \A g \in Temp \ {f} : file'[g] = file[g]
  <2>1. f \in Temp /\ f = q.fd[q.own[4]] /\ q.own[4] \in Fds
    BY <1>3, <1>11 DEF Owning, OutOf
  <2>2. r.fd[1] = f
    BY <1>4, <1>5, <2>1 DEF Redirects, OnFiles
  <2>3. file[f] = Written(<<>>)
    BY <1>1, <1>11 DEF CallInv, InFiles
  <2>4. DiskOK
    BY DEF CallInv
  <2> DEFINE unit == "500"
             said == <<>>
  <2>5. unit \in Bytes /\ said \in Seq(Bytes) /\ Append(said, unit) = <<"500">>
    BY <1>7, <1>8
  <2>6. file[f] = Written(said) /\ Wrote(r, unit)
    BY <1>1, <2>3
  <2> HIDE DEF unit, said
  <2>7. /\ DiskOK' /\ file'[f] = Written(Append(said, unit))
        /\ \A g \in Temp \ {f} : file'[g] = file[g]
    BY <2>1, <2>2, <2>4, <2>5, <2>6, WroteOnce
  <2> QED
    BY <2>5, <2>7
<1>13. InFiles(k)'
  <2>1. p.out = <<>> /\ p.told = <<>>
    BY <1>1, <1>2, <1>5 DEF Memory
  <2>2. "nul" \notin Range(<<>>)
    BY NothingThere DEF Range
  <2> QED
    BY <1>5, <1>10, <2>1, <2>2 DEF InFiles, AllRead
<1>14. \A j \in Procs : j < k => Apart(j, k)'
  BY <1>5, <1>10 DEF Apart
<1>15. ASSUME NEW j \in Procs, j < k
       PROVE  file'[OutOf(j)] =
                IF k = j + 1 THEN Written(p.said) ELSE file[OutOf(j)]
  <2>1. OutOf(j) \in Temp /\ (OutOf(k) = OutOf(j) <=> k = j + 1)
    BY <1>1, <1>15, ThoseBefore DEF Apart
  <2> QED
    BY <1>5, <1>11, <1>12, <2>1
<1>16. calls' \in 0 .. MaxCalls
  BY <1>1 DEF CallInv
<1> QED
  BY <1>1, <1>5, <1>9, <1>12, <1>13, <1>14, <1>15, <1>16, LastSteps

\* What is known of a script: its files, its input and who waits for it.
LEMMA ScriptHas ==
    ASSUME CallInv, NEW k \in Procs, proc[k].pc = "script"
    PROVE  LET q == proc[k]
           IN  /\ DOMAIN q = Fields /\ Sound(q) /\ Descriptors(q) /\ Memory(q)
               /\ InOf(k) \in Temp /\ OutOf(k) \in Temp /\ InOf(k) # OutOf(k)
               /\ q.fd[0] = InOf(k) /\ q.fd[1] = OutOf(k)
               /\ file[InOf(k)] = [data |-> q.body, at |-> Len(q.took)]
               /\ file[OutOf(k)] = Written(q.said)
               /\ q.took = SubSeq(q.body, 1, Len(q.took))
               /\ q.eof => Len(q.took) = Len(q.body)
<1> DEFINE q == proc[k]
<1>1. DOMAIN q = Fields /\ Sound(q) /\ Descriptors(q) /\ Memory(q) /\ Called(q)
  BY DEF CallInv, ChainInv, IsProcs, Sound, Live, Called
<1>2. Owning(q) /\ OnFiles(q)
  BY <1>1 DEF Descriptors
<1>3. /\ InOf(k) \in Temp /\ OutOf(k) \in Temp /\ InOf(k) # OutOf(k)
      /\ q.fd[0] = InOf(k) /\ q.fd[1] = OutOf(k)
  BY <1>2 DEF Owning, OnFiles, InOf, OutOf
<1>4. /\ file[InOf(k)] = [data |-> q.body, at |-> Len(q.took)]
      /\ file[OutOf(k)] = Written(q.said)
      /\ q.took = SubSeq(q.body, 1, Len(q.took))
      /\ q.eof => Len(q.took) = Len(q.body)
  BY DEF CallInv, InFiles
<1> QED
  BY <1>1, <1>3, <1>4

\* A step of a script that keeps its descriptors.
LEMMA ScriptSteps ==
    ASSUME CallInv, NEW k \in Procs, proc[k].pc = "script", NEW p,
           proc' = [proc EXCEPT ![k] = p], DOMAIN p = Fields, p.pc = "script",
           p.fd = proc[k].fd, p.own = proc[k].own, p.lost = proc[k].lost,
           p.body = proc[k].body, p.out = proc[k].out, p.told = proc[k].told,
           p.took \in Seq(Bytes), p.said \in Seq(Bytes), DiskOK', UNCHANGED calls,
           file'[InOf(k)] = [data |-> p.body, at |-> Len(p.took)],
           file'[OutOf(k)] = Written(p.said),
           p.took = SubSeq(p.body, 1, Len(p.took)),
           p.eof => Len(p.took) = Len(p.body),
           \A j \in Procs : j < k => file'[OutOf(j)] =
               IF k = j + 1 THEN Written(p.said) ELSE file[OutOf(j)]
    PROVE  CallInv'
<1> DEFINE q == proc[k]
<1>1. Sound(q) /\ Descriptors(q) /\ Memory(q)
  BY ScriptHas
<1>2. Descriptors(p)
  BY <1>1 DEF Descriptors, Standard, OnFiles, Called, Owning, Holds
<1>3. Sound(p)
  <2>1. Memory(p)
    BY <1>1 DEF Memory
  <2> QED
    BY <1>1, <1>2, <2>1 DEF Sound, States
<1>4. proc'[k] = p /\ \A j \in Procs \ {k} : proc'[j] = proc[j]
  BY DEF CallInv, ChainInv, IsProcs
<1>5. InOf(k)' = InOf(k) /\ OutOf(k)' = OutOf(k)
  BY <1>4 DEF InOf, OutOf
<1>6. InFiles(k)'
  BY <1>4, <1>5 DEF InFiles
<1>7. \A j \in Procs : j < k => Apart(j, k)'
  <2> SUFFICES ASSUME NEW j \in Procs, j < k PROVE Apart(j, k)'
    OBVIOUS
  <2>1. OutOf(j)' = OutOf(j) /\ Apart(j, k)
    BY <1>4, ThoseBefore DEF OutOf
  <2> QED
    BY <1>4, <1>5, <2>1 DEF Apart
<1>8. calls' \in 0 .. MaxCalls
  BY DEF CallInv
<1> QED
  BY <1>3, <1>6, <1>7, <1>8, LastSteps

\* One more unit of the input was read.
LEMMA OneMore ==
    ASSUME NEW S, NEW body \in Seq(S), NEW took \in Seq(S),
           took = SubSeq(body, 1, Len(took)), Len(took) < Len(body)
    PROVE  LET more == Append(took, body[Len(took) + 1])
           IN  /\ more \in Seq(S) /\ Len(more) = Len(took) + 1
               /\ more = SubSeq(body, 1, Len(more))
<1> DEFINE n == Len(took)
           more == Append(took, body[n + 1])
<1>1. n \in Nat /\ Len(body) \in Nat /\ n + 1 \in 1 .. Len(body) /\ body[n + 1] \in S
  OBVIOUS
<1>2. more \in Seq(S) /\ Len(more) = n + 1
  BY <1>1
<1>3. SubSeq(body, 1, n + 1) \in Seq(S) /\ Len(SubSeq(body, 1, n + 1)) = n + 1
  BY <1>1
<1>4. \A i \in 1 .. n + 1 : more[i] = SubSeq(body, 1, n + 1)[i]
  <2> SUFFICES ASSUME NEW i \in 1 .. n + 1
               PROVE  more[i] = SubSeq(body, 1, n + 1)[i]
    OBVIOUS
  <2>1. SubSeq(body, 1, n + 1)[i] = body[i]
    BY <1>1
  <2>2. i <= n => more[i] = took[i] /\ took[i] = SubSeq(body, 1, n)[i]
    BY <1>1
  <2>3. i <= n => SubSeq(body, 1, n)[i] = body[i]
    BY <1>1
  <2>4. i = n + 1 => more[i] = body[i]
    BY <1>1
  <2> QED
    BY <1>1, <2>1, <2>2, <2>3, <2>4
<1> QED
  BY <1>2, <1>3, <1>4


LEMMA ScriptReadsKeeps ==
    ASSUME CallInv, NEW k \in Procs, ScriptReads(k)
    PROVE  CallInv'
<1> DEFINE q == proc[k]
<1>1. q.pc = "script" /\ ~ q.eof /\ UNCHANGED calls
  BY DEF ScriptReads
<1>2. PICK f : f = InOf(k)
  OBVIOUS
<1>3. /\ DOMAIN q = Fields /\ Sound(q) /\ Descriptors(q) /\ Memory(q)
      /\ f \in Temp /\ OutOf(k) \in Temp /\ f # OutOf(k) /\ q.fd[0] = f
      /\ file[f] = [data |-> q.body, at |-> Len(q.took)]
      /\ q.took = SubSeq(q.body, 1, Len(q.took))
  BY <1>1, <1>2, ScriptHas
<1>4. q.body \in Seq(Bytes) /\ q.took \in Seq(Bytes)
  BY <1>3 DEF Memory
<1>5. file[f].data = q.body /\ file[f].at = Len(q.took)
  BY <1>3
<1>6. \A j \in Procs : j < k => OutOf(j) \in Temp /\ OutOf(j) # f
  BY <1>1, <1>2, ThoseBefore DEF Apart
<1>7. q.said \in Seq(Bytes)
  BY <1>3 DEF Sound
<1>8. CASE Len(q.took) < Len(q.body)
  <2> DEFINE more == Append(q.took, q.body[Len(q.took) + 1])
             p == [q EXCEPT !.took = more]
             w == [file[f] EXCEPT !.at = @ + 1]
  <2>1. /\ more \in Seq(Bytes) /\ Len(more) = Len(q.took) + 1
        /\ more = SubSeq(q.body, 1, Len(more))
    BY <1>3, <1>4, <1>8, OneMore
  <2>2. /\ proc' = [proc EXCEPT ![k].took = Append(@, file[f].data[file[f].at + 1])]
        /\ file' = [file EXCEPT ![f].at = @ + 1]
    BY <1>3, <1>5, <1>8 DEF ScriptReads
  <2>3. Append(q.took, file[f].data[file[f].at + 1]) = more
    BY <1>5
  <2>4. proc' = [proc EXCEPT ![k] = p]
    BY <2>2, <2>3
  <2>5. file' = [file EXCEPT ![f] = w]
    BY <2>2
  <2>6. w = [data |-> q.body, at |-> Len(more)]
    BY <1>3, <2>1
  <2> HIDE DEF w, more
  <2>7. /\ DOMAIN p = Fields /\ p.took = more /\ p.pc = q.pc /\ p.fd = q.fd
        /\ p.own = q.own /\ p.lost = q.lost /\ p.body = q.body /\ p.out = q.out
        /\ p.told = q.told /\ p.said = q.said /\ p.eof = q.eof
    BY <1>3 DEF Fields
  <2> HIDE DEF p
  <2>8. Len(more) \in Nat /\ Len(more) <= Len(q.body)
    BY <1>4, <1>8, <2>1
  <2>9. w \in [data : Seq(Bytes), at : Nat] /\ w.at <= Len(w.data)
    BY <1>4, <2>6, <2>8
  <2>10. DiskOK' /\ file'[f] = w /\ \A g \in Temp \ {f} : file'[g] = file[g]
    BY <1>3, <2>5, <2>9 DEF CallInv, DiskOK
  <2>11. \A j \in Procs : j < k => file'[OutOf(j)] =
            IF k = j + 1 THEN Written(p.said) ELSE file[OutOf(j)]
    BY <1>1, <1>6, <2>7, <2>10, ThoseBefore
  <2>12. file'[InOf(k)] = [data |-> p.body, at |-> Len(p.took)]
    BY <1>2, <2>6, <2>7, <2>10
  <2>13. file'[OutOf(k)] = Written(p.said)
    BY <1>1, <1>3, <2>7, <2>10, ScriptHas
  <2> QED
    BY <1>1, <1>7, <2>1, <2>4, <2>7, <2>10, <2>11, <2>12, <2>13, ScriptSteps
<1>9. CASE ~ (Len(q.took) < Len(q.body))
  <2> DEFINE p == [q EXCEPT !.eof = TRUE]
  <2>1. proc' = [proc EXCEPT ![k].eof = TRUE] /\ UNCHANGED file
    BY <1>3, <1>5, <1>9 DEF ScriptReads
  <2>2. proc' = [proc EXCEPT ![k] = p]
    BY <2>1
  <2>3. /\ DOMAIN p = Fields /\ p.took = q.took /\ p.pc = q.pc /\ p.fd = q.fd
        /\ p.own = q.own /\ p.lost = q.lost /\ p.body = q.body /\ p.out = q.out
        /\ p.told = q.told /\ p.said = q.said
    BY <1>3 DEF Fields
  <2> HIDE DEF p
  <2>4. Len(q.took) = Len(q.body)
    BY <1>3, <1>4, <1>5, <1>9 DEF CallInv, DiskOK
  <2>5. DiskOK'
    BY <2>1 DEF CallInv, DiskOK
  <2>6. \A j \in Procs : j < k => file'[OutOf(j)] =
            IF k = j + 1 THEN Written(p.said) ELSE file[OutOf(j)]
    BY <1>1, <2>1, <2>3, ThoseBefore
  <2>7. file'[InOf(k)] = [data |-> p.body, at |-> Len(p.took)]
    BY <1>2, <1>3, <2>1, <2>3
  <2> QED
    <3>1. file'[OutOf(k)] = Written(p.said)
      BY <1>1, <2>1, <2>3, ScriptHas
    <3>2. p.took = SubSeq(p.body, 1, Len(p.took)) /\ Len(p.took) = Len(p.body)
      BY <1>3, <2>3, <2>4
    <3>3. p.took \in Seq(Bytes) /\ p.said \in Seq(Bytes) /\ p.pc = "script"
      BY <1>1, <1>4, <1>7, <2>3
    <3> QED
      BY <1>1, <2>2, <2>3, <2>5, <2>6, <2>7, <3>1, <3>2, <3>3, ScriptSteps
<1> QED
  BY <1>8, <1>9


LEMMA ScriptWritesKeeps ==
    ASSUME CallInv, NEW k \in Procs, NEW unit \in Units, ScriptWrites(k, unit)
    PROVE  CallInv'
<1> DEFINE q == proc[k]
           said == Append(q.said, unit)
           p == [q EXCEPT !.said = said]
<1>1. q.pc = "script" /\ UNCHANGED calls /\ Wrote(q, unit) /\ proc' = [proc EXCEPT ![k] = p]
  BY DEF ScriptWrites
<1>2. PICK f : f = OutOf(k)
  OBVIOUS
<1>3. /\ DOMAIN q = Fields /\ Sound(q) /\ Memory(q)
      /\ f \in Temp /\ InOf(k) \in Temp /\ InOf(k) # f /\ q.fd[1] = f
      /\ file[InOf(k)] = [data |-> q.body, at |-> Len(q.took)]
      /\ file[f] = Written(q.said)
      /\ q.took = SubSeq(q.body, 1, Len(q.took))
      /\ q.eof => Len(q.took) = Len(q.body)
  BY <1>1, <1>2, ScriptHas
<1>4. unit \in Bytes /\ q.said \in Seq(Bytes) /\ q.took \in Seq(Bytes)
  BY <1>3 DEF Bytes, Sound, Memory
<1>5. said \in Seq(Bytes)
  BY <1>4
<1>6. DiskOK' /\ file'[f] = Written(said) /\ \A g \in Temp \ {f} : file'[g] = file[g]
  BY <1>1, <1>3, <1>4, WroteOnce DEF CallInv
<1> HIDE DEF said
<1>7. /\ DOMAIN p = Fields /\ p.took = q.took /\ p.pc = q.pc /\ p.fd = q.fd
      /\ p.own = q.own /\ p.lost = q.lost /\ p.body = q.body /\ p.out = q.out
      /\ p.told = q.told /\ p.said = said /\ p.eof = q.eof
  BY <1>3 DEF Fields
<1> HIDE DEF p
<1>8. ASSUME NEW j \in Procs, j < k
      PROVE  file'[OutOf(j)] = IF k = j + 1 THEN Written(p.said) ELSE file[OutOf(j)]
  <2>1. OutOf(j) \in Temp /\ (f = OutOf(j) <=> k = j + 1)
    BY <1>1, <1>2, <1>8, ThoseBefore DEF Apart
  <2> QED
    BY <1>6, <1>7, <2>1
<1>9. /\ file'[InOf(k)] = [data |-> p.body, at |-> Len(p.took)]
      /\ file'[OutOf(k)] = Written(p.said)
      /\ p.took = SubSeq(p.body, 1, Len(p.took)) /\ (p.eof => Len(p.took) = Len(p.body))
  BY <1>2, <1>3, <1>6, <1>7
<1>10. p.took \in Seq(Bytes) /\ p.said \in Seq(Bytes) /\ p.pc = "script"
  BY <1>1, <1>4, <1>5, <1>7
<1> QED
  BY <1>1, <1>6, <1>7, <1>8, <1>9, <1>10, ScriptSteps

\* The end of a call, of a parent's as of a child's: 0 and 1 are main's again, and
\* the four are closed.
LEMMA CleanKeeps ==
    ASSUME CallInv, NEW k \in Procs, Clean(k)
    PROVE  CallInv'
<1> DEFINE q == proc[k]
           fd == Restored(q, Range(q.own))
           b == Back(q)
           p == [b EXCEPT !.fd = fd]
<1>1. proc' = [proc EXCEPT ![k] = p] /\ q.pc = "clean" /\ UNCHANGED <<file, calls>>
  BY DEF Clean
<1>2. DOMAIN q = Fields /\ Sound(q) /\ Descriptors(q) /\ Memory(q) /\ Called(q)
  BY <1>1 DEF CallInv, ChainInv, IsProcs, Sound, Live, Called, InCall
<1>3. Owning(q) /\ q.fd \in [Fds \cup {0, 1} -> Files]
  BY <1>2 DEF Descriptors
<1>4. Picked(q.own, 4, Fds)
  BY <1>3 DEF Owning, Picked
<1>5. /\ DOMAIN b = Fields /\ b.pc = "loop" /\ b.lost = q.lost /\ b.said = q.said
      /\ b.took = q.took /\ b.eof = q.eof /\ b.body = <<>> /\ b.out = <<>>
      /\ b.told = <<>>
  BY <1>2 DEF Back, Fields
<1>6. /\ fd \in [Fds \cup {0, 1} -> Files] /\ fd[0] = Stdin /\ fd[1] = Stdout
      /\ \A f \in Fds : fd[f] = IF f \in Range(q.own) THEN Closed ELSE q.fd[f]
  <2>1. fd = [f \in Fds \cup {0, 1} |->
                CASE f = 0 -> Stdin [] f = 1 -> Stdout
                  [] OTHER -> IF f \in Range(q.own) THEN Closed ELSE q.fd[f]]
    BY <1>3 DEF Restored, Owning
  <2>2. 0 \notin Fds /\ 1 \notin Fds
    BY CgiAssumption
  <2> HIDE DEF fd
  <2>3. fd[0] = Stdin /\ fd[1] = Stdout
    BY <2>1
  <2>4. \A f \in Fds : fd[f] = IF f \in Range(q.own) THEN Closed ELSE q.fd[f]
    BY <2>1, <2>2
  <2>5. \A f \in Fds \cup {0, 1} : fd[f] \in Files
    BY <1>3, <2>3, <2>4 DEF Files
  <2> QED
    BY <2>1, <2>3, <2>4, <2>5
<1> HIDE DEF fd, b
<1>7. /\ DOMAIN p = Fields /\ p.pc = "loop" /\ p.lost = q.lost /\ p.said = q.said
      /\ p.took = q.took /\ p.eof = q.eof /\ p.body = <<>> /\ p.out = <<>>
      /\ p.told = <<>> /\ p.fd = fd
  BY <1>5 DEF Fields
<1> HIDE DEF p
<1>8. Cardinality(Holds(p)) = q.lost
  <2>1. Range(q.own) \subseteq Holds(q) /\ Cardinality(Range(q.own)) = 4
    <3>1. /\ Range(q.own) = {q.own[1], q.own[2], q.own[3], q.own[4]}
          /\ Range(q.own) \subseteq Fds /\ Cardinality(Range(q.own)) = 4
      BY <1>4, FourOf
    <3>2. \A f \in Range(q.own) : q.fd[f] # Closed
      BY <1>3, <3>1 DEF Owning, Stdin, Stdout, Closed, Temp
    <3> QED
      BY <3>1, <3>2 DEF Holds
  <2>2. Holds(p) = Holds(q) \ Range(q.own)
    BY <1>6, <1>7, Zenon DEF Holds
  <2>3. IsFiniteSet(Holds(q)) /\ Cardinality(Holds(q)) = q.lost + 4 /\ q.lost \in Nat
    <3>1. Holds(q) \in SUBSET Fds /\ IsFiniteSet(Fds)
      BY CgiAssumption DEF Holds
    <3> QED
      BY <1>2, <3>1, FS_Subset DEF Descriptors, Sound
  <2>4. Holds(q) \cap Range(q.own) = Range(q.own)
    BY <2>1
  <2>5. Cardinality(Holds(p)) = Cardinality(Holds(q)) - Cardinality(Range(q.own))
    <3> DEFINE H == Holds(q)
                O == Range(q.own)
    <3>1. Cardinality(H \ O) = Cardinality(H) - Cardinality(H \cap O)
      <4> HIDE DEF H, O
      <4>1. IsFiniteSet(H)
        BY <2>3 DEF H
      <4> QED
        BY <4>1, FS_Difference
    <3> QED
      BY <2>2, <2>4, <3>1, Zenon
  <2> QED
    BY <2>1, <2>3, <2>5
<1>9. Descriptors(p)
  BY <1>2, <1>6, <1>7, <1>8 DEF Descriptors, Standard, Called, InCall, Sound
<1>10. <<>> \in Seq(Bytes)
  OBVIOUS
<1>11. Sound(p)
  BY <1>1, <1>2, <1>7, <1>9, <1>10 DEF Sound, States, Memory
<1>12. proc'[k] = p
  BY <1>1 DEF CallInv, ChainInv, IsProcs
<1>13. InFiles(k)' /\ \A j \in Procs : Apart(j, k)'
  BY <1>7, <1>12 DEF InFiles, Apart
<1>14. calls' \in 0 .. MaxCalls
  BY <1>1 DEF CallInv
<1> QED
  BY <1>1, <1>7, <1>11, <1>13, <1>14, QuietSteps

---------------------------------------------------------------------------
(* Reading the output, in pieces.                                          *)

LEMMA MinOfTwo ==
    ASSUME NEW a \in Nat, NEW b \in Nat
    PROVE  Min({a, b}) = IF a <= b THEN a ELSE b
<1> DEFINE m == IF a <= b THEN a ELSE b
<1>1. m \in {a, b} /\ \A y \in {a, b} : m <= y
  OBVIOUS
<1>2. \A x \in {a, b} : (\A y \in {a, b} : x <= y) => x = m
  OBVIOUS
<1> HIDE DEF m
<1>3. Min({a, b}) = m
  BY <1>1, <1>2 DEF Min
<1> QED
  BY <1>3 DEF m

\* A piece is cut at its first NUL.
Cut(piece, cut) ==
    /\ Len(cut) <= Len(piece)
    /\ IF "nul" \in Range(piece) THEN Len(cut) < Len(piece) ELSE cut = piece

LEMMA UpToNulCuts ==
    ASSUME NEW S, NEW piece \in Seq(S)
    PROVE  UpToNul(piece) \in Seq(S) /\ Cut(piece, UpToNul(piece))
<1> DEFINE I == {i \in 1 .. Len(piece) : piece[i] = "nul"}
           nul == IF I # {} THEN Min(I) ELSE 0
<1>1. UpToNul(piece) = IF nul = 0 THEN piece ELSE SubSeq(piece, 1, nul - 1)
  BY Zenon DEF UpToNul, SelectInSeq
<1>2. "nul" \in Range(piece) <=> I # {}
  BY DEF Range
<1>3. CASE I = {}
  BY <1>1, <1>2, <1>3 DEF Cut
<1>4. CASE I # {}
  <2>1. PICK x \in I : \A y \in I : x <= y
    <3>1. I \in SUBSET Nat
      OBVIOUS
    <3> HIDE DEF I
    <3> QED
      BY <1>4, <3>1, LeastOf
  <2>2. Min(I) \in I
    <3> HIDE DEF I
    <3> QED
      BY <2>1, Zenon DEF Min
  <2>3. nul \in 1 .. Len(piece)
    BY <1>4, <2>2
  <2> HIDE DEF nul
  <2>4. UpToNul(piece) = SubSeq(piece, 1, nul - 1)
    BY <1>1, <2>3
  <2>5. SubSeq(piece, 1, nul - 1) \in Seq(S) /\ Len(SubSeq(piece, 1, nul - 1)) = nul - 1
    BY <2>3
  <2> QED
    BY <1>2, <1>4, <2>3, <2>4, <2>5 DEF Cut
<1> QED
  BY <1>3, <1>4

\* c is l and then r.
Joins(S, l, r, c) ==
    /\ c \in Seq(S) /\ Len(c) = Len(l) + Len(r)
    /\ \A i \in 1 .. Len(l) : c[i] = l[i]
    /\ \A i \in 1 .. Len(r) : c[Len(l) + i] = r[i]

LEMMA Joined ==
    ASSUME NEW S, NEW l \in Seq(S), NEW r \in Seq(S), NEW c, c = l \o r
    PROVE  Joins(S, l, r, c)
BY DEF Joins

LEMMA SameSequence ==
    ASSUME NEW S, NEW l \in Seq(S), NEW r \in Seq(S), Len(l) = Len(r),
           \A i \in 1 .. Len(l) : l[i] = r[i]
    PROVE  l = r
OBVIOUS

\* w, the beginning of s, and its two parts.
Parts(S, s, a, n, l, r, w) ==
    /\ l \in Seq(S) /\ Len(l) = a /\ r \in Seq(S) /\ Len(r) = n
    /\ w = l \o r /\ Range(w) = Range(l) \cup Range(r) /\ Range(w) \subseteq Range(s)

\* t is the n elements of s behind the first a.
Slice(S, s, a, n, t) ==
    t \in Seq(S) /\ Len(t) = n /\ \A i \in 1 .. n : t[i] = s[a + i]

LEMMA SliceIs ==
    ASSUME NEW S, NEW s \in Seq(S), NEW a \in Nat, NEW n \in Nat, a + n <= Len(s),
           NEW t, t = SubSeq(s, a + 1, a + n)
    PROVE  Slice(S, s, a, n, t)
<1>1. t \in Seq(S)
  OBVIOUS
<1>2. Len(t) = n
  OBVIOUS
<1>3. \A i \in 1 .. n : t[i] = s[a + i]
  <2> SUFFICES ASSUME NEW i \in 1 .. n PROVE t[i] = s[a + i]
    OBVIOUS
  <2>1. i \in 1 .. (a + n) - (a + 1) + 1 /\ (a + 1) + i - 1 = a + i
    OBVIOUS
  <2> QED
    BY <2>1
<1> QED
  BY <1>1, <1>2, <1>3, Zenon DEF Slice

Beginning(S, s, n, t) ==
    t \in Seq(S) /\ Len(t) = n /\ \A i \in 1 .. n : t[i] = s[i]

LEMMA BeginningIs ==
    ASSUME NEW S, NEW s \in Seq(S), NEW n \in Nat, n <= Len(s), NEW t, t = SubSeq(s, 1, n)
    PROVE  Beginning(S, s, n, t)
BY DEF Beginning

LEMMA SlicesJoin ==
    ASSUME NEW S, NEW s \in Seq(S), NEW a \in Nat, NEW n \in Nat, a + n <= Len(s),
           NEW l, Beginning(S, s, a, l), NEW r, Slice(S, s, a, n, r),
           NEW w, Beginning(S, s, a + n, w)
    PROVE  Parts(S, s, a, n, l, r, w)
<1>1. /\ l \in Seq(S) /\ Len(l) = a /\ \A i \in 1 .. a : l[i] = s[i]
      /\ r \in Seq(S) /\ Len(r) = n /\ \A i \in 1 .. n : r[i] = s[a + i]
      /\ w \in Seq(S) /\ Len(w) = a + n /\ \A i \in 1 .. a + n : w[i] = s[i]
  BY Zenon DEF Beginning, Slice
<1>2. DOMAIN l = 1 .. a /\ DOMAIN r = 1 .. n /\ DOMAIN w = 1 .. a + n /\ DOMAIN s = 1 .. Len(s)
  BY <1>1
<1>3. \A i \in 1 .. a + n : i \in 1 .. a \/ \E m \in 1 .. n : i = a + m
  <2> SUFFICES ASSUME NEW i \in 1 .. a + n, i > a PROVE \E m \in 1 .. n : i = a + m
    OBVIOUS
  <2>1. i - a \in 1 .. n /\ i = a + (i - a)
    OBVIOUS
  <2> QED
    BY <2>1
<1>4. \A m \in 1 .. n : a + m \in 1 .. a + n
  OBVIOUS
<1>5. ASSUME NEW m \in 1 .. n PROVE w[a + m] = r[m]
  <2>1. w[a + m] = s[a + m]
    BY <1>1, <1>4, Zenon
  <2> QED
    BY <1>1, <2>1, Zenon
<1>6. ASSUME NEW m \in 1 .. a PROVE m \in 1 .. a + n /\ w[m] = l[m]
  <2>1. m \in 1 .. a + n
    OBVIOUS
  <2>2. w[m] = s[m] /\ l[m] = s[m]
    BY <1>1, <2>1, Zenon
  <2> QED
    BY <2>1, <2>2
<1>7. w = l \o r
  <2>1. PICK c : c = l \o r
    OBVIOUS
  <2>2. /\ c \in Seq(S) /\ Len(c) = a + n
        /\ \A i \in 1 .. a : c[i] = l[i]
        /\ \A i \in 1 .. n : c[a + i] = r[i]
    <3>1. l \in Seq(S) /\ r \in Seq(S) /\ Len(l) = a /\ Len(r) = n
      BY <1>1
    <3>2. /\ c \in Seq(S) /\ Len(c) = Len(l) + Len(r)
          /\ \A i \in 1 .. Len(l) : c[i] = l[i]
          /\ \A i \in 1 .. Len(r) : c[Len(l) + i] = r[i]
      <4>1. Joins(S, l, r, c)
        BY <2>1, <3>1, Joined, Zenon
      <4> QED
        BY <4>1, Zenon DEF Joins
    <3> QED
      BY <3>1, <3>2, Zenon
  <2>3. ASSUME NEW i \in 1 .. a + n
        PROVE  w[i] = c[i]
    <3>1. CASE i \in 1 .. a
      BY <1>6, <2>2, <3>1, Zenon
    <3>2. ASSUME NEW m \in 1 .. n, i = a + m
          PROVE  w[i] = c[i]
      <4>1. w[a + m] = r[m] /\ c[a + m] = r[m]
        BY <1>5, <2>2, Zenon
      <4> QED
        BY <3>2, <4>1, Zenon
    <3> QED
      BY <1>3, <3>1, <3>2, Zenon
  <2>4. w = c
    BY <1>1, <2>2, <2>3, SameSequence
  <2> QED
    BY <2>1, <2>4
<1>8. Range(w) = Range(l) \cup Range(r)
  <2>1. /\ Range(l) = {l[i] : i \in 1 .. a} /\ Range(r) = {r[i] : i \in 1 .. n}
        /\ Range(w) = {w[i] : i \in 1 .. a + n}
    BY <1>2, Zenon DEF Range
  <2>2. ASSUME NEW x \in Range(w)
        PROVE  x \in Range(l) \cup Range(r)
    <3>1. PICK i \in 1 .. a + n : x = w[i]
      BY <2>1, <2>2, Zenon
    <3>2. CASE i \in 1 .. a
      BY <1>6, <2>1, <3>1, <3>2, Zenon
    <3>3. ASSUME NEW m \in 1 .. n, i = a + m
          PROVE  x \in Range(l) \cup Range(r)
      <4>1. x = r[m]
        BY <1>5, <3>1, <3>3, Zenon
      <4> QED
        BY <2>1, <4>1, Zenon
    <3> QED
      BY <1>3, <3>2, <3>3, Zenon
  <2>3. \A i \in 1 .. a : l[i] \in Range(w)
    <3> SUFFICES ASSUME NEW i \in 1 .. a PROVE l[i] \in Range(w)
      OBVIOUS
    <3>1. i \in 1 .. a + n /\ w[i] = l[i]
      BY <1>6, Zenon
    <3> QED
      BY <2>1, <3>1, Zenon
  <2>4. \A i \in 1 .. n : r[i] \in Range(w)
    <3> SUFFICES ASSUME NEW i \in 1 .. n PROVE r[i] \in Range(w)
      OBVIOUS
    <3>1. a + i \in 1 .. a + n /\ w[a + i] = r[i]
      BY <1>4, <1>5, Zenon
    <3> QED
      BY <2>1, <3>1, Zenon
  <2>5. \A x \in Range(l) \cup Range(r) : x \in Range(w)
    BY <2>1, <2>3, <2>4, Zenon
  <2>6. \A x : x \in Range(w) <=> x \in Range(l) \cup Range(r)
    BY <2>2, <2>5, Zenon
  <2> QED
    BY <2>6, Zenon
<1>9. Range(w) \subseteq Range(s)
  BY <1>1, <1>2 DEF Range
<1> QED
  BY <1>1, <1>7, <1>8, <1>9, Zenon DEF Parts

LEMMA TwoParts ==
    ASSUME NEW S, NEW s \in Seq(S), NEW a \in Nat, NEW n \in Nat, a + n <= Len(s),
           NEW l, l = SubSeq(s, 1, a), NEW r, r = SubSeq(s, a + 1, a + n),
           NEW w, w = SubSeq(s, 1, a + n)
    PROVE  Parts(S, s, a, n, l, r, w)
<1>1. a <= Len(s) /\ a + n \in Nat
  OBVIOUS
<1>2. Beginning(S, s, a, l)
  BY <1>1, BeginningIs, Zenon
<1>3. Slice(S, s, a, n, r)
  BY SliceIs, Zenon
<1>4. Beginning(S, s, a + n, w)
  BY <1>1, BeginningIs, Zenon
<1> QED
  BY <1>2, <1>3, <1>4, SlicesJoin, Zenon

\* One more piece was read.
LEMMA PieceRead ==
    ASSUME NEW told \in Seq(Bytes), NEW at \in Nat, NEW n \in Nat, at + n <= Len(told),
           NEW out \in Seq(Bytes), PartRead(told, at, out),
           NEW more, more = out \o UpToNul(SubSeq(told, at + 1, at + n))
    PROVE  more \in Seq(Bytes) /\ PartRead(told, at + n, more)
<1>0. PICK l, r, w, c : /\ l = SubSeq(told, 1, at)
                         /\ r = SubSeq(told, at + 1, at + n)
                         /\ w = SubSeq(told, 1, at + n)
                         /\ c = UpToNul(r)
  OBVIOUS
<1>1. /\ l \in Seq(Bytes) /\ Len(l) = at /\ r \in Seq(Bytes) /\ Len(r) = n
      /\ w = l \o r /\ Range(w) = Range(l) \cup Range(r) /\ Range(w) \subseteq Range(told)
  <2>1. Parts(Bytes, told, at, n, l, r, w)
    BY <1>0, TwoParts, Zenon
  <2> QED
    BY <2>1 DEF Parts
<1>2. c \in Seq(Bytes) /\ Cut(r, c)
  BY <1>0, <1>1, UpToNulCuts
<1>3. more = out \o c
  BY <1>0
<1>4. more \in Seq(Bytes) /\ Len(more) = Len(out) + Len(c)
  <2>1. Joins(Bytes, out, c, more)
    BY <1>2, <1>3, Joined, Zenon
  <2> QED
    BY <2>1, Zenon DEF Joins
<1>5. CASE "nul" \in Range(told)
  <2>1. Len(out) <= at /\ ("nul" \in Range(l) => Len(out) < at)
    BY <1>0, <1>5 DEF PartRead
  <2>2. Len(c) <= n /\ ("nul" \in Range(r) => Len(c) < n)
    BY <1>1, <1>2 DEF Cut
  <2>3. Len(c) \in Nat /\ Len(out) \in Nat
    BY <1>2
  <2>4. Len(more) <= at + n /\ ("nul" \in Range(w) => Len(more) < at + n)
    BY <1>1, <1>4, <2>1, <2>2, <2>3
  <2> QED
    BY <1>0, <1>4, <1>5, <2>4 DEF PartRead
<1>6. CASE "nul" \notin Range(told)
  <2>1. out = l /\ c = r
    BY <1>0, <1>1, <1>2, <1>6 DEF PartRead, Cut
  <2> QED
    BY <1>0, <1>1, <1>3, <1>4, <1>6, <2>1 DEF PartRead
<1> QED
  BY <1>5, <1>6

\* At the end everything was read.
LEMMA EndRead ==
    ASSUME NEW told \in Seq(Bytes), NEW out, PartRead(told, Len(told), out)
    PROVE  AllRead(told, out)
<1>1. SubSeq(told, 1, Len(told)) = told
  OBVIOUS
<1> QED
  BY <1>1 DEF PartRead, AllRead

\* One turn of the reading loop.
LEMMA ReadKeeps ==
    ASSUME CallInv, NEW k \in Procs, Read(k)
    PROVE  CallInv'
<1> DEFINE q == proc[k]
<1>1. PICK f, told, at : f = OutOf(k) /\ told = q.told /\ at = file[f].at
  OBVIOUS
<1>2. DOMAIN q = Fields /\ Sound(q) /\ Descriptors(q) /\ Memory(q) /\ Owning(q)
      /\ q.pc = "read" /\ UNCHANGED calls
  BY DEF Read, CallInv, ChainInv, IsProcs, Sound, Live, Called, InCall, Descriptors
<1>3. /\ f \in Temp /\ told \in Seq(Bytes) /\ file[f].data = told
      /\ at \in Nat /\ at <= Len(told) /\ q.out \in Seq(Bytes) /\ PartRead(told, at, q.out)
  <2>1. f \in Temp /\ told \in Seq(Bytes)
    BY <1>1, <1>2 DEF Owning, OutOf, Memory
  <2>2. file[f].data = told /\ q.out \in Seq(Bytes) /\ PartRead(told, at, q.out)
    BY <1>1, <1>2 DEF CallInv, InFiles
  <2>3. at \in Nat /\ at <= Len(told)
    BY <1>1, <2>1, <2>2 DEF CallInv, DiskOK
  <2> QED
    BY <2>1, <2>2, <2>3
<1>4. PICK n, more, pc : /\ n = Min({BufSize, Len(told) - at})
                         /\ more = q.out \o UpToNul(SubSeq(told, at + 1, at + n))
                         /\ pc = IF n = 0 THEN "clean" ELSE "read"
  OBVIOUS
<1>5. n \in Nat /\ at + n <= Len(told) /\ (n = 0 => at = Len(told))
  <2>1. BufSize \in Nat /\ BufSize # 0 /\ Len(told) - at \in Nat
    BY <1>3, CgiAssumption
  <2>2. n = IF BufSize <= Len(told) - at THEN BufSize ELSE Len(told) - at
    BY <1>4, <2>1, MinOfTwo
  <2> QED
    BY <1>3, <2>1, <2>2
<1>6. more \in Seq(Bytes) /\ PartRead(told, at + n, more)
  BY <1>3, <1>4, <1>5, PieceRead, Zenon
<1> DEFINE p == [q EXCEPT !.out = more, !.pc = pc]
           w == [file[f] EXCEPT !.at = at + n]
<1>7. proc' = [proc EXCEPT ![k] = p] /\ file' = [file EXCEPT ![f] = w]
  <2>1. /\ proc' = [proc EXCEPT ![k].out = more, ![k].pc = pc]
        /\ file' = [file EXCEPT ![f].at = at + n]
    <3>1. q.pc = "read"
      BY <1>2
    <3> QED
      BY <1>1, <1>3, <1>4, <3>1, Zenon DEF Read
  <2> QED
    BY <2>1
<1>8. /\ DOMAIN p = Fields /\ p.pc = pc /\ p.out = more /\ p.fd = q.fd
      /\ p.own = q.own /\ p.lost = q.lost /\ p.body = q.body /\ p.told = told
      /\ p.said = q.said /\ p.took = q.took /\ p.eof = q.eof
  BY <1>1, <1>2 DEF Fields
<1> HIDE DEF p
<1>9. pc \in {"read", "clean"} /\ (pc = "clean" => n = 0)
  BY <1>4
<1>10. Descriptors(p)
  BY <1>2, <1>8, <1>9 DEF Descriptors, Standard, Called, InCall, Owning, Holds
<1>11. Sound(p)
  BY <1>1, <1>2, <1>8, <1>9, <1>10 DEF Sound, States, Memory
<1>12. w.data = told /\ w.at = at + n /\ w \in [data : Seq(Bytes), at : Nat]
  <2>1. file[f] \in [data : Seq(Bytes), at : Nat]
    BY <1>3 DEF CallInv, DiskOK
  <2> QED
    BY <1>3, <1>5, <2>1
<1> HIDE DEF w
<1>13. DiskOK' /\ file'[f] = w /\ \A g \in Temp \ {f} : file'[g] = file[g]
  BY <1>3, <1>5, <1>7, <1>12 DEF CallInv, DiskOK
<1>14. proc'[k] = p /\ OutOf(k)' = f /\ \A j \in Procs \ {k} : proc'[j] = proc[j]
  BY <1>1, <1>7, <1>8 DEF CallInv, ChainInv, IsProcs, OutOf
<1>15. InFiles(k)'
  <2>1. pc = "read" \/ (pc = "clean" /\ at + n = Len(told))
    BY <1>3, <1>5, <1>9
  <2>2. CASE pc = "read"
    BY <1>6, <1>8, <1>12, <1>13, <1>14, <2>2 DEF InFiles
  <2>3. CASE pc = "clean" /\ at + n = Len(told)
    <3>1. AllRead(told, more)
      BY <1>3, <1>6, <2>3, EndRead
    <3> QED
      BY <1>8, <1>14, <2>3, <3>1 DEF InFiles
  <2> QED
    BY <2>1, <2>2, <2>3
<1>16. \A j \in Procs : j < k => OutOf(j) \in Temp /\ OutOf(j) # f
  BY <1>1, <1>2, ThoseBefore DEF Apart
<1>17. \A j \in Procs : j < k => Apart(j, k)'
  <2> SUFFICES ASSUME NEW j \in Procs, j < k PROVE Apart(j, k)'
    OBVIOUS
  <2>1. OutOf(j)' = OutOf(j)
    BY <1>14 DEF OutOf, Procs
  <2> QED
    BY <1>8, <1>9, <1>14, <1>16, <2>1 DEF Apart
<1>18. \A j \in Procs : j < k => file'[OutOf(j)] =
          IF k = j + 1 THEN Written(p.said) ELSE file[OutOf(j)]
  BY <1>2, <1>8, <1>13, <1>16, ThoseBefore
<1>19. calls' \in 0 .. MaxCalls
  BY <1>2 DEF CallInv
<1> QED
  BY <1>2, <1>7, <1>8, <1>9, <1>11, <1>13, <1>15, <1>17, <1>18, <1>19, LastSteps

\* A parent and its child, the last one, step together.
LEMMA PairSteps ==
    ASSUME CallInv, NEW k \in Procs, k + 1 \in Procs, proc[k].pc # "none", ChainInv',
           \A j \in Procs : j > k + 1 => proc[j].pc = "none",
           NEW p, proc'[k] = p, NEW c, proc'[k + 1] = c,
           \A j \in Procs \ {k, k + 1} : proc'[j] = proc[j],
           p.pc # "none", p.said = proc[k].said, Sound(p), Sound(c), DiskOK',
           InFiles(k)', InFiles(k + 1)', Apart(k, k + 1)',
           \A j \in Procs : j < k => Apart(j, k)' /\ Apart(j, k + 1)',
           \A j \in Procs : j < k => file'[OutOf(j)] = file[OutOf(j)],
           calls' \in 0 .. MaxCalls
    PROVE  CallInv'
<1>1. \A j \in Procs : j < k \/ j = k \/ j = k + 1 \/ j > k + 1
  BY DEF Procs
<1>2. \A j \in Procs : Sound(proc[j])'
  BY DEF CallInv
<1>3. ASSUME NEW j \in Procs, j < k
      PROVE  InFiles(j)'
  <2>1. proc'[j] = proc[j] /\ OutOf(j)' = OutOf(j) /\ proc[j].pc = "wait"
    BY <1>3, ThoseBefore DEF Procs, OutOf
  <2>2. j + 1 \in Procs /\ file[OutOf(j)] = Written(proc[j + 1].said)
    BY <2>1 DEF CallInv, InFiles
  <2>3. j + 1 = k \/ (j + 1 < k /\ j + 1 # k + 1)
    BY <1>3 DEF Procs
  <2>4. proc'[j + 1].pc # "none" /\ proc'[j + 1].said = proc[j + 1].said
    <3>1. CASE j + 1 = k
      BY <3>1
    <3>2. CASE j + 1 < k /\ j + 1 # k + 1
      BY <2>2, <3>2, ThoseBefore
    <3> QED
      BY <2>3, <3>1, <3>2
  <2>5. file'[OutOf(j)] = Written(proc'[j + 1].said)
    BY <1>3, <2>2, <2>4
  <2> QED
    BY <2>1, <2>2, <2>4, <2>5 DEF InFiles
<1>4. ASSUME NEW j \in Procs, j > k + 1
      PROVE  proc'[j].pc = "none"
  BY <1>4 DEF Procs
<1>5. \A j \in Procs : InFiles(j)'
  <2>1. \A j \in Procs : j > k + 1 => InFiles(j)'
    BY <1>4 DEF InFiles
  <2> QED
    BY <1>1, <1>3, <2>1
<1>6. ASSUME NEW i \in Procs, NEW j \in Procs, i < j
      PROVE  Apart(i, j)'
  <2>1. CASE j < k
    <3>1. proc'[i] = proc[i] /\ proc'[j] = proc[j]
      BY <1>6, <2>1 DEF Procs
    <3> QED
      BY <1>6, <3>1 DEF CallInv, Apart, InOf, OutOf
  <2>2. CASE j = k
    BY <1>6, <2>2
  <2>3. CASE j = k + 1
    <3>1. i = k \/ i < k
      BY <1>6, <2>3 DEF Procs
    <3> QED
      BY <2>3, <3>1
  <2>4. CASE j > k + 1
    BY <1>4, <2>4 DEF Apart
  <2> QED
    BY <1>1, <2>1, <2>2, <2>3, <2>4
<1> QED
  BY <1>2, <1>5, <1>6 DEF CallInv

\* The child begins with what the parent has, and the parent waits.
LEMMA ForkKeeps ==
    ASSUME CallInv, NEW k \in Procs, Fork(k)
    PROVE  CallInv'
<1> DEFINE q == proc[k]
           p == [q EXCEPT !.pc = "wait"]
           c == [q EXCEPT !.pc = "child", !.said = <<>>]
<1>1. k + 1 \in Procs /\ k # k + 1
  BY CgiAssumption DEF Fork, Procs
<1>2. q.pc = "fork" /\ UNCHANGED <<file, calls>>
  BY DEF Fork
<1>3. /\ proc'[k] = p /\ proc'[k + 1] = c
      /\ \A j \in Procs \ {k, k + 1} : proc'[j] = proc[j]
  BY <1>1 DEF Fork, CallInv, ChainInv, IsProcs
<1>4. DOMAIN q = Fields /\ Sound(q) /\ Descriptors(q) /\ Memory(q) /\ Owning(q)
  BY <1>2 DEF CallInv, ChainInv, IsProcs, Sound, Live, Called, InCall, Descriptors
<1>5. /\ p.pc = "wait" /\ p.fd = q.fd /\ p.own = q.own /\ p.lost = q.lost
      /\ p.body = q.body /\ p.out = q.out /\ p.told = q.told /\ p.said = q.said
      /\ p.took = q.took /\ p.eof = q.eof
  BY <1>4 DEF Fields
<1>6. /\ c.pc = "child" /\ c.fd = q.fd /\ c.own = q.own /\ c.lost = q.lost
      /\ c.body = q.body /\ c.out = q.out /\ c.told = q.told /\ c.said = <<>>
      /\ c.took = q.took /\ c.eof = q.eof
  BY <1>4 DEF Fields
<1> HIDE DEF p, c
<1>7. Descriptors(p) /\ Descriptors(c)
  <2>1. Descriptors(p)
    BY <1>2, <1>4, <1>5 DEF Descriptors, Standard, Called, InCall, Owning, Holds
  <2>2. Descriptors(c)
    BY <1>2, <1>4, <1>6 DEF Descriptors, Standard, Called, InCall, Owning, Holds
  <2> QED
    BY <2>1, <2>2
<1>8. <<>> \in Seq(Bytes)
  OBVIOUS
<1>9. Sound(p) /\ Sound(c)
  BY <1>2, <1>4, <1>5, <1>6, <1>7, <1>8 DEF Sound, States, Memory
<1>10. /\ OutOf(k)' = OutOf(k) /\ InOf(k)' = InOf(k)
       /\ OutOf(k + 1)' = OutOf(k) /\ InOf(k + 1)' = InOf(k) /\ InOf(k) # OutOf(k)
  BY <1>3, <1>4, <1>5, <1>6 DEF OutOf, InOf, Owning
<1>11. file[InOf(k)] = Input(q.body) /\ file[OutOf(k)] = Written(<<>>)
  BY <1>2 DEF CallInv, InFiles
<1>12. InFiles(k)'
  BY <1>1, <1>2, <1>3, <1>5, <1>6, <1>10, <1>11 DEF InFiles
<1>13. InFiles(k + 1)'
  BY <1>2, <1>3, <1>6, <1>10, <1>11 DEF InFiles
<1>14. ASSUME NEW j \in Procs, j < k
       PROVE  Apart(j, k)' /\ Apart(j, k + 1)'
  <2>1. OutOf(j)' = OutOf(j) /\ j + 1 # k + 1
    BY <1>3, <1>14 DEF OutOf, Procs
  <2>2. InOf(k) # OutOf(j) /\ OutOf(k) # OutOf(j)
    BY <1>2, <1>14, ThoseBefore DEF Apart
  <2> QED
    BY <1>3, <1>5, <1>6, <1>10, <2>1, <2>2 DEF Apart
<1>15. Apart(k, k + 1)'
  BY <1>3, <1>6, <1>10 DEF Apart
<1>16. DiskOK' /\ calls' \in 0 .. MaxCalls
  BY <1>2 DEF CallInv, DiskOK
<1>17. \A j \in Procs : j > k + 1 => proc[j].pc = "none"
  <2> SUFFICES ASSUME NEW j \in Procs, j > k + 1 PROVE proc[j].pc = "none"
    OBVIOUS
  <2>1. k < j
    BY DEF Procs
  <2> QED
    BY <1>2, <2>1 DEF CallInv, ChainInv, Chain
<1>18. ChainInv'
  BY ForkKeepsChain DEF CallInv
<1>19. \A j \in Procs : j < k => file'[OutOf(j)] = file[OutOf(j)]
  BY <1>2
<1> QED
  BY <1>1, <1>2, <1>3, <1>5, <1>9, <1>12, <1>13, <1>14, <1>15, <1>16, <1>17, <1>18, <1>19,
     PairSteps

\* The parent goes on when its child ended, and finds all that it said.
LEMMA ReapKeeps ==
    ASSUME CallInv, NEW k \in Procs, Reap(k)
    PROVE  CallInv'
<1> DEFINE q == proc[k]
           told == proc[k + 1].said
           p == [q EXCEPT !.pc = "read", !.told = told]
<1>1. PICK f : f = OutOf(k)
  OBVIOUS
<1>2. q.pc = "wait" /\ proc[k + 1].pc = "zombie" /\ UNCHANGED calls /\ k # k + 1
  BY DEF Reap, Reaps, Procs
<1>3. k + 1 \in Procs /\ file[f] = Written(told)
  BY <1>1, <1>2 DEF CallInv, InFiles
<1>4. DOMAIN q = Fields /\ Sound(q) /\ Descriptors(q) /\ Memory(q) /\ Owning(q)
  BY <1>2 DEF CallInv, ChainInv, IsProcs, Sound, Live, Called, InCall, Descriptors
<1>5. told \in Seq(Bytes) /\ f \in Temp /\ q.out = <<>>
  BY <1>1, <1>2, <1>3, <1>4 DEF CallInv, Sound, Owning, OutOf, Memory
<1> DEFINE w == [file[f] EXCEPT !.at = 0]
<1>6. /\ proc'[k] = p /\ proc'[k + 1] = NoProc
      /\ \A j \in Procs \ {k, k + 1} : proc'[j] = proc[j]
      /\ file' = [file EXCEPT ![f] = w]
  BY <1>1, <1>2, <1>3 DEF Reap, Reaps, CallInv, ChainInv, IsProcs
<1> HIDE DEF told
<1>7. /\ p.pc = "read" /\ p.fd = q.fd /\ p.own = q.own /\ p.lost = q.lost
      /\ p.body = q.body /\ p.out = q.out /\ p.told = told /\ p.said = q.said
      /\ p.took = q.took /\ p.eof = q.eof
  BY <1>4 DEF Fields
<1> HIDE DEF p
<1>8. Descriptors(p)
  BY <1>2, <1>4, <1>7 DEF Descriptors, Standard, Called, InCall, Owning, Holds
<1>9. Sound(p)
  BY <1>2, <1>4, <1>5, <1>7, <1>8 DEF Sound, States, Memory
<1>10. w.data = told /\ w.at = 0 /\ w \in [data : Seq(Bytes), at : Nat]
  <2>1. file[f] = [data |-> told, at |-> Len(told)]
    BY <1>3 DEF Written
  <2> QED
    BY <1>5, <2>1
<1> HIDE DEF w
<1>11. Len(told) \in Nat
  BY <1>5
<1>12. DiskOK' /\ file'[f] = w /\ \A g \in Temp \ {f} : file'[g] = file[g]
  BY <1>5, <1>6, <1>10, <1>11 DEF CallInv, DiskOK
<1>13. OutOf(k)' = f
  BY <1>1, <1>6, <1>7 DEF OutOf
<1>14. PartRead(told, 0, <<>>) /\ <<>> \in Seq(Bytes)
  <2>1. SubSeq(told, 1, 0) = <<>> /\ <<>> \in Seq(Bytes) /\ Len(<<>>) <= 0
    BY <1>5
  <2>2. "nul" \notin Range(<<>>)
    BY NothingThere DEF Range
  <2> QED
    BY <2>1, <2>2, Zenon DEF PartRead
<1>15. InFiles(k)'
  BY <1>5, <1>6, <1>7, <1>10, <1>12, <1>13, <1>14 DEF InFiles
<1>16. InFiles(k + 1)' /\ Apart(k, k + 1)' /\ \A j \in Procs : Apart(j, k + 1)'
  BY <1>6, NoProcSound DEF InFiles, Apart
<1>17. ASSUME NEW j \in Procs, j < k
       PROVE  Apart(j, k)' /\ file'[OutOf(j)] = file[OutOf(j)]
  <2>1. OutOf(j)' = OutOf(j)
    BY <1>6, <1>17 DEF OutOf, Procs
  <2>2. OutOf(j) \in Temp /\ OutOf(j) # f
    BY <1>1, <1>2, <1>17, ThoseBefore DEF Apart
  <2> QED
    BY <1>6, <1>7, <1>12, <1>13, <2>1, <2>2 DEF Apart
<1>18. \A j \in Procs : j > k + 1 => proc[j].pc = "none"
  BY <1>2, <1>3 DEF CallInv, ChainInv, Chain
<1>19. ChainInv' /\ calls' \in 0 .. MaxCalls
  BY <1>2, ReapKeepsChain DEF CallInv
<1> QED
  BY <1>2, <1>3, <1>6, <1>7, <1>9, <1>12, <1>15, <1>16, <1>17, <1>18, <1>19, NoProcSound,
     PairSteps

\* What a call's new descriptors refer to.
LEMMA HoldingIs ==
    ASSUME NEW fd \in [Fds \cup {0, 1} -> Files], fd[0] = Stdin, fd[1] = Stdout,
           NEW own, Picked(own, 4, Fds), NEW new, Picked(new, 2, Temp),
           NEW g, g = Holding(fd, own, new)
    PROVE  /\ g \in [Fds \cup {0, 1} -> Files] /\ g[0] = Stdin /\ g[1] = Stdout
           /\ g[own[1]] = Stdin /\ g[own[2]] = Stdout
           /\ g[own[3]] = new[1] /\ g[own[4]] = new[2]
           /\ \A f \in Fds \ Range(own) : g[f] = fd[f]
<1>1. g = [f \in Fds \cup {0, 1} |->
             CASE f = own[1] -> fd[0] [] f = own[2] -> fd[1]
               [] f = own[3] -> new[1] [] f = own[4] -> new[2] [] OTHER -> fd[f]]
  BY DEF Holding
<1>2. PICK o1, o2, o3, o4 : o1 = own[1] /\ o2 = own[2] /\ o3 = own[3] /\ o4 = own[4]
  OBVIOUS
<1>3. /\ o1 \in Fds /\ o2 \in Fds /\ o3 \in Fds /\ o4 \in Fds
      /\ o1 # o2 /\ o1 # o3 /\ o1 # o4 /\ o2 # o3 /\ o2 # o4 /\ o3 # o4
  BY <1>2 DEF Picked
<1>4. new[1] \in Temp /\ new[2] \in Temp
  BY DEF Picked
<1>5. Range(own) = {o1, o2, o3, o4}
  BY <1>2, FourOf
<1>6. 0 \notin Fds /\ 1 \notin Fds
  BY CgiAssumption
<1>7. /\ g[0] = Stdin /\ g[1] = Stdout /\ g[o1] = Stdin /\ g[o2] = Stdout
      /\ g[o3] = new[1] /\ g[o4] = new[2]
  BY <1>1, <1>2, <1>3, <1>6
<1>8. \A f \in Fds \ Range(own) : g[f] = fd[f]
  BY <1>1, <1>2, <1>5
<1>9. \A f \in Fds \cup {0, 1} : g[f] \in Files
  BY <1>4, <1>5, <1>7, <1>8 DEF Files
<1> QED
  BY <1>1, <1>2, <1>7, <1>8, <1>9

\* A call has four descriptors and two files that nobody had.
LEMMA CallKeeps ==
    ASSUME CallInv, NEW k \in Procs, NEW body \in Bodies, Call(k, body)
    PROVE  CallInv'
<1> DEFINE q == proc[k]
<1>1. PICK own, new, fd, a, b :
         /\ own = Own(k) /\ new = Lowest(2, Unused) /\ fd = Holding(q.fd, own, new)
         /\ a = new[1] /\ b = new[2]
  OBVIOUS
<1> DEFINE p == [q EXCEPT !.pc = "fork", !.own = own, !.fd = fd, !.body = body]
           empty == [data |-> <<>>, at |-> 0]
<1>2. /\ q.pc = "loop" /\ Cardinality(Available(k)) >= 4 /\ calls < MaxCalls
      /\ calls' = calls + 1
      /\ proc' = [proc EXCEPT ![k] = p]
      /\ file' = [file EXCEPT ![a] = Input(body), ![b] = empty]
  BY <1>1 DEF Call
<1>3. DOMAIN q = Fields /\ Sound(q) /\ Descriptors(q) /\ Memory(q) /\ ~ Called(q)
  BY <1>2 DEF CallInv, ChainInv, IsProcs, Sound, Live, Called, InCall
<1>4. Picked(own, 4, Available(k)) /\ Picked(own, 4, Fds)
  <2>1. Available(k) \in SUBSET Fds /\ Available(k) \in SUBSET Nat
    BY CgiAssumption DEF Available
  <2>2. IsFiniteSet(Available(k))
    BY <2>1, CgiAssumption, FS_Subset
  <2>3. Picked(own, 4, Available(k))
    BY <1>1, <1>2, <2>1, <2>2, LowestPicks DEF Own
  <2> QED
    BY <2>1, <2>3 DEF Picked
<1>5. Unused \subseteq Temp /\ Picked(new, 2, Unused) /\ Picked(new, 2, Temp)
  <2>1. /\ Unused \in SUBSET Nat /\ IsFiniteSet(Unused) /\ Unused \subseteq Temp
        /\ Cardinality(Unused) >= 2
    BY <1>2, EnoughUnused
  <2>2. Picked(new, 2, Unused)
    BY <1>1, <2>1, LowestPicks
  <2> QED
    BY <2>1, <2>2 DEF Picked
<1>6. a \in Unused /\ b \in Unused /\ a # b /\ a \in Temp /\ b \in Temp
  BY <1>1, <1>5 DEF Picked
<1>7. q.fd \in [Fds \cup {0, 1} -> Files] /\ q.fd[0] = Stdin /\ q.fd[1] = Stdout
  BY <1>2, <1>3 DEF Descriptors, Standard
<1>8. /\ fd \in [Fds \cup {0, 1} -> Files] /\ fd[0] = Stdin /\ fd[1] = Stdout
      /\ fd[own[1]] = Stdin /\ fd[own[2]] = Stdout
      /\ fd[own[3]] = a /\ fd[own[4]] = b
      /\ \A f \in Fds \ Range(own) : fd[f] = q.fd[f]
  BY <1>1, <1>4, <1>5, <1>7, HoldingIs
<1>9. /\ DOMAIN p = Fields /\ p.pc = "fork" /\ p.own = own /\ p.fd = fd
      /\ p.body = body /\ p.lost = q.lost /\ p.out = q.out /\ p.told = q.told
      /\ p.said = q.said /\ p.took = q.took /\ p.eof = q.eof
  BY <1>3 DEF Fields
<1> HIDE DEF p
<1>10. Owning(p)
  BY <1>4, <1>6, <1>8, <1>9 DEF Owning, Picked
<1>11. Cardinality(Holds(p)) = q.lost + 4
  <2>1. /\ IsFiniteSet(Range(own)) /\ Cardinality(Range(own)) = 4
        /\ Range(own) = {own[1], own[2], own[3], own[4]}
        /\ Range(own) \subseteq Available(k)
    BY <1>4, FourOf
  <2>2. \A f \in Range(own) : f \in Fds /\ fd[f] # Closed /\ q.fd[f] = Closed
    BY <1>6, <1>8, <2>1 DEF Available, Stdin, Stdout, Closed, Temp
  <2>3. Holds(p) = Holds(q) \cup Range(own)
    BY <1>8, <1>9, <2>2, Zenon DEF Holds
  <2>4. Holds(q) \cap Range(own) = {}
    BY <2>2 DEF Holds
  <2>5. IsFiniteSet(Holds(q)) /\ Cardinality(Holds(q)) = q.lost /\ q.lost \in Nat
    <3>1. Holds(q) \in SUBSET Fds /\ IsFiniteSet(Fds)
      BY CgiAssumption DEF Holds
    <3> QED
      BY <1>3, <3>1, FS_Subset DEF Descriptors, Sound
  <2>6. Cardinality(Holds(q) \cup Range(own)) =
          Cardinality(Holds(q)) + Cardinality(Range(own)) - Cardinality({})
    BY <2>1, <2>4, <2>5, FS_Union
  <2> QED
    BY <2>1, <2>3, <2>5, <2>6, FS_EmptySet
<1>12. Descriptors(p)
  BY <1>8, <1>9, <1>10, <1>11 DEF Descriptors, Standard, Called, InCall
<1>13. body \in Seq(Bytes) /\ <<>> \in Seq(Bytes) /\ Len(<<>>) = 0
  BY CgiAssumption
<1>14. Sound(p)
  BY <1>2, <1>3, <1>9, <1>12, <1>13 DEF Sound, States, Memory
<1>15. /\ Input(body) \in [data : Seq(Bytes), at : Nat] /\ empty = Written(<<>>)
       /\ empty \in [data : Seq(Bytes), at : Nat]
       /\ Input(body).at <= Len(Input(body).data) /\ empty.at <= Len(empty.data)
  BY <1>13 DEF Input, Written
<1> HIDE DEF empty
<1>16. /\ DiskOK' /\ file'[a] = Input(body) /\ file'[b] = empty
       /\ \A g \in Temp \ {a, b} : file'[g] = file[g]
  BY <1>2, <1>6, <1>15 DEF CallInv, DiskOK
<1>17. proc'[k] = p /\ \A j \in Procs \ {k} : proc'[j] = proc[j]
  BY <1>2 DEF CallInv, ChainInv, IsProcs
<1>18. InOf(k)' = a /\ OutOf(k)' = b
  BY <1>8, <1>9, <1>17 DEF InOf, OutOf
<1>19. InFiles(k)'
  BY <1>9, <1>15, <1>16, <1>17, <1>18 DEF InFiles
<1>20. ASSUME NEW j \in Procs, j < k
       PROVE  /\ OutOf(j)' = OutOf(j) /\ OutOf(j) \in Temp
              /\ OutOf(j) # a /\ OutOf(j) # b
  <2>1. OutOf(j)' = OutOf(j)
    BY <1>17, <1>20 DEF OutOf, Procs
  <2>2. OutOf(j) \in Temp /\ OutOf(j) \in Range(proc[j].fd)
    BY <1>2, <1>20, ThoseBefore
  <2> QED
    BY <1>6, <2>1, <2>2 DEF Unused
<1>21. \A j \in Procs : j < k => Apart(j, k)'
  BY <1>9, <1>17, <1>18, <1>20 DEF Apart
<1>22. ASSUME NEW j \in Procs, j < k
       PROVE  file'[OutOf(j)] =
                 IF k = j + 1 THEN Written(p.said) ELSE file[OutOf(j)]
  <2>1. file'[OutOf(j)] = file[OutOf(j)]
    BY <1>16, <1>20, <1>22, Zenon
  <2>2. k = j + 1 => file[OutOf(j)] = Written(q.said)
    BY <1>2, <1>22, ThoseBefore
  <2> QED
    BY <1>9, <2>1, <2>2
<1>23. calls' \in 0 .. MaxCalls
  BY <1>2, CgiAssumption DEF CallInv
<1> QED
  BY <1>2, <1>9, <1>14, <1>16, <1>19, <1>21, <1>22, <1>23, LastSteps

LEMMA StepKeepsCalls == CallInv /\ [CgiNext]_cgiVars => CallInv'
<1> SUFFICES ASSUME CallInv, [CgiNext]_cgiVars PROVE CallInv'
  OBVIOUS
<1>1. CASE UNCHANGED cgiVars
  <2>1. proc' = proc /\ file' = file /\ calls' = calls
    BY <1>1 DEF cgiVars
  <2>2. ChainInv' /\ DiskOK' /\ calls' \in 0 .. MaxCalls
    BY <2>1 DEF CallInv, ChainInv, IsProcs, Chain, DiskOK
  <2>3. \A k \in Procs : Sound(proc[k])'
    BY <2>1 DEF CallInv
  <2>4. ASSUME NEW k \in Procs
        PROVE  InFiles(k)'
    <3>1. InFiles(k)
      BY DEF CallInv
    <3> QED
      BY <2>1, <3>1 DEF InFiles, InOf, OutOf
  <2>5. ASSUME NEW j \in Procs, NEW k \in Procs, j < k
        PROVE  Apart(j, k)'
    <3>1. Apart(j, k)
      BY <2>5 DEF CallInv
    <3> QED
      BY <2>1, <3>1 DEF Apart, InOf, OutOf
  <2> QED
    BY <2>2, <2>3, <2>4, <2>5 DEF CallInv
<1>2. CASE CgiNext
  <2> PICK k \in Procs : \/ \E b \in Bodies : Call(k, b)
                         \/ CallCrashes(k) \/ CallGoesOn(k) \/ Script(k) \/ ServerEnds(k)
    BY <1>2 DEF CgiNext
  <2>1. CASE \E b \in Bodies : Call(k, b)
    BY <2>1, CallKeeps
  <2>2. CASE CallCrashes(k)
    <3>1. calls' \in 0 .. MaxCalls
      BY <2>2, CgiAssumption DEF CallCrashes, CallInv
    <3> QED
      BY <2>2, <3>1, EndKeeps DEF CallCrashes
  <2>3. CASE ServerEnds(k) \/ ScriptEnds(k)
    <3>1. calls' \in 0 .. MaxCalls
      BY <2>3 DEF ServerEnds, ScriptEnds, CallInv
    <3> QED
      BY <2>3, <3>1, EndKeeps DEF ServerEnds, ScriptEnds
  <2>4. CASE Fork(k) \/ ForkFails(k) \/ Exec(k) \/ ExecFails(k)
    BY <2>4, ForkKeeps, ForkFailsKeeps, ExecKeeps, ExecFailsKeeps
  <2>5. CASE Reap(k) \/ Read(k) \/ Clean(k)
    BY <2>5, ReapKeeps, ReadKeeps, CleanKeeps
  <2>6. CASE ScriptReads(k) \/ \E u \in Units : ScriptWrites(k, u)
    BY <2>6, ScriptReadsKeeps, ScriptWritesKeeps
  <2> QED
    BY <2>1, <2>2, <2>3, <2>4, <2>5, <2>6 DEF CallGoesOn, Script
<1> QED
  BY <1>1, <1>2

LEMMA CallsStaySound == CgiSpec => []CallInv
<1> QED
  BY InitCall, StepKeepsCalls, PTL DEF CgiSpec

---------------------------------------------------------------------------
(* What follows from it.                                                   *)

\* The processes, their descriptors and the files are always of the shape
\* executeCgi expects, and the four descriptors of a call are four.
THEOREM CgiTypeCorrect == CgiSpec => []CgiTypeOK
<1>1. ASSUME CallInv, NEW k \in Procs
      PROVE  /\ proc[k].pc \in States
             /\ proc[k].pc \notin {"none", "zombie"} =>
                  proc[k].fd \in [Fds \cup {0, 1} -> Temp \cup {Closed, Stdin, Stdout}]
             /\ proc[k].pc \in InCall => Cardinality(Range(proc[k].own)) = 4
  <2>1. Sound(proc[k])
    BY <1>1 DEF CallInv
  <2>2. ASSUME proc[k].pc \in InCall
        PROVE  Cardinality(Range(proc[k].own)) = 4
    <3>1. Owning(proc[k])
      BY <2>1, <2>2 DEF Sound, Live, Descriptors, Called, InCall
    <3>2. Picked(proc[k].own, 4, Fds)
      BY <3>1 DEF Owning, Picked
    <3> QED
      BY <3>2, FourOf
  <2> QED
    BY <2>1, <2>2 DEF Sound, Live, Descriptors, Files
<1>2. CallInv => CgiTypeOK
  BY <1>1 DEF CgiTypeOK, CallInv, DiskOK
<1> QED
  BY <1>2, CallsStaySound, PTL

\* A script reads the body of its request and nothing else, all of it before it
\* meets the end, with any bodies and any calls before and around its own.
THEOREM ScriptsReadBodies == CgiSpec => []ScriptReadsBody
<1>1. ASSUME CallInv, NEW k \in Procs, proc[k].pc = "script"
      PROVE  /\ IsPrefix(proc[k].took, proc[k].body)
             /\ proc[k].eof => proc[k].took = proc[k].body
  <2> DEFINE q == proc[k]
  <2>1. /\ q.took = SubSeq(q.body, 1, Len(q.took)) /\ Memory(q)
        /\ q.eof => Len(q.took) = Len(q.body)
        /\ InOf(k) \in Temp /\ file[InOf(k)] = [data |-> q.body, at |-> Len(q.took)]
    BY <1>1, ScriptHas
  <2>2. q.body \in Seq(Bytes) /\ q.took \in Seq(Bytes)
    BY <2>1 DEF Memory
  <2>3. Len(q.took) <= Len(q.body)
    BY <1>1, <2>1 DEF CallInv, DiskOK
  <2>4. SubSeq(q.took, 1, Len(q.took)) = q.took /\ SubSeq(q.body, 1, Len(q.body)) = q.body
    BY <2>2
  <2> QED
    BY <2>1, <2>3, <2>4 DEF IsPrefix
<1>2. CallInv => ScriptReadsBody
  BY <1>1 DEF ScriptReadsBody
<1> QED
  BY <1>2, CallsStaySound, PTL

\* A call returns what its child wrote and nothing of another call, all of it when
\* there is no NUL in it, however long it is and whatever the size of the buffer.
THEOREM OutputsAreWhole == CgiSpec => []OutputWhole
<1>1. ASSUME CallInv, NEW k \in Procs, proc[k].pc = "clean"
      PROVE  AllRead(proc[k].told, proc[k].out)
  BY <1>1 DEF CallInv, InFiles
<1>2. CallInv => OutputWhole
  BY <1>1 DEF OutputWhole, AllRead
<1> QED
  BY <1>2, CallsStaySound, PTL

\* A server in its loop has the 0 and 1 it began with, and only the descriptors of
\* calls whose fork failed, four for each.
THEOREM DescriptorsComeBack == CgiSpec => []DescriptorsReturned
<1>1. ASSUME CallInv, NEW k \in Procs, proc[k].pc = "loop"
      PROVE  /\ proc[k].fd[0] = Stdin /\ proc[k].fd[1] = Stdout
             /\ Cardinality(Fds \ Available(k)) = proc[k].lost
  <2>1. Sound(proc[k])
    BY <1>1 DEF CallInv
  <2>2. Descriptors(proc[k]) /\ proc[k].lost \in Nat
    BY <1>1, <2>1 DEF Sound, Live
  <2>3. Standard(proc[k]) /\ ~ Called(proc[k])
    BY <1>1, <2>2 DEF Descriptors, Called, InCall
  <2>4. Fds \ Available(k) = Holds(proc[k])
    BY DEF Available, Holds
  <2>5. Cardinality(Holds(proc[k])) = proc[k].lost + 0
    BY <2>2, <2>3, Zenon DEF Descriptors
  <2> QED
    BY <2>2, <2>3, <2>4, <2>5 DEF Standard
<1>2. CallInv => DescriptorsReturned
  BY <1>1 DEF DescriptorsReturned
<1> QED
  BY <1>2, CallsStaySound, PTL
=============================================================================
