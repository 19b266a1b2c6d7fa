-------------------------------- MODULE Cgi --------------------------------
(***************************************************************************)
(* CgiHandler::executeCgi (cgi/CgiHandler.cpp): the temporary files, the   *)
(* descriptors, fork, execve and waitpid, on every way out of it.          *)
(*                                                                         *)
(* A process that waits has exactly one child alive, so that the processes *)
(* form a chain: process k+1 is the child of process k, and process 1 is   *)
(* the server main started.  A child whose execve fails returns from       *)
(* executeCgi as its parent would, and goes on as a server; it may then    *)
(* answer requests, call executeCgi, and have children, like process 1.    *)
(*                                                                         *)
(* Descriptors are numbers of a process; they refer to open files, which   *)
(* fork shares between parent and child together with their offsets.       *)
(***************************************************************************)
EXTENDS Integers, Sequences, FiniteSets, SequencesExt

CONSTANTS
    MaxProcs,     \* bound: processes alive at a time
    MaxCalls,     \* bound: calls of executeCgi in one behaviour
    Fds,          \* a process's descriptors besides 0 and 1
    Bodies,       \* the request bodies, sequences of units
    Units,        \* what a script writes: "text", or a NUL character
    MaxOut,       \* bound: units one script writes
    BufSize       \* units one read() takes, CGI_BUFSIZE - 1

\* What a file may hold; "500" stands for the line a failed execve writes.
Bytes == Units \cup {"500"} \cup UNION {Range(b) : b \in Bodies}

ASSUME CgiAssumption ==
    /\ Bodies \subseteq Seq(Bytes)
    /\ MaxProcs \in Nat \ {0} /\ MaxCalls \in Nat /\ MaxOut \in Nat
    /\ Fds \subseteq Nat \ {0, 1} /\ IsFiniteSet(Fds)
    /\ BufSize \in Nat \ {0}

Procs == 1 .. MaxProcs

\* Open files: what main had as 0 and 1, and temporary ones, as many as all the
\* descriptors can refer to.  A descriptor that is not open refers to Closed.
Closed == 0
Stdin == 1
Stdout == 2
Temp == 3 .. 2 + MaxProcs * Cardinality(Fds)

VARIABLES
    proc,         \* the processes
    file,         \* the temporary files: data and offset
    calls         \* how many times executeCgi was called

cgiVars == <<proc, file, calls>>

\* "loop": a server that is not in executeCgi; "fork": in it, the files made;
\* "wait": in waitpid; "read": after it; "clean": at its end; "child": between
\* fork and execve; "script": execve succeeded; "zombie": ended, not waited
\* for; "none": no such process.
States == {"none", "loop", "fork", "wait", "read", "clean",
           "child", "script", "zombie"}

\* fd maps descriptors to open files.  own is what tmpStdin, tmpStdout, fdIn and
\* fdOut hold during a call; body and out are _body and cgiBody.  The others are
\* history: lost, the descriptors no call returned; said, what the process wrote
\* to its parent's output file, and told, what its last child did; took, what a
\* script read, and eof, that it has met the end of its input.
NoProc == [pc |-> "none", fd |-> <<>>, own |-> <<>>, body |-> <<>>, out |-> <<>>,
           lost |-> 0, said |-> <<>>, told |-> <<>>, took |-> <<>>, eof |-> FALSE]

InCall == {"fork", "wait", "read", "clean", "child"}

CgiTypeOK ==
    /\ \A k \in Procs :
         /\ proc[k].pc \in States
         /\ proc[k].pc \notin {"none", "zombie"} =>
              proc[k].fd \in [Fds \cup {0, 1} -> Temp \cup {Closed, Stdin, Stdout}]
         /\ proc[k].pc \in InCall => Cardinality(Range(proc[k].own)) = 4
    /\ file \in [Temp -> [data : Seq(Bytes), at : Nat]]
    /\ \A f \in Temp : file[f].at <= Len(file[f].data)
    /\ calls \in 0 .. MaxCalls

\* One server, in its loop.
CgiInit ==
    /\ proc = [k \in Procs |->
                 IF k = 1
                 THEN [NoProc EXCEPT !.pc = "loop",
                         !.fd = [f \in Fds \cup {0, 1} |->
                                   CASE f = 0 -> Stdin [] f = 1 -> Stdout
                                     [] OTHER -> Closed]]
                 ELSE NoProc]
    /\ file = [f \in Temp |-> [data |-> <<>>, at |-> 0]]
    /\ calls = 0

---------------------------------------------------------------------------
(* Before fork                                                             *)

Available(k) == {f \in Fds : proc[k].fd[f] = Closed}
Unused == {f \in Temp : \A k \in Procs : f \notin Range(proc[k].fd)}
Lowest(n, S) ==
    [i \in 1 .. n |-> CHOOSE x \in S : Cardinality({y \in S : y < x}) = i - 1]

\* Mutant: the input is not rewound before the fork.
InputAtEnd(body) == [data |-> body, at |-> Len(body)]

\* write() of the body and lseek() to its beginning.
Input(body) == [data |-> body, at |-> 0]

\* Mutant: fileno() of the same file twice.
OwnTwice(k) == [Lowest(4, Available(k)) EXCEPT ![4] = Lowest(4, Available(k))[3]]

\* Two dup() and two tmpfile(): the lowest descriptors, and new files.
Own(k) == Lowest(4, Available(k))
Holding(fd, own, new) ==
    [f \in DOMAIN fd |->
        CASE f = own[1] -> fd[0] [] f = own[2] -> fd[1]
          [] f = own[3] -> new[1] [] f = own[4] -> new[2] [] OTHER -> fd[f]]

Call(k, body) ==
    LET own == Own(k)
        new == Lowest(2, Unused)
    IN  /\ proc[k].pc = "loop" /\ calls < MaxCalls
        /\ Cardinality(Available(k)) >= 4
        /\ proc' = [proc EXCEPT ![k].pc = "fork", ![k].own = own,
                                ![k].fd = Holding(@, own, new), ![k].body = body]
        /\ file' = [file EXCEPT ![new[1]] = Input(body),
                                ![new[2]] = [data |-> <<>>, at |-> 0]]
        /\ calls' = calls + 1

Ended(p) == [NoProc EXCEPT !.pc = "zombie", !.said = p.said]

\* tmpfile() returns NULL, and fileno() of it ends the process.
CallCrashes(k) ==
    /\ proc[k].pc = "loop" /\ calls < MaxCalls
    /\ Cardinality(Available(k)) < 4
    /\ proc' = [proc EXCEPT ![k] = Ended(@)]
    /\ calls' = calls + 1
    /\ UNCHANGED file

---------------------------------------------------------------------------
(* fork and execve                                                         *)

Back(p) == [p EXCEPT !.pc = "loop", !.own = <<>>, !.body = <<>>, !.out = <<>>,
                     !.told = <<>>]

\* The early return: nothing is closed.
ForkFails(k) ==
    /\ proc[k].pc = "fork"
    /\ proc' = [proc EXCEPT ![k] = [Back(proc[k]) EXCEPT !.lost = @ + 4]]
    /\ UNCHANGED <<file, calls>>

Fork(k) ==
    /\ proc[k].pc = "fork" /\ k < MaxProcs
    /\ proc' = [proc EXCEPT ![k].pc = "wait",
                            ![k + 1] = [proc[k] EXCEPT !.pc = "child", !.said = <<>>]]
    /\ UNCHANGED <<file, calls>>

\* The child's dup2() of its files over 0 and 1.
Redirected(p) == [p EXCEPT !.fd[0] = p.fd[p.own[3]], !.fd[1] = p.fd[p.own[4]]]

\* One unit written through descriptor 1 of process p.
Wrote(p, unit) ==
    file' = [file EXCEPT ![p.fd[1]] =
               [data |-> Append(SubSeq(@.data, 1, @.at), unit), at |-> @.at + 1]]

Exec(k) ==
    /\ proc[k].pc = "child"
    /\ proc' = [proc EXCEPT ![k] = [Redirected(@) EXCEPT !.pc = "script"]]
    /\ UNCHANGED <<file, calls>>

\* The child goes on to the end of the function with an empty cgiBody.
ExecFails(k) ==
    /\ proc[k].pc = "child"
    /\ Wrote(Redirected(proc[k]), "500")
    /\ proc' = [proc EXCEPT ![k] = [Redirected(@) EXCEPT !.pc = "clean",
                                                         !.said = <<"500">>]]
    /\ UNCHANGED calls

---------------------------------------------------------------------------
(* The script, which is not part of the repository                         *)

ScriptReads(k) ==
    LET p == proc[k]
        f == file[p.fd[0]]
    IN  /\ p.pc = "script" /\ ~p.eof
        /\ IF f.at < Len(f.data)
           THEN /\ file' = [file EXCEPT ![p.fd[0]].at = @ + 1]
                /\ proc' = [proc EXCEPT ![k].took = Append(@, f.data[f.at + 1])]
           ELSE /\ proc' = [proc EXCEPT ![k].eof = TRUE]
                /\ UNCHANGED file
        /\ UNCHANGED calls

ScriptWrites(k, unit) ==
    /\ proc[k].pc = "script" /\ Len(proc[k].said) < MaxOut
    /\ Wrote(proc[k], unit)
    /\ proc' = [proc EXCEPT ![k].said = Append(@, unit)]
    /\ UNCHANGED calls

ScriptEnds(k) ==
    /\ proc[k].pc = "script"
    /\ proc' = [proc EXCEPT ![k] = Ended(@)]
    /\ UNCHANGED <<file, calls>>

---------------------------------------------------------------------------
(* The parent after fork                                                   *)

OutOf(k) == proc[k].fd[proc[k].own[4]]

Reaps(k, rewound) ==
    /\ proc' = [proc EXCEPT ![k].pc = "read", ![k].told = proc[k + 1].said,
                            ![k + 1] = NoProc]
    /\ file' = [file EXCEPT ![OutOf(k)].at = IF rewound THEN 0 ELSE @]
    /\ UNCHANGED calls

\* Mutants: the output is not rewound; the child is not waited for.
ReapInPlace(k) ==
    proc[k].pc = "wait" /\ proc[k + 1].pc = "zombie" /\ Reaps(k, FALSE)
ReapAtOnce(k) ==
    /\ proc[k].pc = "wait"
    /\ proc' = [proc EXCEPT ![k].pc = "read"]
    /\ UNCHANGED <<file, calls>>

\* waitpid() without a limit, and lseek().
Reap(k) ==
    proc[k].pc = "wait" /\ proc[k + 1].pc = "zombie" /\ Reaps(k, TRUE)

\* cgiBody += buffer: a C string, which ends at the first NUL.
UpToNul(piece) ==
    LET nul == SelectInSeq(piece, LAMBDA u : u = "nul")
    IN  IF nul = 0 THEN piece ELSE SubSeq(piece, 1, nul - 1)

\* Mutant: the loop goes on while read() does not fail.
ReadForEver(k) ==
    LET f == file[OutOf(k)]
        n == Min({BufSize, Len(f.data) - f.at})
    IN  /\ proc[k].pc = "read"
        /\ proc' = [proc EXCEPT ![k].out = @ \o
                      UpToNul(SubSeq(f.data, f.at + 1, f.at + n))]
        /\ file' = [file EXCEPT ![OutOf(k)].at = @ + n]
        /\ UNCHANGED calls

\* One turn of the reading loop, which ends with an empty one.
Read(k) ==
    LET f == file[OutOf(k)]
        n == Min({BufSize, Len(f.data) - f.at})
    IN  /\ proc[k].pc = "read"
        /\ proc' = [proc EXCEPT
                      ![k].out = @ \o UpToNul(SubSeq(f.data, f.at + 1, f.at + n)),
                      ![k].pc = IF n = 0 THEN "clean" ELSE @]
        /\ file' = [file EXCEPT ![OutOf(k)].at = @ + n]
        /\ UNCHANGED calls

\* dup2() of the saved descriptors back to 0 and 1, and the four closed.
Restored(p, closing) ==
    [f \in DOMAIN p.fd |->
        CASE f = 0 -> p.fd[p.own[1]] [] f = 1 -> p.fd[p.own[2]]
          [] OTHER -> IF f \in closing THEN Closed ELSE p.fd[f]]

\* Mutant: tmpStdout is not closed.
CleanKeepsOne(k) ==
    /\ proc[k].pc = "clean"
    /\ proc' = [proc EXCEPT ![k] =
                  [Back(@) EXCEPT !.fd = Restored(proc[k],
                                           Range(proc[k].own) \ {proc[k].own[2]})]]
    /\ UNCHANGED <<file, calls>>

Clean(k) ==
    /\ proc[k].pc = "clean"
    /\ proc' = [proc EXCEPT ![k] =
                  [Back(@) EXCEPT !.fd = Restored(proc[k], Range(proc[k].own))]]
    /\ UNCHANGED <<file, calls>>

\* run() returns for one of the reasons it has (see Webserver).
ServerEnds(k) ==
    /\ proc[k].pc = "loop"
    /\ proc' = [proc EXCEPT ![k] = Ended(@)]
    /\ UNCHANGED <<file, calls>>

---------------------------------------------------------------------------
\* What executeCgi does once it was called.
CallGoesOn(k) ==
    \/ Fork(k) \/ ForkFails(k) \/ Exec(k) \/ ExecFails(k)
    \/ Reap(k) \/ Read(k) \/ Clean(k)

Script(k) ==
    \/ ScriptReads(k) \/ ScriptEnds(k)
    \/ \E u \in Units : ScriptWrites(k, u)

CgiNext == \E k \in Procs :
    \/ \E b \in Bodies : Call(k, b)
    \/ CallCrashes(k) \/ CallGoesOn(k) \/ Script(k) \/ ServerEnds(k)

\* The processes run, and every script ends at some time; requests need not
\* come, and a server need not end.
CgiFairness == \A k \in Procs :
    WF_cgiVars(CallGoesOn(k)) /\ WF_cgiVars(ScriptEnds(k))

CgiSpec == CgiInit /\ [][CgiNext]_cgiVars /\ CgiFairness

---------------------------------------------------------------------------
(* Properties                                                              *)

\* Two processes never run server code at the same time, although a failed
\* execve leaves a second server with the same listeners and connections: all
\* but the last are in waitpid.
Running(k) == proc[k].pc \in {"loop", "fork", "read", "clean", "child"}
OneServer == \A j, k \in Procs : Running(j) /\ Running(k) => j = k

\* A script reads the body of its request and nothing else, all of it before
\* it meets the end, although the file and its offset are shared with the
\* server and the descriptors may have been used by earlier calls.
ScriptReadsBody ==
    \A k \in Procs : proc[k].pc = "script" =>
        /\ IsPrefix(proc[k].took, proc[k].body)
        /\ proc[k].eof => proc[k].took = proc[k].body

\* A call returns what its child wrote, in order; all of it when there is no NUL
\* in it, however it is cut into pieces; and nothing of another call.
OutputWhole ==
    \A k \in Procs : proc[k].pc = "clean" =>
        IF "nul" \in Range(proc[k].told)
        THEN Len(proc[k].out) < Len(proc[k].told)
        ELSE proc[k].out = proc[k].told

\* When a server is back in its loop, 0 and 1 are what they were, and the only
\* descriptors it still has are the four of each call whose fork failed, in
\* the server that a failed execve leaves behind as well as in its parent.
DescriptorsReturned ==
    \A k \in Procs : proc[k].pc = "loop" =>
        /\ proc[k].fd[0] = Stdin /\ proc[k].fd[1] = Stdout
        /\ Cardinality(Fds \ Available(k)) = proc[k].lost

\* As long as every script ends, a server is always in its loop again, in one
\* process or another, until process 1 ends; no failure on the way leaves all
\* of them waiting.
ServiceReturns ==
    []<>(proc[1].pc = "zombie" \/ \E k \in Procs : proc[k].pc = "loop")
=============================================================================
