---------------------------- MODULE ConfigParser ----------------------------
(***************************************************************************)
(* From the words of a configuration file to server blocks                 *)
(* (Config::parseProcess, ServerBlock::parseServerBlock and                *)
(* parseLocationBlock, the add functions).  One position in the file is    *)
(* shared by all of them; a call of parseLocationBlock is a frame of the   *)
(* stack.  Each action handles one word.                                   *)
(*                                                                         *)
(* Words are strings, and so are values; a port, a code or a size is the   *)
(* number a word stands for.  The parser looks past the end of a file that *)
(* stops too early, at whatever that memory holds.                         *)
(***************************************************************************)
EXTENDS Integers, Sequences, FiniteSets, SequencesExt, TLC

CONSTANTS
    Files,        \* the files there may be, sequences of words
    Numbers,      \* Numbers[w]: the value of a word of digits, "" among them
    Colons,       \* Colons[w]: the parts before and after the ':' of a word
                  \* that has one: the numbers between dots, and a word
    Good,         \* those of them that are written as the parser expects
    Memory,       \* the words the memory after the file's last may hold
    DefaultBlock  \* the server block of default.conf as parsed

ASSUME ConfigParserAssumption ==
    /\ Files \subseteq Seq(STRING) /\ Memory \subseteq STRING
    /\ \A f \in Files : \A k \in DOMAIN f : f[k] # ""
    /\ "" \in DOMAIN Numbers
    /\ \A w \in DOMAIN Colons : Colons[w].host # <<>>

VARIABLES
    which,        \* the file being parsed: "default" or "config"
    file,         \* the words readFile found
    at,           \* index, counted from 1
    stack,        \* the blocks being parsed, the innermost last
    servers,      \* _serverBlocks
    state,        \* what the next word is read as, or how parsing ended
    past,         \* history: a word after the last one was looked at
    log           \* history: blocks opened and closed, add functions called

parserVars == <<which, file, at, stack, servers, state, past, log>>

R == INSTANCE Routing WITH Blocks <- {}, Default <- "", Servers <- <<>>,
        Children <- <<>>, Name <- <<>>, Parsed <- {}, Home <- <<>>,
        HomePage <- <<>>, Requests <- {}, Disks <- {}, raw <- <<>>, conf <- <<>>,
        calls <- <<>>, closed <- 0, route <- <<>>

\* directivesParseFunc and locationDirectivesParseFunc.
Common == {"root", "autoindex", "allow_methods", "error_page", "redirect", "index",
           "client_body_buffer_size", "cgi_param", "cgi_pass"}
Directives == [server |-> Common \cup {"server_name", "listen"},
               location |-> Common \cup {"alias"}]

\* A string that nothing was assigned to.
NoWord == ""

\* A ServerBlock as it is constructed.
NewBlock == [listen |-> <<>>, root |-> <<>>, names |-> <<>>, errors |-> <<>>,
             size |-> 0, params |-> <<>>, cgi |-> "", methods |-> {},
             index |-> <<>>, alias |-> <<>>, auto |-> FALSE, redirect |-> <<>>]

\* A call that parses a block: the block with its locations, each at the names
\* that lead to it, itself at <<>>; the directive whose words are being
\* collected, these words, and the name of the location about to be parsed.
Frame(kind) == [kind |-> kind, block |-> [names \in {<<>>} |-> NewBlock],
                dir |-> NoWord, args |-> <<>>, inner |-> NoWord]

Ends == {"accepted", "rejected", "crashed"}

ParserTypeOK ==
    /\ at \in Nat \ {0}
    /\ state \in {"top", "open", "block", "name", "brace"} \cup Ends
    /\ \A k \in DOMAIN stack :
         /\ stack[k].kind = "server" <=> k = 1
         /\ stack[k].dir \in Directives[stack[k].kind] \cup {NoWord}
         /\ stack[k].dir = NoWord => stack[k].args = <<>>
         /\ <<>> \in DOMAIN stack[k].block
         /\ \A names \in DOMAIN stack[k].block :
              /\ DOMAIN stack[k].block[names] = DOMAIN NewBlock
              /\ names # <<>> => Front(names) \in DOMAIN stack[k].block
    /\ state = "top" => stack = <<>>

---------------------------------------------------------------------------
(* The add functions.                                                      *)

IsNumber(w) == w \in DOMAIN Numbers

\* strToIp reads four numbers, and begins again when the dots run out.
StrToIp(parts) == [k \in 1 .. 4 |-> parts[((k - 1) % Len(parts)) + 1] % 256]

Listener(w) ==
    IF w \in DOMAIN Colons
    THEN [host |-> StrToIp(Colons[w].host), port |-> Numbers[Colons[w].port]]
    ELSE [host |-> <<0, 0, 0, 0>>, port |-> Numbers[w]]

\* Mutant: nor may a port with an address.
CanListenOnce(b, w) ==
    LET port == IF w \in DOMAIN Colons THEN Colons[w].port ELSE w
    IN  /\ IsNumber(port)
        /\ \A k \in DOMAIN b.listen : b.listen[k].port # Numbers[port]

\* A port without an address may not have been given before.
CanListen(b, w) ==
    IF w \in DOMAIN Colons THEN IsNumber(Colons[w].port)
    ELSE /\ IsNumber(w)
         /\ \A k \in DOMAIN b.listen : b.listen[k].port # Numbers[w]

\* Whether the function called for a directive throws.
CanAdd(dir, b, a) ==
    CASE dir \in {"server_name", "index"} -> a # <<>>
      [] dir = "allow_methods" -> a # <<>> /\ IsInjective(a)
      [] dir = "error_page" -> /\ Len(a) > 1 /\ ~IsNumber(Last(a))
                               /\ \A k \in 1 .. Len(a) - 1 : IsNumber(a[k])
      [] dir = "cgi_param" -> Len(a) = 2
      [] dir = "alias" -> Len(a) < 2
      [] dir = "listen" -> Len(a) = 1 /\ CanListen(b, a[1])
      [] dir = "root" -> Len(a) = 1 /\ b.root = <<>>
      [] dir = "redirect" -> Len(a) = 1 /\ b.redirect = <<>>
      [] dir = "cgi_pass" -> Len(a) = 1 /\ b.cgi = ""
      [] dir = "autoindex" -> Len(a) = 1 /\ a[1] \in {"on", "off"}
      [] dir = "client_body_buffer_size" -> Len(a) = 1 /\ IsNumber(a[1])

Added(dir, b, a) ==
    CASE dir = "server_name" -> [b EXCEPT !.names = @ \o a]
      [] dir = "index" -> [b EXCEPT !.index = @ \o a]
      [] dir = "allow_methods" -> [b EXCEPT !.methods = ToSet(a)]
      [] dir = "error_page" ->
            [b EXCEPT !.errors =
                [code \in {Numbers[w] : w \in ToSet(Front(a))} |-> Last(a)] @@ @]
      [] dir = "cgi_param" -> [b EXCEPT !.params = a[1] :> a[2] @@ @]
      [] dir = "alias" -> IF a = <<>> THEN b ELSE [b EXCEPT !.alias = a]
      [] dir = "listen" -> [b EXCEPT !.listen = Append(@, Listener(a[1]))]
      [] dir = "root" -> [b EXCEPT !.root = a]
      [] dir = "redirect" -> [b EXCEPT !.redirect = a]
      [] dir = "cgi_pass" -> [b EXCEPT !.cgi = a[1]]
      [] dir = "autoindex" -> [b EXCEPT !.auto = a[1] = "on"]
      [] dir = "client_body_buffer_size" -> [b EXCEPT !.size = Numbers[a[1]]]

---------------------------------------------------------------------------
(* Words and frames                                                        *)

Top == Last(stack)
SetTop(f) == [stack EXCEPT ![Len(stack)] = f]
InFile == at <= Len(file)

\* The word is file[index].
Reads(w) ==
    IF InFile THEN w = file[at] /\ UNCHANGED past
    ELSE w \in Memory /\ past' = TRUE

Words == ToSet(file) \cup Memory
Advance == at' = at + 1

\* The call for the directive whose words are complete, if there is one.
Pending(f) == IF f.dir = NoWord THEN <<>> ELSE <<<<f.dir>> \o f.args>>
CanCall(f) == f.dir # NoWord => CanAdd(f.dir, f.block[<<>>], f.args)

\* Mutant: the words are not cleared.
CalledKeepsArgs(f) ==
    IF f.dir = NoWord THEN f
    ELSE [f EXCEPT !.block[<<>>] = Added(f.dir, @, f.args), !.dir = NoWord]
Called(f) ==
    IF f.dir = NoWord THEN f
    ELSE [f EXCEPT !.block[<<>>] = Added(f.dir, @, f.args), !.dir = NoWord,
                   !.args = <<>>]

Stop(how) ==
    /\ state' = how
    /\ UNCHANGED <<which, file, at, stack, servers, log>>

---------------------------------------------------------------------------
(* parseProcess and _initDefaultServer                                     *)

\* The first two words of default.conf are skipped unseen.
ParserInit ==
    /\ which \in {"default", "config"} /\ file \in Files
    /\ at = IF which = "config" THEN 1 ELSE 3
    /\ stack = IF which = "config" THEN <<>> ELSE <<Frame("server")>>
    /\ servers = <<>> /\ past = FALSE /\ log = <<>>
    /\ state = CASE which = "config" -> "top"
                 [] file = <<>> /\ which = "default" -> "rejected"
                 [] OTHER -> "block"

TopServer ==
    /\ state = "top" /\ InFile /\ file[at] = "server"
    /\ state' = "open" /\ Advance
    /\ UNCHANGED <<which, file, stack, servers, past, log>>

TopOther ==
    /\ state = "top" /\ InFile /\ file[at] # "server"
    /\ Stop("rejected") /\ UNCHANGED past

TopEnd == state = "top" /\ ~InFile /\ Stop("accepted") /\ UNCHANGED past

Open ==
    /\ state = "open" /\ Reads("{")
    /\ state' = "block" /\ Advance
    /\ stack' = <<Frame("server")>>
    /\ log' = Append(log, <<"server">>)
    /\ UNCHANGED <<which, file, servers>>

OpenOther ==
    /\ state = "open"
    /\ \E w \in Words : Reads(w) /\ w # "{"
    /\ Stop("rejected")

---------------------------------------------------------------------------
(* The loops of parseServerBlock and parseLocationBlock                    *)

InBlock == state = "block" /\ InFile
Kind(w) == CASE w \in Directives[Top.kind] -> "directive"
             [] w \in {"location", "}"} -> w
             [] OTHER -> "argument"

DirectiveWord ==
    /\ InBlock /\ Kind(file[at]) = "directive" /\ CanCall(Top)
    /\ stack' = SetTop([Called(Top) EXCEPT !.dir = file[at]])
    /\ log' = log \o Pending(Top)
    /\ Advance
    /\ UNCHANGED <<which, file, servers, state, past>>

\* Any other word, "{" too, is taken for an argument.
ArgumentWord ==
    /\ InBlock /\ Kind(file[at]) = "argument" /\ Top.dir # NoWord
    /\ stack' = SetTop([Top EXCEPT !.args = Append(@, file[at])])
    /\ Advance
    /\ UNCHANGED <<which, file, servers, state, past, log>>

StrayWord ==
    /\ InBlock /\ Kind(file[at]) = "argument" /\ Top.dir = NoWord
    /\ Stop("rejected") /\ UNCHANGED past

\* The function called throws: at the next directive, at a location, or where
\* the loop ends.
CallThrows ==
    /\ state = "block" /\ ~CanCall(Top)
    /\ InFile => Kind(file[at]) # "argument"
    /\ Stop("rejected") /\ UNCHANGED past

\* Mutant: the call for the directive before is not made.
LocationWordFirst ==
    /\ InBlock /\ Kind(file[at]) = "location"
    /\ state' = "name" /\ Advance
    /\ UNCHANGED <<which, file, stack, servers, past, log>>

LocationWord ==
    /\ InBlock /\ Kind(file[at]) = "location" /\ CanCall(Top)
    /\ stack' = SetTop(Called(Top))
    /\ log' = log \o Pending(Top)
    /\ state' = "name" /\ Advance
    /\ UNCHANGED <<which, file, servers, past>>

LocationName ==
    /\ state = "name"
    /\ \E w \in Words \ {"{", "}"} :
         Reads(w) /\ stack' = SetTop([Top EXCEPT !.inner = w])
    /\ state' = "brace" /\ Advance
    /\ UNCHANGED <<which, file, servers, log>>

NoName ==
    /\ state = "name"
    /\ \E w \in {"{", "}"} : Reads(w)
    /\ Stop("rejected")

LocationOpens ==
    /\ state = "brace" /\ Reads("{")
    /\ stack' = Append(stack, Frame("location"))
    /\ log' = Append(log, <<"location", Top.inner>>)
    /\ state' = "block" /\ Advance
    /\ UNCHANGED <<which, file, servers>>

NoBrace ==
    /\ state = "brace"
    /\ \E w \in Words : Reads(w) /\ w # "{"
    /\ Stop("rejected")

---------------------------------------------------------------------------
(* The end of a block                                                      *)

\* own.passMembers on the locations of b, in whose place own is, and so on inwards.
Inwards(own, b) ==
    LET filled[names \in DOMAIN b] ==
            IF names = <<>> THEN own
            ELSE R!PassedOn(filled[Front(names)], b[names])
    IN  filled

Given == IF which = "config" THEN DefaultBlock ELSE NewBlock

\* Mutant: the locations are filled before the server block is.
FilledLate(b) == [Inwards(b[<<>>], b) EXCEPT ![<<>>] = R!PassedOn(Given, @)]

\* The default block is passed to a server block and with it to its locations,
\* and then the server block to its locations.
Filled(b) ==
    LET s == Inwards(R!PassedOn(Given, b[<<>>]), b)
    IN  Inwards(s[<<>>], s)

\* The loop is left at a "}", or at the end of the file; either way the word
\* there decides.
Closing(kind) ==
    /\ state = "block" /\ CanCall(Top) /\ Top.kind = kind
    /\ Reads("}")
    /\ log' = log \o Pending(Top) \o <<<<"}">>>>

ServerCloses ==
    /\ Closing("server")
    /\ servers' = Append(servers, Filled(Called(Top).block))
    /\ stack' = <<>> /\ Advance
    /\ state' = IF which = "config" THEN "top" ELSE "accepted"
    /\ UNCHANGED <<which, file>>

\* The block around a location with the location stored under its name, which
\* an earlier one with that name gives way to.
Storing(outer, b) ==
    LET others == {names \in DOMAIN outer.block : names = <<>> \/ names[1] # outer.inner}
    IN  [outer EXCEPT !.block =
            [names \in others \cup {<<outer.inner>> \o q : q \in DOMAIN b} |->
                IF names \in others THEN outer.block[names] ELSE b[Tail(names)]]]

\* Mutant: the word after the "}" is skipped.
LocationClosesTwice ==
    /\ Closing("location")
    /\ stack' = Append(SubSeq(stack, 1, Len(stack) - 2),
                       Storing(stack[Len(stack) - 1], Called(Top).block))
    /\ at' = at + 2
    /\ UNCHANGED <<which, file, servers, state>>

LocationCloses ==
    /\ Closing("location")
    /\ stack' = Append(SubSeq(stack, 1, Len(stack) - 2),
                       Storing(stack[Len(stack) - 1], Called(Top).block))
    /\ Advance
    /\ UNCHANGED <<which, file, servers, state>>

Unclosed ==
    /\ state = "block" /\ ~InFile /\ CanCall(Top)
    /\ \E w \in Memory : Reads(w) /\ w # "}"
    /\ Stop("rejected")

\* What the memory past the end holds cannot be read as a word at all.
Crash ==
    /\ state \in {"open", "name", "brace", "block"} /\ ~InFile
    /\ state = "block" => CanCall(Top)
    /\ past' = TRUE /\ Stop("crashed")

---------------------------------------------------------------------------
ParserNext ==
    \/ TopServer \/ TopOther \/ TopEnd \/ Open \/ OpenOther
    \/ DirectiveWord \/ ArgumentWord \/ StrayWord \/ CallThrows
    \/ LocationWord \/ LocationName \/ NoName \/ LocationOpens \/ NoBrace
    \/ ServerCloses \/ LocationCloses \/ Unclosed \/ Crash

ParserSpec == ParserInit /\ [][ParserNext]_parserVars

\* The parser runs until it has read the file.
FairParserSpec == ParserSpec /\ WF_parserVars(ParserNext)

---------------------------------------------------------------------------
(* Properties                                                              *)

\* The words behind an event of the log, and those read and not yet acted on.
EventWords(e) == CASE e[1] = "server" -> <<"server", "{">>
                   [] e[1] = "location" -> Append(e, "{")
                   [] OTHER -> e
Collected == CASE state = "open" -> <<"server">>
               [] state = "name" -> <<"location">>
               [] state = "brace" -> <<"location", Top.inner>>
               [] state = "block" -> FlattenSeq(Pending(Top))
               [] OTHER -> <<>>

\* Every word read is accounted for, once and in its place: as a block opened or
\* closed, as a directive called with exactly the words that follow it, or as
\* waiting for one of these.  Nothing is dropped where the nested parsers hand
\* the position to each other, and no directive gets another one's words.
NothingLost ==
    state \notin {"rejected", "crashed"} /\ ~past =>
        FlattenSeq([k \in DOMAIN log |-> EventWords(log[k])]) \o Collected
            = SubSeq(file, IF which = "config" THEN 1 ELSE 3, at - 1)

Count(w, from) == Cardinality({k \in from .. Len(file) : file[k] = w})

\* The parser looks past the last word only in a file that leaves a block open or
\* that ends in "server"; for default.conf, whose first two words are skipped, also
\* in one that has only one.
PastEndOnlyIfUnclosed ==
    past => \/ Len(file) = 1 \/ Last(file) = "server"
            \/ which = "config" /\ Count("{", 1) > Count("}", 1)
            \/ which = "default" /\ Count("{", 3) >= Count("}", 3)

\* A file written as the parser expects is accepted, whatever combination of
\* directives, repeated listeners and nested locations it holds.
GoodFilesAccepted == file \in Good ~> state = "accepted"

\* The blocks of the log that were open at event e, and the innermost one.
IsOpening(e) == log[e][1] \in {"server", "location"}
Inside(e) ==
    {o \in 1 .. e - 1 :
        /\ IsOpening(o)
        /\ \A m \in o .. e - 1 :
             Cardinality({x \in o .. m : IsOpening(x)}) >
             Cardinality({x \in o .. m : log[x] = <<"}">>})}
Newest(S) == CHOOSE o \in S : \A p \in S : p <= o
Parent(e) == Newest(Inside(e))
Around(o) == Inside(o) \cup {o}

\* No later location with the same name took the place of o or a block around it.
Stands(o) ==
    \A l \in Around(o) : log[l][1] = "location" =>
        ~\E m \in l + 1 .. Len(log) : log[m] = log[l] /\ Parent(m) = Parent(l)

\* The names that lead to the block opened by event o, and what became of it.
Names(o) ==
    [depth \in 1 .. Cardinality(Inside(o)) |->
        log[Newest({l \in Around(o) : Cardinality(Inside(l)) = depth})][2]]
Parsed(o) == servers[Cardinality({x \in 1 .. o : log[x][1] = "server"})][Names(o)]

\* The arguments of the last directive dir in block o itself, and those that are
\* stated nearest to it.
Stated(o, dir) ==
    LET own == {e \in DOMAIN log : log[e][1] = dir /\ Parent(e) = o}
    IN  IF own = {} THEN <<>> ELSE Tail(log[Newest(own)])
Nearest(o, dir) ==
    LET stating == {l \in Around(o) : Stated(l, dir) # <<>>}
    IN  IF stating = {} THEN <<>> ELSE Stated(Newest(stating), dir)

\* Every block of an accepted file has the settings its text gives it: those of
\* the nearest block around it that states them, and what default.conf states
\* otherwise.
SettingsFollowText ==
    state = "accepted" /\ which = "config" /\ ~past =>
        \A o \in {x \in DOMAIN log : IsOpening(x) /\ Stands(x)} :
            LET b == Parsed(o)
                stated(dir) == Nearest(o, dir) # <<>>
            IN  /\ b.root = IF stated("root") THEN Nearest(o, "root") ELSE DefaultBlock.root
                /\ b.methods = IF stated("allow_methods")
                               THEN ToSet(Nearest(o, "allow_methods"))
                               ELSE DefaultBlock.methods
                /\ b.cgi = IF stated("cgi_pass") THEN Nearest(o, "cgi_pass")[1]
                           ELSE DefaultBlock.cgi
                /\ b.auto <=> Stated(o, "autoindex") = <<"on">>
=============================================================================
