# mginx in TLA+

A model of mginx, the single-threaded HTTP/1.1 server of this repository, with
TLC configurations that check it on small instances and TLAPS proofs about its
event loop, the requests of an entry, its CGI calls, the loading of its
configuration and the parser of the file. Paths
are relative to the repository's root.

## The system

| Component | State | Operations | Modelled in |
|---|---|---|---|
| Event loop, `webserver/Webserver.cpp` | `_process_v` (entries, never removed), `_socket_v` (bound listeners), `_fd_set` | `init`, `setup`, `run`: one `select`, then one write, read or accept; `handle_error` | `Webserver`, `Service` |
| Connection entry, `webserver/WebserverProcess.cpp` | descriptor, listener, `_req`, `_header_index`, `_request`, `_response`, `_res`, `_write_ret_sum`, `_ready_to_response` | `accept`, `readRequest`, `decodeChunk`, `process`, `writeResponse`, `operator=`, `findServerBlock` | `Framing`, `Webserver`, `Exchange`, `Routing` |
| Kernel and clients | sockets, buffers, backlog | connect, send, receive, close, reset | `Sockets` (external) |
| Request parser, `request/Request.cpp` | method, path, query, version, headers, CGI variables, body, status: all outlive a request | `parseProcess`, `parseStartLine`, `parseBody`, `initBody`, `operator=` | `Exchange` |
| Response, `response/Response.cpp` | `_response`, `_type`, `_location`, status | `run`, five methods, `readContent`, `writeContent`, `setCgiResult`, `initResponse`, `operator=` | `Exchange` |
| Response header, `response/ResponseHeader.cpp` | none (built per answer) | `getHeader`, `notAllowedMethod` | `Exchange`: type, Location, Allow |
| Effective settings, `response/GetConf.cpp` | none (built per request) | target path, content location, alias, index file, CGI parameters | `Routing`, `Exchange` |
| Configuration, `config/` | server blocks, nested locations, default block | `parseProcess`, `parseServerBlock`, `parseLocationBlock`, the add functions, `passMembers`, `getLocationForRequest`, `_allListens` | `ConfigParser`, `Routing` |
| CGI, `cgi/CgiHandler.cpp` | temporary files, saved descriptors, a child | `_initEnv`, `executeCgi` | `Cgi`; `Exchange` has the environment and takes the result as given |
| Autoindex, string helpers | none | formatting | abstracted |
| `client/` | | a test program | not modelled |

**How they interact.** `main` parses the configuration, binds the listeners and
enters `run`. The loop calls `readRequest` on an entry; when the request is
whole, `process` decodes it, has `Request` parse it, finds the server block and
location, builds a `GetConf`, and lets `Response::run` compute the answer, which
includes reading and writing files and waiting for a CGI. Later iterations call
`writeResponse` until the answer is out. All calls are synchronous: concurrency
is between the server thread, its clients, the kernel, and the processes that
`fork` makes: a CGI script, or, when `execve` fails, a second server.

**What is hard about it.**
 * Entries outlive their connections, and descriptor numbers are used again: the
   first entry with the number serves the new connection, with whatever it has
   kept (listener, unfinished request, parser status).
 * `_request` and `_response` live as long as the entry, and most of their
   fields are never reset.
 * Requests arrive in pieces cut anywhere, or before the previous answer is out.
 * A client may close or reset at any point, also with an answer pending; a
   closed descriptor in a set makes `select` fail, and then the server ends.
 * Answers go out in pieces, with other clients' events between them.
 * `passMembers` updates blocks in place and reaches every location twice.
 * The nested parsers share one position in the file, call a directive only when
   the next word that is not its argument is met, and do not check where the
   file ends.
 * `executeCgi` shares open files and their offsets with its child, has ways out
   that skip its cleaning up, and waits without a limit.

`PROJECT.json` lists these hazards at their lines with the properties that
would catch each.

## Modules

| Module | What it models |
|---|---|
| `Framing` | When `readRequest` takes a request for whole, and what `decodeChunk` makes of it. A request is a sequence of tokens, the pieces of text the code searches for. Pure operators. |
| `Sockets` | The environment: backlog, descriptors, what clients sent and have not received. Pure environment actions. |
| `Webserver` | The loop and its entries; `EXTENDS Sockets`. One action per way an iteration can go: `Select`, `WriteSome`, `ReadWait`, `ReadAnswer`, `ReadMute`, `ReadClose`, `ReadError`, `Accept`, and those that end the process (`SelectFails`, `WriteFails`, `WriteThrows`, `ReadThrows`, `AcceptFails`). |
| `Streams` | `EXTENDS Webserver`: what every entry, buffer and connection has to do with its client's script, as invariants that hold while clients wait for their answers; and what can end the process. |
| `Service` | What a client that waits for its answers is promised, without entries, descriptors or `select`. `Webserver` implements it (`ImplementsService`). |
| `Cgi` | `executeCgi` in every process that may run it. Processes form a chain, each waiting for the next; descriptors refer to open files that parent and child share. |
| `ConfigParser` | Parsing, one word per action, with a stack of blocks; the functions of `directivesParseFunc`. What a closed block takes from the default block is `Routing`'s operator `PassedOn`. |
| `Routing` | Loading (`CloseServer`, `PassMembers`: one call per step, with the stack of calls to come), `FindServer`, `Located`, `Target`, `ContentLocation`, and one request (`Serve`). |
| `Exchange` | The requests one entry is given, one after the other, and the files. Uses `Routing` by `INSTANCE`, with the settings as a constant. |
| `MCWebserver`, `MCRouting`, `MCExchange`, `MCCgi`, `MCConfigParser` | Instances for TLC. |
| `WebserverProofs`, `PlaceProofs`, `StreamProofs`, `CgiProofs`, `ExchangeProofs`, `RoutingProofs`, `ParserProofs`, `SettingsProofs` | Lemmas and theorems. |

Correspondence, beyond what the map in `PROJECT.json` says line by line:
`procs` is `_process_v`; an entry's `fd`, `lis`, `req`, `hidx`, `ready`, `sent`
are `_connected_fd`, `_listen_info`, `_req`, `_header_index` (0 for unset and
for npos alike), `_ready_to_response`, `_write_ret_sum`; `res` is `_res` with the
request it was computed from; `verdict` is what is left of `_request` in
`Webserver`, its status. `fdset` is the part of `_fd_set` that holds
connections; the listeners' part never changes after `setup`, and `Select`
accounts for the socket of a listener that could not be bound. In `Exchange`,
`request` is `_request` (`env` is `_env_for_cgi`, `known` that the map `_headers`
has a Www-Authenticate), `text` is `_response._response`, `kept` its `_type` and
`_location`, `disk` the regular files; `session` only chooses which requests a
behaviour draws from, and `Move` is the copy of an entry when the vector grows.
In `Cgi`, `own` holds `tmpStdin`, `tmpStdout`, `fdIn` and `fdOut`, `out` is
`cgiBody`, and a process that is a script has left the code of the repository. In
`ConfigParser`, `at` is `index` counted from 1, `state` is what the next word is
read as, `dir`, `args` and `inner` are `directive`, `args` and `locationName` of a
call. History variables (`got`, `raw`, `log`, `past`, the fields `lost`, `said`,
`told`, `took`, `eof` of a process, and `answer` but for whether one is pending) are
read by properties only. The body of an answer in `Exchange` is a word for what it is
made of ("listing", "page", "file", "cgi"), with one for what is left of an
earlier answer and one for a body cut to an earlier length.

What an answer is does not matter to the loop, so `Webserver` leaves its length
open (`Sizes`); `Exchange` has the contents and leaves out the sockets. In both a
request that was processed may be processed again when more bytes arrive.
`Exchange` takes a CGI's result as given and `Cgi` says when there is one;
`Routing` starts from blocks and `ConfigParser` says how these come from a file.

## Runs

All runs have `CHECK_DEADLOCK FALSE`: the server waits for ever when no client
has anything more to do, the process may end, and a behaviour of `Routing` ends
with its request, one of `ConfigParser` with its file.

| Run | Question | Result |
|---|---|---|
| `loop_polite` | Two clients on two ports, two requests each (POST with body, a rejected line, chunked POST, GET); they wait for each answer and leave when they have all. Does the server survive, does every entry hold what its connection still has to be answered (`Settled`), is every answer whole, matched to its request, and finally there; is this `Service`? | holds |
| `loop_departing` | Three clients on one listener and two descriptors, two of which close and reset whenever they like, or stay; one asks for a method that has no answer, one gets an answer and then sends chunks that do not parse, one only connects. Do answers stay with their owners, is every connection served as it should be until one is abandoned (`StreamInv`), do two entries never work on one connection? What can make the server end (`EndsForCause`), or lose a descriptor? | holds |
| `loop_pipelining` | One client sends a second request without waiting; descriptors run out. Do answers stay with their owners, is the cached header index ever stale, does anything end the server before that second request but want of a descriptor? | holds |
| `routing` | 96 configurations of seven blocks, 96 requests, two disks. Does each block have the settings it should, is the right server block and location found, does the content location lead back to the file? | holds |
| `exchange` | Every order of 21 requests of all methods, valid and not, and of 9 about a CGI, on one entry, each possibly processed twice, the entry moved at any time. Does anything of an earlier one reach an answer, a header, a file or a CGI's environment, or get around the configuration? | holds |
| `cgi` | Every way through `executeCgi`, failing or not, in up to three processes. Is there ever more than one server running; are bodies, outputs and descriptors what they should be afterwards; is a server always in its loop again? | holds |
| `parser` | Two good files, with what `test/conf` uses, and every file that is one word away from one of them or cut short. Is every word accounted for, has every block the settings its text gives it, is what is good accepted, and when is the end of the file overrun? | holds |
| `right_port` | Is a request answered by the listener it came in on? | violated |
| `errors_own` | Is a request rejected for its own start line only? | violated |
| `whole_bodies` | Is a chunked request answered only when it is whole? | violated |
| `own_index` | Does a location's own index file come first? | violated |
| `rejected` | Does a rejected request leave the files alone? | violated |

The five violations are disagreements between the code and its comments; the
findings in `PROJECT.json` quote them. None needs an unusual environment:
`right_port` and `errors_own` need a client that closes, or a typing error, and
then another request on the same entry.

**Bounds, and why they are enough.** Two clients are the fewest between which an
answer could go astray, and with two descriptors a number is used again as soon
as one closes. A send buffer of 2 units and answers of up to 3 units cut an
answer in two; a `recv` of at most 4 tokens cuts a request of 5; a request also
arrives in any pieces because the client sends token by token. Scripts of two
requests are enough for what one request leaves to the next. In `Routing` the
tree has a location in a server, a "*suffix" beside and inside it, and a prefix
of another prefix; settings vary where merging can go wrong. In `Exchange`
nothing is bounded but the inputs: two roots, an existing, a new, a locked
existing and a locked new path, bodies of 0, 1 and 2 units, with line ends around
them, against limits of 1 and 8. A request is processed again at most once before
its answer is out; it then has the same header lines (`sized` says whether it came with a
length, which a body of no units may). The two sets of requests are not mixed: the first has what can
touch files, the second what can leave something in the environment, the query, the
type or the redirect.

`Cgi`: four calls and three processes (`MaxCalls`, `MaxProcs`) let a server that a
failed `execve` left behind fail again, and return to its parent and be called once
more; nine descriptors are enough for two calls whose fork fails and one that
runs out. Outputs of up to three units (`MaxOut`) against a buffer of two
(`BufSize`) make a full read, a short one and an empty one. `ConfigParser`: locations
two deep and two with one name, repeated listeners, a directive at each kind of
place where one is called; one damaged word reaches every early return. `Memory` is
what may lie past the last word, for a parser that looks there.

**Fairness.** `loop_polite`, `cgi` and `parser` have liveness properties.
In `loop_polite`, `WF_vars(Server)`: the
one thread goes on as long as `select` reports something, and every call it
makes returns (the CGI wait, which may not, is outside `Webserver`). Weak fairness
of each client's connecting, sending and receiving is a network that delivers;
closing is never forced. No fairness between events of the server is assumed:
the loop serves the first entry in the vector that is ready, and every request
is answered because clients ask finitely often. With an endless talker at the
front later entries starve. In `cgi`, every process that can go on in `executeCgi`
does so, and every script ends at some time: the system schedules processes, and
`waitpid` has no limit, so that nothing can be said without the second assumption. No
request needs to come, and a server need not end. In `parser`, parsing is one
sequential loop, which goes on until it stops itself.

## Proofs

TLAPS checks the theorems below for every value of the constants that satisfies
the modules' assumptions: any numbers of clients, listeners, descriptors, processes
and blocks, any scripts, settings, files and bodies. TLC evaluates the assumptions in
every run, and checks the properties, the invariants of `Streams` included, on the
instances above.

| Module | Theorems | Properties |
|---|---|---|
| `WebserverProofs` | `TypeCorrect`, `LoopStaysSound`, `AnswersReachOwner`, `HeaderIndexNeverStale`, `DescriptorsLostForCause`; `EffectiveKeepsHeader`, a lemma about decoding in place | `TypeOK`, `LoopInv` (with `SelectableFdsOpen` in it), `NoMisdelivery`, `HeaderIndexFresh`, `LostForCause` |
| `PlaceProofs` | `OldestServes`, `PlaceInvariance` | `ShadowsIdle` |
| `StreamProofs` | `StreamsFlow`, `EndsOnlyForCause`, `StreamsSettle`, `StreamsAreIntact`, `AnswersMatch`, `ServerNeverStops`, `LoopIsService` | `StreamInv`, `EndsForCause`, `Settled`, `StreamIntact`, `AnswersMatchRequests`, `NeverStops`; the safety half of `ImplementsService` |
| `CgiProofs` | `OneServerRuns`, `CgiTypeCorrect`, `ScriptsReadBodies`, `OutputsAreWhole`, `DescriptorsComeBack` | `OneServer`, `CgiTypeOK`, `ScriptReadsBody`, `OutputWhole`, `DescriptorsReturned` |
| `ExchangeProofs` | `ConfigAlwaysObeyed`, `AnswersAreOwn`, `HeadersAlwaysFit`, `StatusAlwaysTells`, `ExchangeTypeCorrect`, `CgiAlwaysSeesRequest`, `AlwaysStoresOwnBody` | all seven of the run `exchange` |
| `RoutingProofs` | `SettingsComeFromNearest`, `IndexFilesSettle`, `ServersListen`, `SearchFitsBest`, `RoutingTypeCorrect` | `NearestSettingWins`, `IndexSettles`, `ServerListens`, `LocationFitsBest`, `RoutingTypeOK` |
| `ParserProofs` | `ParserTypeCorrect`, `NoWordLost`, `EndPassedOnlyIfUnclosed` | `ParserTypeOK`, `NothingLost`, `PastEndOnlyIfUnclosed` |
| `SettingsProofs` | `SettingsFromText` | `SettingsFollowText` |

**The loop, whatever clients do** (`WebserverProofs`, `PlaceProofs`).
`NoMisdelivery` is not inductive: `WriteSome` writes to whoever has the entry's
descriptor now. What makes it right is `LoopInv`: an entry with an answer pending
still has its client's connection, or that was closed since the last `select`, and
then the writing set holds a closed descriptor, the next `select` fails and the
process ends before the number can be handed out again. Only one event per
iteration is handled, which is why closing and accepting never happen between the
same two calls of `select`. `IInv` is `TypeOK`, `LoopInv` and `NoMisdelivery`
together. `HeaderIndexFresh` is inductive on top of `TypeOK`: appending text does not
move the first header end (`HeaderEndStays`) and decoding in place does not either
(`EffectiveKeepsHeader`). `LostForCause` is inductive on top of `IInv`: nothing that
arrives later gives a mute entry an answer, and a reset connection stays reset.
`PlaceInv` adds where everything is: a client's script is cut in what it has still to
send, what is on its way and what was read (`TokensInOrder`); a connection is in one
backlog or at one descriptor (`OnePlaceEach`); only watched descriptors are heard;
nothing of an answer is out that is not pending; and of entries that share a
descriptor only the oldest works (`ShadowsIdle`).

**The streams** (`StreamProofs`). What an entry holds has to be tied to what its
connection was sent and answered. `AllFits` says it: an entry that waits has exactly
what was read of the next request of its client, one that answers has the answer to
everything its client sent since the last one, and the pieces written are consecutive
cuts of whole answers. It stops being true when a client leaves a request
unanswered, for its entry may keep what the next connection at that number gets (the
run `errors_own` shows one consequence), so that what is inductive is `Flowing`:
`PlaceInv`, and `AllFits` until someone has abandoned a request or strayed. With clients
that stay, wait and frame their requests, nobody does, and `Settling` (`PlaceInv` and `Settled`) is inductive; from it
follow the properties of `loop_polite`, and that the process never ends: an
exception, a failed write or a descriptor that `select` refuses each need an entry
that does not fit, and `accept` a lack of descriptors.

`StreamsFlow` and `EndsOnlyForCause` have no hypothesis on the clients: what they do
that is not served is named in the properties. `StreamInv` promises `AllFits` until a client
has abandoned a request (`Abandoned`) or gone astray (`Strays`): it began to send
what readRequest does not cut into requests where they end, or, being one of those
that do not wait, its second request. `EndsForCause` names four causes: a client that left
early, one that strays, a connection that finds every descriptor taken, and one that
waits for the answer to a complete request whose chunks do not parse
(`SentGarbled`): then `substr` throws in `decodeChunk`, nothing catches it, and the
process ends, however well everyone behaves else. The other theorems take clients that
do nothing of the kind, by hypotheses that are operators of `Streams` and that the
instance of `loop_polite` satisfies:

 * `FramedScripts`: `readRequest` finds each request complete with its last token,
   and not earlier. HTTP leaves the framing to the sender and the code has its own
   rules for it, which `Framing` translates; `whole_bodies` shows a request that
   breaks this.
 * `AllWait`: a client waits for the answer before it asks again. The code takes any
   bytes that arrive meanwhile for more of the same request.
 * `AllStay`: a client leaves only with all its answers.
 * `ParsableScripts`: the chunks of each request parse. Only in `ServerNeverStops`;
   `loop_departing` has a client without it.
 * `EnoughFds`: there is a descriptor for each client. Only in `ServerNeverStops`;
   without one `accept` fails and `run` ends, as `loop_departing` shows.

**The refinement** (`StreamProofs`). `LoopIsService` has every step of the loop be a
step of `Service` or not show, under the refinement mapping of `Webserver`:
`Shown`, which is `Settling` and a count of answers, gives that a write is part of the
next answer or makes it whole with the tokens of its own request
(`AnswersRight`). That every request is answered at last, the liveness half, is only
checked.

**CGI calls** (`CgiProofs`). `OneServer` is not inductive: it says nothing of who may
start. `Chain` does: whoever has a process behind it is in `waitpid`. So only the
last process can act, a new one starts behind it, and when it ends the one before it
goes on. The other properties need to know, for each process at each step of its
call, what its descriptors refer to (`Sound`), what its two files hold and at which
offset they are read and written, which the child shares (`InFiles`), and that two
calls have a file in common only if one process is the child the other made in that
very call (`Apart`). The lowest free descriptors are found with the library's theorems
on finite sets.

**One entry's requests** (`ExchangeProofs`). `ConfigObeyed` needs no invariant: those
outcomes that write are behind `Refuses`, which reads the same request, remembered or
not, that they act on. `StatusTellsEffect` follows from `Tells`, which every outcome of
every method satisfies. Answers and headers need `EntryInv`: every outcome of `run` is
made of what its own answer needs (`Fine`). `StoresOwnBody`, the types and what a CGI is
told need `Whole`, what an entry remembers between two requests: what a rejected one
leaves is never read again, and an accepted one is read from its own lines (`Own`).
`ExchangeAssumption` says that some server listens where the entry does, which is how
it came to be accepted, and what an input is.

**Loading and searching** (`RoutingProofs`). `NearestSettingWins` speaks of the end of
loading. `LoadInv` holds during it: each setting is as it was read or as it should be;
calls come in order, so that a block is passed only what is settled by then; and what
is not settled lies in a block that `passMembers` is still to come by. The second visit
to a location therefore changes none of these settings. Index files are different, in
that the outer block's go in front at every visit and the list grows. `IndexSettles`
says what this means for a request: whichever files `X` exist, the one chosen is the first
of the outermost block around that names one. For each `X` that is again a value which is
as it was read or as it should be, so that the same invariant holds it; what it takes is
that the first of two lists joined is the first of the first, if that has one
(`FirstJoined`), and that every block with something to choose from has an outermost one
around it (`SomeOutermost`). `Located` is a recursive
function; that it has a value is proved from an explicit solution of its equations
(where the search ends, and the innermost location on its way that is no "*suffix"),
and what it finds by taking the innermost block from which it would go wrong.
`ForestAssumption` states that blocks are a forest: a block is read once, as a server
or as a location of one other, and every set of blocks has an outermost and an
innermost one, as what is read from a finite file does. Locations in `default.conf` are left
out of it, since no request is ever matched with them.

**Parsing** (`ParserProofs`). The three properties are about what nested calls that
share one position do together, and none is inductive. `ParserInv` is the shape:
the outermost call is the server's, all others are locations', words are kept only
for a directive of the call's own block, no directive waits while a location's name and
brace are read, and every location kept has the ones around it kept as well (`BlockOk`), which
storing a location under its name preserves (`StoringOk`). Each of the 18
actions is then shown to be one of two kinds of step (`EveryStep`): it takes one word and adds just
this word to the words accounted for, or it stops and takes none. From this follow `NothingLost`,
by `WordsInv` (as the sequences are joined in the log's order, a closing block may account
for its last directive and its brace at once), and `PastEndOnlyIfUnclosed`, by `BraceInv`: what is
open plus the number of "}" is at most the number of "{", with one more in
`default.conf`, where it is not looked at. The words may be any strings, the memory behind them
too, and a directive's function may refuse any words: the proofs use nothing of `CanAdd`, and of
`Added` only that a block stays a block. `FlattenSeq` is a recursive function of the
library; what it does with one more element is proved from an explicit solution of its
equations, as for `Located`.

**What a configuration says** (`SettingsProofs`). `SettingsFollowText` compares the blocks that the
nested calls, `Storing` and the two passes of `passMembers` built with a reading of the whole
log: which block is in which is counted from its openings and closings, and what a block says is
its own last directive or that of the nearest block around it. To make it inductive, the reading
is defined of any log (`In`, `Par`, `StatedIn`, `NearestIn`, `StandsIn`; `TextIs` says that they
are the property's definitions), with lemmas on what one event more does to it. `Agree` then
ties the log to the state at every word: a block of the log that is open at some depth has the
frame at that depth of the stack; that frame holds, under the names that lead there, exactly what
the text states of each block closed inside it that no later one of its name replaced (`Kept`),
and the frame around it the block's name (`FramesOk`); and the blocks of the servers that are done
have what they take from around them as well (`Finished`). A directive changes one frame
(`AgreeDirective`), a closed location moves to the frame around it (`AgreeLocationCloses`,
where the property's "no later location with the same name" is what `Storing` overwrites), and
a closed server is filled (`AgreeServerCloses`). For the last, `FilledSays` shows by
induction on the number of names that the second pass changes nothing of these settings, and
`FilledDone`, by induction along the log, that a block filled from around it has what is stated
nearest. It needs that no word of a file is empty (`ConfigParserAssumption`; `split` makes none),
because an empty `cgi_pass` would be taken for none. What `default.conf` says is any
`DefaultBlock`.

**Only model-checked.** `EveryRequestAnswered`, the liveness half of
`ImplementsService`, `ServiceReturns` and `GoodFilesAccepted`: liveness under
fairness is outside this prover's reach, as is ENABLED. `ContentLocationLeadsBack`: it does
not hold for every value of the constants (an index file whose name begins with a slash,
or one that makes the target `Home`, leads elsewhere), and `RemoveNearSlashes` is a fold over a
sequence of any length, about which induction over data would be needed; nothing is proved
either of what `Distinct` and `TargetPath` compute.

## Not modelled

Host addresses (a listener of `Webserver` is one value), `Content-Length` digits that
do not parse, numbers that overflow `atoi`, NUL bytes in a request, dates, lengths
and the text of pages and header lines, request headers that nothing reads,
`FD_SETSIZE`, signals. `readFile`, `split`, `readLine` and their helpers turn text
into words, lines and values: the models start with these. `aliasSet` is set and
never read. A script's own children, and a script that never ends. Requests of a
server that a failed `execve` left behind are those of `Webserver` again; `Cgi` only
says that it does not run beside its parent. `client/client.cpp` is a test program.
A client's bytes are never lost or reordered: TCP.

## Plan

1. *Done:* the loop with its environment and first theorems; routing; exchanges.
2. *Done:* `Service` and its refinement by `Webserver`; `Cgi`; `ConfigParser`; types,
   redirects, queries and CGI variables in `Exchange`; how the server ends and where
   descriptors are lost.
3. *Done:* `Streams`; proofs of every safety property of the loop, of `Cgi` and of
   `Exchange`, of four of the six of `Routing`, and of the safety half of the refinement.
4. *Done:* locations of `ConfigParser` as a function from names, so that `passMembers` needs no
   RECURSIVE operator; proofs of its types, `NothingLost` and `PastEndOnlyIfUnclosed`;
   `IndexSettles` as what a request can see of the index files, and its proof; the proof of
   `SettingsFollowText`.
5. Open: hypotheses on the names of index files under which `ContentLocationLeadsBack` holds
   for paths of any length.
