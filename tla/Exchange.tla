------------------------------ MODULE Exchange ------------------------------
(***************************************************************************)
(* What one WebserverProcess makes of the requests it is given, one after  *)
(* the other (WebserverProcess::process, request/Request.cpp,              *)
(* response/Response.cpp).  Its Request and its Response live as long as   *)
(* the entry: between two requests only the body and the response text are *)
(* cleared, and a field that the next request does not set keeps its value;*)
(* the content type and the redirect of the Response are never cleared.    *)
(*                                                                         *)
(* A request is the parts its parser reads apart, see Input.  Bodies,      *)
(* and files are sequences of units; blanks and the two characters of a    *)
(* line end are units of their own.  The text of an answer is named for    *)
(* where it comes from.                                                    *)
(***************************************************************************)
EXTENDS Integers, Sequences, FiniteSets, SequencesExt, TLC

CONSTANTS
    Blocks, Default, Servers, Children, Name, Home, HomePage,   \* see Routing
    Conf,         \* the settings of every block once the file is read
    Listen,       \* _listen_info of the entry
    Sessions,     \* the sets of requests one behaviour draws from
    Disk0,        \* the files there are at first, and their contents
    Locked,       \* the paths that cannot be written, created or removed
    Unreadable,   \* the files that cannot be read
    Directories,  \* the directories
    Pages,        \* the files of error_page settings that are there
    CgiStatus,    \* the statuses a CGI may give, 0 for none
    CgiTypes      \* the content types a CGI may give, "" for none

\* A request as it arrives.  words is how much of the start line is there: 1
\* when it has no space, 2 when nothing follows the path, 3 when something
\* does.  version is what follows "HTTP/" in the third word, "" when it does
\* not start that way, query what follows a '?', "none" without one.  host,
\* secret (a header with "Secret" in its name) and auth (Www-Authenticate) are ""
\* when there is none.  sized is whether a header line tells the length of a body.
Input == [words : 1 .. 3, method : STRING, path : Seq(STRING), query : STRING,
          version : STRING, host : STRING, secret : STRING, auth : STRING,
          sized : BOOLEAN, body : Seq(STRING)]

ASSUME ExchangeAssumption ==
    /\ \E k \in DOMAIN Servers : \E i \in DOMAIN Conf[Servers[k]].listen :
         Conf[Servers[k]].listen[i] = Listen
    /\ \A S \in Sessions : S \subseteq Input
    /\ CgiStatus \subseteq Nat /\ CgiStatus # {} /\ CgiTypes # {}

VARIABLES
    session,      \* the requests that arrive in this behaviour
    request,      \* _request
    text,         \* _response._response: "", or the answer being sent
    kept,         \* _response._type and _location, "" and <<>> at first
    disk,         \* the files, [paths -> contents]
    answer        \* history: the answer being sent and the request it is for

exchangeVars == <<session, request, text, kept, disk, answer>>

R == INSTANCE Routing WITH conf <- Conf, raw <- Conf, calls <- <<>>,
        closed <- Len(Servers), route <- [req |-> "none"],
        Parsed <- {Conf}, Requests <- {}, Disks <- {}

ValidMethods == {"GET", "POST", "DELETE", "PUT", "HEAD"}
Versions == {"1.0", "1.1"}
Blanks == {" ", "\r", "\n"}

NoAnswer == [status |-> 0, sent |-> TRUE, again |-> FALSE, body |-> "",
             header |-> [type |-> "", location |-> <<>>, allow |-> {}],
             env |-> [method |-> ""]]

\* _ready_to_response: the answer is not written to its end.
Pending == ~answer.sent

ExchangeTypeOK ==
    /\ request.status \in {200, 400}
    /\ request.status = 200 /\ request.version # "" => request.version \in Versions
    /\ request.body = <<>> \/ Head(request.body) \notin Blanks
    /\ text \in {"", "answer"}
    /\ DOMAIN disk \cap Locked = DOMAIN Disk0 \cap Locked

ExchangeInit ==
    /\ session \in Sessions
    /\ request = [method |-> "", path |-> <<>>, query |-> "", version |-> "",
                  host |-> "", auth |-> "", known |-> FALSE, env |-> <<>>,
                  status |-> 200, body |-> <<>>]
    /\ text = "" /\ kept = [type |-> "", location |-> <<>>] /\ disk = Disk0 /\ answer = NoAnswer

---------------------------------------------------------------------------
(* Request::parseProcess                                                   *)

\* Mutant: any version passes.
AnyVersion(v) == TRUE
KnownVersion(v) == v \in Versions

\* Mutant: the first query is kept.
FirstQuery(q, r) == IF q.query # "" \/ r.query = "none" THEN q.query ELSE r.query
\* parseQuery: without a '?' the last query stays.
LastQuery(q, r) == IF r.query = "none" THEN q.query ELSE r.query

\* parseStartLine: each step is taken only while the status is 200, so that
\* after one rejected line no later one is read.
StartLine(q, r) ==
    LET rejected(p) == [p EXCEPT !.status = 400]
        withMethod == [q EXCEPT !.method = r.method]
        withPath == [withMethod EXCEPT !.path = r.path, !.query = LastQuery(q, r)]
        withVersion == IF r.version = "" THEN withPath
                       ELSE [withPath EXCEPT !.version = r.version]
    IN  CASE q.status # 200 -> q
          [] q.status = 200 /\ r.words = 1 -> rejected(q)
          [] q.status = 200 /\ r.words > 1 /\ r.method \notin ValidMethods ->
                rejected(withMethod)
          [] q.status = 200 /\ r.words = 2 /\ r.method \in ValidMethods ->
                rejected(withMethod)
          [] OTHER -> IF KnownVersion(withVersion.version) THEN withVersion
                      ELSE rejected(withVersion)

\* _env_for_cgi: what a private header says replaces what an earlier one said.
\* Www-Authenticate counts once the parser has looked for it (known), and is
\* entered again with every later request.
Environment(q, secret, auth) ==
    LET given == [n \in {"HTTP_SECRET", "Www-Authenticate"} |->
                    IF n = "HTTP_SECRET" THEN secret ELSE auth]
        named == {n \in DOMAIN given : given[n] # ""}
    IN  [n \in DOMAIN q.env \cup named |-> IF n \in named THEN given[n] ELSE q.env[n]]

\* What is left of a body: blanks and line ends before it are skipped, and
\* parseBody cuts two line ends behind it, or as much of them as there is.
LineEnds == <<"\r", "\n", "\r", "\n">>
BodyOf(units) ==
    LET skipped == SelectInSeq(units, LAMBDA u : u \notin Blanks) - 1
        body == SubSeq(units, skipped + 1, Len(units))
        cut == Max({k \in 0 .. 4 : k <= Len(body) /\
                      SubSeq(body, Len(body) - k + 1, Len(body)) = SubSeq(LineEnds, 5 - k, 4)})
    IN  IF skipped < 0 THEN <<>> ELSE SubSeq(body, 1, Len(body) - cut)

\* The header lines, one unit each.
Line(l) == IF l = "" THEN <<>> ELSE <<l>>
Lines(r) == Line(r.host) \o Line(r.secret) \o Line(r.auth)
            \o Line(IF r.sized THEN "length" ELSE "")

\* The same as text, each with its line end.
Text(lines) ==
    [i \in 1 .. 3 * Len(lines) |->
        CASE i % 3 = 1 -> lines[i \div 3 + 1] [] i % 3 = 2 -> "\r" [] OTHER -> "\n"]

\* The header and the body.  After a rejected line the first header is skipped
\* and the others are taken for body; a missing body leaves the old one.
HeaderAndBody(q, r) ==
    LET reads == q.status # 400
        others == IF reads \/ Lines(r) = <<>> THEN <<>> ELSE Tail(Lines(r))
        rest == BodyOf(Text(others) \o <<"\r", "\n">> \o r.body)
        auth == IF reads /\ r.auth # "" /\ q.known THEN r.auth ELSE q.auth
    IN  [q EXCEPT !.host = IF r.host # "" /\ reads THEN r.host ELSE @,
                  !.auth = auth, !.known = TRUE,
                  !.env = Environment(q, IF reads THEN r.secret ELSE "", auth),
                  !.body = IF rest # <<>> THEN rest ELSE @]

ParseProcess(r) == HeaderAndBody(StartLine(request, r), r)

---------------------------------------------------------------------------
(* Response::run.  An outcome is a status, what the body is, "" when there is *)
(* none, and the disk and what the Response keeps afterwards.              *)

Says(status, body) == [status |-> status, body |-> body, disk |-> disk, kept |-> kept]

Typed(o, type) == [o EXCEPT !.kept.type = type]

\* readHtml: only a page that is there makes the type text/html.
Page(s, status) ==
    IF status \in DOMAIN s.errors /\ s.errors[status] \in Pages
    THEN Typed(Says(status, "page"), "text/html") ELSE Says(status, "no page")

\* checkClientError
\* Mutant: the limit is not looked at.
RefusesMethod(q, s) == IF q.method \notin s.methods THEN 405 ELSE 0
Refuses(q, s) ==
    IF q.method \notin s.methods THEN 405
    ELSE IF s.size < Len(q.body) THEN 413 ELSE 0

\* AutoIndexGenerator::getPage: what cannot be opened as a directory gives an
\* empty page.
Listing(t) == IF t \in Directories THEN "listing" ELSE ""

ReadContent(s, t) ==
    IF t \in DOMAIN disk
    THEN IF t \in Unreadable THEN Page(s, 403) ELSE Says(200, "file")
    ELSE IF s.auto THEN Typed(Says(200, Listing(t)), "text/html") ELSE Page(s, 404)

\* setCgiResult: the text is cut to the length of what _response held.  The page
\* for 500 takes the place of the CGI's text, and if it is there, of its type.
CgiSays(q, c, type) ==
    LET said == Says(IF c = 0 THEN q.status ELSE c, IF text = "" THEN "cgi" ELSE "cut")
    IN  IF type = "" THEN said ELSE Typed(said, type)
CgiPaged(s, o) ==
    LET page == Page(s, 500)
    IN  [page EXCEPT !.kept = IF page.body = "page" THEN @ ELSE o.kept]
CgiResult(q, s, c, type) ==
    LET o == CgiSays(q, c, type) IN IF o.status = 500 THEN CgiPaged(s, o) ELSE o
CgiResults(q, s) == {CgiResult(q, s, c, type) : c \in CgiStatus, type \in CgiTypes}

\* Mutant: the redirect is set once.
RedirectedOnce(target) ==
    [Says(301, "") EXCEPT !.kept.location = IF @ = <<>> THEN target ELSE @]

\* A redirect keeps what _response held.
Redirected(target) ==
    [Says(301, IF text = "" THEN "" ELSE "stale") EXCEPT !.kept.location = target]

Get(q, s, t) ==
    IF s.redirect # <<>> THEN {Redirected(s.redirect)}
    ELSE IF s.cgi # "" THEN CgiResults(q, s)
    ELSE IF q.status = 200 THEN {ReadContent(s, t)} ELSE {Page(s, q.status)}

Post(q, s) == IF s.cgi # "" THEN CgiResults(q, s) ELSE {Says(204, "")}

With(t, content) == [f \in DOMAIN disk \cup {t} |-> IF f = t THEN content ELSE disk[f]]

\* Mutant: a file is made before the check that it could be opened.
PutOpens(q, s, t) ==
    IF t \in Locked THEN [Page(s, 403) EXCEPT !.disk = With(t, q.body)]
    ELSE [Says(201, "") EXCEPT !.disk = With(t, q.body)]

\* writeContent: that an existing file could be opened is not checked.
Put(q, s, t) ==
    IF t \in Locked /\ t \notin DOMAIN disk THEN Page(s, 403)
    ELSE IF t \in Locked THEN Says(204, "")
    ELSE [Says(IF t \in DOMAIN disk THEN 204 ELSE 201, "") EXCEPT
            !.disk = With(t, q.body)]

Without(t) == [f \in DOMAIN disk \ {t} |-> disk[f]]
Delete(s, t) ==
    IF t \notin DOMAIN disk THEN Page(s, 404)
    ELSE IF t \in Locked THEN Page(s, 403)
    ELSE [Says(204, "") EXCEPT !.disk = Without(t)]

\* The statuses 405 and 413 come before the method, 400 does not.  A method
\* that run() does not know has no outcome.
Run(q, s, t) ==
    IF Refuses(q, s) # 0 THEN {Says(Refuses(q, s), "")}
    ELSE CASE q.method = "GET" -> Get(q, s, t)
           [] q.method = "HEAD" -> {ReadContent(s, t)}
           [] q.method = "POST" -> Post(q, s)
           [] q.method = "PUT" -> {Put(q, s, t)}
           [] q.method = "DELETE" -> {Delete(s, t)}
           [] OTHER -> {}

---------------------------------------------------------------------------
(* ResponseHeader, a new one for every answer                              *)

\* setContentType
ByName == (<<"h", "t", "m", "l">> :> "text/html") @@ (<<"c", "s", "s">> :> "text/css")
          @@ (<<"j", "s">> :> "text/javascript") @@ (<<"j", "p", "e", "g">> :> "image/jpeg")
          @@ (<<"j", "p", "g">> :> "image/jpeg") @@ (<<"p", "n", "g">> :> "image/png")
          @@ (<<"b", "m", "p">> :> "image/bmp")
TypeByName(t) ==
    LET suffixes == {n \in DOMAIN ByName : \E k \in 0 .. Len(t) :
                        (k = 0 \/ t[k] = ".") /\ SubSeq(t, k + 1, Len(t)) = n}
    IN  IF suffixes = {} THEN "text/plain" ELSE ByName[CHOOSE n \in suffixes : TRUE]

\* setLocation
Moves(status) == status = 201 \/ status \div 100 = 3

\* getHeader, and notAllowedMethod for a refused request, whose type is by the
\* name in its Content-Location.
Header(o, t) ==
    [type |-> IF o.kept.type # "" THEN o.kept.type ELSE TypeByName(t),
     location |-> IF Moves(o.status) THEN o.kept.location ELSE <<>>, allow |-> {}]
Refusal(s, content) ==
    [type |-> TypeByName(content), location |-> <<>>, allow |-> s.methods]

---------------------------------------------------------------------------
(* WebserverProcess::process and writeResponse                             *)

\* The location whose settings serve q, and the file q is about.
Found(q) == R!Located(R!FindServer(q.host, Listen), q.path)
Settings(q) == Conf[Found(q).block]
TargetAt(q, f) ==
    R!Target(Conf[f.block], f.matched, q.path, q.method, DOMAIN disk)
ContentAt(q, f) ==
    R!ContentLocation(Conf[f.block], f.matched, q.path, q.method, DOMAIN disk)

\* CgiHandler::_initEnv, with GetConf's choice of parameters: those of the
\* configuration only while no private header was entered.
CgiEnv(q, s, content) ==
    [method |-> q.method, path |-> q.path, query |-> q.query, script |-> content,
     body |-> q.body, params |-> IF q.env # <<>> THEN q.env ELSE s.params]
RunsCgi(q, s) ==
    /\ Refuses(q, s) = 0 /\ s.cgi # ""
    /\ q.method = "POST" \/ (q.method = "GET" /\ s.redirect = <<>>)

Process(r) ==
    LET q == ParseProcess(r)
        found == Found(q)
        s == Conf[found.block]
        t == TargetAt(q, found)
    IN  /\ request' = q
        /\ \E o \in Run(q, s, t) :
             /\ disk' = o.disk /\ kept' = o.kept
             /\ answer' = [req |-> r, parsed |-> q, again |-> Pending,
                           sent |-> FALSE, status |-> o.status, body |-> o.body,
                           header |-> IF Refuses(q, s) # 0 THEN Refusal(s, ContentAt(q, found))
                                      ELSE Header(o, t),
                           env |-> IF RunsCgi(q, s) THEN CgiEnv(q, s, ContentAt(q, found)) ELSE NoAnswer.env,
                           target |-> t, block |-> found.block]
        /\ text' = "answer"
        /\ UNCHANGED session

\* A request has been read and no answer is pending.
Exchange(r) == ~Pending /\ Process(r)

\* More bytes of the same connection arrive before the answer is out: the same
\* request is processed again, with these bytes at the end of its body.
Again ==
    /\ Pending /\ ~answer.again
    /\ Process([answer.req EXCEPT !.body = Append(@, "more")])

\* run() does nothing, and _response is as it was.
Mute(r) ==
    /\ ~Pending
    /\ LET q == ParseProcess(r)
           found == Found(q)
       IN  request' = q /\ Run(q, Conf[found.block], TargetAt(q, found)) = {}
    /\ UNCHANGED <<session, text, kept, disk, answer>>

\* Mutants of Finish: the body stays, or the answer's text does.
FinishKeepsBody ==
    /\ Pending
    /\ text' = "" /\ answer' = NoAnswer
    /\ UNCHANGED <<session, request, kept, disk>>
FinishKeepsText ==
    /\ Pending
    /\ request' = [request EXCEPT !.body = <<>>]
    /\ answer' = NoAnswer
    /\ UNCHANGED <<session, text, kept, disk>>

\* The last byte is written: initBody and initResponse.
Finish ==
    /\ Pending
    /\ request' = [request EXCEPT !.body = <<>>]
    /\ text' = "" /\ answer' = NoAnswer
    /\ UNCHANGED <<session, kept, disk>>

\* The vector of entries grows, and this one is copied: operator= of Request and
\* Response leave out the environment, the type and the redirect.
Move ==
    /\ request' = [request EXCEPT !.env = <<>>]
    /\ kept' = [type |-> "", location |-> <<>>]
    /\ UNCHANGED <<session, text, disk, answer>>

ExchangeNext ==
    \/ \E r \in session : Exchange(r) \/ Mute(r)
    \/ Again \/ Finish \/ Move

ExchangeSpec == ExchangeInit /\ [][ExchangeNext]_exchangeVars

---------------------------------------------------------------------------
(* Properties                                                              *)

\* A step that answers a request.
Answers == answer' # answer /\ ~answer'.sent

\* An answer made while none was pending holds nothing of an earlier one, nor is
\* it cut to an earlier one's length, although the methods that redirect or run
\* a CGI read _response before they set it.
AnswerIsOwn == ~answer.again => answer.body \notin {"stale", "cut"}

\* What earlier answers left in the Response does not show where an answer has
\* its own: a redirect names its own target, and a listing or an error page is
\* text/html.  Only 201 and 3xx carry a Location, and a refusal tells the methods
\* of the location that refused.
HeadersFit ==
    Pending =>
        LET h == answer.header
            refused == Refuses(answer.parsed, Conf[answer.block]) # 0
        IN  /\ answer.parsed.method = "GET" /\ ~refused =>
                 Conf[answer.block].redirect \in {<<>>, h.location}
            /\ h.location # <<>> => answer.status = 201 \/ answer.status \in 300 .. 399
            /\ answer.body \in {"listing", "page"} => h.type = "text/html"
            /\ h.allow = IF refused THEN Conf[answer.block].methods ELSE {}

\* A CGI that an accepted request runs is told of that request: its method, its
\* path, its query if it has one, its own private header, not an older one's, and
\* given its body.
\* It has the configured parameters if nobody gave a private header, whatever
\* entries were moved or other requests came before.
CgiSeesRequest ==
    answer.env # NoAnswer.env /\ answer.parsed.status = 200 =>
        LET e == answer.env
            r == answer.req
        IN  /\ e.method = r.method /\ e.path = r.path /\ e.body = BodyOf(r.body)
            /\ r.query # "none" => e.query = r.query
            /\ r.secret # "" => e.params["HTTP_SECRET"] = r.secret
            /\ (\A i \in session : i.secret = "" /\ i.auth = "") =>
                  e.params = Conf[answer.block].params

\* A request that was accepted stores its own body, less the blanks and line ends
\* the parser takes off, an empty one if it has none, and nothing left from the
\* requests before it on the same entry.
StoresOwnBody ==
    [][Answers /\ request'.status = 200 /\ request'.method = "PUT"
        /\ disk' # disk => disk'[answer'.target] = BodyOf(answer'.req.body)]_exchangeVars

\* No request, not even one that acts with the method and path of an earlier
\* request, changes a file unless the location of that path allows the method
\* and the length of the body.
ConfigObeyed ==
    [][disk' # disk =>
         /\ request'.method \in {"PUT", "DELETE"}
         /\ request'.method \in Settings(request').methods
         /\ ~(Settings(request').size < Len(request'.body))]_exchangeVars

\* The status tells what became of the disk: it changes only with 201 or 204, at
\* one path; 201 means a new file, 204 after DELETE that there is none.
StatusTellsEffect ==
    [][Answers =>
         LET t == answer'.target
             m == request'.method
         IN  /\ disk' # disk => answer'.status \in {201, 204}
             /\ \A f \in DOMAIN disk \ {t} : f \in DOMAIN disk' /\ disk'[f] = disk[f]
             /\ DOMAIN disk' \subseteq DOMAIN disk \cup {t}
             /\ m = "PUT" /\ answer'.status = 201 =>
                  t \notin DOMAIN disk /\ t \in DOMAIN disk'
             /\ m = "DELETE" /\ answer'.status = 204 => t \notin DOMAIN disk'
      ]_exchangeVars

\* A request the parser rejects changes no file (parseVersion: "an error if
\* _version is not 1.0 or 1.1").
RejectedChangesNothing ==
    [][Answers /\ request'.status = 400 => disk' = disk]_exchangeVars
=============================================================================
