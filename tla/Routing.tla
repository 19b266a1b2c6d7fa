------------------------------ MODULE Routing ------------------------------
(***************************************************************************)
(* Which settings serve a request (config/ServerBlock.cpp,                 *)
(* config/Config.cpp, findServerBlock and response/GetConf.cpp).           *)
(*                                                                         *)
(* The parsed configuration is a forest: the server blocks in file order,  *)
(* each with its locations, which nest.  Every server block takes what it  *)
(* lacks from the default block when its "}" is read, and every location   *)
(* from the block around it.  passMembers updates the blocks in place, one *)
(* call after the other, and reaches every location twice; calls is the    *)
(* stack of the calls still to be made.                                    *)
(*                                                                         *)
(* A path is a sequence of characters.                                     *)
(***************************************************************************)
EXTENDS Integers, Sequences, FiniteSets, SequencesExt, TLC

CONSTANTS
    Blocks,       \* the blocks of default.conf and of the configuration file
    Default,      \* the block of default.conf
    Servers,      \* _serverBlocks, a sequence of blocks
    Children,     \* Children[b]: the locations in b in the order of the map
    Name,         \* Name[b]: the text of a location's name and whether a '*'
                  \* stands before it
    Parsed,       \* the settings the parser may have read, [Blocks -> settings]
    Home,         \* "./YoupiBanane", the directory GetConf knows by name
    HomePage,     \* "index.html"
    Requests,     \* the requests asked about: host, listen, path, method
    Disks         \* the sets of regular files there may be

ASSUME RoutingAssumption ==
    /\ Default \in Blocks
    /\ Servers \in Seq(Blocks \ {Default})
    /\ Children \in [Blocks -> Seq(Blocks \ {Default})]
    /\ \A p \in Blocks : ToSet(Children[p]) \subseteq DOMAIN Name
    /\ \A b \in DOMAIN Name : Name[b] \in [star : BOOLEAN, text : Seq(STRING)]
    /\ \A q \in Requests : q.path \in Seq(STRING)
    /\ Parsed # {}

\* What a block sets.
Settings == {"listen", "root", "names", "errors", "size", "params", "cgi", "methods",
             "index", "alias", "auto", "redirect"}

\* The block around b; the default block is around the servers.
Outer ==
    [b \in Blocks |->
        IF \E p \in Blocks : Contains(Children[p], b)
        THEN CHOOSE p \in Blocks : Contains(Children[p], b) ELSE Default]

\* A block is read once, as a server or as a location of one other block, and a file
\* ends: every set of blocks has an outermost and an innermost one.  Locations in
\* default.conf are left out: no request is ever matched with them.
ASSUME ForestAssumption ==
    /\ Children[Default] = <<>>
    /\ \A b \in Blocks \ {Default} :
         Contains(Servers, b) <=> ~ \E p \in Blocks : Contains(Children[p], b)
    /\ \A p, q, b \in Blocks :
         Contains(Children[p], b) /\ Contains(Children[q], b) => p = q
    /\ \A S \in SUBSET (Blocks \ {Default}) : S # {} =>
         /\ \E b \in S : Outer[b] \notin S
         /\ \E b \in S : \A c \in S : ~Contains(Children[b], c)
    /\ \A c \in Parsed : DOMAIN c = Blocks /\ \A b \in Blocks :
         DOMAIN c[b] = Settings /\ c[b].index \in Seq(Seq(STRING))

VARIABLES
    raw,          \* history: the settings as parsed
    conf,         \* the settings as passMembers left them
    calls,        \* calls of passMembers to be made: from which block to which
    closed,       \* how many server blocks have been read to their end
    route         \* what the last request was served with

routingVars == <<raw, conf, calls, closed, route>>

NoRoute == [req |-> "none"]

---------------------------------------------------------------------------
(* passMembers                                                             *)

\* The first occurrences of the elements of s, in order.
Distinct(s) ==
    FoldLeft(LAMBDA seen, e : IF Contains(seen, e) THEN seen ELSE Append(seen, e),
             <<>>, s)

\* Mutant: the outer block's value wins.
OuterFirst(own, empty, outer) == IF outer = empty THEN own ELSE outer
OrElse(own, empty, outer) == IF own = empty THEN outer ELSE own

\* Mutant: the outer block's index files come last.
IndexLast(own, outer) == own \o outer
IndexFirst(own, outer) == outer \o own

\* What p.passMembers(s) does to s itself.  auto, alias and redirect stay.
PassedOn(p, s) ==
    [s EXCEPT !.listen = OrElse(@, <<>>, p.listen),
              !.root = OrElse(@, <<>>, p.root),
              !.names = @ \o p.names,
              !.errors = @ @@ p.errors,
              !.size = OrElse(@, 0, p.size),
              !.params = @ @@ p.params,
              !.cgi = OrElse(@, "", p.cgi),
              !.methods = OrElse(@, {}, p.methods),
              !.index = IndexFirst(@, p.index)]

\* Mutant: the block is filled from its locations.
CallsInto(b) == [k \in DOMAIN Children[b] |-> <<Children[b][k], b>>]
CallsFrom(b) == [k \in DOMAIN Children[b] |-> <<b, Children[b][k]>>]

RoutingInit ==
    /\ raw \in Parsed /\ conf = raw
    /\ calls = <<>> /\ closed = 0 /\ route = NoRoute

\* The "}" of a server block: the default block is passed to it, and then it
\* is passed to its locations, which that first call does as well.
CloseServer ==
    /\ calls = <<>> /\ closed < Len(Servers)
    /\ LET s == Servers[closed + 1]
       IN  calls' = <<<<Default, s>>>> \o CallsFrom(s)
    /\ closed' = closed + 1
    /\ UNCHANGED <<raw, conf, route>>

PassMembers ==
    /\ calls # <<>>
    /\ LET p == Head(calls)[1]
           s == Head(calls)[2]
       IN  /\ conf' = [conf EXCEPT ![s] = PassedOn(conf[p], @)]
           /\ calls' = CallsFrom(s) \o Tail(calls)
    /\ UNCHANGED <<raw, closed, route>>

Loaded == closed = Len(Servers) /\ calls = <<>>

\* What is in _allListens, in whatever order.
AllListens(listen) ==
    \E k \in DOMAIN Servers : Contains(conf[Servers[k]].listen, listen)

---------------------------------------------------------------------------
(* findServerBlock and getLocationForRequest                               *)

\* Mutant: the name alone decides.
MatchName(b, host, listen) == Contains(conf[b].names, host)
MatchBoth(b, host, listen) ==
    Contains(conf[b].names, host) /\ Contains(conf[b].listen, listen)

\* The first block with the name and the port, else the first with the port.
FindServer(host, listen) ==
    LET named == SelectInSeq(Servers, LAMBDA b : MatchBoth(b, host, listen))
        other == SelectInSeq(Servers,
                             LAMBDA b : Contains(conf[b].listen, listen))
    IN  Servers[IF named # 0 THEN named ELSE other]

IsLocationOf(b, path) ==
    ~Name[b].star /\ Name[b].text # <<>> /\ IsPrefix(Name[b].text, path)

IsSuffixOf(b, path) ==
    /\ Name[b].star /\ Len(path) > Len(Name[b].text)
    /\ IsSuffix(Name[b].text, path)

\* Mutant: the shortest prefix is tried first.
ShortestFirst(b, c) == Len(Name[b].text) <= Len(Name[c].text)
LongestFirst(b, c) == Len(Name[b].text) >= Len(Name[c].text)

\* The place of the first "*suffix" in the map's order, 0 if none fits.
FirstSuffix(b, path) == SelectInSeq(Children[b], LAMBDA c : IsSuffixOf(c, path))

\* One level of the search: the locations of b it may enter, at most one.  The
\* longest prefix comes first, then the first suffix.
Entered(b, path) ==
    LET prefixes == {c \in ToSet(Children[b]) : IsLocationOf(c, path)}
        suffix == FirstSuffix(b, path)
    IN  IF prefixes # {}
        THEN {c \in prefixes : \A d \in prefixes : LongestFirst(c, d)}
        ELSE IF suffix # 0 THEN {Children[b][suffix]} ELSE {}

\* The search goes on inside the location it entered; retLocationPath is the
\* last prefix it matched.
Located(server, path) ==
    LET search[at \in Blocks \X ({<<>>} \cup {Name[c].text : c \in DOMAIN Name})] ==
            IF path = <<>> \/ Entered(at[1], path) = {}
            THEN [block |-> at[1], matched |-> at[2]]
            ELSE LET c == CHOOSE c \in Entered(at[1], path) : TRUE
                 IN  search[<<c, IF Name[c].star THEN at[2] ELSE Name[c].text>>]
    IN  search[<<server, <<>>>>]

---------------------------------------------------------------------------
(* GetConf                                                                 *)

\* removeNearSlashes: of slashes next to each other only the first stays.
RemoveNearSlashes(s) ==
    FoldLeft(LAMBDA r, c : IF c = "/" /\ r # <<>> /\ Last(r) = "/" THEN r
                           ELSE Append(r, c), <<>>, s)

\* The path of an index file in a directory.
Within(dir, file) ==
    IF Last(dir) = "/" THEN dir \o file ELSE dir \o <<"/">> \o file

\* _target_path before index files are looked at.
TargetPath(s, matched, path) ==
    LET at == RemoveNearSlashes(
                IF s.alias # <<>>
                THEN s.alias \o SubSeq(path, Len(matched) + 1, Len(path))
                ELSE s.root \o path)
    IN  IF at \in {Home, Home \o <<"/">>} THEN Within(at, HomePage) ELSE at

\* addIndex: the first index file that exists, for GET only; <<>> if none does.
IndexFile(s, at, method, disk) ==
    LET index == Distinct(s.index)
        k == SelectInSeq(index, LAMBDA f : Within(at, f) \in disk)
    IN  IF method = "GET" /\ at \notin disk /\ at # <<>> /\ k # 0
        THEN index[k] ELSE <<>>

Target(s, matched, path, method, disk) ==
    LET at == TargetPath(s, matched, path)
        file == IndexFile(s, at, method, disk)
    IN  IF file = <<>> THEN at ELSE Within(at, file)

\* Mutant: the name of the location is not cut off for an alias.
ContentLocationUncut(s, matched, path, method, disk) ==
    LET at == RemoveNearSlashes(path)
        file == IndexFile(s, TargetPath(s, matched, path), method, disk)
    IN  IF file = <<>> THEN at ELSE IF at = <<>> THEN <<"/">> \o file ELSE Within(at, file)

\* _content_location.  The byte before an empty one, which addIndex compares
\* with '/', is part of the string's size, 0.
ContentLocation(s, matched, path, method, disk) ==
    LET at == IF s.alias # <<>> THEN SubSeq(path, Len(matched) + 1, Len(path))
              ELSE RemoveNearSlashes(path)
        file == IndexFile(s, TargetPath(s, matched, path), method, disk)
    IN  IF file = <<>> THEN at
        ELSE IF at = <<>> THEN <<"/">> \o file ELSE Within(at, file)

\* Routing remembers nothing from one request to the next, so that a behaviour
\* asks about a single one.
Serve ==
    /\ Loaded /\ route = NoRoute
    /\ \E q \in Requests, disk \in Disks :
         /\ AllListens(q.listen)
         /\ LET server == FindServer(q.host, q.listen)
                found == Located(server, q.path)
            IN  route' = [req |-> q, server |-> server, block |-> found.block,
                          matched |-> found.matched, disk |-> disk,
                          target |-> Target(conf[found.block], found.matched,
                                            q.path, q.method, disk),
                          content |-> ContentLocation(conf[found.block], found.matched,
                                                      q.path, q.method, disk)]
    /\ UNCHANGED <<raw, conf, calls, closed>>

RoutingNext == CloseServer \/ PassMembers \/ Serve

RoutingSpec == RoutingInit /\ [][RoutingNext]_routingVars

---------------------------------------------------------------------------
(* Properties                                                              *)

RoutingTypeOK ==
    /\ raw \in Parsed
    /\ DOMAIN conf = Blocks
    /\ calls \in Seq({Default} \X ToSet(Servers)
                    \cup {pc \in Blocks \X Blocks : Contains(Children[pc[1]], pc[2])})
    /\ closed \in 0 .. Len(Servers)
    /\ route = NoRoute \/ route.block \in Blocks

\* The blocks around b, up to the default block, and b itself.
Around ==
    [b \in Blocks |->
        {c \in Blocks : \A S \in SUBSET Blocks :
            b \in S /\ (\A d \in S : Outer[d] \in S) => c \in S}]

\* What stands for "not set", of the settings that replace one another.
Unset == [listen |-> <<>>, root |-> <<>>, size |-> 0, cgi |-> "", methods |-> {}]

\* The value of the innermost block around b that sets x.
Nearest(b, x) ==
    LET setting == {c \in Around[b] : raw[c][x] # Unset[x]}
    IN  IF setting = {} THEN Unset[x]
        ELSE raw[CHOOSE c \in setting : setting \subseteq Around[c]][x]

\* Once the file is read, a block has for each setting its own value or that of
\* the innermost block around it that has one, however often and in whatever
\* order passMembers came by.
NearestSettingWins ==
    Loaded => \A b \in Blocks : \A x \in DOMAIN Unset : conf[b][x] = Nearest(b, x)

\* The first of the index files that is in X, in a set of its own.
FirstOf(index, X) ==
    {index[k] : k \in {k \in DOMAIN index : /\ index[k] \in X
                                          /\ \A j \in 1 .. k - 1 : index[j] \notin X}}

\* The one that is due to b: of the blocks around it that name one in X, the first
\* one of the outermost.
FirstAround(b, X) ==
    LET naming == {c \in Around[b] : ToSet(raw[c].index) \cap X # {}}
        outermost == {c \in naming : \A d \in naming : c \in Around[d]}
    IN  UNION {FirstOf(raw[c].index, X) : c \in outermost}

\* The second visit of passMembers to a location changes nothing a request can
\* see: whichever files X exist, the index file found for a block is the first of
\* the outermost block around it that names one of them.
IndexSettles ==
    Loaded => \A b \in Blocks :
        \A X \in SUBSET UNION {ToSet(raw[c].index) : c \in Blocks} :
            FirstOf(conf[b].index, X) = FirstAround(b, X)

\* The server block listens where the request came in, whatever its Host says;
\* and it has that name if any block listening there does.
ServerListens ==
    route # NoRoute =>
        LET here == {b \in ToSet(Servers) :
                        Contains(conf[b].listen, route.req.listen)}
            named == {b \in here : Contains(conf[b].names, route.req.host)}
        IN  /\ route.server \in here
            /\ named # {} => route.server \in named

\* The search ends in the location that fits best: it fits, as do the ones
\* around it, none beside them has a longer prefix that fits, and none inside
\* it fits.  What is cut off the path for an alias is a prefix of it.
LocationFitsBest ==
    route # NoRoute =>
        LET path == route.req.path
            fits(c) == IsLocationOf(c, path) \/ IsSuffixOf(c, path)
        IN  /\ \A c \in Around[route.block] \ {Default, route.server} :
                 /\ fits(c)
                 /\ \A d \in ToSet(Children[Outer[c]]) : IsLocationOf(d, path) =>
                      ~Name[c].star /\ Len(Name[d].text) <= Len(Name[c].text)
            /\ \A d \in ToSet(Children[route.block]) : ~fits(d)
            /\ IsPrefix(route.matched, path)

\* Content-Location leads back to the file an answer was made from: at the same
\* place in the same location it stands for the same target, whatever alias,
\* repeated slashes and index file were involved.
ContentLocationLeadsBack ==
    route # NoRoute =>
        LET s == conf[route.block]
            place == IF s.alias # <<>> THEN route.matched ELSE <<>>
        IN  TargetPath(s, route.matched, place \o route.content) = route.target

\* A location's own index files come before those it takes from the blocks
\* around it: passMembers fills in what is empty (ServerBlock.cpp:429).
OwnIndexFirst ==
    route # NoRoute /\ route.req.method = "GET" =>
        LET at == TargetPath(conf[route.block], route.matched, route.req.path)
            own == {Within(at, f) : f \in ToSet(raw[route.block].index)}
        IN  at \notin route.disk /\ own \cap route.disk # {}
                => route.target \in own
=============================================================================
