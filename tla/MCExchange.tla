----------------------------- MODULE MCExchange -----------------------------
(***************************************************************************)
(* One listener with two server blocks: "main" has two locations that      *)
(* redirect, one that runs a CGI, and one with a limit that also allows a  *)
(* method nobody knows; "other" allows reading only.                       *)
(***************************************************************************)
EXTENDS Exchange

MCBlocks == {"default", "main", "other", "go", "back", "run", "put"}
MCServers == <<"main", "other">>
MCChildren == [b \in MCBlocks |-> IF b = "main" THEN <<"back", "go", "put", "run">> ELSE <<>>]
MCName == [b \in {"go", "back", "run", "put"} |->
              [star |-> FALSE,
               text |-> CASE b = "go" -> <<"/", "g">> [] b = "back" -> <<"/", "b">>
                          [] b = "run" -> <<"/", "c">>
                          [] b = "put" -> <<"/", "p">>]]

Main == [listen |-> <<80>>, root |-> <<"r">>, names |-> <<"main">>,
         errors |-> 403 :> "e3" @@ 404 :> "e4",
         size |-> 8, params |-> <<>>, cgi |-> "",
         methods |-> {"GET", "HEAD", "PUT", "DELETE"}, index |-> <<<<"i">>>>,
         alias |-> <<>>, auto |-> FALSE, redirect |-> <<>>]

MCConf ==
    [b \in MCBlocks |->
        CASE b = "other" -> [Main EXCEPT !.names = <<"other">>, !.root = <<"o">>,
                                         !.methods = {"GET"}, !.auto = TRUE]
          [] b = "go" -> [Main EXCEPT !.redirect = <<"/">>]
          [] b = "back" -> [Main EXCEPT !.redirect = <<"/", "g">>]
          [] b = "run" -> [Main EXCEPT !.cgi = "cgi", !.params = "k" :> "v",
                                       !.methods = {"GET", "POST"}]
          [] b = "put" -> [Main EXCEPT !.size = 1, !.alias = <<"u">>,
                                       !.methods = {"PUT", "POST", "BREW"}]
          [] OTHER -> Main]

MCHome == <<"h">>
MCHomePage == <<"i">>

Ask(method, path, body) ==
    [words |-> 3, method |-> method, path |-> path, query |-> "none",
     version |-> "1.1", host |-> "main", secret |-> "", auth |-> "",
     sized |-> body # <<>>, body |-> body]

\* A body of one unit, written with line ends around it.
One == <<"\n", "a", "\r", "\n">>

Style == <<"/", "n", ".", "c", "s", "s">>

\* Requests of every method, accepted and rejected.
AnyRequest ==
    {Ask("GET", <<"/">>, <<>>), Ask("DELETE", <<"/", "g">>, <<>>)}
    \cup {Ask("GET", <<"/", "c">>, <<>>), Ask("POST", <<"/", "c">>, One),
          Ask("PUT", <<"/", "p">>, <<"a", "b">>), Ask("PUT", <<"/", "p">>, One),
          Ask("POST", <<"/", "p">>, One),
          Ask("PUT", <<"/", "l">>, One), Ask("PUT", <<"/", "g">>, One),
          Ask("HEAD", Style, <<>>), Ask("BREW", <<"/", "p">>, <<>>),
          [Ask("GET", <<"/", "i">>, <<>>) EXCEPT !.host = "other"],
          [Ask("GET", <<"/", "d">>, <<>>) EXCEPT !.host = "other"],
          [Ask("GET", <<"/", "l">>, <<>>) EXCEPT !.version = ""]}
    \cup {Ask("PUT", Style, b) : b \in {<<>>, One}}
    \cup {[Ask("PUT", Style, <<"a", "b">>) EXCEPT !.version = "2.0"],
          [Ask("PUT", Style, One) EXCEPT !.words = 1],
          [Ask("DELETE", <<"/", "i">>, <<>>) EXCEPT !.words = 2, !.host = ""],
          [Ask("DELETE", <<"/", "i">>, <<>>) EXCEPT !.host = ""],
          [Ask("DELETE", <<"/", "l">>, <<>>) EXCEPT !.host = ""]}

\* Requests to the CGI, some with queries and private headers, and others that
\* leave a redirect or a type in the Response.
ToCgi == Ask("GET", <<"/", "c">>, <<>>)
CgiRequests ==
    {ToCgi, [ToCgi EXCEPT !.query = "x"], [ToCgi EXCEPT !.query = "y", !.secret = "s"],
     [ToCgi EXCEPT !.method = "POST", !.secret = "t",
                        !.sized = TRUE, !.body = One],
     [ToCgi EXCEPT !.auth = "a"], [ToCgi EXCEPT !.words = 2, !.secret = "t"],
     Ask("GET", <<"/", "g">>, <<>>), Ask("GET", <<"/", "b">>, <<>>), Ask("PUT", Style, One)}

MCSessions == {AnyRequest, CgiRequests}

MCDisk0 == (<<"r", "/", "i">> :> <<"o">>) @@ (<<"r", "/", "l">> :> <<"o">>)
MCLocked == {<<"r", "/", "l">>, <<"r", "/", "g">>}
MCDirectories == {<<"o", "/", "d">>}
MCUnreadable == {<<"r", "/", "l">>}
=============================================================================
