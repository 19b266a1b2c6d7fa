----------------------------- MODULE MCRouting -----------------------------
(***************************************************************************)
(* Two server blocks that share a port; one has a location within a        *)
(* location and a "*x" location beside and inside another, as in           *)
(* test/conf/mac_test.conf.                                                *)
(***************************************************************************)
EXTENDS Routing

MCBlocks == {"default", "youpi", "other", "a", "ab", "anyX", "aX"}
MCServers == <<"youpi", "other">>
MCChildren ==
    [b \in MCBlocks |-> CASE b = "youpi" -> <<"anyX", "ab", "a">>
                          [] b = "a" -> <<"aX">>
                          [] OTHER -> <<>>]
MCName ==
    [b \in {"a", "ab", "anyX", "aX"} |->
        CASE b = "a" -> [star |-> FALSE, text |-> <<"/", "a">>]
          [] b = "ab" -> [star |-> FALSE, text |-> <<"/", "a", "b">>]
          [] OTHER -> [star |-> TRUE, text |-> <<"x">>]]

Blank == [listen |-> <<>>, root |-> <<>>, names |-> <<>>, errors |-> <<>>,
          size |-> 0, params |-> <<>>, cgi |-> "", methods |-> {},
          index |-> <<>>, alias |-> <<>>, auto |-> FALSE, redirect |-> <<>>]

MCHome == <<"h">>
MCHomePage == <<"i">>

\* What differs from one file to the next: the root, names and ports of the
\* servers, and the index files, limits and alias of the locations.
MCParsed ==
    {[b \in MCBlocks |->
        CASE b = "default" -> [Blank EXCEPT !.listen = <<80>>, !.size = 9,
                                            !.methods = {"GET"}, !.index = <<<<"p">>>>]
          [] b = "youpi" -> [Blank EXCEPT !.listen = ports, !.root = <<"r">>,
                                          !.names = <<"youpi">>, !.index = <<<<"i">>>>]
          [] b = "other" -> [Blank EXCEPT !.listen = <<81>>, !.root = <<"h">>,
                                          !.names = <<name>>]
          [] b = "a" -> [Blank EXCEPT !.alias = alias, !.size = size,
                                      !.index = index, !.methods = {"PUT"}]
          [] b = "aX" -> [Blank EXCEPT !.cgi = "cgi", !.root = root]
          [] b = "anyX" -> [Blank EXCEPT !.cgi = "cgi", !.methods = {"POST"}]
          [] OTHER -> Blank] :
        ports \in {<<>>, <<81>>, <<80, 81>>}, name \in {"youpi", "other"},
        alias \in {<<>>, <<"z">>}, size \in {0, 3},
        index \in {<<>>, <<<<"q">>>>}, root \in {<<>>, <<"s">>}}

MCPaths == {<<>>, <<"/">>, <<"/", "a">>, <<"/", "a", "b">>, <<"/", "a", "/", "x">>,
            <<"/", "a", "b", "x">>, <<"/", "/", "x">>, <<"x">>}

MCRequests == [host : {"youpi", "other", ""}, listen : {80, 81},
               path : MCPaths, method : {"GET", "PUT"}]

MCDisks == {{}, {<<"h", "/", "i">>, <<"r", "/", "a", "/", "i">>,
                 <<"r", "/", "a", "/", "q">>, <<"z", "/", "q">>}}
=============================================================================
