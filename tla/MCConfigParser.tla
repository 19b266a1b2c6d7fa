--------------------------- MODULE MCConfigParser ---------------------------
(***************************************************************************)
(* Files for the parser: two written with what test/conf/mac_test.conf and *)
(* default.conf use, and every file that differs from one of them in one   *)
(* word that is missing, changed or added, or that stops after any word.   *)
(***************************************************************************)
EXTENDS ConfigParser

Nested ==
    <<"server", "{", "server_name", "youpi", "listen", "0.0.0.0:8000",
      "listen", "0.0.0.0:8000", "root", "r", "allow_methods", "GET",
      "location", "/a", "{", "alias", "index", "i",
        "location", "*.x", "{", "allow_methods", "GET", "POST", "cgi_pass", "c", "}",
      "}",
      "location", "/b", "{", "root", "s", "autoindex", "on", "}",
    "}">>

Two ==
    <<"server", "{", "error_page", "404", "80", "p", "listen", "80", "}",
      "server", "{", "location", "/a", "{", "root", "r", "}",
        "location", "/a", "{", "redirect", "/b", "client_body_buffer_size", "80", "}",
      "cgi_param", "k", "v", "autoindex", "off", "}">>

MCGood == {Nested, Two}

\* The words that damage a file.
Wrong == {"server", "location", "{", "}", "root", "alias", "listen", "404", "on", "/a"}

MCFiles ==
    UNION {{good} \cup {SubSeq(good, 1, n) : n \in 0 .. Len(good)}
             \cup {RemoveAt(good, n) : n \in DOMAIN good}
             \cup {ReplaceAt(good, n, w) : n \in DOMAIN good, w \in Wrong}
             \cup {InsertAt(good, n, w) : n \in DOMAIN good, w \in Wrong} :
             good \in MCGood}

MCNumbers == "" :> 0 @@ "80" :> 80 @@ "404" :> 404 @@ "8000" :> 8000
MCColons == "0.0.0.0:8000" :> [host |-> <<0, 0, 0, 0>>, port |-> "8000"]

MCDefault == [NewBlock EXCEPT !.listen = <<[host |-> <<0, 0, 0, 0>>, port |-> 80]>>,
                              !.methods = {"GET", "HEAD", "POST", "PUT", "DELETE"},
                              !.index = <<"index.php">>, !.size = 1000000000]
=============================================================================
