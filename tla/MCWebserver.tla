---------------------------- MODULE MCWebserver ----------------------------
(* Instances of Webserver for TLC: who connects where and sends what.        *)
EXTENDS Streams

CONSTANTS c1, c2, c3

\* A request: its start line, its other tokens; the length of the body for cl.
Req(c, no, kinds, n) ==
    [i \in DOMAIN kinds |->
        [from |-> c, no |-> no, kind |-> kinds[i],
         len |-> IF kinds[i] = "cl" THEN n ELSE 0]]

Get == <<"line", "eoh">>
Bad == <<"badline", "eoh">>
Mute == <<"mute", "eoh">>
Post == <<"line", "cl", "eoh", "data">>
Chunks == <<"line", "te", "eoh", "chunk", "last">>
NoChunks == <<"line", "te", "eoh", "last">>
NoParse == <<"line", "te", "eoh", "data", "last">>
ZeroHeader == <<"line", "te", "eoz", "chunk", "last">>

\* One POST with a body, then a rejected line; a chunked POST, then a GET.
PoliteScript ==
    c1 :> (Req(c1, 1, Post, 1) \o Req(c1, 2, Bad, 0)) @@
    c2 :> (Req(c2, 1, Chunks, 0) \o Req(c2, 2, Get, 0))
TwoPorts == c1 :> 1 @@ c2 :> 2

\* A chunked POST whose last header line ends in '0', as in "Host: a:8000".
ZeroScript ==
    c1 :> Req(c1, 1, ZeroHeader, 0) @@ c2 :> Req(c2, 1, Get, 0)

\* Clients that leave when they like, or stay; c1 asks for a method nobody serves, c2
\* ends with chunks that do not parse, and c3 only connects.
DepartingScript ==
    c1 :> Req(c1, 1, Mute, 0) @@
    c2 :> (Req(c2, 1, Get, 0) \o Req(c2, 2, NoParse, 0)) @@ c3 :> <<>>
ThreeOnOnePort == c1 :> 1 @@ c2 :> 1 @@ c3 :> 1

\* c2 sends a second request without waiting for the answer to the first.
PipeliningScript ==
    c1 :> Req(c1, 1, Get, 0) @@
    c2 :> (Req(c2, 1, Get, 0) \o Req(c2, 2, NoChunks, 0))

OnePort == c1 :> 1 @@ c2 :> 1
=============================================================================
