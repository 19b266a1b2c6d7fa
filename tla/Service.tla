------------------------------ MODULE Service ------------------------------
(***************************************************************************)
(* What the server promises a client that waits for its answers: they come *)
(* whole, one at a time, in the order of the requests, each answering      *)
(* exactly the request that was sent, and every request gets one.  Nothing *)
(* is said of entries, descriptors or select(); Webserver implements this. *)
(***************************************************************************)
EXTENDS Naturals, Sequences

CONSTANTS
    Clients,
    Requests      \* Requests[c]: the requests client c makes, in order

VARIABLES
    asked,        \* asked[c]: how many requests c has sent to the end
    answered,     \* answered[c]: the requests whose answers c was sent whole
    partial       \* partial[c]: a part of the next answer was sent

serviceVars == <<asked, answered, partial>>

ServiceInit ==
    /\ asked = [c \in Clients |-> 0]
    /\ answered = [c \in Clients |-> <<>>]
    /\ partial = [c \in Clients |-> FALSE]

Waiting(c) == Len(answered[c]) < asked[c]

Ask(c) ==
    /\ ~Waiting(c) /\ asked[c] < Len(Requests[c])
    /\ asked' = [asked EXCEPT ![c] = @ + 1]
    /\ UNCHANGED <<answered, partial>>

AnswerPart(c) ==
    /\ Waiting(c)
    /\ partial' = [partial EXCEPT ![c] = TRUE]
    /\ UNCHANGED <<asked, answered>>

AnswerWhole(c) ==
    /\ Waiting(c)
    /\ answered' = [answered EXCEPT ![c] =
                      Append(@, Requests[c][Len(@) + 1])]
    /\ partial' = [partial EXCEPT ![c] = FALSE]
    /\ UNCHANGED asked

ServiceNext == \E c \in Clients : Ask(c) \/ AnswerPart(c) \/ AnswerWhole(c)

EveryOneAnswered ==
    \A c \in Clients : \A k \in DOMAIN Requests[c] :
        asked[c] >= k ~> Len(answered[c]) >= k

\* What never happens, and with it what must.
ServiceSafety == ServiceInit /\ [][ServiceNext]_serviceVars
ServiceSpec == ServiceSafety /\ EveryOneAnswered
=============================================================================
