------------------------------- MODULE MCCgi -------------------------------
(* An instance of Cgi for TLC: requests without a body and with one.         *)
EXTENDS Cgi

MCBodies == {<<>>, <<"a", "b">>}
=============================================================================
