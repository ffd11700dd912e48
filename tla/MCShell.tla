------------------------------ MODULE MCShell -------------------------------
(* A line holds three characters and the third reaches the right edge: a   *)
(* full buffer and a wrapped line are both within six keys.                *)
EXTENDS Login

MCPrefix == <<91>>
MCKey == {97, 99, 101, 104, NL, BS}
=============================================================================
