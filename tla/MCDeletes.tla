----------------------------- MODULE MCDeletes -----------------------------
(* Instances of Deletes for TLC. *)
EXTENDS Deletes

CONSTANTS s1, s2, a, b, c, p, q

\* Two prefixes that overlap.
MCUnder == [x \in PrefixNames |-> IF x = p THEN {a, b} ELSE Keys \ {a}]

\* Everything at home, nothing on the other server.
MCFull == {s1} \X Keys
=============================================================================
