---------------------------- MODULE MCTransfer ----------------------------
(* Instances of Transfer for TLC. *)
EXTENDS Transfer

CONSTANTS s1, s2, a, b, far

\* One saved connection, to another server; or none.
MCServerOf == [c \in Conns |-> s2]

\* Both objects at home, one of the same name abroad and one file.
MCFull == {<<s1, a>>, <<s1, b>>, <<s2, b>>, <<Disk, a>>}

=============================================================================
