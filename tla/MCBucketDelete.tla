--------------------------- MODULE MCBucketDelete ---------------------------
(* Instances of BucketDelete for TLC. *)
EXTENDS BucketDelete

CONSTANTS s1, s2, x, y, a, b

\* One bucket holds an object, the others are empty; the other object arrives.
MCFull == [at \in Servers \X Buckets |-> IF at = <<s1, x>> THEN {a} ELSE {}]

MCShared == {<<s1, x>>}
=============================================================================
