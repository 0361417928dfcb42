------------------------------ MODULE MCDetails ------------------------------
(* Two buckets with the same keys, one of them the beginning of the other. *)
EXTENDS Details

CONSTANTS k, km, b1, b2, root, sub, t1, t2, none, draft, doc

MCBelow    == [x \in {k, km} |-> IF x = k THEN {k, km} ELSE {km}]
MCInside   == [p \in {root, sub} |-> IF p = root THEN {k, km} ELSE {km}]
MCNormal   == [x \in {draft, doc} |-> doc]
MCFollows  ==
  {{"detail", "tags"}, {"detail", "versions"}, {"detail", "inspect", "heal"}, {"detail", "heal"},
   {"detail", "preview", "share"}, {"policy", "lifecycle"}, {"policy", "bucket"},
   {"bucket_tags", "bucket"}, {"versioning"}, {"ftt"}, {"objects", "find"},
   {"objects", "object", "detail"}}
MCActs     ==
  [parts \in MCFollows |->
     IF parts = {"detail", "heal"} THEN 5
     ELSE IF parts \in {{"policy", "lifecycle"},
                        {"detail", "preview", "share"}} THEN 3
     ELSE 4]
MCTags     == [o \in {b1, b2} \X {k, km} |-> IF o = <<b1, k>> THEN {t1} ELSE {}]
MCVersions == [o \in {b1, b2} \X {k, km} |-> IF o = <<b1, k>> THEN <<0, 1>> ELSE <<0>>]
MCPolicies == [b \in {b1, b2} |-> IF b = b1 THEN doc ELSE none]
MCLabels   == [b \in {b1, b2} |-> IF b = b1 THEN {t1} ELSE {}]
MCStored   == [b \in {b1, b2} |-> IF b = b1 THEN {k, km} ELSE {k}]
=============================================================================
