------------------------------ MODULE MCS3Client ------------------------------
(* An upload of up to three parts, a download, a relay, a copy and both listings. *)
EXTENDS S3Client

CONSTANTS c1, c2, f, g   \* calls, the file uploaded, the file downloaded to

\* Version v of a content, of n units.
Content(v, n) == [i \in 1..n |-> 10 * v + i]

MCJobs ==
  {[op |-> "upload", key |-> 1, file |-> f], [op |-> "upload", key |-> 2, file |-> f],
   [op |-> "download", key |-> 1, file |-> g],
   [op |-> "relay", key |-> 1, to |-> 4], [op |-> "copy", key |-> 1, to |-> 2],
   [op |-> "objects"], [op |-> "recursive"]}
MCKeys     == 1..4
MCFolderOf == [k \in MCKeys |-> IF k = 3 THEN 2 ELSE k]
\* Two of the size an upload in parts has, so that one rewritten meanwhile completes.
MCContents == {Content(1, 5), Content(4, 5), Content(2, 3), Content(3, 2)}
MCStored   == [k \in {1, 2, 4} |-> Content(2, 3)]
MCSaved    == [x \in {f, g} |-> Content(1, 5)]
=============================================================================
