---------------------------- MODULE MCSyncPlanner ----------------------------
(* Two objects of a folder or a bucket, synced with another under configurations that  *)
(* differ in few fields at a time.                                                     *)
EXTENDS SyncPlanner

CONSTANTS bucket, backup, folder

x   == <<"x">>
bx  == <<"b", "/", "x">>
b_x == <<"b", "x">>
b   == <<"b">>
bs  == <<"b", "/">>

MCKeys == {x, bx, b_x}
MCSize == <<1, 1, 2>>

S3(space, connection, prefix) ==
  [kind |-> "S3", space |-> space, connection |-> connection, prefix |-> prefix]
Local == [kind |-> "Local", space |-> folder, connection |-> 0, prefix |-> <<>>]

NoText   == [number |-> {}, suffix |-> 0]
NoAge    == [ago |-> {}, date |-> {}]
NoFilter == [min_size |-> NoText, max_size |-> NoText, include |-> {}, exclude |-> {},
             newer_than |-> NoAge, older_than |-> NoAge]

Converge   == [overwrite_changed |-> TRUE, delete_extras |-> TRUE,
               destination_newer_policy |-> "SourceWins"]
UpdateOnly == [Converge EXCEPT !.delete_extras = FALSE]
Exact      == [Converge EXCEPT !.destination_newer_policy = "Conflict"]
Careful    == [overwrite_changed |-> FALSE, delete_extras |-> TRUE,
               destination_newer_policy |-> "Skip"]
Modes      == {"AlwaysOverwrite", "SizeOnly", "SizeAndModTime", "UpdateIfSourceNewer",
               "ChecksumIfAvailable"}

Setup(source, destination, mode, policy, compare_mode, filters) ==
  [source |-> source, destination |-> destination, mode |-> mode, policy |-> policy,
   compare_mode |-> compare_mode, filters |-> filters]

Places == {<<Local, S3(bucket, 1, <<>>)>>, <<S3(bucket, 1, <<>>), Local>>,
           <<S3(bucket, 1, <<>>), S3(backup, 1, <<>>)>>,
           <<S3(bucket, 1, <<>>), S3(backup, 2, <<>>)>>}
Plain  == {Setup(p[1], p[2], "Sync", policy, mode, NoFilter) :
             p \in Places, policy \in {Converge, Exact}, mode \in Modes}
          \union {Setup(p[1], p[2], "Copy", Converge, mode, NoFilter) : p \in Places, mode \in Modes}
Others == {Setup(Local, S3(bucket, 1, <<>>), "Diff", Converge, "SizeOnly", NoFilter),
           Setup(S3(bucket, 1, bs), S3(bucket, 1, <<>>), "Sync", Converge, "SizeOnly", NoFilter),
           Setup(S3(bucket, 1, <<>>), S3(backup, 1, b), "Sync", Converge, "SizeOnly",
                 [NoFilter EXCEPT !.exclude = {<<b>>}]),
           Setup(S3(backup, 1, bs), S3(bucket, 1, <<>>), "Sync", Careful, "SizeAndModTime", NoFilter)}
Filters ==
  {[NoFilter EXCEPT !.min_size = [number |-> {1}, suffix |-> 1]],
   [NoFilter EXCEPT !.max_size = [number |-> {1}, suffix |-> 0]],
   [NoFilter EXCEPT !.max_size = [number |-> {3}, suffix |-> 2]],
   [NoFilter EXCEPT !.newer_than = [ago |-> {3}, date |-> {}]],
   [NoFilter EXCEPT !.older_than = [ago |-> {3}, date |-> {}]],
   [NoFilter EXCEPT !.newer_than = [ago |-> {}, date |-> {2}]],
   [NoFilter EXCEPT !.include = {<<<<"b", "*">>>>}],
   [NoFilter EXCEPT !.include = {<<<<"*", "x">>>>}, !.exclude = {<<b>>}],
   [NoFilter EXCEPT !.include = {<<<<"?">>>>, <<<<"*", "/", "?">>>>}],
   [NoFilter EXCEPT !.include = {<<<<"b", "/">>, <<>>>>}],
   [NoFilter EXCEPT !.exclude = {<<<<>>, <<"/", "x">>>>}]}
Filtered == {Setup(Local, S3(bucket, 1, <<>>), mode, UpdateOnly, "SizeOnly", f) :
               f \in Filters, mode \in {"Copy"}}
            \union {Setup(S3(bucket, 1, <<>>), S3(backup, 1, <<>>), "Sync", Converge,
                          "ChecksumIfAvailable", f) : f \in Filters}
MCSetups == Plain \union Others \union Filtered

\* Other programs write where it matters most: to a local folder and where it is uploaded.
MCWrites == [s \in MCSetups |->
               IF s \in Plain /\ s.policy = Exact /\ s.compare_mode = "UpdateIfSourceNewer"
                    /\ s.mode = "Sync" /\ s.source.kind = "Local"
                 THEN 1 ELSE 0]

Dates(place) == IF place.kind = "Local" THEN {0, 1, 3} ELSE {0, 2}
Objects(place) ==
  {Absent} \union {[data |-> d, at |-> at, parts |-> place.kind = "S3" /\ MCSize[d] >= BigSize] :
                     d \in Data, at \in Dates(place)}
MCStores ==
  [s \in MCSetups |->
    {[l \in Locations |->
        CASE l = <<s.source.space, x>> -> objects[1]
          [] l = <<s.destination.space, x>> -> objects[2]
          [] l = <<s.source.space, bx>> -> objects[3]
          [] l = <<s.destination.space, bx>> -> objects[4]
          [] OTHER -> Absent] :
      objects \in Objects(s.source) \X Objects(s.destination)
                    \X {Absent, [data |-> 1, at |-> 0, parts |-> FALSE]}
                    \X {Absent, [data |-> 1, at |-> 0, parts |-> FALSE]}}]
=============================================================================
