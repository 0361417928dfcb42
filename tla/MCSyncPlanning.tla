--------------------------- MODULE MCSyncPlanning ---------------------------
(* Instances of SyncPlanning for TLC. *)
EXTENDS SyncPlanning

CONSTANTS x, y, f, g, a, b, c, d   \* two buckets, two folders, four paths

MCObjects == {a, b, c, d} \X {1} \union {<<a, 2>>}

\* From x to y: a differs, d is an extra, one object in four; from f to y, two
\* are extras; from x to f, half of f.  g and nowhere are empty.
MCHolds == [p \in Places |->
  CASE p = x -> {<<a, 1>>, <<b, 1>>, <<c, 1>>}
    [] p = y -> {<<a, 2>>, <<b, 1>>, <<c, 1>>, <<d, 1>>}
    [] p = f -> {<<a, 1>>, <<d, 1>>}
    [] OTHER -> {}]

\* A configuration, everything else as in the default one.
From(m, s, t) == [DefaultConfig EXCEPT !.mode = m, !.source = s, !.destination = t]

MCConfigs ==
  { From("Diff", x, y), From("Copy", x, y), From("Sync", x, y), From("Sync", x, f),
    From("Sync", f, g),
    [From("Sync", x, y) EXCEPT !.overwrite_changed = FALSE],
    [From("Sync", y, x) EXCEPT !.filter = Objects \ {<<a, 2>>}],
    [From("Sync", f, y) EXCEPT !.max_deletes = 1],
    [From("Sync", y, f) EXCEPT !.planner_limit = 5],
    [From("Sync", x, y) EXCEPT !.max_deletes = 0, !.delete_extras = FALSE] }

MCOneConfig == {From("Sync", x, y)}
=============================================================================
