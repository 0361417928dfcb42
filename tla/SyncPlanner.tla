----------------------------- MODULE SyncPlanner -----------------------------
(***************************************************************************)
(* What a sync decides and what becomes of it: the listings of two places, *)
(* the comparison of their objects, the plan and its execution, again and  *)
(* again.  src/src/app/sync_ops.rs, with execute_sync_run_item of          *)
(* transfer_ops.rs and the delete batches of handlers/sync.rs.             *)
(*                                                                         *)
(* SyncPlanning and SyncExecution have the handlers and their              *)
(* interleavings, and leave open what is compared and copied; here a plan  *)
(* is built of two listings and carried out task by task, while other      *)
(* programs write.                                                         *)
(*                                                                         *)
(* Data abstraction: contents are numbered; time is counted in half        *)
(* seconds, since local files have fractions of seconds and S3 does not.   *)
(***************************************************************************)
EXTENDS Globs

CONSTANTS
  Spaces,         \* buckets, and the folders of local places
  Keys,           \* keys in them, as sequences of characters
  Data, Size,     \* contents, and how long they are
  BigSize,        \* the length from which upload_file sends parts
  SpoolSize,      \* the length above which a relayed object becomes a file between
  Setups,         \* configurations of a sync
  StoresAtFirst,  \* for each of them, what there may be at first
  Unit, Limit,    \* the 1024 of the size suffixes, and 2^64
  BATCH,          \* keys in a delete call
  Start, MaxNow,  \* bounds of the clock
  MaxWrites,      \* bound: writes of other programs, for each of Setups
  MaxPlans        \* bound: plans built

Absent    == [data |-> 0, at |-> 0, parts |-> FALSE]
Object    == [data: Data, at: Nat, parts: BOOLEAN]
Locations == Spaces \X Keys

Policies == [overwrite_changed: BOOLEAN, delete_extras: BOOLEAN,
             destination_newer_policy: {"SourceWins", "Skip", "Conflict"}]

ASSUME DataAssumption == Size \in [Data -> Nat] /\ 0 \notin Data /\ Keys \subseteq Seq(STRING)
ASSUME ClockAssumption ==
  /\ {Unit, Limit, BATCH} \subseteq Nat \ {0}
  /\ {BigSize, SpoolSize, Start, MaxNow, MaxPlans} \subseteq Nat
  /\ MaxWrites \in [Setups -> Nat]
ASSUME SetupsAssumption == \A s \in Setups :
  /\ \A place \in {s.source, s.destination} :
       place.kind \in {"Local", "S3"} /\ place.space \in Spaces /\ place.prefix \in Seq(STRING)
  /\ s.source.kind # s.destination.kind => s.source.space # s.destination.space
  /\ s.mode \in {"Copy", "Sync", "Diff"}
  /\ s.policy \in Policies
  /\ s.filters.include \union s.filters.exclude \subseteq Seq(Seq(STRING))
\* The present is the same everywhere: nothing is dated after it.  S3 has whole seconds.
ASSUME StoresAssumption == \A s \in Setups : \A objects \in StoresAtFirst[s] :
  /\ objects \in [Locations -> Object \union {Absent}]
  /\ \A l \in Locations : objects[l].at <= Start
  /\ \A place \in {s.source, s.destination}, key \in Keys :
       place.kind = "S3" => objects[<<place.space, key>>].at % 2 = 0

VARIABLES
  setup,      \* the part of SyncState a plan is made from
  store,      \* the object at each location
  now,        \* the clock
  stage,      \* "idle", "source" listed, "planned"
  source_snapshot,  \* SyncState.source_snapshot
  plan,       \* the items of SyncState.plan
  transfers,  \* paths of SyncRunPlan.transfers not yet tried
  deletes,    \* paths of SyncRunPlan.deletes not yet tried
  failed,     \* some transfer of the run failed
  writes,     \* history: writes of other programs so far
  plans,      \* history: plans built so far
  quiet,      \* history: no other program has written since the last listing began
  settled_at  \* history: when a run last succeeded with quiet all along; 0 for never

plannerVars == <<setup, store, now, stage, source_snapshot, plan, transfers, deletes, failed,
                 writes, plans, quiet, settled_at>>

-----------------------------------------------------------------------------
(* Filters.  An Option is a set with at most one element. *)

\* parse_size_filter.  A number that does not parse, or overflows, is no bound.
ParseSizeFilter(text) ==
  {n * Unit ^ text.suffix : n \in {m \in text.number : m * Unit ^ text.suffix < Limit}}

\* parse_age_filter: a duration before the present, or a date.
ParseAgeFilter(text, present) ==
  {present - n : n \in text.ago} \union text.date

\* A date as the listing spells it, in seconds and half seconds.
Instant(modified) == 2 * modified[1] + modified[2]

PathPasses(path, filters) ==
  /\ filters.include # {} => \E pattern \in filters.include : WildcardMatch(pattern, path)
  /\ ~\E pattern \in filters.exclude : WildcardMatch(pattern, path)

ApplySyncFilters(object, path, filters, present) ==
  /\ PathPasses(path, filters)
  /\ \A bound \in ParseSizeFilter(filters.min_size) : object.size >= bound
  /\ \A bound \in ParseSizeFilter(filters.max_size) : object.size <= bound
  /\ \A cutoff \in ParseAgeFilter(filters.newer_than, present) :
       Instant(object.modified) >= cutoff
  /\ \A cutoff \in ParseAgeFilter(filters.older_than, present) :
       Instant(object.modified) <= cutoff

-----------------------------------------------------------------------------
(* Listings *)

\* join_s3_key, and root.join for a local place, whose prefix is empty.
JoinKey(prefix, path) ==
  IF prefix = <<>> \/ Last(prefix) = "/" THEN prefix \o path ELSE prefix \o <<"/">> \o path

\* A local path begins with no slash, and neither does that of a key after its prefix.
RelativePath(place, key) == TrimStart(Rest(key, Len(place.prefix)))

At(place, path) == <<place.space, JoinKey(place.prefix, path)>>

\* Keys has the keys of all copies, and of what is looked for to copy.
ASSUME KeysAssumption == \A s \in Setups, key \in Keys :
  LET path == RelativePath(s.source, key)
  IN  (IsPrefix(s.source.prefix, key) /\ PathPasses(path, s.filters)) =>
        {At(s.source, path), At(s.destination, path)} \subseteq Locations

\* The object as the listing of its place returns it.  The etag of parts is not that of
\* the contents.
AsListed(place, object) ==
  [size     |-> Size[object.data],
   modified |-> <<object.at \div 2, IF place.kind = "Local" THEN object.at % 2 ELSE 0>>,
   etag     |-> IF place.kind = "Local" THEN {} ELSE {<<object.data, object.parts>>}]

KeysUnder(place) ==
  {key \in Keys : store[<<place.space, key>>] # Absent /\ IsPrefix(place.prefix, key)}

\* The keys whose objects are listed under this path: several, when some go on with a slash
\* after the prefix.  Of these the last is kept.
KeysOf(place, path) ==
  {key \in KeysUnder(place) :
     /\ RelativePath(place, key) = path
     /\ ApplySyncFilters(AsListed(place, store[<<place.space, key>>]), path, setup.filters, now)}

\* enumerate_local_for_sync and enumerate_s3_for_sync.
Paths(place) == {RelativePath(place, key) : key \in KeysUnder(place)}
Enumerate(place) ==
  [path \in {p \in Paths(place) : KeysOf(place, p) # {}} |->
     AsListed(place, store[<<place.space, CHOOSE key \in KeysOf(place, path) : TRUE>>])]

-----------------------------------------------------------------------------
(* Comparison *)

\* Mutant: the comparison the wrong way round.
SpelledAfter(a, b) == a[1] > b[1] \/ (a[1] = b[1] /\ a[2] <= b[2])

\* Dates are compared as text: "..:07.5Z" comes before "..:07Z".
SpelledBefore(a, b) == a[1] < b[1] \/ (a[1] = b[1] /\ a[2] >= b[2])

UpdateOrConflict(overwrite_changed) == IF overwrite_changed THEN "Update" ELSE "Conflict"

\* What is equal and what differs, in the order the five modes look at it.
Difference(source, destination, mode) ==
  CASE mode = "AlwaysOverwrite" -> "SourceNewer"
    [] mode = "ChecksumIfAvailable" ->
         IF /\ source.etag # {} /\ source.etag = destination.etag
            /\ source.size = destination.size
           THEN "Identical"
         ELSE IF source.size # destination.size THEN "SizeMismatch" ELSE "ChecksumMismatch"
    [] OTHER ->
         IF source.size # destination.size THEN "SizeMismatch"
         ELSE IF mode = "SizeOnly" \/ source.modified = destination.modified THEN "Identical"
         ELSE IF /\ mode = "UpdateIfSourceNewer"
                 /\ SpelledBefore(source.modified, destination.modified)
           THEN "DestinationNewer"
         ELSE "SourceNewer"

CompareSyncObjects(source, destination, mode, policy) ==
  LET reason == Difference(source, destination, mode)
  IN  CASE reason = "Identical" -> "Skip"
        [] reason = "DestinationNewer" /\ policy.destination_newer_policy # "SourceWins" ->
             policy.destination_newer_policy
        [] OTHER -> UpdateOrConflict(policy.overwrite_changed)

\* Mutant: what is newer at the destination counts as changed.
CompareCopyObjectsAnyway(source, destination, mode) ==
  IF Difference(source, destination, mode) = "Identical" THEN "Skip" ELSE "Update"

CompareCopyObjects(source, destination, mode) ==
  IF Difference(source, destination, mode) \in {"Identical", "DestinationNewer"}
    THEN "Skip" ELSE "Update"

\* Mutant: a copy deletes as well.
MissingOnSourceActionInCopies(mode, policy) ==
  IF policy.delete_extras THEN "Delete" ELSE "Skip"

MissingOnSourceAction(mode, policy) ==
  IF mode # "Copy" /\ policy.delete_extras THEN "Delete" ELSE "Skip"

BuildSyncPlan(source, destination) ==
  [path \in DOMAIN source \union DOMAIN destination |->
     IF path \notin DOMAIN destination THEN "Create"
     ELSE IF path \notin DOMAIN source THEN MissingOnSourceAction(setup.mode, setup.policy)
     ELSE IF setup.mode = "Copy"
       THEN CompareCopyObjects(source[path], destination[path], setup.compare_mode)
     ELSE CompareSyncObjects(source[path], destination[path], setup.compare_mode,
                             setup.policy)]

\* Mutant: only what is missing is transferred.
TransfersOfMissing(p) == {path \in DOMAIN p : p[path] = "Create"}

\* prepare_sync_run_plan.
TransfersIn(p) == {path \in DOMAIN p : p[path] \in {"Create", "Update"}}
DeletesIn(p)   == {path \in DOMAIN p : p[path] = "Delete"}

-----------------------------------------------------------------------------
(* Planning *)

\* determine_execution_strategy.
Strategy ==
  CASE setup.source.kind = "Local" -> "Upload"
    [] setup.destination.kind = "Local" -> "Download"
    [] setup.source.connection = setup.destination.connection -> "ServerSideCopy"
    [] OTHER -> "ClientRelay"

ListSource ==
  /\ stage = "idle"
  /\ plans < MaxPlans
  /\ stage' = "source"
  /\ source_snapshot' = Enumerate(setup.source)
  /\ quiet' = TRUE
  /\ UNCHANGED <<setup, store, now, plan, transfers, deletes, failed, writes, plans, settled_at>>

\* The destination is listed, the plan built and, unless this is a diff, run.
ListDestination ==
  LET p == BuildSyncPlan(source_snapshot, Enumerate(setup.destination))
  IN  /\ stage = "source"
      /\ stage' = "planned"
      /\ plans' = plans + 1
      /\ plan' = p
      /\ transfers' = IF setup.mode = "Diff" THEN {} ELSE TransfersIn(p)
      /\ deletes' = IF setup.mode = "Diff" THEN {} ELSE DeletesIn(p)
      /\ failed' = FALSE
      /\ UNCHANGED <<setup, store, now, source_snapshot, writes, quiet, settled_at>>

-----------------------------------------------------------------------------
(* Execution *)

\* What a copy of an object is at the destination: dated at present, of parts when it was
\* uploaded in parts.
CopyOf(object) ==
  [data  |-> object.data,
   at    |-> IF setup.destination.kind = "Local" THEN now ELSE 2 * (now \div 2),
   parts |-> /\ Size[object.data] >= BigSize
             /\ \/ Strategy = "Upload"
                \/ Strategy = "ClientRelay" /\ Size[object.data] > SpoolSize]

\* execute_sync_run_item: what is at the source by now is copied, if there is anything.
\* An empty path is no local file.
Transfer(path) ==
  LET source == store[At(setup.source, path)]
  IN  /\ path \in transfers
      /\ transfers' = transfers \ {path}
      /\ \/ /\ source # Absent
            /\ "Local" \in {setup.source.kind, setup.destination.kind} => path # <<>>
            /\ store' = [store EXCEPT ![At(setup.destination, path)] = CopyOf(source)]
            /\ UNCHANGED failed
         \/ failed' = TRUE /\ UNCHANGED store
      /\ UNCHANGED <<setup, now, stage, source_snapshot, plan, deletes, writes, plans, quiet,
                     settled_at>>

\* The deletions come after the transfers, and only if none failed: batches of keys of a
\* bucket, or single files.  Some of the keys of a batch may be left.
Delete(paths) ==
  /\ transfers = {}
  /\ ~failed
  /\ paths \subseteq deletes
  /\ Cardinality(paths) = IF setup.destination.kind = "Local" THEN 1
                          ELSE Min({BATCH, Cardinality(deletes)})
  /\ deletes' = deletes \ paths
  /\ \E done \in {paths} \union {paths \ {p} : p \in paths} :
       /\ store' = [l \in Locations |->
                      IF \E p \in done : l = At(setup.destination, p) THEN Absent ELSE store[l]]
       /\ failed' = (done # paths)
  /\ UNCHANGED <<setup, now, stage, source_snapshot, plan, transfers, writes, plans, quiet,
                 settled_at>>

Finish ==
  /\ stage = "planned"
  /\ transfers = {}
  /\ deletes = {} \/ failed
  /\ stage' = "idle"
  /\ settled_at' = IF quiet /\ ~failed /\ setup.mode # "Diff" THEN now ELSE 0
  /\ deletes' = {}
  /\ failed' = FALSE
  /\ plan' = <<>>
  /\ source_snapshot' = <<>>
  /\ UNCHANGED <<setup, store, now, transfers, writes, plans, quiet>>

-----------------------------------------------------------------------------
(* Other programs, and time *)

Write(l, object) ==
  /\ writes < MaxWrites[setup]
  /\ writes' = writes + 1
  /\ store' = [store EXCEPT ![l] = object]
  /\ quiet' = FALSE
  /\ settled_at' = 0
  /\ UNCHANGED <<setup, now, stage, source_snapshot, plan, transfers, deletes, failed, plans>>

Tick ==
  /\ now < MaxNow
  /\ now' = now + 1
  /\ UNCHANGED <<setup, store, stage, source_snapshot, plan, transfers, deletes, failed, writes,
                 plans, quiet, settled_at>>

PlannerInit ==
  /\ setup \in Setups
  /\ store \in StoresAtFirst[setup]
  /\ now = Start
  /\ stage = "idle"
  /\ source_snapshot = <<>>
  /\ plan = <<>>
  /\ transfers = {}
  /\ deletes = {}
  /\ failed = FALSE
  /\ writes = 0
  /\ plans = 0
  /\ quiet = FALSE
  /\ settled_at = 0

PlannerNext ==
  \/ ListSource
  \/ ListDestination
  \/ \E path \in transfers : Transfer(path)
  \/ \E paths \in SUBSET deletes : Delete(paths)
  \/ Finish
  \/ \E l \in {setup.source.space, setup.destination.space} \X Keys :
       \/ Write(l, Absent)
       \/ \E d \in Data : Write(l, [data |-> d, at |-> 2 * (now \div 2), parts |-> FALSE])
  \/ Tick

PlannerSpec == PlannerInit /\ [][PlannerNext]_plannerVars
-----------------------------------------------------------------------------
(* Properties *)

\* Prefixes that end where a component does, and places that do not overlap.
Proper == \A place \in {setup.source, setup.destination} :
            place.prefix = <<>> \/ Last(place.prefix) = "/"
Apart  == \/ setup.source.space # setup.destination.space
          \/ /\ ~IsPrefix(setup.source.prefix, setup.destination.prefix)
             /\ ~IsPrefix(setup.destination.prefix, setup.source.prefix)

\* No key has a slash after the prefix, that its path would be without.
Straight == \A place \in {setup.source, setup.destination} : \A key \in KeysUnder(place) :
              At(place, RelativePath(place, key)) = <<place.space, key>>

\* No filter by age, that lets different objects through at different times; none by date,
\* either; none by size.
Timeless   == setup.filters.newer_than.ago \union setup.filters.older_than.ago = {}
Undated    == /\ Timeless
              /\ setup.filters.newer_than.date \union setup.filters.older_than.date = {}
Unfiltered == /\ Undated
              /\ setup.filters.min_size.number \union setup.filters.max_size.number = {}

Carries == setup.mode = "Copy" \/ setup.policy.overwrite_changed

\* After a run without failures, with no other program writing since its listings began,
\* the destination has what the mode of comparison promises of every object of the source
\* that the filters let through: its contents, or an object of its length.  When extras are
\* deleted there is nothing else.  Runs that failed, were partly done or had become stale
\* may have come before.
Converges ==
  (stage = "idle" /\ settled_at # 0 /\ Proper /\ Apart /\ Straight /\ Timeless) =>
    LET source      == Enumerate(setup.source)
        destination == Enumerate(setup.destination)
        Copied(path) == store[At(setup.destination, path)]
    IN  /\ Carries => \A path \in DOMAIN source :
             /\ Copied(path) # Absent
             /\ Size[Copied(path).data] = source[path].size
             /\ setup.compare_mode \in {"AlwaysOverwrite", "ChecksumIfAvailable"} =>
                  Copied(path).data = store[At(setup.source, path)].data
        /\ (setup.mode = "Sync" /\ setup.policy.delete_extras) =>
             DOMAIN destination \subseteq DOMAIN source

\* The modes of comparison that recognise their own copies: by length; by etags, where both
\* ends have them and no object was uploaded in parts; by date, if what is newer at the
\* destination is left alone and no copy was made in the second its source was written.
RecognisesCopies ==
  \/ setup.compare_mode = "SizeOnly"
  \/ /\ setup.compare_mode = "ChecksumIfAvailable"
     /\ {setup.source.kind, setup.destination.kind} = {"S3"}
     /\ \A location \in {setup.source.space, setup.destination.space} \X Keys :
          ~store[location].parts
  \/ /\ setup.compare_mode = "UpdateIfSourceNewer"
     /\ setup.mode = "Copy" \/ setup.policy.destination_newer_policy # "SourceWins"
     /\ \A path \in DOMAIN Enumerate(setup.source) :
          \/ store[At(setup.source, path)].at \div 2 # store[At(setup.destination, path)].at \div 2
          \/ store[At(setup.source, path)].at = store[At(setup.destination, path)].at

\* A run right after a successful one finds nothing to do.
SettlesDown ==
  (/\ stage = "planned" /\ settled_at # 0
   /\ Proper /\ Apart /\ Straight /\ Undated /\ Carries /\ RecognisesCopies) =>
    transfers \union deletes = {}

\* Where the user asked to keep what is newer at the destination, no object of the source's
\* length is replaced that was written in a later second than the source's, by a plan that
\* is not stale.
NewerKept ==
  [][\A path \in transfers \ transfers' :
       LET source == store[At(setup.source, path)]
           there  == store[At(setup.destination, path)]
       IN  (/\ quiet /\ Proper /\ Apart /\ Straight /\ Unfiltered
            /\ setup.compare_mode = "UpdateIfSourceNewer"
            /\ setup.mode = "Copy" \/ setup.policy.destination_newer_policy # "SourceWins"
            /\ store' # store /\ there # Absent
            /\ Size[there.data] = Size[source.data]) =>
             there.at \div 2 <= source.at \div 2]_plannerVars

\* Only a sync that was to delete extras deletes, and only what the source has nothing of,
\* or nothing that passes the filters, and passes them itself.  Left out are filters that
\* count from the present: the destination is listed later than the source.
DeletesAreExtras ==
  [][\A path \in deletes \ deletes' :
       (/\ quiet /\ Proper /\ Apart /\ Timeless
        /\ store'[At(setup.destination, path)] # store[At(setup.destination, path)]) =>
         /\ setup.mode = "Sync" /\ setup.policy.delete_extras
         /\ path \notin DOMAIN Enumerate(setup.source)
         /\ path \in DOMAIN Enumerate(setup.destination)]_plannerVars

\* A pattern without "**" matches the paths it means.  There "*" and "?" take slashes, too: the
\* comment at src/src/app/transfer_ops.rs:375-376 and the test at 571-576 say so, wildcard_match's
\* own comment, 360-362, says they never do.  GlobMeans follows the code and its test.
PatternsAsMeant ==
  \A pattern \in setup.filters.include \union setup.filters.exclude, key \in Keys :
    Len(pattern) = 1 => (WildcardMatch(pattern, key) <=> GlobMeans(pattern, key))

\* The description of the preset Exact, src/src/app/types.rs:504: "Require review for
\* destination-newer conflicts before exact convergence."  Said of the comparison that a
\* new sync starts with.
ExactReviewsNewer ==
  [][\A path \in transfers \ transfers' :
       LET source == store[At(setup.source, path)]
           there  == store[At(setup.destination, path)]
       IN  (/\ quiet /\ Proper /\ Apart /\ setup.mode = "Sync"
            /\ setup.policy.destination_newer_policy = "Conflict"
            /\ setup.compare_mode = "SizeAndModTime"
            /\ store' # store /\ there # Absent) =>
             there.at \div 2 <= source.at \div 2]_plannerVars

\* wildcard_match's comment, src/src/app/transfer_ops.rs:360-362: "Supports `*` (matches
\* any chars except `/`), `**` (matches any chars including `/`), and `?` (matches one
\* non-`/` char). This matches rclone glob semantics."
GlobsAsMeant ==
  \A pattern \in setup.filters.include \union setup.filters.exclude, key \in Keys :
    Len(pattern) > 1 => (WildcardMatch(pattern, key) <=> GlobMeans(pattern, key))

=============================================================================
