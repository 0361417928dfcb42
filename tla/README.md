# A verification project for abixio-ui

abixio-ui is a desktop client for S3-compatible servers, written in Rust on the
iced toolkit. One `App` value holds the whole state; `update` handles one
`Message` at a time, and everything slow (S3 requests, file operations, a child
process, timers) is a `Task` whose result comes back later as another message.
There are no data races: what is hard is the *order* in which messages arrive,
the state a handler finds when a result comes late, and the outcome of a
multi-step job when one step fails. The modules here model those handlers; TLC
checks small instances of them, and TLAPS proves the central facts for every
value of the constants.

## 1. Inventory

Paths are below `src/src/` unless they start with `docs/`.

| Component | State it keeps | Operations | Interacts with | What is hard | What makes it correct | Module |
|---|---|---|---|---|---|---|
| Sync execution `app/handlers/sync.rs` 603-971 | `SyncState.execution`: phase, next indices, active counts, results | start copy / sync, confirm, cancel, task finished, dispatch | tasks in flight, run plan, configuration | untagged completions, concurrent workers, failures, reconfiguration in mid-run, a second run over the first | order of deletes and transfers, no stall, nothing twice, limits, Done means done | `SyncExecution`, `SyncRun` |
| Sync planning pipeline, same file 36-601 | configuration, two snapshots, plan, run plan, open confirmation | configuration changes, build plan, source / destination enumerated, plan built | sync plan, execution | untagged stages, Reset or a change between stages, a plan that arrives under an open confirmation | the plan that runs is the one that was reviewed | `SyncPlanning` |
| Sync plan `app/sync_ops.rs`, `app/transfer_ops.rs` 194-489 | none (listings, filters, comparison, tasks) | list, filter, compare, plan, carry out one task | both places, other programs | dates and etags that do not survive a copy, keys around prefixes, glob patterns, stale plans | a run converges, the next one finds nothing to do, only extras are deleted | `SyncPlanner`, `Globs` |
| Transfers `app/handlers/transfer.rs`, `app/transfer_ops.rs` 69-192 | `TransferState`: items, index, policy, conflict | open, prepare, start, step finished, resolve conflict, close | S3 clients, file system | move = copy then delete, conflicts in the middle, a stale result, cancel | no source is deleted before its copy exists, every item ends in one count | `Transfer` |
| Deletes `app/handlers/delete.rs` | bulk, prefix and bucket delete states | open, list, start, step finished, cancel | browsing, S3 client | index moved before the result, a stale list, a retry after an error | every key is tried, no key outside the reviewed set | `Deletes`, `BucketDelete` |
| S3 client `s3/client.rs` | none | upload in parts, download, relay, copy, list pages | server, files | failure in the middle of a multipart upload, files and objects that change meanwhile, page tokens | what is written was read, no parts are left, listings are whole | `S3Client` |
| Browsing and details `app/handlers/browse.rs`, `detail.rs` | bucket, prefix, listing, selection, tags, versions, documents and their editors | select, refresh, find, load, edit, save, create | S3 client | untagged answers against a moving selection, edits that put whole sets | what is shown and edited belongs to what is selected | `Panel`, `ObjectPanel`, `BucketPanel`, `Details` |
| Connections and settings `config.rs`, `keychain.rs`, `app/handlers/connection.rs` | settings file, OS keychain, client, active connection | add, edit, remove, connect, load at start | every S3 client | three stores changed one after the other, the program ending in between, a file cut short | a saved connection has its server and its keys | `Connections` |
| Cluster administration `app/handlers/admin.rs`, `abixio/*` | status, disks, healing, nodes | probe, refresh, inspect, heal | server | answers for another connection | what is shown is of the server connected to | `Connections`, `ObjectPanel` |
| Server launcher `app/handlers/server.rs`, `server.rs` | child process, log, running flag, pending auto-connect | start, stop, log line, exit, auto-connect timer | connections | events and timers of an earlier child reach the next one, readers that stop while the process runs, a full channel | the exit is noticed, a process that is read is kept, the connection is to it | `ServerLauncher` |
| Views, self tests, benchmarks, counters, lifecycle XML | - | rendering, measurement, conversion | all | - | a button is there only when its message is handled | - |

Facts about the user interface that the guards of the user's actions rest on
are taken from `views/`: dialogs are layered without being opaque, so what lies
below stays clickable; *Build plan* is hidden only while `running`; *Run* is
hidden only while `execution.running`; *Reset* sends `OpenSync` at any time; the
button that connects is hidden for the active connection.

## 2. Modules

| Module | Extends | Stands for |
|---|---|---|
| `SyncRun` | | what a run of Copy or Sync promises, without phases, workers, counters or dispatches |
| `SyncExecution` | instance of `SyncRun` | a confirmed run: phases, workers, completions |
| `SyncPlanning` | | from a configuration to a confirmed run: the stages and their messages |
| `Globs` | | `wildcard_match` |
| `SyncPlanner` | `Globs` | what a plan says and what its tasks do to both places, run after run |
| `Transfer` | | copy, move, rename, import and export, item by item |
| `Deletes` | | the bulk delete and the prefix delete dialogs, over one browser |
| `BucketDelete` | | the dialog that deletes a bucket with its objects |
| `S3Client` | | the calls that take several requests, or move contents |
| `Panel` | | the selection, the requests under way, their untagged answers |
| `ObjectPanel`, `BucketPanel` | `Panel` | the panel of an object, the panel of a bucket with its editors |
| `Details` | both panels | the object list, composed with both |
| `Connections` | | settings, keychain, the client and what is asked of its server |
| `ServerLauncher` | `Connections` | the launched process, its log, the automatic connection, the program's end and start |
| `MC...` | the module of that name | contents, plans and configurations of the instances TLC checks |
| `...Proofs` | the module of that name | theorems; `SyncExecutionProofs` has the refinement, too, and the theorems of `SyncPlanner` and `Globs`: what a run is, what it leaves, and what its patterns mean |

Three conventions hold everywhere. A task is a record in a set (`inflight`,
`jobs`, `pending`, `batches`, `lists`, `steps`, `previews`, `requests`); the message it
reports with is the action that removes it. Where the message of the code
carries no identity, the handler's action never looks at the number of the task:
it is there so that equal tasks stay two, and for the properties. History
variables (marked so where they are declared) are written and never read by
what stands for code; most of them say that two jobs have been mixed. The
properties come in two kinds accordingly: what holds in any case, and what
holds as long as nothing was mixed. The second condition is not a way out of a
violation: the runs that expect one show that it is needed.

### SyncPlanning

State: `cfg` (the fields a plan or a guard depends on), `running`,
`source_snapshot`, `scanned` (two numbers of the telemetry), `plan`,
`run_plan`, `delete_confirm`, `execution`; `inflight` holds the stages under
way. An object is a path and a version; a filter is the set of objects it lets
through, so one that looks at size or age can hide an object on one side only,
as in the code. `None` and an empty snapshot are one value, because every
reader takes `unwrap_or_default`.

| Action | Code |
|---|---|
| `OpenSync`, `ChangeConfig` | `handle_open_sync` (also the Reset button), the handlers that end in `clear_sync_plan` |
| `StartSyncPlan` | `handle_start_sync_plan` with `validate_sync_config` and `enumerate_task` |
| `SyncSourceEnumerated`, `SyncDestinationEnumerated`, `EnumerationFailed` | the two handlers of the listings, with each error path |
| `SyncPlanBuilt` | `handle_sync_plan_built` with `prepare_sync_run_plan` |
| `StartSyncCopy`, `StartSync`, `CancelSyncDeleteConfirm`, `ConfirmSyncDeleteRun` | the handlers of these names, the guardrails and the reasons for a typed confirmation |
| `RunEnds` | the end of a run, at any time: how a run goes is `SyncExecution` |

`SyncPlanning` and `SyncExecution` meet in `run_plan`: what the first hands over
(transfers, deletes, endpoints) the second sees as two numbers, and what the
second does in many steps the first sees as one flag. `Diff` has no run plan,
an edit drops the execution: both modules have these facts in their actions.

### SyncExecution

State: `cfg` (the fields a run reads), `planning`, `run_plan`,
`delete_confirm`, `execution` as in `SyncState`; `pipelines` counts planning
jobs whose result is due; `inflight` is the set of spawned tasks.

Every handler that starts or advances a run ends in `dispatch_sync_execution`;
every action that stands for one contains `Dispatch`, which composes the loop
over phases (`Settle`), the spawning (`Slots`, `NewTransfers`, `NewDeletes`) and
the final bookkeeping (`AfterSpawn`). The loop leaves each phase at most once
and in one order, so it is a composition of three functions, not a recursion.
A plan is a number of transfers and a number of delete batches; a task succeeds
or fails.

| Action | Code |
|---|---|
| `OpenSync`, `ChangeConfig`, `ChangeTransferWorkers` | as above; a change of the worker field keeps the run |
| `StartSyncPlan`, `SyncPlanBuilt` | one job from start to plan, its stages being in `SyncPlanning` |
| `StartSyncCopy`, `StartSync`, `CancelSyncDeleteConfirm`, `ConfirmSyncDeleteRun` | the handlers of the same names |
| `TaskFinished` | `handle_sync_copy_step_finished`, `handle_sync_delete_batch_finished` |

### Transfer

State: `client` and `active` (the connection of the moment), `transfer` (the
modal), `pending` (preparations), `jobs` (steps of an item), `loads` (bucket
lists), and the world: `store`, which location of which server or of the folder
holds what. A step of an item is itself several calls, and so several actions:
`LookAtDestination` (does the destination exist?), `Copy`, `DeleteSource` for a
move, and `TransferStepFinished` when the result is handled. Each call can fail,
and a failing copy can have taken effect, or have left part of a file.

| Action | Code |
|---|---|
| `OpenModal`, `CloseTransferModal`, `EditModal` | `transfer.rs` 13-233 |
| `StartTransfer`, `Prepared` | `handle_start_transfer`, `handle_transfer_prepared`, `prepare_import_items`, `prepare_export_items` |
| `RunStep` | `run_transfer_step` in `transfer_ops.rs` |
| `StepFinished`, `ProcessNext` | `handle_transfer_step_finished`, `cmd_process_next_transfer_step` |
| `Answer` | the four answers to a conflict, `resolve_transfer_conflict` |
| `ConnectTo` | `handle_connect_to`: the modal stays, the client changes |

### Deletes and BucketDelete

`Deletes` has both dialogs over one list of objects, since they share the client
and each can be opened over the other: `modals[k]` for `k` in `"bulk"` and
`"prefix"`, `lists` (the listing of a prefix), `batches` (requests), `store`.
`BucketDelete` has `bucket_delete`, `previews`, `steps`, `buckets`, `store`. In
both, a request passes two actions, one of the server, which may refuse it,
perform it in part, or perform it and lose the answer, and one of the handler.

| Action | Code in `delete.rs` |
|---|---|
| `OpenBulkDeleteModal`, `OpenPrefixDeleteModal`, `CloseDeleteModal`, `ConfirmDelete` | 11-41, 67-97, 118-121: the open, close and start handlers; 331-398, the next batch |
| `PrefixDeleteListLoaded`, `BatchFinished` with `ProcessNext` | the handlers of results and `cmd_process_next_...` |
| `OpenDeleteBucketModal`, `ConfirmNameChanged`, `ConfirmDeleteBucket`, `CloseDeleteBucketModal` | 147-232 |
| `BucketDeletePreviewLoaded`, `StepFinished` with `NextStep` | 187-218, 234-329 |
| `ServerLists`, `ServerDeletes`, `ServerActs` | `s3/client.rs`: `list_objects`, `delete_objects`, `delete_object`, `delete_bucket` |
| `Arrive` | an object another client writes (no code here) |

### SyncRun

A run has transfers and delete batches; each waits, goes on, ends. `Begin`,
`End`, `EndOlder`, `Continue`, `Drop` say what may happen to them; `Orderly` says
which tasks may start after which results, `Standing` when a run is over, how,
and what it reports. There are no phases, no indices, no counters and no workers:
`SyncExecution` implements it under the mapping of its last section, where the
tasks not started are those at and above the two indices, and `older` is every
task that is not the run's own. A run that began while older tasks went on has
fewer promises (`met`): each of its tasks starts once and something will report.

### SyncPlanner and Globs

A plan is built of two listings, one after the other, and carried out task by
task, with a clock and other programs that write in between; then again.

| Definition | Code |
|---|---|
| `Enumerate`, `KeysUnder`, `KeysOf`, `RelativePath`, `At`, `JoinKey` | the two listings, and the keys a path becomes |
| `ApplySyncFilters`, `PathPasses`, `ParseSizeFilter`, `ParseAgeFilter`, `WildcardMatch` | the filters, with what does not parse taken as no filter |
| `CompareSyncObjects`, `CompareCopyObjects`, `MissingOnSourceAction`, `BuildSyncPlan` | the comparison and the plan |
| `TransfersIn`, `DeletesIn` | `prepare_sync_run_plan` |
| `Transfer`, `CopyOf` | one task: strategies that keep dates and etags, and those that do not |
| `Delete` | a batch of keys, or a local file |

`SegmentMatches` is the loop of `wildcard_match_segment` with its four indices, a record
of `Scans`, and what a wildcard takes (`Takes`). The reference, `GlobMeans`, is what the
pattern means: in `Means` a star may take anything, and the places in the text from
which the rest of the pattern matches are computed backwards from its end, without
indices or a choice of star.

The properties have conditions, each for something the code does not do: prefixes end
with a slash (`Proper`), the places do not overlap (`Apart`), no key goes on with a
slash after the prefix (`Straight`: its path is without that slash, so a copy of the
path looks for another key), and filters by age are left out where a listing a moment
later differs (`Timeless`, `Undated`).

### S3Client

State: `store`, `files`, `uploads` (the parts on the server, put together), `calls`
(where each call is, with its buffer, position, page token). One action per request or file
operation: `PutObject`, `CreateMultipartUpload`, `UploadPart`,
`CompleteMultipartUpload`, `AbortMultipartUpload`, `GetObject`, `CopyBody`,
`SendBody`, `CopyObject`, `ListPage`. A request is answered, fails, or takes
effect and its answer is lost. `OtherClient` and `OtherProgram` change objects
and files between any two steps.

### Panel, ObjectPanel, BucketPanel and Details

`requests` is a sequence of requests, each served and answered in any order;
`Delivered` says which answers a handler accepts: those of the details, tags,
versions and documents carry no name. A behaviour follows some parts of the
panel (`follow`), chosen at its start: the parts meet only in the selection and
in the detail of the object, so what can happen to one happens in a behaviour
that follows it and that; the combinations are in `MCFollows`. The two panels
have the handlers of `detail.rs` and the healing of `admin.rs`; `Details` has
those of `browse.rs`, whose selections reset part of both panels and start
requests for both. Versions of a key that deletion has marked are left out.

### Connections and ServerLauncher

`Connections` has the settings in memory, `settings.json`, two keychain entries
for each name, the client, and the requests a connection makes. `AddConnection`
and `RemoveConnection` take the step that fails as a parameter; after a failure
the program goes on or ends (`GoesOn`), and `Launch` reads what is left. A file
cut short is `Torn`, and is loaded as the defaults. `ConnectTo` and the automatic
connection are one operator, `Connected`, as they are the same lines twice.
`ServerLauncher!TypeOK` has the types of the state of both modules; the theorem
`TypeCorrect` is about it.

`ServerLauncher` has the processes started so far, each with its lines, the
channel of its messages and the task between them: `ProcessWrites`,
`ProcessEnds`, `ReadersEnd`, `Forward`, `StreamsEnd`, `LogLine`, `ServerExited`; the user's
`StartServer`, `StopServer`, `ServerSaveConfig`; `AutoConnect` after a while.
Dropping the handle of a child kills it (`Dropped`). `ReadersEnd` may happen at any
time: a reader stops at the end of its stream, but also at a line it cannot read
(`while let Ok(Some(line))`, `server.rs:118` and `131`), as one that is not UTF-8, and when
both have, an exit is announced of a process that may well run. A full channel
ends the task, and the readers with it, in the same way (`Forward`). Two fields of a
process are history: whether a connection to it was to follow (`timed`), and what
of the servers before it was still to come when it was started, an exit or a timer
(`awaited`).

## 3. Runs

| Run | Instance | Question |
|---|---|---|
| `SyncPlanning_review` | two buckets, two folders and no place, five objects, ten configurations, two pipelines; a typed confirmation above two deletes; fairness | does planning end, and is what is confirmed and run what the screen shows? |
| `SyncPlanning_extras` | one configuration, one pipeline | violated, see below |
| `SyncExecution_runs` | plans of 2+1 and 1+2 tasks and a refused one; 1 transfer worker or an invalid text (the default of 4); 1 delete worker; two runs | does a run keep what `SyncRun` promises, with exact counters, within its workers, and without waiting for nobody? |
| `SyncExecution_ends` | one plan of 1+1, two runs, fairness of completions | does every run end? |
| `SyncPlanner_mirror` | two objects of two contents, all compare modes, modes, policies and filters one or two at a time, four pairs of places, a write by another program, two runs | does a run do what the plan meant, is there nothing to do after it, are only extras deleted, is what is newer kept? |
| `Transfer_modal` | two servers, two names and the folder, one saved connection, three acts of the user, fairness | is nothing lost, is each item counted once, does a transfer end? |
| `Deletes_dialogs` | two servers, two keys, two prefixes that overlap, batches of one, two openings, fairness | who confirmed what is deleted, is each key asked for once, does a deletion end? |
| `Deletes_unconfirmed` | one server, two keys | violated, see below |
| `BucketDelete_dialogs` | two servers, two buckets, two keys, two openings, one foreign object, fairness | objects first, nothing unconfirmed, does a deletion end? |
| `S3Client_calls` | two calls out of an upload, a download, a relay, a copy and two listings; parts of two units, pages of one key, one change by others, fairness | is what is written what was read, are no parts left, are listings whole, do calls end? |
| `Details_panel` | two buckets with the same two keys, one the beginning of the other; the combinations of parts in `MCFollows`, three to five acts | is what is shown and edited of what is selected, and is it true once everything is answered? |
| `ServerLauncher_desk` | two connections, four servers, the combinations of parts in `MCParts`, two or three acts, a channel of one message, two starts, two lines in all, fairness | are saved connections kept, is what is shown of the server, what makes the application let go of the launched one or connect elsewhere, and is an exit noticed? |

What they show, property by property, in the order of the table. (The comment
above each definition names the code it is about.)

- **Planning.** While the flag is set a stage is under way, and it ends
  (`PlanningUnderWay`, `PlanningEnds`); the plan on the screen is of the
  configuration on the screen (`ReviewedIsCurrent`), the confirmation of that
  plan (`ConfirmedIsPlanned`), what runs is within the guardrails
  (`RunWithinGuardrails`), and a large number of deletes has been typed
  (`BigDeletesTyped`). Where overlapping pipelines break one of these, the
  condition is in the property.
- **Execution.** `KeepsPromises` is the refinement of `SyncRun` (section 4). It says
  in particular that tasks start once and in order, that a run is done exactly when
  nothing is left to do, that its numbers are those of its results, and that a
  run that goes on has a task that will report. `NoStall`, `CountersExact` and `WorkerLimit` are about the
  engine itself, `RunEnds` is its liveness: the instance is small, but the third
  promise of `SyncRun` with the fairness of tasks argues it for larger plans.
- **A plan carried out.** `Converges`: after a run nobody interfered with,
  the destination is what the configuration asks for; `SettlesDown`: the next
  plan has nothing to do, under the modes that can know; `PatternsAsMeant`:
  filters let through what their patterns mean, for the patterns without `**`
  (with it, see below); `NewerKept` and `DeletesAreExtras` are about each task, also
  when others have written since the plan was made.
- **Transfers.** `NothingLost`: each content is somewhere, in any order of
  failures, conflicts and answers; `EachItemOnce`; `TransferEnds`.
- **Deletes.** `EachKeyOnce`, `UnmixedOnlyConfirmed`, `ObjectsFirst`,
  `DeletionEnds`.
- **S3 client.** `MadeOfTheSource`: what a call that succeeds has written is one
  version of its source, or, for a file that changed during its upload, what the
  reads found; `PartsCleared`, `FullListing`, `CallsEnd`.
- **Panel.** `NeverStuck`: no part waits for an answer that nobody will give;
  `ShownIsSelected`, `SettledIsTrue`: at rest, what is shown is what the server
  has of the selection; `TagsAsWished`, `VersionsAsChosen`: the sets that are
  sent whole differ from the old ones in what the user did.
- **Desk.** `SavedIsKept`: a connection whose own last save did not fail keeps its
  server and keys, whatever steps of other saves and removals fail and wherever
  the program ends, unless the file is cut short;
  `ShownIsOfServer`: on the screen is the server connected to, unless requests were
  out when it was changed. `OwnEvents` bounds what events that carry no process can do
  to the launched one: it is let go of only if nobody reads its streams any more or an
  exit of an earlier one was still to come when it was started, and once its timer
  has come, a connection to the launched server is to it, unless a timer of an earlier one
  was running when it was started. Neither exception excuses the other conjunct, and both are
  needed: without them the run finds it violated, as `ExitIsOfChild` and
  `AutoConnectIsOfChild` are (see below). `ExitNoticed`: an exit comes to be
  noticed, unless the channel had no room for it.

**Bounds.** Two runs, modals, pipelines, processes or openings are the fewest of which one can be
late for the other; the handlers carry nothing of a third that a second does not
have. Two tasks of a kind with one worker are the fewest where a task waits and
where two finish out of order. Batches of one make two keys two batches. In
`SyncPlanning` the destination of one configuration has four objects,
one of them an extra, which is exactly a quarter and asks for no typing; others
have two extras of four, and one of two. A planner limit of 5 is met on one side
of the limit and passed on the other. In `SyncPlanner` the two contents of an
object have sizes on both sides of the large-object size and the spool size,
and a clock of three ticks separates a write from the listing before and after
it. In `S3Client` a content of five units has a full part, another and a short
one, one of three has two, and two is the threshold; two contents have five units,
so that an upload whose file is rewritten between two parts also completes. In `Details` an act is one
button; five acts select, edit, leave, come back and edit, which is the longest
history a late answer of a part can meet. The limits the code has are constants:
`BATCH` (1000 keys in one request), `TypedAbove` (1000 deletes), `PART`,
`THRESHOLD`, `MAX_PARTS` and `PAGE` of the client, `MAX_TAGS`, and `CAP` (the
channel of a launched process). All other bounds are of the instances.

**Deadlock** is checked for the sync modules. `CHECK_DEADLOCK FALSE` is set for
the others, where the user may have used up the acts a bound allows and nothing
is left to do; what must not stop there is a property (`NeverStuck`, and the
liveness properties).

**Fairness** is weak fairness of the actions that are not the user's: requests
return, with a result or an error (the S3 client gives every operation a limit of
60 seconds and every connection one of 10, `s3/client.rs:56-66`), file operations return, and iced
delivers the message. In `S3Client` each call's next step is fair, whatever it
returns; in `ServerLauncher` the task that reads the log, which comes to the end of the
streams of a process that has ended, and for each process
the loop that takes its messages. Nothing is assumed of the user, nor of a
process (it may run for ever), nor that a stream fails; where a transfer waits for an
answer to a conflict, the property does too. In `SyncExecution_ends` only
completions are fair.

**Disagreements** the two violated runs exhibit:

- `DeletesOnlyExtras`: a field edited while the destination is being listed
  clears the source snapshot, and the comparison takes an empty source: the plan
  that arrives deletes everything in the destination. `BigDeletesTyped` (which
  holds, and is proved) says what stands in between: the number has to be typed.
- `OnlyConfirmed`: a batch of an earlier dialog, coming back to a newly opened
  one, starts its deletion before anybody has confirmed it.

Others have their definition in a module, with the line that says otherwise in its
comment, but no run of their own; naming one in the `.cfg` of a run of its module
exhibits it. The property the run does check has the condition under which it holds.

| Definition | What happens |
|---|---|
| `SyncExecution!DeleteAfterOrder` | a late completion of a replaced run is counted for the new one, which then deletes before its transfers have ended |
| `Transfer!CopiedMeansThere` | a copy to another saved connection is made by the source's client, so on the source's server; the step reports Copied |
| `S3Client!AbortsOnFailure` | a completion that fails leaves the parts of the upload on the server |
| `SyncPlanner!ExactReviewsNewer` | under the comparison a new sync starts with, the Exact preset copies over a newer destination without a review |
| `SyncPlanner!GlobsAsMeant` | `b/**` lets `bx` through, and `**/x` misses `x/x` |
| `ServerLauncher!ExitIsOfChild` | the exit of a stopped process, read after the next one was started, drops the handle of the next one, which kills it; a process whose output cannot be read (a line that is not UTF-8, on both streams) is taken for exited while it runs, and killed |
| `ServerLauncher!AutoConnectIsOfChild` | the timer of a server stopped within its 1.5 seconds, while the next one runs, connects to the address of the stopped one |

One disagreement is between two comments. That of `wildcard_match`
(`transfer_ops.rs:360-362`) says that `*` and `?` never take a slash; the one inside it
(375-376) and the test at 571-576 say that without `**` a star does, as the code has it for both.
The model and `GlobMeans` follow the code and its test, so `PatternsAsMeant` holds; read by the
first comment it would not.

Known behaviours that no run shows, kept here for who changes the code:

- *Sync.* `execution.running` is cleared, and the summary written, while other
  workers are busy; a delete-before run whose transfers fail reports its deletes as skipped
  although they were made; a plan that arrives after Reset, from a pipeline that
  overlapped, replaces the one under an open confirmation; a local to local sync is accepted by
  validation and refused when its plan arrives.
- *Plans.* The default comparison copies every upload again in each run, since
  the date of an upload is its own; filters restrict both listings, so an object
  the source filter hides is an extra in the destination; a filter that does not
  parse is no filter; places that overlap pass `same_sync_endpoint`; a prefix
  without a slash takes in keys beside it; the key of a folder marker has an
  empty path, whose download fails each time; a key with a slash right after the prefix is
  listed under a path without it, for which the transfer finds no object and the delete
  no key; an *older than* date hides the copies a run has just made from the next
  listing, so that every run makes them again; `prune_empty_sync_dirs` climbs past the
  root of the sync.
- *Transfers.* An error of the existence check is taken for absence, and the
  object is overwritten without the question; a move that met a conflict, answered
  with Overwrite, runs as a copy.
- *Deletes.* Text typed into the bucket dialog while it deletes stops it with the flag set.
- *Desk.* Editing the endpoint of the active connection does not connect again;
  the nodes of a cluster stay on the screen after a change of connection; blank
  keys in the editor keep the old ones, where `config.rs:121-122` and the hint
  of the form read as if they removed them; the automatic connection is always
  anonymous; a process started by a program that crashed runs on.
- *Panel.* The preview is cut at byte 500, which need not be the edge of a character.

## 4. Proofs

The proofs are for every set of servers, plans, configurations, worker texts and
objects, and every bound; the only assumptions are the ones named in the modules
(finiteness of the objects, worker counts and bounds that are numbers, a positive size
of a batch, one version of a path in a place, first settings that parse, a torn file
that does not, a name of the launched server's connection that no saved one can have,
and of `SyncPlanner`: two ends of different kinds are not one place, S3
dates are whole seconds and none is in the future, patterns are sequences of characters,
and the set of keys has those of all copies), which TLC evaluates on the instances.

`SyncExecutionProofs`: `TypeCorrect`, `NeverStalls`, `CountersAreExact`,
`WorkersAreLimited`.
`NoStall` is not inductive: an execution in an active phase could have no task
because its counters claim none. `IInv` is `TypeOK` and three facts about the
execution and the tasks in flight. `Progress`: indices stay within the plan, the
tasks of this run lie below them, no counter claims more tasks than are in
flight. `Busy`: an active execution counts at least one task as active. `Exact`,
while runs are not mixed: the counters are the numbers of tasks in flight. `Busy`
survives a dispatch because a dispatch that leaves the phase active finds a free
worker and an item (`SlotsBound`, `WorkersPositive`), and a completion of an older
run because counters saturate at zero and the dispatch that follows refills
them. `WorkerLimit` is an action property: a dispatch spawns into free slots
(`NextLimited`), and by `Exact` what the counters leave free is free.

`SyncPlanningProofs`: `TypeCorrect`, `PlanningNeverHangs`, `PlanIsCurrent`,
`ConfirmationIsOfPlan`, `GuardrailsHold`, `BigDeletesAreTyped`. `IInv` adds to
these properties four facts. `Alone`: without overlap there is at most one stage,
and beside it nothing planned, shown or run; that is why no plan can arrive under
a confirmation, and why guardrails need not be checked twice. `InStep`: the
stage of an undisturbed pipeline lists what is configured now. `Counted`: the
number a share is taken of belongs to the plan, or the source counts as empty,
as it does after Reset, so that one of the two reasons to type applies.
`ConfirmSound`: what an open confirmation says holds of the plan there is.

`SyncExecutionProofs` also has `RunIsKept`, that `SyncExecution` implements `SyncRun`. A promise
speaks of tasks and their results, the engine of a phase, two indices and five
counters; the invariant `RInv` says what these stand for. `Recorded`: a task below
an index is in flight or has ended, with one result, never both. `Counted`,
while runs are not mixed: the transfer counters and `transfer_failed` are those
of the results. `PhaseRight`: what a phase is reached after (delete-after comes to
its deletes when the transfers are done, and so on); `StoppedRight`: a run is in
`Stopped` exactly when its policy and its results halt it. `OnlyCopies`: a copy
never has a delete, even when mixed. `PlanInv`: a plan under confirmation is that
of a sync, so that a run started from it begins in the right phase. From these,
one lemma for each part of a step: `OrderlyFresh` (what a dispatch spawns may
start), `StandingHolds` (the phase that is left is the status the promise computes
from the tasks alone), `DispatchMoves` (so a dispatch is a `Move`); and one for
each kind of step (`StartBegins`, `ReportEnds`, `DropDrops`).

The same module has the theorems of `SyncPlanner`: `RunsConverge`, `RunsSettle`,
`NewerStays`, `OnlyExtrasDeleted`, for all keys, contents, patterns, filters, stores and
clocks, any number of plans and of writes by others. `Converges` speaks of a run that is
over; its invariant `PlannerHolds` says at each moment of a run what is still true of both
places. `SourceKept`: while nobody else writes, a listing of the source gives what
the snapshot has, whatever has been copied since, as places apart have no location in common.
`TasksStand`: a task not yet tried is still what a plan of the two places as they are
now would have, so it is neither late nor too early; this is what makes `NewerKept` and
`DeletesAreExtras` properties of a step. `RunProgress`: unless a transfer failed, each
path of the source that is no longer a task has been met at the destination, by what was
there or by its copy, and each path of the destination without one at the source is still
to be deleted. `Settled`: after the run this holds of all paths, and stays so while
only time passes. Below these lie the conversions: `RelativePath` takes back what
`JoinKey` makes (`JoinedIsNamed`), so a location has one path in a place
and a step that writes one path leaves the listing of all others as it was (`WriteFrame`);
and each of the five modes of comparison promises what `Converges` says of it and knows
its own copies where `RecognisesCopies` says so. `Straight` and `Undated` are conditions
the proofs found: without them the two properties hold of every instance whose keys have
no double slash and whose filters have no date, and are false of others.

`PatternsAreAsMeant`, the last theorem of the module, is about every pattern without `**`
and every key. It rests on `SegmentMatchesMeans`: the loop, which goes back
to its last star only and gives it one character more, finds what a pattern means, whose
stars may all take anything, whether or not they take slashes. `Remains` is what the loop
has still to find out at its indices: that the rest matches from here, or from further on
when the last star takes more. An iteration leaves it as it is (`LoopFinds`), for the two indices of the star are where
the loop left it, and since then each character stands for one of the text (`Within`).
That earlier stars need not be tried again is `NoOtherStar`: when the last star takes
more, and with it a match, then so does the star that comes next, which stands after a
piece without stars that must be passed either way. Without slashes it needs that the first
slash beyond what the last star takes stands for a slash of the pattern, which has stood
for an earlier one before. The loop and the meaning are recursive functions, and their lemmas inductions.
No theorem with an operator as a parameter is needed for either: `RankInduction` is about a set
of elements with ranks, by the least rank of one that is not in it (`LeastOf`), and
`RecursionByRank` says that there is a function equal to what a given functional makes of it when
that looks only at arguments of lower rank. The rank of an iteration (`ToGo`) is first how far the last star
and what it takes are from the ends of pattern and text, and second how much of the text
is left. A pattern without wildcards is
between two stars in what it means, and there matches where it occurs
(`BetweenStars`). Stated of all patterns, the theorem needed one assumption more,
that the filters' patterns are sequences of characters (`SetupsAssumption`).

`TransferProofs`: `TypeCorrect`, `ItemsEndOnce`, `NothingIsLost`. That nothing is
lost depends on what a step found some steps ago, so `IInv` adds: `ProperItems`
and `ProperJobs`, that no item goes onto itself and that a step goes where its item
says (`TransferCanStart` checks the first once, and `Places` draws from both that
a copy goes where it looked); `Alone` and `InTurn`, that without mixing there is one
task, that of the open modal, for the item at the index; and `Safe`: a step about to
copy has found its place empty or may overwrite it, and a move about to delete still
has its copy. `Ended` is `EachItemOnce` of any modal and set of results, so that
`CountEnds` can be stated of a handler's intermediate modal.

`DeletesProofs`: `TypeCorrect`, `KeysAreSentOnce`, `OnlyConfirmedIsDeleted`. `Own`
says of a dialog of either kind, while its history is unmixed: one batch at most
and only while it deletes (`Busy`), every batch confirmed, the client still that of
the list, and `Sound`: the keys sent are those up to the index, and what is counted
plus what the batch under way has done is gone (`Honest`). Without the last part the
count of a batch could not be added when its answer comes.

`BucketDeleteProofs`: `TypeCorrect`, `OnlyConfirmedIsDeleted`, `ObjectsGoFirst`. `Own`
has three parts: a preview under way is for the dialog that waits (`OwnPreview`); the one
request is for the key at the index, or for the bucket once all are counted, was
confirmed, and answered with success only if its key is gone (`OwnStep`); and what is
counted is gone or has arrived since (`OwnCount`).

`ServerLauncherProofs`: `TypeCorrect`, `SavedStaysKept`, `ShownIsRight`,
`EventsAreOwn`, each of both modules together. `Kept` is `SavedIsKept` without the
condition that the program runs: what is saved is kept for the next launch too, which
reads it (`Load`). `Own` says that requests out are for the server connected to,
and that what is missing on the screen has been asked for (`Asked`), from which what
is there when no request is out follows. `Placed`: the child is what runs, and no
process but the one started last. `Sent`: an exit that is announced (`Announced`) is
of a process that nobody reads, and a process started when no exit was awaited has
none before it that can still announce one; so an exit that lets go of the child is its own
or was awaited. `Timed`: every timer is of its process, and a child started when no
timer was awaited finds none but its own, after which what is connected to as the
launched server is the child (`ClientIsOf`); a saved connection, having another name, only ends that.
`Goes` is what any step may do to a process started before, so that `Sent` needs one
argument for all steps (`StepGoes`, `StepSent`).

`S3ClientProofs`: `NoPartsStay`, `CopiesAreOfTheSource`, `ListingsAreFull`, for all
contents, sizes of parts and pages, and any number of calls and changes by others.
Parts the server keeps are of a call that has not ended and still has to take a step
that clears them (`Keeping`), or that has failed in `create`, `complete` or `abort`:
`Cleared`, which `PartsCleared` follows from. A step is what becomes of its call
(`Becomes`) and of the parts (`Clears`), so that each operation is a case of
`CallStep`. `CopyInv` says what a call holds (`Held`): a body it has received is a
content its source had during the call; the parts it has sent are made, unit by unit, of
such contents (`MadeOf`), end at its position in the file, and with what it still
expects to read are as long as the source was at the stat; so a completed upload, with
nothing left to read, is that long. A change by another is seen by all the calls
that read what it changes (`Grows`), which keeps the source among the contents
seen, and what is held stays held (`HeldGrows`). `PartIsMade` is the chunk: read
from the position, it goes on with what the file holds there now, less when the file has
become shorter. The action property follows since a step ends one call, and the others
stay where they are (`OthersStay`). `ListInv` says of a listing that goes on that it is
in order and that up to its token no steady entry is missing. It needs that a page is
an initial piece of what comes after the token (`FirstOfSet`): a number has finitely many
below it, so ranks are an injection into the page's places; and that what the server
sends is all of that set, in order (`InOrderOfSet`): a finite set of numbers is put in order by
rank, and a list of as many in increasing order is onto, by counting and without induction.

`DetailsProofs`: `DetailsNeverStuck`, `DetailsShownIsSelected`, `DetailsTagsAsWished`,
`DetailsVersionsAsChosen`, for all buckets, keys, tags and texts, all choices of parts
and any number of acts. The requests are a sequence whose order means nothing:
`Added` and `Replaced` say what `Start` and `Handled` do to the set of them
(`StartAdds`, `HandledReplaces`), and everything after speaks of these. Every
handler touches the requests of its own panel only (`SameOf`), so each panel has an
invariant of its own, which the steps of the others leave alone (`ObjectFrame`,
`BucketFrame`, `ListFrame`). `DetailsInv` has five parts. `RequestsInv`: requests are
well formed, of parts that are followed and of subjects of their kind. `SelectionInv`: the
selection is of the selected bucket, and nothing but a bucket is asked for before
one is (`Grounded`). `ObjectInv` adds to the properties of an object's panel that
unnamed answers under way are of the selected object as long as nothing was
selected over them (`ObjectShown`), which is what makes the next answer right; that
rows are of the bucket their listing is of (`VersionsInv`), so that a row
of the selected key is one of the selected object; and `TagsInv`. There one
request about tags is under way at most, and the panel is loading while it is
(`Lone`): that is what keeps a second edit from being made on the first one's
set. `wished` is then the tags on the server, with the change of that
request while it is not served; and the set on the screen is that on the server, also while a save
is under way that has not been put (`Unapplied`): if it is refused, the panel
shows the old set again. `BucketInv` says of every kind of document what is
loaded, awaited and edited, `ListInv` that the list waits for nothing nobody asked for.

`DetailsSettledIsTrue` is about the same module at rest: `SettledIsTrue` holds when nothing
is under way, for a user who waited before each act, so that its invariant must say
what is true while something is. `SettledInv` says it of such a user (`Calm`).
`Sole`: a command is under way alone; the loads that follow a selection may be many, in any
order. `PartTrue`, of each part of a bucket's panel: an answer under way is what the
server has (`AnswersTrue`), and what is shown is too, unless it will be shown anew
(`ShownTrue`), by a load under way or by the load that follows a command that has taken
effect (`Awaited`). `DeletesTrue` is for documents, whose deletion empties the panel without
a load. `PartMeant`: what the user wants is on the server (`Is`), or will be
with the one command that is still to be carried out (`WillBe`); a refusal takes the
wish back, and a command that took effect and was not answered ends `Calm`. This needs
`PartTrue` of the tags: the whole set is put, so what is added to must be
what the server has. `ListTrue` says the same of the listing, and that what is
picked is of the folder shown; that a search that finds nothing listed picks nothing
rests on the assumption that a behaviour that follows the search follows the list
(`FollowsAssumption`; the program always has both). One lemma says of one part what
each kind of step does to it (`PartAnew`, `PartCommanded`, `PartRead`, `PartDone`,
`PartRefused`, `PartAnswered`, `PartFrame`), and a handler is then classified once, for all
parts (`BucketMessageForm`, `Fills`, `BucketEditAsks`).

Only model-checked: every liveness property, which is out of the prover's reach. Of
patterns with `**` nothing is proved, as the code does not do what they mean
(`GlobsAsMeant`). The
theorems of `SyncPlanner` but `PatternsAreAsMeant` hold whatever `WildcardMatch` returns.

## 5. Not modelled

- Views (their buttons are guards of user actions), self tests, benchmarks,
  counters, build and release files: rendering, measurement, or a script of
  calls without state of its own.
- `s3/lifecycle_xml.rs`: a conversion of a document to XML and back, without
  states. `BucketPanel` has what matters of it to the panel, that saving
  normalises a text or refuses it.
- Contents byte by byte: checksums stand for contents, sizes are units, and the byte
  guardrail, which has the shape of the count's, is left out.
- In `Connections`: regions, the endpoint of the command line, validation of the
  form, errors of the keychain when it is read, the search for the server's
  binary, and two programs that share one settings file.
- In the panels: versions of a key that deletion has marked.
- The composition of `SyncExecution` with `SyncPlanner`: the first knows a task
  as a number and a result, the second carries out tasks in order. What they
  share is that a result is reported once and that deletes wait, which
  `KeepsPromises` shows, and that tasks of one plan are about different paths.

## 6. Plan

What this development would take up next, in this order:

1. `SyncPlanner` with concurrent tasks and failures, as `SyncExecution` spawns
   them, so that `Converges` is stated of a run with partial failure.
2. When a handler is given an identity for its message (the number of a run, of
   a dialog, of a process), the property whose condition it removes: the
   definitions in the table above become invariants of the runs.
