------------------------------ MODULE Transfer ------------------------------
(***************************************************************************)
(* The transfer modal: copy, move or rename one object, import a folder,   *)
(* export a prefix.  src/src/app/handlers/transfer.rs holds the handlers,  *)
(* src/src/app/transfer_ops.rs the asynchronous step of one item.          *)
(*                                                                         *)
(* The modal prepares a list of items and works through it one step at a   *)
(* time; a step that finds its destination occupied stops for an answer.   *)
(* The modal can be replaced, and the connection switched, while a step or *)
(* a preparation is under way: their messages carry no identity.           *)
(*                                                                         *)
(* Data abstraction: a name is a bucket and key, or the path of a file     *)
(* below the chosen folder; an import or export maps a name to itself, as  *)
(* it joins the prefix and the relative path.  A content is named by the   *)
(* location that held it first.                                            *)
(***************************************************************************)
EXTENDS Integers, Sequences, FiniteSets, SequencesExt

CONSTANTS
  Servers,       \* S3 servers
  Names,         \* objects of a server, files of the folder
  Conns,         \* saved connections
  ServerOf,      \* the server a saved connection leads to
  Home,          \* the server the application was started with
  Full,          \* locations that hold something at first
  MaxActs,       \* bound: times a modal is opened or a transfer started
  MaxLoads       \* bound: bucket lists requested

CURRENT == "__current__"   \* CURRENT_CONNECTION_ID
Disk    == "disk"
NoName  == "no name"
Absent  == <<"absent", NoName>>
Partial == <<"partial", NoName>>   \* what a failed write of a file leaves

Locations == (Servers \union {Disk}) \X Names

ASSUME ServersAssumption ==
  /\ Home \in Servers
  /\ Disk \notin Servers
  /\ ServerOf \in [Conns -> Servers]
ASSUME NamesAssumption == NoName \notin Names /\ IsFiniteSet(Names)
ASSUME ConnsAssumption == CURRENT \notin Conns /\ Disk \notin Conns
ASSUME FullAssumption == Full \subseteq Locations
ASSUME BoundsAssumption ==
  /\ MaxActs \in Nat
  /\ MaxLoads \in Nat

VARIABLES
  client,     \* App.client: the server it talks to
  active,     \* App.active_connection, CURRENT for None
  transfer,   \* App.transfer
  pending,    \* preparations whose TransferPrepared has not been handled
  jobs,       \* steps whose TransferStepFinished has not been handled
  loads,      \* bucket lists requested and not handled
  store,      \* what the servers and the folder hold
  counts,     \* history: opens, starts, bucket lists and tasks so far
  mixed,      \* history: two tasks were under way together, or one outlived its modal
  astray,     \* history: an S3 to S3 step had a saved connection as destination, or the
              \* look at an object failed, which is taken for its absence
  outcomes,   \* history: how the items of the current list ended
  consented   \* history: contents the user let be overwritten

app     == <<client, active>>
tasks   == <<pending, jobs, mixed>>
history == <<astray, outcomes, consented>>
vars    == <<app, transfer, tasks, loads, store, counts, history>>

-----------------------------------------------------------------------------
(* Types *)

Modes    == {"CopyObject", "MoveObject", "ImportFolder", "ExportPrefix"}
Policies == {"Ask", "OverwriteAll", "SkipAll"}
Results  == {"Conflict", "Copied", "Skipped", "Failed"}

\* A TransferItem: from the current connection or the folder, to a connection or
\* the folder.
Item == [from: {CURRENT, Disk}, source: Names,
         to: Conns \union {CURRENT, Disk}, target: Names]

NoItem == [from |-> "none", source |-> NoName, to |-> "none", target |-> NoName]

Modal(mode, connection, source, target) ==
  [mode |-> mode, destination_connection |-> connection, destination |-> target,
   source |-> source, loading |-> FALSE, items |-> <<>>, next_index |-> 0,
   completed |-> 0, skipped |-> 0, failed |-> 0, pending_conflict |-> NoItem,
   overwrite_policy |-> "Ask", preparing |-> FALSE, running |-> FALSE,
   summary |-> "None"]

NoTransfer == Modal("None", CURRENT, NoName, NoName)
IsOpen     == transfer.mode # "None"

TransferState ==
  [mode: Modes \union {"None"}, destination_connection: Conns \union {CURRENT},
   destination: Names \union {NoName}, source: Names \union {NoName},
   loading: BOOLEAN, items: Seq(Item), next_index: Nat,
   completed: Nat, skipped: Nat, failed: Nat, pending_conflict: Item \union {NoItem},
   overwrite_policy: Policies, preparing: BOOLEAN, running: BOOLEAN,
   summary: {"None", "Nothing", "PreparationFailed", "Done"}]

\* A preparation: what its task captured when it was started.
Preparation == [nr: Nat, mode: Modes, server: Servers, item: Item \union {NoItem}]

\* A step: what its task captured, how far it is, and (history) the index it is for.
Job == [nr: Nat, item: Item, policy: Policies, is_move: BOOLEAN, src: Servers,
        dst: Servers \union {Disk},
        step: {"head", "copy", "delete"} \union Results, index: Nat]

\* Tasks under way become js and ps.
SetTasks(js, ps) ==
  /\ jobs' = js
  /\ pending' = ps
  /\ mixed' = (mixed \/ Cardinality(js) + Cardinality(ps) > 1)

-----------------------------------------------------------------------------
(* Spawning a step *)

\* make_client_for_connection: the current client, or one for a saved connection,
\* whose keys the keychain may refuse.  The folder needs none.
Clients(connection) ==
  IF connection = CURRENT THEN {[server |-> client, step |-> "head"]}
  ELSE IF connection = Disk THEN {[server |-> Disk, step |-> "head"]}
  ELSE {[server |-> ServerOf[connection], step |-> s] : s \in {"head", "Failed"}}

\* run_transfer_step is spawned; the source is read through App.client of this moment.
SpawnStep(item, policy, is_move, index, js, ps) ==
  /\ \E c \in Clients(item.to) :
       SetTasks(js \union
         {[nr |-> counts.tasks + 1, item |-> item, policy |-> policy,
           is_move |-> is_move, src |-> client, dst |-> c.server,
           step |-> c.step, index |-> index]}, ps)
  /\ astray' = (astray \/ (item.from = CURRENT /\ item.to \in Conns))

\* Mutant: the end of the list does not clear the running flag.
ProcessNextStaysRunning(t, js, ps) ==
  IF t.next_index >= Len(t.items)
    THEN /\ transfer' = [t EXCEPT !.pending_conflict = NoItem, !.summary = "Done"]
         /\ SetTasks(js, ps)
         /\ UNCHANGED <<astray, counts>>
    ELSE /\ transfer' = [t EXCEPT !.running = TRUE, !.pending_conflict = NoItem]
         /\ SpawnStep(t.items[t.next_index + 1], t.overwrite_policy,
                      t.mode = "MoveObject", t.next_index, js, ps)
         /\ counts' = [counts EXCEPT !.tasks = @ + 1]

\* cmd_process_next_transfer_step, for the modal t with the tasks js and ps.
ProcessNext(t, js, ps) ==
  IF t.next_index >= Len(t.items)
    THEN /\ transfer' = [t EXCEPT !.running = FALSE, !.pending_conflict = NoItem,
                                  !.summary = "Done"]
         /\ SetTasks(js, ps)
         /\ UNCHANGED <<astray, counts>>
    ELSE /\ transfer' = [t EXCEPT !.running = TRUE, !.pending_conflict = NoItem]
         /\ SpawnStep(t.items[t.next_index + 1], t.overwrite_policy,
                      t.mode = "MoveObject", t.next_index, js, ps)
         /\ counts' = [counts EXCEPT !.tasks = @ + 1]

-----------------------------------------------------------------------------
(* The modal *)

Init ==
  /\ client = Home
  /\ active \in {CURRENT} \union {c \in Conns : ServerOf[c] = Home}
  /\ transfer = NoTransfer
  /\ pending = {}
  /\ jobs = {}
  /\ loads = 0
  /\ store = [l \in Locations |-> IF l \in Full THEN l ELSE Absent]
  /\ counts = [opens |-> 0, starts |-> 0, loads |-> 0, tasks |-> 0]
  /\ mixed = FALSE
  /\ astray = FALSE
  /\ outcomes = {}
  /\ consented = {}

\* handle_connect_to leaves the modal and its tasks alone.
ConnectTo(c) ==
  /\ client' = ServerOf[c]
  /\ active' = c
  /\ UNCHANGED <<transfer, tasks, loads, store, counts, history>>

\* A modal is opened, over another one if there is one: the widgets below stay
\* clickable.  The object is the selected one, which may be gone by now.
Open(modal, lists) ==
  /\ counts.opens + counts.starts < MaxActs
  /\ counts.loads + lists <= MaxLoads
  /\ transfer' = modal
  /\ loads' = loads + lists
  /\ counts' = [counts EXCEPT !.opens = @ + 1, !.loads = @ + lists]
  /\ outcomes' = {}
  /\ mixed' = (mixed \/ jobs # {} \/ pending # {})
  /\ UNCHANGED <<app, jobs, pending, store, astray, consented>>

OpenCopyObject(n) ==
  Open([Modal("CopyObject", active, n, n) EXCEPT !.loading = active # CURRENT],
       IF active # CURRENT THEN 1 ELSE 0)

\* handle_open_move_object and handle_open_rename_object.
OpenMoveObject(n) == Open(Modal("MoveObject", CURRENT, n, n), 0)

OpenImportFolder == Open(Modal("ImportFolder", active, NoName, NoName), 0)
OpenExportPrefix == Open(Modal("ExportPrefix", active, NoName, NoName), 0)

CloseTransferModal ==
  /\ IsOpen
  /\ ~transfer.running
  /\ ~transfer.preparing
  /\ transfer' = NoTransfer
  /\ outcomes' = {}
  /\ UNCHANGED <<app, tasks, loads, store, counts, astray, consented>>

IsObjectMode == transfer.mode \in {"CopyObject", "MoveObject"}

\* The view offers the saved connections, and the current one under its own name,
\* or under "Current connection" when it has none.
DestinationConnectionChanged(c) ==
  /\ IsObjectMode
  /\ c = CURRENT => active = CURRENT
  /\ counts.loads < MaxLoads
  /\ transfer' = [transfer EXCEPT !.destination_connection = c, !.loading = TRUE,
                                  !.destination = NoName, !.summary = "None"]
  /\ loads' = loads + 1
  /\ counts' = [counts EXCEPT !.loads = @ + 1]
  /\ UNCHANGED <<app, tasks, store, history>>

\* The destination bucket or key is edited: a name, or one that is not complete.
DestinationChanged(n) ==
  /\ IsObjectMode
  /\ transfer' = [transfer EXCEPT !.destination = n, !.summary = "None"]
  /\ UNCHANGED <<app, tasks, loads, store, counts, history>>

DestinationBucketsLoaded ==
  /\ loads > 0
  /\ loads' = loads - 1
  /\ transfer' = [transfer EXCEPT !.loading = FALSE]
  /\ UNCHANGED <<app, tasks, store, counts, history>>

PointsToSameObject ==
  /\ transfer.destination_connection = CURRENT
  /\ transfer.destination = transfer.source

TransferCanStart ==
  /\ IsOpen
  /\ ~transfer.preparing
  /\ ~transfer.running
  /\ ~transfer.loading
  /\ IsObjectMode => transfer.destination # NoName /\ ~PointsToSameObject

StartTransfer ==
  /\ TransferCanStart
  /\ counts.opens + counts.starts < MaxActs
  /\ transfer' = [transfer EXCEPT !.preparing = TRUE, !.summary = "None"]
  /\ SetTasks(jobs, pending \union
       {[nr |-> counts.tasks + 1, mode |-> transfer.mode, server |-> client,
         item |-> IF IsObjectMode
                    THEN [from |-> CURRENT, source |-> transfer.source,
                          to |-> transfer.destination_connection,
                          target |-> transfer.destination]
                    ELSE NoItem]})
  /\ counts' = [counts EXCEPT !.starts = @ + 1, !.tasks = @ + 1]
  /\ UNCHANGED <<app, loads, store, history>>

-----------------------------------------------------------------------------
(* Preparation *)

Held(at) == {n \in Names : store[<<at, n>>] # Absent}

\* prepare_import_items and prepare_export_items: what the folder, or the server,
\* holds when they look, in the order of their walk or listing.
Listings(p) ==
  CASE p.mode = "ImportFolder" ->
         {[i \in 1 .. Len(s) |-> [from |-> Disk, source |-> s[i],
                                 to |-> CURRENT, target |-> s[i]]] :
            s \in SetToSeqs(Held(Disk))}
    [] p.mode = "ExportPrefix" ->
         {[i \in 1 .. Len(s) |-> [from |-> CURRENT, source |-> s[i],
                                 to |-> Disk, target |-> s[i]]] :
            s \in SetToSeqs(Held(p.server))}
    [] OTHER -> {<<p.item>>}

\* TransferPrepared: it is for whatever modal is there.
TransferPrepared(p) ==
  LET rest == pending \ {p}
      start(items) ==
        [transfer EXCEPT !.preparing = FALSE, !.items = items, !.next_index = 0,
                         !.completed = 0, !.skipped = 0, !.failed = 0,
                         !.running = TRUE, !.pending_conflict = NoItem]
  IN /\ \/ /\ ~IsOpen
           /\ SetTasks(jobs, rest)
           /\ UNCHANGED <<transfer, counts, astray, outcomes>>
        \/ /\ IsOpen
           /\ \E items \in Listings(p) :
                IF items = <<>>
                  THEN /\ transfer' = [start(items) EXCEPT !.running = FALSE,
                                                          !.summary = "Nothing"]
                       /\ SetTasks(jobs, rest)
                       /\ UNCHANGED <<counts, astray>>
                  ELSE ProcessNext(start(items), jobs, rest)
           /\ outcomes' = {}
        \/ /\ IsOpen                    \* the walk or the listing failed
           /\ p.mode \in {"ImportFolder", "ExportPrefix"}
           /\ transfer' = [transfer EXCEPT !.preparing = FALSE, !.running = FALSE,
                                           !.summary = "PreparationFailed"]
           /\ SetTasks(jobs, rest)
           /\ UNCHANGED <<counts, astray, outcomes>>
     /\ UNCHANGED <<app, loads, store, consented>>

-----------------------------------------------------------------------------
(* run_transfer_step *)

From(j) == <<IF j.item.from = Disk THEN Disk ELSE j.src, j.item.source>>
To(j)   == <<j.dst, j.item.target>>

\* Where the copy goes: S3 to S3 it is the source's client that is asked to copy.
CopiesTo(j) ==
  IF j.item.from = CURRENT /\ j.dst # Disk THEN <<j.src, j.item.target>> ELSE To(j)

Advance(j, step) ==
  /\ jobs' = (jobs \ {j}) \union {[j EXCEPT !.step = step]}
  /\ UNCHANGED <<app, transfer, pending, mixed, loads, counts, astray, outcomes>>

\* The destination is looked at; a HEAD request that fails counts as absence.
LookAtDestination(j) ==
  /\ j.step = "head"
  /\ \/ /\ store[To(j)] # Absent
        /\ Advance(j, CASE j.policy = "Ask"     -> "Conflict"
                        [] j.policy = "SkipAll" -> "Skipped"
                        [] OTHER                -> "copy")
     \/ /\ store[To(j)] = Absent
        /\ Advance(j, "copy")
     \/ /\ store[To(j)] # Absent /\ j.dst # Disk
        /\ jobs' = (jobs \ {j}) \union {[j EXCEPT !.step = "copy"]}
        /\ astray' = TRUE
        /\ UNCHANGED <<app, transfer, pending, mixed, loads, counts, outcomes>>
  /\ UNCHANGED <<store, consented>>

\* Contents the copy of j overwrites with the user's consent.
Consent(j) ==
  IF j.policy = "OverwriteAll" THEN {store[CopiesTo(j)]} \ {store[From(j)]} ELSE {}

\* Mutant: the result of the copy is not looked at before the source is deleted.
CopyUnchecked(j) ==
  /\ j.step = "copy"
  /\ \/ /\ store[From(j)] # Absent
        /\ store' = [store EXCEPT ![CopiesTo(j)] = store[From(j)]]
        /\ consented' = consented \union Consent(j)
     \/ UNCHANGED <<store, consented>>
  /\ Advance(j, IF j.is_move /\ j.item.from = CURRENT /\ j.dst # Disk
                  THEN "delete" ELSE "Copied")

\* The copy, upload or download.  Any call may fail, also after it took effect; a
\* file is not written in one piece.
Copy(j) ==
  /\ j.step = "copy"
  /\ \/ /\ store[From(j)] # Absent
        /\ store' = [store EXCEPT ![CopiesTo(j)] = store[From(j)]]
        /\ consented' = consented \union Consent(j)
        /\ \/ Advance(j, IF j.is_move /\ j.item.from = CURRENT /\ j.dst # Disk
                            THEN "delete" ELSE "Copied")
           \/ Advance(j, "Failed")
     \/ /\ j.dst = Disk
        /\ store[From(j)] # Absent
        /\ store' = [store EXCEPT ![CopiesTo(j)] = Partial]
        /\ consented' = consented \union Consent(j)
        /\ Advance(j, "Failed")
     \/ /\ Advance(j, "Failed")
        /\ UNCHANGED <<store, consented>>

\* A move deletes its source once the copy has returned success.
DeleteSource(j) ==
  /\ j.step = "delete"
  /\ \/ /\ store' = [store EXCEPT ![From(j)] = Absent]
        /\ Advance(j, "Copied") \/ Advance(j, "Failed")
     \/ /\ Advance(j, "Failed")
        /\ UNCHANGED store
  /\ UNCHANGED consented

-----------------------------------------------------------------------------
(* The result of a step, and the answer to a conflict *)

\* Mutant: a failed item is tried again.
CountedRetry(t, result) ==
  [t EXCEPT !.completed = IF result = "Copied"  THEN @ + 1 ELSE @,
            !.skipped   = IF result = "Skipped" THEN @ + 1 ELSE @,
            !.failed    = IF result = "Failed"  THEN @ + 1 ELSE @,
            !.next_index = IF result = "Failed" THEN @ ELSE @ + 1]

\* The counter a result moves.
Counted(t, result) ==
  [t EXCEPT !.completed = IF result = "Copied"  THEN @ + 1 ELSE @,
            !.skipped   = IF result = "Skipped" THEN @ + 1 ELSE @,
            !.failed    = IF result = "Failed"  THEN @ + 1 ELSE @,
            !.next_index = @ + 1]

\* TransferStepFinished: it counts for whatever modal is there.
TransferStepFinished(j) ==
  LET rest == jobs \ {j}
  IN /\ j.step \in Results
     /\ IF ~IsOpen
          THEN /\ SetTasks(rest, pending)
               /\ UNCHANGED <<transfer, counts, astray, outcomes>>
          ELSE IF j.step = "Conflict"
          THEN /\ transfer' = [transfer EXCEPT !.pending_conflict = j.item,
                                               !.running = FALSE]
               /\ SetTasks(rest, pending)
               /\ UNCHANGED <<counts, astray, outcomes>>
          ELSE /\ outcomes' = outcomes \union {[index |-> j.index, result |-> j.step]}
               /\ ProcessNext(Counted(transfer, j.step), rest, pending)
     /\ UNCHANGED <<app, loads, store, consented>>

\* resolve_transfer_conflict: policy is the one to remember, "Ask" for this once.
Remember(policy) ==
  [transfer EXCEPT !.pending_conflict = NoItem,
                   !.overwrite_policy = IF policy = "Ask" THEN @ ELSE policy]

ConflictSkip(policy) ==
  /\ transfer.pending_conflict # NoItem
  /\ policy \in {"Ask", "SkipAll"}
  /\ outcomes' = outcomes \union
       {[index |-> transfer.next_index, result |-> "Skipped"]}
  /\ ProcessNext(Counted(Remember(policy), "Skipped"), jobs, pending)
  /\ UNCHANGED <<app, loads, store, consented>>

ConflictOverwrite(policy) ==
  /\ transfer.pending_conflict # NoItem
  /\ policy \in {"Ask", "OverwriteAll"}
  /\ transfer' = [Remember(policy) EXCEPT !.running = TRUE]
  /\ SpawnStep(transfer.pending_conflict, "OverwriteAll", FALSE,
               transfer.next_index, jobs, pending)
  /\ counts' = [counts EXCEPT !.tasks = @ + 1]
  /\ UNCHANGED <<app, loads, store, outcomes, consented>>

-----------------------------------------------------------------------------
OpenModal ==
  \/ \E n \in Names : OpenCopyObject(n)
  \/ \E n \in Names : OpenMoveObject(n)
  \/ OpenImportFolder
  \/ OpenExportPrefix

EditModal ==
  \/ \E c \in Conns \union {CURRENT} : DestinationConnectionChanged(c)
  \/ \E n \in Names \union {NoName} : DestinationChanged(n)
  \/ CloseTransferModal

Answer == \E policy \in Policies : ConflictSkip(policy) \/ ConflictOverwrite(policy)

Prepared == \E p \in pending : TransferPrepared(p)

RunStep ==
  \E j \in jobs : LookAtDestination(j) \/ Copy(j) \/ DeleteSource(j)

StepFinished == \E j \in jobs : TransferStepFinished(j)

Next ==
  \/ \E c \in Conns : ConnectTo(c)
  \/ OpenModal
  \/ EditModal
  \/ StartTransfer
  \/ Answer
  \/ DestinationBucketsLoaded
  \/ Prepared
  \/ RunStep
  \/ StepFinished

Spec == Init /\ [][Next]_vars

\* Every task ends and its message is handled; the user may do nothing.
FairSpec == Spec /\ WF_vars(Prepared \/ RunStep \/ StepFinished \/ DestinationBucketsLoaded)

-----------------------------------------------------------------------------
(* Properties *)

\* TypeOK: the shape of the state, also when a message meets a modal it was not for.
TypeOK ==
  /\ client \in Servers
  /\ active \in Conns \union {CURRENT}
  /\ transfer \in TransferState
  /\ pending \subseteq Preparation
  /\ jobs \subseteq Job
  /\ loads \in Nat
  /\ store \in [Locations -> Full \union {Absent, Partial}]
  /\ counts \in [opens: Nat, starts: Nat, loads: Nat, tasks: Nat]
  /\ mixed \in BOOLEAN
  /\ astray \in BOOLEAN
  /\ outcomes \subseteq [index: Nat, result: Results]
  /\ consented \subseteq Full \union {Absent, Partial}

With(result) == {o \in outcomes : o.result = result}

\* EachItemOnce: unless tasks of two lists were under way together, the items the
\* index has passed each ended once, in order, and the three counters say how.
EachItemOnce ==
  ~mixed =>
    /\ {o.index : o \in outcomes} = 0 .. transfer.next_index - 1
    /\ Cardinality(outcomes) = transfer.next_index
    /\ transfer.next_index <= Len(transfer.items)
    /\ transfer.completed = Cardinality(With("Copied"))
    /\ transfer.skipped   = Cardinality(With("Skipped"))
    /\ transfer.failed    = Cardinality(With("Failed"))

Kept == {store[l] : l \in Locations}

\* NothingLost: inside one connection, with one task at a time and existence checks that
\* answer, every content is still held by some object or file unless
\* the user agreed to overwrite it, through failed calls, calls that took effect and
\* lost their answer, and further starts.
NothingLost == ~mixed /\ ~astray => Full \subseteq Kept \union consented

Waits == transfer.preparing \/ transfer.running \/ transfer.loading

\* TransferEnds: a modal that prepares, runs or loads a list of buckets, and so cannot be
\* started, ends doing so or asks the user, whatever modal a message was sent for.
TransferEnds == Waits ~> ~Waits

\* CopiedMeansThere: a step that ends as Copied left something at its destination.
CopiedMeansThere ==
  ~mixed => \A j \in jobs : j.step = "Copied" => store[To(j)] # Absent

=============================================================================
