---------------------------- MODULE BucketDelete ----------------------------
(***************************************************************************)
(* The dialog that deletes a bucket with everything in it:                 *)
(* src/src/app/handlers/delete.rs lines 147-329.                           *)
(*                                                                         *)
(* The contents are read first, the user types the name, and the objects   *)
(* are deleted one request at a time, the bucket last.  The answer to a    *)
(* request does not say which dialog it is for; the contents name their    *)
(* bucket, not their server.  Other clients write to the bucket meanwhile. *)
(***************************************************************************)
EXTENDS Integers, Sequences, FiniteSets, SequencesExt

CONSTANTS
  Servers,      \* S3 servers
  Home,         \* the server the application was started with
  Buckets,      \* bucket names
  Keys,         \* object keys
  Full,         \* what the buckets of the servers hold at first
  Shared,       \* the buckets others write to, as <<server, name>>
  MaxOpens,     \* bound: times the dialog is opened
  MaxArrivals   \* bound: objects written by others

NoBucket == "no bucket"   \* what is typed is no bucket's name
NoKey    == "no key"      \* the request is for the bucket itself

ASSUME ServersAssumption == Home \in Servers
ASSUME NamesAssumption == NoBucket \notin Buckets /\ NoKey \notin Keys /\ IsFiniteSet(Keys)
ASSUME FullAssumption ==
  Full \in [Servers \X Buckets -> SUBSET Keys] /\ Shared \subseteq Servers \X Buckets
ASSUME BoundsAssumption == MaxOpens \in Nat /\ MaxArrivals \in Nat

VARIABLES
  client,         \* App.client: the server it talks to
  bucket_delete,  \* App.bucket_delete
  previews,       \* listings whose BucketDeletePreviewLoaded has not been handled
  steps,          \* requests whose BucketDeleteStepFinished has not been handled
  buckets,        \* the buckets there are, as <<server, name>>
  store,          \* what they hold
  counts,         \* history: dialogs opened and objects arrived so far
  arrived,        \* history: objects written by others
  confirmed,      \* history: where the user has pressed Delete in this dialog
  retyped,        \* history: the name was edited while this dialog was deleting
  mixed           \* history: a task outlived its dialog, or a dialog its connection

server  == <<buckets, store>>
history == <<counts, arrived, confirmed, retyped, mixed>>
vars    == <<client, bucket_delete, previews, steps, server, history>>

-----------------------------------------------------------------------------
(* Types *)

Modal(bucket) ==
  [open |-> TRUE, bucket |-> bucket, confirm_name |-> NoBucket,
   preview_loading |-> TRUE, object_keys |-> <<>>, deleted_objects |-> 0,
   next_index |-> 0, deleting |-> FALSE]

NoModal == [Modal(NoBucket) EXCEPT !.open = FALSE, !.preview_loading = FALSE]

\* BucketDeleteState; total_objects is the number of the keys.
BucketDeleteState ==
  [open: BOOLEAN, bucket: Buckets \union {NoBucket},
   confirm_name: Buckets \union {NoBucket}, preview_loading: BOOLEAN,
   object_keys: Seq(Keys), deleted_objects: Nat, next_index: Nat, deleting: BOOLEAN]

Preview == [nr: Nat, bucket: Buckets, server: Servers,
            status: {"sent", "ok", "failed"}, keys: Seq(Keys)]

\* A request, and (history) whether the user had confirmed the deletion it is part of.
Step == [nr: Nat, bucket: Buckets, key: Keys \union {NoKey}, server: Servers,
         status: {"sent", "ok", "failed"}, confirmed: BOOLEAN]

-----------------------------------------------------------------------------
(* The next request *)

\* Mutant: the last object is left to the deletion of the bucket.
NextKeyOneLess(m) ==
  IF m.next_index < Len(m.object_keys) - 1
    THEN m.object_keys[m.next_index + 1] ELSE NoKey

\* The next object, or the bucket when all objects are deleted.
NextKey(m) ==
  IF m.next_index < Len(m.object_keys)
    THEN m.object_keys[m.next_index + 1] ELSE NoKey

\* Mutant: the flag is set before the conditions are checked.
NextStepFlagFirst(m, rest, agreed) ==
  /\ bucket_delete' = [m EXCEPT !.deleting = TRUE]
  /\ steps' =
       IF m.preview_loading \/ m.confirm_name # m.bucket THEN rest
       ELSE rest \union
              {[nr |-> counts.opens, bucket |-> m.bucket, key |-> NextKey(m),
                server |-> client, status |-> "sent",
                confirmed |-> <<client, m.bucket>> \in agreed]}

\* cmd_process_next_bucket_delete_step, for the dialog m with the requests rest:
\* without the preview or the right name nothing happens.
NextStep(m, rest, agreed) ==
  IF m.preview_loading \/ m.confirm_name # m.bucket
    THEN /\ bucket_delete' = m
         /\ steps' = rest
    ELSE /\ bucket_delete' = [m EXCEPT !.deleting = TRUE]
         /\ steps' = rest \union
              {[nr |-> counts.opens, bucket |-> m.bucket, key |-> NextKey(m),
                server |-> client, status |-> "sent",
                confirmed |-> <<client, m.bucket>> \in agreed]}

-----------------------------------------------------------------------------
(* The dialog *)

Init ==
  /\ client = Home
  /\ bucket_delete = NoModal
  /\ previews = {}
  /\ steps = {}
  /\ buckets = Servers \X Buckets
  /\ store = Full
  /\ counts = [opens |-> 0, arrivals |-> 0]
  /\ arrived = {}
  /\ confirmed = {}
  /\ retyped = FALSE
  /\ mixed = FALSE

\* handle_connect_to leaves the dialog alone.
ConnectTo(s) ==
  /\ s # client
  /\ client' = s
  /\ mixed' = (mixed \/ bucket_delete.open)
  /\ UNCHANGED <<bucket_delete, previews, steps, server, counts, arrived, confirmed, retyped>>

\* The button stays clickable below the dialog; the listing of buckets may be stale.
OpenDeleteBucketModal(b) ==
  /\ counts.opens < MaxOpens
  /\ bucket_delete' = Modal(b)
  /\ previews' = previews \union {[nr |-> counts.opens, bucket |-> b, server |-> client,
                                   status |-> "sent", keys |-> <<>>]}
  /\ counts' = [counts EXCEPT !.opens = @ + 1]
  /\ confirmed' = {}
  /\ retyped' = FALSE
  /\ mixed' = (mixed \/ previews # {} \/ steps # {})
  /\ UNCHANGED <<client, steps, server, arrived>>

CloseDeleteBucketModal ==
  /\ bucket_delete.open
  /\ ~bucket_delete.deleting
  /\ bucket_delete' = NoModal
  /\ UNCHANGED <<client, previews, steps, server, history>>

\* Mutant: the right name starts the deletion.
ConfirmNameChangedStarts(name) ==
  /\ bucket_delete.open
  /\ ~bucket_delete.deleting
  /\ NextStep([bucket_delete EXCEPT !.confirm_name = name], steps, confirmed)
  /\ UNCHANGED <<client, previews, server, history>>

\* The field can be edited at any time, also while deleting.
ConfirmNameChanged(name) ==
  /\ bucket_delete.open
  /\ bucket_delete' = [bucket_delete EXCEPT !.confirm_name = name]
  /\ retyped' = (retyped \/ bucket_delete.deleting)
  /\ UNCHANGED <<client, previews, steps, server, counts, arrived, confirmed, mixed>>

\* bucket_delete_can_start, the condition of the button.
CanStart ==
  /\ bucket_delete.open
  /\ ~bucket_delete.preview_loading
  /\ ~bucket_delete.deleting
  /\ bucket_delete.confirm_name = bucket_delete.bucket

ConfirmDeleteBucket ==
  LET agreed == confirmed \union {<<client, bucket_delete.bucket>>}
  IN /\ CanStart
     /\ confirmed' = agreed
     /\ NextStep(bucket_delete, steps, agreed)
     /\ UNCHANGED <<client, previews, server, counts, arrived, retyped, mixed>>

-----------------------------------------------------------------------------
(* The server *)

\* Somebody else writes an object.
Arrive(at, key) ==
  /\ at \in buckets
  /\ counts.arrivals < MaxArrivals
  /\ key \notin store[at]
  /\ store' = [store EXCEPT ![at] = @ \union {key}]
  /\ arrived' = arrived \union {<<at, key>>}
  /\ counts' = [counts EXCEPT !.arrivals = @ + 1]
  /\ UNCHANGED <<client, bucket_delete, previews, steps, buckets, confirmed, retyped, mixed>>

\* list_objects without delimiter reads all pages, or fails.
ServerLists(p) ==
  /\ p.status = "sent"
  /\ \E status \in {"ok", "failed"} :
       /\ status = "ok" => <<p.server, p.bucket>> \in buckets
       /\ previews' = (previews \ {p}) \union
            {[p EXCEPT !.status = status,
                       !.keys = IF status = "ok"
                                  THEN SetToSeq(store[<<p.server, p.bucket>>])
                                  ELSE <<>>]}
  /\ UNCHANGED <<client, bucket_delete, steps, server, history>>

Answer(st, status) ==
  /\ steps' = (steps \ {st}) \union {[st EXCEPT !.status = status]}
  /\ UNCHANGED <<client, bucket_delete, previews, history>>

\* The request fails without effect, or takes effect and its answer may be lost.  An
\* object that is gone is deleted with success; a bucket must be there and be empty.
ServerActs(st) ==
  LET at == <<st.server, st.bucket>>
  IN /\ st.status = "sent"
     /\ \/ /\ UNCHANGED <<buckets, store>>
           /\ Answer(st, "failed")
        \/ /\ st.key # NoKey
           /\ at \in buckets
           /\ store' = [store EXCEPT ![at] = @ \ {st.key}]
           /\ UNCHANGED buckets
           /\ \E status \in {"ok", "failed"} : Answer(st, status)
        \/ /\ st.key = NoKey
           /\ at \in buckets
           /\ store[at] = {}
           /\ buckets' = buckets \ {at}
           /\ UNCHANGED store
           /\ \E status \in {"ok", "failed"} : Answer(st, status)

-----------------------------------------------------------------------------
(* Answers *)

\* The contents are for the dialog if it is about a bucket of that name.
BucketDeletePreviewLoaded(p) ==
  /\ p.status # "sent"
  /\ previews' = previews \ {p}
  /\ bucket_delete' =
       IF bucket_delete.open /\ bucket_delete.bucket = p.bucket
         THEN [bucket_delete EXCEPT !.preview_loading = FALSE,
                 !.object_keys = IF p.status = "ok" THEN p.keys ELSE @]
         ELSE bucket_delete
  /\ UNCHANGED <<client, steps, server, history>>

\* BucketDeleteStepFinished: it is for whatever dialog is there.
StepFinished(st) ==
  LET m == bucket_delete
      rest == steps \ {st}
  IN /\ st.status # "sent"
     /\ \/ /\ ~m.open
           /\ steps' = rest
           /\ UNCHANGED bucket_delete
        \/ /\ m.open
           /\ st.status = "ok"
           /\ st.key # NoKey
           /\ NextStep([m EXCEPT !.deleted_objects = @ + 1, !.next_index = @ + 1],
                       rest, confirmed)
        \/ /\ m.open
           /\ st.status = "ok"
           /\ st.key = NoKey
           /\ bucket_delete' = NoModal
           /\ steps' = rest
        \/ /\ m.open
           /\ st.status = "failed"
           /\ bucket_delete' = [m EXCEPT !.deleting = FALSE]
           /\ steps' = rest
     /\ UNCHANGED <<client, previews, server, history>>

-----------------------------------------------------------------------------
User ==
  \/ \E s \in Servers : ConnectTo(s)
  \/ \E b \in Buckets : OpenDeleteBucketModal(b)
  \/ CloseDeleteBucketModal
  \/ \E name \in Buckets \union {NoBucket} : ConfirmNameChanged(name)
  \/ ConfirmDeleteBucket

Server == (\E p \in previews : ServerLists(p)) \/ (\E st \in steps : ServerActs(st))

Answers ==
  (\E p \in previews : BucketDeletePreviewLoaded(p)) \/ (\E st \in steps : StepFinished(st))

Next ==
  \/ User
  \/ \E at \in Shared, key \in Keys : Arrive(at, key)
  \/ Server
  \/ Answers

Spec == Init /\ [][Next]_vars

\* Every request is answered and every answer is handled; the user may do nothing.
FairSpec == Spec /\ WF_vars(Server \/ Answers)

-----------------------------------------------------------------------------
(* Properties *)

\* TypeOK: the shape of the state, also when an answer meets a dialog it was not for.
TypeOK ==
  /\ client \in Servers
  /\ bucket_delete \in BucketDeleteState
  /\ previews \subseteq Preview
  /\ steps \subseteq Step
  /\ buckets \subseteq Servers \X Buckets
  /\ store \in [Servers \X Buckets -> SUBSET Keys]
  /\ counts \in [opens: Nat, arrivals: Nat]
  /\ arrived \subseteq (Servers \X Buckets) \X Keys
  /\ confirmed \subseteq Servers \X (Buckets \union {NoBucket})
  /\ retyped \in BOOLEAN
  /\ mixed \in BOOLEAN

\* ObjectsFirst: a dialog on its own counts an object only when it is gone, and asks
\* for the bucket only when every object it has shown is, through failures, lost
\* answers and further confirmations; what others wrote since is not counted on.
ObjectsFirst ==
  ~mixed /\ bucket_delete.open =>
    LET at   == <<client, bucket_delete.bucket>>
        keys == bucket_delete.object_keys
        left == store[at] \ {key \in Keys : <<at, key>> \in arrived}
    IN /\ \A i \in 1 .. bucket_delete.deleted_objects : keys[i] \notin left
       /\ \A st \in steps : st.key = NoKey => \A i \in 1 .. Len(keys) : keys[i] \notin left

\* OnlyConfirmed: a request is part of a deletion the user has typed the name for and
\* started, in this dialog and on this server.
OnlyConfirmed == \A st \in steps : st.confirmed

\* UnmixedOnlyConfirmed: the same for a dialog whose tasks and connection are its own.
UnmixedOnlyConfirmed == ~mixed => OnlyConfirmed

Waits == bucket_delete.deleting \/ bucket_delete.preview_loading

\* DeletionEnds: a dialog that deletes, and so can be neither closed nor started, or that
\* reads the contents of its bucket, ends doing so, whatever dialogs and listings came
\* before; unless somebody types into it while it deletes: the next request is then not
\* made and the flag stays.
DeletionEnds == Waits ~> (~Waits \/ retyped)

=============================================================================
