-------------------------------- MODULE Panel --------------------------------
(***************************************************************************)
(* What the object list and the panel beside it share: the selection and   *)
(* the requests under way.                                                 *)
(*                                                                         *)
(* Selecting a bucket or an object starts several requests at once.  Most  *)
(* of their answers carry no bucket or key: whatever is selected when they *)
(* arrive, they are taken for its own.  ObjectPanel and BucketPanel hold   *)
(* the two kinds of contents, Details composes them with the listing.      *)
(*                                                                         *)
(* Abstraction: the parts of the panel (tags, versions, policy, ...)       *)
(* depend on each other only through the selection and the object's        *)
(* detail, so that a behaviour follows some parts, chosen at its start,    *)
(* and leaves the others empty.                                            *)
(***************************************************************************)
EXTENDS Integers, Sequences, FiniteSets, SequencesExt

CONSTANTS
  Buckets,   \* buckets of the server
  Keys,      \* keys of objects
  Below,     \* the keys a key is a prefix of
  Follows,   \* the choices of parts a behaviour follows
  MaxActs    \* bound: how much the user does, for each of them

NoBucket == "no bucket"
NoKey    == "no key"

ObjectParts  == {"detail", "tags", "versions", "preview", "share", "inspect", "heal"}
Kinds        == {"policy", "lifecycle"}
BucketParts  == Kinds \union {"bucket_tags", "versioning", "ftt"}
ListingParts == {"objects", "find", "object", "bucket"}

ASSUME NamesAssumption == NoBucket \notin Buckets /\ NoKey \notin Keys
ASSUME BelowAssumption == Below \in [Keys -> SUBSET Keys] /\ \A k \in Keys : k \in Below[k]
\* What is searched is a list.
ASSUME FollowsAssumption ==
  /\ Follows \subseteq SUBSET (ObjectParts \union BucketParts \union ListingParts)
  /\ \A parts \in Follows : "find" \in parts => "objects" \in parts
ASSUME ActsAssumption == MaxActs \in [Follows -> Nat]

VARIABLES
  selected_bucket,  \* App.selected_bucket
  selection,        \* App.selection
  requests,         \* requests whose message has not been handled
  follow,           \* the parts this behaviour follows
  acts,             \* history: what the user has done so far
  restless,         \* history: something was selected while requests were under way
  hasty,            \* history: something was edited while requests were under way
  unsure            \* history: a command took effect and its answer was lost

common == <<selected_bucket, selection, requests, follow, acts, restless, hasty, unsure>>

\* A subject: a bucket, an object, or a folder of a bucket.
Of(bucket, key) == <<bucket, key>>

None           == [kind |-> "None", bucket |-> NoBucket, key |-> NoKey]
Bucket(b)      == [kind |-> "Bucket", bucket |-> b, key |-> NoKey]
Object(b, k)   == [kind |-> "Object", bucket |-> b, key |-> k]
Selection      == {None} \union {Bucket(b) : b \in Buckets}
                    \union {Object(b, k) : b \in Buckets, k \in Keys}
SelectedObject == Of(selection.bucket, selection.key)

\* Option<Result<..>> of a field: nothing yet, or what an answer said, and (history)
\* of which subject.
Empty        == [is |-> "None", of |-> Of(NoBucket, NoKey), value |-> {}]
Answer(r)    == [is |-> IF r.ok THEN "Ok" ELSE "Err", of |-> r.of, value |-> r.value]

\* A request: the message it ends with is named by its part and its operation.
Request(part, op, of, value) ==
  [part |-> part, op |-> op, of |-> of, value |-> value, at |-> "sent", ok |-> FALSE]
Load(part, of) == Request(part, "load", of, {})

UnderWay(part, op) == \E i \in DOMAIN requests : requests[i].part = part /\ requests[i].op = op

\* Those of the parts followed, in some order: nothing depends on it.
Followed(new) == SetToSeq({r \in new : r.part \in follow})

\* New requests are started; the answer of request i has been handled.
Start(new)     == requests' = requests \o Followed(new)
Handled(i, new) == requests' = RemoveAt(requests, i) \o Followed(new)

\* The user selects something, or edits what the panel shows.
Selects == /\ acts < MaxActs[follow]
           /\ acts' = acts + 1
           /\ restless' = (restless \/ requests # <<>>)
           /\ UNCHANGED <<hasty, follow, unsure>>
Edits   == /\ acts < MaxActs[follow]
           /\ acts' = acts + 1
           /\ hasty' = (hasty \/ requests # <<>>)
           /\ UNCHANGED <<restless, follow, unsure>>

\* A message is handled; that of a created bucket or a deleted object selects, too.
Handles == /\ restless' = (restless \/ (selection' # selection /\ Len(requests) > 1))
           /\ UNCHANGED <<acts, hasty, follow, unsure>>

Delivered(i, part, op) ==
  /\ requests[i].at = "done"
  /\ requests[i].part = part
  /\ requests[i].op = op

\* The server has served request i: its message has this result.
Served(i, ok, value) ==
  requests' = [requests EXCEPT ![i].at = "done", ![i].ok = ok, ![i].value = value]

CommonInit ==
  /\ selected_bucket = NoBucket
  /\ selection = None
  /\ requests = <<>>
  /\ follow \in Follows
  /\ acts = 0
  /\ restless = FALSE
  /\ hasty = FALSE
  /\ unsure = FALSE
=============================================================================
