------------------------------- MODULE Details -------------------------------
(***************************************************************************)
(* The object list with the panel beside it: src/src/app/handlers/         *)
(* browse.rs composed with ObjectPanel and BucketPanel.                    *)
(*                                                                         *)
(* A handler that selects something resets some fields of each panel,      *)
(* leaves others, and starts the requests that fill them again.            *)
(*                                                                         *)
(* Not here: the deletions of several objects (Deletes), switching the     *)
(* connection (Connections), a download, which changes no field.           *)
(***************************************************************************)
EXTENDS ObjectPanel, BucketPanel

CONSTANTS
  Folders,        \* prefixes, with the whole bucket among them
  Root,           \* the empty prefix
  Inside,         \* the keys under a prefix
  Filters,        \* the texts of the filter field, as the keys they let through
  StoredAtFirst

ASSUME FoldersAssumption ==
  /\ Root \in Folders
  /\ Inside \in [Folders -> SUBSET Keys]
  /\ Inside[Root] = Keys
ASSUME ListingAssumption ==
  Filters \subseteq SUBSET Keys /\ StoredAtFirst \in [Buckets -> SUBSET Keys]

VARIABLES
  list,    \* the fields of App about the object list
  stored,  \* the keys of each bucket, on the server
  picked   \* history: the listings the selected keys were taken from

listVars == <<list, stored, picked>>
vars     == <<common, objectVars, bucketVars, listVars>>

\* No filter lets everything through.
NoFilter == Keys

NoList ==
  [objects |-> Empty, loading_objects |-> FALSE, find_results |-> Empty, finding |-> FALSE,
   selected_keys |-> {}, current_prefix |-> Root, object_filter |-> NoFilter]

HereIn(prefix) == Of(selected_bucket, prefix)
FetchObjects   == Load("objects", HereIn(list.current_prefix))
Loading(l)     == [l EXCEPT !.loading_objects = "objects" \in follow]

\* A list that starts anew at a prefix.
At(l, prefix) ==
  Loading([l EXCEPT !.current_prefix = prefix, !.object_filter = NoFilter,
                    !.selected_keys = {}, !.find_results = Empty])

-----------------------------------------------------------------------------
(* Selecting *)

SelectBucket(b) ==
  /\ Selects
  /\ selected_bucket' = b
  /\ selection' = Bucket(b)
  /\ list' = At(list, Root)
  /\ picked' = {}
  /\ pane' = Cleared(pane)
  /\ ResetDocuments
  /\ bucket_tags' = Empty
  /\ bucket_status' = [bucket_status EXCEPT !["ftt"] = Empty]
  /\ Start({Load("objects", Of(b, Root)), Load("versioning", Of(b, NoKey)),
            Load("policy", Of(b, NoKey)), Load("lifecycle", Of(b, NoKey)),
            Load("bucket_tags", Of(b, NoKey)), Load("ftt", Of(b, NoKey))})
  /\ UNCHANGED <<objectTruth, bucketTruth, created, stored>>

NavigatePrefix(prefix) ==
  /\ "objects" \in follow
  /\ selected_bucket # NoBucket
  /\ Selects
  /\ list' = At(list, prefix)
  /\ picked' = {}
  /\ selection' = None
  /\ pane' = Cleared(pane)
  /\ Start({Load("objects", HereIn(prefix))})
  /\ UNCHANGED <<selected_bucket, objectTruth, bucketVars, stored>>

\* The keys on the screen: object_list_view.
Listed ==
  IF "objects" \notin follow THEN Keys
  ELSE IF list.find_results.is # "None" THEN list.find_results.value
  ELSE IF list.finding \/ list.loading_objects THEN {}
  ELSE list.objects.value \intersect list.object_filter

SelectObject(k) ==
  LET o == Of(selected_bucket, k)
  IN  /\ selected_bucket # NoBucket
      /\ k \in Listed
      /\ Selects
      /\ selection' = Object(selected_bucket, k)
      /\ pane' = Opened(pane)
      /\ Start(OpeningLoads(o))
      /\ UNCHANGED <<selected_bucket, objectTruth, bucketVars, listVars>>

\* The Escape key, at any time.
ClearSelection ==
  /\ Selects
  /\ selection' = None
  /\ pane' = Cleared(pane)
  /\ documents' = [kind \in Kinds |-> CancelEditing(documents[kind])]
  /\ UNCHANGED <<selected_bucket, requests, objectTruth, bucket_tags, bucket_status,
                 bucketTruth, created, listVars>>

-----------------------------------------------------------------------------
(* The list *)

ObjectsLoaded(i) ==
  /\ Delivered(i, "objects", "load")
  /\ list' = [list EXCEPT !.loading_objects = FALSE, !.objects = Answer(requests[i])]
  /\ Handled(i, {})
  /\ UNCHANGED <<stored, picked>>

Refresh ==
  /\ selected_bucket # NoBucket
  /\ list' = Loading([list EXCEPT !.find_results = Empty, !.selected_keys = {}])
  /\ picked' = {}
  /\ Start({FetchObjects})
  /\ UNCHANGED stored

ObjectFilterChanged(filter) ==
  /\ list' = [list EXCEPT !.object_filter = filter]
  /\ UNCHANGED <<requests, stored, picked>>

Find ==
  /\ selected_bucket # NoBucket
  /\ list.object_filter # NoFilter
  /\ ~list.finding
  /\ list' = [list EXCEPT !.finding = TRUE, !.find_results = Empty]
  /\ Start({Request("find", "load", HereIn(list.current_prefix), list.object_filter)})
  /\ UNCHANGED <<stored, picked>>

FindComplete(i) ==
  /\ Delivered(i, "find", "load")
  /\ list' = [list EXCEPT !.finding = FALSE, !.find_results = Answer(requests[i])]
  /\ Handled(i, {})
  /\ UNCHANGED <<stored, picked>>

ClearFind ==
  /\ list.find_results.is # "None"
  /\ list' = [list EXCEPT !.find_results = Empty, !.selected_keys = {}]
  /\ picked' = {}
  /\ UNCHANGED <<requests, stored>>

ToggleObjectSelected(k) ==
  LET shown == IF list.find_results.is # "None" THEN list.find_results ELSE list.objects
  IN  /\ k \in Listed
      /\ list' = [list EXCEPT !.selected_keys = IF k \in @ THEN @ \ {k} ELSE @ \union {k}]
      /\ picked' = picked \union {shown.of}
      /\ UNCHANGED <<requests, stored>>

\* What the last listing and the last search hold, whether they are on the screen or not.
SelectAllObjects ==
  LET sources == {s \in {list.objects, list.find_results} : s.is = "Ok"}
      all     == (IF list.objects.is = "Ok"
                    THEN list.objects.value \intersect list.object_filter ELSE {})
                 \union list.find_results.value
  IN  /\ list.selected_keys = {}
      /\ list' = [list EXCEPT !.selected_keys = all]
      /\ picked' = {s.of : s \in sources}
      /\ UNCHANGED <<requests, stored>>

ClearObjectSelection ==
  /\ list.selected_keys # {}
  /\ list' = [list EXCEPT !.selected_keys = {}]
  /\ picked' = {}
  /\ UNCHANGED <<requests, stored>>

-----------------------------------------------------------------------------
(* One object, one bucket *)

Upload(k) ==
  /\ selected_bucket # NoBucket
  /\ Start({Request("object", "upload", Of(selected_bucket, k), {})})
  /\ UNCHANGED listVars

UploadDone(i) ==
  /\ Delivered(i, "object", "upload")
  /\ IF requests[i].ok THEN list' = Loading(list) /\ Handled(i, {FetchObjects})
                       ELSE UNCHANGED list /\ Handled(i, {})
  /\ UNCHANGED <<stored, picked>>

DeleteObject ==
  /\ Shown
  /\ Start({Request("object", "delete", SelectedObject, {})})
  /\ UNCHANGED listVars

\* Whatever is selected by now is no longer.
DeleteDone(i) ==
  /\ Delivered(i, "object", "delete")
  /\ IF requests[i].ok
       THEN /\ selection' = None
            /\ pane' = Cleared(pane)
            /\ ResetDocuments
            /\ list' = Loading(list)
            /\ Handled(i, {FetchObjects})
       ELSE /\ UNCHANGED <<selection, pane, documents, list>>
            /\ Handled(i, {})
  /\ UNCHANGED <<selected_bucket, objectTruth, bucket_tags, bucket_status, bucketTruth,
                 created, stored, picked>>

CreateBucket(b) ==
  /\ Start({Request("bucket", "create", Of(b, NoKey), {})})
  /\ UNCHANGED listVars

\* The new bucket is selected.  Its documents are forgotten and not loaded; the tags and
\* the versioning shown stay those of the bucket before.
CreateBucketDone(i) ==
  LET b == requests[i].of[1]
  IN  /\ Delivered(i, "bucket", "create")
      /\ IF requests[i].ok
           THEN /\ selected_bucket' = b
                /\ selection' = Bucket(b)
                /\ list' = [At(list, Root) EXCEPT !.objects = Empty]
                /\ picked' = {}
                /\ pane' = [pane EXCEPT !.detail = Empty]
                /\ ResetDocuments
                /\ created' = TRUE
                /\ Handled(i, {Load("objects", Of(b, Root))})
           ELSE /\ UNCHANGED <<selected_bucket, selection, list, picked, pane, documents, created>>
                /\ Handled(i, {})
      /\ UNCHANGED <<objectTruth, bucket_tags, bucket_status, bucketTruth, stored>>

-----------------------------------------------------------------------------
(* The server *)

ServeListing(i) ==
  LET r == requests[i]
      keys == stored[r.of[1]] \intersect Inside[r.of[2]]
  IN  /\ r.part \in {"objects", "find"}
      /\ \E ok \in BOOLEAN :
           Served(i, ok, IF ~ok THEN {} ELSE IF r.part = "find" THEN keys \intersect r.value
                         ELSE keys)
      /\ UNCHANGED <<listVars, unsure>>

\* upload_file, delete_object and create_bucket.
ServeCommand(i) ==
  LET r == requests[i]
      b == r.of[1]
  IN  /\ r.part \in {"object", "bucket"}
      /\ \/ /\ stored' = CASE r.op = "upload" -> [stored EXCEPT ![b] = @ \union {r.of[2]}]
                           [] r.op = "delete" -> [stored EXCEPT ![b] = @ \ {r.of[2]}]
                           [] r.op = "create" -> stored
            /\ \E ok \in BOOLEAN : Served(i, ok, {}) /\ unsure' = (unsure \/ ~ok)
         \/ Served(i, FALSE, {}) /\ UNCHANGED <<stored, unsure>>
      /\ UNCHANGED <<list, picked>>

-----------------------------------------------------------------------------

ListEdit ==
  \/ "objects" \in follow /\ Refresh
  \/ "find" \in follow /\ (Find \/ ClearFind \/ \E f \in Filters : ObjectFilterChanged(f))
  \/ "find" \in follow /\ (SelectAllObjects \/ ClearObjectSelection)
  \/ "find" \in follow /\ \E k \in Keys : ToggleObjectSelected(k)
  \/ "object" \in follow /\ (DeleteObject \/ \E k \in Keys : Upload(k))
  \/ "bucket" \in follow /\ \E b \in Buckets : CreateBucket(b)

ListMessage(i) == ObjectsLoaded(i) \/ FindComplete(i) \/ UploadDone(i)

Select ==
  \/ \E b \in Buckets : SelectBucket(b)
  \/ \E prefix \in Folders : NavigatePrefix(prefix)
  \/ follow \intersect (ObjectParts \union {"objects"}) # {} /\ \E k \in Keys : SelectObject(k)
  \/ ClearSelection

EditSomething ==
  /\ Edits
  /\ UNCHANGED <<selected_bucket, selection>>
  /\ \/ ObjectEdit /\ UNCHANGED <<bucketVars, listVars>>
     \/ BucketEdit /\ UNCHANGED <<objectVars, listVars>>
     \/ ListEdit /\ UNCHANGED <<objectVars, bucketVars>>

Message(i) ==
  /\ \/ /\ UNCHANGED <<selected_bucket, selection>>
        /\ \/ ObjectMessage(i) /\ UNCHANGED <<bucketVars, listVars>>
           \/ BucketMessage(i) /\ UNCHANGED <<objectVars, listVars>>
           \/ ListMessage(i) /\ UNCHANGED <<objectVars, bucketVars>>
     \/ DeleteDone(i)
     \/ CreateBucketDone(i)
  /\ Handles

Serve(i) ==
  /\ requests[i].at = "sent"
  /\ UNCHANGED <<selected_bucket, selection, acts, restless, hasty, follow>>
  /\ \/ ServeObject(i) /\ UNCHANGED <<bucketVars, listVars>>
     \/ ServeBucket(i) /\ UNCHANGED <<objectVars, listVars>>
     \/ (ServeListing(i) \/ ServeCommand(i)) /\ UNCHANGED <<objectVars, bucketVars>>

Init ==
  /\ CommonInit
  /\ ObjectInit
  /\ BucketInit
  /\ list = NoList
  /\ stored = StoredAtFirst
  /\ picked = {}

Next ==
  \/ Select
  \/ EditSomething
  \/ \E i \in DOMAIN requests : Message(i) \/ Serve(i)

Spec == Init /\ [][Next]_vars
-----------------------------------------------------------------------------
(* Properties *)

Nothing == NoObject

\* The selection and everything the panel waits for: each flag that shows "Loading..." or
\* disables a button has a request under way whose message clears it, whatever was selected
\* in between, and a bucket's panel waits for nothing nobody asked for.  Only the panel of
\* a bucket just created does: its documents are reset and never loaded.
NeverStuck ==
  /\ pane.loading_detail => UnderWay("detail", "load")
  /\ pane.loading_tags => UnderWay("tags", "load") \/ UnderWay("tags", "save")
  /\ pane.loading_versions => \E op \in {"load", "delete", "restore"} : UnderWay("versions", op)
  /\ (pane.loading_object_inspect /\ selection.kind = "Object") =>
       \E i \in DOMAIN requests :
         requests[i].part = "inspect" /\ requests[i].of = SelectedObject
  /\ pane.healing # Nothing =>
       \E i \in DOMAIN requests : requests[i].part = "heal" /\ requests[i].of = pane.healing
  /\ \A kind \in Kinds : documents[kind].saving => UnderWay(kind, "save")
  /\ list.loading_objects => UnderWay("objects", "load")
  /\ list.finding => UnderWay("find", "load")
  /\ (BucketShown /\ ~created) =>
       /\ \A kind \in Kinds \intersect follow :
            documents[kind].loaded.is = "None" => UnderWay(kind, "load")
       /\ ("bucket_tags" \in follow /\ bucket_tags.is = "None") => UnderWay("bucket_tags", "load")
       /\ ("ftt" \in follow /\ bucket_status["ftt"].is = "None") => UnderWay("ftt", "load")

\* What the panel shows of an object is of the object selected, and what it shows of a
\* bucket of the bucket selected, as long as nothing was selected while requests were under
\* way.  Inspections and results of healing name their object and are shown for no other,
\* whatever was selected when.  A document is edited for the bucket it will be saved to,
\* whatever was selected, created or deleted since the editor was opened.
ShownIsSelected ==
  /\ \A kind \in Kinds : documents[kind].editing => opened[kind] = selected_bucket
  /\ selection.kind = "Object" =>
       /\ pane.object_inspect.of \in {SelectedObject, Nothing}
       /\ pane.heal_result \in {SelectedObject, Nothing}
       /\ ~restless =>
            /\ pane.loading_detail \/ pane.detail.of \in {SelectedObject, Nothing}
            /\ {pane.object_tags.of, pane.object_versions.of, pane.object_preview.of,
                pane.share_url.of} \subseteq {SelectedObject, Nothing}
  /\ (BucketShown /\ ~restless) =>
       /\ \A kind \in Kinds : documents[kind].loaded.of \in {Here, Nothing}
       /\ created \/ {bucket_tags.of, bucket_status["ftt"].of} \subseteq {Here, Nothing}

\* The user's tags of an object are on the server as they were added and removed, once
\* nothing is being saved: however quickly one change follows another, none undoes another.
\* Left out are selections made while requests were under way, which may bring the tags of
\* another object into the set that is put, and answers lost after a save took effect.
TagsAsWished ==
  (~restless /\ ~unsure /\ ~UnderWay("tags", "save")) => tags = wished

\* A version is deleted or restored for the object it was listed for.  The listing has the
\* rows of other keys too, and every object has a version "null".
VersionsAsChosen == ~restless => ~misdirected

\* When every request has been answered, none by silence, and the user has waited for the
\* answers before each selection and edit: the server has the documents and tags the user
\* left, the panel and the list show what the server has, and the selected keys were taken
\* from the list shown.  A bucket just created is excepted: the tags and the versioning
\* shown with it are those of the bucket before.
SettledIsTrue ==
  (requests = <<>> /\ ~restless /\ ~hasty /\ ~unsure) =>
    /\ texts = texts_wished
    /\ created \/ labels = labels_wished
    /\ BucketShown => \A kind \in Kinds :
         documents[kind].loaded.is = "Ok" =>
           documents[kind].loaded.value = texts[kind][selected_bucket]
    /\ (BucketShown /\ ~created) =>
         /\ bucket_tags.is = "Ok" => bucket_tags.value = labels[selected_bucket]
         /\ bucket_status["versioning"].is = "Ok" =>
              bucket_status["versioning"].value = statuses[selected_bucket]
    /\ list.objects.is = "Ok" =>
         list.objects.value = stored[selected_bucket] \intersect Inside[list.current_prefix]
    /\ picked \subseteq {HereIn(list.current_prefix)}

=============================================================================
