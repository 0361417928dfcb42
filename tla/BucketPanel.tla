----------------------------- MODULE BucketPanel -----------------------------
(***************************************************************************)
(* The panel of a selected bucket: its policy and lifecycle with their     *)
(* editors, its tags, versioning and fault tolerance.  Handlers of         *)
(* src/src/app/handlers/detail.rs, BucketDocumentState of                  *)
(* src/src/app/types.rs, buttons of src/src/views/detail.rs.               *)
(*                                                                         *)
(* Data abstraction: a document is one of a few texts.  Saving normalises  *)
(* it, as JSON or XML read and printed again.                              *)
(***************************************************************************)
EXTENDS Panel

CONSTANTS
  Texts,        \* what an editor may hold
  NoText,       \* the empty text
  Normal,       \* valid texts and what they are normalised to
  BucketTags,   \* tags the user adds
  PoliciesAtFirst, BucketTagsAtFirst

ASSUME TextsAssumption ==
  /\ NoText \in Texts
  /\ \E valid \in SUBSET (Texts \ {NoText}) : Normal \in [valid -> valid]
  /\ \A t \in DOMAIN Normal : Normal[Normal[t]] = Normal[t]
ASSUME BucketsAssumption ==
  /\ PoliciesAtFirst \in [Buckets -> {Normal[t] : t \in DOMAIN Normal} \union {NoText}]
  /\ BucketTagsAtFirst \in [Buckets -> SUBSET BucketTags]

VARIABLES
  documents,      \* App.bucket_policy and bucket_lifecycle
  bucket_tags,    \* App.bucket_tags
  bucket_status,  \* App.bucket_versioning and bucket_ftt
  texts,          \* the documents of each bucket, on the server
  labels,         \* the tags of each bucket, on the server
  statuses,       \* the versioning of each bucket, on the server
  opened,         \* history: the bucket selected when an editor was opened
  texts_wished,   \* history: the documents as the user saved and deleted them
  labels_wished,  \* history: the tags as the user added and removed them
  created         \* history: a bucket was created and selected

bucketTruth == <<texts, labels, statuses, opened, texts_wished, labels_wished>>
bucketVars  == <<documents, bucket_tags, bucket_status, bucketTruth, created>>

-----------------------------------------------------------------------------
(* BucketDocumentState *)

NoDocument == [loaded |-> Empty, editor |-> NoText, editing |-> FALSE, saving |-> FALSE,
               error |-> FALSE]

LoadedText(d) == IF d.loaded.is = "Ok" THEN d.loaded.value ELSE NoText

ResetEditor(d, text) == [d EXCEPT !.editor = text, !.editing = FALSE, !.saving = FALSE,
                                  !.error = FALSE]
CancelEditing(d)     == ResetEditor(d, LoadedText(d))
StartEditing(d)      == [ResetEditor(d, LoadedText(d)) EXCEPT !.editing = TRUE]

\* A document that arrives does not touch the text being edited.  The answer to a load
\* is Ok(Some(text)), Ok(None), here Ok of the empty text, or an error.
SetLoaded(d, loaded) ==
  [d EXCEPT !.loaded = loaded, !.saving = FALSE, !.error = FALSE,
            !.editor = IF d.editing THEN @
                       ELSE IF loaded.is = "Ok" THEN loaded.value ELSE NoText]

\* reset_bucket_document_states.
ResetDocuments == documents' = [kind \in Kinds |-> NoDocument]

BucketShown == selection.kind = "Bucket"
Here        == Of(selected_bucket, NoKey)
Update(kind, d) == documents' = [documents EXCEPT ![kind] = d]

-----------------------------------------------------------------------------
(* Documents *)

\* Opening one editor closes the other.
OpenDocumentEditor(kind) ==
  /\ BucketShown
  /\ ~documents[kind].editing
  /\ documents[kind].loaded.is # "None"
  /\ documents' = [k \in Kinds |-> IF k = kind THEN StartEditing(documents[k])
                                   ELSE CancelEditing(documents[k])]
  /\ opened' = [opened EXCEPT ![kind] = selected_bucket]
  /\ UNCHANGED <<requests, bucket_tags, bucket_status, texts, labels, statuses,
                 texts_wished, labels_wished, created>>

CancelDocumentEditor(kind) ==
  /\ BucketShown
  /\ documents[kind].editing
  /\ Update(kind, CancelEditing(documents[kind]))
  /\ UNCHANGED <<requests, bucket_tags, bucket_status, bucketTruth, created>>

DocumentEdited(kind, text) ==
  /\ BucketShown
  /\ documents[kind].editing
  /\ Update(kind, [documents[kind] EXCEPT !.editor = text])
  /\ UNCHANGED <<requests, bucket_tags, bucket_status, bucketTruth, created>>

\* An empty or invalid text is refused, a valid one normalised and put to the bucket
\* that is selected now.
SaveDocument(kind) ==
  LET d == documents[kind]
  IN  /\ BucketShown
      /\ d.editing /\ ~d.saving
      /\ IF d.editor \in DOMAIN Normal
           THEN LET text == Normal[d.editor]
                IN  /\ Update(kind, [d EXCEPT !.error = FALSE, !.saving = TRUE, !.editor = text])
                    /\ Start({Request(kind, "save", Here, text)})
                    /\ texts_wished' = [texts_wished EXCEPT ![kind][selected_bucket] = text]
           ELSE /\ Update(kind, [d EXCEPT !.error = TRUE])
                /\ UNCHANGED <<requests, texts_wished>>
      /\ UNCHANGED <<bucket_tags, bucket_status, texts, labels, statuses, opened,
                     labels_wished, created>>

\* Mutant: the document is not loaded again after it was saved.
DocumentSavedUnread(kind, i) ==
  /\ Delivered(i, kind, "save")
  /\ Update(kind, IF requests[i].ok THEN CancelEditing(documents[kind])
                  ELSE [documents[kind] EXCEPT !.saving = FALSE, !.error = TRUE])
  /\ Handled(i, {})
  /\ UNCHANGED <<bucket_tags, bucket_status, bucketTruth, created>>

\* The editor of the bucket that is selected now is closed, and its document loaded.
DocumentSaved(kind, i) ==
  /\ Delivered(i, kind, "save")
  /\ IF requests[i].ok
       THEN /\ Update(kind, CancelEditing(documents[kind]))
            /\ Handled(i, {Load(kind, Here)})
       ELSE /\ Update(kind, [documents[kind] EXCEPT !.saving = FALSE, !.error = TRUE])
            /\ Handled(i, {})
  /\ UNCHANGED <<bucket_tags, bucket_status, bucketTruth, created>>

DeleteDocument(kind) ==
  /\ BucketShown
  /\ ~documents[kind].editing
  /\ LoadedText(documents[kind]) # NoText
  /\ Start({Request(kind, "delete", Here, NoText)})
  /\ texts_wished' = [texts_wished EXCEPT ![kind][selected_bucket] = NoText]
  /\ UNCHANGED <<documents, bucket_tags, bucket_status, texts, labels, statuses, opened,
                 labels_wished, created>>

DocumentDeleted(kind, i) ==
  /\ Delivered(i, kind, "delete")
  /\ Update(kind, IF requests[i].ok
                    THEN SetLoaded(documents[kind], [Answer(requests[i]) EXCEPT !.value = NoText])
                    ELSE [documents[kind] EXCEPT !.saving = FALSE, !.error = TRUE])
  /\ Handled(i, {})
  /\ UNCHANGED <<bucket_tags, bucket_status, bucketTruth, created>>

DocumentLoaded(kind, i) ==
  /\ Delivered(i, kind, "load")
  /\ Update(kind, SetLoaded(documents[kind], Answer(requests[i])))
  /\ Handled(i, {})
  /\ UNCHANGED <<bucket_tags, bucket_status, bucketTruth, created>>

-----------------------------------------------------------------------------
(* Tags and versioning *)

\* The whole set is put, the one shown with the change made.  Nothing keeps the user
\* from making another change before the answer.
SaveBucketTags(new) ==
  /\ Start({Request("bucket_tags", "save", Here, new)})
  /\ UNCHANGED <<documents, bucket_tags, bucket_status, texts, labels, statuses, opened,
                 texts_wished, created>>

AddBucketTag(t) ==
  /\ BucketShown
  /\ bucket_tags.is = "Ok"
  /\ SaveBucketTags(bucket_tags.value \union {t})
  /\ labels_wished' = [labels_wished EXCEPT ![selected_bucket] = @ \union {t}]

RemoveBucketTag(t) ==
  /\ BucketShown
  /\ bucket_tags.is = "Ok"
  /\ t \in bucket_tags.value
  /\ SaveBucketTags(bucket_tags.value \ {t})
  /\ labels_wished' = [labels_wished EXCEPT ![selected_bucket] = @ \ {t}]

BucketTagsSaved(i) ==
  /\ Delivered(i, "bucket_tags", "save")
  /\ Handled(i, IF requests[i].ok THEN {Load("bucket_tags", Here)} ELSE {})
  /\ UNCHANGED bucketVars

BucketTagsLoaded(i) ==
  /\ Delivered(i, "bucket_tags", "load")
  /\ bucket_tags' = Answer(requests[i])
  /\ Handled(i, {})
  /\ UNCHANGED <<documents, bucket_status, bucketTruth, created>>

\* The button the view offers for the status it shows; none for an error.
ToggleVersioning(status) ==
  LET shown == bucket_status["versioning"]
  IN  /\ BucketShown
      /\ shown.is # "Err"
      /\ status = IF shown.is = "Ok" /\ shown.value = "Enabled" THEN "Suspended" ELSE "Enabled"
      /\ Start({Request("versioning", "save", Here, status)})
      /\ UNCHANGED bucketVars

VersioningToggled(i) ==
  /\ Delivered(i, "versioning", "save")
  /\ Handled(i, IF requests[i].ok THEN {Load("versioning", Here)} ELSE {})
  /\ UNCHANGED bucketVars

\* handle_versioning_status_loaded and handle_bucket_ftt_loaded.
BucketStatusLoaded(i) ==
  \E part \in {"versioning", "ftt"} :
    /\ Delivered(i, part, "load")
    /\ bucket_status' = [bucket_status EXCEPT ![part] = Answer(requests[i])]
    /\ Handled(i, {})
    /\ UNCHANGED <<documents, bucket_tags, bucketTruth, created>>

-----------------------------------------------------------------------------
(* The server *)

ServeBucketLoad(i) ==
  LET r == requests[i]
      b == r.of[1]
  IN  /\ r.part \in BucketParts
      /\ r.op = "load"
      /\ \E ok \in BOOLEAN :
           Served(i, ok, IF ~ok THEN {}
                         ELSE CASE r.part \in Kinds -> texts[r.part][b]
                                [] r.part = "bucket_tags" -> labels[b]
                                [] r.part = "versioning" -> statuses[b]
                                [] OTHER -> {})
      /\ UNCHANGED <<bucketVars, unsure>>

\* put_bucket_policy, delete_bucket_policy and those of the lifecycle.
ServeDocument(i) ==
  LET r == requests[i]
  IN  /\ r.part \in Kinds
      /\ r.op \in {"save", "delete"}
      /\ \/ /\ texts' = [texts EXCEPT ![r.part][r.of[1]] = r.value]
            /\ \E ok \in BOOLEAN : Served(i, ok, {}) /\ unsure' = (unsure \/ ~ok)
            /\ UNCHANGED texts_wished
         \/ /\ Served(i, FALSE, {})
            /\ texts_wished' = [texts_wished EXCEPT ![r.part][r.of[1]] = texts[r.part][r.of[1]]]
            /\ UNCHANGED <<texts, unsure>>
      /\ UNCHANGED <<documents, bucket_tags, bucket_status, labels, statuses, opened,
                     labels_wished, created>>

\* put_bucket_tags, or delete_bucket_tags for an empty set.
ServeBucketTags(i) ==
  LET r == requests[i]
  IN  /\ r.part = "bucket_tags"
      /\ r.op = "save"
      /\ \/ /\ labels' = [labels EXCEPT ![r.of[1]] = r.value]
            /\ \E ok \in BOOLEAN : Served(i, ok, {}) /\ unsure' = (unsure \/ ~ok)
            /\ UNCHANGED labels_wished
         \/ /\ Served(i, FALSE, {})
            /\ labels_wished' = [labels_wished EXCEPT ![r.of[1]] = labels[r.of[1]]]
            /\ UNCHANGED <<labels, unsure>>
      /\ UNCHANGED <<documents, bucket_tags, bucket_status, texts, statuses, opened,
                     texts_wished, created>>

\* put_bucket_versioning.
ServeVersioning(i) ==
  LET r == requests[i]
  IN  /\ r.part = "versioning"
      /\ r.op = "save"
      /\ \/ /\ statuses' = [statuses EXCEPT ![r.of[1]] = r.value]
            /\ \E ok \in BOOLEAN : Served(i, ok, {}) /\ unsure' = (unsure \/ ~ok)
         \/ Served(i, FALSE, {}) /\ UNCHANGED <<statuses, unsure>>
      /\ UNCHANGED <<documents, bucket_tags, bucket_status, texts, labels, opened,
                     texts_wished, labels_wished, created>>

-----------------------------------------------------------------------------

BucketEdit ==
  \/ \E kind \in Kinds \intersect follow :
       \/ OpenDocumentEditor(kind) \/ CancelDocumentEditor(kind)
       \/ SaveDocument(kind) \/ DeleteDocument(kind)
       \/ \E text \in Texts : DocumentEdited(kind, text)
  \/ \E t \in BucketTags : AddBucketTag(t) \/ RemoveBucketTag(t)
  \/ "versioning" \in follow /\ \E s \in {"Enabled", "Suspended"} : ToggleVersioning(s)

BucketMessage(i) ==
  \/ \E kind \in Kinds : \/ DocumentLoaded(kind, i) \/ DocumentSaved(kind, i)
                         \/ DocumentDeleted(kind, i)
  \/ BucketTagsSaved(i) \/ BucketTagsLoaded(i)
  \/ VersioningToggled(i) \/ BucketStatusLoaded(i)

ServeBucket(i) ==
  ServeBucketLoad(i) \/ ServeDocument(i) \/ ServeBucketTags(i) \/ ServeVersioning(i)

BucketInit ==
  /\ documents = [kind \in Kinds |-> NoDocument]
  /\ bucket_tags = Empty
  /\ bucket_status = [part \in {"versioning", "ftt"} |-> Empty]
  /\ texts = [kind \in Kinds |-> PoliciesAtFirst]
  /\ labels = BucketTagsAtFirst
  /\ statuses = [b \in Buckets |-> "Disabled"]
  /\ opened = [kind \in Kinds |-> NoBucket]
  /\ texts_wished = texts
  /\ labels_wished = labels
  /\ created = FALSE
=============================================================================
