----------------------------- MODULE ObjectPanel -----------------------------
(***************************************************************************)
(* The panel of a selected object: its detail, tags, versions, preview,    *)
(* share link, shard inspection and healing.  Handlers of                  *)
(* src/src/app/handlers/detail.rs and admin.rs, buttons of                 *)
(* src/src/views/detail.rs.                                                *)
(*                                                                         *)
(* Data abstraction: a tag is its key, a version its number, with 0 for    *)
(* the id "null"; a version restored becomes the latest.  Delete markers   *)
(* are left out.                                                           *)
(***************************************************************************)
EXTENDS Panel, FiniteSetsExt

CONSTANTS
  Tags,       \* tags the user adds
  MAX_TAGS,   \* the limit of tags on an object
  TagsAtFirst, VersionsAtFirst

Objects == Buckets \X Keys

ASSUME TagsAssumption == MAX_TAGS \in Nat /\ TagsAtFirst \in [Objects -> SUBSET Tags]
ASSUME VersionsAssumption == VersionsAtFirst \in [Objects -> Seq(Nat)]

VARIABLES
  pane,         \* the fields of App about the selected object
  tags,         \* the tags of each object, on the server
  versions,     \* the versions of each object, on the server, the latest last
  wished,       \* history: the tags each object should have after the user's edits
  misdirected   \* history: a version of another object was deleted or restored

objectVars == <<pane, tags, versions, wished, misdirected>>
objectTruth == <<tags, versions, wished, misdirected>>

NoObject == Of(NoBucket, NoKey)

\* App::new.  healing is healing_target; healing_object says that there is one.
NoPane ==
  [detail |-> Empty, loading_detail |-> FALSE,
   object_tags |-> Empty, loading_tags |-> FALSE,
   object_versions |-> Empty, loading_versions |-> FALSE,
   object_preview |-> Empty, share_modal_open |-> FALSE, share_url |-> Empty,
   object_inspect |-> Empty, loading_object_inspect |-> FALSE,
   heal_confirm_target |-> NoObject, healing |-> NoObject, heal_result |-> NoObject]

\* clear_object_admin_state: all but the detail.
Cleared(p) == [NoPane EXCEPT !.detail = p.detail, !.loading_detail = p.loading_detail]

\* The part of handle_select_object about the panel.
Opened(p) ==
  [Cleared(p) EXCEPT !.loading_detail = "detail" \in follow,
     !.loading_tags = "tags" \in follow, !.loading_versions = "versions" \in follow,
     !.loading_object_inspect = "inspect" \in follow]

OpeningLoads(o) ==
  {Load(part, o) : part \in {"detail", "inspect", "tags", "versions", "preview"}}

\* detail_view: what it shows of an object once its detail is there.
Shown == selection.kind = "Object" /\ ~pane.loading_detail /\ pane.detail.is = "Ok"

-----------------------------------------------------------------------------
(* Tags *)

TagsShown == Shown /\ ~pane.loading_tags /\ pane.object_tags.is = "Ok"

\* The whole set is put, the one shown with the change made.
SaveTags(new) ==
  /\ Start({Request("tags", "save", SelectedObject, new)})
  /\ pane' = [pane EXCEPT !.loading_tags = TRUE]

\* Mutant: the new tag is put, as if that left the others.
AddTagAlone(t) ==
  /\ TagsShown
  /\ Cardinality(pane.object_tags.value) < MAX_TAGS
  /\ SaveTags({t})
  /\ wished' = [wished EXCEPT ![SelectedObject] = @ \union {t}]
  /\ UNCHANGED <<tags, versions, misdirected>>

AddTag(t) ==
  /\ TagsShown
  /\ Cardinality(pane.object_tags.value) < MAX_TAGS
  /\ SaveTags(pane.object_tags.value \union {t})
  /\ wished' = [wished EXCEPT ![SelectedObject] = @ \union {t}]
  /\ UNCHANGED <<tags, versions, misdirected>>

RemoveTag(t) ==
  /\ TagsShown
  /\ t \in pane.object_tags.value
  /\ SaveTags(pane.object_tags.value \ {t})
  /\ wished' = [wished EXCEPT ![SelectedObject] = @ \ {t}]
  /\ UNCHANGED <<tags, versions, misdirected>>

\* Mutant: a failed save leaves the tags loading.
TagsSavedStuck(i) ==
  /\ Delivered(i, "tags", "save")
  /\ IF requests[i].ok /\ selection.kind = "Object"
       THEN Handled(i, {Load("tags", SelectedObject)}) /\ UNCHANGED pane
       ELSE Handled(i, {}) /\ UNCHANGED pane
  /\ UNCHANGED objectTruth

\* handle_tags_saved: the tags of what is selected now are loaded again.
TagsSaved(i) ==
  /\ Delivered(i, "tags", "save")
  /\ IF requests[i].ok /\ selection.kind = "Object"
       THEN Handled(i, {Load("tags", SelectedObject)}) /\ UNCHANGED pane
       ELSE Handled(i, {}) /\ pane' = [pane EXCEPT !.loading_tags = FALSE]
  /\ UNCHANGED objectTruth

-----------------------------------------------------------------------------
(* Versions *)

\* Mutant: the rows of all keys listed are shown.
RowsUnfiltered == IF Shown /\ ~pane.loading_versions /\ pane.object_versions.is = "Ok"
                    THEN pane.object_versions.value ELSE {}

\* The listing is by prefix: the view keeps the rows of the selected key.
Rows == IF Shown /\ ~pane.loading_versions /\ pane.object_versions.is = "Ok"
          THEN {row \in pane.object_versions.value : row.of[2] = selection.key} ELSE {}

\* A button of a row sends its version id, for the selected object.
OnVersion(row, op) ==
  /\ Start({Request("versions", op, SelectedObject, row.id)})
  /\ pane' = [pane EXCEPT !.loading_versions = TRUE]
  /\ misdirected' = (misdirected \/ row.of # SelectedObject)
  /\ UNCHANGED <<tags, versions, wished>>

DeleteVersion(row)  == row \in Rows /\ OnVersion(row, "delete")
RestoreVersion(row) == row \in Rows /\ ~row.is_latest /\ OnVersion(row, "restore")

\* handle_version_deleted and handle_version_restored: the second loads the detail too.
VersionDone(i, op, loads) ==
  /\ Delivered(i, "versions", op)
  /\ IF requests[i].ok /\ selection.kind = "Object"
       THEN Handled(i, loads) /\ UNCHANGED pane
       ELSE Handled(i, {}) /\ pane' = [pane EXCEPT !.loading_versions = FALSE]
  /\ UNCHANGED objectTruth

VersionDeleted(i)  == VersionDone(i, "delete", {Load("versions", SelectedObject)})
VersionRestored(i) == VersionDone(i, "restore", {Load("versions", SelectedObject),
                                                 Load("detail", SelectedObject)})

-----------------------------------------------------------------------------
(* Sharing, inspection and healing *)

OpenShareModal ==
  /\ Shown
  /\ pane' = [pane EXCEPT !.share_modal_open = TRUE, !.share_url = Empty]
  /\ UNCHANGED <<requests, objectTruth>>

CloseShareModal ==
  /\ pane.share_modal_open
  /\ pane' = [pane EXCEPT !.share_modal_open = FALSE, !.share_url = Empty]
  /\ UNCHANGED <<requests, objectTruth>>

GenerateShareUrl ==
  /\ pane.share_modal_open
  /\ selection.kind = "Object"
  /\ Start({Load("share", SelectedObject)})
  /\ UNCHANGED <<pane, objectTruth>>

RefreshObjectInspect ==
  /\ Shown
  /\ ~pane.loading_object_inspect
  /\ pane' = [pane EXCEPT !.loading_object_inspect = TRUE]
  /\ Start({Load("inspect", SelectedObject)})
  /\ UNCHANGED objectTruth

OpenHealConfirm ==
  /\ Shown
  /\ pane.healing = NoObject
  /\ pane' = [pane EXCEPT !.heal_confirm_target = SelectedObject]
  /\ UNCHANGED <<requests, objectTruth>>

CancelHealConfirm ==
  /\ pane.heal_confirm_target # NoObject
  /\ pane' = [pane EXCEPT !.heal_confirm_target = NoObject]
  /\ UNCHANGED <<requests, objectTruth>>

ConfirmHealObject ==
  LET target == pane.heal_confirm_target
  IN  /\ target # NoObject
      /\ pane' = [pane EXCEPT !.heal_confirm_target = NoObject, !.healing = target,
                              !.heal_result = target]
      /\ Start({Request("heal", "heal", target, {})})
      /\ UNCHANGED objectTruth

\* Mutant: the result is shown whatever is selected.
HealObjectFinishedUnchecked(i) ==
  LET o == requests[i].of
  IN  /\ Delivered(i, "heal", "heal")
      /\ pane' = [pane EXCEPT !.healing = IF @ = o THEN NoObject ELSE @,
                    !.heal_result = o,
                    !.loading_object_inspect = (requests[i].ok /\ "inspect" \in follow) \/ @]
      /\ Handled(i, IF requests[i].ok THEN {Load("inspect", o)} ELSE {})
      /\ UNCHANGED objectTruth

\* The message names its object: a result of another one is dropped.
HealObjectFinished(i) ==
  LET o      == requests[i].of
      healed == requests[i].ok /\ o = SelectedObject
  IN  /\ Delivered(i, "heal", "heal")
      /\ pane' = [pane EXCEPT !.healing = IF @ = o THEN NoObject ELSE @,
                    !.heal_result = IF o = SelectedObject THEN o ELSE @,
                    !.loading_object_inspect = (healed /\ "inspect" \in follow) \/ @]
      /\ Handled(i, IF healed THEN {Load("inspect", o)} ELSE {})
      /\ UNCHANGED objectTruth

\* So does the inspection's.
ObjectInspectLoaded(i) ==
  /\ Delivered(i, "inspect", "load")
  /\ pane' = IF requests[i].of # SelectedObject THEN pane
             ELSE [pane EXCEPT !.loading_object_inspect = FALSE,
                               !.object_inspect = Answer(requests[i])]
  /\ Handled(i, {})
  /\ UNCHANGED objectTruth

-----------------------------------------------------------------------------
(* Answers that do not name their object *)

LoadedInto(p, part, answer) ==
  CASE part = "detail"   -> [p EXCEPT !.detail = answer, !.loading_detail = FALSE]
    [] part = "tags"     -> [p EXCEPT !.object_tags = answer, !.loading_tags = FALSE]
    [] part = "versions" -> [p EXCEPT !.object_versions = answer, !.loading_versions = FALSE]
    [] part = "preview"  -> [p EXCEPT !.object_preview = answer]
    [] part = "share"    -> IF answer.is = "Ok" THEN [p EXCEPT !.share_url = answer] ELSE p

\* handle_detail_loaded, handle_tags_loaded, handle_versions_loaded,
\* handle_preview_loaded and handle_share_url_generated.
ObjectPartLoaded(i) ==
  \E part \in {"detail", "tags", "versions", "preview", "share"} :
    /\ Delivered(i, part, "load")
    /\ pane' = LoadedInto(pane, part, Answer(requests[i]))
    /\ Handled(i, {})
    /\ UNCHANGED objectTruth

-----------------------------------------------------------------------------
(* The server *)

\* The rows list_object_versions returns for a key: those of every key it begins.
VersionRows(o) ==
  UNION {{[of |-> Of(o[1], k), id |-> versions[Of(o[1], k)][n],
           is_latest |-> n = Len(versions[Of(o[1], k)])] :
            n \in DOMAIN versions[Of(o[1], k)]} : k \in Below[o[2]]}

ServeLoad(i) ==
  LET r == requests[i]
  IN  /\ r.part \in ObjectParts \ {"heal"}
      /\ r.op = "load"
      /\ \E ok \in BOOLEAN :
           Served(i, ok, IF ~ok THEN {}
                         ELSE CASE r.part = "tags" -> tags[r.of]
                                [] r.part = "versions" -> VersionRows(r.of)
                                [] OTHER -> {})
      /\ UNCHANGED <<objectVars, unsure>>

\* put_object_tags, or delete_object_tags for an empty set.
ServeTags(i) ==
  LET r == requests[i]
  IN  /\ r.part = "tags"
      /\ r.op = "save"
      /\ \/ /\ tags' = [tags EXCEPT ![r.of] = r.value]
            /\ \E ok \in BOOLEAN : Served(i, ok, {}) /\ unsure' = (unsure \/ ~ok)
            /\ UNCHANGED wished
         \/ /\ Served(i, FALSE, {})
            /\ wished' = [wished EXCEPT ![r.of] = tags[r.of]]
            /\ UNCHANGED <<tags, unsure>>
      /\ UNCHANGED <<pane, versions, misdirected>>

\* delete_object_version, and get_object_version with the put_object that follows it.
ServeVersion(i) ==
  LET r  == requests[i]
      vs == versions[r.of]
  IN  /\ r.part = "versions"
      /\ r.op \in {"delete", "restore"}
      /\ \/ /\ r.op = "restore" => Contains(vs, r.value)
            /\ versions' = [versions EXCEPT ![r.of] =
                 IF r.op = "delete" THEN SelectSeq(vs, LAMBDA v : v # r.value)
                 ELSE Append(vs, 1 + Max({0} \union ToSet(vs)))]
            /\ \E ok \in BOOLEAN : Served(i, ok, {}) /\ unsure' = (unsure \/ ~ok)
         \/ Served(i, FALSE, {}) /\ UNCHANGED <<versions, unsure>>
      /\ UNCHANGED <<pane, tags, wished, misdirected>>

ServeHeal(i) ==
  /\ requests[i].part = "heal"
  /\ \E ok \in BOOLEAN : Served(i, ok, {})
  /\ UNCHANGED <<objectVars, unsure>>

-----------------------------------------------------------------------------

ObjectEdit ==
  \/ \E t \in Tags : AddTag(t) \/ RemoveTag(t)
  \/ \E row \in Rows : DeleteVersion(row) \/ RestoreVersion(row)
  \/ "share" \in follow /\ (OpenShareModal \/ CloseShareModal \/ GenerateShareUrl)
  \/ "inspect" \in follow /\ RefreshObjectInspect
  \/ "heal" \in follow /\ (OpenHealConfirm \/ CancelHealConfirm \/ ConfirmHealObject)

ObjectMessage(i) ==
  \/ TagsSaved(i) \/ VersionDeleted(i) \/ VersionRestored(i)
  \/ HealObjectFinished(i) \/ ObjectInspectLoaded(i) \/ ObjectPartLoaded(i)

ServeObject(i) == ServeLoad(i) \/ ServeTags(i) \/ ServeVersion(i) \/ ServeHeal(i)

ObjectInit ==
  /\ pane = NoPane
  /\ tags = TagsAtFirst
  /\ versions = VersionsAtFirst
  /\ wished = TagsAtFirst
  /\ misdirected = FALSE
=============================================================================
