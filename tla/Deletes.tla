------------------------------ MODULE Deletes ------------------------------
(***************************************************************************)
(* The two dialogs that delete in batches: the selected objects (bulk) and *)
(* everything below a prefix.  src/src/app/handlers/delete.rs lines 11-145 *)
(* and 331-397; the request is delete_objects of src/src/s3/client.rs.     *)
(*                                                                         *)
(* A dialog sends one batch at a time, and the answer to a batch sends the *)
(* next one.  Neither an answer nor a listing says which dialog asked for  *)
(* it, the widgets below a dialog stay clickable, and each batch is sent   *)
(* by the client of its moment.                                            *)
(*                                                                         *)
(* Data abstraction: one bucket, of the same name on every server.  A      *)
(* prefix is the set of keys below it.                                     *)
(***************************************************************************)
EXTENDS Integers, Sequences, FiniteSets, SequencesExt

CONSTANTS
  Servers,    \* S3 servers
  Home,       \* the server the application was started with
  Keys,       \* objects of the bucket
  PrefixNames, \* prefixes one can delete
  Under,      \* the keys below a prefix
  Full,       \* what the servers hold at first
  BATCH,      \* keys in one request, 1000 in the code
  MaxOpens    \* bound: times a dialog is opened

Kinds    == {"bulk", "prefix"}
NoPrefix == "no prefix"

ASSUME ServersAssumption == Home \in Servers /\ Full \subseteq Servers \X Keys
ASSUME KeysAssumption == IsFiniteSet(Keys)
ASSUME PrefixesAssumption == NoPrefix \notin PrefixNames /\ Under \in [PrefixNames -> SUBSET Keys]
ASSUME BoundsAssumption == BATCH \in Nat \ {0} /\ MaxOpens \in Nat

VARIABLES
  client,         \* App.client: the server it talks to
  selected_keys,  \* App.selected_keys
  modals,         \* App.bulk_delete and App.prefix_delete
  lists,          \* listings whose PrefixDeleteListLoaded has not been handled
  batches,        \* requests whose BatchFinished has not been handled
  store,          \* the keys each server holds
  opens,          \* history: dialogs opened so far
  shown,          \* history: the server the keys of a dialog were read from
  reviewed,       \* history: what the user has confirmed in a dialog
  sent,           \* history: the keys a dialog has sent, in order
  mixed           \* history: a task outlived its dialog, or a dialog its connection

tasks   == <<lists, batches>>
history == <<opens, shown, reviewed, sent, mixed>>
vars    == <<client, selected_keys, modals, tasks, store, history>>

-----------------------------------------------------------------------------
(* Types *)

Modal(prefix, keys, loading) ==
  [open |-> TRUE, prefix |-> prefix, keys |-> keys, loading |-> loading,
   deleted |-> 0, next_index |-> 0, deleting |-> FALSE]

NoModal == [Modal(NoPrefix, <<>>, FALSE) EXCEPT !.open = FALSE]

\* BulkDeleteState and PrefixDeleteState; total is the number of the keys.
ModalState ==
  [open: BOOLEAN, prefix: PrefixNames \union {NoPrefix}, keys: Seq(Keys),
   loading: BOOLEAN, deleted: Nat, next_index: Nat, deleting: BOOLEAN]

\* A listing: what its task captured, and what the server has answered.
List == [nr: Nat, prefix: PrefixNames, server: Servers,
         status: {"sent", "ok", "failed"}, keys: Seq(Keys)]

\* A request: what its task captured, what the server has answered, and (history)
\* the dialog's number and whether the user had confirmed all of it.
Batch == [kind: Kinds, nr: Nat, prefix: PrefixNames \union {NoPrefix}, keys: SUBSET Keys,
          server: Servers, status: {"sent", "ok", "failed"}, count: Nat,
          confirmed: BOOLEAN]

-----------------------------------------------------------------------------
(* Sending a batch *)

Smaller(a, b) == IF a < b THEN a ELSE b

\* Mutant: a batch starts with the last key of the one before.
BatchStartOverlaps(m) == IF m.next_index = 0 THEN 1 ELSE m.next_index

BatchStart(m) == m.next_index + 1
BatchEnd(m)   == Smaller(m.next_index + BATCH, Len(m.keys))

\* Mutant: the flag stays when the list is worked through.
FinishedStaysOpen(k, m, rest) ==
  /\ modals' = [modals EXCEPT ![k] = [m EXCEPT !.deleting = TRUE]]
  /\ batches' = rest
  /\ selected_keys' = {}
  /\ UNCHANGED <<sent>>

\* Nothing is left to send: the dialog goes, and whatever is selected now with it.
Finished(k, m, rest) ==
  /\ modals' = [modals EXCEPT ![k] = NoModal]
  /\ batches' = rest
  /\ selected_keys' = {}
  /\ UNCHANGED <<sent>>

\* cmd_process_next_bulk_delete_step and cmd_process_next_prefix_delete_batch, for
\* the dialog m of kind k with the requests rest: next_index moves before the answer.
\* confirmed is what the user has agreed to by now.
ProcessNext(k, m, rest, confirmed) ==
  IF m.next_index >= Len(m.keys) THEN Finished(k, m, rest)
  ELSE LET batch == SubSeq(m.keys, BatchStart(m), BatchEnd(m))
           keys  == {batch[i] : i \in 1 .. Len(batch)}
       IN /\ modals' = [modals EXCEPT ![k] =
                          [m EXCEPT !.deleting = TRUE, !.next_index = BatchEnd(m)]]
          /\ batches' = rest \union
               {[kind |-> k, nr |-> opens, prefix |-> m.prefix, keys |-> keys,
                 server |-> client, status |-> "sent", count |-> 0,
                 confirmed |-> {client} \X keys \subseteq confirmed]}
          /\ sent' = [sent EXCEPT ![k] = IF mixed[k] THEN <<>> ELSE @ \o batch]
          /\ UNCHANGED selected_keys

-----------------------------------------------------------------------------
(* The dialogs *)

Init ==
  /\ client = Home
  /\ selected_keys = {}
  /\ modals = [k \in Kinds |-> NoModal]
  /\ lists = {}
  /\ batches = {}
  /\ store = [s \in Servers |-> {key \in Keys : <<s, key>> \in Full}]
  /\ opens = 0
  /\ shown = [k \in Kinds |-> Home]
  /\ reviewed = [k \in Kinds |-> {}]
  /\ sent = [k \in Kinds |-> <<>>]
  /\ mixed = [k \in Kinds |-> FALSE]

\* handle_connect_to drops the selection and leaves the dialogs alone.
ConnectTo(s) ==
  /\ s # client
  /\ client' = s
  /\ selected_keys' = {}
  /\ mixed' = [k \in Kinds |-> mixed[k] \/ modals[k].open]
  /\ UNCHANGED <<modals, tasks, store, opens, shown, reviewed, sent>>

\* A row of the listing is ticked; it may be stale.  (Bound: not after the last dialog.)
ToggleObjectSelected(key) ==
  /\ opens < MaxOpens
  /\ selected_keys' = (selected_keys \ {key}) \union ({key} \ selected_keys)
  /\ UNCHANGED <<client, modals, tasks, store, history>>

\* The selection is dropped by Clear sel, or by another bucket, prefix or search.
ClearObjectSelection ==
  /\ selected_keys' = {}
  /\ UNCHANGED <<client, modals, tasks, store, history>>

Opened(k, modal) ==
  /\ opens < MaxOpens
  /\ opens' = opens + 1
  /\ modals' = [modals EXCEPT ![k] = modal]
  /\ shown' = [shown EXCEPT ![k] = client]
  /\ reviewed' = [reviewed EXCEPT ![k] = {}]
  /\ sent' = [sent EXCEPT ![k] = <<>>]
  /\ mixed' = [mixed EXCEPT ![k] =
       @ \/ (\E b \in batches : b.kind = k) \/ (k = "prefix" /\ lists # {})]
  /\ UNCHANGED <<client, selected_keys, batches, store>>

\* The selection is a hash set: its keys come in any order.
OpenBulkDeleteModal ==
  /\ selected_keys # {}
  /\ \E keys \in SetToSeqs(selected_keys) :
       Opened("bulk", Modal(NoPrefix, keys, FALSE))
  /\ UNCHANGED lists

OpenPrefixDeleteModal(p) ==
  /\ Opened("prefix", Modal(p, <<>>, TRUE))
  /\ lists' = lists \union {[nr |-> opens, prefix |-> p, server |-> client,
                             status |-> "sent", keys |-> <<>>]}

\* Cancel is disabled while deleting.
CloseDeleteModal(k) ==
  /\ modals[k].open
  /\ ~modals[k].deleting
  /\ modals' = [modals EXCEPT ![k] = NoModal]
  /\ UNCHANGED <<client, selected_keys, tasks, store, history>>

\* The Delete button: while loading, or without keys, a prefix has none.
ConfirmDelete(k) ==
  LET m == modals[k]
      agreed == reviewed[k] \union ({shown[k]} \X {m.keys[i] : i \in 1 .. Len(m.keys)})
  IN /\ m.open
     /\ ~m.deleting
     /\ k = "prefix" => ~m.loading /\ m.keys # <<>>
     /\ reviewed' = [reviewed EXCEPT ![k] = agreed]
     /\ ProcessNext(k, m, batches, agreed)
     /\ UNCHANGED <<client, lists, store, opens, shown, mixed>>

-----------------------------------------------------------------------------
(* The server *)

\* list_objects_recursive reads all pages, or fails.
ServerLists(l) ==
  /\ l.status = "sent"
  /\ \E status \in {"ok", "failed"} :
       lists' = (lists \ {l}) \union
         {[l EXCEPT !.status = status,
                    !.keys = IF status = "ok"
                               THEN SetToSeq(store[l.server] \intersect Under[l.prefix])
                               ELSE <<>>]}
  /\ UNCHANGED <<client, selected_keys, modals, batches, store, history>>

\* delete_objects: some keys may be refused, and the answer may be lost.
ServerDeletes(b) ==
  /\ b.status = "sent"
  /\ \E failed \in SUBSET b.keys, status \in {"ok", "failed"} :
       /\ store' = [store EXCEPT ![b.server] = @ \ (b.keys \ failed)]
       /\ batches' = (batches \ {b}) \union
            {[b EXCEPT !.status = status,
                       !.count = IF status = "ok" THEN Cardinality(b.keys \ failed)
                                                  ELSE 0]}
  /\ UNCHANGED <<client, selected_keys, modals, lists, history>>

-----------------------------------------------------------------------------
(* Answers: they are for whatever dialog is there *)

\* Mutant: the listing starts the deletion it was made for.
PrefixDeleteListLoadedStarts(l) ==
  LET m == modals["prefix"]
  IN /\ l.status # "sent"
     /\ lists' = lists \ {l}
     /\ IF m.open /\ l.status = "ok" /\ l.keys # <<>>
          THEN ProcessNext("prefix", [m EXCEPT !.loading = FALSE, !.keys = l.keys],
                           batches, reviewed["prefix"])
          ELSE /\ modals' = [modals EXCEPT !["prefix"].loading = FALSE]
               /\ UNCHANGED <<selected_keys, batches, sent>>
     /\ shown' = [shown EXCEPT !["prefix"] = l.server]
     /\ UNCHANGED <<client, store, opens, reviewed, mixed>>

PrefixDeleteListLoaded(l) ==
  LET m == modals["prefix"]
      loaded == [m EXCEPT !.loading = FALSE,
                          !.keys = IF l.status = "ok" THEN l.keys ELSE @]
  IN /\ l.status # "sent"
     /\ lists' = lists \ {l}
     /\ IF m.open
          THEN /\ modals' = [modals EXCEPT !["prefix"] = loaded]
               /\ shown' = [shown EXCEPT !["prefix"] =
                              IF l.status = "ok" THEN l.server ELSE @]
          ELSE UNCHANGED <<modals, shown>>
     /\ UNCHANGED <<client, selected_keys, batches, store, opens, reviewed, sent, mixed>>

\* BulkDeleteBatchFinished and PrefixDeleteBatchFinished.
BatchFinished(b) ==
  LET m == modals[b.kind]
      rest == batches \ {b}
  IN /\ b.status # "sent"
     /\ \/ /\ ~m.open
           /\ batches' = rest
           /\ UNCHANGED <<selected_keys, modals, sent>>
        \/ /\ m.open
           /\ b.status = "ok"
           /\ ProcessNext(b.kind, [m EXCEPT !.deleted = @ + b.count], rest,
                          reviewed[b.kind])
        \/ /\ m.open
           /\ b.status = "failed"
           /\ modals' = [modals EXCEPT ![b.kind].deleting = FALSE]
           /\ batches' = rest
           /\ UNCHANGED <<selected_keys, sent>>
     /\ UNCHANGED <<client, lists, store, opens, shown, reviewed, mixed>>

-----------------------------------------------------------------------------
User ==
  \/ \E s \in Servers : ConnectTo(s)
  \/ \E key \in Keys : ToggleObjectSelected(key)
  \/ ClearObjectSelection
  \/ OpenBulkDeleteModal
  \/ \E p \in PrefixNames : OpenPrefixDeleteModal(p)
  \/ \E k \in Kinds : CloseDeleteModal(k) \/ ConfirmDelete(k)

Server == (\E l \in lists : ServerLists(l)) \/ (\E b \in batches : ServerDeletes(b))

Answers ==
  (\E l \in lists : PrefixDeleteListLoaded(l)) \/ (\E b \in batches : BatchFinished(b))

Next == User \/ Server \/ Answers

Spec == Init /\ [][Next]_vars

\* Every request is answered and every answer is handled; the user may do nothing.
FairSpec == Spec /\ WF_vars(Server \/ Answers)

-----------------------------------------------------------------------------
(* Properties *)

\* TypeOK: the shape of the state, also when an answer meets a dialog it was not for.
TypeOK ==
  /\ client \in Servers
  /\ selected_keys \subseteq Keys
  /\ modals \in [Kinds -> ModalState]
  /\ lists \subseteq List
  /\ batches \subseteq Batch
  /\ store \in [Servers -> SUBSET Keys]
  /\ opens \in Nat
  /\ shown \in [Kinds -> Servers]
  /\ reviewed \in [Kinds -> SUBSET (Servers \X Keys)]
  /\ sent \in [Kinds -> Seq(Keys)]
  /\ mixed \in [Kinds -> BOOLEAN]

Gone(k) == {i \in 1 .. modals[k].next_index : modals[k].keys[i] \notin store[shown[k]]}

\* EachKeyOnce: through failures and further confirmations, a dialog on its own sends
\* its keys in order, none twice and none left out before the ones that follow; and it
\* reports no more as deleted than are gone, whatever part of a batch was refused.
EachKeyOnce ==
  \A k \in Kinds : modals[k].open /\ ~mixed[k] =>
    /\ sent[k] = SubSeq(modals[k].keys, 1, modals[k].next_index)
    /\ modals[k].deleted <= Cardinality(Gone(k))

\* OnlyConfirmed: no request deletes a key the user has not confirmed in the dialog
\* that sends it, on the server the dialog showed it from.
OnlyConfirmed == \A b \in batches : b.confirmed

\* UnmixedOnlyConfirmed: the same for a dialog whose tasks, connection and list are
\* all its own.
UnmixedOnlyConfirmed == \A b \in batches : ~mixed[b.kind] => b.confirmed

Waits(k) == modals[k].deleting \/ modals[k].loading

\* DeletionEnds: a dialog that deletes, and so cannot be closed, or that lists, ends doing
\* so, by finishing or by a failure, however dialogs have replaced another.
DeletionEnds == \A k \in Kinds : Waits(k) ~> ~Waits(k)

=============================================================================
