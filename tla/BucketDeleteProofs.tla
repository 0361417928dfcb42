------------------------- MODULE BucketDeleteProofs -------------------------
(***************************************************************************)
(* Theorems about BucketDelete, for every set of servers, buckets and      *)
(* keys, and every number of dialogs and of objects written by others.     *)
(***************************************************************************)
EXTENDS BucketDelete, FiniteSetTheorems, SequenceTheorems, TLAPS

-----------------------------------------------------------------------------
(* Types *)

LEMMA SetToSeqType ==
  ASSUME NEW S, IsFiniteSet(S)
  PROVE  SetToSeq(S) \in Seq(S)
<1> DEFINE D == 1 .. Cardinality(S)
<1>1. Cardinality(S) \in Nat /\ ExistsBijection(D, S)
  BY FS_CardinalityType
<1>2. PICK f : f \in Bijection(D, S)
  BY <1>1 DEF ExistsBijection
<1>3. f \in [D -> S] /\ IsInjective(f)
  BY <1>2 DEF Bijection, Injection
<1>4. SetToSeq(S) \in [D -> S]
  BY <1>3 DEF SetToSeq
<1> QED BY <1>1, <1>4, IsASeq

LEMMA NoModalType == NoModal \in BucketDeleteState /\ ~NoModal.open
<1>1. <<>> \in Seq(Keys)
  BY EmptySeq
<1> QED BY <1>1 DEF NoModal, Modal, BucketDeleteState

\* NextKeyIs: the next request is for the object at the index, if there is one.
LEMMA NextKeyIs ==
  ASSUME NEW m \in BucketDeleteState
  PROVE  /\ m.next_index \in Nat /\ Len(m.object_keys) \in Nat
         /\ m.next_index < Len(m.object_keys) =>
              /\ NextKey(m) = m.object_keys[m.next_index + 1]
              /\ NextKey(m) \in Keys
         /\ ~(m.next_index < Len(m.object_keys)) => NextKey(m) = NoKey
<1>1. m.next_index \in Nat /\ m.object_keys \in Seq(Keys) /\ Len(m.object_keys) \in Nat
  BY DEF BucketDeleteState
<1>2. m.next_index < Len(m.object_keys) => m.next_index + 1 \in 1 .. Len(m.object_keys)
  BY <1>1
<1>3. m.next_index < Len(m.object_keys) => m.object_keys[m.next_index + 1] \in Keys
  BY <1>1, <1>2, ElementOfSeq
<1> QED BY <1>1, <1>3 DEF NextKey

\* NextStepType: what the next step leaves has its type.
LEMMA NextStepType ==
  ASSUME TypeOK, NEW m \in BucketDeleteState, m.bucket \in Buckets, NEW rest \in SUBSET Step,
         NEW agreed, NextStep(m, rest, agreed)
  PROVE  /\ bucket_delete' \in BucketDeleteState /\ bucket_delete'.bucket = m.bucket
         /\ steps' \subseteq Step
<1>1. CASE m.preview_loading \/ m.confirm_name # m.bucket
  BY <1>1 DEF NextStep
<1>2. CASE ~(m.preview_loading \/ m.confirm_name # m.bucket)
  <2> DEFINE yes == <<client, m.bucket>> \in agreed
             st == [nr |-> counts.opens, bucket |-> m.bucket, key |-> NextKey(m),
                    server |-> client, status |-> "sent", confirmed |-> yes]
  <2>1. bucket_delete' = [m EXCEPT !.deleting = TRUE] /\ steps' = rest \union {st}
    BY <1>2 DEF NextStep
  <2>2. yes \in BOOLEAN
    OBVIOUS
  <2> HIDE DEF yes
  <2>3. NextKey(m) \in Keys \union {NoKey}
    BY NextKeyIs
  <2>4. st \in Step
    BY <2>2, <2>3 DEF Step, TypeOK
  <2> HIDE DEF st
  <2> QED BY <2>1, <2>4 DEF BucketDeleteState
<1> QED BY <1>1, <1>2

-----------------------------------------------------------------------------
(* The invariant *)

\* What the server still has of a bucket, without what others have written.
Left(bucket) == store[<<client, bucket>>] \ {key \in Keys : <<<<client, bucket>>, key>> \in arrived}

\* An open dialog is for a bucket.
Named == bucket_delete.open => bucket_delete.bucket \in Buckets

\* One listing at most, for the dialog, which has nothing before it.
OwnPreview ==
  /\ \A p, q \in previews : p = q
  /\ previews # {} /\ bucket_delete.open => bucket_delete.preview_loading
  /\ bucket_delete.preview_loading =>
       /\ ~bucket_delete.deleting
       /\ bucket_delete.object_keys = <<>> /\ bucket_delete.next_index = 0

\* One request at most, for the next key of the dialog, which was confirmed.
OwnStep ==
  /\ \A st, other \in steps : st = other
  /\ \A st \in steps :
       /\ bucket_delete.open /\ bucket_delete.deleting
       /\ st.server = client /\ st.bucket = bucket_delete.bucket
       /\ st.key = NextKey(bucket_delete)
       /\ st.confirmed
       /\ <<client, bucket_delete.bucket>> \in confirmed
       /\ st.status = "ok" /\ st.key # NoKey => st.key \notin Left(bucket_delete.bucket)

\* What is counted is gone.
OwnCount ==
  bucket_delete.open =>
    /\ bucket_delete.deleted_objects = bucket_delete.next_index
    /\ bucket_delete.next_index <= Len(bucket_delete.object_keys)
    /\ \A i \in 1 .. bucket_delete.next_index :
         bucket_delete.object_keys[i] \notin Left(bucket_delete.bucket)

Own  == OwnPreview /\ OwnStep /\ OwnCount

IInv == TypeOK /\ Named /\ (~mixed => Own)

-----------------------------------------------------------------------------
(* Types and names are kept *)

LEMMA InitInv == Init => IInv
<1> SUFFICES ASSUME Init PROVE IInv
  OBVIOUS
<1>1. bucket_delete = NoModal /\ previews = {} /\ steps = {}
  BY DEF Init
<1>2. NoModal \in BucketDeleteState /\ ~NoModal.open /\ ~NoModal.preview_loading
  BY NoModalType DEF NoModal, Modal
<1>3. TypeOK
  BY <1>1, <1>2, ServersAssumption, FullAssumption DEF Init, TypeOK
<1> QED BY <1>1, <1>2, <1>3 DEF IInv, Named, Own, OwnPreview, OwnStep, OwnCount

\* StepType: every step keeps the shape of the state, and an open dialog its bucket.
LEMMA StepType ==
  ASSUME TypeOK, Named, [Next]_vars
  PROVE  TypeOK' /\ Named'
<1>1. /\ client \in Servers /\ bucket_delete \in BucketDeleteState
      /\ previews \subseteq Preview /\ steps \subseteq Step
      /\ buckets \subseteq Servers \X Buckets
      /\ store \in [Servers \X Buckets -> SUBSET Keys]
      /\ counts \in [opens: Nat, arrivals: Nat]
      /\ arrived \subseteq (Servers \X Buckets) \X Keys
      /\ confirmed \subseteq Servers \X (Buckets \union {NoBucket})
      /\ retyped \in BOOLEAN /\ mixed \in BOOLEAN
      /\ bucket_delete.open => bucket_delete.bucket \in Buckets
  BY DEF TypeOK, Named
<1>2. CASE \E s \in Servers : ConnectTo(s)
  BY <1>1, <1>2 DEF ConnectTo, TypeOK, Named, server
<1>3. CASE \E b \in Buckets : OpenDeleteBucketModal(b)
  <2>1. PICK b \in Buckets : OpenDeleteBucketModal(b)
    BY <1>3
  <2>2. Modal(b) \in BucketDeleteState /\ Modal(b).bucket = b
    BY EmptySeq DEF Modal, BucketDeleteState
  <2>3. [nr |-> counts.opens, bucket |-> b, server |-> client, status |-> "sent", keys |-> <<>>]
          \in Preview
    BY <1>1, EmptySeq DEF Preview
  <2> DEFINE modal == Modal(b)
             p == [nr |-> counts.opens, bucket |-> b, server |-> client, status |-> "sent",
                   keys |-> <<>>]
  <2>4. /\ bucket_delete' = modal /\ previews' = previews \union {p} /\ confirmed' = {}
        /\ counts' = [counts EXCEPT !.opens = @ + 1]
        /\ retyped' = FALSE /\ mixed' = (mixed \/ previews # {} \/ steps # {})
        /\ UNCHANGED <<client, steps, buckets, store, arrived>>
    BY <2>1 DEF OpenDeleteBucketModal, server
  <2>5. counts' \in [opens: Nat, arrivals: Nat]
    BY <1>1, <2>4
  <2> HIDE DEF modal, p
  <2> QED BY <1>1, <2>2, <2>3, <2>4, <2>5 DEF TypeOK, Named, modal, p
<1>4. CASE CloseDeleteBucketModal
  BY <1>1, <1>4, NoModalType DEF CloseDeleteBucketModal, TypeOK, Named, server, history
<1>5. CASE \E name \in Buckets \union {NoBucket} : ConfirmNameChanged(name)
  <2>1. PICK name \in Buckets \union {NoBucket} : ConfirmNameChanged(name)
    BY <1>5
  <2>2. [bucket_delete EXCEPT !.confirm_name = name] \in BucketDeleteState
    BY <1>1 DEF BucketDeleteState
  <2>3. [bucket_delete EXCEPT !.confirm_name = name].bucket = bucket_delete.bucket
    BY <1>1 DEF BucketDeleteState
  <2> QED BY <1>1, <2>1, <2>2, <2>3 DEF ConfirmNameChanged, TypeOK, Named, server,
                                        BucketDeleteState
<1>6. CASE ConfirmDeleteBucket
  <2> DEFINE agreed == confirmed \union {<<client, bucket_delete.bucket>>}
  <2>1. /\ bucket_delete.open /\ confirmed' = agreed
        /\ NextStep(bucket_delete, steps, agreed)
        /\ UNCHANGED <<client, previews, buckets, store, counts, arrived, retyped, mixed>>
    BY <1>6 DEF ConfirmDeleteBucket, CanStart, server
  <2>2. agreed \subseteq Servers \X (Buckets \union {NoBucket})
    BY <1>1, <2>1
  <2> HIDE DEF agreed
  <2>3. /\ bucket_delete' \in BucketDeleteState /\ bucket_delete'.bucket \in Buckets
        /\ steps' \subseteq Step
    BY <1>1, <2>1, NextStepType
  <2> QED BY <1>1, <2>1, <2>2, <2>3 DEF TypeOK, Named
<1>7. ASSUME NEW at \in Shared, NEW key \in Keys, Arrive(at, key) PROVE TypeOK' /\ Named'
  <2>1. at \in Servers \X Buckets
    BY FullAssumption
  <2>2. store' \in [Servers \X Buckets -> SUBSET Keys]
    BY <1>1, <1>7, <2>1 DEF Arrive
  <2>3. arrived' \subseteq (Servers \X Buckets) \X Keys
    BY <1>1, <1>7, <2>1 DEF Arrive
  <2>4. counts' \in [opens: Nat, arrivals: Nat]
    BY <1>1, <1>7 DEF Arrive
  <2>5. UNCHANGED <<client, bucket_delete, previews, steps, buckets, confirmed, retyped, mixed>>
    BY <1>7 DEF Arrive
  <2> QED BY <1>1, <2>2, <2>3, <2>4, <2>5 DEF TypeOK, Named
<1>8. ASSUME NEW p \in previews, ServerLists(p) PROVE TypeOK' /\ Named'
  <2> DEFINE held == store[<<p.server, p.bucket>>]
  <2>1. PICK status \in {"ok", "failed"} :
          previews' = (previews \ {p}) \union
            {[p EXCEPT !.status = status,
                       !.keys = IF status = "ok" THEN SetToSeq(held) ELSE <<>>]}
    BY <1>8 DEF ServerLists
  <2>2. p \in Preview /\ <<p.server, p.bucket>> \in Servers \X Buckets
    BY <1>1 DEF Preview
  <2>3. SetToSeq(held) \in Seq(Keys) /\ <<>> \in Seq(Keys)
    <3>1. held \in SUBSET Keys
      BY <1>1, <2>2
    <3> HIDE DEF held
    <3>2. IsFiniteSet(held)
      BY <3>1, NamesAssumption, FS_Subset
    <3> QED BY <3>1, <3>2, SetToSeqType, SeqMonotonic, EmptySeq
  <2> HIDE DEF held
  <2> DEFINE keys == IF status = "ok" THEN SetToSeq(held) ELSE <<>>
  <2>4. keys \in Seq(Keys) /\ previews' = (previews \ {p}) \union
                                 {[p EXCEPT !.status = status, !.keys = keys]}
    BY <2>1, <2>3
  <2> HIDE DEF keys
  <2>5. [p EXCEPT !.status = status, !.keys = keys] \in Preview
    BY <2>2, <2>4 DEF Preview
  <2>6. UNCHANGED <<client, bucket_delete, steps, buckets, store, counts, arrived, confirmed,
                    retyped, mixed>>
    BY <1>8 DEF ServerLists, server, history
  <2> QED BY <1>1, <2>4, <2>5, <2>6 DEF TypeOK, Named
<1>9. ASSUME NEW st \in steps, ServerActs(st) PROVE TypeOK' /\ Named'
  <2>1. st \in Step /\ <<st.server, st.bucket>> \in Servers \X Buckets
    BY <1>1 DEF Step
  <2>2. PICK status \in {"ok", "failed"} : Answer(st, status)
    BY <1>9 DEF ServerActs
  <2>3. [st EXCEPT !.status = status] \in Step
    BY <2>1 DEF Step
  <2>4. /\ steps' \subseteq Step
        /\ UNCHANGED <<client, bucket_delete, previews, counts, arrived, confirmed, retyped,
                       mixed>>
    BY <1>1, <2>2, <2>3 DEF Answer, history
  <2>5. /\ buckets' \subseteq Servers \X Buckets
        /\ store' \in [Servers \X Buckets -> SUBSET Keys]
    BY <1>1, <1>9, <2>1 DEF ServerActs
  <2> QED BY <1>1, <2>4, <2>5 DEF TypeOK, Named
<1>10. ASSUME NEW p \in previews, BucketDeletePreviewLoaded(p) PROVE TypeOK' /\ Named'
  <2> DEFINE keys == IF p.status = "ok" THEN p.keys ELSE bucket_delete.object_keys
             loaded == [bucket_delete EXCEPT !.preview_loading = FALSE, !.object_keys = keys]
  <2>1. keys \in Seq(Keys)
    BY <1>1 DEF Preview, BucketDeleteState
  <2> HIDE DEF keys
  <2>2. loaded \in BucketDeleteState /\ loaded.bucket = bucket_delete.bucket
        /\ loaded.open = bucket_delete.open
    BY <1>1, <2>1 DEF BucketDeleteState
  <2>3. bucket_delete' = loaded \/ bucket_delete' = bucket_delete
    BY <1>10, <1>1 DEF BucketDeletePreviewLoaded, keys
  <2> HIDE DEF loaded
  <2>4. /\ previews' \subseteq previews
        /\ UNCHANGED <<client, steps, buckets, store, counts, arrived, confirmed, retyped, mixed>>
    BY <1>10 DEF BucketDeletePreviewLoaded, server, history
  <2> QED BY <1>1, <2>2, <2>3, <2>4 DEF TypeOK, Named
<1>11. ASSUME NEW st \in steps, StepFinished(st) PROVE TypeOK' /\ Named'
  <2> DEFINE m == bucket_delete
             counted == [m EXCEPT !.deleted_objects = @ + 1, !.next_index = @ + 1]
             stopped == [m EXCEPT !.deleting = FALSE]
             rest == steps \ {st}
  <2>1. /\ counted \in BucketDeleteState /\ counted.bucket = m.bucket
        /\ stopped \in BucketDeleteState /\ stopped.bucket = m.bucket
    <3>1. m.deleted_objects + 1 \in Nat /\ m.next_index + 1 \in Nat
      BY <1>1 DEF BucketDeleteState
    <3> HIDE DEF m
    <3> QED BY <1>1, <3>1 DEF BucketDeleteState, m
  <2>2. /\ UNCHANGED <<client, previews, buckets, store, counts, arrived, confirmed, retyped,
                       mixed>>
        /\ \/ UNCHANGED bucket_delete /\ steps' = rest
           \/ m.open /\ NextStep(counted, rest, confirmed)
           \/ bucket_delete' = NoModal /\ steps' = rest
           \/ m.open /\ bucket_delete' = stopped /\ steps' = rest
    BY <1>11 DEF StepFinished, server, history
  <2>3. rest \in SUBSET Step
    BY <1>1
  <2> HIDE DEF counted, stopped, rest
  <2>4. CASE m.open /\ NextStep(counted, rest, confirmed)
    <3>1. /\ bucket_delete' \in BucketDeleteState /\ bucket_delete'.bucket = counted.bucket
          /\ steps' \subseteq Step
      BY <1>1, <2>1, <2>3, <2>4, NextStepType
    <3> QED BY <1>1, <2>1, <2>2, <2>4, <3>1 DEF TypeOK, Named
  <2>5. CASE ~(m.open /\ NextStep(counted, rest, confirmed))
    BY <1>1, <2>1, <2>2, <2>3, <2>5, NoModalType DEF TypeOK, Named
  <2> QED BY <2>4, <2>5
<1>12. CASE UNCHANGED vars
  BY <1>1, <1>12 DEF vars, server, history, TypeOK, Named
<1> QED BY <1>2, <1>3, <1>4, <1>5, <1>6, <1>7, <1>8, <1>9, <1>10, <1>11, <1>12
        DEF Next, User, Server, Answers

-----------------------------------------------------------------------------
(* The dialog on its own *)

\* NextOwn: a dialog without requests, when it is confirmed or goes on.
LEMMA NextOwn ==
  ASSUME TypeOK, NEW m \in BucketDeleteState, m.open, ~m.preview_loading, previews = {},
         m.deleted_objects = m.next_index, m.next_index <= Len(m.object_keys),
         \A i \in 1 .. m.next_index : m.object_keys[i] \notin Left(m.bucket),
         NEW agreed, <<client, m.bucket>> \in agreed, NextStep(m, {}, agreed),
         confirmed' = agreed, UNCHANGED <<client, store, arrived, previews>>
  PROVE  Own'
<1>1. \A bucket : Left(bucket)' = Left(bucket)
  BY DEF Left
<1>2. CASE m.confirm_name # m.bucket
  <2>1. bucket_delete' = m /\ steps' = {} /\ previews' = {}
    BY <1>2 DEF NextStep
  <2> QED BY <1>1, <2>1 DEF Own, OwnPreview, OwnStep, OwnCount
<1>3. CASE m.confirm_name = m.bucket
  <2> DEFINE after == [m EXCEPT !.deleting = TRUE]
             st == [nr |-> counts.opens, bucket |-> m.bucket, key |-> NextKey(m),
                    server |-> client, status |-> "sent",
                    confirmed |-> <<client, m.bucket>> \in agreed]
  <2>1. bucket_delete' = after /\ steps' = {st} /\ previews' = {}
    BY <1>3 DEF NextStep
  <2>2. /\ after.open /\ after.deleting /\ ~after.preview_loading
        /\ after.bucket = m.bucket /\ after.object_keys = m.object_keys
        /\ after.next_index = m.next_index /\ after.deleted_objects = m.deleted_objects
    BY DEF BucketDeleteState
  <2>3. /\ st.bucket = m.bucket /\ st.key = NextKey(m) /\ st.server = client
        /\ st.status = "sent" /\ st.confirmed
    OBVIOUS
  <2> HIDE DEF after, st
  <2>4. NextKey(after) = NextKey(m)
    BY <2>2 DEF NextKey
  <2>5. OwnStep'
    <3>1. NextKey(bucket_delete)' = NextKey(m)
      BY <2>1, <2>4 DEF NextKey
    <3>2. bucket_delete'.open /\ bucket_delete'.deleting /\ bucket_delete'.bucket = m.bucket
      BY <2>1, <2>2
    <3>3. <<client', m.bucket>> \in confirmed' /\ client' = client
      OBVIOUS
    <3> QED BY <2>1, <2>3, <3>1, <3>2, <3>3 DEF OwnStep
  <2> QED BY <1>1, <2>1, <2>2, <2>5 DEF Own, OwnPreview, OwnCount
<1> QED BY <1>2, <1>3

\* OwnKept: a step that touches nothing of the dialog, and does not fill its bucket.
LEMMA OwnKept ==
  ASSUME Own, UNCHANGED <<client, bucket_delete, previews, steps, confirmed>>,
         Left(bucket_delete.bucket)' \subseteq Left(bucket_delete.bucket)
  PROVE  Own'
<1>1. NextKey(bucket_delete)' = NextKey(bucket_delete)
  BY DEF NextKey
<1>2. OwnPreview'
  BY DEF Own, OwnPreview
<1>3. OwnStep'
  BY <1>1 DEF Own, OwnStep
<1>4. OwnCount'
  BY DEF Own, OwnCount
<1> QED BY <1>2, <1>3, <1>4 DEF Own

\* StepOwn: every step keeps what an unmixed dialog has, or mixes it.
LEMMA StepOwn ==
  ASSUME IInv, [Next]_vars, ~mixed'
  PROVE  Own'
<1>1. /\ client \in Servers /\ bucket_delete \in BucketDeleteState
      /\ previews \subseteq Preview /\ steps \subseteq Step
      /\ store \in [Servers \X Buckets -> SUBSET Keys]
      /\ TypeOK
      /\ bucket_delete.open => bucket_delete.bucket \in Buckets
      /\ ~mixed => OwnPreview /\ OwnStep /\ OwnCount /\ Own
  BY DEF IInv, TypeOK, Named, Own
<1>2. CASE \E s \in Servers : ConnectTo(s)
  <2>1. ~mixed /\ ~bucket_delete.open /\ UNCHANGED <<bucket_delete, previews, steps, confirmed>>
    BY <1>2 DEF ConnectTo
  <2>2. steps = {}
    BY <1>1, <2>1 DEF OwnStep
  <2> QED BY <1>1, <2>1, <2>2 DEF Own, OwnPreview, OwnStep, OwnCount
<1>3. CASE \E b \in Buckets : OpenDeleteBucketModal(b)
  <2>1. PICK b \in Buckets : OpenDeleteBucketModal(b)
    BY <1>3
  <2> DEFINE p == [nr |-> counts.opens, bucket |-> b, server |-> client, status |-> "sent",
                   keys |-> <<>>]
  <2>2. bucket_delete' = Modal(b) /\ previews' = {p} /\ steps' = {}
    BY <2>1 DEF OpenDeleteBucketModal
  <2>3. /\ Modal(b).preview_loading /\ ~Modal(b).deleting /\ Modal(b).object_keys = <<>>
        /\ Modal(b).next_index = 0 /\ Modal(b).deleted_objects = 0
    BY DEF Modal
  <2> HIDE DEF p
  <2> QED BY <2>2, <2>3 DEF Own, OwnPreview, OwnStep, OwnCount
<1>4. CASE CloseDeleteBucketModal
  <2>1. /\ ~mixed /\ bucket_delete.open /\ ~bucket_delete.deleting
        /\ bucket_delete' = NoModal /\ UNCHANGED <<previews, steps>>
    BY <1>4 DEF CloseDeleteBucketModal, history
  <2>2. steps = {}
    BY <1>1, <2>1 DEF OwnStep
  <2>3. ~NoModal.open /\ ~NoModal.preview_loading
    BY DEF NoModal, Modal
  <2> QED BY <1>1, <2>1, <2>2, <2>3 DEF Own, OwnPreview, OwnStep, OwnCount
<1>5. CASE \E name \in Buckets \union {NoBucket} : ConfirmNameChanged(name)
  <2>1. PICK name : ConfirmNameChanged(name)
    BY <1>5
  <2> DEFINE x == [bucket_delete EXCEPT !.confirm_name = name]
  <2>2. /\ bucket_delete' = x
        /\ UNCHANGED <<client, previews, steps, buckets, store, arrived, confirmed, mixed>>
    BY <2>1 DEF ConfirmNameChanged, server
  <2>3. /\ x.open = bucket_delete.open /\ x.deleting = bucket_delete.deleting
        /\ x.preview_loading = bucket_delete.preview_loading
        /\ x.bucket = bucket_delete.bucket /\ x.object_keys = bucket_delete.object_keys
        /\ x.next_index = bucket_delete.next_index
        /\ x.deleted_objects = bucket_delete.deleted_objects
    BY <1>1 DEF BucketDeleteState
  <2> HIDE DEF x
  <2>4. NextKey(bucket_delete)' = NextKey(bucket_delete) /\ \A b : Left(b)' = Left(b)
    BY <2>2, <2>3 DEF NextKey, Left
  <2>5. OwnStep'
    BY <1>1, <2>2, <2>3, <2>4 DEF OwnStep
  <2> QED BY <1>1, <2>2, <2>3, <2>4, <2>5 DEF Own, OwnPreview, OwnCount
<1>6. CASE ConfirmDeleteBucket
  <2> DEFINE m == bucket_delete
             agreed == confirmed \union {<<client, m.bucket>>}
  <2>1. /\ m.open /\ ~m.preview_loading /\ ~m.deleting /\ confirmed' = agreed
        /\ NextStep(m, steps, agreed)
        /\ UNCHANGED <<client, previews, buckets, store, arrived, mixed>>
    BY <1>6 DEF ConfirmDeleteBucket, CanStart, server
  <2>2. steps = {} /\ previews = {}
    BY <1>1, <2>1 DEF OwnStep, OwnPreview
  <2>3. /\ m.deleted_objects = m.next_index /\ m.next_index <= Len(m.object_keys)
        /\ \A i \in 1 .. m.next_index : m.object_keys[i] \notin Left(m.bucket)
    BY <1>1, <2>1 DEF OwnCount
  <2>4. <<client, m.bucket>> \in agreed
    OBVIOUS
  <2> HIDE DEF m, agreed
  <2>5. m \in BucketDeleteState
    BY <1>1 DEF m
  <2> QED BY <1>1, <2>1, <2>2, <2>3, <2>4, <2>5, NextOwn
<1>7. ASSUME NEW at \in Shared, NEW key \in Keys, Arrive(at, key) PROVE Own'
  <2>1. /\ store' = [store EXCEPT ![at] = @ \union {key}]
        /\ arrived' = arrived \union {<<at, key>>}
        /\ UNCHANGED <<client, bucket_delete, previews, steps, confirmed, mixed>>
    BY <1>7 DEF Arrive
  <2> DEFINE here == <<client, bucket_delete.bucket>>
  <2>2. store'[here] \subseteq store[here] \union (IF here = at THEN {key} ELSE {})
    BY <1>1, <2>1
  <2>3. Left(bucket_delete.bucket)' \subseteq Left(bucket_delete.bucket)
    <3> SUFFICES ASSUME NEW k \in Left(bucket_delete.bucket)'
                 PROVE  k \in Left(bucket_delete.bucket)
      OBVIOUS
    <3>1. k \in store'[here] /\ ~(k \in Keys /\ <<here, k>> \in arrived')
      BY <2>1 DEF Left
    <3>2. k \in store[here]
      BY <2>1, <2>2, <3>1
    <3> QED BY <2>1, <3>1, <3>2 DEF Left
  <2> QED BY <1>1, <2>1, <2>3, OwnKept
<1>8. ASSUME NEW p \in previews, ServerLists(p) PROVE Own'
  <2>1. PICK q : previews' = (previews \ {p}) \union {q}
    BY <1>8 DEF ServerLists
  <2>2. UNCHANGED <<client, bucket_delete, steps, store, arrived, confirmed, mixed>>
    BY <1>8 DEF ServerLists, server, history
  <2>3. NextKey(bucket_delete)' = NextKey(bucket_delete) /\ \A b : Left(b)' = Left(b)
    BY <2>2 DEF NextKey, Left
  <2>4. OwnPreview'
    BY <1>1, <2>1, <2>2 DEF OwnPreview
  <2>5. OwnStep' /\ OwnCount'
    BY <1>1, <2>2, <2>3 DEF OwnStep, OwnCount
  <2> QED BY <2>4, <2>5 DEF Own
<1>9. ASSUME NEW st \in steps, ServerActs(st) PROVE Own'
  <2> DEFINE b == bucket_delete.bucket
             at == <<st.server, st.bucket>>
  <2>1. PICK status \in {"ok", "failed"} : Answer(st, status)
    BY <1>9 DEF ServerActs
  <2>2. /\ steps' = (steps \ {st}) \union {[st EXCEPT !.status = status]}
        /\ UNCHANGED <<client, bucket_delete, previews, arrived, confirmed, mixed>>
    BY <2>1 DEF Answer, history
  <2>3. /\ steps = {st} /\ bucket_delete.open /\ bucket_delete.deleting
        /\ st.server = client /\ st.bucket = b /\ st.key = NextKey(bucket_delete)
        /\ st.confirmed /\ <<client, b>> \in confirmed
    BY <1>1, <2>2 DEF OwnStep
  <2>4. at \in Servers \X Buckets /\ st \in Step
    BY <1>1 DEF Step
  <2> DEFINE x == [st EXCEPT !.status = status]
  <2>5. /\ x.server = st.server /\ x.bucket = st.bucket /\ x.key = st.key
        /\ x.confirmed = st.confirmed /\ x.status = status
    BY <2>4 DEF Step
  <2>6. store'[at] \subseteq store[at]
    BY <1>1, <1>9, <2>4 DEF ServerActs
  <2>7. PICK result \in {"ok", "failed"} :
          /\ Answer(st, result)
          /\ result = "ok" /\ st.key # NoKey => st.key \notin store'[at]
    BY <1>1, <1>9, <2>4 DEF ServerActs
  <2> HIDE DEF x
  <2>8. Left(b)' \subseteq Left(b)
    BY <2>2, <2>3, <2>6 DEF Left
  <2>9. result = status
    <3>1. [st EXCEPT !.status = result] = [st EXCEPT !.status = status]
      BY <2>2, <2>3, <2>7 DEF Answer
    <3>2. [st EXCEPT !.status = result].status = result /\ x.status = status
      BY <2>4, <2>5 DEF Step
    <3> QED BY <3>1, <3>2 DEF x
  <2>10. status = "ok" /\ st.key # NoKey => st.key \notin Left(b)'
    BY <2>2, <2>3, <2>7, <2>9 DEF Left
  <2>11. steps' = {x} /\ NextKey(bucket_delete)' = NextKey(bucket_delete)
    BY <2>2, <2>3 DEF x, NextKey
  <2>12. OwnStep'
    BY <2>2, <2>3, <2>5, <2>10, <2>11 DEF OwnStep
  <2>13. OwnPreview' /\ OwnCount'
    BY <1>1, <2>2, <2>8 DEF OwnPreview, OwnCount
  <2> QED BY <2>12, <2>13 DEF Own
<1>10. ASSUME NEW p \in previews, BucketDeletePreviewLoaded(p) PROVE Own'
  <2> DEFINE m == bucket_delete
             keys == IF p.status = "ok" THEN p.keys ELSE m.object_keys
             loaded == [m EXCEPT !.preview_loading = FALSE, !.object_keys = keys]
  <2>1. /\ previews' = previews \ {p}
        /\ UNCHANGED <<client, steps, store, arrived, confirmed, mixed>>
        /\ bucket_delete' = m \/ (m.open /\ bucket_delete' = loaded)
    BY <1>1, <1>10 DEF BucketDeletePreviewLoaded, server, history
  <2>2. previews' = {} /\ \A b : Left(b)' = Left(b)
    BY <1>1, <2>1 DEF OwnPreview, Left
  <2>3. CASE bucket_delete' = m
    <3>1. Left(bucket_delete.bucket)' \subseteq Left(bucket_delete.bucket)
      BY <2>2, <2>3
    <3>2. NextKey(bucket_delete)' = NextKey(bucket_delete)
      BY <2>3 DEF NextKey
    <3>3. OwnStep' /\ OwnCount'
      BY <1>1, <2>1, <2>2, <2>3, <3>2 DEF OwnStep, OwnCount
    <3>4. OwnPreview'
      BY <1>1, <2>1, <2>2, <2>3 DEF OwnPreview
    <3> QED BY <3>3, <3>4 DEF Own
  <2>4. CASE m.open /\ bucket_delete' = loaded
    <3>1. m.preview_loading /\ ~m.deleting /\ m.next_index = 0
      BY <1>1, <2>1, <2>4 DEF OwnPreview
    <3>2. steps = {} /\ m.deleted_objects = 0
      BY <1>1, <2>1, <2>4, <3>1 DEF OwnStep, OwnCount
    <3>3. keys \in Seq(Keys)
      BY <1>1 DEF Preview, BucketDeleteState
    <3>4. /\ ~loaded.preview_loading /\ loaded.next_index = 0 /\ loaded.deleted_objects = 0
          /\ loaded.object_keys = keys
      BY <1>1, <3>1, <3>2 DEF BucketDeleteState
    <3>5. Len(keys) \in Nat
      BY <3>3
    <3> HIDE DEF loaded, keys, m
    <3> QED BY <2>1, <2>2, <2>4, <3>2, <3>4, <3>5 DEF Own, OwnPreview, OwnStep, OwnCount
  <2> QED BY <2>1, <2>3, <2>4
<1>11. ASSUME NEW st \in steps, StepFinished(st) PROVE Own'
  <2> DEFINE m == bucket_delete
             counted == [m EXCEPT !.deleted_objects = @ + 1, !.next_index = @ + 1]
             stopped == [m EXCEPT !.deleting = FALSE]
  <2>1. UNCHANGED <<client, previews, store, arrived, confirmed, mixed>>
    BY <1>11 DEF StepFinished, server, history
  <2>2. /\ steps \ {st} = {} /\ m.open /\ m.deleting
        /\ st.key = NextKey(m) /\ <<client, m.bucket>> \in confirmed
        /\ st.status = "ok" /\ st.key # NoKey => st.key \notin Left(m.bucket)
    BY <1>1, <2>1 DEF OwnStep
  <2>3. ~m.preview_loading /\ previews = {}
    BY <1>1, <2>1, <2>2 DEF OwnPreview
  <2>4. /\ m.deleted_objects = m.next_index /\ m.next_index <= Len(m.object_keys)
        /\ \A i \in 1 .. m.next_index : m.object_keys[i] \notin Left(m.bucket)
    BY <1>1, <2>1, <2>2 DEF OwnCount
  <2>5. \A b : Left(b)' = Left(b)
    BY <2>1 DEF Left
  <2>6. \/ st.status = "ok" /\ st.key # NoKey /\ NextStep(counted, {}, confirmed)
        \/ bucket_delete' = NoModal /\ steps' = {}
        \/ bucket_delete' = stopped /\ steps' = {}
    BY <1>11, <2>2 DEF StepFinished
  <2>7. CASE st.status = "ok" /\ st.key # NoKey /\ NextStep(counted, {}, confirmed)
    <3>1. /\ m.next_index \in Nat /\ Len(m.object_keys) \in Nat
          /\ m.next_index < Len(m.object_keys)
          /\ st.key = m.object_keys[m.next_index + 1]
      BY <1>1, <2>2, <2>7, NextKeyIs
    <3>2. /\ counted \in BucketDeleteState /\ counted.open = m.open
          /\ counted.preview_loading = m.preview_loading /\ counted.bucket = m.bucket
          /\ counted.object_keys = m.object_keys
          /\ counted.next_index = m.next_index + 1
          /\ counted.deleted_objects = m.deleted_objects + 1
      <4>1. m.deleted_objects + 1 \in Nat /\ m.next_index + 1 \in Nat
        BY <1>1 DEF BucketDeleteState
      <4>2. m \in BucketDeleteState
        BY <1>1
      <4> HIDE DEF m
      <4> QED BY <4>1, <4>2 DEF BucketDeleteState
    <3> HIDE DEF counted
    <3>3. ASSUME NEW i \in 1 .. m.next_index + 1
          PROVE  m.object_keys[i] \notin Left(m.bucket)
      <4>1. i \in 1 .. m.next_index \/ i = m.next_index + 1
        BY <3>1
      <4> QED BY <2>2, <2>4, <2>7, <3>1, <4>1
    <3>4. counted.next_index <= Len(counted.object_keys)
      BY <3>1, <3>2
    <3> HIDE DEF m
    <3> QED BY <1>1, <2>1, <2>2, <2>3, <2>4, <2>7, <3>2, <3>3, <3>4, NextOwn
  <2>8. CASE bucket_delete' = NoModal /\ steps' = {}
    <3>1. ~NoModal.open /\ ~NoModal.preview_loading
      BY DEF NoModal, Modal
    <3> QED BY <2>1, <2>3, <2>8, <3>1 DEF Own, OwnPreview, OwnStep, OwnCount
  <2>9. CASE bucket_delete' = stopped /\ steps' = {}
    <3>1. /\ stopped.preview_loading = m.preview_loading /\ stopped.bucket = m.bucket
          /\ stopped.object_keys = m.object_keys /\ stopped.next_index = m.next_index
          /\ stopped.deleted_objects = m.deleted_objects
      BY <1>1 DEF BucketDeleteState
    <3> HIDE DEF stopped
    <3> QED BY <2>1, <2>3, <2>4, <2>5, <2>9, <3>1 DEF Own, OwnPreview, OwnStep, OwnCount
  <2> QED BY <2>6, <2>7, <2>8, <2>9
<1>12. CASE UNCHANGED vars
  <2>1. UNCHANGED <<client, bucket_delete, previews, steps, confirmed, store, arrived, mixed>>
    BY <1>12 DEF vars, server, history
  <2>2. Left(bucket_delete.bucket)' \subseteq Left(bucket_delete.bucket)
    BY <2>1 DEF Left
  <2> QED BY <1>1, <2>1, <2>2, OwnKept
<1> QED BY <1>2, <1>3, <1>4, <1>5, <1>6, <1>7, <1>8, <1>9, <1>10, <1>11, <1>12
        DEF Next, User, Server, Answers

-----------------------------------------------------------------------------
(* Theorems *)

LEMMA StepInv == IInv /\ [Next]_vars => IInv'
  BY StepType, StepOwn DEF IInv

LEMMA InvariantHolds == Spec => []IInv
  BY InitInv, StepInv, PTL DEF Spec

\* TypeCorrect: no answer that meets a dialog it was not for breaks the shape of the state.
THEOREM TypeCorrect == Spec => []TypeOK
<1>1. IInv => TypeOK
  BY DEF IInv
<1> QED BY <1>1, InvariantHolds, PTL

\* OnlyConfirmedIsDeleted: every request of a dialog that was not mixed with another is
\* part of a deletion the user has typed the name for, on the server it goes to.
THEOREM OnlyConfirmedIsDeleted == Spec => []UnmixedOnlyConfirmed
<1>1. IInv => UnmixedOnlyConfirmed
  BY DEF IInv, Own, OwnStep, UnmixedOnlyConfirmed, OnlyConfirmed
<1> QED BY <1>1, InvariantHolds, PTL

\* ObjectsGoFirst: such a dialog counts only what is gone, and asks for the bucket when all
\* it has shown is, for every number of objects, failures, lost answers and other writers.
THEOREM ObjectsGoFirst == Spec => []ObjectsFirst
<1>1. IInv => ObjectsFirst
  <2> DEFINE m == bucket_delete
             left == store[<<client, m.bucket>>] \
                       {key \in Keys : <<<<client, m.bucket>>, key>> \in arrived}
  <2> SUFFICES ASSUME IInv, ~mixed, m.open
               PROVE  /\ \A i \in 1 .. m.deleted_objects : m.object_keys[i] \notin left
                      /\ \A st \in steps : st.key = NoKey =>
                           \A i \in 1 .. Len(m.object_keys) : m.object_keys[i] \notin left
    BY DEF ObjectsFirst
  <2>1. /\ m.deleted_objects = m.next_index
        /\ \A i \in 1 .. m.next_index : m.object_keys[i] \notin left
        /\ m.next_index <= Len(m.object_keys)
    BY DEF IInv, Own, OwnCount, Left
  <2>2. ASSUME NEW st \in steps, st.key = NoKey
        PROVE  m.next_index = Len(m.object_keys)
    <3>1. st.key = NextKey(m)
      BY DEF IInv, Own, OwnStep
    <3>2. m \in BucketDeleteState
      BY DEF IInv, TypeOK
    <3> HIDE DEF m
    <3> QED BY <2>1, <2>2, <3>1, <3>2, NextKeyIs, NamesAssumption
  <2> QED BY <2>1, <2>2
<1> QED BY <1>1, InvariantHolds, PTL
==============================================================================
