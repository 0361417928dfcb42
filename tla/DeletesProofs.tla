---------------------------- MODULE DeletesProofs ----------------------------
(***************************************************************************)
(* Theorems about Deletes, for every set of servers, keys and prefixes,    *)
(* every size of a batch and every number of dialogs.                      *)
(***************************************************************************)
EXTENDS Deletes, FiniteSetTheorems, SequenceTheorems, TLAPS

-----------------------------------------------------------------------------
(* Sequences of keys *)

LEMMA SetToSeqType ==
  ASSUME NEW S, IsFiniteSet(S)
  PROVE  SetToSeq(S) \in Seq(S)
<1> DEFINE D == 1 .. Cardinality(S)
<1>1. Cardinality(S) \in Nat /\ ExistsBijection(D, S)
  BY FS_CardinalityType
<1>2. PICK f : f \in Bijection(D, S)
  BY <1>1 DEF ExistsBijection
<1>3. f \in [D -> S] /\ IsInjective(f)
  BY <1>2 DEF Bijection, Injection
<1>4. SetToSeq(S) \in [D -> S]
  BY <1>3 DEF SetToSeq
<1> QED BY <1>1, <1>4, IsASeq

LEMMA SetToSeqsType ==
  ASSUME NEW S, IsFiniteSet(S), NEW f \in SetToSeqs(S)
  PROVE  f \in Seq(S)
<1>1. Cardinality(S) \in Nat
  BY FS_CardinalityType
<1>2. f \in [1 .. Cardinality(S) -> S]
  BY DEF SetToSeqs
<1> QED BY <1>1, <1>2, IsASeq

\* BatchRange: a batch is not empty and holds the keys that follow the index.
LEMMA BatchRange ==
  ASSUME NEW m \in ModalState, m.next_index < Len(m.keys)
  PROVE  /\ BatchEnd(m) \in Nat
         /\ m.next_index < BatchEnd(m) /\ BatchEnd(m) <= Len(m.keys)
         /\ SubSeq(m.keys, BatchStart(m), BatchEnd(m)) \in Seq(Keys)
         /\ {SubSeq(m.keys, BatchStart(m), BatchEnd(m))[i] :
               i \in 1 .. Len(SubSeq(m.keys, BatchStart(m), BatchEnd(m)))}
            = {m.keys[i] : i \in m.next_index + 1 .. BatchEnd(m)}
         /\ {m.keys[i] : i \in m.next_index + 1 .. BatchEnd(m)} \subseteq Keys
<1> DEFINE n == m.next_index
           e == BatchEnd(m)
           s == SubSeq(m.keys, BatchStart(m), e)
<1>1. /\ n \in Nat /\ m.keys \in Seq(Keys) /\ Len(m.keys) \in Nat
      /\ BATCH \in Nat \ {0}
  BY BoundsAssumption DEF ModalState
<1>2. e \in Nat /\ n < e /\ e <= Len(m.keys) /\ BatchStart(m) = n + 1
  BY <1>1 DEF BatchEnd, BatchStart, Smaller
<1> HIDE DEF e, n
<1>3. \A i \in n + 1 .. e : m.keys[i] \in Keys
  <2>1. \A i \in n + 1 .. e : i \in 1 .. Len(m.keys)
    BY <1>1, <1>2
  <2> QED BY <1>1, <2>1, ElementOfSeq
<1>4. /\ s \in Seq(Keys)
      /\ Len(s) = e - n
      /\ \A i \in 1 .. e - n : s[i] = m.keys[n + i]
  <2>1. n + 1 \in Int /\ e \in Int /\ n + 1 <= e
    BY <1>1, <1>2
  <2>2. /\ s \in Seq(Keys)
        /\ Len(s) = e - (n + 1) + 1
        /\ \A i \in 1 .. e - (n + 1) + 1 : s[i] = m.keys[n + 1 + i - 1]
    BY <1>2, <1>3, <2>1, SubSeqProperties
  <2> HIDE DEF s
  <2>3. ASSUME NEW i \in 1 .. e - n PROVE s[i] = m.keys[n + i]
    <3>1. i \in 1 .. e - (n + 1) + 1 /\ n + 1 + i - 1 = n + i
      BY <1>1, <1>2
    <3>2. s[i] = m.keys[n + 1 + i - 1]
      BY <2>2, <3>1
    <3> QED BY <3>1, <3>2
  <2>4. e - (n + 1) + 1 = e - n
    BY <1>1, <1>2
  <2> QED BY <2>2, <2>3, <2>4
<1> HIDE DEF s
<1>5. {s[i] : i \in 1 .. Len(s)} = {m.keys[i] : i \in n + 1 .. e}
  <2>1. ASSUME NEW i \in 1 .. Len(s) PROVE \E j \in n + 1 .. e : s[i] = m.keys[j]
    <3>1. n + i \in n + 1 .. e
      BY <1>1, <1>2, <1>4
    <3> QED BY <1>4, <3>1
  <2>2. ASSUME NEW j \in n + 1 .. e PROVE \E i \in 1 .. Len(s) : m.keys[j] = s[i]
    <3>1. j - n \in 1 .. e - n /\ n + (j - n) = j
      BY <1>1, <1>2
    <3> QED BY <1>4, <3>1
  <2>3. \A x \in {s[i] : i \in 1 .. Len(s)} : x \in {m.keys[i] : i \in n + 1 .. e}
    BY <2>1
  <2>4. \A x \in {m.keys[i] : i \in n + 1 .. e} : x \in {s[i] : i \in 1 .. Len(s)}
    BY <2>2
  <2> QED BY <2>3, <2>4
<1>6. {m.keys[i] : i \in n + 1 .. e} \subseteq Keys
  BY <1>3
<1> QED BY <1>2, <1>4, <1>5, <1>6 DEF e, s, n

-----------------------------------------------------------------------------
(* Types *)

LEMMA NoModalType == NoModal \in ModalState
<1>1. <<>> \in Seq(Keys)
  BY EmptySeq
<1> QED BY <1>1 DEF NoModal, Modal, ModalState

\* NextType: what the next step leaves has its type.
LEMMA NextType ==
  ASSUME TypeOK, NEW k \in Kinds, NEW m \in ModalState, NEW rest \in SUBSET Batch, NEW agreed,
         ProcessNext(k, m, rest, agreed)
  PROVE  /\ selected_keys' \subseteq Keys
         /\ modals' \in [Kinds -> ModalState]
         /\ batches' \subseteq Batch
         /\ sent' \in [Kinds -> Seq(Keys)]
<1>1. NoModal \in ModalState
  BY NoModalType
<1>2. m.next_index \in Nat /\ Len(m.keys) \in Nat
  BY DEF ModalState
<1>3. CASE m.next_index >= Len(m.keys)
  BY <1>1, <1>3 DEF TypeOK, ProcessNext, Finished
<1>4. CASE ~(m.next_index >= Len(m.keys))
  <2> DEFINE e == BatchEnd(m)
             s == SubSeq(m.keys, BatchStart(m), e)
             ks == {s[i] : i \in 1 .. Len(s)}
             b == [kind |-> k, nr |-> opens, prefix |-> m.prefix, keys |-> ks,
                   server |-> client, status |-> "sent", count |-> 0,
                   confirmed |-> {client} \X ks \subseteq agreed]
  <2>1. m.next_index < Len(m.keys)
    BY <1>2, <1>4
  <2>2. e \in Nat /\ s \in Seq(Keys) /\ ks \subseteq Keys
    BY <2>1, BatchRange
  <2>3. /\ modals' = [modals EXCEPT ![k] = [m EXCEPT !.deleting = TRUE, !.next_index = e]]
        /\ batches' = rest \union {b}
        /\ sent' = [sent EXCEPT ![k] = IF mixed[k] THEN <<>> ELSE @ \o s]
        /\ UNCHANGED selected_keys
    BY <1>4 DEF ProcessNext
  <2> HIDE DEF e, s
  <2>4. b \in Batch
    <3>1. m.prefix \in PrefixNames \union {NoPrefix}
      BY DEF ModalState
    <3> HIDE DEF ks
    <3>2. ({client} \X ks \subseteq agreed) \in BOOLEAN
      OBVIOUS
    <3> QED BY <2>2, <3>1, <3>2 DEF Batch, TypeOK
  <2> HIDE DEF b, ks
  <2>5. [m EXCEPT !.deleting = TRUE, !.next_index = e] \in ModalState
    BY <2>2 DEF ModalState
  <2>6. sent' \in [Kinds -> Seq(Keys)]
    <3>1. sent[k] \in Seq(Keys) /\ <<>> \in Seq(Keys)
      BY EmptySeq DEF TypeOK
    <3>2. sent[k] \o s \in Seq(Keys)
      BY <2>2, <3>1, ConcatProperties
    <3> QED BY <2>3, <3>1, <3>2 DEF TypeOK
  <2> QED BY <2>3, <2>4, <2>5, <2>6 DEF TypeOK
<1> QED BY <1>3, <1>4

LEMMA InitType == Init => TypeOK
<1>1. NoModal \in ModalState
  BY NoModalType
<1>2. <<>> \in Seq(Keys)
  BY EmptySeq
<1> QED BY <1>1, <1>2, ServersAssumption DEF Init, TypeOK

\* StepType: every step keeps the shape of the state.
LEMMA StepType == TypeOK /\ [Next]_vars => TypeOK'
<1> SUFFICES ASSUME TypeOK, [Next]_vars PROVE TypeOK'
  OBVIOUS
<1>1. /\ client \in Servers /\ selected_keys \subseteq Keys
      /\ modals \in [Kinds -> ModalState]
      /\ lists \subseteq List /\ batches \subseteq Batch
      /\ store \in [Servers -> SUBSET Keys] /\ opens \in Nat
      /\ shown \in [Kinds -> Servers]
      /\ reviewed \in [Kinds -> SUBSET (Servers \X Keys)]
      /\ sent \in [Kinds -> Seq(Keys)]
      /\ mixed \in [Kinds -> BOOLEAN]
  BY DEF TypeOK
<1>2. ASSUME NEW k \in Kinds, NEW modal \in ModalState, Opened(k, modal),
             UNCHANGED lists \/ lists' \subseteq List
      PROVE  TypeOK'
  BY <1>1, <1>2, EmptySeq DEF Opened, TypeOK
<1>3. CASE \E s \in Servers : ConnectTo(s)
  BY <1>1, <1>3 DEF ConnectTo, TypeOK, tasks
<1>4. CASE \E key \in Keys : ToggleObjectSelected(key)
  BY <1>1, <1>4 DEF ToggleObjectSelected, TypeOK, tasks, history
<1>5. CASE ClearObjectSelection
  BY <1>1, <1>5 DEF ClearObjectSelection, TypeOK, tasks, history
<1>6. CASE OpenBulkDeleteModal
  <2>1. PICK keys \in SetToSeqs(selected_keys) : Opened("bulk", Modal(NoPrefix, keys, FALSE))
    BY <1>6 DEF OpenBulkDeleteModal
  <2>2. IsFiniteSet(selected_keys)
    BY <1>1, KeysAssumption, FS_Subset
  <2>3. keys \in Seq(Keys)
    BY <1>1, <2>2, SetToSeqsType, SeqMonotonic
  <2>4. Modal(NoPrefix, keys, FALSE) \in ModalState
    BY <2>3 DEF Modal, ModalState
  <2> QED BY <1>2, <1>6, <2>1, <2>4 DEF OpenBulkDeleteModal, Kinds
<1>7. CASE \E p \in PrefixNames : OpenPrefixDeleteModal(p)
  <2>1. PICK p \in PrefixNames : OpenPrefixDeleteModal(p)
    BY <1>7
  <2>2. Modal(p, <<>>, TRUE) \in ModalState
    BY EmptySeq DEF Modal, ModalState
  <2>3. [nr |-> opens, prefix |-> p, server |-> client, status |-> "sent", keys |-> <<>>]
          \in List
    BY <1>1, EmptySeq DEF List
  <2> QED BY <1>1, <1>2, <2>1, <2>2, <2>3 DEF OpenPrefixDeleteModal, Kinds
<1>8. ASSUME NEW k \in Kinds, CloseDeleteModal(k) PROVE TypeOK'
  BY <1>1, <1>8, NoModalType DEF CloseDeleteModal, TypeOK, tasks, history
<1>9. ASSUME NEW k \in Kinds, ConfirmDelete(k) PROVE TypeOK'
  <2> DEFINE m == modals[k]
             agreed == reviewed[k] \union ({shown[k]} \X {m.keys[i] : i \in 1 .. Len(m.keys)})
  <2>1. m \in ModalState
    BY <1>1
  <2>2. {m.keys[i] : i \in 1 .. Len(m.keys)} \subseteq Keys
    BY <2>1, ElementOfSeq DEF ModalState
  <2>3. agreed \in SUBSET (Servers \X Keys)
    BY <1>1, <2>2
  <2>4. /\ ProcessNext(k, m, batches, agreed)
        /\ reviewed' = [reviewed EXCEPT ![k] = agreed]
        /\ UNCHANGED <<client, lists, store, opens, shown, mixed>>
    BY <1>9 DEF ConfirmDelete
  <2> HIDE DEF m, agreed
  <2>5. /\ selected_keys' \subseteq Keys /\ modals' \in [Kinds -> ModalState]
        /\ batches' \subseteq Batch /\ sent' \in [Kinds -> Seq(Keys)]
    BY <1>1, <2>1, <2>4, NextType
  <2> QED BY <1>1, <2>3, <2>4, <2>5 DEF TypeOK
<1>10. ASSUME NEW l \in lists, ServerLists(l) PROVE TypeOK'
  <2>1. PICK status \in {"ok", "failed"} :
          lists' = (lists \ {l}) \union
            {[l EXCEPT !.status = status,
                       !.keys = IF status = "ok"
                                  THEN SetToSeq(store[l.server] \intersect Under[l.prefix])
                                  ELSE <<>>]}
    BY <1>10 DEF ServerLists
  <2>2. l \in List
    BY <1>1
  <2> DEFINE held == store[l.server] \intersect Under[l.prefix]
  <2>3. held \subseteq Keys /\ IsFiniteSet(held)
    <3>1. held \subseteq Keys
      BY <1>1, <2>2 DEF List
    <3> QED BY <3>1, KeysAssumption, FS_Subset
  <2>4. SetToSeq(held) \in Seq(Keys) /\ <<>> \in Seq(Keys)
    BY <2>3, SetToSeqType, SeqMonotonic, EmptySeq
  <2> HIDE DEF held
  <2>5. lists' \subseteq List
    BY <1>1, <2>1, <2>2, <2>4 DEF List, held
  <2>6. UNCHANGED <<client, selected_keys, modals, batches, store, opens, shown, reviewed,
                    sent, mixed>>
    BY <1>10 DEF ServerLists, history
  <2> QED BY <1>1, <2>5, <2>6 DEF TypeOK
<1>11. ASSUME NEW b \in batches, ServerDeletes(b) PROVE TypeOK'
  <2>1. PICK failed \in SUBSET b.keys, status \in {"ok", "failed"} :
          /\ store' = [store EXCEPT ![b.server] = @ \ (b.keys \ failed)]
          /\ batches' = (batches \ {b}) \union
               {[b EXCEPT !.status = status,
                          !.count = IF status = "ok" THEN Cardinality(b.keys \ failed)
                                                     ELSE 0]}
    BY <1>11 DEF ServerDeletes
  <2>2. b \in Batch
    BY <1>1
  <2>3. Cardinality(b.keys \ failed) \in Nat
    <3>1. b.keys \ failed \in SUBSET Keys
      BY <2>2 DEF Batch
    <3> QED BY <3>1, KeysAssumption, FS_Subset, FS_CardinalityType
  <2> DEFINE n == IF status = "ok" THEN Cardinality(b.keys \ failed) ELSE 0
  <2>4. batches' \subseteq Batch
    <3>1. n \in Nat
      BY <2>3
    <3>2. batches' = (batches \ {b}) \union {[b EXCEPT !.status = status, !.count = n]}
      BY <2>1
    <3> HIDE DEF n
    <3>3. [b EXCEPT !.status = status, !.count = n] \in Batch
      BY <2>2, <3>1 DEF Batch
    <3> QED BY <1>1, <3>2, <3>3
  <2>5. store' \in [Servers -> SUBSET Keys]
    BY <1>1, <2>1
  <2> QED BY <1>1, <1>11, <2>4, <2>5 DEF ServerDeletes, TypeOK, history
<1>12. ASSUME NEW l \in lists, PrefixDeleteListLoaded(l) PROVE TypeOK'
  <2>1. l \in List /\ modals["prefix"] \in ModalState
    BY <1>1 DEF Kinds
  <2>2. [modals["prefix"] EXCEPT !.loading = FALSE,
           !.keys = IF l.status = "ok" THEN l.keys ELSE @] \in ModalState
    BY <2>1 DEF List, ModalState
  <2>3. (IF l.status = "ok" THEN l.server ELSE shown["prefix"]) \in Servers
    BY <1>1, <2>1 DEF List, Kinds
  <2> QED BY <1>1, <1>12, <2>2, <2>3 DEF PrefixDeleteListLoaded, TypeOK
<1>13. ASSUME NEW b \in batches, BatchFinished(b) PROVE TypeOK'
  <2> DEFINE m == modals[b.kind]
             counted == [m EXCEPT !.deleted = @ + b.count]
  <2>1. b \in Batch /\ b.kind \in Kinds /\ m \in ModalState
    BY <1>1 DEF Batch
  <2>2. counted \in ModalState
    BY <2>1 DEF Batch, ModalState
  <2>3. UNCHANGED <<client, lists, store, opens, shown, reviewed, mixed>>
    BY <1>13 DEF BatchFinished
  <2>4. CASE ProcessNext(b.kind, counted, batches \ {b}, reviewed[b.kind])
    <3> HIDE DEF counted
    <3>1. /\ selected_keys' \subseteq Keys /\ modals' \in [Kinds -> ModalState]
          /\ batches' \subseteq Batch /\ sent' \in [Kinds -> Seq(Keys)]
      BY <1>1, <2>1, <2>2, <2>4, NextType
    <3> QED BY <1>1, <2>3, <3>1 DEF TypeOK
  <2>5. CASE /\ modals' = [modals EXCEPT ![b.kind].deleting = FALSE]
             /\ batches' = batches \ {b}
             /\ UNCHANGED <<selected_keys, sent>>
    <3>1. [m EXCEPT !.deleting = FALSE] \in ModalState
      BY <2>1 DEF ModalState
    <3> QED BY <1>1, <2>1, <2>3, <2>5, <3>1 DEF TypeOK
  <2>6. CASE batches' = batches \ {b} /\ UNCHANGED <<selected_keys, modals, sent>>
    BY <1>1, <2>3, <2>6 DEF TypeOK
  <2> QED BY <1>13, <2>4, <2>5, <2>6 DEF BatchFinished
<1>14. CASE UNCHANGED vars
  BY <1>1, <1>14 DEF vars, tasks, history, TypeOK
<1> QED BY <1>3, <1>4, <1>5, <1>6, <1>7, <1>8, <1>9, <1>10, <1>11, <1>12, <1>13, <1>14
        DEF Next, User, Server, Answers

-----------------------------------------------------------------------------
(* The invariant *)

OfKind(k)   == {b \in batches : b.kind = k}
KeysOf(m)   == {m.keys[i] : i \in 1 .. Len(m.keys)}

\* The places of m between lo and hi whose keys are not held any more.
GoneIn(m, held, lo, hi) == {i \in lo + 1 .. hi : m.keys[i] \notin held}

\* What dialog m has under way: one batch at most, while it deletes.
Busy(m, bs) ==
  /\ bs # {} => m.open /\ m.deleting
  /\ \A b, c \in bs : b = c

\* A dialog that waits for its listing has nothing yet.
Blank(m) ==
  m.loading => ~m.deleting /\ m.keys = <<>> /\ m.next_index = 0 /\ m.deleted = 0

\* The next index is how far its keys were sent, and at knows them confirmed.
Ordered(m, bs, at, agreed, keys) ==
  /\ m.next_index <= Len(m.keys)
  /\ keys = SubSeq(m.keys, 1, m.next_index)
  /\ bs # {} => {at} \X KeysOf(m) \subseteq agreed

\* What was counted, and will be when the batch is handled, is gone.
Honest(m, bs, at, held) ==
  /\ m.deleted <= Cardinality(GoneIn(m, held, 0, m.next_index))
  /\ \A b \in bs :
       /\ b.server = at
       /\ \E lo \in 0 .. m.next_index :
            /\ b.keys = {m.keys[i] : i \in lo + 1 .. m.next_index}
            /\ m.deleted <= Cardinality(GoneIn(m, held, 0, lo))
            /\ b.count <= Cardinality(GoneIn(m, held, lo, m.next_index))

\* All of it, for a dialog m that is open.
Sound(m, bs, at, held, agreed, keys) ==
  Blank(m) /\ Ordered(m, bs, at, agreed, keys) /\ Honest(m, bs, at, held)

\* The dialogs of kind k, as long as none was mixed with another.
Own(k) ==
  /\ Busy(modals[k], OfKind(k))
  /\ \A b \in OfKind(k) : b.confirmed
  /\ modals[k].open =>
       /\ shown[k] = client
       /\ Sound(modals[k], OfKind(k), client, store[client], reviewed[k], sent[k])

\* The listings of the prefix dialog, as long as it was not mixed.
OwnList ==
  /\ \A l, n \in lists : l = n
  /\ modals["prefix"].open => \A l \in lists : l.server = client /\ modals["prefix"].loading

IInv ==
  /\ TypeOK
  /\ \A k \in Kinds : ~mixed[k] => Own(k)
  /\ ~mixed["prefix"] => OwnList

-----------------------------------------------------------------------------
(* What is counted *)

\* GoneType: the places of a range are finitely many.
LEMMA GoneType ==
  ASSUME NEW m, NEW held, NEW lo \in Nat, NEW hi \in Nat
  PROVE  IsFiniteSet(GoneIn(m, held, lo, hi)) /\ Cardinality(GoneIn(m, held, lo, hi)) \in Nat
<1>1. IsFiniteSet(lo + 1 .. hi)
  <2>1. lo + 1 \in Int /\ hi \in Int
    OBVIOUS
  <2> QED BY <2>1, FS_Interval
<1>2. GoneIn(m, held, lo, hi) \subseteq lo + 1 .. hi
  BY DEF GoneIn
<1> QED BY <1>1, <1>2, FS_Subset, FS_CardinalityType

\* GoneGrows: what is deleted stays deleted.
LEMMA GoneGrows ==
  ASSUME NEW m, NEW held, NEW after \in SUBSET held, NEW lo \in Nat, NEW hi \in Nat
  PROVE  Cardinality(GoneIn(m, held, lo, hi)) <= Cardinality(GoneIn(m, after, lo, hi))
<1>1. GoneIn(m, held, lo, hi) \subseteq GoneIn(m, after, lo, hi)
  BY DEF GoneIn
<1> QED BY <1>1, GoneType, FS_Subset

\* GoneJoins: two ranges that follow each other.
LEMMA GoneJoins ==
  ASSUME NEW m, NEW held, NEW mid \in Nat, NEW hi \in Nat, mid <= hi
  PROVE  Cardinality(GoneIn(m, held, 0, hi)) =
           Cardinality(GoneIn(m, held, 0, mid)) + Cardinality(GoneIn(m, held, mid, hi))
<1> DEFINE A == GoneIn(m, held, 0, mid)
           B == GoneIn(m, held, mid, hi)
<1>1. GoneIn(m, held, 0, hi) = A \union B /\ A \intersect B = {}
  BY DEF GoneIn
<1>2. /\ IsFiniteSet(A) /\ IsFiniteSet(B)
      /\ Cardinality(A) \in Nat /\ Cardinality(B) \in Nat
  BY GoneType
<1> HIDE DEF A, B
<1>3. Cardinality(A \union B) = Cardinality(A) + Cardinality(B) - Cardinality(A \intersect B)
  BY <1>2, FS_Union
<1>4. Cardinality(A \intersect B) = 0
  BY <1>1, FS_EmptySet
<1>5. Cardinality(A \union B) = Cardinality(A) + Cardinality(B)
  BY <1>2, <1>3, <1>4
<1> QED BY <1>1, <1>5 DEF A, B

\* GoneCounts: a range covers every key that is gone and was asked for in it.
LEMMA GoneCounts ==
  ASSUME NEW m, NEW held, NEW lo \in Nat, NEW hi \in Nat, NEW keys,
         keys \subseteq {m.keys[i] : i \in lo + 1 .. hi}, keys \intersect held = {}
  PROVE  Cardinality(keys) <= Cardinality(GoneIn(m, held, lo, hi))
<1> DEFINE S == {i \in lo + 1 .. hi : m.keys[i] \in keys}
           f == [i \in S |-> m.keys[i]]
<1>1. S \subseteq GoneIn(m, held, lo, hi)
  BY DEF GoneIn
<1>2. IsFiniteSet(S) /\ Cardinality(S) <= Cardinality(GoneIn(m, held, lo, hi))
  BY <1>1, GoneType, FS_Subset
<1>3. f \in Surjection(S, keys)
  BY DEF Surjection
<1>4. IsFiniteSet(keys) /\ Cardinality(keys) <= Cardinality(S)
  BY <1>2, <1>3, FS_Surjection
<1>5. Cardinality(keys) \in Nat /\ Cardinality(S) \in Nat
      /\ Cardinality(GoneIn(m, held, lo, hi)) \in Nat
  BY <1>2, <1>4, GoneType, FS_CardinalityType
<1> QED BY <1>2, <1>4, <1>5

-----------------------------------------------------------------------------
(* The invariant holds *)

\* OwnKept: a step that leaves a dialog alone, but for deletions on a server.
LEMMA OwnKept ==
  ASSUME NEW k \in Kinds, TypeOK, Own(k), store' \in [Servers -> SUBSET Keys],
         \A s \in Servers : store'[s] \subseteq store[s],
         OfKind(k)' = OfKind(k), modals'[k] = modals[k],
         client' = client, shown'[k] = shown[k], reviewed'[k] = reviewed[k], sent'[k] = sent[k]
  PROVE  Own(k)'
<1> DEFINE m == modals[k]
           bs == OfKind(k)
<1>1. m \in ModalState /\ m.next_index \in Nat /\ client \in Servers
      /\ m.deleted \in Nat /\ \A b \in bs : b.count \in Nat
  BY DEF TypeOK, ModalState, OfKind, Batch
<1>2. store'[client] \in SUBSET store[client]
  BY <1>1
<1>3. ASSUME NEW lo \in Nat, NEW hi \in Nat, NEW n \in Nat,
             n <= Cardinality(GoneIn(m, store[client], lo, hi))
      PROVE  n <= Cardinality(GoneIn(m, store'[client], lo, hi))
  BY <1>2, <1>3, GoneGrows, GoneType
<1>4. Honest(m, bs, client, store[client]) => Honest(m, bs, client, store'[client])
  <2> HIDE DEF m, bs
  <2> QED BY <1>1, <1>3 DEF Honest
<1> QED BY <1>4 DEF Own, Sound

\* NextOwn: a dialog that is confirmed keeps its invariant when it goes on.
LEMMA NextOwn ==
  ASSUME TypeOK, NEW k \in Kinds, ~mixed[k], NEW m \in ModalState, NEW rest \in SUBSET Batch,
         NEW agreed, m.open, \A b \in rest : b.kind # k,
         shown[k] = client, {client} \X KeysOf(m) \subseteq agreed,
         Sound(m, {}, client, store[client], agreed, sent[k]),
         ProcessNext(k, m, rest, agreed), reviewed'[k] = agreed,
         UNCHANGED <<client, store, shown>>
  PROVE  Own(k)'
<1>1. m.next_index \in Nat /\ Len(m.keys) \in Nat /\ m.keys \in Seq(Keys) /\ client \in Servers
      /\ m.deleted \in Nat
  BY DEF ModalState, TypeOK
<1>2. CASE m.next_index >= Len(m.keys)
  <2>1. modals' = [modals EXCEPT ![k] = NoModal] /\ batches' = rest
    BY <1>2 DEF ProcessNext, Finished
  <2>2. modals'[k].open = FALSE
    BY <2>1 DEF TypeOK, NoModal, Modal
  <2>3. OfKind(k)' = {}
    BY <2>1 DEF OfKind
  <2> QED BY <2>2, <2>3 DEF Own, Busy
<1>3. CASE ~(m.next_index >= Len(m.keys))
  <2> DEFINE e == BatchEnd(m)
             s == SubSeq(m.keys, BatchStart(m), e)
             ks == {s[i] : i \in 1 .. Len(s)}
             b == [kind |-> k, nr |-> opens, prefix |-> m.prefix, keys |-> ks,
                   server |-> client, status |-> "sent", count |-> 0,
                   confirmed |-> {client} \X ks \subseteq agreed]
             after == [m EXCEPT !.deleting = TRUE, !.next_index = e]
             held == store[client]
  <2>1. m.next_index < Len(m.keys)
    BY <1>1, <1>3
  <2>2. /\ modals' = [modals EXCEPT ![k] = after]
        /\ batches' = rest \union {b}
        /\ sent' = [sent EXCEPT ![k] = @ \o s]
    BY <1>3 DEF ProcessNext
  <2>3. modals'[k] = after /\ sent'[k] = sent[k] \o s
    BY <2>2 DEF TypeOK
  <2>19. ~m.loading
    <3>1. m.loading => Len(m.keys) = 0
      BY DEF Sound, Blank
    <3> QED BY <1>1, <2>1, <3>1 DEF ModalState
  <2>4. /\ after.open /\ after.deleting /\ ~after.loading /\ after.next_index = e
        /\ after.keys = m.keys /\ after.deleted = m.deleted
    BY <2>19 DEF ModalState
  <2>5. /\ e \in Nat /\ m.next_index < e /\ e <= Len(m.keys)
        /\ ks = {m.keys[i] : i \in m.next_index + 1 .. e}
    BY <2>1, BatchRange
  <2>6. BatchStart(m) = m.next_index + 1
    BY DEF BatchStart
  <2> HIDE DEF e
  <2>7. sent'[k] = SubSeq(m.keys, 1, e)
    <3>1. sent[k] = SubSeq(m.keys, 1, m.next_index)
      BY DEF Sound, Ordered
    <3>2. /\ 1 \in 1 .. Len(m.keys) + 1 /\ m.next_index \in 1 - 1 .. Len(m.keys)
          /\ e \in m.next_index .. Len(m.keys)
      BY <1>1, <2>1, <2>5
    <3>3. SubSeq(m.keys, 1, m.next_index) \o SubSeq(m.keys, m.next_index + 1, e)
            = SubSeq(m.keys, 1, e)
      BY <1>1, <3>2, ConcatAdjacentSubSeq
    <3> QED BY <2>3, <2>6, <3>1, <3>3
  <2> HIDE DEF s
  <2>8. /\ b.kind = k /\ b.server = client /\ b.count = 0 /\ b.keys = ks
        /\ b.confirmed = ({client} \X ks \subseteq agreed)
    OBVIOUS
  <2>9. {client} \X ks \subseteq agreed
    <3>1. ks \subseteq KeysOf(m)
      <4>1. \A i \in m.next_index + 1 .. e : i \in 1 .. Len(m.keys)
        BY <1>1, <2>5
      <4> QED BY <2>5, <4>1 DEF KeysOf
    <3> QED BY <3>1
  <2> HIDE DEF b, ks, after
  <2>10. OfKind(k)' = {b}
    BY <2>2, <2>8 DEF OfKind
  <2>11. KeysOf(after) = KeysOf(m)
    BY <2>4 DEF KeysOf
  <2>12. \A lo, hi : GoneIn(after, held, lo, hi) = GoneIn(m, held, lo, hi)
    BY <2>4 DEF GoneIn
  <2>13. m.deleted <= Cardinality(GoneIn(m, held, 0, m.next_index))
    BY DEF Sound, Honest
  <2>14. m.deleted <= Cardinality(GoneIn(m, held, 0, e))
    <3>1. Cardinality(GoneIn(m, held, 0, e)) =
            Cardinality(GoneIn(m, held, 0, m.next_index)) +
            Cardinality(GoneIn(m, held, m.next_index, e))
      BY <1>1, <2>5, GoneJoins
    <3>2. /\ Cardinality(GoneIn(m, held, m.next_index, e)) \in Nat
          /\ Cardinality(GoneIn(m, held, 0, m.next_index)) \in Nat
      BY <1>1, <2>5, GoneType
    <3> HIDE DEF held
    <3> QED BY <1>1, <2>13, <3>1, <3>2
  <2>15. Honest(after, {b}, client, held)
    <3>1. /\ m.next_index \in 0 .. e
          /\ 0 <= Cardinality(GoneIn(m, held, m.next_index, e))
      BY <1>1, <2>5, GoneType
    <3> HIDE DEF held
    <3>2. b.keys = {after.keys[i] : i \in m.next_index + 1 .. e}
      BY <2>4, <2>5, <2>8
    <3> QED BY <2>4, <2>8, <2>12, <2>13, <2>14, <3>1, <3>2 DEF Honest
  <2>16. Ordered(after, {b}, client, agreed, sent'[k])
    BY <2>4, <2>5, <2>7, <2>11 DEF Ordered
  <2>17. Blank(after)
    BY <2>4 DEF Blank
  <2>18. Busy(after, {b})
    BY <2>4 DEF Busy
  <2> QED BY <2>3, <2>8, <2>9, <2>10, <2>15, <2>16, <2>17, <2>18 DEF Own, Sound
<1> QED BY <1>2, <1>3

\* NextOthers: the next step of a dialog leaves the other kind alone.
LEMMA NextOthers ==
  ASSUME TypeOK, NEW k \in Kinds, NEW m, NEW rest, NEW agreed, ProcessNext(k, m, rest, agreed),
         NEW other \in Kinds, other # k
  PROVE  /\ modals'[other] = modals[other] /\ sent'[other] = sent[other]
         /\ OfKind(other)' = {b \in rest : b.kind = other}
  BY DEF ProcessNext, Finished, TypeOK, OfKind

\* NewSound: a dialog that has just been opened, or listed, has nothing to answer for.
LEMMA NewSound ==
  ASSUME NEW m \in ModalState, m.next_index = 0, m.deleted = 0, Blank(m),
         NEW at, NEW held, NEW agreed
  PROVE  Sound(m, {}, at, held, agreed, <<>>)
<1>1. m.keys \in Seq(Keys) /\ Len(m.keys) \in Nat
  BY DEF ModalState
<1>2. SubSeq(m.keys, 1, 0) = <<>>
  BY SubSeqEmpty
<1>3. Ordered(m, {}, at, agreed, <<>>)
  BY <1>1, <1>2 DEF Ordered
<1>4. 0 <= Cardinality(GoneIn(m, held, 0, 0))
  BY GoneType
<1>5. Honest(m, {}, at, held)
  BY <1>4 DEF Honest
<1> QED BY <1>3, <1>5 DEF Sound

\* CountedSound: the dialog when its batch is handled, whatever the answer.
LEMMA CountedSound ==
  ASSUME NEW m \in ModalState, NEW b \in Batch, NEW at, NEW held, NEW agreed, NEW keys,
         Sound(m, {b}, at, held, agreed, keys), m.deleting
  PROVE  /\ Sound([m EXCEPT !.deleted = @ + b.count], {}, at, held, agreed, keys)
         /\ Sound([m EXCEPT !.deleting = FALSE], {}, at, held, agreed, keys)
<1> DEFINE x == [m EXCEPT !.deleted = @ + b.count]
           y == [m EXCEPT !.deleting = FALSE]
<1>1. /\ m.next_index \in Nat /\ m.deleted \in Nat /\ b.count \in Nat
      /\ ~m.loading
  BY DEF ModalState, Batch, Sound, Blank
<1>2. /\ x.next_index = m.next_index /\ x.keys = m.keys /\ x.loading = m.loading
      /\ x.deleted = m.deleted + b.count
      /\ y.next_index = m.next_index /\ y.keys = m.keys /\ y.loading = m.loading
      /\ y.deleted = m.deleted
  BY DEF ModalState
<1> HIDE DEF x, y
<1>3. \A lo, hi : /\ GoneIn(x, held, lo, hi) = GoneIn(m, held, lo, hi)
                  /\ GoneIn(y, held, lo, hi) = GoneIn(m, held, lo, hi)
  BY <1>2 DEF GoneIn
<1>4. PICK lo \in 0 .. m.next_index :
           /\ m.deleted <= Cardinality(GoneIn(m, held, 0, lo))
           /\ b.count <= Cardinality(GoneIn(m, held, lo, m.next_index))
  BY DEF Sound, Honest
<1>5. x.deleted <= Cardinality(GoneIn(x, held, 0, x.next_index))
  <2>1. lo \in Nat /\ lo <= m.next_index
    BY <1>1
  <2>2. Cardinality(GoneIn(m, held, 0, m.next_index)) =
          Cardinality(GoneIn(m, held, 0, lo)) + Cardinality(GoneIn(m, held, lo, m.next_index))
    BY <1>1, <2>1, GoneJoins
  <2>3. /\ Cardinality(GoneIn(m, held, 0, lo)) \in Nat
        /\ Cardinality(GoneIn(m, held, lo, m.next_index)) \in Nat
    BY <1>1, <2>1, GoneType
  <2>4. m.deleted + b.count <= Cardinality(GoneIn(m, held, 0, m.next_index))
    BY <1>1, <1>4, <2>2, <2>3
  <2> QED BY <1>2, <1>3, <2>4
<1>6. y.deleted <= Cardinality(GoneIn(y, held, 0, y.next_index))
  BY <1>2, <1>3 DEF Sound, Honest
<1>7. /\ m.next_index <= Len(m.keys) /\ keys = SubSeq(m.keys, 1, m.next_index)
  BY DEF Sound, Ordered
<1>8. Sound(x, {}, at, held, agreed, keys)
  BY <1>1, <1>2, <1>5, <1>7 DEF Sound, Blank, Ordered, Honest
<1>9. Sound(y, {}, at, held, agreed, keys)
  BY <1>1, <1>2, <1>6, <1>7 DEF Sound, Blank, Ordered, Honest
<1> QED BY <1>8, <1>9 DEF x, y

\* OpenedOwn: a dialog that opens, unless a task of its kind is under way.
LEMMA OpenedOwn ==
  ASSUME IInv, NEW k \in Kinds, NEW modal \in ModalState, Opened(k, modal),
         modal.next_index = 0, modal.deleted = 0, Blank(modal),
         NEW j \in Kinds, ~mixed'[j]
  PROVE  ~mixed[j] /\ Own(j)'
<1>1. TypeOK /\ (~mixed[j] => Own(j))
  BY DEF IInv
<1>2. /\ modals' = [modals EXCEPT ![k] = modal]
      /\ shown' = [shown EXCEPT ![k] = client]
      /\ reviewed' = [reviewed EXCEPT ![k] = {}]
      /\ sent' = [sent EXCEPT ![k] = <<>>]
      /\ mixed' = [mixed EXCEPT ![k] =
           @ \/ (\E b \in batches : b.kind = k) \/ (k = "prefix" /\ lists # {})]
      /\ UNCHANGED <<client, selected_keys, batches, store>>
  BY DEF Opened
<1>3. ~mixed[j]
  BY <1>1, <1>2 DEF TypeOK
<1>4. OfKind(j)' = OfKind(j) /\ store' = store
  BY <1>2 DEF OfKind
<1>5. CASE j # k
  <2>1. /\ modals'[j] = modals[j] /\ shown'[j] = shown[j]
        /\ reviewed'[j] = reviewed[j] /\ sent'[j] = sent[j] /\ client' = client
    BY <1>1, <1>2, <1>5 DEF TypeOK
  <2>2. store' \in [Servers -> SUBSET Keys] /\ \A s \in Servers : store'[s] \subseteq store[s]
    BY <1>1, <1>4 DEF TypeOK
  <2> QED BY <1>1, <1>3, <1>4, <2>1, <2>2, OwnKept
<1>6. CASE j = k
  <2>1. modals'[j] = modal /\ shown'[j] = client /\ sent'[j] = <<>> /\ client' = client
    BY <1>1, <1>2, <1>6 DEF TypeOK
  <2>2. OfKind(j) = {}
    BY <1>1, <1>2, <1>6 DEF TypeOK, OfKind
  <2>3. Sound(modal, {}, client', store'[client'], reviewed'[j], <<>>)
    BY NewSound
  <2> QED BY <1>3, <1>4, <2>1, <2>2, <2>3 DEF Own, Busy
<1> QED BY <1>5, <1>6

\* TheBatch: a batch of a dialog on its own is the only one, and the dialog is there.
LEMMA TheBatch ==
  ASSUME NEW b \in batches, Own(b.kind)
  PROVE  /\ OfKind(b.kind) = {b} /\ b.confirmed /\ shown[b.kind] = client
         /\ modals[b.kind].open /\ modals[b.kind].deleting
         /\ Sound(modals[b.kind], {b}, client, store[client], reviewed[b.kind], sent[b.kind])
<1>1. b \in OfKind(b.kind)
  BY DEF OfKind
<1>2. Busy(modals[b.kind], OfKind(b.kind))
  BY DEF Own
<1>3. OfKind(b.kind) = {b} /\ modals[b.kind].open /\ modals[b.kind].deleting
  <2>1. \A c \in OfKind(b.kind) : c = b
    BY <1>1, <1>2 DEF Busy
  <2>2. OfKind(b.kind) # {}
    BY <1>1
  <2> QED BY <1>1, <1>2, <2>1, <2>2 DEF Busy
<1> QED BY <1>1, <1>3 DEF Own

\* StepOwn: every step keeps the invariant of the dialogs.
LEMMA StepOwn ==
  ASSUME IInv, [Next]_vars
  PROVE  /\ \A k \in Kinds : ~mixed'[k] => Own(k)'
         /\ ~mixed'["prefix"] => OwnList'
<1> DEFINE Goal == /\ \A k \in Kinds : ~mixed'[k] => Own(k)'
                   /\ ~mixed'["prefix"] => OwnList'
<1>1. /\ TypeOK
      /\ \A k \in Kinds : ~mixed[k] => Own(k)
      /\ ~mixed["prefix"] => OwnList
      /\ "prefix" \in Kinds /\ "bulk" \in Kinds
  BY DEF IInv, Kinds
<1>2. store \in [Servers -> SUBSET Keys] /\ \A s \in Servers : store[s] \subseteq store[s]
  BY <1>1 DEF TypeOK
<1>3. CASE \E s \in Servers : ConnectTo(s)
  <2>1. /\ mixed' = [k \in Kinds |-> mixed[k] \/ modals[k].open]
        /\ UNCHANGED <<modals, lists, batches>>
    BY <1>3 DEF ConnectTo, tasks
  <2>2. ASSUME NEW k \in Kinds, ~mixed'[k] PROVE ~mixed[k] /\ ~modals[k].open
    BY <2>1, <2>2
  <2>3. \A k \in Kinds : OfKind(k)' = OfKind(k)
    BY <2>1 DEF OfKind
  <2>4. \A k \in Kinds : ~mixed'[k] => Own(k)'
    BY <1>1, <2>1, <2>2, <2>3 DEF Own
  <2>5. ~mixed'["prefix"] => OwnList'
    BY <1>1, <2>1, <2>2 DEF OwnList
  <2> QED BY <2>4, <2>5
<1>4. ASSUME UNCHANGED <<client, modals, lists, batches, store, shown, reviewed, sent, mixed>>
      PROVE  Goal
  <2>1. \A k \in Kinds : OfKind(k)' = OfKind(k)
    BY <1>4 DEF OfKind
  <2>2. \A k \in Kinds : ~mixed'[k] => Own(k)'
    BY <1>1, <1>2, <1>4, <2>1, OwnKept
  <2>3. ~mixed'["prefix"] => OwnList'
    BY <1>1, <1>4 DEF OwnList
  <2> QED BY <2>2, <2>3
<1>5. CASE OpenBulkDeleteModal
  <2>1. PICK keys \in SetToSeqs(selected_keys) : Opened("bulk", Modal(NoPrefix, keys, FALSE))
    BY <1>5 DEF OpenBulkDeleteModal
  <2> DEFINE modal == Modal(NoPrefix, keys, FALSE)
  <2>2. keys \in Seq(Keys)
    <3>1. selected_keys \subseteq Keys /\ IsFiniteSet(selected_keys)
      BY <1>1, KeysAssumption, FS_Subset DEF TypeOK
    <3> QED BY <3>1, SetToSeqsType, SeqMonotonic
  <2>3. modal \in ModalState /\ modal.next_index = 0 /\ modal.deleted = 0 /\ Blank(modal)
    BY <2>2 DEF Modal, ModalState, Blank
  <2> HIDE DEF modal
  <2>4. \A k \in Kinds : ~mixed'[k] => ~mixed[k] /\ Own(k)'
    BY <1>1, <2>1, <2>3, OpenedOwn DEF modal
  <2>5. modals'["prefix"] = modals["prefix"] /\ UNCHANGED <<lists, client>>
    BY <1>1, <1>5, <2>1 DEF Opened, TypeOK, OpenBulkDeleteModal
  <2>6. ~mixed'["prefix"] => OwnList'
    BY <1>1, <2>4, <2>5 DEF OwnList
  <2> QED BY <2>4, <2>6
<1>6. CASE \E p \in PrefixNames : OpenPrefixDeleteModal(p)
  <2>1. PICK p \in PrefixNames : OpenPrefixDeleteModal(p)
    BY <1>6
  <2> DEFINE modal == Modal(p, <<>>, TRUE)
  <2>2. /\ Opened("prefix", modal)
        /\ lists' = lists \union {[nr |-> opens, prefix |-> p, server |-> client,
                                   status |-> "sent", keys |-> <<>>]}
    BY <2>1 DEF OpenPrefixDeleteModal
  <2>3. modal \in ModalState /\ modal.next_index = 0 /\ modal.deleted = 0 /\ Blank(modal)
        /\ modal.loading
    BY EmptySeq DEF Modal, ModalState, Blank
  <2> HIDE DEF modal
  <2>4. \A k \in Kinds : ~mixed'[k] => ~mixed[k] /\ Own(k)'
    BY <1>1, <2>2, <2>3, OpenedOwn
  <2>5. ~mixed'["prefix"] => lists = {}
    BY <1>1, <2>2 DEF Opened, TypeOK
  <2>6. modals'["prefix"] = modal /\ client' = client
    BY <1>1, <2>2 DEF Opened, TypeOK
  <2>7. ~mixed'["prefix"] => OwnList'
    BY <2>2, <2>3, <2>5, <2>6 DEF OwnList
  <2> QED BY <2>4, <2>7
<1>7. ASSUME NEW k \in Kinds, CloseDeleteModal(k) PROVE Goal
  <2>1. /\ modals[k].open /\ ~modals[k].deleting
        /\ modals' = [modals EXCEPT ![k] = NoModal]
        /\ UNCHANGED <<client, lists, batches, store, shown, reviewed, sent, mixed>>
    BY <1>7 DEF CloseDeleteModal, tasks, history
  <2>2. \A j \in Kinds : OfKind(j)' = OfKind(j)
    BY <2>1 DEF OfKind
  <2>3. ~modals'[k].open
    BY <1>1, <2>1 DEF TypeOK, NoModal, Modal
  <2>4. ~mixed[k] => Own(k)'
    BY <1>1, <2>1, <2>2, <2>3 DEF Own, Busy
  <2>5. \A j \in Kinds : j # k => modals'[j] = modals[j]
    BY <1>1, <2>1 DEF TypeOK
  <2>6. \A j \in Kinds : j # k /\ ~mixed[j] => Own(j)'
    BY <1>1, <1>2, <2>1, <2>2, <2>5, OwnKept
  <2>7. ~mixed'["prefix"] => OwnList'
    BY <1>1, <2>1, <2>3, <2>5 DEF OwnList
  <2> QED BY <2>1, <2>4, <2>6, <2>7
<1>8. ASSUME NEW k \in Kinds, ConfirmDelete(k) PROVE Goal
  <2> DEFINE m == modals[k]
             agreed == reviewed[k] \union ({shown[k]} \X KeysOf(m))
  <2>1. /\ m.open /\ ~m.deleting
        /\ k = "prefix" => ~m.loading
        /\ ProcessNext(k, m, batches, agreed)
        /\ reviewed' = [reviewed EXCEPT ![k] = agreed]
        /\ UNCHANGED <<client, lists, store, opens, shown, mixed>>
    BY <1>8 DEF ConfirmDelete, KeysOf
  <2>2. reviewed'[k] = agreed /\ \A j \in Kinds : j # k => reviewed'[j] = reviewed[j]
    BY <1>1, <2>1 DEF TypeOK
  <2>3. ~mixed[k] => Own(k)'
    <3> SUFFICES ASSUME ~mixed[k] PROVE Own(k)'
      OBVIOUS
    <3>1. OfKind(k) = {} /\ shown[k] = client
          /\ Sound(m, {}, client, store[client], reviewed[k], sent[k])
      BY <1>1, <2>1 DEF Own, Busy
    <3>2. Sound(m, {}, client, store[client], agreed, sent[k])
      BY <3>1 DEF Sound, Ordered
    <3>3. \A b \in batches : b.kind # k
      BY <3>1 DEF OfKind
    <3>4. {client} \X KeysOf(m) \subseteq agreed
      BY <3>1
    <3>5. m \in ModalState /\ batches \in SUBSET Batch
      BY <1>1 DEF TypeOK
    <3> HIDE DEF m, agreed
    <3> QED BY <1>1, <2>1, <2>2, <3>1, <3>2, <3>3, <3>4, <3>5, NextOwn
  <2>4. ASSUME NEW j \in Kinds, j # k, ~mixed[j] PROVE Own(j)'
    <3> HIDE DEF m, agreed
    <3>1. modals'[j] = modals[j] /\ sent'[j] = sent[j] /\ OfKind(j)' = OfKind(j)
      BY <1>1, <2>1, <2>4, NextOthers DEF OfKind
    <3> QED BY <1>1, <1>2, <2>1, <2>2, <2>4, <3>1, OwnKept
  <2>5. ~mixed'["prefix"] => OwnList'
    <3> SUFFICES ASSUME ~mixed["prefix"] PROVE OwnList'
      BY <2>1
    <3>1. CASE k = "prefix"
      <4>1. lists = {}
        BY <1>1, <2>1, <3>1 DEF OwnList
      <4> QED BY <2>1, <4>1 DEF OwnList
    <3>2. CASE k # "prefix"
      <4> HIDE DEF m, agreed
      <4>1. modals'["prefix"] = modals["prefix"]
        BY <1>1, <2>1, <3>2, NextOthers
      <4> QED BY <1>1, <2>1, <4>1 DEF OwnList
    <3> QED BY <3>1, <3>2
  <2> QED BY <2>1, <2>3, <2>4, <2>5
<1>9. ASSUME NEW l \in lists, ServerLists(l) PROVE Goal
  <2>1. PICK n : lists' = (lists \ {l}) \union {n} /\ n.server = l.server
    <3>1. PICK status, keys :
            lists' = (lists \ {l}) \union {[l EXCEPT !.status = status, !.keys = keys]}
      BY <1>9 DEF ServerLists
    <3>2. [l EXCEPT !.status = status, !.keys = keys].server = l.server
      BY <1>1 DEF TypeOK, List
    <3> QED BY <3>1, <3>2
  <2>2. UNCHANGED <<client, modals, batches, store, shown, reviewed, sent, mixed>>
    BY <1>9 DEF ServerLists, history
  <2>3. \A k \in Kinds : OfKind(k)' = OfKind(k)
    BY <2>2 DEF OfKind
  <2>4. \A k \in Kinds : ~mixed'[k] => Own(k)'
    BY <1>1, <1>2, <2>2, <2>3, OwnKept
  <2>5. ~mixed'["prefix"] => OwnList'
    BY <1>1, <2>1, <2>2 DEF OwnList
  <2> QED BY <2>4, <2>5
<1>10. ASSUME NEW b \in batches, ServerDeletes(b) PROVE Goal
  <2>1. PICK failed \in SUBSET b.keys, status \in {"ok", "failed"} :
          /\ store' = [store EXCEPT ![b.server] = @ \ (b.keys \ failed)]
          /\ batches' = (batches \ {b}) \union
               {[b EXCEPT !.status = status,
                          !.count = IF status = "ok" THEN Cardinality(b.keys \ failed)
                                                     ELSE 0]}
    BY <1>10 DEF ServerDeletes
  <2> DEFINE n == IF status = "ok" THEN Cardinality(b.keys \ failed) ELSE 0
             x == [b EXCEPT !.status = status, !.count = n]
  <2>2. b \in Batch /\ b.kind \in Kinds /\ b.server \in Servers
    BY <1>1 DEF TypeOK, Batch
  <2>3. /\ x.kind = b.kind /\ x.server = b.server /\ x.keys = b.keys /\ x.count = n
        /\ x.confirmed = b.confirmed
    BY <2>2 DEF Batch
  <2>4. batches' = (batches \ {b}) \union {x}
    BY <2>1
  <2> HIDE DEF x
  <2>5. /\ store' \in [Servers -> SUBSET Keys]
        /\ \A s \in Servers : store'[s] \subseteq store[s]
        /\ store'[b.server] = store[b.server] \ (b.keys \ failed)
    BY <1>1, <2>1, <2>2 DEF TypeOK
  <2>6. UNCHANGED <<client, modals, lists, shown, reviewed, sent, mixed>>
    BY <1>10 DEF ServerDeletes, history
  <2>7. ASSUME NEW k \in Kinds, ~mixed[k], k # b.kind PROVE Own(k)'
    <3>1. OfKind(k)' = OfKind(k)
      BY <2>3, <2>4, <2>7 DEF OfKind
    <3> QED BY <1>1, <2>5, <2>6, <2>7, <3>1, OwnKept
  <2>8. ASSUME ~mixed[b.kind] PROVE Own(b.kind)'
    <3> DEFINE k == b.kind
               m == modals[k]
               at == client
               held == store[client]
    <3>1. OfKind(k) = {b} /\ m.open /\ m.deleting
      BY <1>1, <2>2, <2>8, TheBatch
    <3>2. OfKind(k)' = {x}
      BY <2>3, <2>4, <3>1 DEF OfKind
    <3>3. /\ shown[k] = client /\ b.confirmed
          /\ Sound(m, {b}, at, held, reviewed[k], sent[k])
      BY <1>1, <2>2, <2>8, TheBatch
    <3>4. b.server = client /\ client \in Servers /\ store'[client] \in SUBSET held
          /\ m.next_index \in Nat /\ m.deleted \in Nat
      BY <1>1, <2>2, <2>5, <3>3 DEF Sound, Honest, TypeOK, ModalState
    <3>5. PICK lo \in 0 .. m.next_index :
            /\ b.keys = {m.keys[i] : i \in lo + 1 .. m.next_index}
            /\ m.deleted <= Cardinality(GoneIn(m, held, 0, lo))
      BY <3>3 DEF Sound, Honest
    <3> HIDE DEF m, held, k
    <3>6. lo \in Nat
      BY <3>4
    <3>7. n <= Cardinality(GoneIn(m, store'[client], lo, m.next_index))
      <4>1. CASE status = "ok"
        <5>1. /\ b.keys \ failed \subseteq {m.keys[i] : i \in lo + 1 .. m.next_index}
              /\ (b.keys \ failed) \intersect store'[client] = {}
          BY <2>5, <3>4, <3>5
        <5> QED BY <3>4, <3>6, <4>1, <5>1, GoneCounts
      <4>2. CASE status # "ok"
        BY <3>4, <3>6, <4>2, GoneType
      <4> QED BY <4>1, <4>2
    <3>8. ASSUME NEW hi \in Nat, m.deleted <= Cardinality(GoneIn(m, held, 0, hi))
          PROVE  m.deleted <= Cardinality(GoneIn(m, store'[client], 0, hi))
      <4>1. Cardinality(GoneIn(m, held, 0, hi)) <= Cardinality(GoneIn(m, store'[client], 0, hi))
        BY <3>4, GoneGrows
      <4>2. /\ Cardinality(GoneIn(m, held, 0, hi)) \in Nat
            /\ Cardinality(GoneIn(m, store'[client], 0, hi)) \in Nat
        BY GoneType
      <4> QED BY <3>4, <3>8, <4>1, <4>2
    <3>9. m.deleted <= Cardinality(GoneIn(m, held, 0, m.next_index))
      BY <3>3 DEF Sound, Honest
    <3> HIDE DEF n
    <3>10. Honest(m, {x}, at, store'[client])
      BY <2>3, <3>4, <3>5, <3>6, <3>7, <3>8, <3>9 DEF Honest
    <3>11. Sound(m, {x}, at, store'[client], reviewed[k], sent[k])
      BY <3>3, <3>10 DEF Sound, Ordered
    <3> QED BY <2>3, <2>6, <3>1, <3>2, <3>3, <3>11 DEF Own, Busy, m, k
  <2>9. ~mixed'["prefix"] => OwnList'
    BY <1>1, <2>6 DEF OwnList
  <2> QED BY <2>2, <2>6, <2>7, <2>8, <2>9
<1>11. ASSUME NEW l \in lists, PrefixDeleteListLoaded(l) PROVE Goal
  <2> DEFINE m == modals["prefix"]
             loaded == [m EXCEPT !.loading = FALSE,
                                 !.keys = IF l.status = "ok" THEN l.keys ELSE @]
  <2>1. /\ lists' = lists \ {l}
        /\ UNCHANGED <<client, batches, store, reviewed, sent, mixed>>
    BY <1>11 DEF PrefixDeleteListLoaded
  <2>2. m.open => /\ modals' = [modals EXCEPT !["prefix"] = loaded]
                  /\ shown' = [shown EXCEPT !["prefix"] =
                                 IF l.status = "ok" THEN l.server ELSE @]
    BY <1>11 DEF PrefixDeleteListLoaded
  <2>3. ~m.open => UNCHANGED <<modals, shown>>
    BY <1>11 DEF PrefixDeleteListLoaded
  <2>4. \A k \in Kinds : OfKind(k)' = OfKind(k)
    BY <2>1 DEF OfKind
  <2>5. m \in ModalState /\ l \in List
    BY <1>1 DEF TypeOK
  <2>6. \A k \in Kinds : k # "prefix" => modals'[k] = modals[k] /\ shown'[k] = shown[k]
    BY <1>1, <2>2, <2>3 DEF TypeOK
  <2>7. ASSUME NEW k \in Kinds, ~mixed[k], k # "prefix" PROVE Own(k)'
    BY <1>1, <1>2, <2>1, <2>4, <2>6, <2>7, OwnKept
  <2>8. ASSUME ~mixed["prefix"] PROVE Own("prefix")' /\ OwnList'
    <3>1. lists' = {}
      BY <1>1, <2>1, <2>8 DEF OwnList
    <3>2. CASE ~m.open
      BY <1>1, <1>2, <2>1, <2>3, <2>4, <2>8, <3>1, <3>2, OwnKept DEF OwnList
    <3>3. CASE m.open
      <4>1. l.server = client /\ m.loading /\ Blank(m)
        BY <1>1, <2>8, <3>3 DEF OwnList, Own, Sound
      <4>2. ~m.deleting /\ m.next_index = 0 /\ m.deleted = 0 /\ OfKind("prefix") = {}
        BY <1>1, <2>8, <4>1 DEF Blank, Own, Busy
      <4>3. sent["prefix"] = <<>>
        <5>1. sent["prefix"] = SubSeq(m.keys, 1, 0)
          BY <1>1, <2>8, <3>3, <4>2 DEF Own, Sound, Ordered
        <5> QED BY <5>1, SubSeqEmpty
      <4>4. /\ loaded \in ModalState
            /\ loaded.next_index = 0 /\ loaded.deleted = 0 /\ ~loaded.loading
        BY <2>5, <4>2 DEF ModalState, List
      <4>5. modals'["prefix"] = loaded /\ shown'["prefix"] = client
        BY <1>1, <2>2, <2>8, <3>3, <4>1 DEF TypeOK, Own
      <4> HIDE DEF loaded
      <4>6. Sound(loaded, {}, client, store[client], reviewed["prefix"], <<>>)
        BY <4>4, NewSound DEF Blank
      <4>7. OfKind("prefix")' = {} /\ OwnList'
        BY <2>4, <3>1, <4>2, <1>1 DEF OwnList
      <4> QED BY <2>1, <4>3, <4>5, <4>6, <4>7 DEF Own, Busy
    <3> QED BY <3>2, <3>3
  <2> QED BY <2>1, <2>7, <2>8
<1>12. ASSUME NEW b \in batches, BatchFinished(b) PROVE Goal
  <2> DEFINE k == b.kind
             m == modals[k]
             counted == [m EXCEPT !.deleted = @ + b.count]
             stopped == [m EXCEPT !.deleting = FALSE]
             rest == batches \ {b}
  <2>1. UNCHANGED <<client, lists, store, opens, shown, reviewed, mixed>>
    BY <1>12 DEF BatchFinished
  <2>2. b \in Batch /\ k \in Kinds /\ m \in ModalState /\ rest \in SUBSET Batch
    BY <1>1 DEF TypeOK, Batch
  <2>3. counted \in ModalState /\ stopped \in ModalState
        /\ counted.open = m.open /\ stopped.open = m.open /\ KeysOf(counted) = KeysOf(m)
    <3>1. b.count \in Nat
      BY <2>2 DEF Batch
    <3>2. m.deleted + b.count \in Nat
      BY <2>2, <3>1 DEF ModalState
    <3> HIDE DEF m
    <3>3. counted \in ModalState /\ stopped \in ModalState
      BY <2>2, <3>2 DEF ModalState
    <3>4. counted.open = m.open /\ stopped.open = m.open /\ counted.keys = m.keys
      BY <2>2 DEF ModalState
    <3> QED BY <3>3, <3>4 DEF KeysOf
  <2>4. \/ ~m.open /\ batches' = rest /\ UNCHANGED <<modals, sent>>
        \/ m.open /\ ProcessNext(k, counted, rest, reviewed[k])
        \/ m.open /\ modals' = [modals EXCEPT ![k] = stopped] /\ batches' = rest
             /\ UNCHANGED sent
    BY <1>1, <1>12, <2>2 DEF BatchFinished, TypeOK
  <2>5. ~mixed[k] => /\ OfKind(k) = {b} /\ m.open /\ m.deleting /\ shown[k] = client
                     /\ Sound(m, {b}, client, store[client], reviewed[k], sent[k])
    BY <1>1, <2>2, TheBatch
  <2>6. ~mixed[k] => /\ Sound(counted, {}, client, store[client], reviewed[k], sent[k])
                     /\ Sound(stopped, {}, client, store[client], reviewed[k], sent[k])
                     /\ {client} \X KeysOf(m) \subseteq reviewed[k]
                     /\ \A c \in rest : c.kind # k
    <3> HIDE DEF m, k
    <3>1. ~mixed[k] => /\ Sound(counted, {}, client, store[client], reviewed[k], sent[k])
                       /\ Sound(stopped, {}, client, store[client], reviewed[k], sent[k])
      BY <2>2, <2>5, CountedSound
    <3>2. ~mixed[k] => {client} \X KeysOf(m) \subseteq reviewed[k]
      BY <2>5 DEF Sound, Ordered
    <3>3. ~mixed[k] => \A c \in rest : c.kind # k
      BY <2>5 DEF OfKind
    <3> QED BY <3>1, <3>2, <3>3
  <2> HIDE DEF counted, stopped
  <2>7. ASSUME NEW j \in Kinds, j # k PROVE /\ modals'[j] = modals[j] /\ sent'[j] = sent[j]
                                             /\ OfKind(j)' = OfKind(j)
    <3>1. {c \in rest : c.kind = j} = OfKind(j)
      BY <2>7 DEF OfKind
    <3>2. CASE ProcessNext(k, counted, rest, reviewed[k])
      <4> HIDE DEF k, m, rest
      <4>1. /\ modals'[j] = modals[j] /\ sent'[j] = sent[j]
            /\ OfKind(j)' = {c \in rest : c.kind = j}
        BY <1>1, <2>2, <2>7, <3>2, NextOthers
      <4> QED BY <3>1, <4>1
    <3>3. CASE ~ProcessNext(k, counted, rest, reviewed[k])
      BY <1>1, <2>4, <2>7, <3>1, <3>3 DEF TypeOK, OfKind
    <3> QED BY <3>2, <3>3
  <2>8. ASSUME NEW j \in Kinds, ~mixed[j], j # k PROVE Own(j)'
    BY <1>1, <1>2, <2>1, <2>7, <2>8, OwnKept
  <2>9. ASSUME ~mixed[k] PROVE Own(k)'
    <3>1. CASE ProcessNext(k, counted, rest, reviewed[k])
      <4> HIDE DEF k, m, rest
      <4> QED BY <1>1, <2>1, <2>2, <2>3, <2>5, <2>6, <2>9, <3>1, NextOwn
    <3>2. CASE modals' = [modals EXCEPT ![k] = stopped] /\ batches' = rest /\ UNCHANGED sent
      <4>1. modals'[k] = stopped
        BY <1>1, <2>2, <3>2 DEF TypeOK
      <4>2. OfKind(k)' = {}
        BY <2>6, <2>9, <3>2 DEF OfKind
      <4> QED BY <2>1, <2>5, <2>6, <2>9, <3>2, <4>1, <4>2 DEF Own, Busy
    <3> QED BY <2>4, <2>5, <2>9, <3>1, <3>2
  <2>10. ~mixed'["prefix"] => OwnList'
    <3> SUFFICES ASSUME ~mixed["prefix"] PROVE OwnList'
      BY <2>1
    <3>1. CASE k = "prefix"
      <4>1. ~m.loading
        BY <2>5, <3>1 DEF Sound, Blank
      <4>2. lists = {}
        BY <1>1, <2>5, <3>1, <4>1 DEF OwnList
      <4> QED BY <2>1, <4>2 DEF OwnList
    <3>2. CASE k # "prefix"
      BY <1>1, <2>1, <2>7, <3>2 DEF OwnList
    <3> QED BY <3>1, <3>2
  <2> QED BY <2>1, <2>8, <2>9, <2>10
<1>13. CASE \E key \in Keys : ToggleObjectSelected(key)
  BY <1>4, <1>13 DEF ToggleObjectSelected, tasks, history
<1>14. CASE ClearObjectSelection
  BY <1>4, <1>14 DEF ClearObjectSelection, tasks, history
<1>15. CASE UNCHANGED vars
  BY <1>4, <1>15 DEF vars, tasks, history
<1> QED BY <1>3, <1>5, <1>6, <1>7, <1>8, <1>9, <1>10, <1>11, <1>12, <1>13, <1>14, <1>15
        DEF Next, User, Server, Answers

LEMMA InitInv == Init => IInv
<1> SUFFICES ASSUME Init PROVE IInv
  OBVIOUS
<1>1. TypeOK
  BY InitType
<1>2. \A k \in Kinds : ~modals[k].open /\ OfKind(k) = {}
  BY DEF Init, NoModal, Modal, OfKind
<1>3. lists = {} /\ "prefix" \in Kinds
  BY DEF Init, Kinds
<1> QED BY <1>1, <1>2, <1>3 DEF IInv, Own, Busy, OwnList

LEMMA StepInv == IInv /\ [Next]_vars => IInv'
<1>1. IInv => TypeOK
  BY DEF IInv
<1> QED BY <1>1, StepType, StepOwn DEF IInv

LEMMA InvariantHolds == Spec => []IInv
  BY InitInv, StepInv, PTL DEF Spec

\* TypeCorrect: no answer that meets a dialog it was not for breaks the shape of the state.
THEOREM TypeCorrect == Spec => []TypeOK
<1>1. IInv => TypeOK
  BY DEF IInv
<1> QED BY <1>1, InvariantHolds, PTL

\* KeysAreSentOnce: a dialog that was not mixed with another sends its keys in order,
\* none twice, and claims no more than is gone, for every size of a batch, through
\* failures, lost answers and further confirmations.
THEOREM KeysAreSentOnce == Spec => []EachKeyOnce
<1>1. IInv => EachKeyOnce
  <2> SUFFICES ASSUME IInv, NEW k \in Kinds, modals[k].open, ~mixed[k]
               PROVE  /\ sent[k] = SubSeq(modals[k].keys, 1, modals[k].next_index)
                      /\ modals[k].deleted <= Cardinality(Gone(k))
    BY DEF EachKeyOnce
  <2>1. /\ shown[k] = client
        /\ Sound(modals[k], OfKind(k), client, store[client], reviewed[k], sent[k])
    BY DEF IInv, Own
  <2>2. sent[k] = SubSeq(modals[k].keys, 1, modals[k].next_index)
    BY <2>1 DEF Sound, Ordered
  <2>3. Gone(k) = GoneIn(modals[k], store[client], 0, modals[k].next_index)
    <3>1. 0 + 1 = 1
      OBVIOUS
    <3> QED BY <2>1, <3>1 DEF Gone, GoneIn
  <2>4. modals[k].deleted <= Cardinality(Gone(k))
    BY <2>1, <2>3 DEF Sound, Honest
  <2> QED BY <2>2, <2>4
<1> QED BY <1>1, InvariantHolds, PTL

\* OnlyConfirmedIsDeleted: no request of a dialog that was not mixed with another asks for
\* a key the user has not confirmed, or asks another server than the one it was shown from.
THEOREM OnlyConfirmedIsDeleted == Spec => []UnmixedOnlyConfirmed
<1>1. IInv => UnmixedOnlyConfirmed
  <2> SUFFICES ASSUME IInv, NEW b \in batches, ~mixed[b.kind] PROVE b.confirmed
    BY DEF UnmixedOnlyConfirmed
  <2>1. b.kind \in Kinds
    BY DEF IInv, TypeOK, Batch
  <2>2. b \in OfKind(b.kind)
    BY DEF OfKind
  <2> QED BY <2>1, <2>2 DEF IInv, Own
<1> QED BY <1>1, InvariantHolds, PTL
==============================================================================
