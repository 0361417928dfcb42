---------------------------- MODULE TransferProofs ----------------------------
(***************************************************************************)
(* Theorems about Transfer, for every set of servers, connections, names   *)
(* and contents, and every number of modals and tasks.                     *)
(***************************************************************************)
EXTENDS Transfer, FiniteSetTheorems, SequenceTheorems, TLAPS

-----------------------------------------------------------------------------
(* Types *)

LEMMA SetToSeqsType ==
  ASSUME NEW S, IsFiniteSet(S), NEW f \in SetToSeqs(S)
  PROVE  f \in Seq(S)
<1>1. Cardinality(S) \in Nat
  BY FS_CardinalityType
<1>2. f \in [1 .. Cardinality(S) -> S]
  BY DEF SetToSeqs
<1> QED BY <1>1, <1>2, IsASeq

LEMMA NoTransferType == NoTransfer \in TransferState
<1>1. <<>> \in Seq(Item)
  BY EmptySeq
<1> QED BY <1>1 DEF NoTransfer, Modal, TransferState, Modes, Policies

\* ModalType: a modal that is opened has its type.
LEMMA ModalType ==
  ASSUME NEW mode \in Modes, NEW connection \in Conns \union {CURRENT},
         NEW source \in Names \union {NoName}, NEW loading \in BOOLEAN
  PROVE  /\ Modal(mode, connection, source, source) \in TransferState
         /\ [Modal(mode, connection, source, source) EXCEPT !.loading = loading]
              \in TransferState
<1> DEFINE modal == Modal(mode, connection, source, source)
<1>1. <<>> \in Seq(Item)
  BY EmptySeq
<1>2. modal \in TransferState
  BY <1>1 DEF Modal, TransferState, Policies
<1> HIDE DEF modal
<1>3. [modal EXCEPT !.loading = loading] \in TransferState
  BY <1>2 DEF TransferState
<1> QED BY <1>2, <1>3 DEF modal

NewJob(item, policy, is_move, index, dst, step) ==
  [nr |-> counts.tasks + 1, item |-> item, policy |-> policy, is_move |-> is_move,
   src |-> client, dst |-> dst, step |-> step, index |-> index]

\* Leads(item, dst): dst is where the destination of item leads.
Leads(item, dst) ==
  /\ item.to = Disk <=> dst = Disk
  /\ item.to = CURRENT => dst = client

\* Spawned(js, ps, n): the tasks are js, ps and the new job n.
Spawned(js, ps, n) ==
  /\ n \in Job
  /\ jobs' = js \union {n}
  /\ pending' = ps
  /\ mixed' = (mixed \/ Cardinality(js \union {n}) + Cardinality(ps) > 1)

\* SpawnShape: a spawned step is one new job, for a server or the folder.
LEMMA SpawnShape ==
  ASSUME TypeOK, NEW item \in Item, NEW policy \in Policies, NEW is_move \in BOOLEAN,
         NEW index \in Nat, NEW js, NEW ps, SpawnStep(item, policy, is_move, index, js, ps)
  PROVE  /\ \E dst \in Servers \union {Disk}, step \in {"head", "Failed"} :
              /\ Spawned(js, ps, NewJob(item, policy, is_move, index, dst, step))
              /\ Leads(item, dst)
         /\ astray' = (astray \/ (item.from = CURRENT /\ item.to \in Conns))
<1>1. PICK c \in Clients(item.to) :
        SetTasks(js \union {NewJob(item, policy, is_move, index, c.server, c.step)}, ps)
  BY DEF SpawnStep, NewJob
<1>2. /\ c.server \in Servers \union {Disk}
      /\ c.step \in {"head", "Failed"}
      /\ Leads(item, c.server)
  <2>1. client \in Servers /\ Disk \notin Servers /\ ServerOf \in [Conns -> Servers]
    BY ServersAssumption DEF TypeOK
  <2>2. CURRENT # Disk /\ CURRENT \notin Conns /\ Disk \notin Conns
    BY ConnsAssumption DEF CURRENT, Disk
  <2>3. item.to \in Conns \union {CURRENT, Disk}
    BY DEF Item
  <2>4. CASE item.to = CURRENT
    BY <2>1, <2>2, <2>4, <1>1 DEF Clients, Leads
  <2>5. CASE item.to = Disk
    BY <2>1, <2>2, <2>5, <1>1 DEF Clients, Leads
  <2>6. CASE item.to \in Conns
    <3>1. PICK s \in {"head", "Failed"} : c = [server |-> ServerOf[item.to], step |-> s]
      BY <2>2, <2>6, <1>1 DEF Clients
    <3>2. c.server = ServerOf[item.to] /\ c.step = s /\ ServerOf[item.to] \in Servers
      BY <3>1, <2>1, <2>6
    <3> QED BY <2>1, <2>2, <2>6, <3>2 DEF Leads
  <2> QED BY <2>3, <2>4, <2>5, <2>6
<1>3. NewJob(item, policy, is_move, index, c.server, c.step) \in Job
  <2>1. counts.tasks + 1 \in Nat /\ client \in Servers
    BY DEF TypeOK
  <2> QED BY <1>2, <2>1 DEF NewJob, Job, Results
<1> QED BY <1>1, <1>2, <1>3 DEF SetTasks, SpawnStep, Spawned

\* NextType: what the next step leaves has its type.
LEMMA NextType ==
  ASSUME TypeOK, NEW t \in TransferState, NEW js \in SUBSET Job, NEW ps \in SUBSET Preparation,
         ProcessNext(t, js, ps)
  PROVE  /\ transfer' \in TransferState
         /\ jobs' \subseteq Job /\ pending' \subseteq Preparation
         /\ mixed' \in BOOLEAN /\ astray' \in BOOLEAN
         /\ counts' \in [opens: Nat, starts: Nat, loads: Nat, tasks: Nat]
<1>1. t.next_index \in Nat /\ Len(t.items) \in Nat /\ t.items \in Seq(Item)
  BY DEF TransferState
<1>2. CASE t.next_index >= Len(t.items)
  <2>1. /\ transfer' = [t EXCEPT !.running = FALSE, !.pending_conflict = NoItem,
                                 !.summary = "Done"]
        /\ SetTasks(js, ps)
        /\ UNCHANGED <<astray, counts>>
    BY <1>2 DEF ProcessNext
  <2>2. transfer' \in TransferState
    BY <2>1 DEF TransferState
  <2> QED BY <2>1, <2>2 DEF SetTasks, TypeOK
<1>3. CASE ~(t.next_index >= Len(t.items))
  <2> DEFINE item == t.items[t.next_index + 1]
             is_move == t.mode = "MoveObject"
  <2>1. /\ transfer' = [t EXCEPT !.running = TRUE, !.pending_conflict = NoItem]
        /\ SpawnStep(item, t.overwrite_policy, is_move, t.next_index, js, ps)
        /\ counts' = [counts EXCEPT !.tasks = @ + 1]
    BY <1>3 DEF ProcessNext
  <2>2. t.next_index + 1 \in 1 .. Len(t.items)
    BY <1>1, <1>3
  <2>3. item \in Item /\ t.overwrite_policy \in Policies /\ is_move \in BOOLEAN
    BY <1>1, <2>2, ElementOfSeq DEF TransferState
  <2> HIDE DEF item, is_move
  <2>4. jobs' \subseteq Job /\ pending' = ps /\ mixed' \in BOOLEAN /\ astray' \in BOOLEAN
    <3>1. PICK dst \in Servers \union {Disk}, step \in {"head", "Failed"} :
            Spawned(js, ps, NewJob(item, t.overwrite_policy, is_move, t.next_index, dst, step))
      BY <1>1, <2>1, <2>3, SpawnShape
    <3>2. astray' = (astray \/ (item.from = CURRENT /\ item.to \in Conns))
      BY <1>1, <2>1, <2>3, SpawnShape
    <3> QED BY <3>1, <3>2 DEF Spawned, TypeOK
  <2>5. transfer' \in TransferState
    BY <2>1 DEF TransferState
  <2>6. counts' \in [opens: Nat, starts: Nat, loads: Nat, tasks: Nat]
    BY <2>1 DEF TypeOK
  <2> QED BY <2>4, <2>5, <2>6
<1> QED BY <1>2, <1>3

-----------------------------------------------------------------------------
(* The invariant *)

\* An item is between two places, and never an object onto itself.
Proper(item) ==
  /\ item.from = Disk => item.to = CURRENT
  /\ item.from = CURRENT /\ item.to = CURRENT => item.target # item.source

ObjectModes == {"CopyObject", "MoveObject"}

ProperTransfer(t) ==
  /\ t.mode \in ObjectModes => t.source \in Names
  /\ \A i \in 1 .. Len(t.items) : Proper(t.items[i])
  /\ t.pending_conflict # NoItem => Proper(t.pending_conflict)

ProperItems ==
  /\ ProperTransfer(transfer)
  /\ \A p \in pending : p.mode \in ObjectModes => p.item \in Item /\ Proper(p.item)

\* A step goes where its item says, which without a saved connection is one server.
ProperJob(j) ==
  /\ Proper(j.item)
  /\ j.item.to = Disk <=> j.dst = Disk
  /\ j.item.to = CURRENT => j.dst = j.src
  /\ ~astray => j.item.from = Disk \/ j.item.to \notin Conns

ProperJobs == \A j \in jobs : ProperJob(j)

\* One task at a time.
Alone ==
  /\ IsFiniteSet(jobs) /\ IsFiniteSet(pending)
  /\ ~mixed => Cardinality(jobs) + Cardinality(pending) <= 1

\* A task belongs to the open modal, and its step to the item the index is at.
InTurn ==
  /\ jobs # {} => /\ IsOpen /\ transfer.running
                  /\ transfer.next_index < Len(transfer.items)
                  /\ \A j \in jobs : j.index = transfer.next_index
  /\ pending # {} => IsOpen /\ transfer.preparing
  /\ transfer.pending_conflict # NoItem =>
       IsOpen /\ jobs = {} /\ transfer.next_index < Len(transfer.items)

\* A step copies into what it found empty, or may overwrite; it deletes what it copied.
Careful(j) ==
  /\ j.step = "copy" /\ j.policy # "OverwriteAll" => store[To(j)] = Absent
  /\ j.step = "delete" =>
       j.item.from = CURRENT /\ j.dst # Disk /\ store[CopiesTo(j)] = store[From(j)]

\* The items the index of t has passed are those that ended.
Ended(t, ended) ==
  /\ {o.index : o \in ended} = 0 .. t.next_index - 1
  /\ Cardinality(ended) = t.next_index
  /\ t.next_index <= Len(t.items)
  /\ t.completed = Cardinality({o \in ended : o.result = "Copied"})
  /\ t.skipped   = Cardinality({o \in ended : o.result = "Skipped"})
  /\ t.failed    = Cardinality({o \in ended : o.result = "Failed"})

\* What the steps need, and what they keep.
Safe == (\A j \in jobs : Careful(j)) /\ Full \subseteq Kept \union consented

IInv ==
  /\ TypeOK
  /\ ProperItems
  /\ ProperJobs
  /\ Alone
  /\ IsFiniteSet(outcomes)
  /\ ~mixed => InTurn /\ Ended(transfer, outcomes)
  /\ ~mixed /\ ~astray => Safe

-----------------------------------------------------------------------------
(* Every step keeps the types *)

LEMMA NamesFinite == ASSUME NEW S \in SUBSET Names PROVE IsFiniteSet(S)
  BY NamesAssumption, FS_Subset

LEMMA NoItemIsNone == \A item \in Item : item # NoItem
<1>1. \A item \in Item : item.from \in {CURRENT, Disk}
  BY DEF Item
<1>2. NoItem.from = "none"
  BY DEF NoItem
<1> QED BY <1>1, <1>2 DEF CURRENT, Disk

\* ListingType: what is prepared is a list of items that are proper.
LEMMA ListingType ==
  ASSUME NEW p \in Preparation, p.mode \in ObjectModes => p.item \in Item /\ Proper(p.item),
         NEW items \in Listings(p)
  PROVE  /\ items \in Seq(Item)
         /\ \A i \in 1 .. Len(items) : Proper(items[i])
<1> DEFINE Is(from, to, s) ==
             items = [i \in 1 .. Len(s) |-> [from |-> from, source |-> s[i],
                                             to |-> to, target |-> s[i]]]
<1>1. ASSUME NEW at, NEW from, NEW to, NEW s \in SetToSeqs(Held(at)), Is(from, to, s),
             \/ from = Disk /\ to = CURRENT
             \/ from = CURRENT /\ to = Disk
      PROVE  /\ items \in Seq(Item)
             /\ \A i \in 1 .. Len(items) : Proper(items[i])
  <2>1. s \in Seq(Held(at)) /\ Held(at) \subseteq Names
    <3>1. Held(at) \subseteq Names
      BY DEF Held
    <3> QED BY <3>1, NamesFinite, SetToSeqsType
  <2>2. Len(s) \in Nat /\ \A i \in 1 .. Len(s) : s[i] \in Names
    BY <2>1, ElementOfSeq, LenProperties
  <2>3. CURRENT # Disk
    BY DEF CURRENT, Disk
  <2>4. \A i \in 1 .. Len(s) :
          /\ items[i] = [from |-> from, source |-> s[i], to |-> to, target |-> s[i]]
          /\ items[i] \in Item /\ Proper(items[i])
    BY <1>1, <2>2, <2>3 DEF Item, Proper
  <2>5. items \in [1 .. Len(s) -> Item]
    BY <1>1, <2>4
  <2>6. items \in Seq(Item) /\ Len(items) = Len(s)
    BY <2>2, <2>5, IsASeq, LenProperties
  <2> QED BY <2>4, <2>6
<1>2. CASE p.mode = "ImportFolder"
  <2>1. PICK s \in SetToSeqs(Held(Disk)) : Is(Disk, CURRENT, s)
    BY <1>2 DEF Listings
  <2> HIDE DEF Is
  <2> QED BY <1>1, <2>1
<1>3. CASE p.mode = "ExportPrefix"
  <2>1. PICK s \in SetToSeqs(Held(p.server)) : Is(CURRENT, Disk, s)
    BY <1>3 DEF Listings
  <2> HIDE DEF Is
  <2> QED BY <1>1, <2>1
<1>4. CASE p.mode \in ObjectModes
  <2>1. items = <<p.item>> /\ p.item \in Item /\ Proper(p.item)
    BY <1>4 DEF Listings, ObjectModes
  <2>2. <<p.item>> \in Seq(Item) /\ Len(<<p.item>>) = 1 /\ <<p.item>>[1] = p.item
    BY <2>1
  <2> QED BY <2>1, <2>2
<1> QED BY <1>2, <1>3, <1>4 DEF Preparation, Modes, ObjectModes

\* Locations of a step are locations.
LEMMA JobPlaces ==
  ASSUME NEW j \in Job
  PROVE  From(j) \in Locations /\ To(j) \in Locations /\ CopiesTo(j) \in Locations
<1>1. j.src \in Servers /\ j.dst \in Servers \union {Disk} /\ j.item \in Item
  BY DEF Job
<1>2. j.item.source \in Names /\ j.item.target \in Names
  BY <1>1 DEF Item
<1> QED BY <1>1, <1>2 DEF From, To, CopiesTo, Locations

LEMMA CountedType ==
  ASSUME NEW t \in TransferState, NEW result
  PROVE  Counted(t, result) \in TransferState
<1>1. /\ t.completed \in Nat /\ t.skipped \in Nat /\ t.failed \in Nat
      /\ t.next_index \in Nat
  BY DEF TransferState
<1> DEFINE c == IF result = "Copied"  THEN t.completed + 1 ELSE t.completed
           k == IF result = "Skipped" THEN t.skipped + 1 ELSE t.skipped
           f == IF result = "Failed"  THEN t.failed + 1 ELSE t.failed
           n == t.next_index + 1
<1>2. c \in Nat /\ k \in Nat /\ f \in Nat /\ n \in Nat
  BY <1>1
<1>3. Counted(t, result) = [t EXCEPT !.completed = c, !.skipped = k, !.failed = f,
                                    !.next_index = n]
  BY DEF Counted
<1> HIDE DEF c, k, f, n
<1> QED BY <1>2, <1>3 DEF TransferState

LEMMA InitType == Init => TypeOK
<1> SUFFICES ASSUME Init PROVE TypeOK
  OBVIOUS
<1>1. store \in [Locations -> Full \union {Absent, Partial}]
  BY DEF Init
<1>2. active \in Conns \union {CURRENT} /\ client \in Servers
  BY ServersAssumption DEF Init
<1> QED BY <1>1, <1>2, NoTransferType DEF Init, TypeOK

\* StepType: every step keeps the shape of the state.
LEMMA StepType == TypeOK /\ ProperItems /\ [Next]_vars => TypeOK'
<1> SUFFICES ASSUME TypeOK, ProperItems, [Next]_vars PROVE TypeOK'
  OBVIOUS
<1>1. /\ client \in Servers /\ active \in Conns \union {CURRENT}
      /\ transfer \in TransferState
      /\ pending \subseteq Preparation /\ jobs \subseteq Job
      /\ loads \in Nat
      /\ store \in [Locations -> Full \union {Absent, Partial}]
      /\ counts \in [opens: Nat, starts: Nat, loads: Nat, tasks: Nat]
      /\ mixed \in BOOLEAN /\ astray \in BOOLEAN
      /\ outcomes \subseteq [index: Nat, result: Results]
      /\ consented \subseteq Full \union {Absent, Partial}
  BY DEF TypeOK
<1>2. ASSUME NEW modal \in TransferState, NEW n \in {0, 1}, Open(modal, n) PROVE TypeOK'
  <2>1. counts' = [counts EXCEPT !.opens = @ + 1, !.loads = @ + n]
    BY <1>2 DEF Open
  <2>2. counts' \in [opens: Nat, starts: Nat, loads: Nat, tasks: Nat]
    <3> DEFINE o == counts.opens + 1
               l == counts.loads + n
    <3>1. o \in Nat /\ l \in Nat
      BY <1>1
    <3>2. counts' = [counts EXCEPT !.opens = o, !.loads = l]
      BY <2>1
    <3> HIDE DEF o, l
    <3> QED BY <1>1, <3>1, <3>2
  <2>3. loads' \in Nat
    BY <1>1, <1>2 DEF Open
  <2> QED BY <1>1, <1>2, <2>2, <2>3 DEF Open, TypeOK, app
<1>3. CASE \E c \in Conns : ConnectTo(c)
  BY <1>1, <1>3, ServersAssumption DEF ConnectTo, TypeOK, tasks, history
<1>4. ASSUME NEW n \in Names, OpenCopyObject(n) PROVE TypeOK'
  <2>1. [Modal("CopyObject", active, n, n) EXCEPT !.loading = active # CURRENT]
          \in TransferState
    BY <1>1, ModalType DEF Modes
  <2> QED BY <1>2, <1>4, <2>1 DEF OpenCopyObject
<1>5. ASSUME NEW n \in Names \union {NoName}, NEW mode \in Modes,
             NEW c \in Conns \union {CURRENT},
             Open(Modal(mode, c, n, n), 0)
      PROVE  TypeOK'
  <2>1. Modal(mode, c, n, n) \in TransferState
    BY ModalType
  <2> QED BY <1>2, <1>5, <2>1
<1>6. CASE OpenModal
  <2>1. "MoveObject" \in Modes /\ "ImportFolder" \in Modes /\ "ExportPrefix" \in Modes
    BY DEF Modes
  <2> QED BY <1>1, <1>4, <1>5, <1>6, <2>1
          DEF OpenModal, OpenMoveObject, OpenImportFolder, OpenExportPrefix
<1>7. ASSUME NEW c \in Conns \union {CURRENT}, DestinationConnectionChanged(c) PROVE TypeOK'
  <2>1. transfer' \in TransferState
    BY <1>1, <1>7 DEF DestinationConnectionChanged, TransferState
  <2> QED BY <1>1, <1>7, <2>1 DEF DestinationConnectionChanged, TypeOK, app, tasks, history
<1>8. ASSUME NEW n \in Names \union {NoName}, DestinationChanged(n) PROVE TypeOK'
  <2>1. transfer' \in TransferState
    BY <1>1, <1>8 DEF DestinationChanged, TransferState
  <2> QED BY <1>1, <1>8, <2>1 DEF DestinationChanged, TypeOK, app, tasks, history
<1>9. CASE CloseTransferModal
  BY <1>1, <1>9, NoTransferType DEF CloseTransferModal, TypeOK, app, tasks
<1>10. CASE DestinationBucketsLoaded
  <2>1. transfer' \in TransferState
    BY <1>1, <1>10 DEF DestinationBucketsLoaded, TransferState
  <2> QED BY <1>1, <1>10, <2>1 DEF DestinationBucketsLoaded, TypeOK, app, tasks, history
<1>11. CASE StartTransfer
  <2>1. transfer' \in TransferState
    BY <1>1, <1>11 DEF StartTransfer, TransferState
  <2> DEFINE item == IF IsObjectMode
                       THEN [from |-> CURRENT, source |-> transfer.source,
                             to |-> transfer.destination_connection,
                             target |-> transfer.destination]
                       ELSE NoItem
             p == [nr |-> counts.tasks + 1, mode |-> transfer.mode, server |-> client,
                   item |-> item]
  <2>2. transfer.mode \in Modes
    BY <1>1, <1>11 DEF StartTransfer, TransferCanStart, IsOpen, TransferState
  <2>3. item \in Item \union {NoItem}
    <3>1. CASE IsObjectMode
      <4>1. transfer.source \in Names
        BY <3>1 DEF IsObjectMode, ProperItems, ProperTransfer, ObjectModes
      <4>2. transfer.destination \in Names
        BY <1>1, <1>11, <3>1 DEF StartTransfer, TransferCanStart, TransferState
      <4>3. transfer.destination_connection \in Conns \union {CURRENT}
        BY <1>1 DEF TransferState
      <4> QED BY <3>1, <4>1, <4>2, <4>3 DEF Item
    <3> QED BY <3>1
  <2>4. SetTasks(jobs, pending \union {p})
    BY <1>11 DEF StartTransfer
  <2> HIDE DEF item
  <2>5. p \in Preparation
    BY <1>1, <2>2, <2>3 DEF Preparation
  <2> HIDE DEF p
  <2>6. pending' \subseteq Preparation /\ jobs' = jobs /\ mixed' \in BOOLEAN
    BY <1>1, <2>4, <2>5 DEF SetTasks
  <2>7. counts' \in [opens: Nat, starts: Nat, loads: Nat, tasks: Nat]
    <3>1. counts' = [counts EXCEPT !.starts = @ + 1, !.tasks = @ + 1]
      BY <1>11 DEF StartTransfer
    <3> DEFINE n == counts.starts + 1
               k == counts.tasks + 1
    <3>2. n \in Nat /\ k \in Nat
      BY <1>1
    <3>3. counts' = [counts EXCEPT !.starts = n, !.tasks = k]
      BY <3>1
    <3> HIDE DEF n, k
    <3> QED BY <1>1, <3>2, <3>3
  <2> QED BY <1>1, <1>11, <2>1, <2>6, <2>7 DEF StartTransfer, TypeOK, app, history
<1>12. ASSUME NEW p \in pending, TransferPrepared(p) PROVE TypeOK'
  <2> DEFINE rest == pending \ {p}
             start(items) ==
               [transfer EXCEPT !.preparing = FALSE, !.items = items, !.next_index = 0,
                                !.completed = 0, !.skipped = 0, !.failed = 0,
                                !.running = TRUE, !.pending_conflict = NoItem]
  <2>1. p \in Preparation /\ (p.mode \in ObjectModes => p.item \in Item /\ Proper(p.item))
    BY <1>1 DEF ProperItems
  <2>2. rest \in SUBSET Preparation /\ jobs \in SUBSET Job
    BY <1>1
  <2>3. UNCHANGED <<app, loads, store, consented>>
    BY <1>12 DEF TransferPrepared
  <2>4. CASE SetTasks(jobs, rest) /\ UNCHANGED <<transfer, counts, astray, outcomes>>
    BY <1>1, <2>2, <2>3, <2>4 DEF SetTasks, TypeOK, app
  <2>5. ASSUME NEW items \in Listings(p), outcomes' = {},
               \/ /\ transfer' = [start(items) EXCEPT !.running = FALSE, !.summary = "Nothing"]
                  /\ SetTasks(jobs, rest)
                  /\ UNCHANGED <<counts, astray>>
               \/ ProcessNext(start(items), jobs, rest)
        PROVE  TypeOK'
    <3>1. items \in Seq(Item)
      BY <2>1, ListingType
    <3>2. start(items) \in TransferState
      BY <1>1, <3>1 DEF TransferState
    <3> HIDE DEF start
    <3>3. CASE ProcessNext(start(items), jobs, rest)
      <4>1. /\ transfer' \in TransferState
            /\ jobs' \subseteq Job /\ pending' \subseteq Preparation
            /\ mixed' \in BOOLEAN /\ astray' \in BOOLEAN
            /\ counts' \in [opens: Nat, starts: Nat, loads: Nat, tasks: Nat]
        BY <2>2, <3>2, <3>3, NextType
      <4> QED BY <1>1, <2>3, <2>5, <4>1 DEF TypeOK, app
    <3>4. CASE /\ transfer' = [start(items) EXCEPT !.running = FALSE, !.summary = "Nothing"]
               /\ SetTasks(jobs, rest)
               /\ UNCHANGED <<counts, astray>>
      <4>1. transfer' \in TransferState
        BY <3>2, <3>4 DEF TransferState
      <4> QED BY <1>1, <2>2, <2>3, <2>5, <3>4, <4>1 DEF SetTasks, TypeOK, app
    <3> QED BY <2>5, <3>3, <3>4
  <2>6. CASE /\ transfer' = [transfer EXCEPT !.preparing = FALSE, !.running = FALSE,
                                           !.summary = "PreparationFailed"]
             /\ SetTasks(jobs, rest)
             /\ UNCHANGED <<counts, astray, outcomes>>
    <3>1. transfer' \in TransferState
      BY <1>1, <2>6 DEF TransferState
    <3> QED BY <1>1, <2>2, <2>3, <2>6, <3>1 DEF SetTasks, TypeOK, app
  <2>7. CASE outcomes' = {} /\
             \E items \in Listings(p) :
                IF items = <<>>
                  THEN /\ transfer' = [start(items) EXCEPT !.running = FALSE,
                                                          !.summary = "Nothing"]
                       /\ SetTasks(jobs, rest)
                       /\ UNCHANGED <<counts, astray>>
                  ELSE ProcessNext(start(items), jobs, rest)
    <3>1. PICK items \in Listings(p) :
                IF items = <<>>
                  THEN /\ transfer' = [start(items) EXCEPT !.running = FALSE,
                                                          !.summary = "Nothing"]
                       /\ SetTasks(jobs, rest)
                       /\ UNCHANGED <<counts, astray>>
                  ELSE ProcessNext(start(items), jobs, rest)
      BY <2>7
    <3> QED BY <2>5, <2>7, <3>1
  <2> QED BY <1>12, <2>4, <2>6, <2>7 DEF TransferPrepared
<1>13. ASSUME NEW j \in jobs, NEW step \in {"head", "copy", "delete"} \union Results
       PROVE  (jobs \ {j}) \union {[j EXCEPT !.step = step]} \subseteq Job
  BY <1>1 DEF Job
<1>14. ASSUME NEW j \in jobs, LookAtDestination(j) PROVE TypeOK'
  <2>1. \E step \in {"copy", "Conflict", "Skipped"} :
          jobs' = (jobs \ {j}) \union {[j EXCEPT !.step = step]}
    BY <1>14 DEF LookAtDestination, Advance
  <2>2. jobs' \subseteq Job
    BY <1>13, <2>1 DEF Results
  <2>3. astray' \in BOOLEAN
    BY <1>1, <1>14 DEF LookAtDestination, Advance
  <2>4. UNCHANGED <<app, transfer, pending, mixed, loads, counts, outcomes, store, consented>>
    BY <1>14 DEF LookAtDestination, Advance
  <2> QED BY <1>1, <2>2, <2>3, <2>4 DEF TypeOK, app
<1>15. ASSUME NEW j \in jobs, Copy(j) PROVE TypeOK'
  <2>1. j \in Job /\ From(j) \in Locations /\ CopiesTo(j) \in Locations
    BY <1>1, JobPlaces
  <2>2. \E step \in {"delete", "Copied", "Failed"} : Advance(j, step)
    BY <1>15 DEF Copy
  <2>3. jobs' \subseteq Job
    BY <1>13, <2>2 DEF Advance, Results
  <2>4. \/ \E v \in {store[From(j)], Partial} : store' = [store EXCEPT ![CopiesTo(j)] = v]
        \/ store' = store
    BY <1>15 DEF Copy
  <2>5. store' \in [Locations -> Full \union {Absent, Partial}]
    BY <1>1, <2>1, <2>4
  <2>6. consented' \subseteq Full \union {Absent, Partial}
    <3>1. Consent(j) \subseteq Full \union {Absent, Partial}
      BY <1>1, <2>1 DEF Consent
    <3> QED BY <1>1, <1>15, <3>1 DEF Copy
  <2> QED BY <1>1, <2>2, <2>3, <2>5, <2>6 DEF Advance, TypeOK, app
<1>16. ASSUME NEW j \in jobs, DeleteSource(j) PROVE TypeOK'
  <2>1. \E step \in {"Copied", "Failed"} : Advance(j, step)
    BY <1>16 DEF DeleteSource
  <2>2. jobs' \subseteq Job
    BY <1>13, <2>1 DEF Advance, Results
  <2>3. store' \in [Locations -> Full \union {Absent, Partial}]
    BY <1>1, <1>16 DEF DeleteSource
  <2>4. UNCHANGED consented
    BY <1>16 DEF DeleteSource
  <2> QED BY <1>1, <2>1, <2>2, <2>3, <2>4 DEF Advance, TypeOK, app
<1>17. ASSUME NEW j \in jobs, TransferStepFinished(j) PROVE TypeOK'
  <2> DEFINE rest == jobs \ {j}
  <2>1. j \in Job /\ rest \in SUBSET Job /\ pending \in SUBSET Preparation
    BY <1>1
  <2>2. UNCHANGED <<app, loads, store, consented>>
    BY <1>17 DEF TransferStepFinished
  <2>3. CASE /\ SetTasks(rest, pending)
             /\ UNCHANGED <<transfer, counts, astray, outcomes>>
    BY <1>1, <2>1, <2>2, <2>3 DEF SetTasks, TypeOK, app
  <2>4. CASE /\ transfer' = [transfer EXCEPT !.pending_conflict = j.item, !.running = FALSE]
             /\ SetTasks(rest, pending)
             /\ UNCHANGED <<counts, astray, outcomes>>
    <3>1. j.item \in Item
      BY <2>1 DEF Job
    <3>2. transfer' \in TransferState
      BY <1>1, <2>4, <3>1 DEF TransferState
    <3> QED BY <1>1, <2>1, <2>2, <2>4, <3>2 DEF SetTasks, TypeOK, app
  <2>5. CASE /\ outcomes' = outcomes \union {[index |-> j.index, result |-> j.step]}
             /\ ProcessNext(Counted(transfer, j.step), rest, pending)
    <3>1. Counted(transfer, j.step) \in TransferState
      BY <1>1, CountedType
    <3>2. /\ transfer' \in TransferState
          /\ jobs' \subseteq Job /\ pending' \subseteq Preparation
          /\ mixed' \in BOOLEAN /\ astray' \in BOOLEAN
          /\ counts' \in [opens: Nat, starts: Nat, loads: Nat, tasks: Nat]
      BY <2>1, <2>5, <3>1, NextType
    <3>3. [index |-> j.index, result |-> j.step] \in [index: Nat, result: Results]
      BY <1>17, <2>1 DEF TransferStepFinished, Job
    <3> QED BY <1>1, <2>2, <2>5, <3>2, <3>3 DEF TypeOK, app
  <2> QED BY <1>17, <2>3, <2>4, <2>5 DEF TransferStepFinished
<1>18. ASSUME NEW policy \in Policies PROVE Remember(policy) \in TransferState
  BY <1>1, ZenonT(30) DEF Remember, TransferState
<1>19. ASSUME NEW policy \in Policies, ConflictSkip(policy) PROVE TypeOK'
  <2> DEFINE t == Counted(Remember(policy), "Skipped")
  <2>1. t \in TransferState
    BY <1>18, CountedType
  <2>2. ProcessNext(t, jobs, pending)
    BY <1>19 DEF ConflictSkip
  <2> HIDE DEF t
  <2>3. /\ transfer' \in TransferState
        /\ jobs' \subseteq Job /\ pending' \subseteq Preparation
        /\ mixed' \in BOOLEAN /\ astray' \in BOOLEAN
        /\ counts' \in [opens: Nat, starts: Nat, loads: Nat, tasks: Nat]
    BY <1>1, <2>1, <2>2, NextType
  <2>4. [index |-> transfer.next_index, result |-> "Skipped"] \in [index: Nat, result: Results]
    BY <1>1 DEF TransferState, Results
  <2> QED BY <1>1, <1>19, <2>3, <2>4 DEF ConflictSkip, TypeOK, app
<1>20. ASSUME NEW policy \in Policies, ConflictOverwrite(policy) PROVE TypeOK'
  <2>1. transfer.pending_conflict \in Item /\ transfer.next_index \in Nat
    BY <1>1, <1>20 DEF ConflictOverwrite, TransferState
  <2>2. SpawnStep(transfer.pending_conflict, "OverwriteAll", FALSE, transfer.next_index,
                  jobs, pending)
    BY <1>20 DEF ConflictOverwrite
  <2>3. PICK dst \in Servers \union {Disk}, step \in {"head", "Failed"} :
          Spawned(jobs, pending,
            NewJob(transfer.pending_conflict, "OverwriteAll", FALSE, transfer.next_index,
                   dst, step))
    BY <2>1, <2>2, SpawnShape DEF Policies
  <2>4. astray' \in BOOLEAN
    BY <1>1, <2>2 DEF SpawnStep
  <2>5. transfer' \in TransferState
    <3>1. transfer' = [Remember(policy) EXCEPT !.running = TRUE]
      BY <1>20 DEF ConflictOverwrite
    <3> QED BY <1>18, <3>1, ZenonT(30) DEF TransferState
  <2>6. counts' \in [opens: Nat, starts: Nat, loads: Nat, tasks: Nat]
    BY <1>1, <1>20 DEF ConflictOverwrite
  <2> QED BY <1>1, <1>20, <2>3, <2>4, <2>5, <2>6 DEF ConflictOverwrite, Spawned, TypeOK, app
<1>21. CASE UNCHANGED vars
  BY <1>1, <1>21 DEF vars, app, tasks, history, TypeOK
<1> QED BY <1>3, <1>6, <1>7, <1>8, <1>9, <1>10, <1>11, <1>12, <1>14, <1>15, <1>16, <1>17,
           <1>19, <1>20, <1>21
        DEF Next, EditModal, Answer, Prepared, RunStep, StepFinished

-----------------------------------------------------------------------------
(* Every step keeps the items and the jobs proper *)

LEMMA SpawnProper ==
  ASSUME TypeOK, ProperJobs, NEW item \in Item, Proper(item), NEW policy \in Policies,
         NEW is_move \in BOOLEAN, NEW index \in Nat, NEW js \in SUBSET jobs, NEW ps,
         SpawnStep(item, policy, is_move, index, js, ps)
  PROVE  ProperJobs' /\ pending' = ps
<1>1. PICK dst \in Servers \union {Disk}, step \in {"head", "Failed"} :
        /\ Spawned(js, ps, NewJob(item, policy, is_move, index, dst, step))
        /\ Leads(item, dst)
  BY SpawnShape
<1>2. PICK n : n = NewJob(item, policy, is_move, index, dst, step)
  OBVIOUS
<1>3. /\ jobs' = js \union {n} /\ pending' = ps
      /\ astray' = (astray \/ (item.from = CURRENT /\ item.to \in Conns))
  BY <1>1, <1>2, SpawnShape DEF Spawned
<1>4. n.item = item /\ n.dst = dst /\ n.src = client
  BY <1>2 DEF NewJob
<1>5. item.from \in {CURRENT, Disk}
  BY DEF Item
<1>6. ASSUME NEW j \in js PROVE ProperJob(j)'
  <2>1. ProperJob(j)
    BY DEF ProperJobs
  <2> QED BY <1>3, <2>1 DEF ProperJob
<1>7. ProperJob(n)'
  BY <1>1, <1>3, <1>4, <1>5 DEF ProperJob, Leads
<1> QED BY <1>3, <1>6, <1>7 DEF ProperJobs

LEMMA NextProper ==
  ASSUME TypeOK, ProperJobs, NEW t \in TransferState, ProperTransfer(t),
         NEW js \in SUBSET jobs, NEW ps, ProcessNext(t, js, ps)
  PROVE  ProperTransfer(transfer)' /\ ProperJobs' /\ pending' = ps
<1>1. t.next_index \in Nat /\ Len(t.items) \in Nat /\ t.items \in Seq(Item)
  BY DEF TransferState
<1>2. ProperTransfer(transfer)'
  <2>1. /\ transfer'.mode = t.mode /\ transfer'.source = t.source
        /\ transfer'.items = t.items /\ transfer'.pending_conflict = NoItem
    BY DEF ProcessNext, TransferState
  <2> QED BY <2>1 DEF ProperTransfer
<1>3. CASE t.next_index >= Len(t.items)
  <2>1. jobs' = js /\ pending' = ps /\ astray' = astray
    BY <1>3 DEF ProcessNext, SetTasks
  <2> QED BY <1>2, <2>1 DEF ProperJobs, ProperJob
<1>4. CASE ~(t.next_index >= Len(t.items))
  <2> DEFINE item == t.items[t.next_index + 1]
             is_move == t.mode = "MoveObject"
  <2>1. SpawnStep(item, t.overwrite_policy, is_move, t.next_index, js, ps)
    BY <1>4 DEF ProcessNext
  <2>2. t.next_index + 1 \in 1 .. Len(t.items)
    BY <1>1, <1>4
  <2>3. item \in Item /\ t.overwrite_policy \in Policies /\ is_move \in BOOLEAN
    BY <1>1, <2>2, ElementOfSeq DEF TransferState
  <2>4. Proper(item)
    BY <2>2 DEF ProperTransfer
  <2> HIDE DEF item, is_move
  <2> QED BY <1>1, <1>2, <2>1, <2>3, <2>4, SpawnProper
<1> QED BY <1>3, <1>4

LEMMA InitProper == Init => ProperItems /\ ProperJobs
<1> SUFFICES ASSUME Init PROVE ProperItems /\ ProperJobs
  OBVIOUS
<1>1. transfer = NoTransfer /\ pending = {} /\ jobs = {}
  BY DEF Init
<1>2. /\ NoTransfer.mode = "None" /\ NoTransfer.items = <<>>
      /\ NoTransfer.pending_conflict = NoItem
  BY DEF NoTransfer, Modal
<1> QED BY <1>1, <1>2 DEF ProperItems, ProperTransfer, ProperJobs, ObjectModes

LEMMA StepProper ==
  TypeOK /\ ProperItems /\ ProperJobs /\ [Next]_vars => ProperItems' /\ ProperJobs'
<1> SUFFICES ASSUME TypeOK, ProperItems, ProperJobs, [Next]_vars
             PROVE  ProperItems' /\ ProperJobs'
  OBVIOUS
<1>1. transfer \in TransferState /\ pending \subseteq Preparation /\ jobs \subseteq Job
  BY DEF TypeOK
<1>2. ASSUME jobs' = jobs, astray' = astray PROVE ProperJobs'
  BY <1>2 DEF ProperJobs, ProperJob
<1>3. ASSUME NEW modal, UNCHANGED <<jobs, pending, astray>>, transfer' = modal,
             modal.mode \in ObjectModes => modal.source \in Names,
             modal.items = <<>>, modal.pending_conflict = NoItem
      PROVE  ProperItems' /\ ProperJobs'
  BY <1>2, <1>3 DEF ProperItems, ProperTransfer
<1>4. ASSUME UNCHANGED <<jobs, pending, astray>>,
             transfer'.mode = transfer.mode, transfer'.source = transfer.source,
             transfer'.items = transfer.items,
             transfer'.pending_conflict = transfer.pending_conflict
      PROVE  ProperItems' /\ ProperJobs'
  BY <1>2, <1>4 DEF ProperItems, ProperTransfer
<1>5. CASE \E c \in Conns : ConnectTo(c)
  BY <1>4, <1>5 DEF ConnectTo, tasks, history
<1>6. ASSUME NEW n \in Names, OpenCopyObject(n) PROVE ProperItems' /\ ProperJobs'
  <2> DEFINE modal == [Modal("CopyObject", active, n, n) EXCEPT !.loading = active # CURRENT]
  <2>1. transfer' = modal /\ UNCHANGED <<jobs, pending, astray>>
    BY <1>6 DEF OpenCopyObject, Open
  <2>2. modal.source = n /\ modal.items = <<>> /\ modal.pending_conflict = NoItem
    BY DEF Modal
  <2> HIDE DEF modal
  <2> QED BY <1>3, <2>1, <2>2
<1>7. ASSUME NEW mode, NEW c, NEW n, Open(Modal(mode, c, n, n), 0),
             mode \in ObjectModes => n \in Names
      PROVE  ProperItems' /\ ProperJobs'
  <2> DEFINE modal == Modal(mode, c, n, n)
  <2>1. transfer' = modal /\ UNCHANGED <<jobs, pending, astray>>
    BY <1>7 DEF Open
  <2>2. /\ modal.mode = mode /\ modal.source = n /\ modal.items = <<>>
        /\ modal.pending_conflict = NoItem
    BY DEF Modal
  <2> HIDE DEF modal
  <2> QED BY <1>3, <1>7, <2>1, <2>2
<1>8. CASE OpenModal
  <2>1. "ImportFolder" \notin ObjectModes /\ "ExportPrefix" \notin ObjectModes
    BY DEF ObjectModes
  <2> QED BY <1>6, <1>7, <1>8, <2>1
          DEF OpenModal, OpenMoveObject, OpenImportFolder, OpenExportPrefix
<1>9. ASSUME NEW c, DestinationConnectionChanged(c) PROVE ProperItems' /\ ProperJobs'
  BY <1>1, <1>4, <1>9 DEF DestinationConnectionChanged, tasks, history, TransferState
<1>10. ASSUME NEW n, DestinationChanged(n) PROVE ProperItems' /\ ProperJobs'
  BY <1>1, <1>4, <1>10 DEF DestinationChanged, tasks, history, TransferState
<1>11. CASE CloseTransferModal
  <2>1. transfer' = NoTransfer /\ UNCHANGED <<jobs, pending, astray>>
    BY <1>11 DEF CloseTransferModal, tasks
  <2>2. /\ NoTransfer.mode \notin ObjectModes /\ NoTransfer.items = <<>>
        /\ NoTransfer.pending_conflict = NoItem
    BY DEF NoTransfer, Modal, ObjectModes
  <2> QED BY <1>3, <2>1, <2>2
<1>12. CASE DestinationBucketsLoaded
  BY <1>1, <1>4, <1>12 DEF DestinationBucketsLoaded, tasks, history, TransferState
<1>13. CASE StartTransfer
  <2> DEFINE item == IF IsObjectMode
                       THEN [from |-> CURRENT, source |-> transfer.source,
                             to |-> transfer.destination_connection,
                             target |-> transfer.destination]
                       ELSE NoItem
             p == [nr |-> counts.tasks + 1, mode |-> transfer.mode, server |-> client,
                   item |-> item]
  <2>1. /\ SetTasks(jobs, pending \union {p})
        /\ transfer' = [transfer EXCEPT !.preparing = TRUE, !.summary = "None"]
        /\ astray' = astray
    BY <1>13 DEF StartTransfer, history
  <2>2. p.mode \in ObjectModes => p.item \in Item /\ Proper(p.item)
    <3> SUFFICES ASSUME transfer.mode \in ObjectModes PROVE item \in Item /\ Proper(item)
      OBVIOUS
    <3>1. IsObjectMode
      BY DEF IsObjectMode, ObjectModes
    <3>2. transfer.source \in Names
      BY DEF ProperItems, ProperTransfer
    <3>3. transfer.destination \in Names
      BY <1>1, <1>13, <3>1 DEF StartTransfer, TransferCanStart, TransferState
    <3>4. transfer.destination_connection \in Conns \union {CURRENT}
      BY <1>1 DEF TransferState
    <3>5. transfer.destination_connection = CURRENT => transfer.destination # transfer.source
      BY <1>13, <3>1 DEF StartTransfer, TransferCanStart, PointsToSameObject
    <3>6. CURRENT # Disk
      BY DEF CURRENT, Disk
    <3>7. item = [from |-> CURRENT, source |-> transfer.source,
                  to |-> transfer.destination_connection, target |-> transfer.destination]
      BY <3>1
    <3> HIDE DEF item
    <3> QED BY <3>2, <3>3, <3>4, <3>5, <3>6, <3>7 DEF Item, Proper
  <2> HIDE DEF p
  <2>3. jobs' = jobs /\ pending' = pending \union {p}
    BY <2>1 DEF SetTasks
  <2>4. ProperTransfer(transfer)'
    BY <1>1, <2>1 DEF ProperItems, ProperTransfer, TransferState
  <2> QED BY <1>2, <2>1, <2>2, <2>3, <2>4 DEF ProperItems
<1>14. ASSUME NEW p \in pending, TransferPrepared(p) PROVE ProperItems' /\ ProperJobs'
  <2> DEFINE rest == pending \ {p}
             start(items) ==
               [transfer EXCEPT !.preparing = FALSE, !.items = items, !.next_index = 0,
                                !.completed = 0, !.skipped = 0, !.failed = 0,
                                !.running = TRUE, !.pending_conflict = NoItem]
  <2>1. p \in Preparation /\ (p.mode \in ObjectModes => p.item \in Item /\ Proper(p.item))
    BY <1>1 DEF ProperItems
  <2>2. ASSUME SetTasks(jobs, rest), astray' = astray,
               transfer'.mode = transfer.mode, transfer'.source = transfer.source,
               transfer'.items = transfer.items,
               transfer'.pending_conflict = transfer.pending_conflict
        PROVE  ProperItems' /\ ProperJobs'
    BY <1>2, <2>2 DEF SetTasks, ProperItems, ProperTransfer
  <2>3. ASSUME NEW items \in Listings(p),
               \/ /\ transfer' = [start(items) EXCEPT !.running = FALSE, !.summary = "Nothing"]
                  /\ SetTasks(jobs, rest)
                  /\ UNCHANGED <<counts, astray>>
               \/ ProcessNext(start(items), jobs, rest)
        PROVE  ProperItems' /\ ProperJobs'
    <3>1. items \in Seq(Item) /\ \A i \in 1 .. Len(items) : Proper(items[i])
      BY <2>1, ListingType
    <3>2. start(items) \in TransferState
      BY <1>1, <3>1 DEF TransferState
    <3>3. ProperTransfer(start(items))
      <4>1. /\ start(items).mode = transfer.mode /\ start(items).source = transfer.source
            /\ start(items).items = items /\ start(items).pending_conflict = NoItem
        BY <1>1 DEF TransferState
      <4> HIDE DEF start
      <4> QED BY <3>1, <4>1 DEF ProperItems, ProperTransfer
    <3> HIDE DEF start
    <3>4. CASE ProcessNext(start(items), jobs, rest)
      <4>1. ProperTransfer(transfer)' /\ ProperJobs' /\ pending' = rest
        BY <3>2, <3>3, <3>4, NextProper
      <4> QED BY <4>1 DEF ProperItems
    <3>5. CASE /\ transfer' = [start(items) EXCEPT !.running = FALSE, !.summary = "Nothing"]
               /\ SetTasks(jobs, rest)
               /\ UNCHANGED <<counts, astray>>
      <4>1. ProperTransfer(transfer)'
        BY <3>2, <3>3, <3>5 DEF ProperTransfer, TransferState
      <4> QED BY <1>2, <3>5, <4>1 DEF SetTasks, ProperItems
    <3> QED BY <2>3, <3>4, <3>5
  <2>4. CASE /\ transfer' = [transfer EXCEPT !.preparing = FALSE, !.running = FALSE,
                                           !.summary = "PreparationFailed"]
             /\ SetTasks(jobs, rest)
             /\ UNCHANGED <<counts, astray, outcomes>>
    BY <1>1, <2>2, <2>4 DEF TransferState
  <2>5. CASE SetTasks(jobs, rest) /\ UNCHANGED <<transfer, counts, astray, outcomes>>
    BY <2>2, <2>5
  <2>6. CASE \E items \in Listings(p) :
                IF items = <<>>
                  THEN /\ transfer' = [start(items) EXCEPT !.running = FALSE,
                                                          !.summary = "Nothing"]
                       /\ SetTasks(jobs, rest)
                       /\ UNCHANGED <<counts, astray>>
                  ELSE ProcessNext(start(items), jobs, rest)
    <3>1. PICK items \in Listings(p) :
                IF items = <<>>
                  THEN /\ transfer' = [start(items) EXCEPT !.running = FALSE,
                                                          !.summary = "Nothing"]
                       /\ SetTasks(jobs, rest)
                       /\ UNCHANGED <<counts, astray>>
                  ELSE ProcessNext(start(items), jobs, rest)
      BY <2>6
    <3> QED BY <2>3, <3>1
  <2> QED BY <1>14, <2>4, <2>5, <2>6 DEF TransferPrepared
<1>15. ASSUME NEW j \in jobs, NEW step, astray => astray',
              jobs' = (jobs \ {j}) \union {[j EXCEPT !.step = step]},
              UNCHANGED <<transfer, pending>>
       PROVE  ProperItems' /\ ProperJobs'
  <2> DEFINE n == [j EXCEPT !.step = step]
  <2>1. n.item = j.item /\ n.dst = j.dst /\ n.src = j.src
    BY <1>1 DEF Job
  <2> HIDE DEF n
  <2>2. \A k \in jobs : ProperJob(k)'
    BY <1>15 DEF ProperJobs, ProperJob
  <2>3. ProperJob(n)'
    BY <1>15, <2>1, <2>2 DEF ProperJob
  <2>4. ProperJobs'
    BY <1>15, <2>2, <2>3 DEF ProperJobs, n
  <2> QED BY <1>15, <2>4 DEF ProperItems, ProperTransfer
<1>16. ASSUME NEW j \in jobs, LookAtDestination(j) \/ Copy(j) \/ DeleteSource(j)
       PROVE  ProperItems' /\ ProperJobs'
  <2>1. \E step : jobs' = (jobs \ {j}) \union {[j EXCEPT !.step = step]}
    BY <1>16 DEF LookAtDestination, Copy, DeleteSource, Advance
  <2>2. (astray => astray') /\ UNCHANGED <<transfer, pending>>
    BY <1>16 DEF LookAtDestination, Copy, DeleteSource, Advance
  <2> QED BY <1>15, <2>1, <2>2
<1>17. ASSUME NEW t \in TransferState, ProperTransfer(t), NEW js \in SUBSET jobs,
              ProcessNext(t, js, pending)
       PROVE  ProperItems' /\ ProperJobs'
  <2>1. ProperTransfer(transfer)' /\ ProperJobs' /\ pending' = pending
    BY <1>17, NextProper
  <2> QED BY <2>1 DEF ProperItems
<1>18. ASSUME NEW t \in TransferState, ProperTransfer(t), NEW result
       PROVE  Counted(t, result) \in TransferState /\ ProperTransfer(Counted(t, result))
  <2>1. /\ Counted(t, result).mode = t.mode /\ Counted(t, result).source = t.source
        /\ Counted(t, result).items = t.items
        /\ Counted(t, result).pending_conflict = t.pending_conflict
    BY DEF Counted, TransferState
  <2> QED BY <1>18, <2>1, CountedType DEF ProperTransfer
<1>19. ASSUME NEW j \in jobs, TransferStepFinished(j) PROVE ProperItems' /\ ProperJobs'
  <2> DEFINE rest == jobs \ {j}
  <2>1. CASE /\ SetTasks(rest, pending)
             /\ UNCHANGED <<transfer, counts, astray, outcomes>>
    BY <2>1 DEF SetTasks, ProperItems, ProperTransfer, ProperJobs, ProperJob
  <2>2. CASE /\ transfer' = [transfer EXCEPT !.pending_conflict = j.item, !.running = FALSE]
             /\ SetTasks(rest, pending)
             /\ UNCHANGED <<counts, astray, outcomes>>
    <3>1. Proper(j.item)
      BY DEF ProperJobs, ProperJob
    <3>2. /\ transfer'.mode = transfer.mode /\ transfer'.source = transfer.source
          /\ transfer'.items = transfer.items /\ transfer'.pending_conflict = j.item
      BY <1>1, <2>2 DEF TransferState
    <3>3. ProperItems'
      BY <2>2, <3>1, <3>2 DEF SetTasks, ProperItems, ProperTransfer
    <3> QED BY <2>2, <3>3 DEF SetTasks, ProperJobs, ProperJob
  <2>3. CASE ProcessNext(Counted(transfer, j.step), rest, pending)
    <3>1. ProperTransfer(transfer)
      BY DEF ProperItems
    <3>2. Counted(transfer, j.step) \in TransferState /\ ProperTransfer(Counted(transfer, j.step))
      BY <1>1, <1>18, <3>1
    <3> QED BY <1>17, <2>3, <3>2
  <2> QED BY <1>19, <2>1, <2>2, <2>3 DEF TransferStepFinished
<1>20. ASSUME NEW policy \in Policies
       PROVE  Remember(policy) \in TransferState /\ ProperTransfer(Remember(policy))
  <2>1. Remember(policy) \in TransferState
    BY <1>1 DEF Remember, TransferState
  <2>2. /\ Remember(policy).mode = transfer.mode /\ Remember(policy).source = transfer.source
        /\ Remember(policy).items = transfer.items
        /\ Remember(policy).pending_conflict = NoItem
    BY <1>1 DEF Remember, TransferState
  <2> QED BY <2>1, <2>2 DEF ProperItems, ProperTransfer
<1>21. ASSUME NEW policy \in Policies, ConflictSkip(policy) PROVE ProperItems' /\ ProperJobs'
  <2>1. ProcessNext(Counted(Remember(policy), "Skipped"), jobs, pending)
    BY <1>21 DEF ConflictSkip
  <2> QED BY <1>17, <1>18, <1>20, <2>1
<1>22. ASSUME NEW policy \in Policies, ConflictOverwrite(policy)
       PROVE  ProperItems' /\ ProperJobs'
  <2>1. /\ transfer.pending_conflict \in Item /\ transfer.next_index \in Nat
        /\ Proper(transfer.pending_conflict)
    BY <1>1, <1>22 DEF ConflictOverwrite, TransferState, ProperItems, ProperTransfer
  <2>2. SpawnStep(transfer.pending_conflict, "OverwriteAll", FALSE, transfer.next_index,
                  jobs, pending)
    BY <1>22 DEF ConflictOverwrite
  <2>3. ProperJobs' /\ pending' = pending
    BY <2>1, <2>2, SpawnProper DEF Policies
  <2>4. transfer' = [Remember(policy) EXCEPT !.running = TRUE]
    BY <1>22 DEF ConflictOverwrite
  <2>5. ProperTransfer(transfer)'
    BY <1>20, <2>4 DEF ProperTransfer, TransferState
  <2> QED BY <2>3, <2>5 DEF ProperItems
<1>23. CASE UNCHANGED vars
  BY <1>2, <1>4, <1>23 DEF vars, tasks, history
<1> QED BY <1>5, <1>8, <1>9, <1>10, <1>11, <1>12, <1>13, <1>14, <1>16, <1>19, <1>21, <1>22, <1>23
        DEF Next, EditModal, Answer, Prepared, RunStep, StepFinished

-----------------------------------------------------------------------------
(* One task at a time, and for the item the index is at *)

\* Single: while nothing is mixed, a task that is there is alone.
LEMMA Single ==
  ASSUME Alone, ~mixed
  PROVE  /\ \A j \in jobs : jobs = {j} /\ pending = {}
         /\ \A p \in pending : pending = {p} /\ jobs = {}
<1>1. /\ IsFiniteSet(jobs) /\ Cardinality(jobs) \in Nat
      /\ IsFiniteSet(pending) /\ Cardinality(pending) \in Nat
      /\ Cardinality(jobs) + Cardinality(pending) <= 1
  BY FS_CardinalityType DEF Alone
<1>2. ASSUME NEW S, NEW x \in S, IsFiniteSet(S)
      PROVE  Cardinality(S) >= 1 /\ (Cardinality(S) = 1 => S = {x})
  <2>1. Cardinality(S \ {x}) = Cardinality(S) - 1 /\ IsFiniteSet(S \ {x})
    BY <1>2, FS_RemoveElement
  <2>2. Cardinality(S \ {x}) \in Nat /\ Cardinality(S) \in Nat
    BY <1>2, <2>1, FS_CardinalityType
  <2>3. Cardinality(S \ {x}) = 0 => S \ {x} = {}
    BY <2>1, FS_EmptySet
  <2> QED BY <2>1, <2>2, <2>3
<1>3. ASSUME NEW j \in jobs PROVE jobs = {j} /\ pending = {}
  <2>1. Cardinality(jobs) >= 1 /\ (Cardinality(jobs) = 1 => jobs = {j})
    BY <1>1, <1>2
  <2>2. Cardinality(jobs) = 1 /\ Cardinality(pending) = 0
    BY <1>1, <2>1
  <2> QED BY <1>1, <2>1, <2>2, FS_EmptySet
<1>4. ASSUME NEW p \in pending PROVE pending = {p} /\ jobs = {}
  <2>1. Cardinality(pending) >= 1 /\ (Cardinality(pending) = 1 => pending = {p})
    BY <1>1, <1>2
  <2>2. Cardinality(pending) = 1 /\ Cardinality(jobs) = 0
    BY <1>1, <2>1
  <2> QED BY <1>1, <2>1, <2>2, FS_EmptySet
<1> QED BY <1>3, <1>4

LEMMA SetAlone ==
  ASSUME NEW js, NEW ps, IsFiniteSet(js), IsFiniteSet(ps), SetTasks(js, ps)
  PROVE  Alone'
<1>1. Cardinality(js) \in Nat /\ Cardinality(ps) \in Nat
  BY FS_CardinalityType
<1>2. jobs' = js /\ pending' = ps
  BY DEF SetTasks
<1>3. ~mixed' => ~(Cardinality(js) + Cardinality(ps) > 1)
  BY Zenon DEF SetTasks
<1>4. ~(Cardinality(js) + Cardinality(ps) > 1) => Cardinality(js) + Cardinality(ps) <= 1
  BY <1>1
<1> QED BY <1>2, <1>3, <1>4 DEF Alone

LEMMA SpawnAlone ==
  ASSUME NEW js, NEW ps, IsFiniteSet(js), IsFiniteSet(ps),
         NEW item, NEW policy, NEW is_move, NEW index,
         SpawnStep(item, policy, is_move, index, js, ps)
  PROVE  Alone'
<1>1. PICK n : SetTasks(js \union {n}, ps)
  BY DEF SpawnStep
<1>2. IsFiniteSet(js \union {n})
  BY FS_AddElement
<1> QED BY <1>1, <1>2, SetAlone

LEMMA NextAlone ==
  ASSUME NEW t, NEW js, NEW ps, IsFiniteSet(js), IsFiniteSet(ps), ProcessNext(t, js, ps)
  PROVE  Alone'
<1>1. CASE SetTasks(js, ps)
  BY <1>1, SetAlone
<1>2. CASE SpawnStep(t.items[t.next_index + 1], t.overwrite_policy, t.mode = "MoveObject",
                     t.next_index, js, ps)
  BY <1>2, SpawnAlone
<1> QED BY <1>1, <1>2 DEF ProcessNext

LEMMA StepAlone == TypeOK /\ Alone /\ [Next]_vars => Alone' /\ (mixed => mixed')
<1> SUFFICES ASSUME TypeOK, Alone, [Next]_vars PROVE Alone' /\ (mixed => mixed')
  OBVIOUS
<1> USE DEF Alone
<1>1. ASSUME UNCHANGED <<jobs, pending>>, mixed => mixed'
      PROVE  Alone' /\ (mixed => mixed')
  BY <1>1
<1>2. CASE \E c \in Conns : ConnectTo(c)
  BY <1>1, <1>2 DEF ConnectTo, tasks
<1>3. CASE OpenModal
  BY <1>1, <1>3 DEF OpenModal, OpenCopyObject, OpenMoveObject, OpenImportFolder,
                    OpenExportPrefix, Open
<1>4. CASE EditModal
  BY <1>1, <1>4 DEF EditModal, DestinationConnectionChanged, DestinationChanged,
                    CloseTransferModal, tasks, history
<1>5. CASE DestinationBucketsLoaded
  BY <1>1, <1>5 DEF DestinationBucketsLoaded, tasks
<1>6. CASE StartTransfer
  <2>1. PICK p : SetTasks(jobs, pending \union {p})
    BY <1>6 DEF StartTransfer
  <2>2. IsFiniteSet(pending \union {p})
    BY FS_AddElement
  <2> QED BY <2>1, <2>2, SetAlone DEF SetTasks
<1>7. \A js, ps : SetTasks(js, ps) => (mixed => mixed')
  BY DEF SetTasks
<1>8. \A t, js, ps : ProcessNext(t, js, ps) => (mixed => mixed')
  BY <1>7 DEF ProcessNext, SpawnStep
<1>9. ASSUME NEW p \in pending, TransferPrepared(p) PROVE Alone' /\ (mixed => mixed')
  <2>1. IsFiniteSet(pending \ {p})
    BY FS_RemoveElement
  <2>2. SetTasks(jobs, pending \ {p}) \/ \E t : ProcessNext(t, jobs, pending \ {p})
    BY <1>9 DEF TransferPrepared
  <2> QED BY <1>7, <1>8, <2>1, <2>2, SetAlone, NextAlone
<1>10. ASSUME NEW j \in jobs, LookAtDestination(j) \/ Copy(j) \/ DeleteSource(j)
       PROVE  Alone' /\ (mixed => mixed')
  <2>1. PICK n : jobs' = (jobs \ {j}) \union {n}
    BY <1>10 DEF LookAtDestination, Copy, DeleteSource, Advance
  <2>2. pending' = pending /\ mixed' = mixed
    BY <1>10 DEF LookAtDestination, Copy, DeleteSource, Advance
  <2>3. IsFiniteSet(jobs')
    BY <2>1, FS_RemoveElement, FS_AddElement
  <2>4. ~mixed => jobs' = {n} /\ pending' = {}
    BY <2>1, <2>2, Single
  <2>5. Cardinality({n}) = 1 /\ Cardinality({}) = 0
    BY FS_EmptySet, FS_Singleton
  <2> QED BY <2>2, <2>3, <2>4, <2>5
<1>11. ASSUME NEW j \in jobs, TransferStepFinished(j) PROVE Alone' /\ (mixed => mixed')
  <2>1. IsFiniteSet(jobs \ {j})
    BY FS_RemoveElement
  <2>2. SetTasks(jobs \ {j}, pending) \/ \E t : ProcessNext(t, jobs \ {j}, pending)
    BY <1>11 DEF TransferStepFinished
  <2> QED BY <1>7, <1>8, <2>1, <2>2, SetAlone, NextAlone
<1>12. ASSUME NEW policy, ConflictSkip(policy) PROVE Alone' /\ (mixed => mixed')
  <2>1. \E t : ProcessNext(t, jobs, pending)
    BY <1>12 DEF ConflictSkip
  <2> QED BY <1>8, <2>1, NextAlone
<1>13. ASSUME NEW policy, ConflictOverwrite(policy) PROVE Alone' /\ (mixed => mixed')
  <2>1. SpawnStep(transfer.pending_conflict, "OverwriteAll", FALSE, transfer.next_index,
                  jobs, pending)
    BY <1>13 DEF ConflictOverwrite
  <2>2. mixed => mixed'
    BY <1>7, <2>1 DEF SpawnStep
  <2> QED BY <2>1, <2>2, SpawnAlone
<1>14. CASE UNCHANGED vars
  BY <1>1, <1>14 DEF vars, tasks
<1> QED BY <1>2, <1>3, <1>4, <1>5, <1>6, <1>9, <1>10, <1>11, <1>12, <1>13, <1>14
        DEF Next, Answer, Prepared, RunStep, StepFinished

\* NextTurn: the step that follows is for the item the index of t is at.
LEMMA NextTurn ==
  ASSUME TypeOK, NEW t \in TransferState, t.mode # "None", NEW ps, ps # {} => t.preparing,
         NEW ended, Ended(t, ended), ProcessNext(t, {}, ps)
  PROVE  InTurn' /\ Ended(transfer', ended)
<1>1. t.next_index \in Nat /\ Len(t.items) \in Nat /\ t.items \in Seq(Item)
  BY DEF TransferState
<1>2. /\ transfer'.mode = t.mode /\ transfer'.items = t.items
      /\ transfer'.next_index = t.next_index /\ transfer'.pending_conflict = NoItem
      /\ transfer'.preparing = t.preparing /\ transfer'.completed = t.completed
      /\ transfer'.skipped = t.skipped /\ transfer'.failed = t.failed
  <2>1. \/ transfer' = [t EXCEPT !.running = FALSE, !.pending_conflict = NoItem,
                                 !.summary = "Done"]
        \/ transfer' = [t EXCEPT !.running = TRUE, !.pending_conflict = NoItem]
    BY DEF ProcessNext
  <2> QED BY <2>1, ZenonT(30) DEF TransferState
<1>3. Ended(transfer', ended)
  BY <1>2 DEF Ended
<1>4. CASE t.next_index >= Len(t.items)
  <2>1. jobs' = {} /\ pending' = ps
    BY <1>4 DEF ProcessNext, SetTasks
  <2> QED BY <1>2, <1>3, <2>1 DEF InTurn, IsOpen
<1>5. CASE ~(t.next_index >= Len(t.items))
  <2> DEFINE item == t.items[t.next_index + 1]
             is_move == t.mode = "MoveObject"
  <2>1. /\ SpawnStep(item, t.overwrite_policy, is_move, t.next_index, {}, ps)
        /\ transfer'.running
    BY <1>5 DEF ProcessNext, TransferState
  <2>2. t.next_index + 1 \in 1 .. Len(t.items)
    BY <1>1, <1>5
  <2>3. item \in Item /\ t.overwrite_policy \in Policies /\ is_move \in BOOLEAN
    BY <1>1, <2>2, ElementOfSeq DEF TransferState
  <2> HIDE DEF item, is_move
  <2>4. PICK dst \in Servers \union {Disk}, step \in {"head", "Failed"} :
          Spawned({}, ps, NewJob(item, t.overwrite_policy, is_move, t.next_index, dst, step))
    BY <1>1, <2>1, <2>3, SpawnShape
  <2>5. /\ jobs' = {NewJob(item, t.overwrite_policy, is_move, t.next_index, dst, step)}
        /\ pending' = ps
    BY <2>4 DEF Spawned
  <2>6. \A j \in jobs' : j.index = t.next_index
    BY <2>5 DEF NewJob
  <2>7. t.next_index < Len(t.items)
    BY <1>1, <1>5
  <2> QED BY <1>2, <1>3, <2>1, <2>5, <2>6, <2>7 DEF InTurn, IsOpen
<1> QED BY <1>4, <1>5

\* CountEnds: counting the item the index is at keeps index, counters and ends together.
LEMMA CountEnds ==
  ASSUME NEW t \in TransferState, NEW ended, IsFiniteSet(ended), Ended(t, ended),
         t.next_index < Len(t.items), NEW result \in {"Copied", "Skipped", "Failed"}
  PROVE  Ended(Counted(t, result),
               ended \union {[index |-> t.next_index, result |-> result]})
<1>1. PICK x : x = [index |-> t.next_index, result |-> result]
  OBVIOUS
<1>2. x.index = t.next_index /\ x.result = result
  BY <1>1
<1>3. /\ t.next_index \in Nat /\ Len(t.items) \in Nat
      /\ t.completed \in Nat /\ t.skipped \in Nat /\ t.failed \in Nat
  BY DEF TransferState
<1>4. x \notin ended
  <2>1. t.next_index \notin 0 .. t.next_index - 1
    BY <1>3
  <2> QED BY <1>2, <2>1 DEF Ended
<1> DEFINE now == ended \union {x}
           Of(S, r) == {o \in S : o.result = r}
<1>5. Cardinality(now) = t.next_index + 1
  <2>1. Cardinality(now) = Cardinality(ended) + 1
    BY <1>4, FS_AddElement
  <2> QED BY <2>1 DEF Ended
<1>6. {o.index : o \in now} = 0 .. (t.next_index + 1) - 1
  <2>1. {o.index : o \in now} = {o.index : o \in ended} \union {t.next_index}
    BY <1>2
  <2>2. 0 .. (t.next_index + 1) - 1 = (0 .. t.next_index - 1) \union {t.next_index}
    BY <1>3
  <2> QED BY <2>1, <2>2 DEF Ended
<1>7. ASSUME NEW r
      PROVE  Cardinality(Of(now, r)) = IF r = result THEN Cardinality(Of(ended, r)) + 1
                                                     ELSE Cardinality(Of(ended, r))
  <2>1. Of(now, r) = IF r = result THEN Of(ended, r) \union {x} ELSE Of(ended, r)
    BY <1>2
  <2>2. IsFiniteSet(Of(ended, r)) /\ x \notin Of(ended, r)
    BY <1>4, FS_Subset
  <2>3. Cardinality(Of(ended, r) \union {x}) = Cardinality(Of(ended, r)) + 1
    BY <2>2, FS_AddElement
  <2> QED BY <2>1, <2>3
<1>8. /\ t.completed = Cardinality(Of(ended, "Copied"))
      /\ t.skipped = Cardinality(Of(ended, "Skipped"))
      /\ t.failed = Cardinality(Of(ended, "Failed"))
  BY DEF Ended
<1> DEFINE u == Counted(t, result)
<1>9. /\ u.items = t.items
      /\ u.next_index = t.next_index + 1
      /\ u.completed = IF result = "Copied"  THEN t.completed + 1 ELSE t.completed
      /\ u.skipped   = IF result = "Skipped" THEN t.skipped + 1 ELSE t.skipped
      /\ u.failed    = IF result = "Failed"  THEN t.failed + 1 ELSE t.failed
  BY DEF Counted, TransferState
<1> HIDE DEF now, Of, u
<1>10. /\ u.completed = Cardinality(Of(now, "Copied"))
       /\ u.skipped = Cardinality(Of(now, "Skipped"))
       /\ u.failed = Cardinality(Of(now, "Failed"))
  BY <1>7, <1>8, <1>9
<1>11. u.next_index <= Len(u.items)
  BY <1>3, <1>9
<1>12. /\ {o.index : o \in now} = 0 .. u.next_index - 1
       /\ Cardinality(now) = u.next_index
  BY <1>5, <1>6, <1>9
<1>13. Ended(u, now)
  BY <1>10, <1>11, <1>12 DEF Ended, Of
<1> QED BY <1>1, <1>13 DEF u, now

\* EmptyEnds: a list nothing was done of.
LEMMA EmptyEnds ==
  ASSUME NEW t, t.items \in Seq(Item), t.next_index = 0, t.completed = 0, t.skipped = 0,
         t.failed = 0
  PROVE  Ended(t, {})
<1>1. Cardinality({}) = 0
  BY FS_EmptySet
<1>2. \A r : {o \in {} : o.result = r} = {}
  OBVIOUS
<1>3. {o.index : o \in {}} = {} /\ 0 .. 0 - 1 = {}
  OBVIOUS
<1>4. Len(t.items) \in Nat
  OBVIOUS
<1> QED BY <1>1, <1>2, <1>3, <1>4 DEF Ended

LEMMA StepFinite == IsFiniteSet(outcomes) /\ [Next]_vars => IsFiniteSet(outcomes)'
<1> SUFFICES ASSUME IsFiniteSet(outcomes), [Next]_vars PROVE IsFiniteSet(outcomes')
  OBVIOUS
<1>1. CASE outcomes' = outcomes
  BY <1>1
<1>2. CASE outcomes' = {}
  BY <1>2, FS_EmptySet
<1>3. ASSUME NEW o, outcomes' = outcomes \union {o} PROVE IsFiniteSet(outcomes')
  BY <1>3, FS_AddElement
<1>4. CASE OpenModal \/ CloseTransferModal
  BY <1>2, <1>4 DEF OpenModal, OpenCopyObject, OpenMoveObject, OpenImportFolder,
                    OpenExportPrefix, Open, CloseTransferModal
<1>5. CASE Prepared
  BY <1>1, <1>2, <1>5 DEF Prepared, TransferPrepared
<1>6. CASE RunStep
  BY <1>1, <1>6 DEF RunStep, LookAtDestination, Copy, DeleteSource, Advance
<1>7. CASE StepFinished
  BY <1>1, <1>3, <1>7 DEF StepFinished, TransferStepFinished
<1>8. CASE Answer
  BY <1>1, <1>3, <1>8 DEF Answer, ConflictSkip, ConflictOverwrite
<1>9. CASE (\E c \in Conns : ConnectTo(c)) \/ StartTransfer \/ DestinationBucketsLoaded
           \/ UNCHANGED vars
  BY <1>1, <1>9 DEF ConnectTo, StartTransfer, DestinationBucketsLoaded, history, vars
<1>10. CASE EditModal
  BY <1>1, <1>4, <1>10 DEF EditModal, DestinationConnectionChanged, DestinationChanged, history
<1> QED BY <1>4, <1>5, <1>6, <1>7, <1>8, <1>9, <1>10 DEF Next

\* StepTurn: a step that leaves nothing mixed keeps tasks, index, counters and ends together.
LEMMA StepTurn ==
  ASSUME TypeOK, ProperItems, Alone, IsFiniteSet(outcomes),
         ~mixed => InTurn /\ Ended(transfer, outcomes), [Next]_vars, ~mixed'
  PROVE  InTurn' /\ Ended(transfer', outcomes')
<1> DEFINE Goal == InTurn' /\ Ended(transfer', outcomes')
<1>1. /\ transfer \in TransferState /\ pending \subseteq Preparation /\ jobs \subseteq Job
      /\ active \in Conns \union {CURRENT}
  BY DEF TypeOK
<1>2. ~mixed /\ InTurn /\ Ended(transfer, outcomes)
  BY StepAlone
<1>3. /\ \A j \in jobs : jobs = {j} /\ pending = {}
      /\ \A p \in pending : pending = {p} /\ jobs = {}
  BY <1>2, Single
<1>4. ASSUME UNCHANGED <<jobs, pending, outcomes>>,
             transfer'.mode = transfer.mode, transfer'.items = transfer.items,
             transfer'.next_index = transfer.next_index,
             transfer'.completed = transfer.completed, transfer'.skipped = transfer.skipped,
             transfer'.failed = transfer.failed,
             transfer'.pending_conflict = transfer.pending_conflict,
             transfer'.running = transfer.running, transfer'.preparing = transfer.preparing
      PROVE  Goal
  BY <1>2, <1>4 DEF InTurn, Ended, IsOpen
<1>5. ASSUME NEW t \in TransferState, transfer' = t, outcomes' = {}, jobs' = {}, pending' = {},
             t.next_index = 0, t.completed = 0, t.skipped = 0, t.failed = 0,
             t.pending_conflict = NoItem
      PROVE  Goal
  <2>1. Ended(transfer', outcomes')
    BY <1>5, EmptyEnds DEF TransferState
  <2>2. InTurn'
    BY <1>5 DEF InTurn
  <2> QED BY <2>1, <2>2
<1>6. CASE \E c \in Conns : ConnectTo(c)
  BY <1>4, <1>6 DEF ConnectTo, tasks, history
<1>7. ASSUME NEW modal \in TransferState, NEW n, Open(modal, n),
             modal.next_index = 0, modal.completed = 0, modal.skipped = 0, modal.failed = 0,
             modal.pending_conflict = NoItem
      PROVE  Goal
  <2>1. jobs' = {} /\ pending' = {} /\ outcomes' = {} /\ transfer' = modal
    BY <1>7 DEF Open
  <2> QED BY <1>5, <1>7, <2>1
<1>8. ASSUME NEW n \in Names, OpenCopyObject(n) PROVE Goal
  <2> DEFINE modal == [Modal("CopyObject", active, n, n) EXCEPT !.loading = active # CURRENT]
             k == IF active # CURRENT THEN 1 ELSE 0
  <2>1. modal \in TransferState
    BY <1>1, ModalType DEF Modes
  <2>2. /\ modal.next_index = 0 /\ modal.completed = 0 /\ modal.skipped = 0
        /\ modal.failed = 0 /\ modal.pending_conflict = NoItem
    BY DEF Modal
  <2>3. Open(modal, k)
    BY <1>8 DEF OpenCopyObject
  <2> HIDE DEF modal, k, Goal
  <2> QED BY <1>7, <2>1, <2>2, <2>3
<1>9. ASSUME NEW mode \in Modes, NEW c \in Conns \union {CURRENT},
             NEW n \in Names \union {NoName}, Open(Modal(mode, c, n, n), 0)
      PROVE  Goal
  <2> DEFINE modal == Modal(mode, c, n, n)
  <2>1. modal \in TransferState
    BY ModalType
  <2>2. /\ modal.next_index = 0 /\ modal.completed = 0 /\ modal.skipped = 0
        /\ modal.failed = 0 /\ modal.pending_conflict = NoItem
    BY DEF Modal
  <2> HIDE DEF modal, Goal
  <2> QED BY <1>7, <1>9, <2>1, <2>2 DEF modal
<1>10. CASE OpenModal
  <2>1. "MoveObject" \in Modes /\ "ImportFolder" \in Modes /\ "ExportPrefix" \in Modes
    BY DEF Modes
  <2> QED BY <1>1, <1>8, <1>9, <1>10, <2>1
          DEF OpenModal, OpenMoveObject, OpenImportFolder, OpenExportPrefix
<1>11. ASSUME NEW c, DestinationConnectionChanged(c) PROVE Goal
  BY <1>1, <1>4, <1>11 DEF DestinationConnectionChanged, tasks, history, TransferState
<1>12. ASSUME NEW n, DestinationChanged(n) PROVE Goal
  BY <1>1, <1>4, <1>12 DEF DestinationChanged, tasks, history, TransferState
<1>13. CASE DestinationBucketsLoaded
  BY <1>1, <1>4, <1>13 DEF DestinationBucketsLoaded, tasks, history, TransferState
<1>14. CASE CloseTransferModal
  <2>1. jobs = {} /\ pending = {}
    BY <1>2, <1>14 DEF CloseTransferModal, InTurn
  <2>2. /\ NoTransfer.next_index = 0 /\ NoTransfer.completed = 0 /\ NoTransfer.skipped = 0
        /\ NoTransfer.failed = 0 /\ NoTransfer.pending_conflict = NoItem
    BY DEF NoTransfer, Modal
  <2>3. transfer' = NoTransfer /\ outcomes' = {} /\ jobs' = {} /\ pending' = {}
    BY <1>14, <2>1 DEF CloseTransferModal, tasks
  <2> QED BY <1>5, <2>2, <2>3, NoTransferType
<1>15. CASE StartTransfer
  <2>1. jobs = {} /\ IsOpen
    BY <1>2, <1>15 DEF StartTransfer, TransferCanStart, InTurn
  <2>2. jobs' = {} /\ outcomes' = outcomes
    BY <1>15, <2>1 DEF StartTransfer, SetTasks, history
  <2>3. /\ transfer'.mode = transfer.mode /\ transfer'.items = transfer.items
        /\ transfer'.next_index = transfer.next_index
        /\ transfer'.completed = transfer.completed /\ transfer'.skipped = transfer.skipped
        /\ transfer'.failed = transfer.failed /\ transfer'.preparing
        /\ transfer'.pending_conflict = transfer.pending_conflict
    BY <1>1, <1>15 DEF StartTransfer, TransferState
  <2> QED BY <1>2, <2>1, <2>2, <2>3 DEF InTurn, Ended, IsOpen
<1>16. ASSUME NEW p \in pending, TransferPrepared(p) PROVE Goal
  <2> DEFINE rest == pending \ {p}
             start(items) ==
               [transfer EXCEPT !.preparing = FALSE, !.items = items, !.next_index = 0,
                                !.completed = 0, !.skipped = 0, !.failed = 0,
                                !.running = TRUE, !.pending_conflict = NoItem]
  <2>1. jobs = {} /\ rest = {} /\ IsOpen
    BY <1>2, <1>3 DEF InTurn
  <2>2. p \in Preparation /\ (p.mode \in ObjectModes => p.item \in Item /\ Proper(p.item))
    BY <1>1 DEF ProperItems
  <2>3. ASSUME NEW items \in Listings(p), outcomes' = {},
               \/ /\ transfer' = [start(items) EXCEPT !.running = FALSE, !.summary = "Nothing"]
                  /\ SetTasks(jobs, rest)
                  /\ UNCHANGED <<counts, astray>>
               \/ ProcessNext(start(items), jobs, rest)
        PROVE  Goal
    <3>1. items \in Seq(Item)
      BY <2>2, ListingType
    <3>2. start(items) \in TransferState
      BY <1>1, <3>1 DEF TransferState
    <3>3. /\ start(items).next_index = 0 /\ start(items).completed = 0
          /\ start(items).skipped = 0 /\ start(items).failed = 0
          /\ start(items).pending_conflict = NoItem /\ start(items).items = items
          /\ start(items).mode = transfer.mode
      BY <1>1 DEF TransferState
    <3>4. start(items).mode # "None"
      BY <2>1, <3>3 DEF IsOpen
    <3> HIDE DEF start
    <3>5. CASE ProcessNext(start(items), jobs, rest)
      <4>1. Ended(start(items), {})
        BY <3>1, <3>3, EmptyEnds
      <4>2. ProcessNext(start(items), {}, {})
        BY <2>1, <3>5
      <4>3. InTurn' /\ Ended(transfer', {})
        BY <3>2, <3>4, <4>1, <4>2, NextTurn
      <4> QED BY <2>3, <4>3
    <3>6. CASE /\ transfer' = [start(items) EXCEPT !.running = FALSE, !.summary = "Nothing"]
               /\ SetTasks(jobs, rest)
               /\ UNCHANGED <<counts, astray>>
      <4> DEFINE t == [start(items) EXCEPT !.running = FALSE, !.summary = "Nothing"]
      <4>1. /\ t \in TransferState
            /\ t.next_index = 0 /\ t.completed = 0 /\ t.skipped = 0 /\ t.failed = 0
            /\ t.pending_conflict = NoItem
        BY <3>2, <3>3 DEF TransferState
      <4>2. transfer' = t /\ jobs' = {} /\ pending' = {}
        BY <2>1, <3>6 DEF SetTasks
      <4> HIDE DEF t, Goal
      <4> QED BY <1>5, <2>3, <4>1, <4>2
    <3> QED BY <2>3, <3>5, <3>6
  <2>4. CASE /\ transfer' = [transfer EXCEPT !.preparing = FALSE, !.running = FALSE,
                                           !.summary = "PreparationFailed"]
             /\ SetTasks(jobs, rest)
             /\ UNCHANGED <<counts, astray, outcomes>>
    <3>1. jobs' = {} /\ pending' = {} /\ outcomes' = outcomes
      BY <2>1, <2>4 DEF SetTasks
    <3>2. /\ transfer'.items = transfer.items /\ transfer'.mode = transfer.mode
          /\ transfer'.next_index = transfer.next_index
          /\ transfer'.completed = transfer.completed /\ transfer'.skipped = transfer.skipped
          /\ transfer'.failed = transfer.failed
          /\ transfer'.pending_conflict = transfer.pending_conflict
      BY <1>1, <2>4 DEF TransferState
    <3> QED BY <1>2, <3>1, <3>2 DEF InTurn, Ended, IsOpen
  <2>5. CASE outcomes' = {} /\
             \E items \in Listings(p) :
                IF items = <<>>
                  THEN /\ transfer' = [start(items) EXCEPT !.running = FALSE,
                                                          !.summary = "Nothing"]
                       /\ SetTasks(jobs, rest)
                       /\ UNCHANGED <<counts, astray>>
                  ELSE ProcessNext(start(items), jobs, rest)
    <3>1. PICK items \in Listings(p) :
                IF items = <<>>
                  THEN /\ transfer' = [start(items) EXCEPT !.running = FALSE,
                                                          !.summary = "Nothing"]
                       /\ SetTasks(jobs, rest)
                       /\ UNCHANGED <<counts, astray>>
                  ELSE ProcessNext(start(items), jobs, rest)
      BY <2>5
    <3> HIDE DEF Goal
    <3> QED BY <2>3, <2>5, <3>1
  <2> HIDE DEF Goal
  <2> QED BY <1>16, <2>1, <2>4, <2>5 DEF TransferPrepared
<1>17. ASSUME NEW j \in jobs, LookAtDestination(j) \/ Copy(j) \/ DeleteSource(j) PROVE Goal
  <2>1. PICK step : jobs' = (jobs \ {j}) \union {[j EXCEPT !.step = step]}
    BY <1>17 DEF LookAtDestination, Copy, DeleteSource, Advance
  <2>2. UNCHANGED <<transfer, pending, outcomes>>
    BY <1>17 DEF LookAtDestination, Copy, DeleteSource, Advance
  <2>3. [j EXCEPT !.step = step].index = j.index
    BY <1>1 DEF Job
  <2>4. \A k \in jobs' : k.index = transfer.next_index
    BY <1>2, <2>1, <2>3 DEF InTurn
  <2> QED BY <1>2, <2>2, <2>4 DEF InTurn, IsOpen
<1>18. ASSUME NEW j \in jobs, TransferStepFinished(j) PROVE Goal
  <2>1. /\ jobs \ {j} = {} /\ pending = {} /\ IsOpen
        /\ j.index = transfer.next_index /\ transfer.next_index < Len(transfer.items)
    BY <1>2, <1>3 DEF InTurn
  <2>2. CASE /\ transfer' = [transfer EXCEPT !.pending_conflict = j.item, !.running = FALSE]
             /\ SetTasks(jobs \ {j}, pending)
             /\ UNCHANGED <<counts, astray, outcomes>>
    <3>1. jobs' = {} /\ pending' = {} /\ outcomes' = outcomes
      BY <2>1, <2>2 DEF SetTasks
    <3>2. /\ transfer'.items = transfer.items /\ transfer'.mode = transfer.mode
          /\ transfer'.next_index = transfer.next_index
          /\ transfer'.completed = transfer.completed /\ transfer'.skipped = transfer.skipped
          /\ transfer'.failed = transfer.failed
      BY <1>1, <2>2 DEF TransferState
    <3> QED BY <1>2, <2>1, <3>1, <3>2 DEF InTurn, Ended, IsOpen
  <2>3. CASE /\ j.step # "Conflict"
             /\ outcomes' = outcomes \union {[index |-> j.index, result |-> j.step]}
             /\ ProcessNext(Counted(transfer, j.step), jobs \ {j}, pending)
    <3>1. j.step \in {"Copied", "Skipped", "Failed"}
      BY <1>18, <2>3 DEF TransferStepFinished, Results
    <3>2. Ended(Counted(transfer, j.step), outcomes')
      BY <1>1, <1>2, <2>1, <2>3, <3>1, CountEnds
    <3>3. Counted(transfer, j.step) \in TransferState
      BY <1>1, CountedType
    <3>4. Counted(transfer, j.step).mode # "None"
      BY <1>1, <2>1 DEF Counted, IsOpen, TransferState
    <3>5. ProcessNext(Counted(transfer, j.step), {}, {})
      BY <2>1, <2>3
    <3> QED BY <3>2, <3>3, <3>4, <3>5, NextTurn
  <2> HIDE DEF Goal
  <2> QED BY <1>18, <2>1, <2>2, <2>3 DEF TransferStepFinished
<1>19. ASSUME NEW policy \in Policies, transfer.pending_conflict # NoItem
       PROVE  /\ Remember(policy) \in TransferState
              /\ Remember(policy).mode = transfer.mode
              /\ Remember(policy).items = transfer.items
              /\ Remember(policy).next_index = transfer.next_index
              /\ Remember(policy).preparing = transfer.preparing
              /\ Remember(policy).pending_conflict = NoItem
              /\ Ended(Remember(policy), outcomes)
  <2>1. /\ Remember(policy) \in TransferState
        /\ Remember(policy).mode = transfer.mode
        /\ Remember(policy).items = transfer.items
        /\ Remember(policy).next_index = transfer.next_index
        /\ Remember(policy).preparing = transfer.preparing
        /\ Remember(policy).pending_conflict = NoItem
        /\ Remember(policy).completed = transfer.completed
        /\ Remember(policy).skipped = transfer.skipped
        /\ Remember(policy).failed = transfer.failed
    BY <1>1 DEF Remember, TransferState
  <2> QED BY <1>2, <2>1 DEF Ended
<1>20. ASSUME transfer.pending_conflict # NoItem
       PROVE  /\ jobs = {} /\ transfer.next_index < Len(transfer.items)
              /\ transfer.mode # "None"
              /\ pending # {} => transfer.preparing
  BY <1>2, <1>20 DEF InTurn, IsOpen
<1>21. ASSUME NEW policy \in Policies, ConflictSkip(policy) PROVE Goal
  <2> DEFINE t == Remember(policy)
             u == Counted(t, "Skipped")
  <2>1. transfer.pending_conflict # NoItem
    BY <1>21 DEF ConflictSkip
  <2>2. /\ t \in TransferState /\ t.mode # "None" /\ t.next_index = transfer.next_index
        /\ t.next_index < Len(t.items) /\ (pending # {} => t.preparing) /\ Ended(t, outcomes)
    BY <1>19, <1>20, <2>1
  <2>3. /\ outcomes' = outcomes \union {[index |-> t.next_index, result |-> "Skipped"]}
        /\ ProcessNext(u, {}, pending)
    BY <1>20, <1>21, <2>1, <2>2 DEF ConflictSkip
  <2> HIDE DEF t
  <2>4. u.mode = t.mode /\ u.preparing = t.preparing
    BY <2>2 DEF Counted, TransferState
  <2>5. u \in TransferState /\ Ended(u, outcomes')
    BY <2>2, <2>3, CountedType, CountEnds
  <2> HIDE DEF u
  <2> QED BY <2>2, <2>3, <2>4, <2>5, NextTurn
<1>22. ASSUME NEW policy \in Policies, ConflictOverwrite(policy) PROVE Goal
  <2> DEFINE t == Remember(policy)
  <2>1. transfer.pending_conflict # NoItem
    BY <1>22 DEF ConflictOverwrite
  <2>2. /\ t \in TransferState /\ t.mode # "None" /\ t.next_index = transfer.next_index
        /\ t.next_index < Len(t.items) /\ (pending # {} => t.preparing) /\ Ended(t, outcomes)
        /\ t.pending_conflict = NoItem
    BY <1>19, <1>20, <2>1
  <2>3. /\ SpawnStep(transfer.pending_conflict, "OverwriteAll", FALSE, transfer.next_index,
                     {}, pending)
        /\ transfer' = [t EXCEPT !.running = TRUE] /\ outcomes' = outcomes
    BY <1>20, <1>22, <2>1 DEF ConflictOverwrite
  <2> HIDE DEF t
  <2>4. transfer.pending_conflict \in Item /\ transfer.next_index \in Nat
    BY <1>1, <2>1 DEF TransferState
  <2>5. PICK dst \in Servers \union {Disk}, step \in {"head", "Failed"} :
          Spawned({}, pending,
            NewJob(transfer.pending_conflict, "OverwriteAll", FALSE, transfer.next_index,
                   dst, step))
    BY <2>3, <2>4, SpawnShape DEF Policies
  <2>6. /\ jobs' = {NewJob(transfer.pending_conflict, "OverwriteAll", FALSE,
                           transfer.next_index, dst, step)}
        /\ pending' = pending
    BY <2>5 DEF Spawned
  <2>7. \A j \in jobs' : j.index = t.next_index
    BY <2>2, <2>6 DEF NewJob
  <2>8. /\ transfer'.mode = t.mode /\ transfer'.items = t.items
        /\ transfer'.next_index = t.next_index /\ transfer'.completed = t.completed
        /\ transfer'.skipped = t.skipped /\ transfer'.failed = t.failed
        /\ transfer'.pending_conflict = NoItem /\ transfer'.running
        /\ transfer'.preparing = t.preparing
    BY <2>2, <2>3 DEF TransferState
  <2>9. Ended(transfer', outcomes')
    BY <2>2, <2>3, <2>8 DEF Ended
  <2> QED BY <2>2, <2>6, <2>7, <2>8, <2>9 DEF InTurn, IsOpen
<1>23. CASE UNCHANGED vars
  BY <1>4, <1>23 DEF vars, tasks, history
<1> QED BY <1>6, <1>10, <1>11, <1>12, <1>13, <1>14, <1>15, <1>16, <1>17, <1>18, <1>21, <1>22, <1>23
        DEF Next, EditModal, Answer, Prepared, RunStep, StepFinished

-----------------------------------------------------------------------------
(* No content is lost *)

LEMMA AbsentIsNoContent == Absent \notin Full
<1>1. \A l \in Full : l[2] \in Names
  BY FullAssumption DEF Locations
<1>2. Absent[2] = NoName
  BY DEF Absent
<1> QED BY <1>1, <1>2, NamesAssumption

\* Places: while nothing went astray, a step copies to where it looked, and elsewhere
\* than it reads when it reads an object.
LEMMA Places ==
  ASSUME TypeOK, ProperJobs, ~astray, NEW j \in jobs
  PROVE  /\ From(j) \in Locations /\ CopiesTo(j) \in Locations
         /\ CopiesTo(j) = To(j)
         /\ j.item.from = CURRENT => From(j) # CopiesTo(j)
         /\ j.dst = Disk => j.item.from = CURRENT
<1>1. j \in Job /\ ProperJob(j)
  BY DEF TypeOK, ProperJobs
<1>2. /\ j.src \in Servers /\ j.item.from \in {CURRENT, Disk}
      /\ j.item.to \in Conns \union {CURRENT, Disk}
  BY <1>1 DEF Job, Item
<1>3. CURRENT # Disk /\ Disk \notin Servers
  BY ServersAssumption DEF CURRENT, Disk
<1>4. /\ j.item.from = Disk => j.item.to = CURRENT
      /\ j.item.from = CURRENT /\ j.item.to = CURRENT => j.item.target # j.item.source
      /\ j.item.to = Disk <=> j.dst = Disk
      /\ j.item.to = CURRENT => j.dst = j.src
      /\ j.item.from = Disk \/ j.item.to \notin Conns
  BY <1>1 DEF ProperJob, Proper
<1>5. j.dst = Disk => j.item.from = CURRENT
  BY <1>2, <1>3, <1>4
<1>6. j.item.from = CURRENT /\ j.dst # Disk => j.item.to = CURRENT
  BY <1>2, <1>3, <1>4
<1>7. CopiesTo(j) = To(j)
  BY <1>4, <1>6 DEF CopiesTo, To
<1>8. ASSUME j.item.from = CURRENT PROVE From(j) # CopiesTo(j)
  <2>1. From(j) = <<j.src, j.item.source>>
    BY <1>3, <1>8 DEF From
  <2>2. CopiesTo(j) = <<j.dst, j.item.target>>
    BY <1>7 DEF To
  <2> QED BY <1>2, <1>3, <1>4, <1>6, <1>8, <2>1, <2>2
<1> QED BY <1>1, <1>5, <1>7, <1>8, JobPlaces

\* StillKept: writing one place loses nothing when what it held is elsewhere.
LEMMA StillKept ==
  ASSUME NEW place \in Locations, NEW content, TypeOK,
         store' = [store EXCEPT ![place] = content],
         Full \subseteq Kept \union consented, consented \subseteq consented',
         store[place] \in Full =>
           (\E l \in Locations : store'[l] = store[place]) \/ store[place] \in consented'
  PROVE  Full \subseteq Kept' \union consented'
<1> SUFFICES ASSUME NEW x \in Full PROVE x \in Kept' \union consented'
  OBVIOUS
<1>1. CASE x \in consented
  BY <1>1
<1>2. CASE x \in Kept
  <2>1. PICK l \in Locations : x = store[l]
    BY <1>2 DEF Kept
  <2>2. CASE l = place
    <3>1. (\E k \in Locations : store'[k] = x) \/ x \in consented'
      BY <2>1, <2>2
    <3> QED BY <3>1 DEF Kept
  <2>3. CASE l # place
    <3>1. store'[l] = x
      BY <2>1, <2>3 DEF TypeOK
    <3> QED BY <3>1 DEF Kept
  <2> QED BY <2>2, <2>3
<1> QED BY <1>1, <1>2

LEMMA SpawnSteps ==
  ASSUME NEW item, NEW policy, NEW is_move, NEW index, NEW js, NEW ps,
         SpawnStep(item, policy, is_move, index, js, ps)
  PROVE  /\ \A j \in jobs' : j \in js \/ j.step \in {"head", "Failed"}
         /\ astray => astray'
<1>1. PICK c \in Clients(item.to) :
        SetTasks(js \union {NewJob(item, policy, is_move, index, c.server, c.step)}, ps)
  BY DEF SpawnStep, NewJob
<1>2. c.step \in {"head", "Failed"}
  BY DEF Clients
<1>3. NewJob(item, policy, is_move, index, c.server, c.step).step = c.step
  BY DEF NewJob
<1> QED BY <1>1, <1>2, <1>3 DEF SetTasks, SpawnStep

LEMMA NextSteps ==
  ASSUME NEW t, NEW js, NEW ps, ProcessNext(t, js, ps)
  PROVE  /\ \A j \in jobs' : j \in js \/ j.step \in {"head", "Failed"}
         /\ astray => astray'
<1>1. CASE SetTasks(js, ps) /\ UNCHANGED <<astray, counts>>
  BY <1>1 DEF SetTasks
<1>2. CASE SpawnStep(t.items[t.next_index + 1], t.overwrite_policy, t.mode = "MoveObject",
                     t.next_index, js, ps)
  BY <1>2, SpawnSteps
<1> QED BY <1>1, <1>2 DEF ProcessNext

\* StepSafe: a step that leaves nothing mixed and nothing astray loses nothing.
LEMMA StepSafe ==
  ASSUME TypeOK, ProperJobs, Alone, ~mixed /\ ~astray => Safe, [Next]_vars,
         ~mixed', ~astray'
  PROVE  Safe'
<1>1. ASSUME UNCHANGED <<store, consented>>, astray => astray',
             \A j \in jobs' : j \in jobs \/ j.step \in {"head", "Failed"}
      PROVE  Safe'
  <2>1. ~mixed /\ ~astray /\ Safe
    BY <1>1, StepAlone
  <2>2. ASSUME NEW j \in jobs' PROVE Careful(j)'
    BY <1>1, <2>1, <2>2 DEF Safe, Careful
  <2>3. (Full \subseteq Kept \union consented)'
    BY <1>1, <2>1 DEF Safe, Kept
  <2> QED BY <2>2, <2>3 DEF Safe
<1>2. ASSUME NEW j \in jobs, astray' = astray
      PROVE  /\ ~mixed /\ ~astray /\ Careful(j) /\ Full \subseteq Kept \union consented
             /\ jobs = {j}
  <2>1. ~mixed /\ ~astray /\ Safe
    BY <1>2, StepAlone
  <2> QED BY <2>1, Single DEF Safe
<1>3. ASSUME NEW j \in jobs, LookAtDestination(j) PROVE Safe'
  <2>1. PICK step \in {"copy", "Conflict", "Skipped"} :
          /\ Advance(j, step) /\ UNCHANGED <<store, consented>>
          /\ step = "copy" => j.policy = "OverwriteAll" \/ store[To(j)] = Absent
    <3>1. j.policy \in {"Ask", "OverwriteAll", "SkipAll"}
      BY DEF TypeOK, Job, Policies
    <3> QED BY <1>3, <3>1 DEF LookAtDestination
  <2>2. PICK n : n = [j EXCEPT !.step = step]
    OBVIOUS
  <2>3. n.step = step /\ n.policy = j.policy /\ To(n) = To(j)
    BY <2>2 DEF TypeOK, Job, To
  <2>4. jobs' = {n} /\ Full \subseteq Kept \union consented
    BY <1>2, <2>1, <2>2 DEF Advance
  <2>5. To(n)' = To(n)
    BY DEF To
  <2>6. Careful(n)'
    BY <2>1, <2>3, <2>5 DEF Careful
  <2>7. (Full \subseteq Kept \union consented)'
    BY <2>1, <2>4 DEF Kept
  <2> QED BY <2>4, <2>6, <2>7 DEF Safe
<1>4. ASSUME NEW j \in jobs, Copy(j) PROVE Safe'
  <2>1. astray' = astray
    BY <1>4 DEF Copy, Advance
  <2>2. /\ ~astray /\ Careful(j) /\ Full \subseteq Kept \union consented /\ jobs = {j}
    BY <1>2, <2>1
  <2>3. /\ From(j) \in Locations /\ CopiesTo(j) \in Locations
        /\ CopiesTo(j) = To(j)
        /\ j.item.from = CURRENT => From(j) # CopiesTo(j)
        /\ j.dst = Disk => j.item.from = CURRENT
    BY <2>2, Places
  <2>4. PICK step \in {"delete", "Copied", "Failed"} :
          /\ Advance(j, step)
          /\ step = "delete" => /\ j.item.from = CURRENT /\ j.dst # Disk
                                /\ store' = [store EXCEPT ![CopiesTo(j)] = store[From(j)]]
    BY <1>4 DEF Copy
  <2>5. PICK n : n = [j EXCEPT !.step = step]
    OBVIOUS
  <2>6. /\ n.step = step /\ n.item = j.item /\ n.dst = j.dst /\ n.src = j.src
    BY <2>5 DEF TypeOK, Job
  <2>7. From(n) = From(j) /\ CopiesTo(n) = CopiesTo(j)
    BY <2>6 DEF From, CopiesTo, To
  <2>8. jobs' = {n}
    BY <2>2, <2>4, <2>5 DEF Advance
  <2>9. Careful(n)'
    <3>1. step = "delete" => store'[CopiesTo(n)] = store'[From(n)]
      BY <2>3, <2>4, <2>7 DEF TypeOK
    <3>2. From(n)' = From(n) /\ CopiesTo(n)' = CopiesTo(n)
      BY DEF From, CopiesTo, To
    <3> QED BY <2>4, <2>6, <3>1, <3>2 DEF Careful
  <2>10. Full \subseteq Kept' \union consented'
    <3>1. CASE UNCHANGED <<store, consented>>
      BY <2>2, <3>1 DEF Kept
    <3>2. ASSUME NEW content,
                 store' = [store EXCEPT ![CopiesTo(j)] = content],
                 store'[From(j)] = store[From(j)],
                 consented' = consented \union Consent(j)
          PROVE  Full \subseteq Kept' \union consented'
      <4>1. CASE j.policy = "OverwriteAll"
        <5>1. store[CopiesTo(j)] \in consented' \/ store[CopiesTo(j)] = store'[From(j)]
          BY <3>2, <4>1 DEF Consent
        <5> QED BY <2>2, <2>3, <3>2, <5>1, StillKept
      <4>2. CASE j.policy # "OverwriteAll"
        <5>1. store[CopiesTo(j)] = Absent
          BY <1>4, <2>2, <2>3, <4>2 DEF Careful, Copy
        <5> QED BY <2>2, <2>3, <3>2, <5>1, AbsentIsNoContent, StillKept
      <4> QED BY <4>1, <4>2
    <3>3. CASE /\ store' = [store EXCEPT ![CopiesTo(j)] = store[From(j)]]
               /\ consented' = consented \union Consent(j)
      <4>1. store'[From(j)] = store[From(j)]
        BY <2>3, <3>3 DEF TypeOK
      <4> QED BY <3>2, <3>3, <4>1
    <3>4. CASE /\ j.dst = Disk
               /\ store' = [store EXCEPT ![CopiesTo(j)] = Partial]
               /\ consented' = consented \union Consent(j)
      <4>1. store'[From(j)] = store[From(j)]
        BY <2>3, <3>4 DEF TypeOK
      <4> QED BY <3>2, <3>4, <4>1
    <3> QED BY <1>4, <3>1, <3>3, <3>4 DEF Copy
  <2> QED BY <2>8, <2>9, <2>10 DEF Safe
<1>5. ASSUME NEW j \in jobs, DeleteSource(j) PROVE Safe'
  <2>1. astray' = astray
    BY <1>5 DEF DeleteSource, Advance
  <2>2. /\ ~astray /\ Careful(j) /\ Full \subseteq Kept \union consented /\ jobs = {j}
    BY <1>2, <2>1
  <2>3. /\ From(j) \in Locations /\ CopiesTo(j) \in Locations
        /\ From(j) # CopiesTo(j) /\ store[CopiesTo(j)] = store[From(j)]
    BY <1>5, <2>2, Places DEF Careful, DeleteSource
  <2>4. PICK step \in {"Copied", "Failed"} : Advance(j, step)
    BY <1>5 DEF DeleteSource
  <2>5. PICK n : n = [j EXCEPT !.step = step]
    OBVIOUS
  <2>6. n.step = step
    BY <2>5 DEF TypeOK, Job
  <2>7. jobs' = {n} /\ Careful(n)'
    BY <2>2, <2>4, <2>5, <2>6 DEF Advance, Careful
  <2>8. Full \subseteq Kept' \union consented'
    <3>1. CASE UNCHANGED store
      BY <1>5, <2>2, <3>1 DEF Kept, DeleteSource
    <3>2. CASE store' = [store EXCEPT ![From(j)] = Absent]
      <4>1. store'[CopiesTo(j)] = store[From(j)]
        BY <2>3, <3>2 DEF TypeOK
      <4>2. consented' = consented
        BY <1>5 DEF DeleteSource
      <4> QED BY <2>2, <2>3, <3>2, <4>1, <4>2, StillKept
    <3> QED BY <1>5, <3>1, <3>2 DEF DeleteSource
  <2> QED BY <2>7, <2>8 DEF Safe
<1>6. CASE Prepared
  <2>1. PICK p \in pending : TransferPrepared(p)
    BY <1>6 DEF Prepared
  <2>2. \/ SetTasks(jobs, pending \ {p}) /\ astray' = astray
        \/ \E t : ProcessNext(t, jobs, pending \ {p})
    BY <2>1 DEF TransferPrepared
  <2>3. UNCHANGED <<store, consented>>
    BY <2>1 DEF TransferPrepared
  <2> QED BY <1>1, <2>2, <2>3, NextSteps DEF SetTasks
<1>7. CASE StepFinished
  <2>1. PICK j \in jobs : TransferStepFinished(j)
    BY <1>7 DEF StepFinished
  <2>2. \/ SetTasks(jobs \ {j}, pending) /\ astray' = astray
        \/ \E t : ProcessNext(t, jobs \ {j}, pending)
    BY <2>1 DEF TransferStepFinished
  <2>3. UNCHANGED <<store, consented>>
    BY <2>1 DEF TransferStepFinished
  <2> QED BY <1>1, <2>2, <2>3, NextSteps DEF SetTasks
<1>8. CASE Answer
  <2>1. PICK policy : ConflictSkip(policy) \/ ConflictOverwrite(policy)
    BY <1>8 DEF Answer
  <2>2. UNCHANGED <<store, consented>>
    BY <2>1 DEF ConflictSkip, ConflictOverwrite
  <2>3. \/ ProcessNext(Counted(Remember(policy), "Skipped"), jobs, pending)
        \/ SpawnStep(transfer.pending_conflict, "OverwriteAll", FALSE, transfer.next_index,
                     jobs, pending)
    BY <2>1 DEF ConflictSkip, ConflictOverwrite
  <2> QED BY <1>1, <2>2, <2>3, NextSteps, SpawnSteps
<1>9. CASE RunStep
  BY <1>3, <1>4, <1>5, <1>9 DEF RunStep
<1>10. CASE OpenModal
  BY <1>1, <1>10 DEF OpenModal, OpenCopyObject, OpenMoveObject, OpenImportFolder,
                     OpenExportPrefix, Open
<1>11. CASE EditModal
  BY <1>1, <1>11 DEF EditModal, DestinationConnectionChanged, DestinationChanged,
                     CloseTransferModal, tasks, history
<1>12. CASE (\E c \in Conns : ConnectTo(c)) \/ StartTransfer \/ DestinationBucketsLoaded
            \/ UNCHANGED vars
  BY <1>1, <1>12 DEF ConnectTo, StartTransfer, SetTasks, DestinationBucketsLoaded, tasks,
                     history, vars
<1> QED BY <1>6, <1>7, <1>8, <1>9, <1>10, <1>11, <1>12 DEF Next

-----------------------------------------------------------------------------
(* The theorems *)

LEMMA InitHolds == Init => IInv
<1> SUFFICES ASSUME Init PROVE IInv
  OBVIOUS
<1>1. TypeOK /\ ProperItems /\ ProperJobs
  BY InitType, InitProper
<1>2. /\ jobs = {} /\ pending = {} /\ outcomes = {} /\ transfer = NoTransfer
      /\ store = [l \in Locations |-> IF l \in Full THEN l ELSE Absent]
  BY DEF Init
<1>3. Alone /\ IsFiniteSet(outcomes)
  <2>1. Cardinality({}) = 0 /\ IsFiniteSet({})
    BY FS_EmptySet
  <2> QED BY <1>2, <2>1 DEF Alone
<1>4. /\ NoTransfer.next_index = 0 /\ NoTransfer.completed = 0 /\ NoTransfer.skipped = 0
      /\ NoTransfer.failed = 0 /\ NoTransfer.pending_conflict = NoItem
      /\ NoTransfer.items = <<>>
  BY DEF NoTransfer, Modal
<1>5. InTurn
  BY <1>2, <1>4 DEF InTurn
<1>6. Ended(transfer, outcomes)
  BY <1>2, <1>4, EmptyEnds, EmptySeq
<1>7. Safe
  <2>1. \A l \in Full : l \in Locations /\ store[l] = l
    BY <1>2, FullAssumption
  <2> QED BY <1>2, <2>1 DEF Safe, Kept
<1> QED BY <1>1, <1>3, <1>5, <1>6, <1>7 DEF IInv

LEMMA StepHolds == IInv /\ [Next]_vars => IInv'
<1> SUFFICES ASSUME IInv, [Next]_vars PROVE IInv'
  OBVIOUS
<1>1. /\ TypeOK /\ ProperItems /\ ProperJobs /\ Alone /\ IsFiniteSet(outcomes)
      /\ ~mixed => InTurn /\ Ended(transfer, outcomes)
      /\ ~mixed /\ ~astray => Safe
  BY DEF IInv
<1>2. TypeOK' /\ ProperItems' /\ ProperJobs'
  BY <1>1, StepType, StepProper
<1>3. Alone' /\ IsFiniteSet(outcomes)'
  BY <1>1, StepAlone, StepFinite
<1>4. ~mixed' => InTurn' /\ Ended(transfer', outcomes')
  BY <1>1, StepTurn
<1>5. ~mixed' /\ ~astray' => Safe'
  BY <1>1, StepSafe
<1>6. Ended(transfer, outcomes)' <=> Ended(transfer', outcomes')
  BY DEF Ended
<1> QED BY <1>2, <1>3, <1>4, <1>5, <1>6 DEF IInv

THEOREM Invariance == Spec => []IInv
BY InitHolds, StepHolds, PTL DEF Spec

\* TypeCorrect: every variable keeps its shape, also when a message meets a modal it was
\* not for (the handlers of transfer.rs).
THEOREM TypeCorrect == Spec => []TypeOK
<1>1. IInv => TypeOK
  BY DEF IInv
<1> QED BY <1>1, Invariance, PTL

\* ItemsEndOnce: unless two tasks were under way together, or one outlived its modal, each
\* item ends once, in order, and the counters say how (TransferStepFinished).
THEOREM ItemsEndOnce == Spec => []EachItemOnce
<1>1. IInv => EachItemOnce
  BY DEF IInv, EachItemOnce, Ended, With
<1> QED BY <1>1, Invariance, PTL

\* NothingIsLost: inside one connection, with one task at a time and existence checks that
\* answer, no content is lost that the user did not let be overwritten
\* (run_transfer_step).
THEOREM NothingIsLost == Spec => []NothingLost
<1>1. IInv => NothingLost
  BY DEF IInv, Safe, NothingLost
<1> QED BY <1>1, Invariance, PTL

=============================================================================
