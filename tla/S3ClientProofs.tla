---------------------------- MODULE S3ClientProofs ----------------------------
(***************************************************************************)
(* Theorems about S3Client, for every set of calls, jobs, keys and files,  *)
(* any contents, and any sizes of parts and pages: parts are cleared,      *)
(* copies are made of their source, and listings lack nothing.             *)
(***************************************************************************)
EXTENDS S3Client, FiniteSetTheorems, SequenceTheorems, TLAPS

-----------------------------------------------------------------------------
(* The invariant *)

\* The steps of upload_file while the server keeps its parts.
Keeping == {"open", "part", "complete", "abort"}

Excuses == {"create", "complete", "abort"}

Fields == {"job", "at", "size", "pos", "data", "part_number", "listed", "token",
           "is_truncated", "failed"}

HasFields(k) == DOMAIN k = Fields

Shape == DOMAIN calls = Calls /\ \A c \in Calls : HasFields(calls[c])

\* Parts on the server are of a call that still has the step to take that clears them,
\* or had one of these fail.
Cleared(c) ==
  c \in DOMAIN uploads =>
    /\ calls[c].at # "idle"
    /\ calls[c].at \in Keeping \/ calls[c].failed \intersect Excuses # {}

IInv ==
  /\ Shape
  /\ DOMAIN uploads \subseteq Calls
  /\ \A c \in Calls : Cleared(c)

-----------------------------------------------------------------------------
(* Steps *)

\* Becomes(c, k): the call c becomes k, which forgets no failure.
Becomes(c, k) ==
  /\ calls' = [calls EXCEPT ![c] = k]
  /\ HasFields(k)
  /\ calls[c].failed \subseteq k.failed

\* Clears(c, k): what becomes of the parts of c.
Clears(c, k) ==
  /\ DOMAIN uploads' \subseteq {c} \union DOMAIN uploads
  /\ k.at # "idle"
  /\ c \in DOMAIN uploads' => \/ k.at \in Keeping
                              \/ k.failed \intersect Excuses # {}
                              \/ c \in DOMAIN uploads /\ calls[c].at \notin Keeping

\* CallStep: a step of one call leaves the others and their parts as they are.
LEMMA CallStep ==
  ASSUME IInv, NEW c \in Calls, NEW k, Becomes(c, k), Clears(c, k)
  PROVE  IInv'
<1>1. \A d \in Calls : calls'[d] = IF d = c THEN k ELSE calls[d]
  BY DEF IInv, Shape, Becomes
<1>2. Shape'
  BY <1>1 DEF IInv, Shape, Becomes
<1>3. DOMAIN uploads' \subseteq Calls
  BY DEF IInv, Clears
<1>4. ASSUME NEW d \in Calls PROVE Cleared(d)'
  <2>1. CASE d = c
    BY <1>1, <2>1 DEF IInv, Cleared, Becomes, Clears
  <2>2. CASE d # c
    BY <1>1, <2>2 DEF IInv, Cleared, Clears
  <2> QED BY <2>1, <2>2
<1> QED BY <1>2, <1>3, <1>4 DEF IInv

\* FailBecomes: a step that fails adds itself to the failures of its call.
LEMMA FailBecomes ==
  ASSUME IInv, NEW c \in Calls, NEW then, Fail(c, then)
  PROVE  \E k : /\ Becomes(c, k) /\ k.at = then
                /\ k.failed = calls[c].failed \union {calls[c].at}
<1> DEFINE k == [calls[c] EXCEPT !.at = then, !.failed = @ \union {calls[c].at}]
<1>1. calls' = [calls EXCEPT ![c] = k]
  BY DEF Fail
<1>2. HasFields(calls[c])
  BY DEF IInv, Shape
<1>3. k.at = then /\ k.failed = calls[c].failed \union {calls[c].at} /\ HasFields(k)
  BY <1>2 DEF HasFields, Fields
<1> HIDE DEF k
<1> QED BY <1>1, <1>3 DEF Becomes

\* GotoBecomes: a call that goes on keeps its failures.
LEMMA GotoBecomes ==
  ASSUME IInv, NEW c \in Calls, NEW at, Goto(c, at)
  PROVE  \E k : Becomes(c, k) /\ k.at = at
<1> DEFINE k == [calls[c] EXCEPT !.at = at]
<1>1. calls' = [calls EXCEPT ![c] = k]
  BY DEF Goto
<1>2. HasFields(calls[c])
  BY DEF IInv, Shape
<1>3. k.at = at /\ k.failed = calls[c].failed /\ HasFields(k)
  BY <1>2 DEF HasFields, Fields
<1> HIDE DEF k
<1> QED BY <1>1, <1>3 DEF Becomes

\* Failing: a step that fails without effect is excused, or the call still has to abort.
LEMMA Failing ==
  ASSUME IInv, NEW c \in Calls, NEW then \in {"err", "abort"}, FailsWithout(c, then),
         calls[c].at \in Keeping => then = "abort" \/ calls[c].at \in Excuses
  PROVE  IInv'
<1>1. Fail(c, then) /\ UNCHANGED uploads
  BY DEF FailsWithout
<1>2. PICK k : /\ Becomes(c, k) /\ k.at = then
               /\ k.failed = calls[c].failed \union {calls[c].at}
  BY <1>1, FailBecomes
<1>3. Clears(c, k)
  BY <1>1, <1>2 DEF Clears, Keeping, Excuses
<1> QED BY <1>2, <1>3, CallStep

\* Going: a step of a call without parts goes on and leaves the parts there are.
LEMMA Going ==
  ASSUME IInv, NEW c \in Calls, NEW k, Becomes(c, k), k.at # "idle",
         calls[c].at \notin Keeping, UNCHANGED uploads
  PROVE  IInv'
<1>1. Clears(c, k)
  BY DEF Clears
<1> QED BY <1>1, CallStep

\* Ending: a call that never had parts ends and leaves the parts there are.
LEMMA Ending ==
  ASSUME IInv, NEW c \in Calls, Goto(c, "ok") \/ Fail(c, "err"),
         calls[c].at \notin Keeping, UNCHANGED uploads
  PROVE  IInv'
<1>1. PICK k : Becomes(c, k) /\ k.at \in {"ok", "err"}
  BY GotoBecomes, FailBecomes
<1> QED BY <1>1, Going

-----------------------------------------------------------------------------
(* The operations *)

\* UploadStatKeeps: the call has no parts yet when the size is asked for.
LEMMA UploadStatKeeps ==
  ASSUME IInv, NEW c \in Calls, UploadStat(c)
  PROVE  IInv'
<1>1. HasFields(calls[c]) /\ calls[c].at = "stat"
  BY DEF IInv, Shape, UploadStat
<1>2. CASE FailsWithout(c, "err")
  BY <1>1, <1>2, Failing DEF Keeping
<1>3. CASE ~FailsWithout(c, "err")
  <2> DEFINE size == Len(files[calls[c].job.file])
             at   == IF size <= THRESHOLD THEN "read" ELSE "create"
  <2>1. calls' = [calls EXCEPT ![c].size = size, ![c].at = at] /\ at \in {"read", "create"}
    BY <1>3, Zenon DEF UploadStat
  <2> HIDE DEF size, at
  <2> DEFINE k == [calls[c] EXCEPT !.size = size, !.at = at]
  <2>2. calls' = [calls EXCEPT ![c] = k]
    BY <2>1
  <2>3. k.at = at /\ k.failed = calls[c].failed /\ HasFields(k)
    BY <1>1 DEF HasFields, Fields
  <2> HIDE DEF k
  <2>4. UNCHANGED uploads /\ at # "idle"
    BY <1>3, <2>1 DEF UploadStat
  <2> QED BY <1>1, <2>2, <2>3, <2>4, Going DEF Becomes, Keeping
<1> QED BY <1>2, <1>3

\* BodyKeeps: nor has one that reads its source whole.
LEMMA BodyKeeps ==
  ASSUME IInv, NEW c \in Calls, ReadFile(c) \/ GetObject(c)
  PROVE  IInv'
<1>1. HasFields(calls[c]) /\ calls[c].at \in {"read", "get"}
  BY DEF IInv, Shape, ReadFile, GetObject
<1>2. CASE FailsWithout(c, "err")
  BY <1>1, <1>2, Failing DEF Keeping
<1>3. CASE ~FailsWithout(c, "err")
  <2>1. PICK data, at :
          /\ calls' = [calls EXCEPT ![c].data = data, ![c].at = at]
          /\ at \in {"put", "send", "file"}
    <3>1. CASE ReadFile(c)
      BY <1>3, <3>1 DEF ReadFile
    <3>2. CASE GetObject(c)
      <4> DEFINE at == IF calls[c].job.op = "relay" THEN "send" ELSE "file"
      <4>1. /\ calls' = [calls EXCEPT ![c].data = store[calls[c].job.key], ![c].at = at]
            /\ at \in {"put", "send", "file"}
        BY <1>3, <3>2, Zenon DEF GetObject
      <4> QED BY <4>1
    <3> QED BY <3>1, <3>2
  <2> DEFINE k == [calls[c] EXCEPT !.data = data, !.at = at]
  <2>2. calls' = [calls EXCEPT ![c] = k]
    BY <2>1
  <2>3. k.at = at /\ k.failed = calls[c].failed /\ HasFields(k)
    BY <1>1 DEF HasFields, Fields
  <2> HIDE DEF k
  <2>4. UNCHANGED uploads /\ at # "idle"
    BY <1>3, <2>1 DEF ReadFile, GetObject
  <2> QED BY <1>1, <2>2, <2>3, <2>4, Going DEF Becomes, Keeping
<1> QED BY <1>2, <1>3

\* The last request of put_object, relay_object_to_s3 and copy_object.
LEMMA WriteKeeps ==
  ASSUME IInv, NEW c \in Calls, PutObject(c) \/ SendBody(c) \/ CopyObject(c)
  PROVE  IInv'
<1>1. calls[c].at \in {"put", "send", "copy"}
  BY DEF PutObject, SendBody, CopyObject
<1>2. CASE FailsWithout(c, "err")
  BY <1>1, <1>2, Failing DEF Keeping
<1>3. CASE ~FailsWithout(c, "err")
  <2>1. (Goto(c, "ok") \/ Fail(c, "err")) /\ UNCHANGED uploads
    BY <1>3 DEF PutObject, SendBody, CopyObject
  <2> QED BY <1>1, <2>1, Ending DEF Keeping
<1> QED BY <1>2, <1>3

\* CreateKeeps: a call that creates an upload has still to take the steps that clear it.
LEMMA CreateKeeps ==
  ASSUME IInv, NEW c \in Calls, CreateMultipartUpload(c)
  PROVE  IInv'
<1>1. calls[c].at = "create"
  BY DEF CreateMultipartUpload
<1>2. CASE FailsWithout(c, "err")
  BY <1>1, <1>2, Failing DEF Keeping
<1>3. CASE ~FailsWithout(c, "err")
  <2>1. DOMAIN uploads' \subseteq {c} \union DOMAIN uploads
    BY <1>3 DEF CreateMultipartUpload
  <2>2. CASE Goto(c, "open")
    <3>1. PICK k : Becomes(c, k) /\ k.at = "open"
      BY <2>2, GotoBecomes
    <3> QED BY <2>1, <3>1, CallStep DEF Clears, Keeping
  <2>3. CASE Fail(c, "err")
    <3>1. PICK k : /\ Becomes(c, k) /\ k.at = "err"
                   /\ k.failed = calls[c].failed \union {"create"}
      BY <1>1, <2>3, FailBecomes
    <3> QED BY <2>1, <3>1, CallStep DEF Clears, Excuses
  <2> QED BY <1>3, <2>2, <2>3 DEF CreateMultipartUpload
<1> QED BY <1>2, <1>3

\* OpenKeeps: a file that cannot be opened leads to the abort.
LEMMA OpenKeeps ==
  ASSUME IInv, NEW c \in Calls, OpenFile(c)
  PROVE  IInv'
<1>1. CASE FailsWithout(c, "abort")
  BY <1>1, Failing
<1>2. CASE ~FailsWithout(c, "abort")
  <2>1. Goto(c, "part") /\ UNCHANGED uploads
    BY <1>2 DEF OpenFile
  <2>2. PICK k : Becomes(c, k) /\ k.at = "part"
    BY <2>1, GotoBecomes
  <2> QED BY <2>1, <2>2, CallStep DEF Clears, Keeping
<1> QED BY <1>1, <1>2

\* PartKeeps: so does a part that is refused.
LEMMA PartKeeps ==
  ASSUME IInv, NEW c \in Calls, UploadPart(c)
  PROVE  IInv'
<1>1. CASE FailsWithout(c, "abort")
  BY <1>1, Failing
<1>2. CASE ~FailsWithout(c, "abort")
  <2>1. HasFields(calls[c])
    BY DEF IInv, Shape
  <2> DEFINE chunk  == SubSeq(files[calls[c].job.file], calls[c].pos + 1,
                              Min({Len(files[calls[c].job.file]),
                                   calls[c].pos + Min({calls[c].size, PART})}))
             size   == calls[c].size - Len(chunk)
             pos    == calls[c].pos + Len(chunk)
             number == calls[c].part_number + 1
             at     == IF calls[c].size = Len(chunk) THEN "complete" ELSE "part"
  <2>2. /\ uploads' = [uploads EXCEPT ![c] = @ \o chunk]
        /\ \/ calls' = [calls EXCEPT ![c].size = size, ![c].pos = pos,
                                     ![c].part_number = number, ![c].at = at]
           \/ Fail(c, "abort")
        /\ at \in {"part", "complete"}
    BY <1>2 DEF UploadPart
  <2> HIDE DEF chunk, size, pos, number, at
  <2>3. DOMAIN uploads' = DOMAIN uploads /\ at \in {"part", "complete"}
    BY <2>2
  <2> DEFINE k == [calls[c] EXCEPT !.size = size, !.pos = pos, !.part_number = number,
                                   !.at = at]
  <2>4. k.at = at /\ k.failed = calls[c].failed /\ HasFields(k)
    BY <2>1 DEF HasFields, Fields
  <2>5. calls' = [calls EXCEPT ![c] = k] \/ Fail(c, "abort")
    BY <2>2
  <2> HIDE DEF k
  <2>6. CASE calls' = [calls EXCEPT ![c] = k]
    BY <2>3, <2>4, <2>6, CallStep DEF Becomes, Clears, Keeping
  <2>7. CASE Fail(c, "abort")
    <3>1. PICK q : Becomes(c, q) /\ q.at = "abort"
      BY <2>7, FailBecomes
    <3> QED BY <2>3, <3>1, CallStep DEF Clears, Keeping
  <2> QED BY <2>5, <2>6, <2>7
<1> QED BY <1>1, <1>2

\* The parts are put together, or thrown away.
LEMMA LastStepKeeps ==
  ASSUME IInv, NEW c \in Calls, CompleteMultipartUpload(c) \/ AbortMultipartUpload(c)
  PROVE  IInv'
<1>1. calls[c].at \in {"complete", "abort"}
  BY DEF CompleteMultipartUpload, AbortMultipartUpload
<1>2. CASE FailsWithout(c, "err")
  BY <1>1, <1>2, Failing DEF Excuses
<1>3. CASE ~FailsWithout(c, "err")
  <2>1. /\ uploads' = [d \in DOMAIN uploads \ {c} |-> uploads[d]]
        /\ Goto(c, "ok") \/ Goto(c, "err") \/ Fail(c, "err")
    BY <1>3 DEF CompleteMultipartUpload, AbortMultipartUpload
  <2>2. DOMAIN uploads' = DOMAIN uploads \ {c}
    BY <2>1
  <2>3. PICK k : Becomes(c, k) /\ k.at \in {"ok", "err"}
    BY <2>1, GotoBecomes, FailBecomes
  <2> QED BY <2>2, <2>3, CallStep DEF Clears
<1> QED BY <1>2, <1>3

\* FileKeeps: a download has no parts on the server.
LEMMA FileKeeps ==
  ASSUME IInv, NEW c \in Calls, CreateFile(c) \/ CopyBody(c)
  PROVE  IInv'
<1>1. HasFields(calls[c]) /\ calls[c].at \in {"file", "body"}
  BY DEF IInv, Shape, CreateFile, CopyBody
<1>2. CASE FailsWithout(c, "err")
  BY <1>1, <1>2, Failing DEF Keeping
<1>3. CASE ~FailsWithout(c, "err")
  <2>1. UNCHANGED uploads
    BY <1>3 DEF CreateFile, CopyBody
  <2>2. CASE CreateFile(c)
    <3>1. Goto(c, "body")
      BY <1>3, <2>2 DEF CreateFile
    <3>2. PICK k : Becomes(c, k) /\ k.at = "body"
      BY <3>1, GotoBecomes
    <3> QED BY <1>1, <2>1, <3>2, Going DEF Keeping
  <2>3. CASE CopyBody(c)
    <3> DEFINE pos == calls[c].pos + Min({PART, Len(calls[c].data) - calls[c].pos})
               at  == IF pos = Len(calls[c].data) THEN "ok" ELSE "body"
    <3>1. calls' = [calls EXCEPT ![c].pos = pos, ![c].at = at] /\ at \in {"ok", "body"}
      BY <1>3, <2>3, Zenon DEF CopyBody
    <3> HIDE DEF pos, at
    <3> DEFINE k == [calls[c] EXCEPT !.pos = pos, !.at = at]
    <3>2. calls' = [calls EXCEPT ![c] = k]
      BY <3>1
    <3>3. k.at = at /\ k.failed = calls[c].failed /\ HasFields(k)
      BY <1>1 DEF HasFields, Fields
    <3> HIDE DEF k
    <3>4. at # "idle"
      BY <3>1
    <3> QED BY <1>1, <2>1, <3>2, <3>3, <3>4, Going DEF Becomes, Keeping
  <2> QED BY <2>2, <2>3
<1> QED BY <1>2, <1>3

\* ListKeeps: nor has a listing.
LEMMA ListKeeps ==
  ASSUME IInv, NEW c \in Calls, ListObjects(c) \/ ListObjectsRecursive(c)
  PROVE  IInv'
<1>1. HasFields(calls[c]) /\ calls[c].at = "list"
  BY DEF IInv, Shape, ListObjects, ListObjectsRecursive
<1>2. CASE FailsWithout(c, "err")
  BY <1>1, <1>2, Failing DEF Keeping
<1>3. CASE ~FailsWithout(c, "err")
  <2>1. PICK entry : ListPage(c, entry)
    BY <1>3 DEF ListObjects, ListObjectsRecursive
  <2>2. UNCHANGED uploads
    BY <2>1 DEF ListPage
  <2> DEFINE page      == Page(calls[c].token, entry)
             listed    == calls[c].listed \o page.entries
             truncated == calls[c].is_truncated \/ page.truncated
             Answered(at, token) ==
               calls' = [calls EXCEPT ![c].listed = listed, ![c].at = at,
                                      ![c].token = token, ![c].is_truncated = truncated]
  <2>3. \/ Answered("list", Last(listed)) \/ Answered("ok", 0)
        \/ Answered("ok", calls[c].token)
    BY <2>1 DEF ListPage
  <2> HIDE DEF listed, truncated
  <2>4. ASSUME NEW at \in {"list", "ok"}, NEW token, Answered(at, token) PROVE IInv'
    <3> DEFINE k == [calls[c] EXCEPT !.listed = listed, !.at = at, !.token = token,
                                     !.is_truncated = truncated]
    <3>1. calls' = [calls EXCEPT ![c] = k]
      BY <2>4
    <3>2. k.at = at /\ k.failed = calls[c].failed /\ HasFields(k)
      BY <1>1 DEF HasFields, Fields
    <3> HIDE DEF k
    <3> QED BY <1>1, <2>2, <3>1, <3>2, Going DEF Becomes, Keeping
  <2> HIDE DEF Answered
  <2> QED BY <2>3, <2>4
<1> QED BY <1>2, <1>3

\* StartKeeps: nor has a call that begins.
LEMMA StartKeeps ==
  ASSUME IInv, NEW c \in Calls, NEW job \in Jobs, Start(c, job)
  PROVE  IInv'
<1> DEFINE k == [Idle EXCEPT !.job = job, !.at = FirstStep(job.op)]
<1>1. calls' = [calls EXCEPT ![c] = k] /\ UNCHANGED uploads /\ calls[c].at = "idle"
  BY DEF Start
<1>2. k.at = FirstStep(job.op) /\ HasFields(k)
  BY DEF HasFields, Fields, Idle
<1>3. k.at # "idle"
  <2>1. job.op \in {"upload", "download", "relay", "copy", "objects", "recursive"}
    BY JobsAssumption DEF Job
  <2> QED BY <1>2, <2>1 DEF FirstStep
<1> HIDE DEF k
<1>4. c \notin DOMAIN uploads
  BY <1>1 DEF IInv, Cleared
<1>5. \A d \in Calls : calls'[d] = IF d = c THEN k ELSE calls[d]
  BY <1>1 DEF IInv, Shape
<1>6. \A d \in Calls : Cleared(d)'
  BY <1>1, <1>4, <1>5 DEF IInv, Cleared
<1>7. Shape'
  BY <1>1, <1>2, <1>5 DEF IInv, Shape
<1> QED BY <1>1, <1>6, <1>7 DEF IInv

\* Frame: what others do leaves calls and parts alone.
LEMMA Frame ==
  ASSUME IInv, UNCHANGED <<uploads, calls>>
  PROVE  IInv'
  BY DEF IInv, Shape, Cleared

-----------------------------------------------------------------------------
(* The theorem *)

\* Invariance: parts on the server are of a call that clears them or failed to.
LEMMA Invariance == Spec => []IInv
<1>1. Init => IInv
  BY DEF Init, IInv, Shape, HasFields, Fields, Idle, Cleared
<1>2. IInv /\ [Next]_vars => IInv'
  <2> SUFFICES ASSUME IInv, [Next]_vars PROVE IInv'
    OBVIOUS
  <2>1. ASSUME NEW c \in Calls, Step(c) PROVE IInv'
    BY <2>1, UploadStatKeeps, BodyKeeps, WriteKeeps, CreateKeeps, OpenKeeps, PartKeeps,
       LastStepKeeps, FileKeeps, ListKeeps DEF Step
  <2>2. CASE OtherClient \/ OtherProgram
    BY <2>2, Frame DEF OtherClient, OtherProgram
  <2>3. CASE UNCHANGED vars
    BY <2>3, Frame DEF vars
  <2> QED BY <2>1, <2>2, <2>3, StartKeeps DEF Next
<1> QED BY <1>1, <1>2, PTL DEF Spec

\* NoPartsStay: for every number of calls side by side, and whatever requests fail, a
\* finished upload_file has parts on the server only where create, complete or abort
\* itself failed.
THEOREM NoPartsStay == Spec => []PartsCleared
<1>1. IInv => PartsCleared
  BY DEF IInv, Cleared, Keeping, Excuses, PartsCleared, Running
<1> QED BY <1>1, Invariance, PTL

-----------------------------------------------------------------------------
(* What a call holds of its source *)

IsContent(v) == v \in Seq(Nat)

Listings == {"objects", "recursive"}

\* The call k is at a step of its own function.
RightOp(k) ==
  /\ k.at # "idle" => k.job \in Jobs
  /\ k.at \in {"stat", "read", "put", "create", "open", "part", "complete", "abort"} =>
       k.job.op = "upload"
  /\ k.at = "get" => k.job.op \in {"download", "relay"}
  /\ k.at \in {"file", "body"} => k.job.op = "download"
  /\ k.at = "send" => k.job.op = "relay"
  /\ k.at = "copy" => k.job.op = "copy"
  /\ k.at = "list" => k.job.op \in Listings

\* Each unit is one that a content of `from` has at the same place.
MadeOf(content, from) ==
  \A i \in DOMAIN content : \E v \in from : i \in DOMAIN v /\ v[i] = content[i]

\* What the call k has read, and the parts it has sent, are of the contents its source had.
Held(k, parts, from) ==
  /\ from \subseteq Seq(Nat)
  /\ k.at \in {"put", "file", "body", "send"} => k.data \in from
  /\ k.at \in {"stat", "create", "open", "read", "get", "file"} => k.pos = 0
  /\ k.at = "body" => k.pos \in 0..Len(k.data)
  /\ k.at \in {"create", "open"} => \E v \in from : Len(v) = k.size
  /\ k.at = "open" => parts = <<>>
  /\ k.at \in {"part", "complete"} =>
       /\ parts \in Seq(Nat) /\ k.pos = Len(parts) /\ k.size \in Nat
       /\ \E v \in from : Len(v) = k.pos + k.size
       /\ MadeOf(parts, from)
  /\ k.at = "complete" => k.size = 0

Follows(c) ==
  /\ RightOp(calls[c])
  /\ Running(c) => Source(calls[c].job, store, files) \subseteq seen[c]
  /\ calls[c].at \in {"open", "part", "complete"} => c \in DOMAIN uploads
  /\ Held(calls[c], uploads[c], seen[c])

Typed(s, f) ==
  /\ DOMAIN s \subseteq Keys
  /\ \A key \in DOMAIN s : IsContent(s[key])
  /\ DOMAIN f = Files
  /\ \A file \in Files : IsContent(f[file])

CopyInv ==
  /\ Shape
  /\ Typed(store, files)
  /\ DOMAIN seen = Calls
  /\ DOMAIN steady = Calls
  /\ \A c \in Calls : Follows(c)

\* Made(c): MadeOfTheSource of one call.
Made(c) ==
  (calls[c].at # "ok" /\ calls'[c].at = "ok" /\ calls[c].job.op \notin Listings) =>
    LET written == Target(calls[c].job, store', files')
    IN  /\ \E v \in seen'[c] : Len(v) = Len(written)
        /\ MadeOf(written, seen'[c])
        /\ Multipart(c) \/ written \in seen'[c]

\* JobFields: what a job is about.
LEMMA JobFields ==
  ASSUME NEW job \in Jobs
  PROVE  /\ job.op \in {"upload", "download", "relay", "copy"} \union Listings
         /\ job.op \in {"upload", "download"} => job.key \in Keys /\ job.file \in Files
         /\ job.op \in {"relay", "copy"} => job.key \in Keys /\ job.to \in Keys
<1>1. job \in Job
  BY JobsAssumption
<1>2. CASE job \in [op: {"upload", "download"}, key: Keys, file: Files]
  BY <1>2
<1>3. CASE job \in [op: {"relay", "copy"}, key: Keys, to: Keys]
  BY <1>3
<1>4. CASE job \in [op: {"objects", "recursive"}]
  BY <1>4 DEF Listings
<1> QED BY <1>1, <1>2, <1>3, <1>4 DEF Job

\* MinOfTwo: the smaller of two numbers.
LEMMA MinOfTwo ==
  ASSUME NEW a \in Int, NEW b \in Int
  PROVE  Min({a, b}) = IF a <= b THEN a ELSE b
<1>1. \E x \in {a, b} : \A y \in {a, b} : x <= y
  OBVIOUS
<1>2. Min({a, b}) \in {a, b} /\ \A y \in {a, b} : Min({a, b}) <= y
  BY <1>1 DEF Min
<1> QED BY <1>2

\* SourceIsContent: what a job reads is a content.
LEMMA SourceIsContent ==
  ASSUME NEW job \in Jobs, NEW s, NEW f, Typed(s, f)
  PROVE  Source(job, s, f) \subseteq Seq(Nat)
  BY JobFields DEF Source, Typed, IsContent

\* HeldGrows: what is held stays held when more has been seen.
LEMMA HeldGrows ==
  ASSUME NEW k, NEW parts, NEW from, NEW more, Held(k, parts, from), from \subseteq more,
         more \subseteq Seq(Nat)
  PROVE  Held(k, parts, more)
<1>1. MadeOf(parts, from) => MadeOf(parts, more)
  BY DEF MadeOf
<1>2. \A n : (\E v \in from : Len(v) = n) => \E v \in more : Len(v) = n
  OBVIOUS
<1> QED BY <1>1, <1>2 DEF Held

-----------------------------------------------------------------------------
(* What steps do to the objects and the files *)

Grows ==
  /\ Typed(store', files')
  /\ DOMAIN seen' = Calls
  /\ DOMAIN steady' = Calls
  /\ \A d \in Calls : /\ seen[d] \subseteq seen'[d] /\ seen'[d] \subseteq Seq(Nat)
                      /\ Running(d) => Source(calls[d].job, store', files') \subseteq seen'[d]

\* ChangeGrows: a change is seen by the calls that read what is changed.
LEMMA ChangeGrows ==
  ASSUME CopyInv, NEW s, NEW f, Typed(s, f), Change(s, f)
  PROVE  Grows /\ store' = s /\ files' = f
<1>1. store' = s /\ files' = f
  BY DEF Change
<1>2. ASSUME NEW d \in Calls
      PROVE  /\ seen[d] \subseteq seen'[d] /\ seen'[d] \subseteq Seq(Nat)
             /\ Running(d) => Source(calls[d].job, s, f) \subseteq seen'[d]
  <2>1. seen'[d] = IF Running(d) THEN seen[d] \union Source(calls[d].job, s, f) ELSE seen[d]
    BY DEF Change
  <2>2. seen[d] \subseteq Seq(Nat) /\ (Running(d) => calls[d].job \in Jobs)
    BY DEF CopyInv, Follows, Held, RightOp, Running
  <2>3. CASE Running(d)
    BY <2>1, <2>2, <2>3, SourceIsContent
  <2>4. CASE ~Running(d)
    BY <2>1, <2>2, <2>4
  <2> QED BY <2>3, <2>4
<1>3. DOMAIN seen' = Calls /\ DOMAIN steady' = Calls
  BY DEF Change
<1> QED BY <1>1, <1>2, <1>3 DEF Grows

\* NoChangeGrows: a step that changes nothing is seen by nobody.
LEMMA NoChangeGrows ==
  ASSUME CopyInv, NoChange
  PROVE  Grows
<1>1. ASSUME NEW d \in Calls PROVE seen[d] \subseteq Seq(Nat)
  BY DEF CopyInv, Follows, Held
<1> QED BY <1>1 DEF CopyInv, Follows, NoChange, Grows

\* PutGrows: an object that is put is a content at its key.
LEMMA PutGrows ==
  ASSUME CopyInv, NEW key \in Keys, NEW content, IsContent(content), Put(key, content)
  PROVE  Grows /\ store'[key] = content /\ files' = files
<1> DEFINE s == [k \in {key} \union DOMAIN store |-> IF k = key THEN content ELSE store[k]]
<1>1. Change(s, files)
  BY DEF Put
<1>2. Typed(s, files)
  BY DEF CopyInv, Typed
<1>3. s[key] = content
  OBVIOUS
<1> HIDE DEF s
<1> QED BY <1>1, <1>2, <1>3, ChangeGrows

\* FileGrows: so is a file that is written.
LEMMA FileGrows ==
  ASSUME CopyInv, NEW file \in Files, NEW content, IsContent(content),
         Change(store, [files EXCEPT ![file] = content])
  PROVE  Grows /\ files'[file] = content
<1> DEFINE f == [files EXCEPT ![file] = content]
<1>1. Typed(store, f)
  BY DEF CopyInv, Typed
<1>2. f[file] = content
  BY DEF CopyInv, Typed
<1> HIDE DEF f
<1> QED BY <1>1, <1>2, ChangeGrows DEF f

\* CopyStep: a step of one call, and what the others see of it.
LEMMA CopyStep ==
  ASSUME CopyInv, NEW c \in Calls, NEW k, Becomes(c, k), Grows, Running(c),
         k.job = calls[c].job, RightOp(k),
         \A d \in Calls \ {c} : d \in DOMAIN uploads =>
                                  d \in DOMAIN uploads' /\ uploads'[d] = uploads[d],
         k.at \in {"open", "part", "complete"} => c \in DOMAIN uploads',
         Held(k, uploads'[c], seen'[c])
  PROVE  CopyInv'
<1>1. \A d \in Calls : calls'[d] = IF d = c THEN k ELSE calls[d]
  BY DEF CopyInv, Shape, Becomes
<1>2. Shape'
  BY <1>1 DEF CopyInv, Shape, Becomes
<1>3. ASSUME NEW d \in Calls PROVE Follows(d)'
  <2>1. CASE d = c
    BY <1>1, <2>1 DEF Follows, Grows, Running
  <2>2. CASE d # c
    <3>1. calls'[d] = calls[d] /\ Running(d)' = Running(d)
      BY <1>1, <2>2 DEF Running
    <3>2. Held(calls[d], uploads[d], seen'[d])
      BY HeldGrows DEF CopyInv, Follows, Grows
    <3>3. Held(calls[d], uploads'[d], seen'[d])
      <4>1. CASE d \in DOMAIN uploads
        BY <2>2, <3>2, <4>1
      <4>2. CASE calls[d].at \notin {"open", "part", "complete"}
        BY <3>2, <4>2 DEF Held
      <4> QED BY <4>1, <4>2 DEF CopyInv, Follows
    <3> QED BY <2>2, <3>1, <3>3 DEF CopyInv, Follows, Grows
  <2> QED BY <2>1, <2>2
<1> QED BY <1>2, <1>3 DEF CopyInv, Grows

-----------------------------------------------------------------------------
(* The operations once more *)

\* FailFollows: a step that fails goes on to the end, or to the abort of an upload.
LEMMA FailFollows ==
  ASSUME IInv, CopyInv, NEW c \in Calls, NEW then \in {"err", "abort"}, Fail(c, then), Grows,
         Running(c), then = "abort" => calls[c].job.op = "upload",
         \A d \in Calls \ {c} : d \in DOMAIN uploads =>
                                  d \in DOMAIN uploads' /\ uploads'[d] = uploads[d]
  PROVE  CopyInv' /\ Made(c)
<1> DEFINE k == [calls[c] EXCEPT !.at = then, !.failed = @ \union {calls[c].at}]
<1>1. calls' = [calls EXCEPT ![c] = k]
  BY DEF Fail
<1>2. HasFields(calls[c])
  BY DEF IInv, Shape
<1>3. /\ k.at = then /\ k.failed = calls[c].failed \union {calls[c].at} /\ HasFields(k)
      /\ k.job = calls[c].job
  BY <1>2 DEF HasFields, Fields
<1> HIDE DEF k
<1>4. Becomes(c, k)
  BY <1>1, <1>3 DEF Becomes
<1>5. calls[c].job \in Jobs
  BY DEF CopyInv, Follows, RightOp, Running
<1>6. RightOp(k)
  BY <1>3, <1>5 DEF RightOp
<1>7. Held(k, uploads'[c], seen'[c])
  BY <1>3 DEF Held, Grows
<1>8. calls'[c].at # "ok"
  BY <1>1, <1>3 DEF IInv, Shape
<1> QED BY <1>3, <1>4, <1>6, <1>7, <1>8, CopyStep DEF Made

\* FailsFollows: so does one that has no effect either.
LEMMA FailsFollows ==
  ASSUME IInv, CopyInv, NEW c \in Calls, NEW then \in {"err", "abort"}, FailsWithout(c, then),
         Running(c), then = "abort" => calls[c].job.op = "upload"
  PROVE  CopyInv' /\ Made(c)
<1>1. Fail(c, then) /\ Grows /\ UNCHANGED uploads
  BY NoChangeGrows DEF FailsWithout
<1> QED BY <1>1, FailFollows

\* GotoFields: a call that goes on with all it has.
LEMMA GotoFields ==
  ASSUME IInv, NEW c \in Calls, NEW at, Goto(c, at)
  PROVE  \E k : /\ Becomes(c, k) /\ calls'[c] = k /\ k.at = at /\ k.job = calls[c].job
               /\ k.data = calls[c].data /\ k.pos = calls[c].pos /\ k.size = calls[c].size
<1> DEFINE k == [calls[c] EXCEPT !.at = at]
<1>1. calls' = [calls EXCEPT ![c] = k]
  BY DEF Goto
<1>2. HasFields(calls[c])
  BY DEF IInv, Shape
<1>3. /\ k.at = at /\ k.failed = calls[c].failed /\ HasFields(k) /\ k.job = calls[c].job
      /\ k.data = calls[c].data /\ k.pos = calls[c].pos /\ k.size = calls[c].size
  BY <1>2 DEF HasFields, Fields
<1>4. calls'[c] = k
  BY <1>1 DEF IInv, Shape
<1> HIDE DEF k
<1>5. Becomes(c, k)
  BY <1>1, <1>3 DEF Becomes
<1> QED BY <1>3, <1>4, <1>5

\* DoneFollows: a call that ends well, with what it has written.
LEMMA DoneFollows ==
  ASSUME IInv, CopyInv, NEW c \in Calls, Goto(c, "ok"), Grows, Running(c),
         \A d \in Calls \ {c} : d \in DOMAIN uploads =>
                                  d \in DOMAIN uploads' /\ uploads'[d] = uploads[d]
  PROVE  CopyInv'
<1>1. PICK k : /\ Becomes(c, k) /\ k.at = "ok" /\ k.job = calls[c].job
  BY GotoFields
<1>2. calls[c].job \in Jobs
  BY DEF CopyInv, Follows, RightOp, Running
<1>3. RightOp(k)
  BY <1>1, <1>2 DEF RightOp
<1>4. Held(k, uploads'[c], seen'[c])
  BY <1>1 DEF Held, Grows
<1> QED BY <1>1, <1>3, <1>4, CopyStep

\* WholeIsMade: what is written whole is made of the source.
LEMMA WholeIsMade ==
  ASSUME NEW c \in Calls, Target(calls[c].job, store', files') \in seen'[c]
  PROVE  Made(c)
  BY DEF Made, MadeOf

\* UploadStatFollows: the size that is recorded is that of the source.
LEMMA UploadStatFollows ==
  ASSUME IInv, CopyInv, NEW c \in Calls, UploadStat(c)
  PROVE  CopyInv' /\ Made(c)
<1>1. calls[c].at = "stat" /\ Running(c)
  BY DEF UploadStat, Running
<1>2. CASE FailsWithout(c, "err")
  BY <1>1, <1>2, FailsFollows
<1>3. CASE ~FailsWithout(c, "err")
  <2> DEFINE size == Len(files[calls[c].job.file])
             at   == IF size <= THRESHOLD THEN "read" ELSE "create"
             k    == [calls[c] EXCEPT !.size = size, !.at = at]
  <2>1. calls' = [calls EXCEPT ![c] = k] /\ NoChange /\ UNCHANGED uploads
    BY <1>3 DEF UploadStat
  <2>2. HasFields(calls[c])
    BY DEF IInv, Shape
  <2> HIDE DEF size, at
  <2>3. /\ k.at = at /\ k.failed = calls[c].failed /\ HasFields(k) /\ k.job = calls[c].job
        /\ k.size = size /\ k.pos = calls[c].pos
    BY <2>2 DEF HasFields, Fields
  <2> HIDE DEF k
  <2>4. at \in {"read", "create"} /\ calls[c].job.op = "upload" /\ calls[c].job \in Jobs
    BY <1>1 DEF at, CopyInv, Follows, RightOp
  <2>5. files[calls[c].job.file] \in seen[c]
    BY <1>1, <2>4 DEF CopyInv, Follows, Source
  <2>6. Grows /\ calls'[c].at # "ok"
    BY <2>1, <2>3, <2>4, NoChangeGrows DEF IInv, Shape
  <2>7. RightOp(k)
    BY <2>3, <2>4 DEF RightOp
  <2>8. Held(k, uploads'[c], seen'[c])
    <3>1. calls[c].pos = 0
      BY <1>1 DEF CopyInv, Follows, Held
    <3>2. \E v \in seen'[c] : Len(v) = size
      BY <2>5, <2>6 DEF size, Grows
    <3> QED BY <2>3, <2>4, <2>6, <3>1, <3>2 DEF Held, Grows
  <2> QED BY <1>1, <2>1, <2>3, <2>4, <2>6, <2>7, <2>8, CopyStep DEF Made, Becomes
<1> QED BY <1>2, <1>3

\* BodyFollows: what is read is what the source has.
LEMMA BodyFollows ==
  ASSUME IInv, CopyInv, NEW c \in Calls, ReadFile(c) \/ GetObject(c)
  PROVE  CopyInv' /\ Made(c)
<1>1. calls[c].at \in {"read", "get"} /\ Running(c)
  BY DEF ReadFile, GetObject, Running
<1>2. CASE FailsWithout(c, "err")
  BY <1>1, <1>2, FailsFollows
<1>3. CASE ~FailsWithout(c, "err")
  <2>1. PICK data : \E at :
          /\ calls' = [calls EXCEPT ![c].data = data, ![c].at = at]
          /\ data \in Source(calls[c].job, store, files)
          /\ at = IF calls[c].job.op = "upload" THEN "put"
                  ELSE IF calls[c].job.op = "relay" THEN "send" ELSE "file"
    <3>1. CASE ReadFile(c)
      <4>1. calls[c].job.op = "upload"
        BY <3>1 DEF ReadFile, CopyInv, Follows, RightOp
      <4> QED BY <1>3, <3>1, <4>1 DEF ReadFile, Source
    <3>2. CASE GetObject(c)
      <4> DEFINE at == IF calls[c].job.op = "relay" THEN "send" ELSE "file"
      <4>1. calls[c].job.op \in {"download", "relay"}
        BY <3>2 DEF GetObject, CopyInv, Follows, RightOp
      <4>2. /\ calls' = [calls EXCEPT ![c].data = store[calls[c].job.key], ![c].at = at]
            /\ calls[c].job.key \in DOMAIN store
        BY <1>3, <3>2, Zenon DEF GetObject
      <4> QED BY <4>1, <4>2 DEF Source
    <3> QED BY <3>1, <3>2
  <2>2. PICK at :
          /\ calls' = [calls EXCEPT ![c].data = data, ![c].at = at]
          /\ data \in Source(calls[c].job, store, files)
          /\ at = IF calls[c].job.op = "upload" THEN "put"
                  ELSE IF calls[c].job.op = "relay" THEN "send" ELSE "file"
    BY <2>1
  <2> DEFINE k == [calls[c] EXCEPT !.data = data, !.at = at]
  <2>3. calls' = [calls EXCEPT ![c] = k]
    BY <2>2
  <2>4. HasFields(calls[c])
    BY DEF IInv, Shape
  <2>5. /\ k.at = at /\ k.failed = calls[c].failed /\ HasFields(k) /\ k.job = calls[c].job
        /\ k.data = data /\ k.pos = calls[c].pos
    BY <2>4 DEF HasFields, Fields
  <2> HIDE DEF k
  <2>6. /\ NoChange /\ UNCHANGED uploads
        /\ calls[c].job \in Jobs /\ calls[c].job.op \in {"upload", "download", "relay"}
    BY <1>1, <1>3 DEF ReadFile, GetObject, CopyInv, Follows, RightOp
  <2>7. Grows /\ calls'[c].at # "ok" /\ data \in seen'[c]
    <3>1. Grows
      BY <2>6, NoChangeGrows
    <3>2. data \in seen[c]
      BY <1>1, <2>2 DEF CopyInv, Follows
    <3>3. calls'[c].at # "ok"
      BY <2>2, <2>3, <2>5 DEF IInv, Shape
    <3> QED BY <3>1, <3>2, <3>3 DEF Grows
  <2>8. RightOp(k)
    BY <2>2, <2>5, <2>6 DEF RightOp
  <2>9. Held(k, uploads'[c], seen'[c])
    <3>1. calls[c].pos = 0
      BY <1>1 DEF CopyInv, Follows, Held
    <3> QED BY <2>2, <2>5, <2>6, <2>7, <3>1 DEF Held, Grows
  <2>10. Becomes(c, k)
    BY <2>3, <2>5 DEF Becomes
  <2> QED BY <1>1, <2>2, <2>5, <2>6, <2>7, <2>8, <2>9, <2>10, CopyStep DEF Made
<1> QED BY <1>2, <1>3

\* WriteFollows: what is put, or sent on, or copied by the server, is what was read.
LEMMA WriteFollows ==
  ASSUME IInv, CopyInv, NEW c \in Calls, PutObject(c) \/ SendBody(c) \/ CopyObject(c)
  PROVE  CopyInv' /\ Made(c)
<1>1. calls[c].at \in {"put", "send", "copy"} /\ Running(c)
  BY DEF PutObject, SendBody, CopyObject, Running
<1>2. CASE FailsWithout(c, "err")
  BY <1>1, <1>2, FailsFollows
<1>3. CASE ~FailsWithout(c, "err")
  <2> DEFINE job == calls[c].job
             to  == IF job.op = "upload" THEN job.key ELSE job.to
  <2>1. job \in Jobs /\ job.op \in {"upload", "relay", "copy"} /\ to \in Keys
    <3>1. job \in Jobs /\ job.op \in {"upload", "relay", "copy"}
      BY <1>1 DEF CopyInv, Follows, RightOp
    <3> QED BY <3>1, JobFields
  <2>2. PICK content \in seen[c] : Put(to, content)
    <3>1. CASE PutObject(c)
      <4>1. job.op = "upload" /\ calls[c].data \in seen[c]
        BY <3>1 DEF PutObject, CopyInv, Follows, RightOp, Held
      <4> QED BY <1>3, <3>1, <4>1 DEF PutObject
    <3>2. CASE SendBody(c)
      <4>1. job.op = "relay" /\ calls[c].data \in seen[c]
        BY <3>2 DEF SendBody, CopyInv, Follows, RightOp, Held
      <4> QED BY <1>3, <3>2, <4>1 DEF SendBody
    <3>3. CASE CopyObject(c)
      <4>1. job.op = "copy" /\ job.key \in DOMAIN store
        BY <1>3, <3>3 DEF CopyObject, CopyInv, Follows, RightOp
      <4>2. store[job.key] \in seen[c]
        BY <1>1, <4>1 DEF CopyInv, Follows, Source
      <4> QED BY <1>3, <3>3, <4>1, <4>2 DEF CopyObject
    <3> QED BY <3>1, <3>2, <3>3
  <2>3. IsContent(content)
    BY DEF CopyInv, Follows, Held, IsContent
  <2>4. Grows /\ store'[to] = content
    BY <2>1, <2>2, <2>3, PutGrows
  <2>5. (Goto(c, "ok") \/ Fail(c, "err")) /\ UNCHANGED uploads
    BY <1>3 DEF PutObject, SendBody, CopyObject
  <2>6. Made(c)
    <3>1. Target(job, store', files') \in seen'[c]
      BY <2>1, <2>4 DEF Target, Grows
    <3> QED BY <3>1, WholeIsMade
  <2> HIDE DEF to
  <2> QED BY <1>1, <2>4, <2>5, <2>6, FailFollows, DoneFollows
<1> QED BY <1>2, <1>3

\* FileFollows: a file that is written to its end is what was received.
LEMMA FileFollows ==
  ASSUME IInv, CopyInv, NEW c \in Calls, CreateFile(c) \/ CopyBody(c)
  PROVE  CopyInv' /\ Made(c)
<1>1. calls[c].at \in {"file", "body"} /\ Running(c)
  BY DEF CreateFile, CopyBody, Running
<1>2. CASE FailsWithout(c, "err")
  BY <1>1, <1>2, FailsFollows
<1>3. CASE ~FailsWithout(c, "err")
  <2> DEFINE job  == calls[c].job
             data == calls[c].data
  <2>1. /\ job \in Jobs /\ job.op = "download" /\ job.file \in Files
        /\ data \in seen[c] /\ data \in Seq(Nat)
    <3>1. job \in Jobs /\ job.op = "download" /\ data \in seen[c] /\ data \in Seq(Nat)
      BY <1>1 DEF CopyInv, Follows, RightOp, Held
    <3> QED BY <3>1, JobFields
  <2>2. UNCHANGED uploads
    BY <1>3 DEF CreateFile, CopyBody
  <2>3. CASE CreateFile(c)
    <3>1. Change(store, [files EXCEPT ![job.file] = <<>>]) /\ Goto(c, "body")
      BY <1>3, <2>3 DEF CreateFile
    <3>2. IsContent(<<>>)
      BY DEF IsContent
    <3>3. Grows
      BY <2>1, <3>1, <3>2, FileGrows
    <3>4. PICK k : /\ Becomes(c, k) /\ calls'[c] = k /\ k.at = "body" /\ k.job = job
                   /\ k.data = data /\ k.pos = calls[c].pos
      BY <3>1, GotoFields
    <3>5. RightOp(k)
      BY <2>1, <3>4 DEF RightOp
    <3>6. calls[c].pos = 0
      BY <2>3 DEF CreateFile, CopyInv, Follows, Held
    <3>7. Held(k, uploads'[c], seen'[c])
      BY <2>1, <3>3, <3>4, <3>6 DEF Held, Grows
    <3> QED BY <1>1, <2>2, <3>3, <3>4, <3>5, <3>7, CopyStep DEF Made
  <2>4. CASE CopyBody(c)
    <3> DEFINE rest == Min({PART, Len(data) - calls[c].pos})
               done == calls[c].pos + rest
               at   == IF done = Len(data) THEN "ok" ELSE "body"
               part == SubSeq(data, 1, done)
    <3>1. /\ Change(store, [files EXCEPT ![job.file] = part])
          /\ calls' = [calls EXCEPT ![c].pos = done, ![c].at = at]
      BY <1>3, <2>4, Zenon DEF CopyBody
    <3>2. at \in {"ok", "body"} /\ (at = "ok" => done = Len(data))
      BY Zenon
    <3>3. done \in 0..Len(data)
      <4>1. Len(data) \in Nat /\ calls[c].pos \in 0..Len(data)
        BY <2>1, <2>4 DEF CopyBody, CopyInv, Follows, Held
      <4>2. rest = IF PART <= Len(data) - calls[c].pos THEN PART ELSE Len(data) - calls[c].pos
        <5>1. PART \in Int /\ Len(data) - calls[c].pos \in Int
          BY <4>1, SizesAssumption
        <5> QED BY <5>1, MinOfTwo, Zenon
      <4> QED BY <4>1, <4>2, SizesAssumption, SMTT(20)
    <3> HIDE DEF at, rest, done
    <3>4. IsContent(part) /\ (done = Len(data) => part = data)
      BY <2>1, <3>3 DEF IsContent
    <3> HIDE DEF part
    <3>5. Grows /\ files'[job.file] = part
      BY <2>1, <3>1, <3>4, FileGrows
    <3> DEFINE k == [calls[c] EXCEPT !.pos = done, !.at = at]
    <3>6. calls' = [calls EXCEPT ![c] = k]
      BY <3>1
    <3>7. HasFields(calls[c])
      BY DEF IInv, Shape
    <3>8. /\ k.at = at /\ k.failed = calls[c].failed /\ HasFields(k) /\ k.job = job
          /\ k.data = data /\ k.pos = done
      BY <3>7 DEF HasFields, Fields
    <3>9. calls'[c] = k
      BY <3>6 DEF IInv, Shape
    <3> HIDE DEF k
    <3>10. RightOp(k)
      BY <2>1, <3>2, <3>8 DEF RightOp
    <3>11. Held(k, uploads'[c], seen'[c])
      BY <2>1, <3>2, <3>3, <3>5, <3>8 DEF Held, Grows
    <3>12. CopyInv'
      BY <1>1, <2>2, <3>2, <3>5, <3>6, <3>8, <3>10, <3>11, CopyStep DEF Becomes
    <3>13. CASE at = "ok"
      <4>1. Target(job, store', files') \in seen'[c]
        BY <2>1, <3>2, <3>4, <3>5, <3>13 DEF Target, Grows
      <4> QED BY <3>12, <4>1, WholeIsMade
    <3>14. CASE at = "body"
      BY <3>8, <3>9, <3>12, <3>14 DEF Made
    <3> QED BY <3>2, <3>13, <3>14
  <2> QED BY <2>3, <2>4, <1>3
<1> QED BY <1>2, <1>3

\* OpenFollows: an upload that begins has sent nothing.
LEMMA OpenFollows ==
  ASSUME IInv, CopyInv, NEW c \in Calls, CreateMultipartUpload(c) \/ OpenFile(c)
  PROVE  CopyInv' /\ Made(c)
<1>1. /\ calls[c].at \in {"create", "open"} /\ Running(c)
      /\ calls[c].job \in Jobs /\ calls[c].job.op = "upload"
  BY DEF CreateMultipartUpload, OpenFile, Running, CopyInv, Follows, RightOp
<1>2. CASE \E then \in {"err", "abort"} : FailsWithout(c, then)
  BY <1>1, <1>2, FailsFollows
<1>3. CASE ~\E then \in {"err", "abort"} : FailsWithout(c, then)
  <2>1. Grows
    BY <1>3, NoChangeGrows DEF CreateMultipartUpload, OpenFile
  <2>2. calls[c].pos = 0 /\ \E v \in seen[c] : Len(v) = calls[c].size
    BY <1>1 DEF CopyInv, Follows, Held
  <2>3. CASE CreateMultipartUpload(c)
    <3>1. /\ uploads' = [d \in {c} \union DOMAIN uploads |->
                           IF d = c THEN <<>> ELSE uploads[d]]
          /\ Goto(c, "open") \/ Fail(c, "err")
      BY <1>3, <2>3 DEF CreateMultipartUpload
    <3>2. CASE Fail(c, "err")
      BY <1>1, <2>1, <3>1, <3>2, FailFollows
    <3>3. CASE Goto(c, "open")
      <4>1. PICK k : /\ Becomes(c, k) /\ calls'[c] = k /\ k.at = "open"
                     /\ k.job = calls[c].job /\ k.pos = calls[c].pos /\ k.size = calls[c].size
        BY <3>3, GotoFields
      <4>2. RightOp(k)
        BY <1>1, <4>1 DEF RightOp
      <4>3. c \in DOMAIN uploads' /\ uploads'[c] = <<>>
        BY <3>1
      <4>4. Held(k, uploads'[c], seen'[c])
        BY <2>1, <2>2, <4>1, <4>3 DEF Held, Grows
      <4> QED BY <1>1, <2>1, <3>1, <4>1, <4>2, <4>3, <4>4, CopyStep DEF Made
    <3> QED BY <3>1, <3>2, <3>3
  <2>4. CASE OpenFile(c)
    <3>1. Goto(c, "part") /\ UNCHANGED uploads
      BY <1>3, <2>4 DEF OpenFile
    <3>2. PICK k : /\ Becomes(c, k) /\ calls'[c] = k /\ k.at = "part"
                   /\ k.job = calls[c].job /\ k.pos = calls[c].pos /\ k.size = calls[c].size
      BY <3>1, GotoFields
    <3>3. RightOp(k)
      BY <1>1, <3>2 DEF RightOp
    <3>4. c \in DOMAIN uploads' /\ uploads'[c] = <<>>
      BY <2>4, <3>1 DEF OpenFile, CopyInv, Follows, Held
    <3>5. Held(k, uploads'[c], seen'[c])
      <4>1. PICK v \in seen[c] : Len(v) = calls[c].size
        BY <2>2
      <4>2. v \in Seq(Nat) /\ v \in seen'[c]
        BY <2>1 DEF Grows
      <4>3. /\ <<>> \in Seq(Nat) /\ Len(<<>>) = 0 /\ Len(v) \in Nat
            /\ MadeOf(<<>>, seen'[c])
        BY <4>2 DEF MadeOf
      <4> QED BY <2>1, <2>2, <3>2, <3>4, <4>1, <4>2, <4>3 DEF Held, Grows
    <3> QED BY <1>1, <2>1, <3>1, <3>2, <3>3, <3>4, <3>5, CopyStep DEF Made
  <2> QED BY <1>3, <2>3, <2>4 DEF CreateMultipartUpload, OpenFile
<1> QED BY <1>2, <1>3

\* ChunkOfFile: a chunk is what the file holds from the position on.
LEMMA ChunkOfFile ==
  ASSUME NEW file \in Seq(Nat), NEW pos \in Nat, NEW last \in Nat, last <= Len(file)
  PROVE  /\ SubSeq(file, pos + 1, last) \in Seq(Nat)
         /\ Len(SubSeq(file, pos + 1, last)) = IF pos + 1 <= last THEN last - pos ELSE 0
         /\ \A i \in 1..(last - pos) : SubSeq(file, pos + 1, last)[i] = file[pos + i]
<1>1. \A i \in (pos + 1)..last : file[i] \in Nat
  <2>1. \A i \in (pos + 1)..last : i \in 1..Len(file)
    OBVIOUS
  <2> QED BY <2>1
<1>2. /\ SubSeq(file, pos + 1, last) \in Seq(Nat)
      /\ Len(SubSeq(file, pos + 1, last)) =
           IF pos + 1 <= last THEN last - (pos + 1) + 1 ELSE 0
      /\ \A i \in 1..(last - (pos + 1) + 1) :
           SubSeq(file, pos + 1, last)[i] = file[pos + 1 + i - 1]
  <2>1. pos + 1 \in Int /\ last \in Int
    OBVIOUS
  <2> DEFINE m == pos + 1
  <2>2. \A i \in m..last : file[i] \in Nat
    BY <1>1
  <2>3. m \in Int
    BY <2>1
  <2> HIDE DEF m
  <2>4. /\ SubSeq(file, m, last) \in Seq(Nat)
        /\ Len(SubSeq(file, m, last)) = IF m <= last THEN last - m + 1 ELSE 0
        /\ \A i \in 1..(last - m + 1) : SubSeq(file, m, last)[i] = file[m + i - 1]
    BY <2>1, <2>2, <2>3, SubSeqProperties
  <2> QED BY <2>4 DEF m
<1>3. last - (pos + 1) + 1 = last - pos /\ \A i \in Int : pos + 1 + i - 1 = pos + i
  OBVIOUS
<1> QED BY <1>2, <1>3

\* The chunk read from a position, and that it goes on with what the file holds there.
Chunk(file, pos, size) == SubSeq(file, pos + 1, Min({Len(file), pos + Min({size, PART})}))

GoesOn(file, parts, chunk) ==
  /\ chunk \in Seq(Nat)
  /\ \A i \in 1..Len(chunk) :
       Len(parts) + i \in DOMAIN file /\ chunk[i] = file[Len(parts) + i]

\* ChunkIsMade: parts that go on with what the file holds next are made of the source.
LEMMA ChunkIsMade ==
  ASSUME NEW from, NEW file \in from, NEW parts \in Seq(Nat), NEW chunk,
         GoesOn(file, parts, chunk), MadeOf(parts, from)
  PROVE  /\ parts \o chunk \in Seq(Nat) /\ Len(parts \o chunk) = Len(parts) + Len(chunk)
         /\ MadeOf(parts \o chunk, from)
<1>1. chunk \in Seq(Nat)
  BY DEF GoesOn
<1>2. /\ parts \o chunk \in Seq(Nat) /\ Len(parts \o chunk) = Len(parts) + Len(chunk)
      /\ \A i \in 1..(Len(parts) + Len(chunk)) :
           (parts \o chunk)[i] = IF i <= Len(parts) THEN parts[i] ELSE chunk[i - Len(parts)]
  BY <1>1, ConcatProperties
<1> DEFINE new  == parts \o chunk
           pos  == Len(parts)
           more == Len(chunk)
<1>3. /\ new \in Seq(Nat) /\ Len(new) = pos + more /\ DOMAIN new = 1..(pos + more)
      /\ \A i \in 1..(pos + more) : new[i] = IF i <= pos THEN parts[i] ELSE chunk[i - pos]
      /\ pos \in Nat /\ more \in Nat /\ DOMAIN parts = 1..pos
      /\ \A i \in 1..more : pos + i \in DOMAIN file /\ chunk[i] = file[pos + i]
  BY <1>1, <1>2 DEF GoesOn
<1> HIDE DEF new, pos, more
<1>4. ASSUME NEW i \in DOMAIN new
      PROVE  \E v \in from : i \in DOMAIN v /\ v[i] = new[i]
  <2>1. CASE i <= pos
    <3>1. i \in DOMAIN parts /\ new[i] = parts[i]
      BY <1>3, <2>1
    <3> QED BY <3>1 DEF MadeOf
  <2>2. CASE ~(i <= pos)
    <3>1. i - pos \in 1..more /\ pos + (i - pos) = i /\ new[i] = chunk[i - pos]
      BY <1>3, <2>2
    <3>2. pos + (i - pos) \in DOMAIN file /\ chunk[i - pos] = file[pos + (i - pos)]
      BY <1>3, <3>1
    <3>3. i \in DOMAIN file /\ new[i] = file[i]
      BY <3>1, <3>2, Zenon
    <3> QED BY <3>3
  <2> QED BY <2>1, <2>2
<1> QED BY <1>2, <1>3, <1>4 DEF MadeOf, new

\* PartIsMade: a chunk read on from where the last one ended continues what was sent.
LEMMA PartIsMade ==
  ASSUME NEW from, NEW file \in from, file \in Seq(Nat), NEW parts \in Seq(Nat),
         NEW size \in Nat
  PROVE  /\ GoesOn(file, parts, Chunk(file, Len(parts), size))
         /\ Len(Chunk(file, Len(parts), size)) <= size
<1> DEFINE pos  == Len(parts)
           step == Min({size, PART})
           last == Min({Len(file), pos + step})
<1>1. pos \in Nat
  OBVIOUS
<1> HIDE DEF pos
<1>2. step \in 0..size
  <2>1. size \in Int /\ PART \in Int /\ PART \in Nat
    BY SizesAssumption
  <2>2. step = IF size <= PART THEN size ELSE PART
    BY <2>1, MinOfTwo, Zenon
  <2> HIDE DEF step
  <2> QED BY <2>1, <2>2
<1>3. Chunk(file, pos, size) = SubSeq(file, pos + 1, last)
  BY DEF Chunk
<1> HIDE DEF step
<1>4. last \in Nat /\ last <= Len(file) /\ last <= pos + step
  <2>1. Len(file) \in Int /\ pos + step \in Int
    BY <1>1, <1>2
  <2>2. last = IF Len(file) <= pos + step THEN Len(file) ELSE pos + step
    BY <2>1, MinOfTwo, Zenon
  <2> HIDE DEF last
  <2> QED BY <1>1, <1>2, <2>2
<1> HIDE DEF last
<1> DEFINE chunk == Chunk(file, pos, size)
           more  == IF pos + 1 <= last THEN last - pos ELSE 0
<1>5. /\ chunk \in Seq(Nat) /\ Len(chunk) = more
      /\ \A i \in 1..(last - pos) : chunk[i] = file[pos + i]
  <2> DEFINE sub == SubSeq(file, pos + 1, last)
  <2>1. /\ sub \in Seq(Nat) /\ Len(sub) = more
        /\ \A i \in 1..(last - pos) : sub[i] = file[pos + i]
    <3>1. /\ SubSeq(file, pos + 1, last) \in Seq(Nat)
          /\ Len(SubSeq(file, pos + 1, last)) = IF pos + 1 <= last THEN last - pos ELSE 0
          /\ \A i \in 1..(last - pos) : SubSeq(file, pos + 1, last)[i] = file[pos + i]
      BY <1>1, <1>4, ChunkOfFile, Zenon
    <3> QED BY <3>1, Zenon
  <2> HIDE DEF sub, more
  <2>2. chunk = sub
    BY <1>3 DEF sub
  <2> HIDE DEF chunk
  <2> QED BY <2>1, <2>2, Zenon
<1>6. /\ more \in Nat /\ more <= size
      /\ \A i \in 1..more : pos + i \in 1..Len(file) /\ i \in 1..(last - pos)
  BY <1>1, <1>2, <1>4
<1> HIDE DEF chunk, more
<1>7. \A i \in 1..more : pos + i \in DOMAIN file /\ chunk[i] = file[pos + i]
  <2>1. DOMAIN file = 1..Len(file)
    OBVIOUS
  <2> QED BY <1>5, <1>6, <2>1, Zenon
<1> QED BY <1>5, <1>6, <1>7 DEF GoesOn, chunk, pos

\* PartFollows: what has been sent is what the source had, and the rest is still to be read.
LEMMA PartFollows ==
  ASSUME IInv, CopyInv, NEW c \in Calls, UploadPart(c)
  PROVE  CopyInv' /\ Made(c)
<1>1. /\ calls[c].at = "part" /\ Running(c) /\ c \in DOMAIN uploads
      /\ calls[c].job \in Jobs /\ calls[c].job.op = "upload"
  BY DEF UploadPart, Running, CopyInv, Follows, RightOp
<1>2. CASE FailsWithout(c, "abort")
  BY <1>1, <1>2, FailsFollows
<1>3. CASE ~FailsWithout(c, "abort")
  <2> DEFINE file   == files[calls[c].job.file]
             chunk  == Chunk(file, calls[c].pos, calls[c].size)
             size   == calls[c].size - Len(chunk)
             pos    == calls[c].pos + Len(chunk)
             number == calls[c].part_number + 1
             at     == IF calls[c].size = Len(chunk) THEN "complete" ELSE "part"
             parts  == uploads[c]
  <2>1. /\ uploads' = [uploads EXCEPT ![c] = parts \o chunk]
        /\ \/ calls' = [calls EXCEPT ![c].size = size, ![c].pos = pos,
                                     ![c].part_number = number, ![c].at = at]
           \/ Fail(c, "abort")
        /\ at \in {"part", "complete"} /\ (at = "complete" => calls[c].size = Len(chunk))
        /\ NoChange
    BY <1>3 DEF UploadPart, Chunk
  <2>2. /\ parts \in Seq(Nat) /\ Len(parts) = calls[c].pos /\ calls[c].pos \in Nat
        /\ calls[c].size \in Nat /\ MadeOf(parts, seen[c])
    BY <1>1 DEF CopyInv, Follows, Held
  <2>3. PICK v \in seen[c] : Len(v) = calls[c].pos + calls[c].size
    BY <1>1 DEF CopyInv, Follows, Held
  <2>4. file \in seen[c] /\ file \in Seq(Nat)
    BY <1>1 DEF CopyInv, Follows, Source, Held
  <2> HIDE DEF file, parts
  <2>5. \E more \in Nat :
          /\ Len(chunk) = more /\ more <= calls[c].size
          /\ parts \o chunk \in Seq(Nat) /\ Len(parts \o chunk) = calls[c].pos + more
          /\ MadeOf(parts \o chunk, seen[c])
    <3>1. chunk = Chunk(file, Len(parts), calls[c].size)
      BY <2>2
    <3> HIDE DEF chunk
    <3>2. GoesOn(file, parts, chunk) /\ Len(chunk) <= calls[c].size
      BY <2>2, <2>4, <3>1, PartIsMade
    <3>3. /\ parts \o chunk \in Seq(Nat) /\ Len(parts \o chunk) = Len(parts) + Len(chunk)
          /\ MadeOf(parts \o chunk, seen[c])
      BY <2>2, <2>4, <3>2, ChunkIsMade
    <3>4. Len(chunk) \in Nat
      BY <3>2 DEF GoesOn
    <3> QED BY <2>2, <3>2, <3>3, <3>4
  <2> HIDE DEF chunk
  <2>6. PICK more \in Nat :
          /\ Len(chunk) = more /\ more <= calls[c].size
          /\ parts \o chunk \in Seq(Nat) /\ Len(parts \o chunk) = calls[c].pos + more
          /\ MadeOf(parts \o chunk, seen[c])
    BY <2>5
  <2>7. Grows /\ (MadeOf(parts \o chunk, seen[c]) => MadeOf(parts \o chunk, seen'[c]))
    BY <2>1, NoChangeGrows DEF Grows, MadeOf
  <2>8. /\ size = calls[c].size - more /\ pos = calls[c].pos + more
        /\ (at = "complete" => calls[c].size = more)
    BY <2>1, <2>6
  <2> HIDE DEF size, pos, at
  <2>9. size \in Nat /\ pos = Len(parts \o chunk) /\ Len(v) = pos + size
        /\ (at = "complete" => size = 0)
    <3> DEFINE n == calls[c].size
               p == calls[c].pos
    <3>1. n \in Nat /\ p \in Nat /\ Len(v) = p + n /\ more \in Nat /\ more <= n
      BY <2>2, <2>3, <2>6
    <3>2. size = n - more /\ pos = p + more /\ Len(parts \o chunk) = p + more
          /\ (at = "complete" => n = more)
      BY <2>6, <2>8
    <3> HIDE DEF n, p
    <3> QED BY <3>1, <3>2
  <2> DEFINE new == parts \o chunk
  <2>10. /\ uploads'[c] = new /\ c \in DOMAIN uploads'
         /\ \A d \in Calls \ {c} : d \in DOMAIN uploads =>
                                     d \in DOMAIN uploads' /\ uploads'[d] = uploads[d]
         /\ new \in Seq(Nat) /\ MadeOf(new, seen'[c]) /\ pos = Len(new)
    BY <1>1, <2>1, <2>6, <2>7, <2>9
  <2> HIDE DEF chunk, size, pos, number, at, parts, file, new
  <2>11. CASE Fail(c, "abort")
    BY <1>1, <2>7, <2>10, <2>11, FailFollows
  <2>12. CASE ~Fail(c, "abort")
    <3> DEFINE k == [calls[c] EXCEPT !.size = size, !.pos = pos, !.part_number = number,
                                     !.at = at]
    <3>1. calls' = [calls EXCEPT ![c] = k]
      BY <2>1, <2>12
    <3>2. HasFields(calls[c])
      BY DEF IInv, Shape
    <3>3. /\ k.at = at /\ k.failed = calls[c].failed /\ HasFields(k)
          /\ k.job = calls[c].job /\ k.size = size /\ k.pos = pos
      BY <3>2 DEF HasFields, Fields
    <3>4. calls'[c] = k
      BY <3>1 DEF IInv, Shape
    <3> HIDE DEF k
    <3>5. RightOp(k)
      BY <1>1, <2>1, <3>3 DEF RightOp
    <3>6. Held(k, uploads'[c], seen'[c])
      <4>1. v \in seen'[c]
        BY <2>7 DEF Grows
      <4> QED BY <2>1, <2>7, <2>9, <2>10, <3>3, <4>1 DEF Held, Grows
    <3>7. CopyInv'
      BY <1>1, <2>7, <2>10, <3>1, <3>3, <3>5, <3>6, CopyStep DEF Becomes
    <3> QED BY <2>1, <3>3, <3>4, <3>7 DEF Made
  <2> QED BY <2>11, <2>12
<1> QED BY <1>2, <1>3

\* LastStepFollows: an upload that is completed puts what was sent, as much as the source had.
LEMMA LastStepFollows ==
  ASSUME IInv, CopyInv, NEW c \in Calls, CompleteMultipartUpload(c) \/ AbortMultipartUpload(c)
  PROVE  CopyInv' /\ Made(c)
<1>1. /\ calls[c].at \in {"complete", "abort"} /\ Running(c)
      /\ calls[c].job \in Jobs /\ calls[c].job.op = "upload" /\ calls[c].job.key \in Keys
  <2>1. /\ calls[c].at \in {"complete", "abort"} /\ Running(c)
        /\ calls[c].job \in Jobs /\ calls[c].job.op = "upload"
    BY DEF CompleteMultipartUpload, AbortMultipartUpload, Running, CopyInv, Follows, RightOp
  <2> QED BY <2>1, JobFields
<1>2. CASE FailsWithout(c, "err")
  BY <1>1, <1>2, FailsFollows
<1>3. CASE ~FailsWithout(c, "err")
  <2>1. uploads' = [d \in DOMAIN uploads \ {c} |-> uploads[d]]
    BY <1>3 DEF CompleteMultipartUpload, AbortMultipartUpload
  <2>2. \A d \in Calls \ {c} : d \in DOMAIN uploads =>
                                 d \in DOMAIN uploads' /\ uploads'[d] = uploads[d]
    BY <2>1
  <2>3. CASE CompleteMultipartUpload(c)
    <3> DEFINE job   == calls[c].job
               parts == uploads[c]
    <3>1. Put(job.key, parts) /\ (Goto(c, "ok") \/ Fail(c, "err"))
      BY <1>3, <2>3 DEF CompleteMultipartUpload
    <3>2. /\ parts \in Seq(Nat) /\ MadeOf(parts, seen[c]) /\ calls[c].at = "complete"
          /\ \E v \in seen[c] : Len(v) = Len(parts)
      <4>1. /\ parts \in Seq(Nat) /\ MadeOf(parts, seen[c]) /\ calls[c].at = "complete"
            /\ calls[c].pos = Len(parts) /\ calls[c].size = 0
            /\ \E v \in seen[c] : Len(v) = calls[c].pos + calls[c].size
        BY <2>3 DEF CompleteMultipartUpload, CopyInv, Follows, Held
      <4>2. Len(parts) \in Nat
        BY <4>1
      <4> QED BY <4>1, <4>2
    <3>3. Grows /\ store'[job.key] = parts
      BY <1>1, <3>1, <3>2, PutGrows DEF IsContent
    <3>4. Made(c)
      <4>1. Target(job, store', files') = parts
        BY <1>1, <3>3 DEF Target
      <4>2. (\E v \in seen'[c] : Len(v) = Len(parts)) /\ MadeOf(parts, seen'[c])
        BY <3>2, <3>3 DEF Grows, MadeOf
      <4>3. Multipart(c)
        BY <3>2 DEF Multipart
      <4> QED BY <4>1, <4>2, <4>3 DEF Made
    <3> QED BY <1>1, <2>2, <3>1, <3>3, <3>4, FailFollows, DoneFollows
  <2>4. CASE AbortMultipartUpload(c)
    <3>1. Grows /\ (Goto(c, "err") \/ Fail(c, "err"))
      BY <1>3, <2>4, NoChangeGrows DEF AbortMultipartUpload
    <3>2. CASE Fail(c, "err")
      BY <1>1, <2>2, <3>1, <3>2, FailFollows
    <3>3. CASE Goto(c, "err")
      <4>1. PICK k : /\ Becomes(c, k) /\ calls'[c] = k /\ k.at = "err"
                     /\ k.job = calls[c].job
        BY <3>3, GotoFields
      <4>2. RightOp(k)
        BY <1>1, <4>1 DEF RightOp
      <4>3. Held(k, uploads'[c], seen'[c])
        BY <3>1, <4>1 DEF Held, Grows
      <4> QED BY <1>1, <2>2, <3>1, <4>1, <4>2, <4>3, CopyStep DEF Made
    <3> QED BY <3>1, <3>2, <3>3
  <2> QED BY <2>3, <2>4
<1> QED BY <1>2, <1>3

\* The entry a key is listed under by the listing of a call.
EntryOf(c) == IF calls[c].job.op = "objects" THEN FolderOf ELSE [key \in Keys |-> key]

\* ListAnswered: what becomes of a listing that is given a page.
LEMMA ListAnswered ==
  ASSUME IInv, CopyInv, NEW c \in Calls, ListObjects(c) \/ ListObjectsRecursive(c),
         ~FailsWithout(c, "err")
  PROVE  /\ calls[c].at = "list" /\ calls[c].job \in Jobs /\ calls[c].job.op \in Listings
         /\ NoChange /\ UNCHANGED <<uploads, changes>>
         /\ \E k :
              LET page == Page(calls[c].token, EntryOf(c))
              IN  /\ Becomes(c, k) /\ calls'[c] = k /\ k.job = calls[c].job
                  /\ k.listed = calls[c].listed \o page.entries
                  /\ k.is_truncated = (calls[c].is_truncated \/ page.truncated)
                  /\ \/ page.truncated /\ k.at = "list" /\ k.token = Last(k.listed)
                     \/ page.truncated /\ k.at = "ok" /\ k.token = 0
                     \/ ~page.truncated /\ k.at = "ok" /\ k.token = calls[c].token
<1>1. /\ calls[c].at = "list" /\ calls[c].job \in Jobs /\ calls[c].job.op \in Listings
      /\ HasFields(calls[c])
  BY DEF ListObjects, ListObjectsRecursive, CopyInv, Follows, RightOp, IInv, Shape
<1>2. ListPage(c, EntryOf(c))
  <2>1. CASE ListObjects(c)
    BY <2>1 DEF ListObjects, EntryOf
  <2>2. CASE ListObjectsRecursive(c)
    BY <2>2 DEF ListObjectsRecursive, EntryOf
  <2> QED BY <2>1, <2>2
<1> DEFINE page      == Page(calls[c].token, EntryOf(c))
           listed    == calls[c].listed \o page.entries
           truncated == calls[c].is_truncated \/ page.truncated
           Answered(at, token) ==
             calls' = [calls EXCEPT ![c].listed = listed, ![c].at = at,
                                    ![c].token = token, ![c].is_truncated = truncated]
<1>3. /\ NoChange /\ UNCHANGED <<uploads, changes>>
      /\ \/ page.truncated /\ Answered("list", Last(listed))
         \/ page.truncated /\ Answered("ok", 0)
         \/ ~page.truncated /\ Answered("ok", calls[c].token)
  BY <1>2 DEF ListPage
<1> HIDE DEF listed, truncated, page
<1>4. ASSUME NEW at, NEW token, Answered(at, token)
      PROVE  \E k : /\ Becomes(c, k) /\ calls'[c] = k /\ k.job = calls[c].job
                    /\ k.listed = listed /\ k.is_truncated = truncated
                    /\ k.at = at /\ k.token = token
  <2> DEFINE k == [calls[c] EXCEPT !.listed = listed, !.at = at, !.token = token,
                                   !.is_truncated = truncated]
  <2>1. calls' = [calls EXCEPT ![c] = k]
    BY <1>4
  <2>2. /\ k.at = at /\ k.failed = calls[c].failed /\ HasFields(k) /\ k.job = calls[c].job
        /\ k.listed = listed /\ k.is_truncated = truncated /\ k.token = token
    BY <1>1 DEF HasFields, Fields
  <2>3. calls'[c] = k
    BY <2>1 DEF IInv, Shape
  <2> HIDE DEF k
  <2> QED BY <2>1, <2>2, <2>3 DEF Becomes
<1> HIDE DEF Answered
<1>5. \E k :
        /\ Becomes(c, k) /\ calls'[c] = k /\ k.job = calls[c].job
        /\ k.listed = listed /\ k.is_truncated = truncated
        /\ \/ page.truncated /\ k.at = "list" /\ k.token = Last(k.listed)
           \/ page.truncated /\ k.at = "ok" /\ k.token = 0
           \/ ~page.truncated /\ k.at = "ok" /\ k.token = calls[c].token
  <2>1. CASE page.truncated /\ Answered("list", Last(listed))
    <3>1. PICK k : /\ Becomes(c, k) /\ calls'[c] = k /\ k.job = calls[c].job
                   /\ k.listed = listed /\ k.is_truncated = truncated
                   /\ k.at = "list" /\ k.token = Last(listed)
      BY <1>4, <2>1
    <3> QED BY <2>1, <3>1
  <2>2. CASE page.truncated /\ Answered("ok", 0)
    <3>1. PICK k : /\ Becomes(c, k) /\ calls'[c] = k /\ k.job = calls[c].job
                   /\ k.listed = listed /\ k.is_truncated = truncated
                   /\ k.at = "ok" /\ k.token = 0
      BY <1>4, <2>2
    <3> QED BY <2>2, <3>1
  <2>3. CASE ~page.truncated /\ Answered("ok", calls[c].token)
    <3>1. PICK k : /\ Becomes(c, k) /\ calls'[c] = k /\ k.job = calls[c].job
                   /\ k.listed = listed /\ k.is_truncated = truncated
                   /\ k.at = "ok" /\ k.token = calls[c].token
      BY <1>4, <2>3
    <3> QED BY <2>3, <3>1
  <2> QED BY <1>3, <2>1, <2>2, <2>3
<1> QED BY <1>1, <1>3, <1>5, Zenon DEF page, listed, truncated

\* ListFollows: a listing copies nothing.
LEMMA ListFollows ==
  ASSUME IInv, CopyInv, NEW c \in Calls, ListObjects(c) \/ ListObjectsRecursive(c)
  PROVE  CopyInv' /\ Made(c)
<1>1. /\ calls[c].at = "list" /\ Running(c)
      /\ calls[c].job \in Jobs /\ calls[c].job.op \in Listings
  BY DEF ListObjects, ListObjectsRecursive, Running, CopyInv, Follows, RightOp
<1>2. Made(c)
  BY <1>1 DEF Made
<1>3. CASE FailsWithout(c, "err")
  BY <1>1, <1>3, FailsFollows
<1>4. CASE ~FailsWithout(c, "err")
  <2>1. Grows /\ UNCHANGED uploads
    BY <1>4, ListAnswered, NoChangeGrows
  <2>2. PICK k : Becomes(c, k) /\ k.job = calls[c].job /\ k.at \in {"list", "ok"}
    BY <1>4, ListAnswered
  <2>3. RightOp(k)
    BY <1>1, <2>2 DEF RightOp
  <2>4. Held(k, uploads'[c], seen'[c])
    BY <2>1, <2>2 DEF Held, Grows
  <2> QED BY <1>1, <1>2, <2>1, <2>2, <2>3, <2>4, CopyStep
<1> QED BY <1>2, <1>3, <1>4

\* StartFollows: a call that begins sees what its source holds.
LEMMA StartFollows ==
  ASSUME IInv, CopyInv, NEW c \in Calls, NEW job \in Jobs, Start(c, job)
  PROVE  CopyInv' /\ Made(c)
<1> DEFINE at == FirstStep(job.op)
           k  == [Idle EXCEPT !.job = job, !.at = at]
<1>1. /\ calls' = [calls EXCEPT ![c] = k] /\ UNCHANGED <<store, files, uploads>>
      /\ seen' = [seen EXCEPT ![c] = Source(job, store, files)]
      /\ DOMAIN steady' = DOMAIN steady
  BY DEF Start
<1>2. /\ at \in {"stat", "get", "copy", "list"}
      /\ at = "stat" => job.op = "upload"
      /\ at = "get" => job.op \in {"download", "relay"}
      /\ at = "copy" => job.op = "copy"
      /\ at = "list" => job.op \in Listings
  <2>1. job.op \in {"upload", "download", "relay", "copy"} \union Listings
    BY JobFields
  <2> QED BY <2>1 DEF FirstStep, Listings
<1> HIDE DEF at
<1>3. k.at = at /\ k.job = job /\ k.pos = 0 /\ HasFields(k)
  BY DEF HasFields, Fields, Idle
<1> HIDE DEF k
<1>4. \A d \in Calls : calls'[d] = IF d = c THEN k ELSE calls[d]
  BY <1>1 DEF IInv, Shape
<1>5. Source(job, store, files) \subseteq Seq(Nat)
  BY SourceIsContent DEF CopyInv
<1>6. RightOp(k) /\ Held(k, uploads'[c], seen'[c])
  <2>1. RightOp(k)
    BY <1>2, <1>3 DEF RightOp
  <2>2. seen'[c] = Source(job, store, files)
    BY <1>1 DEF CopyInv
  <2> QED BY <1>2, <1>3, <1>5, <2>1, <2>2 DEF Held
<1>7. ASSUME NEW d \in Calls PROVE Follows(d)'
  <2>1. CASE d = c
    <3>1. seen'[c] = Source(job, store, files)
      BY <1>1 DEF CopyInv
    <3> QED BY <1>1, <1>2, <1>3, <1>4, <1>6, <2>1, <3>1 DEF Follows
  <2>2. CASE d # c
    <3>1. calls'[d] = calls[d] /\ seen'[d] = seen[d]
      BY <1>1, <1>4, <2>2 DEF CopyInv
    <3> QED BY <1>1, <3>1 DEF CopyInv, Follows, Running
  <2> QED BY <2>1, <2>2
<1>8. Shape'
  BY <1>1, <1>3, <1>4 DEF IInv, Shape
<1>9. Made(c)
  BY <1>2, <1>3, <1>4 DEF Made
<1> QED BY <1>1, <1>7, <1>8, <1>9 DEF CopyInv

\* OthersFollow: what others write is a content too, and the calls see it.
LEMMA OthersFollow ==
  ASSUME IInv, CopyInv, OtherClient \/ OtherProgram
  PROVE  CopyInv'
<1>1. UNCHANGED <<uploads, calls>>
  BY DEF OtherClient, OtherProgram
<1>2. \A content \in Contents : IsContent(content)
  BY ContentsAssumption DEF IsContent
<1>3. Grows
  <2>1. CASE OtherClient
    <3>1. PICK key \in Keys : \/ \E content \in Contents : Put(key, content)
                              \/ Change([d \in DOMAIN store \ {key} |-> store[d]], files)
      BY <2>1 DEF OtherClient
    <3>2. CASE \E content \in Contents : Put(key, content)
      BY <1>2, <3>2, PutGrows
    <3>3. CASE Change([d \in DOMAIN store \ {key} |-> store[d]], files)
      <4> DEFINE s == [d \in DOMAIN store \ {key} |-> store[d]]
      <4>1. Typed(s, files)
        BY DEF CopyInv, Typed
      <4> HIDE DEF s
      <4> QED BY <3>3, <4>1, ChangeGrows DEF s
    <3> QED BY <3>1, <3>2, <3>3
  <2>2. CASE OtherProgram
    <3>1. PICK file, content : /\ content \in Contents
                               /\ Change(store, [files EXCEPT ![file] = content])
      BY <2>2 DEF OtherProgram
    <3> DEFINE f == [files EXCEPT ![file] = content]
    <3>2. Typed(store, f)
      BY <1>2, <3>1 DEF CopyInv, Typed
    <3> HIDE DEF f
    <3> QED BY <3>1, <3>2, ChangeGrows DEF f
  <2> QED BY <2>1, <2>2
<1>4. ASSUME NEW d \in Calls PROVE Follows(d)'
  <2>1. Held(calls[d], uploads[d], seen'[d])
    BY <1>3, HeldGrows DEF CopyInv, Follows, Grows
  <2> QED BY <1>1, <1>3, <2>1 DEF CopyInv, Follows, Grows, Running
<1> QED BY <1>1, <1>3, <1>4 DEF CopyInv, Shape, Grows

-----------------------------------------------------------------------------
(* The theorem about copies *)

\* StepFollows: every step of a call keeps to its source.
LEMMA StepFollows ==
  ASSUME IInv, CopyInv, NEW c \in Calls, Step(c) \/ \E job \in Jobs : Start(c, job)
  PROVE  CopyInv' /\ Made(c)
  BY UploadStatFollows, BodyFollows, WriteFollows, FileFollows, OpenFollows, PartFollows,
     LastStepFollows, ListFollows, StartFollows DEF Step

\* CopyInvariance: what calls hold is of their sources in every state.
LEMMA CopyInvariance == Spec => []CopyInv
<1>1. Init => CopyInv
  <2> SUFFICES ASSUME Init PROVE CopyInv
    OBVIOUS
  <2>1. Typed(store, files)
    BY ContentsAssumption DEF Init, Typed, IsContent
  <2>2. \A c \in Calls : calls[c] = Idle /\ seen[c] = {}
    BY DEF Init
  <2>3. HasFields(Idle) /\ Idle.at = "idle"
    BY DEF HasFields, Fields, Idle
  <2>4. \A c \in Calls : Follows(c)
    BY <2>2, <2>3 DEF Follows, RightOp, Held, Running
  <2> QED BY <2>1, <2>2, <2>3, <2>4 DEF Init, CopyInv, Shape
<1>2. IInv /\ CopyInv /\ [Next]_vars => CopyInv'
  <2> SUFFICES ASSUME IInv, CopyInv, [Next]_vars PROVE CopyInv'
    OBVIOUS
  <2>1. CASE UNCHANGED vars
    BY <2>1 DEF vars, history, CopyInv, Shape, Follows, Running
  <2> QED BY <2>1, StepFollows, OthersFollow DEF Next
<1> QED BY <1>1, <1>2, Invariance, PTL DEF Spec

\* OthersStay: a step of one call leaves the others where they are.
LEMMA OthersStay ==
  ASSUME IInv, CopyInv, NEW c \in Calls, Step(c) \/ \E job \in Jobs : Start(c, job),
         NEW d \in Calls, d # c
  PROVE  calls'[d] = calls[d]
<1>1. ASSUME NEW at, Goto(c, at) \/ Fail(c, at) PROVE calls'[d] = calls[d]
  BY <1>1 DEF Goto, Fail, IInv, Shape
<1>2. CASE UploadStat(c)
  BY <1>1, <1>2 DEF UploadStat, FailsWithout, IInv, Shape
<1>3. CASE ReadFile(c) \/ GetObject(c)
  BY <1>1, <1>3 DEF ReadFile, GetObject, FailsWithout, IInv, Shape
<1>4. CASE PutObject(c) \/ SendBody(c) \/ CopyObject(c)
  BY <1>1, <1>4 DEF PutObject, SendBody, CopyObject, FailsWithout
<1>5. CASE CreateMultipartUpload(c) \/ OpenFile(c)
  BY <1>1, <1>5 DEF CreateMultipartUpload, OpenFile, FailsWithout
<1>6. CASE UploadPart(c)
  BY <1>1, <1>6 DEF UploadPart, FailsWithout, IInv, Shape
<1>7. CASE CompleteMultipartUpload(c) \/ AbortMultipartUpload(c)
  BY <1>1, <1>7 DEF CompleteMultipartUpload, AbortMultipartUpload, FailsWithout
<1>8. CASE CreateFile(c) \/ CopyBody(c)
  BY <1>1, <1>8 DEF CreateFile, CopyBody, FailsWithout, IInv, Shape
<1>9. CASE ListObjects(c) \/ ListObjectsRecursive(c)
  BY <1>1, <1>9, ListAnswered DEF FailsWithout, Becomes, IInv, Shape
<1>10. CASE \E job \in Jobs : Start(c, job)
  BY <1>10 DEF Start, IInv, Shape
<1> QED BY <1>2, <1>3, <1>4, <1>5, <1>6, <1>7, <1>8, <1>9, <1>10 DEF Step

\* CopiesAreOfTheSource: for every number of calls, sizes of files and parts and number of
\* changes by others, a call that returns Ok has written as much as its source held at some
\* moment, each unit one the source held at that place, and one version whole when it is
\* not a multipart upload.
THEOREM CopiesAreOfTheSource == Spec => MadeOfTheSource
<1>1. IInv /\ CopyInv /\ [Next]_vars =>
        [\A c \in Calls :
           (calls[c].at # "ok" /\ calls'[c].at = "ok"
              /\ calls[c].job.op \notin {"objects", "recursive"}) =>
           LET written == Target(calls[c].job, store', files')
           IN  /\ \E v \in seen'[c] : Len(v) = Len(written)
               /\ \A i \in DOMAIN written : \E v \in seen'[c] :
                    i \in DOMAIN v /\ v[i] = written[i]
               /\ Multipart(c) \/ written \in seen'[c]]_vars
  <2> SUFFICES ASSUME IInv, CopyInv, Next PROVE \A c \in Calls : Made(c)
    BY DEF Made, MadeOf, Listings
  <2> TAKE c \in Calls
  <2>1. CASE calls'[c] = calls[c]
    BY <2>1 DEF Made
  <2>2. CASE OtherClient \/ OtherProgram
    BY <2>1, <2>2 DEF OtherClient, OtherProgram
  <2>3. CASE \E d \in Calls : Step(d) \/ \E job \in Jobs : Start(d, job)
    BY <2>1, <2>3, StepFollows, OthersStay
  <2> QED BY <2>2, <2>3 DEF Next
<1> QED BY <1>1, Invariance, CopyInvariance, PTL DEF Spec, MadeOfTheSource

-----------------------------------------------------------------------------
(* A finite set of numbers in order *)

Increasing(s) == \A i, j \in DOMAIN s : i < j => s[i] < s[j]

UpTo(S, e)  == {d \in S : d <= e}
Below(S, e) == {d \in S : d < e}

\* BelowIsFinite: a number has finitely many before it.
LEMMA BelowIsFinite ==
  ASSUME NEW S \in SUBSET Nat, NEW e \in Nat
  PROVE  /\ IsFiniteSet(UpTo(S, e)) /\ IsFiniteSet(Below(S, e))
         /\ Cardinality(UpTo(S, e)) \in Nat /\ Cardinality(Below(S, e)) \in Nat
<1>1. UpTo(S, e) \in SUBSET Nat /\ \A d \in UpTo(S, e) : d <= e
  BY DEF UpTo
<1>2. IsFiniteSet(UpTo(S, e))
  BY <1>1, FS_BoundedSetOfNaturals
<1>3. Below(S, e) \in SUBSET UpTo(S, e)
  <2>1. \A d \in S : d < e => d <= e
    OBVIOUS
  <2> QED BY <2>1 DEF Below, UpTo
<1>4. IsFiniteSet(Below(S, e))
  BY <1>2, <1>3, FS_Subset
<1> QED BY <1>2, <1>4, FS_CardinalityType

\* RanksRise: of two numbers the greater has more before it.
LEMMA RanksRise ==
  ASSUME NEW S \in SUBSET Nat, NEW d \in S, NEW e \in S, d < e
  PROVE  /\ Cardinality(UpTo(S, d)) < Cardinality(UpTo(S, e))
         /\ Cardinality(Below(S, d)) < Cardinality(Below(S, e))
<1>1. d \in Nat /\ e \in Nat
  OBVIOUS
<1>2. /\ UpTo(S, d) \in SUBSET UpTo(S, e) /\ UpTo(S, d) # UpTo(S, e)
      /\ Below(S, d) \in SUBSET Below(S, e) /\ Below(S, d) # Below(S, e)
  <2>1. \A x \in Nat : (x <= d => x <= e) /\ (x < d => x < e)
    BY <1>1
  <2>2. e \in UpTo(S, e) /\ e \notin UpTo(S, d) /\ d \in Below(S, e) /\ d \notin Below(S, d)
    BY <1>1 DEF UpTo, Below
  <2>3. UpTo(S, d) \in SUBSET UpTo(S, e) /\ Below(S, d) \in SUBSET Below(S, e)
    BY <2>1 DEF UpTo, Below
  <2> QED BY <2>2, <2>3
<1>3. /\ Cardinality(UpTo(S, d)) \in Nat /\ Cardinality(UpTo(S, e)) \in Nat
      /\ Cardinality(Below(S, d)) \in Nat /\ Cardinality(Below(S, e)) \in Nat
      /\ IsFiniteSet(UpTo(S, e)) /\ IsFiniteSet(Below(S, e))
  BY <1>1, BelowIsFinite
<1>4. /\ Cardinality(UpTo(S, d)) <= Cardinality(UpTo(S, e))
      /\ Cardinality(UpTo(S, d)) # Cardinality(UpTo(S, e))
  BY <1>2, <1>3, FS_Subset
<1>5. /\ Cardinality(Below(S, d)) <= Cardinality(Below(S, e))
      /\ Cardinality(Below(S, d)) # Cardinality(Below(S, e))
  BY <1>2, <1>3, FS_Subset
<1> QED BY <1>3, <1>4, <1>5

\* IncreasingIsOnto: as many numbers of a set in increasing order are all of them.
LEMMA IncreasingIsOnto ==
  ASSUME NEW S \in SUBSET Nat, IsFiniteSet(S),
         NEW s \in [1..Cardinality(S) -> S], Increasing(s)
  PROVE  \A e \in S : \E i \in 1..Cardinality(S) : s[i] = e
<1> DEFINE n == Cardinality(S)
<1>1. n \in Nat
  BY FS_CardinalityType
<1>2. IsFiniteSet(1..n) /\ Cardinality(1..n) = n
  BY <1>1, FS_Interval
<1>3. s \in Injection(1..n, S)
  <2>1. ASSUME NEW i \in 1..n, NEW j \in 1..n, s[i] = s[j] PROVE i = j
    <3>1. DOMAIN s = 1..n /\ s[i] \in Nat
      OBVIOUS
    <3>2. (i < j => s[i] < s[j]) /\ (j < i => s[j] < s[i])
      BY <3>1 DEF Increasing
    <3>3. ~(i < j) /\ ~(j < i)
      BY <2>1, <3>1, <3>2
    <3>4. i \in Nat /\ j \in Nat
      BY <1>1
    <3> QED BY <3>3, <3>4
  <2> QED BY <2>1 DEF Injection, IsInjective
<1>4. s \in Surjection(1..n, S)
  BY <1>2, <1>3, FS_Injection
<1> QED BY <1>4 DEF Surjection

\* OrderExists: a finite set of numbers can be put in order, each number by its rank.
LEMMA OrderExists ==
  ASSUME NEW S \in SUBSET Nat, IsFiniteSet(S)
  PROVE  \E s \in [1..Cardinality(S) -> S] : Increasing(s)
<1> DEFINE n    == Cardinality(S)
           rank == [e \in S |-> Cardinality(UpTo(S, e))]
<1>1. n \in Nat /\ IsFiniteSet(1..n) /\ Cardinality(1..n) = n
  BY FS_CardinalityType, FS_Interval
<1>2. rank \in [S -> 1..n]
  <2> SUFFICES ASSUME NEW e \in S PROVE Cardinality(UpTo(S, e)) \in 1..n
    OBVIOUS
  <2>1. UpTo(S, e) \in SUBSET S /\ e \in UpTo(S, e)
    BY DEF UpTo
  <2>2. IsFiniteSet(UpTo(S, e)) /\ Cardinality(UpTo(S, e)) <= n
    BY <2>1, FS_Subset
  <2>3. Cardinality(UpTo(S, e)) \in Nat /\ Cardinality(UpTo(S, e)) # 0
    BY <2>1, <2>2, FS_CardinalityType, FS_EmptySet
  <2> QED BY <1>1, <2>2, <2>3
<1>3. \A d, e \in S : d < e => rank[d] < rank[e]
  BY RanksRise
<1> HIDE DEF rank, n
<1>4. rank \in Injection(S, 1..n)
  <2>1. ASSUME NEW d \in S, NEW e \in S, rank[d] = rank[e] PROVE d = e
    <3>1. d \in Nat /\ e \in Nat /\ rank[d] \in 1..n /\ rank[e] \in 1..n
      BY <1>2
    <3>2. ~(d < e) /\ ~(e < d)
      BY <1>1, <1>3, <2>1, <3>1
    <3> QED BY <3>1, <3>2
  <2> QED BY <1>2, <2>1 DEF Injection, IsInjective
<1>5. rank \in Surjection(S, 1..n)
  BY <1>1, <1>4, FS_Injection DEF n
<1>6. \A i \in 1..n : \E e \in S : rank[e] = i
  BY <1>5 DEF Surjection
<1> DEFINE s == [i \in 1..n |-> CHOOSE e \in S : rank[e] = i]
<1>7. \A i \in 1..n : s[i] \in S /\ rank[s[i]] = i
  BY <1>6
<1> HIDE DEF s
<1>8. Increasing(s) /\ s \in [1..n -> S]
  <2>1. s \in [1..n -> S]
    BY <1>7 DEF s
  <2>2. ASSUME NEW i \in 1..n, NEW j \in 1..n, i < j PROVE s[i] < s[j]
    <3>1. s[i] \in S /\ s[j] \in S /\ rank[s[i]] = i /\ rank[s[j]] = j
      BY <1>7
    <3>2. s[i] \in Nat /\ s[j] \in Nat
      BY <3>1
    <3>4. i \in Nat /\ j \in Nat
      BY <1>1
    <3>5. s[j] < s[i] => j < i
      BY <1>3, <3>1
    <3>6. s[i] # s[j]
      <4>1. s[i] = s[j] => i = j
        BY <3>1
      <4> QED BY <2>2, <3>4, <4>1
    <3>3. ~(s[j] < s[i]) /\ s[i] # s[j]
      BY <2>2, <3>4, <3>5, <3>6
    <3> QED BY <3>2, <3>3
  <2> QED BY <2>1, <2>2 DEF Increasing
<1> QED BY <1>8 DEF n

\* InOrderOfSet: InOrder lists a finite set of numbers, each once and in order.
LEMMA InOrderOfSet ==
  ASSUME NEW S \in SUBSET Nat, IsFiniteSet(S)
  PROVE  /\ InOrder(S) \in Seq(Nat) /\ Len(InOrder(S)) = Cardinality(S)
         /\ Increasing(InOrder(S))
         /\ \A i \in 1..Cardinality(S) : InOrder(S)[i] \in S
         /\ \A e \in S : \E i \in 1..Cardinality(S) : InOrder(S)[i] = e
<1> DEFINE n == Cardinality(S)
<1>1. n \in Nat
  BY FS_CardinalityType
<1>2. InOrder(S) \in [1..n -> S] /\ Increasing(InOrder(S))
  BY OrderExists DEF InOrder, Increasing
<1>3. \A e \in S : \E i \in 1..n : InOrder(S)[i] = e
  BY <1>2, IncreasingIsOnto
<1> DEFINE s == InOrder(S)
<1> HIDE DEF n, s
<1>4. s \in [1..n -> S]
  BY <1>2 DEF s
<1>5. s \in Seq(S) /\ Len(s) = n
  BY <1>1, <1>4
<1>6. s \in Seq(Nat)
  <2>1. S \subseteq Nat
    OBVIOUS
  <2> QED BY <1>5, <2>1, SeqMonotonic
<1>7. \A i \in 1..n : s[i] \in S
  BY <1>4
<1> QED BY <1>2, <1>3, <1>5, <1>6, <1>7 DEF n, s

\* The first numbers of a set, as many as a page holds.
FirstOf(S) == {e \in S : Cardinality(Below(S, e)) < PAGE}

\* FirstOfSet: the first are finitely many, there is one when there is any, and nothing of the
\* set is between them.
LEMMA FirstOfSet ==
  ASSUME NEW S \in SUBSET Nat
  PROVE  /\ FirstOf(S) \in SUBSET Nat /\ IsFiniteSet(FirstOf(S))
         /\ S # {} => FirstOf(S) # {}
         /\ \A e \in FirstOf(S), d \in S : d <= e => d \in FirstOf(S)
<1> DEFINE F == FirstOf(S)
           below == [e \in F |-> Cardinality(Below(S, e))]
<1>1. PAGE \in Nat /\ 0 < PAGE /\ IsFiniteSet(0..(PAGE - 1))
  BY SizesAssumption, FS_Interval
<1>2. F \subseteq S /\ F \in SUBSET Nat
  BY DEF FirstOf
<1>3. ASSUME NEW e \in S PROVE Cardinality(Below(S, e)) \in Nat
  BY BelowIsFinite
<1>4. IsFiniteSet(F)
  <2>1. below \in [F -> 0..(PAGE - 1)]
    <3> SUFFICES ASSUME NEW e \in F PROVE Cardinality(Below(S, e)) \in 0..(PAGE - 1)
      OBVIOUS
    <3>1. Cardinality(Below(S, e)) < PAGE /\ Cardinality(Below(S, e)) \in Nat
      BY <1>2, <1>3 DEF FirstOf
    <3> QED BY <1>1, <3>1
  <2>2. \A d, e \in F : d < e => below[d] < below[e]
    BY <1>2, RanksRise
  <2> HIDE DEF below
  <2>3. ASSUME NEW d \in F, NEW e \in F, below[d] = below[e] PROVE d = e
    <3>1. d \in Nat /\ e \in Nat
      BY <1>2
    <3>2. below[d] \in Int /\ below[e] \in Int
      BY <2>1
    <3>3. ~(d < e) /\ ~(e < d)
      BY <2>2, <2>3, <3>2
    <3> QED BY <3>1, <3>3
  <2>4. below \in Injection(F, 0..(PAGE - 1))
    BY <2>1, <2>3 DEF Injection, IsInjective
  <2> QED BY <1>1, <2>4, FS_Injection
<1>5. ASSUME S # {} PROVE F # {}
  <2>1. PICK e \in S : TRUE
    BY <1>5
  <2> DEFINE D == UpTo(S, e)
             s == InOrder(D)
  <2>2. D \in SUBSET Nat /\ IsFiniteSet(D) /\ e \in D
    <3>1. e \in Nat /\ e <= e
      OBVIOUS
    <3>2. D \in SUBSET Nat /\ e \in D
      BY <3>1 DEF UpTo
    <3> QED BY <3>1, <3>2, BelowIsFinite
  <2>3. Cardinality(D) \in Nat /\ Cardinality(D) # 0
    BY <2>2, FS_CardinalityType, FS_EmptySet
  <2> HIDE DEF D
  <2>4. /\ s \in Seq(Nat) /\ Len(s) = Cardinality(D) /\ Increasing(s)
        /\ \A i \in 1..Cardinality(D) : s[i] \in D
        /\ \A d \in D : \E i \in 1..Cardinality(D) : s[i] = d
    BY <2>2, InOrderOfSet
  <2> HIDE DEF s
  <2>5. 1 \in DOMAIN s /\ DOMAIN s = 1..Cardinality(D) /\ s[1] \in D /\ s[1] \in Nat
    BY <2>3, <2>4
  <2>6. ASSUME NEW d \in D PROVE s[1] <= d
    <3>1. PICK i \in 1..Cardinality(D) : s[i] = d
      BY <2>4
    <3>2. 1 < i => s[1] < s[i]
      BY <2>4, <2>5 DEF Increasing
    <3>3. d \in Nat /\ i \in Nat /\ (i = 1 \/ 1 < i)
      BY <2>2, <3>1
    <3>4. CASE i = 1
      BY <2>5, <3>1, <3>4
    <3>5. CASE 1 < i
      BY <2>5, <3>1, <3>2, <3>3, <3>5
    <3> QED BY <3>3, <3>4, <3>5
  <2>7. Below(S, s[1]) = {}
    <3> SUFFICES ASSUME NEW x \in S, x < s[1] PROVE FALSE
      BY DEF Below
    <3>1. x \in Nat /\ s[1] \in Nat /\ s[1] <= e /\ e \in Nat
      BY <2>5 DEF D, UpTo
    <3>2. x <= e
      BY <3>1
    <3>3. x \in D
      BY <3>2 DEF D, UpTo
    <3> QED BY <2>6, <3>1, <3>3
  <2>8. s[1] \in S
    BY <2>5 DEF D, UpTo
  <2>9. Cardinality(Below(S, s[1])) = 0
    BY <2>7, FS_EmptySet
  <2>10. s[1] \in F
    BY <1>1, <2>8, <2>9 DEF FirstOf
  <2> QED BY <2>10
<1>6. ASSUME NEW e \in F, NEW d \in S, d <= e PROVE d \in F
  <2>1. d \in Nat /\ e \in Nat /\ e \in S
    BY <1>2
  <2>2. CASE d = e
    BY <2>2
  <2>3. CASE d < e
    <3>1. Cardinality(Below(S, d)) < Cardinality(Below(S, e))
      BY <2>1, <2>3, RanksRise
    <3>2. Cardinality(Below(S, e)) < PAGE
      BY DEF FirstOf
    <3>3. Cardinality(Below(S, d)) \in Nat /\ Cardinality(Below(S, e)) \in Nat
      BY <1>3, <2>1
    <3>4. Cardinality(Below(S, d)) < PAGE
      BY <1>1, <3>1, <3>2, <3>3
    <3> QED BY <3>4 DEF FirstOf
  <2> QED BY <1>6, <2>1, <2>2, <2>3
<1> QED BY <1>2, <1>4, <1>5, <1>6

IsListed(listed, entry) == \E i \in DOMAIN listed : listed[i] = entry

\* The page has the entries that come next after the token, in order; one that is truncated
\* has some, and one that is not has all.
GoesAfter(page, token, entry) ==
  /\ page.entries \in Seq(Nat) /\ Increasing(page.entries)
  /\ \A i \in DOMAIN page.entries : token < page.entries[i]
  /\ page.truncated => page.entries # <<>>
  /\ \A key \in DOMAIN store :
       (/\ token < entry[key]
        /\ ~page.truncated \/ \E i \in DOMAIN page.entries : entry[key] <= page.entries[i])
       => IsListed(page.entries, entry[key])

\* PageOfObjects: such is a page the server answers.
LEMMA PageOfObjects ==
  ASSUME CopyInv, NEW token \in Nat, NEW entry \in [Keys -> Keys]
  PROVE  GoesAfter(Page(token, entry), token, entry)
<1> DEFINE page == Page(token, entry)
<1> DEFINE after == {e \in {entry[k] : k \in DOMAIN store} : e > token}
           first == FirstOf(after)
<1>1. page = [entries |-> InOrder(first), truncated |-> first # after]
  BY DEF Page, FirstOf, Below
<1>2. \A key \in DOMAIN store : entry[key] \in Nat
  BY KeysAssumption DEF CopyInv, Typed
<1>3. /\ after \in SUBSET Nat /\ \A e \in after : token < e
      /\ \A key \in DOMAIN store : token < entry[key] => entry[key] \in after
  <2>1. after \in SUBSET Nat
    BY <1>2
  <2>2. \A e \in after : token < e
    BY <1>2
  <2>3. ASSUME NEW key \in DOMAIN store, token < entry[key] PROVE entry[key] \in after
    <3>1. entry[key] > token
      BY <1>2, <2>3
    <3> QED BY <3>1
  <2> QED BY <2>1, <2>2, <2>3
<1> HIDE DEF after
<1>4. /\ first \in SUBSET Nat /\ IsFiniteSet(first)
      /\ after # {} => first # {}
      /\ \A e \in first, d \in after : d <= e => d \in first
  BY <1>3, FirstOfSet
<1>5. first \subseteq after
  BY DEF FirstOf
<1> HIDE DEF first
<1> DEFINE s == InOrder(first)
           n == Cardinality(first)
<1>6. /\ s \in Seq(Nat) /\ Len(s) = n /\ Increasing(s)
      /\ \A i \in 1..n : s[i] \in first
      /\ \A e \in first : \E i \in 1..n : s[i] = e
  BY <1>4, InOrderOfSet
<1>7. page.entries = s /\ page.truncated = (first # after)
  BY <1>1
<1> HIDE DEF s, n
<1>8. DOMAIN s = 1..n
  BY <1>6
<1> HIDE DEF page
<1>9. \A i \in DOMAIN s : token < s[i]
  BY <1>3, <1>5, <1>6, <1>8
<1>10. ASSUME first # after PROVE s # <<>>
  <2>1. first # {}
    BY <1>4, <1>5, <1>10
  <2>2. PICK i \in 1..n : s[i] \in first
    BY <1>6, <2>1
  <2>3. DOMAIN s # {}
    BY <1>8, <2>2
  <2>4. DOMAIN <<>> = {}
    OBVIOUS
  <2> QED BY <2>3, <2>4
<1>11. ASSUME NEW key \in DOMAIN store, token < entry[key],
              first = after \/ \E i \in DOMAIN s : entry[key] <= s[i]
       PROVE  \E i \in DOMAIN s : s[i] = entry[key]
  <2>1. entry[key] \in after
    BY <1>3, <1>11
  <2>2. entry[key] \in first
    <3>1. CASE first = after
      BY <2>1, <3>1
    <3>2. CASE \E i \in DOMAIN s : entry[key] <= s[i]
      BY <1>4, <1>6, <1>8, <2>1, <3>2
    <3> QED BY <1>11, <3>1, <3>2
  <2> QED BY <1>6, <1>8, <2>2
<1> QED BY <1>6, <1>7, <1>9, <1>10, <1>11 DEF GoesAfter, IsListed, page

\* PageJoined: a page put after what was listed, all of it before the page.
LEMMA PageJoined ==
  ASSUME NEW listed \in Seq(Nat), Increasing(listed), NEW token \in Nat,
         \A i \in DOMAIN listed : listed[i] <= token,
         NEW entries \in Seq(Nat), Increasing(entries),
         \A i \in DOMAIN entries : token < entries[i]
  PROVE  /\ listed \o entries \in Seq(Nat) /\ Increasing(listed \o entries)
         /\ \A i \in DOMAIN listed :
              \E j \in DOMAIN (listed \o entries) : (listed \o entries)[j] = listed[i]
         /\ \A i \in DOMAIN entries :
              \E j \in DOMAIN (listed \o entries) : (listed \o entries)[j] = entries[i]
         /\ entries # <<>> =>
              /\ Last(listed \o entries) \in Nat
              /\ token < Last(listed \o entries)
              /\ \E i \in DOMAIN entries : Last(listed \o entries) = entries[i]
              /\ \A j \in DOMAIN (listed \o entries) :
                   (listed \o entries)[j] <= Last(listed \o entries)
<1> DEFINE both == listed \o entries
           m == Len(listed)
           n == Len(entries)
<1>1. /\ both \in Seq(Nat) /\ Len(both) = m + n /\ DOMAIN both = 1..(m + n)
      /\ \A i \in 1..(m + n) : both[i] = IF i <= m THEN listed[i] ELSE entries[i - m]
      /\ m \in Nat /\ n \in Nat /\ DOMAIN listed = 1..m /\ DOMAIN entries = 1..n
  <2>1. /\ both \in Seq(Nat) /\ Len(both) = m + n
        /\ \A i \in 1..(m + n) : both[i] = IF i <= m THEN listed[i] ELSE entries[i - m]
    BY ConcatProperties
  <2> HIDE DEF both
  <2> QED BY <2>1
<1>2. /\ \A i \in 1..m : listed[i] \in Nat
      /\ \A i \in 1..n : entries[i] \in Nat
  OBVIOUS
<1>3. entries # <<>> => n # 0
  OBVIOUS
<1>4. Last(both) = both[Len(both)]
  BY DEF Last
<1>5. /\ \A i, j \in 1..m : i < j => listed[i] < listed[j]
      /\ \A i, j \in 1..n : i < j => entries[i] < entries[j]
      /\ \A i \in 1..m : listed[i] <= token
      /\ \A i \in 1..n : token < entries[i]
  BY <1>1 DEF Increasing
<1> HIDE DEF both, m, n
<1>6. ASSUME NEW i \in 1..(m + n)
      PROVE  \/ i \in 1..m /\ both[i] = listed[i]
             \/ i - m \in 1..n /\ both[i] = entries[i - m]
  BY <1>1
<1>7. ASSUME NEW i \in 1..(m + n), NEW j \in 1..(m + n), i < j PROVE both[i] < both[j]
  <2>0. i \in Nat /\ j \in Nat
    BY <1>1
  <2>1. CASE i \in 1..m /\ both[i] = listed[i] /\ j \in 1..m /\ both[j] = listed[j]
    BY <1>5, <1>7, <2>1
  <2>2. CASE i \in 1..m /\ both[i] = listed[i] /\ j - m \in 1..n /\ both[j] = entries[j - m]
    <3>1. listed[i] <= token /\ token < entries[j - m]
      BY <1>5, <2>2
    <3>2. listed[i] \in Nat /\ entries[j - m] \in Nat
      BY <1>2, <2>2
    <3> QED BY <2>2, <3>1, <3>2
  <2>3. CASE /\ i - m \in 1..n /\ both[i] = entries[i - m]
             /\ j - m \in 1..n /\ both[j] = entries[j - m]
    <3>1. i - m < j - m
      BY <1>1, <1>7, <2>0
    <3> QED BY <1>5, <2>3, <3>1
  <2>4. CASE i - m \in 1..n /\ j \in 1..m
    BY <1>1, <1>7, <2>0, <2>4
  <2> QED BY <1>6, <2>1, <2>2, <2>3, <2>4
<1>8. ASSUME NEW i \in 1..m PROVE \E j \in 1..(m + n) : both[j] = listed[i]
  <2>1. i \in 1..(m + n) /\ i <= m
    BY <1>1
  <2> QED BY <1>1, <2>1
<1>9. ASSUME NEW i \in 1..n PROVE m + i \in 1..(m + n) /\ both[m + i] = entries[i]
  <2>1. m + i \in 1..(m + n) /\ ~(m + i <= m) /\ (m + i) - m = i
    BY <1>1
  <2> QED BY <1>1, <2>1
<1>10. ASSUME n # 0
       PROVE  /\ Last(both) \in Nat /\ token < Last(both)
              /\ \E i \in 1..n : Last(both) = entries[i]
              /\ \A j \in 1..(m + n) : both[j] <= Last(both)
  <2>1. n \in 1..n /\ m + n \in 1..(m + n)
    BY <1>1, <1>10
  <2>2. Last(both) = entries[n]
    BY <1>1, <1>4, <1>9, <2>1
  <2>3. Last(both) \in Nat /\ token < Last(both)
    BY <1>2, <1>5, <2>1, <2>2
  <2>4. ASSUME NEW j \in 1..(m + n) PROVE both[j] <= Last(both)
    <3>1. j \in Nat /\ j <= m + n /\ both[j] \in Nat
      BY <1>1
    <3>2. CASE j = m + n
      BY <1>1, <1>4, <2>3, <3>2
    <3>3. CASE j < m + n
      BY <1>1, <1>4, <1>7, <2>1, <2>3, <3>1, <3>3
    <3> QED BY <1>1, <3>1, <3>2, <3>3
  <2> QED BY <2>1, <2>2, <2>3, <2>4
<1> QED BY <1>1, <1>3, <1>7, <1>8, <1>9, <1>10 DEF Increasing, both

-----------------------------------------------------------------------------
(* What a listing has *)

\* What is listed is in order, up to the token, and up to there nothing steady is missing.
ListedTo(c, listed, token) ==
  /\ listed \in Seq(Nat) /\ Increasing(listed)
  /\ token \in Nat
  /\ \A i \in DOMAIN listed : listed[i] <= token
  /\ \A key \in steady[c] : EntryOf(c)[key] <= token => IsListed(listed, EntryOf(c)[key])

ListedAll(c, listed) == \A key \in steady[c] : IsListed(listed, EntryOf(c)[key])

Lists(c) ==
  /\ Running(c) => steady[c] \subseteq DOMAIN store
  /\ calls[c].at = "list" => ListedTo(c, calls[c].listed, calls[c].token)
  /\ (calls[c].at = "ok" /\ calls[c].job.op \in Listings) =>
       /\ steady[c] \subseteq Keys
       /\ Increasing(calls[c].listed)
       /\ \/ calls[c].is_truncated /\ calls[c].token = 0
          \/ ListedAll(c, calls[c].listed)

ListInv == \A c \in Calls : Lists(c)

\* Lessens: no key becomes steady, and what is steady for a running call is there.
Lessens ==
  \A d \in Calls :
    /\ steady'[d] \subseteq steady[d]
    /\ (Running(d) /\ steady[d] \subseteq DOMAIN store) => steady'[d] \subseteq DOMAIN store'

\* ChangeLessens: a change takes from what is steady what it deletes.
LEMMA ChangeLessens ==
  ASSUME NEW s, NEW f, Change(s, f)
  PROVE  Lessens
<1> SUFFICES ASSUME NEW d \in Calls
             PROVE  /\ steady'[d] \subseteq steady[d]
                    /\ Running(d) => steady'[d] \subseteq DOMAIN store'
  BY DEF Lessens
<1>1. /\ store' = s
      /\ steady'[d] = IF Running(d) THEN steady[d] \intersect DOMAIN s ELSE steady[d]
  BY DEF Change
<1> QED BY <1>1

\* NoChangeLessens: nothing is taken where nothing changes.
LEMMA NoChangeLessens ==
  ASSUME NoChange
  PROVE  Lessens
  BY DEF NoChange, Lessens

\* StepLessens: no step but a start adds to what is steady.
LEMMA StepLessens ==
  ASSUME NEW c \in Calls, Step(c)
  PROVE  Lessens /\ Running(c)
<1> USE ChangeLessens, NoChangeLessens DEF FailsWithout, Put, Running
<1>1. CASE UploadStat(c) \/ ReadFile(c) \/ PutObject(c)
  BY <1>1 DEF UploadStat, ReadFile, PutObject
<1>2. CASE CreateMultipartUpload(c) \/ OpenFile(c) \/ UploadPart(c)
  BY <1>2 DEF CreateMultipartUpload, OpenFile, UploadPart
<1>3. CASE CompleteMultipartUpload(c) \/ AbortMultipartUpload(c)
  BY <1>3 DEF CompleteMultipartUpload, AbortMultipartUpload
<1>4. CASE GetObject(c) \/ CreateFile(c) \/ CopyBody(c)
  BY <1>4 DEF GetObject, CreateFile, CopyBody
<1>5. CASE SendBody(c) \/ CopyObject(c)
  BY <1>5 DEF SendBody, CopyObject
<1>6. CASE ListObjects(c) \/ ListObjectsRecursive(c)
  BY <1>6 DEF ListObjects, ListObjectsRecursive, ListPage
<1> QED BY <1>1, <1>2, <1>3, <1>4, <1>5, <1>6 DEF Step

\* JobStays: a call keeps its job.
LEMMA JobStays ==
  ASSUME IInv, CopyInv, NEW c \in Calls, Step(c)
  PROVE  calls'[c].job = calls[c].job
<1>0. HasFields(calls[c]) /\ c \in DOMAIN calls
  BY DEF IInv, Shape
<1>1. ASSUME NEW at, Goto(c, at) \/ Fail(c, at) PROVE calls'[c].job = calls[c].job
  BY <1>0, <1>1 DEF Goto, Fail, HasFields, Fields
<1>2. CASE UploadStat(c)
  BY <1>0, <1>1, <1>2 DEF UploadStat, FailsWithout, HasFields, Fields
<1>3. CASE ReadFile(c) \/ GetObject(c)
  BY <1>0, <1>1, <1>3 DEF ReadFile, GetObject, FailsWithout, HasFields, Fields
<1>4. CASE PutObject(c) \/ SendBody(c) \/ CopyObject(c)
  BY <1>1, <1>4 DEF PutObject, SendBody, CopyObject, FailsWithout
<1>5. CASE CreateMultipartUpload(c) \/ OpenFile(c)
  BY <1>1, <1>5 DEF CreateMultipartUpload, OpenFile, FailsWithout
<1>6. CASE UploadPart(c)
  <2>1. CASE Fail(c, "abort")
    BY <1>1, <2>1, Zenon
  <2>2. CASE ~Fail(c, "abort")
    BY <1>0, <1>6, <2>2 DEF UploadPart, FailsWithout, HasFields, Fields
  <2> QED BY <2>1, <2>2
<1>7. CASE CompleteMultipartUpload(c) \/ AbortMultipartUpload(c)
  BY <1>1, <1>7 DEF CompleteMultipartUpload, AbortMultipartUpload, FailsWithout
<1>8. CASE CreateFile(c) \/ CopyBody(c)
  BY <1>0, <1>1, <1>8 DEF CreateFile, CopyBody, FailsWithout, HasFields, Fields
<1>9. CASE ListObjects(c) \/ ListObjectsRecursive(c)
  BY <1>1, <1>9, ListAnswered DEF FailsWithout
<1> QED BY <1>2, <1>3, <1>4, <1>5, <1>6, <1>7, <1>8, <1>9 DEF Step

\* OtherLists: what a call has listed is enough still when there is less that is steady.
LEMMA OtherLists ==
  ASSUME Lessens, NEW d \in Calls, Lists(d), calls'[d] = calls[d]
  PROVE  Lists(d)'
<1>1. steady'[d] \subseteq steady[d] /\ EntryOf(d)' = EntryOf(d)
  BY DEF Lessens, EntryOf
<1>2. calls[d].at = "list" => ListedTo(d, calls[d].listed, calls[d].token)'
  BY <1>1 DEF Lists, ListedTo
<1>3. ListedAll(d, calls[d].listed) => ListedAll(d, calls[d].listed)'
  BY <1>1 DEF ListedAll
<1> QED BY <1>1, <1>2, <1>3 DEF Lists, Lessens, Running

\* PageLists: a page goes on from what is listed up to the token.
LEMMA PageLists ==
  ASSUME IInv, CopyInv, ListInv, NEW c \in Calls, ListObjects(c) \/ ListObjectsRecursive(c),
         ~FailsWithout(c, "err")
  PROVE  Lists(c)'
<1> DEFINE page  == Page(calls[c].token, EntryOf(c))
           entry == EntryOf(c)
           old   == calls[c].listed
           token == calls[c].token
           new   == old \o page.entries
<1>1. /\ calls[c].at = "list" /\ calls[c].job.op \in Listings /\ NoChange
      /\ \E k : /\ Becomes(c, k) /\ calls'[c] = k /\ k.job = calls[c].job
                /\ k.listed = new
                /\ k.is_truncated = (calls[c].is_truncated \/ page.truncated)
                /\ \/ page.truncated /\ k.at = "list" /\ k.token = Last(k.listed)
                   \/ page.truncated /\ k.at = "ok" /\ k.token = 0
                   \/ ~page.truncated /\ k.at = "ok" /\ k.token = token
  BY ListAnswered
<1> DEFINE k == calls'[c]
<1>2. /\ k.job = calls[c].job /\ k.listed = new
      /\ k.is_truncated = (calls[c].is_truncated \/ page.truncated)
      /\ \/ page.truncated /\ k.at = "list" /\ k.token = Last(new)
         \/ page.truncated /\ k.at = "ok" /\ k.token = 0
         \/ ~page.truncated /\ k.at = "ok" /\ k.token = token
  BY <1>1
<1>3. /\ steady' = steady /\ store' = store /\ EntryOf(c)' = entry
      /\ steady[c] \subseteq DOMAIN store /\ DOMAIN store \subseteq Keys
      /\ ListedTo(c, old, token)
  BY <1>1, <1>2 DEF NoChange, ListInv, Lists, Running, CopyInv, Typed, EntryOf
<1>4. entry \in [Keys -> Keys] /\ \A key \in Keys : entry[key] \in Nat
  BY KeysAssumption DEF EntryOf
<1>5. GoesAfter(page, token, entry)
  <2>1. token \in Nat
    BY <1>3 DEF ListedTo
  <2> HIDE DEF entry, token
  <2> QED BY <1>4, <2>1, PageOfObjects DEF page, entry, token
<1> HIDE DEF page, entry, old, token
<1>6. /\ new \in Seq(Nat) /\ Increasing(new)
      /\ \A e : IsListed(old, e) \/ IsListed(page.entries, e) => IsListed(new, e)
      /\ page.truncated =>
           /\ Last(new) \in Nat /\ token < Last(new)
           /\ \E i \in DOMAIN page.entries : Last(new) = page.entries[i]
           /\ \A j \in DOMAIN new : new[j] <= Last(new)
  <2>1. /\ old \in Seq(Nat) /\ Increasing(old) /\ token \in Nat
        /\ \A i \in DOMAIN old : old[i] <= token
    BY <1>3 DEF ListedTo
  <2> DEFINE entries == page.entries
  <2>2. /\ entries \in Seq(Nat) /\ Increasing(entries)
        /\ \A i \in DOMAIN entries : token < entries[i]
    BY <1>5 DEF GoesAfter
  <2>3. new = old \o entries
    OBVIOUS
  <2> HIDE DEF entries, new
  <2>4. /\ new \in Seq(Nat) /\ Increasing(new)
        /\ \A i \in DOMAIN old : \E j \in DOMAIN new : new[j] = old[i]
        /\ \A i \in DOMAIN entries : \E j \in DOMAIN new : new[j] = entries[i]
        /\ entries # <<>> =>
             /\ Last(new) \in Nat /\ token < Last(new)
             /\ \E i \in DOMAIN entries : Last(new) = entries[i]
             /\ \A j \in DOMAIN new : new[j] <= Last(new)
    BY <2>1, <2>2, <2>3, PageJoined, ZenonT(30)
  <2>5. \A e : IsListed(old, e) \/ IsListed(entries, e) => IsListed(new, e)
    BY <2>4 DEF IsListed
  <2>6. page.truncated => entries # <<>>
    BY <1>5 DEF GoesAfter, entries
  <2> QED BY <2>4, <2>5, <2>6 DEF entries
<1> HIDE DEF new
<1>7. ASSUME NEW key \in steady[c],
             \/ entry[key] <= token
             \/ ~page.truncated
             \/ \E i \in DOMAIN page.entries : entry[key] <= page.entries[i]
      PROVE  IsListed(new, entry[key])
  <2>1. key \in DOMAIN store /\ entry[key] \in Nat /\ token \in Nat
    BY <1>3, <1>4 DEF ListedTo
  <2>2. CASE entry[key] <= token
    BY <1>3, <1>6, <2>2 DEF ListedTo, entry
  <2>3. CASE ~(entry[key] <= token)
    <3>1. token < entry[key]
      BY <2>1, <2>3
    <3> QED BY <1>5, <1>6, <1>7, <2>1, <2>3, <3>1 DEF GoesAfter
  <2> QED BY <2>2, <2>3
<1>8. CASE page.truncated /\ k.at = "list" /\ k.token = Last(new)
  <2>1. ASSUME NEW key \in steady[c], entry[key] <= Last(new)
        PROVE  IsListed(new, entry[key])
    BY <1>6, <1>7, <1>8, <2>1
  <2>2. ListedTo(c, calls[c].listed, calls[c].token)'
    BY <1>2, <1>3, <1>6, <1>8, <2>1 DEF ListedTo
  <2> QED BY <1>3, <1>8, <2>2 DEF Lists
<1>9. CASE page.truncated /\ k.at = "ok" /\ k.token = 0
  BY <1>2, <1>3, <1>6, <1>9 DEF Lists, Running
<1>10. CASE ~page.truncated /\ k.at = "ok" /\ k.token = token
  <2>1. ListedAll(c, calls[c].listed)'
    BY <1>2, <1>3, <1>7, <1>10 DEF ListedAll
  <2> QED BY <1>2, <1>3, <1>6, <1>10, <2>1 DEF Lists, Running
<1> QED BY <1>2, <1>8, <1>9, <1>10

\* StepLists: no other step of a call makes or ends a listing.
LEMMA StepLists ==
  ASSUME IInv, CopyInv, CopyInv', ListInv, NEW c \in Calls, Step(c)
  PROVE  ListInv'
<1>1. Lessens /\ Running(c) /\ calls'[c].job = calls[c].job
  BY StepLessens, JobStays
<1>2. Lists(c)'
  <2>1. CASE ListObjects(c) \/ ListObjectsRecursive(c)
    <3>1. CASE FailsWithout(c, "err")
      <4>1. calls'[c].at = "err"
        BY <3>1 DEF FailsWithout, Fail, IInv, Shape, HasFields, Fields
      <4> QED BY <4>1 DEF Lists, Running
    <3> QED BY <2>1, <3>1, PageLists
  <2>2. CASE ~(ListObjects(c) \/ ListObjectsRecursive(c))
    <3>1. calls[c].at \in {"stat", "read", "put", "create", "open", "part", "complete", "abort",
                           "get", "file", "body", "send", "copy"}
      BY <2>2 DEF Step, UploadStat, ReadFile, PutObject, CreateMultipartUpload, OpenFile,
         UploadPart, CompleteMultipartUpload, AbortMultipartUpload, GetObject, CreateFile,
         CopyBody, SendBody, CopyObject
    <3>2. calls[c].job.op \notin Listings
      BY <3>1 DEF CopyInv, Follows, RightOp, Listings
    <3>3. calls'[c].at # "list"
      BY <1>1, <3>2 DEF CopyInv, Follows, RightOp
    <3>4. steady'[c] \subseteq DOMAIN store'
      BY <1>1 DEF Lessens, ListInv, Lists
    <3> QED BY <1>1, <3>2, <3>3, <3>4 DEF Lists
  <2> QED BY <2>1, <2>2
<1>3. ASSUME NEW d \in Calls, d # c PROVE Lists(d)'
  BY <1>1, <1>3, OthersStay, OtherLists DEF ListInv
<1> QED BY <1>2, <1>3 DEF ListInv

\* StartLists: a listing begins with nothing, before the first key.
LEMMA StartLists ==
  ASSUME IInv, CopyInv, ListInv, NEW c \in Calls, NEW job \in Jobs, Start(c, job)
  PROVE  ListInv'
<1> DEFINE k == [Idle EXCEPT !.job = job, !.at = FirstStep(job.op)]
<1>1. /\ calls' = [calls EXCEPT ![c] = k] /\ UNCHANGED store
      /\ steady' = [steady EXCEPT ![c] = IF job.op \in {"objects", "recursive"}
                                           THEN DOMAIN store ELSE {}]
  BY DEF Start
<1>2. /\ k.job = job /\ k.at = FirstStep(job.op) /\ k.listed = <<>> /\ k.token = 0
  BY DEF Idle
<1> HIDE DEF k
<1>3. calls'[c] = k /\ steady'[c] \subseteq DOMAIN store /\ DOMAIN store \subseteq Keys
  BY <1>1 DEF IInv, Shape, CopyInv, Typed
<1>4. k.at # "ok"
  <2>1. job.op \in {"upload", "download", "relay", "copy"} \union Listings
    BY JobFields
  <2> QED BY <1>2, <2>1 DEF FirstStep, Listings
<1>5. ListedTo(c, k.listed, k.token)'
  <2>1. EntryOf(c)' \in [Keys -> Keys]
    BY KeysAssumption DEF EntryOf
  <2>2. ASSUME NEW key \in steady'[c] PROVE ~(EntryOf(c)'[key] <= 0)
    <3>1. EntryOf(c)'[key] \in Keys
      BY <1>3, <2>1
    <3>2. \A x \in Keys : x \in Nat /\ x # 0
      BY KeysAssumption
    <3>3. \A x \in Nat : x # 0 => ~(x <= 0)
      OBVIOUS
    <3> QED BY <3>1, <3>2, <3>3
  <2>3. <<>> \in Seq(Nat) /\ DOMAIN <<>> = {}
    OBVIOUS
  <2> QED BY <1>2, <2>2, <2>3 DEF ListedTo, Increasing
<1>6. Lists(c)'
  BY <1>1, <1>3, <1>4, <1>5 DEF Lists
<1>7. ASSUME NEW d \in Calls, d # c PROVE Lists(d)'
  <2>1. calls'[d] = calls[d] /\ steady'[d] = steady[d] /\ store' = store
    BY <1>1, <1>7 DEF CopyInv, IInv, Shape
  <2> QED BY <2>1 DEF ListInv, Lists, ListedTo, ListedAll, EntryOf, Running
<1> QED BY <1>6, <1>7 DEF ListInv

\* ListInvariance: what is listed is full up to the token in every state.
LEMMA ListInvariance == Spec => []ListInv
<1>1. Init => ListInv
  <2> SUFFICES ASSUME Init, NEW c \in Calls PROVE Lists(c)
    BY DEF ListInv
  <2>1. calls[c].at = "idle"
    BY DEF Init, Idle
  <2> QED BY <2>1 DEF Lists, Running
<1>2. IInv /\ CopyInv /\ CopyInv' /\ ListInv /\ [Next]_vars => ListInv'
  <2> SUFFICES ASSUME IInv, CopyInv, CopyInv', ListInv, [Next]_vars PROVE ListInv'
    OBVIOUS
  <2>1. CASE UNCHANGED vars
    BY <2>1 DEF vars, history, ListInv, Lists, ListedTo, ListedAll, EntryOf, Running
  <2>2. CASE OtherClient \/ OtherProgram
    <3>1. calls' = calls /\ Lessens
      BY <2>2, ChangeLessens DEF OtherClient, OtherProgram, Put
    <3> QED BY <3>1, OtherLists DEF ListInv
  <2> QED BY <2>1, <2>2, StepLists, StartLists DEF Next
<1> QED BY <1>1, <1>2, Invariance, CopyInvariance, PTL DEF Spec

\* ListingsAreFull: for every number of keys and size of pages, and whatever others write and
\* delete between two pages, a listing that came to its end has every entry that was there
\* all through it, each once and in order; one that stopped for want of a token says so.
THEOREM ListingsAreFull == Spec => []FullListing
<1>1. CopyInv /\ ListInv => FullListing
  <2> SUFFICES ASSUME CopyInv, ListInv, NEW c \in Calls,
                      calls[c].at = "ok", calls[c].job.op \in {"objects", "recursive"}
               PROVE  LET k == calls[c]
                          Entry(key) == IF k.job.op = "objects" THEN FolderOf[key] ELSE key
                      IN  /\ \A i, j \in DOMAIN k.listed : i < j => k.listed[i] < k.listed[j]
                          /\ \/ k.is_truncated /\ k.token = 0
                             \/ {Entry(key) : key \in steady[c]} \subseteq Range(k.listed)
    BY DEF FullListing
  <2> DEFINE k == calls[c]
             Entry(key) == IF k.job.op = "objects" THEN FolderOf[key] ELSE key
  <2>1. /\ Increasing(k.listed) /\ steady[c] \subseteq Keys
        /\ (k.is_truncated /\ k.token = 0) \/ ListedAll(c, k.listed)
    BY DEF ListInv, Lists, Listings
  <2>2. \A key \in steady[c] : EntryOf(c)[key] = Entry(key)
    BY <2>1 DEF EntryOf
  <2>3. ListedAll(c, k.listed) => {Entry(key) : key \in steady[c]} \subseteq Range(k.listed)
    BY <2>2 DEF ListedAll, IsListed, Range
  <2> QED BY <2>1, <2>3 DEF Increasing
<1> QED BY <1>1, CopyInvariance, ListInvariance, PTL
=============================================================================
