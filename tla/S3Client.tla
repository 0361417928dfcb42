------------------------------- MODULE S3Client -------------------------------
(***************************************************************************)
(* The calls of src/src/s3/client.rs that take more than one request, or   *)
(* move the contents of an object: upload_file, download_object_to_file,   *)
(* relay_object_to_s3, copy_object and the listings.                       *)
(*                                                                         *)
(* Calls of one client run side by side.  Between two requests of a call,  *)
(* another call, another client of the server or a local program may       *)
(* change the objects and the files.  A request is answered, or fails      *)
(* without effect, or takes effect and its answer is lost: the operation   *)
(* timeout and the retries of the SDK make the last two look the same.     *)
(*                                                                         *)
(* Data abstraction: a content is a sequence of units, and keys are        *)
(* numbered in the order the server lists them.  The deletions are the     *)
(* subject of Deletes, the calls about tags, versions and bucket documents *)
(* of Details.                                                             *)
(***************************************************************************)
EXTENDS Integers, Sequences, FiniteSets, SequencesExt

CONSTANTS
  Calls,         \* calls the program makes
  Jobs,          \* what it asks for
  Keys,          \* keys of the objects, in listing order
  FolderOf,      \* the entry a delimiter lists a key under
  Files,         \* local files
  Contents,      \* what other clients and programs write
  Stored,        \* objects at first
  Saved,         \* files at first
  THRESHOLD,     \* MULTIPART_THRESHOLD
  PART,          \* MULTIPART_PART_SIZE
  PAGE,          \* the server's page size
  MAX_PARTS,     \* the server's limit of parts in an upload
  MaxChanges     \* bound: changes made by others

\* A job: upload file to key, download key to file, relay or copy key to key.
Job == [op: {"upload", "download"}, key: Keys, file: Files]
         \union [op: {"relay", "copy"}, key: Keys, to: Keys]
         \union [op: {"objects", "recursive"}]

ASSUME JobsAssumption == Jobs \subseteq Job
ASSUME KeysAssumption ==
  /\ Keys \subseteq Nat \ {0}
  /\ FolderOf \in [Keys -> Keys]
ASSUME ContentsAssumption ==
  /\ Contents \subseteq Seq(Nat)
  /\ Saved \in [Files -> Contents]
  /\ \E ks \in SUBSET Keys : Stored \in [ks -> Contents]
ASSUME SizesAssumption ==
  /\ PART \in Nat \ {0}
  /\ PAGE \in Nat \ {0}
  /\ {THRESHOLD, MAX_PARTS, MaxChanges} \subseteq Nat

VARIABLES
  store,    \* the objects of the server, by key
  uploads,  \* the multipart uploads the server keeps, by call: their parts put together
  files,    \* the local files
  calls,    \* the calls: their job and how far they are
  changes,  \* history: changes made by others
  seen,     \* history: the contents the source had during the call
  steady    \* history: the keys that were there all through the call

history == <<changes, seen, steady>>
vars    == <<store, uploads, files, calls, history>>

-----------------------------------------------------------------------------
(* Calls *)

NoJob == [op |-> "none"]

\* Local variables of the functions: remaining, the position in the file, data (a
\* body received or read), the parts sent, and the result of a listing.
Idle == [job |-> NoJob, at |-> "idle", size |-> 0, pos |-> 0, data |-> <<>>,
         part_number |-> 1, listed |-> <<>>, token |-> 0, is_truncated |-> FALSE,
         failed |-> {}]

FirstStep(op) == CASE op = "upload" -> "stat"
                   [] op \in {"download", "relay"} -> "get"
                   [] op = "copy" -> "copy"
                   [] op \in {"objects", "recursive"} -> "list"

Running(c) == calls[c].at \notin {"idle", "ok", "err"}

\* What a job reads, with these objects and files.
Source(job, s, f) ==
  IF job.op = "upload" THEN {f[job.file]}
  ELSE IF job.op \in {"download", "relay", "copy"} /\ job.key \in DOMAIN s
    THEN {s[job.key]} ELSE {}

\* The objects become s and the files f, and the running calls may see it.
Change(s, f) ==
  /\ store' = s
  /\ files' = f
  /\ seen' = [c \in Calls |->
                IF Running(c) THEN seen[c] \union Source(calls[c].job, s, f) ELSE seen[c]]
  /\ steady' = [c \in Calls |->
                IF Running(c) THEN steady[c] \intersect DOMAIN s ELSE steady[c]]

NoChange == UNCHANGED <<store, files, seen, steady>>

Put(key, content) == Change([k \in {key} \union DOMAIN store |->
                               IF k = key THEN content ELSE store[k]], files)

Start(c, job) ==
  /\ calls[c].at = "idle"
  /\ \A d \in Calls : calls[d].job # job
  /\ calls' = [calls EXCEPT ![c] = [Idle EXCEPT !.job = job, !.at = FirstStep(job.op)]]
  /\ seen' = [seen EXCEPT ![c] = Source(job, store, files)]
  /\ steady' = [steady EXCEPT ![c] = IF job.op \in {"objects", "recursive"}
                                       THEN DOMAIN store ELSE {}]
  /\ UNCHANGED <<store, uploads, files, changes>>

\* The call goes on to `at`, or its step fails and it goes on to `then`.
Goto(c, at)   == calls' = [calls EXCEPT ![c].at = at]
Fail(c, then) ==
  calls' = [calls EXCEPT ![c].at = then, ![c].failed = @ \union {calls[c].at}]

\* A step that fails and changes nothing.
FailsWithout(c, then) == Fail(c, then) /\ NoChange /\ UNCHANGED <<uploads, changes>>

-----------------------------------------------------------------------------
(* upload_file *)

\* metadata: a small file is read and put, a large one uploaded in parts.
UploadStat(c) ==
  /\ calls[c].at = "stat"
  /\ \/ LET size == Len(files[calls[c].job.file])
        IN  /\ calls' = [calls EXCEPT ![c].size = size,
                           ![c].at = IF size <= THRESHOLD THEN "read" ELSE "create"]
            /\ NoChange
            /\ UNCHANGED <<uploads, changes>>
     \/ FailsWithout(c, "err")

\* fs::read takes the file as it is now, however large.
ReadFile(c) ==
  /\ calls[c].at = "read"
  /\ \/ /\ calls' = [calls EXCEPT ![c].data = files[calls[c].job.file], ![c].at = "put"]
        /\ NoChange
        /\ UNCHANGED <<uploads, changes>>
     \/ FailsWithout(c, "err")

PutObject(c) ==
  /\ calls[c].at = "put"
  /\ \/ /\ Put(calls[c].job.key, calls[c].data)
        /\ Goto(c, "ok") \/ Fail(c, "err")
        /\ UNCHANGED <<uploads, changes>>
     \/ FailsWithout(c, "err")

CreateMultipartUpload(c) ==
  /\ calls[c].at = "create"
  /\ \/ /\ uploads' = [d \in {c} \union DOMAIN uploads |->
                         IF d = c THEN <<>> ELSE uploads[d]]
        /\ Goto(c, "open") \/ Fail(c, "err")
        /\ NoChange
        /\ UNCHANGED changes
     \/ FailsWithout(c, "err")

\* Mutant: a file that cannot be opened ends the call at once.
OpenFileNoAbort(c) ==
  /\ calls[c].at = "open"
  /\ \/ /\ Goto(c, "part")
        /\ NoChange
        /\ UNCHANGED <<uploads, changes>>
     \/ FailsWithout(c, "err")

OpenFile(c) ==
  /\ calls[c].at = "open"
  /\ \/ /\ Goto(c, "part")
        /\ NoChange
        /\ UNCHANGED <<uploads, changes>>
     \/ FailsWithout(c, "abort")

\* Mutant: each part reads the file from its start.
UploadPartRereads(c) ==
  LET k     == calls[c]
      file  == files[k.job.file]
      chunk == SubSeq(file, 1, Min({Len(file), Min({k.size, PART})}))
  IN  /\ k.at = "part"
      /\ \/ /\ k.part_number <= MAX_PARTS
            /\ uploads' = [uploads EXCEPT ![c] = @ \o chunk]
            /\ calls' = [calls EXCEPT
                 ![c].size = @ - Len(chunk), ![c].part_number = @ + 1,
                 ![c].at = IF k.size = Len(chunk) THEN "complete" ELSE "part"]
            /\ NoChange
            /\ UNCHANGED changes
         \/ FailsWithout(c, "abort")

\* Reads the next chunk, less when the file has become shorter, and sends it.  The
\* file is read on from the position the last chunk ended at.
UploadPart(c) ==
  LET k     == calls[c]
      file  == files[k.job.file]
      chunk == SubSeq(file, k.pos + 1,
                      Min({Len(file), k.pos + Min({k.size, PART})}))
  IN  /\ k.at = "part"
      /\ \/ /\ k.part_number <= MAX_PARTS
            /\ uploads' = [uploads EXCEPT ![c] = @ \o chunk]
            /\ \/ calls' = [calls EXCEPT
                     ![c].size = @ - Len(chunk), ![c].pos = @ + Len(chunk),
                     ![c].part_number = @ + 1,
                     ![c].at = IF k.size = Len(chunk) THEN "complete" ELSE "part"]
               \/ Fail(c, "abort")
            /\ NoChange
            /\ UNCHANGED changes
         \/ FailsWithout(c, "abort")

\* Parts are sent in the order of their numbers, so the object is what they are together.
CompleteMultipartUpload(c) ==
  /\ calls[c].at = "complete"
  /\ \/ /\ Put(calls[c].job.key, uploads[c])
        /\ uploads' = [d \in DOMAIN uploads \ {c} |-> uploads[d]]
        /\ Goto(c, "ok") \/ Fail(c, "err")
        /\ UNCHANGED changes
     \/ FailsWithout(c, "err")

\* What abort answers is ignored: the call fails with the first error.
AbortMultipartUpload(c) ==
  /\ calls[c].at = "abort"
  /\ \/ /\ uploads' = [d \in DOMAIN uploads \ {c} |-> uploads[d]]
        /\ Goto(c, "err") \/ Fail(c, "err")
        /\ NoChange
        /\ UNCHANGED changes
     \/ FailsWithout(c, "err")

-----------------------------------------------------------------------------
(* download_object_to_file, relay_object_to_s3 and copy_object *)

\* The answer is the object of this moment: its body is read later.
GetObject(c) ==
  /\ calls[c].at = "get"
  /\ \/ /\ calls[c].job.key \in DOMAIN store
        /\ calls' = [calls EXCEPT ![c].data = store[calls[c].job.key],
                       ![c].at = IF calls[c].job.op = "relay" THEN "send" ELSE "file"]
        /\ NoChange
        /\ UNCHANGED <<uploads, changes>>
     \/ FailsWithout(c, "err")

\* File::create empties the file that is there.
CreateFile(c) ==
  /\ calls[c].at = "file"
  /\ \/ /\ Change(store, [files EXCEPT ![calls[c].job.file] = <<>>])
        /\ Goto(c, "body")
        /\ UNCHANGED <<uploads, changes>>
     \/ FailsWithout(c, "err")

\* io::copy, a piece at a time; a body that breaks off leaves what came before.
CopyBody(c) ==
  LET data == calls[c].data
      rest == Min({PART, Len(data) - calls[c].pos})
      done == calls[c].pos + rest
  IN  /\ calls[c].at = "body"
      /\ \/ /\ Change(store, [files EXCEPT ![calls[c].job.file] = SubSeq(data, 1, done)])
            /\ calls' = [calls EXCEPT ![c].pos = done,
                           ![c].at = IF done = Len(data) THEN "ok" ELSE "body"]
            /\ UNCHANGED <<uploads, changes>>
         \/ FailsWithout(c, "err")

\* put_object_stream: the server stores a whole body or nothing.
SendBody(c) ==
  /\ calls[c].at = "send"
  /\ \/ /\ Put(calls[c].job.to, calls[c].data)
        /\ Goto(c, "ok") \/ Fail(c, "err")
        /\ UNCHANGED <<uploads, changes>>
     \/ FailsWithout(c, "err")

CopyObject(c) ==
  /\ calls[c].at = "copy"
  /\ \/ /\ calls[c].job.key \in DOMAIN store
        /\ Put(calls[c].job.to, store[calls[c].job.key])
        /\ Goto(c, "ok") \/ Fail(c, "err")
        /\ UNCHANGED <<uploads, changes>>
     \/ FailsWithout(c, "err")

-----------------------------------------------------------------------------
(* The listings *)

InOrder(S) ==
  CHOOSE s \in [1..Cardinality(S) -> S] : \A i, j \in DOMAIN s : i < j => s[i] < s[j]

\* The server's next page: the first entries after the token.
Page(token, entry) ==
  LET after == {e \in {entry[k] : k \in DOMAIN store} : e > token}
      page  == {e \in after : Cardinality({d \in after : d < e}) < PAGE}
  IN  [entries |-> InOrder(page), truncated |-> page # after]

\* Mutant: the flag is set only when there is a token to go on with.
ListPageSilent(c, entry) ==
  LET page   == Page(calls[c].token, entry)
      listed == calls[c].listed \o page.entries
      Answered(at, token) ==
        calls' = [calls EXCEPT ![c].listed = listed, ![c].at = at, ![c].token = token,
                               ![c].is_truncated = @ \/ at = "list"]
  IN  /\ \/ page.truncated /\ Answered("list", Last(listed))
         \/ page.truncated /\ Answered("ok", 0)
         \/ ~page.truncated /\ Answered("ok", calls[c].token)
      /\ NoChange
      /\ UNCHANGED <<uploads, changes>>

\* Mutant: a missing token does not end the loop.
ListPageAgain(c, entry) ==
  LET page   == Page(calls[c].token, entry)
      Answered(at, token) ==
        calls' = [calls EXCEPT ![c].listed = page.entries, ![c].at = at,
                               ![c].token = token]
  IN  /\ \/ page.truncated /\ Answered("list", Last(page.entries))
         \/ page.truncated /\ Answered("list", 0)
         \/ ~page.truncated /\ Answered("ok", calls[c].token)
      /\ NoChange
      /\ UNCHANGED <<uploads, changes>>

\* One page is asked for and answered.  A truncated page has a token, or the loop ends.
ListPage(c, entry) ==
  LET page   == Page(calls[c].token, entry)
      listed == calls[c].listed \o page.entries
      Answered(at, token) ==
        calls' = [calls EXCEPT ![c].listed = listed, ![c].at = at, ![c].token = token,
                               ![c].is_truncated = @ \/ page.truncated]
  IN  /\ \/ page.truncated /\ Answered("list", Last(listed))
         \/ page.truncated /\ Answered("ok", 0)
         \/ ~page.truncated /\ Answered("ok", calls[c].token)
      /\ NoChange
      /\ UNCHANGED <<uploads, changes>>

\* list_objects: keys below a delimiter come as one common prefix.
ListObjects(c) ==
  /\ calls[c].at = "list"
  /\ calls[c].job.op = "objects"
  /\ ListPage(c, FolderOf) \/ FailsWithout(c, "err")

\* list_objects_recursive: every key.
ListObjectsRecursive(c) ==
  /\ calls[c].at = "list"
  /\ calls[c].job.op = "recursive"
  /\ ListPage(c, [k \in Keys |-> k]) \/ FailsWithout(c, "err")

-----------------------------------------------------------------------------
(* The others *)

\* Another client writes or deletes an object.
OtherClient ==
  /\ changes < MaxChanges
  /\ changes' = changes + 1
  /\ \E k \in Keys :
       \/ \E content \in Contents : Put(k, content)
       \/ Change([d \in DOMAIN store \ {k} |-> store[d]], files)
  /\ UNCHANGED <<uploads, calls>>

\* A local program rewrites a file somebody uploads.
OtherProgram ==
  /\ changes < MaxChanges
  /\ changes' = changes + 1
  /\ \E f \in {calls[c].job.file : c \in {d \in Calls : calls[d].job.op = "upload"}},
        content \in Contents : Change(store, [files EXCEPT ![f] = content])
  /\ UNCHANGED <<uploads, calls>>

Step(c) ==
  \/ UploadStat(c) \/ ReadFile(c) \/ PutObject(c)
  \/ CreateMultipartUpload(c) \/ OpenFile(c) \/ UploadPart(c)
  \/ CompleteMultipartUpload(c) \/ AbortMultipartUpload(c)
  \/ GetObject(c) \/ CreateFile(c) \/ CopyBody(c) \/ SendBody(c) \/ CopyObject(c)
  \/ ListObjects(c) \/ ListObjectsRecursive(c)

Init ==
  /\ store = Stored
  /\ uploads = <<>>
  /\ files = Saved
  /\ calls = [c \in Calls |-> Idle]
  /\ changes = 0
  /\ seen = [c \in Calls |-> {}]
  /\ steady = [c \in Calls |-> {}]

Next ==
  \/ \E c \in Calls : Step(c) \/ \E job \in Jobs : Start(c, job)
  \/ OtherClient
  \/ OtherProgram

Spec == Init /\ [][Next]_vars

\* A request is answered or times out, a file operation returns, and the runtime
\* polls the call again.
FairSpec == Spec /\ \A c \in Calls : WF_vars(Step(c))

-----------------------------------------------------------------------------
(* Properties *)

Multipart(c) == calls[c].at = "complete"

\* Where a copying job writes, among these objects and files.
Target(job, s, f) == IF job.op = "download" THEN f[job.file]
                     ELSE s[IF job.op = "upload" THEN job.key ELSE job.to]

\* When upload_file, download_object_to_file, relay_object_to_s3 or copy_object returns
\* Ok, it has just written as much as its source held at some moment of the call, and
\* each unit is one the source held at the same place during the call.  A download,
\* relay or copy writes one version whole.  Nothing is skipped, doubled or reordered
\* between two parts, whatever others do to the file or to the object meanwhile.
MadeOfTheSource ==
  [][\A c \in Calls :
       (calls[c].at # "ok" /\ calls'[c].at = "ok"
          /\ calls[c].job.op \notin {"objects", "recursive"}) =>
       LET written == Target(calls[c].job, store', files')
       IN  /\ \E v \in seen'[c] : Len(v) = Len(written)
           /\ \A i \in DOMAIN written : \E v \in seen'[c] :
                i \in DOMAIN v /\ v[i] = written[i]
           /\ Multipart(c) \/ written \in seen'[c]]_vars

\* A listing that came to its end has every entry whose keys were there all through the
\* call, each once and in order, whatever others write and delete between two pages.
\* Only one that stopped for want of a token may lack some, and it says is_truncated.
FullListing ==
  \A c \in Calls :
    LET k == calls[c]
        Entry(key) == IF k.job.op = "objects" THEN FolderOf[key] ELSE key
    IN  (k.at = "ok" /\ k.job.op \in {"objects", "recursive"}) =>
          /\ \A i, j \in DOMAIN k.listed : i < j => k.listed[i] < k.listed[j]
          /\ \/ k.is_truncated /\ k.token = 0
             \/ {Entry(key) : key \in steady[c]} \subseteq Range(k.listed)

\* upload_file leaves no parts behind when the file cannot be read to its end or a part
\* is refused: a finished call has parts on the server only where create, complete or
\* abort itself failed.
PartsCleared ==
  \A c \in DOMAIN uploads :
    ~Running(c) => calls[c].failed \intersect {"create", "complete", "abort"} # {}

\* The comment on upload_file: "On multipart failure, aborts the upload to prevent
\* orphaned parts."
AbortsOnFailure ==
  \A c \in DOMAIN uploads :
    ~Running(c) => calls[c].failed \intersect {"create", "abort"} # {}

\* Every call ends: a listing asks for no page twice, and an upload whose file has become
\* shorter, which sends empty parts, ends at the server's limit of parts.
CallsEnd == \A c \in Calls : Running(c) ~> ~Running(c)

=============================================================================
