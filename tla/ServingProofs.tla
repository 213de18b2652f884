---------------------------- MODULE ServingProofs -----------------------------
(*************************************************************************)
(* What the backend's routes stand on, proved for every value of the     *)
(* constants: the HTTP layer, the blob store, the connections to the     *)
(* database, the caches and the configuration, and the device's download *)
(* of one blob.                                                          *)
(*************************************************************************)
EXTENDS HttpServing, BlobStore, Databases, Caches, BlobDownload, Deployment,
        FiniteSetTheorems, SequenceTheorems, TLAPS

-----------------------------------------------------------------------------
(* The blob store holds whole blobs only, for any number of uploads, any size and any number *)
(* of kills, as long as uploads of the same blob do not overlap on the disk.  Without that    *)
(* the claim is false: the run short_blob has the counterexample.                             *)

Prefix(n) == [i \in 1..n |-> "data"]

BlobTyped ==
  /\ content = [f \in Files |-> content[f]]
  /\ blob \in Files \cup {NoFile}
  /\ tmp \in Files \cup {NoFile}
  /\ fresh \subseteq Files
  /\ upload \in [Uploads -> [step : Step, file : Files \cup {NoFile}, written : 0..Size]]

\* One upload at most is past its look at the store.
OneUploads ==
  provider = "disk" =>
    \A u, v \in Uploads :
      upload[u].step \in {"put", "writing"} /\ upload[v].step \in {"put", "writing"} => u = v

\* Whoever writes has filled the temporary file as far as it has come, and nothing else is in it.
FillsTheTemp ==
  \A u \in Uploads : UploadAt(u, "writing") =>
    /\ provider = "disk" /\ tmp # NoFile /\ upload[u].file = tmp
    /\ content[tmp] = Prefix(upload[u].written)

\* The blob and the file beside it are files of their own, and taken.
Apart ==
  /\ tmp \notin fresh /\ blob \notin fresh
  /\ tmp = NoFile \/ tmp # blob

BlobInv == BlobTyped /\ OneUploads /\ FillsTheTemp /\ Apart /\ BlobIsWhole

-----------------------------------------------------------------------------
(* The steps *)

\* What is chosen as a new file is one that was not created yet.
LEMMA NewFileIsFresh ==
  ASSUME fresh # {}
  PROVE  NewFile \in fresh
BY DEF NewFile

\* An empty file holds the first zero chunks, and one chunk more is one chunk more.
LEMMA Prefixes ==
  /\ <<>> = Prefix(0) /\ WholeBlob = Prefix(Size)
  /\ \A n \in Nat : Len(Prefix(n)) = n
  /\ \A n \in Nat :
       [i \in 1..(n + 1) |-> IF i = n + 1 THEN "data" ELSE IF i <= n THEN Prefix(n)[i] ELSE "zeros"]
         = Prefix(n + 1)
<1>1. <<>> = Prefix(0) /\ WholeBlob = Prefix(Size)
  BY DEF Prefix, WholeBlob
<1>2. \A n \in Nat : Len(Prefix(n)) = n
  BY DEF Prefix
<1>3. \A n \in Nat :
        [i \in 1..(n + 1) |-> IF i = n + 1 THEN "data" ELSE IF i <= n THEN Prefix(n)[i] ELSE "zeros"]
          = Prefix(n + 1)
  BY DEF Prefix
<1> QED
  BY <1>1, <1>2, <1>3

\* The invariant holds at the start.
LEMMA InvInit == BlobInit => BlobInv
BY FilesAssumption, SizeAssumption
   DEF BlobInit, BlobInv, BlobTyped, OneUploads, FillsTheTemp, Apart, BlobIsWhole, Waiting, Step, UploadAt

\* An upload goes to another step without touching a file.
LEMMA Moves ==
  ASSUME BlobTyped, NEW u \in Uploads, NEW step \in Step, Become(u, step)
  PROVE  /\ upload' \in [Uploads -> [step : Step, file : Files \cup {NoFile}, written : 0..Size]]
         /\ upload'[u].step = step
         /\ upload'[u].file = upload[u].file /\ upload'[u].written = upload[u].written
         /\ \A v \in Uploads \ {u} : upload'[v] = upload[v]
<1> DEFINE next == [upload[u] EXCEPT !.step = step]
<1>1. upload' = [upload EXCEPT ![u] = next]
  BY DEF Become, BlobTyped
<1>2. /\ next \in [step : Step, file : Files \cup {NoFile}, written : 0..Size]
      /\ next.step = step /\ next.file = upload[u].file /\ next.written = upload[u].written
  BY DEF BlobTyped
<1> HIDE DEF next
<1> QED
  BY <1>1, <1>2 DEF BlobTyped

\* An upload that leaves the files alone, and begins neither to put nor to write.
LEMMA IdleStep ==
  ASSUME BlobInv, UNCHANGED <<provider, content, blob, tmp, fresh>>,
         upload' \in [Uploads -> [step : Step, file : Files \cup {NoFile}, written : 0..Size]],
         \A u \in Uploads :
           upload'[u] = upload[u] \/ upload'[u].step \notin {"put", "writing"}
  PROVE  BlobInv'
<1>1. BlobTyped' /\ Apart' /\ BlobIsWhole'
  BY DEF BlobInv, BlobTyped, Apart, BlobIsWhole, WholeBlob
<1>2. OneUploads' /\ FillsTheTemp'
  BY DEF BlobInv, OneUploads, FillsTheTemp, UploadAt
<1> QED
  BY <1>1, <1>2 DEF BlobInv

\* stageBlob looks, and goes on only where nobody else is on the way.
LEMMA LookStep ==
  ASSUME OneAtATime, BlobInv, NEW u \in Uploads, Look(u)
  PROVE  BlobInv'
<1> DEFINE step == IF StatBlob = Size THEN "stored" ELSE "put"
<1>1. Become(u, step) /\ UNCHANGED <<provider, content, blob, tmp, fresh>> /\ step \in {"stored", "put"}
  BY DEF Look
<1> HIDE DEF step
<1>2. /\ upload' \in [Uploads -> [step : Step, file : Files \cup {NoFile}, written : 0..Size]]
      /\ upload'[u].step = step /\ \A v \in Uploads \ {u} : upload'[v] = upload[v]
  BY <1>1, Moves DEF Step, BlobInv
<1>3. BlobTyped' /\ Apart' /\ BlobIsWhole'
  BY <1>1, <1>2 DEF BlobInv, BlobTyped, Apart, BlobIsWhole, WholeBlob
<1>4. FillsTheTemp'
  BY <1>1, <1>2 DEF BlobInv, FillsTheTemp, UploadAt
<1>5. OneUploads'
  BY <1>1, <1>2 DEF Look, BlobInv, OneUploads
<1> QED
  BY <1>3, <1>4, <1>5 DEF BlobInv

\* The temporary file is created or emptied: it is never the blob.
LEMMA OpenStep ==
  ASSUME BlobInv, NEW u \in Uploads, OpenTemp(u)
  PROVE  BlobInv'
<1> DEFINE entry(f) == [step |-> "writing", file |-> f, written |-> 0]
<1>1. PICK f : /\ f = IF tmp = NoFile THEN NewFile ELSE tmp
               /\ tmp = NoFile => fresh # {}
               /\ content' = [content EXCEPT ![f] = <<>>]
               /\ tmp' = f /\ fresh' = fresh \ {f}
               /\ upload' = [upload EXCEPT ![u] = entry(f)]
  BY DEF OpenTemp
<1>2. f \in Files /\ f # blob
  BY <1>1, NewFileIsFresh DEF BlobInv, BlobTyped, Apart
<1>3. /\ entry(f) \in [step : Step, file : Files \cup {NoFile}, written : 0..Size]
      /\ entry(f).step = "writing" /\ entry(f).file = f /\ entry(f).written = 0
  BY <1>2, SizeAssumption DEF Step
<1> HIDE DEF entry
<1>4. provider = "disk" /\ UNCHANGED <<provider, blob>> /\ upload[u].step = "put"
  BY DEF OpenTemp, UploadAt
<1>5. /\ upload' \in [Uploads -> [step : Step, file : Files \cup {NoFile}, written : 0..Size]]
      /\ upload'[u] = entry(f) /\ \A v \in Uploads \ {u} : upload'[v] = upload[v]
  BY <1>1, <1>3 DEF BlobInv, BlobTyped
<1>6. /\ content' = [g \in Files |-> content'[g]]
      /\ content'[f] = <<>> /\ \A g \in Files \ {f} : content'[g] = content[g]
  BY <1>1, <1>2 DEF BlobInv, BlobTyped
<1>7. BlobTyped' /\ Apart'
  BY <1>1, <1>2, <1>4, <1>5, <1>6 DEF BlobInv, BlobTyped, Apart
<1>8. BlobIsWhole'
  BY <1>2, <1>4, <1>6 DEF BlobInv, BlobIsWhole, BlobTyped, WholeBlob
<1>9. OneUploads'
  BY <1>4, <1>5 DEF BlobInv, OneUploads
<1>10. \A v \in Uploads \ {u} : upload[v].step # "writing"
  BY <1>4 DEF BlobInv, OneUploads
<1>11. FillsTheTemp'
  BY <1>1, <1>2, <1>3, <1>4, <1>5, <1>6, <1>10, Prefixes, FilesAssumption
     DEF FillsTheTemp, UploadAt
<1> QED
  BY <1>7, <1>8, <1>9, <1>11 DEF BlobInv

\* The next chunk goes to the end of the temporary file.
LEMMA WriteStep ==
  ASSUME BlobInv, NEW u \in Uploads, WriteChunk(u)
  PROVE  BlobInv'
<1> DEFINE n == upload[u].written
           next == [upload[u] EXCEPT !.written = n + 1]
<1>1. /\ upload[u].step = "writing" /\ upload[u].file = tmp /\ tmp \in Files /\ provider = "disk"
      /\ content[tmp] = Prefix(n) /\ n \in Nat
  BY SizeAssumption DEF WriteChunk, UploadAt, BlobInv, FillsTheTemp, BlobTyped
<1>2. n + 1 <= Size /\ UNCHANGED <<provider, blob, tmp, fresh>>
  BY DEF WriteChunk
<1>3. upload' = [upload EXCEPT ![u] = next]
  BY DEF WriteChunk, BlobInv, BlobTyped
<1>4. /\ next \in [step : Step, file : Files \cup {NoFile}, written : 0..Size]
      /\ next.step = "writing" /\ next.file = tmp /\ next.written = n + 1
  BY <1>1, <1>2, SizeAssumption DEF BlobInv, BlobTyped
<1>5. Len(content[tmp]) = n
  BY <1>1, Prefixes
<1>6. content' = [content EXCEPT ![tmp] =
        [i \in 1..(n + 1) |-> IF i = n + 1 THEN "data" ELSE IF i <= n THEN Prefix(n)[i] ELSE "zeros"]]
  <2> DEFINE f == upload[u].file
             long == IF n + 1 > Len(content[f]) THEN n + 1 ELSE Len(content[f])
             chunks(g, m, k) ==
               [i \in 1..m |-> IF i = n + 1 THEN "data" ELSE IF i <= k THEN g[i] ELSE "zeros"]
  <2>1. content' = [content EXCEPT ![f] = chunks(content[f], long, Len(content[f]))]
    BY <1>1 DEF WriteChunk, BlobInv, BlobTyped
  <2>2. f = tmp /\ content[f] = Prefix(n) /\ Len(content[f]) = n /\ long = n + 1
    BY <1>1, <1>5
  <2> HIDE DEF chunks, f, long
  <2>3. content' = [content EXCEPT ![tmp] = chunks(Prefix(n), n + 1, n)]
    BY <2>1, <2>2
  <2> QED
    BY <2>3 DEF chunks
<1>7. content' = [content EXCEPT ![tmp] = Prefix(n + 1)]
  BY <1>1, <1>6, Prefixes
<1> HIDE DEF n, next
<1>8. /\ upload' \in [Uploads -> [step : Step, file : Files \cup {NoFile}, written : 0..Size]]
      /\ upload'[u] = next /\ \A v \in Uploads \ {u} : upload'[v] = upload[v]
  BY <1>3, <1>4 DEF BlobInv, BlobTyped
<1>9. /\ content' = [g \in Files |-> content'[g]]
      /\ content'[tmp] = Prefix(n + 1) /\ \A g \in Files \ {tmp} : content'[g] = content[g]
  BY <1>1, <1>7 DEF BlobInv, BlobTyped
<1>10. BlobTyped' /\ Apart'
  BY <1>2, <1>8, <1>9 DEF BlobInv, BlobTyped, Apart
<1>11. BlobIsWhole'
  BY <1>1, <1>2, <1>9, FilesAssumption DEF BlobInv, BlobIsWhole, BlobTyped, Apart, WholeBlob
<1>12. OneUploads'
  BY <1>1, <1>2, <1>8 DEF BlobInv, OneUploads
<1>13. \A v \in Uploads \ {u} : upload[v].step # "writing"
  BY <1>1 DEF BlobInv, OneUploads
<1>14. FillsTheTemp'
  BY <1>1, <1>2, <1>4, <1>8, <1>9, <1>13, FilesAssumption DEF FillsTheTemp, UploadAt
<1> QED
  BY <1>10, <1>11, <1>12, <1>14 DEF BlobInv

\* What is renamed is complete.
LEMMA RenameStep ==
  ASSUME BlobInv, NEW u \in Uploads, Rename(u)
  PROVE  BlobInv'
<1>1. /\ upload[u].step = "writing" /\ upload[u].written = Size /\ provider = "disk"
      /\ tmp \in Files /\ content[tmp] = WholeBlob
  BY Prefixes DEF Rename, UploadAt, BlobInv, FillsTheTemp, BlobTyped
<1>2. /\ Become(u, "stored") /\ blob' = tmp /\ tmp' = NoFile /\ UNCHANGED <<provider, content, fresh>>
  BY <1>1, FilesAssumption DEF Rename
<1>3. /\ upload' \in [Uploads -> [step : Step, file : Files \cup {NoFile}, written : 0..Size]]
      /\ upload'[u].step = "stored" /\ \A v \in Uploads \ {u} : upload'[v] = upload[v]
  BY <1>2, Moves DEF Step, BlobInv
<1>4. \A v \in Uploads \ {u} : upload[v].step # "writing"
  BY <1>1 DEF BlobInv, OneUploads
<1>5. BlobTyped' /\ Apart' /\ BlobIsWhole'
  BY <1>1, <1>2, <1>3, FilesAssumption DEF BlobInv, BlobTyped, Apart, BlobIsWhole, WholeBlob
<1>6. OneUploads' /\ FillsTheTemp'
  BY <1>2, <1>3, <1>4 DEF BlobInv, OneUploads, FillsTheTemp, UploadAt
<1> QED
  BY <1>5, <1>6 DEF BlobInv

\* S3 replaces the object by a whole one.
LEMMA PutObjectStep ==
  ASSUME BlobInv, NEW u \in Uploads, PutObject(u)
  PROVE  BlobInv'
<1>1. /\ provider = "s3" /\ NewFile \in fresh /\ fresh \subseteq Files
      /\ content' = [content EXCEPT ![NewFile] = WholeBlob]
      /\ blob' = NewFile /\ fresh' = fresh \ {NewFile} /\ Become(u, "stored")
      /\ UNCHANGED <<provider, tmp>>
  BY NewFileIsFresh DEF PutObject, BlobInv, BlobTyped
<1>2. /\ upload' \in [Uploads -> [step : Step, file : Files \cup {NoFile}, written : 0..Size]]
      /\ upload'[u].step = "stored" /\ \A v \in Uploads \ {u} : upload'[v] = upload[v]
  BY <1>1, Moves DEF Step, BlobInv
<1>3. content' = [g \in Files |-> content'[g]] /\ content'[NewFile] = WholeBlob
  BY <1>1 DEF BlobInv, BlobTyped
<1>4. OneUploads' /\ FillsTheTemp'
  BY <1>1, <1>2 DEF BlobInv, OneUploads, FillsTheTemp, UploadAt
<1>5. BlobTyped' /\ Apart'
  BY <1>1, <1>2, <1>3, FilesAssumption DEF BlobInv, BlobTyped, Apart
<1>6. BlobIsWhole'
  BY <1>1, <1>3 DEF BlobIsWhole, WholeBlob
<1> QED
  BY <1>4, <1>5, <1>6 DEF BlobInv

\* An upload ends, is tried again, or dies with the server.
LEMMA EndStep ==
  ASSUME BlobInv, NEW u \in Uploads, WriteFails(u) \/ PutObjectFails(u) \/ Retry(u)
  PROVE  BlobInv'
<1>1. CASE WriteFails(u) \/ PutObjectFails(u)
  BY <1>1, Moves, IdleStep DEF WriteFails, PutObjectFails, BlobInv, Step
<1>2. CASE Retry(u)
  <2>1. Waiting \in [step : Step, file : Files \cup {NoFile}, written : 0..Size] /\ Waiting.step = "waiting"
    BY SizeAssumption DEF Waiting, Step
  <2>2. upload' = [upload EXCEPT ![u] = Waiting] /\ UNCHANGED <<provider, content, blob, tmp, fresh>>
    BY <1>2 DEF Retry
  <2>3. /\ upload' \in [Uploads -> [step : Step, file : Files \cup {NoFile}, written : 0..Size]]
        /\ \A v \in Uploads : upload'[v] = upload[v] \/ upload'[v].step = "waiting"
    BY <2>1, <2>2 DEF BlobInv, BlobTyped
  <2> QED
    BY <2>2, <2>3, IdleStep
<1> QED
  BY <1>1, <1>2

\* A killed server leaves its files; what was under way has failed.
LEMMA KillStep ==
  ASSUME BlobInv, Kill
  PROVE  BlobInv'
<1> DEFINE dead == [Waiting EXCEPT !.step = "failed"]
<1>1. dead \in [step : Step, file : Files \cup {NoFile}, written : 0..Size] /\ dead.step = "failed"
  BY SizeAssumption DEF Waiting, Step
<1>2. /\ upload' = [u \in Uploads |-> IF UploadAt(u, "stored") THEN upload[u] ELSE dead]
      /\ UNCHANGED <<provider, content, blob, tmp, fresh>>
  BY DEF Kill
<1> HIDE DEF dead
<1>3. /\ upload' \in [Uploads -> [step : Step, file : Files \cup {NoFile}, written : 0..Size]]
      /\ \A v \in Uploads : upload'[v] = upload[v] \/ upload'[v].step = "failed"
  BY <1>1, <1>2 DEF BlobInv, BlobTyped
<1> QED
  BY <1>2, <1>3, IdleStep

\* A blob that is deleted leaves the file beside it as it is.
LEMMA DeleteStep ==
  ASSUME BlobInv, Delete
  PROVE  BlobInv'
BY FilesAssumption DEF Delete, BlobInv, BlobTyped, OneUploads, FillsTheTemp, Apart, BlobIsWhole, UploadAt

\* Every step keeps the invariant.
LEMMA InvStep ==
  ASSUME OneAtATime, BlobInv, [BlobNext]_blobVars
  PROVE  BlobInv'
<1>1. CASE UNCHANGED blobVars
  BY <1>1 DEF blobVars, BlobInv, BlobTyped, OneUploads, FillsTheTemp, Apart, BlobIsWhole, UploadAt, WholeBlob
<1> QED
  BY <1>1, LookStep, OpenStep, WriteStep, RenameStep, PutObjectStep, EndStep, DeleteStep, KillStep DEF BlobNext

-----------------------------------------------------------------------------
(* Theorems *)

\* Where publishes of a shared blob do not overlap, what the store holds under a blob's name is the
\* whole blob, whatever fails and whenever the server is killed (DiskBlobStore.put, S3BlobStore.put).
THEOREM BlobsAreWhole ==
  ASSUME OneAtATime
  PROVE  BlobSpec => []BlobIsWhole
<1>1. BlobInv /\ [BlobNext]_blobVars => BlobInv'
  BY InvStep
<1>2. BlobInv => BlobIsWhole
  BY DEF BlobInv
<1> QED
  BY <1>1, <1>2, InvInit, PTL DEF BlobSpec

\* What a file may hold.
Chunks == UNION {[1..n -> {"data", "zeros"}] : n \in 0..Size}

\* A file that a chunk is written to grows to no more than the blob's size.
LEMMA GrownFile ==
  ASSUME NEW s \in Chunks, NEW here \in Nat, here <= Size,
         NEW long, long = IF here > Len(s) THEN here ELSE Len(s)
  PROVE  [i \in 1..long |-> IF i = here THEN "data" ELSE IF i <= Len(s) THEN s[i] ELSE "zeros"] \in Chunks
<1>1. PICK n \in 0..Size : s \in [1..n -> {"data", "zeros"}]
  BY DEF Chunks
<1>2. n \in Nat /\ Size \in Nat
  BY SizeAssumption
<1>3. Len(s) = n
  BY <1>1, <1>2
<1>4. long \in 0..Size
  BY <1>2, <1>3
<1>5. \A i \in 1..n : s[i] \in {"data", "zeros"}
  BY <1>1
<1>6. [i \in 1..long |-> IF i = here THEN "data" ELSE IF i <= Len(s) THEN s[i] ELSE "zeros"]
        \in [1..long -> {"data", "zeros"}]
  BY <1>2, <1>3, <1>5
<1> QED
  BY <1>4, <1>6 DEF Chunks

\* Every variable of the blob stores keeps its type: whatever uploads overlap, no file grows beyond the
\* size of the blob.
THEOREM BlobTypesHold == BlobSpec => []BlobTypeOK
<1>1. BlobInit => BlobTypeOK
  <2> SUFFICES ASSUME BlobInit PROVE BlobTypeOK
    OBVIOUS
  <2>1. <<>> \in Chunks
    <3>1. <<>> \in [1..0 -> {"data", "zeros"}] /\ 0 \in 0..Size
      BY SizeAssumption
    <3> QED
      BY <3>1 DEF Chunks
  <2>2. Waiting \in [step : Step, file : Files \cup {NoFile}, written : 0..Size] /\ 0 \in 0..MaxStops
    BY SizeAssumption DEF Waiting, Step
  <2> QED
    BY <2>1, <2>2 DEF BlobInit, BlobTypeOK, Chunks
<1>2. BlobTypeOK /\ [BlobNext]_blobVars => BlobTypeOK'
  <2> SUFFICES ASSUME BlobTypeOK, [BlobNext]_blobVars PROVE BlobTypeOK'
    OBVIOUS
  <2> DEFINE UploadState == [step : Step, file : Files \cup {NoFile}, written : 0..Size]
  <2>0. /\ upload \in [Uploads -> UploadState] /\ content \in [Files -> Chunks] /\ Size \in Nat /\ MaxStops \in Nat
        /\ <<>> \in Chunks /\ WholeBlob \in Chunks
    <3>1. <<>> \in [1..0 -> {"data", "zeros"}] /\ 0 \in 0..Size /\ Size \in 0..Size
      BY SizeAssumption
    <3>2. WholeBlob \in [1..Size -> {"data", "zeros"}]
      BY DEF WholeBlob
    <3> QED
      BY <3>1, <3>2, SizeAssumption DEF Chunks, BlobTypeOK
  <2>t. ASSUME provider' \in BlobStores, content' \in [Files -> Chunks], blob' \in Files \cup {NoFile},
               tmp' \in Files \cup {NoFile}, fresh' \subseteq Files, upload' \in [Uploads -> UploadState],
               stops' \in 0..MaxStops
        PROVE  BlobTypeOK'
    BY <2>t DEF BlobTypeOK, Chunks
  <2>u. /\ provider \in BlobStores /\ blob \in Files \cup {NoFile} /\ tmp \in Files \cup {NoFile}
        /\ fresh \subseteq Files /\ stops \in 0..MaxStops
    BY DEF BlobTypeOK
  <2>s. \A u \in Uploads, step \in Step : Become(u, step) => upload' \in [Uploads -> UploadState]
    <3> SUFFICES ASSUME NEW u \in Uploads, NEW step \in Step, Become(u, step)
                 PROVE  upload' \in [Uploads -> UploadState]
      OBVIOUS
    <3>1. [upload[u] EXCEPT !.step = step] \in UploadState
      BY <2>0
    <3> QED
      BY <2>0, <3>1 DEF Become
  <2>1. ASSUME NEW u \in Uploads, Look(u) \/ WriteFails(u) \/ PutObjectFails(u) PROVE BlobTypeOK'
    <3>1. UNCHANGED <<provider, content, blob, tmp, fresh, stops>>
      BY <2>1 DEF Look, WriteFails, PutObjectFails
    <3>2. \E step \in Step : Become(u, step)
      BY <2>1 DEF Look, WriteFails, PutObjectFails, Step
    <3> QED
      BY <2>0, <2>s, <2>t, <2>u, <3>1, <3>2
  <2>2. ASSUME NEW u \in Uploads, OpenTemp(u) PROVE BlobTypeOK'
    <3>1. PICK f : /\ f = IF tmp = NoFile THEN NewFile ELSE tmp
                   /\ tmp = NoFile => fresh # {}
                   /\ content' = [content EXCEPT ![f] = <<>>]
                   /\ tmp' = f /\ fresh' = fresh \ {f}
                   /\ upload' = [upload EXCEPT ![u] = [step |-> "writing", file |-> f, written |-> 0]]
                   /\ UNCHANGED <<provider, blob, stops>>
      BY <2>2 DEF OpenTemp
    <3>2. f \in Files
      BY <2>u, <3>1, NewFileIsFresh
    <3>3. [step |-> "writing", file |-> f, written |-> 0] \in UploadState
      BY <2>0, <3>2 DEF Step
    <3> QED
      BY <2>0, <2>t, <2>u, <3>1, <3>2, <3>3
  <2>3. ASSUME NEW u \in Uploads, WriteChunk(u) PROVE BlobTypeOK'
    <3> DEFINE f == upload[u].file
               here == upload[u].written + 1
               long == IF here > Len(content[f]) THEN here ELSE Len(content[f])
               grown == [i \in 1..long |-> IF i = here THEN "data"
                                          ELSE IF i <= Len(content[f]) THEN content[f][i] ELSE "zeros"]
    <3>1. here \in Nat /\ here <= Size /\ f \in Files \cup {NoFile}
      BY <2>0, <2>3 DEF WriteChunk
    <3>2. upload' \in [Uploads -> UploadState]
      <4>1. [upload[u] EXCEPT !.written = here] \in UploadState
        BY <2>0, <3>1
      <4> QED
        BY <2>0, <2>3, <4>1 DEF WriteChunk
    <3>3. content' \in [Files -> Chunks]
      <4>1. content' = [content EXCEPT ![f] = grown]
        BY <2>0, <2>3, <3>1 DEF WriteChunk
      <4>2. CASE f \in Files
        <5>1. content[f] \in Chunks
          BY <2>0, <4>2
        <5>2. grown \in Chunks
          <6> HIDE DEF f
          <6> QED
            BY <3>1, <5>1, GrownFile
        <5> HIDE DEF grown, f
        <5> QED
          BY <2>0, <4>1, <5>2
      <4>3. CASE f = NoFile
        <5> HIDE DEF grown, f
        <5> QED
          BY <2>0, <4>1, <4>3, FilesAssumption
      <4> QED
        BY <3>1, <4>2, <4>3
    <3> QED
      BY <2>3, <2>t, <2>u, <3>2, <3>3 DEF WriteChunk
  <2>4. ASSUME NEW u \in Uploads, Rename(u) PROVE BlobTypeOK'
    BY <2>0, <2>4, <2>s, <2>t, <2>u DEF Rename, Step
  <2>5. ASSUME NEW u \in Uploads, PutObject(u) PROVE BlobTypeOK'
    <3>1. NewFile \in Files
      BY <2>5, <2>u, NewFileIsFresh DEF PutObject
    <3>2. upload' \in [Uploads -> UploadState]
      BY <2>5, <2>s DEF PutObject, Step
    <3> QED
      BY <2>0, <2>5, <2>t, <2>u, <3>1, <3>2 DEF PutObject
  <2>6. ASSUME NEW u \in Uploads, Retry(u) PROVE BlobTypeOK'
    <3>1. Waiting \in UploadState
      BY <2>0 DEF Waiting, Step
    <3> QED
      BY <2>0, <2>6, <2>t, <2>u, <3>1 DEF Retry
  <2>7. CASE Delete
    BY <2>0, <2>7, <2>t, <2>u DEF Delete
  <2>8. CASE Kill
    <3>1. [Waiting EXCEPT !.step = "failed"] \in UploadState
      BY <2>0 DEF Waiting, Step
    <3>2. upload' \in [Uploads -> UploadState]
      <4> DEFINE dead == [Waiting EXCEPT !.step = "failed"]
      <4>1. upload' = [u \in Uploads |-> IF UploadAt(u, "stored") THEN upload[u] ELSE dead]
        BY <2>8 DEF Kill
      <4>2. dead \in UploadState
        BY <3>1
      <4> HIDE DEF dead
      <4> QED
        BY <2>0, <4>1, <4>2
    <3>3. stops' \in 0..MaxStops
      BY <2>0, <2>8, <2>u DEF Kill
    <3> QED
      BY <2>0, <2>8, <2>t, <2>u, <3>2, <3>3 DEF Kill
  <2>9. CASE UNCHANGED blobVars
    BY <2>0, <2>9, <2>t, <2>u DEF blobVars
  <2> QED
    BY <2>1, <2>2, <2>3, <2>4, <2>5, <2>6, <2>7, <2>8, <2>9 DEF BlobNext
<1> QED
  BY <1>1, <1>2, PTL DEF BlobSpec

\* An object is replaced in one request (S3BlobStore.put): with S3 the blob is whole at every moment,
\* whatever uploads overlap and whatever is deleted or dies between them, without the order of uploads that
\* the disk needs.
THEOREM ObjectsAreWhole == BlobSpec => [](provider = "s3" => BlobIsWhole)
<1> DEFINE InOneRequest == provider = "s3" => /\ BlobIsWhole /\ tmp = NoFile /\ blob \notin fresh
                                              /\ \A u \in Uploads : ~UploadAt(u, "writing")
<1>1. BlobInit => InOneRequest
  BY FilesAssumption DEF BlobInit, BlobIsWhole, Waiting, UploadAt
<1>2. BlobTypeOK /\ InOneRequest /\ [BlobNext]_blobVars => InOneRequest'
  <2> SUFFICES ASSUME BlobTypeOK, InOneRequest, [BlobNext]_blobVars, provider' = "s3"
               PROVE  /\ BlobIsWhole' /\ tmp' = NoFile /\ blob' \notin fresh'
                      /\ \A u \in Uploads : ~UploadAt(u, "writing")'
    OBVIOUS
  <2>0. /\ provider = "s3" /\ BlobIsWhole /\ tmp = NoFile /\ blob \notin fresh
        /\ \A u \in Uploads : ~UploadAt(u, "writing")
    BY DEF BlobNext, blobVars, Look, OpenTemp, WriteChunk, Rename, WriteFails, PutObject, PutObjectFails,
           Retry, Delete, Kill
  <2>t. /\ DOMAIN upload = Uploads /\ DOMAIN content = Files /\ fresh \subseteq Files
        /\ blob \in Files \cup {NoFile} /\ WholeBlob' = WholeBlob
        /\ \A u \in Uploads : DOMAIN upload[u] = {"step", "file", "written"}
    BY DEF BlobTypeOK, WholeBlob
  <2>s. ASSUME NEW u \in Uploads, NEW step, step # "writing", Become(u, step)
        PROVE  \A v \in Uploads : ~UploadAt(v, "writing")'
    BY <2>0, <2>t, <2>s DEF Become, UploadAt
  <2>1. ASSUME NEW u \in Uploads, Look(u) \/ PutObjectFails(u)
        PROVE  /\ BlobIsWhole' /\ tmp' = NoFile /\ blob' \notin fresh'
               /\ \A v \in Uploads : ~UploadAt(v, "writing")'
    <3>1. UNCHANGED <<provider, content, blob, tmp, fresh, stops>>
      BY <2>1 DEF Look, PutObjectFails
    <3>2. \E step : step # "writing" /\ Become(u, step)
      BY <2>1 DEF Look, PutObjectFails
    <3> QED
      BY <2>0, <2>s, <2>t, <3>1, <3>2 DEF BlobIsWhole
  <2>2. ASSUME NEW u \in Uploads PROVE ~OpenTemp(u) /\ ~WriteChunk(u) /\ ~Rename(u) /\ ~WriteFails(u)
    BY <2>0 DEF OpenTemp, WriteChunk, Rename, WriteFails
  <2>3. ASSUME NEW u \in Uploads, PutObject(u)
        PROVE  /\ BlobIsWhole' /\ tmp' = NoFile /\ blob' \notin fresh'
               /\ \A v \in Uploads : ~UploadAt(v, "writing")'
    <3>1. NewFile \in Files
      BY <2>3, <2>t, NewFileIsFresh DEF PutObject
    <3>2. content'[NewFile] = WholeBlob /\ blob' = NewFile /\ fresh' = fresh \ {NewFile} /\ tmp' = tmp
      BY <2>3, <2>t, <3>1 DEF PutObject
    <3>3. \A v \in Uploads : ~UploadAt(v, "writing")'
      BY <2>3, <2>s DEF PutObject
    <3> QED
      BY <2>0, <2>t, <3>2, <3>3 DEF BlobIsWhole
  <2>4. ASSUME NEW u \in Uploads, Retry(u)
        PROVE  /\ BlobIsWhole' /\ tmp' = NoFile /\ blob' \notin fresh'
               /\ \A v \in Uploads : ~UploadAt(v, "writing")'
    BY <2>0, <2>t, <2>4 DEF Retry, Waiting, UploadAt, BlobIsWhole
  <2>5. CASE Delete
    BY <2>0, <2>t, <2>5, FilesAssumption DEF Delete, BlobIsWhole, UploadAt
  <2>6. CASE Kill
    <3>1. \A v \in Uploads : ~UploadAt(v, "writing")'
      BY <2>0, <2>t, <2>6 DEF Kill, UploadAt, Waiting
    <3> QED
      BY <2>0, <2>t, <2>6, <3>1 DEF Kill, BlobIsWhole
  <2>7. CASE UNCHANGED blobVars
    BY <2>0, <2>t, <2>7 DEF blobVars, BlobIsWhole, UploadAt
  <2> QED
    BY <2>1, <2>2, <2>3, <2>4, <2>5, <2>6, <2>7 DEF BlobNext
<1>4. BlobSpec => []BlobTypeOK
  BY BlobTypesHold
<1>5. BlobSpec => []InOneRequest
  <2> HIDE DEF InOneRequest
  <2> QED
    BY <1>1, <1>2, <1>4, PTL DEF BlobSpec
<1>6. InOneRequest => (provider = "s3" => BlobIsWhole)
  OBVIOUS
<1> QED
  BY <1>5, <1>6, PTL

-----------------------------------------------------------------------------
(* The caches give once, whatever the lengths of time, the budget of a window and the numbers *)
(* of restarts and of lost answers: the map of one process and Redis alike.                   *)

Times == Nat \cup {Never}

\* The types the promises are told in.
CacheTypes ==
  /\ clock \in Nat /\ nonce \in Times /\ token \in Times
  /\ window \in [count : Nat, until : Nat]
  /\ accepted \in Times /\ minted \in Times /\ redeemed \in BOOLEAN
  /\ opened \in Times /\ allowed \in Nat

\* A nonce that was accepted is remembered until its time is up.
NonceRemembered ==
  accepted # Never => clock >= accepted + Ttl \/ (nonce # Never /\ nonce >= accepted + Ttl)

\* A token is there because it was minted, and is gone when it was given out.
TokenGivenOnce ==
  /\ token # Never \/ redeemed => minted # Never
  /\ redeemed => token = Never

\* A window that is there ends Ttl after the request that opened it; until then it is there, it has
\* allowed its first request, and it counted every request it allowed.
WindowCounts ==
  /\ window.count > 0 => opened # Never /\ window.until = opened + Ttl
  /\ opened # Never /\ clock < opened + Ttl => window.count > 0 /\ allowed >= 1 /\ allowed <= window.count
  /\ allowed <= MaxRate

CacheInv == CacheTypes /\ NonceRemembered /\ TokenGivenOnce /\ WindowCounts

\* What a step may do to what was promised (OnceWithinItsTime).
OncePromised ==
  /\ accepted' # accepted /\ accepted # Never /\ accepted' # Never => accepted' >= accepted + Ttl
  /\ redeemed => ~Peeks'
  /\ allowed' <= MaxRate /\ (opened' # Never /\ clock' < opened' + Ttl => allowed' >= 1)

-----------------------------------------------------------------------------

\* The caches begin empty.
LEMMA CachesBegin == CaInit => CacheInv
<1> SUFFICES ASSUME CaInit PROVE CacheInv
  OBVIOUS
<1> USE CacheAssumption DEF Never, Times, NoWindow
<1>1. CacheTypes
  BY DEF CaInit, CacheTypes
<1>2. NonceRemembered /\ TokenGivenOnce
  BY DEF CaInit, NonceRemembered, TokenGivenOnce
<1>3. WindowCounts
  BY DEF CaInit, WindowCounts
<1> QED
  BY <1>1, <1>2, <1>3 DEF CacheInv

\* registerNonce finds nothing only when the time of the nonce it accepted is up.
LEMMA RegisterKeeps == CacheInv /\ RegisterNonce => CacheInv' /\ OncePromised
<1> SUFFICES ASSUME CacheInv, RegisterNonce PROVE CacheInv' /\ OncePromised
  OBVIOUS
<1> USE CacheAssumption DEF Never, Times
<1> DEFINE found == IF backing = "memory" THEN Swept(nonce) ELSE nonce
<1>1. /\ found = nonce \/ (found = Never /\ nonce < clock)
      /\ token' = token \/ token' = Never
      /\ window' = window \/ (window' = NoWindow /\ window.until <= clock)
  BY DEF RegisterNonce, Swept, SweptWindow, CacheInv, CacheTypes
<1>2. /\ nonce' = IF found = Never THEN clock + Ttl ELSE found
      /\ accepted' = accepted \/ (found = Never /\ accepted' = clock)
      /\ UNCHANGED <<clock, minted, redeemed, opened, allowed>>
  BY DEF RegisterNonce
<1> HIDE DEF found
<1>3. CacheTypes'
  BY <1>1, <1>2 DEF CacheInv, CacheTypes, NoWindow
<1>4. NonceRemembered' /\ (accepted' # accepted /\ accepted # Never => accepted' >= accepted + Ttl)
  BY <1>1, <1>2 DEF CacheInv, CacheTypes, NonceRemembered
<1>5. TokenGivenOnce' /\ (redeemed => ~Peeks')
  BY <1>1, <1>2 DEF CacheInv, CacheTypes, TokenGivenOnce, Peeks, Swept
<1>6. WindowCounts'
  BY <1>1, <1>2 DEF CacheInv, CacheTypes, WindowCounts, NoWindow
<1> QED
  BY <1>3, <1>4, <1>5, <1>6 DEF CacheInv, OncePromised, WindowCounts

\* A token is minted under a name no token had.
LEMMA PutKeeps == CacheInv /\ PutToken => CacheInv' /\ OncePromised
BY CacheAssumption
DEF PutToken, CacheInv, CacheTypes, NonceRemembered, TokenGivenOnce, WindowCounts, OncePromised, Peeks, Swept,
    Times, Never

\* A peek sweeps, and what is swept has run out.
LEMMA PeekKeeps == CacheInv /\ PeekToken => CacheInv' /\ OncePromised
<1> SUFFICES ASSUME CacheInv, PeekToken PROVE CacheInv' /\ OncePromised
  OBVIOUS
<1> USE CacheAssumption DEF Never, Times
<1>1. /\ nonce' = nonce \/ (nonce' = Never /\ nonce < clock)
      /\ token' = token \/ token' = Never
      /\ window' = window \/ (window' = NoWindow /\ window.until <= clock)
      /\ UNCHANGED <<clock, accepted, minted, redeemed, opened, allowed>>
  BY DEF PeekToken, Swept, SweptWindow, CacheInv, CacheTypes
<1>2. CacheTypes' /\ NonceRemembered'
  BY <1>1 DEF CacheInv, CacheTypes, NonceRemembered, NoWindow
<1>3. TokenGivenOnce' /\ (redeemed => ~Peeks')
  BY <1>1 DEF CacheInv, CacheTypes, TokenGivenOnce, Peeks, Swept
<1>4. WindowCounts'
  BY <1>1 DEF CacheInv, CacheTypes, WindowCounts, NoWindow
<1> QED
  BY <1>1, <1>2, <1>3, <1>4 DEF CacheInv, OncePromised, WindowCounts

\* A token is taken out before anybody is answered.
LEMMA ConsumeKeeps == CacheInv /\ ConsumeToken => CacheInv' /\ OncePromised
<1> SUFFICES ASSUME CacheInv, ConsumeToken PROVE CacheInv' /\ OncePromised
  OBVIOUS
<1> USE CacheAssumption DEF Never, Times
<1>1. /\ token # Never /\ token' = Never
      /\ UNCHANGED <<clock, nonce, window, accepted, minted, opened, allowed>>
  BY DEF ConsumeToken
<1>2. redeemed' \in BOOLEAN
  <2>1. \/ redeemed' = (IF backing = "memory" THEN token >= clock ELSE TRUE)
        \/ redeemed' = redeemed
    BY DEF ConsumeToken
  <2>2. (token >= clock) \in BOOLEAN /\ redeemed \in BOOLEAN
    BY DEF CacheInv, CacheTypes
  <2> QED
    BY <2>1, <2>2
<1>3. CacheTypes' /\ NonceRemembered' /\ WindowCounts'
  BY <1>1, <1>2 DEF CacheInv, CacheTypes, NonceRemembered, WindowCounts
<1>4. TokenGivenOnce' /\ ~Peeks'
  BY <1>1 DEF CacheInv, TokenGivenOnce, Peeks, Swept
<1> QED
  BY <1>1, <1>3, <1>4 DEF CacheInv, OncePromised, WindowCounts

\* A request opens a window exactly when the one before is over, and is allowed only if the window's
\* count is within the budget.
LEMMA RateKeeps == CacheInv /\ RateLimit => CacheInv' /\ OncePromised
<1> SUFFICES ASSUME CacheInv, RateLimit PROVE CacheInv' /\ OncePromised
  OBVIOUS
<1> USE CacheAssumption DEF Never, Times
<1>1. /\ UNCHANGED <<backing, clock, nonce, token, accepted, minted, redeemed>>
      /\ window' = [count |-> SweptWindow.count + 1,
                    until |-> IF SweptWindow.count = 0 THEN clock + Ttl ELSE window.until]
      /\ Sees(window'.count)
  BY DEF RateLimit
<1>2. NonceRemembered' /\ TokenGivenOnce' /\ (redeemed => ~Peeks')
  BY <1>1 DEF CacheInv, CacheTypes, NonceRemembered, TokenGivenOnce, Peeks, Swept
<1>3. CASE window.count > 0 /\ clock < window.until
  <2>1. opened # Never /\ window.until = opened + Ttl /\ allowed <= window.count /\ allowed >= 1
    BY <1>3 DEF CacheInv, CacheTypes, WindowCounts
  <2>2. window'.count = window.count + 1 /\ window'.until = window.until
        /\ window' \in [count : Nat, until : Nat]
    BY <1>1, <1>3 DEF SweptWindow, CacheInv, CacheTypes
  <2>3. opened' = opened /\ allowed' = IF window'.count <= MaxRate THEN allowed + 1 ELSE allowed
    BY <1>1, <1>3, <2>1 DEF Sees, CacheInv, CacheTypes
  <2>4. CacheTypes' /\ WindowCounts'
    BY <1>1, <2>1, <2>2, <2>3 DEF CacheInv, CacheTypes, WindowCounts
  <2> QED
    BY <1>1, <1>2, <2>4 DEF CacheInv, OncePromised, WindowCounts
<1>4. CASE ~(window.count > 0 /\ clock < window.until)
  <2>1. opened = Never \/ clock >= opened + Ttl
    BY <1>4 DEF CacheInv, CacheTypes, WindowCounts
  <2>2. window'.count = 1 /\ window'.until = clock + Ttl /\ window' \in [count : Nat, until : Nat]
    BY <1>1, <1>4 DEF SweptWindow, NoWindow, CacheInv, CacheTypes
  <2>3. opened' = clock /\ allowed' = 1
    BY <1>1, <2>1, <2>2 DEF Sees, CacheInv, CacheTypes
  <2>4. CacheTypes' /\ WindowCounts'
    BY <1>1, <2>2, <2>3 DEF CacheInv, CacheTypes, WindowCounts
  <2> QED
    BY <1>1, <1>2, <2>4 DEF CacheInv, OncePromised, WindowCounts
<1> QED
  BY <1>3, <1>4

\* When Redis drops a key, its time is up.
LEMMA PassingKeeps == CacheInv /\ Passes => CacheInv' /\ OncePromised
<1> SUFFICES ASSUME CacheInv, Passes PROVE CacheInv' /\ OncePromised
  OBVIOUS
<1> USE CacheAssumption DEF Never, Times
<1>1. /\ clock' = clock + 1
      /\ nonce' = nonce \/ (nonce' = Never /\ nonce = clock + 1)
      /\ token' = token \/ token' = Never
      /\ window' = window \/ (window' = NoWindow /\ window.until = clock + 1)
      /\ UNCHANGED <<accepted, minted, redeemed, opened, allowed>>
  BY DEF Passes
<1>2. CacheTypes' /\ NonceRemembered'
  BY <1>1 DEF CacheInv, CacheTypes, NonceRemembered, NoWindow
<1>3. TokenGivenOnce' /\ (redeemed => ~Peeks')
  BY <1>1 DEF CacheInv, CacheTypes, TokenGivenOnce, Peeks, Swept
<1>4. WindowCounts'
  BY <1>1 DEF CacheInv, CacheTypes, WindowCounts, NoWindow
<1> QED
  BY <1>1, <1>2, <1>3, <1>4 DEF CacheInv, OncePromised, WindowCounts

\* A process that ends takes its maps, and its promises, with it; a token is lost, not given again.
LEMMA RestartKeeps == CacheInv /\ Restarts => CacheInv' /\ OncePromised
BY CacheAssumption
DEF Restarts, CacheInv, CacheTypes, NonceRemembered, TokenGivenOnce, WindowCounts, OncePromised, Peeks, Swept,
    NoWindow, Times, Never

-----------------------------------------------------------------------------

\* One step of the caches.
LEMMA CacheStep == CacheInv /\ CaNext => CacheInv' /\ OncePromised
BY RegisterKeeps, PutKeeps, PeekKeeps, ConsumeKeeps, RateKeeps, PassingKeeps, RestartKeeps DEF CaNext

\* The inductive invariant: what was promised is remembered for as long as it holds.
THEOREM CachesInvariant == CaSpec => []CacheInv
<1>1. CacheInv /\ UNCHANGED caVars => CacheInv'
  BY DEF caVars, CacheInv, CacheTypes, NonceRemembered, TokenGivenOnce, WindowCounts
<1> QED
  BY <1>1, CachesBegin, CacheStep, PTL DEF CaSpec

\* A nonce is fresh again only when its time is up, a token is given out once, and a window allows its
\* budget and no more, with the map of one process and with Redis, though answers are lost and
\* processes end (providers.ts:346-379, redis-cache.ts:43-99).
THEOREM GivesOnce == CaSpec => OnceWithinItsTime
<1>1. CacheInv /\ [CaNext]_caVars => [OncePromised]_caVars
  BY CacheStep
<1> QED
  BY <1>1, CachesInvariant, PTL DEF CaSpec, OnceWithinItsTime, OncePromised

\* The bounds of the model are kept.
CacheBounded ==
  /\ backing \in {"memory", "redis"} /\ clock \in 0..MaxTime
  /\ window.count \in 0..MaxHits
  /\ lost \in 0..MaxLost /\ lives \in 0..MaxLives

\* Every step keeps them.
LEMMA CacheBoundsStep == CacheInv /\ CacheBounded /\ [CaNext]_caVars => CacheBounded'
<1> SUFFICES ASSUME CacheInv, CacheBounded, [CaNext]_caVars PROVE CacheBounded'
  OBVIOUS
<1> USE CacheAssumption DEF CacheBounded
<1>1. CASE RegisterNonce
  BY <1>1 DEF RegisterNonce, Loses, SweptWindow, NoWindow
<1>2. CASE PutToken
  BY <1>2 DEF PutToken
<1>3. CASE PeekToken
  BY <1>3 DEF PeekToken, SweptWindow, NoWindow
<1>4. CASE ConsumeToken
  <2>1. /\ UNCHANGED <<backing, clock, window, lives>>
        /\ UNCHANGED lost \/ Loses
    BY <1>4, Zenon DEF ConsumeToken
  <2> QED
    BY <2>1 DEF Loses
<1>5. CASE RateLimit
  BY <1>5 DEF RateLimit, Loses, SweptWindow, NoWindow
<1>6. CASE Passes
  BY <1>6 DEF Passes, NoWindow
<1>7. CASE Restarts
  BY <1>7 DEF Restarts, NoWindow
<1>8. CASE UNCHANGED caVars
  BY <1>8 DEF caVars
<1> QED
  BY <1>1, <1>2, <1>3, <1>4, <1>5, <1>6, <1>7, <1>8 DEF CaNext

\* Every variable of the caches keeps its type.
THEOREM CacheTypesHold == CaSpec => []CaTypeOK
<1>1. CaInit => CacheBounded
  BY CacheAssumption DEF CaInit, CacheBounded, NoWindow
<1>2. CacheInv /\ CacheBounded => CaTypeOK
  BY DEF CacheInv, CacheTypes, CacheBounded, CaTypeOK, Times, Never
<1> QED
  BY <1>1, <1>2, CachesInvariant, CacheBoundsStep, PTL DEF CaSpec

-----------------------------------------------------------------------------
(* The HTTP layer: a body is bounded and read, for every limit, every length of a body and any *)
(* number of requests on the connection.                                                        *)

\* What was read in front of the router, and what is empty, leaves nothing to read; and a handler
\* runs when the body is in.
NothingLeft ==
  /\ stage # "idle" => request \in Requests
  /\ request # None /\ (request.consumed \/ request.length = 0) => BodyDone
  /\ stage = "handling" => BodyDone

HttpInv ==
  /\ left \in Nat /\ arrived \in Nat /\ kept \in Nat
  /\ request \in Requests \cup {None}
  /\ NothingLeft
  /\ BodiesStayWithinBounds

\* A step that leaves the request, what is left of its body and what is kept of it, and answers
\* nothing.
LEMMA HttpKept ==
  ASSUME HttpInv, UNCHANGED <<request, left, arrived, kept>>,
         stage' # "answered", stage' = "handling" => BodyDone,
         stage' # "idle" => stage # "idle"
  PROVE  HttpInv'
BY DEF HttpInv, NothingLeft, BodiesStayWithinBounds, BufferIsBounded, TooLargeIsHeard, KeptConnectionIsRead,
       BodyDone

\* An answer when the body is in, or one that closes the connection and is no 413.
LEMMA HttpAnswers ==
  ASSUME HttpInv, UNCHANGED <<request, left, arrived, kept>>, stage # "idle",
         stage' = "answered", BodyDone \/ (closing' /\ answer' # 413)
  PROVE  HttpInv'
BY DEF HttpInv, NothingLeft, BodiesStayWithinBounds, BufferIsBounded, TooLargeIsHeard, KeptConnectionIsRead,
       BodyDone

\* A chunk that is read, by whoever does not keep it.
LEMMA HttpReads ==
  ASSUME HttpInv, UNCHANGED <<request, stage, kept>>, arrived > 0, arrived' = arrived - 1, left' = left,
         stage \notin {"handling", "idle", "answered"}
  PROVE  HttpInv'
BY DEF HttpInv, NothingLeft, BodiesStayWithinBounds, BufferIsBounded, TooLargeIsHeard, KeptConnectionIsRead,
       BodyDone

\* Every step keeps it: a body that is too long is read to its end before it is answered, or the
\* answer closes the connection.
LEMMA HttpStep == HttpInv /\ [Next]_vars => HttpInv'
<1> SUFFICES ASSUME HttpInv, [Next]_vars PROVE HttpInv'
  OBVIOUS
<1> USE LimitAssumption, RequestAssumption
<1>0. request # None /\ (request.consumed \/ request.length = 0) => BodyDone
  BY DEF HttpInv, NothingLeft
<1>1. ASSUME NEW r \in Requests, Ask(r) PROVE HttpInv'
  <2>1. /\ request' = r /\ stage' = "routing" /\ arrived' = 0 /\ kept' = 0
        /\ left' = IF r.consumed THEN 0 ELSE r.length
    BY <1>1 DEF Ask
  <2>2. r # None /\ r.length \in Nat /\ left' \in Nat
    BY <2>1 DEF Requests
  <2>3. r.consumed \/ r.length = 0 => BodyDone'
    BY <2>1 DEF BodyDone
  <2> QED
    BY <2>1, <2>2, <2>3
       DEF HttpInv, NothingLeft, BodiesStayWithinBounds, BufferIsBounded, TooLargeIsHeard,
           KeptConnectionIsRead
<1>2. CASE Send
  <2>1. /\ left > 0 /\ left' = left - 1 /\ arrived' = arrived + 1
        /\ UNCHANGED <<request, stage, answer, closing, kept>>
    BY <1>2 DEF Send
  <2>2. ~BodyDone
    BY <2>1 DEF BodyDone
  <2> QED
    BY <2>1, <2>2
       DEF HttpInv, NothingLeft, BodiesStayWithinBounds, BufferIsBounded, TooLargeIsHeard,
           KeptConnectionIsRead
<1>3. CASE Disconnect
  <2>1. /\ UNCHANGED <<request, left, arrived, kept>>
        /\ stage' \in {"looking", "idle"} /\ stage # "idle"
    BY <1>3 DEF Disconnect, body
  <2> QED
    BY <2>1, HttpKept
<1>4. CASE Finish
  BY <1>4, HttpKept DEF Finish, body
<1>5. CASE AnswerUnread
  <2>1. request \in Requests /\ UNCHANGED <<request, left, arrived, kept>> /\ stage = "routing"
    BY <1>5 DEF AnswerUnread, HttpInv, NothingLeft
  <2>2. CASE request.length = 0 /\ AnswerNow(404, FALSE)
    BY <1>0, <2>1, <2>2, HttpAnswers DEF AnswerNow
  <2>3. CASE stage' = "discarding"
    BY <2>1, <2>3, HttpKept
  <2>4. CASE AnswerNow(404, TRUE)
    BY <2>1, <2>4, HttpAnswers DEF AnswerNow
  <2> QED
    BY <1>5, <2>2, <2>3, <2>4 DEF AnswerUnread
<1>6. CASE TakeConsumed
  <2>1. /\ request \in Requests /\ request.consumed /\ stage = "routing"
        /\ UNCHANGED <<request, left, arrived, kept>>
        /\ stage' \in {"answered", "handling"}
    BY <1>6 DEF TakeConsumed, AnswerNow, body, HttpInv, NothingLeft
  <2>2. BodyDone
    BY <1>0, <2>1
  <2> QED
    BY <2>1, <2>2, HttpAnswers, HttpKept
<1>7. CASE ReadBody
  BY <1>7, HttpKept DEF ReadBody
<1>8. CASE BufferChunk
  <2>1. /\ UNCHANGED <<request, stage, left>> /\ arrived > 0 /\ arrived' = arrived - 1
        /\ stage = "reading"
    BY <1>8 DEF BufferChunk
  <2>2. kept' \in Nat /\ kept' <= IF request.admin THEN AdminLimit ELSE DefaultLimit
    <3>1. request # None /\ kept \in Nat /\ Limit \in Nat /\ kept <= Limit
      BY <2>1 DEF Limit, HttpInv, NothingLeft, BodiesStayWithinBounds, BufferIsBounded
    <3>2. kept' = kept \/ kept' = 0 \/ (~(kept + 1 > Limit) /\ kept' = kept + 1)
      <4>1. \/ kept' = kept
            \/ (over' <=> kept + 1 > Limit) /\ kept' = IF over' THEN 0 ELSE kept + 1
        BY <1>8, Zenon DEF BufferChunk
      <4> QED
        BY <4>1, Zenon
    <3>3. kept' \in Nat /\ kept' <= Limit
      BY <3>1, <3>2
    <3> QED
      BY <3>3 DEF Limit
  <2>3. request # None
    BY <2>1 DEF HttpInv, NothingLeft
  <2> QED
    BY <2>1, <2>2, <2>3
       DEF HttpInv, NothingLeft, BodiesStayWithinBounds, BufferIsBounded, TooLargeIsHeard,
           KeptConnectionIsRead, BodyDone
<1>9. CASE BodyEnds
  BY <1>9, HttpAnswers, HttpKept DEF BodyEnds, AnswerNow, body
<1>10. CASE Handle
  BY <1>10, HttpAnswers DEF Handle, AnswerNow, body, HttpInv, NothingLeft
<1>11. CASE Upload \/ Spared \/ Spool
  <2>1. /\ UNCHANGED <<request, left, arrived, kept>> /\ stage # "idle"
        /\ stage' \in {"draining", "looking", "spooling"}
    BY <1>11 DEF Upload, Spared, Spool, Drain
  <2> QED
    BY <2>1, HttpKept
<1>12. CASE SpoolChunk \/ DiscardChunk
  BY <1>12, HttpReads DEF SpoolChunk, DiscardChunk
<1>13. CASE Drained
  BY <1>13, HttpKept DEF Drained
<1>14. CASE SpoolEnds \/ DiscardEnds
  <2>1. /\ UNCHANGED <<request, left, arrived, kept>> /\ stage # "idle"
        /\ stage' = "answered" /\ BodyDone
    BY <1>14 DEF SpoolEnds, DiscardEnds, AnswerNow, body
  <2> QED
    BY <2>1, HttpAnswers
<1>15. CASE UNCHANGED vars
  BY <1>15
     DEF vars, body, HttpInv, NothingLeft, BodiesStayWithinBounds, BufferIsBounded, TooLargeIsHeard,
         KeptConnectionIsRead, BodyDone
<1> QED
  BY <1>1, <1>2, <1>3, <1>4, <1>5, <1>6, <1>7, <1>8, <1>9, <1>10, <1>11, <1>12, <1>13, <1>14, <1>15
     DEF Next, Server

\* A caller without the admin token never has more than the default cap buffered, a 413 goes out
\* when the client has nothing left to upload, and a connection that is kept holds no unread body
\* (readBody, payloadTooLarge, answerUnread, drain).
THEOREM BodiesAreBounded == Spec => []BodiesStayWithinBounds
<1>1. Init => HttpInv
  BY LimitAssumption
     DEF Init, HttpInv, NothingLeft, BodiesStayWithinBounds, BufferIsBounded, TooLargeIsHeard,
         KeptConnectionIsRead
<1>2. HttpInv => BodiesStayWithinBounds
  BY DEF HttpInv
<1> QED
  BY <1>1, <1>2, HttpStep, PTL DEF Spec

\* What was read of a body, what waits to be read and what is still to be sent are parts of that body.
BodyIsShared == kept + left + arrived <= MaxLength /\ written + left + arrived <= MaxLength

\* Every variable of a connection keeps its type: nothing is counted that the client did not send, at
\* whatever point a body is refused, discarded or cut off.
THEOREM HttpTypesHold == Spec => []TypeOK
<1> USE LimitAssumption, RequestAssumption
<1>1. Init => TypeOK /\ BodyIsShared
  <2>1. Init => {open, over, temp, closing} \subseteq BOOLEAN
    BY Zenon DEF Init
  <2> QED
    BY <2>1 DEF Init, TypeOK, BodyIsShared
<1>2. TypeOK /\ BodyIsShared /\ [Next]_vars => TypeOK' /\ BodyIsShared'
  <2> SUFFICES ASSUME TypeOK, BodyIsShared, [Next]_vars PROVE TypeOK' /\ BodyIsShared'
    OBVIOUS
  <2> DEFINE Booleans == {open, over, temp, closing} \subseteq BOOLEAN
             Outcomes == {verdict, answer} \subseteq Statuses \cup {None}
             Counts == /\ {left, written, kept} \subseteq 0..MaxLength
                       /\ arrived \in 0..Window /\ asked \in 0..MaxRequests
                       /\ BodyIsShared
             Stages == /\ stage \in {"idle", "routing", "reading", "handling", "looking", "spooling", "draining",
                                     "discarding", "answered"}
                       /\ request \in Requests \cup {None} /\ (stage # "idle" => request # None)
                       /\ flow \in {"unread", "flowing", "paused"}
  <2>0. Booleans /\ Outcomes /\ Counts /\ Stages
    BY DEF TypeOK
  <2>q. Booleans' /\ Outcomes' /\ Counts' /\ Stages' => TypeOK' /\ BodyIsShared'
    BY DEF TypeOK
  <2>b. Booleans'
    <3>1. open' \in BOOLEAN /\ temp' \in BOOLEAN
      BY <2>0, Zenon DEF Next, Server, vars, body, Ask, Send, Disconnect, Finish, AnswerUnread, TakeConsumed,
         ReadBody, BufferChunk, BodyEnds, Handle, Upload, Spared, Spool, SpoolChunk, Drained, SpoolEnds,
         DiscardChunk, DiscardEnds
    <3>2. closing' \in BOOLEAN
      <4>1. UNCHANGED closing \/ closing' = TRUE \/ closing' = FALSE \/ closing' = (verdict = 413)
        BY Zenon DEF Next, Server, vars, Ask, Send, Disconnect, Finish, AnswerUnread, AnswerNow, TakeConsumed,
           ReadBody, BufferChunk, BodyEnds, Handle, Upload, Spared, Spool, SpoolChunk, Drained, SpoolEnds,
           DiscardChunk, DiscardEnds
      <4>2. (verdict = 413) \in BOOLEAN
        OBVIOUS
      <4> QED
        BY <2>0, <4>1, <4>2, Zenon
    <3>3. over' \in BOOLEAN
      <4>1. \/ UNCHANGED over \/ over' = FALSE \/ over' = (request.sized /\ request.length > Limit)
            \/ over' = (kept + 1 > Limit) \/ over' = (written + 1 > BlobLimit)
        BY Zenon DEF Next, Server, vars, Ask, Send, Disconnect, Finish, AnswerUnread, TakeConsumed,
           ReadBody, BufferChunk, BodyEnds, Handle, Upload, Spared, Spool, SpoolChunk, Drained, SpoolEnds,
           DiscardChunk, DiscardEnds
      <4>2. /\ (request.sized /\ request.length > Limit) \in BOOLEAN
            /\ (kept + 1 > Limit) \in BOOLEAN /\ (written + 1 > BlobLimit) \in BOOLEAN
        OBVIOUS
      <4> QED
        BY <2>0, <4>1, <4>2, Zenon
    <3> QED
      BY <3>1, <3>2, <3>3, Zenon
  <2>a. Outcomes'
    BY <2>0 DEF Next, Server, vars, body, Ask, Send, Disconnect, Finish, AnswerUnread, AnswerNow, TakeConsumed,
       ReadBody, BufferChunk, BodyEnds, Handle, Upload, Spared, Spool, SpoolChunk, Drained, SpoolEnds,
       DiscardChunk, DiscardEnds, Drain, Statuses
  <2>s. Stages'
    BY <2>0 DEF Next, Server, vars, body, Ask, Send, Disconnect, Finish, AnswerUnread, AnswerNow, TakeConsumed,
       ReadBody, BufferChunk, BodyEnds, Handle, Upload, Spared, Spool, SpoolChunk, Drained, SpoolEnds,
       DiscardChunk, DiscardEnds, Drain
  <2>c. Counts'
    <3>1. ASSUME NEW r \in Requests, Ask(r) PROVE Counts'
      BY <2>0, <3>1 DEF Ask, Requests, BodyIsShared
    <3>2. CASE Send
      BY <2>0, <3>2 DEF Send, BodyIsShared
    <3>3. CASE BufferChunk
      BY <2>0, <3>3 DEF BufferChunk, BodyIsShared
    <3>4. CASE SpoolChunk \/ DiscardChunk
      BY <2>0, <3>4 DEF SpoolChunk, DiscardChunk, BodyIsShared
    <3>5. CASE UNCHANGED <<left, arrived, kept, written, asked>>
      BY <2>0, <3>5 DEF BodyIsShared
    <3> QED
      BY <3>1, <3>2, <3>3, <3>4, <3>5 DEF Next, Server, vars, body, Disconnect, Finish, AnswerUnread, TakeConsumed,
         ReadBody, BodyEnds, Handle, Upload, Spared, Spool, Drained, SpoolEnds, DiscardEnds
  <2> QED
    BY <2>q, <2>a, <2>b, <2>c, <2>s
<1> QED
  BY <1>1, <1>2, PTL DEF Spec

-----------------------------------------------------------------------------
(* The configuration and the gates, for every environment, every option and any number of *)
(* backends in a process and of requests.                                                  *)

Gates == {"requireRequestSignature", "requireEnrollAuth"}

\* What an entry's gate says is what its host gave it, or else what the environment says.
GateAsGiven(entry, gate) ==
  entry.config[gate] = IF gate \in DOMAIN entry.options /\ entry.options[gate] # Undefined
                         THEN entry.options[gate] ELSE env[gate] # "false"

\* An entry is mounted by the running process, under a number, with a store of the same number.
EntriesStand ==
  \A e \in entries :
    /\ e.options \in OptionSets \cup {<<>>}
    /\ \A gate \in Gates : GateAsGiven(e, gate)
    /\ e.backend \in 1..MaxBackends /\ e.store \in 1..MaxStores
    /\ \A f \in entries : e.backend = f.backend => e.store = f.store

\* Backends and stores are numbered from one, without gaps.
Numbered == \E k \in Nat :
  {entry.backend : entry \in entries} = 1..k /\ {entry.store : entry \in entries} = 1..k

\* What a backend accepted, its cache remembers.
NoncesSpent ==
  /\ seen = [c \in Cache |-> seen[c]] /\ DOMAIN taken = Nonces
  /\ \A n \in Nonces : taken[n] \in [1..MaxBackends -> {0, 1}]
  /\ \A n \in Nonces, b \in 1..MaxBackends : taken[n][b] # 0 =>
       /\ \E e \in entries : e.backend = b
       /\ \A e \in entries : e.backend = b => n \in seen[CacheOf(e.store)]

\* Only a running process has entries and has answered.
Running == entries # {} \/ reply # NoAnswer => env # Undefined

GateInv == EntriesStand /\ Numbered /\ NoncesSpent /\ Running /\ GatesOpenOnPurpose

\* The number after 1 to k is k + 1.
LEMMA NextNumber ==
  ASSUME NEW k \in Nat
  PROVE  Cardinality(1..k) = k /\ 1..(k + 1) = (1..k) \cup {k + 1} /\ k + 1 \notin 1..k
<1>1. Cardinality(1..k) = k
  BY FS_Interval
<1> QED
  BY <1>1

\* A configuration from the environment has the gates the environment says, an option that is
\* defined comes before it.
LEMMA ConfigAsGiven ==
  ASSUME NEW gate \in Gates
  PROVE  /\ LoadConfig[gate] = (env[gate] # "false")
         /\ \A o : ResolveBackendConfig(o)[gate] =
              IF gate \in DOMAIN o /\ o[gate] # Undefined THEN o[gate] ELSE env[gate] # "false"
<1>1. /\ {"requireRequestSignature", "requireEnrollAuth"} \subseteq DOMAIN LoadConfig
      /\ LoadConfig["requireRequestSignature"] = (env["requireRequestSignature"] # "false")
      /\ LoadConfig["requireEnrollAuth"] = (env["requireEnrollAuth"] # "false")
  BY DEF LoadConfig
<1>2. gate \in DOMAIN LoadConfig /\ LoadConfig[gate] = (env[gate] # "false")
  BY <1>1 DEF Gates
<1> QED
  BY <1>2 DEF ResolveBackendConfig

\* New entries take the next number for their backend and their store, which nobody has used.
LEMMA MountStep ==
  ASSUME GateInv, NEW b \in 1..MaxBackends, NEW s \in 1..MaxStores, NEW new, new # {},
         NEW config, NEW options, Fresh(b, s), Mount(config, options, new, {s}),
         \A e \in new : /\ e.backend = b /\ e.store = s
                        /\ e.options \in OptionSets \cup {<<>>}
                        /\ \A gate \in Gates : GateAsGiven(e, gate)
  PROVE  GateInv'
<1>1. PICK k \in Nat :
        {entry.backend : entry \in entries} = 1..k /\ {entry.store : entry \in entries} = 1..k
  BY DEF GateInv, Numbered
<1>2. b = k + 1 /\ s = k + 1 /\ env # Undefined
  <2>1. /\ b = 1 + Cardinality({entry.backend : entry \in entries})
        /\ s = 1 + Cardinality({entry.store : entry \in entries})
        /\ env # Undefined
    BY DEF Fresh
  <2>2. b = 1 + Cardinality(1..k) /\ s = 1 + Cardinality(1..k)
    BY <1>1, <2>1
  <2>3. Cardinality(1..k) = k
    BY NextNumber
  <2> QED
    BY <2>1, <2>2, <2>3
<1>3. /\ entries' = entries \cup new /\ UNCHANGED <<env, seen, reply, taken>>
      /\ \A c \in 1..MaxStores : c # s => stores'[c] = stores[c]
  BY DEF Mount
<1>4. \A e \in entries : e.backend # b /\ e.store # s
  <2>1. \A e \in entries : e.backend \in 1..k /\ e.store \in 1..k
    BY <1>1
  <2> QED
    BY <1>2, <2>1, NextNumber
<1>5. Numbered'
  <2>1. /\ {entry.backend : entry \in entries \cup new}
             = {entry.backend : entry \in entries} \cup {entry.backend : entry \in new}
        /\ {entry.store : entry \in entries \cup new}
             = {entry.store : entry \in entries} \cup {entry.store : entry \in new}
    OBVIOUS
  <2>2. {entry.backend : entry \in new} = {k + 1} /\ {entry.store : entry \in new} = {k + 1}
    BY <1>2
  <2>3. {entry.backend : entry \in entries'} = 1..k \cup {k + 1} /\ {entry.store : entry \in entries'} = 1..k \cup {k + 1}
    BY <1>1, <1>3, <2>1, <2>2
  <2>4. {entry.backend : entry \in entries'} = 1..(k + 1) /\ {entry.store : entry \in entries'} = 1..(k + 1)
    BY <2>3, NextNumber
  <2> QED
    BY <2>4 DEF Numbered
<1>6. EntriesStand'
  BY <1>3, <1>4 DEF GateInv, EntriesStand, GateAsGiven
<1>7. NoncesSpent'
  <2>1. \A n \in Nonces, c \in 1..MaxBackends : taken'[n][c] # 0 =>
          /\ \E e \in entries' : e.backend = c
          /\ \A e \in entries' : e.backend = c => n \in seen'[CacheOf(e.store)']
    <3> SUFFICES ASSUME NEW n \in Nonces, NEW c \in 1..MaxBackends, taken[n][c] # 0
                 PROVE  /\ \E e \in entries' : e.backend = c
                        /\ \A e \in entries' : e.backend = c => n \in seen[CacheOf(e.store)']
      BY <1>3
    <3>1. /\ \E e \in entries : e.backend = c
          /\ \A e \in entries : e.backend = c => n \in seen[CacheOf(e.store)]
      BY DEF GateInv, NoncesSpent
    <3>2. c # b
      BY <1>4, <3>1
    <3>3. \A e \in entries : CacheOf(e.store)' = CacheOf(e.store)
      BY <1>3, <1>4 DEF CacheOf, GateInv, EntriesStand
    <3> QED
      BY <1>3, <3>1, <3>2, <3>3
  <2> QED
    BY <1>3, <2>1 DEF GateInv, NoncesSpent
<1>8. Running' /\ GatesOpenOnPurpose'
  BY <1>2, <1>3 DEF GateInv, Running, GatesOpenOnPurpose, OpenedByHost
<1> QED
  BY <1>5, <1>6, <1>7, <1>8 DEF GateInv

\* An answer leaves what is mounted, and is one that the host allows.
LEMMA AnswerStep ==
  ASSUME GateInv, NEW entry \in entries, NEW what \in {"enroll", "confirm", "admin"}, NEW status, NEW said,
         Answered(what, status, entry, said), UNCHANGED <<env, entries, stores>>,
         NoncesSpent',
         status = 200 =>
           /\ what = "admin" => said # ""
           /\ what = "confirm" /\ said = FALSE => OpenedByHost(entry, "requireRequestSignature")
           /\ what = "enroll" /\ said = FALSE =>
                OpenedByHost(entry, "requireEnrollAuth") \/ entry.config.verifyEnrollToken = "allows"
  PROVE  GateInv'
<1>1. EntriesStand' /\ Numbered'
  BY DEF GateInv, EntriesStand, GateAsGiven, Numbered
<1>2. Running'
  BY DEF GateInv, Running
<1>3. GatesOpenOnPurpose'
  BY DEF Answered, GatesOpenOnPurpose, OpenedByHost
<1> QED
  BY <1>1, <1>2, <1>3 DEF GateInv

\* A refusal as well.
LEMMA RefusalStep ==
  ASSUME GateInv, NEW entry \in entries, NEW what \in {"enroll", "confirm", "admin"}, NEW status, NEW said,
         Answered(what, status, entry, said), UNCHANGED <<env, entries, stores>>,
         NoncesSpent', status # 200
  PROVE  GateInv'
BY AnswerStep

\* A gate that does not hold was opened by the host, by name: an option or a text, never the lack
\* of one.
LEMMA OpenByName ==
  ASSUME GateInv, NEW entry \in entries, NEW gate \in Gates, ~Set(entry.config[gate])
  PROVE  OpenedByHost(entry, gate)
<1>1. GateAsGiven(entry, gate) /\ entry.options \in OptionSets \cup {<<>>}
  BY DEF GateInv, EntriesStand
<1>2. CASE gate \in DOMAIN entry.options /\ entry.options[gate] # Undefined
  <2>1. entry.options # <<>>
    BY <1>2
  <2>2. entry.options[gate] \in BOOLEAN
    BY <1>1, <1>2, <2>1, DeployAssumption DEF Gates
  <2>3. entry.config[gate] = entry.options[gate]
    BY <1>1, <1>2 DEF GateAsGiven
  <2> QED
    BY <1>2, <2>2, <2>3 DEF OpenedByHost, Set
<1>3. CASE ~(gate \in DOMAIN entry.options /\ entry.options[gate] # Undefined)
  <2>1. entry.config[gate] = (env[gate] # "false")
    BY <1>1, <1>3 DEF GateAsGiven
  <2> QED
    BY <1>3, <2>1 DEF OpenedByHost, Set
<1> QED
  BY <1>2, <1>3

\* One step of a deployment.
LEMMA GateStep == GateInv /\ [DeployNext]_deployVars => GateInv'
<1> SUFFICES ASSUME GateInv, [DeployNext]_deployVars PROVE GateInv'
  OBVIOUS
<1>1. ASSUME NEW e, StartProcess(e) PROVE GateInv'
  <2>1. entries = {} /\ reply = NoAnswer
    BY <1>1 DEF StartProcess, GateInv, Running
  <2>2. UNCHANGED <<entries, stores, seen, reply, taken>>
    BY <1>1 DEF StartProcess
  <2>3. NoncesSpent'
    BY <2>2 DEF GateInv, NoncesSpent, CacheOf
  <2> QED
    BY <2>1, <2>2, <2>3 DEF GateInv, EntriesStand, Numbered, Running, GatesOpenOnPurpose
<1>2. ASSUME NEW b \in 1..MaxBackends, NEW s \in 1..MaxStores, NEW o \in OptionSets,
             CreateOtaBackend(b, s, o)
      PROVE  GateInv'
  <2> DEFINE config == ResolveBackendConfig(o)
             new == {Entry("middleware", b, s, o, config), Entry("listen", b, s, o, config)}
  <2>1. Fresh(b, s) /\ Mount(config, o, new, {s})
    BY <1>2 DEF CreateOtaBackend
  <2>2. \A gate \in Gates : config[gate] =
          IF gate \in DOMAIN o /\ o[gate] # Undefined THEN o[gate] ELSE env[gate] # "false"
    BY ConfigAsGiven
  <2> HIDE DEF config
  <2>3. new # {} /\ \A e \in new : /\ e.backend = b /\ e.store = s /\ e.options = o
                                   /\ \A gate \in Gates : GateAsGiven(e, gate)
    BY <2>2 DEF Entry, GateAsGiven
  <2> HIDE DEF new
  <2> QED
    BY <2>1, <2>3, MountStep
<1>3. ASSUME NEW b \in 1..MaxBackends, NEW s \in 1..MaxStores, NEW o \in OptionSets,
             DashOtaMiddleware(b, s, o)
      PROVE  GateInv'
  <2> DEFINE config == ResolveBackendConfig(o)
             new == {Entry("middleware", b, s, o, config)}
  <2>1. Fresh(b, s) /\ Mount(config, o, new, {s})
    BY <1>3 DEF DashOtaMiddleware
  <2>2. \A gate \in Gates : config[gate] =
          IF gate \in DOMAIN o /\ o[gate] # Undefined THEN o[gate] ELSE env[gate] # "false"
    BY ConfigAsGiven
  <2> HIDE DEF config
  <2>3. new # {} /\ \A e \in new : /\ e.backend = b /\ e.store = s /\ e.options = o
                                   /\ \A gate \in Gates : GateAsGiven(e, gate)
    BY <2>2 DEF Entry, GateAsGiven
  <2> HIDE DEF new
  <2> QED
    BY <2>1, <2>3, MountStep
<1>4. ASSUME NEW b \in 1..MaxBackends, NEW s \in 1..MaxStores, Main(b, s) PROVE GateInv'
  <2> DEFINE new == {Entry("listen", b, s, <<>>, LoadConfig)}
  <2>1. Fresh(b, s) /\ Mount(LoadConfig, <<>>, new, {s})
    BY <1>4 DEF Main
  <2>2. \A gate \in Gates : LoadConfig[gate] = (env[gate] # "false") /\ gate \notin DOMAIN <<>>
    BY ConfigAsGiven DEF Gates
  <2>3. new # {} /\ \A e \in new : /\ e.backend = b /\ e.store = s /\ e.options = <<>>
                                   /\ \A gate \in Gates : GateAsGiven(e, gate)
    BY <2>2 DEF Entry, GateAsGiven
  <2> HIDE DEF new
  <2> QED
    BY <2>1, <2>3, MountStep
<1>5. CASE StopProcess
  <2>1. /\ entries' = {} /\ reply' = NoAnswer
        /\ seen' = [c \in Cache |-> IF c = 0 THEN seen[0] ELSE {}]
        /\ taken' = [n \in Nonces |-> [b \in 1..MaxBackends |-> 0]]
    BY <1>5 DEF StopProcess
  <2>2. Numbered'
    <3>1. {entry.backend : entry \in entries'} = 1..0 /\ {entry.store : entry \in entries'} = 1..0
      BY <2>1
    <3> QED
      BY <3>1 DEF Numbered
  <2>3. NoncesSpent'
    BY <2>1 DEF NoncesSpent, Cache, MaxStores
  <2> QED
    BY <2>1, <2>2, <2>3 DEF GateInv, EntriesStand, Running, GatesOpenOnPurpose
<1>6. ASSUME NEW entry \in entries, NEW presented \in BOOLEAN, Enrol(entry, presented) PROVE GateInv'
  <2>1. UNCHANGED <<env, entries, stores, seen, taken>>
    BY <1>6 DEF Enrol
  <2>2. NoncesSpent'
    BY <2>1 DEF GateInv, NoncesSpent, CacheOf
  <2>3. CASE EnrollAuthorized(entry.config, presented)
    <3>1. PICK status : Answered("enroll", status, entry, presented)
      BY <1>6, <2>3 DEF Enrol
    <3>2. presented = FALSE =>
            OpenedByHost(entry, "requireEnrollAuth") \/ entry.config.verifyEnrollToken = "allows"
      BY <2>3, OpenByName DEF EnrollAuthorized, Gates
    <3> QED
      BY <2>1, <2>2, <3>1, <3>2, AnswerStep
  <2>4. CASE ~EnrollAuthorized(entry.config, presented)
    <3>1. PICK status \in {500, 401} : Answered("enroll", status, entry, presented)
      BY <1>6, <2>4 DEF Enrol
    <3>2. status # 200
      BY <3>1
    <3> QED
      BY <2>1, <2>2, <3>1, <3>2, RefusalStep
  <2> QED
    BY <2>3, <2>4
<1>7. ASSUME NEW entry \in entries, NEW n \in Nonces, NEW signed \in BOOLEAN, Confirm(entry, n, signed)
      PROVE  GateInv'
  <2>1. UNCHANGED <<env, entries, stores>>
    BY <1>7 DEF Confirm, RunHook
  <2>2. NoncesSpent'
    <3>1. CASE UNCHANGED <<seen, taken>>
      BY <2>1, <3>1 DEF GateInv, NoncesSpent, CacheOf
    <3>2. CASE ~UNCHANGED <<seen, taken>>
      <4> DEFINE c == CacheOf(entry.store)
                 b == entry.backend
      <4>1. /\ Set(entry.config.requireRequestSignature) /\ n \notin seen[c]
            /\ seen' = [seen EXCEPT ![c] = @ \cup {n}]
            /\ taken' = [taken EXCEPT ![n][b] = @ + 1]
        BY <1>7, <3>2 DEF Confirm, Authenticate, Authenticates
      <4>2. c \in Cache /\ b \in 1..MaxBackends
        BY DeployAssumption DEF CacheOf, Cache, GateInv, EntriesStand, MaxStores
      <4>3. taken[n][b] = 0
        BY <4>1, <4>2 DEF GateInv, NoncesSpent
      <4>4. \A d \in Cache : CacheOf(d)' = CacheOf(d) /\ seen[d] \subseteq seen'[d]
        BY <2>1, <4>1 DEF CacheOf, GateInv, NoncesSpent
      <4>5. n \in seen'[c] /\ seen' = [d \in Cache |-> seen'[d]]
        BY <4>1, <4>2 DEF GateInv, NoncesSpent
      <4>6. /\ DOMAIN taken' = Nonces
            /\ \A m \in Nonces : taken'[m] \in [1..MaxBackends -> {0, 1}]
            /\ \A m \in Nonces, d \in 1..MaxBackends :
                 taken'[m][d] = IF m = n /\ d = b THEN 1 ELSE taken[m][d]
        <5>1. /\ DOMAIN taken = Nonces
              /\ \A m \in Nonces : taken[m] \in [1..MaxBackends -> {0, 1}]
          BY DEF GateInv, NoncesSpent
        <5>2. DOMAIN taken' = Nonces /\ \A m \in Nonces \ {n} : taken'[m] = taken[m]
          BY <4>1, <5>1
        <5>3. taken'[n] = [taken[n] EXCEPT ![b] = 1]
          BY <4>1, <4>3, <5>1
        <5>4. /\ taken'[n] \in [1..MaxBackends -> {0, 1}]
              /\ \A d \in 1..MaxBackends : taken'[n][d] = IF d = b THEN 1 ELSE taken[n][d]
          BY <4>2, <5>1, <5>3
        <5> QED
          BY <5>1, <5>2, <5>4
      <4>7. \A e \in entries : /\ e.store \in Cache /\ CacheOf(e.store) \in Cache
                               /\ (e.backend = b => e.store = entry.store)
        BY DeployAssumption DEF GateInv, EntriesStand, CacheOf, Cache, MaxStores
      <4>8. ASSUME NEW m \in Nonces, NEW d \in 1..MaxBackends, taken'[m][d] # 0
            PROVE  /\ \E e \in entries' : e.backend = d
                   /\ \A e \in entries' : e.backend = d => m \in seen'[CacheOf(e.store)']
        <5>1. CASE m = n /\ d = b
          BY <2>1, <4>4, <4>5, <4>7, <5>1
        <5>2. CASE ~(m = n /\ d = b)
          <6>1. taken[m][d] # 0
            BY <4>6, <4>8, <5>2
          <6>2. /\ \E e \in entries : e.backend = d
                /\ \A e \in entries : e.backend = d => m \in seen[CacheOf(e.store)]
            BY <6>1 DEF GateInv, NoncesSpent
          <6> QED
            BY <2>1, <4>4, <4>7, <6>2
        <5> QED
          BY <5>1, <5>2
      <4> QED
        BY <4>5, <4>6, <4>8 DEF NoncesSpent
    <3> QED
      BY <3>1, <3>2
  <2>3. CASE Authenticates(entry, n, signed)
    <3>1. Answered("confirm", 200, entry, signed)
      BY <1>7, <2>3 DEF Confirm
    <3>2. signed = FALSE => OpenedByHost(entry, "requireRequestSignature")
      BY <2>3, OpenByName DEF Authenticates, Gates
    <3> QED
      BY <2>1, <2>2, <3>1, <3>2, AnswerStep
  <2>4. CASE ~Authenticates(entry, n, signed)
    <3>1. Answered("confirm", 401, entry, signed)
      BY <1>7, <2>4 DEF Confirm
    <3>2. 401 # 200
      OBVIOUS
    <3> QED
      BY <2>1, <2>2, <3>1, <3>2, RefusalStep
  <2> QED
    BY <2>3, <2>4
<1>8. ASSUME NEW entry \in entries, NEW presented, Admin(entry, presented) PROVE GateInv'
  <2> DEFINE status == RequireAdmin(entry.config, presented)
  <2>1. UNCHANGED <<env, entries, stores, seen, taken>> /\ Answered("admin", status, entry, presented)
    BY <1>8 DEF Admin
  <2>2. NoncesSpent'
    BY <2>1 DEF GateInv, NoncesSpent, CacheOf
  <2>3. CASE ~Given(entry.config.adminToken) \/ presented # entry.config.adminToken
    <3>1. status \in {503, 403}
      BY <2>3 DEF RequireAdmin
    <3>2. status # 200
      BY <3>1
    <3> HIDE DEF status
    <3> QED
      BY <2>1, <2>2, <3>2, RefusalStep
  <2>4. CASE Given(entry.config.adminToken) /\ presented = entry.config.adminToken
    <3>1. presented # ""
      BY <2>4 DEF Given
    <3> HIDE DEF status
    <3> QED
      BY <2>1, <2>2, <3>1, AnswerStep
  <2> QED
    BY <2>3, <2>4
<1>9. CASE UNCHANGED deployVars
  <2>1. UNCHANGED <<env, entries, stores, seen, reply, taken>>
    BY <1>9 DEF deployVars
  <2>2. EntriesStand' /\ Numbered'
    BY <2>1 DEF GateInv, EntriesStand, GateAsGiven, Numbered
  <2>3. NoncesSpent'
    BY <2>1 DEF GateInv, NoncesSpent, CacheOf
  <2>4. Running' /\ GatesOpenOnPurpose'
    BY <2>1 DEF GateInv, Running, GatesOpenOnPurpose, OpenedByHost
  <2> QED
    BY <2>2, <2>3, <2>4 DEF GateInv
<1> QED
  BY <1>1, <1>2, <1>3, <1>4, <1>5, <1>6, <1>7, <1>8, <1>9 DEF DeployNext

\* A caller without what a gate asks for gets in only where the host opened that gate by name; a
\* nonce is worth one request to a backend, through whichever of its doors; and no hook ends the
\* process (loadConfig, resolveBackendConfig, createOtaBackend).
THEOREM GatesAlwaysHold == DeploySpec => []GatesHold
<1>1. DeployInit => GateInv
  <2> SUFFICES ASSUME DeployInit PROVE GateInv
    OBVIOUS
  <2>1. Numbered
    <3>1. {entry.backend : entry \in entries} = 1..0 /\ {entry.store : entry \in entries} = 1..0
      BY DEF DeployInit
    <3> QED
      BY <3>1 DEF Numbered
  <2>2. NoncesSpent
    BY DEF DeployInit, NoncesSpent
  <2> QED
    BY <2>1, <2>2 DEF DeployInit, GateInv, EntriesStand, Running, GatesOpenOnPurpose
<1>2. GateInv => GatesHold
  <2> SUFFICES ASSUME GateInv PROVE GatesHold
    OBVIOUS
  <2>1. DoorsShareTheGuard
    <3> SUFFICES ASSUME NEW n \in Nonces, NEW b \in 1..MaxBackends PROVE taken[n][b] <= 1
      BY DEF DoorsShareTheGuard
    <3>1. taken[n] \in [1..MaxBackends -> {0, 1}]
      BY DEF GateInv, NoncesSpent
    <3>2. taken[n][b] \in {0, 1}
      BY <3>1
    <3> QED
      BY <3>2
  <2> QED
    BY <2>1 DEF GateInv, GatesHold, HooksEndNothing, Running
<1> QED
  BY <1>1, <1>2, GateStep, PTL DEF DeploySpec

-----------------------------------------------------------------------------
(* The databases are honest, whichever provider, with any number of requests, writes, faults *)
(* and restarts.                                                                              *)

Call == [step : {"idle", "client", "schema", "statement", "done", "error"}, op : Ops, value : Int,
         before : SUBSET Nat]

Asking(c) == call[c].step \in {"client", "schema", "statement"}

\* Types; and a value that a put replaced was confirmed before.
DbTyped ==
  /\ database \in {"disk", "sqlite", "postgres"}
  /\ call \in [Calls -> Call]
  /\ stored = [row |-> stored.row, hits |-> stored.hits]
  /\ memory = [row |-> memory.row, hits |-> memory.hits]
  /\ puts \in Nat /\ acked \in Nat /\ doubted \in Nat
  /\ confirmed \subseteq 0..puts /\ gone \subseteq confirmed

\* Tables come before the statements that need them, along the promises a request waits for.
TablesFirst ==
  /\ client = "resolved" /\ database = "sqlite" => tables
  /\ schema = "resolved" => tables
  /\ \A c \in Calls : call[c].step = "schema" => database = "postgres"
  /\ TablesComeFirst

\* The count a server answers from is what was confirmed and what was doubted, or less of that; the
\* disk provider's files say the same as its memory, or were cut short.
CountHolds ==
  /\ Current.row \in Int /\ Current.hits \in Int /\ acked <= Current.hits /\ Current.hits <= acked + doubted
  /\ database = "disk" => /\ stored.hits \in {Torn, memory.hits}
                         /\ stored.row \in {Torn, memory.row}

\* A put in flight has a value of its own that nobody was told of, and replaces what was confirmed
\* when it was asked; a read in flight may not be told what was gone by then.
CallHolds(c) ==
  Asking(c) =>
    /\ call[c].op = "put" =>
         /\ call[c].value \in Nat /\ call[c].value <= puts /\ call[c].value \notin confirmed
         /\ call[c].before \subseteq confirmed
         /\ \A d \in Calls \ {c} : Asking(d) /\ call[d].op = "put" => call[d].value # call[c].value
    /\ call[c].op = "get" => call[c].before \subseteq gone
    /\ call[c].op = "count" => call[c].value <= acked

CallsHold == \A c \in Calls : CallHolds(c)

DbInv == DbTyped /\ TablesFirst /\ CountHolds /\ CallsHold /\ ReadsAreCurrent /\ Current.row \notin gone

\* A step that leaves the records, and changes requests only in how far they are, or ends them.
LEMMA DbMoves ==
  ASSUME DbInv, UNCHANGED <<database, stored, memory, puts, confirmed, gone, acked, doubted>>,
         TablesFirst', call' \in [Calls -> Call],
         \A c \in Calls : \/ call'[c] = call[c]
                         \/ call'[c].step = "error"
                         \/ /\ Asking(c) /\ call'[c].step \in {"client", "schema", "statement"}
                            /\ call'[c].op = call[c].op /\ call'[c].value = call[c].value
                            /\ call'[c].before = call[c].before
  PROVE  DbInv'
<1>1. DbTyped' /\ CountHolds' /\ (Current.row \notin gone)'
  BY DEF DbInv, DbTyped, CountHolds, Current
<1>2. CallsHold'
  BY DEF DbInv, CallsHold, CallHolds, Asking
<1>3. ReadsAreCurrent'
  BY DEF DbInv, ReadsAreCurrent
<1> QED
  BY <1>1, <1>2, <1>3 DEF DbInv

\* A request goes to another step.
LEMMA DbGoes ==
  ASSUME DbTyped, NEW c \in Calls, NEW step \in {"client", "schema", "statement", "error"}, Go(c, step)
  PROVE  /\ call' \in [Calls -> Call]
         /\ \A d \in Calls \ {c} : call'[d] = call[d]
         /\ call'[c].step = step /\ call'[c].op = call[c].op
         /\ call'[c].value = call[c].value /\ call'[c].before = call[c].before
<1> DEFINE next == [call[c] EXCEPT !.step = step]
<1>1. call' = [call EXCEPT ![c] = next]
  BY DEF Go, DbTyped
<1>2. /\ next \in Call /\ next.step = step /\ next.op = call[c].op
      /\ next.value = call[c].value /\ next.before = call[c].before
  BY DEF DbTyped, Call
<1> HIDE DEF next
<1> QED
  BY <1>1, <1>2 DEF DbTyped

\* A request is answered from a record whose row is not gone and whose count is not short.
LEMMA DbAnswers ==
  ASSUME DbInv, NEW c \in Calls, call[c].step = "statement", NEW t, Answers(c, t),
         t.row \notin gone, t.row \in Int, t.hits \in Int, acked <= t.hits
  PROVE  /\ call' \in [Calls -> Call] /\ CallsHold' /\ ReadsAreCurrent'
         /\ puts' = puts /\ doubted' = doubted
         /\ confirmed' \subseteq 0..puts' /\ gone' \subseteq confirmed'
         /\ acked' = IF call[c].op = "increment" THEN acked + 1 ELSE acked
         /\ call[c].op = "put" => call[c].value \notin gone'
         /\ call[c].op # "put" => gone' = gone
         /\ call'[c].step = "done" /\ \A d \in Calls \ {c} : call'[d] = call[d]
<1> DEFINE v == CASE call[c].op = "get" -> t.row
                  [] call[c].op = "count" -> t.hits - call[c].value
                  [] OTHER -> call[c].value
           next == [[call[c] EXCEPT !.step = "done"] EXCEPT !.value = v]
<1>c. call[c] \in Call /\ Asking(c) /\ CallHolds(c)
  BY DEF DbInv, DbTyped, CallsHold, Asking
<1>1. call' = [call EXCEPT ![c] = next]
  BY DEF Answers, DbInv, DbTyped, Call
<1>2. next.step = "done" /\ next.op = call[c].op /\ next.before = call[c].before /\ next.value = v
  BY <1>c DEF Call
<1>3. /\ confirmed' = IF call[c].op = "put" THEN confirmed \cup {call[c].value} ELSE confirmed
      /\ gone' = IF call[c].op = "put" THEN gone \cup call[c].before ELSE gone
      /\ acked' = IF call[c].op = "increment" THEN acked + 1 ELSE acked
      /\ UNCHANGED <<puts, doubted, reads>>
  BY DEF Answers
<1>4. call[c].op = "count" => v >= 0
  BY <1>c DEF CallHolds, Call, DbInv, DbTyped
<1>5. call[c].op = "get" => v \notin call[c].before
  BY <1>c DEF CallHolds
<1>8. v \in Int
  BY <1>c DEF Call
<1> HIDE DEF v
<1>13. next \in Call
  BY <1>c, <1>8 DEF Call
<1> HIDE DEF next
<1>6. \A d \in Calls \ {c} : call'[d] = call[d]
  BY <1>1 DEF DbInv, DbTyped
<1>7. call'[c] = next
  BY <1>1 DEF DbInv, DbTyped
<1>9. CallsHold'
  <2> SUFFICES ASSUME NEW d \in Calls \ {c}, Asking(d) PROVE CallHolds(d)'
    <3>1. ~Asking(c)'
      BY <1>2, <1>7 DEF Asking
    <3>2. \A d \in Calls \ {c} : Asking(d)' => Asking(d)
      BY <1>6 DEF Asking
    <3>3. CallHolds(c)'
      BY <3>1 DEF CallHolds
    <3> QED
      BY <3>2, <3>3 DEF CallsHold, CallHolds
  <2>1. CallHolds(d) /\ call'[d] = call[d]
    BY <1>6 DEF DbInv, CallsHold
  <2>2. call[d].op = "put" => call[d].value \notin confirmed'
    BY <1>3, <1>c, <2>1 DEF CallHolds
  <2>3. confirmed \subseteq confirmed' /\ gone \subseteq gone' /\ acked <= acked' /\ puts' = puts
        /\ acked' \in Nat /\ acked \in Nat
    BY <1>3 DEF DbInv, DbTyped
  <2>4. \A e \in Calls \ {d} : Asking(e)' => e # c /\ Asking(e) /\ call'[e] = call[e]
    BY <1>2, <1>6, <1>7 DEF Asking
  <2>5. call[d] \in Call
    BY DEF DbInv, DbTyped
  <2>6. CASE call[d].op = "put"
    <3>1. \A e \in Calls \ {d} : Asking(e)' /\ call'[e].op = "put" => call'[e].value # call[d].value
      BY <2>1, <2>4, <2>6 DEF CallHolds
    <3> QED
      BY <2>1, <2>2, <2>3, <2>6, <3>1 DEF CallHolds
  <2>7. CASE call[d].op # "put"
    BY <2>1, <2>3, <2>5, <2>7 DEF CallHolds, Call
  <2> QED
    BY <2>6, <2>7
<1>10. ReadsAreCurrent'
  BY <1>2, <1>4, <1>5, <1>6, <1>7 DEF DbInv, ReadsAreCurrent
<1>11. confirmed' \subseteq 0..puts' /\ gone' \subseteq confirmed'
  BY <1>c, <1>3 DEF DbInv, DbTyped, CallHolds
<1>12. call[c].op = "put" => call[c].value \notin gone'
  BY <1>c, <1>3 DEF DbInv, DbTyped, CallHolds
<1>14. call' \in [Calls -> Call]
  BY <1>1, <1>13 DEF DbInv, DbTyped
<1> QED
  BY <1>2, <1>3, <1>6, <1>7, <1>9, <1>10, <1>11, <1>12, <1>14

\* What a statement leaves: the row of a put, one hit more of an increment.
LEMMA Upserts ==
  ASSUME NEW t, t = [row |-> t.row, hits |-> t.hits], NEW q, q.op \in Ops
  PROVE  /\ Upsert(t, q) = [row  |-> IF q.op = "put" THEN q.value ELSE t.row,
                            hits |-> IF q.op = "increment" THEN t.hits + 1 ELSE t.hits]
BY DEF Upsert, Ops

\* A request that fails may have counted, and may have replaced the row.
LEMMA DbDoubts ==
  ASSUME DbInv, NEW c \in Calls, Doubt(c)
  PROVE  /\ call' \in [Calls -> Call] /\ CallsHold' /\ ReadsAreCurrent'
         /\ UNCHANGED <<puts, confirmed, gone, acked>>
         /\ doubted' = IF call[c].op = "increment" THEN doubted + 1 ELSE doubted
         /\ call'[c].step = "error" /\ \A d \in Calls \ {c} : call'[d] = call[d]
<1>1. /\ call' \in [Calls -> Call] /\ \A d \in Calls \ {c} : call'[d] = call[d]
      /\ call'[c].step = "error"
  BY DbGoes DEF Doubt, DbInv
<1>2. UNCHANGED <<puts, confirmed, gone, acked>>
      /\ doubted' = IF call[c].op = "increment" THEN doubted + 1 ELSE doubted
  BY DEF Doubt
<1>3. CallsHold' /\ ReadsAreCurrent'
  BY <1>1, <1>2 DEF DbInv, CallsHold, CallHolds, Asking, ReadsAreCurrent
<1> QED
  BY <1>1, <1>2, <1>3

\* No request begins a statement in a step that carries one out.
LEMMA TablesStay ==
  ASSUME DbInv, NEW c \in Calls, UNCHANGED <<database, client, schema, tables>>,
         call'[c].step \in {"done", "error"}, \A d \in Calls \ {c} : call'[d] = call[d]
  PROVE  TablesFirst'
BY DEF DbInv, TablesFirst, TablesComeFirst, Sql

\* A statement in SQLite or Postgres, answered or in doubt.
LEMMA SqlStep ==
  ASSUME DbInv, NEW c \in Calls, PostgresStatement(c) \/ SqliteStatement(c)
  PROVE  DbInv'
<1>1. /\ database # "disk" /\ database' = database /\ UNCHANGED <<client, schema, tables, memory>>
      /\ call[c].step = "statement" /\ call[c] \in Call
      /\ stored' = Upsert(stored, call[c])
      /\ Answers(c, stored) \/ Doubt(c)
  BY DEF PostgresStatement, SqliteStatement, connection, DbInv, DbTyped
<1>2. stored' = [row  |-> IF call[c].op = "put" THEN call[c].value ELSE stored.row,
                 hits |-> IF call[c].op = "increment" THEN stored.hits + 1 ELSE stored.hits]
  BY <1>1, Upserts DEF DbInv, DbTyped, Call
<1>3. /\ stored.row \notin gone /\ stored.row \in Int /\ stored.hits \in Int /\ acked <= stored.hits
      /\ stored.hits <= acked + doubted /\ acked \in Nat /\ doubted \in Nat
  BY <1>1 DEF DbInv, CountHolds, Current, DbTyped
<1>4. call[c].op = "put" => call[c].value \notin confirmed /\ call[c].value \in Int
  BY <1>1 DEF DbInv, CallsHold, CallHolds, Asking
<1>5. CASE Answers(c, stored)
  <2>1. /\ call' \in [Calls -> Call] /\ CallsHold' /\ ReadsAreCurrent'
        /\ puts' = puts /\ doubted' = doubted
        /\ confirmed' \subseteq 0..puts' /\ gone' \subseteq confirmed'
        /\ acked' = IF call[c].op = "increment" THEN acked + 1 ELSE acked
        /\ call[c].op = "put" => call[c].value \notin gone'
        /\ call[c].op # "put" => gone' = gone
        /\ call'[c].step = "done" /\ \A d \in Calls \ {c} : call'[d] = call[d]
    BY <1>1, <1>3, <1>5, DbAnswers
  <2>2. DbTyped'
    BY <1>1, <1>2, <1>3, <2>1 DEF DbInv, DbTyped
  <2>3. CountHolds' /\ (Current.row \notin gone)'
    BY <1>1, <1>2, <1>3, <1>4, <2>1 DEF CountHolds, Current
  <2>4. TablesFirst'
    BY <1>1, <2>1, TablesStay
  <2> QED
    BY <2>1, <2>2, <2>3, <2>4 DEF DbInv
<1>6. CASE Doubt(c)
  <2>1. /\ call' \in [Calls -> Call] /\ CallsHold' /\ ReadsAreCurrent'
        /\ UNCHANGED <<puts, confirmed, gone, acked>>
        /\ doubted' = IF call[c].op = "increment" THEN doubted + 1 ELSE doubted
        /\ call'[c].step = "error" /\ \A d \in Calls \ {c} : call'[d] = call[d]
    BY <1>6, DbDoubts
  <2>2. DbTyped'
    BY <1>1, <1>2, <1>3, <2>1 DEF DbInv, DbTyped
  <2>3. CountHolds' /\ (Current.row \notin gone)'
    BY <1>1, <1>2, <1>3, <1>4, <2>1 DEF CountHolds, Current, DbInv, DbTyped
  <2>4. TablesFirst'
    BY <1>1, <2>1, TablesStay
  <2> QED
    BY <2>1, <2>2, <2>3, <2>4 DEF DbInv
<1> QED
  BY <1>1, <1>5, <1>6

\* A statement of the disk provider: the file follows the memory, or is cut short.
LEMMA DiskStep ==
  ASSUME DbInv, NEW c \in Calls, DiskStatement(c)
  PROVE  DbInv'
<1> DEFINE q == call[c]
<1>1. /\ database = "disk" /\ UNCHANGED <<database, client, schema, tables>>
      /\ call[c].step = "statement" /\ call[c] \in Call
      /\ memory' = Upsert(memory, call[c])
  BY DEF DiskStatement, connection, DbInv, DbTyped
<1>2. memory' = [row  |-> IF q.op = "put" THEN q.value ELSE memory.row,
                 hits |-> IF q.op = "increment" THEN memory.hits + 1 ELSE memory.hits]
  BY <1>1, Upserts DEF DbInv, DbTyped, Call
<1>3. /\ memory.row \notin gone /\ memory.row \in Int /\ memory.hits \in Int /\ acked <= memory.hits
      /\ memory.hits <= acked + doubted /\ acked \in Nat /\ doubted \in Nat
      /\ stored.hits \in {Torn, memory.hits} /\ stored.row \in {Torn, memory.row}
      /\ stored = [row |-> stored.row, hits |-> stored.hits]
  BY <1>1 DEF DbInv, CountHolds, Current, DbTyped
<1>4. q.op = "put" => q.value \notin confirmed /\ q.value \in Int
  BY <1>1 DEF DbInv, CallsHold, CallHolds, Asking
<1>5. /\ stored'.hits \in {Torn, memory'.hits} /\ stored'.row \in {Torn, memory'.row}
      /\ stored' = [row |-> stored'.row, hits |-> stored'.hits]
  <2>1. \/ stored' = CASE q.op = "put" -> [stored EXCEPT !.row = memory'.row]
                       [] q.op = "increment" -> [stored EXCEPT !.hits = memory'.hits]
                       [] OTHER -> stored
        \/ q.op \in Writes
             /\ stored' = IF q.op = "put" THEN [stored EXCEPT !.row = Torn] ELSE [stored EXCEPT !.hits = Torn]
    BY DEF DiskStatement
  <2> QED
    BY <1>2, <1>3, <2>1 DEF Writes
<1>6. CASE Answers(c, memory)
  <2>1. /\ call' \in [Calls -> Call] /\ CallsHold' /\ ReadsAreCurrent'
        /\ puts' = puts /\ doubted' = doubted
        /\ confirmed' \subseteq 0..puts' /\ gone' \subseteq confirmed'
        /\ acked' = IF call[c].op = "increment" THEN acked + 1 ELSE acked
        /\ call[c].op = "put" => call[c].value \notin gone'
        /\ call[c].op # "put" => gone' = gone
        /\ call'[c].step = "done" /\ \A d \in Calls \ {c} : call'[d] = call[d]
    BY <1>1, <1>3, <1>6, DbAnswers
  <2>2. DbTyped'
    BY <1>1, <1>2, <1>3, <1>5, <2>1 DEF DbInv, DbTyped
  <2>3. CountHolds' /\ (Current.row \notin gone)'
    BY <1>1, <1>2, <1>3, <1>4, <1>5, <2>1 DEF CountHolds, Current
  <2>4. TablesFirst'
    BY <1>1, <2>1, TablesStay
  <2> QED
    BY <2>1, <2>2, <2>3, <2>4 DEF DbInv
<1>7. CASE Doubt(c)
  <2>1. /\ call' \in [Calls -> Call] /\ CallsHold' /\ ReadsAreCurrent'
        /\ UNCHANGED <<puts, confirmed, gone, acked>>
        /\ doubted' = IF call[c].op = "increment" THEN doubted + 1 ELSE doubted
        /\ call'[c].step = "error" /\ \A d \in Calls \ {c} : call'[d] = call[d]
    BY <1>7, DbDoubts
  <2>2. DbTyped'
    BY <1>1, <1>2, <1>3, <1>5, <2>1 DEF DbInv, DbTyped
  <2>3. CountHolds' /\ (Current.row \notin gone)'
    BY <1>1, <1>2, <1>3, <1>4, <1>5, <2>1 DEF CountHolds, Current, DbInv, DbTyped
  <2>4. TablesFirst'
    BY <1>1, <2>1, TablesStay
  <2> QED
    BY <2>1, <2>2, <2>3, <2>4 DEF DbInv
<1> QED
  BY <1>6, <1>7 DEF DiskStatement

\* A request is asked: a put with a value nobody has asked for before.
LEMMA QueryStep ==
  ASSUME DbInv, NEW c \in Calls, NEW op \in Ops, Query(c, op)
  PROVE  DbInv'
<1> DEFINE next == [step |-> IF database = "disk" THEN "statement" ELSE "client", op |-> op,
                    value |-> CASE op = "put" -> puts + 1 [] op = "count" -> acked [] OTHER -> 0,
                    before |-> CASE op = "put" -> confirmed [] op = "get" -> gone [] OTHER -> {}]
<1>1. /\ call' = [call EXCEPT ![c] = next]
      /\ puts' = IF op = "put" THEN puts + 1 ELSE puts
      /\ UNCHANGED <<database, client, schema, tables, stored, memory, confirmed, gone, acked, doubted>>
  BY DEF Query, connection
<1>2. /\ next.step \in {"statement", "client"} /\ next.op = op
      /\ database # "disk" => next.step = "client"
      /\ op = "put" => next.value = puts + 1 /\ next.before = confirmed
      /\ op = "count" => next.value = acked
      /\ op = "get" => next.before = gone
  OBVIOUS
<1>t. /\ puts \in Nat /\ acked \in Nat /\ confirmed \subseteq 0..puts /\ gone \subseteq confirmed
      /\ call \in [Calls -> Call]
  BY DEF DbInv, DbTyped
<1>3. next \in Call
  BY <1>t DEF Call
<1> HIDE DEF next
<1>4. /\ call' \in [Calls -> Call] /\ call'[c] = next /\ \A d \in Calls \ {c} : call'[d] = call[d]
  BY <1>1, <1>3, <1>t
<1>5. DbTyped' /\ CountHolds' /\ (Current.row \notin gone)'
  BY <1>1, <1>4 DEF DbInv, DbTyped, CountHolds, Current
<1>6. TablesFirst'
  BY <1>1, <1>2, <1>4 DEF DbInv, TablesFirst, TablesComeFirst, Sql
<1>7. ReadsAreCurrent'
  BY <1>1, <1>2, <1>4 DEF DbInv, ReadsAreCurrent
<1>8. CallsHold'
  <2>1. CallHolds(c)'
    <3>1. \A d \in Calls \ {c} : Asking(d)' /\ call'[d].op = "put" => call'[d].value <= puts
                                                                  /\ call'[d].value \in Nat
      BY <1>4 DEF DbInv, CallsHold, CallHolds, Asking
    <3>2. op = "put" => puts' = puts + 1 /\ puts + 1 \notin confirmed
      BY <1>1, <1>t
    <3> QED
      BY <1>1, <1>2, <1>4, <1>t, <3>1, <3>2 DEF CallHolds
  <2>2. ASSUME NEW d \in Calls \ {c} PROVE CallHolds(d)'
    <3>1. CallHolds(d) /\ call'[d] = call[d] /\ puts <= puts' /\ puts' \in Nat
      BY <1>1, <1>4, <1>t DEF DbInv, CallsHold
    <3>2. Asking(d) /\ call[d].op = "put" /\ op = "put" => call'[c].value # call[d].value
      BY <1>2, <1>4, <1>t, <3>1 DEF CallHolds
    <3> QED
      BY <1>1, <1>2, <1>4, <1>t, <3>1, <3>2 DEF CallHolds, Asking
  <2> QED
    BY <2>1, <2>2 DEF CallsHold
<1> QED
  BY <1>5, <1>6, <1>7, <1>8 DEF DbInv

\* The process ends: what was in flight is not answered, a write may have been carried out or have
\* cut its file short.
LEMMA DbEnds ==
  ASSUME DbInv, Ends
  PROVE  DbInv'
<1>1. /\ UNCHANGED <<database, client, schema, tables, memory, puts, confirmed, gone, acked>>
      /\ call' = [c \in Calls |-> IF c \in InFlight THEN [call[c] EXCEPT !.step = "error"] ELSE call[c]]
  BY DEF Ends, connection
<1>2. call' \in [Calls -> Call] /\ \A c \in Calls : call'[c] = call[c] \/ call'[c].step = "error"
  BY <1>1 DEF DbInv, DbTyped, Call
<1>3. \A c \in Calls : ~Asking(c)'
  BY <1>1, <1>2 DEF Asking, InFlight, DbInv, DbTyped, Call
<1>4. CallsHold' /\ ReadsAreCurrent'
  BY <1>1, <1>2, <1>3 DEF CallsHold, CallHolds, DbInv, ReadsAreCurrent
<1>5. TablesFirst'
  BY <1>1, <1>2 DEF DbInv, TablesFirst, TablesComeFirst, Sql
<1>6. CASE UNCHANGED <<stored, doubted>>
  BY <1>1, <1>2, <1>4, <1>5, <1>6 DEF DbInv, DbTyped, CountHolds, Current
<1>7. ASSUME NEW c \in Calls, call[c].step = "statement", call[c].op \in Writes,
             doubted' = IF call[c].op = "increment" THEN doubted + 1 ELSE doubted,
             database = "disk",
             stored' = IF call[c].op = "put" THEN [stored EXCEPT !.row = Torn] ELSE [stored EXCEPT !.hits = Torn]
      PROVE  DbInv'
  <2>1. /\ stored' = [row |-> stored'.row, hits |-> stored'.hits]
        /\ stored'.row \in {Torn, stored.row} /\ stored'.hits \in {Torn, stored.hits}
    BY <1>7 DEF DbInv, DbTyped
  <2>2. DbTyped' /\ CountHolds' /\ (Current.row \notin gone)'
    BY <1>1, <1>2, <1>7, <2>1 DEF DbInv, DbTyped, CountHolds, Current
  <2> QED
    BY <1>4, <1>5, <2>2 DEF DbInv
<1>8. ASSUME NEW c \in Calls, call[c].step = "statement",
             doubted' = IF call[c].op = "increment" THEN doubted + 1 ELSE doubted,
             Sql, stored' = Upsert(stored, call[c])
      PROVE  DbInv'
  <2>1. stored' = [row  |-> IF call[c].op = "put" THEN call[c].value ELSE stored.row,
                   hits |-> IF call[c].op = "increment" THEN stored.hits + 1 ELSE stored.hits]
    BY <1>8, Upserts DEF DbInv, DbTyped, Call
  <2>2. call[c].op = "put" => call[c].value \notin confirmed /\ call[c].value \in Int
    BY <1>8 DEF DbInv, CallsHold, CallHolds, Asking
  <2>3. database # "disk"
    BY <1>8 DEF Sql
  <2>4. DbTyped' /\ CountHolds' /\ (Current.row \notin gone)'
    BY <1>1, <1>2, <1>8, <2>1, <2>2, <2>3 DEF DbInv, DbTyped, CountHolds, Current
  <2> QED
    BY <1>4, <1>5, <2>4 DEF DbInv
<1> QED
  BY <1>6, <1>7, <1>8 DEF Ends

\* One step of a database.
LEMMA DbStep == DbInv /\ [DbNext]_dbVars => DbInv'
<1> SUFFICES ASSUME DbInv, [DbNext]_dbVars PROVE DbInv'
  OBVIOUS
<1>1. ASSUME NEW c \in Calls, AwaitClient(c) \/ AwaitSchema(c) \/ StatementFails(c) PROVE DbInv'
  <2>1. UNCHANGED <<database, tables, stored, memory, puts, confirmed, gone, acked, doubted>>
    BY <1>1 DEF AwaitClient, AwaitSchema, StatementFails, history
  <2>2. /\ client' = client \/ client' = "pending"
        /\ schema' = schema \/ schema' = "pending"
    BY <1>1 DEF AwaitClient, AwaitSchema, StatementFails, connection
  <2>3. CASE call' = call
    <3>1. TablesFirst'
      BY <2>1, <2>2, <2>3 DEF DbInv, TablesFirst, TablesComeFirst, Sql
    <3> QED
      BY <2>1, <2>3, <3>1, DbMoves DEF DbInv, DbTyped
  <2>4. ASSUME NEW step \in {"client", "schema", "statement", "error"}, Go(c, step), Asking(c),
               step = "schema" => database = "postgres", step = "statement" /\ Sql => tables,
               step # "client"
        PROVE  DbInv'
    <3>1. /\ call' \in [Calls -> Call]
          /\ \A d \in Calls \ {c} : call'[d] = call[d]
          /\ call'[c].step = step /\ call'[c].op = call[c].op
          /\ call'[c].value = call[c].value /\ call'[c].before = call[c].before
      BY <2>4, DbGoes DEF DbInv
    <3>2. TablesFirst'
      BY <2>1, <2>2, <2>4, <3>1 DEF DbInv, TablesFirst, TablesComeFirst, Sql
    <3> QED
      BY <2>1, <2>4, <3>1, <3>2, DbMoves
  <2>5. CASE AwaitClient(c)
    <3>1. \/ call' = call
          \/ Go(c, "error")
          \/ client = "resolved" /\ Go(c, IF database = "postgres" THEN "schema" ELSE "statement")
      BY <2>5 DEF AwaitClient
    <3>2. Asking(c)
      BY <2>5 DEF AwaitClient, Asking
    <3>3. client = "resolved" /\ database # "postgres" /\ Sql => tables
      BY DEF DbInv, TablesFirst, Sql
    <3> QED
      BY <2>3, <2>4, <3>1, <3>2, <3>3
  <2>6. CASE AwaitSchema(c)
    <3>1. call' = call \/ Go(c, "error") \/ (schema = "resolved" /\ Go(c, "statement"))
      BY <2>6 DEF AwaitSchema
    <3>2. Asking(c)
      BY <2>6 DEF AwaitSchema, Asking
    <3>3. schema = "resolved" => tables
      BY DEF DbInv, TablesFirst
    <3> QED
      BY <2>3, <2>4, <3>1, <3>2, <3>3
  <2>7. CASE StatementFails(c)
    BY <2>4, <2>7 DEF StatementFails, Asking
  <2> QED
    BY <1>1, <2>5, <2>6, <2>7
<1>2. CASE SqliteOpens \/ PoolOpens \/ SchemaEnds \/ Outage \/ OutageEnds
  <2>1. UNCHANGED <<database, stored, memory, puts, confirmed, gone, acked, doubted, call>>
    BY <1>2 DEF SqliteOpens, PoolOpens, SchemaEnds, Outage, OutageEnds, history
  <2>2. TablesFirst'
    BY <1>2, <2>1
       DEF SqliteOpens, PoolOpens, SchemaEnds, Outage, OutageEnds, connection, DbInv, TablesFirst,
           TablesComeFirst, Sql
  <2> QED
    BY <2>1, <2>2, DbMoves DEF DbInv, DbTyped
<1>3. CASE Load
  <2>1. /\ UNCHANGED <<database, tables, stored, call, puts, confirmed, gone, acked, doubted>>
        /\ client' = "none" /\ schema' = "none"
        /\ memory' = IF database = "disk" THEN stored ELSE memory
        /\ database = "disk" => stored.row # Torn /\ stored.hits # Torn
    BY <1>3 DEF Load, history
  <2>2. TablesFirst' /\ CallsHold' /\ ReadsAreCurrent'
    BY <2>1 DEF DbInv, TablesFirst, TablesComeFirst, Sql, CallsHold, CallHolds, Asking, ReadsAreCurrent
  <2>3. DbTyped' /\ CountHolds' /\ (Current.row \notin gone)'
    BY <2>1 DEF DbInv, DbTyped, CountHolds, Current
  <2> QED
    BY <2>2, <2>3 DEF DbInv
<1>4. CASE UNCHANGED dbVars
  <2>1. UNCHANGED <<database, client, schema, tables, stored, memory, call, puts, confirmed, gone, acked,
                    doubted>>
    BY <1>4 DEF dbVars
  <2>2. TablesFirst'
    BY <2>1 DEF DbInv, TablesFirst, TablesComeFirst, Sql
  <2> QED
    BY <2>1, <2>2, DbMoves DEF DbInv, DbTyped
<1> QED
  BY <1>1, <1>2, <1>3, <1>4, SqlStep, DiskStep, QueryStep, DbEnds DEF DbNext, Serves

\* A running server has every increment it confirmed and none nobody asked for; a read is never told
\* a record that was replaced before it was asked, nor a count below what was confirmed by then; and a
\* table is created before it is used (postgres-db.ts, sqlite-db.ts, providers.ts:233-288).
THEOREM ReadsAreAlwaysHonest == DbSpec => []ReadsAreHonest
<1>1. DbInit => DbInv
  <2> SUFFICES ASSUME DbInit PROVE DbInv
    OBVIOUS
  <2>1. DbTyped
    BY DatabasesAssumption DEF DbInit, DbTyped, Idle, Call, Ops
  <2>2. TablesFirst /\ CallsHold /\ ReadsAreCurrent
    BY DEF DbInit, TablesFirst, TablesComeFirst, CallsHold, CallHolds, Asking, ReadsAreCurrent, Idle
  <2>3. CountHolds /\ Current.row \notin gone
    BY DEF DbInit, CountHolds, Current
  <2> QED
    BY <2>1, <2>2, <2>3 DEF DbInv
<1>2. DbInv => ReadsAreHonest
  BY DEF DbInv, ReadsAreHonest, CountIsHonest, CountHolds, TablesFirst, DbTyped
<1> QED
  BY <1>1, <1>2, DbStep, PTL DEF DbSpec

\* A request, an intact record, and how many increments are under way.
TypedCall == [step : {"idle", "client", "schema", "statement", "done", "error"}, op : Ops, value : Int,
              before : SUBSET (0..MaxWrites)]
IntactRecord == [row : 0..MaxWrites, hits : Nat]
Increments == Asked("increment")

\* A put's value is one of those asked for; increments under way are counted among the writes asked for;
\* and a record of the tables is never cut short.
DbBounded ==
  /\ \A c \in Calls : call[c].op = "put" => call[c].value \in 0..puts
  /\ IsFiniteSet(Increments) /\ puts + acked + doubted + Cardinality(Increments) <= MaxWrites
  /\ database # "disk" => stored \in IntactRecord

DbWellTyped == DbTypeOK /\ DbBounded

LEMMA IncrementsLeave ==
  ASSUME DbWellTyped, Increments' \subseteq Increments
  PROVE  /\ IsFiniteSet(Increments)' /\ Cardinality(Increments)' \in Nat /\ Cardinality(Increments) \in Nat
         /\ Cardinality(Increments)' <= Cardinality(Increments)
BY FS_Subset, FS_CardinalityType DEF DbWellTyped, DbBounded

LEMMA IncrementLeaves ==
  ASSUME DbWellTyped, NEW c \in Increments, Increments' = Increments \ {c}
  PROVE  /\ IsFiniteSet(Increments)' /\ Cardinality(Increments)' \in Nat /\ Cardinality(Increments) \in Nat
         /\ Cardinality(Increments)' = Cardinality(Increments) - 1
BY FS_RemoveElement, FS_CardinalityType DEF DbWellTyped, DbBounded

LEMMA IncrementComes ==
  ASSUME DbWellTyped, NEW c, c \notin Increments, Increments' = Increments \cup {c}
  PROVE  /\ IsFiniteSet(Increments)' /\ Cardinality(Increments)' \in Nat /\ Cardinality(Increments) \in Nat
         /\ Cardinality(Increments)' = Cardinality(Increments) + 1
BY FS_AddElement, FS_CardinalityType DEF DbWellTyped, DbBounded

\* What is written, of a record that is intact.
LEMMA UpsertTypes ==
  ASSUME NEW t \in IntactRecord, NEW q, q.op = "put" => q.value \in 0..MaxWrites
  PROVE  Upsert(t, q) \in IntactRecord
BY DEF Upsert, IntactRecord

\* A request becomes another one.
LEMMA CallTypes ==
  ASSUME DbWellTyped, NEW c \in Calls, NEW next \in TypedCall, call' = [call EXCEPT ![c] = next],
         next.op = "put" => next.value \in 0..puts', puts' >= puts, puts' \in Nat
  PROVE  /\ call' \in [Calls -> TypedCall]
         /\ \A d \in Calls : call'[d].op = "put" => call'[d].value \in 0..puts'
         /\ next.op # "increment" \/ next.step \notin {"client", "schema", "statement"} =>
              Increments' = Increments \ {c}
         /\ next.op = "increment" /\ next.step \in {"client", "schema", "statement"} =>
              Increments' = Increments \cup {c}
<1>1. call \in [Calls -> TypedCall] /\ puts \in Nat
  BY DEF DbWellTyped, DbTypeOK, TypedCall
<1>2. call' \in [Calls -> TypedCall] /\ call'[c] = next /\ \A d \in Calls \ {c} : call'[d] = call[d]
  BY <1>1
<1>3. \A d \in Calls : call'[d].op = "put" => call'[d].value \in 0..puts'
  BY <1>1, <1>2 DEF DbWellTyped, DbBounded
<1>4. next.step \in {"idle", "client", "schema", "statement", "done", "error"}
  BY DEF TypedCall
<1> QED
  BY <1>2, <1>3, <1>4 DEF Increments, Asked, InFlight

\* A request goes to another step, and its increment no further than before.
LEMMA GoTypes ==
  ASSUME DbWellTyped, NEW c \in Calls, NEW step \in {"client", "schema", "statement", "error"}, Go(c, step),
         c \in InFlight, puts' = puts
  PROVE  /\ call' \in [Calls -> TypedCall]
         /\ \A d \in Calls : call'[d].op = "put" => call'[d].value \in 0..puts'
         /\ Increments' \subseteq Increments
         /\ step = "error" => Increments' = Increments \ {c}
<1> DEFINE next == [call[c] EXCEPT !.step = step]
<1>1. call[c] \in TypedCall /\ puts \in Nat
  BY DEF DbWellTyped, DbTypeOK, TypedCall
<1>2. next \in TypedCall /\ next.step = step /\ next.op = call[c].op /\ next.value = call[c].value
  BY <1>1 DEF TypedCall
<1>3. call' = [call EXCEPT ![c] = next]
  BY DEF Go
<1>4. next.op = "put" => next.value \in 0..puts'
  BY <1>2 DEF DbWellTyped, DbBounded
<1>5. next.op = "increment" => c \in Increments
  BY <1>2 DEF Increments, Asked
<1>6. puts' >= puts /\ puts' \in Nat
  BY <1>1
<1> HIDE DEF next
<1>7. /\ call' \in [Calls -> TypedCall]
      /\ \A d \in Calls : call'[d].op = "put" => call'[d].value \in 0..puts'
      /\ next.op # "increment" \/ next.step \notin {"client", "schema", "statement"} =>
           Increments' = Increments \ {c}
      /\ next.op = "increment" /\ next.step \in {"client", "schema", "statement"} =>
           Increments' = Increments \cup {c}
  BY <1>2, <1>3, <1>4, <1>6, CallTypes
<1> QED
  BY <1>2, <1>5, <1>7

\* A request is answered from an intact record.
LEMMA AnswerTypes ==
  ASSUME DbWellTyped, NEW c \in Calls, call[c].step = "statement", NEW t \in IntactRecord, Answers(c, t)
  PROVE  /\ call' \in [Calls -> TypedCall]
         /\ \A d \in Calls : call'[d].op = "put" => call'[d].value \in 0..puts'
         /\ puts' = puts /\ doubted' = doubted /\ reads' = reads
         /\ confirmed' \subseteq 0..MaxWrites /\ gone' \subseteq 0..MaxWrites
         /\ IsFiniteSet(Increments)' /\ acked' \in Nat /\ Cardinality(Increments)' \in Nat
         /\ puts' + acked' + doubted' + Cardinality(Increments)' <= MaxWrites
<1> DEFINE v == CASE call[c].op = "get" -> t.row
                  [] call[c].op = "count" -> t.hits - call[c].value
                  [] OTHER -> call[c].value
           next == [[call[c] EXCEPT !.step = "done"] EXCEPT !.value = v]
<1>1. /\ call[c] \in TypedCall /\ puts \in 0..MaxWrites /\ acked \in Nat /\ doubted \in Nat /\ MaxWrites \in Nat
      /\ confirmed \subseteq 0..MaxWrites /\ gone \subseteq 0..MaxWrites
      /\ (call[c].op = "put" => call[c].value \in 0..puts)
  BY BoundAssumption DEF DbWellTyped, DbTypeOK, TypedCall, DbBounded
<1>2. v \in Int /\ (call[c].op = "put" => v = call[c].value)
  BY <1>1 DEF TypedCall, IntactRecord
<1>3. call' = [call EXCEPT ![c] = next]
  BY DEF Answers, DbWellTyped, DbTypeOK, TypedCall
<1> HIDE DEF v
<1>4. next \in TypedCall /\ next.step = "done" /\ next.op = call[c].op /\ next.value = v
  BY <1>1, <1>2 DEF TypedCall
<1> HIDE DEF next
<1>5. /\ confirmed' = IF call[c].op = "put" THEN confirmed \cup {call[c].value} ELSE confirmed
      /\ gone' = IF call[c].op = "put" THEN gone \cup call[c].before ELSE gone
      /\ acked' = IF call[c].op = "increment" THEN acked + 1 ELSE acked
      /\ UNCHANGED <<puts, doubted, reads>>
  BY DEF Answers
<1>6. confirmed' \subseteq 0..MaxWrites /\ gone' \subseteq 0..MaxWrites
  <2>1. call[c].before \subseteq 0..MaxWrites
    BY <1>1 DEF TypedCall
  <2>2. call[c].op = "put" => call[c].value \in 0..MaxWrites
    BY <1>1
  <2> QED
    BY <1>1, <1>5, <2>1, <2>2
<1>7. /\ call' \in [Calls -> TypedCall] /\ Increments' = Increments \ {c}
      /\ \A d \in Calls : call'[d].op = "put" => call'[d].value \in 0..puts'
  <2>1. puts' >= puts /\ puts' \in Nat /\ (next.op = "put" => next.value \in 0..puts')
    BY <1>1, <1>2, <1>4, <1>5
  <2> QED
    BY <1>3, <1>4, <2>1, CallTypes
<1>8. /\ IsFiniteSet(Increments)' /\ acked' \in Nat /\ Cardinality(Increments)' \in Nat
      /\ puts' + acked' + doubted' + Cardinality(Increments)' <= MaxWrites
  <2>0. puts + acked + doubted + Cardinality(Increments) <= MaxWrites
    BY DEF DbWellTyped, DbBounded
  <2>1. CASE call[c].op = "increment"
    <3>1. c \in Increments
      BY <2>1 DEF Increments, Asked, InFlight
    <3>2. /\ IsFiniteSet(Increments)' /\ Cardinality(Increments)' \in Nat /\ Cardinality(Increments) \in Nat
          /\ Cardinality(Increments)' = Cardinality(Increments) - 1
      BY <1>7, <3>1, IncrementLeaves
    <3> QED
      BY <1>1, <1>5, <2>0, <2>1, <3>2
  <2>2. CASE call[c].op # "increment"
    BY <1>1, <1>5, <1>7, <2>0, <2>2, IncrementsLeave
  <2> QED
    BY <2>1, <2>2
<1> QED
  BY <1>5, <1>6, <1>7, <1>8

\* A request fails, and its increment is doubted.
LEMMA DoubtTypes ==
  ASSUME DbWellTyped, NEW c \in Calls, call[c].step = "statement", Doubt(c)
  PROVE  /\ call' \in [Calls -> TypedCall]
         /\ \A d \in Calls : call'[d].op = "put" => call'[d].value \in 0..puts'
         /\ puts' = puts /\ acked' = acked /\ reads' = reads /\ confirmed' = confirmed /\ gone' = gone
         /\ IsFiniteSet(Increments)' /\ doubted' \in Nat /\ Cardinality(Increments)' \in Nat
         /\ puts' + acked' + doubted' + Cardinality(Increments)' <= MaxWrites
<1>1. /\ puts \in 0..MaxWrites /\ acked \in Nat /\ doubted \in Nat /\ MaxWrites \in Nat
      /\ puts + acked + doubted + Cardinality(Increments) <= MaxWrites
  BY BoundAssumption DEF DbWellTyped, DbTypeOK, DbBounded
<1>2. /\ Go(c, "error") /\ doubted' = (IF call[c].op = "increment" THEN doubted + 1 ELSE doubted)
      /\ UNCHANGED <<puts, confirmed, gone, acked, reads>>
  BY DEF Doubt
<1>3. c \in InFlight
  BY DEF InFlight
<1>4. /\ call' \in [Calls -> TypedCall] /\ Increments' = Increments \ {c}
      /\ \A d \in Calls : call'[d].op = "put" => call'[d].value \in 0..puts'
  BY <1>2, <1>3, GoTypes
<1>5. CASE call[c].op = "increment"
  <2>1. c \in Increments
    BY <1>3, <1>5 DEF Increments, Asked
  <2>2. /\ IsFiniteSet(Increments)' /\ Cardinality(Increments)' \in Nat /\ Cardinality(Increments) \in Nat
        /\ Cardinality(Increments)' = Cardinality(Increments) - 1
    BY <1>4, <2>1, IncrementLeaves
  <2> QED
    BY <1>1, <1>2, <1>4, <1>5, <2>2
<1>6. CASE call[c].op # "increment"
  BY <1>1, <1>2, <1>4, <1>6, IncrementsLeave
<1> QED
  BY <1>5, <1>6

LEMMA DbInitTypes == DbInit => DbWellTyped
<1> SUFFICES ASSUME DbInit PROVE DbWellTyped
  OBVIOUS
<1>1. Idle \in TypedCall /\ Idle.step = "idle" /\ Idle.op = "get"
  BY DEF Idle, TypedCall, Ops
<1>2. call \in [Calls -> TypedCall] /\ \A c \in Calls : call[c] = Idle
  BY <1>1 DEF DbInit
<1>3. Increments = {}
  BY <1>1, <1>2 DEF Increments, Asked, InFlight
<1>4. DbTypeOK
  <2>1. stored = [row |-> 0, hits |-> 0] /\ memory = [row |-> 0, hits |-> 0] /\ 0 \in 0..MaxWrites
        /\ 0 \in 0..MaxReads /\ 0 \in 0..MaxFaults /\ 0 \in 0..MaxRestarts
    BY BoundAssumption DEF DbInit
  <2>2. /\ stored \in [row : 0..MaxWrites \cup {Torn}, hits : Nat \cup {Torn}]
        /\ memory \in [row : 0..MaxWrites, hits : Nat]
    BY <2>1
  <2>3. reachable \in BOOLEAN /\ alive \in BOOLEAN /\ tables \in BOOLEAN
    BY Zenon DEF DbInit
  <2>4. /\ database \in Databases /\ client \in Promise /\ schema \in Promise
        /\ puts = 0 /\ confirmed = {0} /\ gone = {} /\ acked = 0 /\ doubted = 0 /\ reads = 0
        /\ faults = 0 /\ restarts = 0
    BY DEF DbInit, Promise
  <2> QED
    BY <1>2, <2>1, <2>2, <2>3, <2>4 DEF DbTypeOK, TypedCall
<1> QED
  BY <1>1, <1>2, <1>3, <1>4, FS_EmptySet, BoundAssumption DEF DbWellTyped, DbBounded, DbInit, IntactRecord

LEMMA DbStepTypes == DbWellTyped /\ [DbNext]_dbVars => DbWellTyped'
<1> SUFFICES ASSUME DbWellTyped, [DbNext]_dbVars PROVE DbWellTyped'
  OBVIOUS
<1> DEFINE TornRecord == [row : 0..MaxWrites \cup {Torn}, hits : Nat \cup {Torn}]
           Connected == /\ database' = database /\ reachable' \in BOOLEAN /\ alive' \in BOOLEAN /\ tables' \in BOOLEAN
                        /\ client' \in Promise /\ schema' \in Promise
                        /\ faults' \in 0..MaxFaults /\ restarts' \in 0..MaxRestarts
           Kept == /\ stored' \in TornRecord /\ memory' \in IntactRecord
                   /\ database # "disk" => stored' \in IntactRecord
           Told == /\ call' \in [Calls -> TypedCall]
                   /\ \A d \in Calls : call'[d].op = "put" => call'[d].value \in 0..puts'
                   /\ puts' \in Nat /\ acked' \in Nat /\ doubted' \in Nat /\ reads' \in 0..MaxReads
                   /\ confirmed' \subseteq 0..MaxWrites /\ gone' \subseteq 0..MaxWrites
                   /\ IsFiniteSet(Increments)' /\ Cardinality(Increments)' \in Nat
                   /\ puts' + acked' + doubted' + Cardinality(Increments)' <= MaxWrites
<1>0. /\ database \in Databases /\ reachable \in BOOLEAN /\ alive \in BOOLEAN /\ tables \in BOOLEAN
      /\ client \in Promise /\ schema \in Promise /\ faults \in 0..MaxFaults /\ restarts \in 0..MaxRestarts
      /\ stored \in TornRecord /\ memory \in IntactRecord /\ (database # "disk" => stored \in IntactRecord)
      /\ call \in [Calls -> TypedCall] /\ puts \in 0..MaxWrites /\ acked \in 0..MaxWrites /\ doubted \in Nat
      /\ reads \in 0..MaxReads /\ confirmed \subseteq 0..MaxWrites /\ gone \subseteq 0..MaxWrites
      /\ \A c \in Calls : call[c].op = "put" => call[c].value \in 0..puts
      /\ IsFiniteSet(Increments) /\ puts + acked + doubted + Cardinality(Increments) <= MaxWrites
      /\ MaxWrites \in Nat /\ MaxReads \in Nat /\ MaxFaults \in Nat /\ MaxRestarts \in Nat
      /\ Cardinality(Increments) \in Nat
  BY BoundAssumption, FS_CardinalityType DEF DbWellTyped, DbTypeOK, DbBounded, TypedCall, IntactRecord
<1>q. Connected /\ Kept /\ Told => DbWellTyped'
  <2> SUFFICES ASSUME Connected, Kept, Told PROVE DbWellTyped'
    OBVIOUS
  <2>1. puts' \in 0..MaxWrites /\ acked' \in 0..MaxWrites
    BY <1>0
  <2> QED
    BY <1>0, <2>1 DEF DbWellTyped, DbTypeOK, DbBounded, TypedCall, IntactRecord
<1>c. UNCHANGED <<database, reachable, alive, connection, tables, restarts>> /\ faults' \in 0..MaxFaults => Connected
  BY <1>0 DEF connection
<1>k. UNCHANGED <<database, stored, memory>> => Kept
  BY <1>0
<1>t. UNCHANGED history /\ UNCHANGED call => Told
  <2> SUFFICES ASSUME UNCHANGED history, UNCHANGED call PROVE Told
    OBVIOUS
  <2>1. Increments' = Increments
    BY DEF Increments, Asked, InFlight
  <2>2. UNCHANGED <<puts, confirmed, gone, acked, doubted, reads>>
    BY DEF history
  <2>3. IsFiniteSet(Increments)' /\ Cardinality(Increments)' = Cardinality(Increments)
    BY <1>0, <2>1
  <2> QED
    BY <1>0, <2>2, <2>3
<1>g. ASSUME NEW c \in Calls, NEW step \in {"client", "schema", "statement", "error"}, Go(c, step),
             c \in InFlight, UNCHANGED history
      PROVE  Told
  <2>1. /\ call' \in [Calls -> TypedCall]
        /\ \A d \in Calls : call'[d].op = "put" => call'[d].value \in 0..puts'
        /\ Increments' \subseteq Increments
    BY <1>g, GoTypes DEF history
  <2>2. /\ IsFiniteSet(Increments)' /\ Cardinality(Increments)' \in Nat
        /\ Cardinality(Increments)' <= Cardinality(Increments)
    BY <2>1, IncrementsLeave
  <2>3. UNCHANGED <<puts, confirmed, gone, acked, doubted, reads>>
    BY <1>g DEF history
  <2> QED
    BY <1>0, <2>1, <2>2, <2>3
<1>1. ASSUME NEW c \in Calls, NEW op \in Ops, Query(c, op) PROVE DbWellTyped'
  <2> DEFINE next == [step |-> IF database = "disk" THEN "statement" ELSE "client", op |-> op,
                      value |-> CASE op = "put" -> puts + 1 [] op = "count" -> acked [] OTHER -> 0,
                      before |-> CASE op = "put" -> confirmed [] op = "get" -> gone [] OTHER -> {}]
  <2>1. /\ c \notin InFlight /\ call' = [call EXCEPT ![c] = next]
        /\ puts' = (IF op = "put" THEN puts + 1 ELSE puts)
        /\ op \in Writes => puts + acked + doubted + Cardinality(Increments) < MaxWrites
        /\ reads' \in {reads, reads + 1} /\ (reads' = reads + 1 => reads < MaxReads)
        /\ UNCHANGED <<database, reachable, alive, connection, tables, stored, memory, confirmed, gone, acked,
                       doubted, faults, restarts>>
    <3>1. c \notin InFlight /\ call' = [call EXCEPT ![c] = next]
      BY <1>1, Zenon DEF Query
    <3>2. IF op \in Writes
            THEN puts + acked + doubted + Cardinality(Increments) < MaxWrites /\ UNCHANGED reads
            ELSE reads < MaxReads /\ reads' = reads + 1
      BY <1>1, Zenon DEF Query, Increments
    <3>3. puts' = (IF op = "put" THEN puts + 1 ELSE puts)
      BY <1>1, Zenon DEF Query
    <3>4. UNCHANGED <<database, reachable, alive, connection, tables, stored, memory, confirmed, gone, acked,
                      doubted, faults, restarts>>
      BY <1>1, Zenon DEF Query
    <3> HIDE DEF next
    <3> QED
      BY <1>0, <3>1, <3>2, <3>3, <3>4
  <2>2. next \in TypedCall /\ next.op = op /\ next.step \in {"statement", "client"}
    BY <1>0 DEF TypedCall, Ops
  <2>3. puts' >= puts /\ puts' \in Nat /\ (op = "put" => next.value \in 0..puts')
    BY <1>0, <2>1
  <2> HIDE DEF next
  <2>4. /\ call' \in [Calls -> TypedCall]
        /\ \A d \in Calls : call'[d].op = "put" => call'[d].value \in 0..puts'
        /\ op # "increment" => Increments' = Increments \ {c}
        /\ op = "increment" => Increments' = Increments \cup {c}
    BY <2>1, <2>2, <2>3, CallTypes
  <2>5. c \notin Increments
    BY <2>1 DEF Increments, Asked
  <2>6. /\ IsFiniteSet(Increments)' /\ Cardinality(Increments)' \in Nat
        /\ puts' + acked' + doubted' + Cardinality(Increments)' <= MaxWrites
    <3>1. CASE op = "increment"
      <4>1. /\ IsFiniteSet(Increments)' /\ Cardinality(Increments)' \in Nat
            /\ Cardinality(Increments)' = Cardinality(Increments) + 1
        BY <2>4, <2>5, <3>1, IncrementComes
      <4> QED
        BY <1>0, <2>1, <3>1, <4>1 DEF Writes
    <3>2. CASE op # "increment"
      <4>1. /\ IsFiniteSet(Increments)' /\ Cardinality(Increments)' \in Nat
            /\ Cardinality(Increments)' <= Cardinality(Increments)
        BY <2>4, <3>2, IncrementsLeave
      <4>2. CASE op = "put"
        BY <1>0, <2>1, <4>1, <4>2 DEF Writes
      <4>3. CASE op # "put"
        BY <1>0, <2>1, <4>1, <4>3
      <4> QED
        BY <4>2, <4>3
    <3> QED
      BY <3>1, <3>2
  <2>7. Told
    BY <1>0, <2>1, <2>3, <2>4, <2>6
  <2> QED
    BY <1>0, <1>q, <1>c, <1>k, <2>1, <2>7
<1>2. ASSUME NEW c \in Calls, AwaitClient(c) \/ AwaitSchema(c) PROVE DbWellTyped'
  <2>1. /\ UNCHANGED <<database, reachable, alive, tables, stored, memory, history, faults, restarts>>
        /\ client' \in {client, "pending"} /\ schema' \in {schema, "pending"}
        /\ UNCHANGED call \/ \E step \in {"client", "schema", "statement", "error"} : Go(c, step)
        /\ c \in InFlight
    BY <1>2 DEF AwaitClient, AwaitSchema, InFlight
  <2>2. Connected
    BY <1>0, <2>1 DEF Promise
  <2>3. Told
    BY <1>t, <1>g, <2>1
  <2> QED
    BY <1>q, <1>k, <2>1, <2>2, <2>3
<1>3. CASE SqliteOpens \/ PoolOpens \/ SchemaEnds \/ Outage \/ OutageEnds
  <2>1. /\ UNCHANGED <<database, alive, stored, memory, call, history, restarts>>
        /\ client' \in {client, "resolved", "rejected"} /\ schema' \in {schema, "resolved", "rejected"}
        /\ faults' \in {faults, faults + 1} /\ (faults' = faults + 1 => faults < MaxFaults)
        /\ reachable' \in {reachable, TRUE, FALSE}
        /\ tables' = (tables \/ reachable) \/ tables' = TRUE \/ tables' = tables
    <3>1. CASE SqliteOpens
      BY <1>0, <3>1 DEF SqliteOpens
    <3>2. CASE PoolOpens
      BY <1>0, <3>2 DEF PoolOpens
    <3>3. CASE SchemaEnds
      BY <1>0, <3>3 DEF SchemaEnds
    <3>4. CASE Outage
      BY <1>0, <3>4 DEF Outage, connection
    <3>5. CASE OutageEnds
      BY <1>0, <3>5 DEF OutageEnds, connection
    <3> QED
      BY <1>3, <3>1, <3>2, <3>3, <3>4, <3>5
  <2>2. tables' \in BOOLEAN
    BY <1>0, <2>1, Zenon
  <2>3. Connected
    <3>1. reachable' \in BOOLEAN /\ alive' \in BOOLEAN
      BY <1>0, <2>1, Zenon
    <3>2. faults' \in 0..MaxFaults /\ client' \in Promise /\ schema' \in Promise
      BY <1>0, <2>1 DEF Promise
    <3> QED
      BY <1>0, <2>1, <2>2, <3>1, <3>2
  <2> QED
    BY <1>q, <1>k, <1>t, <2>1, <2>3
<1>4. ASSUME NEW c \in Calls, NEW t \in IntactRecord, call[c].step = "statement", Answers(c, t) PROVE Told
  BY <1>0, <1>4, AnswerTypes
<1>5. ASSUME NEW c \in Calls, call[c].step = "statement", Doubt(c) PROVE Told
  <2>1. /\ call' \in [Calls -> TypedCall]
        /\ \A d \in Calls : call'[d].op = "put" => call'[d].value \in 0..puts'
        /\ puts' = puts /\ acked' = acked /\ reads' = reads /\ confirmed' = confirmed /\ gone' = gone
        /\ IsFiniteSet(Increments)' /\ doubted' \in Nat /\ Cardinality(Increments)' \in Nat
        /\ puts' + acked' + doubted' + Cardinality(Increments)' <= MaxWrites
    BY <1>5, DoubtTypes
  <2> QED
    BY <1>0, <2>1
<1>6. ASSUME NEW c \in Calls, PostgresStatement(c) \/ SqliteStatement(c) PROVE DbWellTyped'
  <2>1. /\ database # "disk" /\ call[c].step = "statement" /\ stored' = Upsert(stored, call[c])
        /\ Answers(c, stored) \/ Doubt(c)
        /\ faults' \in {faults, faults + 1} /\ (faults' = faults + 1 => faults < MaxFaults)
        /\ UNCHANGED <<database, reachable, alive, connection, tables, memory, restarts>>
    <3>1. CASE PostgresStatement(c)
      BY <1>0, <3>1 DEF PostgresStatement
    <3>2. CASE SqliteStatement(c)
      BY <1>0, <3>2 DEF SqliteStatement
    <3> QED
      BY <1>6, <3>1, <3>2
  <2>2. call[c].op = "put" => call[c].value \in 0..MaxWrites
    BY <1>0
  <2>3. stored' \in IntactRecord
    BY <1>0, <2>1, <2>2, UpsertTypes
  <2>4. Kept
    BY <1>0, <2>1, <2>3 DEF IntactRecord
  <2> QED
    BY <1>0, <1>q, <1>c, <1>4, <1>5, <2>1, <2>4
<1>7. ASSUME NEW c \in Calls, StatementFails(c) PROVE DbWellTyped'
  <2>1. /\ Go(c, "error") /\ c \in InFlight
        /\ UNCHANGED <<database, reachable, alive, connection, tables, stored, memory, history, faults, restarts>>
    BY <1>7 DEF StatementFails, InFlight
  <2> QED
    BY <1>0, <1>q, <1>c, <1>k, <1>g, <2>1
<1>8. ASSUME NEW c \in Calls, DiskStatement(c) PROVE DbWellTyped'
  <2>1. /\ database = "disk" /\ call[c].step = "statement" /\ memory' = Upsert(memory, call[c])
        /\ Answers(c, memory) \/ Doubt(c)
        /\ \/ stored' \in {[stored EXCEPT !.row = memory'.row], [stored EXCEPT !.hits = memory'.hits], stored}
           \/ stored' \in {[stored EXCEPT !.row = Torn], [stored EXCEPT !.hits = Torn]}
        /\ faults' \in {faults, faults + 1} /\ (faults' = faults + 1 => faults < MaxFaults)
        /\ UNCHANGED <<database, reachable, alive, connection, tables, restarts>>
    <3>1. /\ database = "disk" /\ call[c].step = "statement" /\ memory' = Upsert(memory, call[c])
          /\ UNCHANGED <<database, reachable, alive, connection, tables, restarts>>
      BY <1>8 DEF DiskStatement
    <3>2. \/ /\ Answers(c, memory) /\ UNCHANGED faults
             /\ stored' = CASE call[c].op = "put" -> [stored EXCEPT !.row = memory'.row]
                            [] call[c].op = "increment" -> [stored EXCEPT !.hits = memory'.hits]
                            [] OTHER -> stored
          \/ /\ faults < MaxFaults /\ faults' = faults + 1 /\ Doubt(c)
             /\ stored' = IF call[c].op = "put" THEN [stored EXCEPT !.row = Torn] ELSE [stored EXCEPT !.hits = Torn]
      BY <1>8 DEF DiskStatement
    <3> QED
      BY <1>0, <3>1, <3>2
  <2>2. call[c].op = "put" => call[c].value \in 0..MaxWrites
    BY <1>0
  <2>3. memory' \in IntactRecord
    BY <1>0, <2>1, <2>2, UpsertTypes
  <2>4. memory'.row \in 0..MaxWrites /\ memory'.hits \in Nat
    BY <2>3 DEF IntactRecord
  <2>5. stored' \in TornRecord
    BY <1>0, <2>1, <2>4
  <2> QED
    BY <1>0, <1>q, <1>c, <1>4, <1>5, <2>1, <2>3, <2>5
<1>9. CASE Ends
  <2>1. /\ restarts < MaxRestarts /\ restarts' = restarts + 1 /\ alive' = FALSE
        /\ UNCHANGED <<database, reachable, connection, tables, memory, puts, confirmed, gone, acked, reads, faults>>
        /\ call' = [c \in Calls |-> IF c \in InFlight THEN [call[c] EXCEPT !.step = "error"] ELSE call[c]]
    BY <1>9 DEF Ends
  <2>2. /\ call' \in [Calls -> TypedCall]
        /\ \A d \in Calls : call'[d].op = "put" => call'[d].value \in 0..puts'
        /\ Increments' = {}
    <3>1. \A c \in Calls : /\ [call[c] EXCEPT !.step = "error"] \in TypedCall
                           /\ [call[c] EXCEPT !.step = "error"].op = call[c].op
                           /\ [call[c] EXCEPT !.step = "error"].value = call[c].value
                           /\ [call[c] EXCEPT !.step = "error"].step = "error"
      BY <1>0 DEF TypedCall
    <3>2. \A c \in Calls : call'[c] \in TypedCall /\ call'[c].op = call[c].op /\ call'[c].value = call[c].value
                           /\ call'[c].step \in {"idle", "done", "error"}
      <4> SUFFICES ASSUME NEW c \in Calls
                   PROVE  call'[c] \in TypedCall /\ call'[c].op = call[c].op /\ call'[c].value = call[c].value
                          /\ call'[c].step \in {"idle", "done", "error"}
        OBVIOUS
      <4>1. CASE c \in InFlight
        <5>1. call'[c] = [call[c] EXCEPT !.step = "error"]
          BY <2>1, <4>1
        <5> QED
          BY <3>1, <5>1
      <4>2. CASE c \notin InFlight
        <5>1. call'[c] = call[c] /\ call[c].step \in {"idle", "done", "error"}
          BY <2>1, <4>2 DEF InFlight
        <5> QED
          BY <1>0, <5>1
      <4> QED
        BY <4>1, <4>2
    <3>3. DOMAIN call' = Calls /\ call' = [c \in Calls |-> call'[c]]
      BY <2>1
    <3>4. Increments' = {}
      BY <3>2 DEF Increments, Asked, InFlight
    <3> QED
      BY <1>0, <2>1, <3>2, <3>3, <3>4
  <2>3. IsFiniteSet(Increments)' /\ Cardinality(Increments)' = 0
    BY <2>2, FS_EmptySet
  <2>4. Connected
    <3>1. alive' \in BOOLEAN /\ reachable' \in BOOLEAN /\ tables' \in BOOLEAN
      BY <1>0, <2>1, Zenon
    <3>2. restarts' \in 0..MaxRestarts
      BY <1>0, <2>1
    <3> QED
      BY <1>0, <2>1, <3>1, <3>2 DEF connection
  <2>5. CASE UNCHANGED <<stored, doubted>>
    <3>1. Told
      BY <1>0, <2>1, <2>2, <2>3, <2>5
    <3> QED
      BY <1>0, <1>q, <1>k, <2>1, <2>4, <2>5, <3>1
  <2>6. CASE ~UNCHANGED <<stored, doubted>>
    <3>1. PICK c \in Calls :
            /\ call[c].step = "statement"
            /\ doubted' = IF call[c].op = "increment" THEN doubted + 1 ELSE doubted
            /\ \/ /\ database = "disk"
                  /\ stored' \in {[stored EXCEPT !.row = Torn], [stored EXCEPT !.hits = Torn]}
               \/ Sql /\ stored' = Upsert(stored, call[c])
      BY <1>9, <2>6 DEF Ends
    <3>2. call[c].op = "increment" => Cardinality(Increments) >= 1
      <4>1. call[c].op = "increment" => c \in Increments
        BY <3>1 DEF Increments, Asked, InFlight
      <4>2. Cardinality(Increments) = 0 <=> Increments = {}
        BY <1>0, FS_EmptySet
      <4> QED
        BY <1>0, <4>1, <4>2
    <3>3. Told
      <4>1. doubted' \in Nat /\ doubted' <= doubted + Cardinality(Increments)
        BY <1>0, <3>1, <3>2
      <4> QED
        BY <1>0, <2>1, <2>2, <2>3, <4>1
    <3>4. Kept
      <4>1. CASE database = "disk" /\ stored' \in {[stored EXCEPT !.row = Torn], [stored EXCEPT !.hits = Torn]}
        BY <1>0, <2>1, <4>1
      <4>2. CASE database # "disk" /\ stored' = Upsert(stored, call[c])
        <5>1. call[c].op = "put" => call[c].value \in 0..MaxWrites
          BY <1>0
        <5>2. stored' \in IntactRecord
          BY <1>0, <4>2, <5>1, UpsertTypes
        <5> QED
          BY <1>0, <2>1, <5>2 DEF IntactRecord
      <4> QED
        BY <3>1, <4>1, <4>2 DEF Sql
    <3> QED
      BY <1>q, <2>4, <3>3, <3>4
  <2> QED
    BY <2>5, <2>6
<1>10. CASE Load
  <2>1. /\ alive' = TRUE /\ client' = "none" /\ schema' = "none"
        /\ UNCHANGED <<database, reachable, tables, stored, call, history, faults, restarts>>
        /\ database = "disk" => Torn \notin {stored.row, stored.hits}
        /\ memory' = IF database = "disk" THEN stored ELSE memory
    BY <1>10 DEF Load
  <2>2. memory' \in IntactRecord
    BY <1>0, <2>1 DEF IntactRecord
  <2>3. Connected /\ Kept
    BY <1>0, <2>1, <2>2 DEF Promise
  <2> QED
    BY <1>q, <1>t, <2>1, <2>3
<1>11. CASE UNCHANGED dbVars
  BY <1>0, <1>q, <1>c, <1>k, <1>t, <1>11 DEF dbVars, connection, history
<1> QED
  BY <1>1, <1>2, <1>3, <1>6, <1>7, <1>8, <1>9, <1>10, <1>11 DEF DbNext, Serves

\* Every variable of the databases keeps its type: a running server never answers from a file that was
\* cut short, and no more is written than was asked for, through outages, lost answers and restarts.
THEOREM DatabaseTypesHold == DbSpec => []DbTypeOK
<1>1. DbWellTyped => DbTypeOK
  BY DEF DbWellTyped
<1> QED
  BY <1>1, DbInitTypes, DbStepTypes, PTL DEF DbSpec

-----------------------------------------------------------------------------
(* The download of one blob, for every size of it, whatever the backend holds under its name, and *)
(* any number of dropped connections and ends of the app.                                          *)

\* The first n bytes of the blob, and those that come after them.
First(n) == [i \in 1..n |-> i]
Rest(n) == [i \in 1..(size - n) |-> n + i]

Had == IF part = NoBytes THEN 0 ELSE Len(part)

\* What was verified, decrypted and placed is the signed blob.
SignedBytes ==
  /\ size \in Nat
  /\ At("verified") => part = Whole
  /\ At("decrypted") => plain = Whole
  /\ PlacedIsSigned

\* While nothing was spoiled the part file holds the first bytes of the blob, as many as were fetched,
\* and what is on its way are the others.
NothingTwice == ~spoiled =>
  /\ served = Whole /\ fetched \in Nat /\ fetched <= size
  /\ out # NoBytes \/ At("decrypted") \/ fetched = Had
  /\ part # NoBytes => part = First(fetched)
  /\ attempt.step \in {"asked", "sized"} => attempt.first = fetched /\ fetched < size
  /\ At("sized") => attempt.size = size
  /\ At("receiving") => part # NoBytes /\ rest = Rest(fetched)
  /\ attempt.step \in {"arrived", "verified"} => fetched = size

AttemptTyped ==
  /\ attempt.step \in {"idle", "asked", "sized", "receiving", "arrived", "verified", "decrypted"}
  /\ attempt = [step |-> attempt.step, first |-> attempt.first, size |-> attempt.size,
                append |-> attempt.append]

DlInv ==
  /\ SignedBytes /\ NothingTwice /\ (out # NoBytes => At("idle"))
  /\ AttemptTyped
  /\ spoiled \in BOOLEAN

\* How the bytes move from the stream to the file.
LEMMA Bytes ==
  ASSUME size \in Nat
  PROVE  /\ Whole = First(size) /\ Whole \in Seq(Nat) /\ Whole # NoBytes /\ Len(Whole) = size
         /\ \A n \in Nat : First(n) \in Seq(Nat) /\ Len(First(n)) = n
         /\ First(0) = <<>>
         /\ \A n \in 0..size : SubSeq(Whole, n + 1, size) = Rest(n)
         /\ \A n \in 0..size : Rest(n) = <<>> => n = size
         /\ \A n \in 0..(size - 1) :
              Append(First(n), Head(Rest(n))) = First(n + 1) /\ Tail(Rest(n)) = Rest(n + 1)
<1>1. \A n \in Nat : First(n) \in Seq(Nat) /\ Len(First(n)) = n
  BY DEF First
<1>2. Whole = First(size)
  BY DEF Whole, First
<1>3. Whole \in Seq(Nat) /\ Whole # NoBytes /\ Len(Whole) = size
  BY <1>1, <1>2, NoneAssumption
<1>4. First(0) = <<>>
  BY <1>1, EmptySeq
<1>5. \A n \in 0..size : Rest(n) \in Seq(Nat) /\ Len(Rest(n)) = size - n
  BY DEF Rest
<1>6. ASSUME NEW n \in 0..size PROVE SubSeq(Whole, n + 1, size) = Rest(n)
  <2>1. SubSeq(Whole, n + 1, size) = [i \in 1..(size - n) |-> Whole[n + i]]
    BY <1>3
  <2>2. \A i \in 1..(size - n) : Whole[n + i] = n + i
    BY DEF Whole
  <2> QED
    BY <2>1, <2>2 DEF Rest
<1>7. \A n \in 0..size : Rest(n) = <<>> => n = size
  BY <1>5, EmptySeq
<1>8. ASSUME NEW n \in 0..(size - 1)
      PROVE  Append(First(n), Head(Rest(n))) = First(n + 1) /\ Tail(Rest(n)) = Rest(n + 1)
  <2>1. /\ Rest(n) \in Seq(Nat) /\ Len(Rest(n)) = size - n /\ Rest(n) # <<>>
        /\ Head(Rest(n)) = n + 1
    BY <1>5, <1>7 DEF Rest
  <2>2. Append(First(n), n + 1) = First(n + 1)
    BY <1>1 DEF First
  <2>3. Tail(Rest(n)) = Rest(n + 1)
    <3>1. Tail(Rest(n)) \in Seq(Nat) /\ Len(Tail(Rest(n))) = size - n - 1
          /\ \A i \in 1..(size - n - 1) : Tail(Rest(n))[i] = Rest(n)[i + 1]
      BY <2>1, HeadTailProperties
    <3>2. Rest(n + 1) \in Seq(Nat) /\ Len(Rest(n + 1)) = size - n - 1
          /\ \A i \in 1..(size - n - 1) : Rest(n + 1)[i] = Rest(n)[i + 1]
      BY <1>5 DEF Rest
    <3> QED
      BY <3>1, <3>2, SeqEqual
  <2> QED
    BY <2>1, <2>2, <2>3
<1> QED
  BY <1>1, <1>2, <1>3, <1>4, <1>6, <1>7, <1>8

\* An attempt that ends where the blob was not decrypted yet leaves what it has for the next one.
LEMMA DlFails ==
  ASSUME DlInv, Fails, UNCHANGED <<size, served, part, plain, out, fetched>>,
         spoiled' \in BOOLEAN, spoiled => spoiled', At("decrypted") => spoiled'
  PROVE  DlInv'
BY DEF DlInv, SignedBytes, NothingTwice, PlacedIsSigned, Fails, NoAttempt, At, Whole, Had, Rest, First,
       AttemptTyped

\* An attempt takes an answer that has exactly what it lacks, or fails.
LEMMA DlTakes ==
  ASSUME DlInv, At("sized"), NEW code, NEW declared, NEW bytes, Takes(code, declared, bytes),
         UNCHANGED <<size, served, plain, out, fetched>>, spoiled' \in BOOLEAN, spoiled => spoiled',
         ~spoiled' /\ attempt'.step = "receiving" => part' # NoBytes /\ fetched = Len(part')
                                                     /\ part' = First(fetched) /\ rest' = Rest(fetched)
  PROVE  DlInv'
<1>1. CASE Fails /\ part' = part
  BY <1>1, DlFails DEF At
<1>2. CASE /\ attempt' = [attempt EXCEPT !.step = "receiving", !.append = (code = 206)]
  <2>1. /\ AttemptTyped'
        /\ attempt'.step = "receiving"
    BY <1>2 DEF DlInv, AttemptTyped
  <2>2. SignedBytes'
    BY <2>1 DEF DlInv, SignedBytes, PlacedIsSigned, At, Whole
  <2>3. out' = NoBytes
    BY DEF DlInv, At
  <2>4. NothingTwice'
    BY <2>1 DEF DlInv, NothingTwice, At, Had, Whole, Rest, First
  <2> QED
    BY <2>1, <2>2, <2>3, <2>4 DEF DlInv
<1> QED
  BY <1>1, <1>2 DEF Takes

\* The range that is asked for is what is lacking, and so is what is read.
LEMMA DlAnswers == DlInv /\ Answer => DlInv'
<1> SUFFICES ASSUME DlInv, Answer PROVE DlInv'
  OBVIOUS
<1> DEFINE range == ParseRange(IF attempt.first = 0 THEN Blank ELSE attempt.first, Blank, attempt.size)
<1>1. /\ At("sized") /\ UNCHANGED <<size, served, plain, out, fetched, spoiled>> /\ spoiled \in BOOLEAN
      /\ CASE range = All -> Takes(200, attempt.size, OpenReadStream(0, attempt.size - 1))
           [] range = Unsatisfiable -> Fails /\ UNCHANGED part
           [] OTHER -> Takes(206, range.end - range.start + 1, OpenReadStream(range.start, range.end))
  BY DEF Answer, DlInv
<1>a. /\ range = All => Takes(200, attempt.size, OpenReadStream(0, attempt.size - 1))
      /\ range # All /\ range # Unsatisfiable
           => Takes(206, range.end - range.start + 1, OpenReadStream(range.start, range.end))
  <2> HIDE DEF range
  <2>1. All # Unsatisfiable
    BY DEF All, Unsatisfiable
  <2> QED
    BY <1>1, <2>1
<1>2. CASE spoiled
  <2>1. CASE Fails /\ part' = part
    BY <1>1, <2>1, DlFails DEF At
  <2>2. ASSUME NEW code, NEW declared, NEW bytes, Takes(code, declared, bytes) PROVE DlInv'
    BY <1>1, <1>2, <2>2, DlTakes
  <2> QED
    BY <1>1, <2>1, <2>2
<1>3. CASE ~spoiled
  <2>1. /\ served = Whole /\ fetched \in Nat /\ fetched < size /\ size \in Nat
        /\ attempt.first = fetched /\ attempt.size = size /\ out = NoBytes
        /\ fetched = Had /\ (part # NoBytes => part = First(fetched))
    BY <1>1, <1>3 DEF DlInv, NothingTwice, SignedBytes, At
  <2>2. /\ Len(served) = size /\ Len(First(fetched)) = fetched /\ First(0) = <<>>
        /\ First(fetched) \in Seq(Nat) /\ First(0) \in Seq(Nat)
        /\ SubSeq(Whole, fetched + 1, size) = Rest(fetched)
    <3>1. fetched \in 0..size /\ 0 \in Nat
      BY <2>1
    <3> QED
      BY <2>1, <3>1, Bytes
  <2>3. CASE fetched = 0
    <3>1. range = All
      BY <2>1, <2>3 DEF ParseRange
    <3>2. OpenReadStream(0, attempt.size - 1) = Rest(0)
      BY <2>1, <2>2, <2>3 DEF OpenReadStream
    <3> HIDE DEF range
    <3>3. Takes(200, attempt.size, Rest(0))
      <4>1. Takes(200, attempt.size, OpenReadStream(0, attempt.size - 1))
        BY <1>a, <3>1
      <4> QED
        BY <3>2, <4>1
    <3>4. attempt'.step = "receiving" => part' = <<>> /\ rest' = Rest(0)
      BY <3>3 DEF Takes, Fails, NoAttempt
    <3>5. <<>> # NoBytes /\ Len(<<>>) = 0
      BY <2>2, NoneAssumption
    <3> QED
      BY <1>1, <2>2, <2>3, <3>3, <3>4, <3>5, DlTakes
  <2>4. CASE fetched # 0
    <3>1. range = [start |-> fetched, end |-> size - 1]
      BY <2>1, <2>4 DEF ParseRange, Blank
    <3>2. range # All /\ range # Unsatisfiable /\ range.start = fetched /\ range.end = size - 1
      BY <2>1, <3>1 DEF All, Unsatisfiable
    <3>3. OpenReadStream(range.start, range.end) = Rest(fetched)
      <4>1. range.start + 1 = fetched + 1 /\ range.end + 1 = size /\ ~(size < Len(served))
        BY <2>1, <2>2, <3>2
      <4>2. OpenReadStream(range.start, range.end) = SubSeq(served, fetched + 1, Len(served))
        BY <4>1 DEF OpenReadStream
      <4> QED
        BY <2>1, <2>2, <4>2
    <3> HIDE DEF range
    <3>4. Takes(206, range.end - range.start + 1, Rest(fetched))
      BY <1>a, <3>2, <3>3
    <3>5. attempt'.step = "receiving" => part' = part /\ rest' = Rest(fetched)
      BY <3>4 DEF Takes, Fails, NoAttempt
    <3>6. part # NoBytes
      BY <2>1, <2>4 DEF Had
    <3> QED
      BY <1>1, <2>1, <2>2, <3>4, <3>5, <3>6, DlTakes
  <2> QED
    BY <2>3, <2>4
<1> QED
  BY <1>1, <1>2, <1>3

\* One step of a download.
LEMMA DlStep == DlInv /\ [DlNext]_dlVars => DlInv'
<1> SUFFICES ASSUME DlInv, [DlNext]_dlVars PROVE DlInv'
  OBVIOUS
<1>s. size \in Nat /\ spoiled \in BOOLEAN
  BY DEF DlInv, SignedBytes
<1>d. /\ SignedBytes /\ NothingTwice /\ (out # NoBytes => At("idle"))
      /\ AttemptTyped
  BY DEF DlInv
<1>1. CASE DownloadBlob
  <2>1. PICK have : /\ have = IF Had > size THEN 0 ELSE Had
                    /\ attempt' = [NoAttempt EXCEPT !.step = IF have = size THEN "arrived" ELSE "asked",
                                                    !.first = have]
    BY <1>1 DEF DownloadBlob, Had
  <2>2. /\ UNCHANGED <<size, served, rest, plain, out, fetched, spoiled>> /\ out = NoBytes
        /\ At("idle") /\ part' = IF Had > size THEN NoBytes ELSE part
    BY <1>1 DEF DownloadBlob, Had
  <2>4. /\ attempt'.step \in {"arrived", "asked"} /\ (attempt'.step = "arrived" <=> have = size)
        /\ attempt'.first = have
        /\ AttemptTyped'
    <3>1. CASE have = size
      BY <2>1, <3>1 DEF NoAttempt, AttemptTyped
    <3>2. CASE have # size
      BY <2>1, <3>2 DEF NoAttempt, AttemptTyped
    <3> QED
      BY <3>1, <3>2
  <2>5. SignedBytes'
    BY <1>d, <2>2, <2>4 DEF SignedBytes, PlacedIsSigned, At, Whole
  <2>6. NothingTwice'
    BY <1>d, <1>s, <2>1, <2>2, <2>4 DEF NothingTwice, At, Whole, Had, First
  <2> QED
    BY <1>s, <2>2, <2>4, <2>5, <2>6 DEF DlInv
<1>2. CASE Stat
  <2>1. /\ UNCHANGED <<size, served, part, rest, plain, out, fetched, spoiled>> /\ At("asked")
        /\ attempt' = [attempt EXCEPT !.step = "sized", !.size = Len(served)]
    BY <1>2 DEF Stat
  <2>2. attempt'.step = "sized" /\ attempt'.first = attempt.first /\ attempt'.size = Len(served)
        /\ AttemptTyped'
    BY <1>d, <2>1 DEF AttemptTyped
  <2>3. SignedBytes' /\ out' = NoBytes
    BY <1>d, <2>1, <2>2 DEF SignedBytes, PlacedIsSigned, At, Whole
  <2>4. NothingTwice'
    <3>1. Len(Whole) = size
      BY <1>s, Bytes
    <3> QED
      BY <1>d, <1>s, <2>1, <2>2, <3>1 DEF NothingTwice, At, Whole, Had, First
  <2> QED
    BY <1>s, <2>1, <2>2, <2>3, <2>4 DEF DlInv
<1>3. CASE AnswerWhole
  <2>1. /\ At("sized") /\ UNCHANGED <<size, served, plain, out, fetched>> /\ spoiled' = TRUE
        /\ Takes(200, Len(served), served)
    BY <1>3 DEF AnswerWhole
  <2> QED
    BY <2>1, DlTakes
<1>4. CASE Receive
  <2>1. /\ At("receiving") /\ rest # <<>> /\ part' = Append(part, Head(rest)) /\ rest' = Tail(rest)
        /\ fetched' = IF spoiled THEN fetched ELSE fetched + 1
        /\ UNCHANGED <<size, served, attempt, plain, out, spoiled>>
    BY <1>4 DEF Receive
  <2>2. SignedBytes' /\ AttemptTyped' /\ out' = NoBytes
    BY <1>d, <2>1 DEF SignedBytes, PlacedIsSigned, At, Whole, AttemptTyped
  <2>3. CASE ~spoiled
    <3>1. /\ fetched \in 0..size /\ part = First(fetched) /\ rest = Rest(fetched) /\ served = Whole
      BY <1>d, <1>s, <2>1, <2>3 DEF NothingTwice, At
    <3>2. fetched # size
      BY <1>s, <2>1, <3>1 DEF Rest
    <3>3. fetched \in 0..(size - 1) /\ fetched + 1 \in Nat
      BY <1>s, <3>1, <3>2
    <3>4. /\ part' = First(fetched + 1) /\ rest' = Rest(fetched + 1)
          /\ Len(First(fetched + 1)) = fetched + 1 /\ First(fetched + 1) # NoBytes
      BY <1>s, <2>1, <3>1, <3>3, Bytes, NoneAssumption
    <3>5. /\ fetched' = fetched + 1 /\ size' = size /\ served' = served /\ attempt' = attempt
          /\ Whole' = Whole /\ First(fetched)' = First(fetched + 1) /\ Rest(fetched)' = Rest(fetched + 1)
      BY <2>1, <2>3 DEF Whole, First, Rest
    <3>6. part' # NoBytes /\ Had' = fetched'
      BY <3>4, <3>5 DEF Had
    <3>7. NothingTwice'
      <4> HIDE DEF First, Rest, Had
      <4> QED
        BY <1>s, <2>1, <3>1, <3>3, <3>4, <3>5, <3>6 DEF NothingTwice, At
    <3> QED
      BY <1>s, <2>1, <2>2, <3>7 DEF DlInv
  <2>4. CASE spoiled
    BY <1>s, <2>1, <2>2, <2>4 DEF DlInv, NothingTwice
  <2> QED
    BY <1>s, <2>3, <2>4
<1>5. CASE StreamEnds
  <2>1. /\ At("receiving") /\ rest = <<>> /\ UNCHANGED <<size, served, part, plain, out, fetched, spoiled>>
    BY <1>5 DEF StreamEnds
  <2>2. CASE Fails
    BY <1>s, <2>1, <2>2, DlFails DEF At
  <2>3. CASE attempt' = [attempt EXCEPT !.step = "arrived"]
    <3>1. attempt'.step = "arrived" /\ AttemptTyped'
      BY <1>d, <2>3 DEF AttemptTyped
    <3>2. SignedBytes' /\ out' = NoBytes
      BY <1>d, <2>1, <3>1 DEF SignedBytes, PlacedIsSigned, At, Whole
    <3>3. ~spoiled => fetched = size
      BY <1>d, <1>s, <2>1, Bytes DEF NothingTwice, At
    <3>4. NothingTwice'
      BY <1>d, <2>1, <3>1, <3>3 DEF NothingTwice, At, Whole, Had, First
    <3> QED
      BY <1>s, <2>1, <3>1, <3>2, <3>4 DEF DlInv
  <2> QED
    BY <1>5, <2>2, <2>3 DEF StreamEnds
<1>6. CASE Drops
  BY <1>6, <1>s, DlFails DEF Drops, At
<1>7. CASE Verify
  <2>1. At("arrived") /\ UNCHANGED <<size, served, plain, out, fetched, spoiled>>
    BY <1>7 DEF Verify
  <2>2. CASE Fails /\ part' = part
    BY <1>s, <2>1, <2>2, DlFails DEF At
  <2>3. CASE part = Whole /\ attempt' = [attempt EXCEPT !.step = "verified"] /\ UNCHANGED <<part, rest>>
    <3>1. attempt'.step = "verified" /\ AttemptTyped'
      BY <1>d, <2>3 DEF AttemptTyped
    <3>2. SignedBytes' /\ out' = NoBytes
      BY <1>d, <2>1, <2>3, <3>1 DEF SignedBytes, PlacedIsSigned, At, Whole
    <3>3. NothingTwice'
      BY <1>d, <2>1, <2>3, <3>1 DEF NothingTwice, At, Whole, Had, First
    <3> QED
      BY <1>s, <2>1, <3>1, <3>2, <3>3 DEF DlInv
  <2>4. CASE part # NoBytes /\ part # Whole /\ part' = NoBytes /\ Fails
    <3>1. spoiled
      BY <1>d, <1>s, <2>1, <2>4, Bytes DEF NothingTwice, At
    <3>2. attempt'.step = "idle" /\ AttemptTyped'
      BY <2>4 DEF Fails, NoAttempt, AttemptTyped
    <3>3. SignedBytes'
      BY <1>d, <2>1, <3>2 DEF SignedBytes, PlacedIsSigned, At, Whole
    <3> QED
      BY <1>s, <2>1, <3>1, <3>2, <3>3 DEF DlInv, NothingTwice, At
  <2> QED
    BY <1>7, <2>2, <2>3, <2>4 DEF Verify
<1>8. CASE Decrypt
  <2>1. /\ At("verified") /\ plain' = part /\ part' = NoBytes
        /\ attempt' = [attempt EXCEPT !.step = "decrypted"]
        /\ UNCHANGED <<size, served, rest, out, fetched, spoiled>>
    BY <1>8 DEF Decrypt
  <2>2. attempt'.step = "decrypted" /\ AttemptTyped'
    BY <1>d, <2>1 DEF AttemptTyped
  <2>3. SignedBytes' /\ out' = NoBytes
    BY <1>d, <2>1, <2>2 DEF SignedBytes, PlacedIsSigned, At, Whole
  <2>4. NothingTwice'
    BY <1>d, <2>1, <2>2 DEF NothingTwice, At, Whole, Had, First
  <2> QED
    BY <1>s, <2>1, <2>2, <2>3, <2>4 DEF DlInv
<1>9. CASE Place
  <2>1. /\ At("decrypted") /\ out' = plain /\ Fails
        /\ UNCHANGED <<size, served, part, fetched, spoiled>>
    BY <1>9 DEF Place
  <2>2. attempt'.step = "idle" /\ AttemptTyped'
    BY <2>1 DEF Fails, NoAttempt, AttemptTyped
  <2>3. out' = Whole /\ Whole # NoBytes /\ Whole' = Whole
    BY <1>d, <1>s, <2>1, Bytes DEF SignedBytes, Whole
  <2>4. SignedBytes'
    BY <1>d, <2>1, <2>2, <2>3 DEF SignedBytes, PlacedIsSigned, At
  <2>5. NothingTwice'
    BY <1>d, <2>1, <2>2, <2>3 DEF NothingTwice, At, First
  <2> QED
    BY <1>s, <2>1, <2>2, <2>4, <2>5 DEF DlInv, At
<1>10. CASE AppEnds
  <2>1. /\ Fails /\ UNCHANGED <<size, served, part, plain, out, fetched>>
        /\ spoiled' = (spoiled \/ At("decrypted"))
    BY <1>10 DEF AppEnds
  <2>2. spoiled' \in BOOLEAN /\ (spoiled => spoiled') /\ (At("decrypted") => spoiled')
    BY <1>s, <2>1, Zenon
  <2> QED
    BY <2>1, <2>2, DlFails
<1>11. CASE UploadAgain
  <2>1. served # Whole /\ UNCHANGED <<size, part, attempt, rest, plain, out, fetched, spoiled>>
    BY <1>11 DEF UploadAgain
  <2>2. spoiled
    BY <1>d, <1>s, <2>1 DEF NothingTwice
  <2> QED
    BY <1>d, <1>s, <2>1, <2>2 DEF DlInv, SignedBytes, PlacedIsSigned, NothingTwice, AttemptTyped, At, Whole
<1>12. CASE UNCHANGED dlVars
  BY <1>d, <1>s, <1>12
     DEF dlVars, DlInv, SignedBytes, PlacedIsSigned, NothingTwice, AttemptTyped, At, Whole, Had, First, Rest
<1> QED
  BY <1>1, <1>2, <1>3, <1>4, <1>5, <1>6, <1>7, <1>8, <1>9, <1>10, <1>11, <1>12, DlAnswers DEF DlNext

\* parseRange gives what the header asks for, of an object of any size.
LEMMA RangesAreRight == size \in Nat => RangeIsWhatWasAsked
<1> SUFFICES ASSUME size \in Nat, size > 0, NEW first \in Blank..(size + 1), NEW last \in Blank..(size + 1)
             PROVE
  LET sent == ParseRange(first, last, size)
      bytes == 0..(size - 1)
      wanted == CASE first = Blank /\ last = Blank -> bytes
                  [] first = Blank /\ last # Blank -> {i \in bytes : i >= size - last}
                  [] first # Blank /\ last = Blank -> {i \in bytes : i >= first}
                  [] OTHER -> (first..last) \cap bytes
  IN  CASE sent = All -> wanted = bytes
        [] sent = Unsatisfiable -> wanted = {}
        [] OTHER -> sent.start <= sent.end /\ sent.start..sent.end = wanted
  BY DEF RangeIsWhatWasAsked
<1> DEFINE sent == ParseRange(first, last, size)
           bytes == 0..(size - 1)
<1>1. CASE first = Blank /\ last = Blank
  <2>1. sent = All
    BY <1>1 DEF ParseRange
  <2>2. (CASE first = Blank /\ last = Blank -> bytes
           [] first = Blank /\ last # Blank -> {i \in bytes : i >= size - last}
           [] first # Blank /\ last = Blank -> {i \in bytes : i >= first}
           [] OTHER -> (first..last) \cap bytes) = bytes
    BY <1>1
  <2>3. All # Unsatisfiable
    BY DEF All, Unsatisfiable
  <2> HIDE DEF sent
  <2> QED
    BY <2>1, <2>2, <2>3 DEF sent
<1>2. CASE first = Blank /\ last # Blank
  <2>1. CASE last <= 0
    BY <1>2, <2>1 DEF ParseRange, Blank, All, Unsatisfiable
  <2>2. CASE last > 0
    <3>1. sent = [start |-> IF size > last THEN size - last ELSE 0, end |-> size - 1]
      BY <1>2, <2>2 DEF ParseRange, Blank
    <3>2. sent.end = size - 1 /\ sent.start = (IF size > last THEN size - last ELSE 0)
          /\ sent # All /\ sent # Unsatisfiable
      BY <3>1 DEF All, Unsatisfiable, Blank
    <3> HIDE DEF sent
    <3> QED
      BY <1>2, <2>2, <3>2 DEF Blank, sent
  <2> QED
    BY <2>1, <2>2 DEF Blank
<1>3. CASE first # Blank
  <2> DEFINE end == IF last = Blank \/ last > size - 1 THEN size - 1 ELSE last
  <2>1. first \in Nat /\ end \in Int
    BY <1>3 DEF Blank
  <2>2. CASE first >= size \/ end < first
    <3>1. sent = Unsatisfiable /\ sent # All
      BY <1>3, <2>2 DEF ParseRange, All, Unsatisfiable
    <3> QED
      BY <1>3, <2>1, <2>2, <3>1 DEF Blank
  <2>3. CASE ~(first >= size \/ end < first)
    <3>1. sent = [start |-> first, end |-> end]
      BY <1>3, <2>3 DEF ParseRange
    <3>2. sent.start = first /\ sent.end = end /\ sent # All /\ sent # Unsatisfiable
      BY <2>1, <3>1 DEF All, Unsatisfiable
    <3>3. first..end = (CASE last = Blank -> {i \in bytes : i >= first}
                          [] OTHER -> (first..last) \cap bytes)
      <4>1. CASE last = Blank
        <5>1. end = size - 1
          BY <4>1
        <5>2. first..end = {i \in bytes : i >= first}
          BY <2>1, <5>1
        <5> QED
          BY <4>1, <5>2
      <4>2. CASE last # Blank
        <5>1. end = IF last > size - 1 THEN size - 1 ELSE last
          BY <4>2
        <5>2. last \in Nat
          BY <4>2 DEF Blank
        <5>3. first..end = (first..last) \cap bytes
          BY <2>1, <5>1, <5>2
        <5> QED
          BY <4>2, <5>3
      <4> QED
        BY <4>1, <4>2
    <3>4. sent.start..sent.end = first..end /\ sent.start <= sent.end
      BY <2>1, <2>3, <3>2
    <3> HIDE DEF sent, end
    <3> QED
      BY <1>3, <3>2, <3>3, <3>4 DEF sent
  <2> QED
    BY <2>2, <2>3
<1> QED
  BY <1>1, <1>2, <1>3

\* What is put in its place on the device is the signed blob, whatever the part file was put together
\* from; while nothing was spoiled no byte is fetched twice; and the range sent is the range asked for
\* (downloadBlob, parseRange): the safety of BlobArrivesSigned.
THEOREM PlacedBlobsAreSigned == DlSpec => [](PlacedIsSigned /\ CostsTheRemainder /\ RangeIsWhatWasAsked)
<1>1. DlInit => DlInv
  <2> SUFFICES ASSUME DlInit PROVE DlInv
    OBVIOUS
  <2>1. size \in Nat /\ part = NoBytes /\ out = NoBytes /\ fetched = 0 /\ attempt = NoAttempt
        /\ spoiled = (served # Whole)
    BY SizesAssumption DEF DlInit
  <2>2. spoiled \in BOOLEAN /\ (~spoiled => served = Whole)
    BY <2>1, Zenon
  <2> QED
    BY <2>1, <2>2
       DEF DlInv, SignedBytes, PlacedIsSigned, NothingTwice, AttemptTyped, At, NoAttempt, Had
<1>2. DlInv => PlacedIsSigned /\ CostsTheRemainder /\ RangeIsWhatWasAsked
  BY RangesAreRight DEF DlInv, SignedBytes, NothingTwice, CostsTheRemainder
<1> QED
  BY <1>1, <1>2, DlStep, PTL DEF DlSpec

\* Bytes, or a file that is not there.
MaybeBytes == Seq(Nat) \cup {NoBytes}

\* A range is asked for, and a body kept, only next to a file.
KeptNextToAFile ==
  /\ attempt.step \in {"asked", "sized"} /\ attempt.first > 0 => part # NoBytes
  /\ At("receiving") => part # NoBytes

DlWellTyped == DlTypeOK /\ KeptNextToAFile

LEMMA FailsTypes == Fails => /\ attempt' \in [step : {"idle"}, first : Nat, size : Nat, append : BOOLEAN]
                             /\ rest' = <<>> /\ rest' \in Seq(Nat)
BY DEF Fails, NoAttempt

\* An answer is taken next to a file, or the attempt fails.
LEMMA TakesTypes ==
  ASSUME DlWellTyped, At("sized"), NEW code, NEW declared, NEW bytes \in Seq(Nat), Takes(code, declared, bytes),
         code = 206 => attempt.first > 0
  PROVE  /\ attempt' \in [step : {"idle", "receiving"}, first : Nat, size : Nat, append : BOOLEAN]
         /\ rest' \in Seq(Nat) /\ part' \in MaybeBytes
         /\ attempt'.step = "receiving" => part' # NoBytes
<1>0. part \in MaybeBytes /\ <<>> \in Seq(Nat) /\ <<>> # NoBytes /\ (code = 206 => part # NoBytes)
  <2>1. <<>> \in Seq(Nat)
    OBVIOUS
  <2>2. part \in MaybeBytes
    BY DEF DlWellTyped, DlTypeOK, MaybeBytes
  <2>3. code = 206 => part # NoBytes
    BY DEF DlWellTyped, KeptNextToAFile, At
  <2> QED
    BY <2>1, <2>2, <2>3, NoneAssumption
<1>1. CASE Fails /\ UNCHANGED part
  BY <1>0, <1>1, FailsTypes
<1>2. CASE ~(Fails /\ UNCHANGED part)
  <2>1. /\ attempt' = [attempt EXCEPT !.step = "receiving", !.append = (code = 206)]
        /\ rest' = bytes /\ part' = IF code = 206 THEN part ELSE <<>>
    BY <1>2 DEF Takes
  <2>2. (code = 206) \in BOOLEAN
    OBVIOUS
  <2>3. attempt' \in [step : {"idle", "receiving"}, first : Nat, size : Nat, append : BOOLEAN]
    <3> DEFINE b == code = 206
    <3>1. b \in BOOLEAN /\ attempt' = [attempt EXCEPT !.step = "receiving", !.append = b]
      BY <2>1, <2>2
    <3> HIDE DEF b
    <3> QED
      BY <3>1 DEF DlWellTyped, DlTypeOK
  <2> QED
    BY <1>0, <2>1, <2>3 DEF MaybeBytes
<1> QED
  BY <1>1, <1>2

\* A reader gives bytes of what is served.
LEMMA ReadTypes ==
  ASSUME served \in Seq(Nat), NEW start \in Nat, NEW end \in Int
  PROVE  OpenReadStream(start, end) \in Seq(Nat)
<1> DEFINE to == IF end + 1 < Len(served) THEN end + 1 ELSE Len(served)
<1>1. to \in Int /\ start + 1 \in Nat /\ start + 1 >= 1 /\ to <= Len(served)
  OBVIOUS
<1> HIDE DEF to
<1>2. SubSeq(served, start + 1, to) \in Seq(Nat)
  BY <1>1, SubSeqProperties
<1> QED
  BY <1>2 DEF OpenReadStream, to

\* Every variable of a download keeps its type: whatever is served and whatever ends it, nothing is
\* appended to a file that is not there.
THEOREM DownloadTypesHold == DlSpec => []DlTypeOK
<1>1. DlInit => DlWellTyped
  <2> SUFFICES ASSUME DlInit PROVE DlWellTyped
    OBVIOUS
  <2>1. size \in Nat /\ size \in Sizes
    BY SizesAssumption DEF DlInit
  <2>2. served \in Seq(Nat)
    <3>1. \A n \in Nat : [i \in 1..n |-> i] \in Seq(Nat) /\ [i \in 1..n |-> 0] \in Seq(Nat)
                         /\ Len([i \in 1..n |-> i]) = n
      OBVIOUS
    <3>2. SubSeq([i \in 1..size |-> i], 1, size - 1) \in Seq(Nat)
      <4> DEFINE s == [i \in 1..size |-> i]
      <4>1. s \in Seq(Nat) /\ Len(s) = size
        BY <2>1, <3>1
      <4> HIDE DEF s
      <4>2. SubSeq(s, 1, size - 1) \in Seq(Nat)
        BY <2>1, <4>1, SubSeqProperties
      <4> QED
        BY <4>2 DEF s
    <3>3. size + 1 \in Nat
      BY <2>1
    <3> QED
      BY <2>1, <3>1, <3>2, <3>3 DEF DlInit, Held
  <2>3. spoiled \in BOOLEAN
    <3>1. (served # Whole) \in BOOLEAN
      OBVIOUS
    <3> QED
      BY <3>1 DEF DlInit
  <2>4. rest \in Seq(Nat)
    BY DEF DlInit
  <2>5. attempt \in [step : {"idle", "asked", "sized", "receiving", "arrived", "verified", "decrypted"},
                     first : Nat, size : Nat, append : BOOLEAN] /\ attempt.step = "idle"
    BY DEF DlInit, NoAttempt
  <2> QED
    BY <2>1, <2>2, <2>3, <2>4, <2>5, DlBoundAssumption DEF DlInit, DlWellTyped, DlTypeOK, KeptNextToAFile, At
<1>2. DlWellTyped /\ [DlNext]_dlVars => DlWellTyped'
  <2> SUFFICES ASSUME DlWellTyped, [DlNext]_dlVars PROVE DlWellTyped'
    OBVIOUS
  <2> DEFINE Attempt == [step : {"idle", "asked", "sized", "receiving", "arrived", "verified", "decrypted"},
                         first : Nat, size : Nat, append : BOOLEAN]
             Plain == part' \in MaybeBytes /\ plain' \in MaybeBytes /\ out' \in MaybeBytes
             Moved == attempt' \in Attempt /\ rest' \in Seq(Nat) /\ KeptNextToAFile'
             Counted == fetched' \in Nat /\ spoiled' \in BOOLEAN /\ drops' \in 0..MaxDrops /\ kills' \in 0..MaxKills
             Same == size' = size /\ served' \in Seq(Nat)
  <2>0. /\ size \in Sizes /\ size \in Nat /\ served \in Seq(Nat) /\ rest \in Seq(Nat)
        /\ part \in MaybeBytes /\ plain \in MaybeBytes /\ out \in MaybeBytes /\ attempt \in Attempt
        /\ fetched \in Nat /\ spoiled \in BOOLEAN /\ drops \in 0..MaxDrops /\ kills \in 0..MaxKills
        /\ KeptNextToAFile /\ MaxDrops \in Nat /\ MaxKills \in Nat
    BY SizesAssumption, DlBoundAssumption DEF DlWellTyped, DlTypeOK, MaybeBytes
  <2>q. Plain /\ Moved /\ Counted /\ Same => DlWellTyped'
    BY <2>0 DEF DlWellTyped, DlTypeOK, MaybeBytes
  <2>c. UNCHANGED <<fetched, spoiled, drops, kills>> => Counted
    BY <2>0
  <2>s. UNCHANGED <<size, served>> => Same
    BY <2>0
  <2>p. UNCHANGED <<part, plain, out>> => Plain
    BY <2>0
  <2>f. Fails => Moved
    BY FailsTypes DEF KeptNextToAFile, At
  <2>w. Whole \in Seq(Nat)
    BY <2>0, Bytes
  <2>1. CASE DownloadBlob
    <3> DEFINE had == IF part = NoBytes THEN 0 ELSE Len(part)
               have == IF had > size THEN 0 ELSE had
    <3>1. had \in Nat /\ have \in Nat /\ (have > 0 => part # NoBytes /\ ~(had > size))
      BY <2>0 DEF MaybeBytes
    <3>2. /\ part' = IF had > size THEN NoBytes ELSE part
          /\ attempt' = [NoAttempt EXCEPT !.step = IF have = size THEN "arrived" ELSE "asked", !.first = have]
          /\ UNCHANGED <<size, served, rest, plain, out, fetched, spoiled, drops, kills>>
      BY <2>1 DEF DownloadBlob
    <3>3. part' \in MaybeBytes /\ (have > 0 => part' # NoBytes)
      BY <2>0, <3>1, <3>2 DEF MaybeBytes
    <3> HIDE DEF have, had
    <3>4. attempt' \in Attempt /\ attempt'.first = have /\ attempt'.step \in {"arrived", "asked"}
      BY <3>1, <3>2 DEF NoAttempt
    <3> QED
      BY <2>0, <2>q, <2>c, <2>s, <3>2, <3>3, <3>4 DEF KeptNextToAFile, At
  <2>2. CASE Stat
    <3>1. Len(served) \in Nat
      BY <2>0
    <3>2. /\ attempt' = [attempt EXCEPT !.step = "sized", !.size = Len(served)] /\ attempt.step = "asked"
          /\ UNCHANGED <<size, served, part, rest, plain, out, fetched, spoiled, drops, kills>>
      BY <2>2 DEF Stat, At
    <3>3. attempt' \in Attempt /\ attempt'.first = attempt.first /\ attempt'.step = "sized"
      BY <2>0, <3>1, <3>2
    <3>4. Moved
      BY <2>0, <3>2, <3>3 DEF KeptNextToAFile, At
    <3> QED
      BY <2>q, <2>c, <2>s, <2>p, <3>2, <3>4
  <2>3. ASSUME NEW code, NEW declared, NEW bytes \in Seq(Nat), Takes(code, declared, bytes), At("sized"),
               code = 206 => attempt.first > 0, UNCHANGED <<plain, out>>
        PROVE  Plain /\ Moved
    <3>1. /\ attempt' \in [step : {"idle", "receiving"}, first : Nat, size : Nat, append : BOOLEAN]
          /\ rest' \in Seq(Nat) /\ part' \in MaybeBytes
          /\ attempt'.step = "receiving" => part' # NoBytes
      BY <2>3, TakesTypes
    <3> QED
      BY <2>0, <2>3, <3>1 DEF KeptNextToAFile, At
  <2>4. CASE Answer
    <3> DEFINE range == ParseRange(IF attempt.first = 0 THEN Blank ELSE attempt.first, Blank, attempt.size)
    <3>1. At("sized") /\ UNCHANGED <<size, served, plain, out, fetched, spoiled, drops, kills>>
      BY <2>4 DEF Answer
    <3>2. \/ Takes(200, attempt.size, OpenReadStream(0, attempt.size - 1))
          \/ Fails /\ UNCHANGED part
          \/ range # All /\ range # Unsatisfiable
             /\ Takes(206, range.end - range.start + 1, OpenReadStream(range.start, range.end))
      BY <2>4 DEF Answer
    <3>3. CASE Fails /\ UNCHANGED part
      BY <2>q, <2>c, <2>s, <2>p, <2>f, <3>1, <3>3
    <3>4. CASE Takes(200, attempt.size, OpenReadStream(0, attempt.size - 1))
      <4>1. OpenReadStream(0, attempt.size - 1) \in Seq(Nat)
        BY <2>0, ReadTypes
      <4> QED
        BY <2>3, <2>q, <2>c, <2>s, <3>1, <3>4, <4>1
    <3>5. CASE /\ range # All /\ range # Unsatisfiable
               /\ Takes(206, range.end - range.start + 1, OpenReadStream(range.start, range.end))
      <4>1. attempt.first > 0 /\ attempt.first # Blank /\ attempt.size \in Nat /\ attempt.first \in Nat
        BY <2>0, <3>5 DEF ParseRange, Blank
      <4>2. range = [start |-> attempt.first, end |-> attempt.size - 1]
        BY <3>5, <4>1 DEF ParseRange, Blank
      <4>3. range.start \in Nat /\ range.end \in Int
        BY <4>1, <4>2
      <4> HIDE DEF range
      <4>4. OpenReadStream(range.start, range.end) \in Seq(Nat)
        BY <2>0, <4>3, ReadTypes
      <4> QED
        BY <2>3, <2>q, <2>c, <2>s, <3>1, <3>5, <4>1, <4>4
    <3> QED
      BY <3>2, <3>3, <3>4, <3>5
  <2>5. CASE AnswerWhole
    <3>1. At("sized") /\ Takes(200, Len(served), served)
          /\ UNCHANGED <<size, served, plain, out, fetched, kills>>
          /\ drops < MaxDrops /\ drops' = drops + 1 /\ spoiled' = TRUE
      BY <2>5 DEF AnswerWhole
    <3>2. Plain /\ Moved
      BY <2>0, <2>3, <3>1
    <3>3. Counted
      BY <2>0, <3>1
    <3> QED
      BY <2>q, <2>s, <3>1, <3>2, <3>3
  <2>6. CASE Receive
    <3>1. /\ At("receiving") /\ rest # <<>> /\ part' = Append(part, Head(rest)) /\ rest' = Tail(rest)
          /\ fetched' = (IF spoiled THEN fetched ELSE fetched + 1)
          /\ UNCHANGED <<size, served, attempt, plain, out, spoiled, drops, kills>>
      BY <2>6 DEF Receive
    <3>2. part \in Seq(Nat) /\ Head(rest) \in Nat /\ Tail(rest) \in Seq(Nat)
      BY <2>0, <3>1 DEF KeptNextToAFile, MaybeBytes
    <3>3. part' \in Seq(Nat) /\ part' # NoBytes
      <4>1. Append(part, Head(rest)) \in Seq(Nat)
        BY <3>2
      <4>2. part' \in Seq(Nat)
        BY <3>1, <4>1, Zenon
      <4> QED
        BY <4>2, NoneAssumption
    <3>4. Plain /\ Moved
      BY <2>0, <3>1, <3>2, <3>3 DEF KeptNextToAFile, At, MaybeBytes
    <3>5. Counted
      BY <2>0, <3>1
    <3> QED
      BY <2>q, <2>s, <3>1, <3>4, <3>5
  <2>7. CASE StreamEnds
    <3>1. UNCHANGED <<size, served, part, plain, out, fetched, spoiled, drops, kills>>
          /\ (Fails \/ (attempt' = [attempt EXCEPT !.step = "arrived"] /\ UNCHANGED rest))
      BY <2>7 DEF StreamEnds
    <3>2. CASE attempt' = [attempt EXCEPT !.step = "arrived"] /\ UNCHANGED rest
      <4>1. Moved
        BY <2>0, <3>2 DEF KeptNextToAFile, At
      <4> QED
        BY <2>q, <2>c, <2>s, <2>p, <3>1, <4>1
    <3> QED
      BY <2>q, <2>c, <2>s, <2>p, <2>f, <3>1, <3>2
  <2>8. CASE Drops
    <3>1. Counted
      BY <2>0, <2>8 DEF Drops
    <3> QED
      BY <2>q, <2>s, <2>p, <2>f, <2>8, <3>1 DEF Drops
  <2>9. CASE Verify
    <3>1. UNCHANGED <<size, served, plain, out, fetched, spoiled, drops, kills>>
          /\ \/ Fails /\ part' \in {part, NoBytes}
             \/ attempt' = [attempt EXCEPT !.step = "verified"] /\ UNCHANGED <<part, rest>>
      BY <2>9 DEF Verify
    <3>2. Plain
      BY <2>0, <3>1 DEF MaybeBytes
    <3>3. CASE attempt' = [attempt EXCEPT !.step = "verified"] /\ UNCHANGED <<part, rest>>
      <4>1. Moved
        BY <2>0, <3>3 DEF KeptNextToAFile, At
      <4> QED
        BY <2>q, <2>c, <2>s, <3>1, <3>2, <4>1
    <3> QED
      BY <2>q, <2>c, <2>s, <2>f, <3>1, <3>2, <3>3
  <2>10. CASE Decrypt
    <3>1. /\ plain' = part /\ part' = NoBytes /\ attempt' = [attempt EXCEPT !.step = "decrypted"]
          /\ UNCHANGED <<size, served, rest, out, fetched, spoiled, drops, kills>>
      BY <2>10 DEF Decrypt
    <3>2. Plain /\ Moved
      BY <2>0, <3>1 DEF KeptNextToAFile, At, MaybeBytes
    <3> QED
      BY <2>q, <2>c, <2>s, <3>1, <3>2
  <2>11. CASE Place
    <3>1. Fails /\ out' = plain /\ plain' = NoBytes /\ UNCHANGED <<size, served, part, fetched, spoiled, drops, kills>>
      BY <2>11 DEF Place
    <3>2. Plain
      BY <2>0, <3>1 DEF MaybeBytes
    <3> QED
      BY <2>q, <2>c, <2>s, <2>f, <3>1, <3>2
  <2>12. CASE AppEnds
    <3>1. Fails /\ spoiled' = (spoiled \/ At("decrypted")) /\ kills < MaxKills /\ kills' = kills + 1
          /\ UNCHANGED <<size, served, part, plain, out, fetched, drops>>
      BY <2>12 DEF AppEnds
    <3>2. spoiled' \in BOOLEAN
      <4>1. (spoiled \/ At("decrypted")) \in BOOLEAN
        OBVIOUS
      <4> QED
        BY <3>1, <4>1, Zenon
    <3>3. Counted
      BY <2>0, <3>1, <3>2
    <3> QED
      BY <2>q, <2>s, <2>p, <2>f, <3>1, <3>3
  <2>13. CASE UploadAgain
    <3>1. Moved
      BY <2>0, <2>13 DEF UploadAgain, KeptNextToAFile, At
    <3> QED
      BY <2>q, <2>c, <2>p, <2>w, <2>13, <3>1 DEF UploadAgain
  <2>14. CASE UNCHANGED dlVars
    <3>1. Moved
      BY <2>0, <2>14 DEF dlVars, KeptNextToAFile, At
    <3> QED
      BY <2>q, <2>c, <2>s, <2>p, <2>14, <3>1 DEF dlVars
  <2> QED
    BY <2>1, <2>2, <2>4, <2>5, <2>6, <2>7, <2>8, <2>9, <2>10, <2>11, <2>12, <2>13, <2>14 DEF DlNext
<1> QED
  <2>1. DlWellTyped => DlTypeOK
    BY DEF DlWellTyped
  <2> QED
    BY <1>1, <1>2, <2>1, PTL DEF DlSpec
===============================================================================
