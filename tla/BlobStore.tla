----------------------------- MODULE BlobStore -----------------------------
(***************************************************************************)
(* One blob of the content-addressed blob store, and the uploads that      *)
(* bring it: the disk provider writes a file beside the target and renames *)
(* it, the S3 provider puts the object in one request.                     *)
(*                                                                         *)
(* The name of the file beside the target depends on the blob alone, so    *)
(* uploads of the same blob by different publishes share it.  Such uploads *)
(* carry the same bytes: the body was spooled and its hash compared before *)
(* the store is called.                                                    *)
(*                                                                         *)
(* Abstracted: a file is a sequence of chunks, each of them the blob's     *)
(* data or zeros (a hole left by a write past the end of the file).        *)
(***************************************************************************)
EXTENDS Integers, Sequences

CONSTANTS
  Uploads,      \* requests that upload the blob
  Size,         \* chunks of the blob
  Files,        \* files the directory may come to hold
  BlobStores,   \* the providers looked at: "disk" and "s3"
  OneAtATime,   \* publishes that share the blob do not overlap on the disk
  MaxStops,     \* bound: ends of the server process
  NoFile

ASSUME SizeAssumption == Size \in Nat \ {0} /\ MaxStops \in Nat
ASSUME ModeAssumption == BlobStores \subseteq {"disk", "s3"} /\ OneAtATime \in BOOLEAN
ASSUME FilesAssumption == NoFile \notin Files

VARIABLES
  provider,  \* the provider in use
  content,   \* [Files -> the chunks of a file]
  blob,      \* the file at blobs/<sha256>, or NoFile
  tmp,       \* the file at blobs/<sha256>.tmp, or NoFile
  fresh,     \* files not yet created
  upload,    \* [Uploads -> where the upload is]
  stops

blobVars == <<provider, content, blob, tmp, fresh, upload, stops>>

Waiting == [step |-> "waiting", file |-> NoFile, written |-> 0]

WholeBlob == [i \in 1..Size |-> "data"]

BlobInit ==
  /\ provider \in BlobStores
  /\ content = [f \in Files |-> <<>>]
  /\ blob = NoFile
  /\ tmp = NoFile
  /\ fresh = Files
  /\ upload = [u \in Uploads |-> Waiting]
  /\ stops = 0

-----------------------------------------------------------------------------

UploadAt(u, step) == upload[u].step = step

Become(u, step) == upload' = [upload EXCEPT ![u].step = step]

NewFile == CHOOSE f \in fresh : TRUE

\* stat: the length of the stored blob, -1 when there is none.
StatBlob == IF blob = NoFile THEN -1 ELSE Len(content[blob])

\* stageBlob: a blob of the right size is not stored again.
Look(u) ==
  /\ UploadAt(u, "waiting")
  /\ OneAtATime /\ provider = "disk" =>
       \A v \in Uploads \ {u} : upload[v].step \in {"waiting", "stored"}
  /\ Become(u, IF StatBlob = Size THEN "stored" ELSE "put")
  /\ UNCHANGED <<provider, content, blob, tmp, fresh, stops>>

\* Variant with a bug: the target itself is written.
OpenTarget(u) ==
  /\ provider = "disk"
  /\ UploadAt(u, "put")
  /\ fresh # {} \/ blob # NoFile
  /\ LET f == IF blob = NoFile THEN NewFile ELSE blob IN
       /\ content' = [content EXCEPT ![f] = <<>>]
       /\ blob' = f
       /\ tmp' = f
       /\ fresh' = fresh \ {f}
       /\ upload' = [upload EXCEPT ![u] = [step |-> "writing", file |-> f, written |-> 0]]
  /\ UNCHANGED <<provider, stops>>

\* put with a stream: the file beside the target is created, or emptied.
OpenTemp(u) ==
  /\ provider = "disk"
  /\ UploadAt(u, "put")
  /\ LET f == IF tmp = NoFile THEN NewFile ELSE tmp IN
       /\ tmp = NoFile => fresh # {}
       /\ content' = [content EXCEPT ![f] = <<>>]
       /\ tmp' = f
       /\ fresh' = fresh \ {f}
       /\ upload' = [upload EXCEPT ![u] = [step |-> "writing", file |-> f, written |-> 0]]
  /\ UNCHANGED <<provider, blob, stops>>

\* A chunk goes where this upload's stream has come to, whatever the file's length is by now.
WriteChunk(u) ==
  LET f == upload[u].file
      here == upload[u].written + 1
      long == IF here > Len(content[f]) THEN here ELSE Len(content[f]) IN
    /\ UploadAt(u, "writing")
    /\ here <= Size
    /\ content' = [content EXCEPT ![f] =
         [i \in 1..long |-> IF i = here THEN "data" ELSE IF i <= Len(@) THEN @[i] ELSE "zeros"]]
    /\ upload' = [upload EXCEPT ![u].written = here]
    /\ UNCHANGED <<provider, blob, tmp, fresh, stops>>

\* The rename moves whatever file has that name; without one it fails, and with it the upload.
Rename(u) ==
  /\ UploadAt(u, "writing")
  /\ upload[u].written = Size
  /\ IF tmp = NoFile
       THEN Become(u, "failed") /\ UNCHANGED <<blob, tmp>>
       ELSE Become(u, "stored") /\ blob' = tmp /\ tmp' = NoFile
  /\ UNCHANGED <<provider, content, fresh, stops>>

\* A failed write leaves what it wrote beside the target.
WriteFails(u) ==
  /\ UploadAt(u, "writing")
  /\ Become(u, "failed")
  /\ UNCHANGED <<provider, content, blob, tmp, fresh, stops>>

\* S3: the stream is buffered and sent with its length, which replaces the object at once.
PutObject(u) ==
  /\ provider = "s3"
  /\ UploadAt(u, "put")
  /\ fresh # {}
  /\ content' = [content EXCEPT ![NewFile] = WholeBlob]
  /\ blob' = NewFile
  /\ fresh' = fresh \ {NewFile}
  /\ Become(u, "stored")
  /\ UNCHANGED <<provider, tmp, stops>>

PutObjectFails(u) ==
  /\ provider = "s3"
  /\ UploadAt(u, "put")
  /\ Become(u, "failed")
  /\ UNCHANGED <<provider, content, blob, tmp, fresh, stops>>

\* adminPutBytes tries again after a 5xx or a lost connection.
Retry(u) ==
  /\ UploadAt(u, "failed")
  /\ upload' = [upload EXCEPT ![u] = Waiting]
  /\ UNCHANGED <<provider, content, blob, tmp, fresh, stops>>

\* Discarding an unfinalised release deletes a blob that no other release lists.
Delete ==
  /\ blob # NoFile
  /\ blob' = NoFile
  /\ UNCHANGED <<provider, content, tmp, fresh, upload, stops>>

\* The server process ends between any two steps; the files stay.
Kill ==
  /\ stops < MaxStops
  /\ stops' = stops + 1
  /\ upload' = [u \in Uploads |-> IF UploadAt(u, "stored") THEN upload[u] ELSE [Waiting EXCEPT !.step = "failed"]]
  /\ UNCHANGED <<provider, content, blob, tmp, fresh>>

BlobNext ==
  \/ \E u \in Uploads :
       \/ Look(u) \/ OpenTemp(u) \/ WriteChunk(u) \/ Rename(u) \/ WriteFails(u)
       \/ PutObject(u) \/ PutObjectFails(u) \/ Retry(u)
  \/ Delete \/ Kill

BlobSpec == BlobInit /\ [][BlobNext]_blobVars

-----------------------------------------------------------------------------
(* Properties *)

Step == {"waiting", "put", "writing", "stored", "failed"}

BlobTypeOK ==
  /\ provider \in BlobStores
  /\ content \in [Files -> UNION {[1..n -> {"data", "zeros"}] : n \in 0..Size}]
  /\ blob \in Files \cup {NoFile}
  /\ tmp \in Files \cup {NoFile}
  /\ fresh \subseteq Files
  /\ upload \in [Uploads -> [step : Step, file : Files \cup {NoFile}, written : 0..Size]]
  /\ stops \in 0..MaxStops

\* What the store holds under a blob's name is the whole blob, at every moment and whatever the
\* server died of, so that no device downloads bytes that do not hash to their name
\* (DiskBlobStore.put: write beside the target and rename).
BlobIsWhole == blob # NoFile => content[blob] = WholeBlob

\* The same of the uploads that are over, one way or another: "a crashed publish never leaves a
\* short blob" (providers.ts).
CrashLeavesNoShortBlob ==
  (blob # NoFile /\ \A u \in Uploads : upload[u].step \in {"waiting", "stored", "failed"})
    => content[blob] = WholeBlob
=============================================================================
