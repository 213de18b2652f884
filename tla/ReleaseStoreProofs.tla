-------------------------- MODULE ReleaseStoreProofs --------------------------
(*************************************************************************)
(* What ReleaseStore promises of one process, proved for any number of   *)
(* bundles, manifests, blobs, workers and reports. One request holds the *)
(* event loop, has seen the record as it is, and discards and finds      *)
(* blobs before it lets go; only an upload is overtaken, and it only     *)
(* adds. So it implements SerialStore, in which every change of a        *)
(* release is one step.                                                  *)
(*                                                                       *)
(* What it promises of the networked deployments, any number of          *)
(* instances, reports and lost updates: no install counts twice towards  *)
(* the failures of a release. A failure that was reported and that no    *)
(* request is still about to count has landed, and no record, stored or  *)
(* read, counts more failures than have landed.                          *)
(*************************************************************************)
EXTENDS ReleaseStore, TLAPS, FiniteSetTheorems

-----------------------------------------------------------------------------
(* The invariant *)

RequestsIndexed == request = [w \in Workers |-> request[w]]

Uploading(w) == request[w].op = "stage" /\ request[w].step = "upload"

\* Whoever does not hold the loop is waiting for the body of its upload.
LoopIsHeld == \A w \in Workers : request[w] # NoRequest => loop = w \/ Uploading(w)

\* The holder has read its release as it is.
SeesTheRecord ==
  \A w \in Workers :
    request[w] # NoRequest /\ loop = w =>
      request[w].bundle \in Bundles /\ request[w].seen = release[request[w].bundle]

\* An attempt replaces no published release and deletes no blob that another release lists.
ReplacesAnAttempt ==
  \A w \in Workers :
    request[w] # NoRequest /\ loop = w /\ request[w].op = "create" =>
      /\ Exists(request[w].bundle) => ~release[request[w].bundle].finalized
      /\ request[w].step = "put" =>
           request[w].todo \cap ReferencedElsewhere(request[w].bundle) = {}

\* A finalize has found the blobs it is not still looking for.
FoundWhatItPassed ==
  \A w \in Workers :
    request[w] # NoRequest /\ loop = w /\ request[w].op = "finalize" =>
      BlobsOf[request[w].seen.manifest] \subseteq blobs \cup request[w].todo

SoloInv ==
  ~networked =>
    /\ LoopIsHeld /\ SeesTheRecord /\ ReplacesAnAttempt /\ FoundWhatItPassed
    /\ FinalizedIsWhole

-----------------------------------------------------------------------------
(* Types *)

\* The records that are put have the type of a record.
LEMMA RecordsType ==
  /\ \A m \in Manifests, rollout \in Rollouts : NewRecord(m, rollout) \in ReleaseRecord
  /\ \A r \in ReleaseRecord :
       Total(r) < MaxReports => \A good \in BOOLEAN : Counted(r, good) \in ReleaseRecord
<1>1. \A m \in Manifests, rollout \in Rollouts : NewRecord(m, rollout) \in ReleaseRecord
  BY CountAssumption DEF NewRecord, ReleaseRecord
<1>2. ASSUME NEW r \in ReleaseRecord, Total(r) < MaxReports, NEW good \in BOOLEAN
      PROVE  Counted(r, good) \in ReleaseRecord
  <2>1. r.good \in 0..MaxReports /\ r.bad \in 0..MaxReports
    BY DEF ReleaseRecord
  <2>2. r.good + 1 \in 0..MaxReports /\ r.bad + 1 \in 0..MaxReports
    BY <1>2, <2>1, CountAssumption DEF Total
  <2> QED
    BY <2>2 DEF Counted, ReleaseRecord
<1> QED
  BY <1>1, <1>2

\* What the types need of a report under way: the record it read has room for it.
ReportsFit ==
  \A w \in Workers :
    request[w] # NoRequest /\ request[w].op = "confirm" => Total(request[w].seen) < MaxReports

\* What is to be discarded is there: no record is ever removed.
DiscardsARelease ==
  \A w \in Workers :
    request[w] # NoRequest /\ request[w].op = "create" /\ request[w].step = "discard" =>
      Exists(request[w].bundle)

Typed == TypeOK /\ RequestsIndexed /\ ReportsFit /\ DiscardsARelease

\* A request that starts.
LEMMA StartType ==
  ASSUME Typed, UNCHANGED networked,
         NEW w \in Workers, NEW op, NEW b \in Bundles, NEW arg, NEW step \in Steps,
         NEW todo \in SUBSET Blobs, Start(w, op, b, arg, step, todo),
         IsRequest([op |-> op, bundle |-> b, arg |-> arg, step |-> step, todo |-> todo,
                    seen |-> release[b]]),
         op # "create" \/ step = "discard" => Exists(b),
         op = "confirm" => Total(release[b]) < MaxReports
  PROVE  Typed'
<1> DEFINE new == [op |-> op, bundle |-> b, arg |-> arg, step |-> step, todo |-> todo,
                   seen |-> release[b]]
<1>1. request' = [request EXCEPT ![w] = new] /\ loop' \in {Free, w}
  BY DEF Start
<1>2. UNCHANGED <<release, blobs, deduped, failed, networked>>
  BY DEF Start
<1>3. RequestsIndexed' /\ request'[w] = new /\ \A v \in Workers \ {w} : request'[v] = request[v]
  BY <1>1 DEF Typed, RequestsIndexed
<1>4. /\ new.op = op /\ new.seen = release[b] /\ new.bundle = b /\ new.step = step
      /\ IsRequest(new)
  OBVIOUS
<1> HIDE DEF new
<1>5. TypeOK'
  BY <1>1, <1>2, <1>3, <1>4 DEF Typed, TypeOK, Exists
<1>6. ReportsFit'
  BY <1>3, <1>4 DEF Typed, ReportsFit
<1>7. DiscardsARelease'
  BY <1>2, <1>3, <1>4 DEF Typed, DiscardsARelease, Exists
<1> QED
  BY <1>3, <1>5, <1>6, <1>7 DEF Typed

Advanced(r, step, todo) == [r EXCEPT !.step = step, !.todo = todo]

\* A request that goes on.
LEMMA ProceedType ==
  ASSUME TypeOK, NEW w \in Workers, request[w] # NoRequest,
         NEW step \in Steps, NEW todo \in SUBSET Blobs
  PROVE  /\ IsRequest(Advanced(request[w], step, todo))
         /\ Advanced(request[w], step, todo).op = request[w].op
         /\ Advanced(request[w], step, todo).bundle = request[w].bundle
         /\ Advanced(request[w], step, todo).arg = request[w].arg
         /\ Advanced(request[w], step, todo).seen = request[w].seen
         /\ Advanced(request[w], step, todo).step = step
         /\ Advanced(request[w], step, todo).todo = todo
<1>1. IsRequest(request[w])
  BY DEF TypeOK
<1>2. CASE request[w] \in Asked("create", Manifests)
  BY <1>2 DEF IsRequest, Asked, Advanced
<1>3. CASE request[w] \in Asked("stage", Blobs)
  BY <1>3 DEF IsRequest, Asked, Advanced
<1>4. CASE request[w] \in Asked("finalize", Bundles)
  BY <1>4 DEF IsRequest, Asked, Advanced
<1>5. CASE request[w] \in Asked("rollout", Rollouts)
  BY <1>5 DEF IsRequest, Asked, Advanced
<1>6. CASE request[w] \in Asked("pause", BOOLEAN)
  BY <1>6 DEF IsRequest, Asked, Advanced
<1>7. CASE request[w] \in Asked("rollback", Bundles)
  BY <1>7 DEF IsRequest, Asked, Advanced
<1>8. CASE request[w] \in Asked("confirm", Report)
  BY <1>8 DEF IsRequest, Asked, Advanced
<1> QED
  BY <1>1, <1>2, <1>3, <1>4, <1>5, <1>6, <1>7, <1>8 DEF IsRequest

\* What a request under way is about.
LEMMA RequestOf ==
  ASSUME Typed, NEW w \in Workers, request[w] # NoRequest
  PROVE  /\ request[w].bundle \in Bundles
         /\ request[w].step \in Steps
         /\ request[w].todo \in SUBSET Blobs
         /\ request[w].seen \in ReleaseRecord \cup {NoRelease}
         /\ request[w].op # "create" => request[w].seen \in ReleaseRecord
         /\ request[w].op = "create" => request[w].arg \in Manifests
         /\ request[w].op = "stage" => request[w].arg \in Blobs
         /\ request[w].op = "rollout" => request[w].arg \in Rollouts
         /\ request[w].op = "pause" => request[w].arg \in BOOLEAN
         /\ request[w].op = "confirm" => request[w].arg \in Report
BY DEF Typed, TypeOK, IsRequest, Asked

\* The stores and the reports that steps leave in their types.
StoresTyped ==
  /\ release \in [Bundles -> ReleaseRecord \cup {NoRelease}]
  /\ blobs \in SUBSET Blobs
  /\ deduped \in SUBSET (Installs \X Bundles)
  /\ failed \in SUBSET (Installs \X Bundles)

\* A request that goes on to its next await keeps every type.
LEMMA ProceedKeepsTyped ==
  ASSUME Typed, StoresTyped', UNCHANGED <<networked, release>>,
         NEW w \in Workers, request[w] # NoRequest, NEW step \in Steps \ {"discard"},
         NEW todo \in SUBSET Blobs, loop' \in {Free, w},
         request' = [request EXCEPT ![w].step = step, ![w].todo = todo]
  PROVE  Typed'
<1> DEFINE next == Advanced(request[w], step, todo)
<1>1. IsRequest(next) /\ next.op = request[w].op /\ next.seen = request[w].seen /\ next.step = step
  BY ProceedType DEF Typed
<1>2. RequestsIndexed' /\ request'[w] = next /\ \A v \in Workers \ {w} : request'[v] = request[v]
  BY DEF Typed, RequestsIndexed, Advanced
<1> HIDE DEF next
<1> QED
  BY <1>1, <1>2 DEF Typed, TypeOK, StoresTyped, ReportsFit, DiscardsARelease, Exists

\* A request that ends keeps every type, whichever record it put.
LEMMA FinishKeepsTyped ==
  ASSUME Typed, StoresTyped', UNCHANGED networked,
         \A b \in Bundles : Exists(b) => Exists(b)', NEW w \in Workers, Finish(w)
  PROVE  Typed'
<1>1. RequestsIndexed' /\ request'[w] = NoRequest
        /\ \A v \in Workers \ {w} : request'[v] = request[v]
  BY DEF Typed, RequestsIndexed, Finish
<1>2. DiscardsARelease'
  BY <1>1, RequestOf DEF Typed, DiscardsARelease
<1> QED
  BY <1>1, <1>2 DEF Typed, TypeOK, StoresTyped, ReportsFit, Finish

\* A record of its type, put, leaves the stores typed.
LEMMA PutKeepsTyped ==
  ASSUME Typed, UNCHANGED <<blobs, deduped, failed, networked>>, NEW w \in Workers,
         request[w] # NoRequest, NEW record \in ReleaseRecord, Put(w, record)
  PROVE  Typed'
<1>1. StoresTyped'
  BY RequestOf DEF Typed, TypeOK, StoresTyped, Put
<1>2. \A b \in Bundles : Exists(b) => Exists(b)'
  BY SentinelAssumption, RequestOf DEF Typed, TypeOK, Exists, Put
<1> QED
  BY <1>1, <1>2, FinishKeepsTyped DEF Put

\* The store starts with the right types.
LEMMA TypeInit == Init => Typed
BY DEF Init, Typed, TypeOK, RequestsIndexed, ReportsFit, DiscardsARelease

-----------------------------------------------------------------------------
(* One process: what a start, a step and an end of a request leave true *)

\* While a request runs, every other one is waiting for its upload.
LEMMA Alone ==
  ASSUME Typed, LoopIsHeld, NEW w \in Workers, loop \in {w, Free}
  PROVE  /\ \A v \in Workers \ {w} : request[v] # NoRequest => Uploading(v)
         /\ request[w] # NoRequest /\ ~Uploading(w) => loop = w
BY SentinelAssumption DEF Typed, TypeOK, LoopIsHeld

\* What other releases reference depends on the records alone.
LEMMA SameReferences ==
  ASSUME UNCHANGED release, NEW b
  PROVE  ReferencedElsewhere(b)' = ReferencedElsewhere(b)
BY DEF ReferencedElsewhere, Exists

\* A request that starts with the loop free sees its record as it is, and keeps what holds of one process.
LEMMA StartSolo ==
  ASSUME Typed, SoloInv, ~networked, UNCHANGED networked,
         NEW w \in Workers, NEW op, NEW b \in Bundles, NEW arg, NEW step, NEW todo,
         Start(w, op, b, arg, step, todo),
         op = "create" => (Exists(b) => ~release[b].finalized) /\ (step = "put" => todo = {}),
         op = "finalize" => todo = BlobsOf[release[b].manifest]
  PROVE  SoloInv'
<1> DEFINE new == [op |-> op, bundle |-> b, arg |-> arg, step |-> step, todo |-> todo,
                   seen |-> release[b]]
<1>1. request'[w] = new /\ \A v \in Workers \ {w} : request'[v] = request[v]
  BY DEF Start, Typed, RequestsIndexed
<1>2. loop' = w /\ UNCHANGED <<release, blobs>>
  BY DEF Start
<1>3. new.op = op /\ new.bundle = b /\ new.seen = release[b] /\ new.step = step /\ new.todo = todo
  OBVIOUS
<1> HIDE DEF new
<1>4. \A v \in Workers \ {w} : request[v] # NoRequest => Uploading(v)
  BY Alone DEF SoloInv, Start
<1>5. LoopIsHeld'
  BY <1>1, <1>2, <1>4 DEF LoopIsHeld, Uploading
<1>6. SeesTheRecord'
  BY <1>1, <1>2, <1>3 DEF SeesTheRecord
<1>7. ReplacesAnAttempt'
  BY <1>1, <1>2, <1>3 DEF ReplacesAnAttempt, Exists
<1>8. FoundWhatItPassed'
  BY <1>1, <1>2, <1>3 DEF FoundWhatItPassed
<1>9. FinalizedIsWhole'
  BY <1>2 DEF SoloInv, FinalizedIsWhole, Exists
<1> QED
  BY <1>5, <1>6, <1>7, <1>8, <1>9 DEF SoloInv

\* The holder of the loop goes on with what it has found: nobody else is touched.
LEMMA ProceedSolo ==
  ASSUME Typed, SoloInv, ~networked, UNCHANGED <<networked, release>>, FinalizedIsWhole',
         NEW w \in Workers, request[w] # NoRequest, loop = w,
         NEW step \in Steps, NEW todo \in SUBSET Blobs, Proceed(w, step, todo),
         request[w].op = "create" /\ step = "put" =>
           todo \cap ReferencedElsewhere(request[w].bundle) = {},
         request[w].op = "finalize" =>
           BlobsOf[request[w].seen.manifest] \subseteq blobs' \cup todo
  PROVE  SoloInv'
<1> DEFINE next == Advanced(request[w], step, todo)
<1>1. request'[w] = next /\ \A v \in Workers \ {w} : request'[v] = request[v]
  BY DEF Proceed, Typed, RequestsIndexed, Advanced
<1>2. loop' = w
  BY DEF Proceed
<1>3. /\ next.op = request[w].op /\ next.bundle = request[w].bundle /\ next.seen = request[w].seen
      /\ next.step = step /\ next.todo = todo
  BY ProceedType DEF Typed
<1> HIDE DEF next
<1>4. \A v \in Workers \ {w} : request[v] # NoRequest => Uploading(v)
  BY Alone DEF SoloInv
<1>5. LoopIsHeld'
  BY <1>1, <1>2, <1>4 DEF LoopIsHeld, Uploading
<1>6. SeesTheRecord'
  BY <1>1, <1>2, <1>3 DEF SeesTheRecord, SoloInv
<1>7. ReplacesAnAttempt'
  BY <1>1, <1>2, <1>3, SameReferences DEF ReplacesAnAttempt, Exists, SoloInv
<1>8. FoundWhatItPassed'
  BY <1>1, <1>2, <1>3 DEF FoundWhatItPassed
<1> QED
  BY <1>5, <1>6, <1>7, <1>8 DEF SoloInv

\* The holder of the loop ends and lets go of it: whoever remains is uploading.
LEMMA FinishSolo ==
  ASSUME Typed, SoloInv, ~networked, UNCHANGED networked, FinalizedIsWhole',
         NEW w \in Workers, loop \in {w, Free}, Finish(w)
  PROVE  SoloInv'
<1>1. request'[w] = NoRequest /\ \A v \in Workers \ {w} : request'[v] = request[v]
  BY DEF Finish, Typed, RequestsIndexed
<1>2. loop' = Free /\ Free \notin Workers
  BY SentinelAssumption DEF Finish
<1>3. \A v \in Workers \ {w} : request[v] # NoRequest => Uploading(v)
  BY Alone DEF SoloInv
<1>4. LoopIsHeld'
  BY <1>1, <1>3 DEF LoopIsHeld, Uploading
<1> QED
  BY <1>2, <1>4 DEF SoloInv, SeesTheRecord, ReplacesAnAttempt, FoundWhatItPassed

-----------------------------------------------------------------------------
(* The steps *)

ReleaseInv == Typed /\ SoloInv

\* A record put in place of one that is no more published than it leaves every release whole.
LEMMA PutWhole ==
  ASSUME Typed, FinalizedIsWhole, UNCHANGED <<blobs, networked>>,
         NEW w \in Workers, request[w] # NoRequest, NEW record \in ReleaseRecord, Put(w, record),
         record.finalized => BlobsOf[record.manifest] \subseteq blobs \/ networked
  PROVE  FinalizedIsWhole'
<1>1. request[w].bundle \in Bundles
  BY RequestOf
<1>2. release' = [release EXCEPT ![request[w].bundle] = record]
  BY DEF Put
<1> QED
  BY <1>1, <1>2 DEF FinalizedIsWhole, Exists, Typed, TypeOK

\* The parts of a request that is about to put, of one process.
LEMMA Holder ==
  ASSUME Typed, SoloInv, ~networked, NEW w \in Workers, NEW op, NEW step, At(w, op, step),
         op # "stage" \/ step # "upload"
  PROVE  loop = w /\ request[w] # NoRequest /\ request[w].seen = release[request[w].bundle]
BY Alone DEF SoloInv, SeesTheRecord, Uploading, At

\* createRelease starts: a published release is refused, so what is replaced is an attempt.
LEMMA CreateStep ==
  ASSUME ReleaseInv, UNCHANGED networked, NEW w \in Workers, NEW m \in Manifests, Create(w, m)
  PROVE  ReleaseInv'
<1> DEFINE b == BundleId[m]
<1>1. b \in Bundles
  BY ManifestAssumption
<1>2. PICK step \in {"put", "discard"} :
        /\ Start(w, "create", b, m, step, {})
        /\ step = "discard" => Exists(b) /\ ~release[b].finalized
        /\ step = "put" => ~Exists(b)
  BY DEF Create
<1>3. IsRequest([op |-> "create", bundle |-> b, arg |-> m, step |-> step, todo |-> {},
                 seen |-> release[b]])
  BY <1>1 DEF IsRequest, Asked, ReleaseInv, Typed, TypeOK, Steps
<1> HIDE DEF b
<1>4. Typed'
  BY <1>1, <1>2, <1>3, StartType DEF ReleaseInv, Steps
<1>5. ~networked => SoloInv'
  BY <1>1, <1>2, StartSolo DEF ReleaseInv
<1> QED
  BY <1>4, <1>5 DEF ReleaseInv, SoloInv

\* discardRelease lists the blobs of the attempt it discards.
LEMMA DiscardStep ==
  ASSUME ReleaseInv, UNCHANGED networked, NEW w \in Workers, Discard(w)
  PROVE  ReleaseInv'
<1> DEFINE todo == BlobsOf[release[request[w].bundle].manifest]
<1>1. At(w, "create", "discard") /\ Proceed(w, "list", todo)
        /\ UNCHANGED <<release, blobs, deduped, failed>>
  BY DEF Discard
<1>2. request[w] # NoRequest /\ Exists(request[w].bundle)
  BY <1>1 DEF At, ReleaseInv, Typed, DiscardsARelease
<1>3. todo \in SUBSET Blobs
  BY <1>2, RequestOf, ManifestAssumption DEF ReleaseInv, Typed, TypeOK, Exists, ReleaseRecord
<1> HIDE DEF todo
<1>4. Typed'
  BY <1>1, <1>2, <1>3, ProceedKeepsTyped
     DEF Proceed, ReleaseInv, Typed, TypeOK, StoresTyped, Steps
<1>5. ~networked => SoloInv'
  <2> SUFFICES ASSUME ~networked PROVE SoloInv'
    OBVIOUS
  <2>1. FinalizedIsWhole'
    BY <1>1 DEF ReleaseInv, SoloInv, FinalizedIsWhole, Exists
  <2>2. loop = w /\ request[w].op = "create"
    BY <1>1, Holder DEF ReleaseInv, At
  <2> QED
    BY <1>1, <1>2, <1>3, <2>1, <2>2, ProceedSolo DEF ReleaseInv, Steps
<1> QED
  BY <1>4, <1>5 DEF ReleaseInv, SoloInv

\* blobsReferencedElsewhere spares every blob that another release lists.
LEMMA ListReleasesStep ==
  ASSUME ReleaseInv, UNCHANGED networked, NEW w \in Workers, ListReleases(w)
  PROVE  ReleaseInv'
<1> DEFINE todo == request[w].todo
                     \ (BlobsOf[request[w].arg] \cup ReferencedElsewhere(request[w].bundle))
<1>1. At(w, "create", "list") /\ Proceed(w, "put", todo)
        /\ UNCHANGED <<release, blobs, deduped, failed>>
  BY DEF ListReleases
<1>2. request[w] # NoRequest
  BY <1>1 DEF At
<1>3. todo \in SUBSET Blobs /\ todo \cap ReferencedElsewhere(request[w].bundle) = {}
  BY <1>2, RequestOf DEF ReleaseInv
<1> HIDE DEF todo
<1>4. Typed'
  BY <1>1, <1>2, <1>3, ProceedKeepsTyped
     DEF Proceed, ReleaseInv, Typed, TypeOK, StoresTyped, Steps
<1>5. ~networked => SoloInv'
  <2> SUFFICES ASSUME ~networked PROVE SoloInv'
    OBVIOUS
  <2>1. FinalizedIsWhole'
    BY <1>1 DEF ReleaseInv, SoloInv, FinalizedIsWhole, Exists
  <2>2. loop = w /\ request[w].op = "create"
    BY <1>1, Holder DEF ReleaseInv, At
  <2> QED
    BY <1>1, <1>2, <1>3, <2>1, <2>2, ProceedSolo DEF ReleaseInv, Steps
<1> QED
  BY <1>4, <1>5 DEF ReleaseInv, SoloInv

\* A blob that is deleted belongs to no published release.
LEMMA DeleteBlobStep ==
  ASSUME ReleaseInv, UNCHANGED networked, NEW w \in Workers, DeleteBlob(w)
  PROVE  ReleaseInv'
<1>1. PICK x \in request[w].todo :
        blobs' = blobs \ {x} /\ Proceed(w, "put", request[w].todo \ {x})
  BY DEF DeleteBlob
<1>2. At(w, "create", "put") /\ UNCHANGED <<release, deduped, failed>>
  BY DEF DeleteBlob
<1>3. request[w] # NoRequest /\ request[w].op = "create" /\ request[w].step = "put"
  BY <1>2 DEF At
<1>4. request[w].todo \in SUBSET Blobs /\ request[w].todo \ {x} \in SUBSET Blobs
  BY <1>3, RequestOf DEF ReleaseInv
<1>5. Typed'
  <2>1. StoresTyped'
    BY <1>1, <1>2 DEF ReleaseInv, Typed, TypeOK, StoresTyped
  <2> QED
    BY <1>1, <1>2, <1>3, <1>4, <2>1, ProceedKeepsTyped DEF Proceed, ReleaseInv, Steps
<1>6. ~networked => SoloInv'
  <2> SUFFICES ASSUME ~networked PROVE SoloInv'
    OBVIOUS
  <2>1. loop = w
    BY <1>2, Holder DEF ReleaseInv
  <2>2. /\ Exists(request[w].bundle) => ~release[request[w].bundle].finalized
        /\ request[w].todo \cap ReferencedElsewhere(request[w].bundle) = {}
    BY <1>3, <2>1 DEF ReleaseInv, SoloInv, ReplacesAnAttempt
  <2>3. FinalizedIsWhole'
    <3> SUFFICES ASSUME NEW b \in Bundles, Exists(b), release[b].finalized
                 PROVE  BlobsOf[release[b].manifest] \subseteq blobs \ {x}
      BY <1>1, <1>2 DEF FinalizedIsWhole, Exists
    <3>1. b # request[w].bundle
      BY <2>2
    <3>2. BlobsOf[release[b].manifest] \subseteq ReferencedElsewhere(request[w].bundle)
      BY <3>1 DEF ReferencedElsewhere
    <3>3. BlobsOf[release[b].manifest] \subseteq blobs
      BY DEF ReleaseInv, SoloInv, FinalizedIsWhole
    <3> QED
      BY <1>1, <2>2, <3>2, <3>3
  <2> QED
    BY <1>1, <1>2, <1>3, <1>4, <2>1, <2>2, <2>3, ProceedSolo DEF ReleaseInv, Steps
<1> QED
  BY <1>5, <1>6 DEF ReleaseInv, SoloInv

\* A put of a record that, if published, is whole.
LEMMA PutStep ==
  ASSUME ReleaseInv, UNCHANGED <<blobs, deduped, failed, networked>>,
         NEW w \in Workers, NEW op, At(w, op, "put"),
         NEW record \in ReleaseRecord, Put(w, record),
         ~networked /\ record.finalized => BlobsOf[record.manifest] \subseteq blobs
  PROVE  ReleaseInv'
<1>1. request[w] # NoRequest
  BY DEF At
<1>2. Typed'
  BY <1>1, PutKeepsTyped DEF ReleaseInv
<1>3. ASSUME ~networked PROVE SoloInv'
  <2>1. FinalizedIsWhole'
    BY <1>1, <1>3, PutWhole DEF ReleaseInv, SoloInv
  <2>2. loop = w /\ Finish(w)
    BY <1>3, Holder DEF ReleaseInv, Put
  <2> QED
    BY <1>3, <2>1, <2>2, FinishSolo DEF ReleaseInv
<1> QED
  BY <1>2, <1>3 DEF ReleaseInv, SoloInv

\* The new attempt is put unfinalised, so it owes no blobs yet.
LEMMA CreatePutStep ==
  ASSUME ReleaseInv, UNCHANGED networked, NEW w \in Workers, CreatePut(w)
  PROVE  ReleaseInv'
<1> DEFINE r == request[w]
           record(rollout) == IF r.seen = NoRelease
                                THEN NewRecord(r.arg, rollout)
                                ELSE [r.seen EXCEPT !.manifest = r.arg, !.rollout = rollout,
                                                    !.finalized = FALSE]
<1>1. PICK rollout \in Rollouts : Put(w, record(rollout))
  BY DEF CreatePut
<1>2. At(w, "create", "put") /\ UNCHANGED <<blobs, deduped, failed>>
  BY DEF CreatePut
<1>3. r.arg \in Manifests /\ r.seen \in ReleaseRecord \cup {NoRelease}
  BY <1>2, RequestOf DEF At, ReleaseInv
<1>4. record(rollout) \in ReleaseRecord /\ ~record(rollout).finalized
  <2>1. CASE r.seen = NoRelease
    BY <1>3, <2>1, RecordsType DEF NewRecord
  <2>2. CASE r.seen \in ReleaseRecord
    BY <1>3, <2>2, CountAssumption, SentinelAssumption DEF ReleaseRecord
  <2> QED
    BY <1>3, <2>1, <2>2
<1> HIDE DEF record
<1> QED
  BY <1>1, <1>2, <1>4, PutStep

\* stageBlob starts.
LEMMA StageStep ==
  ASSUME ReleaseInv, UNCHANGED networked, NEW w \in Workers, NEW b \in Bundles, NEW x \in Blobs,
         Stage(w, b, x)
  PROVE  ReleaseInv'
<1>1. Exists(b) /\ Start(w, "stage", b, x, "stat", {})
  BY DEF Stage
<1>2. IsRequest([op |-> "stage", bundle |-> b, arg |-> x, step |-> "stat", todo |-> {},
                 seen |-> release[b]])
  BY DEF IsRequest, Asked, ReleaseInv, Typed, TypeOK, Steps
<1>3. Typed'
  BY <1>1, <1>2, StartType DEF ReleaseInv, Steps
<1>4. ~networked => SoloInv'
  BY <1>1, StartSolo DEF ReleaseInv
<1> QED
  BY <1>3, <1>4 DEF ReleaseInv, SoloInv

\* The end of a request that leaves the records as they are and takes no blob away.
LEMMA FinishStep ==
  ASSUME ReleaseInv, UNCHANGED <<networked, release>>, NEW w \in Workers, Finish(w),
         loop \in {w, Free} \/ networked,
         blobs' \in SUBSET Blobs, blobs \subseteq blobs',
         deduped' \in SUBSET (Installs \X Bundles), failed' \in SUBSET (Installs \X Bundles)
  PROVE  ReleaseInv'
<1>1. StoresTyped' /\ \A b \in Bundles : Exists(b) => Exists(b)'
  BY DEF ReleaseInv, Typed, TypeOK, StoresTyped, Exists
<1>2. Typed'
  BY <1>1, FinishKeepsTyped DEF ReleaseInv
<1>3. ASSUME ~networked PROVE SoloInv'
  <2>1. FinalizedIsWhole'
    BY <1>3 DEF ReleaseInv, SoloInv, FinalizedIsWhole, Exists
  <2> QED
    BY <1>3, <2>1, FinishSolo DEF ReleaseInv
<1> QED
  BY <1>2, <1>3 DEF ReleaseInv, SoloInv

\* stageBlob looks for the blob, and lets go of the loop to read the body.
LEMMA StatBlobStep ==
  ASSUME ReleaseInv, UNCHANGED networked, NEW w \in Workers, StatBlob(w)
  PROVE  ReleaseInv'
<1>1. At(w, "stage", "stat") /\ UNCHANGED <<release, blobs, deduped, failed>>
  BY DEF StatBlob
<1>2. request[w] # NoRequest /\ request[w].op = "stage" /\ request[w].step = "stat" /\ loop \in {w, Free}
  BY <1>1 DEF At
<1>3. CASE Finish(w)
  BY <1>1, <1>2, <1>3, FinishStep DEF ReleaseInv, Typed, TypeOK
<1>4. CASE request' = [request EXCEPT ![w].step = "upload"] /\ loop' = Free
  <2> DEFINE next == Advanced(request[w], "upload", request[w].todo)
  <2>1. request[w].todo \in SUBSET Blobs /\ "upload" \in Steps \ {"discard"}
    BY <1>2, RequestOf DEF ReleaseInv, Steps
  <2>2. /\ IsRequest(next) /\ next.op = "stage" /\ next.step = "upload"
        /\ next.bundle = request[w].bundle /\ next.seen = request[w].seen
    BY <1>2, <2>1, ProceedType DEF ReleaseInv, Typed
  <2>3. [request[w] EXCEPT !.step = "upload"] = next
    <3>1. IsRequest(request[w])
      BY <1>2 DEF ReleaseInv, Typed, TypeOK
    <3> QED
      BY <3>1 DEF IsRequest, Asked, Advanced
  <2>4. request'[w] = next /\ RequestsIndexed' /\ \A v \in Workers \ {w} : request'[v] = request[v]
    BY <1>4, <2>3 DEF ReleaseInv, Typed, RequestsIndexed
  <2> HIDE DEF next
  <2>5. Typed'
    BY <1>1, <1>2, <1>4, <2>2, <2>4
       DEF ReleaseInv, Typed, TypeOK, ReportsFit, DiscardsARelease, Exists
  <2>6. ASSUME ~networked PROVE SoloInv'
    <3>1. \A v \in Workers \ {w} : request[v] # NoRequest => Uploading(v)
      BY <1>2, <2>6, Alone DEF ReleaseInv, SoloInv
    <3>2. LoopIsHeld'
      BY <2>2, <2>4, <3>1 DEF LoopIsHeld, Uploading
    <3>3. FinalizedIsWhole'
      BY <1>1, <2>6 DEF ReleaseInv, SoloInv, FinalizedIsWhole, Exists
    <3> QED
      BY <1>4, <3>2, <3>3, SentinelAssumption
         DEF SoloInv, SeesTheRecord, ReplacesAnAttempt, FoundWhatItPassed
  <2> QED
    BY <2>5, <2>6 DEF ReleaseInv, SoloInv
<1> QED
  BY <1>3, <1>4 DEF StatBlob

\* An upload that ends adds its blob and takes none away.
LEMMA UploadStep ==
  ASSUME ReleaseInv, UNCHANGED networked, NEW w \in Workers, Upload(w)
  PROVE  ReleaseInv'
<1>1. request[w].arg \in Blobs /\ loop \in {w, Free}
  BY RequestOf DEF Upload, At, ReleaseInv
<1> QED
  BY <1>1, FinishStep DEF Upload, ReleaseInv, Typed, TypeOK

\* finalizeRelease starts with every blob still to look for.
LEMMA FinalizeStep ==
  ASSUME ReleaseInv, UNCHANGED networked, NEW w \in Workers, NEW b \in Bundles, Finalize(w, b)
  PROVE  ReleaseInv'
<1> DEFINE todo == BlobsOf[release[b].manifest]
<1>1. Exists(b) /\ Start(w, "finalize", b, b, "put", todo)
  BY DEF Finalize
<1>2. todo \in SUBSET Blobs
  BY <1>1, ManifestAssumption DEF Exists, ReleaseRecord, ReleaseInv, Typed, TypeOK
<1>3. IsRequest([op |-> "finalize", bundle |-> b, arg |-> b, step |-> "put", todo |-> todo,
                 seen |-> release[b]])
  BY <1>2 DEF IsRequest, Asked, ReleaseInv, Typed, TypeOK, Steps
<1>4. Typed'
  BY <1>1, <1>2, <1>3, StartType DEF ReleaseInv, Steps
<1>5. ~networked => SoloInv'
  BY <1>1, StartSolo DEF ReleaseInv
<1> QED
  BY <1>4, <1>5 DEF ReleaseInv, SoloInv

\* finalizeRelease passes a blob only where it is in the store.
LEMMA FindBlobStep ==
  ASSUME ReleaseInv, UNCHANGED networked, NEW w \in Workers, FindBlob(w)
  PROVE  ReleaseInv'
<1>1. At(w, "finalize", "put") /\ UNCHANGED <<release, blobs, deduped, failed>>
  BY DEF FindBlob
<1>2. request[w] # NoRequest /\ request[w].op = "finalize" /\ loop \in {w, Free}
  BY <1>1 DEF At
<1>3. CASE Finish(w)
  BY <1>1, <1>2, <1>3, FinishStep DEF ReleaseInv, Typed, TypeOK
<1>4. ASSUME NEW x \in request[w].todo, x \in blobs, Proceed(w, "put", request[w].todo \ {x})
      PROVE  ReleaseInv'
  <2>1. request[w].todo \ {x} \in SUBSET Blobs
    BY <1>2, RequestOf DEF ReleaseInv
  <2>2. Typed'
    BY <1>1, <1>2, <1>4, <2>1, ProceedKeepsTyped
       DEF Proceed, ReleaseInv, Typed, TypeOK, StoresTyped, Steps
  <2>3. ASSUME ~networked PROVE SoloInv'
    <3>1. FinalizedIsWhole'
      BY <1>1, <2>3 DEF ReleaseInv, SoloInv, FinalizedIsWhole, Exists
    <3>2. loop = w
      BY <1>1, <2>3, Holder DEF ReleaseInv
    <3>3. BlobsOf[request[w].seen.manifest] \subseteq blobs' \cup (request[w].todo \ {x})
      BY <1>1, <1>2, <1>4, <2>3, <3>2 DEF ReleaseInv, SoloInv, FoundWhatItPassed
    <3> QED
      BY <1>1, <1>2, <1>4, <2>1, <2>3, <3>1, <3>2, <3>3, ProceedSolo DEF ReleaseInv, Steps
  <2> QED
    BY <2>2, <2>3 DEF ReleaseInv, SoloInv
<1> QED
  BY <1>3, <1>4 DEF FindBlob

\* A release that is finalized has all of its blobs: nobody deleted one since they were found.
LEMMA FinalizePutStep ==
  ASSUME ReleaseInv, UNCHANGED networked, NEW w \in Workers, FinalizePut(w)
  PROVE  ReleaseInv'
<1> DEFINE record == [request[w].seen EXCEPT !.finalized = TRUE]
<1>1. At(w, "finalize", "put") /\ Put(w, record) /\ UNCHANGED <<blobs, deduped, failed>>
        /\ request[w].todo = {}
  BY DEF FinalizePut
<1>2. request[w] # NoRequest /\ request[w].op = "finalize"
  BY <1>1 DEF At
<1>3. record \in ReleaseRecord /\ record.manifest = request[w].seen.manifest
  BY <1>2, RequestOf DEF ReleaseRecord, ReleaseInv
<1>4. ~networked => BlobsOf[request[w].seen.manifest] \subseteq blobs
  BY <1>1, <1>2, Holder DEF ReleaseInv, SoloInv, FoundWhatItPassed
<1> HIDE DEF record
<1> QED
  BY <1>1, <1>3, <1>4, PutStep

\* The operator's requests and the reports start from a release that is there.
LEMMA OtherStart ==
  ASSUME ReleaseInv, UNCHANGED networked, NEW w \in Workers, NEW op, NEW b \in Bundles, NEW arg,
         NEW step \in Steps, Exists(b), Start(w, op, b, arg, step, {}),
         \/ op = "rollout" /\ arg \in Rollouts
         \/ op = "pause" /\ arg \in BOOLEAN
         \/ op = "rollback" /\ arg \in Bundles
         \/ op = "confirm" /\ arg \in Report /\ Total(release[b]) < MaxReports
  PROVE  ReleaseInv'
<1>1. IsRequest([op |-> op, bundle |-> b, arg |-> arg, step |-> step, todo |-> {},
                 seen |-> release[b]])
  BY DEF IsRequest, Asked, ReleaseInv, Typed, TypeOK
<1>2. op \notin {"create", "finalize"}
  OBVIOUS
<1>3. Typed'
  BY <1>1, <1>2, StartType DEF ReleaseInv
<1>4. ~networked => SoloInv'
  BY <1>2, StartSolo DEF ReleaseInv
<1> QED
  BY <1>3, <1>4 DEF ReleaseInv, SoloInv

\* A change of a record that leaves its manifest and its publication as they were read.
LEMMA OtherPut ==
  ASSUME ReleaseInv, UNCHANGED <<blobs, deduped, failed, networked>>,
         NEW w \in Workers, NEW op, At(w, op, "put"), op # "create",
         NEW record \in ReleaseRecord, Put(w, record),
         record.manifest = request[w].seen.manifest, record.finalized = request[w].seen.finalized
  PROVE  ReleaseInv'
<1>1. request[w] # NoRequest /\ request[w].op = op
  BY DEF At
<1>2. request[w].bundle \in Bundles /\ request[w].seen \in ReleaseRecord
  BY <1>1, RequestOf DEF ReleaseInv
<1>3. ASSUME ~networked, record.finalized PROVE BlobsOf[record.manifest] \subseteq blobs
  <2>1. request[w].seen = release[request[w].bundle]
    BY <1>3, Holder DEF ReleaseInv
  <2> QED
    BY <1>2, <1>3, <2>1, SentinelAssumption DEF ReleaseInv, SoloInv, FinalizedIsWhole, Exists
<1> QED
  BY <1>3, PutStep

\* setRollout puts back the record with another percentage.
LEMMA RolloutPutStep ==
  ASSUME ReleaseInv, UNCHANGED networked, NEW w \in Workers, RolloutPut(w)
  PROVE  ReleaseInv'
<1> DEFINE record == [request[w].seen EXCEPT !.rollout = request[w].arg]
<1>1. At(w, "rollout", "put") /\ Put(w, record) /\ UNCHANGED <<blobs, deduped, failed>>
  BY DEF RolloutPut
<1>2. /\ record \in ReleaseRecord /\ record.manifest = request[w].seen.manifest
      /\ record.finalized = request[w].seen.finalized
  BY <1>1, RequestOf, CountAssumption DEF At, ReleaseRecord, ReleaseInv
<1> HIDE DEF record
<1> QED
  BY <1>1, <1>2, OtherPut

\* setPaused puts back the record paused or resumed.
LEMMA PausePutStep ==
  ASSUME ReleaseInv, UNCHANGED networked, NEW w \in Workers, PausePut(w)
  PROVE  ReleaseInv'
<1> DEFINE record == [request[w].seen EXCEPT !.paused = request[w].arg]
<1>1. At(w, "pause", "put") /\ Put(w, record) /\ UNCHANGED <<blobs, deduped, failed>>
  BY DEF PausePut
<1>2. /\ record \in ReleaseRecord /\ record.manifest = request[w].seen.manifest
      /\ record.finalized = request[w].seen.finalized
  BY <1>1, RequestOf DEF At, ReleaseRecord, ReleaseInv
<1> HIDE DEF record
<1> QED
  BY <1>1, <1>2, OtherPut

\* rollback puts back the record rolled back and paused.
LEMMA RollbackPutStep ==
  ASSUME ReleaseInv, UNCHANGED networked, NEW w \in Workers, RollbackPut(w)
  PROVE  ReleaseInv'
<1> DEFINE record == [request[w].seen EXCEPT !.rolledBack = TRUE, !.paused = TRUE]
<1>1. At(w, "rollback", "put") /\ Put(w, record) /\ UNCHANGED <<blobs, deduped, failed>>
  BY DEF RollbackPut
<1>2. /\ record \in ReleaseRecord /\ record.manifest = request[w].seen.manifest
      /\ record.finalized = request[w].seen.finalized
  BY <1>1, RequestOf DEF At, ReleaseRecord, ReleaseInv
<1> HIDE DEF record
<1> QED
  BY <1>1, <1>2, OtherPut

\* A failure report is looked up in the cache.
LEMMA DedupeStep ==
  ASSUME ReleaseInv, UNCHANGED networked, NEW w \in Workers, Dedupe(w)
  PROVE  ReleaseInv'
<1> DEFINE key == <<request[w].arg.install, request[w].bundle>>
<1>1. At(w, "confirm", "dedupe") /\ UNCHANGED <<release, blobs>>
        /\ deduped' = deduped \cup {key} /\ failed' = failed \cup {key}
  BY DEF Dedupe
<1>2. request[w] # NoRequest /\ request[w].op = "confirm" /\ loop \in {w, Free}
  BY <1>1 DEF At
<1>3. key \in Installs \X Bundles
  BY <1>2, RequestOf DEF ReleaseInv, Report
<1> HIDE DEF key
<1>4. /\ deduped' \in SUBSET (Installs \X Bundles) /\ failed' \in SUBSET (Installs \X Bundles)
      /\ blobs' \in SUBSET Blobs
  BY <1>1, <1>3 DEF ReleaseInv, Typed, TypeOK
<1>5. CASE Finish(w)
  BY <1>1, <1>2, <1>4, <1>5, FinishStep DEF ReleaseInv
<1>6. CASE Proceed(w, "put", {})
  <2>1. Typed'
    <3>1. StoresTyped'
      BY <1>1, <1>4 DEF ReleaseInv, Typed, TypeOK, StoresTyped
    <3>2. "put" \in Steps \ {"discard"} /\ {} \in SUBSET Blobs
      BY DEF Steps
    <3>3. loop' \in {Free, w} /\ request' = [request EXCEPT ![w].step = "put", ![w].todo = {}]
      BY <1>6 DEF Proceed
    <3> QED
      BY <1>1, <1>2, <3>1, <3>2, <3>3, ProceedKeepsTyped DEF ReleaseInv
  <2>2. ASSUME ~networked PROVE SoloInv'
    <3>1. FinalizedIsWhole'
      BY <1>1, <2>2 DEF ReleaseInv, SoloInv, FinalizedIsWhole, Exists
    <3>2. loop = w
      BY <1>1, <2>2, Holder DEF ReleaseInv
    <3> QED
      BY <1>1, <1>2, <1>6, <2>2, <3>1, <3>2, ProceedSolo DEF ReleaseInv, Steps
  <2> QED
    BY <2>1, <2>2 DEF ReleaseInv, SoloInv
<1> QED
  BY <1>5, <1>6 DEF Dedupe

\* The record a report puts.
LEMMA ConfirmRecord ==
  ASSUME ReleaseInv, NEW w \in Workers, At(w, "confirm", "put")
  PROVE  LET r == Counted(request[w].seen, request[w].arg.good)
             record == [r EXCEPT !.paused = @ \/ AutoPauses(r)]
         IN  /\ record \in ReleaseRecord
             /\ record.manifest = request[w].seen.manifest
             /\ record.finalized = request[w].seen.finalized
             /\ record.rolledBack = request[w].seen.rolledBack
             /\ request[w].seen.paused => record.paused
             /\ request[w].seen \in ReleaseRecord
<1> DEFINE r == Counted(request[w].seen, request[w].arg.good)
<1>1. request[w] # NoRequest /\ request[w].op = "confirm"
  BY DEF At
<1>2. request[w].seen \in ReleaseRecord /\ request[w].arg.good \in BOOLEAN
        /\ Total(request[w].seen) < MaxReports
  BY <1>1, RequestOf DEF ReleaseInv, Report, Typed, ReportsFit
<1>3. r \in ReleaseRecord
  BY <1>2, RecordsType
<1>4. /\ r.manifest = request[w].seen.manifest /\ r.finalized = request[w].seen.finalized
      /\ r.rolledBack = request[w].seen.rolledBack /\ r.paused = request[w].seen.paused
  BY <1>2 DEF Counted, ReleaseRecord
<1> HIDE DEF r
<1>5. r.paused \in BOOLEAN /\ (r.paused \/ AutoPauses(r)) \in BOOLEAN
  BY <1>3 DEF ReleaseRecord
<1> QED
  BY <1>2, <1>3, <1>4, <1>5 DEF ReleaseRecord, r

\* recordConfirm puts back the record with the report counted, and pauses it if too many failed.
LEMMA ConfirmPutStep ==
  ASSUME ReleaseInv, UNCHANGED networked, NEW w \in Workers, ConfirmPut(w)
  PROVE  ReleaseInv'
<1> DEFINE r == Counted(request[w].seen, request[w].arg.good)
           record == [r EXCEPT !.paused = @ \/ AutoPauses(r)]
<1>1. At(w, "confirm", "put") /\ Put(w, record) /\ UNCHANGED <<blobs, deduped, failed>>
  BY DEF ConfirmPut
<1>2. /\ record \in ReleaseRecord /\ record.manifest = request[w].seen.manifest
      /\ record.finalized = request[w].seen.finalized
  BY <1>1, ConfirmRecord
<1> HIDE DEF record
<1> QED
  BY <1>1, <1>2, OtherPut

\* A restart ends every request and keeps records and blobs.
LEMMA RestartStep ==
  ASSUME ReleaseInv, UNCHANGED networked, Restart
  PROVE  ReleaseInv'
<1>1. \A w \in Workers : request'[w] = NoRequest
  BY DEF Restart
<1>2. Typed'
  BY <1>1 DEF Restart, ReleaseInv, Typed, TypeOK, RequestsIndexed, ReportsFit, DiscardsARelease
<1>3. SoloInv'
  BY <1>1 DEF Restart, ReleaseInv, SoloInv, LoopIsHeld, SeesTheRecord, ReplacesAnAttempt,
              FoundWhatItPassed, FinalizedIsWhole, Exists
<1> QED
  BY <1>2, <1>3 DEF ReleaseInv

\* Every step of every request keeps the invariant.
LEMMA InvStep == ReleaseInv /\ [Next]_vars => ReleaseInv'
<1> SUFFICES ASSUME ReleaseInv, [Next]_vars PROVE ReleaseInv'
  OBVIOUS
<1>1. CASE UNCHANGED vars
  BY <1>1 DEF vars, ReleaseInv, Typed, TypeOK, RequestsIndexed, ReportsFit, DiscardsARelease,
              SoloInv, LoopIsHeld, Uploading, SeesTheRecord, ReplacesAnAttempt, FoundWhatItPassed,
              FinalizedIsWhole, Exists, ReferencedElsewhere
<1>2. CASE Restart /\ UNCHANGED networked
  BY <1>2, RestartStep
<1>3. ASSUME NEW w \in Workers, Publishing(w), UNCHANGED networked PROVE ReleaseInv'
  BY <1>3, CreateStep, DiscardStep, ListReleasesStep, DeleteBlobStep, CreatePutStep, StageStep,
     StatBlobStep, UploadStep, FinalizeStep, FindBlobStep, FinalizePutStep DEF Publishing
<1>4. ASSUME NEW w \in Workers, Operating(w), UNCHANGED networked PROVE ReleaseInv'
  BY <1>4, OtherStart, RolloutPutStep, PausePutStep, RollbackPutStep
     DEF Operating, SetRollout, SetPaused, Rollback, Steps
<1>5. ASSUME NEW w \in Workers, Reporting(w), UNCHANGED networked PROVE ReleaseInv'
  BY <1>5, OtherStart, DedupeStep, ConfirmPutStep DEF Reporting, Confirm, Steps
<1>6. ASSUME NEW w \in Workers, InstanceDies(w), UNCHANGED networked PROVE ReleaseInv'
  BY <1>6, FinishStep DEF InstanceDies, ReleaseInv, Typed, TypeOK
<1> QED
  BY <1>1, <1>2, <1>3, <1>4, <1>5, <1>6 DEF Next

-----------------------------------------------------------------------------
(* What a put changes, of one process *)

\* A put leaves the other releases alone and is seen by nobody else.
LEMMA PutOf ==
  ASSUME ReleaseInv, ~networked, NEW w \in Workers, NEW op, At(w, op, "put"),
         NEW record, Put(w, record)
  PROVE  /\ request[w].bundle \in Bundles /\ request[w].seen = release[request[w].bundle]
         /\ release'[request[w].bundle] = record
         /\ \A b \in Bundles \ {request[w].bundle} : release'[b] = release[b]
BY Holder, RequestOf DEF ReleaseInv, Typed, TypeOK, Put, At

KeepsPublished ==
  \A b \in Bundles : ~networked /\ Exists(b) /\ release[b].finalized =>
    release'[b].finalized /\ release'[b].manifest = release[b].manifest

KeepsSwitches ==
  \A b \in Bundles : ~networked /\ Exists(b) =>
    /\ release[b].rolledBack => release'[b].rolledBack
    /\ release[b].paused /\ ~release'[b].paused =>
         \E w \in Workers : request[w] # NoRequest /\ request[w].op = "pause"
                              /\ request[w].bundle = b /\ ~request[w].arg

\* One put, of one process, undoes no publication and no switch.
LEMMA PutKeeps ==
  ASSUME ReleaseInv, ~networked, NEW w \in Workers,
         CreatePut(w) \/ FinalizePut(w) \/ RolloutPut(w) \/ PausePut(w) \/ RollbackPut(w) \/ ConfirmPut(w)
  PROVE  KeepsPublished /\ KeepsSwitches
<1> DEFINE b == request[w].bundle
           seen == request[w].seen
<1>1. PICK op : At(w, op, "put")
  BY DEF CreatePut, FinalizePut, RolloutPut, PausePut, RollbackPut, ConfirmPut
<1>2. request[w] # NoRequest /\ request[w].op = op /\ seen \in ReleaseRecord \cup {NoRelease}
        /\ loop = w /\ request[w].step = "put"
  BY <1>1, RequestOf, Holder DEF At, ReleaseInv
<1>3. PICK record : Put(w, record)
        /\ (seen \in ReleaseRecord =>
              /\ seen.finalized => record.finalized /\ record.manifest = seen.manifest
              /\ seen.rolledBack => record.rolledBack
              /\ seen.paused /\ ~record.paused => op = "pause" /\ ~request[w].arg)
  <2>1. CASE CreatePut(w)
    <3>1. op = "create" /\ (Exists(b) => ~release[b].finalized) /\ seen = release[b]
      BY <1>1, <1>2, <2>1, Holder DEF CreatePut, At, ReleaseInv, SoloInv, ReplacesAnAttempt
    <3>2. PICK rollout \in Rollouts :
            Put(w, IF seen = NoRelease
                     THEN NewRecord(request[w].arg, rollout)
                     ELSE [seen EXCEPT !.manifest = request[w].arg, !.rollout = rollout,
                                       !.finalized = FALSE])
      BY <2>1 DEF CreatePut
    <3>3. CASE seen = NoRelease
      BY <3>2, <3>3, SentinelAssumption
    <3>4. CASE seen \in ReleaseRecord
      <4> DEFINE record == [seen EXCEPT !.manifest = request[w].arg, !.rollout = rollout,
                                        !.finalized = FALSE]
      <4>1. Put(w, record)
        BY <3>2, <3>4, SentinelAssumption
      <4>2. record.rolledBack = seen.rolledBack /\ record.paused = seen.paused
        BY <3>4 DEF ReleaseRecord
      <4>3. b \in Bundles
        BY <1>2, RequestOf DEF ReleaseInv
      <4>4. ~seen.finalized
        BY <3>1, <3>4, SentinelAssumption DEF Exists
      <4> HIDE DEF record, seen
      <4> QED
        BY <4>1, <4>2, <4>4
    <3> QED
      BY <1>2, <3>3, <3>4
  <2>2. CASE FinalizePut(w)
    BY <2>2 DEF FinalizePut, ReleaseRecord
  <2>3. CASE RolloutPut(w)
    BY <2>3 DEF RolloutPut, ReleaseRecord
  <2>4. CASE PausePut(w)
    <3>1. op = "pause" /\ request[w].arg \in BOOLEAN
      BY <1>2, <2>4, RequestOf DEF PausePut, At, ReleaseInv
    <3> DEFINE record == [seen EXCEPT !.paused = request[w].arg]
    <3>2. Put(w, record)
      BY <2>4 DEF PausePut
    <3>3. seen \in ReleaseRecord =>
            /\ record.finalized = seen.finalized /\ record.manifest = seen.manifest
            /\ record.rolledBack = seen.rolledBack /\ record.paused = request[w].arg
      BY <3>1 DEF ReleaseRecord
    <3> HIDE DEF record, seen
    <3>4. seen \in ReleaseRecord =>
            /\ seen.finalized => record.finalized /\ record.manifest = seen.manifest
            /\ seen.rolledBack => record.rolledBack
            /\ seen.paused /\ ~record.paused => op = "pause" /\ ~request[w].arg
      BY <3>1, <3>3, Zenon
    <3> WITNESS record
    <3> QED
      BY <3>2, <3>4
  <2>5. CASE RollbackPut(w)
    <3> DEFINE record == [seen EXCEPT !.rolledBack = TRUE, !.paused = TRUE]
    <3>1. Put(w, record)
      BY <2>5 DEF RollbackPut
    <3>2. seen \in ReleaseRecord =>
            /\ record.finalized = seen.finalized /\ record.manifest = seen.manifest
            /\ record.rolledBack /\ record.paused
      BY DEF ReleaseRecord
    <3> HIDE DEF record, seen
    <3> QED
      BY <3>1, <3>2
  <2>6. CASE ConfirmPut(w)
    <3> DEFINE r == Counted(seen, request[w].arg.good)
               record == [r EXCEPT !.paused = @ \/ AutoPauses(r)]
    <3>1. At(w, "confirm", "put") /\ Put(w, record)
      BY <2>6 DEF ConfirmPut
    <3>2. /\ record.manifest = seen.manifest /\ record.finalized = seen.finalized
          /\ seen \in ReleaseRecord
          /\ record.rolledBack = seen.rolledBack /\ (seen.paused => record.paused)
      BY <3>1, ConfirmRecord
    <3> HIDE DEF r, record, seen
    <3> QED
      BY <3>1, <3>2
  <2> QED
    BY <2>1, <2>2, <2>3, <2>4, <2>5, <2>6
<1>4. /\ b \in Bundles /\ seen = release[b] /\ release'[b] = record
      /\ \A c \in Bundles \ {b} : release'[c] = release[c]
  BY <1>1, <1>3, PutOf
<1>5. Exists(b) => seen \in ReleaseRecord
  BY <1>2, <1>4 DEF Exists
<1> HIDE DEF b, seen
<1>6. KeepsPublished
  BY <1>3, <1>4, <1>5 DEF KeepsPublished
<1>7. KeepsSwitches
  <2> SUFFICES ASSUME NEW c \in Bundles, Exists(c)
               PROVE  /\ release[c].rolledBack => release'[c].rolledBack
                      /\ release[c].paused /\ ~release'[c].paused =>
                           \E v \in Workers : request[v] # NoRequest /\ request[v].op = "pause"
                                                /\ request[v].bundle = c /\ ~request[v].arg
    BY DEF KeepsSwitches
  <2>1. CASE c # b
    BY <1>4, <2>1
  <2>2. CASE c = b
    BY <1>2, <1>3, <1>4, <1>5, <2>2 DEF b
  <2> QED
    BY <2>1, <2>2
<1> QED
  BY <1>6, <1>7

\* A step that changes no record undoes nothing.
LEMMA Unchanged ==
  ASSUME UNCHANGED release
  PROVE  KeepsPublished /\ KeepsSwitches
BY DEF KeepsPublished, KeepsSwitches

\* No step of one process undoes a publication or a switch.
LEMMA StepKeeps ==
  ASSUME ReleaseInv, [Next]_vars
  PROVE  KeepsPublished /\ KeepsSwitches
<1>1. CASE networked
  BY <1>1 DEF KeepsPublished, KeepsSwitches
<1>2. CASE UNCHANGED vars
  BY <1>2, Unchanged DEF vars
<1>3. CASE Restart
  BY <1>3, Unchanged DEF Restart
<1>4. ASSUME NEW w \in Workers, ~networked, Publishing(w) PROVE KeepsPublished /\ KeepsSwitches
  BY <1>4, Unchanged, PutKeeps DEF Publishing, Create, Discard, ListReleases, DeleteBlob, Stage, StatBlob,
     Upload, Finalize, FindBlob, Start
<1>5. ASSUME NEW w \in Workers, ~networked, Operating(w) PROVE KeepsPublished /\ KeepsSwitches
  BY <1>5, Unchanged, PutKeeps DEF Operating, SetRollout, SetPaused, Rollback, Start
<1>6. ASSUME NEW w \in Workers, ~networked, Reporting(w) PROVE KeepsPublished /\ KeepsSwitches
  BY <1>6, Unchanged, PutKeeps DEF Reporting, Confirm, Dedupe, Start
<1>7. ASSUME NEW w \in Workers, InstanceDies(w) PROVE KeepsPublished /\ KeepsSwitches
  BY <1>7, Unchanged DEF InstanceDies
<1> QED
  BY <1>1, <1>2, <1>3, <1>4, <1>5, <1>6, <1>7 DEF Next

-----------------------------------------------------------------------------
(* Theorems *)

\* The invariant holds at the start.
LEMMA InvInit == Init => ReleaseInv
BY TypeInit, SentinelAssumption
   DEF Init, ReleaseInv, SoloInv, LoopIsHeld, SeesTheRecord, ReplacesAnAttempt, FoundWhatItPassed,
       FinalizedIsWhole, Exists

\* The inductive invariant of the release store: typed records and requests, and, of one process,
\* a holder of the event loop that sees the record as it is.
THEOREM ReleaseInvariant == Spec => []ReleaseInv
BY InvInit, InvStep, PTL DEF Spec

\* Every variable of the release store keeps its type, with the default and with networked providers.
THEOREM ReleaseTypes == Spec => []TypeOK
<1>1. ReleaseInv => TypeOK
  BY DEF ReleaseInv, Typed
<1> QED
  BY <1>1, ReleaseInvariant, PTL

\* A published release keeps every blob its manifest lists, whatever is discarded, uploaded and
\* finalized meanwhile (discardRelease and finalizeRelease, one process).
THEOREM FinalizedAlwaysWhole == Spec => []FinalizedIsWhole
<1>1. ReleaseInv => FinalizedIsWhole
  BY DEF ReleaseInv, SoloInv, FinalizedIsWhole
<1> QED
  BY <1>1, ReleaseInvariant, PTL

\* A published release stays published with its manifest (createRelease, one process).
THEOREM PublishedNeverChanges == Spec => PublishedIsImmutable
<1>1. ReleaseInv /\ [Next]_vars => [KeepsPublished]_vars
  BY StepKeeps
<1>2. Spec => [][KeepsPublished]_vars
  BY <1>1, ReleaseInvariant, PTL DEF Spec
<1> QED
  BY <1>2, PTL DEF PublishedIsImmutable, KeepsPublished

\* No step but a resume lifts a pause, and none lifts a rollback (setPaused, rollback, one process).
THEOREM SwitchesAlwaysHold == Spec => KillSwitchHolds
<1>1. ReleaseInv /\ [Next]_vars => [KeepsSwitches]_vars
  BY StepKeeps
<1>2. Spec => [][KeepsSwitches]_vars
  BY <1>1, ReleaseInvariant, PTL DEF Spec
<1> QED
  BY <1>2, PTL DEF KillSwitchHolds, KeepsSwitches

-----------------------------------------------------------------------------
(* One process serves as if every change of a release were one step *)

\* A report is on a release that was published when it was read, a finalize on one that was not, and
\* an attempt on the bundle of its manifest.
AsksOfWhatItSaw ==
  \A w \in Workers :
    request[w] # NoRequest =>
      /\ request[w].op = "confirm" => request[w].seen.finalized
      /\ request[w].op = "finalize" => ~request[w].seen.finalized
      /\ request[w].op = "create" => request[w].bundle = BundleId[request[w].arg]

\* What the holder is about to delete is what its attempt lists.
DiscardsItsOwn ==
  \A w \in Workers :
    request[w] # NoRequest /\ loop = w /\ request[w].op = "create" /\ request[w].todo # {} =>
      /\ Exists(request[w].bundle)
      /\ request[w].todo \subseteq BlobsOf[release[request[w].bundle].manifest]

SerialInv == AsksOfWhatItSaw /\ (~networked => DiscardsItsOwn)

\* A request that starts asks of what it has read and deletes nothing yet.
LEMMA StartSerial ==
  ASSUME ReleaseInv, SerialInv, UNCHANGED networked,
         NEW w \in Workers, NEW op, NEW b, NEW arg, NEW step, NEW todo,
         Start(w, op, b, arg, step, todo),
         op = "confirm" => release[b].finalized,
         op = "finalize" => ~release[b].finalized,
         op = "create" => todo = {} /\ b = BundleId[arg]
  PROVE  SerialInv'
<1> DEFINE new == [op |-> op, bundle |-> b, arg |-> arg, step |-> step, todo |-> todo,
                   seen |-> release[b]]
<1>1. request' = [request EXCEPT ![w] = new] /\ (~networked => loop' = w)
  BY DEF Start
<1>2. request'[w] = new /\ \A v \in Workers \ {w} : request'[v] = request[v]
  BY <1>1 DEF ReleaseInv, Typed, RequestsIndexed
<1>3. /\ new.op = op /\ new.seen = release[b] /\ new.todo = todo
      /\ new.bundle = b /\ new.arg = arg
  OBVIOUS
<1> HIDE DEF new
<1> QED
  BY <1>1, <1>2, <1>3 DEF SerialInv, AsksOfWhatItSaw, DiscardsItsOwn

\* A request that goes on asks what it asked, and deletes what its attempt lists.
LEMMA ProceedSerial ==
  ASSUME ReleaseInv, SerialInv, UNCHANGED <<networked, release>>,
         NEW w \in Workers, request[w] # NoRequest,
         NEW step, NEW todo, Proceed(w, step, todo),
         ~networked /\ request[w].op = "create" /\ todo # {} =>
           /\ Exists(request[w].bundle)
           /\ todo \subseteq BlobsOf[release[request[w].bundle].manifest]
  PROVE  SerialInv'
<1>1. request' = [request EXCEPT ![w].step = step, ![w].todo = todo] /\ (~networked => loop' = w)
  BY DEF Proceed
<1>2. request'[w] = Advanced(request[w], step, todo)
        /\ \A v \in Workers \ {w} : request'[v] = request[v]
  BY <1>1 DEF ReleaseInv, Typed, RequestsIndexed, Advanced
<1>3. /\ Advanced(request[w], step, todo).op = request[w].op
      /\ Advanced(request[w], step, todo).seen = request[w].seen
      /\ Advanced(request[w], step, todo).bundle = request[w].bundle
      /\ Advanced(request[w], step, todo).arg = request[w].arg
      /\ Advanced(request[w], step, todo).todo = todo
  <2>1. IsRequest(request[w])
    BY DEF ReleaseInv, Typed, TypeOK
  <2> QED
    BY <2>1 DEF IsRequest, Asked, Advanced
<1>4. AsksOfWhatItSaw'
  BY <1>2, <1>3 DEF SerialInv, AsksOfWhatItSaw
<1>5. /\ request'[w].op = request[w].op /\ request'[w].bundle = request[w].bundle
      /\ request'[w].todo = todo
  BY <1>2, <1>3
<1>6. ~networked => DiscardsItsOwn'
  <2> SUFFICES ASSUME ~networked, NEW v \in Workers, request'[v] # NoRequest, loop' = v,
                      request'[v].op = "create", request'[v].todo # {}
               PROVE  /\ release[request'[v].bundle] # NoRelease
                      /\ request'[v].todo \subseteq BlobsOf[release[request'[v].bundle].manifest]
    BY DEF DiscardsItsOwn, Exists
  <2> QED
    BY <1>1, <1>5 DEF Exists
<1> QED
  BY <1>4, <1>6 DEF SerialInv

\* A request that ends, or lets go of the loop, leaves nothing to delete.
LEMMA FreeSerial ==
  ASSUME SerialInv, UNCHANGED networked, loop' = Free,
         \A v \in Workers : request'[v] # NoRequest =>
           /\ request[v] # NoRequest /\ request'[v].op = request[v].op /\ request'[v].seen = request[v].seen
           /\ request'[v].bundle = request[v].bundle /\ request'[v].arg = request[v].arg
  PROVE  SerialInv'
BY SentinelAssumption DEF SerialInv, AsksOfWhatItSaw, DiscardsItsOwn

LEMMA FinishSerial ==
  ASSUME ReleaseInv, SerialInv, UNCHANGED networked, NEW w \in Workers, Finish(w)
  PROVE  SerialInv'
BY FreeSerial DEF Finish, ReleaseInv, Typed, RequestsIndexed

\* Publishing keeps the invariant.
LEMMA PublishingSerial ==
  ASSUME ReleaseInv, SerialInv, UNCHANGED networked, NEW w \in Workers, Publishing(w)
  PROVE  SerialInv'
<1>1. ASSUME NEW m \in Manifests, Create(w, m) PROVE SerialInv'
  BY <1>1, StartSerial DEF Create
<1>2. CASE Discard(w)
  <2>1. request[w] # NoRequest /\ Exists(request[w].bundle)
    BY <1>2 DEF Discard, At, ReleaseInv, Typed, DiscardsARelease
  <2> QED
    BY <1>2, <2>1, ProceedSerial DEF Discard
<1>3. CASE ListReleases(w)
  <2>1. request[w] # NoRequest /\ request[w].op = "create" /\ (~networked => loop = w)
    BY <1>3, Holder DEF ListReleases, At, ReleaseInv
  <2> QED
    BY <1>3, <2>1, ProceedSerial DEF ListReleases, SerialInv, DiscardsItsOwn
<1>4. CASE DeleteBlob(w)
  <2>1. request[w] # NoRequest /\ request[w].op = "create" /\ (~networked => loop = w)
    BY <1>4, Holder DEF DeleteBlob, At, ReleaseInv
  <2>2. PICK x \in request[w].todo : Proceed(w, "put", request[w].todo \ {x}) /\ UNCHANGED release
    BY <1>4 DEF DeleteBlob
  <2> QED
    BY <2>1, <2>2, ProceedSerial DEF SerialInv, DiscardsItsOwn
<1>5. CASE CreatePut(w) \/ Upload(w) \/ FinalizePut(w)
  BY <1>5, FinishSerial DEF CreatePut, Upload, FinalizePut, Put
<1>6. ASSUME NEW b \in Bundles, NEW x \in Blobs, Stage(w, b, x) PROVE SerialInv'
  BY <1>6, StartSerial DEF Stage
<1>7. CASE StatBlob(w)
  <2>1. CASE Finish(w)
    BY <2>1, FinishSerial
  <2>2. CASE request' = [request EXCEPT ![w].step = "upload"] /\ loop' = Free
    <3>1. IsRequest(request[w])
      BY <1>7 DEF StatBlob, At, ReleaseInv, Typed, TypeOK
    <3>2. LET up == [request[w] EXCEPT !.step = "upload"]
          IN  /\ up.op = request[w].op /\ up.seen = request[w].seen
              /\ up.bundle = request[w].bundle /\ up.arg = request[w].arg
      BY <3>1 DEF IsRequest, Asked
    <3>3. request[w] # NoRequest
      BY <1>7 DEF StatBlob, At
    <3> QED
      BY <2>2, <3>2, <3>3, FreeSerial DEF ReleaseInv, Typed, RequestsIndexed
  <2> QED
    BY <1>7, <2>1, <2>2 DEF StatBlob
<1>8. ASSUME NEW b \in Bundles, Finalize(w, b) PROVE SerialInv'
  BY <1>8, StartSerial DEF Finalize
<1>9. CASE FindBlob(w)
  <2>1. request[w] # NoRequest /\ request[w].op = "finalize" /\ UNCHANGED release
    BY <1>9 DEF FindBlob, At
  <2>2. Finish(w) \/ \E x \in request[w].todo : Proceed(w, "put", request[w].todo \ {x})
    BY <1>9 DEF FindBlob
  <2> QED
    BY <2>1, <2>2, FinishSerial, ProceedSerial
<1> QED
  BY <1>1, <1>2, <1>3, <1>4, <1>5, <1>6, <1>7, <1>8, <1>9 DEF Publishing

\* Every step keeps it.
LEMMA SerialInvStep == ReleaseInv /\ SerialInv /\ [Next]_vars => SerialInv'
<1> SUFFICES ASSUME ReleaseInv, SerialInv, [Next]_vars PROVE SerialInv'
  OBVIOUS
<1>1. CASE UNCHANGED vars
  BY <1>1 DEF vars, SerialInv, AsksOfWhatItSaw, DiscardsItsOwn, Exists
<1>2. CASE Restart /\ UNCHANGED networked
  BY <1>2, FreeSerial DEF Restart
<1>3. ASSUME NEW w \in Workers, Publishing(w), UNCHANGED networked PROVE SerialInv'
  BY <1>3, PublishingSerial
<1>4. ASSUME NEW w \in Workers, Operating(w), UNCHANGED networked PROVE SerialInv'
  BY <1>4, StartSerial, FinishSerial
     DEF Operating, SetRollout, SetPaused, Rollback, RolloutPut, PausePut, RollbackPut, Put
<1>5. ASSUME NEW w \in Workers, Reporting(w), UNCHANGED networked PROVE SerialInv'
  <2>1. CASE \E b \in Bundles, report \in Report : Confirm(w, b, report)
    BY <1>5, <2>1, StartSerial DEF Confirm
  <2>2. CASE Dedupe(w)
    <3>1. request[w] # NoRequest /\ request[w].op = "confirm" /\ UNCHANGED release
      BY <2>2 DEF Dedupe, At
    <3>2. Finish(w) \/ Proceed(w, "put", {})
      BY <2>2 DEF Dedupe
    <3> QED
      BY <1>5, <3>1, <3>2, FinishSerial, ProceedSerial
  <2>3. CASE ConfirmPut(w)
    BY <1>5, <2>3, FinishSerial DEF ConfirmPut, Put
  <2> QED
    BY <1>5, <2>1, <2>2, <2>3 DEF Reporting
<1>6. ASSUME NEW w \in Workers, InstanceDies(w), UNCHANGED networked PROVE SerialInv'
  BY <1>6, FinishSerial DEF InstanceDies
<1> QED
  BY <1>1, <1>2, <1>3, <1>4, <1>5, <1>6 DEF Next

\* A change of one release, of one process: the record that was read is the record there is.
LEMMA PutIsSerial ==
  ASSUME ReleaseInv, ~networked, UNCHANGED <<networked, blobs>>,
         NEW w \in Workers, NEW op, At(w, op, "put"), NEW record, Put(w, record)
  PROVE  /\ request[w].bundle \in Bundles /\ request[w].seen = release[request[w].bundle]
         /\ Serial!Becomes(request[w].bundle, record)
BY PutOf DEF Put, Serial!Becomes

\* createRelease: a first attempt, or the next one.
LEMMA CreatePutIsSerial ==
  ASSUME ReleaseInv, SerialInv, ~networked, UNCHANGED networked, NEW w \in Workers, CreatePut(w)
  PROVE  Serial!Next
<1> DEFINE b == request[w].bundle
           m == request[w].arg
<1>1. At(w, "create", "put") /\ UNCHANGED blobs
  BY DEF CreatePut
<1>2. /\ request[w] # NoRequest /\ request[w].op = "create" /\ loop = w
      /\ request[w].seen = release[b]
  BY <1>1, Holder DEF ReleaseInv, At
<1>3. PICK rollout \in Rollouts :
        Put(w, IF release[b] = NoRelease
                 THEN NewRecord(m, rollout)
                 ELSE [release[b] EXCEPT !.manifest = m, !.rollout = rollout, !.finalized = FALSE])
  BY <1>2 DEF CreatePut
<1>4. m \in Manifests /\ b \in Bundles /\ b = BundleId[m]
  BY <1>2, RequestOf DEF ReleaseInv, SerialInv, AsksOfWhatItSaw
<1>5. Exists(b) => ~release[b].finalized
  BY <1>2 DEF ReleaseInv, SoloInv, ReplacesAnAttempt
<1>6. CASE release[b] = NoRelease
  <2>1. Serial!Becomes(b, NewRecord(m, rollout))
    BY <1>1, <1>3, <1>6, PutIsSerial
  <2>2. Serial!Declare(m, rollout)
    BY <1>4, <1>6, <2>1 DEF Serial!Declare, Serial!Exists, NewRecord
  <2> QED
    BY <1>4, <2>2 DEF Serial!Next
<1>7. CASE release[b] # NoRelease
  <2>1. Serial!Becomes(b, [release[b] EXCEPT !.manifest = m, !.rollout = rollout, !.finalized = FALSE])
    BY <1>1, <1>3, <1>7, PutIsSerial
  <2>2. /\ release[b] \in ReleaseRecord /\ release[b].finalized = FALSE
    BY <1>4, <1>5, <1>7 DEF ReleaseInv, Typed, TypeOK, Exists, ReleaseRecord
  <2>3. [release[b] EXCEPT !.manifest = m, !.rollout = rollout, !.finalized = FALSE]
          = [release[b] EXCEPT !.manifest = m, !.rollout = rollout]
    BY <2>2 DEF ReleaseRecord
  <2>4. Serial!Redeclare(m, rollout)
    BY <1>4, <1>7, <2>1, <2>2, <2>3 DEF Serial!Redeclare, Serial!Attempt, Serial!Exists
  <2> QED
    BY <1>4, <2>4 DEF Serial!Next
<1> QED
  BY <1>6, <1>7

\* finalizeRelease: what is published has all its blobs.
LEMMA FinalizePutIsSerial ==
  ASSUME ReleaseInv, SerialInv, ~networked, UNCHANGED networked, NEW w \in Workers, FinalizePut(w)
  PROVE  Serial!Next
<1> DEFINE b == request[w].bundle
<1>1. /\ At(w, "finalize", "put") /\ UNCHANGED blobs /\ request[w].todo = {}
      /\ Put(w, [request[w].seen EXCEPT !.finalized = TRUE])
  BY DEF FinalizePut
<1>2. request[w] # NoRequest /\ request[w].op = "finalize" /\ loop = w
  BY <1>1, Holder DEF ReleaseInv, At
<1>3. b \in Bundles /\ request[w].seen = release[b]
        /\ Serial!Becomes(b, [release[b] EXCEPT !.finalized = TRUE])
  BY <1>1, PutIsSerial
<1>4. release[b] # NoRelease
  BY <1>2, <1>3 DEF ReleaseInv, Typed, TypeOK
<1>5. ~release[b].finalized
  BY <1>2, <1>3 DEF SerialInv, AsksOfWhatItSaw
<1>6. BlobsOf[release[b].manifest] \subseteq blobs
  BY <1>1, <1>2, <1>3 DEF ReleaseInv, SoloInv, FoundWhatItPassed
<1>7. Serial!Publish(b)
  BY <1>3, <1>4, <1>5, <1>6 DEF Serial!Publish, Serial!Attempt, Serial!Exists
<1> QED
  BY <1>3, <1>7 DEF Serial!Next

\* setRollout, setPaused, rollback.
LEMMA OperatingIsSerial ==
  ASSUME ReleaseInv, ~networked, UNCHANGED networked, NEW w \in Workers,
         RolloutPut(w) \/ PausePut(w) \/ RollbackPut(w)
  PROVE  Serial!Next
<1> DEFINE b == request[w].bundle
<1>1. PICK op : At(w, op, "put") /\ op \in {"rollout", "pause", "rollback"}
  BY DEF RolloutPut, PausePut, RollbackPut
<1>2. request[w] # NoRequest /\ request[w].op = op
  BY <1>1 DEF At
<1>3. b \in Bundles /\ request[w].seen = release[b] /\ release[b] # NoRelease
  BY <1>1, <1>2, RequestOf, Holder DEF ReleaseInv, Typed, TypeOK
<1>4. Serial!Exists(b)
  BY <1>3 DEF Serial!Exists
<1>5. CASE RolloutPut(w)
  <2>1. op = "rollout" /\ request[w].arg \in Rollouts
    BY <1>2, <1>5, RequestOf DEF RolloutPut, At, ReleaseInv
  <2>2. Serial!Becomes(b, [release[b] EXCEPT !.rollout = request[w].arg])
    BY <1>1, <1>3, <1>5, PutIsSerial DEF RolloutPut
  <2>3. Serial!SetRollout(b, request[w].arg)
    BY <1>4, <2>2 DEF Serial!SetRollout
  <2> QED
    BY <1>3, <2>1, <2>3 DEF Serial!Next
<1>6. CASE PausePut(w)
  <2>1. op = "pause" /\ request[w].arg \in BOOLEAN
    BY <1>2, <1>6, RequestOf DEF PausePut, At, ReleaseInv
  <2>2. Serial!Becomes(b, [release[b] EXCEPT !.paused = request[w].arg])
    BY <1>1, <1>3, <1>6, PutIsSerial DEF PausePut
  <2>3. Serial!SetPaused(b, request[w].arg)
    BY <1>4, <2>2 DEF Serial!SetPaused
  <2> QED
    BY <1>3, <2>1, <2>3 DEF Serial!Next
<1>7. CASE RollbackPut(w)
  <2>1. Serial!Becomes(b, [release[b] EXCEPT !.rolledBack = TRUE, !.paused = TRUE])
    BY <1>1, <1>3, <1>7, PutIsSerial DEF RollbackPut
  <2>2. Serial!Withdraw(b)
    BY <1>4, <2>1 DEF Serial!Withdraw
  <2> QED
    BY <1>3, <2>2 DEF Serial!Next
<1> QED
  BY <1>5, <1>6, <1>7

\* recordConfirm.
LEMMA ConfirmPutIsSerial ==
  ASSUME ReleaseInv, SerialInv, ~networked, UNCHANGED networked, NEW w \in Workers, ConfirmPut(w)
  PROVE  Serial!Next
<1> DEFINE b == request[w].bundle
           good == request[w].arg.good
           r == Counted(release[b], good)
           g == release[b].good + (IF good THEN 1 ELSE 0)
           f == release[b].bad + (IF good THEN 0 ELSE 1)
           record == [release[b] EXCEPT
                        !.good = g, !.bad = f,
                        !.paused = @ \/ (g + f >= MinSamples /\ f * 100 >= FailureRate * (g + f))]
<1>1. At(w, "confirm", "put") /\ UNCHANGED blobs
        /\ Put(w, LET c == Counted(request[w].seen, good) IN [c EXCEPT !.paused = @ \/ AutoPauses(c)])
  BY DEF ConfirmPut
<1>2. request[w] # NoRequest /\ request[w].op = "confirm" /\ loop = w
  BY <1>1, Holder DEF ReleaseInv, At
<1>3. b \in Bundles /\ request[w].seen = release[b]
        /\ Serial!Becomes(b, [r EXCEPT !.paused = @ \/ AutoPauses(r)])
  BY <1>1, PutIsSerial
<1>4. release[b] \in ReleaseRecord /\ release[b] # NoRelease /\ good \in BOOLEAN
  BY <1>2, <1>3, RequestOf, SentinelAssumption DEF ReleaseInv, Report
<1>5. release[b].finalized
  BY <1>2, <1>3 DEF SerialInv, AsksOfWhatItSaw
<1>6. [r EXCEPT !.paused = @ \/ AutoPauses(r)] = record
  <2>1. release[b].good \in Nat /\ release[b].bad \in Nat
    BY <1>4, CountAssumption DEF ReleaseRecord
  <2>2. r = [release[b] EXCEPT !.good = g, !.bad = f]
    <3>1. CASE good
      <4>1. g = release[b].good + 1 /\ f = release[b].bad
        BY <2>1, <3>1
      <4> HIDE DEF g, f
      <4>2. [release[b] EXCEPT !.good = release[b].good + 1]
              = [release[b] EXCEPT !.good = g, !.bad = f]
        BY <1>4, <4>1 DEF ReleaseRecord
      <4> QED
        BY <3>1, <4>2 DEF Counted
    <3>2. CASE ~good
      <4>1. f = release[b].bad + 1 /\ g = release[b].good
        BY <2>1, <3>2
      <4> HIDE DEF g, f
      <4>2. [release[b] EXCEPT !.bad = release[b].bad + 1]
              = [release[b] EXCEPT !.good = g, !.bad = f]
        BY <1>4, <4>1 DEF ReleaseRecord
      <4> QED
        BY <3>2, <4>2 DEF Counted
    <3> QED
      BY <3>1, <3>2
  <2>3. r.good = g /\ r.bad = f /\ r.paused = release[b].paused
    BY <1>4, <2>2 DEF ReleaseRecord
  <2>4. AutoPauses(r) <=> (g + f >= MinSamples /\ f * 100 >= FailureRate * (g + f))
    BY <2>3 DEF AutoPauses, Total
  <2> HIDE DEF g, f, r
  <2> QED
    BY <1>4, <2>2, <2>3, <2>4 DEF ReleaseRecord
<1>7. Serial!Count(b, good)
  BY <1>3, <1>4, <1>5, <1>6 DEF Serial!Count, Serial!Published, Serial!Exists
<1> QED
  BY <1>3, <1>4, <1>7 DEF Serial!Next

\* Uploads and discards: the one adds, the other takes what nobody else lists.
LEMMA BlobsAreSerial ==
  ASSUME ReleaseInv, SerialInv, ~networked, UNCHANGED networked, NEW w \in Workers,
         Upload(w) \/ DeleteBlob(w)
  PROVE  [Serial!Next]_(Serial!storeVars)
<1>1. CASE Upload(w)
  <2>1. request[w].arg \in Blobs /\ UNCHANGED release
    BY <1>1, RequestOf DEF Upload, At, ReleaseInv
  <2>2. CASE UNCHANGED blobs
    BY <2>1, <2>2 DEF Serial!storeVars
  <2>3. CASE blobs' = blobs \cup {request[w].arg}
    <3>1. Serial!Arrive(request[w].arg)
      BY <2>1, <2>3 DEF Serial!Arrive
    <3> QED
      BY <2>1, <3>1 DEF Serial!Next
  <2> QED
    BY <1>1, <2>2, <2>3 DEF Upload
<1>2. CASE DeleteBlob(w)
  <2> DEFINE b == request[w].bundle
  <2>1. PICK x \in request[w].todo : blobs' = blobs \ {x} /\ UNCHANGED release
    BY <1>2 DEF DeleteBlob
  <2>2. request[w] # NoRequest /\ request[w].op = "create" /\ request[w].step = "put" /\ loop = w
    BY <1>2, Holder DEF DeleteBlob, At, ReleaseInv
  <2>3. b \in Bundles /\ x \in Blobs
    BY <2>1, <2>2, RequestOf DEF ReleaseInv
  <2>4. Exists(b) /\ x \in BlobsOf[release[b].manifest]
    BY <2>1, <2>2 DEF SerialInv, DiscardsItsOwn
  <2>5. ~release[b].finalized /\ x \notin ReferencedElsewhere(b)
    BY <2>1, <2>2, <2>4 DEF ReleaseInv, SoloInv, ReplacesAnAttempt
  <2>6. \A c \in Bundles : Exists(c) /\ x \in BlobsOf[release[c].manifest] => c = b
    BY <2>5 DEF ReferencedElsewhere
  <2>7. Serial!Discard(x)
    BY <2>1, <2>3, <2>4, <2>5, <2>6
       DEF Serial!Discard, Serial!Attempt, Serial!Lists, Serial!Exists, Exists
  <2> QED
    BY <2>3, <2>7 DEF Serial!Next
<1> QED
  BY <1>1, <1>2

\* A step that changes neither records nor blobs shows nothing.
LEMMA NothingShows ==
  ASSUME UNCHANGED <<release, blobs, networked>>
  PROVE  [Serial!Next]_(Serial!storeVars)
BY DEF Serial!storeVars

\* Every step is one of the serial store, or none.
LEMMA StepIsSerial == ReleaseInv /\ SerialInv /\ [Next]_vars => [Serial!Next]_(Serial!storeVars)
<1> SUFFICES ASSUME ReleaseInv, SerialInv, [Next]_vars PROVE [Serial!Next]_(Serial!storeVars)
  OBVIOUS
<1>1. CASE UNCHANGED vars
  BY <1>1, NothingShows DEF vars
<1>2. CASE networked /\ UNCHANGED networked
  BY <1>2 DEF Serial!storeVars
<1>3. CASE Restart /\ UNCHANGED networked
  BY <1>3, NothingShows DEF Restart
<1>4. ASSUME NEW w \in Workers, ~networked, UNCHANGED networked,
             Publishing(w) \/ Operating(w) \/ Reporting(w) \/ InstanceDies(w)
      PROVE  [Serial!Next]_(Serial!storeVars)
  <2>1. CASE CreatePut(w) \/ FinalizePut(w) \/ RolloutPut(w) \/ PausePut(w) \/ RollbackPut(w) \/ ConfirmPut(w)
    BY <1>4, <2>1, CreatePutIsSerial, FinalizePutIsSerial, OperatingIsSerial, ConfirmPutIsSerial
  <2>2. CASE Upload(w) \/ DeleteBlob(w)
    BY <1>4, <2>2, BlobsAreSerial
  <2>3. CASE Publishing(w) /\ ~(CreatePut(w) \/ FinalizePut(w) \/ Upload(w) \/ DeleteBlob(w))
    <3>1. UNCHANGED <<release, blobs>>
      BY <2>3 DEF Publishing, Create, Discard, ListReleases, Stage, StatBlob, Finalize, FindBlob, Start
    <3> QED
      BY <1>4, <3>1, NothingShows
  <2>4. CASE Operating(w) /\ ~(RolloutPut(w) \/ PausePut(w) \/ RollbackPut(w))
    <3>1. UNCHANGED <<release, blobs>>
      BY <2>4 DEF Operating, SetRollout, SetPaused, Rollback, Start
    <3> QED
      BY <1>4, <3>1, NothingShows
  <2>5. CASE Reporting(w) /\ ~ConfirmPut(w)
    <3>1. UNCHANGED <<release, blobs>>
      BY <2>5 DEF Reporting, Confirm, Dedupe, Start
    <3> QED
      BY <1>4, <3>1, NothingShows
  <2>6. CASE InstanceDies(w)
    BY <1>4, <2>6 DEF InstanceDies
  <2> QED
    BY <1>4, <2>1, <2>2, <2>3, <2>4, <2>5, <2>6
<1> QED
  BY <1>1, <1>2, <1>3, <1>4 DEF Next

LEMMA SerialInit == Init => SerialInv /\ Serial!Init
BY DEF Init, SerialInv, AsksOfWhatItSaw, DiscardsItsOwn, Serial!Init

\* One process implements the serial store: whatever requests read, await and put back, every change
\* of a release is made of the release as it is, and blobs go only with the attempt that listed them.
THEOREM StoreIsSerial == Spec => OneProcessIsSerial
BY SerialInit, SerialInvStep, StepIsSerial, ReleaseInvariant, PTL DEF Spec, OneProcessIsSerial, Serial!Spec

-----------------------------------------------------------------------------
(* Reports *)

-----------------------------------------------------------------------------
(* The invariant *)

\* A request that is about to count the failure of install i on release b.
Counts(w, i, b) ==
  /\ request[w] # NoRequest
  /\ request[w].op = "confirm" /\ request[w].step = "put" /\ request[w].bundle = b
  /\ ~request[w].arg.good /\ request[w].arg.install = i

Landed(b) == {i \in Installs : <<i, b>> \in failed /\ \A w \in Workers : ~Counts(w, i, b)}

LandedCount(b) == Cardinality(Landed(b))

BadOf(r) == IF r = NoRelease THEN 0 ELSE r.bad

\* The cache lets each failure through once, and it is on record that it was reported.
CountedOnce ==
  /\ deduped = failed
  /\ \A w \in Workers, i \in Installs, b \in Bundles : Counts(w, i, b) => <<i, b>> \in failed
  /\ \A v, w \in Workers, i \in Installs, b \in Bundles :
       Counts(v, i, b) /\ Counts(w, i, b) => v = w

\* Neither the record nor what a request has read of it counts more than what has landed.
CountsLanded ==
  \A b \in Bundles :
    /\ BadOf(release[b]) <= LandedCount(b)
    /\ \A w \in Workers : request[w] # NoRequest /\ request[w].bundle = b =>
         BadOf(request[w].seen) <= LandedCount(b)

ReportsInv == networked => CountedOnce /\ CountsLanded

-----------------------------------------------------------------------------
(* Steps that count nothing *)

\* What has landed is a finite set, and a part of what was reported.
LEMMA LandedFinite ==
  ASSUME NEW b
  PROVE  IsFiniteSet(Landed(b)) /\ LandedCount(b) \in Nat
<1>1. Landed(b) \in SUBSET Installs
  BY DEF Landed
<1> QED
  BY <1>1, FleetAssumption, FS_Subset, FS_CardinalityType DEF LandedCount

\* Records and what was read of them count in natural numbers.
LEMMA BadIsNat ==
  ASSUME Typed
  PROVE  /\ \A b \in Bundles : BadOf(release[b]) \in Nat
         /\ \A w \in Workers : request[w] # NoRequest =>
              BadOf(request[w].seen) \in Nat /\ request[w].bundle \in Bundles
<1>1. \A r \in ReleaseRecord : r.bad \in Nat
  BY CountAssumption DEF ReleaseRecord
<1>2. \A r \in ReleaseRecord \cup {NoRelease} : BadOf(r) \in Nat
  BY <1>1 DEF BadOf
<1>3. \A w \in Workers : request[w] # NoRequest =>
        request[w].seen \in ReleaseRecord \cup {NoRelease} /\ request[w].bundle \in Bundles
  BY RequestOf
<1> QED
  BY <1>2, <1>3 DEF Typed, TypeOK

\* Every count that is read, stored or put is one that was there before, and nobody starts to count.
QuietRequests ==
  \A w \in Workers : request'[w] # NoRequest =>
    \/ /\ request[w] # NoRequest
       /\ request'[w].bundle = request[w].bundle /\ request'[w].seen = request[w].seen
    \/ request'[w].bundle \in Bundles /\ request'[w].seen = release[request'[w].bundle]

QuietRecords ==
  \A b \in Bundles :
    \/ BadOf(release'[b]) = BadOf(release[b]) \/ BadOf(release'[b]) = 0
    \/ \E w \in Workers : /\ request[w] # NoRequest /\ request[w].bundle = b
                          /\ BadOf(release'[b]) = BadOf(request[w].seen)

NobodyNew ==
  \A w \in Workers, i \in Installs, b \in Bundles : Counts(w, i, b)' => Counts(w, i, b)

\* Where what has landed stays, every count that was there before is still within it.
LEMMA LandedStays ==
  ASSUME Typed, CountsLanded, QuietRequests, QuietRecords,
         \A b \in Bundles : Landed(b) \in SUBSET Landed(b)'
  PROVE  CountsLanded'
<1>1. ASSUME NEW b \in Bundles
      PROVE  LandedCount(b) \in Nat /\ LandedCount(b)' \in Nat /\ LandedCount(b) <= LandedCount(b)'
  <2>1. Landed(b)' \in SUBSET Installs
    BY DEF Landed
  <2>2. IsFiniteSet(Landed(b)')
    BY <2>1, FleetAssumption, FS_Subset
  <2>3. Landed(b) \in SUBSET Landed(b)'
    OBVIOUS
  <2>4. LandedCount(b) <= LandedCount(b)'
    BY <2>2, <2>3, FS_Subset DEF LandedCount
  <2>5. LandedCount(b) \in Nat /\ LandedCount(b)' \in Nat
    BY <2>2, LandedFinite, FS_CardinalityType DEF LandedCount
  <2> QED
    BY <2>4, <2>5
<1>2. ASSUME NEW b \in Bundles
      PROVE  BadOf(release'[b]) <= LandedCount(b)'
  <2>1. \/ BadOf(release'[b]) = BadOf(release[b]) \/ BadOf(release'[b]) = 0
        \/ \E w \in Workers : /\ request[w] # NoRequest /\ request[w].bundle = b
                              /\ BadOf(release'[b]) = BadOf(request[w].seen)
    BY DEF QuietRecords
  <2>2. /\ BadOf(release[b]) <= LandedCount(b)
        /\ \A w \in Workers : request[w] # NoRequest /\ request[w].bundle = b =>
             BadOf(request[w].seen) <= LandedCount(b)
    BY DEF CountsLanded
  <2> QED
    BY <1>1, <2>1, <2>2, BadIsNat
<1>3. ASSUME NEW b \in Bundles, NEW w \in Workers, request'[w] # NoRequest, request'[w].bundle = b
      PROVE  BadOf(request'[w].seen) <= LandedCount(b)'
  <2>1. /\ BadOf(release[b]) <= LandedCount(b)
        /\ request[w] # NoRequest /\ request[w].bundle = b =>
             BadOf(request[w].seen) <= LandedCount(b)
    BY DEF CountsLanded
  <2>2. BadOf(request'[w].seen) \in Nat /\ BadOf(request'[w].seen) <= LandedCount(b)
    BY <1>3, <2>1, BadIsNat DEF QuietRequests
  <2> QED
    BY <1>1, <2>2
<1> QED
  BY <1>2, <1>3 DEF CountsLanded, BadOf

\* A step that is quiet in this sense keeps the invariant.
LEMMA QuietStep ==
  ASSUME Typed, ReportsInv, UNCHANGED <<networked, deduped, failed>>,
         QuietRequests, QuietRecords, NobodyNew
  PROVE  ReportsInv'
<1> SUFFICES ASSUME networked PROVE CountedOnce' /\ CountsLanded'
  BY DEF ReportsInv
<1>1. CountedOnce'
  BY DEF ReportsInv, CountedOnce, NobodyNew
<1>2. \A b \in Bundles : Landed(b) \in SUBSET Landed(b)'
  BY DEF Landed, NobodyNew
<1>3. CountsLanded'
  BY <1>2, LandedStays DEF ReportsInv
<1> QED
  BY <1>1, <1>3

\* A request that starts, unless it is about to count a failure.
LEMMA QuietStart ==
  ASSUME Typed, ReportsInv, UNCHANGED networked, NEW w \in Workers, NEW op, NEW b \in Bundles,
         NEW arg, NEW step, NEW todo, Start(w, op, b, arg, step, todo),
         op # "confirm" \/ step # "put" \/ arg.good
  PROVE  ReportsInv'
<1> DEFINE new == [op |-> op, bundle |-> b, arg |-> arg, step |-> step, todo |-> todo,
                   seen |-> release[b]]
<1>1. /\ request'[w] = new /\ \A v \in Workers \ {w} : request'[v] = request[v]
      /\ UNCHANGED <<release, deduped, failed>>
  BY DEF Start, Typed, RequestsIndexed
<1>2. new.op = op /\ new.bundle = b /\ new.seen = release[b] /\ new.step = step /\ new.arg = arg
  OBVIOUS
<1> HIDE DEF new
<1>3. QuietRequests /\ QuietRecords /\ NobodyNew
  BY <1>1, <1>2 DEF QuietRequests, QuietRecords, NobodyNew, Counts
<1> QED
  BY <1>1, <1>3, QuietStep

\* A request that goes on without being a report.
LEMMA QuietProceed ==
  ASSUME Typed, ReportsInv, UNCHANGED <<networked, release, deduped, failed>>, NEW w \in Workers,
         request[w] # NoRequest, request[w].op # "confirm", NEW next, request' = [request EXCEPT ![w] = next],
         next.op = request[w].op, next.bundle = request[w].bundle, next.seen = request[w].seen
  PROVE  ReportsInv'
<1>1. request'[w] = next /\ \A v \in Workers \ {w} : request'[v] = request[v]
  BY DEF Typed, RequestsIndexed
<1>2. QuietRequests /\ QuietRecords /\ NobodyNew
  BY <1>1 DEF QuietRequests, QuietRecords, NobodyNew, Counts
<1> QED
  BY <1>2, QuietStep

\* A request that ends and puts nothing.
LEMMA QuietFinish ==
  ASSUME Typed, ReportsInv, UNCHANGED <<networked, release, deduped, failed>>, NEW w \in Workers, Finish(w)
  PROVE  ReportsInv'
<1>1. request'[w] = NoRequest /\ \A v \in Workers \ {w} : request'[v] = request[v]
  BY DEF Finish, Typed, RequestsIndexed
<1>2. QuietRequests /\ QuietRecords /\ NobodyNew
  BY <1>1 DEF QuietRequests, QuietRecords, NobodyNew, Counts
<1> QED
  BY <1>2, QuietStep

\* A request that puts back as many failures as it read, or starts from none.
LEMMA QuietPut ==
  ASSUME Typed, ReportsInv, UNCHANGED <<networked, deduped, failed>>, NEW w \in Workers,
         request[w] # NoRequest, NEW record, Put(w, record),
         BadOf(record) = BadOf(request[w].seen) \/ BadOf(record) = 0
  PROVE  ReportsInv'
<1>1. request'[w] = NoRequest /\ \A v \in Workers \ {w} : request'[v] = request[v]
  BY DEF Put, Finish, Typed, RequestsIndexed
<1>2. \A b \in Bundles : release'[b] = IF b = request[w].bundle THEN record ELSE release[b]
  BY DEF Put, Typed, TypeOK
<1>3. QuietRequests /\ NobodyNew
  BY <1>1 DEF QuietRequests, NobodyNew, Counts
<1>4. QuietRecords
  BY <1>2 DEF QuietRecords
<1> QED
  BY <1>3, <1>4, QuietStep

-----------------------------------------------------------------------------
(* The steps *)

\* Publishing counts nothing.
LEMMA PublishingStep ==
  ASSUME Typed, ReportsInv, UNCHANGED networked, NEW w \in Workers, Publishing(w)
  PROVE  ReportsInv'
<1>1. ASSUME NEW m \in Manifests, Create(w, m) PROVE ReportsInv'
  BY <1>1, QuietStart, ManifestAssumption DEF Create
<1>2. ASSUME NEW op, NEW step, NEW todo, op # "confirm",
             request[w] # NoRequest, request[w].op = op, Proceed(w, step, todo),
             UNCHANGED <<release, deduped, failed>>
      PROVE  ReportsInv'
  <2> DEFINE next == [request[w] EXCEPT !.step = step, !.todo = todo]
  <2>1. request' = [request EXCEPT ![w] = next]
    BY <1>2 DEF Proceed, Typed, RequestsIndexed
  <2>2. next.op = request[w].op /\ next.bundle = request[w].bundle /\ next.seen = request[w].seen
    BY <1>2, ProceedType DEF Typed, TypeOK, IsRequest, Asked
  <2> HIDE DEF next
  <2> QED
    BY <1>2, <2>1, <2>2, QuietProceed
<1>3. CASE Discard(w)
  BY <1>2, <1>3 DEF Discard, At
<1>4. CASE ListReleases(w)
  BY <1>2, <1>4 DEF ListReleases, At
<1>5. CASE DeleteBlob(w)
  BY <1>2, <1>5 DEF DeleteBlob, At
<1>6. CASE CreatePut(w)
  <2>1. PICK rollout \in Rollouts :
          Put(w, IF request[w].seen = NoRelease
                   THEN NewRecord(request[w].arg, rollout)
                   ELSE [request[w].seen EXCEPT !.manifest = request[w].arg, !.rollout = rollout,
                                                !.finalized = FALSE])
    BY <1>6 DEF CreatePut
  <2>2. /\ request[w] # NoRequest /\ request[w].seen \in ReleaseRecord \cup {NoRelease}
        /\ UNCHANGED <<deduped, failed>>
    BY <1>6, RequestOf DEF CreatePut, At
  <2>3. CASE request[w].seen = NoRelease
    <3>1. Put(w, NewRecord(request[w].arg, rollout)) /\ BadOf(NewRecord(request[w].arg, rollout)) = 0
      BY <2>1, <2>3 DEF NewRecord, BadOf
    <3> QED
      BY <2>2, <3>1, QuietPut
  <2>4. CASE request[w].seen # NoRelease
    <3> DEFINE record == [request[w].seen EXCEPT !.manifest = request[w].arg, !.rollout = rollout,
                                                 !.finalized = FALSE]
    <3>1. Put(w, record)
      BY <2>1, <2>4
    <3>2. record.bad = request[w].seen.bad /\ record # NoRelease
      <4>1. record.bad = request[w].seen.bad
        BY <2>2, <2>4 DEF ReleaseRecord
      <4>2. record \in ReleaseRecord
        <5>1. request[w].arg \in Manifests /\ rollout \in 0..100
          BY <1>6, <2>2, RequestOf, CountAssumption DEF CreatePut, At
        <5> QED
          BY <2>2, <2>4, <5>1 DEF ReleaseRecord
      <4> QED
        BY <4>1, <4>2, SentinelAssumption
    <3> HIDE DEF record
    <3> QED
      BY <2>2, <2>4, <3>1, <3>2, QuietPut DEF BadOf
  <2> QED
    BY <2>3, <2>4
<1>7. ASSUME NEW b \in Bundles, NEW x \in Blobs, Stage(w, b, x) PROVE ReportsInv'
  BY <1>7, QuietStart DEF Stage
<1>8. CASE StatBlob(w)
  <2>1. CASE Finish(w)
    BY <1>8, <2>1, QuietFinish DEF StatBlob
  <2>2. CASE request' = [request EXCEPT ![w].step = "upload"]
    <3> DEFINE next == [request[w] EXCEPT !.step = "upload"]
    <3>1. request' = [request EXCEPT ![w] = next] /\ request[w] # NoRequest /\ request[w].op = "stage"
      BY <1>8, <2>2 DEF StatBlob, At, Typed, RequestsIndexed
    <3>2. next.op = request[w].op /\ next.bundle = request[w].bundle /\ next.seen = request[w].seen
      BY <3>1 DEF Typed, TypeOK, IsRequest, Asked
    <3> HIDE DEF next
    <3> QED
      BY <1>8, <3>1, <3>2, QuietProceed DEF StatBlob
  <2> QED
    BY <1>8, <2>1, <2>2 DEF StatBlob
<1>9. CASE Upload(w)
  BY <1>9, QuietFinish DEF Upload
<1>10. ASSUME NEW b \in Bundles, Finalize(w, b) PROVE ReportsInv'
  BY <1>10, QuietStart DEF Finalize
<1>11. CASE FindBlob(w)
  BY <1>2, <1>11, QuietFinish DEF FindBlob, At
<1>12. CASE FinalizePut(w)
  <2> DEFINE record == [request[w].seen EXCEPT !.finalized = TRUE]
  <2>1. /\ Put(w, record) /\ request[w] # NoRequest /\ request[w].seen \in ReleaseRecord
        /\ UNCHANGED <<deduped, failed>>
    BY <1>12, RequestOf DEF FinalizePut, At
  <2>2. record \in ReleaseRecord /\ record.bad = request[w].seen.bad
    BY <2>1 DEF ReleaseRecord
  <2> HIDE DEF record
  <2> QED
    BY <2>1, <2>2, QuietPut, SentinelAssumption DEF BadOf
<1> QED
  BY <1>1, <1>3, <1>4, <1>5, <1>6, <1>7, <1>8, <1>9, <1>10, <1>11, <1>12 DEF Publishing

\* The operator's switches count nothing.
LEMMA OperatingStep ==
  ASSUME Typed, ReportsInv, UNCHANGED networked, NEW w \in Workers, Operating(w)
  PROVE  ReportsInv'
<1>1. ASSUME NEW record, Put(w, record), request[w] # NoRequest, record.bad = request[w].seen.bad,
             record \in ReleaseRecord, request[w].seen \in ReleaseRecord, UNCHANGED <<deduped, failed>>
      PROVE  ReportsInv'
  BY <1>1, QuietPut, SentinelAssumption DEF BadOf
<1>2. CASE RolloutPut(w)
  <2> DEFINE record == [request[w].seen EXCEPT !.rollout = request[w].arg]
  <2>1. /\ Put(w, record) /\ request[w] # NoRequest /\ request[w].seen \in ReleaseRecord
        /\ UNCHANGED <<deduped, failed>> /\ request[w].arg \in 0..100
    BY <1>2, RequestOf, CountAssumption DEF RolloutPut, At
  <2>2. record \in ReleaseRecord /\ record.bad = request[w].seen.bad
    BY <2>1 DEF ReleaseRecord
  <2> HIDE DEF record
  <2> QED
    BY <1>1, <2>1, <2>2
<1>3. CASE PausePut(w)
  <2> DEFINE record == [request[w].seen EXCEPT !.paused = request[w].arg]
  <2>1. /\ Put(w, record) /\ request[w] # NoRequest /\ request[w].seen \in ReleaseRecord
        /\ UNCHANGED <<deduped, failed>> /\ request[w].arg \in BOOLEAN
    BY <1>3, RequestOf DEF PausePut, At
  <2>2. record \in ReleaseRecord /\ record.bad = request[w].seen.bad
    BY <2>1 DEF ReleaseRecord
  <2> HIDE DEF record
  <2> QED
    BY <1>1, <2>1, <2>2
<1>4. CASE RollbackPut(w)
  <2> DEFINE record == [request[w].seen EXCEPT !.rolledBack = TRUE, !.paused = TRUE]
  <2>1. /\ Put(w, record) /\ request[w] # NoRequest /\ request[w].seen \in ReleaseRecord
        /\ UNCHANGED <<deduped, failed>>
    BY <1>4, RequestOf DEF RollbackPut, At
  <2>2. record \in ReleaseRecord /\ record.bad = request[w].seen.bad
    BY <2>1 DEF ReleaseRecord
  <2> HIDE DEF record
  <2> QED
    BY <1>1, <2>1, <2>2
<1>5. ASSUME NEW b \in Bundles, NEW arg, NEW op, op # "confirm", Start(w, op, b, arg, "put", {})
      PROVE  ReportsInv'
  BY <1>5, QuietStart
<1> QED
  BY <1>2, <1>3, <1>4, <1>5 DEF Operating, SetRollout, SetPaused, Rollback

\* The cache lets a failure through that it has not seen, and nobody else is counting it.
LEMMA LetThrough ==
  ASSUME Typed, ReportsInv, UNCHANGED <<networked, release>>, NEW w \in Workers,
         At(w, "confirm", "dedupe"), Proceed(w, "put", {}),
         <<request[w].arg.install, request[w].bundle>> \notin deduped,
         deduped' = deduped \cup {<<request[w].arg.install, request[w].bundle>>},
         failed' = failed \cup {<<request[w].arg.install, request[w].bundle>>}
  PROVE  ReportsInv'
<1> SUFFICES ASSUME networked PROVE CountedOnce' /\ CountsLanded'
  BY DEF ReportsInv
<1> DEFINE next == Advanced(request[w], "put", {})
<1>1. /\ request[w] # NoRequest /\ request[w].op = "confirm" /\ request[w].step = "dedupe"
      /\ request[w].bundle \in Bundles
  BY RequestOf DEF At
<1>2. /\ next.op = request[w].op /\ next.bundle = request[w].bundle
      /\ next.seen = request[w].seen /\ next.arg = request[w].arg
  BY <1>1, ProceedType DEF Typed, Steps
<1>3. request'[w] = next /\ \A v \in Workers \ {w} : request'[v] = request[v]
  BY DEF Proceed, Advanced, Typed, RequestsIndexed
<1> HIDE DEF next
<1>4. QuietRequests /\ QuietRecords
  BY <1>1, <1>2, <1>3 DEF QuietRequests, QuietRecords
<1>5. \A v \in Workers, i \in Installs, b \in Bundles :
        Counts(v, i, b)' =>
          Counts(v, i, b) \/ (v = w /\ i = request[w].arg.install /\ b = request[w].bundle)
  BY <1>2, <1>3 DEF Counts
<1>6. \A v \in Workers :
        ~(request[w].arg.install \in Installs
            /\ Counts(v, request[w].arg.install, request[w].bundle))
  BY <1>1 DEF ReportsInv, CountedOnce
<1>7. CountedOnce'
  BY <1>5, <1>6 DEF ReportsInv, CountedOnce
<1>8. \A b \in Bundles : Landed(b) \in SUBSET Landed(b)'
  BY <1>5 DEF Landed, ReportsInv, CountedOnce
<1>9. CountsLanded'
  BY <1>4, <1>8, LandedStays DEF ReportsInv
<1> QED
  BY <1>7, <1>9

\* A failure is counted: it lands, and with it the record may count one more.
LEMMA FailureLands ==
  ASSUME Typed, ReportsInv, UNCHANGED <<networked, deduped, failed>>, NEW w \in Workers,
         At(w, "confirm", "put"), ~request[w].arg.good, NEW record, Put(w, record),
         BadOf(record) = BadOf(request[w].seen) + 1
  PROVE  ReportsInv'
<1> SUFFICES ASSUME networked PROVE CountedOnce' /\ CountsLanded'
  BY DEF ReportsInv
<1>a. request[w].bundle \in Bundles /\ request[w].arg.install \in Installs
  BY RequestOf DEF At, Report
<1>b. PICK here \in Bundles, i \in Installs : here = request[w].bundle /\ i = request[w].arg.install
  BY <1>a
<1>1. request[w] # NoRequest /\ Counts(w, i, here)
  BY <1>b DEF At, Counts
<1>2. request'[w] = NoRequest /\ \A v \in Workers \ {w} : request'[v] = request[v]
  BY DEF Put, Finish, Typed, RequestsIndexed
<1>3. \A b \in Bundles : release'[b] = IF b = here THEN record ELSE release[b]
  BY <1>b DEF Put, Typed, TypeOK
<1>4. \A v \in Workers, k \in Installs, b \in Bundles : Counts(v, k, b)' <=> v # w /\ Counts(v, k, b)
  BY <1>2 DEF Counts
<1>5. CountedOnce'
  BY <1>4 DEF ReportsInv, CountedOnce
<1>6. \A b \in Bundles : Landed(b) \in SUBSET Landed(b)'
  BY <1>4 DEF Landed
<1>7. Landed(here) \cup {i} \in SUBSET Landed(here)' /\ i \notin Landed(here)
  BY <1>1, <1>4, <1>6 DEF Landed, ReportsInv, CountedOnce
<1>8. ASSUME NEW b \in Bundles
      PROVE  /\ LandedCount(b) \in Nat /\ LandedCount(b)' \in Nat
             /\ LandedCount(b) <= LandedCount(b)'
             /\ b = here => LandedCount(b) + 1 <= LandedCount(b)'
  <2>1. Landed(b)' \in SUBSET Installs
    BY DEF Landed
  <2>2. IsFiniteSet(Landed(b)') /\ IsFiniteSet(Landed(b))
    BY <2>1, FleetAssumption, FS_Subset, LandedFinite
  <2>3. Cardinality(Landed(b)) \in Nat /\ Cardinality(Landed(b)') \in Nat
    BY <2>2, FS_CardinalityType
  <2>4. Cardinality(Landed(b)) <= Cardinality(Landed(b)')
    BY <1>6, <2>2, FS_Subset
  <2>5. CASE b = here
    <3>1. Cardinality(Landed(b) \cup {i}) = Cardinality(Landed(b)) + 1
      BY <1>7, <2>2, <2>5, FS_AddElement
    <3>2. Cardinality(Landed(b) \cup {i}) <= Cardinality(Landed(b)')
      BY <1>7, <2>2, <2>5, FS_Subset
    <3> QED
      BY <2>3, <2>4, <3>1, <3>2 DEF LandedCount
  <2> QED
    BY <2>3, <2>4, <2>5 DEF LandedCount
<1>9. ASSUME NEW b \in Bundles
      PROVE  BadOf(release'[b]) <= LandedCount(b)'
  <2>1. /\ BadOf(release[b]) <= LandedCount(b)
        /\ b = here => BadOf(request[w].seen) <= LandedCount(b)
    BY <1>1, <1>b DEF ReportsInv, CountsLanded
  <2> QED
    BY <1>1, <1>b, <1>3, <1>8, <2>1, BadIsNat
<1>10. ASSUME NEW b \in Bundles, NEW v \in Workers, request'[v] # NoRequest, request'[v].bundle = b
       PROVE  BadOf(request'[v].seen) <= LandedCount(b)'
  <2>1. BadOf(request'[v].seen) \in Nat /\ BadOf(request'[v].seen) <= LandedCount(b)
    BY <1>2, <1>10, BadIsNat DEF ReportsInv, CountsLanded
  <2> QED
    BY <1>8, <2>1
<1>11. CountsLanded'
  BY <1>9, <1>10 DEF CountsLanded, BadOf
<1> QED
  BY <1>5, <1>11

\* Reports are let through once and counted at most once.
LEMMA ReportingStep ==
  ASSUME Typed, ReportsInv, UNCHANGED networked, NEW w \in Workers, Reporting(w)
  PROVE  ReportsInv'
<1>1. ASSUME NEW b \in Bundles, NEW report \in Report, Confirm(w, b, report) PROVE ReportsInv'
  BY <1>1, QuietStart DEF Confirm
<1>2. CASE Dedupe(w)
  <2>1. CASE <<request[w].arg.install, request[w].bundle>> \in deduped
    <3>1. CASE networked
      <4>1. UNCHANGED <<release, deduped, failed>> /\ Finish(w)
        BY <1>2, <2>1, <3>1 DEF Dedupe, ReportsInv, CountedOnce
      <4> QED
        BY <4>1, QuietFinish
    <3> QED
      BY <3>1 DEF ReportsInv
  <2>2. CASE <<request[w].arg.install, request[w].bundle>> \notin deduped
    BY <1>2, <2>2, LetThrough DEF Dedupe
  <2> QED
    BY <2>1, <2>2
<1>3. CASE ConfirmPut(w)
  <2> DEFINE r == Counted(request[w].seen, request[w].arg.good)
             record == [r EXCEPT !.paused = @ \/ AutoPauses(r)]
  <2>1. /\ At(w, "confirm", "put") /\ Put(w, record) /\ UNCHANGED <<deduped, failed>>
        /\ request[w] # NoRequest
    BY <1>3 DEF ConfirmPut, At
  <2>2. /\ request[w].seen \in ReleaseRecord /\ request[w].arg.good \in BOOLEAN
        /\ Total(request[w].seen) < MaxReports
    BY <2>1, RequestOf DEF At, Report, Typed, ReportsFit
  <2>3. r \in ReleaseRecord
    BY <2>2, RecordsType
  <2>4. r.bad = IF request[w].arg.good THEN request[w].seen.bad ELSE request[w].seen.bad + 1
    BY <2>2 DEF Counted, ReleaseRecord
  <2> HIDE DEF r
  <2>5. record.bad = r.bad /\ record \in ReleaseRecord
    <3>1. (r.paused \/ AutoPauses(r)) \in BOOLEAN
      OBVIOUS
    <3> QED
      BY <2>3, <3>1 DEF ReleaseRecord
  <2>6. /\ request[w].arg.good => BadOf(record) = BadOf(request[w].seen)
        /\ ~request[w].arg.good => BadOf(record) = BadOf(request[w].seen) + 1
    BY <2>2, <2>4, <2>5, SentinelAssumption DEF BadOf
  <2> HIDE DEF record
  <2> QED
    BY <2>1, <2>6, QuietPut, FailureLands
<1> QED
  BY <1>1, <1>2, <1>3 DEF Reporting

\* Every step of the networked deployments keeps the invariant; the others promise nothing.
LEMMA ReportsStep == ReleaseInv /\ ReportsInv /\ [Next]_vars => ReportsInv'
<1> SUFFICES ASSUME ReleaseInv, ReportsInv, [Next]_vars PROVE ReportsInv'
  OBVIOUS
<1>1. Typed
  BY DEF ReleaseInv
<1>2. CASE UNCHANGED vars
  <2>1. QuietRequests /\ QuietRecords /\ NobodyNew
    BY <1>2 DEF vars, QuietRequests, QuietRecords, NobodyNew, Counts
  <2> QED
    BY <1>1, <1>2, <2>1, QuietStep DEF vars
<1>3. CASE Restart /\ UNCHANGED networked
  BY <1>3 DEF Restart, ReportsInv
<1>4. ASSUME NEW w \in Workers, InstanceDies(w), UNCHANGED networked PROVE ReportsInv'
  BY <1>1, <1>4, QuietFinish DEF InstanceDies
<1> QED
  BY <1>1, <1>2, <1>3, <1>4, PublishingStep, OperatingStep, ReportingStep DEF Next

-----------------------------------------------------------------------------
(* Theorems *)

\* At the start nothing was reported and nothing counted.
LEMMA ReportsInit == Init => ReportsInv
<1> SUFFICES ASSUME Init PROVE CountedOnce /\ CountsLanded
  BY DEF ReportsInv
<1>1. \A b : 0 <= LandedCount(b)
  BY LandedFinite
<1> QED
  BY <1>1 DEF Init, CountedOnce, CountsLanded, Counts, BadOf

\* Each install counts at most once towards the failures of a release, however many reports it sends,
\* whichever updates are lost and whichever instances die (recordConfirm, networked providers).
THEOREM InstallsCountOnce == Spec => []EachInstallCountsOnce
<1>1. ReleaseInv /\ ReportsInv => EachInstallCountsOnce
  <2> SUFFICES ASSUME ReleaseInv, ReportsInv, NEW b \in Bundles, networked, Exists(b)
               PROVE  release[b].bad <= Cardinality({i \in Installs : <<i, b>> \in failed})
    BY DEF EachInstallCountsOnce
  <2> DEFINE reported == {i \in Installs : <<i, b>> \in failed}
  <2>1. IsFiniteSet(reported)
    BY FleetAssumption, FS_Subset
  <2>2. Landed(b) \in SUBSET reported
    BY DEF Landed
  <2>3. LandedCount(b) <= Cardinality(reported) /\ Cardinality(reported) \in Nat
    BY <2>1, <2>2, FS_Subset, FS_CardinalityType DEF LandedCount
  <2>4. release[b].bad \in Nat /\ release[b].bad <= LandedCount(b) /\ LandedCount(b) \in Nat
    BY BadIsNat, LandedFinite DEF ReportsInv, CountsLanded, BadOf, Exists, ReleaseInv
  <2> QED
    BY <2>3, <2>4
<1> QED
  BY <1>1, ReportsInit, ReportsStep, ReleaseInvariant, PTL DEF Spec
===============================================================================
