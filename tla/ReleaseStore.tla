---------------------------- MODULE ReleaseStore ----------------------------
(***************************************************************************)
(* The backend's release records and blobs, and the requests that change   *)
(* them: publishing in three steps, the operator's switches, and the       *)
(* reports of devices.                                                     *)
(*                                                                         *)
(* Every request reads a record, awaits, and puts back what it read with   *)
(* its change.  What may happen during an await depends on the providers:  *)
(* with the defaults (disk or SQLite, disk blobs, memory cache) only an    *)
(* upload lets go of the event loop; with Postgres, S3 and Redis, and any  *)
(* number of instances, every await does.                                  *)
(*                                                                         *)
(* Abstracted: a manifest is the set of blobs it lists; a blob is stored   *)
(* whole or not at all; "applied" and "healthy" reports are good, "failed" *)
(* and "rolled_back" ones bad; the cache's 30-day memory of failures does  *)
(* not expire; requests that are refused before they change anything do    *)
(* not start.                                                              *)
(***************************************************************************)
EXTENDS Integers, FiniteSets

CONSTANTS
  Bundles,       \* bundle ids
  Manifests,     \* signed manifests
  BundleId,      \* [Manifests -> Bundles]
  Blobs,         \* blob hashes
  BlobsOf,       \* [Manifests -> SUBSET Blobs]
  Rollouts,      \* rollout percentages an operator sets
  Installs,      \* enrolled installs
  MinSamples,    \* autoPauseMinSamples
  FailureRate,   \* autoPauseFailureRate, in percent
  MaxReports,    \* bound: reports counted per release
  Workers,       \* requests served at the same time
  Deployments,   \* the deployments looked at: values of networked
  NoRelease, NoRequest, Free

ASSUME ManifestAssumption ==
  BundleId \in [Manifests -> Bundles] /\ BlobsOf \in [Manifests -> SUBSET Blobs]
ASSUME CountAssumption ==
  MinSamples \in Nat /\ FailureRate \in Nat /\ MaxReports \in Nat /\ Rollouts \subseteq 0..100
ASSUME DeploymentAssumption == Deployments \subseteq BOOLEAN
ASSUME FleetAssumption == IsFiniteSet(Installs)

Report == [install : Installs, good : BOOLEAN]

ReleaseRecord ==
  [manifest : Manifests, rollout : 0..100, paused : BOOLEAN, rolledBack : BOOLEAN,
   finalized : BOOLEAN, good : 0..MaxReports, bad : 0..MaxReports]

ASSUME SentinelAssumption ==
  NoRelease \notin ReleaseRecord /\ Free \notin Workers

VARIABLES
  release,   \* [Bundles -> ReleaseRecord \cup {NoRelease}], the database
  blobs,     \* the blob store
  deduped,   \* failure reports the cache remembers: <<install, bundle>>
  request,   \* [Workers -> a request under way, or NoRequest]
  loop,      \* the request that holds the event loop, or Free
  failed,    \* history: <<install, bundle>> of the failures ever reported
  networked  \* Postgres, S3 and Redis rather than the default providers

vars == <<release, blobs, deduped, request, loop, failed, networked>>

Init ==
  /\ release = [b \in Bundles |-> NoRelease]
  /\ blobs = {}
  /\ deduped = {}
  /\ request = [w \in Workers |-> NoRequest]
  /\ loop = Free
  /\ failed = {}
  /\ networked \in Deployments

-----------------------------------------------------------------------------
(* Requests *)

At(w, op, step) ==
  /\ loop \in {w, Free}
  /\ request[w] # NoRequest
  /\ request[w].op = op
  /\ request[w].step = step

\* A request reads its release and comes back from that await at the given step.
Start(w, op, b, arg, step, todo) ==
  /\ loop = Free
  /\ request[w] = NoRequest
  /\ request' = [request EXCEPT ![w] =
       [op |-> op, bundle |-> b, arg |-> arg, step |-> step, todo |-> todo, seen |-> release[b]]]
  /\ loop' = IF networked THEN Free ELSE w
  /\ UNCHANGED <<release, blobs, deduped, failed>>

Proceed(w, step, todo) ==
  /\ request' = [request EXCEPT ![w].step = step, ![w].todo = todo]
  /\ loop' = IF networked THEN Free ELSE w

Finish(w) ==
  /\ request' = [request EXCEPT ![w] = NoRequest]
  /\ loop' = Free

\* putRelease: the whole record, as this request read it, with its change.
Put(w, record) ==
  /\ release' = [release EXCEPT ![request[w].bundle] = record]
  /\ Finish(w)

Exists(b) == release[b] # NoRelease

-----------------------------------------------------------------------------
(* createRelease *)

\* Variant with a bug: a published release is replaced as well.
CreateAnyway(w, m) ==
  LET b == BundleId[m] IN
    Start(w, "create", b, m, IF Exists(b) THEN "discard" ELSE "put", {})

\* An unfinalised attempt is discarded before it is replaced; a published one is refused.
Create(w, m) ==
  LET b == BundleId[m] IN
    \/ ~Exists(b) /\ Start(w, "create", b, m, "put", {})
    \/ Exists(b) /\ ~release[b].finalized /\ Start(w, "create", b, m, "discard", {})

\* discardRelease reads the record once more.
Discard(w) ==
  /\ At(w, "create", "discard")
  /\ Proceed(w, "list", BlobsOf[release[request[w].bundle].manifest])
  /\ UNCHANGED <<release, blobs, deduped, failed>>

\* Variant with a bug: blobs that other releases reference are not spared.
ReferencedByNone(b) == {}

\* blobsReferencedElsewhere, from the records of the moment.
ReferencedElsewhere(b) ==
  UNION {BlobsOf[release[c].manifest] : c \in {d \in Bundles : Exists(d) /\ d # b}}

ListReleases(w) ==
  /\ At(w, "create", "list")
  /\ Proceed(w, "put",
       request[w].todo \ (BlobsOf[request[w].arg] \cup ReferencedElsewhere(request[w].bundle)))
  /\ UNCHANGED <<release, blobs, deduped, failed>>

DeleteBlob(w) ==
  /\ At(w, "create", "put")
  /\ \E x \in request[w].todo :
       /\ blobs' = blobs \ {x}
       /\ Proceed(w, "put", request[w].todo \ {x})
  /\ UNCHANGED <<release, deduped, failed>>

NewRecord(m, rollout) ==
  [manifest |-> m, rollout |-> rollout, paused |-> FALSE, rolledBack |-> FALSE,
   finalized |-> FALSE, good |-> 0, bad |-> 0]

\* Variant with a bug: a new attempt starts from a clean record.
CreatePutClean(w) ==
  /\ At(w, "create", "put")
  /\ request[w].todo = {}
  /\ \E rollout \in Rollouts : Put(w, NewRecord(request[w].arg, rollout))
  /\ UNCHANGED <<blobs, deduped, failed>>

\* A new attempt keeps what was decided and reported about the old one.
CreatePut(w) ==
  /\ At(w, "create", "put")
  /\ request[w].todo = {}
  /\ \E rollout \in Rollouts :
       LET r == request[w] IN
         Put(w, IF r.seen = NoRelease
                  THEN NewRecord(r.arg, rollout)
                  ELSE [r.seen EXCEPT !.manifest = r.arg, !.rollout = rollout,
                                      !.finalized = FALSE])
  /\ UNCHANGED <<blobs, deduped, failed>>

-----------------------------------------------------------------------------
(* stageBlob and finalizeRelease *)

Stage(w, b, x) ==
  /\ Exists(b)
  /\ x \in BlobsOf[release[b].manifest]
  /\ Start(w, "stage", b, x, "stat", {})

\* A blob that is there already is not stored again; an upload lets go of the event loop.
StatBlob(w) ==
  /\ At(w, "stage", "stat")
  /\ IF request[w].arg \in blobs
       THEN Finish(w)
       ELSE /\ request' = [request EXCEPT ![w].step = "upload"]
            /\ loop' = Free
  /\ UNCHANGED <<release, blobs, deduped, failed>>

\* The body arrives whole and hashes to the blob's id, or it is refused.
Upload(w) ==
  /\ At(w, "stage", "upload")
  /\ blobs' \in {blobs, blobs \cup {request[w].arg}}
  /\ Finish(w)
  /\ UNCHANGED <<release, deduped, failed>>

Finalize(w, b) ==
  /\ Exists(b)
  /\ ~release[b].finalized
  /\ Start(w, "finalize", b, b, "put", BlobsOf[release[b].manifest])

\* missingBlobs: with one missing, the release is not finalized.
FindBlob(w) ==
  /\ At(w, "finalize", "put")
  /\ \E x \in request[w].todo :
       IF x \in blobs THEN Proceed(w, "put", request[w].todo \ {x}) ELSE Finish(w)
  /\ UNCHANGED <<release, blobs, deduped, failed>>

FinalizePut(w) ==
  /\ At(w, "finalize", "put")
  /\ request[w].todo = {}
  /\ Put(w, [request[w].seen EXCEPT !.finalized = TRUE])
  /\ UNCHANGED <<blobs, deduped, failed>>

-----------------------------------------------------------------------------
(* setRollout, setPaused, rollback *)

SetRollout(w, b, pct) == Exists(b) /\ Start(w, "rollout", b, pct, "put", {})
SetPaused(w, b, paused) == Exists(b) /\ Start(w, "pause", b, paused, "put", {})
Rollback(w, b) == Exists(b) /\ Start(w, "rollback", b, b, "put", {})

RolloutPut(w) ==
  /\ At(w, "rollout", "put")
  /\ Put(w, [request[w].seen EXCEPT !.rollout = request[w].arg])
  /\ UNCHANGED <<blobs, deduped, failed>>

PausePut(w) ==
  /\ At(w, "pause", "put")
  /\ Put(w, [request[w].seen EXCEPT !.paused = request[w].arg])
  /\ UNCHANGED <<blobs, deduped, failed>>

RollbackPut(w) ==
  /\ At(w, "rollback", "put")
  /\ Put(w, [request[w].seen EXCEPT !.rolledBack = TRUE, !.paused = TRUE])
  /\ UNCHANGED <<blobs, deduped, failed>>

-----------------------------------------------------------------------------
(* recordConfirm *)

Total(r) == r.good + r.bad

\* Devices report on releases they were offered.
Confirm(w, b, report) ==
  /\ Exists(b)
  /\ release[b].finalized
  /\ Total(release[b]) < MaxReports
  /\ Start(w, "confirm", b, report, IF report.good THEN "put" ELSE "dedupe", {})

\* Variant with a bug: the failures an install has reported are not remembered.
DedupeForgets(w) ==
  /\ At(w, "confirm", "dedupe")
  /\ Proceed(w, "put", {})
  /\ failed' = failed \cup {<<request[w].arg.install, request[w].bundle>>}
  /\ UNCHANGED <<release, blobs, deduped>>

\* A second failure of the same install is not counted.
Dedupe(w) ==
  LET key == <<request[w].arg.install, request[w].bundle>> IN
    /\ At(w, "confirm", "dedupe")
    /\ IF key \in deduped THEN Finish(w) ELSE Proceed(w, "put", {})
    /\ deduped' = deduped \cup {key}
    /\ failed' = failed \cup {key}
    /\ UNCHANGED <<release, blobs>>

Counted(r, good) ==
  IF good THEN [r EXCEPT !.good = @ + 1] ELSE [r EXCEPT !.bad = @ + 1]

AutoPauses(r) == Total(r) >= MinSamples /\ r.bad * 100 >= FailureRate * Total(r)

ConfirmPut(w) ==
  /\ At(w, "confirm", "put")
  /\ LET r == Counted(request[w].seen, request[w].arg.good) IN
       Put(w, [r EXCEPT !.paused = @ \/ AutoPauses(r)])
  /\ UNCHANGED <<blobs, deduped, failed>>

-----------------------------------------------------------------------------
(* Failures *)

\* An instance dies with a request under way; the others, and the cache, live on.
InstanceDies(w) ==
  /\ networked
  /\ request[w] # NoRequest
  /\ Finish(w)
  /\ UNCHANGED <<release, blobs, deduped, failed>>

\* The one instance restarts, and its memory cache starts empty.
Restart ==
  /\ ~networked
  /\ request' = [w \in Workers |-> NoRequest]
  /\ loop' = Free
  /\ deduped' = {}
  /\ UNCHANGED <<release, blobs, failed>>

-----------------------------------------------------------------------------
Publishing(w) ==
  \/ \E m \in Manifests : Create(w, m)
  \/ Discard(w) \/ ListReleases(w) \/ DeleteBlob(w) \/ CreatePut(w)
  \/ \E b \in Bundles, x \in Blobs : Stage(w, b, x)
  \/ StatBlob(w) \/ Upload(w)
  \/ \E b \in Bundles : Finalize(w, b)
  \/ FindBlob(w) \/ FinalizePut(w)

Operating(w) ==
  \/ \E b \in Bundles, pct \in Rollouts : SetRollout(w, b, pct)
  \/ \E b \in Bundles, paused \in BOOLEAN : SetPaused(w, b, paused)
  \/ \E b \in Bundles : Rollback(w, b)
  \/ RolloutPut(w) \/ PausePut(w) \/ RollbackPut(w)

Reporting(w) ==
  \/ \E b \in Bundles, report \in Report : Confirm(w, b, report)
  \/ Dedupe(w) \/ ConfirmPut(w)

Next ==
  /\ \/ \E w \in Workers : Publishing(w) \/ Operating(w) \/ Reporting(w) \/ InstanceDies(w)
     \/ Restart
  /\ UNCHANGED networked

Spec == Init /\ [][Next]_vars

-----------------------------------------------------------------------------
(* Properties *)

Steps == {"discard", "list", "put", "stat", "upload", "dedupe"}

\* The requests of one kind, by what they are asked to do.
Asked(op, args) ==
  [op : {op}, bundle : Bundles, arg : args, step : Steps, todo : SUBSET Blobs,
   seen : ReleaseRecord \cup {NoRelease}]

IsRequest(r) ==
  \/ r \in Asked("create", Manifests)
  \/ r \in Asked("stage", Blobs)
  \/ r \in Asked("finalize", Bundles)
  \/ r \in Asked("rollout", Rollouts)
  \/ r \in Asked("pause", BOOLEAN)
  \/ r \in Asked("rollback", Bundles)
  \/ r \in Asked("confirm", Report)

\* Every variable has its type.
TypeOK ==
  /\ release \in [Bundles -> ReleaseRecord \cup {NoRelease}]
  /\ blobs \in SUBSET Blobs
  /\ deduped \in SUBSET (Installs \X Bundles)
  /\ \A w \in Workers :
       /\ request[w] # NoRequest => IsRequest(request[w])
       /\ request[w] # NoRequest /\ request[w].op # "create" => request[w].seen # NoRelease
  /\ loop \in Workers \cup {Free}
  /\ failed \in SUBSET (Installs \X Bundles)
  /\ networked \in Deployments

\* What pickEligible leaves of a release, targeting aside.
Offered(b) ==
  /\ Exists(b)
  /\ release[b].finalized
  /\ ~release[b].paused
  /\ ~release[b].rolledBack

\* "it cannot be served until every blob has arrived", and it keeps them: no discarded attempt,
\* of this bundle or of another, takes a blob that a published release lists.  (Of one process; the
\* networked deployments have no such order, see README.md.)
FinalizedIsWhole ==
  \A b \in Bundles :
    ~networked /\ Exists(b) /\ release[b].finalized => BlobsOf[release[b].manifest] \subseteq blobs

\* "A published release is immutable": it stays published, with the manifest it was signed with.  (Of
\* one process.)
PublishedIsImmutable ==
  [][\A b \in Bundles : ~networked /\ Exists(b) /\ release[b].finalized =>
       release'[b].finalized /\ release'[b].manifest = release[b].manifest]_vars

\* The operator's switches hold: only a resume lifts a pause and nothing lifts a rollback,
\* new attempts at publishing the same bundle id included.  (Of one process.)
KillSwitchHolds ==
  [][\A b \in Bundles : ~networked /\ Exists(b) =>
       /\ release[b].rolledBack => release'[b].rolledBack
       /\ release[b].paused /\ ~release'[b].paused =>
            \E w \in Workers : request[w] # NoRequest /\ request[w].op = "pause"
                                 /\ request[w].bundle = b /\ ~request[w].arg]_vars

\* Each install counts at most once towards the failures of a release, however many reports it
\* sends and however they interleave with other requests on the same record.  (Where the cache is
\* Redis: a memory cache forgets with its process.)
EachInstallCountsOnce ==
  \A b \in Bundles : networked /\ Exists(b) =>
    release[b].bad <= Cardinality({i \in Installs : <<i, b>> \in failed})

\* With networked providers a change may be lost (WithdrawnStaysWithdrawn), and nothing is shown.
Serial == INSTANCE SerialStore WITH
  release <- IF networked THEN [b \in Bundles |-> NoRelease] ELSE release,
  blobs <- IF networked THEN {} ELSE blobs

\* One process changes releases one at a time, though every request reads, awaits and puts back what
\* it read: no change is lost, none is made of what a request saw before another (store.ts).
OneProcessIsSerial == Serial!Spec

\* "No device is offered it again" (src/website/docs/concepts/lifecycle.md): a release that was
\* rolled back is not offered after any step.
WithdrawnStaysWithdrawn ==
  [][\A b \in Bundles : Exists(b) /\ release[b].rolledBack => ~Offered(b)']_vars
=============================================================================
