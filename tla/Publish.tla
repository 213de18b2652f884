------------------------------- MODULE Publish -------------------------------
(***************************************************************************)
(* Publishing, from the build to the release devices may get: the jobs of  *)
(* the dashboards and the runs of `dash-ota publish`, the backend's three  *)
(* publishing routes, and a network that loses requests and answers.       *)
(*                                                                         *)
(* A dashboard publishes one job at a time, platform after platform, out   *)
(* of a build folder that is fixed per environment and platform.  A run of *)
(* the CLI publishes one prepared release under a given id and may be run  *)
(* again.                                                                  *)
(*                                                                         *)
(* Abstracted: the backend answers each request at once (what happens      *)
(* inside one is ReleaseStore's subject); a build's files are one name; a  *)
(* release's blobs are those names and one every build shares; signing and *)
(* keys are Channel's; the channel stands for the environment.          *)
(***************************************************************************)
EXTENDS Integers, Sequences, FiniteSets, SequencesExt

CONSTANTS
  Dashboards,   \* dashboard processes
  Channel,      \* [Dashboards -> channels]: the environment each publishes to
  Platforms,    \* the platforms of a job, in order
  Cli,          \* a run of the CLI, publishing to a channel of its own
  CliChannel,
  MaxJobs,      \* bound: jobs started on a dashboard
  MaxRetained,  \* MAX_RETAINED_JOBS
  Attempts,     \* tries of a blob upload
  MaxFaults,    \* bound: requests and answers lost, builds failed, processes killed
  None

ASSUME ChannelAssumption == DOMAIN Channel = Dashboards /\ Cli \notin Dashboards
ASSUME PlatformsAssumption == Len(Platforms) \in Nat \ {0}
ASSUME CountAssumption ==
  {MaxJobs, MaxFaults} \subseteq Nat /\ {MaxRetained, Attempts} \subseteq Nat \ {0}

Publishers == Dashboards \cup {Cli}
Shared == <<None, 0, 0>>   \* the files no build changes: one blob, sealed with the content key

VARIABLES
  folder,    \* [channel, platform -> the builds whose files are there]
  task,      \* [Publishers -> what it is doing]
  jobs,      \* [Dashboards -> the job numbers it still holds, oldest first]
  results,   \* ids reported as published
  release,   \* the backend's releases: [id -> record], a function on the ids declared
  stored,    \* the backend's blobs
  faults

vars == <<folder, task, jobs, results, release, stored, faults>>

Idle == [step |-> "idle", job |-> 0, at |-> 1, version |-> 0, files |-> {}, missing |-> {},
         attempt |-> 1]

Places == Range(Channel) \X (1..Len(Platforms))

Init ==
  /\ folder = [p \in Places |-> {}]
  /\ task = [p \in Publishers |-> Idle]
  /\ jobs = [d \in Dashboards |-> <<>>]
  /\ results = {}
  /\ release = <<>>
  /\ stored = {}
  /\ faults = 0

ChannelOf(p) == IF p = Cli THEN CliChannel ELSE Channel[p]
Id(p) == <<p, task[p].job, task[p].at>>
Place(d) == <<Channel[d], task[d].at>>
Step(p, step) == task[p].step = step
Goto(p, step) == task' = [task EXCEPT ![p].step = step]

Fault == faults < MaxFaults /\ faults' = faults + 1

-----------------------------------------------------------------------------
(* The backend *)

BlobsOf(r) == r.files \cup {Shared}

Known(id) == id \in DOMAIN release

ReferencedElsewhere(id) == UNION {BlobsOf(release[i]) : i \in DOMAIN release \ {id}}

\* Variant with a bug: everything the unfinished attempt uploaded is dropped.
DiscardedAll(id, record) == IF Known(id) THEN BlobsOf(release[id]) ELSE {}

\* createRelease: an unfinished attempt is replaced, and keeps what the new manifest still lists.
Discarded(id, record) ==
  IF Known(id) THEN BlobsOf(release[id]) \ (BlobsOf(record) \cup ReferencedElsewhere(id)) ELSE {}

Create(id, record) ==
  /\ Known(id) => ~release[id].finalized
  /\ release' = [i \in DOMAIN release \cup {id} |-> IF i = id THEN record ELSE release[i]]
  /\ stored' = stored \ Discarded(id, record)

Missing(record, store) == BlobsOf(record) \ store

-----------------------------------------------------------------------------
(* Dashboard jobs up to the upload *)

\* Map order is insertion order, so the oldest job goes when the map is full.
Retained(d, job) ==
  Append(IF Len(jobs[d]) >= MaxRetained THEN Tail(jobs[d]) ELSE jobs[d], job)

StartPublish(d) ==
  /\ task[d].step \in {"idle", "done", "failed"}
  /\ task[d].job < MaxJobs
  /\ task' = [task EXCEPT ![d] = [Idle EXCEPT !.step = "version", !.job = task[d].job + 1]]
  /\ jobs' = [jobs EXCEPT ![d] = Retained(d, task[d].job + 1)]
  /\ UNCHANGED <<folder, results, release, stored, faults>>

VersionsOn(channel, at) ==
  {release[i].version : i \in {k \in DOMAIN release : release[k].channel = channel /\ k[3] = at}}

\* Variant with a bug: only the releases that were finalized count.
NextVersionServed(d) ==
  LET taken == {release[i].version : i \in {k \in DOMAIN release :
                  release[k].channel = Channel[d] /\ k[3] = task[d].at /\ release[k].finalized}}
  IN  Max({0} \cup taken) + 1

\* nextBundleVersion: finished or not, every release listed counts.
NextVersion(d) ==
  Max({0} \cup VersionsOn(Channel[d], task[d].at)) + 1

\* Variant with a bug: the folder is not emptied first.
PrepareOver(d) ==
  /\ Step(d, "version")
  /\ task' = [task EXCEPT ![d].step = "build", ![d].version = NextVersion(d)]
  /\ UNCHANGED <<folder, jobs, results, release, stored, faults>>

Prepare(d) ==
  /\ Step(d, "version")
  /\ task' = [task EXCEPT ![d].step = "build", ![d].version = NextVersion(d)]
  /\ folder' = [folder EXCEPT ![Place(d)] = {}]
  /\ UNCHANGED <<jobs, results, release, stored, faults>>

Build(d) ==
  /\ Step(d, "build")
  /\ folder' = [folder EXCEPT ![Place(d)] = @ \cup {Id(d)}]
  /\ Goto(d, "sign")
  /\ UNCHANGED <<jobs, results, release, stored, faults>>

\* readBundleDir: whatever the folder holds.
FilesIn(d) == folder[Place(d)]

\* prepareRelease takes those files, and refuses a folder with none.
Sign(d) ==
  /\ Step(d, "sign")
  /\ FilesIn(d) # {}
  /\ task' = [task EXCEPT ![d].step = "declare", ![d].files = FilesIn(d)]
  /\ UNCHANGED <<folder, jobs, results, release, stored, faults>>

\* A step throws: the folder of a build is removed, the job has failed.
Cleared(p) ==
  IF p = Cli \/ task[p].step = "version" THEN folder ELSE [folder EXCEPT ![Place(p)] = {}]

Fails(p) ==
  /\ Goto(p, "failed")
  /\ folder' = Cleared(p)

SignFails(d) ==
  /\ Step(d, "sign")
  /\ FilesIn(d) = {}
  /\ Fails(d)
  /\ UNCHANGED <<jobs, results, release, stored, faults>>

\* The list of releases does not arrive, or the build fails.
JobBreaks(d) ==
  /\ task[d].step \in {"version", "build"}
  /\ Fault
  /\ Fails(d)
  /\ UNCHANGED <<jobs, results, release, stored>>

-----------------------------------------------------------------------------
(* cmdPublish: the same release again *)

RunCli ==
  /\ task[Cli].step \in {"idle", "failed"}
  /\ task' = [task EXCEPT ![Cli] =
       [Idle EXCEPT !.step = "declare", !.job = 0, !.version = 1, !.files = {<<Cli, 0, 1>>}]]
  /\ UNCHANGED <<folder, jobs, results, release, stored, faults>>

-----------------------------------------------------------------------------
(* uploadRelease *)

Record(p) ==
  [channel |-> ChannelOf(p), version |-> task[p].version, files |-> task[p].files,
   finalized |-> FALSE]

Declare(p) ==
  /\ Step(p, "declare")
  /\ Create(Id(p), Record(p))
  /\ task' = [task EXCEPT ![p].step = "upload", ![p].attempt = 1,
                          ![p].missing = Missing(Record(p), stored')]
  /\ UNCHANGED <<folder, jobs, results, faults>>

\* A published id is refused: 409.
DeclareRefused(p) ==
  /\ Step(p, "declare")
  /\ Known(Id(p)) /\ release[Id(p)].finalized
  /\ Fails(p)
  /\ UNCHANGED <<jobs, results, release, stored, faults>>

\* adminPost is not retried: the request or its answer is lost, and the job fails.
DeclareLost(p) ==
  /\ Step(p, "declare")
  /\ Fault
  /\ Fails(p)
  /\ \/ Create(Id(p), Record(p))
     \/ UNCHANGED <<release, stored>>
  /\ UNCHANGED <<jobs, results>>

\* adminPutBytes: one blob after the other; the route stores it, or finds it stored.
Put(p) ==
  /\ Step(p, "upload")
  /\ \E x \in task[p].missing :
       /\ stored' = stored \cup {x}
       /\ task' = [task EXCEPT ![p].missing = @ \ {x}, ![p].attempt = 1]
  /\ UNCHANGED <<folder, jobs, results, release, faults>>

\* A try is lost, before or after the blob was stored; the last one fails the job.
PutLost(p) ==
  /\ Step(p, "upload")
  /\ Fault
  /\ \E x \in task[p].missing : stored' \in {stored, stored \cup {x}}
  /\ IF task[p].attempt < Attempts
       THEN task' = [task EXCEPT ![p].attempt = @ + 1] /\ UNCHANGED folder
       ELSE Fails(p)
  /\ UNCHANGED <<jobs, results, release>>

Published(p) ==
  /\ results' = results \cup {Id(p)}
  /\ folder' = Cleared(p)
  /\ task' = IF p # Cli /\ task[p].at < Len(Platforms)
               THEN [task EXCEPT ![p] = [Idle EXCEPT !.step = "version", !.job = task[p].job,
                                                     !.at = task[p].at + 1]]
               ELSE [task EXCEPT ![p].step = "done"]

Whole(id) == Missing(release[id], stored) = {}

Finalize(p) ==
  /\ Step(p, "upload")
  /\ task[p].missing = {}
  /\ IF Whole(Id(p))
       THEN Published(p) /\ release' = [release EXCEPT ![Id(p)].finalized = TRUE]
       ELSE Fails(p) /\ UNCHANGED <<release, results>>
  /\ UNCHANGED <<jobs, stored, faults>>

\* The release may be out, and the job says it failed.
FinalizeLost(p) ==
  /\ Step(p, "upload")
  /\ task[p].missing = {}
  /\ Fault
  /\ Fails(p)
  /\ release' \in {release, [release EXCEPT ![Id(p)].finalized = @ \/ Whole(Id(p))]}
  /\ UNCHANGED <<jobs, results, stored>>

-----------------------------------------------------------------------------
\* The process is killed: the folder stays as it is, the next process knows no job.
Killed(d) ==
  /\ task[d].step \notin {"idle", "done", "failed"}
  /\ Fault
  /\ task' = [task EXCEPT ![d].step = "failed"]
  /\ jobs' = [jobs EXCEPT ![d] = <<>>]
  /\ UNCHANGED <<folder, results, release, stored>>

JobSteps(d) == Prepare(d) \/ Build(d) \/ Sign(d) \/ SignFails(d)

UploadSteps(p) == Declare(p) \/ DeclareRefused(p) \/ Put(p) \/ Finalize(p)

Losses(p) == DeclareLost(p) \/ PutLost(p) \/ FinalizeLost(p)

Next ==
  \/ \E d \in Dashboards : StartPublish(d) \/ JobSteps(d) \/ JobBreaks(d) \/ Killed(d)
  \/ RunCli
  \/ \E p \in Publishers : UploadSteps(p) \/ Losses(p)

Spec == Init /\ [][Next]_vars

\* Processes go on with what they do, and the backend answers in the end.
FairSpec ==
  /\ Spec
  /\ \A d \in Dashboards : WF_vars(JobSteps(d) \/ UploadSteps(d))
  /\ WF_vars(UploadSteps(Cli))

-----------------------------------------------------------------------------
(* Properties *)

Ids == Publishers \X (0..MaxJobs) \X (1..Len(Platforms))

TypeOK ==
  /\ \A p \in Places : folder[p] \subseteq Ids
  /\ \A p \in Publishers :
       /\ task[p].step \in {"idle", "version", "build", "sign", "declare", "upload", "done", "failed"}
       /\ task[p].job \in 0..MaxJobs
       /\ task[p].attempt \in 1..Attempts
       /\ task[p].files \subseteq Ids
       /\ task[p].missing \subseteq Ids \cup {Shared}
  /\ \A d \in Dashboards : Len(jobs[d]) <= MaxRetained
  /\ DOMAIN release \subseteq Ids
  /\ results \subseteq Ids
  /\ stored \subseteq Ids \cup {Shared}

\* One dashboard per environment, and the CLI publishing to a channel that none of them does: what the
\* next two properties need.  Two dashboards of one environment share its build folder (buildDirFor),
\* and both may ask for the next version before either declares it (nextBundleVersion).
OnePublisherPerChannel ==
  /\ \A d, e \in Dashboards : Channel[d] = Channel[e] => d = e
  /\ \A d \in Dashboards : Channel[d] # CliChannel

\* Every release ships the files of its own build and no other's, whatever an earlier build left
\* in the folder (buildDirFor and the rmSync before a build).
ShipsItsOwnBuild == \A i \in DOMAIN release : release[i].files = {i}

\* What a job or a run reports as published reaches devices, whatever was lost and tried again: it is
\* finalized, has every blob, and no other release of its channel and platform has its version, for
\* a device on the one would never be offered the other (nextBundleVersion).
ReportedIsServed ==
  \A i \in results :
    /\ Known(i) /\ release[i].finalized /\ Whole(i)
    /\ \A k \in DOMAIN release \ {i} :
         release[i].channel = release[k].channel /\ i[3] = k[3] =>
           release[i].version # release[k].version

\* A job or a run ends, whatever is lost, refused or fails on the way, so the next one can start;
\* and nothing uploaded is given up, so that one uploads only the gap (createRelease).
EveryJobEnds ==
  /\ [][stored \subseteq stored']_vars
  /\ \A p \in Publishers :
       task[p].step \notin {"idle", "done", "failed"} ~> task[p].step \in {"done", "failed"}
=============================================================================
