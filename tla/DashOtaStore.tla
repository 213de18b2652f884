---------------------------- MODULE DashOtaStore ----------------------------
(***************************************************************************)
(* The slot store of an Android device: state.json, launch.json, the slot  *)
(* and staging directories, and the processes that use them.               *)
(*                                                                         *)
(* One process at a time runs the app.  At start-up it resolves which      *)
(* bundle to run (DashOtaStore.resolveBundleAtLaunch, four steps here,     *)
(* because a kill between two of them is observable); then it runs that    *)
(* bundle's JavaScript, which calls the native module, while at most one   *)
(* download thread assembles and commits a newer bundle.  The process may  *)
(* die between any two steps; state.json, launch.json and the directories  *)
(* survive it, everything else does not.                                   *)
(*                                                                         *)
(* Abstracted: a bundle is its id (a published release never changes), its *)
(* files are "absent", "partial" or "complete"; a binary stands for the    *)
(* pair (runtimeVersion, nativeBuild).  Each store operation's load-modify-*)
(* save of state.json is one step here.                                    *)
(***************************************************************************)
EXTENDS Integers

CONSTANTS
  Bundles,          \* ids of published bundles
  Version,          \* [Bundles -> Int], the signed bundleVersion of each
  Binaries,         \* the binaries the store may install
  Targets,          \* [Bundles -> SUBSET Binaries], runtimeVersion and minNativeBuild gates
  Broken,           \* bundles whose JavaScript dies before it reaches the native module
  MaxBootAttempts,  \* MAX_BOOT_ATTEMPTS
  SaveMayFail,      \* whether writing state.json may throw (a full disk)
  NoSlot,           \* a slot key that is missing or null
  Embedded          \* the JavaScript inside the binary

Slot == [bundle : Bundles, binary : Binaries]
SlotName == {"current", "lastKnownGood", "staged", "pending"}
DirState == {"absent", "partial", "complete"}

ASSUME VersionAssumption == Version \in [Bundles -> Int]
ASSUME TargetsAssumption == Targets \in [Bundles -> SUBSET Binaries]
ASSUME BrokenAssumption == Broken \subseteq Bundles
ASSUME AttemptsAssumption == MaxBootAttempts \in Nat /\ MaxBootAttempts >= 2
ASSUME SaveAssumption == SaveMayFail \in BOOLEAN
ASSUME SentinelAssumption ==
  NoSlot \notin Slot /\ NoSlot \notin Bundles \cup {Embedded} /\ Embedded \notin Bundles

VARIABLES
  \* the device
  binary,           \* the installed binary
  \* state.json
  slots,            \* [SlotName -> Slot \cup {NoSlot}]
  trial,
  bootAttempts,
  disabledBundles,
  failedToReport,   \* a bundle id, or Embedded when the key is absent
  appliedToReport,
  userReload,
  \* launch.json
  marks,            \* subset of {"beaconAt", "pausedAt"}
  \* directories
  bundleDir,        \* [Bundles -> DirState], bundles/<id>
  stagingDir,       \* [Bundles -> DirState], staging/<id>
  \* the process
  phase,            \* "dead", "loaded", "marksRead", "swept", "running"
  forgiven,         \* local of resolveBundleAtLaunch
  running,          \* the bundle React Native was given
  jsUp,             \* the native module is initialised (and the callbacks registered)
  foreground,
  restarting,       \* applyUpdate(true): "no", "armed" (pending seen), "flagged" (marker saved)
  download,         \* the download thread: [step, bundle]
  \* history
  torn              \* bundles whose slot directory an interrupted commit left incomplete

stateVars == <<slots, trial, bootAttempts, disabledBundles,
               failedToReport, appliedToReport, userReload>>
dirVars == <<bundleDir, stagingDir, torn>>
processVars == <<phase, forgiven, running, jsUp, foreground, restarting>>
vars == <<binary, stateVars, marks, dirVars, processVars, download>>

NoDownload == [step |-> "idle", bundle |-> Embedded]

Init ==
  /\ binary \in Binaries
  /\ slots = [k \in SlotName |-> NoSlot]
  /\ trial = FALSE
  /\ bootAttempts = 0
  /\ disabledBundles = {}
  /\ failedToReport = Embedded
  /\ appliedToReport = Embedded
  /\ userReload = FALSE
  /\ marks = {}
  /\ bundleDir = [b \in Bundles |-> "absent"]
  /\ stagingDir = [b \in Bundles |-> "absent"]
  /\ phase = "dead"
  /\ forgiven = FALSE
  /\ running = Embedded
  /\ jsUp = FALSE
  /\ foreground = FALSE
  /\ restarting = "no"
  /\ download = NoDownload
  /\ torn = {}

-----------------------------------------------------------------------------
(* Launch *)

Compatible(s) == s # NoSlot /\ s.binary = binary

\* Variant with a bug: the slots that wait are not compared with the binary.
CompatibleSlotsLoadedOnly ==
  [k \in SlotName |->
     IF Compatible(slots[k]) \/ k \in {"pending", "staged"} THEN slots[k] ELSE NoSlot]

CompatibleSlots == [k \in SlotName |-> IF Compatible(slots[k]) THEN slots[k] ELSE NoSlot]

\* Variant with a bug, the keep-set before pending and staged were added to it.
ReferencedLoadedOnly ==
  {slots[k].bundle : k \in {j \in {"current", "lastKnownGood"} : slots[j] # NoSlot}}

\* The bundle ids a slot still names.
Referenced == {slots[k].bundle : k \in {j \in SlotName : slots[j] # NoSlot}}

\* bundlePath: the embedded bundle when index.android.bundle is missing.
Loadable(s) == IF s # NoSlot /\ bundleDir[s.bundle] # "absent" THEN s.bundle ELSE Embedded

\* Variant with a bug: the trial counters outlive the slot they belong to.
LaunchLoadKeepsTrial ==
  /\ phase = "dead"
  /\ phase' = "loaded"
  /\ slots' = CompatibleSlots
  /\ foreground' = TRUE
  /\ UNCHANGED <<binary, trial, bootAttempts, disabledBundles, failedToReport, appliedToReport,
                 userReload, marks, dirVars, forgiven, running, jsUp, restarting, download>>

\* loadState and dropIncompatibleSlots, which saves what it drops.
LaunchLoad ==
  /\ phase = "dead"
  /\ phase' = "loaded"
  /\ slots' = CompatibleSlots
  /\ IF CompatibleSlots = slots
       THEN UNCHANGED <<trial, bootAttempts>>
       ELSE trial' = FALSE /\ bootAttempts' = 0
  /\ foreground' = TRUE
  /\ UNCHANGED <<binary, disabledBundles, failedToReport, appliedToReport, userReload,
                 marks, dirVars, forgiven, running, jsUp, restarting, download>>

\* consumeLaunchMarks: launch.json is deleted now, state.json is saved later.
LaunchReadMarks ==
  /\ phase = "loaded"
  /\ phase' = "marksRead"
  /\ forgiven' = ({"beaconAt", "pausedAt"} \subseteq marks)
  /\ marks' = {}
  /\ UNCHANGED <<binary, stateVars, dirVars, running, jsUp, foreground, restarting, download>>

\* gc: every slot and staging directory no slot names goes.
LaunchSweep ==
  /\ phase = "marksRead"
  /\ phase' = "swept"
  /\ bundleDir' = [b \in Bundles |-> IF b \in Referenced THEN bundleDir[b] ELSE "absent"]
  /\ stagingDir' = [b \in Bundles |-> IF b \in Referenced THEN stagingDir[b] ELSE "absent"]
  /\ UNCHANGED <<binary, stateVars, marks, torn, forgiven, running, jsUp, foreground,
                 restarting, download>>

\* The launch saves state.json, without the userReload marker, and runs slot s.
Run(s) ==
  /\ phase = "swept"
  /\ phase' = "running"
  /\ running' = Loadable(s)
  /\ userReload' = FALSE
  /\ forgiven' = FALSE
  /\ UNCHANGED <<binary, marks, dirVars, jsUp, foreground, restarting, download>>

ApplyPending ==
  /\ slots["pending"] # NoSlot
  /\ Run(slots["pending"])
  /\ slots' = [slots EXCEPT !["current"] = slots["pending"], !["pending"] = NoSlot]
  /\ trial' = TRUE
  /\ bootAttempts' = 1
  /\ appliedToReport' = slots["pending"].bundle
  /\ UNCHANGED <<disabledBundles, failedToReport>>

LaunchEmbedded ==
  /\ slots["pending"] = NoSlot
  /\ slots["current"] = NoSlot
  /\ Run(NoSlot)
  /\ UNCHANGED <<slots, trial, bootAttempts, disabledBundles, failedToReport, appliedToReport>>

LaunchHealthy ==
  /\ slots["pending"] = NoSlot
  /\ slots["current"] # NoSlot
  /\ ~trial
  /\ Run(slots["current"])
  /\ UNCHANGED <<slots, trial, bootAttempts, disabledBundles, failedToReport, appliedToReport>>

\* Variant with a bug: the user leaving the app is never refunded.
ChargedWithoutRefund == bootAttempts

\* The attempts left after the refund of a launch that ended with both marks.
Charged == IF forgiven /\ bootAttempts > 0 THEN bootAttempts - 1 ELSE bootAttempts

ContinueTrialUncharged ==
  /\ slots["pending"] = NoSlot
  /\ slots["current"] # NoSlot
  /\ trial
  /\ Charged < MaxBootAttempts
  /\ Run(slots["current"])
  /\ bootAttempts' = Charged
  /\ UNCHANGED <<slots, trial, disabledBundles, failedToReport, appliedToReport>>

ContinueTrial ==
  /\ slots["pending"] = NoSlot
  /\ slots["current"] # NoSlot
  /\ trial
  /\ Charged < MaxBootAttempts
  /\ Run(slots["current"])
  /\ bootAttempts' = IF userReload THEN Charged ELSE Charged + 1
  /\ UNCHANGED <<slots, trial, disabledBundles, failedToReport, appliedToReport>>

\* Variant with a bug: the last-known-good bundle runs and is not recorded as current.
TripBreakerUnrecorded ==
  /\ slots["pending"] = NoSlot
  /\ slots["current"] # NoSlot
  /\ trial
  /\ Charged >= MaxBootAttempts
  /\ Run(slots["lastKnownGood"])
  /\ disabledBundles' = disabledBundles \cup {slots["current"].bundle}
  /\ failedToReport' = slots["current"].bundle
  /\ slots' = [slots EXCEPT !["lastKnownGood"] = NoSlot]
  /\ trial' = (slots["lastKnownGood"] # NoSlot)
  /\ bootAttempts' = IF slots["lastKnownGood"] # NoSlot THEN 1 ELSE 0
  /\ UNCHANGED appliedToReport

\* Disable the trial bundle; the last-known-good one goes on trial in its place.
TripBreaker ==
  /\ slots["pending"] = NoSlot
  /\ slots["current"] # NoSlot
  /\ trial
  /\ Charged >= MaxBootAttempts
  /\ Run(slots["lastKnownGood"])
  /\ disabledBundles' = disabledBundles \cup {slots["current"].bundle}
  /\ failedToReport' = slots["current"].bundle
  /\ slots' = [slots EXCEPT !["current"] = slots["lastKnownGood"], !["lastKnownGood"] = NoSlot]
  /\ trial' = (slots["lastKnownGood"] # NoSlot)
  /\ bootAttempts' = IF slots["lastKnownGood"] # NoSlot THEN 1 ELSE 0
  /\ UNCHANGED appliedToReport

\* saveState throws, in dropIncompatibleSlots or at the end: getBundleFile catches it and
\* gives React Native the embedded bundle, whatever state.json says.
LaunchFails ==
  /\ SaveMayFail
  /\ \/ phase = "dead" /\ CompatibleSlots # slots
     \/ phase = "swept"
  /\ phase' = "running"
  /\ running' = Embedded
  /\ forgiven' = FALSE
  /\ foreground' = TRUE
  /\ UNCHANGED <<binary, stateVars, marks, dirVars, jsUp, restarting, download>>

LaunchDecide ==
  ApplyPending \/ LaunchEmbedded \/ LaunchHealthy \/ ContinueTrial \/ TripBreaker

-----------------------------------------------------------------------------
(* The running process: lifecycle callbacks *)

\* DashOtaModule.initialize: the beacon, and the pause callbacks from now on.
JsReady ==
  /\ phase = "running"
  /\ ~jsUp
  /\ running \notin Broken
  /\ jsUp' = TRUE
  /\ marks' = marks \cup {"beaconAt"}
  /\ UNCHANGED <<binary, stateVars, dirVars, phase, forgiven, running, foreground,
                 restarting, download>>

Pause ==
  /\ phase = "running"
  /\ foreground
  /\ foreground' = FALSE
  /\ marks' = IF jsUp THEN marks \cup {"pausedAt"} ELSE marks
  /\ UNCHANGED <<binary, stateVars, dirVars, phase, forgiven, running, jsUp, restarting, download>>

\* Variant with a bug: coming back does not clear the pause mark.
ResumeKeepsMark ==
  /\ phase = "running"
  /\ ~foreground
  /\ foreground' = TRUE
  /\ UNCHANGED <<binary, stateVars, marks, dirVars, phase, forgiven, running, jsUp,
                 restarting, download>>

Resume ==
  /\ phase = "running"
  /\ ~foreground
  /\ foreground' = TRUE
  /\ marks' = IF jsUp THEN marks \ {"pausedAt"} ELSE marks
  /\ UNCHANGED <<binary, stateVars, dirVars, phase, forgiven, running, jsUp, restarting, download>>

-----------------------------------------------------------------------------
(* The running process: operations its JavaScript calls *)

InJs ==
  /\ phase = "running"
  /\ jsUp

MarkHealthy ==
  /\ InJs
  /\ slots["current"] # NoSlot
  /\ slots' = [slots EXCEPT !["lastKnownGood"] = slots["current"]]
  /\ trial' = FALSE
  /\ bootAttempts' = 0
  /\ UNCHANGED <<binary, disabledBundles, failedToReport, appliedToReport, userReload,
                 marks, dirVars, processVars, download>>

\* Variant with a bug, the sweep that rollback used to make: it takes the running bundle's files.
RollbackSweeps ==
  /\ InJs
  /\ slots' = [slots EXCEPT !["current"] = slots["lastKnownGood"], !["pending"] = NoSlot]
  /\ trial' = FALSE
  /\ bootAttempts' = 0
  /\ bundleDir' = [b \in Bundles |->
       IF \E k \in SlotName : slots'[k] # NoSlot /\ slots'[k].bundle = b THEN bundleDir[b] ELSE "absent"]
  /\ UNCHANGED <<binary, disabledBundles, failedToReport, appliedToReport, userReload,
                 marks, stagingDir, torn, processVars, download>>

Rollback ==
  /\ InJs
  /\ slots' = [slots EXCEPT !["current"] = slots["lastKnownGood"], !["pending"] = NoSlot]
  /\ trial' = FALSE
  /\ bootAttempts' = 0
  /\ UNCHANGED <<binary, disabledBundles, failedToReport, appliedToReport, userReload,
                 marks, dirVars, processVars, download>>

PromoteStagedToPending ==
  /\ InJs
  /\ slots["staged"] # NoSlot
  /\ slots' = [slots EXCEPT !["pending"] = slots["staged"], !["staged"] = NoSlot]
  /\ UNCHANGED <<binary, trial, bootAttempts, disabledBundles, failedToReport, appliedToReport,
                 userReload, marks, dirVars, processVars, download>>

ConsumeFailedReport ==
  /\ InJs
  /\ failedToReport # Embedded
  /\ failedToReport' = Embedded
  /\ UNCHANGED <<binary, slots, trial, bootAttempts, disabledBundles, appliedToReport,
                 userReload, marks, dirVars, processVars, download>>

ConsumeAppliedReport ==
  /\ InJs
  /\ appliedToReport # Embedded
  /\ appliedToReport' = Embedded
  /\ UNCHANGED <<binary, slots, trial, bootAttempts, disabledBundles, failedToReport,
                 userReload, marks, dirVars, processVars, download>>

\* Variant with a bug: a restart that nothing is waiting for, the impatient second tap.
ArmRestartAnyway ==
  /\ InJs
  /\ restarting = "no"
  /\ restarting' = "armed"
  /\ UNCHANGED <<binary, stateVars, marks, dirVars, phase, forgiven, running, jsUp,
                 foreground, download>>

\* applyUpdate(true) restarts only after it has seen a pending bundle.
ArmRestart ==
  /\ InJs
  /\ restarting = "no"
  /\ slots["pending"] # NoSlot
  /\ restarting' = "armed"
  /\ UNCHANGED <<binary, stateVars, marks, dirVars, phase, forgiven, running, jsUp,
                 foreground, download>>

\* restart(): the marker is saved first; if the relaunch intent is missing or fails the
\* process reloads the same bundle and lives on.
MarkUserReload ==
  /\ InJs
  /\ restarting = "armed"
  /\ restarting' = "flagged"
  /\ userReload' = TRUE
  /\ UNCHANGED <<binary, slots, trial, bootAttempts, disabledBundles, failedToReport,
                 appliedToReport, marks, dirVars, phase, forgiven, running, jsUp,
                 foreground, download>>

-----------------------------------------------------------------------------
(* The download thread *)

CurrentVersionBelow(b) ==
  IF slots["current"] = NoSlot THEN 0 < Version[b]
  ELSE Version[slots["current"].bundle] < Version[b]

\* Every gate that refuses a bundle once its signature, app, channel and platform match.
MayDownload(b) ==
  /\ binary \in Targets[b]
  /\ CurrentVersionBelow(b)
  /\ b \notin disabledBundles

DownloadStart(b) ==
  /\ InJs
  /\ download.step = "idle"
  /\ MayDownload(b)
  /\ download' = [step |-> "assembling", bundle |-> b]
  /\ stagingDir' = [stagingDir EXCEPT ![b] = IF @ = "absent" THEN "partial" ELSE @]
  /\ UNCHANGED <<binary, stateVars, marks, bundleDir, torn, processVars>>

\* A file fails to download or to verify; what is already assembled stays.
DownloadFails ==
  /\ download.step = "assembling"
  /\ download' = NoDownload
  /\ UNCHANGED <<binary, stateVars, marks, dirVars, processVars>>

DownloadDone ==
  /\ download.step = "assembling"
  /\ download' = [download EXCEPT !.step = "assembled"]
  /\ stagingDir' = [stagingDir EXCEPT ![download.bundle] = "complete"]
  /\ UNCHANGED <<binary, stateVars, marks, bundleDir, torn, processVars>>

\* commitStaged refuses a staging directory that lacks a file (AssembledStaysWhole says that
\* it never has to).
MayCommit ==
  /\ download.step = "assembled"
  /\ stagingDir[download.bundle] = "complete"

\* dir.deleteRecursively() of an older copy of the same bundle, file by file.
CommitDeletes ==
  /\ MayCommit
  /\ bundleDir[download.bundle] # "absent"
  /\ bundleDir' = [bundleDir EXCEPT ![download.bundle] = "partial"]
  /\ download' = [download EXCEPT !.step = "deleting"]
  /\ UNCHANGED <<binary, stateVars, marks, stagingDir, torn, processVars>>

CommitDeleted ==
  /\ download.step = "deleting"
  /\ bundleDir' = [bundleDir EXCEPT ![download.bundle] = "absent"]
  /\ download' = [download EXCEPT !.step = "deleted"]
  /\ UNCHANGED <<binary, stateVars, marks, stagingDir, torn, processVars>>

\* The rename is the commit point of the directory, not of the state.
CommitRenames ==
  /\ \/ download.step = "deleted"
     \/ MayCommit /\ bundleDir[download.bundle] = "absent"
  /\ bundleDir' = [bundleDir EXCEPT ![download.bundle] = stagingDir[download.bundle]]
  /\ stagingDir' = [stagingDir EXCEPT ![download.bundle] = "absent"]
  /\ torn' = torn \ {download.bundle}
  /\ download' = [download EXCEPT !.step = "renamed"]
  /\ UNCHANGED <<binary, stateVars, marks, processVars>>

CommitRecords ==
  /\ download.step = "renamed"
  /\ slots' = [slots EXCEPT !["staged"] = [bundle |-> download.bundle, binary |-> binary]]
  /\ download' = NoDownload
  /\ UNCHANGED <<binary, trial, bootAttempts, disabledBundles, failedToReport, appliedToReport,
                 userReload, marks, dirVars, processVars>>

\* saveState throws once the directory is in place: the slot is never recorded.
CommitRecordFails ==
  /\ SaveMayFail
  /\ download.step = "renamed"
  /\ download' = NoDownload
  /\ UNCHANGED <<binary, stateVars, marks, dirVars, processVars>>

-----------------------------------------------------------------------------
(* The end of a process, and what happens between two *)

\* Volatile state goes; a commit that was replacing a directory leaves it incomplete.
Dies ==
  /\ phase # "dead"
  /\ phase' = "dead"
  /\ forgiven' = FALSE
  /\ running' = Embedded
  /\ jsUp' = FALSE
  /\ foreground' = FALSE
  /\ restarting' = "no"
  /\ download' = NoDownload
  /\ torn' = IF download.step \in {"deleting", "deleted"} THEN torn \cup {download.bundle} ELSE torn
  /\ UNCHANGED <<binary, stateVars, bundleDir, stagingDir>>

\* The bundle crashes, or the system kills the process.
Crash ==
  /\ Dies
  /\ UNCHANGED marks

\* The user leaves the app and swipes it away.
UserCloses ==
  /\ phase = "running"
  /\ ~foreground
  /\ Dies
  /\ UNCHANGED marks

\* launch.json is rewritten in place: a kill in the middle leaves it unreadable.
DiesWritingMarks ==
  /\ InJs
  /\ Dies
  /\ marks' = {}

\* restart(): finish() and exit(0) once the marker is saved.
Relaunch ==
  /\ restarting = "flagged"
  /\ Dies
  /\ UNCHANGED marks

\* A store update or a sideload replaces the binary and keeps the files.
InstallBinary(n) ==
  /\ phase = "dead"
  /\ n # binary
  /\ binary' = n
  /\ UNCHANGED <<stateVars, marks, dirVars, processVars, download>>

\* state.json no longer parses, or is of another schema: loadState starts clean.
LoseState ==
  /\ phase = "dead"
  /\ slots' = [k \in SlotName |-> NoSlot]
  /\ trial' = FALSE
  /\ bootAttempts' = 0
  /\ disabledBundles' = {}
  /\ failedToReport' = Embedded
  /\ appliedToReport' = Embedded
  /\ userReload' = FALSE
  /\ UNCHANGED <<binary, marks, dirVars, processVars, download>>

-----------------------------------------------------------------------------
Launch == LaunchLoad \/ LaunchReadMarks \/ LaunchSweep \/ LaunchDecide \/ LaunchFails

JsCalls ==
  \/ MarkHealthy \/ Rollback \/ PromoteStagedToPending
  \/ ConsumeFailedReport \/ ConsumeAppliedReport
  \/ ArmRestart \/ MarkUserReload

Commit ==
  \/ CommitDeletes \/ CommitDeleted \/ CommitRenames
  \/ CommitRecords \/ CommitRecordFails

Downloads == (\E b \in Bundles : DownloadStart(b)) \/ DownloadFails \/ DownloadDone \/ Commit

Exits == Crash \/ UserCloses \/ DiesWritingMarks \/ Relaunch

Environment == (\E n \in Binaries : InstallBinary(n)) \/ LoseState

Next ==
  \/ Launch
  \/ JsReady \/ Pause \/ Resume
  \/ JsCalls
  \/ Downloads
  \/ Exits
  \/ Environment

Spec == Init /\ [][Next]_vars

(* Launches are retried until one gets through (the user opens the app again, and not every   *)
(* start is killed before it has chosen a bundle), and a broken bundle really crashes.        *)
Fairness ==
  /\ SF_vars(LaunchLoad) /\ SF_vars(LaunchReadMarks)
  /\ SF_vars(LaunchSweep) /\ SF_vars(LaunchDecide)
  /\ WF_vars(running \in Broken /\ Crash)

FairSpec == Spec /\ Fairness

-----------------------------------------------------------------------------
(* Properties *)

SlotOrNone == Slot \cup {NoSlot}
BundleOrEmbedded == Bundles \cup {Embedded}
Phases == {"dead", "loaded", "marksRead", "swept", "running"}
DownloadSteps == {"assembling", "assembled", "deleting", "deleted", "renamed"}

\* Every variable has its type; a download exists only while a process runs.
TypeOK ==
  /\ binary \in Binaries
  /\ slots \in [SlotName -> SlotOrNone]
  /\ trial \in BOOLEAN
  /\ bootAttempts \in 0..MaxBootAttempts
  /\ disabledBundles \in SUBSET Bundles
  /\ failedToReport \in BundleOrEmbedded
  /\ appliedToReport \in BundleOrEmbedded
  /\ userReload \in BOOLEAN
  /\ marks \in SUBSET {"beaconAt", "pausedAt"}
  /\ bundleDir \in [Bundles -> DirState]
  /\ stagingDir \in [Bundles -> DirState]
  /\ phase \in Phases
  /\ forgiven \in BOOLEAN
  /\ running \in BundleOrEmbedded
  /\ jsUp \in BOOLEAN
  /\ foreground \in BOOLEAN
  /\ restarting \in {"no", "armed", "flagged"}
  /\ download \in [step : DownloadSteps, bundle : Bundles] \cup {NoDownload}
  /\ torn \in SUBSET Bundles

\* The commit of b has started to replace its directory.
Replacing(b) == download.bundle = b /\ download.step \in {"deleting", "deleted"}

\* A slot that state.json names has all its files, whatever was swept, committed, promoted,
\* rolled back or killed: only the commit of that same bundle, cut short, can take them away.
SlotsBacked ==
  \A k \in SlotName :
    slots[k] # NoSlot =>
      LET b == slots[k].bundle IN bundleDir[b] = "complete" \/ Replacing(b) \/ b \in torn

\* The bundle the process runs keeps its files until the process ends, also when a rollback
\* has removed it from state.json; the exception is the same as above.
RunningKeepsFiles ==
  phase = "running" /\ running # Embedded =>
    bundleDir[running] = "complete" \/ Replacing(running) \/ running \in torn

\* What a download has assembled is still all there when it is committed, whatever was marked
\* healthy, rolled back or promoted meanwhile (the second route of the 2026-09-08 incident).
AssembledStaysWhole ==
  download.step \in {"assembled", "deleting", "deleted"} =>
    stagingDir[download.bundle] = "complete"

\* What was staged against one binary never runs over another: when a launch picks a bundle,
\* the slot it comes from was committed against the installed binary, which the bundle targets.
LaunchesCompatible ==
  [][phase # "running" /\ phase' = "running" /\ running' # Embedded =>
       /\ slots'["current"] = [bundle |-> running', binary |-> binary]
       /\ binary \in Targets[running']]_vars

\* markHealthy promotes whatever slot is current: while an OTA bundle runs, that is never some
\* other bundle (rollback, promotions and downloads of its own process notwithstanding).
BlessesNoOther ==
  [][phase = "running" /\ running # Embedded
       /\ slots'["lastKnownGood"] # slots["lastKnownGood"] =>
         slots'["lastKnownGood"].bundle = running]_vars

\* A bundle the breaker disabled on this device is not downloaded again: no commit records it.
DisabledNotDownloaded ==
  [][\A b \in disabledBundles :
       slots'["staged"] # slots["staged"] /\ slots'["staged"] # NoSlot =>
         slots'["staged"].bundle # b]_vars

\* The userReload marker never spares a bundle on trial its boot attempt: wherever it is set,
\* a pending bundle is about to start a trial of its own, or no trial is under way.
ReloadNeverMasksCrash ==
  userReload => slots["pending"] # NoSlot \/ ~trial

\* On trial, the launch that is under way has been charged: a bundle never runs a trial launch
\* for free, so a bundle that crashes every time is always one attempt nearer the breaker.
TrialIsCharged ==
  phase = "running" /\ running # Embedded /\ trial => bootAttempts >= 1

\* However many bundles die before they reach JavaScript, a trial always ends: later launches
\* run the embedded bundle or a bundle that starts.
TrialEscapesCrashLoop ==
  (phase = "running" /\ running \in Broken /\ trial)
    ~> (phase = "running" /\ running \notin Broken)
-----------------------------------------------------------------------------
(* The inductive invariant: the safety properties above and what they rest on *)

\* Nothing runs, downloads or restarts before a launch has chosen a bundle.
QuietUntilRunning ==
  phase # "running" => running = Embedded /\ download = NoDownload /\ restarting = "no"

\* What a commit has moved into place is complete until it is recorded.
RenamedIsWhole == download.step = "renamed" => bundleDir[download.bundle] = "complete"

FilesKept == SlotsBacked /\ RunningKeepsFiles /\ AssembledStaysWhole /\ RenamedIsWhole

\* A restart that is under way has something to apply, or restarts a bundle off trial.
RestartApplies == restarting # "no" => slots["pending"] # NoSlot \/ ~trial

TrialKept == ReloadNeverMasksCrash /\ RestartApplies /\ TrialIsCharged

\* The current slot is the running bundle, or what a rollback of this process went back to.
RunsCurrent ==
  phase = "running" /\ running # Embedded =>
    \/ slots["current"] # NoSlot /\ slots["current"].bundle = running
    \/ slots["current"] = slots["lastKnownGood"]

\* The gates a download passed still hold while it lasts.
DownloadAllowed ==
  download # NoDownload =>
    download.bundle \notin disabledBundles /\ binary \in Targets[download.bundle]

SlotsTargeted ==
  \A k \in SlotName : slots[k] # NoSlot => slots[k].binary \in Targets[slots[k].bundle]

\* Between dropping the incompatible slots and choosing one, all fit the installed binary.
LaunchesWithCompatible ==
  phase \in {"loaded", "marksRead", "swept"} =>
    \A k \in SlotName : slots[k] # NoSlot => slots[k].binary = binary

GatesKept == RunsCurrent /\ DownloadAllowed /\ SlotsTargeted /\ LaunchesWithCompatible

StoreInv == QuietUntilRunning /\ FilesKept /\ TrialKept /\ GatesKept

-----------------------------------------------------------------------------
(* What the store promises, seen from outside: UpdateLifecycle over the slots alone. *)

BundleOf(s) == IF s = NoSlot THEN Embedded ELSE s.bundle

Lifecycle == INSTANCE UpdateLifecycle WITH
  current <- BundleOf(slots["current"]),
  lastKnownGood <- BundleOf(slots["lastKnownGood"]),
  staged <- BundleOf(slots["staged"]),
  pending <- BundleOf(slots["pending"]),
  onTrial <- trial,
  disabled <- disabledBundles,
  live <- IF phase = "running" THEN running ELSE NoSlot,
  NoProcess <- NoSlot

\* The store implements the update lifecycle: launches in four steps, kills between any two of
\* them, sweeps and half-made commits look like the atomic steps of UpdateLifecycle.
ImplementsLifecycle == Lifecycle!Spec
=============================================================================
