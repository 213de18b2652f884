------------------------- MODULE DashOtaStoreProofs -------------------------
(************************************************************************)
(* The safety properties of DashOtaStore, that it implements            *)
(* UpdateLifecycle, and the crash-loop breaker against the history of   *)
(* how processes really ended (CrashLoop), proved for every set of      *)
(* bundles and binaries, every limit of boot attempts and every choice  *)
(* of what may fail.                                                    *)
(************************************************************************)
EXTENDS CrashLoop, TLAPS

-----------------------------------------------------------------------------
(* Types *)

\* The refund of a boot attempt never leaves the range of the counter.
LEMMA ChargedBound ==
  ASSUME TypeOK
  PROVE  Charged \in 0..bootAttempts
BY AttemptsAssumption DEF TypeOK, Charged

\* The values launches and JS calls reset the counter to.
LEMMA AttemptsResets == 0 \in 0..MaxBootAttempts /\ 1 \in 0..MaxBootAttempts
BY AttemptsAssumption

\* Dropping incompatible slots leaves slots.
LEMMA CompatibleSlotsType ==
  ASSUME TypeOK
  PROVE  CompatibleSlots \in [SlotName -> SlotOrNone]
BY DEF TypeOK, CompatibleSlots, SlotOrNone

\* What a launch runs is a bundle or the embedded one.
LEMMA LoadableType ==
  ASSUME NEW s \in SlotOrNone
  PROVE  Loadable(s) \in BundleOrEmbedded
BY DEF Loadable, SlotOrNone, Slot, BundleOrEmbedded

\* The store's variables have their types at the start.
LEMMA TypeInit == Init => TypeOK
BY AttemptsResets
   DEF Init, TypeOK, SlotOrNone, BundleOrEmbedded, DirState, NoDownload, Phases

\* Every step of the store keeps every variable in its type.
LEMMA TypeStep == TypeOK /\ [Next]_vars => TypeOK'
<1> SUFFICES ASSUME TypeOK, [Next]_vars PROVE TypeOK'
  OBVIOUS
<1> USE AttemptsResets
<1>1. CASE LaunchLoad
  BY <1>1, CompatibleSlotsType
     DEF LaunchLoad, TypeOK, Phases, dirVars
<1>2. CASE LaunchReadMarks
  BY <1>2 DEF LaunchReadMarks, TypeOK, Phases, stateVars, dirVars
<1>3. CASE LaunchSweep
  BY <1>3 DEF LaunchSweep, TypeOK, Phases, DirState, stateVars
<1>4. CASE ApplyPending
  <2>1. slots["pending"] \in Slot
    BY <1>4 DEF ApplyPending, TypeOK, SlotName, SlotOrNone
  <2>2. slots' \in [SlotName -> SlotOrNone]
    BY <1>4, <2>1 DEF ApplyPending, TypeOK, SlotName, SlotOrNone
  <2>3. running' \in BundleOrEmbedded
    BY <1>4, <2>1, LoadableType DEF ApplyPending, Run, SlotOrNone
  <2> QED
    BY <1>4, <2>1, <2>2, <2>3
       DEF ApplyPending, Run, TypeOK, Phases, Slot, BundleOrEmbedded, dirVars
<1>5. CASE LaunchEmbedded
  <2>1. running' \in BundleOrEmbedded
    BY <1>5, LoadableType DEF LaunchEmbedded, Run, SlotOrNone
  <2> QED
    BY <1>5, <2>1 DEF LaunchEmbedded, Run, TypeOK, Phases, dirVars
<1>6. CASE LaunchHealthy
  <2>1. running' \in BundleOrEmbedded
    BY <1>6, LoadableType DEF LaunchHealthy, Run, TypeOK, SlotName
  <2> QED
    BY <1>6, <2>1 DEF LaunchHealthy, Run, TypeOK, Phases, dirVars
<1>7. CASE ContinueTrial
  <2>1. running' \in BundleOrEmbedded
    BY <1>7, LoadableType DEF ContinueTrial, Run, TypeOK, SlotName
  <2>2. bootAttempts' \in 0..MaxBootAttempts
    BY <1>7, ChargedBound, AttemptsAssumption DEF ContinueTrial, TypeOK
  <2> QED
    BY <1>7, <2>1, <2>2 DEF ContinueTrial, Run, TypeOK, Phases, dirVars
<1>8. CASE TripBreaker
  <2>1. slots["current"] \in Slot
    BY <1>8 DEF TripBreaker, TypeOK, SlotName, SlotOrNone
  <2>2. slots' \in [SlotName -> SlotOrNone]
    BY <1>8 DEF TripBreaker, TypeOK, SlotName, SlotOrNone
  <2>3. running' \in BundleOrEmbedded
    BY <1>8, LoadableType DEF TripBreaker, Run, TypeOK, SlotName
  <2> QED
    BY <1>8, <2>1, <2>2, <2>3
       DEF TripBreaker, Run, TypeOK, Phases, Slot, BundleOrEmbedded, dirVars
<1>9. CASE LaunchFails
  BY <1>9 DEF LaunchFails, TypeOK, Phases, BundleOrEmbedded, stateVars, dirVars
<1>10. CASE JsReady \/ Pause \/ Resume
  BY <1>10 DEF JsReady, Pause, Resume, TypeOK, Phases, stateVars, dirVars
<1>11. CASE JsCalls
  BY <1>11
     DEF JsCalls, MarkHealthy, Rollback, PromoteStagedToPending, ConsumeFailedReport,
         ConsumeAppliedReport, ArmRestart, MarkUserReload, TypeOK, SlotName, SlotOrNone,
         BundleOrEmbedded, stateVars, dirVars, processVars
<1>12. CASE Downloads
  <2>1. CASE \E b \in Bundles : DownloadStart(b)
    BY <1>12, <2>1
       DEF DownloadStart, TypeOK, DownloadSteps, DirState, stateVars, processVars
  <2>2. CASE DownloadFails \/ CommitRecordFails
    BY <2>2 DEF DownloadFails, CommitRecordFails, TypeOK, stateVars, dirVars, processVars
  <2>3. CASE DownloadDone \/ CommitDeletes \/ CommitDeleted
    BY <2>3
       DEF DownloadDone, CommitDeletes, CommitDeleted, MayCommit, TypeOK, DownloadSteps,
           NoDownload, DirState, stateVars, processVars
  <2>4. CASE CommitRenames
    BY <2>4
       DEF CommitRenames, MayCommit, TypeOK, DownloadSteps, NoDownload, DirState, stateVars,
           processVars
  <2>5. CASE CommitRecords
    BY <2>5
       DEF CommitRecords, TypeOK, DownloadSteps, NoDownload, SlotName, SlotOrNone, Slot, dirVars,
           processVars
  <2> QED
    BY <1>12, <2>1, <2>2, <2>3, <2>4, <2>5 DEF Downloads, Commit
<1>13. CASE Exits
  <2>1. Dies
    BY <1>13 DEF Exits, Crash, UserCloses, DiesWritingMarks, Relaunch
  <2>2. marks' \in {marks, {}}
    BY <1>13 DEF Exits, Crash, UserCloses, DiesWritingMarks, Relaunch
  <2>3. torn' \in SUBSET Bundles
    BY <2>1 DEF Dies, TypeOK, NoDownload
  <2> QED
    BY <2>1, <2>2, <2>3 DEF Dies, TypeOK, Phases, BundleOrEmbedded, stateVars
<1>14. CASE Environment
  BY <1>14
     DEF Environment, InstallBinary, LoseState, TypeOK, SlotOrNone, BundleOrEmbedded,
         stateVars, dirVars, processVars
<1>15. CASE UNCHANGED vars
  BY <1>15 DEF vars, stateVars, dirVars, processVars, TypeOK
<1> QED
  BY <1>1, <1>2, <1>3, <1>4, <1>5, <1>6, <1>7, <1>8, <1>9, <1>10, <1>11, <1>12, <1>13,
     <1>14, <1>15
     DEF Next, Launch, LaunchDecide

\* Type correctness: the variables of the store always have the types the code gives them; in
\* particular the boot counter never passes MAX_BOOT_ATTEMPTS.
THEOREM TypeCorrect == Spec => []TypeOK
BY TypeInit, TypeStep, PTL DEF Spec

-----------------------------------------------------------------------------
(* Files *)

\* Nothing runs, downloads or restarts before a launch has chosen a bundle.
LEMMA QuietStep == TypeOK /\ QuietUntilRunning /\ [Next]_vars => QuietUntilRunning'
<1> SUFFICES ASSUME TypeOK, QuietUntilRunning, [Next]_vars PROVE QuietUntilRunning'
  OBVIOUS
<1>1. CASE phase' = "running"
  BY <1>1 DEF QuietUntilRunning
<1>2. CASE LaunchLoad \/ LaunchReadMarks \/ LaunchSweep
  BY <1>2 DEF LaunchLoad, LaunchReadMarks, LaunchSweep, QuietUntilRunning
<1>3. CASE LaunchDecide \/ LaunchFails
  BY <1>1, <1>3
     DEF LaunchDecide, ApplyPending, LaunchEmbedded, LaunchHealthy, ContinueTrial, TripBreaker,
         Run, LaunchFails
<1>4. CASE JsReady \/ Pause \/ Resume \/ JsCalls
  BY <1>1, <1>4
     DEF JsReady, Pause, Resume, JsCalls, MarkHealthy, Rollback, PromoteStagedToPending,
         ConsumeFailedReport, ConsumeAppliedReport, ArmRestart, MarkUserReload, InJs, processVars
<1>5. CASE Downloads
  <2>1. UNCHANGED phase
    BY <1>5
       DEF Downloads, DownloadStart, DownloadFails, DownloadDone, Commit, CommitDeletes,
           CommitDeleted, CommitRenames, CommitRecords, CommitRecordFails, processVars
  <2>2. phase = "running"
    BY <1>5
       DEF Downloads, DownloadStart, DownloadFails, DownloadDone, Commit, CommitDeletes,
           CommitDeleted, CommitRenames, CommitRecords, CommitRecordFails, MayCommit, InJs,
           QuietUntilRunning, NoDownload
  <2> QED
    BY <1>1, <2>1, <2>2
<1>6. CASE Exits
  BY <1>6 DEF Exits, Crash, UserCloses, DiesWritingMarks, Relaunch, Dies, QuietUntilRunning
<1>7. CASE Environment \/ UNCHANGED vars
  BY <1>7
     DEF Environment, InstallBinary, LoseState, vars, stateVars, dirVars, processVars,
         QuietUntilRunning
<1> QED
  BY <1>1, <1>2, <1>3, <1>4, <1>5, <1>6, <1>7 DEF Next, Launch

\* A launch only ever runs what a slot of state.json named when it began.
LEMMA DecisionKeepsSlots ==
  ASSUME TypeOK, LaunchDecide
  PROVE  /\ \A k \in SlotName : slots'[k] # NoSlot => \E j \in SlotName : slots'[k] = slots[j]
         /\ running' # Embedded =>
              \E j \in SlotName : slots[j] # NoSlot /\ slots[j].bundle = running'
         /\ running' # Embedded => slots'["current"] # NoSlot /\ slots'["current"].bundle = running'
         /\ phase = "swept" /\ phase' = "running" /\ userReload' = FALSE
         /\ UNCHANGED <<binary, marks, bundleDir, stagingDir, torn, jsUp, foreground, restarting,
                        download>>
<1>1. CASE ApplyPending
  BY <1>1 DEF ApplyPending, Run, Loadable, TypeOK, SlotName, dirVars
<1>2. CASE LaunchEmbedded
  BY <1>2 DEF LaunchEmbedded, Run, Loadable, TypeOK, SlotName, dirVars
<1>3. CASE LaunchHealthy
  BY <1>3 DEF LaunchHealthy, Run, Loadable, TypeOK, SlotName, dirVars
<1>4. CASE ContinueTrial
  BY <1>4 DEF ContinueTrial, Run, Loadable, TypeOK, SlotName, dirVars
<1>5. CASE TripBreaker
  BY <1>5 DEF TripBreaker, Run, Loadable, TypeOK, SlotName, dirVars
<1> QED
  BY <1>1, <1>2, <1>3, <1>4, <1>5 DEF LaunchDecide

\* Calls of the running JavaScript only move slots around, and leave every directory alone.
LEMMA JsCallsMoveSlots ==
  ASSUME TypeOK, JsReady \/ Pause \/ Resume \/ JsCalls
  PROVE  /\ \A k \in SlotName : slots'[k] # NoSlot => \E j \in SlotName : slots'[k] = slots[j]
         /\ phase = "running"
         /\ UNCHANGED <<binary, bundleDir, stagingDir, torn, phase, running, download,
                        disabledBundles>>
<1>1. CASE JsReady \/ Pause \/ Resume
  BY <1>1 DEF JsReady, Pause, Resume, stateVars, dirVars, SlotName
<1>2. CASE MarkHealthy
  BY <1>2 DEF MarkHealthy, InJs, TypeOK, SlotName, dirVars, processVars
<1>3. CASE Rollback
  BY <1>3 DEF Rollback, InJs, TypeOK, SlotName, dirVars, processVars
<1>4. CASE PromoteStagedToPending
  BY <1>4 DEF PromoteStagedToPending, InJs, TypeOK, SlotName, dirVars, processVars
<1>5. CASE ConsumeFailedReport \/ ConsumeAppliedReport \/ ArmRestart \/ MarkUserReload
  BY <1>5
     DEF ConsumeFailedReport, ConsumeAppliedReport, ArmRestart, MarkUserReload, InJs, stateVars,
         dirVars, processVars
<1> QED
  BY <1>1, <1>2, <1>3, <1>4, <1>5 DEF JsCalls

\* Every step keeps the files of every slot, of the running bundle and of a download at its
\* commit.  A launch must not sweep what a slot names, and no step but the commit of the same
\* bundle may touch a directory while a process runs.
LEMMA FilesStep ==
  TypeOK /\ TypeOK' /\ QuietUntilRunning /\ FilesKept /\ [Next]_vars => FilesKept'
<1> SUFFICES ASSUME TypeOK, TypeOK', QuietUntilRunning, FilesKept, [Next]_vars
             PROVE  FilesKept'
  OBVIOUS
<1> USE DEF FilesKept, SlotsBacked, RunningKeepsFiles, AssembledStaysWhole, RenamedIsWhole,
            Replacing
<1>1. CASE LaunchLoad
  BY <1>1, SentinelAssumption
     DEF LaunchLoad, CompatibleSlots, QuietUntilRunning, NoDownload, dirVars
<1>2. CASE LaunchReadMarks
  BY <1>2 DEF LaunchReadMarks, QuietUntilRunning, NoDownload, stateVars, dirVars
<1>3. CASE LaunchSweep
  <2>1. \A k \in SlotName : slots[k] # NoSlot =>
          slots[k].bundle \in Bundles /\ slots[k].bundle \in Referenced
    BY DEF TypeOK, SlotOrNone, Slot, Referenced
  <2> QED
    BY <1>3, <2>1 DEF LaunchSweep, QuietUntilRunning, NoDownload, stateVars
<1>4. CASE LaunchDecide
  BY <1>4, DecisionKeepsSlots DEF QuietUntilRunning, NoDownload
<1>5. CASE LaunchFails
  BY <1>5 DEF LaunchFails, QuietUntilRunning, NoDownload, stateVars, dirVars
<1>6. CASE JsReady \/ Pause \/ Resume \/ JsCalls
  BY <1>6, JsCallsMoveSlots
<1>7. CASE Downloads
  <2>1. CASE \E b \in Bundles : DownloadStart(b)
    BY <2>1 DEF DownloadStart, stateVars, processVars
  <2>2. CASE DownloadFails \/ CommitRecordFails
    BY <2>2 DEF DownloadFails, CommitRecordFails, NoDownload, stateVars, dirVars, processVars
  <2>3. CASE DownloadDone
    BY <2>3, SentinelAssumption
       DEF DownloadDone, TypeOK, NoDownload, stateVars, processVars
  <2>4. CASE CommitDeletes \/ CommitDeleted
    <3>1. download.bundle \in Bundles /\ download'.bundle = download.bundle
      BY <2>4 DEF CommitDeletes, CommitDeleted, MayCommit, TypeOK, NoDownload
    <3>2. download'.step \in {"deleting", "deleted"} /\ download.step \in {"assembled", "deleting"}
      BY <2>4 DEF CommitDeletes, CommitDeleted, MayCommit, TypeOK, NoDownload
    <3>3. \A b \in Bundles : b # download.bundle => bundleDir'[b] = bundleDir[b]
      BY <2>4 DEF CommitDeletes, CommitDeleted, TypeOK
    <3>4. \A k \in SlotName : slots[k] # NoSlot => slots[k].bundle \in Bundles
      BY DEF TypeOK, SlotOrNone, Slot
    <3>5. UNCHANGED <<slots, stagingDir, torn, phase, running>>
      BY <2>4 DEF CommitDeletes, CommitDeleted, stateVars, processVars
    <3> QED
      BY <3>1, <3>2, <3>3, <3>4, <3>5 DEF TypeOK, BundleOrEmbedded
  <2>5. CASE CommitRenames
    BY <2>5 DEF CommitRenames, MayCommit, TypeOK, NoDownload, stateVars, processVars
  <2>6. CASE CommitRecords
    <3>1. \A k \in SlotName : slots'[k] = slots[k] \/ slots'[k].bundle = download.bundle
      BY <2>6 DEF CommitRecords, TypeOK, SlotName
    <3> QED
      BY <2>6, <3>1 DEF CommitRecords, NoDownload, dirVars, processVars
  <2> QED
    BY <1>7, <2>1, <2>2, <2>3, <2>4, <2>5, <2>6 DEF Downloads, Commit
<1>8. CASE Exits
  <2>1. Dies
    BY <1>8 DEF Exits, Crash, UserCloses, DiesWritingMarks, Relaunch
  <2> QED
    BY <2>1 DEF Dies, NoDownload, stateVars
<1>9. CASE Environment
  BY <1>9 DEF Environment, InstallBinary, LoseState, stateVars, dirVars, processVars
<1>10. CASE UNCHANGED vars
  BY <1>10 DEF vars, stateVars, dirVars, processVars
<1> QED
  BY <1>1, <1>2, <1>3, <1>4, <1>5, <1>6, <1>7, <1>8, <1>9, <1>10 DEF Next, Launch

-----------------------------------------------------------------------------
(* Trials *)

\* Every step keeps the accounts of a trial: what is running on trial has been charged, and
\* neither a restart under way nor the marker it leaves lets a trial launch go uncharged.
LEMMA TrialStep ==
  TypeOK /\ QuietUntilRunning /\ TrialKept /\ [Next]_vars => TrialKept'
<1> SUFFICES ASSUME TypeOK, QuietUntilRunning, TrialKept, [Next]_vars PROVE TrialKept'
  OBVIOUS
<1> USE DEF TrialKept, ReloadNeverMasksCrash, RestartApplies, TrialIsCharged
<1>1. CASE LaunchLoad
  <2>1. (slots' = slots /\ trial' = trial) \/ ~trial'
    BY <1>1 DEF LaunchLoad
  <2> QED
    BY <1>1, <2>1 DEF LaunchLoad, QuietUntilRunning
<1>2. CASE LaunchReadMarks \/ LaunchSweep
  BY <1>2 DEF LaunchReadMarks, LaunchSweep, stateVars
<1>3. CASE ApplyPending
  BY <1>3 DEF ApplyPending, Run, QuietUntilRunning
<1>4. CASE LaunchEmbedded \/ LaunchHealthy
  <2>1. running' = Embedded \/ ~trial'
    BY <1>4 DEF LaunchEmbedded, LaunchHealthy, Run, Loadable
  <2> QED
    BY <1>4, <2>1 DEF LaunchEmbedded, LaunchHealthy, Run, QuietUntilRunning
<1>5. CASE ContinueTrial
  <2>1. ~userReload
    BY <1>5 DEF ContinueTrial
  <2>2. bootAttempts' >= 1
    BY <1>5, <2>1, ChargedBound DEF ContinueTrial, TypeOK
  <2> QED
    BY <1>5, <2>2 DEF ContinueTrial, Run, QuietUntilRunning
<1>6. CASE TripBreaker
  <2>1. CASE slots["lastKnownGood"] = NoSlot
    BY <1>6, <2>1 DEF TripBreaker, Run, QuietUntilRunning
  <2>2. CASE slots["lastKnownGood"] # NoSlot
    BY <1>6, <2>2 DEF TripBreaker, Run, QuietUntilRunning
  <2> QED
    BY <2>1, <2>2
<1>7. CASE LaunchFails
  BY <1>7 DEF LaunchFails, stateVars
<1>8. CASE JsReady \/ Pause \/ Resume
  BY <1>8 DEF JsReady, Pause, Resume, stateVars
<1>9. CASE MarkHealthy \/ Rollback
  BY <1>9 DEF MarkHealthy, Rollback, processVars
<1>10. CASE PromoteStagedToPending
  BY <1>10 DEF PromoteStagedToPending, TypeOK, SlotName, processVars
<1>11. CASE ConsumeFailedReport \/ ConsumeAppliedReport \/ ArmRestart \/ MarkUserReload
  BY <1>11
     DEF ConsumeFailedReport, ConsumeAppliedReport, ArmRestart, MarkUserReload, stateVars,
         processVars
<1>12. CASE Downloads
  <2>1. slots'["pending"] = slots["pending"]
    BY <1>12
       DEF Downloads, DownloadStart, DownloadFails, DownloadDone, Commit, CommitDeletes,
           CommitDeleted, CommitRenames, CommitRecords, CommitRecordFails, TypeOK, SlotName,
           stateVars
  <2>2. UNCHANGED <<trial, bootAttempts, userReload, phase, running, restarting>>
    BY <1>12
       DEF Downloads, DownloadStart, DownloadFails, DownloadDone, Commit, CommitDeletes,
           CommitDeleted, CommitRenames, CommitRecords, CommitRecordFails, stateVars, processVars
  <2> QED
    BY <2>1, <2>2
<1>13. CASE Exits
  BY <1>13 DEF Exits, Crash, UserCloses, DiesWritingMarks, Relaunch, Dies, stateVars
<1>14. CASE Environment \/ UNCHANGED vars
  BY <1>14
     DEF Environment, InstallBinary, LoseState, vars, stateVars, processVars, QuietUntilRunning
<1> QED
  BY <1>1, <1>2, <1>3, <1>4, <1>5, <1>6, <1>7, <1>8, <1>9, <1>10, <1>11, <1>12, <1>13, <1>14
     DEF Next, Launch, LaunchDecide, JsCalls

-----------------------------------------------------------------------------
(* Gates *)

\* Every step keeps the gates closed behind what passed them: the current slot is the bundle
\* that runs, downloads and slots fit their binary, and no download is of a disabled bundle.
LEMMA GatesStep ==
  TypeOK /\ QuietUntilRunning /\ GatesKept /\ [Next]_vars => GatesKept'
<1> SUFFICES ASSUME TypeOK, QuietUntilRunning, GatesKept, [Next]_vars PROVE GatesKept'
  OBVIOUS
<1> USE DEF GatesKept, RunsCurrent, DownloadAllowed, SlotsTargeted, LaunchesWithCompatible
<1>1. CASE LaunchLoad
  BY <1>1 DEF LaunchLoad, CompatibleSlots, Compatible, QuietUntilRunning
<1>2. CASE LaunchReadMarks \/ LaunchSweep
  BY <1>2 DEF LaunchReadMarks, LaunchSweep, QuietUntilRunning, stateVars
<1>3. CASE LaunchDecide
  BY <1>3, DecisionKeepsSlots DEF QuietUntilRunning
<1>4. CASE LaunchFails
  BY <1>4 DEF LaunchFails, QuietUntilRunning, stateVars
<1>5. CASE JsReady \/ Pause \/ Resume \/ JsCalls
  <2>1. RunsCurrent'
    <3>1. CASE MarkHealthy \/ Rollback
      BY <3>1 DEF MarkHealthy, Rollback, TypeOK, SlotName
    <3>2. CASE PromoteStagedToPending
      BY <3>2 DEF PromoteStagedToPending, TypeOK, SlotName, processVars
    <3>3. CASE UNCHANGED <<slots, phase, running>>
      BY <3>3
    <3> QED
      BY <1>5, <3>1, <3>2, <3>3
         DEF JsReady, Pause, Resume, JsCalls, ConsumeFailedReport, ConsumeAppliedReport,
             ArmRestart, MarkUserReload, stateVars, processVars
  <2> QED
    BY <1>5, <2>1, JsCallsMoveSlots
<1>6. CASE Downloads
  <2>1. phase = "running" /\ UNCHANGED <<phase, binary, running, disabledBundles>>
    BY <1>6
       DEF Downloads, DownloadStart, DownloadFails, DownloadDone, Commit, CommitDeletes,
           CommitDeleted, CommitRenames, CommitRecords, CommitRecordFails, MayCommit, InJs,
           QuietUntilRunning, NoDownload, stateVars, processVars
  <2>2. CASE \E b \in Bundles : DownloadStart(b)
    BY <2>1, <2>2 DEF DownloadStart, MayDownload, stateVars
  <2>3. CASE DownloadFails \/ CommitRecordFails
    BY <2>1, <2>3 DEF DownloadFails, CommitRecordFails, stateVars
  <2>4. CASE DownloadDone \/ CommitDeletes \/ CommitDeleted \/ CommitRenames
    <3>1. download # NoDownload /\ download'.bundle = download.bundle /\ UNCHANGED slots
      BY <2>4
         DEF DownloadDone, CommitDeletes, CommitDeleted, CommitRenames, MayCommit, TypeOK,
             NoDownload, stateVars
    <3> QED
      BY <2>1, <3>1
  <2>5. CASE CommitRecords
    <3>1. download # NoDownload /\ download' = NoDownload
      BY <2>5 DEF CommitRecords, NoDownload
    <3>2. \A k \in SlotName :
            slots'[k] = slots[k] \/ slots'[k] = [bundle |-> download.bundle, binary |-> binary]
      BY <2>5 DEF CommitRecords, TypeOK
    <3>3. /\ slots'["current"] = slots["current"]
          /\ slots'["lastKnownGood"] = slots["lastKnownGood"]
      BY <2>5 DEF CommitRecords, TypeOK, SlotName
    <3> QED
      BY <2>1, <3>1, <3>2, <3>3
  <2> QED
    BY <1>6, <2>2, <2>3, <2>4, <2>5 DEF Downloads, Commit
<1>7. CASE Exits
  BY <1>7 DEF Exits, Crash, UserCloses, DiesWritingMarks, Relaunch, Dies, stateVars
<1>8. CASE Environment
  BY <1>8
     DEF Environment, InstallBinary, LoseState, stateVars, processVars, QuietUntilRunning
<1>9. CASE UNCHANGED vars
  BY <1>9 DEF vars, stateVars, processVars
<1> QED
  BY <1>1, <1>2, <1>3, <1>4, <1>5, <1>6, <1>7, <1>8, <1>9 DEF Next, Launch

-----------------------------------------------------------------------------
(* The theorems *)

\* The parts of the invariant hold of a device that has never run an update.
LEMMA StoreInvInit == Init => StoreInv
BY SentinelAssumption
   DEF Init, StoreInv, QuietUntilRunning, FilesKept, SlotsBacked, RunningKeepsFiles,
       AssembledStaysWhole, RenamedIsWhole, TrialKept, ReloadNeverMasksCrash, RestartApplies,
       TrialIsCharged, GatesKept, RunsCurrent, DownloadAllowed, SlotsTargeted,
       LaunchesWithCompatible, NoDownload

\* Every step keeps all parts of the invariant.
LEMMA StoreInvStep == TypeOK /\ TypeOK' /\ StoreInv /\ [Next]_vars => StoreInv'
BY QuietStep, FilesStep, TrialStep, GatesStep DEF StoreInv

\* The inductive invariant of the store: the parts hold together in every reachable state.
THEOREM StoreInvariant == Spec => [](TypeOK /\ StoreInv)
BY TypeInit, TypeStep, StoreInvInit, StoreInvStep, PTL DEF Spec

\* Whatever is swept, committed, promoted, rolled back or killed, every slot that state.json
\* names has its files, unless a commit of the same bundle was cut short.
THEOREM SlotsAlwaysBacked == Spec => []SlotsBacked
<1>1. StoreInv => SlotsBacked
  BY DEF StoreInv, FilesKept
<1> QED
  BY <1>1, StoreInvariant, PTL

\* The files of the bundle that runs outlive every call its JavaScript can make.
THEOREM RunningAlwaysKeepsFiles == Spec => []RunningKeepsFiles
<1>1. StoreInv => RunningKeepsFiles
  BY DEF StoreInv, FilesKept
<1> QED
  BY <1>1, StoreInvariant, PTL

\* What a download has assembled is whole when commitStaged counts it.
THEOREM AssembledAlwaysWhole == Spec => []AssembledStaysWhole
<1>1. StoreInv => AssembledStaysWhole
  BY DEF StoreInv, FilesKept
<1> QED
  BY <1>1, StoreInvariant, PTL

\* The userReload marker never spares a trial launch its charge.
THEOREM ReloadsNeverMaskCrashes == Spec => []ReloadNeverMasksCrash
<1>1. StoreInv => ReloadNeverMasksCrash
  BY DEF StoreInv, TrialKept
<1> QED
  BY <1>1, StoreInvariant, PTL

\* A bundle on trial never runs a launch that was not charged.
THEOREM TrialsAlwaysCharged == Spec => []TrialIsCharged
<1>1. StoreInv => TrialIsCharged
  BY DEF StoreInv, TrialKept
<1> QED
  BY <1>1, StoreInvariant, PTL

-----------------------------------------------------------------------------
(* What no step may do *)

\* Between launches the last-known-good slot is only ever replaced by the current one.
LEMMA BlessingStep ==
  ASSUME TypeOK, [Next]_vars, phase = "running",
         slots'["lastKnownGood"] # slots["lastKnownGood"]
  PROVE  slots'["lastKnownGood"] = slots["current"]
<1>1. CASE Launch
  BY <1>1
     DEF Launch, LaunchLoad, LaunchReadMarks, LaunchSweep, LaunchDecide, ApplyPending,
         LaunchEmbedded, LaunchHealthy, ContinueTrial, TripBreaker, Run, LaunchFails, stateVars
<1>2. CASE JsReady \/ Pause \/ Resume
  BY <1>2 DEF JsReady, Pause, Resume, stateVars
<1>3. CASE JsCalls
  BY <1>3
     DEF JsCalls, MarkHealthy, Rollback, PromoteStagedToPending, ConsumeFailedReport,
         ConsumeAppliedReport, ArmRestart, MarkUserReload, TypeOK, SlotName, stateVars
<1>4. CASE Downloads
  BY <1>4
     DEF Downloads, DownloadStart, DownloadFails, DownloadDone, Commit, CommitDeletes,
         CommitDeleted, CommitRenames, CommitRecords, CommitRecordFails, TypeOK, SlotName,
         stateVars
<1>5. CASE Exits \/ Environment \/ UNCHANGED vars
  BY <1>5
     DEF Exits, Crash, UserCloses, DiesWritingMarks, Relaunch, Dies, Environment,
         InstallBinary, LoseState, vars, stateVars
<1> QED
  BY <1>1, <1>2, <1>3, <1>4, <1>5 DEF Next

\* While an OTA bundle runs, markHealthy never makes another bundle the last known good one.
THEOREM NeverBlessesAnother == Spec => BlessesNoOther
<1>1. TypeOK /\ StoreInv /\ [Next]_vars =>
        [phase = "running" /\ running # Embedded
           /\ slots'["lastKnownGood"] # slots["lastKnownGood"] =>
             slots'["lastKnownGood"].bundle = running]_vars
  BY BlessingStep DEF StoreInv, GatesKept, RunsCurrent
<1> QED
  BY <1>1, StoreInvariant, PTL DEF Spec, BlessesNoOther

\* A slot that appears in staged is the download that has just been committed.
LEMMA StagingStep ==
  ASSUME TypeOK, [Next]_vars, slots'["staged"] # slots["staged"], slots'["staged"] # NoSlot
  PROVE  CommitRecords
<1>1. CASE LaunchLoad
  BY <1>1 DEF LaunchLoad, CompatibleSlots, TypeOK, SlotName
<1>2. CASE LaunchReadMarks \/ LaunchSweep \/ LaunchDecide \/ LaunchFails
  BY <1>2
     DEF LaunchReadMarks, LaunchSweep, LaunchDecide, ApplyPending, LaunchEmbedded,
         LaunchHealthy, ContinueTrial, TripBreaker, LaunchFails, TypeOK, SlotName, stateVars
<1>3. CASE JsReady \/ Pause \/ Resume
  BY <1>3 DEF JsReady, Pause, Resume, stateVars
<1>4. CASE JsCalls
  BY <1>4
     DEF JsCalls, MarkHealthy, Rollback, PromoteStagedToPending, ConsumeFailedReport,
         ConsumeAppliedReport, ArmRestart, MarkUserReload, TypeOK, SlotName, stateVars
<1>5. CASE Downloads
  BY <1>5
     DEF Downloads, DownloadStart, DownloadFails, DownloadDone, Commit, CommitDeletes,
         CommitDeleted, CommitRenames, CommitRecordFails, stateVars
<1>6. CASE Exits \/ Environment \/ UNCHANGED vars
  BY <1>6
     DEF Exits, Crash, UserCloses, DiesWritingMarks, Relaunch, Dies, Environment,
         InstallBinary, LoseState, SlotName, vars, stateVars
<1> QED
  BY <1>1, <1>2, <1>3, <1>4, <1>5, <1>6 DEF Next, Launch

\* No commit ever records a bundle this device has disabled.
THEOREM DisabledNeverDownloaded == Spec => DisabledNotDownloaded
<1>1. TypeOK /\ StoreInv /\ [Next]_vars =>
        [\A b \in disabledBundles :
           slots'["staged"] # slots["staged"] /\ slots'["staged"] # NoSlot =>
             slots'["staged"].bundle # b]_vars
  <2> SUFFICES ASSUME TypeOK, StoreInv, [Next]_vars,
                      NEW b \in disabledBundles,
                      slots'["staged"] # slots["staged"], slots'["staged"] # NoSlot
               PROVE  slots'["staged"].bundle # b
    OBVIOUS
  <2>1. CommitRecords
    BY StagingStep
  <2>2. slots'["staged"].bundle = download.bundle /\ download # NoDownload
    BY <2>1 DEF CommitRecords, TypeOK, SlotName, NoDownload
  <2> QED
    BY <2>2 DEF StoreInv, GatesKept, DownloadAllowed
<1> QED
  BY <1>1, StoreInvariant, PTL DEF Spec, DisabledNotDownloaded

\* Only the decision of a launch starts a process on a downloaded bundle.
LEMMA StartingStep ==
  ASSUME [Next]_vars, phase # "running", phase' = "running", running' # Embedded
  PROVE  LaunchDecide
<1>1. CASE Launch
  BY <1>1 DEF Launch, LaunchLoad, LaunchReadMarks, LaunchSweep, LaunchFails
<1>2. CASE JsReady \/ Pause \/ Resume \/ JsCalls
  BY <1>2
     DEF JsReady, Pause, Resume, JsCalls, MarkHealthy, Rollback, PromoteStagedToPending,
         ConsumeFailedReport, ConsumeAppliedReport, ArmRestart, MarkUserReload, InJs
<1>3. CASE Downloads
  BY <1>3
     DEF Downloads, DownloadStart, DownloadFails, DownloadDone, Commit, CommitDeletes,
         CommitDeleted, CommitRenames, CommitRecords, CommitRecordFails, processVars
<1>4. CASE Exits \/ Environment \/ UNCHANGED vars
  BY <1>4
     DEF Exits, Crash, UserCloses, DiesWritingMarks, Relaunch, Dies, Environment,
         InstallBinary, LoseState, vars, processVars
<1> QED
  BY <1>1, <1>2, <1>3, <1>4 DEF Next

\* No launch runs a bundle over a binary it was not committed against, or does not target.
THEOREM LaunchesAlwaysCompatible == Spec => LaunchesCompatible
<1>1. TypeOK /\ TypeOK' /\ StoreInv /\ [Next]_vars =>
        [phase # "running" /\ phase' = "running" /\ running' # Embedded =>
           /\ slots'["current"] = [bundle |-> running', binary |-> binary]
           /\ binary \in Targets[running']]_vars
  <2> SUFFICES ASSUME TypeOK, TypeOK', StoreInv, [Next]_vars,
                      phase # "running", phase' = "running", running' # Embedded
               PROVE  /\ slots'["current"] = [bundle |-> running', binary |-> binary]
                      /\ binary \in Targets[running']
    OBVIOUS
  <2>1. LaunchDecide
    BY StartingStep
  <2>2. slots'["current"] # NoSlot /\ slots'["current"].bundle = running' /\ phase = "swept"
    BY <2>1, DecisionKeepsSlots
  <2>3. PICK j \in SlotName : slots'["current"] = slots[j]
    BY <2>1, <2>2, DecisionKeepsSlots DEF SlotName
  <2>4. slots[j].binary = binary /\ slots[j].binary \in Targets[slots[j].bundle]
    BY <2>2, <2>3 DEF StoreInv, GatesKept, LaunchesWithCompatible, SlotsTargeted
  <2>5. slots'["current"] \in Slot
    BY <2>2 DEF TypeOK, SlotName, SlotOrNone
  <2> QED
    BY <2>2, <2>3, <2>4, <2>5 DEF Slot
<1> QED
  BY <1>1, StoreInvariant, PTL DEF Spec, LaunchesCompatible

-----------------------------------------------------------------------------
(* Refinement: each step of the store is a step of the lifecycle or leaves everything the   *)
(* lifecycle shows unchanged.                                                                *)

\* What the lifecycle shows of the slots stays the same.
SameSlots == UNCHANGED <<slots, trial, disabledBundles>>

\* A slot that names a bundle never looks like an empty one.
LEMMA SlotsShowBundles ==
  ASSUME TypeOK, NEW k \in SlotName
  PROVE  /\ slots[k] = NoSlot <=> BundleOf(slots[k]) = Embedded
         /\ slots[k] # NoSlot => BundleOf(slots[k]) = slots[k].bundle
BY SentinelAssumption DEF TypeOK, SlotOrNone, Slot, BundleOf

\* What a launch runs is the bundle of its slot, or the embedded one.
LEMMA LoadableShows ==
  ASSUME NEW s
  PROVE  Loadable(s) \in {BundleOf(s), Embedded}
BY DEF Loadable, BundleOf

\* A running process never looks like no process.
LEMMA RunningShows == TypeOK => running # NoSlot
BY SentinelAssumption DEF TypeOK, BundleOrEmbedded

\* The device starts without slots and without a process, as the lifecycle does.
LEMMA LifecycleInit == Init => Lifecycle!Init
BY DEF Init, Lifecycle!Init, BundleOf, SlotName

\* Dropping the slots of another binary looks like DropSlots, or like nothing.
LEMMA LoadShows ==
  ASSUME TypeOK, LaunchLoad
  PROVE  [Lifecycle!Next]_(Lifecycle!lifecycleVars)
<1>1. phase = "dead" /\ phase' = "loaded" /\ UNCHANGED <<disabledBundles, running>>
  BY DEF LaunchLoad
<1>2. CASE CompatibleSlots = slots
  BY <1>1, <1>2 DEF LaunchLoad, Lifecycle!lifecycleVars
<1>3. CASE CompatibleSlots # slots
  <2>1. \A k \in SlotName : BundleOf(slots'[k]) \in {BundleOf(slots[k]), Embedded}
    BY DEF LaunchLoad, CompatibleSlots, BundleOf
  <2>2. Lifecycle!DropSlots
    BY <1>1, <1>3, <2>1 DEF LaunchLoad, Lifecycle!DropSlots, SlotName
  <2> QED
    BY <2>2 DEF Lifecycle!Next
<1> QED
  BY <1>2, <1>3

\* Each decision of a launch looks like the lifecycle's decision of the same name.
LEMMA DecisionShows ==
  ASSUME TypeOK, LaunchDecide
  PROVE  Lifecycle!Next
<1>1. phase = "swept" /\ phase' = "running"
  BY DecisionKeepsSlots
<1>2. CASE ApplyPending
  <2>1. running' \in {BundleOf(slots["pending"]), Embedded}
    BY <1>2, LoadableShows DEF ApplyPending, Run
  <2>2. Lifecycle!Apply
    BY <1>1, <1>2, <2>1, SlotsShowBundles
       DEF ApplyPending, TypeOK, SlotName, BundleOf, Lifecycle!Apply, Lifecycle!StartsWith
  <2> QED
    BY <2>2 DEF Lifecycle!Next
<1>3. CASE LaunchEmbedded \/ LaunchHealthy \/ ContinueTrial
  <2>1. slots["pending"] = NoSlot /\ running' \in {BundleOf(slots["current"]), Embedded}
    BY <1>3, LoadableShows DEF LaunchEmbedded, LaunchHealthy, ContinueTrial, Run
  <2>2. SameSlots
    BY <1>3 DEF LaunchEmbedded, LaunchHealthy, ContinueTrial, SameSlots
  <2>3. Lifecycle!Continue
    BY <1>1, <2>1, <2>2 DEF SameSlots, BundleOf, Lifecycle!Continue, Lifecycle!StartsWith
  <2> QED
    BY <2>3 DEF Lifecycle!Next
<1>4. CASE TripBreaker
  <2>1. running' \in {BundleOf(slots["lastKnownGood"]), Embedded}
    BY <1>4, LoadableShows DEF TripBreaker, Run
  <2>2. Lifecycle!SwitchOff
    BY <1>1, <1>4, <2>1, SlotsShowBundles
       DEF TripBreaker, TypeOK, SlotName, BundleOf, Lifecycle!SwitchOff, Lifecycle!StartsWith
  <2> QED
    BY <2>2 DEF Lifecycle!Next
<1> QED
  BY <1>2, <1>3, <1>4 DEF LaunchDecide

\* The calls of JavaScript look like Bless, GoBack and Arm, or like nothing.
LEMMA JsCallsShow ==
  ASSUME TypeOK, JsReady \/ Pause \/ Resume \/ JsCalls
  PROVE  [Lifecycle!Next]_(Lifecycle!lifecycleVars)
<1>1. /\ phase = "running"
      /\ UNCHANGED <<phase, running, disabledBundles>>
      /\ running # NoSlot
  BY JsCallsMoveSlots, RunningShows
<1>2. CASE MarkHealthy
  <2>1. Lifecycle!Bless
    BY <1>1, <1>2, SlotsShowBundles
       DEF MarkHealthy, TypeOK, SlotName, BundleOf, Lifecycle!Bless
  <2> QED
    BY <2>1 DEF Lifecycle!Next
<1>3. CASE Rollback
  <2>1. Lifecycle!GoBack
    BY <1>1, <1>3 DEF Rollback, TypeOK, SlotName, BundleOf, Lifecycle!GoBack
  <2> QED
    BY <2>1 DEF Lifecycle!Next
<1>4. CASE PromoteStagedToPending
  <2>1. Lifecycle!Arm
    BY <1>1, <1>4, SlotsShowBundles
       DEF PromoteStagedToPending, TypeOK, SlotName, BundleOf, Lifecycle!Arm
  <2> QED
    BY <2>1 DEF Lifecycle!Next
<1>5. CASE SameSlots
  BY <1>1, <1>5 DEF SameSlots, Lifecycle!lifecycleVars
<1> QED
  BY <1>2, <1>3, <1>4, <1>5
     DEF JsReady, Pause, Resume, JsCalls, ConsumeFailedReport, ConsumeAppliedReport,
         ArmRestart, MarkUserReload, SameSlots, stateVars

\* Of a download the lifecycle sees only that a bundle it has not disabled is recorded.
LEMMA DownloadsShow ==
  ASSUME TypeOK, StoreInv, Downloads
  PROVE  [Lifecycle!Next]_(Lifecycle!lifecycleVars)
<1>1. UNCHANGED <<phase, running>>
  BY DEF Downloads, DownloadStart, DownloadFails, DownloadDone, Commit, CommitDeletes,
         CommitDeleted, CommitRenames, CommitRecords, CommitRecordFails, processVars
<1>2. CASE CommitRecords
  <2>1. download # NoDownload /\ download.bundle \in Bundles
    BY <1>2 DEF CommitRecords, TypeOK, NoDownload
  <2>2. phase = "running" /\ download.bundle \notin disabledBundles
    BY <2>1 DEF StoreInv, QuietUntilRunning, GatesKept, DownloadAllowed
  <2>3. BundleOf(slots'["staged"]) = download.bundle
    BY <1>2, <2>1, SentinelAssumption, TypeStep
       DEF CommitRecords, TypeOK, SlotName, BundleOf, Slot, DownloadSteps
  <2>4. Lifecycle!Stage(download.bundle)
    BY <1>1, <1>2, <2>2, <2>3, RunningShows
       DEF CommitRecords, TypeOK, SlotName, Lifecycle!Stage
  <2> QED
    BY <2>1, <2>4 DEF Lifecycle!Next
<1>3. CASE SameSlots
  BY <1>1, <1>3 DEF SameSlots, Lifecycle!lifecycleVars
<1> QED
  BY <1>2, <1>3
     DEF Downloads, DownloadStart, DownloadFails, DownloadDone, Commit, CommitDeletes,
         CommitDeleted, CommitRenames, CommitRecordFails, SameSlots, stateVars

\* The end of a process that had chosen its bundle looks like Stop; of one that had not, like
\* nothing.
LEMMA ExitsShow ==
  ASSUME TypeOK, Exits
  PROVE  [Lifecycle!Next]_(Lifecycle!lifecycleVars)
<1>1. Dies /\ SameSlots
  BY DEF Exits, Crash, UserCloses, DiesWritingMarks, Relaunch, Dies, SameSlots, stateVars
<1>2. CASE phase = "running"
  <2>1. Lifecycle!Stop
    BY <1>1, <1>2, RunningShows DEF Dies, SameSlots, Lifecycle!Stop
  <2> QED
    BY <2>1 DEF Lifecycle!Next
<1>3. CASE phase # "running"
  BY <1>1, <1>3 DEF Dies, SameSlots, Lifecycle!lifecycleVars
<1> QED
  BY <1>2, <1>3

\* Losing state.json looks like ForgetAll; another binary shows nothing yet.
LEMMA EnvironmentShows ==
  ASSUME Environment
  PROVE  [Lifecycle!Next]_(Lifecycle!lifecycleVars)
<1>1. CASE \E n \in Binaries : InstallBinary(n)
  BY <1>1 DEF InstallBinary, stateVars, processVars, Lifecycle!lifecycleVars
<1>2. CASE LoseState
  <2>1. Lifecycle!ForgetAll
    BY <1>2 DEF LoseState, SlotName, BundleOf, processVars, Lifecycle!ForgetAll
  <2> QED
    BY <2>1 DEF Lifecycle!Next
<1> QED
  BY <1>1, <1>2 DEF Environment

\* Every step of the store is a step of the lifecycle, or shows nothing.
LEMMA LifecycleStep ==
  TypeOK /\ StoreInv /\ [Next]_vars => [Lifecycle!Next]_(Lifecycle!lifecycleVars)
<1> SUFFICES ASSUME TypeOK, StoreInv, [Next]_vars
             PROVE  [Lifecycle!Next]_(Lifecycle!lifecycleVars)
  OBVIOUS
<1>1. CASE LaunchLoad
  BY <1>1, LoadShows
<1>2. CASE LaunchReadMarks \/ LaunchSweep
  BY <1>2 DEF LaunchReadMarks, LaunchSweep, stateVars, Lifecycle!lifecycleVars
<1>3. CASE LaunchDecide
  BY <1>3, DecisionShows
<1>4. CASE LaunchFails
  <2>1. Lifecycle!StartFails
    BY <1>4 DEF LaunchFails, stateVars, Lifecycle!StartFails, Lifecycle!StartsWith
  <2> QED
    BY <2>1 DEF Lifecycle!Next
<1>5. CASE JsReady \/ Pause \/ Resume \/ JsCalls
  BY <1>5, JsCallsShow
<1>6. CASE Downloads
  BY <1>6, DownloadsShow
<1>7. CASE Exits
  BY <1>7, ExitsShow
<1>8. CASE Environment
  BY <1>8, EnvironmentShows
<1>9. CASE UNCHANGED vars
  BY <1>9 DEF vars, stateVars, processVars, Lifecycle!lifecycleVars
<1> QED
  BY <1>1, <1>2, <1>3, <1>4, <1>5, <1>6, <1>7, <1>8, <1>9 DEF Next, Launch

\* The store implements the update lifecycle: interrupted launches and commits, sweeps, marks
\* and boot counters included, it never shows anything the lifecycle does not allow.
THEOREM StoreImplementsLifecycle == Spec => ImplementsLifecycle
BY LifecycleInit, LifecycleStep, StoreInvariant, PTL
   DEF Spec, ImplementsLifecycle, Lifecycle!Spec

-----------------------------------------------------------------------------
(* The crash-loop breaker *)

\* The steps of the store that a process goes on after: they end no launch and begin no trial.
GoesOn ==
  \/ JsReady \/ Pause \/ Resume
  \/ JsCalls
  \/ Downloads

\* A step with its history is a step of the store.
LEMMA HistoryRefines == [HistoryNext]_<<vars, history>> => [Next]_vars
BY DEF HistoryNext

\* The history is told of the end of a process, and of no other step.
LEMMA OnlyExitsEnd ==
  ASSUME Next
  PROVE  Ends => Exits
<1> SUFFICES ASSUME Ends PROVE Exits
  OBVIOUS
<1> USE DEF Ends
<1>1. CASE Launch
  BY <1>1
     DEF Launch, LaunchLoad, LaunchReadMarks, LaunchSweep, LaunchDecide, LaunchFails, ApplyPending,
         LaunchEmbedded, LaunchHealthy, ContinueTrial, TripBreaker, Run
<1>2. CASE JsReady \/ Pause \/ Resume \/ JsCalls
  BY <1>2
     DEF JsReady, Pause, Resume, JsCalls, MarkHealthy, Rollback, PromoteStagedToPending,
         ConsumeFailedReport, ConsumeAppliedReport, ArmRestart, MarkUserReload, InJs, processVars
<1>3. CASE Downloads
  BY <1>3
     DEF Downloads, DownloadStart, DownloadFails, DownloadDone, Commit, CommitDeletes,
         CommitDeleted, CommitRenames, CommitRecords, CommitRecordFails, processVars
<1>4. CASE Environment
  BY <1>4 DEF Environment, InstallBinary, LoseState, processVars
<1> QED
  BY <1>1, <1>2, <1>3, <1>4 DEF Next

\* Only a launch begins a trial.
LEMMA OnlyLaunchesBegin ==
  ASSUME Next, TrialBegins
  PROVE  LaunchDecide
BY DEF TrialBegins, LaunchDecide

\* Whatever begins a trial takes a slot, and leaves none behind in its place.
LEMMA TrialsMoveSlots ==
  ASSUME TypeOK, TrialBegins
  PROVE  slots' # slots
<1>1. CASE ApplyPending
  <2>1. slots'["pending"] = NoSlot
    BY <1>1 DEF ApplyPending, TypeOK, SlotName
  <2> QED
    BY <1>1, <2>1 DEF ApplyPending
<1>2. CASE TripBreaker
  <2>1. slots'["lastKnownGood"] = NoSlot /\ slots'["current"] = slots["lastKnownGood"]
    BY <1>2 DEF TripBreaker, TypeOK, SlotName
  <2> QED
    BY <1>2, <2>1 DEF TripBreaker
<1> QED
  BY <1>1, <1>2 DEF TrialBegins

\* While a process goes on its trial is charged nothing, unless the trial ends.
LEMMA GoingOnChargesNothing ==
  ASSUME TypeOK, GoesOn
  PROVE  /\ UNCHANGED <<phase, forgiven, running>>
         /\ phase = "running" \/ UNCHANGED marks
         /\ ~trial' \/ UNCHANGED <<trial, bootAttempts>>
         /\ trial' => slots'["current"] = slots["current"]
<1>1. CASE JsReady \/ Pause \/ Resume
  BY <1>1 DEF JsReady, Pause, Resume, stateVars
<1>2. CASE JsCalls
  BY <1>2
     DEF JsCalls, MarkHealthy, Rollback, PromoteStagedToPending, ConsumeFailedReport,
         ConsumeAppliedReport, ArmRestart, MarkUserReload, InJs, TypeOK, SlotName, stateVars,
         processVars
<1>3. CASE Downloads
  BY <1>3
     DEF Downloads, DownloadStart, DownloadFails, DownloadDone, Commit, CommitDeletes,
         CommitDeleted, CommitRenames, CommitRecords, CommitRecordFails, TypeOK, SlotName,
         stateVars, processVars
<1> QED
  BY <1>1, <1>2, <1>3 DEF GoesOn

\* What a process that goes on does to the marks.
LEMMA GoingOnMarks ==
  ASSUME TypeOK, GoesOn, MarksTellLeaving, RecordLeaving
  PROVE  MarksTellLeaving'
<1> USE DEF MarksTellLeaving, RecordLeaving, BothMarks
<1>1. CASE JsReady
  BY <1>1 DEF JsReady
<1>2. CASE Pause
  BY <1>2 DEF Pause, TypeOK
<1>3. CASE Resume
  BY <1>3 DEF Resume
<1>4. CASE UNCHANGED <<marks, phase, jsUp, foreground>>
  BY <1>4
<1>5. JsCalls => UNCHANGED <<marks, phase, jsUp, foreground>>
  BY DEF JsCalls, MarkHealthy, Rollback, PromoteStagedToPending, ConsumeFailedReport,
         ConsumeAppliedReport, ArmRestart, MarkUserReload, stateVars, processVars
<1>6. Downloads => UNCHANGED <<marks, phase, jsUp, foreground>>
  BY DEF Downloads, DownloadStart, DownloadFails, DownloadDone, Commit, CommitDeletes,
         CommitDeleted, CommitRenames, CommitRecords, CommitRecordFails, stateVars, processVars
<1> QED
  BY <1>1, <1>2, <1>3, <1>4, <1>5, <1>6 DEF GoesOn

-----------------------------------------------------------------------------
(* The breaker is patient *)

\* The history keeps its types.
LEMMA HistoryTypes ==
  ASSUME TypeOK, TypeOK', PatientInv, Next, RecordLeaving, RecordEnds
  PROVE  left' \in BOOLEAN /\ strikes' \in 0..MaxBootAttempts /\ crashes' \in 0..MaxBootAttempts
<1>1. left' \in BOOLEAN
  <2>1. CASE phase' # "running" \/ foreground'
    BY <2>1 DEF RecordLeaving
  <2>2. CASE ~(phase' # "running" \/ foreground')
    <3>1. left' = (left \/ (foreground /\ jsUp))
      BY <2>2 DEF RecordLeaving
    <3> QED
      BY <3>1, Zenon
  <2> QED
    BY <2>1, <2>2
<1>2. ASSUME NEW n \in 0..MaxBootAttempts, NEW happens
      PROVE  Count(n, happens) \in 0..MaxBootAttempts
  BY AttemptsAssumption DEF Count
<1>3. 0 \in 0..MaxBootAttempts
  BY AttemptsResets
<1>4. strikes \in 0..MaxBootAttempts /\ crashes \in 0..MaxBootAttempts
  BY DEF PatientInv
<1>5. CASE TrialBegins \/ ~trial'
  BY <1>1, <1>3, <1>5 DEF RecordEnds
<1>6. CASE ~(TrialBegins \/ ~trial')
  BY <1>1, <1>2, <1>4, <1>6 DEF RecordEnds
<1> QED
  BY <1>5, <1>6

\* The first three steps of a launch charge nothing, whatever they read or drop.
LEMMA LaunchKeepsSpent ==
  ASSUME TypeOK, LaunchLoad \/ LaunchReadMarks \/ LaunchSweep, trial'
  PROVE  trial /\ Spent' = Spent
<1>1. CASE LaunchLoad
  BY <1>1 DEF LaunchLoad, Spent, BothMarks
<1>2. CASE LaunchReadMarks
  <2>1. forgiven' <=> BothMarks
    BY <1>2 DEF LaunchReadMarks, BothMarks
  <2>2. Spent = IF BothMarks /\ bootAttempts > 0 THEN bootAttempts - 1 ELSE bootAttempts
    BY <1>2 DEF LaunchReadMarks, Spent
  <2>3. Spent' = IF forgiven' /\ bootAttempts' > 0 THEN bootAttempts' - 1 ELSE bootAttempts'
    BY <1>2 DEF LaunchReadMarks, Spent, Charged
  <2> QED
    BY <1>2, <2>1, <2>2, <2>3 DEF LaunchReadMarks, stateVars
<1>3. CASE LaunchSweep
  BY <1>3 DEF LaunchSweep, Spent, Charged, stateVars
<1> QED
  BY <1>1, <1>2, <1>3

\* Unless a trial begins, the counts of one that goes on are what they were, with the end of the
\* process that ends now.
LEMMA CountsGoOn ==
  ASSUME Next, RecordEnds, trial', ~TrialBegins
  PROVE  /\ strikes' = Count(strikes, Ends /\ Strike)
         /\ crashes' = Count(crashes, Ends /\ CrashOnScreen)
BY DEF RecordEnds

\* No step counts an attempt that is not an end of its own: a launch charges what it runs and
\* refunds what the user explains, and a kill in between only loses the refund.
LEMMA PatientStep ==
  TypeOK /\ TypeOK' /\ PatientInv /\ HistoryNext => PatientInv'
<1> SUFFICES ASSUME TypeOK, TypeOK', PatientInv, HistoryNext PROVE PatientInv'
  OBVIOUS
<1>0. Next /\ RecordLeaving /\ RecordEnds
  BY DEF HistoryNext
<1>a. left' \in BOOLEAN /\ strikes' \in 0..MaxBootAttempts /\ crashes' \in 0..MaxBootAttempts
  BY <1>0, HistoryTypes
<1> SUFFICES MarksTellLeaving' /\ SpentIsStruck'
  BY <1>a DEF PatientInv
<1>b. MarksTellLeaving /\ SpentIsStruck /\ strikes \in 0..MaxBootAttempts
      /\ bootAttempts \in 0..MaxBootAttempts /\ MaxBootAttempts \in Nat /\ MaxBootAttempts >= 2
  BY AttemptsAssumption DEF PatientInv, TypeOK
<1>c. trial' /\ ~Ends /\ ~TrialBegins => strikes' = strikes
  BY <1>0, CountsGoOn DEF Count
<1>1. CASE LaunchLoad \/ LaunchReadMarks \/ LaunchSweep
  <2>1. MarksTellLeaving'
    BY <1>0, <1>1, <1>b
       DEF LaunchLoad, LaunchReadMarks, LaunchSweep, MarksTellLeaving, RecordLeaving, BothMarks
  <2>2. ~Ends /\ ~TrialBegins
    BY <1>1
       DEF LaunchLoad, LaunchReadMarks, LaunchSweep, Ends, TrialBegins, ApplyPending, TripBreaker,
           Run
  <2>3. trial' => trial /\ Spent' = Spent
    BY <1>1, LaunchKeepsSpent
  <2> QED
    BY <1>b, <1>c, <2>1, <2>2, <2>3 DEF SpentIsStruck
<1>2. CASE LaunchDecide
  <2>1. phase = "swept" /\ phase' = "running" /\ UNCHANGED <<marks, jsUp, foreground>>
    BY <1>2, DecisionKeepsSlots
  <2>2. MarksTellLeaving'
    BY <1>0, <1>b, <2>1 DEF MarksTellLeaving, RecordLeaving, BothMarks
  <2>3. ~Ends
    BY <2>1 DEF Ends
  <2>4. CASE TrialBegins
    <3>1. strikes' = 0
      BY <1>0, <2>4 DEF RecordEnds
    <3>2. trial' => bootAttempts' = 1
      BY <2>4 DEF TrialBegins, ApplyPending, TripBreaker
    <3>3. SpentIsStruck'
      BY <2>1, <3>1, <3>2 DEF SpentIsStruck, Spent
    <3> QED
      BY <2>2, <3>3
  <2>5. CASE LaunchEmbedded \/ LaunchHealthy
    <3>1. UNCHANGED <<trial, bootAttempts>> /\ ~TrialBegins
      BY <2>5
         DEF LaunchEmbedded, LaunchHealthy, TrialBegins, ApplyPending, TripBreaker
    <3>2. Charged \in 0..bootAttempts /\ bootAttempts <= Charged + 1
      BY <1>b, ChargedBound DEF Charged
    <3>3. Spent = Charged /\ Spent' = bootAttempts' - 1
      BY <2>1 DEF Spent
    <3> QED
      BY <1>b, <1>c, <2>2, <2>3, <3>1, <3>2, <3>3 DEF SpentIsStruck
  <2>6. CASE ContinueTrial
    <3>1. Charged \in 0..MaxBootAttempts
      BY <1>b, ChargedBound
    <3>2. trial /\ bootAttempts' \in {Charged, Charged + 1}
      BY <2>6 DEF ContinueTrial
    <3>3. ~TrialBegins
      <4>1. slots["pending"] = NoSlot /\ ~(Charged >= MaxBootAttempts)
        BY <1>b, <2>6, <3>1 DEF ContinueTrial
      <4> QED
        BY <4>1 DEF TrialBegins, ApplyPending, TripBreaker
    <3>4. Charged <= strikes
      BY <1>b, <2>1, <3>2 DEF SpentIsStruck, Spent
    <3>5. Spent' = bootAttempts' - 1
      BY <2>1 DEF Spent
    <3> QED
      BY <1>b, <1>c, <2>2, <2>3, <3>1, <3>2, <3>3, <3>4, <3>5 DEF SpentIsStruck
  <2> QED
    BY <1>2, <2>2, <2>4, <2>5, <2>6 DEF LaunchDecide, TrialBegins
<1>3. CASE LaunchFails
  <2>1. MarksTellLeaving'
    BY <1>0, <1>3, <1>b DEF LaunchFails, MarksTellLeaving, RecordLeaving, BothMarks
  <2>2. ~Ends /\ ~TrialBegins
    BY <1>3, TrialsMoveSlots DEF LaunchFails, Ends, stateVars
  <2>3. SpentIsStruck'
    <3>1. Spent <= bootAttempts /\ bootAttempts <= Spent + 1 /\ Spent \in Int
      BY <1>3, <1>b DEF LaunchFails, Spent, Charged
    <3>2. Spent' = bootAttempts - 1 /\ UNCHANGED trial
      BY <1>3 DEF LaunchFails, Spent, stateVars
    <3> QED
      BY <1>b, <1>c, <2>2, <3>1, <3>2 DEF SpentIsStruck
  <2> QED
    BY <2>1, <2>3
<1>4. CASE GoesOn
  <2>1. /\ UNCHANGED <<phase, forgiven>>
        /\ phase = "running" \/ UNCHANGED marks
        /\ ~trial' \/ UNCHANGED <<trial, bootAttempts>>
    BY <1>4, GoingOnChargesNothing
  <2>2. MarksTellLeaving'
    BY <1>0, <1>4, <1>b, GoingOnMarks
  <2>3. ~Ends /\ ~TrialBegins
    <3>1. CASE Ends
      BY <2>1, <3>1 DEF Ends
    <3>2. CASE TrialBegins
      BY <2>1, <3>2 DEF TrialBegins, ApplyPending, TripBreaker, Run
    <3> QED
      BY <3>1, <3>2
  <2>4. trial' => Spent' = Spent
    BY <2>1 DEF Spent, Charged, BothMarks
  <2> QED
    BY <1>b, <1>c, <2>1, <2>2, <2>3, <2>4 DEF SpentIsStruck
<1>5. CASE Exits
  <2>1. Dies /\ marks' \in {marks, {}} /\ (marks' = marks \/ phase = "running")
    BY <1>5 DEF Exits, Crash, UserCloses, DiesWritingMarks, Relaunch, InJs
  <2>2. phase' = "dead" /\ phase # "dead" /\ ~jsUp' /\ UNCHANGED <<trial, bootAttempts>>
    BY <2>1 DEF Dies, stateVars
  <2>3. MarksTellLeaving'
    BY <1>0, <2>2 DEF MarksTellLeaving, RecordLeaving
  <2>4. ASSUME trial' PROVE strikes' = Count(strikes, Strike)
    <3>1. ~TrialBegins /\ Ends
      BY <2>2 DEF TrialBegins, ApplyPending, TripBreaker, Run, Ends
    <3> QED
      BY <1>0, <2>4, <3>1, CountsGoOn DEF Count
  <2>5. Spent' = IF BothMarks' /\ bootAttempts > 0 THEN bootAttempts - 1 ELSE bootAttempts
    BY <2>2 DEF Spent
  <2>6. CASE phase = "loaded"
    <3>1. Spent' = Spent /\ ~Strike
      BY <2>1, <2>2, <2>5, <2>6 DEF Spent, Strike, BothMarks
    <3> QED
      BY <1>b, <2>2, <2>3, <2>4, <3>1 DEF SpentIsStruck, Count
  <2>7. CASE phase = "running" /\ ~Strike
    <3>1. BothMarks'
      BY <1>b, <2>7 DEF Strike, MarksTellLeaving, BothMarks
    <3>2. Spent' = (IF bootAttempts > 0 THEN bootAttempts - 1 ELSE bootAttempts)
          /\ Spent = bootAttempts - 1
      BY <2>5, <2>7, <3>1 DEF Spent
    <3> QED
      BY <1>b, <2>2, <2>3, <2>4, <2>7, <3>1, <3>2 DEF SpentIsStruck, Count
  <2>8. CASE Strike
    <3>1. bootAttempts <= Spent + 1 /\ Spent \in Int
      BY <1>b, <2>8 DEF Strike, Spent, Charged
    <3>2. Spent' <= bootAttempts /\ Spent' \in Int
      BY <1>b, <2>5
    <3>3. strikes < MaxBootAttempts /\ trial' => strikes' = strikes + 1
      BY <2>4, <2>8 DEF Count
    <3>4. ~(strikes < MaxBootAttempts) /\ trial' => strikes' = strikes
      BY <2>4, <2>8 DEF Count
    <3>5. SpentIsStruck'
      BY <1>b, <2>2, <3>1, <3>2, <3>3, <3>4 DEF SpentIsStruck
    <3> QED
      BY <2>3, <3>5
  <2>9. phase \in {"marksRead", "swept"} => Strike
    BY <1>b DEF Strike, MarksTellLeaving
  <2>10. phase \in {"loaded", "marksRead", "swept", "running"}
    BY <2>2 DEF TypeOK, Phases
  <2> QED
    BY <2>6, <2>7, <2>8, <2>9, <2>10
<1>6. CASE Environment
  <2>1. phase = "dead" /\ phase' = "dead" /\ UNCHANGED <<marks, jsUp, forgiven>>
    BY <1>6 DEF Environment, InstallBinary, LoseState, processVars
  <2>2. ~trial' \/ UNCHANGED <<trial, bootAttempts>>
    BY <1>6 DEF Environment, InstallBinary, LoseState, stateVars
  <2>3. ~Ends /\ ~TrialBegins
    BY <2>1 DEF Ends, TrialBegins, ApplyPending, TripBreaker, Run
  <2>4. MarksTellLeaving'
    BY <1>0, <1>b, <2>1 DEF MarksTellLeaving, RecordLeaving
  <2>5. trial' => Spent' = Spent
    BY <2>1, <2>2 DEF Spent, BothMarks
  <2> QED
    BY <1>b, <1>c, <2>2, <2>3, <2>4, <2>5 DEF SpentIsStruck
<1> QED
  BY <1>0, <1>1, <1>2, <1>3, <1>4, <1>5, <1>6 DEF Next, Launch, GoesOn

\* The history begins with nothing counted.
LEMMA PatientBegins == HistoryInit => PatientInv
BY AttemptsResets
   DEF HistoryInit, Init, PatientInv, MarksTellLeaving, SpentIsStruck, BothMarks

\* The attempts of state.json, after the refund that is due, are ends the user leaving does not
\* explain.
THEOREM AttemptsAreStrikes == HistorySpec => [](TypeOK /\ PatientInv)
<1>1. HistoryInit => TypeOK
  BY TypeInit DEF HistoryInit
<1>2. TypeOK /\ PatientInv /\ [HistoryNext]_<<vars, history>> => TypeOK' /\ PatientInv'
  <2> SUFFICES ASSUME TypeOK, PatientInv, [HistoryNext]_<<vars, history>>
               PROVE  TypeOK' /\ PatientInv'
    OBVIOUS
  <2>1. TypeOK'
    BY HistoryRefines, TypeStep
  <2>2. CASE HistoryNext
    BY <2>1, <2>2, PatientStep
  <2>3. CASE UNCHANGED <<vars, history>>
    <3>1. UNCHANGED <<left, strikes, crashes, marks, phase, jsUp, foreground, trial, bootAttempts,
                      forgiven>>
      BY <2>3 DEF vars, stateVars, processVars, history
    <3>2. MarksTellLeaving' <=> MarksTellLeaving
      BY <3>1 DEF MarksTellLeaving, BothMarks
    <3>3. SpentIsStruck' <=> SpentIsStruck
      BY <3>1 DEF SpentIsStruck, Spent, Charged, BothMarks
    <3> QED
      BY <2>1, <3>1, <3>2, <3>3 DEF PatientInv
  <2> QED
    BY <2>2, <2>3
<1> QED
  BY <1>1, <1>2, PatientBegins, PTL DEF HistorySpec

\* The breaker is patient: when it disables a bundle, MAX_BOOT_ATTEMPTS ends of its trial had no
\* user behind them.
THEOREM BreakerIsPatient == HistorySpec => DisablesOnlyAfterStrikes
<1>1. TypeOK /\ PatientInv /\ [HistoryNext]_<<vars, history>> =>
        [TripBreaker => strikes >= MaxBootAttempts]_<<vars, history>>
  <2> SUFFICES ASSUME TypeOK, PatientInv, TripBreaker PROVE strikes >= MaxBootAttempts
    OBVIOUS
  <2>1. trial /\ Charged >= MaxBootAttempts /\ phase = "swept"
    BY DEF TripBreaker, Run
  <2>2. Charged <= strikes
    BY <2>1 DEF PatientInv, SpentIsStruck, Spent
  <2> QED
    BY <2>1, <2>2, ChargedBound, AttemptsAssumption DEF PatientInv, TypeOK
<1> QED
  BY <1>1, AttemptsAreStrikes, PTL DEF HistorySpec, DisablesOnlyAfterStrikes

-----------------------------------------------------------------------------
(* The breaker is quick, where state.json can be written *)

\* A process that ends on screen leaves no refund behind.
LEMMA OnScreenStep ==
  ASSUME TypeOK, MarksTellLeaving, OnScreenUnmarked, Next, ~SaveMayFail
  PROVE  OnScreenUnmarked'
<1> USE DEF OnScreenUnmarked, MarksTellLeaving
<1>1. CASE LaunchLoad \/ LaunchReadMarks \/ LaunchSweep
  BY <1>1 DEF LaunchLoad, LaunchReadMarks, LaunchSweep
<1>2. CASE LaunchDecide
  BY <1>2, DecisionKeepsSlots
<1>3. CASE LaunchFails
  BY <1>3 DEF LaunchFails
<1>4. CASE JsReady \/ Pause \/ Resume
  <2>1. CASE JsReady \/ Pause
    BY <2>1 DEF JsReady, Pause
  <2>2. CASE Resume
    BY <2>2 DEF Resume
  <2> QED
    BY <1>4, <2>1, <2>2
<1>5. CASE UNCHANGED <<marks, phase, jsUp, foreground>>
  BY <1>5
<1>6. JsCalls \/ Downloads => UNCHANGED <<marks, phase, jsUp, foreground>>
  BY DEF JsCalls, MarkHealthy, Rollback, PromoteStagedToPending, ConsumeFailedReport,
         ConsumeAppliedReport, ArmRestart, MarkUserReload, Downloads, DownloadStart,
         DownloadFails, DownloadDone, Commit, CommitDeletes, CommitDeleted, CommitRenames,
         CommitRecords, CommitRecordFails, stateVars, processVars
<1>7. CASE Exits
  BY <1>7 DEF Exits, Crash, UserCloses, DiesWritingMarks, Relaunch, Dies
<1>8. CASE Environment
  BY <1>8 DEF Environment, InstallBinary, LoseState, processVars
<1> QED
  BY <1>1, <1>2, <1>3, <1>4, <1>5, <1>6, <1>7, <1>8 DEF Next, Launch

\* A trial always has its slot.
LEMMA TrialHasSlotStep ==
  ASSUME TypeOK, TrialHasSlot, Next
  PROVE  TrialHasSlot'
<1> USE DEF TrialHasSlot
<1>1. CASE LaunchLoad
  BY <1>1 DEF LaunchLoad
<1>2. CASE LaunchReadMarks \/ LaunchSweep \/ LaunchFails
  BY <1>2 DEF LaunchReadMarks, LaunchSweep, LaunchFails, stateVars
<1>3. CASE ApplyPending
  BY <1>3 DEF ApplyPending, TypeOK, SlotName
<1>4. CASE TripBreaker
  BY <1>4 DEF TripBreaker, TypeOK, SlotName
<1>5. CASE LaunchEmbedded \/ LaunchHealthy \/ ContinueTrial
  BY <1>5 DEF LaunchEmbedded, LaunchHealthy, ContinueTrial
<1>6. CASE GoesOn
  <2>1. trial' => trial
    BY <1>6
       DEF GoesOn, JsReady, Pause, Resume, JsCalls, MarkHealthy, Rollback, PromoteStagedToPending,
           ConsumeFailedReport, ConsumeAppliedReport, ArmRestart, MarkUserReload, Downloads,
           DownloadStart, DownloadFails, DownloadDone, Commit, CommitDeletes, CommitDeleted,
           CommitRenames, CommitRecords, CommitRecordFails, stateVars
  <2> QED
    BY <1>6, <2>1, GoingOnChargesNothing
<1>7. CASE Exits
  BY <1>7 DEF Exits, Crash, UserCloses, DiesWritingMarks, Relaunch, Dies, stateVars
<1>8. CASE Environment
  BY <1>8 DEF Environment, InstallBinary, LoseState, stateVars
<1> QED
  BY <1>1, <1>2, <1>3, <1>4, <1>5, <1>6, <1>7, <1>8 DEF Next, Launch, LaunchDecide, GoesOn

\* Every launch of a trial is charged, so that its end on screen has been paid for; the refund is
\* of another launch, that the user left.
LEMMA QuickStep ==
  TypeOK /\ TypeOK' /\ ReloadNeverMasksCrash /\ PatientInv /\ PatientInv' /\ QuickInv
    /\ ~SaveMayFail /\ HistoryNext => QuickInv'
<1> SUFFICES ASSUME TypeOK, TypeOK', ReloadNeverMasksCrash, PatientInv, PatientInv', QuickInv,
                    ~SaveMayFail, HistoryNext
             PROVE  QuickInv'
  OBVIOUS
<1>0. Next /\ RecordLeaving /\ RecordEnds
  BY DEF HistoryNext
<1>a. OnScreenUnmarked' /\ TrialHasSlot'
  BY <1>0, OnScreenStep, TrialHasSlotStep DEF PatientInv, QuickInv
<1> SUFFICES CrashIsSpent'
  BY <1>a DEF QuickInv
<1>b. /\ CrashIsSpent /\ TrialHasSlot /\ OnScreenUnmarked /\ MarksTellLeaving
      /\ crashes \in 0..MaxBootAttempts /\ crashes' \in 0..MaxBootAttempts
      /\ bootAttempts \in 0..MaxBootAttempts /\ bootAttempts' \in 0..MaxBootAttempts
      /\ MaxBootAttempts \in Nat /\ MaxBootAttempts >= 2
  BY AttemptsAssumption DEF QuickInv, PatientInv, TypeOK
<1>c. trial' /\ ~Ends /\ ~TrialBegins => crashes' = crashes
  BY <1>0, CountsGoOn DEF Count
<1>1. CASE LaunchLoad \/ LaunchReadMarks \/ LaunchSweep
  <2>1. ~Ends /\ ~TrialBegins
    BY <1>1
       DEF LaunchLoad, LaunchReadMarks, LaunchSweep, Ends, TrialBegins, ApplyPending, TripBreaker,
           Run
  <2>2. trial' => trial /\ Spent' = Spent
    BY <1>1, LaunchKeepsSpent
  <2> QED
    BY <1>b, <1>c, <2>1, <2>2 DEF CrashIsSpent
<1>2. CASE LaunchDecide
  <2>1. phase = "swept" /\ phase' = "running"
    BY <1>2, DecisionKeepsSlots
  <2>2. ~Ends
    BY <2>1 DEF Ends
  <2>3. CASE TrialBegins
    <3>1. crashes' = 0 /\ (trial' => bootAttempts' = 1)
      BY <1>0, <2>3 DEF RecordEnds, TrialBegins, ApplyPending, TripBreaker
    <3> QED
      BY <2>1, <3>1 DEF CrashIsSpent, Spent
  <2>4. CASE LaunchEmbedded \/ LaunchHealthy
    <3>1. ~trial'
      BY <1>b, <2>4 DEF LaunchEmbedded, LaunchHealthy, TrialHasSlot
    <3> QED
      BY <3>1 DEF CrashIsSpent
  <2>5. CASE ContinueTrial /\ ~TrialBegins
    <3>1. trial /\ bootAttempts' = Charged + 1
      BY <2>5 DEF ContinueTrial, ReloadNeverMasksCrash
    <3>2. Spent = Charged /\ Spent' = bootAttempts' - 1 /\ Charged \in Int
      BY <2>1, ChargedBound DEF Spent
    <3> QED
      BY <1>b, <1>c, <2>2, <2>5, <3>1, <3>2 DEF CrashIsSpent
  <2> QED
    BY <1>2, <2>3, <2>4, <2>5 DEF LaunchDecide, TrialBegins
<1>3. CASE LaunchFails
  BY <1>3 DEF LaunchFails
<1>4. CASE GoesOn
  <2>1. /\ UNCHANGED <<phase, forgiven>>
        /\ phase = "running" \/ UNCHANGED marks
        /\ ~trial' \/ UNCHANGED <<trial, bootAttempts>>
    BY <1>4, GoingOnChargesNothing
  <2>2. ~Ends /\ ~TrialBegins
    BY <2>1 DEF Ends, TrialBegins, ApplyPending, TripBreaker, Run
  <2>3. trial' => trial /\ Spent' = Spent
    BY <2>1 DEF Spent, Charged, BothMarks
  <2> QED
    BY <1>b, <1>c, <2>2, <2>3 DEF CrashIsSpent
<1>5. CASE Exits
  <2>1. Dies /\ marks' \in {marks, {}} /\ (marks' = marks \/ phase = "running")
    BY <1>5 DEF Exits, Crash, UserCloses, DiesWritingMarks, Relaunch, InJs
  <2>2. phase' = "dead" /\ phase # "dead" /\ UNCHANGED <<trial, bootAttempts>>
    BY <2>1 DEF Dies, stateVars
  <2>3. ASSUME trial' PROVE crashes' = Count(crashes, CrashOnScreen)
    <3>1. ~TrialBegins /\ Ends
      BY <2>2 DEF TrialBegins, ApplyPending, TripBreaker, Run, Ends
    <3> QED
      BY <1>0, <2>3, <3>1, CountsGoOn DEF Count
  <2>4. Spent' = IF BothMarks' /\ bootAttempts > 0 THEN bootAttempts - 1 ELSE bootAttempts
    BY <2>2 DEF Spent
  <2>5. CASE phase = "loaded"
    <3>1. Spent' = Spent /\ ~CrashOnScreen
      BY <2>1, <2>2, <2>4, <2>5 DEF Spent, CrashOnScreen, BothMarks
    <3> QED
      BY <1>b, <2>2, <2>3, <3>1 DEF CrashIsSpent, Count
  <2>6. CASE phase \in {"marksRead", "swept"}
    <3>1. ~CrashOnScreen /\ ~BothMarks'
      BY <1>b, <2>1, <2>6 DEF CrashOnScreen, BothMarks, MarksTellLeaving
    <3>2. Spent = Charged /\ Spent' = bootAttempts /\ Charged \in 0..bootAttempts
      BY <2>4, <2>6, <3>1, ChargedBound DEF Spent
    <3> QED
      BY <1>b, <2>2, <2>3, <3>1, <3>2 DEF CrashIsSpent, Count
  <2>7. CASE phase = "running" /\ CrashOnScreen
    <3>1. ~BothMarks'
      BY <1>b, <2>1, <2>7 DEF CrashOnScreen, BothMarks, OnScreenUnmarked
    <3>2. Spent' = bootAttempts /\ Spent = bootAttempts - 1
      BY <2>4, <2>7, <3>1 DEF Spent
    <3>3. trial' => crashes' <= crashes + 1
      BY <1>b, <2>3, <2>7 DEF Count
    <3> QED
      BY <1>b, <2>2, <3>2, <3>3 DEF CrashIsSpent
  <2>8. CASE phase = "running" /\ ~CrashOnScreen
    <3>1. Spent = bootAttempts - 1 /\ Spent' \in {bootAttempts - 1, bootAttempts}
      BY <2>4, <2>8 DEF Spent
    <3>2. trial' => crashes' = crashes
      BY <2>3, <2>8 DEF Count
    <3> QED
      BY <1>b, <2>2, <3>1, <3>2 DEF CrashIsSpent
  <2>9. phase \in {"loaded", "marksRead", "swept", "running"}
    BY <2>2 DEF TypeOK, Phases
  <2> QED
    BY <2>5, <2>6, <2>7, <2>8, <2>9
<1>6. CASE Environment
  <2>1. phase = "dead" /\ phase' = "dead" /\ UNCHANGED marks
    BY <1>6 DEF Environment, InstallBinary, LoseState, processVars
  <2>2. ~trial' \/ UNCHANGED <<trial, bootAttempts>>
    BY <1>6 DEF Environment, InstallBinary, LoseState, stateVars
  <2>3. ~Ends /\ ~TrialBegins
    BY <2>1 DEF Ends, TrialBegins, ApplyPending, TripBreaker, Run
  <2>4. trial' => trial /\ Spent' = Spent
    BY <2>1, <2>2 DEF Spent, BothMarks
  <2> QED
    BY <1>b, <1>c, <2>3, <2>4 DEF CrashIsSpent
<1> QED
  BY <1>0, <1>1, <1>2, <1>3, <1>4, <1>5, <1>6 DEF Next, Launch, GoesOn

\* Where state.json can always be written, no attempt is forgotten: the crashes on screen of a
\* trial are among the attempts the breaker counts.
THEOREM CrashesAreSpent ==
  ~SaveMayFail => (HistorySpec => []QuickInv)
<1> SUFFICES ASSUME ~SaveMayFail PROVE HistorySpec => []QuickInv
  OBVIOUS
<1>1. HistoryInit => QuickInv
  BY DEF HistoryInit, Init, QuickInv, OnScreenUnmarked, TrialHasSlot, CrashIsSpent
<1>2. /\ TypeOK /\ TypeOK' /\ ReloadNeverMasksCrash /\ PatientInv /\ PatientInv' /\ QuickInv
      /\ [HistoryNext]_<<vars, history>>
      => QuickInv'
  <2> SUFFICES ASSUME TypeOK, TypeOK', ReloadNeverMasksCrash, PatientInv, PatientInv', QuickInv,
                      [HistoryNext]_<<vars, history>>
               PROVE  QuickInv'
    OBVIOUS
  <2>1. CASE HistoryNext
    BY <2>1, QuickStep
  <2>2. CASE UNCHANGED <<vars, history>>
    BY <2>2
       DEF vars, stateVars, processVars, history, QuickInv, OnScreenUnmarked, TrialHasSlot,
           CrashIsSpent, Spent, Charged, BothMarks
  <2> QED
    BY <2>1, <2>2
<1>3. HistorySpec => Spec
  <2>1. HistoryInit => Init
    BY DEF HistoryInit
  <2> QED
    BY <2>1, HistoryRefines, PTL DEF HistorySpec, Spec
<1>4. StoreInv => ReloadNeverMasksCrash
  BY DEF StoreInv, TrialKept
<1> QED
  BY <1>1, <1>2, <1>3, <1>4, AttemptsAreStrikes, StoreInvariant, PTL DEF HistorySpec

\* The breaker is quick: a bundle on trial that has died on screen MAX_BOOT_ATTEMPTS times never
\* runs again.  A full disk breaks this: the embedded bundle, that a launch falls back on when it
\* cannot save, then earns the refund of an attempt that was a crash.
THEOREM BreakerIsQuick == ~SaveMayFail => (HistorySpec => []CrashesAreCounted)
<1>1. TypeOK /\ PatientInv /\ QuickInv => CrashesAreCounted
  <2> SUFFICES ASSUME TypeOK, PatientInv, QuickInv, phase = "running", trial
               PROVE  crashes < MaxBootAttempts
    BY DEF CrashesAreCounted
  <2>1. crashes <= bootAttempts - 1
    BY DEF QuickInv, CrashIsSpent, Spent
  <2> QED
    BY <2>1, AttemptsAssumption DEF PatientInv, TypeOK
<1> QED
  BY <1>1, AttemptsAreStrikes, CrashesAreSpent, PTL
=============================================================================
