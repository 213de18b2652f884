---------------------------- MODULE ClientProofs ----------------------------
(*************************************************************************)
(* What the JavaScript client promises, proved for every set of bundles  *)
(* and install ids, every configuration and any number of launches and   *)
(* faults.                                                               *)
(*************************************************************************)
EXTENDS ClientProvider, Installs, SequenceTheorems, TLAPS

-----------------------------------------------------------------------------
(* The provider *)

\* A nonce that carried a report is spent.
ReportsSpendNonce ==
  /\ posted \in Seq({"failed", "applied", "healthy", "rolled_back"})
  /\ posted # <<>> => nonceSpent

\* A check and a download are never both on their way to a bundle, and whichever is has one.
OneTransfer ==
  /\ check # "idle" => inFlight /\ download.step \in {"idle", "rechecking"}
  /\ download.step \in {"downloading", "applying"} => inFlight
  /\ check = "downloading" \/ download.step = "downloading" => material # None

ReportInv == ReportsSpendNonce /\ HealthyFindsNonceUnspent


\* Native never falls back from a bundle to the embedded one while a bundle is known to be good.
DataTyped ==
  /\ native \in Native
  /\ native.current = Embedded => native.good = Embedded
  /\ material \in Bundles \cup {None} /\ available \in Bundles \cup {None}
  /\ lastOffer \in Bundles \cup {None}
  /\ known \in Bundles \cup {Embedded, None}

TasksTyped ==
  /\ check \in {"idle", "context", "meta", "waiting", "downloading", "applying"}
  /\ download \in {Idle} \cup [step : {"downloading", "applying", "rechecking"}, attempt : {0, 1}]
  /\ apply \in {Idle, [step |-> "restarting"]}
                 \cup [step : {"promoting", "reading"}, restart : BOOLEAN]
  /\ revert \in {Idle} \cup [step : {"reverting", "reading"}, leaving : Bundles \cup {Embedded}]

\* The steps of the provider that leave the data alone.
LEMMA DataKept ==
  ASSUME DataTyped, UNCHANGED <<native, material, available, lastOffer, known>>
  PROVE  DataTyped'
BY DEF DataTyped

\* What native reports and forgets, stages and promotes, stays a state of native.
LEMMA NativeMoves ==
  ASSUME native \in Native
  PROVE  /\ [native EXCEPT !.failed = None, !.applied = None] \in Native
         /\ \A m \in Bundles \cup {None} : [native EXCEPT !.staged = m] \in Native
         /\ [native EXCEPT !.pending = native.staged, !.staged = None] \in Native
         /\ [native EXCEPT !.good = native.current] \in Native
         /\ [native EXCEPT !.current = native.good, !.pending = None] \in Native
BY DEF Native

\* Every step keeps the types of what native holds and of the bundles the client remembers.
LEMMA DataStep == DataTyped /\ TasksTyped /\ [Next]_vars => DataTyped'
<1> SUFFICES ASSUME DataTyped, TasksTyped, [Next]_vars PROVE DataTyped'
  OBVIOUS
<1>n. native \in Native
  BY DEF DataTyped
<1>1. CASE CheckNow \/ CheckFails \/ HasContext
  BY <1>1, DataKept DEF CheckNow, CheckFails, HasContext, history, ui
<1>2. CASE HasMeta \/ Mount
  BY <1>2 DEF HasMeta, Mount, DataTyped, Native, history, ui
<1>3. ASSUME NEW offer \in Bundles \cup {None}, Answered(offer) PROVE DataTyped'
  <2>1. /\ native' = [native EXCEPT !.failed = None, !.applied = None]
        /\ available' \in {offer, None} /\ material' \in {offer, material} /\ lastOffer' = offer
        /\ UNCHANGED known
    BY <1>3 DEF Answered, PostReports
  <2>2. native' \in Native
    BY <1>n, <2>1, NativeMoves
  <2>3. native'.current = native.current /\ native'.good = native.good
    BY <1>n, <2>1 DEF Native
  <2> QED
    BY <2>1, <2>2, <2>3 DEF DataTyped
<1>4. CASE CheckStages \/ DownloadStages
  <2>1. /\ native' = [native EXCEPT !.staged = material] /\ material' = None
        /\ UNCHANGED <<available, lastOffer, known>>
    BY <1>4 DEF CheckStages, DownloadStages, Stages, history
  <2>2. native' \in Native
    BY <2>1, NativeMoves DEF DataTyped
  <2>3. native'.current = native.current /\ native'.good = native.good
    BY <1>n, <2>1 DEF Native
  <2> QED
    BY <2>1, <2>2, <2>3 DEF DataTyped
<1>5. CASE CheckApplies \/ DownloadApplies \/ ApplyPromotes
  <2>1. Promotes /\ UNCHANGED <<material, available, lastOffer, known>>
    BY <1>5 DEF CheckApplies, DownloadApplies, ApplyPromotes, history, refs
  <2>2. native' \in Native
    BY <1>n, <2>1, NativeMoves DEF Promotes
  <2>3. native'.current = native.current /\ native'.good = native.good
    BY <1>n, <2>1 DEF Native, Promotes
  <2> QED
    BY <2>1, <2>2, <2>3 DEF DataTyped
<1>6. CASE DownloadUpdate \/ DownloadRefused \/ DownloadRetries \/ DownloadFails
  BY <1>6, DataKept DEF DownloadUpdate, DownloadRefused, DownloadRetries, DownloadFails, history
<1>7. ASSUME NEW restart, ApplyUpdate(restart) PROVE DataTyped'
  BY <1>7, DataKept DEF ApplyUpdate, ui, refs, history
<1>8. CASE ApplyReadsState \/ Rollback
  BY <1>8, DataKept DEF ApplyReadsState, Rollback, ui, refs, history
<1>9. CASE MarkHealthy
  <2>1. native' = [native EXCEPT !.good = native.current] /\ UNCHANGED <<material, available, lastOffer, known>>
    BY <1>9 DEF MarkHealthy, ui
  <2>2. native' \in Native
    BY <1>n, <2>1, NativeMoves
  <2>3. native'.current = native.current /\ native'.good = native.current
    BY <1>n, <2>1 DEF Native
  <2> QED
    BY <2>1, <2>2, <2>3 DEF DataTyped
<1>10. CASE RollbackReverts
  <2>1. /\ native' = [native EXCEPT !.current = native.good, !.pending = None]
        /\ UNCHANGED <<material, available, lastOffer, known>>
    BY <1>10 DEF RollbackReverts, refs, history
  <2>2. native' \in Native
    BY <1>n, <2>1, NativeMoves
  <2>3. native'.current = native.good /\ native'.good = native.good
    BY <1>n, <2>1 DEF Native
  <2> QED
    BY <2>1, <2>2, <2>3 DEF DataTyped
<1>11. CASE RollbackReports
  BY <1>11 DEF RollbackReports, DataTyped, Native, ui
<1>12. CASE Relaunch
  <2>1. native' \in LaunchOutcome /\ available' = None /\ material' = None /\ known' = None
        /\ lastOffer' = None
    BY <1>12 DEF Relaunch
  <2>2. CASE native' = native
    BY <2>1, <2>2 DEF DataTyped
  <2>3. CASE /\ native.pending # None
             /\ native' = [native EXCEPT !.current = native.pending, !.pending = None,
                                         !.applied = native.pending]
    <3>1. native' \in Native /\ native'.current = native.pending
      BY <1>n, <2>3 DEF Native
    <3>2. native.pending \in Bundles /\ native.pending # Embedded
      BY <1>n, <2>3, ConfigAssumption DEF Native, Embedded
    <3> QED
      BY <2>1, <3>1, <3>2 DEF DataTyped
  <2>4. CASE /\ native.current # native.good
             /\ native' = [native EXCEPT !.current = native.good, !.pending = None,
                                         !.failed = native.current,
                                         !.disabled = native.disabled \cup {native.current}]
    <3>1. native.current \in Bundles
      BY <1>n, <2>4 DEF DataTyped, Native
    <3>2. native' \in Native /\ native'.current = native.good /\ native'.good = native.good
      BY <1>n, <2>4, <3>1 DEF Native
    <3> QED
      BY <2>1, <3>2 DEF DataTyped
  <2> QED
    BY <2>1, <2>2, <2>3, <2>4 DEF LaunchOutcome
<1>13. CASE UNCHANGED vars
  BY <1>13, DataKept DEF vars, ui, refs, history
<1> QED
  BY <1>1, <1>2, <1>3, <1>4, <1>5, <1>6, <1>7, <1>8, <1>9, <1>10, <1>11, <1>12, <1>13
     DEF Next, Host, Foreground, MarkHealthyTimer, Tap, RunAction, CheckSteps, DownloadSteps

\* Every step keeps the types of what is under way.
LEMMA TasksStep == DataTyped /\ TasksTyped /\ [Next]_vars => TasksTyped'
<1> SUFFICES ASSUME DataTyped, TasksTyped, [Next]_vars PROVE TasksTyped'
  OBVIOUS
<1>1. CASE CheckNow \/ CheckFails \/ HasContext \/ HasMeta \/ CheckStages \/ CheckApplies
  BY <1>1 DEF CheckNow, CheckFails, HasContext, HasMeta, CheckStages, CheckApplies, TasksTyped
<1>2. ASSUME NEW offer, Answered(offer) PROVE TasksTyped'
  BY <1>2 DEF Answered, TasksTyped
<1>3. CASE DownloadUpdate \/ DownloadStages \/ DownloadApplies \/ DownloadRefused
             \/ DownloadRetries \/ DownloadFails
  BY <1>3
     DEF DownloadUpdate, DownloadStages, DownloadApplies, DownloadRefused, DownloadRetries,
         DownloadFails, TasksTyped, Idle
<1>4. ASSUME NEW restart \in BOOLEAN, ApplyUpdate(restart) PROVE TasksTyped'
  BY <1>4 DEF ApplyUpdate, TasksTyped
<1>5. CASE ApplyPromotes \/ ApplyReadsState
  BY <1>5 DEF ApplyPromotes, ApplyReadsState, Pends, TasksTyped, Idle
<1>6. CASE Rollback \/ RollbackReverts \/ RollbackReports
  BY <1>6 DEF Rollback, RollbackReverts, RollbackReports, DataTyped, TasksTyped, Idle
<1>7. CASE Relaunch
  BY <1>7 DEF Relaunch, TasksTyped
<1>8. CASE MarkHealthy \/ Mount \/ UNCHANGED vars
  BY <1>8 DEF MarkHealthy, Mount, vars, tasks, TasksTyped
<1> QED
  BY <1>1, <1>2, <1>3, <1>4, <1>5, <1>6, <1>7, <1>8
     DEF Next, Host, Foreground, MarkHealthyTimer, Tap, RunAction, CheckSteps, DownloadSteps

\* Every step keeps the check and the download apart: both take inFlight, and a download that asks
\* for another check waits for it.
LEMMA TransferStep == DataTyped /\ TasksTyped /\ OneTransfer /\ [Next]_vars => OneTransfer'
<1> SUFFICES ASSUME DataTyped, TasksTyped, OneTransfer, [Next]_vars PROVE OneTransfer'
  OBVIOUS
<1> USE DEF OneTransfer, TasksTyped, Idle
<1>1. CASE CheckNow /\ ~Continuing
  BY <1>1 DEF CheckNow, Continuing, history
<1>2. CASE CheckFails \/ HasContext \/ HasMeta \/ CheckStages \/ CheckApplies
  BY <1>2 DEF CheckFails, HasContext, HasMeta, CheckStages, CheckApplies
<1>3. ASSUME NEW offer, Answered(offer) PROVE OneTransfer'
  BY <1>3 DEF Answered
<1>4. CASE DownloadUpdate
  BY <1>4 DEF DownloadUpdate
<1>5. CASE DownloadStages \/ DownloadApplies \/ DownloadFails
  BY <1>5 DEF DownloadStages, DownloadApplies, DownloadFails
<1>6. CASE DownloadRefused \/ DownloadRetries
  BY <1>6 DEF DownloadRefused, DownloadRetries
<1>7. CASE UNCHANGED <<check, download, inFlight, material>>
  BY <1>7
<1>8. \A restart : ApplyUpdate(restart) => UNCHANGED <<check, download, inFlight, material>>
  BY DEF ApplyUpdate, refs
<1>9. ApplyPromotes \/ ApplyReadsState \/ MarkHealthy \/ Rollback \/ RollbackReverts
        \/ RollbackReports \/ Mount \/ UNCHANGED vars => UNCHANGED <<check, download, inFlight, material>>
  BY DEF ApplyPromotes, ApplyReadsState, MarkHealthy, Rollback, RollbackReverts, RollbackReports,
         Mount, vars, tasks, refs
<1>10. CASE Relaunch
  BY <1>10 DEF Relaunch
<1> QED
  BY <1>1, <1>2, <1>3, <1>4, <1>5, <1>6, <1>7, <1>8, <1>9, <1>10
     DEF Next, Host, Foreground, MarkHealthyTimer, Tap, RunAction, CheckSteps, DownloadSteps

\* A healthy report alone is a well-formed history, and it is what follows an empty one.
LEMMA OneHealthy ==
  /\ <<"healthy">> \in Seq({"failed", "applied", "healthy", "rolled_back"})
  /\ \A k \in 2..Len(<<"healthy">>) : <<"healthy">>[k] # "healthy"
  /\ Append(<<>>, "healthy") = <<"healthy">>
<1>1. Len(<<"healthy">>) = 1
  OBVIOUS
<1>2. <<"healthy">> \in Seq({"failed", "applied", "healthy", "rolled_back"})
  OBVIOUS
<1>3. Append(<<>>, "healthy") = <<"healthy">>
  OBVIOUS
<1> QED
  BY <1>1, <1>2, <1>3

\* A healthy report waits for a nonce of its own, and whatever else is reported spends the nonce.
LEMMA ReportStep == ReportInv /\ [Next]_vars => ReportInv'
<1> SUFFICES ASSUME ReportInv, [Next]_vars PROVE ReportInv'
  OBVIOUS
<1> USE DEF ReportInv, ReportsSpendNonce, HealthyFindsNonceUnspent
<1>1. CASE UNCHANGED <<posted, nonceSpent>>
  BY <1>1
<1>2. ASSUME NEW offer, Answered(offer) PROVE ReportInv'
  <2> DEFINE first == IF native.failed = None THEN <<>> ELSE <<"failed">>
             second == IF native.applied = None THEN <<>> ELSE <<"applied">>
             flushes == Flushes(healthyToReport, known, TRUE, first \o second # <<>>)
             third == IF flushes /\ known # Embedded THEN <<"healthy">> ELSE <<>>
  <2>1. posted' = first \o second \o third /\ nonceSpent' = (posted' # <<>>)
    BY <1>2 DEF Answered, PostReports
  <2>2. third # <<>> => first \o second = <<>>
    BY DEF Flushes
  <2>3. third \in {<<>>, <<"healthy">>}
    OBVIOUS
  <2>4. first \in {<<>>, <<"failed">>} /\ second \in {<<>>, <<"applied">>}
    OBVIOUS
  <2> HIDE DEF first, second, third
  <2>5. CASE third = <<>>
    <3>1. first \in Seq({"failed", "applied"}) /\ second \in Seq({"failed", "applied"})
      <4>1. <<>> \in Seq({"failed", "applied"})
        BY EmptySeq
      <4>2. <<"failed">> \in Seq({"failed", "applied"}) /\ <<"applied">> \in Seq({"failed", "applied"})
        OBVIOUS
      <4> QED
        BY <2>4, <4>1, <4>2
    <3>2. first \o second \in Seq({"failed", "applied"})
      BY <3>1, ConcatProperties
    <3>3. posted' \in Seq({"failed", "applied"})
      BY <2>1, <2>5, <3>2, ConcatEmptySeq
    <3>4. posted' \in Seq({"failed", "applied", "healthy", "rolled_back"})
      BY <3>3, SeqMonotonic, {"failed", "applied"} \subseteq {"failed", "applied", "healthy", "rolled_back"}
    <3>5. \A k \in 2..Len(posted') : posted'[k] # "healthy"
      <4> SUFFICES ASSUME NEW k \in 2..Len(posted') PROVE posted'[k] # "healthy"
        OBVIOUS
      <4>1. posted'[k] \in {"failed", "applied"}
        BY <3>3, ElementOfSeq
      <4> QED
        BY <4>1
    <3> QED
      BY <2>1, <3>4, <3>5
  <2>6. CASE third = <<"healthy">>
    <3>1. first \o second = <<>>
      BY <2>2, <2>6
    <3>2. posted' = <<"healthy">>
      BY <2>1, <2>6, <3>1, ConcatEmptySeq
    <3> QED
      BY <2>1, <3>2, OneHealthy
  <2> QED
    BY <2>3, <2>5, <2>6
<1>3. CASE MarkHealthy
  <2> DEFINE posts == Flushes(TRUE, known, nonce, nonceSpent) /\ known # Embedded
  <2>1. /\ nonceSpent' = (nonceSpent \/ posts)
        /\ posted' = IF posts THEN Append(posted, "healthy") ELSE posted
    BY <1>3 DEF MarkHealthy
  <2>2. CASE posts
    <3>1. posted = <<>>
      BY <2>2 DEF Flushes
    <3>2. posted' = <<"healthy">> /\ nonceSpent'
      BY <2>1, <2>2, <3>1, OneHealthy
    <3> QED
      BY <3>2, OneHealthy
  <2>3. CASE ~posts
    BY <2>1, <2>3
  <2> QED
    BY <2>2, <2>3
<1>4. CASE RollbackReports
  <2>1. \/ posted' = Append(posted, "rolled_back") /\ nonceSpent'
        \/ posted' = posted /\ (nonceSpent => nonceSpent')
    BY <1>4 DEF RollbackReports
  <2> QED
    BY <2>1
<1>5. CASE Relaunch
  BY <1>5 DEF Relaunch
<1>6. CheckNow \/ CheckFails \/ HasContext \/ HasMeta \/ CheckStages \/ CheckApplies
        => UNCHANGED <<posted, nonceSpent>>
  BY DEF CheckNow, CheckFails, HasContext, HasMeta, CheckStages, CheckApplies, history
<1>7. DownloadUpdate \/ DownloadStages \/ DownloadApplies \/ DownloadRefused \/ DownloadRetries
        \/ DownloadFails => UNCHANGED <<posted, nonceSpent>>
  BY DEF DownloadUpdate, DownloadStages, DownloadApplies, DownloadRefused, DownloadRetries,
         DownloadFails, history
<1>8. \A restart : ApplyUpdate(restart) => UNCHANGED <<posted, nonceSpent>>
  BY DEF ApplyUpdate, refs, history
<1>9. ApplyPromotes \/ ApplyReadsState \/ Rollback \/ RollbackReverts \/ Mount \/ UNCHANGED vars
        => UNCHANGED <<posted, nonceSpent>>
  BY DEF ApplyPromotes, ApplyReadsState, Rollback, RollbackReverts, Mount, vars, refs, history
<1> QED
  BY <1>1, <1>2, <1>3, <1>4, <1>5, <1>6, <1>7, <1>8, <1>9
     DEF Next, Host, Foreground, MarkHealthyTimer, Tap, RunAction, CheckSteps, DownloadSteps

\* The provider starts with nothing under way and nothing reported.
LEMMA ProviderInit == Init => DataTyped /\ TasksTyped /\ OneTransfer /\ ReportInv
<1> SUFFICES ASSUME Init PROVE DataTyped /\ TasksTyped /\ OneTransfer /\ ReportInv
  OBVIOUS
<1>1. DataTyped
  BY DEF Init, DataTyped, Native
<1>2. TasksTyped /\ OneTransfer
  BY DEF Init, TasksTyped, OneTransfer, Idle
<1>3. ReportInv
  BY DEF Init, ReportInv, ReportsSpendNonce, HealthyFindsNonceUnspent
<1> QED
  BY <1>1, <1>2, <1>3

\* What native holds, and what is under way, have their types; a check and a download never stage
\* at once, and whichever does has a bundle to stage (stagePendingDownload is given one).
THEOREM TransfersExclude == Spec => [](DataTyped /\ TasksTyped /\ OneTransfer)
BY ProviderInit, DataStep, TasksStep, TransferStep, PTL DEF Spec

\* A healthy report is always the first of its nonce, whatever checks, rollbacks and launches come
\* between (flushHealthyReport waits for a nonce that nothing has used).
THEOREM HealthyComesFirst == Spec => []HealthyFindsNonceUnspent
<1>1. ReportInv => HealthyFindsNonceUnspent
  BY DEF ReportInv
<1> QED
  BY <1>1, ProviderInit, ReportStep, PTL DEF Spec

\* applyUpdate(true) restarts the app only for a bundle that the next launch will find pending.
THEOREM RestartsApply == Spec => RestartsForSomething
<1>1. DataTyped /\ TasksTyped /\ [Next]_vars =>
        [apply.step # "restarting" /\ apply'.step = "restarting" => native'.pending # None]_vars
  <2> SUFFICES ASSUME DataTyped, TasksTyped, [Next]_vars, apply.step # "restarting",
                      apply'.step = "restarting"
               PROVE  native'.pending # None
    OBVIOUS
  <2>1. ~UNCHANGED apply
    OBVIOUS
  <2>2. ApplyPromotes \/ ApplyReadsState \/ (\E restart : ApplyUpdate(restart)) \/ Relaunch
    BY <2>1
       DEF Next, Host, Foreground, MarkHealthyTimer, Tap, RunAction, CheckSteps, DownloadSteps,
           CheckNow, CheckFails, HasContext, HasMeta, Answered, CheckStages, CheckApplies,
           DownloadUpdate, DownloadStages, DownloadApplies, DownloadRefused, DownloadRetries,
           DownloadFails, MarkHealthy, Rollback, RollbackReverts, RollbackReports, Mount, vars, tasks
  <2>3. ~Relaunch /\ ~\E restart : ApplyUpdate(restart)
    BY DEF Relaunch, ApplyUpdate, Idle
  <2>4. CASE ApplyPromotes
    <3>1. native.staged # None
      <4>1. SUFFICES ASSUME native.staged = None PROVE FALSE
        OBVIOUS
      <4>2. apply' = [apply EXCEPT !.step = "reading"] /\ apply.step = "promoting"
        BY <2>4, <4>1 DEF ApplyPromotes
      <4>3. apply \in [step : {"promoting", "reading"}, restart : BOOLEAN]
        BY <4>2 DEF TasksTyped, Idle
      <4> QED
        BY <4>2, <4>3
    <3>2. native' = [native EXCEPT !.pending = native.staged, !.staged = None]
      BY <2>4, <3>1 DEF ApplyPromotes, Promotes
    <3> QED
      BY <3>1, <3>2 DEF DataTyped, Native
  <2>5. CASE ApplyReadsState
    BY <2>5 DEF ApplyReadsState, Idle
  <2> QED
    BY <2>2, <2>3, <2>4, <2>5
<1> QED
  BY <1>1, TransfersExclude, PTL DEF Spec, RestartsForSomething

-----------------------------------------------------------------------------
(* The install *)

\* The tasks of a process before it has its install id.
WithoutId == {"off", "idle", "id"}

\* Whatever the backend knows of this phone it knows by the one id the phone has stored.
OneId ==
  /\ storage.id \in Ids \cup {Unset}
  /\ task \notin WithoutId \/ context => storage.id # Unset
  /\ \A i \in Ids : installs[i] # Unset => i = storage.id

\* What makes the next attestation necessary: no marker of this key, or a backend that has no key.
\* An attestation under way has been counted; it still owes the backend's key once it has given it.
Owed ==
  CASE storage.id = Unset -> 1
    [] storage.id # Unset /\ task \in {"enroll", "reenroll"} -> 0
    [] storage.id # Unset /\ task \in {"save", "resave"} ->
         IF installs[storage.id] = Unset THEN 1 ELSE 0
    [] OTHER -> IF storage.marker # Marker \/ installs[storage.id] = Unset THEN 1 ELSE 0

InstallInv == OneId /\ due >= Owed

\* The types, and what they rest on: a key is made for each one lost, and every loss is a fault.
InstallTyped == InstallsTypeOK /\ key <= faults /\ GateLinkIsSafe

\* The steps that leave the phone, its install and what it owes as they are.
LEMMA InstallKept ==
  ASSUME InstallTyped, InstallInv, UNCHANGED <<key, storage, task, context, installs, due>>
  PROVE  InstallInv'
BY DEF InstallInv, OneId, Owed, Marker, WithoutId

\* A phone starts without an id, unknown to the backend, and owes its first attestation.
LEMMA InstallInit == InstallsInit => InstallTyped /\ InstallInv
<1> SUFFICES ASSUME InstallsInit PROVE InstallTyped /\ InstallInv
  OBVIOUS
<1>1. InstallTyped
  <2>1. key \in Keys /\ faults \in 0..MaxFaults /\ key <= faults /\ due \in Int
    BY InstallAssumption DEF InstallsInit, Keys
  <2>2. gate \in [severity : Severity, link : Links] /\ GateLinkIsSafe
    BY DEF InstallsInit, NoGate, Severity, Links, GateLinkIsSafe
  <2>3. /\ storage \in [id : Ids \cup {Unset}, marker : {Unset} \cup (Ids \X Keys)]
        /\ installs \in [Ids -> Keys \cup {Unset}]
    BY DEF InstallsInit
  <2> QED
    BY <2>1, <2>2, <2>3 DEF InstallsInit, InstallTyped, InstallsTypeOK, Tasks
<1>2. OneId
  BY DEF InstallsInit, OneId, WithoutId
<1>3. due >= Owed
  BY DEF InstallsInit, Owed
<1> QED
  BY <1>1, <1>2, <1>3 DEF InstallInv

\* Every step keeps the types, and shows no link but a safe one.
LEMMA InstallTypes == InstallTyped /\ InstallInv /\ [InstallsNext]_installVars => InstallTyped'
<1> SUFFICES ASSUME InstallTyped, InstallInv, [InstallsNext]_installVars PROVE InstallTyped'
  OBVIOUS
<1> USE DEF InstallTyped, InstallsTypeOK, GateLinkIsSafe, Tasks
<1>f. Fault => faults' \in 0..MaxFaults /\ faults' = faults + 1 /\ (key' = key => key' <= faults')
  BY InstallAssumption DEF Fault, Keys
<1>d. due + 1 \in Int /\ due - 1 \in Int
  OBVIOUS
<1>g. NoGate \in [severity : Severity, link : Links] /\ NoGate.link = Unset
  BY DEF NoGate, Severity, Links
<1>s. ASSUME UNCHANGED <<build, key, storage, gate, session, backend>>, task' \in Tasks,
             context' \in BOOLEAN, due' \in Int, faults' \in 0..MaxFaults, key <= faults'
      PROVE  InstallTyped'
  BY <1>s DEF backend
<1>k. key <= faults /\ faults \in 0..MaxFaults /\ due \in Int /\ context \in BOOLEAN
  OBVIOUS
<1>1. CASE Launch \/ CheckPolicy \/ EnrollIfNeeded \/ NotEnrolled
  <2>1. /\ UNCHANGED <<build, key, storage, gate, session, backend, faults>> /\ task' \in Tasks
        /\ due' \in {due, due - 1} /\ (context' = context \/ context' = TRUE)
    BY <1>1 DEF Launch, CheckPolicy, EnrollIfNeeded, NotEnrolled, Goes, ClientContext
  <2> QED
    BY <1>d, <1>k, <1>s, <2>1
<1>14. CASE EnrollRefused \/ CheckRefused
  <2>1. /\ UNCHANGED <<build, key, storage, gate, session, backend, faults, context>>
        /\ task' \in Tasks /\ due' \in {due, due + 1}
    BY <1>14 DEF EnrollRefused, CheckRefused, Fails, Interrupted
  <2> QED
    BY <1>d, <1>k, <1>s, <2>1
<1>2. CASE GetInstallId
  BY <1>2 DEF GetInstallId, Goes, backend
<1>3. CASE Enroll
  BY <1>3 DEF Enroll, Enrolled, Goes
<1>4. CASE SaveMarker
  <2>1. storage.id \in Ids
    BY <1>4 DEF InstallInv, OneId, WithoutId, SaveMarker, Goes
  <2>2. Marker \in Ids \X Keys
    BY <2>1 DEF Marker
  <2> QED
    BY <1>4, <2>2 DEF SaveMarker, Goes, backend, ClientContext
<1>5. CASE Check
  <2>1. NativePolicy \in [severity : Severity, link : Links]
    BY <1>g, InstallAssumption DEF NativePolicy, SafeLink, ValidLink, Policy, Links, Severity
  <2>2. SafeLink(AppLink) \in Links /\ SafeLink(AppLink) \in {"https", "market", Unset}
    BY DEF SafeLink, ValidLink, Links
  <2>3. gate' \in [severity : Severity, link : Links] /\ gate'.link = SafeLink(AppLink)
    BY <1>5, <2>1, <2>2 DEF Check, ResolvePolicy
  <2> QED
    BY <1>5, <2>2, <2>3 DEF Check, backend
<1>6. ASSUME NEW channel \in Channels, RetiredCheck(channel) PROVE InstallTyped'
  <2>1. RetiredPolicy \in [severity : Severity, link : Links]
        /\ RetiredPolicy.link \in {"https", "market", Unset}
    BY DEF RetiredPolicy, SafeLink, ValidLink, Links, Severity
  <2>2. retired' \subseteq Channels \ {"malformed"}
    BY <1>6 DEF RetiredCheck, RecordRetiredClient, ValidChannel
  <2> QED
    BY <1>6, <2>1, <2>2 DEF RetiredCheck, Goes
<1>7. CASE LogIn \/ LogOut
  BY <1>f, <1>k, <1>7 DEF LogIn, LogOut, backend
<1>8. CASE \E p \in Policies : SetNativePolicy(p)
  BY <1>f, <1>8 DEF SetNativePolicy, phone
<1>9. CASE Kill \/ StoreUpdate
  <2>1. /\ UNCHANGED <<key, storage, backend>> /\ build' \in Builds /\ session' = session
        /\ task' = "off" /\ context' = FALSE /\ gate' = NoGate /\ due' \in {due, due + 1}
        /\ (Fault \/ faults' = faults)
    BY <1>9 DEF Kill, StoreUpdate, Ends, Interrupted
  <2>2. faults' \in 0..MaxFaults /\ key' <= faults'
    BY <1>f, <1>k, <2>1
  <2>3. GateLinkIsSafe'
    BY <1>g, <2>1
  <2> QED
    BY <1>g, <1>d, <2>1, <2>2, <2>3 DEF backend
<1>10. CASE Lost
  <2>1. /\ UNCHANGED <<build, key, storage, gate, session, backend, context>>
        /\ task' \in Tasks /\ due' \in {due, due + 1} /\ Fault
    BY <1>10 DEF Lost, Fails, Interrupted
  <2> QED
    BY <1>d, <1>f, <1>k, <1>s, <2>1
<1>11. CASE Forget
  <2>1. installs' \in [Ids -> Keys \cup {Unset}]
    BY <1>11 DEF Forget
  <2> QED
    BY <1>d, <1>f, <1>11, <2>1 DEF Forget, phone
<1>12. CASE LoseKey
  <2>1. key' = key + 1 /\ faults' = faults + 1 /\ faults < MaxFaults
    BY <1>12 DEF LoseKey, Fault
  <2>2. key' \in Keys /\ faults' \in 0..MaxFaults /\ key' <= faults'
    BY InstallAssumption, <2>1 DEF Keys
  <2> QED
    BY <1>12, <2>2 DEF LoseKey, backend
<1>13. CASE UNCHANGED installVars
  BY <1>13 DEF installVars, phone, backend
<1> QED
  BY <1>1, <1>2, <1>3, <1>4, <1>5, <1>6, <1>7, <1>8, <1>9, <1>10, <1>11, <1>12, <1>13, <1>14
     DEF InstallsNext, Client, Faults

\* Every step keeps the phone one install, and owes no more than it has counted.
LEMMA InstallStep == InstallTyped /\ InstallInv /\ [InstallsNext]_installVars => InstallInv'
<1> SUFFICES ASSUME InstallTyped, InstallInv, [InstallsNext]_installVars PROVE InstallInv'
  OBVIOUS
<1>t. /\ key \in Keys /\ key # Unset /\ Unset \notin Ids /\ due \in Int /\ due >= Owed
      /\ storage.id \in Ids \cup {Unset} /\ DOMAIN installs = Ids
      /\ storage = [id |-> storage.id, marker |-> storage.marker]
  BY InstallAssumption DEF InstallTyped, InstallsTypeOK, InstallInv, OneId, Keys
<1>u. /\ task \notin WithoutId \/ context => storage.id \in Ids
      /\ \A i \in Ids : installs[i] # Unset => i = storage.id
  BY <1>t DEF InstallInv, OneId
<1>1. CASE Launch \/ CheckPolicy \/ EnrollIfNeeded \/ NotEnrolled
  <2>1. OneId'
    BY <1>t, <1>u, <1>1
       DEF Launch, CheckPolicy, EnrollIfNeeded, NotEnrolled, Goes, OneId, WithoutId, backend,
           ClientContext
  <2>2. due' >= Owed'
    BY <1>t, <1>u, <1>1
       DEF Launch, CheckPolicy, EnrollIfNeeded, NotEnrolled, Goes, Owed, Marker, WithoutId, backend,
           DevicePublicKey
  <2> QED
    BY <2>1, <2>2 DEF InstallInv
<1>2. CASE GetInstallId
  <2>1. CASE storage.id # Unset
    BY <1>2, <1>t, <1>u, <2>1 DEF GetInstallId, Goes, InstallInv, OneId, Owed, Marker, WithoutId, backend
  <2>2. CASE storage.id = Unset
    <3>1. PICK i \in Ids : storage' = [storage EXCEPT !.id = i]
      BY <1>2, <2>2 DEF GetInstallId
    <3>2. storage'.id = i /\ task' = "marker" /\ installs' = installs /\ due' = due /\ due >= 1
      BY <1>2, <1>t, <2>2, <3>1 DEF GetInstallId, Goes, backend, Owed
    <3>3. \A j \in Ids : installs[j] = Unset
      BY <1>t, <1>u, <2>2
    <3> QED
      BY <1>t, <3>2, <3>3 DEF InstallInv, OneId, Owed
  <2> QED
    BY <2>1, <2>2
<1>3. CASE Enroll
  <2>1. /\ storage.id \in Ids /\ installs' = [installs EXCEPT ![storage.id] = key]
        /\ UNCHANGED <<storage, key, context, due>>
        /\ task \in {"enroll", "reenroll"} /\ task' \in {"save", "resave"}
    BY <1>3, <1>u DEF Enroll, Enrolled, Goes, WithoutId
  <2>2. due >= 0 /\ installs'[storage.id] = key
    BY <1>t, <2>1 DEF Owed
  <2> QED
    BY <1>t, <1>u, <2>1, <2>2 DEF InstallInv, OneId, Owed
<1>4. CASE SaveMarker
  <2>1. /\ storage.id \in Ids /\ storage' = [storage EXCEPT !.marker = Marker]
        /\ UNCHANGED <<installs, key, due>>
        /\ task \in {"save", "resave"} /\ task' \in {"check", "recheck"}
    BY <1>4, <1>u DEF SaveMarker, Goes, WithoutId, backend
  <2>2. storage'.id = storage.id /\ storage'.marker = Marker /\ Marker' = Marker
    BY <1>t, <2>1 DEF Marker
  <2> QED
    BY <1>t, <1>u, <2>1, <2>2 DEF InstallInv, OneId, Owed
<1>5. CASE Check
  BY <1>5, <1>t, <1>u DEF Check, InstallInv, OneId, Owed, Marker, WithoutId, backend
<1>6. CASE EnrollRefused \/ CheckRefused \/ Lost
  <2>1. /\ task' = "idle" /\ due' = IF Attesting THEN due + 1 ELSE due
        /\ UNCHANGED <<storage, key, context, installs>>
        /\ storage.id \in Ids
    BY <1>6, <1>u DEF EnrollRefused, CheckRefused, Lost, Fails, Interrupted, backend, WithoutId
  <2> QED
    BY <1>t, <1>u, <2>1 DEF InstallInv, OneId, Owed, Marker, WithoutId, Attesting
<1>7. CASE (\E channel \in Channels : RetiredCheck(channel)) \/ (\E p \in Policies : SetNativePolicy(p))
             \/ LogIn \/ LogOut
  BY <1>7, InstallKept DEF RetiredCheck, SetNativePolicy, Goes, LogIn, LogOut, backend, phone
<1>8. CASE Kill \/ StoreUpdate
  <2>1. /\ task' = "off" /\ ~context' /\ due' = IF Attesting THEN due + 1 ELSE due
        /\ UNCHANGED <<storage, key, installs>>
    BY <1>8 DEF Kill, StoreUpdate, Ends, Interrupted, backend
  <2> QED
    BY <1>t, <1>u, <2>1 DEF InstallInv, OneId, Owed, Marker, WithoutId, Attesting
<1>9. CASE Forget
  <2>1. /\ storage.id \in Ids /\ installs' = [installs EXCEPT ![storage.id] = Unset]
        /\ due' = due + 1 /\ UNCHANGED <<storage, key, context, task>>
    BY <1>9, <1>t DEF Forget, phone
  <2> QED
    BY <1>t, <1>u, <2>1 DEF InstallInv, OneId, Owed, Marker
<1>10. CASE LoseKey
  <2>1. due' = due + 1 /\ task = "off" /\ UNCHANGED <<storage, context, task, installs>>
    BY <1>10 DEF LoseKey, backend
  <2> QED
    BY <1>t, <1>u, <2>1 DEF InstallInv, OneId, Owed, WithoutId
<1>11. CASE UNCHANGED installVars
  BY <1>11, InstallKept DEF installVars, phone, backend
<1> QED
  BY <1>1, <1>2, <1>3, <1>4, <1>5, <1>6, <1>7, <1>8, <1>9, <1>10, <1>11
     DEF InstallsNext, Client, Faults

\* Every variable has its type, and the gate never shows a link an app may not open: the app's own,
\* or for a retired client what the backend sends it, made safe (withSafeStoreUrl, resolvePolicy).
THEOREM GateIsTypedAndSafe == InstallsSpec => [](InstallsTypeOK /\ GateLinkIsSafe)
<1>1. InstallTyped => InstallsTypeOK /\ GateLinkIsSafe
  BY DEF InstallTyped
<1> QED
  BY <1>1, InstallInit, InstallTypes, InstallStep, PTL DEF InstallsSpec

\* A phone is one install to the backend however its launches end, and attests itself no more often
\* than the enrolments cut short, the keys lost and the installs forgotten account for.
THEOREM PhoneStaysOneInstall == InstallsSpec => []PhoneIsOneInstall
<1>1. InstallTyped /\ InstallInv => PhoneIsOneInstall
  <2> SUFFICES ASSUME InstallTyped, InstallInv PROVE PhoneIsOneInstall
    OBVIOUS
  <2>1. \A i, j \in Ids : installs[i] # Unset /\ installs[j] # Unset => i = j
    BY DEF InstallInv, OneId
  <2>2. due >= 0
    BY DEF InstallInv, InstallTyped, InstallsTypeOK, Owed
  <2> QED
    BY <2>1, <2>2 DEF PhoneIsOneInstall
<1> QED
  BY <1>1, InstallInit, InstallTypes, InstallStep, PTL DEF InstallsSpec
=============================================================================
