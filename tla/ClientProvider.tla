--------------------------- MODULE ClientProvider ---------------------------
(***************************************************************************)
(* The JavaScript client: DashOtaProvider and the requests it makes.  One  *)
(* check, one explicit download, one apply and one rollback may be under   *)
(* way at once; each is a chain of awaits, and between two awaits anything *)
(* else may run.  Reports are posted and not waited for.                   *)
(*                                                                         *)
(* The native module is what src/packages/rn/src calls it for (its own     *)
(* model is DashOtaStore): six fields of state.json.  A native call takes  *)
(* effect when its promise resolves, which the module's queue does in      *)
(* order.                                                                  *)
(*                                                                         *)
(* Abstracted: bundles are numbered by version, 0 is the embedded one; the *)
(* server offers any newer bundle or none; copy, progress, logging and the *)
(* native version policy are left out; a process may end at any time.      *)
(***************************************************************************)
EXTENDS Integers, Sequences

CONSTANTS
  Bundles,       \* bundle versions, numbers from 1
  Mandatory,     \* the bundles published as mandatory
  AutoStage,     \* config.autoStage
  AutoDownload,  \* config.mandatory = 'auto-download'
  CheckOnForeground, AutoMarkHealthy,  \* config.checkOnAppForeground, config.autoMarkHealthyMs
  MaxReports,    \* bound: reports with one nonce
  MaxLaunches,   \* bound: launches of the app
  None

ASSUME ConfigAssumption ==
  /\ Bundles \subseteq Nat \ {0}
  /\ Mandatory \subseteq Bundles
  /\ {AutoStage, AutoDownload, CheckOnForeground, AutoMarkHealthy} \subseteq BOOLEAN
  /\ {MaxReports, MaxLaunches} \subseteq Nat /\ MaxLaunches > 0
  /\ None \notin Bundles

Embedded == 0

VARIABLES
  native,      \* state.json and the reports native holds
  check,       \* checkNow: the await it is at, or "idle"
  download,    \* downloadUpdate: [step, attempt]
  apply,       \* applyUpdate: [step, restart]
  revert,      \* rollback: [step, leaving]
  inFlight,    \* inFlight.current
  status, isPending, isMandatory, stagedMandatory, available,
  material,    \* pendingDownload.current: a bundle, or None
  known,       \* currentBundleRef.current, None before the first answer
  enrolled,    \* ctxRef.current: the device key is enrolled
  nonce,       \* serverNonceRef.current is there
  nonceSpent, healthyToReport,
  posted,      \* history: statuses posted with the current nonce, in order
  lastOffer,   \* history: what the last answered check offered
  launches

tasks == <<check, download, apply, revert>>
ui == <<status, isPending, isMandatory, stagedMandatory, available>>
refs == <<inFlight, material, known, enrolled, nonce, nonceSpent, healthyToReport>>
history == <<posted, lastOffer, launches>>
vars == <<native, tasks, ui, refs, history>>

Idle == [step |-> "idle"]

Native ==
  [current : Bundles \cup {Embedded}, good : Bundles \cup {Embedded},
   staged : Bundles \cup {None}, pending : Bundles \cup {None},
   failed : Bundles \cup {None}, applied : Bundles \cup {None}, disabled : SUBSET Bundles]

Init ==
  /\ native = [current |-> Embedded, good |-> Embedded, staged |-> None, pending |-> None,
               failed |-> None, applied |-> None, disabled |-> {}]
  /\ check = "idle" /\ download = Idle /\ apply = Idle /\ revert = Idle
  /\ status = "idle" /\ available = None
  /\ isPending = FALSE /\ isMandatory = FALSE /\ stagedMandatory = FALSE
  /\ inFlight = FALSE /\ material = None /\ known = None /\ enrolled = FALSE
  /\ nonce = FALSE /\ nonceSpent = FALSE /\ healthyToReport = FALSE
  /\ posted = <<>> /\ lastOffer = None
  /\ launches = 1

-----------------------------------------------------------------------------
(* Reports: confirm() is posted and forgotten *)

\* flushHealthyReport, with the refs as they are at that moment: whether it posts.
Flushes(healthy, bundle, hasNonce, spent) ==
  healthy /\ bundle # None /\ hasNonce /\ ~spent /\ enrolled

-----------------------------------------------------------------------------
(* checkNow *)

CheckNow ==
  /\ check = "idle"
  /\ ~inFlight
  /\ inFlight' = TRUE
  /\ check' = "context"
  /\ status' = "checking"
  /\ UNCHANGED <<native, download, apply, revert, isPending, isMandatory, stagedMandatory,
                 available, material, known, enrolled, nonce, nonceSpent, healthyToReport, history>>

\* An enrolment, a request or a download fails.
CheckFails ==
  /\ check \notin {"idle"}
  /\ check' = "idle"
  /\ inFlight' = FALSE
  /\ isMandatory' = stagedMandatory
  /\ status' = "error"
  /\ UNCHANGED <<native, download, apply, revert, isPending, stagedMandatory, available,
                 material, known, enrolled, nonce, nonceSpent, healthyToReport, history>>

\* ensureCtx: the key is enrolled once per process, and again after a failure.
HasContext ==
  /\ check = "context"
  /\ check' = "meta"
  /\ enrolled' = TRUE
  /\ UNCHANGED <<native, download, apply, revert, ui, inFlight, material, known, nonce, nonceSpent,
                 healthyToReport, history>>

HasMeta ==
  /\ check = "meta"
  /\ check' = "waiting"
  /\ known' = native.current
  /\ UNCHANGED <<native, download, apply, revert, ui, inFlight, material, enrolled, nonce,
                 nonceSpent, healthyToReport, history>>

\* The client posts what native holds, failures first, and the healthy report if the nonce is
\* still unspent then.
PostReports ==
  LET first == IF native.failed = None THEN <<>> ELSE <<"failed">>
      second == IF native.applied = None THEN <<>> ELSE <<"applied">>
      flushes == Flushes(healthyToReport, known, TRUE, first \o second # <<>>)
      third == IF flushes /\ known # Embedded THEN <<"healthy">> ELSE <<>>
  IN
    /\ native' = [native EXCEPT !.failed = None, !.applied = None]
    /\ nonce' = TRUE
    /\ posted' = first \o second \o third
    /\ nonceSpent' = (posted' # <<>>)
    /\ healthyToReport' = (healthyToReport /\ ~flushes)

ForcesDownload(b) == b \in Mandatory /\ AutoDownload

\* The answer, up to the next await.
Answered(offer) ==
  /\ check = "waiting"
  /\ offer # None => offer > known
  /\ PostReports
  /\ lastOffer' = offer
  /\ IF offer = None \/ offer \in native.disabled
       THEN /\ available' = None
            /\ isMandatory' = stagedMandatory
            /\ status' = "up-to-date"
            /\ check' = "idle" /\ inFlight' = FALSE
            /\ UNCHANGED material
       ELSE /\ available' = offer
            /\ isMandatory' = (offer \in Mandatory)
            /\ material' = offer
            /\ IF ~AutoStage /\ ~ForcesDownload(offer)
                 THEN /\ status' = "update-available"
                      /\ check' = "idle" /\ inFlight' = FALSE
                 ELSE /\ status' = "downloading"
                      /\ check' = "downloading"
                      /\ UNCHANGED inFlight
  /\ UNCHANGED <<download, apply, revert, isPending, stagedMandatory, known, enrolled, launches>>

-----------------------------------------------------------------------------
(* stagePendingDownload, for a check and for downloadUpdate *)

\* downloadAndStage resolves: native refuses what is not newer or was disabled.
Stages ==
  /\ material > native.current
  /\ material \notin native.disabled
  /\ native' = [native EXCEPT !.staged = material]
  /\ material' = None
  /\ stagedMandatory' = (material \in Mandatory)

\* applyOnNextLaunch, which is false with nothing staged.
Promotes ==
  native' = IF native.staged = None
              THEN native
              ELSE [native EXCEPT !.pending = native.staged, !.staged = None]

CheckStages ==
  /\ check = "downloading"
  /\ Stages
  /\ check' = "applying"
  /\ UNCHANGED <<download, apply, revert, status, isPending, isMandatory, available, inFlight,
                 known, enrolled, nonce, nonceSpent, healthyToReport, history>>

CheckApplies ==
  /\ check = "applying"
  /\ Promotes
  /\ isPending' = TRUE
  /\ status' = "apply-pending"
  /\ check' = "idle"
  /\ inFlight' = FALSE
  /\ UNCHANGED <<download, apply, revert, isMandatory, stagedMandatory, available, material, known,
                 enrolled, nonce, nonceSpent, healthyToReport, history>>

-----------------------------------------------------------------------------
(* downloadUpdate *)

DownloadUpdate ==
  /\ download = Idle
  /\ ~inFlight
  /\ material # None
  /\ inFlight' = TRUE
  /\ status' = "downloading"
  /\ download' = [step |-> "downloading", attempt |-> 0]
  /\ UNCHANGED <<native, check, apply, revert, isPending, isMandatory, stagedMandatory, available,
                 material, known, enrolled, nonce, nonceSpent, healthyToReport, history>>

DownloadStages ==
  /\ download.step = "downloading"
  /\ Stages
  /\ download' = [download EXCEPT !.step = "applying"]
  /\ UNCHANGED <<check, apply, revert, status, isPending, isMandatory, available, inFlight, known,
                 enrolled, nonce, nonceSpent, healthyToReport, history>>

DownloadApplies ==
  /\ download.step = "applying"
  /\ Promotes
  /\ isPending' = TRUE
  /\ status' = "apply-pending"
  /\ download' = Idle
  /\ inFlight' = FALSE
  /\ UNCHANGED <<check, apply, revert, isMandatory, stagedMandatory, available, material, known,
                 enrolled, nonce, nonceSpent, healthyToReport, history>>

\* The server refuses the material (401, 403, 404, 410): the first time a check fetches another.
DownloadRefused ==
  /\ download.step = "downloading"
  /\ download.attempt = 0
  /\ download' = [download EXCEPT !.step = "rechecking"]
  /\ check' = "context"
  /\ inFlight' = TRUE
  /\ status' = "checking"
  /\ UNCHANGED <<native, apply, revert, isPending, isMandatory, stagedMandatory, available,
                 material, known, enrolled, nonce, nonceSpent, healthyToReport, history>>

\* The check is over: with something to download the second attempt follows at once.
DownloadRetries ==
  /\ download.step = "rechecking"
  /\ check = "idle"
  /\ IF material = None
       THEN download' = Idle /\ UNCHANGED <<status, inFlight>>
       ELSE /\ download' = [step |-> "downloading", attempt |-> 1]
            /\ status' = "downloading"
            /\ inFlight' = TRUE
  /\ UNCHANGED <<native, check, apply, revert, isPending, isMandatory, stagedMandatory, available,
                 material, known, enrolled, nonce, nonceSpent, healthyToReport, history>>

\* Variant with a bug: a failed download is logged and not shown.
DownloadFailsSilently ==
  /\ download.step \in {"downloading", "applying"}
  /\ download' = Idle
  /\ inFlight' = FALSE
  /\ isMandatory' = stagedMandatory
  /\ UNCHANGED <<native, check, apply, revert, status, isPending, stagedMandatory, available,
                 material, known, enrolled, nonce, nonceSpent, healthyToReport, history>>

DownloadFails ==
  /\ download.step \in {"downloading", "applying"}
  /\ download' = Idle
  /\ inFlight' = FALSE
  /\ isMandatory' = stagedMandatory
  /\ status' = "error"
  /\ UNCHANGED <<native, check, apply, revert, isPending, stagedMandatory, available, material,
                 known, enrolled, nonce, nonceSpent, healthyToReport, history>>

-----------------------------------------------------------------------------
(* applyUpdate: neither a check nor a download holds it back *)

ApplyUpdate(restart) ==
  /\ apply = Idle
  /\ apply' = [step |-> "promoting", restart |-> restart]
  /\ UNCHANGED <<native, check, download, revert, ui, refs, history>>

Pends ==
  /\ isPending' = TRUE
  /\ status' = "apply-pending"
  /\ apply' = IF apply.restart THEN [step |-> "restarting"] ELSE Idle

ApplyPromotes ==
  /\ apply.step = "promoting"
  /\ Promotes
  /\ IF native.staged # None
       THEN Pends
       ELSE apply' = [apply EXCEPT !.step = "reading"] /\ UNCHANGED <<isPending, status>>
  /\ UNCHANGED <<check, download, revert, isMandatory, stagedMandatory, available, refs, history>>

\* Variant with a bug: the answer of applyOnNextLaunch is not checked against state.json.
ApplyTrusts ==
  /\ apply.step = "reading"
  /\ Pends
  /\ UNCHANGED <<native, check, download, revert, isMandatory, stagedMandatory, available, refs,
                 history>>

\* getState: something may have been promoted before.
ApplyReadsState ==
  /\ apply.step = "reading"
  /\ IF native.pending # None
       THEN Pends
       ELSE apply' = Idle /\ UNCHANGED <<isPending, status>>
  /\ UNCHANGED <<native, check, download, revert, isMandatory, stagedMandatory, available, refs,
                 history>>

-----------------------------------------------------------------------------
(* markHealthy and rollback *)

MarkHealthy ==
  LET flushes == Flushes(TRUE, known, nonce, nonceSpent)
      posts == flushes /\ known # Embedded
  IN
    /\ native' = [native EXCEPT !.good = native.current]
    /\ healthyToReport' = ~flushes
    /\ nonceSpent' = (nonceSpent \/ posts)
    /\ posted' = IF posts THEN Append(posted, "healthy") ELSE posted
    /\ UNCHANGED <<tasks, ui, inFlight, material, known, enrolled, nonce, lastOffer, launches>>

Rollback ==
  /\ revert = Idle
  /\ revert' = [step |-> "reverting", leaving |-> IF known = None THEN Embedded ELSE known]
  /\ UNCHANGED <<native, check, download, apply, ui, refs, history>>

RollbackReverts ==
  /\ revert.step = "reverting"
  /\ native' = [native EXCEPT !.current = native.good, !.pending = None]
  /\ isPending' = FALSE
  /\ revert' = [revert EXCEPT !.step = "reading"]
  /\ UNCHANGED <<check, download, apply, status, isMandatory, stagedMandatory, available, refs,
                 history>>

\* Variant with a bug: the report of a rollback does not count as the nonce's one report.
RollbackReportsUnspent ==
  /\ revert.step = "reading"
  /\ known' = native.current
  /\ posted' = IF revert.leaving # Embedded /\ enrolled /\ nonce
                 THEN Append(posted, "rolled_back") ELSE posted
  /\ Len(posted) < MaxReports
  /\ revert' = Idle
  /\ UNCHANGED <<native, check, download, apply, ui, inFlight, material, enrolled, nonce,
                 nonceSpent, healthyToReport, lastOffer, launches>>

RollbackReports ==
  LET posts == revert.leaving # Embedded /\ enrolled /\ nonce IN
    /\ revert.step = "reading"
    /\ known' = native.current
    /\ posted' = IF posts THEN Append(posted, "rolled_back") ELSE posted
    /\ nonceSpent' = (nonceSpent \/ posts)
    /\ Len(posted) < MaxReports
    /\ revert' = Idle
    /\ UNCHANGED <<native, check, download, apply, ui, inFlight, material, enrolled, nonce,
                   healthyToReport, lastOffer, launches>>

-----------------------------------------------------------------------------
(* Launches *)

\* The first effect of a process reads what it runs.
Mount ==
  /\ known = None
  /\ known' = native.current
  /\ UNCHANGED <<native, tasks, ui, inFlight, material, enrolled, nonce, nonceSpent,
                 healthyToReport, history>>

\* What a launch may make of state.json: nothing, the pending bundle, or a revert of a trial.
LaunchOutcome ==
  {native}
  \cup (IF native.pending = None THEN {}
        ELSE {[native EXCEPT !.current = native.pending, !.pending = None,
                             !.applied = native.pending]})
  \cup (IF native.current = native.good THEN {}
        ELSE {[native EXCEPT !.current = native.good, !.pending = None,
                             !.failed = native.current,
                             !.disabled = native.disabled \cup {native.current}]})

\* The process ends, by itself or restarted; in the next one every ref is new.
Relaunch ==
  /\ launches < MaxLaunches
  /\ launches' = launches + 1
  /\ native' \in LaunchOutcome
  /\ check' = "idle" /\ download' = Idle /\ apply' = Idle /\ revert' = Idle
  /\ status' = "idle" /\ available' = None
  /\ isPending' = FALSE /\ isMandatory' = FALSE /\ stagedMandatory' = FALSE
  /\ inFlight' = FALSE /\ material' = None /\ known' = None /\ enrolled' = FALSE
  /\ nonce' = FALSE /\ nonceSpent' = FALSE /\ healthyToReport' = FALSE
  /\ posted' = <<>> /\ lastOffer' = None

-----------------------------------------------------------------------------
(* The view model *)

Phase ==
  CASE status = "error" -> "error"
    [] status # "error" /\ isPending -> "ready"
    [] status = "downloading" /\ ~isPending -> "working"
    [] status = "update-available" /\ ~isPending -> "available"
    [] status = "checking" /\ available # None /\ ~isPending -> "available"
    [] OTHER -> "none"

Busy == status \in {"downloading", "checking"}

\* What the screen shows; without a phase it shows nothing.  The working phase has no button.
Ui ==
  [visible    |-> Phase # "none",
   ctaEnabled |-> Phase \notin {"none", "working"} /\ ~Busy,
   blocking   |-> Phase # "none" /\ isMandatory]

\* The button: ui.action runs what the phase asks for.
RunAction ==
  \/ Phase = "available" /\ DownloadUpdate
  \/ Phase = "ready" /\ ApplyUpdate(TRUE)
  \/ Phase = "error" /\ CheckNow

Tap == Ui.ctaEnabled /\ RunAction

\* The app comes back to the foreground; a host that configured it checks again.
Foreground == CheckOnForeground /\ CheckNow

\* A host that configured it takes a bundle for healthy some time after its mount.
MarkHealthyTimer == AutoMarkHealthy /\ known # None /\ Len(posted) < MaxReports /\ MarkHealthy

Host ==
  \/ Foreground \/ MarkHealthyTimer
  \/ Tap \/ CheckNow \/ DownloadUpdate
  \/ \E restart \in BOOLEAN : ApplyUpdate(restart)
  \/ Len(posted) < MaxReports /\ MarkHealthy
  \/ Rollback

CheckSteps ==
  \/ CheckFails \/ HasContext \/ HasMeta
  \/ \E offer \in Bundles \cup {None} : Answered(offer)
  \/ CheckStages \/ CheckApplies

DownloadSteps ==
  DownloadStages \/ DownloadApplies \/ DownloadRefused \/ DownloadRetries \/ DownloadFails

\* A promise's continuation runs before the next event: a check that ends goes straight back
\* to the download that waits for it.
Continuing == download.step = "rechecking" /\ check = "idle"

Next ==
  \/ DownloadSteps
  \/ /\ ~Continuing
     /\ \/ Host \/ CheckSteps
        \/ ApplyPromotes \/ ApplyReadsState
        \/ RollbackReverts \/ RollbackReports
        \/ Mount
  \/ Relaunch

Spec == Init /\ [][Next]_vars

\* The network and the native module answer or fail, and a failure ends the task.
FairSpec == Spec /\ WF_vars(CheckSteps) /\ WF_vars(DownloadSteps)

-----------------------------------------------------------------------------
(* Properties *)

TypeOK ==
  /\ native \in Native
  /\ check \in {"idle", "context", "meta", "waiting", "downloading", "applying"}
  /\ download \in {Idle} \cup [step : {"downloading", "applying", "rechecking"}, attempt : {0, 1}]
  /\ apply \in {Idle, [step |-> "restarting"]}
                 \cup [step : {"promoting", "reading"}, restart : BOOLEAN]
  /\ revert \in {Idle} \cup [step : {"reverting", "reading"}, leaving : Bundles \cup {Embedded}]
  /\ {inFlight, isPending, isMandatory, stagedMandatory, enrolled, nonce, nonceSpent,
      healthyToReport} \subseteq BOOLEAN
  /\ status \in {"idle", "checking", "downloading", "apply-pending", "update-available",
                 "up-to-date", "error"}
  /\ {available, material, lastOffer} \subseteq Bundles \cup {None}
  /\ known \in Bundles \cup {Embedded, None}
  /\ launches \in 1..MaxLaunches

\* The app is restarted only for a bundle the next launch will apply: not mid-download, not
\* after a rollback took the bundle back (applyUpdate's comment).
RestartsForSomething ==
  [][apply.step # "restarting" /\ apply'.step = "restarting" => native'.pending # None]_vars

\* A healthy report goes out only as its nonce's first: older backends accept one report per
\* nonce and would drop it (nonceSpent and flushHealthyReport).
HealthyFindsNonceUnspent == \A k \in 2..Len(posted) : posted[k] # "healthy"

\* A screen that may not be dismissed does not stay without a button: a mandatory update that is
\* being checked for or downloaded ends in something the user can press.
GateOffersAWay == (Ui.blocking /\ ~Ui.ctaEnabled) ~> (~Ui.blocking \/ Ui.ctaEnabled)
=============================================================================
