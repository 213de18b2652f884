------------------------------ MODULE CrashLoop ------------------------------
(***************************************************************************)
(* The crash-loop breaker judged by how processes really ended.            *)
(*                                                                         *)
(* The breaker decides from a counter and two marks that are refunded,     *)
(* consumed, saved and lost at different moments.  This module runs the    *)
(* store beside a history of the exits themselves, which the code does not *)
(* keep, and relates the two.                                              *)
(***************************************************************************)
EXTENDS DashOtaStore

VARIABLES
  left,      \* the user left the app after its JavaScript had started, and has not come back
  strikes,   \* ends of launches and processes of this trial that the user leaving does not explain
  crashes    \* ends of processes of this trial with the trial bundle on screen

history == <<left, strikes, crashes>>

\* MaxBootAttempts bounds the counters: more is never told apart.
Count(n, happens) == IF happens /\ n < MaxBootAttempts THEN n + 1 ELSE n

\* A launch that is killed before it has read the marks changes nothing; a mark that a kill
\* destroyed while it was written excuses nothing.
Strike ==
  /\ phase \in {"marksRead", "swept", "running"}
  /\ ~(left /\ UNCHANGED marks)

CrashOnScreen == phase = "running" /\ running # Embedded /\ foreground

TrialBegins == ApplyPending \/ TripBreaker

Ends == phase # "dead" /\ phase' = "dead"

RecordLeaving ==
  left' = IF phase' # "running" \/ foreground' THEN FALSE ELSE left \/ (foreground /\ jsUp)

RecordEnds ==
  IF TrialBegins \/ ~trial'
    THEN strikes' = 0 /\ crashes' = 0
    ELSE /\ strikes' = Count(strikes, Ends /\ Strike)
         /\ crashes' = Count(crashes, Ends /\ CrashOnScreen)

HistoryInit == Init /\ left = FALSE /\ strikes = 0 /\ crashes = 0
HistoryNext == Next /\ RecordLeaving /\ RecordEnds
HistorySpec == HistoryInit /\ [][HistoryNext]_<<vars, history>>

\* The history records what happens and asks for nothing: fairness is the store's.
FairHistorySpec == HistorySpec /\ Fairness

\* The breaker is patient: it disables a bundle only after MaxBootAttempts ends of its trial
\* that the user leaving does not explain, whatever was killed between reading the marks,
\* which destroys them, and saving the refund.
DisablesOnlyAfterStrikes ==
  [][TripBreaker => strikes >= MaxBootAttempts]_<<vars, history>>

\* The breaker is quick: once a trial bundle has died on screen MaxBootAttempts times it does
\* not run again, whatever pauses, returns and refunds there were in between.
CrashesAreCounted ==
  phase = "running" /\ trial /\ running # Embedded => crashes < MaxBootAttempts
-----------------------------------------------------------------------------
(* The inductive invariant: what the counter of state.json and the history owe each other *)

BothMarks == {"beaconAt", "pausedAt"} \subseteq marks

\* The attempts the breaker will have counted once this process has ended and the next launch
\* has taken the marks into account; the attempt of the process that runs is still open.
Spent ==
  IF phase = "running" THEN bootAttempts - 1
  ELSE IF phase \in {"marksRead", "swept"} THEN Charged
  ELSE IF BothMarks /\ bootAttempts > 0 THEN bootAttempts - 1
  ELSE bootAttempts

\* The marks are those of the process that runs, and say whether the user has left it.
MarksTellLeaving ==
  /\ phase \in {"marksRead", "swept"} => marks = {}
  /\ jsUp => phase = "running" /\ "beaconAt" \in marks
  /\ left => phase = "running" /\ ~foreground /\ BothMarks

\* Every attempt the breaker counts is an end the user leaving does not explain.
SpentIsStruck == trial => Spent <= strikes

PatientInv ==
  /\ left \in BOOLEAN
  /\ strikes \in 0..MaxBootAttempts
  /\ crashes \in 0..MaxBootAttempts
  /\ MarksTellLeaving
  /\ SpentIsStruck

\* On screen, or before its JavaScript runs, a process has no pause mark: its end is not taken
\* for the user's.
OnScreenUnmarked == phase = "running" /\ (foreground \/ ~jsUp) => "pausedAt" \notin marks

\* A trial is of some slot, so that every launch during it is charged.
TrialHasSlot == trial => slots["current"] # NoSlot

\* Every end on screen is an attempt the breaker counts.
CrashIsSpent == trial => crashes <= Spent

QuickInv == OnScreenUnmarked /\ TrialHasSlot /\ CrashIsSpent
=============================================================================
