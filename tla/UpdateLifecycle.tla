-------------------------- MODULE UpdateLifecycle --------------------------
(***************************************************************************)
(* What a device promises about its updates, without files, marks, counters *)
(* or interrupted steps: which bundle is current, which one it would go    *)
(* back to, which ones wait, which ones it has switched off, and which one *)
(* a process runs.  DashOtaStore implements it.                            *)
(***************************************************************************)
CONSTANTS
  Bundles,
  Embedded,   \* in a slot: nothing there; of a process: the bundle inside the binary
  NoProcess

VARIABLES current, lastKnownGood, staged, pending, onTrial, disabled, live

lifecycleVars == <<current, lastKnownGood, staged, pending, onTrial, disabled, live>>

Init ==
  /\ current = Embedded
  /\ lastKnownGood = Embedded
  /\ staged = Embedded
  /\ pending = Embedded
  /\ onTrial = FALSE
  /\ disabled = {}
  /\ live = NoProcess

\* A process starts with bundle b, or with the embedded one if b cannot be loaded.
StartsWith(b) == live = NoProcess /\ live' \in {b, Embedded}

\* Only a launch replaces the current bundle by a newer one, and it puts it on trial.
Apply ==
  /\ pending # Embedded
  /\ StartsWith(pending)
  /\ current' = pending
  /\ pending' = Embedded
  /\ onTrial' = TRUE
  /\ UNCHANGED <<lastKnownGood, staged, disabled>>

Continue ==
  /\ pending = Embedded
  /\ StartsWith(current)
  /\ UNCHANGED <<current, lastKnownGood, staged, pending, onTrial, disabled>>

\* Only a bundle on trial is ever switched off; the bundle that replaces it has its own trial,
\* and nothing behind it but the embedded bundle.
SwitchOff ==
  /\ pending = Embedded
  /\ onTrial
  /\ current # Embedded
  /\ StartsWith(lastKnownGood)
  /\ disabled' = disabled \cup {current}
  /\ current' = lastKnownGood
  /\ lastKnownGood' = Embedded
  /\ onTrial' = (lastKnownGood # Embedded)
  /\ UNCHANGED <<staged, pending>>

\* A launch that cannot save its decision runs the embedded bundle and decides nothing.
StartFails ==
  /\ StartsWith(Embedded)
  /\ UNCHANGED <<current, lastKnownGood, staged, pending, onTrial, disabled>>

\* Another binary was installed: the slots staged against the old one go, and with them a trial.
DropSlots ==
  /\ live = NoProcess
  /\ current' \in {current, Embedded}
  /\ lastKnownGood' \in {lastKnownGood, Embedded}
  /\ staged' \in {staged, Embedded}
  /\ pending' \in {pending, Embedded}
  /\ onTrial' = FALSE
  /\ UNCHANGED <<disabled, live>>

\* A download is committed; what this device switched off is not downloaded.
Stage(b) ==
  /\ live # NoProcess
  /\ b \notin disabled
  /\ staged' = b
  /\ UNCHANGED <<current, lastKnownGood, pending, onTrial, disabled, live>>

Arm ==
  /\ live # NoProcess
  /\ staged # Embedded
  /\ pending' = staged
  /\ staged' = Embedded
  /\ UNCHANGED <<current, lastKnownGood, onTrial, disabled, live>>

Bless ==
  /\ live # NoProcess
  /\ current # Embedded
  /\ lastKnownGood' = current
  /\ onTrial' = FALSE
  /\ UNCHANGED <<current, staged, pending, disabled, live>>

GoBack ==
  /\ live # NoProcess
  /\ current' = lastKnownGood
  /\ pending' = Embedded
  /\ onTrial' = FALSE
  /\ UNCHANGED <<lastKnownGood, staged, disabled, live>>

Stop ==
  /\ live # NoProcess
  /\ live' = NoProcess
  /\ UNCHANGED <<current, lastKnownGood, staged, pending, onTrial, disabled>>

ForgetAll ==
  /\ live = NoProcess
  /\ current' = Embedded
  /\ lastKnownGood' = Embedded
  /\ staged' = Embedded
  /\ pending' = Embedded
  /\ onTrial' = FALSE
  /\ disabled' = {}
  /\ UNCHANGED live

Next ==
  \/ Apply \/ Continue \/ SwitchOff \/ StartFails
  \/ DropSlots \/ ForgetAll
  \/ \E b \in Bundles : Stage(b)
  \/ Arm \/ Bless \/ GoBack \/ Stop

Spec == Init /\ [][Next]_lifecycleVars
=============================================================================
