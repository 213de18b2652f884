------------------------------ MODULE MCClient ------------------------------
(***************************************************************************)
(* Instances of the JavaScript client for TLC.  The provider and the       *)
(* install's standing with the backend share no state in the model, so a   *)
(* behaviour is one of the two, chosen at the start; the other stands      *)
(* still.                                                                  *)
(***************************************************************************)
EXTENDS ClientProvider, Installs

VARIABLE part

MCRetired == {1}
MCPolicies == {Unset, [min |-> 3, severity |-> "hard", link |-> "https"],
               [min |-> 2, severity |-> "soft", link |-> Unset],
               [min |-> 0, severity |-> "hard", link |-> "malformed"]}

AtRest == build = 2 /\ session = FALSE /\ policy = Unset

MCInit ==
  /\ Init /\ InstallsInit
  /\ \/ part = "provider" /\ AtRest
     \/ part = "install"

MCProvider(A) == part = "provider" /\ A /\ UNCHANGED <<installVars, part>>
MCInstall(A) == part = "install" /\ A /\ UNCHANGED <<vars, part>>

all == <<vars, installVars, part>>

MCNext == MCProvider(Next) \/ MCInstall(InstallsNext)

\* The fairness of FairSpec and of InstallsSpec.
MCSpec ==
  /\ MCInit /\ [][MCNext]_all
  /\ WF_all(MCProvider(CheckSteps)) /\ WF_all(MCProvider(DownloadSteps))
  /\ WF_all(MCInstall(Launch)) /\ WF_all(MCInstall(Client)) /\ WF_all(MCInstall(LogIn))
=============================================================================
