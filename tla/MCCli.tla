------------------------------- MODULE MCCli -------------------------------
(***************************************************************************)
(* Instances of the CLI's models for TLC: publishing by two dashboards or  *)
(* one and a run of the CLI, operating releases, and the runtime version.  *)
(* They share no state; a behaviour is one of the three, chosen at the     *)
(* start, and the others stand still.                                      *)
(*                                                                         *)
(* Operating: a release on dev and one on prod; a configuration that is    *)
(* edited so that its only name stands for the other channel, now          *)
(* unprotected, and one that is refused; lines with values and switches in *)
(* each other's places.                                                    *)
(***************************************************************************)
EXTENDS Publish, Operations, Fingerprint

VARIABLE part

MCChannel == [d \in Dashboards |-> IF d = "d1" THEN "dev" ELSE "prod"]
MCPlatforms == <<"android", "ios">>

MCReleaseChannel == [r \in Releases |-> IF r = "r1" THEN "dev" ELSE "prod"]
MCNumber == [t \in {"7", "50"} |-> IF t = "7" THEN 7 ELSE 50]

MCAbsent == -1
MCPercents == {10, 101}
MCMinimums == {7, MCAbsent}

MCEnv(channel, server, protected) ==
  [channel |-> channel, server |-> server, adminToken |-> TRUE, protected |-> protected, whole |-> TRUE]

MCConfigs ==
  {[e \in Environments |-> MCEnv("prod", "https", TRUE)],
   [e \in Environments |-> MCEnv("dev", "local", FALSE)],
   [e \in Environments |-> MCEnv("uat", "plain", FALSE)]}

ASSUME \A config \in MCConfigs, e \in Environments : config[e] \in EnvConfigs

ASSUME NumbersAreTypedOnce

ASSUME OnePublisherPerChannel

\* With a release named before or after.
MCLines ==
  LET id == <<Bare("bundle-id"), Word("r1")>>
      others == {<<>>, <<Bare("pct")>>, <<With("pct", "50")>>, <<Bare("rollout"), Word("50")>>,
                 <<Bare("resume")>>, <<Bare("resume"), Word("50")>>, <<With("server", "plain")>>,
                 <<With("server", "plain"), Bare("allow-insecure"), With("pct", "50")>>}
  IN  {id \o s : s \in others} \cup {<<Bare("pct")>> \o id, <<Bare("pct"), Word("50")>> \o id}
        \cup {<<With("channel", "prod"), With("min", "7")>>, <<>>}

MCInit ==
  /\ Init /\ OpInit /\ FpInit
  /\ \/ part = "fingerprint"
     \/ part \in {"publish", "operate"} /\ inGit

MCPublish(A) == part = "publish" /\ A /\ UNCHANGED <<opVars, fpVars, part>>
MCOperate(A) == part = "operate" /\ A /\ UNCHANGED <<vars, fpVars, part>>
MCFingerprint(A) == part = "fingerprint" /\ A /\ UNCHANGED <<vars, opVars, part>>

all == <<vars, opVars, fpVars, part>>

MCNext == MCPublish(Next) \/ MCOperate(OpNext) \/ MCFingerprint(FpNext)

\* The fairness of FairSpec.
MCSpec ==
  /\ MCInit /\ [][MCNext]_all
  /\ \A d \in Dashboards : WF_all(MCPublish(JobSteps(d) \/ UploadSteps(d)))
  /\ WF_all(MCPublish(UploadSteps(Cli)))
=============================================================================
