---------------------------- MODULE MCCrashLoop ----------------------------
(* Instances of CrashLoop for TLC: bundles are numbered by their version. *)
EXTENDS CrashLoop

MCVersion == [b \in Bundles |-> b]
MCTargets == [b \in Bundles |-> Binaries]
=============================================================================
