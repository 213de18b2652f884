--------------------------- MODULE MCDashOtaStore ---------------------------
(* Instances of DashOtaStore for TLC: bundles are numbered by their version. *)
EXTENDS DashOtaStore

MCVersion == [b \in Bundles |-> b]

\* Every bundle fits every binary.
MCTargets == [b \in Bundles |-> Binaries]

\* Every bundle targets the same single binary; the others cannot run them.
MCOneTarget == [b \in Bundles |-> {CHOOSE n \in Binaries : TRUE}]
=============================================================================
