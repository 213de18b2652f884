-------------------------- MODULE DocumentedClaims --------------------------
(***************************************************************************)
(* A sentence of the repository's documentation about the device store,    *)
(* stated over DashOtaStore.  It is refuted by what the code does;         *)
(* README.md tells the behaviour TLC finds.                                *)
(***************************************************************************)
EXTENDS DashOtaStore

MCVersion == [b \in Bundles |-> b]
MCTargets == [b \in Bundles |-> Binaries]

LaunchChooses == phase # "running" /\ phase' = "running"

\* "The move is refused if any file the manifest lists is missing, so a half-filled bundle
\* never runs." (src/website/docs/concepts/lifecycle.md)
HalfFilledNeverRuns ==
  [][LaunchChooses /\ running' # Embedded => bundleDir[running'] = "complete"]_vars
=============================================================================
