--------------------------- MODULE MCReleaseStore ---------------------------
(* Instances of ReleaseStore for TLC: two bundle ids; the first has two manifests, an attempt *)
(* and its successor, and shares a blob with the second.                                      *)
EXTENDS ReleaseStore, TLC

MCBundleId == [m \in Manifests |-> IF m = "first" \/ m = "retry" THEN "b1" ELSE "b2"]

MCBlobsOf == [m \in Manifests |->
  CASE m = "first" -> {"x"} [] m = "retry" -> {"y"} [] OTHER -> {"x"}]

\* The networked deployments are looked at with the first manifest only.
OneReleaseNetworked ==
  networked =>
    /\ release["b2"] = NoRelease
    /\ \A w \in Workers :
         request[w] # NoRequest =>
           request[w].bundle = "b1" /\ (request[w].op = "create" => request[w].arg = "first")

\* In one process, which serves a request at a time, one report is enough.
OneReport == ~networked => \A b \in Bundles : Exists(b) => Total(release[b]) <= 1

Interchangeable == Permutations(Workers) \cup Permutations(Installs)
=============================================================================
