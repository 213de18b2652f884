---------------------------- MODULE SerialStore ----------------------------
(***************************************************************************)
(* What the store of releases promises to publishers, operators and        *)
(* devices: every change of a release is one step that sees the release as *)
(* it is, nothing is published before all its blobs are there, and nothing *)
(* is taken away but the blobs of an attempt that no other release lists.  *)
(* One process of ReleaseStore implements it.                              *)
(***************************************************************************)
EXTENDS Integers

CONSTANTS Bundles, Manifests, BundleId, Blobs, BlobsOf, Rollouts, MinSamples, FailureRate, NoRelease

VARIABLES release, blobs

storeVars == <<release, blobs>>

Init ==
  /\ release = [b \in Bundles |-> NoRelease]
  /\ blobs = {}

Exists(b) == release[b] # NoRelease
Published(b) == Exists(b) /\ release[b].finalized
Attempt(b) == Exists(b) /\ ~release[b].finalized
Lists(b, x) == Exists(b) /\ x \in BlobsOf[release[b].manifest]

Becomes(b, r) == release' = [release EXCEPT ![b] = r] /\ UNCHANGED blobs

\* A bundle id is taken for the first time.
Declare(m, rollout) ==
  /\ ~Exists(BundleId[m])
  /\ Becomes(BundleId[m],
       [manifest |-> m, rollout |-> rollout, paused |-> FALSE, rolledBack |-> FALSE,
        finalized |-> FALSE, good |-> 0, bad |-> 0])

\* An attempt is replaced by the next; what was decided and reported about it stays.
Redeclare(m, rollout) ==
  /\ Attempt(BundleId[m])
  /\ Becomes(BundleId[m], [release[BundleId[m]] EXCEPT !.manifest = m, !.rollout = rollout])

Publish(b) ==
  /\ Attempt(b)
  /\ BlobsOf[release[b].manifest] \subseteq blobs
  /\ Becomes(b, [release[b] EXCEPT !.finalized = TRUE])

SetRollout(b, pct) == Exists(b) /\ Becomes(b, [release[b] EXCEPT !.rollout = pct])

SetPaused(b, paused) == Exists(b) /\ Becomes(b, [release[b] EXCEPT !.paused = paused])

Withdraw(b) == Exists(b) /\ Becomes(b, [release[b] EXCEPT !.rolledBack = TRUE, !.paused = TRUE])

\* A report counts once towards what is there, and pauses a release that fails too often.
Count(b, good) ==
  LET g == release[b].good + (IF good THEN 1 ELSE 0)
      f == release[b].bad + (IF good THEN 0 ELSE 1)
  IN  /\ Published(b)
      /\ Becomes(b, [release[b] EXCEPT
           !.good = g, !.bad = f,
           !.paused = @ \/ (g + f >= MinSamples /\ f * 100 >= FailureRate * (g + f))])

Arrive(x) == blobs' = blobs \cup {x} /\ UNCHANGED release

\* Only a blob that one attempt lists, and no other release, is taken away.
Discard(x) ==
  /\ \E b \in Bundles : Attempt(b) /\ Lists(b, x) /\ \A c \in Bundles : Lists(c, x) => c = b
  /\ blobs' = blobs \ {x}
  /\ UNCHANGED release

Next ==
  \/ \E m \in Manifests, pct \in Rollouts : Declare(m, pct) \/ Redeclare(m, pct)
  \/ \E b \in Bundles :
       \/ Publish(b) \/ Withdraw(b)
       \/ \E pct \in Rollouts : SetRollout(b, pct)
       \/ \E yes \in BOOLEAN : SetPaused(b, yes) \/ Count(b, yes)
  \/ \E x \in Blobs : Arrive(x) \/ Discard(x)

Spec == Init /\ [][Next]_storeVars
=============================================================================
