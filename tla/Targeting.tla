----------------------------- MODULE Targeting -----------------------------
(***************************************************************************)
(* Which releases fit a device: the version arithmetic and the eligibility *)
(* test of the backend (targeting.ts), and the gates of the device's       *)
(* native module, which repeat part of it.                                 *)
(*                                                                         *)
(* A version is its segments, Wild for "x" and "*"; platform, channel and  *)
(* runtimeVersion are one target.                                          *)
(***************************************************************************)
EXTENDS Integers, Sequences

Wild == -1

\* "1.2" has no third segment: missing ones are wildcards.
ParseVersion(v) == [i \in 1..3 |-> IF i <= Len(v) THEN v[i] ELSE Wild]

AsZero(segment) == IF segment = Wild THEN 0 ELSE segment

\* -1, 0 or 1, by the first segment that differs.
CompareVersions(v, w) ==
  LET x == [i \in 1..3 |-> AsZero(ParseVersion(v)[i])]
      y == [i \in 1..3 |-> AsZero(ParseVersion(w)[i])]
      differs == {i \in 1..3 : x[i] # y[i]}
  IN  IF differs = {} THEN 0
      ELSE LET i == CHOOSE i \in differs : \A j \in differs : i <= j
           IN  IF x[i] < y[i] THEN -1 ELSE 1

\* "1.2.x" matches on its concrete segments; elsewhere a wildcard counts as zero.
SatisfiesComparator(version, c) ==
  LET cmp == CompareVersions(version, c.target) IN
    CASE c.op = "=" /\ (\E i \in DOMAIN c.target : c.target[i] = Wild) ->
           \A i \in 1..3 : ParseVersion(c.target)[i] \in {Wild, ParseVersion(version)[i]}
      [] c.op = "=" /\ (\A i \in DOMAIN c.target : c.target[i] # Wild) -> cmp = 0
      [] c.op = ">=" -> cmp >= 0
      [] c.op = "<=" -> cmp <= 0
      [] c.op = ">" -> cmp > 0
      [] c.op = "<" -> cmp < 0

SatisfiesRange(version, range) == \A c \in range : SatisfiesComparator(version, c)

\* isEligible, for the device as it describes itself; a manifest without a minimum asks for 0.
IsEligible(m, device) ==
  /\ m.target = device.target
  /\ m.version > device.running
  /\ device.build >= m.minBuild
  /\ SatisfiesRange(device.version, m.range)

\* downloadAndStage before any input or output: signature, target, native build, version, paths.
GateAccepts(m, device, verifies, pathsSafe) ==
  /\ verifies
  /\ m.target = device.target
  /\ device.build >= m.minBuild
  /\ m.version > device.running
  /\ pathsSafe
=============================================================================
