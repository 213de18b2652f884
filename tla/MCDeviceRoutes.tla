---------------------------- MODULE MCDeviceRoutes ----------------------------
EXTENDS DeviceRoutes, TLC

CONSTANTS b1, b2, i1, ch1

MCVersion == (b1 :> 1) @@ (b2 :> 2)
MCRuntime == [b \in Bundles |-> "r1"]
MCChannel == [b \in Bundles |-> ch1]
MCInRollout == Installs \X Bundles
MCStatuses == {"healthy", "failed"}

\* Two requests at a time around one check, one at a time once there is another.
Busy == {w \in Workers : request[w] # None}
Begun == {c \in Checks : answers[c] # None}
           \cup {request[w].check : w \in {v \in Busy : request[v].op = "check"}}
Bound == Cardinality(Begun) <= 1 \/ Cardinality(Busy) <= 1

Symmetric == Permutations(Checks) \cup Permutations(Workers)
=============================================================================
