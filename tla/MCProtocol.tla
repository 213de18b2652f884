----------------------------- MODULE MCProtocol -----------------------------
(***************************************************************************)
(* Instances of the shared protocol's models for TLC: a channel from       *)
(* keygen to the device, and the canonical form of what is signed.  They   *)
(* share no state; a behaviour is one of the two, chosen at the start, and *)
(* the other stands still.                                                 *)
(*                                                                         *)
(* The channel: a bundle, a text and an image, of which one build holds    *)
(* the compressed form of another file and one a path that leaves its      *)
(* directory.  The canonical form: a list of files, members that are       *)
(* undefined, a member moved between two objects, a list in another order, *)
(* a number that is not finite.                                            *)
(***************************************************************************)
EXTENDS TLC, Channel, Canonical

VARIABLE part

Bundle == <<"main.jsbundle">>
Text == <<"a.txt">>
Frame == <<"a.txt.zst">>
Away == <<"..", "b">>

MCPathOrder == <<Away, Text, Frame, Bundle>>

MCPayloads ==
  { (Bundle :> <<"p">>) @@ (Text :> <<"p">>),
    (Bundle :> <<"q">>) @@ (Text :> <<"p">>) @@ (Frame :> <<"asset-level", "p">>),
    (Bundle :> <<"p">>) @@ (Away :> <<"p">>),
    (Bundle :> <<"p">>) }

MCRanges ==
  { {[op |-> ">=", target |-> <<1, 2, 0>>], [op |-> "<", target |-> <<2, 0, 0>>]},
    {[op |-> "=", target |-> <<1, 2, Wild>>]} }

MCApps ==
  { [target |-> "android", build |-> 1, version |-> <<1, 1, 9>>],
    [target |-> "android", build |-> 2, version |-> <<1, 2, 1>>] }

MCTexts == {"s1", "p1", "p2", "Infinity", "undefined"}
MCKeys == <<"files", "path", "sha">>

\* JavaScript's sort of keys.
MCSorted ==
  [keys \in SUBSET ToSet(MCKeys) |->
     SetToSortSeq(keys, LAMBDA k, l : SelectInSeq(MCKeys, LAMBDA x : x = k) < SelectInSeq(MCKeys, LAMBDA x : x = l))]

Lit(t) == [is |-> "literal", text |-> t]
Obj(members, keys) ==
  [is |-> "object", keys |-> keys,
   at |-> [key \in ToSet(MCKeys) |-> IF key \in DOMAIN members THEN members[key] ELSE Lit(Undefined)]]
Arr(items) == [is |-> "array", items |-> items]

MCLiterals == {Lit(t) : t \in MCTexts}

\* Each object in every order of its members.
MCFile(path) == ("sha" :> Lit("s1")) @@ ("path" :> Lit(path))
MCOrders(members) == {Obj(members, order) : order \in SetToSeqs(DOMAIN members)}
MCInner == UNION {MCOrders(m) : m \in {<<>>, MCFile("p2"), "files" :> Lit("s1")}}
MCListed == UNION {MCOrders(MCFile(p)) : p \in {"p1", "p2"}}
MCFiles ==
  {Arr([i \in DOMAIN paths |-> Obj(MCFile(paths[i]), <<"sha", "path">>)]) :
     paths \in {<<"p1", "p2">>, <<"p2", "p1">>, <<"p1">>}}

MCOuter(paths, files) ==
  {("sha" :> Lit("s1")) @@ ("path" :> x) @@ ("files" :> f) : x \in paths, f \in files}
MCWithPath == MCOuter({Lit("p1"), Lit("Infinity")} \cup MCInner, MCFiles)
MCWithoutPath == {("sha" :> Lit("s1")) @@ ("files" :> f) : f \in MCFiles}

\* What is signed, written in one order; one member may be given and undefined.
MCObjects ==
  {Obj(m, <<"sha", "path", "files">>) : m \in MCWithPath \cup MCOuter({Lit(Undefined)}, MCFiles)}

MCTop == MCObjects \cup UNION {MCOrders(m) : m \in MCWithPath \cup MCWithoutPath}

MCValues == MCLiterals \cup MCInner \cup MCListed \cup MCFiles \cup MCTop

MCHeight ==
  [v \in MCValues |->
     CASE v \in MCLiterals -> 0
       [] v \in MCInner \cup MCListed -> 1
       [] v \in MCFiles -> 2
       [] v \in MCTop -> 3]

MCInit == ChannelInit /\ CanonInit /\ part \in {"channel", "canonical"}

MCChannelPart(A) == part = "channel" /\ A /\ UNCHANGED <<canonVars, part>>
MCCanonicalPart(A) == part = "canonical" /\ A /\ UNCHANGED <<channelVars, part>>

MCSpec ==
  MCInit /\ [][MCChannelPart(ChannelNext) \/ MCCanonicalPart(CanonNext)]_<<channelVars, canonVars, part>>
=============================================================================
