------------------------------ MODULE Canonical ------------------------------
(***************************************************************************)
(* The bytes a manifest's signature is over.  The CLI signs the canonical  *)
(* form of an object; the object is then written, stored and read as JSON, *)
(* by databases that keep an object's members in an order of their own,    *)
(* and the device makes the canonical form again from what arrives.  The   *)
(* function is written twice in the code, for Node and for the device.     *)
(*                                                                         *)
(* Bytes are a sequence of tokens: the text of a literal, a key, or a      *)
(* bracket.  Which rewriting a database makes of an object is open: any    *)
(* order of its members, of an object's own or of one that is a member.    *)
(***************************************************************************)
EXTENDS Naturals, SequencesExt

CONSTANTS
  Values,     \* JSON values: the objects, their parts, and what they may be rewritten as
  Height,     \* how deep a value nests, a function
  Objects,    \* what is signed, and what may be served in its place
  MemberKeys, \* what an object's members are called (__proto__ is no name: it sets the prototype)
  Sorted,     \* the order JavaScript writes a set of sorted keys in, a function
  Texts,      \* of literals
  NotFinite,  \* the texts of Infinity and NaN
  Undefined,  \* the text of a member that is undefined
  MaxHops,    \* bound: times an object is written and read again
  Nothing

VARIABLES
  object,   \* the object on its way
  bytes,    \* what the signature is over
  original, \* history: what was signed
  verdict,  \* of the device
  hops

canonVars == <<object, bytes, original, verdict, hops>>

CanonInit ==
  /\ object = Nothing
  /\ bytes = <<>>
  /\ original = Nothing
  /\ verdict = "none"
  /\ hops = 0

-----------------------------------------------------------------------------
(* Values *)

Absent == [is |-> "literal", text |-> Undefined]

Literals == [is : {"literal"}, text : Texts]
Arrays == [is : {"array"}, items : Seq(Values \ {Absent})]
Maps == [is : {"object"}, keys : Seq(MemberKeys), at : [MemberKeys -> Values]]

\* A member that is undefined is left out.
Members(v) == {key \in ToSet(v.keys) : v.at[key] # Absent}

Parts(v) ==
  CASE v.is = "literal" -> {}
    [] v.is = "array"   -> ToSet(v.items)
    [] v.is = "object"  -> {v.at[key] : key \in Members(v)}

\* JSON written and read again: what is undefined is gone, and members come in any order.
Rewritten(v) ==
  IF v.is # "object" THEN {v}
  ELSE {[v EXCEPT !.keys = order] : order \in SetToSeqs(Members(v))}

RewrittenInside(v) ==
  IF v.is # "object" THEN {}
  ELSE UNION {{[v EXCEPT !.at[key] = w] : w \in Rewritten(v.at[key])} : key \in Members(v)}

\* JSON values are finite trees.
ASSUME ValuesAssumption ==
  /\ Objects \subseteq Values
  /\ Values \subseteq Literals \cup Arrays \cup Maps
  /\ Height \in [Values -> Nat]
  /\ \A v \in Values :
       /\ \A w \in Parts(v) : Height[w] < Height[v]
       /\ Rewritten(v) \cup RewrittenInside(v) \subseteq Values

\* The text of a literal is not a bracket (a string's is quoted), and sorting loses no key.
ASSUME TokensAssumption ==
  /\ Texts \cap {"[", "]", "{", "}"} = {}
  /\ Sorted \in [SUBSET MemberKeys -> Seq(MemberKeys)]
  /\ \A keys \in SUBSET MemberKeys : ToSet(Sorted[keys]) = keys

-----------------------------------------------------------------------------
(* canonicalize *)

\* Variant with a bug: members stay in the order they came.
OrderedNot(v) == SelectSeq(v.keys, LAMBDA key : key \in Members(v))

Ordered(v) == Sorted[Members(v)]

Canonicalize(value) ==
  LET form[v \in Values] ==
        CASE v.is = "literal" -> <<v.text>>
          [] v.is = "array"   ->
               <<"[">> \o FlattenSeq([i \in DOMAIN v.items |-> form[v.items[i]]]) \o <<"]">>
          [] OTHER ->
               <<"{">>
               \o FlattenSeq([i \in DOMAIN Ordered(v) |->
                              <<Ordered(v)[i]>> \o form[v.at[Ordered(v)[i]]]])
               \o <<"}">>
  IN  form[value]

\* Whether a value has a canonical form: a number that is not finite throws.
Portable(value) ==
  LET ok[v \in Values] ==
        /\ v.is = "literal" => v.text \notin NotFinite
        /\ \A w \in Parts(v) : ok[w]
  IN  ok[value]

-----------------------------------------------------------------------------
(* Signing, serving, verifying *)

SignObject(v) ==
  /\ object = Nothing
  /\ Portable(v)
  /\ object' = v
  /\ original' = v
  /\ bytes' = Canonicalize(v)
  /\ UNCHANGED <<verdict, hops>>

Travel ==
  /\ object # Nothing /\ verdict = "none" /\ hops < MaxHops
  /\ \E v \in Rewritten(object) \cup RewrittenInside(object) : object' = v
  /\ hops' = hops + 1
  /\ UNCHANGED <<bytes, original, verdict>>

\* A server, or the way to it, that sends another object under the same signature.
Replace(v) ==
  /\ object # Nothing /\ verdict = "none" /\ hops < MaxHops
  /\ object' = v
  /\ hops' = hops + 1
  /\ UNCHANGED <<bytes, original, verdict>>

VerifyObject ==
  /\ object # Nothing /\ verdict = "none"
  /\ verdict' = IF Portable(object) /\ Canonicalize(object) = bytes THEN "accepted" ELSE "refused"
  /\ UNCHANGED <<object, bytes, original, hops>>

CanonNext == (\E v \in Objects : SignObject(v) \/ Replace(v)) \/ Travel \/ VerifyObject

CanonSpec == CanonInit /\ [][CanonNext]_canonVars

-----------------------------------------------------------------------------
(* Properties *)

\* Whether two values mean the same: they may differ in the order of members and in undefined ones.
SameMeaning(this, that) ==
  LET same[p \in Values \X Values] ==
        LET v == p[1]
            w == p[2]
        IN  /\ v.is = w.is
            /\ v.is = "literal" => v.text = w.text
            /\ v.is = "array" =>
                 /\ Len(v.items) = Len(w.items)
                 /\ \A i \in DOMAIN v.items : same[<<v.items[i], w.items[i]>>]
            /\ v.is = "object" =>
                 /\ Members(v) = Members(w)
                 /\ \A key \in Members(v) : same[<<v.at[key], w.at[key]>>]
  IN  same[<<this, that>>]

\* A device takes what was signed, however often and by whatever database it was written again, and
\* nothing that means something else.
AcceptsWhatWasSigned == verdict # "none" => (verdict = "accepted" <=> SameMeaning(object, original))
=============================================================================
