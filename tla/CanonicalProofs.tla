--------------------------- MODULE CanonicalProofs ---------------------------
(***************************************************************************)
(* A signature stands for what was signed and for nothing else, proved for *)
(* every set of JSON values, keys and literals, and however often an       *)
(* object is rewritten on its way.                                         *)
(*                                                                         *)
(* Values are finite trees, so that recursion and induction over them go   *)
(* by their height, a natural number.  Forms are read from their ends: the *)
(* last token tells the kind of a value, and what stands before it is its  *)
(* entries, read from their ends in turn.                                  *)
(***************************************************************************)
EXTENDS Canonical, SequenceTheorems, WellFoundedInduction, TLAPS

\* A set of natural numbers that is not empty has a least element.
LEMMA LeastOf ==
  ASSUME NEW S \in SUBSET Nat, S # {}
  PROVE  \E x \in S : \A y \in S : x <= y
<1> DEFINE R == OpToRel(<, Nat)
<1>1. IsWellFoundedOn(R, Nat)
  BY NatLessThanWellFounded
<1> HIDE DEF R
<1>2. PICK x \in S : \A y \in S : ~ (<<y, x>> \in R)
  BY <1>1, WFMin
<1>3. ASSUME NEW y \in S PROVE x <= y
  <2>1. ~ (<<y, x>> \in R)
    BY <1>2
  <2> QED
    BY <2>1 DEF R, OpToRel
<1> QED
  BY <1>3

\* What a function has at a point depends on what it has at lower ones.
Descends(S, h, R, Step) ==
  /\ R # {}
  /\ h \in [S -> Nat]
  /\ Step \in [S -> [[S -> R] -> R]]
  /\ \A x \in S : \A f, g \in [S -> R] :
       (\A y \in S : h[y] < h[x] => f[y] = g[y]) => Step[x][f] = Step[x][g]

\* A function may be defined by recursion on a height.
LEMMA Recursion ==
  ASSUME NEW S, NEW h, NEW R, NEW Step, Descends(S, h, R, Step)
  PROVE  \E f \in [S -> R] : \A x \in S : f[x] = Step[x][f]
<1> SUFFICES
      ASSUME R # {}, h \in [S -> Nat], Step \in [S -> [[S -> R] -> R]],
             \A x \in S : \A f, g \in [S -> R] :
               (\A y \in S : h[y] < h[x] => f[y] = g[y]) => Step[x][f] = Step[x][g]
      PROVE  \E f \in [S -> R] : \A x \in S : f[x] = Step[x][f]
  BY DEF Descends
<1> DEFINE Good(n, f) == \A x \in S : h[x] < n => f[x] = Step[x][f]
<1>1. \A n \in Nat : \E f \in [S -> R] : Good(n, f)
  <2> DEFINE Bad == {n \in Nat : \A f \in [S -> R] : ~Good(n, f)}
  <2> SUFFICES ASSUME Bad # {} PROVE FALSE
    OBVIOUS
  <2>1. PICK n \in Bad : \A m \in Bad : n <= m
    BY LeastOf
  <2>2. n # 0
    <3>1. PICK r \in R : TRUE
      OBVIOUS
    <3>2. [x \in S |-> r] \in [S -> R]
      OBVIOUS
    <3>3. Good(0, [x \in S |-> r])
      OBVIOUS
    <3> QED
      BY <3>2, <3>3
  <2>3. n - 1 \in Nat /\ n - 1 \notin Bad
    <3>1. n - 1 \in Nat /\ ~(n <= n - 1)
      BY <2>2
    <3> HIDE DEF Bad
    <3> QED
      BY <2>1, <3>1
  <2>4. PICK f \in [S -> R] : Good(n - 1, f)
    BY <2>3
  <2> DEFINE g == [x \in S |-> IF h[x] < n - 1 THEN f[x] ELSE Step[x][f]]
  <2>5. g \in [S -> R]
    OBVIOUS
  <2>6. ASSUME NEW x \in S, h[x] < n PROVE g[x] = Step[x][g]
    <3>1. \A y \in S : h[y] < h[x] => g[y] = f[y]
      BY <2>1, <2>6
    <3>2. Step[x][g] = Step[x][f]
      BY <2>5, <3>1
    <3>3. CASE h[x] < n - 1
      BY <2>4, <3>2, <3>3
    <3>4. CASE ~(h[x] < n - 1)
      BY <3>2, <3>4
    <3> QED
      BY <3>3, <3>4
  <2>7. Good(n, g)
    BY <2>6
  <2> QED
    BY <2>1, <2>5, <2>7
<1>2. ASSUME NEW n \in Nat, NEW m \in Nat, NEW f \in [S -> R], NEW g \in [S -> R],
             Good(n, f), Good(m, g)
      PROVE  \A x \in S : h[x] < n /\ h[x] < m => f[x] = g[x]
  <2> DEFINE Apart == {x \in S : h[x] < n /\ h[x] < m /\ f[x] # g[x]}
             Bad == {h[x] : x \in Apart}
  <2> SUFFICES ASSUME Bad # {} PROVE FALSE
    OBVIOUS
  <2>1. Bad \in SUBSET Nat
    OBVIOUS
  <2>2. PICK k \in Bad : \A j \in Bad : k <= j
    BY <2>1, LeastOf
  <2>3. PICK x \in Apart : k = h[x]
    OBVIOUS
  <2>4. \A y \in S : h[y] < h[x] => f[y] = g[y]
    <3> SUFFICES ASSUME NEW y \in S, h[y] < h[x], f[y] # g[y] PROVE FALSE
      OBVIOUS
    <3>1. h[y] < n /\ h[y] < m
      OBVIOUS
    <3>2. h[y] \in Bad
      BY <3>1
    <3>3. h[x] \in Nat /\ h[y] \in Nat /\ ~(h[x] <= h[y])
      OBVIOUS
    <3> HIDE DEF Bad
    <3> QED
      BY <2>2, <2>3, <3>2, <3>3
  <2>5. Step[x][f] = Step[x][g]
    BY <2>4
  <2> QED
    BY <1>2, <2>3, <2>5
<1> DEFINE Pick(n) == CHOOSE f \in [S -> R] : Good(n, f)
           F == [x \in S |-> Pick(h[x] + 1)[x]]
<1>3. \A n \in Nat : Pick(n) \in [S -> R] /\ Good(n, Pick(n))
  BY <1>1
<1> HIDE DEF Pick
<1>4. F \in [S -> R]
  BY <1>3
<1>5. ASSUME NEW x \in S PROVE F[x] = Step[x][F]
  <2>1. Pick(h[x] + 1) \in [S -> R] /\ Good(h[x] + 1, Pick(h[x] + 1))
    BY <1>3
  <2>2. Pick(h[x] + 1)[x] = Step[x][Pick(h[x] + 1)]
    BY <2>1
  <2>3. ASSUME NEW y \in S, h[y] < h[x] PROVE F[y] = Pick(h[x] + 1)[y]
    <3>1. Pick(h[y] + 1) \in [S -> R] /\ Good(h[y] + 1, Pick(h[y] + 1))
      BY <1>3
    <3>2. h[y] + 1 \in Nat /\ h[x] + 1 \in Nat /\ h[y] < h[y] + 1 /\ h[y] < h[x] + 1
      BY <2>3
    <3> HIDE DEF Good
    <3>3. Pick(h[y] + 1)[y] = Pick(h[x] + 1)[y]
      BY <1>2, <2>1, <3>1, <3>2
    <3> QED
      BY <3>3
  <2>4. Step[x][F] = Step[x][Pick(h[x] + 1)]
    BY <1>4, <2>1, <2>3
  <2> QED
    BY <2>2, <2>4
<1> QED
  BY <1>4, <1>5

-----------------------------------------------------------------------------
(* Sequences of texts *)

\* The last of the tokens of a text.
LastToken(text) == text[Len(text)]

\* What two texts end in is what the second ends in.
LEMMA LastOfConcat ==
  ASSUME NEW T, NEW a \in Seq(T), NEW b \in Seq(T), b # <<>>
  PROVE  a \o b # <<>> /\ LastToken(a \o b) = LastToken(b)
<1>1. Len(b) \in Nat \ {0} /\ Len(a) \in Nat
  BY EmptySeq, LenProperties
<1>2. /\ a \o b \in Seq(T)
      /\ Len(a \o b) = Len(a) + Len(b)
      /\ (a \o b)[Len(a) + Len(b)] = b[Len(b)]
  BY <1>1, ConcatProperties
<1> QED
  BY <1>1, <1>2, EmptySeq DEF LastToken

\* Of four texts in a row, the last may be set apart.
LEMMA Regroup ==
  ASSUME NEW T, NEW a \in Seq(T), NEW b \in Seq(T), NEW c \in Seq(T), NEW d \in Seq(T)
  PROVE  /\ a \o (b \o (c \o d)) = (a \o (b \o c)) \o d
         /\ a \o (b \o c) \in Seq(T)
<1>1. b \o c \in Seq(T) /\ a \o (b \o c) \in Seq(T)
  BY ConcatProperties
<1>2. b \o (c \o d) = (b \o c) \o d
  BY ConcatAssociative
<1>3. a \o ((b \o c) \o d) = (a \o (b \o c)) \o d
  BY <1>1, ConcatAssociative
<1> QED
  BY <1>1, <1>2, <1>3

\* What FlattenSeq does, one element at a time.
LEMMA Flattened ==
  ASSUME NEW T, NEW s \in Seq(Seq(T))
  PROVE  \E F \in [0..Len(s) -> Seq(T)] :
           /\ F[0] = <<>>
           /\ \A i \in 1..Len(s) : F[i] = F[i - 1] \o s[i]
           /\ FlattenSeq(s) = F[Len(s)]
<1>1. Len(s) \in Nat /\ \A i \in 1..Len(s) : s[i] \in Seq(T)
  BY LenProperties, ElementOfSeq
<1>2. CASE Len(s) = 0
  <2>1. s = <<>> /\ <<>> \in Seq(T)
    BY <1>2, EmptySeq
  <2>2. [i \in 0..Len(s) |-> <<>>] \in [0..Len(s) -> Seq(T)]
    BY <2>1
  <2>3. FlattenSeq(s) = s
    BY <1>2 DEF FlattenSeq
  <2> WITNESS [i \in 0..Len(s) |-> <<>>] \in [0..Len(s) -> Seq(T)]
  <2> QED
    BY <1>2, <2>1, <2>3
<1>3. CASE Len(s) # 0
  <2> DEFINE D == 1..Len(s)
             h == [i \in D |-> i]
             Step == [i \in D |-> [f \in [D -> Seq(T)] |-> IF i = 1 THEN s[i] ELSE f[i - 1] \o s[i]]]
             Fits(f) == f = [i \in D |-> IF i = 1 THEN s[i] ELSE f[i - 1] \o s[i]]
             flatten == CHOOSE f : Fits(f)
  <2>1. h \in [D -> Nat] /\ Seq(T) # {}
    BY EmptySeq
  <2>2. ASSUME NEW i \in D, NEW f \in [D -> Seq(T)]
        PROVE  (IF i = 1 THEN s[i] ELSE f[i - 1] \o s[i]) \in Seq(T)
    <3>1. CASE i = 1
      BY <1>1, <3>1
    <3>2. CASE i # 1
      <4>1. i - 1 \in D
        BY <1>1, <3>2
      <4>2. f[i - 1] \in Seq(T)
        BY <4>1
      <4> QED
        BY <1>1, <3>2, <4>2, ConcatProperties
    <3> QED
      BY <3>1, <3>2
  <2>3. Step \in [D -> [[D -> Seq(T)] -> Seq(T)]]
    BY <2>2
  <2>4. ASSUME NEW i \in D, NEW f \in [D -> Seq(T)], NEW g \in [D -> Seq(T)],
               \A j \in D : h[j] < h[i] => f[j] = g[j]
        PROVE  Step[i][f] = Step[i][g]
    <3>1. i # 1 => i - 1 \in D /\ h[i - 1] < h[i]
      BY <1>1
    <3> QED
      BY <2>4, <3>1
  <2> HIDE DEF h
  <2>5. \E f \in [D -> Seq(T)] : \A i \in D : f[i] = Step[i][f]
    <3>1. \A i \in D : \A f, g \in [D -> Seq(T)] :
            (\A j \in D : h[j] < h[i] => f[j] = g[j]) => Step[i][f] = Step[i][g]
      BY <2>4
    <3> HIDE DEF Step, D
    <3>2. Descends(D, h, Seq(T), Step)
      BY <2>1, <2>3, <3>1 DEF Descends
    <3> QED
      BY <3>2, Recursion
  <2>6. \E f : Fits(f)
    <3>1. PICK f \in [D -> Seq(T)] : \A i \in D : f[i] = Step[i][f]
      BY <2>5
    <3>2. \A i \in D : f[i] = IF i = 1 THEN s[i] ELSE f[i - 1] \o s[i]
      BY <3>1
    <3> HIDE DEF D, Step
    <3>3. f = [i \in D |-> IF i = 1 THEN s[i] ELSE f[i - 1] \o s[i]]
      BY <3>2
    <3> QED
      BY <3>3
  <2>7. Fits(flatten)
    <3> HIDE DEF Fits
    <3> QED
      BY <2>6
  <2> HIDE DEF flatten
  <2>8. \A i \in D : flatten[i] = IF i = 1 THEN s[i] ELSE flatten[i - 1] \o s[i]
    BY <2>7
  <2>9. \A i \in D : flatten[i] \in Seq(T)
    <3> DEFINE Bad == {i \in D : flatten[i] \notin Seq(T)}
    <3> SUFFICES ASSUME Bad # {} PROVE FALSE
      OBVIOUS
    <3>1. Bad \in SUBSET Nat
      BY <1>1
    <3>2. PICK i \in Bad : \A j \in Bad : i <= j
      BY <3>1, LeastOf
    <3>3. i # 1
      BY <1>1, <2>8
    <3>4. i - 1 \in D /\ ~(i <= i - 1)
      BY <1>1, <3>3
    <3>5. flatten[i - 1] \in Seq(T)
      BY <3>2, <3>4
    <3>6. flatten[i] = flatten[i - 1] \o s[i]
      BY <2>8, <3>3
    <3> QED
      BY <1>1, <3>5, <3>6, ConcatProperties
  <2> DEFINE F == [i \in 0..Len(s) |-> IF i = 0 THEN <<>> ELSE flatten[i]]
  <2>10. F \in [0..Len(s) -> Seq(T)] /\ F[0] = <<>>
    BY <1>1, <2>9, EmptySeq
  <2>11. ASSUME NEW i \in 1..Len(s) PROVE F[i] = F[i - 1] \o s[i]
    <3>1. CASE i = 1
      BY <1>1, <2>8, <3>1, ConcatEmptySeq
    <3>2. CASE i # 1
      <4>1. i - 1 \in 0..Len(s) /\ i - 1 # 0
        BY <1>1, <3>2
      <4>2. F[i] = flatten[i] /\ F[i - 1] = flatten[i - 1]
        BY <1>1, <4>1
      <4> QED
        BY <2>8, <3>2, <4>2
    <3> QED
      BY <3>1, <3>2
  <2>12. FlattenSeq(s) = F[Len(s)]
    <3>1. FlattenSeq(s) = flatten[Len(s)]
      BY <1>1, <1>3 DEF FlattenSeq, flatten
    <3> QED
      BY <1>1, <1>3, <3>1
  <2> QED
    BY <2>10, <2>11, <2>12
<1> QED
  BY <1>2, <1>3

\* A text may follow another without a mark between them: it is known by its end.
KnownByItsEnd(T, x, y) == \A a, b \in Seq(T) : a \o x = b \o y => x = y

\* A text after what was read before it and a bracket.
After(c, open, f) == c \o (<<open>> \o f)

\* Where the last of a row of texts is set apart, what is left stands after the same bracket.
LEMMA OneMore ==
  ASSUME NEW T, NEW open \in T, NEW c \in Seq(T), NEW f \in Seq(T), NEW x \in Seq(T),
         x # <<>>, LastToken(x) # open
  PROVE  /\ After(c, open, f \o x) = After(c, open, f) \o x
         /\ After(c, open, f) \in Seq(T)
         /\ LastToken(After(c, open, f \o x)) # open
<1>1. <<open>> \in Seq(T)
  OBVIOUS
<1>2. c \o (<<open>> \o (f \o x)) = (c \o (<<open>> \o f)) \o x /\ c \o (<<open>> \o f) \in Seq(T)
  BY <1>1, Regroup
<1> QED
  BY <1>2, LastOfConcat DEF After

\* Where no text is left, the bracket is the end.
LEMMA NoneLeft ==
  ASSUME NEW T, NEW open \in T, NEW c \in Seq(T)
  PROVE  LastToken(After(c, open, <<>>)) = open
<1>1. /\ <<open>> \in Seq(T) /\ <<open>> # <<>> /\ LastToken(<<open>>) = open
      /\ <<open>> \o <<>> = <<open>>
  BY DEF LastToken
<1> QED
  BY <1>1, LastOfConcat DEF After

\* Equal ends may be taken away.
LEMMA CancelRight ==
  ASSUME NEW T, NEW x \in Seq(T), NEW y \in Seq(T), NEW z \in Seq(T), x \o z = y \o z
  PROVE  x = y
BY ConcatSimplifications

\* Two lists of texts after an opening bracket, read from their ends, are the same list.
LEMMA ListsMatch ==
  ASSUME NEW T, NEW open \in T, NEW s \in Seq(Seq(T)), NEW t \in Seq(Seq(T)),
         \A i \in 1..Len(s) : s[i] # <<>> /\ LastToken(s[i]) # open,
         \A j \in 1..Len(t) : t[j] # <<>> /\ LastToken(t[j]) # open,
         \A i \in 1..Len(s), j \in 1..Len(t) : KnownByItsEnd(T, s[i], t[j]),
         NEW a \in Seq(T), NEW b \in Seq(T),
         After(a, open, FlattenSeq(s)) = After(b, open, FlattenSeq(t))
  PROVE  s = t
<1>1. PICK F \in [0..Len(s) -> Seq(T)] :
        /\ F[0] = <<>>
        /\ \A i \in 1..Len(s) : F[i] = F[i - 1] \o s[i]
        /\ FlattenSeq(s) = F[Len(s)]
  BY Flattened
<1>2. PICK G \in [0..Len(t) -> Seq(T)] :
        /\ G[0] = <<>>
        /\ \A i \in 1..Len(t) : G[i] = G[i - 1] \o t[i]
        /\ FlattenSeq(t) = G[Len(t)]
  BY Flattened
<1>3. /\ Len(s) \in Nat /\ \A i \in 1..Len(s) : s[i] \in Seq(T)
      /\ Len(t) \in Nat /\ \A i \in 1..Len(t) : t[i] \in Seq(T)
  BY LenProperties, ElementOfSeq
<1> DEFINE Read(c, f) == After(c, open, f)
<1>4. ASSUME NEW i \in 1..Len(s), NEW c \in Seq(T)
      PROVE  /\ i - 1 \in 0..Len(s)
             /\ Read(c, F[i]) = Read(c, F[i - 1]) \o s[i]
             /\ Read(c, F[i - 1]) \in Seq(T)
             /\ LastToken(Read(c, F[i])) # open
  <2>1. i - 1 \in 0..Len(s) /\ F[i - 1] \in Seq(T)
    BY <1>3
  <2>2. F[i] = F[i - 1] \o s[i] /\ s[i] \in Seq(T) /\ s[i] # <<>> /\ LastToken(s[i]) # open
    BY <1>1, <1>3
  <2> DEFINE f == F[i - 1]
             y == s[i]
  <2>3. f \in Seq(T) /\ y \in Seq(T) /\ y # <<>> /\ LastToken(y) # open
    BY <2>1, <2>2
  <2> HIDE DEF f, y
  <2>4. /\ After(c, open, f \o y) = After(c, open, f) \o y
        /\ After(c, open, f) \in Seq(T)
        /\ LastToken(After(c, open, f \o y)) # open
    BY <2>3, OneMore
  <2> QED
    BY <2>1, <2>2, <2>4 DEF f, y
<1>5. ASSUME NEW j \in 1..Len(t), NEW d \in Seq(T)
      PROVE  /\ j - 1 \in 0..Len(t)
             /\ Read(d, G[j]) = Read(d, G[j - 1]) \o t[j]
             /\ Read(d, G[j - 1]) \in Seq(T)
             /\ LastToken(Read(d, G[j])) # open
  <2>1. j - 1 \in 0..Len(t) /\ G[j - 1] \in Seq(T)
    BY <1>3
  <2>2. G[j] = G[j - 1] \o t[j] /\ t[j] \in Seq(T) /\ t[j] # <<>> /\ LastToken(t[j]) # open
    BY <1>2, <1>3
  <2> DEFINE f == G[j - 1]
             y == t[j]
  <2>3. f \in Seq(T) /\ y \in Seq(T) /\ y # <<>> /\ LastToken(y) # open
    BY <2>1, <2>2
  <2> HIDE DEF f, y
  <2>4. /\ After(d, open, f \o y) = After(d, open, f) \o y
        /\ After(d, open, f) \in Seq(T)
        /\ LastToken(After(d, open, f \o y)) # open
    BY <2>3, OneMore
  <2> QED
    BY <2>1, <2>2, <2>4 DEF f, y
<1>6. \A c \in Seq(T) : LastToken(Read(c, F[0])) = open /\ LastToken(Read(c, G[0])) = open
  BY <1>1, <1>2, NoneLeft
<1>7. Read(a, F[Len(s)]) = Read(b, G[Len(t)])
  BY <1>1, <1>2
<1> HIDE DEF Read
<1> DEFINE Match(i, j) == i = j /\ \A k \in 1..i : s[k] = t[k]
           Claim(i) == \A j \in 0..Len(t) : \A c, d \in Seq(T) : Read(c, F[i]) = Read(d, G[j]) => Match(i, j)
<1>8. ASSUME NEW i \in 0..Len(s), \A k \in 0..Len(s) : k < i => Claim(k),
             NEW j \in 0..Len(t), NEW c \in Seq(T), NEW d \in Seq(T), Read(c, F[i]) = Read(d, G[j])
      PROVE  Match(i, j)
  <2>1. CASE i = 0 /\ j = 0
    BY <2>1
  <2>2. CASE i = 0 /\ j # 0
    <3>1. j \in 1..Len(t)
      BY <1>3, <2>2
    <3>2. LastToken(Read(d, G[j])) # open /\ LastToken(Read(c, F[i])) = open
      BY <1>5, <1>6, <2>2, <3>1
    <3> QED
      BY <1>8, <3>2
  <2>3. CASE i # 0 /\ j = 0
    <3>1. i \in 1..Len(s)
      BY <1>3, <2>3
    <3>2. LastToken(Read(c, F[i])) # open /\ LastToken(Read(d, G[j])) = open
      BY <1>4, <1>6, <2>3, <3>1
    <3> QED
      BY <1>8, <3>2
  <2>4. CASE i # 0 /\ j # 0
    <3>1. i \in 1..Len(s) /\ j \in 1..Len(t)
      BY <1>3, <2>4
    <3> DEFINE x == Read(c, F[i - 1])
               y == Read(d, G[j - 1])
    <3>2. x \o s[i] = y \o t[j] /\ x \in Seq(T) /\ y \in Seq(T)
      <4>1. Read(c, F[i]) = x \o s[i] /\ x \in Seq(T)
        BY <1>4, <3>1
      <4>2. Read(d, G[j]) = y \o t[j] /\ y \in Seq(T)
        BY <1>5, <3>1
      <4> QED
        BY <1>8, <4>1, <4>2
    <3>3. i - 1 \in 0..Len(s) /\ j - 1 \in 0..Len(t) /\ i - 1 < i
      <4>1. Len(s) \in Nat /\ Len(t) \in Nat
        BY <1>3
      <4> QED
        BY <3>1, <4>1
    <3> HIDE DEF x, y
    <3>4. KnownByItsEnd(T, s[i], t[j])
      BY <3>1
    <3>5. s[i] = t[j]
      BY <3>2, <3>4 DEF KnownByItsEnd
    <3>6. x = y
      <4>1. s[i] \in Seq(T)
        BY <1>3, <3>1
      <4> QED
        BY <3>2, <3>5, <4>1, CancelRight
    <3>7. Match(i - 1, j - 1)
      <4>1. Claim(i - 1)
        BY <1>8, <3>3
      <4> QED
        BY <3>3, <3>6, <4>1 DEF x, y
    <3>8. i = j
      BY <3>1, <3>7
    <3>9. ASSUME NEW k \in 1..i PROVE s[k] = t[k]
      <4>1. k = i \/ k \in 1..(i - 1)
        BY <3>1
      <4> QED
        BY <3>5, <3>7, <3>8, <4>1
    <3> QED
      BY <3>8, <3>9
  <2> QED
    BY <2>1, <2>2, <2>3, <2>4
<1> HIDE DEF Match
<1>9. \A i \in 0..Len(s) : Claim(i)
  <2> DEFINE Bad == {i \in 0..Len(s) : ~Claim(i)}
  <2> HIDE DEF Claim
  <2> SUFFICES ASSUME Bad # {} PROVE FALSE
    OBVIOUS
  <2>1. Bad \in SUBSET Nat
    BY <1>3
  <2>2. PICK i \in Bad : \A k \in Bad : i <= k
    <3> HIDE DEF Bad
    <3> QED
      BY <2>1, LeastOf
  <2>3. \A k \in 0..Len(s) : k < i => Claim(k)
    BY <2>2
  <2>4. Claim(i)
    BY <1>8, <2>2, <2>3 DEF Claim
  <2> QED
    BY <2>4
<1>10. Match(Len(s), Len(t))
  <2>1. Len(s) \in 0..Len(s) /\ Len(t) \in 0..Len(t)
    BY <1>3
  <2> QED
    BY <1>7, <1>9, <2>1
<1> QED
  BY <1>10, SeqEqual DEF Match

-----------------------------------------------------------------------------
(* The canonical form *)

\* What bytes are made of.
Tokens == Texts \cup MemberKeys \cup {"[", "]", "{", "}"}

\* What stands between the brackets of a value's text, when its parts are written by f.
Entries(f, v) ==
  IF v.is = "array" THEN [i \in DOMAIN v.items |-> f[v.items[i]]]
  ELSE [i \in DOMAIN Ordered(v) |-> <<Ordered(v)[i]>> \o f[v.at[Ordered(v)[i]]]]

\* The brackets of a value that is not a literal.
Open(v) == IF v.is = "array" THEN "[" ELSE "{"
Close(v) == IF v.is = "array" THEN "]" ELSE "}"

\* A value's text, when its parts are written by f.
Written(f, v) ==
  IF v.is = "literal" THEN <<v.text>> ELSE (<<Open(v)>> \o FlattenSeq(Entries(f, v))) \o <<Close(v)>>

\* A value is a literal, an array or an object, and has what those have.
LEMMA ValueShape ==
  ASSUME NEW v \in Values
  PROVE  /\ v.is \in {"literal", "array", "object"}
         /\ v.is = "literal" => v.text \in Texts
         /\ v.is = "array" => v.items \in Seq(Values)
         /\ v.is = "object" => v.keys \in Seq(MemberKeys) /\ v.at \in [MemberKeys -> Values]
<1>1. v \in Literals \cup Arrays \cup Maps
  BY ValuesAssumption
<1>2. CASE v \in Literals
  BY <1>2 DEF Literals
<1>3. CASE v \in Arrays
  <2>1. v.items \in Seq(Values \ {Absent}) /\ v.is = "array"
    BY <1>3 DEF Arrays
  <2>2. v.items \in Seq(Values)
    BY <2>1, SeqMonotonic
  <2> QED
    BY <2>1, <2>2
<1>4. CASE v \in Maps
  BY <1>4 DEF Maps
<1> QED
  BY <1>1, <1>2, <1>3, <1>4

\* The parts of a value are values, and lower.
LEMMA PartsAreLower ==
  ASSUME NEW v \in Values
  PROVE  /\ Height[v] \in Nat
         /\ \A w \in Parts(v) : w \in Values /\ Height[w] \in Nat /\ Height[w] < Height[v]
<1>1. Parts(v) \subseteq Values
  <2>1. CASE v.is = "literal"
    BY <2>1 DEF Parts
  <2>2. CASE v.is = "array"
    <3>1. v.items \in Seq(Values)
      BY <2>2, ValueShape
    <3>2. \A i \in DOMAIN v.items : v.items[i] \in Values
      BY <3>1, LenProperties, ElementOfSeq
    <3> QED
      BY <2>2, <3>2 DEF Parts, ToSet
  <2>3. CASE v.is = "object"
    <3>1. v.keys \in Seq(MemberKeys) /\ v.at \in [MemberKeys -> Values]
      BY <2>3, ValueShape
    <3>2. \A i \in DOMAIN v.keys : v.keys[i] \in MemberKeys
      BY <3>1, LenProperties, ElementOfSeq
    <3>3. Members(v) \subseteq MemberKeys
      BY <3>2 DEF Members, ToSet
    <3> QED
      BY <2>3, <3>1, <3>3 DEF Parts
  <2> QED
    BY <2>1, <2>2, <2>3, ValueShape
<1> QED
  BY <1>1, ValuesAssumption

\* The items of an array are its parts.
LEMMA ItemsAreParts ==
  ASSUME NEW v \in Values, v.is = "array"
  PROVE  /\ Len(v.items) \in Nat /\ DOMAIN v.items = 1..Len(v.items)
         /\ \A i \in 1..Len(v.items) : v.items[i] \in Parts(v)
<1>1. v.items \in Seq(Values)
  BY ValueShape
<1>2. Len(v.items) \in Nat /\ DOMAIN v.items = 1..Len(v.items)
  BY <1>1, LenProperties
<1> QED
  BY <1>2 DEF Parts, ToSet

\* An object's members, in the order they are written, are its parts.
LEMMA MembersAreParts ==
  ASSUME NEW v \in Values, v.is = "object"
  PROVE  /\ Ordered(v) \in Seq(MemberKeys)
         /\ ToSet(Ordered(v)) = Members(v)
         /\ Len(Ordered(v)) \in Nat /\ DOMAIN Ordered(v) = 1..Len(Ordered(v))
         /\ \A key \in Members(v) : v.at[key] \in Parts(v)
         /\ \A i \in 1..Len(Ordered(v)) :
              Ordered(v)[i] \in MemberKeys /\ Ordered(v)[i] \in Members(v) /\ v.at[Ordered(v)[i]] \in Parts(v)
<1>1. v.keys \in Seq(MemberKeys)
  BY ValueShape
<1>2. \A i \in DOMAIN v.keys : v.keys[i] \in MemberKeys
  BY <1>1, LenProperties, ElementOfSeq
<1>3. Members(v) \in SUBSET MemberKeys
  BY <1>2 DEF Members, ToSet
<1>4. Ordered(v) \in Seq(MemberKeys) /\ ToSet(Ordered(v)) = Members(v)
  BY <1>3, TokensAssumption DEF Ordered
<1>5. Len(Ordered(v)) \in Nat /\ DOMAIN Ordered(v) = 1..Len(Ordered(v))
  BY <1>4, LenProperties
<1>6. \A key \in Members(v) : v.at[key] \in Parts(v)
  BY DEF Parts
<1>7. \A i \in 1..Len(Ordered(v)) : Ordered(v)[i] \in Members(v)
  BY <1>4, <1>5 DEF ToSet
<1> QED
  BY <1>3, <1>4, <1>5, <1>6, <1>7

\* Where parts are written in tokens, so is the whole.
LEMMA WrittenTexts ==
  ASSUME NEW v \in Values, NEW f, \A w \in Parts(v) : f[w] \in Seq(Tokens)
  PROVE  /\ v.is # "literal" => /\ Entries(f, v) \in Seq(Seq(Tokens))
                                /\ FlattenSeq(Entries(f, v)) \in Seq(Tokens)
         /\ Written(f, v) \in Seq(Tokens)
<1>1. /\ Open(v) \in Tokens /\ Close(v) \in Tokens
      /\ <<Open(v)>> \in Seq(Tokens) /\ <<Close(v)>> \in Seq(Tokens)
  <2>1. Open(v) \in Tokens /\ Close(v) \in Tokens
    BY DEF Open, Close, Tokens
  <2> QED
    BY <2>1
<1>2. CASE v.is = "literal"
  <2>1. v.text \in Tokens
    BY <1>2, ValueShape DEF Tokens
  <2> QED
    BY <1>2, <2>1 DEF Written
<1>3. CASE v.is # "literal"
  <2>1. Entries(f, v) \in Seq(Seq(Tokens))
    <3>1. CASE v.is = "array"
      <4>1. \A i \in 1..Len(v.items) : f[v.items[i]] \in Seq(Tokens)
        BY <3>1, ItemsAreParts
      <4>2. Entries(f, v) = [i \in 1..Len(v.items) |-> f[v.items[i]]]
        BY <3>1, ItemsAreParts DEF Entries
      <4> QED
        BY <3>1, <4>1, <4>2, ItemsAreParts
    <3>2. CASE v.is = "object"
      <4>1. ASSUME NEW i \in 1..Len(Ordered(v))
            PROVE  <<Ordered(v)[i]>> \o f[v.at[Ordered(v)[i]]] \in Seq(Tokens)
        <5>1. Ordered(v)[i] \in Tokens /\ f[v.at[Ordered(v)[i]]] \in Seq(Tokens)
          BY <3>2, MembersAreParts DEF Tokens
        <5>2. <<Ordered(v)[i]>> \in Seq(Tokens)
          BY <5>1
        <5> QED
          BY <5>1, <5>2, ConcatProperties
      <4>2. Entries(f, v) = [i \in 1..Len(Ordered(v)) |-> <<Ordered(v)[i]>> \o f[v.at[Ordered(v)[i]]]]
        BY <3>2, MembersAreParts DEF Entries
      <4> QED
        BY <3>2, <4>1, <4>2, MembersAreParts
    <3> QED
      BY <1>3, <3>1, <3>2, ValueShape
  <2>2. FlattenSeq(Entries(f, v)) \in Seq(Tokens)
    <3>1. Len(Entries(f, v)) \in Nat
      BY <2>1, LenProperties
    <3>2. PICK F \in [0..Len(Entries(f, v)) -> Seq(Tokens)] : FlattenSeq(Entries(f, v)) = F[Len(Entries(f, v))]
      BY <2>1, Flattened
    <3> QED
      BY <3>1, <3>2
  <2>3. Written(f, v) \in Seq(Tokens)
    <3>1. <<Open(v)>> \o FlattenSeq(Entries(f, v)) \in Seq(Tokens)
      BY <1>1, <2>2, ConcatProperties
    <3> QED
      BY <1>1, <1>3, <3>1, ConcatProperties DEF Written
  <2> QED
    BY <2>1, <2>2, <2>3
<1> QED
  BY <1>2, <1>3

\* How a value is written depends on how its parts are.
LEMMA WrittenFromParts ==
  ASSUME NEW v \in Values, NEW f, NEW g, \A w \in Parts(v) : f[w] = g[w]
  PROVE  Written(f, v) = Written(g, v)
<1>1. CASE v.is = "literal"
  BY <1>1 DEF Written
<1>2. CASE v.is # "literal"
  <2>1. Entries(f, v) = Entries(g, v)
    <3>1. CASE v.is = "array"
      <4>1. \A i \in DOMAIN v.items : f[v.items[i]] = g[v.items[i]]
        BY <3>1, ItemsAreParts
      <4> QED
        BY <3>1, <4>1 DEF Entries
    <3>2. CASE v.is = "object"
      <4>1. \A i \in DOMAIN Ordered(v) : f[v.at[Ordered(v)[i]]] = g[v.at[Ordered(v)[i]]]
        BY <3>2, MembersAreParts
      <4> QED
        BY <3>2, <4>1 DEF Entries
    <3> QED
      BY <1>2, <3>1, <3>2, ValueShape
  <2> QED
    BY <2>1 DEF Written
<1> QED
  BY <1>1, <1>2

\* The canonical form of every value, as a function.
Form == [v \in Values |-> Canonicalize(v)]

\* The canonical form of a value is written from those of its parts.
LEMMA CanonicalizeWrites ==
  ASSUME NEW v \in Values
  PROVE  /\ Form[v] = Canonicalize(v)
         /\ Form[v] = Written(Form, v)
         /\ Form[v] \in Seq(Tokens)
<1> DEFINE Body(f, w) ==
      CASE w.is = "literal" -> <<w.text>>
        [] w.is = "array"   ->
             <<"[">> \o FlattenSeq([i \in DOMAIN w.items |-> f[w.items[i]]]) \o <<"]">>
        [] OTHER ->
             <<"{">>
             \o FlattenSeq([i \in DOMAIN Ordered(w) |-> <<Ordered(w)[i]>> \o f[w.at[Ordered(w)[i]]]])
             \o <<"}">>
<1>1. ASSUME NEW w \in Values, NEW f PROVE Body(f, w) = Written(f, w)
  <2>1. CASE w.is = "literal"
    BY <2>1 DEF Written
  <2>2. CASE w.is = "array"
    BY <2>2 DEF Written, Entries, Open, Close
  <2>3. CASE w.is = "object"
    BY <2>3 DEF Written, Entries, Open, Close
  <2> QED
    BY <2>1, <2>2, <2>3, ValueShape
<1> DEFINE R == Seq(Tokens)
           Step == [w \in Values |-> [f \in [Values -> R] |-> Written(f, w)]]
<1>2. Descends(Values, Height, R, Step)
  <2>1. R # {}
    BY EmptySeq
  <2>2. Height \in [Values -> Nat]
    BY ValuesAssumption
  <2>3. \A w \in Values : \A f \in [Values -> R] : Written(f, w) \in R
    BY PartsAreLower, WrittenTexts
  <2>4. Step \in [Values -> [[Values -> R] -> R]]
    BY <2>3
  <2>5. ASSUME NEW w \in Values, NEW f \in [Values -> R], NEW g \in [Values -> R],
               \A u \in Values : Height[u] < Height[w] => f[u] = g[u]
        PROVE  Step[w][f] = Step[w][g]
    <3>1. \A u \in Parts(w) : f[u] = g[u]
      BY <2>5, PartsAreLower
    <3>2. Written(f, w) = Written(g, w)
      BY <3>1, WrittenFromParts
    <3> QED
      BY <3>2
  <2> HIDE DEF R, Step
  <2> QED
    BY <2>1, <2>2, <2>4, <2>5 DEF Descends
<1>3. PICK f \in [Values -> R] : \A w \in Values : f[w] = Step[w][f]
  <2> HIDE DEF R, Step
  <2> QED
    BY <1>2, Recursion
<1> DEFINE Fits(g) == g = [w \in Values |-> Body(g, w)]
           form == CHOOSE g : Fits(g)
<1>4. Fits(f)
  <2>1. \A w \in Values : f[w] = Body(f, w)
    BY <1>1, <1>3
  <2> HIDE DEF Body
  <2> QED
    BY <1>3, <2>1
<1>5. Fits(form)
  <2> HIDE DEF Fits
  <2> QED
    BY <1>4
<1>6. \A w \in Values : Canonicalize(w) = form[w]
  BY DEF Canonicalize
<1> HIDE DEF form
<1>7. \A w \in Values : form[w] = Written(form, w)
  <2> HIDE DEF Body
  <2> QED
    BY <1>1, <1>5
<1>8. Form = form
  <2>1. form = [w \in Values |-> form[w]]
    <3> HIDE DEF Body
    <3> QED
      BY <1>5
  <2> QED
    BY <1>6, <2>1 DEF Form
<1>9. \A w \in Values : form[w] \in R
  <2> DEFINE Bad == {Height[w] : w \in {u \in Values : form[u] \notin R}}
  <2> SUFFICES ASSUME Bad # {} PROVE FALSE
    OBVIOUS
  <2>1. Bad \in SUBSET Nat
    BY PartsAreLower
  <2>2. PICK k \in Bad : \A j \in Bad : k <= j
    <3> HIDE DEF Bad
    <3> QED
      BY <2>1, LeastOf
  <2>3. PICK w \in Values : k = Height[w] /\ form[w] \notin R
    OBVIOUS
  <2>4. \A u \in Parts(w) : form[u] \in R
    <3> SUFFICES ASSUME NEW u \in Parts(w), form[u] \notin R PROVE FALSE
      OBVIOUS
    <3>1. u \in Values /\ ~(Height[w] <= Height[u])
      BY PartsAreLower
    <3>2. Height[u] \in Bad
      BY <3>1
    <3> HIDE DEF Bad
    <3> QED
      BY <2>2, <2>3, <3>1, <3>2
  <2> QED
    BY <1>7, <2>3, <2>4, WrittenTexts
<1> QED
  BY <1>6, <1>7, <1>8, <1>9

\* A token alone is a text that ends in it.
LEMMA OneToken ==
  ASSUME NEW T, NEW t \in T
  PROVE  <<t>> \in Seq(T) /\ <<t>> # <<>> /\ LastToken(<<t>>) = t
BY DEF LastToken

\* Between the brackets of an array stand the forms of its items.
LEMMA ArrayEntries ==
  ASSUME NEW v \in Values, v.is = "array"
  PROVE  /\ Entries(Form, v) \in Seq(Seq(Tokens))
         /\ Len(Entries(Form, v)) = Len(v.items)
         /\ \A i \in 1..Len(v.items) :
              v.items[i] \in Values /\ v.items[i] \in Parts(v) /\ Entries(Form, v)[i] = Form[v.items[i]]
<1>1. \A w \in Parts(v) : w \in Values /\ Form[w] \in Seq(Tokens)
  BY PartsAreLower, CanonicalizeWrites
<1>2. Entries(Form, v) \in Seq(Seq(Tokens))
  BY <1>1, WrittenTexts
<1>3. Entries(Form, v) = [i \in 1..Len(v.items) |-> Form[v.items[i]]]
  BY ItemsAreParts DEF Entries
<1> QED
  BY <1>1, <1>2, <1>3, ItemsAreParts

\* Between the brackets of an object stand its keys, each before the form of its member.
LEMMA ObjectEntries ==
  ASSUME NEW v \in Values, v.is = "object"
  PROVE  /\ Entries(Form, v) \in Seq(Seq(Tokens))
         /\ Len(Entries(Form, v)) = Len(Ordered(v))
         /\ \A i \in 1..Len(Ordered(v)) :
              /\ Ordered(v)[i] \in Tokens
              /\ v.at[Ordered(v)[i]] \in Values /\ v.at[Ordered(v)[i]] \in Parts(v)
              /\ Entries(Form, v)[i] = <<Ordered(v)[i]>> \o Form[v.at[Ordered(v)[i]]]
<1>1. \A w \in Parts(v) : w \in Values /\ Form[w] \in Seq(Tokens)
  BY PartsAreLower, CanonicalizeWrites
<1>2. Entries(Form, v) \in Seq(Seq(Tokens))
  BY <1>1, WrittenTexts
<1>3. Entries(Form, v) = [i \in 1..Len(Ordered(v)) |-> <<Ordered(v)[i]>> \o Form[v.at[Ordered(v)[i]]]]
  BY MembersAreParts DEF Entries
<1>4. \A i \in 1..Len(Ordered(v)) : Ordered(v)[i] \in Tokens /\ v.at[Ordered(v)[i]] \in Parts(v)
  BY MembersAreParts DEF Tokens
<1> QED
  BY <1>1, <1>2, <1>3, <1>4, MembersAreParts

\* A form ends in the text of a literal or in a closing bracket.
LEMMA FormsEnd ==
  ASSUME NEW v \in Values
  PROVE  /\ Form[v] # <<>>
         /\ LastToken(Form[v]) = IF v.is = "literal" THEN v.text ELSE Close(v)
         /\ LastToken(Form[v]) # "[" /\ LastToken(Form[v]) # "{"
<1>1. Form[v] = Written(Form, v)
  BY CanonicalizeWrites
<1>2. CASE v.is = "literal"
  <2>1. Form[v] = <<v.text>> /\ v.text \in Texts
    BY <1>1, <1>2, ValueShape DEF Written
  <2>2. <<v.text>> # <<>> /\ LastToken(<<v.text>>) = v.text
    BY <2>1, OneToken
  <2>3. v.text # "[" /\ v.text # "{"
    BY <2>1, TokensAssumption
  <2> QED
    BY <1>2, <2>1, <2>2, <2>3
<1>3. CASE v.is # "literal"
  <2> DEFINE c == Close(v)
             o == Open(v)
             inner == FlattenSeq(Entries(Form, v))
  <2>1. c \in Tokens /\ o \in Tokens /\ c # "[" /\ c # "{"
    BY DEF Close, Open, Tokens
  <2>2. Form[v] = (<<o>> \o inner) \o <<c>>
    BY <1>1, <1>3 DEF Written
  <2>3. inner \in Seq(Tokens)
    <3>1. \A w \in Parts(v) : Form[w] \in Seq(Tokens)
      BY PartsAreLower, CanonicalizeWrites
    <3> QED
      BY <1>3, <3>1, WrittenTexts
  <2> HIDE DEF c, o, inner
  <2>4. <<c>> \in Seq(Tokens) /\ <<c>> # <<>> /\ LastToken(<<c>>) = c /\ <<o>> \in Seq(Tokens)
    BY <2>1, OneToken
  <2>5. <<o>> \o inner \in Seq(Tokens)
    BY <2>3, <2>4, ConcatProperties
  <2>6. (<<o>> \o inner) \o <<c>> # <<>> /\ LastToken((<<o>> \o inner) \o <<c>>) = c
    BY <2>4, <2>5, LastOfConcat
  <2> QED
    BY <1>3, <2>1, <2>2, <2>6 DEF c
<1> QED
  BY <1>2, <1>3

\* No entry is empty, and none ends in an opening bracket.
LEMMA EntriesEnd ==
  ASSUME NEW v \in Values, v.is # "literal"
  PROVE  /\ Entries(Form, v) \in Seq(Seq(Tokens))
         /\ \A i \in 1..Len(Entries(Form, v)) :
              /\ Entries(Form, v)[i] # <<>>
              /\ LastToken(Entries(Form, v)[i]) # "[" /\ LastToken(Entries(Form, v)[i]) # "{"
<1>1. CASE v.is = "array"
  <2>1. ASSUME NEW i \in 1..Len(v.items)
        PROVE  /\ Entries(Form, v)[i] # <<>>
               /\ LastToken(Entries(Form, v)[i]) # "[" /\ LastToken(Entries(Form, v)[i]) # "{"
    <3> DEFINE x == v.items[i]
    <3>1. x \in Values /\ Entries(Form, v)[i] = Form[x]
      BY <1>1, ArrayEntries
    <3> HIDE DEF x
    <3> QED
      BY <3>1, FormsEnd
  <2> QED
    BY <1>1, <2>1, ArrayEntries
<1>2. CASE v.is = "object"
  <2>1. ASSUME NEW i \in 1..Len(Ordered(v))
        PROVE  /\ Entries(Form, v)[i] # <<>>
               /\ LastToken(Entries(Form, v)[i]) # "[" /\ LastToken(Entries(Form, v)[i]) # "{"
    <3> DEFINE key == Ordered(v)[i]
               x == v.at[key]
    <3>1. /\ key \in Tokens /\ x \in Values
          /\ Entries(Form, v)[i] = <<key>> \o Form[x]
      BY <1>2, ObjectEntries
    <3> HIDE DEF key, x
    <3>2. /\ Form[x] \in Seq(Tokens) /\ Form[x] # <<>>
          /\ LastToken(Form[x]) # "[" /\ LastToken(Form[x]) # "{"
      BY <3>1, CanonicalizeWrites, FormsEnd
    <3>3. <<key>> \in Seq(Tokens)
      BY <3>1
    <3>4. <<key>> \o Form[x] # <<>> /\ LastToken(<<key>> \o Form[x]) = LastToken(Form[x])
      BY <3>2, <3>3, LastOfConcat
    <3> QED
      BY <3>1, <3>2, <3>4
  <2> QED
    BY <1>2, <2>1, ObjectEntries
<1> QED
  BY <1>1, <1>2, ValueShape

\* Two values have the same kind, and the same text or the same list of texts.
Alike(v, w) ==
  /\ v.is = w.is
  /\ v.is = "literal" => v.text = w.text
  /\ v.is # "literal" => Entries(Form, v) = Entries(Form, w)

\* Values that are alike have the same form.
LEMMA AlikeForms ==
  ASSUME NEW v \in Values, NEW w \in Values, Alike(v, w)
  PROVE  Form[v] = Form[w]
<1>1. Form[v] = Written(Form, v) /\ Form[w] = Written(Form, w)
  BY CanonicalizeWrites
<1>2. Written(Form, v) = Written(Form, w)
  BY DEF Alike, Written, Open, Close
<1> QED
  BY <1>1, <1>2

\* Whose form a text ends in is told by its end, where it is that of v.
MatchesAll(v) == \A w \in Values : \A a, b \in Seq(Tokens) : a \o Form[v] = b \o Form[w] => Alike(v, w)

\* Such a form is known by its end.
LEMMA FormsAgree ==
  ASSUME NEW x \in Values, MatchesAll(x), NEW y \in Values, NEW a \in Seq(Tokens), NEW b \in Seq(Tokens),
         a \o Form[x] = b \o Form[y]
  PROVE  Form[x] = Form[y]
BY AlikeForms DEF MatchesAll

\* A member is its name and the form of its value.
Named(key, x) == <<key>> \o Form[x]

\* Three texts in a row, grouped either way.
Moves(x, y, z) == x \o (y \o z) = (x \o y) \o z

\* The two groups are the same text.
LEMMA AnyMoves ==
  ASSUME NEW T, NEW x \in Seq(T), NEW y \in Seq(T), NEW z \in Seq(T)
  PROVE  Moves(x, y, z)
BY ConcatAssociative DEF Moves

\* Where two texts end alike, what stands before the ends is equal, and ends alike.
EndAlike(T, a, p, f, b, q, g) ==
  a \o (p \o f) = b \o (q \o g) =>
    /\ a \o p \in Seq(T) /\ b \o q \in Seq(T)
    /\ (a \o p) \o f = (b \o q) \o g
    /\ f = g => LastToken(p) = LastToken(q)

\* Texts that end alike do so in two parts as in one.
LEMMA TextsEndAlike ==
  ASSUME NEW T, NEW a \in Seq(T), NEW b \in Seq(T), NEW p \in Seq(T), NEW q \in Seq(T),
         NEW f \in Seq(T), NEW g \in Seq(T), p # <<>>, q # <<>>
  PROVE  EndAlike(T, a, p, f, b, q, g)
<1>1. Moves(a, p, f)
  BY AnyMoves
<1>2. Moves(b, q, g)
  BY AnyMoves
<1>3. a \o p \in Seq(T) /\ b \o q \in Seq(T)
  BY ConcatProperties
<1>4. ASSUME (a \o p) \o f = (b \o q) \o g, f = g
      PROVE  LastToken(p) = LastToken(q)
  <2>1. a \o p = b \o q
    BY <1>3, <1>4, CancelRight
  <2>2. LastToken(a \o p) = LastToken(p)
    BY LastOfConcat
  <2>3. LastToken(b \o q) = LastToken(q)
    BY LastOfConcat
  <2> QED
    BY <2>1, <2>2, <2>3
<1> QED
  BY <1>1, <1>2, <1>3, <1>4 DEF EndAlike, Moves

\* A member is known by its end, as its value is.
LEMMA NamedMatch ==
  ASSUME NEW x \in Values, MatchesAll(x), NEW y \in Values, NEW k \in Tokens, NEW l \in Tokens
  PROVE  KnownByItsEnd(Tokens, Named(k, x), Named(l, y))
<1> DEFINE p == <<k>>
           q == <<l>>
<1>1. /\ p \in Seq(Tokens) /\ p # <<>> /\ LastToken(p) = k
      /\ q \in Seq(Tokens) /\ q # <<>> /\ LastToken(q) = l
  BY OneToken
<1>2. Form[x] \in Seq(Tokens) /\ Form[y] \in Seq(Tokens)
  BY CanonicalizeWrites
<1> SUFFICES ASSUME NEW a \in Seq(Tokens), NEW b \in Seq(Tokens), a \o Named(k, x) = b \o Named(l, y)
             PROVE  Named(k, x) = Named(l, y)
  BY DEF KnownByItsEnd
<1>3. a \o (p \o Form[x]) = b \o (q \o Form[y])
  BY DEF Named
<1> HIDE DEF p, q
<1>4. EndAlike(Tokens, a, p, Form[x], b, q, Form[y])
  BY <1>1, <1>2, TextsEndAlike
<1>5. /\ a \o p \in Seq(Tokens) /\ b \o q \in Seq(Tokens)
      /\ (a \o p) \o Form[x] = (b \o q) \o Form[y]
      /\ Form[x] = Form[y] => LastToken(p) = LastToken(q)
  BY <1>3, <1>4 DEF EndAlike
<1>6. Form[x] = Form[y]
  BY <1>5, FormsAgree
<1>7. k = l
  BY <1>1, <1>5, <1>6
<1> QED
  BY <1>6, <1>7 DEF Named

\* Entries are known by their ends, as their values are.
LEMMA EntriesMatch ==
  ASSUME NEW v \in Values, NEW w \in Values, v.is # "literal", v.is = w.is,
         \A u \in Parts(v) : MatchesAll(u)
  PROVE  \A i \in 1..Len(Entries(Form, v)), j \in 1..Len(Entries(Form, w)) :
           KnownByItsEnd(Tokens, Entries(Form, v)[i], Entries(Form, w)[j])
<1>2. CASE v.is = "array"
  <2>1. ASSUME NEW i \in 1..Len(v.items), NEW j \in 1..Len(w.items)
        PROVE  KnownByItsEnd(Tokens, Entries(Form, v)[i], Entries(Form, w)[j])
    <3> DEFINE x == v.items[i]
               y == w.items[j]
    <3>1. /\ x \in Values /\ x \in Parts(v) /\ Entries(Form, v)[i] = Form[x]
          /\ y \in Values /\ Entries(Form, w)[j] = Form[y]
      BY <1>2, ArrayEntries
    <3> HIDE DEF x, y
    <3>2. MatchesAll(x)
      BY <3>1
    <3> QED
      BY <3>1, <3>2, FormsAgree DEF KnownByItsEnd
  <2> QED
    BY <1>2, <2>1, ArrayEntries
<1>3. CASE v.is = "object"
  <2>1. ASSUME NEW i \in 1..Len(Ordered(v)), NEW j \in 1..Len(Ordered(w))
        PROVE  KnownByItsEnd(Tokens, Entries(Form, v)[i], Entries(Form, w)[j])
    <3> DEFINE k == Ordered(v)[i]
               l == Ordered(w)[j]
               x == v.at[k]
               y == w.at[l]
    <3>1. /\ k \in Tokens /\ x \in Values /\ x \in Parts(v) /\ Entries(Form, v)[i] = Named(k, x)
          /\ l \in Tokens /\ y \in Values /\ Entries(Form, w)[j] = Named(l, y)
      BY <1>3, ObjectEntries DEF Named
    <3> HIDE DEF k, l, x, y
    <3>2. MatchesAll(x)
      BY <3>1
    <3> QED
      BY <3>1, <3>2, NamedMatch
  <2> QED
    BY <1>3, <2>1, ObjectEntries
<1> QED
  BY <1>2, <1>3, ValueShape

\* A closing bracket may be taken away from both of two texts.
Reopens(o, c, a, i, b, j) ==
  a \o ((<<o>> \o i) \o <<c>>) = b \o ((<<o>> \o j) \o <<c>>) => After(a, o, i) = After(b, o, j)

\* The closing brackets of two equal texts are one.
LEMMA BracketsMatch ==
  ASSUME NEW T, NEW o \in T, NEW c \in T, NEW a \in Seq(T), NEW b \in Seq(T),
         NEW i \in Seq(T), NEW j \in Seq(T)
  PROVE  Reopens(o, c, a, i, b, j)
<1> SUFFICES ASSUME a \o ((<<o>> \o i) \o <<c>>) = b \o ((<<o>> \o j) \o <<c>>)
             PROVE  After(a, o, i) = After(b, o, j)
  BY DEF Reopens
<1> DEFINE x == <<o>> \o i
           y == <<o>> \o j
           z == <<c>>
<1>1. <<o>> \in Seq(T) /\ z \in Seq(T) /\ x \in Seq(T) /\ y \in Seq(T)
  BY ConcatProperties
<1>2. x # <<>> /\ y # <<>>
  <2>1. Len(<<o>>) = 1 /\ Len(x) = 1 + Len(i) /\ Len(y) = 1 + Len(j) /\ Len(i) \in Nat /\ Len(j) \in Nat
    BY <1>1, ConcatProperties, LenProperties
  <2> QED
    BY <2>1
<1>3. a \o (x \o z) = b \o (y \o z)
  OBVIOUS
<1> HIDE DEF x, y, z
<1>4. EndAlike(T, a, x, z, b, y, z)
  BY <1>1, <1>2, TextsEndAlike
<1>5. a \o x \in Seq(T) /\ b \o y \in Seq(T) /\ (a \o x) \o z = (b \o y) \o z
  BY <1>3, <1>4 DEF EndAlike
<1>6. a \o x = b \o y
  BY <1>1, <1>5, CancelRight
<1> QED
  BY <1>6 DEF After, x, y

\* A form is known by its end when those of its parts are.
LEMMA OneFormMatches ==
  ASSUME NEW v \in Values, \A u \in Parts(v) : MatchesAll(u)
  PROVE  MatchesAll(v)
<1> SUFFICES ASSUME NEW w \in Values, NEW a \in Seq(Tokens), NEW b \in Seq(Tokens),
                    a \o Form[v] = b \o Form[w]
             PROVE  Alike(v, w)
  BY DEF MatchesAll
<1>1. LastToken(Form[v]) = LastToken(Form[w])
  <2>1. Form[v] \in Seq(Tokens) /\ Form[v] # <<>> /\ Form[w] \in Seq(Tokens) /\ Form[w] # <<>>
    BY CanonicalizeWrites, FormsEnd
  <2>2. LastToken(a \o Form[v]) = LastToken(Form[v])
    BY <2>1, LastOfConcat
  <2>3. LastToken(b \o Form[w]) = LastToken(Form[w])
    BY <2>1, LastOfConcat
  <2> QED
    BY <2>2, <2>3
<1>2. v.is = w.is /\ (v.is = "literal" => v.text = w.text)
  <2>1. \A u \in Values : u.is = "literal" => u.text \notin {"]", "}"}
    BY ValueShape, TokensAssumption
  <2>2. /\ LastToken(Form[v]) = IF v.is = "literal" THEN v.text ELSE Close(v)
        /\ LastToken(Form[w]) = IF w.is = "literal" THEN w.text ELSE Close(w)
    BY FormsEnd
  <2>3. v.is \in {"literal", "array", "object"} /\ w.is \in {"literal", "array", "object"}
    BY ValueShape
  <2> QED
    BY <1>1, <2>1, <2>2, <2>3 DEF Close
<1>3. CASE v.is # "literal"
  <2> DEFINE o == Open(v)
             c == Close(v)
             s == Entries(Form, v)
             t == Entries(Form, w)
             i == FlattenSeq(s)
             j == FlattenSeq(t)
  <2>1. o \in Tokens /\ c \in Tokens /\ o \in {"[", "{"}
    BY DEF Open, Close, Tokens
  <2>2. Form[v] = (<<o>> \o i) \o <<c>> /\ Form[w] = (<<o>> \o j) \o <<c>>
    <3>1. Form[v] = Written(Form, v) /\ Form[w] = Written(Form, w)
      BY CanonicalizeWrites
    <3> QED
      BY <1>2, <1>3, <3>1 DEF Written, Open, Close
  <2>3. i \in Seq(Tokens) /\ j \in Seq(Tokens)
    <3>1. \A u \in Values : Form[u] \in Seq(Tokens)
      BY CanonicalizeWrites
    <3> QED
      BY <1>2, <1>3, <3>1, PartsAreLower, WrittenTexts
  <2>4. /\ s \in Seq(Seq(Tokens)) /\ \A k \in 1..Len(s) : s[k] # <<>> /\ LastToken(s[k]) # o
        /\ t \in Seq(Seq(Tokens)) /\ \A k \in 1..Len(t) : t[k] # <<>> /\ LastToken(t[k]) # o
    BY <1>2, <1>3, <2>1, EntriesEnd
  <2>5. \A k \in 1..Len(s), l \in 1..Len(t) : KnownByItsEnd(Tokens, s[k], t[l])
    BY <1>2, <1>3, EntriesMatch
  <2>6. a \o ((<<o>> \o i) \o <<c>>) = b \o ((<<o>> \o j) \o <<c>>)
    BY <2>2
  <2> HIDE DEF o, c, s, t
  <2>7. After(a, o, i) = After(b, o, j)
    <3> HIDE DEF i, j
    <3>1. Reopens(o, c, a, i, b, j)
      BY <2>1, <2>3, BracketsMatch
    <3> QED
      BY <2>6, <3>1 DEF Reopens
  <2>8. s = t
    BY <2>1, <2>4, <2>5, <2>7, ListsMatch
  <2> QED
    BY <1>2, <1>3, <2>8 DEF Alike, s, t
<1> QED
  BY <1>2, <1>3 DEF Alike

\* Reading a form from its end tells which value's it is, whatever stands before.
LEMMA FormsMatch == \A v \in Values : MatchesAll(v)
<1> DEFINE Bad == {Height[v] : v \in {w \in Values : ~MatchesAll(w)}}
<1> SUFFICES ASSUME Bad # {} PROVE FALSE
  OBVIOUS
<1>1. Bad \in SUBSET Nat
  BY PartsAreLower
<1>2. PICK k \in Bad : \A j \in Bad : k <= j
  <2> HIDE DEF Bad
  <2> QED
    BY <1>1, LeastOf
<1>3. PICK v \in Values : k = Height[v] /\ ~MatchesAll(v)
  OBVIOUS
<1>4. \A u \in Parts(v) : MatchesAll(u)
  <2> SUFFICES ASSUME NEW u \in Parts(v), ~MatchesAll(u) PROVE FALSE
    OBVIOUS
  <2>1. u \in Values /\ ~(Height[v] <= Height[u])
    BY PartsAreLower
  <2>2. Height[u] \in Bad
    BY <2>1
  <2> HIDE DEF Bad
  <2> QED
    BY <1>2, <1>3, <2>1, <2>2
<1> QED
  BY <1>3, <1>4, OneFormMatches

-----------------------------------------------------------------------------
(* What a value means, and whether it has a form *)

\* What is compared.
Pairs == Values \X Values

\* Whether two values mean the same, when whether their parts do is told by f.
SameParts(f, v, w) ==
  /\ v.is = w.is
  /\ v.is = "literal" => v.text = w.text
  /\ v.is = "array" =>
       /\ Len(v.items) = Len(w.items)
       /\ \A i \in DOMAIN v.items : f[<<v.items[i], w.items[i]>>]
  /\ v.is = "object" =>
       /\ Members(v) = Members(w)
       /\ \A key \in Members(v) : f[<<v.at[key], w.at[key]>>]

\* Whether two values mean the same depends on whether their parts do.
LEMMA SamePartsFromParts ==
  ASSUME NEW v \in Values, NEW w \in Values, NEW f, NEW g,
         \A x \in Parts(v), y \in Parts(w) : f[<<x, y>>] = g[<<x, y>>]
  PROVE  SameParts(f, v, w) <=> SameParts(g, v, w)
<1>1. CASE v.is = "literal" \/ v.is # w.is
  BY <1>1 DEF SameParts
<1>2. CASE v.is = "array" /\ w.is = "array"
  <2>1. CASE Len(v.items) # Len(w.items)
    BY <1>2, <2>1 DEF SameParts
  <2>2. CASE Len(v.items) = Len(w.items)
    <3>1. \A i \in DOMAIN v.items : f[<<v.items[i], w.items[i]>>] = g[<<v.items[i], w.items[i]>>]
      BY <1>2, <2>2, ItemsAreParts
    <3> QED
      BY <1>2, <3>1 DEF SameParts
  <2> QED
    BY <2>1, <2>2
<1>3. CASE v.is = "object" /\ w.is = "object"
  <2>1. CASE Members(v) # Members(w)
    BY <1>3, <2>1 DEF SameParts
  <2>2. CASE Members(v) = Members(w)
    <3>1. \A key \in Members(v) : f[<<v.at[key], w.at[key]>>] = g[<<v.at[key], w.at[key]>>]
      BY <1>3, <2>2, MembersAreParts
    <3> QED
      BY <1>3, <3>1 DEF SameParts
  <2> QED
    BY <2>1, <2>2
<1> QED
  BY <1>1, <1>2, <1>3, ValueShape

\* Whether two values mean the same, as a function.
Same == [p \in Pairs |-> SameMeaning(p[1], p[2])]

\* Two values mean the same when their parts do.
LEMMA SameUnfolds ==
  ASSUME NEW v \in Values, NEW w \in Values
  PROVE  SameMeaning(v, w) <=> SameParts(Same, v, w)
<1> DEFINE Body(f, p) == SameParts(f, p[1], p[2])
           h == [p \in Pairs |-> Height[p[1]]]
           Step == [p \in Pairs |-> [f \in [Pairs -> BOOLEAN] |-> Body(f, p)]]
<1>1. Descends(Pairs, h, BOOLEAN, Step)
  <2>1. h \in [Pairs -> Nat]
    BY ValuesAssumption DEF Pairs
  <2>2. \A p \in Pairs : \A f : Body(f, p) \in BOOLEAN
    BY DEF SameParts
  <2>3. Step \in [Pairs -> [[Pairs -> BOOLEAN] -> BOOLEAN]]
    <3> HIDE DEF Body
    <3> QED
      BY <2>2
  <2>4. ASSUME NEW p \in Pairs, NEW f \in [Pairs -> BOOLEAN], NEW g \in [Pairs -> BOOLEAN],
               \A q \in Pairs : h[q] < h[p] => f[q] = g[q]
        PROVE  Step[p][f] = Step[p][g]
    <3>1. p[1] \in Values /\ p[2] \in Values
      BY DEF Pairs
    <3>2. ASSUME NEW x \in Parts(p[1]), NEW y \in Parts(p[2]) PROVE f[<<x, y>>] = g[<<x, y>>]
      <4>1. <<x, y>> \in Pairs /\ Height[x] < Height[p[1]]
        BY <3>1, PartsAreLower DEF Pairs
      <4>2. h[<<x, y>>] < h[p]
        BY <4>1
      <4> QED
        BY <2>4, <4>1, <4>2
    <3>3. Body(f, p) <=> Body(g, p)
      BY <3>1, <3>2, SamePartsFromParts
    <3>4. Body(f, p) = Body(g, p)
      <4>1. Body(f, p) \in BOOLEAN /\ Body(g, p) \in BOOLEAN
        BY <2>2
      <4> HIDE DEF Body
      <4> QED
        BY <3>3, <4>1
    <3> HIDE DEF Body
    <3> QED
      BY <3>4
  <2>5. BOOLEAN # {}
    OBVIOUS
  <2> HIDE DEF h, Step
  <2> QED
    BY <2>1, <2>3, <2>4, <2>5 DEF Descends
<1>2. PICK f \in [Pairs -> BOOLEAN] : \A p \in Pairs : f[p] = Step[p][f]
  <2> HIDE DEF Step, h
  <2> QED
    BY <1>1, Recursion
<1> DEFINE Fits(g) == g = [p \in Pairs |-> Body(g, p)]
           same == CHOOSE g : Fits(g)
<1>3. Fits(f)
  <2> HIDE DEF Body
  <2>1. \A p \in Pairs : f[p] = Body(f, p)
    BY <1>2
  <2> QED
    BY <2>1
<1>4. Fits(same)
  <2> HIDE DEF Fits
  <2> QED
    BY <1>3
<1>5. \A x, y \in Values : SameMeaning(x, y) = same[<<x, y>>]
  BY DEF SameMeaning, SameParts, Pairs
<1> HIDE DEF same
<1>6. \A p \in Pairs : same[p] = Body(same, p)
  <2> HIDE DEF Body
  <2> QED
    BY <1>4
<1>7. Same = same
  <2>1. same = [p \in Pairs |-> same[p]]
    <3> HIDE DEF Body
    <3> QED
      BY <1>4
  <2>2. \A p \in Pairs : p[1] \in Values /\ p[2] \in Values /\ p = <<p[1], p[2]>>
    BY DEF Pairs
  <2>3. \A p \in Pairs : SameMeaning(p[1], p[2]) = same[p]
    BY <1>5, <2>2
  <2> QED
    BY <2>1, <2>3 DEF Same
<1>8. same[<<v, w>>] = SameParts(same, v, w)
  <2>1. <<v, w>> \in Pairs
    BY DEF Pairs
  <2> QED
    BY <1>6, <2>1
<1> QED
  BY <1>5, <1>7, <1>8

\* Whether a value has a form, when whether its parts do is told by f.
PortableParts(f, v) ==
  /\ v.is = "literal" => v.text \notin NotFinite
  /\ \A w \in Parts(v) : f[w]

\* Whether a value has a form, as a function.
HasForm == [v \in Values |-> Portable(v)]

\* A value has a form when its parts do and it is no infinite number.
LEMMA PortableUnfolds ==
  ASSUME NEW v \in Values
  PROVE  /\ Portable(v) \in BOOLEAN
         /\ Portable(v) <=> PortableParts(HasForm, v)
<1> DEFINE Body(f, x) == PortableParts(f, x)
           Step == [x \in Values |-> [f \in [Values -> BOOLEAN] |-> Body(f, x)]]
<1>1. Descends(Values, Height, BOOLEAN, Step)
  <2>1. Height \in [Values -> Nat]
    BY ValuesAssumption
  <2>2. \A x \in Values : \A f : Body(f, x) \in BOOLEAN
    BY DEF PortableParts
  <2>3. Step \in [Values -> [[Values -> BOOLEAN] -> BOOLEAN]]
    <3> HIDE DEF Body
    <3> QED
      BY <2>2
  <2>4. ASSUME NEW x \in Values, NEW f \in [Values -> BOOLEAN], NEW g \in [Values -> BOOLEAN],
               \A y \in Values : Height[y] < Height[x] => f[y] = g[y]
        PROVE  Step[x][f] = Step[x][g]
    <3>1. \A y \in Parts(x) : f[y] = g[y]
      BY <2>4, PartsAreLower
    <3>2. Body(f, x) <=> Body(g, x)
      BY <3>1 DEF PortableParts
    <3>3. Body(f, x) = Body(g, x)
      <4>1. Body(f, x) \in BOOLEAN /\ Body(g, x) \in BOOLEAN
        BY <2>2
      <4> HIDE DEF Body
      <4> QED
        BY <3>2, <4>1
    <3> HIDE DEF Body
    <3> QED
      BY <3>3
  <2>5. BOOLEAN # {}
    OBVIOUS
  <2> HIDE DEF Step
  <2> QED
    BY <2>1, <2>3, <2>4, <2>5 DEF Descends
<1>2. PICK f \in [Values -> BOOLEAN] : \A x \in Values : f[x] = Step[x][f]
  <2> HIDE DEF Step
  <2> QED
    BY <1>1, Recursion
<1> DEFINE Fits(g) == g = [x \in Values |-> Body(g, x)]
           ok == CHOOSE g : Fits(g)
<1>3. Fits(f)
  <2> HIDE DEF Body
  <2>1. \A x \in Values : f[x] = Body(f, x)
    BY <1>2
  <2> QED
    BY <2>1
<1>4. Fits(ok)
  <2> HIDE DEF Fits
  <2> QED
    BY <1>3
<1>5. \A x \in Values : Portable(x) = ok[x]
  BY DEF Portable, PortableParts
<1> HIDE DEF ok
<1>6. \A x \in Values : ok[x] = Body(ok, x)
  <2> HIDE DEF Body
  <2> QED
    BY <1>4
<1>7. HasForm = ok
  <2>1. ok = [x \in Values |-> ok[x]]
    <3> HIDE DEF Body
    <3> QED
      BY <1>4
  <2> QED
    BY <1>5, <2>1 DEF HasForm
<1>8. Body(ok, v) \in BOOLEAN
  BY DEF PortableParts
<1> HIDE DEF Body
<1>9. Portable(v) = ok[v] /\ ok[v] = Body(ok, v)
  BY <1>5, <1>6
<1>10. Portable(v) \in BOOLEAN /\ (Portable(v) <=> Body(ok, v))
  BY <1>8, <1>9
<1> QED
  BY <1>7, <1>10 DEF Body

\* Equal forms and equal meanings are the same thing, and so is having a form.
Agree(v, w) ==
  /\ Form[v] = Form[w] <=> SameMeaning(v, w)
  /\ SameMeaning(v, w) => (Portable(v) <=> Portable(w))

\* The functions and the operators say the same.
LEMMA AgreePairs ==
  ASSUME NEW x \in Values, NEW y \in Values
  PROVE  Same[<<x, y>>] = SameMeaning(x, y) /\ HasForm[x] = Portable(x)
<1>1. <<x, y>> \in Pairs
  BY DEF Pairs
<1> QED
  BY <1>1 DEF Same, HasForm

\* Forms that are equal are of values that mean the same.
LEMMA EqualFormsMeanTheSame ==
  ASSUME NEW v \in Values, \A x \in Parts(v) : \A y \in Values : Agree(x, y),
         NEW w \in Values, Form[v] = Form[w]
  PROVE  SameMeaning(v, w)
<1>1. Alike(v, w)
  <2>1. <<>> \in Seq(Tokens)
    OBVIOUS
  <2>2. <<>> \o Form[v] = <<>> \o Form[w]
    OBVIOUS
  <2> QED
    BY <2>1, <2>2, FormsMatch DEF MatchesAll
<1>2. CASE v.is = "literal"
  BY <1>1, <1>2, SameUnfolds DEF SameParts, Alike
<1>3. CASE v.is = "array"
  <2>1. w.is = "array" /\ Entries(Form, v) = Entries(Form, w)
    BY <1>1, <1>3 DEF Alike
  <2>2. Len(v.items) = Len(w.items)
    BY <1>3, <2>1, ArrayEntries
  <2>3. ASSUME NEW i \in DOMAIN v.items PROVE Same[<<v.items[i], w.items[i]>>]
    <3> DEFINE x == v.items[i]
               y == w.items[i]
    <3>1. i \in 1..Len(v.items)
      BY <1>3, ItemsAreParts
    <3>2. /\ x \in Values /\ x \in Parts(v) /\ Entries(Form, v)[i] = Form[x]
          /\ y \in Values /\ Entries(Form, w)[i] = Form[y]
      BY <1>3, <2>1, <2>2, <3>1, ArrayEntries
    <3> HIDE DEF x, y
    <3>3. SameMeaning(x, y)
      BY <2>1, <3>2 DEF Agree
    <3>4. Same[<<x, y>>]
      BY <3>2, <3>3, AgreePairs
    <3> QED
      BY <3>4 DEF x, y
  <2> QED
    BY <1>3, <2>1, <2>2, <2>3, SameUnfolds DEF SameParts
<1>4. CASE v.is = "object"
  <2>1. w.is = "object" /\ Entries(Form, v) = Entries(Form, w)
    BY <1>1, <1>4 DEF Alike
  <2>2. Len(Ordered(v)) = Len(Ordered(w))
    BY <1>4, <2>1, ObjectEntries
  <2>3. ASSUME NEW i \in 1..Len(Ordered(v))
        PROVE  Ordered(v)[i] = Ordered(w)[i] /\ Same[<<v.at[Ordered(v)[i]], w.at[Ordered(w)[i]]>>]
    <3> DEFINE k == Ordered(v)[i]
               l == Ordered(w)[i]
               x == v.at[k]
               y == w.at[l]
    <3>1. /\ k \in Tokens /\ x \in Values /\ x \in Parts(v) /\ Entries(Form, v)[i] = Named(k, x)
          /\ l \in Tokens /\ y \in Values /\ Entries(Form, w)[i] = Named(l, y)
      BY <1>4, <2>1, <2>2, ObjectEntries DEF Named
    <3> HIDE DEF k, l, x, y
    <3>2. Named(k, x) = Named(l, y)
      BY <2>1, <3>1
    <3>3. MatchesAll(x)
      BY <3>1, FormsMatch
    <3>4. k = l /\ Form[x] = Form[y]
      <4> DEFINE p == <<k>>
                 q == <<l>>
                 e == <<>>
      <4>1. /\ p \in Seq(Tokens) /\ p # <<>> /\ LastToken(p) = k
            /\ q \in Seq(Tokens) /\ q # <<>> /\ LastToken(q) = l
        BY <3>1, OneToken
      <4>2. e \in Seq(Tokens) /\ Form[x] \in Seq(Tokens) /\ Form[y] \in Seq(Tokens)
        BY <3>1, CanonicalizeWrites
      <4>3. e \o (p \o Form[x]) = e \o (q \o Form[y])
        BY <3>2 DEF Named
      <4> HIDE DEF p, q, e
      <4>4. EndAlike(Tokens, e, p, Form[x], e, q, Form[y])
        BY <4>1, <4>2, TextsEndAlike
      <4>5. /\ e \o p \in Seq(Tokens) /\ e \o q \in Seq(Tokens)
            /\ (e \o p) \o Form[x] = (e \o q) \o Form[y]
            /\ Form[x] = Form[y] => LastToken(p) = LastToken(q)
        BY <4>3, <4>4 DEF EndAlike
      <4>6. Form[x] = Form[y]
        BY <3>1, <3>3, <4>5, FormsAgree
      <4> QED
        BY <4>1, <4>5, <4>6
    <3>5. SameMeaning(x, y)
      BY <3>1, <3>4 DEF Agree
    <3>6. Same[<<x, y>>]
      BY <3>1, <3>5, AgreePairs
    <3> QED
      BY <3>4, <3>6 DEF k, l, x, y
  <2>4. Ordered(v) = Ordered(w)
    BY <1>4, <2>1, <2>2, <2>3, MembersAreParts, SeqEqual
  <2>5. Members(v) = Members(w)
    BY <1>4, <2>1, <2>4, MembersAreParts
  <2>6. ASSUME NEW key \in Members(v) PROVE Same[<<v.at[key], w.at[key]>>]
    <3>1. PICK i \in DOMAIN Ordered(v) : key = Ordered(v)[i]
      BY <1>4, MembersAreParts DEF ToSet
    <3> QED
      BY <1>4, <2>3, <2>4, <3>1, MembersAreParts
  <2> QED
    BY <1>4, <2>1, <2>5, <2>6, SameUnfolds DEF SameParts
<1> QED
  BY <1>2, <1>3, <1>4, ValueShape

\* Values that mean the same have the same form, and either both have one or neither.
LEMMA SameMeaningsAgree ==
  ASSUME NEW v \in Values, \A x \in Parts(v) : \A y \in Values : Agree(x, y),
         NEW w \in Values, SameMeaning(v, w)
  PROVE  Form[v] = Form[w] /\ (Portable(v) <=> Portable(w))
<1>1. SameParts(Same, v, w)
  BY SameUnfolds
<1>2. /\ Portable(v) <=> PortableParts(HasForm, v)
      /\ Portable(w) <=> PortableParts(HasForm, w)
  BY PortableUnfolds
<1>3. CASE v.is = "literal"
  <2>1. w.is = "literal" /\ v.text = w.text
    BY <1>1, <1>3 DEF SameParts
  <2>2. Form[v] = Form[w]
    BY <1>3, <2>1, AlikeForms DEF Alike
  <2>3. Parts(v) = {} /\ Parts(w) = {}
    BY <1>3, <2>1 DEF Parts
  <2> QED
    BY <1>2, <1>3, <2>1, <2>2, <2>3 DEF PortableParts
<1>4. CASE v.is = "array"
  <2>1. w.is = "array" /\ Len(v.items) = Len(w.items)
    BY <1>1, <1>4 DEF SameParts
  <2>2. ASSUME NEW i \in 1..Len(v.items)
        PROVE  Entries(Form, v)[i] = Entries(Form, w)[i] /\ HasForm[v.items[i]] = HasForm[w.items[i]]
    <3> DEFINE x == v.items[i]
               y == w.items[i]
    <3>1. /\ x \in Values /\ x \in Parts(v) /\ Entries(Form, v)[i] = Form[x]
          /\ y \in Values /\ Entries(Form, w)[i] = Form[y]
      BY <1>4, <2>1, ArrayEntries
    <3>2. Same[<<x, y>>]
      BY <1>1, <1>4, ItemsAreParts DEF SameParts
    <3> HIDE DEF x, y
    <3>3. SameMeaning(x, y) /\ HasForm[x] = Portable(x) /\ HasForm[y] = Portable(y)
      BY <3>1, <3>2, AgreePairs
    <3>4. Form[x] = Form[y] /\ (Portable(x) <=> Portable(y))
      BY <3>1, <3>3 DEF Agree
    <3>5. HasForm[x] = HasForm[y]
      <4>1. Portable(x) \in BOOLEAN /\ Portable(y) \in BOOLEAN
        BY <3>1, PortableUnfolds
      <4> QED
        BY <3>3, <3>4, <4>1
    <3> QED
      BY <3>1, <3>4, <3>5 DEF x, y
  <2>3. Entries(Form, v) = Entries(Form, w)
    BY <1>4, <2>1, <2>2, ArrayEntries, SeqEqual
  <2>4. Form[v] = Form[w]
    BY <1>4, <2>1, <2>3, AlikeForms DEF Alike
  <2>5. (\A x \in Parts(v) : HasForm[x]) <=> (\A y \in Parts(w) : HasForm[y])
    <3>1. /\ Parts(v) = {v.items[i] : i \in 1..Len(v.items)}
          /\ Parts(w) = {w.items[i] : i \in 1..Len(v.items)}
      BY <1>4, <2>1, ItemsAreParts DEF Parts, ToSet
    <3> QED
      BY <2>2, <3>1
  <2> QED
    BY <1>2, <1>4, <2>1, <2>4, <2>5 DEF PortableParts
<1>5. CASE v.is = "object"
  <2>1. w.is = "object" /\ Members(v) = Members(w) /\ Ordered(v) = Ordered(w)
    BY <1>1, <1>5 DEF SameParts, Ordered
  <2>2. ASSUME NEW key \in Members(v)
        PROVE  Form[v.at[key]] = Form[w.at[key]] /\ HasForm[v.at[key]] = HasForm[w.at[key]]
    <3> DEFINE x == v.at[key]
               y == w.at[key]
    <3>1. x \in Values /\ x \in Parts(v) /\ y \in Values
      BY <1>5, <2>1, MembersAreParts, PartsAreLower
    <3>2. Same[<<x, y>>]
      BY <1>1, <1>5 DEF SameParts
    <3> HIDE DEF x, y
    <3>3. SameMeaning(x, y) /\ HasForm[x] = Portable(x) /\ HasForm[y] = Portable(y)
      BY <3>1, <3>2, AgreePairs
    <3>4. Form[x] = Form[y] /\ (Portable(x) <=> Portable(y))
      BY <3>1, <3>3 DEF Agree
    <3>5. HasForm[x] = HasForm[y]
      <4>1. Portable(x) \in BOOLEAN /\ Portable(y) \in BOOLEAN
        BY <3>1, PortableUnfolds
      <4> QED
        BY <3>3, <3>4, <4>1
    <3> QED
      BY <3>4, <3>5 DEF x, y
  <2>3. Entries(Form, v) = Entries(Form, w)
    <3>1. \A i \in DOMAIN Ordered(v) : Form[v.at[Ordered(v)[i]]] = Form[w.at[Ordered(v)[i]]]
      BY <1>5, <2>2, MembersAreParts
    <3> QED
      BY <1>5, <2>1, <3>1 DEF Entries
  <2>4. Form[v] = Form[w]
    BY <1>5, <2>1, <2>3, AlikeForms DEF Alike
  <2>5. (\A x \in Parts(v) : HasForm[x]) <=> (\A y \in Parts(w) : HasForm[y])
    BY <1>5, <2>1, <2>2 DEF Parts
  <2> QED
    BY <1>2, <1>5, <2>1, <2>4, <2>5 DEF PortableParts
<1> QED
  BY <1>3, <1>4, <1>5, ValueShape

\* Any two values do.
LEMMA AllAgree == \A v \in Values : \A w \in Values : Agree(v, w)
<1> DEFINE Agrees(v) == \A w \in Values : Agree(v, w)
           Bad == {Height[v] : v \in {w \in Values : ~Agrees(w)}}
<1> SUFFICES ASSUME Bad # {} PROVE FALSE
  OBVIOUS
<1>1. Bad \in SUBSET Nat
  BY PartsAreLower
<1>2. PICK k \in Bad : \A j \in Bad : k <= j
  <2> HIDE DEF Bad
  <2> QED
    BY <1>1, LeastOf
<1>3. PICK v \in Values : k = Height[v] /\ ~Agrees(v)
  OBVIOUS
<1>4. \A u \in Parts(v) : Agrees(u)
  <2> SUFFICES ASSUME NEW u \in Parts(v), ~Agrees(u) PROVE FALSE
    OBVIOUS
  <2>1. u \in Values /\ ~(Height[v] <= Height[u])
    BY PartsAreLower
  <2>2. Height[u] \in Bad
    BY <2>1
  <2> HIDE DEF Bad
  <2> QED
    BY <1>2, <1>3, <2>1, <2>2
<1>5. Agrees(v)
  <2> SUFFICES ASSUME NEW w \in Values PROVE Agree(v, w)
    OBVIOUS
  <2>1. Form[v] = Form[w] => SameMeaning(v, w)
    BY <1>4, EqualFormsMeanTheSame
  <2>2. SameMeaning(v, w) => Form[v] = Form[w] /\ (Portable(v) <=> Portable(w))
    BY <1>4, SameMeaningsAgree
  <2> QED
    BY <2>1, <2>2 DEF Agree
<1> QED
  BY <1>3, <1>5
\* The canonical form of a value is that of what means the same, and of nothing else: it leaves out the
\* order of members and those that are undefined, at any depth, and tells everything else (canonicalize).
THEOREM FormsAreMeanings ==
  \A v, w \in Values : Canonicalize(v) = Canonicalize(w) <=> SameMeaning(v, w)
<1> SUFFICES ASSUME NEW v \in Values, NEW w \in Values
             PROVE  Canonicalize(v) = Canonicalize(w) <=> SameMeaning(v, w)
  OBVIOUS
<1>1. Form[v] = Canonicalize(v) /\ Form[w] = Canonicalize(w)
  BY CanonicalizeWrites
<1>2. Agree(v, w)
  BY AllAgree
<1> QED
  BY <1>1, <1>2 DEF Agree

-----------------------------------------------------------------------------
(* What the device accepts *)

\* What was signed has a form, the signature is over that form, and the device compares with it.
SignedInv ==
  /\ object = Nothing => verdict = "none"
  /\ object # Nothing =>
       /\ object \in Values /\ original \in Values
       /\ Portable(original)
       /\ bytes = Canonicalize(original)
  /\ verdict # "none" => (verdict = "accepted" <=> Portable(object) /\ Canonicalize(object) = bytes)

\* It holds of everything that is signed, rewritten or replaced on its way.
LEMMA SignedInvariant == CanonSpec => []SignedInv
<1>1. CanonInit => SignedInv
  BY DEF CanonInit, SignedInv
<1>2. SignedInv /\ [CanonNext]_canonVars => SignedInv'
  <2> SUFFICES ASSUME SignedInv, [CanonNext]_canonVars PROVE SignedInv'
    OBVIOUS
  <2>1. ASSUME NEW v \in Objects, SignObject(v) PROVE SignedInv'
    <3>1. v \in Values
      BY ValuesAssumption
    <3> QED
      BY <2>1, <3>1 DEF SignObject, SignedInv
  <2>2. ASSUME NEW v \in Objects, Replace(v) PROVE SignedInv'
    <3>1. v \in Values
      BY ValuesAssumption
    <3> QED
      BY <2>2, <3>1 DEF Replace, SignedInv
  <2>3. CASE Travel
    <3>1. object' \in Rewritten(object) \cup RewrittenInside(object)
      BY <2>3 DEF Travel
    <3>2. object \in Values
      BY <2>3 DEF Travel, SignedInv
    <3>3. object' \in Values
      BY <3>1, <3>2, ValuesAssumption
    <3> QED
      BY <2>3, <3>3 DEF Travel, SignedInv
  <2>4. CASE VerifyObject
    <3>1. /\ object # Nothing /\ UNCHANGED <<object, bytes, original>>
          /\ verdict' = IF Portable(object) /\ Canonicalize(object) = bytes THEN "accepted" ELSE "refused"
      BY <2>4 DEF VerifyObject
    <3> QED
      BY <3>1 DEF SignedInv
  <2>5. CASE UNCHANGED canonVars
    BY <2>5 DEF canonVars, SignedInv
  <2> QED
    BY <2>1, <2>2, <2>3, <2>4, <2>5 DEF CanonNext
<1> QED
  BY <1>1, <1>2, PTL DEF CanonSpec

\* A device accepts exactly what means the same as what was signed: the form of a value, read from its
\* end, tells everything but the order of members and the undefined ones (canonicalize in canonical.ts,
\* sortValue in the client's canonical.ts).
THEOREM SignaturesStandForMeanings == CanonSpec => []AcceptsWhatWasSigned
<1>1. SignedInv => AcceptsWhatWasSigned
  <2> SUFFICES ASSUME SignedInv, verdict # "none"
               PROVE  verdict = "accepted" <=> SameMeaning(object, original)
    BY DEF AcceptsWhatWasSigned
  <2>1. /\ object \in Values /\ original \in Values
        /\ Portable(original)
        /\ bytes = Canonicalize(original)
        /\ verdict = "accepted" <=> Portable(object) /\ Canonicalize(object) = bytes
    BY DEF SignedInv
  <2>2. Agree(object, original)
    BY <2>1, AllAgree
  <2>3. Form[object] = Canonicalize(object) /\ Form[original] = Canonicalize(original)
    BY <2>1, CanonicalizeWrites
  <2> QED
    BY <2>1, <2>2, <2>3 DEF Agree
<1> QED
  BY <1>1, SignedInvariant, PTL
=============================================================================
