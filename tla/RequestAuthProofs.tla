------------------------- MODULE RequestAuthProofs -------------------------
(*************************************************************************)
(* What the gate promises, proved for any number of installs, nonces,    *)
(* instances and any clocks.                                             *)
(*                                                                       *)
(* A signed request runs at most once, from what the constants owe each  *)
(* other: 2 * Skew + Lag <= NonceTtl. A nonce that was accepted is       *)
(* remembered until no copy of its request can pass the timestamp test   *)
(* and reach the cache any more.                                         *)
(*                                                                       *)
(* A rate window of an install counts what that install asked for: every *)
(* check it counts is a request of its own, accepted once, and no longer *)
(* under way.                                                            *)
(*************************************************************************)
EXTENDS RequestAuth, FiniteSetTheorems, TLAPS

-----------------------------------------------------------------------------
(* The invariant *)

Typed ==
  /\ now \in Nat \ {0}
  /\ sent \in [Nonces -> Message \cup {NoMessage}]
  /\ request \in [Workers -> Request \cup {NoRequest}]
  /\ seen \in [Nonces -> Nat]
  /\ served \in [Nonces -> Nat]

ClockBounded == now \in 1..MaxTime

\* The two steps before the nonce is registered.
Early(r) == r # NoRequest /\ r.step \in {"key", "nonce"}

\* A request that has not registered its nonce began within the skew of its timestamp, and no longer
\* than Lag ago.
BeganFresh ==
  \A w \in Workers : Early(request[w]) =>
    LET r == request[w] IN
      /\ sent[r.nonce] # NoMessage
      /\ sent[r.nonce].time - Skew <= r.began /\ r.began <= sent[r.nonce].time + Skew
      /\ r.began <= now /\ now <= r.began + Lag

\* An accepted nonce is remembered for as long as a copy may still come to be looked up.
RememberedLongEnough ==
  \A n \in Nonces : served[n] > 0 =>
    /\ sent[n] # NoMessage
    /\ \/ seen[n] >= sent[n].time - Skew + NonceTtl
       \/ now > sent[n].time + Skew + Lag

AuthInv == Typed /\ BeganFresh /\ RememberedLongEnough /\ RequestRunsOnce

-----------------------------------------------------------------------------
(* The steps *)

\* What a message, a request and the constants are made of.
LEMMA Parts ==
  /\ {Skew, NonceTtl, Lag} \subseteq Nat /\ 2 * Skew + Lag <= NonceTtl /\ MaxTime \in Nat \ {0}
  /\ \A m \in Message : m.time \in Int
  /\ \A r \in Request : r.nonce \in Nonces /\ r.began \in 1..MaxTime /\ r.step \in Step
  /\ NoMessage \notin Message /\ NoRequest \notin Request
BY TimeAssumption, SentinelAssumption DEF Message, Request

\* The invariant holds at the start.
LEMMA InvInit == Init => AuthInv
BY Parts DEF Init, AuthInv, Typed, Early, BeganFresh, RememberedLongEnough, RequestRunsOnce

\* A step that touches neither clock nor messages nor nonces, and of whose requests none is at an
\* earlier step than before, keeps the invariant.
LEMMA LaterStep ==
  ASSUME AuthInv, UNCHANGED <<now, sent, seen, served>>,
         request' \in [Workers -> Request \cup {NoRequest}],
         \A w \in Workers : Early(request'[w]) =>
           Early(request[w]) /\ request'[w].nonce = request[w].nonce /\ request'[w].began = request[w].began
  PROVE  AuthInv'
<1>1. Typed' /\ RememberedLongEnough' /\ RequestRunsOnce'
  BY DEF AuthInv, Typed, RememberedLongEnough, RequestRunsOnce
<1>2. BeganFresh'
  BY DEF AuthInv, BeganFresh
<1> QED
  BY <1>1, <1>2 DEF AuthInv

\* Going on to another step keeps nonce and beginning.
LEMMA Proceeds ==
  ASSUME Typed, NEW w \in Workers, NEW step \in Step, request[w] # NoRequest, Proceed(w, step)
  PROVE  /\ request' \in [Workers -> Request \cup {NoRequest}]
         /\ request'[w] # NoRequest /\ request'[w].step = step
         /\ request'[w].nonce = request[w].nonce /\ request'[w].began = request[w].began
         /\ \A v \in Workers \ {w} : request'[v] = request[v]
<1> DEFINE r == [request[w] EXCEPT !.step = step]
<1>1. request[w] \in Request
  BY DEF Typed
<1>2. r \in Request /\ r.step = step /\ r.nonce = request[w].nonce /\ r.began = request[w].began
  BY <1>1 DEF Request
<1>3. request' = [request EXCEPT ![w] = r]
  BY DEF Proceed
<1> HIDE DEF r
<1> QED
  BY <1>2, <1>3, Parts DEF Typed

\* A request that ends is gone.
LEMMA Finishes ==
  ASSUME Typed, NEW w \in Workers, Finish(w)
  PROVE  /\ request' \in [Workers -> Request \cup {NoRequest}]
         /\ request'[w] = NoRequest
         /\ \A v \in Workers \ {w} : request'[v] = request[v]
BY DEF Typed, Finish

\* A device sends a message under a nonce of its own.
LEMMA SendStep ==
  ASSUME AuthInv, NEW n \in Nonces, NEW m, Send(n, m)
  PROVE  AuthInv'
<1>1. /\ m \in Message /\ sent[n] = NoMessage /\ sent' = [sent EXCEPT ![n] = m]
      /\ UNCHANGED <<now, request, seen, served>>
  BY DEF Send
<1>2. Typed'
  BY <1>1 DEF AuthInv, Typed
<1>3. \A k \in Nonces : sent[k] # NoMessage => sent'[k] = sent[k]
  BY <1>1 DEF AuthInv, Typed
<1>4. BeganFresh'
  BY <1>1, <1>3, Parts DEF AuthInv, Typed, BeganFresh, Early
<1>5. RememberedLongEnough' /\ RequestRunsOnce'
  BY <1>1, <1>3 DEF AuthInv, RememberedLongEnough, RequestRunsOnce
<1> QED
  BY <1>2, <1>4, <1>5 DEF AuthInv

\* A copy arrives, with a timestamp within the skew of this instance's clock.
LEMMA BeginStep ==
  ASSUME AuthInv, now \in 1..MaxTime, NEW w \in Workers, NEW n \in Nonces, Begin(w, n)
  PROVE  AuthInv'
<1> DEFINE r == [nonce |-> n, began |-> now, step |-> "key"]
<1>1. /\ sent[n] # NoMessage /\ Fresh(n) /\ request' = [request EXCEPT ![w] = r]
      /\ UNCHANGED <<now, sent, seen, served>>
  BY DEF Begin
<1>2. r \in Request /\ r.nonce = n /\ r.began = now
  BY DEF Request, Step
<1> HIDE DEF r
<1>3. Typed' /\ RememberedLongEnough' /\ RequestRunsOnce'
  BY <1>1, <1>2 DEF AuthInv, Typed, RememberedLongEnough, RequestRunsOnce
<1>4. ASSUME NEW v \in Workers, Early(request'[v]), v # w
      PROVE  request'[v] = request[v]
  BY <1>1, <1>4 DEF AuthInv, Typed
<1>5. request'[w] = r
  BY <1>1 DEF AuthInv, Typed
<1>6. now \in Nat /\ Lag \in Nat /\ now <= now + Lag
  BY Parts DEF AuthInv, Typed
<1>7. BeganFresh'
  BY <1>1, <1>2, <1>4, <1>5, <1>6 DEF AuthInv, BeganFresh, Fresh
<1> QED
  BY <1>3, <1>7 DEF AuthInv

\* The signature is verified, or the request is refused.
LEMMA VerifyStep ==
  ASSUME AuthInv, NEW w \in Workers, VerifySignature(w)
  PROVE  AuthInv'
<1>1. Early(request[w]) /\ request[w] # NoRequest /\ UNCHANGED <<now, sent, seen, served>>
  BY DEF VerifySignature, At, Early
<1>2. Proceed(w, "nonce") \/ Finish(w)
  BY DEF VerifySignature
<1>3. CASE Proceed(w, "nonce")
  BY <1>1, <1>3, Proceeds, LaterStep DEF AuthInv, Step, Early
<1>4. CASE Finish(w)
  BY <1>1, <1>4, Finishes, LaterStep DEF AuthInv, Early
<1> QED
  BY <1>2, <1>3, <1>4

\* A nonce that nobody remembers was never accepted: a copy of an accepted one is still remembered.
LEMMA ForgottenIsUnserved ==
  ASSUME AuthInv, NEW w \in Workers, Early(request[w]), seen[request[w].nonce] = 0
  PROVE  served[request[w].nonce] = 0
<1> DEFINE n == request[w].nonce
           t == sent[n].time
           b == request[w].began
<1>1. n \in Nonces /\ b \in Nat /\ now \in Nat \ {0} /\ served[n] \in Nat
  BY Parts DEF AuthInv, Typed, Early
<1>2. sent[n] # NoMessage /\ t - Skew <= b /\ b <= t + Skew /\ b <= now /\ now <= b + Lag
  BY DEF AuthInv, BeganFresh
<1>3. t \in Int
  BY <1>1, <1>2, Parts DEF AuthInv, Typed
<1>4. served[n] > 0 => 0 >= t - Skew + NonceTtl \/ now > t + Skew + Lag
  BY <1>1 DEF AuthInv, RememberedLongEnough
<1> HIDE DEF n, t, b
<1>5. ~(served[n] > 0)
  BY <1>1, <1>2, <1>3, <1>4, Parts
<1> QED
  BY <1>1, <1>5 DEF n

\* A fresh nonce is registered and its request accepted; a remembered one is refused.
LEMMA RegisterStep ==
  ASSUME AuthInv, NEW w \in Workers, RegisterNonce(w)
  PROVE  AuthInv'
<1> DEFINE n == request[w].nonce
<1>1. Early(request[w]) /\ request[w] # NoRequest /\ UNCHANGED <<now, sent>> /\ n \in Nonces
  BY Parts DEF RegisterNonce, At, Early, AuthInv, Typed
<1>2. CASE seen[n] > 0
  BY <1>1, <1>2, Finishes, LaterStep DEF AuthInv, Early, RegisterNonce
<1>3. CASE ~(seen[n] > 0)
  <2>1. seen[n] = 0 /\ served[n] = 0
    BY <1>1, <1>3, ForgottenIsUnserved DEF AuthInv, Typed
  <2>2. /\ seen' = [seen EXCEPT ![n] = now + NonceTtl]
        /\ served' = [served EXCEPT ![n] = @ + 1]
        /\ Proceed(w, "limit") \/ Finish(w)
    BY <1>3 DEF RegisterNonce, Accept
  <2>3. /\ request' \in [Workers -> Request \cup {NoRequest}] /\ ~Early(request'[w])
        /\ \A v \in Workers \ {w} : request'[v] = request[v]
    BY <1>1, <2>2, Proceeds, Finishes DEF AuthInv, Step, Early
  <2>4. /\ sent[n] # NoMessage /\ sent[n].time - Skew <= now
    <3>1. request[w].began \in Nat /\ now \in Nat /\ request[w] \in Request
      BY <1>1, Parts DEF AuthInv, Typed
    <3>2. /\ sent[n] # NoMessage /\ sent[n].time - Skew <= request[w].began
          /\ request[w].began <= now
      BY <1>1 DEF AuthInv, BeganFresh
    <3>3. sent[n].time \in Int
      BY <1>1, <3>2, Parts DEF AuthInv, Typed
    <3> QED
      BY <3>1, <3>2, <3>3, Parts
  <2>5. sent[n].time \in Int /\ now \in Nat
    BY <1>1, <2>4, Parts DEF AuthInv, Typed
  <2> HIDE DEF n
  <2>6. seen'[n] >= sent[n].time - Skew + NonceTtl /\ served'[n] = 1
    BY <1>1, <2>1, <2>2, <2>4, <2>5, Parts DEF AuthInv, Typed
  <2>7. \A k \in Nonces \ {n} : seen'[k] = seen[k] /\ served'[k] = served[k]
    BY <2>2 DEF AuthInv, Typed
  <2>8. Typed'
    BY <1>1, <2>2, <2>3, Parts DEF AuthInv, Typed
  <2>9. BeganFresh'
    BY <1>1, <2>3 DEF AuthInv, BeganFresh
  <2>10. RememberedLongEnough' /\ RequestRunsOnce'
    BY <1>1, <2>4, <2>6, <2>7 DEF AuthInv, RememberedLongEnough, RequestRunsOnce
  <2> QED
    BY <2>8, <2>9, <2>10 DEF AuthInv
<1> QED
  BY <1>2, <1>3

\* A check is counted and ends.
LEMMA LimitStep ==
  ASSUME AuthInv, NEW w \in Workers, LimitCheck(w) \/ InstanceDies(w)
  PROVE  AuthInv'
BY Finishes, LaterStep DEF LimitCheck, InstanceDies, AuthInv, Early

\* Time passes: a nonce that expires does so when no copy can be fresh any more.
LEMMA TickStep ==
  ASSUME AuthInv, Tick
  PROVE  AuthInv'
<1>1. /\ now' = now + 1 /\ UNCHANGED <<sent, request, served>>
      /\ seen' = [n \in Nonces |-> IF seen[n] < now + 1 THEN 0 ELSE seen[n]]
      /\ \A w \in Workers : Early(request[w]) => now < request[w].began + Lag
  BY DEF Tick, Expire, At, Early
<1>2. Typed' /\ RequestRunsOnce'
  BY <1>1 DEF AuthInv, Typed, RequestRunsOnce
<1>3. BeganFresh'
  <2> SUFFICES ASSUME NEW w \in Workers, Early(request[w])
               PROVE  LET r == request[w] IN
                        /\ sent[r.nonce] # NoMessage
                        /\ sent[r.nonce].time - Skew <= r.began /\ r.began <= sent[r.nonce].time + Skew
                        /\ r.began <= now + 1 /\ now + 1 <= r.began + Lag
    BY <1>1 DEF BeganFresh, Early
  <2>1. request[w].began \in Nat /\ now \in Nat /\ Lag \in Nat
    BY Parts DEF AuthInv, Typed, Early
  <2> QED
    BY <1>1, <2>1 DEF AuthInv, BeganFresh
<1>4. RememberedLongEnough'
  <2> SUFFICES ASSUME NEW n \in Nonces, served[n] > 0
               PROVE  /\ sent[n] # NoMessage
                      /\ \/ seen'[n] >= sent[n].time - Skew + NonceTtl
                         \/ now + 1 > sent[n].time + Skew + Lag
    BY <1>1 DEF RememberedLongEnough
  <2>1. /\ sent[n] # NoMessage
        /\ \/ seen[n] >= sent[n].time - Skew + NonceTtl
           \/ now > sent[n].time + Skew + Lag
    BY DEF AuthInv, RememberedLongEnough
  <2>2. sent[n].time \in Int /\ now \in Nat /\ seen[n] \in Nat
    BY <2>1, Parts DEF AuthInv, Typed
  <2>3. seen'[n] = IF seen[n] < now + 1 THEN 0 ELSE seen[n]
    BY <1>1
  <2> QED
    BY <2>1, <2>2, <2>3, Parts
<1> QED
  BY <1>2, <1>3, <1>4 DEF AuthInv

\* The clock stays within its bound, which the times of requests are typed by.
LEMMA ClockStep == ClockBounded /\ [Next]_vars => ClockBounded'
<1>1. ASSUME Tick, ClockBounded PROVE ClockBounded'
  BY <1>1, Parts DEF Tick, ClockBounded
<1>2. [Next]_vars => Tick \/ UNCHANGED now
  BY DEF Next, vars, Enrol, Send, Begin, VerifySignature, RegisterNonce, LimitCheck, InstanceDies
<1> QED
  BY <1>1, <1>2 DEF ClockBounded

\* Every step keeps the invariant.
LEMMA InvStep == ClockBounded /\ AuthInv /\ [Next]_vars => AuthInv'
<1> SUFFICES ASSUME ClockBounded, AuthInv, [Next]_vars PROVE AuthInv'
  OBVIOUS
<1>1. CASE UNCHANGED vars
  BY <1>1 DEF vars, AuthInv, Typed, Early, BeganFresh, RememberedLongEnough, RequestRunsOnce
<1>2. ASSUME NEW i \in Installs, NEW k \in Keys, NEW authorised \in BOOLEAN, Enrol(i, k, authorised)
      PROVE  AuthInv'
  BY <1>2 DEF Enrol, AuthInv, Typed, Early, BeganFresh, RememberedLongEnough, RequestRunsOnce
<1> QED
  BY <1>1, <1>2, SendStep, BeginStep, VerifyStep, RegisterStep, LimitStep, TickStep DEF Next, ClockBounded

-----------------------------------------------------------------------------
(* Theorems *)

\* The inductive invariant of the gate: whoever has not registered its nonce yet began fresh and not
\* long ago, and whatever was accepted is remembered for as long as that.
THEOREM AuthInvariant == Spec => [](ClockBounded /\ AuthInv)
<1>1. Init => ClockBounded /\ AuthInv
  BY InvInit, Parts DEF Init, ClockBounded
<1> QED
  BY <1>1, InvStep, ClockStep, PTL DEF Spec

\* A signed request is carried out at most once, however late and however often it is delivered and
\* on however many instances (authenticate and registerNonce).
THEOREM RequestsRunOnce == Spec => []RequestRunsOnce
<1>1. AuthInv => RequestRunsOnce
  BY DEF AuthInv
<1> QED
  BY <1>1, AuthInvariant, PTL

-----------------------------------------------------------------------------
(* Budgets *)

\* The signed requests of an install that were accepted.
Accepted(i) == {n \in Nonces : served[n] > 0 /\ sent[n].install = i}

\* Accepted checks that are still to be counted.
Awaiting == {request[w].nonce : w \in {v \in Workers : At(v, "limit")}}

BudgetTyped ==
  /\ window \in [Budget -> [count : Nat, resetAt : Nat]]
  /\ asked \in [Installs -> Nat]

\* A request that waits to be counted was accepted, and it alone serves its nonce.
AwaitingIsAccepted ==
  /\ \A w \in Workers : At(w, "limit") => served[request[w].nonce] > 0
  /\ \A v, w \in Workers :
       At(v, "limit") /\ At(w, "limit") /\ request[v].nonce = request[w].nonce => v = w

EnrolsAreAsked == \A i \in Installs : window[<<"enroll", i>>].count <= asked[i]

\* What a window of checks counts is accepted and no longer waits.
ChecksAreAccepted ==
  \A i \in Installs :
    /\ IsFiniteSet(Accepted(i))
    /\ window[<<"check", i>>].count <= Cardinality(Accepted(i) \ Awaiting)

BudgetInv == BudgetTyped /\ AwaitingIsAccepted /\ EnrolsAreAsked /\ ChecksAreAccepted

\* Whatever is finite has a number of elements, and no part of it has more.
LEMMA PartsAreFewer ==
  ASSUME NEW S, NEW T, IsFiniteSet(T), S \subseteq T
  PROVE  /\ IsFiniteSet(S) /\ Cardinality(S) \in Nat /\ Cardinality(T) \in Nat
         /\ Cardinality(S) <= Cardinality(T)
BY FS_Subset, FS_CardinalityType

\* The budgets begin empty, and nothing was accepted.
LEMMA BudgetInit == Init => BudgetInv
<1> SUFFICES ASSUME Init PROVE BudgetInv
  OBVIOUS
<1>1. BudgetTyped
  BY DEF Init, BudgetTyped, NoWindow
<1>2. AwaitingIsAccepted /\ EnrolsAreAsked
  BY DEF Init, AwaitingIsAccepted, At, EnrolsAreAsked, Budget, Scope, NoWindow
<1>3. ChecksAreAccepted
  <2> SUFFICES ASSUME NEW i \in Installs
               PROVE  /\ IsFiniteSet(Accepted(i))
                      /\ window[<<"check", i>>].count <= Cardinality(Accepted(i) \ Awaiting)
    BY DEF ChecksAreAccepted
  <2>1. Accepted(i) = {} /\ Accepted(i) \ Awaiting = {}
    BY DEF Init, Accepted
  <2>2. window[<<"check", i>>].count = 0
    BY DEF Init, Budget, Scope, NoWindow
  <2> QED
    BY <2>1, <2>2, FS_EmptySet
<1> QED
  BY <1>1, <1>2, <1>3 DEF BudgetInv

\* A step that accepts nothing, lets nothing new wait and counts nothing keeps the budgets.
LEMMA NothingCounted ==
  ASSUME AuthInv, BudgetInv, BudgetTyped', UNCHANGED <<served, asked>>,
         \A n \in Nonces : served[n] > 0 => sent'[n] = sent[n],
         \A w \in Workers : At(w, "limit")' => At(w, "limit") /\ request'[w].nonce = request[w].nonce,
         \A b \in Budget : window'[b].count <= window[b].count
  PROVE  BudgetInv'
<1>1. AwaitingIsAccepted'
  BY DEF BudgetInv, AwaitingIsAccepted
<1>2. EnrolsAreAsked'
  <2> SUFFICES ASSUME NEW i \in Installs PROVE window'[<<"enroll", i>>].count <= asked'[i]
    BY DEF EnrolsAreAsked
  <2>1. <<"enroll", i>> \in Budget
    BY DEF Budget, Scope
  <2> QED
    BY <2>1 DEF BudgetInv, BudgetTyped, EnrolsAreAsked
<1>3. ChecksAreAccepted'
  <2> SUFFICES ASSUME NEW i \in Installs
               PROVE  /\ IsFiniteSet(Accepted(i)')
                      /\ window'[<<"check", i>>].count <= Cardinality(Accepted(i)' \ Awaiting')
    BY DEF ChecksAreAccepted
  <2>1. Accepted(i)' = Accepted(i)
    BY DEF Accepted, AuthInv, Typed
  <2>2. Accepted(i) \ Awaiting \subseteq Accepted(i) \ Awaiting'
    BY DEF Awaiting
  <2>3. IsFiniteSet(Accepted(i)) /\ window[<<"check", i>>].count <= Cardinality(Accepted(i) \ Awaiting)
    BY DEF BudgetInv, ChecksAreAccepted
  <2>4. /\ Cardinality(Accepted(i) \ Awaiting) \in Nat
        /\ Cardinality(Accepted(i) \ Awaiting') \in Nat
        /\ Cardinality(Accepted(i) \ Awaiting) <= Cardinality(Accepted(i) \ Awaiting')
    <3>1. IsFiniteSet(Accepted(i) \ Awaiting')
      BY <2>3, PartsAreFewer
    <3> QED
      BY <2>2, <3>1, PartsAreFewer
  <2>5. <<"check", i>> \in Budget
    BY DEF Budget, Scope
  <2>6. window'[<<"check", i>>].count <= window[<<"check", i>>].count
    BY <2>5
  <2>7. window'[<<"check", i>>].count \in Nat /\ window[<<"check", i>>].count \in Nat
    BY <2>5 DEF BudgetInv, BudgetTyped
  <2> QED
    BY <2>1, <2>3, <2>4, <2>6, <2>7
<1> QED
  BY <1>1, <1>2, <1>3 DEF BudgetInv

\* One charge adds one to its own budget, and nothing to another.
LEMMA ChargeCountsOne ==
  ASSUME window \in [Budget -> [count : Nat, resetAt : Nat]], now \in Nat,
         NEW s \in Scope, NEW id \in Installs \cup {Address}, Charge(s, id)
  PROVE  /\ window' \in [Budget -> [count : Nat, resetAt : Nat]]
         /\ window'[<<s, id>>].count <= window[<<s, id>>].count + 1
         /\ \A b \in Budget : b # <<s, id>> => window'[b] = window[b]
<1>1. <<s, id>> \in Budget
  BY DEF Budget
<1>2. CASE Limit = 0
  BY <1>1, <1>2 DEF Charge
<1>3. CASE Limit # 0
  <2> DEFINE old == window[<<s, id>>]
             new == Counted(old)
  <2>1. window' = [window EXCEPT ![<<s, id>>] = new]
    BY <1>3 DEF Charge
  <2>2. old \in [count : Nat, resetAt : Nat]
    BY <1>1
  <2>3. new \in [count : Nat, resetAt : Nat] /\ new.count <= old.count + 1
    BY <2>2, TimeAssumption DEF Counted, NoWindow
  <2> HIDE DEF new
  <2> QED
    BY <1>1, <2>1, <2>3
<1> QED
  BY <1>2, <1>3

\* An enrolment the host authorises is counted against the install it names; another is not.
LEMMA EnrolKeepsBudget ==
  ASSUME AuthInv, BudgetInv, NEW i \in Installs, NEW k \in Keys, NEW authorised \in BOOLEAN,
         Enrol(i, k, authorised)
  PROVE  BudgetInv'
<1>0. /\ now \in Nat /\ UNCHANGED <<sent, request, served>>
      /\ window \in [Budget -> [count : Nat, resetAt : Nat]]
  BY DEF AuthInv, Typed, Enrol, BudgetInv, BudgetTyped
<1>1. AwaitingIsAccepted'
  BY <1>0 DEF BudgetInv, AwaitingIsAccepted, At
<1>2. CASE authorised
  <2>1. Charge("enroll", i) /\ asked' = [asked EXCEPT ![i] = @ + 1]
    BY <1>2 DEF Enrol
  <2>2. /\ window' \in [Budget -> [count : Nat, resetAt : Nat]]
        /\ window'[<<"enroll", i>>].count <= window[<<"enroll", i>>].count + 1
        /\ \A b \in Budget : b # <<"enroll", i>> => window'[b] = window[b]
    BY <1>0, <2>1, ChargeCountsOne DEF Scope
  <2>3. BudgetTyped'
    BY <2>1, <2>2 DEF BudgetInv, BudgetTyped
  <2>4. EnrolsAreAsked'
    <3> SUFFICES ASSUME NEW j \in Installs PROVE window'[<<"enroll", j>>].count <= asked'[j]
      BY DEF EnrolsAreAsked
    <3>1. <<"enroll", j>> \in Budget
      BY DEF Budget, Scope
    <3>2. window[<<"enroll", j>>].count <= asked[j] /\ window[<<"enroll", j>>].count \in Nat
          /\ window'[<<"enroll", j>>].count \in Nat /\ asked[j] \in Nat
      BY <2>2, <3>1 DEF BudgetInv, BudgetTyped, EnrolsAreAsked
    <3>3. CASE j = i
      <4>1. asked'[j] = asked[j] + 1
        BY <2>1, <3>3 DEF BudgetInv, BudgetTyped
      <4> QED
        BY <2>2, <3>2, <3>3, <4>1
    <3>4. CASE j # i
      <4>1. asked'[j] = asked[j]
        BY <2>1, <3>4 DEF BudgetInv, BudgetTyped
      <4>2. window'[<<"enroll", j>>] = window[<<"enroll", j>>]
        BY <2>2, <3>1, <3>4
      <4> QED
        BY <3>2, <4>1, <4>2
    <3> QED
      BY <3>3, <3>4
  <2>5. ChecksAreAccepted'
    <3>1. \A j \in Installs : window'[<<"check", j>>] = window[<<"check", j>>]
      BY <2>2 DEF Budget, Scope
    <3>2. Awaiting' = Awaiting /\ \A j : Accepted(j)' = Accepted(j)
      BY <1>0 DEF Awaiting, Accepted, At
    <3> QED
      BY <3>1, <3>2 DEF BudgetInv, ChecksAreAccepted
  <2> QED
    BY <1>1, <2>3, <2>4, <2>5 DEF BudgetInv
<1>3. CASE ~authorised
  <2>1. Charge("enroll-fail", Address) /\ UNCHANGED asked
    BY <1>3 DEF Enrol
  <2>2. /\ window' \in [Budget -> [count : Nat, resetAt : Nat]]
        /\ \A b \in Budget : b # <<"enroll-fail", Address>> => window'[b] = window[b]
    BY <1>0, <2>1, ChargeCountsOne DEF Scope
  <2>3. BudgetTyped'
    BY <2>1, <2>2 DEF BudgetInv, BudgetTyped
  <2>4. \A j \in Installs : window'[<<"check", j>>] = window[<<"check", j>>]
                            /\ window'[<<"enroll", j>>] = window[<<"enroll", j>>]
    BY <2>2 DEF Budget, Scope
  <2>5. EnrolsAreAsked'
    BY <2>1, <2>4 DEF BudgetInv, EnrolsAreAsked
  <2>6. Awaiting' = Awaiting /\ \A j : Accepted(j)' = Accepted(j)
    BY <1>0 DEF Awaiting, Accepted, At
  <2>7. ChecksAreAccepted'
    BY <2>4, <2>6 DEF BudgetInv, ChecksAreAccepted
  <2> QED
    BY <1>1, <2>3, <2>5, <2>7 DEF BudgetInv
<1> QED
  BY <1>2, <1>3

\* What is accepted was not before: it waits to be counted, or is done.
LEMMA RegisterKeepsBudget ==
  ASSUME AuthInv, BudgetInv, NEW w \in Workers, RegisterNonce(w)
  PROVE  BudgetInv'
<1> DEFINE n == request[w].nonce
<1>1. /\ Early(request[w]) /\ request[w] # NoRequest /\ n \in Nonces /\ ~At(w, "limit")
      /\ UNCHANGED <<now, sent, window, asked>>
  BY Parts DEF RegisterNonce, At, Early, AuthInv, Typed
<1>2. BudgetTyped' /\ EnrolsAreAsked'
  BY <1>1 DEF BudgetInv, BudgetTyped, EnrolsAreAsked
<1>3. CASE seen[n] > 0
  <2>1. Finish(w) /\ UNCHANGED served
    BY <1>3 DEF RegisterNonce
  <2>2. \A v \in Workers : At(v, "limit")' => At(v, "limit") /\ request'[v].nonce = request[v].nonce
    BY <1>1, <2>1, Finishes DEF AuthInv, At
  <2>3. \A b \in Budget : window'[b].count <= window[b].count
    BY <1>1 DEF BudgetInv, BudgetTyped
  <2> QED
    BY <1>1, <1>2, <2>1, <2>2, <2>3, NothingCounted
<1>4. CASE ~(seen[n] > 0)
  <2>1. served[n] = 0
    BY <1>1, <1>4, ForgottenIsUnserved DEF AuthInv, Typed
  <2>2. served' = [served EXCEPT ![n] = @ + 1] /\ (Proceed(w, "limit") \/ Finish(w))
    BY <1>4 DEF RegisterNonce, Accept
  <2>3. served'[n] = 1 /\ \A k \in Nonces \ {n} : served'[k] = served[k]
    BY <1>1, <2>1, <2>2 DEF AuthInv, Typed
  <2>4. /\ \A v \in Workers \ {w} : request'[v] = request[v]
        /\ request'[w] # NoRequest => request'[w].nonce = n
    BY <1>1, <2>2, Proceeds, Finishes DEF AuthInv, Step
  <2>5. \A v \in Workers : At(v, "limit") => request[v].nonce # n
    BY <2>1 DEF BudgetInv, AwaitingIsAccepted
  <2>6. \A v \in Workers : At(v, "limit") => request[v].nonce \in Nonces
    BY Parts DEF AuthInv, Typed, At
  <2> HIDE DEF n
  <2>7. AwaitingIsAccepted'
    <3>1. \A v \in Workers : At(v, "limit")' => v = w \/ (At(v, "limit") /\ request'[v] = request[v])
      BY <2>4 DEF At
    <3>2. At(w, "limit")' => request'[w].nonce = n
      BY <2>4 DEF At
    <3> QED
      BY <2>3, <2>5, <2>6, <3>1, <3>2 DEF BudgetInv, AwaitingIsAccepted
  <2>8. ChecksAreAccepted'
    <3> SUFFICES ASSUME NEW i \in Installs
                 PROVE  /\ IsFiniteSet(Accepted(i)')
                        /\ window'[<<"check", i>>].count <= Cardinality(Accepted(i)' \ Awaiting')
      BY DEF ChecksAreAccepted
    <3>1. IsFiniteSet(Accepted(i)) /\ window[<<"check", i>>].count <= Cardinality(Accepted(i) \ Awaiting)
      BY DEF BudgetInv, ChecksAreAccepted
    <3>2. Accepted(i)' \subseteq Accepted(i) \cup {n} /\ Accepted(i) \subseteq Accepted(i)'
      BY <1>1, <2>1, <2>3 DEF Accepted
    <3>3. IsFiniteSet(Accepted(i)')
      <4>1. IsFiniteSet(Accepted(i) \cup {n})
        BY <3>1, FS_AddElement
      <4> QED
        BY <3>2, <4>1, PartsAreFewer
    <3>4. Awaiting' \subseteq Awaiting \cup {n} /\ n \notin Accepted(i)
      BY <2>1, <2>4 DEF Awaiting, At, Accepted
    <3>5. Accepted(i) \ Awaiting \subseteq Accepted(i)' \ Awaiting'
      BY <3>2, <3>4
    <3>6. /\ Cardinality(Accepted(i) \ Awaiting) \in Nat
          /\ Cardinality(Accepted(i)' \ Awaiting') \in Nat
          /\ Cardinality(Accepted(i) \ Awaiting) <= Cardinality(Accepted(i)' \ Awaiting')
      <4>1. IsFiniteSet(Accepted(i)' \ Awaiting')
        BY <3>3, PartsAreFewer
      <4> QED
        BY <3>5, <4>1, PartsAreFewer
    <3>7. /\ window'[<<"check", i>>].count = window[<<"check", i>>].count
          /\ window[<<"check", i>>].count \in Nat
      BY <1>1 DEF BudgetInv, BudgetTyped, Budget, Scope
    <3> QED
      BY <3>1, <3>3, <3>6, <3>7
  <2> QED
    BY <1>2, <2>7, <2>8 DEF BudgetInv
<1> QED
  BY <1>3, <1>4

\* The check that is counted was waiting, alone with its nonce, and waits no more.
LEMMA LimitKeepsBudget ==
  ASSUME AuthInv, BudgetInv, NEW w \in Workers, LimitCheck(w)
  PROVE  BudgetInv'
<1> DEFINE n == request[w].nonce
           i == Sender(w)
<1>1. /\ At(w, "limit") /\ Charge("check", i) /\ Finish(w)
      /\ UNCHANGED <<now, sent, served, asked>>
  BY DEF LimitCheck
<1>2. n \in Nonces /\ served[n] > 0 /\ sent[n] \in Message /\ i \in Installs
  <2>1. n \in Nonces /\ served[n] > 0
    BY <1>1, Parts DEF AuthInv, Typed, At, BudgetInv, AwaitingIsAccepted
  <2>2. sent[n] \in Message
    BY <2>1 DEF AuthInv, Typed, RememberedLongEnough
  <2> QED
    BY <2>1, <2>2 DEF Sender, Message
<1>3. request'[w] = NoRequest /\ \A v \in Workers \ {w} : request'[v] = request[v]
  BY <1>1, Finishes DEF AuthInv
<1>4. /\ window' \in [Budget -> [count : Nat, resetAt : Nat]]
      /\ window'[<<"check", i>>].count <= window[<<"check", i>>].count + 1
      /\ \A b \in Budget : b # <<"check", i>> => window'[b] = window[b]
  <2>1. now \in Nat /\ window \in [Budget -> [count : Nat, resetAt : Nat]]
    BY DEF AuthInv, Typed, BudgetInv, BudgetTyped
  <2> HIDE DEF i
  <2> QED
    BY <1>1, <1>2, <2>1, ChargeCountsOne DEF Scope
<1>5. BudgetTyped'
  BY <1>1, <1>4 DEF BudgetInv, BudgetTyped
<1>6. EnrolsAreAsked'
  <2>1. \A j \in Installs : window'[<<"enroll", j>>] = window[<<"enroll", j>>]
    BY <1>4 DEF Budget, Scope
  <2> QED
    BY <1>1, <2>1 DEF BudgetInv, EnrolsAreAsked
<1>7. AwaitingIsAccepted'
  BY <1>1, <1>3 DEF BudgetInv, AwaitingIsAccepted, At
<1>8. n \in Awaiting /\ n \notin Awaiting' /\ Awaiting' \subseteq Awaiting
  BY <1>1, <1>3 DEF Awaiting, At, BudgetInv, AwaitingIsAccepted
<1>9. \A j : Accepted(j)' = Accepted(j)
  BY <1>1 DEF Accepted
<1>10. n \in Accepted(i)
  BY <1>2 DEF Accepted, Sender
<1> HIDE DEF n, i
<1>11. ChecksAreAccepted'
  <2> SUFFICES ASSUME NEW j \in Installs
               PROVE  /\ IsFiniteSet(Accepted(j))
                      /\ window'[<<"check", j>>].count <= Cardinality(Accepted(j) \ Awaiting')
    BY <1>9 DEF ChecksAreAccepted
  <2> DEFINE before == Accepted(j) \ Awaiting
             after == Accepted(j) \ Awaiting'
  <2>1. IsFiniteSet(Accepted(j)) /\ window[<<"check", j>>].count <= Cardinality(before)
    BY DEF BudgetInv, ChecksAreAccepted
  <2>2. IsFiniteSet(before) /\ IsFiniteSet(after) /\ before \subseteq after
    BY <1>8, <2>1, PartsAreFewer
  <2>3. <<"check", j>> \in Budget
    BY DEF Budget, Scope
  <2>4. window'[<<"check", j>>].count \in Nat /\ window[<<"check", j>>].count \in Nat
    BY <1>4, <2>3 DEF BudgetInv, BudgetTyped
  <2>5. Cardinality(before) \in Nat /\ Cardinality(after) \in Nat
    BY <2>2, PartsAreFewer
  <2>6. CASE j = i
    <3>1. before \cup {n} \subseteq after /\ n \notin before
      BY <1>8, <1>10, <2>6
    <3>2. IsFiniteSet(before \cup {n}) /\ Cardinality(before \cup {n}) = Cardinality(before) + 1
      BY <2>2, <3>1, FS_AddElement
    <3>3. Cardinality(before \cup {n}) <= Cardinality(after)
      BY <2>2, <3>1, PartsAreFewer
    <3> QED
      BY <1>4, <2>1, <2>4, <2>5, <2>6, <3>2, <3>3
  <2>7. CASE j # i
    <3>1. window'[<<"check", j>>] = window[<<"check", j>>]
      BY <1>4, <2>3, <2>7
    <3>2. Cardinality(before) <= Cardinality(after)
      BY <2>2, PartsAreFewer
    <3> QED
      BY <2>1, <2>4, <2>5, <3>1, <3>2
  <2> QED
    BY <2>6, <2>7
<1> QED
  BY <1>5, <1>6, <1>7, <1>11 DEF BudgetInv

\* Every step keeps the budgets.
LEMMA BudgetStep == ClockBounded /\ AuthInv /\ BudgetInv /\ [Next]_vars => BudgetInv'
<1> SUFFICES ASSUME ClockBounded, AuthInv, BudgetInv, [Next]_vars PROVE BudgetInv'
  OBVIOUS
<1>a. UNCHANGED <<window, asked>> =>
        BudgetTyped' /\ \A b \in Budget : window'[b].count <= window[b].count
  BY DEF BudgetInv, BudgetTyped
<1>b. UNCHANGED request =>
        \A w \in Workers : At(w, "limit")' => At(w, "limit") /\ request'[w].nonce = request[w].nonce
  BY DEF At
<1>1. CASE UNCHANGED vars
  BY <1>1, <1>a, <1>b, NothingCounted DEF vars
<1>2. ASSUME NEW n \in Nonces, NEW m, Send(n, m) PROVE BudgetInv'
  <2>1. \A k \in Nonces : served[k] > 0 => sent'[k] = sent[k]
    BY <1>2 DEF Send, AuthInv, Typed, RememberedLongEnough
  <2> QED
    BY <1>2, <1>a, <1>b, <2>1, NothingCounted DEF Send
<1>3. ASSUME NEW w \in Workers, NEW n \in Nonces, Begin(w, n) PROVE BudgetInv'
  <2>1. \A v \in Workers : At(v, "limit")' => At(v, "limit") /\ request'[v].nonce = request[v].nonce
    BY <1>3 DEF Begin, At, AuthInv, Typed
  <2> QED
    BY <1>3, <1>a, <2>1, NothingCounted DEF Begin
<1>4. ASSUME NEW w \in Workers, VerifySignature(w) PROVE BudgetInv'
  <2>1. request[w] # NoRequest /\ (Proceed(w, "nonce") \/ Finish(w))
        /\ UNCHANGED <<sent, window, served, asked>>
    BY <1>4 DEF VerifySignature, At
  <2>2. \A v \in Workers : At(v, "limit")' => At(v, "limit") /\ request'[v].nonce = request[v].nonce
    BY <2>1, Proceeds, Finishes DEF At, AuthInv, Step
  <2> QED
    BY <1>a, <2>1, <2>2, NothingCounted
<1>5. ASSUME NEW w \in Workers, InstanceDies(w) PROVE BudgetInv'
  <2>1. \A v \in Workers : At(v, "limit")' => At(v, "limit") /\ request'[v].nonce = request[v].nonce
    BY <1>5, Finishes DEF InstanceDies, At, AuthInv
  <2> QED
    BY <1>5, <1>a, <2>1, NothingCounted DEF InstanceDies
<1>6. CASE Tick
  <2>1. /\ UNCHANGED <<sent, request, served, asked>>
        /\ window' = [b \in Budget |-> IF window[b].resetAt <= now + 1 THEN NoWindow ELSE window[b]]
    BY <1>6 DEF Tick, Expire
  <2>2. BudgetTyped' /\ \A b \in Budget : window'[b].count <= window[b].count
    BY <2>1 DEF BudgetInv, BudgetTyped, NoWindow
  <2> QED
    BY <1>b, <2>1, <2>2, NothingCounted
<1> QED
  BY <1>1, <1>2, <1>3, <1>4, <1>5, <1>6, EnrolKeepsBudget, RegisterKeepsBudget, LimitKeepsBudget
     DEF Next

\* The invariant of the budgets.
LEMMA BudgetHolds == Spec => []BudgetInv
<1>1. Init => BudgetInv
  BY BudgetInit
<1> QED
  BY <1>1, BudgetStep, AuthInvariant, PTL DEF Spec

\* A rate window never counts more than its own install asked for: enrolments the host authorised,
\* and checks it signed itself, each at most once.
THEOREM BudgetsAreOwn == Spec => []BudgetIsOwn
<1>1. BudgetInv => BudgetIsOwn
  <2> SUFFICES ASSUME BudgetInv, NEW i \in Installs
               PROVE  window[<<"enroll", i>>].count <= asked[i]
                      /\ window[<<"check", i>>].count <= Cardinality(Accepted(i))
    BY DEF BudgetIsOwn, Accepted
  <2>1. IsFiniteSet(Accepted(i)) /\ window[<<"check", i>>].count <= Cardinality(Accepted(i) \ Awaiting)
    BY DEF BudgetInv, ChecksAreAccepted
  <2>2. window[<<"check", i>>].count \in Nat
    BY DEF BudgetInv, BudgetTyped, Budget, Scope
  <2>3. /\ Cardinality(Accepted(i) \ Awaiting) \in Nat /\ Cardinality(Accepted(i)) \in Nat
        /\ Cardinality(Accepted(i) \ Awaiting) <= Cardinality(Accepted(i))
    BY <2>1, PartsAreFewer
  <2> QED
    BY <2>1, <2>2, <2>3 DEF BudgetInv, EnrolsAreAsked
<1> QED
  BY <1>1, BudgetHolds, PTL

-----------------------------------------------------------------------------
(* Types *)

\* What the invariants leave open of TypeOK: what the database and the history hold, and that a request
\* under way was sent.
RestTyped ==
  /\ enrolled \in [Installs -> Keys \cup {NoKey}]
  /\ asked \in [Installs -> 0..MaxEnrols]
  /\ \A w \in Workers : request[w] # NoRequest => sent[request[w].nonce] # NoMessage

\* A step that enrols nobody, takes back no message and begins no request keeps that.
LEMMA RestKept ==
  ASSUME AuthInv, RestTyped, UNCHANGED <<enrolled, asked>>,
         \A n \in Nonces : sent[n] # NoMessage => sent'[n] = sent[n],
         \A w \in Workers : request'[w] # NoRequest =>
           request[w] # NoRequest /\ request'[w].nonce = request[w].nonce
  PROVE  RestTyped'
<1>1. \A w \in Workers : request[w] # NoRequest => request[w].nonce \in Nonces
  BY Parts DEF AuthInv, Typed
<1> QED
  BY <1>1 DEF RestTyped

\* Every step keeps it.
LEMMA RestStep == AuthInv /\ RestTyped /\ [Next]_vars => RestTyped'
<1> SUFFICES ASSUME AuthInv, RestTyped, [Next]_vars PROVE RestTyped'
  OBVIOUS
<1>1. ASSUME NEW i \in Installs, NEW k \in Keys, NEW authorised \in BOOLEAN, Enrol(i, k, authorised)
      PROVE  RestTyped'
  <2>1. /\ asked[i] < MaxEnrols /\ UNCHANGED <<sent, request>>
        /\ asked' = asked \/ asked' = [asked EXCEPT ![i] = @ + 1]
        /\ enrolled' = enrolled \/ enrolled' = [enrolled EXCEPT ![i] = k]
    BY <1>1 DEF Enrol
  <2>2. asked' \in [Installs -> 0..MaxEnrols]
    BY <2>1, TimeAssumption DEF RestTyped
  <2>3. enrolled' \in [Installs -> Keys \cup {NoKey}]
    BY <2>1 DEF RestTyped
  <2> QED
    BY <2>1, <2>2, <2>3 DEF RestTyped
<1>2. ASSUME NEW n \in Nonces, NEW m, Send(n, m) PROVE RestTyped'
  BY <1>2, RestKept DEF Send, AuthInv, Typed
<1>3. ASSUME NEW w \in Workers, NEW n \in Nonces, Begin(w, n) PROVE RestTyped'
  BY <1>3 DEF Begin, AuthInv, Typed, RestTyped
<1>4. ASSUME NEW w \in Workers, Finish(w), UNCHANGED <<enrolled, sent, asked>> PROVE RestTyped'
  <2>1. \A v \in Workers : request'[v] # NoRequest => request'[v] = request[v]
    BY <1>4, Finishes DEF AuthInv
  <2> QED
    BY <1>4, <2>1, RestKept
<1>5. ASSUME NEW w \in Workers, NEW step \in Step, request[w] # NoRequest, Proceed(w, step),
             UNCHANGED <<enrolled, sent, asked>>
      PROVE  RestTyped'
  <2>1. \A v \in Workers : request'[v] # NoRequest =>
          request[v] # NoRequest /\ request'[v].nonce = request[v].nonce
    BY <1>5, Proceeds DEF AuthInv
  <2> QED
    BY <1>5, <2>1, RestKept
<1>6. ASSUME NEW w \in Workers,
             VerifySignature(w) \/ RegisterNonce(w) \/ LimitCheck(w) \/ InstanceDies(w)
      PROVE  RestTyped'
  BY <1>4, <1>5, <1>6 DEF VerifySignature, RegisterNonce, LimitCheck, InstanceDies, Accept, At, Step
<1>7. CASE Tick
  BY <1>7 DEF Tick, RestTyped
<1>8. CASE UNCHANGED vars
  BY <1>8 DEF vars, RestTyped
<1> QED
  BY <1>1, <1>2, <1>3, <1>6, <1>7, <1>8 DEF Next

\* Every variable of the gate keeps its type, and a request under way is one that was sent.
THEOREM GateTypes == Spec => []TypeOK
<1>1. Init => RestTyped
  BY TimeAssumption DEF Init, RestTyped
<1>2. ClockBounded /\ AuthInv /\ BudgetInv /\ RestTyped => TypeOK
  BY DEF ClockBounded, AuthInv, Typed, BudgetInv, BudgetTyped, RestTyped, TypeOK
<1> QED
  BY <1>1, <1>2, AuthInvariant, BudgetHolds, RestStep, PTL DEF Spec
=============================================================================
