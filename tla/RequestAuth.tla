----------------------------- MODULE RequestAuth -----------------------------
(***************************************************************************)
(* The gate in front of the device routes: a device enrols a key, signs    *)
(* each request with a fresh nonce and the time of its own clock, and the  *)
(* backend accepts the request once and counts it against a fixed window.  *)
(* The network may delay a request, lose it, or deliver it again.          *)
(*                                                                         *)
(* Several instances share the database and the cache; every step of a     *)
(* request is one await, and time passes between them.  With the default   *)
(* providers a request holds the event loop: those runs are among the      *)
(* runs of this module in which no other step comes between.               *)
(*                                                                         *)
(* Abstracted: a signature is the key that made it; requests refused       *)
(* before they change anything (a missing header, a stale timestamp, a     *)
(* malformed body) do not start; what expires leaves the cache at once,    *)
(* where the memory cache sweeps it at its next use.                       *)
(***************************************************************************)
EXTENDS Integers, FiniteSets

CONSTANTS
  Installs,     \* install ids
  Keys,         \* device keys
  Nonces,       \* request nonces, each made up once
  Workers,      \* requests served at the same time
  Skew,         \* timestampSkewMs
  NonceTtl,     \* nonceTtlMs
  Lag,          \* assumed: a request's nonce is registered this soon after its start
  Window,       \* rateLimitWindowMs
  Limit,        \* checkRateLimit and enrollRateLimit; 0 disables them
  ClockErrors,  \* by how much a device's clock may be wrong
  MaxTime,      \* bound: the clock
  MaxEnrols,    \* bound: enrolments asked for
  NoKey, NoMessage, NoRequest

\* With the defaults (5 and 10 minutes) this holds for a Lag of zero, and no more.
ASSUME TimeAssumption ==
  /\ {Skew, NonceTtl, Lag, Window, Limit, MaxTime, MaxEnrols} \subseteq Nat
  /\ ClockErrors \subseteq Int
  /\ 2 * Skew + Lag <= NonceTtl
  /\ Window > 0 /\ MaxTime > 0

Message == [install : Installs, key : Keys, time : Int, op : {"check", "confirm"}]

Step == {"key", "nonce", "limit"}

Request == [nonce : Nonces, began : 1..MaxTime, step : Step]

Scope == {"check", "enroll", "enroll-fail"}

\* Failed enrolments count per client address; the devices here share one.
Address == "address"

ASSUME SentinelAssumption ==
  NoKey \notin Keys /\ NoMessage \notin Message /\ NoRequest \notin Request /\ Address \notin Installs

Budget == Scope \X (Installs \cup {Address})

VARIABLES
  now,        \* Date.now(), and the clock of the cache
  enrolled,   \* [Installs -> Keys \cup {NoKey}], the database
  sent,       \* [Nonces -> Message \cup {NoMessage}], what the network may deliver
  request,    \* [Workers -> Request \cup {NoRequest}]
  seen,       \* the nonce cache: [Nonces -> expiry], 0 when absent
  window,     \* rate windows: [Budget -> [count, resetAt]]
  served,     \* history: how often each signed request was accepted
  asked       \* history: authorised enrolments asked for by each install

vars == <<now, enrolled, sent, request, seen, window, served, asked>>

NoWindow == [count |-> 0, resetAt |-> 0]

Init ==
  /\ now = 1
  /\ enrolled = [i \in Installs |-> NoKey]
  /\ sent = [n \in Nonces |-> NoMessage]
  /\ request = [w \in Workers |-> NoRequest]
  /\ seen = [n \in Nonces |-> 0]
  /\ window = [b \in Budget |-> NoWindow]
  /\ served = [n \in Nonces |-> 0]
  /\ asked = [i \in Installs |-> 0]

-----------------------------------------------------------------------------
(* The cache *)

\* CacheProvider.rateLimit: the first request opens the window.
Counted(w) ==
  IF w = NoWindow THEN [count |-> 1, resetAt |-> now + Window]
                  ELSE [w EXCEPT !.count = @ + 1]

\* What is left at time t: a nonce is kept up to its expiry, a window ends at its reset.
Expire(t) ==
  /\ seen' = [n \in Nonces |-> IF seen[n] < t THEN 0 ELSE seen[n]]
  /\ window' = [b \in Budget |-> IF window[b].resetAt <= t THEN NoWindow ELSE window[b]]

\* Store.rateLimit: a limit of zero counts nothing.
Charge(scope, identity) ==
  window' = IF Limit = 0 THEN window
                         ELSE [window EXCEPT ![<<scope, identity>>] = Counted(@)]

\* Whether the request just charged is within the limit.
Allowed(scope, identity) == Limit = 0 \/ window'[<<scope, identity>>].count <= Limit

-----------------------------------------------------------------------------
(* Enrolment *)

\* Variant with a bug: a failed enrolment counts against the install it names.
EnrolChargesNamed(i, k, authorised) ==
  /\ asked[i] < MaxEnrols
  /\ Charge("enroll", i)
  /\ asked' = IF authorised THEN [asked EXCEPT ![i] = @ + 1] ELSE asked
  /\ enrolled' = IF authorised /\ Allowed("enroll", i) THEN [enrolled EXCEPT ![i] = k] ELSE enrolled
  /\ UNCHANGED <<now, sent, request, seen, served>>

\* An enrolment the host does not authorise is only counted, by address.
Enrol(i, k, authorised) ==
  /\ asked[i] < MaxEnrols
  /\ IF authorised
       THEN /\ Charge("enroll", i)
            /\ asked' = [asked EXCEPT ![i] = @ + 1]
            /\ enrolled' = IF Allowed("enroll", i) THEN [enrolled EXCEPT ![i] = k] ELSE enrolled
       ELSE /\ window[<<"enroll-fail", Address>>].count <= Limit   \* bound: refused callers
            /\ Charge("enroll-fail", Address)
            /\ UNCHANGED <<asked, enrolled>>
  /\ UNCHANGED <<now, sent, request, seen, served>>

-----------------------------------------------------------------------------
(* Signed requests *)

\* A device signs a request with the time of its own clock.
Send(n, m) ==
  /\ sent[n] = NoMessage
  /\ m \in Message
  /\ sent' = [sent EXCEPT ![n] = m]
  /\ UNCHANGED <<now, enrolled, request, seen, window, served, asked>>

Fresh(n) == sent[n].time - Skew <= now /\ now <= sent[n].time + Skew

At(w, step) == request[w] # NoRequest /\ request[w].step = step

Proceed(w, step) == request' = [request EXCEPT ![w].step = step]

Finish(w) == request' = [request EXCEPT ![w] = NoRequest]

Sender(w) == sent[request[w].nonce].install

\* Variant with a bug: the timestamp is not compared with the clock.
BeginAnyTime(w, n) ==
  /\ request[w] = NoRequest
  /\ sent[n] # NoMessage
  /\ request' = [request EXCEPT ![w] = [nonce |-> n, began |-> now, step |-> "key"]]
  /\ UNCHANGED <<now, enrolled, sent, seen, window, served, asked>>

\* A copy of the request arrives, with a timestamp that is not stale.
Begin(w, n) ==
  /\ request[w] = NoRequest
  /\ sent[n] # NoMessage
  /\ Fresh(n)
  /\ request' = [request EXCEPT ![w] = [nonce |-> n, began |-> now, step |-> "key"]]
  /\ UNCHANGED <<now, enrolled, sent, seen, window, served, asked>>

\* The signature must verify under the key enrolled at this moment.
VerifySignature(w) ==
  /\ At(w, "key")
  /\ IF sent[request[w].nonce].key = enrolled[Sender(w)]
       THEN Proceed(w, "nonce")
       ELSE Finish(w)
  /\ UNCHANGED <<now, enrolled, sent, seen, window, served, asked>>

Accept(w, n) ==
  /\ served' = [served EXCEPT ![n] = @ + 1]
  /\ IF sent[n].op = "check" THEN Proceed(w, "limit") ELSE Finish(w)

\* registerNonce, the last test: a nonce the cache remembers is a replay.
RegisterNonce(w) ==
  LET n == request[w].nonce IN
    /\ At(w, "nonce")
    /\ IF seen[n] > 0
         THEN Finish(w) /\ UNCHANGED <<seen, served>>
         ELSE /\ seen' = [seen EXCEPT ![n] = now + NonceTtl]
              /\ Accept(w, n)
    /\ UNCHANGED <<now, enrolled, sent, window, asked>>

\* A check is counted against the install that signed it; what follows is another module's.
LimitCheck(w) ==
  /\ At(w, "limit")
  /\ Charge("check", Sender(w))
  /\ Finish(w)
  /\ UNCHANGED <<now, enrolled, sent, seen, served, asked>>

-----------------------------------------------------------------------------
(* Time and failures *)

\* Time passes, but never more than Lag between a request's timestamp check and its nonce.
Tick ==
  /\ now < MaxTime
  /\ \A w \in Workers : At(w, "key") \/ At(w, "nonce") => now < request[w].began + Lag
  /\ now' = now + 1
  /\ Expire(now + 1)
  /\ UNCHANGED <<enrolled, sent, request, served, asked>>

InstanceDies(w) ==
  /\ request[w] # NoRequest
  /\ Finish(w)
  /\ UNCHANGED <<now, enrolled, sent, seen, window, served, asked>>

-----------------------------------------------------------------------------
Next ==
  \/ \E i \in Installs, k \in Keys, authorised \in BOOLEAN : Enrol(i, k, authorised)
  \/ \E n \in Nonces, i \in Installs, k \in Keys, e \in ClockErrors, op \in {"check", "confirm"} :
       Send(n, [install |-> i, key |-> k, time |-> now + e, op |-> op])
  \/ \E w \in Workers, n \in Nonces : Begin(w, n)
  \/ \E w \in Workers :
       VerifySignature(w) \/ RegisterNonce(w) \/ LimitCheck(w) \/ InstanceDies(w)
  \/ Tick

Spec == Init /\ [][Next]_vars

-----------------------------------------------------------------------------
(* Properties *)

TypeOK ==
  /\ now \in 1..MaxTime
  /\ enrolled \in [Installs -> Keys \cup {NoKey}]
  /\ sent \in [Nonces -> Message \cup {NoMessage}]
  /\ request \in [Workers -> Request \cup {NoRequest}]
  /\ seen \in [Nonces -> Nat]
  /\ window \in [Budget -> [count : Nat, resetAt : Nat]]
  /\ served \in [Nonces -> Nat]
  /\ asked \in [Installs -> 0..MaxEnrols]
  /\ \A w \in Workers : request[w] # NoRequest => sent[request[w].nonce] # NoMessage

\* A signed request is carried out at most once, however often and however late the network
\* delivers it and on however many instances (the anti-replay guard of authenticate, routes.ts).
RequestRunsOnce == \A n \in Nonces : served[n] <= 1

\* A device's budget is spent by what that device signed or was authorised to ask, so nobody
\* who merely names its install id can have it refused (the rate limits of routes.ts).
BudgetIsOwn ==
  \A i \in Installs :
    /\ window[<<"enroll", i>>].count <= asked[i]
    /\ window[<<"check", i>>].count
         <= Cardinality({n \in Nonces : served[n] > 0 /\ sent[n].install = i})
=============================================================================
