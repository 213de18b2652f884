------------------------- MODULE DeviceRoutesProofs -------------------------
(***************************************************************************)
(* What the device routes promise, proved for any number of releases,      *)
(* installs, checks, instances and reports: a report counts once, a        *)
(* failure gets through, and a release that was rolled back is not served. *)
(* That a report counts once rests on Lag <= Travel: the key that a report *)
(* leaves in the cache outlives every copy of the report that still found  *)
(* its nonce.                                                              *)
(***************************************************************************)
EXTENDS DeviceRoutes, TLAPS

-----------------------------------------------------------------------------
(* The invariant *)

Typed ==
  /\ now \in 1..MaxTime
  /\ release \in [Bundles -> {"live", "paused", "rolledBack"}]
  /\ nonce \in [Checks -> Scope \cup {None}]
  /\ spent \in [Report -> Nat]
  /\ request = [w \in Workers |-> request[w]]
  /\ \A w \in Workers : request[w] # None => IsRequest(request[w])
  /\ answers \in [Checks -> Scope \cup {None}]
  /\ recorded \in [Report -> Nat]

Doing(w, op) == request[w] # None /\ request[w].op = op

\* A check is being answered by one request.
ChecksApart ==
  \A w \in Workers : Doing(w, "check") =>
    /\ answers[request[w].check] = None
    /\ \A v \in Workers : Doing(v, "check") /\ request[v].check = request[w].check => v = w

\* What is offered could run where the check came from.
Fits(b, ctx) == b # NoBundle => Channel[b] = ctx.channel /\ Runtime[b] = ctx.runtime

OffersFit ==
  /\ \A c \in Checks : answers[c] # None => Fits(answers[c].offered, answers[c].context)
  /\ \A w \in Workers : Doing(w, "check") => Fits(request[w].offered, request[w].context)

\* A nonce in the cache is the one the check was answered with, and has not run out.
NonceIsAnswer ==
  \A c \in Checks : nonce[c] # None => nonce[c] = answers[c] /\ now <= nonce[c].expires

RefusedUncovered ==
  \A c \in Checks, b \in Bundles, status \in Statuses :
    <<c, b, status>> \in refused => answers[c] # None /\ ~Covers(answers[c], b, status)

\* A report comes after its check's answer has travelled, and is spent soon after its nonce was found.
ReportsInTime ==
  \A w \in Workers : Doing(w, "confirm") =>
    LET scope == answers[request[w].check] IN
      /\ scope # None
      /\ scope.expires + Travel <= now + NonceTtl
      /\ request[w].step \in {"read", "spend"} =>
           request[w].began <= scope.expires /\ now <= request[w].began + Lag

\* A request that has spent its report and is about to count it.
Recording(w, r) == Doing(w, "confirm") /\ request[w].step = "record" /\ Reported(w) = r

Claimed(r) == recorded[r] > 0 \/ \E w \in Workers : Recording(w, r)

\* The key of a claimed report is kept for as long as another copy may come to spend it.
ClaimsKept ==
  \A c \in Checks, b \in Bundles, status \in Statuses :
    Claimed(<<c, b, status>>) =>
      /\ answers[c] # None
      /\ \/ spent[<<c, b, status>>] >= answers[c].expires + Lag
         \/ now > answers[c].expires + Lag

ClaimedOnce ==
  \A r \in Report :
    /\ recorded[r] <= 1
    /\ \A w \in Workers : Recording(w, r) =>
         recorded[r] = 0 /\ \A v \in Workers : Recording(v, r) => v = w

\* A rollback is for good, and who asked after it has not come to the blob.
DeadStaysDead ==
  \A w \in Workers : Doing(w, "download") /\ request[w].dead =>
    release[request[w].bundle] = "rolledBack" /\ request[w].step # "open"

RoutesInv ==
  /\ Typed /\ ChecksApart /\ OffersFit /\ NonceIsAnswer /\ RefusedUncovered
  /\ ReportsInTime /\ ClaimsKept /\ ClaimedOnce /\ DeadStaysDead

-----------------------------------------------------------------------------
(* Types *)

CheckRequest ==
  [op : {"check"}, step : {"pick", "answer"}, check : Checks,
   context : Context, offered : Bundles \cup {NoBundle}]
DownloadRequest ==
  [op : {"download"}, step : {"peek", "read", "open"}, check : Checks, bundle : Bundles, dead : BOOLEAN]
ConfirmRequest ==
  [op : {"confirm"}, step : {"peek", "read", "spend", "record"}, check : Checks,
   bundle : Bundles, status : Statuses, began : 1..MaxTime]

\* What a request of each kind is made of.
LEMMA RequestOf ==
  ASSUME Typed, NEW w \in Workers, request[w] # None
  PROVE  /\ request[w].op \in {"check", "download", "confirm"}
         /\ request[w].op = "check" => request[w] \in CheckRequest
         /\ request[w].op = "download" => request[w] \in DownloadRequest
         /\ request[w].op = "confirm" => request[w] \in ConfirmRequest
BY DEF Typed, IsRequest, CheckRequest, DownloadRequest, ConfirmRequest

\* The numbers the times are made of.
LEMMA Times ==
  /\ NonceTtl \in Nat /\ Lag \in Nat /\ Travel \in Nat /\ MaxTime \in Nat /\ Lag <= Travel
  /\ \A s \in Scope : s.expires \in Nat /\ s.context \in Context /\ s.offered \in Bundles \cup {NoBundle}
BY TimeAssumption DEF Scope

\* A step of a request to another place keeps what the request is about.
LEMMA Moved ==
  ASSUME Typed, NEW w \in Workers, request[w] # None, NEW step, Proceed(w, step)
  PROVE  /\ request' = [v \in Workers |-> request'[v]]
         /\ \A v \in Workers \ {w} : request'[v] = request[v]
         /\ request[w].op = "download" /\ step \in {"peek", "read", "open"} =>
              /\ request'[w] \in DownloadRequest /\ request'[w].step = step
              /\ request'[w].bundle = request[w].bundle /\ request'[w].dead = request[w].dead
         /\ request[w].op = "confirm" /\ step \in {"peek", "read", "spend", "record"} =>
              /\ request'[w] \in ConfirmRequest /\ request'[w].step = step
              /\ request'[w].check = request[w].check /\ request'[w].bundle = request[w].bundle
              /\ request'[w].status = request[w].status /\ request'[w].began = request[w].began
<1> DEFINE next == [request[w] EXCEPT !.step = step]
<1>1. request' = [request EXCEPT ![w] = next]
  BY DEF Proceed, Typed
<1>2. request[w].op = "download" /\ step \in {"peek", "read", "open"} =>
        /\ next \in DownloadRequest /\ next.step = step
        /\ next.bundle = request[w].bundle /\ next.dead = request[w].dead
  BY RequestOf DEF DownloadRequest
<1>3. request[w].op = "confirm" /\ step \in {"peek", "read", "spend", "record"} =>
        /\ next \in ConfirmRequest /\ next.step = step
        /\ next.check = request[w].check /\ next.bundle = request[w].bundle
        /\ next.status = request[w].status /\ next.began = request[w].began
  BY RequestOf DEF ConfirmRequest
<1> HIDE DEF next
<1> QED
  BY <1>1, <1>2, <1>3 DEF Typed

-----------------------------------------------------------------------------
(* Steps of one request that spend and count nothing *)

\* What is asked of a request that takes the place of w's.
Fine(w, new) ==
  /\ IsRequest(new)
  /\ new.op = "check" =>
       /\ answers[new.check] = None
       /\ \A v \in Workers \ {w} : Doing(v, "check") => request[v].check # new.check
       /\ Fits(new.offered, new.context)
  /\ new.op = "confirm" =>
       /\ new.step # "record"
       /\ answers[new.check] # None
       /\ answers[new.check].expires + Travel <= now + NonceTtl
       /\ new.step \in {"read", "spend"} =>
            new.began <= answers[new.check].expires /\ now <= new.began + Lag
  /\ new.op = "download" /\ new.dead => release[new.bundle] = "rolledBack" /\ new.step # "open"

\* A step to a request that is fine keeps the invariant.
LEMMA RequestStep ==
  ASSUME RoutesInv, UNCHANGED <<now, release, nonce, spent, answers, recorded>>, RefusedUncovered',
         NEW w \in Workers, request' = [v \in Workers |-> request'[v]],
         \A v \in Workers \ {w} : request'[v] = request[v],
         request'[w] = None \/ Fine(w, request'[w])
  PROVE  RoutesInv'
<1>1. Typed'
  BY DEF RoutesInv, Typed, Fine
<1>2. ChecksApart' /\ OffersFit'
  BY DEF RoutesInv, ChecksApart, OffersFit, Doing, Fine
<1>3. NonceIsAnswer'
  BY DEF RoutesInv, NonceIsAnswer
<1>4. ReportsInTime'
  BY DEF RoutesInv, ReportsInTime, Doing, Fine
<1>5. \A r : \A v \in Workers : Recording(v, r)' => Recording(v, r)
  BY DEF Recording, Doing, Reported, Fine
<1>6. ClaimsKept' /\ ClaimedOnce'
  BY <1>5 DEF RoutesInv, ClaimsKept, ClaimedOnce, Claimed
<1>7. DeadStaysDead'
  BY DEF RoutesInv, DeadStaysDead, Doing, Fine
<1> QED
  BY <1>1, <1>2, <1>3, <1>4, <1>6, <1>7 DEF RoutesInv

\* A request that ends.
LEMMA FinishStep ==
  ASSUME RoutesInv, UNCHANGED <<now, release, nonce, spent, answers, recorded>>, RefusedUncovered',
         NEW w \in Workers, Finish(w)
  PROVE  RoutesInv'
BY RequestStep DEF Finish, RoutesInv, Typed

\* What was refused stays so, with the answers it was refused for.
LEMMA StillRefused ==
  ASSUME RefusedUncovered, UNCHANGED <<answers, refused>>
  PROVE  RefusedUncovered'
BY DEF RefusedUncovered

\* A check begins under a name that nobody else has.
LEMMA CheckStep ==
  ASSUME RoutesInv, NEW w \in Workers, NEW c \in Checks, NEW ctx \in Context, Check(w, c, ctx)
  PROVE  RoutesInv'
<1> DEFINE new == [op |-> "check", step |-> "pick", check |-> c, context |-> ctx, offered |-> NoBundle]
<1>1. /\ request' = [request EXCEPT ![w] = new] /\ answers[c] = None
      /\ \A v \in Workers : Doing(v, "check") => request[v].check # c
      /\ UNCHANGED <<now, release, nonce, spent, answers, recorded, refused>>
  BY DEF Check, Doing
<1>2. new \in CheckRequest /\ new.op = "check" /\ new.check = c /\ new.offered = NoBundle
  BY DEF CheckRequest
<1>3. IsRequest(new)
  BY <1>2 DEF IsRequest, CheckRequest
<1> HIDE DEF new
<1>4. Fine(w, new)
  BY <1>1, <1>2, <1>3 DEF Fine, Fits
<1> QED
  BY <1>1, <1>4, StillRefused, RequestStep DEF RoutesInv, Typed

\* What is picked fits where the check came from.
LEMMA PickStep ==
  ASSUME RoutesInv, NEW w \in Workers, Pick(w)
  PROVE  RoutesInv'
<1>1. request[w] \in CheckRequest /\ Doing(w, "check")
  BY RequestOf DEF Pick, At, RoutesInv, Doing
<1>2. PICK b \in Eligible(request[w].context) \cup {NoBundle} :
        request' = [request EXCEPT ![w].step = "answer", ![w].offered = b]
  BY DEF Pick, Newest
<1> DEFINE new == [request[w] EXCEPT !.step = "answer", !.offered = b]
<1>3. request' = [request EXCEPT ![w] = new]
  BY <1>2 DEF RoutesInv, Typed
<1>4. b \in Bundles \cup {NoBundle} /\ Fits(b, request[w].context)
  BY <1>2 DEF Eligible, Fits
<1>5. /\ new \in CheckRequest /\ new.check = request[w].check /\ new.offered = b
      /\ new.context = request[w].context /\ new.op = "check"
  BY <1>1, <1>4 DEF CheckRequest
<1>6. IsRequest(new)
  BY <1>5 DEF IsRequest, CheckRequest
<1> HIDE DEF new
<1>7. Fine(w, new)
  BY <1>1, <1>4, <1>5, <1>6 DEF Fine, RoutesInv, ChecksApart
<1> QED
  BY <1>3, <1>7, StillRefused, RequestStep DEF Pick, RoutesInv, Typed

\* A download names the state of its release when it was asked for.
LEMMA DownloadStep ==
  ASSUME RoutesInv, NEW w \in Workers, NEW c \in Checks, Download(w, c)
  PROVE  RoutesInv'
<1> DEFINE b == answers[c].offered
           new == [op |-> "download", step |-> "peek", check |-> c, bundle |-> b,
                   dead |-> release[b] = "rolledBack"]
<1>1. /\ request' = [request EXCEPT ![w] = new] /\ b \in Bundles
      /\ UNCHANGED <<now, release, nonce, spent, answers, recorded, refused>>
  BY Times DEF Download, RoutesInv, Typed
<1>2. /\ new \in DownloadRequest /\ new.op = "download" /\ new.bundle = b /\ new.step = "peek"
      /\ new.dead = (release[b] = "rolledBack")
  BY <1>1 DEF DownloadRequest
<1>3. IsRequest(new)
  BY <1>2 DEF IsRequest, DownloadRequest
<1> HIDE DEF new, b
<1>4. Fine(w, new)
  BY <1>1, <1>2, <1>3 DEF Fine
<1> QED
  BY <1>1, <1>4, StillRefused, RequestStep DEF RoutesInv, Typed

\* A download goes on, or is refused; only a live release is opened.
LEMMA DownloadingStep ==
  ASSUME RoutesInv, NEW w \in Workers, PeekDownloadToken(w) \/ ReadForDownload(w) \/ Serve(w)
  PROVE  RoutesInv'
<1>1. /\ Doing(w, "download") /\ request[w] \in DownloadRequest
      /\ UNCHANGED <<now, release, nonce, spent, answers, recorded, refused>>
  BY RequestOf DEF PeekDownloadToken, ReadForDownload, Serve, At, Doing, RoutesInv
<1>2. \/ Finish(w)
      \/ Proceed(w, "read")
      \/ Proceed(w, "open") /\ release[request[w].bundle] = "live"
  BY DEF PeekDownloadToken, ReadForDownload, Serve
<1>3. ASSUME NEW step \in {"read", "open"}, Proceed(w, step),
             step = "open" => release[request[w].bundle] = "live"
      PROVE  RoutesInv'
  <2>1. /\ request'[w] \in DownloadRequest /\ request'[w].step = step
        /\ request'[w].bundle = request[w].bundle /\ request'[w].dead = request[w].dead
        /\ request' = [v \in Workers |-> request'[v]]
        /\ \A v \in Workers \ {w} : request'[v] = request[v]
    BY <1>1, <1>3, Moved DEF RoutesInv, Doing
  <2>2. IsRequest(request'[w]) /\ request'[w].op = "download"
    BY <2>1 DEF IsRequest, DownloadRequest
  <2>3. Fine(w, request'[w])
    BY <1>1, <1>3, <2>1, <2>2 DEF Fine, RoutesInv, DeadStaysDead
  <2> QED
    BY <1>1, <2>1, <2>3, StillRefused, RequestStep DEF RoutesInv
<1> QED
  BY <1>1, <1>2, <1>3, FinishStep, StillRefused DEF RoutesInv

\* A report arrives, no sooner than its check's answer has travelled.
LEMMA ConfirmStep ==
  ASSUME RoutesInv, NEW w \in Workers, NEW c \in Checks, NEW b \in Bundles, NEW status \in Statuses,
         Confirm(w, c, b, status)
  PROVE  RoutesInv'
<1> DEFINE new == [op |-> "confirm", step |-> "peek", check |-> c, bundle |-> b, status |-> status,
                   began |-> now]
<1>1. /\ request' = [request EXCEPT ![w] = new] /\ answers[c] # None
      /\ now >= answers[c].expires - NonceTtl + Travel
      /\ UNCHANGED <<now, release, nonce, spent, answers, recorded, refused>>
  BY DEF Confirm
<1>2. answers[c].expires \in Nat /\ now \in Nat
  BY <1>1, Times DEF RoutesInv, Typed
<1>3. /\ new \in ConfirmRequest /\ new.op = "confirm" /\ new.check = c /\ new.step = "peek"
      /\ answers[c].expires + Travel <= now + NonceTtl
  BY <1>1, <1>2, Times DEF ConfirmRequest, RoutesInv, Typed
<1>4. IsRequest(new)
  BY <1>3 DEF IsRequest, ConfirmRequest
<1> HIDE DEF new
<1>5. Fine(w, new)
  BY <1>1, <1>3, <1>4 DEF Fine
<1> QED
  BY <1>1, <1>5, StillRefused, RequestStep DEF RoutesInv, Typed

\* The nonce is found at a time when it has not run out.
LEMMA PeekNonceStep ==
  ASSUME RoutesInv, NEW w \in Workers, PeekServerNonce(w)
  PROVE  RoutesInv'
<1>1. /\ Doing(w, "confirm") /\ request[w] \in ConfirmRequest
      /\ UNCHANGED <<now, release, nonce, spent, answers, recorded, refused>>
  BY RequestOf DEF PeekServerNonce, At, Doing, RoutesInv
<1>2. CASE nonce[request[w].check] = None
  BY <1>1, <1>2, FinishStep, StillRefused DEF PeekServerNonce, RoutesInv
<1>3. CASE nonce[request[w].check] # None
  <2> DEFINE new == [request[w] EXCEPT !.step = "read", !.began = now]
  <2>1. request' = [request EXCEPT ![w] = new]
    BY <1>3 DEF PeekServerNonce, RoutesInv, Typed
  <2>2. /\ new \in ConfirmRequest /\ new.op = "confirm" /\ new.check = request[w].check
        /\ new.step = "read" /\ new.began = now
    BY <1>1 DEF ConfirmRequest, RoutesInv, Typed
  <2>3. IsRequest(new)
    BY <2>2 DEF IsRequest, ConfirmRequest
  <2> HIDE DEF new
  <2>4. request[w].check \in Checks /\ now \in Nat
    BY <1>1, Times DEF ConfirmRequest, RoutesInv, Typed
  <2>5. now <= answers[request[w].check].expires
    BY <1>3, <2>4 DEF RoutesInv, NonceIsAnswer
  <2>6. /\ answers[request[w].check] # None
        /\ answers[request[w].check].expires + Travel <= now + NonceTtl
    BY <1>1 DEF RoutesInv, ReportsInTime
  <2>7. Fine(w, new)
    BY <1>1, <2>2, <2>3, <2>4, <2>5, <2>6, Times DEF Fine
  <2> QED
    BY <1>1, <2>1, <2>7, StillRefused, RequestStep DEF RoutesInv, Typed
<1> QED
  BY <1>2, <1>3

\* A report that its nonce does not cover is refused.
LEMMA ReadForConfirmStep ==
  ASSUME RoutesInv, NEW w \in Workers, ReadForConfirm(w)
  PROVE  RoutesInv'
<1>1. /\ Doing(w, "confirm") /\ request[w] \in ConfirmRequest /\ request[w].step = "read"
      /\ UNCHANGED <<now, release, nonce, spent, answers, recorded>>
  BY RequestOf DEF ReadForConfirm, At, Doing, RoutesInv
<1>2. CASE Covers(answers[request[w].check], request[w].bundle, request[w].status)
  <2>1. Proceed(w, "spend") /\ UNCHANGED refused
    BY <1>2 DEF ReadForConfirm
  <2>2. /\ request'[w] \in ConfirmRequest /\ request'[w].step = "spend"
        /\ request'[w].check = request[w].check /\ request'[w].began = request[w].began
        /\ request' = [v \in Workers |-> request'[v]]
        /\ \A v \in Workers \ {w} : request'[v] = request[v]
    BY <1>1, <2>1, Moved DEF RoutesInv, Doing
  <2>3. IsRequest(request'[w]) /\ request'[w].op = "confirm"
    BY <2>2 DEF IsRequest, ConfirmRequest
  <2>4. Fine(w, request'[w])
    BY <1>1, <2>2, <2>3 DEF Fine, RoutesInv, ReportsInTime
  <2> QED
    BY <1>1, <2>1, <2>2, <2>4, StillRefused, RequestStep DEF RoutesInv
<1>3. CASE ~Covers(answers[request[w].check], request[w].bundle, request[w].status)
  <2>1. Finish(w) /\ refused' \subseteq refused \cup {Reported(w)}
    BY <1>3 DEF ReadForConfirm
  <2>2. answers[request[w].check] # None
    BY <1>1 DEF RoutesInv, ReportsInTime
  <2>3. RefusedUncovered'
    BY <1>1, <1>3, <2>1, <2>2 DEF RoutesInv, RefusedUncovered, Reported, Covers, CurrentVersion
  <2> QED
    BY <1>1, <2>1, <2>3, FinishStep
<1> QED
  BY <1>2, <1>3

-----------------------------------------------------------------------------
(* Steps that spend and count *)

\* A report whose key is not in the cache has not been claimed: the key of a claimed one would still
\* be there.
LEMMA ForgottenIsUnclaimed ==
  ASSUME RoutesInv, NEW w \in Workers, Doing(w, "confirm"), request[w].step = "spend",
         spent[Reported(w)] = 0
  PROVE  ~Claimed(Reported(w))
<1> DEFINE c == request[w].check
           e == answers[c].expires
<1>1. request[w] \in ConfirmRequest /\ c \in Checks /\ now \in Nat \ {0} /\ request[w].began \in Nat
  BY RequestOf, Times DEF RoutesInv, Typed, Doing, ConfirmRequest
<1>2. answers[c] # None /\ request[w].began <= e /\ now <= request[w].began + Lag
  BY DEF RoutesInv, ReportsInTime
<1>3. e \in Nat
  BY <1>1, <1>2, Times DEF RoutesInv, Typed
<1>4. Claimed(Reported(w)) => 0 >= e + Lag \/ now > e + Lag
  BY <1>1 DEF RoutesInv, ClaimsKept, Reported, ConfirmRequest
<1> HIDE DEF c, e
<1> QED
  BY <1>1, <1>2, <1>3, <1>4, Times

\* A fresh report leaves its key and is about to be counted; a second copy ends.
LEMMA SpendStep ==
  ASSUME RoutesInv, NEW w \in Workers, Spend(w)
  PROVE  RoutesInv'
<1>1. /\ Doing(w, "confirm") /\ request[w] \in ConfirmRequest /\ request[w].step = "spend"
      /\ UNCHANGED <<now, release, nonce, answers, recorded, refused>>
  BY RequestOf DEF Spend, At, Doing, RoutesInv
<1>2. CASE spent[Reported(w)] > 0
  BY <1>1, <1>2, FinishStep, StillRefused DEF Spend, RoutesInv
<1>3. CASE ~(spent[Reported(w)] > 0)
  <2>1. PICK c \in Checks, b \in Bundles, status \in Statuses :
          /\ Reported(w) = <<c, b, status>>
          /\ c = request[w].check /\ b = request[w].bundle /\ status = request[w].status
    BY <1>1 DEF ConfirmRequest, Reported
  <2> DEFINE r == <<c, b, status>>
  <2>2. r \in Report /\ spent[r] = 0 /\ Reported(w) = r
    BY <1>3, <2>1 DEF RoutesInv, Typed, Report
  <2>3. ~Claimed(r)
    BY <1>1, <2>2, ForgottenIsUnclaimed
  <2>4. spent' = [spent EXCEPT ![r] = now + NonceTtl] /\ Proceed(w, "record")
    BY <1>3, <2>2 DEF Spend
  <2>5. /\ request'[w] \in ConfirmRequest /\ request'[w].step = "record"
        /\ request'[w].check = c /\ request'[w].bundle = b /\ request'[w].status = status
        /\ request' = [v \in Workers |-> request'[v]]
        /\ \A v \in Workers \ {w} : request'[v] = request[v]
    BY <1>1, <2>1, <2>4, Moved DEF RoutesInv, Doing
  <2>6. IsRequest(request'[w]) /\ request'[w].op = "confirm" /\ (request'[w] # None => Reported(w)' = r)
    BY <2>5 DEF IsRequest, ConfirmRequest, Reported
  <2>7. now \in Nat /\ answers[c] # None /\ answers[c].expires \in Nat
        /\ answers[c].expires + Travel <= now + NonceTtl
    <3>1. now \in Nat /\ answers[c] # None /\ answers[c].expires + Travel <= now + NonceTtl
      BY <1>1, <2>1, Times DEF RoutesInv, Typed, ReportsInTime
    <3> QED
      BY <3>1, Times DEF RoutesInv, Typed
  <2>8. now + NonceTtl \in Nat /\ now + NonceTtl >= answers[c].expires + Lag
    BY <2>7, Times
  <2>9. spent' \in [Report -> Nat] /\ spent'[r] = now + NonceTtl
        /\ \A q \in Report \ {r} : spent'[q] = spent[q]
    BY <2>2, <2>4, <2>8 DEF RoutesInv, Typed
  <2>10. \A q : \A v \in Workers : Recording(v, q)' => Recording(v, q) \/ (v = w /\ q = r)
    BY <2>5, <2>6 DEF Recording, Doing, Reported
  <2>11. Typed'
    BY <1>1, <2>5, <2>6, <2>9 DEF RoutesInv, Typed
  <2>12. ClaimsKept'
    <3> SUFFICES ASSUME NEW c2 \in Checks, NEW b2 \in Bundles, NEW s2 \in Statuses,
                        Claimed(<<c2, b2, s2>>)'
                 PROVE  /\ answers[c2] # None
                        /\ \/ spent'[<<c2, b2, s2>>] >= answers[c2].expires + Lag
                           \/ now > answers[c2].expires + Lag
      BY <1>1 DEF ClaimsKept
    <3>1. CASE <<c2, b2, s2>> = r
      <4>1. c2 = c
        BY <3>1
      <4> QED
        BY <2>7, <2>8, <2>9, <3>1, <4>1
    <3>2. CASE <<c2, b2, s2>> # r
      <4>1. Claimed(<<c2, b2, s2>>)
        BY <1>1, <2>10, <3>2 DEF Claimed
      <4>2. spent'[<<c2, b2, s2>>] = spent[<<c2, b2, s2>>]
        BY <2>9, <3>2 DEF Report
      <4> QED
        BY <4>1, <4>2 DEF RoutesInv, ClaimsKept
    <3> QED
      BY <3>1, <3>2
  <2>13. ClaimedOnce'
    <3>1. recorded[r] = 0 /\ \A v \in Workers : ~Recording(v, r)
      BY <2>2, <2>3 DEF Claimed, RoutesInv, Typed
    <3> QED
      BY <1>1, <2>10, <3>1 DEF RoutesInv, ClaimedOnce
  <2>14. ChecksApart' /\ OffersFit' /\ NonceIsAnswer' /\ DeadStaysDead'
    BY <1>1, <2>5, <2>6 DEF RoutesInv, ChecksApart, OffersFit, NonceIsAnswer, DeadStaysDead, Doing
  <2>15. ReportsInTime'
    BY <1>1, <2>1, <2>5, <2>6, <2>7 DEF RoutesInv, ReportsInTime, Doing
  <2> QED
    BY <1>1, <2>11, <2>12, <2>13, <2>14, <2>15, StillRefused DEF RoutesInv
<1> QED
  BY <1>2, <1>3

\* A report is counted by the only request that claimed it.
LEMMA RecordStep ==
  ASSUME RoutesInv, NEW w \in Workers, Record(w)
  PROVE  RoutesInv'
<1>1. PICK r : r = Reported(w)
  OBVIOUS
<1>2. /\ Doing(w, "confirm") /\ request[w] \in ConfirmRequest /\ Recording(w, r)
      /\ UNCHANGED <<now, release, nonce, spent, answers, refused>>
      /\ recorded' = [recorded EXCEPT ![r] = @ + 1] /\ request' = [request EXCEPT ![w] = None]
  BY <1>1, RequestOf DEF Record, At, Doing, RoutesInv, Recording, Finish
<1>3. r \in Report
  BY <1>1, <1>2 DEF Reported, ConfirmRequest, Report
<1>4. recorded[r] = 0 /\ \A v \in Workers : Recording(v, r) => v = w
  BY <1>2, <1>3 DEF RoutesInv, ClaimedOnce
<1>5. recorded' \in [Report -> Nat] /\ recorded'[r] = 1 /\ \A q \in Report \ {r} : recorded'[q] = recorded[q]
  BY <1>2, <1>3, <1>4 DEF RoutesInv, Typed
<1>6. /\ request' = [v \in Workers |-> request'[v]] /\ request'[w] = None
      /\ \A v \in Workers \ {w} : request'[v] = request[v]
  BY <1>2 DEF RoutesInv, Typed
<1>7. \A q : \A v \in Workers : Recording(v, q)' => v # w /\ Recording(v, q)
  BY <1>6 DEF Recording, Doing, Reported
<1>8. Typed'
  BY <1>2, <1>5, <1>6 DEF RoutesInv, Typed
<1>9. \A q \in Report : Claimed(q)' => Claimed(q)
  BY <1>2, <1>5, <1>7 DEF Claimed
<1>10. ClaimsKept'
  BY <1>2, <1>9 DEF RoutesInv, ClaimsKept, Report
<1>11. ClaimedOnce'
  BY <1>4, <1>5, <1>7 DEF RoutesInv, ClaimedOnce
<1>12. ChecksApart' /\ OffersFit' /\ NonceIsAnswer' /\ DeadStaysDead' /\ ReportsInTime'
  BY <1>2, <1>6 DEF RoutesInv, ChecksApart, OffersFit, NonceIsAnswer, DeadStaysDead, ReportsInTime, Doing
<1> QED
  BY <1>2, <1>8, <1>10, <1>11, <1>12, StillRefused DEF RoutesInv

-----------------------------------------------------------------------------
(* The answer, the operator and the clock *)

\* A check is answered once, and its token and nonce begin.
LEMMA AnswerStep ==
  ASSUME RoutesInv, NEW w \in Workers, Answer(w)
  PROVE  RoutesInv'
<1>1. PICK c \in Checks, scope \in Scope :
        /\ c = request[w].check /\ scope.context = request[w].context
        /\ scope.offered = request[w].offered /\ scope.expires = now + NonceTtl
        /\ nonce' = [nonce EXCEPT ![c] = scope] /\ answers' = [answers EXCEPT ![c] = scope]
  <2>1. request[w] \in CheckRequest /\ now \in Nat
    BY RequestOf, Times DEF Answer, At, RoutesInv, Typed
  <2> DEFINE scope == [context |-> request[w].context, offered |-> request[w].offered,
                       expires |-> now + NonceTtl]
  <2>2. scope \in Scope /\ request[w].check \in Checks
    BY <2>1, Times DEF CheckRequest, Scope
  <2> QED
    BY <2>2 DEF Answer
<1>2. /\ Doing(w, "check") /\ request' = [request EXCEPT ![w] = None]
      /\ UNCHANGED <<now, release, spent, recorded, refused>>
  BY DEF Answer, At, Doing, Finish
<1>3. answers[c] = None /\ \A v \in Workers \ {w} : Doing(v, "check") => request[v].check # c
  BY <1>1, <1>2 DEF RoutesInv, ChecksApart
<1>4. /\ request' = [v \in Workers |-> request'[v]] /\ request'[w] = None
      /\ \A v \in Workers \ {w} : request'[v] = request[v]
  BY <1>2 DEF RoutesInv, Typed
<1>5. /\ answers'[c] = scope /\ nonce'[c] = scope
      /\ \A d \in Checks \ {c} : answers'[d] = answers[d] /\ nonce'[d] = nonce[d]
  BY <1>1 DEF RoutesInv, Typed
<1>6. Typed'
  BY <1>1, <1>2, <1>4 DEF RoutesInv, Typed
<1>7. ChecksApart'
  BY <1>1, <1>3, <1>4, <1>5, RequestOf DEF RoutesInv, ChecksApart, Doing, CheckRequest
<1>8. OffersFit'
  BY <1>1, <1>2, <1>4, <1>5 DEF RoutesInv, OffersFit, Doing
<1>9. NonceIsAnswer'
  <2>1. now <= scope.expires
    BY <1>1, Times DEF RoutesInv, Typed
  <2> QED
    BY <1>2, <1>5, <2>1 DEF RoutesInv, NonceIsAnswer
<1>10. RefusedUncovered'
  BY <1>2, <1>3, <1>5 DEF RoutesInv, RefusedUncovered
<1>11. \A v \in Workers : Doing(v, "confirm") => request[v].check \in Checks \ {c}
  BY <1>3, RequestOf DEF RoutesInv, ReportsInTime, Doing, ConfirmRequest
<1>12. ReportsInTime'
  BY <1>2, <1>4, <1>5, <1>11 DEF RoutesInv, ReportsInTime, Doing
<1>13. \A q : \A v \in Workers : Recording(v, q)' => Recording(v, q)
  BY <1>4 DEF Recording, Doing, Reported
<1>14. ClaimsKept' /\ ClaimedOnce'
  BY <1>2, <1>3, <1>5, <1>13 DEF RoutesInv, ClaimsKept, ClaimedOnce, Claimed
<1>15. DeadStaysDead'
  BY <1>2, <1>4 DEF RoutesInv, DeadStaysDead, Doing
<1> QED
  BY <1>6, <1>7, <1>8, <1>9, <1>10, <1>12, <1>14, <1>15 DEF RoutesInv

\* No switch brings back a release that was rolled back.
LEMMA OperateStep ==
  ASSUME RoutesInv, NEW b \in Bundles, Operate(b)
  PROVE  RoutesInv'
<1>1. UNCHANGED <<now, nonce, spent, request, answers, recorded, refused>>
  BY DEF Operate
<1>2. /\ release' \in [Bundles -> {"live", "paused", "rolledBack"}]
      /\ \A c \in Bundles : release[c] = "rolledBack" => release'[c] = "rolledBack"
  BY DEF Operate, RoutesInv, Typed
<1>3. Typed' /\ ChecksApart' /\ OffersFit' /\ NonceIsAnswer' /\ ReportsInTime'
  BY <1>1, <1>2 DEF RoutesInv, Typed, ChecksApart, OffersFit, NonceIsAnswer, ReportsInTime, Doing
<1>4. ClaimsKept' /\ ClaimedOnce'
  BY <1>1 DEF RoutesInv, ClaimsKept, ClaimedOnce, Claimed, Recording, Doing, Reported
<1>5. DeadStaysDead'
  BY <1>1, <1>2, RequestOf DEF RoutesInv, DeadStaysDead, Doing, DownloadRequest
<1> QED
  BY <1>1, <1>3, <1>4, <1>5, StillRefused DEF RoutesInv

\* Time passes, and what has run out is gone.
LEMMA TickStep ==
  ASSUME RoutesInv, Tick
  PROVE  RoutesInv'
<1>1. /\ now' = now + 1 /\ now < MaxTime /\ now \in Nat /\ now \in 1..MaxTime
      /\ nonce' = Kept(nonce, now + 1)
      /\ spent' = [r \in Report |-> IF spent[r] < now + 1 THEN 0 ELSE spent[r]]
      /\ UNCHANGED <<release, request, answers, recorded, refused>>
  BY Times DEF Tick, RoutesInv, Typed
<1>2. ASSUME NEW c \in Checks, nonce'[c] # None
      PROVE  nonce'[c] = nonce[c] /\ nonce[c] # None /\ now + 1 <= nonce[c].expires
  <2>1. nonce'[c] = IF nonce[c] # None /\ nonce[c].expires < now + 1 THEN None ELSE nonce[c]
    BY <1>1 DEF Kept
  <2>2. nonce'[c] = nonce[c] /\ nonce[c] # None /\ ~(nonce[c].expires < now + 1)
    BY <1>2, <2>1
  <2>3. nonce[c].expires \in Nat
    BY <2>2, Times DEF RoutesInv, Typed
  <2> QED
    BY <1>1, <2>2, <2>3
<1>3. nonce' \in [Checks -> Scope \cup {None}]
  BY <1>1 DEF Kept, RoutesInv, Typed
<1>4. Typed'
  BY <1>1, <1>3, Times DEF RoutesInv, Typed
<1>5. NonceIsAnswer'
  BY <1>1, <1>2 DEF RoutesInv, NonceIsAnswer
<1>6. ChecksApart' /\ OffersFit' /\ DeadStaysDead'
  BY <1>1 DEF RoutesInv, ChecksApart, OffersFit, DeadStaysDead, Doing
<1>7. ReportsInTime'
  <2> SUFFICES ASSUME NEW w \in Workers, Doing(w, "confirm")
               PROVE  LET scope == answers[request[w].check] IN
                        /\ scope # None
                        /\ scope.expires + Travel <= now + 1 + NonceTtl
                        /\ request[w].step \in {"read", "spend"} =>
                             request[w].began <= scope.expires /\ now + 1 <= request[w].began + Lag
    BY <1>1 DEF ReportsInTime, Doing
  <2> DEFINE scope == answers[request[w].check]
  <2>1. request[w] \in ConfirmRequest /\ request[w].began \in Nat /\ request[w].check \in Checks
    BY RequestOf, Times DEF RoutesInv, Doing, ConfirmRequest
  <2>2. /\ scope # None /\ scope.expires + Travel <= now + NonceTtl
        /\ request[w].step \in {"read", "spend"} => request[w].began <= scope.expires
    BY DEF RoutesInv, ReportsInTime
  <2>3. scope.expires \in Nat
    BY <2>1, <2>2, Times DEF RoutesInv, Typed
  <2>4. request[w].step \in {"read", "spend"} => now < request[w].began + Lag
    BY DEF Tick, At, Doing
  <2> HIDE DEF scope
  <2>5. scope.expires + Travel <= now + 1 + NonceTtl
    BY <1>1, <2>2, <2>3, Times
  <2>6. request[w].step \in {"read", "spend"} => now + 1 <= request[w].began + Lag
    BY <1>1, <2>1, <2>4, Times
  <2> QED
    BY <2>2, <2>5, <2>6 DEF scope
<1>8. ClaimsKept'
  <2> SUFFICES ASSUME NEW c \in Checks, NEW b \in Bundles, NEW status \in Statuses,
                      Claimed(<<c, b, status>>)
               PROVE  /\ answers[c] # None
                      /\ \/ spent'[<<c, b, status>>] >= answers[c].expires + Lag
                         \/ now + 1 > answers[c].expires + Lag
    BY <1>1 DEF ClaimsKept, Claimed, Recording, Doing, Reported
  <2> DEFINE r == <<c, b, status>>
  <2>1. /\ answers[c] # None
        /\ spent[r] >= answers[c].expires + Lag \/ now > answers[c].expires + Lag
    BY DEF RoutesInv, ClaimsKept
  <2>2. answers[c].expires \in Nat /\ spent[r] \in Nat
        /\ spent'[r] = IF spent[r] < now + 1 THEN 0 ELSE spent[r]
    BY <1>1, <2>1, Times DEF RoutesInv, Typed, Report
  <2> HIDE DEF r
  <2>3. spent'[r] >= answers[c].expires + Lag \/ now + 1 > answers[c].expires + Lag
    BY <1>1, <2>1, <2>2, Times
  <2> QED
    BY <2>1, <2>3 DEF r
<1>9. ClaimedOnce'
  BY <1>1 DEF RoutesInv, ClaimedOnce, Recording, Doing, Reported
<1> QED
  BY <1>1, <1>4, <1>5, <1>6, <1>7, <1>8, <1>9, StillRefused DEF RoutesInv

-----------------------------------------------------------------------------
(* Theorems *)

\* At the start nothing was asked.
LEMMA InvInit == Init => RoutesInv
<1> SUFFICES ASSUME Init PROVE RoutesInv
  OBVIOUS
<1>1. Typed
  BY Times, TimeAssumption DEF Init, Typed
<1>2. ChecksApart /\ OffersFit /\ NonceIsAnswer /\ RefusedUncovered /\ ReportsInTime /\ DeadStaysDead
  BY DEF Init, ChecksApart, OffersFit, NonceIsAnswer, RefusedUncovered, ReportsInTime, DeadStaysDead, Doing
<1>3. \A r \in Report : ~Claimed(r) /\ recorded[r] = 0 /\ \A w \in Workers : ~Recording(w, r)
  BY DEF Init, Claimed, Recording, Doing
<1>4. ClaimsKept /\ ClaimedOnce
  BY <1>3 DEF ClaimsKept, ClaimedOnce, Report
<1> QED
  BY <1>1, <1>2, <1>4 DEF RoutesInv

\* Every step keeps the invariant.
LEMMA InvStep == RoutesInv /\ [Next]_vars => RoutesInv'
<1> SUFFICES ASSUME RoutesInv, [Next]_vars PROVE RoutesInv'
  OBVIOUS
<1>1. CASE UNCHANGED vars
  <2>1. Typed' /\ ChecksApart' /\ OffersFit' /\ NonceIsAnswer' /\ ReportsInTime' /\ DeadStaysDead'
    BY <1>1 DEF vars, RoutesInv, Typed, ChecksApart, OffersFit, NonceIsAnswer, ReportsInTime,
                DeadStaysDead, Doing
  <2>2. ClaimsKept' /\ ClaimedOnce'
    BY <1>1 DEF vars, RoutesInv, ClaimsKept, ClaimedOnce, Claimed, Recording, Doing, Reported
  <2> QED
    BY <1>1, <2>1, <2>2, StillRefused DEF vars, RoutesInv
<1>2. ASSUME NEW w \in Workers, InstanceDies(w) PROVE RoutesInv'
  BY <1>2, FinishStep, StillRefused DEF InstanceDies, RoutesInv
<1> QED
  BY <1>1, <1>2, CheckStep, PickStep, AnswerStep, DownloadStep, DownloadingStep, ConfirmStep,
     PeekNonceStep, ReadForConfirmStep, SpendStep, RecordStep, OperateStep, TickStep DEF Next

\* The inductive invariant of the device routes: requests that began in time, keys that are kept long
\* enough, offers that fit, and rollbacks that stay.
THEOREM RoutesInvariant == Spec => []RoutesInv
BY InvInit, InvStep, PTL DEF Spec

\* A report of one status on one release counts once per nonce, however often it is sent and
\* whatever the instances do between finding the nonce and spending it (consumeServerNonce).
THEOREM ReportsCountOnce == Spec => []EachReportCountsOnce
<1>1. RoutesInv => EachReportCountsOnce
  BY DEF RoutesInv, ClaimedOnce, EachReportCountsOnce
<1> QED
  BY <1>1, RoutesInvariant, PTL

\* A device that went back to an older bundle of the same runtime gets its failure report through
\* (consumeServerNonce).
THEOREM FailuresAlwaysGetThrough == Spec => []FailuresGetThrough
<1>1. RoutesInv => FailuresGetThrough
  <2> SUFFICES ASSUME RoutesInv, NEW c \in Checks, NEW d \in Checks, NEW b \in Bundles,
                      answers[d] # None, answers[d].offered = b, answers[c] # None,
                      answers[c].context.channel = answers[d].context.channel,
                      answers[c].context.runtime = answers[d].context.runtime,
                      CurrentVersion(answers[c].context) < Version[b]
               PROVE  <<c, b, "failed">> \notin refused
    BY DEF FailuresGetThrough
  <2>1. Channel[b] = answers[d].context.channel /\ Runtime[b] = answers[d].context.runtime
    BY BundleAssumption DEF RoutesInv, OffersFit, Fits
  <2>2. Covers(answers[c], b, "failed")
    BY <2>1 DEF Covers
  <2> QED
    BY <2>2, FailedAssumption DEF RoutesInv, RefusedUncovered
<1> QED
  BY <1>1, RoutesInvariant, PTL

\* A download asked for after its release was rolled back is not served (the blob route).
THEOREM RolledBackIsNeverServed == Spec => []RolledBackIsNotServed
<1>1. RoutesInv => RolledBackIsNotServed
  BY DEF RoutesInv, DeadStaysDead, RolledBackIsNotServed, At, Doing
<1> QED
  BY <1>1, RoutesInvariant, PTL

-----------------------------------------------------------------------------
(* Types *)

\* What the invariant leaves open of TypeOK: the download tokens and the refused reports.
TokensTyped == token \in [Checks -> Token \cup {None}] /\ refused \subseteq Report

\* Every step keeps that.
LEMMA TokensStep == RoutesInv /\ TokensTyped /\ [Next]_vars => TokensTyped'
<1> SUFFICES ASSUME RoutesInv, TokensTyped, [Next]_vars PROVE TokensTyped'
  OBVIOUS
<1>1. CASE UNCHANGED <<token, refused>>
  BY <1>1 DEF TokensTyped
<1>2. ASSUME NEW w \in Workers, Answer(w) PROVE TokensTyped'
  <2> DEFINE b == request[w].offered
             new == [bundle |-> b, expires |-> now + DownloadTtl]
  <2>1. /\ UNCHANGED refused
        /\ token' = IF b = NoBundle THEN token ELSE [token EXCEPT ![request[w].check] = new]
    BY <1>2 DEF Answer
  <2>2. request[w] \in CheckRequest
    BY <1>2, RequestOf DEF Answer, At, RoutesInv
  <2>3. b # NoBundle => new \in Token
    <3>1. b \in Bundles \cup {NoBundle}
      BY <2>2 DEF CheckRequest
    <3>2. now + DownloadTtl \in Nat
      BY TimeAssumption DEF RoutesInv, Typed
    <3> QED
      BY <3>1, <3>2 DEF Token
  <2> HIDE DEF b, new
  <2> QED
    BY <2>1, <2>3 DEF TokensTyped
<1>3. ASSUME NEW w \in Workers, ReadForConfirm(w) PROVE TokensTyped'
  <2>1. request[w] \in ConfirmRequest
    BY <1>3, RequestOf DEF ReadForConfirm, At, RoutesInv
  <2>2. Reported(w) \in Report
    BY <2>1 DEF ConfirmRequest, Reported, Report
  <2>3. UNCHANGED token /\ refused' \subseteq refused \cup {Reported(w)}
    BY <1>3 DEF ReadForConfirm
  <2> QED
    BY <2>2, <2>3 DEF TokensTyped
<1>4. CASE Tick
  BY <1>4 DEF Tick, Kept, TokensTyped
<1> QED
  BY <1>1, <1>2, <1>3, <1>4 DEF Next, vars, Check, Download, Confirm, Pick, PeekDownloadToken, ReadForDownload,
     Serve, PeekServerNonce, Spend, Record, InstanceDies, Operate

\* Every variable of the device routes keeps its type.
THEOREM RouteTypes == Spec => []TypeOK
<1>1. Init => TokensTyped
  BY DEF Init, TokensTyped
<1>2. RoutesInv /\ TokensTyped => TypeOK
  BY DEF RoutesInv, Typed, TokensTyped, TypeOK
<1> QED
  BY <1>1, <1>2, RoutesInvariant, TokensStep, PTL DEF Spec
=============================================================================
