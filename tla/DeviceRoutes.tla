---------------------------- MODULE DeviceRoutes ----------------------------
(***************************************************************************)
(* What an accepted device request does: a check picks a release and       *)
(* issues a download token and a nonce, a download serves a blob to who    *)
(* holds a token, and a confirm spends the nonce on a report.  Each step   *)
(* of a request is one await; several instances share the database and the *)
(* cache, the operator switches releases meanwhile, and time passes.       *)
(*                                                                         *)
(* A check, the token and the nonce issued for it have one name.  A        *)
(* channel stands for a channel and a platform.                            *)
(*                                                                         *)
(* Abstracted: authentication (RequestAuth), the records' counters and     *)
(* read-modify-writes (ReleaseStore), targeting by version and rollout     *)
(* arithmetic (Targeting); requests refused before they await anything do  *)
(* not start; what expires leaves the cache at once.                       *)
(***************************************************************************)
EXTENDS Integers, FiniteSets

CONSTANTS
  Bundles,       \* releases
  Version,       \* [Bundles -> Nat], bundleVersion
  Runtime,       \* [Bundles -> Runtimes], runtimeVersion
  Channel,       \* [Bundles -> Channels]
  Runtimes, Channels,
  Installs,
  InRollout,     \* <<install, bundle>>: the install is inside the bundle's rollout
  Statuses,      \* confirm statuses, "failed" among them
  Checks,        \* names for checks
  Workers,       \* requests served at the same time
  NonceTtl, DownloadTtl,
  Lag,           \* assumed: a report is spent this soon after its nonce was read
  Travel,        \* assumed: a report takes at least this long after the check's answer
  MaxTime,       \* bound: the clock
  MaxReports,    \* bound: different reports that are spent
  NoBundle, None

ASSUME BundleAssumption ==
  /\ Version \in [Bundles -> Nat \ {0}]
  /\ Runtime \in [Bundles -> Runtimes]
  /\ Channel \in [Bundles -> Channels]
  /\ NoBundle \notin Bundles

ASSUME TimeAssumption ==
  /\ {NonceTtl, DownloadTtl, Lag, Travel, MaxTime, MaxReports} \subseteq Nat
  /\ Lag <= Travel
  /\ MaxTime > 0

ASSUME FailedAssumption == "failed" \in Statuses

\* What a check tells: where the device is, and the bundle it runs.
Context ==
  [install : Installs, channel : Channels, runtime : Runtimes, running : Bundles \cup {NoBundle}]

CurrentVersion(ctx) == IF ctx.running = NoBundle THEN 0 ELSE Version[ctx.running]

\* What the cache holds for a check's nonce: ConfirmScope and the expiry.
Scope == [context : Context, offered : Bundles \cup {NoBundle}, expires : Nat]

Token == [bundle : Bundles, expires : Nat]

Report == Checks \X Bundles \X Statuses

VARIABLES
  now,
  release,    \* [Bundles -> {"live", "paused", "rolledBack"}]
  token,      \* [Checks -> Token \cup {None}], download tokens in the cache
  nonce,      \* [Checks -> Scope \cup {None}], server nonces in the cache
  spent,      \* [Report -> expiry], the confirm keys in the cache, 0 when absent
  request,    \* [Workers -> a request under way, or None]
  answers,    \* history: [Checks -> the answered scope, or None]
  recorded,   \* history: [Report -> how often it was counted]
  refused     \* history: failures refused as not covered by their nonce

vars == <<now, release, token, nonce, spent, request, answers, recorded, refused>>

Init ==
  /\ now = 1
  /\ release = [b \in Bundles |-> "live"]
  /\ token = [c \in Checks |-> None]
  /\ nonce = [c \in Checks |-> None]
  /\ spent = [r \in Report |-> 0]
  /\ request = [w \in Workers |-> None]
  /\ answers = [c \in Checks |-> None]
  /\ recorded = [r \in Report |-> 0]
  /\ refused = {}

-----------------------------------------------------------------------------
At(w, op, step) == request[w] # None /\ request[w].op = op /\ request[w].step = step

Proceed(w, step) == request' = [request EXCEPT ![w].step = step]

Finish(w) == request' = [request EXCEPT ![w] = None]

-----------------------------------------------------------------------------
(* POST /ota/v2/check *)

\* What an install was offered, and so may run and report on.
OfferedTo(i) ==
  {answers[c].offered : c \in {d \in Checks : answers[d] # None /\ answers[d].context.install = i}}
    \ {NoBundle}

\* Devices run nothing (the embedded bundle) or something they were offered, on its runtime.
Check(w, c, ctx) ==
  /\ request[w] = None
  /\ answers[c] = None
  /\ \A v \in Workers : request[v] # None /\ request[v].op = "check" => request[v].check # c
  /\ ctx.running # NoBundle =>
       /\ ctx.running \in OfferedTo(ctx.install)
       /\ Runtime[ctx.running] = ctx.runtime
       /\ Channel[ctx.running] = ctx.channel
  /\ request' = [request EXCEPT ![w] =
       [op |-> "check", step |-> "pick", check |-> c, context |-> ctx, offered |-> NoBundle]]
  /\ UNCHANGED <<now, release, token, nonce, spent, answers, recorded, refused>>

\* pickEligible, from the records of the moment.
Eligible(ctx) ==
  {b \in Bundles :
     /\ release[b] = "live"
     /\ Channel[b] = ctx.channel
     /\ Runtime[b] = ctx.runtime
     /\ Version[b] > CurrentVersion(ctx)
     /\ <<ctx.install, b>> \in InRollout}

Newest(S) == {b \in S : \A a \in S : Version[a] <= Version[b]}

Pick(w) ==
  /\ At(w, "check", "pick")
  /\ LET S == Newest(Eligible(request[w].context)) IN
       \E b \in IF S = {} THEN {NoBundle} ELSE S :
         request' = [request EXCEPT ![w].step = "answer", ![w].offered = b]
  /\ UNCHANGED <<now, release, token, nonce, spent, answers, recorded, refused>>

\* issueDownloadToken, issueServerNonce, and the answer: nobody knows the one before the other.
Answer(w) ==
  LET c == request[w].check
      b == request[w].offered
      scope == [context |-> request[w].context, offered |-> b, expires |-> now + NonceTtl]
  IN
    /\ At(w, "check", "answer")
    /\ token' = IF b = NoBundle
                  THEN token
                  ELSE [token EXCEPT ![c] = [bundle |-> b, expires |-> now + DownloadTtl]]
    /\ nonce' = [nonce EXCEPT ![c] = scope]
    /\ answers' = [answers EXCEPT ![c] = scope]
    /\ Finish(w)
    /\ UNCHANGED <<now, release, spent, recorded, refused>>

-----------------------------------------------------------------------------
(* GET /ota/v2/releases/:bundleId/blobs/:blobSha256 *)

\* The device asks for a blob of what it was offered; dead is a history of the release's state.
Download(w, c) ==
  /\ request[w] = None
  /\ answers[c] # None
  /\ answers[c].offered # NoBundle
  /\ request' = [request EXCEPT ![w] =
       [op |-> "download", step |-> "peek", check |-> c, bundle |-> answers[c].offered,
        dead |-> release[answers[c].offered] = "rolledBack"]]
  /\ UNCHANGED <<now, release, token, nonce, spent, answers, recorded, refused>>

PeekDownloadToken(w) ==
  /\ At(w, "download", "peek")
  /\ LET t == token[request[w].check] IN
       IF t # None /\ t.bundle = request[w].bundle THEN Proceed(w, "read") ELSE Finish(w)
  /\ UNCHANGED <<now, release, token, nonce, spent, answers, recorded, refused>>

\* Variant with a bug: a live token is enough.
ReadForDownloadTrusting(w) ==
  /\ At(w, "download", "read")
  /\ Proceed(w, "open")
  /\ UNCHANGED <<now, release, token, nonce, spent, answers, recorded, refused>>

\* A paused or rolled-back release stops serving even to who holds a live token.
ReadForDownload(w) ==
  /\ At(w, "download", "read")
  /\ IF release[request[w].bundle] = "live" THEN Proceed(w, "open") ELSE Finish(w)
  /\ UNCHANGED <<now, release, token, nonce, spent, answers, recorded, refused>>

\* statBlob and openBlobStream: the bytes go out.
Serve(w) ==
  /\ At(w, "download", "open")
  /\ Finish(w)
  /\ UNCHANGED <<now, release, token, nonce, spent, answers, recorded, refused>>

-----------------------------------------------------------------------------
(* POST /ota/v2/confirm *)

\* A device reports on what it was offered, with the nonce of a check it has the answer of.
Confirm(w, c, b, status) ==
  /\ request[w] = None
  /\ answers[c] # None
  /\ b \in OfferedTo(answers[c].context.install)
  /\ Cardinality({r \in Report : recorded[r] + spent[r] > 0} \cup {<<c, b, status>>}) <= MaxReports
  /\ now >= answers[c].expires - NonceTtl + Travel
  /\ request' = [request EXCEPT ![w] =
       [op |-> "confirm", step |-> "peek", check |-> c, bundle |-> b, status |-> status,
        began |-> now]]
  /\ UNCHANGED <<now, release, token, nonce, spent, answers, recorded, refused>>

Reported(w) == <<request[w].check, request[w].bundle, request[w].status>>

PeekServerNonce(w) ==
  /\ At(w, "confirm", "peek")
  /\ IF nonce[request[w].check] = None
       THEN Finish(w)
       ELSE request' = [request EXCEPT ![w].step = "read", ![w].began = now]
  /\ UNCHANGED <<now, release, token, nonce, spent, answers, recorded, refused>>

\* Variant with a bug: a failure is covered like any other report.
CoversNamed(scope, b, status) ==
  Channel[b] = scope.context.channel /\ b \in {scope.offered, scope.context.running}

\* The reports a check's nonce covers: what it offered, what the device ran,
\* and failures of anything newer that the device could have run.
Covers(scope, b, status) ==
  /\ Channel[b] = scope.context.channel
  /\ \/ b \in {scope.offered, scope.context.running}
     \/ /\ status = "failed"
        /\ Runtime[b] = scope.context.runtime
        /\ Version[b] > CurrentVersion(scope.context)

\* The scope was parsed from what peek returned, which is what the check answered.
ReadForConfirm(w) ==
  /\ At(w, "confirm", "read")
  /\ IF Covers(answers[request[w].check], request[w].bundle, request[w].status)
       THEN Proceed(w, "spend") /\ UNCHANGED refused
       ELSE /\ Finish(w)
            /\ refused' = IF request[w].status = "failed" THEN refused \cup {Reported(w)} ELSE refused
  /\ UNCHANGED <<now, release, token, nonce, spent, answers, recorded>>

\* Variant with a bug: the key names the nonce and the bundle only where the report is good.
SpendFailuresFreely(w) ==
  /\ At(w, "confirm", "spend")
  /\ IF spent[Reported(w)] > 0 /\ request[w].status # "failed"
       THEN Finish(w) /\ UNCHANGED spent
       ELSE /\ spent' = [spent EXCEPT ![Reported(w)] = now + NonceTtl]
            /\ Proceed(w, "record")
  /\ UNCHANGED <<now, release, token, nonce, answers, recorded, refused>>

\* Once per nonce, status and bundle.
Spend(w) ==
  /\ At(w, "confirm", "spend")
  /\ IF spent[Reported(w)] > 0
       THEN Finish(w) /\ UNCHANGED spent
       ELSE /\ spent' = [spent EXCEPT ![Reported(w)] = now + NonceTtl]
            /\ Proceed(w, "record")
  /\ UNCHANGED <<now, release, token, nonce, answers, recorded, refused>>

\* recordConfirm.
Record(w) ==
  /\ At(w, "confirm", "record")
  /\ recorded' = [recorded EXCEPT ![Reported(w)] = @ + 1]
  /\ Finish(w)
  /\ UNCHANGED <<now, release, token, nonce, spent, answers, refused>>

-----------------------------------------------------------------------------
(* The operator (publishing is ReleaseStore's), time and failures *)

Operate(b) ==
  /\ \/ release[b] = "paused" /\ release' = [release EXCEPT ![b] = "live"]
     \/ release[b] = "live" /\ release' = [release EXCEPT ![b] = "paused"]
     \/ release[b] \in {"live", "paused"} /\ release' = [release EXCEPT ![b] = "rolledBack"]
  /\ UNCHANGED <<now, token, nonce, spent, request, answers, recorded, refused>>

Kept(f, t) == [c \in Checks |-> IF f[c] # None /\ f[c].expires < t THEN None ELSE f[c]]

Tick ==
  /\ now < MaxTime
  /\ \A w \in Workers :
       At(w, "confirm", "read") \/ At(w, "confirm", "spend") => now < request[w].began + Lag
  /\ now' = now + 1
  /\ token' = Kept(token, now + 1)
  /\ nonce' = Kept(nonce, now + 1)
  /\ spent' = [r \in Report |-> IF spent[r] < now + 1 THEN 0 ELSE spent[r]]
  /\ UNCHANGED <<release, request, answers, recorded, refused>>

InstanceDies(w) ==
  /\ request[w] # None
  /\ Finish(w)
  /\ UNCHANGED <<now, release, token, nonce, spent, answers, recorded, refused>>

-----------------------------------------------------------------------------
Next ==
  \/ \E w \in Workers, c \in Checks, ctx \in Context : Check(w, c, ctx)
  \/ \E w \in Workers, c \in Checks : Download(w, c)
  \/ \E w \in Workers, c \in Checks, b \in Bundles, status \in Statuses : Confirm(w, c, b, status)
  \/ \E w \in Workers :
       \/ Pick(w) \/ Answer(w)
       \/ PeekDownloadToken(w) \/ ReadForDownload(w) \/ Serve(w)
       \/ PeekServerNonce(w) \/ ReadForConfirm(w) \/ Spend(w) \/ Record(w)
       \/ InstanceDies(w)
  \/ \E b \in Bundles : Operate(b)
  \/ Tick

Spec == Init /\ [][Next]_vars

-----------------------------------------------------------------------------
(* Properties *)

IsRequest(r) ==
  \/ r \in [op : {"check"}, step : {"pick", "answer"}, check : Checks,
            context : Context, offered : Bundles \cup {NoBundle}]
  \/ r \in [op : {"download"}, step : {"peek", "read", "open"}, check : Checks,
            bundle : Bundles, dead : BOOLEAN]
  \/ r \in [op : {"confirm"}, step : {"peek", "read", "spend", "record"}, check : Checks,
            bundle : Bundles, status : Statuses, began : 1..MaxTime]

TypeOK ==
  /\ now \in 1..MaxTime
  /\ release \in [Bundles -> {"live", "paused", "rolledBack"}]
  /\ token \in [Checks -> Token \cup {None}]
  /\ nonce \in [Checks -> Scope \cup {None}]
  /\ spent \in [Report -> Nat]
  /\ \A w \in Workers : request[w] # None => IsRequest(request[w])
  /\ answers \in [Checks -> Scope \cup {None}]
  /\ recorded \in [Report -> Nat]
  /\ refused \subseteq Report

\* One check's nonce counts a report of one status on one release at most once, however often
\* it is sent and whatever the instances do between reading the nonce and spending it
\* (consumeServerNonce, store.ts).
EachReportCountsOnce == \A r \in Report : recorded[r] <= 1

\* A device that reverted to an older bundle of the same runtime gets its failure report
\* through with any nonce that is still good, although the failed release is no longer its
\* current one and may no longer be offered (consumeServerNonce, store.ts).
FailuresGetThrough ==
  \A c, d \in Checks, b \in Bundles :
    /\ answers[d] # None /\ answers[d].offered = b
    /\ answers[c] # None
    /\ answers[c].context.install = answers[d].context.install
    /\ answers[c].context.channel = answers[d].context.channel
    /\ answers[c].context.runtime = answers[d].context.runtime
    /\ CurrentVersion(answers[c].context) < Version[b]
    => <<c, b, "failed">> \notin refused

\* A download that was asked for after a release had been rolled back is not served, not even
\* with a token that was issued before (the 410 of the blob route, routes.ts).
RolledBackIsNotServed ==
  \A w \in Workers : At(w, "download", "open") => ~request[w].dead
=============================================================================
