------------------------------ MODULE Installs ------------------------------
(***************************************************************************)
(* One phone and what the backend knows of it: the install id and the      *)
(* enrolment marker it stores, the device key, the enrolment it makes      *)
(* when that is needed, and the native version policy that every answered  *)
(* check brings.  An app too old for the protocol is answered as well.     *)
(*                                                                         *)
(* The app may be killed, an answer lost, the backend may forget an        *)
(* install, the device may lose its key: MaxFaults bounds all of these.    *)
(*                                                                         *)
(* Abstracted: signatures, nonces and rate limits (RequestAuth), what a    *)
(* check offers (DeviceRoutes); a marker is the pair it is the hash of.    *)
(***************************************************************************)
EXTENDS Integers

CONSTANTS
  Ids,         \* install ids, made up at random
  Builds,      \* native builds of the app, numbered
  Retired,     \* the builds that speak the protocol before this one
  Channels,    \* the channels a retired client may name, well formed or not
  Policies,    \* native version policies, of operators and of older backends
  AppLink,     \* config.storeUrl: a link, well formed or not, or Unset
  MaxFaults,   \* bound: faults and changes of policy
  Unset

Severity == {"none", "soft", "hard"}
Links == {"https", "market", "malformed", Unset}
Policy == [min : Nat, severity : Severity \ {"none"}, link : Links]

ASSUME InstallAssumption ==
  /\ Builds \subseteq Nat /\ Retired \subseteq Builds
  /\ Policies \subseteq Policy \cup {Unset}
  /\ AppLink \in Links
  /\ Unset \notin Ids \cup Nat \cup Policy
  /\ MaxFaults \in Nat

\* Device keys, in the order they are made.
Keys == 0..MaxFaults

VARIABLES
  build,     \* the installed build
  key,       \* the device key, made by native when it is first asked for
  storage,   \* config.storage: [id, marker]
  task,      \* checkNow, down to the request it waits for
  context,   \* ctxRef.current
  gate,      \* the policy the app shows: [severity, link]
  session,   \* a user is logged in: getEnrollToken has one to give
  installs,  \* [Ids -> Keys \cup {Unset}], the backend's installs
  policy,    \* the backend's policy for the channel
  retired,   \* the channels among retiredClients
  due,       \* history: reasons to attest less attestations
  faults     \* faults so far

phone == <<build, key, storage, task, context, gate, session>>
backend == <<installs, policy, retired>>
installVars == <<phone, backend, due, faults>>

NoGate == [severity |-> "none", link |-> Unset]

InstallsInit ==
  /\ build \in Builds /\ key = 0
  /\ storage = [id |-> Unset, marker |-> Unset]
  /\ task = "off" /\ context = FALSE /\ gate = NoGate
  /\ session \in BOOLEAN
  /\ installs = [i \in Ids |-> Unset]
  /\ policy \in Policies /\ retired = {}
  /\ due = 1 /\ faults = 0

Goes(from, to) == task = from /\ task' = to

-----------------------------------------------------------------------------
(* The context of a session *)

Launch ==
  /\ Goes("off", "idle")
  /\ UNCHANGED <<build, key, storage, context, gate, session, backend, due, faults>>

\* ensureCtx: one context for the life of the process.
CheckPolicy ==
  /\ build \notin Retired
  /\ Goes("idle", IF context THEN "check" ELSE "id")
  /\ UNCHANGED <<build, key, storage, context, gate, session, backend, due, faults>>

\* Variant with a bug: each process makes up its id.
GetInstallIdAnew ==
  /\ Goes("id", "marker")
  /\ \E i \in Ids : storage' = [storage EXCEPT !.id = i]
  /\ UNCHANGED <<build, key, context, gate, session, backend, due, faults>>

\* getInstallId: an id is made up once, and stored before it is used.
GetInstallId ==
  /\ Goes("id", "marker")
  /\ IF storage.id # Unset THEN storage' = storage
                          ELSE \E i \in Ids : storage' = [storage EXCEPT !.id = i]
  /\ UNCHANGED <<build, key, context, gate, session, backend, due, faults>>

Marker == <<storage.id, key>>

\* createClientContext: what the process keeps once the key is enrolled.
ClientContext == context' = TRUE

\* enrollIfNeeded, not forced: a marker of this install and key is enough.
EnrollIfNeeded ==
  /\ IF storage.marker = Marker
       THEN Goes("marker", "check") /\ ClientContext /\ due' = due
       ELSE Goes("marker", "enroll") /\ context' = context /\ due' = due - 1
  /\ UNCHANGED <<build, key, storage, gate, session, backend, faults>>

\* With requireEnrollAuth, and no hook of the host's.
EnrollAuthorized == session

\* Store.enroll: the key replaces the one before.
Enrolled == installs' = [installs EXCEPT ![storage.id] = key]

Enroll ==
  /\ \/ Goes("enroll", "save")
     \/ Goes("reenroll", "resave")
  /\ EnrollAuthorized
  /\ Enrolled
  /\ UNCHANGED <<build, key, storage, context, gate, session, policy, retired, due, faults>>

SaveMarker ==
  /\ \/ Goes("save", "check")
     \/ Goes("resave", "recheck")
  /\ storage' = [storage EXCEPT !.marker = Marker]
  /\ ClientContext
  /\ UNCHANGED <<build, key, gate, session, backend, due, faults>>

Attesting == task \in {"enroll", "reenroll", "save", "resave"}

\* An attestation that came to nothing is a reason for another.
Interrupted == due' = IF Attesting THEN due + 1 ELSE due

Fails ==
  /\ task' = "idle"
  /\ Interrupted
  /\ UNCHANGED <<build, key, storage, context, gate, session, backend>>

\* Without a session the enrolment is refused, and checkNow ends with an error.
EnrollRefused == task \in {"enroll", "reenroll"} /\ ~EnrollAuthorized /\ Fails /\ faults' = faults

-----------------------------------------------------------------------------
(* Signed requests *)

DevicePublicKey == installs[storage.id]

\* A link an app may open: of a store's scheme, without credentials, white space or controls.
ValidLink(link) == link \in {"https", "market"}

\* withSafeStoreUrl: older backends stored any link.
SafeLink(link) == IF ValidLink(link) THEN link ELSE Unset

\* resolveNativePolicy: it asks of a build below the minimum what the operator said.
NativePolicy ==
  IF policy = Unset THEN NoGate
  ELSE [severity |-> IF build < policy.min THEN policy.severity ELSE "none",
        link |-> SafeLink(policy.link)]

\* resolvePolicy: the app opens its own link and no other.
ResolvePolicy(p) == [p EXCEPT !.link = SafeLink(AppLink)]

\* POST /check with the signature of the key that is enrolled.
Check ==
  /\ task \in {"check", "recheck"}
  /\ DevicePublicKey = key
  /\ task' = "idle"
  /\ gate' = ResolvePolicy(NativePolicy)
  /\ UNCHANGED <<build, key, storage, context, session, backend, due, faults>>

\* Variant with a bug: the marker is believed there too.
NotEnrolledBelieving ==
  /\ Goes("check", IF storage.marker = Marker THEN "recheck" ELSE "reenroll")
  /\ DevicePublicKey = Unset
  /\ due' = IF storage.marker = Marker THEN due ELSE due - 1
  /\ UNCHANGED <<build, key, storage, context, gate, session, backend, faults>>

\* signedPost: not_enrolled is answered by enrolling once more, whatever the marker says.
NotEnrolled ==
  /\ Goes("check", "reenroll")
  /\ DevicePublicKey = Unset
  /\ due' = due - 1
  /\ UNCHANGED <<build, key, storage, context, gate, session, backend, faults>>

\* A second not_enrolled ends the check.
CheckRefused ==
  /\ task = "recheck"
  /\ DevicePublicKey # key
  /\ Fails
  /\ faults' = faults

-----------------------------------------------------------------------------
(* Clients before this protocol *)

\* isValidChannel.
ValidChannel(channel) == channel # "malformed"

\* retiredPolicy: whatever the channel says, forced to hard.
RetiredPolicy == [severity |-> "hard", link |-> IF policy = Unset THEN Unset ELSE SafeLink(policy.link)]

RecordRetiredClient(channel) ==
  retired' = IF ValidChannel(channel) THEN retired \cup {channel} ELSE retired

\* The tombstone of POST /ota/v1/check: counted by channel, and sent to the store.
RetiredCheck(channel) ==
  /\ build \in Retired
  /\ Goes("idle", "idle")
  /\ RecordRetiredClient(channel)
  /\ gate' = RetiredPolicy
  /\ UNCHANGED <<build, key, storage, context, session, installs, policy, due, faults>>

-----------------------------------------------------------------------------
(* Operators, users and faults *)

Fault == faults < MaxFaults /\ faults' = faults + 1

\* POST /admin/native-policy; a malformed link is refused.
SetNativePolicy(p) ==
  /\ p # Unset
  /\ p.link = Unset \/ ValidLink(p.link)
  /\ policy' = p
  /\ Fault
  /\ UNCHANGED <<phone, installs, retired, due>>

Ends == task' = "off" /\ context' = FALSE /\ gate' = NoGate /\ Interrupted

Kill == task # "off" /\ Ends /\ Fault /\ UNCHANGED <<build, key, storage, session, backend>>

\* A request or its answer is lost.
Lost == task \in {"enroll", "save", "reenroll", "resave", "check", "recheck"} /\ Fails /\ Fault

\* The backend loses its installs, or prunes this one.
Forget ==
  /\ storage.id # Unset
  /\ installs' = [installs EXCEPT ![storage.id] = Unset]
  /\ due' = due + 1
  /\ Fault
  /\ UNCHANGED <<phone, policy, retired>>

\* The key store loses its key between two launches, and native makes another.
LoseKey ==
  /\ task = "off"
  /\ key' = key + 1
  /\ due' = due + 1
  /\ Fault
  /\ UNCHANGED <<build, storage, task, context, gate, session, backend>>

LogOut == session /\ session' = FALSE /\ Fault /\ UNCHANGED <<build, key, storage, task, context, gate, backend, due>>
LogIn == ~session /\ session' = TRUE /\ UNCHANGED <<build, key, storage, task, context, gate, backend, due, faults>>

\* The store installs a newer build, which keeps what the app has stored.
StoreUpdate ==
  /\ \E b \in Builds : b > build /\ build' = b
  /\ Ends
  /\ UNCHANGED <<key, storage, session, backend, faults>>

-----------------------------------------------------------------------------
Client ==
  \/ CheckPolicy \/ GetInstallId \/ EnrollIfNeeded \/ Enroll \/ SaveMarker \/ EnrollRefused
  \/ Check \/ NotEnrolled \/ CheckRefused
  \/ \E channel \in Channels : RetiredCheck(channel)

Faults ==
  \/ \E p \in Policies : SetNativePolicy(p)
  \/ Kill \/ Lost \/ Forget \/ LoseKey \/ LogOut \/ StoreUpdate

InstallsNext == Launch \/ Client \/ LogIn \/ Faults

\* The app is opened again and checks again, and a user logs in again.
InstallsSpec == InstallsInit /\ [][InstallsNext]_installVars /\ WF_installVars(Launch) /\ WF_installVars(Client) /\ WF_installVars(LogIn)

-----------------------------------------------------------------------------
(* Properties *)

Tasks ==
  {"off", "idle", "id", "marker", "enroll", "save", "check", "reenroll", "resave", "recheck"}

\* Every variable has its type; "only a known platform and a well-formed channel are persisted"
\* of a client nobody has authenticated (store.ts:490).
InstallsTypeOK ==
  /\ build \in Builds /\ key \in Keys
  /\ storage \in [id : Ids \cup {Unset}, marker : {Unset} \cup (Ids \X Keys)]
  /\ task \in Tasks /\ context \in BOOLEAN /\ session \in BOOLEAN
  /\ gate \in [severity : Severity, link : Links]
  /\ installs \in [Ids -> Keys \cup {Unset}]
  /\ policy \in Policies /\ retired \subseteq Channels \ {"malformed"}
  /\ due \in Int /\ faults \in 0..MaxFaults

\* One phone is one install to the backend, however its first launches end - rollout buckets, rate
\* limits and failure counts go by the install id - and is attested once, and then once more for
\* each enrolment cut short, key lost and install forgotten: "so cold starts don't re-attest"
\* (otaClient.ts:136).
PhoneIsOneInstall ==
  /\ \A i, j \in Ids : installs[i] # Unset /\ installs[j] # Unset => i = j
  /\ due >= 0

GateLinkIsSafe ==
  gate.link \in IF build \in Retired THEN {"https", "market", Unset} ELSE {SafeLink(AppLink)} \cup {Unset}

\* What a phone of this build is to be told.
Told == IF build \in Retired THEN "hard" ELSE NativePolicy.severity

\* Whatever the backend forgot, the key that was lost and the answers that were, the phone comes
\* to show the gate the operator set for its build, and to drop it when it no longer applies; and on
\* the way the gate opens no link but the app's own, or for a retired client, which opens what it is
\* given, a well-formed one.
GateFollowsThePolicy == []GateLinkIsSafe /\ <>[](task = "idle" => gate.severity = Told)
=============================================================================
