----------------------------- MODULE Deployment -----------------------------
(***************************************************************************)
(* How a host starts the backend: what the environment says, what the      *)
(* options of the call override, the providers a store is made of, and     *)
(* the gates in front of the routes that follow from them.  One process    *)
(* may mount the middleware, listen by itself, or do both.                 *)
(*                                                                         *)
(* Abstracted: an environment variable has the name of its option; of the  *)
(* rates, the enrolment's stands for all; a request is what its gate looks *)
(* at, and one rate window lasts as long as the process.                   *)
(***************************************************************************)
EXTENDS Naturals, FiniteSets

CONSTANTS
  Environments, \* what process.env may hold, by option: text or Undefined
  OptionSets,   \* what a host may pass: a function on some of the options
  Number,       \* the number a text stands for; other texts are no numbers
  EnrollRate,   \* the default of OTA_ENROLL_RATE
  Nonces,
  AdminTokens,  \* what callers present, "" for nothing
  MaxBackends,  \* bound: backends of one process
  MaxEnrols,    \* bound: enrolments asked for
  Undefined, NoAnswer

\* BackendOptions types the two gates as booleans.
ASSUME DeployAssumption ==
  /\ MaxBackends \in Nat
  /\ \A o \in OptionSets :
       \A gate \in {"requireRequestSignature", "requireEnrollAuth"} \cap DOMAIN o :
         o[gate] \in BOOLEAN \cup {Undefined}

VARIABLES
  env,       \* process.env, Undefined while no process runs
  entries,   \* what is mounted: [via, backend, store, options, config]
  stores,    \* [1..MaxStores -> [db, blob, cache]], Undefined when not made
  seen,      \* nonces spent, by cache: 0 is the one outside the process
  enrols,    \* enrolments counted in the window, by cache
  reply,     \* the last answer, with what the request showed
  taken,     \* history: [Nonces \X 1..MaxBackends -> signed requests accepted]
  enrolsAsked \* bound: the enrolments asked for

deployVars == <<env, entries, stores, seen, enrols, reply, taken, enrolsAsked>>

MaxStores == 2 * MaxBackends

Cache == 0..MaxStores

DeployInit ==
  /\ env = Undefined
  /\ entries = {}
  /\ stores = [s \in 1..MaxStores |-> Undefined]
  /\ seen = [c \in Cache |-> {}]
  /\ enrols = [c \in Cache |-> 0]
  /\ reply = NoAnswer
  /\ taken = [n \in Nonces |-> [b \in 1..MaxBackends |-> 0]]
  /\ enrolsAsked = 0

-----------------------------------------------------------------------------
(* The configuration *)

\* An empty text, or one that is no number, is no setting.
EnvNum(text, fallback) == IF text \in DOMAIN Number THEN Number[text] ELSE fallback

OrElse(text, fallback) == IF text = Undefined THEN fallback ELSE text

LoadConfig ==
  [adminToken              |-> OrElse(env.adminToken, ""),
   storageDir              |-> OrElse(env.storageDir, "cwd"),
   dataDir                 |-> OrElse(env.dataDir, "cwd"),
   enrollRateLimit         |-> EnvNum(env.enrollRateLimit, EnrollRate),
   requireRequestSignature |-> env.requireRequestSignature # "false",
   requireEnrollAuth       |-> env.requireEnrollAuth # "false",
   redisUrl                |-> env.redisUrl,
   databaseUrl             |-> env.databaseUrl,
   sqlitePath              |-> env.sqlitePath,
   s3Bucket                |-> env.s3Bucket,
   verifyEnrollToken       |-> Undefined,
   onConfirm               |-> Undefined]

\* An option that is undefined is not set.
ResolveBackendConfig(options) ==
  LET defined == {f \in DOMAIN options : options[f] # Undefined}
  IN  [f \in DOMAIN LoadConfig |-> IF f \in defined THEN options[f] ELSE LoadConfig[f]]

-----------------------------------------------------------------------------
(* The store *)

\* A setting that JavaScript takes for true.
Given(text) == text # Undefined /\ text # ""

Set(flag) == flag = TRUE

Provided(options) == IF "providers" \in DOMAIN options THEN options.providers ELSE {}

StoreOf(config, providers) ==
  [db    |-> IF "db" \in providers THEN "given"
             ELSE IF Given(config.databaseUrl) THEN "postgres"
             ELSE IF Given(config.sqlitePath) THEN "sqlite" ELSE "disk",
   blob  |-> IF "blob" \in providers THEN "given"
             ELSE IF Given(config.s3Bucket) THEN "s3" ELSE "disk",
   cache |-> IF "cache" \in providers THEN "given"
             ELSE IF Given(config.redisUrl) THEN "redis" ELSE "memory"]

\* A directory npm deletes is refused, if it is one the store would use.
OutsideNodeModules(config, store) ==
  /\ store.db = "disk" => config.dataDir # "node_modules"
  /\ store.blob = "disk" => config.storageDir # "node_modules"

CacheOf(s) == IF stores[s].cache = "memory" THEN s ELSE 0

-----------------------------------------------------------------------------
(* Starting *)

StartProcess(e) ==
  /\ env = Undefined
  /\ env' = e
  /\ UNCHANGED <<entries, stores, seen, enrols, reply, taken, enrolsAsked>>

Fresh(b, s) ==
  /\ env # Undefined
  /\ b = 1 + Cardinality({entry.backend : entry \in entries})
  /\ s = 1 + Cardinality({entry.store : entry \in entries})

Mount(config, options, new, made) ==
  /\ OutsideNodeModules(config, StoreOf(config, Provided(options)))
  /\ stores' = [s \in 1..MaxStores |-> IF s \in made THEN StoreOf(config, Provided(options)) ELSE stores[s]]
  /\ entries' = entries \cup new
  /\ UNCHANGED <<env, seen, enrols, reply, taken, enrolsAsked>>

Entry(via, b, s, options, config) ==
  [via |-> via, backend |-> b, store |-> s, options |-> options, config |-> config]

\* The middleware and the server of one backend share its store.
CreateOtaBackend(b, s, options) ==
  LET config == ResolveBackendConfig(options)
  IN  /\ Fresh(b, s)
      /\ Mount(config, options, {Entry("middleware", b, s, options, config),
                                 Entry("listen", b, s, options, config)}, {s})

DashOtaMiddleware(b, s, options) ==
  LET config == ResolveBackendConfig(options)
  IN  /\ Fresh(b, s)
      /\ Mount(config, options, {Entry("middleware", b, s, options, config)}, {s})

\* The standalone server asks the environment alone.
Main(b, s) ==
  /\ Fresh(b, s)
  /\ Mount(LoadConfig, <<>>, {Entry("listen", b, s, <<>>, LoadConfig)}, {s})

\* What is in the process's memory ends with it.
StopProcess ==
  /\ env # Undefined
  /\ env' = Undefined
  /\ entries' = {}
  /\ stores' = [s \in 1..MaxStores |-> Undefined]
  /\ seen' = [c \in Cache |-> IF c = 0 THEN seen[0] ELSE {}]
  /\ enrols' = [c \in Cache |-> IF c = 0 THEN enrols[0] ELSE 0]
  /\ reply' = NoAnswer
  /\ taken' = [n \in Nonces |-> [b \in 1..MaxBackends |-> 0]]
  /\ UNCHANGED enrolsAsked

-----------------------------------------------------------------------------
(* The gates *)

Answered(what, status, entry, shown) ==
  reply' = [what |-> what, status |-> status, entry |-> entry, shown |-> shown]

\* Variant with a bug: no token is as good as another.
RequireAdminLoose(config, presented) == IF presented = config.adminToken THEN 200 ELSE 403

\* The status a caller with this token is turned away with, or 200.
RequireAdmin(config, presented) ==
  IF ~Given(config.adminToken) THEN 503
  ELSE IF presented # config.adminToken THEN 403 ELSE 200

\* The host's hook decides, if there is one; else a token need only be there.
EnrollAuthorized(config, presented) ==
  IF config.verifyEnrollToken # Undefined
    THEN config.verifyEnrollToken = "allows"
    ELSE ~Set(config.requireEnrollAuth) \/ presented

Charge(config, c) ==
  enrols' = IF config.enrollRateLimit = 0 THEN enrols ELSE [enrols EXCEPT ![c] = @ + 1]

\* A hook that throws fails the request; one refused is counted elsewhere.
Enrol(entry, presented) ==
  LET config == entry.config
      c == CacheOf(entry.store)
  IN  /\ enrolsAsked < MaxEnrols
      /\ enrolsAsked' = enrolsAsked + 1
      /\ IF EnrollAuthorized(config, presented)
           THEN /\ Charge(config, c)
                /\ Answered("enroll", IF enrols'[c] <= config.enrollRateLimit \/ config.enrollRateLimit = 0
                                       THEN 200 ELSE 429, entry, presented)
           ELSE /\ UNCHANGED enrols
                /\ Answered("enroll", IF config.verifyEnrollToken = "throws" THEN 500 ELSE 401, entry, presented)
      /\ UNCHANGED <<env, entries, stores, seen, taken>>

\* Whether a request may go on; a signed one spends its nonce.
Authenticates(entry, n, signed) ==
  \/ ~Set(entry.config.requireRequestSignature)
  \/ signed /\ n \notin seen[CacheOf(entry.store)]

Authenticate(entry, n, signed) ==
  IF Set(entry.config.requireRequestSignature) /\ Authenticates(entry, n, signed)
    THEN /\ seen' = [seen EXCEPT ![CacheOf(entry.store)] = @ \cup {n}]
         /\ taken' = [taken EXCEPT ![n][entry.backend] = @ + 1]
    ELSE UNCHANGED <<seen, taken>>

\* Whatever the hook does is logged, and changes nothing.
RunHook(config) == UNCHANGED env

\* A signed report, with the hook the host has on it.
Confirm(entry, n, signed) ==
  /\ Authenticate(entry, n, signed)
  /\ IF Authenticates(entry, n, signed)
       THEN RunHook(entry.config) /\ Answered("confirm", 200, entry, signed)
       ELSE UNCHANGED env /\ Answered("confirm", 401, entry, signed)
  /\ UNCHANGED <<entries, stores, enrols, enrolsAsked>>

Admin(entry, presented) ==
  /\ Answered("admin", RequireAdmin(entry.config, presented), entry, presented)
  /\ UNCHANGED <<env, entries, stores, seen, enrols, taken, enrolsAsked>>

DeployNext ==
  \/ \E e \in Environments : StartProcess(e)
  \/ \E b \in 1..MaxBackends, s \in 1..MaxStores :
       \/ Main(b, s)
       \/ \E o \in OptionSets : CreateOtaBackend(b, s, o) \/ DashOtaMiddleware(b, s, o)
  \/ StopProcess
  \/ \E entry \in entries :
       \/ \E presented \in BOOLEAN : Enrol(entry, presented)
       \/ \E n \in Nonces, signed \in BOOLEAN : Confirm(entry, n, signed)
       \/ \E presented \in AdminTokens : Admin(entry, presented)

DeploySpec == DeployInit /\ [][DeployNext]_deployVars

-----------------------------------------------------------------------------
(* Properties *)

\* Whether the host asked for this gate to be open: the option it gave, or else the environment.
OpenedByHost(entry, gate) ==
  IF gate \in DOMAIN entry.options /\ entry.options[gate] # Undefined
    THEN entry.options[gate] = FALSE
    ELSE env[gate] = "false"

GatesOpenOnPurpose ==
  (reply # NoAnswer /\ reply.status = 200) =>
    /\ reply.what = "admin" => reply.shown # ""
    /\ (reply.what = "confirm" /\ reply.shown = FALSE) => OpenedByHost(reply.entry, "requireRequestSignature")
    /\ (reply.what = "enroll" /\ reply.shown = FALSE) =>
         \/ OpenedByHost(reply.entry, "requireEnrollAuth")
         \/ reply.entry.config.verifyEnrollToken = "allows"

DoorsShareTheGuard == \A n \in Nonces, b \in 1..MaxBackends : taken[n][b] <= 1

HooksEndNothing == (reply # NoAnswer /\ reply.what = "confirm") => env # Undefined

\* A caller without what a gate asks for gets in only where the host opened that gate by name: an
\* option left undefined, a text that is no number or an empty token opens nothing.  One nonce is worth
\* one request to a backend, whichever of its doors it comes through.  And a host's hook cannot take
\* the answer, or the process, from a device.
GatesHold == GatesOpenOnPurpose /\ DoorsShareTheGuard /\ HooksEndNothing
=============================================================================
