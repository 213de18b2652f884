----------------------------- MODULE Operations -----------------------------
(***************************************************************************)
(* How operators change what devices are offered: the command lines of     *)
(* `dash-ota` and the requests of the local dashboard, down to the admin   *)
(* routes.  A command line is read token by token, a dashboard request     *)
(* looks its release up before it changes it, and others may come between. *)
(*                                                                         *)
(* The dashboard may be stopped, its configuration edited and another one  *)
(* started while its pages stay open and its requests go on.               *)
(*                                                                         *)
(* Abstracted: the Host header is right; a token is the run it was made    *)
(* for; a release stays on its channel; store links are right; what        *)
(* happens inside a route is ReleaseStore's subject.                       *)
(***************************************************************************)
EXTENDS Integers, Sequences

CONSTANTS
  Releases,      \* bundle ids of the backend
  ReleaseChannel,\* [Releases -> channels]
  Environments,  \* names of the dashboard's environments
  Configs,       \* what dash-ota.config.mjs may hold, one after the other
  Private,       \* servers asked over TLS, and those of this machine
  DefaultServer, \* OTA_SERVER
  TokenIsSet,    \* whether OTA_ADMIN_TOKEN is
  Number,        \* [the texts that are whole numbers -> the numbers]
  Lines,         \* command lines, without the command: sequences of tokens
  Percents,      \* rollouts asked for at the dashboard, Absent where the body has none
  Minimums,      \* native builds asked for at the dashboard, Absent too
  Requests,      \* dashboard requests served at the same time
  Pages,         \* the browser's tabs
  MaxRuns,       \* bound: starts of the dashboard
  Absent,        \* no such field, or one that is not a number
  Nobody

Channels == {"dev", "uat", "prod"}

ASSUME OperationsAssumption ==
  /\ ReleaseChannel \in [Releases -> Channels]
  /\ Percents \cup Minimums \subseteq Int \cup {Absent} /\ Absent \notin Nat
  /\ TokenIsSet \in BOOLEAN /\ MaxRuns \in Nat
  /\ Nobody \notin Environments

VARIABLES
  shown,     \* [Releases -> [rollout, paused, rolledBack]], the backend's records
  minimum,   \* [Channels -> the native policy's minimum], the backend's policies
  board,     \* the dashboard that runs: its token and its configuration
  runs,      \* starts of the dashboard
  pages,     \* [Pages -> the token and the environments the page holds]
  query,     \* [Requests -> the dashboard request under way]
  last       \* history: what the last step changed, on whose word and at which page

opVars == <<shown, minimum, board, runs, pages, query, last>>

NoBoard == [token |-> 0]
NoQuery == [env |-> Nobody]
Nothing == [by |-> Nobody, gave |-> {}, pct |-> FALSE, confirm |-> Nobody, page |-> {}]

OpInit ==
  /\ shown = [r \in Releases |-> [rollout |-> 10, paused |-> FALSE, rolledBack |-> FALSE]]
  /\ minimum = [c \in Channels |-> 0]
  /\ board = NoBoard /\ runs = 0
  /\ pages = [p \in Pages |-> NoBoard]
  /\ query = [q \in Requests |-> NoQuery]
  /\ last = Nothing

-----------------------------------------------------------------------------
(* The admin routes; a release the backend does not know is answered 404 *)

SetRolloutRoute(r, pct) ==
  r \in Releases /\ shown' = [shown EXCEPT ![r].rollout = pct] /\ UNCHANGED minimum

SetPausedRoute(r, paused) ==
  r \in Releases /\ shown' = [shown EXCEPT ![r].paused = paused] /\ UNCHANGED minimum

RollbackRoute(r) ==
  /\ r \in Releases
  /\ shown' = [shown EXCEPT ![r].rolledBack = TRUE, ![r].paused = TRUE]
  /\ UNCHANGED minimum

NativePolicyRoute(channel, min) ==
  minimum' = [minimum EXCEPT ![channel] = min] /\ UNCHANGED shown

-----------------------------------------------------------------------------
(* Command lines.  A token is "--name", "--name=value" or a word; values are texts. *)

NoValue == "(none)"

Bare(name) == [name |-> name, value |-> NoValue]
With(name, value) == [name |-> name, value |-> value]
Word(value) == [name |-> "", value |-> value]

IsWord(token) == token.name = ""

ASSUME LinesAssumption ==
  /\ Lines \subseteq Seq([name : STRING, value : STRING])
  /\ DOMAIN Number \cap {NoValue, "true", "false"} = {}

\* parseArgs: a word right after "--name" is its value, whatever the flag is.
Takes(line, i) ==
  line[i] = Bare(line[i].name) /\ i < Len(line) /\ IsWord(line[i + 1])

ValueAt(line, i) == IF Takes(line, i) THEN line[i + 1].value ELSE line[i].value

Named(line) == {i \in 1..Len(line) : ~IsWord(line[i])}
Names(line) == {line[i].name : i \in Named(line)}

\* The last of several values counts.
ParseArgs(line) ==
  [n \in Names(line) |->
     ValueAt(line, CHOOSE i \in Named(line) :
       line[i].name = n /\ \A k \in Named(line) : line[k].name = n => k <= i)]

Parsed == [line \in Lines |-> ParseArgs(line)]

Given(flags, name) == name \in DOMAIN flags

ServerFlags == {"server", "admin-token"}

\* Flags that take a value, and switches.
ValueFlags(command) ==
  ServerFlags \cup
  CASE command = "rollout" -> {"bundle-id", "pct"}
    [] command = "pause" -> {"bundle-id"}
    [] command = "rollback" -> {"bundle-id"}
    [] command = "native-policy" -> {"channel", "min"}

Switches(command) == {"allow-insecure"} \cup (IF command = "pause" THEN {"resume"} ELSE {})

Commands == {"rollout", "pause", "rollback", "native-policy"}

\* assertKnownFlags.
KnownFlags(command, flags) == DOMAIN flags \subseteq ValueFlags(command) \cup Switches(command)

\* assertFlagValues.
FlagValues(command, flags) ==
  /\ \A n \in DOMAIN flags \cap ValueFlags(command) : flags[n] # NoValue
  /\ \A n \in DOMAIN flags \cap Switches(command) : flags[n] \in {NoValue, "true", "false"}

FlagStr(flags, name, default) ==
  IF Given(flags, name) /\ flags[name] # NoValue THEN flags[name] ELSE default

FlagBool(flags, name) == Given(flags, name) /\ flags[name] \in {NoValue, "true"}

\* flagInt, parseIntStrict: nothing but a whole number within the bounds; absent, the default.
FlagInt(flags, name, default, low, high) ==
  IF Given(flags, name) THEN {Number[t] : t \in {flags[name]} \cap DOMAIN Number} \cap low..high
                        ELSE {default}

\* asChannel.
FlagChannel(flags) == {FlagStr(flags, "channel", "dev")} \cap Channels

\* assertSecureServer: no admin token in the clear to another machine.
SecureServer(server, allowInsecure) == server \in Private \/ allowInsecure

\* resolveServer.
ServerResolved(flags) ==
  /\ Given(flags, "admin-token") \/ TokenIsSet
  /\ SecureServer(FlagStr(flags, "server", DefaultServer), FlagBool(flags, "allow-insecure"))

RolloutCommand(flags) ==
  /\ Given(flags, "bundle-id")
  /\ \E pct \in FlagInt(flags, "pct", 100, 0, 100) : SetRolloutRoute(flags["bundle-id"], pct)

PauseCommand(flags) ==
  /\ Given(flags, "bundle-id")
  /\ SetPausedRoute(flags["bundle-id"], ~FlagBool(flags, "resume"))

RollbackCommand(flags) == Given(flags, "bundle-id") /\ RollbackRoute(flags["bundle-id"])

NativePolicyCommand(flags) ==
  \E channel \in FlagChannel(flags), min \in FlagInt(flags, "min", 0, 0, 100) :
    NativePolicyRoute(channel, min)

\* The percentages a line gives some flag.
PercentsGiven(line) ==
  {Number[t] : t \in {ValueAt(line, i) : i \in Named(line)} \cap DOMAIN Number} \cap 0..100

\* main: a line that is refused, or a release the backend does not know, changes nothing.
Run(command, line) ==
  LET flags == Parsed[line] IN
    /\ KnownFlags(command, flags)
    /\ FlagValues(command, flags)
    /\ ServerResolved(flags)
    /\ \/ command = "rollout" /\ RolloutCommand(flags)
       \/ command = "pause" /\ PauseCommand(flags)
       \/ command = "rollback" /\ RollbackCommand(flags)
       \/ command = "native-policy" /\ NativePolicyCommand(flags)
    /\ last' = [Nothing EXCEPT !.by = command, !.gave = PercentsGiven(line),
                               !.pct = "pct" \in Names(line)]
    /\ UNCHANGED <<board, runs, pages, query>>

-----------------------------------------------------------------------------
(* The dashboard: its configuration, its runs and its pages *)

\* DashboardEnv, as far as requests depend on it.  "whole": it has every required field.
EnvConfigs ==
  [channel : Channels, server : Private \cup {"plain"}, adminToken : BOOLEAN,
   protected : BOOLEAN, whole : BOOLEAN]

\* validateConfig.
ValidConfig(config) ==
  DOMAIN config # {} /\ \A e \in DOMAIN config : config[e].whole /\ SecureServer(config[e].server, FALSE)

\* cmdDashboard, startDashboard: a token of its own, and the configuration as it is now.
StartDashboard ==
  /\ board = NoBoard
  /\ runs < MaxRuns
  /\ runs' = runs + 1
  /\ \E config \in Configs :
       ValidConfig(config) /\ board' = [token |-> runs', config |-> config]
  /\ last' = Nothing
  /\ UNCHANGED <<shown, minimum, query, pages>>

\* close: requests under way still hear from the backend, and the process goes on until they have.
StopDashboard ==
  /\ board # NoBoard
  /\ board' = NoBoard
  /\ last' = Nothing
  /\ UNCHANGED <<shown, minimum, query, pages, runs>>

\* Variant with a bug: any page's token will do.
TokenMatchesAny(page) == TRUE

TokenMatches(page) == page.token = board.token

\* describe: what a page knows of its environments it asked for when it opened.
OpenPage(p) ==
  /\ board # NoBoard
  /\ pages' = [pages EXCEPT ![p] = board]
  /\ last' = Nothing
  /\ UNCHANGED <<shown, minimum, query, board, runs>>

-----------------------------------------------------------------------------
(* Dashboard requests *)

\* The bodies of the requests that change something; "absent" and Absent stand for a body without.
Changes ==
  [do : {"rollout"}, release : Releases, arg : Percents]
    \cup [do : {"pause"}, release : Releases, arg : {"true", "false", "absent"}]
    \cup [do : {"rollback"}, release : Releases, arg : {"absent"}]
    \cup [do : {"native-policy"}, release : {Nobody}, arg : Minimums]

Confirmed(env, protected, confirm) == protected => confirm = env

\* envOf and targetOf: an environment this run knows, with an admin token.
TargetOf(env) == env \in DOMAIN board.config /\ board.config[env].adminToken

\* handle and handleEnv, up to the look at the release; a policy is of the environment's channel.
\* readJson, envOf, targetOf and requireConfirm refuse what is not asked as the page would.
Ask(q, p, env, change, confirm) ==
  /\ query[q] = NoQuery
  /\ board # NoBoard /\ pages[p] # NoBoard
  /\ TokenMatches(pages[p])
  /\ env \in DOMAIN pages[p].config
  /\ TargetOf(env)
  /\ Confirmed(env, board.config[env].protected, confirm)
  /\ query' = [query EXCEPT ![q] =
       [env |-> env, channel |-> board.config[env].channel, page |-> pages[p].config[env],
        change |-> change, confirm |-> confirm,
        step |-> IF change.do = "native-policy" THEN "change" ELSE "look"]]
  /\ last' = Nothing
  /\ UNCHANGED <<shown, minimum, board, pages, runs>>

Done(q) == query' = [query EXCEPT ![q] = NoQuery]

At(q, step) == query[q] # NoQuery /\ query[q].step = step

ReleaseIn(channel, r) == ReleaseChannel[r] = channel

LookUp(q) ==
  /\ At(q, "look")
  /\ IF ReleaseIn(query[q].channel, query[q].change.release)
       THEN query' = [query EXCEPT ![q].step = "change"]
       ELSE Done(q)
  /\ last' = Nothing
  /\ UNCHANGED <<shown, minimum, board, pages, runs>>

\* integer: a field that is not a whole number within its bounds is refused.
WholeNumber(arg, low, high) == {arg} \cap low..high

\* A pause that does not say so is one: "body.paused !== false".
Change(q) ==
  /\ At(q, "change")
  /\ LET c == query[q].change IN
       \/ /\ c.do = "rollout"
          /\ \E pct \in WholeNumber(c.arg, 0, 100) : SetRolloutRoute(c.release, pct)
       \/ c.do = "pause" /\ SetPausedRoute(c.release, c.arg # "false")
       \/ c.do = "rollback" /\ RollbackRoute(c.release)
       \/ /\ c.do = "native-policy"
          /\ \E min \in WholeNumber(c.arg, 0, 100) : NativePolicyRoute(query[q].channel, min)
  /\ last' = [by |-> query[q].env, gave |-> {}, pct |-> FALSE,
              confirm |-> query[q].confirm, page |-> {query[q].page}]
  /\ Done(q)
  /\ UNCHANGED <<board, pages, runs>>

\* A field is refused, the backend is not reached, or the process ends.
AskFails(q) ==
  /\ query[q] # NoQuery
  /\ Done(q)
  /\ last' = Nothing
  /\ UNCHANGED <<shown, minimum, board, pages, runs>>

OpNext ==
  \/ \E command \in Commands, line \in Lines : Run(command, line)
  \/ StartDashboard \/ StopDashboard
  \/ \E p \in Pages : OpenPage(p)
  \/ \E q \in Requests :
       \/ \E p \in Pages, env \in Environments, change \in Changes :
            \E confirm \in {env, Nobody} : Ask(q, p, env, change, confirm)
       \/ LookUp(q) \/ Change(q) \/ AskFails(q)

OpSpec == OpInit /\ [][OpNext]_opVars

-----------------------------------------------------------------------------
(* Properties *)

\* No number is given as a server, a token or a release, nor to a flag that is given again.
NumbersAreTypedOnce ==
  \A line \in Lines : \A i \in Named(line) :
    ValueAt(line, i) \in DOMAIN Number =>
      /\ line[i].name \notin ServerFlags \cup {"bundle-id"}
      /\ \A k \in Named(line) : line[k].name = line[i].name => k = i

RampsAsTyped ==
  [][\A r \in Releases : shown'[r].rollout # shown[r].rollout /\ last'.by = "rollout" /\ last'.page = {} =>
       IF last'.gave = {} THEN shown'[r].rollout = 100 /\ ~last'.pct
                          ELSE shown'[r].rollout \in last'.gave]_opVars

ChangesWhatThePageShows ==
  [][\A page \in last'.page :
       /\ \A r \in Releases : ReleaseChannel[r] # page.channel => shown'[r] = shown[r]
       /\ \A c \in Channels \ {page.channel} : minimum'[c] = minimum[c]
       /\ page.protected => last'.confirm = last'.by]_opVars

\* What the dashboard changes is on the channel its page showed for the environment, and where the
\* page showed it protected, with its name typed: neither another tab's release id (releaseIn), nor
\* a page left open while the configuration was edited and the dashboard restarted (tokenMatches).
\* And a release is ramped to a percentage its operator typed, to all devices only where the line
\* gave none: "`rollout --rollout 50` would otherwise ramp to 100%" (util.ts:438), and `--pct` alone
\* or a value taken by another flag too (usage.ts:260).
ChangesAsAsked == ChangesWhatThePageShows /\ RampsAsTyped
=============================================================================
