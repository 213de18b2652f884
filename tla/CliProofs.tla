----------------------------- MODULE CliProofs -----------------------------
(***************************************************************************)
(* Proofs about the CLI's three models: two machines compute the same      *)
(* runtime version (Fingerprint), operators change what they asked for     *)
(* (Operations), and a release is the build it was made from, and is       *)
(* served once it is reported as published (Publish).                      *)
(***************************************************************************)
EXTENDS Publish, Operations, Fingerprint, Channel, SequenceTheorems,
        WellFoundedInduction, TLAPS

-----------------------------------------------------------------------------
(* Largest elements *)

\* A set of natural numbers that is bounded and not empty has a largest element.
LEMMA LargestOfBounded ==
  ASSUME NEW S \in SUBSET Nat, S # {}, NEW b \in Nat, \A x \in S : x <= b
  PROVE  \E x \in S : \A y \in S : x >= y
<1> DEFINE R == OpToRel(<, Nat)
           T == {b - x : x \in S}
<1>1. IsWellFoundedOn(R, Nat)
  BY NatLessThanWellFounded
<1>2. T \subseteq Nat /\ T # {}
  <2>1. \A x \in S : b - x \in Nat
    OBVIOUS
  <2>2. PICK z : z \in S
    OBVIOUS
  <2>3. b - z \in T
    BY <2>2
  <2> QED
    BY <2>1, <2>3
<1> HIDE DEF R
<1>3. PICK t \in T : \A u \in T : ~ (<<u, t>> \in R)
  BY <1>1, <1>2, WFMin
<1>4. PICK x \in S : t = b - x
  BY <1>3
<1>5. ASSUME NEW y \in S PROVE x >= y
  <2>1. b - y \in T /\ b - y \in Nat /\ b - x \in Nat
    OBVIOUS
  <2>2. ~ (<<b - y, b - x>> \in R)
    BY <1>3, <1>4, <2>1
  <2>3. ~ (b - y < b - x)
    BY <2>1, <2>2 DEF R, OpToRel
  <2> QED
    BY <2>3
<1> QED
  BY <1>5

-----------------------------------------------------------------------------
(* The runtime version *)

\* Without git nothing is tracked.
TracksInGit ==
  /\ tracked \in [Machines -> SUBSET Files]
  /\ ~inGit => \A m \in Machines : tracked[m] = {}

\* A laptop and a clean CI checkout of the same commit compute the same runtime version, whatever was
\* built on either and whatever lies around untracked (hashNativeDir, gitTrackedNativeFiles).
THEOREM VersionsAgree == FpSpec => []LaptopAndCiAgree
<1>1. FpInit => TracksInGit
  BY DEF FpInit, TracksInGit
<1>2. TracksInGit /\ [FpNext]_fpVars => TracksInGit'
  <2> SUFFICES ASSUME TracksInGit, [FpNext]_fpVars PROVE TracksInGit'
    OBVIOUS
  <2>1. CASE UNCHANGED <<tracked, inGit>>
    BY <2>1 DEF TracksInGit
  <2>2. ASSUME NEW f \in Files, Add(f) PROVE TracksInGit'
    BY <2>2 DEF TracksInGit, Add, Machines
  <2>3. CASE Commit
    BY <2>3 DEF TracksInGit, Commit, Machines
  <2>4. CASE CheckOut
    BY <2>4 DEF TracksInGit, CheckOut, Machines
  <2> QED
    BY <2>1, <2>2, <2>3, <2>4 DEF FpNext, fpVars, Edit, BuildWrites, Write
<1>3. TracksInGit => LaptopAndCiAgree
  <2> SUFFICES ASSUME TracksInGit, Clean(Laptop), Clean(CI), head[Laptop] = head[CI], tracked[CI] # {}
               PROVE  RuntimeVersion(Laptop) = RuntimeVersion(CI)
    BY DEF LaptopAndCiAgree
  <2>1. inGit /\ tracked[Laptop] = tracked[CI] /\ tracked[CI] \subseteq Files
    BY DEF TracksInGit, Clean, Machines
  <2> DEFINE files == tracked[CI] \ Output
  <2>2. ASSUME NEW m \in Machines PROVE RuntimeVersion(m) = {<<f, head[CI][f]>> : f \in files}
    <3>1. /\ tracked[m] = tracked[CI] /\ tracked[m] # {} /\ head[m] = head[CI]
          /\ tracked[m] = {f \in Files : head[m][f] # NoFile}
          /\ \A f \in tracked[m] : disk[m][f] = head[m][f]
      BY <2>1 DEF Machines, Clean
    <3>2. (tracked[m] \ Output) \cap OnDisk(m) = files
      BY <3>1 DEF OnDisk
    <3>3. RuntimeVersion(m) = {<<f, disk[m][f]>> : f \in files}
      BY <2>1, <3>1, <3>2 DEF RuntimeVersion, HashNativeDir, TrackedNativeFiles
    <3>4. \A f \in files : disk[m][f] = head[CI][f]
      BY <3>1
    <3> QED
      BY <3>3, <3>4
  <2> QED
    BY <2>2 DEF Machines
<1> QED
  BY <1>1, <1>2, <1>3, PTL DEF FpSpec

-----------------------------------------------------------------------------
(* Operating releases *)

\* A page that holds the token of the dashboard that runs holds its configuration.
TokensAreOwn ==
  /\ runs \in Nat
  /\ pages \in [Pages -> {NoBoard} \cup [token : 1..runs, config : Configs]]
  /\ board = NoBoard \/ board \in [token : {runs} \ {0}, config : Configs]
  /\ \A p \in Pages : board # NoBoard /\ pages[p] # NoBoard /\ pages[p].token = runs => pages[p] = board

\* A request under way is for the channel its page showed, and confirmed where that was protected; the
\* release it is about to change was found on that channel.
AsShown(x) ==
  /\ x.channel = x.page.channel
  /\ x.page.protected => x.confirm = x.env
  /\ x.step = "change" /\ x.change.do # "native-policy" => ReleaseIn(x.channel, x.change.release)

QueriesAsShown ==
  /\ DOMAIN query = Requests
  /\ \A q \in Requests : query[q] # NoQuery => AsShown(query[q])

ShownTyped ==
  /\ DOMAIN shown = Releases
  /\ \A r \in Releases : DOMAIN shown[r] = {"rollout", "paused", "rolledBack"}
  /\ minimum \in [Channels -> Int]

OpInv == ShownTyped /\ TokensAreOwn /\ QueriesAsShown

\* What the routes change, and what they leave alone.
LEMMA RoutesChange ==
  ASSUME ShownTyped, NEW r \in Releases
  PROVE  /\ \A pct : SetRolloutRoute(r, pct) =>
                ShownTyped' /\ shown'[r].rollout = pct
                  /\ (\A i \in Releases \ {r} : shown'[i] = shown[i]) /\ minimum' = minimum
         /\ \A paused : SetPausedRoute(r, paused) =>
                ShownTyped' /\ shown'[r].rollout = shown[r].rollout
                  /\ (\A i \in Releases \ {r} : shown'[i] = shown[i]) /\ minimum' = minimum
         /\ RollbackRoute(r) =>
                ShownTyped' /\ shown'[r].rollout = shown[r].rollout
                  /\ (\A i \in Releases \ {r} : shown'[i] = shown[i]) /\ minimum' = minimum
<1>1. ASSUME NEW field, NEW v, field \in {"rollout", "paused"}, shown' = [shown EXCEPT ![r] = [@ EXCEPT ![field] = v]], minimum' = minimum
      PROVE  /\ ShownTyped' /\ (\A i \in Releases \ {r} : shown'[i] = shown[i])
             /\ shown'[r] = [shown[r] EXCEPT ![field] = v]
  BY <1>1 DEF ShownTyped
<1> QED
  BY <1>1 DEF ShownTyped, SetRolloutRoute, SetPausedRoute, RollbackRoute

\* A dashboard that was not opened has shown nothing and asked nothing.
LEMMA OpInitially == OpInit => OpInv
<1> SUFFICES ASSUME OpInit PROVE OpInv
  OBVIOUS
<1>1. ShownTyped
  BY DEF OpInit, ShownTyped
<1>2. TokensAreOwn
  BY DEF OpInit, TokensAreOwn, NoBoard
<1>3. QueriesAsShown
  BY DEF OpInit, QueriesAsShown
<1> QED
  BY <1>1, <1>2, <1>3 DEF OpInv

\* A command line changes the backend's records only.
LEMMA RunKeeps ==
  ASSUME OpInv, NEW command, NEW line, Run(command, line)
  PROVE  OpInv'
<1>1. UNCHANGED <<board, runs, pages, query>>
  BY DEF Run
<1>2. ShownTyped'
  <2>1. ShownTyped
    BY DEF OpInv
  <2> DEFINE flags == Parsed[line]
  <2>2. \/ RolloutCommand(flags) \/ PauseCommand(flags) \/ RollbackCommand(flags)
        \/ NativePolicyCommand(flags)
    BY DEF Run
  <2> HIDE DEF flags
  <2>3. CASE RolloutCommand(flags)
    BY <2>1, <2>3, RoutesChange DEF RolloutCommand, SetRolloutRoute
  <2>4. CASE PauseCommand(flags)
    BY <2>1, <2>4, RoutesChange DEF PauseCommand, SetPausedRoute
  <2>5. CASE RollbackCommand(flags)
    BY <2>1, <2>5, RoutesChange DEF RollbackCommand, RollbackRoute
  <2>6. CASE NativePolicyCommand(flags)
    <3>1. PICK channel \in FlagChannel(flags), min \in FlagInt(flags, "min", 0, 0, 100) :
            NativePolicyRoute(channel, min)
      BY <2>6 DEF NativePolicyCommand
    <3>2. min \in Int
      BY <3>1 DEF FlagInt
    <3> QED
      BY <2>1, <3>1, <3>2 DEF NativePolicyRoute, ShownTyped
  <2> QED
    BY <2>2, <2>3, <2>4, <2>5, <2>6
<1>3. TokensAreOwn' /\ QueriesAsShown'
  BY <1>1 DEF OpInv, TokensAreOwn, QueriesAsShown, AsShown
<1> QED
  BY <1>2, <1>3 DEF OpInv

\* What a request that is let in asks for is what its page showed.
LEMMA AskKeeps ==
  ASSUME OpInv, NEW q \in Requests, NEW p \in Pages, NEW env, NEW change, NEW confirm,
         Ask(q, p, env, change, confirm)
  PROVE  OpInv'
<1>1. /\ board # NoBoard /\ pages[p] # NoBoard /\ pages[p].token = board.token
      /\ board.config[env].protected => confirm = env
      /\ query' = [query EXCEPT ![q] =
           [env |-> env, channel |-> board.config[env].channel, page |-> pages[p].config[env],
            change |-> change, confirm |-> confirm,
            step |-> IF change.do = "native-policy" THEN "change" ELSE "look"]]
      /\ UNCHANGED <<shown, minimum, board, pages, runs>>
  BY DEF Ask, TokenMatches, Confirmed
<1>2. pages[p] = board
  BY <1>1 DEF OpInv, TokensAreOwn
<1>3. AsShown(query'[q])
  <2>1. query'[q] =
           [env |-> env, channel |-> board.config[env].channel, page |-> board.config[env],
            change |-> change, confirm |-> confirm,
            step |-> IF change.do = "native-policy" THEN "change" ELSE "look"]
    BY <1>1, <1>2 DEF OpInv, QueriesAsShown
  <2> QED
    BY <1>1, <2>1 DEF AsShown
<1>4. QueriesAsShown'
  BY <1>1, <1>3 DEF OpInv, QueriesAsShown
<1>5. ShownTyped' /\ TokensAreOwn'
  BY <1>1 DEF OpInv, ShownTyped, TokensAreOwn
<1> QED
  BY <1>4, <1>5 DEF OpInv

\* A request comes to its change, or ends.
LEMMA RequestsKeep ==
  ASSUME OpInv, NEW q \in Requests, LookUp(q) \/ Change(q) \/ AskFails(q)
  PROVE  OpInv'
<1>1. UNCHANGED <<board, pages, runs>>
  BY DEF LookUp, Change, AskFails
<1>2. QueriesAsShown'
  <2>1. CASE query' = [query EXCEPT ![q] = NoQuery]
    BY <2>1 DEF OpInv, QueriesAsShown
  <2>2. CASE /\ query[q] # NoQuery /\ ReleaseIn(query[q].channel, query[q].change.release)
             /\ query' = [query EXCEPT ![q].step = "change"]
    <3>1. AsShown(query'[q])
      BY <2>2 DEF OpInv, QueriesAsShown, AsShown
    <3> QED
      BY <2>2, <3>1 DEF OpInv, QueriesAsShown
  <2> QED
    BY <2>1, <2>2 DEF LookUp, Change, AskFails, Done, At
<1>3. ShownTyped'
  <2>1. CASE UNCHANGED <<shown, minimum>>
    BY <2>1 DEF OpInv, ShownTyped
  <2>2. CASE Change(q)
    <3> DEFINE c == query[q].change
    <3>1. \/ \E pct : SetRolloutRoute(c.release, pct)
          \/ \E paused : SetPausedRoute(c.release, paused)
          \/ RollbackRoute(c.release)
          \/ \E min \in WholeNumber(c.arg, 0, 100) : NativePolicyRoute(query[q].channel, min)
      BY <2>2 DEF Change
    <3> HIDE DEF c
    <3>2. CASE \E min \in WholeNumber(c.arg, 0, 100) : NativePolicyRoute(query[q].channel, min)
      <4>1. PICK min \in WholeNumber(c.arg, 0, 100) : NativePolicyRoute(query[q].channel, min)
        BY <3>2
      <4>2. min \in Int
        BY <4>1 DEF WholeNumber
      <4> QED
        BY <4>1, <4>2 DEF NativePolicyRoute, OpInv, ShownTyped
    <3>3. CASE \/ \E pct : SetRolloutRoute(c.release, pct)
               \/ \E paused : SetPausedRoute(c.release, paused)
               \/ RollbackRoute(c.release)
      <4>1. c.release \in Releases /\ ShownTyped
        BY <3>3 DEF SetRolloutRoute, SetPausedRoute, RollbackRoute, OpInv
      <4> QED
        BY <3>3, <4>1, RoutesChange
    <3> QED
      BY <3>1, <3>2, <3>3
  <2> QED
    BY <2>1, <2>2 DEF LookUp, AskFails
<1>4. TokensAreOwn'
  BY <1>1 DEF OpInv, TokensAreOwn
<1> QED
  BY <1>2, <1>3, <1>4 DEF OpInv

\* Every step of the command line, the dashboard and its requests.
LEMMA OpStep == OpInv /\ [OpNext]_opVars => OpInv'
<1> SUFFICES ASSUME OpInv, [OpNext]_opVars PROVE OpInv'
  OBVIOUS
<1>1. ASSUME NEW command \in Commands, NEW line \in Lines, Run(command, line) PROVE OpInv'
  BY <1>1, RunKeeps
<1>2. CASE StartDashboard
  <2>1. /\ runs' = runs + 1 /\ \E config \in Configs : board' = [token |-> runs', config |-> config]
        /\ UNCHANGED <<shown, minimum, query, pages>>
    BY <1>2 DEF StartDashboard
  <2>2. TokensAreOwn'
    BY <2>1 DEF OpInv, TokensAreOwn, NoBoard
  <2> QED
    BY <2>1, <2>2 DEF OpInv, ShownTyped, QueriesAsShown, AsShown
<1>3. CASE StopDashboard
  BY <1>3 DEF StopDashboard, OpInv, TokensAreOwn, ShownTyped, QueriesAsShown, AsShown
<1>4. ASSUME NEW p \in Pages, OpenPage(p) PROVE OpInv'
  <2>1. board # NoBoard /\ pages' = [pages EXCEPT ![p] = board] /\ UNCHANGED <<shown, minimum, query, board, runs>>
    BY <1>4 DEF OpenPage
  <2>2. TokensAreOwn'
    <3>1. board \in [token : 1..runs, config : Configs]
      BY <2>1 DEF OpInv, TokensAreOwn
    <3> QED
      BY <2>1, <3>1 DEF OpInv, TokensAreOwn
  <2> QED
    BY <2>1, <2>2 DEF OpInv, ShownTyped, QueriesAsShown, AsShown
<1>5. ASSUME NEW q \in Requests, NEW p \in Pages, NEW env \in Environments, NEW change \in Changes,
             NEW confirm \in {env, Nobody}, Ask(q, p, env, change, confirm)
      PROVE  OpInv'
  BY <1>5, AskKeeps
<1>6. ASSUME NEW q \in Requests, LookUp(q) \/ Change(q) \/ AskFails(q) PROVE OpInv'
  BY <1>6, RequestsKeep
<1>7. CASE UNCHANGED opVars
  BY <1>7 DEF opVars, OpInv, TokensAreOwn, ShownTyped, QueriesAsShown, AsShown
<1> QED
  BY <1>1, <1>2, <1>3, <1>4, <1>5, <1>6, <1>7 DEF OpNext

\* A dashboard request changes what its page showed.
LEMMA ChangesShown ==
  ASSUME OpInv, NEW q \in Requests, Change(q)
  PROVE  \A page \in last'.page :
           /\ \A r \in Releases : ReleaseChannel[r] # page.channel => shown'[r] = shown[r]
           /\ \A c \in Channels \ {page.channel} : minimum'[c] = minimum[c]
           /\ page.protected => last'.confirm = last'.by
<1> DEFINE c == query[q].change
           page == query[q].page
<1>1. /\ query[q] # NoQuery /\ query[q].step = "change"
      /\ last' = [by |-> query[q].env, gave |-> {}, pct |-> FALSE,
                  confirm |-> query[q].confirm, page |-> {page}]
      /\ \/ c.do # "native-policy" /\ \E pct : SetRolloutRoute(c.release, pct)
         \/ c.do # "native-policy" /\ \E paused : SetPausedRoute(c.release, paused)
         \/ c.do # "native-policy" /\ RollbackRoute(c.release)
         \/ \E min : NativePolicyRoute(query[q].channel, min)
  BY DEF Change, At
<1>2. /\ AsShown(query[q]) /\ ShownTyped
  BY <1>1 DEF OpInv, QueriesAsShown
<1>3. /\ query[q].channel = page.channel
      /\ page.protected => query[q].confirm = query[q].env
      /\ c.do # "native-policy" => ReleaseChannel[c.release] = page.channel
  BY <1>1, <1>2 DEF AsShown, ReleaseIn
<1>4. /\ last'.page = {page} /\ last'.confirm = query[q].confirm /\ last'.by = query[q].env
  BY <1>1
<1> HIDE DEF c, page
<1>5. /\ \A r \in Releases : ReleaseChannel[r] # page.channel => shown'[r] = shown[r]
      /\ \A k \in Channels \ {page.channel} : minimum'[k] = minimum[k]
  <2>1. CASE \E min : NativePolicyRoute(query[q].channel, min)
    BY <2>1, <1>2, <1>3 DEF NativePolicyRoute, ShownTyped
  <2>2. CASE /\ c.do # "native-policy"
             /\ \/ \E pct : SetRolloutRoute(c.release, pct)
                \/ \E paused : SetPausedRoute(c.release, paused)
                \/ RollbackRoute(c.release)
    <3>1. c.release \in Releases
      BY <2>2 DEF SetRolloutRoute, SetPausedRoute, RollbackRoute
    <3>2. minimum' = minimum /\ \A i \in Releases \ {c.release} : shown'[i] = shown[i]
      BY <1>2, <2>2, <3>1, RoutesChange
    <3> QED
      BY <1>3, <2>2, <3>2
  <2> QED
    BY <1>1, <2>1, <2>2
<1> QED
  BY <1>3, <1>4, <1>5

\* What the dashboard changes is on the channel its page showed for the environment and, where the page
\* showed it protected, confirmed by its name, whatever was stopped, edited and started in between.
LEMMA PagesAreMeant == OpSpec => ChangesWhatThePageShows
<1> DEFINE Meant == \A page \in last'.page :
                      /\ \A r \in Releases : ReleaseChannel[r] # page.channel => shown'[r] = shown[r]
                      /\ \A c \in Channels \ {page.channel} : minimum'[c] = minimum[c]
                      /\ page.protected => last'.confirm = last'.by
<1>1. OpInv /\ [OpNext]_opVars => [Meant]_opVars
  <2> SUFFICES ASSUME OpInv, OpNext PROVE Meant
    OBVIOUS
  <2>1. CASE last'.page = {}
    BY <2>1
  <2>2. ASSUME NEW q \in Requests, Change(q) PROVE Meant
    BY <2>2, ChangesShown
  <2>3. ASSUME NEW command \in Commands, NEW line \in Lines, Run(command, line) PROVE last'.page = {}
    BY <2>3 DEF Run, Nothing
  <2>4. Nothing.page = {}
    BY DEF Nothing
  <2>5. \/ \E command \in Commands, line \in Lines : Run(command, line)
        \/ \E q \in Requests : Change(q)
        \/ last' = Nothing
    BY DEF OpNext, StartDashboard, StopDashboard, OpenPage, Ask, LookUp, AskFails
  <2> HIDE DEF Meant
  <2> QED
    BY <2>1, <2>2, <2>3, <2>4, <2>5
<1> QED
  BY <1>1, OpInitially, OpStep, PTL DEF OpSpec, ChangesWhatThePageShows

\* parseArgs: a flag has the value that was given last.
LEMMA LastOfFlag ==
  ASSUME NEW line \in Lines, NEW n \in Names(line)
  PROVE  \E i \in Named(line) : /\ line[i].name = n /\ Parsed[line][n] = ValueAt(line, i)
                                /\ \A k \in Named(line) : line[k].name = n => k <= i
<1> DEFINE S == {i \in Named(line) : line[i].name = n}
<1>1. Len(line) \in Nat /\ Named(line) \subseteq 1..Len(line)
  BY LinesAssumption DEF Named
<1>2. S \in SUBSET Nat /\ S # {} /\ \A i \in S : i <= Len(line)
  BY <1>1 DEF Names
<1>3. \E i \in S : \A k \in S : i >= k
  <2> HIDE DEF S
  <2> QED
    BY <1>1, <1>2, LargestOfBounded
<1> DEFINE P(i) == line[i].name = n /\ \A k \in Named(line) : line[k].name = n => k <= i
           last0 == CHOOSE i \in Named(line) : P(i)
<1>4. \E i \in Named(line) : P(i)
  BY <1>1, <1>3
<1>5. last0 \in Named(line) /\ P(last0)
  <2> HIDE DEF P
  <2> QED
    BY <1>4
<1>6. Parsed[line] = ParseArgs(line)
  BY DEF Parsed
<1>7. Parsed[line][n] = ValueAt(line, last0)
  BY <1>6 DEF ParseArgs
<1> QED
  BY <1>5, <1>7

\* `rollout` ramps to a percentage that was typed, and to all devices where none was.
LEMMA RolloutAsTyped ==
  ASSUME NumbersAreTypedOnce, NEW line \in Lines, KnownFlags("rollout", Parsed[line]),
         FlagValues("rollout", Parsed[line]),
         NEW pct \in FlagInt(Parsed[line], "pct", 100, 0, 100)
  PROVE  IF PercentsGiven(line) = {} THEN pct = 100 /\ "pct" \notin Names(line)
                                     ELSE pct \in PercentsGiven(line)
<1> DEFINE flags == Parsed[line]
           gave == PercentsGiven(line)
<1>1. DOMAIN flags = Names(line)
  BY DEF Parsed, ParseArgs
<1>2. ASSUME "pct" \in Names(line) PROVE pct \in gave
  <2>1. PICK i \in Named(line) : line[i].name = "pct" /\ flags["pct"] = ValueAt(line, i)
    BY <1>2, LastOfFlag
  <2>2. flags["pct"] \in DOMAIN Number /\ pct = Number[flags["pct"]] /\ pct \in 0..100
    BY <1>1, <1>2 DEF FlagInt, Given
  <2> QED
    BY <2>1, <2>2 DEF PercentsGiven
<1>3. ASSUME gave # {} PROVE "pct" \in Names(line)
  <2>1. PICK i \in Named(line) : ValueAt(line, i) \in DOMAIN Number
    BY <1>3 DEF PercentsGiven
  <2>2. line[i].name \in Names(line) /\ line[i].name \notin {"server", "admin-token", "bundle-id"}
    BY <2>1 DEF Names, NumbersAreTypedOnce, ServerFlags
  <2>3. line[i].name \in {"server", "admin-token", "bundle-id", "pct", "allow-insecure"}
    BY <1>1, <2>2 DEF KnownFlags, ValueFlags, Switches, ServerFlags
  <2>4. flags[line[i].name] = ValueAt(line, i)
    <3>1. PICK k \in Named(line) : line[k].name = line[i].name /\ flags[line[i].name] = ValueAt(line, k)
      BY <2>2, LastOfFlag
    <3> QED
      BY <2>1, <3>1 DEF NumbersAreTypedOnce
  <2>5. line[i].name # "allow-insecure"
    <3>1. SUFFICES ASSUME line[i].name = "allow-insecure" PROVE FALSE
      OBVIOUS
    <3>2. flags["allow-insecure"] \in {NoValue, "true", "false"}
      BY <1>1, <2>2, <3>1 DEF FlagValues, Switches
    <3> QED
      BY <2>1, <2>4, <3>1, <3>2, LinesAssumption
  <2> QED
    BY <2>2, <2>3, <2>5
<1>4. ASSUME "pct" \notin Names(line) PROVE pct = 100
  BY <1>1, <1>4 DEF FlagInt, Given
<1> QED
  BY <1>2, <1>3, <1>4

\* The dashboard changes what its page showed, with its name typed where that was protected; and a
\* release is ramped to a percentage that was typed (cmdDashboard, handleEnv, parseArgs, flagInt).
\* Where a number may also be a server, or be given to a flag that is given again, the second fails:
\* "--allow-insecure 50 --allow-insecure" passes every check.
THEOREM ChangesAreMeant == NumbersAreTypedOnce => (OpSpec => ChangesAsAsked)
<1> SUFFICES ASSUME NumbersAreTypedOnce PROVE OpSpec => ChangesAsAsked
  OBVIOUS
<1> DEFINE Typed == \A r \in Releases :
              shown'[r].rollout # shown[r].rollout /\ last'.by = "rollout" /\ last'.page = {} =>
                IF last'.gave = {} THEN shown'[r].rollout = 100 /\ ~last'.pct
                                   ELSE shown'[r].rollout \in last'.gave
<1>1. OpInv /\ [OpNext]_opVars => [Typed]_opVars
  <2> SUFFICES ASSUME OpInv, OpNext PROVE Typed
    OBVIOUS
  <2>1. CASE UNCHANGED shown
    BY <2>1
  <2>2. ASSUME NEW q \in Requests, Change(q) PROVE Typed
    BY <2>2 DEF Change
  <2>3. ASSUME NEW command \in Commands, NEW line \in Lines, Run(command, line), command # "rollout"
        PROVE  Typed
    BY <2>3 DEF Run, Nothing
  <2>4. ASSUME NEW line \in Lines, Run("rollout", line) PROVE Typed
    <3> DEFINE flags == Parsed[line]
    <3>1. /\ KnownFlags("rollout", flags) /\ FlagValues("rollout", flags) /\ RolloutCommand(flags)
          /\ last' = [Nothing EXCEPT !.by = "rollout", !.gave = PercentsGiven(line),
                                     !.pct = "pct" \in Names(line)]
      BY <2>4 DEF Run
    <3>2. last'.gave = PercentsGiven(line) /\ last'.pct = ("pct" \in Names(line))
      BY <3>1, Zenon DEF Nothing
    <3> HIDE DEF flags
    <3>3. PICK pct \in FlagInt(flags, "pct", 100, 0, 100) : SetRolloutRoute(flags["bundle-id"], pct)
      BY <3>1 DEF RolloutCommand
    <3>4. /\ flags["bundle-id"] \in Releases /\ shown'[flags["bundle-id"]].rollout = pct
          /\ \A r \in Releases \ {flags["bundle-id"]} : shown'[r] = shown[r]
      <4>1. flags["bundle-id"] \in Releases
        BY <3>3 DEF SetRolloutRoute
      <4> QED
        BY <3>3, <4>1, RoutesChange DEF OpInv
    <3>5. IF PercentsGiven(line) = {} THEN pct = 100 /\ "pct" \notin Names(line)
                                      ELSE pct \in PercentsGiven(line)
      BY <2>4, <3>1, <3>3, RolloutAsTyped DEF flags
    <3> QED
      BY <3>2, <3>4, <3>5
  <2>5. \/ \E command \in Commands, line \in Lines : Run(command, line)
        \/ \E q \in Requests : Change(q)
        \/ UNCHANGED shown
    BY DEF OpNext, StartDashboard, StopDashboard, OpenPage, Ask, LookUp, AskFails
  <2> HIDE DEF Typed
  <2> QED
    BY <2>1, <2>2, <2>3, <2>4, <2>5
<1> QED
  BY <1>1, OpInitially, OpStep, PagesAreMeant, PTL DEF OpSpec, ChangesAsAsked, RampsAsTyped

-----------------------------------------------------------------------------
(* Publishing *)

Keys == Publishers \X Nat \X (1..Len(Platforms))

Tasks == [step : {"idle", "version", "build", "sign", "declare", "upload", "done", "failed"},
          job : Nat, at : 1..Len(Platforms), version : Nat, files : SUBSET Keys,
          missing : SUBSET (Keys \cup {Shared}), attempt : Nat]

Records == [channel : Range(Channel) \cup {CliChannel}, version : Nat, files : SUBSET Keys,
            finalized : BOOLEAN]

PublishTyped ==
  /\ task \in [Publishers -> Tasks]
  /\ task[Cli].job = 0 /\ task[Cli].at = 1
  /\ task[Cli].step \in {"idle", "declare", "upload", "done", "failed"}
  /\ folder \in [Places -> SUBSET Keys]

\* Every release has the id and the channel of who declared it; there are finitely many versions.
ReleasesTyped ==
  /\ DOMAIN release \subseteq Keys
  /\ \A i \in DOMAIN release : release[i] \in Records /\ release[i].channel = ChannelOf(i[1])
                                /\ (i[1] = Cli => i = <<Cli, 0, 1>>)
  /\ \E b \in Nat : \A i \in DOMAIN release : release[i].version <= b

\* From an emptied folder on, a job works on its own files only.
OwnFiles ==
  /\ \A d \in Dashboards :
       /\ Step(d, "build") => folder[Place(d)] = {}
       /\ Step(d, "sign") => folder[Place(d)] = {Id(d)}
  /\ \A p \in Publishers : task[p].step \in {"declare", "upload"} => task[p].files = {Id(p)}

\* A dashboard's version is above every version of its channel until it is declared.
VersionAhead ==
  \A d \in Dashboards : task[d].step \in {"build", "sign", "declare"} =>
    \A k \in DOMAIN release :
      release[k].channel = Channel[d] /\ k[3] = task[d].at => release[k].version < task[d].version

VersionsDiffer ==
  \A i, k \in DOMAIN release :
    i # k /\ release[i].channel = release[k].channel /\ i[3] = k[3] =>
      release[i].version # release[k].version

UploadsDeclared == \A p \in Publishers : Step(p, "upload") => Known(Id(p))

ReportedIsWhole == \A i \in results : Known(i) /\ release[i].finalized /\ Whole(i)

PublishInv ==
  /\ PublishTyped /\ ReleasesTyped /\ OwnFiles /\ ShipsItsOwnBuild
  /\ VersionAhead /\ VersionsDiffer /\ UploadsDeclared /\ ReportedIsWhole

\* Before anything is published every folder is empty and every publisher idle.
LEMMA PublishInitially == Init => PublishInv
<1> SUFFICES ASSUME Init PROVE PublishInv
  OBVIOUS
<1>1. Cli \in Publishers /\ 1 \in 1..Len(Platforms)
  BY PlatformsAssumption DEF Publishers
<1>2. Idle \in Tasks
  BY <1>1 DEF Idle, Tasks
<1>3. task = [p \in Publishers |-> Idle] /\ folder = [p \in Places |-> {}] /\ results = {}
      /\ DOMAIN release = {}
  BY DEF Init
<1>4. PublishTyped
  BY <1>1, <1>2, <1>3 DEF PublishTyped, Idle
<1>5. ReleasesTyped
  BY <1>3 DEF ReleasesTyped
<1>6. \A p \in Publishers : task[p].step = "idle"
  BY <1>3 DEF Idle
<1>7. OwnFiles /\ VersionAhead /\ UploadsDeclared
  BY <1>6 DEF OwnFiles, VersionAhead, UploadsDeclared, Step, Publishers
<1>8. ShipsItsOwnBuild /\ VersionsDiffer /\ ReportedIsWhole
  BY <1>3 DEF ShipsItsOwnBuild, VersionsDiffer, ReportedIsWhole
<1> QED
  BY <1>4, <1>5, <1>7, <1>8 DEF PublishInv

\* A publisher goes on to t, and touches the folders of its own channel only.
Moves(p, t) ==
  /\ t \in Tasks
  /\ task' = [task EXCEPT ![p] = t]
  /\ p = Cli => t.job = 0 /\ t.at = 1 /\ t.step \in {"idle", "declare", "upload", "done", "failed"}
  /\ folder' \in [Places -> SUBSET Keys]
  /\ \A x \in Places : (p \in Dashboards /\ x[1] = Channel[p]) \/ folder'[x] = folder[x]
  /\ p \in Dashboards /\ t.step = "build" => folder'[<<Channel[p], t.at>>] = {}
  /\ p \in Dashboards /\ t.step = "sign" => folder'[<<Channel[p], t.at>>] = {<<p, t.job, t.at>>}
  /\ t.step \in {"declare", "upload"} => t.files = {<<p, t.job, t.at>>}

\* The folder of a build is one of the folders.
LEMMA PlacesOfBuilds ==
  ASSUME PublishTyped, NEW d \in Dashboards
  PROVE  /\ Place(d) \in Places /\ Place(d)[1] = Channel[d] /\ Id(d) \in Keys
         /\ d \in Publishers /\ d # Cli /\ task[d] \in Tasks
<1>1. d \in Publishers /\ d # Cli /\ task[d] \in Tasks
  BY ChannelAssumption DEF PublishTyped, Publishers
<1>2. Channel[d] \in Range(Channel)
  BY ChannelAssumption DEF Range
<1> QED
  BY <1>1, <1>2 DEF Place, Places, Id, Keys, Tasks

\* A publisher that moves on keeps the types, and nobody else's files.
LEMMA MovesKeepTypes ==
  ASSUME PublishTyped, OwnFiles, OnePublisherPerChannel, NEW p \in Publishers, NEW t, Moves(p, t)
  PROVE  PublishTyped' /\ OwnFiles'
<1>1. /\ t \in Tasks /\ task' = [task EXCEPT ![p] = t]
      /\ p = Cli => t.job = 0 /\ t.at = 1 /\ t.step \in {"idle", "declare", "upload", "done", "failed"}
      /\ folder' \in [Places -> SUBSET Keys]
      /\ \A x \in Places : (p \in Dashboards /\ x[1] = Channel[p]) \/ folder'[x] = folder[x]
      /\ p \in Dashboards /\ t.step = "build" => folder'[<<Channel[p], t.at>>] = {}
      /\ p \in Dashboards /\ t.step = "sign" => folder'[<<Channel[p], t.at>>] = {<<p, t.job, t.at>>}
      /\ t.step \in {"declare", "upload"} => t.files = {<<p, t.job, t.at>>}
  BY DEF Moves
<1>2. task \in [Publishers -> Tasks] /\ task' \in [Publishers -> Tasks] /\ task'[p] = t
      /\ Cli \in Publishers
  BY <1>1 DEF PublishTyped, Publishers
<1>3. PublishTyped'
  BY <1>1, <1>2 DEF PublishTyped
<1>4. ASSUME NEW d \in Dashboards
      PROVE  /\ Step(d, "build")' => folder'[Place(d)'] = {}
             /\ Step(d, "sign")' => folder'[Place(d)'] = {Id(d)'}
  <2>1. CASE d = p
    BY <1>1, <1>2, <2>1 DEF Step, Place, Id
  <2>2. CASE d # p
    <3>1. task'[d] = task[d] /\ d \in Publishers
      BY <1>1, <1>2, <2>2 DEF Publishers
    <3>2. Place(d)' = Place(d) /\ Id(d)' = Id(d) /\ (Step(d, "build")' <=> Step(d, "build"))
          /\ (Step(d, "sign")' <=> Step(d, "sign"))
      BY <3>1 DEF Place, Id, Step
    <3>3. p \in Dashboards => Place(d)[1] # Channel[p]
      BY <2>2, PlacesOfBuilds DEF OnePublisherPerChannel
    <3>4. folder'[Place(d)] = folder[Place(d)]
      BY <1>1, <3>3, PlacesOfBuilds
    <3> QED
      BY <3>2, <3>4 DEF OwnFiles
  <2> QED
    BY <2>1, <2>2
<1>5. ASSUME NEW q \in Publishers, task'[q].step \in {"declare", "upload"}
      PROVE  task'[q].files = {Id(q)'}
  <2>1. CASE q = p
    BY <1>1, <1>2, <1>5, <2>1 DEF Id
  <2>2. CASE q # p
    <3>1. task'[q] = task[q]
      BY <1>1, <1>2, <2>2
    <3> QED
      BY <1>5, <3>1 DEF OwnFiles, Id
  <2> QED
    BY <2>1, <2>2
<1> QED
  BY <1>3, <1>4, <1>5 DEF OwnFiles

\* A step that leaves the backend's releases alone.
LEMMA JobMoves ==
  ASSUME PublishInv, OnePublisherPerChannel, NEW p \in Publishers, NEW t, Moves(p, t),
         UNCHANGED <<release, results>>, stored \subseteq stored',
         t.step = "upload" => <<p, t.job, t.at>> \in DOMAIN release,
         p \in Dashboards /\ t.step \in {"build", "sign", "declare"} =>
           \A k \in DOMAIN release :
             release[k].channel = Channel[p] /\ k[3] = t.at => release[k].version < t.version
  PROVE  PublishInv'
<1>1. PublishTyped' /\ OwnFiles'
  BY MovesKeepTypes DEF PublishInv
<1>2. task' = [task EXCEPT ![p] = t] /\ task \in [Publishers -> Tasks] /\ task'[p] = t
  BY DEF Moves, PublishInv, PublishTyped
<1>3. ReleasesTyped' /\ ShipsItsOwnBuild' /\ VersionsDiffer'
  BY DEF PublishInv, ReleasesTyped, ShipsItsOwnBuild, VersionsDiffer
<1>4. ReportedIsWhole'
  BY DEF PublishInv, ReportedIsWhole, Known, Whole, Missing
<1>5. VersionAhead'
  <2> SUFFICES ASSUME NEW d \in Dashboards, task'[d].step \in {"build", "sign", "declare"},
                      NEW k \in DOMAIN release, release[k].channel = Channel[d], k[3] = task'[d].at
               PROVE  release[k].version < task'[d].version
    BY DEF VersionAhead
  <2>1. CASE d = p
    BY <1>2, <2>1
  <2>2. CASE d # p
    <3>1. task'[d] = task[d]
      BY <1>2, <2>2 DEF Publishers
    <3> QED
      BY <3>1 DEF PublishInv, VersionAhead
  <2> QED
    BY <2>1, <2>2
<1>6. UploadsDeclared'
  <2> SUFFICES ASSUME NEW q \in Publishers, task'[q].step = "upload"
               PROVE  <<q, task'[q].job, task'[q].at>> \in DOMAIN release
    BY DEF UploadsDeclared, Step, Known, Id
  <2>1. CASE q = p
    BY <1>2, <2>1
  <2>2. CASE q # p
    <3>1. task'[q] = task[q]
      BY <1>2, <2>2
    <3> QED
      BY <3>1 DEF PublishInv, UploadsDeclared, Step, Known, Id
  <2> QED
    BY <2>1, <2>2
<1> QED
  BY <1>1, <1>3, <1>4, <1>5, <1>6 DEF PublishInv

\* A failure clears the build's folder and ends the job.
LEMMA FailsMove ==
  ASSUME PublishTyped, NEW p \in Publishers, Fails(p)
  PROVE  Moves(p, [task[p] EXCEPT !.step = "failed"])
<1> DEFINE t == [task[p] EXCEPT !.step = "failed"]
<1>1. t \in Tasks /\ t.step = "failed" /\ (p = Cli => t.job = 0 /\ t.at = 1)
  BY DEF PublishTyped, Tasks
<1>2. task' = [task EXCEPT ![p] = t] /\ folder' = Cleared(p)
  BY DEF Fails, Goto
<1>3. /\ folder' \in [Places -> SUBSET Keys]
      /\ \A x \in Places : (p \in Dashboards /\ x[1] = Channel[p]) \/ folder'[x] = folder[x]
  <2>1. CASE folder' = folder
    BY <2>1 DEF PublishTyped
  <2>2. CASE p \in Dashboards /\ folder' = [folder EXCEPT ![Place(p)] = {}]
    BY <2>2, PlacesOfBuilds DEF PublishTyped
  <2> QED
    BY <1>2, <2>1, <2>2 DEF Cleared, Publishers
<1> HIDE DEF t
<1>4. Moves(p, t)
  BY <1>1, <1>2, <1>3 DEF Moves
<1> QED
  BY <1>4 DEF t

\* A run or a job that fails leaves the releases as they are.
LEMMA FailsKeep ==
  ASSUME PublishInv, OnePublisherPerChannel, NEW p \in Publishers, Fails(p),
         UNCHANGED <<release, results>>, stored \subseteq stored'
  PROVE  PublishInv'
<1> DEFINE t == [task[p] EXCEPT !.step = "failed"]
<1>1. Moves(p, t)
  BY FailsMove DEF PublishInv
<1>2. t.step = "failed"
  BY DEF PublishInv, PublishTyped, Tasks
<1> HIDE DEF t
<1> QED
  BY <1>1, <1>2, JobMoves

\* nextBundleVersion is above every version that is listed.
LEMMA NextVersionIsAhead ==
  ASSUME ReleasesTyped, NEW d \in Dashboards
  PROVE  /\ NextVersion(d) \in Nat
         /\ \A k \in DOMAIN release :
              release[k].channel = Channel[d] /\ k[3] = task[d].at => release[k].version < NextVersion(d)
<1> DEFINE S == {0} \cup VersionsOn(Channel[d], task[d].at)
<1>1. PICK b \in Nat : \A i \in DOMAIN release : release[i].version <= b
  BY DEF ReleasesTyped
<1>2. S \in SUBSET Nat /\ S # {} /\ \A x \in S : x <= b
  BY <1>1 DEF VersionsOn, ReleasesTyped, Records
<1>3. \A k \in DOMAIN release :
        release[k].channel = Channel[d] /\ k[3] = task[d].at => release[k].version \in S
  BY DEF VersionsOn
<1>4. NextVersion(d) = Max(S) + 1
  BY DEF NextVersion
<1> HIDE DEF S
<1>5. \E x \in S : \A y \in S : x >= y
  BY <1>2, LargestOfBounded
<1>6. Max(S) \in S /\ \A y \in S : Max(S) >= y
  BY <1>5 DEF Max
<1>7. PICK m \in S : m = Max(S) /\ \A y \in S : m >= y
  BY <1>6
<1>8. m \in Nat /\ NextVersion(d) = m + 1 /\ \A y \in S : y \in Nat /\ y < m + 1
  BY <1>2, <1>4, <1>7
<1>9. NextVersion(d) \in Nat
  BY <1>8
<1>10. ASSUME NEW k \in DOMAIN release, release[k].channel = Channel[d], k[3] = task[d].at
       PROVE  release[k].version < NextVersion(d)
  <2>1. release[k].version \in S
    BY <1>3, <1>10
  <2> QED
    BY <1>8, <2>1
<1> QED
  BY <1>9, <1>10

\* A job up to its upload, and a run of the CLI.
LEMMA JobsKeep ==
  ASSUME PublishInv, OnePublisherPerChannel, NEW d \in Dashboards,
         StartPublish(d) \/ JobSteps(d) \/ JobBreaks(d) \/ Killed(d)
  PROVE  PublishInv'
<1>1. PublishTyped /\ OwnFiles /\ ReleasesTyped /\ VersionAhead
  BY DEF PublishInv
<1>2. /\ d \in Publishers /\ d # Cli /\ task[d] \in Tasks /\ Place(d) \in Places
      /\ Place(d)[1] = Channel[d] /\ Id(d) \in Keys /\ folder \in [Places -> SUBSET Keys]
  BY <1>1, PlacesOfBuilds DEF PublishTyped
<1>3. UNCHANGED <<release, results, stored>>
  BY DEF StartPublish, JobSteps, Prepare, Build, Sign, SignFails, JobBreaks, Killed
<1>4. CASE StartPublish(d)
  <2> DEFINE t == [Idle EXCEPT !.step = "version", !.job = task[d].job + 1]
  <2>1. 1 \in 1..Len(Platforms) /\ task[d].job + 1 \in Nat
    BY <1>2, PlatformsAssumption DEF Tasks
  <2>2. t \in Tasks /\ t.step = "version"
    BY <2>1 DEF Idle, Tasks
  <2>3. task' = [task EXCEPT ![d] = t] /\ folder' = folder
    BY <1>4 DEF StartPublish
  <2> HIDE DEF t
  <2>4. Moves(d, t)
    BY <1>2, <2>2, <2>3 DEF Moves
  <2> QED
    BY <1>2, <1>3, <2>2, <2>4, JobMoves
<1>5. CASE Prepare(d)
  <2> DEFINE t == [task[d] EXCEPT !.step = "build", !.version = NextVersion(d)]
  <2>1. t \in Tasks /\ t.step = "build" /\ t.version = NextVersion(d) /\ t.at = task[d].at
    BY <1>1, <1>2, NextVersionIsAhead DEF Tasks
  <2>2. task' = [task EXCEPT ![d] = t] /\ folder' = [folder EXCEPT ![Place(d)] = {}]
    BY <1>5 DEF Prepare
  <2> HIDE DEF t
  <2>3. /\ folder' \in [Places -> SUBSET Keys] /\ folder'[<<Channel[d], t.at>>] = {}
        /\ \A x \in Places : x[1] = Channel[d] \/ folder'[x] = folder[x]
    BY <1>2, <2>1, <2>2 DEF Place
  <2>4. Moves(d, t)
    BY <1>2, <2>1, <2>2, <2>3 DEF Moves
  <2>5. \A k \in DOMAIN release :
          release[k].channel = Channel[d] /\ k[3] = t.at => release[k].version < t.version
    BY <1>1, <2>1, NextVersionIsAhead
  <2> QED
    BY <1>2, <1>3, <2>1, <2>4, <2>5, JobMoves
<1>6. CASE Build(d)
  <2> DEFINE t == [task[d] EXCEPT !.step = "sign"]
  <2>1. t \in Tasks /\ t.step = "sign" /\ t.version = task[d].version /\ t.at = task[d].at
        /\ t.job = task[d].job
    BY <1>2 DEF Tasks
  <2>2. task' = [task EXCEPT ![d] = t] /\ folder' = [folder EXCEPT ![Place(d)] = @ \cup {Id(d)}]
        /\ task[d].step = "build"
    BY <1>6 DEF Build, Goto, Step
  <2> HIDE DEF t
  <2>3. folder[Place(d)] = {}
    BY <1>1, <2>2 DEF OwnFiles, Step
  <2>4. /\ folder' \in [Places -> SUBSET Keys] /\ folder'[<<Channel[d], t.at>>] = {<<d, t.job, t.at>>}
        /\ \A x \in Places : x[1] = Channel[d] \/ folder'[x] = folder[x]
    BY <1>2, <2>1, <2>2, <2>3 DEF Place, Id
  <2>5. Moves(d, t)
    BY <1>2, <2>1, <2>2, <2>4 DEF Moves
  <2>6. \A k \in DOMAIN release :
          release[k].channel = Channel[d] /\ k[3] = t.at => release[k].version < t.version
    BY <1>1, <2>1, <2>2 DEF VersionAhead
  <2> QED
    BY <1>2, <1>3, <2>1, <2>5, <2>6, JobMoves
<1>7. CASE Sign(d)
  <2> DEFINE t == [task[d] EXCEPT !.step = "declare", !.files = FilesIn(d)]
  <2>1. FilesIn(d) = {Id(d)} /\ task[d].step = "sign"
    BY <1>1, <1>7 DEF Sign, Step, OwnFiles, FilesIn
  <2>2. t \in Tasks /\ t.step = "declare" /\ t.version = task[d].version /\ t.at = task[d].at
        /\ t.files = {<<d, t.job, t.at>>}
    BY <1>2, <2>1 DEF Tasks, Id
  <2>3. task' = [task EXCEPT ![d] = t] /\ folder' = folder
    BY <1>7 DEF Sign
  <2> HIDE DEF t
  <2>4. Moves(d, t)
    BY <1>2, <2>2, <2>3 DEF Moves
  <2>5. \A k \in DOMAIN release :
          release[k].channel = Channel[d] /\ k[3] = t.at => release[k].version < t.version
    BY <1>1, <2>1, <2>2 DEF VersionAhead
  <2> QED
    BY <1>2, <1>3, <2>2, <2>4, <2>5, JobMoves
<1>8. CASE SignFails(d) \/ JobBreaks(d)
  BY <1>2, <1>3, <1>8, FailsKeep DEF SignFails, JobBreaks
<1>9. CASE Killed(d)
  <2> DEFINE t == [task[d] EXCEPT !.step = "failed"]
  <2>1. t \in Tasks /\ t.step = "failed"
    BY <1>2 DEF Tasks
  <2>2. task' = [task EXCEPT ![d] = t] /\ folder' = folder
    BY <1>9 DEF Killed
  <2> HIDE DEF t
  <2>3. Moves(d, t)
    BY <1>2, <2>1, <2>2 DEF Moves
  <2> QED
    BY <1>2, <1>3, <2>1, <2>3, JobMoves
<1> QED
  BY <1>4, <1>5, <1>6, <1>7, <1>8, <1>9 DEF JobSteps

\* A run of the CLI starts with the files it was given.
LEMMA RunCliKeeps ==
  ASSUME PublishInv, OnePublisherPerChannel, RunCli
  PROVE  PublishInv'
<1> DEFINE t == [Idle EXCEPT !.step = "declare", !.job = 0, !.version = 1, !.files = {<<Cli, 0, 1>>}]
<1>1. Cli \in Publishers /\ Cli \notin Dashboards /\ <<Cli, 0, 1>> \in Keys /\ 1 \in 1..Len(Platforms)
  BY ChannelAssumption, PlatformsAssumption DEF Publishers, Keys
<1>2. /\ t \in Tasks /\ t.step = "declare" /\ t.job = 0 /\ t.at = 1 /\ t.files = {<<Cli, t.job, t.at>>}
  BY <1>1 DEF Idle, Tasks
<1>3. task' = [task EXCEPT ![Cli] = t] /\ UNCHANGED <<folder, release, results, stored>>
  BY DEF RunCli
<1>4. folder \in [Places -> SUBSET Keys]
  BY DEF PublishInv, PublishTyped
<1> HIDE DEF t
<1>5. Moves(Cli, t)
  BY <1>1, <1>2, <1>3, <1>4 DEF Moves
<1> QED
  BY <1>1, <1>2, <1>3, <1>5, JobMoves

\* createRelease with a record that lists the publisher's own files: nothing uploaded is given up.
LEMMA Creates ==
  ASSUME PublishInv, OnePublisherPerChannel, NEW p \in Publishers, Step(p, "declare"),
         Create(Id(p), Record(p)), UNCHANGED results
  PROVE  /\ stored' = stored /\ DOMAIN release' = DOMAIN release \cup {Id(p)}
         /\ release'[Id(p)] = Record(p)
         /\ \A k \in DOMAIN release \ {Id(p)} : release'[k] = release[k]
         /\ ReleasesTyped' /\ ShipsItsOwnBuild' /\ VersionsDiffer' /\ ReportedIsWhole'
<1>1. /\ PublishTyped /\ ReleasesTyped /\ OwnFiles /\ ShipsItsOwnBuild /\ VersionAhead /\ VersionsDiffer
      /\ ReportedIsWhole
  BY DEF PublishInv
<1>2. /\ task[p] \in Tasks /\ Id(p) \in Keys /\ Id(p)[1] = p /\ Id(p)[3] = task[p].at
      /\ p = Cli => Id(p) = <<Cli, 0, 1>>
  BY <1>1 DEF PublishTyped, Tasks, Id, Keys
<1>3. task[p].files = {Id(p)}
  BY <1>1 DEF OwnFiles, Step
<1>4. ChannelOf(p) \in Range(Channel) \cup {CliChannel}
  BY ChannelAssumption DEF ChannelOf, Publishers, Range
<1>5. /\ Record(p) \in Records /\ Record(p).channel = ChannelOf(p) /\ Record(p).version = task[p].version
      /\ Record(p).files = {Id(p)} /\ task[p].version \in Nat
  BY <1>2, <1>3, <1>4 DEF Record, Records, Tasks
<1>6. /\ Known(Id(p)) => ~release[Id(p)].finalized
      /\ release' = [i \in DOMAIN release \cup {Id(p)} |-> IF i = Id(p) THEN Record(p) ELSE release[i]]
      /\ stored' = stored \ Discarded(Id(p), Record(p))
  BY DEF Create
<1>7. stored' = stored
  <2>1. Discarded(Id(p), Record(p)) = {}
    BY <1>1, <1>5 DEF Discarded, Known, BlobsOf, ShipsItsOwnBuild
  <2> QED
    BY <1>6, <2>1
<1>8. /\ DOMAIN release' = DOMAIN release \cup {Id(p)} /\ release'[Id(p)] = Record(p)
      /\ \A k \in DOMAIN release \ {Id(p)} : release'[k] = release[k]
  BY <1>6
<1>9. ReleasesTyped'
  <2>1. PICK b \in Nat : \A i \in DOMAIN release : release[i].version <= b
    BY <1>1 DEF ReleasesTyped
  <2>2. \A i \in DOMAIN release' : release'[i] \in Records /\ release'[i].channel = ChannelOf(i[1])
                                   /\ (i[1] = Cli => i = <<Cli, 0, 1>>)
    BY <1>1, <1>2, <1>5, <1>8 DEF ReleasesTyped
  <2>3. \E c \in Nat : \A i \in DOMAIN release' : release'[i].version <= c
    <3> DEFINE c == IF task[p].version > b THEN task[p].version ELSE b
    <3>1. c \in Nat /\ task[p].version <= c /\ b <= c
      BY <1>5
    <3>2. \A i \in DOMAIN release : release[i].version \in Nat
      BY <1>1 DEF ReleasesTyped, Records
    <3>3. \A i \in DOMAIN release' : release'[i].version <= c
      <4> HIDE DEF c
      <4>1. \A i \in DOMAIN release : release[i].version <= c
        BY <2>1, <3>1, <3>2
      <4> QED
        BY <1>5, <1>8, <3>1, <4>1
    <3> QED
      BY <3>1, <3>3
  <2>4. DOMAIN release' \subseteq Keys
    BY <1>1, <1>2, <1>8 DEF ReleasesTyped
  <2> QED
    BY <2>2, <2>3, <2>4 DEF ReleasesTyped
<1>10. ShipsItsOwnBuild'
  BY <1>1, <1>5, <1>8 DEF ShipsItsOwnBuild
<1>11. ASSUME NEW k \in DOMAIN release \ {Id(p)}, release[k].channel = Record(p).channel,
              k[3] = Id(p)[3]
       PROVE  release[k].version \in Nat /\ release[k].version < Record(p).version
  <2>1. /\ k \in Keys /\ release[k] \in Records /\ release[k].channel = ChannelOf(k[1])
        /\ k[1] \in Publishers /\ (k[1] = Cli => k = <<Cli, 0, 1>>)
    BY <1>1 DEF ReleasesTyped, Keys
  <2>2. k[1] = p
    BY <1>5, <1>11, <2>1, ChannelAssumption DEF ChannelOf, OnePublisherPerChannel, Publishers
  <2>3. p \in Dashboards /\ ChannelOf(p) = Channel[p]
    BY <1>2, <1>11, <2>1, <2>2, ChannelAssumption DEF Publishers, ChannelOf
  <2>4. release[k].version < task[p].version
    BY <1>1, <1>2, <1>5, <1>11, <2>3 DEF VersionAhead, Step
  <2> QED
    BY <1>5, <2>1, <2>4 DEF Records
<1>12. VersionsDiffer'
  <2> SUFFICES ASSUME NEW i \in DOMAIN release', NEW k \in DOMAIN release', i # k,
                      release'[i].channel = release'[k].channel, i[3] = k[3]
               PROVE  release'[i].version # release'[k].version
    BY DEF VersionsDiffer
  <2>1. CASE i = Id(p)
    BY <1>5, <1>8, <1>11, <2>1
  <2>2. CASE k = Id(p)
    BY <1>5, <1>8, <1>11, <2>2
  <2>3. CASE i # Id(p) /\ k # Id(p)
    BY <1>1, <1>8, <2>3 DEF VersionsDiffer
  <2> QED
    BY <2>1, <2>2, <2>3
<1>13. ReportedIsWhole'
  BY <1>1, <1>6, <1>7, <1>8 DEF ReportedIsWhole, Known, Whole, Missing
<1> QED
  BY <1>7, <1>8, <1>9, <1>10, <1>12, <1>13

\* A release is declared, and its publisher uploads or has failed.
LEMMA DeclaresKeep ==
  ASSUME PublishInv, OnePublisherPerChannel, NEW p \in Publishers, NEW t, Moves(p, t),
         Step(p, "declare"), Create(Id(p), Record(p)), UNCHANGED results,
         t.step \in {"upload", "failed"}, t.job = task[p].job, t.at = task[p].at
  PROVE  PublishInv' /\ stored' = stored
<1>1. /\ stored' = stored /\ DOMAIN release' = DOMAIN release \cup {Id(p)}
      /\ release'[Id(p)] = Record(p)
      /\ \A k \in DOMAIN release \ {Id(p)} : release'[k] = release[k]
      /\ ReleasesTyped' /\ ShipsItsOwnBuild' /\ VersionsDiffer' /\ ReportedIsWhole'
  BY Creates
<1>2. PublishTyped' /\ OwnFiles'
  BY MovesKeepTypes DEF PublishInv
<1>3. task' = [task EXCEPT ![p] = t] /\ task \in [Publishers -> Tasks] /\ task'[p] = t
  BY DEF Moves, PublishInv, PublishTyped
<1>4. VersionAhead'
  <2> SUFFICES ASSUME NEW d \in Dashboards, task'[d].step \in {"build", "sign", "declare"},
                      NEW k \in DOMAIN release', release'[k].channel = Channel[d], k[3] = task'[d].at
               PROVE  release'[k].version < task'[d].version
    BY DEF VersionAhead
  <2>1. d # p /\ d \in Publishers /\ task'[d] = task[d]
    BY <1>3 DEF Publishers
  <2>2. k # Id(p)
    <3>1. Record(p).channel = ChannelOf(p)
      BY DEF Record
    <3>2. ChannelOf(p) # Channel[d]
      BY <2>1, ChannelAssumption DEF ChannelOf, OnePublisherPerChannel, Publishers
    <3> QED
      BY <1>1, <3>1, <3>2
  <2>3. k \in DOMAIN release /\ release'[k] = release[k]
    BY <1>1, <2>2
  <2> QED
    BY <2>1, <2>3 DEF PublishInv, VersionAhead
<1>5. UploadsDeclared'
  <2> SUFFICES ASSUME NEW q \in Publishers, task'[q].step = "upload"
               PROVE  <<q, task'[q].job, task'[q].at>> \in DOMAIN release'
    BY DEF UploadsDeclared, Step, Known, Id
  <2>1. CASE q = p
    BY <1>1, <1>3, <2>1 DEF Id
  <2>2. CASE q # p
    <3>1. task'[q] = task[q]
      BY <1>3, <2>2
    <3> QED
      BY <1>1, <3>1 DEF PublishInv, UploadsDeclared, Step, Known, Id
  <2> QED
    BY <2>1, <2>2
<1> QED
  BY <1>1, <1>2, <1>4, <1>5 DEF PublishInv

\* A declared release is finalized, when it has every blob, and its publisher goes on.
LEMMA FinalizesKeep ==
  ASSUME PublishInv, OnePublisherPerChannel, NEW p \in Publishers, NEW t, Moves(p, t),
         Step(p, "upload"), t.step \in {"version", "failed", "done"}, stored' = stored,
         NEW fin \in BOOLEAN, release' = [release EXCEPT ![Id(p)].finalized = fin],
         fin \/ ~release[Id(p)].finalized,
         results' \in {results, results \cup {Id(p)}},
         results' # results => fin /\ Whole(Id(p))
  PROVE  PublishInv'
<1>1. /\ PublishTyped /\ ReleasesTyped /\ OwnFiles /\ ShipsItsOwnBuild /\ VersionAhead /\ VersionsDiffer
      /\ ReportedIsWhole /\ UploadsDeclared
  BY DEF PublishInv
<1>2. PublishTyped' /\ OwnFiles'
  BY <1>1, MovesKeepTypes
<1>3. task' = [task EXCEPT ![p] = t] /\ task \in [Publishers -> Tasks] /\ task'[p] = t
  BY <1>1 DEF Moves, PublishTyped
<1>4. Id(p) \in DOMAIN release /\ release[Id(p)] \in Records
  BY <1>1 DEF UploadsDeclared, Known, ReleasesTyped
<1>5. /\ DOMAIN release' = DOMAIN release
      /\ \A k \in DOMAIN release :
           /\ release'[k].channel = release[k].channel /\ release'[k].version = release[k].version
           /\ release'[k].files = release[k].files /\ release'[k] \in Records
           /\ k # Id(p) => release'[k] = release[k]
      /\ release'[Id(p)].finalized = fin
  <2>1. release'[Id(p)] = [release[Id(p)] EXCEPT !.finalized = fin]
    BY <1>4
  <2>2. /\ release'[Id(p)] \in Records /\ release'[Id(p)].finalized = fin
        /\ release'[Id(p)].channel = release[Id(p)].channel
        /\ release'[Id(p)].version = release[Id(p)].version
        /\ release'[Id(p)].files = release[Id(p)].files
    BY <1>4, <2>1 DEF Records
  <2>3. \A k \in DOMAIN release : k # Id(p) => release'[k] = release[k]
    OBVIOUS
  <2> QED
    BY <1>1, <2>2, <2>3 DEF ReleasesTyped
<1>6. ReleasesTyped' /\ ShipsItsOwnBuild' /\ VersionsDiffer'
  BY <1>1, <1>5 DEF ReleasesTyped, ShipsItsOwnBuild, VersionsDiffer
<1>7. ReportedIsWhole'
  <2> SUFFICES ASSUME NEW i \in results' PROVE i \in DOMAIN release /\ release'[i].finalized /\ Whole(i)'
    BY <1>5 DEF ReportedIsWhole, Known
  <2>1. i \in DOMAIN release => Whole(i)' = Whole(i)
    BY <1>5 DEF Whole, Missing, BlobsOf
  <2>2. CASE i \in results
    <3>1. i \in DOMAIN release /\ release[i].finalized /\ Whole(i)
      BY <1>1, <2>2 DEF ReportedIsWhole, Known
    <3>2. release'[i].finalized
      BY <1>5, <3>1
    <3> QED
      BY <2>1, <3>1, <3>2
  <2>3. CASE i = Id(p) /\ results' # results
    BY <1>4, <1>5, <2>1, <2>3
  <2> QED
    BY <2>2, <2>3
<1>8. VersionAhead'
  <2> SUFFICES ASSUME NEW d \in Dashboards, task'[d].step \in {"build", "sign", "declare"},
                      NEW k \in DOMAIN release', release'[k].channel = Channel[d], k[3] = task'[d].at
               PROVE  release'[k].version < task'[d].version
    BY DEF VersionAhead
  <2>1. d # p /\ d \in Publishers /\ task'[d] = task[d]
    BY <1>3 DEF Publishers
  <2> QED
    BY <1>1, <1>5, <2>1 DEF VersionAhead
<1>9. UploadsDeclared'
  <2> SUFFICES ASSUME NEW q \in Publishers, task'[q].step = "upload"
               PROVE  <<q, task'[q].job, task'[q].at>> \in DOMAIN release
    BY <1>5 DEF UploadsDeclared, Step, Known, Id
  <2>1. q # p /\ task'[q] = task[q]
    BY <1>3
  <2> QED
    BY <1>1, <2>1 DEF UploadsDeclared, Step, Known, Id
<1> QED
  BY <1>2, <1>6, <1>7, <1>8, <1>9 DEF PublishInv

\* uploadRelease, and what is lost on its way.
LEMMA UploadsKeep ==
  ASSUME PublishInv, OnePublisherPerChannel, NEW p \in Publishers, UploadSteps(p) \/ Losses(p)
  PROVE  PublishInv' /\ stored \subseteq stored'
<1>1. PublishTyped /\ OwnFiles /\ UploadsDeclared /\ ReleasesTyped
  BY DEF PublishInv
<1>2. /\ task[p] \in Tasks /\ folder \in [Places -> SUBSET Keys]
      /\ p = Cli => task[p].job = 0 /\ task[p].at = 1
  BY <1>1 DEF PublishTyped
<1>3. CASE Declare(p)
  <2> DEFINE t == [task[p] EXCEPT !.step = "upload", !.attempt = 1, !.missing = Missing(Record(p), stored')]
  <2>1. /\ Step(p, "declare") /\ Create(Id(p), Record(p)) /\ task' = [task EXCEPT ![p] = t]
        /\ UNCHANGED <<folder, results>>
    BY <1>3 DEF Declare
  <2>2. task[p].files = {Id(p)} /\ Missing(Record(p), stored') \subseteq Keys \cup {Shared}
    <3>1. task[p].files = {Id(p)} /\ Id(p) \in Keys
      BY <1>1, <1>2, <2>1 DEF OwnFiles, Step, Id, Keys, Tasks
    <3> QED
      BY <3>1 DEF Missing, BlobsOf, Record
  <2>3. t \in Tasks /\ t.step = "upload" /\ t.job = task[p].job /\ t.at = task[p].at
        /\ t.files = {<<p, t.job, t.at>>}
    BY <1>2, <2>2 DEF Tasks, Id
  <2> HIDE DEF t
  <2>4. Moves(p, t)
    BY <1>2, <2>1, <2>3 DEF Moves
  <2> QED
    BY <2>1, <2>3, <2>4, DeclaresKeep
<1>4. CASE DeclareRefused(p)
  <2>1. Fails(p) /\ UNCHANGED <<results, release, stored>>
    BY <1>4 DEF DeclareRefused
  <2> QED
    BY <2>1, FailsKeep
<1>5. CASE Put(p)
  <2>1. PICK x \in task[p].missing :
          /\ stored' = stored \cup {x}
          /\ task' = [task EXCEPT ![p].missing = @ \ {x}, ![p].attempt = 1]
    BY <1>5 DEF Put
  <2>2. Step(p, "upload") /\ UNCHANGED <<folder, results, release>>
    BY <1>5 DEF Put
  <2> DEFINE t == [task[p] EXCEPT !.missing = task[p].missing \ {x}, !.attempt = 1]
  <2>3. task' = [task EXCEPT ![p] = t]
    BY <1>1, <2>1 DEF PublishTyped
  <2>4. t \in Tasks /\ t.step = "upload" /\ t.job = task[p].job /\ t.at = task[p].at
        /\ t.files = task[p].files
    BY <1>2, <2>2 DEF Tasks, Step
  <2>5. t.files = {<<p, t.job, t.at>>} /\ <<p, t.job, t.at>> \in DOMAIN release
    BY <1>1, <2>2, <2>4 DEF OwnFiles, UploadsDeclared, Step, Id, Known
  <2> HIDE DEF t
  <2>6. Moves(p, t)
    BY <1>2, <2>2, <2>3, <2>4, <2>5 DEF Moves
  <2> QED
    BY <2>1, <2>2, <2>4, <2>5, <2>6, JobMoves
<1>6. CASE Finalize(p) /\ Whole(Id(p))
  <2>1. /\ Step(p, "upload") /\ Published(p) /\ release' = [release EXCEPT ![Id(p)].finalized = TRUE]
        /\ stored' = stored
    BY <1>6 DEF Finalize
  <2>2. results' = results \cup {Id(p)} /\ folder' = Cleared(p)
    BY <2>1 DEF Published
  <2>3. /\ folder' \in [Places -> SUBSET Keys]
        /\ \A x \in Places : (p \in Dashboards /\ x[1] = Channel[p]) \/ folder'[x] = folder[x]
    <3>1. CASE folder' = folder
      BY <1>2, <3>1
    <3>2. CASE p \in Dashboards /\ folder' = [folder EXCEPT ![Place(p)] = {}]
      BY <1>1, <1>2, <3>2, PlacesOfBuilds
    <3> QED
      BY <2>2, <3>1, <3>2 DEF Cleared, Publishers
  <2>4. PICK t : /\ task' = [task EXCEPT ![p] = t] /\ t \in Tasks
                 /\ \/ t.step = "version" /\ p # Cli
                    \/ t.step = "done" /\ t.job = task[p].job /\ t.at = task[p].at
    <3>1. CASE p # Cli /\ task[p].at < Len(Platforms)
      <4> DEFINE t == [Idle EXCEPT !.step = "version", !.job = task[p].job, !.at = task[p].at + 1]
      <4>1. task[p].at + 1 \in 1..Len(Platforms) /\ task[p].job \in Nat
        BY <1>2, <3>1, PlatformsAssumption DEF Tasks
      <4>2. t \in Tasks /\ t.step = "version"
        BY <4>1 DEF Idle, Tasks
      <4>3. task' = [task EXCEPT ![p] = t]
        BY <2>1, <3>1 DEF Published
      <4>4. p # Cli
        BY <3>1
      <4> HIDE DEF t
      <4> QED
        BY <4>2, <4>3, <4>4
    <3>2. CASE ~ (p # Cli /\ task[p].at < Len(Platforms))
      <4> DEFINE t == [task[p] EXCEPT !.step = "done"]
      <4>1. t \in Tasks /\ t.step = "done" /\ t.job = task[p].job /\ t.at = task[p].at
        BY <1>2 DEF Tasks
      <4>2. task' = [task EXCEPT ![p] = t]
        BY <2>1, <3>2 DEF Published
      <4> HIDE DEF t
      <4> QED
        BY <4>1, <4>2
    <3> QED
      BY <3>1, <3>2
  <2>5. Moves(p, t)
    BY <1>2, <2>3, <2>4 DEF Moves
  <2>6. PublishInv'
    BY <1>6, <2>1, <2>2, <2>4, <2>5, FinalizesKeep
  <2> QED
    BY <2>1, <2>6
<1>7. CASE Finalize(p) /\ ~Whole(Id(p))
  <2>1. Fails(p) /\ UNCHANGED <<results, release, stored>>
    BY <1>7 DEF Finalize
  <2> QED
    BY <2>1, FailsKeep
<1>8. CASE DeclareLost(p)
  <2>1. Step(p, "declare") /\ Fails(p) /\ results' = results
    BY <1>8 DEF DeclareLost
  <2>2. CASE UNCHANGED <<release, stored>>
    BY <2>1, <2>2, FailsKeep
  <2>3. CASE Create(Id(p), Record(p))
    <3> DEFINE t == [task[p] EXCEPT !.step = "failed"]
    <3>1. Moves(p, t)
      BY <1>1, <2>1, FailsMove
    <3>2. t.step = "failed" /\ t.job = task[p].job /\ t.at = task[p].at
      BY <1>2 DEF Tasks
    <3> HIDE DEF t
    <3> QED
      BY <2>1, <2>3, <3>1, <3>2, DeclaresKeep
  <2> QED
    BY <1>8, <2>2, <2>3 DEF DeclareLost
<1>9. CASE PutLost(p)
  <2>1. stored \subseteq stored' /\ Step(p, "upload") /\ UNCHANGED <<results, release>>
    BY <1>9 DEF PutLost
  <2>2. CASE Fails(p)
    BY <2>1, <2>2, FailsKeep
  <2>3. CASE task' = [task EXCEPT ![p].attempt = @ + 1] /\ folder' = folder
    <3> DEFINE t == [task[p] EXCEPT !.attempt = task[p].attempt + 1]
    <3>1. task' = [task EXCEPT ![p] = t]
      BY <1>1, <2>3 DEF PublishTyped
    <3>2. t \in Tasks /\ t.step = "upload" /\ t.job = task[p].job /\ t.at = task[p].at
          /\ t.files = task[p].files
      <4>1. task[p].attempt + 1 \in Nat
        BY <1>2 DEF Tasks
      <4> QED
        BY <1>2, <2>1, <4>1 DEF Tasks, Step
    <3>3. t.files = {<<p, t.job, t.at>>} /\ <<p, t.job, t.at>> \in DOMAIN release
      BY <1>1, <2>1, <3>2 DEF OwnFiles, UploadsDeclared, Step, Id, Known
    <3> HIDE DEF t
    <3>4. Moves(p, t)
      BY <1>2, <2>3, <3>1, <3>2, <3>3 DEF Moves
    <3> QED
      BY <2>1, <3>2, <3>3, <3>4, JobMoves
  <2> QED
    BY <1>9, <2>2, <2>3 DEF PutLost
<1>10. CASE FinalizeLost(p)
  <2>1. Step(p, "upload") /\ Fails(p) /\ UNCHANGED <<results, stored>>
    BY <1>10 DEF FinalizeLost
  <2>2. CASE release' = release
    BY <2>1, <2>2, FailsKeep
  <2>3. CASE release' = [release EXCEPT ![Id(p)].finalized = @ \/ Whole(Id(p))]
    <3> DEFINE t == [task[p] EXCEPT !.step = "failed"]
               fin == release[Id(p)].finalized \/ Whole(Id(p))
    <3>1. Moves(p, t)
      BY <1>1, <2>1, FailsMove
    <3>2. t.step = "failed"
      BY <1>2 DEF Tasks
    <3>3. fin \in BOOLEAN /\ (fin \/ ~release[Id(p)].finalized)
      OBVIOUS
    <3>4. release' = [release EXCEPT ![Id(p)].finalized = fin]
      BY <2>3
    <3> HIDE DEF t, fin
    <3> QED
      BY <2>1, <3>1, <3>2, <3>3, <3>4, FinalizesKeep
  <2> QED
    BY <1>10, <2>2, <2>3 DEF FinalizeLost
<1> QED
  BY <1>3, <1>4, <1>5, <1>6, <1>7, <1>8, <1>9, <1>10 DEF UploadSteps, Losses

\* One step of the dashboards, the CLI, the backend and the network.
LEMMA PublishStep ==
  ASSUME OnePublisherPerChannel, PublishInv, [Next]_vars
  PROVE  PublishInv' /\ stored \subseteq stored'
<1>1. ASSUME NEW d \in Dashboards, StartPublish(d) \/ JobSteps(d) \/ JobBreaks(d) \/ Killed(d)
      PROVE  PublishInv' /\ stored \subseteq stored'
  <2>1. stored' = stored
    BY <1>1 DEF StartPublish, JobSteps, Prepare, Build, Sign, SignFails, JobBreaks, Killed
  <2> QED
    BY <1>1, <2>1, JobsKeep
<1>2. CASE RunCli
  BY <1>2, RunCliKeeps DEF RunCli
<1>3. ASSUME NEW p \in Publishers, UploadSteps(p) \/ Losses(p)
      PROVE  PublishInv' /\ stored \subseteq stored'
  BY <1>3, UploadsKeep
<1>4. CASE UNCHANGED vars
  BY <1>4 DEF vars, PublishInv, PublishTyped, ReleasesTyped, OwnFiles, ShipsItsOwnBuild, VersionAhead,
              VersionsDiffer, UploadsDeclared, ReportedIsWhole, Step, Place, Id, Known, Whole, Missing
<1> QED
  BY <1>1, <1>2, <1>3, <1>4 DEF Next

\* The invariant of publishing, with one publisher per channel.
LEMMA PublishHolds == OnePublisherPerChannel => (Spec => []PublishInv)
<1> SUFFICES ASSUME OnePublisherPerChannel PROVE Spec => []PublishInv
  OBVIOUS
<1>1. PublishInv /\ [Next]_vars => PublishInv'
  BY PublishStep
<1> QED
  BY <1>1, PublishInitially, PTL DEF Spec

\* A release ships the files of its own build (startPublish empties the folder, readBundleDir takes
\* what it holds).  Two dashboards that publish to one environment share its folder, and it fails.
THEOREM OwnBuildIsShipped == OnePublisherPerChannel => (Spec => []ShipsItsOwnBuild)
<1>1. PublishInv => ShipsItsOwnBuild
  BY DEF PublishInv
<1> QED
  BY <1>1, PublishHolds, PTL

\* What is reported as published is finalized, has its blobs, and a version of its own on its channel and
\* platform, whatever was lost and tried again (nextBundleVersion, uploadRelease).  Two dashboards that
\* publish to one environment may take the same version, and it fails.
THEOREM ReportsAreServed == OnePublisherPerChannel => (Spec => []ReportedIsServed)
<1>1. PublishInv => ReportedIsServed
  BY DEF PublishInv, ReportedIsServed, ReportedIsWhole, VersionsDiffer, Known
<1> QED
  BY <1>1, PublishHolds, PTL

\* Nothing uploaded is given up (createRelease keeps what the new manifest lists): the safety of
\* EveryJobEnds.
THEOREM UploadsAreKept == OnePublisherPerChannel => (Spec => [][stored \subseteq stored']_vars)
<1> SUFFICES ASSUME OnePublisherPerChannel PROVE Spec => [][stored \subseteq stored']_vars
  OBVIOUS
<1>1. PublishInv /\ [Next]_vars => [stored \subseteq stored']_vars
  BY PublishStep
<1> QED
  BY <1>1, PublishHolds, PTL DEF Spec

\* A task, with the types TypeOK gives its fields; a version is whatever it is.
TaskAt(version) ==
  [step : {"idle", "version", "build", "sign", "declare", "upload", "done", "failed"}, job : 0..MaxJobs,
   at : 1..Len(Platforms), version : {version}, files : SUBSET Ids, missing : SUBSET (Ids \cup {Shared}),
   attempt : 1..Attempts]

IsTask(t) == t \in TaskAt(t.version)

TasksTyped == DOMAIN task = Publishers /\ \A p \in Publishers : IsTask(task[p])

JobsTyped == jobs \in [Dashboards -> Seq(Int)] /\ \A d \in Dashboards : Len(jobs[d]) <= MaxRetained

BackendTyped == DOMAIN release \subseteq Ids /\ results \subseteq Ids /\ stored \subseteq Ids \cup {Shared}

FoldersTyped == folder \in [Places -> SUBSET Ids]

EachTyped == FoldersTyped /\ TasksTyped /\ JobsTyped /\ BackendTyped

\* A publisher becomes a task.
LEMMA TaskTyped ==
  ASSUME TasksTyped, NEW p \in Publishers, NEW t, IsTask(t), task' = [task EXCEPT ![p] = t]
  PROVE  TasksTyped'
<1>1. DOMAIN task' = Publishers
  BY DEF TasksTyped
<1>2. ASSUME NEW q \in Publishers PROVE IsTask(task'[q])
  <2>1. task'[q] = IF q = p THEN t ELSE task[q]
    BY DEF TasksTyped
  <2> QED
    BY <2>1 DEF TasksTyped
<1> QED
  BY <1>1, <1>2 DEF TasksTyped, IsTask, TaskAt

\* A publisher that is told nothing yet.
LEMMA IdleTyped == IsTask(Idle)
BY PlatformsAssumption, CountAssumption DEF Idle, IsTask, TaskAt

\* What a publisher goes by.
LEMMA PublisherTyped ==
  ASSUME TasksTyped, NEW p \in Publishers
  PROVE  /\ IsTask(task[p]) /\ Id(p) \in Ids
         /\ p \in Dashboards => Place(p) \in Places
         /\ 1 \in 1..Len(Platforms) /\ 1 \in 1..Attempts /\ 0 \in 0..MaxJobs
<1>1. 1 \in 1..Len(Platforms) /\ 1 \in 1..Attempts /\ 0 \in 0..MaxJobs
  BY PlatformsAssumption, CountAssumption
<1>2. IsTask(task[p])
  BY DEF TasksTyped
<1>3. p \in Dashboards => Channel[p] \in Range(Channel)
  BY ChannelAssumption DEF Range
<1> QED
  BY <1>1, <1>2, <1>3 DEF IsTask, TaskAt, Id, Ids, Place, Places

\* A publisher goes to another step.
LEMMA GotoTyped ==
  ASSUME TasksTyped, NEW p \in Publishers,
         NEW step \in {"idle", "version", "build", "sign", "declare", "upload", "done", "failed"}, Goto(p, step)
  PROVE  TasksTyped'
<1> DEFINE t == [task[p] EXCEPT !.step = step]
<1>1. task' = [task EXCEPT ![p] = t]
  BY DEF Goto
<1>2. IsTask(t)
  BY PublisherTyped DEF IsTask, TaskAt
<1> HIDE DEF t
<1> QED
  BY <1>1, <1>2, TaskTyped

LEMMA ClearedTyped ==
  ASSUME FoldersTyped, TasksTyped, NEW p \in Publishers
  PROVE  Cleared(p) \in [Places -> SUBSET Ids]
<1>1. CASE p \in Dashboards
  <2>1. Place(p) \in Places
    BY <1>1, PublisherTyped
  <2> QED
    BY <2>1 DEF FoldersTyped, Cleared
<1>2. CASE p = Cli
  BY <1>2 DEF FoldersTyped, Cleared
<1> QED
  BY <1>1, <1>2 DEF Publishers

LEMMA FailsTyped ==
  ASSUME FoldersTyped, TasksTyped, NEW p \in Publishers, Fails(p)
  PROVE  FoldersTyped' /\ TasksTyped'
BY ClearedTyped, GotoTyped DEF Fails, FoldersTyped

\* A job that starts pushes the oldest out once the map is full.
LEMMA RetainedTyped ==
  ASSUME JobsTyped, NEW d \in Dashboards, NEW job \in Int
  PROVE  Retained(d, job) \in Seq(Int) /\ Len(Retained(d, job)) <= MaxRetained
<1>1. jobs[d] \in Seq(Int) /\ Len(jobs[d]) <= MaxRetained /\ MaxRetained \in Nat \ {0}
  BY CountAssumption DEF JobsTyped
<1>2. CASE Len(jobs[d]) >= MaxRetained
  <2>1. jobs[d] # <<>>
    BY <1>1, <1>2
  <2>2. Tail(jobs[d]) \in Seq(Int) /\ Len(Tail(jobs[d])) = Len(jobs[d]) - 1
    BY <1>1, <2>1
  <2> QED
    BY <1>1, <1>2, <2>2 DEF Retained
<1>3. CASE ~(Len(jobs[d]) >= MaxRetained)
  BY <1>1, <1>3 DEF Retained
<1> QED
  BY <1>2, <1>3

LEMMA CreateTyped ==
  ASSUME BackendTyped, NEW id \in Ids, NEW record, Create(id, record)
  PROVE  DOMAIN release' \subseteq Ids /\ stored' \subseteq Ids \cup {Shared}
BY DEF BackendTyped, Create

\* Every variable of publishing keeps its type, however many dashboards share an environment: a map of
\* jobs never grows over what is retained, and no folder, release or blob is of a build nobody started.
THEOREM PublishTypesHold == Spec => []TypeOK
<1>1. Init => EachTyped
  <2> SUFFICES ASSUME Init PROVE EachTyped
    OBVIOUS
  <2>2. TasksTyped
    BY IdleTyped DEF Init, TasksTyped
  <2>3. JobsTyped
    BY CountAssumption DEF Init, JobsTyped
  <2> QED
    BY <2>2, <2>3 DEF Init, EachTyped, FoldersTyped, BackendTyped
<1>2. EachTyped /\ [Next]_vars => EachTyped'
  <2> SUFFICES ASSUME EachTyped, [Next]_vars PROVE EachTyped'
    OBVIOUS
  <2>0. FoldersTyped /\ TasksTyped /\ JobsTyped /\ BackendTyped
    BY DEF EachTyped
  <2>f. UNCHANGED folder => FoldersTyped'
    BY <2>0 DEF FoldersTyped
  <2>j. UNCHANGED jobs => JobsTyped'
    BY <2>0 DEF JobsTyped
  <2>b. UNCHANGED <<release, results, stored>> => BackendTyped'
    BY <2>0 DEF BackendTyped
  <2>1. ASSUME NEW d \in Dashboards, StartPublish(d) PROVE EachTyped'
    <3> DEFINE t == [Idle EXCEPT !.step = "version", !.job = task[d].job + 1]
    <3>1. d \in Publishers /\ task[d].job \in 0..MaxJobs /\ task[d].job < MaxJobs
      BY <2>0, <2>1 DEF StartPublish, Publishers, TasksTyped, IsTask, TaskAt
    <3>2. IsTask(t)
      <4>1. task[d].job + 1 \in 0..MaxJobs /\ 1 \in 1..Len(Platforms) /\ 1 \in 1..Attempts
        BY <3>1, PlatformsAssumption, CountAssumption
      <4> QED
        BY <4>1, IdleTyped DEF IsTask, TaskAt
    <3>3. task' = [task EXCEPT ![d] = t]
      BY <2>1 DEF StartPublish
    <3> HIDE DEF t
    <3>4. JobsTyped'
      <4> DEFINE kept == Retained(d, task[d].job + 1)
      <4>1. kept \in Seq(Int) /\ Len(kept) <= MaxRetained
        BY <2>0, <3>1, RetainedTyped
      <4>2. jobs' = [jobs EXCEPT ![d] = kept]
        BY <2>1 DEF StartPublish
      <4> HIDE DEF kept
      <4> QED
        BY <2>0, <4>1, <4>2 DEF JobsTyped
    <3> QED
      BY <2>0, <2>1, <2>f, <2>b, <3>1, <3>2, <3>3, <3>4, TaskTyped DEF EachTyped, StartPublish
  <2>2. ASSUME NEW d \in Dashboards, Prepare(d) PROVE EachTyped'
    <3> DEFINE t == [task[d] EXCEPT !.step = "build", !.version = NextVersion(d)]
    <3>1. d \in Publishers /\ IsTask(task[d]) /\ Place(d) \in Places
      BY <2>0, PublisherTyped DEF Publishers
    <3>2. IsTask(t)
      BY <3>1 DEF IsTask, TaskAt
    <3>3. task' = [task EXCEPT ![d] = t] /\ folder' = [folder EXCEPT ![Place(d)] = {}]
      BY <2>2 DEF Prepare
    <3> HIDE DEF t
    <3>4. FoldersTyped' /\ TasksTyped'
      BY <2>0, <3>1, <3>2, <3>3, TaskTyped DEF FoldersTyped
    <3> QED
      BY <2>2, <2>j, <2>b, <3>4 DEF EachTyped, Prepare
  <2>3. ASSUME NEW d \in Dashboards, Build(d) PROVE EachTyped'
    <3>1. d \in Publishers /\ Id(d) \in Ids /\ Place(d) \in Places
      BY <2>0, PublisherTyped DEF Publishers
    <3>2. FoldersTyped' /\ TasksTyped'
      BY <2>0, <2>3, <3>1, GotoTyped DEF FoldersTyped, Build
    <3> QED
      BY <2>3, <2>j, <2>b, <3>2 DEF EachTyped, Build
  <2>4. ASSUME NEW d \in Dashboards, Sign(d) PROVE EachTyped'
    <3> DEFINE t == [task[d] EXCEPT !.step = "declare", !.files = FilesIn(d)]
    <3>1. d \in Publishers /\ IsTask(task[d]) /\ Place(d) \in Places
      BY <2>0, PublisherTyped DEF Publishers
    <3>2. IsTask(t)
      BY <2>0, <3>1 DEF IsTask, TaskAt, FilesIn, FoldersTyped
    <3>3. task' = [task EXCEPT ![d] = t]
      BY <2>4 DEF Sign
    <3> HIDE DEF t
    <3> QED
      BY <2>0, <2>4, <2>f, <2>j, <2>b, <3>1, <3>2, <3>3, TaskTyped DEF EachTyped, Sign
  <2>5. ASSUME NEW d \in Dashboards, SignFails(d) \/ JobBreaks(d) PROVE EachTyped'
    <3>1. d \in Publishers /\ Fails(d) /\ UNCHANGED <<jobs, release, results, stored>>
      BY <2>5 DEF SignFails, JobBreaks, Publishers
    <3> QED
      BY <2>0, <2>j, <2>b, <3>1, FailsTyped DEF EachTyped
  <2>6. ASSUME NEW d \in Dashboards, Killed(d) PROVE EachTyped'
    <3>1. d \in Publishers /\ TasksTyped'
      BY <2>0, <2>6, GotoTyped DEF Killed, Goto, Publishers
    <3>2. JobsTyped'
      BY <2>0, <2>6, CountAssumption DEF JobsTyped, Killed
    <3> QED
      BY <2>6, <2>f, <2>b, <3>1, <3>2 DEF EachTyped, Killed
  <2>7. CASE RunCli
    <3> DEFINE t == [Idle EXCEPT !.step = "declare", !.job = 0, !.version = 1, !.files = {<<Cli, 0, 1>>}]
    <3>1. Cli \in Publishers
      BY DEF Publishers
    <3>2. <<Cli, 0, 1>> \in Ids
      BY <2>0, <3>1, PublisherTyped DEF Ids
    <3>3. IsTask(t)
      <4>1. 1 \in 1..Len(Platforms) /\ 1 \in 1..Attempts /\ 0 \in 0..MaxJobs
        BY <2>0, <3>1, PublisherTyped
      <4> QED
        BY <3>2, <4>1, IdleTyped DEF IsTask, TaskAt
    <3>4. task' = [task EXCEPT ![Cli] = t]
      BY <2>7 DEF RunCli
    <3> HIDE DEF t
    <3> QED
      BY <2>0, <2>7, <2>f, <2>j, <2>b, <3>1, <3>3, <3>4, TaskTyped DEF EachTyped, RunCli
  <2>8. ASSUME NEW p \in Publishers, Declare(p) PROVE EachTyped'
    <3> DEFINE gap == Missing(Record(p), stored')
               t == [task[p] EXCEPT !.step = "upload", !.attempt = 1, !.missing = gap]
    <3>1. IsTask(task[p]) /\ Id(p) \in Ids /\ 1 \in 1..Attempts
      BY <2>0, PublisherTyped
    <3>2. gap \subseteq Ids \cup {Shared}
      BY <3>1 DEF Missing, BlobsOf, Record, IsTask, TaskAt
    <3>3. task' = [task EXCEPT ![p] = t]
      BY <2>8 DEF Declare
    <3> HIDE DEF gap
    <3>4. IsTask(t)
      BY <3>1, <3>2 DEF IsTask, TaskAt
    <3> HIDE DEF t
    <3>5. BackendTyped'
      BY <2>0, <2>8, <3>1, CreateTyped DEF Declare, BackendTyped
    <3> QED
      BY <2>0, <2>8, <2>f, <2>j, <3>3, <3>4, <3>5, TaskTyped DEF EachTyped, Declare
  <2>9. ASSUME NEW p \in Publishers, DeclareRefused(p) \/ DeclareLost(p) PROVE EachTyped'
    <3>1. Fails(p) /\ UNCHANGED <<jobs, results>>
      BY <2>9 DEF DeclareRefused, DeclareLost
    <3>2. BackendTyped'
      <4>1. Create(Id(p), Record(p)) \/ UNCHANGED <<release, stored>>
        BY <2>9 DEF DeclareRefused, DeclareLost
      <4> QED
        BY <2>0, <2>b, <3>1, <4>1, CreateTyped, PublisherTyped DEF BackendTyped
    <3> QED
      BY <2>0, <2>j, <3>1, <3>2, FailsTyped DEF EachTyped
  <2>10. ASSUME NEW p \in Publishers, Put(p) PROVE EachTyped'
    <3>1. PICK x \in task[p].missing :
            /\ stored' = stored \cup {x}
            /\ task' = [task EXCEPT ![p].missing = @ \ {x}, ![p].attempt = 1]
      BY <2>10 DEF Put
    <3> DEFINE t == [task[p] EXCEPT !.missing = task[p].missing \ {x}, !.attempt = 1]
    <3>2. task' = [task EXCEPT ![p] = t]
      BY <2>0, <3>1 DEF TasksTyped
    <3>3. IsTask(t) /\ x \in Ids \cup {Shared}
      BY <2>0, <3>1, PublisherTyped DEF IsTask, TaskAt
    <3> HIDE DEF t
    <3>4. BackendTyped'
      BY <2>0, <2>10, <3>1, <3>3 DEF BackendTyped, Put
    <3> QED
      BY <2>0, <2>10, <2>f, <2>j, <3>2, <3>3, <3>4, TaskTyped DEF EachTyped, Put
  <2>11. ASSUME NEW p \in Publishers, PutLost(p) PROVE EachTyped'
    <3>1. IsTask(task[p])
      BY <2>0, PublisherTyped
    <3>2. BackendTyped'
      BY <2>0, <2>11, <3>1 DEF BackendTyped, PutLost, IsTask, TaskAt
    <3>3. CASE task[p].attempt < Attempts
      <4> DEFINE t == [task[p] EXCEPT !.attempt = task[p].attempt + 1]
      <4>1. task' = [task EXCEPT ![p] = t] /\ UNCHANGED folder
        BY <2>0, <2>11, <3>3 DEF PutLost, TasksTyped
      <4>2. IsTask(t)
        BY <3>1, <3>3, CountAssumption DEF IsTask, TaskAt
      <4> HIDE DEF t
      <4> QED
        BY <2>0, <2>11, <2>f, <2>j, <3>2, <4>1, <4>2, TaskTyped DEF EachTyped, PutLost
    <3>4. CASE ~(task[p].attempt < Attempts)
      BY <2>0, <2>11, <2>j, <3>2, <3>4, FailsTyped DEF EachTyped, PutLost
    <3> QED
      BY <3>3, <3>4
  <2>12. ASSUME NEW p \in Publishers, Finalize(p) PROVE EachTyped'
    <3>1. IsTask(task[p]) /\ Id(p) \in Ids
      BY <2>0, PublisherTyped
    <3>2. BackendTyped'
      BY <2>0, <2>12, <3>1 DEF BackendTyped, Finalize, Published
    <3>3. CASE Published(p)
      <4>1. folder' = Cleared(p)
        BY <3>3 DEF Published
      <4>2. FoldersTyped'
        BY <2>0, <4>1, ClearedTyped DEF FoldersTyped
      <4>3. CASE p # Cli /\ task[p].at < Len(Platforms)
        <5> DEFINE t == [Idle EXCEPT !.step = "version", !.job = task[p].job, !.at = task[p].at + 1]
        <5>1. task' = [task EXCEPT ![p] = t]
          BY <3>3, <4>3 DEF Published
        <5>2. IsTask(t)
          <6>1. task[p].job \in 0..MaxJobs /\ task[p].at + 1 \in 1..Len(Platforms)
            BY <3>1, <4>3, PlatformsAssumption DEF IsTask, TaskAt
          <6> QED
            BY <6>1, IdleTyped DEF IsTask, TaskAt
        <5> HIDE DEF t
        <5> QED
          BY <2>0, <2>12, <2>j, <3>2, <4>2, <5>1, <5>2, TaskTyped DEF EachTyped, Finalize
      <4>4. CASE ~(p # Cli /\ task[p].at < Len(Platforms))
        <5>1. Goto(p, "done")
          BY <3>3, <4>4 DEF Published, Goto
        <5> QED
          BY <2>0, <2>12, <2>j, <3>2, <4>2, <5>1, GotoTyped DEF EachTyped, Finalize
      <4> QED
        BY <4>3, <4>4
    <3>4. CASE Fails(p)
      BY <2>0, <2>12, <2>j, <3>2, <3>4, FailsTyped DEF EachTyped, Finalize
    <3> QED
      BY <2>12, <3>3, <3>4 DEF Finalize
  <2>13. ASSUME NEW p \in Publishers, FinalizeLost(p) PROVE EachTyped'
    <3>1. Fails(p) /\ UNCHANGED <<jobs, results, stored>> /\ DOMAIN release' = DOMAIN release
      BY <2>13 DEF FinalizeLost
    <3> QED
      BY <2>0, <2>j, <3>1, FailsTyped DEF EachTyped, BackendTyped
  <2>14. CASE UNCHANGED vars
    BY <2>0, <2>14, <2>f, <2>j, <2>b DEF vars, EachTyped, TasksTyped, IsTask, TaskAt
  <2> QED
    BY <2>1, <2>2, <2>3, <2>4, <2>5, <2>6, <2>7, <2>8, <2>9, <2>10, <2>11, <2>12, <2>13, <2>14
       DEF Next, JobSteps, UploadSteps, Losses
<1>3. EachTyped => TypeOK
  BY DEF EachTyped, FoldersTyped, TasksTyped, JobsTyped, BackendTyped, IsTask, TaskAt, TypeOK
<1> QED
  BY <1>1, <1>2, <1>3, PTL DEF Spec

-----------------------------------------------------------------------------
(* From the keys to the devices *)

\* Since the signing key was last forced, one key signs and one key is embedded, and they are the same
\* unless nothing can be published; while keygen runs there is nothing of its epoch yet.
Released(i) == i \in DOMAIN releases
Current(i) == Released(i) /\ releases[i].forced = forced
Installed(d) == device[d].app # NotInstalled
CurrentApp(d) == Installed(d) /\ device[d].forced = forced

KeysOfEpoch ==
  /\ forced \in Nat /\ \A i \in DOMAIN releases : releases[i].forced \in 0..forced
  /\ \A d \in Devices : Installed(d) => device[d].forced \in 0..forced
  /\ private = Unwritten => json = Unwritten /\ releases = <<>> /\ \A d \in Devices : ~Installed(d)
  /\ keygen # "idle" =>
       minted > 0 /\ (\A i \in DOMAIN releases : ~Current(i)) /\ \A d \in Devices : ~CurrentApp(d)
  /\ keygen \notin {"idle", "private"} => private # Unwritten
  /\ \A i \in DOMAIN releases : Current(i) =>
       releases[i].signedBy = private /\ json \in {Unwritten, private}
  /\ \A d \in Devices : CurrentApp(d) => device[d].key = json /\ json # Unwritten

\* A release is the build it was made from, sealed with one key; its version is its place.
ReleaseIsBuilt(i) ==
  LET m == releases[i].manifest IN
    /\ DOMAIN releases[i] = {"manifest", "signedBy", "forced", "payload"}
    /\ releases[i].payload \in Payloads
    /\ \A p \in DOMAIN releases[i].payload : SafePath(p)
    /\ m.files = BuildRelease(releases[i].payload, m.key)
    /\ m.version = i

AllReleases == {releases[i] : i \in DOMAIN releases}

ChannelInv ==
  /\ releases \in Seq(AllReleases)
  /\ DOMAIN device = Devices
  /\ \A d \in Devices : DOMAIN device[d] = {"app", "key", "forced", "running", "files"}
  /\ minted \in Nat
  /\ KeysOfEpoch /\ ReachesTheField
  /\ \A i \in DOMAIN releases : ReleaseIsBuilt(i)
  /\ \A d \in Devices : device[d].running \in {0} \cup DOMAIN releases
  /\ InstalledIsPublished
  /\ \A x \in sealed : x.iv = <<x.key, x.data>>

\* Something put in front of a sequence.
LEMMA Prefixed ==
  ASSUME NEW S, NEW x \in S, NEW s \in Seq(S)
  PROVE  /\ <<x>> \o s # <<>> /\ Head(<<x>> \o s) = x /\ Tail(<<x>> \o s) = s /\ (<<x>> \o s)[1] = x
<1> DEFINE c == <<x>> \o s
<1>1. <<x>> \in Seq(S) /\ Len(<<x>>) = 1 /\ <<x>>[1] = x /\ Len(s) \in Nat
  OBVIOUS
<1>2. /\ c \in Seq(S) /\ Len(c) = 1 + Len(s)
      /\ \A i \in 1..(1 + Len(s)) : c[i] = IF i <= 1 THEN <<x>>[i] ELSE s[i - 1]
  BY <1>1, ConcatProperties
<1> HIDE DEF c
<1>3. c # <<>> /\ c[1] = x /\ Head(c) = x
  BY <1>1, <1>2
<1>4. Tail(c) \in Seq(S) /\ Len(Tail(c)) = Len(s) /\ \A i \in 1..Len(s) : Tail(c)[i] = c[i + 1]
  BY <1>1, <1>2, <1>3, HeadTailProperties
<1>5. \A i \in 1..Len(s) : Tail(c)[i] = s[i]
  BY <1>1, <1>2, <1>4
<1>6. Tail(c) = s
  BY <1>4, <1>5, SeqEqual
<1> QED
  BY <1>3, <1>6 DEF c

\* compressForBlob and back: what a file's blob unpacks to is the file.
LEMMA UnpacksToTheFile ==
  ASSUME NEW data \in Seq(STRING) \ {<<>>, Refused}, NEW path, NEW key
  PROVE  Unpack([sha |-> data, blob |-> SealBlob(CompressForBlob(data, path), key, data)], key) = data
<1> DEFINE c == CompressForBlob(data, path)
           blob == SealBlob(c, key, data)
           entry == [sha |-> data, blob |-> blob]
<1>1. /\ c.data # Refused
      /\ DecompressBlob(c.data, c.compression) = data
  <2>1. CASE path \in Precompressed \/ Head(data) \in Level
    <3>1. c = [data |-> data, compression |-> "none"]
      BY <2>1 DEF CompressForBlob
    <3> QED
      BY <3>1 DEF DecompressBlob
  <2>2. CASE ~(path \in Precompressed \/ Head(data) \in Level)
    <3> DEFINE level == IF path = BundlePath THEN "bundle-level" ELSE "asset-level"
    <3>1. c = [data |-> <<level>> \o data, compression |-> "zstd"] /\ level \in Level /\ level # "refused"
      BY <2>2 DEF CompressForBlob, Level
    <3> HIDE DEF level
    <3>2. level \in STRING \cup Level /\ data \in Seq(STRING \cup Level)
      BY <3>1
    <3>3. /\ <<level>> \o data # <<>> /\ Head(<<level>> \o data) = level
          /\ Tail(<<level>> \o data) = data /\ (<<level>> \o data)[1] = level
      BY <3>2, Prefixed
    <3>4. <<level>> \o data # Refused
      BY <3>1, <3>3 DEF Refused
    <3> QED
      BY <3>1, <3>3, <3>4 DEF DecompressBlob
  <2> QED
    BY <2>1, <2>2
<1> HIDE DEF c
<1>2. /\ blob.stored.data = c.data /\ blob.compression = c.compression
      /\ key # NoKey => blob.tag = <<key, blob.iv, blob.stored.data, data>>
  BY DEF SealBlob, AesGcmEncrypt
<1>3. entry.sha = data /\ entry.blob = blob
  OBVIOUS
<1> HIDE DEF blob, entry
<1>4. Unpack(entry, key) = data
  BY <1>1, <1>2, <1>3 DEF Unpack, AesGcmDecrypt
<1> QED
  BY <1>4 DEF entry, blob, c

\* downloadAndStage assembles the build a release was made from, whatever the device has.
LEMMA AssemblesTheBuild ==
  ASSUME ChannelInv, NEW d, NEW i \in DOMAIN releases
  PROVE  /\ Download(d, i) = releases[i].payload
         /\ DOMAIN Download(d, i) = DOMAIN releases[i].payload
         /\ \A p \in DOMAIN Download(d, i) : Download(d, i)[p] # Refused
<1> DEFINE payload == releases[i].payload
           key == releases[i].manifest.key
           files == releases[i].manifest.files
<1>1. /\ payload \in Payloads /\ files = BuildRelease(payload, key)
      /\ payload \in [DOMAIN payload -> Seq(STRING) \ {<<>>, Refused}]
  BY PayloadAssumption DEF ChannelInv, ReleaseIsBuilt
<1> HIDE DEF payload, key, files
<1>2. /\ DOMAIN files = DOMAIN payload
      /\ \A p \in DOMAIN payload :
           files[p] = [sha |-> payload[p],
                       blob |-> SealBlob(CompressForBlob(payload[p], FirstWith(payload, payload[p])), key, payload[p])]
  BY <1>1 DEF BuildRelease
<1>3. ASSUME NEW p \in DOMAIN payload
      PROVE  files[p].sha = payload[p] /\ Unpack(files[p], key) = payload[p]
  <2>1. payload[p] \in Seq(STRING) \ {<<>>, Refused}
    BY <1>1
  <2>2. files[p].sha = payload[p]
    BY <1>2
  <2> QED
    BY <1>2, <2>1, <2>2, UnpacksToTheFile
<1>4. Download(d, i) = [p \in DOMAIN files |-> IF files[p].sha \in Have(d) THEN files[p].sha ELSE Unpack(files[p], key)]
  BY DEF Download, Assemble, files, key
<1>5. Download(d, i) = [p \in DOMAIN payload |-> payload[p]]
  BY <1>2, <1>3, <1>4
<1>6. Download(d, i) = payload /\ \A p \in DOMAIN payload : payload[p] # Refused
  BY <1>1, <1>5
<1> QED
  BY <1>6 DEF payload

\* pickEligible: an eligible release, where there is one.
LEMMA OfferIsEligible ==
  ASSUME ChannelInv, NEW d \in Devices, Eligible(d) # {}
  PROVE  Offer(d) \in Eligible(d) /\ Offer(d) \in DOMAIN releases
<1>1. Eligible(d) \in SUBSET Nat /\ \A i \in Eligible(d) : i <= Len(releases) /\ i \in DOMAIN releases
  BY DEF ChannelInv, Eligible
<1>2. Len(releases) \in Nat
  BY DEF ChannelInv
<1>3. \E i \in Eligible(d) : \A j \in Eligible(d) : i >= j
  <2> HIDE DEF Eligible
  <2> QED
    BY <1>1, <1>2, LargestOfBounded
<1>4. \E i \in Eligible(d) : \A j \in Eligible(d) : j <= i
  BY <1>1, <1>3
<1>5. Offer(d) \in Eligible(d)
  BY <1>4 DEF Offer
<1> QED
  BY <1>1, <1>5

\* A channel begins without keys, releases and apps.
LEMMA ChannelInitially == ChannelInit => ChannelInv
<1> SUFFICES ASSUME ChannelInit PROVE ChannelInv
  OBVIOUS
<1>1. /\ private = Unwritten /\ json = Unwritten /\ keygen = "idle" /\ minted = 0 /\ forced = 0
      /\ releases = <<>> /\ device = [d \in Devices |-> NoApp] /\ sealed = {}
  BY DEF ChannelInit
<1>2. DOMAIN releases = {} /\ Len(releases) = 0 /\ 1..0 = {}
  BY <1>1
<1>3. \A d \in Devices : /\ device[d] = NoApp /\ ~Installed(d) /\ device[d].running = 0
                         /\ DOMAIN device[d] = {"app", "key", "forced", "running", "files"}
  BY <1>1 DEF Installed, NoApp
<1>4. KeysOfEpoch
  BY <1>1, <1>2, <1>3 DEF KeysOfEpoch, CurrentApp
<1>5. ReachesTheField /\ InstalledIsPublished
  BY <1>2, <1>3 DEF ReachesTheField, InstalledIsPublished
<1> QED
  BY <1>1, <1>2, <1>3, <1>4, <1>5 DEF ChannelInv

\* keygen leaves what was released and shipped alone, and starts an epoch of its own.
LEMMA KeygenKeeps ==
  ASSUME ChannelInv, \/ \E force \in BOOLEAN : Keygen(force)
                     \/ WritePrivate \/ WriteContent \/ WriteJson \/ KeygenKilled \/ ContentKeyOnly
                     \/ KeygenRegisters \/ RegisterKeyFile \/ RegisterKeyText \/ DashboardRegisters
  PROVE  ChannelInv'
<1>1. UNCHANGED <<releases, device, sealed>>
  BY DEF Keygen, WritePrivate, WriteContent, WriteJson, KeygenKilled, ContentKeyOnly, KeygenRegisters,
         RegisterKeyFile, RegisterKeyText, DashboardRegisters
<1>2. minted \in Nat /\ KeysOfEpoch /\ ReachesTheField
  BY DEF ChannelInv
<1>3. minted' \in Nat /\ KeysOfEpoch'
  <2>1. ASSUME NEW force \in BOOLEAN, Keygen(force) PROVE minted' \in Nat /\ KeysOfEpoch'
    <3>1. /\ keygen = "idle" /\ keygen' = "private" /\ minted' = minted + 1
          /\ UNCHANGED <<private, json>> /\ (private # Unwritten => force)
          /\ forced' = forced + (IF force THEN 1 ELSE 0)
      BY <2>1 DEF Keygen, Exists, keyFiles
    <3>2. CASE force
      BY <1>1, <1>2, <3>1, <3>2 DEF KeysOfEpoch, Current, CurrentApp, Released, Installed
    <3>3. CASE private = Unwritten
      <4>1. DOMAIN releases = {} /\ \A d \in Devices : ~Installed(d)
        BY <1>2, <3>3 DEF KeysOfEpoch
      <4>2. forced' \in Nat
        BY <1>2, <3>1 DEF KeysOfEpoch
      <4> QED
        BY <1>1, <1>2, <3>1, <3>3, <4>1, <4>2 DEF KeysOfEpoch, CurrentApp, Installed
    <3> QED
      BY <3>1, <3>2, <3>3
  <2>2. CASE WritePrivate
    BY <1>1, <1>2, <2>2 DEF WritePrivate, KeysOfEpoch, Current, CurrentApp, Released, Installed, Unwritten
  <2>3. CASE WriteContent
    BY <1>1, <1>2, <2>3 DEF WriteContent, KeysOfEpoch, Current, CurrentApp, Released, Installed
  <2>4. CASE WriteJson
    BY <1>1, <1>2, <2>4 DEF WriteJson, KeysOfEpoch, Current, CurrentApp, Released, Installed
  <2>5. CASE KeygenKilled
    <3>1. /\ keygen # "idle" /\ keygen' = "idle" /\ UNCHANGED <<minted, forced>>
          /\ \/ UNCHANGED <<private, json>>
             \/ private' = Torn /\ json' = json
             \/ keygen = "json" /\ private' = private
      BY <2>5 DEF KeygenKilled, keyFiles
    <3> QED
      BY <1>1, <1>2, <3>1 DEF KeysOfEpoch, Current, CurrentApp, Released, Installed, Torn, Unwritten
  <2>6. CASE ContentKeyOnly
    BY <1>1, <1>2, <2>6 DEF ContentKeyOnly, KeysOfEpoch, Current, CurrentApp, Released, Installed
  <2>7. CASE KeygenRegisters \/ RegisterKeyFile \/ RegisterKeyText \/ DashboardRegisters
    <3>1. UNCHANGED <<private, json, minted, forced>> /\ keygen' \in {keygen, "idle"}
      BY <2>7 DEF KeygenRegisters, RegisterKeyFile, RegisterKeyText, DashboardRegisters, keyFiles
    <3> QED
      BY <1>1, <1>2, <3>1 DEF KeysOfEpoch, Current, CurrentApp, Released, Installed
  <2> QED
    BY <2>1, <2>2, <2>3, <2>4, <2>5, <2>6, <2>7
<1> QED
  BY <1>1, <1>3 DEF ChannelInv, ReachesTheField, ReleaseIsBuilt, InstalledIsPublished, AllReleases

\* What publishing appends is the build it was given, signed with the key that is embedded.
LEMMA PublishKeeps ==
  ASSUME ChannelInv, NEW payload \in Payloads, NEW encrypt \in BOOLEAN, NEW target, NEW min, NEW range,
         Publish(payload, encrypt, target, min, range)
  PROVE  ChannelInv'
<1> DEFINE key == IF encrypt THEN content ELSE NoKey
           manifest == ManifestOf(payload, key, target, min, range)
           new == [manifest |-> manifest, signedBy |-> private, forced |-> forced, payload |-> payload]
           n == Len(releases) + 1
<1>1. /\ keygen = "idle" /\ private # Unwritten /\ releases' = Append(releases, new)
      /\ encrypt => content # Unwritten
      /\ json \in {Unwritten, private}
      /\ \A p \in DOMAIN payload : SafePath(p)
      /\ sealed' = sealed \cup (IF encrypt THEN CollectBlobShas(manifest.files) ELSE {})
      /\ UNCHANGED <<private, json, keygen, minted, forced, device>>
  BY DEF Publish, SigningFor, LoadSigningKey, ReadContentKey, Readable, VerifyManifest, SignManifest,
         VerifyKey, Exists, Buildable, keyFiles
<1>2. /\ manifest.version = n /\ manifest.key = key /\ manifest.files = BuildRelease(payload, key)
  BY DEF ManifestOf
<1>3. /\ new.manifest = manifest /\ new.signedBy = private /\ new.forced = forced /\ new.payload = payload
      /\ DOMAIN new = {"manifest", "signedBy", "forced", "payload"}
  OBVIOUS
<1> HIDE DEF manifest, new
<1>4. releases \in Seq(AllReleases) /\ KeysOfEpoch /\ ReachesTheField
  BY DEF ChannelInv
<1>5. /\ Len(releases') = n /\ DOMAIN releases' = 1..n /\ releases'[n] = new /\ n \in Nat
      /\ \A i \in DOMAIN releases : releases'[i] = releases[i]
      /\ DOMAIN releases' = DOMAIN releases \cup {n} /\ n \notin DOMAIN releases
      /\ releases' \in Seq(AllReleases')
  <2>1. releases \in Seq(AllReleases \cup {new}) /\ new \in AllReleases \cup {new}
    BY <1>4
  <2> DEFINE S == AllReleases \cup {new}
  <2>2. releases \in Seq(S) /\ new \in S
    BY <2>1
  <2> HIDE DEF S, n
  <2>3. /\ DOMAIN releases = 1..Len(releases) /\ Len(releases) \in Nat
        /\ Append(releases, new) \in Seq(S) /\ Len(Append(releases, new)) = Len(releases) + 1
        /\ DOMAIN Append(releases, new) = 1..(Len(releases) + 1)
        /\ \A i \in 1..Len(releases) : Append(releases, new)[i] = releases[i]
        /\ Append(releases, new)[Len(releases) + 1] = new
    BY <2>2
  <2>4. releases' \in Seq(S)
    BY <1>1, <2>3
  <2>5. releases' \in Seq(AllReleases')
    <3>1. \A i \in 1..Len(releases') : releases'[i] \in AllReleases'
      BY <2>4 DEF AllReleases
    <3> HIDE DEF S
    <3> QED
      BY <2>4, <3>1
  <2> QED
    BY <1>1, <2>3, <2>5 DEF n
<1> HIDE DEF n
<1>6. KeysOfEpoch'
  BY <1>1, <1>3, <1>4, <1>5 DEF KeysOfEpoch, Current, CurrentApp, Released, Installed
<1>7. ReachesTheField'
  <2> SUFFICES ASSUME NEW i \in DOMAIN releases', NEW d \in Devices,
                      device[d].app # NotInstalled, releases'[i].forced = device[d].forced
               PROVE  releases'[i].signedBy = device[d].key
    BY <1>1 DEF ReachesTheField
  <2>1. CASE i \in DOMAIN releases
    BY <1>4, <1>5, <2>1 DEF ReachesTheField
  <2>2. CASE i = n
    <3>1. CurrentApp(d) /\ releases'[i].signedBy = private
      BY <1>3, <1>5, <2>2 DEF CurrentApp, Installed
    <3> QED
      BY <1>1, <1>4, <3>1 DEF KeysOfEpoch
  <2> QED
    BY <1>5, <2>1, <2>2
<1>8. \A i \in DOMAIN releases' : ReleaseIsBuilt(i)'
  <2> SUFFICES ASSUME NEW i \in DOMAIN releases' PROVE ReleaseIsBuilt(i)'
    OBVIOUS
  <2>1. CASE i \in DOMAIN releases
    <3>1. releases'[i] = releases[i] /\ ReleaseIsBuilt(i)
      BY <1>5, <2>1 DEF ChannelInv
    <3> QED
      BY <3>1 DEF ReleaseIsBuilt
  <2>2. CASE i = n
    <3>1. /\ releases'[i] = new /\ new.manifest = manifest /\ new.payload = payload
          /\ manifest.version = i /\ manifest.key = key /\ manifest.files = BuildRelease(payload, key)
      BY <1>2, <1>3, <1>5, <2>2
    <3>2. /\ DOMAIN releases'[i] = {"manifest", "signedBy", "forced", "payload"}
          /\ releases'[i].payload \in Payloads
          /\ \A p \in DOMAIN releases'[i].payload : SafePath(p)
      BY <1>1, <1>3, <3>1
    <3>3. /\ releases'[i].manifest.version = i
          /\ releases'[i].manifest.files = BuildRelease(releases'[i].payload, releases'[i].manifest.key)
      BY <3>1
    <3> QED
      BY <3>2, <3>3 DEF ReleaseIsBuilt
  <2> QED
    BY <1>5, <2>1, <2>2
<1>9. InstalledIsPublished' /\ \A d \in Devices : device'[d].running \in {0} \cup DOMAIN releases'
  BY <1>1, <1>5 DEF ChannelInv, InstalledIsPublished
<1>10. \A x \in sealed' : x.iv = <<x.key, x.data>>
  <2>1. ASSUME encrypt, NEW x \in CollectBlobShas(manifest.files) PROVE x.iv = <<x.key, x.data>>
    <3>1. PICK p \in DOMAIN payload :
            x = SealBlob(CompressForBlob(payload[p], FirstWith(payload, payload[p])), key, payload[p]).stored
      BY <1>2, <2>1 DEF CollectBlobShas, BuildRelease
    <3>2. key # NoKey
      BY <1>1, <2>1, KeyAssumption DEF Unwritten
    <3> QED
      BY <3>1, <3>2 DEF SealBlob, AesGcmEncrypt, DeriveBlobIv
  <2> QED
    BY <1>1, <2>1 DEF ChannelInv
<1> QED
  BY <1>1, <1>5, <1>6, <1>7, <1>8, <1>9, <1>10 DEF ChannelInv

\* An app is shipped, and embeds the key of its epoch.
LEMMA InstallKeeps ==
  ASSUME ChannelInv, NEW d \in Devices, NEW app \in Apps, InstallApp(d, app)
  PROVE  ChannelInv'
<1>1. /\ json # Unwritten /\ keygen = "idle"
      /\ device' = [device EXCEPT ![d].app = app, ![d].key = json, ![d].forced = forced]
      /\ UNCHANGED <<private, json, keygen, minted, forced, releases, sealed>>
  BY DEF InstallApp, Readable, keyFiles
<1>2. /\ DOMAIN device' = Devices /\ \A e \in Devices \ {d} : device'[e] = device[e]
      /\ device'[d].app = app /\ device'[d].key = json /\ device'[d].forced = forced
      /\ device'[d].running = device[d].running /\ device'[d].files = device[d].files
      /\ DOMAIN device'[d] = {"app", "key", "forced", "running", "files"}
  BY <1>1 DEF ChannelInv
<1>3. app # NotInstalled
  BY AppAssumption
<1>4. KeysOfEpoch'
  BY <1>1, <1>2, <1>3 DEF ChannelInv, KeysOfEpoch, Current, CurrentApp, Released, Installed
<1>5. ReachesTheField'
  <2> SUFFICES ASSUME NEW i \in DOMAIN releases, NEW e \in Devices,
                      device'[e].app # NotInstalled, releases[i].forced = device'[e].forced
               PROVE  releases[i].signedBy = device'[e].key
    BY <1>1 DEF ReachesTheField
  <2>1. CASE e = d
    <3>1. Current(i)
      BY <1>2, <2>1 DEF Current, Released
    <3> QED
      BY <1>1, <1>2, <2>1, <3>1 DEF ChannelInv, KeysOfEpoch
  <2>2. CASE e # d
    BY <1>2, <2>2 DEF ChannelInv, ReachesTheField
  <2> QED
    BY <2>1, <2>2
<1>6. InstalledIsPublished' /\ \A e \in Devices : device'[e].running \in {0} \cup DOMAIN releases'
  BY <1>1, <1>2 DEF ChannelInv, InstalledIsPublished
<1> QED
  BY <1>1, <1>2, <1>4, <1>5, <1>6 DEF ChannelInv, ReleaseIsBuilt, AllReleases

\* A device runs what it was offered, in the files of its build.
LEMMA UpdateKeeps ==
  ASSUME ChannelInv, NEW d \in Devices, Update(d)
  PROVE  ChannelInv'
<1> DEFINE offer == Offer(d)
           files == Download(d, Offer(d))
<1>1. /\ device' = [device EXCEPT ![d].running = offer, ![d].files = files]
      /\ Eligible(d) # {}
      /\ UNCHANGED <<private, json, keygen, minted, forced, releases, sealed>>
  BY DEF Update, keyFiles
<1>2. offer \in DOMAIN releases /\ files = releases[offer].payload
  BY <1>1, OfferIsEligible, AssemblesTheBuild
<1> HIDE DEF offer, files
<1>3. /\ DOMAIN device' = Devices /\ \A e \in Devices \ {d} : device'[e] = device[e]
      /\ device'[d].app = device[d].app /\ device'[d].key = device[d].key
      /\ device'[d].forced = device[d].forced
      /\ device'[d].running = offer /\ device'[d].files = files
      /\ DOMAIN device'[d] = {"app", "key", "forced", "running", "files"}
  BY <1>1 DEF ChannelInv
<1>4. KeysOfEpoch' /\ ReachesTheField'
  BY <1>1, <1>3 DEF ChannelInv, KeysOfEpoch, Current, CurrentApp, Released, Installed, ReachesTheField
<1>5. InstalledIsPublished' /\ \A e \in Devices : device'[e].running \in {0} \cup DOMAIN releases'
  BY <1>1, <1>2, <1>3 DEF ChannelInv, InstalledIsPublished
<1> QED
  BY <1>1, <1>3, <1>4, <1>5 DEF ChannelInv, ReleaseIsBuilt, AllReleases

\* One step of keygen, of a publisher or of a device.
LEMMA ChannelStep == ChannelInv /\ [ChannelNext]_channelVars => ChannelInv'
<1> SUFFICES ASSUME ChannelInv, [ChannelNext]_channelVars PROVE ChannelInv'
  OBVIOUS
<1>1. CASE UNCHANGED channelVars
  BY <1>1 DEF channelVars, keyFiles, ChannelInv, KeysOfEpoch, Current, CurrentApp, Released, Installed,
              ReachesTheField, ReleaseIsBuilt, InstalledIsPublished, AllReleases
<1>2. ASSUME NEW payload \in Payloads, NEW encrypt \in BOOLEAN, NEW target \in Targets, NEW min \in MinBuilds,
             NEW range \in Ranges, Publish(payload, encrypt, target, min, range)
      PROVE  ChannelInv'
  BY <1>2, PublishKeeps
<1>3. ASSUME NEW d \in Devices, NEW app \in Apps, InstallApp(d, app) PROVE ChannelInv'
  BY <1>3, InstallKeeps
<1>4. ASSUME NEW d \in Devices, Update(d) PROVE ChannelInv'
  BY <1>4, UpdateKeeps
<1> QED
  BY <1>1, <1>2, <1>3, <1>4, KeygenKeeps DEF ChannelNext

\* What a device is offered passes its gates, and every file of it verifies.
LEMMA OffersAreAccepted == ChannelInv => OfferIsAccepted
<1> SUFFICES ASSUME ChannelInv, NEW d \in Devices, device[d].app # NotInstalled, Eligible(d) # {},
                    releases[Offer(d)].forced = device[d].forced
             PROVE  /\ Gate(d, Offer(d))
                    /\ \A p \in DOMAIN Download(d, Offer(d)) : Download(d, Offer(d))[p] # Refused
  BY DEF OfferIsAccepted
<1> DEFINE i == Offer(d)
<1>1. i \in Eligible(d) /\ i \in DOMAIN releases
  BY OfferIsEligible
<1>2. \A p \in DOMAIN Download(d, i) : Download(d, i)[p] # Refused
  BY <1>1, AssemblesTheBuild
<1>3. releases[i].signedBy = device[d].key
  BY <1>1 DEF ChannelInv, ReachesTheField
<1>4. IsEligible(releases[i].manifest, Context(d))
  BY <1>1 DEF Eligible
<1>5. \A p \in DOMAIN releases[i].manifest.files : SafePath(p)
  <2> HIDE DEF i
  <2> QED
    BY <1>1 DEF ChannelInv, ReleaseIsBuilt, BuildRelease
<1> HIDE DEF i
<1>6. Gate(d, i)
  BY <1>3, <1>4, <1>5 DEF Gate, GateAccepts, VerifyManifest, IsEligible
<1> QED
  BY <1>2, <1>6 DEF i

\* The invariant of a channel: keys of one epoch, releases that are built from what was published, devices
\* that run one of them, and one message per nonce.
LEMMA ChannelHolds == ChannelSpec => []ChannelInv
BY ChannelInitially, ChannelStep, PTL DEF ChannelSpec

\* Whatever moment keygen was killed at and in whatever order keys were registered, apps shipped and
\* releases published, an app verifies every release of its epoch (cmdKeygen, prepareRelease).
THEOREM ReleasesReachTheField == ChannelSpec => []ReachesTheField
<1>1. ChannelInv => ReachesTheField
  BY DEF ChannelInv
<1> QED
  BY <1>1, ChannelHolds, PTL

\* A device does not refuse what the backend offers it, and runs the build a release was made from,
\* whatever it copied and whatever it downloaded (isEligible, downloadAndStage).
THEOREM OffersInstallTheirBuild == ChannelSpec => []OfferInstallsWhatWasPublished
<1>1. ChannelInv => OfferInstallsWhatWasPublished
  BY OffersAreAccepted DEF ChannelInv, OfferInstallsWhatWasPublished
<1> QED
  BY <1>1, ChannelHolds, PTL

\* A nonce seals one message under a content key (deriveBlobIv).
THEOREM NoncesAreSpentOnce == ChannelSpec => []NonceSealsOneMessage
<1>1. ChannelInv => NonceSealsOneMessage
  BY DEF ChannelInv, NonceSealsOneMessage
<1> QED
  BY <1>1, ChannelHolds, PTL

===============================================================================
