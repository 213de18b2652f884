----------------------------- MODULE Databases -----------------------------
(***************************************************************************)
(* The providers that keep records - disk, SQLite, Postgres - seen through *)
(* one record that requests put and get (releases, installs, keys and      *)
(* policies are kept alike) and one counter that they increment            *)
(* (incrementRetiredClient): how each opens its connection on first use,   *)
(* creates its tables, and what an outage or the end of the process does   *)
(* to what a request was told.                                             *)
(*                                                                         *)
(* The SQL providers remember the promise of their client, and Postgres    *)
(* that of its schema, for the life of the process; a promise that was     *)
(* rejected stays remembered.  The disk provider answers from memory and   *)
(* rewrites a whole file with every change.                                *)
(***************************************************************************)
EXTENDS Integers, FiniteSets

CONSTANTS
  Databases,    \* the providers looked at: "disk", "sqlite", "postgres"
  Calls,        \* requests served at the same time
  MaxWrites,    \* bound: writes asked for
  MaxReads,     \* bound: reads answered
  MaxFaults,    \* bound: outages, lost answers, failed writes
  MaxRestarts,  \* bound: ends of the process
  Torn          \* a file cut short while it was rewritten

ASSUME DatabasesAssumption == Databases \subseteq {"disk", "sqlite", "postgres"}
ASSUME BoundAssumption == MaxWrites \in Nat /\ MaxReads \in Nat /\ MaxFaults \in Nat /\ MaxRestarts \in Nat
ASSUME TornAssumption == Torn \notin Nat

VARIABLES
  database,  \* the provider in use
  reachable, \* the server answers, the file is not locked
  alive,     \* the process runs
  client,    \* the remembered promise of the client
  schema,    \* the remembered promise of the schema (Postgres)
  tables,    \* the tables exist
  stored,    \* the row and the counter: in the tables, or in the disk provider's files (Torn when cut short)
  memory,    \* the disk provider's copy, which it answers from
  call,      \* [Calls -> where the request is, what it asks, what it was answered]
  puts,      \* puts asked for; the n-th writes n
  confirmed, \* values whose put was confirmed
  gone,      \* values that a put asked after their confirmation has replaced, and was confirmed
  acked,     \* increments that were answered
  doubted,   \* increments that failed after they may have happened
  reads,
  faults,
  restarts

dbVars == <<database, reachable, alive, client, schema, tables, stored, memory, call, puts, confirmed,
            gone, acked, doubted, reads, faults, restarts>>

connection == <<client, schema>>
history == <<puts, confirmed, gone, acked, doubted, reads>>

Promise == {"none", "pending", "resolved", "rejected"}
Ops == {"put", "increment", "get", "count"}
Writes == {"put", "increment"}

Idle == [step |-> "idle", op |-> "get", value |-> 0, before |-> {}]

DbInit ==
  /\ database \in Databases
  /\ reachable \in BOOLEAN
  /\ alive = TRUE
  /\ client = "none" /\ schema = "none"
  /\ tables = FALSE
  /\ stored = [row |-> 0, hits |-> 0] /\ memory = stored
  /\ call = [c \in Calls |-> Idle]
  /\ puts = 0 /\ confirmed = {0} /\ gone = {}
  /\ acked = 0 /\ doubted = 0 /\ reads = 0
  /\ faults = 0 /\ restarts = 0

-----------------------------------------------------------------------------

Sql == database \in {"sqlite", "postgres"}

Go(c, step) == call' = [call EXCEPT ![c].step = step]

InFlight == {c \in Calls : call[c].step \notin {"idle", "done", "error"}}

Asked(op) == {c \in InFlight : call[c].op = op}

\* A request asks for a statement; the disk provider needs no client.  before: for a put, what was
\* confirmed by then; for a read, what it may not be told any more.
Query(c, op) ==
  /\ alive
  /\ c \notin InFlight
  /\ IF op \in Writes
       THEN /\ puts + acked + doubted + Cardinality(Asked("increment")) < MaxWrites
            /\ UNCHANGED reads
       ELSE reads < MaxReads /\ reads' = reads + 1
  /\ puts' = IF op = "put" THEN puts + 1 ELSE puts
  /\ call' = [call EXCEPT ![c] =
       [step |-> IF database = "disk" THEN "statement" ELSE "client", op |-> op,
        value |-> CASE op = "put" -> puts + 1 [] op = "count" -> acked [] OTHER -> 0,
        before |-> CASE op = "put" -> confirmed [] op = "get" -> gone [] OTHER -> {}]]
  /\ UNCHANGED <<database, reachable, alive, connection, tables, stored, memory, confirmed, gone, acked, doubted, faults, restarts>>

\* client(), db(): the first request starts to open, and every request waits for the same promise.
AwaitClient(c) ==
  /\ alive
  /\ call[c].step = "client"
  /\ CASE client = "none" -> client' = "pending" /\ UNCHANGED call
       [] client = "resolved" ->
            Go(c, IF database = "postgres" THEN "schema" ELSE "statement") /\ UNCHANGED client
       [] client = "rejected" -> Go(c, "error") /\ UNCHANGED client
       [] OTHER -> FALSE
  /\ UNCHANGED <<database, reachable, alive, schema, tables, stored, memory, history, faults, restarts>>

\* db(): SQLite opens its file, sets its journal mode and creates its tables before its promise resolves.
SqliteOpens ==
  /\ alive
  /\ database = "sqlite" /\ client = "pending"
  /\ client' = (IF reachable THEN "resolved" ELSE "rejected")
  /\ tables' = (tables \/ reachable)
  /\ UNCHANGED <<database, reachable, alive, schema, stored, memory, call, history, faults, restarts>>

\* client(): a pool is constructed without a connection.
PoolOpens ==
  /\ alive
  /\ database = "postgres" /\ client = "pending"
  /\ client' = "resolved"
  /\ UNCHANGED <<database, reachable, alive, schema, tables, stored, memory, call, history, faults, restarts>>

\* ready(): Postgres creates its tables on first use.
AwaitSchema(c) ==
  /\ alive
  /\ call[c].step = "schema"
  /\ CASE schema = "none" -> schema' = "pending" /\ UNCHANGED call
       [] schema = "resolved" -> Go(c, "statement") /\ UNCHANGED schema
       [] schema = "rejected" -> Go(c, "error") /\ UNCHANGED schema
       [] OTHER -> FALSE
  /\ UNCHANGED <<database, reachable, alive, client, tables, stored, memory, history, faults, restarts>>

\* The answer may be lost after the tables were created.
SchemaEnds ==
  /\ alive
  /\ schema = "pending"
  /\ \/ reachable /\ schema' = "resolved" /\ tables' = TRUE /\ UNCHANGED faults
     \/ reachable /\ faults < MaxFaults /\ schema' = "rejected" /\ tables' = TRUE /\ faults' = faults + 1
     \/ ~reachable /\ schema' = "rejected" /\ UNCHANGED <<tables, faults>>
  /\ UNCHANGED <<database, reachable, alive, client, stored, memory, call, history, restarts>>

-----------------------------------------------------------------------------
(* Statements *)

\* Variant with a bug: ON CONFLICT DO NOTHING for a row that exists.
UpsertIgnores(t, q) ==
  CASE q.op = "put" -> IF t.row = 0 THEN [t EXCEPT !.row = q.value] ELSE t
    [] q.op = "increment" -> [t EXCEPT !.hits = @ + 1]
    [] OTHER -> t

\* INSERT ... ON CONFLICT DO UPDATE: the row as given; hits = hits + 1.
Upsert(t, q) ==
  CASE q.op = "put" -> [t EXCEPT !.row = q.value]
    [] q.op = "increment" -> [t EXCEPT !.hits = @ + 1]
    [] OTHER -> t

\* The request is answered: from t, when it reads.
Answers(c, t) ==
  LET q == call[c] IN
  /\ call' = [call EXCEPT ![c].step = "done",
                          ![c].value = CASE q.op = "get" -> t.row
                                         [] q.op = "count" -> t.hits - @
                                         [] OTHER -> @]
  /\ confirmed' = IF q.op = "put" THEN confirmed \cup {q.value} ELSE confirmed
  /\ gone' = IF q.op = "put" THEN gone \cup q.before ELSE gone
  /\ acked' = IF q.op = "increment" THEN acked + 1 ELSE acked
  /\ UNCHANGED <<puts, doubted, reads>>

\* The request fails, though its write may have happened.
Doubt(c) ==
  /\ Go(c, "error")
  /\ doubted' = IF call[c].op = "increment" THEN doubted + 1 ELSE doubted
  /\ UNCHANGED <<puts, confirmed, gone, acked, reads>>

\* One atomic statement over the network: its answer may be lost.
PostgresStatement(c) ==
  /\ alive
  /\ database = "postgres" /\ call[c].step = "statement"
  /\ reachable /\ tables
  /\ stored' = Upsert(stored, call[c])
  /\ \/ Answers(c, stored) /\ UNCHANGED faults
     \/ faults < MaxFaults /\ faults' = faults + 1 /\ Doubt(c)
  /\ UNCHANGED <<database, reachable, alive, connection, tables, memory, restarts>>

\* better-sqlite3 runs a statement within one turn of the event loop: nothing is lost on the way.
SqliteStatement(c) ==
  /\ alive
  /\ database = "sqlite" /\ call[c].step = "statement"
  /\ reachable /\ tables
  /\ stored' = Upsert(stored, call[c])
  /\ Answers(c, stored)
  /\ UNCHANGED <<database, reachable, alive, connection, tables, memory, faults, restarts>>

\* Variant with a bug: a failed statement spoils the client for the requests that follow.
StatementFailsClient(c) ==
  /\ alive
  /\ Sql /\ call[c].step = "statement"
  /\ ~reachable \/ ~tables
  /\ Go(c, "error")
  /\ client' = "rejected"
  /\ UNCHANGED <<database, reachable, alive, schema, tables, stored, memory, history, faults, restarts>>

\* A statement that cannot be carried out fails, and nothing is remembered of it.
StatementFails(c) ==
  /\ alive
  /\ Sql /\ call[c].step = "statement"
  /\ ~reachable \/ ~tables
  /\ Go(c, "error")
  /\ UNCHANGED <<database, reachable, alive, connection, tables, stored, memory, history, faults, restarts>>

\* The disk provider: the copy in memory first, then the whole file of that table, in one turn of the
\* event loop.  A write that fails leaves the file cut short, and the copy ahead of what was answered.
DiskStatement(c) ==
  LET q == call[c] IN
  /\ alive
  /\ database = "disk" /\ q.step = "statement"
  /\ memory' = Upsert(memory, q)
  /\ \/ /\ Answers(c, memory)
        /\ stored' = CASE q.op = "put" -> [stored EXCEPT !.row = memory'.row]
                       [] q.op = "increment" -> [stored EXCEPT !.hits = memory'.hits]
                       [] OTHER -> stored
        /\ UNCHANGED faults
     \/ /\ q.op \in Writes
        /\ faults < MaxFaults /\ faults' = faults + 1
        /\ stored' = IF q.op = "put" THEN [stored EXCEPT !.row = Torn] ELSE [stored EXCEPT !.hits = Torn]
        /\ Doubt(c)
  /\ UNCHANGED <<database, reachable, alive, connection, tables, restarts>>

\* The process ends; a write of the disk provider may be under way, or a statement on its way.
Ends ==
  /\ alive
  /\ restarts < MaxRestarts
  /\ restarts' = restarts + 1
  /\ alive' = FALSE
  /\ call' = [c \in Calls |-> IF c \in InFlight THEN [call[c] EXCEPT !.step = "error"] ELSE call[c]]
  /\ \/ UNCHANGED <<stored, doubted>>
     \/ \E c \in Calls :
          LET q == call[c] IN
          /\ q.step = "statement" /\ q.op \in Writes
          /\ doubted' = IF q.op = "increment" THEN doubted + 1 ELSE doubted
          /\ \/ /\ database = "disk"
                /\ stored' = IF q.op = "put" THEN [stored EXCEPT !.row = Torn] ELSE [stored EXCEPT !.hits = Torn]
             \/ Sql /\ reachable /\ tables /\ stored' = Upsert(stored, q)
  /\ UNCHANGED <<database, reachable, connection, tables, memory, puts, confirmed, gone, acked, reads, faults>>

\* load(): a file that does not parse ends the start of the server.
Load ==
  /\ ~alive
  /\ database = "disk" => Torn \notin {stored.row, stored.hits}
  /\ alive' = TRUE
  /\ client' = "none" /\ schema' = "none"
  /\ memory' = IF database = "disk" THEN stored ELSE memory
  /\ UNCHANGED <<database, reachable, tables, stored, call, history, faults, restarts>>

Outage ==
  /\ reachable
  /\ faults < MaxFaults
  /\ faults' = faults + 1
  /\ reachable' = FALSE
  /\ UNCHANGED <<database, alive, connection, tables, stored, memory, call, history, restarts>>

OutageEnds ==
  /\ ~reachable
  /\ reachable' = TRUE
  /\ UNCHANGED <<database, alive, connection, tables, stored, memory, call, history, faults, restarts>>

Serves(c) ==
  \/ AwaitClient(c) \/ AwaitSchema(c)
  \/ PostgresStatement(c) \/ SqliteStatement(c) \/ StatementFails(c) \/ DiskStatement(c)

DbNext ==
  \/ \E c \in Calls : Serves(c) \/ \E op \in Ops : Query(c, op)
  \/ SqliteOpens \/ PoolOpens \/ SchemaEnds
  \/ Ends \/ Load \/ Outage \/ OutageEnds

\* A running process answers its requests; whether an outage ends is nobody's promise.
DbFairness ==
  /\ WF_dbVars(SqliteOpens \/ PoolOpens) /\ WF_dbVars(SchemaEnds)
  /\ \A c \in Calls : WF_dbVars(Serves(c))

DbSpec == DbInit /\ [][DbNext]_dbVars /\ DbFairness

-----------------------------------------------------------------------------
(* Properties *)

DbTypeOK ==
  /\ database \in Databases
  /\ reachable \in BOOLEAN /\ alive \in BOOLEAN /\ tables \in BOOLEAN
  /\ client \in Promise /\ schema \in Promise
  /\ stored \in [row : 0..MaxWrites \cup {Torn}, hits : Nat \cup {Torn}]
  /\ memory \in [row : 0..MaxWrites, hits : Nat]
  /\ call \in [Calls -> [step : {"idle", "client", "schema", "statement", "done", "error"},
                         op : Ops, value : Int, before : SUBSET (0..MaxWrites)]]
  /\ puts \in 0..MaxWrites /\ confirmed \subseteq 0..MaxWrites /\ gone \subseteq 0..MaxWrites
  /\ acked \in 0..MaxWrites /\ doubted \in Nat /\ reads \in 0..MaxReads
  /\ faults \in 0..MaxFaults /\ restarts \in 0..MaxRestarts

\* What a running server answers from (providers.ts:233-288: the disk provider reads its maps).
Current == IF database = "disk" THEN memory ELSE stored

CountIsHonest == alive => Current.hits \in acked .. (acked + doubted)

ReadsAreCurrent ==
  \A c \in Calls : call[c].step = "done" =>
    /\ call[c].op = "get" => call[c].value \notin call[c].before
    /\ call[c].op = "count" => call[c].value >= 0

TablesComeFirst == \A c \in Calls : Sql /\ call[c].step = "statement" => tables

\* Across lost answers, failed writes and restarts: a running server has every increment it confirmed,
\* and none that nobody asked for (providers.ts:242, postgres-db.ts:150); a read is never told a record
\* that was replaced before it was asked, nor a count below what was confirmed by then (a release that
\* was paused is not read as running, a key that was replaced is not used); and nobody uses a table
\* before it was created, however many first requests arrive together.
ReadsAreHonest == CountIsHonest /\ ReadsAreCurrent /\ TablesComeFirst

\* An outage is over when it is over: once a provider was opened, a request that finds its server
\* reachable is answered, whatever failed in between.  (A provider whose first use met the outage
\* stays unusable until the process is started again: postgres-db.ts:91, sqlite-db.ts:76.)
Opened == alive /\ client = "resolved" /\ (database = "postgres" => schema = "resolved")

Calm == reachable /\ alive /\ faults = MaxFaults /\ restarts = MaxRestarts

RecoversOnceOpened ==
  \A c \in Calls :
    []((Opened /\ restarts = MaxRestarts) =>
         [](Calm /\ call[c].step = "client" => <>(call[c].step = "done")))
=============================================================================
