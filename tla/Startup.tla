------------------------------- MODULE Startup -------------------------------
(***************************************************************************)
(* Processes that start on one database: the commands `db migrate-core`,    *)
(* `db migrate-plugins`, `run` with and without --skip-migrations, and      *)
(* `task create`. They create the schema, run the core migrations, move the *)
(* identity sequences past the rows, apply the SQL files of the plugins     *)
(* under a ledger, load the plugins and insert tasks. Nothing but the       *)
(* transactions of PostgreSQL orders the steps of two processes; a process  *)
(* that fails or is killed is started again.                                *)
(*                                                                          *)
(* Transactions are READ COMMITTED. The first row under a key blocks a      *)
(* second inserter of the key until the first one commits or rolls back.    *)
(***************************************************************************)
EXTENDS PluginPlans

CONSTANTS
    Process,
    Deployments, \* functions from processes to [tree, command]
    Installed,   \* ledgers that earlier releases may have left
    Nobody, NoEntry, NoJob, Unread,
    MaxId,       \* bound: ids handed out by the sequence
    Faults,      \* \subseteq {"crash", "sql", "copy"}
    MaxFaults    \* bound: number of faults

Command == {"core", "plugins", "run", "skip", "create"}

Entry == [order : Nat, sql : Sql]

ASSUME StartupAssumption ==
    /\ Deployments \subseteq [Process -> [tree : Seq(Manifest), command : Command]]
    /\ Installed \subseteq [Name -> Entry \cup {NoEntry}]
    /\ Nobody \notin Process /\ NoEntry \notin Entry
    /\ NoJob \notin Migration /\ Unread \notin Nat
    /\ MaxId \in Nat /\ MaxFaults \in Nat

VARIABLES
    deployed,    \* the release of each process and its command
    schema,      \* the core schema exists
    tables,      \* the core migrations are committed
    keys,        \* names whose plugin_schema_<name> is in settings
    holder,      \* the process that has inserted the key of a name, uncommitted
    ledger,      \* plugin_migrations
    installs,    \* times a file ran on a ledger without entry (history)
    rows,        \* ids of the committed rows of a table
    next,        \* what nextval will return
    pc,          \* where the command of a process is
    left,        \* the migrations it still has to apply
    job,         \* the one whose transaction is open
    seen,        \* what it read in the ledger
    found,       \* the MAX(id) it read
    id,          \* the id of its uncommitted row
    why,         \* the exception that ended it
    quiet,       \* nothing disturbed its last repair of the sequences (history)
    faults

dbVars   == <<schema, tables>>
planVars == <<keys, holder, ledger, installs>>
idVars   == <<rows, next, found, id, quiet>>
ownVars  == <<job, left, seen>>
vars     == <<deployed, dbVars, planVars, idVars, ownVars, pc, why, faults>>

Tree(p)    == deployed[p].tree
Does(p, S) == deployed[p].command \in S

Repairing == {"core sync", "start sync", "heal"}

Inserting == {"insert", "insert again"}

Locations ==
    {"off", "schema", "create", "alembic", "upgrade", "core sync", "collect", "plugin",
     "ledger", "apply", "require", "start sync", "load", "up", "insert", "heal",
     "retry", "insert again", "refused", "failed", "done"}

Reason == {"none", "schema", "tables", "plan", "file", "sql", "conflict", "policy", "code"}

TypeOK ==
    /\ deployed \in [Process -> [tree : Seq(Manifest), command : Command]]
    /\ schema \in BOOLEAN /\ tables \in BOOLEAN
    /\ keys \subseteq Name
    /\ holder \in [Name -> Process \cup {Nobody}]
    /\ ledger \in [Name -> Entry \cup {NoEntry}]
    /\ installs \in [Name -> Nat]
    /\ rows \subseteq 0 .. MaxId
    /\ next \in 1 .. MaxId + 1
    /\ pc \in [Process -> Locations]
    /\ job \in [Process -> Migration \cup {NoJob}]
    /\ left \in [Process -> SUBSET Migration]
    /\ seen \in [Process -> Entry \cup {NoEntry}]
    /\ found \in [Process -> 0 .. MaxId \cup {Unread}]
    /\ id \in [Process -> 0 .. MaxId]
    /\ why \in [Process -> Reason]
    /\ quiet \in [Process -> BOOLEAN]
    /\ faults \in 0 .. MaxFaults

Init ==
    /\ deployed \in Deployments
    /\ ledger \in Installed
    /\ keys = {n \in Name : ledger[n] # NoEntry}
    /\ schema = (keys # {}) /\ tables = (keys # {})
    /\ holder = [n \in Name |-> Nobody]
    /\ installs = [n \in Name |-> IF n \in keys THEN 1 ELSE 0]
    /\ rows = {} /\ next = 1
    /\ pc = [p \in Process |-> "off"]
    /\ job = [p \in Process |-> NoJob]
    /\ left = [p \in Process |-> {}]
    /\ seen = [p \in Process |-> NoEntry]
    /\ found = [p \in Process |-> Unread]
    /\ id = [p \in Process |-> 0]
    /\ quiet = [p \in Process |-> FALSE]
    /\ why = [p \in Process |-> "none"]
    /\ faults = 0

Goto(p, l) == pc' = [pc EXCEPT ![p] = l]

\* An exception: RunnerApp.from_env closes the pool and the engine, the command ends.
Fail(p, reason) == Goto(p, "failed") /\ why' = [why EXCEPT ![p] = reason]

-----------------------------------------------------------------------------
(* Core schema and tables. *)

\* The command of the process begins.
Start(p) ==
    /\ pc[p] = "off"
    /\ Goto(p, CASE Does(p, {"core", "run"})    -> "schema"
                 [] Does(p, {"plugins"})        -> "collect"
                 [] Does(p, {"skip", "create"}) -> "require")
    /\ left' = [left EXCEPT ![p] = {}]
    /\ UNCHANGED <<deployed, dbVars, planVars, idVars, job, seen, why, faults>>

\* Mutant: CREATE SCHEMA whether or not it exists.
LookForNothing(p) ==
    /\ pc[p] = "schema"
    /\ Goto(p, "create")
    /\ UNCHANGED <<deployed, dbVars, planVars, idVars, ownVars, why, faults>>

\* ensure_postgres_schema_sync looks for the schema and creates it in a second
\* statement.
LookForSchema(p) ==
    /\ pc[p] = "schema"
    /\ Goto(p, IF schema THEN "alembic" ELSE "create")
    /\ UNCHANGED <<deployed, dbVars, planVars, idVars, ownVars, why, faults>>

CreateSchema(p) ==
    /\ pc[p] = "create"
    /\ IF schema THEN Fail(p, "schema") ELSE Goto(p, "alembic") /\ UNCHANGED why
    /\ schema' = TRUE
    /\ UNCHANGED <<deployed, tables, planVars, idVars, ownVars, faults>>

\* Alembic reads its version table and then upgrades in one transaction.
ReadVersion(p) ==
    /\ pc[p] = "alembic"
    /\ Goto(p, IF tables THEN "core sync" ELSE "upgrade")
    /\ UNCHANGED <<deployed, dbVars, planVars, idVars, ownVars, why, faults>>

\* Of two such transactions the second one finds the tables of the first.
Upgrade(p) ==
    /\ pc[p] = "upgrade"
    /\ IF tables THEN Fail(p, "tables") ELSE Goto(p, "core sync") /\ UNCHANGED why
    /\ tables' = TRUE
    /\ UNCHANGED <<deployed, schema, planVars, idVars, ownVars, faults>>

\* require_core_tables, without which `run --skip-migrations` and `task create`
\* do not go on.
RequireTables(p) ==
    /\ pc[p] = "require"
    /\ IF ~tables THEN Fail(p, "tables")
       ELSE Goto(p, IF Does(p, {"create"}) THEN "up" ELSE "start sync") /\ UNCHANGED why
    /\ UNCHANGED <<deployed, dbVars, planVars, idVars, ownVars, faults>>

-----------------------------------------------------------------------------
(* Identity sequences. *)

\* MAX(id) of the rows S; 0 stands for NULL.
IsHighest(i, S) == (i = 0 \/ i \in S) /\ \A j \in S : j <= i

\* sync_core_identity_sequences reads MAX(id) of the committed rows ...
ReadHighest(p) ==
    /\ pc[p] \in Repairing /\ found[p] = Unread
    /\ \E i \in 0 .. MaxId : IsHighest(i, rows) /\ found' = [found EXCEPT ![p] = i]
    /\ quiet' = [quiet EXCEPT ![p] = pc[p] = "heal"]
    /\ UNCHANGED <<deployed, dbVars, planVars, rows, next, id, ownVars, pc, why, faults>>

AfterSync(p) ==
    CASE pc[p] = "core sync"  -> IF Does(p, {"run"}) THEN "collect" ELSE "done"
      [] pc[p] = "start sync" -> "load"
      [] pc[p] = "heal"       -> "retry"

\* ... and sets the sequence, which is not part of any transaction.
Disturb(p) == [q \in Process |-> q = p /\ quiet[q]]

\* Mutant: setval(max_id, false), the next id is one that is taken.
SetSequenceAtHighest(p) ==
    /\ pc[p] \in Repairing /\ found[p] # Unread
    /\ next' = IF found[p] = 0 THEN 1 ELSE found[p]
    /\ found' = [found EXCEPT ![p] = Unread]
    /\ quiet' = Disturb(p)
    /\ Goto(p, AfterSync(p))
    /\ UNCHANGED <<deployed, dbVars, planVars, rows, id, ownVars, why, faults>>

SetSequence(p) ==
    /\ pc[p] \in Repairing /\ found[p] # Unread
    /\ next' = found[p] + 1
    /\ found' = [found EXCEPT ![p] = Unread]
    /\ quiet' = Disturb(p)
    /\ Goto(p, AfterSync(p))
    /\ UNCHANGED <<deployed, dbVars, planVars, rows, id, ownVars, why, faults>>

\* An INSERT without id takes the next one; the row is seen after the commit.
TakeId(p) ==
    /\ pc[p] \in {"up", "retry"} /\ next <= MaxId
    /\ id' = [id EXCEPT ![p] = next]
    /\ next' = next + 1
    /\ Goto(p, IF pc[p] = "up" THEN "insert" ELSE "insert again")
    /\ UNCHANGED <<deployed, dbVars, planVars, rows, found, quiet, ownVars, why, faults>>

CommitRow(p) ==
    /\ pc[p] \in Inserting /\ id[p] \notin rows
    /\ rows' = rows \cup {id[p]}
    /\ id' = [id EXCEPT ![p] = 0]
    /\ quiet' = [q \in Process |-> FALSE]
    /\ Goto(p, "up")
    /\ UNCHANGED <<deployed, dbVars, planVars, next, found, ownVars, why, faults>>

\* run_with_identity_sequence_retry: a primary key violation is repaired once.
Violation(p) ==
    /\ pc[p] \in Inserting /\ id[p] \in rows
    /\ id' = [id EXCEPT ![p] = 0]
    /\ Goto(p, IF pc[p] = "insert" THEN "heal" ELSE "refused")
    /\ UNCHANGED <<deployed, dbVars, planVars, rows, next, found, quiet, ownVars, why, faults>>

\* The error reaches the caller, the process goes on.
Surface(p) ==
    /\ pc[p] = "refused"
    /\ Goto(p, "up")
    /\ UNCHANGED <<deployed, dbVars, planVars, idVars, ownVars, why, faults>>

-----------------------------------------------------------------------------
(* SQL files of the plugins, each in a transaction of its own. *)

\* collect_plugin_migration_plans.
Collect(p) ==
    /\ pc[p] = "collect"
    /\ \/ /\ Collects(Tree(p))
          /\ left' = [left EXCEPT ![p] = Plan(Tree(p))]
          /\ Goto(p, "plugin") /\ UNCHANGED why
       \/ ~Collects(Tree(p)) /\ Fail(p, "plan") /\ UNCHANGED left
    /\ UNCHANGED <<deployed, dbVars, planVars, idVars, job, seen, faults>>

\* A file that is missing or is no template is noticed when its turn comes, after
\* the earlier ones were committed.
Unreadable(p) ==
    /\ pc[p] = "plugin"
    /\ \E m \in First(left[p]) :
           /\ ~Readable(m)
           /\ Fail(p, IF m.file.place = "inside" THEN "sql" ELSE "file")
    /\ UNCHANGED <<deployed, dbVars, planVars, idVars, ownVars, faults>>

\* Mutant: the key is written in a transaction of its own, nobody waits.
BeginUnlocked(p) ==
    /\ pc[p] = "plugin" /\ tables
    /\ \E m \in First(left[p]) :
           /\ Readable(m)
           /\ job' = [job EXCEPT ![p] = m]
           /\ left' = [left EXCEPT ![p] = @ \ {m}]
           /\ keys' = keys \cup {m.name}
    /\ Goto(p, "ledger")
    /\ UNCHANGED <<deployed, dbVars, holder, ledger, installs, idVars, seen, why, faults>>

\* persist_plugin_schema: the transaction inserts the key unless it is there, and
\* waits if another transaction has inserted it.
Begin(p) ==
    /\ pc[p] = "plugin" /\ tables
    /\ \E m \in First(left[p]) :
           /\ Readable(m)
           /\ m.name \in keys \/ holder[m.name] = Nobody
           /\ holder' = IF m.name \in keys THEN holder ELSE [holder EXCEPT ![m.name] = p]
           /\ job' = [job EXCEPT ![p] = m]
           /\ left' = [left EXCEPT ![p] = @ \ {m}]
    /\ Goto(p, "ledger")
    /\ UNCHANGED <<deployed, dbVars, keys, ledger, installs, idVars, seen, why, faults>>

NoTables(p) ==
    /\ pc[p] = "plugin" /\ ~tables
    /\ \E m \in First(left[p]) : Readable(m)
    /\ Fail(p, "tables")
    /\ UNCHANGED <<deployed, dbVars, planVars, idVars, ownVars, faults>>

\* Mutant: the order need not grow.
ConflictsIfOlder(e, f) == e # NoEntry /\ e.order > f.order

\* check_plugin_migration_replay.
Conflicts(e, f) ==
    e # NoEntry /\ (e.order > f.order \/ (e.order = f.order /\ e.sql # f.sql))

Skips(e, f) == e # NoEntry /\ e.order <= f.order /\ e.sql = f.sql

Release(p) ==
    /\ holder' = [n \in Name |-> IF holder[n] = p THEN Nobody ELSE holder[n]]
    /\ job' = [job EXCEPT ![p] = NoJob]

Rollback(p) == Release(p) /\ UNCHANGED keys

\* The end of engine.begin(): the key is stored.
Commit(p) == Release(p) /\ keys' = keys \cup {n \in Name : holder[n] = p}

ReadLedger(p) ==
    /\ pc[p] = "ledger"
    /\ LET e == ledger[job[p].name]
           f == job[p].file
       IN  \/ /\ Conflicts(e, f)
              /\ Rollback(p)
              /\ Fail(p, "conflict")
              /\ UNCHANGED seen
           \/ /\ Skips(e, f)
              /\ Commit(p)
              /\ Goto(p, "plugin") /\ UNCHANGED <<seen, why>>
           \/ /\ ~Conflicts(e, f) /\ ~Skips(e, f)
              /\ seen' = [seen EXCEPT ![p] = e]
              /\ Goto(p, "apply") /\ UNCHANGED <<keys, holder, job, why>>
    /\ UNCHANGED <<deployed, dbVars, ledger, installs, idVars, left, faults>>

\* The statements run and the ledger gets the entry; the last writer wins.
Apply(p) ==
    /\ pc[p] = "apply"
    /\ ledger' = [ledger EXCEPT ![job[p].name] =
                     [order |-> job[p].file.order, sql |-> job[p].file.sql]]
    /\ installs' = IF seen[p] = NoEntry
                   THEN [installs EXCEPT ![job[p].name] = @ + 1] ELSE installs
    /\ seen' = [seen EXCEPT ![p] = NoEntry]
    /\ Commit(p)
    /\ Goto(p, "plugin")
    /\ UNCHANGED <<deployed, dbVars, idVars, left, why, faults>>

Applied(p) ==
    /\ pc[p] = "plugin" /\ left[p] = {}
    /\ Goto(p, IF Does(p, {"run"}) THEN "require" ELSE "done")
    /\ UNCHANGED <<deployed, dbVars, planVars, idVars, ownVars, why, faults>>

\* The worker registry, and at least one scenario.
Load(p) ==
    /\ pc[p] = "load"
    /\ IF Loads(Tree(p)) THEN Goto(p, "up") /\ UNCHANGED why
       ELSE Fail(p, IF PoliciesAccept(Tree(p)) THEN "code" ELSE "policy")
    /\ UNCHANGED <<deployed, dbVars, planVars, idVars, ownVars, faults>>

-----------------------------------------------------------------------------
(* Faults, and starting again. *)

Fault(kind) == kind \in Faults /\ faults < MaxFaults /\ faults' = faults + 1

\* A statement of a plugin file fails.
SqlFails(p) ==
    /\ pc[p] = "apply" /\ Fault("sql")
    /\ Rollback(p)
    /\ Fail(p, "sql")
    /\ seen' = [seen EXCEPT ![p] = NoEntry]
    /\ UNCHANGED <<deployed, dbVars, ledger, installs, idVars, left>>

\* The process is killed; PostgreSQL rolls its transaction back.
Crash(p) ==
    /\ pc[p] \notin {"off", "failed", "done"} /\ Fault("crash")
    /\ Rollback(p)
    /\ found' = [found EXCEPT ![p] = Unread]
    /\ id' = [id EXCEPT ![p] = 0]
    /\ seen' = [seen EXCEPT ![p] = NoEntry]
    /\ Goto(p, "off")
    /\ UNCHANGED <<deployed, dbVars, ledger, installs, rows, next, quiet, left, why>>

\* The supervisor or the operator runs the command again.
Restart(p) ==
    /\ pc[p] = "failed"
    /\ Goto(p, "off")
    /\ why' = [why EXCEPT ![p] = "none"]
    /\ UNCHANGED <<deployed, dbVars, planVars, idVars, ownVars, faults>>

\* A host copies a row with an explicit id.
Copy ==
    /\ tables /\ Fault("copy")
    /\ \E k \in 1 .. MaxId :
           /\ \A p \in Process : pc[p] \in Inserting => id[p] # k
           /\ k \notin rows
           /\ rows' = rows \cup {k}
    /\ quiet' = [p \in Process |-> FALSE]
    /\ UNCHANGED <<deployed, dbVars, planVars, next, found, id, ownVars, pc, why>>

-----------------------------------------------------------------------------

\* What a process does by itself once it was started.
Progress(p) ==
    \/ Start(p) \/ LookForSchema(p) \/ CreateSchema(p) \/ ReadVersion(p) \/ Upgrade(p)
    \/ Collect(p) \/ Unreadable(p) \/ NoTables(p) \/ Begin(p) \/ ReadLedger(p) \/ Apply(p)
    \/ Applied(p) \/ RequireTables(p) \/ ReadHighest(p) \/ SetSequence(p) \/ Load(p)
    \/ CommitRow(p) \/ Violation(p) \/ Surface(p) \/ Restart(p)

Next ==
    \/ \E p \in Process : Progress(p) \/ TakeId(p) \/ SqlFails(p) \/ Crash(p)
    \/ Copy

Spec == Init /\ [][Next]_vars

\* Coroutines go on, locks are granted, failed processes are started again.
FairSpec == Spec /\ \A p \in Process : WF_vars(Progress(p))
=============================================================================
