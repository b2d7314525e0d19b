---------------------------- MODULE StartupProofs ----------------------------
(* Proofs about Startup, for every value of its constants: any number of       *)
(* processes, deployments, plugins, ids and faults.                            *)
EXTENDS StartupProperties, PluginPlanProofs, TLAPS

-----------------------------------------------------------------------------
(* Types. *)

LEMMA PlanTyped ==
    ASSUME TypeOK, NEW p \in Process
    PROVE  Plan(Tree(p)) \subseteq Migration
<1>1. Tree(p) \in Seq(Manifest)
  BY DEF TypeOK, Tree
<1>2. \A i \in DOMAIN Tree(p) : Tree(p)[i] \in Manifest
  BY <1>1
<1>3. \A m \in Manifest : m.name \in Name /\ (m.file # NoFile => m.file \in File)
  BY DEF Manifest
<1>4. QED
  BY <1>2, <1>3 DEF Plan, FilesOf, Migration

LEMMA FirstOf == ASSUME NEW S, NEW m \in First(S) PROVE m \in S
BY DEF First

LEMMA InitTyped == StartupAssumption /\ Init => TypeOK
<1> SUFFICES ASSUME StartupAssumption, Init PROVE TypeOK
  OBVIOUS
<1>1. ledger \in [Name -> Entry \cup {NoEntry}]
  BY DEF Init, StartupAssumption
<1>2. deployed \in [Process -> [tree : Seq(Manifest), command : Command]]
  BY DEF Init, StartupAssumption
<1>3. QED
  BY <1>1, <1>2 DEF Init, StartupAssumption, TypeOK, Locations, Reason

LEMMA FaultTyped ==
    ASSUME StartupAssumption, TypeOK, NEW kind, Fault(kind)
    PROVE  faults' \in 0 .. MaxFaults
BY DEF StartupAssumption, TypeOK, Fault

LEMMA FailTyped ==
    ASSUME TypeOK, NEW p \in Process, NEW r \in Reason, Fail(p, r)
    PROVE  pc' \in [Process -> Locations] /\ why' \in [Process -> Reason]
<1>1. pc \in [Process -> Locations] /\ why \in [Process -> Reason]
  BY DEF TypeOK
<1>2. "failed" \in Locations
  BY DEF Locations
<1>3. QED
  BY <1>1, <1>2 DEF Fail, Goto

\* A step of the commands on the core schema moves on or fails.
LEMMA CoreTyped ==
    ASSUME StartupAssumption, TypeOK, NEW p \in Process,
           \/ Start(p) \/ LookForSchema(p) \/ CreateSchema(p) \/ ReadVersion(p)
           \/ Upgrade(p) \/ RequireTables(p)
    PROVE  TypeOK'
<1>1. {"schema", "collect", "require", "alembic", "create", "core sync", "upgrade", "up",
       "start sync"} \subseteq Locations
      /\ {"schema", "tables"} \subseteq Reason
  BY DEF Locations, Reason
<1>2. /\ pc \in [Process -> Locations] /\ why \in [Process -> Reason]
      /\ left \in [Process -> SUBSET Migration]
      /\ deployed \in [Process -> [tree : Seq(Manifest), command : Command]]
  BY DEF TypeOK
<1>3. ASSUME NEW l \in Locations, Goto(p, l) PROVE pc' \in [Process -> Locations]
  BY <1>2, <1>3 DEF Goto
<1>4. ASSUME NEW r \in Reason, Fail(p, r)
      PROVE  pc' \in [Process -> Locations] /\ why' \in [Process -> Reason]
  BY <1>4, FailTyped
<1>5. ASSUME pc' \in [Process -> Locations], why' \in [Process -> Reason],
             schema' \in BOOLEAN, tables' \in BOOLEAN, left' \in [Process -> SUBSET Migration],
             UNCHANGED <<deployed, planVars, idVars, job, seen, faults>>
      PROVE  TypeOK'
  BY <1>5 DEF TypeOK, planVars, idVars
<1>6. CASE Start(p)
  <2>1. PICK l \in {"schema", "collect", "require"} : Goto(p, l)
    <3>1. deployed[p].command \in Command
      BY <1>2
    <3>2. QED
      BY <1>6, <3>1 DEF Start, Does, Command
  <2>2. left' \in [Process -> SUBSET Migration]
    BY <1>2, <1>6 DEF Start
  <2>3. pc' \in [Process -> Locations]
    BY <1>1, <1>3, <2>1
  <2>4. QED
    BY <1>2, <1>5, <1>6, <2>2, <2>3 DEF Start, TypeOK, dbVars
<1>7. CASE LookForSchema(p) \/ ReadVersion(p)
  <2>1. PICK l \in {"alembic", "create", "core sync", "upgrade"} : Goto(p, l)
    BY <1>7 DEF LookForSchema, ReadVersion
  <2>2. pc' \in [Process -> Locations]
    BY <1>1, <1>3, <2>1
  <2>3. QED
    BY <1>2, <1>5, <1>7, <2>2 DEF LookForSchema, ReadVersion, TypeOK, dbVars, ownVars
<1>8. CASE CreateSchema(p) \/ Upgrade(p)
  <2>1. \/ \E l \in {"alembic", "core sync"} : Goto(p, l) /\ UNCHANGED why
        \/ \E r \in {"schema", "tables"} : Fail(p, r)
    BY <1>8 DEF CreateSchema, Upgrade
  <2>2. pc' \in [Process -> Locations] /\ why' \in [Process -> Reason]
    BY <1>1, <1>2, <1>3, <1>4, <2>1
  <2>3. QED
    BY <1>2, <1>5, <1>8, <2>2 DEF CreateSchema, Upgrade, TypeOK, ownVars
<1>9. CASE RequireTables(p)
  <2>1. \/ \E l \in {"up", "start sync"} : Goto(p, l) /\ UNCHANGED why
        \/ Fail(p, "tables")
    BY <1>9 DEF RequireTables
  <2>2. pc' \in [Process -> Locations] /\ why' \in [Process -> Reason]
    BY <1>1, <1>2, <1>3, <1>4, <2>1
  <2>3. QED
    BY <1>2, <1>5, <1>9, <2>2 DEF RequireTables, TypeOK, dbVars, ownVars
<1>10. QED
  BY <1>6, <1>7, <1>8, <1>9

LEMMA SequenceTyped ==
    ASSUME StartupAssumption, TypeOK, NEW p \in Process,
           \/ ReadHighest(p) \/ SetSequence(p) \/ TakeId(p) \/ CommitRow(p)
           \/ Violation(p) \/ Surface(p)
    PROVE  TypeOK'
<1>1. /\ MaxId \in Nat /\ Unread \notin Nat
      /\ next \in 1 .. MaxId + 1
      /\ rows \subseteq 0 .. MaxId
      /\ id \in [Process -> 0 .. MaxId]
      /\ found \in [Process -> 0 .. MaxId \cup {Unread}]
      /\ quiet \in [Process -> BOOLEAN]
      /\ pc \in [Process -> Locations]
  BY DEF StartupAssumption, TypeOK
<1>2. ASSUME next' \in 1 .. MaxId + 1, rows' \subseteq 0 .. MaxId,
             id' \in [Process -> 0 .. MaxId],
             found' \in [Process -> 0 .. MaxId \cup {Unread}],
             quiet' \in [Process -> BOOLEAN],
             pc' \in [Process -> Locations],
             UNCHANGED <<deployed, dbVars, planVars, ownVars, why, faults>>
      PROVE  TypeOK'
  BY <1>2 DEF TypeOK, dbVars, planVars, ownVars
<1>3. {"core sync", "start sync", "heal", "up", "refused", "insert", "insert again",
       "collect", "done", "load", "retry"} \subseteq Locations
  BY DEF Locations
<1> USE DEF Goto
<1>4. CASE ReadHighest(p)
  <2>1. found' \in [Process -> 0 .. MaxId \cup {Unread}]
    BY <1>1, <1>4 DEF ReadHighest
  <2>2. quiet' \in [Process -> BOOLEAN]
    BY <1>1, <1>4 DEF ReadHighest
  <2>3. QED
    BY <1>1, <1>2, <1>4, <2>1, <2>2 DEF ReadHighest
<1>5. CASE SetSequence(p)
  <2>1. found[p] \in 0 .. MaxId
    BY <1>1, <1>5 DEF SetSequence
  <2>2. next' = found[p] + 1
    BY <1>5 DEF SetSequence
  <2>3. next' \in 1 .. MaxId + 1
    BY <1>1, <2>1, <2>2
  <2>4. AfterSync(p) \in Locations
    BY <1>3, <1>5 DEF SetSequence, AfterSync, Repairing
  <2>5. pc' \in [Process -> Locations]
    BY <1>1, <1>5, <2>4 DEF SetSequence
  <2>6. quiet' \in [Process -> BOOLEAN]
    BY <1>1, <1>5 DEF SetSequence, Disturb
  <2>7. found' \in [Process -> 0 .. MaxId \cup {Unread}]
    BY <1>1, <1>5 DEF SetSequence
  <2>8. QED
    BY <1>1, <1>2, <1>5, <2>3, <2>5, <2>6, <2>7 DEF SetSequence
<1>6. CASE TakeId(p)
  <2>1. next <= MaxId /\ next' = next + 1 /\ id' = [id EXCEPT ![p] = next]
    BY <1>6 DEF TakeId
  <2>2. next \in 0 .. MaxId /\ next' \in 1 .. MaxId + 1
    BY <1>1, <2>1
  <2>3. id' \in [Process -> 0 .. MaxId]
    BY <1>1, <2>1, <2>2
  <2>4. pc' \in [Process -> Locations]
    BY <1>1, <1>3, <1>6 DEF TakeId
  <2>5. QED
    BY <1>1, <1>2, <1>6, <2>2, <2>3, <2>4 DEF TakeId
<1>7. CASE CommitRow(p)
  <2>1. 0 \in 0 .. MaxId
    BY <1>1
  <2>2. id' \in [Process -> 0 .. MaxId]
    BY <1>1, <1>7, <2>1 DEF CommitRow
  <2>3. rows' \subseteq 0 .. MaxId
    <3>1. id[p] \in 0 .. MaxId /\ rows' = rows \cup {id[p]}
      BY <1>1, <1>7 DEF CommitRow
    <3>2. QED
      BY <1>1, <3>1
  <2>4. pc' \in [Process -> Locations]
    BY <1>1, <1>3, <1>7 DEF CommitRow
  <2>5. quiet' \in [Process -> BOOLEAN]
    BY <1>7 DEF CommitRow
  <2>6. QED
    BY <1>1, <1>2, <1>7, <2>2, <2>3, <2>4, <2>5 DEF CommitRow
<1>8. CASE Violation(p)
  <2>1. 0 \in 0 .. MaxId
    BY <1>1
  <2>2. id' \in [Process -> 0 .. MaxId]
    BY <1>1, <1>8, <2>1 DEF Violation
  <2>3. pc' \in [Process -> Locations]
    BY <1>1, <1>3, <1>8 DEF Violation
  <2>4. QED
    BY <1>1, <1>2, <1>8, <2>2, <2>3 DEF Violation
<1>9. CASE Surface(p)
  BY <1>1, <1>2, <1>3, <1>9 DEF Surface, idVars
<1>10. QED
  BY <1>4, <1>5, <1>6, <1>7, <1>8, <1>9

\* What the steps between the collection and the ledger leave to be checked.
LEMMA PlanStepTyped ==
    ASSUME TypeOK,
           keys' \subseteq Name,
           holder' \in [Name -> Process \cup {Nobody}],
           ledger' \in [Name -> Entry \cup {NoEntry}],
           installs' \in [Name -> Nat],
           job' \in [Process -> Migration \cup {NoJob}],
           left' \in [Process -> SUBSET Migration],
           seen' \in [Process -> Entry \cup {NoEntry}],
           pc' \in [Process -> Locations],
           why' \in [Process -> Reason],
           faults' \in 0 .. MaxFaults,
           UNCHANGED <<deployed, dbVars, idVars>>
    PROVE  TypeOK'
BY DEF TypeOK, dbVars, idVars

\* The ends of a transaction.
LEMMA ReleaseTyped ==
    ASSUME TypeOK, NEW p \in Process, Rollback(p) \/ Commit(p)
    PROVE  /\ keys' \subseteq Name
           /\ holder' \in [Name -> Process \cup {Nobody}]
           /\ job' \in [Process -> Migration \cup {NoJob}]
<1>1. /\ keys \subseteq Name /\ holder \in [Name -> Process \cup {Nobody}]
      /\ job \in [Process -> Migration \cup {NoJob}]
  BY DEF TypeOK
<1>2. QED
  BY <1>1 DEF Rollback, Commit, Release

\* A transaction belongs to a file.
JobKnown == \A p \in Process : pc[p] \in {"ledger", "apply"} => job[p] \in Migration

LEMMA JobName ==
    ASSUME JobKnown, NEW p \in Process, pc[p] \in {"ledger", "apply"}
    PROVE  /\ job[p].name \in Name
           /\ [order |-> job[p].file.order, sql |-> job[p].file.sql] \in Entry
<1>1. job[p] \in Migration
  BY DEF JobKnown
<1>2. job[p].name \in Name /\ job[p].file \in File
  BY <1>1 DEF Migration
<1>3. QED
  BY <1>2 DEF File, Entry

LEMMA PluginTyped ==
    ASSUME StartupAssumption, TypeOK, JobKnown, NEW p \in Process,
           \/ Collect(p) \/ Unreadable(p) \/ NoTables(p) \/ Begin(p) \/ ReadLedger(p)
           \/ Apply(p) \/ Applied(p) \/ Load(p)
    PROVE  TypeOK'
<1>1. /\ keys \subseteq Name /\ holder \in [Name -> Process \cup {Nobody}]
      /\ ledger \in [Name -> Entry \cup {NoEntry}] /\ installs \in [Name -> Nat]
      /\ job \in [Process -> Migration \cup {NoJob}]
      /\ left \in [Process -> SUBSET Migration]
      /\ seen \in [Process -> Entry \cup {NoEntry}]
      /\ pc \in [Process -> Locations] /\ why \in [Process -> Reason]
      /\ faults \in 0 .. MaxFaults
  BY DEF TypeOK
<1>2. /\ {"ledger", "apply", "plugin", "require", "done", "up"} \subseteq Locations
      /\ {"plan", "file", "sql", "conflict", "tables", "code", "policy"} \subseteq Reason
  BY DEF Locations, Reason
<1>3. CASE Collect(p)
  <2>1. CASE left' = [left EXCEPT ![p] = Plan(Tree(p))] /\ Goto(p, "plugin") /\ UNCHANGED why
    <3>1. left' \in [Process -> SUBSET Migration]
      <4>1. Plan(Tree(p)) \in SUBSET Migration
        BY PlanTyped
      <4>2. QED
        BY <1>1, <2>1, <4>1
    <3>2. pc' \in [Process -> Locations]
      BY <1>1, <1>2, <2>1 DEF Goto
    <3>3. QED
      BY <1>1, <1>3, <2>1, <3>1, <3>2, PlanStepTyped DEF Collect, planVars
  <2>2. CASE Fail(p, "plan") /\ UNCHANGED left
    <3>1. pc' \in [Process -> Locations] /\ why' \in [Process -> Reason]
      BY <1>2, <2>2, FailTyped
    <3>2. QED
      BY <1>1, <1>3, <2>2, <3>1, PlanStepTyped DEF Collect, planVars
  <2>3. QED
    BY <1>3, <2>1, <2>2 DEF Collect
<1>4. CASE Unreadable(p)
  <2>1. pc' \in [Process -> Locations] /\ why' \in [Process -> Reason]
    BY <1>2, <1>4, FailTyped DEF Unreadable
  <2>2. QED
    BY <1>1, <1>4, <2>1, PlanStepTyped DEF Unreadable, planVars, ownVars
<1>5. CASE NoTables(p)
  <2>1. pc' \in [Process -> Locations] /\ why' \in [Process -> Reason]
    BY <1>2, <1>5, FailTyped DEF NoTables
  <2>2. QED
    BY <1>1, <1>5, <2>1, PlanStepTyped DEF NoTables, planVars, ownVars
<1>6. CASE Begin(p)
  <2>1. PICK m \in First(left[p]) :
            /\ holder' = IF m.name \in keys THEN holder ELSE [holder EXCEPT ![m.name] = p]
            /\ job' = [job EXCEPT ![p] = m]
            /\ left' = [left EXCEPT ![p] = @ \ {m}]
    BY <1>6 DEF Begin
  <2>2. m \in Migration
    BY <1>1, FirstOf
  <2>3. m.name \in Name
    BY <2>2 DEF Migration
  <2>4. holder' \in [Name -> Process \cup {Nobody}]
    BY <1>1, <2>1, <2>3
  <2>5. job' \in [Process -> Migration \cup {NoJob}] /\ left' \in [Process -> SUBSET Migration]
    BY <1>1, <2>1, <2>2
  <2>6. pc' \in [Process -> Locations]
    BY <1>1, <1>2, <1>6 DEF Begin, Goto
  <2>7. QED
    BY <1>1, <1>6, <2>4, <2>5, <2>6, PlanStepTyped DEF Begin
<1>7. CASE ReadLedger(p)
  <2> DEFINE e == ledger[job[p].name]
             f == job[p].file
  <2>1. CASE Conflicts(e, f) /\ Rollback(p) /\ Fail(p, "conflict") /\ UNCHANGED seen
    <3>1. pc' \in [Process -> Locations] /\ why' \in [Process -> Reason]
      BY <1>2, <2>1, FailTyped
    <3>2. QED
      BY <1>1, <1>7, <2>1, <3>1, ReleaseTyped, PlanStepTyped DEF ReadLedger
  <2>2. CASE Skips(e, f) /\ Commit(p) /\ Goto(p, "plugin") /\ UNCHANGED <<seen, why>>
    <3>1. pc' \in [Process -> Locations]
      BY <1>1, <1>2, <2>2 DEF Goto
    <3>2. QED
      BY <1>1, <1>7, <2>2, <3>1, ReleaseTyped, PlanStepTyped DEF ReadLedger
  <2>3. CASE /\ seen' = [seen EXCEPT ![p] = e] /\ Goto(p, "apply")
             /\ UNCHANGED <<keys, holder, job, why>> /\ ~Conflicts(e, f) /\ ~Skips(e, f)
    <3>1. pc' \in [Process -> Locations]
      BY <1>1, <1>2, <2>3 DEF Goto
    <3>2. job[p].name \in Name
      BY <1>7, JobName DEF ReadLedger
    <3>3. seen' \in [Process -> Entry \cup {NoEntry}]
      BY <1>1, <2>3, <3>2
    <3>4. QED
      BY <1>1, <1>7, <2>3, <3>1, <3>3, PlanStepTyped DEF ReadLedger
  <2>4. QED
    BY <1>7, <2>1, <2>2, <2>3 DEF ReadLedger
<1>8. CASE Apply(p)
  <2>1. /\ job[p].name \in Name
        /\ [order |-> job[p].file.order, sql |-> job[p].file.sql] \in Entry
    BY <1>8, JobName DEF Apply
  <2>2. ledger' \in [Name -> Entry \cup {NoEntry}]
    BY <1>1, <1>8, <2>1 DEF Apply
  <2>3. installs' \in [Name -> Nat]
    BY <1>1, <1>8, <2>1 DEF Apply
  <2>4. seen' \in [Process -> Entry \cup {NoEntry}]
    BY <1>1, <1>8 DEF Apply
  <2>5. pc' \in [Process -> Locations]
    BY <1>1, <1>2, <1>8 DEF Apply, Goto
  <2>6. QED
    BY <1>1, <1>8, <2>2, <2>3, <2>4, <2>5, ReleaseTyped, PlanStepTyped DEF Apply
<1>9. CASE Applied(p)
  <2>1. pc' \in [Process -> Locations]
    BY <1>1, <1>2, <1>9 DEF Applied, Goto
  <2>2. QED
    BY <1>1, <1>9, <2>1, PlanStepTyped DEF Applied, planVars, ownVars
<1>10. CASE Load(p)
  <2>1. pc' \in [Process -> Locations] /\ why' \in [Process -> Reason]
    <3>1. CASE Goto(p, "up") /\ UNCHANGED why
      BY <1>1, <1>2, <3>1 DEF Goto
    <3>2. CASE Fail(p, IF PoliciesAccept(Tree(p)) THEN "code" ELSE "policy")
      BY <1>2, <3>2, FailTyped
    <3>3. QED
      BY <1>10, <3>1, <3>2 DEF Load
  <2>2. QED
    BY <1>1, <1>10, <2>1, PlanStepTyped DEF Load, planVars, ownVars
<1>11. QED
  BY <1>3, <1>4, <1>5, <1>6, <1>7, <1>8, <1>9, <1>10

LEMMA FaultsTyped ==
    ASSUME StartupAssumption, TypeOK,
           \/ \E p \in Process : SqlFails(p) \/ Crash(p) \/ Restart(p)
           \/ Copy
    PROVE  TypeOK'
<1>1. /\ keys \subseteq Name /\ holder \in [Name -> Process \cup {Nobody}]
      /\ ledger \in [Name -> Entry \cup {NoEntry}] /\ installs \in [Name -> Nat]
      /\ job \in [Process -> Migration \cup {NoJob}]
      /\ left \in [Process -> SUBSET Migration]
      /\ seen \in [Process -> Entry \cup {NoEntry}]
      /\ pc \in [Process -> Locations] /\ why \in [Process -> Reason]
      /\ faults \in 0 .. MaxFaults
  BY DEF TypeOK
<1>2. "off" \in Locations /\ {"sql", "none"} \subseteq Reason
  BY DEF Locations, Reason
<1>3. MaxId \in Nat
  BY DEF StartupAssumption
<1>4. ASSUME NEW p \in Process, SqlFails(p) PROVE TypeOK'
  <2>1. pc' \in [Process -> Locations] /\ why' \in [Process -> Reason]
    BY <1>2, <1>4, FailTyped DEF SqlFails
  <2>2. seen' \in [Process -> Entry \cup {NoEntry}]
    BY <1>1, <1>4 DEF SqlFails
  <2>3. faults' \in 0 .. MaxFaults
    BY <1>4, FaultTyped DEF SqlFails
  <2>4. QED
    BY <1>1, <1>4, <2>1, <2>2, <2>3, ReleaseTyped, PlanStepTyped DEF SqlFails
<1>5. ASSUME NEW p \in Process, Crash(p) PROVE TypeOK'
  <2>1. pc' \in [Process -> Locations] /\ seen' \in [Process -> Entry \cup {NoEntry}]
    BY <1>1, <1>2, <1>5 DEF Crash, Goto
  <2>2. faults' \in 0 .. MaxFaults
    BY <1>5, FaultTyped DEF Crash
  <2>3. id \in [Process -> 0 .. MaxId] /\ found \in [Process -> 0 .. MaxId \cup {Unread}]
    BY DEF TypeOK
  <2>4. id' \in [Process -> 0 .. MaxId]
    <3>1. 0 \in 0 .. MaxId
      BY <1>3
    <3>2. QED
      BY <1>5, <2>3, <3>1 DEF Crash
  <2>5. found' \in [Process -> 0 .. MaxId \cup {Unread}]
    BY <1>5, <2>3 DEF Crash
  <2>6. /\ keys' \subseteq Name /\ holder' \in [Name -> Process \cup {Nobody}]
        /\ job' \in [Process -> Migration \cup {NoJob}]
    BY <1>5, ReleaseTyped DEF Crash
  <2>7. UNCHANGED <<deployed, dbVars, ledger, installs, rows, next, quiet, left, why>>
    BY <1>5 DEF Crash
  <2>8. QED
    BY <2>1, <2>2, <2>4, <2>5, <2>6, <2>7 DEF TypeOK, dbVars
<1>6. ASSUME NEW p \in Process, Restart(p) PROVE TypeOK'
  <2>1. pc' \in [Process -> Locations] /\ why' \in [Process -> Reason]
    BY <1>1, <1>2, <1>6 DEF Restart, Goto
  <2>2. QED
    BY <1>1, <1>6, <2>1, PlanStepTyped DEF Restart, planVars, ownVars
<1>7. CASE Copy
  <2>1. rows' \subseteq 0 .. MaxId
    <3>1. PICK k \in 1 .. MaxId : rows' = rows \cup {k}
      BY <1>7 DEF Copy
    <3>2. k \in 0 .. MaxId /\ rows \subseteq 0 .. MaxId
      BY <1>3 DEF TypeOK
    <3>3. QED
      BY <3>1, <3>2
  <2>2. faults' \in 0 .. MaxFaults
    BY <1>7, FaultTyped DEF Copy
  <2>3. quiet' \in [Process -> BOOLEAN]
    BY <1>7 DEF Copy
  <2>4. UNCHANGED <<deployed, dbVars, planVars, next, found, id, ownVars, pc, why>>
    BY <1>7 DEF Copy
  <2>5. QED
    BY <2>1, <2>2, <2>3, <2>4 DEF TypeOK, dbVars, planVars, ownVars
<1>8. QED
  BY <1>4, <1>5, <1>6, <1>7

-----------------------------------------------------------------------------
(* One installation. The key of a plugin is the lock: a transaction that found *)
(* no entry in the ledger has inserted the key itself, and until it ends nobody *)
(* else gets past Begin for that name.                                          *)

InTransaction == {"ledger", "apply"}

Locked ==
    /\ \A p \in Process :
           /\ pc[p] \in InTransaction => job[p].name \in keys \/ holder[job[p].name] = p
           /\ pc[p] = "apply" => (seen[p] = NoEntry <=> job[p].name \notin keys)
    /\ \A n \in Name, p \in Process : holder[n] = p =>
           pc[p] \in InTransaction /\ job[p].name = n /\ n \notin keys
    /\ \A n \in Name :
           /\ n \in keys <=> ledger[n] # NoEntry
           /\ installs[n] = IF n \in keys THEN 1 ELSE 0

Inv == TypeOK /\ JobKnown /\ Locked

LEMMA InitInv == StartupAssumption /\ Init => Inv
<1> SUFFICES ASSUME StartupAssumption, Init PROVE Inv
  OBVIOUS
<1>1. TypeOK
  BY InitTyped
<1>2. \A p \in Process : pc[p] = "off"
  BY DEF Init
<1>3. \A n \in Name : holder[n] \notin Process
  BY DEF Init, StartupAssumption
<1>4. \A n \in Name : (n \in keys <=> ledger[n] # NoEntry)
                      /\ installs[n] = IF n \in keys THEN 1 ELSE 0
  BY DEF Init
<1>5. QED
  BY <1>1, <1>2, <1>3, <1>4 DEF Inv, JobKnown, Locked, InTransaction

\* A step outside the transactions.
LEMMA Outside ==
    ASSUME Inv, UNCHANGED <<planVars, job, seen>>,
           \A q \in Process : pc[q] \in InTransaction \/ pc'[q] \in InTransaction
                                  => pc'[q] = pc[q]
    PROVE  JobKnown' /\ Locked'
<1>1. JobKnown'
  BY DEF Inv, JobKnown, InTransaction
<1>2. Locked'
  BY DEF Inv, Locked, InTransaction, planVars
<1>3. QED
  BY <1>1, <1>2

LEMMA Moves ==
    ASSUME TypeOK, NEW p \in Process, NEW l, Goto(p, l), pc[p] \notin InTransaction,
           l \notin InTransaction
    PROVE  \A q \in Process : pc[q] \in InTransaction \/ pc'[q] \in InTransaction
                                  => pc'[q] = pc[q]
BY DEF TypeOK, Goto

\* A rollback gives the key up.
LEMMA RollbackInv ==
    ASSUME StartupAssumption, Inv, NEW p \in Process, Rollback(p),
           NEW l, Goto(p, l), l \notin InTransaction,
           UNCHANGED <<ledger, installs>>,
           \A q \in Process : q # p => seen'[q] = seen[q]
    PROVE  JobKnown' /\ Locked'
<1>1. /\ \A q \in Process : q # p => pc'[q] = pc[q] /\ job'[q] = job[q]
      /\ pc'[p] = l /\ keys' = keys
      /\ \A n \in Name : holder'[n] = IF holder[n] = p THEN Nobody ELSE holder[n]
  BY DEF Inv, TypeOK, Goto, Rollback, Release
<1>2. Nobody \notin Process
  BY DEF StartupAssumption
<1>3. JobKnown'
  BY <1>1 DEF Inv, JobKnown, InTransaction
<1>4. \A n \in Name, q \in Process : holder'[n] = q => holder[n] = q /\ q # p
  BY <1>1, <1>2
<1>5. \A n \in Name, q \in Process : holder'[n] = q =>
          pc'[q] \in InTransaction /\ job'[q].name = n /\ n \notin keys'
  BY <1>1, <1>4 DEF Inv, Locked
<1>6. ASSUME NEW q \in Process, pc'[q] \in InTransaction
      PROVE  /\ job'[q].name \in keys' \/ holder'[job'[q].name] = q
             /\ pc'[q] = "apply" => (seen'[q] = NoEntry <=> job'[q].name \notin keys')
  <2>1. q # p /\ pc[q] \in InTransaction /\ job'[q] = job[q] /\ pc'[q] = pc[q]
    BY <1>1, <1>6
  <2>2. job[q].name \in Name
    BY <2>1, JobName DEF Inv, InTransaction
  <2>3. job[q].name \in keys \/ holder[job[q].name] = q
    BY <2>1 DEF Inv, Locked
  <2>4. pc[q] = "apply" => (seen[q] = NoEntry <=> job[q].name \notin keys)
    BY DEF Inv, Locked
  <2>5. QED
    BY <1>1, <2>1, <2>2, <2>3, <2>4
<1>7. \A n \in Name : (n \in keys' <=> ledger'[n] # NoEntry)
                      /\ installs'[n] = IF n \in keys' THEN 1 ELSE 0
  BY <1>1 DEF Inv, Locked
<1>8. Locked'
  BY <1>5, <1>6, <1>7 DEF Locked, InTransaction
<1>9. QED
  BY <1>3, <1>8

LEMMA BeginInv ==
    ASSUME StartupAssumption, Inv, NEW p \in Process, Begin(p)
    PROVE  JobKnown' /\ Locked'
<1>1. PICK m \in First(left[p]) :
          /\ m.name \in keys \/ holder[m.name] = Nobody
          /\ holder' = IF m.name \in keys THEN holder ELSE [holder EXCEPT ![m.name] = p]
          /\ job' = [job EXCEPT ![p] = m]
  BY DEF Begin
<1>2. m \in Migration /\ m.name \in Name
  <2>1. m \in Migration
    BY FirstOf DEF Inv, TypeOK
  <2>2. QED
    BY <2>1 DEF Migration
<1>3. /\ pc[p] = "plugin" /\ UNCHANGED <<keys, ledger, installs, seen>>
      /\ pc'[p] = "ledger" /\ job'[p] = m
      /\ \A q \in Process : q # p => pc'[q] = pc[q] /\ job'[q] = job[q]
  BY <1>1 DEF Begin, Goto, Inv, TypeOK
<1>4. Nobody \notin Process
  BY DEF StartupAssumption
<1>5. JobKnown'
  BY <1>2, <1>3 DEF Inv, JobKnown
<1>6. \A n \in Name : holder'[n] = IF n = m.name /\ n \notin keys THEN p ELSE holder[n]
  BY <1>1, <1>2 DEF Inv, TypeOK
<1>7. \A n \in Name : holder[n] # p
  BY <1>3 DEF Inv, Locked, InTransaction
<1>8. \A n \in Name, q \in Process : holder'[n] = q =>
          pc'[q] \in InTransaction /\ job'[q].name = n /\ n \notin keys'
  <2> SUFFICES ASSUME NEW n \in Name, NEW q \in Process, holder'[n] = q
               PROVE  pc'[q] \in InTransaction /\ job'[q].name = n /\ n \notin keys'
    OBVIOUS
  <2>1. CASE n = m.name /\ n \notin keys
    BY <1>3, <1>6, <2>1 DEF InTransaction
  <2>2. CASE ~(n = m.name /\ n \notin keys)
    <3>1. holder[n] = q /\ q # p
      BY <1>6, <1>7, <2>2
    <3>2. QED
      BY <1>3, <3>1 DEF Inv, Locked
  <2>3. QED
    BY <2>1, <2>2
<1>9. ASSUME NEW q \in Process, pc'[q] \in InTransaction
      PROVE  /\ job'[q].name \in keys' \/ holder'[job'[q].name] = q
             /\ pc'[q] = "apply" => (seen'[q] = NoEntry <=> job'[q].name \notin keys')
  <2>1. CASE q = p
    BY <1>1, <1>2, <1>3, <1>6, <2>1
  <2>2. CASE q # p
    <3>1. pc[q] \in InTransaction /\ job'[q] = job[q] /\ pc'[q] = pc[q]
      BY <1>3, <1>9, <2>2
    <3>2. job[q].name \in Name
      BY <3>1, JobName DEF Inv, InTransaction
    <3>3. job[q].name \in keys \/ holder[job[q].name] = q
      BY <3>1 DEF Inv, Locked
    <3>4. pc[q] = "apply" => (seen[q] = NoEntry <=> job[q].name \notin keys)
      BY DEF Inv, Locked
    <3>5. holder[job[q].name] = q => holder'[job[q].name] = q
      BY <1>1, <1>4, <1>6, <3>2
    <3>6. QED
      BY <1>3, <3>1, <3>3, <3>4, <3>5
  <2>3. QED
    BY <2>1, <2>2
<1>10. \A n \in Name : (n \in keys' <=> ledger'[n] # NoEntry)
                       /\ installs'[n] = IF n \in keys' THEN 1 ELSE 0
  BY <1>3 DEF Inv, Locked
<1>11. Locked'
  BY <1>8, <1>9, <1>10 DEF Locked, InTransaction
<1>12. QED
  BY <1>5, <1>11

\* The commit of p after its file: its name has a key and an entry from here on.
LEMMA CommitInv ==
    ASSUME StartupAssumption, Inv, NEW p \in Process, pc[p] \in InTransaction,
           Commit(p), Goto(p, "plugin"),
           \A q \in Process : q # p => seen'[q] = seen[q],
           \A n \in Name : n # job[p].name \/ n \in keys => installs'[n] = installs[n],
           job[p].name \notin keys => installs'[job[p].name] = installs[job[p].name] + 1,
           \A n \in Name \ {job[p].name} : ledger'[n] = ledger[n],
           ledger'[job[p].name] # NoEntry
    PROVE  JobKnown' /\ Locked'
<1> DEFINE k == job[p].name
<1>1. k \in Name
  BY JobName DEF Inv, InTransaction
<1>2. Nobody \notin Process
  BY DEF StartupAssumption
<1>3. \A n \in Name : holder[n] = p <=> n = k /\ k \notin keys
  BY <1>1 DEF Inv, Locked
<1>4. keys' = keys \cup {k}
  <2>1. keys' = keys \cup {n \in Name : holder[n] = p}
    BY DEF Commit
  <2>2. QED
    BY <1>1, <1>3, <2>1
<1>5. /\ \A q \in Process : q # p => pc'[q] = pc[q] /\ job'[q] = job[q]
      /\ pc'[p] = "plugin"
      /\ \A n \in Name : holder'[n] = IF holder[n] = p THEN Nobody ELSE holder[n]
  BY DEF Inv, TypeOK, Goto, Commit, Release
<1>6. JobKnown'
  BY <1>5 DEF Inv, JobKnown
<1>7. \A n \in Name, q \in Process : holder'[n] = q =>
          pc'[q] \in InTransaction /\ job'[q].name = n /\ n \notin keys'
  <2> SUFFICES ASSUME NEW n \in Name, NEW q \in Process, holder'[n] = q
               PROVE  pc'[q] \in InTransaction /\ job'[q].name = n /\ n \notin keys'
    OBVIOUS
  <2>1. holder[n] = q /\ q # p
    BY <1>2, <1>5
  <2>2. pc[q] \in InTransaction /\ job[q].name = n /\ n \notin keys
    BY <2>1 DEF Inv, Locked
  <2>3. n # k
    BY <1>1, <2>1, <2>2 DEF Inv, Locked
  <2>4. QED
    BY <1>4, <1>5, <2>1, <2>2, <2>3
<1>8. ASSUME NEW q \in Process, pc'[q] \in InTransaction
      PROVE  /\ job'[q].name \in keys' \/ holder'[job'[q].name] = q
             /\ pc'[q] = "apply" => (seen'[q] = NoEntry <=> job'[q].name \notin keys')
  <2>1. q # p /\ pc[q] \in InTransaction /\ job'[q] = job[q] /\ pc'[q] = pc[q]
    BY <1>5, <1>8 DEF InTransaction
  <2>2. job[q].name \in Name
    BY <2>1, JobName DEF Inv, InTransaction
  <2>3. job[q].name \in keys \/ holder[job[q].name] = q
    BY <2>1 DEF Inv, Locked
  <2>4. job[q].name = k => k \in keys
    BY <1>1, <1>3, <2>1, <2>3
  <2>5. pc[q] = "apply" => (seen[q] = NoEntry <=> job[q].name \notin keys)
    BY DEF Inv, Locked
  <2>6. QED
    BY <1>4, <1>5, <2>1, <2>2, <2>3, <2>4, <2>5
<1>9. ASSUME NEW n \in Name
      PROVE  (n \in keys' <=> ledger'[n] # NoEntry)
             /\ installs'[n] = IF n \in keys' THEN 1 ELSE 0
  <2>1. (n \in keys <=> ledger[n] # NoEntry) /\ installs[n] = IF n \in keys THEN 1 ELSE 0
    BY DEF Inv, Locked
  <2>2. CASE n # k
    BY <1>4, <2>1, <2>2
  <2>3. CASE n = k
    BY <1>4, <2>1, <2>3
  <2>4. QED
    BY <2>2, <2>3
<1>10. Locked'
  BY <1>7, <1>8, <1>9 DEF Locked, InTransaction
<1>11. QED
  BY <1>6, <1>10

LEMMA ReadLedgerInv ==
    ASSUME StartupAssumption, Inv, NEW p \in Process, ReadLedger(p)
    PROVE  JobKnown' /\ Locked'
<1> DEFINE e == ledger[job[p].name]
           f == job[p].file
<1>1. pc[p] = "ledger" /\ UNCHANGED <<ledger, installs>>
  BY DEF ReadLedger
<1>2. job[p].name \in Name
  BY <1>1, JobName DEF Inv
<1>3. job[p].name \in keys <=> e # NoEntry
  BY <1>2 DEF Inv, Locked
<1>4. CASE Rollback(p) /\ Fail(p, "conflict") /\ UNCHANGED seen
  BY <1>1, <1>4, RollbackInv DEF Fail, InTransaction
<1>5. CASE Skips(e, f) /\ Commit(p) /\ Goto(p, "plugin") /\ UNCHANGED <<seen, why>>
  <2>1. e # NoEntry
    BY <1>5 DEF Skips
  <2>2. QED
    BY <1>1, <1>3, <1>5, <2>1, CommitInv DEF InTransaction
<1>6. CASE seen' = [seen EXCEPT ![p] = e] /\ Goto(p, "apply")
           /\ UNCHANGED <<keys, holder, job, why>>
  <2>1. /\ \A q \in Process : q # p => pc'[q] = pc[q] /\ seen'[q] = seen[q]
        /\ pc'[p] = "apply" /\ seen'[p] = e
    BY <1>6 DEF Goto, Inv, TypeOK
  <2>2. JobKnown'
    BY <1>1, <1>6, <2>1 DEF Inv, JobKnown
  <2>3. \A q \in Process : pc'[q] \in InTransaction <=> pc[q] \in InTransaction
    BY <1>1, <2>1 DEF InTransaction
  <2>4. \A q \in Process : pc'[q] = "apply" => (seen'[q] = NoEntry <=> job[q].name \notin keys)
    BY <1>3, <2>1 DEF Inv, Locked
  <2>5. Locked'
    BY <1>1, <1>6, <2>3, <2>4 DEF Inv, Locked
  <2>6. QED
    BY <2>2, <2>5
<1>7. QED
  BY <1>4, <1>5, <1>6 DEF ReadLedger

LEMMA ApplyInv ==
    ASSUME StartupAssumption, Inv, NEW p \in Process, Apply(p)
    PROVE  JobKnown' /\ Locked'
<1> DEFINE n == job[p].name
           x == [order |-> job[p].file.order, sql |-> job[p].file.sql]
<1>1. pc[p] = "apply" /\ Commit(p) /\ Goto(p, "plugin")
  BY DEF Apply
<1>2. n \in Name /\ x \in Entry
  BY <1>1, JobName DEF Inv
<1>3. x # NoEntry
  BY <1>2 DEF StartupAssumption
<1>4. seen[p] = NoEntry <=> n \notin keys
  BY <1>1 DEF Inv, Locked
<1>5. \A q \in Process : q # p => seen'[q] = seen[q]
  BY DEF Apply, Inv, TypeOK
<1>6. ledger' = [ledger EXCEPT ![n] = x]
  BY DEF Apply
<1>7. ledger'[n] # NoEntry /\ \A k \in Name \ {n} : ledger'[k] = ledger[k]
  BY <1>2, <1>3, <1>6 DEF Inv, TypeOK
<1>8. /\ \A k \in Name : k # n \/ k \in keys => installs'[k] = installs[k]
      /\ n \notin keys => installs'[n] = installs[n] + 1
  BY <1>2, <1>4 DEF Apply, Inv, TypeOK
<1>9. QED
  BY <1>1, <1>5, <1>7, <1>8, CommitInv DEF InTransaction

\* Every step keeps the key, the ledger and the number of installations together.
LEMMA NextInv ==
    ASSUME StartupAssumption, Inv, [Next]_vars
    PROVE  Inv'
<1>1. TypeOK /\ JobKnown
  BY DEF Inv
<1>2. ASSUME NEW p \in Process, Begin(p) PROVE Inv'
  BY <1>1, <1>2, PluginTyped, BeginInv DEF Inv
<1>3. ASSUME NEW p \in Process, ReadLedger(p) PROVE Inv'
  BY <1>1, <1>3, PluginTyped, ReadLedgerInv DEF Inv
<1>4. ASSUME NEW p \in Process, Apply(p) PROVE Inv'
  BY <1>1, <1>4, PluginTyped, ApplyInv DEF Inv
<1>5. ASSUME NEW p \in Process, SqlFails(p) PROVE Inv'
  <2>1. \A q \in Process : q # p => seen'[q] = seen[q]
    BY <1>1, <1>5 DEF SqlFails, TypeOK
  <2>2. QED
    BY <1>1, <1>5, <2>1, FaultsTyped, RollbackInv DEF Inv, SqlFails, Fail, InTransaction
<1>6. ASSUME NEW p \in Process, Crash(p) PROVE Inv'
  <2>1. \A q \in Process : q # p => seen'[q] = seen[q]
    BY <1>1, <1>6 DEF Crash, TypeOK
  <2>2. QED
    BY <1>1, <1>6, <2>1, FaultsTyped, RollbackInv DEF Inv, Crash, InTransaction
<1>7. ASSUME NEW p \in Process,
             \/ Start(p) \/ LookForSchema(p) \/ CreateSchema(p) \/ ReadVersion(p)
             \/ Upgrade(p) \/ RequireTables(p)
      PROVE  Inv'
  <2>1. TypeOK' /\ UNCHANGED <<planVars, job, seen>>
    BY <1>1, <1>7, CoreTyped
       DEF Start, LookForSchema, CreateSchema, ReadVersion, Upgrade, RequireTables, ownVars
  <2>2. pc[p] \notin InTransaction
    BY <1>7 DEF Start, LookForSchema, CreateSchema, ReadVersion, Upgrade, RequireTables,
                InTransaction
  <2>3. \E l : Goto(p, l) /\ l \notin InTransaction
    <3>1. Start(p) => Does(p, {"core", "run"}) \/ Does(p, {"plugins"}) \/ Does(p, {"skip", "create"})
      BY <1>1 DEF TypeOK, Does, Command
    <3>2. CASE Start(p)
      <4>1. CASE Does(p, {"core", "run"})
        BY <3>2, <4>1 DEF Start, InTransaction, Does
      <4>2. CASE Does(p, {"plugins"})
        BY <3>2, <4>2 DEF Start, InTransaction, Does
      <4>3. CASE Does(p, {"skip", "create"})
        BY <3>2, <4>3 DEF Start, InTransaction, Does
      <4>4. QED
        BY <3>1, <3>2, <4>1, <4>2, <4>3
    <3>3. CASE LookForSchema(p) \/ ReadVersion(p)
      <4>1. Goto(p, "alembic") \/ Goto(p, "create") \/ Goto(p, "core sync") \/ Goto(p, "upgrade")
        BY <3>3 DEF LookForSchema, ReadVersion
      <4>2. /\ "alembic" \notin InTransaction /\ "create" \notin InTransaction
            /\ "core sync" \notin InTransaction /\ "upgrade" \notin InTransaction
        BY DEF InTransaction
      <4>3. QED
        BY <4>1, <4>2, Zenon
    <3>4. CASE CreateSchema(p) \/ Upgrade(p) \/ RequireTables(p)
      <4>1. \/ Goto(p, "failed") \/ Goto(p, "alembic") \/ Goto(p, "core sync")
            \/ Goto(p, "up") \/ Goto(p, "start sync")
        BY <3>4 DEF CreateSchema, Upgrade, RequireTables, Fail
      <4>2. /\ "failed" \notin InTransaction /\ "alembic" \notin InTransaction
            /\ "core sync" \notin InTransaction /\ "up" \notin InTransaction
            /\ "start sync" \notin InTransaction
        BY DEF InTransaction
      <4>3. QED
        BY <4>1, <4>2, Zenon
    <3>5. QED
      BY <1>7, <3>2, <3>3, <3>4
  <2>4. QED
    BY <1>1, <2>1, <2>2, <2>3, Moves, Outside DEF Inv
<1>8. ASSUME NEW p \in Process,
             \/ ReadHighest(p) \/ SetSequence(p) \/ TakeId(p) \/ CommitRow(p)
             \/ Violation(p) \/ Surface(p)
      PROVE  Inv'
  <2>1. TypeOK' /\ UNCHANGED <<planVars, job, seen>>
    BY <1>1, <1>8, SequenceTyped
       DEF ReadHighest, SetSequence, TakeId, CommitRow, Violation, Surface, ownVars
  <2>2. CASE ReadHighest(p)
    BY <1>1, <2>1, <2>2, Outside DEF Inv, ReadHighest
  <2>3. CASE SetSequence(p)
    BY <1>1, <2>1, <2>3, Moves, Outside
       DEF Inv, SetSequence, AfterSync, Repairing, InTransaction
  <2>4. CASE TakeId(p) \/ CommitRow(p) \/ Violation(p) \/ Surface(p)
    BY <1>1, <2>1, <2>4, Moves, Outside
       DEF Inv, TakeId, CommitRow, Violation, Surface, Inserting, InTransaction
  <2>5. QED
    BY <1>8, <2>2, <2>3, <2>4
<1>9. ASSUME NEW p \in Process,
             Collect(p) \/ Unreadable(p) \/ NoTables(p) \/ Applied(p) \/ Load(p)
      PROVE  Inv'
  <2>1. TypeOK' /\ UNCHANGED <<planVars, job, seen>>
    BY <1>1, <1>9, PluginTyped DEF Collect, Unreadable, NoTables, Applied, Load, ownVars
  <2>2. pc[p] \notin InTransaction
    BY <1>9 DEF Collect, Unreadable, NoTables, Applied, Load, InTransaction
  <2>3. \E l : Goto(p, l) /\ l \notin InTransaction
    BY <1>9 DEF Collect, Unreadable, NoTables, Applied, Load, InTransaction, Fail
  <2>4. QED
    BY <1>1, <2>1, <2>2, <2>3, Moves, Outside DEF Inv
<1>10. ASSUME NEW p \in Process, Restart(p) PROVE Inv'
  BY <1>1, <1>10, FaultsTyped, Moves, Outside DEF Inv, Restart, ownVars, InTransaction
<1>11. CASE Copy
  BY <1>1, <1>11, FaultsTyped, Outside DEF Inv, Copy, ownVars
<1>12. CASE UNCHANGED vars
  <2>1. TypeOK'
    BY <1>1, <1>12 DEF TypeOK, vars, dbVars, planVars, idVars, ownVars
  <2>2. QED
    BY <1>12, <2>1, Outside DEF Inv, vars, ownVars
<1>13. QED
  BY <1>2, <1>3, <1>4, <1>5, <1>6, <1>7, <1>8, <1>9, <1>10, <1>11, <1>12 DEF Next, Progress

LEMMA InvHolds == Spec => []Inv
<1>1. Init => Inv
  BY InitInv, StartupAssumption
<1>2. Inv /\ [Next]_vars => Inv'
  BY NextInv, StartupAssumption
<1>3. QED
  BY <1>1, <1>2, PTL DEF Spec

\* Every variable keeps its type, whatever starts, fails or is killed when.
THEOREM StartupTypeCorrect == Spec => []TypeOK
<1>1. Inv => TypeOK
  BY DEF Inv
<1>2. QED
  BY <1>1, InvHolds, PTL

\* The first file of a plugin takes effect once, for any number of processes,
\* plugins and faults.
THEOREM FirstInstallOnce == Spec => []OneInstall
<1>1. ASSUME Inv, NEW n \in Name PROVE installs[n] <= 1
  <2>1. installs[n] = IF n \in keys THEN 1 ELSE 0
    BY <1>1 DEF Inv, Locked
  <2>2. CASE n \in keys
    BY <2>1, <2>2
  <2>3. CASE n \notin keys
    BY <2>1, <2>3
  <2>4. QED
    BY <2>2, <2>3
<1>2. Inv => OneInstall
  BY <1>1 DEF OneInstall
<1>3. QED
  BY <1>2, InvHolds, PTL

-----------------------------------------------------------------------------
(* Upgrades. Nobody waits for the ledger of a plugin that is installed, but a   *)
(* process applies a file only against an entry that it has judged.             *)

Decided ==
    \A p \in Process : pc[p] = "apply" =>
        ~Conflicts(seen[p], job[p].file) /\ ~Skips(seen[p], job[p].file)

\* A step of p that does not lead to its file.
LEMMA Elsewhere ==
    ASSUME Decided, NEW p \in Process, pc'[p] # "apply",
           \A q \in Process : q # p => pc'[q] = pc[q] /\ job'[q] = job[q] /\ seen'[q] = seen[q]
    PROVE  Decided'
<1>1. ASSUME NEW q \in Process, pc'[q] = "apply"
      PROVE  ~Conflicts(seen'[q], job'[q].file) /\ ~Skips(seen'[q], job'[q].file)
  BY <1>1 DEF Decided
<1>2. QED
  BY <1>1 DEF Decided

LEMMA ReadLedgerDecides ==
    ASSUME Inv, Decided, NEW p \in Process, ReadLedger(p)
    PROVE  Decided'
<1> DEFINE e == ledger[job[p].name]
           f == job[p].file
<1>1. CASE Rollback(p) /\ Fail(p, "conflict") /\ UNCHANGED seen
  BY <1>1, Elsewhere DEF Rollback, Release, Fail, Goto, Inv, TypeOK
<1>2. CASE Commit(p) /\ Goto(p, "plugin") /\ UNCHANGED <<seen, why>>
  BY <1>2, Elsewhere DEF Commit, Release, Goto, Inv, TypeOK
<1>3. CASE /\ ~Conflicts(e, f) /\ ~Skips(e, f)
           /\ seen' = [seen EXCEPT ![p] = e]
           /\ Goto(p, "apply") /\ UNCHANGED <<keys, holder, job, why>>
  <2>1. seen'[p] = e /\ \A q \in Process : q # p => pc'[q] = pc[q] /\ seen'[q] = seen[q]
    BY <1>3 DEF Goto, Inv, TypeOK
  <2>2. ASSUME NEW q \in Process, pc'[q] = "apply"
        PROVE  ~Conflicts(seen'[q], job[q].file) /\ ~Skips(seen'[q], job[q].file)
    <3>1. CASE q = p
      BY <1>3, <2>1, <3>1
    <3>2. CASE q # p
      BY <2>1, <2>2, <3>2 DEF Decided
    <3>3. QED
      BY <3>1, <3>2
  <2>3. job' = job
    BY <1>3
  <2>4. QED
    BY <2>2, <2>3 DEF Decided
<1>4. QED
  BY <1>1, <1>2, <1>3 DEF ReadLedger

LEMMA NextDecides ==
    ASSUME Inv, Decided, [Next]_vars
    PROVE  Decided'
<1>1. /\ pc \in [Process -> Locations] /\ job \in [Process -> Migration \cup {NoJob}]
      /\ seen \in [Process -> Entry \cup {NoEntry}]
  BY DEF Inv, TypeOK
<1>2. ASSUME NEW p \in Process, ReadLedger(p) PROVE Decided'
  BY <1>2, ReadLedgerDecides
<1>3. ASSUME NEW p \in Process, NEW l, Goto(p, l), l # "apply", UNCHANGED <<job, seen>>
      PROVE  Decided'
  BY <1>1, <1>3, Elsewhere DEF Goto
<1>4. ASSUME NEW p \in Process, Begin(p) PROVE Decided'
  <2>1. PICK m : job' = [job EXCEPT ![p] = m]
    BY <1>4 DEF Begin
  <2>2. Goto(p, "ledger") /\ UNCHANGED seen
    BY <1>4 DEF Begin
  <2>3. QED
    BY <1>1, <2>1, <2>2, Elsewhere DEF Goto
<1>5. ASSUME NEW p \in Process, Apply(p) PROVE Decided'
  BY <1>1, <1>5, Elsewhere DEF Apply, Commit, Release, Goto
<1>6. ASSUME NEW p \in Process, SqlFails(p) \/ Crash(p) PROVE Decided'
  BY <1>1, <1>6, Elsewhere DEF SqlFails, Crash, Rollback, Release, Fail, Goto
<1>7. ASSUME NEW p \in Process, Start(p) PROVE Decided'
  <2>1. Does(p, {"core", "run"}) \/ Does(p, {"plugins"}) \/ Does(p, {"skip", "create"})
    BY DEF Inv, TypeOK, Does, Command
  <2>2. Goto(p, "schema") \/ Goto(p, "collect") \/ Goto(p, "require")
    BY <1>7, <2>1 DEF Start, Does
  <2>3. QED
    BY <1>3, <1>7, <2>2 DEF Start
<1>8. ASSUME NEW p \in Process,
             \/ LookForSchema(p) \/ CreateSchema(p) \/ ReadVersion(p) \/ Upgrade(p)
             \/ RequireTables(p) \/ Surface(p) \/ Restart(p)
      PROVE  Decided'
  <2>1. UNCHANGED <<job, seen>>
    BY <1>8 DEF LookForSchema, CreateSchema, ReadVersion, Upgrade, RequireTables, Surface,
                Restart, ownVars
  <2>2. \/ Goto(p, "alembic") \/ Goto(p, "create") \/ Goto(p, "core sync")
        \/ Goto(p, "upgrade") \/ Goto(p, "failed") \/ Goto(p, "up") \/ Goto(p, "start sync")
        \/ Goto(p, "off")
    BY <1>8 DEF LookForSchema, CreateSchema, ReadVersion, Upgrade, RequireTables, Surface,
                Restart, Fail
  <2>3. QED
    BY <1>3, <2>1, <2>2
<1>9. ASSUME NEW p \in Process,
             \/ SetSequence(p) \/ TakeId(p) \/ CommitRow(p) \/ Violation(p)
      PROVE  Decided'
  <2>1. UNCHANGED <<job, seen>>
    BY <1>9 DEF SetSequence, TakeId, CommitRow, Violation, ownVars
  <2>2. SetSequence(p) => AfterSync(p) # "apply"
    BY DEF SetSequence, AfterSync, Repairing
  <2>3. \/ Goto(p, AfterSync(p)) /\ AfterSync(p) # "apply"
        \/ Goto(p, "insert") \/ Goto(p, "insert again") \/ Goto(p, "up")
        \/ Goto(p, "heal") \/ Goto(p, "refused")
    BY <1>9, <2>2 DEF SetSequence, TakeId, CommitRow, Violation
  <2>4. QED
    BY <1>3, <2>1, <2>3
<1>10. ASSUME NEW p \in Process,
              Collect(p) \/ Unreadable(p) \/ NoTables(p) \/ Applied(p) \/ Load(p)
       PROVE  Decided'
  <2>1. UNCHANGED <<job, seen>>
    BY <1>10 DEF Collect, Unreadable, NoTables, Applied, Load, ownVars
  <2>2. \/ Goto(p, "plugin") \/ Goto(p, "failed") \/ Goto(p, "require") \/ Goto(p, "done")
        \/ Goto(p, "up")
    BY <1>10 DEF Collect, Unreadable, NoTables, Applied, Load, Fail
  <2>3. QED
    BY <1>3, <2>1, <2>2
<1>11. CASE (\E p \in Process : ReadHighest(p)) \/ Copy \/ UNCHANGED vars
  BY <1>11 DEF ReadHighest, Copy, vars, ownVars, Decided
<1>12. QED
  BY <1>2, <1>4, <1>5, <1>6, <1>7, <1>8, <1>9, <1>10, <1>11 DEF Next, Progress

\* Only a file that is run changes the ledger.
LEMMA LedgerSteps ==
    ASSUME [Next]_vars, ledger' # ledger
    PROVE  \E p \in Process : Apply(p)
<1>1. ASSUME NEW p \in Process,
             \/ Start(p) \/ LookForSchema(p) \/ CreateSchema(p) \/ ReadVersion(p)
             \/ Upgrade(p) \/ RequireTables(p) \/ ReadHighest(p) \/ SetSequence(p)
      PROVE  UNCHANGED ledger
  BY <1>1 DEF Start, LookForSchema, CreateSchema, ReadVersion, Upgrade, RequireTables,
              ReadHighest, SetSequence, planVars
<1>2. ASSUME NEW p \in Process,
             \/ Collect(p) \/ Unreadable(p) \/ NoTables(p) \/ Begin(p) \/ ReadLedger(p)
             \/ Applied(p) \/ Load(p)
      PROVE  UNCHANGED ledger
  BY <1>2 DEF Collect, Unreadable, NoTables, Begin, ReadLedger, Applied, Load, planVars
<1>3. ASSUME NEW p \in Process,
             CommitRow(p) \/ Violation(p) \/ Surface(p) \/ Restart(p) \/ SqlFails(p) \/ Crash(p)
      PROVE  UNCHANGED ledger
  BY <1>3 DEF CommitRow, Violation, Surface, Restart, SqlFails, Crash, planVars
<1>4. ASSUME NEW p \in Process, TakeId(p) PROVE UNCHANGED ledger
  BY <1>4 DEF TakeId, planVars
<1>5. CASE Copy
  BY <1>5 DEF Copy, planVars
<1>6. CASE UNCHANGED vars
  BY <1>6 DEF vars, planVars
<1>7. QED
  BY <1>1, <1>2, <1>3, <1>4, <1>5, <1>6 DEF Next, Progress

\* An entry gives way to another content and a higher order, unless it was
\* written after the process that replaces it had read the ledger.
THEOREM LedgerGoesForward == Spec => LedgerMovesForward
<1>1. Init => Decided
  BY DEF Init, Decided
<1>2. Inv /\ Decided /\ [Next]_vars => Decided'
  BY NextDecides
<1>3. Inv /\ Decided /\ [Next]_vars =>
          \A n \in Name : ledger'[n] # ledger[n] =>
              \/ ledger[n] = NoEntry
              \/ ledger'[n].order > ledger[n].order /\ ledger'[n].sql # ledger[n].sql
              \/ \E p \in Process : pc[p] = "apply" /\ job[p].name = n /\ seen[p] # ledger[n]
  <2> SUFFICES ASSUME Inv, Decided, [Next]_vars, NEW n \in Name, ledger'[n] # ledger[n],
                      ledger[n] # NoEntry
               PROVE  \/ ledger'[n].order > ledger[n].order /\ ledger'[n].sql # ledger[n].sql
                      \/ \E p \in Process :
                             pc[p] = "apply" /\ job[p].name = n /\ seen[p] # ledger[n]
    OBVIOUS
  <2>1. PICK p \in Process : Apply(p)
    BY LedgerSteps
  <2> DEFINE f == job[p].file
             x == [order |-> f.order, sql |-> f.sql]
  <2>2. pc[p] = "apply" /\ ledger' = [ledger EXCEPT ![job[p].name] = x]
    BY <2>1 DEF Apply
  <2>3. n = job[p].name /\ ledger'[n] = x
    BY <2>2 DEF Inv, TypeOK
  <2>4. job[p] \in Migration
    BY <2>2 DEF Inv, JobKnown
  <2>5. f.order \in Nat /\ ledger[n] \in Entry
    BY <2>4 DEF Migration, File, Inv, TypeOK
  <2>6. ledger[n].order \in Nat
    BY <2>5 DEF Entry
  <2>7. CASE seen[p] = ledger[n]
    <3>1. ~Conflicts(ledger[n], f) /\ ~Skips(ledger[n], f)
      BY <2>2, <2>7 DEF Decided
    <3>2. f.order > ledger[n].order /\ f.sql # ledger[n].sql
      BY <2>5, <2>6, <3>1 DEF Conflicts, Skips
    <3>3. QED
      BY <2>3, <3>2
  <2>8. QED
    BY <2>2, <2>3, <2>7
<1>4. QED
  BY <1>1, <1>2, <1>3, InvHolds, PTL DEF Spec, LedgerMovesForward

-----------------------------------------------------------------------------
(* Repairs. While nothing disturbs it, a repair leaves a sequence above every  *)
(* row, so that the second insert cannot meet its id.                          *)

Undisturbed(p) ==
    /\ pc[p] = "heal" /\ found[p] # Unread => \A r \in rows : r <= found[p]
    /\ pc[p] = "retry" => \A r \in rows : r < next
    /\ pc[p] = "insert again" => id[p] \notin rows
    /\ pc[p] # "refused"

Repairs ==
    \A p \in Process :
        /\ found[p] # Unread => pc[p] \in Repairing
        /\ quiet[p] => Undisturbed(p)

\* A step that leaves the sequences alone.
LEMMA NoRepair ==
    ASSUME TypeOK, Repairs, UNCHANGED idVars, NEW p \in Process, NEW l, Goto(p, l),
           pc[p] \notin Repairing, l \notin {"retry", "insert again", "refused"}
    PROVE  Repairs'
<1>1. \A q \in Process : q # p => pc'[q] = pc[q]
  BY DEF TypeOK, Goto
<1>2. pc'[p] = l /\ found[p] = Unread
  BY DEF TypeOK, Goto, Repairs
<1>3. UNCHANGED <<rows, next, found, id, quiet>>
  BY DEF idVars
<1>4. ASSUME NEW q \in Process
      PROVE  /\ found'[q] # Unread => pc'[q] \in Repairing
             /\ quiet'[q] => Undisturbed(q)'
  <2>1. CASE q = p
    BY <1>2, <1>3, <2>1 DEF Undisturbed
  <2>2. CASE q # p
    BY <1>1, <1>3, <2>2 DEF Repairs, Undisturbed
  <2>3. QED
    BY <2>1, <2>2
<1>5. QED
  BY <1>4 DEF Repairs

LEMMA SequenceRepairs ==
    ASSUME StartupAssumption, TypeOK, Repairs, NEW p \in Process,
           \/ ReadHighest(p) \/ SetSequence(p) \/ TakeId(p) \/ CommitRow(p) \/ Violation(p)
    PROVE  Repairs'
<1>1. /\ MaxId \in Nat /\ Unread \notin Nat
      /\ next \in 1 .. MaxId + 1 /\ rows \subseteq 0 .. MaxId
      /\ id \in [Process -> 0 .. MaxId] /\ quiet \in [Process -> BOOLEAN]
      /\ found \in [Process -> 0 .. MaxId \cup {Unread}]
      /\ pc \in [Process -> Locations]
  BY DEF StartupAssumption, TypeOK
<1>2. \A q \in Process : /\ found[q] # Unread => pc[q] \in Repairing
                         /\ quiet[q] => Undisturbed(q)
  BY DEF Repairs
<1> SUFFICES ASSUME NEW q \in Process
             PROVE  /\ found'[q] # Unread => pc'[q] \in Repairing
                    /\ quiet'[q] => Undisturbed(q)'
  BY DEF Repairs
<1>3. CASE ReadHighest(p)
  <2>1. PICK i \in 0 .. MaxId : IsHighest(i, rows) /\ found' = [found EXCEPT ![p] = i]
    BY <1>3 DEF ReadHighest
  <2>2. /\ pc[p] \in Repairing /\ UNCHANGED <<pc, rows, next, id>>
        /\ quiet' = [quiet EXCEPT ![p] = pc[p] = "heal"]
    BY <1>3 DEF ReadHighest
  <2>3. CASE q = p
    <3>1. found'[q] = i /\ \A r \in rows : r <= i
      BY <1>1, <2>1, <2>3 DEF IsHighest
    <3>2. quiet'[q] => pc[q] = "heal"
      BY <1>1, <2>2, <2>3
    <3>3. QED
      BY <2>2, <2>3, <3>1, <3>2 DEF Undisturbed
  <2>4. CASE q # p
    <3>1. found'[q] = found[q] /\ quiet'[q] = quiet[q]
      BY <1>1, <2>1, <2>2, <2>4
    <3>2. QED
      BY <1>2, <2>2, <3>1 DEF Undisturbed
  <2>5. QED
    BY <2>3, <2>4
<1>4. CASE SetSequence(p)
  <2>1. /\ pc[p] \in Repairing /\ found[p] # Unread /\ next' = found[p] + 1
        /\ found' = [found EXCEPT ![p] = Unread] /\ quiet' = Disturb(p)
        /\ Goto(p, AfterSync(p)) /\ UNCHANGED <<rows, id>>
    BY <1>4 DEF SetSequence
  <2>2. CASE q = p
    <3>1. found'[q] = Unread /\ pc'[q] = AfterSync(q) /\ quiet'[q] => quiet[q]
      BY <1>1, <2>1, <2>2 DEF Goto, Disturb
    <3>2. pc[q] = "heal" => AfterSync(q) = "retry"
      BY DEF AfterSync
    <3>3. pc[q] # "heal" => AfterSync(q) \notin {"heal", "retry", "insert again", "refused"}
      BY <2>1, <2>2 DEF AfterSync, Repairing
    <3>4. CASE pc[q] = "heal"
      <4>1. ASSUME quiet'[q] PROVE \A r \in rows' : r < next'
        <5>1. \A r \in rows : r <= found[q]
          BY <1>2, <2>1, <2>2, <3>1, <3>4, <4>1 DEF Undisturbed, Disturb
        <5>2. found[q] \in 0 .. MaxId
          BY <1>1, <2>1, <2>2
        <5>3. QED
          BY <1>1, <2>1, <2>2, <5>1, <5>2
      <4>2. QED
        BY <3>1, <3>2, <3>4, <4>1, <2>1, <2>2, <1>1 DEF Undisturbed, Goto
    <3>5. CASE pc[q] # "heal"
      <4>1. pc'[q] \notin {"heal", "retry", "insert again", "refused"} /\ found'[q] = Unread
        BY <1>1, <2>1, <2>2, <3>3, <3>5 DEF Goto
      <4>2. QED
        BY <4>1 DEF Undisturbed
    <3>6. QED
      BY <3>4, <3>5
  <2>3. CASE q # p
    <3>1. found'[q] = found[q] /\ pc'[q] = pc[q] /\ ~quiet'[q]
      BY <1>1, <2>1, <2>3 DEF Goto, Disturb
    <3>2. QED
      BY <1>2, <3>1
  <2>4. QED
    BY <2>2, <2>3
<1>5. CASE TakeId(p)
  <2>1. /\ pc[p] \in {"up", "retry"} /\ next <= MaxId /\ next' = next + 1
        /\ id' = [id EXCEPT ![p] = next]
        /\ Goto(p, IF pc[p] = "up" THEN "insert" ELSE "insert again")
        /\ UNCHANGED <<rows, found, quiet>>
    BY <1>5 DEF TakeId
  <2>2. CASE q = p
    <3>1. /\ found'[q] = Unread /\ id'[q] = next
          /\ pc'[q] = IF pc[q] = "up" THEN "insert" ELSE "insert again"
      BY <1>1, <1>2, <2>1, <2>2 DEF Goto, Repairing
    <3>2. CASE pc[q] = "up"
      BY <3>1, <3>2 DEF Undisturbed
    <3>3. CASE pc[q] = "retry"
      <4>1. ASSUME quiet[q] PROVE next \notin rows
        <5>1. \A r \in rows : r < next
          BY <1>2, <3>3, <4>1 DEF Undisturbed
        <5>2. QED
          BY <1>1, <5>1
      <4>2. pc'[q] = "insert again" /\ found'[q] = Unread /\ id'[q] = next
        BY <3>1, <3>3
      <4>3. rows' = rows /\ quiet' = quiet
        BY <2>1
      <4>4. ASSUME quiet'[q] PROVE id'[q] \notin rows'
        BY <4>1, <4>2, <4>3, <4>4
      <4>5. QED
        BY <4>2, <4>4 DEF Undisturbed
    <3>4. QED
      BY <2>1, <2>2, <3>2, <3>3
  <2>3. CASE q # p
    <3>1. /\ pc'[q] = pc[q] /\ id'[q] = id[q] /\ found'[q] = found[q]
          /\ quiet'[q] = quiet[q] /\ rows' = rows
      BY <1>1, <2>1, <2>3 DEF Goto
    <3>2. ASSUME \A r \in rows : r < next PROVE \A r \in rows : r < next'
      <4>1. next \in Nat
        BY <1>1
      <4>2. \A r \in rows : r \in Nat
        BY <1>1
      <4>3. next' = next + 1
        BY <2>1
      <4>4. QED
        BY <3>2, <4>1, <4>2, <4>3
    <3>3. QED
      BY <1>2, <3>1, <3>2 DEF Undisturbed
  <2>4. QED
    BY <2>2, <2>3
<1>6. CASE CommitRow(p)
  <2>1. ~quiet'[q] /\ found' = found /\ pc[p] \in Inserting /\ Goto(p, "up")
    BY <1>6 DEF CommitRow
  <2>2. found[p] = Unread
    BY <1>2, <2>1 DEF Inserting, Repairing
  <2>3. q # p => pc'[q] = pc[q]
    BY <1>1, <2>1 DEF Goto
  <2>4. QED
    BY <1>2, <2>1, <2>2, <2>3
<1>7. CASE Violation(p)
  <2>1. /\ pc[p] \in Inserting /\ id[p] \in rows /\ id' = [id EXCEPT ![p] = 0]
        /\ Goto(p, IF pc[p] = "insert" THEN "heal" ELSE "refused")
        /\ UNCHANGED <<rows, next, found, quiet>>
    BY <1>7 DEF Violation
  <2>2. CASE q = p
    <3>1. found'[q] = Unread
      BY <1>2, <2>1, <2>2 DEF Inserting, Repairing
    <3>2. pc[q] = "insert again" => ~quiet[q]
      BY <1>2, <2>1, <2>2 DEF Undisturbed
    <3>3. pc'[q] = IF pc[q] = "insert" THEN "heal" ELSE "refused"
      BY <1>1, <2>1, <2>2 DEF Goto
    <3>4. QED
      BY <2>1, <2>2, <3>1, <3>2, <3>3 DEF Undisturbed, Inserting
  <2>3. CASE q # p
    <3>1. pc'[q] = pc[q] /\ id'[q] = id[q]
      BY <1>1, <2>1, <2>3 DEF Goto
    <3>2. rows' = rows /\ next' = next /\ found' = found /\ quiet' = quiet
      BY <2>1
    <3>3. Undisturbed(q) => Undisturbed(q)'
      BY <3>1, <3>2 DEF Undisturbed
    <3>4. QED
      BY <1>2, <3>1, <3>2, <3>3
  <2>4. QED
    BY <2>2, <2>3
<1>8. QED
  BY <1>3, <1>4, <1>5, <1>6, <1>7

LEMMA NextRepairs ==
    ASSUME StartupAssumption, Inv, Repairs, [Next]_vars
    PROVE  Repairs'
<1>1. TypeOK
  BY DEF Inv
<1>2. \A q \in Process : found[q] # Unread => pc[q] \in Repairing
  BY DEF Repairs
<1>3. ASSUME NEW p \in Process,
             \/ ReadHighest(p) \/ SetSequence(p) \/ TakeId(p) \/ CommitRow(p) \/ Violation(p)
      PROVE  Repairs'
  BY <1>1, <1>3, SequenceRepairs
<1>4. ASSUME NEW p \in Process, Crash(p) PROVE Repairs'
  <2>1. /\ found' = [found EXCEPT ![p] = Unread] /\ id' = [id EXCEPT ![p] = 0]
        /\ Goto(p, "off") /\ UNCHANGED <<rows, next, quiet>>
    BY <1>4 DEF Crash
  <2>2. found'[p] = Unread /\ pc'[p] = "off"
    BY <1>1, <2>1 DEF TypeOK, Goto
  <2>3. \A q \in Process : q # p => pc'[q] = pc[q] /\ found'[q] = found[q] /\ id'[q] = id[q]
    BY <1>1, <2>1 DEF TypeOK, Goto
  <2>4. Undisturbed(p)'
    BY <2>2 DEF Undisturbed
  <2>5. ASSUME NEW q \in Process, q # p, quiet'[q] PROVE Undisturbed(q)'
    <3>1. Undisturbed(q) /\ rows' = rows /\ next' = next
      BY <2>1, <2>5 DEF Repairs
    <3>2. pc'[q] = pc[q] /\ found'[q] = found[q] /\ id'[q] = id[q]
      BY <2>3, <2>5
    <3>3. QED
      BY <3>1, <3>2 DEF Undisturbed
  <2>6. QED
    BY <1>2, <2>2, <2>3, <2>4, <2>5 DEF Repairs
<1>5. CASE Copy
  BY <1>2, <1>5 DEF Copy, Repairs
<1>6. ASSUME NEW p \in Process, NEW l, Goto(p, l), UNCHANGED idVars,
             pc[p] \notin Repairing, l \notin {"retry", "insert again", "refused"}
      PROVE  Repairs'
  BY <1>1, <1>6, NoRepair
<1>7. ASSUME NEW p \in Process,
             LookForSchema(p) \/ CreateSchema(p) \/ ReadVersion(p) \/ Upgrade(p)
      PROVE  Repairs'
  <2>1. UNCHANGED idVars /\ pc[p] \notin Repairing
    BY <1>7 DEF LookForSchema, CreateSchema, ReadVersion, Upgrade, Repairing
  <2>2. \/ Goto(p, "alembic") \/ Goto(p, "create") \/ Goto(p, "core sync")
        \/ Goto(p, "upgrade") \/ Goto(p, "failed")
    BY <1>7 DEF LookForSchema, CreateSchema, ReadVersion, Upgrade, Fail
  <2>3. QED
    BY <1>6, <2>1, <2>2
<1>8. ASSUME NEW p \in Process, Start(p) PROVE Repairs'
  <2>1. UNCHANGED idVars /\ pc[p] \notin Repairing
    BY <1>8 DEF Start, Repairing
  <2>2. Does(p, {"core", "run"}) \/ Does(p, {"plugins"}) \/ Does(p, {"skip", "create"})
    BY <1>1 DEF TypeOK, Does, Command
  <2>3. CASE Does(p, {"core", "run"})
    BY <1>6, <1>8, <2>1, <2>3 DEF Start, Does
  <2>4. CASE Does(p, {"plugins"})
    BY <1>6, <1>8, <2>1, <2>4 DEF Start, Does
  <2>5. CASE Does(p, {"skip", "create"})
    BY <1>6, <1>8, <2>1, <2>5 DEF Start, Does
  <2>6. QED
    BY <2>2, <2>3, <2>4, <2>5
<1>9. ASSUME NEW p \in Process,
             \/ RequireTables(p) \/ Surface(p) \/ Collect(p) \/ Unreadable(p) \/ NoTables(p)
             \/ Applied(p) \/ Load(p) \/ Restart(p)
      PROVE  Repairs'
  <2>1. UNCHANGED idVars /\ pc[p] \notin Repairing
    BY <1>9 DEF RequireTables, Surface, Collect, Unreadable, NoTables, Applied, Load, Restart,
                Repairing
  <2>2. \/ Goto(p, "up") \/ Goto(p, "start sync") \/ Goto(p, "failed") \/ Goto(p, "plugin")
        \/ Goto(p, "require") \/ Goto(p, "done") \/ Goto(p, "off")
    BY <1>9 DEF RequireTables, Surface, Collect, Unreadable, NoTables, Applied, Load, Restart, Fail
  <2>3. QED
    BY <1>6, <2>1, <2>2
<1>10. ASSUME NEW p \in Process, Begin(p) \/ ReadLedger(p) \/ Apply(p) \/ SqlFails(p)
       PROVE  Repairs'
  <2>1. UNCHANGED idVars /\ pc[p] \notin Repairing
    BY <1>10 DEF Begin, ReadLedger, Apply, SqlFails, Repairing
  <2>2. \/ Goto(p, "ledger") \/ Goto(p, "failed") \/ Goto(p, "plugin") \/ Goto(p, "apply")
    BY <1>10 DEF Begin, ReadLedger, Apply, SqlFails, Fail
  <2>3. QED
    BY <1>6, <2>1, <2>2
<1>11. CASE UNCHANGED vars
  BY <1>11 DEF vars, idVars, Repairs, Undisturbed
<1>12. QED
  BY <1>3, <1>4, <1>5, <1>7, <1>8, <1>9, <1>10, <1>11 DEF Next, Progress

\* An insert that fails a second time was disturbed: by a commit, by another
\* repair or by a copied row.
THEOREM RepairSuffices == Spec => []LoneRepairHolds
<1>1. Init => Repairs
  BY DEF Init, Repairs
<1>2. Inv /\ Repairs /\ [Next]_vars => Repairs'
  BY NextRepairs, StartupAssumption
<1>3. Repairs => LoneRepairHolds
  BY DEF Repairs, Undisturbed, LoneRepairHolds
<1>4. QED
  BY <1>1, <1>2, <1>3, InvHolds, PTL DEF Spec

-----------------------------------------------------------------------------
(* The dry run. A process works through the plan of its tree, and what it fails *)
(* for is something that a dry run would have reported, or does not look at.    *)

Foreseen == {"plan", "file", "policy"}

Accepted(p) == ~DryRun(Tree(p)).errors

Previewed ==
    \A p \in Process :
        /\ left[p] \subseteq Plan(Tree(p))
        /\ Accepted(p) => why[p] \notin Foreseen

LEMMA AcceptedTree ==
    ASSUME TypeOK, NEW p \in Process, Accepted(p)
    PROVE  /\ Collects(Tree(p))
           /\ PoliciesAccept(Tree(p))
           /\ DryRun(Tree(p)).plan = Plan(Tree(p))
           /\ \A m \in Plan(Tree(p)) : m.file.place = "inside"
<1>1. Tree(p) \in Seq(Manifest)
  BY DEF TypeOK, Tree
<1>2. QED
  BY <1>1, DryRunIsSound DEF Accepted

\* The tree of a process is the same as long as it is deployed.
LEMMA SameTree ==
    ASSUME deployed' = deployed, NEW p
    PROVE  Tree(p)' = Tree(p) /\ (Accepted(p)' <=> Accepted(p))
<1>1. Tree(p)' = Tree(p)
  BY DEF Tree
<1>2. QED
  BY <1>1 DEF Accepted

LEMMA PreviewStays ==
    ASSUME Previewed, deployed' = deployed,
           \A q \in Process : left'[q] \subseteq left[q] \/ left'[q] = Plan(Tree(q)),
           \A q \in Process : why'[q] = why[q] \/ (Accepted(q) => why'[q] \notin Foreseen)
    PROVE  Previewed'
<1>1. ASSUME NEW q \in Process
      PROVE  left'[q] \subseteq Plan(Tree(q)') /\ (Accepted(q)' => why'[q] \notin Foreseen)
  <2>1. Tree(q)' = Tree(q) /\ (Accepted(q)' <=> Accepted(q))
    BY SameTree
  <2>2. left[q] \subseteq Plan(Tree(q)) /\ (Accepted(q) => why[q] \notin Foreseen)
    BY DEF Previewed
  <2>3. left'[q] \subseteq Plan(Tree(q))
    BY <2>2
  <2>4. QED
    BY <2>1, <2>2, <2>3
<1>2. QED
  BY <1>1 DEF Previewed, Foreseen

LEMMA FailPreviewed ==
    ASSUME TypeOK, Previewed, NEW p \in Process, NEW r, Fail(p, r),
           Accepted(p) => r \notin Foreseen, UNCHANGED <<deployed, left>>
    PROVE  Previewed'
<1>1. \A q \in Process : why'[q] = why[q] \/ (Accepted(q) => why'[q] \notin Foreseen)
  BY DEF TypeOK, Fail
<1>2. QED
  BY <1>1, PreviewStays

LEMMA NextPreviewed ==
    ASSUME TypeOK, Previewed, [Next]_vars
    PROVE  Previewed'
<1>1. /\ left \in [Process -> SUBSET Migration] /\ why \in [Process -> Reason]
  BY DEF TypeOK
<1>2. CASE UNCHANGED <<deployed, left, why>>
  BY <1>2, PreviewStays
<1>3. ASSUME NEW p \in Process, NEW r, Fail(p, r), Accepted(p) => r \notin Foreseen,
             UNCHANGED <<deployed, left>>
      PROVE  Previewed'
  BY <1>3, FailPreviewed
<1>4. ASSUME NEW p \in Process, Start(p) PROVE Previewed'
  <2>1. left' = [left EXCEPT ![p] = {}] /\ UNCHANGED <<deployed, why>>
    BY <1>4 DEF Start
  <2>2. QED
    BY <1>1, <2>1, PreviewStays
<1>5. ASSUME NEW p \in Process, Collect(p) PROVE Previewed'
  <2>1. CASE Collects(Tree(p)) /\ left' = [left EXCEPT ![p] = Plan(Tree(p))] /\ UNCHANGED why
    BY <1>1, <1>5, <2>1, PreviewStays DEF Collect
  <2>2. CASE ~Collects(Tree(p)) /\ Fail(p, "plan") /\ UNCHANGED left
    BY <1>3, <1>5, <2>2, AcceptedTree DEF Collect
  <2>3. QED
    BY <1>5, <2>1, <2>2 DEF Collect
<1>6. ASSUME NEW p \in Process, Unreadable(p) PROVE Previewed'
  <2>1. PICK m \in First(left[p]) : Fail(p, IF m.file.place = "inside" THEN "sql" ELSE "file")
    BY <1>6 DEF Unreadable
  <2>2. m \in Plan(Tree(p))
    BY FirstOf DEF Previewed
  <2>3. UNCHANGED <<deployed, left>>
    BY <1>6 DEF Unreadable, ownVars
  <2>4. CASE m.file.place = "inside"
    BY <1>3, <2>1, <2>3, <2>4 DEF Foreseen
  <2>5. CASE m.file.place # "inside"
    BY <1>3, <2>1, <2>2, <2>3, <2>5, AcceptedTree
  <2>6. QED
    BY <2>4, <2>5
<1>7. ASSUME NEW p \in Process, Load(p) PROVE Previewed'
  <2>1. UNCHANGED <<deployed, left>>
    BY <1>7 DEF Load, ownVars
  <2>2. \/ UNCHANGED why
        \/ Fail(p, IF PoliciesAccept(Tree(p)) THEN "code" ELSE "policy")
    BY <1>7 DEF Load
  <2>3. CASE PoliciesAccept(Tree(p))
    BY <1>2, <1>3, <2>1, <2>2, <2>3 DEF Foreseen
  <2>4. CASE ~PoliciesAccept(Tree(p))
    BY <1>2, <1>3, <2>1, <2>2, <2>4, AcceptedTree
  <2>5. QED
    BY <2>3, <2>4
<1>8. ASSUME NEW p \in Process, Begin(p) PROVE Previewed'
  <2>1. PICK m : left' = [left EXCEPT ![p] = @ \ {m}]
    BY <1>8 DEF Begin
  <2>2. UNCHANGED <<deployed, why>>
    BY <1>8 DEF Begin
  <2>3. QED
    BY <1>1, <2>1, <2>2, PreviewStays
<1>9. ASSUME NEW p \in Process,
             CreateSchema(p) \/ Upgrade(p) \/ RequireTables(p) \/ NoTables(p)
      PROVE  Previewed'
  <2>1. UNCHANGED <<deployed, left>>
    BY <1>9 DEF CreateSchema, Upgrade, RequireTables, NoTables, ownVars
  <2>2. UNCHANGED why \/ Fail(p, "schema") \/ Fail(p, "tables")
    BY <1>9 DEF CreateSchema, Upgrade, RequireTables, NoTables
  <2>3. QED
    BY <1>2, <1>3, <2>1, <2>2 DEF Foreseen
<1>10. ASSUME NEW p \in Process, ReadLedger(p) \/ SqlFails(p) PROVE Previewed'
  <2>1. UNCHANGED <<deployed, left>>
    BY <1>10 DEF ReadLedger, SqlFails
  <2>2. UNCHANGED why \/ Fail(p, "conflict") \/ Fail(p, "sql")
    BY <1>10 DEF ReadLedger, SqlFails
  <2>3. QED
    BY <1>2, <1>3, <2>1, <2>2 DEF Foreseen
<1>11. ASSUME NEW p \in Process, Restart(p) PROVE Previewed'
  <2>1. why' = [why EXCEPT ![p] = "none"] /\ UNCHANGED <<deployed, left>>
    BY <1>11 DEF Restart, ownVars
  <2>2. QED
    BY <1>1, <2>1, PreviewStays DEF Foreseen
<1>12. ASSUME NEW p \in Process,
              \/ LookForSchema(p) \/ ReadVersion(p) \/ Apply(p) \/ Applied(p)
              \/ ReadHighest(p) \/ SetSequence(p) \/ CommitRow(p) \/ Violation(p)
              \/ Surface(p) \/ TakeId(p) \/ Crash(p)
       PROVE  Previewed'
  BY <1>2, <1>12 DEF LookForSchema, ReadVersion, Apply, Applied, ReadHighest, SetSequence,
     CommitRow, Violation, Surface, TakeId, Crash, ownVars
<1>13. CASE Copy \/ UNCHANGED vars
  BY <1>2, <1>13 DEF Copy, vars, ownVars
<1>14. QED
  BY <1>4, <1>5, <1>6, <1>7, <1>8, <1>9, <1>10, <1>11, <1>12, <1>13 DEF Next, Progress

\* Whatever processes start beside it, one whose tree the dry run reported without
\* errors works through the reported plan and never fails for the plan, for a file
\* that is missing or for a policy of the worker.
THEOREM PreviewIsKept == Spec => []PreviewHolds
<1>1. Init => Previewed
  BY DEF Init, Previewed, Foreseen
<1>2. Inv /\ Previewed /\ [Next]_vars => Previewed'
  BY NextPreviewed DEF Inv
<1>3. Inv /\ Previewed => PreviewHolds
  <2> SUFFICES ASSUME Inv, Previewed, NEW p \in Process, ~DryRun(Tree(p)).errors
               PROVE  /\ why[p] \notin {"plan", "file", "policy"}
                      /\ left[p] \subseteq DryRun(Tree(p)).plan
    BY DEF PreviewHolds
  <2>1. Accepted(p)
    BY DEF Accepted
  <2>2. DryRun(Tree(p)).plan = Plan(Tree(p))
    BY <2>1, AcceptedTree DEF Inv
  <2>3. QED
    BY <2>1, <2>2 DEF Previewed, Foreseen
<1>4. QED
  BY <1>1, <1>2, <1>3, InvHolds, PTL DEF Spec
=============================================================================
