-------------------------- MODULE StartupProperties --------------------------
(* What processes that start at the same time may rely on. *)
EXTENDS Startup

\* However many processes start on an empty database, and whatever fails or is
\* killed, the first file of a plugin takes effect once: the key of the plugin
\* makes the others wait until the ledger has the entry.
OneInstall == \A n \in Name : installs[n] <= 1

\* The ledger of a plugin only moves to a file with another content and a higher
\* order. The exception is a process that read the ledger before another one
\* wrote it: an upgrade, unlike an installation, takes no lock.
LedgerMovesForward ==
    [][\A n \in Name : ledger'[n] # ledger[n] =>
           \/ ledger[n] = NoEntry
           \/ ledger'[n].order > ledger[n].order /\ ledger'[n].sql # ledger[n].sql
           \/ \E p \in Process : pc[p] = "apply" /\ job[p].name = n /\ seen[p] # ledger[n]]_vars

\* A tree that the dry run reports without errors is migrated as the report says,
\* and neither the migration nor the worker refuses it for what a dry run looks
\* at: manifests, names, schemas, paths, versions, checksums, scenarios.
PreviewHolds ==
    \A p \in Process :
        LET report == DryRun(Tree(p))
        IN  ~report.errors =>
                /\ why[p] \notin {"plan", "file", "policy"}
                /\ pc[p] = "plugin" => left[p] \subseteq report.plan

\* An insert fails for good only if, after its repair of the sequence had read
\* the rows, another session committed a row or moved the sequence.
LoneRepairHolds == \A p \in Process : pc[p] = "refused" => ~quiet[p]

\* One release that the dry run accepts and whose files and code work comes up in
\* every process, whatever the processes do to each other while they start.
Sound(tree) ==
    ~DryRun(tree).errors /\ Loads(tree) /\ \A m \in Plan(tree) : Readable(m)

Working == {"up", "insert", "heal", "retry", "insert again", "refused", "done"}

DeploymentComesUp ==
    /\ \A p, q \in Process : Tree(p) = Tree(q)
    /\ \A p \in Process : Sound(Tree(p))
    /\ \E p \in Process : Does(p, {"core", "run"})
    => \A p \in Process : <>[](pc[p] \in Working)
=============================================================================
