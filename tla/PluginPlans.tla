----------------------------- MODULE PluginPlans -----------------------------
(***************************************************************************)
(* What the three readers of a plugin tree make of it. `migrate --dry-run`  *)
(* reports on every plugin (core/dry_run.py), the migration collects the    *)
(* SQL files and raises at the first problem (core/plugin_migrate.py), and  *)
(* the worker registers the plugins and runs their code                     *)
(* (worker/runtime/registry.py). Each has checks of its own.                *)
(*                                                                          *)
(* A tree is the sequence of its manifests in the order of their paths. The *)
(* text of a manifest, its versions and its checksum are abstracted to the  *)
(* verdict of the check that reads them.                                    *)
(***************************************************************************)
EXTENDS Naturals, Sequences

CONSTANTS
    Name,       \* plugin names
    SchemaOf,   \* the sanitized schema of a name; two names may share one
    RankOf,     \* the place of a name in the order of strings
    Scenario,   \* scenario keys
    Sql,        \* contents of SQL files, that is their checksums
    Broken,     \* those that do not render or split, or start a transaction
    Mode,       \* "dev" or "prod"
    NoFile      \* no migrations section

\* The migration_order is a timestamp, compared as a string of fixed length.
File == [order : Nat, place : {"inside", "outside", "missing", "directory"}, sql : Sql]

ASSUME PlanAssumption == NoFile \notin File

Manifest ==
    [valid     : BOOLEAN,             \* PluginManifestV1 accepts it
     name      : Name,
     scenarios : SUBSET Scenario,
     fits      : BOOLEAN,             \* plugin_api_version and core_compat
     checksum  : BOOLEAN,             \* scope and value fit the directory
     code      : SUBSET Scenario,     \* what its entrypoint registers
     file      : File \cup {NoFile}]

Migration == [name : Name, file : File]

-----------------------------------------------------------------------------
(* Identities and policies. *)

\* claim_plugin_identity: one name, one schema.
Clash(m, k) == m.name = k.name \/ SchemaOf[m.name] = SchemaOf[k.name]

\* A checksum that does not fit is an error in prod and a warning in dev.
ChecksumAccepted(m) == m.checksum \/ Mode = "dev"

\* PluginRegistryV1.register, after the manifests S.
Registers(m, S) ==
    /\ m.fits
    /\ ChecksumAccepted(m)
    /\ \A k \in S : ~Clash(m, k) /\ m.scenarios \cap k.scenarios = {}

\* The manifests before the i-th.
Earlier(tree, i) == {tree[j] : j \in 1 .. i - 1}

-----------------------------------------------------------------------------
(* The migration: what it collects, and whether collecting raises. *)

FilesOf(S) == {[name |-> m.name, file |-> m.file] : m \in {k \in S : k.file # NoFile}}

Plan(tree) == FilesOf({tree[i] : i \in DOMAIN tree})

Collects(tree) ==
    \A i \in DOMAIN tree :
        /\ tree[i].valid
        /\ \A k \in Earlier(tree, i) : ~Clash(tree[i], k)
        /\ tree[i].file # NoFile => tree[i].file.place # "outside"

\* Files are applied in the order of (migration_order, plugin_name).
Before(m, k) ==
    \/ m.file.order < k.file.order
    \/ m.file.order = k.file.order /\ RankOf[m.name] < RankOf[k.name]

First(S) == {m \in S : \A k \in S \ {m} : Before(m, k)}

\* The file can be read and becomes a list of statements.
Readable(m) == m.file.place = "inside" /\ m.file.sql \notin Broken

-----------------------------------------------------------------------------
(* The worker: build_worker_registry_from_manifests and list_scenarios. *)

PolicyAccepts(tree, i) == tree[i].valid /\ Registers(tree[i], Earlier(tree, i))

PoliciesAccept(tree) == \A i \in DOMAIN tree : PolicyAccepts(tree, i)

\* _validate_registered_scenarios; an entrypoint that raises registers nothing.
CodeFits(m) == m.code = m.scenarios

Loads(tree) ==
    /\ tree # <<>>
    /\ \A i \in DOMAIN tree : PolicyAccepts(tree, i) /\ CodeFits(tree[i])

-----------------------------------------------------------------------------
(* The dry run: a plugin with an error is reported and left out; the others  *)
(* are registered one after the other.                                       *)

\* Mutant: the dry run only asks whether the path leaves the directory.
DryAcceptsAnyFile(m) == m.valid /\ (m.file # NoFile => m.file.place # "outside")

DryAccepts(m) == m.valid /\ (m.file # NoFile => m.file.place = "inside")

Registered(tree) ==
    LET upTo[i \in 0 .. Len(tree)] ==
            IF i = 0 THEN {}
            ELSE upTo[i - 1] \cup
                 {j \in {i} : /\ DryAccepts(tree[j])
                             /\ Registers(tree[j], {tree[k] : k \in upTo[i - 1]})}
    IN  upTo[Len(tree)]

\* A report without errors may still have warnings.
DryRun(tree) ==
    [errors |-> Registered(tree) # DOMAIN tree,
     plan   |-> FilesOf({tree[i] : i \in Registered(tree)})]
=============================================================================
