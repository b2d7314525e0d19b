---------------------------- MODULE MCTaskWorkers ----------------------------
(* Instances of TaskWorkers for TLC. *)
EXTENDS TaskProperties, TLC

CONSTANTS r, b, n, c, s1, w1, w2, w3

\* One root r with a blocking subtask b and a non-blocking subtask n.
FamilyParent   == [x \in {b, n} |-> r]
FamilyScenario == [t \in {r, b, n} |-> s1]
FamilyLimits   == [t \in {r, b, n} |-> NoLimit]

\* One root r with a cyclical blocking subtask c, run at most twice, and a
\* LINEAR non-blocking subtask n.
CycleParent   == [x \in {c, n} |-> r]
CycleScenario == [t \in {r, c, n} |-> s1]
CycleLimits   == [t \in {r, c, n} |-> IF t = c THEN 2 ELSE NoLimit]

\* Each worker is a process, or w3 is what w1 goes on as after a failed batch.
Processes     == [w \in Worker |-> w]
FirstHasSpare == [w \in Worker |-> IF w = w2 THEN w2 ELSE w1]

Workers == Permutations(Worker)
=============================================================================
