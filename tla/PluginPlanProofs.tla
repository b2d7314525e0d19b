-------------------------- MODULE PluginPlanProofs --------------------------
(* What a dry run without errors says about a plugin tree, for trees of any    *)
(* length. The dry run is a loop over the tree: the registered plugins are a   *)
(* recursive function of the position, and what holds of every position is     *)
(* proved by looking at the first one where it would not.                      *)
EXTENDS PluginPlans, FiniteSetTheorems, TLAPS

-----------------------------------------------------------------------------
(* The first position at which something fails. *)

LEMMA FirstPosition ==
    ASSUME NEW T \in SUBSET Nat, T # {}
    PROVE  \E x \in T : \A y \in T : x <= y
<1> DEFINE U == {0 .. i : i \in T}
           R == StrictSubsetOrdering(Nat)
<1>1. U \subseteq FiniteSubsetsOf(Nat)
  <2>1. ASSUME NEW i \in T PROVE 0 .. i \in SUBSET Nat /\ IsFiniteSet(0 .. i)
    <3>1. 0 \in Int /\ i \in Int
      OBVIOUS
    <3>2. QED
      BY <3>1, FS_Interval
  <2>2. QED
    BY <2>1 DEF FiniteSubsetsOf
<1>2. IsWellFoundedOn(R, FiniteSubsetsOf(Nat))
  BY FS_StrictSubsetOrderingWellFounded
<1>3. U # {}
  OBVIOUS
<1>4. PICK u \in U : \A w \in U : <<w, u>> \notin R
  <2> HIDE DEF U, R
  <2>1. QED
    BY <1>1, <1>2, <1>3, WFMin
<1>5. PICK x \in T : u = 0 .. x
  BY <1>4
<1>6. ASSUME NEW y \in T, y < x PROVE FALSE
  <2>1. 0 .. y \in U /\ 0 .. y \subseteq 0 .. x /\ 0 .. y # 0 .. x
    <3>1. x \in Nat /\ y \in Nat
      OBVIOUS
    <3>2. x \in 0 .. x /\ x \notin 0 .. y
      BY <1>6, <3>1
    <3>3. 0 .. y \subseteq 0 .. x
      BY <1>6, <3>1
    <3>4. 0 .. y # 0 .. x
      BY <3>2
    <3>5. 0 .. y \in U
      BY <1>6
    <3>6. QED
      BY <3>3, <3>4, <3>5
  <2>2. 0 .. y \in SUBSET Nat /\ 0 .. x \in SUBSET Nat
    OBVIOUS
  <2>3. <<0 .. y, u>> \in R
    BY <1>5, <2>1, <2>2 DEF StrictSubsetOrdering
  <2>4. QED
    BY <1>4, <2>1, <2>3
<1>7. QED
  <2>1. \A y \in T : x \in Nat /\ y \in Nat
    OBVIOUS
  <2>2. QED
    BY <1>6, <2>1

-----------------------------------------------------------------------------
(* The loop. *)

\* The plugins registered after position i, if those before it are g[i - 1].
Added(tree, S, i) ==
    {j \in {i} : DryAccepts(tree[j]) /\ Registers(tree[j], {tree[k] : k \in S})}

Loop(tree, g, n) ==
    [i \in 0 .. n |-> IF i = 0 THEN {} ELSE g[i - 1] \cup Added(tree, g[i - 1], i)]

IsLoop(tree, g, n) == g = Loop(tree, g, n)

\* The loop has a result, however long the tree is.
LEMMA LoopEnds ==
    ASSUME NEW tree, NEW n \in Nat
    PROVE  \E g : g = Loop(tree, g, n)
<1> DEFINE T == {m \in Nat : ~ \E g : g = Loop(tree, g, m)}
<1>1. CASE T = {}
  BY <1>1
<1>2. CASE T # {}
  <2>1. PICK m \in T : \A k \in T : m <= k
    <3>1. T \in SUBSET Nat
      OBVIOUS
    <3> HIDE DEF T
    <3>2. QED
      BY <1>2, <3>1, FirstPosition
  <2>2. CASE m = 0
    <3> DEFINE h == [i \in 0 .. 0 |-> {}]
    <3>1. h = Loop(tree, h, 0)
      BY DEF Loop
    <3>2. QED
      BY <2>1, <2>2, <3>1
  <2>3. CASE m # 0
    <3>1. m \in Nat /\ m - 1 \in Nat /\ ~(m <= m - 1)
      BY <2>1, <2>3
    <3>2. PICK g : g = Loop(tree, g, m - 1)
      BY <2>1, <3>1
    <3> DEFINE h == [i \in 0 .. m |-> IF i = m THEN g[m - 1] \cup Added(tree, g[m - 1], m)
                                      ELSE g[i]]
    <3>3. \A i \in 0 .. m - 1 : h[i] = g[i]
      BY <3>1
    <3>4. \A i \in 0 .. m - 1 :
              g[i] = IF i = 0 THEN {} ELSE g[i - 1] \cup Added(tree, g[i - 1], i)
      <4> HIDE DEF h
      <4>1. QED
        BY <3>2 DEF Loop
    <3>5. ASSUME NEW i \in 0 .. m
          PROVE  h[i] = IF i = 0 THEN {} ELSE h[i - 1] \cup Added(tree, h[i - 1], i)
      <4>1. CASE i = m
        <5>1. h[m] = g[m - 1] \cup Added(tree, g[m - 1], m) /\ h[m - 1] = g[m - 1]
          BY <3>1, <3>3
        <5>2. QED
          BY <2>3, <4>1, <5>1
      <4>2. CASE i # m
        <5>1. i \in 0 .. m - 1 /\ (i # 0 => i - 1 \in 0 .. m - 1)
          BY <3>1, <4>2
        <5>2. h[i] = g[i] /\ (i # 0 => h[i - 1] = g[i - 1])
          BY <3>3, <5>1
        <5> HIDE DEF h
        <5>3. QED
          BY <3>4, <5>1, <5>2
      <4>3. QED
        BY <4>1, <4>2
    <3>6. h = Loop(tree, h, m)
      <4>1. h = [i \in 0 .. m |-> h[i]]
        OBVIOUS
      <4> HIDE DEF h
      <4>2. QED
        BY <3>5, <4>1 DEF Loop
    <3>7. QED
      BY <2>1, <3>6
  <2>4. QED
    BY <2>2, <2>3
<1>3. QED
  BY <1>1, <1>2

UpTo(tree) == CHOOSE g : g = Loop(tree, g, Len(tree))

LEMMA RegisteredIsLoop ==
    ASSUME NEW tree
    PROVE  Registered(tree) = UpTo(tree)[Len(tree)]
BY DEF Registered, UpTo, Loop, Added

\* A position only adds itself: what is registered up to i stays.
Grows(g, n) == \A m \in 0 .. n : \A i \in 0 .. m : g[i] = g[m] \cap 1 .. i

LEMMA LoopGrows ==
    ASSUME NEW tree, NEW n \in Nat, NEW g, IsLoop(tree, g, n)
    PROVE  Grows(g, n)
<1> DEFINE T == {m \in 0 .. n : ~ \A i \in 0 .. m : g[i] = g[m] \cap 1 .. i}
<1>1. g[0] = {} /\ \A i \in 1 .. n : g[i] = g[i - 1] \cup Added(tree, g[i - 1], i)
  <2>1. \A i \in 0 .. n : g[i] = IF i = 0 THEN {} ELSE g[i - 1] \cup Added(tree, g[i - 1], i)
    BY DEF Loop, IsLoop
  <2>2. g[0] = {}
    <3>1. 0 \in 0 .. n
      OBVIOUS
    <3>2. QED
      BY <2>1, <3>1
  <2>3. ASSUME NEW i \in 1 .. n PROVE g[i] = g[i - 1] \cup Added(tree, g[i - 1], i)
    <3>1. i \in 0 .. n /\ i # 0
      OBVIOUS
    <3>2. QED
      BY <2>1, <3>1
  <2>4. QED
    BY <2>2, <2>3
<1>2. CASE T = {}
  BY <1>2 DEF Grows
<1>3. CASE T # {}
  <2>1. PICK m \in T : \A k \in T : m <= k
    <3>1. T \in SUBSET Nat
      OBVIOUS
    <3> HIDE DEF T
    <3>2. QED
      BY <1>3, <3>1, FirstPosition
  <2>2. m # 0
    BY <1>1, <2>1
  <2>3. m \in 1 .. n /\ m - 1 \in 0 .. n /\ ~(m <= m - 1)
    BY <2>1, <2>2
  <2>4. \A i \in 0 .. m - 1 : g[i] = g[m - 1] \cap 1 .. i
    BY <2>1, <2>3
  <2>5. PICK X : X \subseteq {m} /\ g[m] = g[m - 1] \cup X
    BY <1>1, <2>3 DEF Added
  <2>6. g[m - 1] \subseteq 1 .. m - 1
    BY <2>3, <2>4
  <2>7. ASSUME NEW i \in 0 .. m PROVE g[i] = g[m] \cap 1 .. i
    <3>1. CASE i = m
      <4>1. g[m] \subseteq 1 .. m
        <5>1. 1 .. m - 1 \subseteq 1 .. m /\ m \in 1 .. m
          BY <2>3
        <5>2. QED
          BY <2>5, <2>6, <5>1
      <4>2. QED
        BY <3>1, <4>1
    <3>2. CASE i # m
      <4>1. i \in 0 .. m - 1 /\ m \notin 1 .. i
        BY <2>3, <3>2
      <4>2. QED
        BY <2>4, <2>5, <4>1
    <3>3. QED
      BY <3>1, <3>2
  <2>8. QED
    BY <2>1, <2>7
<1>4. QED
  BY <1>2, <1>3

\* In a tree that is registered as a whole each plugin passed the checks of the
\* dry run against all the plugins before it.
LEMMA AllRegistered ==
    ASSUME NEW tree \in Seq(Manifest), Registered(tree) = DOMAIN tree
    PROVE  \A i \in DOMAIN tree : DryAccepts(tree[i]) /\ Registers(tree[i], Earlier(tree, i))
<1>1. PICK n \in Nat : n = Len(tree) /\ DOMAIN tree = 1 .. n
  OBVIOUS
<1>2. PICK g : IsLoop(tree, g, n) /\ g = UpTo(tree)
  BY <1>1, LoopEnds DEF UpTo, IsLoop
<1>3. g[n] = 1 .. n
  BY <1>1, <1>2, RegisteredIsLoop
<1>4. \A i \in 0 .. n : g[i] = 1 .. i
  <2>1. Grows(g, n)
    BY <1>1, <1>2, LoopGrows
  <2>2. \A i \in 0 .. n : g[i] = 1 .. n \cap 1 .. i
    <3>1. n \in 0 .. n
      BY <1>1
    <3>2. QED
      BY <1>3, <2>1, <3>1 DEF Grows
  <2>3. ASSUME NEW i \in 0 .. n PROVE 1 .. n \cap 1 .. i = 1 .. i
    BY <1>1
  <2>4. QED
    BY <2>2, <2>3
<1>5. ASSUME NEW i \in 1 .. n
      PROVE  DryAccepts(tree[i]) /\ Registers(tree[i], Earlier(tree, i))
  <2>1. i - 1 \in 0 .. n /\ i \in 0 .. n /\ i # 0
    BY <1>1
  <2>2. g[i] = g[i - 1] \cup Added(tree, g[i - 1], i)
    BY <1>2, <2>1 DEF IsLoop, Loop
  <2>3. g[i - 1] = 1 .. i - 1 /\ i \in g[i] /\ i \notin 1 .. i - 1
    BY <1>1, <1>4, <2>1
  <2>4. i \in Added(tree, 1 .. i - 1, i)
    BY <2>2, <2>3
  <2>5. QED
    BY <2>4 DEF Added, Earlier
<1>6. QED
  BY <1>1, <1>5

\* A dry run without errors: the migration collects the same files and does not
\* raise, each of them is a file in the directory of its plugin, and the worker's
\* registry refuses none of the plugins.
THEOREM DryRunIsSound ==
    ASSUME NEW tree \in Seq(Manifest), ~DryRun(tree).errors
    PROVE  /\ Collects(tree)
           /\ PoliciesAccept(tree)
           /\ DryRun(tree).plan = Plan(tree)
           /\ \A m \in Plan(tree) : m.file.place = "inside"
<1>1. Registered(tree) = DOMAIN tree
  BY DEF DryRun
<1>2. \A i \in DOMAIN tree : DryAccepts(tree[i]) /\ Registers(tree[i], Earlier(tree, i))
  BY <1>1, AllRegistered
<1>3. Collects(tree)
  BY <1>2 DEF Collects, DryAccepts, Registers
<1>4. PoliciesAccept(tree)
  BY <1>2 DEF PoliciesAccept, PolicyAccepts, DryAccepts
<1>5. DryRun(tree).plan = Plan(tree)
  BY <1>1 DEF DryRun, Plan
<1>6. \A m \in Plan(tree) : m.file.place = "inside"
  BY <1>2 DEF Plan, FilesOf, DryAccepts
<1>7. QED
  BY <1>3, <1>4, <1>5, <1>6
=============================================================================
