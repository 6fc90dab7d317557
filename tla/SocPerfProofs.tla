--------------------------- MODULE SocPerfProofs ---------------------------
(***************************************************************************)
(* Proofs about SocPerfPlugin and the start.  SocPerfScreen, for any       *)
(* device modes and orientations, any number of delayed tasks and          *)
(* undelivered events, and both builds: type correctness, and that the     *)
(* requests never contradict each other.  SocPerfEvents: no boost outlives *)
(* its scene.  SocPerfFocus, for any applications: the game flag and the   *)
(* weak action mode. SocPerfBattery: the frequency limit is that of the    *)
(* level. SocPerfExecutor, for any configuration files: what a write reads *)
(* is defined.  ConfigLoad, for any files and libraries: the settings and  *)
(* the switches are those of the last good file.  ExecutorInit and         *)
(* OobeManager are the other parts of the start: what ExecutorGetsPlugins  *)
(* and OobeStaysRight of PartsProofs rest on.  The first section has the   *)
(* facts about sums and folds that these and other proofs use, the last    *)
(* one the types of these modules that MCParts checks.                     *)
(***************************************************************************)
EXTENDS SocPerfScreen, SocPerfFocus, SocPerfEvents, SocPerfBattery, SocPerfExecutor, ConfigLoad,
        ExecutorInit, OobeManager, TLAPS, FiniteSetTheorems, SequenceTheorems

-----------------------------------------------------------------------------
(* Sums and other folds.  A set of natural numbers has a least element, so *)
(* a set of finite sets has a smallest one: what fails for some finite set *)
(* fails for one whose smaller sets are all right.                         *)
LEMMA NatLeast ==
  ASSUME NEW T, T \subseteq Nat, T # {}
  PROVE  \E x \in T : \A y \in T : x <= y
<1> DEFINE R == OpToRel(<, Nat)
<1>1. IsWellFoundedOn(R, Nat)
  BY NatLessThanWellFounded
<1>2. \A x, y \in Nat : <<y, x>> \in R <=> y < x
  BY DEF OpToRel
<1> HIDE DEF R
<1>3. PICK x \in T : \A y \in T : ~(<<y, x>> \in R)
  BY <1>1, WFMin
<1>4. \A y \in T : ~(y < x)
  BY <1>2, <1>3
<1>5. \A y \in T : x <= y
  BY <1>4
<1> QED
  BY <1>3, <1>5

LEMMA SmallestSet ==
  ASSUME NEW S, IsFiniteSet(S), NEW F \in SUBSET SUBSET S, F # {}
  PROVE  \E s \in F : \A x \in s : s \ {x} \notin F
<1> DEFINE T == {Cardinality(s) : s \in F}
<1>1. \A s \in F : IsFiniteSet(s) /\ Cardinality(s) \in Nat
  BY FS_Subset, FS_CardinalityType
<1>2. T \subseteq Nat /\ T # {}
  BY <1>1
<1> HIDE DEF T
<1>3. PICK n \in T : \A m \in T : n <= m
  BY <1>2, NatLeast
<1>4. PICK s \in F : n = Cardinality(s)
  BY <1>3 DEF T
<1>5. ASSUME NEW x \in s, s \ {x} \in F PROVE FALSE
  <2>1. Cardinality(s \ {x}) = Cardinality(s) - 1 /\ Cardinality(s \ {x}) \in T
    BY <1>1, <1>4, <1>5, FS_RemoveElement DEF T
  <2> QED
    BY <1>1, <1>3, <1>4, <2>1
<1> QED
  BY <1>5

(* A finite set of numbers has a largest.                                  *)
LEMMA LargestOf ==
  ASSUME NEW S \in SUBSET Int, IsFiniteSet(S), S # {}
  PROVE  Max(S) \in S /\ \A y \in S : y <= Max(S)
<1> DEFINE Bad == {s \in SUBSET S : s # {} /\ ~ \E x \in s : \A y \in s : x >= y}
<1>1. Bad = {}
  <2> SUFFICES ASSUME Bad # {} PROVE FALSE
    OBVIOUS
  <2>1. Bad \in SUBSET SUBSET S
    OBVIOUS
  <2>2. PICK s \in Bad : \A x \in s : s \ {x} \notin Bad
    BY <2>1, SmallestSet
  <2>3. PICK x : x \in s
    OBVIOUS
  <2>4. CASE s \ {x} = {}
    BY <2>2, <2>3, <2>4
  <2>5. CASE s \ {x} # {}
    <3>1. PICK z \in s \ {x} : \A y \in s \ {x} : z >= y
      BY <2>2, <2>3, <2>5
    <3>2. x \in Int /\ z \in Int /\ s \subseteq Int /\ ~ \E v \in s : \A y \in s : v >= y
      BY <2>2, <2>3, <3>1
    <3>3. CASE x >= z
      BY <2>3, <3>1, <3>2, <3>3
    <3>4. CASE z >= x
      BY <2>3, <3>1, <3>2, <3>4
    <3> QED
      BY <3>2, <3>3, <3>4
  <2> QED
    BY <2>4, <2>5
<1>2. \E x \in S : \A y \in S : x >= y
  BY <1>1
<1>3. Max(S) \in S /\ \A y \in S : Max(S) >= y
  BY <1>2, Zenon DEF Max
<1>4. Max(S) \in Int /\ \A y \in S : y \in Int
  BY <1>3
<1> QED
  BY <1>3, <1>4

(* The function a fold is defined by: it takes the elements out one by one.*)
Pick(s) == CHOOSE x \in s : TRUE
FoldedBy(g, comb, base, f, S) ==
  g = [s \in SUBSET S |-> IF s = {} THEN base ELSE comb[<<f[Pick(s)], g[s \ {Pick(s)}]>>]]

LEMMA PickIn == \A s : s # {} => Pick(s) \in s
  BY DEF Pick

(* The same, with the element to take out given by pick.                   *)
FoldsBy(g, comb, base, f, pick, S) ==
  \A s \in SUBSET S : g[s] = IF s = {} THEN base ELSE comb[<<f[pick[s]], g[s \ {pick[s]}]>>]
PickedFrom(pick, S) == \A s \in SUBSET S : s # {} => pick[s] \in s
MapsInto(f, S, U) == \A x \in S : f[x] \in U

LEMMA FoldExistsBy ==
  ASSUME NEW S, IsFiniteSet(S), NEW U, NEW V, NEW base \in V, NEW comb \in [U \X V -> V],
         NEW f, MapsInto(f, S, U), NEW pick, PickedFrom(pick, S)
  PROVE  \E g \in [SUBSET S -> V] : FoldsBy(g, comb, base, f, pick, S)
<1> DEFINE Of(g, s) == IF s = {} THEN base ELSE comb[<<f[pick[s]], g[s \ {pick[s]}]>>]
           Upto(n) == \E g \in [SUBSET S -> V] :
                        \A s \in SUBSET S : Cardinality(s) <= n => g[s] = Of(g, s)
           Bad == {n \in Nat : ~Upto(n)}
<1>1. \A s \in SUBSET S : IsFiniteSet(s) /\ Cardinality(s) \in Nat /\ Cardinality(s) <= Cardinality(S)
  BY FS_Subset, FS_CardinalityType
<1>2. \A s \in SUBSET S : s # {} => /\ pick[s] \in S /\ s \ {pick[s]} \in SUBSET S
                                     /\ Cardinality(s \ {pick[s]}) = Cardinality(s) - 1
  BY <1>1, FS_RemoveElement DEF PickedFrom
<1>3. \A g \in [SUBSET S -> V], s \in SUBSET S : Of(g, s) \in V
  <2> TAKE g \in [SUBSET S -> V], s \in SUBSET S
  <2>1. CASE s = {}
    BY <2>1
  <2>2. CASE s # {}
    <3>1. f[pick[s]] \in U /\ g[s \ {pick[s]}] \in V
      BY <1>2, <2>2 DEF MapsInto
    <3> QED
      BY <2>2, <3>1
  <2> QED
    BY <2>1, <2>2
<1>4. Upto(0)
  <2> DEFINE g == [s \in SUBSET S |-> base]
  <2>1. g \in [SUBSET S -> V]
    OBVIOUS
  <2>2. ASSUME NEW s \in SUBSET S, Cardinality(s) <= 0 PROVE g[s] = Of(g, s)
    <3>1. s = {}
      BY <1>1, <2>2, FS_EmptySet
    <3> QED
      BY <3>1
  <2> HIDE DEF g, Of
  <2> QED
    BY <2>1, <2>2
<1>5. ASSUME NEW n \in Nat, Upto(n) PROVE Upto(n + 1)
  <2> HIDE DEF Of
  <2>1. PICK g \in [SUBSET S -> V] : \A s \in SUBSET S : Cardinality(s) <= n => g[s] = Of(g, s)
    BY <1>5
  <2> DEFINE h == [s \in SUBSET S |-> Of(g, s)]
  <2>2. h \in [SUBSET S -> V]
    BY <1>3
  <2>3. ASSUME NEW s \in SUBSET S, Cardinality(s) <= n + 1 PROVE h[s] = Of(h, s)
    <3>1. CASE s = {}
      BY <3>1 DEF Of
    <3>2. CASE s # {}
      <4>1. s \ {pick[s]} \in SUBSET S /\ Cardinality(s \ {pick[s]}) <= n
        BY <1>1, <1>2, <2>3, <3>2
      <4>2. h[s \ {pick[s]}] = g[s \ {pick[s]}]
        BY <2>1, <4>1
      <4>3. h[s] = Of(g, s)
        OBVIOUS
      <4> HIDE DEF h
      <4> QED
        BY <3>2, <4>2, <4>3 DEF Of
    <3> QED
      BY <3>1, <3>2
  <2> HIDE DEF h
  <2> QED
    BY <2>2, <2>3
<1> HIDE DEF Upto, Of
<1>6. Bad = {}
  <2> SUFFICES ASSUME Bad # {} PROVE FALSE
    OBVIOUS
  <2>1. PICK n \in Bad : \A m \in Bad : n <= m
    BY NatLeast
  <2>2. n \in Nat /\ n # 0
    BY <1>4
  <2>3. n - 1 \in Nat /\ Upto(n - 1)
    BY <2>1, <2>2
  <2>4. Upto((n - 1) + 1)
    BY <1>5, <2>3
  <2> QED
    BY <2>2, <2>4
<1>7. Upto(Cardinality(S))
  BY <1>6, FS_CardinalityType
<1>8. PICK g \in [SUBSET S -> V] : \A s \in SUBSET S : g[s] = Of(g, s)
  BY <1>1, <1>7 DEF Upto
<1> QED
  BY <1>8 DEF Of, FoldsBy

LEMMA FoldExists ==
  ASSUME NEW S, IsFiniteSet(S), NEW V, NEW base \in V, NEW comb \in [V \X V -> V],
         NEW f, \A x \in S : f[x] \in V
  PROVE  \E g \in [SUBSET S -> V] : FoldedBy(g, comb, base, f, S)
<1> DEFINE pick == [s \in SUBSET S |-> Pick(s)]
<1>1. \A s \in SUBSET S : pick[s] = Pick(s) /\ (s # {} => pick[s] \in s)
  BY PickIn
<1> HIDE DEF pick
<1>a. PickedFrom(pick, S) /\ MapsInto(f, S, V)
  BY <1>1 DEF PickedFrom, MapsInto
<1>2. PICK g \in [SUBSET S -> V] : FoldsBy(g, comb, base, f, pick, S)
  BY <1>a, FoldExistsBy
<1> DEFINE Of(s) == IF s = {} THEN base ELSE comb[<<f[Pick(s)], g[s \ {Pick(s)}]>>]
<1>3. \A s \in SUBSET S : g[s] = Of(s)
  BY <1>1, <1>2 DEF FoldsBy
<1> HIDE DEF Of
<1>4. g = [s \in SUBSET S |-> Of(s)]
  BY <1>3
<1> QED
  BY <1>4 DEF FoldedBy, Of

(* The fold of a sequence from the left takes the largest place out of a   *)
(* set of places.                                                          *)
LeftFolds(g, comb, base, q, V) ==
  /\ g[{}] = base
  /\ \A s \in SUBSET DOMAIN q : s # {} /\ g[s \ {Max(s)}] \in V
                               => g[s] = comb[<<g[s \ {Max(s)}], q[Max(s)]>>]

LEMMA LeftFoldExists ==
  ASSUME NEW V, NEW D, NEW q \in Seq(D), NEW base \in V, NEW comb \in [V \X D -> V]
  PROVE  \E g \in [SUBSET DOMAIN q -> V] : LeftFolds(g, comb, base, q, V)
<1> DEFINE S == DOMAIN q
           pick == [s \in SUBSET S |-> Max(s)]
           back == [p \in D \X V |-> comb[<<p[2], p[1]>>]]
<1>1. S = 1..Len(q) /\ Len(q) \in Nat /\ IsFiniteSet(S) /\ \A x \in S : q[x] \in D
  BY FS_Interval
<1>2. ASSUME NEW s \in SUBSET S, s # {} PROVE Max(s) \in s
  <2>1. s \in SUBSET Int /\ IsFiniteSet(s)
    BY <1>1, FS_Subset
  <2> QED
    BY <1>2, <2>1, LargestOf
<1>3. \A s \in SUBSET S : pick[s] = Max(s) /\ (s # {} => pick[s] \in s)
  BY <1>2
<1>4. back \in [D \X V -> V] /\ \A d \in D, v \in V : back[<<d, v>>] = comb[<<v, d>>]
  OBVIOUS
<1> HIDE DEF pick, back, S
<1>5. PICK g \in [SUBSET S -> V] : FoldsBy(g, back, base, q, pick, S)
  <2>1. IsFiniteSet(S) /\ back \in [D \X V -> V] /\ MapsInto(q, S, D) /\ PickedFrom(pick, S)
    BY <1>1, <1>3, <1>4 DEF MapsInto, PickedFrom
  <2> QED
    BY <2>1, FoldExistsBy
<1>6. ASSUME NEW s \in SUBSET S, s # {} PROVE g[s] = comb[<<g[s \ {Max(s)}], q[Max(s)]>>]
  <2>1. Max(s) \in S /\ s \ {Max(s)} \in SUBSET S
    BY <1>2, <1>6
  <2>2. g[s \ {Max(s)}] \in V /\ q[Max(s)] \in D
    BY <1>1, <2>1
  <2>3. g[s] = back[<<q[pick[s]], g[s \ {pick[s]}]>>]
    BY <1>5, <1>6 DEF FoldsBy
  <2>4. pick[s] = Max(s)
    BY <1>3
  <2>5. g[s] = back[<<q[Max(s)], g[s \ {Max(s)}]>>]
    BY <2>3, <2>4
  <2> QED
    BY <1>4, <2>2, <2>5
<1>7. g[{}] = base
  BY <1>5 DEF FoldsBy
<1> QED
  BY <1>5, <1>6, <1>7 DEF S, LeftFolds

(* Induction along a sequence.                                             *)
LEMMA Climbs ==
  ASSUME NEW n \in Nat, NEW B, 0 \in B, \A i \in 1..n : i - 1 \in B => i \in B
  PROVE  \A i \in 0..n : i \in B
<1> DEFINE Bad == {i \in 0..n : i \notin B}
<1> SUFFICES ASSUME Bad # {} PROVE FALSE
  OBVIOUS
<1>0. Bad \subseteq Nat
  OBVIOUS
<1>1. PICK x \in Bad : \A y \in Bad : x <= y
  BY <1>0, NatLeast
<1>2. x \in 1..n
  BY <1>1
<1>3. x - 1 \in 0..n /\ ~(x <= x - 1)
  BY <1>2
<1> QED
  BY <1>1, <1>2, <1>3

(* The function by which a fold from the left is defined, along the        *)
(* sequence.                                                               *)
LEMMA LeftPlaces ==
  ASSUME NEW D, NEW q \in Seq(D)
  PROVE  /\ DOMAIN q = 1..Len(q) /\ Len(q) \in Nat /\ \A i \in 1..Len(q) : q[i] \in D
         /\ 1..0 = {}
         /\ \A i \in 1..Len(q) : /\ 1..i \in SUBSET DOMAIN q /\ 1..i # {}
                                  /\ Max(1..i) = i /\ (1..i) \ {i} = 1..(i - 1)
<1>1. DOMAIN q = 1..Len(q) /\ Len(q) \in Nat /\ (\A i \in 1..Len(q) : q[i] \in D) /\ 1..0 = {}
  OBVIOUS
<1>2. ASSUME NEW i \in 1..Len(q)
      PROVE  1..i \in SUBSET DOMAIN q /\ 1..i # {} /\ Max(1..i) = i /\ (1..i) \ {i} = 1..(i - 1)
  <2>1. 1..i \in SUBSET (1..Len(q)) /\ i \in 1..i /\ (1..i) \ {i} = 1..(i - 1)
    BY <1>1
  <2>2. Max(1..i) \in 1..i /\ i <= Max(1..i)
    <3>1. 1..i \in SUBSET Int /\ IsFiniteSet(1..i)
      BY FS_Interval
    <3> QED
      BY <2>1, <3>1, LargestOf
  <2>3. Max(1..i) = i
    BY <2>2
  <2> QED
    BY <1>1, <2>1, <2>3
<1> QED
  BY <1>1, <1>2

LEMMA LeftMax ==
  ASSUME NEW D, NEW q \in Seq(D), NEW s \in SUBSET DOMAIN q, s # {}
  PROVE  Max(s) \in s /\ Max(s) \in DOMAIN q /\ q[Max(s)] \in D /\ s \ {Max(s)} \in SUBSET DOMAIN q
<1>1. DOMAIN q = 1..Len(q) /\ Len(q) \in Nat /\ \A i \in DOMAIN q : q[i] \in D
  OBVIOUS
<1>2. s \in SUBSET Int /\ IsFiniteSet(s)
  <2>1. IsFiniteSet(DOMAIN q) /\ s \in SUBSET Int
    BY <1>1, FS_Interval
  <2> QED
    BY <2>1, FS_Subset
<1>3. Max(s) \in s
  BY <1>2, LargestOf
<1> QED
  BY <1>1, <1>3

RunsTo(h, comb, base, q, res) ==
  h[0] = base /\ h[Len(q)] = res /\ \A i \in 1..Len(q) : h[i] = comb[<<h[i - 1], q[i]>>]

LEMMA LeftAlong ==
  ASSUME NEW V, NEW D, NEW q \in Seq(D), NEW base \in V, NEW comb \in [V \X D -> V],
         NEW it, LeftFolds(it, comb, base, q, V)
  PROVE  \E h \in [0..Len(q) -> V] : RunsTo(h, comb, base, q, it[DOMAIN q])
<1> DEFINE n == Len(q)
           h == [i \in 0..n |-> it[1..i]]
           B == {i \in 0..n : h[i] \in V}
<1>1. n \in Nat /\ DOMAIN q = 1..n /\ 1..0 = {} /\ 0 \in 0..n /\ n \in 0..n
  BY LeftPlaces
<1>2. ASSUME NEW i \in 1..n, h[i - 1] \in V
      PROVE  h[i] \in V /\ h[i] = comb[<<h[i - 1], q[i]>>]
  <2>1. i \in 0..n /\ i - 1 \in 0..n /\ q[i] \in D
    BY <1>1, LeftPlaces
  <2>2. h[i] = it[1..i] /\ h[i - 1] = it[(1..i) \ {Max(1..i)}] /\ Max(1..i) = i
        /\ 1..i \in SUBSET DOMAIN q /\ 1..i # {}
    BY <2>1, LeftPlaces
  <2> HIDE DEF h
  <2>3. h[i] = comb[<<h[i - 1], q[i]>>]
    BY <1>2, <2>2 DEF LeftFolds
  <2> QED
    BY <1>2, <2>1, <2>3
<1>3. h[0] = base /\ h[n] = it[DOMAIN q]
  BY <1>1 DEF LeftFolds
<1>4. \A i \in 0..n : i \in B
  <2>1. 0 \in B
    BY <1>1, <1>3
  <2>2. ASSUME NEW i \in 1..n, i - 1 \in B PROVE i \in B
    <3>1. i \in 0..n /\ h[i - 1] \in V
      BY <1>1, <2>2
    <3> HIDE DEF h
    <3> QED
      BY <1>2, <3>1
  <2> HIDE DEF B
  <2> QED
    BY <1>1, <2>1, <2>2, Climbs
<1>5. h \in [0..n -> V]
  BY <1>4
<1>6. \A i \in 1..n : h[i] = comb[<<h[i - 1], q[i]>>]
  <2> TAKE i \in 1..n
  <2>1. i - 1 \in 0..n
    BY <1>1
  <2> HIDE DEF h
  <2> QED
    BY <1>2, <1>5, <2>1
<1> HIDE DEF h
<1> QED
  BY <1>3, <1>5, <1>6 DEF RunsTo

(* Two folds with the same elements give the same.                         *)
LEMMA FoldsAgree ==
  ASSUME NEW A, IsFiniteSet(A), NEW B, NEW comb, NEW base, NEW f, NEW k, NEW g, NEW h,
         FoldedBy(g, comb, base, f, A), FoldedBy(h, comb, base, k, B),
         NEW s \in SUBSET A, s \subseteq B, \A x \in s : f[x] = k[x]
  PROVE  g[s] = h[s]
<1> DEFINE Bad == {t \in SUBSET s : g[t] # h[t]}
<1> SUFFICES ASSUME g[s] # h[s] PROVE FALSE
  OBVIOUS
<1>1. IsFiniteSet(s) /\ Bad # {} /\ Bad \in SUBSET SUBSET s
  BY FS_Subset
<1> HIDE DEF Bad
<1>2. PICK t \in Bad : \A x \in t : t \ {x} \notin Bad
  BY <1>1, SmallestSet
<1>3. t \in SUBSET s /\ g[t] # h[t]
  BY <1>2 DEF Bad
<1>4. /\ g[t] = IF t = {} THEN base ELSE comb[<<f[Pick(t)], g[t \ {Pick(t)}]>>]
      /\ h[t] = IF t = {} THEN base ELSE comb[<<k[Pick(t)], h[t \ {Pick(t)}]>>]
  <2>1. t \in SUBSET A /\ t \in SUBSET B
    BY <1>3
  <2> QED
    BY <2>1 DEF FoldedBy
<1>5. t # {} /\ Pick(t) \in t
  BY <1>3, <1>4, PickIn
<1>6. f[Pick(t)] = k[Pick(t)] /\ g[t \ {Pick(t)}] = h[t \ {Pick(t)}]
  BY <1>2, <1>3, <1>5 DEF Bad
<1> QED
  BY <1>3, <1>4, <1>6

(* SumFunctionOnSet: the sum of the values of f at the elements of S.      *)
Total(f, S) == SumFunctionOnSet(f, S)
Plus == [p \in Nat \X Nat |-> p[1] + p[2]]
Counted(f, S) == IsFiniteSet(S) /\ \A x \in S : f[x] \in Nat

LEMMA TotalIsFold ==
  ASSUME NEW f, NEW S, Counted(f, S)
  PROVE  \E g \in [SUBSET S -> Nat] : FoldedBy(g, Plus, 0, f, S) /\ Total(f, S) = g[S]
<1> DEFINE Adds(g) == g = [s \in SUBSET S |-> IF s = {} THEN 0
                            ELSE f[CHOOSE x \in s : TRUE] + g[s \ {CHOOSE x \in s : TRUE}]]
           sum == CHOOSE g : Adds(g)
<1>1. Total(f, S) = sum[S]
  BY DEF Total, SumFunctionOnSet, FoldFunctionOnSet, MapThenFoldSet
<1>2. Plus \in [Nat \X Nat -> Nat]
  BY DEF Plus
<1>3. PICK h \in [SUBSET S -> Nat] : FoldedBy(h, Plus, 0, f, S)
  BY <1>2, FoldExists DEF Counted
<1>4. \A s \in SUBSET S : s # {} => f[Pick(s)] \in Nat /\ s \ {Pick(s)} \in SUBSET S
  BY PickIn DEF Counted
<1>5. Adds(h)
  <2>1. h = [s \in SUBSET S |-> IF s = {} THEN 0 ELSE Plus[<<f[Pick(s)], h[s \ {Pick(s)}]>>]]
    BY <1>3 DEF FoldedBy
  <2>2. \A s \in SUBSET S : h[s] = IF s = {} THEN 0 ELSE f[Pick(s)] + h[s \ {Pick(s)}]
    <3> TAKE s \in SUBSET S
    <3>1. CASE s = {}
      BY <2>1, <3>1
    <3>2. CASE s # {}
      <4>1. h[s \ {Pick(s)}] \in Nat
        BY <1>4, <3>2
      <4>2. h[s] = Plus[<<f[Pick(s)], h[s \ {Pick(s)}]>>]
        BY <2>1, <3>2
      <4> QED
        BY <1>4, <3>2, <4>1, <4>2 DEF Plus
    <3> QED
      BY <3>1, <3>2
  <2> QED
    BY <2>2 DEF Pick
<1> HIDE DEF Adds
<1>6. Adds(sum)
  BY <1>5
<1> HIDE DEF sum
<1>7. sum = [s \in SUBSET S |-> IF s = {} THEN 0 ELSE f[Pick(s)] + sum[s \ {Pick(s)}]]
  BY <1>6 DEF Adds, Pick
<1>8. \A s \in SUBSET S : sum[s] = h[s]
  <2> DEFINE Bad == {s \in SUBSET S : sum[s] # h[s]}
  <2> SUFFICES ASSUME Bad # {} PROVE FALSE
    OBVIOUS
  <2>1. Bad \in SUBSET SUBSET S /\ IsFiniteSet(S)
    BY DEF Counted
  <2> HIDE DEF Bad
  <2>2. PICK t \in Bad : \A x \in t : t \ {x} \notin Bad
    BY <2>1, SmallestSet
  <2>3. t \in SUBSET S /\ sum[t] # h[t]
    BY <2>2 DEF Bad
  <2>4. /\ sum[t] = IF t = {} THEN 0 ELSE f[Pick(t)] + sum[t \ {Pick(t)}]
        /\ h[t] = IF t = {} THEN 0 ELSE f[Pick(t)] + h[t \ {Pick(t)}]
    <3>1. h = [s \in SUBSET S |-> IF s = {} THEN 0 ELSE f[Pick(s)] + h[s \ {Pick(s)}]]
      BY <1>5 DEF Adds, Pick
    <3> QED
      BY <1>7, <2>3, <3>1
  <2>5. t # {} /\ sum[t \ {Pick(t)}] = h[t \ {Pick(t)}]
    BY <2>2, <2>3, <2>4, PickIn DEF Bad
  <2> QED
    BY <2>3, <2>4, <2>5
<1> QED
  BY <1>1, <1>3, <1>8

LEMMA TotalType ==
  ASSUME NEW f, NEW S, Counted(f, S)
  PROVE  Total(f, S) \in Nat
<1>1. PICK g \in [SUBSET S -> Nat] : Total(f, S) = g[S]
  BY TotalIsFold
<1> QED
  BY <1>1

LEMMA TotalSame ==
  ASSUME NEW f, NEW k, NEW S, Counted(f, S), \A x \in S : f[x] = k[x]
  PROVE  Total(f, S) = Total(k, S)
<1>1. Counted(k, S)
  BY DEF Counted
<1>2. PICK g : FoldedBy(g, Plus, 0, f, S) /\ Total(f, S) = g[S]
  BY TotalIsFold
<1>3. PICK h : FoldedBy(h, Plus, 0, k, S) /\ Total(k, S) = h[S]
  BY <1>1, TotalIsFold
<1>4. g[S] = h[S]
  BY <1>2, <1>3, FoldsAgree DEF Counted
<1> QED
  BY <1>2, <1>3, <1>4

LEMMA CountedSubset ==
  ASSUME NEW f, NEW S, Counted(f, S), NEW s \in SUBSET S
  PROVE  Counted(f, s)
  BY FS_Subset DEF Counted

LEMMA TotalPicked ==
  ASSUME NEW f, NEW S, Counted(f, S)
  PROVE  Total(f, S) = IF S = {} THEN 0 ELSE f[Pick(S)] + Total(f, S \ {Pick(S)})
<1> DEFINE T == S \ {Pick(S)}
<1>1. PICK g \in [SUBSET S -> Nat] : FoldedBy(g, Plus, 0, f, S) /\ Total(f, S) = g[S]
  BY TotalIsFold
<1>2. T \in SUBSET S /\ Counted(f, T)
  BY CountedSubset
<1>3. PICK h : FoldedBy(h, Plus, 0, f, T) /\ Total(f, T) = h[T]
  BY <1>2, TotalIsFold
<1>4. g[T] = h[T]
  BY <1>1, <1>2, <1>3, FoldsAgree DEF Counted
<1>5. g[S] = IF S = {} THEN 0 ELSE Plus[<<f[Pick(S)], g[T]>>]
  BY <1>1 DEF FoldedBy
<1>6. g[T] \in Nat /\ (S # {} => f[Pick(S)] \in Nat)
  BY <1>1, <1>2, PickIn DEF Counted
<1> HIDE DEF T
<1> QED
  BY <1>1, <1>3, <1>4, <1>5, <1>6 DEF Plus, T

(* Any element can be taken out.                                           *)
LEMMA TotalWithout ==
  ASSUME NEW f, NEW S, Counted(f, S), NEW x \in S
  PROVE  Total(f, S) = f[x] + Total(f, S \ {x})
<1> DEFINE Bad == {s \in SUBSET S : \E z \in s : Total(f, s) # f[z] + Total(f, s \ {z})}
<1> SUFFICES ASSUME Bad # {} PROVE FALSE
  OBVIOUS
<1>1. Bad \in SUBSET SUBSET S /\ IsFiniteSet(S)
  BY DEF Counted
<1> HIDE DEF Bad
<1>2. PICK s \in Bad : \A y \in s : s \ {y} \notin Bad
  BY <1>1, SmallestSet
<1>3. PICK z \in s : Total(f, s) # f[z] + Total(f, s \ {z})
  BY <1>2 DEF Bad
<1>4. s \in SUBSET S /\ Counted(f, s)
  BY <1>2, CountedSubset DEF Bad
<1> DEFINE y == Pick(s)
<1>5. y \in s /\ Total(f, s) = f[y] + Total(f, s \ {y})
  BY <1>3, <1>4, TotalPicked, PickIn
<1> HIDE DEF y
<1>6. y # z
  BY <1>3, <1>5
<1>7. Total(f, s \ {y}) = f[z] + Total(f, (s \ {y}) \ {z})
  BY <1>2, <1>3, <1>4, <1>5, <1>6 DEF Bad
<1>8. Total(f, s \ {z}) = f[y] + Total(f, (s \ {z}) \ {y})
  BY <1>2, <1>3, <1>4, <1>5, <1>6 DEF Bad
<1>9. Total(f, (s \ {z}) \ {y}) = Total(f, (s \ {y}) \ {z})
  <2>1. (s \ {z}) \ {y} = (s \ {y}) \ {z}
    OBVIOUS
  <2> QED
    BY <2>1
<1>10. f[y] \in Nat /\ f[z] \in Nat /\ Total(f, (s \ {y}) \ {z}) \in Nat
  <2>1. (s \ {y}) \ {z} \in SUBSET s
    OBVIOUS
  <2>2. Counted(f, (s \ {y}) \ {z})
    BY <1>4, <2>1, CountedSubset
  <2> QED
    BY <1>4, <1>5, <2>2, TotalType DEF Counted
<1> QED
  BY <1>3, <1>5, <1>7, <1>8, <1>9, <1>10

LEMMA TotalEmpty == \A f : Total(f, {}) = 0
<1> TAKE f
<1>1. Counted(f, {})
  BY FS_EmptySet DEF Counted
<1> QED
  BY <1>1, TotalPicked

(* A sum of sums.                                                          *)
LEMMA TotalPlus ==
  ASSUME NEW f, NEW k, NEW h, NEW S, Counted(f, S), Counted(k, S),
         \A x \in S : h[x] = f[x] + k[x]
  PROVE  Total(h, S) = Total(f, S) + Total(k, S)
<1> DEFINE Bad == {s \in SUBSET S : Total(h, s) # Total(f, s) + Total(k, s)}
<1> SUFFICES ASSUME Bad # {} PROVE FALSE
  OBVIOUS
<1>0. Counted(h, S)
  BY DEF Counted
<1>1. Bad \in SUBSET SUBSET S /\ IsFiniteSet(S)
  BY DEF Counted
<1> HIDE DEF Bad
<1>2. PICK s \in Bad : \A y \in s : s \ {y} \notin Bad
  BY <1>1, SmallestSet
<1>3. s \in SUBSET S /\ Total(h, s) # Total(f, s) + Total(k, s)
  BY <1>2 DEF Bad
<1>4. Counted(f, s) /\ Counted(k, s) /\ Counted(h, s)
  BY <1>0, <1>3, CountedSubset
<1>5. PICK x : x \in s
  BY <1>3, TotalEmpty
<1>6. /\ Total(f, s) = f[x] + Total(f, s \ {x}) /\ Total(k, s) = k[x] + Total(k, s \ {x})
      /\ Total(h, s) = h[x] + Total(h, s \ {x})
  BY <1>4, <1>5, TotalWithout
<1>7. Total(h, s \ {x}) = Total(f, s \ {x}) + Total(k, s \ {x})
  BY <1>2, <1>3, <1>5 DEF Bad
<1>8. s \ {x} \in SUBSET S
  BY <1>3
<1>9. Total(f, s \ {x}) \in Nat /\ Total(k, s \ {x}) \in Nat /\ f[x] \in Nat /\ k[x] \in Nat
  BY <1>3, <1>5, <1>8, CountedSubset, TotalType DEF Counted
<1> QED
  BY <1>3, <1>5, <1>6, <1>7, <1>9

(* Smaller values give a smaller sum.                                      *)
LEMMA TotalLess ==
  ASSUME NEW f, NEW k, NEW S, Counted(f, S), Counted(k, S), \A x \in S : f[x] <= k[x]
  PROVE  Total(f, S) <= Total(k, S)
<1> DEFINE d == [x \in S |-> k[x] - f[x]]
<1>1. Counted(d, S) /\ \A x \in S : k[x] = f[x] + d[x]
  BY DEF Counted
<1> HIDE DEF d
<1>2. Total(k, S) = Total(f, S) + Total(d, S)
  BY <1>1, TotalPlus
<1>3. Total(f, S) \in Nat /\ Total(d, S) \in Nat
  BY <1>1, TotalType
<1> QED
  BY <1>2, <1>3

(* A set that two others cover adds up to no more than they do.            *)
LEMMA TotalCovered ==
  ASSUME NEW f, NEW S, Counted(f, S), NEW s0 \in SUBSET S, NEW A0 \in SUBSET S, NEW B0 \in SUBSET S,
         s0 \subseteq A0 \cup B0
  PROVE  Total(f, s0) <= Total(f, A0) + Total(f, B0)
<1> DEFINE Bad == {s \in SUBSET S : \E A, B \in SUBSET S :
                     s \subseteq A \cup B /\ ~(Total(f, s) <= Total(f, A) + Total(f, B))}
<1> SUFFICES ASSUME Bad # {} PROVE FALSE
  OBVIOUS
<1>1. Bad \in SUBSET SUBSET S /\ IsFiniteSet(S)
  BY DEF Counted
<1> HIDE DEF Bad
<1>2. PICK s \in Bad : \A y \in s : s \ {y} \notin Bad
  BY <1>1, SmallestSet
<1>3. PICK A \in SUBSET S, B \in SUBSET S : s \subseteq A \cup B /\ ~(Total(f, s) <= Total(f, A) + Total(f, B))
  BY <1>2 DEF Bad
<1>4. s \in SUBSET S
  BY <1>2 DEF Bad
<1>5. \A t \in SUBSET S : Counted(f, t) /\ Total(f, t) \in Nat
  BY CountedSubset, TotalType
<1>6. PICK x : x \in s
  BY <1>3, <1>5, TotalEmpty
<1>7. Total(f, s) = f[x] + Total(f, s \ {x}) /\ f[x] \in Nat
  BY <1>4, <1>5, <1>6, TotalWithout DEF Counted
<1>8. s \ {x} \in SUBSET S /\ A \ {x} \in SUBSET S /\ B \ {x} \in SUBSET S
  BY <1>4
<1>9. CASE x \in A
  <2>1. Total(f, A) = f[x] + Total(f, A \ {x})
    BY <1>5, <1>9, TotalWithout
  <2>2. s \ {x} \subseteq (A \ {x}) \cup B
    BY <1>3
  <2>3. Total(f, s \ {x}) <= Total(f, A \ {x}) + Total(f, B)
    BY <1>2, <1>6, <1>8, <2>2 DEF Bad
  <2> QED
    BY <1>3, <1>4, <1>5, <1>7, <1>8, <2>1, <2>3
<1>10. CASE x \in B
  <2>1. Total(f, B) = f[x] + Total(f, B \ {x})
    BY <1>5, <1>10, TotalWithout
  <2>2. s \ {x} \subseteq A \cup (B \ {x})
    BY <1>3
  <2>3. Total(f, s \ {x}) <= Total(f, A) + Total(f, B \ {x})
    BY <1>2, <1>6, <1>8, <2>2 DEF Bad
  <2> QED
    BY <1>3, <1>4, <1>5, <1>7, <1>8, <2>1, <2>3
<1> QED
  BY <1>3, <1>6, <1>9, <1>10

LEMMA TotalZero ==
  ASSUME NEW f, NEW S, IsFiniteSet(S), \A x \in S : f[x] = 0
  PROVE  Total(f, S) = 0
<1>1. Counted(f, S)
  BY DEF Counted
<1>2. \A x \in S : f[x] = f[x] + f[x]
  OBVIOUS
<1>3. Total(f, S) = Total(f, S) + Total(f, S)
  BY <1>1, <1>2, TotalPlus
<1>4. Total(f, S) \in Nat
  BY <1>1, TotalType
<1>5. \A n \in Nat : n = n + n => n = 0
  OBVIOUS
<1> QED
  BY <1>3, <1>4, <1>5

(* One value grows.                                                        *)
Grown(f, k, S, x, n) ==
  /\ Counted(f, S) /\ x \in S /\ n \in Nat
  /\ k[x] = f[x] + n /\ \A y \in S \ {x} : k[y] = f[y]
LEMMA TotalGrows ==
  ASSUME NEW f, NEW k, NEW S, NEW x, NEW n, Grown(f, k, S, x, n)
  PROVE  Counted(k, S) /\ Total(k, S) = Total(f, S) + n
<1> USE DEF Grown
<1>1. Counted(k, S) /\ S \ {x} \in SUBSET S
  BY DEF Counted
<1>2. Total(f, S) = f[x] + Total(f, S \ {x}) /\ Total(k, S) = k[x] + Total(k, S \ {x})
  BY <1>1, TotalWithout
<1>3. Counted(f, S \ {x}) /\ Total(f, S \ {x}) \in Nat /\ f[x] \in Nat
  BY <1>1, CountedSubset, TotalType DEF Counted
<1>4. Total(k, S \ {x}) = Total(f, S \ {x})
  BY <1>3, TotalSame
<1> QED
  BY <1>1, <1>2, <1>3, <1>4

(* Part of a set adds up to no more than all of it.                        *)
LEMMA TotalPart ==
  ASSUME NEW f, NEW S, Counted(f, S), NEW s \in SUBSET S
  PROVE  Total(f, s) <= Total(f, S)
<1>1. S \in SUBSET S /\ {} \in SUBSET S /\ s \subseteq S \cup {}
  OBVIOUS
<1>2. Total(f, s) <= Total(f, S) + Total(f, {})
  BY <1>1, TotalCovered
<1> QED
  BY <1>2, TotalEmpty, TotalType

-----------------------------------------------------------------------------
(* SocPerfScreen.  What the operators that turn requests on and off do to  *)
(* a set of them.                                                          *)
Consistent(on, mode) ==
  /\ ~ {"SCREEN_ON", "SCREEN_OFF"} \subseteq on
  /\ ~ {"ON_PERFORMANCE", "OFF_PERFORMANCE"} \subseteq on
  /\ ~ {"GLOBAL_L", "GLOBAL_P"} \subseteq on
  /\ mode = "NORMAL" => on \cap {"ON_PERFORMANCE", "OFF_PERFORMANCE"} = {}

LEMMA AgreeIsConsistent ==
  /\ ScreenRequestsAgree <=> Consistent(ssOn, performanceMode)
  /\ ScreenRequestsAgree' <=> Consistent(ssOn', performanceMode')
  BY DEF ScreenRequestsAgree, Consistent

(* The requests of the orientation replace all display requests.           *)
LEMMA DisplayConsistent ==
  ASSUME NEW on \in SUBSET ScreenRequests, NEW mode, Consistent(on, mode)
  PROVE  GlobalDisplay(on) \in SUBSET ScreenRequests /\ Consistent(GlobalDisplay(on), mode)
<1>1. \/ GlobalDisplay(on) = (on \ Display) \cup {"GLOBAL_L"}
      \/ GlobalDisplay(on) = (on \ Display) \cup {"GLOBAL_P"}
      \/ GlobalDisplay(on) = on
  BY DEF GlobalDisplay
<1> QED
  BY <1>1 DEF Display, ScreenRequests, Consistent

(* A wake-up keeps the requests consistent.                                *)
LEMMA OnConsistent ==
  ASSUME ScreenTypeOK, NEW on \in SUBSET ScreenRequests, Consistent(on, performanceMode)
  PROVE  /\ HandleScreenOn(on) \in SUBSET ScreenRequests
         /\ Consistent(HandleScreenOn(on), performanceMode)
<1> DEFINE plain == Swapped(on, "SCREEN_OFF", "SCREEN_ON")
           perf == IF performanceMode = "PERFORMANCE"
                     THEN Swapped(plain, "OFF_PERFORMANCE", "ON_PERFORMANCE") ELSE plain
<1>1. plain \in SUBSET ScreenRequests /\ Consistent(plain, performanceMode)
  BY DEF Swapped, ScreenRequests, Consistent
<1>2. perf \in SUBSET ScreenRequests /\ Consistent(perf, performanceMode)
  <2> HIDE DEF plain
  <2> QED
    BY <1>1 DEF Swapped, ScreenRequests, Consistent
<1>3. \/ HandleScreenOn(on) \in {perf, perf \cup {"MODE_FULL"}, perf \cup {"MODE_MAIN"}}
      \/ HandleScreenOn(on) = GlobalDisplay(perf)
  BY DEF HandleScreenOn
<1> HIDE DEF perf
<1>4. CASE HandleScreenOn(on) = GlobalDisplay(perf)
  BY <1>2, <1>4, DisplayConsistent
<1>5. CASE HandleScreenOn(on) \in {perf, perf \cup {"MODE_FULL"}, perf \cup {"MODE_MAIN"}}
  BY <1>2, <1>5 DEF ScreenRequests, Display, Consistent
<1> QED
  BY <1>3, <1>4, <1>5

(* So does a screen that goes off, whatever the status is.                 *)
LEMMA OffConsistent ==
  ASSUME ScreenTypeOK, NEW on \in SUBSET ScreenRequests, Consistent(on, performanceMode), NEW status
  PROVE  /\ HandleScreenOff(on, status) \in SUBSET ScreenRequests
         /\ Consistent(HandleScreenOff(on, status), performanceMode)
<1> DEFINE plain == Swapped(on, "SCREEN_ON", "SCREEN_OFF") \ Display
<1>1. plain \in SUBSET ScreenRequests /\ Consistent(plain, performanceMode)
  BY DEF Swapped, ScreenRequests, Display, Consistent
<1>2. \/ HandleScreenOff(on, status) \in {on, plain}
      \/ /\ HandleScreenOff(on, status) = Swapped(plain, "ON_PERFORMANCE", "OFF_PERFORMANCE")
         /\ performanceMode = "PERFORMANCE"
  BY DEF HandleScreenOff
<1> HIDE DEF plain
<1> QED
  BY <1>1, <1>2 DEF Swapped, ScreenRequests, Consistent

(* What the requests and the mode are after a step.                        *)
LEMMA RequestsStep ==
  ASSUME ScreenTypeOK, ScreenRequestsAgree, [ScreenNext]_ssVars
  PROVE  ssOn' \in SUBSET ScreenRequests /\ ScreenRequestsAgree'
<1> SUFFICES ssOn' \in SUBSET ScreenRequests /\ Consistent(ssOn', performanceMode')
  BY AgreeIsConsistent
<1> USE DEF ssTasks, ssEnv
<1>0. ssOn \in SUBSET ScreenRequests /\ Consistent(ssOn, performanceMode)
  BY AgreeIsConsistent DEF ScreenTypeOK
<1>1. CASE HandleScreenStatusAnalysis
  <2>1. performanceMode' = performanceMode /\ ssOn' \in {ssOn, HandleScreenOff(ssOn, "OFF")}
    BY <1>1 DEF HandleScreenStatusAnalysis
  <2> QED
    BY <1>0, <2>1, OffConsistent
<1>2. CASE ScreenOffTask \/ HandleWakeUpTimeOut
  <2>1. performanceMode' = performanceMode /\ ssOn' = HandleScreenOff(ssOn, screenStatus)
    BY <1>2 DEF ScreenOffTask, HandleWakeUpTimeOut
  <2> QED
    BY <1>0, <2>1, OffConsistent
<1>3. CASE WakeUpStart
  <2>1. performanceMode' = performanceMode /\ ssOn' = HandleScreenOn(ssOn)
    BY <1>3 DEF WakeUpStart
  <2> QED
    BY <1>0, <2>1, OnConsistent
<1>4. CASE WakeUpTimeOut \/ ScreenTurns \/ UNCHANGED ssVars
  <2>1. performanceMode' = performanceMode /\ ssOn' = ssOn
    BY <1>4 DEF WakeUpTimeOut, ScreenTurns, ssVars
  <2> QED
    BY <1>0, <2>1
<1>5. ASSUME NEW d \in BOOLEAN, NEW m \in DeviceModes, HandleDeviceModeStatusChange(d, m)
      PROVE  ssOn' \in SUBSET ScreenRequests /\ Consistent(ssOn', performanceMode')
  <2> DEFINE Boosted == {ssOn, (ssOn \ Display) \cup {"MODE_FULL"},
                         (ssOn \ Display) \cup {"MODE_MAIN"}, GlobalDisplay(ssOn)}
  <2>1. \A on \in Boosted : on \in SUBSET ScreenRequests /\ Consistent(on, performanceMode)
    <3>1. \A on \in Boosted \ {GlobalDisplay(ssOn)} :
            on \in SUBSET ScreenRequests /\ Consistent(on, performanceMode)
      BY <1>0 DEF ScreenRequests, Display, Consistent
    <3> QED
      BY <1>0, <3>1, DisplayConsistent
  <2>2. \E on \in Boosted : ssOn' \in {on, on \cup {"SWITCHED"}}
    <3>1. CASE ~d
      BY <1>5, <3>1 DEF HandleDeviceModeStatusChange
    <3>2. CASE d
      <4> DEFINE boosted == CASE screenStatus # "ON" -> ssOn
                   [] deviceMode' = "FULL" -> (ssOn \ Display) \cup {"MODE_FULL"}
                   [] deviceMode' = "MAIN" -> (ssOn \ Display) \cup {"MODE_MAIN"}
                   [] deviceMode' = "GLOBAL_FULL" -> GlobalDisplay(ssOn)
                   [] OTHER -> ssOn
      <4>1. ssOn' \in {boosted, boosted \cup {"SWITCHED"}}
        BY <1>5, <3>2 DEF HandleDeviceModeStatusChange, HandleSceenModeBoost
      <4>2. boosted \in Boosted
        OBVIOUS
      <4> HIDE DEF boosted, Boosted
      <4> QED
        BY <4>1, <4>2
    <3> QED
      BY <3>1, <3>2
  <2>3. performanceMode' = performanceMode
    BY <1>5 DEF HandleDeviceModeStatusChange
  <2>4. PICK on \in Boosted : ssOn' \in {on, on \cup {"SWITCHED"}}
    BY <2>2
  <2>5. on \in SUBSET ScreenRequests /\ Consistent(on, performanceMode)
    BY <2>1
  <2> QED
    BY <2>3, <2>4, <2>5 DEF ScreenRequests, Consistent
<1>6. ASSUME NEW d \in BOOLEAN, NEW o \in Orientations, HandleDeviceOrientationStatusChange(d, o)
      PROVE  ssOn' \in SUBSET ScreenRequests /\ Consistent(ssOn', performanceMode')
  <2>1. performanceMode' = performanceMode /\ ssOn' \in {ssOn, GlobalDisplay(ssOn)}
    BY <1>6 DEF HandleDeviceOrientationStatusChange, HandleSceenOrientationBoost
  <2> QED
    BY <1>0, <2>1, DisplayConsistent
<1>7. ASSUME NEW m \in {"NORMAL", "PERFORMANCE"}, HandlePerformanceModeChange(m)
      PROVE  ssOn' \in SUBSET ScreenRequests /\ Consistent(ssOn', performanceMode')
  <2> DEFINE none == ssOn \ {"ON_PERFORMANCE", "OFF_PERFORMANCE"}
  <2>1. /\ performanceMode' = m
        /\ \/ m = "PERFORMANCE" /\ ssOn' \in {none \cup {"ON_PERFORMANCE"}, none \cup {"OFF_PERFORMANCE"}}
           \/ ssOn' \in {Swapped(none, "SCREEN_OFF", "SCREEN_ON"), Swapped(none, "SCREEN_ON", "SCREEN_OFF")}
    BY <1>7 DEF HandlePerformanceModeChange
  <2>2. none \in SUBSET ScreenRequests /\ Consistent(none, "NORMAL")
    BY <1>0 DEF Consistent
  <2> HIDE DEF none
  <2> QED
    BY <2>1, <2>2 DEF Swapped, ScreenRequests, Consistent
<1> QED
  BY <1>1, <1>2, <1>3, <1>4, <1>5, <1>6, <1>7 DEF ScreenNext

(* Every step keeps the types of the Boolean variables ...                  *)
ScreenFlags == ssFfrt \in BOOLEAN /\ wakeUpTimeOutTask \in BOOLEAN /\ powerOn \in BOOLEAN

LEMMA FlagsStep ==
  ASSUME ScreenFlags, [ScreenNext]_ssVars
  PROVE  ScreenFlags'
<1> USE DEF ssTasks, ssEnv, ScreenFlags
<1>1. CASE HandleScreenStatusAnalysis
  BY <1>1, Zenon DEF HandleScreenStatusAnalysis
<1>2. CASE ScreenOffTask \/ HandleWakeUpTimeOut
  BY <1>2, Zenon DEF ScreenOffTask, HandleWakeUpTimeOut
<1>3. CASE WakeUpStart
  BY <1>3, Zenon DEF WakeUpStart
<1>4. CASE WakeUpTimeOut \/ ScreenTurns
  BY <1>4, Zenon DEF WakeUpTimeOut, ScreenTurns
<1>5. CASE UNCHANGED ssVars
  BY <1>5, Zenon DEF ssVars
<1>6. ASSUME NEW d \in BOOLEAN, NEW m \in DeviceModes, HandleDeviceModeStatusChange(d, m)
      PROVE  ScreenFlags'
  BY <1>6, Zenon DEF HandleDeviceModeStatusChange
<1>7. ASSUME NEW d \in BOOLEAN, NEW o \in Orientations, HandleDeviceOrientationStatusChange(d, o)
      PROVE  ScreenFlags'
  BY <1>7, Zenon DEF HandleDeviceOrientationStatusChange
<1>8. ASSUME NEW m \in {"NORMAL", "PERFORMANCE"}, HandlePerformanceModeChange(m)
      PROVE  ScreenFlags'
  BY <1>8, Zenon DEF HandlePerformanceModeChange
<1> QED
  BY <1>1, <1>2, <1>3, <1>4, <1>5, <1>6, <1>7, <1>8 DEF ScreenNext

(* ... and of the others.                                                   *)
LEMMA ScreenStepType ==
  ASSUME ScreenTypeOK, ScreenRequestsAgree, [ScreenNext]_ssVars
  PROVE  ScreenTypeOK'
<1> USE ScreenAssumption DEF ssTasks, ssEnv
<1>0. ScreenFlags' /\ ssOn' \in SUBSET ScreenRequests
  BY FlagsStep, RequestsStep DEF ScreenTypeOK, ScreenFlags
<1>t. /\ offTasks \in 0..MaxDelayed /\ wakeReports \in 0..MaxDelayed
      /\ screenStatus \in {"ON", "OFF"}
      /\ ssEvents \in Seq({"ON", "OFF"}) /\ Len(ssEvents) <= MaxDelayed
  BY DEF ScreenTypeOK
<1>1. /\ screenStatus' \in {"ON", "OFF"}
      /\ offTasks' \in 0..MaxDelayed /\ wakeReports' \in 0..MaxDelayed
      /\ ssEvents' \in Seq({"ON", "OFF"}) /\ Len(ssEvents') <= MaxDelayed
  <2>1. CASE HandleScreenStatusAnalysis
    <3>1. ssEvents # <<>> /\ screenStatus' = Head(ssEvents) /\ ssEvents' = Tail(ssEvents)
          /\ wakeReports' = wakeReports
      BY <2>1 DEF HandleScreenStatusAnalysis
    <3>2. offTasks' = offTasks \/ (offTasks' = offTasks + 1 /\ offTasks < MaxDelayed)
      BY <2>1 DEF HandleScreenStatusAnalysis
    <3>3. Head(ssEvents) \in {"ON", "OFF"} /\ Tail(ssEvents) \in Seq({"ON", "OFF"})
          /\ Len(Tail(ssEvents)) = Len(ssEvents) - 1
      BY <1>t, <3>1
    <3> QED
      BY <1>t, <3>1, <3>2, <3>3
  <2>2. CASE ScreenOffTask \/ HandleWakeUpTimeOut
    BY <1>t, <2>2 DEF ScreenOffTask, HandleWakeUpTimeOut
  <2>3. CASE WakeUpStart
    BY <1>t, <2>3 DEF WakeUpStart
  <2>4. CASE WakeUpTimeOut
    BY <1>t, <2>4 DEF WakeUpTimeOut
  <2>5. CASE ScreenTurns
    <3>1. PICK e \in {"ON", "OFF"} : ssEvents' = Append(ssEvents, e) /\ Len(ssEvents) < MaxDelayed
      BY <2>5 DEF ScreenTurns
    <3>2. Len(ssEvents') = Len(ssEvents) + 1 /\ ssEvents' \in Seq({"ON", "OFF"})
      BY <1>t, <3>1
    <3> QED
      BY <1>t, <2>5, <3>1, <3>2 DEF ScreenTurns
  <2>6. CASE UNCHANGED ssVars
    BY <1>t, <2>6 DEF ssVars
  <2>7. ASSUME NEW d \in BOOLEAN, NEW m \in DeviceModes, HandleDeviceModeStatusChange(d, m)
        PROVE  UNCHANGED <<screenStatus, offTasks, wakeReports, ssEvents>>
    BY <2>7 DEF HandleDeviceModeStatusChange
  <2>8. ASSUME NEW d \in BOOLEAN, NEW o \in Orientations, HandleDeviceOrientationStatusChange(d, o)
        PROVE  UNCHANGED <<screenStatus, offTasks, wakeReports, ssEvents>>
    BY <2>8 DEF HandleDeviceOrientationStatusChange
  <2>9. ASSUME NEW m \in {"NORMAL", "PERFORMANCE"}, HandlePerformanceModeChange(m)
        PROVE  UNCHANGED <<screenStatus, offTasks, wakeReports, ssEvents>>
    BY <2>9 DEF HandlePerformanceModeChange
  <2> QED
    BY <1>t, <2>1, <2>2, <2>3, <2>4, <2>5, <2>6, <2>7, <2>8, <2>9 DEF ScreenNext
<1>2. /\ performanceMode' \in {"NORMAL", "PERFORMANCE"}
      /\ deviceMode' \in DeviceModes \cup {""} /\ deviceOrientation' \in Orientations \cup {""}
  BY DEF ScreenNext, ssVars, HandleScreenStatusAnalysis, ScreenOffTask, WakeUpStart,
         WakeUpTimeOut,
     HandleWakeUpTimeOut, HandleDeviceModeStatusChange, HandleDeviceOrientationStatusChange,
     HandlePerformanceModeChange, ScreenTurns, ScreenTypeOK
<1> QED
  BY <1>0, <1>1, <1>2 DEF ScreenTypeOK, ScreenFlags

LEMMA ScreenInitially == ScreenInit => ScreenTypeOK /\ ScreenRequestsAgree
<1> SUFFICES ASSUME ScreenInit PROVE ScreenTypeOK /\ ScreenRequestsAgree
  OBVIOUS
<1>1. ScreenFlags
  BY Zenon DEF ScreenInit, ScreenFlags
<1>2. ScreenRequestsAgree
  BY DEF ScreenInit, ScreenRequestsAgree
<1>3. /\ screenStatus \in {"ON", "OFF"} /\ performanceMode \in {"NORMAL", "PERFORMANCE"}
      /\ deviceMode \in DeviceModes \cup {""} /\ deviceOrientation \in Orientations \cup {""}
      /\ ssOn \subseteq ScreenRequests
  BY DEF ScreenInit
<1>4. /\ offTasks \in 0..MaxDelayed /\ wakeReports \in 0..MaxDelayed
      /\ ssEvents \in Seq({"ON", "OFF"}) /\ Len(ssEvents) <= MaxDelayed
  <2>1. offTasks = 0 /\ wakeReports = 0 /\ ssEvents = <<>>
    BY DEF ScreenInit
  <2> QED
    BY <2>1, ScreenAssumption
<1> QED
  BY <1>1, <1>2, <1>3, <1>4 DEF ScreenTypeOK, ScreenFlags

(* Type correctness of the screen's part: the delayed tasks and the reports *)
(* of the wake-up timeout never count below zero or above their bound.      *)
THEOREM ScreenTypes == ScreenSpec => []ScreenTypeOK
<1>1. ScreenTypeOK /\ ScreenRequestsAgree /\ [ScreenNext]_ssVars
        => ScreenTypeOK' /\ ScreenRequestsAgree'
  BY ScreenStepType, RequestsStep
<1> QED
  BY <1>1, ScreenInitially, PTL DEF ScreenSpec

(* HandleScreenOn, HandleScreenOff with its delayed runs, the wake-up and   *)
(* its timeout, and the changes of mode and orientation never leave two     *)
(* contradicting requests on at the SocPerf service, in any order.          *)
THEOREM ScreenRequestsConsistent == ScreenSpec => []ScreenRequestsAgree
<1>1. ScreenTypeOK /\ ScreenRequestsAgree /\ [ScreenNext]_ssVars => ScreenRequestsAgree'
  BY RequestsStep
<1> QED
  BY <1>1, ScreenInitially, ScreenTypes, PTL DEF ScreenSpec

-----------------------------------------------------------------------------
(* SocPerfEvents.  What a handler does to the requests that are on: a      *)
(* begin adds only the request of its own type, an end leaves it off, and  *)
(* any other value adds nothing but requests that run out by themselves.   *)
RequestOf(t) == FunctionMap(t, {}, "begin")
LEMMA HandlerFacts ==
  ASSUME NEW t \in Scenes, NEW on
  PROVE  /\ FunctionMap(t, on, "begin") \subseteq on \cup RequestOf(t)
         /\ FunctionMap(t, on, "end") \subseteq (on \ (RequestOf(t) \ RunOut)) \cup RunOut
         /\ FunctionMap(t, on, "other") \subseteq on \cup RunOut
<1> USE DEF FunctionMap, RequestOf, RunOut, OnOff, OnlyOff, AddEventToFunctionMap,
            AddOtherEventToFunctionMap
<1>1. CASE t \in {"LOAD_PAGE", "WEB_GESTURE", "SHOW_REMOTE_ANIMATION", "SHOW_REMOTE_UNLOCK",
                  "WEB_GESTURE_MOVE", "WEB_SLIDE_NORMAL", "FILE_COPY_STATUS", "WEB_SLIDE_SCROLL"}
  BY <1>1 DEF HandleLoadPage, HandleEventWebGesture, HandleRemoteAnimation, HandleRemoteUnlock,
     HandleWebGestureMove, HandleWebSlideNormal, HandleFileCopyStatus, HandleWebSildeScroll
<1>2. CASE t \in {"RESIZE_WINDOW", "MOVE_WINDOW", "DRAG_STATUS_BAR", "WEB_DRAG_RESIZE"}
  BY <1>2 DEF HandleResizeWindow, HandleMoveWindow, HandleDragStatusBar, HandleWebDragResize
<1>3. CASE t \in {"ACCOUNT_ACTIVATING", "SOCPERF_CUST_EVENT_BEGIN", "SOCPERF_CUST_EVENT_END",
                  "APP_GAME_BOOST_EVENT", "RGM_BOOTING_STATUS"}
  BY <1>3 DEF HandleSocperfAccountActivating, HandleCustEventBegin, HandleCustEventEnd,
     HandleGameBoost, HandleRgmBootingStatus
<1>4. CASE t \in {"ONLY_PERF_APP_COLD_START", "SCENE_ROTATION", "BMM_MONITER_CHANGE_EVENT",
                  "CROWN_ROTATION_STATUS", "SCENE_BOARD_ID"}
  BY <1>4 DEF HandleAppColdStartEx, HandleSceneRotation, HandleBmmMoniterStatus,
     HandleCrownRotation, HandleSocperfSceneBoard
<1>5. CASE t \in {"RECENT_BUILD", "HIGH_FREQUENCE_LOAD_SCENE", "OOBE_CLONE",
                  "CREATE_LIVING_APP_PROCESS"}
  BY <1>5 DEF HandleRecentBuild, HandleLiveBroadcast, HandleOobeClone,
     HandleResTypeCreateLivingApp
<1> QED
  BY <1>1, <1>2, <1>3, <1>4, <1>5 DEF Scenes, ResTypes, OtherResTypes

LEMMA EventsStep ==
  ASSUME OnlyOpenScenes, [EventsNext]_seVars
  PROVE  OnlyOpenScenes'
<1> USE DEF RequestOf
<1>1. CASE PluginInit \/ PluginDisable \/ UNCHANGED seVars
  <2>1. seOn' = seOn /\ begun' = begun /\ lost' = lost
    BY <1>1, Zenon DEF PluginInit, PluginDisable, seVars
  <2> QED
    BY <2>1 DEF OnlyOpenScenes, Explained
<1>2. ASSUME NEW t \in Scenes, NEW v \in {"begin", "end", "other"}, DispatchResource(t, v)
      PROVE  OnlyOpenScenes'
  <2>1. /\ begun' = CASE v = "begin" -> begun \cup {t}
                      [] v = "end" -> begun \ {t}
                      [] OTHER -> begun
        /\ seOn' = IF Delivered(t, v) THEN FunctionMap(t, seOn, v) ELSE seOn
    BY <1>2 DEF DispatchResource
  <2>2. lost' = CASE v = "end" /\ t \in begun /\ ~inited -> lost \cup {t}
                  [] v = "end" /\ inited -> lost \ {t}
                  [] OTHER -> lost
    BY <1>2 DEF DispatchResource
  <2>3. /\ \A r \in seOn : r \in RunOut \/ \E x \in begun \cup lost : r \in RequestOf(x)
        /\ (\A r \in seOn' : r \in RunOut \/ \E x \in begun' \cup lost' : r \in RequestOf(x))
             => OnlyOpenScenes'
    <3>1. \A r \in seOn : r \in RunOut \/ \E x \in begun \cup lost : r \in RequestOf(x)
      BY DEF OnlyOpenScenes, Explained
    <3>2. ASSUME \A r \in seOn' : r \in RunOut \/ \E x \in begun' \cup lost' : r \in RequestOf(x)
          PROVE  OnlyOpenScenes'
      BY <3>2 DEF OnlyOpenScenes, Explained
    <3> QED
      BY <3>1, <3>2
  <2>4. /\ FunctionMap(t, seOn, "begin") \subseteq seOn \cup RequestOf(t)
        /\ FunctionMap(t, seOn, "end") \subseteq (seOn \ (RequestOf(t) \ RunOut)) \cup RunOut
        /\ FunctionMap(t, seOn, "other") \subseteq seOn \cup RunOut
    BY HandlerFacts
  <2> HIDE DEF RequestOf
  <2>5. CASE v = "begin"
    <3>1. begun' = begun \cup {t} /\ lost' = lost
      BY <2>1, <2>2, <2>5
    <3>2. seOn' \subseteq seOn \cup RequestOf(t)
      BY <2>1, <2>4, <2>5
    <3> QED
      BY <2>3, <3>1, <3>2
  <2>6. CASE v = "end" /\ inited
    <3>1. begun' = begun \ {t} /\ lost' = lost \ {t}
      BY <2>1, <2>2, <2>6
    <3>2. Delivered(t, v)
      <4>1. t \in ResTypes \cup OtherResTypes \/ <<t, v>> \in ResTypeWithVal
        BY <2>6 DEF Scenes, ResTypeWithVal
      <4> QED
        BY <2>6, <4>1, Zenon DEF Delivered
    <3>3. seOn' \subseteq (seOn \ (RequestOf(t) \ RunOut)) \cup RunOut
      BY <2>1, <2>4, <2>6, <3>2
    <3> QED
      BY <2>3, <3>1, <3>3
  <2>7. CASE v = "end" /\ ~inited
    <3>1. begun \cup lost \subseteq begun' \cup lost'
      BY <2>1, <2>2, <2>7
    <3>2. seOn' = seOn
      <4>1. ~Delivered(t, v)
        BY <2>7, Zenon DEF Delivered
      <4> QED
        BY <2>1, <4>1
    <3> QED
      BY <2>3, <3>1, <3>2
  <2>8. CASE v = "other"
    <3>1. begun' = begun /\ lost' = lost
      BY <2>1, <2>2, <2>8
    <3>2. seOn' \subseteq seOn \cup RunOut
      BY <2>1, <2>4, <2>8
    <3> QED
      BY <2>3, <3>1, <3>2
  <2> QED
    BY <2>5, <2>6, <2>7, <2>8
<1> QED
  BY <1>1, <1>2 DEF EventsNext

(* OnlyOpenScenes in every behaviour of EventsSpec: a boost that a handler  *)
(* of SocPerfPlugin turned on is off when its scene has ended, in whatever  *)
(* order scenes overlap and the plugin is disabled and initialised, unless  *)
(* the end came while the plugin was disabled (lost) or the boost has no    *)
(* end of its own and runs out by itself (RunOut).                          *)
THEOREM BoostsEnd == EventsSpec => []OnlyOpenScenes
<1>1. EventsInit => OnlyOpenScenes
  BY DEF EventsInit, OnlyOpenScenes
<1>2. OnlyOpenScenes /\ [EventsNext]_seVars => OnlyOpenScenes'
  BY EventsStep
<1> QED
  BY <1>1, <1>2, PTL DEF EventsSpec

-----------------------------------------------------------------------------
(* SocPerfFocus.  The flag is only ever set while the types can be asked   *)
(* for; and the focused set is finite, so that one application in it is    *)
(* the one that got the focus.                                             *)
FocusInv ==
  /\ IsFiniteSet(focusAppUids)
  /\ ~reqAppTypeFunc => known = {} /\ ~isFocusAppsGameType
  /\ GameFlagSound /\ WeakOffInCustGame

(* UpdateWeakActionStatus leaves the mode off in a custom game.            *)
LEMMA WeakFacts ==
  ASSUME UpdateWeakActionStatus
  PROVE  custGameState' => ~weakActionStatus'
  BY Zenon DEF UpdateWeakActionStatus

LEMMA FocusStep ==
  ASSUME FocusInv, [FocusNext]_sfVars
  PROVE  FocusInv'
<1> USE DEF focusState, libState, custState, weakState
<1>0. /\ IsFiniteSet(focusAppUids)
      /\ ~reqAppTypeFunc => known = {} /\ ~isFocusAppsGameType
      /\ isFocusAppsGameType => focusAppUids # {} /\ \A u \in focusAppUids : AppTypeOf[u] = "GAME"
      /\ custGameState <=> custGameUids # {}
      /\ custGameState => ~weakActionStatus
  BY DEF FocusInv, GameFlagSound, WeakOffInCustGame
(* The steps that leave the focus alone and the weak mode as it was or     *)
(* worked out anew.                                                        *)
<1>1. ASSUME focusAppUids' = focusAppUids, isFocusAppsGameType' = isFocusAppsGameType,
             reqAppTypeFunc' = reqAppTypeFunc, ~reqAppTypeFunc => known' \subseteq known,
             custGameState' <=> custGameUids' # {}, custGameState' => ~weakActionStatus'
      PROVE  FocusInv'
  <2>1. GameFlagSound'
    BY <1>0, <1>1, Zenon DEF GameFlagSound
  <2>2. ~reqAppTypeFunc' => known' = {} /\ ~isFocusAppsGameType'
    <3> SUFFICES ASSUME ~reqAppTypeFunc' PROVE known' = {} /\ ~isFocusAppsGameType'
      OBVIOUS
    <3>1. known' \subseteq known /\ known = {} /\ ~isFocusAppsGameType
      BY <1>0, <1>1, Zenon
    <3>2. ~isFocusAppsGameType'
      BY <1>1, <3>1, Zenon
    <3> QED
      BY <3>1, <3>2
  <2> QED
    BY <1>0, <1>1, <2>1, <2>2, Zenon DEF FocusInv, WeakOffInCustGame
<1>2. ASSUME NEW u \in Uids, NEW pidKnown \in BOOLEAN, UpdateFocusAppType(u, pidKnown)
      PROVE  FocusInv'
  <2>1. focusAppUids' = focusAppUids \cup {u} /\ IsFiniteSet(focusAppUids')
    BY <1>0, <1>2, FS_AddElement DEF UpdateFocusAppType
  <2>2. WeakOffInCustGame'
    <3>1. custGameState' => ~weakActionStatus'
      BY <1>2, WeakFacts, Zenon DEF UpdateFocusAppType
    <3> QED
      BY <1>0, <1>2, <3>1, Zenon DEF UpdateFocusAppType, WeakOffInCustGame
  <2>3. reqAppTypeFunc' => reqAppTypeFunc
    BY <1>2, Zenon DEF UpdateFocusAppType
  <2>4. reqAppTypeFunc => reqAppTypeFunc'
    BY <1>2, Zenon DEF UpdateFocusAppType
  <2>5. CASE /\ u \in known \/ (reqAppTypeFunc /\ AppTypeOf[u] # NoType)
             /\ Remembered(u, pidKnown)
             /\ isFocusAppsGameType' = UpdatesFocusAppsType(AppTypeOf[u])
    <3>1. reqAppTypeFunc
      BY <1>0, <2>5
    <3>2. isFocusAppsGameType'
            => /\ AppTypeOf[u] = "GAME"
               /\ Cardinality(focusAppUids') = 1 \/ isFocusAppsGameType
      <4>1. isFocusAppsGameType' = UpdatesFocusAppsType(AppTypeOf[u])
        BY <2>5, Zenon
      <4>2. UpdatesFocusAppsType(AppTypeOf[u])
              => /\ AppTypeOf[u] = "GAME"
                 /\ Cardinality(focusAppUids') # 1 => isFocusAppsGameType
        BY DEF UpdatesFocusAppsType
      <4> QED
        BY <4>1, <4>2, Zenon
    <3>3. Cardinality(focusAppUids') = 1 => focusAppUids' = {u}
      BY <2>1, FS_Singleton
    <3>4. GameFlagSound'
      <4> SUFFICES ASSUME isFocusAppsGameType'
                   PROVE  focusAppUids' # {} /\ \A x \in focusAppUids' : AppTypeOf[x] = "GAME"
        BY Zenon DEF GameFlagSound
      <4>1. /\ AppTypeOf[u] = "GAME"
            /\ Cardinality(focusAppUids') = 1 \/ (\A x \in focusAppUids : AppTypeOf[x] = "GAME")
        BY <1>0, <3>2, Zenon
      <4> QED
        BY <2>1, <3>3, <4>1
    <3> QED
      BY <2>1, <2>2, <2>4, <3>1, <3>4, Zenon DEF FocusInv
  <2>6. CASE /\ u \notin known /\ reqAppTypeFunc /\ AppTypeOf[u] = NoType
             /\ isFocusAppsGameType' = FALSE
             /\ UNCHANGED <<known, pidToAppType>>
    BY <2>1, <2>2, <2>4, <2>6, Zenon DEF FocusInv, GameFlagSound
  <2>7. CASE /\ u \notin known /\ ~reqAppTypeFunc
             /\ UNCHANGED <<known, pidToAppType, isFocusAppsGameType>>
    <3>1. known' = {} /\ ~isFocusAppsGameType'
      BY <1>0, <2>7, Zenon
    <3> QED
      BY <2>1, <2>2, <3>1, Zenon DEF FocusInv, GameFlagSound
  <2> QED
    BY <1>2, <2>5, <2>6, <2>7, Zenon DEF UpdateFocusAppType
<1>3. ASSUME NEW u \in Uids, HandleWindowUnfocus(u) PROVE FocusInv'
  <2>1. focusAppUids' = focusAppUids \ {u} /\ known' = known /\ IsFiniteSet(focusAppUids')
    BY <1>0, <1>3, FS_RemoveElement DEF HandleWindowUnfocus
  <2>2. WeakOffInCustGame'
    <3>1. custGameState' => ~weakActionStatus'
      BY <1>3, WeakFacts, Zenon DEF HandleWindowUnfocus
    <3> QED
      BY <1>0, <1>3, <3>1, Zenon DEF HandleWindowUnfocus, WeakOffInCustGame
  <2>3. isFocusAppsGameType' = IsFocusAppsAllGame(focusAppUids')
    BY <1>3, Zenon DEF HandleWindowUnfocus
  <2>4. reqAppTypeFunc => reqAppTypeFunc'
    BY <1>3, Zenon DEF HandleWindowUnfocus
  <2>5. isFocusAppsGameType' => /\ focusAppUids' # {} /\ known # {}
                                /\ \A x \in focusAppUids' : AppTypeOf[x] = "GAME"
    BY <2>3, Zenon DEF IsFocusAppsAllGame
  <2> QED
    BY <1>0, <2>1, <2>2, <2>4, <2>5, Zenon DEF FocusInv, GameFlagSound
<1>4. ASSUME NEW u \in Uids,
             HandleAppAbilityStart(u) \/ HandleAppStateChange(u) \/ HandleUninstallEvent(u)
               \/ HandleDeadProcess(u) \/ HandleEventClick(u)
      PROVE  FocusInv'
  <2>1. /\ focusAppUids' = focusAppUids /\ isFocusAppsGameType' = isFocusAppsGameType
        /\ reqAppTypeFunc' = reqAppTypeFunc /\ custGameState' = custGameState
        /\ custGameUids' = custGameUids /\ weakActionStatus' = weakActionStatus
        /\ reqAppTypeFunc \/ known' = known \/ known' = known \ {u}
    BY <1>4, Zenon DEF HandleAppAbilityStart, HandleAppStateChange, HandleUninstallEvent,
       HandleDeadProcess, HandleEventClick, OnlyRequests
  <2>2. ~reqAppTypeFunc => known' \subseteq known
    BY <2>1
  <2>3. (custGameState' <=> custGameUids' # {}) /\ (custGameState' => ~weakActionStatus')
    BY <1>0, <2>1, Zenon
  <2> QED
    BY <1>1, <2>1, <2>2, <2>3, Zenon
<1>5. ASSUME NEW u \in CustGames, NEW f \in BOOLEAN, HandleGameStateChange(u, f) PROVE FocusInv'
  <2>1. /\ focusAppUids' = focusAppUids /\ isFocusAppsGameType' = isFocusAppsGameType
        /\ reqAppTypeFunc' = reqAppTypeFunc /\ known' = known
        /\ UpdateCustGameState(u, f) /\ UpdateWeakActionStatus
    BY <1>5, Zenon DEF HandleGameStateChange
  <2>2. custGameState' <=> custGameUids' # {}
    <3>1. CASE f
      <4>1. custGameUids' # {}
        BY <2>1, <3>1 DEF UpdateCustGameState
      <4>2. custGameState' = TRUE
        BY <2>1, <3>1 DEF UpdateCustGameState
      <4> QED
        BY <4>1, <4>2, Zenon
    <3>2. CASE ~f /\ custGameUids' = {}
      <4>1. custGameState' = FALSE
        BY <2>1, <3>2 DEF UpdateCustGameState
      <4> QED
        BY <3>2, <4>1, Zenon
    <3>3. CASE ~f /\ custGameUids' # {}
      <4>1. custGameState' = custGameState
        BY <2>1, <3>3 DEF UpdateCustGameState
      <4>2. custGameUids # {}
        BY <2>1, <3>3 DEF UpdateCustGameState
      <4> QED
        BY <1>0, <3>3, <4>1, <4>2, Zenon
    <3> QED
      BY <3>1, <3>2, <3>3
  <2>3. custGameState' => ~weakActionStatus'
    BY <2>1, WeakFacts
  <2>4. known' \subseteq known
    BY <2>1
  <2> QED
    BY <1>1, <2>1, <2>2, <2>3, <2>4, Zenon
<1>6. ASSUME NEW e \in BOOLEAN, NEW ts \in SUBSET KeyTypes, NEW f \in BOOLEAN,
             HandleRssCloudConfigUpdate(e, ts, f)
      PROVE  FocusInv'
  <2>1. /\ focusAppUids' = focusAppUids /\ isFocusAppsGameType' = isFocusAppsGameType
        /\ reqAppTypeFunc' = reqAppTypeFunc /\ known' = known
        /\ custGameState' = custGameState /\ custGameUids' = custGameUids
    BY <1>6, Zenon DEF HandleRssCloudConfigUpdate
  <2>2. custGameState' => ~weakActionStatus'
    <3>1. CASE f
      <4>1. weakActionStatus' = /\ e /\ ~custGameState
                                /\ \A u \in focusAppUids \cap known :
                                     u \notin KeyNames /\ AppTypeOf[u] \notin keyAppType
        BY <1>6, <3>1, Zenon DEF HandleRssCloudConfigUpdate
      <4>2. weakActionStatus' => ~custGameState
        BY <4>1, Zenon
      <4>3. custGameState' => custGameState
        BY <2>1, Zenon
      <4> QED
        BY <4>2, <4>3, Zenon
    <3>2. CASE ~f
      BY <1>6, <3>2, WeakFacts, Zenon DEF HandleRssCloudConfigUpdate
    <3> QED
      BY <3>1, <3>2
  <2>3. known' \subseteq known /\ (custGameState' <=> custGameUids' # {})
    BY <1>0, <2>1, Zenon
  <2> QED
    BY <1>1, <2>1, <2>2, <2>3, Zenon
<1>7. CASE ReportAbilityStatus
  <2>1. /\ focusAppUids' = focusAppUids /\ isFocusAppsGameType' = isFocusAppsGameType
        /\ reqAppTypeFunc' = reqAppTypeFunc /\ known' = known
        /\ custGameState' = custGameState /\ custGameUids' = custGameUids
        /\ UpdateWeakActionStatus
    BY <1>7, Zenon DEF ReportAbilityStatus
  <2>2. custGameState' => ~weakActionStatus'
    BY <2>1, WeakFacts
  <2>3. known' \subseteq known /\ (custGameState' <=> custGameUids' # {})
    BY <1>0, <2>1, Zenon
  <2> QED
    BY <1>1, <2>1, <2>2, <2>3, Zenon
<1>8. CASE \/ InitFeatureSwitch
           \/ \E u \in Uids, s \in {"ON", "OFF", "FLING_END", "BEGIN", "END", "MOVE"} :
                HandleEventSlide(u, s)
           \/ \E f \in BOOLEAN : HandleSwiperFlingEndEx(f)
           \/ \E c \in BOOLEAN : HandleCameraStateChange(c)
           \/ UNCHANGED sfVars
  <2>1. /\ focusAppUids' = focusAppUids /\ isFocusAppsGameType' = isFocusAppsGameType
        /\ reqAppTypeFunc' = reqAppTypeFunc /\ custGameState' = custGameState
        /\ custGameUids' = custGameUids /\ weakActionStatus' = weakActionStatus
        /\ known' = known
    BY <1>8, Zenon DEF InitFeatureSwitch, HandleEventSlide, HandleSwiperFlingEndEx,
       HandleCameraStateChange, OnlyRequests, sfVars
  <2>2. /\ known' \subseteq known
        /\ custGameState' <=> custGameUids' # {}
        /\ custGameState' => ~weakActionStatus'
    BY <1>0, <2>1, Zenon
  <2> QED
    BY <1>1, <2>1, <2>2, Zenon
<1> QED
  BY <1>2, <1>3, <1>4, <1>5, <1>6, <1>7, <1>8, Zenon DEF FocusNext

LEMMA FocusStart == FocusInit => FocusInv
<1> SUFFICES ASSUME FocusInit PROVE FocusInv
  OBVIOUS
<1>1. focusAppUids = {} /\ known = {} /\ custGameUids = {}
  BY DEF FocusInit
<1>2. ~isFocusAppsGameType /\ ~custGameState
  BY Zenon DEF FocusInit
<1>3. IsFiniteSet(focusAppUids)
  BY <1>1, FS_EmptySet
<1> QED
  BY <1>1, <1>2, <1>3, Zenon DEF FocusInv, GameFlagSound, WeakOffInCustGame

(* GameFlagSound and WeakOffInCustGame in every behaviour of FocusSpec,    *)
(* for any applications and types: HandleWindowFocus and HandleWindowUnfocus *)
(* never leave the game flag set over an application that is no game, and  *)
(* no event turns the weak action mode on while a custom game has the      *)
(* focus.                                                                  *)
THEOREM FocusKeptRight == FocusSpec => [](GameFlagSound /\ WeakOffInCustGame)
<1>1. FocusInv /\ [FocusNext]_sfVars => FocusInv'
  BY FocusStep
<1>2. FocusInv => GameFlagSound /\ WeakOffInCustGame
  BY DEF FocusInv
<1> QED
  BY <1>1, <1>2, FocusStart, PTL DEF FocusSpec

-----------------------------------------------------------------------------
(* SocPerfBattery.  GetLimitCapacity finds the smallest threshold that is  *)
(* not below the level, when there is one.                                 *)
Caps == Thresholds \cup {NoLimit}
LEMMA CapsOrdered ==
  /\ Caps \subseteq Int /\ IsFiniteSet(Caps) /\ maxBatteryLimitCapacity \in Caps
  /\ \A c \in Caps : c <= maxBatteryLimitCapacity
<1>1. Caps \in SUBSET Int /\ IsFiniteSet(Caps) /\ Caps # {}
  BY BatteryAssumption, FS_AddElement DEF Caps, NoLimit
<1> QED
  BY <1>1, LargestOf DEF maxBatteryLimitCapacity, Caps

LEMMA LimitCapacity ==
  ASSUME NEW capacity \in Nat, capacity <= maxBatteryLimitCapacity
  PROVE  LET c == GetLimitCapacity(capacity)
         IN  c \in Thresholds /\ c >= capacity /\ \A d \in Thresholds : d >= capacity => c <= d
<1> DEFINE m == maxBatteryLimitCapacity
           Better(c, cap) == IF c >= capacity /\ c <= cap THEN c ELSE cap
           comb == [p \in Caps \X Caps |-> Better(p[1], p[2])]
           self == [c \in Thresholds |-> c]
           Loops(g) == g = [s \in SUBSET Thresholds |-> IF s = {} THEN m
                              ELSE Better(CHOOSE x \in s : TRUE, g[s \ {CHOOSE x \in s : TRUE}])]
           loop == CHOOSE g : Loops(g)
<1>1. GetLimitCapacity(capacity) = loop[Thresholds]
  BY DEF GetLimitCapacity, FoldSet, MapThenFoldSet
<1>2. /\ IsFiniteSet(Thresholds) /\ Thresholds \subseteq Caps /\ Caps \subseteq Int /\ m \in Caps
      /\ \A c \in Caps : c <= m
  BY BatteryAssumption, CapsOrdered DEF Caps
<1>3. comb \in [Caps \X Caps -> Caps] /\ \A c \in Thresholds : self[c] \in Caps
  BY <1>2
<1>4. \E g : Loops(g)
  <2> HIDE DEF comb, m
  <2>1. PICK g \in [SUBSET Thresholds -> Caps] : FoldedBy(g, comb, m, self, Thresholds)
    BY <1>2, <1>3, FoldExists
  <2>2. g = [s \in SUBSET Thresholds |-> IF s = {} THEN m ELSE comb[<<self[Pick(s)], g[s \ {Pick(s)}]>>]]
    BY <2>1 DEF FoldedBy
  <2>3. \A s \in SUBSET Thresholds : g[s] = IF s = {} THEN m ELSE Better(Pick(s), g[s \ {Pick(s)}])
    <3> TAKE s \in SUBSET Thresholds
    <3>1. CASE s = {}
      BY <2>2, <3>1
    <3>2. CASE s # {}
      <4>1. Pick(s) \in Thresholds /\ s \ {Pick(s)} \in SUBSET Thresholds
        BY <3>2, PickIn
      <4>2. self[Pick(s)] = Pick(s) /\ Pick(s) \in Caps /\ g[s \ {Pick(s)}] \in Caps
        BY <1>2, <2>1, <4>1
      <4>3. g[s] = comb[<<Pick(s), g[s \ {Pick(s)}]>>]
        BY <2>2, <3>2, <4>2
      <4> QED
        BY <3>2, <4>2, <4>3 DEF comb
    <3> QED
      BY <3>1, <3>2
  <2> HIDE DEF Better
  <2>4. Loops(g)
    BY <2>1, <2>3 DEF Pick
  <2> QED
    BY <2>4
<1> HIDE DEF Loops
<1>5. Loops(loop)
  BY <1>4
<1> HIDE DEF loop
<1>6. \A s \in SUBSET Thresholds : loop[s] = IF s = {} THEN m ELSE Better(Pick(s), loop[s \ {Pick(s)}])
  BY <1>5 DEF Loops, Pick
<1> DEFINE Right(s) == /\ loop[s] \in Caps /\ loop[s] >= capacity
                       /\ \A d \in s : d >= capacity => loop[s] <= d
           Bad == {s \in SUBSET Thresholds : ~Right(s)}
<1>7. Bad = {}
  <2> SUFFICES ASSUME Bad # {} PROVE FALSE
    OBVIOUS
  <2>1. Bad \in SUBSET SUBSET Thresholds
    OBVIOUS
  <2> HIDE DEF Bad
  <2>2. PICK s \in Bad : \A x \in s : s \ {x} \notin Bad
    BY <1>2, <2>1, SmallestSet
  <2>3. s \in SUBSET Thresholds /\ ~Right(s)
    BY <2>2 DEF Bad
  <2>4. CASE s = {}
    BY <1>2, <1>6, <2>3, <2>4
  <2>5. CASE s # {}
    <3> DEFINE x == Pick(s)
    <3>1. x \in s /\ Right(s \ {x}) /\ loop[s] = Better(x, loop[s \ {x}])
      BY <1>6, <2>2, <2>3, <2>5, PickIn DEF Bad
    <3> HIDE DEF x
    <3>2. x \in Int /\ x \in Caps /\ loop[s \ {x}] \in Int /\ s \subseteq Int
      BY <1>2, <2>3, <3>1
    <3>3. CASE x >= capacity /\ x <= loop[s \ {x}]
      <4>1. loop[s] = x
        BY <3>1, <3>3
      <4>2. ASSUME NEW d \in s, d >= capacity PROVE x <= d
        <5>1. d = x \/ d \in s \ {x}
          OBVIOUS
        <5>2. d \in Int /\ (d = x \/ loop[s \ {x}] <= d)
          BY <3>1, <3>2, <4>2, <5>1
        <5> QED
          BY <3>2, <3>3, <5>2
      <4> QED
        BY <2>3, <3>2, <3>3, <4>1, <4>2
    <3>4. CASE ~(x >= capacity /\ x <= loop[s \ {x}])
      BY <2>3, <3>1, <3>2, <3>4
    <3> QED
      BY <3>3, <3>4
  <2> QED
    BY <2>4, <2>5
<1>8. Right(Thresholds)
  BY <1>7
<1>9. loop[Thresholds] # NoLimit
  BY <1>2, <1>8 DEF NoLimit
<1> QED
  BY <1>1, <1>8, <1>9 DEF Caps

(* The limit the service has is the one remembered.                        *)
BatteryInv == BatteryTypeOK /\ limited = lastBatteryLimitCap /\ BatteryLimitRight

LEMMA BatteryStart == BatteryInit => BatteryInv
  BY DEF BatteryInit, BatteryInv, BatteryTypeOK, BatteryLimitRight

LEMMA BatteryStep ==
  ASSUME BatteryInv, [BatteryNext]_batteryVars
  PROVE  BatteryInv'
<1>1. CASE UNCHANGED batteryVars
  BY <1>1 DEF batteryVars, BatteryInv, BatteryTypeOK, BatteryLimitRight
<1>2. ASSUME NEW level \in Levels, NEW charging \in BOOLEAN, HandleBatteryStatusChange(level, charging)
      PROVE  BatteryInv'
  <2> DEFINE c == GetLimitCapacity(level)
             reached == {d \in Thresholds : d >= level}
             Off == level > maxBatteryLimitCapacity \/ charging
  <2>1. battery' = [level |-> level, charging |-> charging] /\ HandleFreqLimit(level, charging)
    BY <1>2 DEF HandleBatteryStatusChange
  <2>2. level \in Nat /\ maxBatteryLimitCapacity \in Int /\ Thresholds \subseteq Int
        /\ \A d \in Thresholds : d <= maxBatteryLimitCapacity
    BY BatteryAssumption, CapsOrdered DEF Caps
  <2>3. limited = lastBatteryLimitCap
    BY DEF BatteryInv
  <2>4. /\ battery' # <<>> /\ battery'.level = level /\ battery'.charging = charging
        /\ battery' \in [level : Levels, charging : BOOLEAN]
    BY <2>1
  <2>5. CASE Off
    <3>1. limited' = NoLimit /\ lastBatteryLimitCap' = NoLimit
      BY <2>1, <2>3, <2>5 DEF HandleFreqLimit, HandleRecoverBatteryLimit
    <3>2. charging \/ reached = {}
      <4>1. CASE level > maxBatteryLimitCapacity
        <5>1. \A d \in Thresholds : ~(d >= level)
          BY <2>2, <4>1
        <5> QED
          BY <5>1
      <4> QED
        BY <2>5, <4>1, Zenon
    <3> QED
      BY <2>4, <3>1, <3>2 DEF BatteryInv, BatteryTypeOK, BatteryLimitRight
  <2>6. CASE ~Off
    <3>1. limited' = c /\ lastBatteryLimitCap' = c
      BY <2>1, <2>3, <2>6 DEF HandleFreqLimit, HandleBatteryLimit
    <3>2. c \in Thresholds /\ c >= level /\ \A d \in Thresholds : d >= level => c <= d
      BY <2>2, <2>6, LimitCapacity
    <3> HIDE DEF c
    <3>3. ~charging /\ c \in reached /\ \A d \in reached : c <= d
      BY <2>6, <3>2
    <3> QED
      BY <2>4, <3>1, <3>2, <3>3 DEF BatteryInv, BatteryTypeOK, BatteryLimitRight
  <2> QED
    BY <2>5, <2>6
<1> QED
  BY <1>1, <1>2 DEF BatteryNext
-----------------------------------------------------------------------------
(* SocPerfExecutor.  The steps of a load, and the loads as folds of them.  *)
Loads == [nodes : SUBSET ResourceNodes, ok : BOOLEAN]
FreqStep(r, d) == IF r.ok THEN TraversalFreqResource(r, d) ELSE r
GovStep(r, d) == IF r.ok THEN GovResource(r, d) ELSE r
GroupStep(r, g) == IF ~r.ok THEN r
                   ELSE IF g.gov THEN LoadGovResource(r, g) ELSE LoadResource(r, g)
FileStep(r, f) == IF r.ok THEN ParseResourceXmlFile(r, f) ELSE r
FreqLoad(r, q) == FoldLeft(FreqStep, r, q)
GovLoad(r, q) == FoldLeft(GovStep, r, q)

LEMMA StepTypes ==
  ASSUME NEW r \in Loads, NEW d \in Declarations
  PROVE  FreqStep(r, d) \in Loads /\ GovStep(r, d) \in Loads
<1>1. Insert(r, d) \in Loads /\ Insert(r, [d EXCEPT !.levels = {}]) \in Loads
  BY DEF Insert, Loads, ResourceNodes, Declarations
<1>2. \A x \in Loads : Fails(x) \in Loads
  BY DEF Fails, Loads
<1> QED
  BY <1>1, <1>2 DEF FreqStep, GovStep, TraversalFreqResource, GovResource,
                    LoadFreqResourceContent, TraversalGovResource

LEMMA FreqFold ==
  ASSUME NEW r \in Loads, NEW q \in Seq(Declarations)
  PROVE  \E h \in [0..Len(q) -> Loads] :
           /\ h[0] = r /\ h[Len(q)] = FreqLoad(r, q)
           /\ \A i \in 1..Len(q) : h[i] = FreqStep(h[i - 1], q[i])
<1> DEFINE Adds(g) == g = [s \in SUBSET DOMAIN q |-> IF s = {} THEN r
                             ELSE FreqStep(g[s \ {Max(s)}], q[Max(s)])]
           it == CHOOSE g : Adds(g)
           comb == [p \in Loads \X Declarations |-> FreqStep(p[1], p[2])]
<1>1. FreqLoad(r, q) = it[DOMAIN q]
  BY DEF FreqLoad, FoldLeft, MapThenFoldSet
<1>2. /\ comb \in [Loads \X Declarations -> Loads]
      /\ \A v \in Loads, d \in Declarations : comb[<<v, d>>] = FreqStep(v, d)
  BY StepTypes
<1> HIDE DEF comb
<1>3. PICK g \in [SUBSET DOMAIN q -> Loads] : LeftFolds(g, comb, r, q, Loads)
  BY <1>2, LeftFoldExists
<1>4. Adds(g)
  <2>1. ASSUME NEW s \in SUBSET DOMAIN q, s # {} PROVE g[s] = FreqStep(g[s \ {Max(s)}], q[Max(s)])
    <3>1. s \ {Max(s)} \in SUBSET DOMAIN q /\ q[Max(s)] \in Declarations
      BY <2>1, LeftMax
    <3>2. g[s \ {Max(s)}] \in Loads
      BY <3>1
    <3>3. g[s] = comb[<<g[s \ {Max(s)}], q[Max(s)]>>]
      BY <2>1, <1>3, <3>2 DEF LeftFolds
    <3> QED
      BY <1>2, <3>1, <3>2, <3>3
  <2>2. g[{}] = r
    BY <1>3 DEF LeftFolds
  <2> QED
    BY <2>1, <2>2
<1> HIDE DEF Adds
<1>5. Adds(it)
  BY <1>4
<1>6. LeftFolds(it, comb, r, q, Loads)
  <2> HIDE DEF it
  <2>1. ASSUME NEW s \in SUBSET DOMAIN q, s # {}, it[s \ {Max(s)}] \in Loads
        PROVE  it[s] = comb[<<it[s \ {Max(s)}], q[Max(s)]>>]
    <3>1. q[Max(s)] \in Declarations
      BY <2>1, LeftMax
    <3>2. it[s] = FreqStep(it[s \ {Max(s)}], q[Max(s)])
      BY <1>5, <2>1 DEF Adds
    <3> QED
      BY <1>2, <2>1, <3>1, <3>2
  <2>2. it[{}] = r
    BY <1>5 DEF Adds
  <2> QED
    BY <2>1, <2>2 DEF LeftFolds
<1> HIDE DEF it
<1>7. PICK h \in [0..Len(q) -> Loads] : RunsTo(h, comb, r, q, it[DOMAIN q])
  BY <1>2, <1>6, LeftAlong
<1>8. ASSUME NEW i \in 1..Len(q) PROVE h[i] = FreqStep(h[i - 1], q[i])
  <2>1. i - 1 \in 0..Len(q) /\ q[i] \in Declarations
    BY LeftPlaces
  <2>2. h[i - 1] \in Loads /\ h[i] = comb[<<h[i - 1], q[i]>>]
    BY <1>7, <2>1 DEF RunsTo
  <2> QED
    BY <1>2, <2>1, <2>2
<1> QED
  BY <1>1, <1>7, <1>8 DEF RunsTo

LEMMA GovFold ==
  ASSUME NEW r \in Loads, NEW q \in Seq(Declarations)
  PROVE  \E h \in [0..Len(q) -> Loads] :
           /\ h[0] = r /\ h[Len(q)] = GovLoad(r, q)
           /\ \A i \in 1..Len(q) : h[i] = GovStep(h[i - 1], q[i])
<1> DEFINE Adds(g) == g = [s \in SUBSET DOMAIN q |-> IF s = {} THEN r
                             ELSE GovStep(g[s \ {Max(s)}], q[Max(s)])]
           it == CHOOSE g : Adds(g)
           comb == [p \in Loads \X Declarations |-> GovStep(p[1], p[2])]
<1>1. GovLoad(r, q) = it[DOMAIN q]
  BY DEF GovLoad, FoldLeft, MapThenFoldSet
<1>2. /\ comb \in [Loads \X Declarations -> Loads]
      /\ \A v \in Loads, d \in Declarations : comb[<<v, d>>] = GovStep(v, d)
  BY StepTypes
<1> HIDE DEF comb
<1>3. PICK g \in [SUBSET DOMAIN q -> Loads] : LeftFolds(g, comb, r, q, Loads)
  BY <1>2, LeftFoldExists
<1>4. Adds(g)
  <2>1. ASSUME NEW s \in SUBSET DOMAIN q, s # {} PROVE g[s] = GovStep(g[s \ {Max(s)}], q[Max(s)])
    <3>1. s \ {Max(s)} \in SUBSET DOMAIN q /\ q[Max(s)] \in Declarations
      BY <2>1, LeftMax
    <3>2. g[s \ {Max(s)}] \in Loads
      BY <3>1
    <3>3. g[s] = comb[<<g[s \ {Max(s)}], q[Max(s)]>>]
      BY <2>1, <1>3, <3>2 DEF LeftFolds
    <3> QED
      BY <1>2, <3>1, <3>2, <3>3
  <2>2. g[{}] = r
    BY <1>3 DEF LeftFolds
  <2> QED
    BY <2>1, <2>2
<1> HIDE DEF Adds
<1>5. Adds(it)
  BY <1>4
<1>6. LeftFolds(it, comb, r, q, Loads)
  <2> HIDE DEF it
  <2>1. ASSUME NEW s \in SUBSET DOMAIN q, s # {}, it[s \ {Max(s)}] \in Loads
        PROVE  it[s] = comb[<<it[s \ {Max(s)}], q[Max(s)]>>]
    <3>1. q[Max(s)] \in Declarations
      BY <2>1, LeftMax
    <3>2. it[s] = GovStep(it[s \ {Max(s)}], q[Max(s)])
      BY <1>5, <2>1 DEF Adds
    <3> QED
      BY <1>2, <2>1, <3>1, <3>2
  <2>2. it[{}] = r
    BY <1>5 DEF Adds
  <2> QED
    BY <2>1, <2>2 DEF LeftFolds
<1> HIDE DEF it
<1>7. PICK h \in [0..Len(q) -> Loads] : RunsTo(h, comb, r, q, it[DOMAIN q])
  BY <1>2, <1>6, LeftAlong
<1>8. ASSUME NEW i \in 1..Len(q) PROVE h[i] = GovStep(h[i - 1], q[i])
  <2>1. i - 1 \in 0..Len(q) /\ q[i] \in Declarations
    BY LeftPlaces
  <2>2. h[i - 1] \in Loads /\ h[i] = comb[<<h[i - 1], q[i]>>]
    BY <1>7, <2>1 DEF RunsTo
  <2> QED
    BY <1>2, <2>1, <2>2
<1> QED
  BY <1>1, <1>7, <1>8 DEF RunsTo

LEMMA LoadsAsFolds ==
  ASSUME NEW r, NEW g
  PROVE  /\ LoadResource(r, g) = [FreqLoad(r, g.decls) EXCEPT
                                   !.ok = @ /\ CheckPairResIdValid(FreqLoad(r, g.decls).nodes)
                                            /\ CheckDefValid(FreqLoad(r, g.decls).nodes)]
         /\ LoadGovResource(r, g) = [GovLoad(r, g.decls) EXCEPT
                                      !.ok = @ /\ CheckDefValid(GovLoad(r, g.decls).nodes)]
<1>1. FreqLoad(r, g.decls) =
        FoldLeft(LAMBDA q, d : IF q.ok THEN TraversalFreqResource(q, d) ELSE q, r, g.decls)
  BY DEF FreqLoad, FreqStep, FoldLeft, MapThenFoldSet
<1>2. GovLoad(r, g.decls) =
        FoldLeft(LAMBDA q, d : IF q.ok THEN GovResource(q, d) ELSE q, r, g.decls)
  BY DEF GovLoad, GovStep, FoldLeft, MapThenFoldSet
<1> QED
  BY <1>1, <1>2 DEF LoadResource, LoadGovResource

(* A load only adds nodes, and none whose id is known.                     *)
UniqueIds(nodes) == \A m, n \in nodes : m.id = n.id => m = n
Grows(nodes, more) == nodes \subseteq more /\ (UniqueIds(nodes) => UniqueIds(more))

LEMMA StepGrows ==
  ASSUME NEW r \in Loads, NEW d \in Declarations
  PROVE  Grows(r.nodes, FreqStep(r, d).nodes) /\ Grows(r.nodes, GovStep(r, d).nodes)
<1>1. ASSUME NEW e \in Declarations, e.id = d.id
      PROVE  Insert(r, e) \in Loads /\ Fails(Insert(r, e)).nodes = Insert(r, e).nodes
             /\ (~KnownId(r.nodes, d.id) => Grows(r.nodes, Insert(r, e).nodes))
  BY <1>1 DEF Insert, Loads, Grows, UniqueIds, KnownId, Declarations, ResourceNodes, Fails
<1>2. Grows(r.nodes, r.nodes) /\ Fails(r).nodes = r.nodes
  BY DEF Grows, Fails, Loads
<1>3. [d EXCEPT !.levels = {}] \in Declarations /\ [d EXCEPT !.levels = {}].id = d.id
  BY DEF Declarations
<1>4. Grows(r.nodes, FreqStep(r, d).nodes)
  BY <1>1, <1>2 DEF FreqStep, TraversalFreqResource, LoadFreqResourceContent
<1>5. Grows(r.nodes, GovStep(r, d).nodes)
  BY <1>1, <1>2, <1>3 DEF GovStep, GovResource, TraversalGovResource
<1> QED
  BY <1>4, <1>5

LEMMA GrowsOn ==
  ASSUME NEW a, NEW b, NEW c, Grows(a, b), Grows(b, c)
  PROVE  Grows(a, c)
  BY DEF Grows

LEMMA DeclsGrow ==
  ASSUME NEW r \in Loads, NEW q \in Seq(Declarations)
  PROVE  /\ FreqLoad(r, q) \in Loads /\ Grows(r.nodes, FreqLoad(r, q).nodes)
         /\ GovLoad(r, q) \in Loads /\ Grows(r.nodes, GovLoad(r, q).nodes)
<1>1. /\ Grows(r.nodes, r.nodes) /\ Len(q) \in Nat
      /\ \A i \in 1..Len(q) : q[i] \in Declarations /\ i - 1 \in 0..Len(q)
  BY DEF Grows
<1>2. ASSUME NEW h \in [0..Len(q) -> Loads], h[0] = r,
             \A i \in 1..Len(q) : h[i] = FreqStep(h[i - 1], q[i]) \/ h[i] = GovStep(h[i - 1], q[i])
      PROVE  h[Len(q)] \in Loads /\ Grows(r.nodes, h[Len(q)].nodes)
  <2> DEFINE B == {i \in 0..Len(q) : Grows(r.nodes, h[i].nodes)}
  <2>1. 0 \in B
    BY <1>1, <1>2
  <2>2. ASSUME NEW i \in 1..Len(q), i - 1 \in B PROVE i \in B
    <3>1. h[i - 1] \in Loads /\ q[i] \in Declarations
      BY <1>1
    <3>2. Grows(h[i - 1].nodes, h[i].nodes) /\ i \in 0..Len(q)
      BY <1>1, <1>2, <3>1, StepGrows
    <3> QED
      BY <2>2, <3>2, GrowsOn
  <2>3. Len(q) \in B
    <3> HIDE DEF B
    <3>1. \A i \in 0..Len(q) : i \in B
      BY <1>1, <2>1, <2>2, Climbs
    <3> QED
      BY <1>1, <3>1
  <2> QED
    BY <2>3
<1>3. FreqLoad(r, q) \in Loads /\ Grows(r.nodes, FreqLoad(r, q).nodes)
  BY <1>2, FreqFold
<1>4. GovLoad(r, q) \in Loads /\ Grows(r.nodes, GovLoad(r, q).nodes)
  BY <1>2, GovFold
<1> QED
  BY <1>3, <1>4

(* A group that loads has been checked.                                    *)
LEMMA GroupLoads ==
  ASSUME NEW r \in Loads, NEW g \in ResourceGroups
  PROVE  /\ GroupStep(r, g) \in Loads /\ Grows(r.nodes, GroupStep(r, g).nodes)
         /\ GroupStep(r, g).ok => CheckDefValid(GroupStep(r, g).nodes)
<1> DEFINE f == FreqLoad(r, g.decls)
           v == GovLoad(r, g.decls)
<1>1. f \in Loads /\ Grows(r.nodes, f.nodes) /\ v \in Loads /\ Grows(r.nodes, v.nodes)
  BY DeclsGrow DEF ResourceGroups
<1>2. /\ LoadResource(r, g) =
           [f EXCEPT !.ok = @ /\ CheckPairResIdValid(f.nodes) /\ CheckDefValid(f.nodes)]
      /\ LoadGovResource(r, g) = [v EXCEPT !.ok = @ /\ CheckDefValid(v.nodes)]
  BY LoadsAsFolds
<1> HIDE DEF f, v
<1>3. /\ CheckDefValid(f.nodes) \in BOOLEAN /\ CheckPairResIdValid(f.nodes) \in BOOLEAN
      /\ CheckDefValid(v.nodes) \in BOOLEAN /\ Grows(r.nodes, r.nodes)
  BY DEF CheckDefValid, CheckPairResIdValid, Grows
<1>4. /\ LoadResource(r, g) \in Loads /\ LoadResource(r, g).nodes = f.nodes
      /\ LoadResource(r, g).ok => CheckDefValid(f.nodes)
  BY <1>1, <1>2, <1>3 DEF Loads
<1>5. /\ LoadGovResource(r, g) \in Loads /\ LoadGovResource(r, g).nodes = v.nodes
      /\ LoadGovResource(r, g).ok => CheckDefValid(v.nodes)
  BY <1>1, <1>2, <1>3 DEF Loads
<1>6. r.ok \in BOOLEAN
  BY DEF Loads
<1> QED
  BY <1>1, <1>3, <1>4, <1>5, <1>6 DEF GroupStep

LEMMA GroupFold ==
  ASSUME NEW r \in Loads, NEW q \in Seq(ResourceGroups)
  PROVE  \E h \in [0..Len(q) -> Loads] :
           /\ h[0] = r /\ h[Len(q)] = ParseResourceXmlFile(r, q)
           /\ \A i \in 1..Len(q) : h[i] = GroupStep(h[i - 1], q[i])
<1> DEFINE Adds(g) == g = [s \in SUBSET DOMAIN q |-> IF s = {} THEN r
                             ELSE GroupStep(g[s \ {Max(s)}], q[Max(s)])]
           it == CHOOSE g : Adds(g)
           comb == [p \in Loads \X ResourceGroups |-> GroupStep(p[1], p[2])]
<1>1. ParseResourceXmlFile(r, q) = it[DOMAIN q]
  BY DEF ParseResourceXmlFile, GroupStep, FoldLeft, MapThenFoldSet
<1>2. /\ comb \in [Loads \X ResourceGroups -> Loads]
      /\ \A v \in Loads, d \in ResourceGroups : comb[<<v, d>>] = GroupStep(v, d)
  BY GroupLoads
<1> HIDE DEF comb
<1>3. PICK g \in [SUBSET DOMAIN q -> Loads] : LeftFolds(g, comb, r, q, Loads)
  BY <1>2, LeftFoldExists
<1>4. Adds(g)
  <2>1. ASSUME NEW s \in SUBSET DOMAIN q, s # {}
        PROVE  g[s] = GroupStep(g[s \ {Max(s)}], q[Max(s)])
    <3>1. s \ {Max(s)} \in SUBSET DOMAIN q /\ q[Max(s)] \in ResourceGroups
      BY <2>1, LeftMax
    <3>2. g[s \ {Max(s)}] \in Loads
      BY <3>1
    <3>3. g[s] = comb[<<g[s \ {Max(s)}], q[Max(s)]>>]
      BY <2>1, <1>3, <3>2 DEF LeftFolds
    <3> QED
      BY <1>2, <3>1, <3>2, <3>3
  <2>2. g[{}] = r
    BY <1>3 DEF LeftFolds
  <2> QED
    BY <2>1, <2>2
<1> HIDE DEF Adds
<1>5. Adds(it)
  BY <1>4
<1>6. LeftFolds(it, comb, r, q, Loads)
  <2> HIDE DEF it
  <2>1. ASSUME NEW s \in SUBSET DOMAIN q, s # {}, it[s \ {Max(s)}] \in Loads
        PROVE  it[s] = comb[<<it[s \ {Max(s)}], q[Max(s)]>>]
    <3>1. q[Max(s)] \in ResourceGroups
      BY <2>1, LeftMax
    <3>2. it[s] = GroupStep(it[s \ {Max(s)}], q[Max(s)])
      BY <1>5, <2>1 DEF Adds
    <3> QED
      BY <1>2, <2>1, <3>1, <3>2
  <2>2. it[{}] = r
    BY <1>5 DEF Adds
  <2> QED
    BY <2>1, <2>2 DEF LeftFolds
<1> HIDE DEF it
<1>7. PICK h \in [0..Len(q) -> Loads] : RunsTo(h, comb, r, q, it[DOMAIN q])
  BY <1>2, <1>6, LeftAlong
<1>8. ASSUME NEW i \in 1..Len(q) PROVE h[i] = GroupStep(h[i - 1], q[i])
  <2>1. i - 1 \in 0..Len(q) /\ q[i] \in ResourceGroups
    BY LeftPlaces
  <2>2. h[i - 1] \in Loads /\ h[i] = comb[<<h[i - 1], q[i]>>]
    BY <1>7, <2>1 DEF RunsTo
  <2> QED
    BY <1>2, <2>1, <2>2
<1> QED
  BY <1>1, <1>7, <1>8 DEF RunsTo

(* So has a file with groups; one without adds nothing.                    *)
LEMMA FileLoads ==
  ASSUME NEW r \in Loads, NEW f \in Seq(ResourceGroups), r.ok
  PROVE  /\ FileStep(r, f) \in Loads /\ Grows(r.nodes, FileStep(r, f).nodes)
         /\ f = <<>> => FileStep(r, f) = r
         /\ f # <<>> /\ FileStep(r, f).ok => CheckDefValid(FileStep(r, f).nodes)
<1> DEFINE n == Len(f)
<1>1. n \in Nat /\ (f = <<>> <=> n = 0) /\ \A i \in 1..n : f[i] \in ResourceGroups /\ i - 1 \in 0..n
  OBVIOUS
<1>2. PICK h \in [0..n -> Loads] : /\ h[0] = r /\ h[n] = ParseResourceXmlFile(r, f)
                                   /\ \A i \in 1..n : h[i] = GroupStep(h[i - 1], f[i])
  BY GroupFold
<1>3. h[n] = FileStep(r, f)
  BY <1>2 DEF FileStep
<1> DEFINE B == {i \in 0..n : Grows(r.nodes, h[i].nodes)}
<1> HIDE DEF n
<1>4. ASSUME NEW i \in 1..n
      PROVE  h[i] \in Loads /\ Grows(h[i - 1].nodes, h[i].nodes) /\ i \in 0..n
                                  /\ (h[i].ok => CheckDefValid(h[i].nodes))
  <2>1. h[i - 1] \in Loads /\ f[i] \in ResourceGroups /\ h[i] = GroupStep(h[i - 1], f[i]) /\ i \in 0..n
    BY <1>1, <1>2
  <2> QED
    BY <2>1, GroupLoads
<1>5. 0 \in B
  BY <1>1, <1>2 DEF Grows
<1>6. ASSUME NEW i \in 1..n, i - 1 \in B PROVE i \in B
  BY <1>4, <1>6, GrowsOn
<1>7. n \in B
  <2> HIDE DEF B
  <2>1. \A i \in 0..n : i \in B
    BY <1>1, <1>5, <1>6, Climbs
  <2> QED
    BY <1>1, <2>1
<1>8. n = 0 => h[n] = r
  BY <1>2
<1>9. n # 0 => n \in 1..n
  BY <1>1
<1> QED
  BY <1>1, <1>2, <1>3, <1>4, <1>7, <1>8, <1>9

LEMMA FileStepLoads ==
  ASSUME NEW r \in Loads, NEW f \in Seq(ResourceGroups)
  PROVE  FileStep(r, f) \in Loads /\ Grows(r.nodes, FileStep(r, f).nodes)
  BY FileLoads DEF FileStep, Grows

FilesLoad(r, q) == FoldLeft(FileStep, r, q)
LEMMA FileFold ==
  ASSUME NEW r \in Loads, NEW q \in Seq(Seq(ResourceGroups))
  PROVE  \E h \in [0..Len(q) -> Loads] :
           /\ h[0] = r /\ h[Len(q)] = FilesLoad(r, q)
           /\ \A i \in 1..Len(q) : h[i] = FileStep(h[i - 1], q[i])
<1> DEFINE Adds(g) == g = [s \in SUBSET DOMAIN q |-> IF s = {} THEN r
                             ELSE FileStep(g[s \ {Max(s)}], q[Max(s)])]
           it == CHOOSE g : Adds(g)
           comb == [p \in Loads \X Seq(ResourceGroups) |-> FileStep(p[1], p[2])]
<1>1. FilesLoad(r, q) = it[DOMAIN q]
  BY DEF FilesLoad, FoldLeft, MapThenFoldSet
<1>2. /\ comb \in [Loads \X Seq(ResourceGroups) -> Loads]
      /\ \A v \in Loads, d \in Seq(ResourceGroups) : comb[<<v, d>>] = FileStep(v, d)
  BY FileStepLoads
<1> HIDE DEF comb
<1>3. PICK g \in [SUBSET DOMAIN q -> Loads] : LeftFolds(g, comb, r, q, Loads)
  BY <1>2, LeftFoldExists
<1>4. Adds(g)
  <2>1. ASSUME NEW s \in SUBSET DOMAIN q, s # {} PROVE g[s] = FileStep(g[s \ {Max(s)}], q[Max(s)])
    <3>1. s \ {Max(s)} \in SUBSET DOMAIN q /\ q[Max(s)] \in Seq(ResourceGroups)
      BY <2>1, LeftMax
    <3>2. g[s \ {Max(s)}] \in Loads
      BY <3>1
    <3>3. g[s] = comb[<<g[s \ {Max(s)}], q[Max(s)]>>]
      BY <2>1, <1>3, <3>2 DEF LeftFolds
    <3> QED
      BY <1>2, <3>1, <3>2, <3>3
  <2>2. g[{}] = r
    BY <1>3 DEF LeftFolds
  <2> QED
    BY <2>1, <2>2
<1> HIDE DEF Adds
<1>5. Adds(it)
  BY <1>4
<1>6. LeftFolds(it, comb, r, q, Loads)
  <2> HIDE DEF it
  <2>1. ASSUME NEW s \in SUBSET DOMAIN q, s # {}, it[s \ {Max(s)}] \in Loads
        PROVE  it[s] = comb[<<it[s \ {Max(s)}], q[Max(s)]>>]
    <3>1. q[Max(s)] \in Seq(ResourceGroups)
      BY <2>1, LeftMax
    <3>2. it[s] = FileStep(it[s \ {Max(s)}], q[Max(s)])
      BY <1>5, <2>1 DEF Adds
    <3> QED
      BY <1>2, <2>1, <3>1, <3>2
  <2>2. it[{}] = r
    BY <1>5 DEF Adds
  <2> QED
    BY <2>1, <2>2 DEF LeftFolds
<1> HIDE DEF it
<1>7. PICK h \in [0..Len(q) -> Loads] : RunsTo(h, comb, r, q, it[DOMAIN q])
  BY <1>2, <1>6, LeftAlong
<1>8. ASSUME NEW i \in 1..Len(q) PROVE h[i] = FileStep(h[i - 1], q[i])
  <2>1. i - 1 \in 0..Len(q) /\ q[i] \in Seq(ResourceGroups)
    BY LeftPlaces
  <2>2. h[i - 1] \in Loads /\ h[i] = comb[<<h[i - 1], q[i]>>]
    BY <1>7, <2>1 DEF RunsTo
  <2> QED
    BY <1>2, <2>1, <2>2
<1> QED
  BY <1>1, <1>7, <1>8 DEF RunsTo

NoGroups(files) == \A j \in DOMAIN files : files[j] = <<>>

(* All files: a load that succeeds has been checked, unless no file has a  *)
(* group.                                                                  *)
LEMMA FilesLoads ==
  ASSUME NEW nodes \in SUBSET ResourceNodes, NEW files \in Seq(Seq(ResourceGroups))
  PROVE  LET load == LoadAllConfigXmlFile(nodes, files)
         IN  /\ load \in Loads /\ Grows(nodes, load.nodes)
             /\ load.ok => CheckDefValid(load.nodes) \/ (load.nodes = nodes /\ NoGroups(files))
             /\ ~load.ok => ~NoGroups(files)
<1> DEFINE n == Len(files)
           r == [nodes |-> nodes, ok |-> TRUE]
           load == LoadAllConfigXmlFile(nodes, files)
<1>1. /\ n \in Nat /\ DOMAIN files = 1..n
      /\ \A i \in 1..n : files[i] \in Seq(ResourceGroups) /\ i - 1 \in 0..n
  OBVIOUS
<1>2. r \in Loads /\ r.nodes = nodes /\ r.ok
  BY DEF Loads
<1>3. load = FilesLoad(r, files)
  BY DEF LoadAllConfigXmlFile, FilesLoad, FileStep, FoldLeft, MapThenFoldSet
<1> HIDE DEF r, load
<1>4. PICK h \in [0..n -> Loads] : /\ h[0] = r /\ h[n] = FilesLoad(r, files)
                                   /\ \A i \in 1..n : h[i] = FileStep(h[i - 1], files[i])
  BY <1>2, FileFold
<1> HIDE DEF n
<1> DEFINE None(i) == \A j \in 1..i : files[j] = <<>>
           Good(i) == /\ Grows(nodes, h[i].nodes)
                      /\ h[i].ok => CheckDefValid(h[i].nodes) \/ (h[i].nodes = nodes /\ None(i))
                      /\ ~h[i].ok => ~None(i)
           B == {i \in 0..n : Good(i)}
<1>5. 0 \in B
  <2>1. None(0) /\ 0 \in 0..n /\ Grows(nodes, nodes)
    BY <1>1 DEF Grows
  <2> QED
    BY <1>2, <1>4, <2>1
<1>6. ASSUME NEW i \in 1..n, i - 1 \in B PROVE i \in B
  <2>1. h[i - 1] \in Loads /\ files[i] \in Seq(ResourceGroups) /\ i - 1 \in 0..n /\ i \in 0..n
    BY <1>1
  <2>2. Good(i - 1) /\ h[i] = FileStep(h[i - 1], files[i])
    BY <1>4, <1>6
  <2>3. None(i) <=> None(i - 1) /\ files[i] = <<>>
    BY <1>1
  <2> HIDE DEF None
  <2>4. Grows(nodes, h[i].nodes)
    BY <2>1, <2>2, FileStepLoads, GrowsOn
  <2>5. CASE ~h[i - 1].ok
    <3>1. h[i] = h[i - 1]
      BY <2>2, <2>5 DEF FileStep
    <3> QED
      BY <2>1, <2>2, <2>3, <2>5, <3>1
  <2>6. CASE h[i - 1].ok /\ files[i] = <<>>
    <3>1. h[i] = h[i - 1]
      BY <2>1, <2>2, <2>6, FileLoads
    <3> QED
      BY <2>1, <2>2, <2>3, <2>6, <3>1
  <2>7. CASE h[i - 1].ok /\ files[i] # <<>>
    <3>1. h[i].ok => CheckDefValid(h[i].nodes)
      BY <2>1, <2>2, <2>7, FileLoads
    <3> QED
      BY <2>1, <2>3, <2>4, <2>7, <3>1
  <2> QED
    BY <2>5, <2>6, <2>7
<1>7. n \in B
  <2> HIDE DEF B
  <2>1. \A i \in 0..n : i \in B
    BY <1>1, <1>5, <1>6, Climbs
  <2> QED
    BY <1>1, <2>1
<1>8. None(n) <=> NoGroups(files)
  BY <1>1 DEF NoGroups
<1> HIDE DEF None
<1>9. h[n] \in Loads
  BY <1>1
<1> QED
  BY <1>3, <1>4, <1>7, <1>8, <1>9 DEF load
-----------------------------------------------------------------------------
(* What holds of the plugin beside the property: a load that succeeded has *)
(* been checked, a null node comes from an id without a node, and a file   *)
(* that was written belongs to a node.                                     *)
NodesLoaded ==
  /\ resourceNodeInfo \in SUBSET ResourceNodes
  /\ loadOk => CheckDefValid(resourceNodeInfo)
  /\ ~loadOk => ~NoGroups(socFiles)
NullsAsked == nullNodes # {} => strangeId
FilesOfNodes == \A i \in NodeIds : nodeFile[i] # Unwritten => KnownId(resourceNodeInfo, i)
GovernorLevels ==
  ~undefinedRead \/ loadOk => \A n \in resourceNodeInfo :
    n.gov /\ n.levels # {} => nodeFile[n.id] \in n.levels \cup {Unwritten}
ReadsDefined ==
  undefinedRead => \/ ~loadOk \/ strangeId
                   \/ \E n \in resourceNodeInfo : n.gov /\ n.levels = {}
SocExeInv == /\ SocExeTypeOK /\ NodesLoaded /\ NullsAsked /\ FilesOfNodes /\ GovernorLevels
             /\ ReadsDefined

LEMMA SocExeInvFirst ==
  ASSUME SocExeInit
  PROVE  SocExeInv
<1>1. SocExeTypeOK
  BY DEF SocExeInit, SocExeTypeOK
<1>2. NodesLoaded /\ NullsAsked /\ GovernorLevels /\ ReadsDefined
  BY DEF SocExeInit, NodesLoaded, NullsAsked, GovernorLevels, ReadsDefined, CheckDefValid
<1>3. FilesOfNodes
  BY DEF SocExeInit, FilesOfNodes
<1> QED
  BY <1>1, <1>2, <1>3 DEF SocExeInv

LEMMA NodeOfId ==
  ASSUME NEW nodes, NEW i, KnownId(nodes, i)
  PROVE  NodeOf(nodes, i) \in nodes /\ NodeOf(nodes, i).id = i
  BY Zenon DEF KnownId, NodeOf

LEMMA SocInitKeeps ==
  ASSUME SocExeInv, SocPerfPluginInit
  PROVE  SocExeInv'
<1> DEFINE load == LoadAllConfigXmlFile(resourceNodeInfo, socFiles)
<1>1. /\ resourceNodeInfo' = load.nodes /\ loadOk' = load.ok
      /\ UNCHANGED <<socFiles, nullNodes, strangeId>> /\ subscribedNode' = TRUE /\ ~undefinedRead
  BY DEF SocPerfPluginInit
<1>2. PICK opens \in SUBSET NodeIds : InitResourceNodeInfo(load.nodes, opens)
  BY DEF SocPerfPluginInit
<1>3. socFiles \in Seq(Seq(ResourceGroups)) /\ resourceNodeInfo \in SUBSET ResourceNodes
  BY SocExeAssumption DEF SocExeInv, SocExeTypeOK, NodesLoaded
<1>4. /\ load \in Loads /\ Grows(resourceNodeInfo, load.nodes)
      /\ load.ok => CheckDefValid(load.nodes) \/ (load.nodes = resourceNodeInfo /\ NoGroups(socFiles))
      /\ ~load.ok => ~NoGroups(socFiles)
  BY <1>3, FilesLoads
<1> HIDE DEF load
<1>5. /\ load.nodes \in SUBSET ResourceNodes /\ load.ok \in BOOLEAN
      /\ resourceNodeInfo \subseteq load.nodes /\ UniqueIds(load.nodes)
  BY <1>4 DEF Loads, Grows, SocExeInv, SocExeTypeOK, UniqueIds
<1>6. load.ok => CheckDefValid(load.nodes)
  BY <1>4 DEF SocExeInv, NodesLoaded
<1> DEFINE written == {n \in load.nodes : ~n.report /\ GetFdForFilePath(n.id, opens)}
<1>7. /\ nodeFile' = [i \in NodeIds |-> IF KnownId(written, i) THEN NodeOf(written, i).def
                                                              ELSE nodeFile[i]]
      /\ fdInfo' = fdInfo \cup {n.id : n \in written}
      /\ undefinedRead' = \/ \E n \in load.nodes : n.gov /\ ~n.report /\ n.def \notin n.levels
                          \/ nullNodes # {}
  BY <1>2 DEF InitResourceNodeInfo
<1>8. written \subseteq load.nodes /\ \A n \in written : n.id \in NodeIds /\ ~n.report
  BY <1>5 DEF ResourceNodes
<1> HIDE DEF written
<1>9. ASSUME NEW n \in written
      PROVE  nodeFile'[n.id] = n.def
  <2>1. KnownId(written, n.id) /\ n.id \in NodeIds
    BY <1>8 DEF KnownId
  <2>2. NodeOf(written, n.id) \in written /\ NodeOf(written, n.id).id = n.id
    BY <2>1, NodeOfId
  <2>3. NodeOf(written, n.id) = n
    BY <1>5, <1>8, <2>2 DEF UniqueIds
  <2> QED
    BY <1>7, <2>1, <2>3
<1>10. ASSUME NEW i \in NodeIds
       PROVE  \/ nodeFile'[i] = nodeFile[i] /\ ~KnownId(written, i)
              \/ \E n \in written : n.id = i /\ nodeFile'[i] = n.def
  <2>1. CASE KnownId(written, i)
    BY <1>9, <2>1 DEF KnownId
  <2>2. CASE ~KnownId(written, i)
    BY <1>7, <2>2
  <2> QED
    BY <2>1, <2>2
<1>11. SocExeTypeOK'
  <2>1. ASSUME NEW i \in NodeIds
        PROVE  nodeFile'[i] \in AskedValues \cup Defaults' \cup {Unwritten}
    <3>1. Defaults \subseteq Defaults' /\ \A n \in written : n.def \in Defaults'
      BY <1>1, <1>5, <1>8 DEF Defaults
    <3>2. nodeFile[i] \in AskedValues \cup Defaults \cup {Unwritten}
      BY DEF SocExeInv, SocExeTypeOK
    <3> QED
      BY <1>10, <3>1, <3>2
  <2>2. nodeFile' \in [NodeIds -> AskedValues \cup Defaults' \cup {Unwritten}]
    BY <1>7, <2>1
  <2>3. /\ \A n \in resourceNodeInfo' : n.id \in NodeIds
        /\ \A m, n \in resourceNodeInfo' : m.id = n.id => m = n
    BY <1>1, <1>5 DEF UniqueIds, ResourceNodes
  <2>4. fdInfo' \subseteq NodeIds
    BY <1>7, <1>8 DEF SocExeInv, SocExeTypeOK
  <2>5. undefinedRead' \in BOOLEAN /\ loadOk' \in BOOLEAN
    BY <1>1, <1>5, <1>7
  <2> QED
    BY <1>1, <2>2, <2>3, <2>4, <2>5 DEF SocExeInv, SocExeTypeOK
<1>12. NodesLoaded'
  BY <1>1, <1>4, <1>5, <1>6 DEF NodesLoaded
<1>13. NullsAsked'
  BY <1>1 DEF SocExeInv, NullsAsked
<1>14. FilesOfNodes'
  <2> SUFFICES ASSUME NEW i \in NodeIds, nodeFile'[i] # Unwritten PROVE KnownId(load.nodes, i)
    BY <1>1 DEF FilesOfNodes
  <2>1. CASE nodeFile'[i] = nodeFile[i]
    BY <1>5, <2>1 DEF SocExeInv, FilesOfNodes, KnownId
  <2> QED
    BY <1>8, <1>10, <2>1 DEF KnownId
<1>15. ASSUME undefinedRead', loadOk'
       PROVE  strangeId' \/ \E n \in load.nodes : n.gov /\ n.levels = {}
  BY <1>1, <1>6, <1>7, <1>15 DEF SocExeInv, NullsAsked, CheckDefValid
<1>16. GovernorLevels'
  <2> SUFFICES ASSUME ~undefinedRead' \/ loadOk', NEW n \in load.nodes, n.gov, n.levels # {}
               PROVE  nodeFile'[n.id] \in n.levels \cup {Unwritten}
    BY <1>1 DEF GovernorLevels
  <2>1. n.id \in NodeIds
    BY <1>5 DEF ResourceNodes
  <2>2. CASE \E m \in written : m.id = n.id /\ nodeFile'[n.id] = m.def
    <3>1. n \in written /\ nodeFile'[n.id] = n.def
      BY <1>5, <1>8, <2>2 DEF UniqueIds
    <3>2. n.def \in n.levels
      BY <1>1, <1>6, <1>7, <1>8, <3>1 DEF CheckDefValid
    <3> QED
      BY <3>1, <3>2
  <2>3. CASE nodeFile'[n.id] = nodeFile[n.id]
    <3>1. CASE nodeFile[n.id] # Unwritten
      <4>1. PICK m \in resourceNodeInfo : m.id = n.id
        BY <2>1, <3>1 DEF SocExeInv, FilesOfNodes, KnownId
      <4>2. m = n
        BY <1>5, <4>1 DEF UniqueIds
      <4> QED
        BY <1>1, <2>3, <4>1, <4>2 DEF SocExeInv, GovernorLevels
    <3> QED
      BY <2>3, <3>1
  <2> QED
    BY <1>10, <2>1, <2>2, <2>3
<1> QED
  BY <1>1, <1>11, <1>12, <1>13, <1>14, <1>15, <1>16 DEF SocExeInv, ReadsDefined

LEMMA SocWriteKeeps ==
  ASSUME SocExeInv, NEW i \in NodeIds, NEW v \in AskedValues \cup {NODE_DEFAULT_VALUE},
         NEW sameLength \in BOOLEAN, SocPerfWirteNode(i, v, sameLength)
  PROVE  SocExeInv'
<1> DEFINE isNode == KnownId(resourceNodeInfo, i)
           node == NodeOf(resourceNodeInfo, i)
<1>1. UNCHANGED <<socFiles, subscribedNode, resourceNodeInfo, loadOk>> /\ ~undefinedRead
  BY DEF SocPerfWirteNode
<1>2. isNode => node \in resourceNodeInfo /\ node.id = i
  BY NodeOfId
<1>3. CASE /\ UNCHANGED <<nodeFile, fdInfo, undefinedRead, nullNodes>>
           /\ (strangeId => strangeId') /\ strangeId' \in BOOLEAN
  <2>1. SocExeTypeOK' /\ NodesLoaded'
    BY <1>1, <1>3 DEF SocExeInv, SocExeTypeOK, NodesLoaded, Defaults
  <2>2. NullsAsked' /\ FilesOfNodes' /\ GovernorLevels' /\ ReadsDefined'
    BY <1>1, <1>3 DEF SocExeInv, NullsAsked, FilesOfNodes, GovernorLevels, ReadsDefined
  <2> QED
    BY <2>1, <2>2 DEF SocExeInv
<1>4. CASE sameLength
  <2>0. strangeId' = (strangeId \/ ~isNode) /\ UpdateResIdCurrentValue(i, v)
    BY <1>4 DEF SocPerfWirteNode
  <2>1. CASE v = NODE_DEFAULT_VALUE /\ ~isNode
    <3>1. nullNodes' = nullNodes \cup {i} /\ UNCHANGED <<nodeFile, fdInfo, undefinedRead>> /\ strangeId'
      BY <2>0, <2>1 DEF UpdateResIdCurrentValue
    <3>2. SocExeTypeOK' /\ NodesLoaded'
      BY <1>1, <3>1 DEF SocExeInv, SocExeTypeOK, NodesLoaded, Defaults
    <3>3. NullsAsked' /\ FilesOfNodes' /\ GovernorLevels' /\ ReadsDefined'
      BY <1>1, <3>1 DEF SocExeInv, NullsAsked, FilesOfNodes, GovernorLevels, ReadsDefined
    <3> QED
      BY <3>2, <3>3 DEF SocExeInv
  <2>2. CASE ~(v = NODE_DEFAULT_VALUE /\ ~isNode)
    <3>1. PICK w \in AskedValues \cup Defaults : UpdateCurrentValue(i, w) /\ UNCHANGED nullNodes
      <4>1. CASE v # NODE_DEFAULT_VALUE
        BY <2>0, <4>1 DEF UpdateResIdCurrentValue
      <4>2. CASE v = NODE_DEFAULT_VALUE
        <5>1. isNode /\ node.def \in Defaults
          BY <1>2, <2>2, <4>2 DEF Defaults
        <5> QED
          BY <2>0, <4>2, <5>1 DEF UpdateResIdCurrentValue
      <4> QED
        BY <4>1, <4>2
    <3>2. undefinedRead' = ~isNode
      BY <3>1 DEF UpdateCurrentValue
    <3>3. CASE UNCHANGED <<nodeFile, fdInfo>>
      <4>1. SocExeTypeOK' /\ NodesLoaded'
        BY <1>1, <2>0, <3>1, <3>2, <3>3 DEF SocExeInv, SocExeTypeOK, NodesLoaded, Defaults
      <4>2. NullsAsked' /\ FilesOfNodes' /\ GovernorLevels' /\ ReadsDefined'
        BY <1>1, <2>0, <3>1, <3>2, <3>3
           DEF SocExeInv, NullsAsked, FilesOfNodes, GovernorLevels, ReadsDefined
      <4> QED
        BY <4>1, <4>2 DEF SocExeInv
    <3>4. CASE ~UNCHANGED <<nodeFile, fdInfo>>
      <4>1. isNode /\ ~undefinedRead' /\ (node.gov => w \in node.levels)
            /\ nodeFile' = [nodeFile EXCEPT ![i] = w] /\ fdInfo' = fdInfo \cup {i}
        BY <3>1, <3>2, <3>4 DEF UpdateCurrentValue, WriteNode, IsGovResId
      <4>2. SocExeTypeOK' /\ NodesLoaded'
        <5>1. Defaults' = Defaults /\ NodesLoaded'
          BY <1>1 DEF SocExeInv, NodesLoaded, Defaults
        <5>2. nodeFile' \in [NodeIds -> AskedValues \cup Defaults \cup {Unwritten}]
          BY <3>1, <4>1 DEF SocExeInv, SocExeTypeOK
        <5>3. fdInfo' \subseteq NodeIds /\ undefinedRead' \in BOOLEAN /\ strangeId' \in BOOLEAN
          BY <2>0, <3>2, <4>1 DEF SocExeInv, SocExeTypeOK
        <5> QED
          BY <1>1, <3>1, <5>1, <5>2, <5>3 DEF SocExeInv, SocExeTypeOK
      <4>3. NullsAsked' /\ ReadsDefined'
        BY <1>1, <2>0, <3>1, <4>1 DEF SocExeInv, NullsAsked, ReadsDefined
      <4>4. \A k \in NodeIds : nodeFile'[k] = IF k = i THEN w ELSE nodeFile[k]
        BY <4>1 DEF SocExeInv, SocExeTypeOK
      <4>5. FilesOfNodes'
        BY <1>1, <4>1, <4>4 DEF SocExeInv, FilesOfNodes
      <4>6. GovernorLevels'
        <5> SUFFICES ASSUME NEW n \in resourceNodeInfo, n.gov, n.levels # {}
                     PROVE  nodeFile'[n.id] \in n.levels \cup {Unwritten}
          BY <1>1 DEF GovernorLevels
        <5>1. n.id \in NodeIds /\ (n.id = i => n = node)
          BY <1>2, <4>1 DEF SocExeInv, SocExeTypeOK
        <5>2. nodeFile[n.id] \in n.levels \cup {Unwritten}
          BY <1>1 DEF SocExeInv, GovernorLevels
        <5> QED
          BY <4>1, <4>4, <5>1, <5>2
      <4> QED
        BY <4>2, <4>3, <4>5, <4>6 DEF SocExeInv
    <3> QED
      BY <3>3, <3>4
  <2> QED
    BY <2>1, <2>2
<1>5. CASE ~sameLength
  BY <1>3, <1>5 DEF SocPerfWirteNode, SocExeInv, SocExeTypeOK
<1> QED
  BY <1>4, <1>5

LEMMA SocExeInvNext ==
  ASSUME SocExeInv, [SocExeNext]_socExeVars
  PROVE  SocExeInv'
<1>1. CASE SocPerfPluginInit
  BY <1>1, SocInitKeeps
<1>2. CASE SocPerfPluginDisable \/ UNCHANGED socExeVars
  <2>1. /\ UNCHANGED <<socFiles, resourceNodeInfo, loadOk, nullNodes, fdInfo, nodeFile,
                       undefinedRead, strangeId>>
        /\ subscribedNode' \in BOOLEAN
    BY <1>2 DEF SocPerfPluginDisable, socExeVars, SocExeInv, SocExeTypeOK
  <2>2. SocExeTypeOK' /\ NodesLoaded'
    BY <2>1 DEF SocExeInv, SocExeTypeOK, NodesLoaded, Defaults
  <2>3. NullsAsked' /\ FilesOfNodes' /\ GovernorLevels' /\ ReadsDefined'
    BY <2>1 DEF SocExeInv, NullsAsked, FilesOfNodes, GovernorLevels, ReadsDefined
  <2> QED
    BY <2>2, <2>3 DEF SocExeInv
<1>3. CASE \E i \in NodeIds, v \in AskedValues \cup {NODE_DEFAULT_VALUE}, sameLength \in BOOLEAN :
             SocPerfWirteNode(i, v, sameLength)
  BY <1>3, SocWriteKeeps
<1> QED
  BY <1>1, <1>2, <1>3 DEF SocExeNext

(* The executor's SocPerf plugin, for any configuration files, node ids    *)
(* and requests: the checks of the load are enough for the writes.  After  *)
(* a load that succeeded no write reads an undefined value, unless a       *)
(* governor has no levels or an id without a node is asked for, and a      *)
(* governor's file only ever holds one of its levels.                      *)
THEOREM NodeWritesAreDefined == SocExeSpec => []NodeWritesDefined
<1>1. SocExeInv => NodeWritesDefined
  BY DEF SocExeInv, GovernorLevels, ReadsDefined, NodeWritesDefined
<1> QED
  BY <1>1, SocExeInvFirst, SocExeInvNext, PTL DEF SocExeSpec

-----------------------------------------------------------------------------
(* ConfigLoad.  FlattenSeq along its sequence.                             *)
FlatRuns(h, q) ==
  h[0] = <<>> /\ h[Len(q)] = FlattenSeq(q) /\ \A i \in 1..Len(q) : h[i] = h[i - 1] \o q[i]

LEMMA FlattenRuns ==
  ASSUME NEW I, NEW q \in Seq(Seq(I))
  PROVE  \E h \in [0..Len(q) -> Seq(I)] : FlatRuns(h, q)
<1> DEFINE n == Len(q)
           V == Seq(I)
           comb == [p \in V \X V |-> p[1] \o p[2]]
           Flat(g) == g = [i \in 1..n |-> IF i = 1 THEN q[i] ELSE g[i - 1] \o q[i]]
           flat == CHOOSE g : Flat(g)
<1>1. n \in Nat /\ DOMAIN q = 1..n /\ q \in Seq(V) /\ <<>> \in V /\ \A i \in 1..n : q[i] \in V
  OBVIOUS
<1>2. FlattenSeq(q) = IF n = 0 THEN q ELSE flat[n]
  BY DEF FlattenSeq
<1>3. comb \in [V \X V -> V] /\ \A a, b \in V : comb[<<a, b>>] = a \o b
  <2>1. \A a, b \in V : a \o b \in V
    BY ConcatProperties
  <2> HIDE DEF V
  <2> QED
    BY <2>1
<1> HIDE DEF comb, V, flat
<1>4. PICK g \in [SUBSET DOMAIN q -> V] : LeftFolds(g, comb, <<>>, q, V)
  BY <1>1, <1>3, LeftFoldExists
<1>5. PICK h \in [0..n -> V] : RunsTo(h, comb, <<>>, q, g[DOMAIN q])
  BY <1>1, <1>3, <1>4, LeftAlong
<1> HIDE DEF n
<1>6. ASSUME NEW i \in 1..n PROVE /\ i \in 0..n /\ i - 1 \in 0..n /\ h[i] \in V /\ h[i - 1] \in V
                                  /\ q[i] \in V /\ h[i] = h[i - 1] \o q[i]
  <2>1. i \in 0..n /\ i - 1 \in 0..n /\ q[i] \in V
    BY <1>1
  <2>2. h[i] = comb[<<h[i - 1], q[i]>>]
    BY <1>5 DEF RunsTo, n
  <2> QED
    BY <1>3, <2>1, <2>2
<1>a. \A s \in V : <<>> \o s = s
  <2> TAKE s \in V
  <2>1. s \in Seq(I)
    BY DEF V
  <2> QED
    BY <2>1, ConcatEmptySeq
<1>7. h[0] = <<>>
  BY <1>5 DEF RunsTo
<1>b. ASSUME 1 \in 1..n PROVE h[1] = q[1]
  <2>1. h[1] = h[1 - 1] \o q[1] /\ q[1] \in V
    BY <1>6, <1>b
  <2>2. h[1 - 1] = <<>>
    BY <1>7
  <2> QED
    BY <1>a, <2>1, <2>2
<1> DEFINE f == [i \in 1..n |-> h[i]]
           Of(i) == IF i = 1 THEN q[i] ELSE f[i - 1] \o q[i]
<1>8. ASSUME NEW i \in 1..n PROVE f[i] = Of(i)
  <2>1. CASE i = 1
    BY <1>b, <2>1
  <2>2. CASE i # 1
    <3>1. i - 1 \in 1..n
      BY <1>1, <2>2
    <3> QED
      BY <1>6, <2>2, <3>1
  <2> QED
    BY <2>1, <2>2
<1>9. Flat(f)
  <2> HIDE DEF Of, f
  <2>1. f = [i \in 1..n |-> f[i]]
    BY DEF f
  <2>2. f = [i \in 1..n |-> Of(i)]
    BY <1>8, <2>1
  <2> QED
    BY <2>2 DEF Of
<1> HIDE DEF Flat
<1>10. Flat(flat)
  BY <1>9 DEF flat
<1> DEFINE B == {i \in 0..n : i # 0 => flat[i] = h[i]}
<1>11. ASSUME NEW i \in 1..n, i - 1 \in B PROVE i \in B
  <2>1. flat[i] = IF i = 1 THEN q[i] ELSE flat[i - 1] \o q[i]
    BY <1>10 DEF Flat
  <2>2. CASE i = 1
    BY <1>6, <1>b, <2>1, <2>2
  <2>3. CASE i # 1
    <3>1. i - 1 # 0
      BY <2>3
    <3> QED
      BY <1>6, <1>11, <2>1, <2>3, <3>1
  <2> QED
    BY <2>2, <2>3
<1>12. n \in B
  <2>1. 0 \in B
    BY <1>1
  <2> HIDE DEF B
  <2>2. \A i \in 0..n : i \in B
    BY <1>1, <1>11, <2>1, Climbs
  <2> QED
    BY <1>1, <2>2
<1>13. h[n] = FlattenSeq(q)
  <2>1. CASE n = 0
    <3>1. q = <<>>
      BY <2>1 DEF n
    <3> QED
      BY <1>2, <1>7, <2>1, <3>1
  <2>2. CASE n # 0
    BY <1>2, <1>12, <2>2
  <2> QED
    BY <2>1, <2>2
<1> QED
  BY <1>6, <1>7, <1>13 DEF FlatRuns, n, V

(* Maps of a configuration: config name -> items, plugin -> such a map.    *)
ItemMaps == UNION {[N -> Seq(ConfigItems)] : N \in SUBSET STRING}
PluginMaps == UNION {[P -> ItemMaps] : P \in SUBSET STRING}
ConfigStep(m, c) == IF c.tag # "config" \/ c.name = NoName THEN m
                    ELSE Put(m, c.name, ParseItem(c, Entry(m, c.name, <<>>)))
ConfigsParsed(m, q) == FoldLeft(ConfigStep, m, q)
ConfigOf(c, n) == c.tag = "config" /\ c.name = n
ItemsFor(c, n) == IF ConfigOf(c, n) THEN c.items ELSE <<>>
FlatFor(q, n) == FlattenSeq([j \in DOMAIN q |-> ItemsFor(q[j], n)])

LEMMA PutEntry ==
  ASSUME NEW f, NEW x, NEW v, NEW none, NEW y
  PROVE  /\ DOMAIN Put(f, x, v) = DOMAIN f \cup {x}
         /\ Entry(Put(f, x, v), y, none) = IF y = x THEN v ELSE Entry(f, y, none)
  BY DEF Put, Entry

LEMMA MapTypes ==
  /\ \A m \in ItemMaps : /\ DOMAIN m \in SUBSET STRING
                         /\ \A n \in DOMAIN m : m[n] \in Seq(ConfigItems)
  /\ \A m \in PluginMaps : /\ DOMAIN m \in SUBSET STRING
                           /\ \A p \in DOMAIN m : m[p] \in ItemMaps
<1>1. ASSUME NEW m \in ItemMaps
      PROVE  DOMAIN m \in SUBSET STRING /\ \A n \in DOMAIN m : m[n] \in Seq(ConfigItems)
  <2>1. PICK N \in SUBSET STRING : m \in [N -> Seq(ConfigItems)]
    BY DEF ItemMaps
  <2> QED
    BY <2>1
<1>2. ASSUME NEW m \in PluginMaps
      PROVE  DOMAIN m \in SUBSET STRING /\ \A p \in DOMAIN m : m[p] \in ItemMaps
  <2>1. PICK P \in SUBSET STRING : m \in [P -> ItemMaps]
    BY DEF PluginMaps
  <2> QED
    BY <2>1
<1> QED
  BY <1>1, <1>2

EmptyMap == [n \in {} |-> <<>>]
LEMMA EntryTypes ==
  ASSUME NEW x
  PROVE  /\ \A m \in ItemMaps : Entry(m, x, <<>>) \in Seq(ConfigItems)
         /\ EmptyMap \in ItemMaps
         /\ \A m \in PluginMaps : Entry(m, x, EmptyMap) \in ItemMaps
<1>1. ASSUME NEW m \in ItemMaps PROVE Entry(m, x, <<>>) \in Seq(ConfigItems)
  <2>1. <<>> \in Seq(ConfigItems)
    OBVIOUS
  <2> QED
    BY <2>1, MapTypes DEF Entry
<1>2. EmptyMap \in ItemMaps
  <2>1. EmptyMap \in [{} -> Seq(ConfigItems)] /\ {} \in SUBSET STRING
    BY DEF EmptyMap
  <2> QED
    BY <2>1 DEF ItemMaps
<1>3. \A m \in PluginMaps : Entry(m, x, EmptyMap) \in ItemMaps
  BY <1>2, MapTypes DEF Entry
<1> QED
  BY <1>1, <1>2, <1>3

LEMMA PutTypes ==
  ASSUME NEW x \in STRING
  PROVE  /\ \A m \in ItemMaps, v \in Seq(ConfigItems) : Put(m, x, v) \in ItemMaps
         /\ \A m \in PluginMaps, v \in ItemMaps : Put(m, x, v) \in PluginMaps
<1>1. ASSUME NEW m \in ItemMaps, NEW v \in Seq(ConfigItems) PROVE Put(m, x, v) \in ItemMaps
  <2> DEFINE N == DOMAIN m \cup {x}
  <2>2. N \in SUBSET STRING /\ \A n \in DOMAIN m : m[n] \in Seq(ConfigItems)
    BY MapTypes
  <2>3. Put(m, x, v) \in [N -> Seq(ConfigItems)]
    BY <2>2 DEF Put
  <2> HIDE DEF N
  <2> QED
    BY <2>2, <2>3 DEF ItemMaps
<1>2. ASSUME NEW m \in PluginMaps, NEW v \in ItemMaps PROVE Put(m, x, v) \in PluginMaps
  <2> DEFINE N == DOMAIN m \cup {x}
  <2>2. N \in SUBSET STRING /\ \A n \in DOMAIN m : m[n] \in ItemMaps
    BY MapTypes
  <2>3. Put(m, x, v) \in [N -> ItemMaps]
    BY <2>2 DEF Put
  <2> HIDE DEF N
  <2> QED
    BY <2>2, <2>3 DEF PluginMaps
<1> QED
  BY <1>1, <1>2

LEMMA SeqOfLength ==
  ASSUME NEW S, NEW l \in Nat, NEW f \in [1..l -> S]
  PROVE  f \in Seq(S) /\ Len(f) = l
<1>1. f = [i \in 1..l |-> f[i]] /\ \A i \in 1..l : f[i] \in S
  OBVIOUS
<1>2. [i \in 1..l |-> f[i]] \in Seq(S)
  BY <1>1
<1>3. f \in Seq(S)
  BY <1>1, <1>2
<1>4. Len(f) \in Nat /\ DOMAIN f = 1..Len(f) /\ DOMAIN f = 1..l
  BY <1>3
<1>5. \A a, b \in Nat : 1..a = 1..b => a = b
  <2> TAKE a, b \in Nat
  <2> HAVE 1..a = 1..b
  <2>1. \A i \in Int : (1 <= i /\ i <= a) <=> (1 <= i /\ i <= b)
    OBVIOUS
  <2>2. (1 <= a /\ a <= a) <=> (1 <= a /\ a <= b)
    BY <2>1
  <2>3. (1 <= b /\ b <= a) <=> (1 <= b /\ b <= b)
    BY <2>1
  <2> QED
    BY <2>2, <2>3
<1>6. Len(f) = l
  BY <1>4, <1>5
<1> QED
  BY <1>3, <1>6

LEMMA ConcatNone ==
  ASSUME NEW I
  PROVE  /\ \A s \in Seq(I) : s \o <<>> = s /\ <<>> \o s = s
         /\ \A s, t \in Seq(I) : s \o t \in Seq(I)
         /\ \A s, t, u \in Seq(I) : (s \o t) \o u = s \o (t \o u)
         /\ <<>> \in Seq(I)
<1>1. \A s \in Seq(I) : s \o <<>> = s /\ <<>> \o s = s
  BY ConcatEmptySeq
<1>2. \A s, t \in Seq(I) : s \o t \in Seq(I)
  BY ConcatProperties
<1>3. \A s, t, u \in Seq(I) : (s \o t) \o u = s \o (t \o u)
  BY ConcatAssociative
<1> QED
  BY <1>1, <1>2, <1>3

LEMMA ConfigStepType ==
  ASSUME NEW m \in ItemMaps, NEW c \in PluginConfigs
  PROVE  ConfigStep(m, c) \in ItemMaps
<1>1. c.name \in STRING /\ c.items \in Seq(ConfigItems)
  BY DEF PluginConfigs
<1>2. ParseItem(c, Entry(m, c.name, <<>>)) \in Seq(ConfigItems)
  BY <1>1, EntryTypes, ConcatNone DEF ParseItem
<1> QED
  BY <1>1, <1>2, PutTypes DEF ConfigStep

LEMMA ConfigStepGives ==
  ASSUME NEW m \in ItemMaps, NEW c \in PluginConfigs, NEW n, n # NoName
  PROVE  /\ Entry(ConfigStep(m, c), n, <<>>) = Entry(m, n, <<>>) \o ItemsFor(c, n)
         /\ n \in DOMAIN ConfigStep(m, c) <=> n \in DOMAIN m \/ ConfigOf(c, n)
<1>1. Entry(m, n, <<>>) \in Seq(ConfigItems)
  BY EntryTypes
<1>2. Entry(m, n, <<>>) \o <<>> = Entry(m, n, <<>>)
  BY <1>1, ConcatNone
<1>3. CASE ConfigOf(c, n)
  <2> DEFINE w == Entry(m, n, <<>>) \o c.items
  <2>1. ConfigStep(m, c) = Put(m, n, w) /\ ItemsFor(c, n) = c.items
    BY <1>3 DEF ConfigOf, ConfigStep, ParseItem, ItemsFor
  <2>2. ASSUME NEW u PROVE Entry(Put(m, n, u), n, <<>>) = u /\ n \in DOMAIN Put(m, n, u)
    BY DEF Put, Entry
  <2> QED
    BY <1>3, <2>1, <2>2
<1>4. CASE ~ConfigOf(c, n)
  <2>1. CASE c.tag # "config" \/ c.name = NoName
    BY <1>2, <1>4, <2>1 DEF ItemsFor, ConfigStep
  <2>2. CASE c.tag = "config" /\ c.name # NoName
    <3>1. c.name # n
      BY <1>4, <2>2 DEF ConfigOf
    <3>2. ConfigStep(m, c) = Put(m, c.name, ParseItem(c, Entry(m, c.name, <<>>)))
      BY <2>2 DEF ConfigStep
    <3>3. ASSUME NEW u
          PROVE  /\ Entry(Put(m, c.name, u), n, <<>>) = Entry(m, n, <<>>)
                 /\ n \in DOMAIN Put(m, c.name, u) <=> n \in DOMAIN m
      BY <3>1 DEF Put, Entry
    <3>4. ItemsFor(c, n) = <<>>
      BY <1>4 DEF ItemsFor
    <3> QED
      BY <1>2, <1>4, <3>2, <3>3, <3>4
  <2> QED
    BY <2>1, <2>2
<1> QED
  BY <1>3, <1>4

LEMMA ConfigFold ==
  ASSUME NEW r \in ItemMaps, NEW q \in Seq(PluginConfigs)
  PROVE  \E h \in [0..Len(q) -> ItemMaps] :
           /\ h[0] = r /\ h[Len(q)] = ConfigsParsed(r, q)
           /\ \A i \in 1..Len(q) : h[i] = ConfigStep(h[i - 1], q[i])
<1> DEFINE Adds(g) == g = [s \in SUBSET DOMAIN q |-> IF s = {} THEN r
                             ELSE ConfigStep(g[s \ {Max(s)}], q[Max(s)])]
           it == CHOOSE g : Adds(g)
           comb == [p \in ItemMaps \X PluginConfigs |-> ConfigStep(p[1], p[2])]
<1>1. ConfigsParsed(r, q) = it[DOMAIN q]
  BY DEF ConfigsParsed, FoldLeft, MapThenFoldSet
<1>2. /\ comb \in [ItemMaps \X PluginConfigs -> ItemMaps]
      /\ \A v \in ItemMaps, d \in PluginConfigs : comb[<<v, d>>] = ConfigStep(v, d)
  BY ConfigStepType
<1> HIDE DEF comb
<1>3. PICK g \in [SUBSET DOMAIN q -> ItemMaps] : LeftFolds(g, comb, r, q, ItemMaps)
  BY <1>2, LeftFoldExists
<1>4. Adds(g)
  <2>1. ASSUME NEW s \in SUBSET DOMAIN q, s # {}
        PROVE  g[s] = ConfigStep(g[s \ {Max(s)}], q[Max(s)])
    <3>1. s \ {Max(s)} \in SUBSET DOMAIN q /\ q[Max(s)] \in PluginConfigs
      BY <2>1, LeftMax
    <3>2. g[s \ {Max(s)}] \in ItemMaps
      BY <3>1
    <3>3. g[s] = comb[<<g[s \ {Max(s)}], q[Max(s)]>>]
      BY <2>1, <1>3, <3>2 DEF LeftFolds
    <3> QED
      BY <1>2, <3>1, <3>2, <3>3
  <2>2. g[{}] = r
    BY <1>3 DEF LeftFolds
  <2> QED
    BY <2>1, <2>2
<1> HIDE DEF Adds
<1>5. Adds(it)
  BY <1>4
<1>6. LeftFolds(it, comb, r, q, ItemMaps)
  <2> HIDE DEF it
  <2>1. ASSUME NEW s \in SUBSET DOMAIN q, s # {}, it[s \ {Max(s)}] \in ItemMaps
        PROVE  it[s] = comb[<<it[s \ {Max(s)}], q[Max(s)]>>]
    <3>1. q[Max(s)] \in PluginConfigs
      BY <2>1, LeftMax
    <3>2. it[s] = ConfigStep(it[s \ {Max(s)}], q[Max(s)])
      BY <1>5, <2>1 DEF Adds
    <3> QED
      BY <1>2, <2>1, <3>1, <3>2
  <2>2. it[{}] = r
    BY <1>5 DEF Adds
  <2> QED
    BY <2>1, <2>2 DEF LeftFolds
<1> HIDE DEF it
<1>7. PICK h \in [0..Len(q) -> ItemMaps] : RunsTo(h, comb, r, q, it[DOMAIN q])
  BY <1>2, <1>6, LeftAlong
<1>8. ASSUME NEW i \in 1..Len(q) PROVE h[i] = ConfigStep(h[i - 1], q[i])
  <2>1. i - 1 \in 0..Len(q) /\ q[i] \in PluginConfigs
    BY LeftPlaces
  <2>2. h[i - 1] \in ItemMaps /\ h[i] = comb[<<h[i - 1], q[i]>>]
    BY <1>7, <2>1 DEF RunsTo
  <2> QED
    BY <1>2, <2>1, <2>2
<1> QED
  BY <1>1, <1>7, <1>8 DEF RunsTo

(* What the configs of a node add to a map.                                *)
LEMMA NodeGives ==
  ASSUME NEW m \in ItemMaps, NEW q \in Seq(PluginConfigs), NEW n, n # NoName
  PROVE  /\ ConfigsParsed(m, q) \in ItemMaps
         /\ FlatFor(q, n) \in Seq(ConfigItems)
         /\ Entry(ConfigsParsed(m, q), n, <<>>) = Entry(m, n, <<>>) \o FlatFor(q, n)
         /\ n \in DOMAIN ConfigsParsed(m, q) <=> n \in DOMAIN m \/ \E j \in DOMAIN q : ConfigOf(q[j], n)
<1> DEFINE l == Len(q)
           flat == [j \in DOMAIN q |-> ItemsFor(q[j], n)]
           start == Entry(m, n, <<>>)
<1>1. l \in Nat /\ DOMAIN q = 1..l /\ \A j \in 1..l : q[j] \in PluginConfigs /\ j \in 0..l /\ j - 1 \in 0..l
  OBVIOUS
<1>2. \A j \in 1..l : ItemsFor(q[j], n) \in Seq(ConfigItems)
  BY <1>1, ConcatNone DEF ItemsFor, PluginConfigs
<1>3. flat \in Seq(Seq(ConfigItems)) /\ Len(flat) = l /\ \A j \in 1..l : flat[j] = ItemsFor(q[j], n)
  <2>1. flat \in [1..l -> Seq(ConfigItems)] /\ \A j \in 1..l : flat[j] = ItemsFor(q[j], n)
    BY <1>1, <1>2
  <2> HIDE DEF flat
  <2>2. flat \in Seq(Seq(ConfigItems)) /\ Len(flat) = l
    BY <1>1, <2>1, SeqOfLength
  <2> QED
    BY <2>1, <2>2
<1>4. start \in Seq(ConfigItems)
  BY EntryTypes
<1> HIDE DEF flat, start
<1>5. PICK k \in [0..l -> Seq(ConfigItems)] : FlatRuns(k, flat)
  BY <1>3, FlattenRuns
<1>6. PICK h \in [0..l -> ItemMaps] : /\ h[0] = m /\ h[l] = ConfigsParsed(m, q)
                                      /\ \A j \in 1..l : h[j] = ConfigStep(h[j - 1], q[j])
  BY ConfigFold
<1> HIDE DEF l
<1> DEFINE Good(j) == /\ Entry(h[j], n, <<>>) = start \o k[j]
                      /\ n \in DOMAIN h[j] <=> n \in DOMAIN m \/ \E x \in 1..j : ConfigOf(q[x], n)
           B == {j \in 0..l : Good(j)}
<1>7. k[0] = <<>> /\ k[l] = FlattenSeq(flat) /\ \A j \in 1..l : k[j] = k[j - 1] \o ItemsFor(q[j], n)
  BY <1>3, <1>5 DEF FlatRuns
<1>8. 0 \in B
  <2>1. 0 \in 0..l /\ start \o k[0] = start /\ 1..0 = {}
    BY <1>1, <1>4, <1>7, ConcatNone
  <2> QED
    BY <1>6, <2>1 DEF start
<1>9. ASSUME NEW j \in 1..l, j - 1 \in B PROVE j \in B
  <2>1. Good(j - 1) /\ h[j - 1] \in ItemMaps /\ q[j] \in PluginConfigs /\ k[j - 1] \in Seq(ConfigItems)
        /\ j \in 0..l /\ h[j] = ConfigStep(h[j - 1], q[j])
    BY <1>1, <1>6, <1>9
  <2>2. /\ Entry(h[j], n, <<>>) = Entry(h[j - 1], n, <<>>) \o ItemsFor(q[j], n)
        /\ n \in DOMAIN h[j] <=> n \in DOMAIN h[j - 1] \/ ConfigOf(q[j], n)
    BY <2>1, ConfigStepGives
  <2>3. (start \o k[j - 1]) \o ItemsFor(q[j], n) = start \o (k[j - 1] \o ItemsFor(q[j], n))
    <3>1. ItemsFor(q[j], n) \in Seq(ConfigItems) /\ k[j - 1] \in Seq(ConfigItems)
      BY <1>2, <2>1
    <3>2. \A s, t, u \in Seq(ConfigItems) : (s \o t) \o u = s \o (t \o u)
      BY ConcatNone
    <3> QED
      BY <1>4, <3>1, <3>2, Zenon
  <2>4. Entry(h[j], n, <<>>) = start \o k[j]
    BY <1>7, <2>1, <2>2, <2>3
  <2>5. (\E x \in 1..j : ConfigOf(q[x], n)) <=> (\E x \in 1..(j - 1) : ConfigOf(q[x], n)) \/ ConfigOf(q[j], n)
    <3>1. 1..j = 1..(j - 1) \cup {j}
      BY <1>1
    <3> QED
      BY <3>1
  <2>6. n \in DOMAIN h[j] <=> n \in DOMAIN m \/ \E x \in 1..j : ConfigOf(q[x], n)
    BY <2>1, <2>2, <2>5
  <2> QED
    BY <2>1, <2>4, <2>6
<1>10. l \in B
  <2> HIDE DEF B
  <2>1. \A j \in 0..l : j \in B
    BY <1>1, <1>8, <1>9, Climbs
  <2> QED
    BY <1>1, <2>1
<1>11. h[l] \in ItemMaps /\ k[l] \in Seq(ConfigItems)
  BY <1>1
<1> QED
  BY <1>1, <1>6, <1>7, <1>10, <1>11 DEF flat, start, FlatFor

LEMMA FlattenNothing ==
  ASSUME NEW I, NEW q \in Seq(Seq(I)), \A i \in 1..Len(q) : q[i] = <<>>
  PROVE  FlattenSeq(q) = <<>>
<1> DEFINE l == Len(q)
<1>1. PICK h \in [0..l -> Seq(I)] : FlatRuns(h, q)
  BY FlattenRuns
<1>2. h[0] = <<>> /\ h[l] = FlattenSeq(q) /\ \A i \in 1..l : h[i] = h[i - 1] \o q[i]
  BY <1>1 DEF FlatRuns
<1> DEFINE B == {i \in 0..l : h[i] = <<>>}
<1>3. l \in Nat /\ 0 \in B
  BY <1>2
<1>a. \A i \in 1..l : q[i] = <<>>
  OBVIOUS
<1> HIDE DEF l
<1>4. ASSUME NEW i \in 1..l, i - 1 \in B PROVE i \in B
  <2>0. i \in 0..l
    BY <1>3
  <2>1. h[i] = h[i - 1] \o q[i]
    BY <1>2, Zenon
  <2>2. h[i - 1] = <<>> /\ q[i] = <<>>
    BY <1>4, <1>a
  <2>3. <<>> \o <<>> = <<>>
    BY ConcatNone
  <2> QED
    BY <2>0, <2>1, <2>2, <2>3
<1> HIDE DEF B
<1>5. \A i \in 0..l : i \in B
  BY <1>3, <1>4, Climbs
<1>6. l \in B
  BY <1>3, <1>5
<1> QED
  BY <1>2, <1>6 DEF B

HasConfig(m, p, n) == p \in DOMAIN m /\ n \in DOMAIN m[p]
NodeStep(m, node) == IF node.tag = "comment" THEN m ELSE ParsePluginConfig(node, m)
NodesParsed(m, q) == FoldLeft(NodeStep, m, q)
NamedIn(node, p, n) == \E j \in DOMAIN node.configs : Gives(node, j, p, n)

LEMMA ParseConfigIs ==
  ASSUME NEW node, NEW m
  PROVE  ParseConfig(node, m) = ConfigsParsed(m, node.configs)
  BY DEF ParseConfig, ConfigsParsed, ConfigStep, FoldLeft, MapThenFoldSet

LEMMA NodeStepType ==
  ASSUME NEW m \in PluginMaps, NEW node \in PluginNodes
  PROVE  NodeStep(m, node) \in PluginMaps
<1>1. node.plugin \in STRING /\ node.configs \in Seq(PluginConfigs)
  BY DEF PluginNodes
<1>2. Entry(m, node.plugin, EmptyMap) \in ItemMaps
  BY EntryTypes
<1>3. "weak" # NoName
  BY DEF NoName
<1>4. ConfigsParsed(Entry(m, node.plugin, EmptyMap), node.configs) \in ItemMaps
  BY <1>1, <1>2, <1>3, NodeGives
<1>5. ParsePluginConfig(node, m) \in PluginMaps
  BY <1>1, <1>4, PutTypes, ParseConfigIs DEF ParsePluginConfig, EmptyMap
<1> QED
  BY <1>5 DEF NodeStep

LEMMA GetConfigType ==
  ASSUME NEW m \in PluginMaps, NEW p, NEW n
  PROVE  GetConfig(m, p, n) \in Seq(ConfigItems)
<1>1. <<>> \in Seq(ConfigItems)
  OBVIOUS
<1>2. CASE p \in DOMAIN m
  <2>1. m[p] \in ItemMaps
    BY <1>2, MapTypes
  <2>2. n \in DOMAIN m[p] => m[p][n] \in Seq(ConfigItems)
    BY <2>1, MapTypes
  <2> QED
    BY <1>1, <1>2, <2>2 DEF GetConfig, Entry
<1> QED
  BY <1>1, <1>2 DEF GetConfig

(* A node that does not name the config has no items for it.               *)
LEMMA ItemsOfOther ==
  ASSUME NEW node \in PluginNodes, NEW p, NEW n, ~NamedIn(node, p, n)
  PROVE  ItemsOf(node, p, n) = <<>>
<1> DEFINE l == Len(node.configs)
           q == [j \in DOMAIN node.configs |->
                   IF Gives(node, j, p, n) THEN node.configs[j].items ELSE <<>>]
<1>1. node.configs \in Seq(PluginConfigs)
  BY DEF PluginNodes
<1>2. l \in Nat /\ DOMAIN node.configs = 1..l
  BY <1>1
<1>3. \A j \in 1..l : ~Gives(node, j, p, n)
  BY <1>2 DEF NamedIn
<1>4. q \in [1..l -> Seq(ConfigItems)] /\ \A j \in 1..l : q[j] = <<>>
  BY <1>2, <1>3
<1>5. ItemsOf(node, p, n) = FlattenSeq(q)
  BY DEF ItemsOf
<1> HIDE DEF q
<1>6. q \in Seq(Seq(ConfigItems)) /\ Len(q) = l
  BY <1>2, <1>4, SeqOfLength
<1>7. \A j \in 1..Len(q) : q[j] = <<>>
  BY <1>4, <1>6
<1> QED
  BY <1>5, <1>6, <1>7, FlattenNothing

LEMMA NodeStepGives ==
  ASSUME NEW m \in PluginMaps, NEW node \in PluginNodes, ~ConfigNodeWrong(node),
         NEW p, NEW n, n # NoName
  PROVE  /\ ItemsOf(node, p, n) \in Seq(ConfigItems)
         /\ GetConfig(NodeStep(m, node), p, n) = GetConfig(m, p, n) \o ItemsOf(node, p, n)
         /\ HasConfig(NodeStep(m, node), p, n) <=> HasConfig(m, p, n) \/ NamedIn(node, p, n)
<1>1. /\ node.plugin \in STRING /\ node.configs \in Seq(PluginConfigs)
      /\ GetConfig(m, p, n) \in Seq(ConfigItems)
  BY GetConfigType DEF PluginNodes
<1>2. GetConfig(m, p, n) \o <<>> = GetConfig(m, p, n) /\ <<>> \in Seq(ConfigItems)
  BY <1>1, ConcatNone
<1>3. CASE node.tag = "plugin" /\ node.plugin = p
  <2> DEFINE old == Entry(m, p, EmptyMap)
             new == ConfigsParsed(old, node.configs)
             q == node.configs
             flat == FlatFor(q, n)
  <2>1. old \in ItemMaps
    BY EntryTypes
  <2>2. NodeStep(m, node) = Put(m, p, new)
    BY <1>3, ParseConfigIs DEF NodeStep, ParsePluginConfig, EmptyMap
  <2>3. ItemsOf(node, p, n) = flat
    BY <1>3 DEF ItemsOf, Gives, ItemsFor, ConfigOf, FlatFor
  <2>4. NamedIn(node, p, n) <=> \E j \in DOMAIN q : ConfigOf(q[j], n)
    BY <1>3 DEF NamedIn, Gives, ConfigOf
  <2>5. /\ flat \in Seq(ConfigItems) /\ Entry(new, n, <<>>) = Entry(old, n, <<>>) \o flat
        /\ n \in DOMAIN new <=> n \in DOMAIN old \/ \E j \in DOMAIN q : ConfigOf(q[j], n)
    BY <1>1, <2>1, NodeGives
  <2>6. Entry(old, n, <<>>) = GetConfig(m, p, n) /\ (n \in DOMAIN old <=> HasConfig(m, p, n))
    BY DEF Entry, GetConfig, HasConfig, EmptyMap
  <2> HIDE DEF old, new, flat
  <2>7. /\ GetConfig(NodeStep(m, node), p, n) = Entry(new, n, <<>>)
        /\ HasConfig(NodeStep(m, node), p, n) <=> n \in DOMAIN new
    <3>1. p \in DOMAIN Put(m, p, new) /\ Put(m, p, new)[p] = new
      BY DEF Put
    <3> QED
      BY <2>2, <3>1 DEF GetConfig, HasConfig
  <2> QED
    BY <2>3, <2>4, <2>5, <2>6, <2>7
<1>4. CASE ~(node.tag = "plugin" /\ node.plugin = p)
  <2>1. ~NamedIn(node, p, n)
    BY <1>4 DEF NamedIn, Gives
  <2>2. ItemsOf(node, p, n) = <<>>
    BY <2>1, ItemsOfOther
  <2>3. CASE node.tag = "comment"
    BY <1>2, <2>1, <2>2, <2>3 DEF NodeStep
  <2>4. CASE node.tag # "comment"
    <3>1. node.plugin # p
      BY <1>4, <2>4 DEF ConfigNodeWrong
    <3> DEFINE new == ParseConfig(node, Entry(m, node.plugin, EmptyMap))
    <3>2. NodeStep(m, node) = Put(m, node.plugin, new)
      BY <2>4 DEF NodeStep, ParsePluginConfig, EmptyMap
    <3> HIDE DEF new
    <3>3. /\ p \in DOMAIN Put(m, node.plugin, new) <=> p \in DOMAIN m
          /\ p \in DOMAIN m => Put(m, node.plugin, new)[p] = m[p]
      BY <3>1 DEF Put
    <3>4. /\ GetConfig(NodeStep(m, node), p, n) = GetConfig(m, p, n)
          /\ HasConfig(NodeStep(m, node), p, n) <=> HasConfig(m, p, n)
      BY <3>2, <3>3 DEF GetConfig, HasConfig
    <3> QED
      BY <1>2, <2>1, <2>2, <3>4
  <2> QED
    BY <2>3, <2>4
<1> QED
  BY <1>3, <1>4

LEMMA NodeFold ==
  ASSUME NEW r \in PluginMaps, NEW q \in Seq(PluginNodes)
  PROVE  \E h \in [0..Len(q) -> PluginMaps] :
           /\ h[0] = r /\ h[Len(q)] = NodesParsed(r, q)
           /\ \A i \in 1..Len(q) : h[i] = NodeStep(h[i - 1], q[i])
<1> DEFINE Adds(g) == g = [s \in SUBSET DOMAIN q |-> IF s = {} THEN r
                             ELSE NodeStep(g[s \ {Max(s)}], q[Max(s)])]
           it == CHOOSE g : Adds(g)
           comb == [p \in PluginMaps \X PluginNodes |-> NodeStep(p[1], p[2])]
<1>1. NodesParsed(r, q) = it[DOMAIN q]
  BY DEF NodesParsed, FoldLeft, MapThenFoldSet
<1>2. /\ comb \in [PluginMaps \X PluginNodes -> PluginMaps]
      /\ \A v \in PluginMaps, d \in PluginNodes : comb[<<v, d>>] = NodeStep(v, d)
  BY NodeStepType
<1> HIDE DEF comb
<1>3. PICK g \in [SUBSET DOMAIN q -> PluginMaps] : LeftFolds(g, comb, r, q, PluginMaps)
  BY <1>2, LeftFoldExists
<1>4. Adds(g)
  <2>1. ASSUME NEW s \in SUBSET DOMAIN q, s # {} PROVE g[s] = NodeStep(g[s \ {Max(s)}], q[Max(s)])
    <3>1. s \ {Max(s)} \in SUBSET DOMAIN q /\ q[Max(s)] \in PluginNodes
      BY <2>1, LeftMax
    <3>2. g[s \ {Max(s)}] \in PluginMaps
      BY <3>1
    <3>3. g[s] = comb[<<g[s \ {Max(s)}], q[Max(s)]>>]
      BY <2>1, <1>3, <3>2 DEF LeftFolds
    <3> QED
      BY <1>2, <3>1, <3>2, <3>3
  <2>2. g[{}] = r
    BY <1>3 DEF LeftFolds
  <2> QED
    BY <2>1, <2>2
<1> HIDE DEF Adds
<1>5. Adds(it)
  BY <1>4
<1>6. LeftFolds(it, comb, r, q, PluginMaps)
  <2> HIDE DEF it
  <2>1. ASSUME NEW s \in SUBSET DOMAIN q, s # {}, it[s \ {Max(s)}] \in PluginMaps
        PROVE  it[s] = comb[<<it[s \ {Max(s)}], q[Max(s)]>>]
    <3>1. q[Max(s)] \in PluginNodes
      BY <2>1, LeftMax
    <3>2. it[s] = NodeStep(it[s \ {Max(s)}], q[Max(s)])
      BY <1>5, <2>1 DEF Adds
    <3> QED
      BY <1>2, <2>1, <3>1, <3>2
  <2>2. it[{}] = r
    BY <1>5 DEF Adds
  <2> QED
    BY <2>1, <2>2 DEF LeftFolds
<1> HIDE DEF it
<1>7. PICK h \in [0..Len(q) -> PluginMaps] : RunsTo(h, comb, r, q, it[DOMAIN q])
  BY <1>2, <1>6, LeftAlong
<1>8. ASSUME NEW i \in 1..Len(q) PROVE h[i] = NodeStep(h[i - 1], q[i])
  <2>1. i - 1 \in 0..Len(q) /\ q[i] \in PluginNodes
    BY LeftPlaces
  <2>2. h[i - 1] \in PluginMaps /\ h[i] = comb[<<h[i - 1], q[i]>>]
    BY <1>7, <2>1 DEF RunsTo
  <2> QED
    BY <1>2, <2>1, <2>2
<1> QED
  BY <1>1, <1>7, <1>8 DEF RunsTo

(* What a good file says.                                                  *)
LEMMA NoConfigsMap ==
  NoConfigs \in PluginMaps /\ \A p, n : GetConfig(NoConfigs, p, n) = <<>> /\ ~HasConfig(NoConfigs, p, n)
<1>1. NoConfigs \in [{} -> ItemMaps] /\ {} \in SUBSET STRING
  BY DEF NoConfigs
<1>2. NoConfigs \in PluginMaps
  BY <1>1 DEF PluginMaps
<1> QED
  BY <1>2 DEF NoConfigs, GetConfig, HasConfig

LEMMA NodesGive ==
  ASSUME NEW q \in Seq(PluginNodes), \A i \in DOMAIN q : ~ConfigNodeWrong(q[i]),
         NEW p, NEW n, n # NoName
  PROVE  /\ NodesParsed(NoConfigs, q) \in PluginMaps
         /\ GetConfig(NodesParsed(NoConfigs, q), p, n) =
              FlattenSeq([i \in DOMAIN q |-> ItemsOf(q[i], p, n)])
         /\ HasConfig(NodesParsed(NoConfigs, q), p, n) <=> \E i \in DOMAIN q : NamedIn(q[i], p, n)
<1> DEFINE l == Len(q)
           flat == [i \in DOMAIN q |-> ItemsOf(q[i], p, n)]
<1>1. l \in Nat /\ DOMAIN q = 1..l /\ \A j \in 1..l : q[j] \in PluginNodes /\ j \in 0..l /\ j - 1 \in 0..l
  OBVIOUS
<1>2. \A j \in 1..l : ItemsOf(q[j], p, n) \in Seq(ConfigItems)
  BY <1>1, NoConfigsMap, NodeStepGives
<1>3. flat \in Seq(Seq(ConfigItems)) /\ Len(flat) = l /\ \A j \in 1..l : flat[j] = ItemsOf(q[j], p, n)
  <2>1. flat \in [1..l -> Seq(ConfigItems)] /\ \A j \in 1..l : flat[j] = ItemsOf(q[j], p, n)
    BY <1>1, <1>2
  <2> HIDE DEF flat
  <2>2. flat \in Seq(Seq(ConfigItems)) /\ Len(flat) = l
    BY <1>1, <2>1, SeqOfLength
  <2> QED
    BY <2>1, <2>2
<1> HIDE DEF flat
<1>4. PICK k \in [0..l -> Seq(ConfigItems)] : FlatRuns(k, flat)
  BY <1>3, FlattenRuns
<1>5. PICK h \in [0..l -> PluginMaps] : /\ h[0] = NoConfigs /\ h[l] = NodesParsed(NoConfigs, q)
                                        /\ \A j \in 1..l : h[j] = NodeStep(h[j - 1], q[j])
  BY NodeFold, NoConfigsMap
<1> HIDE DEF l
<1> DEFINE Good(j) == /\ GetConfig(h[j], p, n) = k[j]
                      /\ HasConfig(h[j], p, n) <=> \E x \in 1..j : NamedIn(q[x], p, n)
           B == {j \in 0..l : Good(j)}
<1>6. k[0] = <<>> /\ k[l] = FlattenSeq(flat) /\ \A j \in 1..l : k[j] = k[j - 1] \o ItemsOf(q[j], p, n)
  BY <1>3, <1>4 DEF FlatRuns
<1>7. 0 \in B
  <2>1. 0 \in 0..l /\ 1..0 = {}
    BY <1>1
  <2> QED
    BY <1>5, <1>6, <2>1, NoConfigsMap
<1>8. ASSUME NEW j \in 1..l, j - 1 \in B PROVE j \in B
  <2>1. Good(j - 1) /\ h[j - 1] \in PluginMaps /\ q[j] \in PluginNodes /\ ~ConfigNodeWrong(q[j])
        /\ j \in 0..l /\ h[j] = NodeStep(h[j - 1], q[j])
    BY <1>1, <1>5, <1>8
  <2>2. /\ GetConfig(h[j], p, n) = GetConfig(h[j - 1], p, n) \o ItemsOf(q[j], p, n)
        /\ HasConfig(h[j], p, n) <=> HasConfig(h[j - 1], p, n) \/ NamedIn(q[j], p, n)
    <3>1. ~ConfigNodeWrong(q[j]) /\ h[j - 1] \in PluginMaps /\ q[j] \in PluginNodes
      BY <2>1
    <3>2. LET new == NodeStep(h[j - 1], q[j])
          IN  /\ GetConfig(new, p, n) = GetConfig(h[j - 1], p, n) \o ItemsOf(q[j], p, n)
              /\ HasConfig(new, p, n) <=> HasConfig(h[j - 1], p, n) \/ NamedIn(q[j], p, n)
      BY <3>1, NodeStepGives
    <3> QED
      BY <2>1, <3>2
  <2>3. (\E x \in 1..j : NamedIn(q[x], p, n)) <=> (\E x \in 1..(j - 1) : NamedIn(q[x], p, n)) \/ NamedIn(q[j], p, n)
    <3>1. 1..j = 1..(j - 1) \cup {j}
      BY <1>1
    <3> QED
      BY <3>1
  <2> QED
    BY <1>6, <2>1, <2>2, <2>3
<1>9. l \in B
  <2> HIDE DEF B
  <2>1. \A j \in 0..l : j \in B
    BY <1>1, <1>7, <1>8, Climbs
  <2> QED
    BY <1>1, <2>1
<1>10. h[l] \in PluginMaps
  BY <1>1
<1> QED
  BY <1>1, <1>5, <1>6, <1>9, <1>10 DEF flat

(* The files one after the other: a config is what the last good file that *)
(* names it says.                                                          *)
PluginFiles == [xml : BOOLEAN, nodes : Seq(PluginNodes)]
FilesParsed(r, q) == FoldLeft(LoadFromConfigContent, r, q)

LEMMA MergeGives ==
  ASSUME NEW all \in PluginMaps, NEW new \in PluginMaps, NEW p, NEW n
  PROVE  /\ MergeConfigList(all, new) \in PluginMaps
         /\ HasConfig(MergeConfigList(all, new), p, n) <=> HasConfig(all, p, n) \/ HasConfig(new, p, n)
         /\ GetConfig(MergeConfigList(all, new), p, n) =
              IF HasConfig(new, p, n) THEN GetConfig(new, p, n) ELSE GetConfig(all, p, n)
<1> DEFINE P == DOMAIN all \cup DOMAIN new
           Of(x) == CASE x \notin DOMAIN all -> new[x]
                      [] x \in DOMAIN all \cap DOMAIN new -> MergePluginConfigMap(all[x], new[x])
                      [] OTHER -> all[x]
<1>1. MergeConfigList(all, new) = [x \in P |-> Of(x)] /\ P \in SUBSET STRING
  BY MapTypes DEF MergeConfigList
<1>2. ASSUME NEW a \in ItemMaps, NEW b \in ItemMaps
      PROVE  MergePluginConfigMap(a, b) \in ItemMaps
  <2> DEFINE N == DOMAIN a \cup DOMAIN b
  <2>1. N \in SUBSET STRING /\ MergePluginConfigMap(a, b) \in [N -> Seq(ConfigItems)]
    BY MapTypes DEF MergePluginConfigMap
  <2> HIDE DEF N
  <2> QED
    BY <2>1 DEF ItemMaps
<1>3. \A x \in P : Of(x) \in ItemMaps
  BY <1>2, MapTypes
<1>4. MergeConfigList(all, new) \in PluginMaps
  <2> HIDE DEF Of, P
  <2>1. MergeConfigList(all, new) \in [P -> ItemMaps]
    BY <1>1, <1>3
  <2> QED
    BY <1>1, <2>1 DEF PluginMaps
<1> DEFINE u == MergeConfigList(all, new)
<1>5. /\ p \in DOMAIN u <=> p \in DOMAIN all \/ p \in DOMAIN new
      /\ p \in DOMAIN all \/ p \in DOMAIN new => u[p] = Of(p)
  <2> HIDE DEF Of
  <2> QED
    BY <1>1
<1> HIDE DEF u
<1>a. ASSUME NEW m, NEW o, p \in DOMAIN m, m[p] = o
      PROVE  /\ HasConfig(m, p, n) <=> n \in DOMAIN o
             /\ GetConfig(m, p, n) = IF n \in DOMAIN o THEN o[n] ELSE <<>>
  BY <1>a DEF HasConfig, GetConfig, Entry
<1>b. ASSUME NEW m, p \notin DOMAIN m
      PROVE  ~HasConfig(m, p, n) /\ GetConfig(m, p, n) = <<>>
  BY <1>b DEF HasConfig, GetConfig
<1> DEFINE Merged == /\ HasConfig(u, p, n) <=> HasConfig(all, p, n) \/ HasConfig(new, p, n)
                     /\ GetConfig(u, p, n) = IF HasConfig(new, p, n) THEN GetConfig(new, p, n)
                                                                    ELSE GetConfig(all, p, n)
<1>6. ASSUME p \notin DOMAIN all /\ p \in DOMAIN new PROVE Merged
  <2>1. Of(p) = new[p]
    BY <1>6
  <2> HIDE DEF Of
  <2>2. u[p] = new[p] /\ p \in DOMAIN u
    BY <1>5, <1>6, <2>1
  <2>3. /\ HasConfig(u, p, n) <=> HasConfig(new, p, n)
        /\ GetConfig(u, p, n) = GetConfig(new, p, n)
    BY <1>6, <2>2, <1>a
  <2>4. ~HasConfig(new, p, n) => GetConfig(new, p, n) = <<>>
    BY <1>6, <1>a
  <2> QED
    BY <1>6, <1>b, <2>3, <2>4
<1>c. ASSUME p \notin DOMAIN all /\ p \notin DOMAIN new PROVE Merged
  <2>1. p \notin DOMAIN u
    BY <1>5, <1>c
  <2> QED
    BY <1>b, <1>c, <2>1
<1>7. ASSUME p \in DOMAIN all /\ p \notin DOMAIN new PROVE Merged
  <2>1. Of(p) = all[p]
    BY <1>7
  <2> HIDE DEF Of
  <2>2. u[p] = all[p] /\ p \in DOMAIN u
    BY <1>5, <1>7, <2>1
  <2>3. /\ HasConfig(u, p, n) <=> HasConfig(all, p, n)
        /\ GetConfig(u, p, n) = GetConfig(all, p, n)
    BY <1>7, <2>2, <1>a
  <2> QED
    BY <1>7, <1>b, <2>3
<1>8. ASSUME p \in DOMAIN all /\ p \in DOMAIN new PROVE Merged
  <2>1. Of(p) = MergePluginConfigMap(all[p], new[p])
    BY <1>8
  <2>2. /\ n \in DOMAIN Of(p) <=> n \in DOMAIN all[p] \/ n \in DOMAIN new[p]
        /\ n \in DOMAIN Of(p) => Of(p)[n] = IF n \in DOMAIN new[p] THEN new[p][n] ELSE all[p][n]
    BY <2>1 DEF MergePluginConfigMap
  <2> HIDE DEF Of
  <2>3. u[p] = Of(p) /\ p \in DOMAIN u
    BY <1>5, <1>8
  <2>4. /\ HasConfig(u, p, n) <=> n \in DOMAIN Of(p)
        /\ GetConfig(u, p, n) = IF n \in DOMAIN Of(p) THEN Of(p)[n] ELSE <<>>
    BY <2>3, <1>a
  <2>5. /\ HasConfig(new, p, n) <=> n \in DOMAIN new[p]
        /\ GetConfig(new, p, n) = IF n \in DOMAIN new[p] THEN new[p][n] ELSE <<>>
        /\ HasConfig(all, p, n) <=> n \in DOMAIN all[p]
        /\ GetConfig(all, p, n) = IF n \in DOMAIN all[p] THEN all[p][n] ELSE <<>>
    BY <1>8, <1>a
  <2> QED
    BY <2>2, <2>4, <2>5
<1>d. Merged
  BY <1>6, <1>7, <1>8, <1>c
<1> QED
  BY <1>4, <1>d DEF u

LEMMA FileGives ==
  ASSUME NEW all \in PluginMaps, NEW file \in PluginFiles
  PROVE  /\ LoadFromConfigContent(all, file) \in PluginMaps
         /\ \A p, n : n # NoName =>
              LET good == ConfigFileGood(file) /\ Named(file, p, n)
              IN  /\ HasConfig(LoadFromConfigContent(all, file), p, n) <=> HasConfig(all, p, n) \/ good
                  /\ GetConfig(LoadFromConfigContent(all, file), p, n) =
                       IF good THEN ItemsIn(file, p, n) ELSE GetConfig(all, p, n)
<1>1. file.nodes \in Seq(PluginNodes) /\ file.xml \in BOOLEAN
  BY DEF PluginFiles
<1>2. CASE ~ConfigFileGood(file)
  <2>1. LoadFromConfigContent(all, file) = all
    BY <1>2 DEF LoadFromConfigContent, ConfigFileGood
  <2> QED
    BY <1>2, <2>1
<1>3. CASE ConfigFileGood(file)
  <2> DEFINE new == NodesParsed(NoConfigs, file.nodes)
  <2>1. LoadFromConfigContent(all, file) = MergeConfigList(all, new)
    <3>1. new = FoldLeft(LAMBDA m, n : IF n.tag = "comment" THEN m ELSE ParsePluginConfig(n, m),
                         NoConfigs, file.nodes)
      BY DEF NodesParsed, NodeStep, FoldLeft, MapThenFoldSet
    <3> HIDE DEF new
    <3> QED
      BY <1>3, <3>1 DEF LoadFromConfigContent, ConfigFileGood
  <2>2. \A i \in DOMAIN file.nodes : ~ConfigNodeWrong(file.nodes[i])
    BY <1>3 DEF ConfigFileGood
  <2>3. ASSUME NEW p, NEW n, n # NoName
        PROVE  /\ new \in PluginMaps /\ GetConfig(new, p, n) = ItemsIn(file, p, n)
               /\ HasConfig(new, p, n) <=> Named(file, p, n)
    BY <1>1, <2>2, <2>3, NodesGive DEF ItemsIn, Named, NamedIn
  <2>4. new \in PluginMaps
    <3>1. "weak" # NoName
      BY DEF NoName
    <3> QED
      BY <2>3, <3>1
  <2> HIDE DEF new
  <2>5. ASSUME NEW p, NEW n, n # NoName
        PROVE  /\ HasConfig(MergeConfigList(all, new), p, n) <=> HasConfig(all, p, n) \/ Named(file, p, n)
               /\ GetConfig(MergeConfigList(all, new), p, n) =
                    IF Named(file, p, n) THEN ItemsIn(file, p, n) ELSE GetConfig(all, p, n)
    <3>1. /\ HasConfig(MergeConfigList(all, new), p, n) <=> HasConfig(all, p, n) \/ HasConfig(new, p, n)
          /\ GetConfig(MergeConfigList(all, new), p, n) =
               IF HasConfig(new, p, n) THEN GetConfig(new, p, n) ELSE GetConfig(all, p, n)
      BY <2>4, MergeGives
    <3> QED
      BY <2>3, <2>5, <3>1
  <2>6. MergeConfigList(all, new) \in PluginMaps
    BY <2>4, MergeGives
  <2> QED
    BY <1>3, <2>1, <2>5, <2>6
<1> QED
  BY <1>2, <1>3

LEMMA FileStepType ==
  ASSUME NEW all \in PluginMaps, NEW file \in PluginFiles
  PROVE  LoadFromConfigContent(all, file) \in PluginMaps
  BY FileGives

LEMMA ConfigFileFold ==
  ASSUME NEW r \in PluginMaps, NEW q \in Seq(PluginFiles)
  PROVE  \E h \in [0..Len(q) -> PluginMaps] :
           /\ h[0] = r /\ h[Len(q)] = FilesParsed(r, q)
           /\ \A i \in 1..Len(q) : h[i] = LoadFromConfigContent(h[i - 1], q[i])
<1> DEFINE Adds(g) == g = [s \in SUBSET DOMAIN q |-> IF s = {} THEN r
                             ELSE LoadFromConfigContent(g[s \ {Max(s)}], q[Max(s)])]
           it == CHOOSE g : Adds(g)
           comb == [p \in PluginMaps \X PluginFiles |-> LoadFromConfigContent(p[1], p[2])]
<1>1. FilesParsed(r, q) = it[DOMAIN q]
  BY DEF FilesParsed, FoldLeft, MapThenFoldSet
<1>2. /\ comb \in [PluginMaps \X PluginFiles -> PluginMaps]
      /\ \A v \in PluginMaps, d \in PluginFiles : comb[<<v, d>>] = LoadFromConfigContent(v, d)
  BY FileStepType
<1> HIDE DEF comb
<1>3. PICK g \in [SUBSET DOMAIN q -> PluginMaps] : LeftFolds(g, comb, r, q, PluginMaps)
  BY <1>2, LeftFoldExists
<1>4. Adds(g)
  <2>1. ASSUME NEW s \in SUBSET DOMAIN q, s # {}
        PROVE  g[s] = LoadFromConfigContent(g[s \ {Max(s)}], q[Max(s)])
    <3>1. s \ {Max(s)} \in SUBSET DOMAIN q /\ q[Max(s)] \in PluginFiles
      BY <2>1, LeftMax
    <3>2. g[s \ {Max(s)}] \in PluginMaps
      BY <3>1
    <3>3. g[s] = comb[<<g[s \ {Max(s)}], q[Max(s)]>>]
      BY <2>1, <1>3, <3>2 DEF LeftFolds
    <3> QED
      BY <1>2, <3>1, <3>2, <3>3
  <2>2. g[{}] = r
    BY <1>3 DEF LeftFolds
  <2> QED
    BY <2>1, <2>2
<1> HIDE DEF Adds
<1>5. Adds(it)
  BY <1>4
<1>6. LeftFolds(it, comb, r, q, PluginMaps)
  <2> HIDE DEF it
  <2>1. ASSUME NEW s \in SUBSET DOMAIN q, s # {}, it[s \ {Max(s)}] \in PluginMaps
        PROVE  it[s] = comb[<<it[s \ {Max(s)}], q[Max(s)]>>]
    <3>1. q[Max(s)] \in PluginFiles
      BY <2>1, LeftMax
    <3>2. it[s] = LoadFromConfigContent(it[s \ {Max(s)}], q[Max(s)])
      BY <1>5, <2>1 DEF Adds
    <3> QED
      BY <1>2, <2>1, <3>1, <3>2
  <2>2. it[{}] = r
    BY <1>5 DEF Adds
  <2> QED
    BY <2>1, <2>2 DEF LeftFolds
<1> HIDE DEF it
<1>7. PICK h \in [0..Len(q) -> PluginMaps] : RunsTo(h, comb, r, q, it[DOMAIN q])
  BY <1>2, <1>6, LeftAlong
<1>8. ASSUME NEW i \in 1..Len(q) PROVE h[i] = LoadFromConfigContent(h[i - 1], q[i])
  <2>1. i - 1 \in 0..Len(q) /\ q[i] \in PluginFiles
    BY LeftPlaces
  <2>2. h[i - 1] \in PluginMaps /\ h[i] = comb[<<h[i - 1], q[i]>>]
    BY <1>7, <2>1 DEF RunsTo
  <2> QED
    BY <1>2, <2>1, <2>2
<1> QED
  BY <1>1, <1>7, <1>8 DEF RunsTo

GivingIn(q, p, n) == {f \in DOMAIN q : ConfigFileGood(q[f]) /\ Named(q[f], p, n)}
LastSays(q, G, p, n) == IF G = {} THEN <<>> ELSE ItemsIn(q[Max(G)], p, n)

LEMMA FilesGive ==
  ASSUME NEW q \in Seq(PluginFiles), NEW p, NEW n, n # NoName
  PROVE  /\ FilesParsed(NoConfigs, q) \in PluginMaps
         /\ GetConfig(FilesParsed(NoConfigs, q), p, n) = LastSays(q, GivingIn(q, p, n), p, n)
<1> DEFINE l == Len(q)
           G == GivingIn(q, p, n)
           Upto(i) == {f \in G : f <= i}
<1>1. l \in Nat /\ DOMAIN q = 1..l /\ \A j \in 1..l : q[j] \in PluginFiles /\ j \in 0..l /\ j - 1 \in 0..l
  OBVIOUS
<1>2. PICK h \in [0..l -> PluginMaps] : /\ h[0] = NoConfigs /\ h[l] = FilesParsed(NoConfigs, q)
                                        /\ \A j \in 1..l : h[j] = LoadFromConfigContent(h[j - 1], q[j])
  BY ConfigFileFold, NoConfigsMap
<1> HIDE DEF l
<1>3. G \subseteq 1..l /\ \A j \in 1..l : j \in G <=> ConfigFileGood(q[j]) /\ Named(q[j], p, n)
  BY <1>1 DEF GivingIn
<1> HIDE DEF G
<1> DEFINE B == {j \in 0..l : GetConfig(h[j], p, n) = LastSays(q, Upto(j), p, n)}
<1>4. 0 \in B
  <2>1. \A f \in G : f \in Nat /\ ~(f <= 0)
    BY <1>1, <1>3
  <2>2. Upto(0) = {} /\ 0 \in 0..l
    BY <1>1, <2>1
  <2> QED
    BY <1>2, <2>2, NoConfigsMap DEF LastSays
<1>5. ASSUME NEW j \in 1..l, j - 1 \in B PROVE j \in B
  <2>1. /\ h[j - 1] \in PluginMaps /\ q[j] \in PluginFiles /\ j \in 0..l
        /\ h[j] = LoadFromConfigContent(h[j - 1], q[j])
        /\ GetConfig(h[j - 1], p, n) = LastSays(q, Upto(j - 1), p, n)
    BY <1>1, <1>2, <1>5
  <2>2. GetConfig(LoadFromConfigContent(h[j - 1], q[j]), p, n) =
          IF ConfigFileGood(q[j]) /\ Named(q[j], p, n) THEN ItemsIn(q[j], p, n)
                                                       ELSE GetConfig(h[j - 1], p, n)
    BY <2>1, FileGives
  <2>3. CASE j \in G
    <3>1. Upto(j) \in SUBSET (1..l) /\ Upto(j) # {} /\ j \in Upto(j) /\ (\A f \in Upto(j) : f <= j)
      BY <1>1, <1>3, <2>3
    <3>2. IsFiniteSet(Upto(j)) /\ Upto(j) \in SUBSET Int
      <4>1. IsFiniteSet(1..l)
        BY <1>1, FS_Interval
      <4> HIDE DEF Upto
      <4> QED
        BY <1>1, <3>1, <4>1, FS_Subset
    <3> HIDE DEF Upto
    <3>3. Max(Upto(j)) \in Upto(j) /\ j <= Max(Upto(j))
      BY <3>1, <3>2, LargestOf
    <3>4. Max(Upto(j)) = j
      BY <3>1, <3>2, <3>3
    <3> QED
      BY <1>3, <2>1, <2>2, <2>3, <3>1, <3>4 DEF LastSays
  <2>4. CASE j \notin G
    <3>1. Upto(j) = Upto(j - 1)
      BY <1>1, <1>3, <2>4
    <3> QED
      BY <1>3, <2>1, <2>2, <2>4, <3>1
  <2> QED
    BY <2>3, <2>4
<1>6. l \in B
  <2> HIDE DEF B
  <2>1. \A j \in 0..l : j \in B
    BY <1>1, <1>4, <1>5, Climbs
  <2> QED
    BY <1>1, <2>1
<1>7. Upto(l) = G /\ h[l] \in PluginMaps
  BY <1>1, <1>3
<1> QED
  BY <1>2, <1>6, <1>7 DEF G

(* The switches of a file.                                                 *)
SwitchMaps == UNION {[L -> BOOLEAN] : L \in SUBSET STRING}
SwitchLoads == [map : SwitchMaps, ok : BOOLEAN]
SwitchFiles == [xml : BOOLEAN, nodes : Seq(SwitchNodes)]
SwitchStep(r, n) ==
  IF ~r.ok \/ n.tag = "comment" THEN r
  ELSE IF SwitchNodeWrong(n) THEN [r EXCEPT !.ok = FALSE]
  ELSE IF FillinPluginInfo(n) = NoName THEN r
  ELSE [r EXCEPT !.map = Put(@, FillinPluginInfo(n), n.switch = "1")]
SwitchesParsed(r, q) == FoldLeft(SwitchStep, r, q)
On(map, lib) == lib \in DOMAIN map /\ map[lib]
(* The nodes of q that switch lib.                                         *)
SwitchesOf(q, lib) ==
  {x \in DOMAIN q : /\ \A y \in 1..x : ~SwitchNodeWrong(q[y])
                    /\ q[x].tag = "plugin" /\ FillinPluginInfo(q[x]) = lib}

LEMMA SwitchMapTypes ==
  /\ \A m \in SwitchMaps : DOMAIN m \in SUBSET STRING /\ \A l \in DOMAIN m : m[l] \in BOOLEAN
  /\ \A m \in SwitchMaps, x \in STRING, v \in BOOLEAN : Put(m, x, v) \in SwitchMaps
  /\ [l \in {} |-> FALSE] \in SwitchMaps
<1>1. ASSUME NEW m \in SwitchMaps
      PROVE  DOMAIN m \in SUBSET STRING /\ \A l \in DOMAIN m : m[l] \in BOOLEAN
  <2>1. PICK L \in SUBSET STRING : m \in [L -> BOOLEAN]
    BY DEF SwitchMaps
  <2> QED
    BY <2>1
<1>2. ASSUME NEW m \in SwitchMaps, NEW x \in STRING, NEW v \in BOOLEAN
      PROVE  Put(m, x, v) \in SwitchMaps
  <2> DEFINE L == DOMAIN m \cup {x}
  <2>1. L \in SUBSET STRING /\ \A l \in DOMAIN m : m[l] \in BOOLEAN
    BY <1>1
  <2>2. Put(m, x, v) \in [L -> BOOLEAN]
    BY <2>1 DEF Put
  <2> HIDE DEF L
  <2> QED
    BY <2>1, <2>2 DEF SwitchMaps
<1>3. [l \in {} |-> FALSE] \in SwitchMaps
  <2>1. [l \in {} |-> FALSE] \in [{} -> BOOLEAN] /\ {} \in SUBSET STRING
    OBVIOUS
  <2> QED
    BY <2>1 DEF SwitchMaps
<1> QED
  BY <1>1, <1>2, <1>3

LEMMA SwitchStepType ==
  ASSUME NEW r \in SwitchLoads, NEW n \in SwitchNodes
  PROVE  SwitchStep(r, n) \in SwitchLoads
<1>1. FillinPluginInfo(n) \in STRING /\ r.map \in SwitchMaps /\ (n.switch = "1") \in BOOLEAN
  BY DEF FillinPluginInfo, SwitchNodes, SwitchLoads
<1>2. Put(r.map, FillinPluginInfo(n), n.switch = "1") \in SwitchMaps
  BY <1>1, SwitchMapTypes
<1> QED
  BY <1>2 DEF SwitchStep, SwitchLoads

LEMMA SwitchFold ==
  ASSUME NEW r \in SwitchLoads, NEW q \in Seq(SwitchNodes)
  PROVE  \E h \in [0..Len(q) -> SwitchLoads] :
           /\ h[0] = r /\ h[Len(q)] = SwitchesParsed(r, q)
           /\ \A i \in 1..Len(q) : h[i] = SwitchStep(h[i - 1], q[i])
<1> DEFINE Adds(g) == g = [s \in SUBSET DOMAIN q |-> IF s = {} THEN r
                             ELSE SwitchStep(g[s \ {Max(s)}], q[Max(s)])]
           it == CHOOSE g : Adds(g)
           comb == [p \in SwitchLoads \X SwitchNodes |-> SwitchStep(p[1], p[2])]
<1>1. SwitchesParsed(r, q) = it[DOMAIN q]
  BY DEF SwitchesParsed, FoldLeft, MapThenFoldSet
<1>2. /\ comb \in [SwitchLoads \X SwitchNodes -> SwitchLoads]
      /\ \A v \in SwitchLoads, d \in SwitchNodes : comb[<<v, d>>] = SwitchStep(v, d)
  BY SwitchStepType
<1> HIDE DEF comb
<1>3. PICK g \in [SUBSET DOMAIN q -> SwitchLoads] : LeftFolds(g, comb, r, q, SwitchLoads)
  BY <1>2, LeftFoldExists
<1>4. Adds(g)
  <2>1. ASSUME NEW s \in SUBSET DOMAIN q, s # {}
        PROVE  g[s] = SwitchStep(g[s \ {Max(s)}], q[Max(s)])
    <3>1. s \ {Max(s)} \in SUBSET DOMAIN q /\ q[Max(s)] \in SwitchNodes
      BY <2>1, LeftMax
    <3>2. g[s \ {Max(s)}] \in SwitchLoads
      BY <3>1
    <3>3. g[s] = comb[<<g[s \ {Max(s)}], q[Max(s)]>>]
      BY <2>1, <1>3, <3>2 DEF LeftFolds
    <3> QED
      BY <1>2, <3>1, <3>2, <3>3
  <2>2. g[{}] = r
    BY <1>3 DEF LeftFolds
  <2> QED
    BY <2>1, <2>2
<1> HIDE DEF Adds
<1>5. Adds(it)
  BY <1>4
<1>6. LeftFolds(it, comb, r, q, SwitchLoads)
  <2> HIDE DEF it
  <2>1. ASSUME NEW s \in SUBSET DOMAIN q, s # {}, it[s \ {Max(s)}] \in SwitchLoads
        PROVE  it[s] = comb[<<it[s \ {Max(s)}], q[Max(s)]>>]
    <3>1. q[Max(s)] \in SwitchNodes
      BY <2>1, LeftMax
    <3>2. it[s] = SwitchStep(it[s \ {Max(s)}], q[Max(s)])
      BY <1>5, <2>1 DEF Adds
    <3> QED
      BY <1>2, <2>1, <3>1, <3>2
  <2>2. it[{}] = r
    BY <1>5 DEF Adds
  <2> QED
    BY <2>1, <2>2 DEF LeftFolds
<1> HIDE DEF it
<1>7. PICK h \in [0..Len(q) -> SwitchLoads] : RunsTo(h, comb, r, q, it[DOMAIN q])
  BY <1>2, <1>6, LeftAlong
<1>8. ASSUME NEW i \in 1..Len(q) PROVE h[i] = SwitchStep(h[i - 1], q[i])
  <2>1. i - 1 \in 0..Len(q) /\ q[i] \in SwitchNodes
    BY LeftPlaces
  <2>2. h[i - 1] \in SwitchLoads /\ h[i] = comb[<<h[i - 1], q[i]>>]
    BY <1>7, <2>1 DEF RunsTo
  <2> QED
    BY <1>2, <2>1, <2>2
<1> QED
  BY <1>1, <1>7, <1>8 DEF RunsTo

LEMMA OnPut ==
  ASSUME NEW m, NEW x, NEW v, NEW lib
  PROVE  On(Put(m, x, v), lib) <=> IF lib = x THEN v ELSE On(m, lib)
  BY DEF On, Put

LEMMA SwitchesGive ==
  ASSUME NEW m \in SwitchMaps, NEW q \in Seq(SwitchNodes), NEW lib, lib # NoName
  PROVE  LET load == SwitchesParsed([map |-> m, ok |-> TRUE], q)
         IN  /\ load.map \in SwitchMaps
             /\ SwitchesOf(q, lib) = {} => (On(load.map, lib) <=> On(m, lib))
             /\ SwitchesOf(q, lib) # {} =>
                  (On(load.map, lib) <=> q[Max(SwitchesOf(q, lib))].switch = "1")
<1> DEFINE l == Len(q)
           r == [map |-> m, ok |-> TRUE]
           G == SwitchesOf(q, lib)
           Upto(i) == {x \in G : x <= i}
<1>1. l \in Nat /\ DOMAIN q = 1..l /\ \A j \in 1..l : q[j] \in SwitchNodes /\ j \in 0..l /\ j - 1 \in 0..l
  OBVIOUS
<1>2. r \in SwitchLoads /\ r.map = m /\ r.ok
  BY DEF SwitchLoads
<1> HIDE DEF r
<1>3. PICK h \in [0..l -> SwitchLoads] : /\ h[0] = r /\ h[l] = SwitchesParsed(r, q)
                                         /\ \A j \in 1..l : h[j] = SwitchStep(h[j - 1], q[j])
  BY <1>2, SwitchFold
<1> HIDE DEF l
<1> DEFINE Right(i) == \A y \in 1..i : ~SwitchNodeWrong(q[y])
<1>4. /\ G \subseteq 1..l
      /\ \A j \in 1..l : j \in G <=> Right(j) /\ q[j].tag = "plugin" /\ FillinPluginInfo(q[j]) = lib
  BY <1>1 DEF SwitchesOf
<1>a. G \subseteq 1..l
  BY <1>4
<1>5. Right(0) /\ \A j \in 1..l : Right(j) <=> Right(j - 1) /\ ~SwitchNodeWrong(q[j])
  BY <1>1
<1> HIDE DEF G, Right
<1> DEFINE Says(i) == IF Upto(i) = {} THEN On(m, lib) ELSE q[Max(Upto(i))].switch = "1"
           Good(i) == (h[i].ok <=> Right(i)) /\ (On(h[i].map, lib) <=> Says(i))
           B == {j \in 0..l : Good(j)}
<1>6. 0 \in B
  <2>1. \A x \in G : x \in Nat /\ ~(x <= 0)
    BY <1>1, <1>a
  <2>2. Upto(0) = {} /\ 0 \in 0..l
    BY <1>1, <2>1
  <2>3. Says(0) <=> On(m, lib)
    BY <2>2
  <2>4. h[0].ok <=> Right(0)
    BY <1>2, <1>3, <1>5
  <2>5. On(h[0].map, lib) <=> Says(0)
    BY <1>2, <1>3, <2>3
  <2> QED
    BY <2>2, <2>4, <2>5
<1>7. ASSUME NEW j \in 1..l, j - 1 \in B PROVE j \in B
  <2>1. h[j - 1] \in SwitchLoads /\ q[j] \in SwitchNodes /\ j \in 0..l /\ h[j] = SwitchStep(h[j - 1], q[j])
    BY <1>1, <1>3
  <2>2. (h[j - 1].ok <=> Right(j - 1)) /\ (On(h[j - 1].map, lib) <=> Says(j - 1))
    BY <1>7
  <2>3. Right(j) <=> Right(j - 1) /\ ~SwitchNodeWrong(q[j])
    BY <1>5
  <2> DEFINE old == h[j - 1]
             v == q[j].switch = "1"
             put == [old EXCEPT !.map = Put(@, FillinPluginInfo(q[j]), v)]
  <2>4. CASE j \in G
    <3>1. Upto(j) \in SUBSET (1..l) /\ j \in Upto(j) /\ (\A f \in Upto(j) : f <= j)
      BY <1>1, <1>a, <2>4
    <3>2. IsFiniteSet(Upto(j)) /\ Upto(j) \in SUBSET Int
      <4>1. IsFiniteSet(1..l)
        BY <1>1, FS_Interval
      <4> HIDE DEF Upto
      <4> QED
        BY <1>1, <3>1, <4>1, FS_Subset
    <3> HIDE DEF Upto
    <3>3. Max(Upto(j)) \in Upto(j) /\ j <= Max(Upto(j))
      BY <3>1, <3>2, LargestOf
    <3>4. Max(Upto(j)) = j
      BY <3>1, <3>2, <3>3
    <3>5. Says(j) <=> q[j].switch = "1"
      <4>1. Upto(j) # {}
        BY <3>1
      <4> QED
        BY <3>4, <4>1
    <3> HIDE DEF Says
    <3>6. Right(j) /\ q[j].tag = "plugin" /\ FillinPluginInfo(q[j]) = lib /\ old.ok /\ ~SwitchNodeWrong(q[j])
      BY <1>4, <2>2, <2>3, <2>4
    <3>7. h[j] = put
      BY <2>1, <3>6 DEF SwitchStep
    <3>8. put.ok = old.ok /\ put.map = Put(old.map, lib, v)
      BY <2>1, <3>6 DEF SwitchLoads
    <3>9. On(put.map, lib) <=> v
      BY <3>8, OnPut
    <3>10. h[j].ok <=> Right(j)
      BY <3>6, <3>7, <3>8
    <3>11. On(h[j].map, lib) <=> Says(j)
      BY <3>5, <3>7, <3>9
    <3> QED
      BY <2>1, <3>10, <3>11
  <2>5. CASE j \notin G
    <3>1. Upto(j) = Upto(j - 1)
      BY <1>1, <1>a, <2>5
    <3>2. Says(j) <=> Says(j - 1)
      BY <3>1
    <3> HIDE DEF Says
    <3>3. CASE ~old.ok \/ q[j].tag = "comment"
      <4>1. h[j] = old
        BY <2>1, <3>3 DEF SwitchStep
      <4>2. Right(j) <=> Right(j - 1)
        BY <2>2, <2>3, <3>3 DEF SwitchNodeWrong
      <4> QED
        BY <2>1, <2>2, <3>2, <4>1, <4>2
    <3>4. CASE old.ok /\ q[j].tag # "comment" /\ SwitchNodeWrong(q[j])
      <4>1. h[j] = [old EXCEPT !.ok = FALSE]
        BY <2>1, <3>4 DEF SwitchStep
      <4>2. ~h[j].ok /\ h[j].map = old.map
        BY <2>1, <4>1 DEF SwitchLoads
      <4> QED
        BY <2>1, <2>2, <2>3, <3>2, <3>4, <4>2
    <3>5. CASE old.ok /\ q[j].tag # "comment" /\ ~SwitchNodeWrong(q[j])
      <4>1. Right(j) /\ q[j].tag = "plugin"
        BY <2>2, <2>3, <3>5 DEF SwitchNodeWrong
      <4>2. FillinPluginInfo(q[j]) # lib
        BY <1>4, <2>5, <4>1
      <4>3. h[j] = old \/ h[j] = put
        BY <2>1, <3>5 DEF SwitchStep
      <4>4. put.ok = old.ok /\ put.map = Put(old.map, FillinPluginInfo(q[j]), v)
        BY <2>1 DEF SwitchLoads
      <4>5. On(put.map, lib) <=> On(old.map, lib)
        BY <4>2, <4>4, OnPut
      <4> HIDE DEF put
      <4>6. h[j].ok /\ (On(h[j].map, lib) <=> On(old.map, lib))
        BY <3>5, <4>3, <4>4, <4>5
      <4> QED
        BY <2>1, <2>2, <3>2, <4>1, <4>6
    <3> QED
      BY <3>3, <3>4, <3>5
  <2> QED
    BY <2>4, <2>5
<1>8. l \in B
  <2> HIDE DEF B
  <2>1. \A j \in 0..l : j \in B
    BY <1>1, <1>6, <1>7, Climbs
  <2> QED
    BY <1>1, <2>1
<1>9. Upto(l) = G /\ h[l] \in SwitchLoads
  <2>1. \A x \in G : x <= l
    BY <1>1, <1>a
  <2>2. Upto(l) = G
    BY <2>1
  <2> QED
    BY <1>1, <2>2
<1>10. h[l].map \in SwitchMaps
  BY <1>9 DEF SwitchLoads
<1>11. /\ Upto(l) = {} => (On(h[l].map, lib) <=> On(m, lib))
       /\ Upto(l) # {} => (On(h[l].map, lib) <=> q[Max(Upto(l))].switch = "1")
  BY <1>8
<1> HIDE DEF Upto
<1> QED
  BY <1>3, <1>9, <1>10, <1>11 DEF G, r

(* The switch files one after the other.                                   *)
SwitchFilesParsed(r, q) == FoldLeft(LoadSwitchContent, r, q)
SwitchedIn(file, lib) == IF file.xml THEN SwitchesOf(file.nodes, lib) ELSE {}
LastOn(file, lib) == file.nodes[Max(SwitchedIn(file, lib))].switch = "1"

LEMMA SwitchFileGives ==
  ASSUME NEW m \in SwitchMaps, NEW file \in SwitchFiles
  PROVE  /\ LoadSwitchContent(m, file) \in SwitchMaps
         /\ \A lib : lib # NoName =>
              /\ SwitchedIn(file, lib) = {} => (On(LoadSwitchContent(m, file), lib) <=> On(m, lib))
              /\ SwitchedIn(file, lib) # {} => (On(LoadSwitchContent(m, file), lib) <=> LastOn(file, lib))
<1>1. file.nodes \in Seq(SwitchNodes)
  BY DEF SwitchFiles
<1>2. CASE ~file.xml
  <2>1. LoadSwitchContent(m, file) = m /\ \A lib : SwitchedIn(file, lib) = {}
    BY <1>2 DEF LoadSwitchContent, SwitchedIn
  <2> QED
    BY <2>1
<1>3. CASE file.xml
  <2> DEFINE load == SwitchesParsed([map |-> m, ok |-> TRUE], file.nodes)
  <2>1. LoadSwitchContent(m, file) = load.map
    BY <1>3 DEF LoadSwitchContent, SwitchesParsed, SwitchStep, FoldLeft, MapThenFoldSet
  <2>2. ASSUME NEW lib, lib # NoName
        PROVE  /\ load.map \in SwitchMaps
               /\ SwitchesOf(file.nodes, lib) = {} => (On(load.map, lib) <=> On(m, lib))
               /\ SwitchesOf(file.nodes, lib) # {} =>
                    (On(load.map, lib) <=> file.nodes[Max(SwitchesOf(file.nodes, lib))].switch = "1")
    BY <1>1, <2>2, SwitchesGive
  <2>3. load.map \in SwitchMaps
    <3>1. "weak" # NoName
      BY DEF NoName
    <3> QED
      BY <2>2, <3>1
  <2> HIDE DEF load
  <2>4. \A lib : SwitchedIn(file, lib) = SwitchesOf(file.nodes, lib)
    BY <1>3 DEF SwitchedIn
  <2> QED
    BY <2>1, <2>2, <2>3, <2>4 DEF LastOn
<1> QED
  BY <1>2, <1>3

LEMMA SwitchFileType ==
  ASSUME NEW m \in SwitchMaps, NEW file \in SwitchFiles
  PROVE  LoadSwitchContent(m, file) \in SwitchMaps
  BY SwitchFileGives

LEMMA SwitchFileFold ==
  ASSUME NEW r \in SwitchMaps, NEW q \in Seq(SwitchFiles)
  PROVE  \E h \in [0..Len(q) -> SwitchMaps] :
           /\ h[0] = r /\ h[Len(q)] = SwitchFilesParsed(r, q)
           /\ \A i \in 1..Len(q) : h[i] = LoadSwitchContent(h[i - 1], q[i])
<1> DEFINE Adds(g) == g = [s \in SUBSET DOMAIN q |-> IF s = {} THEN r
                             ELSE LoadSwitchContent(g[s \ {Max(s)}], q[Max(s)])]
           it == CHOOSE g : Adds(g)
           comb == [p \in SwitchMaps \X SwitchFiles |-> LoadSwitchContent(p[1], p[2])]
<1>1. SwitchFilesParsed(r, q) = it[DOMAIN q]
  BY DEF SwitchFilesParsed, FoldLeft, MapThenFoldSet
<1>2. /\ comb \in [SwitchMaps \X SwitchFiles -> SwitchMaps]
      /\ \A v \in SwitchMaps, d \in SwitchFiles : comb[<<v, d>>] = LoadSwitchContent(v, d)
  BY SwitchFileType
<1> HIDE DEF comb
<1>3. PICK g \in [SUBSET DOMAIN q -> SwitchMaps] : LeftFolds(g, comb, r, q, SwitchMaps)
  BY <1>2, LeftFoldExists
<1>4. Adds(g)
  <2>1. ASSUME NEW s \in SUBSET DOMAIN q, s # {}
        PROVE  g[s] = LoadSwitchContent(g[s \ {Max(s)}], q[Max(s)])
    <3>1. s \ {Max(s)} \in SUBSET DOMAIN q /\ q[Max(s)] \in SwitchFiles
      BY <2>1, LeftMax
    <3>2. g[s \ {Max(s)}] \in SwitchMaps
      BY <3>1
    <3>3. g[s] = comb[<<g[s \ {Max(s)}], q[Max(s)]>>]
      BY <2>1, <1>3, <3>2 DEF LeftFolds
    <3> QED
      BY <1>2, <3>1, <3>2, <3>3
  <2>2. g[{}] = r
    BY <1>3 DEF LeftFolds
  <2> QED
    BY <2>1, <2>2
<1> HIDE DEF Adds
<1>5. Adds(it)
  BY <1>4
<1>6. LeftFolds(it, comb, r, q, SwitchMaps)
  <2> HIDE DEF it
  <2>1. ASSUME NEW s \in SUBSET DOMAIN q, s # {}, it[s \ {Max(s)}] \in SwitchMaps
        PROVE  it[s] = comb[<<it[s \ {Max(s)}], q[Max(s)]>>]
    <3>1. q[Max(s)] \in SwitchFiles
      BY <2>1, LeftMax
    <3>2. it[s] = LoadSwitchContent(it[s \ {Max(s)}], q[Max(s)])
      BY <1>5, <2>1 DEF Adds
    <3> QED
      BY <1>2, <2>1, <3>1, <3>2
  <2>2. it[{}] = r
    BY <1>5 DEF Adds
  <2> QED
    BY <2>1, <2>2 DEF LeftFolds
<1> HIDE DEF it
<1>7. PICK h \in [0..Len(q) -> SwitchMaps] : RunsTo(h, comb, r, q, it[DOMAIN q])
  BY <1>2, <1>6, LeftAlong
<1>8. ASSUME NEW i \in 1..Len(q) PROVE h[i] = LoadSwitchContent(h[i - 1], q[i])
  <2>1. i - 1 \in 0..Len(q) /\ q[i] \in SwitchFiles
    BY LeftPlaces
  <2>2. h[i - 1] \in SwitchMaps /\ h[i] = comb[<<h[i - 1], q[i]>>]
    BY <1>7, <2>1 DEF RunsTo
  <2> QED
    BY <1>2, <2>1, <2>2
<1> QED
  BY <1>1, <1>7, <1>8 DEF RunsTo

NoSwitches == [l \in {} |-> FALSE]
FilesSwitching(q, lib) == {f \in DOMAIN q : SwitchedIn(q[f], lib) # {}}

LEMMA SwitchFilesGive ==
  ASSUME NEW q \in Seq(SwitchFiles), NEW lib, lib # NoName
  PROVE  LET F == FilesSwitching(q, lib)
         IN  /\ SwitchFilesParsed(NoSwitches, q) \in SwitchMaps
             /\ On(SwitchFilesParsed(NoSwitches, q), lib) <=> F # {} /\ LastOn(q[Max(F)], lib)
<1> DEFINE l == Len(q)
           G == FilesSwitching(q, lib)
           Upto(i) == {x \in G : x <= i}
<1>1. l \in Nat /\ DOMAIN q = 1..l /\ \A j \in 1..l : q[j] \in SwitchFiles /\ j \in 0..l /\ j - 1 \in 0..l
  OBVIOUS
<1>2. NoSwitches \in SwitchMaps /\ ~On(NoSwitches, lib)
  BY SwitchMapTypes DEF NoSwitches, On
<1>3. PICK h \in [0..l -> SwitchMaps] : /\ h[0] = NoSwitches /\ h[l] = SwitchFilesParsed(NoSwitches, q)
                                        /\ \A j \in 1..l : h[j] = LoadSwitchContent(h[j - 1], q[j])
  BY <1>2, SwitchFileFold
<1> HIDE DEF l
<1>4. \A j \in 1..l : j \in G <=> SwitchedIn(q[j], lib) # {}
  BY <1>1 DEF FilesSwitching
<1>a. G \subseteq 1..l
  BY <1>1 DEF FilesSwitching
<1> HIDE DEF G
<1> DEFINE Good(i) == On(h[i], lib) <=> Upto(i) # {} /\ LastOn(q[Max(Upto(i))], lib)
           B == {j \in 0..l : Good(j)}
<1>6. 0 \in B
  <2>1. \A x \in G : x \in Nat /\ ~(x <= 0)
    BY <1>1, <1>a
  <2>2. Upto(0) = {} /\ 0 \in 0..l
    BY <1>1, <2>1
  <2> QED
    BY <1>2, <1>3, <2>2
<1>7. ASSUME NEW j \in 1..l, j - 1 \in B PROVE j \in B
  <2>1. h[j - 1] \in SwitchMaps /\ q[j] \in SwitchFiles /\ j \in 0..l /\ h[j] = LoadSwitchContent(h[j - 1], q[j])
    BY <1>1, <1>3
  <2>2. Good(j - 1)
    BY <1>7
  <2>3. /\ SwitchedIn(q[j], lib) = {} => (On(h[j], lib) <=> On(h[j - 1], lib))
        /\ SwitchedIn(q[j], lib) # {} => (On(h[j], lib) <=> LastOn(q[j], lib))
    BY <2>1, SwitchFileGives
  <2>4. CASE j \in G
    <3>1. Upto(j) \in SUBSET (1..l) /\ j \in Upto(j) /\ (\A f \in Upto(j) : f <= j)
      BY <1>1, <1>a, <2>4
    <3>2. IsFiniteSet(Upto(j)) /\ Upto(j) \in SUBSET Int
      <4>1. IsFiniteSet(1..l)
        BY <1>1, FS_Interval
      <4> HIDE DEF Upto
      <4> QED
        BY <1>1, <3>1, <4>1, FS_Subset
    <3> HIDE DEF Upto
    <3>3. Max(Upto(j)) \in Upto(j) /\ j <= Max(Upto(j))
      BY <3>1, <3>2, LargestOf
    <3>4. Max(Upto(j)) = j /\ Upto(j) # {}
      BY <3>1, <3>2, <3>3
    <3> QED
      BY <1>4, <2>1, <2>3, <2>4, <3>4
  <2>5. CASE j \notin G
    <3>0. \A x \in G : x <= j <=> x <= j - 1
      <4>1. \A x \in 1..l : x # j => (x <= j <=> x <= j - 1)
        BY <1>1
      <4> QED
        BY <1>a, <2>5, <4>1
    <3>1. Upto(j) = Upto(j - 1)
      BY <3>0
    <3> HIDE DEF Upto
    <3> QED
      BY <1>4, <2>1, <2>2, <2>3, <2>5, <3>1
  <2> QED
    BY <2>4, <2>5
<1>8. l \in B
  <2> HIDE DEF B
  <2>1. \A j \in 0..l : j \in B
    BY <1>1, <1>6, <1>7, Climbs
  <2> QED
    BY <1>1, <2>1
<1>9. Upto(l) = G /\ h[l] \in SwitchMaps
  <2>1. \A x \in G : x <= l
    BY <1>1, <1>a
  <2>2. Upto(l) = G
    BY <2>1
  <2> QED
    BY <1>1, <2>2
<1> HIDE DEF Upto
<1> QED
  BY <1>3, <1>8, <1>9 DEF G

(* The last node of the last file is the last of all.                      *)
LEMMA LastSwitch ==
  ASSUME switchStrs \in Seq(SwitchFiles), NEW lib
  PROVE  LET F == FilesSwitching(switchStrs, lib)
         IN  SwitchedOn(lib) <=> F # {} /\ LastOn(switchStrs[Max(F)], lib)
<1> DEFINE F == FilesSwitching(switchStrs, lib)
           N(f) == SwitchedIn(switchStrs[f], lib)
           l == Len(switchStrs)
<1>1. l \in Nat /\ DOMAIN switchStrs = 1..l /\ \A f \in 1..l : switchStrs[f] \in SwitchFiles
  OBVIOUS
<1>2. \A f \in 1..l : switchStrs[f].nodes \in Seq(SwitchNodes) /\ switchStrs[f].xml \in BOOLEAN
  BY <1>1 DEF SwitchFiles
<1>3. ASSUME NEW f \in 1..l
      PROVE  /\ DOMAIN switchStrs[f].nodes = 1..Len(switchStrs[f].nodes)
             /\ Len(switchStrs[f].nodes) \in Nat
             /\ N(f) \in SUBSET DOMAIN switchStrs[f].nodes
  BY <1>2 DEF SwitchedIn, SwitchesOf
<1>4. ASSUME NEW f \in 1..l
      PROVE  /\ N(f) \in SUBSET Int
             /\ N(f) # {} => Max(N(f)) \in N(f) /\ \A x \in N(f) : x <= Max(N(f))
  <2> DEFINE D == DOMAIN switchStrs[f].nodes
             k == Len(switchStrs[f].nodes)
  <2>1. D = 1..k /\ k \in Nat /\ N(f) \in SUBSET D
    BY <1>3
  <2> HIDE DEF N, D, k
  <2>2. IsFiniteSet(1..k) /\ 1..k \in SUBSET Int
    BY <2>1, FS_Interval
  <2>3. IsFiniteSet(N(f)) /\ N(f) \in SUBSET Int
    BY <2>1, <2>2, FS_Subset
  <2> QED
    BY <2>3, LargestOf
<1>5. /\ F \in SUBSET (1..l) /\ \A f \in 1..l : f \in F <=> N(f) # {}
      /\ F # {} => Max(F) \in F /\ \A f \in F : f <= Max(F)
  <2>1. F \in SUBSET (1..l) /\ \A f \in 1..l : f \in F <=> N(f) # {}
    BY <1>1 DEF FilesSwitching
  <2>2. IsFiniteSet(1..l) /\ 1..l \in SUBSET Int
    BY <1>1, FS_Interval
  <2> HIDE DEF F
  <2>3. IsFiniteSet(F) /\ F \in SUBSET Int
    BY <2>1, <2>2, FS_Subset
  <2> QED
    BY <2>1, <2>3, LargestOf
<1>6. \A q : q \in Switching(lib) <=> \E f \in 1..l : \E j \in N(f) : q = <<f, j>>
  BY <1>1, <1>3 DEF Switching, SwitchedIn, SwitchesOf
<1> HIDE DEF F, N, l
<1>7. ASSUME F # {}
      PROVE  LET f == Max(F)
                 q == <<f, Max(N(f))>>
             IN  /\ q \in Switching(lib) /\ \A r \in Switching(lib) : r = q \/ Earlier(r, q)
                 /\ f \in 1..l /\ N(f) # {}
  <2> DEFINE f == Max(F)
             x == Max(N(f))
  <2>1. f \in 1..l /\ N(f) # {} /\ x \in N(f)
    BY <1>4, <1>5, <1>7
  <2>2. ASSUME NEW r \in Switching(lib) PROVE r = <<f, x>> \/ Earlier(r, <<f, x>>)
    <3>1. PICK g \in 1..l : \E j \in N(g) : r = <<g, j>>
      BY <1>6
    <3>2. PICK j \in N(g) : r = <<g, j>>
      BY <3>1
    <3>3. g \in F /\ g <= f /\ g \in Int /\ f \in Int
      BY <1>1, <1>5, <1>7, <2>1, <3>2
    <3>4. g = f => j <= x /\ j \in Int /\ x \in Int
      BY <1>4, <2>1, <3>2
    <3> HIDE DEF f, x
    <3> QED
      BY <3>2, <3>3, <3>4 DEF Earlier
  <2>3. <<f, x>> \in Switching(lib)
    BY <1>6, <2>1
  <2> QED
    BY <2>1, <2>2, <2>3
<1>8. ASSUME SwitchedOn(lib) PROVE F # {} /\ LastOn(switchStrs[Max(F)], lib)
  <2>1. PICK q \in Switching(lib) : /\ \A r \in Switching(lib) : r = q \/ Earlier(r, q)
                                    /\ switchStrs[q[1]].nodes[q[2]].switch = "1"
    BY <1>8 DEF SwitchedOn
  <2>2. F # {}
    BY <1>5, <1>6
  <2> DEFINE f == Max(F)
             x == Max(N(f))
  <2>3. /\ <<f, x>> \in Switching(lib) /\ (q = <<f, x>> \/ Earlier(q, <<f, x>>))
        /\ (<<f, x>> = q \/ Earlier(<<f, x>>, q))
    BY <1>7, <2>1, <2>2
  <2>4. PICK g \in 1..l : \E j \in N(g) : q = <<g, j>>
    BY <1>6
  <2>5. PICK j \in N(g) : q = <<g, j>>
    BY <2>4
  <2>6. g \in Int /\ j \in Int /\ f \in Int /\ x \in Int
    <3>1. f \in 1..l /\ x \in N(f)
      BY <1>4, <1>5, <2>2
    <3>2. N(f) \in SUBSET Int /\ N(g) \in SUBSET Int
      BY <1>4, <2>4, <3>1
    <3> QED
      BY <1>1, <2>4, <2>5, <3>1, <3>2
  <2> HIDE DEF f, x
  <2>7. g = f /\ j = x
    BY <2>3, <2>5, <2>6 DEF Earlier
  <2> QED
    BY <2>1, <2>2, <2>5, <2>7 DEF LastOn, f, x, N
<1>9. ASSUME F # {}, LastOn(switchStrs[Max(F)], lib) PROVE SwitchedOn(lib)
  <2> DEFINE q == <<Max(F), Max(N(Max(F)))>>
  <2>1. q \in Switching(lib) /\ \A r \in Switching(lib) : r = q \/ Earlier(r, q)
    BY <1>7, <1>9
  <2>2. switchStrs[q[1]].nodes[q[2]].switch = "1"
    BY <1>9 DEF LastOn, N
  <2> HIDE DEF q
  <2> QED
    BY <2>1, <2>2 DEF SwitchedOn
<1> QED
  BY <1>8, <1>9 DEF F

(* RemoveConfig takes one config out; the SocPerf plugin does so for each  *)
(* that it has read.                                                       *)
LEMMA WithoutTypes ==
  ASSUME NEW x
  PROVE  /\ \A m \in ItemMaps : Without(m, x) \in ItemMaps
         /\ \A m \in PluginMaps : Without(m, x) \in PluginMaps
<1>1. ASSUME NEW m \in ItemMaps PROVE Without(m, x) \in ItemMaps
  <2> DEFINE N == DOMAIN m \ {x}
  <2>1. N \in SUBSET STRING /\ \A n \in N : m[n] \in Seq(ConfigItems)
    BY MapTypes
  <2>2. Without(m, x) \in [N -> Seq(ConfigItems)]
    BY <2>1 DEF Without
  <2> HIDE DEF N
  <2> QED
    BY <2>1, <2>2 DEF ItemMaps
<1>2. ASSUME NEW m \in PluginMaps PROVE Without(m, x) \in PluginMaps
  <2> DEFINE N == DOMAIN m \ {x}
  <2>1. N \in SUBSET STRING /\ \A n \in N : m[n] \in ItemMaps
    BY MapTypes
  <2>2. Without(m, x) \in [N -> ItemMaps]
    BY <2>1 DEF Without
  <2> HIDE DEF N
  <2> QED
    BY <2>1, <2>2 DEF PluginMaps
<1> QED
  BY <1>1, <1>2

LEMMA RemoveGives ==
  ASSUME NEW m \in PluginMaps, NEW p, NEW n
  PROVE  /\ RemoveConfig(m, p, n) \in PluginMaps
         /\ DOMAIN RemoveConfig(m, p, n) \subseteq DOMAIN m
         /\ GetConfig(RemoveConfig(m, p, n), p, n) = <<>>
         /\ \A r, k : r # p \/ k # n => GetConfig(RemoveConfig(m, p, n), r, k) = GetConfig(m, r, k)
<1> DEFINE res == RemoveConfig(m, p, n)
<1>1. CASE p \notin DOMAIN m \/ n \notin DOMAIN Entry(m, p, NoConfigs)
  <2>1. res = m
    BY <1>1 DEF RemoveConfig
  <2>2. GetConfig(m, p, n) = <<>>
    BY <1>1 DEF GetConfig, Entry
  <2> HIDE DEF res
  <2> QED
    BY <2>1, <2>2 DEF res
<1>2. CASE p \in DOMAIN m /\ n \in DOMAIN Entry(m, p, NoConfigs)
  <2>1. Entry(m, p, NoConfigs) = m[p] /\ n \in DOMAIN m[p] /\ p \in STRING /\ m[p] \in ItemMaps
    BY <1>2, MapTypes DEF Entry
  <2>2. CASE DOMAIN m[p] = {n}
    <3>1. res = Without(m, p)
      BY <1>2, <2>2 DEF RemoveConfig
    <3>2. res \in PluginMaps /\ DOMAIN res \subseteq DOMAIN m /\ p \notin DOMAIN res
      BY <3>1, WithoutTypes DEF Without
    <3>3. ASSUME NEW r, NEW k, r # p \/ k # n PROVE GetConfig(res, r, k) = GetConfig(m, r, k)
      <4>1. CASE r = p
        BY <1>2, <2>2, <3>2, <3>3, <4>1 DEF GetConfig, Entry
      <4>2. CASE r # p
        BY <3>1, <4>2 DEF GetConfig, Without
      <4> QED
        BY <4>1, <4>2
    <3>4. GetConfig(res, p, n) = <<>>
      BY <3>2 DEF GetConfig
    <3> QED
      BY <3>2, <3>3, <3>4
  <2>3. CASE DOMAIN m[p] # {n}
    <3>1. res = Put(m, p, Without(m[p], n))
      BY <1>2, <2>3 DEF RemoveConfig
    <3>2. Without(m[p], n) \in ItemMaps
      BY <2>1, WithoutTypes
    <3>3. res \in PluginMaps
      BY <2>1, <3>1, <3>2, PutTypes
    <3>4. /\ DOMAIN res = DOMAIN m /\ res[p] = Without(m[p], n)
          /\ \A r \in DOMAIN m : r # p => res[r] = m[r]
      BY <1>2, <3>1 DEF Put
    <3>5. ASSUME NEW r, NEW k, r # p \/ k # n PROVE GetConfig(res, r, k) = GetConfig(m, r, k)
      <4>1. CASE r = p
        BY <1>2, <3>4, <3>5, <4>1 DEF GetConfig, Entry, Without
      <4>2. CASE r # p
        BY <3>4, <4>2 DEF GetConfig
      <4> QED
        BY <4>1, <4>2
    <3>6. GetConfig(res, p, n) = <<>>
      BY <3>4 DEF GetConfig, Entry, Without
    <3> QED
      BY <3>3, <3>4, <3>5, <3>6
  <2> QED
    BY <2>2, <2>3
<1> QED
  BY <1>1, <1>2

LEMMA FiniteThree == \A a, b, c : IsFiniteSet({a, b, c})
<1> TAKE a, b, c
<1>1. IsFiniteSet({}) /\ \A S, x : IsFiniteSet(S) => IsFiniteSet(S \cup {x})
  BY FS_EmptySet, FS_AddElement
<1>2. {a, b, c} = (({} \cup {a}) \cup {b}) \cup {c}
  OBVIOUS
<1>3. IsFiniteSet((({} \cup {a}) \cup {b}) \cup {c})
  BY <1>1
<1> QED
  BY <1>2, <1>3

LEMMA SocPerfConfigsFinite == IsFiniteSet(SocPerfConfigs)
<1> DEFINE A == {"event_id", "feature_switch", "extension"}
           B == {"crucial", "boost_list", "weak"}
           C == {"battery", "policy_mode", "limit_policy"}
<1>1. SocPerfConfigs = (A \cup B) \cup C
  BY DEF SocPerfConfigs
<1>2. IsFiniteSet(A) /\ IsFiniteSet(B) /\ IsFiniteSet(C)
  BY FiniteThree
<1> HIDE DEF A, B, C
<1>3. IsFiniteSet(A \cup B)
  BY <1>2, FS_Union
<1>4. IsFiniteSet((A \cup B) \cup C)
  BY <1>2, <1>3, FS_Union
<1> QED
  BY <1>1, <1>4

ConfigsRemoved(m, S) == FoldSet(LAMBDA n, all : RemoveConfig(all, SocPerfName, n), m, S)

LEMMA RemovesAll ==
  ASSUME NEW m \in PluginMaps, NEW S, IsFiniteSet(S)
  PROVE  /\ ConfigsRemoved(m, S) \in PluginMaps
         /\ DOMAIN ConfigsRemoved(m, S) \subseteq DOMAIN m
         /\ \A n \in S : GetConfig(ConfigsRemoved(m, S), SocPerfName, n) = <<>>
         /\ \A r, k : r # SocPerfName => GetConfig(ConfigsRemoved(m, S), r, k) = GetConfig(m, r, k)
<1> DEFINE Rem(n, all) == RemoveConfig(all, SocPerfName, n)
           comb == [x \in S \X PluginMaps |-> Rem(x[1], x[2])]
           self == [n \in S |-> n]
           pick == [s \in SUBSET S |-> Pick(s)]
           Loops(g) == g = [s \in SUBSET S |-> IF s = {} THEN m
                              ELSE Rem(CHOOSE x \in s : TRUE, g[s \ {CHOOSE x \in s : TRUE}])]
           loop == CHOOSE g : Loops(g)
<1>1. ConfigsRemoved(m, S) = loop[S]
  BY DEF ConfigsRemoved, FoldSet, MapThenFoldSet
<1>2. \A n, all : all \in PluginMaps => Rem(n, all) \in PluginMaps
  BY RemoveGives
<1> HIDE DEF Rem
<1>3. comb \in [S \X PluginMaps -> PluginMaps] /\ \A n \in S, a \in PluginMaps : comb[<<n, a>>] = Rem(n, a)
  BY <1>2
<1>a. \A n \in S : self[n] = n
  OBVIOUS
<1>b. \A s \in SUBSET S : pick[s] = Pick(s) /\ (s # {} => Pick(s) \in s)
  BY PickIn
<1> HIDE DEF comb, self, pick
<1>4. \E g : Loops(g)
  <2>1. PickedFrom(pick, S) /\ MapsInto(self, S, S)
    BY <1>a, <1>b DEF PickedFrom, MapsInto
  <2>2. PICK g \in [SUBSET S -> PluginMaps] : FoldsBy(g, comb, m, self, pick, S)
    BY <1>3, <2>1, FoldExistsBy
  <2>3. \A s \in SUBSET S : g[s] = IF s = {} THEN m ELSE Rem(Pick(s), g[s \ {Pick(s)}])
    <3> TAKE s \in SUBSET S
    <3>1. g[s] = IF s = {} THEN m ELSE comb[<<self[Pick(s)], g[s \ {Pick(s)}]>>]
      BY <1>b, <2>2 DEF FoldsBy
    <3>2. CASE s # {}
      <4>1. Pick(s) \in S /\ s \ {Pick(s)} \in SUBSET S
        BY <1>b, <3>2
      <4>2. self[Pick(s)] = Pick(s) /\ g[s \ {Pick(s)}] \in PluginMaps
        BY <1>a, <4>1
      <4> QED
        BY <1>3, <3>1, <3>2, <4>1, <4>2
    <3> QED
      BY <3>1, <3>2
  <2> DEFINE Of(s) == IF s = {} THEN m ELSE Rem(Pick(s), g[s \ {Pick(s)}])
  <2>4. \A s \in SUBSET S : g[s] = Of(s)
    BY <2>3
  <2> HIDE DEF Of
  <2>5. g = [s \in SUBSET S |-> Of(s)]
    BY <2>4
  <2>6. Loops(g)
    BY <2>5 DEF Of, Pick
  <2> QED
    BY <2>6
<1> HIDE DEF Loops
<1>5. Loops(loop)
  BY <1>4
<1> HIDE DEF loop
<1>6. \A s \in SUBSET S : loop[s] = IF s = {} THEN m ELSE Rem(Pick(s), loop[s \ {Pick(s)}])
  BY <1>5 DEF Loops, Pick
<1> DEFINE Right(s, all) ==
             /\ all \in PluginMaps /\ DOMAIN all \subseteq DOMAIN m
             /\ \A n \in s : GetConfig(all, SocPerfName, n) = <<>>
             /\ \A r, k : r # SocPerfName => GetConfig(all, r, k) = GetConfig(m, r, k)
           Bad == {s \in SUBSET S : ~Right(s, loop[s])}
<1>7. ASSUME NEW s, NEW x \in s, NEW all, Right(s \ {x}, all) PROVE Right(s, Rem(x, all))
  <2> DEFINE res == Rem(x, all)
  <2>1. /\ res \in PluginMaps /\ DOMAIN res \subseteq DOMAIN all /\ GetConfig(res, SocPerfName, x) = <<>>
        /\ \A r, k : r # SocPerfName \/ k # x => GetConfig(res, r, k) = GetConfig(all, r, k)
    BY <1>7, RemoveGives DEF Rem
  <2> HIDE DEF res
  <2>2. \A n \in s : n = x \/ n \in s \ {x}
    OBVIOUS
  <2>3. \A n \in s : GetConfig(res, SocPerfName, n) = <<>>
    BY <1>7, <2>1, <2>2
  <2>4. \A r, k : r # SocPerfName => GetConfig(res, r, k) = GetConfig(m, r, k)
    BY <1>7, <2>1
  <2>5. DOMAIN res \subseteq DOMAIN m
    BY <1>7, <2>1
  <2> QED
    BY <2>1, <2>3, <2>4, <2>5 DEF res
<1>8. Right({}, m)
  OBVIOUS
<1>9. Bad = {}
  <2> SUFFICES ASSUME Bad # {} PROVE FALSE
    OBVIOUS
  <2>1. Bad \in SUBSET SUBSET S
    OBVIOUS
  <2> HIDE DEF Bad
  <2>2. PICK s \in Bad : \A x \in s : s \ {x} \notin Bad
    BY <2>1, SmallestSet
  <2> HIDE DEF Right
  <2>3. s \in SUBSET S /\ ~Right(s, loop[s])
    BY <2>2 DEF Bad
  <2>4. CASE s = {}
    BY <1>6, <1>8, <2>3, <2>4
  <2>5. CASE s # {}
    <3> DEFINE x == Pick(s)
    <3>1. x \in s /\ s \ {x} \in SUBSET S /\ loop[s] = Rem(x, loop[s \ {x}])
      BY <1>6, <1>b, <2>3, <2>5
    <3> HIDE DEF x
    <3>2. Right(s \ {x}, loop[s \ {x}])
      BY <2>2, <3>1 DEF Bad
    <3> QED
      BY <1>7, <2>3, <3>1, <3>2
  <2> QED
    BY <2>4, <2>5
<1>10. Right(S, loop[S])
  <2> HIDE DEF Right
  <2> QED
    BY <1>9
<1> QED
  BY <1>1, <1>10

(* Whether the SocPerf plugin has read its configuration, and what the     *)
(* files q say its settings are.                                           *)
SocConfigsRead == \A n \in SocPerfConfigs : <<SocPerfName, n>> \in removedConfigs
SocConfigsKept == \A n \in SocPerfConfigs : <<SocPerfName, n>> \notin removedConfigs
ButBoost(s) == [s EXCEPT !.gameBoost = 0]
ConfiguredIn(q, p, n) == LastSays(q, GivingIn(q, p, n), p, n)
SettingsIn(q) ==
  SocSettingsFrom(NoSettings, [n \in SocPerfConfigs |-> ConfiguredIn(q, SocPerfName, n)])
ConfigsAsIn(q, all, removed) ==
  \A p \in {SocPerfName} \cup DOMAIN all, n \in SocPerfConfigs :
    GetConfig(all, p, n) = IF <<p, n>> \in removed THEN <<>> ELSE ConfiguredIn(q, p, n)
SettingsFields == DOMAIN NoSettings
IsSettings(s) == s = [x \in SettingsFields |-> s[x]]

ConfigTypes ==
  /\ configStrs \in ConfigStrings /\ switchStrs \in SwitchStrings
  /\ isRssExe \in BOOLEAN /\ configParsed \in BOOLEAN /\ switchParsed \in BOOLEAN
  /\ allPluginConfigs \in PluginMaps /\ pluginSwitchMap \in SwitchMaps
  /\ loadedLibs \subseteq DOMAIN pluginSwitchMap
  /\ IsSettings(socSettings) /\ socEnabled \in BOOLEAN /\ reopenFailed \in BOOLEAN
  /\ reqFunc \in {"null", "valid", "dangling"}
(* Why ConfigRight is inductive: nothing is removed before the switches    *)
(* have been read; the plugin either has not read a setting, or has read   *)
(* all and removed them; and a function was taken from a library with a    *)
(* path.                                                                   *)
ConfigsRead ==
  /\ ~configParsed => ~switchParsed /\ allPluginConfigs = NoConfigs
  /\ ~switchParsed => /\ removedConfigs = {} /\ pluginSwitchMap = NoSwitches
                      /\ SocConfigsKept /\ socEnabled = FALSE
  /\ configParsed => ConfigsAsIn(configStrs, allPluginConfigs, removedConfigs)
SettingsRead ==
  \/ SocConfigsKept /\ socSettings = NoSettings /\ ~socEnabled /\ reqFunc = "null"
  \/ SocConfigsRead /\ ButBoost(socSettings) = ButBoost(SettingsIn(configStrs))
ReqFuncRight ==
  /\ reqFunc # "null" => socSettings.reqPath # 0
  /\ socEnabled /\ reqFunc = "dangling" => reopenFailed
ConfigInv == ConfigTypes /\ ConfigsRead /\ PluginsAsSwitched /\ SettingsRead /\ ReqFuncRight

(* The settings: an empty config changes nothing, but the game boost       *)
(* switch.                                                                 *)
LEMMA LastOfNone ==
  ASSUME NEW items, items = <<>>, NEW key, NEW old
  PROVE  LastOf(items, key, old) = old
<1> DEFINE Step(v, i) == IF i.key = key THEN i.value ELSE v
           Loops(g) == g = [s \in SUBSET DOMAIN items |-> IF s = {} THEN old
                              ELSE Step(g[s \ {Max(s)}], items[Max(s)])]
           loop == CHOOSE g : Loops(g)
<1>1. LastOf(items, key, old) = loop[DOMAIN items]
  BY DEF LastOf, FoldLeft, MapThenFoldSet
<1>2. DOMAIN items = {} /\ \A s \in SUBSET DOMAIN items : s = {}
  OBVIOUS
<1> HIDE DEF Step
<1> DEFINE none == [s \in SUBSET DOMAIN items |-> old]
           Of(s) == IF s = {} THEN old ELSE Step(none[s \ {Max(s)}], items[Max(s)])
<1>3. \A s \in SUBSET DOMAIN items : Of(s) = old
  BY <1>2
<1> HIDE DEF Of
<1>4. none = [s \in SUBSET DOMAIN items |-> Of(s)]
  BY <1>3
<1>5. Loops(none)
  BY <1>4 DEF Of
<1> HIDE DEF Loops
<1>6. Loops(loop)
  BY <1>5
<1> HIDE DEF loop
<1>7. {} \in SUBSET DOMAIN items
  OBVIOUS
<1>8. loop[{}] = old
  BY <1>6, <1>7 DEF Loops
<1> QED
  BY <1>1, <1>2, <1>8

LEMMA AllOfNone ==
  ASSUME NEW items, items = <<>>, NEW key
  PROVE  AllOf(items, key) = {}
<1>1. DOMAIN items = {}
  OBVIOUS
<1>2. Range(items) = {}
  BY <1>1 DEF Range
<1> QED
  BY <1>2 DEF AllOf

LEMMA ExceptSame ==
  ASSUME NEW t, IsSettings(t)
  PROVE  /\ [t EXCEPT !.eventId = t.eventId] = t
         /\ [t EXCEPT !.extensions = t.extensions] = t
         /\ [t EXCEPT !.reqPath = t.reqPath] = t
         /\ [t EXCEPT !.boostApps = t.boostApps] = t
         /\ [t EXCEPT !.weakEnable = t.weakEnable, !.keyApps = t.keyApps] = t
         /\ [t EXCEPT !.battery = t.battery] = t
  BY DEF IsSettings


LEMMA SettingsShape ==
  ASSUME NEW s, IsSettings(s), NEW items
  PROVE  IsSettings(SocSettingsFrom(s, items))
<1>1. ASSUME NEW t, IsSettings(t), NEW i
      PROVE  /\ IsSettings(InitEventId(t, i)) /\ IsSettings(InitFeatureSwitchFrom(t, i))
             /\ IsSettings(LoadSpecialExtension(t, i)) /\ IsSettings(InitPerfCrucialSo(t, i))
             /\ IsSettings(InitBundleNameBoostLists(t, i)) /\ IsSettings(LoadWeakInterAction(t, i))
             /\ IsSettings(InitBatteryCapacityLimitFreq(t, i))
  <2> DEFINE F == SettingsFields
             Is(r) == r = [x \in F |-> r[x]]
  <2>1. /\ \A v : Is([t EXCEPT !.eventId = v]) /\ Is([t EXCEPT !.gameBoost = v])
        /\ \A v : Is([t EXCEPT !.extensions = v]) /\ Is([t EXCEPT !.reqPath = v])
        /\ \A v : Is([t EXCEPT !.boostApps = v]) /\ Is([t EXCEPT !.battery = v])
        /\ \A v, w : Is([t EXCEPT !.weakEnable = v, !.keyApps = w])
    <3> HIDE DEF F
    <3>1. t = [x \in F |-> t[x]]
      BY <1>1 DEF IsSettings, F
    <3> QED
      BY <3>1
  <2> HIDE DEF Is, F
  <2>2. \A r : Is(r) => IsSettings(r)
    BY DEF Is, F, IsSettings
  <2>3. \A v : /\ IsSettings([t EXCEPT !.eventId = v]) /\ IsSettings([t EXCEPT !.gameBoost = v])
               /\ IsSettings([t EXCEPT !.extensions = v]) /\ IsSettings([t EXCEPT !.reqPath = v])
               /\ IsSettings([t EXCEPT !.boostApps = v]) /\ IsSettings([t EXCEPT !.battery = v])
               /\ \A w : IsSettings([t EXCEPT !.weakEnable = v, !.keyApps = w])
    BY <2>1, <2>2
  <2> QED
    BY <2>3 DEF InitEventId, InitFeatureSwitchFrom, LoadSpecialExtension, InitPerfCrucialSo,
                InitBundleNameBoostLists, LoadWeakInterAction, InitBatteryCapacityLimitFreq
<1>2. ASSUME NEW t, IsSettings(t), NEW i, NEW j PROVE IsSettings(InitPolicyMode(t, i, j))
  <2>1. \A v : IsSettings([t EXCEPT !.powerLimit = v])
    <3> DEFINE F == SettingsFields
    <3> HIDE DEF F
    <3>1. t = [x \in F |-> t[x]]
      BY <1>2 DEF IsSettings, F
    <3>2. ASSUME NEW v
          PROVE  [t EXCEPT !.powerLimit = v] = [x \in F |-> [t EXCEPT !.powerLimit = v][x]]
      BY <3>1
    <3> QED
      BY <3>2 DEF IsSettings, F
  <2> QED
    BY <1>2, <2>1 DEF InitPolicyMode
<1> QED
  BY <1>1, <1>2 DEF SocSettingsFrom

LEMMA SettingsOfNone ==
  ASSUME NEW s, IsSettings(s), NEW items, \A n \in SocPerfConfigs : items[n] = <<>>
  PROVE  /\ SocSettingsFrom(s, items).reqPath = s.reqPath
         /\ ButBoost(SocSettingsFrom(s, items)) = ButBoost(s)
<1>1. /\ items["event_id"] = <<>> /\ items["feature_switch"] = <<>> /\ items["extension"] = <<>>
      /\ items["crucial"] = <<>> /\ items["boost_list"] = <<>> /\ items["weak"] = <<>>
      /\ items["battery"] = <<>> /\ items["policy_mode"] = <<>> /\ items["limit_policy"] = <<>>
  BY DEF SocPerfConfigs
<1>2. ASSUME NEW t, IsSettings(t), NEW i, i = <<>>
      PROVE  /\ InitEventId(t, i) = t /\ LoadSpecialExtension(t, i) = t
             /\ InitPerfCrucialSo(t, i) = t /\ InitBundleNameBoostLists(t, i) = t
             /\ LoadWeakInterAction(t, i) = t /\ InitBatteryCapacityLimitFreq(t, i) = t
  <2>1. \A k, o : LastOf(i, k, o) = o /\ AllOf(i, k) = {}
    BY <1>2, LastOfNone, AllOfNone
  <2>2. \A x : x \cup {} = x
    OBVIOUS
  <2>3. /\ InitEventId(t, i) = [t EXCEPT !.eventId = t.eventId]
        /\ InitPerfCrucialSo(t, i) = [t EXCEPT !.reqPath = t.reqPath]
        /\ LoadSpecialExtension(t, i) = [t EXCEPT !.extensions = t.extensions]
        /\ InitBundleNameBoostLists(t, i) = [t EXCEPT !.boostApps = t.boostApps]
    BY <2>1, <2>2
    DEF InitEventId, InitPerfCrucialSo, LoadSpecialExtension, InitBundleNameBoostLists
  <2>4. /\ InitBatteryCapacityLimitFreq(t, i) = [t EXCEPT !.battery = t.battery]
        /\ LoadWeakInterAction(t, i) = [t EXCEPT !.weakEnable = t.weakEnable, !.keyApps = t.keyApps]
    BY <2>1, <2>2 DEF InitBatteryCapacityLimitFreq, LoadWeakInterAction
  <2> QED
    BY <1>2, <2>3, <2>4, ExceptSame
<1>3. ASSUME NEW t, NEW i, NEW j, i = <<>> PROVE InitPolicyMode(t, i, j) = t
  BY <1>3 DEF InitPolicyMode
<1> DEFINE on == InitFeatureSwitchFrom(s, items["feature_switch"])
<1>4. PICK b : on = [s EXCEPT !.gameBoost = b]
  BY DEF InitFeatureSwitchFrom
<1>5. IsSettings(on)
  <2> DEFINE F == SettingsFields
  <2> HIDE DEF F
  <2>1. s = [x \in F |-> s[x]]
    BY DEF IsSettings, F
  <2>2. on = [x \in F |-> on[x]]
    BY <1>4, <2>1
  <2> QED
    BY <2>2 DEF IsSettings, F
<1>6. on.reqPath = s.reqPath /\ ButBoost(on) = ButBoost(s)
  <2> DEFINE F == SettingsFields
  <2>1. "reqPath" \in F
    BY DEF SettingsFields, NoSettings
  <2> HIDE DEF F
  <2>2. s = [x \in F |-> s[x]]
    BY DEF IsSettings, F
  <2>3. DOMAIN s = F
    BY <2>2
  <2>4. on.reqPath = s.reqPath
    BY <1>4, <2>1, <2>3
  <2>5. [on EXCEPT !.gameBoost = 0] = [s EXCEPT !.gameBoost = 0]
    BY <1>4, <2>3
  <2> QED
    BY <2>4, <2>5 DEF ButBoost
<1> HIDE DEF on
<1>7. InitEventId(s, items["event_id"]) = s
  BY <1>1, <1>2
<1>8. InitPerfCrucialSo(LoadSpecialExtension(on, items["extension"]), items["crucial"]) = on
  BY <1>1, <1>2, <1>5
<1>9. LoadWeakInterAction(InitBundleNameBoostLists(on, items["boost_list"]), items["weak"]) = on
  BY <1>1, <1>2, <1>5
<1>10. InitBatteryCapacityLimitFreq(on, items["battery"]) = on
  BY <1>1, <1>2, <1>5
<1>11. InitPolicyMode(on, items["policy_mode"], items["limit_policy"]) = on
  BY <1>1, <1>3
<1>12. SocSettingsFrom(s, items) = on
  BY <1>7, <1>8, <1>9, <1>10, <1>11 DEF SocSettingsFrom, on
<1> QED
  BY <1>6, <1>12

LEMMA ConfigFilesTyped ==
  /\ \A q \in ConfigStrings : q \in Seq(PluginFiles)
  /\ \A q \in SwitchStrings : q \in Seq(SwitchFiles)
  BY ConfigAssumption DEF PluginFiles, SwitchFiles

LEMMA ConfiguredIs == \A p, n : Configured(p, n) = ConfiguredIn(configStrs, p, n)
  BY DEF Configured, Giving, ConfiguredIn, LastSays, GivingIn

LEMMA NotNoName == \A n \in SocPerfConfigs : n # NoName
  BY DEF SocPerfConfigs, NoName

(* The first reading takes what the files say, every other one nothing.    *)
LEMMA ReadSettingsStep ==
  ASSUME ConfigInv, configParsed, ~socEnabled, NEW opens \in BOOLEAN, NEW found \in BOOLEAN,
         ReadSettings(opens, found)
  PROVE  /\ allPluginConfigs' \in PluginMaps /\ IsSettings(socSettings')
         /\ reqFunc' \in {"null", "valid", "dangling"} /\ reopenFailed' \in BOOLEAN
         /\ ConfigsAsIn(configStrs, allPluginConfigs', removedConfigs')
         /\ SocConfigsRead' /\ ButBoost(socSettings') = ButBoost(SettingsIn(configStrs))
         /\ reqFunc' # "null" => socSettings'.reqPath # 0
         /\ reqFunc' = "dangling" => reopenFailed'
<1> DEFINE items == [n \in SocPerfConfigs |-> GetConfig(allPluginConfigs, SocPerfName, n)]
           read == SocSettingsFrom(socSettings, items)
<1>1. /\ socSettings' = read
      /\ reqFunc' = InitPerfCrucialFunc(read.reqPath, opens, found)
      /\ reopenFailed' = (reopenFailed \/ (reqFunc = "dangling" /\ ~opens))
      /\ allPluginConfigs' = ConfigsRemoved(allPluginConfigs, SocPerfConfigs)
      /\ removedConfigs' = removedConfigs \cup {<<SocPerfName, n>> : n \in SocPerfConfigs}
  BY DEF ReadSettings, ConfigsRemoved
<1>2. /\ allPluginConfigs \in PluginMaps /\ IsSettings(socSettings) /\ reopenFailed \in BOOLEAN
      /\ reqFunc \in {"null", "valid", "dangling"} /\ SettingsRead /\ ReqFuncRight
      /\ ConfigsAsIn(configStrs, allPluginConfigs, removedConfigs)
  BY DEF ConfigInv, ConfigTypes, ConfigsRead
<1>3. /\ allPluginConfigs' \in PluginMaps
      /\ DOMAIN allPluginConfigs' \subseteq DOMAIN allPluginConfigs
      /\ \A n \in SocPerfConfigs : GetConfig(allPluginConfigs', SocPerfName, n) = <<>>
      /\ \A r, k : r # SocPerfName => GetConfig(allPluginConfigs', r, k) = GetConfig(allPluginConfigs, r, k)
  BY <1>1, <1>2, RemovesAll, SocPerfConfigsFinite
<1>4. ConfigsAsIn(configStrs, allPluginConfigs', removedConfigs')
  <2> SUFFICES ASSUME NEW p \in {SocPerfName} \cup DOMAIN allPluginConfigs', NEW n \in SocPerfConfigs
               PROVE  GetConfig(allPluginConfigs', p, n) =
                        IF <<p, n>> \in removedConfigs' THEN <<>> ELSE ConfiguredIn(configStrs, p, n)
    BY DEF ConfigsAsIn
  <2>1. CASE p = SocPerfName
    BY <1>1, <1>3, <2>1
  <2>2. CASE p # SocPerfName
    <3>1. <<p, n>> \in removedConfigs' <=> <<p, n>> \in removedConfigs
      BY <1>1, <2>2
    <3>2. GetConfig(allPluginConfigs, p, n) =
            IF <<p, n>> \in removedConfigs THEN <<>> ELSE ConfiguredIn(configStrs, p, n)
      BY <1>2, <1>3 DEF ConfigsAsIn
    <3> QED
      BY <1>3, <2>2, <3>1, <3>2
  <2> QED
    BY <2>1, <2>2
<1>5. SocConfigsRead'
  BY <1>1 DEF SocConfigsRead
<1>6. IsSettings(socSettings')
  BY <1>1, <1>2, SettingsShape
<1>7. CASE SocConfigsKept /\ socSettings = NoSettings /\ ~socEnabled /\ reqFunc = "null"
  <2>1. \A n \in SocPerfConfigs : items[n] = ConfiguredIn(configStrs, SocPerfName, n)
    BY <1>2, <1>7 DEF ConfigsAsIn, SocConfigsKept
  <2>2. items = [n \in SocPerfConfigs |-> ConfiguredIn(configStrs, SocPerfName, n)]
    BY <2>1
  <2>3. read = SettingsIn(configStrs)
    BY <1>7, <2>2 DEF SettingsIn
  <2> HIDE DEF read
  <2>4. reqFunc' # "dangling" /\ (reqFunc' # "null" => read.reqPath # 0) /\ reqFunc' \in {"null", "valid"}
    BY <1>1, <1>7 DEF InitPerfCrucialFunc
  <2>5. reopenFailed' \in BOOLEAN
    BY <1>1, <1>2
  <2> QED
    BY <1>1, <1>3, <1>4, <1>5, <1>6, <2>3, <2>4, <2>5
<1>8. CASE SocConfigsRead /\ ButBoost(socSettings) = ButBoost(SettingsIn(configStrs))
  <2>1. \A n \in SocPerfConfigs : items[n] = <<>>
    BY <1>2, <1>8 DEF ConfigsAsIn, SocConfigsRead
  <2>2. read.reqPath = socSettings.reqPath /\ ButBoost(read) = ButBoost(socSettings)
    <3> HIDE DEF items
    <3> QED
      BY <1>2, <2>1, SettingsOfNone
  <2> HIDE DEF read
  <2>3. ButBoost(socSettings') = ButBoost(SettingsIn(configStrs))
    BY <1>1, <1>8, <2>2
  <2>4. reqFunc # "null" => read.reqPath # 0
    BY <1>2, <2>2 DEF ReqFuncRight
  <2>5. /\ reqFunc' # "null" => read.reqPath # 0
        /\ reqFunc' = "dangling" => reqFunc = "dangling" /\ ~opens
        /\ reqFunc' \in {"null", "valid", "dangling"}
    BY <1>1, <1>2, <2>4 DEF InitPerfCrucialFunc
  <2>6. reopenFailed' \in BOOLEAN /\ (reqFunc' = "dangling" => reopenFailed')
    BY <1>1, <1>2, <2>5
  <2> QED
    BY <1>1, <1>3, <1>4, <1>5, <1>6, <2>3, <2>5, <2>6
<1> QED
  BY <1>2, <1>7, <1>8 DEF SettingsRead

LEMMA SwitchesKept ==
  ASSUME switchStrs' = switchStrs, isRssExe' = isRssExe
  PROVE  \A lib : SwitchedOn(lib)' <=> SwitchedOn(lib)
  BY DEF SwitchedOn, Switching, FillinPluginInfo, SwitchNodeWrong, Earlier

LEMMA SwitchesRead ==
  ASSUME switchStrs \in SwitchStrings, NEW lib \in DOMAIN LibStates
  PROVE  lib \in LoadPlugin(SwitchFilesParsed(NoSwitches, switchStrs))
           <=> SwitchedOn(lib) /\ LibStates[lib] = "ok"
<1> DEFINE map == SwitchFilesParsed(NoSwitches, switchStrs)
<1>1. switchStrs \in Seq(SwitchFiles) /\ lib # NoName
  BY ConfigFilesTyped, ConfigAssumption
<1>2. On(map, lib) <=> SwitchedOn(lib)
  BY <1>1, SwitchFilesGive, LastSwitch
<1> HIDE DEF map
<1>3. lib \in LoadPlugin(map) <=> On(map, lib) /\ LoadOnePlugin(lib)
  BY DEF LoadPlugin, On
<1>4. LoadOnePlugin(lib) <=> LibStates[lib] = "ok"
  BY ConfigAssumption DEF LoadOnePlugin, CheckValidPlugin
<1> QED
  BY <1>2, <1>3, <1>4 DEF map

LEMMA ConfigInitInv == ConfigInit => ConfigInv
<1> SUFFICES ASSUME ConfigInit PROVE ConfigInv
  OBVIOUS
<1>1. IsSettings(NoSettings)
  BY DEF IsSettings, SettingsFields, NoSettings
<1>2. NoConfigs \in PluginMaps /\ NoSwitches \in SwitchMaps
  BY NoConfigsMap, SwitchMapTypes DEF NoSwitches
<1>3. ConfigTypes
  BY <1>1, <1>2 DEF ConfigInit, ConfigTypes, NoSwitches
<1>4. SocConfigsKept
  BY DEF ConfigInit, SocConfigsKept
<1> QED
  BY <1>3, <1>4 DEF ConfigInit, ConfigInv, ConfigsRead, PluginsAsSwitched, SettingsRead,
                    ReqFuncRight, NoSwitches

LEMMA ParseConfigReaderInv == ConfigInv /\ ParseConfigReader => ConfigInv'
<1> SUFFICES ASSUME ConfigInv, ParseConfigReader PROVE ConfigInv'
  OBVIOUS
<1>1. /\ ~configParsed /\ configParsed' = TRUE
      /\ allPluginConfigs' = FilesParsed(allPluginConfigs, configStrs)
      /\ UNCHANGED <<configStrs, switchStrs, isRssExe, switchParsed, pluginSwitchMap, loadedLibs,
                     socSettings, socEnabled, reqFunc, removedConfigs, reopenFailed>>
  BY DEF ParseConfigReader, FilesParsed
<1>2. /\ ConfigTypes /\ PluginsAsSwitched /\ SettingsRead /\ ReqFuncRight
      /\ ~switchParsed /\ allPluginConfigs = NoConfigs /\ removedConfigs = {} /\ socEnabled = FALSE
      /\ pluginSwitchMap = NoSwitches
      /\ SocConfigsKept
  BY <1>1 DEF ConfigInv, ConfigsRead
<1>3. configStrs \in Seq(PluginFiles)
  BY <1>2, ConfigFilesTyped DEF ConfigTypes
<1>4. /\ allPluginConfigs' \in PluginMaps
      /\ \A p, n : n # NoName => GetConfig(allPluginConfigs', p, n) = ConfiguredIn(configStrs, p, n)
  <2>1. \A p, n : n # NoName =>
          /\ FilesParsed(NoConfigs, configStrs) \in PluginMaps
          /\ GetConfig(FilesParsed(NoConfigs, configStrs), p, n) = ConfiguredIn(configStrs, p, n)
    BY <1>3, FilesGive DEF ConfiguredIn
  <2>2. "weak" # NoName
    BY DEF NoName
  <2> QED
    BY <1>1, <1>2, <2>1, <2>2
<1>5. ConfigsAsIn(configStrs', allPluginConfigs', removedConfigs')
  BY <1>1, <1>2, <1>4, NotNoName DEF ConfigsAsIn
<1>6. ConfigTypes'
  BY <1>1, <1>2, <1>4 DEF ConfigTypes
<1>7. SocConfigsKept'
  BY <1>1, <1>2 DEF SocConfigsKept
<1>8. ConfigsRead'
  BY <1>1, <1>2, <1>5, <1>7 DEF ConfigsRead
<1>9. SettingsRead' /\ ReqFuncRight' /\ PluginsAsSwitched'
  <2>1. ~SocConfigsRead
    BY <1>2 DEF SocConfigsRead, SocPerfConfigs
  <2>2. socSettings = NoSettings /\ ~socEnabled /\ reqFunc = "null"
    BY <1>2, <2>1 DEF SettingsRead
  <2>3. SettingsRead'
    BY <1>1, <1>7, <2>2 DEF SettingsRead
  <2> QED
    BY <1>1, <1>2, <2>2, <2>3 DEF ReqFuncRight, PluginsAsSwitched
<1> QED
  BY <1>6, <1>8, <1>9 DEF ConfigInv

LEMMA RemovePluginConfigInv ==
  ASSUME ConfigInv, NEW p \in DOMAIN allPluginConfigs, RemovePluginConfig(p)
  PROVE  ConfigInv'
<1>1. /\ switchParsed /\ p # SocPerfName
      /\ allPluginConfigs' = Without(allPluginConfigs, p)
      /\ removedConfigs' = removedConfigs \cup {<<p, n>> : n \in DOMAIN allPluginConfigs[p]}
      /\ UNCHANGED <<configStrs, switchStrs, isRssExe, configParsed, switchParsed, pluginSwitchMap,
                     loadedLibs, socSettings, socEnabled, reqFunc, reopenFailed>>
  BY DEF RemovePluginConfig, readerVars
<1>2. /\ ConfigTypes /\ PluginsAsSwitched /\ SettingsRead /\ ReqFuncRight
      /\ configParsed /\ ConfigsAsIn(configStrs, allPluginConfigs, removedConfigs)
  BY <1>1 DEF ConfigInv, ConfigsRead
<1>3. allPluginConfigs' \in PluginMaps
  BY <1>1, <1>2, WithoutTypes DEF ConfigTypes
<1>4. /\ \A r, n : r # p => (<<r, n>> \in removedConfigs' <=> <<r, n>> \in removedConfigs)
      /\ DOMAIN allPluginConfigs' = DOMAIN allPluginConfigs \ {p}
      /\ \A r, n : r # p => GetConfig(allPluginConfigs', r, n) = GetConfig(allPluginConfigs, r, n)
  BY <1>1 DEF Without, GetConfig
<1>5. ConfigsAsIn(configStrs', allPluginConfigs', removedConfigs')
  <2> SUFFICES ASSUME NEW r \in {SocPerfName} \cup DOMAIN allPluginConfigs', NEW n \in SocPerfConfigs
               PROVE  GetConfig(allPluginConfigs', r, n) =
                        IF <<r, n>> \in removedConfigs' THEN <<>> ELSE ConfiguredIn(configStrs, r, n)
    BY <1>1 DEF ConfigsAsIn
  <2>1. r # p /\ r \in {SocPerfName} \cup DOMAIN allPluginConfigs
    BY <1>1, <1>4
  <2>2. GetConfig(allPluginConfigs, r, n) =
          IF <<r, n>> \in removedConfigs THEN <<>> ELSE ConfiguredIn(configStrs, r, n)
    BY <1>2, <2>1 DEF ConfigsAsIn
  <2> QED
    BY <1>4, <2>1, <2>2
<1>6. ConfigTypes'
  BY <1>1, <1>2, <1>3 DEF ConfigTypes
<1>7. (SocConfigsRead' <=> SocConfigsRead) /\ (SocConfigsKept' <=> SocConfigsKept)
  BY <1>1, <1>4 DEF SocConfigsRead, SocConfigsKept
<1>8. ConfigsRead'
  BY <1>1, <1>2, <1>5 DEF ConfigsRead
<1>9. SettingsRead'
  BY <1>1, <1>2, <1>7 DEF SettingsRead
<1>10. ReqFuncRight'
  BY <1>1, <1>2 DEF ReqFuncRight
<1>11. PluginsAsSwitched'
  BY <1>1, <1>2, SwitchesKept DEF PluginsAsSwitched
<1> QED
  BY <1>6, <1>8, <1>9, <1>10, <1>11 DEF ConfigInv

LEMMA ParsePluginSwitchInv ==
  ASSUME ConfigInv, NEW opens \in BOOLEAN, NEW found \in BOOLEAN, ParsePluginSwitch(opens, found)
  PROVE  ConfigInv'
<1>1. /\ configParsed /\ ~switchParsed /\ switchParsed' = TRUE
      /\ pluginSwitchMap' = SwitchFilesParsed(pluginSwitchMap, switchStrs)
      /\ loadedLibs' = LoadPlugin(pluginSwitchMap')
      /\ socEnabled' = (SocPerfLib \in loadedLibs')
      /\ UNCHANGED <<configStrs, switchStrs, isRssExe, configParsed>>
  BY DEF ParsePluginSwitch, SwitchFilesParsed
<1>2. \/ socEnabled' /\ ReadSettings(opens, found)
      \/ ~socEnabled' /\ UNCHANGED <<allPluginConfigs, socSettings, reqFunc, removedConfigs, reopenFailed>>
  BY DEF ParsePluginSwitch
<1>3. /\ ConfigTypes /\ SettingsRead /\ ReqFuncRight /\ removedConfigs = {} /\ socEnabled = FALSE
      /\ pluginSwitchMap = NoSwitches /\ SocConfigsKept
      /\ ConfigsAsIn(configStrs, allPluginConfigs, removedConfigs)
  BY <1>1 DEF ConfigInv, ConfigsRead
<1>4. switchStrs \in Seq(SwitchFiles) /\ switchStrs \in SwitchStrings
  BY <1>3, ConfigFilesTyped DEF ConfigTypes
<1>5. PluginsAsSwitched'
  BY <1>1, <1>3, <1>4, SwitchesRead, SwitchesKept DEF PluginsAsSwitched
<1>6. pluginSwitchMap' \in SwitchMaps /\ loadedLibs' \subseteq DOMAIN pluginSwitchMap'
  <2>1. SocPerfName # NoName
    BY DEF SocPerfName, NoName
  <2>2. pluginSwitchMap' \in SwitchMaps
    BY <1>1, <1>3, <1>4, <2>1, SwitchFilesGive
  <2> QED
    BY <1>1, <2>2 DEF LoadPlugin
<1>7. socEnabled' \in BOOLEAN
  BY <1>1
<1>8. CASE socEnabled' /\ ReadSettings(opens, found)
  <2>1. /\ allPluginConfigs' \in PluginMaps /\ IsSettings(socSettings')
        /\ reqFunc' \in {"null", "valid", "dangling"} /\ reopenFailed' \in BOOLEAN
        /\ ConfigsAsIn(configStrs, allPluginConfigs', removedConfigs')
        /\ SocConfigsRead' /\ ButBoost(socSettings') = ButBoost(SettingsIn(configStrs))
        /\ reqFunc' # "null" => socSettings'.reqPath # 0
        /\ reqFunc' = "dangling" => reopenFailed'
    BY <1>1, <1>3, <1>8, ReadSettingsStep
  <2>2. ConfigTypes'
    BY <1>1, <1>3, <1>6, <1>7, <2>1 DEF ConfigTypes
  <2>3. ConfigsRead'
    BY <1>1, <2>1 DEF ConfigsRead
  <2>4. SettingsRead' /\ ReqFuncRight'
    BY <1>1, <2>1 DEF SettingsRead, ReqFuncRight
  <2> QED
    BY <1>5, <2>2, <2>3, <2>4 DEF ConfigInv
<1>9. CASE ~socEnabled' /\ UNCHANGED <<allPluginConfigs, socSettings, reqFunc, removedConfigs, reopenFailed>>
  <2>1. ConfigTypes'
    BY <1>1, <1>3, <1>6, <1>7, <1>9 DEF ConfigTypes
  <2>2. ConfigsRead'
    BY <1>1, <1>3, <1>9 DEF ConfigsRead
  <2>3. SocConfigsKept' /\ ~SocConfigsRead
    BY <1>3, <1>9 DEF SocConfigsKept, SocConfigsRead, SocPerfConfigs
  <2>4. SettingsRead' /\ ReqFuncRight'
    BY <1>1, <1>3, <1>9, <2>3 DEF SettingsRead, ReqFuncRight
  <2> QED
    BY <1>5, <2>1, <2>2, <2>4 DEF ConfigInv
<1> QED
  BY <1>2, <1>8, <1>9

LEMMA SocPerfDisableInv == ConfigInv /\ SocPerfDisable => ConfigInv'
<1> SUFFICES ASSUME ConfigInv, SocPerfDisable PROVE ConfigInv'
  OBVIOUS
<1>1. /\ socEnabled /\ socEnabled' = FALSE
      /\ reqFunc' = IF reqFunc = "valid" THEN "dangling" ELSE reqFunc
      /\ UNCHANGED <<configStrs, switchStrs, isRssExe, configParsed, switchParsed, pluginSwitchMap,
                     loadedLibs, allPluginConfigs, socSettings, removedConfigs, reopenFailed>>
  BY DEF SocPerfDisable, readerVars
<1>2. ConfigTypes'
  BY <1>1 DEF ConfigInv, ConfigTypes
<1>3. (SocConfigsRead' <=> SocConfigsRead) /\ (SocConfigsKept' <=> SocConfigsKept)
  BY <1>1 DEF SocConfigsRead, SocConfigsKept
<1>4. ConfigsRead'
  BY <1>1, <1>3 DEF ConfigInv, ConfigsRead
<1>5. SettingsRead'
  BY <1>1, <1>3 DEF ConfigInv, SettingsRead
<1>6. ReqFuncRight'
  BY <1>1 DEF ConfigInv, ReqFuncRight
<1>7. PluginsAsSwitched'
  BY <1>1, SwitchesKept DEF ConfigInv, PluginsAsSwitched
<1> QED
  BY <1>2, <1>4, <1>5, <1>6, <1>7 DEF ConfigInv

LEMMA SocPerfInitAgainInv ==
  ASSUME ConfigInv, NEW opens \in BOOLEAN, NEW found \in BOOLEAN, SocPerfInitAgain(opens, found)
  PROVE  ConfigInv'
<1>1. /\ switchParsed /\ ~socEnabled /\ socEnabled' = TRUE /\ ReadSettings(opens, found)
      /\ UNCHANGED <<configStrs, switchStrs, isRssExe, configParsed, switchParsed, pluginSwitchMap,
                     loadedLibs>>
  BY DEF SocPerfInitAgain, readerVars
<1>2. ConfigTypes /\ PluginsAsSwitched /\ configParsed
  BY <1>1 DEF ConfigInv, ConfigsRead
<1>3. /\ allPluginConfigs' \in PluginMaps /\ IsSettings(socSettings')
      /\ reqFunc' \in {"null", "valid", "dangling"} /\ reopenFailed' \in BOOLEAN
      /\ ConfigsAsIn(configStrs, allPluginConfigs', removedConfigs')
      /\ SocConfigsRead' /\ ButBoost(socSettings') = ButBoost(SettingsIn(configStrs))
      /\ reqFunc' # "null" => socSettings'.reqPath # 0
      /\ reqFunc' = "dangling" => reopenFailed'
  BY <1>1, <1>2, ReadSettingsStep
<1>4. ConfigTypes'
  BY <1>1, <1>2, <1>3 DEF ConfigTypes
<1>5. ConfigsRead'
  BY <1>1, <1>2, <1>3 DEF ConfigsRead
<1>6. SettingsRead' /\ ReqFuncRight'
  BY <1>1, <1>3 DEF SettingsRead, ReqFuncRight
<1>7. PluginsAsSwitched'
  BY <1>1, <1>2, SwitchesKept DEF PluginsAsSwitched
<1> QED
  BY <1>4, <1>5, <1>6, <1>7 DEF ConfigInv

LEMMA ConfigStutters == ConfigInv /\ UNCHANGED configVars => ConfigInv'
<1> SUFFICES ASSUME ConfigInv, UNCHANGED configVars PROVE ConfigInv'
  OBVIOUS
<1>1. UNCHANGED <<configStrs, switchStrs, isRssExe, configParsed, switchParsed, pluginSwitchMap,
                  loadedLibs, allPluginConfigs, socSettings, socEnabled, reqFunc, removedConfigs,
                  reopenFailed>>
  BY DEF configVars, readerVars
<1>2. ConfigTypes'
  BY <1>1 DEF ConfigInv, ConfigTypes
<1>3. (SocConfigsRead' <=> SocConfigsRead) /\ (SocConfigsKept' <=> SocConfigsKept)
  BY <1>1 DEF SocConfigsRead, SocConfigsKept
<1>4. ConfigsRead' /\ SettingsRead'
  BY <1>1, <1>3 DEF ConfigInv, ConfigsRead, SettingsRead
<1>5. ReqFuncRight'
  BY <1>1 DEF ConfigInv, ReqFuncRight
<1>6. PluginsAsSwitched'
  BY <1>1, SwitchesKept DEF ConfigInv, PluginsAsSwitched
<1> QED
  BY <1>2, <1>4, <1>5, <1>6 DEF ConfigInv

LEMMA ConfigNextInv == ConfigInv /\ [ConfigNext]_configVars => ConfigInv'
<1> SUFFICES ASSUME ConfigInv, [ConfigNext]_configVars PROVE ConfigInv'
  OBVIOUS
<1>1. CASE ParseConfigReader
  BY <1>1, ParseConfigReaderInv
<1>2. CASE \E p \in DOMAIN allPluginConfigs : RemovePluginConfig(p)
  BY <1>2, RemovePluginConfigInv
<1>3. CASE \E opens, found \in BOOLEAN : ParsePluginSwitch(opens, found)
  BY <1>3, ParsePluginSwitchInv
<1>4. CASE SocPerfDisable
  BY <1>4, SocPerfDisableInv
<1>5. CASE \E opens, found \in BOOLEAN : SocPerfInitAgain(opens, found)
  BY <1>5, SocPerfInitAgainInv
<1>6. CASE UNCHANGED configVars
  BY <1>6, ConfigStutters
<1> QED
  BY <1>1, <1>2, <1>3, <1>4, <1>5, <1>6 DEF ConfigNext

LEMMA ConfigInvRight == ConfigInv => ConfigRight
<1> SUFFICES ASSUME ConfigInv PROVE ConfigRight
  OBVIOUS
<1>1. ConfigIsLast
  BY ConfiguredIs DEF ConfigInv, ConfigsRead, ConfigIsLast, ConfigsAsIn
<1>2. SettingsKept
  <2> DEFINE files == [n \in SocPerfConfigs |-> Configured(SocPerfName, n)]
             again == [n \in SocPerfConfigs |-> ConfiguredIn(configStrs, SocPerfName, n)]
  <2>1. files = again
    BY ConfiguredIs
  <2>2. socEnabled => ButBoost(socSettings) = ButBoost(SocSettingsFrom(NoSettings, again))
    BY DEF ConfigInv, SettingsRead, SettingsIn
  <2> HIDE DEF files, again
  <2>3. socEnabled => ButBoost(socSettings) = ButBoost(SocSettingsFrom(NoSettings, files))
    BY <2>1, <2>2
  <2> QED
    BY <2>3 DEF SettingsKept, ButBoost, files
<1> QED
  BY <1>1, <1>2 DEF ConfigInv, ConfigRight, ReqFuncRight

(* ConfigReader, PluginSwitch and the settings of the SocPerf plugin, for  *)
(* any files and libraries: a plugin gets what the last good file that     *)
(* names its config says, exactly the plugins that the last node switches  *)
(* on and that work are loaded, the SocPerf plugin that is initialised     *)
(* again keeps its settings except the game boost switch, and it never     *)
(* holds a function of a closed library unless that could not be opened    *)
(* again (reopenFailed).                                                   *)
THEOREM ConfigurationIsRight == ConfigSpec => []ConfigRight
<1>1. ConfigSpec => []ConfigInv
  BY ConfigInitInv, ConfigNextInv, PTL DEF ConfigSpec
<1> QED
  BY <1>1, ConfigInvRight, PTL

-----------------------------------------------------------------------------
(* ExecutorInit.  Why an executor that took all of one send has its        *)
(* plugins: as long as it collected from one send only, ipcNumber_ counts  *)
(* what it took of that send, and when it took every fragment before the   *)
(* one that is sent next, ipcMessage_ holds them all.  So the count        *)
(* reaches the number of fragments with the whole text or not at all.      *)
SendsInv ==
  /\ fragments \in Nat \ {0} /\ ipcNumber \in Nat
  /\ sending \in [ExeSenders -> Nat] /\ delivered \in [ExeSenders -> Nat]
  /\ \A s \in ExeSenders : sending[s] <= fragments /\ (sending[s] > 0 => delivered[s] < sending[s])
CollectsInv ==
  ~isInit /\ ~mixed =>
    \/ /\ collectedFrom = {} /\ ipcNumber = 0 /\ ipcMessage = {}
       /\ \A s \in ExeSenders : delivered[s] = 0
    \/ /\ collectedFrom = {Gone}
       /\ \A s \in ExeSenders : delivered[s] = 0
    \/ \E s \in ExeSenders :
         /\ collectedFrom = {s} /\ ipcNumber = delivered[s]
         /\ delivered[s] + 1 = sending[s] => ipcMessage = 1..delivered[s]
         /\ \A t \in ExeSenders \ {s} : delivered[t] = 0
LoadedInv ==
  /\ wholeSent /\ ~mixed => isInit
  /\ isInit /\ ~oversize => pluginsLoaded
ExecutorInv == SendsInv /\ CollectsInv /\ LoadedInv

(* What CollectsInv says when a fragment of s arrives and does not mix.    *)
LEMMA CollectedAlone ==
  ASSUME SendsInv, CollectsInv, NEW s \in ExeSenders, ~isInit, ~mixed, collectedFrom \subseteq {s}
  PROVE  /\ ipcNumber = delivered[s] /\ \A t \in ExeSenders \ {s} : delivered[t] = 0
         /\ delivered[s] + 1 = sending[s] => ipcMessage = 1..delivered[s]
<1>1. \/ /\ collectedFrom = {} /\ ipcNumber = 0 /\ ipcMessage = {}
         /\ \A t \in ExeSenders : delivered[t] = 0
      \/ /\ collectedFrom = {Gone}
         /\ \A t \in ExeSenders : delivered[t] = 0
      \/ \E x \in ExeSenders :
           /\ collectedFrom = {x} /\ ipcNumber = delivered[x]
           /\ delivered[x] + 1 = sending[x] => ipcMessage = 1..delivered[x]
           /\ \A t \in ExeSenders \ {x} : delivered[t] = 0
  BY Zenon DEF CollectsInv
<1>2. CASE collectedFrom = {} /\ ipcNumber = 0 /\ ipcMessage = {} /\ \A t \in ExeSenders : delivered[t] = 0
  <2>1. 1..0 = {}
    OBVIOUS
  <2> QED
    BY <1>2, <2>1
<1>3. CASE collectedFrom = {Gone}
  BY <1>3, ExecutorAssumption
<1>4. ASSUME NEW x \in ExeSenders, collectedFrom = {x}, ipcNumber = delivered[x],
             delivered[x] + 1 = sending[x] => ipcMessage = 1..delivered[x],
             \A t \in ExeSenders \ {x} : delivered[t] = 0
      PROVE  /\ ipcNumber = delivered[s] /\ \A t \in ExeSenders \ {s} : delivered[t] = 0
             /\ delivered[s] + 1 = sending[s] => ipcMessage = 1..delivered[s]
  <2>1. x = s
    BY <1>4
  <2> QED
    BY <1>4, <2>1
<1> QED
  BY <1>1, <1>2, <1>3, <1>4, Zenon

(* A fragment that is not taken moves the sender on or ends its send.      *)
LEMMA UnsentStep ==
  ASSUME ExecutorInv, NEW s \in ExeSenders, sending[s] > 0,
         EndSend(s) \/ NextFragment(s), UNCHANGED <<fragments, oversize, executorVars, sendHistory>>
  PROVE  ExecutorInv'
<1> USE DEF executorVars, sendHistory
<1>1. /\ fragments' = fragments /\ ipcNumber' = ipcNumber /\ ipcMessage' = ipcMessage
      /\ delivered' = delivered /\ collectedFrom' = collectedFrom
  OBVIOUS
<1>2. (isInit => isInit') /\ (mixed => mixed') /\ LoadedInv'
  BY Zenon DEF ExecutorInv, LoadedInv
<1>3. /\ fragments \in Nat \ {0} /\ ipcNumber \in Nat
      /\ sending \in [ExeSenders -> Nat] /\ delivered \in [ExeSenders -> Nat]
      /\ \A t \in ExeSenders : sending[t] <= fragments /\ (sending[t] > 0 => delivered[t] < sending[t])
  BY DEF ExecutorInv, SendsInv
<1>4. \/ sending' = [sending EXCEPT ![s] = 0]
      \/ sending[s] # fragments /\ sending' = [sending EXCEPT ![s] = sending[s] + 1]
  BY DEF EndSend, NextFragment
<1>5. SendsInv'
  BY <1>1, <1>3, <1>4 DEF SendsInv
<1>6. \A t \in ExeSenders : delivered[t] + 1 = sending'[t] => delivered[t] + 1 = sending[t]
  <2> TAKE t \in ExeSenders
  <2>1. CASE t = s
    BY <1>3, <1>4, <2>1
  <2>2. CASE t # s
    BY <1>3, <1>4, <2>2
  <2> QED
    BY <2>1, <2>2
<1>7. CollectsInv'
  <2> SUFFICES ASSUME ~isInit', ~mixed'
               PROVE  CollectsInv'
    BY Zenon DEF CollectsInv
  <2>1. \/ /\ collectedFrom = {} /\ ipcNumber = 0 /\ ipcMessage = {}
           /\ \A t \in ExeSenders : delivered[t] = 0
        \/ /\ collectedFrom = {Gone}
           /\ \A t \in ExeSenders : delivered[t] = 0
        \/ \E x \in ExeSenders :
             /\ collectedFrom = {x} /\ ipcNumber = delivered[x]
             /\ delivered[x] + 1 = sending[x] => ipcMessage = 1..delivered[x]
             /\ \A t \in ExeSenders \ {x} : delivered[t] = 0
    <3>1. ~isInit /\ ~mixed /\ CollectsInv
      BY <1>2, Zenon DEF ExecutorInv
    <3> QED
      BY <3>1, Zenon DEF CollectsInv
  <2> QED
    BY <1>1, <1>6, <2>1, Zenon DEF CollectsInv
<1> QED
  BY <1>2, <1>5, <1>7 DEF ExecutorInv

(* InitPluginMgrPretreatment takes the fragment that s sends.              *)
LEMMA TakenStep ==
  ASSUME ExecutorInv, NEW s \in ExeSenders, sending[s] > 0,
         InitPluginMgrPretreatment(s, sending[s]), Taken(s, sending[s]), NextFragment(s),
         UNCHANGED <<fragments, oversize>>
  PROVE  ExecutorInv'
<1> DEFINE k == sending[s]
           d == delivered[s]
<1>1. /\ fragments \in Nat \ {0} /\ ipcNumber \in Nat
      /\ sending \in [ExeSenders -> Nat] /\ delivered \in [ExeSenders -> Nat]
      /\ \A t \in ExeSenders : sending[t] <= fragments /\ (sending[t] > 0 => delivered[t] < sending[t])
  BY DEF ExecutorInv, SendsInv
<1>2. /\ fragments' = fragments /\ delivered' = [delivered EXCEPT ![s] = d + 1]
      /\ k \in Nat /\ d \in Nat /\ d < k /\ k <= fragments
  BY <1>1 DEF Taken
<1>3. /\ ~oversize' => ~oversize
      /\ wholeSent' => wholeSent \/ (k = fragments /\ d + 1 = fragments)
  BY Zenon DEF Taken
<1>4. \/ sending' = [sending EXCEPT ![s] = 0]
      \/ k # fragments /\ sending' = [sending EXCEPT ![s] = k + 1]
  BY DEF NextFragment, EndSend
<1>5. ipcNumber' \in Nat
  <2>1. ipcNumber' = ipcNumber \/ ipcNumber' = 0 \/ ipcNumber' = ipcNumber + 1
    BY Zenon DEF InitPluginMgrPretreatment, executorVars
  <2> QED
    BY <1>1, <2>1
<1>6. SendsInv'
  BY <1>1, <1>2, <1>4, <1>5 DEF SendsInv
<1>7. CASE isInit
  <2>1. isInit' /\ mixed' = mixed /\ pluginsLoaded' = pluginsLoaded
    BY <1>7, Zenon DEF InitPluginMgrPretreatment, executorVars
  <2>2. CollectsInv'
    BY <2>1, Zenon DEF CollectsInv
  <2>3. LoadedInv'
    BY <1>3, <1>7, <2>1, Zenon DEF LoadedInv, ExecutorInv
  <2> QED
    BY <1>6, <2>2, <2>3 DEF ExecutorInv
<1>8. CASE ~isInit /\ fragments = 1
  <2>1. isInit' /\ (~oversize => pluginsLoaded')
    BY <1>8, Zenon DEF InitPluginMgrPretreatment, InitPluginMgr
  <2>2. CollectsInv' /\ LoadedInv'
    BY <1>3, <2>1, Zenon DEF CollectsInv, LoadedInv
  <2> QED
    BY <1>6, <2>2 DEF ExecutorInv
(* The last fragment of a send that did not mix completes the text.        *)
<1>9. CASE ~isInit /\ fragments # 1 /\ LastFragment
  <2>1. /\ isInit' = StringToJson(ipcMessage \cup {k})
        /\ pluginsLoaded' = (StringToJson(ipcMessage \cup {k}) /\ ~oversize)
        /\ mixed' = (mixed \/ collectedFrom \ {s} # {})
    BY <1>9, Zenon DEF InitPluginMgrPretreatment, InitPluginMgr
  <2>2. ASSUME ~mixed' PROVE StringToJson(ipcMessage \cup {k})
    <3>1. ~mixed /\ collectedFrom \subseteq {s}
      <4>1. ~mixed /\ collectedFrom \ {s} = {}
        BY <2>1, <2>2, Zenon
      <4> QED
        BY <4>1
    <3>2. ipcNumber = d /\ (d + 1 = k => ipcMessage = 1..d)
      BY <1>9, <3>1, CollectedAlone DEF ExecutorInv
    <3>3. k = fragments /\ d + 1 = k
      BY <1>1, <1>2, <1>9, <3>2 DEF LastFragment
    <3>4. (1..d) \cup {d + 1} = 1..(d + 1)
      BY <1>2
    <3> HIDE DEF k, d
    <3> QED
      BY <3>2, <3>3, <3>4 DEF StringToJson
  <2>3. CollectsInv'
    BY <2>1, <2>2, Zenon DEF CollectsInv
  <2>4. LoadedInv'
    BY <1>3, <2>1, <2>2, Zenon DEF LoadedInv
  <2> QED
    BY <1>6, <2>3, <2>4 DEF ExecutorInv
<1>10. CASE ~isInit /\ fragments # 1 /\ ~LastFragment
  <2>1. /\ ipcMessage' = ipcMessage \cup {k} /\ ipcNumber' = ipcNumber + 1
        /\ collectedFrom' = collectedFrom \cup {s}
    BY <1>10, Zenon DEF InitPluginMgrPretreatment, Collects
  <2>2. /\ mixed' = (mixed \/ collectedFrom \ {s} # {})
        /\ isInit' = isInit /\ pluginsLoaded' = pluginsLoaded
    BY <1>10, Zenon DEF InitPluginMgrPretreatment, Collects
  <2>3. ASSUME ~mixed'
        PROVE  /\ ~mixed /\ collectedFrom' = {s} /\ ipcNumber = d
               /\ d + 1 = k => ipcMessage = 1..d
               /\ \A t \in ExeSenders \ {s} : delivered[t] = 0
    <3>1. ~mixed /\ collectedFrom \ {s} = {}
      BY <2>2, <2>3, Zenon
    <3>2. collectedFrom \subseteq {s} /\ collectedFrom' = {s}
      BY <2>1, <3>1
    <3> QED
      BY <1>10, <3>1, <3>2, CollectedAlone DEF ExecutorInv
  <2>4. CollectsInv'
    <3> SUFFICES ASSUME ~mixed'
                 PROVE  /\ collectedFrom' = {s} /\ ipcNumber' = delivered'[s]
                        /\ delivered'[s] + 1 = sending'[s] => ipcMessage' = 1..delivered'[s]
                        /\ \A t \in ExeSenders \ {s} : delivered'[t] = 0
      BY Zenon DEF CollectsInv
    <3>1. /\ collectedFrom' = {s} /\ ipcNumber = d
          /\ d + 1 = k => ipcMessage = 1..d
          /\ \A t \in ExeSenders \ {s} : delivered[t] = 0
      BY <2>3
    <3>2. delivered'[s] = d + 1 /\ \A t \in ExeSenders \ {s} : delivered'[t] = delivered[t]
      BY <1>1, <1>2
    <3>3. delivered'[s] + 1 = sending'[s] => d + 1 = k
      BY <1>1, <1>2, <1>4, <3>2
    <3>4. (1..d) \cup {d + 1} = 1..(d + 1)
      BY <1>2
    <3> HIDE DEF k, d
    <3>5. d + 1 = k => ipcMessage' = 1..(d + 1)
      BY <2>1, <3>1, <3>4
    <3> QED
      BY <2>1, <3>1, <3>2, <3>3, <3>5
  <2>5. ASSUME ~mixed' PROVE ~(k = fragments /\ d + 1 = fragments)
    BY <1>10, <2>3, <2>5 DEF LastFragment
  <2>6. LoadedInv'
    BY <1>3, <2>2, <2>3, <2>5, Zenon DEF LoadedInv, ExecutorInv
  <2> QED
    BY <1>6, <2>4, <2>6 DEF ExecutorInv
<1> QED
  BY <1>7, <1>8, <1>9, <1>10

LEMMA ExecutorStep ==
  ASSUME ExecutorInv, [ExecutorInitNext]_executorInitVars
  PROVE  ExecutorInv'
<1> USE DEF executorVars, sendHistory, senderVars
<1>0. /\ fragments \in Nat \ {0} /\ ipcNumber \in Nat
      /\ sending \in [ExeSenders -> Nat] /\ delivered \in [ExeSenders -> Nat]
      /\ \A t \in ExeSenders : sending[t] <= fragments /\ (sending[t] > 0 => delivered[t] < sending[t])
  BY DEF ExecutorInv, SendsInv
<1>1. ASSUME NEW s \in ExeSenders, SendRequestInner(s) PROVE ExecutorInv'
  <2>1. sending[s] > 0 /\ UNCHANGED <<fragments, oversize>>
    BY <1>1 DEF SendRequestInner
  <2>2. \/ (EndSend(s) \/ NextFragment(s)) /\ UNCHANGED <<executorVars, sendHistory>>
        \/ InitPluginMgrPretreatment(s, sending[s]) /\ Taken(s, sending[s]) /\ NextFragment(s)
    BY <1>1, Zenon DEF SendRequestInner
  <2>3. CASE (EndSend(s) \/ NextFragment(s)) /\ UNCHANGED <<executorVars, sendHistory>>
    BY <2>1, <2>3, UnsentStep, Zenon
  <2>4. CASE InitPluginMgrPretreatment(s, sending[s]) /\ Taken(s, sending[s]) /\ NextFragment(s)
    BY <2>1, <2>4, TakenStep, Zenon
  <2> QED
    BY <2>2, <2>3, <2>4
(* A new send of s: what was collected of its last one is of a send that   *)
(* ended.                                                                  *)
<1>2. ASSUME NEW s \in ExeSenders, InitExecutorPlugin(s) PROVE ExecutorInv'
  <2>1. /\ sending' = [sending EXCEPT ![s] = 1] /\ delivered' = [delivered EXCEPT ![s] = 0]
        /\ collectedFrom' = IF s \in collectedFrom
                              THEN (collectedFrom \ {s}) \cup {Gone} ELSE collectedFrom
        /\ fragments' = fragments /\ ipcNumber' = ipcNumber /\ ipcMessage' = ipcMessage
    BY <1>2 DEF InitExecutorPlugin
  <2>2. (isInit => isInit') /\ (mixed => mixed') /\ LoadedInv'
    BY <1>2, Zenon DEF InitExecutorPlugin, ExecutorInv, LoadedInv
  <2>3. SendsInv'
    BY <1>0, <2>1 DEF SendsInv
  <2>4. CollectsInv'
    <3> SUFFICES ASSUME ~isInit', ~mixed'
                 PROVE  CollectsInv'
      BY Zenon DEF CollectsInv
    <3>1. ~isInit /\ ~mixed /\ CollectsInv
      BY <2>2, Zenon DEF ExecutorInv
    <3>2. /\ delivered'[s] = 0 /\ \A t \in ExeSenders \ {s} : delivered'[t] = delivered[t]
          /\ \A t \in ExeSenders \ {s} : sending'[t] = sending[t]
      BY <1>0, <2>1
    <3>3. CASE collectedFrom = {} /\ ipcNumber = 0 /\ ipcMessage = {} /\ \A t \in ExeSenders : delivered[t] = 0
      <4>1. /\ collectedFrom' = {} /\ ipcNumber' = 0 /\ ipcMessage' = {}
            /\ \A t \in ExeSenders : delivered'[t] = 0
        BY <2>1, <3>2, <3>3
      <4> QED
        BY <4>1, Zenon DEF CollectsInv
    <3>4. CASE collectedFrom = {Gone} /\ \A t \in ExeSenders : delivered[t] = 0
      <4>1. collectedFrom' = {Gone} /\ \A t \in ExeSenders : delivered'[t] = 0
        BY <2>1, <3>2, <3>4
      <4> QED
        BY <4>1, Zenon DEF CollectsInv
    <3>5. ASSUME NEW x \in ExeSenders, collectedFrom = {x}, ipcNumber = delivered[x],
                 delivered[x] + 1 = sending[x] => ipcMessage = 1..delivered[x],
                 \A t \in ExeSenders \ {x} : delivered[t] = 0
          PROVE  CollectsInv'
      <4>1. CASE x = s
        <5>1. collectedFrom' = {Gone} /\ \A t \in ExeSenders : delivered'[t] = 0
          BY <2>1, <3>2, <3>5, <4>1
        <5> QED
          BY <5>1, Zenon DEF CollectsInv
      <4>2. CASE x # s
        <5>1. /\ collectedFrom' = {x} /\ ipcNumber' = delivered'[x]
              /\ delivered'[x] + 1 = sending'[x] => ipcMessage' = 1..delivered'[x]
              /\ \A t \in ExeSenders \ {x} : delivered'[t] = 0
          BY <2>1, <3>2, <3>5, <4>2
        <5> QED
          BY <5>1, Zenon DEF CollectsInv
      <4> QED
        BY <4>1, <4>2
    <3> QED
      BY <3>1, <3>3, <3>4, <3>5, Zenon DEF CollectsInv
  <2> QED
    BY <2>2, <2>3, <2>4 DEF ExecutorInv
<1>3. CASE StopRemoteExe \/ RequestSync \/ RequestAsync \/ (\E pid \in 0..1 : KillProcess(pid))
           \/ ExeStarts \/ UNCHANGED executorInitVars
  <2>1. /\ fragments' = fragments /\ ipcNumber' = ipcNumber /\ ipcMessage' = ipcMessage
        /\ delivered' = delivered /\ collectedFrom' = collectedFrom /\ sending' = sending
        /\ isInit' = isInit /\ mixed' = mixed /\ wholeSent' = wholeSent
        /\ oversize' = oversize /\ pluginsLoaded' = pluginsLoaded
    BY <1>3, Zenon DEF StopRemoteExe, RequestSync, RequestAsync, KillProcess, ExeRequest, ExeStarts,
       executorInitVars
  <2> QED
    BY <2>1, Zenon DEF ExecutorInv, SendsInv, CollectsInv, LoadedInv
<1>4. CASE ExeDies
  <2>1. /\ ipcNumber' = 0 /\ ipcMessage' = {} /\ collectedFrom' = {}
        /\ delivered' = [t \in ExeSenders |-> 0] /\ sending' = sending /\ fragments' = fragments
    BY <1>4 DEF ExeDies
  <2>2. ~isInit' /\ ~wholeSent'
    BY <1>4, Zenon DEF ExeDies
  <2>3. SendsInv'
    BY <1>0, <2>1 DEF SendsInv
  <2>4. \A t \in ExeSenders : delivered'[t] = 0
    BY <2>1
  <2>5. CollectsInv' /\ LoadedInv'
    BY <2>1, <2>2, <2>4, Zenon DEF CollectsInv, LoadedInv
  <2> QED
    BY <2>3, <2>5 DEF ExecutorInv
<1>5. CASE RssDies
  <2>1. /\ ipcNumber' = ipcNumber /\ ipcMessage' = ipcMessage /\ fragments' = fragments
        /\ collectedFrom' = IF collectedFrom = {} THEN {} ELSE {Gone}
        /\ delivered' = [t \in ExeSenders |-> 0]
        /\ sending' = [t \in ExeSenders |-> IF t = StartSender THEN 1 ELSE 0]
    BY <1>5 DEF RssDies
  <2>2. (isInit => isInit') /\ (mixed => mixed') /\ LoadedInv'
    BY <1>5, Zenon DEF RssDies, ExecutorInv, LoadedInv
  <2>3. SendsInv'
    BY <1>0, <2>1 DEF SendsInv
  <2>4. \A t \in ExeSenders : delivered'[t] = 0
    BY <2>1
  <2>5. ASSUME ~isInit, ~mixed, collectedFrom = {} PROVE ipcNumber = 0 /\ ipcMessage = {}
    <3>1. \/ ipcNumber = 0 /\ ipcMessage = {}
          \/ collectedFrom = {Gone} \/ \E x \in ExeSenders : collectedFrom = {x}
      BY <2>5, Zenon DEF ExecutorInv, CollectsInv
    <3> QED
      BY <2>5, <3>1
  <2>6. CollectsInv'
    BY <2>1, <2>2, <2>4, <2>5, Zenon DEF CollectsInv
  <2> QED
    BY <2>2, <2>3, <2>6 DEF ExecutorInv
<1> QED
  BY <1>1, <1>2, <1>3, <1>4, <1>5, Zenon DEF ExecutorInitNext

LEMMA ExecutorStart == ExecutorInitially => ExecutorInv
<1> SUFFICES ASSUME ExecutorInitially PROVE ExecutorInv
  OBVIOUS
<1>1. /\ fragments \in FragmentCounts /\ ipcNumber = 0 /\ ipcMessage = {} /\ collectedFrom = {}
      /\ delivered = [t \in ExeSenders |-> 0]
      /\ sending = [t \in ExeSenders |-> IF t = StartSender THEN 1 ELSE 0]
  BY DEF ExecutorInitially
<1>2. ~isInit /\ ~wholeSent
  BY Zenon DEF ExecutorInitially
<1>3. SendsInv
  BY <1>1, ExecutorAssumption DEF SendsInv
<1>4. \A t \in ExeSenders : delivered[t] = 0
  BY <1>1
<1>5. CollectsInv /\ LoadedInv
  BY <1>1, <1>2, <1>4, Zenon DEF CollectsInv, LoadedInv
<1> QED
  BY <1>3, <1>5 DEF ExecutorInv

-----------------------------------------------------------------------------
(* OobeManager.  Why the tasks run: a task is either in oobeTasks_ or has  *)
(* run, and the list is empty once the agreement is known.  Until then an  *)
(* observer that is registered has the delayed check before its first      *)
(* value; after it, a change to deliver or a reader that will meet the     *)
(* agreement; and an agreement nobody was told of found every reader       *)
(* before its query.                                                       *)
OobeDataInv ==
  /\ oobeValue \in {"INVALID", "IS_FALSE", "IS_TRUE"}
  /\ oobeTasks \subseteq submitted /\ submitted \subseteq OobeTasks
  /\ ran \in [OobeTasks -> Nat] /\ dataShareFunctions \in Nat
  /\ reader \in [Readers -> {"idle", "read", "0", "1", "register"} \cup Errors]
  /\ reader["check"] \in Errors => excuse # {}
TasksInv ==
  /\ \A t \in OobeTasks : ran[t] = IF t \in submitted /\ t \notin oobeTasks THEN 1 ELSE 0
  /\ \A t \in OobeTasks : ran[t] = 1 => agreed
  /\ oobeValue = "IS_TRUE" => agreed /\ oobeTasks = {}
  /\ \A r \in Readers : reader[r] = "1" => agreed
HiddenInv ==
  /\ observer /\ oobeValue = "INVALID" /\ excuse = {} => retry # NoRetry
  /\ agreed /\ excuse = {} /\ oobeValue = "IS_FALSE" =>
       \/ observer /\ changeNotice
       \/ reader["change"] \in {"read", "1"}
       \/ ~observer /\ \A r \in Readers : reader[r] \in {"idle", "read", "1"}
PutOffInv ==
  /\ readyCallback # "none" => isDataShareReady
  /\ readyCallback = "done" => dataShareFunctions = 0
OobeInv == OobeDataInv /\ TasksInv /\ HiddenInv /\ PutOffInv

(* What each action of OobeManager leaves of the data.                     *)
LEMMA OobeDataStep ==
  ASSUME OobeInv, OobeNext
  PROVE  OobeDataInv' /\ PutOffInv'
<1> USE DEF OobeInv, OobeDataInv, PutOffInv, Readers, Errors
<1>1. ASSUME NEW r \in Readers, GetValue(r) PROVE OobeDataInv' /\ PutOffInv'
  BY <1>1 DEF GetValue
<1>2. ASSUME NEW r \in Readers, FlushOobeValue(r) PROVE OobeDataInv' /\ PutOffInv'
  BY <1>2 DEF FlushOobeValue, AfterFlush
<1>3. ASSUME NEW r \in {"listen", "reregister"}, RegisterObserver(r) PROVE OobeDataInv' /\ PutOffInv'
  BY <1>3 DEF RegisterObserver
<1>4. ASSUME StartListen PROVE OobeDataInv' /\ PutOffInv'
  BY <1>4 DEF StartListen
<1>5. ASSUME UnregisterObserver PROVE OobeDataInv' /\ PutOffInv'
  BY <1>5 DEF UnregisterObserver
<1>6. ASSUME OnReceiveDataShareReadyCallBack PROVE OobeDataInv' /\ PutOffInv'
  <2>1. OobeDataInv' /\ (readyCallback' = "done" => dataShareFunctions' = 0)
    BY <1>6 DEF OnReceiveDataShareReadyCallBack
  <2>2. isDataShareReady'
    BY <1>6, Zenon DEF OnReceiveDataShareReadyCallBack
  <2> QED
    BY <2>1, <2>2
<1>7. ASSUME ExecuteDataShareFunction PROVE OobeDataInv' /\ PutOffInv'
  BY <1>7 DEF ExecuteDataShareFunction
<1>8. ASSUME OnChange PROVE OobeDataInv' /\ PutOffInv'
  BY <1>8 DEF OnChange
<1>9. ASSUME CheckOobeValue PROVE OobeDataInv' /\ PutOffInv'
  BY <1>9 DEF CheckOobeValue
<1>10. ASSUME NEW t \in OobeTasks, SubmitTask(t) PROVE OobeDataInv' /\ PutOffInv'
  BY <1>10 DEF SubmitTask
<1>11. ASSUME UserAgrees PROVE OobeDataInv' /\ PutOffInv'
  BY <1>11 DEF UserAgrees
<1> QED
  BY <1>1, <1>2, <1>3, <1>4, <1>5, <1>6, <1>7, <1>8, <1>9, <1>10, <1>11, Zenon DEF OobeNext

LEMMA OobeTasksStep ==
  ASSUME OobeInv, OobeNext
  PROVE  TasksInv'
<1> USE DEF OobeInv, OobeDataInv, TasksInv, Readers, Errors
<1>1. ASSUME NEW r \in Readers, GetValue(r) PROVE TasksInv'
  BY <1>1 DEF GetValue
<1>2. ASSUME NEW r \in Readers, FlushOobeValue(r) PROVE TasksInv'
  BY <1>2 DEF FlushOobeValue, AfterFlush
<1>3. ASSUME NEW r \in {"listen", "reregister"}, RegisterObserver(r) PROVE TasksInv'
  BY <1>3 DEF RegisterObserver
<1>4. ASSUME StartListen PROVE TasksInv'
  BY <1>4 DEF StartListen
<1>5. ASSUME UnregisterObserver PROVE TasksInv'
  BY <1>5 DEF UnregisterObserver
<1>6. ASSUME OnReceiveDataShareReadyCallBack PROVE TasksInv'
  BY <1>6 DEF OnReceiveDataShareReadyCallBack
<1>7. ASSUME ExecuteDataShareFunction PROVE TasksInv'
  BY <1>7 DEF ExecuteDataShareFunction
<1>8. ASSUME OnChange PROVE TasksInv'
  BY <1>8 DEF OnChange
<1>9. ASSUME CheckOobeValue PROVE TasksInv'
  BY <1>9 DEF CheckOobeValue
<1>10. ASSUME NEW t \in OobeTasks, SubmitTask(t) PROVE TasksInv'
  BY <1>10 DEF SubmitTask
<1>11. ASSUME UserAgrees PROVE TasksInv'
  BY <1>11 DEF UserAgrees
<1> QED
  BY <1>1, <1>2, <1>3, <1>4, <1>5, <1>6, <1>7, <1>8, <1>9, <1>10, <1>11, Zenon DEF OobeNext

LEMMA OobeHiddenStep ==
  ASSUME OobeInv, OobeNext
  PROVE  HiddenInv'
<1> USE DEF OobeInv, OobeDataInv, TasksInv, HiddenInv, Readers, Errors
<1>1. ASSUME NEW r \in Readers, GetValue(r) PROVE HiddenInv'
  BY <1>1 DEF GetValue
<1>2. ASSUME NEW r \in Readers, FlushOobeValue(r) PROVE HiddenInv'
  BY <1>2 DEF FlushOobeValue, AfterFlush
<1>3. ASSUME NEW r \in {"listen", "reregister"}, RegisterObserver(r) PROVE HiddenInv'
  <2>1. oobeValue' = oobeValue /\ excuse' = excuse /\ reader'["change"] = reader["change"]
    BY <1>3 DEF RegisterObserver
  <2>2. (agreed' <=> agreed) /\ (changeNotice' <=> changeNotice)
    BY <1>3, Zenon DEF RegisterObserver
  <2>3. observer => observer'
    BY <1>3, Zenon DEF RegisterObserver
  <2>4. observer' => (observer /\ retry' = retry) \/ retry' # NoRetry
    <3>1. CASE UNCHANGED observer /\ UNCHANGED retry
      BY <3>1, Zenon
    <3>2. ASSUME NEW helper \in BOOLEAN, observer' = (helper \/ observer),
                 retry' = IF helper THEN 0 ELSE retry
          PROVE  observer' => (observer /\ retry' = retry) \/ retry' # NoRetry
      <4>1. CASE helper
        BY <3>2, <4>1 DEF NoRetry
      <4>2. CASE ~helper
        BY <3>2, <4>2, Zenon
      <4> QED
        BY <4>1, <4>2
    <3> QED
      BY <1>3, <3>1, <3>2, Zenon DEF RegisterObserver
  <2>5. ~(reader[r] \in {"idle", "read", "1"})
    BY <1>3 DEF RegisterObserver
  <2>6. observer' /\ oobeValue' = "INVALID" /\ excuse' = {} => retry' # NoRetry
    BY <2>1, <2>4
  <2>7. agreed' /\ excuse' = {} /\ oobeValue' = "IS_FALSE" =>
          (observer' /\ changeNotice') \/ reader'["change"] \in {"read", "1"}
    BY <2>1, <2>2, <2>3, <2>5
  <2> QED
    BY <2>6, <2>7
<1>4. ASSUME StartListen PROVE HiddenInv'
  BY <1>4 DEF StartListen
<1>5. ASSUME UnregisterObserver PROVE HiddenInv'
  BY <1>5 DEF UnregisterObserver
<1>6. ASSUME OnReceiveDataShareReadyCallBack PROVE HiddenInv'
  BY <1>6 DEF OnReceiveDataShareReadyCallBack
<1>7. ASSUME ExecuteDataShareFunction PROVE HiddenInv'
  BY <1>7 DEF ExecuteDataShareFunction
<1>8. ASSUME OnChange PROVE HiddenInv'
  BY <1>8 DEF OnChange
<1>9. ASSUME CheckOobeValue PROVE HiddenInv'
  BY <1>9 DEF CheckOobeValue
<1>10. ASSUME NEW t \in OobeTasks, SubmitTask(t) PROVE HiddenInv'
  BY <1>10 DEF SubmitTask
<1>11. ASSUME UserAgrees PROVE HiddenInv'
  BY <1>11 DEF UserAgrees
<1> QED
  BY <1>1, <1>2, <1>3, <1>4, <1>5, <1>6, <1>7, <1>8, <1>9, <1>10, <1>11, Zenon DEF OobeNext

LEMMA OobeStep ==
  ASSUME OobeInv, [OobeNext]_oobeVars
  PROVE  OobeInv'
<1>1. CASE UNCHANGED oobeVars
  BY <1>1 DEF OobeInv, OobeDataInv, TasksInv, HiddenInv, PutOffInv, oobeVars
<1>2. CASE OobeNext
  BY <1>2, OobeDataStep, OobeTasksStep, OobeHiddenStep DEF OobeInv
<1> QED
  BY <1>1, <1>2

LEMMA OobeStart == OobeInit => OobeInv
<1> SUFFICES ASSUME OobeInit PROVE OobeInv
  OBVIOUS
<1>1. OobeDataInv /\ PutOffInv
  BY DEF OobeInit, OobeDataInv, PutOffInv, Readers, Errors
<1>2. TasksInv
  BY DEF OobeInit, TasksInv, Readers
<1>3. HiddenInv
  BY DEF OobeInit, HiddenInv, Readers
<1> QED
  BY <1>1, <1>2, <1>3 DEF OobeInv

LEMMA OobeGivesTasks == OobeInv => OobeTasksRun /\ OobeNotForgotten
<1> SUFFICES ASSUME OobeInv PROVE OobeTasksRun /\ OobeNotForgotten
  OBVIOUS
<1>1. OobeNotForgotten
  BY DEF OobeInv, PutOffInv, OobeDataInv, OobeNotForgotten
<1>2. OobeTasksRun
  BY DEF OobeInv, OobeDataInv, TasksInv, HiddenInv, OobeTasksRun, Readers
<1> QED
  BY <1>1, <1>2

-----------------------------------------------------------------------------
(* The type invariants that MCParts checks.                                *)
LEMMA FocusStartType == FocusInit => FocusTypeOK
  BY DEF FocusInit, FocusTypeOK

LEMMA FocusStepType ==
  ASSUME FocusTypeOK, [FocusNext]_sfVars
  PROVE  FocusTypeOK'
<1> USE DEF FocusTypeOK, focusState, libState, custState, weakState
<1>1. ASSUME NEW u \in Uids, NEW p \in BOOLEAN, UpdateFocusAppType(u, p) PROVE FocusTypeOK'
  BY <1>1 DEF UpdateFocusAppType, UpdateWeakActionStatus, Remembered, UpdatesFocusAppsType
<1>2. ASSUME NEW u \in Uids, HandleWindowUnfocus(u) PROVE FocusTypeOK'
  BY <1>2 DEF HandleWindowUnfocus, UpdateWeakActionStatus, IsFocusAppsAllGame
<1>3. ASSUME NEW u \in Uids, HandleAppAbilityStart(u) PROVE FocusTypeOK'
  BY <1>3 DEF HandleAppAbilityStart
<1>4. ASSUME NEW u \in Uids, HandleAppStateChange(u) PROVE FocusTypeOK'
  BY <1>4 DEF HandleAppStateChange, HandleAppAbilityStart
<1>5. ASSUME NEW u \in Uids, HandleUninstallEvent(u) PROVE FocusTypeOK'
  BY <1>5 DEF HandleUninstallEvent
<1>6. ASSUME NEW u \in Uids, HandleDeadProcess(u) PROVE FocusTypeOK'
  BY <1>6 DEF HandleDeadProcess
<1>7. ASSUME NEW u \in CustGames, NEW f \in BOOLEAN, HandleGameStateChange(u, f)
      PROVE  FocusTypeOK'
  BY <1>7, FocusAssumption DEF HandleGameStateChange, UpdateCustGameState, UpdateWeakActionStatus
<1>8. ASSUME NEW e \in BOOLEAN, NEW f \in BOOLEAN, NEW ts \in SUBSET KeyTypes,
             HandleRssCloudConfigUpdate(e, ts, f)
      PROVE  FocusTypeOK'
  BY <1>8 DEF HandleRssCloudConfigUpdate, UpdateWeakActionStatus
<1>9. CASE ReportAbilityStatus
  BY <1>9 DEF ReportAbilityStatus, UpdateWeakActionStatus
<1>10. CASE InitFeatureSwitch
  BY <1>10 DEF InitFeatureSwitch
<1>11. ASSUME NEW u \in Uids, HandleEventClick(u) PROVE FocusTypeOK'
  BY <1>11 DEF HandleEventClick, HandleMoveEventBoost, OnlyRequests
<1>12. ASSUME NEW u \in Uids, NEW s \in {"ON", "OFF", "FLING_END", "BEGIN", "END", "MOVE"},
              HandleEventSlide(u, s)
       PROVE  FocusTypeOK'
  BY <1>12 DEF HandleEventSlide, HandleContinuousDrag, HandleMoveEventBoost
<1>13. ASSUME NEW f \in BOOLEAN, HandleSwiperFlingEndEx(f) PROVE FocusTypeOK'
  BY <1>13 DEF HandleSwiperFlingEndEx
<1>14. ASSUME NEW c \in BOOLEAN, HandleCameraStateChange(c) PROVE FocusTypeOK'
  BY <1>14 DEF HandleCameraStateChange, OnlyRequests
<1>15. CASE UNCHANGED sfVars
  BY <1>15 DEF sfVars
<1> QED
  BY <1>1, <1>2, <1>3, <1>4, <1>5, <1>6, <1>7, <1>8, <1>9, <1>10, <1>11, <1>12, <1>13, <1>14,
     <1>15 DEF FocusNext

(* Only the requests of the tables are ever on: the open scenes explain    *)
(* them.                                                                   *)
SceneFlags == inited \in BOOLEAN /\ begun \subseteq Scenes /\ lost \subseteq Scenes
LEMMA EventsStepType ==
  ASSUME SceneFlags, [EventsNext]_seVars
  PROVE  SceneFlags'
<1> USE DEF SceneFlags
<1>1. ASSUME NEW t \in Scenes, NEW v \in {"begin", "end", "other"}, DispatchResource(t, v)
      PROVE  SceneFlags'
  <2>1. begun' \subseteq begun \cup {t} /\ lost' \subseteq lost \cup {t} /\ inited' = inited
    BY <1>1 DEF DispatchResource
  <2> QED
    BY <2>1
<1>2. CASE PluginInit \/ PluginDisable \/ UNCHANGED seVars
  BY <1>2 DEF PluginInit, PluginDisable, seVars
<1> QED
  BY <1>1, <1>2 DEF EventsNext

LEMMA EventsTyped == SceneFlags /\ OnlyOpenScenes => EventsTypeOK
<1> SUFFICES ASSUME SceneFlags, OnlyOpenScenes PROVE EventsTypeOK
  OBVIOUS
<1> DEFINE Of(t) == FunctionMap(t, {}, "begin")
<1>1. /\ Of("ACCOUNT_ACTIVATING") = {"ACCOUNT_ACTIVATING"}
      /\ Of("RGM_BOOTING_STATUS") = {"RGM_BOOTING_START"}
      /\ Of("APP_GAME_BOOST_EVENT") = {"GAME_BOOST"}
      /\ Of("SOCPERF_CUST_EVENT_BEGIN") = {"CUST"}
  BY DEF FunctionMap, AddEventToFunctionMap, HandleSocperfAccountActivating,
         HandleRgmBootingStatus,
         HandleGameBoost, HandleCustEventBegin, OnOff
<1>2. {"ACCOUNT_ACTIVATING", "RGM_BOOTING_STATUS", "APP_GAME_BOOST_EVENT",
       "SOCPERF_CUST_EVENT_BEGIN"} \subseteq Scenes
  BY DEF Scenes, ResTypes, OtherResTypes
<1> HIDE DEF Of
<1>3. RunOut \subseteq UNION {Of(t) : t \in Scenes}
  BY <1>1, <1>2 DEF RunOut
<1>4. begun \cup lost \subseteq Scenes
  BY DEF SceneFlags
<1>5. UNION {Of(t) : t \in begun \cup lost} \subseteq UNION {Of(t) : t \in Scenes}
  BY <1>4
<1>6. EventRequests = UNION {Of(t) : t \in Scenes} /\ Explained = (UNION {Of(t) : t \in begun \cup lost}) \cup RunOut
  BY DEF EventRequests, Explained, Of
<1>7. seOn \subseteq EventRequests
  BY <1>3, <1>5, <1>6 DEF OnlyOpenScenes
<1> QED
  BY <1>7 DEF EventsTypeOK, SceneFlags

LEMMA ConfigTyped == ConfigInv => ConfigTypeOK
<1> SUFFICES ASSUME ConfigInv PROVE ConfigTypeOK
  OBVIOUS
<1>1. ConfigTypes
  BY DEF ConfigInv
<1>2. \A p \in DOMAIN allPluginConfigs : \A n \in DOMAIN allPluginConfigs[p] :
        Len(allPluginConfigs[p][n]) \in Nat
  <2> TAKE p \in DOMAIN allPluginConfigs
  <2> TAKE n \in DOMAIN allPluginConfigs[p]
  <2>1. allPluginConfigs[p] \in ItemMaps
    BY <1>1, MapTypes DEF ConfigTypes
  <2>2. allPluginConfigs[p][n] \in Seq(ConfigItems)
    BY <2>1, MapTypes
  <2> QED
    BY <2>2
<1>3. \A l \in DOMAIN pluginSwitchMap : pluginSwitchMap[l] \in BOOLEAN
  BY <1>1, SwitchMapTypes DEF ConfigTypes
<1>4. DOMAIN socSettings = DOMAIN NoSettings
  <2> DEFINE F == SettingsFields
  <2> HIDE DEF F
  <2>1. socSettings = [x \in F |-> socSettings[x]]
    BY <1>1 DEF ConfigTypes, IsSettings, F
  <2>2. DOMAIN socSettings = F
    BY <2>1
  <2> QED
    BY <2>2 DEF F, SettingsFields
<1> QED
  BY <1>1, <1>2, <1>3, <1>4 DEF ConfigTypes, ConfigTypeOK

(* The types of OobeManager: the delayed check that runs has a retry left. *)
OobeFlags ==
  /\ agreed \in BOOLEAN /\ isConnectDataShareSucc \in BOOLEAN
  /\ isDataShareReady \in BOOLEAN /\ observer \in BOOLEAN /\ changeNotice \in BOOLEAN
OobeFields ==
  /\ readyCallback \in {"none", "set", "done"}
  /\ retry \in 0..MAX_RETRY_COUNT \cup {NoRetry}
  /\ reader["check"] # "idle" => retry \in Nat /\ retry < MAX_RETRY_COUNT
  /\ listens \in 0..MaxListens
  /\ excuse \subseteq {"gap", "stale", "error", "retries"}

LEMMA OobeStartType == OobeInit => OobeFlags /\ OobeFields
<1>1. OobeInit => OobeFlags
  BY Zenon DEF OobeInit, OobeFlags
<1>2. OobeInit => OobeFields
  BY OobeAssumption DEF OobeInit, OobeFields, Readers, NoRetry
<1> QED
  BY <1>1, <1>2

LEMMA OobeStepFlags ==
  ASSUME OobeFlags, [OobeNext]_oobeVars
  PROVE  OobeFlags'
<1>1. ASSUME NEW r \in Readers, GetValue(r) PROVE OobeFlags'
  BY <1>1, Zenon DEF GetValue, OobeFlags
<1>2. ASSUME NEW r \in Readers, FlushOobeValue(r) PROVE OobeFlags'
  BY <1>2, Zenon DEF FlushOobeValue, OobeFlags
<1>3. ASSUME NEW r \in {"listen", "reregister"}, RegisterObserver(r) PROVE OobeFlags'
  <2>1. isConnectDataShareSucc' \in BOOLEAN /\ observer' \in BOOLEAN
    BY <1>3, Zenon DEF RegisterObserver, OobeFlags
  <2> QED
    BY <1>3, <2>1, Zenon DEF RegisterObserver, OobeFlags
<1>4. CASE UnregisterObserver
  <2>1. isConnectDataShareSucc' \in BOOLEAN /\ observer' \in BOOLEAN /\ changeNotice' \in BOOLEAN
    BY <1>4, Zenon DEF UnregisterObserver, OobeFlags
  <2> QED
    BY <1>4, <2>1, Zenon DEF UnregisterObserver, OobeFlags
<1>5. CASE \/ StartListen \/ OnReceiveDataShareReadyCallBack \/ ExecuteDataShareFunction
           \/ OnChange \/ CheckOobeValue \/ (\E t \in OobeTasks : SubmitTask(t)) \/ UserAgrees
  BY <1>5, Zenon DEF StartListen, OnReceiveDataShareReadyCallBack, ExecuteDataShareFunction,
     OnChange, CheckOobeValue, SubmitTask, UserAgrees, OobeFlags
<1>6. CASE UNCHANGED oobeVars
  BY <1>6, Zenon DEF oobeVars, OobeFlags
<1> QED
  BY <1>1, <1>2, <1>3, <1>4, <1>5, <1>6, Zenon DEF OobeNext

LEMMA OobeStepFields ==
  ASSUME OobeInv, OobeFields, [OobeNext]_oobeVars
  PROVE  OobeFields'
<1>1. /\ MAX_RETRY_COUNT \in Nat /\ MaxListens \in Nat
      /\ reader \in [Readers -> {"idle", "read", "0", "1", "register"} \cup Errors]
  BY OobeAssumption DEF OobeInv, OobeDataInv
<1>2. ASSUME NEW r \in Readers, GetValue(r) PROVE OobeFields'
  <2>1. (reader'["check"] # "idle" => reader["check"] # "idle")
    BY <1>1, <1>2 DEF GetValue, Readers
  <2> QED
    BY <1>2, <2>1 DEF GetValue, OobeFields
<1>3. ASSUME NEW r \in Readers, FlushOobeValue(r) PROVE OobeFields'
  <2>1. CASE r = "check"
    <3>1. reader["check"] # "idle" /\ reader'["check"] = "idle"
      BY <1>1, <1>3, <2>1 DEF FlushOobeValue, AfterFlush, Readers, Errors
    <3>2. retry' \in {retry + 1, NoRetry}
      BY <1>3, <2>1 DEF FlushOobeValue, AfterFlush
    <3>3. excuse' \subseteq {"gap", "stale", "error", "retries"}
      BY <1>3 DEF FlushOobeValue, OobeFields
    <3>4. UNCHANGED <<readyCallback, listens>>
      BY <1>3, Zenon DEF FlushOobeValue
    <3> QED
      BY <1>1, <3>1, <3>2, <3>3, <3>4 DEF OobeFields
  <2>2. CASE r # "check"
    <3>1. reader'["check"] = reader["check"] /\ retry' = retry
      BY <1>1, <1>3, <2>2 DEF FlushOobeValue, AfterFlush, Readers
    <3>2. excuse' \subseteq {"gap", "stale", "error", "retries"}
      BY <1>3 DEF FlushOobeValue, OobeFields
    <3>3. UNCHANGED <<readyCallback, listens>>
      BY <1>3, Zenon DEF FlushOobeValue
    <3> QED
      BY <3>1, <3>2, <3>3 DEF OobeFields
  <2> QED
    BY <2>1, <2>2
<1>4. ASSUME NEW r \in {"listen", "reregister"}, RegisterObserver(r) PROVE OobeFields'
  <2>1. reader'["check"] = reader["check"]
    BY <1>1, <1>4 DEF RegisterObserver, Readers
  <2>2. retry' \in {0, retry}
    BY <1>4 DEF RegisterObserver
  <2>3. UNCHANGED <<readyCallback, listens, excuse>>
    BY <1>4, Zenon DEF RegisterObserver
  <2> QED
    BY <1>1, <2>1, <2>2, <2>3 DEF OobeFields
<1>5. CASE StartListen
  <2>1. reader'["check"] = reader["check"]
    BY <1>1, <1>5 DEF StartListen, Readers
  <2> QED
    BY <1>1, <1>5, <2>1 DEF StartListen, OobeFields
<1>6. CASE UnregisterObserver
  BY <1>6 DEF UnregisterObserver, OobeFields
<1>7. CASE OnReceiveDataShareReadyCallBack
  BY <1>7 DEF OnReceiveDataShareReadyCallBack, OobeFields
<1>8. CASE ExecuteDataShareFunction
  <2>1. reader'["check"] = reader["check"]
    BY <1>1, <1>8 DEF ExecuteDataShareFunction, Readers
  <2> QED
    BY <1>8, <2>1 DEF ExecuteDataShareFunction, OobeFields
<1>9. CASE OnChange
  <2>1. reader'["check"] = reader["check"]
    BY <1>1, <1>9 DEF OnChange, Readers
  <2> QED
    BY <1>9, <2>1 DEF OnChange, OobeFields
<1>10. CASE CheckOobeValue
  <2>1. CASE oobeValue = "INVALID" /\ retry < MAX_RETRY_COUNT
    <3>1. /\ retry # NoRetry /\ retry' = retry
          /\ UNCHANGED <<readyCallback, listens, excuse>>
      BY <1>10, <2>1, Zenon DEF CheckOobeValue
    <3>2. retry \in Nat /\ retry < MAX_RETRY_COUNT
      BY <1>1, <2>1, <3>1 DEF OobeFields, NoRetry
    <3> QED
      BY <3>1, <3>2, Zenon DEF OobeFields
  <2>2. CASE ~(oobeValue = "INVALID" /\ retry < MAX_RETRY_COUNT)
    BY <1>1, <1>10, <2>2 DEF CheckOobeValue, OobeFields
  <2> QED
    BY <2>1, <2>2
<1>11. ASSUME NEW t \in OobeTasks, SubmitTask(t) PROVE OobeFields'
  BY <1>11 DEF SubmitTask, OobeFields
<1>12. CASE UserAgrees
  BY <1>12 DEF UserAgrees, OobeFields
<1>13. CASE UNCHANGED oobeVars
  BY <1>13 DEF oobeVars, OobeFields
<1> QED
  BY <1>2, <1>3, <1>4, <1>5, <1>6, <1>7, <1>8, <1>9, <1>10, <1>11, <1>12, <1>13, Zenon
     DEF OobeNext

LEMMA OobeTyped == OobeInv /\ OobeFlags /\ OobeFields => OobeTypeOK
  BY Zenon DEF OobeInv, OobeDataInv, OobeFlags, OobeFields, OobeTypeOK

(* The types of ExecutorInit: the ability manager calls OnAddSystemAbility *)
(* at most once for each start of the executor, and a thread takes no more *)
(* fragments than there are.                                               *)
ExeFlags ==
  /\ oversize \in BOOLEAN /\ exeUp \in BOOLEAN /\ exeObituary \in BOOLEAN
  /\ listening \in BOOLEAN /\ isInit \in BOOLEAN /\ pluginsLoaded \in BOOLEAN
  /\ wholeSent \in BOOLEAN /\ mixed \in BOOLEAN
ExeDeaths ==
  /\ exeDeaths \in 0..MaxExeDeaths /\ rssDeaths \in 0..MaxRssDeaths
  /\ exeAdded \in Nat /\ exeAdded <= exeDeaths + (IF exeUp THEN 1 ELSE 0)
  /\ ~listening => exeAdded = 0
ExeFragments ==
  /\ fragments \in FragmentCounts /\ ipcNumber < fragments /\ ipcMessage \subseteq 1..fragments
  /\ \A s \in ExeSenders : delivered[s] <= fragments
ExeAnswersType ==
  /\ resSchedExe \in {"null", "live", "dead"} /\ exeReply \in ExeReplies
  /\ collectedFrom \subseteq ExeSenders \cup {Gone}

LEMMA ExecutorStartType ==
  ExecutorInitially => ExeFlags /\ ExeDeaths /\ ExeFragments /\ ExeAnswersType
<1> SUFFICES ASSUME ExecutorInitially PROVE ExeFlags /\ ExeDeaths /\ ExeFragments /\ ExeAnswersType
  OBVIOUS
<1>1. ExeFlags
  BY Zenon DEF ExecutorInitially, ExeFlags
<1>2. exeDeaths = 0 /\ rssDeaths = 0 /\ exeAdded = 0 /\ (exeUp => 0 <= 1)
  BY DEF ExecutorInitially
<1>3. ExeDeaths
  BY <1>2, ExecutorAssumption DEF ExeDeaths
<1>4. ExeFragments
  BY ExecutorAssumption DEF ExecutorInitially, ExeFragments
<1>5. ExeAnswersType
  BY DEF ExecutorInitially, ExeAnswersType, ExeReplies
<1> QED
  BY <1>1, <1>3, <1>4, <1>5

LEMMA SendTypes ==
  ASSUME SendsInv, ExeFlags, ExeDeaths, ExeFragments, ExeAnswersType,
         NEW s \in ExeSenders, SendRequestInner(s)
  PROVE  ExeFlags' /\ ExeDeaths' /\ ExeFragments' /\ ExeAnswersType'
<1>1. /\ sending[s] > 0 /\ sending[s] \in 1..fragments /\ delivered[s] < sending[s]
      /\ UNCHANGED <<fragments, oversize, exeUp, exeDeaths, rssDeaths, exeObituary, exeReply>>
  BY DEF SendRequestInner, SendsInv
<1>2. /\ listening' \in BOOLEAN /\ exeAdded' \in Nat
      /\ exeAdded' <= exeDeaths + (IF exeUp THEN 1 ELSE 0)
      /\ ~listening' => exeAdded' = 0
  <2>1. CASE UNCHANGED <<listening, exeAdded>>
    BY <2>1 DEF ExeFlags, ExeDeaths
  <2>2. CASE EndSend(s)
    <3>1. listening' \in BOOLEAN
      BY <2>2, Zenon DEF EndSend, ExeFlags
    <3>2. exeAdded' = IF ~listening /\ s = StartSender /\ exeUp THEN exeAdded + 1 ELSE exeAdded
      BY <2>2 DEF EndSend
    <3>3. CASE ~listening /\ s = StartSender /\ exeUp
      <4>1. listening'
        BY <2>2, <3>3, Zenon DEF EndSend
      <4>2. exeAdded = 0 /\ exeDeaths \in Nat
        BY <3>3 DEF ExeDeaths
      <4>3. exeAdded' = 1 /\ exeUp
        BY <3>2, <3>3, <4>2
      <4> QED
        BY <3>1, <4>1, <4>2, <4>3
    <3>4. CASE ~(~listening /\ s = StartSender /\ exeUp)
      <4>1. exeAdded' = exeAdded /\ (~listening' => ~listening)
        BY <2>2, <3>2, <3>4 DEF EndSend
      <4> QED
        BY <3>1, <4>1 DEF ExeDeaths
    <3> QED
      BY <3>3, <3>4
  <2>3. NextFragment(s) => EndSend(s) \/ UNCHANGED <<listening, exeAdded>>
    BY DEF NextFragment
  <2> QED
    BY <2>1, <2>2, <2>3, Zenon DEF SendRequestInner
<1>3. ExeDeaths'
  BY <1>1, <1>2 DEF ExeDeaths
<1>4. resSchedExe' \in {"null", "live", "dead"}
  BY DEF SendRequestInner, TryConnectExe, ExeAnswersType
<1>5. CASE UNCHANGED <<executorVars, sendHistory>>
  <2>1. ExeFlags'
    BY <1>1, <1>2, <1>5, Zenon DEF ExeFlags, executorVars, sendHistory
  <2>2. ExeFragments'
    BY <1>1, <1>5 DEF ExeFragments, executorVars, sendHistory
  <2>3. ExeAnswersType'
    BY <1>1, <1>4, <1>5 DEF ExeAnswersType, sendHistory
  <2> QED
    BY <1>3, <2>1, <2>2, <2>3
<1>6. CASE InitPluginMgrPretreatment(s, sending[s]) /\ Taken(s, sending[s])
  <2>1. isInit' \in BOOLEAN /\ pluginsLoaded' \in BOOLEAN /\ mixed' \in BOOLEAN
    <3>1. ASSUME NEW parsed \in BOOLEAN, InitPluginMgr(parsed)
          PROVE  isInit' \in BOOLEAN /\ pluginsLoaded' \in BOOLEAN
      BY <3>1, Zenon DEF InitPluginMgr
    <3>2. StringToJson(ipcMessage \cup {sending[s]}) \in BOOLEAN
      BY Zenon DEF StringToJson
    <3>3. mixed' = mixed \/ mixed' = (mixed \/ collectedFrom \ {s} # {})
      BY <1>6, Zenon DEF InitPluginMgrPretreatment, Collects
    <3>4. mixed' \in BOOLEAN
      BY <3>3, Zenon DEF ExeFlags
    <3>5. \/ UNCHANGED executorVars \/ UNCHANGED <<isInit, pluginsLoaded>>
          \/ \E parsed \in BOOLEAN : InitPluginMgr(parsed)
      BY <1>6, <3>2, Zenon DEF InitPluginMgrPretreatment
    <3> QED
      BY <3>1, <3>4, <3>5, Zenon DEF executorVars, ExeFlags
  <2>2. wholeSent' \in BOOLEAN
    BY <1>6, Zenon DEF Taken, ExeFlags
  <2>3. ExeFlags'
    BY <1>1, <1>2, <2>1, <2>2, Zenon DEF ExeFlags
  <2>4. fragments \in Nat \ {0} /\ ipcNumber \in Nat /\ sending[s] \in 1..fragments
    BY <1>1 DEF SendsInv
  <2>5. ipcNumber' < fragments /\ ipcMessage' \subseteq 1..fragments
    <3>1. ipcNumber < fragments /\ ipcMessage \subseteq 1..fragments
      BY DEF ExeFragments
    <3>2. \/ ipcNumber' = ipcNumber /\ ipcMessage' = ipcMessage
          \/ ipcNumber' = 0 /\ ipcMessage' = {}
          \/ /\ ~LastFragment /\ ipcNumber' = ipcNumber + 1
             /\ ipcMessage' = ipcMessage \cup {sending[s]}
      BY <1>6, Zenon DEF InitPluginMgrPretreatment, executorVars
    <3>3. ~LastFragment => ipcNumber + 1 < fragments
      BY <2>4, <3>1 DEF LastFragment
    <3>4. sending[s] \in 1..fragments /\ 0 < fragments /\ {} \subseteq 1..fragments
      BY <2>4
    <3>5. CASE ~LastFragment /\ ipcNumber' = ipcNumber + 1 /\ ipcMessage' = ipcMessage \cup {sending[s]}
      <4>1. ipcNumber' < fragments
        BY <3>3, <3>5
      <4>2. ipcMessage' \subseteq 1..fragments
        BY <3>1, <3>4, <3>5
      <4> QED
        BY <4>1, <4>2
    <3> QED
      BY <3>1, <3>2, <3>4, <3>5, Zenon
  <2>6. \A t \in ExeSenders : delivered'[t] <= fragments
    BY <1>1, <1>6 DEF Taken, SendsInv, ExeFragments
  <2>7. ExeFragments'
    BY <1>1, <2>5, <2>6 DEF ExeFragments
  <2>8. collectedFrom' \subseteq ExeSenders \cup {Gone}
    BY <1>6 DEF InitPluginMgrPretreatment, Collects, ExeAnswersType
  <2> QED
    BY <1>1, <1>3, <1>4, <2>3, <2>7, <2>8, Zenon DEF ExeAnswersType
<1> QED
  BY <1>5, <1>6, Zenon DEF SendRequestInner

LEMMA RepliesRight ==
  /\ \A q \in ExeRequests : SendRequestSync(q) \in ExeReplies
  /\ \A pid \in 0..1 : (IF pid = 0 THEN "failed_call" ELSE "killed") \in ExeReplies
  /\ {"none", "connect_fail", "failed_call"} \subseteq ExeReplies
  BY DEF SendRequestSync, HandleRequestForCgroup, ExeReplies

LEMMA ExecutorStepType ==
  ASSUME SendsInv, ExeFlags, ExeDeaths, ExeFragments, ExeAnswersType,
         [ExecutorInitNext]_executorInitVars
  PROVE  ExeFlags' /\ ExeDeaths' /\ ExeFragments' /\ ExeAnswersType'
<1> DEFINE Types == ExeFlags /\ ExeDeaths /\ ExeFragments /\ ExeAnswersType
<1>1. ASSUME NEW s \in ExeSenders, SendRequestInner(s) PROVE Types'
  BY <1>1, SendTypes
<1>2. ASSUME NEW s \in ExeSenders, InitExecutorPlugin(s) PROVE Types'
  <2>1. ExeFlags'
    BY <1>2, Zenon DEF InitExecutorPlugin, ExeFlags, executorVars
  <2>2. ExeDeaths'
    BY <1>2, ExecutorAssumption DEF InitExecutorPlugin, ExeDeaths
  <2>3. ExeFragments'
    BY <1>2 DEF InitExecutorPlugin, ExeFragments, SendsInv, executorVars
  <2>4. ExeAnswersType'
    BY <1>2 DEF InitExecutorPlugin, ExeAnswersType
  <2> QED
    BY <2>1, <2>2, <2>3, <2>4
<1>3. CASE StopRemoteExe
  <2>1. ExeFlags'
    BY <1>3, Zenon DEF StopRemoteExe, ExeFlags, executorVars, sendHistory
  <2> QED
    BY <1>3, <2>1 DEF StopRemoteExe, ExeDeaths, ExeFragments, ExeAnswersType, executorVars,
       sendHistory
<1>4. ASSUME NEW answer \in ExeReplies, ExeRequest(answer) PROVE Types'
  <2>1. ExeFlags'
    BY <1>4, Zenon DEF ExeRequest, ExeFlags, executorVars, sendHistory
  <2>2. ExeDeaths' /\ ExeFragments'
    BY <1>4 DEF ExeRequest, ExeDeaths, ExeFragments, executorVars, sendHistory
  <2>3. exeReply' \in ExeReplies
    BY <1>4, RepliesRight DEF ExeRequest
  <2>4. resSchedExe' \in {"null", "live", "dead"} /\ collectedFrom' = collectedFrom
    BY <1>4 DEF ExeRequest, TryConnectExe, ExeAnswersType, sendHistory
  <2> QED
    BY <2>1, <2>2, <2>3, <2>4 DEF ExeAnswersType
<1>5. CASE RequestSync
  BY <1>4, <1>5, RepliesRight DEF RequestSync
<1>6. CASE RequestAsync
  BY <1>4, <1>6, RepliesRight DEF RequestAsync
<1>7. ASSUME NEW pid \in 0..1, KillProcess(pid) PROVE Types'
  BY <1>4, <1>7, RepliesRight DEF KillProcess
<1>8. CASE ExeDies
  <2>1. ExeFlags'
    BY <1>8, Zenon DEF ExeDies, ExeFlags
  <2>2. ExeDeaths'
    BY <1>8, ExecutorAssumption DEF ExeDies, ExeDeaths
  <2>3. ExeFragments'
    BY <1>8 DEF ExeDies, ExeFragments, SendsInv
  <2>4. ExeAnswersType'
    BY <1>8 DEF ExeDies, ExeAnswersType
  <2> QED
    BY <2>1, <2>2, <2>3, <2>4
<1>9. CASE ExeStarts
  <2>1. ExeFlags'
    BY <1>9, Zenon DEF ExeStarts, ExeFlags, executorVars, sendHistory
  <2>2. ExeDeaths'
    BY <1>9 DEF ExeStarts, ExeDeaths
  <2>3. ExeFragments' /\ ExeAnswersType'
    BY <1>9 DEF ExeStarts, ExeFragments, ExeAnswersType, executorVars, sendHistory
  <2> QED
    BY <2>1, <2>2, <2>3
<1>10. CASE RssDies
  <2>1. ExeFlags'
    BY <1>10, Zenon DEF RssDies, ExeFlags, executorVars
  <2>2. ExeDeaths'
    BY <1>10, ExecutorAssumption DEF RssDies, ExeDeaths
  <2>3. ExeFragments'
    BY <1>10 DEF RssDies, ExeFragments, SendsInv, executorVars
  <2>4. ExeAnswersType'
    BY <1>10 DEF RssDies, ExeAnswersType
  <2> QED
    BY <2>1, <2>2, <2>3, <2>4
<1>11. CASE UNCHANGED executorInitVars
  <2>1. ExeFlags'
    BY <1>11, Zenon DEF executorInitVars, ExeFlags, senderVars, executorVars, sendHistory
  <2> QED
    BY <1>11, <2>1 DEF executorInitVars, ExeDeaths, ExeFragments, ExeAnswersType, senderVars,
       executorVars, sendHistory
<1> QED
  BY <1>1, <1>2, <1>3, <1>5, <1>6, <1>7, <1>8, <1>9, <1>10, <1>11, Zenon DEF ExecutorInitNext

LEMMA ExecutorTyped ==
  ASSUME SendsInv, ExeFlags, ExeDeaths, ExeFragments, ExeAnswersType
  PROVE  ExecutorTypeOK
<1>1. exeAdded \in 0..(MaxExeDeaths + 1)
  BY ExecutorAssumption DEF ExeDeaths
<1>2. ipcNumber \in 0..(fragments - 1)
  BY DEF SendsInv, ExeFragments
<1>3. sending \in [ExeSenders -> 0..fragments] /\ delivered \in [ExeSenders -> 0..fragments]
  BY DEF SendsInv, ExeFragments
<1> QED
  BY <1>1, <1>2, <1>3, Zenon
     DEF ExecutorTypeOK, ExeFlags, ExeDeaths, ExeFragments, ExeAnswersType
=============================================================================
