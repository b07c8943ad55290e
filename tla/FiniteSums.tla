----------------------------- MODULE FiniteSums -----------------------------
(* Sums over finite sets, as MapThenSumSet computes them: it takes the elements
   one after the other, each time the one that CHOOSE picks.  The lemmas say that
   the order does not matter. *)
EXTENDS Integers, FiniteSets, FiniteSetsExt, FiniteSetTheorems, TLAPS

Pick(s) == CHOOSE x \in s : TRUE

SumOf(f, S) == MapThenSumSet(LAMBDA x : f[x], S)

(* The recursion of MapThenSumSet: t gives the sum of f over every subset of S. *)
IsSumTable(t, f, S) ==
  t = [s \in SUBSET S |-> IF s = {} THEN 0 ELSE f[Pick(s)] + t[s \ {Pick(s)}]]

(* Induction over the subsets of a finite set, for a set G of them. *)
LEMMA SubsetInduction ==
  ASSUME NEW S, IsFiniteSet(S), NEW G,
         \A T \in SUBSET S : (\A U \in SUBSET T : U # T => U \in G) => T \in G
  PROVE  \A T \in SUBSET S : T \in G
<1> DEFINE Bad == (SUBSET S) \ G
<1>1. SUFFICES ASSUME Bad # {} PROVE FALSE
  OBVIOUS
<1>2. IsWellFoundedOn(StrictSubsetOrdering(S), SUBSET S)
  BY FS_StrictSubsetOrderingWellFounded, FS_FiniteSubsetsOfFinite
<1>3. PICK T \in Bad : \A U \in Bad : <<U, T>> \notin StrictSubsetOrdering(S)
  <2>1. Bad \subseteq SUBSET S
    OBVIOUS
  <2> HIDE DEF Bad
  <2> QED
    BY <1>1, <1>2, <2>1, WFMin
<1>4. \A U \in SUBSET T : U # T => <<U, T>> \in StrictSubsetOrdering(S)
  BY DEF StrictSubsetOrdering
<1>5. T \in SUBSET S /\ T \notin G
  OBVIOUS
<1>6. ASSUME NEW U \in SUBSET T, U # T PROVE U \in G
  <2>1. U \notin Bad
    <3> HIDE DEF Bad
    <3> QED
      BY <1>3, <1>4, <1>6
  <2>2. U \in SUBSET S
    BY <1>5
  <2> QED
    BY <2>1, <2>2
<1> QED
  BY <1>5, <1>6

LEMMA PickIn == ASSUME NEW s, s # {} PROVE Pick(s) \in s
  BY DEF Pick

(* Two tables agree on the subsets that both cover, if their functions do. *)
LEMMA TablesAgree ==
  ASSUME NEW S, IsFiniteSet(S), NEW t, NEW f, IsSumTable(t, f, S),
         NEW R, NEW u, NEW g, IsSumTable(u, g, R), S \subseteq R,
         \A x \in S : f[x] = g[x]
  PROVE  \A s \in SUBSET S : t[s] = u[s]
<1> DEFINE G == {s \in SUBSET S : t[s] = u[s]}
<1>1. ASSUME NEW s \in SUBSET S, \A r \in SUBSET s : r # s => r \in G
      PROVE  s \in G
  <2>1. CASE s = {}
    BY <2>1 DEF IsSumTable
  <2>2. CASE s # {}
    <3>1. Pick(s) \in s /\ s \ {Pick(s)} \in G
      BY <1>1, <2>2, PickIn
    <3>2. t[s] = f[Pick(s)] + t[s \ {Pick(s)}]
      BY <2>2 DEF IsSumTable
    <3>3. u[s] = g[Pick(s)] + u[s \ {Pick(s)}]
      BY <2>2 DEF IsSumTable
    <3> QED
      BY <3>1, <3>2, <3>3
  <2> QED
    BY <2>1, <2>2
<1>2. \A s \in SUBSET S : s \in G
  <2> HIDE DEF G
  <2> QED
    BY <1>1, SubsetInduction
<1> QED
  BY <1>2

(* There is a table: by induction one for the subsets of every subset of S. *)
LEMMA TableExists ==
  ASSUME NEW S, IsFiniteSet(S), NEW f
  PROVE  \E t : IsSumTable(t, f, S)
<1> DEFINE G == {T \in SUBSET S : \E t : IsSumTable(t, f, T)}
<1>1. ASSUME NEW T \in SUBSET S, \A U \in SUBSET T : U # T => U \in G
      PROVE  T \in G
  <2> DEFINE table(U) == CHOOSE t : IsSumTable(t, f, U)
             value(U) == IF U = {} THEN 0 ELSE f[Pick(U)] + table(U \ {Pick(U)})[U \ {Pick(U)}]
             new == [U \in SUBSET T |-> value(U)]
  <2>1. \A U \in SUBSET T : U # T => IsSumTable(table(U), f, U)
    BY <1>1
  <2> HIDE DEF table
  <2>2. ASSUME NEW U \in SUBSET T, U # T
        PROVE  table(U)[U] = value(U)
    <3>1. CASE U = {}
      BY <2>1, <2>2, <3>1 DEF IsSumTable
    <3>2. CASE U # {}
      <4> DEFINE W == U \ {Pick(U)}
      <4>1. Pick(U) \in U
        BY <3>2, PickIn
      <4>2. W \in SUBSET T /\ W # T /\ W \subseteq U
        BY <4>1
      <4>3. IsFiniteSet(W)
        BY <4>2, FS_Subset
      <4>4. IsSumTable(table(U), f, U) /\ IsSumTable(table(W), f, W)
        BY <2>1, <2>2, <4>2
      <4>5. table(W)[W] = table(U)[W]
        <5> HIDE DEF W
        <5>1. \A s \in SUBSET W : table(W)[s] = table(U)[s]
          BY <4>2, <4>3, <4>4, TablesAgree
        <5> QED
          BY <5>1
      <4>6. table(U)[U] = f[Pick(U)] + table(U)[W]
        BY <3>2, <4>4 DEF IsSumTable
      <4> QED
        BY <3>2, <4>5, <4>6
    <3> QED
      BY <3>1, <3>2
  <2>3. \A U \in SUBSET T : U # {} =>
          U \ {Pick(U)} \in SUBSET T /\ U \ {Pick(U)} # T
    BY PickIn
  <2>4. \A U \in SUBSET T : U # {} =>
          new[U \ {Pick(U)}] = table(U \ {Pick(U)})[U \ {Pick(U)}]
    BY <2>2, <2>3
  <2>5. \A U \in SUBSET T :
          value(U) = IF U = {} THEN 0 ELSE f[Pick(U)] + new[U \ {Pick(U)}]
    BY <2>4
  <2>6. IsSumTable(new, f, T)
    <3> HIDE DEF value
    <3>1. new = [U \in SUBSET T |-> IF U = {} THEN 0 ELSE f[Pick(U)] + new[U \ {Pick(U)}]]
      BY <2>5
    <3> QED
      BY <3>1 DEF IsSumTable
  <2> QED
    BY <2>6
<1>2. \A T \in SUBSET S : T \in G
  <2> HIDE DEF G
  <2> QED
    BY <1>1, SubsetInduction
<1> QED
  BY <1>2

(* Whatever table there is gives the sum. *)
LEMMA SumOfTable ==
  ASSUME NEW S, IsFiniteSet(S), NEW f, NEW t, IsSumTable(t, f, S)
  PROVE  \A T \in SUBSET S : SumOf(f, T) = t[T]
<1> TAKE T \in SUBSET S
<1> DEFINE u == CHOOSE r : IsSumTable(r, f, T)
<1>1. SumOf(f, T) = u[T]
  BY DEF SumOf, MapThenSumSet, MapThenFoldSet, IsSumTable, Pick
<1>2. IsFiniteSet(T)
  BY FS_Subset
<1>3. IsSumTable(u, f, T)
  BY <1>2, TableExists
<1>4. \A s \in SUBSET T : u[s] = t[s]
  <2> HIDE DEF u
  <2> QED
    BY <1>2, <1>3, TablesAgree
<1> QED
  BY <1>1, <1>4

LEMMA SumEmpty == ASSUME NEW f PROVE SumOf(f, {}) = 0
<1>1. IsFiniteSet({})
  BY FS_EmptySet
<1>2. PICK t : IsSumTable(t, f, {})
  BY <1>1, TableExists
<1>3. t[{}] = 0
  BY <1>2 DEF IsSumTable
<1> QED
  BY <1>1, <1>2, <1>3, SumOfTable

LEMMA SumPick ==
  ASSUME NEW S, IsFiniteSet(S), S # {}, NEW f
  PROVE  SumOf(f, S) = f[Pick(S)] + SumOf(f, S \ {Pick(S)})
<1>1. PICK t : IsSumTable(t, f, S)
  BY TableExists
<1>2. t[S] = f[Pick(S)] + t[S \ {Pick(S)}]
  BY <1>1 DEF IsSumTable
<1>3. S \in SUBSET S /\ S \ {Pick(S)} \in SUBSET S
  OBVIOUS
<1> QED
  BY <1>1, <1>2, <1>3, SumOfTable

LEMMA SumInt ==
  ASSUME NEW S, IsFiniteSet(S), NEW f, \A x \in S : f[x] \in Int
  PROVE  SumOf(f, S) \in Int
<1> DEFINE G == {T \in SUBSET S : SumOf(f, T) \in Int}
<1>1. ASSUME NEW T \in SUBSET S, \A U \in SUBSET T : U # T => U \in G
      PROVE  T \in G
  <2>1. CASE T = {}
    BY <2>1, SumEmpty
  <2>2. CASE T # {}
    <3>1. Pick(T) \in T /\ IsFiniteSet(T)
      BY <2>2, PickIn, FS_Subset
    <3>2. SumOf(f, T) = f[Pick(T)] + SumOf(f, T \ {Pick(T)})
      BY <2>2, <3>1, SumPick
    <3>3. SumOf(f, T \ {Pick(T)}) \in Int
      BY <1>1, <3>1
    <3> QED
      BY <3>1, <3>2, <3>3
  <2> QED
    BY <2>1, <2>2
<1>2. \A T \in SUBSET S : T \in G
  <2> HIDE DEF G
  <2> QED
    BY <1>1, SubsetInduction
<1> QED
  BY <1>2

(* Any element can be taken first. *)
LEMMA SumRemove ==
  ASSUME NEW S, IsFiniteSet(S), NEW f, \A x \in S : f[x] \in Int
  PROVE  \A y \in S : SumOf(f, S) = f[y] + SumOf(f, S \ {y})
<1> DEFINE G == {T \in SUBSET S : \A y \in T : SumOf(f, T) = f[y] + SumOf(f, T \ {y})}
<1>1. ASSUME NEW T \in SUBSET S, \A U \in SUBSET T : U # T => U \in G
      PROVE  T \in G
  <2> SUFFICES ASSUME NEW y \in T
               PROVE  SumOf(f, T) = f[y] + SumOf(f, T \ {y})
    OBVIOUS
  <2> DEFINE z == Pick(T)
  <2>1. z \in T /\ IsFiniteSet(T)
    BY PickIn, FS_Subset
  <2>2. SumOf(f, T) = f[z] + SumOf(f, T \ {z})
    BY <2>1, SumPick
  <2>3. CASE y = z
    BY <2>2, <2>3
  <2>4. CASE y # z
    <3> HIDE DEF z
    <3>1. SumOf(f, T \ {z}) = f[y] + SumOf(f, (T \ {z}) \ {y})
      <4>1. T \ {z} \in SUBSET T /\ T \ {z} # T /\ y \in T \ {z}
        BY <2>1, <2>4
      <4> QED
        BY <1>1, <4>1
    <3>2. SumOf(f, T \ {y}) = f[z] + SumOf(f, (T \ {y}) \ {z})
      <4>1. T \ {y} \in SUBSET T /\ T \ {y} # T /\ z \in T \ {y}
        BY <2>1, <2>4
      <4> QED
        BY <1>1, <4>1
    <3>3. (T \ {y}) \ {z} = (T \ {z}) \ {y}
      OBVIOUS
    <3>4. SumOf(f, (T \ {z}) \ {y}) \in Int
      <4>1. IsFiniteSet((T \ {z}) \ {y})
        BY <2>1, FS_RemoveElement
      <4> QED
        BY <4>1, SumInt
    <3>5. f[y] \in Int /\ f[z] \in Int
      BY <2>1
    <3> DEFINE rest == SumOf(f, (T \ {z}) \ {y})
    <3>6. SumOf(f, T) = f[z] + (f[y] + rest)
      BY <2>2, <3>1
    <3>7. SumOf(f, T \ {y}) = f[z] + rest
      BY <3>2, <3>3
    <3>8. rest \in Int
      BY <3>4
    <3> HIDE DEF rest
    <3> QED
      BY <3>5, <3>6, <3>7, <3>8
  <2> QED
    BY <2>3, <2>4
<1>2. \A T \in SUBSET S : T \in G
  <2> HIDE DEF G
  <2> QED
    BY <1>1, SubsetInduction
<1> QED
  BY <1>2

LEMMA SumAdd ==
  ASSUME NEW S, IsFiniteSet(S), NEW x, x \notin S, NEW f,
         \A y \in S \cup {x} : f[y] \in Int
  PROVE  SumOf(f, S \cup {x}) = f[x] + SumOf(f, S)
<1>1. IsFiniteSet(S \cup {x}) /\ x \in S \cup {x} /\ (S \cup {x}) \ {x} = S
  BY FS_AddElement
<1> QED
  BY <1>1, SumRemove

(* A sum depends on the values over its set only. *)
LEMMA SumAgree ==
  ASSUME NEW S, IsFiniteSet(S), NEW f, NEW g, \A x \in S : f[x] = g[x]
  PROVE  SumOf(f, S) = SumOf(g, S)
<1>1. PICK t : IsSumTable(t, f, S)
  BY TableExists
<1>2. PICK u : IsSumTable(u, g, S)
  BY TableExists
<1>3. t[S] = u[S]
  BY <1>1, <1>2, TablesAgree
<1> QED
  BY <1>1, <1>2, <1>3, SumOfTable

LEMMA SumNat ==
  ASSUME NEW S, IsFiniteSet(S), NEW f, \A x \in S : f[x] \in Nat
  PROVE  SumOf(f, S) \in Nat
<1> DEFINE G == {T \in SUBSET S : SumOf(f, T) \in Nat}
<1>1. ASSUME NEW T \in SUBSET S, \A U \in SUBSET T : U # T => U \in G
      PROVE  T \in G
  <2>1. CASE T = {}
    BY <2>1, SumEmpty
  <2>2. CASE T # {}
    <3>1. Pick(T) \in T /\ IsFiniteSet(T)
      BY <2>2, PickIn, FS_Subset
    <3>2. SumOf(f, T) = f[Pick(T)] + SumOf(f, T \ {Pick(T)})
      BY <2>2, <3>1, SumPick
    <3>3. SumOf(f, T \ {Pick(T)}) \in Nat
      BY <1>1, <3>1
    <3> QED
      BY <3>1, <3>2, <3>3
  <2> QED
    BY <2>1, <2>2
<1>2. \A T \in SUBSET S : T \in G
  <2> HIDE DEF G
  <2> QED
    BY <1>1, SubsetInduction
<1> QED
  BY <1>2

(* No element of a set is more than the sum over the set. *)
LEMMA SumBoundsElement ==
  ASSUME NEW S, IsFiniteSet(S), NEW f, \A x \in S : f[x] \in Nat, NEW y \in S
  PROVE  f[y] <= SumOf(f, S)
<1>1. IsFiniteSet(S \ {y})
  BY FS_RemoveElement
<1>2. SumOf(f, S \ {y}) \in Nat
  BY <1>1, SumNat
<1>3. SumOf(f, S) = f[y] + SumOf(f, S \ {y})
  BY SumRemove
<1> QED
  BY <1>2, <1>3
=============================================================================
