---- MODULE Sums ----
(***************************************************************************)
(* What the sum of a function over a finite set is worth, and how it       *)
(* changes with the function and the set.  The sum is the fold of the      *)
(* community modules, SumFunctionOnSet, which adds up the elements in an   *)
(* order of its own; that the order does not matter is the lemma SumPick.  *)
(* The last lemma is of the same kind: a finite set of numbers has a       *)
(* greatest.                                                               *)
(*                                                                         *)
(* Where one would argue by induction on the set, the proofs take a        *)
(* smallest set for which the claim fails (MinimalSet).                    *)
(***************************************************************************)
EXTENDS Integers, Functions, FiniteSetTheorems, WellFoundedInduction, TLAPS

LEMMA MinimalSet ==
  ASSUME NEW S, IsFiniteSet(S), NEW B \in SUBSET SUBSET S, B # {}
  PROVE  \E T \in B : \A U \in B : U \subseteq T => U = T
<1>1. B \subseteq FiniteSubsetsOf(S)
  BY FS_FiniteSubsetsOfFinite
<1>2. PICK T \in B : \A U \in B : <<U, T>> \notin StrictSubsetOrdering(S)
  BY <1>1, FS_StrictSubsetOrderingWellFounded, WFMin
<1>3. ASSUME NEW U \in B, U \subseteq T, U # T
      PROVE  <<U, T>> \in StrictSubsetOrdering(S)
  BY <1>3 DEF StrictSubsetOrdering
<1>4. \A U \in B : U \subseteq T => U = T
  BY <1>2, <1>3
<1> QED  BY <1>4

Pick(s) == CHOOSE x \in s : TRUE
(* The table of the sums of f over the subsets of S.                       *)
IsTable(it, f, S) ==
  it = [s \in SUBSET S |-> IF s = {} THEN 0 ELSE f[Pick(s)] + it[s \ {Pick(s)}]]
Table(f, S) == CHOOSE it : IsTable(it, f, S)

LEMMA PickIn == ASSUME NEW s, s # {} PROVE Pick(s) \in s
BY DEF Pick

LEMMA SumIsTable ==
  ASSUME NEW f, NEW S
  PROVE  SumFunctionOnSet(f, S) = Table(f, S)[S]
BY Zenon DEF SumFunctionOnSet, FoldFunctionOnSet, MapThenFoldSet, Table, IsTable, Pick

LEMMA TablesAgree ==
  ASSUME NEW f, NEW S, NEW T, IsFiniteSet(T), T \subseteq S,
         NEW g, NEW h, IsTable(g, f, S), IsTable(h, f, T)
  PROVE  \A U \in SUBSET T : g[U] = h[U]
<1> DEFINE B == {U \in SUBSET T : g[U] # h[U]}
<1> SUFFICES ASSUME B # {} PROVE FALSE
  OBVIOUS
<1>1. PICK U \in B : \A V \in B : V \subseteq U => V = U
  <2>1. B \in SUBSET SUBSET T
    OBVIOUS
  <2> HIDE DEF B
  <2> QED  BY <2>1, MinimalSet
<1>2. U \subseteq T /\ g[U] # h[U]
  OBVIOUS
<1>3. /\ g[U] = IF U = {} THEN 0 ELSE f[Pick(U)] + g[U \ {Pick(U)}]
      /\ h[U] = IF U = {} THEN 0 ELSE f[Pick(U)] + h[U \ {Pick(U)}]
  <2>1. U \in SUBSET S /\ U \in SUBSET T
    BY <1>2
  <2> HIDE DEF B
  <2> QED  BY <2>1 DEF IsTable
<1>4. U # {}
  BY <1>2, <1>3
<1>5. U \ {Pick(U)} \in SUBSET T /\ U \ {Pick(U)} # U
  BY <1>2, <1>4, PickIn
<1>6. g[U \ {Pick(U)}] = h[U \ {Pick(U)}]
  BY <1>1, <1>5
<1> QED  BY <1>2, <1>3, <1>4, <1>6

LEMMA TableExists ==
  ASSUME NEW f, NEW S, IsFiniteSet(S)
  PROVE  IsTable(Table(f, S), f, S)
<1> DEFINE B == {T \in SUBSET S : ~ \E it : IsTable(it, f, T)}
<1> SUFFICES ASSUME B # {} PROVE FALSE
  <2>1. \E it : IsTable(it, f, S)
    OBVIOUS
  <2> QED  BY <2>1 DEF Table
<1>1. PICK T \in B : \A U \in B : U \subseteq T => U = T
  <2>1. B \in SUBSET SUBSET S
    OBVIOUS
  <2> HIDE DEF B
  <2> QED  BY <2>1, MinimalSet
<1>2. T \in SUBSET S /\ ~ \E it : IsTable(it, f, T)
  OBVIOUS
<1>3. \A U \in SUBSET T : U # T => IsTable(Table(f, U), f, U) /\ IsFiniteSet(U)
  <2> TAKE U \in SUBSET T
  <2> HAVE U # T
  <2>1. U \notin B /\ U \in SUBSET S
    BY <1>1, <1>2
  <2>2. \E it : IsTable(it, f, U)
    BY <2>1
  <2> QED  BY <2>1, <2>2, FS_Subset DEF Table
<1> DEFINE v(U) == Table(f, U)[U]
           it == [U \in SUBSET T |-> IF U = {} THEN 0 ELSE f[Pick(U)] + v(U \ {Pick(U)})]
<1> HIDE DEF B
<1>4. ASSUME NEW U \in SUBSET T, U # T PROVE it[U] = v(U)
  <2>1. IsTable(Table(f, U), f, U)
    BY <1>3, <1>4
  <2>2. v(U) = IF U = {} THEN 0 ELSE f[Pick(U)] + Table(f, U)[U \ {Pick(U)}]
    BY <2>1 DEF IsTable
  <2>3. CASE U = {}
    BY <2>2, <2>3
  <2>4. CASE U # {}
    <3>1. /\ U \ {Pick(U)} \in SUBSET U /\ U \ {Pick(U)} \in SUBSET T
          /\ U \ {Pick(U)} # T
      BY <2>4, PickIn
    <3>2. IsTable(Table(f, U \ {Pick(U)}), f, U \ {Pick(U)}) /\ IsFiniteSet(U \ {Pick(U)})
      BY <1>3, <3>1
    <3>3. Table(f, U)[U \ {Pick(U)}] = v(U \ {Pick(U)})
      BY <2>1, <3>1, <3>2, TablesAgree
    <3> QED  BY <2>2, <2>4, <3>3
  <2> QED  BY <2>3, <2>4
<1>5. ASSUME NEW U \in SUBSET T, U # {} PROVE v(U \ {Pick(U)}) = it[U \ {Pick(U)}]
  <2>1. U \ {Pick(U)} \in SUBSET T /\ U \ {Pick(U)} # T
    BY <1>5, PickIn
  <2> QED  BY <1>4, <2>1
<1>6. it = [U \in SUBSET T |-> IF U = {} THEN 0 ELSE f[Pick(U)] + it[U \ {Pick(U)}]]
  <2> DEFINE a(U) == IF U = {} THEN 0 ELSE f[Pick(U)] + v(U \ {Pick(U)})
             b(U) == IF U = {} THEN 0 ELSE f[Pick(U)] + it[U \ {Pick(U)}]
  <2>1. \A U \in SUBSET T : a(U) = b(U)
    BY <1>5
  <2>2. [U \in SUBSET T |-> a(U)] = [U \in SUBSET T |-> b(U)]
    <3> HIDE DEF a, b
    <3> QED  BY <2>1
  <2> QED  BY <2>2
<1> HIDE DEF it
<1>7. IsTable(it, f, T)
  BY <1>6 DEF IsTable
<1> QED  BY <1>2, <1>7
----
(* The equation of the fold.                                               *)
LEMMA SumEmpty ==
  ASSUME NEW f
  PROVE  SumFunctionOnSet(f, {}) = 0
<1>1. IsTable(Table(f, {}), f, {})
  BY TableExists, FS_EmptySet
<1>2. Table(f, {})[{}] = 0
  BY <1>1 DEF IsTable
<1> QED  BY <1>2, SumIsTable

LEMMA SumFirst ==
  ASSUME NEW f, NEW S, IsFiniteSet(S), S # {}
  PROVE  SumFunctionOnSet(f, S) = f[Pick(S)] + SumFunctionOnSet(f, S \ {Pick(S)})
<1> DEFINE U == S \ {Pick(S)}
<1>1. U \in SUBSET S /\ IsFiniteSet(U)
  BY FS_Subset
<1> HIDE DEF U
<1>2. IsTable(Table(f, S), f, S) /\ IsTable(Table(f, U), f, U)
  BY <1>1, TableExists
<1>3. Table(f, S)[S] = f[Pick(S)] + Table(f, S)[S \ {Pick(S)}]
  BY <1>2 DEF IsTable
<1>4. Table(f, S)[U] = Table(f, U)[U]
  BY <1>1, <1>2, TablesAgree
<1> QED  BY <1>3, <1>4, SumIsTable DEF U

(* The sum of integers is one, and of naturals.                            *)
LEMMA SumInt ==
  ASSUME NEW f, NEW S, IsFiniteSet(S), \A x \in S : f[x] \in Int
  PROVE  SumFunctionOnSet(f, S) \in Int
<1> DEFINE B == {T \in SUBSET S : SumFunctionOnSet(f, T) \notin Int}
<1> SUFFICES ASSUME B # {} PROVE FALSE
  OBVIOUS
<1>1. PICK T \in B : \A U \in B : U \subseteq T => U = T
  <2>1. B \in SUBSET SUBSET S
    OBVIOUS
  <2> HIDE DEF B
  <2> QED  BY <2>1, MinimalSet
<1>2. T \in SUBSET S /\ SumFunctionOnSet(f, T) \notin Int
  OBVIOUS
<1>3. T # {} /\ IsFiniteSet(T)
  <2>1. T # {}
    BY <1>2, SumEmpty
  <2>2. IsFiniteSet(T)
    BY <1>2, FS_Subset
  <2> QED  BY <2>1, <2>2
<1>4. Pick(T) \in T
  BY <1>3, PickIn
<1>5. T \ {Pick(T)} \notin B
  BY <1>1, <1>4
<1>6. SumFunctionOnSet(f, T \ {Pick(T)}) \in Int
  BY <1>2, <1>5
<1>7. f[Pick(T)] \in Int
  BY <1>2, <1>4
<1> QED  BY <1>2, <1>3, <1>6, <1>7, SumFirst

LEMMA SumNat ==
  ASSUME NEW f, NEW S, IsFiniteSet(S), \A x \in S : f[x] \in Nat
  PROVE  SumFunctionOnSet(f, S) \in Nat
<1> DEFINE B == {T \in SUBSET S : SumFunctionOnSet(f, T) \notin Nat}
<1> SUFFICES ASSUME B # {} PROVE FALSE
  OBVIOUS
<1>1. PICK T \in B : \A U \in B : U \subseteq T => U = T
  <2>1. B \in SUBSET SUBSET S
    OBVIOUS
  <2> HIDE DEF B
  <2> QED  BY <2>1, MinimalSet
<1>2. T \in SUBSET S /\ SumFunctionOnSet(f, T) \notin Nat
  OBVIOUS
<1>3. T # {} /\ IsFiniteSet(T)
  <2>1. T # {}
    BY <1>2, SumEmpty
  <2>2. IsFiniteSet(T)
    BY <1>2, FS_Subset
  <2> QED  BY <2>1, <2>2
<1>4. Pick(T) \in T
  BY <1>3, PickIn
<1>5. T \ {Pick(T)} \notin B
  BY <1>1, <1>4
<1>6. SumFunctionOnSet(f, T \ {Pick(T)}) \in Nat
  BY <1>2, <1>5
<1>7. f[Pick(T)] \in Nat
  BY <1>2, <1>4
<1> QED  BY <1>2, <1>3, <1>6, <1>7, SumFirst

(* Any element may be taken out first.                                     *)
LEMMA SumPick ==
  ASSUME NEW f, NEW S, IsFiniteSet(S), \A x \in S : f[x] \in Int, NEW x \in S
  PROVE  SumFunctionOnSet(f, S) = f[x] + SumFunctionOnSet(f, S \ {x})
<1> DEFINE Fails(T, z) == SumFunctionOnSet(f, T) # f[z] + SumFunctionOnSet(f, T \ {z})
           B == {T \in SUBSET S : \E z \in T : Fails(T, z)}
<1> SUFFICES ASSUME B # {} PROVE FALSE
  OBVIOUS
<1>1. PICK T \in B : \A U \in B : U \subseteq T => U = T
  <2>1. B \in SUBSET SUBSET S
    OBVIOUS
  <2> HIDE DEF B
  <2> QED  BY <2>1, MinimalSet
<1>2. PICK z \in T : T \in SUBSET S /\ Fails(T, z)
  OBVIOUS
<1> DEFINE y == Pick(T)
<1>3. IsFiniteSet(T) /\ y \in T
  <2>1. IsFiniteSet(T)
    BY <1>2, FS_Subset
  <2> QED  BY <2>1, <1>2, PickIn
<1>4. SumFunctionOnSet(f, T) = f[y] + SumFunctionOnSet(f, T \ {y})
  BY <1>3, SumFirst
<1>5. z # y
  BY <1>2, <1>4
<1>6. /\ T \ {y} \notin B /\ T \ {y} \in SUBSET S /\ z \in T \ {y}
      /\ T \ {z} \notin B /\ T \ {z} \in SUBSET S /\ y \in T \ {z}
  <2> HIDE DEF B, y
  <2>1. T \ {y} # T /\ T \ {z} # T
    BY <1>2, <1>3
  <2> QED  BY <2>1, <1>1, <1>2, <1>3, <1>5
<1>7. /\ SumFunctionOnSet(f, T \ {y}) = f[z] + SumFunctionOnSet(f, (T \ {y}) \ {z})
      /\ SumFunctionOnSet(f, T \ {z}) = f[y] + SumFunctionOnSet(f, (T \ {z}) \ {y})
  BY <1>6
<1>8. (T \ {y}) \ {z} = (T \ {z}) \ {y}
  OBVIOUS
<1>9. f[z] \in Int /\ f[y] \in Int /\ SumFunctionOnSet(f, (T \ {z}) \ {y}) \in Int
  <2> HIDE DEF y
  <2>1. IsFiniteSet((T \ {z}) \ {y}) /\ (T \ {z}) \ {y} \subseteq S
    BY <1>2, <1>3, FS_Subset
  <2>2. SumFunctionOnSet(f, (T \ {z}) \ {y}) \in Int
    BY <2>1, SumInt
  <2> QED  BY <2>2, <1>2, <1>3
<1> DEFINE r == SumFunctionOnSet(f, (T \ {z}) \ {y})
<1> HIDE DEF B, y
<1>10. SumFunctionOnSet(f, T \ {y}) = f[z] + r
  BY <1>7, <1>8
<1>11. SumFunctionOnSet(f, T \ {z}) = f[y] + r /\ r \in Int
  BY <1>7, <1>9
<1>12. SumFunctionOnSet(f, T) # f[z] + SumFunctionOnSet(f, T \ {z})
  BY <1>2
<1> HIDE DEF r, Fails
<1> QED  BY <1>4, <1>9, <1>10, <1>11, <1>12

LEMMA SumAdd ==
  ASSUME NEW f, NEW S, IsFiniteSet(S), NEW x, x \notin S,
         \A y \in S \cup {x} : f[y] \in Int
  PROVE  SumFunctionOnSet(f, S \cup {x}) = f[x] + SumFunctionOnSet(f, S)
<1>1. IsFiniteSet(S \cup {x}) /\ (S \cup {x}) \ {x} = S
  BY FS_AddElement
<1> QED  BY <1>1, SumPick
----
(* The sums of two functions over one set.                                 *)

(* A function that is nowhere greater has no greater sum.                  *)
LEMMA SumMonotonic ==
  ASSUME NEW f, NEW g, NEW S, IsFiniteSet(S),
         \A x \in S : f[x] \in Int /\ g[x] \in Int /\ f[x] <= g[x]
  PROVE  SumFunctionOnSet(f, S) <= SumFunctionOnSet(g, S)
<1> DEFINE B == {T \in SUBSET S : ~(SumFunctionOnSet(f, T) <= SumFunctionOnSet(g, T))}
<1> SUFFICES ASSUME B # {} PROVE FALSE
  OBVIOUS
<1>1. PICK T \in B : \A U \in B : U \subseteq T => U = T
  <2>1. B \in SUBSET SUBSET S
    OBVIOUS
  <2> HIDE DEF B
  <2> QED  BY <2>1, MinimalSet
<1>2. T \in SUBSET S /\ ~(SumFunctionOnSet(f, T) <= SumFunctionOnSet(g, T))
  OBVIOUS
<1>3. IsFiniteSet(T)
  BY <1>2, FS_Subset
<1>4. T # {}
  <2> SUFFICES ASSUME T = {} PROVE FALSE
    OBVIOUS
  <2>1. SumFunctionOnSet(f, T) = 0 /\ SumFunctionOnSet(g, T) = 0
    BY SumEmpty
  <2> QED  BY <2>1, <1>2
<1>5. PICK x \in T : TRUE
  BY <1>4
<1>6. /\ SumFunctionOnSet(f, T) = f[x] + SumFunctionOnSet(f, T \ {x})
      /\ SumFunctionOnSet(g, T) = g[x] + SumFunctionOnSet(g, T \ {x})
  BY <1>2, <1>3, SumPick
<1>7. T \ {x} \in SUBSET S /\ T \ {x} \notin B
  BY <1>1, <1>2, <1>5
<1>8. SumFunctionOnSet(f, T \ {x}) <= SumFunctionOnSet(g, T \ {x})
  BY <1>7
<1>9. /\ SumFunctionOnSet(f, T \ {x}) \in Int /\ SumFunctionOnSet(g, T \ {x}) \in Int
      /\ f[x] \in Int /\ g[x] \in Int /\ f[x] <= g[x]
  <2>1. IsFiniteSet(T \ {x})
    BY <1>3, FS_Subset
  <2> QED  BY <2>1, <1>2, <1>7, SumInt
<1> QED  BY <1>2, <1>6, <1>8, <1>9

(* The sum depends on what the function is on the set, and on nothing else.*)
LEMMA SumSame ==
  ASSUME NEW f, NEW g, NEW S, IsFiniteSet(S),
         \A x \in S : f[x] \in Int /\ f[x] = g[x]
  PROVE  SumFunctionOnSet(f, S) = SumFunctionOnSet(g, S)
<1>1. \A x \in S : g[x] \in Int /\ f[x] <= g[x] /\ g[x] <= f[x]
  OBVIOUS
<1>2. /\ SumFunctionOnSet(f, S) <= SumFunctionOnSet(g, S)
      /\ SumFunctionOnSet(g, S) <= SumFunctionOnSet(f, S)
  BY <1>1, SumMonotonic
<1>3. SumFunctionOnSet(f, S) \in Int /\ SumFunctionOnSet(g, S) \in Int
  BY <1>1, SumInt
<1> QED  BY <1>2, <1>3

(* A function that changes at one place.                                   *)
LEMMA SumChange ==
  ASSUME NEW f, NEW g, NEW S, IsFiniteSet(S), NEW x \in S,
         \A y \in S : f[y] \in Int /\ g[y] \in Int,
         \A y \in S \ {x} : f[y] = g[y]
  PROVE  SumFunctionOnSet(g, S) = SumFunctionOnSet(f, S) - f[x] + g[x]
<1>1. IsFiniteSet(S \ {x})
  BY FS_Subset
<1>2. SumFunctionOnSet(f, S \ {x}) = SumFunctionOnSet(g, S \ {x})
  BY <1>1, SumSame
<1>3. /\ SumFunctionOnSet(f, S) = f[x] + SumFunctionOnSet(f, S \ {x})
      /\ SumFunctionOnSet(g, S) = g[x] + SumFunctionOnSet(g, S \ {x})
  BY SumPick
<1>4. SumFunctionOnSet(f, S \ {x}) \in Int
  BY <1>1, SumInt
<1> QED  BY <1>2, <1>3, <1>4

(* The same of naturals, whose sums are naturals.                          *)
LEMMA SumStep ==
  ASSUME NEW f, NEW g, NEW S, IsFiniteSet(S), NEW x \in S,
         \A y \in S : f[y] \in Nat /\ g[y] \in Nat,
         \A y \in S \ {x} : f[y] = g[y]
  PROVE  /\ SumFunctionOnSet(f, S) \in Nat /\ SumFunctionOnSet(g, S) \in Nat
         /\ SumFunctionOnSet(g, S) = SumFunctionOnSet(f, S) - f[x] + g[x]
<1>1. SumFunctionOnSet(f, S) \in Nat /\ SumFunctionOnSet(g, S) \in Nat
  BY SumNat
<1>2. \A y \in S : f[y] \in Int /\ g[y] \in Int
  OBVIOUS
<1> QED  BY <1>1, <1>2, SumChange

LEMMA SumZero ==
  ASSUME NEW f, NEW S, IsFiniteSet(S), \A x \in S : f[x] = 0
  PROVE  SumFunctionOnSet(f, S) = 0
<1> DEFINE B == {T \in SUBSET S : SumFunctionOnSet(f, T) # 0}
<1> SUFFICES ASSUME B # {} PROVE FALSE
  OBVIOUS
<1>1. PICK T \in B : \A U \in B : U \subseteq T => U = T
  <2>1. B \in SUBSET SUBSET S
    OBVIOUS
  <2> HIDE DEF B
  <2> QED  BY <2>1, MinimalSet
<1>2. T \in SUBSET S /\ SumFunctionOnSet(f, T) # 0
  OBVIOUS
<1>3. T # {}
  BY <1>2, SumEmpty
<1>4. IsFiniteSet(T)
  BY <1>2, FS_Subset
<1>5. Pick(T) \in T
  BY <1>3, PickIn
<1>6. T \ {Pick(T)} \notin B /\ T \ {Pick(T)} \in SUBSET S
  BY <1>1, <1>2, <1>5
<1>7. SumFunctionOnSet(f, T \ {Pick(T)}) = 0 /\ f[Pick(T)] = 0
  BY <1>2, <1>5, <1>6
<1> QED  BY <1>2, <1>3, <1>4, <1>7, SumFirst

(* One term, or none, is no more than the sum of naturals.                 *)
LEMMA SumTerm ==
  ASSUME NEW f, NEW S, IsFiniteSet(S), \A x \in S : f[x] \in Nat, NEW x \in S
  PROVE  f[x] <= SumFunctionOnSet(f, S)
<1>1. IsFiniteSet(S \ {x})
  BY FS_Subset
<1>2. SumFunctionOnSet(f, S \ {x}) \in Nat
  BY <1>1, SumNat
<1> QED  BY <1>2, SumPick

(* So many terms, none of them greater than b.                             *)
LEMMA SumBound ==
  ASSUME NEW f, NEW S, IsFiniteSet(S), NEW b \in Nat,
         \A x \in S : f[x] \in Nat /\ f[x] <= b
  PROVE  SumFunctionOnSet(f, S) <= Cardinality(S) * b
<1> DEFINE B == {T \in SUBSET S : ~(SumFunctionOnSet(f, T) <= Cardinality(T) * b)}
<1> SUFFICES ASSUME B # {} PROVE FALSE
  OBVIOUS
<1>1. PICK T \in B : \A U \in B : U \subseteq T => U = T
  <2>1. B \in SUBSET SUBSET S
    OBVIOUS
  <2> HIDE DEF B
  <2> QED  BY <2>1, MinimalSet
<1>2. T \in SUBSET S /\ ~(SumFunctionOnSet(f, T) <= Cardinality(T) * b)
  OBVIOUS
<1>3. IsFiniteSet(T)
  BY <1>2, FS_Subset
<1>4. T # {}
  <2> SUFFICES ASSUME T = {} PROVE FALSE
    OBVIOUS
  <2>1. SumFunctionOnSet(f, T) = 0 /\ Cardinality(T) = 0
    BY SumEmpty, FS_EmptySet
  <2> QED  BY <2>1, <1>2
<1>5. PICK x \in T : TRUE
  BY <1>4
<1> DEFINE U == T \ {x}
<1>6. U \in SUBSET S /\ U \notin B /\ IsFiniteSet(U) /\ Cardinality(U) = Cardinality(T) - 1
  BY <1>1, <1>2, <1>3, <1>5, FS_RemoveElement
<1>7. SumFunctionOnSet(f, U) <= Cardinality(U) * b
  BY <1>6
<1>8. SumFunctionOnSet(f, T) = f[x] + SumFunctionOnSet(f, U)
  BY <1>2, <1>3, SumPick
<1>9. SumFunctionOnSet(f, U) \in Nat /\ f[x] \in Nat /\ f[x] <= b
  BY <1>2, <1>6, SumNat
<1> HIDE DEF U, B
<1>10. \A n \in Nat : (n - 1) * b + b = n * b
  OBVIOUS
<1>11. Cardinality(T) \in Nat /\ (Cardinality(T) - 1) * b \in Int
  BY <1>3, FS_CardinalityType
<1>12. (Cardinality(T) - 1) * b + b = Cardinality(T) * b
  BY <1>10, <1>11
<1> QED  BY <1>2, <1>6, <1>7, <1>8, <1>9, <1>11, <1>12
----
(* The sums of one function over two sets.                                 *)

LEMMA SumUnion ==
  ASSUME NEW f, NEW S, NEW U, IsFiniteSet(S), IsFiniteSet(U), S \cap U = {},
         \A x \in S \cup U : f[x] \in Int
  PROVE  SumFunctionOnSet(f, S \cup U) = SumFunctionOnSet(f, S) + SumFunctionOnSet(f, U)
<1> DEFINE B == {T \in SUBSET U : SumFunctionOnSet(f, S \cup T)
                                    # SumFunctionOnSet(f, S) + SumFunctionOnSet(f, T)}
<1> SUFFICES ASSUME B # {} PROVE FALSE
  OBVIOUS
<1>1. PICK T \in B : \A V \in B : V \subseteq T => V = T
  <2>1. B \in SUBSET SUBSET U
    OBVIOUS
  <2> HIDE DEF B
  <2> QED  BY <2>1, MinimalSet
<1>2. /\ T \in SUBSET U
      /\ SumFunctionOnSet(f, S \cup T) # SumFunctionOnSet(f, S) + SumFunctionOnSet(f, T)
  OBVIOUS
<1>3. IsFiniteSet(T) /\ SumFunctionOnSet(f, S) \in Int
  <2>1. IsFiniteSet(T)
    BY <1>2, FS_Subset
  <2>2. SumFunctionOnSet(f, S) \in Int
    BY SumInt
  <2> QED  BY <2>1, <2>2
<1>4. T # {}
  <2> SUFFICES ASSUME T = {} PROVE FALSE
    OBVIOUS
  <2>1. SumFunctionOnSet(f, T) = 0 /\ S \cup T = S
    BY SumEmpty
  <2> QED  BY <1>2, <1>3, <2>1
<1>5. PICK x \in T : TRUE
  BY <1>4
<1> DEFINE V == T \ {x}
<1>6. V \in SUBSET U /\ V \notin B /\ IsFiniteSet(V)
  BY <1>1, <1>2, <1>3, <1>5, FS_Subset
<1>7. SumFunctionOnSet(f, S \cup V) = SumFunctionOnSet(f, S) + SumFunctionOnSet(f, V)
  BY <1>6
<1> HIDE DEF B
<1>8. SumFunctionOnSet(f, T) = f[x] + SumFunctionOnSet(f, V)
  BY <1>2, <1>3, SumPick
<1>9. SumFunctionOnSet(f, S \cup T) = f[x] + SumFunctionOnSet(f, S \cup V)
  <2>1. IsFiniteSet(S \cup T) /\ x \in S \cup T /\ \A y \in S \cup T : f[y] \in Int
    BY <1>2, <1>3, FS_Union
  <2>2. (S \cup T) \ {x} = S \cup V
    BY <1>2, <1>5
  <2> QED  BY <2>1, <2>2, SumPick
<1>10. SumFunctionOnSet(f, V) \in Int /\ f[x] \in Int
  <2>1. SumFunctionOnSet(f, V) \in Int
    BY <1>6, SumInt
  <2> QED  BY <2>1, <1>2
<1> HIDE DEF V
<1> QED  BY <1>2, <1>3, <1>7, <1>8, <1>9, <1>10

(* Fewer naturals sum up to no more.                                       *)
LEMMA SumSubset ==
  ASSUME NEW f, NEW S, IsFiniteSet(S), \A x \in S : f[x] \in Nat, NEW T \in SUBSET S
  PROVE  SumFunctionOnSet(f, T) <= SumFunctionOnSet(f, S)
<1> DEFINE U == S \ T
<1>1. IsFiniteSet(T) /\ IsFiniteSet(U) /\ T \cap U = {} /\ T \cup U = S
  BY FS_Subset
<1>2. \A x \in T \cup U : f[x] \in Int
  BY <1>1
<1> HIDE DEF U
<1>3. SumFunctionOnSet(f, S) = SumFunctionOnSet(f, T) + SumFunctionOnSet(f, U)
  BY <1>1, <1>2, SumUnion
<1>4. SumFunctionOnSet(f, T) \in Nat /\ SumFunctionOnSet(f, U) \in Nat
  BY <1>1, SumNat
<1> QED  BY <1>3, <1>4

(* The same terms under other names: m renames S to R, and g on R is f.    *)
Renames(m, S, R, f, g) ==
  /\ \A x \in S : f[x] \in Int /\ g[m[x]] = f[x]
  /\ \A x, y \in S : m[x] = m[y] => x = y
  /\ R = {m[x] : x \in S}

LEMMA SumRename ==
  ASSUME NEW f, NEW g, NEW m, NEW S, NEW R, IsFiniteSet(S), Renames(m, S, R, f, g)
  PROVE  SumFunctionOnSet(g, R) = SumFunctionOnSet(f, S)
<1> DEFINE To(T) == {m[x] : x \in T}
           B == {T \in SUBSET S : SumFunctionOnSet(g, To(T)) # SumFunctionOnSet(f, T)}
<1>0. /\ \A x \in S : f[x] \in Int /\ g[m[x]] = f[x]
      /\ \A x, y \in S : m[x] = m[y] => x = y
      /\ R = To(S)
  BY DEF Renames
<1> SUFFICES ASSUME B # {} PROVE FALSE
  <2>1. R = To(S)
    BY <1>0
  <2>2. S \notin B => SumFunctionOnSet(g, To(S)) = SumFunctionOnSet(f, S)
    OBVIOUS
  <2> QED  BY <2>1, <2>2
<1>1. PICK T \in B : \A V \in B : V \subseteq T => V = T
  <2>1. B \in SUBSET SUBSET S
    OBVIOUS
  <2> HIDE DEF B
  <2> QED  BY <2>1, MinimalSet
<1>2. T \in SUBSET S /\ SumFunctionOnSet(g, To(T)) # SumFunctionOnSet(f, T)
  OBVIOUS
<1>3. IsFiniteSet(T)
  BY <1>2, FS_Subset
<1>4. T # {}
  <2> SUFFICES ASSUME T = {} PROVE FALSE
    OBVIOUS
  <2>1. To(T) = {}
    OBVIOUS
  <2>2. SumFunctionOnSet(f, {}) = 0 /\ SumFunctionOnSet(g, {}) = 0
    BY SumEmpty
  <2> QED  BY <1>2, <2>1, <2>2
<1>5. PICK x \in T : TRUE
  BY <1>4
<1> DEFINE V == T \ {x}
<1>6. V \in SUBSET S /\ V \notin B
  BY <1>1, <1>2, <1>5
<1>7. SumFunctionOnSet(g, To(V)) = SumFunctionOnSet(f, V)
  BY <1>6
<1>8. SumFunctionOnSet(f, T) = f[x] + SumFunctionOnSet(f, V)
  <2> HIDE DEF B
  <2> QED  BY <1>0, <1>2, <1>3, SumPick
<1>9. SumFunctionOnSet(g, To(T)) = g[m[x]] + SumFunctionOnSet(g, To(V))
  <2>1. To(T) \ {m[x]} = To(V) /\ m[x] \in To(T)
    BY <1>0, <1>2, <1>5
  <2>2. IsFiniteSet(To(T))
    <3> DEFINE h == [y \in T |-> m[y]]
    <3>1. h \in [T -> To(T)] /\ \A z \in To(T) : \E y \in T : h[y] = z
      OBVIOUS
    <3>2. h \in Surjection(T, To(T))
      BY <3>1 DEF Surjection
    <3> HIDE DEF B, h, To
    <3> QED  BY <1>3, <3>2, FS_Surjection
  <2>3. \A z \in To(T) : g[z] \in Int
    BY <1>0, <1>2
  <2> HIDE DEF B, V, To
  <2> QED  BY <2>1, <2>2, <2>3, SumPick
<1>10. SumFunctionOnSet(g, To(T)) = SumFunctionOnSet(f, T)
  BY <1>0, <1>2, <1>5, <1>7, <1>8, <1>9
<1> QED  BY <1>2, <1>10
----
(* A finite set of numbers has a greatest.                                 *)
LEMMA GreatestExists ==
  ASSUME NEW S, IsFiniteSet(S), S # {}, \A x \in S : x \in Int
  PROVE  \E x \in S : \A y \in S : x >= y
<1> DEFINE Above(x) == {y \in S : y > x}
<1>0. PICK B : B = {Above(x) : x \in S}
  OBVIOUS
<1>1. B \in SUBSET SUBSET S /\ B # {}
  <2>1. \A U \in B : U \in SUBSET S
    BY <1>0
  <2>2. PICK x \in S : TRUE
    OBVIOUS
  <2>3. Above(x) \in B
    BY <1>0
  <2> QED  BY <2>1, <2>3
<1>2. PICK T \in B : \A U \in B : U \subseteq T => U = T
  BY <1>1, MinimalSet
<1>3. PICK x \in S : T = Above(x)
  BY <1>0
<1>4. ASSUME NEW y \in S, y > x PROVE FALSE
  <2>1. \A z \in S : z > y => z > x
    BY <1>4
  <2>2. ~(y > y)
    OBVIOUS
  <2>3. Above(y) \subseteq Above(x) /\ y \in Above(x) /\ y \notin Above(y)
    BY <1>4, <2>1, <2>2
  <2>4. Above(y) \in B
    BY <1>0
  <2> QED  BY <1>2, <1>3, <2>3, <2>4
<1>5. \A y \in S : x >= y
  BY <1>4
<1> QED  BY <1>5
====
