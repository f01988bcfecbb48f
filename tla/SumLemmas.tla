------------------------------ MODULE SumLemmas ------------------------------
(***************************************************************************)
(* What is known of SumFunctionOnSet and SumFunction, the folds of the     *)
(* community module Functions with which FundLedger adds amounts.  The     *)
(* fold is a recursive function over the subsets of a set (Table).  Facts  *)
(* for every finite set come from a minimal counterexample, a subset all   *)
(* of whose smaller subsets are no counterexample, instead of induction.   *)
(***************************************************************************)
EXTENDS Integers, FiniteSets, Functions, FiniteSetTheorems, TLAPS

\* The fold's choice of an element.
Pick1(s) == CHOOSE x \in s : TRUE

\* g is the fold's table over the subsets of T.
Table(f, g, T) ==
  g = [s \in SUBSET T |-> IF s = {} THEN 0 ELSE f[Pick1(s)] + g[s \ {Pick1(s)}]]

\* The chosen element of a set that is not empty is one of its elements.
LEMMA Picked == ASSUME NEW s, s # {} PROVE Pick1(s) \in s
BY DEF Pick1

\* A collection of subsets of a finite set has a minimal member.
LEMMA Minimal ==
  ASSUME NEW S, IsFiniteSet(S), NEW C, C \subseteq SUBSET S, C # {}
  PROVE  \E s \in C : \A t \in C : t \subseteq s => t = s
<1>1. IsWellFoundedOn(StrictSubsetOrdering(S), SUBSET S)
  BY FS_StrictSubsetOrderingWellFounded, FS_FiniteSubsetsOfFinite
<1>2. \E s \in C : \A t \in C : ~ (<<t, s>> \in StrictSubsetOrdering(S))
  BY <1>1, WFMin, Zenon
<1> QED
  BY <1>2 DEF StrictSubsetOrdering

\* Two tables agree where both are defined.
LEMMA TablesAgree ==
  ASSUME NEW f, NEW U, NEW V, IsFiniteSet(U), NEW g, NEW h, Table(f, g, U), Table(f, h, V)
  PROVE  \A s \in (SUBSET U) \cap (SUBSET V) : g[s] = h[s]
<1> DEFINE C == {s \in (SUBSET U) \cap (SUBSET V) : g[s] # h[s]}
<1> SUFFICES ASSUME C # {} PROVE FALSE
  OBVIOUS
<1>1. C \subseteq SUBSET U
  OBVIOUS
<1>2. PICK s \in C : \A t \in C : t \subseteq s => t = s
  <2> HIDE DEF C
  <2> QED BY <1>1, Minimal
<1>3. g[s] = (IF s = {} THEN 0 ELSE f[Pick1(s)] + g[s \ {Pick1(s)}])
  BY DEF Table
<1>4. h[s] = (IF s = {} THEN 0 ELSE f[Pick1(s)] + h[s \ {Pick1(s)}])
  BY DEF Table
<1>5. s # {}
  BY <1>3, <1>4
<1>6. Pick1(s) \in s
  BY <1>5, Picked
<1>7. s \ {Pick1(s)} \notin C
  BY <1>2, <1>6
<1>8. g[s \ {Pick1(s)}] = h[s \ {Pick1(s)}]
  BY <1>7
<1> QED
  BY <1>3, <1>4, <1>8

\* Every finite set has a table: the recursion of the fold is well founded.
LEMMA TableExists ==
  ASSUME NEW f, NEW S, IsFiniteSet(S)
  PROVE  \E g : Table(f, g, S)
<1> DEFINE C == {T \in SUBSET S : ~ \E g : Table(f, g, T)}
<1> SUFFICES ASSUME C # {} PROVE FALSE
  OBVIOUS
<1>2. PICK T \in C : \A U \in C : U \subseteq T => U = T
  <2>1. C \subseteq SUBSET S
    OBVIOUS
  <2> HIDE DEF C
  <2> QED BY <2>1, Minimal
<1> DEFINE tab(U) == CHOOSE g : Table(f, g, U)
           h == [s \in SUBSET T |-> IF s = {} THEN 0
                                   ELSE f[Pick1(s)] + tab(s \ {Pick1(s)})[s \ {Pick1(s)}]]
<1>3. \A U \in SUBSET T : IsFiniteSet(U)
  BY FS_Subset
<1>4. ASSUME NEW U \in SUBSET T, U # T PROVE Table(f, tab(U), U)
  <2>1. U \notin C
    BY <1>2, <1>4
  <2> QED
    BY <2>1
<1>5. ASSUME NEW s \in SUBSET T, s # {} 
      PROVE  h[s \ {Pick1(s)}] = tab(s \ {Pick1(s)})[s \ {Pick1(s)}]
  <2> DEFINE u == s \ {Pick1(s)}
             v == u \ {Pick1(u)}
  <2>1. u \in SUBSET T /\ u # T
    BY <1>5, Picked
  <2>2. Table(f, tab(u), u)
    BY <2>1, <1>4
  <2>3. tab(u)[u] = IF u = {} THEN 0 ELSE f[Pick1(u)] + tab(u)[v]
    <3> HIDE DEF tab, u
    <3> QED BY <2>2 DEF Table
  <2>4. h[u] = IF u = {} THEN 0 ELSE f[Pick1(u)] + tab(v)[v]
    BY <2>1
  <2>5. CASE u = {}
    <3>1. h[u] = tab(u)[u]
      <4> HIDE DEF h, tab, u, v
      <4> QED BY <2>5, <2>3, <2>4
    <3> QED BY <3>1
  <2>6. CASE u # {}
    <3>1. v \in SUBSET T /\ v # T /\ v \subseteq u
      BY <2>1
    <3>2. Table(f, tab(v), v)
      BY <3>1, <1>4
    <3>3. tab(u)[v] = tab(v)[v]
      <4> HIDE DEF tab, u, v
      <4> QED BY <2>1, <2>2, <3>1, <3>2, <1>3, TablesAgree
    <3>4. h[u] = tab(u)[u]
      <4> HIDE DEF h, tab, u, v
      <4> QED BY <3>3, <2>6, <2>3, <2>4
    <3> QED BY <3>4
  <2> QED BY <2>5, <2>6
<1>6. Table(f, h, T)
  <2> DEFINE k == [s \in SUBSET T |-> IF s = {} THEN 0 ELSE f[Pick1(s)] + h[s \ {Pick1(s)}]]
  <2>1. \A s \in SUBSET T : h[s] = k[s]
    <3> TAKE s \in SUBSET T
    <3>1. CASE s = {} BY <3>1
    <3>2. CASE s # {}
      <4>1. h[s] = f[Pick1(s)] + tab(s \ {Pick1(s)})[s \ {Pick1(s)}]
        BY <3>2
      <4>2. k[s] = f[Pick1(s)] + h[s \ {Pick1(s)}]
        <5> HIDE DEF h
        <5> QED BY <3>2
      <4> HIDE DEF h, k, tab
      <4> QED BY <4>1, <4>2, <3>2, <1>5
    <3> QED BY <3>1, <3>2
  <2>2. h = k
    BY <2>1
  <2> HIDE DEF h
  <2> QED BY <2>2 DEF Table
<1>7. T \in C OBVIOUS
<1> HIDE DEF h
<1> QED
  BY <1>6, <1>7

\* A sum is the value of a table for the whole set.
LEMMA SumTable ==
  ASSUME NEW f, NEW S, IsFiniteSet(S)
  PROVE  \E g : Table(f, g, S) /\ SumFunctionOnSet(f, S) = g[S]
<1> DEFINE g == CHOOSE g : Table(f, g, S)
<1>1. Table(f, g, S)
  BY TableExists
<1>2. SumFunctionOnSet(f, S) = g[S]
  BY DEF SumFunctionOnSet, FoldFunctionOnSet, MapThenFoldSet, Table, Pick1
<1> QED
  BY <1>1, <1>2

-----------------------------------------------------------------------------
\* A sum takes the chosen element first.
LEMMA SumStep ==
  ASSUME NEW f, NEW S, IsFiniteSet(S)
  PROVE  /\ SumFunctionOnSet(f, {}) = 0
         /\ S # {} => SumFunctionOnSet(f, S)
                        = f[Pick1(S)] + SumFunctionOnSet(f, S \ {Pick1(S)})
<1>1. SumFunctionOnSet(f, {}) = 0
  <2>1. IsFiniteSet({})
    BY FS_EmptySet
  <2>2. PICK g : Table(f, g, {}) /\ SumFunctionOnSet(f, {}) = g[{}]
    BY <2>1, SumTable
  <2>3. {} \in SUBSET {}
    OBVIOUS
  <2> QED
    BY <2>2, <2>3 DEF Table
<1>2. ASSUME S # {}
      PROVE  SumFunctionOnSet(f, S) = f[Pick1(S)] + SumFunctionOnSet(f, S \ {Pick1(S)})
  <2> DEFINE T == S \ {Pick1(S)}
  <2>1. IsFiniteSet(T) /\ T \subseteq S
    BY FS_Subset
  <2>2. PICK g : Table(f, g, S) /\ SumFunctionOnSet(f, S) = g[S]
    BY SumTable
  <2>3. PICK h : Table(f, h, T) /\ SumFunctionOnSet(f, T) = h[T]
    BY <2>1, SumTable
  <2>4. g[T] = h[T]
    <3>1. \A s \in (SUBSET S) \cap (SUBSET T) : g[s] = h[s]
      <4> HIDE DEF T
      <4> QED BY <2>2, <2>3, TablesAgree
    <3> QED BY <3>1, <2>1
  <2>5. g[S] = f[Pick1(S)] + g[T]
    BY <1>2, <2>2 DEF Table
  <2> QED
    BY <2>2, <2>3, <2>4, <2>5
<1> QED
  BY <1>1, <1>2

\* A sum of integers is an integer.
LEMMA SumInt ==
  ASSUME NEW f, NEW S, IsFiniteSet(S), \A x \in S : f[x] \in Int
  PROVE  SumFunctionOnSet(f, S) \in Int
<1> DEFINE C == {T \in SUBSET S : SumFunctionOnSet(f, T) \notin Int}
<1> SUFFICES ASSUME C # {} PROVE FALSE
  OBVIOUS
<1>1. PICK T \in C : \A U \in C : U \subseteq T => U = T
  <2>1. C \subseteq SUBSET S
    OBVIOUS
  <2> HIDE DEF C
  <2> QED BY <2>1, Minimal
<1>2. IsFiniteSet(T)
  BY FS_Subset
<1>3. T # {}
  <2>1. SumFunctionOnSet(f, {}) = 0
    BY SumStep
  <2> QED
    BY <2>1
<1>4. Pick1(T) \in T
  BY <1>3, Picked
<1>5. T \ {Pick1(T)} \notin C /\ f[Pick1(T)] \in Int
  BY <1>1, <1>4
<1>6. SumFunctionOnSet(f, T \ {Pick1(T)}) \in Int
  BY <1>5
<1>7. SumFunctionOnSet(f, T) = f[Pick1(T)] + SumFunctionOnSet(f, T \ {Pick1(T)})
  BY <1>2, <1>3, SumStep
<1> QED
  BY <1>5, <1>6, <1>7

\* Any element may be taken out of a sum.
LEMMA SumSplit ==
  ASSUME NEW f, NEW S, IsFiniteSet(S), \A x \in S : f[x] \in Int, NEW a \in S
  PROVE  SumFunctionOnSet(f, S) = f[a] + SumFunctionOnSet(f, S \ {a})
<1> DEFINE Bad(T, x) == SumFunctionOnSet(f, T) # f[x] + SumFunctionOnSet(f, T \ {x})
           C == {T \in SUBSET S : \E x \in T : Bad(T, x)}
<1> SUFFICES ASSUME C # {} PROVE FALSE
  OBVIOUS
<1>1. PICK T \in C : \A U \in C : U \subseteq T => U = T
  <2>1. C \subseteq SUBSET S
    OBVIOUS
  <2> HIDE DEF C
  <2> QED BY <2>1, Minimal
<1>2. PICK x \in T : Bad(T, x)
  OBVIOUS
<1> DEFINE p == Pick1(T)
<1>3. p \in T
  BY Picked
<1>4. \A U \in SUBSET T : IsFiniteSet(U) /\ U \in SUBSET S
  BY FS_Subset
<1>5. SumFunctionOnSet(f, T) = f[p] + SumFunctionOnSet(f, T \ {p})
  BY <1>3, <1>4, SumStep
<1>6. x # p
  BY <1>2, <1>5
<1>7. T \ {p} \notin C /\ T \ {x} \notin C
  BY <1>1, <1>3, <1>2
<1>8. SumFunctionOnSet(f, T \ {p}) = f[x] + SumFunctionOnSet(f, (T \ {p}) \ {x})
  BY <1>7, <1>6, <1>2, <1>4
<1>9. SumFunctionOnSet(f, T \ {x}) = f[p] + SumFunctionOnSet(f, (T \ {x}) \ {p})
  BY <1>7, <1>6, <1>3, <1>4
<1>10. (T \ {p}) \ {x} = (T \ {x}) \ {p}
  OBVIOUS
<1>11. f[p] \in Int /\ f[x] \in Int /\ SumFunctionOnSet(f, (T \ {p}) \ {x}) \in Int
  <2>1. f[p] \in Int /\ f[x] \in Int
    BY <1>2, <1>3
  <2>2. IsFiniteSet((T \ {p}) \ {x}) /\ \A y \in (T \ {p}) \ {x} : f[y] \in Int
    BY <1>4
  <2> QED
    BY <2>1, <2>2, SumInt
<1>12. SumFunctionOnSet(f, T) = f[x] + SumFunctionOnSet(f, T \ {x})
  <2> DEFINE rest == SumFunctionOnSet(f, (T \ {p}) \ {x})
  <2>1. f[p] + (f[x] + rest) = f[x] + (f[p] + rest)
    <3> HIDE DEF C, p, rest
    <3> QED BY <1>11 DEF rest
  <2>2. SumFunctionOnSet(f, T) = f[p] + (f[x] + rest)
    BY <1>5, <1>8
  <2>3. SumFunctionOnSet(f, T \ {x}) = f[p] + rest
    BY <1>9, <1>10
  <2> HIDE DEF C, p, rest
  <2> QED BY <2>1, <2>2, <2>3
<1> QED
  BY <1>12, <1>2

\* Two functions that agree on a set have the same sum over it.
LEMMA SumSame ==
  ASSUME NEW f, NEW g, NEW S, IsFiniteSet(S), \A x \in S : f[x] = g[x]
  PROVE  SumFunctionOnSet(f, S) = SumFunctionOnSet(g, S)
<1> DEFINE C == {T \in SUBSET S : SumFunctionOnSet(f, T) # SumFunctionOnSet(g, T)}
<1> SUFFICES ASSUME C # {} PROVE FALSE
  OBVIOUS
<1>1. PICK T \in C : \A U \in C : U \subseteq T => U = T
  <2>1. C \subseteq SUBSET S
    OBVIOUS
  <2> HIDE DEF C
  <2> QED BY <2>1, Minimal
<1>2. IsFiniteSet(T)
  BY FS_Subset
<1>3. T # {}
  BY <1>2, SumStep
<1>4. Pick1(T) \in T
  BY <1>3, Picked
<1>5. T \ {Pick1(T)} \notin C /\ f[Pick1(T)] = g[Pick1(T)]
  BY <1>1, <1>4
<1>6. SumFunctionOnSet(f, T \ {Pick1(T)}) = SumFunctionOnSet(g, T \ {Pick1(T)})
  BY <1>5
<1> QED
  BY <1>2, <1>3, <1>5, <1>6, SumStep

\* A sum of naturals is a natural.
LEMMA SumNat ==
  ASSUME NEW f, NEW S, IsFiniteSet(S), \A x \in S : f[x] \in Nat
  PROVE  SumFunctionOnSet(f, S) \in Nat
<1> DEFINE C == {T \in SUBSET S : SumFunctionOnSet(f, T) \notin Nat}
<1> SUFFICES ASSUME C # {} PROVE FALSE
  OBVIOUS
<1>1. PICK T \in C : \A U \in C : U \subseteq T => U = T
  <2>1. C \subseteq SUBSET S
    OBVIOUS
  <2> HIDE DEF C
  <2> QED BY <2>1, Minimal
<1>2. IsFiniteSet(T)
  BY FS_Subset
<1>3. T # {}
  <2>1. SumFunctionOnSet(f, {}) = 0
    BY SumStep
  <2> QED
    BY <2>1
<1>4. Pick1(T) \in T
  BY <1>3, Picked
<1>5. T \ {Pick1(T)} \notin C /\ f[Pick1(T)] \in Nat
  BY <1>1, <1>4
<1>6. SumFunctionOnSet(f, T \ {Pick1(T)}) \in Nat
  BY <1>5
<1>7. SumFunctionOnSet(f, T) = f[Pick1(T)] + SumFunctionOnSet(f, T \ {Pick1(T)})
  BY <1>2, <1>3, SumStep
<1> QED
  BY <1>5, <1>6, <1>7

-----------------------------------------------------------------------------
(***************************************************************************)
(* What a step does to the sum of a function over its domain.              *)
(***************************************************************************)

\* Functions that agree everywhere have the same sum.
LEMMA SumSameFunction ==
  ASSUME NEW f, NEW g, IsFiniteSet(DOMAIN f), DOMAIN g = DOMAIN f,
         \A x \in DOMAIN f : f[x] = g[x]
  PROVE  SumFunction(g) = SumFunction(f)
BY SumSame DEF SumFunction

\* The sum of nothing is zero.
LEMMA SumEmpty == ASSUME NEW f, DOMAIN f = {} PROVE SumFunction(f) = 0
<1>1. IsFiniteSet(DOMAIN f)
  BY FS_EmptySet
<1> QED
  BY <1>1, SumStep DEF SumFunction

\* One more element.
LEMMA SumAdd ==
  ASSUME NEW f, NEW g, NEW a, IsFiniteSet(DOMAIN f), \A x \in DOMAIN f : f[x] \in Int,
         a \notin DOMAIN f, DOMAIN g = DOMAIN f \cup {a}, g[a] \in Int,
         \A x \in DOMAIN f : g[x] = f[x]
  PROVE  SumFunction(g) = SumFunction(f) + g[a]
<1> DEFINE S == DOMAIN f
<1>1. IsFiniteSet(S \cup {a}) /\ \A x \in S \cup {a} : g[x] \in Int
  BY FS_AddElement
<1>2. SumFunctionOnSet(g, S \cup {a}) = g[a] + SumFunctionOnSet(g, (S \cup {a}) \ {a})
  BY <1>1, SumSplit
<1>3. (S \cup {a}) \ {a} = S
  OBVIOUS
<1>4. SumFunctionOnSet(g, S) = SumFunctionOnSet(f, S)
  BY SumSame
<1>5. SumFunctionOnSet(f, S) \in Int
  BY SumInt
<1>6. SumFunction(g) = SumFunctionOnSet(g, S \cup {a})
  BY DEF SumFunction
<1>7. SumFunction(f) = SumFunctionOnSet(f, S)
  BY DEF SumFunction
<1> HIDE DEF S
<1>8. SumFunction(g) = g[a] + SumFunction(f)
  BY <1>2, <1>3, <1>4, <1>6, <1>7
<1> QED
  BY <1>8, <1>5, <1>7

\* Another value for one element.
LEMMA SumChange ==
  ASSUME NEW f, NEW g, NEW a, IsFiniteSet(DOMAIN f), \A x \in DOMAIN f : f[x] \in Int,
         a \in DOMAIN f, DOMAIN g = DOMAIN f, g[a] \in Int,
         \A x \in DOMAIN f \ {a} : g[x] = f[x]
  PROVE  SumFunction(g) = SumFunction(f) + (g[a] - f[a])
<1> DEFINE S == DOMAIN f
           rest == SumFunctionOnSet(f, S \ {a})
<1>1. SumFunction(f) = f[a] + rest
  BY SumSplit DEF SumFunction
<1>2. \A x \in S : g[x] \in Int
  OBVIOUS
<1>3. SumFunction(g) = g[a] + SumFunctionOnSet(g, S \ {a})
  BY <1>2, SumSplit DEF SumFunction
<1>4. IsFiniteSet(S \ {a})
  BY FS_RemoveElement
<1>5. SumFunctionOnSet(g, S \ {a}) = rest
  BY <1>4, SumSame
<1>6. rest \in Int
  BY <1>4, SumInt
<1>7. SumFunction(g) = g[a] + rest
  BY <1>3, <1>5
<1> HIDE DEF rest
<1> QED
  BY <1>1, <1>6, <1>7

\* The sum of a function to the integers is an integer.
LEMMA SumFunctionInt ==
  ASSUME NEW f, IsFiniteSet(DOMAIN f), \A x \in DOMAIN f : f[x] \in Int
  PROVE  SumFunction(f) \in Int
BY SumInt DEF SumFunction

\* The sum of a function to the naturals is a natural.
LEMMA SumFunctionNat ==
  ASSUME NEW f, IsFiniteSet(DOMAIN f), \A x \in DOMAIN f : f[x] \in Nat
  PROVE  SumFunction(f) \in Nat
BY SumNat DEF SumFunction

\* A sum of naturals is zero only if all of them are.
LEMMA SumZero ==
  ASSUME NEW f, IsFiniteSet(DOMAIN f), \A x \in DOMAIN f : f[x] \in Nat, SumFunction(f) = 0,
         NEW a \in DOMAIN f
  PROVE  f[a] = 0
<1> DEFINE rest == SumFunctionOnSet(f, DOMAIN f \ {a})
<1>1. SumFunction(f) = f[a] + rest
  BY SumSplit DEF SumFunction
<1>2. IsFiniteSet(DOMAIN f \ {a})
  BY FS_RemoveElement
<1>3. rest \in Nat
  BY <1>2, SumNat
<1> HIDE DEF rest
<1> QED
  BY <1>1, <1>3

\* A sum of naturals over fewer elements is no greater.
LEMMA SumWithin ==
  ASSUME NEW f, NEW S, IsFiniteSet(S), \A x \in S : f[x] \in Nat, NEW T \in SUBSET S
  PROVE  SumFunctionOnSet(f, T) <= SumFunctionOnSet(f, S)
<1> DEFINE Exceeded(U) == \E V \in SUBSET U : ~(SumFunctionOnSet(f, V) <= SumFunctionOnSet(f, U))
           C == {U \in SUBSET S : Exceeded(U)}
<1> SUFFICES ASSUME C # {} PROVE FALSE
  OBVIOUS
<1>1. PICK U \in C : \A V \in C : V \subseteq U => V = U
  <2>1. C \subseteq SUBSET S
    OBVIOUS
  <2> HIDE DEF C
  <2> QED
    BY <2>1, Minimal
<1>2. PICK V \in SUBSET U : ~(SumFunctionOnSet(f, V) <= SumFunctionOnSet(f, U))
  BY <1>1
<1>3. /\ IsFiniteSet(U) /\ IsFiniteSet(V) /\ \A x \in U : f[x] \in Nat
      /\ SumFunctionOnSet(f, U) \in Nat /\ SumFunctionOnSet(f, V) \in Nat
  <2>1. IsFiniteSet(U) /\ IsFiniteSet(V) /\ \A x \in U : f[x] \in Nat
    BY <1>1, FS_Subset
  <2> QED
    BY <2>1, SumNat
<1>4. PICK a \in U : a \notin V
  BY <1>2, <1>3
<1>5. U \ {a} \notin C /\ V \in SUBSET (U \ {a}) /\ U \ {a} \in SUBSET S
  BY <1>1, <1>4
<1>6. SumFunctionOnSet(f, V) <= SumFunctionOnSet(f, U \ {a})
  BY <1>5
<1>7. SumFunctionOnSet(f, U) = f[a] + SumFunctionOnSet(f, U \ {a})
  BY <1>3, SumSplit
<1>8. SumFunctionOnSet(f, U \ {a}) \in Nat /\ f[a] \in Nat
  <2>1. IsFiniteSet(U \ {a})
    BY <1>3, FS_RemoveElement
  <2> QED
    BY <1>3, <2>1, SumNat
<1>9. SumFunctionOnSet(f, V) <= SumFunctionOnSet(f, U)
  BY <1>3, <1>6, <1>7, <1>8
<1> QED
  BY <1>2, <1>9

\* Shares: if each g[x] is to whole as f[x] is to total, so are the sums.
LEMMA SumShares ==
  ASSUME NEW f, NEW g, NEW total \in Int, NEW whole \in Int, IsFiniteSet(DOMAIN f),
         DOMAIN g = DOMAIN f, \A x \in DOMAIN f : f[x] \in Int /\ g[x] \in Int,
         \A x \in DOMAIN f : total * g[x] = whole * f[x]
  PROVE  total * SumFunction(g) = whole * SumFunction(f)
<1> DEFINE S == DOMAIN f
           C == {T \in SUBSET S : total * SumFunctionOnSet(g, T) # whole * SumFunctionOnSet(f, T)}
<1> SUFFICES ASSUME C # {} PROVE FALSE
  BY DEF SumFunction
<1>1. PICK T \in C : \A U \in C : U \subseteq T => U = T
  <2>1. C \subseteq SUBSET S
    OBVIOUS
  <2> HIDE DEF C
  <2> QED BY <2>1, Minimal
<1>2. IsFiniteSet(T) /\ IsFiniteSet(T \ {Pick1(T)})
  BY FS_Subset
<1>3. T # {}
  <2>1. SumFunctionOnSet(f, {}) = 0 /\ SumFunctionOnSet(g, {}) = 0
    BY SumStep
  <2>2. total * 0 = 0 /\ whole * 0 = 0
    OBVIOUS
  <2>3. total * SumFunctionOnSet(g, {}) = whole * SumFunctionOnSet(f, {})
    <3> HIDE DEF C
    <3> QED BY <2>1, <2>2
  <2> QED
    BY <2>3
<1> DEFINE p == Pick1(T)
           F == SumFunctionOnSet(f, T \ {p})
           G == SumFunctionOnSet(g, T \ {p})
<1>4. p \in T
  BY <1>3, Picked
<1>5. T \ {p} \notin C
  BY <1>1, <1>4
<1>6. total * G = whole * F
  BY <1>5
<1>7. F \in Int /\ G \in Int
  BY <1>2, SumInt
<1>8. SumFunctionOnSet(f, T) = f[p] + F /\ SumFunctionOnSet(g, T) = g[p] + G
  BY <1>2, <1>3, SumStep
<1>9. f[p] \in Int /\ g[p] \in Int /\ total * g[p] = whole * f[p]
  BY <1>4
<1>10. total * (g[p] + G) = whole * (f[p] + F)
  <2> HIDE DEF C, F, G, p
  <2>1. total * (g[p] + G) = total * g[p] + total * G
    BY <1>7, <1>9
  <2>2. whole * (f[p] + F) = whole * f[p] + whole * F
    BY <1>7, <1>9
  <2> QED
    BY <1>6, <1>9, <2>1, <2>2
<1>11. total * SumFunctionOnSet(g, T) = whole * SumFunctionOnSet(f, T)
  <2> HIDE DEF C, F, G, p
  <2> QED BY <1>8, <1>10
<1> QED
  BY <1>11
=============================================================================
