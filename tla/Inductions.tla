----------------------------- MODULE Inductions -----------------------------
(***************************************************************************)
(* Facts about the sums and folds of the community modules and about       *)
(* recursive functions on finite sets, which the proofs about balances,    *)
(* budgets and the block DAG rest on.  All of them are defined by a        *)
(* recursion; that its function exists, and what it computes, is shown by  *)
(* looking at a smallest set, or a smallest number, for which it were not  *)
(* so.  Induction is stated for sets, not for predicates.                  *)
(***************************************************************************)
EXTENDS FiniteSetsExt, Functions, FiniteSetTheorems, TLAPS

Pick(s) == CHOOSE e \in s : TRUE

IsSum(f, S, g) ==
    g = [s \in SUBSET S |-> IF s = {} THEN 0 ELSE f[Pick(s)] + g[s \ {Pick(s)}]]

SumOn(f, S) == (CHOOSE g : IsSum(f, S, g))[S]

LEMMA SumFunctionIs ==
    ASSUME NEW f
    PROVE  SumFunction(f) = SumOn(f, DOMAIN f)
  BY DEF SumFunction, SumFunctionOnSet, FoldFunction, FoldFunctionOnSet, MapThenFoldSet, Pick, IsSum, SumOn

LEMMA SmallestSet ==
    ASSUME NEW S, IsFiniteSet(S), NEW T, T \subseteq SUBSET S, T # {}
    PROVE  \E x \in T : \A y \in T : y \subseteq x => y = x
  <1>1. IsWellFoundedOn(StrictSubsetOrdering(S), SUBSET S)
    BY FS_StrictSubsetOrderingWellFounded, FS_FiniteSubsetsOfFinite
  <1>2. PICK x \in T : \A y \in T : ~(<<y, x>> \in StrictSubsetOrdering(S))
    BY <1>1, WFMin
  <1>3. ASSUME NEW y \in T, y \subseteq x PROVE y = x
    <2>1. <<y, x>> \in (SUBSET S) \X (SUBSET S)
      OBVIOUS
    <2> QED BY <1>2, <1>3, <2>1 DEF StrictSubsetOrdering
  <1> QED BY <1>3

LEMMA PickIs ==
    ASSUME NEW s, s # {}
    PROVE  Pick(s) \in s /\ s \ {Pick(s)} \subseteq s /\ s \ {Pick(s)} # s
  BY DEF Pick

LEMMA SumAt ==
    ASSUME NEW f, NEW S, NEW g, IsSum(f, S, g), NEW s \in SUBSET S
    PROVE  g[s] = IF s = {} THEN 0 ELSE f[Pick(s)] + g[s \ {Pick(s)}]
  <1>1. g = [t \in SUBSET S |-> IF t = {} THEN 0 ELSE f[Pick(t)] + g[t \ {Pick(t)}]]
    BY DEF IsSum
  <1> DEFINE E(t) == IF t = {} THEN 0 ELSE f[Pick(t)] + g[t \ {Pick(t)}]
  <1>2. g = [t \in SUBSET S |-> E(t)]
    BY <1>1
  <1>3. g[s] = E(s)
    <2> HIDE DEF E
    <2> QED BY <1>2
  <1> QED BY <1>3

LEMMA SumsAgree ==
    ASSUME NEW f, NEW S, IsFiniteSet(S), NEW T \in SUBSET S, NEW U \in SUBSET S,
           NEW g, IsSum(f, T, g), NEW h, IsSum(f, U, h), NEW s \in SUBSET T, s \in SUBSET U
    PROVE  g[s] = h[s]
  <1> SUFFICES ASSUME g[s] # h[s] PROVE FALSE
    OBVIOUS
  <1> DEFINE B == {t \in SUBSET s : g[t] # h[t]}
  <1>1. B \subseteq SUBSET S /\ B # {}
    OBVIOUS
  <1>2. PICK t \in B : \A y \in B : y \subseteq t => y = t
    <2> HIDE DEF B
    <2> QED BY <1>1, SmallestSet
  <1>3. t \in SUBSET T /\ t \in SUBSET U
    OBVIOUS
  <1>4. /\ g[t] = IF t = {} THEN 0 ELSE f[Pick(t)] + g[t \ {Pick(t)}]
        /\ h[t] = IF t = {} THEN 0 ELSE f[Pick(t)] + h[t \ {Pick(t)}]
    BY <1>3, SumAt
  <1>5. CASE t = {}
    BY <1>4, <1>5
  <1>6. CASE t # {}
    <2>1. t \ {Pick(t)} \subseteq t /\ t \ {Pick(t)} # t
      BY <1>6, PickIs
    <2>2. g[t \ {Pick(t)}] = h[t \ {Pick(t)}]
      BY <1>2, <2>1
    <2> QED BY <1>4, <1>6, <2>2
  <1> QED BY <1>5, <1>6

LEMMA SumExists ==
    ASSUME NEW f, NEW S, IsFiniteSet(S)
    PROVE  \A T \in SUBSET S : \E g : IsSum(f, T, g)
  <1> SUFFICES ASSUME NEW T0 \in SUBSET S, ~ \E g : IsSum(f, T0, g) PROVE FALSE
    OBVIOUS
  <1> DEFINE B == {T \in SUBSET S : ~ \E g : IsSum(f, T, g)}
  <1>1. B \subseteq SUBSET S /\ B # {}
    OBVIOUS
  <1>2. PICK T \in B : \A y \in B : y \subseteq T => y = T
    <2> HIDE DEF B
    <2> QED BY <1>1, SmallestSet
  <1>3. T \in SUBSET S /\ ~ \E g : IsSum(f, T, g)
    OBVIOUS
  <1>4. ASSUME NEW s \in SUBSET T, s # T PROVE \E g : IsSum(f, s, g)
    BY <1>2, <1>4
  <1> HIDE DEF B
  <1>5. ASSUME NEW s \in SUBSET T, s # T
        PROVE  SumOn(f, s) = IF s = {} THEN 0 ELSE f[Pick(s)] + SumOn(f, s \ {Pick(s)})
    <2>1. PICK h : h = (CHOOSE g : IsSum(f, s, g)) /\ IsSum(f, s, h)
      BY <1>4, <1>5
    <2>2. h[s] = SumOn(f, s) /\ h[s] = IF s = {} THEN 0 ELSE f[Pick(s)] + h[s \ {Pick(s)}]
      BY <2>1, SumAt DEF SumOn
    <2>3. CASE s = {}
      BY <2>2, <2>3
    <2>4. CASE s # {}
      <3>0. PICK r : r = s \ {Pick(s)}
        OBVIOUS
      <3>1. r = s \ {Pick(s)} /\ r \in SUBSET s /\ r # T /\ r \in SUBSET T /\ r \in SUBSET S /\ s \in SUBSET S
        BY <1>3, <1>5, <2>4, <3>0, PickIs
      <3>2. PICK k : k = (CHOOSE g : IsSum(f, r, g)) /\ IsSum(f, r, k)
        BY <1>4, <3>1
      <3>3. k[r] = SumOn(f, r)
        BY <3>2 DEF SumOn
      <3>4. k[r] = h[r]
        <4>1. IsSum(f, r, k) /\ IsSum(f, s, h) /\ r \in SUBSET r /\ r \in SUBSET s /\ r \in SUBSET S /\ s \in SUBSET S
          BY <2>1, <3>1, <3>2
        <4> QED BY <4>1, SumsAgree
      <3> QED BY <2>2, <2>4, <3>1, <3>3, <3>4
    <2> QED BY <2>3, <2>4
  <1> DEFINE V(s) == IF s = {} THEN 0 ELSE f[Pick(s)] + SumOn(f, s \ {Pick(s)})
             g == [s \in SUBSET T |-> V(s)]
  <1>6. ASSUME NEW s \in SUBSET T PROVE V(s) = IF s = {} THEN 0 ELSE f[Pick(s)] + g[s \ {Pick(s)}]
    <2>1. CASE s = {}
      BY <2>1
    <2>2. CASE s # {}
      <3>0. PICK r : r = s \ {Pick(s)}
        OBVIOUS
      <3>1. r = s \ {Pick(s)} /\ r \in SUBSET T /\ r # T
        BY <2>2, <3>0, PickIs
      <3>2. g[r] = V(r)
        BY <3>1
      <3>3. V(r) = SumOn(f, r)
        BY <1>5, <3>1
      <3>4. V(s) = f[Pick(s)] + SumOn(f, r)
        BY <2>2, <3>1
      <3> QED BY <2>2, <3>1, <3>2, <3>3, <3>4
    <2> QED BY <2>1, <2>2
  <1>7. g = [s \in SUBSET T |-> IF s = {} THEN 0 ELSE f[Pick(s)] + g[s \ {Pick(s)}]]
    <2> DEFINE W(s) == IF s = {} THEN 0 ELSE f[Pick(s)] + g[s \ {Pick(s)}]
    <2>1. \A s \in SUBSET T : V(s) = W(s)
      BY <1>6
    <2>2. g = [s \in SUBSET T |-> V(s)]
      OBVIOUS
    <2> HIDE DEF V, W, g
    <2>3. g = [s \in SUBSET T |-> W(s)]
      BY <2>1, <2>2
    <2> QED BY <2>3 DEF W
  <1>8. IsSum(f, T, g)
    <2> HIDE DEF g
    <2> QED BY <1>7 DEF IsSum
  <1> QED BY <1>3, <1>8

LEMMA SumStep ==
    ASSUME NEW f, NEW S, IsFiniteSet(S)
    PROVE  SumOn(f, S) = IF S = {} THEN 0 ELSE f[Pick(S)] + SumOn(f, S \ {Pick(S)})
  <1>1. PICK h : h = (CHOOSE g : IsSum(f, S, g)) /\ IsSum(f, S, h)
    BY SumExists
  <1>2. h[S] = SumOn(f, S) /\ h[S] = IF S = {} THEN 0 ELSE f[Pick(S)] + h[S \ {Pick(S)}]
    BY <1>1, SumAt DEF SumOn
  <1>3. CASE S = {}
    BY <1>2, <1>3
  <1>4. CASE S # {}
    <2>1. PICK r \in SUBSET S : r = S \ {Pick(S)}
      OBVIOUS
    <2>2. PICK k : k = (CHOOSE g : IsSum(f, r, g)) /\ IsSum(f, r, k)
      BY <2>1, SumExists
    <2>3. k[r] = h[r] /\ k[r] = SumOn(f, r)
      BY <1>1, <2>1, <2>2, SumsAgree DEF SumOn
    <2> QED BY <1>2, <1>4, <2>1, <2>3
  <1> QED BY <1>3, <1>4

LEMMA SumType ==
    ASSUME NEW f, NEW S, IsFiniteSet(S), \A x \in S : f[x] \in Int
    PROVE  SumOn(f, S) \in Int
  <1> SUFFICES ASSUME SumOn(f, S) \notin Int PROVE FALSE
    OBVIOUS
  <1> DEFINE B == {T \in SUBSET S : SumOn(f, T) \notin Int}
  <1>1. B \subseteq SUBSET S /\ B # {}
    OBVIOUS
  <1>2. PICK T \in B : \A y \in B : y \subseteq T => y = T
    <2> HIDE DEF B
    <2> QED BY <1>1, SmallestSet
  <1>3. IsFiniteSet(T) /\ T \in SUBSET S
    BY FS_Subset
  <1>4. SumOn(f, T) = IF T = {} THEN 0 ELSE f[Pick(T)] + SumOn(f, T \ {Pick(T)})
    BY <1>3, SumStep
  <1>5. CASE T # {}
    <2>1. f[Pick(T)] \in Int /\ T \ {Pick(T)} \in SUBSET T /\ T \ {Pick(T)} # T
      BY <1>3, <1>5, PickIs
    <2>2. SumOn(f, T \ {Pick(T)}) \in Int
      BY <1>2, <1>3, <2>1
    <2> QED BY <1>4, <1>5, <2>1, <2>2
  <1> QED BY <1>4, <1>5

LEMMA SumRemove ==
    ASSUME NEW f, NEW S, IsFiniteSet(S), \A x \in S : f[x] \in Int, NEW x \in S
    PROVE  SumOn(f, S) = f[x] + SumOn(f, S \ {x})
  <1> DEFINE Bad(T) == \E y \in T : SumOn(f, T) # f[y] + SumOn(f, T \ {y})
             B == {T \in SUBSET S : Bad(T)}
  <1> SUFFICES ASSUME B # {} PROVE FALSE
    OBVIOUS
  <1>1. B \subseteq SUBSET S
    OBVIOUS
  <1>2. PICK T \in B : \A U \in B : U \subseteq T => U = T
    <2> HIDE DEF B
    <2> QED BY <1>1, SmallestSet
  <1>3. PICK y \in T : SumOn(f, T) # f[y] + SumOn(f, T \ {y})
    OBVIOUS
  <1>4. ASSUME NEW U \in SUBSET T, U # T, NEW z \in U PROVE SumOn(f, U) = f[z] + SumOn(f, U \ {z})
    BY <1>2, <1>4
  <1>5. T \in SUBSET S
    OBVIOUS
  <1> HIDE DEF B
  <1>6. IsFiniteSet(T) /\ T # {}
    BY <1>3, <1>5, FS_Subset
  <1>7. PICK p : p = Pick(T)
    OBVIOUS
  <1>8. SumOn(f, T) = f[p] + SumOn(f, T \ {p}) /\ p \in T
    BY <1>6, <1>7, SumStep, PickIs
  <1>9. CASE y = p
    BY <1>3, <1>8, <1>9
  <1>10. CASE y # p
    <2>1. /\ T \ {p} \in SUBSET T /\ T \ {p} # T /\ y \in T \ {p}
          /\ T \ {y} \in SUBSET T /\ T \ {y} # T /\ p \in T \ {y}
          /\ (T \ {p}) \ {y} = (T \ {y}) \ {p}
      BY <1>3, <1>8, <1>10
    <2>2. SumOn(f, T \ {p}) = f[y] + SumOn(f, (T \ {p}) \ {y})
      BY <1>4, <2>1
    <2>3. SumOn(f, T \ {y}) = f[p] + SumOn(f, (T \ {y}) \ {p})
      BY <1>4, <2>1
    <2>4. PICK r : r = SumOn(f, (T \ {p}) \ {y})
      OBVIOUS
    <2>5. r \in Int /\ f[y] \in Int /\ f[p] \in Int
      <3>1. (T \ {p}) \ {y} \in SUBSET S
        BY <1>5
      <3>2. IsFiniteSet((T \ {p}) \ {y}) /\ \A z \in (T \ {p}) \ {y} : f[z] \in Int
        BY <1>5, <3>1, FS_Subset
      <3> QED BY <1>3, <1>5, <1>8, <2>4, <3>2, SumType
    <2>6. SumOn(f, T) = f[p] + (f[y] + r) /\ SumOn(f, T \ {y}) = f[p] + r
      BY <1>8, <2>1, <2>2, <2>3, <2>4
    <2> QED BY <1>3, <2>5, <2>6
  <1> QED BY <1>9, <1>10

LEMMA SumSame ==
    ASSUME NEW f, NEW g, NEW S, IsFiniteSet(S), \A x \in S : f[x] = g[x]
    PROVE  SumOn(f, S) = SumOn(g, S)
  <1> SUFFICES ASSUME SumOn(f, S) # SumOn(g, S) PROVE FALSE
    OBVIOUS
  <1> DEFINE B == {T \in SUBSET S : SumOn(f, T) # SumOn(g, T)}
  <1>1. B \subseteq SUBSET S /\ B # {}
    OBVIOUS
  <1>2. PICK T \in B : \A y \in B : y \subseteq T => y = T
    <2> HIDE DEF B
    <2> QED BY <1>1, SmallestSet
  <1>3. IsFiniteSet(T) /\ T \in SUBSET S
    BY FS_Subset
  <1>4. /\ SumOn(f, T) = IF T = {} THEN 0 ELSE f[Pick(T)] + SumOn(f, T \ {Pick(T)})
        /\ SumOn(g, T) = IF T = {} THEN 0 ELSE g[Pick(T)] + SumOn(g, T \ {Pick(T)})
    BY <1>3, SumStep
  <1>5. CASE T # {}
    <2>1. f[Pick(T)] = g[Pick(T)] /\ T \ {Pick(T)} \in SUBSET T /\ T \ {Pick(T)} # T
      BY <1>3, <1>5, PickIs
    <2>2. SumOn(f, T \ {Pick(T)}) = SumOn(g, T \ {Pick(T)})
      BY <1>2, <1>3, <2>1
    <2> QED BY <1>4, <1>5, <2>1, <2>2
  <1> QED BY <1>4, <1>5

(***************************************************************************)
(* One entry changes.                                                      *)
(***************************************************************************)
LEMMA SumChange ==
    ASSUME NEW f, NEW g, NEW S, IsFiniteSet(S), NEW x \in S,
           \A y \in S : f[y] \in Int /\ g[y] \in Int, \A y \in S \ {x} : f[y] = g[y]
    PROVE  SumOn(g, S) = SumOn(f, S) - f[x] + g[x]
  <1>1. SumOn(f, S) = f[x] + SumOn(f, S \ {x}) /\ SumOn(g, S) = g[x] + SumOn(g, S \ {x})
    BY SumRemove
  <1>2. IsFiniteSet(S \ {x}) /\ \A y \in S \ {x} : f[y] \in Int
    BY FS_RemoveElement
  <1>3. SumOn(f, S \ {x}) = SumOn(g, S \ {x}) /\ SumOn(f, S \ {x}) \in Int
    BY <1>2, SumSame, SumType
  <1> QED BY <1>1, <1>3

LEMMA SumZero ==
    ASSUME NEW f, NEW S, IsFiniteSet(S), \A x \in S : f[x] = 0
    PROVE  SumOn(f, S) = 0
  <1> SUFFICES ASSUME SumOn(f, S) # 0 PROVE FALSE
    OBVIOUS
  <1> DEFINE B == {T \in SUBSET S : SumOn(f, T) # 0}
  <1>1. B \subseteq SUBSET S /\ B # {}
    OBVIOUS
  <1>2. PICK T \in B : \A y \in B : y \subseteq T => y = T
    <2> HIDE DEF B
    <2> QED BY <1>1, SmallestSet
  <1>3. IsFiniteSet(T) /\ T \in SUBSET S
    BY FS_Subset
  <1>4. SumOn(f, T) = IF T = {} THEN 0 ELSE f[Pick(T)] + SumOn(f, T \ {Pick(T)})
    BY <1>3, SumStep
  <1>5. CASE T # {}
    <2>1. f[Pick(T)] = 0 /\ T \ {Pick(T)} \in SUBSET T /\ T \ {Pick(T)} # T
      BY <1>3, <1>5, PickIs
    <2>2. SumOn(f, T \ {Pick(T)}) = 0
      BY <1>2, <1>3, <2>1
    <2> QED BY <1>4, <1>5, <2>1, <2>2
  <1> QED BY <1>4, <1>5

(***************************************************************************)
(* The same for SumFunction, of a function into the naturals.              *)
(***************************************************************************)
LEMMA SumIsInt ==
    ASSUME NEW S, IsFiniteSet(S), NEW f \in [S -> Nat]
    PROVE  SumFunction(f) \in Int
  <1>1. DOMAIN f = S /\ \A x \in S : f[x] \in Int
    OBVIOUS
  <1> QED BY <1>1, SumType, SumFunctionIs

LEMMA SumOneChanged ==
    ASSUME NEW S, IsFiniteSet(S), NEW f \in [S -> Nat], NEW x \in S, NEW g, NEW v \in Nat,
           DOMAIN g = S, g[x] = v, \A y \in S : y # x => g[y] = f[y]
    PROVE  SumFunction(g) = SumFunction(f) - f[x] + v
  <1>1. DOMAIN f = S /\ \A y \in S : f[y] \in Int
    OBVIOUS
  <1>2. ASSUME NEW y \in S PROVE g[y] \in Int
    <2>1. CASE y = x
      BY <2>1
    <2>2. CASE y # x
      BY <1>1, <2>2
    <2> QED BY <2>1, <2>2
  <1>3. \A y \in S : f[y] \in Int /\ g[y] \in Int
    BY <1>1, <1>2
  <1>4. \A y \in S \ {x} : f[y] = g[y]
    OBVIOUS
  <1>5. PICK h : h = f
    OBVIOUS
  <1>6. SumOn(g, S) = SumOn(h, S) - h[x] + g[x]
    <2>1. (\A y \in S : h[y] \in Int /\ g[y] \in Int) /\ (\A y \in S \ {x} : h[y] = g[y])
      BY <1>3, <1>4, <1>5
    <2> QED BY <2>1, SumChange
  <1>7. SumFunction(f) = SumOn(f, S) /\ SumFunction(g) = SumOn(g, S)
    BY <1>1, SumFunctionIs
  <1> QED BY <1>5, <1>6, <1>7

LEMMA SumExcept ==
    ASSUME NEW S, IsFiniteSet(S), NEW f \in [S -> Nat], NEW x \in S, NEW v \in Nat
    PROVE  SumFunction([f EXCEPT ![x] = v]) = SumFunction(f) - f[x] + v
  <1>1. PICK g : g = [f EXCEPT ![x] = v]
    OBVIOUS
  <1>2. DOMAIN g = S /\ g[x] = v /\ \A y \in S : y # x => g[y] = f[y]
    BY <1>1
  <1>3. SumFunction(g) = SumFunction(f) - f[x] + v
    BY <1>2, SumOneChanged
  <1> QED BY <1>1, <1>3

-----------------------------------------------------------------------------
(***************************************************************************)
(* Sums of naturals over parts of a set: a part gives no more, and a union *)
(* no more than its two sides together.                                    *)
(***************************************************************************)
LEMMA SumPart ==
    ASSUME NEW f, NEW S, IsFiniteSet(S), \A x \in S : f[x] \in Nat, NEW A \in SUBSET S
    PROVE  SumOn(f, A) <= SumOn(f, S)
  <1> SUFFICES ASSUME ~(SumOn(f, A) <= SumOn(f, S)) PROVE FALSE
    OBVIOUS
  <1> DEFINE B == {T \in SUBSET S : A \subseteq T /\ ~(SumOn(f, A) <= SumOn(f, T))}
  <1>1. B \subseteq SUBSET S /\ B # {}
    OBVIOUS
  <1>2. PICK T \in B : \A y \in B : y \subseteq T => y = T
    <2> HIDE DEF B
    <2> QED BY <1>1, SmallestSet
  <1>3. IsFiniteSet(T) /\ T \in SUBSET S /\ A \subseteq T /\ ~(SumOn(f, A) <= SumOn(f, T)) /\ IsFiniteSet(A)
    BY FS_Subset
  <1>4. SumOn(f, A) \in Int /\ SumOn(f, T) \in Int
    <2>1. (\A x \in T : f[x] \in Int) /\ (\A x \in A : f[x] \in Int)
      BY <1>3
    <2> QED BY <1>3, <2>1, SumType
  <1>5. PICK x \in T : x \notin A
    BY <1>3, <1>4
  <1>6. PICK U : U = T \ {x}
    OBVIOUS
  <1>7. U \in SUBSET S /\ A \subseteq U /\ U \subseteq T /\ U # T
    BY <1>3, <1>5, <1>6
  <1>8. SumOn(f, A) <= SumOn(f, U)
    BY <1>2, <1>7
  <1>9. SumOn(f, T) = f[x] + SumOn(f, U) /\ SumOn(f, U) \in Int /\ f[x] \in Nat
    <2>1. (\A y \in T : f[y] \in Int) /\ (\A y \in U : f[y] \in Int) /\ IsFiniteSet(U) /\ f[x] \in Nat
      BY <1>3, <1>7, FS_Subset
    <2>2. SumOn(f, T) = f[x] + SumOn(f, T \ {x})
      BY <1>3, <2>1, SumRemove
    <2> QED BY <1>6, <2>1, <2>2, SumType
  <1>10. SumOn(f, A) <= f[x] + SumOn(f, U)
    BY <1>4, <1>8, <1>9
  <1> QED BY <1>3, <1>9, <1>10

LEMMA SumEmpty == ASSUME NEW f PROVE SumOn(f, {}) = 0
  <1>1. IsFiniteSet({}) /\ \A x \in {} : f[x] = 0
    BY FS_EmptySet
  <1> QED BY <1>1, SumZero

LEMMA SumUnion ==
    ASSUME NEW f, NEW S, IsFiniteSet(S), \A x \in S : f[x] \in Nat, NEW A \in SUBSET S, NEW C \in SUBSET S
    PROVE  SumOn(f, A \cup C) <= SumOn(f, A) + SumOn(f, C)
  <1> DEFINE Bad(T) == ~(SumOn(f, T \cup C) <= SumOn(f, T) + SumOn(f, C))
             B == {T \in SUBSET S : Bad(T)}
  <1> SUFFICES ASSUME B # {} PROVE FALSE
    OBVIOUS
  <1>1. B \subseteq SUBSET S
    OBVIOUS
  <1>2. PICK T \in B : \A y \in B : y \subseteq T => y = T
    <2> HIDE DEF B
    <2> QED BY <1>1, SmallestSet
  <1>3. T \in SUBSET S /\ Bad(T)
    OBVIOUS
  <1>0. \A U \in SUBSET S : IsFiniteSet(U) /\ SumOn(f, U) \in Int /\ \A y \in U : f[y] \in Int
    <2> TAKE U \in SUBSET S
    <2>1. IsFiniteSet(U) /\ \A y \in U : f[y] \in Int
      BY FS_Subset
    <2> QED BY <2>1, SumType
  <1>4. T # {}
    <2> SUFFICES ASSUME T = {} PROVE FALSE
      OBVIOUS
    <2>1. T \cup C = C /\ SumOn(f, T) = 0 /\ SumOn(f, C) \in Int
      BY <1>0, SumEmpty
    <2> QED BY <1>3, <2>1
  <1>5. PICK x \in T : TRUE
    BY <1>4
  <1>6. PICK U : U = T \ {x}
    OBVIOUS
  <1>7. U \in SUBSET S /\ U \subseteq T /\ U # T /\ f[x] \in Nat
    BY <1>3, <1>5, <1>6
  <1>8. SumOn(f, U \cup C) <= SumOn(f, U) + SumOn(f, C)
    BY <1>2, <1>7
  <1>9. SumOn(f, T) = f[x] + SumOn(f, U)
    BY <1>0, <1>3, <1>5, <1>6, SumRemove
  <1>10. U \cup C \in SUBSET S /\ T \cup C \in SUBSET S
    BY <1>3, <1>7
  <1>11. PICK a \in Int, b \in Int, c \in Int, d \in Int :
           a = SumOn(f, U \cup C) /\ b = SumOn(f, U) /\ c = SumOn(f, C) /\ d = SumOn(f, T \cup C)
    BY <1>0, <1>7, <1>10
  <1>12. CASE x \in C
    <2>1. T \cup C = U \cup C
      BY <1>5, <1>6, <1>12
    <2>2. d = a
      BY <1>11, <2>1
    <2> QED BY <1>3, <1>7, <1>8, <1>9, <1>11, <2>2
  <1>13. CASE x \notin C
    <2>1. (T \cup C) \ {x} = U \cup C /\ x \in T \cup C
      BY <1>5, <1>6, <1>13
    <2>2. SumOn(f, T \cup C) = f[x] + SumOn(f, (T \cup C) \ {x})
      BY <1>0, <1>10, <2>1, SumRemove
    <2>3. d = f[x] + a
      BY <1>11, <2>1, <2>2
    <2> QED BY <1>3, <1>7, <1>8, <1>9, <1>11, <2>3
  <1> QED BY <1>12, <1>13

-----------------------------------------------------------------------------
(***************************************************************************)
(* Induction over the naturals, over an initial part of them, and over a   *)
(* set whose elements depend only on elements of a lower rank.             *)
(***************************************************************************)
LEMMA SmallestNat ==
    ASSUME NEW T, T \subseteq Nat, T # {}
    PROVE  \E x \in T : \A y \in T : x <= y
  <1>1. PICK x \in T : \A y \in T : ~(<<y, x>> \in OpToRel(<, Nat))
    BY NatLessThanWellFounded, WFMin
  <1>2. ASSUME NEW y \in T PROVE x <= y
    <2>1. <<y, x>> \in Nat \X Nat /\ x \in Nat /\ y \in Nat
      OBVIOUS
    <2>2. ~(y < x)
      BY <1>1, <2>1 DEF OpToRel
    <2> QED BY <2>1, <2>2
  <1> QED BY <1>2

LEMMA UpTo ==
    ASSUME NEW m \in Nat, NEW G, 0 \in G, \A i \in 1..m : (i - 1) \in G => i \in G
    PROVE  \A i \in 0..m : i \in G
  <1> SUFFICES ASSUME NEW j \in 0..m, j \notin G PROVE FALSE
    OBVIOUS
  <1> DEFINE B == {i \in 0..m : i \notin G}
  <1>1. B \subseteq Nat /\ B # {}
    OBVIOUS
  <1>2. PICK x \in B : \A y \in B : x <= y
    <2> HIDE DEF B
    <2> QED BY <1>1, SmallestNat
  <1>3. x \in 0..m /\ x \notin G
    OBVIOUS
  <1>4. x - 1 \in 0..m /\ x \in 1..m
    BY <1>3
  <1>5. (x - 1) \in G
    <2> SUFFICES ASSUME (x - 1) \notin G PROVE FALSE
      OBVIOUS
    <2>1. (x - 1) \in B
      BY <1>4
    <2>2. x <= x - 1
      BY <1>2, <2>1
    <2> QED BY <1>3, <2>2
  <1> QED BY <1>3, <1>4, <1>5

LEMMA RankInduction ==
    ASSUME NEW K, NEW rank, \A b \in K : rank[b] \in Nat,
           NEW D, \A b \in K : \A x \in D[b] : x \in K /\ rank[x] < rank[b],
           NEW G, \A b \in K : D[b] \subseteq G => b \in G
    PROVE  \A b \in K : b \in G
  <1> SUFFICES ASSUME NEW c \in K, c \notin G PROVE FALSE
    OBVIOUS
  <1> DEFINE B == {rank[b] : b \in {x \in K : x \notin G}}
  <1>1. B \subseteq Nat /\ B # {}
    OBVIOUS
  <1>2. PICK r \in B : \A y \in B : r <= y
    <2> HIDE DEF B
    <2> QED BY <1>1, SmallestNat
  <1>3. PICK b \in K : b \notin G /\ rank[b] = r
    OBVIOUS
  <1>4. ASSUME NEW x \in D[b] PROVE x \in G
    <2> SUFFICES ASSUME x \notin G PROVE FALSE
      OBVIOUS
    <2>1. x \in K /\ rank[x] < rank[b]
      OBVIOUS
    <2>2. r <= rank[x]
      BY <1>2, <2>1
    <2> QED BY <1>3, <2>1, <2>2
  <1> QED BY <1>3, <1>4

LEMMA MaxIs ==
    ASSUME NEW S, IsFiniteSet(S), (\A y \in S : y \in Nat), S # {}
    PROVE  Max(S) \in S /\ \A y \in S : y <= Max(S)
  <1> DEFINE HasMax(T) == \E x \in T : \A y \in T : x >= y
             B == {T \in SUBSET S : T # {} /\ ~HasMax(T)}
  <1>1. B = {}
    <2> SUFFICES ASSUME B # {} PROVE FALSE
      OBVIOUS
    <2>1. B \subseteq SUBSET S /\ B # {}
      OBVIOUS
    <2>2. PICK T \in B : \A y \in B : y \subseteq T => y = T
      <3> HIDE DEF B
      <3> QED BY <2>1, SmallestSet
    <2>3. T \in SUBSET S /\ T # {} /\ ~HasMax(T)
      OBVIOUS
    <2>4. PICK a \in T : TRUE
      BY <2>3
    <2>5. PICK U : U = T \ {a}
      OBVIOUS
    <2>6. U \in SUBSET S /\ U \subseteq T /\ U # T /\ a \in Nat
      BY <2>3, <2>4, <2>5
    <2>7. CASE U = {}
      <3>1. T = {a}
        BY <2>4, <2>5, <2>7
      <3> QED BY <2>3, <2>6, <3>1
    <2>8. CASE U # {}
      <3>1. HasMax(U)
        BY <2>2, <2>6, <2>8
      <3>2. PICK u \in U : \A y \in U : u >= y
        BY <3>1
      <3>3. u \in Nat /\ u \in T /\ \A y \in T : y \in Nat /\ (y = a \/ y \in U)
        BY <2>3, <2>5, <2>6, <3>2
      <3>4. CASE u >= a
        <4>1. \A y \in T : u >= y
          BY <3>2, <3>3, <3>4
        <4> QED BY <2>3, <3>3, <4>1
      <3>5. CASE ~(u >= a)
        <4>1. \A y \in T : a >= y
          BY <2>6, <3>2, <3>3, <3>5
        <4> QED BY <2>3, <2>4, <4>1
      <3> QED BY <3>4, <3>5
    <2> QED BY <2>7, <2>8
  <1>2. \E x \in S : \A y \in S : x >= y
    BY <1>1
  <1>3. Max(S) \in S /\ \A y \in S : Max(S) >= y
    BY <1>2 DEF Max
  <1>4. Max(S) \in Nat
    BY <1>3
  <1> QED BY <1>3, <1>4

LEMMA RankBounded ==
    ASSUME NEW K, IsFiniteSet(K), NEW rank, \A b \in K : rank[b] \in Nat
    PROVE  \E m \in Nat : \A b \in K : rank[b] < m
  <1> DEFINE Bounded(T) == \E m \in Nat : \A b \in T : rank[b] < m
             B == {T \in SUBSET K : ~Bounded(T)}
  <1> SUFFICES ASSUME B # {} PROVE FALSE
    OBVIOUS
  <1>1. B \subseteq SUBSET K /\ B # {}
    OBVIOUS
  <1>2. PICK T \in B : \A y \in B : y \subseteq T => y = T
    <2> HIDE DEF B
    <2> QED BY <1>1, SmallestSet
  <1>3. T \in SUBSET K /\ ~Bounded(T)
    OBVIOUS
  <1>4. PICK a \in T : TRUE
    BY <1>3
  <1>5. Bounded(T \ {a})
    <2>1. T \ {a} \in SUBSET K /\ T \ {a} \subseteq T /\ T \ {a} # T
      BY <1>3, <1>4
    <2> QED BY <1>2, <2>1
  <1>6. PICK m \in Nat : \A b \in T \ {a} : rank[b] < m
    BY <1>5
  <1>7. rank[a] \in Nat
    BY <1>3, <1>4
  <1>8. PICK k \in Nat : k = m + (rank[a] + 1)
    BY <1>7
  <1>9. ASSUME NEW b \in T PROVE rank[b] < k
    <2>1. rank[b] \in Nat
      BY <1>3
    <2>2. CASE b = a
      BY <1>7, <1>8, <2>2
    <2>3. CASE b # a
      BY <1>6, <1>7, <1>8, <2>1, <2>3
    <2> QED BY <2>2, <2>3
  <1> QED BY <1>3, <1>9

(***************************************************************************)
(* A recursive function on K whose value at b is given by H from the       *)
(* values at the elements of D[b], all of them of a lower rank.            *)
(***************************************************************************)
Solves(H, A, K, S, f) == f \in [K -> A] /\ \A b \in S : f[b] = H[<<b, f>>]

Ranked(K, rank, D) ==
    /\ \A b \in K : rank[b] \in Nat
    /\ \A b \in K : \A x \in D[b] : x \in K /\ rank[x] < rank[b]

DependsOn(K, A, D, H) ==
    /\ \A b \in K : \A f \in [K -> A] : H[<<b, f>>] \in A
    /\ \A b \in K : \A f, g \in [K -> A] : (\A x \in D[b] : f[x] = g[x]) => H[<<b, f>>] = H[<<b, g>>]

LEMMA RecursionExists ==
    ASSUME NEW K, IsFiniteSet(K), NEW rank, NEW D, Ranked(K, rank, D),
           NEW A, A # {}, NEW H, DependsOn(K, A, D, H)
    PROVE  \E f : Solves(H, A, K, K, f)
  <1> USE DEF Ranked, DependsOn
  <1> DEFINE Below(n) == {b \in K : rank[b] < n}
             Good == {n \in Nat : \E f : Solves(H, A, K, Below(n), f)}
  <1>1. PICK m \in Nat : \A b \in K : rank[b] < m
    BY RankBounded
  <1>2. 0 \in Good
    <2>1. PICK a : a \in A
      OBVIOUS
    <2>2. [b \in K |-> a] \in [K -> A]
      BY <2>1
    <2>3. Below(0) = {}
      OBVIOUS
    <2> QED BY <2>2, <2>3 DEF Solves
  <1>3. ASSUME NEW n \in 1..m, (n - 1) \in Good PROVE n \in Good
    <2>0. n \in Nat /\ n - 1 \in Nat
      OBVIOUS
    <2>1. PICK f : Solves(H, A, K, Below(n - 1), f)
      BY <1>3
    <2>2. f \in [K -> A] /\ \A b \in Below(n - 1) : f[b] = H[<<b, f>>]
      BY <2>1 DEF Solves
    <2>3. PICK g : g = [b \in K |-> IF rank[b] < n - 1 THEN f[b] ELSE H[<<b, f>>]]
      OBVIOUS
    <2>4. g \in [K -> A]
      BY <2>2, <2>3
    <2>5. ASSUME NEW b \in Below(n) PROVE g[b] = H[<<b, g>>]
      <3>1. b \in K /\ rank[b] < n /\ rank[b] \in Nat
        OBVIOUS
      <3>2. \A x \in D[b] : x \in K /\ rank[x] \in Nat /\ rank[x] < n - 1
        BY <2>0, <3>1
      <3>3. \A x \in D[b] : f[x] = g[x]
        BY <2>3, <3>2
      <3>4. H[<<b, f>>] = H[<<b, g>>]
        BY <2>2, <2>4, <3>1, <3>3
      <3>5. g[b] = H[<<b, f>>]
        <4>1. CASE rank[b] < n - 1
          <5>1. b \in Below(n - 1)
            BY <3>1, <4>1
          <5> QED BY <2>2, <2>3, <3>1, <4>1, <5>1
        <4>2. CASE ~(rank[b] < n - 1)
          BY <2>3, <3>1, <4>2
        <4> QED BY <4>1, <4>2
      <3> QED BY <3>4, <3>5
    <2> QED BY <2>0, <2>4, <2>5 DEF Solves
  <1>4. m \in Good
    <2>1. \A i \in 1..m : (i - 1) \in Good => i \in Good
      BY <1>3
    <2>2. m \in 0..m
      OBVIOUS
    <2> HIDE DEF Good
    <2> QED BY <1>2, <2>1, <2>2, UpTo
  <1>5. PICK f : Solves(H, A, K, Below(m), f)
    BY <1>4
  <1>6. Below(m) = K
    BY <1>1
  <1> QED BY <1>5, <1>6

(***************************************************************************)
(* A fold over the sequence sq as the community modules define it, on the  *)
(* subsets of its domain, with the step given by the function F.           *)
(***************************************************************************)
IsFoldOf(F, base, sq, S, f) ==
    \A s \in SUBSET S : f[s] = IF s = {} THEN base ELSE F[<<f[s \ {Max(s)}], sq[Max(s)]>>]

LEMMA FoldExists ==
    ASSUME NEW A, NEW V, NEW F, F \in [A \X V -> A], NEW base \in A,
           NEW S0, IsFiniteSet(S0), (\A y \in S0 : y \in Nat), NEW sq, (\A i \in S0 : sq[i] \in V)
    PROVE  \E f \in [SUBSET S0 -> A] : IsFoldOf(F, base, sq, S0, f)
  <1> DEFINE Has(T) == \E f \in [SUBSET T -> A] : IsFoldOf(F, base, sq, T, f)
             B == {T \in SUBSET S0 : ~Has(T)}
  <1> SUFFICES ASSUME B # {} PROVE FALSE
    OBVIOUS
  <1>1. B \subseteq SUBSET S0 /\ B # {}
    OBVIOUS
  <1>2. PICK S \in B : \A y \in B : y \subseteq S => y = S
    <2> HIDE DEF B
    <2> QED BY <1>1, SmallestSet
  <1>3. S \in SUBSET S0 /\ ~Has(S)
    OBVIOUS
  <1>4. \A s \in SUBSET S : s # {} => Max(s) \in s /\ \A y \in s : y <= Max(s)
    <2> TAKE s \in SUBSET S
    <2>1. s \in SUBSET S0 /\ s \subseteq Nat
      BY <1>3
    <2>2. IsFiniteSet(s)
      BY <2>1, FS_Subset
    <2> QED BY <2>1, <2>2, MaxIs
  <1>5. CASE S = {}
    <2>1. [s \in SUBSET S |-> base] \in [SUBSET S -> A]
      OBVIOUS
    <2>2. IsFoldOf(F, base, sq, S, [s \in SUBSET S |-> base])
      BY <1>5 DEF IsFoldOf
    <2> QED BY <1>3, <2>1, <2>2
  <1>6. CASE S # {}
    <2>1. PICK x : x = Max(S)
      OBVIOUS
    <2>2. x \in S /\ x \in Nat /\ (\A y \in S : y <= x) /\ sq[x] \in V
      BY <1>3, <1>4, <1>6, <2>1
    <2>3. PICK R : R = S \ {x}
      OBVIOUS
    <2>4. R \in SUBSET S0 /\ R \subseteq S /\ R # S
      BY <1>3, <2>2, <2>3
    <2>5. PICK f0 \in [SUBSET R -> A] : IsFoldOf(F, base, sq, R, f0)
      BY <1>2, <2>4
    <2>6. PICK f : f = [s \in SUBSET S |-> IF x \in s THEN F[<<f0[s \ {x}], sq[x]>>] ELSE f0[s]]
      OBVIOUS
    <2>7. \A s \in SUBSET S : s \ {x} \in SUBSET R /\ (x \notin s => s \in SUBSET R)
      BY <2>3
    <2>8. f \in [SUBSET S -> A]
      <3>1. ASSUME NEW s \in SUBSET S
            PROVE  (IF x \in s THEN F[<<f0[s \ {x}], sq[x]>>] ELSE f0[s]) \in A
        <4>1. CASE x \in s
          <5>1. f0[s \ {x}] \in A
            BY <2>5, <2>7
          <5>2. <<f0[s \ {x}], sq[x]>> \in A \X V
            BY <2>2, <5>1
          <5> QED BY <4>1, <5>2
        <4>2. CASE x \notin s
          BY <2>5, <2>7, <4>2
        <4> QED BY <4>1, <4>2
      <3> QED BY <2>6, <3>1
    <2>9. ASSUME NEW s \in SUBSET S
          PROVE  f[s] = IF s = {} THEN base ELSE F[<<f[s \ {Max(s)}], sq[Max(s)]>>]
      <3>1. CASE x \in s
        <4>1. Max(s) \in s /\ \A y \in s : y <= Max(s)
          BY <1>4, <3>1
        <4>2. Max(s) \in Nat /\ Max(s) <= x /\ x <= Max(s)
          <5>1. Max(s) \in S
            BY <4>1
          <5>2. Max(s) \in Nat
            BY <1>3, <5>1
          <5> QED BY <2>2, <3>1, <4>1, <5>1, <5>2
        <4>3. Max(s) = x
          BY <2>2, <4>2
        <4>4. f[s \ {x}] = f0[s \ {x}]
          <5>1. s \ {x} \in SUBSET S /\ x \notin s \ {x}
            OBVIOUS
          <5> QED BY <2>6, <5>1
        <4>5. f[s] = F[<<f0[s \ {x}], sq[x]>>]
          BY <2>6, <3>1
        <4> QED BY <3>1, <4>3, <4>4, <4>5
      <3>2. CASE x \notin s
        <4>1. s \in SUBSET R /\ f[s] = f0[s]
          BY <2>6, <2>7, <3>2
        <4>2. f0[s] = IF s = {} THEN base ELSE F[<<f0[s \ {Max(s)}], sq[Max(s)]>>]
          BY <2>5, <4>1 DEF IsFoldOf
        <4>3. f[s \ {Max(s)}] = f0[s \ {Max(s)}]
          <5>1. PICK r : r = s \ {Max(s)}
            OBVIOUS
          <5>2. r \in SUBSET S /\ x \notin r
            BY <3>2, <5>1
          <5>3. f[r] = f0[r]
            BY <2>6, <5>2
          <5> QED BY <5>1, <5>3
        <4> QED BY <4>1, <4>2, <4>3
      <3> QED BY <3>1, <3>2
    <2>10. IsFoldOf(F, base, sq, S, f)
      BY <2>9 DEF IsFoldOf
    <2> QED BY <1>3, <2>8, <2>10
  <1> QED BY <1>5, <1>6

(***************************************************************************)
(* A fold over 1..n runs through the prefixes: G[i] is its value after i   *)
(* elements.                                                               *)
(***************************************************************************)
LEMMA PrefixMax ==
    ASSUME NEW n \in Nat, NEW i \in 1..n
    PROVE  1..i \in SUBSET (1..n) /\ 1..i # {} /\ Max(1..i) = i /\ (1..i) \ {i} = 1..(i - 1)
  <1>1. 1..i \in SUBSET (1..n) /\ i \in 1..i /\ (\A y \in 1..i : y \in Nat) /\ i \in Nat
    OBVIOUS
  <1>2. IsFiniteSet(1..i)
    BY <1>1, FS_Interval
  <1>3. PICK m : m = Max(1..i)
    OBVIOUS
  <1>4. m \in 1..i /\ \A y \in 1..i : y <= m
    BY <1>1, <1>2, <1>3, MaxIs
  <1>5. m = i
    BY <1>1, <1>4
  <1>6. (1..i) \ {i} = 1..(i - 1)
    BY <1>1
  <1> QED BY <1>1, <1>3, <1>5, <1>6

LEMMA IndexMax ==
    ASSUME NEW n \in Nat, NEW s \in SUBSET (1..n), s # {}
    PROVE  Max(s) \in s /\ Max(s) \in 1..n
  <1>1. IsFiniteSet(1..n)
    BY FS_Interval
  <1>2. IsFiniteSet(s)
    BY <1>1, FS_Subset
  <1>3. \A y \in s : y \in Nat
    OBVIOUS
  <1>4. Max(s) \in s
    BY <1>2, <1>3, MaxIs
  <1> QED BY <1>4

IsStepOn(A, V, F) == F \in [A \X V -> A]

IndexedIn(sq, n, V) == \A i \in 1..n : sq[i] \in V

FollowsFold(A, F, base, sq, n, h) ==
    /\ h[{}] = base
    /\ \A s \in SUBSET (1..n) :
          s # {} /\ h[s \ {Max(s)}] \in A => h[s] = F[<<h[s \ {Max(s)}], sq[Max(s)]>>]

IsRun(A, F, base, sq, n, G) ==
    G \in [0..n -> A] /\ G[0] = base /\ \A i \in 1..n : G[i] = F[<<G[i - 1], sq[i]>>]

LEMMA FoldRuns ==
    ASSUME NEW A, NEW V, NEW F, IsStepOn(A, V, F), NEW base \in A,
           NEW n \in Nat, NEW sq, IndexedIn(sq, n, V), NEW h, FollowsFold(A, F, base, sq, n, h)
    PROVE  \E G : IsRun(A, F, base, sq, n, G) /\ G[n] = h[1..n]
  <1> F \in [A \X V -> A]
    BY DEF IsStepOn
  <1>0. /\ h[{}] = base /\ \A i \in 1..n : sq[i] \in V
        /\ \A s \in SUBSET (1..n) :
              s # {} /\ h[s \ {Max(s)}] \in A => h[s] = F[<<h[s \ {Max(s)}], sq[Max(s)]>>]
    BY DEF FollowsFold, IndexedIn
  <1> DEFINE Good == {i \in 0..n : h[1..i] \in A}
  <1>1. ASSUME NEW i \in 1..n, h[1..(i - 1)] \in A
        PROVE  h[1..i] = F[<<h[1..(i - 1)], sq[i]>>] /\ h[1..i] \in A
    <2>1. 1..i \in SUBSET (1..n) /\ 1..i # {} /\ Max(1..i) = i /\ (1..i) \ {i} = 1..(i - 1)
      BY PrefixMax
    <2>2. PICK s : s = 1..i
      OBVIOUS
    <2>3. s \in SUBSET (1..n) /\ s # {} /\ Max(s) = i /\ s \ {Max(s)} = 1..(i - 1)
      BY <2>1, <2>2
    <2>4. h[s] = F[<<h[s \ {Max(s)}], sq[Max(s)]>>]
      BY <1>0, <1>1, <2>3
    <2>5. h[1..i] = F[<<h[1..(i - 1)], sq[i]>>]
      BY <2>2, <2>3, <2>4
    <2>6. <<h[1..(i - 1)], sq[i]>> \in A \X V
      BY <1>0, <1>1
    <2> QED BY <2>5, <2>6
  <1>2. 0 \in Good /\ h[1..0] = base
    <2>1. 1..0 = {}
      OBVIOUS
    <2> QED BY <1>0, <2>1
  <1>3. ASSUME NEW i \in 1..n, (i - 1) \in Good PROVE i \in Good
    <2>1. h[1..(i - 1)] \in A /\ i \in 0..n
      BY <1>3
    <2>2. h[1..i] \in A
      BY <1>1, <2>1
    <2> QED BY <2>1, <2>2
  <1>4. \A i \in 0..n : i \in Good
    <2> HIDE DEF Good
    <2> QED BY <1>2, <1>3, UpTo
  <1>5. \A i \in 0..n : h[1..i] \in A
    BY <1>4
  <1>6. PICK G : G = [i \in 0..n |-> h[1..i]]
    OBVIOUS
  <1>7. G \in [0..n -> A] /\ G[0] = base /\ G[n] = h[1..n]
    BY <1>2, <1>5, <1>6
  <1>8. ASSUME NEW i \in 1..n PROVE G[i] = F[<<G[i - 1], sq[i]>>]
    <2>1. i \in 0..n /\ i - 1 \in 0..n
      OBVIOUS
    <2>2. G[i] = h[1..i] /\ G[i - 1] = h[1..(i - 1)]
      BY <1>6, <2>1
    <2> QED BY <1>1, <1>5, <2>1, <2>2
  <1> QED BY <1>7, <1>8 DEF IsRun

=============================================================================
