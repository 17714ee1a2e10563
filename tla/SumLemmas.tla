----------------------------- MODULE SumLemmas -----------------------------
(***************************************************************************)
(* Facts about finite sets that the proofs of more than one component need:*)
(* induction over them, a least and a greatest of numbers, and sums, as    *)
(* SumFunction of the community modules defines them.                      *)
(*                                                                         *)
(* The library's induction theorems take a predicate as an operator, which *)
(* the provers do not instantiate.  Its theorems on well-founded relations *)
(* take none: they give a set of counterexamples a smallest, and a family  *)
(* of sets stands for the predicate.                                       *)
(***************************************************************************)
EXTENDS Integers, FiniteSetsExt, FiniteSetTheorems, WellFoundedInduction, TLAPS

\* A family of finite sets has one none of whose parts is of the family.
LEMMA LeastSet ==
  ASSUME NEW T, IsFiniteSet(T), NEW family \in SUBSET SUBSET T, family # {}
  PROVE  \E s \in family : \A t \in SUBSET s : t # s => t \notin family
<1>1. IsWellFoundedOn(StrictSubsetOrdering(T), SUBSET T)
  BY FS_StrictSubsetOrderingWellFounded, FS_FiniteSubsetsOfFinite
<1>2. PICK s \in family : \A t \in family : <<t, s>> \notin StrictSubsetOrdering(T)
  BY <1>1, WFMin
<1> QED
  BY <1>2 DEF StrictSubsetOrdering

\* What holds of the empty set and is kept as an element joins, holds of every
\* finite set.  A family stands for the predicate.
LEMMA FiniteSetInduction ==
  ASSUME NEW T, IsFiniteSet(T), NEW family,
         {} \in family,
         \A s \in SUBSET T : \A x \in T \ s : s \in family => s \cup {x} \in family
  PROVE  SUBSET T \subseteq family
<1> DEFINE rest == (SUBSET T) \ family
<1>1. SUFFICES ASSUME rest # {} PROVE FALSE
  OBVIOUS
<1>2. PICK s \in rest : \A t \in SUBSET s : t # s => t \notin rest
  <2>1. rest \in SUBSET SUBSET T
    OBVIOUS
  <2> HIDE DEF rest
  <2> QED
    BY <1>1, <2>1, LeastSet
<1>3. s # {} /\ s \in SUBSET T
  BY <1>2
<1>4. PICK x \in s : TRUE
  BY <1>3
<1>5. s \ {x} \notin rest
  BY <1>2, <1>4
<1>6. s \ {x} \in family /\ s \ {x} \in SUBSET T /\ x \in T \ (s \ {x}) /\ (s \ {x}) \cup {x} = s
  BY <1>3, <1>4, <1>5
<1>7. s \in family
  <2> HIDE DEF rest
  <2> QED
    BY <1>6
<1> QED
  BY <1>2, <1>7

\* A set of natural numbers has a least one.
LEMMA LeastNatural ==
  ASSUME NEW S \in SUBSET Nat, S # {}
  PROVE  \E n \in S : \A m \in S : n <= m
<1> DEFINE less == {ss \in Nat \X Nat : ss[1] < ss[2]}
<1>1. IsWellFoundedOn(less, Nat)
  BY NatLessThanWellFounded DEF OpToRel
<1>2. PICK n \in S : \A m \in S : <<m, n>> \notin less
  <2> HIDE DEF less
  <2> QED
    BY <1>1, WFMin
<1>3. \A m \in S : m \in Nat /\ n \in Nat /\ ~(m < n)
  BY <1>2
<1> QED
  BY <1>3

\* A finite set of integers has a greatest.
LEMMA GreatestOfFinite ==
  ASSUME NEW S \in SUBSET Int, IsFiniteSet(S), S # {}
  PROVE  \E n \in S : \A m \in S : m <= n
<1> DEFINE Has(T) == \E n \in T : \A m \in T : m <= n
           family == {T \in SUBSET S : T # {} => Has(T)}
<1>1. {} \in family
  OBVIOUS
<1>2. ASSUME NEW T \in SUBSET S, NEW x \in S \ T, T \in family
      PROVE  T \cup {x} \in family
  <2>1. CASE T = {}
    BY <2>1
  <2>2. CASE T # {}
    <3>1. PICK n \in T : \A m \in T : m <= n
      BY <1>2, <2>2
    <3>2. n \in Int /\ x \in Int /\ T \subseteq Int
      OBVIOUS
    <3>3. CASE x <= n
      BY <3>1, <3>2, <3>3
    <3>4. CASE n <= x
      <4>1. \A m \in T \cup {x} : m <= x
        BY <3>1, <3>2, <3>4
      <4> QED
        BY <4>1
    <3> QED
      BY <3>2, <3>3, <3>4
  <2> QED
    BY <2>1, <2>2
<1>3. SUBSET S \subseteq family
  <2> HIDE DEF family
  <2> QED
    BY <1>1, <1>2, FiniteSetInduction
<1> QED
  BY <1>3

-----------------------------------------------------------------------------
(***************************************************************************)
(* The recursive function of a sum.                                        *)
(***************************************************************************)
Chosen(s) == CHOOSE x \in s : TRUE

\* f adds the weights w up over each of the sets D.
Adds(f, w, D) ==
  f = [s \in D |-> IF s = {} THEN 0 ELSE w[Chosen(s)] + f[s \ {Chosen(s)}]]

\* One of a set is chosen.
LEMMA ChosenIsIn ==
  ASSUME NEW s, s # {}
  PROVE  Chosen(s) \in s
BY DEF Chosen

\* There is a function that adds up over all sets of T with no more than n elements.
Upto(T, n) == {s \in SUBSET T : Cardinality(s) <= n}
SumsUpto(w, T, n) == \E f \in [Upto(T, n) -> Int] : Adds(f, w, Upto(T, n))

LEMMA SumOneMore ==
  ASSUME NEW T, IsFiniteSet(T), NEW w \in [T -> Int], NEW n \in Nat, SumsUpto(w, T, n)
  PROVE  SumsUpto(w, T, n + 1)
<1> DEFINE D == Upto(T, n)
           E == Upto(T, n + 1)
<1> PICK f \in [D -> Int] : Adds(f, w, D)
  BY DEF SumsUpto
<1> DEFINE g == [s \in E |-> IF s = {} THEN 0 ELSE w[Chosen(s)] + f[s \ {Chosen(s)}]]
<1>1. \A s \in SUBSET T : Cardinality(s) \in Nat /\ IsFiniteSet(s)
  BY FS_Subset, FS_CardinalityType
<1>2. ASSUME NEW s \in E, s # {}
      PROVE  s \ {Chosen(s)} \in D /\ Chosen(s) \in T
  <2>1. Chosen(s) \in s
    BY <1>2, ChosenIsIn
  <2>2. s \in SUBSET T /\ IsFiniteSet(s)
    BY <1>1, <1>2 DEF Upto
  <2>3. Cardinality(s \ {Chosen(s)}) = Cardinality(s) - 1
    BY <2>1, <2>2, FS_RemoveElement
  <2> QED
    BY <1>1, <1>2, <2>1, <2>2, <2>3 DEF Upto
<1>3. \A s \in D : s \in E
  BY <1>1 DEF Upto
<1>4. \A s \in D : g[s] = f[s]
  BY <1>3 DEF Adds
<1>5. g \in [E -> Int]
  BY <1>2
<1>6. Adds(g, w, E)
  <2>1. \A s \in E : g[s] = IF s = {} THEN 0 ELSE w[Chosen(s)] + g[s \ {Chosen(s)}]
    BY <1>2, <1>4
  <2> HIDE DEF D, E
  <2> QED
    BY <2>1 DEF Adds
<1> QED
  BY <1>5, <1>6 DEF SumsUpto

\* Every finite set of integer weights has a sum.
LEMMA SumExists ==
  ASSUME NEW T, IsFiniteSet(T), NEW w \in [T -> Int]
  PROVE  \E f \in [SUBSET T -> Int] : Adds(f, w, SUBSET T)
<1> DEFINE without == {n \in Nat : ~SumsUpto(w, T, n)}
<1>1. \A s \in SUBSET T : Cardinality(s) \in Nat /\ IsFiniteSet(s) /\ Cardinality(s) <= Cardinality(T)
  BY FS_Subset, FS_CardinalityType
<1>2. SumsUpto(w, T, 0)
  <2>1. \A s \in Upto(T, 0) : s = {}
    BY <1>1, FS_EmptySet DEF Upto
  <2>2. Adds([s \in Upto(T, 0) |-> 0], w, Upto(T, 0))
    BY <2>1 DEF Adds
  <2> QED
    BY <2>2 DEF SumsUpto
<1>3. without = {}
  <2> SUFFICES ASSUME without # {} PROVE FALSE
    OBVIOUS
  <2>1. PICK n \in without : \A m \in without : n <= m
    <3>1. without \in SUBSET Nat
      OBVIOUS
    <3> HIDE DEF without
    <3> QED
      BY <3>1, LeastNatural
  <2>2. n \in Nat /\ n # 0 /\ n - 1 \in Nat
    BY <1>2, <2>1
  <2>3. SumsUpto(w, T, n - 1)
    BY <2>1, <2>2
  <2>4. SumsUpto(w, T, (n - 1) + 1)
    BY <2>2, <2>3, SumOneMore
  <2> QED
    BY <2>1, <2>2, <2>4
<1>4. Upto(T, Cardinality(T)) = SUBSET T
  BY <1>1 DEF Upto
<1>5. SumsUpto(w, T, Cardinality(T))
  BY <1>3, FS_CardinalityType
<1> QED
  BY <1>4, <1>5 DEF SumsUpto

\* It has one only, and the sum of a part depends on the weights in the part.
LEMMA SumUnique ==
  ASSUME NEW T, IsFiniteSet(T), NEW D, NEW E, NEW f, NEW g, NEW v, NEW w,
         SUBSET T \subseteq D, SUBSET T \subseteq E, Adds(f, v, D), Adds(g, w, E),
         \A x \in T : v[x] = w[x]
  PROVE  f[T] = g[T]
<1> DEFINE differ == {s \in SUBSET T : f[s] # g[s]}
<1> SUFFICES ASSUME differ # {} PROVE FALSE
  OBVIOUS
<1>1. differ \in SUBSET SUBSET T
  OBVIOUS
<1>2. PICK s \in differ : \A t \in SUBSET s : t # s => t \notin differ
  <2> HIDE DEF differ
  <2> QED
    BY <1>1, LeastSet
<1>3. s \in D /\ s \in E /\ s \in SUBSET T /\ f[s] # g[s]
  BY <1>2
<1>4. s # {}
  <2>1. s = {} => f[s] = 0 /\ g[s] = 0
    BY <1>3 DEF Adds
  <2> QED
    BY <1>3, <2>1
<1>5. Chosen(s) \in s
  BY <1>4, ChosenIsIn
<1>6. f[s \ {Chosen(s)}] = g[s \ {Chosen(s)}]
  BY <1>2, <1>3, <1>5
<1>7. f[s] = v[Chosen(s)] + f[s \ {Chosen(s)}] /\ g[s] = w[Chosen(s)] + g[s \ {Chosen(s)}]
  BY <1>3, <1>4 DEF Adds
<1> QED
  BY <1>3, <1>5, <1>6, <1>7

\* In whatever order elements are chosen, the sum with x is the weight of x more
\* than the one without.
LEMMA SumOfOneMore ==
  ASSUME NEW T, IsFiniteSet(T), NEW w \in [T -> Int], NEW f \in [SUBSET T -> Int],
         Adds(f, w, SUBSET T), NEW r \in SUBSET T, NEW y \in T \ r
  PROVE  f[r \cup {y}] = w[y] + f[r]
<1> DEFINE Kept(s) == \A x \in T \ s : f[s \cup {x}] = w[x] + f[s]
           broken == {s \in SUBSET T : ~Kept(s)}
<1> SUFFICES ASSUME broken # {} PROVE FALSE
  OBVIOUS
<1>1. broken \in SUBSET SUBSET T
  OBVIOUS
<1>2. PICK s \in broken : \A t \in SUBSET s : t # s => t \notin broken
  <2> HIDE DEF broken
  <2> QED
    BY <1>1, LeastSet
<1>3. PICK x \in T \ s : f[s \cup {x}] # w[x] + f[s]
  BY <1>2
<1>4. \A t \in SUBSET T : t \subseteq s /\ t # s => Kept(t)
  <2> HIDE DEF Kept
  <2> QED
    BY <1>2
<1> DEFINE u == s \cup {x}
           c == Chosen(u)
<1>5. u # {} /\ u \in SUBSET T /\ s \in SUBSET T /\ x \in T
  BY <1>2, <1>3
<1>6. c \in u /\ f[u] = w[c] + f[u \ {c}]
  <2> HIDE DEF u
  <2> QED
    BY <1>5, ChosenIsIn DEF Adds
<1> HIDE DEF c
<1>7. CASE c = x
  <2>1. (s \cup {x}) \ {c} = s
    BY <1>3, <1>7
  <2> QED
    BY <1>3, <1>6, <1>7, <2>1
<1>8. CASE c # x
  <2> DEFINE t == s \ {c}
  <2>1. c \in s /\ c \in T /\ t \in SUBSET T /\ t \subseteq s /\ t # s /\ c \in T \ t /\ x \in T \ t
    BY <1>3, <1>5, <1>6, <1>8
  <2>2. (s \cup {x}) \ {c} = t \cup {x} /\ t \cup {c} = s
    BY <1>8, <2>1
  <2>3. f[t \cup {x}] = w[x] + f[t] /\ f[t \cup {c}] = w[c] + f[t]
    BY <1>4, <2>1
  <2>4. w[c] \in Int /\ w[x] \in Int /\ f[t] \in Int
    BY <1>5, <2>1
  <2>5. f[u] = w[c] + (w[x] + f[t]) /\ f[s] = w[c] + f[t]
    BY <1>6, <2>2, <2>3
  <2> HIDE DEF t
  <2> QED
    BY <1>3, <2>4, <2>5
<1> QED
  BY <1>7, <1>8

-----------------------------------------------------------------------------
(***************************************************************************)
(* The sum of a function.                                                  *)
(***************************************************************************)
\* SumFunction is what any function that adds up the weights says of all of them.
LEMMA SumIsAdded ==
  ASSUME NEW T, IsFiniteSet(T), NEW w \in [T -> Int],
         NEW f \in [SUBSET T -> Int], Adds(f, w, SUBSET T)
  PROVE  SumFunction(w) = f[T]
<1> DEFINE g == CHOOSE g : Adds(g, w, SUBSET T)
<1>1. Adds(g, w, SUBSET T)
  OBVIOUS
<1>2. g[T] = f[T]
  <2> HIDE DEF g
  <2> QED
    BY <1>1, SumUnique
<1>3. SumFunction(w) = g[T]
  BY DEF SumFunction, SumFunctionOnSet, FoldFunctionOnSet, MapThenFoldSet, Adds, Chosen
<1> QED
  BY <1>2, <1>3

\* The sum of integers is an integer; nothing adds up to zero.
LEMMA SumTyped ==
  ASSUME NEW T, IsFiniteSet(T), NEW w \in [T -> Int]
  PROVE  /\ SumFunction(w) \in Int
         /\ T = {} => SumFunction(w) = 0
<1>1. PICK f \in [SUBSET T -> Int] : Adds(f, w, SUBSET T)
  BY SumExists
<1>2. SumFunction(w) = f[T]
  BY <1>1, SumIsAdded
<1>3. T = {} => f[T] = 0
  BY <1>1 DEF Adds
<1> QED
  BY <1>2, <1>3

\* A sum is what one of its terms is and the others add up to.
LEMMA SumSplits ==
  ASSUME NEW T, IsFiniteSet(T), NEW w \in [T -> Int], NEW y \in T
  PROVE  SumFunction(w) = w[y] + SumFunction([x \in T \ {y} |-> w[x]])
<1> DEFINE S == T \ {y}
           v == [x \in S |-> w[x]]
<1>1. S \cup {y} = T /\ S \in SUBSET T /\ y \in T \ S /\ SUBSET S \subseteq SUBSET T
  OBVIOUS
<1>2. IsFiniteSet(S) /\ v \in [S -> Int] /\ \A x \in S : w[x] = v[x]
  BY FS_RemoveElement
<1>3. PICK f \in [SUBSET T -> Int] : Adds(f, w, SUBSET T)
  BY SumExists
<1> HIDE DEF S, v
<1>4. PICK g \in [SUBSET S -> Int] : Adds(g, v, SUBSET S)
  BY <1>2, SumExists
<1>5. SumFunction(w) = f[T] /\ SumFunction(v) = g[S]
  BY <1>2, <1>3, <1>4, SumIsAdded
<1>6. f[S] = g[S]
  BY <1>1, <1>2, <1>3, <1>4, SumUnique
<1>7. f[S \cup {y}] = w[y] + f[S]
  <2>1. S \in SUBSET T /\ y \in T \ S
    BY <1>1
  <2>2. Adds(f, w, SUBSET T)
    BY <1>3
  <2> QED
    BY <2>1, <2>2, SumOfOneMore
<1> QED
  BY <1>1, <1>5, <1>6, <1>7 DEF v, S

\* One term more.
LEMMA SumGrowsBy ==
  ASSUME NEW T, IsFiniteSet(T), NEW y, y \notin T,
         NEW v \in [T -> Int], NEW w \in [T \cup {y} -> Int], \A x \in T : w[x] = v[x]
  PROVE  SumFunction(w) = w[y] + SumFunction(v)
<1>1. IsFiniteSet(T \cup {y}) /\ y \in T \cup {y} /\ (T \cup {y}) \ {y} = T
  BY FS_AddElement
<1>2. v = [x \in T |-> w[x]]
  OBVIOUS
<1> QED
  BY <1>1, <1>2, SumSplits

\* Terms that are not negative do not add up to less than zero, nor to less than
\* any of them.
LEMMA SumOfNaturals ==
  ASSUME NEW T, IsFiniteSet(T), NEW w \in [T -> Nat]
  PROVE  /\ SumFunction(w) \in Nat
         /\ \A y \in T : w[y] <= SumFunction(w)
<1> DEFINE part(s) == SumFunction([x \in s |-> w[x]])
           family == {s \in SUBSET T : part(s) \in Nat}
<1>1. {} \in family
  <2>1. [x \in {} |-> w[x]] \in [{} -> Int]
    OBVIOUS
  <2>2. part({}) = 0
    BY <2>1, SumTyped, FS_EmptySet
  <2> QED
    BY <2>2
<1>2. ASSUME NEW s \in SUBSET T, NEW y \in T \ s, s \in family
      PROVE  s \cup {y} \in family
  <2>1. IsFiniteSet(s)
    BY FS_Subset
  <2> DEFINE u == [x \in s |-> w[x]]
             v == [x \in s \cup {y} |-> w[x]]
  <2>2. /\ u \in [s -> Int] /\ v \in [s \cup {y} -> Int] /\ v[y] = w[y] /\ y \notin s
        /\ \A x \in s : v[x] = u[x]
    BY <1>2
  <2>3. SumFunction(v) = v[y] + SumFunction(u)
    <3> HIDE DEF u, v
    <3> QED
      BY <2>1, <2>2, SumGrowsBy
  <2>4. part(s \cup {y}) = w[y] + part(s)
    BY <2>2, <2>3
  <2>5. part(s) \in Nat /\ w[y] \in Nat
    BY <1>2
  <2> HIDE DEF part
  <2> QED
    BY <2>4, <2>5
<1>3. SUBSET T \subseteq family
  <2> HIDE DEF family
  <2> QED
    BY <1>1, <1>2, FiniteSetInduction
<1>4. \A s \in SUBSET T : part(s) \in Nat
  BY <1>3
<1>5. SumFunction(w) \in Nat
  <2>1. [x \in T |-> w[x]] = w
    OBVIOUS
  <2> QED
    BY <1>4, <2>1
<1>6. ASSUME NEW y \in T PROVE w[y] <= SumFunction(w)
  <2>1. w \in [T -> Int]
    OBVIOUS
  <2>2. SumFunction(w) = w[y] + part(T \ {y})
    BY <2>1, SumSplits
  <2>3. part(T \ {y}) \in Nat
    BY <1>4
  <2> HIDE DEF part
  <2> QED
    BY <2>2, <2>3
<1> QED
  BY <1>5, <1>6
=============================================================================
