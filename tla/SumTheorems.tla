----------------------------- MODULE SumTheorems -----------------------------
(***************************************************************************)
(* What the proofs need of least elements and of sums.  The library's      *)
(* induction theorems take a predicate, which the provers cannot           *)
(* instantiate; least elements of well-founded orders do the same work:    *)
(* a smallest set without the property leads to a contradiction.           *)
(***************************************************************************)
EXTENDS Integers, Functions, FiniteSetTheorems, TLAPS

\* The order of the natural numbers is well-founded.
LEMMA NatWellFounded == IsWellFoundedOn({ss \in Nat \X Nat : ss[1] < ss[2]}, Nat)
BY NatLessThanWellFounded DEF OpToRel

\* Of some natural numbers one is the least.
LEMMA LeastNumber ==
  ASSUME NEW T \in SUBSET Nat, T # {}
  PROVE  \E n \in T : \A m \in T : n <= m
<1> DEFINE R == {ss \in Nat \X Nat : ss[1] < ss[2]}
<1>1. IsWellFoundedOn(R, Nat)
  BY NatWellFounded
<1>2. PICK n \in T : \A m \in T : ~ (<<m, n>> \in R)
  <2> HIDE DEF R
  <2> QED
    BY <1>1, WFMin
<1>3. ASSUME NEW m \in T, m < n PROVE FALSE
  <2>1. <<m, n>> \in Nat \X Nat
    OBVIOUS
  <2> QED
    BY <1>2, <1>3, <2>1
<1> QED
  BY <1>3

\* Of some subsets of a finite set one has no smaller one.
LEMMA LeastSet ==
  ASSUME NEW S, IsFiniteSet(S), NEW F \in SUBSET SUBSET S, F # {}
  PROVE  \E U \in F : \A V \in F : V \subseteq U => V = U
<1>1. IsWellFoundedOn(StrictSubsetOrdering(S), FiniteSubsetsOf(S))
  BY FS_StrictSubsetOrderingWellFounded
<1>2. F \subseteq FiniteSubsetsOf(S)
  BY FS_FiniteSubsetsOfFinite
<1>3. PICK U \in F : \A V \in F : ~ (<<V, U>> \in StrictSubsetOrdering(S))
  BY ONLY <1>1, <1>2, F # {}, WFMin
<1>4. U \in SUBSET S /\ \A V \in F : V \in SUBSET S
  OBVIOUS
<1> QED
  BY <1>3, <1>4 DEF StrictSubsetOrdering

------------------------------------------------------------------------------
(* The recursive function that SumFunction stands for.                      *)

Picked(s) == CHOOSE x \in s : TRUE

SumStep(it, f, s) == IF s = {} THEN 0 ELSE f[Picked(s)] + it[s \ {Picked(s)}]

IsSum(it, f) == it = [s \in SUBSET DOMAIN f |-> SumStep(it, f, s)]

SumOn(f, s) == (CHOOSE it : IsSum(it, f))[s]

\* SumFunction is the value at the whole domain.
LEMMA SumIsSumOn ==
  ASSUME NEW f
  PROVE  SumFunction(f) = SumOn(f, DOMAIN f)
BY DEF SumFunction, SumFunctionOnSet, FoldFunctionOnSet, MapThenFoldSet,
       SumOn, IsSum, SumStep, Picked

\* The sums of up to n summands are a function, for every n.
LEMMA SumsUpTo ==
  ASSUME NEW f, IsFiniteSet(DOMAIN f), NEW n \in Nat
  PROVE  \E it : it = [s \in {s \in SUBSET DOMAIN f : Cardinality(s) <= n} |-> SumStep(it, f, s)]
<1> DEFINE Small(k) == {s \in SUBSET DOMAIN f : Cardinality(s) <= k}
           Bad == {k \in Nat : ~ \E it : it = [s \in Small(k) |-> SumStep(it, f, s)]}
<1>0. \A s \in SUBSET DOMAIN f :
        /\ IsFiniteSet(s) /\ Cardinality(s) \in Nat
        /\ Cardinality(s) = 0 => s = {}
        /\ s # {} => /\ Picked(s) \in s
                     /\ s \ {Picked(s)} \in SUBSET DOMAIN f
                     /\ Cardinality(s \ {Picked(s)}) = Cardinality(s) - 1
  <2> SUFFICES ASSUME NEW s \in SUBSET DOMAIN f
               PROVE  /\ IsFiniteSet(s) /\ Cardinality(s) \in Nat
                      /\ Cardinality(s) = 0 => s = {}
                      /\ s # {} => /\ Picked(s) \in s
                                   /\ s \ {Picked(s)} \in SUBSET DOMAIN f
                                   /\ Cardinality(s \ {Picked(s)}) = Cardinality(s) - 1
    OBVIOUS
  <2>1. IsFiniteSet(s) /\ Cardinality(s) \in Nat /\ (Cardinality(s) = 0 => s = {})
    BY FS_Subset, FS_CardinalityType, FS_EmptySet
  <2>2. s # {} => Picked(s) \in s
    BY DEF Picked
  <2> QED
    BY <2>1, <2>2, FS_RemoveElement
<1>1. SUFFICES Bad = {}
  OBVIOUS
<1>2. SUFFICES ASSUME Bad # {} PROVE FALSE
  OBVIOUS
<1>3. PICK k \in Bad : \A m \in Bad : k <= m
  <2> HIDE DEF Bad
  <2>1. Bad \in SUBSET Nat
    BY DEF Bad
  <2> QED
    BY <1>2, <2>1, LeastNumber
<1>6. k \in Nat
  OBVIOUS
<1>4. CASE k = 0
  <2>1. ASSUME NEW s \in Small(0) PROVE s = {}
    <3>1. s \in SUBSET DOMAIN f /\ Cardinality(s) <= 0
      OBVIOUS
    <3>2. Cardinality(s) \in Nat /\ (Cardinality(s) = 0 => s = {})
      BY <1>0, <3>1
    <3> QED
      BY ONLY <3>1, <3>2
  <2> DEFINE zero == [s \in Small(0) |-> 0]
  <2>2. zero = [s \in Small(0) |-> SumStep(zero, f, s)]
    BY <2>1 DEF SumStep
  <2> QED
    BY <1>3, <1>4, <2>2
<1>5. CASE k # 0
  <2>1. k - 1 \in Nat /\ k - 1 \notin Bad
    <3> HIDE DEF Bad
    <3> QED
      BY <1>6, <1>3, <1>5
  <2>2. PICK it : it = [s \in Small(k - 1) |-> SumStep(it, f, s)]
    BY <2>1
  <2> DEFINE next == [s \in Small(k) |-> SumStep(it, f, s)]
  <2>3. ASSUME NEW s \in Small(k) PROVE SumStep(it, f, s) = SumStep(next, f, s)
    <3>1. CASE s = {}
      BY <3>1 DEF SumStep
    <3>2. CASE s # {}
      <4> DEFINE t == s \ {Picked(s)}
      <4>1. t \in Small(k - 1) /\ t \in Small(k)
        BY <1>0, <2>1, <3>2
      <4>2. it[t] = SumStep(it, f, t)
        BY <2>2, <4>1
      <4>3. next[t] = SumStep(it, f, t)
        BY <4>1
      <4> QED
        BY <3>2, <4>2, <4>3 DEF SumStep
    <3> QED
      BY <3>1, <3>2
  <2>4. next = [s \in Small(k) |-> SumStep(next, f, s)]
    BY <2>3
  <2> QED
    BY <1>3, <2>4
<1> QED
  BY <1>4, <1>5

\* So the recursion has a solution, and a sum is taken one summand at a time.
LEMMA SumUnfolds ==
  ASSUME NEW f, IsFiniteSet(DOMAIN f), NEW s \in SUBSET DOMAIN f
  PROVE  /\ SumOn(f, {}) = 0
         /\ s # {} => SumOn(f, s) = f[Picked(s)] + SumOn(f, s \ {Picked(s)})
<1>1. \E it : IsSum(it, f)
  <2> DEFINE n == Cardinality(DOMAIN f)
  <2>1. n \in Nat /\ \A t \in SUBSET DOMAIN f : Cardinality(t) <= n
    BY FS_CardinalityType, FS_Subset
  <2>2. {t \in SUBSET DOMAIN f : Cardinality(t) <= n} = SUBSET DOMAIN f
    BY <2>1
  <2>3. \E it : it = [t \in {t \in SUBSET DOMAIN f : Cardinality(t) <= n} |-> SumStep(it, f, t)]
    <3> HIDE DEF n
    <3> QED
      BY <2>1, SumsUpTo
  <2>4. \E it : it = [t \in SUBSET DOMAIN f |-> SumStep(it, f, t)]
    BY <2>2, <2>3
  <2> QED
    BY <2>4 DEF IsSum
<1> DEFINE it == CHOOSE it : IsSum(it, f)
<1>2. IsSum(it, f)
  BY <1>1
<1>3. \A t \in SUBSET DOMAIN f : it[t] = SumStep(it, f, t)
  <2> HIDE DEF it
  <2> QED
    BY <1>2 DEF IsSum
<1>4. \A t : SumOn(f, t) = it[t]
  BY DEF SumOn
<1> HIDE DEF it
<1> QED
  BY <1>3, <1>4 DEF SumStep

------------------------------------------------------------------------------
(* Sums of integers.                                                        *)

\* A sum of integers is one.
LEMMA SumType ==
  ASSUME NEW f, IsFiniteSet(DOMAIN f), \A x \in DOMAIN f : f[x] \in Int
  PROVE  \A s \in SUBSET DOMAIN f : SumOn(f, s) \in Int
<1> DEFINE Bad == {s \in SUBSET DOMAIN f : SumOn(f, s) \notin Int}
<1>1. SUFFICES ASSUME Bad # {} PROVE FALSE
  OBVIOUS
<1>2. PICK s \in Bad : \A t \in Bad : t \subseteq s => t = s
  <2>1. Bad \in SUBSET SUBSET DOMAIN f
    OBVIOUS
  <2> HIDE DEF Bad
  <2> QED
    BY <1>1, <2>1, LeastSet
<1>3. s \in SUBSET DOMAIN f /\ s # {}
  <2>1. s \in SUBSET DOMAIN f /\ SumOn(f, s) \notin Int
    OBVIOUS
  <2>2. SumOn(f, {}) = 0
    BY <2>1, SumUnfolds
  <2> QED
    BY <2>1, <2>2
<1>4. Picked(s) \in s
  BY <1>3 DEF Picked
<1>5. s \ {Picked(s)} \notin Bad
  <2> HIDE DEF Bad
  <2> QED
    BY <1>2, <1>4
<1>6. SumOn(f, s \ {Picked(s)}) \in Int /\ f[Picked(s)] \in Int
  BY <1>3, <1>4, <1>5
<1> QED
  BY <1>3, <1>6, SumUnfolds

\* Any summand may be taken first.
LEMMA SumTakes ==
  ASSUME NEW f, IsFiniteSet(DOMAIN f), \A x \in DOMAIN f : f[x] \in Int
  PROVE  \A s \in SUBSET DOMAIN f : \A y \in s : SumOn(f, s) = f[y] + SumOn(f, s \ {y})
<1> DEFINE Good(s) == \A y \in s : SumOn(f, s) = f[y] + SumOn(f, s \ {y})
           Bad == {s \in SUBSET DOMAIN f : ~ Good(s)}
<1>1. SUFFICES ASSUME Bad # {} PROVE FALSE
  OBVIOUS
<1>2. PICK s \in Bad : \A t \in Bad : t \subseteq s => t = s
  <2>1. Bad \in SUBSET SUBSET DOMAIN f
    OBVIOUS
  <2> HIDE DEF Bad
  <2> QED
    BY <1>1, <2>1, LeastSet
<1>3. s \in SUBSET DOMAIN f
  OBVIOUS
<1>4. PICK y \in s : SumOn(f, s) # f[y] + SumOn(f, s \ {y})
  OBVIOUS
<1> DEFINE x == Picked(s)
<1>5. x \in s
  BY <1>4 DEF Picked
<1>6. SumOn(f, s) = f[x] + SumOn(f, s \ {x}) /\ x # y
  BY <1>3, <1>4, SumUnfolds
<1>7. Good(s \ {x}) /\ Good(s \ {y})
  <2>1. s \ {x} \notin Bad /\ s \ {y} \notin Bad
    <3> HIDE DEF Bad, x
    <3> QED
      BY <1>2, <1>4, <1>5
  <2> QED
    BY <2>1, <1>3
<1> DEFINE r == s \ {x, y}
<1>8. r = (s \ {x}) \ {y} /\ r = (s \ {y}) \ {x}
  OBVIOUS
<1>9. /\ SumOn(f, s \ {x}) = f[y] + SumOn(f, r)
      /\ SumOn(f, s \ {y}) = f[x] + SumOn(f, r)
  <2> HIDE DEF r, x
  <2> QED
    BY <1>4, <1>5, <1>6, <1>7, <1>8
<1>10. f[x] \in Int /\ f[y] \in Int /\ SumOn(f, r) \in Int
  BY <1>3, <1>4, <1>5, SumType
<1> HIDE DEF x, r
<1> QED
  BY <1>4, <1>6, <1>9, <1>10

\* Functions that agree on a set have the same sum over it.
LEMMA SumSame ==
  ASSUME NEW f, NEW g, IsFiniteSet(DOMAIN f), IsFiniteSet(DOMAIN g),
         NEW S \in SUBSET (DOMAIN f \cap DOMAIN g), \A x \in S : f[x] = g[x]
  PROVE  SumOn(f, S) = SumOn(g, S)
<1> DEFINE Bad == {s \in SUBSET S : SumOn(f, s) # SumOn(g, s)}
<1>0. SUFFICES S \notin Bad
  OBVIOUS
<1>1. SUFFICES ASSUME Bad # {} PROVE FALSE
  OBVIOUS
<1>2. PICK s \in Bad : \A t \in Bad : t \subseteq s => t = s
  <2>1. Bad \in SUBSET SUBSET S /\ IsFiniteSet(S)
    BY FS_Subset
  <2> HIDE DEF Bad
  <2> QED
    BY <1>1, <2>1, LeastSet
<1>3. s \in SUBSET S /\ s \in SUBSET DOMAIN f /\ s \in SUBSET DOMAIN g
  OBVIOUS
<1>4. s # {}
  BY <1>3, SumUnfolds
<1>5. Picked(s) \in s
  BY <1>4 DEF Picked
<1>6. s \ {Picked(s)} \notin Bad
  <2> HIDE DEF Bad
  <2> QED
    BY <1>2, <1>5
<1>7. SumOn(f, s \ {Picked(s)}) = SumOn(g, s \ {Picked(s)}) /\ f[Picked(s)] = g[Picked(s)]
  BY <1>3, <1>5, <1>6
<1>8. SumOn(f, s) = f[Picked(s)] + SumOn(f, s \ {Picked(s)})
  BY <1>3, <1>4, SumUnfolds
<1>9. SumOn(g, s) = g[Picked(s)] + SumOn(g, s \ {Picked(s)})
  BY <1>3, <1>4, SumUnfolds
<1> QED
  BY <1>7, <1>8, <1>9

\* The sum over two sets without a common element.
LEMMA SumAdds ==
  ASSUME NEW f, IsFiniteSet(DOMAIN f), \A x \in DOMAIN f : f[x] \in Int,
         NEW A \in SUBSET DOMAIN f, NEW B \in SUBSET DOMAIN f, A \cap B = {}
  PROVE  SumOn(f, A \cup B) = SumOn(f, A) + SumOn(f, B)
<1> DEFINE Bad == {s \in SUBSET B : SumOn(f, A \cup s) # SumOn(f, A) + SumOn(f, s)}
<1>0. SUFFICES ASSUME Bad # {} PROVE FALSE
  OBVIOUS
<1>1. PICK s \in Bad : \A t \in Bad : t \subseteq s => t = s
  <2>1. Bad \in SUBSET SUBSET B /\ IsFiniteSet(B)
    BY FS_Subset
  <2> HIDE DEF Bad
  <2> QED
    BY <1>0, <2>1, LeastSet
<1>2. /\ s \in SUBSET B /\ s \in SUBSET DOMAIN f /\ A \cup s \in SUBSET DOMAIN f
      /\ SumOn(f, A \cup s) # SumOn(f, A) + SumOn(f, s)
  OBVIOUS
<1>3. SumOn(f, A) \in Int /\ SumOn(f, {}) = 0
  BY SumType, SumUnfolds
<1>4. s # {}
  <2>1. s = {} => A \cup s = A
    OBVIOUS
  <2>2. s = {} => SumOn(f, A \cup s) = SumOn(f, A) + SumOn(f, s)
    BY ONLY <1>3, <2>1
  <2> QED
    BY ONLY <1>2, <2>2
<1>5. PICK y \in s : TRUE
  BY <1>4
<1> DEFINE r == s \ {y}
<1>6. SumOn(f, A \cup r) = SumOn(f, A) + SumOn(f, r)
  <2>1. r \notin Bad
    <3> HIDE DEF Bad
    <3> QED
      BY <1>1, <1>5
  <2> QED
    BY <1>2, <2>1
<1>7. SumOn(f, s) = f[y] + SumOn(f, r)
  BY <1>2, <1>5, SumTakes
<1>8. SumOn(f, A \cup s) = f[y] + SumOn(f, A \cup r)
  <2>1. (A \cup s) \ {y} = A \cup r /\ y \in A \cup s
    BY <1>2, <1>5
  <2> QED
    BY <1>2, <2>1, SumTakes
<1>9. SumOn(f, r) \in Int /\ f[y] \in Int
  BY <1>2, <1>5, SumType
<1> HIDE DEF r
<1> QED
  BY <1>2, <1>3, <1>6, <1>7, <1>8, <1>9

\* Nothing sums up to nothing.
LEMMA SumNothing ==
  ASSUME NEW f, IsFiniteSet(DOMAIN f), NEW S \in SUBSET DOMAIN f, \A x \in S : f[x] = 0
  PROVE  SumOn(f, S) = 0
<1> DEFINE Bad == {s \in SUBSET S : SumOn(f, s) # 0}
<1>0. SUFFICES ASSUME Bad # {} PROVE FALSE
  OBVIOUS
<1>1. PICK s \in Bad : \A t \in Bad : t \subseteq s => t = s
  <2>1. Bad \in SUBSET SUBSET S /\ IsFiniteSet(S)
    BY FS_Subset
  <2> HIDE DEF Bad
  <2> QED
    BY <1>0, <2>1, LeastSet
<1>2. s \in SUBSET S /\ s \in SUBSET DOMAIN f /\ SumOn(f, s) # 0
  OBVIOUS
<1>3. s # {}
  BY <1>2, SumUnfolds
<1>4. Picked(s) \in s
  BY <1>3 DEF Picked
<1>5. SumOn(f, s) = f[Picked(s)] + SumOn(f, s \ {Picked(s)})
  BY <1>2, <1>3, SumUnfolds
<1>6. s \ {Picked(s)} \notin Bad
  <2> HIDE DEF Bad
  <2> QED
    BY <1>1, <1>4
<1>7. SumOn(f, s \ {Picked(s)}) = 0 /\ f[Picked(s)] = 0
  BY <1>2, <1>4, <1>6
<1> QED
  BY <1>2, <1>5, <1>7

------------------------------------------------------------------------------
(* The same of SumFunction.                                                 *)

\* The sum of integers is an integer, and that of none is zero.
THEOREM SumFunctionType ==
  ASSUME NEW f, IsFiniteSet(DOMAIN f), \A x \in DOMAIN f : f[x] \in Int
  PROVE  SumFunction(f) \in Int /\ (DOMAIN f = {} => SumFunction(f) = 0)
BY SumIsSumOn, SumType, SumUnfolds

\* A part of a function sums up to its values there.
LEMMA SumOfPart ==
  ASSUME NEW f, IsFiniteSet(DOMAIN f), NEW S \in SUBSET DOMAIN f
  PROVE  SumFunction([x \in S |-> f[x]]) = SumOn(f, S)
<1> DEFINE g == [x \in S |-> f[x]]
<1>1. DOMAIN g = S /\ (\A x \in S : g[x] = f[x])
  OBVIOUS
<1>2. IsFiniteSet(S)
  BY FS_Subset
<1>3. SumFunction(g) = SumOn(g, S)
  BY <1>1, SumIsSumOn
<1>4. S \in SUBSET (DOMAIN f \cap DOMAIN g)
  BY <1>1
<1> HIDE DEF g
<1>5. SumOn(f, S) = SumOn(g, S)
  BY <1>1, <1>2, <1>4, SumSame
<1> QED
  BY <1>3, <1>5 DEF g

\* A sum is the sum of two parts.
THEOREM SumFunctionParts ==
  ASSUME NEW f, IsFiniteSet(DOMAIN f), \A x \in DOMAIN f : f[x] \in Int,
         NEW S \in SUBSET DOMAIN f
  PROVE  SumFunction(f) = SumFunction([x \in S |-> f[x]])
                          + SumFunction([x \in DOMAIN f \ S |-> f[x]])
<1>1. DOMAIN f \ S \in SUBSET DOMAIN f /\ S \cup (DOMAIN f \ S) = DOMAIN f
      /\ S \cap (DOMAIN f \ S) = {}
  OBVIOUS
<1>2. SumOn(f, DOMAIN f) = SumOn(f, S) + SumOn(f, DOMAIN f \ S)
  BY <1>1, SumAdds
<1> QED
  BY <1>1, <1>2, SumIsSumOn, SumOfPart

\* Zeros may be left out.
THEOREM SumFunctionZeros ==
  ASSUME NEW f, IsFiniteSet(DOMAIN f), \A x \in DOMAIN f : f[x] \in Int,
         NEW S \in SUBSET DOMAIN f, \A x \in DOMAIN f \ S : f[x] = 0
  PROVE  SumFunction(f) = SumFunction([x \in S |-> f[x]])
<1>1. DOMAIN f \ S \in SUBSET DOMAIN f
  OBVIOUS
<1>2. SumFunction([x \in DOMAIN f \ S |-> f[x]]) = 0
  BY <1>1, SumOfPart, SumNothing
<1>3. SumFunction([x \in S |-> f[x]]) \in Int
  BY SumOfPart, SumType
<1> QED
  BY <1>2, <1>3, SumFunctionParts

\* A single summand is the sum.
THEOREM SumFunctionOne ==
  ASSUME NEW x, NEW v \in Int
  PROVE  SumFunction([y \in {x} |-> v]) = v
<1> DEFINE f == [y \in {x} |-> v]
<1>1. /\ DOMAIN f = {x} /\ f[x] = v
      /\ (\A y \in {x} : f[y] \in Int)
  OBVIOUS
<1> HIDE DEF f
<1>2. IsFiniteSet({x})
  BY FS_Singleton
<1>3. SumOn(f, {x}) = f[x] + SumOn(f, {x} \ {x}) /\ SumOn(f, {}) = 0
  BY <1>1, <1>2, SumTakes, SumUnfolds
<1>4. {x} \ {x} = {}
  OBVIOUS
<1>5. SumFunction(f) = v
  BY <1>1, <1>3, <1>4, SumIsSumOn
<1> QED
  BY <1>5 DEF f

\* Summands of one sign, c = 1 for positive and -1 for negative ones, never even out.
LEMMA SumSigned ==
  ASSUME NEW f, IsFiniteSet(DOMAIN f), \A x \in DOMAIN f : f[x] \in Int,
         NEW c \in {1, -1}, \A x \in DOMAIN f : c * f[x] > 0
  PROVE  \A s \in SUBSET DOMAIN f : s # {} => c * SumOn(f, s) > 0
<1> DEFINE Bad == {s \in SUBSET DOMAIN f : s # {} /\ ~ (c * SumOn(f, s) > 0)}
<1>0. SUFFICES ASSUME Bad # {} PROVE FALSE
  OBVIOUS
<1>1. PICK s \in Bad : \A t \in Bad : t \subseteq s => t = s
  <2>1. Bad \in SUBSET SUBSET DOMAIN f
    OBVIOUS
  <2> HIDE DEF Bad
  <2> QED
    BY <1>0, <2>1, LeastSet
<1>2. PICK y : y \in s
  OBVIOUS
<1>3. /\ SumOn(f, s) = f[y] + SumOn(f, s \ {y})
      /\ SumOn(f, {}) = 0 /\ SumOn(f, s \ {y}) \in Int /\ f[y] \in Int
  BY <1>2, SumTakes, SumUnfolds, SumType
<1>4. s \ {y} # {} => c * SumOn(f, s \ {y}) > 0
  <2>1. s \ {y} \notin Bad
    BY <1>1, <1>2
  <2> QED
    BY <2>1
<1>5. c * f[y] > 0 /\ ~ (c * SumOn(f, s) > 0)
  BY <1>2
<1>6. CASE s \ {y} = {}
  <2>1. SumOn(f, s) = f[y]
    BY <1>3, <1>6
  <2> QED
    BY ONLY <1>5, <2>1
<1>7. CASE s \ {y} # {}
  <2> DEFINE rest == SumOn(f, s \ {y})
  <2>1. rest \in Int /\ c * rest > 0 /\ c * f[y] > 0 /\ f[y] \in Int /\ ~ (c * (f[y] + rest) > 0)
    BY <1>3, <1>4, <1>5, <1>7
  <2> HIDE DEF rest
  <2>2. CASE c = 1
    BY <2>1, <2>2
  <2>3. CASE c = -1
    BY <2>1, <2>3
  <2> QED
    BY <2>2, <2>3
<1> QED
  BY <1>6, <1>7

\* So if they even out there are none.
THEOREM SumFunctionSigned ==
  ASSUME NEW f, IsFiniteSet(DOMAIN f), \A x \in DOMAIN f : f[x] \in Int,
         \/ \A x \in DOMAIN f : f[x] > 0
         \/ \A x \in DOMAIN f : f[x] < 0,
         SumFunction(f) = 0
  PROVE  DOMAIN f = {}
<1>1. PICK c \in {1, -1} : \A x \in DOMAIN f : c * f[x] > 0
  <2>1. CASE \A x \in DOMAIN f : f[x] > 0
    <3>1. \A x \in DOMAIN f : 1 * f[x] > 0
      BY <2>1
    <3> QED
      BY <3>1
  <2>2. CASE \A x \in DOMAIN f : f[x] < 0
    <3>1. \A x \in DOMAIN f : (-1) * f[x] > 0
      BY <2>2
    <3> QED
      BY <3>1
  <2> QED
    BY <2>1, <2>2
<1>2. DOMAIN f # {} => c * SumOn(f, DOMAIN f) > 0
  BY <1>1, SumSigned
<1>3. SumOn(f, DOMAIN f) = 0 /\ ~ (c * 0 > 0)
  BY SumIsSumOn
<1> QED
  BY <1>2, <1>3

\* Sums over disjoint groups add up to the sum over all of them.
LEMMA SumOfGroups ==
  ASSUME NEW f, IsFiniteSet(DOMAIN f), \A x \in DOMAIN f : f[x] \in Int,
         NEW g, NEW K, IsFiniteSet(K),
         NEW h, DOMAIN h = K, \A k \in K : h[k] = SumOn(f, {x \in DOMAIN f : g[x] = k})
  PROVE  SumOn(h, K) = SumOn(f, {x \in DOMAIN f : g[x] \in K})
<1> DEFINE In(L) == {x \in DOMAIN f : g[x] \in L}
           Bad == {L \in SUBSET K : SumOn(h, L) # SumOn(f, In(L))}
<1>0. SUFFICES ASSUME Bad # {} PROVE FALSE
  OBVIOUS
<1>1. PICK L \in Bad : \A M \in Bad : M \subseteq L => M = L
  <2>1. Bad \in SUBSET SUBSET K
    OBVIOUS
  <2> HIDE DEF Bad
  <2> QED
    BY <1>0, <2>1, LeastSet
<1>2. \A k \in K : h[k] \in Int
  <2> SUFFICES ASSUME NEW k \in K PROVE h[k] \in Int
    OBVIOUS
  <2> DEFINE part == {x \in DOMAIN f : g[x] = k}
  <2>1. part \in SUBSET DOMAIN f /\ h[k] = SumOn(f, part)
    OBVIOUS
  <2> HIDE DEF part
  <2> QED
    BY <2>1, SumType
<1>3. L # {}
  <2>1. L = {} => In(L) = {}
    OBVIOUS
  <2>2. SumOn(h, {}) = 0 /\ SumOn(f, {}) = 0
    <3>1. {} \in SUBSET DOMAIN h /\ {} \in SUBSET DOMAIN f
      OBVIOUS
    <3> QED
      BY <3>1, SumUnfolds
  <2>3. SumOn(h, L) # SumOn(f, In(L))
    OBVIOUS
  <2> HIDE DEF In
  <2> QED
    BY <2>1, <2>2, <2>3
<1>4. PICK k \in L : TRUE
  BY <1>3
<1> DEFINE group == {x \in DOMAIN f : g[x] = k}
           rest  == In(L \ {k})
<1>5. In(L) = group \cup rest /\ group \cap rest = {}
      /\ group \in SUBSET DOMAIN f /\ rest \in SUBSET DOMAIN f
  BY <1>4
<1>6. SumOn(h, L \ {k}) = SumOn(f, rest)
  <2>1. L \ {k} \notin Bad
    <3> HIDE DEF Bad
    <3> QED
      BY <1>1, <1>4
  <2> QED
    BY <2>1
<1>7. SumOn(h, L) = h[k] + SumOn(h, L \ {k})
  BY <1>2, <1>4, SumTakes
<1>8. h[k] = SumOn(f, group)
  BY <1>4
<1>9. SumOn(h, L) # SumOn(f, In(L))
  OBVIOUS
<1> HIDE DEF In, group, rest, Bad
<1>10. SumOn(f, In(L)) = SumOn(f, group) + SumOn(f, rest)
  BY <1>5, SumAdds
<1> QED
  BY <1>6, <1>7, <1>8, <1>9, <1>10

\* A sum is that of its groups, if what is in none of them is zero.
THEOREM SumFunctionGroups ==
  ASSUME NEW f, IsFiniteSet(DOMAIN f), \A x \in DOMAIN f : f[x] \in Int,
         NEW g, NEW K, IsFiniteSet(K), \A x \in DOMAIN f : f[x] # 0 => g[x] \in K,
         NEW h, DOMAIN h = K,
         \A k \in K : h[k] = SumFunction([x \in {x \in DOMAIN f : g[x] = k} |-> f[x]])
  PROVE  SumFunction(h) = SumFunction(f)
<1> DEFINE all == {x \in DOMAIN f : g[x] \in K}
<1>1. \A k \in K : h[k] = SumOn(f, {x \in DOMAIN f : g[x] = k})
  <2> SUFFICES ASSUME NEW k \in K
               PROVE  SumFunction([x \in {x \in DOMAIN f : g[x] = k} |-> f[x]])
                        = SumOn(f, {x \in DOMAIN f : g[x] = k})
    OBVIOUS
  <2> DEFINE group == {x \in DOMAIN f : g[x] = k}
  <2>1. group \in SUBSET DOMAIN f
    OBVIOUS
  <2> HIDE DEF group
  <2>2. SumFunction([x \in group |-> f[x]]) = SumOn(f, group)
    BY <2>1, SumOfPart
  <2> QED
    BY <2>2 DEF group
<1>2. all \in SUBSET DOMAIN f /\ \A x \in DOMAIN f \ all : f[x] = 0
  OBVIOUS
<1>3. SumOn(h, K) = SumOn(f, all)
  BY <1>1, SumOfGroups
<1> HIDE DEF all
<1>4. SumFunction(f) = SumOn(f, all)
  BY <1>2, SumFunctionZeros, SumOfPart
<1>5. SumFunction(h) = SumOn(h, K)
  BY SumIsSumOn
<1> QED
  BY <1>3, <1>4, <1>5

\* Numbers from zero on sum up to one.
LEMMA SumNatural ==
  ASSUME NEW f, IsFiniteSet(DOMAIN f), \A x \in DOMAIN f : f[x] \in Nat
  PROVE  \A s \in SUBSET DOMAIN f : SumOn(f, s) \in Nat
<1> DEFINE Bad == {s \in SUBSET DOMAIN f : SumOn(f, s) \notin Nat}
<1>0. SUFFICES ASSUME Bad # {} PROVE FALSE
  OBVIOUS
<1>1. PICK s \in Bad : \A t \in Bad : t \subseteq s => t = s
  <2>1. Bad \in SUBSET SUBSET DOMAIN f
    OBVIOUS
  <2> HIDE DEF Bad
  <2> QED
    BY <1>0, <2>1, LeastSet
<1>2. SumOn(f, {}) = 0
  BY SumUnfolds
<1>3. PICK y : y \in s
  BY <1>2
<1>4. s \ {y} \notin Bad
  <2> HIDE DEF Bad
  <2> QED
    BY <1>1, <1>3
<1>5. SumOn(f, s \ {y}) \in Nat
  BY <1>4
<1>6. SumOn(f, s) = f[y] + SumOn(f, s \ {y})
  BY <1>3, SumTakes
<1>7. f[y] \in Nat
  BY <1>3
<1> QED
  BY <1>5, <1>6, <1>7

\* A sum of such numbers is no less than that of a part of them.
THEOREM SumFunctionNat ==
  ASSUME NEW f, IsFiniteSet(DOMAIN f), \A x \in DOMAIN f : f[x] \in Nat
  PROVE  /\ SumFunction(f) \in Nat
         /\ \A S \in SUBSET DOMAIN f : SumFunction([x \in S |-> f[x]]) <= SumFunction(f)
         /\ \A x \in DOMAIN f : f[x] <= SumFunction(f)
<1>1. SumFunction(f) \in Nat
  BY SumIsSumOn, SumNatural
<1>2. ASSUME NEW S \in SUBSET DOMAIN f PROVE SumFunction([x \in S |-> f[x]]) <= SumFunction(f)
  <2>1. DOMAIN f \ S \in SUBSET DOMAIN f
    OBVIOUS
  <2>2. SumFunction([x \in S |-> f[x]]) \in Nat /\ SumFunction([x \in DOMAIN f \ S |-> f[x]]) \in Nat
    BY <2>1, SumOfPart, SumNatural
  <2>3. SumFunction(f) = SumFunction([x \in S |-> f[x]]) + SumFunction([x \in DOMAIN f \ S |-> f[x]])
    BY SumFunctionParts
  <2> QED
    BY <2>2, <2>3
<1>3. ASSUME NEW x \in DOMAIN f PROVE f[x] <= SumFunction(f)
  <2>1. SumOn(f, DOMAIN f) = f[x] + SumOn(f, DOMAIN f \ {x})
    BY SumTakes
  <2>2. SumOn(f, DOMAIN f \ {x}) \in Nat /\ f[x] \in Nat
    BY SumNatural
  <2> QED
    BY <2>1, <2>2, SumIsSumOn
<1> QED
  BY <1>1, <1>2, <1>3
=============================================================================
