------------------------------- MODULE Totals -------------------------------
(***************************************************************************)
(* Sums over finite sets and greatest elements, as Throttle, Files, Images *)
(* and Chats use them.  Induction is spelled out each time: were a         *)
(* statement false, there would be a smallest set for which it is.         *)
(***************************************************************************)
EXTENDS Throttle, FiniteSetTheorems, TLAPS

(* A set of natural numbers has a least element.                           *)
LEMMA LeastNat ==
  ASSUME NEW T, T \subseteq Nat, T # {}
  PROVE  \E m \in T : \A n \in T : m <= n
  <1>1. \E m \in T : \A n \in T : ~ (<<n, m>> \in OpToRel(<, Nat))
    BY NatLessThanWellFounded, WFMin
  <1>2. PICK m \in T : \A n \in T : ~ (<<n, m>> \in OpToRel(<, Nat))
    BY <1>1
  <1>3. m \in T /\ m \in Nat /\ \A n \in T : n \in Nat /\ ~ (n < m)
    BY <1>2 DEF OpToRel
  <1>4. \A n \in T : m <= n
    BY <1>3
  <1> QED
    BY <1>3, <1>4

(* A non-empty set of finite sets has one with the fewest elements.        *)
LEMMA SmallestSet ==
  ASSUME NEW C, C # {}, \A S \in C : IsFiniteSet(S)
  PROVE  \E S \in C : \A R \in C : ~ (Cardinality(R) < Cardinality(S))
  <1> DEFINE T == {Cardinality(S) : S \in C}
  <1>1. T \subseteq Nat /\ T # {}
    BY FS_CardinalityType
  <1>2. PICK m \in T : \A n \in T : m <= n
    BY <1>1, LeastNat
  <1>3. PICK S \in C : m = Cardinality(S)
    BY <1>2
  <1>4. \A R \in C : Cardinality(R) \in Nat /\ m <= Cardinality(R)
    BY <1>1, <1>2
  <1> QED
    BY <1>3, <1>4, <1>1

(* Max and Min of FiniteSetsExt are the greatest and the least element.    *)
LEMMA MaxIsGreatest ==
  ASSUME NEW S, S \subseteq Int, IsFiniteSet(S), S # {}
  PROVE  Max(S) \in S /\ \A y \in S : Max(S) >= y
  <1> DEFINE C == {R \in SUBSET S : R # {} /\ ~ (\E x \in R : \A y \in R : x >= y)}
  <1>1. \A R \in C : IsFiniteSet(R)
    BY FS_Subset
  <1>2. CASE C = {}
    <2>1. \E x \in S : \A y \in S : x >= y
      BY <1>2
    <2> QED
      BY <2>1 DEF Max
  <1>3. CASE C # {}
    <2>1. PICK R \in C : \A Q \in C : ~ (Cardinality(Q) < Cardinality(R))
      BY <1>1, <1>3, SmallestSet
    <2>2. PICK z \in R : TRUE
      BY <2>1
    <2>3. /\ IsFiniteSet(R) /\ Cardinality(R) \in Nat
          /\ Cardinality(R \ {z}) = Cardinality(R) - 1
      BY <1>1, <2>1, <2>2, FS_CardinalityType, FS_RemoveElement
    <2>4. R \ {z} \notin C
      <3> HIDE DEF C
      <3> SUFFICES ASSUME R \ {z} \in C
                   PROVE  FALSE
        OBVIOUS
      <3>1. ~ (Cardinality(R \ {z}) < Cardinality(R))
        BY <2>1
      <3> QED
        BY <2>3, <3>1
    <2>5. CASE R \ {z} = {}
      BY <2>1, <2>2, <2>5
    <2>6. CASE R \ {z} # {}
      <3>1. PICK x \in R \ {z} : \A y \in R \ {z} : x >= y
        BY <2>1, <2>4, <2>6
      <3>2. x \in Int /\ z \in Int /\ \A y \in R : y \in Int
        BY <2>1, <2>2, <3>1
      <3>3. \E w \in R : \A y \in R : w >= y
        <4>1. CASE x >= z
          BY <3>1, <4>1
        <4>2. CASE ~ (x >= z)
          BY <2>2, <3>1, <3>2, <4>2
        <4> QED
          BY <4>1, <4>2
      <3> QED
        BY <2>1, <3>3
    <2> QED
      BY <2>5, <2>6
  <1> QED
    BY <1>2, <1>3

(* The same for the least.                                                 *)
LEMMA MinIsLeast ==
  ASSUME NEW S, S \subseteq Nat, S # {}
  PROVE  Min(S) \in S /\ \A y \in S : Min(S) <= y
  BY LeastNat DEF Min

-----------------------------------------------------------------------------
(* The function behind Total: the sum of f over every subset of S.         *)
Pick(s) == CHOOSE x \in s : TRUE

SumOf(f, g, s) == IF s = {} THEN 0 ELSE f[Pick(s)] + g[s \ {Pick(s)}]

IsSum(f, S, g) == g = [s \in SUBSET S |-> SumOf(f, g, s)]

SumBelow(f, S, n, g) ==
    g = [s \in {s \in SUBSET S : Cardinality(s) <= n} |-> SumOf(f, g, s)]

(* The sums over the subsets with at most n elements exist.                *)
LEMMA SumUpTo ==
  ASSUME NEW f, NEW S, IsFiniteSet(S), NEW n \in Nat
  PROVE  \E g : SumBelow(f, S, n, g)
  <1> DEFINE T == {i \in Nat : ~ (\E g : SumBelow(f, S, i, g))}
  <1>1. SUFFICES ASSUME T # {} PROVE FALSE
    OBVIOUS
  <1>2. PICK m \in T : \A i \in T : m <= i
    BY <1>1, LeastNat
  <1>3. \A s \in SUBSET S : /\ IsFiniteSet(s) /\ Cardinality(s) \in Nat
                            /\ Cardinality(s) = 0 <=> s = {}
    BY FS_Subset, FS_CardinalityType, FS_EmptySet
  <1>4. \A s \in SUBSET S : s # {} =>
          /\ s \ {Pick(s)} \in SUBSET S
          /\ Cardinality(s \ {Pick(s)}) = Cardinality(s) - 1
    <2> SUFFICES ASSUME NEW s \in SUBSET S, s # {}
                 PROVE  Cardinality(s \ {Pick(s)}) = Cardinality(s) - 1
      OBVIOUS
    <2>1. Pick(s) \in s
      BY DEF Pick
    <2> QED
      BY <1>3, <2>1, FS_RemoveElement
  <1>5. CASE m = 0
    <2> DEFINE g == [s \in {s \in SUBSET S : Cardinality(s) <= 0} |-> 0]
    <2>1. \A s \in SUBSET S : Cardinality(s) <= 0 => SumOf(f, g, s) = 0
      BY <1>3 DEF SumOf
    <2>2. SumBelow(f, S, 0, g)
      BY <2>1 DEF SumBelow
    <2> QED
      BY <1>2, <1>5, <2>2
  <1>6. CASE m # 0
    <2>1. m - 1 \in Nat /\ m - 1 \notin T
      BY <1>2, <1>6
    <2>2. PICK g : SumBelow(f, S, m - 1, g)
      BY <2>1
    <2> DEFINE D == {s \in SUBSET S : Cardinality(s) <= m}
               k == [s \in D |-> SumOf(f, g, s)]
    <2>3. \A s \in SUBSET S : Cardinality(s) <= m - 1 => k[s] = g[s]
      <3> SUFFICES ASSUME NEW s \in SUBSET S, Cardinality(s) <= m - 1
                   PROVE  k[s] = g[s]
        OBVIOUS
      <3>1. s \in D
        BY <1>2, <1>3
      <3>2. g[s] = SumOf(f, g, s)
        BY <2>2 DEF SumBelow
      <3> QED
        BY <3>1, <3>2
    <2>4. \A s \in D : SumOf(f, k, s) = SumOf(f, g, s)
      <3> HIDE DEF k
      <3>1. ASSUME NEW s \in D, s # {}
            PROVE  k[s \ {Pick(s)}] = g[s \ {Pick(s)}]
        <4>1. s \ {Pick(s)} \in SUBSET S /\ Cardinality(s \ {Pick(s)}) <= m - 1
          BY <1>2, <1>3, <1>4, <3>1
        <4> QED
          BY <2>3, <4>1
      <3> QED
        BY <3>1 DEF SumOf
    <2>5. k = [s \in D |-> SumOf(f, k, s)]
      BY <2>4
    <2>6. SumBelow(f, S, m, k)
      BY <2>5 DEF SumBelow
    <2> HIDE DEF k
    <2> QED
      BY <1>2, <2>6
  <1> QED
    BY <1>5, <1>6

(* So do those over all subsets.                                           *)
LEMMA SumExists ==
  ASSUME NEW f, NEW S, IsFiniteSet(S)
  PROVE  \E g : IsSum(f, S, g)
  <1>1. Cardinality(S) \in Nat
    BY FS_CardinalityType
  <1>2. PICK g : SumBelow(f, S, Cardinality(S), g)
    BY <1>1, SumUpTo
  <1>3. \A s \in SUBSET S : Cardinality(s) <= Cardinality(S)
    BY FS_Subset
  <1>4. {s \in SUBSET S : Cardinality(s) <= Cardinality(S)} = SUBSET S
    BY <1>3
  <1> QED
    BY <1>2, <1>4 DEF SumBelow, IsSum

(* There is one such function only.                                        *)
LEMMA SumUnique ==
  ASSUME NEW f, NEW S, IsFiniteSet(S), NEW R \in SUBSET S,
         NEW g, IsSum(f, S, g), NEW k, IsSum(f, R, k)
  PROVE  \A s \in SUBSET R : g[s] = k[s]
  <1> DEFINE C == {s \in SUBSET R : g[s] # k[s]}
  <1>1. SUFFICES ASSUME C # {} PROVE FALSE
    OBVIOUS
  <1>2. \A s \in SUBSET R : IsFiniteSet(s)
    BY FS_Subset
  <1>3. PICK s \in C : \A r \in C : ~ (Cardinality(r) < Cardinality(s))
    BY <1>1, <1>2, SmallestSet
  <1>4. s \in SUBSET R /\ s \in SUBSET S /\ g[s] # k[s]
    BY <1>3
  <1>5. g[s] = SumOf(f, g, s) /\ k[s] = SumOf(f, k, s)
    BY <1>4 DEF IsSum
  <1>6. s # {}
    BY <1>4, <1>5 DEF SumOf
  <1>7. Pick(s) \in s
    BY <1>6 DEF Pick
  <1>8. /\ Cardinality(s \ {Pick(s)}) = Cardinality(s) - 1
        /\ Cardinality(s) \in Nat
    BY <1>2, <1>4, <1>7, FS_RemoveElement, FS_CardinalityType
  <1>9. s \ {Pick(s)} \notin C
    <2> HIDE DEF C
    <2> SUFFICES ASSUME s \ {Pick(s)} \in C
                 PROVE  FALSE
      OBVIOUS
    <2>1. ~ (Cardinality(s \ {Pick(s)}) < Cardinality(s))
      BY <1>3
    <2> QED
      BY <1>8, <2>1
  <1>10. g[s \ {Pick(s)}] = k[s \ {Pick(s)}]
    BY <1>4, <1>9
  <1> QED
    BY <1>4, <1>5, <1>6, <1>10 DEF SumOf

(* Total is its value for the whole set.                                   *)
LEMMA TotalIsSum ==
  ASSUME NEW f, NEW S, IsFiniteSet(S)
  PROVE  \E g : IsSum(f, S, g) /\ Total(f, S) = g[S]
  <1>1. Total(f, S) = (CHOOSE g : IsSum(f, S, g))[S]
    BY DEF Total, MapThenSumSet, MapThenFoldSet, IsSum, SumOf, Pick
  <1>2. IsSum(f, S, CHOOSE g : IsSum(f, S, g))
    BY SumExists
  <1> QED
    BY <1>1, <1>2

-----------------------------------------------------------------------------
(* What Total adds up to, whatever the order in which it takes the         *)
(* elements.                                                               *)
LEMMA TotalOfNone ==
  ASSUME NEW f
  PROVE  Total(f, {}) = 0
  <1>1. PICK g : IsSum(f, {}, g) /\ Total(f, {}) = g[{}]
    BY TotalIsSum, FS_EmptySet
  <1> QED
    BY <1>1 DEF IsSum, SumOf

(* One element is taken off a sum at a time.                               *)
LEMMA TotalUnfolds ==
  ASSUME NEW f, NEW S, IsFiniteSet(S), S # {}
  PROVE  Total(f, S) = f[Pick(S)] + Total(f, S \ {Pick(S)})
  <1> DEFINE R == S \ {Pick(S)}
  <1>1. R \in SUBSET S /\ IsFiniteSet(R)
    BY FS_Subset
  <1>2. PICK g : IsSum(f, S, g) /\ Total(f, S) = g[S]
    BY TotalIsSum
  <1>3. PICK k : IsSum(f, R, k) /\ Total(f, R) = k[R]
    BY <1>1, TotalIsSum
  <1>4. g[R] = k[R]
    <2> HIDE DEF R
    <2> QED
      BY <1>1, <1>2, <1>3, SumUnique
  <1>5. g[S] = f[Pick(S)] + g[R]
    BY <1>2 DEF IsSum, SumOf
  <1> QED
    BY <1>2, <1>3, <1>4, <1>5

(* A sum of integers is an integer.                                        *)
LEMMA TotalIsInt ==
  ASSUME NEW f, NEW S, IsFiniteSet(S), \A x \in S : f[x] \in Int
  PROVE  Total(f, S) \in Int
  <1> DEFINE C == {s \in SUBSET S : Total(f, s) \notin Int}
  <1>1. SUFFICES ASSUME C # {} PROVE FALSE
    OBVIOUS
  <1>2. \A s \in SUBSET S : IsFiniteSet(s)
    BY FS_Subset
  <1>3. PICK s \in C : \A r \in C : ~ (Cardinality(r) < Cardinality(s))
    BY <1>1, <1>2, SmallestSet
  <1>4. s \in SUBSET S /\ Total(f, s) \notin Int /\ IsFiniteSet(s)
    BY <1>2, <1>3
  <1>5. s # {}
    BY <1>4, TotalOfNone
  <1>6. PICK p \in s : p = Pick(s)
    BY <1>5 DEF Pick
  <1>7. Cardinality(s \ {p}) = Cardinality(s) - 1 /\ Cardinality(s) \in Nat
    BY <1>4, FS_RemoveElement, FS_CardinalityType
  <1>8. s \ {p} \notin C
    <2> HIDE DEF C
    <2> QED
      BY <1>3, <1>7
  <1>9. Total(f, s) = f[p] + Total(f, s \ {p})
    BY <1>4, <1>5, <1>6, TotalUnfolds
  <1> QED
    BY <1>4, <1>8, <1>9

(* The sum less any of the elements.                                       *)
LEMMA TotalRemove ==
  ASSUME NEW f, NEW S, IsFiniteSet(S), \A x \in S : f[x] \in Int
  PROVE  \A x \in S : Total(f, S) = f[x] + Total(f, S \ {x})
  <1> DEFINE Good(s) == \A x \in s : Total(f, s) = f[x] + Total(f, s \ {x})
             C == {s \in SUBSET S : ~Good(s)}
  <1>1. SUFFICES ASSUME C # {} PROVE FALSE
    BY DEF Good
  <1>2. \A s \in SUBSET S : IsFiniteSet(s) /\ Total(f, s) \in Int
    BY FS_Subset, TotalIsInt
  <1>3. PICK s \in C : \A r \in C : ~ (Cardinality(r) < Cardinality(s))
    BY <1>1, <1>2, SmallestSet
  <1>4. s \in SUBSET S /\ ~Good(s) /\ IsFiniteSet(s)
    BY <1>2, <1>3
  <1>5. PICK x \in s : Total(f, s) # f[x] + Total(f, s \ {x})
    BY <1>4
  <1>6. PICK p \in s : p = Pick(s)
    BY <1>5 DEF Pick
  <1>7. Total(f, s) = f[p] + Total(f, s \ {p})
    BY <1>4, <1>5, <1>6, TotalUnfolds
  <1>8. \A y \in s : Good(s \ {y})
    <2> SUFFICES ASSUME NEW y \in s, s \ {y} \in C
                 PROVE  FALSE
      BY <1>4
    <2>1. ~ (Cardinality(s \ {y}) < Cardinality(s))
      <3> HIDE DEF C
      <3> QED
        BY <1>3
    <2>2. Cardinality(s \ {y}) = Cardinality(s) - 1 /\ Cardinality(s) \in Nat
      BY <1>4, FS_RemoveElement, FS_CardinalityType
    <2> QED
      BY <2>1, <2>2
  <1>9. x # p
    BY <1>5, <1>7
  <1>10. /\ Total(f, s \ {p}) = f[x] + Total(f, (s \ {p}) \ {x})
         /\ Total(f, s \ {x}) = f[p] + Total(f, (s \ {x}) \ {p})
    BY <1>8, <1>9
  <1>11. (s \ {p}) \ {x} = (s \ {x}) \ {p}
    OBVIOUS
  <1>12. PICK n \in Int : n = Total(f, (s \ {x}) \ {p})
    BY <1>2, <1>4
  <1>13. Total(f, s \ {p}) = f[x] + n /\ Total(f, s \ {x}) = f[p] + n
    BY <1>10, <1>11, <1>12
  <1>14. f[x] \in Int /\ f[p] \in Int
    BY <1>4
  <1> QED
    BY <1>5, <1>7, <1>13, <1>14

(* A sum with one more element.                                            *)
LEMMA TotalAdd ==
  ASSUME NEW f, NEW S, IsFiniteSet(S), NEW x, x \notin S,
         \A y \in S \union {x} : f[y] \in Int
  PROVE  Total(f, S \union {x}) = f[x] + Total(f, S)
  <1>1. IsFiniteSet(S \union {x})
    BY FS_AddElement
  <1>2. (S \union {x}) \ {x} = S
    OBVIOUS
  <1> QED
    BY <1>1, <1>2, TotalRemove

(* It depends only on what f is on the set.                                *)
LEMMA TotalSame ==
  ASSUME NEW S, IsFiniteSet(S), NEW f, NEW g, \A x \in S : f[x] = g[x]
  PROVE  Total(f, S) = Total(g, S)
  <1> DEFINE C == {s \in SUBSET S : Total(f, s) # Total(g, s)}
  <1>1. SUFFICES ASSUME C # {} PROVE FALSE
    OBVIOUS
  <1>2. \A s \in SUBSET S : IsFiniteSet(s)
    BY FS_Subset
  <1>3. PICK s \in C : \A r \in C : ~ (Cardinality(r) < Cardinality(s))
    BY <1>1, <1>2, SmallestSet
  <1>4. s \in SUBSET S /\ Total(f, s) # Total(g, s) /\ IsFiniteSet(s)
    BY <1>2, <1>3
  <1>5. s # {}
    BY <1>4, TotalOfNone
  <1>6. PICK p \in s : p = Pick(s)
    BY <1>5 DEF Pick
  <1>7. Cardinality(s \ {p}) = Cardinality(s) - 1 /\ Cardinality(s) \in Nat
    BY <1>4, FS_RemoveElement, FS_CardinalityType
  <1>8. s \ {p} \notin C
    <2> HIDE DEF C
    <2> QED
      BY <1>3, <1>7
  <1>9. /\ Total(f, s) = f[p] + Total(f, s \ {p})
        /\ Total(g, s) = g[p] + Total(g, s \ {p})
    BY <1>4, <1>5, <1>6, TotalUnfolds
  <1> QED
    BY <1>4, <1>8, <1>9

(* A larger function has the larger sum.                                   *)
LEMMA TotalOrder ==
  ASSUME NEW S, IsFiniteSet(S), NEW f, NEW g,
         \A x \in S : f[x] \in Int /\ g[x] \in Int /\ f[x] <= g[x]
  PROVE  Total(f, S) <= Total(g, S)
  <1> DEFINE C == {s \in SUBSET S : ~ (Total(f, s) <= Total(g, s))}
  <1>1. SUFFICES ASSUME C # {} PROVE FALSE
    OBVIOUS
  <1>2. \A s \in SUBSET S : IsFiniteSet(s) /\ Total(f, s) \in Int /\ Total(g, s) \in Int
    BY FS_Subset, TotalIsInt
  <1>3. PICK s \in C : \A r \in C : ~ (Cardinality(r) < Cardinality(s))
    BY <1>1, <1>2, SmallestSet
  <1>4. s \in SUBSET S /\ ~ (Total(f, s) <= Total(g, s)) /\ IsFiniteSet(s)
    BY <1>2, <1>3
  <1>5. s # {}
    BY <1>4, TotalOfNone
  <1>6. PICK p \in s : p = Pick(s)
    BY <1>5 DEF Pick
  <1>7. Cardinality(s \ {p}) = Cardinality(s) - 1 /\ Cardinality(s) \in Nat
    BY <1>4, FS_RemoveElement, FS_CardinalityType
  <1>8. s \ {p} \notin C
    <2> HIDE DEF C
    <2> QED
      BY <1>3, <1>7
  <1>9. /\ Total(f, s) = f[p] + Total(f, s \ {p})
        /\ Total(g, s) = g[p] + Total(g, s \ {p})
    BY <1>4, <1>5, <1>6, TotalUnfolds
  <1>10. s \ {p} \in SUBSET S /\ p \in S
    BY <1>4
  <1>11. Total(f, s \ {p}) <= Total(g, s \ {p})
    BY <1>8, <1>10
  <1>12. /\ Total(f, s \ {p}) \in Int /\ Total(g, s \ {p}) \in Int
         /\ f[p] \in Int /\ g[p] \in Int /\ f[p] <= g[p]
    BY <1>2, <1>10
  <1> QED
    BY <1>4, <1>9, <1>11, <1>12

(* A sum of zeros is zero.                                                 *)
LEMMA TotalZero ==
  ASSUME NEW S, IsFiniteSet(S), NEW f, \A x \in S : f[x] = 0
  PROVE  Total(f, S) = 0
  <1> DEFINE C == {s \in SUBSET S : Total(f, s) # 0}
  <1>1. SUFFICES ASSUME C # {} PROVE FALSE
    OBVIOUS
  <1>2. \A s \in SUBSET S : IsFiniteSet(s)
    BY FS_Subset
  <1>3. PICK s \in C : \A r \in C : ~ (Cardinality(r) < Cardinality(s))
    BY <1>1, <1>2, SmallestSet
  <1>4. s \in SUBSET S /\ Total(f, s) # 0 /\ IsFiniteSet(s)
    BY <1>2, <1>3
  <1>5. s # {}
    BY <1>4, TotalOfNone
  <1>6. PICK p \in s : p = Pick(s)
    BY <1>5 DEF Pick
  <1>7. Cardinality(s \ {p}) = Cardinality(s) - 1 /\ Cardinality(s) \in Nat
    BY <1>4, FS_RemoveElement, FS_CardinalityType
  <1>8. s \ {p} \notin C
    <2> HIDE DEF C
    <2> QED
      BY <1>3, <1>7
  <1>9. Total(f, s) = f[p] + Total(f, s \ {p})
    BY <1>4, <1>5, <1>6, TotalUnfolds
  <1>10. Total(f, s \ {p}) = 0 /\ f[p] = 0
    BY <1>4, <1>8
  <1> QED
    BY <1>4, <1>9, <1>10

(* A part has no larger sum than the whole.                                *)
LEMMA TotalPart ==
  ASSUME NEW S, IsFiniteSet(S), NEW R \in SUBSET S, NEW f, \A x \in S : f[x] \in Nat
  PROVE  Total(f, R) <= Total(f, S)
  <1> DEFINE Large(s) == s \subseteq S /\ R \subseteq s /\ ~ (Total(f, R) <= Total(f, s))
             C == {s \in SUBSET S : Large(s)}
  <1>1. SUFFICES ASSUME C # {} PROVE FALSE
    OBVIOUS
  <1>2. \A s \in SUBSET S : IsFiniteSet(s) /\ Total(f, s) \in Int
    BY FS_Subset, TotalIsInt
  <1>3. PICK s \in C : \A r \in C : ~ (Cardinality(r) < Cardinality(s))
    BY <1>1, <1>2, SmallestSet
  <1>4. s \in SUBSET S /\ Large(s) /\ IsFiniteSet(s)
    BY <1>2, <1>3
  <1>5. PICK p \in s : p \notin R
    BY <1>2, <1>4
  <1>6. Cardinality(s \ {p}) = Cardinality(s) - 1 /\ Cardinality(s) \in Nat
    BY <1>4, FS_RemoveElement, FS_CardinalityType
  <1>7. s \ {p} \notin C
    <2> HIDE DEF C
    <2> QED
      BY <1>3, <1>6
  <1>8. Total(f, s) = f[p] + Total(f, s \ {p})
    BY <1>4, TotalRemove
  <1>9. /\ Total(f, R) \in Int /\ Total(f, s) \in Int /\ Total(f, s \ {p}) \in Int
        /\ f[p] \in Nat
    BY <1>2, <1>4
  <1>10. Total(f, R) <= Total(f, s \ {p})
    BY <1>4, <1>5, <1>7
  <1> QED
    BY <1>4, <1>8, <1>9, <1>10

(* Elements that are mapped together are counted once.                     *)
LEMMA TotalImage ==
  ASSUME NEW S, IsFiniteSet(S), NEW m, NEW f, NEW g,
         \A x \in S : f[x] \in Nat /\ g[m[x]] = f[x]
  PROVE  /\ IsFiniteSet({m[x] : x \in S})
         /\ Total(g, {m[x] : x \in S}) <= Total(f, S)
  <1> DEFINE Image(s) == {m[x] : x \in s}
             Good(s) == IsFiniteSet(Image(s)) /\ Total(g, Image(s)) <= Total(f, s)
             C == {s \in SUBSET S : ~Good(s)}
  <1>1. SUFFICES ASSUME C # {} PROVE FALSE
    OBVIOUS
  <1>2. \A s \in SUBSET S : IsFiniteSet(s) /\ Total(f, s) \in Int
    BY FS_Subset, TotalIsInt
  <1>3. PICK s \in C : \A r \in C : ~ (Cardinality(r) < Cardinality(s))
    BY <1>1, <1>2, SmallestSet
  <1>4. s \in SUBSET S /\ ~Good(s) /\ IsFiniteSet(s)
    BY <1>2, <1>3
  <1>5. s # {}
    <2>1. SUFFICES ASSUME s = {} PROVE FALSE
      OBVIOUS
    <2>2. Image(s) = {}
      BY <2>1
    <2>3. Total(g, {}) = 0 /\ Total(f, {}) = 0 /\ IsFiniteSet({})
      BY TotalOfNone, FS_EmptySet
    <2> QED
      BY <1>4, <2>1, <2>2, <2>3
  <1>6. PICK p \in s : TRUE
    BY <1>5
  <1>7. PICK r : r = s \ {p}
    OBVIOUS
  <1>8. r \in SUBSET S /\ Cardinality(r) < Cardinality(s)
    <2>1. Cardinality(s \ {p}) = Cardinality(s) - 1 /\ Cardinality(s) \in Nat
      BY <1>4, FS_RemoveElement, FS_CardinalityType
    <2> QED
      BY <1>4, <1>7, <2>1
  <1>9. Good(r)
    <2>1. r \notin C
      <3> HIDE DEF C
      <3> QED
        BY <1>3, <1>8
    <2> QED
      BY <1>8, <2>1
  <1>10. Total(f, s) = f[p] + Total(f, r) /\ f[p] \in Nat /\ p \in S
    BY <1>4, <1>7, TotalRemove
  <1>11. Image(s) = Image(r) \union {m[p]}
    BY <1>7
  <1>12. \A y \in Image(r) \union {m[p]} : g[y] \in Int
    BY <1>8, <1>10
  <1>13. /\ IsFiniteSet(Image(r)) /\ IsFiniteSet(Image(s))
         /\ Total(g, Image(r)) \in Int /\ Total(f, r) \in Int
    <2> HIDE DEF Image
    <2>1. IsFiniteSet(Image(r)) /\ IsFiniteSet(Image(r) \union {m[p]})
      BY <1>9, FS_AddElement DEF Good
    <2>2. Total(g, Image(r)) \in Int
      BY <1>12, <2>1, TotalIsInt
    <2> QED
      BY <1>2, <1>8, <1>11, <2>1, <2>2
  <1>14. CASE m[p] \in Image(r)
    <2>1. Image(s) = Image(r)
      BY <1>11, <1>14
    <2>2. Total(g, Image(s)) <= Total(f, s)
      <3> HIDE DEF Image
      <3> QED
        BY <1>9, <1>10, <1>13, <2>1 DEF Good
    <2> QED
      BY <1>4, <1>13, <2>2
  <1>15. CASE m[p] \notin Image(r)
    <2>1. g[m[p]] = f[p]
      BY <1>10
    <2> HIDE DEF Image
    <2>2. Total(g, Image(s)) = f[p] + Total(g, Image(r))
      BY <1>11, <1>12, <1>13, <1>15, <2>1, TotalAdd
    <2> QED
      BY <1>4, <1>9, <1>10, <1>13, <2>2 DEF Good
  <1> QED
    BY <1>14, <1>15

(* What fails for no element, and for a set only if it fails with one      *)
(* element less, fails for no set.                                         *)
LEMMA LeastSubset ==
  ASSUME NEW S, IsFiniteSet(S), NEW C, C \subseteq SUBSET S, C # {}, {} \notin C
  PROVE  \E s \in C : \E p \in s :
            /\ s \ {p} \notin C
            /\ IsFiniteSet(s) /\ IsFiniteSet(s \ {p})
            /\ Cardinality(s \ {p}) \in Nat
            /\ Cardinality(s) = Cardinality(s \ {p}) + 1
  <1>1. \A s \in SUBSET S : IsFiniteSet(s)
    BY FS_Subset
  <1>2. PICK s \in C : \A r \in C : ~ (Cardinality(r) < Cardinality(s))
    BY <1>1, SmallestSet
  <1>3. PICK p \in s : TRUE
    OBVIOUS
  <1>4. IsFiniteSet(s) /\ IsFiniteSet(s \ {p})
    BY <1>1
  <1>5. /\ Cardinality(s \ {p}) = Cardinality(s) - 1
        /\ Cardinality(s) \in Nat /\ Cardinality(s \ {p}) \in Nat
    BY <1>4, FS_RemoveElement, FS_CardinalityType
  <1>6. /\ Cardinality(s \ {p}) < Cardinality(s)
        /\ Cardinality(s) = Cardinality(s \ {p}) + 1
    BY <1>5
  <1>7. s \ {p} \notin C
    BY <1>2, <1>6
  <1> QED
    BY <1>3, <1>4, <1>5, <1>6, <1>7

(* Sums of what is at most m.                                              *)
LEMMA TotalAtMost ==
  ASSUME NEW S, IsFiniteSet(S), NEW f, NEW m \in Nat,
         \A x \in S : f[x] \in Nat /\ f[x] <= m
  PROVE  Total(f, S) <= m * Cardinality(S)
  <1> DEFINE C == {s \in SUBSET S : ~ (Total(f, s) <= m * Cardinality(s))}
  <1>1. SUFFICES ASSUME C # {} PROVE FALSE
    OBVIOUS
  <1>2. {} \notin C
    <2>1. m * 0 = 0
      OBVIOUS
    <2> QED
      BY <2>1, TotalOfNone, FS_EmptySet
  <1>3. PICK s \in C : \E p \in s :
            /\ s \ {p} \notin C
            /\ IsFiniteSet(s) /\ IsFiniteSet(s \ {p})
            /\ Cardinality(s \ {p}) \in Nat
            /\ Cardinality(s) = Cardinality(s \ {p}) + 1
    <2>1. C \subseteq SUBSET S
      OBVIOUS
    <2> HIDE DEF C
    <2> QED
      BY <1>1, <1>2, <2>1, LeastSubset
  <1>4. PICK p \in s :
            /\ s \ {p} \notin C
            /\ IsFiniteSet(s) /\ IsFiniteSet(s \ {p})
            /\ Cardinality(s \ {p}) \in Nat
            /\ Cardinality(s) = Cardinality(s \ {p}) + 1
    BY <1>3
  <1>5. s \in SUBSET S /\ p \in S /\ ~ (Total(f, s) <= m * Cardinality(s))
    BY <1>3
  <1>6. /\ Total(f, s) = f[p] + Total(f, s \ {p})
        /\ Total(f, s \ {p}) \in Int /\ f[p] \in Nat /\ f[p] <= m
    BY <1>4, <1>5, TotalRemove, TotalIsInt
  <1>7. Total(f, s \ {p}) <= m * Cardinality(s \ {p})
    BY <1>4, <1>5
  <1>8. \A c \in Nat, t, y \in Int : t <= m * c /\ y <= m => y + t <= m * (c + 1)
    OBVIOUS
  <1> QED
    BY <1>4, <1>5, <1>6, <1>7, <1>8

(* What is below the sum of two is below the two sums.                     *)
LEMMA TotalBelow ==
  ASSUME NEW S, IsFiniteSet(S), NEW f, NEW g, NEW k,
         \A x \in S : /\ f[x] \in Int /\ g[x] \in Int /\ k[x] \in Int
                      /\ f[x] <= g[x] + k[x]
  PROVE  Total(f, S) <= Total(g, S) + Total(k, S)
  <1> DEFINE C == {s \in SUBSET S : ~ (Total(f, s) <= Total(g, s) + Total(k, s))}
  <1>1. SUFFICES ASSUME C # {} PROVE FALSE
    OBVIOUS
  <1>2. {} \notin C
    BY TotalOfNone
  <1>3. PICK s \in C : \E p \in s :
            /\ s \ {p} \notin C
            /\ IsFiniteSet(s) /\ IsFiniteSet(s \ {p})
    <2>1. C \subseteq SUBSET S
      OBVIOUS
    <2> HIDE DEF C
    <2> QED
      BY <1>1, <1>2, <2>1, LeastSubset
  <1>4. PICK p \in s : s \ {p} \notin C /\ IsFiniteSet(s) /\ IsFiniteSet(s \ {p})
    BY <1>3
  <1>5. s \in SUBSET S /\ p \in S /\ ~ (Total(f, s) <= Total(g, s) + Total(k, s))
    BY <1>3
  <1>6. /\ Total(f, s) = f[p] + Total(f, s \ {p})
        /\ Total(g, s) = g[p] + Total(g, s \ {p})
        /\ Total(k, s) = k[p] + Total(k, s \ {p})
    BY <1>4, <1>5, TotalRemove
  <1>7. /\ Total(f, s \ {p}) \in Int /\ Total(g, s \ {p}) \in Int
        /\ Total(k, s \ {p}) \in Int
    <2>1. \A x \in s \ {p} : f[x] \in Int /\ g[x] \in Int /\ k[x] \in Int
      BY <1>5
    <2> QED
      BY <1>4, <2>1, TotalIsInt
  <1>8. Total(f, s \ {p}) <= Total(g, s \ {p}) + Total(k, s \ {p})
    BY <1>4, <1>5
  <1>9. /\ f[p] \in Int /\ g[p] \in Int /\ k[p] \in Int
        /\ f[p] <= g[p] + k[p]
    BY <1>5
  <1> QED
    BY <1>5, <1>6, <1>7, <1>8, <1>9

(* v takes every value from a or from one of the parts e[o].               *)
Composed(v, a, e, O, S) == \A x \in S : v[x] = a[x] \/ \E o \in O : v[x] = e[o][x]

(* What is composed of a and some of the parts e[o] has at most the sum of *)
(* all of them.                                                            *)
LEMMA TotalComposed ==
  ASSUME NEW S, IsFiniteSet(S), NEW O, IsFiniteSet(O), NEW m \in Nat,
         NEW a, NEW e, NEW v \in [S -> Nat],
         \A x \in S : a[x] \in Nat, Total(a, S) <= m,
         \A o \in O : Total(e[o], S) <= m /\ \A x \in S : e[o][x] \in Nat,
         Composed(v, a, e, O, S)
  PROVE  Total(v, S) <= m * (1 + Cardinality(O))
  <1> DEFINE Bounded(R) == \A w \in [S -> Nat] :
                 Composed(w, a, e, R, S) => Total(w, S) <= m * (1 + Cardinality(R))
             C == {R \in SUBSET O : ~ Bounded(R)}
  <1>1. SUFFICES ASSUME C # {} PROVE FALSE
    <2>1. C = {} => Bounded(O)
      OBVIOUS
    <2> QED
      BY <2>1
  <1>2. Bounded({})
    <2>1. ASSUME NEW w \in [S -> Nat], Composed(w, a, e, {}, S)
          PROVE  Total(w, S) <= m * (1 + Cardinality({}))
      <3>1. \A x \in S : w[x] = a[x]
        BY <2>1 DEF Composed
      <3>2. Total(w, S) = Total(a, S)
        BY <3>1, TotalSame
      <3>3. m * (1 + 0) = m
        OBVIOUS
      <3> QED
        BY <3>2, <3>3, FS_EmptySet
    <2> QED
      BY <2>1
  <1>3. PICK R \in C : \E o \in R :
            /\ R \ {o} \notin C
            /\ Cardinality(R \ {o}) \in Nat
            /\ Cardinality(R) = Cardinality(R \ {o}) + 1
    <2>1. C \subseteq SUBSET O /\ {} \notin C
      BY <1>2
    <2> HIDE DEF C
    <2> QED
      BY <1>1, <2>1, LeastSubset
  <1>4. PICK o \in R :
            /\ R \ {o} \notin C
            /\ Cardinality(R \ {o}) \in Nat
            /\ Cardinality(R) = Cardinality(R \ {o}) + 1
    BY <1>3
  <1>5. R \in SUBSET O /\ o \in O /\ ~ Bounded(R) /\ Bounded(R \ {o})
    BY <1>3, <1>4
  <1>6. PICK w \in [S -> Nat] :
           Composed(w, a, e, R, S) /\ ~ (Total(w, S) <= m * (1 + Cardinality(R)))
    BY <1>5
  <1>7. PICK u \in [S -> Nat] :
           u = [x \in S |-> IF w[x] = a[x] \/ \E q \in R \ {o} : w[x] = e[q][x]
                            THEN w[x] ELSE a[x]]
    OBVIOUS
  <1>8. Composed(u, a, e, R \ {o}, S)
    BY <1>7 DEF Composed
  <1>9. Total(u, S) <= m * (1 + Cardinality(R \ {o}))
    BY <1>5, <1>8
  <1>10. \A x \in S : /\ w[x] \in Int /\ u[x] \in Int /\ e[o][x] \in Int
                      /\ w[x] <= u[x] + e[o][x]
    BY <1>5, <1>6, <1>7 DEF Composed
  <1>11. /\ Total(w, S) <= Total(u, S) + Total(e[o], S)
         /\ Total(w, S) \in Int /\ Total(u, S) \in Int /\ Total(e[o], S) \in Int
    BY <1>10, TotalBelow, TotalIsInt
  <1>12. Total(e[o], S) <= m
    BY <1>5
  <1>13. \A c \in Nat, t, y \in Int : t <= m * (1 + c) /\ y <= m => t + y <= m * (1 + (c + 1))
    OBVIOUS
  <1> QED
    BY <1>4, <1>6, <1>9, <1>11, <1>12, <1>13

(* A sum of ones counts them.                                              *)
LEMMA TotalCounts ==
  ASSUME NEW S, IsFiniteSet(S), NEW f, \A x \in S : f[x] \in {0, 1}
  PROVE  Total(f, S) = Cardinality({x \in S : f[x] = 1})
  <1> DEFINE Ones(s) == {x \in s : f[x] = 1}
             C == {s \in SUBSET S : Total(f, s) # Cardinality(Ones(s))}
  <1>1. SUFFICES ASSUME C # {} PROVE FALSE
    OBVIOUS
  <1>2. {} \notin C
    <2>1. Ones({}) = {}
      OBVIOUS
    <2> QED
      BY <2>1, TotalOfNone, FS_EmptySet
  <1>3. PICK s \in C : \E p \in s :
            /\ s \ {p} \notin C
            /\ IsFiniteSet(s) /\ IsFiniteSet(s \ {p})
    <2>1. C \subseteq SUBSET S
      OBVIOUS
    <2> HIDE DEF C
    <2> QED
      BY <1>1, <1>2, <2>1, LeastSubset
  <1>4. PICK p \in s : s \ {p} \notin C /\ IsFiniteSet(s) /\ IsFiniteSet(s \ {p})
    BY <1>3
  <1>5. s \in SUBSET S /\ p \in S /\ Total(f, s) # Cardinality(Ones(s))
    BY <1>3
  <1>6. Total(f, s) = f[p] + Total(f, s \ {p})
    BY <1>4, <1>5, TotalRemove
  <1>7. Total(f, s \ {p}) = Cardinality(Ones(s \ {p}))
    BY <1>4, <1>5
  <1>8. IsFiniteSet(Ones(s \ {p})) /\ p \notin Ones(s \ {p})
    BY <1>4, FS_Subset
  <1>9. Cardinality(Ones(s \ {p})) \in Nat
    BY <1>8, FS_CardinalityType
  <1>10. CASE f[p] = 1
    <2>1. Ones(s) = Ones(s \ {p}) \union {p}
      BY <1>5, <1>10
    <2>2. Cardinality(Ones(s)) = Cardinality(Ones(s \ {p})) + 1
      <3> HIDE DEF Ones
      <3> QED
        BY <1>8, <2>1, FS_AddElement
    <2> QED
      BY <1>5, <1>6, <1>7, <1>9, <1>10, <2>2
  <1>11. CASE f[p] = 0
    <2>1. Ones(s) = Ones(s \ {p})
      BY <1>5, <1>11
    <2> QED
      BY <1>5, <1>6, <1>7, <1>9, <1>11, <2>1
  <1> QED
    BY <1>5, <1>10, <1>11
=============================================================================
