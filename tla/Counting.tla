------------------------------ MODULE Counting ------------------------------
(***************************************************************************)
(* What the proofs share about numbers, recursion and sums: a least number *)
(* stands in for induction, and a sum over a finite set is the size of     *)
(* what it counts.                                                         *)
(***************************************************************************)
EXTENDS Integers, FiniteSets, FiniteSetTheorems, WellFoundedInduction, TLAPS

\* What is true of no number is false of a least one: the induction below goes by this.
LEMMA LeastNatural ==
  ASSUME NEW T, T \subseteq Nat, T # {}
  PROVE  \E least \in T : \A n \in T : least <= n
<1>1. PICK x \in T : \A y \in T : <<y, x>> \notin OpToRel(<, Nat)
  BY NatLessThanWellFounded, WFMin, Zenon
<1>2. \A y \in T : ~(y < x)
  BY <1>1 DEF OpToRel
<1> QED
  BY <1>2

\* Two functions of numbers that agree wherever they agree on all smaller ones agree:
\* what the two unfoldings of a recursion come to.
SameSteps(D, f, g) ==
  \A n \in D : (\A m \in D : m < n => f[m] = g[m]) => f[n] = g[n]

SameValues(D, f, g) == \A n \in D : f[n] = g[n]

LEMMA SameRecursion ==
  ASSUME NEW D, D \subseteq Nat, NEW f, NEW g, SameSteps(D, f, g)
  PROVE  SameValues(D, f, g)
<1> DEFINE T == {n \in D : f[n] # g[n]}
<1> SUFFICES ASSUME T # {} PROVE FALSE
  BY DEF SameValues
<1>3. T \subseteq Nat
  OBVIOUS
<1>1. PICK least \in T : \A n \in T : least <= n
  BY <1>3, LeastNatural
<1>2. \A m \in D : m < least => m \notin T
  <2> SUFFICES ASSUME NEW m \in D, m < least, m \in T PROVE FALSE
    OBVIOUS
  <2>1. least <= m /\ least \in Nat /\ m \in Nat
    BY <1>1, <1>3
  <2> QED
    BY <2>1
<1> QED
  BY <1>2 DEF SameSteps

-----------------------------------------------------------------------------
(* Division.                                                                *)

\* What division by a step says.
LEMMA Divided ==
  ASSUME NEW u \in Int, NEW step \in Nat \ {0}
  PROVE  /\ u \div step \in Int /\ u % step \in 0..(step - 1)
         /\ u = step * (u \div step) + (u % step)
  OBVIOUS

\* Between two multiples of a step there is no third.
LEMMA SameQuotient ==
  ASSUME NEW step \in Nat \ {0}, NEW p \in Int, NEW q \in Int,
         NEW x \in 0..(step - 1), NEW y \in 0..(step - 1), step * p + x = step * q + y
  PROVE  p = q /\ x = y
<1>1. ~(p > q)
  <2> SUFFICES ASSUME p > q PROVE FALSE
    OBVIOUS
  <2>1. PICK n \in Nat : p = q + 1 + n
    <3>1. p - q - 1 \in Nat /\ p = q + 1 + (p - q - 1)
      OBVIOUS
    <3> QED
      BY <3>1
  <2>2. step * p = step * q + step + step * n /\ step * n >= 0
    BY <2>1
  <2> QED
    BY <2>2
<1>2. ~(q > p)
  <2> SUFFICES ASSUME q > p PROVE FALSE
    OBVIOUS
  <2>1. PICK n \in Nat : q = p + 1 + n
    <3>1. q - p - 1 \in Nat /\ q = p + 1 + (q - p - 1)
      OBVIOUS
    <3> QED
      BY <3>1
  <2>2. step * q = step * p + step + step * n /\ step * n >= 0
    BY <2>1
  <2> QED
    BY <2>2
<1> QED
  BY <1>1, <1>2

\* A multiple of the step is a quotient without a rest.
LEMMA Multiple ==
  ASSUME NEW step \in Nat \ {0}, NEW q \in Int
  PROVE  (step * q) \div step = q /\ (step * q) % step = 0
<1>1. step * q \in Int
  OBVIOUS
<1> QED
  BY <1>1, Divided, SameQuotient

-----------------------------------------------------------------------------
(* Sums.  A[x] is what x counts: its size is what x adds.                   *)

Pick(s) == CHOOSE x \in s : TRUE

Apart(A, S) ==
  /\ \A x \in S : IsFiniteSet(A[x])
  /\ \A x, y \in S : x # y => A[x] \intersect A[y] = {}

Counted(A, s) == Cardinality(UNION {A[x] : x \in s})

\* What a part of a finite family counts is finite.
LEMMA CountedType ==
  ASSUME NEW S, IsFiniteSet(S), NEW A, Apart(A, S), NEW s \in SUBSET S
  PROVE  IsFiniteSet(UNION {A[x] : x \in s}) /\ Counted(A, s) \in Nat
<1> DEFINE f == [x \in s |-> A[x]]
           T == {A[x] : x \in s}
<1>1. IsFiniteSet(s)
  BY FS_Subset
<1>2. f \in Surjection(s, T)
  BY DEF Surjection
<1>3. IsFiniteSet(T)
  BY <1>1, <1>2, FS_Surjection
<1>4. \A a \in T : IsFiniteSet(a)
  BY DEF Apart
<1>5. IsFiniteSet(UNION T)
  BY <1>3, <1>4, FS_UNION
<1> QED
  BY <1>5, FS_CardinalityType DEF Counted

\* A family counts what one of its members counts and what the others do.
LEMMA CountedStep ==
  ASSUME NEW S, IsFiniteSet(S), NEW A, Apart(A, S), NEW s \in SUBSET S
  PROVE  Counted(A, s) = IF s = {} THEN 0
                         ELSE Cardinality(A[Pick(s)]) + Counted(A, s \ {Pick(s)})
<1>1. CASE s = {}
  BY <1>1, FS_EmptySet DEF Counted
<1>2. CASE s # {}
  <2> DEFINE x == Pick(s)
             rest == s \ {x}
             U == UNION {A[y] : y \in rest}
  <2>1. x \in s
    BY <1>2 DEF Pick
  <2>8. rest \in SUBSET S /\ rest \subseteq s
    OBVIOUS
  <2> HIDE DEF x
  <2>2. IsFiniteSet(U) /\ IsFiniteSet(A[x])
    <3>1. IsFiniteSet(U)
      <4> HIDE DEF rest
      <4> QED
        BY <2>8, CountedType
    <3> QED
      BY <2>1, <3>1 DEF Apart
  <2>3. A[x] \intersect U = {}
    BY <2>1 DEF Apart
  <2>4. UNION {A[y] : y \in s} = A[x] \union U
    BY <2>1
  <2> HIDE DEF U
  <2>5. Cardinality(A[x] \union U) = Cardinality(A[x]) + Cardinality(U)
                                       - Cardinality(A[x] \intersect U)
    BY <2>2, FS_Union
  <2>6. Cardinality(A[x]) \in Nat /\ Cardinality(U) \in Nat
    BY <2>2, FS_CardinalityType
  <2>7. Cardinality(A[x] \union U) = Cardinality(A[x]) + Cardinality(U)
    BY <2>3, <2>5, <2>6, FS_EmptySet
  <2> QED
    BY <1>2, <2>4, <2>7 DEF Counted, x, U
<1> QED
  BY <1>1, <1>2

\* Whatever adds up a family one member at a time ends with what it counts.
Adds(sum, A, S) ==
  \A s \in SUBSET S : sum[s] = IF s = {} THEN 0 ELSE Cardinality(A[Pick(s)]) + sum[s \ {Pick(s)}]

LEMMA SumCounts ==
  ASSUME NEW S, IsFiniteSet(S), NEW A, Apart(A, S), NEW sum, Adds(sum, A, S)
  PROVE  sum[S] = Counted(A, S)
<1> DEFINE T == {n \in Nat : \E s \in SUBSET S : n = Cardinality(s) /\ sum[s] # Counted(A, s)}
<1> SUFFICES ASSUME T # {} PROVE FALSE
  BY FS_CardinalityType
<1>1. PICK least \in T : \A n \in T : least <= n
  BY LeastNatural
<1>2. PICK s \in SUBSET S : least = Cardinality(s) /\ sum[s] # Counted(A, s)
  BY <1>1
<1>3. s # {}
  BY <1>2, CountedStep DEF Adds
<1> DEFINE rest == s \ {Pick(s)}
<1>4. Pick(s) \in s
  BY <1>3 DEF Pick
<1>5. IsFiniteSet(s) /\ IsFiniteSet(rest) /\ rest \in SUBSET S
  BY FS_Subset
<1>6. Cardinality(rest) = Cardinality(s) - 1 /\ Cardinality(rest) \in Nat /\ Cardinality(s) \in Nat
  BY <1>4, <1>5, FS_RemoveElement, FS_CardinalityType
<1>7. Cardinality(rest) \notin T
  <2> HIDE DEF T
  <2> QED
    BY <1>1, <1>2, <1>6
<1>8. sum[rest] = Counted(A, rest)
  BY <1>5, <1>6, <1>7
<1>9. sum[s] = Cardinality(A[Pick(s)]) + sum[rest]
  BY <1>3 DEF Adds
<1>10. Counted(A, s) = Cardinality(A[Pick(s)]) + Counted(A, rest)
  BY <1>3, CountedStep
<1> QED
  BY <1>2, <1>8, <1>9, <1>10

\* A family that counts nothing has only empty members.
LEMMA NothingCounted ==
  ASSUME NEW S, IsFiniteSet(S), NEW A, Apart(A, S), Counted(A, S) = 0
  PROVE  \A x \in S : A[x] = {}
<1>1. IsFiniteSet(UNION {A[x] : x \in S})
  BY CountedType
<1>2. UNION {A[x] : x \in S} = {}
  BY <1>1, FS_EmptySet DEF Counted
<1> QED
  BY <1>2

-----------------------------------------------------------------------------
(* Finite sets numbered.                                                    *)

\* Numbers told apart by a set as large as the set they fall in are all of it.
LEMMA OntoIfOneToOne ==
  ASSUME NEW D, NEW E, IsFiniteSet(D), IsFiniteSet(E), Cardinality(D) = Cardinality(E),
         NEW f \in [D -> E], \A x, y \in D : f[x] = f[y] => x = y
  PROVE  \A e \in E : \E x \in D : f[x] = e
<1>1. f \in Injection(D, E)
  BY DEF Injection, IsInjective
<1>2. f \in Surjection(D, E)
  BY <1>1, FS_Injection
<1> QED
  BY <1>2 DEF Surjection

LEMMA Numbered ==
  ASSUME NEW S, IsFiniteSet(S)
  PROVE  /\ Cardinality(S) \in Nat
         /\ \E f \in [1..Cardinality(S) -> S] :
              \A x, y \in 1..Cardinality(S) : f[x] = f[y] => x = y
<1>1. Cardinality(S) \in Nat /\ ExistsBijection(1..Cardinality(S), S)
  BY FS_CardinalityType
<1>2. PICK f : f \in Bijection(1..Cardinality(S), S)
  BY <1>1 DEF ExistsBijection
<1> QED
  BY <1>1, <1>2 DEF Bijection, Injection, IsInjective

\* Of a finite set some member comes before no other, in any order of it.
LEMMA FiniteExtreme ==
  ASSUME NEW S, IsFiniteSet(S), S # {}, NEW R,
         \A x \in S : <<x, x>> \notin R,
         \A x, y, z \in S : <<x, y>> \in R /\ <<y, z>> \in R => <<x, z>> \in R
  PROVE  \E x \in S : \A y \in S : <<y, x>> \notin R
<1> DEFINE Endless(Q) == Q # {} /\ \A x \in Q : \E y \in Q : <<y, x>> \in R
           T == {n \in Nat : \E Q \in SUBSET S : Endless(Q) /\ n = Cardinality(Q)}
<1>1. SUFFICES ASSUME Endless(S) PROVE FALSE
  OBVIOUS
<1>2. T # {} /\ T \subseteq Nat
  BY <1>1, FS_CardinalityType
<1>3. PICK least \in T : \A n \in T : least <= n
  BY <1>2, LeastNatural
<1>4. PICK Q \in SUBSET S : Endless(Q) /\ least = Cardinality(Q)
  BY <1>3
<1>5. PICK x \in Q : TRUE
  BY <1>4
<1> DEFINE rest == Q \ {x}
<1>6. IsFiniteSet(Q) /\ IsFiniteSet(rest)
  BY FS_Subset
<1>7. Cardinality(rest) = Cardinality(Q) - 1 /\ Cardinality(rest) \in Nat /\ Cardinality(Q) \in Nat
  BY <1>5, <1>6, FS_RemoveElement, FS_CardinalityType
<1>8. ~Endless(rest)
  <2>1. Endless(rest) => Cardinality(rest) \in T
    BY <1>7
  <2>2. ~(least <= Cardinality(rest))
    BY <1>4, <1>7
  <2> HIDE DEF T, Endless, rest
  <2> QED
    BY <2>1, <2>2, <1>3
<1>9. PICK y \in Q : <<y, x>> \in R
  BY <1>4, <1>5
<1>10. y \in rest
  BY <1>9
<1>11. PICK e \in rest : \A z \in rest : <<z, e>> \notin R
  BY <1>8, <1>10
<1>12. <<x, e>> \in R
  BY <1>4, <1>11
<1> QED
  BY <1>9, <1>10, <1>11, <1>12

LEMMA ImageFinite ==
  ASSUME NEW S, IsFiniteSet(S), NEW f
  PROVE  IsFiniteSet({f[x] : x \in S})
<1> DEFINE g == [x \in S |-> f[x]]
<1>1. g \in Surjection(S, {f[x] : x \in S})
  BY DEF Surjection
<1> QED
  BY <1>1, FS_Surjection
=============================================================================
