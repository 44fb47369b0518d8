---------------------------- MODULE Data_proofs -----------------------------
(***************************************************************************)
(* What the proofs use of naturals, finite sets, sums and folds.           *)
(*                                                                         *)
(* The library's induction theorems take an operator, which the provers    *)
(* cannot instantiate.  That < is well-founded on the naturals is a fact   *)
(* without one: from it a least element, from that induction in the form   *)
(* 'a set that holds 0 and is closed under n + 1 holds every natural', and *)
(* from that what the recursive functions behind sums over a set and folds *)
(* over a sequence compute.  The operator of the folds is a constant, given*)
(* by the module that makes an INSTANCE of this one.                       *)
(***************************************************************************)
EXTENDS Integers, Sequences, FiniteSets, Functions, SequencesExt, FiniteSetTheorems,
        WellFoundedInduction, TLAPS

CONSTANT Op(_, _)  \* what a fold of a sequence does with one element more

\* A set of naturals has a least one: what all induction here comes from.
LEMMA LeastNat ==
    ASSUME NEW S \in SUBSET Nat, S # {}
    PROVE  \E m \in S : \A k \in S : m <= k
<1> DEFINE R == {ss \in Nat \X Nat : ss[1] < ss[2]}
<1>1. IsWellFoundedOn(R, Nat)
  BY NatLessThanWellFounded DEF OpToRel
<1>2. \A x, y \in Nat : y < x => <<y, x>> \in R
  OBVIOUS
<1> HIDE DEF R
<1>3. PICK x \in S : \A y \in S : ~ (<<y, x>> \in R)
  BY <1>1, WFMin
<1>4. \A y \in S : ~(y < x)
  BY <1>2, <1>3
<1> QED BY <1>4

\* Induction, for what can be said as membership of a set.
LEMMA InductionNat ==
    ASSUME NEW S, 0 \in S, \A n \in Nat : n \in S => n + 1 \in S
    PROVE  Nat \subseteq S
<1> DEFINE T == Nat \ S
<1> SUFFICES ASSUME T # {} PROVE FALSE
  OBVIOUS
<1>1. PICK m \in T : \A k \in T : m <= k
  BY LeastNat
<1>2. m # 0 /\ m - 1 \in Nat /\ m - 1 \notin T
  BY <1>1
<1> QED BY <1>1, <1>2

\* Induction over a finite set, one element at a time.
LEMMA InductionFinite ==
    ASSUME NEW A, IsFiniteSet(A), NEW F, {} \in F,
           \A T \in SUBSET A : \A x \in A \ T : T \in F => T \cup {x} \in F
    PROVE  A \in F
<1> DEFINE S == {n \in Nat : \A T \in SUBSET A : Cardinality(T) = n => T \in F}
<1>1. \A T \in SUBSET A : IsFiniteSet(T) /\ Cardinality(T) \in Nat
  BY FS_Subset, FS_CardinalityType
<1>2. 0 \in S
  BY <1>1, FS_EmptySet
<1>3. ASSUME NEW n \in Nat, n \in S PROVE n + 1 \in S
  <2> SUFFICES ASSUME NEW T \in SUBSET A, Cardinality(T) = n + 1 PROVE T \in F
    OBVIOUS
  <2>1. PICK x : x \in T
    BY <1>1, FS_EmptySet
  <2>2. Cardinality(T \ {x}) = n
    <3>1. Cardinality(T \ {x}) = Cardinality(T) - 1
      BY <1>1, <2>1, FS_RemoveElement
    <3> QED BY <3>1
  <2>3. T \ {x} \in F
    BY <1>3, <2>2
  <2>4. (T \ {x}) \cup {x} = T
    BY <2>1
  <2> QED BY <2>1, <2>3, <2>4
<1>4. Nat \subseteq S
  BY <1>2, <1>3, InductionNat
<1> QED BY <1>1, <1>4

\* Sum
SumStep(f, g, s) == IF s = {} THEN 0 ELSE LET x == CHOOSE x \in s : TRUE IN f[x] + g[s \ {x}]

\* The recursion of SumFunctionOnSet defines a function.
LEMMA SumDefined ==
    ASSUME NEW A, IsFiniteSet(A), NEW f
    PROVE  \E g : /\ g = [s \in SUBSET A |-> SumStep(f, g, s)]
                  /\ SumFunctionOnSet(f, A) = g[A]
<1> DEFINE Body(g) == [s \in SUBSET A |-> SumStep(f, g, s)]
<1> DEFINE S == {n \in Nat : \E g : \A T \in SUBSET A : Cardinality(T) <= n =>
                                  g[T] = SumStep(f, g, T)}
<1>1. \A T \in SUBSET A : IsFiniteSet(T) /\ Cardinality(T) \in Nat
  BY FS_Subset, FS_CardinalityType
<1>2. 0 \in S
  <2> DEFINE g == [s \in SUBSET A |-> 0]
  <2>1. ASSUME NEW T \in SUBSET A, Cardinality(T) <= 0 PROVE g[T] = SumStep(f, g, T)
    BY <1>1, <2>1, FS_EmptySet DEF SumStep
  <2> QED BY <2>1
<1>3. ASSUME NEW n \in Nat, n \in S PROVE n + 1 \in S
  <2>1. PICK g : \A T \in SUBSET A : Cardinality(T) <= n => g[T] = SumStep(f, g, T)
    BY <1>3
  <2> DEFINE h == Body(g)
  <2>2. ASSUME NEW T \in SUBSET A, Cardinality(T) <= n + 1 PROVE h[T] = SumStep(f, h, T)
    <3>1. h[T] = SumStep(f, g, T)
      OBVIOUS
    <3>2. CASE T = {}
      BY <3>1, <3>2 DEF SumStep
    <3>3. CASE T # {}
      <4> DEFINE x == CHOOSE x \in T : TRUE
      <4>1. x \in T
        BY <3>3
      <4> HIDE DEF x
      <4>2. Cardinality(T \ {x}) <= n
        BY <1>1, <2>2, <4>1, FS_RemoveElement
      <4>3. h[T \ {x}] = g[T \ {x}]
        <5>1. h[T \ {x}] = SumStep(f, g, T \ {x})
          OBVIOUS
        <5> QED BY <2>1, <4>2, <5>1
      <4> QED BY <3>1, <3>3, <4>3 DEF SumStep, x
    <3> QED BY <3>2, <3>3
  <2> HIDE DEF h
  <2>3. \E k : \A T \in SUBSET A : Cardinality(T) <= n + 1 => k[T] = SumStep(f, k, T)
    BY <2>2
  <2> QED BY <2>3
<1>4. PICK g : \A T \in SUBSET A : g[T] = SumStep(f, g, T)
  <2>1. Cardinality(A) \in S
    <3> HIDE DEF S
    <3> QED BY <1>1, <1>2, <1>3, InductionNat
  <2>2. PICK g : \A T \in SUBSET A : Cardinality(T) <= Cardinality(A) => g[T] = SumStep(f, g, T)
    BY <2>1
  <2> QED BY <1>1, <2>2, FS_Subset
<1>5. \E h : h = Body(h)
  <2> DEFINE h == Body(g)
  <2>1. ASSUME NEW T \in SUBSET A PROVE h[T] = g[T]
    BY <1>4
  <2>2. ASSUME NEW T \in SUBSET A PROVE SumStep(f, g, T) = SumStep(f, h, T)
    BY <2>1 DEF SumStep
  <2>3. h = Body(h)
    BY <2>2
  <2> QED BY <2>3
<1> DEFINE i == CHOOSE h : h = Body(h)
<1>6. i = Body(i)
  <2> HIDE DEF Body
  <2> QED BY <1>5
<1>7. SumFunctionOnSet(f, A) = i[A]
  BY DEF SumFunctionOnSet, FoldFunctionOnSet, MapThenFoldSet, SumStep
<1> QED BY <1>6, <1>7

\* Sums of subsets are values of the same function.
LEMMA SumUnfold ==
    ASSUME NEW A, IsFiniteSet(A), A # {}, NEW f
    PROVE  \E x \in A : SumFunctionOnSet(f, A) = f[x] + SumFunctionOnSet(f, A \ {x})
<1> DEFINE x == CHOOSE x \in A : TRUE
           B == A \ {x}
<1>1. x \in A
  OBVIOUS
<1>2. IsFiniteSet(B)
  BY FS_Subset
<1>3. PICK g : /\ g = [s \in SUBSET A |-> SumStep(f, g, s)]
               /\ SumFunctionOnSet(f, A) = g[A]
  BY SumDefined
<1>4. PICK h : /\ h = [s \in SUBSET B |-> SumStep(f, h, s)]
               /\ SumFunctionOnSet(f, B) = h[B]
  <2> HIDE DEF B
  <2> QED BY <1>2, SumDefined
<1>5. g[A] = f[x] + g[B]
  <2>1. g[A] = SumStep(f, g, A)
    BY <1>3
  <2> QED BY <2>1 DEF SumStep
<1>6. g[B] = h[B]
  <2> DEFINE S == {n \in Nat : \A T \in SUBSET B : Cardinality(T) = n => g[T] = h[T]}
  <2>1. \A T \in SUBSET B : IsFiniteSet(T) /\ Cardinality(T) \in Nat
    BY <1>2, FS_Subset, FS_CardinalityType
  <2>2. \A T \in SUBSET B : g[T] = SumStep(f, g, T) /\ h[T] = SumStep(f, h, T)
    <3> SUFFICES ASSUME NEW T \in SUBSET B PROVE g[T] = SumStep(f, g, T) /\ h[T] = SumStep(f, h, T)
      OBVIOUS
    <3>1. T \in SUBSET A
      OBVIOUS
    <3> HIDE DEF B
    <3> QED BY <3>1, <1>3, <1>4
  <2> HIDE DEF B
  <2>3. 0 \in S
    BY <2>1, <2>2, FS_EmptySet DEF SumStep
  <2>4. ASSUME NEW n \in Nat, n \in S PROVE n + 1 \in S
    <3> SUFFICES ASSUME NEW T \in SUBSET B, Cardinality(T) = n + 1 PROVE g[T] = h[T]
      OBVIOUS
    <3> DEFINE y == CHOOSE y \in T : TRUE
    <3>1. T # {}
      BY FS_EmptySet
    <3>2. y \in T
      BY <3>1
    <3>3. g[T] = f[y] + g[T \ {y}] /\ h[T] = f[y] + h[T \ {y}]
      BY <2>2, <3>1 DEF SumStep
    <3> HIDE DEF y
    <3>4. Cardinality(T \ {y}) = n
      <4>1. Cardinality(T \ {y}) = Cardinality(T) - 1
        BY <2>1, <3>2, FS_RemoveElement
      <4> QED BY <4>1
    <3> QED BY <2>4, <3>3, <3>4
  <2>5. Cardinality(B) \in S
    <3> HIDE DEF S
    <3> QED BY <2>1, <2>3, <2>4, InductionNat
  <2> QED BY <2>1, <2>5
<1> HIDE DEF x
<1> QED BY <1>1, <1>3, <1>4, <1>5, <1>6

\* A sum of nothing.
LEMMA SumEmpty == ASSUME NEW f PROVE SumFunctionOnSet(f, {}) = 0
<1>1. PICK g : /\ g = [s \in SUBSET {} |-> SumStep(f, g, s)]
               /\ SumFunctionOnSet(f, {}) = g[{}]
  BY FS_EmptySet, SumDefined
<1>2. g[{}] = SumStep(f, g, {})
  BY <1>1
<1> QED BY <1>1, <1>2 DEF SumStep

\* A sum of naturals is a natural.
LEMMA SumType ==
    ASSUME NEW A, IsFiniteSet(A), NEW f, \A x \in A : f[x] \in Nat
    PROVE  SumFunctionOnSet(f, A) \in Nat
<1> DEFINE Sum(T) == SumFunctionOnSet(f, T)
           S == {n \in Nat : \A T \in SUBSET A : Cardinality(T) = n => Sum(T) \in Nat}
<1>1. \A T \in SUBSET A : IsFiniteSet(T) /\ Cardinality(T) \in Nat
  BY FS_Subset, FS_CardinalityType
<1>2. 0 \in S
  BY <1>1, FS_EmptySet, SumEmpty
<1>3. ASSUME NEW n \in Nat, n \in S PROVE n + 1 \in S
  <2> SUFFICES ASSUME NEW T \in SUBSET A, Cardinality(T) = n + 1 PROVE Sum(T) \in Nat
    OBVIOUS
  <2>1. T # {}
    BY FS_EmptySet
  <2>2. PICK z \in T : Sum(T) = f[z] + Sum(T \ {z})
    BY <1>1, <2>1, SumUnfold
  <2>3. Cardinality(T \ {z}) = Cardinality(T) - 1
    BY <1>1, FS_RemoveElement
  <2>4. Sum(T \ {z}) \in Nat
    BY <1>3, <2>3
  <2> QED BY <2>2, <2>4
<1>4. Cardinality(A) \in S
  <2> HIDE DEF S
  <2> QED BY <1>1, <1>2, <1>3, InductionNat
<1> QED BY <1>1, <1>4

\* Any element may be taken out of a sum.
LEMMA SumTake ==
    ASSUME NEW A, IsFiniteSet(A), NEW f, \A x \in A : f[x] \in Nat, NEW a \in A
    PROVE  SumFunctionOnSet(f, A) = f[a] + SumFunctionOnSet(f, A \ {a})
<1> DEFINE Sum(T) == SumFunctionOnSet(f, T)
           Good(T) == \A x \in T : Sum(T) = f[x] + Sum(T \ {x})
           S == {n \in Nat : \A T \in SUBSET A : Cardinality(T) = n => Good(T)}
<1>1. \A T \in SUBSET A : IsFiniteSet(T) /\ Cardinality(T) \in Nat
  BY FS_Subset, FS_CardinalityType
<1>2. \A T \in SUBSET A : \A x \in T : Cardinality(T \ {x}) = Cardinality(T) - 1
  BY <1>1, FS_RemoveElement
<1>3. \A T \in SUBSET A : Sum(T) \in Nat
  BY <1>1, SumType
<1>4. 0 \in S
  BY <1>1, FS_EmptySet
<1>5. ASSUME NEW n \in Nat, n \in S PROVE n + 1 \in S
  <2> SUFFICES ASSUME NEW T \in SUBSET A, Cardinality(T) = n + 1 PROVE Good(T)
    OBVIOUS
  <2>1. T # {}
    <3>1. n + 1 # 0
      OBVIOUS
    <3> QED BY <3>1, FS_EmptySet
  <2>2. PICK z \in T : Sum(T) = f[z] + Sum(T \ {z})
    BY <1>1, <2>1, SumUnfold
  <2> HIDE DEF Sum
  <2>3. ASSUME NEW x \in T, x # z PROVE Sum(T) = f[x] + Sum(T \ {x})
    <3> DEFINE U == T \ {x, z}
    <3>1. /\ U = (T \ {z}) \ {x} /\ U = (T \ {x}) \ {z}
          /\ x \in T \ {z} /\ z \in T \ {x}
      BY <2>3
    <3>2. Good(T \ {z}) /\ Good(T \ {x})
      BY <1>2, <1>5
    <3>3. Sum(T \ {z}) = f[x] + Sum(U) /\ Sum(T \ {x}) = f[z] + Sum(U)
      BY <3>1, <3>2
    <3>4. f[x] \in Nat /\ f[z] \in Nat /\ Sum(U) \in Nat
      BY <1>3
    <3> HIDE DEF U
    <3> QED BY <2>2, <3>3, <3>4
  <2> QED BY <2>2, <2>3
<1>6. Cardinality(A) \in S
  <2> HIDE DEF S
  <2> QED BY <1>1, <1>4, <1>5, InductionNat
<1> QED BY <1>1, <1>6

\* A sum depends on the values it adds only.
LEMMA SumSame ==
    ASSUME NEW A, IsFiniteSet(A), NEW f, NEW g, \A x \in A : f[x] = g[x]
    PROVE  SumFunctionOnSet(f, A) = SumFunctionOnSet(g, A)
<1>1. PICK i : /\ i = [s \in SUBSET A |-> SumStep(f, i, s)]
               /\ SumFunctionOnSet(f, A) = i[A]
  BY SumDefined
<1>2. PICK j : /\ j = [s \in SUBSET A |-> SumStep(g, j, s)]
               /\ SumFunctionOnSet(g, A) = j[A]
  BY SumDefined
<1> DEFINE S == {n \in Nat : \A T \in SUBSET A : Cardinality(T) = n => i[T] = j[T]}
<1>3. \A T \in SUBSET A : IsFiniteSet(T) /\ Cardinality(T) \in Nat
  BY FS_Subset, FS_CardinalityType
<1>4. \A T \in SUBSET A : i[T] = SumStep(f, i, T) /\ j[T] = SumStep(g, j, T)
  BY <1>1, <1>2
<1>5. 0 \in S
  BY <1>3, <1>4, FS_EmptySet DEF SumStep
<1>6. ASSUME NEW n \in Nat, n \in S PROVE n + 1 \in S
  <2> SUFFICES ASSUME NEW T \in SUBSET A, Cardinality(T) = n + 1 PROVE i[T] = j[T]
    OBVIOUS
  <2> DEFINE y == CHOOSE y \in T : TRUE
  <2>1. T # {}
    BY FS_EmptySet
  <2>2. y \in T
    BY <2>1
  <2>3. i[T] = f[y] + i[T \ {y}] /\ j[T] = g[y] + j[T \ {y}]
    BY <1>4, <2>1 DEF SumStep
  <2> HIDE DEF y
  <2>4. Cardinality(T \ {y}) = Cardinality(T) - 1
    BY <1>3, <2>2, FS_RemoveElement
  <2>5. i[T \ {y}] = j[T \ {y}]
    BY <1>6, <2>4
  <2> QED BY <2>2, <2>3, <2>5
<1>7. Cardinality(A) \in S
  <2> HIDE DEF S
  <2> QED BY <1>3, <1>5, <1>6, InductionNat
<1> QED BY <1>1, <1>2, <1>3, <1>7

\* What one value more or less does to a sum.
LEMMA SumExcept ==
    ASSUME NEW A, IsFiniteSet(A), NEW f, \A x \in A : f[x] \in Nat,
           NEW a \in A, NEW g, g[a] \in Nat, \A x \in A \ {a} : g[x] = f[x]
    PROVE  SumFunctionOnSet(g, A) + f[a] = SumFunctionOnSet(f, A) + g[a]
<1>1. IsFiniteSet(A \ {a})
  BY FS_Subset
<1>2. SumFunctionOnSet(g, A \ {a}) = SumFunctionOnSet(f, A \ {a})
  BY <1>1, SumSame
<1>3. SumFunctionOnSet(f, A) = f[a] + SumFunctionOnSet(f, A \ {a})
  BY SumTake
<1>4. SumFunctionOnSet(g, A) = g[a] + SumFunctionOnSet(g, A \ {a})
  <2>1. \A x \in A : g[x] \in Nat
    OBVIOUS
  <2> QED BY <2>1, SumTake
<1>5. SumFunctionOnSet(f, A \ {a}) \in Nat
  BY <1>1, SumType
<1> QED BY <1>2, <1>3, <1>4, <1>5

\* Values that are zero outside a part of the set leave the sum of that part.
LEMMA SumPart ==
    ASSUME NEW A, IsFiniteSet(A), NEW B \in SUBSET A, NEW f, \A x \in A : f[x] \in Nat,
           \A x \in A \ B : f[x] = 0
    PROVE  SumFunctionOnSet(f, A) = SumFunctionOnSet(f, B)
<1> DEFINE F == {T \in SUBSET (A \ B) : SumFunctionOnSet(f, B \cup T) = SumFunctionOnSet(f, B)}
<1>1. {} \in F
  <2>1. B \cup {} = B
    OBVIOUS
  <2> QED BY <2>1
<1>2. ASSUME NEW T \in SUBSET (A \ B), NEW x \in (A \ B) \ T, T \in F
      PROVE  T \cup {x} \in F
  <2> DEFINE U == B \cup (T \cup {x})
  <2>1. U \ {x} = B \cup T /\ x \in U /\ U \subseteq A
    BY <1>2
  <2>2. IsFiniteSet(U)
    BY <2>1, FS_Subset
  <2>3. SumFunctionOnSet(f, U) = f[x] + SumFunctionOnSet(f, U \ {x})
    <3> HIDE DEF U
    <3> QED BY <2>1, <2>2, SumTake
  <2>4. SumFunctionOnSet(f, B) \in Nat
    BY FS_Subset, SumType
  <2>5. SumFunctionOnSet(f, B \cup T) = SumFunctionOnSet(f, B) /\ f[x] = 0
    BY <1>2
  <2>6. SumFunctionOnSet(f, U) = SumFunctionOnSet(f, B)
    <3> HIDE DEF U
    <3> QED BY <2>1, <2>3, <2>4, <2>5
  <2> QED BY <2>6
<1>3. A \ B \in F
  <2>1. IsFiniteSet(A \ B)
    BY FS_Subset
  <2> HIDE DEF F
  <2> QED BY <1>1, <1>2, <2>1, InductionFinite
<1>4. B \cup (A \ B) = A
  OBVIOUS
<1> QED BY <1>3, <1>4

\* A sum of values that are at most b each.
LEMMA SumBound ==
    ASSUME NEW A, IsFiniteSet(A), NEW f, NEW b \in Nat, \A x \in A : f[x] \in 0 .. b
    PROVE  SumFunctionOnSet(f, A) <= b * Cardinality(A)
<1> DEFINE F == {T \in SUBSET A : SumFunctionOnSet(f, T) <= b * Cardinality(T)}
<1>1. {} \in F
  BY SumEmpty, FS_EmptySet
<1>2. ASSUME NEW T \in SUBSET A, NEW x \in A \ T, T \in F
      PROVE  T \cup {x} \in F
  <2> DEFINE U == T \cup {x}
  <2>1. IsFiniteSet(U) /\ IsFiniteSet(T) /\ x \in U /\ U \ {x} = T
    <3>1. U \in SUBSET A
      OBVIOUS
    <3> QED BY <3>1, FS_Subset
  <2>2. SumFunctionOnSet(f, U) = f[x] + SumFunctionOnSet(f, T)
    <3>1. \A y \in U : f[y] \in Nat
      OBVIOUS
    <3> HIDE DEF U
    <3> QED BY <2>1, <3>1, SumTake
  <2>3. Cardinality(U) = Cardinality(T) + 1 /\ Cardinality(T) \in Nat
    BY <2>1, FS_AddElement, FS_CardinalityType
  <2>4. SumFunctionOnSet(f, T) \in Nat
    BY <2>1, SumType
  <2>5. b * (Cardinality(T) + 1) = b * Cardinality(T) + b /\ b * Cardinality(T) \in Nat
    BY <2>3
  <2>6. SumFunctionOnSet(f, T) <= b * Cardinality(T) /\ f[x] \in 0 .. b
    BY <1>2
  <2>7. SumFunctionOnSet(f, U) <= b * Cardinality(U)
    <3> HIDE DEF U
    <3> QED BY <2>2, <2>3, <2>4, <2>5, <2>6
  <2> QED BY <2>7
<1>3. A \in F
  <2> HIDE DEF F
  <2> QED BY <1>1, <1>2, InductionFinite
<1> QED BY <1>3

\* Values that grow by at most b, on a part of the set only.
LEMMA SumRaised ==
    ASSUME NEW A, IsFiniteSet(A), NEW R \in SUBSET A, NEW b \in Nat, NEW f, NEW g,
           \A x \in A : f[x] \in Nat /\ g[x] \in Nat,
           \A x \in R : g[x] <= f[x] + b,
           \A x \in A \ R : g[x] <= f[x]
    PROVE  SumFunctionOnSet(g, A) <= SumFunctionOnSet(f, A) + b * Cardinality(R)
<1> DEFINE F == {T \in SUBSET A :
                   SumFunctionOnSet(g, T) <= SumFunctionOnSet(f, T) + b * Cardinality(R \cap T)}
<1>1. {} \in F
  <2>1. R \cap {} = {}
    OBVIOUS
  <2> QED BY <2>1, SumEmpty, FS_EmptySet
<1>2. ASSUME NEW T \in SUBSET A, NEW x \in A \ T, T \in F
      PROVE  T \cup {x} \in F
  <2> DEFINE U == T \cup {x}
  <2>1. IsFiniteSet(U) /\ IsFiniteSet(T) /\ x \in U /\ U \ {x} = T
    <3>1. U \in SUBSET A
      OBVIOUS
    <3> QED BY <3>1, FS_Subset
  <2>2. SumFunctionOnSet(f, U) = f[x] + SumFunctionOnSet(f, T)
    <3>1. \A y \in U : f[y] \in Nat
      OBVIOUS
    <3> HIDE DEF U
    <3> QED BY <2>1, <3>1, SumTake
  <2>3. SumFunctionOnSet(g, U) = g[x] + SumFunctionOnSet(g, T)
    <3>1. \A y \in U : g[y] \in Nat
      OBVIOUS
    <3> HIDE DEF U
    <3> QED BY <2>1, <3>1, SumTake
  <2>4. SumFunctionOnSet(f, T) \in Nat /\ SumFunctionOnSet(g, T) \in Nat
    BY <2>1, SumType
  <2>5. SumFunctionOnSet(g, T) <= SumFunctionOnSet(f, T) + b * Cardinality(R \cap T)
    BY <1>2
  <2>6. IsFiniteSet(R \cap T) /\ Cardinality(R \cap T) \in Nat
    BY FS_Subset, FS_CardinalityType
  <2>7. f[x] \in Nat /\ g[x] \in Nat
    OBVIOUS
  <2>8. SumFunctionOnSet(g, U) <= SumFunctionOnSet(f, U) + b * Cardinality(R \cap U)
    <3>1. CASE x \in R
      <4>1. R \cap U = (R \cap T) \cup {x} /\ x \notin R \cap T
        BY <3>1
      <4>2. Cardinality(R \cap U) = Cardinality(R \cap T) + 1
        BY <2>6, <4>1, FS_AddElement
      <4>3. b * (Cardinality(R \cap T) + 1) = b * Cardinality(R \cap T) + b
            /\ b * Cardinality(R \cap T) \in Nat
        BY <2>6
      <4>4. g[x] <= f[x] + b
        BY <3>1
      <4> HIDE DEF U
      <4> QED BY <2>2, <2>3, <2>4, <2>5, <2>7, <4>2, <4>3, <4>4
    <3>2. CASE x \notin R
      <4>1. R \cap U = R \cap T
        BY <3>2
      <4>2. g[x] <= f[x]
        BY <3>2
      <4> DEFINE q == b * Cardinality(R \cap T)
      <4>3. q \in Nat /\ b * Cardinality(R \cap U) = q
        <5>1. q \in Nat
          BY <2>6
        <5>2. b * Cardinality(R \cap U) = q
          <6> HIDE DEF U
          <6> QED BY <4>1
        <5> QED BY <5>1, <5>2
      <4>4. SumFunctionOnSet(g, T) <= SumFunctionOnSet(f, T) + q
        BY <2>5
      <4> HIDE DEF U, q
      <4> QED BY <2>2, <2>3, <2>4, <2>7, <4>2, <4>3, <4>4
    <3> QED BY <3>1, <3>2
  <2> QED BY <2>8
<1>3. A \in F
  <2> HIDE DEF F
  <2> QED BY <1>1, <1>2, InductionFinite
<1>4. R \cap A = R
  OBVIOUS
<1> QED BY <1>3, <1>4

\* Values none of which grows.
LEMMA SumAtMost ==
    ASSUME NEW A, IsFiniteSet(A), NEW f, NEW g,
           \A x \in A : f[x] \in Nat /\ g[x] \in Nat /\ g[x] <= f[x]
    PROVE  SumFunctionOnSet(g, A) <= SumFunctionOnSet(f, A)
<1> DEFINE R == {}
<1>1. R \in SUBSET A /\ 0 \in Nat /\ \A x \in R : g[x] <= f[x] + 0
  OBVIOUS
<1>2. \A x \in A : f[x] \in Nat /\ g[x] \in Nat
  OBVIOUS
<1>3. \A x \in A \ R : g[x] <= f[x]
  OBVIOUS
<1>4. 0 * Cardinality(R) = 0
  BY FS_EmptySet
<1>5. SumFunctionOnSet(f, A) \in Nat /\ SumFunctionOnSet(g, A) \in Nat
  BY SumType
<1> HIDE DEF R
<1>6. SumFunctionOnSet(g, A) <= SumFunctionOnSet(f, A) + 0 * Cardinality(R)
  BY <1>1, <1>2, <1>3, SumRaised
<1> QED BY <1>4, <1>5, <1>6

\* How many numbers 1..n has.
LEMMA FiniteInterval ==
    ASSUME NEW n \in Nat
    PROVE  IsFiniteSet(1..n) /\ Cardinality(1..n) = n
<1>1. n \in Int /\ 1 \in Int
  OBVIOUS
<1>2. IsFiniteSet(1..n) /\ Cardinality(1..n) = IF 1 > n THEN 0 ELSE n - 1 + 1
  BY ONLY <1>1, FS_Interval
<1> QED BY <1>2

\* Sums along a sequence: one value more at its end, one more before its first.
LEMMA SumLonger ==
    ASSUME NEW n \in Nat, NEW f, NEW g, \A k \in 1..n : g[k] = f[k],
           \A k \in 1..(n + 1) : g[k] \in Nat
    PROVE  SumFunctionOnSet(g, 1..(n + 1)) = SumFunctionOnSet(f, 1..n) + g[n + 1]
<1> DEFINE A == 1..(n + 1)
           B == 1..n
<1>1. n + 1 \in A /\ A \ {n + 1} = B /\ \A k \in B : g[k] = f[k] /\ f[k] \in Nat
  OBVIOUS
<1>2. IsFiniteSet(A) /\ IsFiniteSet(B)
  BY FiniteInterval
<1>3. \A k \in A : g[k] \in Nat
  OBVIOUS
<1> HIDE DEF A, B
<1>4. SumFunctionOnSet(g, A) = g[n + 1] + SumFunctionOnSet(g, B)
  BY <1>1, <1>2, <1>3, SumTake
<1>5. SumFunctionOnSet(g, B) = SumFunctionOnSet(f, B)
  BY <1>1, <1>2, SumSame
<1>6. SumFunctionOnSet(f, B) \in Nat
  BY <1>1, <1>2, SumType
<1>7. g[n + 1] \in Nat
  BY <1>1, <1>3
<1>8. SumFunctionOnSet(g, A) = SumFunctionOnSet(f, B) + g[n + 1]
  BY <1>4, <1>5, <1>6, <1>7
<1> QED BY <1>8 DEF A, B

\* A sum over 1..n + 1 is its first value and the sum of the others.
LEMMA SumShifted ==
    ASSUME NEW n \in Nat, NEW f, NEW g, \A k \in 1..n : g[k + 1] = f[k],
           \A k \in 1..(n + 1) : g[k] \in Nat
    PROVE  SumFunctionOnSet(g, 1..(n + 1)) = g[1] + SumFunctionOnSet(f, 1..n)
<1> DEFINE Good(m) == SumFunctionOnSet(g, 1..(m + 1)) = g[1] + SumFunctionOnSet(f, 1..m)
           S == {m \in Nat : m <= n => Good(m)}
<1>1. \A k \in 1..n : f[k] \in Nat
  <2> SUFFICES ASSUME NEW k \in 1..n PROVE f[k] \in Nat
    OBVIOUS
  <2>1. k + 1 \in 1..(n + 1)
    OBVIOUS
  <2> QED BY <2>1
<1>2. 0 \in S
  <2>1. 1..0 = {} /\ 1..(0 + 1) = {1} /\ {1} \ {1} = {}
    OBVIOUS
  <2>2. SumFunctionOnSet(g, {}) = 0 /\ SumFunctionOnSet(f, {}) = 0
    BY SumEmpty
  <2>3. IsFiniteSet({1}) /\ 1 \in {1} /\ \A x \in {1} : g[x] \in Nat
    <3>1. 1 \in 1..(n + 1)
      OBVIOUS
    <3>2. g[1] \in Nat
      BY <3>1
    <3>3. IsFiniteSet({1})
      BY FS_Singleton
    <3> QED BY <3>2, <3>3
  <2>4. SumFunctionOnSet(g, {1}) = g[1] + SumFunctionOnSet(g, {1} \ {1})
    BY ONLY <2>3, SumTake
  <2> QED BY <2>1, <2>2, <2>4
<1>3. ASSUME NEW m \in Nat, m \in S PROVE m + 1 \in S
  <2> SUFFICES ASSUME m + 1 <= n PROVE Good(m + 1)
    OBVIOUS
  <2>1. SumFunctionOnSet(g, 1..(m + 1)) = g[1] + SumFunctionOnSet(f, 1..m)
    BY <1>3
  <2>2. SumFunctionOnSet(g, 1..(m + 1 + 1)) = SumFunctionOnSet(g, 1..(m + 1)) + g[m + 1 + 1]
    <3>1. \A k \in 1..(m + 1 + 1) : g[k] \in Nat
      OBVIOUS
    <3>2. m + 1 \in Nat
      OBVIOUS
    <3> QED BY <3>1, <3>2, SumLonger
  <2>3. SumFunctionOnSet(f, 1..(m + 1)) = SumFunctionOnSet(f, 1..m) + f[m + 1]
    <3>1. \A k \in 1..(m + 1) : f[k] \in Nat
      BY <1>1
    <3> QED BY <3>1, SumLonger
  <2>4. g[m + 1 + 1] = f[m + 1] /\ f[m + 1] \in Nat /\ g[1] \in Nat
    <3>1. m + 1 \in 1..n /\ 1 \in 1..(n + 1)
      OBVIOUS
    <3> QED BY <1>1, <3>1
  <2>5. SumFunctionOnSet(f, 1..m) \in Nat
    <3>1. \A k \in 1..m : f[k] \in Nat
      BY <1>1
    <3> QED BY <3>1, FiniteInterval, SumType
  <2> QED BY <2>1, <2>2, <2>3, <2>4, <2>5
<1>4. n \in S
  <2> HIDE DEF S
  <2> QED BY <1>2, <1>3, InductionNat
<1> QED BY <1>4


\* The greatest of some numbers up to n.
LEMMA MaxIn ==
    ASSUME NEW n \in Nat, NEW T \in SUBSET (1..n), T # {}
    PROVE  Max(T) \in T /\ \A k \in T : k <= Max(T)
<1> DEFINE S == {n - k : k \in T}
<1>1. S \in SUBSET Nat /\ S # {}
  <2>1. PICK k \in T : TRUE
    OBVIOUS
  <2>2. n - k \in S
    OBVIOUS
  <2>3. \A j \in T : n - j \in Nat
    OBVIOUS
  <2> QED BY <2>2, <2>3
<1>2. PICK m \in S : \A k \in S : m <= k
  <2> HIDE DEF S
  <2> QED BY <1>1, LeastNat
<1>3. PICK a \in T : m = n - a
  OBVIOUS
<1>4. \A k \in T : a >= k
  <2> SUFFICES ASSUME NEW k \in T PROVE a >= k
    OBVIOUS
  <2>1. m <= n - k
    BY <1>2
  <2> QED BY <1>3, <2>1
<1>5. \E x \in T : \A y \in T : x >= y
  BY <1>4
<1>6. Max(T) \in T /\ \A y \in T : Max(T) >= y
  BY <1>5 DEF Max
<1> QED BY <1>6

FoldStep(b, s, g, t) == IF t = {} THEN b ELSE LET x == Max(t) IN Op(g[t \ {x}], s[x])

Fold(b, s) == FoldLeft(Op, b, s)

\* The recursion of FoldLeft defines a function.
LEMMA FoldDefined ==
    ASSUME NEW n \in Nat, NEW s, DOMAIN s = 1..n, NEW b
    PROVE  \E g : /\ g = [t \in SUBSET (1..n) |-> FoldStep(b, s, g, t)]
                  /\ Fold(b, s) = g[1..n]
<1> DEFINE A == 1..n
           Body(g) == [t \in SUBSET A |-> FoldStep(b, s, g, t)]
           S == {k \in Nat : \E g : \A T \in SUBSET A : Cardinality(T) <= k =>
                                  g[T] = FoldStep(b, s, g, T)}
<1>0. IsFiniteSet(A)
  <2>1. 1 \in Int /\ n \in Int
    OBVIOUS
  <2> QED BY ONLY <2>1, FS_Interval DEF A
<1>1. \A T \in SUBSET A : IsFiniteSet(T) /\ Cardinality(T) \in Nat
  BY <1>0, FS_Subset, FS_CardinalityType
<1>2. 0 \in S
  <2> DEFINE g == [t \in SUBSET A |-> b]
  <2>1. ASSUME NEW T \in SUBSET A, Cardinality(T) <= 0 PROVE g[T] = FoldStep(b, s, g, T)
    BY <1>1, <2>1, FS_EmptySet DEF FoldStep
  <2> QED BY <2>1
<1>3. ASSUME NEW k \in Nat, k \in S PROVE k + 1 \in S
  <2>1. PICK g : \A T \in SUBSET A : Cardinality(T) <= k => g[T] = FoldStep(b, s, g, T)
    BY <1>3
  <2> DEFINE h == Body(g)
  <2>2. ASSUME NEW T \in SUBSET A, Cardinality(T) <= k + 1 PROVE h[T] = FoldStep(b, s, h, T)
    <3>1. h[T] = FoldStep(b, s, g, T)
      OBVIOUS
    <3>2. CASE T = {}
      BY <3>1, <3>2 DEF FoldStep
    <3>3. CASE T # {}
      <4> DEFINE x == Max(T)
      <4>1. x \in T
        BY <3>3, MaxIn
      <4> HIDE DEF x
      <4>2. Cardinality(T \ {x}) <= k
        BY <1>1, <2>2, <4>1, FS_RemoveElement
      <4>3. h[T \ {x}] = g[T \ {x}]
        <5>1. h[T \ {x}] = FoldStep(b, s, g, T \ {x})
          OBVIOUS
        <5> QED BY <2>1, <4>2, <5>1
      <4> QED BY <3>1, <3>3, <4>3 DEF FoldStep, x
    <3> QED BY <3>2, <3>3
  <2> HIDE DEF h
  <2>3. \E j : \A T \in SUBSET A : Cardinality(T) <= k + 1 => j[T] = FoldStep(b, s, j, T)
    BY <2>2
  <2> HIDE DEF A
  <2> QED BY <2>3
<1>4. PICK g : \A T \in SUBSET A : g[T] = FoldStep(b, s, g, T)
  <2>1. Cardinality(A) \in S
    <3> HIDE DEF S
    <3> QED BY <1>1, <1>2, <1>3, InductionNat
  <2>2. PICK g : \A T \in SUBSET A : Cardinality(T) <= Cardinality(A) => g[T] = FoldStep(b, s, g, T)
    BY <2>1
  <2> QED BY <1>0, <1>1, <2>2, FS_Subset
<1>5. \E h : h = Body(h)
  <2> DEFINE h == Body(g)
  <2>1. ASSUME NEW T \in SUBSET A PROVE h[T] = g[T]
    BY <1>4
  <2>2. ASSUME NEW T \in SUBSET A PROVE FoldStep(b, s, g, T) = FoldStep(b, s, h, T)
    BY <2>1 DEF FoldStep
  <2>3. h = Body(h)
    BY <2>2
  <2> QED BY <2>3
<1> DEFINE i == CHOOSE h : h = Body(h)
<1>6. i = Body(i)
  <2> HIDE DEF Body
  <2> QED BY <1>5
<1>7. Fold(b, s) = i[A]
  BY DEF Fold, FoldLeft, MapThenFoldSet, FoldStep
<1> QED BY <1>6, <1>7

\* A fold is the last of a chain of accumulators.
LEMMA FoldChain ==
    ASSUME NEW n \in Nat, NEW s, DOMAIN s = 1..n, NEW b
    PROVE  \E h : /\ h[0] = b /\ \A k \in 1..n : h[k] = Op(h[k - 1], s[k])
                  /\ Fold(b, s) = h[n]
<1>1. PICK g : /\ g = [t \in SUBSET (1..n) |-> FoldStep(b, s, g, t)]
               /\ Fold(b, s) = g[1..n]
  BY FoldDefined
<1> DEFINE h == [k \in 0..n |-> g[1..k]]
<1>2. h[0] = b
  BY <1>1 DEF FoldStep
<1>3. ASSUME NEW k \in 1..n PROVE h[k] = Op(h[k - 1], s[k])
  <2> DEFINE T == 1..k
  <2>1. T \in SUBSET (1..n) /\ T # {} /\ k \in T
    <3>1. k \in T
      OBVIOUS
    <3>2. \A j \in T : j \in 1..n
      OBVIOUS
    <3> QED BY <3>1, <3>2
  <2>2. Max(T) \in T /\ \A j \in T : j <= Max(T)
    <3> HIDE DEF T
    <3> QED BY <2>1, MaxIn
  <2>3. Max(T) = k
    BY <2>1, <2>2
  <2>4. g[T] = FoldStep(b, s, g, T)
    BY <1>1, <2>1
  <2>5. g[T] = Op(g[T \ {k}], s[k])
    <3> HIDE DEF T
    <3> QED BY <2>1, <2>3, <2>4 DEF FoldStep
  <2>6. T \ {k} = 1..(k - 1)
    OBVIOUS
  <2>7. k \in 0..n /\ k - 1 \in 0..n
    OBVIOUS
  <2>8. h[k] = g[T] /\ h[k - 1] = g[1..(k - 1)]
    BY <2>7
  <2> HIDE DEF h, T
  <2> QED BY <2>5, <2>6, <2>8
<1>4. h[n] = Fold(b, s)
  BY <1>1
<1> HIDE DEF h
<1> QED BY <1>2, <1>3, <1>4

\* The accumulators of a fold.
Chained(h, b, s, n) == h[0] = b /\ \A k \in 1..n : h[k] = Op(h[k - 1], s[k])

\* The same, with the chain as one predicate.
LEMMA FoldChained ==
    ASSUME NEW n \in Nat, NEW s, DOMAIN s = 1..n, NEW b
    PROVE  \E h : Chained(h, b, s, n) /\ Fold(b, s) = h[n]
<1>1. PICK h : /\ h[0] = b /\ \A k \in 1..n : h[k] = Op(h[k - 1], s[k])
               /\ Fold(b, s) = h[n]
  BY FoldChain
<1>2. Chained(h, b, s, n)
  BY <1>1 DEF Chained
<1> QED BY <1>1, <1>2

\* A fold of nothing.
LEMMA FoldEmpty == ASSUME NEW b, NEW s, DOMAIN s = 1..0 PROVE Fold(b, s) = b
  BY FoldChain

\* A fold of one element more, at the end.
LEMMA FoldAppend ==
    ASSUME NEW X, NEW s \in Seq(X), NEW x \in X, NEW b
    PROVE  Fold(b, Append(s, x)) = Op(Fold(b, s), x)
<1> DEFINE n == Len(s)
           t == Append(s, x)
<1>1. n \in Nat /\ DOMAIN s = 1..n /\ DOMAIN t = 1..(n + 1)
  OBVIOUS
<1>2. t[n + 1] = x /\ \A k \in 1..n : t[k] = s[k]
  OBVIOUS
<1> HIDE DEF t, n
<1>3. PICK g : g[0] = b /\ (\A k \in 1..n : g[k] = Op(g[k - 1], s[k])) /\ Fold(b, s) = g[n]
  BY <1>1, FoldChain
<1>4. PICK h : /\ h[0] = b /\ (\A k \in 1..(n + 1) : h[k] = Op(h[k - 1], t[k]))
               /\ Fold(b, t) = h[n + 1]
  BY <1>1, FoldChain
<1> DEFINE S == {k \in Nat : k <= n => h[k] = g[k]}
<1>5. Nat \subseteq S
  <2>1. 0 \in S
    BY <1>3, <1>4
  <2>2. ASSUME NEW k \in Nat, k \in S PROVE k + 1 \in S
    <3> SUFFICES ASSUME k + 1 <= n PROVE h[k + 1] = g[k + 1]
      OBVIOUS
    <3>1. k + 1 \in 1..n /\ k + 1 \in 1..(n + 1) /\ (k + 1) - 1 = k /\ k <= n
      BY <1>1
    <3>2. h[k] = g[k]
      BY <2>2, <3>1
    <3> QED BY <1>2, <1>3, <1>4, <3>1, <3>2
  <2> HIDE DEF S
  <2> QED BY <2>1, <2>2, InductionNat
<1>6. h[n] = g[n]
  BY <1>1, <1>5
<1>7. n + 1 \in 1..(n + 1) /\ (n + 1) - 1 = n
  BY <1>1
<1>8. h[n + 1] = Op(h[n], t[n + 1])
  BY <1>4, <1>7
<1> QED BY <1>2, <1>3, <1>4, <1>6, <1>8 DEF t

\* A fold of one element more, at the beginning.
LEMMA FoldCons ==
    ASSUME NEW X, NEW s \in Seq(X), NEW x \in X, NEW b
    PROVE  Fold(b, <<x>> \o s) = Fold(Op(b, x), s)
<1> DEFINE n == Len(s)
           t == <<x>> \o s
           c == Op(b, x)
<1>1. n \in Nat /\ DOMAIN s = 1..n /\ DOMAIN t = 1..(n + 1)
  OBVIOUS
<1>2. t[1] = x /\ \A k \in 1..n : t[k + 1] = s[k]
  OBVIOUS
<1> HIDE DEF t, n
<1>3. PICK g : g[0] = c /\ (\A k \in 1..n : g[k] = Op(g[k - 1], s[k])) /\ Fold(c, s) = g[n]
  <2> HIDE DEF c
  <2> QED BY <1>1, FoldChain
<1>4. PICK h : /\ h[0] = b /\ (\A k \in 1..(n + 1) : h[k] = Op(h[k - 1], t[k]))
               /\ Fold(b, t) = h[n + 1]
  BY <1>1, FoldChain
<1> DEFINE S == {k \in Nat : k <= n => h[k + 1] = g[k]}
<1>5. Nat \subseteq S
  <2>1. 0 \in S
    <3>1. 1 \in 1..(n + 1) /\ 1 - 1 = 0
      BY <1>1
    <3>2. h[1] = Op(h[0], t[1])
      BY <1>4, <3>1
    <3> QED BY <1>2, <1>3, <1>4, <3>2
  <2>2. ASSUME NEW k \in Nat, k \in S PROVE k + 1 \in S
    <3> SUFFICES ASSUME k + 1 <= n PROVE h[k + 1 + 1] = g[k + 1]
      OBVIOUS
    <3>1. /\ k + 1 \in 1..n /\ k + 2 \in 1..(n + 1) /\ (k + 1) - 1 = k /\ k <= n
          /\ (k + 2) - 1 = k + 1 /\ k + 1 + 1 = k + 2
      BY <1>1
    <3>2. h[k + 1] = g[k]
      BY <2>2, <3>1
    <3>3. h[k + 2] = Op(h[k + 1], t[k + 2]) /\ g[k + 1] = Op(g[k], s[k + 1])
      BY <1>3, <1>4, <3>1
    <3>4. t[k + 2] = s[k + 1]
      BY <1>2, <3>1
    <3> QED BY <3>1, <3>2, <3>3, <3>4
  <2> HIDE DEF S
  <2> QED BY <2>1, <2>2, InductionNat
<1>6. h[n + 1] = g[n]
  BY <1>1, <1>5
<1> QED BY <1>3, <1>4, <1>6 DEF t

=============================================================================
