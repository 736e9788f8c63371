------------------------------ MODULE DataLemmas ------------------------------
(***************************************************************************)
(* The data the models are built from: greatest and smallest elements, sums*)
(* over finite sets, what is kept of a sequence, and the loops on rows of  *)
(* engine.rs: that recursive functions exist, and what they compute.       *)
(***************************************************************************)
EXTENDS Rows, FiniteSetTheorems, WellFoundedInduction, TLAPS

\* A nonempty set of naturals has a smallest element.
LEMMA NatMin ==
    ASSUME NEW S \in SUBSET Nat, S # {}
    PROVE  \E n \in S : \A m \in S : n <= m
  <1>1. PICK n \in S : \A m \in S : ~(<<m, n>> \in OpToRel(<, Nat))
    BY NatLessThanWellFounded, WFMin
  <1>2. \A m \in S : m < n => <<m, n>> \in OpToRel(<, Nat)
    BY DEF OpToRel
  <1>3. \A m \in S : ~(m < n) BY <1>1, <1>2
  <1>4. n \in Nat /\ \A m \in S : m \in Nat  OBVIOUS
  <1>5. \A m \in S : n <= m BY <1>3, <1>4
  <1> QED BY <1>5

\* What holds of 0, and of n + 1 if of n, holds of every natural.
LEMMA CountUp ==
    ASSUME NEW G, 0 \in G, \A n \in Nat : n \in G => n + 1 \in G
    PROVE  Nat \subseteq G
  <1> DEFINE Bad == {n \in Nat : n \notin G}
  <1> SUFFICES ASSUME Bad # {} PROVE FALSE OBVIOUS
  <1>1. Bad \in SUBSET Nat OBVIOUS
  <1>2. PICK n \in Bad : \A m \in Bad : n <= m BY <1>1, NatMin
  <1>3. n \in Nat /\ n # 0 /\ n \notin G OBVIOUS
  <1>4. n - 1 \in Nat /\ ~(n <= n - 1) /\ (n - 1) + 1 = n BY <1>3
  <1>5. n - 1 \in G BY <1>2, <1>4
  <1>6. (n - 1) + 1 \in G BY <1>4, <1>5
  <1> QED BY <1>3, <1>4, <1>6

\* Max of a nonempty set of integers with an upper bound.
LEMMA MaxBounded ==
    ASSUME NEW S \in SUBSET Int, S # {}, NEW b \in Int, \A x \in S : x <= b
    PROVE  Max(S) \in S /\ \A x \in S : x <= Max(S)
  <1> DEFINE D == {b - x : x \in S}
  <1>1. PICK d \in D : \A e \in D : d <= e
    <2>1. \A x \in S : x \in Int /\ b - x \in Nat  OBVIOUS
    <2>2. D \in SUBSET Nat /\ D # {}  BY <2>1
    <2> HIDE DEF D
    <2> QED BY <2>2, NatMin
  <1>2. PICK m \in S : d = b - m  OBVIOUS
  <1>3. ASSUME NEW x \in S PROVE m >= x
    <2>1. b - m <= b - x  BY <1>1, <1>2
    <2>2. m \in Int /\ x \in Int  OBVIOUS
    <2> HIDE DEF D
    <2> QED BY <2>1, <2>2
  <1>4. \A x \in S : m >= x BY <1>3
  <1>5. \E x \in S : \A y \in S : x >= y BY <1>4
  <1>6. Max(S) \in S /\ \A y \in S : Max(S) >= y
    BY <1>5 DEF Max
  <1> QED BY <1>6

\* Min of a nonempty set of integers with a lower bound.
LEMMA MinBounded ==
    ASSUME NEW S \in SUBSET Int, S # {}, NEW b \in Int, \A x \in S : b <= x
    PROVE  Min(S) \in S /\ \A x \in S : Min(S) <= x
  <1> DEFINE D == {x - b : x \in S}
  <1>1. PICK d \in D : \A e \in D : d <= e
    <2>1. \A x \in S : x \in Int /\ x - b \in Nat  OBVIOUS
    <2>2. D \in SUBSET Nat /\ D # {}  BY <2>1
    <2> HIDE DEF D
    <2> QED BY <2>2, NatMin
  <1>2. PICK m \in S : d = m - b  OBVIOUS
  <1>3. ASSUME NEW x \in S PROVE m <= x
    <2>1. m - b <= x - b  BY <1>1, <1>2
    <2>2. m \in Int /\ x \in Int  OBVIOUS
    <2> HIDE DEF D
    <2> QED BY <2>1, <2>2
  <1>4. \A x \in S : m <= x BY <1>3
  <1>5. \E x \in S : \A y \in S : x =< y BY <1>4
  <1>6. Min(S) \in S /\ \A y \in S : Min(S) =< y
    BY <1>5 DEF Min
  <1> QED BY <1>6

-----------------------------------------------------------------------------
(* MapThenSumSet adds up the weights of a finite set, in any order.  Its    *)
(* recursion is over a function that is chosen by its equation, so first    *)
(* there must be such a function; inductions take a least counterexample.   *)

\* The element that MapThenSumSet takes next.
Picked(T) == CHOOSE x \in T : TRUE

\* sum adds up the weights w of each part of S.
Sums(sum, w, S) ==
    sum = [T \in SUBSET S |->
              IF T = {} THEN 0 ELSE w[Picked(T)] + sum[T \ {Picked(T)}]]

SumOf(w, S) == (CHOOSE sum : Sums(sum, w, S))[S]

\* Taking an element from a finite set leaves one element less.
LEMMA PickedFacts ==
    ASSUME NEW S, IsFiniteSet(S), NEW T \in SUBSET S, T # {}
    PROVE  /\ Picked(T) \in T
           /\ \A x \in T : /\ T \ {x} \in SUBSET S /\ IsFiniteSet(T \ {x})
                           /\ Cardinality(T) \in Nat /\ Cardinality(T \ {x}) \in Nat
                           /\ Cardinality(T \ {x}) + 1 = Cardinality(T)
  <1>1. IsFiniteSet(T) BY FS_Subset
  <1>2. Picked(T) \in T BY DEF Picked
  <1>3. ASSUME NEW x \in T
        PROVE  /\ T \ {x} \in SUBSET S /\ IsFiniteSet(T \ {x})
               /\ Cardinality(T) \in Nat /\ Cardinality(T \ {x}) \in Nat
               /\ Cardinality(T \ {x}) + 1 = Cardinality(T)
    <2>1. IsFiniteSet(T \ {x}) /\ Cardinality(T \ {x}) = Cardinality(T) - 1
      BY <1>1, FS_RemoveElement
    <2>2. Cardinality(T) \in Nat /\ Cardinality(T \ {x}) \in Nat
      BY <1>1, <2>1, FS_CardinalityType
    <2> QED BY <2>1, <2>2
  <1> QED BY <1>2, <1>3

\* Something that holds of a part of S as soon as it holds of the smaller ones
\* holds of all: a set of parts with that property is the set of all parts.
LEMMA PartsInduction ==
    ASSUME NEW S, IsFiniteSet(S), NEW G,
           ASSUME NEW T \in SUBSET S,
                  \A R \in SUBSET S : Cardinality(R) < Cardinality(T) => R \in G
           PROVE  T \in G
    PROVE  SUBSET S \subseteq G
  <1> DEFINE Bad == {T \in SUBSET S : T \notin G}
             Sizes == {Cardinality(T) : T \in Bad}
  <1>1. \A T \in SUBSET S : Cardinality(T) \in Nat BY FS_Subset, FS_CardinalityType
  <1>2. SUFFICES ASSUME Bad # {} PROVE FALSE OBVIOUS
  <1>3. Sizes \in SUBSET Nat /\ Sizes # {} BY <1>1, <1>2
  <1> HIDE DEF Sizes
  <1>4. PICK n \in Sizes : \A m \in Sizes : n <= m BY <1>3, NatMin
  <1>5. PICK T \in Bad : n = Cardinality(T) BY <1>4 DEF Sizes
  <1>6. ASSUME NEW R \in SUBSET S, Cardinality(R) < Cardinality(T) PROVE R \in G
    <2>1. SUFFICES ASSUME R \notin G PROVE FALSE OBVIOUS
    <2>2. Cardinality(R) \in Sizes BY <2>1 DEF Sizes
    <2>3. Cardinality(T) <= Cardinality(R) BY <2>2, <1>4, <1>5
    <2>4. Cardinality(R) \in Nat /\ Cardinality(T) \in Nat BY <1>1
    <2> QED BY <2>3, <2>4, <1>6
  <1>7. T \in G BY <1>6
  <1> QED BY <1>5, <1>7

\* The function exists.
LEMMA SumsExist ==
    ASSUME NEW S, IsFiniteSet(S), NEW w \in [S -> Nat]
    PROVE  \E sum : Sums(sum, w, S)
  <1> DEFINE Adds(sum, T) ==
                 sum[T] = IF T = {} THEN 0 ELSE w[Picked(T)] + sum[T \ {Picked(T)}]
             Upto(n) == \E sum \in [SUBSET S -> Nat] :
                            \A T \in SUBSET S : Cardinality(T) <= n => Adds(sum, T)
             Bad == {n \in Nat : ~Upto(n)}
  <1>1. \A T \in SUBSET S : IsFiniteSet(T) /\ Cardinality(T) \in Nat
    BY FS_Subset, FS_CardinalityType
  <1>2. Upto(0)
    <2> DEFINE zero == [T \in SUBSET S |-> 0]
    <2>1. zero \in [SUBSET S -> Nat] OBVIOUS
    <2>2. ASSUME NEW T \in SUBSET S, Cardinality(T) <= 0 PROVE Adds(zero, T)
      <3>1. T = {} BY <2>2, <1>1, FS_EmptySet
      <3> QED BY <3>1
    <2> QED BY <2>1, <2>2
  <1>3. ASSUME NEW n \in Nat, Upto(n) PROVE Upto(n + 1)
    <2>1. PICK sum \in [SUBSET S -> Nat] :
              \A T \in SUBSET S : Cardinality(T) <= n => Adds(sum, T)
      BY <1>3
    <2> DEFINE next == [T \in SUBSET S |->
                           IF T = {} THEN 0 ELSE w[Picked(T)] + sum[T \ {Picked(T)}]]
    <2>2. next \in [SUBSET S -> Nat]
      <3>1. ASSUME NEW T \in SUBSET S, T # {}
            PROVE  w[Picked(T)] + sum[T \ {Picked(T)}] \in Nat
        <4>1. Picked(T) \in S /\ T \ {Picked(T)} \in SUBSET S BY <3>1, PickedFacts
        <4>2. w[Picked(T)] \in Nat /\ sum[T \ {Picked(T)}] \in Nat BY <4>1
        <4> QED BY <4>2
      <3> QED BY <3>1
    <2>3. ASSUME NEW T \in SUBSET S, Cardinality(T) <= n + 1 PROVE Adds(next, T)
      <3>1. CASE T = {} BY <3>1
      <3>2. CASE T # {}
        <4> DEFINE R == T \ {Picked(T)}
        <4>1. /\ R \in SUBSET S /\ Cardinality(T) \in Nat /\ Cardinality(R) \in Nat
              /\ Cardinality(R) + 1 = Cardinality(T)
          BY <3>2, PickedFacts
        <4>2. Cardinality(R) <= n BY <4>1, <2>3
        <4>3. Adds(sum, R) BY <4>1, <4>2, <2>1
        <4>4. next[R] = sum[R] BY <4>1, <4>3
        <4>5. next[T] = w[Picked(T)] + sum[R] BY <3>2
        <4> QED BY <3>2, <4>4, <4>5
      <3> QED BY <3>1, <3>2
    <2> QED BY <2>2, <2>3
  <1> HIDE DEF Upto
  <1>4. \A n \in Nat : Upto(n)
    <2> SUFFICES ASSUME Bad # {} PROVE FALSE OBVIOUS
    <2>1. Bad \in SUBSET Nat OBVIOUS
    <2>2. PICK n \in Bad : \A m \in Bad : n <= m BY <2>1, NatMin
    <2>3. n # 0 /\ n \in Nat BY <1>2
    <2>4. n - 1 \in Nat /\ ~(n <= n - 1) BY <2>3
    <2>5. Upto(n - 1) BY <2>2, <2>4
    <2>6. Upto((n - 1) + 1) BY <2>4, <2>5, <1>3
    <2>7. (n - 1) + 1 = n BY <2>3
    <2> QED BY <2>6, <2>7
  <1>5. PICK sum \in [SUBSET S -> Nat] :
            \A T \in SUBSET S : Cardinality(T) <= Cardinality(S) => Adds(sum, T)
    BY <1>1, <1>4 DEF Upto
  <1>6. \A T \in SUBSET S : Cardinality(T) <= Cardinality(S) BY FS_Subset
  <1>7. \A T \in SUBSET S : Adds(sum, T) BY <1>5, <1>6
  <1>8. Sums(sum, w, S) BY <1>7 DEF Sums
  <1> QED BY <1>8

\* It gives naturals, and only the weights of the elements matter.
LEMMA SumsAgree ==
    ASSUME NEW R, IsFiniteSet(R), NEW S \in SUBSET R, NEW w, NEW v,
           \A x \in S : w[x] = v[x] /\ w[x] \in Nat,
           NEW sum, Sums(sum, w, S), NEW other, Sums(other, v, R)
    PROVE  \A T \in SUBSET S : sum[T] = other[T] /\ sum[T] \in Nat
  <1> DEFINE G == {T \in SUBSET S : sum[T] = other[T] /\ sum[T] \in Nat}
  <1>1. IsFiniteSet(S) BY FS_Subset
  <1>2. ASSUME NEW T \in SUBSET S,
               \A Q \in SUBSET S : Cardinality(Q) < Cardinality(T) => Q \in G
        PROVE  T \in G
    <2>1. T \in SUBSET R OBVIOUS
    <2>2. CASE T = {} BY <2>1, <2>2 DEF Sums
    <2>3. CASE T # {}
      <3> DEFINE x == Picked(T)
      <3>1. /\ x \in T /\ T \ {x} \in SUBSET S
            /\ Cardinality(T) \in Nat /\ Cardinality(T \ {x}) \in Nat
            /\ Cardinality(T \ {x}) + 1 = Cardinality(T)
        BY <1>1, <2>3, PickedFacts
      <3>2. T \ {x} \in G BY <3>1, <1>2
      <3>3. sum[T] = w[x] + sum[T \ {x}] BY <2>3 DEF Sums
      <3>4. other[T] = v[x] + other[T \ {x}] BY <2>1, <2>3 DEF Sums
      <3>5. w[x] = v[x] /\ w[x] \in Nat BY <3>1
      <3> HIDE DEF x
      <3> QED BY <3>2, <3>3, <3>4, <3>5
    <2> QED BY <2>2, <2>3
  <1> HIDE DEF G
  <1>3. SUBSET S \subseteq G BY <1>1, <1>2, PartsInduction
  <1> QED BY <1>3 DEF G

\* The order does not matter: any element may be taken first.
LEMMA SumsAnyOrder ==
    ASSUME NEW S, IsFiniteSet(S), NEW w \in [S -> Nat], NEW sum, Sums(sum, w, S)
    PROVE  \A T \in SUBSET S : \A y \in T : sum[T] = w[y] + sum[T \ {y}]
  <1> DEFINE G == {T \in SUBSET S : \A y \in T : sum[T] = w[y] + sum[T \ {y}]}
  <1>1. \A T \in SUBSET S : sum[T] \in Nat BY SumsAgree
  <1>2. ASSUME NEW T \in SUBSET S,
               \A Q \in SUBSET S : Cardinality(Q) < Cardinality(T) => Q \in G
        PROVE  T \in G
    <2> SUFFICES ASSUME NEW y \in T PROVE sum[T] = w[y] + sum[T \ {y}] OBVIOUS
    <2> DEFINE x == Picked(T)
    <2>1. \A z \in T : /\ T \ {z} \in SUBSET S
                       /\ Cardinality(T) \in Nat /\ Cardinality(T \ {z}) \in Nat
                       /\ Cardinality(T \ {z}) + 1 = Cardinality(T)
      BY PickedFacts
    <2>2. x \in T BY PickedFacts
    <2>3. sum[T] = w[x] + sum[T \ {x}] BY DEF Sums
    <2> HIDE DEF x
    <2>4. CASE x = y BY <2>3, <2>4
    <2>5. CASE x # y
      <3>1. T \ {x} \in G /\ T \ {y} \in G BY <2>1, <2>2, <1>2
      <3>2. sum[T \ {x}] = w[y] + sum[(T \ {x}) \ {y}] BY <3>1, <2>5
      <3>3. sum[T \ {y}] = w[x] + sum[(T \ {y}) \ {x}] BY <3>1, <2>2, <2>5
      <3>4. sum[(T \ {x}) \ {y}] = sum[(T \ {y}) \ {x}]
        <4>1. (T \ {x}) \ {y} = (T \ {y}) \ {x} OBVIOUS
        <4> QED BY <4>1
      <3>5. w[x] \in Nat /\ w[y] \in Nat /\ sum[(T \ {x}) \ {y}] \in Nat BY <1>1, <2>2
      <3> QED BY ONLY <2>3, <3>2, <3>3, <3>4, <3>5
    <2> QED BY <2>4, <2>5
  <1> HIDE DEF G
  <1>3. SUBSET S \subseteq G BY <1>2, PartsInduction
  <1> QED BY <1>3 DEF G

\* SumOf is such a sum.
LEMMA SumOfFacts ==
    ASSUME NEW S, IsFiniteSet(S), NEW w \in [S -> Nat]
    PROVE  /\ Sums(CHOOSE sum : Sums(sum, w, S), w, S)
           /\ SumOf(w, S) \in Nat
           /\ S = {} => SumOf(w, S) = 0
  <1> DEFINE sum == CHOOSE f : Sums(f, w, S)
  <1>1. Sums(sum, w, S) BY SumsExist
  <1> HIDE DEF sum
  <1>2. sum[S] \in Nat BY <1>1, SumsAgree
  <1>3. S = {} => sum[S] = 0 BY <1>1 DEF Sums
  <1> QED BY <1>1, <1>2, <1>3 DEF SumOf, sum

\* One more element adds its weight.
LEMMA SumOfAdd ==
    ASSUME NEW S, IsFiniteSet(S), NEW y, y \notin S,
           NEW w \in [S -> Nat], NEW v \in [S \union {y} -> Nat], \A x \in S : w[x] = v[x]
    PROVE  SumOf(v, S \union {y}) = v[y] + SumOf(w, S)
  <1> DEFINE R == S \union {y}
             sum == CHOOSE f : Sums(f, w, S)
             other == CHOOSE f : Sums(f, v, R)
  <1>1. IsFiniteSet(R) BY FS_AddElement
  <1>2. Sums(sum, w, S) /\ Sums(other, v, R) BY <1>1, SumOfFacts
  <1> HIDE DEF sum, other
  <1>3. other[R] = v[y] + other[R \ {y}] BY <1>1, <1>2, SumsAnyOrder
  <1>4. R \ {y} = S OBVIOUS
  <1>5. S \in SUBSET R /\ \A x \in S : w[x] = v[x] /\ w[x] \in Nat OBVIOUS
  <1>6. sum[S] = other[S]
    <2>1. \A T \in SUBSET S : sum[T] = other[T] /\ sum[T] \in Nat
      BY ONLY <1>1, <1>2, <1>5, SumsAgree
    <2> QED BY <2>1
  <1> QED BY <1>3, <1>4, <1>6 DEF SumOf, sum, other

\* Raising weights, one of them by n at least, raises the sum by n.
LEMMA SumOfRaise ==
    ASSUME NEW S, IsFiniteSet(S), NEW w \in [S -> Nat], NEW v \in [S -> Nat],
           \A x \in S : w[x] <= v[x],
           NEW y \in S, NEW n \in Nat, w[y] + n <= v[y]
    PROVE  SumOf(w, S) + n <= SumOf(v, S)
  <1> DEFINE sum == CHOOSE f : Sums(f, w, S)
             other == CHOOSE f : Sums(f, v, S)
             G == {T \in SUBSET S : sum[T] <= other[T] /\ sum[T] \in Nat /\ other[T] \in Nat}
  <1>1. Sums(sum, w, S) /\ Sums(other, v, S) BY SumOfFacts
  <1> HIDE DEF sum, other
  <1>2. ASSUME NEW T \in SUBSET S,
               \A Q \in SUBSET S : Cardinality(Q) < Cardinality(T) => Q \in G
        PROVE  T \in G
    <2>1. CASE T = {}
      <3>1. sum[T] = 0 /\ other[T] = 0 BY <1>1, <2>1 DEF Sums
      <3> QED BY <3>1
    <2>2. CASE T # {}
      <3> DEFINE x == Picked(T)
      <3>1. /\ x \in T /\ T \ {x} \in SUBSET S
            /\ Cardinality(T) \in Nat /\ Cardinality(T \ {x}) \in Nat
            /\ Cardinality(T \ {x}) + 1 = Cardinality(T)
        BY <2>2, PickedFacts
      <3>2. T \ {x} \in G BY <3>1, <1>2
      <3>3. sum[T] = w[x] + sum[T \ {x}] BY <1>1, <2>2 DEF Sums
      <3>4. other[T] = v[x] + other[T \ {x}] BY <1>1, <2>2 DEF Sums
      <3>5. w[x] <= v[x] /\ w[x] \in Nat /\ v[x] \in Nat BY <3>1
      <3> HIDE DEF x
      <3>6. /\ sum[T \ {x}] <= other[T \ {x}]
            /\ sum[T \ {x}] \in Nat /\ other[T \ {x}] \in Nat
        BY <3>2
      <3>7. sum[T] <= other[T] /\ sum[T] \in Nat /\ other[T] \in Nat BY <3>3, <3>4, <3>5, <3>6
      <3> QED BY <3>7
    <2> QED BY <2>1, <2>2
  <1> HIDE DEF G
  <1>3. SUBSET S \subseteq G BY <1>2, PartsInduction
  <1> DEFINE R == S \ {y}
  <1>4. sum[R] <= other[R] /\ sum[R] \in Nat /\ other[R] \in Nat BY <1>3 DEF G
  <1>5. sum[S] = w[y] + sum[R] /\ other[S] = v[y] + other[R] BY <1>1, SumsAnyOrder
  <1>6. w[y] \in Nat /\ v[y] \in Nat OBVIOUS
  <1> HIDE DEF R
  <1>7. sum[S] + n <= other[S] BY <1>4, <1>5, <1>6
  <1> QED BY <1>7 DEF SumOf, sum, other

\* The weights of a part of what w weighs.
PartOf(w, T) == SumOf([x \in T |-> w[x]], T)

\* The weight of a part is a natural, of nothing it is zero.
LEMMA PartOfFacts ==
    ASSUME NEW S, IsFiniteSet(S), NEW w, \A x \in S : w[x] \in Nat, NEW T \in SUBSET S
    PROVE  IsFiniteSet(T) /\ PartOf(w, T) \in Nat /\ PartOf(w, {}) = 0
  <1> DEFINE v == [x \in T |-> w[x]]
             z == [x \in {} |-> w[x]]
  <1>1. IsFiniteSet(T) /\ IsFiniteSet({}) BY FS_Subset, FS_EmptySet
  <1>2. v \in [T -> Nat] /\ z \in [{} -> Nat] OBVIOUS
  <1> HIDE DEF v, z
  <1>3. SumOf(v, T) \in Nat BY <1>1, <1>2, SumOfFacts
  <1>4. SumOf(z, {}) = 0 BY <1>1, <1>2, SumOfFacts
  <1> QED BY <1>1, <1>3, <1>4 DEF PartOf, v, z

\* One more element adds its weight.
LEMMA PartOfAdd ==
    ASSUME NEW S, IsFiniteSet(S), NEW w, \A x \in S : w[x] \in Nat, NEW T \in SUBSET S,
           NEW y \in S, y \notin T
    PROVE  PartOf(w, T \union {y}) = w[y] + PartOf(w, T)
  <1> DEFINE u == [x \in T |-> w[x]]
             v == [x \in T \union {y} |-> w[x]]
  <1>1. IsFiniteSet(T) BY FS_Subset
  <1>2. u \in [T -> Nat] /\ v \in [T \union {y} -> Nat] /\ v[y] = w[y]
        /\ \A x \in T : u[x] = v[x]
    OBVIOUS
  <1> HIDE DEF u, v
  <1>3. SumOf(v, T \union {y}) = v[y] + SumOf(u, T) BY <1>1, <1>2, SumOfAdd
  <1> QED BY <1>2, <1>3 DEF PartOf, u, v

\* A part and the rest weigh as much as all.
LEMMA PartOfSplit ==
    ASSUME NEW S, IsFiniteSet(S), NEW w, \A x \in S : w[x] \in Nat
    PROVE  \A T \in SUBSET S : PartOf(w, S) = PartOf(w, T) + PartOf(w, S \ T)
  <1> DEFINE G == {T \in SUBSET S : PartOf(w, S) = PartOf(w, T) + PartOf(w, S \ T)}
  <1>1. \A T \in SUBSET S : PartOf(w, T) \in Nat BY PartOfFacts
  <1>2. ASSUME NEW T \in SUBSET S,
               \A Q \in SUBSET S : Cardinality(Q) < Cardinality(T) => Q \in G
        PROVE  T \in G
    <2>1. CASE T = {}
      <3>1. PartOf(w, {}) = 0 BY PartOfFacts
      <3>2. S \ {} = S /\ S \in SUBSET S OBVIOUS
      <3>3. PartOf(w, S) = PartOf(w, {}) + PartOf(w, S \ {}) BY <1>1, <3>1, <3>2
      <3> QED BY <2>1, <3>3
    <2>2. CASE T # {}
      <3> DEFINE x == Picked(T)
                 R == T \ {x}
                 U == S \ T
      <3>1. /\ x \in T /\ R \in SUBSET S
            /\ Cardinality(T) \in Nat /\ Cardinality(R) \in Nat
            /\ Cardinality(R) + 1 = Cardinality(T)
        BY <2>2, PickedFacts
      <3> HIDE DEF x
      <3>2. R \in G BY <3>1, <1>2
      <3>3. x \in S /\ x \notin R /\ x \notin U /\ U \in SUBSET S /\ R \union {x} = T
            /\ S \ R = U \union {x}
        BY <3>1
      <3>4. PartOf(w, S) = PartOf(w, R) + PartOf(w, U \union {x}) BY <3>2, <3>3
      <3> HIDE DEF R, U
      <3>5. PartOf(w, U \union {x}) = w[x] + PartOf(w, U) BY <3>3, PartOfAdd
      <3>6. PartOf(w, T) = w[x] + PartOf(w, R) BY <3>1, <3>3, PartOfAdd
      <3>7. /\ w[x] \in Nat /\ PartOf(w, U) \in Nat /\ PartOf(w, R) \in Nat
        BY <1>1, <3>1, <3>3
      <3>8. PartOf(w, S) = PartOf(w, T) + PartOf(w, U)
        BY ONLY <3>4, <3>5, <3>6, <3>7
      <3> QED BY <3>8 DEF U
    <2> QED BY <2>1, <2>2
  <1> HIDE DEF G
  <1>3. SUBSET S \subseteq G BY <1>2, PartsInduction
  <1> QED BY <1>3 DEF G

-----------------------------------------------------------------------------
(* Retained keeps the elements of a sequence that are in a set, in order.  *)

\* r has the elements of the first n of s that are in S, at the places that h says.
Selects(h, r, s, S, n) ==
    /\ h \in [1 .. Len(r) -> 1 .. n]
    /\ \A i, j \in 1 .. Len(r) : i < j => h[i] < h[j]
    /\ \A i \in 1 .. Len(r) : r[i] = s[h[i]] /\ s[h[i]] \in S
    /\ \A k \in 1 .. n : s[k] \in S => \E i \in 1 .. Len(r) : h[i] = k

\* One element more of s.
LEMMA SelectsNext ==
    ASSUME NEW P, NEW s \in Seq(P), NEW S, NEW n \in Nat, n + 1 <= Len(s),
           NEW r \in Seq(P), NEW h, Selects(h, r, s, S, n)
    PROVE  LET q == IF s[n + 1] \in S THEN Append(r, s[n + 1]) ELSE r
           IN  q \in Seq(P) /\ \E g : Selects(g, q, s, S, n + 1)
  <1>1. Len(r) \in Nat /\ Len(s) \in Nat /\ n + 1 \in 1 .. Len(s) /\ n + 1 \in 1 .. n + 1
    OBVIOUS
  <1>2. s[n + 1] \in P BY <1>1
  <1>3. \A k \in 1 .. n : k \in 1 .. n + 1 /\ k < n + 1 /\ k # n + 1 OBVIOUS
  <1>4. \A k \in 1 .. n + 1 : k \in 1 .. n \/ k = n + 1 OBVIOUS
  <1>5. CASE s[n + 1] \notin S
    <2>1. h \in [1 .. Len(r) -> 1 .. n + 1] BY <1>3 DEF Selects
    <2>2. Selects(h, r, s, S, n + 1) BY <1>4, <1>5, <2>1 DEF Selects
    <2> QED BY <1>5, <2>2
  <1>6. CASE s[n + 1] \in S
    <2> DEFINE m == Len(r)
               q == Append(r, s[n + 1])
               g == [i \in 1 .. m + 1 |-> IF i = m + 1 THEN n + 1 ELSE h[i]]
    <2>1. q \in Seq(P) /\ Len(q) = m + 1 BY <1>2
    <2>2. q[m + 1] = s[n + 1] /\ \A i \in 1 .. m : q[i] = r[i] BY <1>2
    <2>3. m \in Nat /\ \A i \in 1 .. m + 1 : i = m + 1 \/ i \in 1 .. m BY <1>1
    <2>4. \A i \in 1 .. m : i \in 1 .. m + 1 /\ i # m + 1 /\ i < m + 1 BY <1>1
    <2>5. m + 1 \in 1 .. m + 1 BY <1>1
    <2>6. g[m + 1] = n + 1 /\ \A i \in 1 .. m : g[i] = h[i] /\ h[i] \in 1 .. n
      BY <2>4, <2>5 DEF Selects
    <2>7. g \in [1 .. m + 1 -> 1 .. n + 1] BY <1>1, <1>3, <2>3, <2>6
    <2> HIDE DEF m, q, g
    <2>8. ASSUME NEW i \in 1 .. m + 1, NEW j \in 1 .. m + 1, i < j PROVE g[i] < g[j]
      <3>1. i \in 1 .. m BY <2>3, <2>8
      <3>2. CASE j = m + 1 BY <1>3, <2>6, <3>1, <3>2
      <3>3. CASE j \in 1 .. m BY <2>6, <2>8, <3>1, <3>3 DEF Selects, m
      <3> QED BY <2>3, <3>2, <3>3
    <2>9. ASSUME NEW i \in 1 .. m + 1 PROVE q[i] = s[g[i]] /\ s[g[i]] \in S
      <3>1. CASE i = m + 1 BY <1>6, <2>2, <2>6, <3>1
      <3>2. CASE i \in 1 .. m BY <2>2, <2>6, <3>2 DEF Selects, m
      <3> QED BY <2>3, <3>1, <3>2
    <2>10. ASSUME NEW k \in 1 .. n + 1, s[k] \in S PROVE \E i \in 1 .. m + 1 : g[i] = k
      <3>1. CASE k = n + 1 BY <2>5, <2>6, <3>1
      <3>2. CASE k \in 1 .. n
        <4>1. PICK i \in 1 .. m : h[i] = k BY <2>10, <3>2 DEF Selects, m
        <4> QED BY <2>4, <2>6, <4>1
      <3> QED BY <1>4, <3>1, <3>2
    <2>11. Selects(g, q, s, S, n + 1) BY <2>1, <2>7, <2>8, <2>9, <2>10 DEF Selects
    <2> QED BY <1>6, <2>1, <2>11 DEF q
  <1> QED BY <1>5, <1>6

\* kept is the function that Retained chooses.
Keeps(kept, s, S) ==
    kept = [i \in 0 .. Len(s) |->
               IF i = 0 THEN << >>
               ELSE IF s[i] \in S THEN Append(kept[i - 1], s[i]) ELSE kept[i - 1]]

\* It exists.
LEMMA KeepsExists == ASSUME NEW P, NEW s \in Seq(P), NEW S PROVE \E kept : Keeps(kept, s, S)
  <1> DEFINE Next(kept, i) ==
                 IF i = 0 THEN << >>
                 ELSE IF s[i] \in S THEN Append(kept[i - 1], s[i]) ELSE kept[i - 1]
             G == {n \in Nat : \E kept : \A i \in 0 .. n : kept[i] = Next(kept, i)}
  <1>1. 0 \in G
    <2> DEFINE kept == [i \in 0 .. 0 |-> << >>]
    <2>1. \A i \in 0 .. 0 : kept[i] = Next(kept, i) OBVIOUS
    <2> QED BY <2>1
  <1>2. ASSUME NEW n \in Nat, n \in G PROVE n + 1 \in G
    <2>1. PICK kept : \A i \in 0 .. n : kept[i] = Next(kept, i) BY <1>2
    <2> DEFINE more == [i \in 0 .. n + 1 |-> IF i = n + 1 THEN Next(kept, n + 1) ELSE kept[i]]
    <2>2. ASSUME NEW i \in 0 .. n + 1 PROVE more[i] = Next(more, i)
      <3>1. i # 0 => i - 1 \in 0 .. n /\ i - 1 \in 0 .. n + 1 /\ i - 1 # n + 1 OBVIOUS
      <3>2. i # 0 => more[i - 1] = kept[i - 1] BY <3>1
      <3>3. Next(more, i) = Next(kept, i) BY <3>2
      <3>4. CASE i = n + 1 BY <3>3, <3>4
      <3>5. CASE i # n + 1
        <4>1. i \in 0 .. n BY <3>5
        <4> QED BY <2>1, <3>3, <3>5, <4>1
      <3> QED BY <3>4, <3>5
    <2> HIDE DEF Next, more
    <2> QED BY <2>2
  <1> HIDE DEF G
  <1>3. Nat \subseteq G BY <1>1, <1>2, CountUp
  <1>4. Len(s) \in Nat OBVIOUS
  <1>5. PICK f : \A i \in 0 .. Len(s) : f[i] = Next(f, i) BY <1>3, <1>4 DEF G
  <1> DEFINE kept == [i \in 0 .. Len(s) |-> f[i]]
  <1>6. ASSUME NEW i \in 0 .. Len(s) PROVE kept[i] = Next(kept, i)
    <2>1. i # 0 => i - 1 \in 0 .. Len(s) BY <1>4
    <2>2. i # 0 => kept[i - 1] = f[i - 1] BY <2>1
    <2>3. Next(kept, i) = Next(f, i) BY <2>2
    <2> QED BY <1>5, <2>3
  <1>7. kept = [i \in 0 .. Len(s) |-> kept[i]] OBVIOUS
  <1> HIDE DEF kept
  <1>8. kept = [i \in 0 .. Len(s) |-> Next(kept, i)] BY <1>6, <1>7
  <1> QED BY <1>8 DEF Keeps

\* Retained has the elements of s that are in S, in their order.
LEMMA RetainedFacts ==
    ASSUME NEW P, NEW s \in Seq(P), NEW S
    PROVE  /\ Retained(s, S) \in Seq(P)
           /\ \E h : Selects(h, Retained(s, S), s, S, Len(s))
  <1> DEFINE kept == CHOOSE f : Keeps(f, s, S)
             G == {n \in Nat : n <= Len(s) =>
                                  kept[n] \in Seq(P) /\ \E h : Selects(h, kept[n], s, S, n)}
  <1>1. Keeps(kept, s, S) BY KeepsExists
  <1>2. Retained(s, S) = kept[Len(s)] BY DEF Retained, Keeps
  <1> HIDE DEF kept
  <1>3. Len(s) \in Nat OBVIOUS
  <1>4. 0 \in G
    <2>1. kept[0] = << >> BY <1>1, <1>3 DEF Keeps
    <2>2. Selects([i \in 1 .. 0 |-> i], << >>, s, S, 0) BY DEF Selects
    <2>3. << >> \in Seq(P) OBVIOUS
    <2> QED BY <2>1, <2>2, <2>3
  <1>5. ASSUME NEW n \in Nat, n \in G PROVE n + 1 \in G
    <2> SUFFICES ASSUME n + 1 <= Len(s)
                 PROVE  kept[n + 1] \in Seq(P) /\ \E h : Selects(h, kept[n + 1], s, S, n + 1)
      OBVIOUS
    <2>1. n <= Len(s) BY <1>3
    <2>2. PICK h : kept[n] \in Seq(P) /\ Selects(h, kept[n], s, S, n) BY <1>5, <2>1
    <2>3. n + 1 \in 0 .. Len(s) /\ n + 1 # 0 /\ (n + 1) - 1 = n BY <1>3
    <2>4. kept[n + 1] = IF s[n + 1] \in S THEN Append(kept[n], s[n + 1]) ELSE kept[n]
      BY <1>1, <2>3 DEF Keeps
    <2>5. kept[n] \in Seq(P) /\ Selects(h, kept[n], s, S, n) BY <2>2
    <2>6. kept[n + 1] \in Seq(P) /\ \E g : Selects(g, kept[n + 1], s, S, n + 1)
      BY <2>4, <2>5, SelectsNext
    <2> QED BY <2>6
  <1> HIDE DEF G
  <1>6. Nat \subseteq G BY <1>4, <1>5, CountUp
  <1>7. kept[Len(s)] \in Seq(P) /\ \E h : Selects(h, kept[Len(s)], s, S, Len(s))
    BY <1>3, <1>6 DEF G
  <1> QED BY <1>2, <1>7

-----------------------------------------------------------------------------
(* Samples in order.                                                       *)

\* Finitely many samples, told apart by their time and their order of arrival.
Sortable(S) ==
    /\ IsFiniteSet(S)
    /\ \A x \in S : x.timestamp_ms \in Int /\ x.seq_no \in Int
    /\ \A x, y \in S : x.timestamp_ms = y.timestamp_ms /\ x.seq_no = y.seq_no => x = y

\* s lists some of them in order.
Ascending(s) == \A i, j \in DOMAIN s : i < j => Earlier(s[i], s[j])

\* Earlier is a strict total order of sortable samples.
LEMMA EarlierOrder ==
    ASSUME NEW S, Sortable(S)
    PROVE  /\ \A x \in S : ~Earlier(x, x)
           /\ \A x, y \in S : Earlier(x, y) \/ Earlier(y, x) \/ x = y
           /\ \A x, y, z \in S : Earlier(x, y) /\ Earlier(y, z) => Earlier(x, z)
  BY DEF Sortable, Earlier

\* Part of them is sortable too.
LEMMA SortablePart ==
    ASSUME NEW S, Sortable(S), NEW T \in SUBSET S
    PROVE  Sortable(T)
  <1>1. IsFiniteSet(T) BY FS_Subset DEF Sortable
  <1> QED BY <1>1 DEF Sortable

\* There is a last one ...
LEMMA LastOne ==
    ASSUME NEW S, Sortable(S), S # {}
    PROVE  \E m \in S : \A x \in S : x = m \/ Earlier(x, m)
  <1> DEFINE G == {n \in Nat : \A T \in SUBSET S : T # {} /\ Cardinality(T) = n =>
                                  \E m \in T : \A x \in T : x = m \/ Earlier(x, m)}
  <1>1. IsFiniteSet(S) BY DEF Sortable
  <1>2. 0 \in G
    <2>1. \A T \in SUBSET S : Cardinality(T) = 0 => T = {}
      <3> TAKE T \in SUBSET S
      <3>1. IsFiniteSet(T) BY <1>1, FS_Subset
      <3> QED BY <3>1, FS_EmptySet
    <2> QED BY <2>1
  <1>3. ASSUME NEW n \in Nat, n \in G PROVE n + 1 \in G
    <2> SUFFICES ASSUME NEW T \in SUBSET S, T # {}, Cardinality(T) = n + 1
                 PROVE  \E m \in T : \A x \in T : x = m \/ Earlier(x, m)
      OBVIOUS
    <2>1. PICK t \in T : TRUE OBVIOUS
    <2> DEFINE R == T \ {t}
    <2>2. IsFiniteSet(T) BY <1>1, FS_Subset
    <2>3. Cardinality(R) = n + 1 - 1 BY <2>1, <2>2, FS_RemoveElement
    <2>4. Cardinality(R) = n BY <2>3
    <2>5. CASE R = {} BY <2>1, <2>5
    <2>6. CASE R # {}
      <3>1. R \in SUBSET S OBVIOUS
      <3> HIDE DEF R
      <3>2. PICK m \in R : \A x \in R : x = m \/ Earlier(x, m) BY <1>3, <2>4, <2>6, <3>1
      <3> USE DEF R
      <3>3. m \in S /\ t \in S /\ m \in T BY <2>1
      <3>4. CASE Earlier(m, t)
        <4>1. \A x \in T : x = t \/ Earlier(x, t)
          BY <3>2, <3>3, <3>4, EarlierOrder
        <4> QED BY <2>1, <4>1
      <3>5. CASE Earlier(t, m) BY <3>2, <3>3, <3>5
      <3>6. CASE t = m BY <3>6
      <3> QED BY <3>3, <3>4, <3>5, <3>6, EarlierOrder
    <2> QED BY <2>5, <2>6
  <1> HIDE DEF G
  <1>4. Nat \subseteq G BY <1>2, <1>3, CountUp
  <1>5. Cardinality(S) \in Nat BY <1>1, FS_CardinalityType
  <1>6. Cardinality(S) \in G BY <1>4, <1>5
  <1> QED BY <1>6 DEF G

\* ... and so they can be listed.
LEMMA ListingExists ==
    ASSUME NEW S, Sortable(S)
    PROVE  \E s \in [1 .. Cardinality(S) -> S] : Ascending(s)
  <1> DEFINE G == {n \in Nat : \A T \in SUBSET S : Cardinality(T) = n =>
                                  \E s \in [1 .. n -> T] : Ascending(s)}
  <1>1. IsFiniteSet(S) BY DEF Sortable
  <1>2. 0 \in G
    <2> SUFFICES ASSUME NEW T \in SUBSET S
                 PROVE  \E s \in [1 .. 0 -> T] : Ascending(s)
      OBVIOUS
    <2> DEFINE s == [i \in 1 .. 0 |-> {}]
    <2>1. s \in [1 .. 0 -> T] /\ Ascending(s) BY DEF Ascending
    <2> QED BY <2>1
  <1>3. ASSUME NEW n \in Nat, n \in G PROVE n + 1 \in G
    <2> SUFFICES ASSUME NEW T \in SUBSET S, Cardinality(T) = n + 1
                 PROVE  \E s \in [1 .. n + 1 -> T] : Ascending(s)
      OBVIOUS
    <2>1. IsFiniteSet(T) /\ Sortable(T) BY <1>1, FS_Subset, SortablePart
    <2>2. T # {} BY <2>1, FS_EmptySet
    <2>3. PICK m \in T : \A x \in T : x = m \/ Earlier(x, m) BY <2>1, <2>2, LastOne
    <2> DEFINE R == T \ {m}
    <2>4. Cardinality(R) = n + 1 - 1 BY <2>1, <2>3, FS_RemoveElement
    <2>5. Cardinality(R) = n /\ R \in SUBSET S BY <2>4
    <2>6. PICK s \in [1 .. n -> R] : Ascending(s)
      <3> HIDE DEF R
      <3> QED BY <1>3, <2>5
    <2> DEFINE r == [i \in 1 .. n + 1 |-> IF i = n + 1 THEN m ELSE s[i]]
    <2>7. \A i \in 1 .. n + 1 : i = n + 1 \/ i \in 1 .. n OBVIOUS
    <2>8. \A i \in 1 .. n : i \in 1 .. n + 1 /\ i # n + 1 OBVIOUS
    <2>9. r \in [1 .. n + 1 -> T] BY <2>7
    <2>10. ASSUME NEW i \in 1 .. n + 1, NEW j \in 1 .. n + 1, i < j
           PROVE  Earlier(r[i], r[j])
      <3>1. i \in 1 .. n /\ n + 1 \in 1 .. n + 1 BY <2>10
      <3>2. r[i] = s[i] /\ s[i] \in R BY <2>8, <3>1
      <3>3. CASE j = n + 1
        <4>1. r[j] = m BY <3>3
        <4>2. s[i] \in T /\ s[i] # m BY <3>2
        <4> QED BY <2>3, <3>2, <4>1, <4>2
      <3>4. CASE j \in 1 .. n
        <4>1. r[j] = s[j] BY <2>8, <3>4
        <4> QED BY <2>6, <2>10, <3>1, <3>2, <3>4, <4>1 DEF Ascending
      <3> QED BY <2>7, <3>3, <3>4
    <2>11. Ascending(r) BY <2>10 DEF Ascending
    <2> HIDE DEF r
    <2> QED BY <2>9, <2>11
  <1> HIDE DEF G
  <1>4. Nat \subseteq G BY <1>2, <1>3, CountUp
  <1>5. Cardinality(S) \in Nat BY <1>1, FS_CardinalityType
  <1>6. Cardinality(S) \in G BY <1>4, <1>5
  <1> QED BY <1>6 DEF G

\* InOrder lists all of them.
LEMMA InOrderFacts ==
    ASSUME NEW S, Sortable(S)
    PROVE  /\ InOrder(S) \in Seq(S) /\ Len(InOrder(S)) = Cardinality(S)
           /\ DOMAIN InOrder(S) = 1 .. Len(InOrder(S))
           /\ Ascending(InOrder(S)) /\ ToSet(InOrder(S)) = S
  <1> DEFINE s == InOrder(S)
             n == Cardinality(S)
  <1>1. \E f \in [1 .. n -> S] : \A i, j \in DOMAIN f : i < j => Earlier(f[i], f[j])
    BY ListingExists DEF Ascending
  <1>2. s \in [1 .. n -> S] /\ Ascending(s) BY <1>1 DEF InOrder, Ascending
  <1> HIDE DEF s
  <1>3. IsFiniteSet(S) /\ n \in Nat BY FS_CardinalityType DEF Sortable
  <1>4. s \in Seq(S) /\ Len(s) = n /\ DOMAIN s = 1 .. n BY <1>2, <1>3
  <1>5. IsInjective(s)
    <2> SUFFICES ASSUME NEW i \in 1 .. n, NEW j \in 1 .. n, s[i] = s[j], i # j PROVE FALSE
      BY <1>4 DEF IsInjective
    <2>1. i < j \/ j < i BY <1>3
    <2>2. s[i] \in S /\ s[j] \in S BY <1>2
    <2>3. Earlier(s[i], s[j]) \/ Earlier(s[j], s[i]) BY <1>2, <1>4, <2>1 DEF Ascending
    <2> QED BY <2>2, <2>3, EarlierOrder
  <1>6. s \in Injection(1 .. n, S) BY <1>2, <1>5 DEF Injection
  <1>7. Cardinality(1 .. n) = n /\ IsFiniteSet(1 .. n) BY <1>3, FS_Interval
  <1>8. s \in Surjection(1 .. n, S) BY <1>3, <1>6, <1>7, FS_Injection
  <1>9. ToSet(s) = S BY <1>2, <1>4, <1>8 DEF Surjection, ToSet
  <1> QED BY <1>2, <1>4, <1>9 DEF s

\* Two listings of the same samples agree where the shorter one ends.
LEMMA ListingPlace ==
    ASSUME NEW S, Sortable(S), NEW s \in Seq(S), NEW t \in Seq(S),
           Ascending(s), Ascending(t), ToSet(s) = ToSet(t),
           NEW i \in Nat, i \in 1 .. Len(s), \A k \in 1 .. i - 1 : k \in 1 .. Len(t) /\ t[k] = s[k]
    PROVE  i \in 1 .. Len(t) /\ (t[i] = s[i] \/ Earlier(t[i], s[i]))
  <1>1. DOMAIN s = 1 .. Len(s) /\ DOMAIN t = 1 .. Len(t) /\ Len(t) \in Nat /\ Len(s) \in Nat
    OBVIOUS
  <1>2. PICK k \in 1 .. Len(t) : t[k] = s[i] BY <1>1 DEF ToSet
  <1>3. ~(k < i)
    <2> SUFFICES ASSUME k < i PROVE FALSE OBVIOUS
    <2>1. k \in 1 .. i - 1 /\ k \in 1 .. Len(s) BY <1>1
    <2>2. s[k] = s[i] BY <1>2, <2>1
    <2>3. Earlier(s[k], s[i]) BY <1>1, <2>1 DEF Ascending
    <2>4. s[k] \in S BY <2>1
    <2> QED BY <2>2, <2>3, <2>4, EarlierOrder
  <1>4. i \in 1 .. Len(t) /\ (i = k \/ i < k) BY <1>1, <1>3
  <1>5. CASE i = k BY <1>2, <1>4, <1>5
  <1>6. CASE i < k BY <1>1, <1>2, <1>4, <1>6 DEF Ascending
  <1> QED BY <1>4, <1>5, <1>6

\* There is one listing of a set of samples.
LEMMA ListingUnique ==
    ASSUME NEW S, Sortable(S), NEW s \in Seq(S), NEW t \in Seq(S),
           Ascending(s), Ascending(t), ToSet(s) = ToSet(t)
    PROVE  s = t
  <1> DEFINE G == {n \in Nat : \A k \in 1 .. n :
                       /\ k \in 1 .. Len(s) <=> k \in 1 .. Len(t)
                       /\ k \in 1 .. Len(s) => t[k] = s[k]}
  <1>1. Len(s) \in Nat /\ Len(t) \in Nat OBVIOUS
  <1>2. 0 \in G OBVIOUS
  <1>3. ASSUME NEW n \in Nat, n \in G PROVE n + 1 \in G
    <2> DEFINE i == n + 1
    <2>1. i \in Nat /\ i - 1 = n /\ \A k \in 1 .. i : k = i \/ k \in 1 .. n OBVIOUS
    <2>2. ASSUME i \in 1 .. Len(s) PROVE i \in 1 .. Len(t) /\ (t[i] = s[i] \/ Earlier(t[i], s[i]))
      <3>1. \A k \in 1 .. i - 1 : k \in 1 .. Len(s) BY <2>2
      <3>2. \A k \in 1 .. i - 1 : k \in 1 .. Len(t) /\ t[k] = s[k] BY <1>3, <3>1
      <3> HIDE DEF i, G
      <3> QED BY <2>1, <2>2, <3>2, ListingPlace
    <2>3. ASSUME i \in 1 .. Len(t) PROVE i \in 1 .. Len(s) /\ (s[i] = t[i] \/ Earlier(s[i], t[i]))
      <3>1. \A k \in 1 .. i - 1 : k \in 1 .. Len(t) BY <2>3
      <3>2. \A k \in 1 .. i - 1 : k \in 1 .. Len(s) /\ s[k] = t[k] BY <1>3, <3>1
      <3> HIDE DEF i, G
      <3> QED BY <2>1, <2>3, <3>2, ListingPlace
    <2>4. i \in 1 .. Len(s) <=> i \in 1 .. Len(t) BY <2>2, <2>3
    <2>5. ASSUME i \in 1 .. Len(s) PROVE t[i] = s[i]
      <3>1. s[i] \in S /\ t[i] \in S BY <2>4, <2>5
      <3>2. t[i] = s[i] \/ Earlier(t[i], s[i]) BY <2>2, <2>5
      <3>3. t[i] = s[i] \/ Earlier(s[i], t[i]) BY <2>3, <2>4, <2>5
      <3> HIDE DEF i, G
      <3> QED BY <3>1, <3>2, <3>3, EarlierOrder
    <2>6. ASSUME NEW k \in 1 .. i
          PROVE  (k \in 1 .. Len(s) <=> k \in 1 .. Len(t)) /\ (k \in 1 .. Len(s) => t[k] = s[k])
      <3>1. CASE k = i BY <2>4, <2>5, <3>1
      <3>2. CASE k \in 1 .. n BY <1>3, <3>2
      <3> HIDE DEF i, G
      <3> QED BY <2>1, <3>1, <3>2
    <2> QED BY <2>6
  <1> HIDE DEF G
  <1>4. Nat \subseteq G BY <1>2, <1>3, CountUp
  <1>5. Len(s) \in G /\ Len(t) \in G BY <1>1, <1>4
  <1>6. Len(s) = Len(t)
    <2>1. Len(s) # 0 => Len(s) \in 1 .. Len(t) BY <1>1, <1>5 DEF G
    <2>2. Len(t) # 0 => Len(t) \in 1 .. Len(s) BY <1>1, <1>5 DEF G
    <2> QED BY <1>1, <2>1, <2>2
  <1>7. \A k \in 1 .. Len(s) : t[k] = s[k] BY <1>5 DEF G
  <1> QED BY <1>1, <1>6, <1>7

\* InOrder gives it.
LEMMA InOrderOf ==
    ASSUME NEW S, Sortable(S), NEW s \in Seq(S), Ascending(s), ToSet(s) = S
    PROVE  InOrder(S) = s
  <1>1. /\ InOrder(S) \in Seq(S) /\ Ascending(InOrder(S)) /\ ToSet(InOrder(S)) = S
    BY InOrderFacts
  <1> QED BY <1>1, ListingUnique

-----------------------------------------------------------------------------
(* Loops: a function of the rounds exists if a round leads from S to S.    *)

\* f[k] is the state after k rounds.
Rounds(f, S, first, step, n) ==
    /\ f \in [0 .. n -> S] /\ f[0] = first
    /\ \A k \in 1 .. n : f[k] = step[f[k - 1]]

\* Round after round.
LEMMA RoundsExist ==
    ASSUME NEW S, NEW first \in S, NEW step \in [S -> S], NEW n \in Nat
    PROVE  \E f : Rounds(f, S, first, step, n)
  <1> DEFINE G == {k \in Nat : \E f \in [0 .. k -> S] :
                       f[0] = first /\ \A i \in 1 .. k : f[i] = step[f[i - 1]]}
  <1>1. 0 \in G
    <2> DEFINE f == [i \in 0 .. 0 |-> first]
    <2>1. f \in [0 .. 0 -> S] /\ f[0] = first OBVIOUS
    <2> HIDE DEF f
    <2> QED BY <2>1
  <1>2. ASSUME NEW k \in Nat, k \in G PROVE k + 1 \in G
    <2>1. PICK f \in [0 .. k -> S] : f[0] = first /\ \A i \in 1 .. k : f[i] = step[f[i - 1]]
      BY <1>2
    <2> DEFINE g == [i \in 0 .. k + 1 |-> IF i = k + 1 THEN step[f[k]] ELSE f[i]]
    <2>2. \A i \in 0 .. k + 1 : i = k + 1 \/ i \in 0 .. k OBVIOUS
    <2>3. \A i \in 0 .. k : i \in 0 .. k + 1 /\ i # k + 1 OBVIOUS
    <2>4. k + 1 \in 0 .. k + 1 /\ k \in 0 .. k /\ 0 \in 0 .. k /\ (k + 1) - 1 = k OBVIOUS
    <2>5. g \in [0 .. k + 1 -> S] BY <2>2, <2>4
    <2>6. g[k + 1] = step[f[k]] /\ \A i \in 0 .. k : g[i] = f[i] BY <2>3, <2>4
    <2> HIDE DEF g
    <2>7. ASSUME NEW i \in 1 .. k + 1 PROVE g[i] = step[g[i - 1]]
      <3>1. CASE i = k + 1 BY <2>4, <2>6, <3>1
      <3>2. CASE i # k + 1
        <4>1. i \in 1 .. k /\ i \in 0 .. k /\ i - 1 \in 0 .. k BY <3>2
        <4> QED BY <2>1, <2>6, <4>1
      <3> QED BY <3>1, <3>2
    <2>8. g[0] = first BY <2>1, <2>4, <2>6
    <2> QED BY <2>5, <2>7, <2>8
  <1> HIDE DEF G
  <1>3. Nat \subseteq G BY <1>1, <1>2, CountUp
  <1> QED BY <1>3 DEF G, Rounds

-----------------------------------------------------------------------------
(* PartitionPoint counts the rows of the part that comes first.            *)

\* The search is between l and r, in as many rounds as there are rows.
Searched(part, N, w, k) ==
    /\ w \in [l : 0 .. N, r : 0 .. N]
    /\ w.l <= w.r /\ w.r - w.l <= N - k
    /\ \A i \in 1 .. N : (i <= w.l => part[i]) /\ (i > w.r => ~part[i])

\* A round halves what is left.
LEMMA SearchNext ==
    ASSUME NEW N \in Nat, NEW part \in [1 .. N -> BOOLEAN],
           \A i, j \in 1 .. N : i < j /\ part[j] => part[i],
           NEW k \in Nat, k + 1 <= N, NEW w, Searched(part, N, w, k)
    PROVE  Searched(part, N, SearchRound(part, w), k + 1)
  <1> DEFINE mid == w.l + (w.r - w.l) \div 2
             v == SearchRound(part, w)
  <1>1. w \in [l : 0 .. N, r : 0 .. N] /\ w.l <= w.r /\ w.r - w.l <= N - k BY DEF Searched
  <1>2. w.l \in 0 .. N /\ w.r \in 0 .. N BY <1>1
  <1>3. CASE w.l >= w.r
    <2>1. v = w BY <1>3 DEF SearchRound
    <2>2. w.r - w.l <= N - (k + 1) BY <1>1, <1>2, <1>3
    <2> QED BY <2>1, <2>2 DEF Searched
  <1>4. CASE w.l < w.r
    <2>1. mid \in Nat /\ w.l <= mid /\ mid < w.r BY <1>2, <1>4
    <2>2. ~(w.l >= w.r) BY <1>2, <1>4
    <2> HIDE DEF mid
    <2>3. mid + 1 \in 1 .. N BY <1>2, <2>1
    <2>4. CASE part[mid + 1]
      <3>1. v = [l |-> mid + 1, r |-> w.r] BY <2>2, <2>4 DEF SearchRound, mid
      <3>2. v \in [l : 0 .. N, r : 0 .. N] /\ v.l = mid + 1 /\ v.r = w.r BY <1>2, <2>3, <3>1
      <3>3. v.l <= v.r /\ v.r - v.l <= N - (k + 1) BY <1>1, <1>2, <2>1, <3>2
      <3>4. ASSUME NEW i \in 1 .. N, i <= v.l PROVE part[i]
        <4>1. i = mid + 1 \/ i < mid + 1 BY <2>1, <3>2, <3>4
        <4> QED BY <2>3, <2>4, <4>1
      <3>5. \A i \in 1 .. N : i > v.r => ~part[i] BY <3>2 DEF Searched
      <3> QED BY <3>2, <3>3, <3>4, <3>5 DEF Searched
    <2>5. CASE ~part[mid + 1]
      <3>1. v = [l |-> w.l, r |-> mid] BY <2>2, <2>5 DEF SearchRound, mid
      <3>2. mid \in 0 .. N BY <1>2, <2>1
      <3>3. v \in [l : 0 .. N, r : 0 .. N] /\ v.l = w.l /\ v.r = mid BY <1>2, <3>1, <3>2
      <3>4. v.l <= v.r /\ v.r - v.l <= N - (k + 1) BY <1>1, <1>2, <2>1, <3>3
      <3>5. ASSUME NEW i \in 1 .. N, i > v.r PROVE ~part[i]
        <4>1. i = mid + 1 \/ mid + 1 < i BY <2>1, <3>3, <3>5
        <4> QED BY <2>3, <2>5, <4>1
      <3>6. \A i \in 1 .. N : i <= v.l => part[i] BY <3>3 DEF Searched
      <3> QED BY <3>3, <3>4, <3>5, <3>6 DEF Searched
    <2> QED BY <2>4, <2>5
  <1> QED BY <1>2, <1>3, <1>4

\* The rounds of a search.
SearchRounds(part, f) ==
    f = [n \in 0 .. Len(part) |->
            IF n = 0 THEN [l |-> 0, r |-> Len(part)] ELSE SearchRound(part, f[n - 1])]

\* They exist.
LEMMA SearchExists == ASSUME NEW part \in Seq(BOOLEAN) PROVE \E f : SearchRounds(part, f)
  <1> DEFINE N == Len(part)
             S == [l : 0 .. N, r : 0 .. N]
             step == [w \in S |-> SearchRound(part, w)]
             first == [l |-> 0, r |-> N]
  <1>1. N \in Nat /\ first \in S OBVIOUS
  <1>2. ASSUME NEW w \in S PROVE SearchRound(part, w) \in S
    <2>1. w.l \in 0 .. N /\ w.r \in 0 .. N OBVIOUS
    <2> DEFINE mid == w.l + (w.r - w.l) \div 2
    <2>2. w.l < w.r => mid \in 0 .. N /\ mid + 1 \in 0 .. N BY <1>1, <2>1
    <2>3. w.l < w.r \/ w.l >= w.r BY <2>1
    <2> HIDE DEF N
    <2>4. w.l >= w.r => SearchRound(part, w) = w BY DEF SearchRound
    <2>5. ~(w.l >= w.r) => \/ SearchRound(part, w) = [l |-> mid + 1, r |-> w.r]
                           \/ SearchRound(part, w) = [l |-> w.l, r |-> mid]
      BY DEF SearchRound
    <2> HIDE DEF mid
    <2> QED BY <2>1, <2>2, <2>3, <2>4, <2>5
  <1>3. step \in [S -> S] BY <1>2
  <1> HIDE DEF N, S, step, first
  <1>4. PICK f : Rounds(f, S, first, step, N) BY ONLY <1>1, <1>3, RoundsExist
  <1>5. \A w \in S : step[w] = SearchRound(part, w) BY DEF step
  <1>6. ASSUME NEW n \in 0 .. N
        PROVE  f[n] = IF n = 0 THEN first ELSE SearchRound(part, f[n - 1])
    <2>1. CASE n = 0 BY <1>4, <2>1 DEF Rounds
    <2>2. CASE n # 0
      <3>1. n \in 1 .. N /\ n - 1 \in 0 .. N BY <1>1, <2>2
      <3>2. f[n - 1] \in S BY <1>4, <3>1 DEF Rounds
      <3> QED BY <1>4, <1>5, <2>2, <3>1, <3>2 DEF Rounds
    <2> QED BY <2>1, <2>2
  <1>7. f = [n \in 0 .. N |-> IF n = 0 THEN first ELSE SearchRound(part, f[n - 1])]
    BY <1>4, <1>6 DEF Rounds
  <1> QED BY <1>7 DEF SearchRounds, first, N

\* The rows of the part are those up to the partition point.
LEMMA PartitionPointFacts ==
    ASSUME NEW part \in Seq(BOOLEAN),
           \A i, j \in 1 .. Len(part) : i < j /\ part[j] => part[i]
    PROVE  /\ PartitionPoint(part) \in 0 .. Len(part)
           /\ \A i \in 1 .. Len(part) : part[i] <=> i <= PartitionPoint(part)
  <1> DEFINE N == Len(part)
             f == CHOOSE g : SearchRounds(part, g)
             G == {k \in Nat : k <= N => Searched(part, N, f[k], k)}
  <1>1. SearchRounds(part, f) BY SearchExists
  <1>2. PartitionPoint(part) = f[N].l BY DEF PartitionPoint, SearchRounds
  <1>3. N \in Nat /\ part \in [1 .. N -> BOOLEAN] OBVIOUS
  <1> HIDE DEF f
  <1>4. 0 \in G
    <2>1. f[0] = [l |-> 0, r |-> N] BY <1>1, <1>3 DEF SearchRounds
    <2>2. 0 \in 0 .. N /\ N \in 0 .. N /\ \A i \in 1 .. N : ~(i <= 0) /\ ~(i > N) BY <1>3
    <2>3. Searched(part, N, f[0], 0)
      <3> HIDE DEF N
      <3> QED BY <1>3, <2>1, <2>2 DEF Searched
    <2> QED BY <2>3
  <1>5. ASSUME NEW k \in Nat, k \in G PROVE k + 1 \in G
    <2> SUFFICES ASSUME k + 1 <= N PROVE Searched(part, N, f[k + 1], k + 1) OBVIOUS
    <2>1. k + 1 \in 0 .. N /\ k + 1 # 0 /\ (k + 1) - 1 = k /\ k <= N BY <1>3
    <2>2. f[k + 1] = SearchRound(part, f[k]) BY <1>1, <2>1 DEF SearchRounds
    <2>3. Searched(part, N, f[k], k) BY <1>5, <2>1
    <2> HIDE DEF N, G
    <2>4. \A i, j \in 1 .. N : i < j /\ part[j] => part[i] BY DEF N
    <2> QED BY <1>3, <2>2, <2>3, <2>4, SearchNext
  <1> HIDE DEF G
  <1>6. Nat \subseteq G BY <1>4, <1>5, CountUp
  <1>7. Searched(part, N, f[N], N) BY <1>3, <1>6 DEF G
  <1>8. f[N].l \in 0 .. N /\ f[N].r \in 0 .. N /\ f[N].l = f[N].r
    <2> HIDE DEF N
    <2>1. f[N].l \in 0 .. N /\ f[N].r \in 0 .. N /\ f[N].l <= f[N].r /\ f[N].r - f[N].l <= N - N
      BY <1>7 DEF Searched
    <2> QED BY <1>3, <2>1
  <1>9. ASSUME NEW i \in 1 .. N PROVE part[i] <=> i <= f[N].l
    <2> HIDE DEF N
    <2>1. (i <= f[N].l => part[i]) /\ (i > f[N].r => ~part[i]) BY <1>7 DEF Searched
    <2> QED BY <1>3, <1>8, <2>1
  <1> QED BY <1>2, <1>8, <1>9

-----------------------------------------------------------------------------
(* Rows in the order of time.                                              *)

\* The timestamps grow.
InTime(s) == \A i, j \in DOMAIN s : i < j => s[i].timestamp_ms < s[j].timestamp_ms

\* Of samples of one time, the one that arrived last.
LastOnes(S) ==
    {x \in S : \A y \in S : y.timestamp_ms = x.timestamp_ms => y.seq_no <= x.seq_no}

\* Rows in the order of time are what InOrder lists.
LEMMA InTimeListing ==
    ASSUME NEW S, Sortable(S), NEW s \in Seq(S), InTime(s), ToSet(s) = S
    PROVE  s = InOrder(S)
  <1>1. Ascending(s) BY DEF Ascending, InTime, Earlier
  <1> QED BY <1>1, InOrderOf

\* One sample of each time, in their order.
LEMMA OneOfEach ==
    ASSUME NEW S, Sortable(S), \A x, y \in S : x.timestamp_ms = y.timestamp_ms => x = y
    PROVE  InTime(InOrder(S))
  <1>1. InOrder(S) \in Seq(S) /\ Ascending(InOrder(S)) BY InOrderFacts
  <1> DEFINE s == InOrder(S)
  <1> HIDE DEF s
  <1>2. s \in Seq(S) /\ Ascending(s) BY <1>1 DEF s
  <1>3. ASSUME NEW i \in DOMAIN s, NEW j \in DOMAIN s, i < j
        PROVE  s[i].timestamp_ms < s[j].timestamp_ms
    <2>1. s[i] \in S /\ s[j] \in S BY <1>2
    <2>2. Earlier(s[i], s[j]) BY <1>2, <1>3 DEF Ascending
    <2>3. s[i] # s[j] BY <2>1, <2>2, EarlierOrder
    <2> QED BY <2>1, <2>2, <2>3 DEF Earlier
  <1>4. InTime(s) BY <1>3 DEF InTime
  <1> QED BY <1>4 DEF s

\* Prepared has the last samples of each time, in the order of time.
LEMMA PreparedFacts ==
    ASSUME NEW samples, Sortable(ToSet(samples))
    PROVE  /\ Prepared(samples) \in Seq(ToSet(samples)) /\ InTime(Prepared(samples))
           /\ ToSet(Prepared(samples)) = LastOnes(ToSet(samples))
  <1> DEFINE S == ToSet(samples)
             s == InOrder(S)
             L == Len(s)
             K == {s[i] : i \in {k \in DOMAIN s :
                       k = Len(s) \/ s[k + 1].timestamp_ms # s[k].timestamp_ms}}
             r == Retained(s, K)
  <1> HIDE DEF S
  <1>1. Sortable(S) BY DEF S
  <1>2. s \in Seq(S) /\ Ascending(s) /\ ToSet(s) = S /\ DOMAIN s = 1 .. L
    BY <1>1, InOrderFacts
  <1>3. Prepared(samples) = r BY DEF Prepared, S
  <1> HIDE DEF s, r
  <1>4. L \in Nat BY <1>2
  <1>5. \A i \in 1 .. L : s[i] \in S BY <1>2
  <1>6. ASSUME NEW k \in 1 .. L, NEW j \in 1 .. L,
               k = L \/ s[k + 1].timestamp_ms # s[k].timestamp_ms,
               s[j].timestamp_ms = s[k].timestamp_ms
        PROVE  s[j].seq_no <= s[k].seq_no
    <2> HIDE DEF K
    <2>1. s[j] \in S /\ s[k] \in S BY <1>5
    <2>2. CASE j = k BY <1>1, <2>1, <2>2 DEF Sortable
    <2>3. CASE j < k
      <3>1. Earlier(s[j], s[k]) BY <1>2, <2>3 DEF Ascending
      <3> QED BY <1>1, <1>6, <2>1, <3>1 DEF Sortable, Earlier
    <2>4. CASE k < j
      <3>1. k # L /\ k + 1 \in 1 .. L /\ k < k + 1 /\ (k + 1 = j \/ k + 1 < j)
        BY <1>4, <2>4
      <3>2. Earlier(s[k], s[k + 1]) BY <1>2, <3>1 DEF Ascending
      <3>3. s[k + 1] = s[j] \/ Earlier(s[k + 1], s[j]) BY <1>2, <3>1 DEF Ascending
      <3>4. s[k + 1] \in S BY <1>5, <3>1
      <3>5. s[k + 1].timestamp_ms # s[k].timestamp_ms BY <1>6, <3>1
      <3>6. /\ s[k].timestamp_ms \in Int /\ s[k + 1].timestamp_ms \in Int
            /\ s[j].timestamp_ms \in Int
        BY <1>1, <2>1, <3>4 DEF Sortable
      <3> QED BY <1>6, <3>2, <3>3, <3>5, <3>6 DEF Earlier
    <2> QED BY <1>4, <2>2, <2>3, <2>4
  <1>7. K = LastOnes(S)
    <2>1. ASSUME NEW x \in K PROVE x \in LastOnes(S)
      <3>1. PICK k \in 1 .. L : s[k] = x /\ (k = L \/ s[k + 1].timestamp_ms # s[k].timestamp_ms)
        BY <1>2, <2>1
      <3>2. x \in S BY <1>5, <3>1
      <3>3. ASSUME NEW y \in S, y.timestamp_ms = x.timestamp_ms PROVE y.seq_no <= x.seq_no
        <4>1. PICK j \in 1 .. L : s[j] = y BY <1>2 DEF ToSet
        <4> HIDE DEF K
        <4> QED BY <1>6, <3>1, <3>3, <4>1
      <3> QED BY <3>2, <3>3 DEF LastOnes
    <2>2. ASSUME NEW x \in LastOnes(S) PROVE x \in K
      <3>1. x \in S /\ \A y \in S : y.timestamp_ms = x.timestamp_ms => y.seq_no <= x.seq_no
        BY DEF LastOnes
      <3>2. PICK k \in 1 .. L : s[k] = x BY <1>2, <3>1 DEF ToSet
      <3>3. k = L \/ s[k + 1].timestamp_ms # s[k].timestamp_ms
        <4> SUFFICES ASSUME k # L, s[k + 1].timestamp_ms = s[k].timestamp_ms PROVE FALSE
          OBVIOUS
        <4>1. k + 1 \in 1 .. L /\ k < k + 1 BY <1>4
        <4>2. Earlier(s[k], s[k + 1]) /\ s[k + 1] \in S BY <1>2, <1>5, <4>1 DEF Ascending
        <4>3. s[k + 1].seq_no <= x.seq_no BY <3>1, <3>2, <4>2
        <4> QED BY <1>1, <3>1, <3>2, <4>2, <4>3 DEF Sortable, Earlier
      <3> QED BY <1>2, <3>2, <3>3
    <2> QED BY <2>1, <2>2
  <1> HIDE DEF K
  <1>8. PICK h : r \in Seq(S) /\ Selects(h, r, s, K, L)
    BY <1>2, RetainedFacts DEF r
  <1>9. r \in Seq(S) /\ DOMAIN r = 1 .. Len(r) BY <1>8
  <1>10. ToSet(r) = LastOnes(S)
    <2>1. ASSUME NEW x \in ToSet(r) PROVE x \in K
      <3>1. PICK i \in 1 .. Len(r) : r[i] = x BY <1>9 DEF ToSet
      <3> QED BY <1>8, <3>1 DEF Selects
    <2>2. ASSUME NEW x \in K PROVE x \in ToSet(r)
      <3>1. x \in S BY <1>7 DEF LastOnes
      <3>2. PICK k \in 1 .. L : s[k] = x BY <1>2, <3>1 DEF ToSet
      <3>3. PICK i \in 1 .. Len(r) : h[i] = k BY <1>8, <3>2 DEF Selects
      <3>4. r[i] = x BY <1>8, <3>2, <3>3 DEF Selects
      <3> QED BY <1>9, <3>4 DEF ToSet
    <2> QED BY <1>7, <2>1, <2>2
  <1>11. ASSUME NEW i \in 1 .. Len(r), NEW j \in 1 .. Len(r), i < j
         PROVE  r[i].timestamp_ms < r[j].timestamp_ms
    <2>1. /\ h[i] \in 1 .. L /\ h[j] \in 1 .. L /\ h[i] < h[j]
          /\ r[i] = s[h[i]] /\ r[j] = s[h[j]] /\ r[i] \in K
      BY <1>8, <1>11 DEF Selects
    <2>2. Earlier(r[i], r[j]) BY <1>2, <2>1 DEF Ascending
    <2>3. r[i] \in S /\ r[j] \in S BY <1>9
    <2>4. r[j].timestamp_ms = r[i].timestamp_ms => r[j].seq_no <= r[i].seq_no
      BY <1>7, <2>1, <2>3 DEF LastOnes
    <2> QED BY <1>1, <2>2, <2>3, <2>4 DEF Sortable, Earlier
  <1>12. InTime(r) BY <1>9, <1>11 DEF InTime
  <1> QED BY <1>3, <1>9, <1>10, <1>12 DEF S

\* Slice has the rows of the range, or the first of them.
LEMMA SliceFacts ==
    ASSUME NEW P, NEW rows \in Seq(P), \A x \in P : x.timestamp_ms \in Int, InTime(rows),
           NEW a \in Int, NEW b \in Int, a <= b, NEW n
    PROVE  \E f \in Seq(P) :
               /\ InTime(f) /\ Slice(rows, a, b, n) = Truncate(f, n)
               /\ ToSet(f) = {x \in ToSet(rows) : a <= x.timestamp_ms /\ x.timestamp_ms <= b}
  <1> DEFINE N == Len(rows)
             below == [i \in DOMAIN rows |-> rows[i].timestamp_ms < a]
             upto == [i \in DOMAIN rows |-> rows[i].timestamp_ms <= b]
             p == PartitionPoint(below)
             q == PartitionPoint(upto)
             f == SubSeq(rows, p + 1, q)
  <1>1. N \in Nat /\ DOMAIN rows = 1 .. N OBVIOUS
  <1>2. \A i \in 1 .. N : rows[i] \in P /\ rows[i].timestamp_ms \in Int OBVIOUS
  <1>3. \A i, j \in 1 .. N : i < j => rows[i].timestamp_ms < rows[j].timestamp_ms
    BY <1>1 DEF InTime
  <1>4. p \in 0 .. N /\ \A i \in 1 .. N : rows[i].timestamp_ms < a <=> i <= p
    <2>1. below \in Seq(BOOLEAN) /\ Len(below) = N BY <1>1
    <2>2. \A i \in 1 .. N : below[i] <=> rows[i].timestamp_ms < a BY <1>1
    <2> HIDE DEF below, N
    <2>3. ASSUME NEW i \in 1 .. N, NEW j \in 1 .. N, i < j, below[j] PROVE below[i]
      <3>1. rows[i].timestamp_ms < rows[j].timestamp_ms BY <1>3, <2>3
      <3>2. rows[i].timestamp_ms \in Int /\ rows[j].timestamp_ms \in Int BY <1>2
      <3>3. rows[j].timestamp_ms < a BY <2>2, <2>3, Zenon
      <3>4. rows[i].timestamp_ms < a BY <3>1, <3>2, <3>3
      <3> QED BY <2>2, <3>4, Zenon
    <2>4. /\ p \in 0 .. Len(below)
          /\ \A i \in 1 .. Len(below) : below[i] <=> i <= p
      BY <2>1, <2>3, PartitionPointFacts
    <2> QED BY <2>1, <2>2, <2>4
  <1>5. q \in 0 .. N /\ \A i \in 1 .. N : rows[i].timestamp_ms <= b <=> i <= q
    <2>1. upto \in Seq(BOOLEAN) /\ Len(upto) = N BY <1>1
    <2>2. \A i \in 1 .. N : upto[i] <=> rows[i].timestamp_ms <= b BY <1>1
    <2> HIDE DEF upto, N
    <2>3. ASSUME NEW i \in 1 .. N, NEW j \in 1 .. N, i < j, upto[j] PROVE upto[i]
      <3>1. rows[i].timestamp_ms < rows[j].timestamp_ms BY <1>3, <2>3
      <3>2. rows[i].timestamp_ms \in Int /\ rows[j].timestamp_ms \in Int BY <1>2
      <3>3. rows[j].timestamp_ms <= b BY <2>2, <2>3, Zenon
      <3>4. rows[i].timestamp_ms <= b BY <3>1, <3>2, <3>3
      <3> QED BY <2>2, <3>4, Zenon
    <2>4. /\ q \in 0 .. Len(upto)
          /\ \A i \in 1 .. Len(upto) : upto[i] <=> i <= q
      BY <2>1, <2>3, PartitionPointFacts
    <2> QED BY <2>1, <2>2, <2>4
  <1>6. Slice(rows, a, b, n) = Truncate(f, n) BY DEF Slice
  <1> HIDE DEF p, q
  <1>7. p <= q
    <2>1. CASE p = 0 BY <1>4, <1>5, <2>1
    <2>2. CASE p \in 1 .. N
      <3>1. rows[p].timestamp_ms < a BY <1>4, <2>2
      <3>2. rows[p].timestamp_ms <= b BY <1>2, <2>2, <3>1
      <3> QED BY <1>5, <2>2, <3>2
    <2> QED BY <1>4, <2>1, <2>2
  <1>8. f \in Seq(P) /\ Len(f) = q - p /\ \A k \in 1 .. q - p : f[k] = rows[p + k]
    <2>1. p + 1 \in 1 .. N + 1 /\ q \in 0 .. N /\ p \in 0 .. N BY <1>1, <1>4, <1>5
    <2> QED BY <1>1, <1>7, <2>1
  <1> HIDE DEF f, N
  <1>9. DOMAIN f = 1 .. q - p BY <1>8
  <1>10. \A k \in 1 .. q - p : p + k \in 1 .. N /\ p + k <= q /\ ~(p + k <= p)
    BY <1>1, <1>4, <1>5
  <1>11. InTime(f)
    <2> SUFFICES ASSUME NEW i \in 1 .. q - p, NEW j \in 1 .. q - p, i < j
                 PROVE  f[i].timestamp_ms < f[j].timestamp_ms
      BY <1>9 DEF InTime
    <2>1. p + i < p + j BY <1>4, <1>5
    <2> QED BY <1>3, <1>8, <1>10, <2>1
  <1>12. ToSet(f) = {x \in ToSet(rows) : a <= x.timestamp_ms /\ x.timestamp_ms <= b}
    <2>1. ASSUME NEW x \in ToSet(f)
          PROVE  x \in ToSet(rows) /\ a <= x.timestamp_ms /\ x.timestamp_ms <= b
      <3>1. PICK k \in 1 .. q - p : x = f[k] BY <1>9 DEF ToSet
      <3>2. x = rows[p + k] /\ p + k \in 1 .. N BY <1>8, <1>10, <3>1
      <3>3. ~(x.timestamp_ms < a) /\ x.timestamp_ms <= b BY <1>4, <1>5, <1>10, <3>2
      <3>4. x.timestamp_ms \in Int BY <1>2, <3>2
      <3>5. x \in ToSet(rows) BY <1>1, <3>2 DEF ToSet
      <3> QED BY <3>3, <3>4, <3>5
    <2>2. ASSUME NEW x \in ToSet(rows), a <= x.timestamp_ms, x.timestamp_ms <= b
          PROVE  x \in ToSet(f)
      <3>1. PICK i \in 1 .. N : x = rows[i] BY <1>1 DEF ToSet
      <3>2. x.timestamp_ms \in Int BY <1>2, <3>1
      <3>3. ~(i <= p) /\ i <= q BY <1>4, <1>5, <2>2, <3>1, <3>2
      <3>4. i - p \in 1 .. q - p /\ p + (i - p) = i BY <1>4, <1>5, <3>3
      <3>5. f[i - p] = x BY <1>8, <3>1, <3>4
      <3> QED BY <1>9, <3>4, <3>5 DEF ToSet
    <2> QED BY <2>1, <2>2
  <1> QED BY <1>6, <1>8, <1>11, <1>12

-----------------------------------------------------------------------------
(* Merge.                                                                  *)

\* One row more.
LEMMA AppendFacts ==
    ASSUME NEW P, NEW s \in Seq(P), NEW x \in P
    PROVE  /\ Append(s, x) \in Seq(P) /\ ToSet(Append(s, x)) = ToSet(s) \union {x}
           /\ InTime(s) /\ (\A y \in ToSet(s) : y.timestamp_ms < x.timestamp_ms)
                  => InTime(Append(s, x))
  <1> DEFINE n == Len(s)
             r == Append(s, x)
  <1>1. n \in Nat /\ DOMAIN s = 1 .. n OBVIOUS
  <1>2. r \in Seq(P) /\ DOMAIN r = 1 .. n + 1 OBVIOUS
  <1>3. r[n + 1] = x /\ \A i \in 1 .. n : r[i] = s[i] OBVIOUS
  <1> HIDE DEF n, r
  <1>4. /\ \A i \in 1 .. n + 1 : i = n + 1 \/ i \in 1 .. n
        /\ \A i \in 1 .. n : i \in 1 .. n + 1
        /\ n + 1 \in 1 .. n + 1
    BY <1>1
  <1>5. ToSet(r) = ToSet(s) \union {x} BY <1>1, <1>2, <1>3, <1>4 DEF ToSet
  <1>6. ASSUME InTime(s), \A y \in ToSet(s) : y.timestamp_ms < x.timestamp_ms,
               NEW i \in 1 .. n + 1, NEW j \in 1 .. n + 1, i < j
        PROVE  r[i].timestamp_ms < r[j].timestamp_ms
    <2>1. i \in 1 .. n BY <1>1, <1>6
    <2>2. CASE j = n + 1
      <3>1. s[i] \in ToSet(s) BY <1>1, <2>1 DEF ToSet
      <3> QED BY <1>3, <1>6, <2>1, <2>2, <3>1
    <2>3. CASE j \in 1 .. n BY <1>1, <1>3, <1>6, <2>1, <2>3 DEF InTime
    <2> QED BY <1>4, <2>2, <2>3
  <1>7. InTime(s) /\ (\A y \in ToSet(s) : y.timestamp_ms < x.timestamp_ms) => InTime(r)
    BY <1>2, <1>6 DEF InTime
  <1> QED BY <1>2, <1>5, <1>7 DEF r

\* Rows after rows.
LEMMA ConcatFacts ==
    ASSUME NEW P, NEW s \in Seq(P), NEW t \in Seq(P)
    PROVE  /\ s \o t \in Seq(P) /\ ToSet(s \o t) = ToSet(s) \union ToSet(t)
           /\ InTime(s) /\ InTime(t)
                /\ (\A y \in ToSet(s), z \in ToSet(t) : y.timestamp_ms < z.timestamp_ms)
                  => InTime(s \o t)
  <1> DEFINE n == Len(s)
             m == Len(t)
             r == s \o t
  <1>1. n \in Nat /\ m \in Nat /\ DOMAIN s = 1 .. n /\ DOMAIN t = 1 .. m OBVIOUS
  <1>2. r \in Seq(P) /\ DOMAIN r = 1 .. n + m OBVIOUS
  <1>3. /\ \A i \in 1 .. n : r[i] = s[i] /\ i \in 1 .. n + m
        /\ \A i \in 1 .. m : r[n + i] = t[i] /\ n + i \in 1 .. n + m
        /\ \A i \in 1 .. n + m : i \in 1 .. n \/ (i - n \in 1 .. m /\ r[i] = t[i - n])
    OBVIOUS
  <1> HIDE DEF n, m, r
  <1>4. ToSet(r) = ToSet(s) \union ToSet(t)
    <2>1. ASSUME NEW x \in ToSet(r) PROVE x \in ToSet(s) \union ToSet(t)
      <3>1. PICK i \in 1 .. n + m : r[i] = x BY <1>2 DEF ToSet
      <3> QED BY <1>1, <1>3, <3>1 DEF ToSet
    <2>2. ASSUME NEW x \in ToSet(s) \union ToSet(t) PROVE x \in ToSet(r)
      <3>1. \/ \E i \in 1 .. n : s[i] = x
            \/ \E i \in 1 .. m : t[i] = x
        BY <1>1 DEF ToSet
      <3> QED BY <1>2, <1>3, <3>1 DEF ToSet
    <2> QED BY <2>1, <2>2
  <1>5. ASSUME InTime(s), InTime(t),
               \A y \in ToSet(s), z \in ToSet(t) : y.timestamp_ms < z.timestamp_ms,
               NEW i \in 1 .. n + m, NEW j \in 1 .. n + m, i < j
        PROVE  r[i].timestamp_ms < r[j].timestamp_ms
    <2>1. CASE i \in 1 .. n /\ j \in 1 .. n BY <1>1, <1>3, <1>5, <2>1 DEF InTime
    <2>2. CASE i \in 1 .. n /\ j - n \in 1 .. m /\ r[j] = t[j - n]
      <3>1. s[i] \in ToSet(s) /\ t[j - n] \in ToSet(t) BY <1>1, <2>2 DEF ToSet
      <3> QED BY <1>3, <1>5, <2>2, <3>1
    <2>3. CASE i - n \in 1 .. m /\ r[i] = t[i - n] /\ j - n \in 1 .. m /\ r[j] = t[j - n]
      <3>1. i - n < j - n BY <1>1, <1>5
      <3> QED BY <1>1, <1>5, <2>3, <3>1 DEF InTime
    <2>4. ~(i - n \in 1 .. m /\ j \in 1 .. n) BY <1>1, <1>5
    <2> QED BY <1>3, <2>1, <2>2, <2>3, <2>4
  <1>6. InTime(s) /\ InTime(t)
           /\ (\A y \in ToSet(s), z \in ToSet(t) : y.timestamp_ms < z.timestamp_ms)
             => InTime(r)
    BY <1>2, <1>5 DEF InTime
  <1> QED BY <1>2, <1>4, <1>6 DEF r

\* The rows from the i-th on.
LEMMA RestFacts ==
    ASSUME NEW P, NEW s \in Seq(P), NEW i \in 1 .. Len(s) + 1
    PROVE  LET r == SubSeq(s, i, Len(s))
           IN  /\ r \in Seq(P)
               /\ \A x : x \in ToSet(r) <=> \E k \in i .. Len(s) : s[k] = x
               /\ InTime(s) => InTime(r)
  <1> DEFINE n == Len(s)
             r == SubSeq(s, i, n)
  <1>1. n \in Nat /\ DOMAIN s = 1 .. n /\ i \in Nat /\ i >= 1 /\ i <= n + 1 OBVIOUS
  <1>2. r \in Seq(P) /\ DOMAIN r = 1 .. n + 1 - i OBVIOUS
  <1>3. /\ \A k \in 1 .. n + 1 - i : r[k] = s[k + i - 1] /\ k + i - 1 \in i .. n
        /\ \A k \in i .. n : k + 1 - i \in 1 .. n + 1 - i /\ r[k + 1 - i] = s[k]
    OBVIOUS
  <1> HIDE DEF n, r
  <1>4. \A x : x \in ToSet(r) <=> \E k \in i .. n : s[k] = x
    <2> TAKE x
    <2>1. ASSUME x \in ToSet(r) PROVE \E k \in i .. n : s[k] = x
      <3>1. PICK k \in 1 .. n + 1 - i : r[k] = x BY <1>2, <2>1 DEF ToSet
      <3> QED BY <1>3, <3>1
    <2>2. ASSUME NEW k \in i .. n, s[k] = x PROVE x \in ToSet(r)
      BY <1>2, <1>3, <2>2 DEF ToSet
    <2> QED BY <2>1, <2>2
  <1>5. ASSUME InTime(s), NEW j \in 1 .. n + 1 - i, NEW k \in 1 .. n + 1 - i, j < k
        PROVE  r[j].timestamp_ms < r[k].timestamp_ms
    <2>1. j + i - 1 < k + i - 1 /\ j + i - 1 \in 1 .. n /\ k + i - 1 \in 1 .. n
      BY <1>1, <1>5
    <2> QED BY <1>1, <1>3, <1>5, <2>1 DEF InTime
  <1>6. InTime(s) => InTime(r) BY <1>2, <1>5 DEF InTime
  <1> QED BY <1>2, <1>4, <1>6 DEF r, n

\* What is before the iterators of a merge: the rows of mem are in the result, and
\* those of disk that are of no time that mem has; unless one is at its end, n rows.
MergeStates(P, disk, mem) == [i : 1 .. Len(disk) + 1, j : 1 .. Len(mem) + 1, rows : Seq(P)]
Passed(s, i) == {s[k] : k \in 1 .. i - 1}
HasTime(S, x) == \E y \in S : y.timestamp_ms = x.timestamp_ms
Merging(P, disk, mem, m, n) ==
    /\ m \in MergeStates(P, disk, mem)
    /\ m.i > Len(disk) \/ m.j > Len(mem) \/ n <= m.i - 1 + (m.j - 1)
    /\ ToSet(m.rows) \subseteq Passed(disk, m.i) \union Passed(mem, m.j)
    /\ Passed(mem, m.j) \subseteq ToSet(m.rows)
    /\ \A x \in Passed(disk, m.i) : x \in ToSet(m.rows) \/ HasTime(Passed(mem, m.j), x)

\* If both are in the order of time: all rows are before those at the iterators, and
\* those of disk among them have times that mem does not have.
MergingInTime(disk, mem, m) ==
    /\ InTime(m.rows)
    /\ \A x \in ToSet(m.rows) :
        /\ m.i <= Len(disk) => x.timestamp_ms < disk[m.i].timestamp_ms
        /\ m.j <= Len(mem) => x.timestamp_ms < mem[m.j].timestamp_ms
        /\ x \in ToSet(mem) \/ ~HasTime(ToSet(mem), x)

\* One row more is passed.
LEMMA PassedNext ==
    ASSUME NEW s, NEW i \in Nat \ {0}
    PROVE  Passed(s, i + 1) = Passed(s, i) \union {s[i]}
  <1>1. \A k \in 1 .. i + 1 - 1 : k = i \/ k \in 1 .. i - 1 OBVIOUS
  <1>2. i \in 1 .. i + 1 - 1 /\ \A k \in 1 .. i - 1 : k \in 1 .. i + 1 - 1 OBVIOUS
  <1> QED BY <1>1, <1>2 DEF Passed

\* A round of a merge.
LEMMA MergeNext ==
    ASSUME NEW P, NEW disk \in Seq(P), NEW mem \in Seq(P), \A x \in P : x.timestamp_ms \in Int,
           NEW n \in Nat, NEW m, Merging(P, disk, mem, m, n)
    PROVE  /\ Merging(P, disk, mem, MergeRound(disk, mem, m), n + 1)
           /\ InTime(disk) /\ InTime(mem) /\ MergingInTime(disk, mem, m)
                  => MergingInTime(disk, mem, MergeRound(disk, mem, m))
  <1> DEFINE D == Len(disk)
             M == Len(mem)
             i == m.i
             j == m.j
             v == MergeRound(disk, mem, m)
  <1>1. D \in Nat /\ M \in Nat /\ DOMAIN disk = 1 .. D /\ DOMAIN mem = 1 .. M OBVIOUS
  <1>2. i \in 1 .. D + 1 /\ j \in 1 .. M + 1 /\ m.rows \in Seq(P)
        /\ m = [i |-> i, j |-> j, rows |-> m.rows]
    BY DEF Merging, MergeStates
  <1> HIDE DEF D, M, i, j, v
  <1>3. CASE i > D \/ j > M
    <2>1. v = m BY <1>3 DEF v, MergeRound, D, M, i, j
    <2>2. Merging(P, disk, mem, m, n + 1) BY <1>3 DEF Merging, D, M, i, j
    <2> QED BY <2>1, <2>2 DEF v
  <1>4. CASE ~(i > D \/ j > M)
    <2> DEFINE d == disk[i]
               x == mem[j]
    <2>1. i \in 1 .. D /\ j \in 1 .. M /\ i \in Nat \ {0} /\ j \in Nat \ {0} BY <1>1, <1>2, <1>4
    <2>2. /\ d \in P /\ x \in P /\ d.timestamp_ms \in Int /\ x.timestamp_ms \in Int
          /\ d \in ToSet(disk) /\ x \in ToSet(mem)
      <3>1. d \in P /\ x \in P BY <2>1 DEF D, M
      <3>2. d \in ToSet(disk) /\ x \in ToSet(mem) BY <1>1, <2>1 DEF ToSet
      <3> QED BY <3>1, <3>2
    <2> HIDE DEF d, x
    <2>3. Passed(disk, i + 1) = Passed(disk, i) \union {d}
          /\ Passed(mem, j + 1) = Passed(mem, j) \union {x}
      BY <2>1, PassedNext DEF d, x
    <2>4. /\ n <= i - 1 + (j - 1)
          /\ ToSet(m.rows) \subseteq Passed(disk, i) \union Passed(mem, j)
          /\ Passed(mem, j) \subseteq ToSet(m.rows)
          /\ \A y \in Passed(disk, i) : y \in ToSet(m.rows) \/ HasTime(Passed(mem, j), y)
      BY <1>4 DEF Merging, D, M, i, j
    <2>5. ASSUME InTime(disk), InTime(mem), MergingInTime(disk, mem, m)
          PROVE  /\ InTime(m.rows)
                 /\ \A y \in ToSet(m.rows) : /\ y.timestamp_ms < d.timestamp_ms
                                             /\ y.timestamp_ms < x.timestamp_ms
                                             /\ y \in ToSet(mem) \/ ~HasTime(ToSet(mem), y)
                 /\ \A k \in 1 .. D : k > i => d.timestamp_ms < disk[k].timestamp_ms
                 /\ \A k \in 1 .. M : k > j => x.timestamp_ms < mem[k].timestamp_ms
      <3>1. i <= D /\ j <= M BY <1>1, <2>1
      <3>2. \A k \in 1 .. D : k > i => d.timestamp_ms < disk[k].timestamp_ms
        BY <1>1, <2>1, <2>5 DEF InTime, d
      <3>3. \A k \in 1 .. M : k > j => x.timestamp_ms < mem[k].timestamp_ms
        BY <1>1, <2>1, <2>5 DEF InTime, x
      <3>4. /\ InTime(m.rows)
            /\ \A y \in ToSet(m.rows) : /\ y.timestamp_ms < d.timestamp_ms
                                        /\ y.timestamp_ms < x.timestamp_ms
                                        /\ y \in ToSet(mem) \/ ~HasTime(ToSet(mem), y)
        BY <2>5, <3>1 DEF MergingInTime, D, M, i, j, d, x
      <3> QED BY <3>2, <3>3, <3>4
    <2>6. \A y \in ToSet(m.rows) : y.timestamp_ms \in Int
      <3>1. \A y \in ToSet(m.rows) : y \in P BY <1>2 DEF ToSet
      <3> QED BY <3>1
    <2>7. CASE d.timestamp_ms < x.timestamp_ms
      <3> DEFINE rows == Append(m.rows, d)
      <3>1. v = [i |-> i + 1, j |-> j, rows |-> rows]
        BY <1>4, <2>7 DEF v, MergeRound, D, M, i, j, d, x
      <3>2. rows \in Seq(P) /\ ToSet(rows) = ToSet(m.rows) \union {d}
        BY <1>2, <2>2, AppendFacts
      <3>3. (InTime(m.rows) /\ \A y \in ToSet(m.rows) : y.timestamp_ms < d.timestamp_ms)
            => InTime(rows)
        BY <1>2, <2>2, AppendFacts
      <3> HIDE DEF rows
      <3>4. v.i = i + 1 /\ v.j = j /\ v.rows = rows BY <3>1
      <3>5. v \in [i : 1 .. D + 1, j : 1 .. M + 1, rows : Seq(P)]
        <4>1. i + 1 \in 1 .. D + 1 BY <1>1, <2>1
        <4> QED BY <1>2, <3>1, <3>2, <4>1
      <3>6. n + 1 <= v.i - 1 + (v.j - 1) BY <1>1, <2>1, <2>4, <3>4
      <3>7. /\ ToSet(v.rows) \subseteq Passed(disk, v.i) \union Passed(mem, v.j)
            /\ Passed(mem, v.j) \subseteq ToSet(v.rows)
            /\ \A y \in Passed(disk, v.i) : y \in ToSet(v.rows) \/ HasTime(Passed(mem, v.j), y)
        BY <2>3, <2>4, <3>2, <3>4
      <3>8. Merging(P, disk, mem, v, n + 1)
        BY <3>5, <3>6, <3>7 DEF Merging, MergeStates, D, M
      <3>9. ASSUME InTime(disk), InTime(mem), MergingInTime(disk, mem, m)
            PROVE  MergingInTime(disk, mem, v)
        <4>1. InTime(v.rows) BY <2>5, <3>3, <3>4, <3>9
        <4>2. ASSUME NEW y \in ToSet(v.rows), v.i <= D
              PROVE  y.timestamp_ms < disk[v.i].timestamp_ms
          <5>1. i + 1 \in 1 .. D /\ i + 1 > i BY <1>1, <2>1, <3>4, <4>2
          <5>2. d.timestamp_ms < disk[i + 1].timestamp_ms BY <2>5, <3>9, <5>1
          <5>3. disk[i + 1] \in P BY <5>1 DEF D
          <5>4. y = d \/ (y.timestamp_ms < d.timestamp_ms /\ y.timestamp_ms \in Int)
            BY <2>5, <2>6, <3>2, <3>4, <3>9
          <5> QED BY <2>2, <3>4, <5>2, <5>3, <5>4
        <4>3. ASSUME NEW y \in ToSet(v.rows) PROVE y.timestamp_ms < mem[v.j].timestamp_ms
          <5>1. y = d \/ y.timestamp_ms < x.timestamp_ms BY <2>5, <3>2, <3>4, <3>9
          <5> QED BY <2>7, <3>4, <5>1 DEF x
        <4>4. ~HasTime(ToSet(mem), d)
          <5> SUFFICES ASSUME NEW y \in ToSet(mem), y.timestamp_ms = d.timestamp_ms PROVE FALSE
            BY DEF HasTime
          <5>1. PICK k \in 1 .. M : mem[k] = y BY <1>1 DEF ToSet
          <5>2. CASE k < j
            <6>1. y \in Passed(mem, j) BY <1>1, <2>1, <5>1, <5>2 DEF Passed
            <6>2. y.timestamp_ms < d.timestamp_ms BY <2>4, <2>5, <3>9, <6>1
            <6> QED BY <2>2, <6>2
          <5>3. CASE k = j BY <2>2, <2>7, <5>1, <5>3 DEF x
          <5>4. CASE k > j
            <6>1. x.timestamp_ms < y.timestamp_ms BY <2>5, <3>9, <5>1, <5>4
            <6> QED BY <2>2, <2>7, <6>1
          <5> QED BY <1>1, <2>1, <5>2, <5>3, <5>4
        <4>5. \A y \in ToSet(v.rows) : y \in ToSet(mem) \/ ~HasTime(ToSet(mem), y)
          BY <2>5, <3>2, <3>4, <3>9, <4>4
        <4> QED BY <4>1, <4>2, <4>3, <4>5 DEF MergingInTime, D
      <3> QED BY <3>8, <3>9 DEF v
    <2>8. CASE ~(d.timestamp_ms < x.timestamp_ms)
      <3> DEFINE rows == Append(m.rows, x)
                 same == d.timestamp_ms = x.timestamp_ms
                 ii == IF same THEN i + 1 ELSE i
      <3>1. v = [i |-> ii, j |-> j + 1, rows |-> rows]
        BY <1>4, <2>8 DEF v, MergeRound, D, M, i, j, d, x
      <3>2. rows \in Seq(P) /\ ToSet(rows) = ToSet(m.rows) \union {x}
        BY <1>2, <2>2, AppendFacts
      <3>3. (InTime(m.rows) /\ \A y \in ToSet(m.rows) : y.timestamp_ms < x.timestamp_ms)
            => InTime(rows)
        BY <1>2, <2>2, AppendFacts
      <3> HIDE DEF rows
      <3>4. v.i = ii /\ v.j = j + 1 /\ v.rows = rows BY <3>1
      <3>5. v \in [i : 1 .. D + 1, j : 1 .. M + 1, rows : Seq(P)]
        <4>1. ii \in 1 .. D + 1 /\ j + 1 \in 1 .. M + 1 BY <1>1, <2>1
        <4> QED BY <3>1, <3>2, <4>1
      <3>6. n + 1 <= v.i - 1 + (v.j - 1) BY <1>1, <2>1, <2>4, <3>4
      <3>7. Passed(disk, v.i) = Passed(disk, i) \union (IF same THEN {d} ELSE {})
        <4> HIDE DEF same
        <4> QED BY <2>3, <3>4
      <3>8. /\ ToSet(v.rows) \subseteq Passed(disk, v.i) \union Passed(mem, v.j)
            /\ Passed(mem, v.j) \subseteq ToSet(v.rows)
        BY <2>3, <2>4, <3>2, <3>4, <3>7
      <3>9. ASSUME NEW y \in Passed(disk, v.i)
            PROVE  y \in ToSet(v.rows) \/ HasTime(Passed(mem, v.j), y)
        <4>1. CASE y \in Passed(disk, i) BY <2>3, <2>4, <3>2, <3>4, <4>1 DEF HasTime
        <4>2. CASE y = d /\ same BY <2>3, <3>4, <4>2 DEF HasTime
        <4> QED BY <3>7, <3>9, <4>1, <4>2
      <3>10. Merging(P, disk, mem, v, n + 1)
        BY <3>5, <3>6, <3>8, <3>9 DEF Merging, MergeStates, D, M
      <3>11. ASSUME InTime(disk), InTime(mem), MergingInTime(disk, mem, m)
             PROVE  MergingInTime(disk, mem, v)
        <4>1. InTime(v.rows) BY <2>5, <3>3, <3>4, <3>11
        <4>2. ASSUME NEW y \in ToSet(v.rows), v.i <= D
              PROVE  y.timestamp_ms < disk[v.i].timestamp_ms
          <5>1. y = x \/ (/\ y.timestamp_ms < d.timestamp_ms /\ y.timestamp_ms < x.timestamp_ms
                          /\ y.timestamp_ms \in Int)
            BY <2>5, <2>6, <3>2, <3>4, <3>11
          <5>2. CASE same
            <6>1. v.i = i + 1 BY <3>4, <5>2
            <6>2. i + 1 \in 1 .. D /\ i + 1 > i BY <1>1, <2>1, <4>2, <6>1
            <6>3. d.timestamp_ms < disk[i + 1].timestamp_ms BY <2>5, <3>11, <6>2
            <6>4. disk[i + 1] \in P BY <6>2 DEF D
            <6>5. disk[i + 1].timestamp_ms \in Int BY <6>4
            <6> QED BY <2>2, <5>1, <5>2, <6>1, <6>3, <6>5
          <5>3. CASE ~same
            <6>1. disk[v.i] = d BY <3>4, <5>3 DEF d
            <6> QED BY <2>2, <2>8, <5>1, <5>3, <6>1
          <5> QED BY <5>2, <5>3
        <4>3. ASSUME NEW y \in ToSet(v.rows), v.j <= M
              PROVE  y.timestamp_ms < mem[v.j].timestamp_ms
          <5>1. j + 1 \in 1 .. M /\ j + 1 > j BY <1>1, <2>1, <3>4, <4>3
          <5>2. x.timestamp_ms < mem[j + 1].timestamp_ms BY <2>5, <3>11, <5>1
          <5>3. mem[j + 1] \in P BY <5>1 DEF M
          <5>4. y = x \/ (y.timestamp_ms < x.timestamp_ms /\ y.timestamp_ms \in Int)
            BY <2>5, <2>6, <3>2, <3>4, <3>11
          <5> QED BY <2>2, <3>4, <5>2, <5>3, <5>4
        <4>4. \A y \in ToSet(v.rows) : y \in ToSet(mem) \/ ~HasTime(ToSet(mem), y)
          BY <2>2, <2>5, <3>2, <3>4, <3>11
        <4> QED BY <4>1, <4>2, <4>3, <4>4 DEF MergingInTime, D, M
      <3> QED BY <3>10, <3>11 DEF v
    <2> QED BY <2>7, <2>8
  <1> QED BY <1>3, <1>4

\* The rounds of a merge.
MergeRounds(disk, mem, f) ==
    f = [n \in 0 .. Len(disk) + Len(mem) |->
            IF n = 0 THEN [i |-> 1, j |-> 1, rows |-> << >>] ELSE MergeRound(disk, mem, f[n - 1])]

\* They exist.
LEMMA MergeExists ==
    ASSUME NEW P, NEW disk \in Seq(P), NEW mem \in Seq(P)
    PROVE  \E f : MergeRounds(disk, mem, f)
  <1> DEFINE D == Len(disk)
             M == Len(mem)
             N == D + M
             S == MergeStates(P, disk, mem)
             step == [m \in S |-> MergeRound(disk, mem, m)]
             first == [i |-> 1, j |-> 1, rows |-> << >>]
  <1>1. D \in Nat /\ M \in Nat /\ N \in Nat OBVIOUS
  <1>2. first \in S BY <1>1 DEF MergeStates
  <1>3. ASSUME NEW m \in S PROVE MergeRound(disk, mem, m) \in S
    <2>1. m.i \in 1 .. D + 1 /\ m.j \in 1 .. M + 1 /\ m.rows \in Seq(P) BY DEF MergeStates
    <2>2. CASE m.i > D \/ m.j > M BY <2>2 DEF MergeRound
    <2>3. CASE ~(m.i > D \/ m.j > M)
      <3>1. m.i \in 1 .. D /\ m.j \in 1 .. M BY <1>1, <2>1, <2>3
      <3>2. disk[m.i] \in P /\ mem[m.j] \in P BY <3>1
      <3>3. m.i + 1 \in 1 .. D + 1 /\ m.j + 1 \in 1 .. M + 1 BY <1>1, <3>1
      <3>4. Append(m.rows, disk[m.i]) \in Seq(P) /\ Append(m.rows, mem[m.j]) \in Seq(P)
        BY <2>1, <3>2
      <3> DEFINE ii == IF disk[m.i].timestamp_ms = mem[m.j].timestamp_ms THEN m.i + 1 ELSE m.i
      <3>5. ii \in 1 .. D + 1 BY <2>1, <3>3
      <3>6. \/ MergeRound(disk, mem, m)
                 = [i |-> m.i + 1, j |-> m.j, rows |-> Append(m.rows, disk[m.i])]
            \/ MergeRound(disk, mem, m)
                 = [i |-> ii, j |-> m.j + 1, rows |-> Append(m.rows, mem[m.j])]
        BY <2>3 DEF MergeRound
      <3> HIDE DEF ii, D, M
      <3>7. \A a \in 1 .. D + 1, b \in 1 .. M + 1, r \in Seq(P) : [i |-> a, j |-> b, rows |-> r] \in S
        BY DEF MergeStates, D, M
      <3> HIDE DEF S
      <3> QED BY <2>1, <3>3, <3>4, <3>5, <3>6, <3>7
    <2> QED BY <2>2, <2>3
  <1>4. step \in [S -> S] BY <1>3
  <1>5. \A m \in S : step[m] = MergeRound(disk, mem, m) OBVIOUS
  <1> HIDE DEF N, S, step, first
  <1>6. PICK f : Rounds(f, S, first, step, N) BY ONLY <1>1, <1>2, <1>4, RoundsExist
  <1>7. ASSUME NEW n \in 0 .. N
        PROVE  f[n] = IF n = 0 THEN first ELSE MergeRound(disk, mem, f[n - 1])
    <2>1. CASE n = 0 BY <1>6, <2>1 DEF Rounds
    <2>2. CASE n # 0
      <3>1. n \in 1 .. N /\ n - 1 \in 0 .. N BY <1>1, <2>2
      <3>2. f[n - 1] \in S BY <1>6, <3>1 DEF Rounds
      <3> QED BY <1>5, <1>6, <2>2, <3>1, <3>2 DEF Rounds
    <2> QED BY <2>1, <2>2
  <1>8. f = [n \in 0 .. N |-> IF n = 0 THEN first ELSE MergeRound(disk, mem, f[n - 1])]
    BY <1>6, <1>7 DEF Rounds
  <1> QED BY <1>8 DEF MergeRounds, first, N

\* Merge has the rows of mem, and those of disk that are of no time that mem has; if both
\* are in the order of time, so is the result, and it has no others.
LEMMA MergeFacts ==
    ASSUME NEW P, NEW disk \in Seq(P), NEW mem \in Seq(P), \A x \in P : x.timestamp_ms \in Int
    PROVE  /\ Merge(disk, mem) \in Seq(P)
           /\ ToSet(mem) \subseteq ToSet(Merge(disk, mem))
           /\ ToSet(Merge(disk, mem)) \subseteq ToSet(disk) \union ToSet(mem)
           /\ \A x \in ToSet(disk) : x \in ToSet(Merge(disk, mem)) \/ HasTime(ToSet(mem), x)
           /\ InTime(disk) /\ InTime(mem) =>
                  /\ InTime(Merge(disk, mem))
                  /\ \A x \in ToSet(Merge(disk, mem)) : x \in ToSet(mem) \/ ~HasTime(ToSet(mem), x)
  <1> DEFINE D == Len(disk)
             M == Len(mem)
             N == D + M
             f == CHOOSE g : MergeRounds(disk, mem, g)
             G == {n \in Nat : n <= N =>
                      /\ Merging(P, disk, mem, f[n], n)
                      /\ InTime(disk) /\ InTime(mem) => MergingInTime(disk, mem, f[n])}
  <1>1. D \in Nat /\ M \in Nat /\ N \in Nat /\ DOMAIN disk = 1 .. D /\ DOMAIN mem = 1 .. M OBVIOUS
  <1>2. MergeRounds(disk, mem, f) BY MergeExists
  <1>3. Merge(disk, mem) = f[N].rows \o SubSeq(disk, f[N].i, D) \o SubSeq(mem, f[N].j, M)
    BY DEF Merge, MergeRounds
  <1> HIDE DEF f, N, D, M
  <1>4. 0 \in G
    <2> DEFINE first == [i |-> 1, j |-> 1, rows |-> << >>]
    <2>1. 0 \in 0 .. N BY <1>1
    <2>2. f[0] = first BY <1>2, <2>1 DEF MergeRounds, N, D, M
    <2>3. Passed(disk, 1) = {} /\ Passed(mem, 1) = {} BY DEF Passed
    <2>4. ToSet(<< >>) = {} /\ InTime(<< >>) BY DEF ToSet, InTime
    <2>5. first \in MergeStates(P, disk, mem) BY <1>1 DEF MergeStates, D, M
    <2>6. first.i = 1 /\ first.j = 1 /\ first.rows = << >> OBVIOUS
    <2> HIDE DEF first
    <2>7. Merging(P, disk, mem, first, 0) BY <2>3, <2>4, <2>5, <2>6 DEF Merging
    <2>8. MergingInTime(disk, mem, first) BY <2>4, <2>6 DEF MergingInTime
    <2> QED BY <2>2, <2>7, <2>8
  <1>5. ASSUME NEW n \in Nat, n \in G PROVE n + 1 \in G
    <2> SUFFICES ASSUME n + 1 <= N
                 PROVE  /\ Merging(P, disk, mem, f[n + 1], n + 1)
                        /\ InTime(disk) /\ InTime(mem) => MergingInTime(disk, mem, f[n + 1])
      OBVIOUS
    <2>1. n + 1 \in 0 .. N /\ n + 1 # 0 /\ (n + 1) - 1 = n /\ n <= N BY <1>1
    <2>2. f[n + 1] = MergeRound(disk, mem, f[n]) BY <1>2, <2>1 DEF MergeRounds, N, D, M
    <2>3. /\ Merging(P, disk, mem, f[n], n)
          /\ InTime(disk) /\ InTime(mem) => MergingInTime(disk, mem, f[n])
      BY <1>5, <2>1
    <2> HIDE DEF G
    <2> QED BY <2>2, <2>3, MergeNext
  <1> HIDE DEF G
  <1>6. Nat \subseteq G BY <1>4, <1>5, CountUp
  <1> DEFINE m == f[N]
             i == m.i
             j == m.j
             restD == SubSeq(disk, i, D)
             restM == SubSeq(mem, j, M)
             q == m.rows \o restD
             r == q \o restM
  <1>7. /\ Merging(P, disk, mem, m, N)
        /\ InTime(disk) /\ InTime(mem) => MergingInTime(disk, mem, m)
    BY <1>1, <1>6 DEF G
  <1>8. Merge(disk, mem) = r BY <1>3
  <1> HIDE DEF m
  <1>9. i \in 1 .. D + 1 /\ j \in 1 .. M + 1 /\ m.rows \in Seq(P)
    BY <1>7 DEF Merging, MergeStates, D, M
  <1>10. i > D \/ j > M
    <2>1. i > D \/ j > M \/ N <= i - 1 + (j - 1) BY <1>7 DEF Merging, D, M
    <2> HIDE DEF i, j
    <2> QED BY <1>1, <1>9, <2>1 DEF N
  <1>11. /\ restD \in Seq(P) /\ (InTime(disk) => InTime(restD))
         /\ \A x : x \in ToSet(restD) <=> \E k \in i .. D : disk[k] = x
    BY <1>9, RestFacts DEF D
  <1>12. /\ restM \in Seq(P) /\ (InTime(mem) => InTime(restM))
         /\ \A x : x \in ToSet(restM) <=> \E k \in j .. M : mem[k] = x
    BY <1>9, RestFacts DEF M
  <1>13. /\ ToSet(m.rows) \subseteq Passed(disk, i) \union Passed(mem, j)
         /\ Passed(mem, j) \subseteq ToSet(m.rows)
         /\ \A x \in Passed(disk, i) : x \in ToSet(m.rows) \/ HasTime(Passed(mem, j), x)
    BY <1>7 DEF Merging
  <1> HIDE DEF i, j, restD, restM
  <1>14. /\ q \in Seq(P) /\ ToSet(q) = ToSet(m.rows) \union ToSet(restD)
         /\ InTime(m.rows) /\ InTime(restD)
                /\ (\A y \in ToSet(m.rows), z \in ToSet(restD) : y.timestamp_ms < z.timestamp_ms)
              => InTime(q)
    BY <1>9, <1>11, ConcatFacts
  <1> HIDE DEF q
  <1>15. /\ r \in Seq(P)
         /\ ToSet(r) = (ToSet(m.rows) \union ToSet(restD)) \union ToSet(restM)
    BY <1>12, <1>14, ConcatFacts
  <1>16. /\ \A x : x \in ToSet(disk) <=> x \in Passed(disk, i) \/ x \in ToSet(restD)
         /\ \A x : x \in ToSet(mem) <=> x \in Passed(mem, j) \/ x \in ToSet(restM)
    <2>1. /\ \A k \in 1 .. D : k \in 1 .. i - 1 \/ k \in i .. D
          /\ \A k \in 1 .. i - 1 : k \in 1 .. D
          /\ \A k \in i .. D : k \in 1 .. D
      BY <1>1, <1>9
    <2>2. /\ \A k \in 1 .. M : k \in 1 .. j - 1 \/ k \in j .. M
          /\ \A k \in 1 .. j - 1 : k \in 1 .. M
          /\ \A k \in j .. M : k \in 1 .. M
      BY <1>1, <1>9
    <2>3. \A x : x \in ToSet(disk) <=> x \in Passed(disk, i) \/ x \in ToSet(restD)
      BY <1>1, <1>11, <2>1 DEF Passed, ToSet
    <2>4. \A x : x \in ToSet(mem) <=> x \in Passed(mem, j) \/ x \in ToSet(restM)
      BY <1>1, <1>12, <2>2 DEF Passed, ToSet
    <2> QED BY <2>3, <2>4
  <1>17. /\ ToSet(mem) \subseteq ToSet(r)
         /\ ToSet(r) \subseteq ToSet(disk) \union ToSet(mem)
    BY <1>13, <1>15, <1>16
  <1>18. \A x \in ToSet(disk) : x \in ToSet(r) \/ HasTime(ToSet(mem), x)
    BY <1>13, <1>15, <1>16 DEF HasTime
  <1>19. ASSUME InTime(disk), InTime(mem)
         PROVE  /\ InTime(r)
                /\ \A x \in ToSet(r) : x \in ToSet(mem) \/ ~HasTime(ToSet(mem), x)
    <2>1. /\ InTime(m.rows)
          /\ \A x \in ToSet(m.rows) :
                /\ i <= D => x.timestamp_ms < disk[i].timestamp_ms
                /\ j <= M => x.timestamp_ms < mem[j].timestamp_ms
                /\ x \in ToSet(mem) \/ ~HasTime(ToSet(mem), x)
      BY <1>7, <1>19 DEF MergingInTime, i, j, D, M
    <2>2. /\ \A x \in ToSet(m.rows) : x \in P
          /\ \A k \in 1 .. D : disk[k] \in P
          /\ \A k \in 1 .. M : mem[k] \in P
      BY <1>9 DEF ToSet, D, M
    <2>3. ASSUME NEW x \in ToSet(m.rows), NEW y \in ToSet(restD)
          PROVE  x.timestamp_ms < y.timestamp_ms
      <3>1. PICK k \in i .. D : disk[k] = y BY <1>11
      <3>2. i \in 1 .. D /\ k \in 1 .. D /\ i <= D /\ (i = k \/ i < k) BY <1>1, <1>9
      <3>3. x.timestamp_ms < disk[i].timestamp_ms BY <2>1, <3>2
      <3>4. i = k \/ disk[i].timestamp_ms < disk[k].timestamp_ms
        BY <1>1, <1>19, <3>2 DEF InTime
      <3>5. x.timestamp_ms \in Int /\ disk[i].timestamp_ms \in Int /\ disk[k].timestamp_ms \in Int
        BY <2>2, <3>2
      <3> QED BY <3>1, <3>3, <3>4, <3>5
    <2>4. ASSUME NEW x \in ToSet(m.rows), NEW y \in ToSet(restM)
          PROVE  x.timestamp_ms < y.timestamp_ms
      <3>1. PICK k \in j .. M : mem[k] = y BY <1>12
      <3>2. j \in 1 .. M /\ k \in 1 .. M /\ j <= M /\ (j = k \/ j < k) BY <1>1, <1>9
      <3>3. x.timestamp_ms < mem[j].timestamp_ms BY <2>1, <3>2
      <3>4. j = k \/ mem[j].timestamp_ms < mem[k].timestamp_ms
        BY <1>1, <1>19, <3>2 DEF InTime
      <3>5. x.timestamp_ms \in Int /\ mem[j].timestamp_ms \in Int /\ mem[k].timestamp_ms \in Int
        BY <2>2, <3>2
      <3> QED BY <3>1, <3>3, <3>4, <3>5
    <2>5. ToSet(restD) = {} \/ ToSet(restM) = {} BY <1>1, <1>9, <1>10, <1>11, <1>12
    <2>6. InTime(q) BY <1>11, <1>14, <1>19, <2>1, <2>3
    <2>7. \A x \in ToSet(q), y \in ToSet(restM) : x.timestamp_ms < y.timestamp_ms
      BY <1>14, <2>4, <2>5
    <2>8. InTime(r) BY <1>12, <1>14, <1>19, <2>6, <2>7, ConcatFacts
    <2>9. ASSUME NEW x \in ToSet(restD) PROVE ~HasTime(ToSet(mem), x)
      <3> SUFFICES ASSUME NEW y \in ToSet(mem), y.timestamp_ms = x.timestamp_ms PROVE FALSE
        BY DEF HasTime
      <3>1. y \in ToSet(m.rows) BY <1>13, <1>16, <2>5
      <3>2. y.timestamp_ms < x.timestamp_ms /\ y.timestamp_ms \in Int BY <2>2, <2>3, <3>1
      <3> QED BY <3>2
    <2>10. \A x \in ToSet(r) : x \in ToSet(mem) \/ ~HasTime(ToSet(mem), x)
      BY <1>15, <1>16, <2>1, <2>9
    <2> QED BY <2>8, <2>10
  <1> QED BY <1>8, <1>15, <1>17, <1>18, <1>19

=============================================================================
