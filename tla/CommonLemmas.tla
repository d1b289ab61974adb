---------------------------- MODULE CommonLemmas ----------------------------
(***************************************************************************)
(* Facts that the proofs of several modules need, about numbers of finite  *)
(* sets (the least and the greatest one, which the nightly tasks choose    *)
(* their next loan and day by), SumFunction of the community modules (the  *)
(* sum of a function over its finite domain), ranks in a finite order, and *)
(* the dates of Calendar.                                                  *)
(***************************************************************************)
EXTENDS Calendar, Integers, FiniteSets, FiniteSetTheorems, Functions, WellFoundedInduction, TLAPS

LEMMA LeastExists ==
    ASSUME NEW T \in SUBSET Nat, T # {}
    PROVE  \E x \in T : \A y \in T : x <= y
  <1>1. IsWellFoundedOn(OpToRel(<, Nat), Nat)
    BY NatLessThanWellFounded
  <1>2. PICK x \in T : \A y \in T : ~(<<y, x>> \in OpToRel(<, Nat))
    BY <1>1, WFMin
  <1>3. \A y \in T : ~(y < x)
    BY <1>2 DEF OpToRel
  <1> QED BY <1>3

LEMMA GreatestExists ==
    ASSUME NEW T \in SUBSET Nat, T # {}, NEW bound \in Nat, \A y \in T : y <= bound
    PROVE  \E x \in T : \A y \in T : y <= x
  <1> DEFINE U == {bound - y : y \in T}
  <1>1. U \in SUBSET Nat /\ U # {}
    <2>1. ASSUME NEW y \in T PROVE bound - y \in Nat
      <3>1. y \in Nat /\ y <= bound
        OBVIOUS
      <3> QED BY <3>1
    <2>2. \A u \in U : u \in Nat
      BY <2>1
    <2>3. PICK y \in T : TRUE
      OBVIOUS
    <2>4. bound - y \in U
      OBVIOUS
    <2> QED BY <2>2, <2>4
  <1>2. PICK u \in U : \A v \in U : u <= v
    BY <1>1, LeastExists
  <1>3. PICK x \in T : u = bound - x
    OBVIOUS
  <1>4. \A y \in T : bound - x <= bound - y
    BY <1>2, <1>3
  <1> QED BY <1>4

(***************************************************************************)
(* Induction, over numbers and over the subsets of a finite set, and the   *)
(* partial sums a sum is folded from.                                      *)
(***************************************************************************)
\* A set of numbers that has the next number with each of its own has them all.
LEMMA EveryNumber ==
    ASSUME NEW Q \in SUBSET Nat, 0 \in Q, \A n \in Q : n + 1 \in Q
    PROVE  Q = Nat
  <1> DEFINE bad == Nat \ Q
  <1>1. CASE bad # {}
    <2>1. PICK n \in bad : \A y \in bad : n <= y
      BY <1>1, LeastExists
    <2>2. n # 0 /\ n - 1 \in Nat
      BY <2>1
    <2>3. n - 1 \in Q
      BY <2>1, <2>2
    <2>4. (n - 1) + 1 \in Q
      BY <2>3
    <2> QED BY <2>1, <2>4
  <1> QED BY <1>1

AnyOf(s) == CHOOSE x \in s : TRUE
\* The partial sums of f over the subsets of S.
PartialSum(f, it, s) == IF s = {} THEN 0 ELSE f[AnyOf(s)] + it[s \ {AnyOf(s)}]
PartialSums(f, S, it) == it = [s \in SUBSET S |-> PartialSum(f, it, s)]

LEMMA AnyOfInSet == \A s : s # {} => AnyOf(s) \in s
  BY DEF AnyOf

LEMMA SumsExist ==
    ASSUME NEW f, NEW S, IsFiniteSet(S)
    PROVE  \E it : PartialSums(f, S, it)
  <1> DEFINE Upto(n) == {s \in SUBSET S : Cardinality(s) <= n}
             Good(n, it) == /\ DOMAIN it = Upto(n)
                            /\ it = [s \in Upto(n) |-> PartialSum(f, it, s)]
             Q == {n \in Nat : \E it : Good(n, it)}
  <1>0. \A s \in SUBSET S : IsFiniteSet(s) /\ Cardinality(s) \in Nat
    BY FS_Subset, FS_CardinalityType
  <1>1. 0 \in Q
    <2> DEFINE it == [s \in Upto(0) |-> 0]
    <2>1. \A s \in Upto(0) : s = {}
      BY <1>0, FS_EmptySet
    <2>2. Good(0, it)
      BY <2>1 DEF PartialSum
    <2> QED BY <2>2
  <1>2. ASSUME NEW n \in Q PROVE n + 1 \in Q
    <2>1. PICK it : Good(n, it)
      OBVIOUS
    <2> DEFINE next == [s \in Upto(n + 1) |-> PartialSum(f, it, s)]
    <2>2. ASSUME NEW s \in Upto(n + 1), s # {}
          PROVE  s \ {AnyOf(s)} \in Upto(n)
      <3>1. AnyOf(s) \in s
        BY <2>2, AnyOfInSet
      <3>2. Cardinality(s \ {AnyOf(s)}) = Cardinality(s) - 1
        BY <1>0, <3>1, FS_RemoveElement
      <3> QED BY <1>0, <3>2
    <2>3. \A t \in Upto(n) : t \in Upto(n + 1) /\ next[t] = it[t]
      BY <1>0, <2>1
    <2>4. \A s \in Upto(n + 1) : PartialSum(f, next, s) = PartialSum(f, it, s)
      BY <2>2, <2>3 DEF PartialSum
    <2>5. Good(n + 1, next)
      BY <2>4
    <2> HIDE DEF Good, next
    <2> QED BY <2>5
  <1>3. Q = Nat
    BY <1>1, <1>2, EveryNumber
  <1>4. Cardinality(S) \in Nat
    BY <1>0
  <1>5. PICK it : Good(Cardinality(S), it)
    BY <1>3, <1>4
  <1>6. Upto(Cardinality(S)) = SUBSET S
    BY <1>0, FS_Subset
  <1> QED BY <1>5, <1>6 DEF PartialSums

\* A property of sets that {} has, and that one more element keeps.
LEMMA SetInduction ==
    ASSUME NEW S, IsFiniteSet(S), NEW P \in SUBSET (SUBSET S), {} \in P,
           \A T \in P : \A x \in S \ T : T \cup {x} \in P
    PROVE  P = SUBSET S
  <1> DEFINE Q == {n \in Nat : \A T \in SUBSET S : Cardinality(T) = n => T \in P}
  <1>0. \A s \in SUBSET S : IsFiniteSet(s) /\ Cardinality(s) \in Nat
    BY FS_Subset, FS_CardinalityType
  <1>1. 0 \in Q
    BY <1>0, FS_EmptySet
  <1>2. ASSUME NEW n \in Q PROVE n + 1 \in Q
    <2>1. ASSUME NEW T \in SUBSET S, Cardinality(T) = n + 1 PROVE T \in P
      <3>0. Cardinality({}) = 0 /\ n \in Nat
        BY FS_EmptySet
      <3>1. T # {}
        <4>1. n + 1 # 0
          BY <3>0
        <4> HIDE DEF Q
        <4> QED BY <2>1, <3>0, <4>1
      <3>2. PICK x \in T : TRUE
        BY <3>1
      <3>3. Cardinality(T \ {x}) = n
        BY <1>0, <2>1, FS_RemoveElement
      <3>4. T \ {x} \in P
        BY <3>3
      <3>5. (T \ {x}) \cup {x} = T /\ x \in S \ (T \ {x})
        OBVIOUS
      <3> QED BY <3>4, <3>5
    <2> QED BY <2>1
  <1>3. Q = Nat
    <2> HIDE DEF Q
    <2>1. Q \in SUBSET Nat
      BY DEF Q
    <2> QED BY <1>1, <1>2, <2>1, EveryNumber
  <1>4. \A T \in SUBSET S : T \in P
    BY <1>0, <1>3
  <1> QED BY <1>4

LEMMA SumIsFold ==
    ASSUME NEW f, IsFiniteSet(DOMAIN f)
    PROVE  \E it : PartialSums(f, DOMAIN f, it) /\ SumFunction(f) = it[DOMAIN f]
  <1> DEFINE it == CHOOSE it : it = [s \in SUBSET (DOMAIN f) |->
                         IF s = {} THEN 0
                         ELSE f[CHOOSE x \in s : TRUE] + it[s \ {CHOOSE x \in s : TRUE}]]
  <1>1. SumFunction(f) = it[DOMAIN f]
    BY DEF SumFunction, SumFunctionOnSet, FoldFunctionOnSet, MapThenFoldSet
  <1>2. \E jt : jt = [s \in SUBSET (DOMAIN f) |->
                         IF s = {} THEN 0
                         ELSE f[CHOOSE x \in s : TRUE] + jt[s \ {CHOOSE x \in s : TRUE}]]
    <2>1. PICK jt : PartialSums(f, DOMAIN f, jt)
      BY SumsExist
    <2> QED BY <2>1 DEF PartialSums, PartialSum, AnyOf
  <1>3. it = [s \in SUBSET (DOMAIN f) |->
                         IF s = {} THEN 0
                         ELSE f[CHOOSE x \in s : TRUE] + it[s \ {CHOOSE x \in s : TRUE}]]
    BY <1>2
  <1> HIDE DEF it
  <1>4. PartialSums(f, DOMAIN f, it)
    BY <1>3 DEF PartialSums, PartialSum, AnyOf
  <1> QED BY <1>1, <1>4

\* The partial sums do not depend on the order the elements are picked in.
LEMMA SumsOfInts ==
    ASSUME NEW f, NEW S, IsFiniteSet(S), \A x \in S : f[x] \in Int, NEW it, PartialSums(f, S, it)
    PROVE  it[S] \in Int /\ \A x \in S : it[S \ {x}] \in Int /\ it[S] = f[x] + it[S \ {x}]
  <1> DEFINE OK(T) == it[T] \in Int /\ \A x \in T : it[T] = f[x] + it[T \ {x}]
             Q == {n \in Nat : \A T \in SUBSET S : Cardinality(T) <= n => OK(T)}
  <1>0. \A s \in SUBSET S : IsFiniteSet(s) /\ Cardinality(s) \in Nat
    BY FS_Subset, FS_CardinalityType
  <1>1. it[{}] = 0
    BY DEF PartialSums, PartialSum
  <1>2. 0 \in Q
    <2>1. \A T \in SUBSET S : Cardinality(T) <= 0 => T = {}
      BY <1>0, FS_EmptySet
    <2>2. OK({})
      BY <1>1
    <2> QED BY <2>1, <2>2
  <1>3. ASSUME NEW n \in Q PROVE n + 1 \in Q
    <2>1. ASSUME NEW T \in SUBSET S, Cardinality(T) <= n + 1 PROVE OK(T)
      <3>1. CASE T = {}
        BY <1>1, <3>1
      <3>2. CASE T # {}
        <4> DEFINE p == AnyOf(T)
        <4>1. p \in T
          BY <3>2, AnyOfInSet
        <4>2. it[T] = f[p] + it[T \ {p}]
          BY <3>2 DEF PartialSums, PartialSum
        <4> HIDE DEF p
        <4>3. ASSUME NEW y \in T PROVE OK(T \ {y})
          <5>1. Cardinality(T \ {y}) = Cardinality(T) - 1
            BY <1>0, FS_RemoveElement
          <5>2. Cardinality(T \ {y}) <= n
            BY <1>0, <2>1, <5>1
          <5> QED BY <5>2
        <4>4. it[T] \in Int
          <5>1. it[T \ {p}] \in Int
            BY <4>1, <4>3
          <5>2. f[p] \in Int
            BY <4>1
          <5> QED BY <4>2, <5>1, <5>2
        <4>5. ASSUME NEW x \in T, x # p PROVE it[T] = f[x] + it[T \ {x}]
          <5>1. /\ it[T \ {p}] = f[x] + it[(T \ {p}) \ {x}]
                /\ it[T \ {x}] = f[p] + it[(T \ {x}) \ {p}]
            BY <4>1, <4>3, <4>5
          <5>2. (T \ {p}) \ {x} = (T \ {x}) \ {p}
            OBVIOUS
          <5>3. it[(T \ {p}) \ {x}] \in Int
            <6>1. Cardinality((T \ {p}) \ {x}) <= Cardinality(T \ {p})
              BY <1>0, FS_Subset
            <6>2. Cardinality((T \ {p})) = Cardinality(T) - 1
              BY <1>0, <4>1, FS_RemoveElement
            <6>3. Cardinality((T \ {p}) \ {x}) <= n
              BY <1>0, <2>1, <6>1, <6>2
            <6> QED BY <6>3
          <5>4. f[x] \in Int /\ f[p] \in Int
            BY <4>1
          <5> DEFINE rest == it[(T \ {p}) \ {x}]
          <5>5. it[T] = f[p] + (f[x] + rest) /\ it[T \ {x}] = f[p] + rest
            BY <4>2, <5>1, <5>2
          <5> HIDE DEF rest
          <5>6. rest \in Int
            BY <5>3 DEF rest
          <5> QED BY <5>4, <5>5, <5>6
        <4> QED BY <4>2, <4>4, <4>5
      <3> QED BY <3>1, <3>2
    <2> QED BY <2>1
  <1>4. Q = Nat
    <2> HIDE DEF Q
    <2>1. Q \in SUBSET Nat
      BY DEF Q
    <2> QED BY <1>2, <1>3, <2>1, EveryNumber
  <1>5. \A T \in SUBSET S : OK(T)
    BY <1>0, <1>4
  <1> QED BY <1>5

\* Two functions that agree on a set have the same sum over it.
LEMMA SumsAgree ==
    ASSUME NEW f, NEW S, IsFiniteSet(S), NEW it, PartialSums(f, S, it),
           NEW g, NEW R, IsFiniteSet(R), NEW jt, PartialSums(g, R, jt),
           NEW T \in SUBSET S, T \subseteq R,
           \A x \in T : f[x] = g[x] /\ f[x] \in Int
    PROVE  it[T] = jt[T]
  <1> DEFINE Q == {n \in Nat : \A U \in SUBSET T : Cardinality(U) <= n => it[U] = jt[U]}
  <1>0. \A s \in SUBSET S : IsFiniteSet(s) /\ Cardinality(s) \in Nat
    BY FS_Subset, FS_CardinalityType
  <1>1. 0 \in Q
    <2>1. it[{}] = 0 /\ jt[{}] = 0
      BY DEF PartialSums, PartialSum
    <2>2. \A U \in SUBSET T : Cardinality(U) <= 0 => U = {}
      BY <1>0, FS_EmptySet
    <2> QED BY <2>1, <2>2
  <1>2. ASSUME NEW n \in Q PROVE n + 1 \in Q
    <2>1. ASSUME NEW U \in SUBSET T, Cardinality(U) <= n + 1, U # {} PROVE it[U] = jt[U]
      <3>1. AnyOf(U) \in U
        BY <2>1, AnyOfInSet
      <3>2. Cardinality(U \ {AnyOf(U)}) = Cardinality(U) - 1
        BY <1>0, <3>1, FS_RemoveElement
      <3>3. Cardinality(U \ {AnyOf(U)}) <= n
        BY <1>0, <2>1, <3>2
      <3>4. it[U \ {AnyOf(U)}] = jt[U \ {AnyOf(U)}]
        BY <3>3
      <3>5. it[U] = f[AnyOf(U)] + it[U \ {AnyOf(U)}] /\ jt[U] = g[AnyOf(U)] + jt[U \ {AnyOf(U)}]
        BY <2>1 DEF PartialSums, PartialSum
      <3> QED BY <3>1, <3>4, <3>5
    <2>2. it[{}] = jt[{}]
      BY DEF PartialSums, PartialSum
    <2> QED BY <2>1, <2>2
  <1>3. Q = Nat
    <2> HIDE DEF Q
    <2>1. Q \in SUBSET Nat
      BY DEF Q
    <2> QED BY <1>1, <1>2, <2>1, EveryNumber
  <1>4. Cardinality(T) \in Nat
    BY <1>0
  <1> QED BY <1>3, <1>4

(***************************************************************************)
(* What is cited: the sum of a function over a finite domain.              *)
(***************************************************************************)
Summable(f) == IsFiniteSet(DOMAIN f) /\ \A x \in DOMAIN f : f[x] \in Int

LEMMA SumOfNone == ASSUME NEW f, DOMAIN f = {} PROVE SumFunction(f) = 0
  <1>1. IsFiniteSet({})
    BY FS_EmptySet
  <1>2. PICK it : PartialSums(f, DOMAIN f, it) /\ SumFunction(f) = it[DOMAIN f]
    BY <1>1, SumIsFold
  <1> QED BY <1>2 DEF PartialSums, PartialSum

LEMMA SumsTakeOut ==
    ASSUME NEW f, Summable(f), NEW it, PartialSums(f, DOMAIN f, it)
    PROVE  \A z \in DOMAIN f : it[DOMAIN f] = f[z] + it[DOMAIN f \ {z}]
  <1> DEFINE S == DOMAIN f
  <1>1. IsFiniteSet(S) /\ PartialSums(f, S, it) /\ \A y \in S : f[y] \in Int
    BY DEF Summable
  <1> HIDE DEF S
  <1>2. \A x \in S : it[S \ {x}] \in Int /\ it[S] = f[x] + it[S \ {x}]
    BY <1>1, SumsOfInts
  <1> QED BY <1>2 DEF S

LEMMA SumIsInt == ASSUME NEW f, Summable(f) PROVE SumFunction(f) \in Int
  <1>1. PICK it : PartialSums(f, DOMAIN f, it) /\ SumFunction(f) = it[DOMAIN f]
    BY SumIsFold DEF Summable
  <1> QED BY <1>1, SumsOfInts DEF Summable

\* One term taken out.
LEMMA SumWithout ==
    ASSUME NEW f, Summable(f), NEW x \in DOMAIN f, NEW g,
           DOMAIN g = DOMAIN f \ {x}, \A y \in DOMAIN g : g[y] = f[y]
    PROVE  SumFunction(f) = f[x] + SumFunction(g) /\ Summable(g)
  <1>0. Summable(g)
    BY FS_RemoveElement DEF Summable
  <1>1. PICK it : PartialSums(f, DOMAIN f, it) /\ SumFunction(f) = it[DOMAIN f]
    BY SumIsFold DEF Summable
  <1>2. PICK jt : PartialSums(g, DOMAIN g, jt) /\ SumFunction(g) = jt[DOMAIN g]
    BY <1>0, SumIsFold DEF Summable
  <1>3. it[DOMAIN f] = f[x] + it[DOMAIN f \ {x}]
    BY <1>1, SumsTakeOut
  <1>4. it[DOMAIN g] = jt[DOMAIN g]
    BY <1>0, <1>1, <1>2, SumsAgree DEF Summable
  <1> QED BY <1>0, <1>1, <1>2, <1>3, <1>4

\* Equal terms have equal sums.
LEMMA SumsEqual ==
    ASSUME NEW f, Summable(f), NEW g, DOMAIN g = DOMAIN f, \A x \in DOMAIN f : g[x] = f[x]
    PROVE  SumFunction(g) = SumFunction(f)
  <1>1. PICK it : PartialSums(f, DOMAIN f, it) /\ SumFunction(f) = it[DOMAIN f]
    BY SumIsFold DEF Summable
  <1>2. PICK jt : PartialSums(g, DOMAIN g, jt) /\ SumFunction(g) = jt[DOMAIN g]
    BY SumIsFold DEF Summable
  <1>3. it[DOMAIN f] = jt[DOMAIN f]
    BY <1>1, <1>2, SumsAgree DEF Summable
  <1> QED BY <1>1, <1>2, <1>3

\* One term that changes.
LEMMA SumChanged ==
    ASSUME NEW f, Summable(f), NEW x \in DOMAIN f, NEW v \in Int, NEW g, DOMAIN g = DOMAIN f,
           g[x] = v, \A y \in DOMAIN f \ {x} : g[y] = f[y]
    PROVE  Summable(g) /\ SumFunction(g) = SumFunction(f) - f[x] + v
  <1> DEFINE h == [y \in DOMAIN f \ {x} |-> f[y]]
  <1>1. Summable(g)
    BY DEF Summable
  <1>2. SumFunction(f) = f[x] + SumFunction(h) /\ Summable(h)
    BY SumWithout
  <1>3. SumFunction(g) = v + SumFunction(h)
    BY <1>1, SumWithout
  <1>4. SumFunction(h) \in Int /\ f[x] \in Int
    BY <1>2, SumIsInt DEF Summable
  <1> HIDE DEF h
  <1> QED BY <1>1, <1>2, <1>3, <1>4

\* Terms that are added one by one.
LEMMA SumPlus ==
    ASSUME NEW f, Summable(f), NEW g, Summable(g), NEW h, DOMAIN g = DOMAIN f, DOMAIN h = DOMAIN f,
           \A x \in DOMAIN f : h[x] = f[x] + g[x]
    PROVE  Summable(h) /\ SumFunction(h) = SumFunction(f) + SumFunction(g)
  <1> DEFINE S == DOMAIN f
             F(T) == [x \in T |-> f[x]]
             G(T) == [x \in T |-> g[x]]
             H(T) == [x \in T |-> h[x]]
             P == {T \in SUBSET S : SumFunction(H(T)) = SumFunction(F(T)) + SumFunction(G(T))}
  <1>0. ASSUME NEW T \in SUBSET S PROVE Summable(F(T)) /\ Summable(G(T)) /\ Summable(H(T))
    BY FS_Subset DEF Summable
  <1>1. {} \in P
    BY SumOfNone
  <1>2. ASSUME NEW T \in P, NEW x \in S \ T PROVE T \cup {x} \in P
    <2>1. (T \cup {x}) \ {x} = T
      OBVIOUS
    <2>2. Summable(F(T \cup {x})) /\ Summable(G(T \cup {x})) /\ Summable(H(T \cup {x}))
      BY <1>0
    <2>3. SumFunction(F(T \cup {x})) = f[x] + SumFunction(F(T))
      BY <2>1, <2>2, SumWithout
    <2>4. SumFunction(G(T \cup {x})) = g[x] + SumFunction(G(T))
      BY <2>1, <2>2, SumWithout
    <2>5. SumFunction(H(T \cup {x})) = h[x] + SumFunction(H(T))
      BY <2>1, <2>2, SumWithout
    <2>6. SumFunction(F(T)) \in Int /\ SumFunction(G(T)) \in Int /\ SumFunction(H(T)) \in Int
      BY <1>0, SumIsInt
    <2>7. SumFunction(H(T)) = SumFunction(F(T)) + SumFunction(G(T))
      OBVIOUS
    <2>8. f[x] \in Int /\ g[x] \in Int /\ h[x] = f[x] + g[x]
      BY DEF Summable
    <2> HIDE DEF F, G, H
    <2>9. SumFunction(H(T \cup {x})) = SumFunction(F(T \cup {x})) + SumFunction(G(T \cup {x}))
      BY <2>3, <2>4, <2>5, <2>6, <2>7, <2>8
    <2> QED BY <2>9
  <1>3. P = SUBSET S
    <2> HIDE DEF P
    <2>1. P \in SUBSET (SUBSET S)
      BY DEF P
    <2> QED BY <1>1, <1>2, <2>1, SetInduction DEF Summable
  <1>4. S \in P
    BY <1>3
  <1>5. SumFunction(H(S)) = SumFunction(h) /\ SumFunction(F(S)) = SumFunction(f)
        /\ SumFunction(G(S)) = SumFunction(g) /\ Summable(h)
    <2>1. Summable(h)
      BY DEF Summable
    <2> QED BY <2>1, SumsEqual
  <1> QED BY <1>4, <1>5

\* Sums of numbers that are not negative.
LEMMA SumNotNegative ==
    ASSUME NEW f, Summable(f), \A x \in DOMAIN f : f[x] >= 0
    PROVE  SumFunction(f) >= 0 /\ \A x \in DOMAIN f : SumFunction(f) >= f[x]
  <1> DEFINE S == DOMAIN f
             F(T) == [x \in T |-> f[x]]
             P == {T \in SUBSET S : SumFunction(F(T)) >= 0}
  <1>0. ASSUME NEW T \in SUBSET S PROVE Summable(F(T)) /\ SumFunction(F(T)) \in Int
    BY FS_Subset, SumIsInt DEF Summable
  <1>1. {} \in P
    <2>1. SumFunction(F({})) = 0
      BY SumOfNone
    <2> QED BY <2>1
  <1>2. ASSUME NEW T \in P, NEW x \in S \ T PROVE T \cup {x} \in P
    <2>1. (T \cup {x}) \ {x} = T
      OBVIOUS
    <2>2. SumFunction(F(T \cup {x})) = f[x] + SumFunction(F(T))
      BY <1>0, <2>1, SumWithout
    <2>3. f[x] \in Int /\ f[x] >= 0 /\ SumFunction(F(T)) \in Int /\ SumFunction(F(T)) >= 0
      BY <1>0 DEF Summable
    <2> HIDE DEF F
    <2>4. SumFunction(F(T \cup {x})) >= 0
      BY <2>2, <2>3
    <2> QED BY <2>4
  <1>3. P = SUBSET S
    <2> HIDE DEF P
    <2>1. P \in SUBSET (SUBSET S)
      BY DEF P
    <2> QED BY <1>1, <1>2, <2>1, SetInduction DEF Summable
  <1>4. SumFunction(F(S)) = SumFunction(f)
    BY SumsEqual
  <1>5. ASSUME NEW x \in S PROVE SumFunction(f) >= f[x]
    <2>1. S \ {x} \in P
      BY <1>3
    <2>2. SumFunction(f) = f[x] + SumFunction(F(S \ {x}))
      BY SumWithout
    <2>3. f[x] \in Int /\ SumFunction(F(S \ {x})) \in Int /\ SumFunction(F(S \ {x})) >= 0
      BY <1>0, <2>1 DEF Summable
    <2> HIDE DEF F
    <2> QED BY <2>2, <2>3
  <1>6. S \in P
    BY <1>3
  <1> QED BY <1>4, <1>5, <1>6

\* Of two sums term by term one below the other.
LEMMA SumsCompare ==
    ASSUME NEW f, Summable(f), NEW g, Summable(g), DOMAIN g = DOMAIN f,
           \A x \in DOMAIN f : f[x] <= g[x]
    PROVE  SumFunction(f) <= SumFunction(g)
  <1> DEFINE gap == [x \in DOMAIN f |-> g[x] - f[x]]
  <1>1. DOMAIN gap = DOMAIN f /\ \A x \in DOMAIN f : gap[x] = g[x] - f[x]
    OBVIOUS
  <1> HIDE DEF gap
  <1>2. \A x \in DOMAIN f : gap[x] \in Int /\ gap[x] >= 0 /\ g[x] = f[x] + gap[x]
    BY <1>1 DEF Summable
  <1>3. Summable(gap)
    BY <1>1, <1>2 DEF Summable
  <1>4. SumFunction(g) = SumFunction(f) + SumFunction(gap) /\ SumFunction(gap) >= 0
    BY <1>1, <1>2, <1>3, SumPlus, SumNotNegative
  <1>5. SumFunction(f) \in Int /\ SumFunction(gap) \in Int
    BY <1>3, SumIsInt
  <1> QED BY <1>4, <1>5

\* Terms that are all zero.
LEMMA SumOfZeros ==
    ASSUME NEW f, Summable(f), \A x \in DOMAIN f : f[x] = 0
    PROVE  SumFunction(f) = 0
  <1>1. SumFunction(f) = SumFunction(f) + SumFunction(f)
    BY SumPlus
  <1> QED BY <1>1, SumIsInt

\* A table read by rows, a, and by columns, b, with the totals of each.
TableTotals(S, T, a, b, f, g) ==
  /\ IsFiniteSet(S) /\ IsFiniteSet(T)
  /\ \A x \in S : \A y \in T : a[x][y] \in Int /\ b[y][x] = a[x][y]
  /\ \A x \in S : DOMAIN a[x] = T
  /\ \A y \in T : DOMAIN b[y] = S
  /\ DOMAIN f = S /\ \A x \in S : f[x] = SumFunction(a[x])
  /\ DOMAIN g = T /\ \A y \in T : g[y] = SumFunction(b[y])

\* The sums of the rows and of the columns of a table add up to the same.
LEMMA SumsSwap ==
    ASSUME NEW S, NEW T, NEW a, NEW b, NEW f, NEW g, TableTotals(S, T, a, b, f, g)
    PROVE  SumFunction(f) = SumFunction(g) /\ Summable(f) /\ Summable(g)
  <1> DEFINE Row(x) == SumFunction([y \in T |-> a[x][y]])
             Col(y, R) == SumFunction([x \in R |-> a[x][y]])
             P == {R \in SUBSET S : SumFunction([x \in R |-> Row(x)])
                                      = SumFunction([y \in T |-> Col(y, R)])}
  <1>int. \A x \in S : \A y \in T : a[x][y] \in Int
    BY DEF TableTotals
  <1>fin. IsFiniteSet(S) /\ IsFiniteSet(T)
    BY DEF TableTotals
  <1>0. \A R \in SUBSET S : IsFiniteSet(R)
    BY <1>fin, FS_Subset
  <1>1. \A x \in S : Row(x) \in Int
    <2>1. ASSUME NEW x \in S PROVE Summable([y \in T |-> a[x][y]])
      BY <1>int, <1>fin DEF Summable
    <2> QED BY <2>1, SumIsInt
  <1>2. ASSUME NEW R \in SUBSET S, NEW y \in T
        PROVE  Summable([x \in R |-> a[x][y]]) /\ Col(y, R) \in Int
    <2>1. Summable([x \in R |-> a[x][y]])
      BY <1>0, <1>int DEF Summable
    <2> QED BY <2>1, SumIsInt
  <1>3. {} \in P
    <2>1. \A y \in T : Col(y, {}) = 0
      BY SumOfNone
    <2>2. SumFunction([y \in T |-> Col(y, {})]) = 0
      <3> HIDE DEF Col
      <3>1. Summable([y \in T |-> Col(y, {})])
        BY <1>fin, <2>1 DEF Summable
      <3> QED BY <2>1, <3>1, SumOfZeros
    <2>3. SumFunction([x \in {} |-> Row(x)]) = 0
      BY SumOfNone
    <2> QED BY <2>2, <2>3
  <1>4. ASSUME NEW R \in P, NEW z \in S \ R PROVE R \cup {z} \in P
    <2> DEFINE R2 == R \cup {z}
               more == [x \in R2 |-> Row(x)]
               less == [x \in R |-> Row(x)]
               u == [y \in T |-> a[z][y]]
               v == [y \in T |-> Col(y, R)]
               w == [y \in T |-> Col(y, R2)]
    <2>1. R2 \ {z} = R /\ R2 \in SUBSET S
      OBVIOUS
    <2>2. SumFunction(more) = Row(z) + SumFunction(less)
      <3>1. Summable(more)
        BY <1>0, <1>1, <2>1 DEF Summable
      <3>2. /\ z \in DOMAIN more /\ more[z] = Row(z)
            /\ DOMAIN less = DOMAIN more \ {z} /\ \A x \in DOMAIN less : less[x] = more[x]
        <4> HIDE DEF Row
        <4> QED OBVIOUS
      <3> HIDE DEF P, more, less, Row
      <3>3. SumFunction(more) = more[z] + SumFunction(less)
        BY <3>1, <3>2, SumWithout
      <3> QED BY <3>2, <3>3
    <2>3. ASSUME NEW y \in T PROVE Col(y, R2) = a[z][y] + Col(y, R)
      <3> DEFINE p == [x \in R2 |-> a[x][y]]
                 q == [x \in R |-> a[x][y]]
      <3>1. Summable(p) /\ Col(y, R2) = SumFunction(p) /\ Col(y, R) = SumFunction(q)
        BY <1>2, <2>1
      <3>2. /\ z \in DOMAIN p /\ p[z] = a[z][y]
            /\ DOMAIN q = DOMAIN p \ {z} /\ \A x \in DOMAIN q : q[x] = p[x]
        OBVIOUS
      <3> HIDE DEF P, p, q, Col
      <3>3. SumFunction(p) = p[z] + SumFunction(q)
        BY <3>1, <3>2, SumWithout
      <3> QED BY <3>1, <3>2, <3>3
    <2>4. SumFunction(w) = SumFunction(u) + SumFunction(v)
      <3> HIDE DEF Col
      <3>1. Summable(u) /\ Summable(v)
        BY <1>2, <1>int, <1>fin DEF Summable
      <3>2. \A y \in T : w[y] = u[y] + v[y]
        BY <2>3
      <3> QED BY <3>1, <3>2, SumPlus
    <2>5. SumFunction(less) = SumFunction(v) /\ Row(z) = SumFunction(u)
      OBVIOUS
    <2>6. SumFunction(more) = SumFunction(w)
      BY <2>2, <2>4, <2>5
    <2> QED BY <2>1, <2>6
  <1>5. P = SUBSET S
    <2> HIDE DEF P
    <2>1. P \in SUBSET (SUBSET S)
      BY DEF P
    <2> QED BY <1>3, <1>4, <1>fin, <2>1, SetInduction
  <1>6. S \in P
    BY <1>5
  <1> DEFINE byRow == [x \in S |-> Row(x)]
             byCol == [y \in T |-> Col(y, S)]
  <1>7. SumFunction(byRow) = SumFunction(byCol)
    BY <1>6
  <1>8. \A x \in S : Row(x) = f[x]
    <2>1. ASSUME NEW x \in S PROVE Row(x) = SumFunction(a[x])
      <3> DEFINE row == [y \in T |-> a[x][y]]
      <3>1. Summable(a[x]) /\ DOMAIN row = DOMAIN a[x] /\ \A y \in DOMAIN a[x] : row[y] = a[x][y]
        BY <1>int, <1>fin DEF Summable, TableTotals
      <3> HIDE DEF row
      <3>2. SumFunction(row) = SumFunction(a[x])
        BY <3>1, SumsEqual
      <3> QED BY <3>2 DEF row
    <2> QED BY <2>1 DEF TableTotals
  <1>9. \A y \in T : Col(y, S) = g[y]
    <2>1. ASSUME NEW y \in T PROVE Col(y, S) = SumFunction(b[y])
      <3> DEFINE col == [x \in S |-> a[x][y]]
      <3>1. Summable(b[y]) /\ DOMAIN col = DOMAIN b[y] /\ \A x \in DOMAIN b[y] : col[x] = b[y][x]
        BY <1>int, <1>fin DEF Summable, TableTotals
      <3> HIDE DEF col
      <3>2. SumFunction(col) = SumFunction(b[y])
        BY <3>1, SumsEqual
      <3> QED BY <3>2 DEF col
    <2> QED BY <2>1 DEF TableTotals
  <1>10. Summable(f) /\ Summable(g)
    <2>1. \A y \in T : Col(y, S) \in Int
      BY <1>2
    <2> HIDE DEF Row, Col, P
    <2>2. (\A x \in S : f[x] \in Int) /\ (\A y \in T : g[y] \in Int)
      BY <1>1, <1>8, <1>9, <2>1
    <2> QED BY <1>fin, <2>2 DEF Summable, TableTotals
  <1>11. /\ DOMAIN byRow = DOMAIN f /\ \A x \in DOMAIN f : byRow[x] = f[x]
         /\ DOMAIN byCol = DOMAIN g /\ \A y \in DOMAIN g : byCol[y] = g[y]
    BY <1>8, <1>9 DEF TableTotals
  <1> HIDE DEF byRow, byCol, P
  <1>12. SumFunction(byRow) = SumFunction(f) /\ SumFunction(byCol) = SumFunction(g)
    BY <1>10, <1>11, SumsEqual
  <1> QED BY <1>7, <1>10, <1>12

\* One term more.
LEMMA SumOneMore ==
    ASSUME NEW f, Summable(f), NEW T \in SUBSET (DOMAIN f), NEW x \in (DOMAIN f) \ T
    PROVE  /\ SumFunction(Restrict(f, T)) \in Int /\ f[x] \in Int
           /\ SumFunction(Restrict(f, T \cup {x})) = f[x] + SumFunction(Restrict(f, T))
  <1>1. /\ DOMAIN Restrict(f, T) = T /\ DOMAIN Restrict(f, T \cup {x}) = T \cup {x}
        /\ \A y \in T : Restrict(f, T)[y] = f[y]
        /\ \A y \in T \cup {x} : Restrict(f, T \cup {x})[y] = f[y]
    BY DEF Restrict
  <1>2. IsFiniteSet(T) /\ IsFiniteSet(T \cup {x})
    BY FS_Subset DEF Summable
  <1>3. Summable(Restrict(f, T)) /\ Summable(Restrict(f, T \cup {x})) /\ f[x] \in Int
    BY <1>1, <1>2 DEF Summable
  <1>4. SumFunction(Restrict(f, T \cup {x})) = f[x] + SumFunction(Restrict(f, T))
    <2>1. (T \cup {x}) \ {x} = T
      OBVIOUS
    <2> QED BY <1>1, <1>3, <2>1, SumWithout
  <1> QED BY <1>3, <1>4, SumIsInt

LEMMA SumOfRestriction ==
    ASSUME NEW f, Summable(f)
    PROVE  SumFunction(Restrict(f, DOMAIN f)) = SumFunction(f) /\ SumFunction(Restrict(f, {})) = 0
  <1>1. SumFunction(Restrict(f, DOMAIN f)) = SumFunction(f)
    BY SumsEqual DEF Restrict
  <1>2. SumFunction(Restrict(f, {})) = 0
    BY SumOfNone DEF Restrict
  <1> QED BY <1>1, <1>2

\* Terms that are zero may be left out.
LEMMA SumOverSome ==
    ASSUME NEW f, Summable(f), NEW g, DOMAIN g \subseteq DOMAIN f,
           \A x \in DOMAIN g : g[x] = f[x], \A x \in (DOMAIN f) \ (DOMAIN g) : f[x] = 0
    PROVE  Summable(g) /\ SumFunction(g) = SumFunction(f)
  <1> DEFINE S == DOMAIN f
             T == DOMAIN g
             P == {U \in SUBSET S : SumFunction(Restrict(f, U)) = SumFunction(Restrict(g, U \cap T))}
  <1>0. Summable(g)
    BY FS_Subset DEF Summable
  <1>1. {} \in P
    <2>1. {} \cap T = {}
      OBVIOUS
    <2> QED BY <1>0, <2>1, SumOfRestriction
  <1>2. ASSUME NEW U \in P, NEW x \in S \ U PROVE U \cup {x} \in P
    <2>1. /\ SumFunction(Restrict(f, U)) \in Int /\ f[x] \in Int
          /\ SumFunction(Restrict(f, U \cup {x})) = f[x] + SumFunction(Restrict(f, U))
      BY SumOneMore
    <2>2. CASE x \in T
      <3>1. (U \cup {x}) \cap T = (U \cap T) \cup {x} /\ x \in T \ (U \cap T)
        BY <2>2
      <3>2. SumFunction(Restrict(g, (U \cap T) \cup {x})) = g[x] + SumFunction(Restrict(g, U \cap T))
        BY <1>0, <3>1, SumOneMore
      <3>3. g[x] = f[x]
        BY <2>2
      <3> QED BY <2>1, <3>1, <3>2, <3>3
    <2>3. CASE x \notin T
      <3>1. (U \cup {x}) \cap T = U \cap T
        BY <2>3
      <3>2. f[x] = 0
        BY <2>3
      <3>3. SumFunction(Restrict(f, U \cup {x})) = SumFunction(Restrict(f, U))
        BY <2>1, <3>2
      <3> QED BY <3>1, <3>3
    <2> QED BY <2>2, <2>3
  <1>3. P = SUBSET S
    <2> HIDE DEF P
    <2>1. P \in SUBSET (SUBSET S)
      BY DEF P
    <2> QED BY <1>1, <1>2, <2>1, SetInduction DEF Summable
  <1>4. S \in P /\ S \cap T = T
    BY <1>3
  <1> QED BY <1>0, <1>4, SumOfRestriction

\* The terms under other names.
LEMMA SumRenamed ==
    ASSUME NEW f, Summable(f), NEW g, NEW b \in [DOMAIN f -> DOMAIN g],
           \A x, y \in DOMAIN f : b[x] = b[y] => x = y,
           \A y \in DOMAIN g : \E x \in DOMAIN f : b[x] = y,
           \A x \in DOMAIN f : f[x] = g[b[x]]
    PROVE  Summable(g) /\ SumFunction(g) = SumFunction(f)
  <1> DEFINE S == DOMAIN f
             Image(U) == {b[x] : x \in U}
             P == {U \in SUBSET S : SumFunction(Restrict(f, U)) = SumFunction(Restrict(g, Image(U)))}
  <1>1. DOMAIN g = Image(S)
    OBVIOUS
  <1>2. IsFiniteSet(DOMAIN g)
    <2>1. b \in Surjection(S, DOMAIN g)
      BY DEF Surjection
    <2> QED BY <2>1, FS_Surjection DEF Summable
  <1>3. Summable(g)
    BY <1>2 DEF Summable
  <1>4. {} \in P
    <2>1. Image({}) = {}
      OBVIOUS
    <2> QED BY <1>3, <2>1, SumOfRestriction
  <1>5. ASSUME NEW U \in P, NEW x \in S \ U PROVE U \cup {x} \in P
    <2>1. /\ SumFunction(Restrict(f, U)) \in Int /\ f[x] \in Int
          /\ SumFunction(Restrict(f, U \cup {x})) = f[x] + SumFunction(Restrict(f, U))
      BY SumOneMore
    <2>2. /\ Image(U \cup {x}) = Image(U) \cup {b[x]}
          /\ Image(U) \in SUBSET (DOMAIN g) /\ b[x] \in (DOMAIN g) \ Image(U)
      OBVIOUS
    <2>3. SumFunction(Restrict(g, Image(U) \cup {b[x]})) = g[b[x]] + SumFunction(Restrict(g, Image(U)))
      <3> HIDE DEF Image
      <3> QED BY <1>3, <2>2, SumOneMore
    <2> QED BY <2>1, <2>2, <2>3
  <1>6. P = SUBSET S
    <2> HIDE DEF P
    <2>1. P \in SUBSET (SUBSET S)
      BY DEF P
    <2> QED BY <1>4, <1>5, <2>1, SetInduction DEF Summable
  <1>7. S \in P
    BY <1>6
  <1> QED BY <1>1, <1>3, <1>7, SumOfRestriction

\* Terms that are multiplied by the same number.
LEMMA SumTimes ==
    ASSUME NEW f, Summable(f), NEW c \in Int, NEW g, DOMAIN g = DOMAIN f,
           \A x \in DOMAIN f : g[x] = c * f[x]
    PROVE  Summable(g) /\ SumFunction(g) = c * SumFunction(f)
  <1> DEFINE S == DOMAIN f
             P == {U \in SUBSET S : SumFunction(Restrict(g, U)) = c * SumFunction(Restrict(f, U))}
  <1>0. Summable(g)
    BY DEF Summable
  <1>1. {} \in P
    <2>1. c * 0 = 0
      OBVIOUS
    <2> QED BY <1>0, <2>1, SumOfRestriction
  <1>2. ASSUME NEW U \in P, NEW x \in S \ U PROVE U \cup {x} \in P
    <2> DEFINE a == SumFunction(Restrict(f, U))
    <2>1. a \in Int /\ f[x] \in Int /\ SumFunction(Restrict(f, U \cup {x})) = f[x] + a
      BY SumOneMore
    <2>2. SumFunction(Restrict(g, U \cup {x})) = g[x] + SumFunction(Restrict(g, U))
      BY <1>0, SumOneMore
    <2>3. g[x] = c * f[x] /\ SumFunction(Restrict(g, U)) = c * a
      OBVIOUS
    <2> HIDE DEF a
    <2>4. c * (f[x] + a) = c * f[x] + c * a
      BY <2>1
    <2>5. SumFunction(Restrict(g, U \cup {x})) = c * SumFunction(Restrict(f, U \cup {x}))
      BY <2>1, <2>2, <2>3, <2>4
    <2> QED BY <2>5
  <1>3. P = SUBSET S
    <2> HIDE DEF P
    <2>1. P \in SUBSET (SUBSET S)
      BY DEF P
    <2> QED BY <1>1, <1>2, <2>1, SetInduction DEF Summable
  <1>4. S \in P
    BY <1>3
  <1> QED BY <1>0, <1>4, SumOfRestriction

(***************************************************************************)
(* Counting.                                                               *)
(***************************************************************************)
LEMMA SumOfOne ==
    ASSUME NEW f, NEW x, DOMAIN f = {x}, f[x] \in Int
    PROVE  Summable(f) /\ SumFunction(f) = f[x]
  <1>1. Summable(f)
    BY FS_Singleton DEF Summable
  <1> DEFINE g == [y \in {} |-> 0]
  <1>2. SumFunction(f) = f[x] + SumFunction(g)
    BY <1>1, SumWithout
  <1>3. SumFunction(g) = 0
    BY SumOfNone
  <1> HIDE DEF g
  <1> QED BY <1>1, <1>2, <1>3

\* What is summed, in parts by a key: part[k] holds the terms of key k, and g
\* the total of each part.
PartsByKey(f, K, key, part, g) ==
    /\ Summable(f) /\ IsFiniteSet(K) /\ DOMAIN g = K
    /\ \A x \in DOMAIN f : key[x] \in K
    /\ \A k \in K : /\ DOMAIN part[k] \subseteq DOMAIN f /\ g[k] = SumFunction(part[k])
                    /\ \A x \in DOMAIN f : x \in DOMAIN part[k] <=> key[x] = k
                    /\ \A x \in DOMAIN part[k] : part[k][x] = f[x]

\* The totals of the parts add up to the sum.
LEMMA SumByKey ==
    ASSUME NEW f, NEW K, NEW key, NEW part, NEW g, PartsByKey(f, K, key, part, g)
    PROVE  Summable(g) /\ SumFunction(g) = SumFunction(f)
  <1>0. /\ Summable(f) /\ IsFiniteSet(K) /\ DOMAIN g = K
        /\ \A x \in DOMAIN f : key[x] \in K
        /\ \A k \in K : /\ DOMAIN part[k] \subseteq DOMAIN f /\ g[k] = SumFunction(part[k])
                        /\ \A x \in DOMAIN f : x \in DOMAIN part[k] <=> key[x] = k
                        /\ \A x \in DOMAIN part[k] : part[k][x] = f[x]
    BY DEF PartsByKey
  <1> DEFINE S == DOMAIN f
             a == [x \in S |-> [k \in K |-> IF key[x] = k THEN f[x] ELSE 0]]
             b == [k \in K |-> [x \in S |-> IF key[x] = k THEN f[x] ELSE 0]]
  <1>1. IsFiniteSet(S) /\ \A x \in S : f[x] \in Int
    BY <1>0 DEF Summable
  <1>2. /\ DOMAIN a = S /\ DOMAIN b = K
        /\ \A x \in S : DOMAIN a[x] = K /\ \A k \in K : a[x][k] = IF key[x] = k THEN f[x] ELSE 0
        /\ \A k \in K : DOMAIN b[k] = S /\ \A x \in S : b[k][x] = IF key[x] = k THEN f[x] ELSE 0
    OBVIOUS
  <1> HIDE DEF S, a, b
  <1>3. ASSUME NEW x \in S PROVE SumFunction(a[x]) = f[x]
    <2>1. key[x] \in K
      BY <1>0 DEF S
    <2>2. Summable(a[x])
      BY <1>0, <1>1, <1>2 DEF Summable
    <2> DEFINE h == [k \in {key[x]} |-> f[x]]
    <2>3. DOMAIN h = {key[x]} /\ h[key[x]] = f[x]
      OBVIOUS
    <2> HIDE DEF h
    <2>4. SumFunction(h) = f[x]
      BY <1>1, <2>3, SumOfOne
    <2>5. SumFunction(h) = SumFunction(a[x])
      BY <1>2, <2>1, <2>2, <2>3, SumOverSome
    <2> QED BY <2>4, <2>5
  <1>4. ASSUME NEW k \in K PROVE SumFunction(b[k]) = g[k]
    <2>1. Summable(b[k])
      BY <1>1, <1>2 DEF Summable
    <2> DEFINE h == part[k]
    <2>2. /\ DOMAIN h \subseteq DOMAIN b[k]
          /\ \A x \in DOMAIN h : h[x] = b[k][x]
          /\ \A x \in (DOMAIN b[k]) \ (DOMAIN h) : b[k][x] = 0
          /\ g[k] = SumFunction(h)
      BY <1>0, <1>2 DEF S
    <2> HIDE DEF h
    <2>3. SumFunction(h) = SumFunction(b[k])
      BY <2>1, <2>2, SumOverSome
    <2> QED BY <2>2, <2>3
  <1>5. TableTotals(S, K, a, b, f, g)
    BY <1>0, <1>1, <1>2, <1>3, <1>4 DEF TableTotals, S
  <1> QED BY <1>5, SumsSwap

\* The same, where the parts are those of a key.
LEMMA SumByClass ==
  ASSUME NEW f, Summable(f), NEW K, IsFiniteSet(K), NEW key, \A x \in DOMAIN f : key[x] \in K,
         NEW g, DOMAIN g = K,
         \A k \in K : g[k] = SumFunction(Restrict(f, {x \in DOMAIN f : key[x] = k}))
  PROVE  Summable(g) /\ SumFunction(g) = SumFunction(f)
<1>. DEFINE part == [k \in K |-> Restrict(f, {x \in DOMAIN f : key[x] = k})]
<1>1. \A k \in K : /\ DOMAIN part[k] \subseteq DOMAIN f /\ g[k] = SumFunction(part[k])
                   /\ \A x \in DOMAIN f : x \in DOMAIN part[k] <=> key[x] = k
                   /\ \A x \in DOMAIN part[k] : part[k][x] = f[x]
  BY DEF Restrict
<1>. HIDE DEF part
<1>2. PartsByKey(f, K, key, part, g)
  BY <1>1 DEF PartsByKey
<1>. QED
  BY <1>2, SumByKey

\* The members of a set are counted by a sum of ones.
LEMMA CountIsSum ==
    ASSUME NEW S, IsFiniteSet(S), NEW M \in SUBSET S, NEW f, DOMAIN f = S,
           \A x \in M : f[x] = 1, \A x \in S \ M : f[x] = 0
    PROVE  Summable(f) /\ SumFunction(f) = Cardinality(M)
  <1>0. Summable(f)
    BY DEF Summable
  <1> DEFINE P == {U \in SUBSET S : SumFunction(Restrict(f, U)) = Cardinality(U \cap M)}
  <1>1. {} \in P
    BY <1>0, SumOfRestriction, FS_EmptySet
  <1>2. ASSUME NEW U \in P, NEW x \in S \ U PROVE U \cup {x} \in P
    <2>1. /\ SumFunction(Restrict(f, U \cup {x})) = f[x] + SumFunction(Restrict(f, U))
          /\ SumFunction(Restrict(f, U)) \in Int
      BY <1>0, SumOneMore
    <2>2. IsFiniteSet(U \cap M)
      BY FS_Subset
    <2>3. Cardinality((U \cup {x}) \cap M) = Cardinality(U \cap M) + f[x]
      <3>1. CASE x \in M
        <4>1. (U \cup {x}) \cap M = (U \cap M) \cup {x} /\ x \notin U \cap M
          BY <3>1
        <4> QED BY <2>2, <3>1, <4>1, FS_AddElement
      <3>2. CASE x \notin M
        <4>1. (U \cup {x}) \cap M = U \cap M
          BY <3>2
        <4>2. f[x] = 0 /\ Cardinality(U \cap M) \in Int
          BY <2>2, <3>2, FS_CardinalityType
        <4>3. Cardinality((U \cup {x}) \cap M) = Cardinality(U \cap M)
          BY <4>1, Zenon
        <4> QED BY <4>2, <4>3
      <3> QED BY <3>1, <3>2
    <2>4. Cardinality(U \cap M) \in Int
      BY <2>2, FS_CardinalityType
    <2> QED BY <2>1, <2>3, <2>4
  <1> HIDE DEF P
  <1>3. P \in SUBSET (SUBSET S)
    BY DEF P
  <1>4. P = SUBSET S
    <2>1. \A U \in P : \A x \in S \ U : U \cup {x} \in P
      BY <1>2
    <2>2. IsFiniteSet(S)
      OBVIOUS
    <2> QED BY ONLY <1>1, <1>3, <2>1, <2>2, SetInduction
  <1>5. SumFunction(Restrict(f, S)) = Cardinality(S \cap M)
    BY <1>4 DEF P
  <1>6. S \cap M = M
    OBVIOUS
  <1> QED BY <1>0, <1>5, <1>6, SumOfRestriction

LEMMA Firsts ==
    ASSUME NEW n \in Nat
    PROVE  IsFiniteSet(0..(n - 1)) /\ Cardinality(0..(n - 1)) = n
  BY FS_Interval

LEMMA ValuesBelow ==
    ASSUME NEW T, NEW f, f = [x \in T |-> f[x]], NEW n \in Nat,
           \A x \in T : f[x] \in Nat /\ f[x] < n
    PROVE  f \in [T -> 0..(n - 1)]
  OBVIOUS

\* In a finite order each rank, the number of those before, is taken once.
LEMMA RanksAreTaken ==
    ASSUME NEW S, IsFiniteSet(S), NEW below \in [S -> SUBSET S],
           \A x \in S : x \notin below[x],
           \A x, y \in S : x \in below[y] => below[x] \subseteq below[y],
           \A x, y \in S : x # y => x \in below[y] \/ y \in below[x],
           NEW c \in 0..Cardinality(S),
           NEW first \in SUBSET S, \A x \in S : x \in first <=> Cardinality(below[x]) < c
    PROVE  Cardinality(first) = c
  <1> DEFINE N == Cardinality(S)
             rank == [x \in S |-> Cardinality(below[x])]
  <1>1. N \in Nat /\ c \in Nat /\ c <= N
    BY FS_CardinalityType
  <1> HIDE DEF N
  <1>2. ASSUME NEW x \in S PROVE IsFiniteSet(below[x]) /\ rank[x] \in Nat /\ rank[x] < N
    <2>1. below[x] \in SUBSET S /\ below[x] # S
      OBVIOUS
    <2>2. IsFiniteSet(below[x]) /\ Cardinality(below[x]) <= N /\ Cardinality(below[x]) # N
      BY <2>1, FS_Subset DEF N
    <2>3. Cardinality(below[x]) \in Nat
      BY <2>2, FS_CardinalityType
    <2> QED BY <1>1, <2>2, <2>3
  <1>3. ASSUME NEW x \in S, NEW y \in S, x \in below[y] PROVE rank[x] < rank[y]
    <2>1. below[x] \cup {x} \in SUBSET below[y] /\ x \notin below[x]
      BY <1>3
    <2>2. /\ IsFiniteSet(below[x]) /\ rank[x] = Cardinality(below[x])
          /\ IsFiniteSet(below[y]) /\ rank[y] = Cardinality(below[y])
          /\ rank[x] \in Nat /\ rank[y] \in Nat
      BY <1>2
    <2> HIDE DEF rank
    <2>3. Cardinality(below[x] \cup {x}) = rank[x] + 1
      <3> DEFINE T == below[x]
      <3>1. IsFiniteSet(T) /\ x \notin T /\ rank[x] = Cardinality(T)
        BY <2>1, <2>2
      <3> HIDE DEF T
      <3>2. Cardinality(T \cup {x}) = rank[x] + 1
        BY <3>1, FS_AddElement
      <3> QED BY <3>2 DEF T
    <2>4. Cardinality(below[x] \cup {x}) <= rank[y]
      BY <2>1, <2>2, FS_Subset
    <2> QED BY <2>2, <2>3, <2>4
  <1>a. \A x \in S : rank[x] \in Nat /\ rank[x] < N
    BY <1>2
  <1>b. rank = [x \in S |-> rank[x]]
    OBVIOUS
  <1>c. \A x, y \in S : x \in below[y] => rank[x] < rank[y]
    BY <1>3
  <1>d. \A x \in S : x \in first <=> rank[x] < c
    OBVIOUS
  <1> HIDE DEF rank
  <1>4. rank \in Injection(S, 0..(N - 1))
    <2>1. rank \in [S -> 0..(N - 1)]
      BY <1>1, <1>a, <1>b, ValuesBelow
    <2>2. ASSUME NEW x \in S, NEW y \in S, rank[x] = rank[y] PROVE x = y
      <3>1. ~(rank[x] < rank[y]) /\ ~(rank[y] < rank[x])
        BY <1>a, <2>2
      <3> QED BY <1>c, <3>1
    <2> QED BY <2>1, <2>2 DEF Injection, IsInjective
  <1>5. IsFiniteSet(0..(N - 1)) /\ Cardinality(0..(N - 1)) = N
    BY <1>1, Firsts
  <1>6. rank \in Surjection(S, 0..(N - 1))
    BY <1>4, <1>5, FS_Injection DEF N
  <1> DEFINE b == [x \in first |-> rank[x]]
  <1>7. b \in [first -> 0..(c - 1)]
    <2>1. b = [x \in first |-> b[x]] /\ \A x \in first : b[x] \in Nat /\ b[x] < c
      BY <1>a, <1>d
    <2> HIDE DEF b
    <2> QED BY <1>1, <2>1, ValuesBelow
  <1>8. b \in Injection(first, 0..(c - 1))
    BY <1>4, <1>7 DEF Injection, IsInjective
  <1>9. b \in Surjection(first, 0..(c - 1))
    <2>1. ASSUME NEW k \in 0..(c - 1) PROVE \E x \in first : b[x] = k
      <3>1. k \in 0..(N - 1) /\ k < c
        BY <1>1
      <3>2. PICK x \in S : rank[x] = k
        BY <1>6, <3>1 DEF Surjection
      <3> QED BY <1>d, <3>1, <3>2
    <2> QED BY <1>7, <2>1 DEF Surjection
  <1>10. IsFiniteSet(0..(c - 1)) /\ Cardinality(0..(c - 1)) = c
    BY <1>1, Firsts
  <1> QED BY <1>8, <1>9, <1>10, FS_Injection

(***************************************************************************)
(* Dates.                                                                  *)
(***************************************************************************)
LEMMA MonthLengths ==
    ASSUME NEW y \in Int, NEW m \in Int
    PROVE  /\ MonthLength(y, m) \in 28 .. 31
           /\ m = 2 => MonthLength(y, m) = IF IsLeap(y) THEN 29 ELSE 28
           /\ m \in {4, 6, 9, 11} => MonthLength(y, m) = 30
           /\ m \in {1, 3, 5, 7, 8, 10, 12} => MonthLength(y, m) = 31
  <1>1. CASE m = 2
    <2>1. MonthLength(y, m) = IF IsLeap(y) THEN 29 ELSE 28
      BY <1>1 DEF MonthLength
    <2> QED BY <1>1, <2>1
  <1>2. CASE m \in {4, 6, 9, 11}
    <2>1. m # 2
      BY <1>2
    <2>2. MonthLength(y, m) = 30
      BY <1>2, <2>1, Zenon DEF MonthLength
    <2> QED BY <1>2, <2>1, <2>2
  <1>3. CASE m # 2 /\ m \notin {4, 6, 9, 11}
    <2>1. MonthLength(y, m) = 31
      BY <1>3, Zenon DEF MonthLength
    <2> QED BY <1>3, <2>1
  <1> QED BY <1>1, <1>2, <1>3

LEMMA MonthStarts ==
    ASSUME NEW y \in Int
    PROVE  /\ DaysBefore(y, 1) = 0
           /\ \A m \in 1 .. 12 : DaysBefore(y, m) \in Int /\ DaysBefore(y, m + 1) = DaysBefore(y, m) + MonthLength(y, m)
  <1> DEFINE f(m) == [k \in 1 .. m - 1 |-> MonthLength(y, k)]
  <1>1. DaysBefore(y, 1) = 0
    <2>1. DOMAIN f(1) = {}
      OBVIOUS
    <2> QED BY <2>1, SumOfNone DEF DaysBefore
  <1>2. ASSUME NEW m \in 1 .. 12
        PROVE  DaysBefore(y, m) \in Int /\ DaysBefore(y, m + 1) = DaysBefore(y, m) + MonthLength(y, m)
    <2> DEFINE g == f(m + 1)
               h == f(m)
    <2>0. IsFiniteSet(1 .. (m + 1) - 1) /\ IsFiniteSet(1 .. m - 1)
      BY FS_Interval
    <2>1. Summable(g) /\ Summable(h)
      BY <2>0, MonthLengths DEF Summable
    <2>2. m \in DOMAIN g /\ DOMAIN h = DOMAIN g \ {m} /\ (\A k \in DOMAIN h : h[k] = g[k]) /\ g[m] = MonthLength(y, m)
      OBVIOUS
    <2>3. DaysBefore(y, m + 1) = SumFunction(g) /\ DaysBefore(y, m) = SumFunction(h)
      BY DEF DaysBefore
    <2> HIDE DEF g, h
    <2>4. SumFunction(g) = g[m] + SumFunction(h) /\ SumFunction(h) \in Int
      BY <2>1, <2>2, SumWithout, SumIsInt
    <2>5. MonthLength(y, m) \in Int
      BY MonthLengths
    <2> QED BY <2>2, <2>3, <2>4, <2>5
  <1> QED BY <1>1, <1>2

\* A month starts after the months before it in its year end, and a year after
\* its last month.
LEMMA MonthsInOrder ==
    ASSUME NEW y \in Int
    PROVE  /\ \A m, n \in 1 .. 12 : m < n => DaysBefore(y, n) >= DaysBefore(y, m) + MonthLength(y, m)
           /\ \A m \in 1 .. 12 : DaysBefore(y, m) \in Nat
           /\ \A m \in 1 .. 12 : DaysBefore(y, m) + MonthLength(y, m) <= DaysInYear(y)
           /\ DaysBefore(y, 12) + MonthLength(y, 12) = DaysInYear(y)
  <1> DEFINE D(m) == DaysBefore(y, m)
             L(m) == MonthLength(y, m)
  <1>1. D(1) = 0 /\ \A m \in 1 .. 12 : D(m) \in Int /\ D(m + 1) = D(m) + L(m)
    BY MonthStarts
  <1>2. /\ L(2) = (IF IsLeap(y) THEN 29 ELSE 28)
        /\ L(1) = 31 /\ L(3) = 31 /\ L(4) = 30 /\ L(5) = 31 /\ L(6) = 30 /\ L(7) = 31
        /\ L(8) = 31 /\ L(9) = 30 /\ L(10) = 31 /\ L(11) = 30 /\ L(12) = 31
    BY MonthLengths
  <1> DEFINE leap == IF IsLeap(y) THEN 1 ELSE 0
  <1>3. DaysInYear(y) = 365 + leap /\ L(2) = 28 + leap /\ leap \in 0 .. 1
    BY <1>2 DEF DaysInYear
  <1> HIDE DEF D, L, leap
  <1>4. /\ D(1) = 0 /\ D(2) = 31 /\ D(3) = 59 + leap /\ D(4) = 90 + leap /\ D(5) = 120 + leap
        /\ D(6) = 151 + leap /\ D(7) = 181 + leap
    <2>1. D(1 + 1) = D(1) + L(1) /\ D(2 + 1) = D(2) + L(2) /\ D(3 + 1) = D(3) + L(3)
          /\ D(4 + 1) = D(4) + L(4) /\ D(5 + 1) = D(5) + L(5) /\ D(6 + 1) = D(6) + L(6)
      BY <1>1
    <2> QED BY <1>1, <1>2, <1>3, <2>1
  <1>5. /\ D(8) = 212 + leap /\ D(9) = 243 + leap /\ D(10) = 273 + leap /\ D(11) = 304 + leap
        /\ D(12) = 334 + leap
    <2>1. D(7 + 1) = D(7) + L(7) /\ D(8 + 1) = D(8) + L(8) /\ D(9 + 1) = D(9) + L(9)
          /\ D(10 + 1) = D(10) + L(10) /\ D(11 + 1) = D(11) + L(11)
      BY <1>1
    <2> QED BY <1>2, <1>3, <1>4, <2>1
  <1>6. \A m \in 1 .. 12 : D(m) \in Nat /\ D(m) + L(m) <= 365 + leap
    BY <1>2, <1>3, <1>4, <1>5
  <1>7. ASSUME NEW m \in 1 .. 12, NEW n \in 1 .. 12, m < n PROVE D(n) >= D(m) + L(m)
    <2>1. m \in {1, 2, 3, 4, 5, 6, 7, 8, 9, 10, 11} /\ n \in {2, 3, 4, 5, 6, 7, 8, 9, 10, 11, 12}
      BY <1>7
    <2>2. D(n) >= D(m + 1)
      BY <1>3, <1>4, <1>5, <1>7, <2>1
    <2> QED BY <1>1, <2>2
  <1>8. D(12) + L(12) = 365 + leap
    BY <1>2, <1>3, <1>5
  <1> QED BY <1>3, <1>6, <1>7, <1>8 DEF D, L

\* Days before the first of January.
YearStart(y) == 365 * (y - 1) + (y - 1) \div 4 - (y - 1) \div 100 + (y - 1) \div 400

LEMMA YearsInOrder ==
    ASSUME NEW y \in Int, NEW z \in Int, y < z
    PROVE  /\ YearStart(y) \in Int /\ YearStart(z) \in Int
           /\ YearStart(y) + DaysInYear(y) <= YearStart(z)
           /\ z = y + 1 => YearStart(y) + DaysInYear(y) = YearStart(z)
  <1> DEFINE x == y - 1
             g == z - 1
             leap == IF IsLeap(y) THEN 1 ELSE 0
  <1>1. x \in Int /\ g \in Int /\ x + 1 <= g
    OBVIOUS
  <1>2. DaysInYear(y) = 365 + leap
    BY DEF DaysInYear
  <1>3. /\ x \div 4 \in Int /\ x \div 100 \in Int /\ x \div 400 \in Int
        /\ g \div 4 \in Int /\ g \div 100 \in Int /\ g \div 400 \in Int
    BY <1>1
  <1>4. /\ (x + 1) \div 4 - (x + 1) \div 100 + (x + 1) \div 400
             = x \div 4 - x \div 100 + x \div 400 + leap
    BY <1>1 DEF IsLeap
  <1>5. 365 * (x + 1) + (x + 1) \div 4 - (x + 1) \div 100 + (x + 1) \div 400
          <= 365 * g + g \div 4 - g \div 100 + g \div 400
    BY <1>1
  <1>6. z = y + 1 => 365 * (x + 1) + (x + 1) \div 4 - (x + 1) \div 100 + (x + 1) \div 400
                       = 365 * g + g \div 4 - g \div 100 + g \div 400
    BY <1>1
  <1> QED BY <1>1, <1>2, <1>3, <1>4, <1>5, <1>6 DEF YearStart

LEMMA DayNumberOf ==
    ASSUME NEW dt \in Date
    PROVE  /\ dt = <<dt[1], dt[2], dt[3]>> /\ dt[1] \in Int /\ dt[2] \in 1 .. 12 /\ dt[3] \in 1 .. 31
           /\ dt[3] <= MonthLength(dt[1], dt[2])
           /\ DayNumber(dt) = YearStart(dt[1]) + DaysBefore(dt[1], dt[2]) + dt[3]
           /\ YearStart(dt[1]) \in Int /\ DaysBefore(dt[1], dt[2]) \in Int /\ DayNumber(dt) \in Int
  <1>1. /\ dt = <<dt[1], dt[2], dt[3]>> /\ dt[1] \in Int /\ dt[2] \in 1 .. 12 /\ dt[3] \in 1 .. 31
        /\ dt[3] <= MonthLength(dt[1], dt[2])
    BY DEF Date
  <1>2. DaysBefore(dt[1], dt[2]) \in Int
    BY <1>1, MonthStarts
  <1>3. YearStart(dt[1]) \in Int
    <2>1. dt[1] < dt[1] + 1 /\ dt[1] + 1 \in Int
      BY <1>1
    <2> QED BY <1>1, <2>1, YearsInOrder
  <1>4. DayNumber(dt) = YearStart(dt[1]) + DaysBefore(dt[1], dt[2]) + dt[3]
    BY DEF DayNumber, YearStart
  <1> QED BY <1>1, <1>2, <1>3, <1>4

\* Days are numbered in the order of the calendar.
InLaterMonth(d, e) == d[1] < e[1] \/ (d[1] = e[1] /\ d[2] < e[2])
LEMMA LaterMonth ==
    ASSUME NEW d \in Date, NEW e \in Date, InLaterMonth(d, e)
    PROVE  DayNumber(d) < DayNumber(e)
  <1> DEFINE y == d[1]
             m == d[2]
             z == e[1]
             n == e[2]
  <1>1. /\ y \in Int /\ m \in 1 .. 12 /\ d[3] \in 1 .. 31 /\ d[3] <= MonthLength(y, m)
        /\ DayNumber(d) = YearStart(y) + DaysBefore(y, m) + d[3]
        /\ YearStart(y) \in Int /\ DaysBefore(y, m) \in Int
    BY DayNumberOf
  <1>2. /\ z \in Int /\ n \in 1 .. 12 /\ e[3] \in 1 .. 31
        /\ DayNumber(e) = YearStart(z) + DaysBefore(z, n) + e[3]
        /\ YearStart(z) \in Int /\ DaysBefore(z, n) \in Int
    BY DayNumberOf
  <1>3. MonthLength(y, m) \in Int /\ DaysInYear(y) \in Int
    BY <1>1, MonthLengths DEF DaysInYear
  <1>4. CASE y < z
    <2>1. DaysBefore(y, m) + MonthLength(y, m) <= DaysInYear(y)
      BY <1>1, MonthsInOrder
    <2>2. DaysBefore(z, n) >= 0
      <3>1. DaysBefore(z, n) \in Nat
        BY <1>2, MonthsInOrder
      <3> QED BY <3>1
    <2>3. YearStart(y) + DaysInYear(y) <= YearStart(z)
      BY <1>1, <1>2, <1>4, YearsInOrder
    <2> HIDE DEF y, m, z, n
    <2> QED BY <1>1, <1>2, <1>3, <2>1, <2>2, <2>3
  <1>5. CASE y = z /\ m < n
    <2>1. DaysBefore(y, n) >= DaysBefore(y, m) + MonthLength(y, m)
      BY <1>1, <1>2, <1>5, MonthsInOrder
    <2>2. YearStart(z) = YearStart(y) /\ DaysBefore(z, n) = DaysBefore(y, n)
      BY <1>5
    <2> HIDE DEF y, m, z, n
    <2> QED BY <1>1, <1>2, <1>3, <2>1, <2>2
  <1> QED BY <1>4, <1>5 DEF InLaterMonth

LEMMA DatesAreNumbered ==
    ASSUME NEW d \in Date, NEW e \in Date
    PROVE  DayNumber(d) = DayNumber(e) => d = e
  <1>1. CASE InLaterMonth(d, e)
    BY <1>1, LaterMonth, DayNumberOf
  <1>2. CASE InLaterMonth(e, d)
    BY <1>2, LaterMonth, DayNumberOf
  <1>3. CASE ~InLaterMonth(d, e) /\ ~InLaterMonth(e, d)
    <2>1. /\ d[1] \in Int /\ e[1] \in Int /\ d[2] \in Int /\ e[2] \in Int /\ d[3] \in Int /\ e[3] \in Int
          /\ d = <<d[1], d[2], d[3]>> /\ e = <<e[1], e[2], e[3]>>
      BY DayNumberOf
    <2>2. d[1] = e[1] /\ d[2] = e[2]
      BY <1>3, <2>1 DEF InLaterMonth
    <2> DEFINE w == YearStart(d[1]) + DaysBefore(d[1], d[2])
    <2>3. DayNumber(d) = w + d[3] /\ DayNumber(e) = w + e[3] /\ w \in Int
      BY <2>2, DayNumberOf
    <2> HIDE DEF w
    <2>4. DayNumber(d) = DayNumber(e) => d[3] = e[3]
      BY <2>1, <2>3
    <2> QED BY <2>1, <2>2, <2>4
  <1> QED BY <1>1, <1>2, <1>3

LEMMA EarlierOfDates ==
    ASSUME NEW d \in Date, NEW e \in Date
    PROVE  /\ EarlierOf(d, e) \in Date
           /\ ~Earlier(e, EarlierOf(d, e))
           /\ \A c \in Date : Earlier(c, d) /\ Earlier(c, e) => Earlier(c, EarlierOf(d, e))
  <1>1. DayNumber(d) \in Int /\ DayNumber(e) \in Int
    BY DayNumberOf
  <1> QED BY <1>1 DEF EarlierOf, Earlier

\* A date some months later is a date, and later if there are any.
LEMMA MonthsLater ==
    ASSUME NEW dt \in Date, NEW months \in Int, NEW roll \in BOOLEAN
    PROVE  /\ AddMonths(dt, months, roll) \in Date
           /\ months > 0 => Earlier(dt, AddMonths(dt, months, roll))
  <1> DEFINE m == dt[2] - 1 + months
             y == dt[1] + m \div 12
             n == (m % 12) + 1
             last == MonthLength(y, n)
             day == IF roll \/ dt[3] > last THEN last ELSE dt[3]
             e == AddMonths(dt, months, roll)
  <1>1. /\ dt[1] \in Int /\ dt[2] \in 1 .. 12 /\ dt[3] \in 1 .. 31
    BY DayNumberOf
  <1>2. m \in Int /\ m \div 12 \in Int /\ n \in 1 .. 12 /\ y \in Int
    BY <1>1
  <1>3. e = <<y, n, day>>
    BY DEF AddMonths
  <1> HIDE DEF n, y
  <1>4. last \in 28 .. 31
    BY <1>2, MonthLengths
  <1> HIDE DEF last
  <1>5. day \in 1 .. 31 /\ day <= last
    BY <1>1, <1>4
  <1> HIDE DEF day, e
  <1>6. e \in Date
    BY <1>2, <1>3, <1>5 DEF Date, last
  <1>7. ASSUME months > 0 PROVE Earlier(dt, e)
    <2>1. dt[1] < y \/ (dt[1] = y /\ dt[2] < n)
      <3>1. m >= dt[2] /\ y = dt[1] + (m \div 12) /\ n = (m % 12) + 1
        BY <1>1, <1>7 DEF y, n
      <3> HIDE DEF m
      <3>2. CASE m >= 12
        <4>1. m \div 12 >= 1
          BY <1>2, <3>2
        <4> QED BY <1>1, <1>2, <3>1, <4>1
      <3>3. CASE m < 12
        <4>1. m \div 12 = 0 /\ m % 12 = m
          BY <1>1, <1>2, <3>1, <3>3
        <4> QED BY <1>1, <1>2, <3>1, <4>1
      <3> QED BY <1>2, <3>2, <3>3
    <2>2. InLaterMonth(dt, e)
      BY <1>3, <2>1 DEF InLaterMonth
    <2> QED BY <1>6, <2>2, LaterMonth DEF Earlier
  <1> QED BY <1>6, <1>7 DEF e
\* The day after the last one of a month.
LEMMA DayAfter ==
    ASSUME NEW y \in Int, NEW m \in 1 .. 12,
           NEW last, last = <<y, m, MonthLength(y, m)>>,
           NEW next, next = IF m = 12 THEN <<y + 1, 1, 1>> ELSE <<y, m + 1, 1>>
    PROVE  last \in Date /\ next \in Date /\ DayNumber(next) = DayNumber(last) + 1
  <1>1. MonthLength(y, m) \in 28 .. 31 /\ MonthLength(y, m + 1) \in 28 .. 31 /\ MonthLength(y + 1, 1) \in 28 .. 31
    BY MonthLengths
  <1>2. last \in Date
    BY <1>1 DEF Date
  <1>3. next \in Date
    BY <1>1 DEF Date
  <1>4. /\ DayNumber(last) = YearStart(y) + DaysBefore(y, m) + MonthLength(y, m)
        /\ YearStart(y) \in Int /\ DaysBefore(y, m) \in Int
    BY <1>2, DayNumberOf
  <1>5. CASE m = 12
    <2>1. next = <<y + 1, 1, 1>>
      BY <1>5
    <2>2. DayNumber(next) = YearStart(y + 1) + DaysBefore(y + 1, 1) + 1 /\ YearStart(y + 1) \in Int
      BY <1>3, <2>1, DayNumberOf
    <2>3. DaysBefore(y + 1, 1) = 0
      BY MonthStarts
    <2>4. YearStart(y) + DaysInYear(y) = YearStart(y + 1)
      BY YearsInOrder
    <2>5. DaysBefore(y, 12) + MonthLength(y, 12) = DaysInYear(y)
      BY MonthsInOrder
    <2> QED BY <1>1, <1>2, <1>3, <1>4, <1>5, <2>2, <2>3, <2>4, <2>5
  <1>6. CASE m # 12
    <2>1. next = <<y, m + 1, 1>>
      BY <1>6
    <2>2. DayNumber(next) = YearStart(y) + DaysBefore(y, m + 1) + 1
      BY <1>3, <2>1, DayNumberOf
    <2>3. DaysBefore(y, m + 1) = DaysBefore(y, m) + MonthLength(y, m)
      BY MonthStarts
    <2> QED BY <1>1, <1>2, <1>3, <1>4, <2>2, <2>3
  <1> QED BY <1>5, <1>6
=============================================================================
