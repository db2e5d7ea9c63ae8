------------------------------ MODULE SumProofs ------------------------------
(***************************************************************************)
(* What SumFunction adds up, whatever order it goes through the domain in. *)
(***************************************************************************)
EXTENDS Integers, Functions, FiniteSets, FiniteSetTheorems,
        WellFoundedInduction, TLAPS

\* One step of the recursion by which SumFunction is defined.
Unfold(f, it, s) ==
    IF s = {} THEN 0
    ELSE LET x == CHOOSE x \in s : TRUE IN f[x] + it[s \ {x}]

\* it is what that recursion defines on the subsets of S.
Sums(f, it, S) == it = [s \in SUBSET S |-> Unfold(f, it, s)]

\* The restriction of f to T.
Part(f, T) == [d \in T |-> f[d]]

-----------------------------------------------------------------------------
(* The recursion defines a function on the subsets of a finite set.        *)

\* Among sets of natural numbers there are least elements.
LEMMA LeastNumber ==
    ASSUME NEW B \in SUBSET Nat, B # {}
    PROVE  \E n \in B : \A m \in B : n <= m
<1>1. PICK n \in B : \A m \in B : <<m, n>> \notin OpToRel(<, Nat)
  BY NatLessThanWellFounded, WFMin
<1>2. ASSUME NEW m \in B, m < n PROVE FALSE
  <2>1. <<m, n>> \in OpToRel(<, Nat)
    BY <1>2 DEF OpToRel
  <2>2. QED
    BY <1>1, <2>1
<1>3. QED
  BY <1>2

\* Finite subsets of a finite set have a size, one less without an element.
LEMMA SizeWithout ==
    ASSUME NEW s, IsFiniteSet(s), NEW x \in s
    PROVE  /\ IsFiniteSet(s \ {x})
           /\ Cardinality(s) \in Nat
           /\ Cardinality(s \ {x}) \in Nat
           /\ Cardinality(s \ {x}) = Cardinality(s) - 1
BY FS_RemoveElement, FS_CardinalityType

\* The recursion defines a function, whatever the finite set.
LEMMA SumsExist ==
    ASSUME NEW f, NEW S, IsFiniteSet(S)
    PROVE  \E it : Sums(f, it, S)
<1> DEFINE Small(n) == {s \in SUBSET S : Cardinality(s) <= n}
           Upto(n) == \E it : it = [s \in Small(n) |-> Unfold(f, it, s)]
           Bad == {n \in Nat : ~Upto(n)}
<1>1. \A s \in SUBSET S : IsFiniteSet(s) /\ Cardinality(s) \in Nat
  BY FS_Subset, FS_CardinalityType
<1>2. Bad = {}
  <2>1. SUFFICES ASSUME Bad # {} PROVE FALSE
    OBVIOUS
  <2>2. PICK n \in Bad : \A m \in Bad : n <= m
    <3>1. Bad \subseteq Nat
      OBVIOUS
    <3> HIDE DEF Bad
    <3>2. QED
      BY <2>1, <3>1, LeastNumber
  <2>3. CASE n = 0
    <3>1. \A s \in Small(0) : s = {}
      BY <1>1, FS_EmptySet
    <3> DEFINE zero == [s \in Small(0) |-> 0]
    <3>2. zero = [s \in Small(0) |-> Unfold(f, zero, s)]
      BY <3>1 DEF Unfold
    <3>3. Upto(0)
      BY <3>2
    <3>4. QED
      BY <2>3, <3>3
  <2>4. CASE n # 0
    <3>1. n - 1 \in Nat /\ n - 1 < n
      BY <2>4
    <3>2. PICK it : it = [s \in Small(n - 1) |-> Unfold(f, it, s)]
      <4>1. n - 1 \notin Bad
        <5>1. \A m \in Bad : n <= m
          BY <2>2
        <5>2. n \in Nat
          BY <2>2
        <5> HIDE DEF Bad
        <5>3. QED
          BY <3>1, <5>1, <5>2
      <4> HIDE DEF Small
      <4>2. QED
        BY <3>1, <4>1
    <3> DEFINE it2 == [s \in Small(n) |-> Unfold(f, it, s)]
    <3>3. Small(n - 1) \subseteq Small(n)
      BY <1>1, <3>1
    <3>4. \A s \in Small(n - 1) : it2[s] = it[s]
      <4> HIDE DEF Small
      <4>1. QED
        BY <3>2, <3>3
    <3>5. ASSUME NEW s \in Small(n) PROVE Unfold(f, it2, s) = Unfold(f, it, s)
      <4>1. CASE s = {}
        BY <4>1 DEF Unfold
      <4>2. CASE s # {}
        <5> DEFINE x == CHOOSE x \in s : TRUE
        <5>1. x \in s
          BY <4>2
        <5> HIDE DEF x
        <5>2. s \ {x} \in Small(n - 1)
          BY <1>1, <5>1, SizeWithout
        <5>3. it2[s \ {x}] = it[s \ {x}]
          BY <3>4, <5>2
        <5>4. QED
          BY <4>2, <5>3 DEF Unfold, x
      <4>3. QED
        BY <4>1, <4>2
    <3>6. it2 = [s \in Small(n) |-> Unfold(f, it2, s)]
      BY <3>5
    <3>7. QED
      BY <2>2, <3>6
  <2>5. QED
    BY <2>3, <2>4
<1>3. Cardinality(S) \in Nat /\ Upto(Cardinality(S))
  BY <1>1, <1>2
<1>4. Small(Cardinality(S)) = SUBSET S
  BY <1>1, FS_Subset
<1>5. QED
  BY <1>3, <1>4 DEF Sums

\* SumFunction is what such a function gives for the whole domain.
LEMMA SumUnfolds ==
    ASSUME NEW f, IsFiniteSet(DOMAIN f)
    PROVE  \E it : Sums(f, it, DOMAIN f) /\ SumFunction(f) = it[DOMAIN f]
<1> DEFINE S == DOMAIN f
           iter == CHOOSE it : Sums(f, it, S)
<1>1. SumFunction(f) = iter[S]
  BY DEF SumFunction, SumFunctionOnSet, FoldFunctionOnSet, MapThenFoldSet,
         Sums, Unfold
<1>2. Sums(f, iter, S)
  BY SumsExist
<1>3. QED
  BY <1>1, <1>2

-----------------------------------------------------------------------------
(* The order does not matter.                                              *)

\* The value for a set, taking out any element of it first.
LEMMA SumsTakeAny ==
    ASSUME NEW f, NEW S, IsFiniteSet(S), NEW it, Sums(f, it, S),
           \A x \in S : f[x] \in Int
    PROVE  /\ it[{}] = 0
           /\ \A s \in SUBSET S :
                 /\ it[s] \in Int
                 /\ \A x \in s : it[s] = f[x] + it[s \ {x}]
<1> DEFINE Good(s) == /\ it[s] \in Int
                      /\ \A x \in s : it[s] = f[x] + it[s \ {x}]
           Bad == {s \in SUBSET S : ~Good(s)}
           sizes == {Cardinality(s) : s \in Bad}
<1>1. \A s \in SUBSET S : IsFiniteSet(s) /\ Cardinality(s) \in Nat
  BY FS_Subset, FS_CardinalityType
<1>2. it[{}] = 0
  BY DEF Sums, Unfold
<1>3. ASSUME NEW s \in SUBSET S, s # {}
      PROVE  \E x \in s : it[s] = f[x] + it[s \ {x}]
  BY <1>3 DEF Sums, Unfold
<1>4. Bad = {}
  <2>1. SUFFICES ASSUME Bad # {} PROVE FALSE
    OBVIOUS
  <2>2. PICK s \in Bad : \A t \in Bad : Cardinality(s) <= Cardinality(t)
    <3>1. sizes \in SUBSET Nat /\ sizes # {}
      BY <1>1, <2>1
    <3>2. PICK n \in sizes : \A m \in sizes : n <= m
      <4> HIDE DEF sizes
      <4>1. QED
        BY <3>1, LeastNumber
    <3> HIDE DEF Bad
    <3>3. QED
      BY <3>2
  <2>3. s \in SUBSET S /\ IsFiniteSet(s) /\ ~Good(s)
    BY <1>1
  <2>4. ASSUME NEW x \in s PROVE s \ {x} \in SUBSET S /\ Good(s \ {x})
    <3>1. Cardinality(s \ {x}) < Cardinality(s)
      BY <2>3, SizeWithout
    <3>2. s \ {x} \notin Bad
      <4> HIDE DEF Bad
      <4>1. QED
        BY <1>1, <2>2, <2>3, <3>1
    <3>3. QED
      BY <2>3, <3>2
  <2> HIDE DEF Bad
  <2>5. s # {}
    BY <1>2, <2>3
  <2>6. PICK y \in s : it[s] = f[y] + it[s \ {y}]
    BY <1>3, <2>3, <2>5
  <2>7. it[s] \in Int
    <3>1. f[y] \in Int /\ it[s \ {y}] \in Int
      BY <2>3, <2>4
    <3>2. QED
      BY <2>6, <3>1
  <2>8. ASSUME NEW x \in s PROVE it[s] = f[x] + it[s \ {x}]
    <3>1. CASE x = y
      BY <2>6, <3>1
    <3>2. CASE x # y
      <4>1. /\ x \in s \ {y} /\ y \in s \ {x}
            /\ (s \ {y}) \ {x} = (s \ {x}) \ {y}
        BY <3>2
      <4>2. it[s \ {y}] = f[x] + it[(s \ {y}) \ {x}]
        BY <2>4, <4>1
      <4>3. it[s \ {x}] = f[y] + it[(s \ {x}) \ {y}]
        BY <2>4, <4>1
      <4>4. it[(s \ {x}) \ {y}] \in Int
        <5>1. (s \ {x}) \ {y} \in SUBSET S
          BY <2>3
        <5>2. CASE (s \ {x}) \ {y} \in Bad
          <6>1. Cardinality((s \ {x}) \ {y}) < Cardinality(s)
            <7>1. IsFiniteSet(s \ {x})
              BY <2>3, SizeWithout
            <7>2. /\ Cardinality((s \ {x}) \ {y}) = Cardinality(s \ {x}) - 1
                  /\ Cardinality(s \ {x}) \in Nat
              BY <4>1, <7>1, SizeWithout
            <7>3. /\ Cardinality(s \ {x}) = Cardinality(s) - 1
                  /\ Cardinality(s) \in Nat
              BY <2>3, SizeWithout
            <7>4. QED
              BY <7>2, <7>3
          <6>2. QED
            BY <1>1, <2>2, <2>3, <5>1, <5>2, <6>1
        <5>3. CASE (s \ {x}) \ {y} \notin Bad
          BY <5>1, <5>3 DEF Bad
        <5>4. QED
          BY <5>2, <5>3
      <4>5. f[x] \in Int /\ f[y] \in Int
        BY <2>3
      <4>6. it[s] = f[y] + (f[x] + it[(s \ {x}) \ {y}])
        BY <2>6, <4>1, <4>2
      <4>7. f[x] + it[s \ {x}] = f[x] + (f[y] + it[(s \ {x}) \ {y}])
        BY <4>3
      <4>8. QED
        BY <4>4, <4>5, <4>6, <4>7
    <3>3. QED
      BY <3>1, <3>2
  <2>9. QED
    BY <2>3, <2>7, <2>8
<1>5. QED
  BY <1>2, <1>4

\* Two such functions agree where they are both defined.
LEMMA SumsAgree ==
    ASSUME NEW f, NEW S, IsFiniteSet(S), NEW it, Sums(f, it, S),
           NEW g, NEW T \in SUBSET S, NEW it2, Sums(g, it2, T),
           \A x \in T : f[x] = g[x] /\ f[x] \in Int,
           \A x \in S : f[x] \in Int
    PROVE  it[T] = it2[T]
<1> DEFINE Bad == {s \in SUBSET T : it[s] # it2[s]}
           sizes == {Cardinality(s) : s \in Bad}
<1>1. \A s \in SUBSET T : IsFiniteSet(s) /\ Cardinality(s) \in Nat
  BY FS_Subset, FS_CardinalityType
<1>2. IsFiniteSet(T)
  BY <1>1
<1>3. Bad = {}
  <2>1. SUFFICES ASSUME Bad # {} PROVE FALSE
    OBVIOUS
  <2>2. PICK s \in Bad : \A t \in Bad : Cardinality(s) <= Cardinality(t)
    <3>1. sizes \in SUBSET Nat /\ sizes # {}
      BY <1>1, <2>1
    <3>2. PICK n \in sizes : \A m \in sizes : n <= m
      <4> HIDE DEF sizes
      <4>1. QED
        BY <3>1, LeastNumber
    <3> HIDE DEF Bad
    <3>3. QED
      BY <3>2
  <2>3. s \in SUBSET T /\ it[s] # it2[s] /\ s \in SUBSET S
    OBVIOUS
  <2> HIDE DEF Bad
  <2>4. it[{}] = 0 /\ it2[{}] = 0
    BY DEF Sums, Unfold
  <2>5. PICK x : x \in s
    BY <2>3, <2>4
  <2>6. it[s] = f[x] + it[s \ {x}]
    BY <2>3, <2>5, SumsTakeAny
  <2>7. it2[s] = g[x] + it2[s \ {x}]
    <3>1. \A y \in T : g[y] \in Int
      OBVIOUS
    <3>2. QED
      BY <1>2, <2>3, <2>5, <3>1, SumsTakeAny
  <2>8. s \ {x} \in Bad
    BY <2>3, <2>5, <2>6, <2>7 DEF Bad
  <2>9. Cardinality(s \ {x}) < Cardinality(s)
    BY <1>1, <2>3, <2>5, SizeWithout
  <2>10. QED
    BY <1>1, <2>2, <2>3, <2>8, <2>9
<1>4. QED
  BY <1>3

\* What is summed: f is an integer for each of finitely many arguments.
IntegersOn(f, S) == IsFiniteSet(S) /\ \A x \in S : f[x] \in Int

\* The sum of f over S.
SumOver(f, S) == SumFunction(Part(f, S))

\* The sum over no element is zero.
THEOREM SumOverEmpty == ASSUME NEW f PROVE SumOver(f, {}) = 0
<1>1. IsFiniteSet(DOMAIN Part(f, {})) /\ DOMAIN Part(f, {}) = {}
  BY FS_EmptySet DEF Part
<1>2. PICK it : /\ Sums(Part(f, {}), it, DOMAIN Part(f, {}))
                /\ SumFunction(Part(f, {})) = it[DOMAIN Part(f, {})]
  BY <1>1, SumUnfolds
<1>3. QED
  BY <1>1, <1>2 DEF SumOver, Sums, Unfold

\* An element more adds its value.
THEOREM SumOverInsert ==
    ASSUME NEW f, NEW S, NEW x, x \notin S, IntegersOn(f, S \cup {x})
    PROVE  /\ SumOver(f, S) \in Int
           /\ SumOver(f, S \cup {x}) = f[x] + SumOver(f, S)
<1> DEFINE T == S \cup {x}
           pt == Part(f, T)
           ps == Part(f, S)
<1>1. DOMAIN pt = T /\ DOMAIN ps = S /\ \A y \in T : pt[y] = f[y] /\ f[y] \in Int
  BY DEF Part, IntegersOn
<1>2. IsFiniteSet(T) /\ IsFiniteSet(S) /\ S \in SUBSET T
  BY FS_Subset DEF IntegersOn
<1>3. \A y \in S : ps[y] = f[y]
  BY DEF Part
<1>a. x \in T /\ T \ {x} = S
  OBVIOUS
<1> HIDE DEF pt, ps, T
<1>4. PICK it : Sums(pt, it, T) /\ SumFunction(pt) = it[T]
  BY <1>1, <1>2, SumUnfolds
<1>5. PICK it2 : Sums(ps, it2, S) /\ SumFunction(ps) = it2[S]
  BY <1>1, <1>2, SumUnfolds
<1>6. it[S] = it2[S]
  <2>1. \A y \in S : pt[y] = ps[y] /\ pt[y] \in Int
    BY <1>1, <1>2, <1>3
  <2>2. \A y \in T : pt[y] \in Int
    BY <1>1
  <2>3. QED
    BY <1>2, <1>4, <1>5, <2>1, <2>2, SumsAgree
<1>7. /\ it[S] \in Int
      /\ it[T] = pt[x] + it[T \ {x}]
  <2>1. \A y \in T : pt[y] \in Int
    BY <1>1
  <2>2. x \in T /\ T \in SUBSET T
    BY <1>a
  <2>3. \A s \in SUBSET T :
           /\ it[s] \in Int
           /\ \A y \in s : it[s] = pt[y] + it[s \ {y}]
    <3>1. IsFiniteSet(T) /\ Sums(pt, it, T)
      BY <1>2, <1>4
    <3>2. QED
      BY <2>1, <3>1, SumsTakeAny
  <2>4. QED
    BY <1>2, <2>2, <2>3
<1>8. T \ {x} = S /\ pt[x] = f[x]
  BY <1>1, <1>a
<1>9. SumOver(f, T) = it[T] /\ SumOver(f, S) = it2[S]
  BY <1>4, <1>5 DEF SumOver, pt, ps
<1>10. QED
  BY <1>6, <1>7, <1>8, <1>9 DEF T

\* A sum of integers is one.
LEMMA SumOverInt ==
    ASSUME NEW f, NEW S, IntegersOn(f, S)
    PROVE  SumOver(f, S) \in Int
<1>1. CASE S = {}
  BY <1>1, SumOverEmpty
<1>2. CASE S # {}
  <2>1. PICK x \in S : TRUE
    BY <1>2
  <2> DEFINE R == S \ {x}
  <2>2. S = R \cup {x} /\ x \notin R
    BY <2>1
  <2> HIDE DEF R
  <2>3. f[x] \in Int /\ IntegersOn(f, R \cup {x})
    BY <2>1, <2>2 DEF IntegersOn
  <2>4. SumOver(f, R) \in Int /\ SumOver(f, R \cup {x}) = f[x] + SumOver(f, R)
    BY <2>2, <2>3, SumOverInsert
  <2>5. QED
    BY <2>2, <2>3, <2>4
<1>3. QED
  BY <1>1, <1>2

\* A smallest counterexample, when sets are counted.
LEMMA SmallestSet ==
    ASSUME NEW B, B # {}, \A S \in B : IsFiniteSet(S)
    PROVE  \E S \in B : \A T \in B : T \subseteq S => T = S
<1> DEFINE sizes == {Cardinality(S) : S \in B}
<1>1. \A S \in B : Cardinality(S) \in Nat
  BY FS_CardinalityType
<1>2. sizes \in SUBSET Nat /\ sizes # {}
  BY <1>1
<1>3. PICK n \in sizes : \A m \in sizes : n <= m
  <2> HIDE DEF sizes
  <2>1. QED
    BY <1>2, LeastNumber
<1>4. PICK S \in B : Cardinality(S) = n
  OBVIOUS
<1>5. ASSUME NEW T \in B, T \subseteq S PROVE T = S
  <2>1. Cardinality(T) <= Cardinality(S) /\ Cardinality(S) <= Cardinality(T)
    BY <1>3, <1>4, <1>5, FS_Subset
  <2>2. Cardinality(T) = Cardinality(S)
    BY <1>1, <2>1
  <2>3. QED
    BY <1>5, <2>2, FS_Subset
<1>6. QED
  BY <1>5

\* Sums over disjoint sets add up.
THEOREM SumOverUnion ==
    ASSUME NEW f, NEW S, NEW T, S \cap T = {}, IntegersOn(f, S \cup T)
    PROVE  SumOver(f, S \cup T) = SumOver(f, S) + SumOver(f, T)
<1> DEFINE Bad == {U \in SUBSET T : SumOver(f, S \cup U)
                                        # SumOver(f, S) + SumOver(f, U)}
<1>1. \A U \in SUBSET (S \cup T) : IntegersOn(f, U)
  BY FS_Subset DEF IntegersOn
<1>2. SUFFICES ASSUME Bad # {} PROVE FALSE
  OBVIOUS
<1>3. PICK U \in Bad : \A V \in Bad : V \subseteq U => V = U
  <2>1. \A V \in Bad : IsFiniteSet(V)
    BY <1>1 DEF IntegersOn
  <2> HIDE DEF Bad
  <2>2. QED
    BY <1>2, <2>1, SmallestSet
<1>4. SumOver(f, S) \in Int
  BY <1>1, SumOverInt
<1>5. CASE U = {}
  <2>1. SumOver(f, S \cup {}) # SumOver(f, S) + SumOver(f, {})
    BY <1>5
  <2>2. S \cup {} = S
    OBVIOUS
  <2>3. QED
    BY <1>4, <2>1, <2>2, SumOverEmpty
<1>6. CASE U # {}
  <2>1. PICK x \in U : TRUE
    BY <1>6
  <2> DEFINE V == U \ {x}
  <2>2. /\ U = V \cup {x} /\ x \notin V /\ x \notin S \cup V
        /\ V \in SUBSET T /\ S \cup U = (S \cup V) \cup {x}
        /\ U \in SUBSET T
    BY <2>1
  <2>3. V \notin Bad
    BY <1>3, <2>2
  <2>4. SumOver(f, S \cup V) = SumOver(f, S) + SumOver(f, V)
    BY <2>2, <2>3
  <2> HIDE DEF V
  <2>5. /\ SumOver(f, V) \in Int
        /\ SumOver(f, U) = f[x] + SumOver(f, V)
    <3>1. IntegersOn(f, V \cup {x})
      BY <1>1, <2>2
    <3>2. QED
      BY <2>2, <3>1, SumOverInsert
  <2>6. SumOver(f, S \cup U) = f[x] + SumOver(f, S \cup V)
    <3>1. IntegersOn(f, (S \cup V) \cup {x})
      BY <1>1, <2>2
    <3>2. QED
      BY <2>2, <3>1, SumOverInsert
  <2>7. f[x] \in Int
    BY <2>2 DEF IntegersOn
  <2>8. SumOver(f, S \cup U) # SumOver(f, S) + SumOver(f, U)
    OBVIOUS
  <2>9. QED
    BY <1>4, <2>4, <2>5, <2>6, <2>7, <2>8
<1>7. QED
  BY <1>5, <1>6

\* The sum over a part of what is not negative is at most the whole.
THEOREM SumOverPart ==
    ASSUME NEW f, NEW S, NEW T \in SUBSET S, IntegersOn(f, S),
           \A x \in S : f[x] >= 0
    PROVE  SumOver(f, T) <= SumOver(f, S)
<1> DEFINE Bad == {U \in SUBSET S : ~(SumOver(f, U) >= 0)}
           R == S \ T
<1>1. \A U \in SUBSET S : IntegersOn(f, U) /\ SumOver(f, U) \in Int
  BY FS_Subset, SumOverInt DEF IntegersOn
<1>2. Bad = {}
  <2>1. SUFFICES ASSUME Bad # {} PROVE FALSE
    OBVIOUS
  <2>2. PICK U \in Bad : \A V \in Bad : V \subseteq U => V = U
    <3>1. \A V \in Bad : IsFiniteSet(V)
      BY <1>1 DEF IntegersOn
    <3> HIDE DEF Bad
    <3>2. QED
      BY <2>1, <3>1, SmallestSet
  <2>3. U # {}
    BY SumOverEmpty
  <2>4. PICK x \in U : TRUE
    BY <2>3
  <2> DEFINE V == U \ {x}
  <2>5. /\ U = V \cup {x} /\ x \notin V /\ V \in SUBSET S /\ x \in S
        /\ U \in SUBSET S
    BY <2>4
  <2>6. V \notin Bad
    BY <2>2, <2>5
  <2>7. SumOver(f, V) >= 0
    BY <2>5, <2>6
  <2> HIDE DEF V
  <2>8. SumOver(f, U) = f[x] + SumOver(f, V)
    <3>1. IntegersOn(f, V \cup {x})
      BY <1>1, <2>5
    <3>2. QED
      BY <2>5, <3>1, SumOverInsert
  <2>9. f[x] \in Int /\ f[x] >= 0 /\ SumOver(f, V) \in Int
    BY <1>1, <2>5 DEF IntegersOn
  <2>10. ~(SumOver(f, U) >= 0)
    OBVIOUS
  <2>11. QED
    BY <2>7, <2>8, <2>9, <2>10
<1>3. SumOver(f, R) >= 0
  BY <1>2
<1>4. T \cup R = S /\ T \cap R = {}
  OBVIOUS
<1> HIDE DEF R
<1>5. SumOver(f, S) = SumOver(f, T) + SumOver(f, R)
  BY <1>4, SumOverUnion
<1>6. SumOver(f, R) \in Int /\ SumOver(f, T) \in Int
  BY <1>1, <1>4
<1>7. QED
  BY <1>3, <1>5, <1>6

\* The sum of sums, argument by argument.
THEOREM SumOverPlus ==
    ASSUME NEW f, NEW g, NEW h, NEW S, IntegersOn(f, S), IntegersOn(g, S),
           \A x \in S : h[x] = f[x] + g[x]
    PROVE  SumOver(h, S) = SumOver(f, S) + SumOver(g, S)
<1> DEFINE Bad == {U \in SUBSET S : SumOver(h, U)
                                        # SumOver(f, U) + SumOver(g, U)}
<1>1. \A U \in SUBSET S :
         IntegersOn(f, U) /\ IntegersOn(g, U) /\ IntegersOn(h, U)
  BY FS_Subset DEF IntegersOn
<1>2. SUFFICES ASSUME Bad # {} PROVE FALSE
  OBVIOUS
<1>3. PICK U \in Bad : \A V \in Bad : V \subseteq U => V = U
  <2>1. \A V \in Bad : IsFiniteSet(V)
    BY <1>1 DEF IntegersOn
  <2> HIDE DEF Bad
  <2>2. QED
    BY <1>2, <2>1, SmallestSet
<1>4. U # {}
  BY SumOverEmpty
<1>5. PICK x \in U : TRUE
  BY <1>4
<1> DEFINE V == U \ {x}
<1>6. /\ U = V \cup {x} /\ x \notin V /\ V \in SUBSET S /\ U \in SUBSET S
      /\ x \in S
  BY <1>5
<1>7. V \notin Bad
  BY <1>3, <1>6
<1>8. SumOver(h, V) = SumOver(f, V) + SumOver(g, V)
  BY <1>6, <1>7
<1> HIDE DEF V
<1>9. /\ IntegersOn(f, V \cup {x}) /\ IntegersOn(g, V \cup {x})
      /\ IntegersOn(h, V \cup {x})
  BY <1>1, <1>6
<1>10. /\ SumOver(f, V) \in Int /\ SumOver(f, U) = f[x] + SumOver(f, V)
       /\ SumOver(g, V) \in Int /\ SumOver(g, U) = g[x] + SumOver(g, V)
       /\ SumOver(h, V) \in Int /\ SumOver(h, U) = h[x] + SumOver(h, V)
  BY <1>6, <1>9, SumOverInsert
<1>11. f[x] \in Int /\ g[x] \in Int /\ h[x] = f[x] + g[x]
  BY <1>6 DEF IntegersOn
<1>12. SumOver(h, U) # SumOver(f, U) + SumOver(g, U)
  OBVIOUS
<1>13. QED
  BY <1>8, <1>10, <1>11, <1>12

\* What is summed key by key is summed altogether.
THEOREM SumOverKeys ==
    ASSUME NEW f, NEW D, NEW key, NEW g, NEW S, IntegersOn(f, D),
           IsFiniteSet(S), \A d \in D : key[d] \in S,
           \A x \in S : g[x] = SumOver(f, {d \in D : key[d] = x})
    PROVE  SumOver(g, S) = SumOver(f, D)
<1> DEFINE With(U) == {d \in D : key[d] \in U}
           Bad == {U \in SUBSET S : SumOver(g, U) # SumOver(f, With(U))}
<1>1. \A E \in SUBSET D : IntegersOn(f, E) /\ SumOver(f, E) \in Int
  BY FS_Subset, SumOverInt DEF IntegersOn
<1>2. \A U \in SUBSET S : IntegersOn(g, U)
  <2>1. \A x \in S : g[x] \in Int
    BY <1>1
  <2>2. QED
    BY <2>1, FS_Subset DEF IntegersOn
<1>3. Bad = {}
  <2>1. SUFFICES ASSUME Bad # {} PROVE FALSE
    OBVIOUS
  <2>2. PICK U \in Bad : \A V \in Bad : V \subseteq U => V = U
    <3>1. \A V \in Bad : IsFiniteSet(V)
      BY <1>2 DEF IntegersOn
    <3> HIDE DEF Bad
    <3>2. QED
      BY <2>1, <3>1, SmallestSet
  <2>3. U # {}
    <3>1. With({}) = {}
      OBVIOUS
    <3> HIDE DEF With
    <3>2. QED
      BY <3>1, SumOverEmpty
  <2>4. PICK x \in U : TRUE
    BY <2>3
  <2> DEFINE V == U \ {x}
             X == {d \in D : key[d] = x}
  <2>5. /\ U = V \cup {x} /\ x \notin V /\ V \in SUBSET S /\ x \in S
        /\ U \in SUBSET S
    BY <2>4
  <2>6. SumOver(g, V) = SumOver(f, With(V))
    <3>1. V \notin Bad
      BY <2>2, <2>5
    <3>2. QED
      BY <2>5, <3>1
  <2>7. SumOver(g, U) = g[x] + SumOver(g, V)
    <3>1. IntegersOn(g, V \cup {x})
      BY <1>2, <2>5
    <3> HIDE DEF V
    <3>2. QED
      BY <2>5, <3>1, SumOverInsert
  <2>8. /\ With(U) = With(V) \cup X /\ With(V) \cap X = {}
        /\ With(U) \in SUBSET D /\ With(V) \in SUBSET D /\ X \in SUBSET D
    BY <2>5
  <2>9. g[x] = SumOver(f, X)
    BY <2>5
  <2>10. SumOver(g, U) # SumOver(f, With(U))
    OBVIOUS
  <2> HIDE DEF With, V, X
  <2>11. SumOver(f, With(U)) = SumOver(f, With(V)) + SumOver(f, X)
    BY <1>1, <2>8, SumOverUnion
  <2>12. SumOver(f, With(V)) \in Int /\ SumOver(f, X) \in Int
    BY <1>1, <2>8
  <2>13. QED
    BY <2>6, <2>7, <2>9, <2>10, <2>11, <2>12
<1>4. With(S) = D
  OBVIOUS
<1>5. SumOver(g, S) = SumOver(f, With(S))
  BY <1>3
<1> HIDE DEF With
<1>6. QED
  BY <1>4, <1>5

-----------------------------------------------------------------------------
(* Remainders.                                                             *)

\* Division with remainder.
LEMMA Remainder ==
    ASSUME NEW m \in Nat \ {0}, NEW x \in Int
    PROVE  /\ x \div m \in Int /\ x % m \in 0 .. m - 1
           /\ x = m * (x \div m) + (x % m)
OBVIOUS

\* No multiple of m but 0 lies strictly between -m and m.
LEMMA NoMultipleBetween ==
    ASSUME NEW m \in Nat \ {0}, NEW k \in Int, -m < m * k, m * k < m
    PROVE  k = 0
<1>1. CASE k >= 1
  <2>1. m * k >= m * 1
    BY <1>1
  <2>2. QED
    BY <2>1
<1>2. CASE k <= -1
  <2>1. m * k <= m * (-1)
    BY <1>2
  <2>2. QED
    BY <2>1
<1>3. QED
  BY <1>1, <1>2

\* Numbers a multiple of m apart have the same remainder.
LEMMA SameRemainder ==
    ASSUME NEW m \in Nat \ {0}, NEW x \in Int, NEW y \in Int, NEW q \in Int,
           x = y + m * q
    PROVE  x % m = y % m
<1> DEFINE dx == x \div m
           dy == y \div m
           rx == x % m
           ry == y % m
<1>1. /\ dx \in Int /\ dy \in Int /\ rx \in 0 .. m - 1 /\ ry \in 0 .. m - 1
      /\ x = m * dx + rx /\ y = m * dy + ry
  BY Remainder
<1> HIDE DEF dx, dy, rx, ry
<1>2. m * (dx - dy - q) = m * dx - m * dy - m * q
  BY <1>1
<1>3. m * (dx - dy - q) = ry - rx
  BY <1>1, <1>2
<1>4. dx - dy - q = 0
  BY <1>1, <1>3, NoMultipleBetween
<1>5. m * 0 = 0
  OBVIOUS
<1>6. ry - rx = 0
  BY <1>3, <1>4, <1>5
<1>7. QED
  BY <1>1, <1>6 DEF rx, ry

=============================================================================
