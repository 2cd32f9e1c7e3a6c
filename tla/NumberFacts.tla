----------------------------- MODULE NumberFacts ------------------------------
(***************************************************************************)
(* What the proofs of other modules need of numbers: induction, recursion  *)
(* over a function, and the laws of quotients.  Induction is stated for the *)
(* set of the numbers with a property, in place of the property, so that a *)
(* proof can cite it; it and recursion rest on the least number of a set.  *)
(***************************************************************************)
EXTENDS Integers, FiniteSetsExt, FiniteSetTheorems, TLAPS

\* A set of numbers that is not empty has a least one.  Intervals from zero
\* have the order of their inclusion, and inclusion of finite sets is well
\* founded.
LEMMA Least ==
  ASSUME NEW T \in SUBSET Nat, T # {}
  PROVE  \E m \in T : \A n \in T : m <= n
<1>. DEFINE Below == {0 .. k : k \in T}
<1>1. Below \subseteq FiniteSubsetsOf(Nat)
  <2>. SUFFICES ASSUME NEW k \in T PROVE 0 .. k \in FiniteSubsetsOf(Nat)
    OBVIOUS
  <2>1. IsFiniteSet(0 .. k)
    BY FS_Interval
  <2>. QED  BY <2>1 DEF FiniteSubsetsOf
<1>2. Below # {}
  OBVIOUS
<1>3. IsWellFoundedOn(StrictSubsetOrdering(Nat), FiniteSubsetsOf(Nat))
  BY FS_StrictSubsetOrderingWellFounded
<1>. HIDE DEF Below
<1>4. PICK b \in Below : \A c \in Below : <<c, b>> \notin StrictSubsetOrdering(Nat)
  BY <1>1, <1>2, <1>3, WFMin
<1>5. PICK m \in T : b = 0 .. m
  BY DEF Below
<1>6. ASSUME NEW n \in T, ~(m <= n) PROVE FALSE
  <2>1. 0 .. n \subseteq 0 .. m /\ 0 .. n # 0 .. m
    <3>1. m \in 0 .. m /\ m \notin 0 .. n
      BY <1>6
    <3>2. 0 .. n \subseteq 0 .. m
      BY <1>6
    <3>. QED BY <3>1, <3>2
  <2>2. <<0 .. n, 0 .. m>> \in StrictSubsetOrdering(Nat)
    BY <2>1 DEF StrictSubsetOrdering
  <2>3. 0 .. n \in Below
    BY DEF Below
  <2>. QED  BY <1>4, <1>5, <2>2, <2>3
<1>. QED  BY <1>6

\* Induction, over the set of the numbers for which the claim is true.
LEMMA Induction ==
  ASSUME NEW T, 0 \in T, \A n \in Nat : n \in T => n + 1 \in T
  PROVE  Nat \subseteq T
<1>. DEFINE Missing == Nat \ T
<1>. SUFFICES ASSUME Missing # {} PROVE FALSE
  OBVIOUS
<1>1. PICK m \in Missing : \A n \in Missing : m <= n
  BY Least
<1>2. m # 0 /\ m \in Nat
  OBVIOUS
<1>3. m - 1 \in Nat /\ m - 1 + 1 = m /\ ~(m <= m - 1)
  BY <1>2
<1>4. m - 1 \in T
  BY <1>1, <1>3
<1>. QED  BY <1>3, <1>4

\* A set of numbers with a bound has a greatest one.
LEMMA Greatest ==
  ASSUME NEW T \in SUBSET Nat, T # {}, NEW b \in Nat, \A n \in T : n <= b
  PROVE  \E m \in T : \A n \in T : n <= m
<1>. DEFINE Under == {b - n : n \in T}
<1>1. Under \in SUBSET Nat /\ Under # {}
  <2>1. \A n \in T : b - n \in Nat
    OBVIOUS
  <2>. QED  BY <2>1
<1>2. PICK u \in Under : \A v \in Under : u <= v
  BY <1>1, Least
<1>3. PICK m \in T : u = b - m
  OBVIOUS
<1>4. ASSUME NEW n \in T PROVE n <= m
  <2>1. u <= b - n
    BY <1>2
  <2>. QED  BY <2>1, <1>3
<1>. QED  BY <1>4

\* A finite set of numbers has a greatest one.
LEMMA GreatestOfFinite ==
  ASSUME NEW T \in SUBSET Nat, IsFiniteSet(T), T # {}
  PROVE  \E m \in T : \A n \in T : n <= m
<1>. DEFINE HasGreatest(S) == \E m \in S : \A n \in S : n <= m
            Without == {S \in SUBSET T : S # {} /\ ~HasGreatest(S)}
<1>. SUFFICES ASSUME Without # {} PROVE FALSE
  OBVIOUS
<1>1. Without \subseteq FiniteSubsetsOf(Nat)
  <2>. SUFFICES ASSUME NEW S \in SUBSET T PROVE S \in FiniteSubsetsOf(Nat)
    OBVIOUS
  <2>1. IsFiniteSet(S)
    BY FS_Subset
  <2>. QED  BY <2>1 DEF FiniteSubsetsOf
<1>2. IsWellFoundedOn(StrictSubsetOrdering(Nat), FiniteSubsetsOf(Nat))
  BY FS_StrictSubsetOrderingWellFounded
<1>. HIDE DEF Without
<1>3. PICK S \in Without : \A R \in Without : <<R, S>> \notin StrictSubsetOrdering(Nat)
  BY <1>1, <1>2, WFMin
<1>4. S \in SUBSET T /\ S # {} /\ ~HasGreatest(S)
  BY DEF Without
<1>5. PICK x \in S : TRUE
  BY <1>4
<1>6. S \ {x} # {}
  <2>. SUFFICES ASSUME S \ {x} = {} PROVE HasGreatest(S)
    BY <1>4
  <2>1. x \in Nat /\ S = {x}
    BY <1>4
  <2>. QED  BY <2>1
<1>7. <<S \ {x}, S>> \in StrictSubsetOrdering(Nat)
  BY <1>4 DEF StrictSubsetOrdering
<1>8. HasGreatest(S \ {x})
  BY <1>3, <1>4, <1>6, <1>7 DEF Without
<1>9. PICK g \in S \ {x} : \A n \in S \ {x} : n <= g
  BY <1>8
<1>10. x \in Nat /\ g \in Nat /\ \A n \in S : n \in Nat
  BY <1>4
<1>11. CASE x <= g
  BY <1>4, <1>9, <1>10, <1>11
<1>12. CASE g <= x
  BY <1>4, <1>9, <1>10, <1>12
<1>. QED  BY <1>10, <1>11, <1>12

\* The greatest of finitely many numbers, the least of any.
LEMMA MaxOfFinite ==
  ASSUME NEW T \in SUBSET Nat, IsFiniteSet(T), T # {}
  PROVE  Max(T) \in T /\ \A n \in T : n <= Max(T)
<1>1. PICK m \in T : \A n \in T : n <= m
  BY GreatestOfFinite
<1>2. \A n \in T : m >= n
  BY <1>1
<1>. QED  BY <1>2 DEF Max

LEMMA MinOfNumbers ==
  ASSUME NEW T \in SUBSET Nat, T # {}
  PROVE  Min(T) \in T /\ \A n \in T : Min(T) <= n
  BY Least DEF Min

LEMMA LeastOfTwo ==
  ASSUME NEW a \in Nat, NEW b \in Nat
  PROVE  Min({a, b}) = IF a <= b THEN a ELSE b
<1>1. Min({a, b}) \in {a, b} /\ \A x \in {a, b} : Min({a, b}) <= x
  <2>1. {a, b} \in SUBSET Nat /\ {a, b} # {}
    OBVIOUS
  <2>. QED  BY <2>1, MinOfNumbers
<1>. QED  BY <1>1

\* f is the values that advance gives from base on, one after the other.
Unfolds(f, n, base, advance) ==
  f[0] = base /\ \A k \in 1 .. n : f[k] = advance[k][f[k - 1]]

\* Recursion: there are values advance gives from any base, up to any number.
LEMMA Recursion ==
  ASSUME NEW S, NEW base \in S, NEW n \in Nat, NEW advance \in [Nat -> [S -> S]]
  PROVE  \E f \in [0 .. n -> S] : Unfolds(f, n, base, advance)
<1>. DEFINE Runs(f, m) == f[0] = base /\ \A k \in 1 .. m : f[k] = advance[k][f[k - 1]]
            T == {m \in Nat : \E f \in [0 .. m -> S] : Runs(f, m)}
<1>1. 0 \in T
  <2>. DEFINE f == [k \in 0 .. 0 |-> base]
  <2>1. f \in [0 .. 0 -> S] /\ Runs(f, 0)
    OBVIOUS
  <2>. QED  BY <2>1
<1>2. ASSUME NEW m \in Nat, m \in T PROVE m + 1 \in T
  <2>1. PICK f \in [0 .. m -> S] : Runs(f, m)
    BY <1>2
  <2>2. PICK e \in S : e = advance[m + 1][f[m]]
    <3>1. f[m] \in S /\ m + 1 \in Nat
      OBVIOUS
    <3>. QED  BY <3>1
  <2>. DEFINE g == [k \in 0 .. m + 1 |-> IF k = m + 1 THEN e ELSE f[k]]
  <2>3. g \in [0 .. m + 1 -> S]
    OBVIOUS
  <2>4. g[m + 1] = e /\ \A k \in 0 .. m : g[k] = f[k]
    OBVIOUS
  <2>. HIDE DEF g
  <2>5. g[0] = base
    BY <2>1, <2>4
  <2>6. ASSUME NEW k \in 1 .. m + 1 PROVE g[k] = advance[k][g[k - 1]]
    <3>1. CASE k = m + 1
      BY <3>1, <2>2, <2>4
    <3>2. CASE k \in 1 .. m
      <4>1. k \in 0 .. m /\ k - 1 \in 0 .. m
        BY <3>2
      <4>. QED  BY <3>2, <4>1, <2>1, <2>4
    <3>. QED  BY <3>1, <3>2
  <2>. QED  BY <2>3, <2>5, <2>6
<1>3. n \in T
  BY <1>1, <1>2, Induction
<1>. QED  BY <1>3 DEF Unfolds

\* The quotient and the remainder ...
LEMMA Division ==
  ASSUME NEW x \in Nat, NEW b \in Nat \ {0}
  PROVE  /\ x \div b \in Nat /\ x % b \in Nat /\ x % b < b
         /\ x = b * (x \div b) + (x % b)
<1>1. x \div b \in Nat
  OBVIOUS
<1>2. x % b \in Nat
  OBVIOUS
<1>3. x % b < b
  OBVIOUS
<1>4. x = b * (x \div b) + (x % b)
  OBVIOUS
<1>. QED  BY <1>1, <1>2, <1>3, <1>4, Zenon

\* ... are the only ones.
LEMMA DivisionIsUnique ==
  ASSUME NEW b \in Nat \ {0}, NEW q \in Nat, NEW r \in Nat, r < b
  PROVE  (b * q + r) \div b = q /\ (b * q + r) % b = r
<1>1. (b * q + r) \div b = q
  OBVIOUS
<1>2. (b * q + r) % b = r
  OBVIOUS
<1>. QED  BY <1>1, <1>2

\* Products of variables, which the provers know little of.
LEMMA Product ==
  ASSUME NEW a \in Nat, NEW b \in Nat
  PROVE  a * b \in Nat /\ a * b = b * a
  OBVIOUS

LEMMA ProductOrder ==
  ASSUME NEW b \in Nat \ {0}, NEW m \in Int, NEW n \in Int
  PROVE  /\ b * m < b * n => m < n
         /\ m <= n => b * m <= b * n
<1>1. ASSUME n <= m PROVE b * n <= b * m
  BY <1>1
<1>2. ASSUME m <= n PROVE b * m <= b * n
  BY <1>2
<1>3. b * m \in Int /\ b * n \in Int
  OBVIOUS
<1>. QED  BY <1>1, <1>2, <1>3

LEMMA Distributes ==
  ASSUME NEW b \in Int, NEW m \in Int, NEW n \in Int
  PROVE  b * (m + n) = b * m + b * n /\ b * (m - n) = b * m - b * n
<1>1. b * (m + n) = b * m + b * n
  OBVIOUS
<1>2. b * (m - n) = b * m - b * n
  OBVIOUS
<1>. QED  BY <1>1, <1>2

\* Division keeps the order ...
LEMMA QuotientOrder ==
  ASSUME NEW b \in Nat \ {0}, NEW x \in Nat, NEW y \in Nat, x <= y
  PROVE  x \div b <= y \div b
<1>1. PICK p \in Nat : p = x \div b
  BY Division
<1>2. PICK q \in Nat : q = y \div b
  BY Division
<1>3. PICK r \in Nat : r = x % b
  BY Division
<1>4. PICK s \in Nat : s = y % b
  BY Division
<1>5. x = b * p + r /\ y = b * q + s /\ s < b
  BY Division, <1>1, <1>2, <1>3, <1>4
<1>6. b * p \in Nat /\ b * q \in Nat
  BY Product
<1>7. b * (q + 1) = b * q + b
  BY Distributes
<1>8. b * p < b * (q + 1)
  BY <1>5, <1>6, <1>7
<1>9. p < q + 1
  BY <1>8, ProductOrder
<1>. QED  BY <1>1, <1>2, <1>9

\* ... and a strict bound that is a multiple.
LEMMA QuotientBelow ==
  ASSUME NEW b \in Nat \ {0}, NEW x \in Nat, NEW n \in Nat, x < b * n
  PROVE  x \div b < n
<1>1. PICK p \in Nat : p = x \div b
  BY Division
<1>3. PICK r \in Nat : r = x % b
  BY Division
<1>5. x = b * p + r
  BY Division, <1>1, <1>3
<1>6. b * p \in Nat /\ b * n \in Nat
  BY Product
<1>8. b * p < b * n
  BY <1>5, <1>6
<1>. QED  BY <1>1, <1>8, ProductOrder
===============================================================================
