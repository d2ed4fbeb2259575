------------------------------ MODULE CommonLemmas ------------------------------
(***************************************************************************)
(* What the proofs of several modules rest on: induction and recursion     *)
(* over the natural numbers, stated about sets and functions instead of    *)
(* operators so that the provers can apply them; quotients and multiples;  *)
(* counting by sequences.                                                  *)
(***************************************************************************)
EXTENDS Integers, Sequences, FiniteSetTheorems, SequenceTheorems,
        WellFoundedInduction, TLAPS

(* Every non-empty set of natural numbers has a least element.             *)
LEMMA LeastElement ==
    ASSUME NEW T \in SUBSET Nat, T # {}
    PROVE  \E x \in T : \A y \in T : x <= y
<1> DEFINE R == OpToRel(<, Nat)
<1>1. IsWellFoundedOn(R, Nat)
  BY NatLessThanWellFounded
<1>2. \A x, y \in Nat : x < y => <<x, y>> \in R
  BY DEF OpToRel
<1> HIDE DEF R
<1>3. PICK x \in T : \A y \in T : ~(<<y, x>> \in R)
  BY <1>1, WFMin
<1>4. ASSUME NEW y \in T PROVE x <= y
  <2>1. x \in Nat /\ y \in Nat /\ ~(y < x)
    BY <1>2, <1>3
  <2> QED BY <2>1
<1> QED BY <1>4

(* A set with 0 and with the successor of each of its elements holds every *)
(* natural number.                                                         *)
LEMMA NaturalInduction ==
    ASSUME NEW S \in SUBSET Nat, 0 \in S, \A n \in S : n + 1 \in S
    PROVE  S = Nat
<1> SUFFICES ASSUME S # Nat PROVE FALSE
  OBVIOUS
<1>1. PICK n \in Nat \ S : \A y \in Nat \ S : n <= y
  BY LeastElement
<1>2. n # 0 /\ n - 1 \in Nat
  BY <1>1
<1>3. n - 1 \in S
  BY <1>1, <1>2
<1> QED BY <1>1, <1>2, <1>3

-----------------------------------------------------------------------------
(* h holds the first n + 1 values of the iteration of next from x.         *)
Iterates(h, n, x, next) == h[0] = x /\ \A i \in 0..(n - 1) : h[i + 1] = next[h[i]]

(* An iteration can be carried as far as one likes.                        *)
LEMMA IterationExists ==
    ASSUME NEW S, NEW x \in S, NEW next \in [S -> S], NEW m \in Nat
    PROVE  \E h \in [0..m -> S] : Iterates(h, m, x, next)
<1> DEFINE Good == {n \in Nat : \E h \in [0..n -> S] : Iterates(h, n, x, next)}
<1>1. 0 \in Good
  <2> [i \in 0..0 |-> x] \in [0..0 -> S] /\ Iterates([i \in 0..0 |-> x], 0, x, next)
    BY DEF Iterates
  <2> QED OBVIOUS
<1>2. ASSUME NEW n \in Good PROVE n + 1 \in Good
  <2>1. PICK h \in [0..n -> S] : Iterates(h, n, x, next)
    OBVIOUS
  <2> DEFINE g == [i \in 0..(n + 1) |-> IF i = n + 1 THEN next[h[n]] ELSE h[i]]
  <2>2. g \in [0..(n + 1) -> S]
    OBVIOUS
  <2>3. Iterates(g, n + 1, x, next)
    <3>1. ASSUME NEW i \in 0..n PROVE g[i + 1] = next[g[i]]
      BY <2>1 DEF Iterates
    <3> QED BY <2>1, <3>1 DEF Iterates
  <2>4. n + 1 \in Nat
    OBVIOUS
  <2> HIDE DEF g
  <2> QED BY <2>2, <2>3, <2>4
<1>3. Good \in SUBSET Nat
  OBVIOUS
<1> HIDE DEF Good
<1>4. Good = Nat
  BY <1>1, <1>2, <1>3, NaturalInduction
<1> QED BY <1>4 DEF Good

(* Two iterations from the same value agree as far as both go.             *)
LEMMA IterationsAgree ==
    ASSUME NEW S, NEW x \in S, NEW next \in [S -> S], NEW m \in Nat, NEW n \in 0..m,
           NEW g \in [0..n -> S], Iterates(g, n, x, next),
           NEW h \in [0..m -> S], Iterates(h, m, x, next)
    PROVE  g[n] = h[n]
<1> DEFINE same == {i \in Nat : i <= n => g[i] = h[i]}
<1>1. 0 \in same
  BY DEF Iterates
<1>2. ASSUME NEW i \in same PROVE i + 1 \in same
  <2> SUFFICES ASSUME i + 1 <= n PROVE g[i + 1] = h[i + 1]
    OBVIOUS
  <2>1. i \in 0..(n - 1) /\ i \in 0..(m - 1) /\ g[i] = h[i]
    OBVIOUS
  <2> QED BY <2>1 DEF Iterates
<1>3. same \in SUBSET Nat
  OBVIOUS
<1> HIDE DEF same
<1>4. same = Nat
  BY <1>1, <1>2, <1>3, NaturalInduction
<1> QED BY <1>4 DEF same

(* So there is one function that holds all values of the iteration.        *)
LEMMA RecursionExists ==
    ASSUME NEW S, NEW x \in S, NEW next \in [S -> S]
    PROVE  \E f \in [Nat -> S] : f[0] = x /\ \A n \in Nat : f[n + 1] = next[f[n]]
<1> DEFINE hist == [n \in Nat |-> CHOOSE h \in [0..n -> S] : Iterates(h, n, x, next)]
           f == [n \in Nat |-> hist[n][n]]
<1>1. ASSUME NEW n \in Nat PROVE hist[n] \in [0..n -> S] /\ Iterates(hist[n], n, x, next)
  BY IterationExists
<1>2. ASSUME NEW n \in Nat PROVE f[n] = hist[n][n]
  OBVIOUS
<1> HIDE DEF hist
<1>3. f \in [Nat -> S]
  <2>1. ASSUME NEW n \in Nat PROVE hist[n][n] \in S
    <3>1. hist[n] \in [0..n -> S] /\ n \in 0..n
      BY <1>1
    <3> QED BY <3>1
  <2> QED BY <2>1
<1> HIDE DEF f
<1>4. f[0] = x
  BY <1>1, <1>2 DEF Iterates
<1>5. ASSUME NEW n \in Nat PROVE f[n + 1] = next[f[n]]
  <2>1. n + 1 \in Nat /\ n \in 0..(n + 1) /\ n \in 0..((n + 1) - 1)
    OBVIOUS
  <2>2. hist[n + 1][n + 1] = next[hist[n + 1][n]]
    BY <1>1, <2>1 DEF Iterates
  <2>3. hist[n][n] = hist[n + 1][n]
    BY <1>1, <2>1, IterationsAgree
  <2> QED BY <1>2, <2>1, <2>2, <2>3
<1> QED BY <1>3, <1>4, <1>5

-----------------------------------------------------------------------------
(* Arithmetic.                                                             *)
LEMMA Quotient ==
    ASSUME NEW a \in Nat, NEW b \in Nat \ {0}
    PROVE  /\ a \div b \in Nat
           /\ b * (a \div b) <= a /\ a < b * (a \div b) + b
           /\ a % b = 0 => a = b * (a \div b)
<1>1. a \div b \in Nat
  OBVIOUS
<1>2. b * (a \div b) <= a /\ a < b * (a \div b) + b
  OBVIOUS
<1>3. ASSUME a % b = 0 PROVE a = b * (a \div b)
  BY <1>3
<1> QED BY <1>1, <1>2, <1>3

LEMMA QuotientIs ==
    ASSUME NEW a \in Nat, NEW b \in Nat \ {0}, NEW q \in Nat, b * q <= a, a < b * q + b
    PROVE  a \div b = q
  OBVIOUS

LEMMA Multiple ==
    ASSUME NEW q \in Nat, NEW b \in Nat \ {0}
    PROVE  (b * q) % b = 0
  OBVIOUS

LEMMA Cancel ==
    ASSUME NEW a \in Int, NEW b \in Int, NEW c \in Nat, c * a < c * b
    PROVE  a + 1 <= b
  OBVIOUS

LEMMA Times ==
    ASSUME NEW a \in Int, NEW b \in Int, NEW c \in Nat
    PROVE  /\ c * (a + 1) = c * a + c
           /\ a <= b => c * a <= c * b
  OBVIOUS

LEMMA Associative ==
    ASSUME NEW a \in Int, NEW b \in Int, NEW c \in Int
    PROVE  a * (b * c) = (a * b) * c
  OBVIOUS

(* Two multiples of b are equal or b apart.                                *)
LEMMA MultiplesApart ==
    ASSUME NEW b \in Nat \ {0}, NEW x \in Nat, NEW y \in Nat,
           x % b = 0, y % b = 0, x < y
    PROVE  x + b <= y
<1>1. x = b * (x \div b) /\ y = b * (y \div b) /\ x \div b \in Nat /\ y \div b \in Nat
  BY Quotient
<1>2. x \div b + 1 <= y \div b
  BY <1>1, Cancel
<1>3. b * (x \div b + 1) <= b * (y \div b) /\ b * (x \div b + 1) = b * (x \div b) + b
  BY <1>1, <1>2, Times
<1> QED BY <1>1, <1>3

(* What b divides is divided by what divides b.                            *)
LEMMA DividesOn ==
    ASSUME NEW b \in Nat \ {0}, NEW c \in Nat \ {0}, b % c = 0, NEW x \in Nat, x % b = 0
    PROVE  x % c = 0
<1>1. x = b * (x \div b) /\ x \div b \in Nat /\ b = c * (b \div c) /\ b \div c \in Nat
  BY Quotient
<1>2. x = c * ((b \div c) * (x \div b))
  BY <1>1, Associative
<1>3. (b \div c) * (x \div b) \in Nat
  BY <1>1
<1> QED BY <1>2, <1>3, Multiple

LEMMA SumOfMultiples ==
    ASSUME NEW b \in Nat \ {0}, NEW x \in Nat, x % b = 0
    PROVE  (x + b) % b = 0
<1>1. x = b * (x \div b) /\ x \div b \in Nat
  BY Quotient
<1>2. x + b = b * (x \div b + 1)
  BY <1>1, Times
<1>3. x \div b + 1 \in Nat
  BY <1>1
<1> QED BY <1>2, <1>3, Multiple

-----------------------------------------------------------------------------
(* Counting.                                                               *)
LEMMA IntervalCount ==
    ASSUME NEW n \in Nat
    PROVE  IsFiniteSet(1..n) /\ Cardinality(1..n) = n
<1>1. n \in Int
  OBVIOUS
<1>2. IsFiniteSet(1..n) /\ Cardinality(1..n) = IF 1 > n THEN 0 ELSE n - 1 + 1
  BY <1>1, FS_Interval
<1>. QED BY <1>2

(* A sequence of distinct elements that lists a set counts it.             *)
LEMMA DistinctCount ==
    ASSUME NEW S, NEW s \in Seq(S),
           \A i, j \in 1..Len(s) : s[i] = s[j] => i = j,
           \A x \in S : \E i \in 1..Len(s) : s[i] = x
    PROVE  Cardinality(S) = Len(s)
<1>1. s \in Bijection(1..Len(s), S)
  BY DEF Bijection, Injection, IsInjective, Surjection
<1>2. ExistsBijection(1..Len(s), S)
  BY <1>1 DEF ExistsBijection
<1>3. IsFiniteSet(1..Len(s)) /\ Cardinality(1..Len(s)) = Len(s)
  BY IntervalCount
<1>. QED BY <1>2, <1>3, FS_Bijection

(* Recursions, as facts about functions: what a LET that is defined by      *)
(* recursion in a model stands for.                                        *)

(* A step iterated from x.                                                 *)
Iterable(S, x, next) ==
    \E f \in [Nat -> S] : f[0] = x /\ \A n \in Nat : f[n + 1] = next[f[n]]

(* Every step on a set can be iterated from each of its elements.          *)
LEMMA IterableAnywhere ==
    \A S, x, next : x \in S /\ next \in [S -> S] => Iterable(S, x, next)
<1> SUFFICES ASSUME NEW S, NEW x \in S, NEW next \in [S -> S] PROVE Iterable(S, x, next)
  OBVIOUS
<1> QED BY RecursionExists DEF Iterable

(* A recursion whose steps depend on their number.                         *)
Indexed(S, x, step) ==
    \E f \in [Nat -> S] : f[0] = x /\ \A n \in Nat : f[n + 1] = step[<<n + 1, f[n]>>]

(* Such a recursion exists for every step.                                 *)
LEMMA IndexedRecursion ==
    \A S, x, step : x \in S /\ step \in [Nat \X S -> S] => Indexed(S, x, step)
<1> SUFFICES ASSUME NEW S, NEW x \in S, NEW step \in [Nat \X S -> S] PROVE Indexed(S, x, step)
  OBVIOUS
<1> DEFINE next == [p \in Nat \X S |-> <<p[1] + 1, step[<<p[1] + 1, p[2]>>]>>]
<1>1. <<0, x>> \in Nat \X S /\ next \in [Nat \X S -> Nat \X S]
  <2>1. ASSUME NEW p \in Nat \X S
        PROVE  <<p[1] + 1, step[<<p[1] + 1, p[2]>>]>> \in Nat \X S
    <3>1. <<p[1] + 1, p[2]>> \in Nat \X S /\ p[1] + 1 \in Nat
      OBVIOUS
    <3>2. step[<<p[1] + 1, p[2]>>] \in S
      BY <3>1
    <3> QED BY <3>1, <3>2
  <2> QED BY <2>1
<1>2. \A n \in Nat, s \in S : next[<<n, s>>] = <<n + 1, step[<<n + 1, s>>]>>
  OBVIOUS
<1> HIDE DEF next
<1>3. PICK g \in [Nat -> Nat \X S] : g[0] = <<0, x>> /\ \A n \in Nat : g[n + 1] = next[g[n]]
  <2>1. Iterable(Nat \X S, <<0, x>>, next)
    BY <1>1, IterableAnywhere
  <2> QED BY <2>1 DEF Iterable
<1> DEFINE K == {n \in Nat : g[n][1] = n}
<1>4. K = Nat
  <2>1. 0 \in K
    BY <1>3
  <2>2. ASSUME NEW n \in K PROVE n + 1 \in K
    <3>1. n \in Nat /\ g[n] \in Nat \X S /\ g[n][1] = n
      BY <1>3
    <3>2. g[n] = <<n, g[n][2]>> /\ g[n][2] \in S
      BY <3>1
    <3>3. g[n + 1] = <<n + 1, step[<<n + 1, g[n][2]>>]>>
      BY <1>2, <1>3, <3>1, <3>2
    <3> QED BY <3>1, <3>3
  <2>3. K \in SUBSET Nat
    OBVIOUS
  <2> HIDE DEF K
  <2> QED BY <2>1, <2>2, <2>3, NaturalInduction
<1> DEFINE f == [n \in Nat |-> g[n][2]]
<1>5. f \in [Nat -> S]
  BY <1>3
<1>6. f[0] = x
  BY <1>3
<1>7. ASSUME NEW n \in Nat PROVE f[n + 1] = step[<<n + 1, f[n]>>]
  <2>1. n \in K /\ n + 1 \in Nat /\ g[n] \in Nat \X S
    BY <1>3, <1>4
  <2>2. g[n] = <<n, g[n][2]>> /\ g[n][2] \in S
    BY <2>1
  <2>3. g[n + 1] = <<n + 1, step[<<n + 1, g[n][2]>>]>>
    BY <1>2, <1>3, <2>2
  <2> QED BY <2>1, <2>3
<1> HIDE DEF f
<1> QED BY <1>5, <1>6, <1>7 DEF Indexed

(* A recursion over any set, whose steps make a number smaller.            *)
Measured(A, S, Z, x, down, step) ==
    \E f \in [A -> S] : \A a \in A : f[a] = IF a \in Z THEN x ELSE step[<<a, f[down[a]]>>]

(* A recursion that goes down a measure exists.                            *)
LEMMA MeasuredRecursion ==
    ASSUME NEW A, NEW S, NEW size \in [A -> Nat], NEW down \in [A -> A],
           NEW Z \in SUBSET A, NEW x \in S, NEW step \in [A \X S -> S],
           \A a \in A \ Z : size[down[a]] < size[a]
    PROVE  Measured(A, S, Z, x, down, step)
<1> DEFINE next == [g \in [A -> S] |->
                        [a \in A |-> IF a \in Z THEN x ELSE step[<<a, g[down[a]]>>]]]
           first == [a \in A |-> x]
<1>1. first \in [A -> S] /\ next \in [[A -> S] -> [A -> S]]
  <2>1. ASSUME NEW g \in [A -> S], NEW a \in A PROVE step[<<a, g[down[a]]>>] \in S
    <3>1. <<a, g[down[a]]>> \in A \X S
      OBVIOUS
    <3> QED BY <3>1
  <2>2. ASSUME NEW g \in [A -> S]
        PROVE  [a \in A |-> IF a \in Z THEN x ELSE step[<<a, g[down[a]]>>]] \in [A -> S]
    BY <2>1
  <2> QED BY <2>2
<1>2. \A g \in [A -> S], a \in A : next[g][a] = IF a \in Z THEN x ELSE step[<<a, g[down[a]]>>]
  OBVIOUS
<1>3. \A a \in A : first[a] = x
  OBVIOUS
<1> HIDE DEF next, first
<1>4. PICK t \in [Nat -> [A -> S]] : t[0] = first /\ \A n \in Nat : t[n + 1] = next[t[n]]
  <2>1. Iterable([A -> S], first, next)
    BY <1>1, IterableAnywhere
  <2> QED BY <2>1 DEF Iterable
<1>5. ASSUME NEW n \in Nat, NEW a \in A
      PROVE  /\ a \in Z => t[n + 1][a] = x
             /\ a \notin Z => t[n + 1][a] = step[<<a, t[n][down[a]]>>]
  <2>1. t[n] \in [A -> S] /\ t[n + 1] = next[t[n]]
    BY <1>4
  <2> QED BY <1>2, <2>1
<1> DEFINE K == {n \in Nat : \A a \in A : size[a] <= n => t[n + 1][a] = t[n][a]}
<1>6. K = Nat
  <2>1. 0 \in K
    <3>1. ASSUME NEW a \in A, size[a] <= 0 PROVE t[1][a] = t[0][a]
      <4>1. a \in Z
        <5>1. a \notin Z => size[down[a]] < size[a] /\ size[down[a]] \in Nat
          OBVIOUS
        <5> QED BY <3>1, <5>1
      <4>2. t[0 + 1][a] = x
        BY <1>5, <4>1
      <4> QED BY <1>3, <1>4, <4>2
    <3> QED BY <3>1
  <2>2. ASSUME NEW n \in K PROVE n + 1 \in K
    <3>1. ASSUME NEW a \in A, size[a] <= n + 1 PROVE t[(n + 1) + 1][a] = t[n + 1][a]
      <4> n \in Nat /\ n + 1 \in Nat
        OBVIOUS
      <4>1. CASE a \in Z
        BY <1>5, <4>1
      <4>2. CASE a \notin Z
        <5>1. size[down[a]] <= n /\ down[a] \in A
          <6>1. size[down[a]] < size[a] /\ size[down[a]] \in Nat /\ size[a] \in Nat
            BY <4>2
          <6> QED BY <3>1, <6>1
        <5>2. t[n + 1][down[a]] = t[n][down[a]]
          BY <5>1
        <5>3. t[n + 1][a] = step[<<a, t[n][down[a]]>>]
          BY <1>5, <4>2
        <5>4. t[(n + 1) + 1][a] = step[<<a, t[n + 1][down[a]]>>]
          BY <1>5, <4>2
        <5> QED BY <5>2, <5>3, <5>4
      <4> QED BY <4>1, <4>2
    <3> QED BY <3>1
  <2>3. K \in SUBSET Nat
    OBVIOUS
  <2> HIDE DEF K
  <2> QED BY <2>1, <2>2, <2>3, NaturalInduction
<1>7. \A n \in Nat, a \in A : size[a] <= n => t[n + 1][a] = t[n][a]
  BY <1>6
<1> DEFINE J == {j \in Nat : \A a \in A : t[size[a] + j][a] = t[size[a]][a]}
<1>8. J = Nat
  <2>1. 0 \in J
    <3>1. \A a \in A : size[a] + 0 = size[a]
      OBVIOUS
    <3> QED BY <3>1
  <2>2. ASSUME NEW j \in J PROVE j + 1 \in J
    <3>1. ASSUME NEW a \in A PROVE t[size[a] + (j + 1)][a] = t[size[a]][a]
      <4>1. size[a] + (j + 1) = (size[a] + j) + 1 /\ size[a] + j \in Nat /\ size[a] <= size[a] + j
        OBVIOUS
      <4> QED BY <1>7, <4>1
    <3> QED BY <3>1
  <2>3. J \in SUBSET Nat
    OBVIOUS
  <2> HIDE DEF J
  <2> QED BY <2>1, <2>2, <2>3, NaturalInduction
<1>9. \A n \in Nat, a \in A : size[a] <= n => t[n][a] = t[size[a]][a]
  <2>1. ASSUME NEW n \in Nat, NEW a \in A, size[a] <= n PROVE t[n][a] = t[size[a]][a]
    <3>1. n - size[a] \in J /\ size[a] + (n - size[a]) = n
      BY <1>8, <2>1
    <3> QED BY <3>1
  <2> QED BY <2>1
<1> DEFINE f == [a \in A |-> t[size[a]][a]]
<1>10. f \in [A -> S]
  BY <1>4
<1>11. ASSUME NEW a \in A PROVE f[a] = IF a \in Z THEN x ELSE step[<<a, f[down[a]]>>]
  <2>1. f[a] = t[size[a] + 1][a]
    BY <1>7
  <2>2. CASE a \in Z
    BY <1>5, <2>1, <2>2
  <2>3. CASE a \notin Z
    <3>1. size[down[a]] <= size[a] /\ down[a] \in A
      <4>1. size[down[a]] < size[a] /\ size[down[a]] \in Nat /\ size[a] \in Nat
        BY <2>3
      <4> QED BY <4>1
    <3>2. t[size[a]][down[a]] = f[down[a]]
      BY <1>9, <3>1
    <3>3. t[size[a] + 1][a] = step[<<a, t[size[a]][down[a]]>>]
      BY <1>5, <2>3
    <3> QED BY <2>1, <2>3, <3>2, <3>3
  <2> QED BY <2>2, <2>3
<1> HIDE DEF f
<1> QED BY <1>10, <1>11 DEF Measured
(* The same for a function over 0..m, in the form a recursive definition   *)
(* has.                                                                    *)
Ranged(S, x, m, step) ==
    \E f \in [0..m -> S] : f = [n \in 0..m |-> IF n = 0 THEN x ELSE step[<<n, f[n - 1]>>]]

(* A recursion up to a bound exists.                                       *)
LEMMA RangeRecursion ==
    \A S, x, m, step :
        x \in S /\ m \in Nat /\ step \in [(1..m) \X S -> S] => Ranged(S, x, m, step)
<1> SUFFICES ASSUME NEW S, NEW x \in S, NEW m \in Nat, NEW step \in [(1..m) \X S -> S]
             PROVE  Ranged(S, x, m, step)
  OBVIOUS
<1> DEFINE long == [p \in Nat \X S |-> IF p[1] \in 1..m THEN step[p] ELSE p[2]]
<1>1. long \in [Nat \X S -> S]
  OBVIOUS
<1>2. \A n \in 1..m, s \in S : long[<<n, s>>] = step[<<n, s>>]
  OBVIOUS
<1> HIDE DEF long
<1>3. PICK g \in [Nat -> S] : g[0] = x /\ \A n \in Nat : g[n + 1] = long[<<n + 1, g[n]>>]
  <2>1. Indexed(S, x, long)
    BY <1>1, IndexedRecursion
  <2> QED BY <2>1 DEF Indexed
<1> DEFINE f == [n \in 0..m |-> g[n]]
<1>4. ASSUME NEW n \in 0..m PROVE f[n] = IF n = 0 THEN x ELSE step[<<n, f[n - 1]>>]
  <2>1. CASE n = 0
    BY <1>3, <2>1
  <2>2. CASE n # 0
    <3>1. n - 1 \in Nat /\ n - 1 \in 0..m /\ (n - 1) + 1 = n /\ n \in 1..m
      BY <2>2
    <3>2. g[n] = long[<<n, g[n - 1]>>]
      BY <1>3, <3>1
    <3>3. g[n] = step[<<n, g[n - 1]>>]
      BY <1>2, <3>1, <3>2
    <3> QED BY <2>2, <3>1, <3>3
  <2> QED BY <2>1, <2>2
<1>5. f = [n \in 0..m |-> f[n]] /\ f \in [0..m -> S]
  BY <1>3
<1> HIDE DEF f
<1>6. f = [n \in 0..m |-> IF n = 0 THEN x ELSE step[<<n, f[n - 1]>>]]
  BY <1>4, <1>5
<1> QED BY <1>5, <1>6 DEF Ranged
=============================================================================
