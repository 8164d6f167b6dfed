---------------------------- MODULE NatRecursion ----------------------------
(***************************************************************************)
(* Induction and recursion over the natural numbers in a form that the     *)
(* provers can use: induction is about a set of numbers, and what a        *)
(* recursion starts from and how it goes on are CONSTANTS, which a proof   *)
(* gives with INSTANCE.                                                    *)
(***************************************************************************)
EXTENDS Naturals, WellFoundedInduction, TLAPS

CONSTANTS
    First(_),       \* the value at 0, for a context
    Then(_, _, _)   \* context, n > 0 and the value at n - 1 -> the value at n

\* A set of numbers that holds 0, and with a number the next one, holds them all.
LEMMA Induction ==
    ASSUME NEW T, T \subseteq Nat, 0 \in T, \A n \in T : n + 1 \in T
    PROVE  T = Nat
<1> SUFFICES ASSUME NEW m \in Nat, m \notin T PROVE FALSE
  OBVIOUS
<1> DEFINE out == Nat \ T
<1>1. \E x \in out : \A y \in out : ~ (<<y, x>> \in OpToRel(<, Nat))
  BY NatLessThanWellFounded, WFMin
<1>2. PICK x \in out : \A y \in out : ~ (<<y, x>> \in OpToRel(<, Nat))
  BY <1>1
<1>3. x # 0 /\ x - 1 \in Nat
  OBVIOUS
<1>4. <<x - 1, x>> \in OpToRel(<, Nat)
  BY <1>3 DEF OpToRel
<1>5. x - 1 \in T
  BY <1>2, <1>3, <1>4
<1>6. QED
  BY <1>3, <1>5

\* f is the recursion up to n.
Upto(x, f, n) ==
    /\ f[0] = First(x)
    /\ \A i \in 1..n : f[i] = Then(x, i, f[i - 1])

\* The recursion goes up to every number.
LEMMA UptoExists == \A x : \A n \in Nat : \E f : Upto(x, f, n)
<1> SUFFICES ASSUME NEW x PROVE \A n \in Nat : \E f : Upto(x, f, n)
  OBVIOUS
<1> DEFINE T == {n \in Nat : \E f : Upto(x, f, n)}
<1>1. 0 \in T
  <2>1. Upto(x, [i \in {0} |-> First(x)], 0)
    BY DEF Upto
  <2>2. QED
    BY <2>1
<1>2. ASSUME NEW n \in T PROVE n + 1 \in T
  <2>1. PICK f : Upto(x, f, n)
    OBVIOUS
  <2> DEFINE g == [i \in 0..(n + 1) |-> IF i <= n THEN f[i] ELSE Then(x, i, f[i - 1])]
  <2>2. g[0] = First(x)
    BY <2>1 DEF Upto
  <2>3. ASSUME NEW i \in 1..(n + 1) PROVE g[i] = Then(x, i, g[i - 1])
    <3>1. i - 1 \in 0..(n + 1) /\ i - 1 <= n /\ g[i - 1] = f[i - 1]
      OBVIOUS
    <3>2. CASE i <= n
      BY <3>1, <3>2, <2>1 DEF Upto
    <3>3. CASE i = n + 1
      BY <3>1, <3>3
    <3>4. QED
      BY <3>2, <3>3
  <2>4. Upto(x, g, n + 1)
    BY <2>2, <2>3 DEF Upto
  <2>5. QED
    BY <2>4
<1>3. T = Nat
  <2> HIDE DEF T
  <2>1. T \subseteq Nat
    BY DEF T
  <2>2. QED
    BY <1>1, <1>2, <2>1, Induction
<1>4. QED
  BY <1>3

\* Two recursions agree as far as both go.
LEMMA UptoUnique ==
    ASSUME NEW x, NEW m \in Nat, NEW f, NEW g, Upto(x, f, m), Upto(x, g, m)
    PROVE  \A n \in 0..m : f[n] = g[n]
<1> DEFINE T == {n \in Nat : n <= m => f[n] = g[n]}
<1>1. 0 \in T
  BY DEF Upto
<1>2. ASSUME NEW n \in T PROVE n + 1 \in T
  <2> SUFFICES ASSUME n + 1 <= m PROVE f[n + 1] = g[n + 1]
    OBVIOUS
  <2>1. f[n] = g[n] /\ n + 1 \in 1..m /\ (n + 1) - 1 = n
    OBVIOUS
  <2>2. QED
    BY <2>1 DEF Upto
<1>3. T = Nat
  <2> HIDE DEF T
  <2>1. T \subseteq Nat
    BY DEF T
  <2>2. QED
    BY <1>1, <1>2, <2>1, Induction
<1>4. QED
  BY <1>3

\* A recursive function over the naturals exists: what its definition says of it
\* holds.
LEMMA RecursionExists ==
    \A x : \E f : f = [n \in Nat |-> IF n = 0 THEN First(x) ELSE Then(x, n, f[n - 1])]
<1> SUFFICES ASSUME NEW x
             PROVE  \E f : f = [n \in Nat |-> IF n = 0 THEN First(x)
                                              ELSE Then(x, n, f[n - 1])]
  OBVIOUS
<1> DEFINE upto(n) == CHOOSE f : Upto(x, f, n)
           F == [n \in Nat |-> upto(n)[n]]
<1>1. \A n \in Nat : Upto(x, upto(n), n)
  BY UptoExists
<1> HIDE DEF upto
<1>2. F[0] = First(x)
  BY <1>1 DEF Upto
<1>3. ASSUME NEW n \in Nat, n # 0 PROVE F[n] = Then(x, n, F[n - 1])
  <2>1. n - 1 \in Nat /\ n \in 1..n /\ n - 1 \in 0..(n - 1)
    BY <1>3
  <2>2. Upto(x, upto(n), n - 1)
    BY <1>1, <2>1 DEF Upto
  <2>3. upto(n)[n - 1] = upto(n - 1)[n - 1]
    BY <1>1, <2>1, <2>2, UptoUnique
  <2>4. upto(n)[n] = Then(x, n, upto(n)[n - 1])
    BY <1>1, <2>1 DEF Upto
  <2>5. QED
    BY <1>3, <2>1, <2>3, <2>4
<1>4. F = [n \in Nat |-> IF n = 0 THEN First(x) ELSE Then(x, n, F[n - 1])]
  BY <1>2, <1>3
<1>5. QED
  BY <1>4
=============================================================================
