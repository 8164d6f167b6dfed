------------------------- MODULE CatalogGraphProofs -------------------------
(***************************************************************************)
(* The RDF form of a catalog can be read back: load_catalog rebuilds what  *)
(* write_catalog wrote, for every catalog and every MAX_CONSTRAINT_DEPTH.  *)
(* A resource's path starts with the path of what it is in, so the quads   *)
(* of the parts of a resource are kept apart by their subjects; and a      *)
(* member of a list carries its place.                                     *)
(***************************************************************************)
EXTENDS CatalogGraph, FiniteSetTheorems, TLAPS

-----------------------------------------------------------------------------
(* What nests in a constraint *)

\* The first level: the thing itself.
Itself(x) == {x}

\* The constraints nested in a constraint.
KidLevels(c) == Levels(c, Kids)
NextKids(x, n, level) == UNION {Kids(d) : d \in level}
KidRecursion == INSTANCE NatRecursion WITH First <- Itself, Then <- NextKids

\* Where parser and reader stop.
Bound == MAX_CONSTRAINT_DEPTH + 1

\* The constraints of a constraint, level by level.
LEMMA KidLevelsRecurse ==
    ASSUME NEW c
    PROVE  /\ KidLevels(c)[0] = {c}
           /\ \A k \in Nat : KidLevels(c)[k + 1] = UNION {Kids(d) : d \in KidLevels(c)[k]}
<1> DEFINE Is(f) == f = [k \in Nat |-> IF k = 0 THEN {c}
                                       ELSE UNION {Kids(d) : d \in f[k - 1]}]
<1>1. \E f : Is(f)
  BY KidRecursion!RecursionExists DEF Itself, NextKids
<1>2. KidLevels(c) = CHOOSE f : Is(f)
  BY DEF KidLevels, Levels
<1>3. Is(KidLevels(c))
  BY <1>1, <1>2
<1>4. QED
  BY <1>3

-----------------------------------------------------------------------------
(* Lists *)

\* Flatten, as a recursion over the lists that are joined.
FirstOf(seqs) == seqs[1]
Joined(seqs, n, before) == before \o seqs[n + 1]
FlattenRecursion == INSTANCE NatRecursion WITH First <- FirstOf, Then <- Joined

\* Lists of at most one member.
LEMMA OptionIsList ==
    ASSUME NEW S
    PROVE  None \in Seq(S) /\ \A x \in S : Some(x) \in Seq(S)
<1>1. None \in Seq(S)
  BY DEF None
<1>2. ASSUME NEW x \in S PROVE <<x>> \in Seq(S)
  OBVIOUS
<1>3. QED
  BY <1>1, <1>2 DEF Some

\* A function on the places of a list is a list.
LEMMA MappedIsList ==
    ASSUME NEW S, NEW s \in Seq(S), NEW R, NEW f, f = [i \in DOMAIN s |-> f[i]],
           \A i \in DOMAIN s : f[i] \in R
    PROVE  f \in Seq(R)
<1>1. DOMAIN s = 1..Len(s) /\ Len(s) \in Nat
  OBVIOUS
<1>2. f \in [1..Len(s) -> R]
  BY <1>1
<1>3. QED
  BY <1>1, <1>2

\* The members of two lists, one after the other.
LEMMA ConcatMembers ==
    ASSUME NEW S, NEW s \in Seq(S), NEW t \in Seq(S)
    PROVE  s \o t \in Seq(S) /\ ToSet(s \o t) = ToSet(s) \cup ToSet(t)
<1>1. \A i \in DOMAIN s : i \in DOMAIN (s \o t) /\ (s \o t)[i] = s[i]
  OBVIOUS
<1>2. \A i \in DOMAIN t : /\ Len(s) + i \in DOMAIN (s \o t)
                          /\ (s \o t)[Len(s) + i] = t[i]
  OBVIOUS
<1>3. \A i \in DOMAIN (s \o t) : \/ i \in DOMAIN s /\ (s \o t)[i] = s[i]
                                 \/ i - Len(s) \in DOMAIN t /\ (s \o t)[i] = t[i - Len(s)]
  OBVIOUS
<1>4. ASSUME NEW x \in ToSet(s \o t) PROVE x \in ToSet(s) \cup ToSet(t)
  <2>1. PICK i \in DOMAIN (s \o t) : x = (s \o t)[i]
    BY <1>4 DEF ToSet
  <2>2. QED
    BY <1>3, <2>1 DEF ToSet
<1>5. ASSUME NEW x \in ToSet(s) \cup ToSet(t) PROVE x \in ToSet(s \o t)
  <2>1. CASE x \in ToSet(s)
    BY <1>1, <2>1 DEF ToSet
  <2>2. CASE x \in ToSet(t)
    BY <1>2, <2>2 DEF ToSet
  <2>3. QED
    BY <1>5, <2>1, <2>2
<1>6. s \o t \in Seq(S)
  OBVIOUS
<1>7. QED
  BY <1>4, <1>5, <1>6

\* What is in a flattened list.
LEMMA FlattenMembers ==
    ASSUME NEW S, NEW seqs \in Seq(Seq(S))
    PROVE  /\ Flatten(seqs) \in Seq(S)
           /\ ToSet(Flatten(seqs)) = UNION {ToSet(seqs[i]) : i \in DOMAIN seqs}
<1> DEFINE n == Len(seqs)
           Is(f) == f = [i \in 1..n |-> IF i = 1 THEN seqs[i] ELSE f[i - 1] \o seqs[i]]
<1>1. CASE n = 0
  <2>1. seqs = <<>> /\ Flatten(seqs) = seqs
    BY <1>1 DEF Flatten, FlattenSeq
  <2>2. DOMAIN seqs = {} /\ ToSet(seqs) = {} /\ seqs \in Seq(S)
    BY <2>1 DEF ToSet
  <2>3. QED
    BY <2>1, <2>2
<1>2. CASE n # 0
  <2>1. PICK g : g = [i \in Nat |-> IF i = 0 THEN FirstOf(seqs) ELSE Joined(seqs, i, g[i - 1])]
    BY FlattenRecursion!RecursionExists
  <2>2. \E f : Is(f)
    <3> DEFINE f == [i \in 1..n |-> g[i - 1]]
    <3>1. ASSUME NEW i \in 1..n PROVE f[i] = IF i = 1 THEN seqs[i] ELSE f[i - 1] \o seqs[i]
      <4>1. CASE i = 1
        BY <2>1, <4>1 DEF FirstOf
      <4>2. CASE i # 1
        <5>1. /\ i - 1 \in Nat /\ i - 1 # 0 /\ i - 1 \in 1..n
              /\ f[i] = g[i - 1] /\ f[i - 1] = g[(i - 1) - 1] /\ (i - 1) + 1 = i
          BY <4>2
        <5>2. g[i - 1] = g[(i - 1) - 1] \o seqs[(i - 1) + 1]
          BY <2>1, <5>1 DEF Joined
        <5>3. QED
          BY <4>2, <5>1, <5>2
      <4>3. QED
        BY <4>1, <4>2
    <3>2. Is(f)
      BY <3>1
    <3>3. QED
      BY <3>2
  <2> DEFINE flat == CHOOSE f : Is(f)
  <2>3. Is(flat)
    BY <2>2
  <2>4. Flatten(seqs) = flat[n]
    BY <1>2 DEF Flatten, FlattenSeq
  <2> HIDE DEF flat
  <2> DEFINE Good(k) == /\ flat[k] \in Seq(S)
                        /\ ToSet(flat[k]) = UNION {ToSet(seqs[i]) : i \in 1..k}
             T == {k \in Nat : k + 1 <= n => Good(k + 1)}
  <2>5. 0 \in T
    <3>1. flat[1] = seqs[1] /\ 1..1 = {1}
      BY <1>2, <2>3
    <3>2. Good(1)
      BY <1>2, <3>1
    <3>3. QED
      BY <3>2
  <2>6. ASSUME NEW k \in T PROVE k + 1 \in T
    <3> SUFFICES ASSUME k + 2 <= n PROVE Good(k + 2)
      <4>1. k \in Nat /\ (k + 1) + 1 = k + 2
        OBVIOUS
      <4> HIDE DEF Good
      <4>2. QED
        BY <4>1
    <3>1. /\ Good(k + 1) /\ k + 2 \in 1..n /\ k + 2 # 1 /\ (k + 2) - 1 = k + 1
          /\ 1..(k + 2) = 1..(k + 1) \cup {k + 2}
      OBVIOUS
    <3>2. flat[k + 2] = flat[k + 1] \o seqs[k + 2]
      BY <2>3, <3>1
    <3>3. seqs[k + 2] \in Seq(S)
      BY <3>1
    <3>4. flat[k + 2] \in Seq(S) /\ ToSet(flat[k + 2]) = ToSet(flat[k + 1]) \cup ToSet(seqs[k + 2])
      <4> DEFINE a == flat[k + 1]
                 b == seqs[k + 2]
      <4>1. a \in Seq(S) /\ b \in Seq(S) /\ flat[k + 2] = a \o b
        BY <3>1, <3>2, <3>3
      <4> HIDE DEF a, b
      <4>2. a \o b \in Seq(S) /\ ToSet(a \o b) = ToSet(a) \cup ToSet(b)
        BY <4>1, ConcatMembers
      <4>3. QED
        BY <4>1, <4>2 DEF a, b
    <3>5. UNION {ToSet(seqs[i]) : i \in 1..(k + 2)}
            = (UNION {ToSet(seqs[i]) : i \in 1..(k + 1)}) \cup ToSet(seqs[k + 2])
      <4> DEFINE first == 1..(k + 1)
      <4>1. 1..(k + 2) = first \cup {k + 2}
        BY <3>1
      <4> HIDE DEF first
      <4>2. UNION {ToSet(seqs[i]) : i \in first \cup {k + 2}}
              = (UNION {ToSet(seqs[i]) : i \in first}) \cup ToSet(seqs[k + 2])
        OBVIOUS
      <4>3. QED
        BY <4>1, <4>2 DEF first
    <3>6. QED
      BY <3>1, <3>4, <3>5
  <2>7. T = Nat
    <3> HIDE DEF T
    <3>1. T \subseteq Nat
      BY DEF T
    <3>2. QED
      BY <2>5, <2>6, <3>1, KidRecursion!Induction
  <2>8. n - 1 \in T /\ (n - 1) + 1 = n /\ DOMAIN seqs = 1..n
    <3> HIDE DEF T
    <3>1. n \in Nat /\ n - 1 \in Nat
      BY <1>2
    <3>2. QED
      BY <2>7, <3>1
  <2>9. Good(n)
    <3> HIDE DEF Good
    <3>1. QED
      BY <2>8
  <2>10. QED
    BY <2>4, <2>8, <2>9
<1>3. QED
  BY <1>1, <1>2

\* A sequence of whatever is in it.
IsList(x) == x \in Seq(ToSet(x))

\* The values under a list's places are a set, and the list is over it.
LEMMA ListOver ==
    ASSUME NEW S, NEW x \in Seq(S)
    PROVE  IsList(x) /\ ToSet(x) \subseteq S
<1>1. DOMAIN x = 1..Len(x) /\ Len(x) \in Nat
  OBVIOUS
<1>2. x \in [1..Len(x) -> ToSet(x)]
  BY <1>1 DEF ToSet
<1>3. x \in Seq(ToSet(x))
  BY <1>1, <1>2
<1>4. QED
  BY <1>3 DEF IsList, ToSet

\* What is made of the members of a list is a list.
LEMMA MadeIsList ==
    ASSUME NEW S, NEW s \in Seq(S), NEW f, f = [i \in DOMAIN s |-> f[i]]
    PROVE  IsList(f) /\ DOMAIN f = DOMAIN s
<1>1. \A i \in DOMAIN s : f[i] \in ToSet(f)
  BY DEF ToSet
<1>2. f \in Seq(ToSet(f))
  BY <1>1, MappedIsList
<1>3. QED
  BY <1>2 DEF IsList

-----------------------------------------------------------------------------
(* Lists that are joined and retained *)

\* What holds of the empty list, and of a list with one more member, holds of all.
LEMMA ListInduction ==
    ASSUME NEW A, NEW P, <<>> \in P,
           \A s \in Seq(A) : \A e \in A : s \in P => Append(s, e) \in P
    PROVE  \A s \in Seq(A) : s \in P
<1> DEFINE T == {n \in Nat : \A s \in Seq(A) : Len(s) = n => s \in P}
<1>1. 0 \in T
  <2>1. \A s \in Seq(A) : Len(s) = 0 => s = <<>>
    OBVIOUS
  <2>2. QED
    BY <2>1
<1>2. ASSUME NEW n \in T PROVE n + 1 \in T
  <2> SUFFICES ASSUME NEW s \in Seq(A), Len(s) = n + 1 PROVE s \in P
    OBVIOUS
  <2> DEFINE t == SubSeq(s, 1, n)
  <2>1. n \in Nat /\ t \in Seq(A) /\ Len(t) = n /\ s[n + 1] \in A
    OBVIOUS
  <2>2. s = Append(t, s[n + 1])
    OBVIOUS
  <2>3. t \in P
    BY <2>1
  <2> HIDE DEF t
  <2>4. QED
    BY <2>1, <2>2, <2>3
<1>3. T = Nat
  <2> HIDE DEF T
  <2>1. T \subseteq Nat
    BY DEF T
  <2>2. QED
    BY <1>1, <1>2, <2>1, KidRecursion!Induction
<1>4. QED
  BY <1>3

\* A function on the first n numbers is a list.
LEMMA FunctionIsList ==
    ASSUME NEW B, NEW n \in Nat, NEW f \in [1..n -> B]
    PROVE  f \in Seq(B) /\ Len(f) = n
OBVIOUS

\* A list with one more member.
LEMMA OneMore ==
    ASSUME NEW B, NEW s \in Seq(B), NEW e \in B
    PROVE  /\ Len(s) \in Nat /\ DOMAIN s = 1..Len(s) /\ \A i \in DOMAIN s : s[i] \in B
           /\ Append(s, e) \in Seq(B) /\ Append(s, e) # <<>>
           /\ Len(Append(s, e)) = Len(s) + 1 /\ DOMAIN Append(s, e) = 1..(Len(s) + 1)
           /\ Append(s, e)[Len(s) + 1] = e
           /\ \A i \in 1..Len(s) : Append(s, e)[i] = s[i]
OBVIOUS

\* A function that goes on as the longer list does is that list.
LEMMA OneMoreIs ==
    ASSUME NEW B, NEW s \in Seq(B), NEW e \in B, NEW f \in Seq(B), Len(f) = Len(s) + 1,
           f[Len(s) + 1] = e, \A i \in 1..Len(s) : f[i] = s[i]
    PROVE  f = Append(s, e)
<1> DEFINE a == Append(s, e)
<1>1. /\ a \in Seq(B) /\ Len(a) = Len(s) + 1 /\ Len(s) \in Nat
      /\ a[Len(s) + 1] = e /\ \A i \in 1..Len(s) : a[i] = s[i]
  BY OneMore
<1> HIDE DEF a
<1>2. \A i \in 1..(Len(s) + 1) : i \in 1..Len(s) \/ i = Len(s) + 1
  BY <1>1
<1>3. \A i \in 1..Len(f) : f[i] = a[i]
  BY <1>1, <1>2
<1>4. f = a
  BY <1>1, <1>3
<1>5. QED
  BY <1>4 DEF a

\* Two lists, one after the other.
LEMMA JoinedIs ==
    ASSUME NEW B, NEW s \in Seq(B), NEW t \in Seq(B)
    PROVE  /\ Len(s) \in Nat /\ Len(t) \in Nat
           /\ s \o t \in Seq(B) /\ Len(s \o t) = Len(s) + Len(t)
           /\ \A i \in 1..Len(s) : (s \o t)[i] = s[i]
           /\ \A i \in 1..Len(t) : (s \o t)[Len(s) + i] = t[i]
OBVIOUS

\* A member is appended at the end of joined lists.
LEMMA OneMoreJoined ==
    ASSUME NEW B, NEW s \in Seq(B), NEW t \in Seq(B), NEW e \in B
    PROVE  s \o Append(t, e) = Append(s \o t, e)
<1> DEFINE more == Append(t, e)
           j == s \o t
           f == s \o more
<1>1. /\ more \in Seq(B) /\ Len(more) = Len(t) + 1 /\ more[Len(t) + 1] = e
      /\ \A i \in 1..Len(t) : more[i] = t[i]
  BY OneMore
<1> HIDE DEF more
<1>2. /\ j \in Seq(B) /\ Len(j) = Len(s) + Len(t) /\ Len(s) \in Nat /\ Len(t) \in Nat
      /\ \A i \in 1..Len(s) : j[i] = s[i]
      /\ \A i \in 1..Len(t) : j[Len(s) + i] = t[i]
  BY JoinedIs
<1>3. /\ f \in Seq(B) /\ Len(f) = Len(s) + Len(more)
      /\ \A i \in 1..Len(s) : f[i] = s[i]
      /\ \A i \in 1..Len(more) : f[Len(s) + i] = more[i]
  <2>1. more \in Seq(B)
    BY <1>1
  <2>2. QED
    BY <2>1, JoinedIs
<1> HIDE DEF f, j
<1> DEFINE a == Len(s)
           b == Len(t)
<1>4. a \in Nat /\ b \in Nat /\ Len(j) = a + b /\ Len(more) = b + 1 /\ Len(f) = a + (b + 1)
  BY <1>1, <1>2, <1>3
<1> HIDE DEF a, b
<1>5. Len(f) = Len(j) + 1 /\ Len(j) + 1 = a + (b + 1) /\ b + 1 \in 1..Len(more)
  BY <1>4
<1>6. f[Len(j) + 1] = e
  BY <1>1, <1>3, <1>5 DEF a, b
<1>7. ASSUME NEW i \in 1..Len(j) PROVE f[i] = j[i]
  <2>1. CASE i \in 1..a
    BY <1>2, <1>3, <2>1 DEF a
  <2>2. CASE i \notin 1..a
    <3>1. i - a \in 1..b /\ i - a \in 1..Len(more) /\ a + (i - a) = i
      BY <1>4, <2>2
    <3>2. f[a + (i - a)] = more[i - a] /\ j[a + (i - a)] = t[i - a] /\ more[i - a] = t[i - a]
      BY <1>1, <1>2, <1>3, <3>1 DEF a, b
    <3>3. QED
      BY <3>1, <3>2
  <2>3. QED
    BY <2>1, <2>2
<1>8. j \in Seq(B) /\ f \in Seq(B)
  BY <1>2, <1>3
<1>9. f = Append(j, e)
  BY <1>5, <1>6, <1>7, <1>8, OneMoreIs
<1>10. QED
  BY <1>9 DEF f, j, more

\* Flatten is its recursion.
LEMMA FlattenRecurses ==
    ASSUME NEW S, NEW seqs \in Seq(Seq(S)), seqs # <<>>
    PROVE  \E f : /\ FlattenRecursion!Upto(seqs, f, Len(seqs) - 1)
                  /\ Flatten(seqs) = f[Len(seqs) - 1]
<1> DEFINE n == Len(seqs)
           Is(f) == f = [i \in 1..n |-> IF i = 1 THEN seqs[i] ELSE f[i - 1] \o seqs[i]]
<1>1. n \in Nat /\ n # 0
  OBVIOUS
<1>2. PICK g : g = [i \in Nat |-> IF i = 0 THEN FirstOf(seqs) ELSE Joined(seqs, i, g[i - 1])]
  BY FlattenRecursion!RecursionExists
<1>3. \E f : Is(f)
  <2> DEFINE f == [i \in 1..n |-> g[i - 1]]
  <2>1. ASSUME NEW i \in 1..n PROVE f[i] = IF i = 1 THEN seqs[i] ELSE f[i - 1] \o seqs[i]
    <3>1. CASE i = 1
      BY <1>2, <3>1 DEF FirstOf
    <3>2. CASE i # 1
      <4>1. /\ i - 1 \in Nat /\ i - 1 # 0 /\ i - 1 \in 1..n
            /\ f[i] = g[i - 1] /\ f[i - 1] = g[(i - 1) - 1] /\ (i - 1) + 1 = i
        BY <3>2
      <4>2. g[i - 1] = g[(i - 1) - 1] \o seqs[(i - 1) + 1]
        BY <1>2, <4>1 DEF Joined
      <4>3. QED
        BY <3>2, <4>1, <4>2
    <3>3. QED
      BY <3>1, <3>2
  <2>2. Is(f)
    BY <2>1
  <2>3. QED
    BY <2>2
<1> DEFINE flat == CHOOSE f : Is(f)
<1>4. Is(flat)
  BY <1>3
<1>5. Flatten(seqs) = flat[n]
  BY <1>1 DEF Flatten, FlattenSeq
<1> HIDE DEF flat
<1> DEFINE h == [i \in 0..(n - 1) |-> flat[i + 1]]
<1>6. h[0] = FirstOf(seqs)
  BY <1>1, <1>4 DEF FirstOf
<1>7. ASSUME NEW i \in 1..(n - 1) PROVE h[i] = Joined(seqs, i, h[i - 1])
  <2>1. /\ i + 1 \in 1..n /\ i + 1 # 1 /\ (i + 1) - 1 = i /\ h[i] = flat[i + 1]
        /\ h[i - 1] = flat[i]
    BY <1>1
  <2>2. flat[i + 1] = flat[(i + 1) - 1] \o seqs[i + 1]
    BY <1>4, <2>1
  <2>3. QED
    BY <2>1, <2>2 DEF Joined
<1>8. h[n - 1] = flat[n]
  BY <1>1
<1> HIDE DEF h
<1>9. FlattenRecursion!Upto(seqs, h, n - 1)
  BY <1>6, <1>7 DEF FlattenRecursion!Upto
<1>10. QED
  BY <1>5, <1>8, <1>9

\* A list joined to others is joined at their end.
LEMMA FlattenOneMore ==
    ASSUME NEW S, NEW seqs \in Seq(Seq(S)), NEW x \in Seq(S)
    PROVE  Flatten(<<>>) = <<>> /\ Flatten(Append(seqs, x)) = Flatten(seqs) \o x
<1> DEFINE all == Append(seqs, x)
           n == Len(seqs)
<1>1. Flatten(<<>>) = <<>>
  BY DEF Flatten, FlattenSeq
<1>2. /\ all \in Seq(Seq(S)) /\ all # <<>> /\ n \in Nat /\ Len(all) = n + 1
      /\ all[n + 1] = x /\ \A i \in 1..n : all[i] = seqs[i]
  <2> DEFINE B == Seq(S)
  <2> HIDE DEF B
  <2>1. seqs \in Seq(B) /\ x \in B
    BY DEF B
  <2>2. QED
    BY <2>1, OneMore DEF B
<1> HIDE DEF all
<1>3. PICK f : FlattenRecursion!Upto(all, f, n) /\ Flatten(all) = f[n]
  <2>1. Len(all) - 1 = n
    BY <1>2
  <2>2. \E f : /\ FlattenRecursion!Upto(all, f, Len(all) - 1)
               /\ Flatten(all) = f[Len(all) - 1]
    BY <1>2, FlattenRecurses
  <2>3. QED
    BY <2>1, <2>2
<1>4. CASE n = 0
  <2>1. seqs = <<>>
    BY <1>4
  <2>2. f[n] = x
    BY <1>2, <1>3, <1>4 DEF FlattenRecursion!Upto, FirstOf
  <2>3. <<>> \o x = x
    OBVIOUS
  <2>4. QED
    BY <1>1, <1>3, <2>1, <2>2, <2>3 DEF all
<1>5. CASE n # 0
  <2>1. seqs # <<>> /\ n - 1 \in Nat /\ n \in 1..n /\ n - 1 \in 0..(n - 1)
    BY <1>2, <1>5
  <2>2. PICK g : FlattenRecursion!Upto(seqs, g, n - 1) /\ Flatten(seqs) = g[n - 1]
    BY <2>1, FlattenRecurses
  <2>3. FlattenRecursion!Upto(seqs, f, n - 1)
    <3>1. f[0] = FirstOf(seqs)
      BY <1>2, <1>3, <1>5 DEF FlattenRecursion!Upto, FirstOf
    <3>2. ASSUME NEW i \in 1..(n - 1) PROVE f[i] = Joined(seqs, i, f[i - 1])
      <4>1. i \in 1..n /\ i + 1 \in 1..n
        BY <1>2
      <4>2. f[i] = Joined(all, i, f[i - 1])
        BY <1>3, <4>1 DEF FlattenRecursion!Upto
      <4>3. QED
        BY <1>2, <4>1, <4>2 DEF Joined
    <3>3. QED
      BY <3>1, <3>2 DEF FlattenRecursion!Upto
  <2>4. f[n - 1] = g[n - 1]
    BY <2>1, <2>2, <2>3, FlattenRecursion!UptoUnique
  <2>5. f[n] = f[n - 1] \o x
    BY <1>2, <1>3, <2>1 DEF FlattenRecursion!Upto, Joined
  <2>6. QED
    BY <1>1, <1>3, <2>2, <2>4, <2>5 DEF all
<1>6. QED
  BY <1>4, <1>5

\* Nothing is retained from nothing.
LEMMA RetainNone == ASSUME NEW T PROVE Retained(<<>>, T) = <<>>
<1>1. [i \in DOMAIN <<>> |-> IF <<>>[i] \in T THEN Some(<<>>[i]) ELSE None] = <<>>
  OBVIOUS
<1>2. QED
  BY <1>1 DEF Retained, Flatten, FlattenSeq

\* Retaining, one member at a time.
LEMMA RetainOneMore ==
    ASSUME NEW A, NEW s \in Seq(A), NEW e \in A, NEW T
    PROVE  /\ e \in T => Retained(Append(s, e), T) = Append(Retained(s, T), e)
           /\ e \notin T => Retained(Append(s, e), T) = Retained(s, T)
<1> DEFINE R == A \cap T
           one(x) == IF x \in T THEN Some(x) ELSE None
           lists == [i \in DOMAIN s |-> one(s[i])]
           all == Append(s, e)
           more == [i \in DOMAIN all |-> one(all[i])]
<1>1. \A x \in A : one(x) \in Seq(R)
  BY OptionIsList
<1>2. /\ s \in Seq(A) /\ DOMAIN s = 1..Len(s) /\ Len(s) \in Nat
      /\ \A i \in DOMAIN s : s[i] \in A
  OBVIOUS
<1>3. /\ all \in Seq(A) /\ DOMAIN all = 1..(Len(s) + 1) /\ all[Len(s) + 1] = e
      /\ \A i \in DOMAIN s : all[i] = s[i]
  OBVIOUS
<1> HIDE DEF one, R, all
<1>4. lists \in Seq(Seq(R))
  <2>1. lists \in [1..Len(s) -> Seq(R)]
    BY <1>1, <1>2
  <2>2. QED
    BY <1>2, <2>1
<1>5. more = Append(lists, one(e))
  <2>1. DOMAIN more = 1..(Len(s) + 1) /\ more[Len(s) + 1] = one(e)
    BY <1>2, <1>3
  <2>2. \A i \in 1..Len(s) : more[i] = lists[i]
    BY <1>2, <1>3
  <2> DEFINE B == Seq(R)
  <2>3. lists \in Seq(B) /\ one(e) \in B /\ Len(lists) = Len(s)
    BY <1>1, <1>2, <1>4
  <2>4. more \in Seq(B) /\ Len(more) = Len(lists) + 1
    <3>1. Len(s) + 1 \in Nat /\ \A i \in 1..(Len(s) + 1) : all[i] \in A
      BY <1>2, <1>3
    <3>2. more \in [1..(Len(s) + 1) -> B]
      BY <1>1, <1>3, <3>1
    <3> HIDE DEF more, B
    <3>3. more \in Seq(B) /\ Len(more) = Len(s) + 1
      BY <3>1, <3>2
    <3>4. QED
      BY <2>3, <3>3
  <2> HIDE DEF more, lists, B
  <2>5. QED
    BY <2>1, <2>2, <2>3, <2>4, OneMoreIs
<1>6. Retained(s, T) = Flatten(lists) /\ Retained(all, T) = Flatten(more)
  BY DEF Retained, one
<1> HIDE DEF lists, more
<1>8. Flatten(lists) \in Seq(R)
  BY <1>4, FlattenMembers
<1>9. Retained(all, T) = Flatten(lists) \o one(e)
  BY <1>1, <1>4, <1>5, <1>6, FlattenOneMore
<1>10. CASE e \in T
  <2>1. e \in R /\ one(e) = <<e>>
    BY <1>10 DEF R, one, Some
  <2>2. Flatten(lists) \o <<e>> = Append(Flatten(lists), e)
    BY <1>8, <2>1
  <2>3. QED
    BY <1>6, <1>8, <1>9, <1>10, <2>1, <2>2 DEF all
<1>11. CASE e \notin T
  <2>1. one(e) = <<>>
    BY <1>11 DEF one, None
  <2>2. Flatten(lists) \o <<>> = Flatten(lists)
    BY <1>8
  <2>3. QED
    BY <1>6, <1>8, <1>9, <1>11, <2>1, <2>2 DEF all
<1>12. QED
  BY <1>10, <1>11

\* Retained members are a list of those in T.
LEMMA RetainedMembers ==
    ASSUME NEW A, NEW s \in Seq(A), NEW T
    PROVE  Retained(s, T) \in Seq(A) /\ ToSet(Retained(s, T)) = ToSet(s) \cap T
<1> DEFINE one(x) == IF x \in T THEN Some(x) ELSE None
           lists == [i \in DOMAIN s |-> one(s[i])]
<1>1. \A x \in A : one(x) \in Seq(A) /\ ToSet(one(x)) = {x} \cap T
  <2>1. \A x \in A : one(x) \in Seq(A)
    BY OptionIsList
  <2>2. ToSet(None) = {} /\ \A x : ToSet(Some(x)) = {x}
    BY DEF ToSet, None, Some
  <2>3. QED
    BY <2>1, <2>2
<1>2. \A i \in DOMAIN s : s[i] \in A
  OBVIOUS
<1> HIDE DEF one
<1>3. lists \in Seq(Seq(A))
  <2>1. lists \in [1..Len(s) -> Seq(A)]
    BY <1>1, <1>2
  <2>2. QED
    BY <2>1
<1>4. DOMAIN lists = DOMAIN s /\ \A i \in DOMAIN s : ToSet(lists[i]) = {s[i]} \cap T
  BY <1>1, <1>2
<1>5. Retained(s, T) = Flatten(lists)
  BY DEF Retained, one
<1> HIDE DEF lists
<1>6. Flatten(lists) \in Seq(A)
  BY <1>3, FlattenMembers
<1>7. ToSet(Flatten(lists)) = UNION {ToSet(lists[i]) : i \in DOMAIN lists}
  BY <1>3, FlattenMembers
<1>8. UNION {ToSet(lists[i]) : i \in DOMAIN lists} = ToSet(s) \cap T
  BY <1>4 DEF ToSet
<1>9. QED
  BY <1>5, <1>6, <1>7, <1>8

\* Retaining from two lists that are joined.
LEMMA RetainJoined ==
    ASSUME NEW A, NEW s \in Seq(A), NEW t \in Seq(A), NEW T
    PROVE  Retained(s \o t, T) = Retained(s, T) \o Retained(t, T)
<1> DEFINE P == {u \in Seq(A) : Retained(s \o u, T) = Retained(s, T) \o Retained(u, T)}
<1>1. Retained(s, T) \in Seq(A)
  BY RetainedMembers
<1>2. <<>> \in P
  <2>1. s \o <<>> = s /\ <<>> \in Seq(A) /\ Retained(s, T) \o <<>> = Retained(s, T)
    BY <1>1
  <2>2. Retained(<<>>, T) = <<>>
    BY RetainNone
  <2>3. QED
    BY <2>1, <2>2
<1>3. ASSUME NEW u \in Seq(A), NEW e \in A, u \in P PROVE Append(u, e) \in P
  <2> DEFINE j == s \o u
  <2>1. j \in Seq(A) /\ Append(u, e) \in Seq(A) /\ s \o Append(u, e) = Append(j, e)
    BY OneMoreJoined
  <2>2. Retained(s \o u, T) = Retained(s, T) \o Retained(u, T)
    BY <1>3
  <2>3. Retained(u, T) \in Seq(A)
    BY RetainedMembers
  <2> HIDE DEF j
  <2>4. /\ e \in T => Retained(Append(j, e), T) = Append(Retained(j, T), e)
        /\ e \notin T => Retained(Append(j, e), T) = Retained(j, T)
    <3>1. j \in Seq(A)
      BY <2>1
    <3>2. QED
      BY <3>1, RetainOneMore
  <2>5. /\ e \in T => Retained(Append(u, e), T) = Append(Retained(u, T), e)
        /\ e \notin T => Retained(Append(u, e), T) = Retained(u, T)
    BY RetainOneMore
  <2>6. Retained(s, T) \o Append(Retained(u, T), e) = Append(Retained(s, T) \o Retained(u, T), e)
    BY <1>1, <2>3, OneMoreJoined
  <2>7. Retained(j, T) = Retained(s, T) \o Retained(u, T)
    BY <2>2 DEF j
  <2>8. QED
    BY <2>1, <2>4, <2>5, <2>6, <2>7
<1>4. \A u \in Seq(A) : u \in P
  <2> HIDE DEF P
  <2>1. QED
    BY <1>2, <1>3, ListInduction
<1>5. QED
  BY <1>4

\* Retaining from lists that are flattened.
LEMMA RetainFlattened ==
    ASSUME NEW A, NEW seqs \in Seq(Seq(A)), NEW T
    PROVE  Retained(Flatten(seqs), T) = Flatten([i \in DOMAIN seqs |-> Retained(seqs[i], T)])
<1> DEFINE kept(ss) == [i \in DOMAIN ss |-> Retained(ss[i], T)]
           P == {ss \in Seq(Seq(A)) : Retained(Flatten(ss), T) = Flatten(kept(ss))}
<1>1. \A s \in Seq(A) : Retained(s, T) \in Seq(A)
  BY RetainedMembers
<1>2. <<>> \in P
  <2>1. kept(<<>>) = <<>> /\ Flatten(<<>>) = <<>> /\ <<>> \in Seq(Seq(A))
    BY DEF Flatten, FlattenSeq
  <2>2. QED
    BY <2>1, RetainNone
<1>3. ASSUME NEW ss \in Seq(Seq(A)), NEW s \in Seq(A), ss \in P PROVE Append(ss, s) \in P
  <2> DEFINE B == Seq(A)
             all == Append(ss, s)
  <2>1. ss \in Seq(B) /\ s \in B /\ \A i \in DOMAIN ss : ss[i] \in B
    OBVIOUS
  <2> HIDE DEF B
  <2>2. /\ all \in Seq(B) /\ DOMAIN all = 1..(Len(ss) + 1) /\ all[Len(ss) + 1] = s
        /\ DOMAIN ss = 1..Len(ss) /\ Len(ss) \in Nat /\ \A i \in DOMAIN ss : all[i] = ss[i]
    BY <2>1
  <2>3. kept(ss) \in Seq(B) /\ Len(kept(ss)) = Len(ss) /\ Retained(s, T) \in B
    <3>1. \A i \in DOMAIN ss : Retained(ss[i], T) \in B
      BY <1>1, <2>1 DEF B
    <3>2. kept(ss) \in [1..Len(ss) -> B]
      BY <2>2, <3>1
    <3>3. Retained(s, T) \in B
      BY <1>1 DEF B
    <3>4. QED
      BY <2>2, <3>2, <3>3
  <2>4. kept(all) = Append(kept(ss), Retained(s, T))
    <3> DEFINE k == kept(ss)
               m == kept(all)
               r == Retained(s, T)
    <3>1. DOMAIN m = 1..(Len(ss) + 1) /\ m[Len(ss) + 1] = r
      BY <2>2
    <3>2. \A i \in 1..Len(ss) : m[i] = k[i]
      BY <2>2
    <3>3. m \in Seq(B) /\ Len(m) = Len(ss) + 1
      <4>1. \A i \in DOMAIN all : all[i] \in B /\ Retained(all[i], T) \in B
        BY <1>1, <2>2 DEF B
      <4>2. m \in [1..(Len(ss) + 1) -> B] /\ Len(ss) + 1 \in Nat
        BY <2>2, <4>1
      <4> HIDE DEF m
      <4>3. QED
        BY <4>2, FunctionIsList
    <3>4. k \in Seq(B) /\ Len(k) = Len(ss) /\ r \in B
      BY <2>3
    <3> HIDE DEF k, m, r
    <3>5. Len(m) = Len(k) + 1 /\ m[Len(k) + 1] = r /\ \A i \in 1..Len(k) : m[i] = k[i]
      BY <3>1, <3>2, <3>3, <3>4
    <3>6. m = Append(k, r)
      BY <3>3, <3>4, <3>5, OneMoreIs
    <3>7. QED
      BY <3>6 DEF m, k, r
  <2>5. Flatten(all) = Flatten(ss) \o s /\ Flatten(ss) \in Seq(A)
    BY <2>1, FlattenOneMore, FlattenMembers DEF B
  <2>6. Retained(Flatten(all), T) = Retained(Flatten(ss), T) \o Retained(s, T)
    BY <2>5, RetainJoined
  <2>7. Flatten(kept(all)) = Flatten(kept(ss)) \o Retained(s, T)
    <3> DEFINE k == kept(ss)
               r == Retained(s, T)
    <3>1. k \in Seq(Seq(A)) /\ r \in Seq(A)
      BY <2>3 DEF B
    <3> HIDE DEF k, r
    <3>2. Flatten(Append(k, r)) = Flatten(k) \o r
      BY <3>1, FlattenOneMore
    <3>3. QED
      BY <2>4, <3>2 DEF k, r
  <2>8. Retained(Flatten(ss), T) = Flatten(kept(ss))
    BY <1>3
  <2> HIDE DEF all, kept
  <2>9. Retained(Flatten(all), T) = Flatten(kept(all))
    BY <2>6, <2>7, <2>8
  <2>10. QED
    BY <2>2, <2>9 DEF all, B
<1>4. \A ss \in Seq(Seq(A)) : ss \in P
  <2> DEFINE B == Seq(A)
  <2>1. \A ss \in Seq(B) : \A s \in B : ss \in P => Append(ss, s) \in P
    <3> HIDE DEF P
    <3>1. QED
      BY <1>3
  <2> HIDE DEF P, B
  <2>2. \A ss \in Seq(B) : ss \in P
    BY <1>2, <2>1, ListInduction
  <2>3. QED
    BY <2>2 DEF B
<1>5. QED
  BY <1>4

\* Retaining what is made of the members of a list.
LEMMA RetainMade ==
    ASSUME NEW A, NEW s \in Seq(A), NEW f, NEW T, NEW U, \A x \in A : f[x] \in U <=> x \in T
    PROVE  Retained([i \in DOMAIN s |-> f[s[i]]], U)
             = [i \in DOMAIN Retained(s, T) |-> f[Retained(s, T)[i]]]
<1> DEFINE R == {f[x] : x \in A}
           made(u) == [i \in DOMAIN u |-> f[u[i]]]
           P == {u \in Seq(A) : Retained(made(u), U) = made(Retained(u, T))}
<1>1. \A u \in Seq(A) : made(u) \in Seq(R) /\ Len(made(u)) = Len(u)
  <2> SUFFICES ASSUME NEW u \in Seq(A) PROVE made(u) \in Seq(R) /\ Len(made(u)) = Len(u)
    OBVIOUS
  <2>1. made(u) \in [1..Len(u) -> R] /\ Len(u) \in Nat
    OBVIOUS
  <2> HIDE DEF made, R
  <2>2. QED
    BY <2>1
<1>2. ASSUME NEW u \in Seq(A), NEW e \in A PROVE made(Append(u, e)) = Append(made(u), f[e])
  <2> DEFINE m == made(Append(u, e))
             k == made(u)
             n == Len(u)
  <2>1. /\ n \in Nat /\ m[n + 1] = f[e]
        /\ \A i \in 1..n : m[i] = f[u[i]] /\ k[i] = f[u[i]]
    OBVIOUS
  <2>2. k \in Seq(R) /\ Len(k) = n /\ f[e] \in R
    BY <1>1
  <2>3. m \in Seq(R) /\ Len(m) = n + 1
    BY <1>1, OneMore
  <2> HIDE DEF m, k, n, R
  <2>4. Len(m) = Len(k) + 1 /\ m[Len(k) + 1] = f[e] /\ \A i \in 1..Len(k) : m[i] = k[i]
    BY <2>1, <2>2, <2>3
  <2>5. m = Append(k, f[e])
    BY <2>2, <2>3, <2>4, OneMoreIs
  <2>6. QED
    BY <2>5 DEF m, k
<1>3. <<>> \in P
  <2>1. made(<<>>) = <<>> /\ <<>> \in Seq(A)
    OBVIOUS
  <2> HIDE DEF made
  <2>2. QED
    BY <2>1, RetainNone
<1>4. ASSUME NEW u \in Seq(A), NEW e \in A, u \in P PROVE Append(u, e) \in P
  <2>1. made(u) \in Seq(R) /\ f[e] \in R /\ Append(u, e) \in Seq(A)
    BY <1>1
  <2>2. made(Append(u, e)) = Append(made(u), f[e])
    BY <1>2
  <2>3. Retained(made(u), U) = made(Retained(u, T))
    BY <1>4
  <2> DEFINE m == made(u)
             x == f[e]
  <2> HIDE DEF made, R, m, x
  <2>4. /\ x \in U => Retained(Append(m, x), U) = Append(Retained(m, U), x)
        /\ x \notin U => Retained(Append(m, x), U) = Retained(m, U)
    <3>1. m \in Seq(R) /\ x \in R
      BY <2>1 DEF m, x
    <3>2. QED
      BY <3>1, RetainOneMore
  <2>5. /\ e \in T => Retained(Append(u, e), T) = Append(Retained(u, T), e)
        /\ e \notin T => Retained(Append(u, e), T) = Retained(u, T)
        /\ Retained(u, T) \in Seq(A)
    <3>1. Retained(u, T) \in Seq(A)
      BY RetainedMembers
    <3>2. /\ e \in T => Retained(Append(u, e), T) = Append(Retained(u, T), e)
          /\ e \notin T => Retained(Append(u, e), T) = Retained(u, T)
      BY RetainOneMore
    <3>3. QED
      BY <3>1, <3>2
  <2>6. f[e] \in U <=> e \in T
    OBVIOUS
  <2>7. made(Append(Retained(u, T), e)) = Append(made(Retained(u, T)), f[e])
    BY <1>2, <2>5
  <2>8. QED
    BY <2>1, <2>2, <2>3, <2>4, <2>5, <2>6, <2>7 DEF m, x
<1>5. \A u \in Seq(A) : u \in P
  <2> HIDE DEF P
  <2>1. QED
    BY <1>3, <1>4, ListInduction
<1>6. QED
  BY <1>5

\* Everything is retained of a list of members of T.
LEMMA RetainAll ==
    ASSUME NEW A, NEW s \in Seq(A), NEW T, A \subseteq T
    PROVE  Retained(s, T) = s
<1> DEFINE P == {u \in Seq(A) : Retained(u, T) = u}
<1>1. <<>> \in P
  BY RetainNone
<1>2. ASSUME NEW u \in Seq(A), NEW e \in A, u \in P PROVE Append(u, e) \in P
  <2>1. Retained(Append(u, e), T) = Append(Retained(u, T), e)
    BY RetainOneMore
  <2>2. QED
    BY <1>2, <2>1
<1>3. \A u \in Seq(A) : u \in P
  <2> HIDE DEF P
  <2>1. QED
    BY <1>1, <1>2, ListInduction
<1>4. QED
  BY <1>3

-----------------------------------------------------------------------------
(* Paths and lists *)

\* A set whose members are listed once each, n of them, has n members.
LEMMA CountBefore ==
    ASSUME NEW n \in Nat, NEW f, \A i, j \in 1..n : f[i] = f[j] => i = j,
           NEW T, \A i \in 1..n : f[i] \in T, \A e \in T : \E i \in 1..n : e = f[i]
    PROVE  Cardinality(T) = n
<1> DEFINE h == [i \in 1..n |-> f[i]]
<1>1. h \in Bijection(1..n, T)
  BY DEF Bijection, Injection, Surjection, IsInjective
<1>2. ExistsBijection(1..n, T)
  BY <1>1 DEF ExistsBijection
<1>3. QED
  BY <1>2, FS_CountingElements

\* What loading a resource gives: the value and its place in its list.
Indexed(value, index) == Some([index |-> index, value |-> value])

\* loaded are the members of the list x, each with its place.
AreOf(loaded, x) ==
    /\ \A i \in DOMAIN x : Indexed(x[i], i - 1) \in loaded
    /\ \A l \in loaded : \E i \in DOMAIN x : l = Indexed(x[i], i - 1)

\* Loaded entries, put in order, are the list that was written.
LEMMA ListLoads ==
    ASSUME NEW x, IsList(x), NEW loaded, AreOf(loaded, x)
    PROVE  AllLoaded(loaded) = Some(x)
<1> DEFINE n == Len(x)
           entry == [i \in 1..n |-> [index |-> i - 1, value |-> x[i]]]
           entries == {l[1] : l \in loaded}
           before(e) == {f \in entries : f.index < e.index}
<1>1. n \in Nat /\ DOMAIN x = 1..n
  BY DEF IsList
<1>2. \A i \in 1..n : entry[i].index = i - 1 /\ entry[i].value = x[i]
  OBVIOUS
<1>3. entries = {entry[i] : i \in 1..n} /\ None \notin loaded
  <2>1. \A i \in 1..n : entry[i] = [index |-> i - 1, value |-> x[i]]
    OBVIOUS
  <2> HIDE DEF entry, n
  <2>2. \A i \in 1..n : Some(entry[i]) = Indexed(x[i], i - 1)
    BY <1>1, <2>1 DEF Indexed
  <2>3. \A e : Some(e)[1] = e /\ Some(e) # None
    BY DEF Some, None
  <2>4. \A i \in 1..n : Some(entry[i]) \in loaded
    BY <1>1, <2>2 DEF AreOf
  <2>5. \A l \in loaded : \E i \in 1..n : l = Some(entry[i])
    BY <1>1, <2>2 DEF AreOf
  <2> HIDE DEF entries
  <2>6. \A i \in 1..n : entry[i] \in entries
    BY <2>3, <2>4 DEF entries
  <2>7. \A e \in entries : \E i \in 1..n : e = entry[i]
    BY <2>3, <2>5 DEF entries
  <2>8. QED
    BY <2>3, <2>5, <2>6, <2>7
<1> HIDE DEF n, entry, entries
<1>4. Cardinality(entries) = n
  <2>1. \A i, j \in 1..n : entry[i] = entry[j] => i = j
    BY <1>1, <1>2
  <2>2. /\ \A i \in 1..n : entry[i] \in entries
        /\ \A e \in entries : \E i \in 1..n : e = entry[i]
    BY <1>3
  <2>3. QED
    BY <1>1, <2>1, <2>2, CountBefore
<1>5. ASSUME NEW i \in 1..n PROVE Cardinality(before(entry[i])) = i - 1
  <2>1. i - 1 \in Nat /\ \A j \in 1..(i - 1) : j \in 1..n
    BY <1>1
  <2>2. /\ \A j \in 1..(i - 1) : entry[j] \in before(entry[i])
        /\ \A e \in before(entry[i]) : \E j \in 1..(i - 1) : e = entry[j]
    BY <1>1, <1>2, <1>3
  <2>3. ASSUME NEW j \in 1..(i - 1), NEW k \in 1..(i - 1), entry[j] = entry[k] PROVE j = k
    <3>1. j - 1 = k - 1
      BY <1>2, <2>1, <2>3
    <3>2. QED
      BY <3>1
  <2> DEFINE m == i - 1
             T == before(entry[i])
  <2>4. /\ m \in Nat /\ \A j, k \in 1..m : entry[j] = entry[k] => j = k
        /\ \A j \in 1..m : entry[j] \in T
        /\ \A e \in T : \E k \in 1..m : e = entry[k]
    BY <2>1, <2>2, <2>3
  <2> HIDE DEF before, m, T
  <2>5. Cardinality(T) = m
    BY <2>4, CountBefore
  <2>6. QED
    BY <2>5 DEF m, T
<1>6. ASSUME NEW i \in 1..n
      PROVE  (CHOOSE e \in entries : Cardinality(before(e)) = i - 1) = entry[i]
  <2>1. entry[i] \in entries /\ Cardinality(before(entry[i])) = i - 1
    BY <1>3, <1>5
  <2>2. ASSUME NEW e \in entries, Cardinality(before(e)) = i - 1 PROVE e = entry[i]
    <3>1. PICK j \in 1..n : e = entry[j]
      BY <1>3
    <3>2. j - 1 = i - 1
      BY <1>5, <2>2, <3>1
    <3>3. j = i
      BY <1>1, <3>2
    <3>4. QED
      BY <3>1, <3>3
  <2> HIDE DEF before
  <2>3. QED
    BY <2>1, <2>2
<1>7. InOrder(entries) = [i \in 1..n |-> entry[i]]
  BY <1>4, <1>6 DEF InOrder, SortedBy
<1>8. MapSeq(InOrder(entries), LAMBDA e : e.value) = [i \in 1..n |-> x[i]]
  BY <1>2, <1>7 DEF MapSeq
<1>9. x = [i \in 1..n |-> x[i]]
  BY <1>1 DEF IsList
<1>10. QED
  BY <1>3, <1>8, <1>9 DEF AllLoaded, entries

\* q is p or a path below it.
Under(p, q) == Len(p) <= Len(q) /\ \A i \in 1..Len(p) : q[i] = p[i]

\* The quads of g about p and what is below it.
Below(g, p) == {t \in g : Under(p, t[1])}

\* The quads of g about p itself.
Own(g, p) == {t \in g : t[1] = p}

\* The subjects in g are paths over U.
Paths(g, U) == \A t \in g : t[1] \in Seq(U)

\* The path of a member of one of p's lists: j is the list's segment and the place.
Sub(p, j) == p \o <<j[1], j[2]>>

\* Segments and places over U.
Pairs(J, U) == \A j \in J : j \in U \X U

\* own are quads about p, part[j] are quads about the member j and below.
Placed(p, J, own, part) ==
    /\ \A t \in own : t[1] = p
    /\ \A j \in J : \A t \in part[j] : Under(Sub(p, j), t[1])

\* Of p and what is below it, g has own and the parts.
Parted(g, p, J, own, part) ==
    \A t : t \in Below(g, p) <=> (t \in own \/ \E j \in J : t \in part[j])

\* g, taken apart: the quads about p are own, those of each member its part.
Apart(g, p, J, own, part) ==
    Own(g, p) = own /\ \A j \in J : Below(g, Sub(p, j)) = part[j]

\* A path with a segment and an index more.
LEMMA LongerPath ==
    ASSUME NEW U, NEW p \in Seq(U), NEW a \in U, NEW i \in U
    PROVE  /\ p \o <<a, i>> \in Seq(U)
           /\ Len(p \o <<a, i>>) = Len(p) + 2
           /\ (p \o <<a, i>>)[Len(p) + 1] = a
           /\ (p \o <<a, i>>)[Len(p) + 2] = i
           /\ \A k \in 1..Len(p) : (p \o <<a, i>>)[k] = p[k]
<1>1. <<a, i>> \in Seq(U) /\ Len(<<a, i>>) = 2 /\ <<a, i>>[1] = a /\ <<a, i>>[2] = i
  OBVIOUS
<1>2. QED
  BY <1>1

\* What is below a longer path is below the shorter one and says which it is.
LEMMA UnderLonger ==
    ASSUME NEW U, NEW p \in Seq(U), NEW a \in U, NEW i \in U, NEW q \in Seq(U),
           Under(p \o <<a, i>>, q)
    PROVE  Under(p, q) /\ q # p /\ q[Len(p) + 1] = a /\ q[Len(p) + 2] = i
<1> DEFINE r == p \o <<a, i>>
<1>1. /\ Len(r) = Len(p) + 2 /\ r[Len(p) + 1] = a /\ r[Len(p) + 2] = i
      /\ \A k \in 1..Len(p) : r[k] = p[k]
  BY LongerPath
<1> HIDE DEF r
<1>2. Len(p) \in Nat /\ Len(q) \in Nat
  OBVIOUS
<1>3. Len(r) <= Len(q) /\ \A k \in 1..Len(r) : q[k] = r[k]
  BY DEF Under, r
<1>4. QED
  BY <1>1, <1>2, <1>3 DEF Under

\* What a resource and the members of its lists wrote, taken apart.
LEMMA Split ==
    ASSUME NEW U, NEW p \in Seq(U), NEW J, Pairs(J, U), NEW own, NEW part, NEW g,
           Paths(g, U), Placed(p, J, own, part), Parted(g, p, J, own, part)
    PROVE  Apart(g, p, J, own, part)
<1>1. ASSUME NEW j \in J, NEW q \in Seq(U), Under(Sub(p, j), q)
      PROVE  Under(p, q) /\ q # p /\ q[Len(p) + 1] = j[1] /\ q[Len(p) + 2] = j[2]
  <2>1. j[1] \in U /\ j[2] \in U
    BY DEF Pairs
  <2>2. QED
    BY <1>1, <2>1, UnderLonger DEF Sub
<1>2. Under(p, p)
  BY DEF Under
<1>3. Own(g, p) = own
  <2>1. ASSUME NEW t \in g, t[1] = p PROVE t \in own
    <3>1. t \in Below(g, p) /\ t[1] \in Seq(U)
      BY <1>2, <2>1 DEF Below, Paths
    <3>2. QED
      BY <1>1, <2>1, <3>1 DEF Placed, Parted
  <2>2. ASSUME NEW t \in own PROVE t \in g /\ t[1] = p
    BY <2>2 DEF Below, Placed, Parted
  <2>3. QED
    BY <2>1, <2>2 DEF Own
<1>4. ASSUME NEW j \in J PROVE Below(g, Sub(p, j)) = part[j]
  <2>1. ASSUME NEW t \in part[j] PROVE t \in Below(g, Sub(p, j))
    <3>1. t \in Below(g, p)
      BY <2>1 DEF Parted
    <3>2. QED
      BY <2>1, <3>1 DEF Below, Placed
  <2>2. ASSUME NEW t \in g, Under(Sub(p, j), t[1]) PROVE t \in part[j]
    <3>1. t[1] \in Seq(U)
      BY DEF Paths
    <3>2. Under(p, t[1]) /\ t[1] # p /\ t[1][Len(p) + 1] = j[1] /\ t[1][Len(p) + 2] = j[2]
      BY <1>1, <2>2, <3>1
    <3>3. t \in own \/ \E k \in J : t \in part[k]
      BY <3>2 DEF Below, Parted
    <3>4. PICK k \in J : t \in part[k]
      BY <3>2, <3>3 DEF Placed
    <3>5. t[1][Len(p) + 1] = k[1] /\ t[1][Len(p) + 2] = k[2]
      BY <1>1, <3>1, <3>4 DEF Placed
    <3>6. j = k
      <4>1. j \in U \X U /\ k \in U \X U /\ j[1] = k[1] /\ j[2] = k[2]
        BY <3>2, <3>5 DEF Pairs
      <4>2. QED
        BY <4>1
    <3>7. QED
      BY <3>4, <3>6
  <2>3. QED
    BY <2>1, <2>2 DEF Below
<1>5. QED
  BY <1>3, <1>4 DEF Apart

\* U has what paths are made of, but for nodes and ids.
Alphabet(U) ==
    /\ Nat \subseteq U
    /\ {"catalogs", "datasets", "services", "distributions", "policies", "permissions",
        "prohibitions", "obligations", "constraints"} \subseteq U

\* Built from the fields of a constraint: an operator and operands, or a group.
Shaped(c) ==
    \/ c = Atomic(c.left, c.op, c.right)
    \/ /\ c.c \in ToSet(LOGICAL_CONSTRAINT_BUILDERS)
       /\ c = Group(c.c, c.kids)
       /\ c.kids \in Seq(ToSet(c.kids))

\* The quads whose subject is the constraint itself.
OwnQuads(at) ==
    Index(at.node, at.index) \cup
    (IF at.c.c = "atomic"
     THEN {Triple(at.node, "leftOperand", iri_or_literal_term(at.c.left)),
           Triple(at.node, "operator", iri_or_literal_term(at.c.op)),
           Triple(at.node, "rightOperand", LiteralTerm(at.c.right))}
     ELSE {Triple(at.node, "logicalOperator", at.c.c)} \cup
          {Triple(at.node, at.c.c, Resource(kid.node)) : kid \in KidsAt(at)})

\* The kinds of group.
groupKinds == {"xone", "or", "and", "andSequence"}

\* The kinds of group, as a set.
LEMMA Kinds ==
    /\ ToSet(LOGICAL_CONSTRAINT_BUILDERS) = groupKinds
    /\ LOGICAL_CONSTRAINT_BUILDERS \in Seq(groupKinds)
  BY DEF ToSet, LOGICAL_CONSTRAINT_BUILDERS, groupKinds

\* An atomic constraint has no constraints in it; a group has one of four kinds.
LEMMA ShapeOf ==
    ASSUME NEW c, Shaped(c)
    PROVE  /\ c.kids \in Seq(ToSet(c.kids))
           /\ \/ c.c = "atomic" /\ c.kids = <<>> /\ c = Atomic(c.left, c.op, c.right)
              \/ c.c # "atomic" /\ c.c \in groupKinds /\ c = Group(c.c, c.kids)
<1>1. CASE c = Atomic(c.left, c.op, c.right)
  <2>1. c.c = "atomic" /\ c.kids = <<>>
    BY <1>1 DEF Atomic
  <2>2. QED
    BY <1>1, <2>1
<1>2. CASE c # Atomic(c.left, c.op, c.right)
  BY <1>2, Kinds DEF Shaped, groupKinds
<1>3. QED
  BY <1>1, <1>2

\* A constraint's quads are its own and those of the constraints in it.
LEMMA QuadsOfOne ==
    ASSUME NEW y, Shaped(y.c), NEW depth, NEW below, NEW t
    PROVE  t \in ConstraintQuads(y, depth, below) <=>
               (t \in OwnQuads(y) \/ \E kid \in KidsAt(y) : t \in below[kid])
<1>1. CASE y.c.c = "atomic"
  <2>1. KidsAt(y) = {}
    BY <1>1, ShapeOf DEF KidsAt, groupKinds
  <2>2. QED
    BY <1>1, <2>1 DEF ConstraintQuads, OwnQuads
<1>2. CASE y.c.c # "atomic"
  BY <1>2 DEF ConstraintQuads, OwnQuads
<1>3. QED
  BY <1>1, <1>2

\* Where the constraints in a constraint are written.
LEMMA KidPaths ==
    ASSUME NEW U, Alphabet(U), NEW y, y.node \in Seq(U), Shaped(y.c),
           NEW kid \in KidsAt(y)
    PROVE  /\ kid.index \in Nat /\ kid.node \in Seq(U)
           /\ kid.node = Sub(y.node, <<"constraints", kid.index>>)
           /\ kid.index + 1 \in DOMAIN y.c.kids
           /\ kid.c = y.c.kids[kid.index + 1]
           /\ kid = At(kid.c, kid.node, kid.index)
<1>1. PICK i \in DOMAIN y.c.kids : kid = At(y.c.kids[i], constraint_iri(y.node, i - 1), i - 1)
  BY DEF KidsAt
<1>2. i \in 1..Len(y.c.kids) /\ Len(y.c.kids) \in Nat /\ DOMAIN y.c.kids = 1..Len(y.c.kids)
  BY ShapeOf
<1>3. i - 1 \in Nat /\ i - 1 + 1 = i
  BY <1>2
<1>4. kid.index = i - 1 /\ kid.node = Sub(y.node, <<"constraints", i - 1>>) /\ kid.c = y.c.kids[i]
  BY <1>1 DEF At, constraint_iri, Sub
<1>5. "constraints" \in U /\ i - 1 \in U
  BY <1>3 DEF Alphabet
<1>6. kid.node \in Seq(U)
  BY <1>4, <1>5, LongerPath DEF Sub
<1>7. kid = At(kid.c, kid.node, kid.index)
  BY <1>1, <1>4 DEF constraint_iri, Sub
<1>8. kid.index + 1 = i
  BY <1>3, <1>4
<1>9. QED
  BY <1>3, <1>4, <1>6, <1>7, <1>8

\* The graph around a constraint, taken apart: its own quads, and those of each
\* constraint in it.
LEMMA SplitConstraint ==
    ASSUME NEW U, Alphabet(U), NEW y, y.node \in Seq(U), Shaped(y.c), NEW depth, NEW below, NEW g,
           Paths(g, U), \A kid \in KidsAt(y) : \A t \in below[kid] : Under(kid.node, t[1]),
           Below(g, y.node) = ConstraintQuads(y, depth, below)
    PROVE  /\ Own(g, y.node) = OwnQuads(y)
           /\ \A kid \in KidsAt(y) : Below(g, kid.node) = below[kid]
<1> DEFINE pair(kid) == <<"constraints", kid.index>>
           J == {pair(kid) : kid \in KidsAt(y)}
           kidAt(j) == At(y.c.kids[j[2] + 1], Sub(y.node, j), j[2])
           part == [j \in J |-> below[kidAt(j)]]
<1>1. ASSUME NEW kid \in KidsAt(y)
      PROVE  /\ kid.index \in Nat /\ kid.node = Sub(y.node, pair(kid))
             /\ pair(kid) \in J /\ kidAt(pair(kid)) = kid
  <2>1. /\ kid.index \in Nat /\ kid.node = Sub(y.node, <<"constraints", kid.index>>)
        /\ kid.c = y.c.kids[kid.index + 1] /\ kid = At(kid.c, kid.node, kid.index)
    BY KidPaths
  <2>2. pair(kid)[1] = "constraints" /\ pair(kid)[2] = kid.index
    OBVIOUS
  <2>3. pair(kid) \in J
    OBVIOUS
  <2>4. kid.node = Sub(y.node, pair(kid))
    BY <2>1
  <2> HIDE DEF pair, J
  <2>5. QED
    BY <2>1, <2>2, <2>3, <2>4
<1>2. \A j \in J : \E kid \in KidsAt(y) : j = pair(kid)
  OBVIOUS
<1>3. Pairs(J, U)
  <2>1. \A i \in Nat : <<"constraints", i>> \in U \X U
    BY DEF Alphabet
  <2>2. QED
    BY <1>1, <2>1 DEF Pairs
<1>5. \A kid \in KidsAt(y) : part[pair(kid)] = below[kid]
  BY <1>1
<1> HIDE DEF pair, J, kidAt, part
<1>6. Placed(y.node, J, OwnQuads(y), part)
  <2>1. ASSUME NEW j \in J, NEW t \in part[j] PROVE Under(Sub(y.node, j), t[1])
    <3>1. PICK kid \in KidsAt(y) : j = pair(kid)
      BY <1>2
    <3>2. Sub(y.node, j) = kid.node /\ t \in below[kid]
      BY <1>1, <1>5, <2>1, <3>1
    <3>3. QED
      BY <3>2
  <2>2. \A t \in OwnQuads(y) : t[1] = y.node
    BY DEF OwnQuads, Index, Triple
  <2>3. QED
    BY <2>1, <2>2 DEF Placed
<1>7. Parted(g, y.node, J, OwnQuads(y), part)
  <2> SUFFICES ASSUME NEW t
               PROVE  t \in Below(g, y.node) <=>
                          (t \in OwnQuads(y) \/ \E j \in J : t \in part[j])
    BY DEF Parted
  <2>1. t \in Below(g, y.node) <=>
            (t \in OwnQuads(y) \/ \E kid \in KidsAt(y) : t \in below[kid])
    BY QuadsOfOne
  <2>2. QED
    BY <1>1, <1>2, <1>5, <2>1
<1>8. Apart(g, y.node, J, OwnQuads(y), part)
  BY <1>3, <1>6, <1>7, Split
<1>9. QED
  BY <1>1, <1>5, <1>8 DEF Apart

-----------------------------------------------------------------------------
(* The recursions that write and load a constraint *)

\* What is written of a constraint, level by level.
AtLevels(y) == Levels(y, KidsAt)
NextAt(x, n, level) == UNION {KidsAt(y) : y \in level}
AtRecursion == INSTANCE NatRecursion WITH First <- Itself, Then <- NextAt

\* write_constraint at its deepest, and a level up.
DeepestWritten(y) ==
    [z \in AtLevels(y)[MAX_CONSTRAINT_DEPTH] |-> ConstraintQuads(z, MAX_CONSTRAINT_DEPTH, <<>>)]
NextWritten(y, rest, below) ==
    [z \in AtLevels(y)[MAX_CONSTRAINT_DEPTH - rest] |->
        ConstraintQuads(z, MAX_CONSTRAINT_DEPTH - rest, [w \in KidsAt(z) |-> below[w]])]
WriteRecursion == INSTANCE NatRecursion WITH First <- DeepestWritten, Then <- NextWritten

\* The resources that are loaded for a constraint, level by level; x is a graph
\* and the constraint's resource in it.
NodeLevels(x) == Levels(x[2], LAMBDA s : KidNodes(x[1], s))
FirstNode(x) == {x[2]}
NextNodes(x, n, level) == UNION {KidNodes(x[1], s) : s \in level}
NodeRecursion == INSTANCE NatRecursion WITH First <- FirstNode, Then <- NextNodes

\* load_constraint at its deepest, and a level up.
DeepestLoaded(x) ==
    [s \in NodeLevels(x)[Bound] |-> LoadedConstraint(x[1], s, Bound, <<>>)]
NextLoaded(x, rest, below) ==
    [s \in NodeLevels(x)[Bound - rest] |->
        LoadedConstraint(x[1], s, Bound - rest, [r \in KidNodes(x[1], s) |-> below[r]])]
LoadRecursion == INSTANCE NatRecursion WITH First <- DeepestLoaded, Then <- NextLoaded

\* The levels of what is written of a constraint: the constraint, then what is in
\* the constraints of the level before.
LEMMA AtLevelsRecurse ==
    ASSUME NEW y
    PROVE  /\ AtLevels(y)[0] = {y}
           /\ \A k \in Nat : AtLevels(y)[k + 1] = UNION {KidsAt(z) : z \in AtLevels(y)[k]}
<1> DEFINE Is(f) == f = [k \in Nat |-> IF k = 0 THEN {y}
                                       ELSE UNION {KidsAt(z) : z \in f[k - 1]}]
<1>1. \E f : Is(f)
  BY AtRecursion!RecursionExists DEF Itself, NextAt
<1>2. AtLevels(y) = CHOOSE f : Is(f)
  BY DEF AtLevels, Levels
<1>3. Is(AtLevels(y))
  BY <1>1, <1>2
<1>4. QED
  BY <1>3

\* The same of the resources that are loaded.
LEMMA NodeLevelsRecurse ==
    ASSUME NEW x
    PROVE  /\ NodeLevels(x)[0] = {x[2]}
           /\ \A k \in Nat :
                 NodeLevels(x)[k + 1] = UNION {KidNodes(x[1], s) : s \in NodeLevels(x)[k]}
<1> DEFINE Is(f) == f = [k \in Nat |-> IF k = 0 THEN {x[2]}
                                       ELSE UNION {KidNodes(x[1], s) : s \in f[k - 1]}]
<1>1. \E f : Is(f)
  <2>1. PICK g : g = [n \in Nat |-> IF n = 0 THEN FirstNode(x) ELSE NextNodes(x, n, g[n - 1])]
    BY NodeRecursion!RecursionExists
  <2>2. Is(g)
    BY <2>1 DEF FirstNode, NextNodes
  <2>3. QED
    BY <2>2
<1>2. NodeLevels(x) = CHOOSE f : Is(f)
  BY DEF NodeLevels, Levels
<1>3. Is(NodeLevels(x))
  BY <1>1, <1>2
<1>4. QED
  BY <1>3

\* made gives, for each level, what is written of its constraints.
WrittenBy(y, made) ==
    /\ write_constraint(y.c, y.node, y.index) = made[MAX_CONSTRAINT_DEPTH][y]
    /\ \A k \in 0..MAX_CONSTRAINT_DEPTH : \A z \in AtLevels(y)[k] :
          \E below : /\ made[MAX_CONSTRAINT_DEPTH - k][z] = ConstraintQuads(z, k, below)
                     /\ k < MAX_CONSTRAINT_DEPTH =>
                           \A w \in KidsAt(z) : below[w] = made[MAX_CONSTRAINT_DEPTH - k - 1][w]

\* write_constraint's recursion, unfolded: what is written of the constraints of a
\* level is given by what is written of those of the next.
LEMMA WriteRecurses ==
    ASSUME NEW y, y = At(y.c, y.node, y.index) PROVE \E made : WrittenBy(y, made)
<1> DEFINE D == MAX_CONSTRAINT_DEPTH
           under(f, z, rest) == IF rest = 0 THEN <<>> ELSE [w \in KidsAt(z) |-> f[rest - 1][w]]
           Row(f, rest) == [z \in AtLevels(y)[D - rest] |->
                               ConstraintQuads(z, D - rest, under(f, z, rest))]
           Is(f) == f = [rest \in Nat |-> Row(f, rest)]
<1>1. D \in Nat
  BY DepthAssumption
<1>2. PICK g : g = [n \in Nat |-> IF n = 0 THEN DeepestWritten(y) ELSE NextWritten(y, n, g[n - 1])]
  BY WriteRecursion!RecursionExists
<1>3. ASSUME NEW n \in Nat PROVE g[n] = Row(g, n)
  <2>1. CASE n = 0
    BY <1>1, <1>2, <2>1 DEF DeepestWritten
  <2>2. CASE n # 0
    BY <1>1, <1>2, <2>2 DEF NextWritten
  <2>3. QED
    BY <2>1, <2>2
<1>4. Is(g)
  BY <1>2, <1>3
<1> DEFINE made == CHOOSE f : Is(f)
<1>5. Is(made)
  BY <1>4
<1>6. write_constraint(y.c, y.node, y.index) = made[D][y]
  BY DEF write_constraint, Nested, AtLevels
<1>7. ASSUME NEW k \in 0..D, NEW z \in AtLevels(y)[k]
      PROVE  made[D - k][z] = ConstraintQuads(z, k, under(made, z, D - k))
  <2>1. D - k \in Nat /\ D - (D - k) = k
    BY <1>1
  <2>2. made[D - k] = Row(made, D - k)
    BY <1>5, <2>1
  <2>3. QED
    BY <2>1, <2>2
<1>8. ASSUME NEW k \in 0..D, NEW z \in AtLevels(y)[k], k < D, NEW w \in KidsAt(z)
      PROVE  under(made, z, D - k)[w] = made[D - k - 1][w]
  BY <1>1, <1>8
<1> HIDE DEF made, under
<1>9. QED
  BY <1>6, <1>7, <1>8 DEF WrittenBy

\* made gives, for each level but the last, what is loaded of its resources.
LoadedBy(x, made) ==
    /\ load_constraint(x[1], x[2]) = made[Bound][x[2]]
    /\ \A k \in 0..MAX_CONSTRAINT_DEPTH : \A s \in NodeLevels(x)[k] :
          made[Bound - k][s]
              = LoadedConstraint(x[1], s, k, [r \in KidNodes(x[1], s) |-> made[Bound - k - 1][r]])

\* load_constraint's recursion, unfolded: what is loaded of the resources of a level
\* is given by what is loaded of those of the next.
LEMMA LoadRecurses == ASSUME NEW x PROVE \E made : LoadedBy(x, made)
<1> DEFINE Row(f, rest) ==
        [s \in NodeLevels(x)[Bound - rest] |->
            LoadedConstraint(x[1], s, Bound - rest,
                             IF rest = 0 THEN <<>>
                             ELSE [r \in KidNodes(x[1], s) |-> f[rest - 1][r]])]
           Is(f) == f = [rest \in Nat |-> Row(f, rest)]
<1>1. Bound \in Nat /\ MAX_CONSTRAINT_DEPTH \in Nat
  BY DepthAssumption DEF Bound
<1>2. PICK g : g = [n \in Nat |-> IF n = 0 THEN DeepestLoaded(x) ELSE NextLoaded(x, n, g[n - 1])]
  BY LoadRecursion!RecursionExists
<1>3. ASSUME NEW n \in Nat PROVE g[n] = Row(g, n)
  <2>1. CASE n = 0
    BY <1>1, <1>2, <2>1 DEF DeepestLoaded
  <2>2. CASE n # 0
    BY <1>1, <1>2, <2>2 DEF NextLoaded
  <2>3. QED
    BY <2>1, <2>2
<1>4. Is(g)
  BY <1>2, <1>3
<1> DEFINE made == CHOOSE f : Is(f)
<1>5. Is(made)
  BY <1>4
<1>6. load_constraint(x[1], x[2]) = made[Bound][x[2]]
  BY DEF load_constraint, Nested, NodeLevels, Bound
<1>7. ASSUME NEW k \in 0..MAX_CONSTRAINT_DEPTH, NEW s \in NodeLevels(x)[k]
      PROVE  made[Bound - k][s]
                = LoadedConstraint(x[1], s, k,
                                   [r \in KidNodes(x[1], s) |-> made[Bound - k - 1][r]])
  <2>1. Bound - k \in Nat /\ Bound - k # 0 /\ Bound - (Bound - k) = k
    BY <1>1 DEF Bound
  <2>2. made[Bound - k] = Row(made, Bound - k)
    BY <1>5, <2>1
  <2>3. QED
    BY <2>1, <2>2
<1> HIDE DEF made
<1>8. QED
  BY <1>6, <1>7 DEF LoadedBy

-----------------------------------------------------------------------------
(* Loading one resource from its own quads *)

\* The objects of a subject depend on the quads about it only.
LEMMA ObjectsOf ==
    ASSUME NEW g, NEW s, NEW p, NEW o
    PROVE  o \in Objects(g, s, p) <=> \E t \in Own(g, s) : t[2] = p /\ o = t[3]
  BY DEF Objects, Own

\* A value that is there is not missing, and can be taken out.
LEMMA SomeIsSome == ASSUME NEW x PROVE Some(x) # None /\ Some(x)[1] = x
  BY DEF Some, None

\* Subject, predicate and object of a quad.
LEMMA TripleParts ==
    ASSUME NEW s, NEW p, NEW o
    PROVE  Triple(s, p, o)[1] = s /\ Triple(s, p, o)[2] = p /\ Triple(s, p, o)[3] = o
  BY DEF Triple

\* A predicate with one object, and one with none.
LEMMA OneObject ==
    ASSUME NEW g, NEW s, NEW p, NEW o, Objects(g, s, p) = {o}
    PROVE  /\ first_object(g, s, p) = Some(o) /\ first_object(g, s, p) # None
           /\ OptionalString(g, s, p) = Some(o.v)
<1>1. Objects(g, s, p) # {}
  OBVIOUS
<1>2. (CHOOSE x \in {o} : TRUE) = o
  OBVIOUS
<1>3. first_object(g, s, p) = Some(o)
  BY <1>1, <1>2 DEF first_object
<1>4. Some(o) # None /\ Some(o)[1] = o
  BY DEF Some, None
<1>5. OptionalString(g, s, p) = Some(o.v)
  BY <1>3, <1>4 DEF OptionalString, term_as_string
<1>6. QED
  BY <1>3, <1>4, <1>5

\* A predicate without an object is read as a missing value.
LEMMA NoObject ==
    ASSUME NEW g, NEW s, NEW p, Objects(g, s, p) = {}
    PROVE  first_object(g, s, p) = None /\ OptionalString(g, s, p) = None
  BY DEF first_object, OptionalString

\* The kinds of group a resource has links of.
LEMMA LinkedKinds ==
    ASSUME NEW g, NEW s, NEW S, groupKinds \subseteq S
    PROVE  /\ linked(g, s) \in Seq(S)
           /\ \A k : k \in ToSet(linked(g, s)) <=> k \in groupKinds /\ Objects(g, s, k) # {}
<1> DEFINE kind(k) == IF Objects(g, s, k) = {} THEN None ELSE Some(k)
           L == LOGICAL_CONSTRAINT_BUILDERS
           m == MapSeq(L, kind)
<1>1. L \in Seq(groupKinds) /\ ToSet(L) = groupKinds
  BY Kinds
<1>2. ASSUME NEW i \in DOMAIN L PROVE m[i] \in Seq(S)
  <2>1. m[i] = kind(L[i]) /\ L[i] \in groupKinds
    BY <1>1 DEF MapSeq
  <2>2. QED
    BY <2>1, OptionIsList
<1>3. m \in Seq(Seq(S)) /\ DOMAIN m = DOMAIN L
  <2>1. m = [i \in DOMAIN L |-> m[i]] /\ DOMAIN m = DOMAIN L
    BY DEF MapSeq
  <2> HIDE DEF m
  <2>2. QED
    BY <1>1, <1>2, <2>1, MappedIsList
<1>4. linked(g, s) = Flatten(m)
  BY DEF linked
<1>5. Flatten(m) \in Seq(S) /\ ToSet(Flatten(m)) = UNION {ToSet(m[i]) : i \in DOMAIN m}
  BY <1>3, FlattenMembers
<1>6. ASSUME NEW i \in DOMAIN L, NEW k
      PROVE  k \in ToSet(m[i]) <=> (k = L[i] /\ Objects(g, s, k) # {})
  <2>1. m[i] = kind(L[i])
    BY DEF MapSeq
  <2>2. ToSet(None) = {} /\ ToSet(Some(L[i])) = {L[i]}
    BY DEF None, Some, ToSet
  <2>3. QED
    BY <2>1, <2>2
<1>7. \A k : k \in groupKinds <=> \E i \in DOMAIN L : k = L[i]
  BY <1>1 DEF ToSet
<1> HIDE DEF m, L
<1>8. QED
  BY <1>3, <1>4, <1>5, <1>6, <1>7

\* A constraint's operands, read from its quads.
LEMMA LoadAtomic ==
    ASSUME NEW g, NEW y, Own(g, y.node) = OwnQuads(y), Shaped(y.c), y.c.c = "atomic",
           NEW depth, ~ (depth > MAX_CONSTRAINT_DEPTH), NEW kids
    PROVE  LoadedConstraint(g, y.node, depth, kids) = Indexed(y.c, y.index)
<1> DEFINE s == y.node
           l == iri_or_literal_term(y.c.left)
           o == iri_or_literal_term(y.c.op)
           r == LiteralTerm(y.c.right)
<1>1. l.v = y.c.left /\ o.v = y.c.op /\ r.v = y.c.right
  BY DEF iri_or_literal_term, LiteralTerm
<1>2. Own(g, s) = {Triple(s, "sequenceIndex", y.index), Triple(s, "leftOperand", l),
                   Triple(s, "operator", o), Triple(s, "rightOperand", r)}
  BY DEF OwnQuads, Index
<1> HIDE DEF s, l, o, r
<1>3. Objects(g, s, "sequenceIndex") = {y.index}
  BY <1>2, ObjectsOf, TripleParts
<1>4. Objects(g, s, "leftOperand") = {l}
  BY <1>2, ObjectsOf, TripleParts
<1>5. Objects(g, s, "operator") = {o}
  BY <1>2, ObjectsOf, TripleParts
<1>6. Objects(g, s, "rightOperand") = {r}
  BY <1>2, ObjectsOf, TripleParts
<1>7. /\ sequence_index(g, s) = Some(y.index)
      /\ OptionalString(g, s, "leftOperand") = Some(y.c.left)
      /\ OptionalString(g, s, "operator") = Some(y.c.op)
      /\ OptionalString(g, s, "rightOperand") = Some(y.c.right)
  BY <1>1, <1>3, <1>4, <1>5, <1>6, OneObject DEF sequence_index
<1>8. y.c = Atomic(y.c.left, y.c.op, y.c.right)
  BY ShapeOf
<1>9. OptionalString(g, s, "leftOperand") # None
  BY <1>7, SomeIsSome
<1>10. LoadedConstraint(g, s, depth, kids)
           = Entry(Some(y.index),
                   Unwrap([c |-> Some("atomic"), left |-> Some(y.c.left), op |-> Some(y.c.op),
                           right |-> Some(y.c.right), kids |-> Some(<<>>)]))
  BY <1>7, <1>9, Zenon DEF LoadedConstraint
<1>11. Unwrap([c |-> Some("atomic"), left |-> Some(y.c.left), op |-> Some(y.c.op),
               right |-> Some(y.c.right), kids |-> Some(<<>>)])
           = Some(Atomic(y.c.left, y.c.op, y.c.right))
  BY DEF Unwrap, Some, None, Atomic
<1>12. Entry(Some(y.index), Some(y.c)) = Indexed(y.c, y.index)
  BY DEF Entry, Unwrap, Indexed, Some, None
<1>13. QED
  BY <1>8, <1>10, <1>11, <1>12 DEF s
\* The constraints of a group are linked under its kind, and no other kind is.
GroupIn(g, y) ==
    /\ Objects(g, y.node, "sequenceIndex") = {y.index}
    /\ Objects(g, y.node, "leftOperand") = {}
    /\ Objects(g, y.node, "logicalOperator") = {y.c.c}
    /\ Objects(g, y.node, y.c.c) = {Resource(kid.node) : kid \in KidsAt(y)}
    /\ \A k \in groupKinds : k # y.c.c => Objects(g, y.node, k) = {}

\* A group's own quads link the constraints in it under its kind, and nothing else.
LEMMA GroupLinks ==
    ASSUME NEW g, NEW y, Own(g, y.node) = OwnQuads(y), Shaped(y.c), y.c.c # "atomic"
    PROVE  GroupIn(g, y)
<1> DEFINE s == y.node
           links == {Triple(s, y.c.c, Resource(kid.node)) : kid \in KidsAt(y)}
<1>1. Own(g, s) = {Triple(s, "sequenceIndex", y.index), Triple(s, "logicalOperator", y.c.c)}
                      \cup links
  BY DEF OwnQuads, Index
<1>2. y.c.c \in groupKinds
  BY ShapeOf
<1>3. \A k \in groupKinds : k # "sequenceIndex" /\ k # "leftOperand" /\ k # "logicalOperator"
  BY DEF groupKinds
<1>4. \A t \in links : t[2] = y.c.c /\ \E kid \in KidsAt(y) : t[3] = Resource(kid.node)
  BY TripleParts
<1>5. \A kid \in KidsAt(y) : Triple(s, y.c.c, Resource(kid.node)) \in links
  OBVIOUS
<1> HIDE DEF s, links
<1>6. Objects(g, s, "sequenceIndex") = {y.index} /\ Objects(g, s, "leftOperand") = {}
  BY <1>1, <1>2, <1>3, <1>4, ObjectsOf, TripleParts
<1>7. Objects(g, s, "logicalOperator") = {y.c.c}
  BY <1>1, <1>2, <1>3, <1>4, ObjectsOf, TripleParts
<1>8. \A k \in groupKinds : k # y.c.c => Objects(g, s, k) = {}
  BY <1>1, <1>2, <1>3, <1>4, ObjectsOf, TripleParts
<1>9. ASSUME NEW o
      PROVE  o \in Objects(g, s, y.c.c) <=> \E kid \in KidsAt(y) : o = Resource(kid.node)
  <2>1. ASSUME o \in Objects(g, s, y.c.c) PROVE \E kid \in KidsAt(y) : o = Resource(kid.node)
    <3>1. PICK t \in Own(g, s) : t[2] = y.c.c /\ o = t[3]
      BY <2>1, ObjectsOf
    <3>2. t \in links
      BY <1>1, <1>2, <1>3, <3>1, TripleParts
    <3>3. QED
      BY <1>4, <3>1, <3>2
  <2>2. ASSUME NEW kid \in KidsAt(y) PROVE Resource(kid.node) \in Objects(g, s, y.c.c)
    <3>1. Triple(s, y.c.c, Resource(kid.node)) \in Own(g, s)
      BY <1>1, <1>5
    <3>2. QED
      BY <3>1, ObjectsOf, TripleParts
  <2>3. QED
    BY <2>1, <2>2
<1>10. Objects(g, s, y.c.c) = {Resource(kid.node) : kid \in KidsAt(y)}
  BY <1>9
<1>11. QED
  BY <1>6, <1>7, <1>8, <1>10 DEF s, GroupIn

\* Where the constraints of a constraint are loaded from.
LEMMA GroupKidNodes ==
    ASSUME NEW g, NEW y, Own(g, y.node) = OwnQuads(y), Shaped(y.c), y.c.c # "atomic"
    PROVE  /\ logical_operator(g, y.node) = y.c.c
           /\ KidNodes(g, y.node) = {kid.node : kid \in KidsAt(y)}
<1>1. GroupIn(g, y)
  BY GroupLinks
<1>2. first_object(g, y.node, "logicalOperator") = Some(y.c.c)
  BY <1>1, OneObject DEF GroupIn
<1>3. logical_operator(g, y.node) = y.c.c
  <2> DEFINE S == groupKinds \cup {""}
             k == y.c.c
             l == linked(g, y.node)
             e == ""
  <2>1. k \in S /\ e \in S /\ l \in Seq(S)
    BY ShapeOf, LinkedKinds
  <2>2. logical_operator(g, y.node) = Head((<<k>> \o l) \o <<e>>)
    BY <1>2 DEF logical_operator, Some
  <2> HIDE DEF S, k, l, e
  <2>3. <<k>> \o l \in Seq(S) /\ Len(<<k>> \o l) = 1 + Len(l) /\ (<<k>> \o l)[1] = k
    BY <2>1
  <2>4. /\ (<<k>> \o l) \o <<e>> \in Seq(S) /\ ((<<k>> \o l) \o <<e>>)[1] = k
        /\ Len((<<k>> \o l) \o <<e>>) = 2 + Len(l)
    BY <2>1, <2>3
  <2>5. Head((<<k>> \o l) \o <<e>>) = k
    BY <2>1, <2>4
  <2>6. QED
    BY <2>2, <2>5 DEF k
<1>5. \A p : Resource(p).v = p
  BY DEF Resource
<1>6. Objects(g, y.node, y.c.c) = {Resource(kid.node) : kid \in KidsAt(y)}
  BY <1>1 DEF GroupIn
<1>7. KidNodes(g, y.node) = {o.v : o \in Objects(g, y.node, y.c.c)}
  BY <1>3 DEF KidNodes
<1>8. QED
  BY <1>3, <1>5, <1>6, <1>7

\* A group, from what its constraints were loaded to.
LEMMA LoadGroup ==
    ASSUME NEW g, NEW y, Own(g, y.node) = OwnQuads(y), Shaped(y.c), y.c.c # "atomic",
           NEW depth, ~ (depth > MAX_CONSTRAINT_DEPTH), NEW kids,
           \A kid \in KidsAt(y) : kids[kid.node] = Indexed(kid.c, kid.index)
    PROVE  LoadedConstraint(g, y.node, depth, kids) = Indexed(y.c, y.index)
<1> DEFINE s == y.node
           x == y.c.kids
           loaded == {kids[kid] : kid \in KidNodes(g, s)}
<1>1. /\ logical_operator(g, s) = y.c.c /\ y.c.c \in groupKinds
      /\ KidNodes(g, s) = {kid.node : kid \in KidsAt(y)}
      /\ x \in Seq(ToSet(x)) /\ y.c = Group(y.c.c, x)
  BY GroupKidNodes, ShapeOf
<1>2. /\ sequence_index(g, s) = Some(y.index)
      /\ OptionalString(g, s, "leftOperand") = None
      /\ first_object(g, s, "logicalOperator") = Some(y.c.c)
  <2>1. GroupIn(g, y)
    BY GroupLinks
  <2>2. QED
    BY <2>1, OneObject, NoObject DEF sequence_index, GroupIn
<1>3. ToSet(linked(g, s)) \subseteq ToSet(Some(y.c.c))
  <2>1. ToSet(Some(y.c.c)) = {y.c.c}
    BY DEF Some, ToSet
  <2>2. GroupIn(g, y)
    BY GroupLinks
  <2>3. \A k : k \in ToSet(linked(g, s)) => k \in groupKinds /\ Objects(g, s, k) # {}
    BY LinkedKinds
  <2>4. QED
    BY <2>1, <2>2, <2>3 DEF GroupIn
<1>4. AllLoaded(loaded) = Some(x)
  <2>1. ASSUME NEW i \in DOMAIN x PROVE Indexed(x[i], i - 1) \in loaded
    <3> DEFINE kid == At(x[i], constraint_iri(s, i - 1), i - 1)
    <3>1. kid \in KidsAt(y) /\ kid.c = x[i] /\ kid.index = i - 1
      BY DEF KidsAt, At
    <3> HIDE DEF kid
    <3>2. kid.node \in KidNodes(g, s) /\ kids[kid.node] = Indexed(x[i], i - 1)
      BY <1>1, <3>1
    <3>3. QED
      BY <3>2
  <2>2. ASSUME NEW l \in loaded PROVE \E i \in DOMAIN x : l = Indexed(x[i], i - 1)
    <3>1. PICK kid \in KidsAt(y) : l = Indexed(kid.c, kid.index)
      BY <1>1
    <3>2. PICK i \in DOMAIN x : kid = At(x[i], constraint_iri(s, i - 1), i - 1)
      BY DEF KidsAt
    <3>3. kid.c = x[i] /\ kid.index = i - 1
      BY <3>2 DEF At
    <3>4. QED
      BY <3>1, <3>3
  <2> HIDE DEF loaded, x
  <2>3. IsList(x) /\ AreOf(loaded, x)
    BY <1>1, <2>1, <2>2 DEF IsList, AreOf
  <2>4. QED
    BY <2>3, ListLoads
<1>5. y.c.c \in ToSet(LOGICAL_CONSTRAINT_BUILDERS)
  BY <1>1, Kinds
<1> HIDE DEF s, x, loaded
<1>6. LoadedConstraint(g, s, depth, kids)
           = Entry(Some(y.index),
                   Unwrap([c |-> Some(y.c.c), left |-> Some(EmptyString), op |-> Some(EmptyString),
                           right |-> Some(EmptyString), kids |-> AllLoaded(loaded)]))
  BY <1>1, <1>2, <1>3, <1>5, Zenon DEF LoadedConstraint, loaded
<1>7. \A k, e, l : Unwrap([c |-> Some(k), left |-> Some(e), op |-> Some(e), right |-> Some(e),
                          kids |-> Some(l)])
           = Some([c |-> k, left |-> e, op |-> e, right |-> e, kids |-> l])
  BY DEF Unwrap, Some, None
<1>8. Unwrap([c |-> Some(y.c.c), left |-> Some(EmptyString), op |-> Some(EmptyString),
              right |-> Some(EmptyString), kids |-> Some(x)]) = Some(Group(y.c.c, x))
  BY <1>7 DEF Group
<1>9. Entry(Some(y.index), Some(y.c)) = Indexed(y.c, y.index)
  BY DEF Entry, Unwrap, Indexed, Some, None
<1>10. QED
  BY <1>1, <1>4, <1>6, <1>8, <1>9 DEF s

-----------------------------------------------------------------------------
(* A constraint is loaded as it was written *)

\* Every constraint in c has the fields of its kind.
AllShaped(c) == \A k \in 0..MAX_CONSTRAINT_DEPTH : \A d \in KidLevels(c)[k] : Shaped(d)

\* Where the constraints in y.c are written, level by level.
PlacedAt(U, y) ==
    \A k \in 0..MAX_CONSTRAINT_DEPTH : \A z \in AtLevels(y)[k] :
        /\ z.node \in Seq(U) /\ Shaped(z.c) /\ z.c \in KidLevels(y.c)[k]
        /\ k = MAX_CONSTRAINT_DEPTH => KidsAt(z) = {}

\* Every constraint in one that is written has a path below its own.
LEMMA AllPlaced ==
    ASSUME NEW U, Alphabet(U), NEW y, y.node \in Seq(U), AllShaped(y.c), ~ TooDeep(y.c)
    PROVE  PlacedAt(U, y)
<1> DEFINE D == MAX_CONSTRAINT_DEPTH
           Good(k) == \A z \in AtLevels(y)[k] : z.node \in Seq(U) /\ z.c \in KidLevels(y.c)[k]
           T == {k \in Nat : k <= D => Good(k)}
<1>1. D \in Nat
  BY DepthAssumption
<1>2. \A k \in 0..D : Good(k) => \A z \in AtLevels(y)[k] : Shaped(z.c)
  BY DEF AllShaped
<1>3. 0 \in T
  BY <1>1, AtLevelsRecurse, KidLevelsRecurse
<1>4. \A z : \A kid \in KidsAt(z) : kid.c \in Kids(z.c)
  BY DEF KidsAt, At, Kids, ToSet
<1>5. ASSUME NEW k \in T PROVE k + 1 \in T
  <2> SUFFICES ASSUME k + 1 <= D, NEW z \in AtLevels(y)[k + 1]
               PROVE  z.node \in Seq(U) /\ z.c \in KidLevels(y.c)[k + 1]
    OBVIOUS
  <2>1. PICK w \in AtLevels(y)[k] : z \in KidsAt(w)
    BY AtLevelsRecurse
  <2>2. k \in 0..D /\ w.node \in Seq(U) /\ w.c \in KidLevels(y.c)[k] /\ Shaped(w.c)
    BY <1>1, <1>2, <2>1
  <2>3. z.node \in Seq(U)
    BY <2>1, <2>2, KidPaths
  <2>4. z.c \in KidLevels(y.c)[k + 1]
    BY <1>4, <2>1, <2>2, KidLevelsRecurse
  <2>5. QED
    BY <2>3, <2>4
<1>6. T = Nat
  <2> HIDE DEF T
  <2>1. T \subseteq Nat
    BY DEF T
  <2>2. QED
    BY <1>3, <1>5, <2>1, KidRecursion!Induction
<1>7. ASSUME NEW z \in AtLevels(y)[D] PROVE KidsAt(z) = {}
  <2>1. z.c \in KidLevels(y.c)[D]
    BY <1>1, <1>6
  <2>2. KidLevels(y.c)[D + 1] = {}
    <3>1. \A c : TooDeep(c) <=> KidLevels(c)[D + 1] # {}
      BY DEF TooDeep, KidLevels
    <3>2. QED
      BY <3>1
  <2>3. Kids(z.c) = {}
    <3>1. KidLevels(y.c)[D + 1] = UNION {Kids(d) : d \in KidLevels(y.c)[D]}
      BY <1>1, KidLevelsRecurse
    <3>2. Kids(z.c) \subseteq UNION {Kids(d) : d \in KidLevels(y.c)[D]}
      BY <2>1
    <3>3. QED
      BY <2>2, <3>1, <3>2
  <2>4. QED
    BY <1>4, <2>3
<1>8. ASSUME NEW k \in 0..D PROVE Good(k)
  BY <1>1, <1>6
<1> HIDE DEF T
<1>9. QED
  BY <1>2, <1>7, <1>8 DEF PlacedAt

\* No quad gives a constraint a type.
LEMMA OwnQuadsNoType ==
    ASSUME NEW y, Shaped(y.c), NEW t \in OwnQuads(y) PROVE t[2] # "type"
<1>1. y.c.c # "atomic" => y.c.c \in groupKinds
  BY ShapeOf
<1>2. y.c.c # "atomic" => y.c.c # "type"
  BY <1>1 DEF groupKinds
<1>3. QED
  BY <1>2, TripleParts DEF OwnQuads, Index

\* What is written of a constraint is about its resource and those below it.
LEMMA WrittenUnder ==
    ASSUME NEW U, Alphabet(U), NEW y, PlacedAt(U, y), NEW made, WrittenBy(y, made)
    PROVE  \A k \in 0..MAX_CONSTRAINT_DEPTH : \A z \in AtLevels(y)[k] :
               \A t \in made[MAX_CONSTRAINT_DEPTH - k][z] :
                   t[1] \in Seq(U) /\ Under(z.node, t[1]) /\ t[2] # "type"
<1> DEFINE D == MAX_CONSTRAINT_DEPTH
           Good(rest) == \A z \in AtLevels(y)[D - rest] : \A t \in made[rest][z] :
                             t[1] \in Seq(U) /\ Under(z.node, t[1]) /\ t[2] # "type"
           T == {rest \in Nat : rest <= D => Good(rest)}
<1>1. D \in Nat
  BY DepthAssumption
<1>2. ASSUME NEW rest \in 0..D, NEW z \in AtLevels(y)[D - rest], NEW t \in made[rest][z],
             rest # 0 => Good(rest - 1)
      PROVE  t[1] \in Seq(U) /\ Under(z.node, t[1]) /\ t[2] # "type"
  <2> DEFINE k == D - rest
  <2>1. k \in 0..D /\ D - k = rest /\ D - k - 1 = rest - 1 /\ (k = D <=> rest = 0) /\ (k < D <=> rest # 0)
    BY <1>1
  <2>2. z.node \in Seq(U) /\ Shaped(z.c) /\ (rest = 0 => KidsAt(z) = {})
    BY <2>1 DEF PlacedAt
  <2>3. PICK below : /\ made[rest][z] = ConstraintQuads(z, k, below)
                     /\ rest # 0 => \A w \in KidsAt(z) : below[w] = made[rest - 1][w]
    BY <2>1 DEF WrittenBy
  <2>4. t \in OwnQuads(z) \/ \E kid \in KidsAt(z) : t \in below[kid]
    BY <1>2, <2>2, <2>3, QuadsOfOne
  <2>5. CASE t \in OwnQuads(z)
    <3>1. t[1] = z.node
      BY <2>5 DEF OwnQuads, Index, Triple
    <3>2. t[2] # "type"
      BY <2>2, <2>5, OwnQuadsNoType
    <3>3. QED
      BY <2>2, <3>1, <3>2 DEF Under
  <2>6. ASSUME NEW kid \in KidsAt(z), t \in below[kid]
        PROVE  t[1] \in Seq(U) /\ Under(z.node, t[1]) /\ t[2] # "type"
    <3>1. rest # 0 /\ t \in made[rest - 1][kid]
      BY <2>2, <2>3, <2>6
    <3>2. kid \in AtLevels(y)[k + 1] /\ k + 1 = D - (rest - 1)
      BY <1>1, <2>1, AtLevelsRecurse
    <3>3. t[1] \in Seq(U) /\ Under(kid.node, t[1]) /\ t[2] # "type"
      BY <1>2, <3>1, <3>2
    <3>4. kid.index \in Nat /\ kid.node = z.node \o <<"constraints", kid.index>>
      BY <2>2, KidPaths DEF Sub
    <3>5. "constraints" \in U /\ kid.index \in U
      BY <3>4 DEF Alphabet
    <3>6. Under(z.node, t[1])
      BY <2>2, <3>3, <3>4, <3>5, UnderLonger
    <3>7. QED
      BY <3>3, <3>6
  <2>7. QED
    BY <2>4, <2>5, <2>6
<1>3. 0 \in T
  BY <1>1, <1>2
<1>4. ASSUME NEW rest \in T PROVE rest + 1 \in T
  <2> SUFFICES ASSUME rest + 1 <= D PROVE Good(rest + 1)
    OBVIOUS
  <2>1. Good(rest) /\ rest + 1 \in 0..D /\ (rest + 1) - 1 = rest
    BY <1>1
  <2>2. QED
    BY <1>2, <2>1
<1>5. T = Nat
  <2> HIDE DEF T
  <2>1. T \subseteq Nat
    BY DEF T
  <2>2. QED
    BY <1>3, <1>4, <2>1, KidRecursion!Induction
<1>6. ASSUME NEW k \in 0..D PROVE Good(D - k) /\ D - (D - k) = k
  BY <1>1, <1>5
<1>7. QED
  BY <1>6

\* The graph holds, of every constraint in y.c, what was written of it.
LEMMA WrittenIsHeld ==
    ASSUME NEW U, Alphabet(U), NEW y, PlacedAt(U, y), NEW made, WrittenBy(y, made),
           NEW g, Paths(g, U), Below(g, y.node) = write_constraint(y.c, y.node, y.index)
    PROVE  \A k \in 0..MAX_CONSTRAINT_DEPTH : \A z \in AtLevels(y)[k] :
               Own(g, z.node) = OwnQuads(z)
<1> DEFINE D == MAX_CONSTRAINT_DEPTH
           Good(k) == \A z \in AtLevels(y)[k] : Below(g, z.node) = made[D - k][z]
           T == {k \in Nat : k <= D => Good(k)}
<1>1. D \in Nat
  BY DepthAssumption
<1>2. ASSUME NEW k \in 0..D, NEW z \in AtLevels(y)[k], Below(g, z.node) = made[D - k][z]
      PROVE  /\ Own(g, z.node) = OwnQuads(z)
             /\ k < D => \A kid \in KidsAt(z) : Below(g, kid.node) = made[D - (k + 1)][kid]
  <2>1. z.node \in Seq(U) /\ Shaped(z.c) /\ (k = D => KidsAt(z) = {})
    BY DEF PlacedAt
  <2>2. PICK below : /\ made[D - k][z] = ConstraintQuads(z, k, below)
                     /\ k < D => \A w \in KidsAt(z) : below[w] = made[D - k - 1][w]
    BY DEF WrittenBy
  <2>3. D - k - 1 = D - (k + 1) /\ (k = D \/ k < D)
    BY <1>1
  <2>4. ASSUME NEW kid \in KidsAt(z), NEW t \in below[kid] PROVE Under(kid.node, t[1])
    <3>1. k < D /\ k + 1 \in 0..D
      BY <1>1, <2>1, <2>3
    <3>2. kid \in AtLevels(y)[k + 1] /\ t \in made[D - (k + 1)][kid]
      BY <2>2, <2>3, <2>4, <3>1, AtLevelsRecurse
    <3>3. QED
      BY <3>1, <3>2, WrittenUnder
  <2>5. /\ Own(g, z.node) = OwnQuads(z)
        /\ \A kid \in KidsAt(z) : Below(g, kid.node) = below[kid]
    BY <1>2, <2>1, <2>2, <2>4, SplitConstraint
  <2>6. QED
    BY <2>2, <2>3, <2>5
<1>3. 0 \in T
  BY <1>1, AtLevelsRecurse DEF WrittenBy
<1>4. ASSUME NEW k \in T PROVE k + 1 \in T
  <2> SUFFICES ASSUME k + 1 <= D, NEW z \in AtLevels(y)[k + 1]
               PROVE  Below(g, z.node) = made[D - (k + 1)][z]
    OBVIOUS
  <2>1. PICK w \in AtLevels(y)[k] : z \in KidsAt(w)
    BY AtLevelsRecurse
  <2>2. k \in 0..D /\ k < D /\ Below(g, w.node) = made[D - k][w]
    BY <1>1, <2>1
  <2>3. QED
    BY <1>2, <2>1, <2>2
<1>5. T = Nat
  <2> HIDE DEF T
  <2>1. T \subseteq Nat
    BY DEF T
  <2>2. QED
    BY <1>3, <1>4, <2>1, KidRecursion!Induction
<1>6. ASSUME NEW k \in 0..D PROVE Good(k)
  BY <1>1, <1>5
<1>7. QED
  BY <1>2, <1>6
\* Every constraint in y.c is loaded from its resource.
LEMMA LoadedIsWritten ==
    ASSUME NEW U, Alphabet(U), NEW y, PlacedAt(U, y), NEW g, NEW made, LoadedBy(<<g, y.node>>, made),
           \A k \in 0..MAX_CONSTRAINT_DEPTH : \A z \in AtLevels(y)[k] : Own(g, z.node) = OwnQuads(z)
    PROVE  load_constraint(g, y.node) = Indexed(y.c, y.index)
<1> DEFINE D == MAX_CONSTRAINT_DEPTH
           x == <<g, y.node>>
           Found(k) == \A z \in AtLevels(y)[k] : z.node \in NodeLevels(x)[k]
           T == {k \in Nat : k <= D => Found(k)}
<1>1. D \in Nat /\ Bound = D + 1 /\ x[1] = g /\ x[2] = y.node
  BY DepthAssumption DEF Bound
<1> HIDE DEF x
<1>2. ASSUME NEW k \in 0..D, NEW z \in AtLevels(y)[k], NEW kid \in KidsAt(z)
      PROVE  kid.node \in KidNodes(g, z.node)
  <2>1. Own(g, z.node) = OwnQuads(z) /\ Shaped(z.c)
    BY DEF PlacedAt
  <2>2. z.c.c # "atomic"
    <3>1. z.c.kids # <<>>
      BY DEF KidsAt
    <3>2. QED
      BY <2>1, <3>1, ShapeOf
  <2>3. KidNodes(g, z.node) = {w.node : w \in KidsAt(z)}
    BY <2>1, <2>2, GroupKidNodes
  <2>4. QED
    BY <2>3
<1>3. 0 \in T
  BY <1>1, AtLevelsRecurse, NodeLevelsRecurse
<1>4. ASSUME NEW k \in T PROVE k + 1 \in T
  <2> SUFFICES ASSUME k + 1 <= D, NEW z \in AtLevels(y)[k + 1] PROVE z.node \in NodeLevels(x)[k + 1]
    OBVIOUS
  <2>1. PICK w \in AtLevels(y)[k] : z \in KidsAt(w)
    BY AtLevelsRecurse
  <2>2. k \in 0..D /\ k \in Nat /\ w.node \in NodeLevels(x)[k]
    BY <1>1, <2>1
  <2>3. z.node \in KidNodes(x[1], w.node)
    BY <1>1, <1>2, <2>1, <2>2
  <2>4. QED
    BY <2>2, <2>3, NodeLevelsRecurse
<1>5. T = Nat
  <2> HIDE DEF T
  <2>1. T \subseteq Nat
    BY DEF T
  <2>2. QED
    BY <1>3, <1>4, <2>1, KidRecursion!Induction
<1>6. ASSUME NEW k \in 0..D, NEW z \in AtLevels(y)[k] PROVE z.node \in NodeLevels(x)[k]
  BY <1>1, <1>5
<1> HIDE DEF T
<1> DEFINE Good(rest) == \A z \in AtLevels(y)[D - rest] : made[rest + 1][z.node] = Indexed(z.c, z.index)
           R == {rest \in Nat : rest <= D => Good(rest)}
<1>7. ASSUME NEW rest \in 0..D, NEW z \in AtLevels(y)[D - rest], rest # 0 => Good(rest - 1)
      PROVE  made[rest + 1][z.node] = Indexed(z.c, z.index)
  <2> DEFINE k == D - rest
             kids == [r \in KidNodes(g, z.node) |-> made[rest][r]]
  <2>1. /\ k \in 0..D /\ Bound - k = rest + 1 /\ Bound - k - 1 = rest /\ (k = D <=> rest = 0)
        /\ ~ (k > D) /\ k + 1 = D - (rest - 1)
    BY <1>1
  <2>2. Own(g, z.node) = OwnQuads(z) /\ Shaped(z.c) /\ (rest = 0 => KidsAt(z) = {})
    BY <2>1 DEF PlacedAt
  <2>3. made[rest + 1][z.node] = LoadedConstraint(g, z.node, k, kids)
    BY <1>1, <1>6, <2>1 DEF LoadedBy, x
  <2>4. ASSUME NEW kid \in KidsAt(z) PROVE kids[kid.node] = Indexed(kid.c, kid.index)
    <3>1. kid.node \in KidNodes(g, z.node)
      BY <1>2, <2>1
    <3>2. rest # 0 /\ Good(rest - 1) /\ (rest - 1) + 1 = rest
      BY <1>7, <2>2
    <3>3. kid \in AtLevels(y)[k + 1]
      BY <1>1, <2>1, AtLevelsRecurse
    <3>4. made[rest][kid.node] = Indexed(kid.c, kid.index)
      BY <2>1, <3>2, <3>3
    <3>5. QED
      BY <3>1, <3>4
  <2> HIDE DEF kids, k
  <2>5. CASE z.c.c = "atomic"
    BY <2>1, <2>2, <2>3, <2>5, LoadAtomic
  <2>6. CASE z.c.c # "atomic"
    BY <2>1, <2>2, <2>3, <2>4, <2>6, LoadGroup
  <2>7. QED
    BY <2>5, <2>6
<1>8. 0 \in R
  BY <1>1, <1>7
<1>9. ASSUME NEW rest \in R PROVE rest + 1 \in R
  <2> SUFFICES ASSUME rest + 1 <= D PROVE Good(rest + 1)
    OBVIOUS
  <2>1. Good(rest) /\ rest + 1 \in 0..D /\ (rest + 1) - 1 = rest
    BY <1>1
  <2>2. QED
    BY <1>7, <2>1
<1>10. R = Nat
  <2> HIDE DEF R
  <2>1. R \subseteq Nat
    BY DEF R
  <2>2. QED
    BY <1>8, <1>9, <2>1, KidRecursion!Induction
<1>11. made[Bound][y.node] = Indexed(y.c, y.index)
  <2>1. Good(D) /\ D - D = 0 /\ y \in AtLevels(y)[0]
    BY <1>1, <1>10, AtLevelsRecurse
  <2>2. QED
    BY <1>1, <2>1
<1>12. QED
  BY <1>1, <1>11 DEF LoadedBy, x

\* c is fit to be written and loaded.
Storable(c) == AllShaped(c) /\ ~ TooDeep(c)

\* A constraint's quads are about its resource and those below it.
LEMMA ConstraintUnder ==
    ASSUME NEW U, Alphabet(U), NEW c, Storable(c), NEW node \in Seq(U), NEW index,
           NEW t \in write_constraint(c, node, index)
    PROVE  t[1] \in Seq(U) /\ Under(node, t[1]) /\ t[2] # "type"
<1> DEFINE y == At(c, node, index)
<1>1. y.c = c /\ y.node = node /\ y.index = index /\ y = At(y.c, y.node, y.index)
  BY DEF At
<1> HIDE DEF y
<1>2. PICK made : WrittenBy(y, made)
  BY <1>1, WriteRecurses
<1>3. PlacedAt(U, y)
  BY <1>1, AllPlaced DEF Storable
<1>4. t \in made[MAX_CONSTRAINT_DEPTH - 0][y] /\ y \in AtLevels(y)[0] /\ 0 \in 0..MAX_CONSTRAINT_DEPTH
  BY <1>1, <1>2, AtLevelsRecurse, DepthAssumption DEF WrittenBy
<1>5. QED
  BY <1>1, <1>2, <1>3, <1>4, WrittenUnder

\* load_constraint rebuilds the constraint that write_constraint was given, in
\* every graph that has nothing else below its resource.
LEMMA ConstraintLoads ==
    ASSUME NEW U, Alphabet(U), NEW c, Storable(c), NEW node \in Seq(U), NEW index,
           NEW g, Paths(g, U), Below(g, node) = write_constraint(c, node, index)
    PROVE  load_constraint(g, node) = Indexed(c, index)
<1> DEFINE y == At(c, node, index)
<1>1. y.c = c /\ y.node = node /\ y.index = index /\ y = At(y.c, y.node, y.index)
  BY DEF At
<1> HIDE DEF y
<1>2. PICK made : WrittenBy(y, made)
  BY <1>1, WriteRecurses
<1>3. PlacedAt(U, y)
  BY <1>1, AllPlaced DEF Storable
<1>4. \A k \in 0..MAX_CONSTRAINT_DEPTH : \A z \in AtLevels(y)[k] : Own(g, z.node) = OwnQuads(z)
  BY <1>1, <1>2, <1>3, WrittenIsHeld
<1>5. PICK read : LoadedBy(<<g, y.node>>, read)
  BY LoadRecurses
<1>6. QED
  BY <1>1, <1>3, <1>4, <1>5, LoadedIsWritten

-----------------------------------------------------------------------------
(* Lists of resources *)

\* The links from s, by q, to the members of a list x that is written under a.
LinksTo(s, q, a, x) == {Triple(s, q, Resource(Sub(s, <<a, i - 1>>))) : i \in DOMAIN x}
\* Of the quads about s, those with q are these links.
OnlyLinks(own, s, q, a, x) ==
    LinksTo(s, q, a, x) \subseteq own /\ \A t \in own : t[2] = q => t \in LinksTo(s, q, a, x)

\* What s links to by q are the members of the list x.
Linked(g, s, q, a, x) ==
    \A o : o \in Objects(g, s, q) <=> \E i \in DOMAIN x : o = Resource(Sub(s, <<a, i - 1>>))

\* The places of the members of a list.
Places(a, x) == {<<a, i - 1>> : i \in DOMAIN x}

\* The path of a member of a list, and the resource it names.
LEMMA SubIs ==
    ASSUME NEW p, NEW a, NEW i
    PROVE  /\ Sub(p, <<a, i>>) = p \o <<a, i>>
           /\ Resource(p).v = p
  BY DEF Sub, Resource

\* What the links to the members of a list are.
LEMMA LinkParts ==
    ASSUME NEW s, NEW q, NEW a, NEW x
    PROVE  /\ \A t \in LinksTo(s, q, a, x) :
                 /\ t[1] = s /\ t[2] = q
                 /\ \E i \in DOMAIN x : t[3] = Resource(Sub(s, <<a, i - 1>>))
           /\ \A i \in DOMAIN x : Triple(s, q, Resource(Sub(s, <<a, i - 1>>))) \in LinksTo(s, q, a, x)
<1>1. \A t : t \in LinksTo(s, q, a, x) <=>
                \E i \in DOMAIN x : t = Triple(s, q, Resource(Sub(s, <<a, i - 1>>)))
  BY DEF LinksTo
<1>2. ASSUME NEW t \in LinksTo(s, q, a, x)
      PROVE  /\ t[1] = s /\ t[2] = q
             /\ \E i \in DOMAIN x : t[3] = Resource(Sub(s, <<a, i - 1>>))
  <2>1. PICK i \in DOMAIN x : t = Triple(s, q, Resource(Sub(s, <<a, i - 1>>)))
    BY <1>1
  <2>2. QED
    BY <2>1, TripleParts
<1>3. QED
  BY <1>1, <1>2

\* If the quads about s have these links by q, they are what is found by q.
LEMMA ListLinked ==
    ASSUME NEW g, NEW s, NEW q, NEW a, NEW x, OnlyLinks(Own(g, s), s, q, a, x)
    PROVE  Linked(g, s, q, a, x)
<1> SUFFICES ASSUME NEW o
             PROVE  o \in Objects(g, s, q) <=>
                        \E i \in DOMAIN x : o = Resource(Sub(s, <<a, i - 1>>))
  BY DEF Linked
<1>1. ASSUME o \in Objects(g, s, q) PROVE \E i \in DOMAIN x : o = Resource(Sub(s, <<a, i - 1>>))
  <2>1. PICK t \in Own(g, s) : t[2] = q /\ o = t[3]
    BY <1>1, ObjectsOf
  <2>2. t \in LinksTo(s, q, a, x)
    BY <2>1 DEF OnlyLinks
  <2>3. QED
    BY <2>1, <2>2, LinkParts
<1>2. ASSUME NEW i \in DOMAIN x, o = Resource(Sub(s, <<a, i - 1>>)) PROVE o \in Objects(g, s, q)
  <2>1. Triple(s, q, o) \in Own(g, s)
    BY <1>2, LinkParts DEF OnlyLinks
  <2>2. QED
    BY <2>1, ObjectsOf, TripleParts
<1>3. QED
  BY <1>1, <1>2

\* Members' places are paths.
LEMMA PlacesArePairs ==
    ASSUME NEW U, Alphabet(U), NEW a \in U, NEW x, IsList(x)
    PROVE  /\ Pairs(Places(a, x), U)
           /\ \A i \in DOMAIN x : i - 1 \in Nat /\ (i - 1) + 1 = i
<1>1. \A i \in DOMAIN x : i - 1 \in Nat /\ (i - 1) + 1 = i
  BY DEF IsList
<1>2. \A i \in DOMAIN x : <<a, i - 1>> \in U \X U
  BY <1>1 DEF Alphabet
<1>3. QED
  BY <1>1, <1>2 DEF Pairs, Places

\* A path of a member of a list of p, and what is below it.
LEMMA SubPath ==
    ASSUME NEW U, NEW p \in Seq(U), NEW a \in U, NEW i \in U
    PROVE  /\ Sub(p, <<a, i>>) \in Seq(U)
           /\ \A q \in Seq(U) : Under(Sub(p, <<a, i>>), q) => Under(p, q)
<1>1. Sub(p, <<a, i>>) = p \o <<a, i>>
  BY SubIs
<1>2. p \o <<a, i>> \in Seq(U)
  BY LongerPath
<1>3. \A q \in Seq(U) : Under(p \o <<a, i>>, q) => Under(p, q)
  BY UnderLonger
<1>4. QED
  BY <1>1, <1>2, <1>3

\* A path is below itself.
LEMMA UnderItself == ASSUME NEW p PROVE Under(p, p)
  BY DEF Under

\* Entries with all fields.
LEMMA EntryIs ==
    ASSUME NEW value, NEW index PROVE Entry(Some(index), Some(value)) = Indexed(value, index)
  BY DEF Entry, Unwrap, Indexed, Some, None

-----------------------------------------------------------------------------
(* Rules *)

\* A rule with all its fields whose constraints can be written.
RuleForm(r) ==
    /\ r = Rule(r.action, r.constraints)
    /\ IsList(r.constraints)
    /\ \A i \in DOMAIN r.constraints : Storable(r.constraints[i])

\* The quads about a rule itself.
RuleOwn(r, node, index) ==
    {Triple(node, "sequenceIndex", index), Triple(node, "action", iri_or_literal_term(r.action))}
        \cup LinksTo(node, "constraint", "constraints", r.constraints)

\* What is written of the constraint at a place of a rule.
ConstraintPart(r, node, i) ==
    write_constraint(r.constraints[i], Sub(node, <<"constraints", i - 1>>), i - 1)

\* A rule's quads: its own, and those of its constraints.
LEMMA RuleParts ==
    ASSUME NEW r, NEW node, NEW index, NEW t
    PROVE  t \in write_rule(r, node, index) <=>
               \/ t \in RuleOwn(r, node, index)
               \/ \E i \in DOMAIN r.constraints : t \in ConstraintPart(r, node, i)
<1>1. \A i : constraint_iri(node, i) = Sub(node, <<"constraints", i>>)
  BY SubIs DEF constraint_iri
<1>2. t \in write_rule(r, node, index) <=>
          \/ t = Triple(node, "sequenceIndex", index)
          \/ t = Triple(node, "action", iri_or_literal_term(r.action))
          \/ \E i \in DOMAIN r.constraints :
                \/ t = Triple(node, "constraint", Resource(constraint_iri(node, i - 1)))
                \/ t \in write_constraint(r.constraints[i], constraint_iri(node, i - 1), i - 1)
  BY DEF write_rule, Index, Each
<1>3. t \in LinksTo(node, "constraint", "constraints", r.constraints) <=>
          \E i \in DOMAIN r.constraints :
              t = Triple(node, "constraint", Resource(Sub(node, <<"constraints", i - 1>>)))
  BY DEF LinksTo
<1>4. QED
  BY <1>1, <1>2, <1>3 DEF RuleOwn, ConstraintPart

\* A rule's quads are about its resource and those below it.
LEMMA RuleUnder ==
    ASSUME NEW U, Alphabet(U), NEW r, RuleForm(r), NEW node \in Seq(U), NEW index,
           NEW t \in write_rule(r, node, index)
    PROVE  t[1] \in Seq(U) /\ Under(node, t[1]) /\ t[2] # "type"
<1>1. CASE t \in RuleOwn(r, node, index)
  <2>1. t[1] = node /\ t[2] # "type"
    BY <1>1, TripleParts, LinkParts DEF RuleOwn
  <2>2. QED
    BY <2>1, UnderItself
<1>2. ASSUME NEW i \in DOMAIN r.constraints, t \in ConstraintPart(r, node, i)
      PROVE  t[1] \in Seq(U) /\ Under(node, t[1]) /\ t[2] # "type"
  <2> DEFINE p == Sub(node, <<"constraints", i - 1>>)
  <2>1. i - 1 \in U /\ "constraints" \in U
    BY PlacesArePairs DEF RuleForm, Alphabet
  <2>2. p \in Seq(U) /\ \A q \in Seq(U) : Under(p, q) => Under(node, q)
    BY <2>1, SubPath
  <2>3. Storable(r.constraints[i]) /\ t \in write_constraint(r.constraints[i], p, i - 1)
    BY <1>2 DEF RuleForm, ConstraintPart
  <2> HIDE DEF p
  <2>4. t[1] \in Seq(U) /\ Under(p, t[1]) /\ t[2] # "type"
    BY <2>2, <2>3, ConstraintUnder
  <2>5. QED
    BY <2>2, <2>4
<1>3. QED
  BY <1>1, <1>2, RuleParts

\* load_rule rebuilds the rule that write_rule was given.
LEMMA RuleLoads ==
    ASSUME NEW U, Alphabet(U), NEW r, RuleForm(r), NEW node \in Seq(U), NEW index,
           NEW g, Paths(g, U), Below(g, node) = write_rule(r, node, index)
    PROVE  load_rule(g, node) = Indexed(r, index)
<1> DEFINE x == r.constraints
           a == "constraints"
           J == Places(a, x)
           own == RuleOwn(r, node, index)
           part == [j \in J |-> ConstraintPart(r, node, j[2] + 1)]
<1>1. IsList(x) /\ a \in U
  BY DEF RuleForm, Alphabet
<1>2. Pairs(J, U) /\ \A i \in DOMAIN x : i - 1 \in Nat /\ i - 1 \in U /\ (i - 1) + 1 = i
  BY <1>1, PlacesArePairs DEF Alphabet
<1>3. /\ \A i \in DOMAIN x : <<a, i - 1>> \in J /\ part[<<a, i - 1>>] = ConstraintPart(r, node, i)
      /\ \A j \in J : \E i \in DOMAIN x : j = <<a, i - 1>>
  BY <1>2 DEF Places
<1>4. ASSUME NEW i \in DOMAIN x, NEW t \in ConstraintPart(r, node, i)
      PROVE  Under(Sub(node, <<a, i - 1>>), t[1])
  <2> DEFINE p == Sub(node, <<a, i - 1>>)
  <2>1. p \in Seq(U)
    BY <1>1, <1>2, SubPath
  <2>2. Storable(x[i]) /\ t \in write_constraint(x[i], p, i - 1)
    BY <1>4 DEF RuleForm, ConstraintPart
  <2> HIDE DEF p, x, a
  <2>3. Under(p, t[1])
    BY <2>1, <2>2, ConstraintUnder
  <2>4. QED
    BY <2>3 DEF p
<1> HIDE DEF J, own, part
<1>5. Placed(node, J, own, part)
  <2>1. \A t \in own : t[1] = node
    BY TripleParts, LinkParts DEF own, RuleOwn
  <2>2. QED
    BY <1>3, <1>4, <2>1 DEF Placed
<1>6. Parted(g, node, J, own, part)
  <2> SUFFICES ASSUME NEW t
               PROVE  t \in Below(g, node) <=> (t \in own \/ \E j \in J : t \in part[j])
    BY DEF Parted
  <2>1. t \in Below(g, node) <=>
            (t \in own \/ \E i \in DOMAIN x : t \in ConstraintPart(r, node, i))
    BY RuleParts DEF own
  <2> HIDE DEF x, a
  <2>2. QED
    BY <1>3, <2>1
<1>7. Apart(g, node, J, own, part)
  <2>1. Pairs(J, U)
    BY <1>2
  <2>2. QED
    BY <1>5, <1>6, <2>1, Split
<1>8. Own(g, node) = own
  BY <1>7 DEF Apart
<1>9. ASSUME NEW i \in DOMAIN x
      PROVE  load_constraint(g, Sub(node, <<a, i - 1>>)) = Indexed(x[i], i - 1)
  <2> DEFINE p == Sub(node, <<a, i - 1>>)
  <2>1. p \in Seq(U) /\ Storable(x[i])
    BY <1>1, <1>2, SubPath DEF RuleForm
  <2>2. Below(g, p) = write_constraint(x[i], p, i - 1)
    BY <1>3, <1>7 DEF Apart, ConstraintPart
  <2> HIDE DEF p, x, a
  <2>3. load_constraint(g, p) = Indexed(x[i], i - 1)
    BY <2>1, <2>2, ConstraintLoads
  <2>4. QED
    BY <2>3 DEF p
<1>10. Linked(g, node, "constraint", a, x)
  <2>1. \A t \in own : t[2] = "constraint" => t \in LinksTo(node, "constraint", a, x)
    BY TripleParts DEF own, RuleOwn
  <2>2. LinksTo(node, "constraint", a, x) \subseteq own
    BY DEF own, RuleOwn
  <2>3. OnlyLinks(Own(g, node), node, "constraint", a, x)
    BY <1>8, <2>1, <2>2 DEF OnlyLinks
  <2>4. QED
    BY <2>3, ListLinked
<1>11. LoadAll(g, node, "constraint", LAMBDA c : load_constraint(g, c)) = Some(x)
  <2> DEFINE loaded == {load_constraint(g, o.v) : o \in Objects(g, node, "constraint")}
  <2>1. \A i \in DOMAIN x : Indexed(x[i], i - 1) \in loaded
    BY <1>9, <1>10, SubIs DEF Linked
  <2>2. ASSUME NEW l \in loaded PROVE \E i \in DOMAIN x : l = Indexed(x[i], i - 1)
    <3>1. PICK o \in Objects(g, node, "constraint") : l = load_constraint(g, o.v)
      OBVIOUS
    <3>2. PICK i \in DOMAIN x : o = Resource(Sub(node, <<a, i - 1>>))
      BY <1>10 DEF Linked
    <3>3. QED
      BY <1>9, <3>1, <3>2, SubIs
  <2>3. IsList(x) /\ AreOf(loaded, x)
    BY <1>1, <2>1, <2>2 DEF AreOf
  <2>4. LoadAll(g, node, "constraint", LAMBDA c : load_constraint(g, c)) = AllLoaded(loaded)
    BY DEF LoadAll
  <2> HIDE DEF loaded, x
  <2>5. AllLoaded(loaded) = Some(x)
    BY <2>3, ListLoads
  <2>6. QED
    BY <2>4, <2>5
<1>12. /\ Objects(g, node, "sequenceIndex") = {index}
       /\ Objects(g, node, "action") = {iri_or_literal_term(r.action)}
  BY <1>8, ObjectsOf, TripleParts, LinkParts DEF own, RuleOwn
<1>13. sequence_index(g, node) = Some(index) /\ OptionalString(g, node, "action") = Some(r.action)
  <2>1. iri_or_literal_term(r.action).v = r.action
    BY DEF iri_or_literal_term
  <2>2. sequence_index(g, node) = Some(index)
    BY <1>12, OneObject DEF sequence_index
  <2>3. OptionalString(g, node, "action") = Some(iri_or_literal_term(r.action).v)
    BY <1>12, OneObject
  <2>4. QED
    BY <2>1, <2>2, <2>3
<1>14. Unwrap([action |-> Some(r.action), constraints |-> Some(x)]) = Some(Rule(r.action, x))
  BY DEF Unwrap, Some, None, Rule
<1>15. r = Rule(r.action, x)
  BY DEF RuleForm
<1> HIDE DEF x
<1>16. QED
  BY <1>11, <1>13, <1>14, <1>15, EntryIs DEF load_rule

-----------------------------------------------------------------------------
(* Policies *)

\* A value, or none.
IsOption(o) == o = None \/ \E v : o = Some(v)

\* s has the value of an option by q, as term, if there is one.
HasOption(g, s, q, option, term) ==
    \A o : o \in Objects(g, s, q) <=> (option # None /\ o = term)

\* A value that may be missing is read as it was written.
LEMMA OptionLoads ==
    ASSUME NEW g, NEW s, NEW q, NEW option, IsOption(option), NEW term, term.v = option[1],
           HasOption(g, s, q, option, term)
    PROVE  OptionalString(g, s, q) = option
<1>1. CASE option = None
  <2>1. Objects(g, s, q) = {}
    BY <1>1 DEF HasOption
  <2>2. QED
    BY <1>1, <2>1, NoObject
<1>2. CASE option # None
  <2>1. Objects(g, s, q) = {term}
    BY <1>2 DEF HasOption
  <2>2. OptionalString(g, s, q) = Some(term.v)
    <3>1. \A o : Objects(g, s, q) = {o} => OptionalString(g, s, q) = Some(o.v)
      BY OneObject
    <3>2. QED
      BY <2>1, <3>1
  <2>3. option = Some(option[1])
    BY <1>2, SomeIsSome DEF IsOption
  <2>4. QED
    BY <2>2, <2>3
<1>3. QED
  BY <1>1, <1>2

\* A policy's lists of rules.
ruleLists == {"permissions", "prohibitions", "obligations"}

\* A policy with all its fields whose rules can be written.
PolicyForm(p) ==
    /\ p = Policy(p.id, p.kind, p.assigner, p.assignee, p.permissions, p.prohibitions, p.obligations)
    /\ p.kind \in {"Set", "Offer", "Agreement"}
    /\ IsOption(p.id) /\ IsOption(p.assigner) /\ IsOption(p.assignee)
    /\ \A a \in ruleLists : IsList(p[a]) /\ \A i \in DOMAIN p[a] : RuleForm(p[a][i])

\* The quad of a value that may be missing.
OptionQuads(s, q, option, term) == IF option = None THEN {} ELSE {Triple(s, q, term)}

\* The quads about a policy itself.
PolicyOwn(p, node, index) ==
    {Triple(node, "type", p.kind), Triple(node, "sequenceIndex", index)}
    \cup OptionQuads(node, "policyId", p.id, LiteralTerm(p.id[1]))
    \cup OptionQuads(node, "assigner", p.assigner, iri_or_literal_term(p.assigner[1]))
    \cup OptionQuads(node, "assignee", p.assignee, iri_or_literal_term(p.assignee[1]))
    \cup LinksTo(node, "permission", "permissions", p["permissions"])
    \cup LinksTo(node, "prohibition", "prohibitions", p["prohibitions"])
    \cup LinksTo(node, "obligation", "obligations", p["obligations"])

\* What is written of the rule at a place of a policy.
RulePart(p, node, a, i) == write_rule(p[a][i], Sub(node, <<a, i - 1>>), i - 1)

\* The quads of a list of rules: the links to the rules, and the rules' quads.
LEMMA RulesParts ==
    ASSUME NEW rules, NEW policy, NEW q, NEW a, NEW t
    PROVE  t \in write_rules(rules, policy, q, a) <=>
               \/ t \in LinksTo(policy, q, a, rules)
               \/ \E i \in DOMAIN rules : t \in write_rule(rules[i], Sub(policy, <<a, i - 1>>), i - 1)
<1>1. \A i : rule_iri(policy, a, i) = Sub(policy, <<a, i>>)
  BY SubIs DEF rule_iri
<1>2. t \in write_rules(rules, policy, q, a) <=>
          \E i \in DOMAIN rules :
              \/ t = Triple(policy, q, Resource(rule_iri(policy, a, i - 1)))
              \/ t \in write_rule(rules[i], rule_iri(policy, a, i - 1), i - 1)
  BY DEF write_rules, Each
<1>3. t \in LinksTo(policy, q, a, rules) <=>
          \E i \in DOMAIN rules : t = Triple(policy, q, Resource(Sub(policy, <<a, i - 1>>)))
  BY DEF LinksTo
<1>4. QED
  BY <1>1, <1>2, <1>3

\* A policy's quads: its own, and those of its rules.
LEMMA PolicyParts ==
    ASSUME NEW p, NEW node, NEW index, NEW t
    PROVE  t \in write_policy(p, node, index) <=>
               \/ t \in PolicyOwn(p, node, index)
               \/ \E a \in ruleLists : \E i \in DOMAIN p[a] : t \in RulePart(p, node, a, i)
<1> DEFINE Of(q, a) == \/ t \in LinksTo(node, q, a, p[a])
                       \/ \E i \in DOMAIN p[a] : t \in RulePart(p, node, a, i)
<1>1. /\ t \in write_rules(p.permissions, node, "permission", "permissions")
             <=> Of("permission", "permissions")
      /\ t \in write_rules(p.prohibitions, node, "prohibition", "prohibitions")
             <=> Of("prohibition", "prohibitions")
      /\ t \in write_rules(p.obligations, node, "obligation", "obligations")
             <=> Of("obligation", "obligations")
  BY RulesParts DEF RulePart
<1>2. t \in write_policy(p, node, index) <=>
          \/ t = Triple(node, "type", p.kind) \/ t = Triple(node, "sequenceIndex", index)
          \/ t \in OptionQuads(node, "policyId", p.id, LiteralTerm(p.id[1]))
          \/ t \in OptionQuads(node, "assigner", p.assigner, iri_or_literal_term(p.assigner[1]))
          \/ t \in OptionQuads(node, "assignee", p.assignee, iri_or_literal_term(p.assignee[1]))
          \/ t \in write_rules(p.permissions, node, "permission", "permissions")
          \/ t \in write_rules(p.prohibitions, node, "prohibition", "prohibitions")
          \/ t \in write_rules(p.obligations, node, "obligation", "obligations")
  BY DEF write_policy, Index, Optional, OptionQuads
<1>3. (\E a \in ruleLists : \E i \in DOMAIN p[a] : t \in RulePart(p, node, a, i)) <=>
          \/ \E i \in DOMAIN p["permissions"] : t \in RulePart(p, node, "permissions", i)
          \/ \E i \in DOMAIN p["prohibitions"] : t \in RulePart(p, node, "prohibitions", i)
          \/ \E i \in DOMAIN p["obligations"] : t \in RulePart(p, node, "obligations", i)
  BY DEF ruleLists
<1>4. QED
  BY <1>1, <1>2, <1>3 DEF PolicyOwn

\* A policy's own quads are about its resource.
LEMMA PolicyOwnSubject ==
    ASSUME NEW p, NEW node, NEW index, NEW t \in PolicyOwn(p, node, index)
    PROVE  t[1] = node
<1>1. \A q, option, term : t \in OptionQuads(node, q, option, term) => t[1] = node
  BY TripleParts DEF OptionQuads
<1>2. \A q, a, x : t \in LinksTo(node, q, a, x) => t[1] = node
  BY LinkParts
<1>3. QED
  BY <1>1, <1>2, TripleParts DEF PolicyOwn

\* A rule of a policy is written below the policy.
LEMMA RulePartUnder ==
    ASSUME NEW U, Alphabet(U), NEW p, PolicyForm(p), NEW node \in Seq(U),
           NEW a \in ruleLists, NEW i \in DOMAIN p[a]
    PROVE  /\ a \in U /\ i - 1 \in Nat /\ i - 1 \in U /\ (i - 1) + 1 = i /\ Pairs(Places(a, p[a]), U)
           /\ RuleForm(p[a][i]) /\ Sub(node, <<a, i - 1>>) \in Seq(U)
           /\ \A q \in Seq(U) : Under(Sub(node, <<a, i - 1>>), q) => Under(node, q)
           /\ \A t \in RulePart(p, node, a, i) :
                 t[1] \in Seq(U) /\ Under(Sub(node, <<a, i - 1>>), t[1]) /\ t[2] # "type"
<1> DEFINE s == Sub(node, <<a, i - 1>>)
           x == p[a]
<1>1. a \in U /\ IsList(x) /\ RuleForm(x[i])
  BY DEF PolicyForm, ruleLists, Alphabet
<1>2. i - 1 \in Nat /\ (i - 1) + 1 = i /\ Pairs(Places(a, x), U)
  BY <1>1, PlacesArePairs
<1>3. i - 1 \in U
  BY <1>2 DEF Alphabet
<1>4. s \in Seq(U) /\ \A q \in Seq(U) : Under(s, q) => Under(node, q)
  BY <1>1, <1>3, SubPath
<1>5. RulePart(p, node, a, i) = write_rule(x[i], s, i - 1)
  BY DEF RulePart
<1> HIDE DEF s, x
<1>6. \A t \in RulePart(p, node, a, i) : t[1] \in Seq(U) /\ Under(s, t[1]) /\ t[2] # "type"
  BY <1>1, <1>4, <1>5, RuleUnder
<1>7. QED
  BY <1>1, <1>2, <1>3, <1>4, <1>6 DEF s, x

\* A quad that says that its subject is a catalog.
SaysCatalog(t) == t[2] = "type" /\ t[3] = "Catalog"

\* A policy's quads are about its resource and those below it; none makes a
\* resource a catalog.
LEMMA PolicyUnder ==
    ASSUME NEW U, Alphabet(U), NEW p, PolicyForm(p), NEW node \in Seq(U), NEW index,
           NEW t \in write_policy(p, node, index)
    PROVE  t[1] \in Seq(U) /\ Under(node, t[1]) /\ ~ SaysCatalog(t)
<1>1. CASE t \in PolicyOwn(p, node, index)
  <2>1. \A q, option, term : t \in OptionQuads(node, q, option, term) => t[2] = q
    BY TripleParts DEF OptionQuads
  <2>2. \A q, a, x : t \in LinksTo(node, q, a, x) => t[2] = q
    BY LinkParts
  <2>3. t[2] = "type" => t[3] = p.kind
    BY <1>1, <2>1, <2>2, TripleParts DEF PolicyOwn
  <2>4. ~ SaysCatalog(t)
    BY <2>3 DEF SaysCatalog, PolicyForm
  <2>5. QED
    BY <1>1, <2>4, PolicyOwnSubject, UnderItself
<1>2. ASSUME NEW a \in ruleLists, NEW i \in DOMAIN p[a], t \in RulePart(p, node, a, i)
      PROVE  t[1] \in Seq(U) /\ Under(node, t[1]) /\ ~ SaysCatalog(t)
  <2>1. /\ \A q \in Seq(U) : Under(Sub(node, <<a, i - 1>>), q) => Under(node, q)
        /\ t[1] \in Seq(U) /\ Under(Sub(node, <<a, i - 1>>), t[1]) /\ t[2] # "type"
    BY <1>2, RulePartUnder
  <2>2. QED
    BY <2>1 DEF SaysCatalog
<1>3. QED
  BY <1>1, <1>2, PolicyParts

\* The rules of a list of a policy are loaded in their order.
LEMMA RulesLoad ==
    ASSUME NEW U, Alphabet(U), NEW g, Paths(g, U), NEW p, PolicyForm(p), NEW node \in Seq(U),
           NEW a \in ruleLists, NEW q, Linked(g, node, q, a, p[a]),
           \A i \in DOMAIN p[a] : Below(g, Sub(node, <<a, i - 1>>)) = RulePart(p, node, a, i)
    PROVE  load_rules(g, node, q) = Some(p[a])
<1> DEFINE x == p[a]
           loaded == {load_rule(g, o.v) : o \in Objects(g, node, q)}
<1>1. ASSUME NEW i \in DOMAIN x
      PROVE  load_rule(g, Sub(node, <<a, i - 1>>)) = Indexed(x[i], i - 1)
  <2> DEFINE s == Sub(node, <<a, i - 1>>)
  <2>1. s \in Seq(U) /\ RuleForm(x[i])
    BY RulePartUnder
  <2>2. Below(g, s) = write_rule(x[i], s, i - 1)
    BY DEF RulePart
  <2> HIDE DEF s, x
  <2>3. load_rule(g, s) = Indexed(x[i], i - 1)
    BY <2>1, <2>2, RuleLoads
  <2>4. QED
    BY <2>3 DEF s
<1>2. \A i \in DOMAIN x : Indexed(x[i], i - 1) \in loaded
  <2> SUFFICES ASSUME NEW i \in DOMAIN x PROVE Indexed(x[i], i - 1) \in loaded
    OBVIOUS
  <2>1. Resource(Sub(node, <<a, i - 1>>)) \in Objects(g, node, q)
    BY DEF Linked
  <2>2. Resource(Sub(node, <<a, i - 1>>)).v = Sub(node, <<a, i - 1>>)
    BY SubIs
  <2>3. load_rule(g, Sub(node, <<a, i - 1>>)) \in loaded
    BY <2>1, <2>2
  <2>4. QED
    BY <1>1, <2>3
<1>3. ASSUME NEW l \in loaded PROVE \E i \in DOMAIN x : l = Indexed(x[i], i - 1)
  <2>1. PICK o \in Objects(g, node, q) : l = load_rule(g, o.v)
    OBVIOUS
  <2>2. PICK i \in DOMAIN x : o = Resource(Sub(node, <<a, i - 1>>))
    BY DEF Linked
  <2>3. QED
    BY <1>1, <2>1, <2>2, SubIs
<1>4. load_rules(g, node, q) = AllLoaded(loaded)
  BY DEF load_rules, LoadAll
<1>5. IsList(x) /\ AreOf(loaded, x)
  BY <1>2, <1>3 DEF AreOf, PolicyForm
<1> HIDE DEF loaded, x
<1>6. AllLoaded(loaded) = Some(x)
  BY <1>5, ListLoads
<1>7. QED
  BY <1>4, <1>6 DEF x
\* What is read from the quads about a policy.
PolicyIn(g, p, node, index) ==
    /\ OptionalString(g, node, "policyId") = p.id
    /\ OptionalString(g, node, "assigner") = p.assigner
    /\ OptionalString(g, node, "assignee") = p.assignee
    /\ first_object(g, node, "type") = Some(p.kind) /\ sequence_index(g, node) = Some(index)
    /\ Linked(g, node, "permission", "permissions", p["permissions"])
    /\ Linked(g, node, "prohibition", "prohibitions", p["prohibitions"])
    /\ Linked(g, node, "obligation", "obligations", p["obligations"])

\* What is read from a policy's own quads.
LEMMA PolicyObjects ==
    ASSUME NEW g, NEW p, PolicyForm(p), NEW node, NEW index, Own(g, node) = PolicyOwn(p, node, index)
    PROVE  PolicyIn(g, p, node, index)
<1> DEFINE id == LiteralTerm(p.id[1])
           assigner == iri_or_literal_term(p.assigner[1])
           assignee == iri_or_literal_term(p.assignee[1])
           links(q, a) == LinksTo(node, q, a, p[a])
<1>1. id.v = p.id[1] /\ assigner.v = p.assigner[1] /\ assignee.v = p.assignee[1]
  BY DEF LiteralTerm, iri_or_literal_term
<1>2. Own(g, node) =
          {Triple(node, "type", p.kind), Triple(node, "sequenceIndex", index)}
          \cup OptionQuads(node, "policyId", p.id, id)
          \cup OptionQuads(node, "assigner", p.assigner, assigner)
          \cup OptionQuads(node, "assignee", p.assignee, assignee)
          \cup links("permission", "permissions") \cup links("prohibition", "prohibitions")
          \cup links("obligation", "obligations")
  BY DEF PolicyOwn
<1>3. \A q, a : \A t \in links(q, a) : t[2] = q
  BY LinkParts
<1>4. ASSUME NEW q, NEW option, NEW term
      PROVE  /\ \A t \in OptionQuads(node, q, option, term) : t[2] = q /\ t[3] = term /\ option # None
             /\ option # None => Triple(node, q, term) \in OptionQuads(node, q, option, term)
  BY TripleParts DEF OptionQuads
<1> HIDE DEF id, assigner, assignee, links
<1>5. /\ \A t \in Own(g, node) :
            /\ t[2] = "type" => t = Triple(node, "type", p.kind)
            /\ t[2] = "sequenceIndex" => t = Triple(node, "sequenceIndex", index)
            /\ t[2] = "policyId" => t \in OptionQuads(node, "policyId", p.id, id)
            /\ t[2] = "assigner" => t \in OptionQuads(node, "assigner", p.assigner, assigner)
            /\ t[2] = "assignee" => t \in OptionQuads(node, "assignee", p.assignee, assignee)
            /\ t[2] = "permission" => t \in links("permission", "permissions")
            /\ t[2] = "prohibition" => t \in links("prohibition", "prohibitions")
            /\ t[2] = "obligation" => t \in links("obligation", "obligations")
  BY <1>2, <1>3, <1>4, TripleParts
<1>6. Objects(g, node, "type") = {p.kind} /\ Objects(g, node, "sequenceIndex") = {index}
  BY <1>2, <1>5, ObjectsOf, TripleParts
<1>7. HasOption(g, node, "policyId", p.id, id)
  BY <1>2, <1>4, <1>5, ObjectsOf, TripleParts DEF HasOption
<1>8. HasOption(g, node, "assigner", p.assigner, assigner)
  BY <1>2, <1>4, <1>5, ObjectsOf, TripleParts DEF HasOption
<1>9. HasOption(g, node, "assignee", p.assignee, assignee)
  BY <1>2, <1>4, <1>5, ObjectsOf, TripleParts DEF HasOption
<1>10. /\ OptionalString(g, node, "policyId") = p.id
       /\ OptionalString(g, node, "assigner") = p.assigner
       /\ OptionalString(g, node, "assignee") = p.assignee
  BY <1>1, <1>7, <1>8, <1>9, OptionLoads DEF PolicyForm
<1>11. first_object(g, node, "type") = Some(p.kind) /\ sequence_index(g, node) = Some(index)
  BY <1>6, OneObject DEF sequence_index
<1>12. /\ OnlyLinks(Own(g, node), node, "permission", "permissions", p["permissions"])
       /\ OnlyLinks(Own(g, node), node, "prohibition", "prohibitions", p["prohibitions"])
       /\ OnlyLinks(Own(g, node), node, "obligation", "obligations", p["obligations"])
  BY <1>2, <1>5 DEF OnlyLinks, links
<1>13. QED
  BY <1>10, <1>11, <1>12, ListLinked DEF PolicyIn

\* load_policy rebuilds the policy that write_policy was given.
LEMMA PolicyLoads ==
    ASSUME NEW U, Alphabet(U), NEW p, PolicyForm(p), NEW node \in Seq(U), NEW index,
           NEW g, Paths(g, U), Below(g, node) = write_policy(p, node, index)
    PROVE  load_policy(g, node) = Indexed(p, index)
<1> DEFINE J == {j \in U \X U : j[1] \in ruleLists /\ j \in Places(j[1], p[j[1]])}
           own == PolicyOwn(p, node, index)
           part == [j \in J |-> RulePart(p, node, j[1], j[2] + 1)]
<1>1. ASSUME NEW a \in ruleLists, NEW i \in DOMAIN p[a]
      PROVE  <<a, i - 1>> \in J /\ part[<<a, i - 1>>] = RulePart(p, node, a, i)
  <2> DEFINE j == <<a, i - 1>>
  <2>1. j[1] = a /\ j[2] = i - 1 /\ (i - 1) + 1 = i /\ a \in U /\ i - 1 \in U
    BY RulePartUnder
  <2>2. j \in Places(a, p[a]) /\ j \in U \X U
    BY <2>1 DEF Places
  <2> HIDE DEF j
  <2>3. j \in J
    BY <2>1, <2>2
  <2>4. part[j] = RulePart(p, node, a, i)
    BY <2>1, <2>3
  <2>5. QED
    BY <2>3, <2>4 DEF j
<1>2. \A j \in J : \E a \in ruleLists : \E i \in DOMAIN p[a] : j = <<a, i - 1>>
  BY DEF Places
<1>3. Pairs(J, U)
  BY DEF Pairs
<1> HIDE DEF J, own, part
<1>4. Placed(node, J, own, part)
  <2>1. ASSUME NEW j \in J, NEW t \in part[j] PROVE Under(Sub(node, j), t[1])
    <3>1. PICK a \in ruleLists : \E i \in DOMAIN p[a] : j = <<a, i - 1>>
      BY <1>2
    <3>2. PICK i \in DOMAIN p[a] : j = <<a, i - 1>>
      BY <3>1
    <3>3. QED
      BY <1>1, <2>1, <3>2, RulePartUnder
  <2>2. QED
    BY <2>1, PolicyOwnSubject DEF Placed, own
<1>5. Parted(g, node, J, own, part)
  <2> SUFFICES ASSUME NEW t
               PROVE  t \in Below(g, node) <=> (t \in own \/ \E j \in J : t \in part[j])
    BY DEF Parted
  <2>1. t \in Below(g, node) <=>
            (t \in own \/ \E a \in ruleLists : \E i \in DOMAIN p[a] : t \in RulePart(p, node, a, i))
    BY PolicyParts DEF own
  <2>2. QED
    BY <1>1, <1>2, <2>1
<1>6. Apart(g, node, J, own, part)
  BY <1>3, <1>4, <1>5, Split
<1>7. Own(g, node) = own
  BY <1>6 DEF Apart
<1>8. \A a \in ruleLists : \A i \in DOMAIN p[a] :
          Below(g, Sub(node, <<a, i - 1>>)) = RulePart(p, node, a, i)
  BY <1>1, <1>6 DEF Apart
<1>9. PolicyIn(g, p, node, index)
  BY <1>7, PolicyObjects DEF own
<1>10. /\ load_rules(g, node, "permission") = Some(p["permissions"])
       /\ load_rules(g, node, "prohibition") = Some(p["prohibitions"])
       /\ load_rules(g, node, "obligation") = Some(p["obligations"])
  <2>1. "permissions" \in ruleLists /\ "prohibitions" \in ruleLists /\ "obligations" \in ruleLists
    BY DEF ruleLists
  <2>2. load_rules(g, node, "permission") = Some(p["permissions"])
    BY <1>8, <1>9, <2>1, RulesLoad DEF PolicyIn
  <2>3. load_rules(g, node, "prohibition") = Some(p["prohibitions"])
    BY <1>8, <1>9, <2>1, RulesLoad DEF PolicyIn
  <2>4. load_rules(g, node, "obligation") = Some(p["obligations"])
    BY <1>8, <1>9, <2>1, RulesLoad DEF PolicyIn
  <2>5. QED
    BY <2>2, <2>3, <2>4
<1> DEFINE rules == Unwrap([q \in {"permission", "prohibition", "obligation"} |->
                               load_rules(g, node, q)])
           r == [q \in {"permission", "prohibition", "obligation"} |-> load_rules(g, node, q)[1]]
           policy(f) == Policy(OptionalString(g, node, "policyId"), first_object(g, node, "type")[1],
                            OptionalString(g, node, "assigner"), OptionalString(g, node, "assignee"),
                            f["permission"], f["prohibition"], f["obligation"])
<1>11. rules = Some(r)
  BY <1>10, SomeIsSome DEF Unwrap
<1>12. /\ r["permission"] = p.permissions /\ r["prohibition"] = p.prohibitions
       /\ r["obligation"] = p.obligations
  BY <1>10, SomeIsSome
<1>13. /\ OptionalString(g, node, "policyId") = p.id
       /\ OptionalString(g, node, "assigner") = p.assigner
       /\ OptionalString(g, node, "assignee") = p.assignee
       /\ first_object(g, node, "type") = Some(p.kind) /\ sequence_index(g, node) = Some(index)
  BY <1>9 DEF PolicyIn
<1>14. policy(r) = p
  BY <1>12, <1>13, SomeIsSome DEF PolicyForm
<1>15. MapSeq(rules, policy) = Some(p)
  <2> HIDE DEF policy, r, rules
  <2>1. MapSeq(Some(r), policy) = Some(policy(r))
    BY DEF MapSeq, Some
  <2>2. QED
    BY <1>11, <1>14, <2>1
<1>16. /\ first_object(g, node, "type") # None
       /\ first_object(g, node, "type")[1] \in {"Set", "Offer", "Agreement"}
  BY <1>13, SomeIsSome DEF PolicyForm
<1>17. load_policy(g, node) = Entry(sequence_index(g, node), MapSeq(rules, policy))
  BY <1>16 DEF load_policy
<1>18. QED
  BY <1>13, <1>15, <1>17, EntryIs

-----------------------------------------------------------------------------
(* Datasets *)

\* A distribution with all its fields.
DistributionForm(d) == d = [format |-> d.format, access_service |-> d.access_service]

\* A dataset with all its fields; properties are the descriptive ones.
DatasetForm(d) ==
    /\ d = [id |-> d.id, properties |-> d.properties, distributions |-> d.distributions,
            policies |-> d.policies]
    /\ d.properties = [k \in DOMAIN d.properties |-> d.properties[k]]
    /\ DOMAIN d.properties \subseteq Descriptive
    /\ IsList(d.distributions) /\ \A i \in DOMAIN d.distributions : DistributionForm(d.distributions[i])
    /\ IsList(d.policies) /\ \A i \in DOMAIN d.policies : PolicyForm(d.policies[i])

\* What is written of a distribution.
DistributionQuads(node, d, s, index) ==
    {Triple(s, "type", "Distribution"), Triple(s, "format", LiteralTerm(d.format)),
     Triple(s, "accessService", Resource(service_iri(node, d.access_service))),
     Triple(s, "sequenceIndex", index)}

\* The quads of a dataset's descriptive properties.
PropertyQuads(d, s) ==
    {Triple(s, k, LiteralTerm(d.properties[k])) : k \in DOMAIN d.properties}

\* The quads about a dataset itself.
DatasetOwn(d, s, index) ==
    {Triple(s, "type", "Dataset"), Triple(s, "sequenceIndex", index)}
    \cup PropertyQuads(d, s)
    \cup LinksTo(s, "distribution", "distributions", d.distributions)
    \cup LinksTo(s, "hasPolicy", "policies", d.policies)

\* What is written of a distribution and of a policy at a place of a dataset.
DistributionPart(node, d, s, i) ==
    DistributionQuads(node, d.distributions[i], Sub(s, <<"distributions", i - 1>>), i - 1)
PolicyPart(d, s, i) == write_policy(d.policies[i], Sub(s, <<"policies", i - 1>>), i - 1)

\* What is written of a dataset, but for the link to it.
InDataset(node, d, s, index, t) ==
    \/ t \in DatasetOwn(d, s, index)
    \/ \E i \in DOMAIN d.distributions : t \in DistributionPart(node, d, s, i)
    \/ \E i \in DOMAIN d.policies : t \in PolicyPart(d, s, i)

\* A dataset's quads: the link to it, and the rest.
LEMMA DatasetParts ==
    ASSUME NEW node, NEW catalog_, NEW d, NEW index, NEW t
    PROVE  t \in write_dataset(node, catalog_, d, index) <=>
               \/ t = Triple(catalog_, "dataset", Resource(dataset_iri(node, d.id)))
               \/ InDataset(node, d, dataset_iri(node, d.id), index, t)
<1> DEFINE s == dataset_iri(node, d.id)
<1>1. \A i : /\ distribution_iri(node, d.id, i) = Sub(s, <<"distributions", i>>)
             /\ policy_iri(node, d.id, i) = Sub(s, <<"policies", i>>)
  BY SubIs DEF distribution_iri, policy_iri
<1>2. ASSUME NEW i \in DOMAIN d.distributions
      PROVE  t \in write_distribution(node, d, d.distributions[i], i - 1) <=>
                 \/ t = Triple(s, "distribution", Resource(Sub(s, <<"distributions", i - 1>>)))
                 \/ t \in DistributionPart(node, d, s, i)
  BY <1>1 DEF write_distribution, DistributionPart, DistributionQuads, Index
<1>3. t \in LinksTo(s, "distribution", "distributions", d.distributions) <=>
          \E i \in DOMAIN d.distributions :
              t = Triple(s, "distribution", Resource(Sub(s, <<"distributions", i - 1>>)))
  BY DEF LinksTo
<1>4. t \in LinksTo(s, "hasPolicy", "policies", d.policies) <=>
          \E i \in DOMAIN d.policies :
              t = Triple(s, "hasPolicy", Resource(Sub(s, <<"policies", i - 1>>)))
  BY DEF LinksTo
<1>5. t \in write_dataset(node, catalog_, d, index) <=>
          \/ t = Triple(catalog_, "dataset", Resource(s))
          \/ t = Triple(s, "type", "Dataset") \/ t = Triple(s, "sequenceIndex", index)
          \/ t \in PropertyQuads(d, s)
          \/ \E i \in DOMAIN d.distributions :
                t \in write_distribution(node, d, d.distributions[i], i - 1)
          \/ \E i \in DOMAIN d.policies :
                \/ t = Triple(s, "hasPolicy", Resource(policy_iri(node, d.id, i - 1)))
                \/ t \in write_policy(d.policies[i], policy_iri(node, d.id, i - 1), i - 1)
  BY DEF write_dataset, Each, Index, PropertyQuads
<1> HIDE DEF s
<1>6. QED
  <2>1. InDataset(node, d, s, index, t) <=>
            \/ t = Triple(s, "type", "Dataset") \/ t = Triple(s, "sequenceIndex", index)
            \/ t \in PropertyQuads(d, s)
            \/ t \in LinksTo(s, "distribution", "distributions", d.distributions)
            \/ t \in LinksTo(s, "hasPolicy", "policies", d.policies)
            \/ \E i \in DOMAIN d.distributions : t \in DistributionPart(node, d, s, i)
            \/ \E i \in DOMAIN d.policies : t \in PolicyPart(d, s, i)
    BY DEF InDataset, DatasetOwn
  <2>2. \A i \in DOMAIN d.policies :
            PolicyPart(d, s, i) = write_policy(d.policies[i], policy_iri(node, d.id, i - 1), i - 1)
    BY <1>1 DEF PolicyPart
  <2>3. t \in write_dataset(node, catalog_, d, index) <=>
            (t = Triple(catalog_, "dataset", Resource(s)) \/ InDataset(node, d, s, index, t))
    BY <1>1, <1>2, <1>3, <1>4, <1>5, <2>1, <2>2
  <2>4. QED
    BY <2>3 DEF s

\* A quad for each descriptive property that a dataset has.
LEMMA PropertyParts ==
    ASSUME NEW d, NEW s
    PROVE  /\ \A t \in PropertyQuads(d, s) :
                 /\ t[1] = s /\ t[2] \in DOMAIN d.properties
                 /\ t[3] = LiteralTerm(d.properties[t[2]])
           /\ \A k \in DOMAIN d.properties :
                 Triple(s, k, LiteralTerm(d.properties[k])) \in PropertyQuads(d, s)
<1>1. ASSUME NEW t \in PropertyQuads(d, s)
      PROVE  t[1] = s /\ t[2] \in DOMAIN d.properties /\ t[3] = LiteralTerm(d.properties[t[2]])
  <2>1. PICK k \in DOMAIN d.properties : t = Triple(s, k, LiteralTerm(d.properties[k]))
    BY DEF PropertyQuads
  <2>2. t[1] = s /\ t[2] = k /\ t[3] = LiteralTerm(d.properties[k])
    BY <2>1, TripleParts
  <2>3. QED
    BY <2>2
<1>2. QED
  BY <1>1 DEF PropertyQuads

\* A dataset's own quads are about its resource.
LEMMA DatasetOwnSubject ==
    ASSUME NEW d, NEW s, NEW index, NEW t \in DatasetOwn(d, s, index) PROVE t[1] = s
  BY PropertyParts, LinkParts, TripleParts DEF DatasetOwn

\* load_distribution rebuilds the distribution that was written.
LEMMA DistributionLoads ==
    ASSUME NEW node, NEW d, DistributionForm(d), NEW s, NEW index, NEW g,
           Below(g, s) = DistributionQuads(node, d, s, index)
    PROVE  load_distribution(g, s) = Indexed(d, index)
<1> DEFINE f == LiteralTerm(d.format)
           access == Resource(service_iri(node, d.access_service))
           third(o) == o.v[3]
<1>1. f.v = d.format /\ access.v[3] = d.access_service
  BY DEF LiteralTerm, Resource, service_iri
<1>2. Own(g, s) = {Triple(s, "type", "Distribution"), Triple(s, "format", f),
                   Triple(s, "accessService", access), Triple(s, "sequenceIndex", index)}
  <2>1. ASSUME NEW t PROVE t \in Own(g, s) <=> t \in DistributionQuads(node, d, s, index)
    <3>1. t \in Own(g, s) => t \in Below(g, s)
      BY UnderItself DEF Own, Below
    <3>2. t \in DistributionQuads(node, d, s, index) => t[1] = s
      BY TripleParts DEF DistributionQuads
    <3>3. t \in Below(g, s) => t \in g
      BY DEF Below
    <3>4. QED
      BY <3>1, <3>2, <3>3 DEF Own
  <2>2. QED
    BY <2>1 DEF DistributionQuads
<1> HIDE DEF f, access
<1>3. /\ Objects(g, s, "format") = {f} /\ Objects(g, s, "accessService") = {access}
      /\ Objects(g, s, "sequenceIndex") = {index}
  BY <1>2, ObjectsOf, TripleParts
<1>4. /\ OptionalString(g, s, "format") = Some(f.v) /\ sequence_index(g, s) = Some(index)
      /\ first_object(g, s, "accessService") = Some(access)
  BY <1>3, OneObject DEF sequence_index
<1>5. MapSeq(Some(access), third) = Some(third(access))
  BY DEF MapSeq, Some
<1>6. load_distribution(g, s)
          = Entry(sequence_index(g, s),
                  Unwrap([format |-> OptionalString(g, s, "format"),
                          access_service |-> MapSeq(first_object(g, s, "accessService"), third)]))
  BY DEF load_distribution
<1>7. \A v, w : Unwrap([format |-> Some(v), access_service |-> Some(w)])
                    = Some([format |-> v, access_service |-> w])
  BY DEF Unwrap, Some, None
<1>8. load_distribution(g, s)
          = Entry(Some(index), Some([format |-> d.format, access_service |-> d.access_service]))
  BY <1>1, <1>4, <1>5, <1>6, <1>7
<1>9. QED
  BY <1>8, EntryIs DEF DistributionForm

\* A dataset's lists.
datasetLists == {"distributions", "policies"}

\* The members of a dataset's lists are written below it.
PartsUnder(U, node, d, s) ==
    /\ \A a \in datasetLists : \A i \in DOMAIN d[a] :
          /\ a \in U /\ i - 1 \in U /\ (i - 1) + 1 = i
          /\ Sub(s, <<a, i - 1>>) \in Seq(U)
          /\ \A q \in Seq(U) : Under(Sub(s, <<a, i - 1>>), q) => Under(s, q)
    /\ \A i \in DOMAIN d.distributions : \A t \in DistributionPart(node, d, s, i) :
          t[1] = Sub(s, <<"distributions", i - 1>>) /\ ~ SaysCatalog(t)
    /\ \A i \in DOMAIN d.policies : \A t \in PolicyPart(d, s, i) :
          t[1] \in Seq(U) /\ Under(Sub(s, <<"policies", i - 1>>), t[1]) /\ ~ SaysCatalog(t)

\* Distributions and policies are written below their dataset.
LEMMA DatasetPartUnder ==
    ASSUME NEW U, Alphabet(U), NEW node, NEW d, DatasetForm(d), NEW s \in Seq(U)
    PROVE  PartsUnder(U, node, d, s)
<1>1. ASSUME NEW a \in datasetLists, NEW i \in DOMAIN d[a]
      PROVE  /\ a \in U /\ i - 1 \in U /\ (i - 1) + 1 = i
             /\ Sub(s, <<a, i - 1>>) \in Seq(U)
             /\ \A q \in Seq(U) : Under(Sub(s, <<a, i - 1>>), q) => Under(s, q)
  <2>1. a \in U /\ IsList(d[a])
    BY DEF datasetLists, Alphabet, DatasetForm
  <2>2. i - 1 \in Nat /\ (i - 1) + 1 = i
    BY <2>1, PlacesArePairs
  <2>3. i - 1 \in U
    BY <2>2 DEF Alphabet
  <2>4. QED
    BY <2>1, <2>2, <2>3, SubPath
<1>2. ASSUME NEW i \in DOMAIN d.distributions, NEW t \in DistributionPart(node, d, s, i)
      PROVE  t[1] = Sub(s, <<"distributions", i - 1>>) /\ ~ SaysCatalog(t)
  BY TripleParts DEF DistributionPart, DistributionQuads, SaysCatalog
<1>3. ASSUME NEW i \in DOMAIN d.policies, NEW t \in PolicyPart(d, s, i)
      PROVE  t[1] \in Seq(U) /\ Under(Sub(s, <<"policies", i - 1>>), t[1]) /\ ~ SaysCatalog(t)
  <2> DEFINE p == Sub(s, <<"policies", i - 1>>)
             x == d.policies
  <2>1. "policies" \in datasetLists /\ x = d["policies"]
    BY DEF datasetLists
  <2>2. p \in Seq(U)
    BY <1>1, <2>1
  <2>3. PolicyForm(x[i]) /\ t \in write_policy(x[i], p, i - 1)
    BY DEF DatasetForm, PolicyPart
  <2> HIDE DEF p, x
  <2>4. t[1] \in Seq(U) /\ Under(p, t[1]) /\ ~ SaysCatalog(t)
    BY <2>2, <2>3, PolicyUnder
  <2>5. QED
    BY <2>4 DEF p
<1>4. QED
  BY <1>1, <1>2, <1>3 DEF PartsUnder

\* A dataset's quads, but for the link to it, are about its resource and those
\* below it; none makes a resource a catalog.
LEMMA DatasetUnder ==
    ASSUME NEW U, Alphabet(U), NEW node, NEW d, DatasetForm(d), NEW s \in Seq(U), NEW index,
           NEW t, InDataset(node, d, s, index, t)
    PROVE  t[1] \in Seq(U) /\ Under(s, t[1]) /\ ~ SaysCatalog(t)
<1>1. PartsUnder(U, node, d, s)
  BY DatasetPartUnder
<1>2. CASE t \in DatasetOwn(d, s, index)
  <2>1. \A q, a, x : t \in LinksTo(s, q, a, x) => t[2] = q
    BY LinkParts
  <2>2. t \in PropertyQuads(d, s) => t[2] \in Descriptive
    BY PropertyParts DEF DatasetForm
  <2>3. ~ SaysCatalog(t)
    BY <1>2, <2>1, <2>2, TripleParts DEF DatasetOwn, SaysCatalog, Descriptive
  <2>4. QED
    BY <1>2, <2>3, DatasetOwnSubject, UnderItself
<1>3. ASSUME NEW i \in DOMAIN d.distributions, t \in DistributionPart(node, d, s, i)
      PROVE  t[1] \in Seq(U) /\ Under(s, t[1]) /\ ~ SaysCatalog(t)
  <2>1. "distributions" \in datasetLists /\ i \in DOMAIN d["distributions"]
    BY DEF datasetLists
  <2>2. t[1] = Sub(s, <<"distributions", i - 1>>) /\ ~ SaysCatalog(t)
    BY <1>3, <1>1 DEF PartsUnder
  <2>3. QED
    BY <1>1, <2>1, <2>2, UnderItself DEF PartsUnder
<1>4. ASSUME NEW i \in DOMAIN d.policies, t \in PolicyPart(d, s, i)
      PROVE  t[1] \in Seq(U) /\ Under(s, t[1]) /\ ~ SaysCatalog(t)
  <2>1. "policies" \in datasetLists /\ i \in DOMAIN d["policies"]
    BY DEF datasetLists
  <2>2. t[1] \in Seq(U) /\ Under(Sub(s, <<"policies", i - 1>>), t[1]) /\ ~ SaysCatalog(t)
    BY <1>4, <1>1 DEF PartsUnder
  <2>3. QED
    BY <1>1, <2>1, <2>2 DEF PartsUnder
<1>5. QED
  BY <1>2, <1>3, <1>4 DEF InDataset

\* What is read from the quads about a dataset.
DatasetIn(g, d, s, index) ==
    /\ sequence_index(g, s) = Some(index)
    /\ {t[2] : t \in {u \in g : u[1] = s}} \ {"type", "sequenceIndex", "distribution", "hasPolicy"}
           = DOMAIN d.properties
    /\ \A k \in DOMAIN d.properties : OptionalString(g, s, k) = Some(d.properties[k])
    /\ Linked(g, s, "distribution", "distributions", d.distributions)
    /\ Linked(g, s, "hasPolicy", "policies", d.policies)

\* What is read from a dataset's own quads.
LEMMA DatasetObjects ==
    ASSUME NEW g, NEW d, DatasetForm(d), NEW s, NEW index, Own(g, s) = DatasetOwn(d, s, index)
    PROVE  DatasetIn(g, d, s, index)
<1> DEFINE special == {"type", "sequenceIndex", "distribution", "hasPolicy"}
           L == LinksTo(s, "distribution", "distributions", d.distributions)
           P == LinksTo(s, "hasPolicy", "policies", d.policies)
           Q == PropertyQuads(d, s)
<1>1. \A k \in DOMAIN d.properties : k \notin special
  BY DEF DatasetForm, Descriptive
<1>2. /\ \A t \in L : t[2] = "distribution"
      /\ \A t \in P : t[2] = "hasPolicy"
  BY LinkParts
<1>3. /\ \A t \in Q : t[2] \in DOMAIN d.properties /\ t[3] = LiteralTerm(d.properties[t[2]])
      /\ \A k \in DOMAIN d.properties : Triple(s, k, LiteralTerm(d.properties[k])) \in Q
  BY PropertyParts
<1>4. Own(g, s) = {Triple(s, "type", "Dataset"), Triple(s, "sequenceIndex", index)}
                      \cup Q \cup L \cup P
  BY DEF DatasetOwn
<1> HIDE DEF L, P, Q
<1>5. \A t \in Own(g, s) :
          /\ t[2] = "sequenceIndex" => t = Triple(s, "sequenceIndex", index)
          /\ t[2] = "distribution" => t \in L
          /\ t[2] = "hasPolicy" => t \in P
          /\ t[2] \notin special => t \in Q
  BY <1>1, <1>2, <1>3, <1>4, TripleParts
<1>6. Objects(g, s, "sequenceIndex") = {index}
  BY <1>4, <1>5, ObjectsOf, TripleParts
<1>7. sequence_index(g, s) = Some(index)
  BY <1>6, OneObject DEF sequence_index
<1>8. ASSUME NEW k \in DOMAIN d.properties PROVE OptionalString(g, s, k) = Some(d.properties[k])
  <2> DEFINE o == LiteralTerm(d.properties[k])
  <2>1. ASSUME NEW x \in Objects(g, s, k) PROVE x = o
    <3>1. PICK t \in Own(g, s) : t[2] = k /\ x = t[3]
      BY <2>1, ObjectsOf
    <3>2. t \in Q
      BY <1>1, <1>5, <3>1
    <3>3. QED
      BY <1>3, <3>1, <3>2
  <2>2. o \in Objects(g, s, k)
    BY <1>3, <1>4, ObjectsOf, TripleParts
  <2>3. o.v = d.properties[k]
    BY DEF LiteralTerm
  <2> HIDE DEF o
  <2>4. Objects(g, s, k) = {o}
    BY <2>1, <2>2
  <2>5. QED
    BY <2>3, <2>4, OneObject
<1>9. {t[2] : t \in {u \in g : u[1] = s}} \ special = DOMAIN d.properties
  <2>1. ASSUME NEW k \in DOMAIN d.properties
        PROVE  \E t \in Own(g, s) : t[2] = k
    BY <1>3, <1>4, TripleParts
  <2>2. ASSUME NEW t \in Own(g, s), t[2] \notin special PROVE t[2] \in DOMAIN d.properties
    BY <1>3, <1>5, <2>2
  <2> HIDE DEF special
  <2>3. QED
    BY <1>1, <2>1, <2>2 DEF Own
<1>10. /\ OnlyLinks(Own(g, s), s, "distribution", "distributions", d.distributions)
       /\ OnlyLinks(Own(g, s), s, "hasPolicy", "policies", d.policies)
  BY <1>4, <1>5 DEF OnlyLinks, L, P
<1>11. QED
  BY <1>7, <1>8, <1>9, <1>10, ListLinked DEF DatasetIn

\* g has, of s and what is below it, what is written of the dataset d.
HoldsDataset(g, node, d, s, index) ==
    \A t : t \in Below(g, s) <=> InDataset(node, d, s, index, t)

\* load_dataset rebuilds the dataset that write_dataset was given.
LEMMA DatasetLoads ==
    ASSUME NEW U, Alphabet(U), NEW node, NEW d, DatasetForm(d), NEW s \in Seq(U), s[3] = d.id,
           NEW index, NEW g, Paths(g, U),
           HoldsDataset(g, node, d, s, index)
    PROVE  load_dataset(g, s) = Indexed(d, index)
<1> DEFINE J == {j \in U \X U : j[1] \in datasetLists /\ j \in Places(j[1], d[j[1]])}
           own == DatasetOwn(d, s, index)
           partOf(a, i) == IF a = "distributions" THEN DistributionPart(node, d, s, i)
                           ELSE PolicyPart(d, s, i)
           part == [j \in J |-> partOf(j[1], j[2] + 1)]
<1>1. PartsUnder(U, node, d, s)
  BY DatasetPartUnder
<1>2. ASSUME NEW a \in datasetLists, NEW i \in DOMAIN d[a]
      PROVE  <<a, i - 1>> \in J /\ part[<<a, i - 1>>] = partOf(a, i)
  <2> DEFINE j == <<a, i - 1>>
  <2>1. j[1] = a /\ j[2] = i - 1 /\ (i - 1) + 1 = i /\ a \in U /\ i - 1 \in U
    BY <1>1 DEF PartsUnder
  <2>2. j \in Places(a, d[a]) /\ j \in U \X U
    BY <2>1 DEF Places
  <2> HIDE DEF j
  <2>3. j \in J
    BY <2>1, <2>2
  <2> HIDE DEF partOf
  <2>4. part[j] = partOf(a, i)
    BY <2>1, <2>3
  <2>5. QED
    BY <2>3, <2>4 DEF j
<1>3. \A j \in J : \E a \in datasetLists : \E i \in DOMAIN d[a] : j = <<a, i - 1>>
  BY DEF Places
<1>4. Pairs(J, U)
  BY DEF Pairs
<1>5. /\ d["distributions"] = d.distributions /\ d["policies"] = d.policies
      /\ "distributions" \in datasetLists /\ "policies" \in datasetLists
      /\ \A i : partOf("distributions", i) = DistributionPart(node, d, s, i)
      /\ \A i : partOf("policies", i) = PolicyPart(d, s, i)
      /\ \A a \in datasetLists : a = "distributions" \/ a = "policies"
  BY DEF datasetLists
<1> HIDE DEF J, own, part, partOf
<1>6. Placed(s, J, own, part)
  <2>1. ASSUME NEW a \in datasetLists, NEW i \in DOMAIN d[a], NEW t \in partOf(a, i)
        PROVE  Under(Sub(s, <<a, i - 1>>), t[1])
    <3>1. CASE a = "distributions"
      BY <1>1, <1>5, <2>1, <3>1, UnderItself DEF PartsUnder
    <3>2. CASE a = "policies"
      BY <1>1, <1>5, <2>1, <3>2 DEF PartsUnder
    <3>3. QED
      BY <1>5, <3>1, <3>2
  <2>2. ASSUME NEW j \in J, NEW t \in part[j] PROVE Under(Sub(s, j), t[1])
    BY <1>2, <1>3, <2>1, <2>2
  <2>3. QED
    BY <2>2, DatasetOwnSubject DEF Placed, own
<1>7. Parted(g, s, J, own, part)
  <2> SUFFICES ASSUME NEW t
               PROVE  t \in Below(g, s) <=> (t \in own \/ \E j \in J : t \in part[j])
    BY DEF Parted
  <2>1. t \in Below(g, s) <=>
            (t \in own \/ \E a \in datasetLists : \E i \in DOMAIN d[a] : t \in partOf(a, i))
    BY <1>5 DEF InDataset, HoldsDataset, own
  <2>2. QED
    BY <1>2, <1>3, <2>1
<1>8. Apart(g, s, J, own, part)
  BY <1>4, <1>6, <1>7, Split
<1>9. Own(g, s) = own
  BY <1>8 DEF Apart
<1>10. \A a \in datasetLists : \A i \in DOMAIN d[a] : Below(g, Sub(s, <<a, i - 1>>)) = partOf(a, i)
  BY <1>2, <1>8 DEF Apart
<1>11. DatasetIn(g, d, s, index)
  BY <1>9, DatasetObjects DEF own
<1>12. LoadAll(g, s, "distribution", LAMBDA e : load_distribution(g, e)) = Some(d.distributions)
  <2> DEFINE x == d.distributions
             a == "distributions"
             loaded == {load_distribution(g, o.v) : o \in Objects(g, s, "distribution")}
  <2>1. ASSUME NEW i \in DOMAIN x
        PROVE  load_distribution(g, Sub(s, <<a, i - 1>>)) = Indexed(x[i], i - 1)
    <3> DEFINE p == Sub(s, <<a, i - 1>>)
    <3>1. Below(g, p) = DistributionQuads(node, x[i], p, i - 1) /\ DistributionForm(x[i])
      BY <1>5, <1>10 DEF DistributionPart, DatasetForm
    <3> HIDE DEF p, x, a
    <3>2. load_distribution(g, p) = Indexed(x[i], i - 1)
      BY <3>1, DistributionLoads
    <3>3. QED
      BY <3>2 DEF p
  <2>2. Linked(g, s, "distribution", a, x) /\ IsList(x)
    BY <1>11 DEF DatasetIn, DatasetForm
  <2> HIDE DEF x, a
  <2>3. ASSUME NEW i \in DOMAIN x PROVE Indexed(x[i], i - 1) \in loaded
    <3>1. Resource(Sub(s, <<a, i - 1>>)) \in Objects(g, s, "distribution")
      BY <2>2 DEF Linked
    <3>2. Resource(Sub(s, <<a, i - 1>>)).v = Sub(s, <<a, i - 1>>)
      BY SubIs
    <3>3. load_distribution(g, Sub(s, <<a, i - 1>>)) \in loaded
      BY <3>1, <3>2
    <3>4. QED
      BY <2>1, <3>3
  <2>4. ASSUME NEW l \in loaded PROVE \E i \in DOMAIN x : l = Indexed(x[i], i - 1)
    <3>1. PICK o \in Objects(g, s, "distribution") : l = load_distribution(g, o.v)
      OBVIOUS
    <3>2. PICK i \in DOMAIN x : o = Resource(Sub(s, <<a, i - 1>>))
      BY <2>2 DEF Linked
    <3>3. QED
      BY <2>1, <3>1, <3>2, SubIs
  <2>5. LoadAll(g, s, "distribution", LAMBDA e : load_distribution(g, e)) = AllLoaded(loaded)
    BY DEF LoadAll
  <2> HIDE DEF loaded
  <2>6. AreOf(loaded, x)
    BY <2>3, <2>4 DEF AreOf
  <2>7. AllLoaded(loaded) = Some(x)
    BY <2>2, <2>6, ListLoads
  <2>8. QED
    BY <2>5, <2>7 DEF x
<1>13. LoadAll(g, s, "hasPolicy", LAMBDA p : load_policy(g, p)) = Some(d.policies)
  <2> DEFINE x == d.policies
             a == "policies"
             loaded == {load_policy(g, o.v) : o \in Objects(g, s, "hasPolicy")}
  <2>1. ASSUME NEW i \in DOMAIN x
        PROVE  load_policy(g, Sub(s, <<a, i - 1>>)) = Indexed(x[i], i - 1)
    <3> DEFINE p == Sub(s, <<a, i - 1>>)
    <3>1. Below(g, p) = write_policy(x[i], p, i - 1) /\ PolicyForm(x[i])
      BY <1>5, <1>10 DEF PolicyPart, DatasetForm
    <3>2. p \in Seq(U)
      BY <1>1, <1>5 DEF PartsUnder
    <3> HIDE DEF p, x, a
    <3>3. load_policy(g, p) = Indexed(x[i], i - 1)
      BY <3>1, <3>2, PolicyLoads
    <3>4. QED
      BY <3>3 DEF p
  <2>2. Linked(g, s, "hasPolicy", a, x) /\ IsList(x)
    BY <1>11 DEF DatasetIn, DatasetForm
  <2> HIDE DEF x, a
  <2>3. ASSUME NEW i \in DOMAIN x PROVE Indexed(x[i], i - 1) \in loaded
    <3>1. Resource(Sub(s, <<a, i - 1>>)) \in Objects(g, s, "hasPolicy")
      BY <2>2 DEF Linked
    <3>2. Resource(Sub(s, <<a, i - 1>>)).v = Sub(s, <<a, i - 1>>)
      BY SubIs
    <3>3. load_policy(g, Sub(s, <<a, i - 1>>)) \in loaded
      BY <3>1, <3>2
    <3>4. QED
      BY <2>1, <3>3
  <2>4. ASSUME NEW l \in loaded PROVE \E i \in DOMAIN x : l = Indexed(x[i], i - 1)
    <3>1. PICK o \in Objects(g, s, "hasPolicy") : l = load_policy(g, o.v)
      OBVIOUS
    <3>2. PICK i \in DOMAIN x : o = Resource(Sub(s, <<a, i - 1>>))
      BY <2>2 DEF Linked
    <3>3. QED
      BY <2>1, <3>1, <3>2, SubIs
  <2>5. LoadAll(g, s, "hasPolicy", LAMBDA p : load_policy(g, p)) = AllLoaded(loaded)
    BY DEF LoadAll
  <2> HIDE DEF loaded
  <2>6. AreOf(loaded, x)
    BY <2>3, <2>4 DEF AreOf
  <2>7. AllLoaded(loaded) = Some(x)
    BY <2>2, <2>6, ListLoads
  <2>8. QED
    BY <2>5, <2>7 DEF x
<1> DEFINE keys == {t[2] : t \in {u \in g : u[1] = s}}
                       \ {"type", "sequenceIndex", "distribution", "hasPolicy"}
           props == [k \in keys |-> OptionalString(g, s, k)[1]]
<1>14. props = d.properties
  <2>1. keys = DOMAIN d.properties
    BY <1>11 DEF DatasetIn
  <2> HIDE DEF keys
  <2>2. \A k \in keys : OptionalString(g, s, k)[1] = d.properties[k]
    BY <1>11, <2>1, SomeIsSome DEF DatasetIn
  <2>3. props = [k \in DOMAIN d.properties |-> d.properties[k]]
    BY <2>1, <2>2
  <2> HIDE DEF props
  <2>4. QED
    BY <2>3 DEF DatasetForm
<1>15. load_dataset(g, s)
           = Entry(sequence_index(g, s),
                   Unwrap([id |-> Some(s[3]), properties |-> Some(props),
                           distributions |-> LoadAll(g, s, "distribution",
                                                     LAMBDA e : load_distribution(g, e)),
                           policies |-> LoadAll(g, s, "hasPolicy", LAMBDA p : load_policy(g, p))]))
  BY DEF load_dataset
<1> HIDE DEF props
<1>16. \A v, w, x, y : Unwrap([id |-> Some(v), properties |-> Some(w), distributions |-> Some(x),
                               policies |-> Some(y)])
                           = Some([id |-> v, properties |-> w, distributions |-> x, policies |-> y])
  BY DEF Unwrap, Some, None
<1>17. load_dataset(g, s)
           = Entry(Some(index),
                   Unwrap([id |-> Some(d.id), properties |-> Some(d.properties),
                           distributions |-> Some(d.distributions),
                           policies |-> Some(d.policies)]))
  <2>1. sequence_index(g, s) = Some(index)
    BY <1>11 DEF DatasetIn
  <2>2. QED
    BY <1>12, <1>13, <1>14, <1>15, <2>1
<1>18. load_dataset(g, s)
           = Entry(Some(index), Some([id |-> d.id, properties |-> d.properties,
                                      distributions |-> d.distributions, policies |-> d.policies]))
  BY <1>16, <1>17
<1>19. d = [id |-> d.id, properties |-> d.properties, distributions |-> d.distributions,
            policies |-> d.policies]
  BY DEF DatasetForm
<1>20. QED
  BY <1>18, <1>19, EntryIs

-----------------------------------------------------------------------------
(* Services and catalogs *)

\* A service with all its fields.
ServiceForm(s) ==
    /\ s = [id |-> s.id, endpoint_url |-> s.endpoint_url,
            endpoint_description |-> s.endpoint_description]
    /\ IsOption(s.endpoint_description)

\* What is written of a service, but for the link to it.
ServiceQuads(s, iri, index) ==
    {Triple(iri, "type", "DataService"),
     Triple(iri, "endpointURL", iri_or_literal_term(s.endpoint_url)),
     Triple(iri, "sequenceIndex", index)}
    \cup OptionQuads(iri, "endpointDescription", s.endpoint_description,
                     LiteralTerm(s.endpoint_description[1]))

\* A service's quads: the link to it, and the rest.
LEMMA ServiceParts ==
    ASSUME NEW node, NEW catalog_, NEW s, NEW index, NEW t
    PROVE  t \in write_service(node, catalog_, s, index) <=>
               \/ t = Triple(catalog_, "service", Resource(service_iri(node, s.id)))
               \/ t \in ServiceQuads(s, service_iri(node, s.id), index)
  BY DEF write_service, ServiceQuads, Optional, OptionQuads, Index

\* The quad of a value that may be missing.
LEMMA OptionParts ==
    ASSUME NEW s, NEW q, NEW option, NEW term
    PROVE  /\ \A t \in OptionQuads(s, q, option, term) :
                 t[1] = s /\ t[2] = q /\ t[3] = term /\ option # None
           /\ option # None => Triple(s, q, term) \in OptionQuads(s, q, option, term)
  BY TripleParts DEF OptionQuads

\* A service's quads, but for the link to it, are about its resource.
LEMMA ServiceSubject ==
    ASSUME NEW s, NEW iri, NEW index, NEW t \in ServiceQuads(s, iri, index)
    PROVE  t[1] = iri /\ ~ SaysCatalog(t)
<1>1. t \in OptionQuads(iri, "endpointDescription", s.endpoint_description,
                        LiteralTerm(s.endpoint_description[1]))
          => t[1] = iri /\ t[2] = "endpointDescription"
  BY OptionParts
<1>2. QED
  BY <1>1, TripleParts DEF ServiceQuads, SaysCatalog

\* load_data_service rebuilds the service that write_service was given.
LEMMA ServiceLoads ==
    ASSUME NEW s, ServiceForm(s), NEW iri, iri[3] = s.id, NEW index, NEW g,
           Own(g, iri) = ServiceQuads(s, iri, index)
    PROVE  load_data_service(g, iri) = Indexed(s, index)
<1> DEFINE url == iri_or_literal_term(s.endpoint_url)
           text == LiteralTerm(s.endpoint_description[1])
           option == OptionQuads(iri, "endpointDescription", s.endpoint_description, text)
<1>1. url.v = s.endpoint_url /\ text.v = s.endpoint_description[1]
  BY DEF iri_or_literal_term, LiteralTerm
<1>2. Own(g, iri) = {Triple(iri, "type", "DataService"), Triple(iri, "endpointURL", url),
                     Triple(iri, "sequenceIndex", index)} \cup option
  BY DEF ServiceQuads
<1>3. /\ \A t \in option : t[2] = "endpointDescription" /\ t[3] = text /\ s.endpoint_description # None
      /\ s.endpoint_description # None => Triple(iri, "endpointDescription", text) \in option
  BY OptionParts
<1> HIDE DEF url, text, option
<1>4. Objects(g, iri, "endpointURL") = {url} /\ Objects(g, iri, "sequenceIndex") = {index}
  BY <1>2, <1>3, ObjectsOf, TripleParts
<1>5. OptionalString(g, iri, "endpointURL") = Some(url.v) /\ sequence_index(g, iri) = Some(index)
  BY <1>4, OneObject DEF sequence_index
<1>6. HasOption(g, iri, "endpointDescription", s.endpoint_description, text)
  BY <1>2, <1>3, ObjectsOf, TripleParts DEF HasOption
<1>7. OptionalString(g, iri, "endpointDescription") = s.endpoint_description
  BY <1>1, <1>6, OptionLoads DEF ServiceForm
<1>8. \A v, w, x : Unwrap([id |-> Some(v), endpoint_url |-> Some(w), endpoint_description |-> Some(x)])
                       = Some([id |-> v, endpoint_url |-> w, endpoint_description |-> x])
  BY DEF Unwrap, Some, None
<1>9. load_data_service(g, iri)
          = Entry(Some(index),
                  Unwrap([id |-> Some(s.id), endpoint_url |-> Some(s.endpoint_url),
                          endpoint_description |-> Some(s.endpoint_description)]))
  BY <1>1, <1>5, <1>7 DEF load_data_service
<1>10. load_data_service(g, iri)
           = Entry(Some(index), Some([id |-> s.id, endpoint_url |-> s.endpoint_url,
                                      endpoint_description |-> s.endpoint_description]))
  BY <1>8, <1>9
<1>11. QED
  BY <1>10, EntryIs DEF ServiceForm

\* The members of a list have different ids.
DistinctIds(x) == \A i, j \in DOMAIN x : x[i].id = x[j].id => i = j

\* A catalog that is written and read back: all fields, lists, ids used once.
CatalogForm(c) ==
    /\ c = [id |-> c.id, origin_node |-> c.origin_node, participant_id |-> c.participant_id,
            datasets |-> c.datasets, data_services |-> c.data_services]
    /\ IsOption(c.participant_id)
    /\ IsList(c.datasets) /\ DistinctIds(c.datasets)
    /\ \A i \in DOMAIN c.datasets : DatasetForm(c.datasets[i])
    /\ IsList(c.data_services) /\ DistinctIds(c.data_services)
    /\ \A i \in DOMAIN c.data_services : ServiceForm(c.data_services[i])

\* The quads about a catalog itself.
CatalogOwn(c, iri) ==
    {Triple(iri, "type", "Catalog")}
    \cup OptionQuads(iri, "participantId", c.participant_id, LiteralTerm(c.participant_id[1]))
    \cup {Triple(iri, "dataset", Resource(dataset_iri(c.origin_node, c.datasets[i].id))) :
             i \in DOMAIN c.datasets}
    \cup {Triple(iri, "service", Resource(service_iri(c.origin_node, c.data_services[i].id))) :
             i \in DOMAIN c.data_services}

\* The iris of a catalog's datasets and services.
DatasetIri(c, i) == dataset_iri(c.origin_node, c.datasets[i].id)
ServiceIri(c, i) == service_iri(c.origin_node, c.data_services[i].id)

\* What is written of a catalog.
InCatalog(c, t) ==
    \/ t \in CatalogOwn(c, catalog_iri(c.origin_node, c.id))
    \/ \E i \in DOMAIN c.datasets :
          InDataset(c.origin_node, c.datasets[i], DatasetIri(c, i), i - 1, t)
    \/ \E i \in DOMAIN c.data_services :
          t \in ServiceQuads(c.data_services[i], ServiceIri(c, i), i - 1)

\* A catalog's quads: its own, and those of its datasets and services.
LEMMA CatalogParts ==
    ASSUME NEW c, write_catalog(c) # None, NEW t
    PROVE  t \in write_catalog(c)[1] <=> InCatalog(c, t)
<1> DEFINE node == c.origin_node
           iri == catalog_iri(node, c.id)
           quads == {Triple(iri, "type", "Catalog")}
                 \cup Optional(iri, "participantId", c.participant_id, LiteralTerm)
                 \cup Each(c.datasets, LAMBDA d, i : write_dataset(node, iri, d, i))
                 \cup Each(c.data_services, LAMBDA s, i : write_service(node, iri, s, i))
<1>1. write_catalog(c) = Some(quads)
  BY DEF write_catalog
<1>2. write_catalog(c)[1] = quads
  BY <1>1, SomeIsSome
<1>3. t \in quads <=>
          \/ t = Triple(iri, "type", "Catalog")
          \/ t \in OptionQuads(iri, "participantId", c.participant_id, LiteralTerm(c.participant_id[1]))
          \/ \E i \in DOMAIN c.datasets : t \in write_dataset(node, iri, c.datasets[i], i - 1)
          \/ \E i \in DOMAIN c.data_services :
                t \in write_service(node, iri, c.data_services[i], i - 1)
  BY DEF Optional, OptionQuads, Each
<1>4. \A i \in DOMAIN c.datasets :
          t \in write_dataset(node, iri, c.datasets[i], i - 1) <=>
              \/ t = Triple(iri, "dataset", Resource(dataset_iri(node, c.datasets[i].id)))
              \/ InDataset(node, c.datasets[i], DatasetIri(c, i), i - 1, t)
  BY DatasetParts DEF DatasetIri
<1>5. \A i \in DOMAIN c.data_services :
          t \in write_service(node, iri, c.data_services[i], i - 1) <=>
              \/ t = Triple(iri, "service", Resource(service_iri(node, c.data_services[i].id)))
              \/ t \in ServiceQuads(c.data_services[i], ServiceIri(c, i), i - 1)
  BY ServiceParts DEF ServiceIri
<1> HIDE DEF quads, iri, node
<1>6. t \in CatalogOwn(c, iri) <=>
          \/ t = Triple(iri, "type", "Catalog")
          \/ t \in OptionQuads(iri, "participantId", c.participant_id, LiteralTerm(c.participant_id[1]))
          \/ \E i \in DOMAIN c.datasets :
                t = Triple(iri, "dataset", Resource(dataset_iri(node, c.datasets[i].id)))
          \/ \E i \in DOMAIN c.data_services :
                t = Triple(iri, "service", Resource(service_iri(node, c.data_services[i].id)))
  BY DEF CatalogOwn, node
<1>7. InCatalog(c, t) <=>
          \/ t \in CatalogOwn(c, iri)
          \/ \E i \in DOMAIN c.datasets : InDataset(node, c.datasets[i], DatasetIri(c, i), i - 1, t)
          \/ \E i \in DOMAIN c.data_services :
                t \in ServiceQuads(c.data_services[i], ServiceIri(c, i), i - 1)
  BY DEF InCatalog, node, iri
<1>8. QED
  BY <1>2, <1>3, <1>4, <1>5, <1>6, <1>7

\* What a catalog's own quads say.
LEMMA CatalogOwnParts ==
    ASSUME NEW c, NEW iri, NEW t \in CatalogOwn(c, iri)
    PROVE  /\ t[1] = iri
           /\ t[2] = "participantId" =>
                 t \in OptionQuads(iri, "participantId", c.participant_id,
                                   LiteralTerm(c.participant_id[1]))
           /\ t[2] = "dataset" => \E i \in DOMAIN c.datasets : t[3] = Resource(DatasetIri(c, i))
           /\ t[2] = "service" => \E i \in DOMAIN c.data_services : t[3] = Resource(ServiceIri(c, i))
<1>1. CASE t = Triple(iri, "type", "Catalog")
  BY <1>1, TripleParts
<1>2. CASE t \in OptionQuads(iri, "participantId", c.participant_id, LiteralTerm(c.participant_id[1]))
  BY <1>2, OptionParts
<1>3. ASSUME NEW i \in DOMAIN c.datasets, t = Triple(iri, "dataset", Resource(DatasetIri(c, i)))
      PROVE  t[1] = iri /\ t[2] = "dataset" /\ t[3] = Resource(DatasetIri(c, i))
  BY <1>3, TripleParts
<1>4. ASSUME NEW i \in DOMAIN c.data_services, t = Triple(iri, "service", Resource(ServiceIri(c, i)))
      PROVE  t[1] = iri /\ t[2] = "service" /\ t[3] = Resource(ServiceIri(c, i))
  BY <1>4, TripleParts
<1>5. \/ t = Triple(iri, "type", "Catalog")
      \/ t \in OptionQuads(iri, "participantId", c.participant_id, LiteralTerm(c.participant_id[1]))
      \/ \E i \in DOMAIN c.datasets : t = Triple(iri, "dataset", Resource(DatasetIri(c, i)))
      \/ \E i \in DOMAIN c.data_services : t = Triple(iri, "service", Resource(ServiceIri(c, i)))
  BY DEF CatalogOwn, DatasetIri, ServiceIri
<1>6. QED
  BY <1>1, <1>2, <1>3, <1>4, <1>5

\* The path of a dataset or service names its list and its id.
LEMMA IriPath ==
    ASSUME NEW U, NEW node \in U, NEW a \in U, NEW id \in U
    PROVE  /\ <<node, a, id>> \in Seq(U)
           /\ <<node, a, id>>[2] = a /\ <<node, a, id>>[3] = id
           /\ \A q : Under(<<node, a, id>>, q) => q[2] = a /\ q[3] = id
<1> DEFINE p == <<node, a, id>>
<1>1. p \in Seq(U) /\ Len(p) = 3 /\ p[2] = a /\ p[3] = id
  OBVIOUS
<1> HIDE DEF p
<1>2. ASSUME NEW q, Under(p, q) PROVE q[2] = a /\ q[3] = id
  BY <1>1, <1>2 DEF Under
<1>3. QED
  BY <1>1, <1>2 DEF p

\* Where the resources of a catalog are.
CatalogPlaced(U, c) ==
    LET node == c.origin_node
        iri == catalog_iri(node, c.id)
    IN /\ iri \in Seq(U) /\ iri[2] = "catalogs" /\ iri[3] = c.id
       /\ \A i \in DOMAIN c.datasets :
             /\ DatasetIri(c, i) \in Seq(U) /\ DatasetIri(c, i)[3] = c.datasets[i].id
             /\ \A q : Under(DatasetIri(c, i), q) => q[2] = "datasets" /\ q[3] = c.datasets[i].id
       /\ \A i \in DOMAIN c.data_services :
             /\ ServiceIri(c, i) \in Seq(U) /\ ServiceIri(c, i)[2] = "services"
             /\ ServiceIri(c, i)[3] = c.data_services[i].id

\* There is a set of which all paths of a catalog are made.
LEMMA CatalogHasPlaces ==
    ASSUME NEW c PROVE \E U : Alphabet(U) /\ CatalogPlaced(U, c)
<1> DEFINE names == {"catalogs", "datasets", "services", "distributions", "policies", "permissions",
                     "prohibitions", "obligations", "constraints"}
           U == Nat \cup names \cup {c.origin_node, c.id}
                    \cup {c.datasets[i].id : i \in DOMAIN c.datasets}
                    \cup {c.data_services[i].id : i \in DOMAIN c.data_services}
<1>1. /\ Alphabet(U) /\ c.origin_node \in U /\ c.id \in U
      /\ "catalogs" \in U /\ "datasets" \in U /\ "services" \in U
      /\ \A i \in DOMAIN c.datasets : c.datasets[i].id \in U
      /\ \A i \in DOMAIN c.data_services : c.data_services[i].id \in U
  BY DEF Alphabet
<1> HIDE DEF U
<1>2. LET iri == catalog_iri(c.origin_node, c.id)
      IN iri \in Seq(U) /\ iri[2] = "catalogs" /\ iri[3] = c.id
  BY <1>1, IriPath DEF catalog_iri
<1>3. ASSUME NEW i \in DOMAIN c.datasets
      PROVE  /\ DatasetIri(c, i) \in Seq(U) /\ DatasetIri(c, i)[3] = c.datasets[i].id
             /\ \A q : Under(DatasetIri(c, i), q) => q[2] = "datasets" /\ q[3] = c.datasets[i].id
  BY <1>1, IriPath DEF DatasetIri, dataset_iri
<1>4. ASSUME NEW i \in DOMAIN c.data_services
      PROVE  /\ ServiceIri(c, i) \in Seq(U) /\ ServiceIri(c, i)[2] = "services"
             /\ ServiceIri(c, i)[3] = c.data_services[i].id
  BY <1>1, IriPath DEF ServiceIri, service_iri
<1>5. CatalogPlaced(U, c)
  BY <1>2, <1>3, <1>4 DEF CatalogPlaced
<1>6. QED
  BY <1>1, <1>5

\* The quads of a catalog's graph, by the resource they are about.
CatalogHeld(U, c, g) ==
    LET iri == catalog_iri(c.origin_node, c.id)
    IN /\ Paths(g, U)
       /\ Own(g, iri) = CatalogOwn(c, iri)
       /\ \A t \in g : SaysCatalog(t) => t[1] = iri
       /\ \A i \in DOMAIN c.datasets : \A t :
             t \in Below(g, DatasetIri(c, i)) <=>
                 InDataset(c.origin_node, c.datasets[i], DatasetIri(c, i), i - 1, t)
       /\ \A i \in DOMAIN c.data_services :
             Own(g, ServiceIri(c, i)) = ServiceQuads(c.data_services[i], ServiceIri(c, i), i - 1)

\* The graph of a catalog, taken apart: the quads about the catalog, and those of
\* each dataset and each service. Datasets of one list have different ids, so no two
\* of them share a resource.
LEMMA CatalogApart ==
    ASSUME NEW U, Alphabet(U), NEW c, CatalogForm(c), CatalogPlaced(U, c), NEW g,
           \A t : t \in g <=> InCatalog(c, t)
    PROVE  CatalogHeld(U, c, g)
<1> DEFINE node == c.origin_node
           iri == catalog_iri(node, c.id)
           Dataset(i, t) == InDataset(node, c.datasets[i], DatasetIri(c, i), i - 1, t)
           service(i) == ServiceQuads(c.data_services[i], ServiceIri(c, i), i - 1)
<1>1. \A t : t \in g <=> \/ t \in CatalogOwn(c, iri)
                         \/ \E i \in DOMAIN c.datasets : Dataset(i, t)
                         \/ \E i \in DOMAIN c.data_services : t \in service(i)
  BY DEF InCatalog
<1>2. iri \in Seq(U) /\ iri[2] = "catalogs"
  BY DEF CatalogPlaced
<1>3. ASSUME NEW t \in CatalogOwn(c, iri) PROVE t[1] = iri
  BY CatalogOwnParts
<1>4. ASSUME NEW i \in DOMAIN c.datasets, NEW t, Dataset(i, t)
      PROVE  /\ t[1] \in Seq(U) /\ Under(DatasetIri(c, i), t[1]) /\ ~ SaysCatalog(t)
             /\ t[1][2] = "datasets" /\ t[1][3] = c.datasets[i].id
  <2> DEFINE d == c.datasets[i]
             s == DatasetIri(c, i)
  <2>1. DatasetForm(d) /\ s \in Seq(U)
    BY DEF CatalogForm, CatalogPlaced
  <2>2. InDataset(node, d, s, i - 1, t)
    BY <1>4
  <2> HIDE DEF d, s
  <2>3. t[1] \in Seq(U) /\ Under(s, t[1]) /\ ~ SaysCatalog(t)
    BY <2>1, <2>2, DatasetUnder
  <2>4. QED
    BY <2>3 DEF s, CatalogPlaced
<1>5. ASSUME NEW i \in DOMAIN c.data_services, NEW t \in service(i)
      PROVE  /\ t[1] \in Seq(U) /\ t[1] = ServiceIri(c, i) /\ ~ SaysCatalog(t)
             /\ t[1][2] = "services" /\ t[1][3] = c.data_services[i].id
  <2>1. t[1] = ServiceIri(c, i) /\ ~ SaysCatalog(t)
    BY ServiceSubject
  <2>2. QED
    BY <2>1 DEF CatalogPlaced
<1> HIDE DEF Dataset, service, iri
<1>6. Paths(g, U) /\ \A t \in g : SaysCatalog(t) => t[1] = iri
  BY <1>1, <1>2, <1>3, <1>4, <1>5 DEF Paths
<1>7. Own(g, iri) = CatalogOwn(c, iri)
  <2>1. ASSUME NEW t \in g, t[1] = iri PROVE t \in CatalogOwn(c, iri)
    BY <1>1, <1>2, <1>4, <1>5, <2>1
  <2>2. ASSUME NEW t \in CatalogOwn(c, iri) PROVE t \in g /\ t[1] = iri
    BY <1>1, <1>3
  <2>3. QED
    BY <2>1, <2>2 DEF Own
<1>8. ASSUME NEW i \in DOMAIN c.datasets, NEW t
      PROVE  t \in Below(g, DatasetIri(c, i)) <=> Dataset(i, t)
  <2>1. ASSUME Dataset(i, t) PROVE t \in g /\ Under(DatasetIri(c, i), t[1])
    BY <1>1, <1>4, <2>1
  <2>2. ASSUME t \in g, Under(DatasetIri(c, i), t[1]) PROVE Dataset(i, t)
    <3>1. t[1][2] = "datasets" /\ t[1][3] = c.datasets[i].id
      BY <2>2 DEF CatalogPlaced
    <3>2. PICK k \in DOMAIN c.datasets : Dataset(k, t)
      BY <1>1, <1>2, <1>3, <1>5, <2>2, <3>1
    <3>3. c.datasets[k].id = c.datasets[i].id
      BY <1>4, <3>1, <3>2
    <3>4. k = i
      BY <3>3 DEF CatalogForm, DistinctIds
    <3>5. QED
      BY <3>2, <3>4
  <2>3. QED
    BY <2>1, <2>2 DEF Below
<1>9. ASSUME NEW i \in DOMAIN c.data_services PROVE Own(g, ServiceIri(c, i)) = service(i)
  <2>1. ASSUME NEW t \in service(i) PROVE t \in g /\ t[1] = ServiceIri(c, i)
    BY <1>1, <1>5, <2>1
  <2>2. ASSUME NEW t \in g, t[1] = ServiceIri(c, i) PROVE t \in service(i)
    <3>1. t[1][2] = "services" /\ t[1][3] = c.data_services[i].id
      BY <2>2 DEF CatalogPlaced
    <3>2. PICK k \in DOMAIN c.data_services : t \in service(k)
      BY <1>1, <1>2, <1>3, <1>4, <2>2, <3>1
    <3>3. c.data_services[k].id = c.data_services[i].id
      BY <1>5, <3>1, <3>2
    <3>4. k = i
      BY <3>3 DEF CatalogForm, DistinctIds
    <3>5. QED
      BY <3>2, <3>4
  <2>3. QED
    BY <2>1, <2>2 DEF Own
<1>10. QED
  BY <1>6, <1>7, <1>8, <1>9 DEF Dataset, service, iri, CatalogHeld

\* load_catalog rebuilds the catalog that write_catalog was given, for every
\* catalog of the model's fields whose datasets, and services, have different ids:
\* groups, their kind, and every list's order included.
THEOREM LoadInvertsWrite ==
    ASSUME NEW c, CatalogForm(c), write_catalog(c) # None
    PROVE  load_catalog(write_catalog(c)[1], c.origin_node) = Some(c)
<1> DEFINE node == c.origin_node
           g == write_catalog(c)[1]
           iri == catalog_iri(node, c.id)
<1>1. PICK U : Alphabet(U) /\ CatalogPlaced(U, c)
  BY CatalogHasPlaces
<1>2. \A t : t \in g <=> InCatalog(c, t)
  BY CatalogParts
<1> HIDE DEF g
<1>3. CatalogHeld(U, c, g)
  BY <1>1, <1>2, CatalogApart
<1>4. Own(g, iri) = CatalogOwn(c, iri) /\ iri[3] = c.id
  BY <1>1, <1>3 DEF CatalogHeld, CatalogPlaced
<1> DEFINE subject == CHOOSE s \in {t[1] : t \in g} : Triple(s, "type", "Catalog") \in g
<1>5. subject = iri
  <2> DEFINE T == Triple(iri, "type", "Catalog")
  <2>1. T \in g /\ T[1] = iri
    <3>1. T \in CatalogOwn(c, iri)
      BY DEF CatalogOwn
    <3>2. QED
      BY <1>4, <3>1 DEF Own
  <2>2. ASSUME NEW s, Triple(s, "type", "Catalog") \in g PROVE s = iri
    <3>1. SaysCatalog(Triple(s, "type", "Catalog")) /\ Triple(s, "type", "Catalog")[1] = s
      BY TripleParts DEF SaysCatalog
    <3>2. QED
      BY <1>3, <2>2, <3>1 DEF CatalogHeld
  <2>3. iri \in {t[1] : t \in g}
    BY <2>1
  <2> HIDE DEF iri
  <2>4. QED
    BY <2>1, <2>2, <2>3
<1> HIDE DEF subject
<1>6. OptionalString(g, iri, "participantId") = c.participant_id
  <2> DEFINE term == LiteralTerm(c.participant_id[1])
             option == OptionQuads(iri, "participantId", c.participant_id, term)
  <2>1. term.v = c.participant_id[1]
    BY DEF LiteralTerm
  <2>2. \A t \in Own(g, iri) : t[2] = "participantId" => t \in option
    BY <1>4, CatalogOwnParts
  <2>3. option \subseteq Own(g, iri)
    BY <1>4 DEF CatalogOwn
  <2>4. /\ \A t \in option : t[2] = "participantId" /\ t[3] = term /\ c.participant_id # None
        /\ c.participant_id # None => Triple(iri, "participantId", term) \in option
    BY OptionParts
  <2> HIDE DEF term, option, iri
  <2>5. HasOption(g, iri, "participantId", c.participant_id, term)
    BY <2>2, <2>3, <2>4, ObjectsOf, TripleParts DEF HasOption
  <2>6. QED
    BY <2>1, <2>5, OptionLoads DEF CatalogForm
<1>7. LoadAll(g, iri, "dataset", LAMBDA d : load_dataset(g, d)) = Some(c.datasets)
  <2> DEFINE x == c.datasets
             loaded == {load_dataset(g, o.v) : o \in Objects(g, iri, "dataset")}
  <2>1. ASSUME NEW i \in DOMAIN x PROVE load_dataset(g, DatasetIri(c, i)) = Indexed(x[i], i - 1)
    <3> DEFINE s == DatasetIri(c, i)
               d == x[i]
    <3>1. /\ s \in Seq(U) /\ s[3] = d.id /\ DatasetForm(d) /\ Paths(g, U) /\ Alphabet(U)
          /\ HoldsDataset(g, node, d, s, i - 1)
      BY <1>1, <1>3 DEF CatalogForm, CatalogPlaced, CatalogHeld, HoldsDataset
    <3> HIDE DEF s, d
    <3>2. load_dataset(g, s) = Indexed(d, i - 1)
      BY <3>1, DatasetLoads
    <3>3. QED
      BY <3>2 DEF s, d
  <2>2. ASSUME NEW o PROVE o \in Objects(g, iri, "dataset") <=>
                               \E i \in DOMAIN x : o = Resource(DatasetIri(c, i))
    <3>1. ASSUME o \in Objects(g, iri, "dataset")
          PROVE  \E i \in DOMAIN x : o = Resource(DatasetIri(c, i))
      <4>1. PICK t \in Own(g, iri) : t[2] = "dataset" /\ o = t[3]
        BY <3>1, ObjectsOf
      <4>2. QED
        BY <1>4, <4>1, CatalogOwnParts
    <3>2. ASSUME NEW i \in DOMAIN x, o = Resource(DatasetIri(c, i))
          PROVE  o \in Objects(g, iri, "dataset")
      <4>1. Triple(iri, "dataset", o) \in Own(g, iri)
        BY <1>4, <3>2 DEF CatalogOwn, DatasetIri
      <4>2. QED
        BY <4>1, ObjectsOf, TripleParts
    <3>3. QED
      BY <3>1, <3>2
  <2>3. \A p : Resource(p).v = p
    BY DEF Resource
  <2> HIDE DEF x, iri
  <2>4. ASSUME NEW i \in DOMAIN x PROVE Indexed(x[i], i - 1) \in loaded
    <3>1. load_dataset(g, DatasetIri(c, i)) \in loaded
      BY <2>2, <2>3
    <3>2. QED
      BY <2>1, <3>1
  <2>5. ASSUME NEW l \in loaded PROVE \E i \in DOMAIN x : l = Indexed(x[i], i - 1)
    <3>1. PICK o \in Objects(g, iri, "dataset") : l = load_dataset(g, o.v)
      OBVIOUS
    <3>2. PICK i \in DOMAIN x : o = Resource(DatasetIri(c, i))
      BY <2>2
    <3>3. QED
      BY <2>1, <2>3, <3>1, <3>2
  <2>6. LoadAll(g, iri, "dataset", LAMBDA d : load_dataset(g, d)) = AllLoaded(loaded)
    BY DEF LoadAll
  <2> HIDE DEF loaded
  <2>7. IsList(x) /\ AreOf(loaded, x)
    BY <2>4, <2>5 DEF AreOf, x, CatalogForm
  <2>8. AllLoaded(loaded) = Some(x)
    BY <2>7, ListLoads
  <2>9. QED
    BY <2>6, <2>8 DEF x
<1>8. LoadAll(g, iri, "service", LAMBDA s : load_data_service(g, s)) = Some(c.data_services)
  <2> DEFINE x == c.data_services
             loaded == {load_data_service(g, o.v) : o \in Objects(g, iri, "service")}
  <2>1. ASSUME NEW i \in DOMAIN x
        PROVE  load_data_service(g, ServiceIri(c, i)) = Indexed(x[i], i - 1)
    <3> DEFINE s == ServiceIri(c, i)
               d == x[i]
    <3>1. s[3] = d.id /\ ServiceForm(d) /\ Own(g, s) = ServiceQuads(d, s, i - 1)
      BY <1>1, <1>3 DEF CatalogForm, CatalogPlaced, CatalogHeld
    <3> HIDE DEF s, d
    <3>2. load_data_service(g, s) = Indexed(d, i - 1)
      BY <3>1, ServiceLoads
    <3>3. QED
      BY <3>2 DEF s, d
  <2>2. ASSUME NEW o PROVE o \in Objects(g, iri, "service") <=>
                               \E i \in DOMAIN x : o = Resource(ServiceIri(c, i))
    <3>1. ASSUME o \in Objects(g, iri, "service")
          PROVE  \E i \in DOMAIN x : o = Resource(ServiceIri(c, i))
      <4>1. PICK t \in Own(g, iri) : t[2] = "service" /\ o = t[3]
        BY <3>1, ObjectsOf
      <4>2. QED
        BY <1>4, <4>1, CatalogOwnParts
    <3>2. ASSUME NEW i \in DOMAIN x, o = Resource(ServiceIri(c, i))
          PROVE  o \in Objects(g, iri, "service")
      <4>1. Triple(iri, "service", o) \in Own(g, iri)
        BY <1>4, <3>2 DEF CatalogOwn, ServiceIri
      <4>2. QED
        BY <4>1, ObjectsOf, TripleParts
    <3>3. QED
      BY <3>1, <3>2
  <2>3. \A p : Resource(p).v = p
    BY DEF Resource
  <2> HIDE DEF x, iri
  <2>4. ASSUME NEW i \in DOMAIN x PROVE Indexed(x[i], i - 1) \in loaded
    <3>1. load_data_service(g, ServiceIri(c, i)) \in loaded
      BY <2>2, <2>3
    <3>2. QED
      BY <2>1, <3>1
  <2>5. ASSUME NEW l \in loaded PROVE \E i \in DOMAIN x : l = Indexed(x[i], i - 1)
    <3>1. PICK o \in Objects(g, iri, "service") : l = load_data_service(g, o.v)
      OBVIOUS
    <3>2. PICK i \in DOMAIN x : o = Resource(ServiceIri(c, i))
      BY <2>2
    <3>3. QED
      BY <2>1, <2>3, <3>1, <3>2
  <2>6. LoadAll(g, iri, "service", LAMBDA s : load_data_service(g, s)) = AllLoaded(loaded)
    BY DEF LoadAll
  <2> HIDE DEF loaded
  <2>7. IsList(x) /\ AreOf(loaded, x)
    BY <2>4, <2>5 DEF AreOf, x, CatalogForm
  <2>8. AllLoaded(loaded) = Some(x)
    BY <2>7, ListLoads
  <2>9. QED
    BY <2>6, <2>8 DEF x
<1>9. load_catalog(g, node)
          = Unwrap([id |-> Some(subject[3]), origin_node |-> Some(node),
                    participant_id |-> Some(OptionalString(g, subject, "participantId")),
                    datasets |-> LoadAll(g, subject, "dataset", LAMBDA d : load_dataset(g, d)),
                    data_services |-> LoadAll(g, subject, "service",
                                              LAMBDA s : load_data_service(g, s))])
  BY DEF load_catalog, subject
<1> HIDE DEF iri
<1>10. load_catalog(g, node)
           = Unwrap([id |-> Some(c.id), origin_node |-> Some(node),
                     participant_id |-> Some(c.participant_id), datasets |-> Some(c.datasets),
                     data_services |-> Some(c.data_services)])
  BY <1>4, <1>5, <1>6, <1>7, <1>8, <1>9
<1>11. \A v, w, x, y, z :
           Unwrap([id |-> Some(v), origin_node |-> Some(w), participant_id |-> Some(x),
                   datasets |-> Some(y), data_services |-> Some(z)])
               = Some([id |-> v, origin_node |-> w, participant_id |-> x, datasets |-> y,
                       data_services |-> z])
  BY DEF Unwrap, Some, None
<1>12. load_catalog(g, node)
           = Some([id |-> c.id, origin_node |-> node, participant_id |-> c.participant_id,
                   datasets |-> c.datasets, data_services |-> c.data_services])
  BY <1>10, <1>11
<1>13. QED
  BY <1>12 DEF g, CatalogForm
=============================================================================
