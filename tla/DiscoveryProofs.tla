--------------------------- MODULE DiscoveryProofs ----------------------------
(***************************************************************************)
(* Discovery for any objects, kinds and changes of the cluster between the *)
(* pages of the lists, and for any containers of a host.  A run that ends  *)
(* well has every object that was there throughout, once, and what such    *)
(* objects are to each other; what it makes of the objects or of the       *)
(* containers is a snapshot that the gateway accepts, but for the cases    *)
(* that the properties name.                                               *)
(***************************************************************************)
EXTENDS Discovery, FiniteSetTheorems, WellFoundedInduction, TLAPS

\* The elements of a finite set in some order.
LEMMA OrderFound ==
    ASSUME NEW S, IsFiniteSet(S)
    PROVE  LET s == InSomeOrder(S) IN IsSequence(s) /\ Range(s) = S /\ Distinct(s)
  <1> DEFINE n == Cardinality(S)
             s == InSomeOrder(S)
  <1>1. n \in Nat /\ \E f : f \in Bijection(1..n, S)
    BY FS_CardinalityType DEF ExistsBijection
  <1>2. \E f \in [1..n -> S] : Distinct(f)
    BY Zenon, <1>1 DEF Bijection, Injection, IsInjective, Distinct
  <1>3. s \in [1..n -> S] /\ Distinct(s)
    BY Zenon, <1>2 DEF InSomeOrder
  <1> HIDE DEF s
  <1>4. IsFiniteSet(1..n) /\ Cardinality(1..n) = n
    BY <1>1, FS_Interval
  <1>5. s \in Surjection(1..n, S)
    BY Zenon, <1>3, <1>4, FS_Injection DEF Injection, IsInjective, Distinct
  <1>6. Range(s) = S
    BY Zenon, <1>3, <1>5 DEF Surjection, Range
  <1>7. s \in Seq(S) /\ {s[i] : i \in DOMAIN s} = S
    BY <1>1, <1>3, <1>6 DEF Range
  <1> QED
    BY Zenon, <1>3, <1>6, <1>7 DEF IsSequence, s

\* Where the elements of a concatenation are.
LEMMA Positions ==
    ASSUME NEW s, NEW t, IsSequence(s), IsSequence(t)
    PROVE  LET m == Len(s)
               n == Len(t)
           IN
           /\ m \in Nat /\ n \in Nat
           /\ DOMAIN s = 1..m /\ DOMAIN t = 1..n /\ DOMAIN (s \o t) = 1..(m + n)
           /\ \A i \in 1..m : i \in 1..(m + n) /\ (s \o t)[i] = s[i]
           /\ \A i \in 1..n : m + i \in 1..(m + n) /\ (s \o t)[m + i] = t[i]
           /\ \A i \in 1..(m + n) : i \in 1..m \/ \E j \in 1..n : i = m + j
           /\ \A i, j \in 1..n : m + i = m + j => i = j
           /\ \A i \in 1..m, j \in 1..n : i # m + j
  <1> DEFINE S == Range(s) \cup Range(t)
             m == Len(s)
             n == Len(t)
             u == s \o t
  <1>1. s \in Seq(S) /\ t \in Seq(S)
    BY DEF IsSequence, Range
  <1>2. /\ m \in Nat /\ n \in Nat
        /\ DOMAIN s = 1..m /\ DOMAIN t = 1..n /\ DOMAIN u = 1..(m + n)
        /\ \A i \in 1..m : i \in 1..(m + n) /\ u[i] = s[i]
        /\ \A i \in 1..n : m + i \in 1..(m + n) /\ u[m + i] = t[i]
    BY <1>1
  <1>3. \A i \in 1..(m + n) : i \in 1..m \/ \E j \in 1..n : i = m + j
    <2> TAKE i \in 1..(m + n)
    <2>1. i \in 1..m \/ (i - m \in 1..n /\ i = m + (i - m))
      BY <1>2
    <2> QED
      BY Zenon, <2>1
  <1>4. /\ \A i, j \in 1..n : m + i = m + j => i = j
        /\ \A i \in 1..m, j \in 1..n : i # m + j
    BY <1>2
  <1> QED
    BY Zenon, <1>2, <1>3, <1>4

\* What a concatenation holds.
LEMMA Concat ==
    ASSUME NEW s, NEW t, IsSequence(s), IsSequence(t)
    PROVE  /\ IsSequence(s \o t)
           /\ Range(s \o t) = Range(s) \cup Range(t)
           /\ Distinct(s) /\ Distinct(t) /\ Range(s) \cap Range(t) = {} => Distinct(s \o t)
  <1> DEFINE S == Range(s) \cup Range(t)
             u == s \o t
             m == Len(s)
             n == Len(t)
  <1>1. /\ DOMAIN s = 1..m /\ DOMAIN t = 1..n /\ DOMAIN u = 1..(m + n)
        /\ \A i \in 1..m : i \in 1..(m + n) /\ u[i] = s[i]
        /\ \A i \in 1..n : m + i \in 1..(m + n) /\ u[m + i] = t[i]
        /\ \A i \in 1..(m + n) : i \in 1..m \/ \E j \in 1..n : i = m + j
    BY Positions
  <1> HIDE DEF m, n, u
  <1>2. Range(u) = S
    <2>1. ASSUME NEW x \in Range(u) PROVE x \in S
      <3>1. PICK i \in 1..(m + n) : x = u[i]
        BY Zenon, <1>1 DEF Range
      <3>2. CASE i \in 1..m
        BY Zenon, <1>1, <3>1, <3>2 DEF Range
      <3>3. CASE \E j \in 1..n : i = m + j
        BY Zenon, <1>1, <3>1, <3>3 DEF Range
      <3> QED
        BY Zenon, <1>1, <3>2, <3>3
    <2>2. ASSUME NEW x \in S PROVE x \in Range(u)
      <3>1. CASE x \in Range(s)
        BY Zenon, <1>1, <3>1 DEF Range
      <3>2. CASE x \in Range(t)
        BY Zenon, <1>1, <3>2 DEF Range
      <3> QED
        BY Zenon, <3>1, <3>2
    <2> HIDE DEF S
    <2> QED
      BY Zenon, <2>1, <2>2
  <1>3. IsSequence(u)
    <2>1. s \in Seq(S) /\ t \in Seq(S)
      BY DEF IsSequence, Range
    <2>2. u \in Seq(S)
      BY <2>1 DEF u
    <2> QED
      BY Zenon, <1>2, <2>2 DEF Range, IsSequence
  <1>4. ASSUME Distinct(s), Distinct(t), Range(s) \cap Range(t) = {} PROVE Distinct(u)
    <2> SUFFICES ASSUME NEW i \in 1..(m + n), NEW j \in 1..(m + n), u[i] = u[j] PROVE i = j
      BY Zenon, <1>1 DEF Distinct
    <2>1. \A a \in 1..m, b \in 1..n : s[a] # t[b]
      <3>1. (\A a \in 1..m : s[a] \in Range(s)) /\ (\A b \in 1..n : t[b] \in Range(t))
        BY Zenon, <1>1 DEF Range
      <3> QED
        BY Zenon, <1>4, <3>1
    <2>2. CASE i \in 1..m /\ j \in 1..m
      BY Zenon, <1>1, <1>4, <2>2 DEF Distinct
    <2>3. CASE (\E a \in 1..n : i = m + a) /\ (\E b \in 1..n : j = m + b)
      <3>1. PICK a \in 1..n, b \in 1..n : i = m + a /\ j = m + b
        BY Zenon, <2>3
      <3>2. t[a] = t[b]
        BY Zenon, <1>1, <3>1
      <3> QED
        BY Zenon, <1>1, <1>4, <3>1, <3>2 DEF Distinct
    <2>4. CASE i \in 1..m /\ \E b \in 1..n : j = m + b
      <3>1. PICK b \in 1..n : j = m + b
        BY Zenon, <2>4
      <3>2. s[i] = t[b]
        BY Zenon, <1>1, <2>4, <3>1
      <3> QED
        BY Zenon, <2>1, <2>4, <3>2
    <2>5. CASE j \in 1..m /\ \E b \in 1..n : i = m + b
      <3>1. PICK b \in 1..n : i = m + b
        BY Zenon, <2>5
      <3>2. s[j] = t[b]
        BY Zenon, <1>1, <2>5, <3>1
      <3> QED
        BY Zenon, <2>1, <2>5, <3>2
    <2> QED
      BY Zenon, <1>1, <2>2, <2>3, <2>4, <2>5
  <1> QED
    BY Zenon, <1>2, <1>3, <1>4 DEF u

\* The parts of a concatenation without repetition.
LEMMA Parted ==
    ASSUME NEW s, NEW t, IsSequence(s), IsSequence(t), Distinct(s \o t)
    PROVE  Distinct(s) /\ Distinct(t) /\ Range(s) \cap Range(t) = {}
  <1> DEFINE u == s \o t
             m == Len(s)
             n == Len(t)
  <1>1. /\ DOMAIN s = 1..m /\ DOMAIN t = 1..n /\ DOMAIN u = 1..(m + n)
        /\ \A i \in 1..m : i \in 1..(m + n) /\ u[i] = s[i]
        /\ \A i \in 1..n : m + i \in 1..(m + n) /\ u[m + i] = t[i]
        /\ \A i, j \in 1..n : m + i = m + j => i = j
        /\ \A i \in 1..m, j \in 1..n : i # m + j
    BY Positions
  <1> HIDE DEF m, n, u
  <1>2. \A i, j \in 1..(m + n) : u[i] = u[j] => i = j
    BY Zenon, <1>1 DEF Distinct, u
  <1>3. Distinct(s)
    BY Zenon, <1>1, <1>2 DEF Distinct
  <1>4. Distinct(t)
    <2> SUFFICES ASSUME NEW i \in 1..n, NEW j \in 1..n, t[i] = t[j] PROVE i = j
      BY Zenon, <1>1 DEF Distinct
    <2>1. m + i \in 1..(m + n) /\ m + j \in 1..(m + n) /\ u[m + i] = u[m + j]
      BY Zenon, <1>1
    <2>2. m + i = m + j
      BY Zenon, <1>2, <2>1
    <2> QED
      BY Zenon, <1>1, <2>2
  <1>5. ASSUME NEW x \in Range(s), x \in Range(t) PROVE FALSE
    <2>1. (\E a \in 1..m : x = s[a]) /\ (\E b \in 1..n : x = t[b])
      BY Zenon, <1>1, <1>5 DEF Range
    <2> PICK a \in 1..m, b \in 1..n : x = s[a] /\ x = t[b]
      BY Zenon, <2>1
    <2>2. u[a] = u[m + b]
      BY Zenon, <1>1, <2>1
    <2> QED
      BY Zenon, <1>1, <1>2, <2>2
  <1> QED
    BY Zenon, <1>3, <1>4, <1>5

\* Induction over the natural numbers, from the least counterexample.
LEMMA Induct ==
    ASSUME NEW S, 0 \in S, \A n \in Nat : n \in S => n + 1 \in S
    PROVE  Nat \subseteq S
  <1> DEFINE R == OpToRel(<, Nat)
             T == Nat \ S
  <1> SUFFICES ASSUME T # {} PROVE FALSE
    BY Zenon
  <1>1. \E x \in T : \A y \in T : ~(<<y, x>> \in R)
    BY WFMin, NatLessThanWellFounded
  <1>2. \A x, y \in Nat : y < x => <<y, x>> \in R
    BY DEF OpToRel
  <1> HIDE DEF R
  <1>3. PICK x \in T : \A y \in T : ~(y < x)
    BY Zenon, <1>1, <1>2
  <1>4. x # 0 /\ x - 1 \in Nat /\ x - 1 < x /\ (x - 1) + 1 = x
    BY <1>3
  <1> QED
    BY Zenon, <1>3, <1>4

\* A sequence of sequences, appended, has what is in them, and nothing
\* twice when they are distinct and apart.
LEMMA AppendedFound ==
    ASSUME NEW ss, IsSequence(ss), \A i \in DOMAIN ss : IsSequence(ss[i])
    PROVE  /\ IsSequence(Appended(ss))
           /\ \A x : x \in Range(Appended(ss)) <=> \E i \in DOMAIN ss : x \in Range(ss[i])
           /\ Distinct(Appended(ss)) <=>
                /\ \A i \in DOMAIN ss : Distinct(ss[i])
                /\ \A i, j \in DOMAIN ss : i # j => Range(ss[i]) \cap Range(ss[j]) = {}
  <1> DEFINE n == Len(ss)
             Flat(k, f) == f = [i \in 0..k |-> IF i = 0 THEN <<>> ELSE f[i - 1] \o ss[i]]
  <1>1. n \in Nat /\ DOMAIN ss = 1..n
    BY DEF IsSequence
  <1> DEFINE E == {k \in Nat : \E f : Flat(k, f)}
  <1>2. 0 \in E
    <2>1. Flat(0, [i \in 0..0 |-> <<>>])
      <3>1. \A i \in 0..0 : i = 0
        OBVIOUS
      <3> QED
        BY Zenon, <3>1
    <2> QED
      BY Zenon, <2>1
  <1>3. ASSUME NEW k \in Nat, k \in E PROVE k + 1 \in E
    <2>1. PICK g : Flat(k, g)
      BY Zenon, <1>3
    <2>2. \A i \in 0..k : g[i] = IF i = 0 THEN <<>> ELSE g[i - 1] \o ss[i]
      BY Zenon, <2>1
    <2> DEFINE h == [i \in 0..(k + 1) |-> IF i <= k THEN g[i] ELSE g[k] \o ss[i]]
    <2>3. ASSUME NEW i \in 0..(k + 1)
          PROVE  h[i] = IF i = 0 THEN <<>> ELSE h[i - 1] \o ss[i]
      <3>1. CASE i <= k
        <4>1. i \in 0..k /\ (i # 0 => i - 1 \in 0..(k + 1) /\ i - 1 <= k)
          BY <3>1
        <4>2. h[i] = g[i] /\ (i # 0 => h[i - 1] = g[i - 1])
          BY Zenon, <3>1, <4>1
        <4>3. g[i] = IF i = 0 THEN <<>> ELSE g[i - 1] \o ss[i]
          BY Zenon, <2>2, <4>1
        <4> HIDE DEF h
        <4> QED
          BY Zenon, <4>2, <4>3
      <3>2. CASE i = k + 1
        <4>1. ~(i <= k) /\ i # 0 /\ i - 1 = k /\ k \in 0..(k + 1) /\ k <= k
          BY <3>2
        <4>2. h[i] = g[k] \o ss[i] /\ h[k] = g[k]
          BY Zenon, <4>1
        <4> HIDE DEF h
        <4> QED
          BY Zenon, <4>1, <4>2
      <3> QED
        BY <3>1, <3>2
    <2>4. Flat(k + 1, h)
      BY Zenon, <2>3
    <2>5. k + 1 \in Nat
      OBVIOUS
    <2> HIDE DEF Flat, h
    <2> QED
      BY Zenon, <2>4, <2>5
  <1> HIDE DEF E
  <1>4. n \in E
    BY Zenon, <1>1, <1>2, <1>3, Induct
  <1> DEFINE f == CHOOSE g : Flat(n, g)
  <1>5. Flat(n, f)
    BY Zenon, <1>4 DEF E
  <1>6. Appended(ss) = f[n]
    BY Zenon DEF Appended
  <1> HIDE DEF f
  <1>7. \A i \in 0..n : f[i] = IF i = 0 THEN <<>> ELSE f[i - 1] \o ss[i]
    BY Zenon, <1>5
  <1> HIDE DEF Flat
  <1> DEFINE Apart(k) == /\ \A i \in 1..k : Distinct(ss[i])
                         /\ \A i, j \in 1..k : i # j => Range(ss[i]) \cap Range(ss[j]) = {}
             Good(k) == /\ IsSequence(f[k])
                        /\ \A x : x \in Range(f[k]) <=> \E i \in 1..k : x \in Range(ss[i])
                        /\ Distinct(f[k]) <=> Apart(k)
             A == {k \in Nat : k <= n => Good(k)}
  <1>8. 0 \in A
    <2>1. 0 \in 0..n /\ 1..0 = {}
      BY <1>1
    <2>2. f[0] = <<>>
      BY Zenon, <1>7, <2>1
    <2>3. IsSequence(<<>>) /\ Distinct(<<>>) /\ Range(<<>>) = {}
      BY DEF IsSequence, Distinct, Range
    <2>4. Good(0)
      BY Zenon, <2>1, <2>2, <2>3
    <2> HIDE DEF Good
    <2> QED
      BY Zenon, <2>4
  <1>9. ASSUME NEW j \in Nat, j \in A PROVE j + 1 \in A
    <2> SUFFICES ASSUME j + 1 <= n PROVE Good(j + 1)
      <3> HIDE DEF Good
      <3> QED
        OBVIOUS
    <2>1. Good(j)
      <3> HIDE DEF Good
      <3> QED
        BY <1>1, <1>9
    <2>2. j + 1 \in 1..n /\ j + 1 \in 0..n /\ j + 1 # 0 /\ (j + 1) - 1 = j
      BY <1>1
    <2>3. /\ \A i \in 1..(j + 1) : i \in 1..j \/ i = j + 1
          /\ \A i \in 1..j : i \in 1..(j + 1) /\ i # j + 1
          /\ j + 1 \in 1..(j + 1)
      OBVIOUS
    <2>4. f[j + 1] = f[j] \o ss[j + 1] /\ IsSequence(ss[j + 1])
      BY Zenon, <1>1, <1>7, <2>2
    <2>5. /\ IsSequence(f[j + 1]) /\ Range(f[j + 1]) = Range(f[j]) \cup Range(ss[j + 1])
          /\ Distinct(f[j + 1]) <=>
               Distinct(f[j]) /\ Distinct(ss[j + 1]) /\ Range(f[j]) \cap Range(ss[j + 1]) = {}
      <3> DEFINE s == f[j]
                 t == ss[j + 1]
      <3>1. IsSequence(s) /\ IsSequence(t) /\ f[j + 1] = s \o t
        BY Zenon, <2>1, <2>4
      <3> HIDE DEF s, t
      <3>2. /\ IsSequence(s \o t) /\ Range(s \o t) = Range(s) \cup Range(t)
            /\ Distinct(s) /\ Distinct(t) /\ Range(s) \cap Range(t) = {} => Distinct(s \o t)
        BY Zenon, <3>1, Concat
      <3>3. Distinct(s \o t) => Distinct(s) /\ Distinct(t) /\ Range(s) \cap Range(t) = {}
        BY Zenon, <3>1, Parted
      <3> QED
        BY Zenon, <3>1, <3>2, <3>3 DEF s, t
    <2>6. \A x : x \in Range(f[j + 1]) <=> \E i \in 1..(j + 1) : x \in Range(ss[i])
      BY Zenon, <2>1, <2>3, <2>5
    <2>7. ASSUME Apart(j + 1) PROVE Distinct(f[j + 1])
      <3>1. Apart(j)
        BY Zenon, <2>3, <2>7
      <3>2. Range(f[j]) \cap Range(ss[j + 1]) = {}
        <4> SUFFICES ASSUME NEW x \in Range(f[j]), x \in Range(ss[j + 1]) PROVE FALSE
          BY Zenon
        <4>1. PICK i \in 1..j : x \in Range(ss[i])
          BY Zenon, <2>1
        <4> QED
          BY Zenon, <2>3, <2>7, <4>1
      <3>3. Distinct(f[j]) /\ Distinct(ss[j + 1])
        BY Zenon, <2>1, <2>3, <2>7, <3>1
      <3> QED
        BY Zenon, <2>5, <3>2, <3>3
    <2>8. ASSUME Distinct(f[j + 1]) PROVE Apart(j + 1)
      <3>1. Apart(j) /\ Distinct(ss[j + 1]) /\ Range(f[j]) \cap Range(ss[j + 1]) = {}
        BY Zenon, <2>1, <2>5, <2>8
      <3>2. \A i \in 1..j : Range(ss[i]) \cap Range(ss[j + 1]) = {}
        BY Zenon, <2>1, <3>1
      <3> QED
        BY Zenon, <2>3, <3>1, <3>2
    <2>9. Good(j + 1)
      BY Zenon, <2>5, <2>6, <2>7, <2>8
    <2> QED
      BY Zenon, <2>9
  <1> HIDE DEF A, Good, Apart
  <1>10. Nat \subseteq A
    BY Zenon, <1>8, <1>9, Induct
  <1>11. n <= n
    BY <1>1
  <1>12. Good(n)
    BY Zenon, <1>1, <1>10, <1>11 DEF A
  <1> QED
    BY Zenon, <1>1, <1>6, <1>12 DEF Good, Apart

\* What a relationship says.
LEMMA RelationFields ==
    ASSUME NEW a, NEW t, NEW b
    PROVE  /\ Relation(a, t, b).from = a /\ Relation(a, t, b).to = b
           /\ Relation(a, t, b).type = t
  BY DEF Relation

\* A function on the positions of a sequence is one.
LEMMA SamePositions ==
    ASSUME NEW s, IsSequence(s), NEW f, f = [i \in DOMAIN s |-> f[i]]
    PROVE  IsSequence(f) /\ DOMAIN f = DOMAIN s
  <1>1. DOMAIN s = 1..Len(s) /\ Len(s) \in Nat
    BY DEF IsSequence
  <1>2. f \in [1..Len(s) -> {f[i] : i \in DOMAIN f}]
    BY Zenon, <1>1
  <1> QED
    BY <1>1, <1>2 DEF IsSequence

\* Relationships to several targets.
LEMMA ToAll ==
    ASSUME NEW o, NEW type, NEW targets, IsSequence(targets)
    PROVE  /\ IsSequence(To(o, type, targets))
           /\ \A x : x \in Range(To(o, type, targets)) <=> \E p \in Range(targets) : x = Relation(o, type, p)
           /\ Distinct(To(o, type, targets)) <=> Distinct(targets)
  <1> DEFINE f == To(o, type, targets)
  <1>1. f = [i \in DOMAIN targets |-> f[i]] /\ \A i \in DOMAIN targets : f[i] = Relation(o, type, targets[i])
    BY Zenon DEF To
  <1> HIDE DEF f
  <1>2. IsSequence(f) /\ DOMAIN f = DOMAIN targets
    BY Zenon, <1>1, SamePositions
  <1>3. \A x : x \in Range(f) <=> \E p \in Range(targets) : x = Relation(o, type, p)
    BY Zenon, <1>1, <1>2 DEF Range
  <1>4. Distinct(f) <=> Distinct(targets)
    <2>1. \A i, j \in DOMAIN targets : f[i] = f[j] <=> targets[i] = targets[j]
      <3> TAKE i \in DOMAIN targets, j \in DOMAIN targets
      <3>1. f[i] = Relation(o, type, targets[i]) /\ f[j] = Relation(o, type, targets[j])
        BY Zenon, <1>1
      <3>2. /\ Relation(o, type, targets[i]).to = targets[i]
            /\ Relation(o, type, targets[j]).to = targets[j]
        BY RelationFields
      <3> QED
        BY Zenon, <3>1, <3>2
    <2> QED
      BY Zenon, <1>2, <2>1 DEF Distinct
  <1> QED
    BY Zenon, <1>2, <1>3, <1>4 DEF f

-----------------------------------------------------------------------------
\* No two objects of a set have the same name.
Unique(set) == \A p, q \in set : Names(p) = Names(q) => p = q

\* Where discovery stands: items holds objects of the kinds listed so far,
\* and what a list has delivered and will deliver is of the kind it is for.
PlacesInv ==
    /\ exists \subseteq Objects /\ throughout \subseteq exists
    /\ place \in 1..(Len(Kinds) + 1) /\ page \in Nat
    /\ IsSequence(items) /\ IsSequence(listed)
    /\ Reported \subseteq Objects /\ Range(listed) \cup rest \subseteq Objects
    /\ \A o \in Reported : \E i \in 1..(place - 1) : KindOf[o] = Kinds[i]
    /\ \A o \in Range(listed) \cup rest : KindOf[o] = Kinds[place]
    /\ page = 0 => listed = <<>> /\ rest = {}
    /\ outcome = "ok" => place = Len(Kinds) + 1

\* Nothing is delivered twice, and no two objects under one name.
OnceInv ==
    /\ Unique(exists) /\ Unique(Reported) /\ Unique(Range(listed) \cup rest)
    /\ Distinct(items) /\ Distinct(listed) /\ Range(listed) \cap rest = {}

\* What was there all along is in the items, or in the list, once its kind
\* was asked for.
CompleteInv ==
    \A o \in throughout :
        /\ \A i \in 1..(place - 1) : KindOf[o] = Kinds[i] => o \in Reported
        /\ page # 0 /\ KindOf[o] = Kinds[place] => o \in Range(listed) \cup rest

\* The inductive invariant.
KubernetesInv == PlacesInv /\ OnceInv /\ CompleteInv

\* The kinds come in some order.
LEMMA KindsListed == Len(Kinds) \in Nat /\ DOMAIN Kinds = 1..Len(Kinds)
  <1>1. IsSequence(Kinds)
    BY Zenon, KubernetesAssumption
  <1> QED
    BY <1>1 DEF IsSequence

\* No kind comes twice.
LEMMA KindsDiffer == \A i, j \in DOMAIN Kinds : Kinds[i] = Kinds[j] => i = j
  <1>1. Distinct(Kinds)
    BY Zenon, KubernetesAssumption
  <1> QED
    BY Zenon, <1>1 DEF Distinct

\* Nothing is in the empty sequence.
LEMMA EmptyRange == IsSequence(<<>>) /\ Range(<<>>) = {} /\ Distinct(<<>>)
  BY DEF IsSequence, Range, Distinct

\* Nothing has been listed.
LEMMA KubernetesStart == Init => KubernetesInv
  <1> SUFFICES ASSUME Init PROVE KubernetesInv
    OBVIOUS
  <1>1. Len(Kinds) \in Nat
    BY Zenon, KindsListed
  <1>2. 1 \in 1..(Len(Kinds) + 1) /\ 0 \in Nat /\ 1..(1 - 1) = {}
    BY <1>1
  <1>3. Reported = {}
    BY Zenon, EmptyRange DEF Init, Reported, Range
  <1>4. PlacesInv
    BY Zenon, <1>2, <1>3, EmptyRange, KubernetesAssumption DEF Init, PlacesInv
  <1>5. OnceInv
    BY Zenon, <1>3, EmptyRange, KubernetesAssumption DEF Init, OnceInv, Unique
  <1>6. CompleteInv
    BY Zenon, <1>2 DEF Init, CompleteInv
  <1> QED
    BY Zenon, <1>4, <1>5, <1>6 DEF KubernetesInv

\* What a list has delivered and is still to deliver.
LEMMA Delivering ==
    ASSUME KubernetesInv, Listing
    PROVE  /\ place \in 1..Len(Kinds)
           /\ Remaining \subseteq Objects /\ Range(listed) \cap Remaining = {}
           /\ Unique(Range(listed) \cup Remaining)
           /\ \A o \in Range(listed) \cup Remaining : KindOf[o] = Kinds[place]
           /\ \A o \in throughout : KindOf[o] = Kinds[place] => o \in Range(listed) \cup Remaining
  <1>1. place \in 1..Len(Kinds)
    <2>1. Len(Kinds) \in Nat
      BY Zenon, KindsListed
    <2> QED
      BY <2>1 DEF KubernetesInv, PlacesInv, Listing
  <1>2. CASE page = 0
    <2>1. Remaining = OfKind(exists, Kinds[place])
      BY Zenon, <1>2 DEF Remaining
    <2>2. Range(listed) = {}
      BY Zenon, <1>2, EmptyRange DEF KubernetesInv, PlacesInv
    <2>3. Remaining \subseteq exists
      BY Zenon, <2>1 DEF OfKind
    <2>4. Unique(Remaining)
      BY Zenon, <2>3 DEF KubernetesInv, OnceInv, Unique
    <2>5. Range(listed) \cup Remaining = Remaining
      BY Zenon, <2>2
    <2>6. \A o \in throughout : KindOf[o] = Kinds[place] => o \in Remaining
      BY Zenon, <2>1 DEF KubernetesInv, PlacesInv, OfKind
    <2>7. \A o \in Remaining : KindOf[o] = Kinds[place]
      BY Zenon, <2>1 DEF OfKind
    <2>8. Remaining \subseteq Objects
      BY Zenon, <2>3 DEF KubernetesInv, PlacesInv
    <2> QED
      BY Zenon, <1>1, <2>2, <2>4, <2>5, <2>6, <2>7, <2>8
  <1>3. CASE page # 0
    <2>1. Remaining = rest
      BY Zenon, <1>3 DEF Remaining
    <2> QED
      BY Zenon, <1>1, <1>3, <2>1 DEF KubernetesInv, PlacesInv, OnceInv, CompleteInv
  <1> QED
    BY Zenon, <1>2, <1>3

\* An object is created or deleted between two pages.
LEMMA ChangeKeeps ==
    ASSUME KubernetesInv, NEW o \in Objects, Change(o)
    PROVE  KubernetesInv'
  <1>1. /\ UNCHANGED <<place, page, rest, listed, items, outcome>>
        /\ Unique(exists') /\ throughout' = throughout \ {o}
        /\ exists' = IF o \in exists THEN exists \ {o} ELSE exists \cup {o}
    BY Zenon DEF Change, Unique
  <1>2. Reported' = Reported
    BY Zenon, <1>1 DEF Reported
  <1>3. exists' \subseteq Objects /\ throughout' \subseteq exists'
    <2>1. exists \subseteq Objects /\ throughout \subseteq exists
      BY Zenon DEF KubernetesInv, PlacesInv
    <2> QED
      BY <1>1, <2>1
  <1>4. PlacesInv'
    BY Zenon, <1>1, <1>2, <1>3 DEF KubernetesInv, PlacesInv
  <1>5. OnceInv'
    <2>1. Unique(Reported') /\ Unique(Range(listed) \cup rest)
      BY Zenon, <1>2 DEF KubernetesInv, OnceInv
    <2> QED
      BY Zenon, <1>1, <1>2, <2>1 DEF KubernetesInv, OnceInv, Unique
  <1>6. CompleteInv'
    BY Zenon, <1>1, <1>2 DEF KubernetesInv, CompleteInv
  <1> QED
    BY Zenon, <1>4, <1>5, <1>6 DEF KubernetesInv

\* A page that is not the last goes to the items of the list.
LEMMA NextPageKeeps ==
    ASSUME KubernetesInv, NEW got \in SUBSET Remaining, NextPage(got)
    PROVE  KubernetesInv'
  <1>1. Listing
    BY Zenon DEF NextPage
  <1>2. IsFiniteSet(got)
    BY <1>1, Delivering, FS_Subset, KubernetesAssumption
  <1>3. /\ UNCHANGED <<exists, throughout, place, items, outcome>>
        /\ page' = page + 1 /\ rest' = Remaining \ got /\ listed' = listed \o InSomeOrder(got)
    BY Zenon DEF NextPage, cluster
  <1>4. page' \in Nat /\ page' # 0
    BY <1>3 DEF KubernetesInv, PlacesInv
  <1>5. /\ IsSequence(listed') /\ Range(listed') = Range(listed) \cup got
        /\ Distinct(listed')
    <2>1. IsSequence(listed) /\ Distinct(listed)
      BY Zenon DEF KubernetesInv, PlacesInv, OnceInv
    <2>2. IsSequence(InSomeOrder(got)) /\ Range(InSomeOrder(got)) = got /\ Distinct(InSomeOrder(got))
      BY Zenon, <1>2, OrderFound
    <2>3. Range(listed) \cap got = {}
      BY Zenon, <1>1, Delivering
    <2> QED
      BY Zenon, <1>3, <2>1, <2>2, <2>3, Concat
  <1>6. Range(listed') \cup rest' = Range(listed) \cup Remaining
    BY <1>3, <1>5
  <1>7. Range(listed') \cap rest' = {}
    BY <1>1, <1>3, <1>5, Delivering
  <1>8. Reported' = Reported
    BY Zenon, <1>3 DEF Reported
  <1>9. PlacesInv'
    <2>1. Range(listed') \cup rest' \subseteq Objects
      BY Zenon, <1>1, <1>6, Delivering DEF KubernetesInv, PlacesInv
    <2>2. \A o \in Range(listed') \cup rest' : KindOf[o] = Kinds[place']
      BY Zenon, <1>1, <1>3, <1>6, Delivering
    <2>3. \A o \in Reported' : \E i \in 1..(place' - 1) : KindOf[o] = Kinds[i]
      BY Zenon, <1>3, <1>8 DEF KubernetesInv, PlacesInv
    <2> QED
      BY Zenon, <1>3, <1>4, <1>5, <1>8, <2>1, <2>2, <2>3 DEF KubernetesInv, PlacesInv
  <1>10. OnceInv'
    <2>1. Unique(Range(listed') \cup rest')
      BY Zenon, <1>1, <1>6, Delivering
    <2>2. Unique(exists') /\ Unique(Reported') /\ Distinct(items')
      BY Zenon, <1>3, <1>8 DEF KubernetesInv, OnceInv
    <2> QED
      BY Zenon, <1>5, <1>7, <2>1, <2>2 DEF OnceInv, Unique
  <1>11. CompleteInv'
    BY Zenon, <1>1, <1>3, <1>6, <1>8, Delivering DEF KubernetesInv, CompleteInv
  <1> QED
    BY Zenon, <1>9, <1>10, <1>11 DEF KubernetesInv

\* The last page ends a list, whose items join those reported.
LEMMA LastPageKeeps ==
    ASSUME KubernetesInv, LastPage
    PROVE  KubernetesInv'
  <1> DEFINE more == Range(listed) \cup Remaining
  <1>1. Listing
    BY Zenon DEF LastPage
  <1>2. IsFiniteSet(Remaining)
    BY <1>1, Delivering, FS_Subset, KubernetesAssumption
  <1>3. /\ UNCHANGED <<exists, throughout, outcome>>
        /\ items' = (items \o listed) \o InSomeOrder(Remaining)
        /\ place' = place + 1 /\ page' = 0 /\ rest' = {} /\ listed' = <<>>
    BY Zenon DEF LastPage, cluster
  <1>4. /\ place \in 1..Len(Kinds) /\ place' \in 1..(Len(Kinds) + 1)
        /\ \A i \in 1..(place' - 1) : i \in 1..(place - 1) \/ i = place
        /\ place \in 1..(place' - 1) /\ 1..(place - 1) \subseteq 1..(place' - 1)
        /\ \A i \in 1..(place - 1) : i \in DOMAIN Kinds /\ place \in DOMAIN Kinds /\ i # place
    BY <1>1, <1>3, Delivering, KindsListed
  <1>5. Reported \cap more = {}
    <2>1. ASSUME NEW o \in Reported, o \in more PROVE FALSE
      <3>1. PICK i \in 1..(place - 1) : KindOf[o] = Kinds[i]
        BY Zenon DEF KubernetesInv, PlacesInv
      <3>2. Kinds[i] = Kinds[place]
        BY Zenon, <1>1, <2>1, <3>1, Delivering
      <3> QED
        BY Zenon, <1>4, <3>2, KindsDiffer
    <2> QED
      BY Zenon, <2>1
  <1>6. IsSequence(items') /\ Reported' = Reported \cup more /\ Distinct(items')
    <2>1. /\ IsSequence(items) /\ Distinct(items) /\ IsSequence(listed) /\ Distinct(listed)
          /\ Range(items) = Reported
      BY Zenon DEF KubernetesInv, PlacesInv, OnceInv, Range, Reported
    <2>2. /\ IsSequence(items \o listed) /\ Range(items \o listed) = Reported \cup Range(listed)
          /\ Distinct(items \o listed)
      BY Zenon, <1>5, <2>1, Concat
    <2>3. /\ IsSequence(InSomeOrder(Remaining)) /\ Range(InSomeOrder(Remaining)) = Remaining
          /\ Distinct(InSomeOrder(Remaining))
      BY Zenon, <1>2, OrderFound
    <2>4. (Reported \cup Range(listed)) \cap Remaining = {}
      BY Zenon, <1>1, <1>5, Delivering
    <2>5. /\ IsSequence(items') /\ Distinct(items')
          /\ Range(items') = (Reported \cup Range(listed)) \cup Remaining
      <3> DEFINE s == items \o listed
                 t == InSomeOrder(Remaining)
                 u == s \o t
      <3>1. Range(s) \cap Range(t) = {}
        BY Zenon, <2>2, <2>3, <2>4
      <3> HIDE DEF s, t
      <3>2. IsSequence(u) /\ Distinct(u) /\ Range(u) = Range(s) \cup Range(t)
        BY Zenon, <2>2, <2>3, <3>1, Concat DEF s, t
      <3>3. items' = u
        BY Zenon, <1>3 DEF s, t
      <3> HIDE DEF u
      <3> QED
        BY Zenon, <2>2, <2>3, <3>2, <3>3 DEF s, t
    <2> QED
      BY Zenon, <2>5 DEF Range, Reported
  <1>7. PlacesInv'
    <2>1. Reported' \subseteq Objects
      BY Zenon, <1>1, <1>6, Delivering DEF KubernetesInv, PlacesInv
    <2>2. ASSUME NEW o \in Reported' PROVE \E i \in 1..(place' - 1) : KindOf[o] = Kinds[i]
      <3>1. CASE o \in Reported
        BY Zenon, <1>4, <3>1 DEF KubernetesInv, PlacesInv
      <3>2. CASE o \in more
        BY Zenon, <1>1, <1>4, <3>2, Delivering
      <3> QED
        BY Zenon, <1>6, <3>1, <3>2
    <2>3. 0 \in Nat /\ outcome # "ok"
      BY <1>1 DEF Listing
    <2> QED
      BY Zenon, <1>3, <1>4, <1>6, <2>1, <2>2, <2>3, EmptyRange DEF KubernetesInv, PlacesInv
  <1>8. OnceInv'
    <2>1. Unique(Reported')
      <3> SUFFICES ASSUME NEW p \in Reported', NEW q \in Reported', Names(p) = Names(q) PROVE p = q
        BY Zenon DEF Unique
      <3>1. KindOf[p] = KindOf[q]
        BY DEF Names
      <3>2. \A o \in more : KindOf[o] = Kinds[place]
        BY Zenon, <1>1, Delivering
      <3>3. ASSUME NEW o \in Reported PROVE KindOf[o] # Kinds[place]
        <4>1. PICK i \in 1..(place - 1) : KindOf[o] = Kinds[i]
          BY Zenon DEF KubernetesInv, PlacesInv
        <4> QED
          BY Zenon, <1>4, <4>1, KindsDiffer
      <3>4. (p \in Reported /\ q \in Reported) \/ (p \in more /\ q \in more)
        BY Zenon, <1>6, <3>1, <3>2, <3>3
      <3>5. Unique(Reported) /\ Unique(more)
        BY Zenon, <1>1, Delivering DEF KubernetesInv, OnceInv
      <3> QED
        BY Zenon, <3>4, <3>5 DEF Unique
    <2>2. Unique(exists') /\ Unique(Range(listed') \cup rest')
      BY Zenon, <1>3, EmptyRange DEF KubernetesInv, OnceInv, Unique
    <2>3. Distinct(listed') /\ Range(listed') \cap rest' = {}
      BY Zenon, <1>3, EmptyRange
    <2> QED
      BY Zenon, <1>6, <2>1, <2>2, <2>3 DEF OnceInv, Unique
  <1>9. CompleteInv'
    <2> SUFFICES ASSUME NEW o \in throughout, NEW i \in 1..(place' - 1), KindOf[o] = Kinds[i]
                 PROVE  o \in Reported'
      BY Zenon, <1>3 DEF CompleteInv
    <2>1. CASE i = place
      BY Zenon, <1>1, <1>6, <2>1, Delivering
    <2>2. CASE i \in 1..(place - 1)
      BY Zenon, <1>6, <2>2 DEF KubernetesInv, CompleteInv
    <2> QED
      BY Zenon, <1>4, <2>1, <2>2
  <1> QED
    BY Zenon, <1>7, <1>8, <1>9 DEF KubernetesInv

\* All steps.
LEMMA KubernetesStep ==
    ASSUME KubernetesInv, [Next]_vars
    PROVE  KubernetesInv'
  <1>1. ASSUME UNCHANGED <<exists, throughout, place, page, rest, listed, items>>,
               outcome' = "ok" => place = Len(Kinds) + 1
        PROVE  KubernetesInv'
    <2>1. Reported' = Reported
      BY Zenon, <1>1 DEF Reported
    <2> QED
      BY Zenon, <1>1, <2>1 DEF KubernetesInv, PlacesInv, OnceInv, CompleteInv, Unique
  <1>2. CASE Fail
    BY Zenon, <1>1, <1>2 DEF Fail, cluster
  <1>3. CASE Derive
    <2>1. place = Len(Kinds) + 1
      BY <1>3, KindsListed DEF Derive, KubernetesInv, PlacesInv
    <2> QED
      BY Zenon, <1>1, <1>3, <2>1 DEF Derive, cluster
  <1>4. CASE UNCHANGED vars
    BY Zenon, <1>1, <1>4 DEF vars, cluster, KubernetesInv, PlacesInv
  <1> QED
    BY Zenon, <1>2, <1>3, <1>4, ChangeKeeps, NextPageKeeps, LastPageKeeps DEF Next

\* When the lists of all kinds have ended, all that was there throughout is
\* in them.
LEMMA AllReported ==
    ASSUME KubernetesInv, outcome = "ok"
    PROVE  throughout \subseteq Reported
  <1> SUFFICES ASSUME NEW o \in throughout PROVE o \in Reported
    OBVIOUS
  <1>1. PICK i \in DOMAIN Kinds : KindOf[o] = Kinds[i]
    BY Zenon, KubernetesAssumption DEF KubernetesInv, PlacesInv
  <1>2. place = Len(Kinds) + 1
    BY Zenon DEF KubernetesInv, PlacesInv
  <1>3. i \in 1..(place - 1)
    BY <1>2, KindsListed
  <1> QED
    BY Zenon, <1>1, <1>3 DEF KubernetesInv, CompleteInv

-----------------------------------------------------------------------------
\* The containers that are listed, each once.
ListingInv ==
    /\ IsSequence(listing)
    /\ \A i \in DOMAIN listing :
        listing[i].id \in Containers /\ listing[i] \in Records(listing[i].id)
    /\ \A i, j \in DOMAIN listing : listing[i].id = listing[j].id => i = j

\* The inductive invariant of both discoveries.
DiscoveryInv == KubernetesInv /\ ListingInv

\* Docker lists any of the containers, in any order.
LEMMA ListingStart == DockerInit => ListingInv
  <1> SUFFICES ASSUME DockerInit PROVE ListingInv
    OBVIOUS
  <1>1. PICK ids \in SUBSET Containers :
            /\ listing \in [1..Cardinality(ids) -> UNION {Records(c) : c \in ids}]
            /\ {listing[i].id : i \in DOMAIN listing} = ids
    BY Zenon DEF DockerInit
  <1> DEFINE n == Cardinality(ids)
             f == [i \in 1..n |-> listing[i].id]
  <1>2. IsFiniteSet(ids) /\ n \in Nat
    BY FS_Subset, FS_CardinalityType, DockerAssumption
  <1>3. IsFiniteSet(1..n) /\ Cardinality(1..n) = n
    BY <1>2, FS_Interval
  <1>4. DOMAIN listing = 1..n
    BY Zenon, <1>1
  <1>5. f \in Surjection(1..n, ids)
    BY Zenon, <1>1, <1>4 DEF Surjection
  <1>6. f \in Injection(1..n, ids)
    BY Zenon, <1>3, <1>5, FS_Surjection
  <1>7. IsSequence(listing)
    <2>1. listing \in Seq(UNION {Records(c) : c \in ids})
      BY <1>1, <1>2
    <2> QED
      BY <2>1 DEF IsSequence
  <1>8. ASSUME NEW i \in 1..n PROVE listing[i].id \in Containers /\ listing[i] \in Records(listing[i].id)
    <2>0. listing[i] \in UNION {Records(c) : c \in ids}
      BY <1>1
    <2>1. PICK c \in ids : listing[i] \in Records(c)
      BY <2>0
    <2>2. listing[i].id = c
      BY <2>1 DEF Records
    <2> QED
      BY Zenon, <2>1, <2>2
  <1>9. \A i, j \in 1..n : listing[i].id = listing[j].id => i = j
    BY Zenon, <1>6 DEF Injection, IsInjective
  <1> HIDE DEF n, f
  <1> QED
    BY Zenon, <1>4, <1>7, <1>8, <1>9 DEF ListingInv

(* For any cluster and any changes of it: lists hold what they are for,    *)
(* nothing is listed twice, and what has been there throughout is listed   *)
(* or is still to come.  For any host: each container is listed once.      *)
THEOREM DiscoveryInvariant == DiscoverySpec => []DiscoveryInv
  <1>1. DiscoveryInit => DiscoveryInv
    <2> SUFFICES ASSUME DiscoveryInit PROVE DiscoveryInv
      OBVIOUS
    <2>1. KubernetesInv
      BY Zenon, KubernetesStart DEF DiscoveryInit
    <2>2. listing = <<>> => ListingInv
      BY EmptyRange DEF ListingInv
    <2>3. ListingInv
      BY Zenon, <2>2, ListingStart DEF DiscoveryInit
    <2> QED
      BY Zenon, <2>1, <2>3 DEF DiscoveryInv
  <1>2. DiscoveryInv /\ [DiscoveryNext]_everything => DiscoveryInv'
    <2> SUFFICES ASSUME DiscoveryInv, [DiscoveryNext]_everything PROVE DiscoveryInv'
      OBVIOUS
    <2>1. [Next]_vars /\ UNCHANGED listing
      BY Zenon DEF DiscoveryNext, everything, kubernetes, docker, Unsupported, ListContainers, Next
    <2>2. KubernetesInv'
      BY Zenon, <2>1, KubernetesStep DEF DiscoveryInv
    <2>3. ListingInv'
      BY Zenon, <2>1 DEF DiscoveryInv, ListingInv
    <2> QED
      BY Zenon, <2>2, <2>3 DEF DiscoveryInv
  <1> QED
    BY <1>1, <1>2, PTL DEF DiscoverySpec

(* NothingIsLeftOut for any number of objects, pages and changes: a        *)
(* Discover that succeeds reports each object that was there throughout,   *)
(* and nothing twice.                                                      *)
THEOREM NothingLeftOut == DiscoverySpec => []NothingIsLeftOut
  <1>1. KubernetesInv => NothingIsLeftOut
    BY Zenon, AllReported DEF NothingIsLeftOut, KubernetesInv, OnceInv
  <1> QED
    BY <1>1, DiscoveryInvariant, PTL DEF DiscoveryInv

-----------------------------------------------------------------------------
\* What the maps of Discover hold.
LEMMA Mapped ==
    ASSUME KubernetesInv, NEW set \in SUBSET Reported
    PROVE  LET s == InSomeOrder(set) IN IsSequence(s) /\ Range(s) = set /\ Distinct(s)
  <1>1. IsFiniteSet(set)
    <2>1. set \subseteq Objects
      BY Zenon DEF KubernetesInv, PlacesInv
    <2> QED
      BY <2>1, FS_Subset, KubernetesAssumption
  <1> QED
    BY Zenon, <1>1, OrderFound

\* A map gives the reported objects of one name.
LEMMA Finds ==
    ASSUME KubernetesInv, NEW kind, NEW namespace, NEW name
    PROVE  /\ IsSequence(Find(kind, namespace, name)) /\ Distinct(Find(kind, namespace, name))
           /\ Range(Find(kind, namespace, name)) =
                {o \in Reported : Names(o) = <<kind, namespace, name>>}
  <1> DEFINE set == {o \in Reported : Names(o) = <<kind, namespace, name>>}
  <1>1. Find(kind, namespace, name) = InSomeOrder(set) /\ set \in SUBSET Reported
    BY Zenon DEF Find
  <1> HIDE DEF set
  <1>2. IsSequence(InSomeOrder(set)) /\ Distinct(InSomeOrder(set)) /\ Range(InSomeOrder(set)) = set
    BY Zenon, <1>1, Mapped
  <1> QED
    BY Zenon, <1>1, <1>2 DEF set

\* The maps find a reported object under its name.
LEMMA Found ==
    ASSUME KubernetesInv, NEW p \in Reported
    PROVE  Range(Find(KindOf[p], NamespaceOf[p], NameOf[p])) = {p}
  <1> DEFINE set == {o \in Reported : Names(o) = <<KindOf[p], NamespaceOf[p], NameOf[p]>>}
  <1>1. Range(Find(KindOf[p], NamespaceOf[p], NameOf[p])) = set
    BY Finds
  <1>2. set = {o \in Reported : Names(o) = Names(p)}
    BY Zenon DEF Names
  <1> HIDE DEF set
  <1>3. set = {p}
    BY Zenon, <1>2 DEF KubernetesInv, OnceInv, Unique
  <1> QED
    BY Zenon, <1>1, <1>3

\* Two names are the same part by part.
LEMMA NameParts ==
    ASSUME NEW p, NEW kind, NEW namespace, NEW name, Names(p) = <<kind, namespace, name>>
    PROVE  KindOf[p] = kind /\ NamespaceOf[p] = namespace /\ NameOf[p] = name
  BY DEF Names

\* The parts of RelationsOf.
OwnersPart(o) ==
    Appended([i \in DOMAIN OwnersOf[o] |-> To(o, "MANAGED_BY", Listed(OwnersOf[o][i]))])
LinksPart(o) ==
    Appended([i \in DOMAIN LinksOf[o] |-> To(o, LinksOf[o][i].type, Linked(o, LinksOf[o][i]))])
SelectsPart(o) == To(o, "ROUTES_TO", InSomeOrder(SelectsOf[o] \cap Reported))

\* The relationships to the owners that are reported.
LEMMA OwnersFound ==
    ASSUME KubernetesInv, NEW o \in Objects
    PROVE  /\ IsSequence(OwnersPart(o))
           /\ \A x : x \in Range(OwnersPart(o)) <=>
                \E i \in DOMAIN OwnersOf[o] :
                    OwnersOf[o][i] \in Reported /\ x = Relation(o, "MANAGED_BY", OwnersOf[o][i])
           /\ Distinct(OwnersPart(o)) <=> OwnersDiffer(o)
  <1> DEFINE owner == OwnersOf[o]
             each == [i \in DOMAIN owner |-> To(o, "MANAGED_BY", Listed(owner[i]))]
  <1>1. IsSequence(owner)
    BY Zenon, KubernetesAssumption
  <1>2. /\ each = [i \in DOMAIN owner |-> each[i]]
        /\ \A i \in DOMAIN owner : each[i] = To(o, "MANAGED_BY", Listed(owner[i]))
        /\ OwnersPart(o) = Appended(each)
    BY Zenon DEF OwnersPart
  <1> HIDE DEF each, owner
  <1>3. IsSequence(each) /\ DOMAIN each = DOMAIN owner
    BY Zenon, <1>1, <1>2, SamePositions
  <1>4. ASSUME NEW i \in DOMAIN owner
        PROVE  /\ IsSequence(each[i]) /\ Distinct(each[i])
               /\ \A x : x \in Range(each[i]) <=>
                    owner[i] \in Reported /\ x = Relation(o, "MANAGED_BY", owner[i])
    <2> DEFINE one == {owner[i]} \cap Reported
               s == InSomeOrder(one)
    <2>1. one \in SUBSET Reported /\ each[i] = To(o, "MANAGED_BY", s)
      BY Zenon, <1>2 DEF Listed
    <2> HIDE DEF one
    <2>2. IsSequence(s) /\ Range(s) = one /\ Distinct(s)
      BY Zenon, <2>1, Mapped
    <2> HIDE DEF s
    <2>3. /\ IsSequence(To(o, "MANAGED_BY", s))
          /\ Distinct(To(o, "MANAGED_BY", s)) <=> Distinct(s)
          /\ \A x : x \in Range(To(o, "MANAGED_BY", s)) <=> \E p \in Range(s) : x = Relation(o, "MANAGED_BY", p)
      BY <2>2, ToAll
    <2> QED
      BY Zenon, <2>1, <2>2, <2>3 DEF one
  <1>5. /\ IsSequence(OwnersPart(o))
        /\ \A x : x \in Range(OwnersPart(o)) <=> \E i \in DOMAIN each : x \in Range(each[i])
        /\ Distinct(OwnersPart(o)) <=>
             /\ \A i \in DOMAIN each : Distinct(each[i])
             /\ \A i, j \in DOMAIN each : i # j => Range(each[i]) \cap Range(each[j]) = {}
    <2>1. \A i \in DOMAIN each : IsSequence(each[i])
      BY Zenon, <1>3, <1>4
    <2> QED
      BY <1>2, <1>3, <2>1, AppendedFound
  <1>6. \A x : x \in Range(OwnersPart(o)) <=>
             \E i \in DOMAIN owner : owner[i] \in Reported /\ x = Relation(o, "MANAGED_BY", owner[i])
    BY Zenon, <1>3, <1>4, <1>5
  <1>7. ASSUME NEW i \in DOMAIN owner, NEW j \in DOMAIN owner
        PROVE  Range(each[i]) \cap Range(each[j]) = {} <=> ~(owner[i] = owner[j] /\ owner[i] \in Reported)
    <2>1. ASSUME owner[i] = owner[j], owner[i] \in Reported PROVE Range(each[i]) \cap Range(each[j]) # {}
      <3>1. Relation(o, "MANAGED_BY", owner[i]) \in Range(each[i])
        BY Zenon, <1>4, <2>1
      <3>2. Relation(o, "MANAGED_BY", owner[j]) \in Range(each[j])
        BY Zenon, <1>4, <2>1
      <3> QED
        BY Zenon, <2>1, <3>1, <3>2
    <2>2. ASSUME NEW x \in Range(each[i]), x \in Range(each[j])
          PROVE  owner[i] = owner[j] /\ owner[i] \in Reported
      <3>1. /\ owner[i] \in Reported /\ x = Relation(o, "MANAGED_BY", owner[i])
            /\ x = Relation(o, "MANAGED_BY", owner[j])
        BY Zenon, <1>4, <2>2
      <3>2. /\ Relation(o, "MANAGED_BY", owner[i]).to = owner[i]
            /\ Relation(o, "MANAGED_BY", owner[j]).to = owner[j]
        BY RelationFields
      <3> QED
        BY Zenon, <3>1, <3>2
    <2> QED
      BY Zenon, <2>1, <2>2
  <1>8. Distinct(OwnersPart(o)) <=> OwnersDiffer(o)
    <2>1. Distinct(OwnersPart(o)) <=>
             \A i, j \in DOMAIN owner : i # j => Range(each[i]) \cap Range(each[j]) = {}
      BY Zenon, <1>3, <1>4, <1>5
    <2>2. OwnersDiffer(o) <=>
             \A i, j \in DOMAIN owner : i # j => ~(owner[i] = owner[j] /\ owner[i] \in Reported)
      BY Zenon DEF OwnersDiffer, owner
    <2> QED
      BY Zenon, <1>7, <2>1, <2>2
  <1> QED
    BY Zenon, <1>5, <1>6, <1>8 DEF owner

\* The pairs of a link's type and kind, taken apart.
LEMMA LinksNamed ==
    ASSUME NEW o \in Objects
    PROVE  /\ IsSequence(LinksOf[o])
           /\ \A i \in DOMAIN LinksOf[o] :
                /\ LinksOf[o][i].type \notin {"CONTAINS", "MANAGED_BY"}
                /\ LinksOf[o][i].kind \in {"Node", "PersistentVolume", "Service"}
           /\ \A i, j \in DOMAIN LinksOf[o] :
                LinksOf[o][i].type = LinksOf[o][j].type /\ LinksOf[o][i].name = LinksOf[o][j].name => i = j
  <1>1. /\ IsSequence(LinksOf[o])
        /\ \A i \in DOMAIN LinksOf[o] : <<LinksOf[o][i].type, LinksOf[o][i].kind>> \in LinkTypes
        /\ \A i, j \in DOMAIN LinksOf[o] :
             LinksOf[o][i].type = LinksOf[o][j].type /\ LinksOf[o][i].name = LinksOf[o][j].name => i = j
    BY Zenon, KubernetesAssumption
  <1>2. ASSUME NEW t, NEW k, <<t, k>> \in LinkTypes
        PROVE  t \notin {"CONTAINS", "MANAGED_BY"} /\ k \in {"Node", "PersistentVolume", "Service"}
    BY <1>2 DEF LinkTypes
  <1> QED
    BY Zenon, <1>1, <1>2

\* The relationships to the objects that a specification names.
LEMMA LinksFound ==
    ASSUME KubernetesInv, NEW o \in Objects
    PROVE  /\ IsSequence(LinksPart(o)) /\ Distinct(LinksPart(o))
           /\ \A x : x \in Range(LinksPart(o)) <=>
                \E i \in DOMAIN LinksOf[o] : \E p \in Range(Linked(o, LinksOf[o][i])) :
                    x = Relation(o, LinksOf[o][i].type, p)
  <1> DEFINE link == LinksOf[o]
             each == [i \in DOMAIN link |-> To(o, link[i].type, Linked(o, link[i]))]
  <1>1. /\ IsSequence(link)
        /\ \A i, j \in DOMAIN link : link[i].type = link[j].type /\ link[i].name = link[j].name => i = j
    BY Zenon, LinksNamed
  <1>2. /\ each = [i \in DOMAIN link |-> each[i]]
        /\ \A i \in DOMAIN link : each[i] = To(o, link[i].type, Linked(o, link[i]))
        /\ LinksPart(o) = Appended(each)
    BY Zenon DEF LinksPart
  <1> HIDE DEF each, link
  <1>3. IsSequence(each) /\ DOMAIN each = DOMAIN link
    BY Zenon, <1>1, <1>2, SamePositions
  <1>4. ASSUME NEW i \in DOMAIN link
        PROVE  /\ IsSequence(each[i]) /\ Distinct(each[i])
               /\ \A x : x \in Range(each[i]) <=>
                    \E p \in Range(Linked(o, link[i])) : x = Relation(o, link[i].type, p)
               /\ \A p \in Range(Linked(o, link[i])) : NameOf[p] = link[i].name
    <2> DEFINE s == Linked(o, link[i])
               type == link[i].type
               namespace == IF link[i].kind \in {"Node", "PersistentVolume"} THEN NoName ELSE NamespaceOf[o]
    <2>1. s = Find(link[i].kind, namespace, link[i].name) /\ each[i] = To(o, type, s)
      BY Zenon, <1>2 DEF Linked
    <2> HIDE DEF namespace
    <2>2. /\ IsSequence(s) /\ Distinct(s)
          /\ Range(s) = {p \in Reported : Names(p) = <<link[i].kind, namespace, link[i].name>>}
      BY <2>1, Finds
    <2>3. ASSUME NEW p \in Range(s) PROVE NameOf[p] = link[i].name
      <3>1. Names(p) = <<link[i].kind, namespace, link[i].name>>
        BY Zenon, <2>2
      <3> QED
        BY <3>1, NameParts
    <2> HIDE DEF s, type
    <2>4. /\ IsSequence(To(o, type, s))
          /\ Distinct(To(o, type, s)) <=> Distinct(s)
          /\ \A x : x \in Range(To(o, type, s)) <=> \E p \in Range(s) : x = Relation(o, type, p)
      BY <2>2, ToAll
    <2> QED
      BY Zenon, <2>1, <2>2, <2>3, <2>4 DEF s, type
  <1>5. /\ IsSequence(LinksPart(o))
        /\ \A x : x \in Range(LinksPart(o)) <=> \E i \in DOMAIN each : x \in Range(each[i])
        /\ Distinct(LinksPart(o)) <=>
             /\ \A i \in DOMAIN each : Distinct(each[i])
             /\ \A i, j \in DOMAIN each : i # j => Range(each[i]) \cap Range(each[j]) = {}
    <2>1. \A i \in DOMAIN each : IsSequence(each[i])
      BY Zenon, <1>3, <1>4
    <2> QED
      BY <1>2, <1>3, <2>1, AppendedFound
  <1>6. \A x : x \in Range(LinksPart(o)) <=>
             \E i \in DOMAIN link : \E p \in Range(Linked(o, link[i])) : x = Relation(o, link[i].type, p)
    <2> DEFINE Leads(i, x) == \E p \in Range(Linked(o, link[i])) : x = Relation(o, link[i].type, p)
    <2>1. \A i \in DOMAIN link : \A x : x \in Range(each[i]) <=> Leads(i, x)
      BY Zenon, <1>4
    <2> HIDE DEF Leads
    <2>2. \A x : x \in Range(LinksPart(o)) <=> \E i \in DOMAIN link : Leads(i, x)
      BY Zenon, <1>3, <1>5, <2>1
    <2> QED
      BY Zenon, <2>2 DEF Leads
  <1>7. ASSUME NEW i \in DOMAIN link, NEW j \in DOMAIN link, NEW x \in Range(each[i]), x \in Range(each[j])
        PROVE  i = j
    <2>1. PICK p \in Range(Linked(o, link[i])) : x = Relation(o, link[i].type, p)
      BY Zenon, <1>4
    <2>2. PICK q \in Range(Linked(o, link[j])) : x = Relation(o, link[j].type, q)
      BY Zenon, <1>4, <1>7
    <2>3. /\ Relation(o, link[i].type, p).to = p /\ Relation(o, link[j].type, q).to = q
          /\ Relation(o, link[i].type, p).type = link[i].type
          /\ Relation(o, link[j].type, q).type = link[j].type
      BY RelationFields
    <2>4. p = q /\ link[i].type = link[j].type
      BY Zenon, <2>1, <2>2, <2>3
    <2>5. NameOf[p] = link[i].name /\ NameOf[q] = link[j].name
      BY Zenon, <1>4
    <2> QED
      BY Zenon, <1>1, <2>4, <2>5
  <1>8. Distinct(LinksPart(o))
    <2>1. \A i, j \in DOMAIN each : i # j => Range(each[i]) \cap Range(each[j]) = {}
      BY Zenon, <1>3, <1>7
    <2> QED
      BY Zenon, <1>3, <1>4, <1>5, <2>1
  <1> QED
    BY Zenon, <1>5, <1>6, <1>8 DEF link

\* The relationships to the pods that a selector matches.
LEMMA SelectsFound ==
    ASSUME KubernetesInv, NEW o \in Objects
    PROVE  /\ IsSequence(SelectsPart(o)) /\ Distinct(SelectsPart(o))
           /\ \A x : x \in Range(SelectsPart(o)) <=>
                \E p \in SelectsOf[o] \cap Reported : x = Relation(o, "ROUTES_TO", p)
  <1> DEFINE chosen == SelectsOf[o] \cap Reported
             s == InSomeOrder(chosen)
  <1>1. chosen \in SUBSET Reported /\ SelectsPart(o) = To(o, "ROUTES_TO", s)
    BY Zenon DEF SelectsPart
  <1> HIDE DEF chosen
  <1>2. IsSequence(s) /\ Range(s) = chosen /\ Distinct(s)
    BY Zenon, <1>1, Mapped
  <1> HIDE DEF s
  <1>3. /\ IsSequence(To(o, "ROUTES_TO", s))
        /\ Distinct(To(o, "ROUTES_TO", s)) <=> Distinct(s)
        /\ \A x : x \in Range(To(o, "ROUTES_TO", s)) <=> \E p \in Range(s) : x = Relation(o, "ROUTES_TO", p)
    BY <1>2, ToAll
  <1> QED
    BY Zenon, <1>1, <1>2, <1>3 DEF chosen

\* The first of a sequence of one.
LEMMA FirstOf ==
    ASSUME NEW s, IsSequence(s), NEW x, Range(s) = {x}
    PROVE  s # <<>> /\ s[1] = x
  <1>1. s \in Seq({x}) /\ DOMAIN s # {}
    BY Zenon DEF IsSequence, Range
  <1> QED
    BY <1>1

\* The first of a sequence is in it.
LEMMA FirstIn ==
    ASSUME NEW s, IsSequence(s), s # <<>>
    PROVE  s[1] \in Range(s)
  <1>1. 1 \in DOMAIN s
    BY DEF IsSequence
  <1> QED
    BY Zenon, <1>1 DEF Range

\* What contains an object is the cluster, or a namespace that is reported.
LEMMA ParentReported ==
    ASSUME KubernetesInv, NEW o
    PROVE  Parent(o)[1] \in Reported \cup {Cluster}
  <1> DEFINE found == Find("Namespace", NoName, NamespaceOf[o])
  <1>1. IsSequence(found) /\ Range(found) \subseteq Reported
    BY Finds
  <1> HIDE DEF found
  <1>2. CASE NamespaceOf[o] = NoName \/ found = <<>>
    <2>1. Parent(o) = <<Cluster>>
      BY Zenon, <1>2 DEF Parent, found
    <2> QED
      BY <2>1
  <1>3. CASE ~(NamespaceOf[o] = NoName \/ found = <<>>)
    <2>1. Parent(o) = found
      BY Zenon, <1>3 DEF Parent, found
    <2>2. found[1] \in Range(found)
      BY Zenon, <1>1, <1>3, FirstIn
    <2> QED
      BY Zenon, <1>1, <2>1, <2>2
  <1> QED
    BY Zenon, <1>2, <1>3

\* What an object's relationships say, and that none of them comes twice
\* unless one owner does.
LEMMA RelationsFound ==
    ASSUME KubernetesInv, NEW o \in Objects
    PROVE  /\ IsSequence(RelationsOf(o))
           /\ Range(RelationsOf(o)) =
                ((Range(<<Relation(Parent(o)[1], "CONTAINS", o)>>) \cup Range(OwnersPart(o)))
                    \cup Range(LinksPart(o))) \cup Range(SelectsPart(o))
           /\ Distinct(RelationsOf(o)) <=> OwnersDiffer(o)
  <1> DEFINE x == Relation(Parent(o)[1], "CONTAINS", o)
             a == <<x>>
             b == OwnersPart(o)
             c == LinksPart(o)
             d == SelectsPart(o)
  <1>1. RelationsOf(o) = ((a \o b) \o c) \o d
    BY Zenon DEF RelationsOf, OwnersPart, LinksPart, SelectsPart
  <1>2. /\ IsSequence(a) /\ Distinct(a) /\ Range(a) = {x}
        /\ IsSequence(b) /\ (Distinct(b) <=> OwnersDiffer(o))
        /\ IsSequence(c) /\ Distinct(c)
        /\ IsSequence(d) /\ Distinct(d)
    <2> HIDE DEF x
    <2>1. IsSequence(<<x>>) /\ Distinct(<<x>>) /\ Range(<<x>>) = {x}
      BY DEF IsSequence, Range, Distinct
    <2> QED
      BY Zenon, <2>1, OwnersFound, LinksFound, SelectsFound
  <1>3. /\ \A y \in Range(a) : y.type = "CONTAINS"
        /\ \A y \in Range(b) : y.type = "MANAGED_BY"
        /\ \A y \in Range(c) : y.type \notin {"CONTAINS", "MANAGED_BY"} /\ KindOf[y.to] # "Pod"
        /\ \A y \in Range(d) : y.type = "ROUTES_TO" /\ KindOf[y.to] = "Pod"
    <2>1. x.type = "CONTAINS"
      BY RelationFields
    <2>2. ASSUME NEW y \in Range(b) PROVE y.type = "MANAGED_BY"
      <3>1. PICK i \in DOMAIN OwnersOf[o] : y = Relation(o, "MANAGED_BY", OwnersOf[o][i])
        BY Zenon, OwnersFound
      <3>2. Relation(o, "MANAGED_BY", OwnersOf[o][i]).type = "MANAGED_BY"
        BY RelationFields
      <3> QED
        BY Zenon, <3>1, <3>2
    <2>3. ASSUME NEW y \in Range(c)
          PROVE  y.type \notin {"CONTAINS", "MANAGED_BY"} /\ KindOf[y.to] # "Pod"
      <3>1. PICK i \in DOMAIN LinksOf[o] : \E p \in Range(Linked(o, LinksOf[o][i])) :
                y = Relation(o, LinksOf[o][i].type, p)
        BY Zenon, LinksFound
      <3> DEFINE link == LinksOf[o][i]
                 namespace == IF link.kind \in {"Node", "PersistentVolume"} THEN NoName ELSE NamespaceOf[o]
      <3>2. PICK p \in Range(Linked(o, link)) : y = Relation(o, link.type, p)
        BY Zenon, <3>1
      <3>3. Relation(o, link.type, p).type = link.type /\ Relation(o, link.type, p).to = p
        BY RelationFields
      <3>4. link.type \notin {"CONTAINS", "MANAGED_BY"} /\ link.kind \in {"Node", "PersistentVolume", "Service"}
        BY Zenon, LinksNamed
      <3>5. Linked(o, link) = Find(link.kind, namespace, link.name)
        BY Zenon DEF Linked
      <3> HIDE DEF namespace, link
      <3>6. Names(p) = <<link.kind, namespace, link.name>>
        BY <3>2, <3>5, Finds
      <3>7. KindOf[p] = link.kind
        BY <3>6, NameParts
      <3>8. "Pod" \notin {"Node", "PersistentVolume", "Service"}
        OBVIOUS
      <3>9. y.type = link.type /\ y.to = p
        BY Zenon, <3>2, <3>3
      <3> QED
        BY Zenon, <3>4, <3>7, <3>8, <3>9
    <2>4. ASSUME NEW y \in Range(d) PROVE y.type = "ROUTES_TO" /\ KindOf[y.to] = "Pod"
      <3>1. PICK p \in SelectsOf[o] \cap Reported : y = Relation(o, "ROUTES_TO", p)
        BY Zenon, SelectsFound
      <3>2. Relation(o, "ROUTES_TO", p).type = "ROUTES_TO" /\ Relation(o, "ROUTES_TO", p).to = p
        BY RelationFields
      <3>3. KindOf[p] = "Pod"
        BY Zenon, KubernetesAssumption
      <3>4. y.type = "ROUTES_TO" /\ y.to = p
        BY Zenon, <3>1, <3>2
      <3> QED
        BY Zenon, <3>3, <3>4
    <2> HIDE DEF x
    <2> QED
      BY Zenon, <1>2, <2>1, <2>2, <2>3, <2>4
  <1> HIDE DEF a, b, c, d
  <1>4. /\ Range(a) \cap Range(b) = {} /\ (Range(a) \cup Range(b)) \cap Range(c) = {}
        /\ ((Range(a) \cup Range(b)) \cup Range(c)) \cap Range(d) = {}
    <2>1. "CONTAINS" # "MANAGED_BY" /\ "ROUTES_TO" # "MANAGED_BY" /\ "CONTAINS" # "ROUTES_TO"
      OBVIOUS
    <2>2. Range(a) \cap Range(b) = {}
      BY Zenon, <1>3, <2>1
    <2>3. (Range(a) \cup Range(b)) \cap Range(c) = {}
      BY Zenon, <1>3
    <2>4. ((Range(a) \cup Range(b)) \cup Range(c)) \cap Range(d) = {}
      BY Zenon, <1>3, <2>1
    <2> QED
      BY Zenon, <2>2, <2>3, <2>4
  <1>5. /\ IsSequence(a \o b) /\ Range(a \o b) = Range(a) \cup Range(b)
        /\ (Distinct(a \o b) <=> OwnersDiffer(o))
    BY Zenon, <1>2, <1>4, Concat, Parted
  <1>6. /\ IsSequence((a \o b) \o c) /\ Range((a \o b) \o c) = (Range(a) \cup Range(b)) \cup Range(c)
        /\ (Distinct((a \o b) \o c) <=> OwnersDiffer(o))
    <2> DEFINE s == a \o b
    <2>1. IsSequence(s) /\ Range(s) = Range(a) \cup Range(b) /\ (Distinct(s) <=> OwnersDiffer(o))
      BY Zenon, <1>5
    <2> HIDE DEF s
    <2>2. IsSequence(s \o c) /\ Range(s \o c) = Range(s) \cup Range(c) /\ (Distinct(s \o c) <=> OwnersDiffer(o))
      BY Zenon, <1>2, <1>4, <2>1, Concat, Parted
    <2> QED
      BY Zenon, <2>1, <2>2 DEF s
  <1>7. /\ IsSequence(((a \o b) \o c) \o d)
        /\ Range(((a \o b) \o c) \o d) = ((Range(a) \cup Range(b)) \cup Range(c)) \cup Range(d)
        /\ (Distinct(((a \o b) \o c) \o d) <=> OwnersDiffer(o))
    <2> DEFINE s == (a \o b) \o c
    <2>1. /\ IsSequence(s) /\ Range(s) = (Range(a) \cup Range(b)) \cup Range(c)
          /\ (Distinct(s) <=> OwnersDiffer(o))
      BY Zenon, <1>6
    <2> HIDE DEF s
    <2>2. IsSequence(s \o d) /\ Range(s \o d) = Range(s) \cup Range(d) /\ (Distinct(s \o d) <=> OwnersDiffer(o))
      BY Zenon, <1>2, <1>4, <2>1, Concat, Parted
    <2> QED
      BY Zenon, <2>1, <2>2 DEF s
  <1> QED
    BY Zenon, <1>1, <1>7 DEF a, b, c, d

\* The ends of an object's relationships are reported, or the cluster; the
\* object is the one contained, or the one the relationship is from.
LEMMA EndsReported ==
    ASSUME KubernetesInv, NEW o \in Reported, NEW x \in Range(RelationsOf(o))
    PROVE  /\ {x.from, x.to} \subseteq Reported \cup {Cluster}
           /\ o = IF x.type = "CONTAINS" THEN x.to ELSE x.from
  <1>0. o \in Objects
    BY Zenon DEF KubernetesInv, PlacesInv
  <1>1. \/ x \in Range(<<Relation(Parent(o)[1], "CONTAINS", o)>>)
        \/ x \in Range(OwnersPart(o)) \/ x \in Range(LinksPart(o)) \/ x \in Range(SelectsPart(o))
    BY Zenon, <1>0, RelationsFound
  <1>2. CASE x \in Range(<<Relation(Parent(o)[1], "CONTAINS", o)>>)
    <2> DEFINE p == Parent(o)[1]
    <2>1. p \in Reported \cup {Cluster}
      BY Zenon, ParentReported
    <2> HIDE DEF p
    <2>2. x = Relation(p, "CONTAINS", o)
      BY <1>2 DEF Range, p
    <2>3. x.from = p /\ x.to = o /\ x.type = "CONTAINS"
      BY <2>2, RelationFields
    <2> QED
      BY Zenon, <2>1, <2>3
  <1>3. ASSUME NEW t, NEW p \in Reported, t # "CONTAINS", x = Relation(o, t, p)
        PROVE  /\ {x.from, x.to} \subseteq Reported \cup {Cluster}
               /\ o = IF x.type = "CONTAINS" THEN x.to ELSE x.from
    <2>1. x.from = o /\ x.to = p /\ x.type = t
      BY <1>3, RelationFields
    <2> QED
      BY Zenon, <1>3, <2>1
  <1>4. CASE x \in Range(OwnersPart(o))
    <2>1. \E i \in DOMAIN OwnersOf[o] :
             OwnersOf[o][i] \in Reported /\ x = Relation(o, "MANAGED_BY", OwnersOf[o][i])
      BY Zenon, <1>0, <1>4, OwnersFound
    <2>2. "MANAGED_BY" # "CONTAINS"
      OBVIOUS
    <2> QED
      BY Zenon, <1>3, <2>1, <2>2
  <1>5. CASE x \in Range(LinksPart(o))
    <2>1. PICK i \in DOMAIN LinksOf[o] : \E p \in Range(Linked(o, LinksOf[o][i])) :
              x = Relation(o, LinksOf[o][i].type, p)
      BY Zenon, <1>0, <1>5, LinksFound
    <2>2. LinksOf[o][i].type # "CONTAINS"
      BY Zenon, <1>0, LinksNamed
    <2>3. Range(Linked(o, LinksOf[o][i])) \subseteq Reported
      BY Finds DEF Linked
    <2> QED
      BY Zenon, <1>3, <2>1, <2>2, <2>3
  <1>6. CASE x \in Range(SelectsPart(o))
    <2>1. \E p \in SelectsOf[o] \cap Reported : x = Relation(o, "ROUTES_TO", p)
      BY Zenon, <1>0, <1>6, SelectsFound
    <2>2. "ROUTES_TO" # "CONTAINS"
      OBVIOUS
    <2> QED
      BY Zenon, <1>3, <2>1, <2>2
  <1> QED
    BY Zenon, <1>1, <1>2, <1>4, <1>5, <1>6

\* Relationships has those of every object reported, and nothing twice
\* unless an object has one owner twice.
LEMMA AllFound ==
    ASSUME KubernetesInv
    PROVE  /\ IsSequence(Relationships)
           /\ \A x : x \in Range(Relationships) <=> \E o \in Reported : x \in Range(RelationsOf(o))
           /\ Distinct(Relationships) <=> \A o \in Reported : OwnersDiffer(o)
  <1> DEFINE each == [i \in DOMAIN items |-> RelationsOf(items[i])]
  <1>1. /\ each = [i \in DOMAIN items |-> each[i]]
        /\ \A i \in DOMAIN items : each[i] = RelationsOf(items[i])
        /\ Relationships = Appended(each)
    BY Zenon DEF Relationships
  <1> HIDE DEF each
  <1>2. IsSequence(each) /\ DOMAIN each = DOMAIN items
    BY Zenon, <1>1, SamePositions DEF KubernetesInv, PlacesInv
  <1>3. /\ \A i \in DOMAIN items : items[i] \in Reported /\ items[i] \in Objects
        /\ \A o \in Reported : \E i \in DOMAIN items : o = items[i]
    BY Zenon DEF KubernetesInv, PlacesInv, Reported
  <1>4. \A i \in DOMAIN items : IsSequence(each[i]) /\ (Distinct(each[i]) <=> OwnersDiffer(items[i]))
    BY Zenon, <1>1, <1>3, RelationsFound
  <1>5. /\ IsSequence(Relationships)
        /\ \A x : x \in Range(Relationships) <=> \E i \in DOMAIN each : x \in Range(each[i])
        /\ Distinct(Relationships) <=>
             /\ \A i \in DOMAIN each : Distinct(each[i])
             /\ \A i, j \in DOMAIN each : i # j => Range(each[i]) \cap Range(each[j]) = {}
    <2>1. \A i \in DOMAIN each : IsSequence(each[i])
      BY Zenon, <1>2, <1>4
    <2> QED
      BY <1>1, <1>2, <2>1, AppendedFound
  <1>6. ASSUME NEW i \in DOMAIN items, NEW j \in DOMAIN items, NEW x \in Range(each[i]), x \in Range(each[j])
        PROVE  i = j
    <2>1. /\ items[i] = IF x.type = "CONTAINS" THEN x.to ELSE x.from
          /\ items[j] = IF x.type = "CONTAINS" THEN x.to ELSE x.from
      BY Zenon, <1>1, <1>3, <1>6, EndsReported
    <2>2. items[i] = items[j]
      BY Zenon, <2>1
    <2> QED
      BY Zenon, <2>2 DEF KubernetesInv, OnceInv, Distinct
  <1>7. \A x : x \in Range(Relationships) <=> \E o \in Reported : x \in Range(RelationsOf(o))
    <2>1. ASSUME NEW x, x \in Range(Relationships) PROVE \E o \in Reported : x \in Range(RelationsOf(o))
      <3>1. PICK i \in DOMAIN items : x \in Range(each[i])
        BY Zenon, <1>2, <1>5, <2>1
      <3> QED
        BY Zenon, <1>1, <1>3, <3>1
    <2>2. ASSUME NEW o \in Reported, NEW x \in Range(RelationsOf(o)) PROVE x \in Range(Relationships)
      <3>1. PICK i \in DOMAIN items : o = items[i]
        BY Zenon, <1>3
      <3>2. x \in Range(each[i])
        BY Zenon, <1>1, <3>1
      <3> QED
        BY Zenon, <1>2, <1>5, <3>2
    <2> QED
      BY Zenon, <2>1, <2>2
  <1>8. Distinct(Relationships) <=> \A o \in Reported : OwnersDiffer(o)
    <2>1. \A i, j \in DOMAIN each : i # j => Range(each[i]) \cap Range(each[j]) = {}
      BY Zenon, <1>2, <1>6
    <2>2. (\A i \in DOMAIN items : OwnersDiffer(items[i])) <=> \A o \in Reported : OwnersDiffer(o)
      BY Zenon, <1>3
    <2> QED
      BY Zenon, <1>2, <1>4, <1>5, <2>1, <2>2
  <1> QED
    BY Zenon, <1>5, <1>7, <1>8

\* The contract, for any limits.
LEMMA ContractMet ==
    ASSUME KubernetesInv
    PROVE  ValidSnapshotContract(Assets, Relationships)
             <=> Fits(Assets, Relationships) /\ \A o \in Reported : OwnersDiffer(o)
  <1>1. IsSequence(items) /\ Distinct(items) /\ Range(items) = Reported /\ Cluster \notin Reported
    BY Zenon, KubernetesAssumption DEF KubernetesInv, PlacesInv, OnceInv, Range, Reported
  <1>2. Distinct(Assets) /\ Range(Assets) = {Cluster} \cup Reported
    <2> DEFINE s == <<Cluster>>
    <2>1. IsSequence(s) /\ Distinct(s) /\ Range(s) = {Cluster}
      BY DEF IsSequence, Range, Distinct
    <2>2. Assets = s \o items
      BY Zenon DEF Assets
    <2> HIDE DEF s
    <2>3. Range(s) \cap Range(items) = {}
      BY Zenon, <1>1, <2>1
    <2> QED
      BY Zenon, <1>1, <2>1, <2>2, <2>3, Concat
  <1>3. ASSUME NEW i \in DOMAIN Relationships, NEW end \in {Relationships[i].from, Relationships[i].to}
        PROVE  \E j \in DOMAIN Assets : Assets[j] = end
    <2> DEFINE x == Relationships[i]
    <2>1. x \in Range(Relationships)
      BY Zenon DEF Range
    <2> HIDE DEF x
    <2>2. PICK o \in Reported : x \in Range(RelationsOf(o))
      BY Zenon, <2>1, AllFound
    <2>3. {x.from, x.to} \subseteq Reported \cup {Cluster}
      BY Zenon, <2>2, EndsReported
    <2>4. end \in Range(Assets)
      BY Zenon, <1>2, <2>3 DEF x
    <2> QED
      BY Zenon, <2>4 DEF Range
  <1>4. Distinct(Relationships) <=> \A o \in Reported : OwnersDiffer(o)
    BY Zenon, AllFound
  <1> QED
    BY Zenon, <1>2, <1>3, <1>4 DEF ValidSnapshotContract

(* SnapshotsMeetContract for any cluster, any limits and any changes of    *)
(* the cluster between pages: what Discover returns meets the contract of  *)
(* the gateway, unless it exceeds a limit or an object has one owner       *)
(* twice.                                                                  *)
THEOREM ContractOfClusters == DiscoverySpec => []SnapshotsMeetContract
  <1>1. KubernetesInv => SnapshotsMeetContract
    BY Zenon, ContractMet DEF SnapshotsMeetContract
  <1> QED
    BY <1>1, DiscoveryInvariant, PTL DEF DiscoveryInv

\* The parent of an object is its namespace, if that is reported.
LEMMA ParentFound ==
    ASSUME KubernetesInv, NEW o \in Objects, NEW p \in Reported,
           KindOf[p] = "Namespace", NameOf[p] = NamespaceOf[o]
    PROVE  Parent(o)[1] = p
  <1>1. p \in Objects
    BY Zenon DEF KubernetesInv, PlacesInv
  <1>2. NamespaceOf[p] = NoName /\ NamespaceOf[o] # NoName
    BY Zenon, <1>1, KubernetesAssumption
  <1> DEFINE found == Find("Namespace", NoName, NamespaceOf[o])
  <1>3. found = Find(KindOf[p], NamespaceOf[p], NameOf[p])
    BY Zenon, <1>2
  <1>4. IsSequence(found) /\ Range(found) = {p}
    BY Zenon, <1>3, Found, Finds
  <1> HIDE DEF found
  <1>5. found # <<>> /\ found[1] = p
    BY Zenon, <1>4, FirstOf
  <1> QED
    BY Zenon, <1>2, <1>5 DEF Parent, found

\* A link of an object's specification leads to the object it names, in its
\* own namespace or in none.
LEMMA LinkFound ==
    ASSUME KubernetesInv, NEW o \in Objects, NEW p \in Reported, NEW i \in DOMAIN LinksOf[o],
           LinksOf[o][i].kind = KindOf[p], LinksOf[o][i].name = NameOf[p],
           NamespaceOf[p] \in {NoName, NamespaceOf[o]}
    PROVE  p \in Range(Linked(o, LinksOf[o][i]))
  <1> DEFINE namespace == IF KindOf[p] \in {"Node", "PersistentVolume"} THEN NoName ELSE NamespaceOf[o]
  <1>1. p \in Objects
    BY Zenon DEF KubernetesInv, PlacesInv
  <1>2. NamespaceOf[p] = NoName <=> KindOf[p] \in {"Namespace", "Node", "PersistentVolume"}
    BY Zenon, <1>1, KubernetesAssumption
  <1>3. KindOf[p] \in {"Node", "PersistentVolume", "Service"}
    BY Zenon, LinksNamed
  <1>4. NamespaceOf[p] = namespace
    BY Zenon, <1>2, <1>3
  <1>5. Linked(o, LinksOf[o][i]) = Find(KindOf[p], namespace, NameOf[p])
    BY Zenon DEF Linked
  <1> HIDE DEF namespace
  <1>6. Linked(o, LinksOf[o][i]) = Find(KindOf[p], NamespaceOf[p], NameOf[p])
    BY Zenon, <1>4, <1>5
  <1> QED
    BY Zenon, <1>6, Found

(* StableRelationships for any number of objects, pages and changes: a     *)
(* Discover that succeeds reports what the objects there throughout are to *)
(* each other: containment, ownership, routing and the links of their      *)
(* specifications.                                                         *)
THEOREM RelationshipsStable == DiscoverySpec => []StableRelationships
  <1>1. ASSUME KubernetesInv PROVE StableRelationships
    <2> SUFFICES ASSUME outcome = "ok", NEW o \in throughout, NEW p \in throughout
                 PROVE  LET found == Range(Relationships) IN
                        /\ KindOf[p] = "Namespace" /\ NameOf[p] = NamespaceOf[o]
                             => Relation(p, "CONTAINS", o) \in found
                        /\ \A i \in DOMAIN OwnersOf[o] :
                             OwnersOf[o][i] = p => Relation(o, "MANAGED_BY", p) \in found
                        /\ p \in SelectsOf[o] => Relation(o, "ROUTES_TO", p) \in found
                        /\ \A i \in DOMAIN LinksOf[o] :
                             /\ LinksOf[o][i].kind = KindOf[p] /\ LinksOf[o][i].name = NameOf[p]
                             /\ NamespaceOf[p] \in {NoName, NamespaceOf[o]}
                             => Relation(o, LinksOf[o][i].type, p) \in found
      BY Zenon DEF StableRelationships, Range
    <2>1. o \in Reported /\ p \in Reported /\ o \in Objects
      BY Zenon, <1>1, AllReported DEF KubernetesInv, PlacesInv
    <2>2. Range(RelationsOf(o)) \subseteq Range(Relationships)
      BY Zenon, <1>1, <2>1, AllFound
    <2> DEFINE x == Relation(Parent(o)[1], "CONTAINS", o)
    <2>3. /\ x \in Range(RelationsOf(o))
          /\ Range(OwnersPart(o)) \subseteq Range(RelationsOf(o))
          /\ Range(LinksPart(o)) \subseteq Range(RelationsOf(o))
          /\ Range(SelectsPart(o)) \subseteq Range(RelationsOf(o))
      <3>1. Range(RelationsOf(o)) =
              ((Range(<<x>>) \cup Range(OwnersPart(o))) \cup Range(LinksPart(o))) \cup Range(SelectsPart(o))
        BY Zenon, <1>1, <2>1, RelationsFound
      <3> HIDE DEF x
      <3>2. x \in Range(<<x>>)
        BY DEF Range
      <3> QED
        BY Zenon, <3>1, <3>2
    <2>4. ASSUME KindOf[p] = "Namespace", NameOf[p] = NamespaceOf[o]
          PROVE  Relation(p, "CONTAINS", o) \in Range(RelationsOf(o))
      <3>1. Parent(o)[1] = p
        BY Zenon, <1>1, <2>1, <2>4, ParentFound
      <3> QED
        BY Zenon, <2>3, <3>1
    <2>5. ASSUME NEW i \in DOMAIN OwnersOf[o], OwnersOf[o][i] = p
          PROVE  Relation(o, "MANAGED_BY", p) \in Range(RelationsOf(o))
      <3>1. OwnersOf[o][i] \in Reported
        BY Zenon, <2>1, <2>5
      <3>2. Relation(o, "MANAGED_BY", OwnersOf[o][i]) \in Range(OwnersPart(o))
        BY Zenon, <1>1, <2>1, <3>1, OwnersFound
      <3> QED
        BY Zenon, <2>3, <2>5, <3>2
    <2>6. p \in SelectsOf[o] => Relation(o, "ROUTES_TO", p) \in Range(RelationsOf(o))
      <3>1. ASSUME p \in SelectsOf[o] PROVE Relation(o, "ROUTES_TO", p) \in Range(SelectsPart(o))
        BY Zenon, <1>1, <2>1, <3>1, SelectsFound
      <3> QED
        BY Zenon, <2>3, <3>1
    <2>7. ASSUME NEW i \in DOMAIN LinksOf[o],
                 LinksOf[o][i].kind = KindOf[p], LinksOf[o][i].name = NameOf[p],
                 NamespaceOf[p] \in {NoName, NamespaceOf[o]}
          PROVE  Relation(o, LinksOf[o][i].type, p) \in Range(RelationsOf(o))
      <3>1. p \in Range(Linked(o, LinksOf[o][i]))
        BY Zenon, <1>1, <2>1, <2>7, LinkFound
      <3>2. Relation(o, LinksOf[o][i].type, p) \in Range(LinksPart(o))
        BY Zenon, <1>1, <2>1, <3>1, LinksFound
      <3> QED
        BY Zenon, <2>3, <3>2
    <2> QED
      BY Zenon, <2>2, <2>4, <2>5, <2>6, <2>7
  <1> QED
    BY <1>1, DiscoveryInvariant, PTL DEF DiscoveryInv
-----------------------------------------------------------------------------
\* add leaves out what was seen.
LEMMA AddedOne ==
    ASSUME NEW s, NEW y, IsSequence(s), Distinct(s)
    PROVE  IsSequence(Add(s, y)) /\ Distinct(Add(s, y)) /\ Range(Add(s, y)) = Range(s) \cup {y}
  <1> DEFINE seen == \E i \in DOMAIN s : s[i] = y
  <1>1. seen <=> y \in Range(s)
    BY Zenon DEF Range
  <1>2. CASE seen
    BY Zenon, <1>1, <1>2 DEF Add
  <1>3. CASE ~seen
    <2> DEFINE t == <<y>>
    <2>1. IsSequence(t) /\ Distinct(t) /\ Range(t) = {y}
      BY DEF IsSequence, Range, Distinct
    <2>2. Append(s, y) = s \o t
      <3>1. s \in Seq(Range(s) \cup {y})
        BY DEF IsSequence, Range
      <3> QED
        BY <3>1
    <2> HIDE DEF t
    <2>3. IsSequence(s \o t) /\ Distinct(s \o t) /\ Range(s \o t) = Range(s) \cup Range(t)
      BY Zenon, <1>1, <1>3, <2>1, Concat
    <2> QED
      BY Zenon, <1>3, <2>1, <2>2, <2>3 DEF Add
  <1> QED
    BY Zenon, <1>2, <1>3

\* Adding one id after the other: each is there, once.
LEMMA Added ==
    ASSUME NEW base, NEW ids, IsSequence(ids)
    PROVE  LET added[k \in 0..Len(ids)] == IF k = 0 THEN <<base>> ELSE Add(added[k - 1], ids[k])
           IN  /\ IsSequence(added[Len(ids)]) /\ Distinct(added[Len(ids)])
               /\ Range(added[Len(ids)]) = {base} \cup Range(ids)
  <1> DEFINE n == Len(ids)
             Step(k, f) == f = [i \in 0..k |-> IF i = 0 THEN <<base>> ELSE Add(f[i - 1], ids[i])]
             E == {k \in Nat : \E f : Step(k, f)}
  <1>1. n \in Nat /\ DOMAIN ids = 1..n
    BY DEF IsSequence
  <1>2. 0 \in E
    <2>1. Step(0, [i \in 0..0 |-> <<base>>])
      <3>1. \A i \in 0..0 : i = 0
        OBVIOUS
      <3> QED
        BY Zenon, <3>1
    <2> QED
      BY Zenon, <2>1
  <1>3. ASSUME NEW k \in Nat, k \in E PROVE k + 1 \in E
    <2>1. PICK g : Step(k, g)
      BY Zenon, <1>3
    <2> DEFINE h == [i \in 0..(k + 1) |-> IF i <= k THEN g[i] ELSE Add(g[k], ids[i])]
    <2>2. ASSUME NEW i \in 0..(k + 1)
          PROVE  h[i] = IF i = 0 THEN <<base>> ELSE Add(h[i - 1], ids[i])
      <3>1. CASE i <= k
        <4>1. i \in 0..k /\ (i # 0 => i - 1 \in 0..(k + 1) /\ i - 1 <= k)
          BY <3>1
        <4>2. h[i] = g[i] /\ (i # 0 => h[i - 1] = g[i - 1])
          BY Zenon, <3>1, <4>1
        <4>3. g[i] = IF i = 0 THEN <<base>> ELSE Add(g[i - 1], ids[i])
          BY <2>1, <4>1
        <4> HIDE DEF h
        <4> QED
          BY Zenon, <4>2, <4>3
      <3>2. CASE i = k + 1
        <4>1. ~(i <= k) /\ i # 0 /\ i - 1 = k /\ k \in 0..(k + 1) /\ k <= k
          BY <3>2
        <4>2. h[i] = Add(g[k], ids[i]) /\ h[k] = g[k]
          BY Zenon, <4>1
        <4> HIDE DEF h
        <4> QED
          BY Zenon, <4>1, <4>2
      <3> QED
        BY <3>1, <3>2
    <2>3. Step(k + 1, h)
      BY Zenon, <2>2
    <2>4. k + 1 \in Nat
      OBVIOUS
    <2> HIDE DEF Step, h
    <2> QED
      BY Zenon, <2>3, <2>4
  <1> HIDE DEF E
  <1>4. n \in E
    BY Zenon, <1>1, <1>2, <1>3, Induct
  <1> DEFINE f == CHOOSE g : Step(n, g)
  <1>5. Step(n, f)
    BY Zenon, <1>4 DEF E
  <1> HIDE DEF f
  <1>6. \A i \in 0..n : f[i] = IF i = 0 THEN <<base>> ELSE Add(f[i - 1], ids[i])
    BY Zenon, <1>5
  <1> DEFINE Good(k) == /\ IsSequence(f[k]) /\ Distinct(f[k])
                        /\ Range(f[k]) = {base} \cup {ids[i] : i \in 1..k}
             A == {k \in Nat : k <= n => Good(k)}
  <1>7. 0 \in A
    <2>1. 0 \in 0..n /\ 1..0 = {}
      BY <1>1
    <2>2. f[0] = <<base>>
      BY Zenon, <1>6, <2>1
    <2>3. IsSequence(<<base>>) /\ Distinct(<<base>>) /\ Range(<<base>>) = {base}
      BY DEF IsSequence, Range, Distinct
    <2>4. Good(0)
      BY Zenon, <2>1, <2>2, <2>3
    <2> HIDE DEF Good
    <2> QED
      BY Zenon, <2>4
  <1>8. ASSUME NEW k \in Nat, k \in A PROVE k + 1 \in A
    <2> SUFFICES ASSUME k + 1 <= n PROVE Good(k + 1)
      <3> HIDE DEF Good
      <3> QED
        OBVIOUS
    <2>1. Good(k)
      <3> HIDE DEF Good
      <3> QED
        BY <1>1, <1>8
    <2>2. k + 1 \in 0..n /\ k + 1 # 0 /\ (k + 1) - 1 = k
      BY <1>1
    <2>3. /\ \A i \in 1..(k + 1) : i \in 1..k \/ i = k + 1
          /\ \A i \in 1..k : i \in 1..(k + 1)
          /\ k + 1 \in 1..(k + 1)
      OBVIOUS
    <2> DEFINE s == f[k]
               y == ids[k + 1]
    <2>4. f[k + 1] = Add(s, y)
      BY Zenon, <1>6, <2>2
    <2>5. {ids[i] : i \in 1..(k + 1)} = {ids[i] : i \in 1..k} \cup {y}
      BY Zenon, <2>3
    <2> HIDE DEF s, y
    <2>6. IsSequence(s) /\ Distinct(s) /\ Range(s) = {base} \cup {ids[i] : i \in 1..k}
      BY Zenon, <2>1 DEF s
    <2>7. /\ IsSequence(Add(s, y)) /\ Distinct(Add(s, y)) /\ Range(Add(s, y)) = Range(s) \cup {y}
      BY Zenon, <2>6, AddedOne
    <2> QED
      BY Zenon, <2>4, <2>5, <2>6, <2>7
  <1> HIDE DEF A, Good
  <1>9. Nat \subseteq A
    BY Zenon, <1>7, <1>8, Induct
  <1>10. n <= n
    BY <1>1
  <1>11. Good(n)
    BY Zenon, <1>1, <1>9, <1>10 DEF A
  <1>12. {ids[i] : i \in 1..n} = Range(ids)
    BY Zenon, <1>1 DEF Range
  <1> HIDE DEF n
  <1>13. IsSequence(f[n]) /\ Distinct(f[n]) /\ Range(f[n]) = {base} \cup Range(ids)
    BY Zenon, <1>11, <1>12 DEF Good
  <1> QED
    BY Zenon, <1>13 DEF f, n

\* The parts of a container's record.
LEMMA ListedParts ==
    ASSUME ListingInv, NEW i \in DOMAIN listing
    PROVE  LET v == listing[i] IN
           /\ v.id \in Containers /\ v.networks \subseteq Networks
           /\ IsSequence(v.mounts)
           /\ IsSequence(InSomeOrder(v.networks)) /\ Distinct(InSomeOrder(v.networks))
           /\ Range(InSomeOrder(v.networks)) = v.networks
           /\ IsSequence(Target(v)) /\ Distinct(Target(v))
           /\ Range(Target(v)) \subseteq {listing[j].id : j \in DOMAIN listing}
  <1> DEFINE v == listing[i]
             ids == {listing[j].id : j \in DOMAIN listing}
             t == ids \cap {v.dependsOn}
  <1>1. v.id \in Containers /\ v \in Records(v.id)
    BY Zenon DEF ListingInv
  <1>2. v.networks \in SUBSET Networks /\ v.mounts \in Mounts
    <2> HIDE DEF v
    <2> QED
      BY <1>1 DEF Records
  <1>3. IsFiniteSet(v.networks)
    BY Zenon, <1>2, FS_Subset, DockerAssumption
  <1>4. IsFiniteSet(t)
    BY Zenon, FS_Singleton, FS_Subset, FS_Intersection
  <1> HIDE DEF v, t
  <1>5. /\ IsSequence(InSomeOrder(v.networks)) /\ Distinct(InSomeOrder(v.networks))
        /\ Range(InSomeOrder(v.networks)) = v.networks
    BY Zenon, <1>3, OrderFound
  <1>6. IsSequence(InSomeOrder(t)) /\ Distinct(InSomeOrder(t)) /\ Range(InSomeOrder(t)) = t
    BY Zenon, <1>4, OrderFound
  <1>7. Target(v) = InSomeOrder(t) /\ t \subseteq ids
    BY Zenon DEF Target, t
  <1>8. IsSequence(v.mounts)
    BY Zenon, <1>2, DockerAssumption
  <1> HIDE DEF ids
  <1> QED
    BY Zenon, <1>1, <1>2, <1>5, <1>6, <1>7, <1>8 DEF v, ids

\* What a container mentions.
LEMMA MentionedFound ==
    ASSUME ListingInv, NEW i \in DOMAIN listing
    PROVE  LET v == listing[i] IN
           /\ IsSequence(Mentioned(v))
           /\ Range(Mentioned(v)) = {v.id, v.image} \cup v.networks \cup Range(v.mounts)
  <1> DEFINE v == listing[i]
             a == <<v.id, v.image>>
             b == InSomeOrder(v.networks)
             c == v.mounts
  <1>1. IsSequence(b) /\ Range(b) = v.networks /\ IsSequence(c)
    BY Zenon, ListedParts
  <1>2. IsSequence(a) /\ Range(a) = {v.id, v.image}
    BY DEF IsSequence, Range
  <1>3. Mentioned(v) = (a \o b) \o c
    BY Zenon DEF Mentioned
  <1> HIDE DEF v, a, b, c
  <1>4. IsSequence(a \o b) /\ Range(a \o b) = Range(a) \cup Range(b)
    BY Zenon, <1>1, <1>2, Concat
  <1> DEFINE d == a \o b
  <1> HIDE DEF d
  <1>5. IsSequence(d \o c) /\ Range(d \o c) = Range(d) \cup Range(c)
    BY Zenon, <1>1, <1>4, Concat DEF d
  <1> QED
    BY Zenon, <1>1, <1>2, <1>3, <1>4, <1>5 DEF c, d, v

\* DockerAssets has the host and what the containers mention, each once.
LEMMA DockerAssetsFound ==
    ASSUME ListingInv
    PROVE  /\ IsSequence(DockerAssets) /\ Distinct(DockerAssets)
           /\ \A x : x \in Range(DockerAssets) <=>
                        x = Host \/ \E i \in DOMAIN listing : x \in Range(Mentioned(listing[i]))
  <1> DEFINE each == [i \in DOMAIN listing |-> Mentioned(listing[i])]
  <1>1. /\ each = [i \in DOMAIN listing |-> each[i]]
        /\ \A i \in DOMAIN listing : each[i] = Mentioned(listing[i])
        /\ AllMentioned = Appended(each)
    BY Zenon DEF AllMentioned
  <1> HIDE DEF each
  <1>2. IsSequence(each) /\ DOMAIN each = DOMAIN listing
    BY Zenon, <1>1, SamePositions DEF ListingInv
  <1>3. \A i \in DOMAIN each : IsSequence(each[i])
    BY Zenon, <1>1, <1>2, MentionedFound
  <1>4. /\ IsSequence(AllMentioned)
        /\ \A x : x \in Range(AllMentioned) <=> \E i \in DOMAIN each : x \in Range(each[i])
    BY <1>1, <1>2, <1>3, AppendedFound
  <1>5. \A x : x \in Range(AllMentioned) <=> \E i \in DOMAIN listing : x \in Range(Mentioned(listing[i]))
    BY Zenon, <1>1, <1>2, <1>4
  <1>6. /\ IsSequence(DockerAssets) /\ Distinct(DockerAssets)
        /\ Range(DockerAssets) = {Host} \cup Range(AllMentioned)
    BY Zenon, <1>4, Added DEF DockerAssets
  <1> QED
    BY Zenon, <1>5, <1>6

\* The relationships of a container: all from it, to the host, to what it
\* mentions or to a listed container, and none twice unless it has a volume
\* twice.
LEMMA ContainerFound ==
    ASSUME ListingInv, NEW i \in DOMAIN listing
    PROVE  LET v == listing[i]
               s == ContainerRelations(v)
           IN  /\ IsSequence(s)
               /\ \A x \in Range(s) :
                    /\ x.from = v.id
                    /\ \/ x.to = Host \/ x.to \in Range(Mentioned(v))
                       \/ \E j \in DOMAIN listing : x.to = listing[j].id
               /\ Distinct(s) <=> Distinct(v.mounts)
  <1> DEFINE v == listing[i]
             o == v.id
             nets == InSomeOrder(v.networks)
             p == Relation(o, "RUNS_ON", Host)
             q == Relation(o, "USES_IMAGE", v.image)
             a == <<p, q>>
             b == To(o, "CONNECTED_TO", nets)
             c == To(o, "USES_VOLUME", v.mounts)
             d == To(o, "CONNECTED_TO", Target(v))
             mentioned == Range(Mentioned(v))
             ids == {listing[j].id : j \in DOMAIN listing}
  <1>1. /\ ContainerRelations(v) = ((a \o b) \o c) \o d
        /\ ids = {listing[j].id : j \in DOMAIN listing}
    BY Zenon DEF ContainerRelations
  <1>2. /\ o \in Containers /\ v.networks \subseteq Networks /\ ids \subseteq Containers
        /\ IsSequence(v.mounts)
        /\ IsSequence(nets) /\ Distinct(nets) /\ Range(nets) = v.networks
        /\ IsSequence(Target(v)) /\ Distinct(Target(v)) /\ Range(Target(v)) \subseteq ids
    BY Zenon, ListedParts
  <1>3. mentioned = {o, v.image} \cup v.networks \cup Range(v.mounts)
    BY Zenon, MentionedFound
  <1> DEFINE ms == v.mounts
             ts == Target(v)
             im == v.image
             ns == v.networks
  <1> HIDE DEF v, o, nets, ids, mentioned, ms, ts, im, ns
  <1>4. /\ p.from = o /\ p.type = "RUNS_ON" /\ p.to = Host
        /\ q.from = o /\ q.type = "USES_IMAGE" /\ q.to = im
    BY RelationFields DEF im
  <1> HIDE DEF p, q
  <1>5. IsSequence(a) /\ Distinct(a) /\ Range(a) = {p, q}
    <2>1. p # q
      BY <1>4
    <2> QED
      BY <2>1 DEF IsSequence, Distinct, Range
  <1>6. /\ IsSequence(b) /\ Distinct(b)
        /\ \A x : x \in Range(b) <=> \E y \in Range(nets) : x = Relation(o, "CONNECTED_TO", y)
    BY <1>2, ToAll
  <1>7. /\ IsSequence(c) /\ (Distinct(c) <=> Distinct(ms))
        /\ \A x : x \in Range(c) <=> \E y \in Range(ms) : x = Relation(o, "USES_VOLUME", y)
    BY <1>2, ToAll DEF ms
  <1>8. /\ IsSequence(d) /\ Distinct(d)
        /\ \A x : x \in Range(d) <=> \E y \in Range(ts) : x = Relation(o, "CONNECTED_TO", y)
    BY <1>2, ToAll DEF ts
  <1> HIDE DEF a, b, c, d
  <1>9. ASSUME NEW x \in Range(a)
        PROVE  x.from = o /\ (x.to = Host \/ x.to \in mentioned) /\ x.type \in {"RUNS_ON", "USES_IMAGE"}
    <2>1. x = p \/ x = q
      BY Zenon, <1>5
    <2>2. im \in mentioned
      BY Zenon, <1>3 DEF im
    <2> QED
      BY Zenon, <1>4, <2>1, <2>2
  <1>10. ASSUME NEW x \in Range(b)
         PROVE  x.from = o /\ x.to \in mentioned /\ x.to \in Networks /\ x.type = "CONNECTED_TO"
    <2>1. PICK y \in Range(nets) : x = Relation(o, "CONNECTED_TO", y)
      BY Zenon, <1>6
    <2>2. x.from = o /\ x.to = y /\ x.type = "CONNECTED_TO"
      BY <2>1, RelationFields
    <2> QED
      BY Zenon, <1>2, <1>3, <2>2
  <1>11. ASSUME NEW x \in Range(c)
         PROVE  x.from = o /\ x.to \in mentioned /\ x.type = "USES_VOLUME"
    <2>1. PICK y \in Range(ms) : x = Relation(o, "USES_VOLUME", y)
      BY Zenon, <1>7
    <2>2. x.from = o /\ x.to = y /\ x.type = "USES_VOLUME"
      BY <2>1, RelationFields
    <2> QED
      BY Zenon, <1>3, <2>2 DEF ms
  <1>12. ASSUME NEW x \in Range(d)
         PROVE  x.from = o /\ x.to \in ids /\ x.type = "CONNECTED_TO"
    <2>1. PICK y \in Range(ts) : x = Relation(o, "CONNECTED_TO", y)
      BY Zenon, <1>8
    <2>2. x.from = o /\ x.to = y /\ x.type = "CONNECTED_TO"
      BY <2>1, RelationFields
    <2> QED
      BY Zenon, <1>2, <2>2 DEF ts
  <1>13. /\ Range(a) \cap Range(b) = {} /\ Range(a) \cap Range(c) = {} /\ Range(b) \cap Range(c) = {}
         /\ Range(a) \cap Range(d) = {} /\ Range(b) \cap Range(d) = {} /\ Range(c) \cap Range(d) = {}
    <2>1. /\ "CONNECTED_TO" \notin {"RUNS_ON", "USES_IMAGE"} /\ "USES_VOLUME" \notin {"RUNS_ON", "USES_IMAGE"}
          /\ "USES_VOLUME" # "CONNECTED_TO"
      OBVIOUS
    <2>2. \A x \in Range(b) : x \notin Range(d)
      BY Zenon, <1>2, <1>10, <1>12, DockerAssumption
    <2>3. \A x \in Range(a) : x \notin Range(b) /\ x \notin Range(c) /\ x \notin Range(d)
      BY Zenon, <1>9, <1>10, <1>11, <1>12, <2>1
    <2>4. \A x \in Range(c) : x \notin Range(b) /\ x \notin Range(d)
      BY Zenon, <1>10, <1>11, <1>12, <2>1
    <2> QED
      BY Zenon, <2>2, <2>3, <2>4
  <1> DEFINE ab == a \o b
             abc == ab \o c
             s == abc \o d
  <1>14. IsSequence(ab) /\ Distinct(ab) /\ Range(ab) = Range(a) \cup Range(b)
    BY Zenon, <1>5, <1>6, <1>13, Concat
  <1> HIDE DEF ab
  <1>15. /\ IsSequence(abc) /\ Range(abc) = Range(ab) \cup Range(c)
         /\ Distinct(ab) /\ Distinct(c) /\ Range(ab) \cap Range(c) = {} => Distinct(abc)
    BY Zenon, <1>7, <1>14, Concat
  <1>16. Distinct(abc) => Distinct(c)
    BY Zenon, <1>7, <1>14, Parted
  <1> HIDE DEF abc
  <1>17. /\ IsSequence(s) /\ Range(s) = Range(abc) \cup Range(d)
         /\ Distinct(abc) /\ Distinct(d) /\ Range(abc) \cap Range(d) = {} => Distinct(s)
    BY Zenon, <1>8, <1>15, Concat
  <1>18. Distinct(s) => Distinct(abc)
    BY Zenon, <1>8, <1>15, Parted
  <1> HIDE DEF s
  <1>19. Range(ab) \cap Range(c) = {} /\ Range(abc) \cap Range(d) = {}
    BY Zenon, <1>13, <1>14, <1>15
  <1>20. Distinct(s) <=> Distinct(ms)
    <2>1. Distinct(abc) <=> Distinct(ms)
      BY Zenon, <1>7, <1>14, <1>15, <1>16, <1>19
    <2>2. Distinct(s) <=> Distinct(abc)
      BY Zenon, <1>8, <1>17, <1>18, <1>19
    <2> QED
      BY Zenon, <2>1, <2>2
  <1>21. ContainerRelations(v) = s
    BY Zenon, <1>1 DEF ab, abc, s
  <1>22. ASSUME NEW x \in Range(s) PROVE x.from = o /\ (x.to = Host \/ x.to \in mentioned \/ x.to \in ids)
    <2>1. x \in Range(a) \/ x \in Range(b) \/ x \in Range(c) \/ x \in Range(d)
      BY Zenon, <1>14, <1>15, <1>17
    <2> QED
      BY Zenon, <1>9, <1>10, <1>11, <1>12, <2>1
  <1>23. \A y \in ids : \E j \in DOMAIN listing : y = listing[j].id
    BY Zenon DEF ids
  <1> QED
    BY Zenon, <1>17, <1>20, <1>21, <1>22, <1>23 DEF v, o, ms, mentioned

\* DockerRelationships has those of every container, and nothing twice
\* unless a container has a volume twice.
LEMMA DockerRelationsFound ==
    ASSUME ListingInv
    PROVE  /\ \A x : x \in Range(DockerRelationships) <=>
                        \E i \in DOMAIN listing : x \in Range(ContainerRelations(listing[i]))
           /\ Distinct(DockerRelationships) <=> \A i \in DOMAIN listing : Distinct(listing[i].mounts)
  <1> DEFINE each == [i \in DOMAIN listing |-> ContainerRelations(listing[i])]
  <1>1. /\ each = [i \in DOMAIN listing |-> each[i]]
        /\ \A i \in DOMAIN listing : each[i] = ContainerRelations(listing[i])
        /\ DockerRelationships = Appended(each)
    BY Zenon DEF DockerRelationships
  <1> HIDE DEF each
  <1>2. IsSequence(each) /\ DOMAIN each = DOMAIN listing
    BY Zenon, <1>1, SamePositions DEF ListingInv
  <1>3. /\ \A i \in DOMAIN listing : IsSequence(each[i])
        /\ \A i \in DOMAIN listing : Distinct(each[i]) <=> Distinct(listing[i].mounts)
        /\ \A i \in DOMAIN listing : \A x \in Range(each[i]) : x.from = listing[i].id
    BY Zenon, <1>1, ContainerFound
  <1>4. /\ \A x : x \in Range(DockerRelationships) <=> \E i \in DOMAIN each : x \in Range(each[i])
        /\ Distinct(DockerRelationships) <=>
             /\ \A i \in DOMAIN each : Distinct(each[i])
             /\ \A i, j \in DOMAIN each : i # j => Range(each[i]) \cap Range(each[j]) = {}
    <2>1. \A i \in DOMAIN each : IsSequence(each[i])
      BY Zenon, <1>2, <1>3
    <2> QED
      BY <1>1, <1>2, <2>1, AppendedFound
  <1>5. \A i, j \in DOMAIN each : i # j => Range(each[i]) \cap Range(each[j]) = {}
    <2> SUFFICES ASSUME NEW i \in DOMAIN listing, NEW j \in DOMAIN listing, i # j,
                        NEW x \in Range(each[i]), x \in Range(each[j])
                 PROVE  FALSE
      BY Zenon, <1>2
    <2>1. x.from = listing[i].id /\ x.from = listing[j].id
      BY Zenon, <1>3
    <2>2. listing[i].id = listing[j].id
      BY Zenon, <2>1
    <2> QED
      BY Zenon, <2>2 DEF ListingInv
  <1>6. Distinct(DockerRelationships) <=> \A i \in DOMAIN listing : Distinct(listing[i].mounts)
    BY Zenon, <1>2, <1>3, <1>4, <1>5
  <1>7. \A x : x \in Range(DockerRelationships) <=>
                  \E i \in DOMAIN listing : x \in Range(ContainerRelations(listing[i]))
    BY Zenon, <1>1, <1>2, <1>4
  <1> QED
    BY Zenon, <1>6, <1>7

\* The contract, for any limits.
LEMMA DockerContractMet ==
    ASSUME ListingInv
    PROVE  ValidSnapshotContract(DockerAssets, DockerRelationships)
             <=> /\ Fits(DockerAssets, DockerRelationships)
                 /\ \A i \in DOMAIN listing : Distinct(listing[i].mounts)
  <1>1. Distinct(DockerAssets)
    BY Zenon, DockerAssetsFound
  <1>2. ASSUME NEW k \in DOMAIN DockerRelationships,
               NEW end \in {DockerRelationships[k].from, DockerRelationships[k].to}
        PROVE  \E j \in DOMAIN DockerAssets : DockerAssets[j] = end
    <2> DEFINE x == DockerRelationships[k]
    <2>1. x \in Range(DockerRelationships)
      BY Zenon DEF Range
    <2>2. end = x.from \/ end = x.to
      BY Zenon
    <2> HIDE DEF x
    <2>3. PICK i \in DOMAIN listing : x \in Range(ContainerRelations(listing[i]))
      BY Zenon, <2>1, DockerRelationsFound
    <2>4. /\ x.from = listing[i].id
          /\ \/ x.to = Host \/ x.to \in Range(Mentioned(listing[i]))
             \/ \E j \in DOMAIN listing : x.to = listing[j].id
      BY Zenon, <2>3, ContainerFound
    <2>5. \A j \in DOMAIN listing : listing[j].id \in Range(Mentioned(listing[j]))
      BY Zenon, MentionedFound
    <2>6. end = Host \/ \E j \in DOMAIN listing : end \in Range(Mentioned(listing[j]))
      BY Zenon, <2>2, <2>4, <2>5
    <2>7. end \in Range(DockerAssets)
      BY Zenon, <2>6, DockerAssetsFound
    <2> QED
      BY Zenon, <2>7 DEF Range
  <1>3. Distinct(DockerRelationships) <=> \A i \in DOMAIN listing : Distinct(listing[i].mounts)
    BY Zenon, DockerRelationsFound
  <1> QED
    BY Zenon, <1>1, <1>2, <1>3 DEF ValidSnapshotContract

(* DockerMeetsContract for any host and any limits: whatever containers    *)
(* are listed, what Discover makes of them meets the contract of the       *)
(* gateway, unless it exceeds a limit or a container has one volume at two *)
(* mount points.                                                           *)
THEOREM ContractOfHosts == DiscoverySpec => []DockerMeetsContract
  <1>1. ListingInv => DockerMeetsContract
    BY Zenon, DockerContractMet DEF DockerMeetsContract
  <1> QED
    BY <1>1, DiscoveryInvariant, PTL DEF DiscoveryInv

=============================================================================
