-------------------------- MODULE SerialLinkProofs --------------------------
(* Proofs about the serial port for any stream of messages, any radix of   *)
(* the length field and any three distinct bytes START, END and newline.   *)
EXTENDS SerialLink, WellFoundedInduction, TLAPS

-----------------------------------------------------------------------------
(* Induction over lengths and places, as the choice of a least one         *)

LEMMA LessRelation ==
    \E R : IsWellFoundedOn(R, Nat) /\ \A x, y \in Nat : x < y => <<x, y>> \in R
<1>1. IsWellFoundedOn(OpToRel(<, Nat), Nat)
  BY NatLessThanWellFounded
<1>2. \A x, y \in Nat : x < y => <<x, y>> \in OpToRel(<, Nat)
  BY DEF OpToRel
<1>3. QED
  BY <1>1, <1>2, Zenon

(* A set of natural numbers that is not empty has a least element.         *)
LEMMA Least ==
    ASSUME NEW S, S \subseteq Nat, S # {}
    PROVE  \E x \in S : \A y \in S : x <= y
<1>1. PICK R : IsWellFoundedOn(R, Nat) /\ \A x, y \in Nat : x < y => <<x, y>> \in R
  BY LessRelation
<1>2. PICK x \in S : \A y \in S : ~ (<<y, x>> \in R)
  BY <1>1, WFMin, ZenonT(60)
<1>3. \A u, v \in Nat : u < v => <<u, v>> \in R
  BY <1>1, Zenon
<1>4. ASSUME NEW y \in S PROVE x <= y
  <2>1. x \in Nat /\ y \in Nat
    OBVIOUS
  <2>2. ~ (y < x)
    BY <1>2, <1>3, <2>1, Zenon
  <2>3. QED
    BY <2>1, <2>2
<1>5. QED
  BY <1>4

-----------------------------------------------------------------------------
(* Whole messages, one behind the other                                    *)

\* f[k] is what the first k of the sequences in s make.
Partial(f, s, S) ==
    /\ f \in [0..Len(s) -> Seq(S)]
    /\ f[0] = <<>>
    /\ \A i \in 1..Len(s) : f[i] = f[i - 1] \o s[i]

LEMMA EmptyCat == ASSUME NEW S, NEW s \in Seq(S) PROVE <<>> \o s = s /\ s \o <<>> = s
  OBVIOUS

LEMMA CatIndex ==
    ASSUME NEW S, NEW s \in Seq(S), NEW t \in Seq(S)
    PROVE  /\ s \o t \in Seq(S) /\ Len(s) \in Nat /\ Len(t) \in Nat
           /\ Len(s \o t) = Len(s) + Len(t)
           /\ Len(s) <= Len(s \o t)
           /\ \A p \in 1..Len(s) : p \in 1..Len(s \o t) /\ (s \o t)[p] = s[p]
           /\ \A p \in 1..Len(t) : /\ Len(s) + p \in 1..Len(s \o t)
                                  /\ (s \o t)[Len(s) + p] = t[p]
<1> DEFINE a == Len(s)
           b == Len(t)
           c == Len(s \o t)
<1>1. a \in Nat /\ b \in Nat /\ c = a + b
  OBVIOUS
<1>2. \A p \in 1..a : (s \o t)[p] = s[p]
  OBVIOUS
<1>3. \A p \in 1..b : (s \o t)[a + p] = t[p]
  OBVIOUS
<1>4. s \o t \in Seq(S)
  OBVIOUS
<1> HIDE DEF a, b, c
<1>5. a <= c /\ (\A p \in 1..a : p \in 1..c) /\ (\A p \in 1..b : a + p \in 1..c)
  BY <1>1
<1>6. QED
  BY <1>1, <1>2, <1>3, <1>4, <1>5 DEF a, b, c

LEMMA PartialStep ==
    ASSUME NEW S, NEW s \in Seq(Seq(S)), NEW f, Partial(f, s, S), NEW i \in 1..Len(s)
    PROVE  f[i] = f[i - 1] \o s[i] /\ f[i - 1] \in Seq(S) /\ s[i] \in Seq(S) /\ f[i] \in Seq(S)
<1>1. i \in 0..Len(s) /\ i - 1 \in 0..Len(s)
  OBVIOUS
<1>2. f \in [0..Len(s) -> Seq(S)]
  BY DEF Partial
<1>3. f[i] \in Seq(S) /\ f[i - 1] \in Seq(S)
  BY <1>1, <1>2
<1>4. f[i] = f[i - 1] \o s[i]
  BY DEF Partial
<1>5. s[i] \in Seq(S)
  OBVIOUS
<1>6. QED
  BY <1>3, <1>4, <1>5

LEMMA FlattenExists ==
    ASSUME NEW S, NEW s \in Seq(Seq(S)), Len(s) # 0
    PROVE  \E f : f = [i \in 1..Len(s) |-> IF i = 1 THEN s[i] ELSE f[i - 1] \o s[i]]
<1> DEFINE Upto(g, k) == /\ g \in [1..Len(s) -> Seq(S)]
                         /\ \A i \in 1..k : g[i] = IF i = 1 THEN s[i] ELSE g[i - 1] \o s[i]
           Bad == {k \in 0..Len(s) : ~ \E g : Upto(g, k)}
<1>0. Len(s) \in Nat /\ \A i \in 1..Len(s) : s[i] \in Seq(S)
  OBVIOUS
<1>1. Bad = {}
  <2>1. SUFFICES ASSUME Bad # {} PROVE FALSE
    OBVIOUS
  <2>20. Bad \subseteq Nat
    BY <1>0
  <2>2. PICK n \in Bad : \A m \in Bad : n <= m
    BY <2>1, <2>20, Least
  <2>3. n \in 0..Len(s) /\ ~ \E g : Upto(g, n)
    OBVIOUS
  <2>4. n # 0
    <3>1. [i \in 1..Len(s) |-> s[i]] \in [1..Len(s) -> Seq(S)]
      BY <1>0
    <3>2. Upto([i \in 1..Len(s) |-> s[i]], 0)
      BY <3>1
    <3>3. QED
      BY <2>3, <3>2
  <2>5. n - 1 \in 0..Len(s) /\ n \in 1..Len(s) /\ ~ (n <= n - 1)
    BY <2>3, <2>4, <1>0
  <2>6. PICK g : Upto(g, n - 1)
    BY <2>2, <2>5
  <2>7. DEFINE e == IF n = 1 THEN s[n] ELSE g[n - 1] \o s[n]
               f == [g EXCEPT ![n] = e]
  <2>8. e \in Seq(S)
    <3>1. n # 1 => n - 1 \in 1..Len(s)
      BY <2>5, <1>0
    <3>11. g \in [1..Len(s) -> Seq(S)]
      BY <2>6
    <3>12. n # 1 => g[n - 1] \in Seq(S)
      BY <3>1, <3>11
    <3>2. QED
      BY <3>12, <2>5, <1>0
  <2>9. f \in [1..Len(s) -> Seq(S)]
    BY <2>6, <2>8
  <2>10. ASSUME NEW i \in 1..n PROVE f[i] = IF i = 1 THEN s[i] ELSE f[i - 1] \o s[i]
    <3>1. i \in 1..Len(s) /\ (i # 1 => i - 1 \in 1..Len(s) /\ i - 1 # n)
      BY <2>5
    <3>2. i # 1 => f[i - 1] = g[i - 1]
      BY <3>1, <2>6
    <3>3. CASE i = n
      BY <3>1, <3>2, <3>3, <2>6
    <3>4. CASE i # n
      <4>1. i \in 1..n - 1 /\ f[i] = g[i]
        BY <3>1, <3>4, <2>5, <2>6
      <4>2. QED
        BY <4>1, <3>2, <2>6
    <3>5. QED
      BY <3>3, <3>4
  <2> HIDE DEF f, e
  <2>11. Upto(f, n)
    BY <2>9, <2>10
  <2> HIDE DEF Upto
  <2>12. QED
    BY <2>3, <2>11
<1>12. Len(s) \in 0..Len(s)
  BY <1>0
<1> HIDE DEF Upto
<1>13. \E g : Upto(g, Len(s))
  BY <1>1, <1>12
<1>2. PICK g : Upto(g, Len(s))
  BY <1>13
<1> USE DEF Upto
<1>3. g = [i \in 1..Len(s) |-> g[i]]
  BY <1>2
<1>4. \A i \in 1..Len(s) : g[i] = IF i = 1 THEN s[i] ELSE g[i - 1] \o s[i]
  BY <1>2
<1>5. g = [i \in 1..Len(s) |-> IF i = 1 THEN s[i] ELSE g[i - 1] \o s[i]]
  BY <1>3, <1>4, Zenon
<1>6. QED
  BY <1>5

LEMMA FlattenPartial ==
    ASSUME NEW S, NEW s \in Seq(Seq(S))
    PROVE  \E f : Partial(f, s, S) /\ FlattenSeq(s) = f[Len(s)]
<1>0. Len(s) \in Nat /\ \A i \in 1..Len(s) : s[i] \in Seq(S)
  OBVIOUS
<1>1. CASE Len(s) = 0
  <2>1. s = <<>>
    BY <1>1
  <2>2. FlattenSeq(s) = <<>>
    BY <1>1, <2>1 DEF FlattenSeq
  <2>3. Partial([i \in 0..0 |-> <<>>], s, S)
    BY <1>1 DEF Partial
  <2>4. QED
    BY <1>1, <2>2, <2>3
<1>2. CASE Len(s) # 0
  <2> DEFINE h == CHOOSE f : f = [i \in 1..Len(s) |-> IF i = 1 THEN s[i] ELSE f[i - 1] \o s[i]]
             f == [i \in 0..Len(s) |-> IF i = 0 THEN <<>> ELSE h[i]]
             Bad == {k \in 1..Len(s) : h[k] \notin Seq(S)}
  <2>1. FlattenSeq(s) = h[Len(s)]
    BY <1>2 DEF FlattenSeq
  <2>2. h = [i \in 1..Len(s) |-> IF i = 1 THEN s[i] ELSE h[i - 1] \o s[i]]
    BY <1>2, FlattenExists, Zenon
  <2> HIDE DEF h
  <2>3. \A i \in 1..Len(s) : h[i] = IF i = 1 THEN s[i] ELSE h[i - 1] \o s[i]
    BY <2>2, Zenon
  <2>4. Bad = {}
    <3>1. SUFFICES ASSUME Bad # {} PROVE FALSE
      OBVIOUS
    <3>20. Bad \subseteq Nat
      BY <1>0
    <3>2. PICK n \in Bad : \A m \in Bad : n <= m
      BY <3>1, <3>20, Least
    <3>3. n \in 1..Len(s) /\ h[n] \notin Seq(S)
      OBVIOUS
    <3>4. n # 1
      BY <3>3, <2>3, <1>0
    <3>5. n - 1 \in 1..Len(s) /\ ~ (n <= n - 1)
      BY <3>3, <3>4, <1>0
    <3>6. h[n - 1] \in Seq(S)
      BY <3>2, <3>5
    <3>7. h[n] = h[n - 1] \o s[n]
      BY <3>3, <3>4, <2>3
    <3>8. QED
      BY <3>3, <3>6, <3>7, <1>0
  <2>5. \A i \in 1..Len(s) : h[i] \in Seq(S)
    BY <2>4
  <2>6. f \in [0..Len(s) -> Seq(S)]
    BY <2>5
  <2>7. ASSUME NEW i \in 1..Len(s) PROVE f[i] = f[i - 1] \o s[i]
    <3>1. CASE i = 1
      <4>1. f[i] = s[i] /\ f[i - 1] = <<>>
        BY <3>1, <2>3
      <4>2. QED
        BY <4>1, <1>0, EmptyCat
    <3>2. CASE i # 1
      <4>1. i - 1 \in 0..Len(s) /\ i - 1 # 0 /\ i # 0
        BY <3>2
      <4>2. f[i] = h[i] /\ f[i - 1] = h[i - 1]
        BY <4>1
      <4>3. QED
        BY <4>2, <3>2, <2>3
    <3>3. QED
      BY <3>1, <3>2
  <2>8. f[0] = <<>> /\ f[Len(s)] = h[Len(s)]
    BY <1>0, <1>2
  <2> HIDE DEF f
  <2>9. Partial(f, s, S)
    BY <2>6, <2>7, <2>8 DEF Partial
  <2>10. QED
    BY <2>1, <2>8, <2>9
<1>3. QED
  BY <1>1, <1>2

LEMMA PartialAgree ==
    ASSUME NEW S, NEW s \in Seq(Seq(S)), NEW t \in Seq(Seq(S)), NEW f, NEW g,
           Partial(f, s, S), Partial(g, t, S),
           NEW k \in 0..Len(s), k <= Len(t), \A i \in 1..k : s[i] = t[i]
    PROVE  f[k] = g[k]
<1> DEFINE Bad == {i \in 0..k : f[i] # g[i]}
<1>0. Len(s) \in Nat /\ Len(t) \in Nat
  OBVIOUS
<1>1. Bad = {}
  <2>1. SUFFICES ASSUME Bad # {} PROVE FALSE
    OBVIOUS
  <2>2. Bad \subseteq Nat
    BY <1>0
  <2>3. PICK n \in Bad : \A m \in Bad : n <= m
    BY <2>1, <2>2, Least
  <2>4. n \in 0..k /\ f[n] # g[n]
    OBVIOUS
  <2>5. n # 0
    BY <2>4 DEF Partial
  <2>6. n - 1 \in 0..k /\ n \in 1..k /\ n \in 1..Len(s) /\ n \in 1..Len(t) /\ ~ (n <= n - 1)
    BY <2>4, <2>5, <1>0
  <2>7. f[n - 1] = g[n - 1]
    BY <2>3, <2>6
  <2>8. QED
    BY <2>4, <2>6, <2>7 DEF Partial
<1>2. k \in 0..k
  BY <1>0
<1>3. QED
  BY <1>1, <1>2

\* What the first messages make is the beginning of what more of them make.
LEMMA PartialPrefix ==
    ASSUME NEW S, NEW s \in Seq(Seq(S)), NEW f, Partial(f, s, S),
           NEW j \in 0..Len(s), NEW k \in j..Len(s)
    PROVE  Len(f[j]) <= Len(f[k]) /\ \A p \in 1..Len(f[j]) : f[k][p] = f[j][p]
<1> DEFINE P(i) == Len(f[j]) <= Len(f[i]) /\ \A p \in 1..Len(f[j]) : f[i][p] = f[j][p]
           Bad == {i \in j..Len(s) : ~P(i)}
<1>0. Len(s) \in Nat /\ \A i \in 0..Len(s) : f[i] \in Seq(S) /\ Len(f[i]) \in Nat
  BY DEF Partial
<1>1. Bad = {}
  <2>1. SUFFICES ASSUME Bad # {} PROVE FALSE
    OBVIOUS
  <2>2. Bad \subseteq Nat
    BY <1>0
  <2>3. PICK n \in Bad : \A m \in Bad : n <= m
    BY <2>1, <2>2, Least
  <2>4. n \in j..Len(s) /\ ~P(n)
    OBVIOUS
  <2>5. n # j
    <3>1. j \in 0..Len(s)
      OBVIOUS
    <3>2. P(j)
      BY <3>1, <1>0
    <3>3. QED
      BY <2>4, <3>2
  <2>6. n - 1 \in j..Len(s) /\ n - 1 \in 0..Len(s) /\ n \in 1..Len(s) /\ ~ (n <= n - 1)
    BY <2>4, <2>5, <1>0
  <2>7. P(n - 1)
    <3> HIDE DEF P
    <3>1. QED
      BY <2>3, <2>6
  <2>8. f[n] = f[n - 1] \o s[n] /\ f[n - 1] \in Seq(S) /\ s[n] \in Seq(S)
    BY <2>6, PartialStep
  <2>9. /\ Len(f[n - 1]) <= Len(f[n]) /\ Len(f[n]) \in Nat
        /\ \A p \in 1..Len(f[n - 1]) : f[n][p] = f[n - 1][p]
    <3> DEFINE a == f[n - 1]
               b == s[n]
    <3>1. a \in Seq(S) /\ b \in Seq(S) /\ f[n] = a \o b
      BY <2>8
    <3> HIDE DEF a, b
    <3>2. Len(a) <= Len(f[n]) /\ \A p \in 1..Len(a) : f[n][p] = a[p]
      BY <3>1, CatIndex
    <3>3. QED
      BY <3>2, <2>4, <1>0 DEF a
  <2>11. Len(f[j]) \in Nat /\ Len(f[n - 1]) \in Nat
    BY <2>6, <1>0
  <2>14. Len(f[j]) <= Len(f[n - 1]) /\ \A p \in 1..Len(f[j]) : f[n - 1][p] = f[j][p]
    BY <2>7
  <2>12. P(n)
    <3> DEFINE a == Len(f[j])
               b == Len(f[n - 1])
               c == Len(f[n])
    <3>1. a \in Nat /\ b \in Nat /\ c \in Nat /\ a <= b /\ b <= c
      BY <2>9, <2>11, <2>14
    <3>2. (\A p \in 1..a : f[n - 1][p] = f[j][p]) /\ (\A p \in 1..b : f[n][p] = f[n - 1][p])
      BY <2>9, <2>14
    <3> HIDE DEF a, b, c
    <3>3. a <= c /\ \A p \in 1..a : p \in 1..b
      BY <3>1
    <3>4. \A p \in 1..a : f[n][p] = f[j][p]
      BY <3>2, <3>3
    <3>5. QED
      BY <3>3, <3>4 DEF a, c
  <2>13. QED
    BY <2>4, <2>12
<1> HIDE DEF P
<1>2. P(k)
  BY <1>1
<1>3. QED
  BY <1>2 DEF P

\* What the first k of the sequences in s make.
Cat(s, k) == FlattenSeq(SubSeq(s, 1, k))

LEMMA CatPartial ==
    ASSUME NEW S, NEW s \in Seq(Seq(S)), NEW f, Partial(f, s, S), NEW k \in 0..Len(s)
    PROVE  Cat(s, k) = f[k]
<1> DEFINE t == SubSeq(s, 1, k)
<1>1. t \in Seq(Seq(S)) /\ Len(t) = k /\ \A i \in 1..k : t[i] = s[i]
  OBVIOUS
<1> HIDE DEF t
<1>2. PICK g : Partial(g, t, S) /\ FlattenSeq(t) = g[Len(t)]
  BY <1>1, FlattenPartial
<1>3. k \in 0..Len(t) /\ k <= Len(s)
  BY <1>1
<1>4. g[k] = f[k]
  BY <1>1, <1>2, <1>3, PartialAgree
<1>5. QED
  BY <1>1, <1>2, <1>4 DEF Cat, t

LEMMA CatFacts ==
    ASSUME NEW S, NEW s \in Seq(Seq(S))
    PROVE  /\ Cat(s, 0) = <<>> /\ Cat(s, Len(s)) = FlattenSeq(s)
           /\ \A k \in 0..Len(s) : Cat(s, k) \in Seq(S)
           /\ \A k \in 1..Len(s) : Cat(s, k) = Cat(s, k - 1) \o s[k]
<1>1. PICK f : Partial(f, s, S) /\ FlattenSeq(s) = f[Len(s)]
  BY FlattenPartial
<1>2. \A k \in 0..Len(s) : Cat(s, k) = f[k]
  BY <1>1, CatPartial
<1>3. Len(s) \in 0..Len(s) /\ 0 \in 0..Len(s)
      /\ \A k \in 1..Len(s) : k \in 0..Len(s) /\ k - 1 \in 0..Len(s)
  OBVIOUS
<1>4. QED
  BY <1>1, <1>2, <1>3 DEF Partial

\* Where the bytes of a message are in what all of them make.
LEMMA CatByte ==
    ASSUME NEW S, NEW s \in Seq(Seq(S)), NEW k \in 1..Len(s)
    PROVE  /\ FlattenSeq(s) \in Seq(S)
           /\ Len(Cat(s, k - 1)) \in Nat /\ Len(s[k]) \in Nat
           /\ Len(Cat(s, k)) = Len(Cat(s, k - 1)) + Len(s[k])
           /\ Len(Cat(s, k)) <= Len(FlattenSeq(s))
           /\ \A p \in 1..Len(s[k]) : FlattenSeq(s)[Len(Cat(s, k - 1)) + p] = s[k][p]
<1>0. Len(s) \in Nat /\ k \in 0..Len(s) /\ k - 1 \in 0..Len(s) /\ Len(s) \in k..Len(s)
  OBVIOUS
<1>1. PICK f : Partial(f, s, S) /\ FlattenSeq(s) = f[Len(s)]
  BY FlattenPartial
<1>2. Cat(s, k) = f[k] /\ Cat(s, k - 1) = f[k - 1]
  BY <1>0, <1>1, CatPartial
<1>3. f[k - 1] \in Seq(S) /\ s[k] \in Seq(S) /\ f[k] = f[k - 1] \o s[k]
  BY <1>0, <1>1, PartialStep
<1>8. f[Len(s)] \in Seq(S)
  <2>1. f \in [0..Len(s) -> Seq(S)] /\ Len(s) \in 0..Len(s)
    BY <1>0, <1>1 DEF Partial
  <2>2. QED
    BY <2>1
<1>4. Len(f[k]) <= Len(f[Len(s)]) /\ \A p \in 1..Len(f[k]) : f[Len(s)][p] = f[k][p]
  BY <1>0, <1>1, PartialPrefix
<1> DEFINE a == f[k - 1]
           b == s[k]
<1>5. a \in Seq(S) /\ b \in Seq(S) /\ f[k] = a \o b
  BY <1>3
<1> HIDE DEF a, b
<1>6. /\ Len(a) \in Nat /\ Len(b) \in Nat /\ Len(f[k]) = Len(a) + Len(b)
      /\ \A p \in 1..Len(b) : Len(a) + p \in 1..Len(f[k]) /\ f[k][Len(a) + p] = b[p]
  <2>1. /\ Len(a) \in Nat /\ Len(b) \in Nat /\ Len(a \o b) = Len(a) + Len(b)
        /\ \A p \in 1..Len(b) : Len(a) + p \in 1..Len(a \o b) /\ (a \o b)[Len(a) + p] = b[p]
    BY <1>5, CatIndex
  <2>2. QED
    BY <1>5, <2>1, Zenon
<1>7. \A p \in 1..Len(b) : f[Len(s)][Len(a) + p] = b[p]
  BY <1>4, <1>6
<1>9. QED
  BY <1>1, <1>2, <1>4, <1>6, <1>7, <1>8 DEF a, b

LEMMA FlattenAppend ==
    ASSUME NEW S, NEW s \in Seq(Seq(S)), NEW e \in Seq(S)
    PROVE  FlattenSeq(Append(s, e)) = FlattenSeq(s) \o e
<1> DEFINE t == Append(s, e)
<1>1. /\ t \in Seq(Seq(S)) /\ Len(t) = Len(s) + 1 /\ Len(s) \in Nat /\ t[Len(t)] = e
      /\ SubSeq(t, 1, Len(t) - 1) = s
  OBVIOUS
<1> HIDE DEF t
<1>2. Len(t) \in 1..Len(t)
  BY <1>1
<1>3. FlattenSeq(t) = Cat(t, Len(t)) /\ Cat(t, Len(t)) = Cat(t, Len(t) - 1) \o t[Len(t)]
  BY <1>1, <1>2, CatFacts
<1>4. QED
  BY <1>1, <1>3 DEF Cat, t

LEMMA FlattenEmpty == FlattenSeq(<<>>) = <<>>
  BY DEF FlattenSeq

-----------------------------------------------------------------------------
(* The LEN field                                                           *)

LEMMA Division ==
    ASSUME NEW n \in Nat, NEW q, NEW r, q = n \div Radix, r = n % Radix
    PROVE  /\ q \in Nat /\ r \in 0..Radix - 1 /\ n = Radix * q + r
           /\ n >= Radix => q < n
<1>1. Radix \in Nat /\ Radix > 1
  BY FrameAssumption
<1>2. q \in Nat /\ r \in 0..Radix - 1
  BY <1>1
<1>3. n = Radix * q + r
  BY <1>1, <1>2, SMTT(30)
<1>4. n >= Radix => q < n
  BY <1>1
<1>5. QED
  BY <1>2, <1>3, <1>4

\* f[n] is the LEN field of n, for n up to k.
IsDigits(f, k) ==
    /\ f \in [0..k -> Seq(Byte)]
    /\ \A n \in 0..k : f[n] = IF n < Radix THEN <<n>>
                              ELSE <<Radix + (n % Radix)>> \o f[n \div Radix]

LEMMA DigitByte ==
    ASSUME NEW n \in Nat
    PROVE  /\ n < Radix => <<n>> \in Seq(Byte)
           /\ <<Radix + (n % Radix)>> \in Seq(Byte)
<1>1. Radix \in Nat /\ Radix > 1
  BY FrameAssumption
<1>2. n % Radix \in 0..Radix - 1
  BY Division
<1>3. (n < Radix => n \in Byte) /\ Radix + (n % Radix) \in Byte
  BY <1>1, <1>2 DEF Byte
<1>4. QED
  BY <1>3

LEMMA DigitsExist == ASSUME NEW k \in Nat PROVE \E f : IsDigits(f, k)
<1> DEFINE Bad == {n \in Nat : ~ \E f : IsDigits(f, n)}
<1>1. Bad = {}
  <2>1. SUFFICES ASSUME Bad # {} PROVE FALSE
    OBVIOUS
  <2>2. PICK n \in Bad : \A m \in Bad : n <= m
    BY <2>1, Least
  <2>3. n \in Nat /\ ~ \E f : IsDigits(f, n)
    OBVIOUS
  <2>4. Radix \in Nat /\ Radix > 1
    BY FrameAssumption
  <2>5. PICK f : f \in [0..n - 1 -> Seq(Byte)] /\ (n # 0 => IsDigits(f, n - 1))
    <3>1. CASE n = 0
      <4>1. [i \in 0..n - 1 |-> <<>>] \in [0..n - 1 -> Seq(Byte)]
        BY <3>1
      <4>2. QED
        BY <4>1, <3>1
    <3>2. CASE n # 0
      <4>1. n - 1 \in Nat /\ ~ (n <= n - 1)
        BY <2>3, <3>2
      <4>2. \E f : IsDigits(f, n - 1)
        BY <4>1, <2>2
      <4>3. QED
        BY <4>2 DEF IsDigits
    <3>3. QED
      BY <3>1, <3>2
  <2>6. \A m \in 0..n : m >= Radix => m \div Radix \in 0..n - 1 /\ m \div Radix # n
    <3>1. ASSUME NEW m \in 0..n, m >= Radix PROVE m \div Radix \in 0..n - 1 /\ m \div Radix # n
      <4>1. m \in Nat
        BY <2>3
      <4>2. m \div Radix \in Nat /\ m \div Radix < m
        BY <4>1, <3>1, Division
      <4>3. QED
        BY <4>2, <2>3, <3>1
    <3>2. QED
      BY <3>1
  <2> DEFINE e == IF n < Radix THEN <<n>> ELSE <<Radix + (n % Radix)>> \o f[n \div Radix]
             g == [m \in 0..n |-> IF m = n THEN e ELSE f[m]]
  <2>7. e \in Seq(Byte)
    <3>1. n < Radix => <<n>> \in Seq(Byte)
      BY <2>3, DigitByte
    <3>2. CASE n >= Radix
      <4>1. n \div Radix \in 0..n - 1
        BY <2>3, <2>6, <3>2
      <4>2. f[n \div Radix] \in Seq(Byte) /\ <<Radix + (n % Radix)>> \in Seq(Byte)
        BY <4>1, <2>3, <2>5, DigitByte
      <4>3. <<Radix + (n % Radix)>> \o f[n \div Radix] \in Seq(Byte)
        BY <4>2, CatIndex
      <4>4. ~ (n < Radix)
        BY <2>3, <2>4, <3>2
      <4>5. QED
        BY <4>3, <4>4
    <3>3. QED
      BY <3>1, <3>2, <2>3, <2>4
  <2> HIDE DEF e
  <2>8. g \in [0..n -> Seq(Byte)]
    <3>1. ASSUME NEW m \in 0..n, m # n PROVE f[m] \in Seq(Byte)
      <4>1. m \in 0..n - 1
        BY <2>3, <3>1
      <4>2. QED
        BY <4>1, <2>5
    <3>2. QED
      BY <3>1, <2>7
  <2>9. ASSUME NEW m \in 0..n
        PROVE  g[m] = IF m < Radix THEN <<m>> ELSE <<Radix + (m % Radix)>> \o g[m \div Radix]
    <3>1. ~ (m < Radix) => g[m \div Radix] = f[m \div Radix]
      <4>1. ~ (m < Radix) => m >= Radix
        BY <2>3, <2>4
      <4>2. ~ (m < Radix) => m \div Radix \in 0..n /\ m \div Radix # n
        BY <4>1, <2>3, <2>6
      <4>3. QED
        BY <4>2
    <3>2. CASE m = n
      <4>1. g[m] = e
        BY <3>2
      <4>2. e = IF m < Radix THEN <<m>> ELSE <<Radix + (m % Radix)>> \o f[m \div Radix]
        BY <3>2 DEF e
      <4> HIDE DEF g
      <4>3. QED
        BY <4>1, <4>2, <3>1, Zenon
    <3>3. CASE m # n
      <4>1. m \in 0..n - 1 /\ n # 0
        BY <2>3, <3>3
      <4>2. f[m] = IF m < Radix THEN <<m>> ELSE <<Radix + (m % Radix)>> \o f[m \div Radix]
        BY <4>1, <2>5, Zenon DEF IsDigits
      <4>3. g[m] = f[m]
        BY <3>3
      <4> HIDE DEF g
      <4>4. QED
        BY <4>2, <4>3, <3>1, Zenon
    <3>4. QED
      BY <3>2, <3>3
  <2> HIDE DEF g
  <2>10. IsDigits(g, n)
    BY <2>8, <2>9 DEF IsDigits
  <2>11. QED
    BY <2>3, <2>10
<1>2. QED
  BY <1>1

LEMMA DigitsUnique ==
    ASSUME NEW j \in Nat, NEW k \in Nat, NEW f, NEW g, IsDigits(f, j), IsDigits(g, k),
           NEW n \in Nat, n <= j, n <= k
    PROVE  f[n] = g[n]
<1> DEFINE Bad == {m \in 0..n : f[m] # g[m]}
<1>1. Bad = {}
  <2>1. SUFFICES ASSUME Bad # {} PROVE FALSE
    OBVIOUS
  <2>2. Bad \subseteq Nat
    OBVIOUS
  <2>3. PICK m \in Bad : \A i \in Bad : m <= i
    BY <2>1, <2>2, Least
  <2>4. m \in 0..n /\ m \in 0..j /\ m \in 0..k /\ m \in Nat /\ f[m] # g[m]
    OBVIOUS
  <2>5. /\ f[m] = IF m < Radix THEN <<m>> ELSE <<Radix + (m % Radix)>> \o f[m \div Radix]
        /\ g[m] = IF m < Radix THEN <<m>> ELSE <<Radix + (m % Radix)>> \o g[m \div Radix]
    BY <2>4, Zenon DEF IsDigits
  <2>6. ~ (m < Radix)
    BY <2>4, <2>5, Zenon
  <2>7. m >= Radix /\ Radix \in Nat
    BY <2>4, <2>6, FrameAssumption
  <2>8. m \div Radix \in Nat /\ m \div Radix < m
    BY <2>4, <2>7, Division
  <2>9. m \div Radix \in 0..n /\ ~ (m <= m \div Radix)
    BY <2>4, <2>8
  <2>10. f[m \div Radix] = g[m \div Radix]
    BY <2>3, <2>9
  <2>11. QED
    BY <2>4, <2>5, <2>10, Zenon
<1>2. n \in 0..n
  OBVIOUS
<1>3. QED
  BY <1>1, <1>2

LEMMA CLengthIs ==
    ASSUME NEW n \in Nat
    PROVE  /\ CLength[n] = IF n < Radix THEN <<n>>
                           ELSE <<Radix + (n % Radix)>> \o CLength[n \div Radix]
           /\ CLength[n] \in Seq(Byte)
<1> DEFINE F(k) == CHOOSE f : IsDigits(f, k)
           g == [k \in Nat |-> F(k)[k]]
<1>1. \A k \in Nat : IsDigits(F(k), k)
  BY DigitsExist, Zenon
<1> HIDE DEF F
<1>2. ASSUME NEW k \in Nat
      PROVE  g[k] = IF k < Radix THEN <<k>> ELSE <<Radix + (k % Radix)>> \o g[k \div Radix]
  <2>1. k \in 0..k
    OBVIOUS
  <2>2. F(k)[k] = IF k < Radix THEN <<k>> ELSE <<Radix + (k % Radix)>> \o F(k)[k \div Radix]
    BY <1>1, <2>1, Zenon DEF IsDigits
  <2>3. ~ (k < Radix) => g[k \div Radix] = F(k)[k \div Radix]
    <3>1. SUFFICES ASSUME ~ (k < Radix) PROVE g[k \div Radix] = F(k)[k \div Radix]
      OBVIOUS
    <3>2. k >= Radix
      BY <3>1, FrameAssumption
    <3>3. k \div Radix \in Nat /\ k \div Radix <= k /\ k \div Radix <= k \div Radix
      BY <3>2, Division, FrameAssumption
    <3>4. F(k \div Radix)[k \div Radix] = F(k)[k \div Radix]
      <4>1. IsDigits(F(k), k) /\ IsDigits(F(k \div Radix), k \div Radix)
        BY <1>1, <3>3, Zenon
      <4>2. QED
        BY <4>1, <3>3, DigitsUnique
    <3>5. QED
      BY <3>3, <3>4
  <2>4. g[k] = F(k)[k]
    OBVIOUS
  <2> HIDE DEF g
  <2>5. QED
    BY <2>2, <2>3, <2>4, Zenon
<1>3. g = [k \in Nat |-> g[k]]
  OBVIOUS
<1> HIDE DEF g
<1>4. g = [k \in Nat |-> IF k < Radix THEN <<k>> ELSE <<Radix + (k % Radix)>> \o g[k \div Radix]]
  BY <1>2, <1>3, Zenon
<1>5. CLength = [k \in Nat |-> IF k < Radix THEN <<k>>
                               ELSE <<Radix + (k % Radix)>> \o CLength[k \div Radix]]
  BY <1>4, Zenon DEF CLength
<1>6. \A k \in Nat : CLength[k] = IF k < Radix THEN <<k>>
                                  ELSE <<Radix + (k % Radix)>> \o CLength[k \div Radix]
  BY <1>5, Zenon
<1>7. \A k \in Nat : CLength[k] \in Seq(Byte)
  <2> DEFINE Bad == {k \in Nat : CLength[k] \notin Seq(Byte)}
  <2>1. Bad = {}
    <3>1. SUFFICES ASSUME Bad # {} PROVE FALSE
      OBVIOUS
    <3>2. PICK k \in Bad : \A m \in Bad : k <= m
      BY <3>1, Least
    <3>3. k \in Nat /\ CLength[k] \notin Seq(Byte)
      OBVIOUS
    <3>4. ~ (k < Radix)
      BY <3>3, <1>6, DigitByte, Zenon
    <3>5. k >= Radix
      BY <3>3, <3>4, FrameAssumption
    <3>6. k \div Radix \in Nat /\ ~ (k <= k \div Radix)
      BY <3>3, <3>5, Division
    <3>7. CLength[k \div Radix] \in Seq(Byte) /\ <<Radix + (k % Radix)>> \in Seq(Byte)
      BY <3>2, <3>3, <3>6, DigitByte
    <3>8. <<Radix + (k % Radix)>> \o CLength[k \div Radix] \in Seq(Byte)
      BY <3>7, CatIndex
    <3>9. QED
      BY <3>3, <3>4, <3>8, <1>6, Zenon
  <2>2. QED
    BY <2>1
<1>8. QED
  BY <1>6, <1>7

\* All bytes of a LEN field but the last one say that another one follows.
IsField(s) ==
    /\ s \in Seq(Byte) /\ Len(s) \in Nat /\ Len(s) >= 1
    /\ \A i \in 1..Len(s) : s[i] \in Byte
    /\ \A i \in 1..Len(s) : i # Len(s) => Continues(s[i])
    /\ ~Continues(s[Len(s)])

LEMMA OneByteField ==
    ASSUME NEW n \in Nat, n < Radix
    PROVE  CLength[n] = <<n>> /\ IsField(CLength[n])
<1>1. CLength[n] = <<n>>
  BY CLengthIs, Zenon
<1>2. n \in Byte /\ ~ (n >= Radix)
  BY FrameAssumption DEF Byte
<1>3. QED
  BY <1>1, <1>2 DEF IsField, Continues

LEMMA ConsField ==
    ASSUME NEW s, IsField(s), NEW b \in Byte, Continues(b)
    PROVE  /\ IsField(<<b>> \o s) /\ Len(<<b>> \o s) = 1 + Len(s)
           /\ (<<b>> \o s)[1] = b /\ \A i \in 1..Len(s) : (<<b>> \o s)[1 + i] = s[i]
<1> DEFINE t == <<b>> \o s
           k == Len(s)
<1>1. s \in Seq(Byte) /\ k \in Nat /\ k >= 1
  BY DEF IsField
<1>2. t \in Seq(Byte) /\ Len(t) = 1 + k /\ t[1] = b /\ \A i \in 1..k : t[1 + i] = s[i]
  BY <1>1
<1>3. /\ \A i \in 1..k : s[i] \in Byte /\ (i # k => Continues(s[i]))
      /\ ~Continues(s[k])
  BY DEF IsField
<1> HIDE DEF t, k
<1>4. 1 + k \in Nat /\ 1 + k >= 1 /\ k \in 1..k
  BY <1>1
<1>5. \A i \in 1..1 + k : i = 1 \/ \E j \in 1..k : i = 1 + j /\ (i # 1 + k => j # k)
  <2>1. ASSUME NEW i \in 1..1 + k, i # 1
        PROVE  i - 1 \in 1..k /\ i = 1 + (i - 1) /\ (i # 1 + k => i - 1 # k)
    BY <1>1, <2>1
  <2>2. QED
    BY <2>1
<1>6. \A i \in 1..1 + k : t[i] \in Byte /\ (i # 1 + k => Continues(t[i]))
  BY <1>2, <1>3, <1>5
<1>7. ~Continues(t[1 + k])
  BY <1>2, <1>3, <1>4
<1>8. IsField(t)
  BY <1>2, <1>4, <1>6, <1>7 DEF IsField
<1>9. QED
  BY <1>2, <1>8 DEF t, k

LEMMA LengthField == ASSUME NEW n \in Nat PROVE IsField(CLength[n])
<1> DEFINE Bad == {k \in Nat : ~IsField(CLength[k])}
<1>1. Bad = {}
  <2>1. SUFFICES ASSUME Bad # {} PROVE FALSE
    OBVIOUS
  <2>2. PICK k \in Bad : \A m \in Bad : k <= m
    BY <2>1, Least
  <2>3. k \in Nat /\ ~IsField(CLength[k])
    OBVIOUS
  <2>4. ~ (k < Radix)
    BY <2>3, OneByteField
  <2>5. Radix \in Nat /\ Radix > 1 /\ k >= Radix
    BY <2>3, <2>4, FrameAssumption
  <2>6. k \div Radix \in Nat /\ ~ (k <= k \div Radix) /\ k % Radix \in 0..Radix - 1
    BY <2>3, <2>5, Division
  <2>7. IsField(CLength[k \div Radix])
    BY <2>2, <2>6
  <2>8. Radix + (k % Radix) \in Byte /\ Continues(Radix + (k % Radix))
    BY <2>5, <2>6 DEF Byte, Continues
  <2>9. CLength[k] = <<Radix + (k % Radix)>> \o CLength[k \div Radix]
    BY <2>3, <2>4, CLengthIs, Zenon
  <2>10. QED
    BY <2>3, <2>7, <2>8, <2>9, ConsField
<1>2. QED
  BY <1>1

\* The decoders find the end of the field in what begins with it.
LEMMA SizeOfField ==
    ASSUME NEW s, IsField(s), NEW t \in Seq(Byte), Len(s) <= Len(t),
           \A i \in 1..Len(s) : t[i] = s[i]
    PROVE  LengthSize(t) = Len(s)
<1> DEFINE k == Len(s)
           P(j) == ~Continues(t[j]) /\ \A i \in 1..j - 1 : Continues(t[i])
<1>1. k \in Nat /\ k >= 1 /\ DOMAIN t = 1..Len(t) /\ Len(t) \in Nat /\ k <= Len(t)
  BY DEF IsField
<1>2. ~Continues(t[k]) /\ \A i \in 1..k : i # k => Continues(t[i])
  BY <1>1 DEF IsField
<1> HIDE DEF k
<1>3. k \in DOMAIN t /\ P(k)
  BY <1>1, <1>2
<1>4. ASSUME NEW j \in DOMAIN t, P(j) PROVE j = k
  <2>1. j \in Nat /\ j >= 1
    BY <1>1, <1>4
  <2>2. ~ (j < k)
    BY <2>1, <1>1, <1>2, <1>4
  <2>3. ~ (k < j)
    BY <2>1, <1>1, <1>2, <1>4
  <2>4. QED
    BY <2>1, <2>2, <2>3, <1>1
<1> HIDE DEF P
<1>5. (CHOOSE j \in DOMAIN t : P(j)) = k
  BY <1>3, <1>4
<1>6. QED
  BY <1>5 DEF LengthSize, P, k

-----------------------------------------------------------------------------
(* Packets                                                                 *)

LEMMA Constants ==
    /\ START \in Byte /\ END \in Byte /\ NL \in Byte /\ 0 \in Byte
    /\ START < Radix /\ END < Radix /\ START # END /\ START # NL /\ END # NL
    /\ Radix \in Nat /\ Radix > 1
  BY FrameAssumption DEF Byte

\* e is the message m as a packet with this source line.
Packs(e, m, line) ==
    LET n == Len(m.payload)
        k == Len(CLength[n])
    IN  /\ e \in Seq(Byte) /\ Len(e) = 6 + k + n
        /\ e[1] = START /\ e[2] = m.type /\ e[3] = line /\ e[4] = m.dline /\ e[5] = 0
        /\ \A i \in 1..k : e[5 + i] = CLength[n][i]
        /\ \A i \in 1..n : e[5 + k + i] = m.payload[i]
        /\ e[6 + k + n] = END

LEMMA MessageFields ==
    ASSUME NEW m \in Message
    PROVE  /\ m.kind \in {"host", "board", "net", "text"}
           /\ m.type \in Byte /\ m.dline \in Byte /\ m.sline \in Byte
           /\ m.payload \in Seq(Byte) /\ Len(m.payload) \in Nat
           /\ IsField(CLength[Len(m.payload)])
           /\ \A i \in 1..Len(m.payload) : m.payload[i] \in Byte
<1>1. m.payload \in Seq(Byte)
  BY DEF Message
<1>2. Len(m.payload) \in Nat /\ \A i \in 1..Len(m.payload) : m.payload[i] \in Byte
  BY <1>1
<1>3. QED
  BY <1>1, <1>2, LengthField DEF Message

LEMMA CatBytes ==
    \A s, t \in Seq(Byte) :
        /\ s \o t \in Seq(Byte) /\ Len(s) \in Nat /\ Len(t) \in Nat
        /\ Len(s \o t) = Len(s) + Len(t)
        /\ \A p \in 1..Len(s) : p \in 1..Len(s \o t) /\ (s \o t)[p] = s[p]
        /\ \A p \in 1..Len(t) : Len(s) + p \in 1..Len(s \o t) /\ (s \o t)[Len(s) + p] = t[p]
  BY CatIndex

\* e is five bytes, two sequences and one more byte behind each other.
InParts(e, a, b, c, d) ==
    /\ e \in Seq(Byte) /\ Len(e) = 6 + Len(b) + Len(c)
    /\ \A i \in 1..5 : e[i] = a[i]
    /\ \A i \in 1..Len(b) : e[5 + i] = b[i]
    /\ \A i \in 1..Len(c) : e[5 + Len(b) + i] = c[i]
    /\ e[6 + Len(b) + Len(c)] = d

LEMMA FourParts ==
    ASSUME NEW a \in Seq(Byte), NEW b \in Seq(Byte), NEW c \in Seq(Byte), NEW d \in Byte,
           Len(a) = 5, NEW e, e = a \o b \o c \o <<d>>
    PROVE  InParts(e, a, b, c, d)
<1> DEFINE x == a \o b
           y == x \o c
           p == Len(b)
           q == Len(c)
<1>10. x = a \o b /\ y = x \o c /\ p = Len(b) /\ q = Len(c) /\ e = y \o <<d>>
  OBVIOUS
<1> HIDE DEF x, y, p, q
<1>1. /\ x \in Seq(Byte) /\ p \in Nat /\ Len(x) = 5 + p
      /\ \A i \in 1..5 : i \in 1..Len(x) /\ x[i] = a[i]
      /\ \A i \in 1..p : 5 + i \in 1..Len(x) /\ x[5 + i] = b[i]
  <2>1. /\ a \o b \in Seq(Byte) /\ Len(a) \in Nat /\ Len(b) \in Nat
        /\ Len(a \o b) = Len(a) + Len(b)
        /\ \A i \in 1..Len(a) : i \in 1..Len(a \o b) /\ (a \o b)[i] = a[i]
        /\ \A i \in 1..Len(b) : /\ Len(a) + i \in 1..Len(a \o b)
                               /\ (a \o b)[Len(a) + i] = b[i]
    BY CatBytes, Zenon
  <2>2. QED
    BY <2>1, <1>10, Zenon
<1>2. /\ y \in Seq(Byte) /\ q \in Nat /\ Len(y) = Len(x) + q
      /\ \A i \in 1..Len(x) : i \in 1..Len(y) /\ y[i] = x[i]
      /\ \A i \in 1..q : Len(x) + i \in 1..Len(y) /\ y[Len(x) + i] = c[i]
  <2>1. /\ x \o c \in Seq(Byte) /\ Len(x) \in Nat /\ Len(c) \in Nat
        /\ Len(x \o c) = Len(x) + Len(c)
        /\ \A i \in 1..Len(x) : i \in 1..Len(x \o c) /\ (x \o c)[i] = x[i]
        /\ \A i \in 1..Len(c) : /\ Len(x) + i \in 1..Len(x \o c)
                               /\ (x \o c)[Len(x) + i] = c[i]
    BY <1>1, CatBytes, Zenon
  <2>2. QED
    BY <2>1, <1>10, Zenon
<1>3. /\ e \in Seq(Byte) /\ Len(e) = Len(y) + 1
      /\ \A i \in 1..Len(y) : e[i] = y[i]
      /\ e[Len(y) + 1] = d
  BY <1>2, <1>10
<1>4. Len(x) = 5 + p /\ Len(y) = 5 + p + q /\ Len(y) + 1 = 6 + p + q
  BY <1>1, <1>2
<1>5. \A i \in 1..5 : e[i] = a[i]
  BY <1>1, <1>2, <1>3
<1>6. \A i \in 1..p : e[5 + i] = b[i]
  BY <1>1, <1>2, <1>3
<1>7. \A i \in 1..q : e[5 + p + i] = c[i]
  BY <1>2, <1>3, <1>4
<1>8. e \in Seq(Byte) /\ Len(e) = 6 + p + q /\ e[6 + p + q] = d
  BY <1>3, <1>4
<1>9. QED
  BY <1>5, <1>6, <1>7, <1>8 DEF InParts, x, y, p, q

LEMMA MarshallPacks ==
    ASSUME NEW m \in Message, Len(m.payload) # 0
    PROVE  Packs(Marshall(m), m, 0)
<1> DEFINE a == <<START, m.type, 0, m.dline, 0>>
           b == CLength[Len(m.payload)]
           c == m.payload
           e == a \o b \o c \o <<END>>
<1>1. a \in Seq(Byte) /\ Len(a) = 5
  BY MessageFields, Constants
<1>2. b \in Seq(Byte) /\ c \in Seq(Byte) /\ END \in Byte /\ Len(b) \in Nat /\ Len(c) \in Nat
  BY MessageFields, Constants DEF IsField
<1>3. a[1] = START /\ a[2] = m.type /\ a[3] = 0 /\ a[4] = m.dline /\ a[5] = 0
  OBVIOUS
<1>4. Marshall(m) = e
  BY DEF Marshall, PyLength
<1>40. e = a \o b \o c \o <<END>>
  OBVIOUS
<1> HIDE DEF a, b, c, e
<1>5. InParts(e, a, b, c, END)
  BY <1>1, <1>2, <1>40, FourParts, Zenon
<1>6. e[1] = START /\ e[2] = m.type /\ e[3] = 0 /\ e[4] = m.dline /\ e[5] = 0
  <2>1. 1 \in 1..5 /\ 2 \in 1..5 /\ 3 \in 1..5 /\ 4 \in 1..5 /\ 5 \in 1..5
    OBVIOUS
  <2>2. QED
    BY <2>1, <1>3, <1>5 DEF InParts
<1>7. QED
  BY <1>4, <1>5, <1>6 DEF InParts, Packs, b, c

LEMMA MarshallBytes ==
    ASSUME NEW m \in Message
    PROVE  Marshall(m) \in Seq(Byte) /\ Len(Marshall(m)) > 2 /\ Marshall(m)[1] = START
<1> DEFINE a == <<START, m.type, 0, m.dline, 0>>
           b == PyLength(Len(m.payload))
           c == m.payload
<1>1. a \in Seq(Byte) /\ Len(a) = 5 /\ c \in Seq(Byte) /\ END \in Byte
  BY MessageFields, Constants
<1>2. b \in Seq(Byte)
  BY MessageFields DEF PyLength, IsField
<1>3. Marshall(m) = a \o b \o c \o <<END>>
  BY DEF Marshall
<1> HIDE DEF a, b, c
<1> DEFINE e == Marshall(m)
<1>31. a[1] = START
  BY DEF a
<1> HIDE DEF e
<1>4. e \in Seq(Byte) /\ Len(e) = 6 + Len(b) + Len(c) /\ \A i \in 1..5 : e[i] = a[i]
  <2>1. e = a \o b \o c \o <<END>>
    BY <1>3 DEF e
  <2>2. InParts(e, a, b, c, END)
    BY <2>1, <1>1, <1>2, FourParts, Zenon
  <2>3. QED
    BY <2>2 DEF InParts
<1>5. Len(b) \in Nat /\ Len(c) \in Nat
  BY <1>1, <1>2
<1>6. QED
  BY <1>31, <1>4, <1>5 DEF e

\* Packet.packet writes the line id into the packet.
LEMMA StampPacks ==
    ASSUME NEW e, NEW m \in Message, Packs(e, m, 0)
    PROVE  Packs([e EXCEPT ![3] = m.sline], m, m.sline)
<1> DEFINE f == [e EXCEPT ![3] = m.sline]
           n == Len(m.payload)
           k == Len(CLength[n])
<1>1. /\ e \in Seq(Byte) /\ Len(e) = 6 + k + n /\ n \in Nat /\ k \in Nat /\ k >= 1
      /\ m.sline \in Byte
  BY MessageFields DEF Packs, IsField
<1>2. /\ f \in Seq(Byte) /\ Len(f) = Len(e) /\ f[3] = m.sline
      /\ \A i \in 1..Len(e) : i # 3 => f[i] = e[i]
  <2> DEFINE z == Len(e)
  <2>10. z \in Nat /\ z = 6 + k + n
    <3> HIDE DEF k, n
    <3>1. QED
      BY <1>1
  <2>11. e \in [1..z -> Byte]
    <3> HIDE DEF k, n
    <3>1. QED
      BY <1>1
  <2>1. e \in [1..z -> Byte] /\ z \in Nat /\ z = 6 + k + n
    BY <2>10, <2>11
  <2> HIDE DEF z, k, n
  <2>2. 3 \in 1..z
    BY <2>1, <1>1
  <2>3. f \in [1..z -> Byte] /\ f[3] = m.sline /\ \A i \in 1..z : i # 3 => f[i] = e[i]
    BY <2>1, <2>2, <1>1
  <2> HIDE DEF f
  <2>4. f \in Seq(Byte)
    BY <2>1, <2>3
  <2>5. Len(f) = z
    BY <2>1, <2>3, <2>4
  <2>6. QED
    BY <2>3, <2>4, <2>5 DEF z
<1>3. /\ e[1] = START /\ e[2] = m.type /\ e[4] = m.dline /\ e[5] = 0
      /\ \A i \in 1..k : e[5 + i] = CLength[n][i]
      /\ \A i \in 1..n : e[5 + k + i] = m.payload[i]
      /\ e[6 + k + n] = END
  BY DEF Packs
<1> HIDE DEF f, n, k
<1>4. f[1] = START /\ f[2] = m.type /\ f[4] = m.dline /\ f[5] = 0
  BY <1>1, <1>2, <1>3
<1>5. \A i \in 1..k : f[5 + i] = CLength[n][i]
  BY <1>1, <1>2, <1>3
<1>6. \A i \in 1..n : f[5 + k + i] = m.payload[i]
  BY <1>1, <1>2, <1>3
<1>7. f[6 + k + n] = END
  BY <1>1, <1>2, <1>3
<1>8. QED
  BY <1>1, <1>2, <1>4, <1>5, <1>6, <1>7 DEF Packs, f, n, k

\* The buffer of the board after nais_setup_header and the packing at place o.
Packed(m, o) == PackAt(m, o, SetupHeader(m, [i \in 1..TxSize |-> 0]))

LEMMA PackedBytes ==
    ASSUME NEW m \in Message, TxSize \in Nat, NEW o \in Nat
    PROVE  /\ Packed(m, o) \in [1..TxSize -> Byte]
           /\ \A i \in 1..TxSize : Packed(m, o)[i] =
                IF i - o \in 1..Len(m.payload) THEN m.payload[i - o]
                ELSE IF i <= HeaderSize(m)
                       THEN (<<START, m.type, 0, m.dline, 0>> \o CLength[Len(m.payload)])[i]
                ELSE IF i = HeaderSize(m) + Len(m.payload) + 1 THEN END ELSE 0
<1> DEFINE a == <<START, m.type, 0, m.dline, 0>>
           b == CLength[Len(m.payload)]
           c == m.payload
           h == a \o b
           n == Len(c)
           g == [i \in 1..TxSize |-> IF i <= HeaderSize(m) THEN h[i]
                                     ELSE IF i = HeaderSize(m) + n + 1 THEN END ELSE 0]
           f == [i \in 1..TxSize |-> IF i - o \in 1..n THEN c[i - o] ELSE g[i]]
<1>1. a \in Seq(Byte) /\ Len(a) = 5 /\ END \in Byte /\ 0 \in Byte
  BY MessageFields, Constants
<1>2. b \in Seq(Byte) /\ c \in Seq(Byte) /\ Len(b) \in Nat /\ n \in Nat /\ DOMAIN c = 1..n
      /\ \A i \in 1..n : c[i] \in Byte
  BY MessageFields DEF IsField
<1>3. h \in Seq(Byte) /\ Len(h) = 5 + Len(b)
  <2>1. h \in Seq(Byte) /\ Len(h) = Len(a) + Len(b)
    BY <1>1, <1>2, CatBytes
  <2>2. QED
    BY <2>1, <1>1
<1>4. HeaderSize(m) = Len(h) /\ HeaderSize(m) \in Nat
  BY <1>2, <1>3 DEF HeaderSize
<1>5. \A i \in 1..Len(h) : h[i] \in Byte
  BY <1>3
<1>6. SetupHeader(m, [i \in 1..TxSize |-> 0]) = g
  BY <1>4 DEF SetupHeader
<1> HIDE DEF a, b, c, h, n
<1>7. \A i \in 1..TxSize : g[i] \in Byte
  BY <1>1, <1>4, <1>5
<1>8. Packed(m, o) = f
  BY <1>2, <1>6 DEF Packed, PackAt, c
<1>9. f \in [1..TxSize -> Byte]
  <2> HIDE DEF g
  <2>1. \A i \in 1..TxSize : (IF i - o \in 1..n THEN c[i - o] ELSE g[i]) \in Byte
    BY <1>2, <1>7
  <2>2. QED
    BY <2>1
<1>10. \A i \in 1..TxSize : f[i] = IF i - o \in 1..n THEN c[i - o]
                                   ELSE IF i <= HeaderSize(m) THEN h[i]
                                   ELSE IF i = HeaderSize(m) + n + 1 THEN END ELSE 0
  OBVIOUS
<1> HIDE DEF f, g
<1>11. QED
  BY <1>8, <1>9, <1>10 DEF h, a, b, c, n

\* The operators of the frame, seen through the instances.
LEMMA HostFrame ==
    /\ \A m : Host!Marshall(m) = Marshall(m)
    /\ \A m, b : Host!ProtobufToUart(m, b) = ProtobufToUart(m, b)
    /\ \A m, b : Host!NaisMarshall(m, b) = NaisMarshall(m, b)
    /\ \A p : Host!Unmarshall(p) = Unmarshall(p)
<1>1. Host!CLength = CLength
  BY DEF Host!CLength, CLength
<1>2. ASSUME NEW m PROVE Host!Marshall(m) = Marshall(m)
  BY <1>1 DEF Host!Marshall, Marshall, Host!PyLength, PyLength
<1>3. ASSUME NEW m, NEW b
      PROVE  /\ Host!ProtobufToUart(m, b) = ProtobufToUart(m, b)
             /\ Host!NaisMarshall(m, b) = NaisMarshall(m, b)
  <2>1. Host!HeaderSize(m) = HeaderSize(m)
    BY <1>1 DEF Host!HeaderSize, HeaderSize
  <2>2. Host!SetupHeader(m, b) = SetupHeader(m, b)
    BY <1>1 DEF Host!SetupHeader, SetupHeader
  <2>3. \A f, o : Host!PackAt(m, o, f) = PackAt(m, o, f)
    BY DEF Host!PackAt, PackAt
  <2>4. QED
    BY <2>1, <2>2, <2>3 DEF Host!ProtobufToUart, ProtobufToUart, Host!NaisMarshall, NaisMarshall
<1>4. ASSUME NEW p PROVE Host!Unmarshall(p) = Unmarshall(p)
  <2>1. \A s : Host!LengthSize(s) = LengthSize(s)
    BY DEF Host!LengthSize, LengthSize, Host!Continues, Continues
  <2>2. QED
    BY <2>1 DEF Host!Unmarshall, Unmarshall
<1>5. QED
  BY <1>2, <1>3, <1>4

\* The beginning of a sequence, and what follows.
LEMMA SubBytes ==
    ASSUME NEW s \in Seq(Byte), NEW i \in Nat, NEW j \in Nat, i >= 1, j <= Len(s), i <= j + 1
    PROVE  /\ SubSeq(s, i, j) \in Seq(Byte) /\ Len(SubSeq(s, i, j)) = 1 + j - i
           /\ \A p \in 1..1 + j - i : SubSeq(s, i, j)[p] = s[i + p - 1]
<1>1. SubSeq(s, i, j) \in Seq(Byte)
  OBVIOUS
<1>2. Len(SubSeq(s, i, j)) = 1 + j - i
  OBVIOUS
<1>3. \A p \in 1..1 + j - i : SubSeq(s, i, j)[p] = s[i + p - 1]
  OBVIOUS
<1>4. QED
  BY <1>1, <1>2, <1>3

LEMMA SameBytes ==
    ASSUME NEW s \in Seq(Byte), NEW t \in Seq(Byte), Len(s) = Len(t),
           \A p \in 1..Len(s) : s[p] = t[p]
    PROVE  s = t
  OBVIOUS

LEMMA PackedSeq ==
    ASSUME NEW m \in Message, TxSize \in Nat, NEW o \in Nat
    PROVE  Packed(m, o) \in Seq(Byte) /\ Len(Packed(m, o)) = TxSize
<1>1. Packed(m, o) \in [1..TxSize -> Byte]
  BY PackedBytes
<1>2. Packed(m, o) \in Seq(Byte)
  BY <1>1
<1>3. QED
  BY <1>1, <1>2

\* What is sent of the buffer, wherever the payload was packed.
LEMMA BufferBytes ==
    ASSUME NEW m \in Message, TxSize \in Nat, HeaderSize(m) + Len(m.payload) < TxSize, NEW o \in Nat
    PROVE  /\ HeaderSize(m) \in Nat /\ Len(m.payload) \in Nat
           /\ LET l == HeaderSize(m) + Len(m.payload) + 1
                  e == SubSeq(Packed(m, o), 1, l)
              IN  e \in Seq(Byte) /\ Len(e) = l /\ \A i \in 1..l : e[i] = Packed(m, o)[i]
<1> DEFINE l == HeaderSize(m) + Len(m.payload) + 1
           x == Packed(m, o)
<1>1. HeaderSize(m) \in Nat /\ Len(m.payload) \in Nat
  <2>1. Len(CLength[Len(m.payload)]) \in Nat /\ Len(m.payload) \in Nat
    BY MessageFields DEF IsField
  <2>2. QED
    BY <2>1 DEF HeaderSize
<1>2. l \in Nat /\ l >= 1 /\ l <= TxSize
  BY <1>1
<1>3. x \in Seq(Byte) /\ Len(x) = TxSize
  BY PackedSeq
<1> HIDE DEF l, x
<1>4. /\ SubSeq(x, 1, l) \in Seq(Byte) /\ Len(SubSeq(x, 1, l)) = l
      /\ \A p \in 1..l : SubSeq(x, 1, l)[p] = x[p]
  <2>1. /\ SubSeq(x, 1, l) \in Seq(Byte) /\ Len(SubSeq(x, 1, l)) = 1 + l - 1
        /\ \A p \in 1..1 + l - 1 : SubSeq(x, 1, l)[p] = x[1 + p - 1]
    BY <1>2, <1>3, SubBytes
  <2>2. 1 + l - 1 = l /\ \A p \in 1..l : 1 + p - 1 = p
    BY <1>2
  <2>3. QED
    BY <2>1, <2>2
<1>5. QED
  BY <1>1, <1>4 DEF l, x

LEMMA BoardBytes ==
    ASSUME NEW m \in Message, TxSize \in Nat, HeaderSize(m) + Len(m.payload) < TxSize
    PROVE  /\ HeaderSize(m) \in Nat /\ Len(m.payload) \in Nat
           /\ Host!Encode(m) \in Seq(Byte) \/ m.kind # "board"
           /\ LET e == ProtobufToUart(m, [i \in 1..TxSize |-> 0])
                  l == HeaderSize(m) + Len(m.payload) + 1
              IN  e \in Seq(Byte) /\ Len(e) = l /\ \A i \in 1..l : e[i] = Packed(m, 6)[i]
<1> DEFINE e == ProtobufToUart(m, [i \in 1..TxSize |-> 0])
           l == HeaderSize(m) + Len(m.payload) + 1
<1>1. e = SubSeq(Packed(m, 6), 1, l)
  BY DEF ProtobufToUart, Packed
<1>2. /\ HeaderSize(m) \in Nat /\ Len(m.payload) \in Nat
      /\ e \in Seq(Byte) /\ Len(e) = l /\ \A i \in 1..l : e[i] = Packed(m, 6)[i]
  <2>1. LET x == SubSeq(Packed(m, 6), 1, l)
        IN  /\ HeaderSize(m) \in Nat /\ Len(m.payload) \in Nat
            /\ x \in Seq(Byte) /\ Len(x) = l /\ \A i \in 1..l : x[i] = Packed(m, 6)[i]
    <3>1. 6 \in Nat
      OBVIOUS
    <3>2. QED
      BY <3>1, BufferBytes
  <2> HIDE DEF e, l
  <2>2. QED
    BY <1>1, <2>1
<1>3. m.kind = "board" => Host!Encode(m) = e
  BY HostFrame DEF Host!Encode
<1>4. QED
  BY <1>2, <1>3

\* nais_marshall makes a packet for every length that fits the buffer.
LEMMA NetPacks ==
    ASSUME NEW m \in Message, TxSize \in Nat, HeaderSize(m) + Len(m.payload) < TxSize
    PROVE  Packs(NaisMarshall(m, [i \in 1..TxSize |-> 0]), m, 0)
<1> DEFINE e == NaisMarshall(m, [i \in 1..TxSize |-> 0])
           n == Len(m.payload)
           b == CLength[n]
           k == Len(b)
           s == HeaderSize(m)
           x == Packed(m, s)
           a == <<START, m.type, 0, m.dline, 0>>
           h == a \o b
<1>1. n \in Nat /\ k \in Nat /\ s = 5 + k /\ s \in Nat
  <2>1. k \in Nat /\ n \in Nat
    BY MessageFields DEF IsField
  <2>2. QED
    BY <2>1 DEF HeaderSize
<1>2. e \in Seq(Byte) /\ Len(e) = s + n + 1 /\ \A i \in 1..s + n + 1 : e[i] = x[i]
  <2>1. e = SubSeq(x, 1, s + n + 1)
    BY DEF NaisMarshall, Packed
  <2>2. QED
    BY <1>1, <2>1, BufferBytes
<1>3. \A i \in 1..TxSize : x[i] =
          IF i - s \in 1..n THEN m.payload[i - s]
          ELSE IF i <= s THEN h[i] ELSE IF i = s + n + 1 THEN END ELSE 0
  BY <1>1, PackedBytes
<1>4. /\ h[1] = START /\ h[2] = m.type /\ h[3] = 0 /\ h[4] = m.dline /\ h[5] = 0
      /\ \A i \in 1..k : h[5 + i] = b[i]
  <2>1. a \in Seq(Byte) /\ Len(a) = 5
    BY MessageFields, Constants
  <2>2. a[1] = START /\ a[2] = m.type /\ a[3] = 0 /\ a[4] = m.dline /\ a[5] = 0
    OBVIOUS
  <2>3. b \in Seq(Byte)
    BY MessageFields DEF IsField
  <2>4. /\ \A i \in 1..Len(a) : h[i] = a[i]
        /\ \A i \in 1..k : h[Len(a) + i] = b[i]
    BY <2>1, <2>3, CatBytes
  <2> HIDE DEF h, a, b, k
  <2>5. (\A i \in 1..5 : h[i] = a[i]) /\ \A i \in 1..k : h[5 + i] = b[i]
    BY <2>1, <2>4
  <2>6. 1 \in 1..5 /\ 2 \in 1..5 /\ 3 \in 1..5 /\ 4 \in 1..5 /\ 5 \in 1..5
    OBVIOUS
  <2>7. QED
    BY <2>2, <2>5, <2>6
<1>5. s + n + 1 <= TxSize
  <2>1. s + n < TxSize
    OBVIOUS
  <2> HIDE DEF s, n, k
  <2>2. QED
    BY <1>1, <2>1
<1> HIDE DEF e, n, b, k, s, x, h
<1>6. /\ e[1] = START /\ e[2] = m.type /\ e[3] = 0 /\ e[4] = m.dline /\ e[5] = 0
      /\ \A i \in 1..k : e[5 + i] = b[i]
  <2>1. \A i \in 1..5 + k : i \in 1..s + n + 1 /\ i \in 1..TxSize /\ ~ (i - s \in 1..n) /\ i <= s
    BY <1>1, <1>5
  <2>2. \A i \in 1..5 + k : e[i] = h[i]
    BY <2>1, <1>2, <1>3
  <2>3. /\ 1 \in 1..5 + k /\ 2 \in 1..5 + k /\ 3 \in 1..5 + k /\ 4 \in 1..5 + k /\ 5 \in 1..5 + k
        /\ \A i \in 1..k : 5 + i \in 1..5 + k
    BY <1>1
  <2>4. QED
    BY <2>2, <2>3, <1>4
<1>7. \A i \in 1..n : e[s + i] = m.payload[i]
  <2>1. \A i \in 1..n : s + i \in 1..s + n + 1 /\ s + i \in 1..TxSize /\ (s + i) - s = i
    BY <1>1, <1>5
  <2>2. QED
    BY <2>1, <1>2, <1>3
<1>8. e[s + n + 1] = END
  <2>1. /\ s + n + 1 \in 1..s + n + 1 /\ s + n + 1 \in 1..TxSize
        /\ ~ ((s + n + 1) - s \in 1..n) /\ ~ (s + n + 1 <= s)
    BY <1>1, <1>5
  <2>2. QED
    BY <2>1, <1>2, <1>3
<1>9. Len(e) = 6 + k + n /\ e[6 + k + n] = END /\ \A i \in 1..n : e[5 + k + i] = m.payload[i]
  <2>1. s + n + 1 = 6 + k + n /\ \A i \in 1..n : s + i = 5 + k + i
    BY <1>1
  <2>2. QED
    BY <2>1, <1>2, <1>7, <1>8
<1>10. QED
  BY <1>2, <1>6, <1>9 DEF Packs, e, n, b, k

LEMMA BoardPacks ==
    ASSUME NEW m \in Message, TxSize \in Nat, HeaderSize(m) + Len(m.payload) < TxSize,
           Len(m.payload) < Radix
    PROVE  Packs(ProtobufToUart(m, [i \in 1..TxSize |-> 0]), m, 0)
<1> DEFINE e == ProtobufToUart(m, [i \in 1..TxSize |-> 0])
           n == Len(m.payload)
           x == Packed(m, 6)
           a == <<START, m.type, 0, m.dline, 0>>
           h == a \o CLength[n]
<1>1. n \in Nat /\ CLength[n] = <<n>> /\ Len(CLength[n]) = 1 /\ CLength[n][1] = n
  <2>1. n \in Nat /\ n < Radix
    BY MessageFields
  <2>2. CLength[n] = <<n>>
    BY <2>1, OneByteField
  <2> HIDE DEF n
  <2>3. QED
    BY <2>1, <2>2
<1>2. HeaderSize(m) = 6
  BY <1>1 DEF HeaderSize
<1>3. e \in Seq(Byte) /\ Len(e) = 7 + n /\ \A i \in 1..7 + n : e[i] = x[i]
  <2>1. /\ e \in Seq(Byte) /\ Len(e) = HeaderSize(m) + n + 1
        /\ \A i \in 1..HeaderSize(m) + n + 1 : e[i] = x[i]
    BY BoardBytes
  <2>2. HeaderSize(m) + n + 1 = 7 + n
    BY <1>1, <1>2
  <2> HIDE DEF e, x, n
  <2>3. QED
    BY <2>1, <2>2
<1>4. \A i \in 1..TxSize : x[i] =
          IF i - 6 \in 1..n THEN m.payload[i - 6]
          ELSE IF i <= 6 THEN h[i] ELSE IF i = 7 + n THEN END ELSE 0
  <2>1. \A i \in 1..TxSize : x[i] =
          IF i - 6 \in 1..n THEN m.payload[i - 6]
          ELSE IF i <= HeaderSize(m) THEN h[i]
          ELSE IF i = HeaderSize(m) + n + 1 THEN END ELSE 0
    BY PackedBytes
  <2>2. HeaderSize(m) + n + 1 = 7 + n
    BY <1>1, <1>2
  <2> HIDE DEF x, h, n
  <2>3. QED
    BY <2>1, <2>2, <1>2
<1>5. /\ h[1] = START /\ h[2] = m.type /\ h[3] = 0 /\ h[4] = m.dline /\ h[5] = 0
      /\ h[6] = CLength[n][1]
  <2>1. a \in Seq(Byte) /\ Len(a) = 5
    BY MessageFields, Constants
  <2>2. a[1] = START /\ a[2] = m.type /\ a[3] = 0 /\ a[4] = m.dline /\ a[5] = 0
    OBVIOUS
  <2>3. CLength[n] \in Seq(Byte)
    BY <1>1, CLengthIs
  <2>4. /\ \A i \in 1..Len(a) : h[i] = a[i]
        /\ \A i \in 1..Len(CLength[n]) : h[Len(a) + i] = CLength[n][i]
    BY <2>1, <2>3, CatBytes
  <2> HIDE DEF h, a, n
  <2>5. QED
    BY <2>1, <2>2, <2>4, <1>1
<1>6. 7 + n <= TxSize
  BY <1>1, <1>2
<1> HIDE DEF e, n, x, h
<1>7. /\ e[1] = START /\ e[2] = m.type /\ e[3] = 0 /\ e[4] = m.dline /\ e[5] = 0
      /\ e[6] = CLength[n][1]
  <2>1. \A i \in 1..6 : i \in 1..7 + n /\ i \in 1..TxSize /\ ~ (i - 6 \in 1..n) /\ i <= 6
    BY <1>1, <1>6
  <2>2. \A i \in 1..6 : e[i] = h[i]
    BY <2>1, <1>3, <1>4
  <2>3. 1 \in 1..6 /\ 2 \in 1..6 /\ 3 \in 1..6 /\ 4 \in 1..6 /\ 5 \in 1..6 /\ 6 \in 1..6
    OBVIOUS
  <2>4. QED
    BY <2>2, <2>3, <1>5
<1>8. \A i \in 1..n : e[6 + i] = m.payload[i]
  <2>1. \A i \in 1..n : 6 + i \in 1..7 + n /\ 6 + i \in 1..TxSize /\ (6 + i) - 6 = i
    BY <1>1, <1>6
  <2>2. QED
    BY <2>1, <1>3, <1>4
<1>9. e[7 + n] = END
  <2>1. 7 + n \in 1..7 + n /\ 7 + n \in 1..TxSize /\ ~ ((7 + n) - 6 \in 1..n) /\ ~ (7 + n <= 6)
    BY <1>1, <1>6
  <2>2. QED
    BY <2>1, <1>3, <1>4
<1>10. /\ Len(e) = 6 + 1 + n /\ e[6 + 1 + n] = END
       /\ \A i \in 1..1 : e[5 + i] = CLength[n][i]
       /\ \A i \in 1..n : e[5 + 1 + i] = m.payload[i]
  <2>1. 6 + 1 + n = 7 + n /\ (\A i \in 1..1 : i = 1) /\ 5 + 1 = 6
    BY <1>1
  <2>2. QED
    BY <2>1, <1>3, <1>7, <1>8, <1>9
<1>11. QED
  BY <1>1, <1>3, <1>7, <1>10 DEF Packs, e, n

\* A packet decodes to what it was made of.
LEMMA UnmarshallPacks ==
    ASSUME NEW m \in Message, NEW e, Packs(e, m, 0)
    PROVE  Unmarshall(e) = [type |-> m.type, dline |-> m.dline, payload |-> m.payload]
<1> DEFINE n == Len(m.payload)
           b == CLength[n]
           k == Len(b)
           l == Len(e)
           t == SubSeq(e, 6, l)
           u == SubSeq(e, 6 + k, l - 1)
<1>1. /\ e \in Seq(Byte) /\ l = 6 + k + n
      /\ e[2] = m.type /\ e[4] = m.dline
      /\ \A i \in 1..k : e[5 + i] = b[i]
      /\ \A i \in 1..n : e[5 + k + i] = m.payload[i]
  BY DEF Packs
<1>2. n \in Nat /\ IsField(b) /\ m.payload \in Seq(Byte)
  BY MessageFields
<1>3. k \in Nat /\ k >= 1
  BY <1>2 DEF IsField
<1> HIDE DEF k, l, b
<1>4. l \in Nat
  BY <1>1 DEF l
<1>5. t \in Seq(Byte) /\ Len(t) = 1 + k + n /\ \A p \in 1..k : t[p] = b[p]
  <2> HIDE DEF n, t
  <2>1. 6 >= 1 /\ 6 \in Nat /\ l <= Len(e) /\ 6 <= l + 1
    BY <1>1, <1>2, <1>3, <1>4 DEF l
  <2>2. t \in Seq(Byte) /\ Len(t) = 1 + l - 6 /\ \A p \in 1..1 + l - 6 : t[p] = e[6 + p - 1]
    BY <2>1, <1>1, <1>4, SubBytes DEF t
  <2>3. 1 + l - 6 = 1 + k + n /\ \A p \in 1..k : 6 + p - 1 = 5 + p /\ p \in 1..1 + l - 6
    BY <1>1, <1>2, <1>3
  <2>4. QED
    BY <2>2, <2>3, <1>1
<1> HIDE DEF t
<1>6. LengthSize(t) = k
  <2>1. k <= Len(t)
    BY <1>2, <1>3, <1>5
  <2>2. QED
    BY <2>1, <1>2, <1>5, SizeOfField DEF k
<1>7. u = m.payload
  <2> HIDE DEF n, u
  <2>1. 6 + k \in Nat /\ 6 + k >= 1 /\ l - 1 \in Nat /\ l - 1 <= Len(e) /\ 6 + k <= (l - 1) + 1
    BY <1>1, <1>2, <1>3, <1>4 DEF l
  <2>2. /\ u \in Seq(Byte) /\ Len(u) = 1 + (l - 1) - (6 + k)
        /\ \A p \in 1..1 + (l - 1) - (6 + k) : u[p] = e[6 + k + p - 1]
    BY <2>1, <1>1, SubBytes DEF u
  <2>3. 1 + (l - 1) - (6 + k) = n /\ \A p \in 1..n : 6 + k + p - 1 = 5 + k + p
    BY <1>1, <1>2, <1>3
  <2>4. Len(u) = n /\ \A p \in 1..n : u[p] = m.payload[p]
    BY <2>2, <2>3, <1>1
  <2>5. QED
    BY <2>2, <2>4, <1>2, SameBytes DEF n
<1>8. Unmarshall(e) = [type |-> e[2], dline |-> e[4], payload |-> u]
  BY <1>6 DEF Unmarshall, t, u, l
<1>9. QED
  BY <1>1, <1>7, <1>8

-----------------------------------------------------------------------------
(* The reader of the host on one byte                                      *)

Tapes == [expected_len : Nat, cursor : Nat, mult : Nat,
          sts_len : {"none", "LEN_ENTER", "LEN_DONE"}, hlen : Nat, plen : Nat,
          sts : {"A_STREAM", "B_STREAM"}, msg : Seq(Byte)]

LEMMA NewTapeTyped == Host!NewTape \in Tapes
<1>1. 512 * Radix \in Nat
  BY FrameAssumption
<1>2. QED
  BY <1>1 DEF Host!NewTape, Tapes

LEMMA FeedText ==
    ASSUME NEW t \in Tapes, t.sts = "A_STREAM", NEW b \in Byte, b # START
    PROVE  Host!Feed(t, b) = [t EXCEPT !.msg = Append(t.msg, b)]
  BY DEF Host!Feed, Tapes

LEMMA FeedStart ==
    ASSUME NEW t \in Tapes, t.sts = "A_STREAM"
    PROVE  Host!Feed(t, START) = [t EXCEPT !.msg = Append(t.msg, START), !.cursor = 0,
                                           !.plen = 0, !.sts = "B_STREAM", !.sts_len = "none"]
<1>1. "A_STREAM" # "B_STREAM"
  OBVIOUS
<1>2. QED
  BY <1>1 DEF Host!Feed, Tapes

LEMMA FeedOther ==
    ASSUME NEW t \in Tapes, t.sts = "B_STREAM", NEW b \in Byte, b # START,
           t.cursor + 1 # 5, t.sts_len # "LEN_ENTER"
    PROVE  Host!Feed(t, b) = [t EXCEPT !.msg = Append(t.msg, b), !.cursor = t.cursor + 1]
<1> DEFINE u == [t EXCEPT !.cursor = t.cursor + 1]
<1>1. u.cursor = t.cursor + 1 /\ u.sts_len = t.sts_len /\ u.msg = t.msg
  BY DEF Tapes
<1>2. Host!ReadLength(u, b) = u
  BY <1>1 DEF Host!ReadLength
<1>3. Host!Feed(t, b) = [Host!ReadLength(u, b) EXCEPT !.msg = Append(Host!ReadLength(u, b).msg, b)]
  BY DEF Host!Feed
<1>4. QED
  BY <1>1, <1>2, <1>3 DEF Tapes

LEMMA FeedDigit ==
    ASSUME NEW t \in Tapes, t.sts = "B_STREAM", NEW b \in Byte, b # START,
           t.cursor + 1 = 5 \/ t.sts_len = "LEN_ENTER", b >= Radix
    PROVE  Host!Feed(t, b) = [t EXCEPT !.msg = Append(t.msg, b), !.cursor = t.cursor + 1,
                                       !.plen = t.plen + t.mult * (b - Radix),
                                       !.mult = t.mult * Radix,
                                       !.hlen = t.hlen + 1, !.sts_len = "LEN_ENTER"]
<1> DEFINE u == [t EXCEPT !.cursor = t.cursor + 1]
           v == [u EXCEPT !.plen = t.plen + t.mult * (b - Radix), !.mult = t.mult * Radix,
                          !.hlen = t.hlen + 1, !.sts_len = "LEN_ENTER"]
<1>1. /\ u.cursor = t.cursor + 1 /\ u.sts_len = t.sts_len /\ u.msg = t.msg
      /\ u.plen = t.plen /\ u.mult = t.mult /\ u.hlen = t.hlen
  BY DEF Tapes
<1>2. ~ (u.cursor # 5 /\ u.sts_len # "LEN_ENTER")
  BY <1>1
<1>3. Host!ReadLength(u, b) = [u EXCEPT !.plen = u.plen + u.mult * (b - Radix),
                                        !.mult = u.mult * Radix,
                                        !.hlen = u.hlen + 1, !.sts_len = "LEN_ENTER"]
  BY <1>2, Zenon DEF Host!ReadLength, Host!Continues
<1>4. Host!ReadLength(u, b) = v
  BY <1>1, <1>3, Zenon
<1>5. Host!Feed(t, b) = [Host!ReadLength(u, b) EXCEPT !.msg = Append(Host!ReadLength(u, b).msg, b)]
  BY Zenon DEF Host!Feed
<1>6. v.msg = t.msg
  BY DEF Tapes
<1>7. Host!Feed(t, b) = [v EXCEPT !.msg = Append(t.msg, b)]
  BY <1>4, <1>5, <1>6, Zenon
<1>8. QED
  BY <1>7 DEF Tapes

LEMMA FeedLast ==
    ASSUME NEW t \in Tapes, t.sts = "B_STREAM", NEW b \in Byte, b # START,
           t.cursor + 1 = 5 \/ t.sts_len = "LEN_ENTER", ~ (b >= Radix)
    PROVE  Host!Feed(t, b) = [t EXCEPT !.msg = Append(t.msg, b), !.cursor = t.cursor + 1,
                                       !.expected_len = t.hlen + t.plen + t.mult * b,
                                       !.sts_len = "LEN_DONE"]
<1> DEFINE u == [t EXCEPT !.cursor = t.cursor + 1]
           v == [u EXCEPT !.expected_len = t.hlen + t.plen + t.mult * b, !.sts_len = "LEN_DONE"]
<1>1. /\ u.cursor = t.cursor + 1 /\ u.sts_len = t.sts_len /\ u.msg = t.msg
      /\ u.plen = t.plen /\ u.mult = t.mult /\ u.hlen = t.hlen
  BY DEF Tapes
<1>2. ~ (u.cursor # 5 /\ u.sts_len # "LEN_ENTER")
  BY <1>1
<1>3. Host!ReadLength(u, b) = [u EXCEPT !.expected_len = u.hlen + u.plen + u.mult * b,
                                        !.sts_len = "LEN_DONE"]
  BY <1>2, Zenon DEF Host!ReadLength, Host!Continues
<1>4. Host!ReadLength(u, b) = v
  BY <1>1, <1>3, Zenon
<1>5. Host!Feed(t, b) = [Host!ReadLength(u, b) EXCEPT !.msg = Append(Host!ReadLength(u, b).msg, b)]
  BY Zenon DEF Host!Feed
<1>6. v.msg = t.msg
  BY DEF Tapes
<1>7. Host!Feed(t, b) = [v EXCEPT !.msg = Append(t.msg, b)]
  BY <1>4, <1>5, <1>6, Zenon
<1>8. QED
  BY <1>7 DEF Tapes

-----------------------------------------------------------------------------
(* The reader of the host within a packet e with a payload of n bytes: the *)
(* tape after its first p bytes                                            *)

HeaderTape(t, e, p) ==
    /\ t \in Tapes
    /\ t.sts = "B_STREAM" /\ t.sts_len = "none" /\ t.cursor = p - 1
    /\ t.mult = 1 /\ t.hlen = 6 /\ t.plen = 0 /\ t.expected_len = 512 * Radix
    /\ t.msg = SubSeq(e, 1, p)

\* The digits still to come are those of v.
LengthTape(t, e, n, p) ==
    /\ t \in Tapes
    /\ t.sts = "B_STREAM" /\ (p = 5 \/ t.sts_len = "LEN_ENTER") /\ t.cursor = p - 1
    /\ t.hlen = p + 1
    /\ t.msg = SubSeq(e, 1, p)
    /\ \E v \in Nat : /\ n = t.plen + t.mult * v
                      /\ Len(CLength[v]) = Len(CLength[n]) + 5 - p
                      /\ \A i \in 1..Len(CLength[v]) : CLength[v][i] = CLength[n][p - 5 + i]

BodyTape(t, e, p) ==
    /\ t \in Tapes
    /\ t.sts = "B_STREAM" /\ t.sts_len = "LEN_DONE"
    /\ t.cursor = p - 1 /\ t.expected_len = Len(e) - 1
    /\ t.msg = SubSeq(e, 1, p)

LEMMA PrefixStep ==
    ASSUME NEW e \in Seq(Byte), NEW p \in Nat, p < Len(e)
    PROVE  /\ p + 1 \in 1..Len(e) /\ e[p + 1] \in Byte
           /\ SubSeq(e, 1, p) \in Seq(Byte)
           /\ SubSeq(e, 1, p + 1) = Append(SubSeq(e, 1, p), e[p + 1])
<1>1. p + 1 \in 1..Len(e)
  OBVIOUS
<1>2. e[p + 1] \in Byte
  BY <1>1
<1>3. SubSeq(e, 1, p) \in Seq(Byte)
  OBVIOUS
<1>4. SubSeq(e, 1, p + 1) = Append(SubSeq(e, 1, p), e[p + 1])
  OBVIOUS
<1>5. QED
  BY <1>1, <1>2, <1>3, <1>4

LEMMA WholeSeq == ASSUME NEW e \in Seq(Byte) PROVE SubSeq(e, 1, Len(e)) = e
  OBVIOUS

LEMMA Grows ==
    ASSUME NEW w \in Nat, NEW x \in Nat, NEW q \in Nat, NEW r \in Nat, NEW R \in Nat, NEW v,
           v = R * q + r
    PROVE  (w + x * r) + (x * R) * q = w + x * v
  BY SMTT(30)

LEMMA SumUp ==
    ASSUME NEW k \in Nat, NEW w \in Nat, NEW z \in Nat
    PROVE  (5 + k) + w + z = (6 + k + (w + z)) - 1
  OBVIOUS

LEMMA StartStep ==
    ASSUME NEW e \in Seq(Byte), Len(e) > 1, e[1] = START
    PROVE  /\ HeaderTape(Host!Feed(Host!NewTape, START), e, 1)
           /\ ~Host!Complete(Host!Feed(Host!NewTape, START), START)
<1> DEFINE t == Host!NewTape
<1>1. t \in Tapes /\ t.sts = "A_STREAM"
  BY NewTapeTyped DEF Host!NewTape
<1>2. Host!Feed(t, START) = [t EXCEPT !.msg = Append(t.msg, START), !.cursor = 0,
                                      !.plen = 0, !.sts = "B_STREAM", !.sts_len = "none"]
  BY <1>1, FeedStart
<1> DEFINE y == SubSeq(e, 1, 1)
<1>3. t.msg = <<>> /\ y = Append(<<>>, START)
  <2>1. SubSeq(e, 1, 0) = <<>> /\ 0 \in Nat /\ 0 + 1 = 1 /\ 0 < Len(e)
    OBVIOUS
  <2>2. SubSeq(e, 1, 0 + 1) = Append(SubSeq(e, 1, 0), e[0 + 1])
    BY <2>1, PrefixStep
  <2>3. t.msg = <<>>
    BY DEF Host!NewTape
  <2>4. QED
    BY <2>1, <2>2, <2>3
<1> HIDE DEF y
<1>4. y \in Seq(Byte)
  BY <1>3, Constants
<1>30. Host!Feed(t, START) = [t EXCEPT !.msg = y, !.cursor = 0,
                                       !.plen = 0, !.sts = "B_STREAM", !.sts_len = "none"]
  BY <1>2, <1>3
<1>5. t.mult = 1 /\ t.hlen = 6 /\ t.expected_len = 512 * Radix
  BY DEF Host!NewTape
<1> DEFINE u == Host!Feed(t, START)
<1> HIDE DEF t, u
<1>50. u = [t EXCEPT !.msg = y, !.cursor = 0, !.plen = 0, !.sts = "B_STREAM", !.sts_len = "none"]
  BY <1>30 DEF u
<1>51. u \in Tapes
  BY <1>1, <1>4, <1>50 DEF Tapes
<1>52. /\ u.msg = y /\ u.cursor = 1 - 1 /\ u.plen = 0 /\ u.sts = "B_STREAM"
       /\ u.sts_len = "none" /\ u.mult = 1 /\ u.hlen = 6 /\ u.expected_len = 512 * Radix
  BY <1>1, <1>5, <1>50 DEF Tapes
<1>6. HeaderTape(Host!Feed(t, START), e, 1)
  BY <1>51, <1>52 DEF HeaderTape, y, u
<1>7. ~Host!Complete(Host!Feed(t, START), START)
  BY DEF Host!Complete
<1>8. QED
  BY <1>6, <1>7 DEF t

LEMMA HeaderStep ==
    ASSUME NEW e \in Seq(Byte), NEW p \in 1..4, p < Len(e), e[p + 1] # START,
           NEW t, HeaderTape(t, e, p)
    PROVE  /\ HeaderTape(Host!Feed(t, e[p + 1]), e, p + 1)
           /\ ~Host!Complete(Host!Feed(t, e[p + 1]), e[p + 1])
<1> DEFINE b == e[p + 1]
           x == SubSeq(e, 1, p)
           y == SubSeq(e, 1, p + 1)
<1>1. b \in Byte /\ x \in Seq(Byte) /\ y = Append(x, b) /\ b # START
  <2>1. p \in Nat /\ p < Len(e)
    OBVIOUS
  <2>2. b \in Byte /\ x \in Seq(Byte) /\ y = Append(x, b)
    BY <2>1, PrefixStep, SMTT(30)
  <2>3. QED
    BY <2>2
<1>2. Radix \in Nat /\ Radix > 1 /\ 512 * Radix \in Nat /\ 512 * Radix > 5
  BY FrameAssumption
<1>3. /\ t \in Tapes /\ t.sts = "B_STREAM" /\ t.sts_len = "none" /\ t.cursor = p - 1
      /\ t.mult = 1 /\ t.hlen = 6 /\ t.plen = 0 /\ t.expected_len = 512 * Radix
      /\ t.msg = x
  BY DEF HeaderTape
<1> HIDE DEF b, x, y
<1>5. t.cursor + 1 # 5 /\ t.cursor + 1 = p /\ p \in Nat /\ t.sts_len # "LEN_ENTER"
  BY <1>3
<1>6. Host!Feed(t, b) = [t EXCEPT !.msg = Append(t.msg, b), !.cursor = t.cursor + 1]
  BY <1>1, <1>3, <1>5, FeedOther, ZenonT(60)
<1> DEFINE u == Host!Feed(t, b)
<1>70. y \in Seq(Byte)
  BY <1>1
<1>7. u = [t EXCEPT !.msg = y, !.cursor = p]
  BY <1>1, <1>3, <1>5, <1>6, Zenon
<1> HIDE DEF u
<1>71. u \in Tapes
  BY <1>3, <1>5, <1>7, <1>70, ZenonT(60) DEF Tapes
<1>72. /\ u.msg = y /\ u.cursor = p /\ u.plen = 0 /\ u.sts = "B_STREAM"
       /\ u.sts_len = "none" /\ u.mult = 1 /\ u.hlen = 6 /\ u.expected_len = 512 * Radix
  BY <1>3, <1>7 DEF Tapes
<1>8. (p + 1) - 1 = p /\ p # 512 * Radix
  BY <1>2
<1>9. HeaderTape(Host!Feed(t, b), e, p + 1)
  BY <1>71, <1>72, <1>8 DEF HeaderTape, y, u
<1>10. ~Host!Complete(Host!Feed(t, b), b)
  BY <1>72, <1>8 DEF Host!Complete, u
<1>11. QED
  BY <1>9, <1>10 DEF b

LEMMA LengthBegins ==
    ASSUME NEW e, NEW n \in Nat, NEW t, HeaderTape(t, e, 5)
    PROVE  LengthTape(t, e, n, 5)
<1>1. Len(CLength[n]) \in Nat
  BY LengthField DEF IsField
<1>2. Len(CLength[n]) = Len(CLength[n]) + 5 - 5
  BY <1>1
<1>3. \A i \in 1..Len(CLength[n]) : CLength[n][i] = CLength[n][5 - 5 + i]
  <2>1. \A i \in 1..Len(CLength[n]) : 5 - 5 + i = i
    BY <1>1
  <2>2. QED
    BY <2>1
<1>4. n = t.plen + t.mult * n /\ t.hlen = 5 + 1
  BY DEF HeaderTape
<1>5. QED
  BY <1>2, <1>3, <1>4 DEF HeaderTape, LengthTape

LEMMA OneDigit ==
    ASSUME NEW v \in Nat, v < Radix
    PROVE  Len(CLength[v]) = 1 /\ CLength[v][1] = v
<1>1. CLength[v] = <<v>>
  BY OneByteField
<1>2. QED
  BY <1>1

LEMMA MoreDigits ==
    ASSUME NEW v \in Nat, ~ (v < Radix)
    PROVE  \E q, r \in Nat :
             /\ v = Radix * q + r
             /\ CLength[v][1] = Radix + r
             /\ Len(CLength[q]) \in Nat /\ Len(CLength[q]) >= 1
             /\ Len(CLength[v]) = 1 + Len(CLength[q])
             /\ \A i \in 1..Len(CLength[q]) : CLength[v][1 + i] = CLength[q][i]
<1> DEFINE q == v \div Radix
           r == v % Radix
           s == CLength[q]
           b == Radix + r
<1>2. CLength[v] = <<b>> \o s
  BY CLengthIs, Zenon
<1>10. q = v \div Radix /\ r = v % Radix
  OBVIOUS
<1> HIDE DEF q, r, s, b
<1>1. q \in Nat /\ r \in 0..Radix - 1 /\ v = Radix * q + r /\ Radix \in Nat /\ Radix > 1
  <2>1. q \in Nat /\ r \in 0..Radix - 1 /\ v = Radix * q + r
    BY <1>10, Division, SMTT(30)
  <2>2. QED
    BY <2>1, Constants
<1>3. IsField(s)
  BY <1>1, LengthField DEF s
<1>4. b \in Byte /\ Continues(b) /\ b = Radix + r /\ r \in Nat
  BY <1>1 DEF b, Byte, Continues
<1>5. /\ Len(<<b>> \o s) = 1 + Len(s)
      /\ (<<b>> \o s)[1] = b /\ \A i \in 1..Len(s) : (<<b>> \o s)[1 + i] = s[i]
  BY <1>3, <1>4, ConsField
<1>6. /\ Len(CLength[v]) = 1 + Len(s)
      /\ CLength[v][1] = Radix + r /\ \A i \in 1..Len(s) : CLength[v][1 + i] = s[i]
  BY <1>2, <1>4, <1>5, Zenon
<1>7. Len(s) \in Nat /\ Len(s) >= 1
  BY <1>3 DEF IsField
<1>8. QED
  BY <1>1, <1>4, <1>6, <1>7 DEF s

LEMMA LengthStep ==
    ASSUME NEW e \in Seq(Byte), NEW n \in Nat, NEW k, k = Len(CLength[n]), Len(e) = 6 + k + n,
           NEW p \in 5..4 + k, e[p + 1] # START, e[p + 1] = CLength[n][p - 4],
           NEW t, LengthTape(t, e, n, p)
    PROVE  /\ \/ p + 1 \in 5..4 + k /\ LengthTape(Host!Feed(t, e[p + 1]), e, n, p + 1)
              \/ p + 1 = 5 + k /\ BodyTape(Host!Feed(t, e[p + 1]), e, p + 1)
           /\ ~Host!Complete(Host!Feed(t, e[p + 1]), e[p + 1])
<1> DEFINE b == e[p + 1]
           y == SubSeq(e, 1, p + 1)
           u == Host!Feed(t, b)
           l == Len(e)
<1>1. k \in Nat /\ k >= 1
  BY LengthField DEF IsField
<1>2. p \in Nat /\ l = 6 + k + n /\ p < l /\ l \in Nat
  <2>1. l = 6 + k + n
    OBVIOUS
  <2> HIDE DEF l
  <2>2. QED
    BY <2>1, <1>1
<1>3. b \in Byte /\ y = Append(SubSeq(e, 1, p), b) /\ y \in Seq(Byte) /\ b # START
  <2>1. /\ e[p + 1] \in Byte /\ SubSeq(e, 1, p) \in Seq(Byte)
        /\ SubSeq(e, 1, p + 1) = Append(SubSeq(e, 1, p), e[p + 1])
    BY <1>2, PrefixStep
  <2>2. QED
    BY <2>1
<1>4. /\ t \in Tapes /\ t.sts = "B_STREAM" /\ (p = 5 \/ t.sts_len = "LEN_ENTER")
      /\ t.cursor = p - 1 /\ t.hlen = p + 1
      /\ t.msg = SubSeq(e, 1, p)
  BY DEF LengthTape
<1>5. PICK v \in Nat : /\ n = t.plen + t.mult * v
                       /\ Len(CLength[v]) = k + 5 - p
                       /\ \A i \in 1..Len(CLength[v]) : CLength[v][i] = CLength[n][p - 5 + i]
  BY DEF LengthTape
<1>6. b = CLength[v][1]
  <2> HIDE DEF b
  <2>1. 1 \in 1..Len(CLength[v]) /\ p - 5 + 1 = p - 4
    BY <1>1, <1>2, <1>5
  <2>2. CLength[v][1] = CLength[n][p - 5 + 1]
    BY <1>5, <2>1
  <2>3. QED
    BY <2>1, <2>2 DEF b
<1>7. t.cursor + 1 = 5 \/ t.sts_len = "LEN_ENTER"
  BY <1>4
<1>8. t.cursor + 1 = p /\ t.plen \in Nat /\ t.mult \in Nat /\ t.hlen = p + 1
  BY <1>2, <1>4 DEF Tapes
<1>9. Radix \in Nat /\ Radix > 1 /\ END < Radix
  BY Constants
<1> HIDE DEF b, y, u, l
<1>10. CASE v < Radix
  <2>1. b = v /\ ~ (b >= Radix) /\ p = 4 + k
    <3>1. Len(CLength[v]) = 1 /\ CLength[v][1] = v
      BY <1>10, OneDigit
    <3>2. b = v /\ k + 5 - p = 1
      BY <3>1, <1>5, <1>6
    <3>3. QED
      BY <3>2, <1>1, <1>2, <1>9, <1>10
  <2>2. u = [t EXCEPT !.msg = Append(t.msg, b), !.cursor = t.cursor + 1,
                      !.expected_len = t.hlen + t.plen + t.mult * b, !.sts_len = "LEN_DONE"]
    BY <1>3, <1>4, <1>7, <2>1, FeedLast DEF u
  <2>3. t.hlen + t.plen + t.mult * b = l - 1
    <3>1. n = t.plen + t.mult * b
      BY <2>1, <1>5
    <3> DEFINE w == t.plen
               z == t.mult * b
               h == t.hlen
    <3>2. z \in Nat /\ w \in Nat
      <4>1. \A i, j \in Nat : i * j \in Nat
        OBVIOUS
      <4>2. QED
        BY <4>1, <1>8, <2>1
    <3>3. n = w + z
      BY <3>1
    <3>30. h = p + 1 /\ p = 4 + k
      BY <1>8, <2>1
    <3> HIDE DEF w, z, h
    <3>4. h + w + z = l - 1
      <4>1. k \in Nat /\ w \in Nat /\ z \in Nat /\ n = w + z /\ l = 6 + k + n
        BY <3>2, <3>3, <1>1, <1>2, Zenon
      <4>2. h = 5 + k
        <5>1. h = 4 + k + 1
          BY <3>30, Zenon
        <5>2. \A i \in Nat : 4 + i + 1 = 5 + i
          OBVIOUS
        <5>3. QED
          BY <5>1, <5>2, <1>1, Zenon
      <4>3. (5 + k) + w + z = (6 + k + (w + z)) - 1
        <5>1. k \in Nat /\ w \in Nat /\ z \in Nat
          BY <4>1, Zenon
        <5>2. QED
          BY <5>1, SumUp, ZenonT(60)
      <4>4. QED
        BY <4>1, <4>2, <4>3, Zenon
    <3>5. QED
      BY <3>4 DEF w, z, h
  <2>4. u = [t EXCEPT !.msg = y, !.cursor = p, !.expected_len = l - 1, !.sts_len = "LEN_DONE"]
    BY <2>2, <2>3, <1>3, <1>4, <1>8, Zenon
  <2>5. l - 1 \in Nat /\ (p + 1) - 1 = p /\ p + 1 = 5 + k /\ p # l - 1
    BY <1>1, <1>2, <2>1
  <2>6. u \in Tapes
    BY <2>4, <2>5, <1>2, <1>3, <1>4 DEF Tapes
  <2>7. /\ u.sts = "B_STREAM" /\ u.sts_len = "LEN_DONE" /\ u.cursor = p
        /\ u.expected_len = l - 1 /\ u.msg = y
    BY <2>4, <1>4 DEF Tapes
  <2>8. BodyTape(u, e, p + 1)
    BY <2>5, <2>6, <2>7 DEF BodyTape, y, l
  <2>9. ~Host!Complete(u, b)
    BY <2>5, <2>7 DEF Host!Complete
  <2>10. QED
    BY <2>5, <2>8, <2>9 DEF u, b
<1>11. CASE ~ (v < Radix)
  <2>1. PICK q \in Nat, r \in Nat :
             /\ v = Radix * q + r
             /\ CLength[v][1] = Radix + r
             /\ Len(CLength[q]) \in Nat /\ Len(CLength[q]) >= 1
             /\ Len(CLength[v]) = 1 + Len(CLength[q])
             /\ \A i \in 1..Len(CLength[q]) : CLength[v][1 + i] = CLength[q][i]
    BY <1>11, MoreDigits
  <2>2. b = Radix + r /\ b >= Radix /\ b - Radix = r /\ b # END
    BY <2>1, <1>6, <1>9, Constants
  <2>3. u = [t EXCEPT !.msg = Append(t.msg, b), !.cursor = t.cursor + 1,
                      !.plen = t.plen + t.mult * (b - Radix), !.mult = t.mult * Radix,
                      !.hlen = t.hlen + 1, !.sts_len = "LEN_ENTER"]
    BY <1>3, <1>4, <1>7, <2>2, FeedDigit DEF u
  <2> DEFINE w == t.plen + t.mult * r
             x == t.mult * Radix
  <2>4. w \in Nat /\ x \in Nat /\ p + 2 \in Nat
    <3>1. \A i, j \in Nat : i * j \in Nat /\ i + j \in Nat
      OBVIOUS
    <3>2. QED
      BY <3>1, <1>2, <1>8, <1>9
  <2>5. n = w + x * q
    <3>1. PICK i \in Nat : i = t.plen
      BY <2>1, <1>8
    <3>2. PICK j \in Nat : j = t.mult
      BY <2>1, <1>8
    <3>3. q \in Nat /\ r \in Nat /\ Radix \in Nat /\ v = Radix * q + r
      BY <2>1, <1>9
    <3>4. (i + j * r) + (j * Radix) * q = i + j * v
      BY <3>3, Grows
    <3>5. w = i + j * r /\ x = j * Radix /\ n = i + j * v
      BY <3>1, <3>2, <1>5
    <3>6. QED
      BY <3>4, <3>5, Zenon
  <2> HIDE DEF w, x
  <2>6. u = [t EXCEPT !.msg = y, !.cursor = p, !.plen = w, !.mult = x,
                      !.hlen = p + 2, !.sts_len = "LEN_ENTER"]
    <3>1. t.hlen + 1 = p + 2
      BY <1>2, <1>8
    <3>2. QED
      BY <3>1, <2>2, <2>3, <1>3, <1>4, <1>8, Zenon DEF w, x
  <2>7. u \in Tapes
    BY <2>4, <2>6, <1>2, <1>3, <1>4 DEF Tapes
  <2>8. /\ u.sts = "B_STREAM" /\ u.sts_len = "LEN_ENTER" /\ u.cursor = p
        /\ u.msg = y /\ u.plen = w /\ u.mult = x /\ u.hlen = p + 2
    BY <2>6, <1>4 DEF Tapes
  <2>9. (p + 1) - 1 = p /\ (p + 1) + 1 = p + 2 /\ p + 1 \in 5..4 + k
    <3> DEFINE a == Len(CLength[q])
               c == Len(CLength[v])
    <3>1. a \in Nat /\ a >= 1 /\ c = 1 + a /\ c = k + 5 - p
      BY <2>1, <1>5
    <3> HIDE DEF a, c
    <3>2. QED
      BY <3>1, <1>1, <1>2
  <2>10. /\ n = u.plen + u.mult * q
         /\ Len(CLength[q]) = k + 5 - (p + 1)
         /\ \A i \in 1..Len(CLength[q]) : CLength[q][i] = CLength[n][(p + 1) - 5 + i]
    <3>1. n = u.plen + u.mult * q
      BY <2>5, <2>8
    <3> DEFINE a == Len(CLength[q])
               c == Len(CLength[v])
    <3>2. a \in Nat /\ c = 1 + a /\ c = k + 5 - p
      BY <2>1, <1>5
    <3>3. \A i \in 1..a : CLength[v][1 + i] = CLength[q][i]
      BY <2>1
    <3>4. \A i \in 1..c : CLength[v][i] = CLength[n][p - 5 + i]
      BY <1>5
    <3> HIDE DEF a, c
    <3>5. a = k + 5 - (p + 1)
      BY <3>2, <1>1, <1>2
    <3>6. ASSUME NEW i \in 1..a PROVE CLength[q][i] = CLength[n][(p + 1) - 5 + i]
      <4>1. 1 + i \in 1..c /\ p - 5 + (1 + i) = (p + 1) - 5 + i
        BY <3>2, <1>2
      <4>2. CLength[v][1 + i] = CLength[n][p - 5 + (1 + i)]
        BY <4>1, <3>4
      <4>3. QED
        BY <4>1, <4>2, <3>3
    <3>7. QED
      BY <3>1, <3>5, <3>6 DEF a
  <2>11. LengthTape(u, e, n, p + 1)
    BY <2>7, <2>8, <2>9, <2>10 DEF LengthTape, y
  <2>12. ~Host!Complete(u, b)
    BY <2>2, <2>8 DEF Host!Complete
  <2>13. QED
    BY <2>9, <2>11, <2>12 DEF u, b
<1>12. QED
  BY <1>10, <1>11

LEMMA BodyStep ==
    ASSUME NEW e \in Seq(Byte), NEW p \in 6..Len(e) - 1, e[p + 1] # START,
           NEW t, BodyTape(t, e, p), e[Len(e)] = END
    PROVE  \/ /\ p + 1 < Len(e) /\ BodyTape(Host!Feed(t, e[p + 1]), e, p + 1)
              /\ ~Host!Complete(Host!Feed(t, e[p + 1]), e[p + 1])
           \/ /\ p + 1 = Len(e) /\ Host!Feed(t, e[p + 1]).msg = e
              /\ Host!Complete(Host!Feed(t, e[p + 1]), e[p + 1])
<1> DEFINE b == e[p + 1]
           y == SubSeq(e, 1, p + 1)
           u == Host!Feed(t, b)
           l == Len(e)
<1>1. l \in Nat
  OBVIOUS
<1>2. p \in Nat /\ p >= 6 /\ p < l /\ p \in 6..l - 1
  <2> HIDE DEF l
  <2>1. p \in 6..l - 1
    BY DEF l
  <2>2. QED
    BY <2>1, <1>1
<1>3. b \in Byte /\ y = Append(SubSeq(e, 1, p), b) /\ y \in Seq(Byte) /\ b # START
  <2>1. /\ e[p + 1] \in Byte /\ SubSeq(e, 1, p) \in Seq(Byte)
        /\ SubSeq(e, 1, p + 1) = Append(SubSeq(e, 1, p), e[p + 1])
    BY <1>2, PrefixStep
  <2>2. QED
    BY <2>1
<1>4. /\ t \in Tapes /\ t.sts = "B_STREAM" /\ t.sts_len = "LEN_DONE"
      /\ t.cursor = p - 1 /\ t.expected_len = l - 1
      /\ t.msg = SubSeq(e, 1, p)
  BY DEF BodyTape
<1>5. e[l] = END /\ y = SubSeq(e, 1, p + 1) /\ SubSeq(e, 1, l) = e /\ b = e[p + 1]
  BY WholeSeq
<1> HIDE DEF b, y, u, l
<1>6. t.cursor + 1 = p /\ t.cursor + 1 # 5 /\ t.sts_len # "LEN_ENTER"
  BY <1>2, <1>4
<1>7. u = [t EXCEPT !.msg = Append(t.msg, b), !.cursor = t.cursor + 1]
  BY <1>3, <1>4, <1>6, FeedOther DEF u
<1>8. u = [t EXCEPT !.msg = y, !.cursor = p]
  BY <1>3, <1>4, <1>6, <1>7, Zenon
<1>9. u \in Tapes
  BY <1>2, <1>3, <1>4, <1>8 DEF Tapes
<1>10. /\ u.sts = "B_STREAM" /\ u.sts_len = "LEN_DONE" /\ u.cursor = p
       /\ u.expected_len = l - 1 /\ u.msg = y
  BY <1>4, <1>8 DEF Tapes
<1>11. (p + 1) - 1 = p /\ (p + 1 < l \/ p + 1 = l) /\ (p + 1 < l => p # l - 1)
       /\ (p + 1 = l => p = l - 1)
  BY <1>1, <1>2
<1>12. CASE p + 1 < l
  <2>1. BodyTape(u, e, p + 1)
    BY <1>9, <1>10, <1>11 DEF BodyTape, y, l
  <2>2. ~Host!Complete(u, b)
    BY <1>10, <1>11, <1>12 DEF Host!Complete
  <2>3. QED
    BY <1>12, <2>1, <2>2 DEF u, b, l
<1>13. CASE p + 1 = l
  <2>1. b = END /\ y = e
    BY <1>5, <1>13
  <2>2. u.msg = e
    BY <2>1, <1>10
  <2>3. Host!Complete(u, b)
    BY <1>3, <1>10, <1>11, <1>13, <2>1 DEF Host!Complete
  <2>4. QED
    BY <1>13, <2>2, <2>3 DEF u, b, l
<1>14. QED
  BY <1>11, <1>12, <1>13

\* The tape when p bytes of e, the message m, are read.
TapeIs(m, e, t, p) ==
    \/ /\ p = 0 /\ t = Host!NewTape
    \/ /\ p > 0 /\ m.kind = "text"
       /\ t \in Tapes /\ t.sts = "A_STREAM" /\ t.msg = SubSeq(e, 1, p)
    \/ /\ p > 0 /\ m.kind # "text"
       /\ LET n == Len(m.payload)
              k == Len(CLength[n])
          IN  \/ p \in 1..4 /\ HeaderTape(t, e, p)
              \/ p \in 5..4 + k /\ LengthTape(t, e, n, p)
              \/ p \in 5 + k..Len(e) - 1 /\ BodyTape(t, e, p)

\* What the reader does with the byte that follows the first p bytes of e.
Reads(m, e, t, p) ==
    \/ /\ p + 1 < Len(e) /\ TapeIs(m, e, Host!Feed(t, e[p + 1]), p + 1)
       /\ ~Host!Complete(Host!Feed(t, e[p + 1]), e[p + 1])
    \/ /\ p + 1 = Len(e) /\ Host!Feed(t, e[p + 1]).msg = e
       /\ Host!Complete(Host!Feed(t, e[p + 1]), e[p + 1])

LEMMA PacketStep ==
    ASSUME NEW m \in Message, m.kind # "text", NEW e, Packs(e, m, 0),
           \A i \in 2..Len(e) : e[i] # START,
           NEW p \in 0..Len(e) - 1, NEW t, TapeIs(m, e, t, p)
    PROVE  Reads(m, e, t, p)
<1> DEFINE n == Len(m.payload)
           k == Len(CLength[n])
           l == Len(e)
           b == e[p + 1]
           u == Host!Feed(t, b)
<1>1. n \in Nat /\ IsField(CLength[n])
  BY MessageFields
<1>2. k \in Nat /\ k >= 1
  BY <1>1 DEF IsField
<1>3. /\ e \in Seq(Byte) /\ l = 6 + k + n
      /\ e[1] = START
      /\ \A i \in 1..k : e[5 + i] = CLength[n][i]
      /\ e[l] = END
  BY DEF Packs
<1>4. /\ p \in 0..l - 1
      /\ \A i \in 2..l : e[i] # START
  OBVIOUS
<1>5. p + 1 < l => m.kind # "text" /\ p + 1 > 0
  BY <1>4
<1>6. CASE p = 0
  <2>1. t = Host!NewTape /\ e[p + 1] = START
    BY <1>3, <1>6 DEF TapeIs
  <2> HIDE DEF l, k, n
  <2>2. l > 1 /\ 0 + 1 = 1 /\ 1 < l /\ 1 \in 1..4
    BY <1>1, <1>2, <1>3
  <2>3. HeaderTape(u, e, 1) /\ ~Host!Complete(u, b)
    BY <2>1, <2>2, <1>3, StartStep DEF l
  <2>4. TapeIs(m, e, u, 1)
    BY <2>2, <2>3 DEF TapeIs
  <2>5. QED
    BY <2>2, <2>3, <2>4, <1>6 DEF Reads, l
<1> HIDE DEF b, u, l, k, n
<1>7. CASE p # 0
  <2>1. /\ p \in Nat /\ p >= 1 /\ p < l /\ p + 1 \in 2..l /\ p + 1 > 0
    BY <1>1, <1>2, <1>3, <1>4, <1>7
  <2>2. b # START
    BY <2>1, <1>4 DEF b
  <2>3. \/ p \in 1..4 /\ HeaderTape(t, e, p)
        \/ p \in 5..4 + k /\ LengthTape(t, e, n, p)
        \/ p \in 5 + k..l - 1 /\ BodyTape(t, e, p)
    BY <1>7 DEF TapeIs, n, k, l
  <2>4. CASE p \in 1..4 /\ HeaderTape(t, e, p)
    <3>1. HeaderTape(u, e, p + 1) /\ ~Host!Complete(u, b)
      BY <2>1, <2>2, <2>4, <1>3, HeaderStep DEF u, b, l
    <3>2. p + 1 < l /\ (p + 1 \in 1..4 \/ p + 1 = 5) /\ 5 \in 5..4 + k
      BY <2>4, <1>1, <1>2, <1>3
    <3>3. p + 1 = 5 => LengthTape(u, e, n, p + 1)
      BY <3>1, <1>1, LengthBegins
    <3>4. TapeIs(m, e, u, p + 1)
      BY <3>1, <3>2, <3>3, <2>1 DEF TapeIs, n, k, l
    <3>5. QED
      BY <3>1, <3>2, <3>4 DEF Reads, u, b, l
  <2>5. CASE p \in 5..4 + k /\ LengthTape(t, e, n, p)
    <3>1. b = CLength[n][p - 4]
      <4>1. p - 4 \in 1..k /\ 5 + (p - 4) = p + 1
        BY <2>5, <1>2
      <4>2. QED
        BY <4>1, <1>3 DEF b
    <3>2. /\ \/ p + 1 \in 5..4 + k /\ LengthTape(u, e, n, p + 1)
             \/ p + 1 = 5 + k /\ BodyTape(u, e, p + 1)
          /\ ~Host!Complete(u, b)
      <4>1. k = Len(CLength[n]) /\ Len(e) = 6 + k + n
        BY <1>3 DEF k, l
      <4>2. QED
        BY <4>1, <3>1, <2>2, <2>5, <1>1, <1>3, LengthStep, ZenonT(60) DEF u, b
    <3>3. p + 1 < l /\ (p + 1 = 5 + k => p + 1 \in 5 + k..l - 1)
      BY <2>5, <1>1, <1>2, <1>3
    <3>4. TapeIs(m, e, u, p + 1)
      BY <3>2, <3>3, <2>1 DEF TapeIs, n, k, l
    <3>5. QED
      BY <3>2, <3>3, <3>4 DEF Reads, u, b, l
  <2>6. CASE p \in 5 + k..l - 1 /\ BodyTape(t, e, p)
    <3>1. p \in 6..l - 1
      BY <2>6, <1>1, <1>2, <1>3
    <3>2. \/ p + 1 < l /\ BodyTape(u, e, p + 1) /\ ~Host!Complete(u, b)
          \/ p + 1 = l /\ u.msg = e /\ Host!Complete(u, b)
      BY <3>1, <2>2, <2>6, <1>3, BodyStep DEF u, b, l
    <3>3. CASE p + 1 < l /\ BodyTape(u, e, p + 1) /\ ~Host!Complete(u, b)
      <4>1. p + 1 \in 5 + k..l - 1
        BY <2>6, <3>3, <1>1, <1>2, <1>3
      <4>2. TapeIs(m, e, u, p + 1)
        BY <4>1, <3>3, <2>1 DEF TapeIs, n, k, l
      <4>3. QED
        BY <3>3, <4>2 DEF Reads, u, b, l
    <3>4. CASE p + 1 = l /\ u.msg = e /\ Host!Complete(u, b)
      BY <3>4 DEF Reads, u, b, l
    <3>5. QED
      BY <3>2, <3>3, <3>4
  <2>7. QED
    BY <2>3, <2>4, <2>5, <2>6
<1>8. QED
  BY <1>6, <1>7

LEMMA TextStep ==
    ASSUME NEW m \in Message, m.kind = "text", NEW e \in Seq(Byte),
           \A i \in 1..Len(e) : e[i] # START,
           \A i \in 1..Len(e) : e[i] = NL <=> i = Len(e),
           NEW p \in 0..Len(e) - 1, NEW t, TapeIs(m, e, t, p)
    PROVE  Reads(m, e, t, p)
<1> DEFINE b == e[p + 1]
           y == SubSeq(e, 1, p + 1)
           u == Host!Feed(t, b)
           l == Len(e)
<1>1. l \in Nat /\ p \in Nat /\ p < l /\ p + 1 \in 1..l /\ p + 1 > 0
      /\ (p + 1 < l \/ p + 1 = l) /\ (p + 1 < l => p + 1 # l)
  <2>1. l \in Nat /\ p \in 0..l - 1
    OBVIOUS
  <2> HIDE DEF l
  <2>2. QED
    BY <2>1
<1>2. b \in Byte /\ y = Append(SubSeq(e, 1, p), b) /\ y \in Seq(Byte)
  <2>1. /\ e[p + 1] \in Byte /\ SubSeq(e, 1, p) \in Seq(Byte)
        /\ SubSeq(e, 1, p + 1) = Append(SubSeq(e, 1, p), e[p + 1])
    BY <1>1, PrefixStep
  <2>2. QED
    BY <2>1
<1>3. b # START /\ (b = NL <=> p + 1 = l)
  BY <1>1
<1>4. t \in Tapes /\ t.sts = "A_STREAM" /\ t.msg = SubSeq(e, 1, p)
  <2>1. CASE p = 0
    <3>1. t = Host!NewTape /\ SubSeq(e, 1, 0) = <<>>
      BY <2>1 DEF TapeIs
    <3>2. QED
      BY <3>1, <2>1, NewTapeTyped DEF Host!NewTape
  <2>2. CASE p # 0
    BY <2>2 DEF TapeIs
  <2>3. QED
    BY <2>1, <2>2
<1>5. SubSeq(e, 1, l) = e
  BY WholeSeq
<1>50. y = SubSeq(e, 1, p + 1)
  OBVIOUS
<1> HIDE DEF b, y, u, l
<1>6. u = [t EXCEPT !.msg = Append(t.msg, b)]
  BY <1>2, <1>3, <1>4, FeedText DEF u
<1>7. u = [t EXCEPT !.msg = y]
  BY <1>2, <1>4, <1>6, Zenon
<1>8. u \in Tapes
  BY <1>2, <1>4, <1>7 DEF Tapes
<1>9. u.sts = "A_STREAM" /\ u.msg = y
  BY <1>4, <1>7 DEF Tapes
<1>10. CASE p + 1 < l
  <2>1. TapeIs(m, e, u, p + 1)
    BY <1>1, <1>8, <1>9 DEF TapeIs, y
  <2>2. ~Host!Complete(u, b)
    BY <1>1, <1>3, <1>9, <1>10 DEF Host!Complete
  <2>3. QED
    BY <1>10, <2>1, <2>2 DEF Reads, u, b, l
<1>11. CASE p + 1 = l
  <2>1. y = e
    BY <1>5, <1>50, <1>11
  <2>2. u.msg = e
    BY <2>1, <1>9
  <2>3. Host!Complete(u, b)
    BY <1>3, <1>9, <1>11 DEF Host!Complete
  <2>4. QED
    BY <1>11, <2>2, <2>3 DEF Reads, u, b, l
<1>12. QED
  BY <1>1, <1>10, <1>11

-----------------------------------------------------------------------------
(* What the host reads                                                     *)

\* A message that the board, or an endpoint of TCP, can write.
UpMessage(m) ==
    m \in Message /\ (m.kind \in {"board", "net"} => HeaderSize(m) + Len(m.payload) < TxSize)

LEMMA EncodeBytes ==
    ASSUME NEW m, UpMessage(m)
    PROVE  Host!Encode(m) \in Seq(Byte)
<1>1. m \in Message /\ m.kind \in {"host", "board", "net", "text"} /\ m.payload \in Seq(Byte)
  BY MessageFields DEF UpMessage
<1>2. CASE m.kind = "host"
  BY <1>1, <1>2, HostFrame, MarshallBytes DEF Host!Encode
<1>3. CASE m.kind = "board"
  BY <1>1, <1>3, SerialLinkAssumption, BoardBytes DEF UpMessage
<1>4. CASE m.kind = "net"
  <2>1. Host!Encode(m) = NaisMarshall(m, [i \in 1..TxSize |-> 0])
    BY <1>4, HostFrame DEF Host!Encode
  <2>2. QED
    BY <1>4, <2>1, SerialLinkAssumption, NetPacks DEF UpMessage, Packs
<1>5. CASE m.kind = "text"
  BY <1>1, <1>5 DEF Host!Encode
<1>6. QED
  BY <1>1, <1>2, <1>3, <1>4, <1>5

\* A packet that keeps the contract.
LEMMA PlainPacket ==
    ASSUME NEW m, UpMessage(m), Host!Plain(m), m.kind # "text"
    PROVE  Packs(Host!Encode(m), m, 0)
           /\ \A i \in 2..Len(Host!Encode(m)) : Host!Encode(m)[i] # START
<1> DEFINE e == Host!Encode(m)
           l == Len(e)
<1>1. m \in Message /\ m.kind \in {"host", "board", "net"} /\ e \in Seq(Byte)
  BY MessageFields, EncodeBytes DEF UpMessage
<1>2. Packs(e, m, 0)
  <2>1. CASE m.kind = "host"
    <3>1. m.payload # <<>> /\ m.payload \in Seq(Byte)
      BY <1>1, <2>1, MessageFields DEF Host!Plain
    <3>2. Len(m.payload) # 0
      BY <3>1
    <3>3. e = Marshall(m)
      BY <2>1, HostFrame DEF Host!Encode
    <3>4. QED
      BY <1>1, <3>2, <3>3, MarshallPacks
  <2>2. CASE m.kind = "board"
    <3>1. Len(m.payload) < Radix
      BY <2>2 DEF Host!Plain
    <3>2. e = ProtobufToUart(m, [i \in 1..TxSize |-> 0])
      BY <2>2, HostFrame DEF Host!Encode
    <3>3. HeaderSize(m) + Len(m.payload) < TxSize /\ TxSize \in Nat
      BY <2>2, SerialLinkAssumption DEF UpMessage
    <3>4. QED
      BY <1>1, <3>1, <3>2, <3>3, BoardPacks
  <2>3. CASE m.kind = "net"
    <3>1. e = NaisMarshall(m, [i \in 1..TxSize |-> 0])
      BY <2>3, HostFrame DEF Host!Encode
    <3>2. HeaderSize(m) + Len(m.payload) < TxSize /\ TxSize \in Nat
      BY <2>3, SerialLinkAssumption DEF UpMessage
    <3>3. QED
      BY <1>1, <3>1, <3>2, NetPacks
  <2>4. QED
    BY <1>1, <2>1, <2>2, <2>3
<1>3. START \notin Host!Range(Tail(e))
  BY <1>1 DEF Host!Plain
<1>4. ASSUME NEW i \in 2..l PROVE e[i] # START
  <2>1. l \in Nat
    BY <1>1
  <2>2. i - 1 \in 1..l - 1 /\ e # <<>>
    <3> HIDE DEF l
    <3>1. i - 1 \in 1..l - 1 /\ l # 0
      BY <2>1
    <3>2. QED
      BY <3>1, <1>1 DEF l
  <2>3. /\ DOMAIN Tail(e) = 1..l - 1
        /\ \A j \in 1..l - 1 : Tail(e)[j] = e[j + 1]
    <3> HIDE DEF e
    <3>1. QED
      BY <1>1, <2>2
  <2>4. (i - 1) + 1 = i
    OBVIOUS
  <2>5. Tail(e)[i - 1] = e[i] /\ i - 1 \in DOMAIN Tail(e)
    <3> HIDE DEF e, l
    <3>1. QED
      BY <2>2, <2>3, <2>4
  <2>6. QED
    BY <2>5, <1>3 DEF Host!Range
<1>5. QED
  BY <1>2, <1>4

LEMMA RecordStep ==
    ASSUME NEW m, UpMessage(m), Host!Plain(m)
    PROVE  /\ Host!Encode(m) \in Seq(Byte) /\ Len(Host!Encode(m)) >= 1
           /\ \A t : \A p \in 0..Len(Host!Encode(m)) - 1 :
                TapeIs(m, Host!Encode(m), t, p) => Reads(m, Host!Encode(m), t, p)
<1> DEFINE e == Host!Encode(m)
<1>1. m \in Message /\ e \in Seq(Byte)
  BY EncodeBytes DEF UpMessage
<1>2. CASE m.kind = "text"
  <2>1. e = m.payload
    BY <1>2 DEF Host!Encode
  <2>2. /\ m.payload # <<>>
        /\ \A i \in DOMAIN m.payload : m.payload[i] # START
        /\ \A i \in DOMAIN m.payload : m.payload[i] = NL <=> i = Len(m.payload)
    BY <1>2 DEF Host!Plain
  <2> HIDE DEF e
  <2>3. Len(e) >= 1 /\ DOMAIN e = 1..Len(e)
    BY <1>1, <2>1, <2>2
  <2>4. /\ \A i \in 1..Len(e) : e[i] # START
        /\ \A i \in 1..Len(e) : e[i] = NL <=> i = Len(e)
    BY <2>1, <2>2, <2>3
  <2>5. QED
    BY <1>1, <1>2, <2>3, <2>4, TextStep DEF e
<1>3. CASE m.kind # "text"
  <2>1. Packs(e, m, 0) /\ \A i \in 2..Len(e) : e[i] # START
    BY <1>3, PlainPacket
  <2>2. Len(e) >= 1
    <3>1. Len(e) = 6 + Len(CLength[Len(m.payload)]) + Len(m.payload)
      BY <2>1 DEF Packs
    <3>2. Len(CLength[Len(m.payload)]) \in Nat /\ Len(m.payload) \in Nat
      BY <1>1, MessageFields DEF IsField
    <3> DEFINE a == Len(CLength[Len(m.payload)])
               b == Len(m.payload)
    <3> HIDE DEF e, a, b
    <3>3. Len(e) = 6 + a + b /\ a \in Nat /\ b \in Nat
      BY <3>1, <3>2 DEF a, b
    <3>4. QED
      BY <3>3
  <2> HIDE DEF e
  <2>3. QED
    BY <1>1, <1>3, <2>1, <2>2, PacketStep DEF e
<1>4. QED
  BY <1>2, <1>3

\* What is left of the parts when q bytes are read.
Remaining(parts, q) == SubSeq(FlattenSeq(parts), q + 1, Len(FlattenSeq(parts)))

LEMMA SuffixStep ==
    ASSUME NEW s \in Seq(Byte), NEW q \in Nat, q < Len(s)
    PROVE  /\ SubSeq(s, q + 1, Len(s)) # <<>>
           /\ Head(SubSeq(s, q + 1, Len(s))) = s[q + 1]
           /\ Tail(SubSeq(s, q + 1, Len(s))) = SubSeq(s, q + 2, Len(s))
<1> DEFINE l == Len(s)
           u == SubSeq(s, q + 1, l)
           v == SubSeq(s, q + 2, l)
<1>1. l \in Nat /\ q + 1 \in Nat /\ q + 1 >= 1 /\ q + 1 <= l + 1 /\ q + 2 \in Nat /\ q + 2 >= 1
      /\ q + 2 <= l + 1 /\ l <= Len(s)
  OBVIOUS
<1>2. u \in Seq(Byte) /\ Len(u) = 1 + l - (q + 1) /\ \A p \in 1..1 + l - (q + 1) : u[p] = s[q + 1 + p - 1]
  BY <1>1, SubBytes
<1>3. v \in Seq(Byte) /\ Len(v) = 1 + l - (q + 2) /\ \A p \in 1..1 + l - (q + 2) : v[p] = s[q + 2 + p - 1]
  BY <1>1, SubBytes
<1>4. q < l
  OBVIOUS
<1> HIDE DEF l, u, v
<1>5. Len(u) >= 1 /\ Len(u) \in Nat /\ Len(v) = Len(u) - 1
  BY <1>1, <1>2, <1>3, <1>4
<1>6. u # <<>> /\ Head(u) = s[q + 1]
  <2>1. 1 \in 1..1 + l - (q + 1) /\ q + 1 + 1 - 1 = q + 1
    BY <1>1, <1>4
  <2>2. u[1] = s[q + 1]
    BY <1>2, <2>1
  <2>3. QED
    BY <2>2, <1>2, <1>5
<1>7. Tail(u) = v
  <2>1. Tail(u) \in Seq(Byte) /\ Len(Tail(u)) = Len(v) /\ \A p \in 1..Len(v) : Tail(u)[p] = u[p + 1]
    BY <1>2, <1>5
  <2>2. ASSUME NEW p \in 1..Len(v) PROVE Tail(u)[p] = v[p]
    <3>1. /\ p + 1 \in 1..1 + l - (q + 1) /\ q + 1 + (p + 1) - 1 = q + 2 + p - 1
          /\ p \in 1..1 + l - (q + 2)
      BY <1>1, <1>3, <1>4
    <3>2. u[p + 1] = v[p]
      BY <3>1, <1>2, <1>3
    <3>3. QED
      BY <3>2, <2>1
  <2>3. QED
    BY <2>1, <2>2, <1>3, SameBytes
<1>8. QED
  BY <1>6, <1>7 DEF u, v, l

LEMMA SuffixAppend ==
    ASSUME NEW s \in Seq(Byte), NEW x \in Seq(Byte), NEW q \in Nat, q <= Len(s)
    PROVE  SubSeq(s, q + 1, Len(s)) \o x = SubSeq(s \o x, q + 1, Len(s \o x))
<1> DEFINE l == Len(s)
           j == Len(x)
           y == s \o x
           u == SubSeq(s, q + 1, l)
           v == SubSeq(y, q + 1, Len(y))
           w == u \o x
<1>1. l \in Nat /\ j \in Nat /\ y \in Seq(Byte) /\ Len(y) = l + j
      /\ (\A p \in 1..l : y[p] = s[p]) /\ (\A p \in 1..j : y[l + p] = x[p])
  BY CatBytes
<1>2. q + 1 \in Nat /\ q + 1 >= 1 /\ q + 1 <= l + 1 /\ l <= Len(s)
  BY <1>1
<1>3. u \in Seq(Byte) /\ Len(u) = 1 + l - (q + 1) /\ \A p \in 1..1 + l - (q + 1) : u[p] = s[q + 1 + p - 1]
  BY <1>1, <1>2, SubBytes
<1> HIDE DEF u
<1>4. w \in Seq(Byte) /\ Len(w) = Len(u) + j
      /\ (\A p \in 1..Len(u) : w[p] = u[p]) /\ (\A p \in 1..j : w[Len(u) + p] = x[p])
  BY <1>3, CatBytes, ZenonT(60)
<1> HIDE DEF y, w, j, l
<1>5. q + 1 <= Len(y) + 1 /\ Len(y) \in Nat
  BY <1>1, <1>2
<1>6. /\ v \in Seq(Byte) /\ Len(v) = 1 + Len(y) - (q + 1)
      /\ \A p \in 1..1 + Len(y) - (q + 1) : v[p] = y[q + 1 + p - 1]
  BY <1>1, <1>2, <1>5, SubBytes
<1> HIDE DEF v
<1>7. Len(u) = l - q /\ Len(y) = l + j /\ Len(v) = (l - q) + j /\ Len(w) = (l - q) + j
  BY <1>1, <1>2, <1>3, <1>4, <1>6
<1>8. ASSUME NEW p \in 1..(l - q) + j PROVE w[p] = v[p]
  <2>1. p \in 1..1 + Len(y) - (q + 1) /\ q + 1 + p - 1 = q + p
    BY <1>1, <1>7
  <2>2. v[p] = y[q + p]
    BY <2>1, <1>6
  <2>3. CASE p <= l - q
    <3>1. p \in 1..Len(u) /\ p \in 1..1 + l - (q + 1) /\ q + p \in 1..l
      BY <2>3, <1>1, <1>2, <1>7
    <3>2. w[p] = s[q + 1 + p - 1]
      BY <3>1, <1>3, <1>4
    <3>3. QED
      BY <3>1, <3>2, <2>1, <2>2, <1>1
  <2>4. CASE ~ (p <= l - q)
    <3> DEFINE i == p - (l - q)
    <3>1. i \in 1..j /\ Len(u) + i = p /\ l + i = q + p
      BY <2>4, <1>1, <1>2, <1>7
    <3> HIDE DEF i
    <3>2. w[p] = x[i] /\ y[q + p] = x[i]
      BY <3>1, <1>1, <1>4
    <3>3. QED
      BY <3>2, <2>2
  <2>5. QED
    BY <2>3, <2>4
<1>9. w = v
  BY <1>4, <1>6, <1>7, <1>8, SameBytes
<1>10. QED
  BY <1>9 DEF w, v, u, y, l

\* The next byte is that of the message that is being read.
LEMMA RemainingStep ==
    ASSUME NEW parts \in Seq(Seq(Byte)), NEW k \in 0..Len(parts) - 1,
           NEW p \in 0..Len(parts[k + 1]) - 1
    PROVE  LET w == Remaining(parts, Len(Cat(parts, k)) + p) IN
           /\ w # <<>> /\ Head(w) = parts[k + 1][p + 1]
           /\ Tail(w) = Remaining(parts, Len(Cat(parts, k)) + p + 1)
           /\ p + 1 = Len(parts[k + 1]) =>
                Tail(w) = Remaining(parts, Len(Cat(parts, k + 1)) + 0)
<1> DEFINE F == FlattenSeq(parts)
           c == Len(Cat(parts, k))
           d == Len(Cat(parts, k + 1))
           e == parts[k + 1]
           m == Len(e)
           w == Remaining(parts, c + p)
           N == Len(parts)
<1>1. N \in Nat /\ k \in Nat /\ k + 1 \in 1..N /\ (k + 1) - 1 = k
  <2>1. N \in Nat /\ k \in 0..N - 1
    OBVIOUS
  <2> HIDE DEF N
  <2>2. QED
    BY <2>1
<1>2. /\ F \in Seq(Byte) /\ Len(Cat(parts, (k + 1) - 1)) \in Nat /\ m \in Nat
      /\ d = Len(Cat(parts, (k + 1) - 1)) + m
      /\ d <= Len(F)
      /\ \A i \in 1..m : F[Len(Cat(parts, (k + 1) - 1)) + i] = e[i]
  BY <1>1, CatByte
<1>20. p \in 0..m - 1 /\ w = SubSeq(F, (c + p) + 1, Len(F)) /\ Len(F) \in Nat
  BY <1>2 DEF Remaining
<1> HIDE DEF F, d, e, m, N
<1>3. c \in Nat /\ d = c + m /\ \A i \in 1..m : F[c + i] = e[i]
  BY <1>1, <1>2
<1> HIDE DEF c
<1>4. c + p \in Nat /\ c + p < Len(F) /\ p + 1 \in 1..m /\ c + (p + 1) = (c + p) + 1
      /\ (c + p) + 2 = (c + p + 1) + 1 /\ (p + 1 = m => c + p + 1 = d + 0)
  <2> DEFINE L == Len(F)
  <2>1. L \in Nat /\ m \in Nat /\ d = c + m /\ d <= L /\ c \in Nat /\ p \in 0..m - 1
    BY <1>2, <1>3, <1>20
  <2> HIDE DEF L
  <2>2. p \in Nat /\ p < m /\ p + 1 \in 1..m
    BY <2>1
  <2>3. c + p < L /\ c + p \in Nat
    BY <2>1, <2>2
  <2>4. c + (p + 1) = (c + p) + 1 /\ (c + p) + 2 = (c + p + 1) + 1
    BY <2>1, <2>2
  <2>5. p + 1 = m => c + p + 1 = d + 0
    BY <2>1, <2>2
  <2>6. QED
    BY <2>2, <2>3, <2>4, <2>5 DEF L
<1>5. /\ w # <<>> /\ Head(w) = F[(c + p) + 1] /\ Tail(w) = SubSeq(F, (c + p) + 2, Len(F))
  BY <1>2, <1>4, <1>20, SuffixStep
<1>6. Head(w) = e[p + 1]
  BY <1>3, <1>4, <1>5
<1>7. Tail(w) = Remaining(parts, c + p + 1)
  BY <1>4, <1>5 DEF Remaining, F
<1>8. p + 1 = m => Tail(w) = Remaining(parts, d + 0)
  BY <1>4, <1>7
<1>9. QED
  BY <1>5, <1>6, <1>7, <1>8 DEF c, d, e, m

\* How far the host is in the first n messages: within one of them, behind
\* them, or already in what follows.
ReadingOf(sent, parts, g, w, t, n) ==
    \/ \E k \in 0..n - 1 : \E p \in 0..Len(parts[k + 1]) - 1 :
          /\ g = SubSeq(parts, 1, k)
          /\ w = Remaining(parts, Len(Cat(parts, k)) + p)
          /\ TapeIs(sent[k + 1], parts[k + 1], t, p)
    \/ /\ g = SubSeq(parts, 1, n)
       /\ w = Remaining(parts, Len(Cat(parts, n)) + 0)
       /\ t = Host!NewTape
    \/ n < Len(sent) /\ n <= Len(g) /\ \A i \in 1..n : g[i] = parts[i]

PlainUpto(sent, h, n) == \A i \in 1..n : Host!Plain(sent[i]) /\ i # h

\* The messages and the bytes of them that arrive, of which message h is damaged.
Arrive(sent, parts, h) ==
    /\ sent \in Seq(Message) /\ parts \in Seq(Seq(Byte))
    /\ Len(parts) = Len(sent) /\ Len(sent) \in Nat
    /\ h \in 0..Len(sent)
    /\ \A i \in 1..Len(sent) : UpMessage(sent[i])
    /\ \A i \in 1..Len(sent) : i # h => parts[i] = Host!Encode(sent[i])

HostOK(sent, parts, h, g, w, t) ==
    /\ Arrive(sent, parts, h)
    /\ \E S : g \in Seq(S)
    /\ \A n \in 0..Len(sent) : PlainUpto(sent, h, n) => ReadingOf(sent, parts, g, w, t, n)

LEMMA PlainPart ==
    ASSUME NEW sent, NEW parts, NEW h, Arrive(sent, parts, h), NEW n \in 0..Len(sent),
           PlainUpto(sent, h, n), NEW i \in 1..n
    PROVE  /\ i \in 1..Len(sent)
           /\ parts[i] = Host!Encode(sent[i]) /\ UpMessage(sent[i]) /\ Host!Plain(sent[i])
           /\ parts[i] \in Seq(Byte) /\ Len(parts[i]) >= 1
<1>1. i \in 1..Len(sent)
  BY DEF Arrive
<1>2. parts[i] = Host!Encode(sent[i]) /\ UpMessage(sent[i]) /\ Host!Plain(sent[i])
  BY <1>1 DEF Arrive, PlainUpto
<1>3. Host!Encode(sent[i]) \in Seq(Byte) /\ Len(Host!Encode(sent[i])) >= 1
  BY <1>2, RecordStep
<1>4. QED
  BY <1>1, <1>2, <1>3

LEMMA HostStarts ==
    ASSUME NEW sent, NEW parts, NEW h, Arrive(sent, parts, h)
    PROVE  HostOK(sent, parts, h, <<>>, FlattenSeq(parts), Host!NewTape)
<1>1. parts \in Seq(Seq(Byte)) /\ Len(sent) \in Nat
  BY DEF Arrive
<1>2. Cat(parts, 0) = <<>> /\ Len(Cat(parts, 0)) + 0 = 0 /\ SubSeq(parts, 1, 0) = <<>>
  <2>1. Cat(parts, 0) = <<>>
    BY <1>1, CatFacts
  <2>2. SubSeq(parts, 1, 0) = <<>>
    BY <1>1
  <2>3. QED
    BY <2>1, <2>2
<1>3. Remaining(parts, Len(Cat(parts, 0)) + 0) = FlattenSeq(parts)
  <2>1. FlattenSeq(parts) \in Seq(Byte)
    <3>1. Len(parts) \in 0..Len(parts)
      BY <1>1
    <3>2. Cat(parts, Len(parts)) = FlattenSeq(parts) /\ Cat(parts, Len(parts)) \in Seq(Byte)
      BY <3>1, <1>1, CatFacts
    <3>3. QED
      BY <3>2
  <2>2. 0 + 1 = 1
    OBVIOUS
  <2>3. QED
    BY <1>2, <2>1, <2>2, WholeSeq DEF Remaining
<1>4. ASSUME NEW n \in 0..Len(sent), PlainUpto(sent, h, n)
      PROVE  ReadingOf(sent, parts, <<>>, FlattenSeq(parts), Host!NewTape, n)
  <2>1. CASE n = 0
    BY <2>1, <1>2, <1>3 DEF ReadingOf
  <2>2. CASE n # 0
    <3>1. 1 \in 1..n /\ 0 \in 0..n - 1 /\ 0 + 1 = 1
      BY <2>2, <1>1
    <3>2. parts[0 + 1] \in Seq(Byte) /\ Len(parts[0 + 1]) >= 1
      BY <3>1, <1>4, PlainPart
    <3>3. 0 \in 0..Len(parts[0 + 1]) - 1
      <4>1. Len(parts[0 + 1]) \in Nat
        BY <3>2
      <4>2. QED
        BY <4>1, <3>2
    <3>4. TapeIs(sent[0 + 1], parts[0 + 1], Host!NewTape, 0)
      BY DEF TapeIs
    <3>5. QED
      BY <3>1, <3>3, <3>4, <1>2, <1>3 DEF ReadingOf
  <2>3. QED
    BY <2>1, <2>2
<1>5. <<>> \in Seq({})
  OBVIOUS
<1>6. QED
  BY <1>4, <1>5 DEF HostOK

LEMMA AppendSeq ==
    ASSUME NEW S, NEW g \in Seq(S), NEW x
    PROVE  /\ Append(g, x) \in Seq(S \cup {x}) /\ Len(g) \in Nat /\ Len(Append(g, x)) = Len(g) + 1
           /\ \A i \in 1..Len(g) : Append(g, x)[i] = g[i]
<1>1. g \in Seq(S \cup {x})
  OBVIOUS
<1>2. Append(g, x) \in Seq(S \cup {x}) /\ Len(g) \in Nat /\ Len(Append(g, x)) = Len(g) + 1
  BY <1>1
<1>3. \A i \in 1..Len(g) : Append(g, x)[i] = g[i]
  BY <1>1
<1>4. QED
  BY <1>2, <1>3

\* What the host does with the next byte: g and t become g2 and t2.
Took(g, w, t, g2, t2) ==
    LET u == Host!Feed(t, Head(w))
    IN  IF Host!Complete(u, Head(w)) THEN g2 = Append(g, u.msg) /\ t2 = Host!NewTape
                                     ELSE g2 = g /\ t2 = u

LEMMA TookGot ==
    ASSUME NEW S, NEW g \in Seq(S), NEW w, NEW t, NEW g2, NEW t2, Took(g, w, t, g2, t2)
    PROVE  /\ \E Z : g2 \in Seq(Z)
           /\ Len(g) \in Nat /\ Len(g2) \in Nat /\ Len(g) <= Len(g2)
           /\ \A i \in 1..Len(g) : g2[i] = g[i]
<1> DEFINE x == Host!Feed(t, Head(w)).msg
<1>1. g2 = g \/ g2 = Append(g, x)
  BY DEF Took
<1> HIDE DEF x
<1>2. CASE g2 = g
  BY <1>2
<1>3. CASE g2 = Append(g, x)
  <2>1. /\ Append(g, x) \in Seq(S \cup {x}) /\ Len(g) \in Nat /\ Len(Append(g, x)) = Len(g) + 1
        /\ \A i \in 1..Len(g) : Append(g, x)[i] = g[i]
    BY AppendSeq
  <2>2. g2 \in Seq(S \cup {x}) /\ Len(g2) = Len(g) + 1 /\ \A i \in 1..Len(g) : g2[i] = g[i]
    BY <1>3, <2>1, Zenon
  <2>3. Len(g2) \in Nat /\ Len(g) <= Len(g2)
    BY <2>1, <2>2
  <2>4. QED
    BY <2>1, <2>2, <2>3
<1>4. QED
  BY <1>1, <1>2, <1>3

LEMMA ReadStep ==
    ASSUME NEW sent, NEW parts, NEW h, NEW g, NEW w, NEW t, HostOK(sent, parts, h, g, w, t),
           w # <<>>, NEW g2, NEW t2, Took(g, w, t, g2, t2)
    PROVE  HostOK(sent, parts, h, g2, Tail(w), t2)
<1>1. Arrive(sent, parts, h) /\ parts \in Seq(Seq(Byte)) /\ Len(sent) \in Nat
      /\ Len(parts) = Len(sent)
  BY DEF HostOK, Arrive
<1>2. PICK S : g \in Seq(S)
  BY DEF HostOK
<1>3. /\ \E Z : g2 \in Seq(Z)
      /\ Len(g) \in Nat /\ Len(g2) \in Nat /\ Len(g) <= Len(g2)
      /\ \A i \in 1..Len(g) : g2[i] = g[i]
  BY <1>2, TookGot
<1>4. ASSUME NEW n \in 0..Len(sent), PlainUpto(sent, h, n)
      PROVE  ReadingOf(sent, parts, g2, Tail(w), t2, n)
  <2>0. ReadingOf(sent, parts, g, w, t, n) /\ n \in Nat /\ n <= Len(sent)
    BY <1>1, <1>4 DEF HostOK
  <2>1. CASE \E k \in 0..n - 1 : \E p \in 0..Len(parts[k + 1]) - 1 :
               /\ g = SubSeq(parts, 1, k)
               /\ w = Remaining(parts, Len(Cat(parts, k)) + p)
               /\ TapeIs(sent[k + 1], parts[k + 1], t, p)
    <3>0. PICK k \in 0..n - 1 : \E p \in 0..Len(parts[k + 1]) - 1 :
               /\ g = SubSeq(parts, 1, k)
               /\ w = Remaining(parts, Len(Cat(parts, k)) + p)
               /\ TapeIs(sent[k + 1], parts[k + 1], t, p)
      BY <2>1
    <3>1. PICK p \in 0..Len(parts[k + 1]) - 1 :
               /\ g = SubSeq(parts, 1, k)
               /\ w = Remaining(parts, Len(Cat(parts, k)) + p)
               /\ TapeIs(sent[k + 1], parts[k + 1], t, p)
      BY <3>0
    <3> DEFINE e == parts[k + 1]
               m == sent[k + 1]
               l == Len(e)
    <3>2. k \in Nat /\ k + 1 \in 1..n /\ k \in 0..Len(parts) - 1 /\ k + 1 \in 1..Len(parts)
      BY <2>0, <1>1
    <3>3. e = Host!Encode(m) /\ UpMessage(m) /\ Host!Plain(m) /\ e \in Seq(Byte)
      BY <3>2, <1>1, <1>4, PlainPart
    <3>4. l \in Nat /\ p \in 0..l - 1
      BY <3>3
    <3>5. Reads(m, e, t, p)
      BY <3>1, <3>3, RecordStep
    <3>6. /\ Head(w) = e[p + 1]
          /\ Tail(w) = Remaining(parts, Len(Cat(parts, k)) + p + 1)
          /\ p + 1 = l => Tail(w) = Remaining(parts, Len(Cat(parts, k + 1)) + 0)
      BY <3>1, <3>2, <1>1, RemainingStep
    <3> DEFINE u == Host!Feed(t, e[p + 1])
    <3>7. CASE /\ p + 1 < l /\ TapeIs(m, e, u, p + 1)
               /\ ~Host!Complete(u, e[p + 1])
      <4>1. g2 = g /\ t2 = u
        BY <3>6, <3>7 DEF Took
      <4> DEFINE c == Len(Cat(parts, k))
      <4>2. c \in Nat
        <5>1. k \in 0..Len(parts)
          BY <3>2, <1>1
        <5>2. Cat(parts, k) \in Seq(Byte)
          BY <5>1, <1>1, CatFacts
        <5>3. QED
          BY <5>2
      <4> HIDE DEF c, l, u
      <4>3. p + 1 \in 0..l - 1 /\ c + p + 1 = c + (p + 1)
        BY <3>4, <3>7, <4>2
      <4>4. Tail(w) = Remaining(parts, c + (p + 1))
        BY <3>6, <4>3 DEF c
      <4>5. p + 1 \in 0..Len(parts[k + 1]) - 1
        BY <4>3 DEF l
      <4>6. QED
        BY <3>1, <3>7, <4>1, <4>4, <4>5 DEF ReadingOf, c
    <3>8. CASE p + 1 = l /\ u.msg = e /\ Host!Complete(u, e[p + 1])
      <4>1. g2 = Append(g, e) /\ t2 = Host!NewTape
        BY <3>6, <3>8 DEF Took
      <4>2. SubSeq(parts, 1, k + 1) = Append(SubSeq(parts, 1, k), parts[k + 1])
        BY <3>2, <1>1
      <4>3. g2 = SubSeq(parts, 1, k + 1)
        BY <3>1, <4>1, <4>2, Zenon
      <4>4. Tail(w) = Remaining(parts, Len(Cat(parts, k + 1)) + 0)
        BY <3>6, <3>8
      <4>5. CASE k + 1 = n
        BY <4>1, <4>3, <4>4, <4>5 DEF ReadingOf
      <4>6. CASE k + 1 # n
        <5>1. k + 1 \in 0..n - 1 /\ (k + 1) + 1 \in 1..n
          BY <4>6, <3>2, <2>0
        <5>2. parts[(k + 1) + 1] \in Seq(Byte) /\ Len(parts[(k + 1) + 1]) >= 1
          BY <5>1, <1>1, <1>4, PlainPart
        <5>3. 0 \in 0..Len(parts[(k + 1) + 1]) - 1
          <6>1. Len(parts[(k + 1) + 1]) \in Nat
            BY <5>2
          <6>2. QED
            BY <6>1, <5>2
        <5>4. TapeIs(sent[(k + 1) + 1], parts[(k + 1) + 1], t2, 0)
          BY <4>1 DEF TapeIs
        <5>5. QED
          BY <5>1, <5>3, <5>4, <4>3, <4>4 DEF ReadingOf
      <4>7. QED
        BY <4>5, <4>6
    <3>9. QED
      BY <3>5, <3>7, <3>8 DEF Reads
  <2>2. CASE /\ g = SubSeq(parts, 1, n)
             /\ w = Remaining(parts, Len(Cat(parts, n)) + 0)
             /\ t = Host!NewTape
    <3>1. n # Len(sent)
      <4>1. SUFFICES ASSUME n = Len(parts) PROVE FALSE
        BY <1>1
      <4> DEFINE F == FlattenSeq(parts)
                 L == Len(F)
      <4>2. Cat(parts, n) = F /\ F \in Seq(Byte)
        <5>1. n \in 0..Len(parts)
          BY <4>1, <1>1
        <5>2. Cat(parts, n) = F /\ Cat(parts, n) \in Seq(Byte)
          BY <5>1, <4>1, <1>1, CatFacts
        <5>3. QED
          BY <5>2
      <4>3. L \in Nat
        BY <4>2
      <4>4. w = SubSeq(F, (L + 0) + 1, L)
        BY <2>2, <4>2 DEF Remaining
      <4> HIDE DEF L
      <4>5. (L + 0) + 1 = L + 1
        BY <4>3
      <4>6. SubSeq(F, L + 1, L) = <<>>
        BY <4>2, <4>3 DEF L
      <4>7. QED
        BY <4>4, <4>5, <4>6
    <3>2. n < Len(sent)
      BY <3>1, <2>0, <1>1
    <3>3. Len(g) = n /\ \A i \in 1..n : g[i] = parts[i]
      BY <2>0, <2>2, <1>1
    <3>4. n <= Len(g2) /\ \A i \in 1..n : g2[i] = parts[i]
      BY <3>3, <1>3
    <3>5. QED
      BY <3>2, <3>4 DEF ReadingOf
  <2>3. CASE n < Len(sent) /\ n <= Len(g) /\ \A i \in 1..n : g[i] = parts[i]
    <3>1. n <= Len(g2) /\ \A i \in 1..n : g2[i] = parts[i]
      <4> DEFINE a == Len(g)
                 b == Len(g2)
      <4>1. a \in Nat /\ b \in Nat /\ a <= b /\ n <= a /\ n \in Nat
        BY <2>0, <2>3, <1>3
      <4> HIDE DEF a, b
      <4>2. n <= b /\ \A i \in 1..n : i \in 1..a
        BY <4>1
      <4>3. QED
        BY <4>2, <2>3, <1>3 DEF a, b
    <3>2. QED
      BY <3>1, <2>3 DEF ReadingOf
  <2>4. QED
    BY <2>0, <2>1, <2>2, <2>3 DEF ReadingOf
<1>5. QED
  BY <1>1, <1>3, <1>4 DEF HostOK

LEMMA AppendParts ==
    ASSUME NEW parts \in Seq(Seq(Byte)), NEW x \in Seq(Byte)
    PROVE  /\ Append(parts, x) \in Seq(Seq(Byte)) /\ Len(parts) \in Nat
           /\ Len(Append(parts, x)) = Len(parts) + 1
           /\ Append(parts, x)[Len(parts) + 1] = x
           /\ \A i \in 1..Len(parts) : Append(parts, x)[i] = parts[i]
           /\ \A k \in 0..Len(parts) : SubSeq(Append(parts, x), 1, k) = SubSeq(parts, 1, k)
<1>1. Append(parts, x) \in Seq(Seq(Byte)) /\ Len(parts) \in Nat
  OBVIOUS
<1>2. Len(Append(parts, x)) = Len(parts) + 1 /\ Append(parts, x)[Len(parts) + 1] = x
  OBVIOUS
<1>3. \A i \in 1..Len(parts) : Append(parts, x)[i] = parts[i]
  OBVIOUS
<1>4. \A k \in 0..Len(parts) : SubSeq(Append(parts, x), 1, k) = SubSeq(parts, 1, k)
  OBVIOUS
<1>5. QED
  BY <1>1, <1>2, <1>3, <1>4

LEMMA RemainingAppend ==
    ASSUME NEW parts \in Seq(Seq(Byte)), NEW x \in Seq(Byte),
           NEW q \in Nat, q <= Len(FlattenSeq(parts)), FlattenSeq(parts) \in Seq(Byte)
    PROVE  Remaining(Append(parts, x), q) = Remaining(parts, q) \o x
<1> DEFINE F == FlattenSeq(parts)
           G == FlattenSeq(Append(parts, x))
<1>1. G = F \o x
  BY FlattenAppend
<1>2. F \in Seq(Byte) /\ q <= Len(F)
  OBVIOUS
<1> HIDE DEF F, G
<1>3. SubSeq(F, q + 1, Len(F)) \o x = SubSeq(F \o x, q + 1, Len(F \o x))
  BY <1>2, SuffixAppend
<1>4. QED
  BY <1>1, <1>3, Zenon DEF Remaining, F, G

\* All bytes, and those of the first k messages.
LEMMA CatWithin ==
    ASSUME NEW parts \in Seq(Seq(Byte)), NEW k \in 0..Len(parts)
    PROVE  /\ FlattenSeq(parts) \in Seq(Byte)
           /\ Len(Cat(parts, k)) \in Nat
           /\ Len(Cat(parts, k)) + 0 <= Len(FlattenSeq(parts))
<1>1. Len(parts) \in Nat /\ Len(parts) \in 0..Len(parts)
  OBVIOUS
<1>2. Cat(parts, Len(parts)) = FlattenSeq(parts) /\ Cat(parts, Len(parts)) \in Seq(Byte)
  BY <1>1, CatFacts
<1>3. Cat(parts, 0) = <<>> /\ Cat(parts, k) \in Seq(Byte)
  BY CatFacts
<1> DEFINE F == FlattenSeq(parts)
           c == Len(Cat(parts, k))
           L == Len(F)
<1>4. F \in Seq(Byte) /\ L \in Nat /\ c \in Nat
  BY <1>2, <1>3
<1>5. c <= L
  <2>1. CASE k = 0
    <3>1. c = 0
      BY <1>3, <2>1
    <3> HIDE DEF c, L
    <3>2. QED
      BY <3>1, <1>4
  <2>2. CASE k # 0
    <3>1. k \in 1..Len(parts)
      BY <2>2, <1>1
    <3>2. QED
      BY <3>1, CatByte
  <2>3. QED
    BY <2>1, <2>2
<1> HIDE DEF F, c, L
<1>6. c + 0 <= L
  BY <1>4, <1>5
<1>7. QED
  BY <1>4, <1>6 DEF F, c, L

LEMMA WriteStep ==
    ASSUME NEW sent, NEW parts, NEW h, NEW g, NEW w, NEW t, HostOK(sent, parts, h, g, w, t),
           NEW a, UpMessage(a)
    PROVE  HostOK(Append(sent, a), Append(parts, Host!Encode(a)), h, g, w \o Host!Encode(a), t)
<1> DEFINE x == Host!Encode(a)
           sent2 == Append(sent, a)
           parts2 == Append(parts, x)
           N == Len(sent)
<1>1. Arrive(sent, parts, h) /\ parts \in Seq(Seq(Byte)) /\ N \in Nat
      /\ Len(parts) = N /\ sent \in Seq(Message) /\ a \in Message /\ h \in 0..N
  BY DEF HostOK, Arrive, UpMessage
<1>2. x \in Seq(Byte)
  BY EncodeBytes
<1>3. /\ parts2 \in Seq(Seq(Byte)) /\ Len(parts2) = N + 1 /\ parts2[N + 1] = x
      /\ \A i \in 1..N : parts2[i] = parts[i]
      /\ \A k \in 0..N : SubSeq(parts2, 1, k) = SubSeq(parts, 1, k)
  <2> HIDE DEF x
  <2>1. QED
    BY <1>1, <1>2, AppendParts
<1>4. /\ sent2 \in Seq(Message) /\ Len(sent2) = N + 1 /\ sent2[N + 1] = a
      /\ \A i \in 1..N : sent2[i] = sent[i]
  BY <1>1
<1>5. \A k \in 0..N : Cat(parts2, k) = Cat(parts, k)
  BY <1>3 DEF Cat
<1>6. FlattenSeq(parts) \in Seq(Byte)
  <2>1. 0 \in 0..Len(parts)
    BY <1>1
  <2>2. QED
    BY <1>1, <2>1, CatWithin
<1> HIDE DEF x, sent2, parts2, N
<1>7. \A i \in 1..N + 1 : i \in 1..N \/ i = N + 1
  BY <1>1
<1>8. Arrive(sent2, parts2, h)
  <2>1. N + 1 \in Nat /\ h \in 0..N + 1 /\ h # N + 1
    BY <1>1
  <2>2. \A i \in 1..N + 1 : UpMessage(sent2[i])
    BY <1>1, <1>4, <1>7 DEF Arrive, N
  <2>3. \A i \in 1..N + 1 : i # h => parts2[i] = Host!Encode(sent2[i])
    BY <1>1, <1>3, <1>4, <1>7 DEF Arrive, N, x
  <2>4. QED
    BY <1>3, <1>4, <2>1, <2>2, <2>3 DEF Arrive
<1>9. \A q \in Nat : q <= Len(FlattenSeq(parts)) => Remaining(parts2, q) = Remaining(parts, q) \o x
  BY <1>1, <1>2, <1>6, RemainingAppend DEF parts2
<1>10. ASSUME NEW n \in 0..N + 1, NEW k \in 0..n - 1, k \in 0..N - 1, NEW p \in 0..Len(parts[k + 1]) - 1,
              g = SubSeq(parts, 1, k),
              w = Remaining(parts, Len(Cat(parts, k)) + p),
              TapeIs(sent[k + 1], parts[k + 1], t, p)
       PROVE  ReadingOf(sent2, parts2, g, w \o x, t, n)
  <2>1. k + 1 \in 1..N /\ k \in 0..N /\ (k + 1) - 1 = k /\ k \in 0..Len(parts)
        /\ k + 1 \in 1..Len(parts)
    BY <1>1, <1>10
  <2>2. Len(Cat(parts, k)) + p \in Nat /\ Len(Cat(parts, k)) + p <= Len(FlattenSeq(parts))
    <3> DEFINE c == Len(Cat(parts, k))
               d == Len(Cat(parts, k + 1))
               m == Len(parts[k + 1])
               L == Len(FlattenSeq(parts))
    <3>1. Len(Cat(parts, (k + 1) - 1)) \in Nat /\ m \in Nat
          /\ d = Len(Cat(parts, (k + 1) - 1)) + m /\ d <= L /\ p \in 0..m - 1
      BY <2>1, <1>1, CatByte
    <3>2. c = Len(Cat(parts, (k + 1) - 1)) /\ L \in Nat
      BY <2>1, <1>6
    <3> HIDE DEF d, m, L
    <3>3. c \in Nat /\ d = c + m
      BY <3>1, <3>2
    <3> HIDE DEF c
    <3>4. c + p \in Nat /\ c + p <= L
      BY <3>1, <3>2, <3>3
    <3>5. QED
      BY <3>4 DEF c, L
  <2>3. w \o x = Remaining(parts2, Len(Cat(parts2, k)) + p)
    <3>1. Remaining(parts2, Len(Cat(parts, k)) + p) = Remaining(parts, Len(Cat(parts, k)) + p) \o x
      BY <2>2, <1>9
    <3>2. QED
      BY <3>1, <2>1, <1>5, <1>10, Zenon
  <2>4. g = SubSeq(parts2, 1, k) /\ parts2[k + 1] = parts[k + 1] /\ sent2[k + 1] = sent[k + 1]
    BY <2>1, <1>3, <1>4, <1>10
  <2>5. QED
    BY <2>3, <2>4, <1>10 DEF ReadingOf
<1>11. ASSUME NEW n \in 0..N + 1, PlainUpto(sent2, h, n)
       PROVE  ReadingOf(sent2, parts2, g, w \o x, t, n)
  <2>1. CASE n \in 0..N
    <3>1. PlainUpto(sent, h, n)
      <4>1. \A i \in 1..n : i \in 1..N
        BY <2>1, <1>1
      <4>2. QED
        BY <4>1, <1>4, <1>11 DEF PlainUpto
    <3>2. ReadingOf(sent, parts, g, w, t, n)
      BY <2>1, <3>1 DEF HostOK, N
    <3>3. CASE \E k \in 0..n - 1 : \E p \in 0..Len(parts[k + 1]) - 1 :
                 /\ g = SubSeq(parts, 1, k)
                 /\ w = Remaining(parts, Len(Cat(parts, k)) + p)
                 /\ TapeIs(sent[k + 1], parts[k + 1], t, p)
      <4>1. \A k \in 0..n - 1 : k \in 0..N - 1
        BY <2>1, <1>1
      <4>2. QED
        BY <3>3, <4>1, <1>10
    <3>4. CASE /\ g = SubSeq(parts, 1, n)
               /\ w = Remaining(parts, Len(Cat(parts, n)) + 0)
               /\ t = Host!NewTape
      <4>1. Len(Cat(parts, n)) + 0 \in Nat /\ Len(Cat(parts, n)) + 0 <= Len(FlattenSeq(parts))
        <5>1. n \in 0..Len(parts)
          BY <2>1, <1>1
        <5>2. Len(Cat(parts, n)) \in Nat /\ Len(Cat(parts, n)) + 0 <= Len(FlattenSeq(parts))
          BY <5>1, <1>1, CatWithin
        <5>3. QED
          BY <5>2
      <4>2. Remaining(parts2, Len(Cat(parts, n)) + 0) = Remaining(parts, Len(Cat(parts, n)) + 0) \o x
        BY <4>1, <1>9
      <4>3. w \o x = Remaining(parts2, Len(Cat(parts2, n)) + 0)
        BY <4>2, <3>4, <2>1, <1>5, Zenon
      <4>4. g = SubSeq(parts2, 1, n)
        BY <3>4, <2>1, <1>3
      <4>5. QED
        BY <4>3, <4>4, <3>4 DEF ReadingOf
    <3>5. CASE n < N /\ n <= Len(g) /\ \A i \in 1..n : g[i] = parts[i]
      <4>1. n < N + 1 /\ \A i \in 1..n : i \in 1..N
        BY <2>1, <1>1
      <4>2. n < Len(sent2) /\ \A i \in 1..n : g[i] = parts2[i]
        BY <4>1, <3>5, <1>3, <1>4
      <4>3. QED
        BY <4>2, <3>5 DEF ReadingOf
    <3>6. QED
      BY <3>2, <3>3, <3>4, <3>5 DEF ReadingOf, N
  <2>2. CASE n = N + 1
    <3>1. PlainUpto(sent, h, N)
      <4>1. \A i \in 1..N : i \in 1..N + 1
        BY <1>1
      <4>2. QED
        BY <4>1, <2>2, <1>4, <1>11 DEF PlainUpto
    <3>2. ReadingOf(sent, parts, g, w, t, N)
      <4>1. N \in 0..N
        BY <1>1
      <4>2. QED
        BY <4>1, <3>1 DEF HostOK, N
    <3>3. CASE \E k \in 0..N - 1 : \E p \in 0..Len(parts[k + 1]) - 1 :
                 /\ g = SubSeq(parts, 1, k)
                 /\ w = Remaining(parts, Len(Cat(parts, k)) + p)
                 /\ TapeIs(sent[k + 1], parts[k + 1], t, p)
      <4>1. \A k \in 0..N - 1 : k \in 0..n - 1
        BY <2>2, <1>1
      <4>2. QED
        BY <3>3, <4>1, <1>10
    <3>4. CASE /\ g = SubSeq(parts, 1, N)
               /\ w = Remaining(parts, Len(Cat(parts, N)) + 0)
               /\ t = Host!NewTape
      <4>1. N \in 0..Len(parts) /\ N \in 0..N /\ N \in 0..n - 1
        BY <2>2, <1>1
      <4>2. Len(Cat(parts, N)) + 0 \in Nat /\ Len(Cat(parts, N)) + 0 <= Len(FlattenSeq(parts))
        <5>1. Len(Cat(parts, N)) \in Nat /\ Len(Cat(parts, N)) + 0 <= Len(FlattenSeq(parts))
          BY <4>1, <1>1, CatWithin
        <5>2. QED
          BY <5>1
      <4>3. Remaining(parts2, Len(Cat(parts, N)) + 0) = Remaining(parts, Len(Cat(parts, N)) + 0) \o x
        BY <4>2, <1>9
      <4>4. w \o x = Remaining(parts2, Len(Cat(parts2, N)) + 0)
        BY <4>1, <4>3, <3>4, <1>5, Zenon
      <4>5. g = SubSeq(parts2, 1, N)
        BY <4>1, <3>4, <1>3
      <4>6. 0 \in 0..Len(parts2[N + 1]) - 1
        <5>1. Host!Plain(a)
          <6>1. N + 1 \in 1..n
            BY <2>2, <1>1
          <6>2. QED
            BY <6>1, <1>4, <1>11 DEF PlainUpto
        <5>2. Len(x) >= 1
          BY <5>1, RecordStep DEF x
        <5>3. Len(x) \in Nat
          BY <1>2
        <5>4. QED
          BY <5>2, <5>3, <1>3
      <4>7. TapeIs(sent2[N + 1], parts2[N + 1], t, 0)
        BY <3>4 DEF TapeIs
      <4>8. QED
        BY <4>1, <4>4, <4>5, <4>6, <4>7 DEF ReadingOf
    <3>5. CASE N < N /\ N <= Len(g) /\ \A i \in 1..N : g[i] = parts[i]
      BY <3>5, <1>1
    <3>6. QED
      BY <3>2, <3>3, <3>4, <3>5 DEF ReadingOf, N
  <2>3. QED
    BY <1>1, <2>1, <2>2
<1>12. \E S : g \in Seq(S)
  BY DEF HostOK
<1>13. HostOK(sent2, parts2, h, g, w \o x, t)
  BY <1>4, <1>8, <1>11, <1>12 DEF HostOK
<1>14. QED
  BY <1>13 DEF sent2, parts2, x

-----------------------------------------------------------------------------
(* The two readers of the port                                             *)

LEMMA SameFlatten ==
    /\ \A s : Host!FlattenSeq(s) = FlattenSeq(s)
    /\ \A s : Board!FlattenSeq(s) = FlattenSeq(s)
  BY DEF Host!FlattenSeq, Board!FlattenSeq, FlattenSeq

LEMMA SameRemove ==
    ASSUME NEW e \in Seq(Byte), NEW k \in DOMAIN e
    PROVE  Host!RemoveAt(e, k) \in Seq(Byte) /\ Board!RemoveAt(e, k) \in Seq(Byte)
<1> DEFINE a == SubSeq(e, 1, k - 1)
           b == SubSeq(e, k + 1, Len(e))
<1>1. a \in Seq(Byte) /\ b \in Seq(Byte)
  OBVIOUS
<1>2. Host!RemoveAt(e, k) = a \o b /\ Board!RemoveAt(e, k) = a \o b
  BY DEF Host!RemoveAt, Board!RemoveAt
<1> HIDE DEF a, b
<1>3. a \o b \in Seq(Byte)
  BY <1>1
<1>4. QED
  BY <1>2, <1>3

BoardTypes ==
    /\ downSent \in Seq(Message)
    /\ downWire \in Seq(Byte)
    /\ rxbuff \in [1..RxSize -> Byte]
    /\ count \in Nat
    /\ \E S : delivered \in Seq(S)

HostInv ==
    /\ upWire \in Seq(Byte)
    /\ \E parts : HostOK(upSent, parts, upHit.msg, got, upWire, tape)

LEMMA HostInit == ASSUME Host!Init PROVE HostInv
<1> DEFINE parts == [i \in 1..Len(upSent) |-> Host!Arriving(i)]
           N == Len(upSent)
<1>1. upSent \in UpStreams \cup UpLossy
  BY DEF Host!Init
<1>2. upSent \in Seq(Message)
  BY <1>1, SerialLinkAssumption
<1>3. N \in Nat /\ DOMAIN upSent = 1..N /\ \A i \in 1..N : upSent[i] \in Message
  BY <1>2
<1>4. \A i \in 1..N : UpMessage(upSent[i])
  BY <1>1, <1>3, SerialLinkAssumption DEF UpMessage
<1>5. upHit.msg \in 0..N
      /\ (upHit.msg # 0 => upHit.byte \in DOMAIN Host!Encode(upSent[upHit.msg]))
  BY <1>3 DEF Host!Init
<1>6. \A i \in 1..N : Host!Arriving(i) \in Seq(Byte)
  <2>1. ASSUME NEW i \in 1..N PROVE Host!Arriving(i) \in Seq(Byte)
    <3>1. Host!Encode(upSent[i]) \in Seq(Byte)
      BY <1>4, EncodeBytes
    <3>2. CASE i = upHit.msg
      <4>1. upHit.byte \in DOMAIN Host!Encode(upSent[i])
        BY <3>2, <1>3, <1>5
      <4>2. QED
        BY <3>1, <3>2, <4>1, SameRemove DEF Host!Arriving
    <3>3. CASE i # upHit.msg
      BY <3>1, <3>3 DEF Host!Arriving
    <3>4. QED
      BY <3>2, <3>3
  <2>2. QED
    BY <2>1
<1>7. parts \in Seq(Seq(Byte)) /\ Len(parts) = N /\ \A i \in 1..N : parts[i] = Host!Arriving(i)
  BY <1>3, <1>6
<1>8. \A i \in 1..N : i # upHit.msg => parts[i] = Host!Encode(upSent[i])
  BY <1>7 DEF Host!Arriving
<1>9. upWire = FlattenSeq(parts) /\ got = <<>> /\ tape = Host!NewTape
  BY <1>3, SameFlatten DEF Host!Init
<1> HIDE DEF parts, N
<1>10. Arrive(upSent, parts, upHit.msg)
  BY <1>2, <1>3, <1>4, <1>5, <1>7, <1>8 DEF Arrive, N
<1>11. HostOK(upSent, parts, upHit.msg, got, upWire, tape)
  BY <1>9, <1>10, HostStarts
<1>12. upWire \in Seq(Byte)
  <2>1. 0 \in 0..Len(parts)
    BY <1>3, <1>7
  <2>2. QED
    BY <2>1, <1>7, <1>9, CatWithin
<1>13. QED
  BY <1>11, <1>12 DEF HostInv

LEMMA HostReadsStep == ASSUME HostInv, Host!Next PROVE HostInv'
<1>1. PICK parts : HostOK(upSent, parts, upHit.msg, got, upWire, tape)
  BY DEF HostInv
<1>2. upWire # <<>> /\ upWire' = Tail(upWire) /\ UNCHANGED <<upSent, upHit>>
      /\ Took(got, upWire, tape, got', tape')
  BY DEF Host!Next, Host!AddChar, Took
<1>3. HostOK(upSent, parts, upHit.msg, got', Tail(upWire), tape')
  BY <1>1, <1>2, ReadStep
<1>4. upWire' \in Seq(Byte)
  BY <1>2 DEF HostInv
<1>5. HostOK(upSent', parts, upHit'.msg, got', upWire', tape')
  BY <1>2, <1>3
<1>6. QED
  BY <1>4, <1>5 DEF HostInv

LEMMA CatAssoc ==
    ASSUME NEW s \in Seq(Byte), NEW t \in Seq(Byte), NEW u \in Seq(Byte)
    PROVE  (s \o t) \o u = s \o (t \o u)
  OBVIOUS

LEMMA OneWritten ==
    ASSUME HostInv, NEW a, UpMessage(a), BoardWrites(<<a>>)
    PROVE  HostInv'
<1> DEFINE x == Host!Encode(a)
           ms == <<a>>
           f == [i \in DOMAIN ms |-> Host!Encode(ms[i])]
<1>1. PICK parts : HostOK(upSent, parts, upHit.msg, got, upWire, tape)
  BY DEF HostInv
<1>2. x \in Seq(Byte) /\ upWire \in Seq(Byte) /\ upSent \in Seq(Message) /\ a \in Message
  BY <1>1, EncodeBytes DEF HostInv, HostOK, Arrive, UpMessage
<1>3. f = <<x>>
  OBVIOUS
<1>4. upWire' = upWire \o FlattenSeq(f) /\ upSent' = upSent \o <<a>>
      /\ UNCHANGED <<upHit, tape, got>>
  BY DEF BoardWrites
<1> HIDE DEF x, f
<1>5. FlattenSeq(f) = x
  <2>1. f = Append(<<>>, x) /\ <<>> \in Seq(Seq(Byte))
    BY <1>3
  <2>2. FlattenSeq(Append(<<>>, x)) = FlattenSeq(<<>>) \o x
    BY <2>1, <1>2, FlattenAppend
  <2>3. QED
    BY <2>1, <2>2, <1>2, FlattenEmpty, EmptyCat
<1>6. upSent' = Append(upSent, a) /\ upWire' = upWire \o x /\ upWire' \in Seq(Byte)
  BY <1>2, <1>4, <1>5
<1>7. HostOK(Append(upSent, a), Append(parts, x), upHit.msg, got, upWire \o x, tape)
  BY <1>1, WriteStep DEF x
<1>8. HostOK(upSent', Append(parts, x), upHit'.msg, got', upWire', tape')
  BY <1>4, <1>6, <1>7
<1>9. QED
  BY <1>6, <1>8 DEF HostInv

LEMMA TwoWritten ==
    ASSUME HostInv, NEW a, UpMessage(a), NEW b, UpMessage(b), BoardWrites(<<a, b>>)
    PROVE  HostInv'
<1> DEFINE x == Host!Encode(a)
           y == Host!Encode(b)
           ms == <<a, b>>
           f == [i \in DOMAIN ms |-> Host!Encode(ms[i])]
<1>1. PICK parts : HostOK(upSent, parts, upHit.msg, got, upWire, tape)
  BY DEF HostInv
<1>2. /\ x \in Seq(Byte) /\ y \in Seq(Byte) /\ upWire \in Seq(Byte)
      /\ upSent \in Seq(Message) /\ a \in Message /\ b \in Message
  BY <1>1, EncodeBytes DEF HostInv, HostOK, Arrive, UpMessage
<1>3. f = <<x, y>>
  OBVIOUS
<1>4. upWire' = upWire \o FlattenSeq(f) /\ upSent' = upSent \o <<a, b>>
      /\ UNCHANGED <<upHit, tape, got>>
  BY DEF BoardWrites
<1> HIDE DEF x, y, f
<1>5. FlattenSeq(f) = x \o y
  <2>1. f = Append(Append(<<>>, x), y) /\ <<>> \in Seq(Seq(Byte))
        /\ Append(<<>>, x) \in Seq(Seq(Byte))
    BY <1>2, <1>3
  <2>2. FlattenSeq(Append(<<>>, x)) = FlattenSeq(<<>>) \o x
    BY <2>1, <1>2, FlattenAppend
  <2>3. FlattenSeq(Append(<<>>, x)) = x
    BY <2>2, <1>2, FlattenEmpty, EmptyCat
  <2>4. FlattenSeq(Append(Append(<<>>, x), y)) = FlattenSeq(Append(<<>>, x)) \o y
    BY <2>1, <1>2, FlattenAppend
  <2>5. QED
    BY <2>1, <2>3, <2>4
<1>6. upSent' = Append(Append(upSent, a), b)
  BY <1>2, <1>4
<1>7. upWire' = (upWire \o x) \o y
  <2>1. (upWire \o x) \o y = upWire \o (x \o y)
    BY <1>2, CatAssoc
  <2>2. QED
    BY <2>1, <1>4, <1>5, Zenon
<1>8. upWire' \in Seq(Byte)
  <2>1. upWire \o x \in Seq(Byte)
    BY <1>2
  <2>2. (upWire \o x) \o y \in Seq(Byte)
    BY <1>2, <2>1
  <2>3. QED
    BY <1>7, <2>2
<1>9. HostOK(Append(upSent, a), Append(parts, x), upHit.msg, got, upWire \o x, tape)
  BY <1>1, WriteStep DEF x
<1>10. HostOK(Append(Append(upSent, a), b), Append(Append(parts, x), y), upHit.msg, got,
              (upWire \o x) \o y, tape)
  BY <1>9, WriteStep DEF y
<1>11. HostOK(upSent', Append(Append(parts, x), y), upHit'.msg, got', upWire', tape')
  BY <1>4, <1>6, <1>7, <1>10
<1>12. QED
  BY <1>8, <1>11 DEF HostInv

LEMMA BoardFrame ==
    /\ \A m : Board!Marshall(m) = Marshall(m)
    /\ \A s : Board!LengthSize(s) = LengthSize(s)
    /\ \A s : Board!LengthOf(s) = LengthOf(s)
<1>1. Board!CLength = CLength
  BY DEF Board!CLength, CLength
<1>2. ASSUME NEW m PROVE Board!Marshall(m) = Marshall(m)
  BY <1>1 DEF Board!Marshall, Marshall, Board!PyLength, PyLength
<1>3. \A s : Board!LengthSize(s) = LengthSize(s)
  BY DEF Board!LengthSize, LengthSize, Board!Continues, Continues
<1>4. \A s : Board!LengthOf(s) = LengthOf(s)
  BY <1>3 DEF Board!LengthOf, LengthOf
<1>5. QED
  BY <1>2, <1>3, <1>4

LEMMA DownBytes == ASSUME NEW m \in Message PROVE Board!Encode(m) \in Seq(Byte)
<1>1. m.payload \in Seq(Byte) /\ m.sline \in Byte
  BY MessageFields
<1>2. CASE m.kind = "text"
  BY <1>1, <1>2 DEF Board!Encode
<1>3. CASE m.kind # "text"
  <2> DEFINE e == Marshall(m)
             n == Len(e)
  <2>1. Board!Encode(m) = [e EXCEPT ![3] = m.sline]
    BY <1>3, BoardFrame DEF Board!Encode
  <2>2. e \in Seq(Byte)
    BY MarshallBytes
  <2>3. n \in Nat /\ e \in [1..n -> Byte]
    <3> HIDE DEF e
    <3>1. QED
      BY <2>2
  <2> HIDE DEF e, n
  <2>4. [e EXCEPT ![3] = m.sline] \in [1..n -> Byte]
    BY <2>3, <1>1
  <2>5. QED
    BY <2>1, <2>3, <2>4
<1>4. QED
  BY <1>2, <1>3

\* The byte that the board reads.
LEMMA BoardByte ==
    ASSUME BoardTypes, Board!Next
    PROVE  /\ downWire # <<>> /\ downWire' = Tail(downWire) /\ UNCHANGED <<downSent, downHit>>
           /\ Head(downWire) \in Byte /\ downWire' \in Seq(Byte)
<1>1. Board!Getchar
  BY DEF Board!Next, Board!WaitStart, Board!HeaderByte, Board!LengthByte, Board!BinBlock,
         Board!ExpectEnd
<1>2. downWire # <<>> /\ downWire' = Tail(downWire) /\ UNCHANGED <<downSent, downHit>>
  BY <1>1 DEF Board!Getchar
<1>3. downWire \in Seq(Byte)
  BY DEF BoardTypes
<1>4. Head(downWire) \in Byte /\ Tail(downWire) \in Seq(Byte)
  BY <1>2, <1>3
<1>5. QED
  BY <1>2, <1>4

LEMMA BoardDelivers ==
    ASSUME BoardTypes, Board!Next, delivered' # delivered
    PROVE  /\ delivered' = Append(delivered, Board!NaisUnmarshall(rxbuff))
           /\ Last(delivered') = Board!NaisUnmarshall(rxbuff)
           /\ Last(delivered').type \in Byte /\ Last(delivered').sline \in Byte
<1>1. delivered' = Append(delivered, Board!NaisUnmarshall(rxbuff))
  BY DEF Board!Next, Board!WaitStart, Board!HeaderByte, Board!LengthByte, Board!BinBlock,
         Board!ExpectEnd
<1> DEFINE d == Board!NaisUnmarshall(rxbuff)
<1>2. d.type = rxbuff[1] /\ d.sline = rxbuff[2]
  BY DEF Board!NaisUnmarshall
<1>3. rxbuff \in [1..RxSize -> Byte] /\ 1 \in 1..RxSize /\ 2 \in 1..RxSize
  BY SerialLinkAssumption DEF BoardTypes
<1>4. d.type \in Byte /\ d.sline \in Byte
  BY <1>2, <1>3
<1> HIDE DEF d
<1>5. PICK S : delivered \in Seq(S)
  BY DEF BoardTypes
<1>6. Last(Append(delivered, d)) = d
  <2>1. delivered \in Seq(S \cup {d})
    BY <1>5
  <2>2. QED
    BY <2>1 DEF Last
<1>7. delivered' = Append(delivered, d)
  BY <1>1 DEF d
<1>8. QED
  BY <1>4, <1>6, <1>7 DEF d

LEMMA BoardInit == ASSUME Board!Init PROVE BoardTypes
<1> DEFINE parts == [i \in 1..Len(downSent) |-> Board!Arriving(i)]
           N == Len(downSent)
<1>1. downSent \in DownStreams \cup DownLossy
  BY DEF Board!Init
<1>2. downSent \in Seq(Message)
  BY <1>1, SerialLinkAssumption
<1>3. N \in Nat /\ DOMAIN downSent = 1..N /\ \A i \in 1..N : downSent[i] \in Message
  BY <1>2
<1>4. downHit.msg # 0 => downHit.byte \in DOMAIN Board!Encode(downSent[downHit.msg])
  BY <1>3 DEF Board!Init
<1>5. \A i \in 1..N : Board!Arriving(i) \in Seq(Byte)
  <2>1. ASSUME NEW i \in 1..N PROVE Board!Arriving(i) \in Seq(Byte)
    <3>1. Board!Encode(downSent[i]) \in Seq(Byte)
      BY <1>3, DownBytes
    <3>2. CASE i = downHit.msg
      <4>1. downHit.byte \in DOMAIN Board!Encode(downSent[i])
        BY <3>2, <1>3, <1>4
      <4>2. QED
        BY <3>1, <3>2, <4>1, SameRemove DEF Board!Arriving
    <3>3. CASE i # downHit.msg
      BY <3>1, <3>3 DEF Board!Arriving
    <3>4. QED
      BY <3>2, <3>3
  <2>2. QED
    BY <2>1
<1>6. parts \in Seq(Seq(Byte)) /\ Len(parts) = N
  BY <1>3, <1>5
<1>7. downWire = FlattenSeq(parts)
  BY <1>3, SameFlatten DEF Board!Init
<1> HIDE DEF parts, N
<1>8. downWire \in Seq(Byte)
  <2>1. 0 \in 0..Len(parts)
    BY <1>3, <1>6
  <2>2. QED
    BY <2>1, <1>6, <1>7, CatWithin
<1>9. rxbuff \in [1..RxSize -> Byte] /\ count \in Nat
  BY Constants DEF Board!Init
<1>10. delivered \in Seq({})
  BY DEF Board!Init
<1>11. QED
  BY <1>2, <1>8, <1>9, <1>10 DEF BoardTypes

LEMMA BoardReadsTypes == ASSUME BoardTypes, Board!Next PROVE BoardTypes'
<1>1. /\ downWire' \in Seq(Byte) /\ downSent' = downSent
      /\ Head(downWire) \in Byte
  BY BoardByte
<1>2. rxbuff' \in [1..RxSize -> Byte] /\ count' \in Nat
  <2>1. CASE UNCHANGED <<rxbuff, count>>
    BY <2>1 DEF BoardTypes
  <2>2. CASE Board!Store
    <3>1. /\ rxbuff' = [rxbuff EXCEPT ![count + 1] = Head(downWire)] /\ count' = count + 1
          /\ count < RxSize
      BY <2>2 DEF Board!Store, Board!c
    <3>2. rxbuff \in [1..RxSize -> Byte] /\ count \in Nat
      BY DEF BoardTypes
    <3>3. rxbuff' \in [1..RxSize -> Byte]
      BY <3>1, <3>2, <1>1
    <3>4. QED
      BY <3>1, <3>2, <3>3
  <2>3. CASE rxbuff' = rxbuff /\ count' = 0
    BY <2>3 DEF BoardTypes
  <2>4. QED
    BY <2>1, <2>2, <2>3 DEF Board!Next, Board!WaitStart, Board!HeaderByte, Board!LengthByte,
                            Board!BinBlock, Board!ExpectEnd
<1>3. \E S : delivered' \in Seq(S)
  <2>1. PICK S : delivered \in Seq(S)
    BY DEF BoardTypes
  <2>2. CASE delivered' = delivered
    BY <2>1, <2>2
  <2>3. CASE delivered' # delivered
    <3> DEFINE d == Board!NaisUnmarshall(rxbuff)
    <3>1. delivered' = Append(delivered, d)
      BY <2>3, BoardDelivers
    <3> HIDE DEF d
    <3>2. Append(delivered, d) \in Seq(S \cup {d})
      BY <2>1, AppendSeq
    <3>3. QED
      BY <3>1, <3>2
  <2>4. QED
    BY <2>2, <2>3
<1>4. QED
  BY <1>1, <1>2, <1>3 DEF BoardTypes

LEMMA Prints ==
    ASSUME NEW s \in Seq(Byte)
    PROVE  UpMessage(Text(s))
<1>1. Text(s) \in Message /\ Text(s).kind = "text"
  BY Constants DEF Text, Message
<1>2. QED
  BY <1>1 DEF UpMessage

LEMMA Answers ==
    ASSUME NEW d, d.type \in Byte, d.sline \in Byte
    PROVE  UpMessage(Ack(d))
<1>1. Ack(d) \in Message
  BY Constants, SerialLinkAssumption DEF Ack, Message
<1>2. Ack(d).payload = <<d.type>> /\ Len(Ack(d).payload) = 1
  BY DEF Ack
<1>3. Len(CLength[1]) = 1
  <2>1. 1 \in Nat /\ 1 < Radix
    BY Constants
  <2>2. CLength[1] = <<1>>
    BY <2>1, OneByteField
  <2>3. QED
    BY <2>2
<1>4. HeaderSize(Ack(d)) = 6
  <2>1. Len(CLength[Len(Ack(d).payload)]) = 1
    BY <1>2, <1>3
  <2>2. QED
    BY <2>1 DEF HeaderSize
<1>5. HeaderSize(Ack(d)) + Len(Ack(d).payload) < TxSize
  BY <1>2, <1>4, SerialLinkAssumption
<1>6. QED
  BY <1>1, <1>5 DEF UpMessage

LEMMA BoardReadsStep == ASSUME BoardTypes, HostInv, BoardReads PROVE HostInv'
<1>1. Board!Next
  BY DEF BoardReads
<1>2. CASE delivered' # delivered
  <2>0. sts # "WAIT_START"
    BY <1>1, <1>2 DEF Board!Next, Board!WaitStart, Board!HeaderByte, Board!LengthByte,
                      Board!BinBlock, Board!ExpectEnd
  <2>1. BoardWrites(Handled(Last(delivered')))
    BY <1>2, <2>0 DEF BoardReads
  <2> DEFINE d == Last(delivered')
  <2>2. d.type \in Byte /\ d.sline \in Byte
    BY <1>1, <1>2, BoardDelivers
  <2>3. UpMessage(Ack(d))
    BY <2>2, Answers
  <2>4. UpMessage(Log)
    <3>1. <<0, NL>> \in Seq(Byte)
      BY Constants
    <3>2. QED
      BY <3>1, Prints DEF Log
  <2>5. BoardWrites(<<Log>>) \/ BoardWrites(<<Log, Ack(d)>>)
    BY <2>1 DEF Handled
  <2>6. QED
    BY <2>3, <2>4, <2>5, OneWritten, TwoWritten
<1>3. CASE delivered' = delivered /\ sts = "WAIT_START" /\ sts' = "WAIT_START"
  <2>1. BoardWrites(<<Text(<<Board!c>>)>>)
    BY <1>3 DEF BoardReads
  <2>2. Board!c \in Byte
    BY <1>1, BoardByte DEF Board!c
  <2>3. UpMessage(Text(<<Board!c>>))
    <3> HIDE DEF Board!c
    <3>1. <<Board!c>> \in Seq(Byte)
      BY <2>2
    <3>2. QED
      BY <3>1, Prints
  <2>4. QED
    BY <2>1, <2>3, OneWritten
<1>4. CASE delivered' = delivered /\ ~ (sts = "WAIT_START" /\ sts' = "WAIT_START")
  <2>1. UNCHANGED upVars
    BY <1>4 DEF BoardReads
  <2>2. QED
    BY <2>1 DEF upVars, HostInv
<1>5. QED
  BY <1>2, <1>3, <1>4

\* What the host has read, whatever the board does meanwhile.
LEMMA PortInvariant == Spec => [](BoardTypes /\ HostInv)
<1>1. Init => BoardTypes /\ HostInv
  BY HostInit, BoardInit DEF Init
<1>2. BoardTypes /\ HostInv /\ [Next]_vars => (BoardTypes /\ HostInv)'
  <2>1. ASSUME BoardTypes, HostInv, BoardReads PROVE (BoardTypes /\ HostInv)'
    <3>1. Board!Next
      BY <2>1 DEF BoardReads
    <3>2. BoardTypes'
      BY <2>1, <3>1, BoardReadsTypes
    <3>3. HostInv'
      BY <2>1, BoardReadsStep
    <3>4. QED
      BY <3>2, <3>3
  <2>2. ASSUME BoardTypes, HostInv, HostReads PROVE (BoardTypes /\ HostInv)'
    <3>1. Host!Next /\ UNCHANGED downVars
      BY <2>2 DEF HostReads
    <3>2. BoardTypes'
      BY <2>2, <3>1 DEF downVars, BoardTypes
    <3>3. HostInv'
      BY <2>2, <3>1, HostReadsStep
    <3>4. QED
      BY <3>2, <3>3
  <2>3. ASSUME BoardTypes, HostInv, UNCHANGED vars PROVE (BoardTypes /\ HostInv)'
    BY <2>3 DEF vars, downVars, upVars, BoardTypes, HostInv
  <2>4. QED
    BY <2>1, <2>2, <2>3 DEF Next
<1>3. QED
  BY <1>1, <1>2, PTL DEF Spec

\* The first message that breaks the contract ends the run, if there is one.
LEMMA PlainRunIs ==
    ASSUME HostInv
    PROVE  /\ upSent \in Seq(Message) /\ Len(upSent) \in Nat
           /\ Host!PlainRun \in 0..Len(upSent)
           /\ PlainUpto(upSent, upHit.msg, Host!PlainRun)
<1> DEFINE N == Len(upSent)
           Good(i) == Host!Plain(upSent[i]) /\ i # upHit.msg
           Run(n) == /\ \A i \in 1..n : Good(i)
                     /\ n < N => ~Host!Plain(upSent[n + 1]) \/ n + 1 = upHit.msg
           Bad == {i \in 1..N : ~Good(i)}
<1>1. upSent \in Seq(Message) /\ N \in Nat
  BY DEF HostInv, HostOK, Arrive
<1>2. \E n \in 0..N : Run(n)
  <2>1. CASE Bad = {}
    <3>1. N \in 0..N /\ ~ (N < N)
      BY <1>1
    <3>2. \A i \in 1..N : Good(i)
      BY <2>1
    <3> HIDE DEF N, Good
    <3>3. Run(N)
      BY <3>1, <3>2
    <3>4. QED
      BY <3>1, <3>3
  <2>2. CASE Bad # {}
    <3>1. Bad \subseteq Nat
      BY <1>1
    <3>2. PICK b \in Bad : \A i \in Bad : b <= i
      BY <2>2, <3>1, Least
    <3>3. b \in 1..N /\ ~Good(b)
      OBVIOUS
    <3> HIDE DEF N
    <3>4. b - 1 \in 0..N /\ (b - 1) + 1 = b /\ \A i \in 1..b - 1 : i \in 1..N /\ ~ (b <= i)
      BY <3>3, <1>1
    <3>5. \A i \in 1..b - 1 : Good(i)
      BY <3>2, <3>4
    <3>6. Run(b - 1)
      BY <3>3, <3>4, <3>5
    <3>7. QED
      BY <3>4, <3>6
  <2>3. QED
    BY <2>1, <2>2
<1>3. Host!PlainRun = CHOOSE n \in 0..N : Run(n)
  BY DEF Host!PlainRun
<1> HIDE DEF N, Run
<1>4. Host!PlainRun \in 0..N /\ Run(Host!PlainRun)
  BY <1>2, <1>3
<1>5. PlainUpto(upSent, upHit.msg, Host!PlainRun)
  BY <1>4 DEF Run, PlainUpto
<1>6. QED
  BY <1>1, <1>4, <1>5 DEF N

\* How far the host is in the run.
LEMMA RunRead ==
    ASSUME HostInv
    PROVE  \E parts :
              /\ Arrive(upSent, parts, upHit.msg)
              /\ ReadingOf(upSent, parts, got, upWire, tape, Host!PlainRun)
              /\ \A i \in 1..Host!PlainRun : /\ i \in 1..Len(upSent)
                                             /\ parts[i] = Host!Encode(upSent[i])
                                             /\ UpMessage(upSent[i]) /\ Host!Plain(upSent[i])
<1> DEFINE n == Host!PlainRun
<1>1. PICK parts : HostOK(upSent, parts, upHit.msg, got, upWire, tape)
  BY DEF HostInv
<1>2. n \in 0..Len(upSent) /\ PlainUpto(upSent, upHit.msg, n)
  BY PlainRunIs
<1> HIDE DEF n
<1>3. Arrive(upSent, parts, upHit.msg) /\ ReadingOf(upSent, parts, got, upWire, tape, n)
  BY <1>1, <1>2 DEF HostOK
<1>4. \A i \in 1..n : /\ i \in 1..Len(upSent)
                      /\ parts[i] = Host!Encode(upSent[i])
                      /\ UpMessage(upSent[i]) /\ Host!Plain(upSent[i])
  BY <1>2, <1>3, PlainPart
<1>5. QED
  BY <1>3, <1>4 DEF n

(* Strings and packets that share a stream come out one by one, unchanged  *)
(* and in order, up to the first message that breaks the contract: for any *)
(* streams, any payloads and any three distinct bytes START, END and       *)
(* newline (add_char, msg_receive).                                        *)
THEOREM InOrderUnchanged == Spec => []StreamIsDemultiplexed
<1>1. HostInv => StreamIsDemultiplexed
  <2>1. ASSUME HostInv, NEW i \in 1..Host!PlainRun, i <= Len(got)
        PROVE  got[i] = Host!Encode(upSent[i])
    <3> DEFINE n == Host!PlainRun
    <3>1. PICK parts :
              /\ Arrive(upSent, parts, upHit.msg)
              /\ ReadingOf(upSent, parts, got, upWire, tape, n)
              /\ \A j \in 1..n : /\ j \in 1..Len(upSent)
                                 /\ parts[j] = Host!Encode(upSent[j])
                                 /\ UpMessage(upSent[j]) /\ Host!Plain(upSent[j])
      BY <2>1, RunRead
    <3>2. n \in 0..Len(upSent) /\ Len(upSent) \in Nat
      BY <2>1, PlainRunIs
    <3>3. i \in 1..n
      BY <2>1
    <3> HIDE DEF n
    <3>4. parts \in Seq(Seq(Byte)) /\ Len(parts) = Len(upSent)
      BY <3>1 DEF Arrive
    <3>5. ASSUME NEW k \in 0..n, got = SubSeq(parts, 1, k) PROVE got[i] = parts[i]
      <4>1. k \in 0..Len(parts)
        BY <3>2, <3>4
      <4>2. Len(SubSeq(parts, 1, k)) = k /\ \A j \in 1..k : SubSeq(parts, 1, k)[j] = parts[j]
        BY <4>1, <3>4
      <4>3. i <= k
        BY <4>2, <3>5, <2>1
      <4>4. i \in 1..k
        BY <4>3, <3>2, <3>3
      <4>5. QED
        BY <4>2, <4>4, <3>5
    <3>6. got[i] = parts[i]
      <4>1. CASE \E k \in 0..n - 1 : got = SubSeq(parts, 1, k)
        <5>1. \A k \in 0..n - 1 : k \in 0..n
          BY <3>2
        <5>2. QED
          BY <4>1, <5>1, <3>5
      <4>2. CASE got = SubSeq(parts, 1, n)
        <5>1. n \in 0..n
          BY <3>2
        <5>2. QED
          BY <4>2, <5>1, <3>5
      <4>3. CASE \A j \in 1..n : got[j] = parts[j]
        BY <4>3, <3>3
      <4>4. QED
        BY <3>1, <4>1, <4>2, <4>3 DEF ReadingOf
    <3>7. QED
      BY <3>1, <3>3, <3>6
  <2>2. QED
    BY <2>1 DEF StreamIsDemultiplexed, Host!StreamIsDemultiplexed
<1>2. QED
  BY <1>1, PortInvariant, PTL

(* When all bytes are read, every message of a stream that keeps the       *)
(* contract has been returned, and the reader is as new (msg_receive).     *)
THEOREM AllReturned == Spec => []NothingHeldBack
<1>1. HostInv => NothingHeldBack
  <2>1. SUFFICES ASSUME HostInv, upWire = <<>>, Host!PlainRun = Len(upSent)
                 PROVE  Len(got) = Len(upSent) /\ tape = Host!NewTape
    BY DEF NothingHeldBack, Host!NothingHeldBack
  <2> DEFINE n == Len(upSent)
  <2>2. PICK parts : /\ Arrive(upSent, parts, upHit.msg)
                     /\ ReadingOf(upSent, parts, got, upWire, tape, n)
    BY <2>1, RunRead
  <2>3. parts \in Seq(Seq(Byte)) /\ Len(parts) = n /\ n \in Nat
    BY <2>2 DEF Arrive
  <2>4. CASE \E k \in 0..n - 1 : \E p \in 0..Len(parts[k + 1]) - 1 :
               upWire = Remaining(parts, Len(Cat(parts, k)) + p)
    <3>1. PICK k \in 0..n - 1 : \E p \in 0..Len(parts[k + 1]) - 1 :
               upWire = Remaining(parts, Len(Cat(parts, k)) + p)
      BY <2>4
    <3>2. k \in 0..Len(parts) - 1
      BY <2>3
    <3>3. \A p \in 0..Len(parts[k + 1]) - 1 : Remaining(parts, Len(Cat(parts, k)) + p) # <<>>
      BY <2>3, <3>2, RemainingStep
    <3>4. QED
      BY <2>1, <3>1, <3>3
  <2>5. CASE got = SubSeq(parts, 1, n) /\ tape = Host!NewTape
    BY <2>3, <2>5
  <2>6. CASE n < n
    BY <2>3, <2>6
  <2>7. QED
    BY <2>2, <2>4, <2>5, <2>6 DEF ReadingOf
<1>2. QED
  BY <1>1, PortInvariant, PTL

(* A packet that comes out decodes to the message it was made of, at every *)
(* length of payload that the contract allows (marshall, protobuf_to_uart  *)
(* and unmarshall).                                                        *)
THEOREM DecodedAsEncoded == Spec => []PacketsDecode
<1>1. HostInv /\ StreamIsDemultiplexed => PacketsDecode
  <2>1. ASSUME HostInv, StreamIsDemultiplexed, NEW i \in 1..Host!PlainRun, i <= Len(got),
               upSent[i].kind # "text"
        PROVE  Host!Unmarshall(got[i]) = [type |-> upSent[i].type, dline |-> upSent[i].dline,
                                          payload |-> upSent[i].payload]
    <3> DEFINE m == upSent[i]
    <3>1. UpMessage(m) /\ Host!Plain(m)
      BY <2>1, RunRead
    <3>2. got[i] = Host!Encode(m)
      BY <2>1 DEF StreamIsDemultiplexed, Host!StreamIsDemultiplexed
    <3>3. Packs(Host!Encode(m), m, 0) /\ m \in Message
      BY <2>1, <3>1, PlainPacket DEF UpMessage
    <3>4. Unmarshall(Host!Encode(m)) = [type |-> m.type, dline |-> m.dline, payload |-> m.payload]
      BY <3>3, UnmarshallPacks
    <3>5. QED
      BY <3>2, <3>4, HostFrame
  <2>2. QED
    BY <2>1 DEF PacketsDecode, Host!PacketsDecode
<1>2. QED
  BY <1>1, PortInvariant, InOrderUnchanged, PTL

-----------------------------------------------------------------------------
(* The reader of the board within a packet                                 *)

\* e is the packet that the host writes for m, with one byte of length.
ShortPacks(e, m) ==
    LET n == Len(m.payload)
    IN  /\ n \in Nat /\ n >= 1 /\ n < Radix
        /\ e \in Seq(Byte) /\ Len(e) = 7 + n
        /\ e[1] = START /\ e[2] = m.type /\ e[3] = m.sline /\ e[6] = n
        /\ \A i \in 1..n : e[6 + i] = m.payload[i]
        /\ e[7 + n] = END

LEMMA ShortPacket ==
    ASSUME NEW m \in Message, m.kind # "text", Board!Short(m)
    PROVE  ShortPacks(Board!Encode(m), m)
<1> DEFINE e == Board!Encode(m)
           n == Len(m.payload)
<1>1. n \in Nat /\ n >= 1 /\ n < Radix
  <2>1. n \in 1..Radix - 1 /\ Radix \in Nat
    BY Constants DEF Board!Short, Board!IsPacket
  <2> HIDE DEF n
  <2>2. QED
    BY <2>1
<1>2. CLength[n] = <<n>>
  BY <1>1, OneByteField
<1>3. n # 0
  BY <1>1
<1>4. Packs(e, m, m.sline)
  <2>1. Packs(Marshall(m), m, 0)
    BY <1>3, MarshallPacks
  <2>2. e = [Marshall(m) EXCEPT ![3] = m.sline]
    BY BoardFrame DEF Board!Encode
  <2>3. QED
    BY <2>1, <2>2, StampPacks, ZenonT(60)
<1>5. Len(CLength[n]) = 1 /\ CLength[n][1] = n
  <2> HIDE DEF n
  <2>1. QED
    BY <1>2
<1>6. /\ e \in Seq(Byte) /\ Len(e) = 6 + 1 + n
      /\ e[1] = START /\ e[2] = m.type /\ e[3] = m.sline
      /\ (\A i \in 1..1 : e[5 + i] = CLength[n][i])
      /\ (\A i \in 1..n : e[5 + 1 + i] = m.payload[i])
      /\ e[6 + 1 + n] = END
  BY <1>4, <1>5, Zenon DEF Packs
<1> HIDE DEF e, n
<1>7. 6 + 1 + n = 7 + n /\ 1 \in 1..1 /\ 5 + 1 = 6
  BY <1>1
<1>8. e[6] = n
  BY <1>5, <1>6, <1>7
<1>9. QED
  BY <1>1, <1>6, <1>7, <1>8 DEF ShortPacks, e, n

\* n bytes of payload, of which the length is one byte, in the buffer.
LEMMA Decodes ==
    ASSUME NEW m \in Message, NEW rx \in [1..RxSize -> Byte],
           NEW n, n = Len(m.payload), n \in Nat, n < Radix, 5 + n <= RxSize,
           rx[1] = m.type, rx[2] = m.sline, rx[5] = n,
           \A i \in 1..n : rx[5 + i] = m.payload[i]
    PROVE  Board!NaisUnmarshall(rx) = Board!Decoded(m)
<1> DEFINE t == SubSeq(rx, 5, Len(rx))
           u == SubSeq(rx, 6, 5 + n)
<1>0. RxSize \in Nat /\ m.payload \in Seq(Byte)
  BY SerialLinkAssumption, MessageFields
<1>1. rx \in Seq(Byte) /\ Len(rx) = RxSize
  <2>1. rx \in Seq(Byte)
    BY <1>0
  <2>2. QED
    BY <1>0, <2>1
<1>2. 5 \in Nat /\ 5 >= 1 /\ RxSize <= Len(rx) /\ 5 <= RxSize + 1 /\ 5 + n \in Nat /\ 6 \in Nat
      /\ 6 >= 1 /\ 5 + n <= Len(rx) /\ 6 <= (5 + n) + 1
  BY <1>0, <1>1
<1>3. t \in Seq(Byte) /\ Len(t) = 1 + RxSize - 5 /\ \A p \in 1..1 + RxSize - 5 : t[p] = rx[5 + p - 1]
  BY <1>0, <1>1, <1>2, SubBytes
<1>4. u \in Seq(Byte) /\ Len(u) = 1 + (5 + n) - 6 /\ \A p \in 1..1 + (5 + n) - 6 : u[p] = rx[6 + p - 1]
  BY <1>1, <1>2, SubBytes
<1>50. t = SubSeq(rx, 5, Len(rx)) /\ u = SubSeq(rx, 6, 5 + n)
  OBVIOUS
<1> HIDE DEF t, u
<1>5. t[1] = n /\ Len(t) >= 1
  <2>1. 1 \in 1..1 + RxSize - 5 /\ 5 + 1 - 1 = 5 /\ 1 + RxSize - 5 >= 1
    BY <1>0
  <2>2. QED
    BY <2>1, <1>3
<1>6. LengthSize(t) = 1
  <2>1. IsField(CLength[n]) /\ CLength[n] = <<n>>
    BY OneByteField
  <2> DEFINE f == CLength[n]
  <2>2. IsField(f) /\ Len(f) = 1 /\ f[1] = n
    BY <2>1
  <2> HIDE DEF f
  <2>3. Len(f) <= Len(t) /\ \A i \in 1..Len(f) : t[i] = f[i]
    BY <2>2, <1>5
  <2>4. QED
    BY <2>2, <2>3, <1>3, SizeOfField
<1>7. LengthOf(t) = n
  <2> DEFINE size == LengthSize(t)
             P(f) == f = [k \in 1..size |-> IF k = size THEN t[k]
                                            ELSE t[k] - Radix + Radix * f[k + 1]]
             r == CHOOSE f : P(f)
  <2>1. P([k \in 1..1 |-> t[k]])
    BY <1>6
  <2>2. P(r)
    BY <2>1, Zenon
  <2>4. LengthOf(t) = r[1]
    BY Zenon DEF LengthOf, r, P, size
  <2> HIDE DEF r
  <2>3. r[1] = t[1]
    <3>1. r = [k \in 1..size |-> IF k = size THEN t[k] ELSE t[k] - Radix + Radix * r[k + 1]]
      BY <2>2, Zenon
    <3>2. 1 \in 1..size /\ size = 1
      BY <1>6
    <3> HIDE DEF size
    <3>3. r[1] = IF 1 = size THEN t[1] ELSE t[1] - Radix + Radix * r[1 + 1]
      BY <3>1, <3>2, Zenon
    <3>4. QED
      BY <3>2, <3>3
  <2>5. QED
    BY <2>3, <2>4, <1>5
<1>8. u = m.payload
  <2>1. 1 + (5 + n) - 6 = n /\ \A p \in 1..n : 6 + p - 1 = 5 + p
    OBVIOUS
  <2>2. Len(u) = n /\ \A p \in 1..n : u[p] = m.payload[p]
    BY <2>1, <1>4
  <2>3. QED
    BY <2>2, <1>0, <1>4, SameBytes
<1>9. 5 + 1 = 6 /\ 4 + 1 + n = 5 + n
  OBVIOUS
<1>10. Board!NaisUnmarshall(rx) = [type |-> rx[1], sline |-> rx[2], payload |-> u]
  BY <1>6, <1>7, <1>9, <1>50, BoardFrame DEF Board!NaisUnmarshall
<1>11. QED
  BY <1>8, <1>10 DEF Board!Decoded

-----------------------------------------------------------------------------
(* The stream to the board                                                 *)

DownParts(s) == [i \in 1..Len(s) |-> Board!Encode(s[i])]
Singles(s)   == [i \in 1..Len(s) |-> IF Board!IsPacket(s[i]) THEN <<s[i]>> ELSE <<>>]

LEMMA DownPartsAre ==
    ASSUME NEW s \in Seq(Message)
    PROVE  /\ Len(s) \in Nat /\ DOMAIN s = 1..Len(s) /\ \A i \in 1..Len(s) : s[i] \in Message
           /\ DownParts(s) \in Seq(Seq(Byte)) /\ Len(DownParts(s)) = Len(s)
           /\ \A i \in 1..Len(s) : DownParts(s)[i] = Board!Encode(s[i])
           /\ Singles(s) \in Seq(Seq(Message)) /\ Len(Singles(s)) = Len(s)
           /\ \A i \in 1..Len(s) :
                 Singles(s)[i] = IF Board!IsPacket(s[i]) THEN <<s[i]>> ELSE <<>>
<1> DEFINE n == Len(s)
<1>1. n \in Nat /\ DOMAIN s = 1..n /\ \A i \in 1..n : s[i] \in Message
  OBVIOUS
<1> HIDE DEF n
<1>2. \A i \in 1..n : Board!Encode(s[i]) \in Seq(Byte)
  BY <1>1, DownBytes
<1>3. [i \in 1..n |-> Board!Encode(s[i])] \in [1..n -> Seq(Byte)]
  BY <1>2
<1>4. \A i \in 1..n : (IF Board!IsPacket(s[i]) THEN <<s[i]>> ELSE <<>>) \in Seq(Message)
  <2>1. ASSUME NEW i \in 1..n
        PROVE  (IF Board!IsPacket(s[i]) THEN <<s[i]>> ELSE <<>>) \in Seq(Message)
    <3>1. s[i] \in Message
      BY <1>1
    <3>2. <<s[i]>> \in Seq(Message) /\ <<>> \in Seq(Message)
      BY <3>1
    <3>3. QED
      BY <3>2
  <2>2. QED
    BY <2>1
<1>5. [i \in 1..n |-> IF Board!IsPacket(s[i]) THEN <<s[i]>> ELSE <<>>] \in [1..n -> Seq(Message)]
  BY <1>4
<1>6. \A S, f : f \in [1..n -> S] => f \in Seq(S) /\ Len(f) = n
  BY <1>1
<1>7. DownParts(s) \in Seq(Seq(Byte)) /\ Len(DownParts(s)) = n
  BY <1>3, <1>6 DEF DownParts, n
<1>8. Singles(s) \in Seq(Seq(Message)) /\ Len(Singles(s)) = n
  BY <1>5, <1>6 DEF Singles, n
<1>9. \A i \in 1..n : DownParts(s)[i] = Board!Encode(s[i])
  BY DEF DownParts, n
<1>10. \A i \in 1..n : Singles(s)[i] = IF Board!IsPacket(s[i]) THEN <<s[i]>> ELSE <<>>
  BY DEF Singles, n
<1>11. QED
  BY <1>1, <1>7, <1>8, <1>9, <1>10 DEF n

\* Of the packets sent, the first ones are handled: those of the first k messages.
Handles(ps) == Len(delivered) = Len(ps) /\ \A i \in 1..Len(ps) : delivered[i] = Board!Decoded(ps[i])
Done(s, k)  == Handles(Cat(Singles(s), k))

Idle == sts = "WAIT_START" /\ count = 0 /\ binlen = 0

\* After p bytes of the packet e: what is in the buffer, and what comes next.
Stored(e, p) == /\ count = p - 1 /\ count <= RxSize
                /\ \A i \in 1..p - 1 : rxbuff[i] = e[i + 1]

InHeader(p) ==
    /\ binlen = 0 /\ multiplier = 1
    /\ \/ p = 1 /\ sts = "MSG_TYPE"
       \/ p = 2 /\ sts = "SLINE"
       \/ p = 3 /\ sts = "DLINE"
       \/ p = 4 /\ sts = "FLAGS"
       \/ p = 5 /\ sts = "LEN"

InBlock(n, p) ==
    /\ binlen = n
    /\ \/ p \in 6..5 + n /\ sts = "BIN_BLOCK"
       \/ p = 6 + n /\ sts = "EXPECT_END"

InPacket(e, n, p) ==
    \/ p = 0 /\ Idle
    \/ p >= 1 /\ Stored(e, p) /\ (InHeader(p) \/ InBlock(n, p))

\* The reader is between the messages, or within one of them.
Between(s, k) ==
    Idle /\ Done(s, k) /\ downWire = Remaining(DownParts(s), Len(Cat(DownParts(s), k)) + 0)

Within(s, k, p) ==
    /\ Done(s, k)
    /\ downWire = Remaining(DownParts(s), Len(Cat(DownParts(s), k)) + p)
    /\ IF Board!IsPacket(s[k + 1])
         THEN InPacket(DownParts(s)[k + 1], Len(s[k + 1].payload), p)
         ELSE Idle

ReadsDown(s) ==
    \/ \E k \in 0..Len(s) : Between(s, k)
    \/ \E k \in 0..Len(s) - 1 : \E p \in 0..Len(DownParts(s)[k + 1]) - 1 : Within(s, k, p)

AllShort(s) == \A i \in 1..Len(s) : Board!Short(s[i])

BoardInv ==
    \E s \in Seq(Message) : s = downSent /\ (downHit.msg = 0 /\ AllShort(s) => ReadsDown(s))

\* A text that is empty takes no step of the reader.
LEMMA SkipEmpty ==
    ASSUME NEW s \in Seq(Message), AllShort(s), NEW k \in 0..Len(s), Between(s, k)
    PROVE  \E j \in 0..Len(s) : Between(s, j) /\ (j = Len(s) \/ Len(DownParts(s)[j + 1]) # 0)
<1> DEFINE N == Len(s)
           B == {i \in 0..N : Between(s, N - i)}
<1>1. N \in Nat
  BY DownPartsAre
<1>2. N - k \in B
  <2>1. k \in 0..N /\ Between(s, k)
    OBVIOUS
  <2> HIDE DEF N
  <2>2. N - k \in 0..N /\ N - (N - k) = k
    BY <1>1, <2>1
  <2>3. QED
    BY <2>1, <2>2
<1>3. B \subseteq Nat
  OBVIOUS
<1>4. B # {}
  BY <1>2
<1>5. PICK i \in B : \A x \in B : i <= x
  BY <1>3, <1>4, Least
<1> HIDE DEF N
<1>6. i \in 0..N /\ Between(s, N - i)
  OBVIOUS
<1> DEFINE j == N - i
<1>7. j \in 0..N /\ Between(s, j) /\ i \in Nat
  BY <1>1, <1>6
<1>8. ASSUME j # N, Len(DownParts(s)[j + 1]) = 0 PROVE FALSE
  <2>1. i # 0 /\ i - 1 \in 0..N /\ N - (i - 1) = j + 1 /\ j + 1 \in 1..N /\ (j + 1) - 1 = j
        /\ ~ (i <= i - 1)
    BY <1>1, <1>6, <1>8
  <2>2. DownParts(s)[j + 1] = Board!Encode(s[j + 1]) /\ s[j + 1] \in Message /\ Board!Short(s[j + 1])
    BY <2>1, DownPartsAre DEF AllShort, N
  <2>3. ~Board!IsPacket(s[j + 1])
    <3>1. SUFFICES ASSUME Board!IsPacket(s[j + 1]) PROVE FALSE
      OBVIOUS
    <3>2. ShortPacks(Board!Encode(s[j + 1]), s[j + 1])
      BY <2>2, <3>1, ShortPacket DEF Board!IsPacket
    <3> DEFINE n == Len(s[j + 1].payload)
               z == Len(Board!Encode(s[j + 1]))
    <3>3. n \in Nat /\ z = 7 + n /\ z = 0
      BY <2>2, <3>2, <1>8 DEF ShortPacks
    <3> HIDE DEF n, z
    <3>4. QED
      BY <3>3
  <2>4. Cat(Singles(s), j + 1) = Cat(Singles(s), j)
    <3>1. Singles(s) \in Seq(Seq(Message)) /\ Singles(s)[j + 1] = <<>> /\ j + 1 \in 1..Len(Singles(s))
          /\ j \in 0..Len(Singles(s))
      BY <2>1, <2>3, <1>7, DownPartsAre DEF N
    <3>2. Cat(Singles(s), j + 1) = Cat(Singles(s), j) \o <<>> /\ Cat(Singles(s), j) \in Seq(Message)
      BY <3>1, <2>1, CatFacts
    <3>3. QED
      BY <3>2, EmptyCat
  <2>5. Len(Cat(DownParts(s), j + 1)) + 0 = Len(Cat(DownParts(s), j)) + 0
    <3>1. DownParts(s) \in Seq(Seq(Byte)) /\ j + 1 \in 1..Len(DownParts(s))
      BY <2>1, DownPartsAre DEF N
    <3> DEFINE a == Len(Cat(DownParts(s), j))
               b == Len(Cat(DownParts(s), j + 1))
    <3>2. a \in Nat /\ b = a + Len(DownParts(s)[j + 1])
      BY <3>1, <2>1, CatByte
    <3> HIDE DEF a, b
    <3>3. b = a
      BY <3>2, <1>8
    <3>4. QED
      BY <3>3 DEF a, b
  <2> HIDE DEF j
  <2>6. Between(s, j + 1)
    BY <1>7, <2>4, <2>5 DEF Between, Done
  <2>7. i - 1 \in B
    BY <2>1, <2>6
  <2>8. QED
    BY <2>1, <2>7, <1>5
<1> HIDE DEF j
<1>9. QED
  BY <1>7, <1>8 DEF N

LEMMA StoreStep ==
    ASSUME BoardTypes, Board!Store, NEW e, NEW p \in Nat, p >= 1, Stored(e, p),
           Head(downWire) = e[p + 1], e[p + 1] \in Byte
    PROVE  Stored(e, p + 1)' /\ count' = p
<1>1. /\ rxbuff' = [rxbuff EXCEPT ![count + 1] = e[p + 1]] /\ count' = count + 1
      /\ count < RxSize
  BY DEF Board!Store, Board!c
<1>2. rxbuff \in [1..RxSize -> Byte] /\ RxSize \in Nat
  BY SerialLinkAssumption DEF BoardTypes
<1>3. count = p - 1 /\ \A i \in 1..p - 1 : rxbuff[i] = e[i + 1]
  BY DEF Stored
<1>4. count + 1 = p /\ count' = (p + 1) - 1 /\ count' <= RxSize /\ p \in 1..RxSize /\ count' = p
  BY <1>1, <1>2, <1>3
<1>5. rxbuff' = [rxbuff EXCEPT ![p] = e[p + 1]]
  BY <1>1, <1>4
<1>6. ASSUME NEW i \in 1..(p + 1) - 1 PROVE rxbuff'[i] = e[i + 1]
  <2>1. i \in 1..RxSize
    BY <1>2, <1>4
  <2>2. CASE i = p
    BY <2>2, <1>2, <1>4, <1>5
  <2>3. CASE i # p
    <3>1. i \in 1..p - 1
      BY <2>3
    <3>2. rxbuff'[i] = rxbuff[i]
      BY <2>1, <2>3, <1>2, <1>4, <1>5
    <3>3. QED
      BY <3>1, <3>2, <1>3
  <2>4. QED
    BY <2>2, <2>3
<1>7. QED
  BY <1>4, <1>6 DEF Stored

LEMMA OneDigitRest == ASSUME NEW n \in Nat, n < Radix PROVE n % Radix = n
<1> DEFINE q == n \div Radix
           r == n % Radix
<1>1. q \in Nat /\ r \in 0..Radix - 1 /\ n = Radix * q + r
  BY Division
<1> HIDE DEF q, r
<1>2. Radix \in Nat
  BY Constants
<1>3. q = 0
  <2>1. ASSUME q >= 1 PROVE FALSE
    <3>1. PICK d \in Nat : q = d + 1
      <4>1. q - 1 \in Nat /\ q = (q - 1) + 1
        BY <1>1, <2>1
      <4>2. QED
        BY <4>1
    <3>2. Radix * q = Radix * d + Radix /\ Radix * d >= 0 /\ Radix * d \in Nat
      BY <1>2, <3>1
    <3>3. QED
      BY <1>1, <1>2, <3>2
  <2>2. QED
    BY <1>1, <2>1
<1>4. r = n
  BY <1>1, <1>2, <1>3
<1>5. QED
  BY <1>4 DEF r

\* One byte of a packet: the next place of it, or the end of it.
LEMMA PacketByte ==
    ASSUME BoardTypes, Board!Next, NEW m \in Message, NEW e, ShortPacks(e, m),
           NEW n, n = Len(m.payload), NEW p \in 0..6 + n, InPacket(e, n, p),
           Head(downWire) = e[p + 1]
    PROVE  \/ p < 6 + n /\ delivered' = delivered /\ InPacket(e, n, p + 1)'
           \/ p = 6 + n /\ Idle' /\ delivered' = Append(delivered, Board!Decoded(m))
<1>1. /\ n \in Nat /\ n >= 1 /\ n < Radix /\ Len(e) = 7 + n /\ e \in Seq(Byte)
      /\ e[1] = START /\ e[2] = m.type /\ e[3] = m.sline /\ e[6] = n
      /\ (\A i \in 1..n : e[6 + i] = m.payload[i])
      /\ e[7 + n] = END
  BY DEF ShortPacks
<1>2. p \in Nat /\ p <= 6 + n /\ p + 1 \in 1..7 + n /\ e[p + 1] \in Byte
  <2>1. p \in Nat /\ p <= 6 + n /\ p + 1 \in 1..7 + n
    BY <1>1
  <2>2. QED
    BY <2>1, <1>1
<1>3. CASE p = 0
  <2>1. Idle /\ Head(downWire) = START
    BY <1>3, <1>1 DEF InPacket
  <2>2. Board!WaitStart
    BY <2>1 DEF Idle, Board!Next, Board!WaitStart, Board!HeaderByte, Board!LengthByte,
                Board!BinBlock, Board!ExpectEnd, Board!Following
  <2>3. /\ sts' = "MSG_TYPE" /\ multiplier' = 1
        /\ binlen' = 0 /\ count' = 0 /\ delivered' = delivered
    BY <2>1, <2>2 DEF Idle, Board!WaitStart, Board!c
  <2>4. InHeader(1)'
    BY <2>3 DEF InHeader
  <2>5. Stored(e, 1)'
    <3>1. 0 <= RxSize /\ count' = 1 - 1
      BY <2>3, SerialLinkAssumption
    <3>2. QED
      BY <2>3, <3>1 DEF Stored
  <2>6. 0 + 1 = 1 /\ 1 >= 1 /\ 0 < 6 + n
    BY <1>1
  <2>7. InPacket(e, n, 1)'
    BY <2>4, <2>5, <2>6 DEF InPacket
  <2>8. QED
    BY <2>3, <2>6, <2>7, <1>3
<1>4. CASE p >= 1 /\ Stored(e, p) /\ InHeader(p) /\ p # 5
  <2>1. Board!HeaderByte
    BY <1>4 DEF InHeader, Board!Next, Board!WaitStart, Board!HeaderByte, Board!LengthByte,
                Board!BinBlock, Board!ExpectEnd, Board!Following
  <2>2. Board!Store /\ sts' = Board!Following[sts] /\ UNCHANGED <<binlen, multiplier, delivered>>
    BY <2>1 DEF Board!HeaderByte
  <2>3. Stored(e, p + 1)'
    BY <2>2, <1>2, <1>4, StoreStep
  <2>4. p \in 1..4 /\ p < 6 + n /\ p + 1 >= 1
    BY <1>4, <1>1 DEF InHeader
  <2>5. InHeader(p + 1)'
    <3>1. binlen' = 0 /\ multiplier' = 1
      BY <2>2, <1>4 DEF InHeader
    <3>2. CASE p = 1
      BY <3>1, <3>2, <2>2, <1>4 DEF InHeader, Board!Following
    <3>3. CASE p = 2
      BY <3>1, <3>3, <2>2, <1>4 DEF InHeader, Board!Following
    <3>4. CASE p = 3
      BY <3>1, <3>4, <2>2, <1>4 DEF InHeader, Board!Following
    <3>5. CASE p = 4
      BY <3>1, <3>5, <2>2, <1>4 DEF InHeader, Board!Following
    <3>6. QED
      BY <3>2, <3>3, <3>4, <3>5, <2>4
  <2>6. QED
    BY <2>2, <2>3, <2>4, <2>5 DEF InPacket
<1>5. CASE p = 5 /\ Stored(e, p) /\ InHeader(p)
  <2>0. sts = "LEN" /\ binlen = 0 /\ multiplier = 1 /\ Head(downWire) = n
    BY <1>5, <1>1 DEF InHeader
  <2>1. Board!LengthByte
    BY <2>0 DEF Board!Next, Board!WaitStart, Board!HeaderByte, Board!LengthByte,
                Board!BinBlock, Board!ExpectEnd, Board!Following
  <2>2. /\ Board!Store /\ delivered' = delivered
        /\ binlen' = binlen + (n % Radix) * multiplier
        /\ sts' = IF Board!Continues(n) THEN "LEN" ELSE "BIN_BLOCK"
    BY <2>0, <2>1 DEF Board!LengthByte, Board!c
  <2>3. Stored(e, p + 1)'
    BY <2>2, <1>2, <1>5, StoreStep
  <2>4. n % Radix = n /\ ~ (n >= Radix)
    <3>1. n % Radix = n
      BY <1>1, OneDigitRest, Zenon
    <3>2. ~ (n >= Radix)
      BY <1>1, Constants
    <3>3. QED
      BY <3>1, <3>2
  <2>5. binlen' = n
    BY <2>0, <2>2, <2>4, <1>1
  <2>6. sts' = "BIN_BLOCK"
    BY <2>2, <2>4 DEF Board!Continues
  <2>7. p + 1 = 6 /\ p + 1 \in 6..5 + n /\ p < 6 + n /\ p + 1 >= 1
    BY <1>1, <1>5
  <2>8. InBlock(n, p + 1)'
    BY <2>5, <2>6, <2>7 DEF InBlock
  <2>9. QED
    BY <2>2, <2>3, <2>7, <2>8 DEF InPacket
<1>6. CASE p \in 6..5 + n /\ Stored(e, p) /\ binlen = n /\ sts = "BIN_BLOCK"
  <2>1. Board!BinBlock
    BY <1>6 DEF Board!Next, Board!WaitStart, Board!HeaderByte, Board!LengthByte,
                Board!BinBlock, Board!ExpectEnd, Board!Following
  <2>2. /\ Board!Store /\ delivered' = delivered /\ binlen' = binlen
        /\ sts' = IF count' = binlen + 5 THEN "EXPECT_END" ELSE "BIN_BLOCK"
    BY <2>1 DEF Board!BinBlock
  <2>3. p >= 1 /\ p < 6 + n /\ p + 1 >= 1 /\ p \in Nat
    BY <1>1, <1>6
  <2>4. Stored(e, p + 1)' /\ count' = p
    BY <2>2, <2>3, <1>2, <1>6, StoreStep
  <2>5. InBlock(n, p + 1)'
    <3>1. CASE p = n + 5
      <4>1. sts' = "EXPECT_END" /\ binlen' = n /\ p + 1 = 6 + n
        BY <3>1, <2>2, <2>4, <1>1, <1>6
      <4>2. QED
        BY <4>1 DEF InBlock
    <3>2. CASE p # n + 5
      <4>1. sts' = "BIN_BLOCK" /\ binlen' = n
        BY <3>2, <2>2, <2>4, <1>6
      <4>2. p + 1 \in 6..5 + n
        BY <3>2, <1>1, <1>6
      <4>3. QED
        BY <4>1, <4>2 DEF InBlock
    <3>3. QED
      BY <3>1, <3>2
  <2>6. QED
    BY <2>2, <2>3, <2>4, <2>5 DEF InPacket
<1>7. CASE p = 6 + n /\ Stored(e, p) /\ binlen = n /\ sts = "EXPECT_END"
  <2>1. p + 1 = 7 + n /\ p - 1 = 5 + n
    BY <1>1, <1>7
  <2>2. Head(downWire) = END
    BY <2>1, <1>1
  <2>3. Board!ExpectEnd
    BY <1>7 DEF Board!Next, Board!WaitStart, Board!HeaderByte, Board!LengthByte,
                Board!BinBlock, Board!ExpectEnd, Board!Following
  <2>4. /\ delivered' = Append(delivered, Board!NaisUnmarshall(rxbuff))
        /\ sts' = "WAIT_START" /\ count' = 0 /\ binlen' = 0
    BY <2>2, <2>3 DEF Board!ExpectEnd, Board!c
  <2>5. Board!NaisUnmarshall(rxbuff) = Board!Decoded(m)
    <3>1. rxbuff \in [1..RxSize -> Byte] /\ 5 + n <= RxSize
          /\ \A i \in 1..5 + n : rxbuff[i] = e[i + 1]
      BY <2>1, <1>7 DEF Stored, BoardTypes
    <3>2. rxbuff[1] = m.type /\ rxbuff[2] = m.sline /\ rxbuff[5] = n
      BY <3>1, <1>1
    <3>3. \A i \in 1..n : 5 + i \in 1..5 + n /\ (5 + i) + 1 = 6 + i
      BY <1>1
    <3>4. \A i \in 1..n : rxbuff[5 + i] = m.payload[i]
      BY <3>1, <3>3, <1>1
    <3>5. QED
      BY <3>1, <3>2, <3>4, <1>1, Decodes
  <2>6. QED
    BY <2>4, <2>5, <1>7 DEF Idle
<1>8. QED
  BY <1>2, <1>3, <1>4, <1>5, <1>6, <1>7 DEF InPacket, InBlock

LEMMA NothingLeft ==
    ASSUME NEW parts \in Seq(Seq(Byte)), NEW n, n = Len(parts)
    PROVE  Remaining(parts, Len(Cat(parts, n)) + 0) = <<>>
<1> DEFINE F == FlattenSeq(parts)
           L == Len(F)
<1>1. Cat(parts, n) = F
  BY CatFacts
<1>2. n \in 0..Len(parts)
  OBVIOUS
<1>3. F \in Seq(Byte) /\ L \in Nat
  BY <1>2, CatWithin
<1>4. Remaining(parts, L + 0) = SubSeq(F, L + 0 + 1, L)
  BY DEF Remaining
<1> HIDE DEF F
<1>5. SubSeq(F, L + 0 + 1, L) = <<>>
  BY <1>3
<1>6. QED
  BY <1>1, <1>4, <1>5

\* The reader is behind all messages, or about to take a byte of one of them.
LEMMA AtByte ==
    ASSUME NEW s \in Seq(Message), AllShort(s), ReadsDown(s)
    PROVE  \/ Between(s, Len(s))
           \/ \E k \in 0..Len(s) - 1 : \E p \in 0..Len(DownParts(s)[k + 1]) - 1 : Within(s, k, p)
<1>1. CASE \E k \in 0..Len(s) - 1 : \E p \in 0..Len(DownParts(s)[k + 1]) - 1 : Within(s, k, p)
  BY <1>1
<1>2. CASE \E k \in 0..Len(s) : Between(s, k)
  <2>1. PICK j \in 0..Len(s) : Between(s, j) /\ (j = Len(s) \/ Len(DownParts(s)[j + 1]) # 0)
    BY <1>2, SkipEmpty, Zenon
  <2>2. CASE j = Len(s)
    BY <2>1, <2>2
  <2>3. CASE j # Len(s)
    <3>1. j \in 0..Len(s) - 1 /\ j + 1 \in 1..Len(s)
      BY <2>3
    <3>2. DownParts(s)[j + 1] \in Seq(Byte)
      BY <3>1, DownPartsAre
    <3> DEFINE z == Len(DownParts(s)[j + 1])
    <3>3. z \in Nat
      BY <3>2
    <3>4. z # 0
      BY <2>1, <2>3
    <3>5. 0 \in 0..z - 1
      <4> HIDE DEF z
      <4>1. QED
        BY <3>3, <3>4
    <3>6. Within(s, j, 0)
      BY <2>1 DEF Between, Within, InPacket
    <3>7. QED
      BY <3>1, <3>5, <3>6
  <2>4. QED
    BY <2>2, <2>3
<1>3. QED
  BY <1>1, <1>2 DEF ReadsDown

LEMMA AtEnd ==
    ASSUME NEW s \in Seq(Message), Between(s, Len(s))
    PROVE  downWire = <<>>
<1>1. DownParts(s) \in Seq(Seq(Byte)) /\ Len(s) = Len(DownParts(s))
  BY DownPartsAre
<1>2. Remaining(DownParts(s), Len(Cat(DownParts(s), Len(s))) + 0) = <<>>
  BY <1>1, NothingLeft
<1>3. QED
  BY <1>2 DEF Between

LEMMA NotAtEnd ==
    ASSUME NEW s \in Seq(Message), NEW k \in 0..Len(s) - 1,
           NEW p \in 0..Len(DownParts(s)[k + 1]) - 1, Within(s, k, p)
    PROVE  downWire # <<>>
<1>1. DownParts(s) \in Seq(Seq(Byte)) /\ Len(DownParts(s)) = Len(s)
  BY DownPartsAre
<1>2. k \in 0..Len(DownParts(s)) - 1
  BY <1>1
<1>3. Remaining(DownParts(s), Len(Cat(DownParts(s), k)) + p) # <<>>
  BY <1>1, <1>2, RemainingStep
<1>4. QED
  BY <1>3 DEF Within

LEMMA DoneText ==
    ASSUME NEW s \in Seq(Message), NEW k \in 0..Len(s) - 1, Done(s, k),
           ~Board!IsPacket(s[k + 1]), delivered' = delivered
    PROVE  Done(s, k + 1)'
<1>0. k + 1 \in 1..Len(s) /\ (k + 1) - 1 = k /\ k \in 0..Len(s)
  OBVIOUS
<1>1. Singles(s) \in Seq(Seq(Message)) /\ Len(Singles(s)) = Len(s) /\ Singles(s)[k + 1] = <<>>
  BY <1>0, DownPartsAre, Zenon
<1>2. Cat(Singles(s), k + 1) = Cat(Singles(s), k) \o <<>> /\ Cat(Singles(s), k) \in Seq(Message)
  BY <1>0, <1>1, CatFacts
<1>3. Cat(Singles(s), k + 1) = Cat(Singles(s), k)
  BY <1>2, EmptyCat
<1>4. QED
  BY <1>3 DEF Done, Handles

LEMMA OneMore ==
    ASSUME NEW S, NEW s \in Seq(S), NEW x \in S
    PROVE  /\ s \o <<x>> \in Seq(S) /\ Len(s) \in Nat /\ Len(s \o <<x>>) = Len(s) + 1
           /\ (s \o <<x>>)[Len(s) + 1] = x
           /\ \A i \in 1..Len(s) : (s \o <<x>>)[i] = s[i]
<1> DEFINE y == <<x>>
<1>0. y \in Seq(S)
  OBVIOUS
<1>1. Len(y) = 1 /\ y[1] = x /\ 1 \in 1..Len(y)
  OBVIOUS
<1> HIDE DEF y
<1>2. /\ s \o y \in Seq(S) /\ Len(s) \in Nat /\ Len(y) \in Nat /\ Len(s \o y) = Len(s) + Len(y)
      /\ \A p \in 1..Len(s) : p \in 1..Len(s \o y) /\ (s \o y)[p] = s[p]
      /\ \A p \in 1..Len(y) : /\ Len(s) + p \in 1..Len(s \o y)
                             /\ (s \o y)[Len(s) + p] = y[p]
  BY <1>0, CatIndex
<1>3. (s \o y)[Len(s) + 1] = x
  BY <1>1, <1>2
<1>4. Len(s \o y) = Len(s) + 1
  BY <1>1, <1>2
<1>5. QED
  BY <1>2, <1>3, <1>4 DEF y

LEMMA DonePacket ==
    ASSUME NEW s \in Seq(Message), NEW k \in 0..Len(s) - 1, Done(s, k), BoardTypes,
           Board!IsPacket(s[k + 1]), delivered' = Append(delivered, Board!Decoded(s[k + 1]))
    PROVE  Done(s, k + 1)'
<1> DEFINE a == Cat(Singles(s), k)
           b == Cat(Singles(s), k + 1)
           d == Board!Decoded(s[k + 1])
<1>0. k + 1 \in 1..Len(s) /\ (k + 1) - 1 = k /\ k \in 0..Len(s)
  OBVIOUS
<1>1. /\ Singles(s) \in Seq(Seq(Message)) /\ Len(Singles(s)) = Len(s)
      /\ Singles(s)[k + 1] = <<s[k + 1]>> /\ s[k + 1] \in Message
  BY <1>0, DownPartsAre, Zenon
<1>2. b = a \o <<s[k + 1]>> /\ a \in Seq(Message)
  BY <1>0, <1>1, CatFacts
<1>3. Len(delivered) = Len(a) /\ \A i \in 1..Len(a) : delivered[i] = Board!Decoded(a[i])
  BY DEF Done, Handles
<1>4. PICK S : delivered \in Seq(S)
  BY DEF BoardTypes
<1>5. delivered' = Append(delivered, d)
  OBVIOUS
<1>6. /\ b \in Seq(Message) /\ Len(a) \in Nat /\ Len(b) = Len(a) + 1 /\ b[Len(a) + 1] = s[k + 1]
      /\ \A i \in 1..Len(a) : b[i] = a[i]
  <2> HIDE DEF a, b
  <2>1. QED
    BY <1>1, <1>2, OneMore
<1>7. /\ Len(delivered') = Len(a) + 1 /\ delivered'[Len(a) + 1] = d
      /\ \A i \in 1..Len(a) : delivered'[i] = delivered[i]
  <2> HIDE DEF d, a
  <2>1. /\ Append(delivered, d) \in Seq(S \cup {d}) /\ Len(Append(delivered, d)) = Len(delivered) + 1
        /\ \A i \in 1..Len(delivered) : Append(delivered, d)[i] = delivered[i]
    BY <1>4, AppendSeq
  <2>2. Append(delivered, d)[Len(delivered) + 1] = d
    BY <1>4
  <2>3. QED
    BY <2>1, <2>2, <1>3, <1>5
<1> HIDE DEF a, b
<1>8. ASSUME NEW i \in 1..Len(b) PROVE delivered'[i] = Board!Decoded(b[i])
  <2>1. CASE i = Len(a) + 1
    BY <2>1, <1>6, <1>7
  <2>2. CASE i # Len(a) + 1
    <3>1. i \in 1..Len(a)
      BY <2>2, <1>6
    <3>2. QED
      BY <3>1, <1>3, <1>6, <1>7
  <2>3. QED
    BY <2>1, <2>2
<1>9. QED
  BY <1>6, <1>7, <1>8 DEF Done, Handles, b

LEMMA WithinStep ==
    ASSUME BoardTypes, Board!Next, NEW s \in Seq(Message), AllShort(s), NEW k \in 0..Len(s) - 1,
           NEW p \in 0..Len(DownParts(s)[k + 1]) - 1, Within(s, k, p)
    PROVE  \/ Between(s, k + 1)'
           \/ p + 1 \in 0..Len(DownParts(s)[k + 1]) - 1 /\ Within(s, k, p + 1)'
<1> DEFINE parts == DownParts(s)
           e == parts[k + 1]
           m == s[k + 1]
           n == Len(m.payload)
           z == Len(e)
<1>1. /\ k + 1 \in 1..Len(s) /\ parts \in Seq(Seq(Byte)) /\ Len(parts) = Len(s)
      /\ m \in Message /\ e = Board!Encode(m) /\ e \in Seq(Byte) /\ z \in Nat /\ Board!Short(m)
  <2>1. k + 1 \in 1..Len(s) /\ parts \in Seq(Seq(Byte)) /\ Len(parts) = Len(s)
        /\ m \in Message /\ e = Board!Encode(m) /\ Board!Short(m)
    BY DownPartsAre DEF AllShort
  <2>2. e \in Seq(Byte)
    BY <2>1, DownBytes
  <2> HIDE DEF e
  <2>3. QED
    BY <2>1, <2>2
<1>2. k \in 0..Len(parts) - 1 /\ p \in 0..z - 1 /\ p \in Nat
  BY <1>1
<1>3. /\ downWire # <<>> /\ downWire' = Tail(downWire) /\ Head(downWire) \in Byte
  BY BoardByte
<1>4. downWire = Remaining(parts, Len(Cat(parts, k)) + p) /\ Done(s, k)
  BY DEF Within
<1>5. /\ Head(downWire) = e[p + 1]
      /\ downWire' = Remaining(parts, Len(Cat(parts, k)) + p + 1)
      /\ p + 1 = z => downWire' = Remaining(parts, Len(Cat(parts, k + 1)) + 0)
  <2>1. LET w == Remaining(parts, Len(Cat(parts, k)) + p) IN
           /\ w # <<>> /\ Head(w) = parts[k + 1][p + 1]
           /\ Tail(w) = Remaining(parts, Len(Cat(parts, k)) + p + 1)
           /\ p + 1 = Len(parts[k + 1]) =>
                Tail(w) = Remaining(parts, Len(Cat(parts, k + 1)) + 0)
    BY <1>1, <1>2, RemainingStep
  <2> HIDE DEF parts
  <2>2. QED
    BY <2>1, <1>3, <1>4, Zenon
<1>6. Len(Cat(parts, k)) + p + 1 = Len(Cat(parts, k)) + (p + 1)
  <2> DEFINE a == Len(Cat(parts, k))
  <2>1. a \in Nat
    BY <1>1, <1>2, CatWithin
  <2> HIDE DEF a
  <2>2. a + p + 1 = a + (p + 1)
    BY <2>1, <1>2
  <2>3. QED
    BY <2>2 DEF a
<1>7. CASE ~Board!IsPacket(m)
  <2>1. Idle
    BY <1>7 DEF Within
  <2>2. Head(downWire) # START
    <3>1. e = m.payload /\ START \notin Board!Range(m.payload)
      BY <1>1, <1>7 DEF Board!Encode, Board!IsPacket, Board!Short
    <3>2. p + 1 \in DOMAIN e
      BY <1>1, <1>2
    <3>3. QED
      BY <3>1, <3>2, <1>5 DEF Board!Range
  <2>3. Board!WaitStart
    BY <2>1 DEF Idle, Board!Next, Board!WaitStart, Board!HeaderByte, Board!LengthByte,
                Board!BinBlock, Board!ExpectEnd, Board!Following
  <2>4. Idle' /\ delivered' = delivered
    BY <2>1, <2>2, <2>3 DEF Idle, Board!WaitStart, Board!c
  <2>5. CASE p + 1 = z
    <3>1. Done(s, k + 1)'
      BY <2>4, <1>4, <1>7, DoneText
    <3>2. QED
      BY <3>1, <2>4, <2>5, <1>5 DEF Between
  <2>6. CASE p + 1 # z
    <3>1. p + 1 \in 0..z - 1
      BY <2>6, <1>1, <1>2
    <3>2. Done(s, k)'
      BY <2>4, <1>4 DEF Done, Handles
    <3>3. Within(s, k, p + 1)'
      BY <3>2, <2>4, <1>5, <1>6, <1>7 DEF Within
    <3>4. QED
      BY <3>1, <3>3
  <2>7. QED
    BY <2>5, <2>6
<1>8. CASE Board!IsPacket(m)
  <2>1. ShortPacks(e, m)
    BY <1>1, <1>8, ShortPacket DEF Board!IsPacket
  <2>2. n \in Nat /\ z = 7 + n
    BY <2>1 DEF ShortPacks
  <2>3. InPacket(e, n, p)
    BY <1>8 DEF Within
  <2> HIDE DEF e, n, z, m
  <2>4. p \in 0..6 + n
    BY <2>2, <1>2
  <2>5. n = Len(m.payload)
    BY DEF n
  <2>6. \/ p < 6 + n /\ delivered' = delivered /\ InPacket(e, n, p + 1)'
        \/ p = 6 + n /\ Idle' /\ delivered' = Append(delivered, Board!Decoded(m))
    BY <2>1, <2>3, <2>4, <2>5, <1>1, <1>5, PacketByte
  <2>7. CASE p < 6 + n /\ delivered' = delivered /\ InPacket(e, n, p + 1)'
    <3>1. p + 1 \in 0..z - 1
      BY <2>2, <2>7, <1>2
    <3>2. Done(s, k)'
      BY <2>7, <1>4 DEF Done, Handles
    <3>3. Within(s, k, p + 1)'
      BY <3>2, <2>7, <1>5, <1>6, <1>8 DEF Within, e, m, n
    <3>4. QED
      BY <3>1, <3>3 DEF z, e
  <2>8. CASE p = 6 + n /\ Idle' /\ delivered' = Append(delivered, Board!Decoded(m))
    <3>1. p + 1 = z
      BY <2>2, <2>8
    <3>2. Done(s, k + 1)'
      BY <2>8, <1>4, <1>8, DonePacket DEF m
    <3>3. QED
      BY <3>1, <3>2, <2>8, <1>5 DEF Between
  <2>9. QED
    BY <2>6, <2>7, <2>8
<1>9. QED
  BY <1>7, <1>8

LEMMA ReadDownStep ==
    ASSUME BoardTypes, Board!Next, NEW s \in Seq(Message), AllShort(s), ReadsDown(s)
    PROVE  ReadsDown(s)'
<1>1. downWire # <<>>
  BY BoardByte
<1>2. PICK k \in 0..Len(s) - 1 : \E p \in 0..Len(DownParts(s)[k + 1]) - 1 : Within(s, k, p)
  BY <1>1, AtByte, AtEnd
<1>3. PICK p \in 0..Len(DownParts(s)[k + 1]) - 1 : Within(s, k, p)
  BY <1>2
<1>4. \/ Between(s, k + 1)'
      \/ p + 1 \in 0..Len(DownParts(s)[k + 1]) - 1 /\ Within(s, k, p + 1)'
  BY <1>3, WithinStep
<1>5. k + 1 \in 0..Len(s)
  OBVIOUS
<1>6. CASE Between(s, k + 1)'
  <2>1. \E j \in 0..Len(s) : Between(s, j)'
    BY <1>5, <1>6, Zenon
  <2>2. QED
    BY <2>1 DEF ReadsDown
<1>7. CASE p + 1 \in 0..Len(DownParts(s)[k + 1]) - 1 /\ Within(s, k, p + 1)'
  <2>1. \E j \in 0..Len(s) - 1 : \E q \in 0..Len(DownParts(s)[j + 1]) - 1 : Within(s, j, q)'
    BY <1>7, Zenon
  <2>2. QED
    BY <2>1 DEF ReadsDown
<1>8. QED
  BY <1>4, <1>6, <1>7

LEMMA ReadDownInit == ASSUME Board!Init PROVE BoardInv
<1> DEFINE s == downSent
<1>1. s \in Seq(Message)
  BY BoardInit DEF BoardTypes
<1>2. ASSUME downHit.msg = 0 PROVE ReadsDown(s)
  <2>1. /\ DownParts(s) \in Seq(Seq(Byte)) /\ Singles(s) \in Seq(Seq(Message)) /\ DOMAIN s = 1..Len(s)
        /\ Len(s) \in Nat
    BY <1>1, DownPartsAre
  <2>2. downWire = FlattenSeq(DownParts(s))
    <3>1. [i \in DOMAIN s |-> Board!Arriving(i)] = DownParts(s)
      <4>1. \A i \in 1..Len(s) : i # 0
        OBVIOUS
      <4>2. \A i \in 1..Len(s) : Board!Arriving(i) = Board!Encode(s[i])
        BY <4>1, <1>2 DEF Board!Arriving
      <4>3. QED
        BY <4>2, <2>1 DEF DownParts
    <3>2. QED
      BY <3>1, SameFlatten DEF Board!Init
  <2>3. Cat(DownParts(s), 0) = <<>> /\ Cat(Singles(s), 0) = <<>>
    BY <2>1, CatFacts
  <2>4. downWire = Remaining(DownParts(s), Len(Cat(DownParts(s), 0)) + 0)
    <3> DEFINE F == FlattenSeq(DownParts(s))
    <3>1. F \in Seq(Byte)
      <4>1. 0 \in 0..Len(DownParts(s))
        BY <2>1
      <4>2. QED
        BY <2>1, <4>1, CatWithin
    <3>2. Len(Cat(DownParts(s), 0)) + 0 + 1 = 1
      BY <2>3
    <3>3. Remaining(DownParts(s), Len(Cat(DownParts(s), 0)) + 0) = SubSeq(F, 1, Len(F))
      BY <3>2 DEF Remaining
    <3> HIDE DEF F
    <3>4. SubSeq(F, 1, Len(F)) = F
      BY <3>1, WholeSeq
    <3>5. QED
      BY <3>3, <3>4, <2>2 DEF F
  <2>5. Idle /\ delivered = <<>>
    BY DEF Idle, Board!Init
  <2>6. Done(s, 0)
    BY <2>3, <2>5 DEF Done, Handles
  <2>7. Between(s, 0)
    BY <2>4, <2>5, <2>6 DEF Between
  <2>8. 0 \in 0..Len(s)
    BY <2>1
  <2>9. QED
    BY <2>7, <2>8 DEF ReadsDown
<1>3. QED
  BY <1>1, <1>2 DEF BoardInv

LEMMA ReadDownNext == ASSUME BoardTypes, BoardInv, Next PROVE BoardInv'
<1>1. PICK s \in Seq(Message) : s = downSent /\ (downHit.msg = 0 /\ AllShort(s) => ReadsDown(s))
  BY DEF BoardInv
<1>2. CASE BoardReads
  <2>1. Board!Next
    BY <1>2 DEF BoardReads
  <2>2. downSent' = downSent /\ downHit' = downHit
    BY <2>1, BoardByte
  <2>3. ASSUME downHit'.msg = 0, AllShort(s) PROVE ReadsDown(s)'
    <3>1. ReadsDown(s)
      BY <1>1, <2>2, <2>3
    <3>2. QED
      BY <2>1, <2>3, <3>1, ReadDownStep
  <2>4. s = downSent'
    BY <1>1, <2>2
  <2>5. QED
    BY <2>3, <2>4 DEF BoardInv
<1>3. CASE HostReads
  <2>1. UNCHANGED downVars
    BY <1>3 DEF HostReads
  <2>2. QED
    BY <1>1, <2>1 DEF BoardInv, ReadsDown, Between, Within, InPacket, Stored, InHeader, InBlock,
                      Idle, Done, Handles, downVars
<1>4. QED
  BY <1>2, <1>3 DEF Next

LEMMA BoardInvariant == Spec => [](BoardTypes /\ BoardInv)
<1>1. Init => BoardTypes /\ BoardInv
  BY BoardInit, ReadDownInit DEF Init
<1>2. BoardTypes /\ BoardInv /\ [Next]_vars => (BoardTypes /\ BoardInv)'
  <2>1. SUFFICES ASSUME BoardTypes, BoardInv, [Next]_vars PROVE BoardTypes' /\ BoardInv'
    OBVIOUS
  <2>2. CASE UNCHANGED vars
    <3>1. PICK s \in Seq(Message) : s = downSent /\ (downHit.msg = 0 /\ AllShort(s) => ReadsDown(s))
      BY <2>1 DEF BoardInv
    <3>2. UNCHANGED downVars
      BY <2>2 DEF vars
    <3>3. BoardInv'
      BY <3>1, <3>2 DEF BoardInv, ReadsDown, Between, Within, InPacket, Stored, InHeader, InBlock,
                        Idle, Done, Handles, downVars
    <3>4. BoardTypes'
      BY <3>2, <2>1 DEF BoardTypes, downVars
    <3>5. QED
      BY <3>3, <3>4
  <2>3. CASE Next
    <3>1. BoardInv'
      BY <2>1, <2>3, ReadDownNext
    <3>2. BoardTypes'
      <4>1. CASE BoardReads
        BY <4>1, <2>1, BoardReadsTypes DEF BoardReads
      <4>2. CASE HostReads
        BY <4>2, <2>1 DEF HostReads, downVars, BoardTypes
      <4>3. QED
        BY <2>3, <4>1, <4>2 DEF Next
    <3>3. QED
      BY <3>1, <3>2
  <2>4. QED
    BY <2>1, <2>2, <2>3
<1>3. QED
  BY <1>1, <1>2, PTL DEF Spec

\* What a part of the packets is, and what all of them are.
LEMMA FirstPackets ==
    ASSUME NEW s \in Seq(Message), NEW k \in 0..Len(s)
    PROVE  /\ Len(Cat(Singles(s), k)) \in Nat /\ Len(FlattenSeq(Singles(s))) \in Nat
           /\ Len(Cat(Singles(s), k)) <= Len(FlattenSeq(Singles(s)))
           /\ \A i \in 1..Len(Cat(Singles(s), k)) :
                 FlattenSeq(Singles(s))[i] = Cat(Singles(s), k)[i]
           /\ k = Len(s) => Cat(Singles(s), k) = FlattenSeq(Singles(s))
<1> DEFINE u == Singles(s)
<1>1. u \in Seq(Seq(Message)) /\ Len(u) = Len(s) /\ Len(s) \in Nat
  BY DownPartsAre
<1> HIDE DEF u
<1>2. k \in 0..Len(u) /\ Len(u) \in k..Len(u) /\ Len(u) \in 0..Len(u)
  BY <1>1
<1>3. PICK f : Partial(f, u, Message) /\ FlattenSeq(u) = f[Len(u)]
  BY <1>1, FlattenPartial
<1>4. Cat(u, k) = f[k]
  BY <1>1, <1>2, <1>3, CatPartial
<1>5. Len(f[k]) <= Len(f[Len(u)]) /\ \A i \in 1..Len(f[k]) : f[Len(u)][i] = f[k][i]
  BY <1>1, <1>2, <1>3, PartialPrefix, SMTT(30)
<1>6. f[k] \in Seq(Message) /\ f[Len(u)] \in Seq(Message)
  BY <1>2, <1>3 DEF Partial
<1>7. Len(f[k]) \in Nat /\ Len(f[Len(u)]) \in Nat
  BY <1>6
<1>8. QED
  BY <1>1, <1>3, <1>4, <1>5, <1>7 DEF u

(* Whatever the stream is that the host writes to the board, if it keeps   *)
(* the contract and no byte is lost, the board handles the packets of it   *)
(* in order and unchanged, and has handled all of them when it has read    *)
(* all bytes (serial_loop, nais_unmarshall).                               *)
THEOREM BoardHandlesAsSent == Spec => []HandledAsSent
<1>1. BoardTypes /\ BoardInv => HandledAsSent
  <2>1. SUFFICES ASSUME BoardTypes, BoardInv, downHit.msg = 0,
                        \A i \in DOMAIN downSent : Board!Short(downSent[i])
                 PROVE  /\ Len(delivered) <= Len(Board!Packets)
                        /\ \A i \in DOMAIN delivered : delivered[i] = Board!Decoded(Board!Packets[i])
                        /\ downWire = <<>> => Len(delivered) = Len(Board!Packets)
    BY DEF HandledAsSent, Board!HandledAsSent
  <2>2. PICK s \in Seq(Message) : s = downSent /\ (downHit.msg = 0 /\ AllShort(s) => ReadsDown(s))
    BY <2>1 DEF BoardInv
  <2>3. DOMAIN s = 1..Len(s) /\ Len(s) \in Nat
    BY DownPartsAre
  <2>4. AllShort(s) /\ ReadsDown(s)
    BY <2>1, <2>2, <2>3 DEF AllShort
  <2>5. Board!Packets = FlattenSeq(Singles(s))
    BY <2>2, <2>3, SameFlatten DEF Board!Packets, Singles
  <2>6. PICK k \in 0..Len(s) : Done(s, k)
    <3>1. CASE \E k \in 0..Len(s) : Between(s, k)
      BY <3>1 DEF Between
    <3>2. CASE \E k \in 0..Len(s) - 1 : \E p \in 0..Len(DownParts(s)[k + 1]) - 1 : Within(s, k, p)
      <4>1. PICK k \in 0..Len(s) - 1 : \E p \in 0..Len(DownParts(s)[k + 1]) - 1 : Within(s, k, p)
        BY <3>2
      <4>2. Done(s, k)
        BY <4>1 DEF Within
      <4>3. k \in 0..Len(s)
        BY <2>3
      <4>4. QED
        BY <4>2, <4>3
    <3>3. QED
      BY <3>1, <3>2, <2>4 DEF ReadsDown
  <2>7. \A i \in DOMAIN delivered : i \in 1..Len(delivered)
    BY <2>1 DEF BoardTypes
  <2>8. /\ Len(delivered) <= Len(Board!Packets)
        /\ \A i \in DOMAIN delivered : delivered[i] = Board!Decoded(Board!Packets[i])
    <3> DEFINE a == Cat(Singles(s), k)
               b == FlattenSeq(Singles(s))
    <3>1. Len(delivered) = Len(a) /\ \A i \in 1..Len(a) : delivered[i] = Board!Decoded(a[i])
      BY <2>6 DEF Done, Handles
    <3>2. Len(a) <= Len(b) /\ \A i \in 1..Len(a) : b[i] = a[i]
      BY FirstPackets
    <3>3. Board!Packets = b
      BY <2>5
    <3> HIDE DEF a, b
    <3>4. QED
      BY <3>1, <3>2, <3>3, <2>7
  <2>9. ASSUME downWire = <<>> PROVE Len(delivered) = Len(Board!Packets)
    <3>1. Between(s, Len(s))
      BY <2>4, <2>9, AtByte, NotAtEnd
    <3>2. Len(delivered) = Len(Cat(Singles(s), Len(s)))
      BY <3>1 DEF Between, Done, Handles
    <3>3. Len(s) \in 0..Len(s)
      BY <2>3
    <3>4. Cat(Singles(s), Len(s)) = FlattenSeq(Singles(s))
      BY <3>3, FirstPackets
    <3>5. QED
      BY <3>2, <3>4, <2>5
  <2>10. QED
    BY <2>8, <2>9
<1>2. QED
  BY <1>1, BoardInvariant, PTL
=============================================================================
