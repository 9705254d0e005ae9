---------------------------- MODULE XTimerProofs ----------------------------
(* Proofs about the timers of a board for any timers, any width of the     *)
(* counter and any interleaving of threads, ticks and interrupts.          *)
EXTENDS XTimer, FiniteSetTheorems, WellFoundedInduction, TLAPS

-----------------------------------------------------------------------------
(* Induction over the places of the list, as the choice of a least one     *)

LEMMA LessRelation ==
    \E R : IsWellFoundedOn(R, Nat) /\ \A x, y \in Nat : x < y => <<x, y>> \in R
<1>1. IsWellFoundedOn(OpToRel(<, Nat), Nat)
  BY NatLessThanWellFounded
<1>2. \A x, y \in Nat : x < y => <<x, y>> \in OpToRel(<, Nat)
  BY DEF OpToRel
<1>3. QED
  BY <1>1, <1>2, Zenon

(* A set of natural numbers that is not empty has a least element.         *)
LEMMA Least ==
    ASSUME NEW S, S \subseteq Nat, S # {}
    PROVE  \E x \in S : \A y \in S : x <= y
<1>1. PICK R : IsWellFoundedOn(R, Nat) /\ \A x, y \in Nat : x < y => <<x, y>> \in R
  BY LessRelation
<1>2. PICK x \in S : \A y \in S : ~ (<<y, x>> \in R)
  BY <1>1, WFMin, ZenonT(60)
<1>3. \A u, v \in Nat : u < v => <<u, v>> \in R
  BY <1>1, Zenon
<1>4. ASSUME NEW y \in S PROVE x <= y
  <2>1. x \in Nat /\ y \in Nat
    OBVIOUS
  <2>2. ~ (y < x)
    BY <1>2, <1>3, <2>1, Zenon
  <2>3. QED
    BY <2>1, <2>2
<1>5. QED
  BY <1>4

-----------------------------------------------------------------------------
(* The list: the n-th timer from the head                                  *)

N == Cardinality(Timers)
TimerOrNil == Timers \cup {Nil}

LEMMA NNat == N \in Nat
  BY XTimerAssumption, FS_CardinalityType DEF N

\* g holds the timers that are reached from h along x.
IsChain(g, h, x) ==
    /\ g \in [0..N -> TimerOrNil]
    /\ g[0] = h
    /\ \A n \in 1..N : g[n] = IF g[n - 1] = Nil THEN Nil ELSE x[g[n - 1]]

LEMMA ChainUnique ==
    ASSUME NEW h, NEW x, NEW f, NEW g, IsChain(f, h, x), IsChain(g, h, x)
    PROVE  f = g
<1> DEFINE Bad == {n \in 0..N : f[n] # g[n]}
<1>1. Bad = {}
  <2>1. SUFFICES ASSUME Bad # {} PROVE FALSE
    OBVIOUS
  <2>2. Bad \subseteq Nat
    BY NNat
  <2>3. PICK n \in Bad : \A m \in Bad : n <= m
    BY <2>1, <2>2, Least
  <2>4. n \in 0..N /\ f[n] # g[n]
    OBVIOUS
  <2>5. n # 0
    BY <2>4 DEF IsChain
  <2>6. n - 1 \in 0..N /\ n \in 1..N /\ ~ (n <= n - 1)
    BY <2>4, <2>5, NNat
  <2>7. f[n - 1] = g[n - 1]
    BY <2>3, <2>6
  <2>8. QED
    BY <2>4, <2>6, <2>7 DEF IsChain
<1>2. \A n \in 0..N : f[n] = g[n]
  BY <1>1
<1>3. f \in [0..N -> TimerOrNil] /\ g \in [0..N -> TimerOrNil]
  BY DEF IsChain
<1>4. f = [n \in 0..N |-> f[n]] /\ g = [n \in 0..N |-> g[n]]
  BY <1>3
<1>5. [n \in 0..N |-> f[n]] = [n \in 0..N |-> g[n]]
  BY <1>2
<1>6. QED
  BY <1>4, <1>5

LEMMA ChainExists ==
    ASSUME NEW h \in TimerOrNil, NEW x \in [Timers -> TimerOrNil]
    PROVE  \E g : IsChain(g, h, x)
<1> DEFINE Upto(g, k) == /\ g \in [0..N -> TimerOrNil]
                         /\ g[0] = h
                         /\ \A n \in 1..k : g[n] = IF g[n - 1] = Nil THEN Nil ELSE x[g[n - 1]]
           Bad == {k \in 0..N : ~ \E g : Upto(g, k)}
<1>1. Bad = {}
  <2>1. SUFFICES ASSUME Bad # {} PROVE FALSE
    OBVIOUS
  <2>2. Bad \subseteq Nat
    BY NNat
  <2>3. PICK n \in Bad : \A m \in Bad : n <= m
    BY <2>1, <2>2, Least
  <2>4. n \in 0..N /\ ~ \E g : Upto(g, n)
    OBVIOUS
  <2>5. n # 0
    <3>1. Upto([k \in 0..N |-> h], 0)
      BY NNat
    <3>2. QED
      BY <2>4, <3>1
  <2>6. n - 1 \in 0..N /\ n \in 1..N /\ ~ (n <= n - 1)
    BY <2>4, <2>5, NNat
  <2>7. PICK g : Upto(g, n - 1)
    BY <2>3, <2>6
  <2>8. DEFINE e == IF g[n - 1] = Nil THEN Nil ELSE x[g[n - 1]]
               f == [g EXCEPT ![n] = e]
  <2>9. e \in TimerOrNil
    BY <2>6, <2>7 DEF TimerOrNil
  <2>10. f \in [0..N -> TimerOrNil]
    BY <2>7, <2>9
  <2>11. f[0] = h
    BY <2>6, <2>7
  <2>12. ASSUME NEW m \in 1..n
         PROVE  f[m] = IF f[m - 1] = Nil THEN Nil ELSE x[f[m - 1]]
    <3>1. m \in 0..N /\ m - 1 \in 0..N /\ m - 1 # n
      BY <2>6, NNat
    <3>2. f[m - 1] = g[m - 1]
      BY <3>1, <2>7
    <3>3. CASE m = n
      BY <3>1, <3>2, <3>3, <2>7
    <3>4. CASE m # n
      <4>1. m \in 1..n - 1 /\ f[m] = g[m]
        BY <3>1, <3>4, <2>6, <2>7
      <4>2. QED
        BY <4>1, <3>2, <2>7
    <3>5. QED
      BY <3>3, <3>4
  <2> HIDE DEF f, e
  <2>13. Upto(f, n)
    BY <2>10, <2>11, <2>12
  <2> HIDE DEF Upto
  <2>14. QED
    BY <2>4, <2>13
<1>2. N \in 0..N
  BY NNat
<1>3. PICK g : Upto(g, N)
  BY <1>1, <1>2
<1>4. QED
  BY <1>3 DEF IsChain

\* Node is that chain.
LEMMA NodeChain ==
    head \in TimerOrNil /\ nxt \in [Timers -> TimerOrNil] => IsChain(Node, head, nxt)
<1> SUFFICES ASSUME head \in TimerOrNil, nxt \in [Timers -> TimerOrNil]
             PROVE  IsChain(Node, head, nxt)
  OBVIOUS
<1>1. PICK g : IsChain(g, head, nxt)
  BY ChainExists
<1>2. g = [n \in 0..N |-> IF n = 0 THEN head
                          ELSE IF g[n - 1] = Nil THEN Nil ELSE nxt[g[n - 1]]]
  BY <1>1, NNat DEF IsChain
<1>3. Node = [n \in 0..N |-> IF n = 0 THEN head
                          ELSE IF Node[n - 1] = Nil THEN Nil ELSE nxt[Node[n - 1]]]
  BY <1>2 DEF Node, N
<1> DEFINE Bad == {n \in 0..N : Node[n] \notin TimerOrNil}
<1> HIDE DEF Node
<1>4. Bad = {}
  <2>1. SUFFICES ASSUME Bad # {} PROVE FALSE
    OBVIOUS
  <2>2. Bad \subseteq Nat
    BY NNat
  <2>3. PICK n \in Bad : \A m \in Bad : n <= m
    BY <2>1, <2>2, Least
  <2>4. n \in 0..N /\ Node[n] \notin TimerOrNil
    OBVIOUS
  <2>5. n # 0
    BY <1>3, <2>4
  <2>6. n - 1 \in 0..N /\ ~ (n <= n - 1)
    BY <2>4, <2>5, NNat
  <2>7. Node[n - 1] \in TimerOrNil
    BY <2>3, <2>6
  <2>8. Node[n] = IF Node[n - 1] = Nil THEN Nil ELSE nxt[Node[n - 1]]
    BY <1>3, <2>4, <2>5
  <2>9. QED
    BY <2>4, <2>7, <2>8 DEF TimerOrNil
<1>5. Node \in [0..N -> TimerOrNil]
  <2>1. \A n \in 0..N : Node[n] \in TimerOrNil
    BY <1>4
  <2>2. QED
    BY <1>3, <2>1
<1>6. Node[0] = head
  BY <1>3, NNat
<1>7. \A n \in 1..N : n \in 0..N /\ n # 0
  BY NNat
<1>8. \A n \in 1..N : Node[n] = IF Node[n - 1] = Nil THEN Nil ELSE nxt[Node[n - 1]]
  BY <1>3, <1>7
<1>9. QED
  BY <1>5, <1>6, <1>8 DEF IsChain

-----------------------------------------------------------------------------
(* Lists: which timers are in a list, and their order                      *)

\* With the turns lg and the values tg, t is not due later than u.
NotLater(lg, tg, t, u) == lg[t] < lg[u] \/ (lg[t] = lg[u] /\ tg[t] <= tg[u])

\* The list g holds the timers of S, each once, in their order.
IsList(g, S, lg, tg) ==
    /\ g \in [0..N -> TimerOrNil]
    /\ g[N] = Nil
    /\ \A i, j \in 0..N : i < j /\ g[j] # Nil =>
           g[i] # Nil /\ g[i] # g[j] /\ NotLater(lg, tg, g[i], g[j])
    /\ S = {g[n] : n \in 0..N} \ {Nil}

(* Each timer of the set is at one place, and each place that is not empty *)
(* holds a timer of the set.                                               *)
LEMMA ListPlaces ==
    ASSUME NEW g, NEW S, NEW lg, NEW tg, IsList(g, S, lg, tg)
    PROVE  /\ S \subseteq Timers
           /\ \A n \in 0..N : g[n] # Nil => g[n] \in S
           /\ \A t \in S : \E n \in 0..N : n < N /\ g[n] = t
           /\ \A i, j \in 0..N : g[i] = g[j] /\ g[i] # Nil => i = j
           /\ \A i, j \in 0..N : i <= j /\ g[i] = Nil => g[j] = Nil
<1>1. S \subseteq Timers
  BY DEF IsList, TimerOrNil
<1>2. \A n \in 0..N : g[n] # Nil => g[n] \in S
  BY DEF IsList
<1>3. ASSUME NEW t \in S PROVE \E n \in 0..N : n < N /\ g[n] = t
  <2>1. PICK n \in 0..N : g[n] = t /\ t # Nil
    BY DEF IsList
  <2>2. n # N
    BY <2>1 DEF IsList
  <2>3. n < N
    BY <2>2, NNat
  <2>4. QED
    BY <2>1, <2>3
<1>4. ASSUME NEW i \in 0..N, NEW j \in 0..N, g[i] = g[j], g[i] # Nil PROVE i = j
  <2>1. ~ (i < j) /\ ~ (j < i)
    BY <1>4 DEF IsList
  <2>2. QED
    BY <2>1, NNat
<1>5. ASSUME NEW i \in 0..N, NEW j \in 0..N, i <= j, g[i] = Nil PROVE g[j] = Nil
  <2>1. i = j \/ i < j
    BY <1>5, NNat
  <2>2. QED
    BY <2>1, <1>5 DEF IsList
<1>6. QED
  BY <1>1, <1>2, <1>3, <1>4, <1>5

(* Only the order of the timers that are in the list matters.              *)
LEMMA ListRelabel ==
    ASSUME NEW g, NEW S, NEW lg, NEW tg, NEW l2, NEW t2, IsList(g, S, lg, tg),
           \A t, u \in S : NotLater(lg, tg, t, u) => NotLater(l2, t2, t, u)
    PROVE  IsList(g, S, l2, t2)
<1>1. ASSUME NEW i \in 0..N, NEW j \in 0..N, i < j, g[j] # Nil
      PROVE  g[i] # Nil /\ g[i] # g[j] /\ NotLater(l2, t2, g[i], g[j])
  <2>1. g[i] # Nil /\ g[i] # g[j] /\ NotLater(lg, tg, g[i], g[j])
    BY <1>1 DEF IsList
  <2>2. g[i] \in S /\ g[j] \in S
    BY <1>1, <2>1 DEF IsList
  <2>3. QED
    BY <2>1, <2>2
<1>2. QED
  BY <1>1 DEF IsList

(* A timer that is not in the list leaves a place for it.                  *)
LEMMA ListHasRoom ==
    ASSUME NEW g, NEW S, NEW lg, NEW tg, IsList(g, S, lg, tg), NEW t \in Timers, t \notin S
    PROVE  N >= 1 /\ g[N - 1] = Nil
<1>1. IsFiniteSet(Timers) /\ Timers # {}
  BY XTimerAssumption
<1>2. N >= 1
  <2>1. N # 0
    BY <1>1, FS_EmptySet DEF N
  <2>2. QED
    BY <2>1, NNat
<1>3. SUFFICES ASSUME g[N - 1] # Nil PROVE FALSE
  BY <1>2
<1> DEFINE f == [n \in 0..N - 1 |-> g[n]]
           U == Timers \ {t}
<1>4. ASSUME NEW n \in 0..N - 1 PROVE g[n] \in U
  <2>1. n \in 0..N /\ N - 1 \in 0..N /\ n <= N - 1
    BY <1>2, NNat
  <2>2. g[n] # Nil
    BY <2>1, <1>3, ListPlaces
  <2>3. g[n] \in S
    BY <2>1, <2>2, ListPlaces
  <2>4. QED
    BY <2>3, ListPlaces
<1>5. \A a, b \in 0..N - 1 : g[a] = g[b] => a = b
  <2>1. \A a \in 0..N - 1 : a \in 0..N /\ g[a] # Nil
    BY <1>4, NNat, XTimerAssumption
  <2>2. QED
    BY <2>1, ListPlaces
<1>6. f \in Injection(0..N - 1, U)
  BY <1>4, <1>5 DEF Injection, IsInjective
<1>7. IsFiniteSet(U) /\ Cardinality(U) = N - 1
  BY <1>1, FS_RemoveElement DEF N
<1>8. Cardinality(0..N - 1) <= N - 1
  <2> HIDE DEF f, U
  <2>1. QED
    BY <1>6, <1>7, FS_Injection
<1>9. Cardinality(0..N - 1) = N
  <2>1. 0 \in Int /\ N - 1 \in Int /\ ~ (0 > N - 1)
    BY NNat, <1>2
  <2>2. Cardinality(0..N - 1) = N - 1 - 0 + 1
    BY <2>1, FS_Interval
  <2>3. QED
    BY <2>2, NNat
<1>10. QED
  BY <1>8, <1>9, NNat

(* The rest of a list behind its first k places is a list of the others.   *)
LEMMA DropChain ==
    ASSUME NEW g, NEW h, NEW x, NEW k \in 0..N, IsChain(g, h, x), g[N] = Nil
    PROVE  IsChain([n \in 0..N |-> IF n + k <= N THEN g[n + k] ELSE Nil], g[k], x)
<1> DEFINE f == [n \in 0..N |-> IF n + k <= N THEN g[n + k] ELSE Nil]
<1>1. \A n \in 0..N : n + k <= N => n + k \in 0..N
  BY NNat
<1>2. f \in [0..N -> TimerOrNil]
  BY <1>1 DEF IsChain, TimerOrNil
<1>3. f[0] = g[k]
  BY NNat
<1>4. ASSUME NEW n \in 1..N
      PROVE  f[n] = IF f[n - 1] = Nil THEN Nil ELSE x[f[n - 1]]
  <2>1. n \in 0..N /\ n - 1 \in 0..N
    BY NNat
  <2>2. CASE n + k <= N
    <3>1. n + k \in 1..N /\ n - 1 + k <= N /\ n - 1 + k = (n + k) - 1
      BY <2>2, NNat
    <3>2. f[n] = g[n + k] /\ f[n - 1] = g[(n + k) - 1]
      BY <2>1, <2>2, <3>1
    <3>3. g[n + k] = IF g[(n + k) - 1] = Nil THEN Nil ELSE x[g[(n + k) - 1]]
      BY <3>1 DEF IsChain
    <3>4. QED
      BY <3>2, <3>3
  <2>3. CASE ~ (n + k <= N)
    <3>1. f[n] = Nil
      BY <2>1, <2>3
    <3>2. n - 1 + k <= N => n - 1 + k = N
      BY <2>1, <2>3, NNat
    <3>3. f[n - 1] = Nil
      BY <2>1, <3>2
    <3>4. QED
      BY <3>1, <3>3
  <2>4. QED
    BY <2>2, <2>3
<1> HIDE DEF f
<1>5. IsChain(f, g[k], x)
  BY <1>2, <1>3, <1>4 DEF IsChain
<1>6. QED
  BY <1>5 DEF f

LEMMA DropList ==
    ASSUME NEW g, NEW S, NEW lg, NEW tg, NEW k \in 0..N, IsList(g, S, lg, tg)
    PROVE  IsList([n \in 0..N |-> IF n + k <= N THEN g[n + k] ELSE Nil],
                  S \ {g[n] : n \in 0..k - 1}, lg, tg)
<1> DEFINE f == [n \in 0..N |-> IF n + k <= N THEN g[n + k] ELSE Nil]
           D == {g[n] : n \in 0..k - 1}
<1>1. \A n \in 0..N : n + k <= N => n + k \in 0..N
  BY NNat
<1>2. f \in [0..N -> TimerOrNil]
  BY <1>1 DEF IsList, TimerOrNil
<1>3. f[N] = Nil
  <2>1. N + k <= N => N + k = N
    BY NNat
  <2>2. N \in 0..N
    BY NNat
  <2>3. QED
    BY <2>1, <2>2 DEF IsList
<1>4. ASSUME NEW i \in 0..N, NEW j \in 0..N, i < j, f[j] # Nil
      PROVE  f[i] # Nil /\ f[i] # f[j] /\ NotLater(lg, tg, f[i], f[j])
  <2>1. j + k <= N /\ f[j] = g[j + k]
    BY <1>4
  <2>2. i + k <= N /\ i + k < j + k /\ i + k \in 0..N /\ j + k \in 0..N
    BY <2>1, <1>4, NNat
  <2>3. f[i] = g[i + k]
    BY <2>2
  <2>4. QED
    BY <2>1, <2>2, <2>3, <1>4 DEF IsList
<1>5. ASSUME NEW t \in S \ D PROVE t \in {f[n] : n \in 0..N} \ {Nil}
  <2>1. PICK n \in 0..N : g[n] = t /\ t # Nil
    BY DEF IsList
  <2>2. ~ (n \in 0..k - 1)
    BY <2>1
  <2>3. n - k \in 0..N /\ (n - k) + k <= N /\ (n - k) + k = n
    BY <2>2, NNat
  <2>4. f[n - k] = t
    BY <2>1, <2>3
  <2>5. QED
    BY <2>1, <2>3, <2>4
<1>6. ASSUME NEW t \in {f[n] : n \in 0..N} \ {Nil} PROVE t \in S \ D
  <2>1. PICK n \in 0..N : f[n] = t /\ t # Nil
    OBVIOUS
  <2>2. n + k <= N /\ n + k \in 0..N /\ g[n + k] = t
    BY <2>1, <1>1
  <2>3. t \in S
    BY <2>1, <2>2, ListPlaces
  <2>4. ASSUME NEW m \in 0..k - 1, g[m] = t PROVE FALSE
    <3>1. m \in 0..N /\ m # n + k
      BY <2>2, NNat
    <3>2. QED
      BY <3>1, <2>1, <2>2, <2>4, ListPlaces
  <2>5. QED
    BY <2>3, <2>4
<1> HIDE DEF f, D
<1>7. S \ D = {f[n] : n \in 0..N} \ {Nil}
  BY <1>5, <1>6
<1>8. IsList(f, S \ D, lg, tg)
  BY <1>2, <1>3, <1>4, <1>7 DEF IsList
<1>9. QED
  BY <1>8 DEF f, D

(* A timer that is taken out leaves the others in their order.             *)
LEMMA OutChain ==
    ASSUME NEW g, NEW h, NEW x, NEW S, NEW lg, NEW tg, IsChain(g, h, x), IsList(g, S, lg, tg),
           NEW p \in 1..N, g[p] # Nil,
           NEW y, y = [u \in Timers |-> IF x[u] = g[p] /\ u \in S THEN x[g[p]] ELSE x[u]]
    PROVE  IsChain([n \in 0..N |-> IF n < p THEN g[n] ELSE IF n < N THEN g[n + 1] ELSE Nil], h, y)
<1> DEFINE f == [n \in 0..N |-> IF n < p THEN g[n] ELSE IF n < N THEN g[n + 1] ELSE Nil]
<1>1. \A n \in 0..N : n < N => n + 1 \in 0..N
  BY NNat
<1>2. f \in [0..N -> TimerOrNil]
  BY <1>1 DEF IsChain, TimerOrNil
<1>3. f[0] = h
  BY NNat DEF IsChain
<1>p. p \in 0..N /\ p - 1 \in 0..N /\ p < N
  <2>1. p # N
    BY DEF IsList
  <2>2. QED
    BY <2>1, NNat
<1>4. ASSUME NEW n \in 0..N, n < N, g[n] # Nil PROVE x[g[n]] = g[n + 1] /\ g[n] \in S /\ g[n] \in Timers
  <2>1. n + 1 \in 1..N /\ (n + 1) - 1 = n
    BY <1>4, NNat
  <2>2. g[n + 1] = x[g[n]]
    BY <2>1, <1>4 DEF IsChain
  <2>3. g[n] \in S
    BY <1>4, ListPlaces
  <2>4. QED
    BY <2>2, <2>3, ListPlaces
<1>5. ASSUME NEW n \in 0..N, n < N, g[n] # Nil, n + 1 # p PROVE y[g[n]] = g[n + 1]
  <2>1. x[g[n]] = g[n + 1] /\ g[n] \in Timers
    BY <1>4, <1>5
  <2>2. n + 1 \in 0..N
    BY <1>1, <1>5
  <2>3. g[n + 1] # g[p]
    BY <2>2, <1>5, <1>p, ListPlaces
  <2>4. QED
    BY <2>1, <2>3
<1>6. y[g[p - 1]] = g[p + 1] /\ g[p - 1] # Nil
  <2>1. g[p - 1] # Nil
    <3>1. p - 1 <= p
      BY <1>p, NNat
    <3>2. QED
      BY <1>p, <3>1, ListPlaces
  <2>2. p - 1 < N /\ (p - 1) + 1 = p
    BY <1>p, NNat
  <2>3. x[g[p - 1]] = g[p] /\ g[p - 1] \in S /\ g[p - 1] \in Timers
    BY <2>1, <2>2, <1>p, <1>4
  <2>4. x[g[p]] = g[p + 1]
    BY <1>p, <1>4
  <2>5. QED
    BY <2>1, <2>3, <2>4
<1>7. ASSUME NEW n \in 1..N
      PROVE  f[n] = IF f[n - 1] = Nil THEN Nil ELSE y[f[n - 1]]
  <2>0. n \in 0..N /\ n - 1 \in 0..N /\ n - 1 < N /\ (n - 1) + 1 = n
    BY NNat
  <2>1. CASE n < p
    <3>1. f[n] = g[n] /\ f[n - 1] = g[n - 1]
      BY <2>0, <2>1, <1>p
    <3>2. g[n - 1] # Nil
      BY <2>0, <2>1, <1>p, ListPlaces
    <3>3. n # p
      BY <2>1, <1>p
    <3>4. y[g[n - 1]] = g[n]
      BY <3>2, <3>3, <2>0, <1>5
    <3>5. QED
      BY <3>1, <3>2, <3>4
  <2>2. CASE n = p
    <3>1. f[n] = g[p + 1] /\ f[n - 1] = g[p - 1]
      BY <2>0, <2>2, <1>p
    <3>2. QED
      BY <3>1, <1>6
  <2>3. CASE n > p
    <3>1. f[n - 1] = g[n]
      BY <2>0, <2>3, <1>p
    <3>2. CASE n < N
      <4>1. f[n] = g[n + 1] /\ n + 1 \in 1..N /\ (n + 1) - 1 = n /\ n + 1 # p
        BY <2>0, <2>3, <3>2, <1>p, NNat
      <4>2. CASE g[n] = Nil
        <5>1. g[n + 1] = Nil
          BY <4>1, <4>2 DEF IsChain
        <5>2. QED
          BY <3>1, <4>1, <4>2, <5>1
      <4>3. CASE g[n] # Nil
        BY <3>1, <4>1, <4>3, <3>2, <2>0, <1>5
      <4>4. QED
        BY <4>2, <4>3
    <3>3. CASE ~ (n < N)
      <4>1. n = N
        BY <3>3, NNat
      <4>2. g[n] = Nil
        BY <4>1 DEF IsList
      <4>3. f[n] = Nil
        BY <2>0, <2>3, <3>3, <1>p
      <4>4. QED
        BY <3>1, <4>2, <4>3
    <3>4. QED
      BY <3>2, <3>3
  <2>4. n < p \/ n = p \/ n > p
    BY <2>0, <1>p
  <2>5. QED
    BY <2>1, <2>2, <2>3, <2>4
<1> HIDE DEF f
<1>8. IsChain(f, h, y)
  BY <1>2, <1>3, <1>7 DEF IsChain
<1>9. QED
  BY <1>8 DEF f

LEMMA OutList ==
    ASSUME NEW g, NEW S, NEW lg, NEW tg, IsList(g, S, lg, tg), NEW p \in 0..N, g[p] # Nil
    PROVE  IsList([n \in 0..N |-> IF n < p THEN g[n] ELSE IF n < N THEN g[n + 1] ELSE Nil],
                  S \ {g[p]}, lg, tg)
<1> DEFINE f == [n \in 0..N |-> IF n < p THEN g[n] ELSE IF n < N THEN g[n + 1] ELSE Nil]
           to(n) == IF n < p THEN n ELSE n + 1
<1>1. \A n \in 0..N : n < N => n + 1 \in 0..N
  BY NNat
<1>2. f \in [0..N -> TimerOrNil]
  BY <1>1 DEF IsList, TimerOrNil
<1>p. p < N
  <2>1. p # N
    BY DEF IsList
  <2>2. QED
    BY <2>1, NNat
<1>3. f[N] = Nil
  BY <1>p, NNat
<1>4. ASSUME NEW n \in 0..N, f[n] # Nil PROVE n < N /\ to(n) \in 0..N /\ f[n] = g[to(n)] /\ to(n) # p
  <2>1. n < N
    BY <1>4, <1>p, NNat
  <2>2. to(n) \in 0..N /\ to(n) # p
    BY <2>1, <1>p, NNat
  <2>3. f[n] = g[to(n)]
    BY <2>1
  <2>4. QED
    BY <2>1, <2>2, <2>3
<1>5. ASSUME NEW i \in 0..N, NEW j \in 0..N, i < j, f[j] # Nil
      PROVE  f[i] # Nil /\ f[i] # f[j] /\ NotLater(lg, tg, f[i], f[j])
  <2>1. j < N /\ to(j) \in 0..N /\ f[j] = g[to(j)]
    BY <1>4, <1>5
  <2>2. i < N /\ to(i) \in 0..N /\ to(i) < to(j)
    BY <2>1, <1>5, NNat
  <2>3. f[i] = g[to(i)]
    BY <2>2
  <2>4. QED
    BY <2>1, <2>2, <2>3, <1>5 DEF IsList
<1>6. ASSUME NEW t \in S, t # g[p] PROVE t \in {f[n] : n \in 0..N} \ {Nil}
  <2>1. PICK n \in 0..N : n < N /\ g[n] = t
    BY ListPlaces
  <2>2. t # Nil
    BY DEF IsList
  <2>3. n # p
    BY <2>1, <1>6
  <2>4. CASE n < p
    <3>1. f[n] = t
      BY <2>1, <2>4
    <3>2. QED
      BY <2>2, <3>1
  <2>5. CASE n > p
    <3>1. n - 1 \in 0..N /\ ~ (n - 1 < p) /\ n - 1 < N /\ (n - 1) + 1 = n
      BY <2>1, <2>5, NNat
    <3>2. f[n - 1] = t
      BY <2>1, <3>1
    <3>3. QED
      BY <2>2, <3>1, <3>2
  <2>6. n < p \/ n > p
    BY <2>3
  <2>7. QED
    BY <2>4, <2>5, <2>6
<1>7. ASSUME NEW t \in {f[n] : n \in 0..N} \ {Nil} PROVE t \in S /\ t # g[p]
  <2>1. PICK n \in 0..N : f[n] = t /\ t # Nil
    OBVIOUS
  <2>2. to(n) \in 0..N /\ t = g[to(n)] /\ to(n) # p
    BY <2>1, <1>4
  <2>3. t \in S
    BY <2>1, <2>2, ListPlaces
  <2>4. t # g[p]
    BY <2>1, <2>2, ListPlaces
  <2>5. QED
    BY <2>3, <2>4
<1> HIDE DEF f, to
<1>8. S \ {g[p]} = {f[n] : n \in 0..N} \ {Nil}
  BY <1>6, <1>7
<1>9. IsList(f, S \ {g[p]}, lg, tg)
  BY <1>2, <1>3, <1>5, <1>8 DEF IsList
<1>10. QED
  BY <1>9 DEF f

(* A timer that is put in stands behind those that are not due later and   *)
(* before the others.                                                      *)
Behind(g, a, t) == [n \in 0..N |-> IF n < a THEN g[n] ELSE IF n = a THEN t ELSE g[n - 1]]

LEMMA PutChain ==
    ASSUME NEW g, NEW h, NEW x, NEW S, NEW lg, NEW tg, IsChain(g, h, x), IsList(g, S, lg, tg),
           NEW t \in Timers, t \notin S, NEW a \in 0..N, \A n \in 0..a - 1 : g[n] # Nil,
           NEW k, k = (IF a = 0 THEN t ELSE h),
           NEW y, y = [u \in Timers |-> IF a > 0 /\ u = g[a - 1] THEN t
                                        ELSE IF u = t THEN g[a] ELSE x[u]]
    PROVE  a < N /\ IsChain(Behind(g, a, t), k, y)
<1> DEFINE f == Behind(g, a, t)
<1>1. N >= 1 /\ g[N - 1] = Nil
  BY ListHasRoom
<1>2. a < N
  <2>1. a # N
    <3>1. a = N => N - 1 \in 0..a - 1
      BY <1>1, NNat
    <3>2. QED
      BY <1>1, <3>1
  <2>2. QED
    BY <2>1, NNat
<1>3. \A n \in 0..N : n > a => n - 1 \in 0..N
  BY NNat
<1>4. f \in [0..N -> TimerOrNil]
  BY <1>3 DEF Behind, IsChain, TimerOrNil
<1>5. f[0] = k
  <2>1. 0 \in 0..N
    BY NNat
  <2>2. QED
    BY <2>1 DEF Behind, IsChain
<1>6. t # Nil
  BY XTimerAssumption
<1>7. ASSUME NEW n \in 0..N, n < N, g[n] # Nil
      PROVE  x[g[n]] = g[n + 1] /\ g[n] \in Timers /\ g[n] # t
  <2>1. n + 1 \in 1..N /\ (n + 1) - 1 = n
    BY <1>7, NNat
  <2>2. g[n + 1] = x[g[n]]
    BY <2>1, <1>7 DEF IsChain
  <2>3. g[n] \in S
    BY <1>7, ListPlaces
  <2>4. QED
    BY <2>2, <2>3, ListPlaces
<1>8. ASSUME NEW n \in 0..N, n < N, g[n] # Nil, n + 1 # a PROVE y[g[n]] = g[n + 1]
  <2>1. x[g[n]] = g[n + 1] /\ g[n] \in Timers /\ g[n] # t
    BY <1>7, <1>8
  <2>2. a > 0 => g[n] # g[a - 1]
    <3>1. SUFFICES ASSUME a > 0 PROVE g[n] # g[a - 1]
      OBVIOUS
    <3>2. a - 1 \in 0..N /\ n # a - 1
      BY <3>1, <1>8, NNat
    <3>3. QED
      BY <3>2, <1>8, ListPlaces
  <2>3. QED
    BY <2>1, <2>2
<1>9. ASSUME NEW n \in 1..N
      PROVE  f[n] = IF f[n - 1] = Nil THEN Nil ELSE y[f[n - 1]]
  <2>0. n \in 0..N /\ n - 1 \in 0..N /\ n - 1 < N /\ (n - 1) + 1 = n /\ a \in Nat
    BY NNat
  <2>1. CASE n < a
    <3>1. n - 1 \in 0..a - 1 /\ n - 1 < a /\ n # a
      BY <2>0, <2>1
    <3>2. f[n] = g[n] /\ f[n - 1] = g[n - 1]
      BY <2>0, <2>1, <3>1 DEF Behind
    <3>3. g[n - 1] # Nil
      BY <3>1
    <3>4. y[g[n - 1]] = g[n]
      BY <2>0, <3>1, <3>3, <1>8
    <3>5. QED
      BY <3>2, <3>3, <3>4
  <2>2. CASE n = a
    <3>1. n - 1 \in 0..a - 1 /\ n - 1 < a /\ a > 0
      BY <2>0, <2>2
    <3>2. f[n] = t /\ f[n - 1] = g[a - 1]
      BY <2>0, <2>2, <3>1 DEF Behind
    <3>3. g[a - 1] # Nil
      BY <2>2, <3>1
    <3>4. g[a - 1] \in Timers
      BY <2>0, <2>2, <3>3, <1>7
    <3>5. y[g[a - 1]] = t
      BY <3>1, <3>4
    <3>6. QED
      BY <3>2, <3>3, <3>5
  <2>3. CASE n = a + 1
    <3>1. f[n] = g[a] /\ f[n - 1] = t
      BY <2>0, <2>3 DEF Behind
    <3>2. ~ (a > 0 /\ t = g[a - 1])
      <4>1. SUFFICES ASSUME a > 0, t = g[a - 1] PROVE FALSE
        OBVIOUS
      <4>2. a - 1 \in 0..N /\ a - 1 \in 0..a - 1
        BY <4>1, NNat
      <4>3. g[a - 1] \in S
        BY <4>2, ListPlaces
      <4>4. QED
        BY <4>1, <4>3
    <3>3. y[t] = g[a]
      BY <3>2
    <3>4. QED
      BY <3>1, <3>3, <1>6
  <2>4. CASE n > a + 1
    <3>0. n - 1 > a /\ ~ (n < a) /\ n # a /\ ~ (n - 1 < a) /\ n - 1 # a
      BY <2>0, <2>4
    <3>1. f[n] = g[n - 1] /\ f[n - 1] = g[(n - 1) - 1]
      BY <2>0, <3>0 DEF Behind
    <3>2. (n - 1) - 1 \in 0..N /\ (n - 1) - 1 < N /\ ((n - 1) - 1) + 1 = n - 1
          /\ n - 1 \in 1..N /\ n - 1 # a
      BY <2>0, <2>4, NNat
    <3>3. CASE g[(n - 1) - 1] = Nil
      <4>1. g[n - 1] = Nil
        BY <3>2, <3>3 DEF IsChain
      <4>2. QED
        BY <3>1, <3>3, <4>1
    <3>4. CASE g[(n - 1) - 1] # Nil
      <4>1. y[g[(n - 1) - 1]] = g[n - 1]
        BY <3>2, <3>4, <1>8
      <4>2. QED
        BY <3>1, <3>4, <4>1
    <3>5. QED
      BY <3>3, <3>4
  <2>5. n < a \/ n = a \/ n = a + 1 \/ n > a + 1
    BY <2>0
  <2>6. QED
    BY <2>1, <2>2, <2>3, <2>4, <2>5
<1> HIDE DEF f
<1>10. IsChain(f, k, y)
  BY <1>4, <1>5, <1>9 DEF IsChain
<1>11. QED
  BY <1>2, <1>10 DEF f

LEMMA PutList ==
    ASSUME NEW g, NEW S, NEW lg \in [Timers -> Int], NEW tg \in [Timers -> Int],
           IsList(g, S, lg, tg),
           NEW t \in Timers, t \notin S, NEW a \in 0..N, a < N,
           \A n \in 0..a - 1 : g[n] # Nil /\ NotLater(lg, tg, g[n], t),
           g[a] # Nil => ~ NotLater(lg, tg, g[a], t)
    PROVE  IsList(Behind(g, a, t), S \cup {t}, lg, tg)
<1> DEFINE f == Behind(g, a, t)
<1>1. N >= 1 /\ g[N - 1] = Nil
  BY ListHasRoom
<1>2. \A n \in 0..N : n > a => n - 1 \in 0..N
  BY NNat
<1>3. f \in [0..N -> TimerOrNil]
  BY <1>2 DEF Behind, IsList, TimerOrNil
<1>4. f[N] = Nil
  <2>1. N \in 0..N /\ ~ (N < a) /\ N # a
    BY NNat
  <2>2. QED
    BY <1>1, <2>1 DEF Behind
<1>5. t # Nil
  BY XTimerAssumption
<1>6. ASSUME NEW n \in 0..N, g[n] # Nil PROVE g[n] \in S /\ g[n] # t /\ g[n] \in Timers
  BY <1>6, ListPlaces
<1>7. ASSUME NEW n \in 0..N, n < a PROVE g[n] # Nil /\ NotLater(lg, tg, g[n], t)
  <2>1. n \in 0..a - 1
    BY <1>7, NNat
  <2>2. QED
    BY <2>1
<1>8. ASSUME NEW n \in 0..N, n >= a, g[n] # Nil PROVE NotLater(lg, tg, t, g[n])
  <2>1. g[a] # Nil /\ NotLater(lg, tg, g[a], g[n])
    <3>1. g[a] # Nil
      BY <1>8, ListPlaces
    <3>2. CASE n = a
      <4>1. g[a] \in Timers
        BY <3>1, <1>6
      <4>2. QED
        BY <3>1, <3>2, <4>1 DEF NotLater
    <3>3. CASE n > a
      BY <3>3, <1>8 DEF IsList
    <3>4. n = a \/ n > a
      BY <1>8, NNat
    <3>5. QED
      BY <3>1, <3>2, <3>3, <3>4
  <2>2. ~ NotLater(lg, tg, g[a], t)
    BY <2>1
  <2>3. g[a] \in Timers /\ g[n] \in Timers
    BY <2>1, <1>6, <1>8
  <2>4. QED
    BY <2>1, <2>2, <2>3 DEF NotLater
<1>9. ASSUME NEW i \in 0..N, NEW j \in 0..N, i < j, f[j] # Nil
      PROVE  f[i] # Nil /\ f[i] # f[j] /\ NotLater(lg, tg, f[i], f[j])
  <2>1. CASE j < a
    <3>1. i < a /\ f[i] = g[i] /\ f[j] = g[j]
      BY <2>1, <1>9, NNat DEF Behind
    <3>2. QED
      BY <3>1, <1>9 DEF IsList
  <2>2. CASE j = a
    <3>1. i < a /\ f[i] = g[i] /\ f[j] = t
      BY <2>2, <1>9, NNat DEF Behind
    <3>2. QED
      BY <3>1, <1>6, <1>7
  <2>3. CASE j > a
    <3>0. j - 1 \in 0..N /\ j - 1 >= a /\ ~ (j < a) /\ j # a
      BY <2>3, NNat
    <3>1. f[j] = g[j - 1]
      BY <3>0 DEF Behind
    <3>2. CASE i < a
      <4>1. f[i] = g[i] /\ i < j - 1
        BY <3>2, <2>3, NNat DEF Behind
      <4>2. QED
        BY <3>0, <3>1, <4>1, <1>9 DEF IsList
    <3>3. CASE i = a
      <4>1. f[i] = t
        BY <3>3, NNat DEF Behind
      <4>2. QED
        BY <3>0, <3>1, <4>1, <1>5, <1>6, <1>8, <1>9
    <3>4. CASE i > a
      <4>1. f[i] = g[i - 1] /\ i - 1 \in 0..N /\ i - 1 < j - 1
        BY <3>4, <1>9, NNat DEF Behind
      <4>2. QED
        BY <3>0, <3>1, <4>1, <1>9 DEF IsList
    <3>5. i < a \/ i = a \/ i > a
      BY NNat
    <3>6. QED
      BY <3>2, <3>3, <3>4, <3>5
  <2>4. j < a \/ j = a \/ j > a
    BY NNat
  <2>5. QED
    BY <2>1, <2>2, <2>3, <2>4
<1>10. ASSUME NEW u \in S \cup {t} PROVE u \in {f[n] : n \in 0..N} \ {Nil}
  <2>1. CASE u = t
    <3>1. f[a] = t
      BY NNat DEF Behind
    <3>2. QED
      BY <2>1, <3>1, <1>5
  <2>2. CASE u \in S
    <3>1. PICK n \in 0..N : n < N /\ g[n] = u
      BY <2>2, ListPlaces
    <3>2. u # Nil
      BY <2>2 DEF IsList
    <3>3. CASE n < a
      <4>1. f[n] = u
        BY <3>1, <3>3 DEF Behind
      <4>2. QED
        BY <3>2, <4>1
    <3>4. CASE ~ (n < a)
      <4>1. n + 1 \in 0..N /\ ~ (n + 1 < a) /\ n + 1 # a /\ (n + 1) - 1 = n
        BY <3>1, <3>4, NNat
      <4>2. f[n + 1] = u
        BY <3>1, <4>1 DEF Behind
      <4>3. QED
        BY <3>2, <4>1, <4>2
    <3>5. QED
      BY <3>3, <3>4
  <2>3. QED
    BY <2>1, <2>2
<1>11. ASSUME NEW u \in {f[n] : n \in 0..N} \ {Nil} PROVE u \in S \cup {t}
  <2>1. PICK n \in 0..N : f[n] = u /\ u # Nil
    OBVIOUS
  <2>2. f[n] = g[n] \/ f[n] = t \/ (n > a /\ n - 1 \in 0..N /\ f[n] = g[n - 1])
    BY NNat DEF Behind
  <2>3. QED
    BY <2>1, <2>2, <1>6
<1> HIDE DEF f
<1>12. S \cup {t} = {f[n] : n \in 0..N} \ {Nil}
  BY <1>10, <1>11
<1>13. IsList(f, S \cup {t}, lg, tg)
  BY <1>3, <1>4, <1>9, <1>12 DEF IsList
<1>14. QED
  BY <1>13 DEF f

(* How many places at the head of the list have a property.                *)
LEMMA Leading ==
    ASSUME NEW G \in SUBSET (0..N), N \notin G,
           NEW c, c = Cardinality({n \in 0..N : \A k \in 0..n : k \in G})
    PROVE  c \in 0..N /\ c \notin G /\ \A k \in 0..c - 1 : k \in G
<1> DEFINE Out == (0..N) \ G
<1>1. N \in Out
  BY NNat
<1>2. Out \subseteq Nat
  BY NNat
<1>3. PICK m \in Out : \A n \in Out : m <= n
  BY <1>1, <1>2, Least
<1>4. m \in 0..N /\ m \notin G
  OBVIOUS
<1>5. ASSUME NEW k \in 0..m - 1 PROVE k \in G
  <2>1. k \in 0..N /\ ~ (m <= k)
    BY <1>4, NNat
  <2>2. QED
    BY <1>3, <2>1
<1>6. {n \in 0..N : \A k \in 0..n : k \in G} = 0..m - 1
  <2>1. ASSUME NEW n \in 0..m - 1 PROVE n \in 0..N /\ \A k \in 0..n : k \in G
    <3>1. n \in 0..N /\ \A k \in 0..n : k \in 0..m - 1
      BY <1>4, NNat
    <3>2. QED
      BY <1>5, <3>1
  <2>2. ASSUME NEW n \in 0..N, \A k \in 0..n : k \in G PROVE n \in 0..m - 1
    <3>1. ~ (m \in 0..n)
      BY <1>4, <2>2
    <3>2. QED
      BY <1>4, <3>1, NNat
  <2>3. QED
    BY <2>1, <2>2
<1>7. Cardinality(0..m - 1) = m
  <2>1. 0 \in Int /\ m - 1 \in Int /\ m \in Nat
    BY <1>4, NNat
  <2>2. Cardinality(0..m - 1) = IF 0 > m - 1 THEN 0 ELSE m - 1 - 0 + 1
    BY <2>1, FS_Interval
  <2>3. QED
    BY <2>1, <2>2
<1>8. c = m
  BY <1>6, <1>7
<1>9. QED
  BY <1>4, <1>5, <1>8

-----------------------------------------------------------------------------
(* Type correctness                                                        *)

LEMMA Constants ==
    /\ Turn \in Nat /\ Turn > 1 /\ Overhead \in Nat /\ Backoff \in Nat /\ Overhead < Backoff
    /\ IsrBackoff \in Nat /\ IsrBackoff > 0 /\ Latency \in Nat /\ Latency < Turn
    /\ MaxTurns \in Nat /\ Nil \notin Timers
    /\ Overhead <= Turn
    /\ \A o \in Offsets : o \in Nat /\ o < Turn
    /\ \A w \in Turns : w \in Nat /\ w < Turn - 1
  BY XTimerAssumption

\* A whole number of turns.
LEMMA Multiples ==
    /\ \A a \in Int : a * Turn \in Int /\ (a + 1) * Turn = a * Turn + Turn
    /\ \A a \in Nat : a * Turn \in Nat
    /\ \A a, b \in Int : (a + b) * Turn = a * Turn + b * Turn
    /\ \A a, b \in Int : a < b => a * Turn + Turn <= b * Turn
<1>1. Turn \in Nat /\ Turn > 0
  BY Constants
<1>2. ASSUME NEW a \in Int PROVE a * Turn \in Int /\ (a + 1) * Turn = a * Turn + Turn
  BY <1>1
<1>3. ASSUME NEW a \in Nat PROVE a * Turn \in Nat
  BY <1>1
<1>4. ASSUME NEW a \in Int, NEW b \in Int PROVE (a + b) * Turn = a * Turn + b * Turn
  BY <1>1
<1>5. ASSUME NEW a \in Int, NEW b \in Int, a < b PROVE a * Turn + Turn <= b * Turn
  <2>1. b - a - 1 \in Nat
    BY <1>5
  <2>2. (b - a - 1) * Turn \in Nat
    BY <2>1, <1>3
  <2>3. b * Turn = (b - a - 1) * Turn + (a * Turn + Turn)
    BY <1>1
  <2>4. QED
    BY <2>2, <2>3, <1>1, <1>2
<1>6. QED
  BY <1>2, <1>3, <1>4, <1>5

\* The state of the list, for the steps.
ListChain == IsChain(Node, head, nxt)

LEMMA TypeChain == TypeOK => ListChain
  BY NodeChain DEF TypeOK, ListChain, TimerOrNil

LEMMA NodeTyped ==
    ASSUME TypeOK
    PROVE  \A n \in 0..N : Node[n] \in TimerOrNil
  BY TypeChain DEF ListChain, IsChain

\* The place where Insert(t) puts t.
Place(t) == Cardinality({n \in 0..N : \A k \in 0..n : Node[k] # Nil /\ Before(Node[k], t)})

LEMMA PlaceIs ==
    ASSUME TypeOK, ~Cyclic, NEW t \in Timers
    PROVE  /\ Place(t) \in 0..N
           /\ \A n \in 0..Place(t) - 1 : Node[n] # Nil /\ Before(Node[n], t)
           /\ Node[Place(t)] # Nil => ~ Before(Node[Place(t)], t)
<1> DEFINE G == {n \in 0..N : Node[n] # Nil /\ Before(Node[n], t)}
<1>1. G \in SUBSET (0..N) /\ N \notin G
  BY DEF Cyclic, N
<1>2. \A n \in 0..N : (\A k \in 0..n : k \in G) <=> (\A k \in 0..n : Node[k] # Nil /\ Before(Node[k], t))
  <2>1. \A n \in 0..N : \A k \in 0..n : k \in 0..N
    BY NNat
  <2>2. QED
    BY <2>1
<1>3. {n \in 0..N : \A k \in 0..n : k \in G}
        = {n \in 0..N : \A k \in 0..n : Node[k] # Nil /\ Before(Node[k], t)}
  BY <1>2
<1>4. Place(t) = Cardinality({n \in 0..N : \A k \in 0..n : k \in G})
  BY <1>3 DEF Place
<1> HIDE DEF G
<1>5. Place(t) \in 0..N /\ Place(t) \notin G /\ \A k \in 0..Place(t) - 1 : k \in G
  BY <1>1, <1>4, Leading
<1>6. QED
  BY <1>5 DEF G

LEMMA InsertIs ==
    ASSUME NEW t \in Timers, Insert(t)
    PROVE  /\ nxt' = [x \in Timers |-> IF Place(t) > 0 /\ x = Node[Place(t) - 1] THEN t
                                       ELSE IF x = t THEN Node[Place(t)] ELSE nxt[x]]
           /\ head' = IF Place(t) = 0 THEN t ELSE head
           /\ IF Place(t) = 0 /\ long[t] = 0 THEN ProgramMatch(target[t])
                                             ELSE UNCHANGED <<match, irqs>>
  BY DEF Insert, Place, N

\* What a match register programmed for a value is.
LEMMA ProgramType ==
    ASSUME TypeOK, NEW value \in 0..Turn - 1, ProgramMatch(value)
    PROVE  match' \in 0..Turn /\ irqs' \subseteq {"match", "wrap"}
<1>1. match' = value /\ irqs' = IF value = now THEN irqs \cup {"match"} ELSE irqs
  BY DEF ProgramMatch
<1>2. match' \in 0..Turn
  BY <1>1, Constants
<1>3. QED
  BY <1>1, <1>2 DEF TypeOK

LEMMA TakeOutType ==
    ASSUME TypeOK, NEW t \in Timers, TakeOut(t)
    PROVE  /\ head' \in Timers \cup {Nil} /\ nxt' \in [Timers -> Timers \cup {Nil}]
           /\ match' \in 0..Turn /\ irqs' \subseteq {"match", "wrap"}
<1>1. head' \in Timers \cup {Nil} /\ nxt' \in [Timers -> Timers \cup {Nil}]
  BY DEF TypeOK, TakeOut
<1>2. CASE head = t /\ nxt[t] # Nil
  <2>1. ProgramMatch(target[nxt[t]]) /\ target[nxt[t]] \in 0..Turn - 1
    BY <1>2 DEF TypeOK, TakeOut
  <2>2. QED
    BY <1>1, <2>1, ProgramType
<1>3. CASE ~ (head = t /\ nxt[t] # Nil)
  BY <1>1, <1>3 DEF TypeOK, TakeOut
<1>4. QED
  BY <1>2, <1>3

LEMMA TicksType ==
    ASSUME now \in 0..Turn - 1, NEW o \in Offsets
    PROVE  /\ Ticks(o) \in Int /\ -Turn <= Ticks(o) /\ Ticks(o) < 2 * Turn
           /\ Ticks(o) \div Turn \in -1..1 /\ Ticks(o) % Turn \in 0..Turn - 1
           /\ Ticks(o) < 0 => Ticks(o) \div Turn = -1 /\ Ticks(o) % Turn = Ticks(o) + Turn
           /\ Ticks(o) \in 0..Turn - 1 => Ticks(o) \div Turn = 0 /\ Ticks(o) % Turn = Ticks(o)
           /\ Ticks(o) >= Turn => Ticks(o) \div Turn = 1 /\ Ticks(o) % Turn = Ticks(o) - Turn
<1>1. /\ Ticks(o) \in Int /\ -Turn <= Ticks(o) /\ Ticks(o) < 2 * Turn
      /\ Turn \in Nat /\ Turn > 0
  BY Constants DEF Ticks
<1>2. ASSUME NEW a \in Int, -Turn <= a, a < 2 * Turn
      PROVE  /\ a \div Turn \in -1..1 /\ a % Turn \in 0..Turn - 1
             /\ a < 0 => a \div Turn = -1 /\ a % Turn = a + Turn
             /\ a \in 0..Turn - 1 => a \div Turn = 0 /\ a % Turn = a
             /\ a >= Turn => a \div Turn = 1 /\ a % Turn = a - Turn
  <2>1. a % Turn \in 0..Turn - 1
    BY <1>1
  <2>2. ASSUME a \in 0..Turn - 1 PROVE a \div Turn = 0 /\ a % Turn = a
    BY <1>1, <2>2
  <2>3. ASSUME a >= Turn PROVE a % Turn = a - Turn
    BY <1>1, <1>2, <2>3
  <2>4. ASSUME a >= Turn PROVE a \div Turn = 1
    BY <1>1, <1>2, <2>4
  <2>5. ASSUME a < 0 PROVE a % Turn = a + Turn
    BY <1>1, <1>2, <2>5
  <2>6. ASSUME a < 0 PROVE a \div Turn = -1
    BY <1>1, <1>2, <2>6
  <2>7. a < 0 \/ a \in 0..Turn - 1 \/ a >= Turn
    BY <1>1
  <2>8. QED
    BY <2>1, <2>2, <2>3, <2>4, <2>5, <2>6, <2>7
<1>3. QED
  BY <1>1, <1>2

LEMMA ComputeType ==
    ASSUME TypeOK, NEW t \in Timers, NEW o \in Offsets, NEW more \in Nat, NEW wait \in Nat,
           Compute(t, o, more, wait)
    PROVE  /\ target' \in [Timers -> 0..Turn - 1] /\ long' \in [Timers -> Nat]
           /\ setting' \in [Timers -> -1..MaxTurns] /\ due' \in [Timers -> Nat]
<1>1. Ticks(o) % Turn \in 0..Turn - 1 /\ turns \in -1..MaxTurns
  BY TicksType, Constants DEF TypeOK
<1>2. Clock + o + more * Turn \in Nat
  <2>1. turns \in Nat /\ now \in Nat
    BY Constants DEF TypeOK
  <2>2. turns * Turn \in Nat /\ more * Turn \in Nat
    BY <2>1, Multiples
  <2>3. QED
    BY <2>1, <2>2, Constants DEF Clock
<1>3. QED
  BY <1>1, <1>2 DEF TypeOK, Compute

\* The kinds of states of the handlers.
IsrKinds == [pc : {"off", "fire", "look", "wrap", "program"}, ref : 0..Turn - 1]

LEMMA EndsType ==
    ASSUME Ends
    PROVE  isr' \in IsrKinds /\ isr' = Off /\ isr'.pc = "off" /\ late' = 0
  BY Constants DEF Ends, Off, IsrKinds

LEMMA ShootType ==
    ASSUME TypeOK, ShootFirst, head # Nil
    PROVE  /\ head' \in Timers \cup {Nil} /\ early' \in BOOLEAN
           /\ due' \in [Timers -> Nat] /\ target' \in [Timers -> 0..Turn - 1]
<1>1. head' \in Timers \cup {Nil} /\ early' \in BOOLEAN
  BY DEF TypeOK, ShootFirst
<1>2. due' \in [Timers -> Nat] /\ target' \in [Timers -> 0..Turn - 1]
  BY Constants DEF TypeOK, ShootFirst
<1>3. QED
  BY <1>1, <1>2

(* Whatever order threads, ticks and interrupts come in, the registers and *)
(* the list hold values of their types.                                    *)
LEMMA TypeStep == TypeOK /\ [Next]_vars => TypeOK'
<1> SUFFICES ASSUME TypeOK, [Next]_vars PROVE TypeOK'
  OBVIOUS
<1> USE DEF timerVars, hwVars, vars
<1>1. CASE Tick
  <2>1. now' \in 0..Turn - 1
    BY <1>1, Constants DEF TypeOK, Tick
  <2>2. turns' \in 0..MaxTurns /\ (turns' = 0 => now' # 0)
    BY <1>1, Constants DEF TypeOK, Tick
  <2>3. irqs' \subseteq {"match", "wrap"}
    BY <1>1 DEF TypeOK, Tick
  <2>4. late' \in Nat
    BY <1>1 DEF TypeOK, Tick
  <2>5. edge' \in BOOLEAN
    BY <1>1 DEF TypeOK, Tick
  <2>6. QED
    BY <1>1, <2>1, <2>2, <2>3, <2>4, <2>5 DEF TypeOK, Tick
<1>2. ASSUME NEW t \in Timers, NEW o \in Offsets, Set(t, o) PROVE TypeOK'
  <2>1. /\ head' \in Timers \cup {Nil} /\ nxt' \in [Timers -> Timers \cup {Nil}]
        /\ match' \in 0..Turn /\ irqs' \subseteq {"match", "wrap"}
    BY <1>2, TakeOutType DEF TypeOK, Set
  <2>2. /\ target' \in [Timers -> 0..Turn - 1] /\ long' \in [Timers -> Nat]
        /\ setting' \in [Timers -> -1..MaxTurns] /\ due' \in [Timers -> Nat]
    <3>1. CASE o < Backoff
      BY <1>2, <3>1 DEF TypeOK, Set
    <3>2. CASE ~ (o < Backoff)
      <4>1. Ticks(o) \div Turn \in Nat
        <5>1. Ticks(o) >= 0
          BY <3>2, Constants DEF TypeOK, Ticks
        <5>2. QED
          BY <5>1, TicksType, Constants DEF TypeOK
      <4>2. Compute(t, o, 0, Ticks(o) \div Turn) /\ 0 \in Nat
        BY <1>2, <3>2 DEF Set
      <4>3. QED
        BY <4>1, <4>2, ComputeType
    <3>3. QED
      BY <3>1, <3>2
  <2>3. now' = now /\ turns' = turns /\ isr' = isr /\ late' = late /\ panic' = panic
        /\ edge' = edge /\ early' = early /\ isr = Off
    BY <1>2 DEF Set, ThreadRuns
  <2>4. QED
    BY <2>1, <2>2, <2>3 DEF TypeOK, Off
<1>3. ASSUME NEW t \in Timers, NEW o \in Offsets, NEW more \in Turns, SetMsg(t, o, more)
      PROVE  TypeOK'
  <2>0. more \in Nat
    BY Constants
  <2>1. PICK w \in Nat : Compute(t, o, more, w)
    BY <1>3 DEF SetMsg, TypeOK
  <2>2. /\ target' \in [Timers -> 0..Turn - 1] /\ long' \in [Timers -> Nat]
        /\ setting' \in [Timers -> -1..MaxTurns] /\ due' \in [Timers -> Nat]
    BY <2>0, <2>1, ComputeType
  <2>3. edge' \in BOOLEAN
    BY <1>3 DEF SetMsg, TypeOK
  <2>4. QED
    BY <1>3, <2>2, <2>3 DEF TypeOK, SetMsg
<1>4. ASSUME NEW t \in Timers, NEW o \in Offsets, NEW more \in Turns, Sleep(t, o, more)
      PROVE  TypeOK'
  <2>1. more \in Nat /\ (Ticks(o) \div Turn + more) % Turn \in Nat
    <3>1. more \in Nat
      BY Constants
    <3>2. Ticks(o) \div Turn \in Int
      BY TicksType, Constants DEF TypeOK
    <3>3. QED
      BY <3>1, <3>2, Constants
  <2>2. Compute(t, o, more, (Ticks(o) \div Turn + more) % Turn)
    BY <1>4 DEF Sleep
  <2>3. /\ target' \in [Timers -> 0..Turn - 1] /\ long' \in [Timers -> Nat]
        /\ setting' \in [Timers -> -1..MaxTurns] /\ due' \in [Timers -> Nat]
    BY <2>1, <2>2, ComputeType
  <2>4. QED
    BY <1>4, <2>3 DEF TypeOK, Sleep
<1>5. ASSUME NEW t \in Timers, AddToList(t) PROVE TypeOK'
  <2>1. Insert(t) /\ ~Cyclic
    BY <1>5 DEF AddToList
  <2>2. Place(t) \in 0..N /\ (Place(t) > 0 => Place(t) - 1 \in 0..N)
    <3>1. Place(t) \in 0..N
      BY <2>1, PlaceIs
    <3>2. QED
      BY <3>1, NNat
  <2>3. Node[Place(t)] \in Timers \cup {Nil}
    BY <2>2, NodeTyped DEF TimerOrNil
  <2>4. head' \in Timers \cup {Nil} /\ nxt' \in [Timers -> Timers \cup {Nil}]
    BY <2>1, <2>3, InsertIs DEF TypeOK
  <2>5. match' \in 0..Turn /\ irqs' \subseteq {"match", "wrap"}
    <3>1. CASE Place(t) = 0 /\ long[t] = 0
      <4>1. ProgramMatch(target[t]) /\ target[t] \in 0..Turn - 1
        BY <2>1, <3>1, InsertIs DEF TypeOK
      <4>2. QED
        BY <4>1, ProgramType
    <3>2. CASE ~ (Place(t) = 0 /\ long[t] = 0)
      BY <2>1, <3>2, InsertIs DEF TypeOK
    <3>3. QED
      BY <3>1, <3>2
  <2>6. setting' \in [Timers -> -1..MaxTurns]
    BY <1>5, Constants DEF TypeOK, AddToList
  <2>7. edge' \in BOOLEAN
    BY <1>5 DEF AddToList, TypeOK
  <2>8. QED
    BY <1>5, <2>4, <2>5, <2>6, <2>7 DEF TypeOK, AddToList, Off
<1>6. ASSUME NEW t \in Timers, Remove(t) PROVE TypeOK'
  <2>1. /\ head' \in Timers \cup {Nil} /\ nxt' \in [Timers -> Timers \cup {Nil}]
        /\ match' \in 0..Turn /\ irqs' \subseteq {"match", "wrap"}
    BY <1>6, TakeOutType DEF Remove
  <2>2. due' \in [Timers -> Nat]
    BY <1>6 DEF Remove, TypeOK
  <2>3. QED
    BY <1>6, <2>1, <2>2 DEF TypeOK, Remove, ThreadRuns, Off
<1>7. CASE MatchBegins
  <2>1. match' \in 0..Turn /\ irqs' \subseteq {"match", "wrap"}
    BY <1>7, Constants DEF TypeOK, MatchBegins
  <2>2. isr' \in IsrKinds /\ isr'.pc = "fire"
    BY <1>7 DEF TypeOK, MatchBegins, IsrKinds
  <2>3. QED
    BY <1>7, <2>1, <2>2 DEF TypeOK, MatchBegins, IsrKinds
<1>8. CASE MatchShoots
  <2>1. ShootFirst /\ head # Nil /\ isr.pc = "fire"
    BY <1>8 DEF MatchShoots
  <2>2. /\ head' \in Timers \cup {Nil} /\ early' \in BOOLEAN
        /\ due' \in [Timers -> Nat] /\ target' \in [Timers -> 0..Turn - 1]
    BY <2>1, ShootType
  <2>3. QED
    BY <1>8, <2>1, <2>2 DEF TypeOK, MatchShoots
<1>9. CASE MatchLeaves
  <2>1. isr' \in IsrKinds /\ isr'.pc = "look"
    BY <1>9 DEF TypeOK, MatchLeaves, IsrKinds
  <2>2. QED
    BY <1>9, <2>1 DEF TypeOK, MatchLeaves, IsrKinds
<1>10. CASE MatchLooks
  <2>1. isr' \in IsrKinds /\ late' \in Nat /\ (isr'.pc = "program" => head # Nil)
    <3>1. CASE head # Nil /\ long[head] = 0
      <4>1. isr' = [pc |-> IF now > target[head] THEN "fire" ELSE "program", ref |-> now]
            /\ late' = late
        BY <1>10, <3>1 DEF MatchLooks
      <4>2. QED
        BY <3>1, <4>1 DEF TypeOK, IsrKinds
    <3>2. CASE ~ (head # Nil /\ long[head] = 0)
      <4>1. Ends
        BY <1>10, <3>2 DEF MatchLooks
      <4>2. QED
        BY <4>1, EndsType
    <3>3. QED
      BY <3>1, <3>2
  <2>2. QED
    BY <1>10, <2>1 DEF TypeOK, MatchLooks, IsrKinds
<1>11. CASE WrapBegins
  <2>1. isr' \in IsrKinds /\ isr'.pc = "wrap"
    BY <1>11, Constants DEF WrapBegins, Off, IsrKinds
  <2>2. QED
    BY <1>11, <2>1 DEF TypeOK, WrapBegins, IsrKinds
<1>12. CASE WrapShoots
  <2>1. ShootFirst /\ head # Nil /\ isr.pc = "wrap"
    BY <1>12 DEF WrapShoots, FirstIsPast
  <2>2. /\ head' \in Timers \cup {Nil} /\ early' \in BOOLEAN
        /\ due' \in [Timers -> Nat] /\ target' \in [Timers -> 0..Turn - 1]
    BY <2>1, ShootType
  <2>3. long' \in [Timers -> Nat]
    BY <1>12 DEF TypeOK, WrapShoots
  <2>4. QED
    BY <1>12, <2>1, <2>2, <2>3 DEF TypeOK, WrapShoots
<1>13. CASE WrapPasses
  <2>1. isr' \in IsrKinds /\ late' \in Nat /\ (isr'.pc = "program" => head # Nil)
    <3>1. CASE head # Nil /\ long[head] = 1
      <4>1. isr' = [isr EXCEPT !.pc = "program"] /\ late' = late
        BY <1>13, <3>1 DEF WrapPasses
      <4>2. QED
        BY <3>1, <4>1 DEF TypeOK, IsrKinds
    <3>2. CASE ~ (head # Nil /\ long[head] = 1)
      <4>1. Ends
        BY <1>13, <3>2 DEF WrapPasses
      <4>2. QED
        BY <4>1, EndsType
    <3>3. QED
      BY <3>1, <3>2
  <2>2. panic' \in BOOLEAN /\ long' \in [Timers -> Nat]
    BY <1>13 DEF TypeOK, WrapPasses, OneTurnLess
  <2>3. QED
    BY <1>13, <2>1, <2>2 DEF TypeOK, WrapPasses, IsrKinds
<1>14. CASE Program
  <2>1. ProgramMatch(target[head]) /\ Ends
    BY <1>14 DEF Program
  <2>2. target[head] \in 0..Turn - 1
    BY <1>14 DEF TypeOK, Program
  <2>3. match' \in 0..Turn /\ irqs' \subseteq {"match", "wrap"}
    BY <2>1, <2>2, ProgramType
  <2>4. isr' \in IsrKinds /\ isr'.pc = "off" /\ late' \in Nat
    BY <2>1, EndsType
  <2>5. edge' \in BOOLEAN
    BY <1>14 DEF Program, TypeOK
  <2>6. QED
    BY <1>14, <2>3, <2>4, <2>5 DEF TypeOK, Program, IsrKinds
<1>15. CASE UNCHANGED vars
  BY <1>15 DEF TypeOK
<1>16. QED
  BY <1>1, <1>2, <1>3, <1>4, <1>5, <1>6, <1>7, <1>8, <1>9, <1>10, <1>11, <1>12, <1>13, <1>14, <1>15
  DEF Next, Thread

LEMMA InitType == Init => TypeOK
<1>1. SUFFICES ASSUME Init PROVE TypeOK
  OBVIOUS
<1>2. now \in 0..Turn - 1 /\ turns \in 0..MaxTurns /\ match \in 0..Turn /\ now # 0
  BY <1>1, Constants DEF Init
<1>3. isr \in IsrKinds /\ isr.pc = "off"
  BY <1>1, Constants DEF Init, Off, IsrKinds
<1>4. target \in [Timers -> 0..Turn - 1] /\ long \in [Timers -> Nat]
      /\ due \in [Timers -> Nat] /\ nxt \in [Timers -> Timers \cup {Nil}]
  BY <1>1, Constants DEF Init
<1>5. setting \in [Timers -> -1..MaxTurns]
  BY <1>1, Constants DEF Init
<1>6. QED
  BY <1>1, <1>2, <1>3, <1>4, <1>5 DEF Init, TypeOK, IsrKinds

(* The values of registers and list are of their types in every behaviour. *)
THEOREM TypeCorrect == Spec => []TypeOK
  BY InitType, TypeStep, PTL DEF Spec

-----------------------------------------------------------------------------
(* The inductive invariant                                                 *)

\* The timers that are set and inserted, and when they are to be shot.
InList   == {t \in Timers : due[t] # 0 /\ setting[t] = -1}
Waits(t) == due[t] - Overhead

\* The turn that the long targets of the list count from: a wrap that is
\* pending, or whose handler is shooting timers, has not been counted in it.
WrapOpen == "wrap" \in irqs \/ isr.pc = "wrap"
ListTurn == IF WrapOpen THEN turns - 1 ELSE turns

\* The list holds these timers in their order.
ListInv == IsList(Node, InList, long, target)

\* A thread that has read the counter has done so before the last wrap, and
\* has computed what was asked for, unless that was past already.
SetInv == \A t \in Timers : setting[t] # -1 =>
    /\ setting[t] <= turns /\ (WrapOpen => setting[t] < turns)
    /\ due[t] # 0
    /\ Waits(t) < Clock \/ Waits(t) = (setting[t] + long[t]) * Turn + target[t]

\* What a timer of the list waits for is in its two targets, and it is not
\* late by more than the interrupt is.
DueInv == \A t \in InList :
    /\ target[t] # 0 /\ Waits(t) = (ListTurn + long[t]) * Turn + target[t]
    /\ Clock - Waits(t) <= late /\ Clock - Waits(t) <= Latency

\* A wrap is handled in the turn that it begins, and finds no timer of the
\* turn that has ended.
WrapInv ==
    /\ "wrap" \in irqs => isr = Off
    /\ WrapOpen => /\ now <= late /\ late <= Latency
                   /\ \A t \in InList : long[t] > 0

\* The match handler has its reference from this turn.
IsrInv  == isr.pc = "fire" => isr.ref <= now
IdleInv == irqs = {} /\ isr = Off => late = 0

\* The match is programmed for the first timer of the turn, or has come.
MatchInv == "wrap" \notin irqs /\ isr = Off /\ head # Nil /\ long[head] = 0 =>
    "match" \in irqs \/ (match = target[head] /\ target[head] > now)

Good == /\ early = FALSE /\ panic = FALSE
        /\ ListInv /\ SetInv /\ DueInv /\ WrapInv /\ IsrInv /\ IdleInv /\ MatchInv

IInv == TypeOK /\ (edge \/ Good)

-----------------------------------------------------------------------------
(* What the invariant says of the first timer and of the time              *)

LEMMA Numbers ==
    ASSUME TypeOK
    PROVE  /\ now \in Nat /\ now < Turn /\ turns \in Nat /\ late \in Nat
           /\ ListTurn \in Int /\ Clock \in Nat
           /\ \A t \in Timers : /\ long[t] \in Nat /\ target[t] \in Nat /\ target[t] < Turn
                                /\ setting[t] \in Int /\ Waits(t) \in Int
<1>1. now \in Nat /\ now < Turn /\ turns \in Nat /\ late \in Nat
  BY Constants DEF TypeOK
<1>2. ListTurn \in Int
  BY <1>1 DEF ListTurn
<1>3. Clock \in Nat
  <2>1. turns * Turn \in Nat
    BY <1>1, Multiples
  <2>2. QED
    BY <1>1, <2>1 DEF Clock
<1>4. ASSUME NEW t \in Timers
      PROVE  /\ long[t] \in Nat /\ target[t] \in Nat /\ target[t] < Turn
             /\ setting[t] \in Int /\ Waits(t) \in Int
  <2>1. target[t] \in 0..Turn - 1 /\ due[t] \in Nat /\ long[t] \in Nat
        /\ setting[t] \in -1..MaxTurns
    BY DEF TypeOK
  <2>2. QED
    BY <2>1, Constants DEF Waits
<1>5. QED
  BY <1>1, <1>2, <1>3, <1>4

(* The order of the targets is the order of the times.                     *)
LEMMA Ordered ==
    ASSUME TypeOK, DueInv, NEW t \in InList, NEW u \in InList, NotLater(long, target, t, u)
    PROVE  Waits(t) <= Waits(u)
<1>1. t \in Timers /\ u \in Timers
  BY DEF InList
<1>2. /\ ListTurn \in Int /\ long[t] \in Nat /\ long[u] \in Nat
      /\ target[t] \in Nat /\ target[u] \in Nat /\ target[t] < Turn
  BY <1>1, Numbers
<1>3. /\ Waits(t) = (ListTurn + long[t]) * Turn + target[t]
      /\ Waits(u) = (ListTurn + long[u]) * Turn + target[u]
  BY DEF DueInv
<1>4. CASE long[t] < long[u]
  <2>1. ListTurn + long[t] \in Int /\ ListTurn + long[u] \in Int
        /\ ListTurn + long[t] < ListTurn + long[u]
    BY <1>2, <1>4
  <2>2. (ListTurn + long[t]) * Turn + Turn <= (ListTurn + long[u]) * Turn
        /\ (ListTurn + long[t]) * Turn \in Int /\ (ListTurn + long[u]) * Turn \in Int
    BY <2>1, Multiples
  <2>3. QED
    BY <1>2, <1>3, <2>2, Constants
<1>5. CASE long[t] = long[u] /\ target[t] <= target[u]
  <2>1. (ListTurn + long[t]) * Turn \in Int
    BY <1>2, Multiples
  <2>2. QED
    BY <1>2, <1>3, <1>5, <2>1
<1>6. QED
  BY <1>4, <1>5 DEF NotLater

(* The first timer of the list is due before the others.                   *)
LEMMA HeadFirst ==
    ASSUME TypeOK, ListInv, DueInv
    PROVE  /\ Node[0] = head
           /\ head # Nil => head \in InList
           /\ \A t \in InList :
                  /\ head # Nil /\ long[head] <= long[t] /\ Waits(head) <= Waits(t)
<1>1. Node[0] = head
  BY TypeChain DEF ListChain, IsChain
<1>2. 0 \in 0..N
  BY NNat
<1>3. head # Nil => head \in InList
  BY <1>1, <1>2, ListPlaces DEF ListInv
<1>4. ASSUME NEW t \in InList
      PROVE  head # Nil /\ long[head] <= long[t] /\ Waits(head) <= Waits(t)
  <2>1. PICK n \in 0..N : n < N /\ Node[n] = t
    BY ListPlaces DEF ListInv
  <2>2. t # Nil /\ t \in Timers
    BY XTimerAssumption DEF InList
  <2>3. CASE n = 0
    <3>1. t = head
      BY <1>1, <2>1, <2>3
    <3>2. long[t] \in Nat /\ Waits(t) \in Int
      BY <2>2, Numbers
    <3>3. QED
      BY <2>2, <3>1, <3>2
  <2>4. CASE n > 0
    <3>1. head # Nil /\ NotLater(long, target, head, t)
      BY <1>1, <1>2, <2>1, <2>2, <2>4 DEF ListInv, IsList
    <3>2. head \in InList /\ head \in Timers
      BY <1>3, <3>1 DEF InList
    <3>3. Waits(head) <= Waits(t)
      BY <3>1, <3>2, Ordered
    <3>4. long[head] \in Nat /\ long[t] \in Nat
      BY <2>2, <3>2, Numbers
    <3>5. QED
      BY <3>1, <3>3, <3>4 DEF NotLater
  <2>5. n = 0 \/ n > 0
    BY <2>1, NNat
  <2>6. QED
    BY <2>3, <2>4, <2>5
<1>5. QED
  BY <1>1, <1>3, <1>4

\* The handler runs, and no wrap is pending.
LEMMA Handling ==
    ASSUME TypeOK, Good, isr # Off
    PROVE  "wrap" \notin irqs /\ (WrapOpen <=> isr.pc = "wrap")
  BY DEF Good, WrapInv, WrapOpen

\* No handler runs.
LEMMA Idle ==
    ASSUME isr = Off
    PROVE  isr.pc = "off" /\ (WrapOpen <=> "wrap" \in irqs)
  BY DEF Off, WrapOpen

(* What is left to wait, as the counter shows it while no wrap is pending. *)
LEMMA Remains ==
    ASSUME TypeOK, DueInv, ~WrapOpen, NEW t \in InList
    PROVE  /\ long[t] * Turn \in Nat /\ (long[t] > 0 => long[t] * Turn >= Turn)
           /\ (long[t] = 0 => long[t] * Turn = 0)
           /\ Waits(t) - Clock = long[t] * Turn + target[t] - now
<1>1. t \in Timers
  BY DEF InList
<1>2. long[t] \in Nat /\ target[t] \in Nat /\ turns \in Nat /\ now \in Nat
  BY <1>1, Numbers
<1>3. long[t] * Turn \in Nat /\ turns * Turn \in Nat
      /\ (turns + long[t]) * Turn = turns * Turn + long[t] * Turn
  <2>1. turns \in Int /\ long[t] \in Int
    BY <1>2
  <2>2. (turns + long[t]) * Turn = turns * Turn + long[t] * Turn
    BY <2>1, Multiples, Zenon
  <2>3. long[t] * Turn \in Nat /\ turns * Turn \in Nat
    BY <1>2, Multiples, Zenon
  <2>4. QED
    BY <2>2, <2>3
<1>4. long[t] > 0 => long[t] * Turn >= Turn
  <2>1. \A a, b \in Int : a < b => a * Turn + Turn <= b * Turn
    BY Multiples, Zenon
  <2>2. 0 \in Int /\ long[t] \in Int
    BY <1>2
  <2>3. 0 < long[t] => 0 * Turn + Turn <= long[t] * Turn
    BY <2>1, <2>2, Zenon
  <2>4. 0 * Turn = 0
    BY Constants
  <2>5. QED
    BY <1>2, <1>3, <2>3, <2>4, Constants
<1>5. long[t] = 0 => long[t] * Turn = 0
  BY Constants
<1>6. Waits(t) = (turns + long[t]) * Turn + target[t]
  BY DEF DueInv, ListTurn
<1>7. Clock = turns * Turn + now
  BY DEF Clock
<1>8. Waits(t) - Clock = long[t] * Turn + target[t] - now
  BY <1>2, <1>3, <1>6, <1>7
<1>9. QED
  BY <1>3, <1>4, <1>5, <1>8

(* The handler sees what the first timer has to wait.                      *)
LEMMA TimeLeftIs ==
    ASSUME TypeOK, Good, isr.pc = "fire", head # Nil
    PROVE  TimeLeft = IF Waits(head) < Clock THEN 0 ELSE Waits(head) - Clock
<1>1. ~WrapOpen /\ ~ (now < isr.ref)
  <2>1. ~WrapOpen
    BY Handling DEF Off
  <2>2. isr.ref <= now /\ isr.ref \in 0..Turn - 1 /\ now \in Nat
    BY Numbers DEF Good, IsrInv, TypeOK
  <2>3. QED
    BY <2>1, <2>2, Constants
<1>2. head \in InList /\ head \in Timers
  BY HeadFirst DEF Good, InList
<1>3. Waits(head) - Clock = long[head] * Turn + target[head] - now /\ long[head] * Turn \in Nat
  BY <1>1, <1>2, Remains DEF Good
<1>4. Waits(head) \in Int /\ Clock \in Nat /\ target[head] \in Nat /\ now \in Nat
  BY <1>2, Numbers
<1>5. TimeLeft = IF long[head] * Turn + target[head] < now THEN 0
                 ELSE long[head] * Turn + target[head] - now
  BY <1>1 DEF TimeLeft
<1>6. long[head] * Turn + target[head] < now <=> Waits(head) < Clock
  BY <1>3, <1>4
<1>7. QED
  BY <1>3, <1>5, <1>6

(* While nothing is pending and the handler does not run, every timer has  *)
(* still to wait.                                                          *)
LEMMA IdleWaits ==
    ASSUME TypeOK, Good, irqs = {}, isr = Off, NEW t \in InList
    PROVE  Clock < Waits(t)
<1>1. head # Nil /\ head \in InList /\ head \in Timers /\ Waits(head) <= Waits(t)
  BY HeadFirst DEF Good, InList
<1>2. /\ Waits(head) - Clock = long[head] * Turn + target[head] - now
      /\ long[head] * Turn \in Nat /\ (long[head] > 0 => long[head] * Turn >= Turn)
  BY <1>1, Idle, Remains DEF Good
<1>3. /\ Waits(head) \in Int /\ Waits(t) \in Int /\ Clock \in Nat /\ target[head] \in Nat
      /\ now \in Nat /\ now < Turn /\ long[head] \in Nat
  BY <1>1, Numbers DEF InList
<1>4. long[head] = 0 => target[head] > now
  BY <1>1 DEF Good, MatchInv
<1>5. long[head] * Turn + target[head] - now > 0
  BY <1>2, <1>3, <1>4, Constants
<1>6. QED
  BY <1>1, <1>2, <1>3, <1>5

-----------------------------------------------------------------------------
(* Steps of the counter and of the match handler that leave the list alone *)

LEMMA ListKept ==
    ASSUME ListInv, UNCHANGED timerVars
    PROVE  ListInv' /\ Node' = Node /\ InList' = InList /\ \A t \in Timers : Waits(t)' = Waits(t)
<1>1. Node' = Node
  BY DEF Node, timerVars
<1>2. InList' = InList
  BY DEF InList, timerVars
<1>3. \A t \in Timers : Waits(t)' = Waits(t)
  BY DEF Waits, timerVars
<1>4. QED
  BY <1>1, <1>2, <1>3 DEF ListInv, timerVars

LEMMA TickStep ==
    ASSUME TypeOK, TypeOK', Good, Tick, ~edge'
    PROVE  Good'
<1>0. /\ UNCHANGED <<head, nxt, target, long, setting, due>>
      /\ match' = match /\ isr' = isr /\ panic' = panic /\ early' = early
  BY DEF Tick, timerVars
<1>1. /\ ListInv' /\ InList' = InList /\ \A t \in InList : t \in Timers
      /\ \A t \in Timers : Waits(t)' = Waits(t)
  BY <1>0, ListKept DEF Good, InList, timerVars
<1>2. /\ now \in Nat /\ now < Turn /\ turns \in Nat /\ late \in Nat
      /\ Turn \in Nat /\ Turn > 1 /\ Latency \in Nat /\ Latency < Turn
  BY Numbers, Constants
\* The counter goes on, or wraps.
<1>3. CASE now + 1 < Turn
  <2>1. now' = now + 1 /\ turns' = turns /\ now' # 0
    BY <1>2, <1>3 DEF Tick
  <2>2. /\ "wrap" \in irqs' <=> "wrap" \in irqs
        /\ "match" \in irqs => "match" \in irqs'
        /\ now' = match => "match" \in irqs'
        /\ irqs' = {} => irqs = {}
        /\ WrapOpen' <=> WrapOpen
    BY <1>0, <2>1 DEF Tick, WrapOpen
  <2>3. ListTurn' = ListTurn
    BY <2>1, <2>2 DEF ListTurn
  <2>4. Clock' = Clock + 1
    <3>1. turns * Turn \in Nat
      BY <1>2, Multiples
    <3>2. QED
      BY <1>2, <2>1, <3>1 DEF Clock
  <2>5. ASSUME NEW t \in InList
        PROVE  Clock' - Waits(t) <= late' /\ Clock' - Waits(t) <= Latency
    <3>1. /\ Clock \in Nat /\ Waits(t) \in Int
          /\ Clock - Waits(t) <= late /\ Clock - Waits(t) <= Latency
      BY <1>1, Numbers DEF Good, DueInv
    <3>2. late' \in Nat /\ (late' = 0 \/ late' = late + 1)
      BY <1>2 DEF Tick
    <3>3. CASE irqs = {} /\ isr = Off
      <4>1. Clock < Waits(t)
        BY <3>3, IdleWaits
      <4>2. QED
        BY <1>2, <2>4, <3>1, <3>2, <4>1
    <3>4. CASE Spinning
      <4>1. isr.pc = "fire" /\ head # Nil /\ TimeLeft > 0
        BY <3>4, Constants DEF Spinning
      <4>2. Waits(head) > Clock /\ Waits(head) <= Waits(t) /\ Waits(head) \in Int
        <5>1. head \in Timers /\ Waits(head) <= Waits(t)
          BY <4>1, HeadFirst DEF Good, InList
        <5>2. Waits(head) \in Int
          BY <5>1, Numbers
        <5>3. Waits(head) > Clock
          BY <3>1, <4>1, <5>2, TimeLeftIs
        <5>4. QED
          BY <5>1, <5>2, <5>3
      <4>3. QED
        BY <1>2, <2>4, <3>1, <3>2, <4>2
    <3>5. CASE late < Latency /\ ~ (irqs = {} /\ isr = Off)
      <4>1. late' = late + 1
        BY <3>5 DEF Tick
      <4>2. QED
        BY <1>2, <2>4, <3>1, <3>5, <4>1
    <3>6. QED
      BY <3>3, <3>4, <3>5 DEF Tick
  <2>6. DueInv'
    <3>1. ASSUME NEW t \in InList
          PROVE  target'[t] # 0 /\ Waits(t)' = (ListTurn' + long'[t]) * Turn + target'[t]
      BY <1>0, <1>1, <2>3 DEF Good, DueInv
    <3>2. ASSUME NEW t \in InList
          PROVE  Clock' - Waits(t)' <= late' /\ Clock' - Waits(t)' <= Latency
      BY <1>1, <2>5
    <3>3. QED
      BY <1>1, <3>1, <3>2 DEF DueInv
  <2>7. SetInv'
    <3>1. ASSUME NEW t \in Timers, setting[t] # -1
          PROVE  Waits(t)' < Clock' \/ Waits(t)' = (setting'[t] + long'[t]) * Turn + target'[t]
      <4>1. Waits(t) < Clock \/ Waits(t) = (setting[t] + long[t]) * Turn + target[t]
        BY <3>1 DEF Good, SetInv
      <4>2. Waits(t) \in Int /\ Clock \in Nat
        BY Numbers
      <4>3. QED
        BY <1>0, <1>1, <2>4, <4>1, <4>2
    <3>2. QED
      BY <1>0, <2>1, <2>2, <3>1 DEF Good, SetInv
  <2>8. WrapInv'
    <3>0. "wrap" \in irqs' => isr' = Off
      BY <1>0, <2>2 DEF Good, WrapInv
    <3>1. SUFFICES ASSUME WrapOpen PROVE WrapInv'
      BY <2>2, <3>0 DEF WrapInv
    <3>2. now <= late /\ \A t \in InList : long[t] > 0
      BY <3>1 DEF Good, WrapInv
    <3>p. isr.pc # "fire" /\ ~ (irqs = {} /\ isr = Off)
      <4>1. "wrap" \in irqs => isr = Off
        BY DEF Good, WrapInv
      <4>2. QED
        BY <3>1, <4>1 DEF WrapOpen, Off
    <3>3. late < Latency
      BY <3>p DEF Tick, Spinning
    <3>4. late' = late + 1
      BY <3>p DEF Tick
    <3>5. now' <= late' /\ late' <= Latency
      BY <1>2, <2>1, <3>2, <3>3, <3>4
    <3>6. QED
      BY <1>0, <1>1, <3>0, <3>2, <3>5 DEF WrapInv
  <2>9. IsrInv'
    <3>1. isr.ref \in Nat
      BY Constants DEF TypeOK
    <3>2. QED
      BY <1>0, <1>2, <2>1, <3>1 DEF Good, IsrInv
  <2>10. IdleInv'
    BY <1>0, <2>2 DEF IdleInv, Tick
  <2>11. MatchInv'
    <3>1. SUFFICES ASSUME "wrap" \notin irqs, isr = Off, head # Nil, long[head] = 0,
                          match = target[head], target[head] > now, now' # match
                   PROVE  match' = target'[head'] /\ target'[head'] > now'
      BY <1>0, <2>2 DEF Good, MatchInv
    <3>2. target[head] \in Nat
      <4>1. head \in Timers
        BY <3>1 DEF TypeOK
      <4>2. QED
        BY <4>1, Numbers
    <3>3. QED
      BY <1>0, <1>2, <2>1, <3>1, <3>2
  <2>12. QED
    BY <1>0, <1>1, <2>6, <2>7, <2>8, <2>9, <2>10, <2>11 DEF Good
<1>4. CASE now + 1 = Turn
  <2>1. now' = 0 /\ turns' = turns + 1 /\ "wrap" \in irqs'
    BY <1>2, <1>4 DEF Tick
  <2>2. "match" \notin irqs /\ isr = Off
    BY <2>1 DEF Tick
  \* Two wraps cannot be pending: no interrupt is late for a whole turn.
  <2>3. irqs = {}
    <3>1. SUFFICES ASSUME "wrap" \in irqs PROVE FALSE
      BY <2>2 DEF TypeOK
    <3>2. now <= late
      BY <3>1 DEF Good, WrapInv, WrapOpen
    <3>3. late < Latency
      BY <2>2, <3>1 DEF Tick, Spinning, Off
    <3>4. QED
      BY <1>2, <1>4, <3>2, <3>3
  <2>4. late' = 0
    BY <2>2, <2>3 DEF Tick
  <2>5. ListTurn' = ListTurn
    <3>1. ListTurn' = turns' - 1 /\ ListTurn = turns
      BY <2>1, <2>2, <2>3 DEF ListTurn, WrapOpen, Off
    <3>2. QED
      BY <1>2, <2>1, <3>1
  <2>6. Clock' = Clock + 1
    <3>1. turns * Turn \in Nat /\ (turns + 1) * Turn = turns * Turn + Turn
      BY <1>2, Multiples
    <3>2. Clock' = turns' * Turn + now' /\ Clock = turns * Turn + now
      BY DEF Clock
    <3>3. QED
      BY <1>2, <1>4, <2>1, <3>1, <3>2
  <2>7. DueInv'
    <3>1. ASSUME NEW t \in InList
          PROVE  target'[t] # 0 /\ Waits(t)' = (ListTurn' + long'[t]) * Turn + target'[t]
      BY <1>0, <1>1, <2>5 DEF Good, DueInv
    <3>2. ASSUME NEW t \in InList
          PROVE  Clock' - Waits(t)' <= late' /\ Clock' - Waits(t)' <= Latency
      <4>1. Clock \in Nat /\ Waits(t) \in Int
        BY <1>1, Numbers
      <4>2. Clock < Waits(t)
        BY <2>2, <2>3, IdleWaits
      <4>3. QED
        BY <1>1, <1>2, <2>4, <2>6, <4>1, <4>2
    <3>3. QED
      BY <1>1, <3>1, <3>2 DEF DueInv
  <2>8. SetInv'
    <3>1. ASSUME NEW t \in Timers, setting[t] # -1
          PROVE  /\ setting[t] <= turns' /\ setting[t] < turns'
                 /\ Waits(t)' < Clock' \/ Waits(t)' = (setting'[t] + long'[t]) * Turn + target'[t]
      <4>1. /\ setting[t] <= turns /\ setting[t] \in Int
            /\ Waits(t) < Clock \/ Waits(t) = (setting[t] + long[t]) * Turn + target[t]
        BY <3>1, Numbers DEF Good, SetInv
      <4>2. Waits(t) \in Int /\ Clock \in Nat
        BY Numbers
      <4>3. Waits(t)' < Clock' \/ Waits(t)' = (setting'[t] + long'[t]) * Turn + target'[t]
        BY <1>0, <1>1, <2>6, <4>1, <4>2
      <4>4. QED
        BY <1>2, <2>1, <4>1, <4>3
    <3>2. QED
      BY <1>0, <1>1, <3>1 DEF Good, SetInv
  <2>9. WrapInv'
    <3>1. ASSUME NEW t \in InList PROVE long[t] > 0
      <4>1. head # Nil /\ head \in Timers /\ long[head] <= long[t]
        BY HeadFirst DEF Good, InList
      <4>2. long[head] # 0
        <5>1. ~ (target[head] > now)
          BY <1>2, <1>4, <4>1, Numbers
        <5>2. QED
          BY <2>2, <2>3, <4>1, <5>1 DEF Good, MatchInv
      <4>3. long[head] \in Nat /\ long[t] \in Nat
        BY <1>1, <4>1, Numbers
      <4>4. QED
        BY <4>1, <4>2, <4>3
    <3>2. now' <= late' /\ late' <= Latency
      BY <1>2, <2>1, <2>4
    <3>3. QED
      BY <1>0, <1>1, <2>2, <3>1, <3>2 DEF WrapInv
  <2>10. IsrInv' /\ IdleInv' /\ MatchInv'
    BY <1>0, <2>1, <2>2, <2>4 DEF IsrInv, IdleInv, MatchInv, Off
  <2>11. QED
    BY <1>0, <1>1, <2>7, <2>8, <2>9, <2>10 DEF Good
<1>5. QED
  BY <1>2, <1>3, <1>4

(* A step of a handler that changes neither the list nor the counter.      *)
LEMMA QuietStep ==
    ASSUME TypeOK, Good, UNCHANGED timerVars, now' = now, turns' = turns, panic' = panic,
           early' = early, WrapOpen' <=> WrapOpen, "wrap" \in irqs' => isr' = Off,
           late' = late \/ (late' = 0 /\ ~WrapOpen /\ \A t \in InList : Clock <= Waits(t)),
           IsrInv', IdleInv', MatchInv'
    PROVE  Good'
<1>1. /\ ListInv' /\ InList' = InList /\ \A t \in InList : t \in Timers
      /\ \A t \in Timers : Waits(t)' = Waits(t)
  BY ListKept DEF Good, InList
<1>2. ListTurn' = ListTurn /\ Clock' = Clock
  BY DEF ListTurn, Clock
<1>3. SetInv'
  BY <1>1, <1>2 DEF Good, SetInv, timerVars
<1>4. DueInv'
  <2>1. ASSUME NEW t \in InList
        PROVE  target'[t] # 0 /\ Waits(t)' = (ListTurn' + long'[t]) * Turn + target'[t]
    BY <1>1, <1>2 DEF Good, DueInv, timerVars
  <2>2. ASSUME NEW t \in InList
        PROVE  Clock' - Waits(t)' <= late' /\ Clock' - Waits(t)' <= Latency
    <3>1. Clock - Waits(t) <= late /\ Clock - Waits(t) <= Latency
      BY DEF Good, DueInv
    <3>2. Waits(t) \in Int /\ Clock \in Nat /\ Waits(t)' = Waits(t)
      BY <1>1, Numbers
    <3>3. QED
      BY <1>2, <3>1, <3>2
  <2>3. QED
    BY <1>1, <2>1, <2>2 DEF DueInv
<1>5. WrapInv'
  BY <1>1 DEF Good, WrapInv, timerVars
<1>6. QED
  BY <1>1, <1>3, <1>4, <1>5 DEF Good

LEMMA MatchBeginsStep ==
    ASSUME TypeOK, Good, MatchBegins
    PROVE  Good'
<1>1. /\ UNCHANGED timerVars /\ now' = now /\ turns' = turns /\ late' = late
      /\ panic' = panic /\ early' = early /\ isr = Off
      /\ "wrap" \notin irqs /\ "wrap" \notin irqs' /\ isr' = [pc |-> "fire", ref |-> now]
  BY DEF MatchBegins
<1>2. isr' # Off /\ isr'.pc = "fire" /\ isr'.ref <= now'
  <2>1. isr'.pc = "fire" /\ isr'.ref = now /\ Off.pc = "off"
    BY <1>1 DEF Off
  <2>2. now \in Nat
    BY Numbers
  <2>3. QED
    BY <1>1, <2>1, <2>2
<1>3. ~WrapOpen /\ ~WrapOpen'
  BY <1>1, <1>2 DEF WrapOpen, Off
<1>4. IsrInv' /\ IdleInv' /\ MatchInv'
  BY <1>2 DEF IsrInv, IdleInv, MatchInv
<1>5. QED
  BY <1>1, <1>3, <1>4, QuietStep

LEMMA MatchLeavesStep ==
    ASSUME TypeOK, Good, MatchLeaves
    PROVE  Good'
<1>1. /\ UNCHANGED timerVars /\ now' = now /\ turns' = turns /\ late' = late /\ irqs' = irqs
      /\ panic' = panic /\ early' = early /\ isr.pc = "fire" /\ isr' = [isr EXCEPT !.pc = "look"]
  BY DEF MatchLeaves
<1>2. isr'.pc = "look" /\ isr' # Off /\ isr # Off
  BY <1>1 DEF Off, TypeOK
<1>3. "wrap" \notin irqs /\ ~WrapOpen /\ ~WrapOpen'
  BY <1>1, <1>2, Handling DEF WrapOpen
<1>4. IsrInv' /\ IdleInv' /\ MatchInv'
  BY <1>2 DEF IsrInv, IdleInv, MatchInv
<1>5. QED
  BY <1>1, <1>3, <1>4, QuietStep

(* While no wrap is open, a timer that waits for another turn is not due,  *)
(* and no timer is if the first one is not past.                           *)
LEMMA NoneIsPast ==
    ASSUME TypeOK, Good, ~WrapOpen, NEW t \in InList,
           long[head] # 0 \/ ~ (now > target[head])
    PROVE  Clock <= Waits(t)
<1>1. head \in InList /\ head \in Timers /\ t \in Timers /\ Waits(head) <= Waits(t)
  BY HeadFirst DEF Good, InList
<1>2. /\ long[head] * Turn \in Nat /\ (long[head] > 0 => long[head] * Turn >= Turn)
      /\ Waits(head) - Clock = long[head] * Turn + target[head] - now
  BY <1>1, Remains DEF Good
<1>3. /\ long[head] \in Nat /\ target[head] \in Nat /\ now \in Nat /\ now < Turn
      /\ Waits(head) \in Int /\ Waits(t) \in Int /\ Clock \in Nat
  BY <1>1, Numbers
<1>4. long[head] * Turn + target[head] - now >= 0
  BY <1>2, <1>3, Constants
<1>5. QED
  BY <1>1, <1>2, <1>3, <1>4

LEMMA MatchLooksStep ==
    ASSUME TypeOK, Good, MatchLooks
    PROVE  Good'
<1>1. /\ UNCHANGED timerVars /\ now' = now /\ turns' = turns /\ irqs' = irqs /\ match' = match
      /\ panic' = panic /\ early' = early /\ isr.pc = "look" /\ isr # Off
  BY DEF MatchLooks, Off
<1>2. "wrap" \notin irqs /\ ~WrapOpen
  BY <1>1, Handling
<1>3. CASE head # Nil /\ long[head] = 0
  <2>1. isr' = [pc |-> IF now > target[head] THEN "fire" ELSE "program", ref |-> now] /\ late' = late
    BY <1>3 DEF MatchLooks
  <2>2. isr'.pc \in {"fire", "program"} /\ isr'.ref = now /\ now \in Nat
    BY <2>1, Numbers
  <2>3. isr' # Off /\ ~WrapOpen'
    BY <1>1, <1>2, <2>2 DEF WrapOpen, Off
  <2>4. IsrInv' /\ IdleInv' /\ MatchInv'
    BY <1>1, <2>2, <2>3 DEF IsrInv, IdleInv, MatchInv
  <2>5. QED
    BY <1>1, <1>2, <2>1, <2>3, <2>4, QuietStep
<1>4. CASE ~ (head # Nil /\ long[head] = 0)
  <2>1. isr' = Off /\ isr'.pc = "off" /\ late' = 0
    BY <1>4, EndsType DEF MatchLooks
  <2>2. ASSUME NEW t \in InList PROVE Clock <= Waits(t)
    <3>1. head # Nil
      BY HeadFirst DEF Good
    <3>2. QED
      BY <1>2, <1>4, <3>1, NoneIsPast
  <2>3. ~WrapOpen'
    BY <1>1, <1>2, <2>1 DEF WrapOpen
  <2>4. IsrInv' /\ IdleInv' /\ MatchInv'
    BY <1>1, <1>4, <2>1 DEF IsrInv, IdleInv, MatchInv, timerVars
  <2>5. QED
    BY <1>1, <1>2, <2>1, <2>2, <2>3, <2>4, QuietStep
<1>5. QED
  BY <1>3, <1>4

LEMMA WrapBeginsStep ==
    ASSUME TypeOK, Good, WrapBegins
    PROVE  Good'
<1>1. /\ UNCHANGED timerVars /\ now' = now /\ turns' = turns /\ late' = late
      /\ panic' = panic /\ early' = early /\ "wrap" \in irqs /\ irqs' = irqs \ {"wrap"}
      /\ isr' = [Off EXCEPT !.pc = "wrap"]
  BY DEF WrapBegins
<1>2. isr'.pc = "wrap" /\ isr' # Off
  BY <1>1 DEF Off
<1>3. WrapOpen /\ WrapOpen' /\ "wrap" \notin irqs'
  BY <1>1, <1>2 DEF WrapOpen
<1>4. IsrInv' /\ IdleInv' /\ MatchInv'
  BY <1>2 DEF IsrInv, IdleInv, MatchInv
<1>5. QED
  BY <1>1, <1>3, <1>4, QuietStep

LEMMA ProgramStep ==
    ASSUME TypeOK, Good, Program, ~edge'
    PROVE  Good'
<1>1. /\ UNCHANGED timerVars /\ now' = now /\ turns' = turns
      /\ panic' = panic /\ early' = early /\ isr.pc = "program" /\ isr # Off
      /\ ProgramMatch(target[head]) /\ Ends /\ ~ (now > target[head])
  <2>1. /\ UNCHANGED timerVars /\ now' = now /\ turns' = turns
        /\ panic' = panic /\ early' = early /\ isr.pc = "program"
        /\ ProgramMatch(target[head]) /\ Ends
    BY DEF Program
  <2>2. ~ (now > target[head])
    BY DEF Program
  <2>3. isr # Off
    BY <2>1 DEF Off
  <2>4. QED
    BY <2>1, <2>2, <2>3
<1>2. "wrap" \notin irqs /\ ~WrapOpen
  BY <1>1, Handling
<1>3. match' = target[head] /\ irqs' = IF target[head] = now THEN irqs \cup {"match"} ELSE irqs
  BY <1>1 DEF ProgramMatch
<1>4. isr' = Off /\ isr'.pc = "off" /\ late' = 0
  BY <1>1, EndsType
<1>5. "wrap" \notin irqs' /\ ~WrapOpen'
  BY <1>2, <1>3, <1>4 DEF WrapOpen
<1>6. \A t \in InList : Clock <= Waits(t)
  BY <1>1, <1>2, NoneIsPast
<1>7. MatchInv'
  <2>1. head \in Timers
    BY <1>1 DEF TypeOK
  <2>2. target[head] \in Nat /\ now \in Nat
    BY <2>1, Numbers
  <2>3. target[head] = now \/ target[head] > now
    BY <1>1, <2>2
  <2>4. QED
    BY <1>1, <1>3, <2>3 DEF MatchInv, timerVars
<1>8. IsrInv' /\ IdleInv'
  BY <1>4 DEF IsrInv, IdleInv
<1>9. QED
  BY <1>1, <1>2, <1>4, <1>5, <1>6, <1>7, <1>8, QuietStep

-----------------------------------------------------------------------------
(* Steps that take a timer off the list                                    *)

\* A chain along the new links is the new list.
LEMMA NodeNext ==
    ASSUME TypeOK', NEW f, IsChain(f, head', nxt')
    PROVE  Node' = f
<1>1. ListChain'
  BY TypeChain, PTL
<1>2. IsChain(Node', head', nxt')
  BY <1>1 DEF ListChain
<1>3. QED
  BY <1>2, ChainUnique

(* Behind the first timer is the list of the others.                       *)
LEMMA BehindHead ==
    ASSUME TypeOK, ListInv, head # Nil
    PROVE  \E f : IsChain(f, nxt[head], nxt) /\ IsList(f, InList \ {head}, long, target)
<1> DEFINE f == [n \in 0..N |-> IF n + 1 <= N THEN Node[n + 1] ELSE Nil]
<1>1. IsChain(Node, head, nxt) /\ Node[0] = head
  BY TypeChain DEF ListChain, IsChain
<1>2. Node[N] = Nil /\ IsList(Node, InList, long, target)
  BY DEF ListInv, IsList
<1>3. 1 \in 0..N /\ 1 \in 1..N
  <2>1. N # 0
    BY <1>1, <1>2
  <2>2. QED
    BY <2>1, NNat
<1>4. Node[1] = nxt[head]
  BY <1>1, <1>3 DEF IsChain
<1>5. IsChain(f, nxt[head], nxt)
  BY <1>1, <1>2, <1>3, <1>4, DropChain
<1>6. IsList(f, InList \ {Node[n] : n \in 0..1 - 1}, long, target)
  BY <1>2, <1>3, DropList
<1>7. {Node[n] : n \in 0..1 - 1} = {head}
  BY <1>1
<1> HIDE DEF f
<1>8. QED
  BY <1>5, <1>6, <1>7

(* A handler shoots the first timer, which is due, and leaves it behind.   *)
LEMMA ShootStep ==
    ASSUME TypeOK, TypeOK', Good, isr # Off, head # Nil, ShootFirst, ~ (Clock < Waits(head)),
           now' = now, turns' = turns, nxt' = nxt, setting' = setting, UNCHANGED hwVars,
           panic' = panic, \A t \in Timers : t # head => long'[t] = long[t]
    PROVE  Good'
<1>1. head' = nxt[head] /\ match' = match /\ irqs' = irqs /\ isr' = isr /\ late' = late
  BY DEF ShootFirst, hwVars
<1>2. /\ due' = [due EXCEPT ![head] = 0] /\ target' = [target EXCEPT ![head] = 0]
      /\ early' = (early \/ Clock < due[head] - Overhead)
  BY DEF ShootFirst
<1>3. head \in InList /\ head \in Timers
  BY HeadFirst DEF Good, InList
<1>4. early' = FALSE
  BY <1>2 DEF Good, Waits
<1>p. \A t \in Timers : t # head => /\ due'[t] = due[t] /\ target'[t] = target[t]
                                    /\ long'[t] = long[t] /\ Waits(t)' = Waits(t)
  BY <1>2 DEF TypeOK, Waits
<1>q. due'[head] = 0
  BY <1>2, <1>3 DEF TypeOK
<1>5. InList' = InList \ {head}
  BY <1>3, <1>p, <1>q DEF InList
<1>6. ListInv'
  <2>1. PICK f : IsChain(f, nxt[head], nxt) /\ IsList(f, InList \ {head}, long, target)
    BY BehindHead DEF Good
  <2>2. Node' = f
    BY <1>1, <2>1, NodeNext
  <2>3. \A t, u \in InList \ {head} :
            NotLater(long, target, t, u) => NotLater(long', target', t, u)
    BY <1>p DEF NotLater, InList
  <2>4. IsList(f, InList \ {head}, long', target')
    BY <2>1, <2>3, ListRelabel
  <2>5. QED
    BY <1>5, <2>2, <2>4 DEF ListInv
<1>7. WrapOpen' = WrapOpen /\ ListTurn' = ListTurn /\ Clock' = Clock
  BY <1>1 DEF WrapOpen, ListTurn, Clock
<1>8. \A t \in InList' : t \in InList /\ t \in Timers /\ t # head
  BY <1>5 DEF InList
<1>9. DueInv'
  BY <1>1, <1>7, <1>8, <1>p DEF Good, DueInv
<1>10. SetInv'
  <2>1. \A t \in Timers : setting[t] # -1 => t # head
    BY <1>3 DEF InList
  <2>2. QED
    BY <1>7, <1>p, <2>1 DEF Good, SetInv
<1>11. WrapInv'
  BY <1>1, <1>7, <1>8, <1>p DEF Good, WrapInv
<1>12. IsrInv' /\ IdleInv' /\ MatchInv'
  BY <1>1 DEF Good, IsrInv, IdleInv, MatchInv
<1>13. QED
  BY <1>4, <1>6, <1>9, <1>10, <1>11, <1>12 DEF Good

LEMMA MatchShootsStep ==
    ASSUME TypeOK, TypeOK', Good, MatchShoots
    PROVE  Good'
<1>1. isr.pc = "fire" /\ isr # Off /\ head # Nil /\ TimeLeft = 0 /\ long' = long
  BY DEF MatchShoots, Off
<1>2. ~ (Clock < Waits(head))
  <2>1. head \in Timers
    BY <1>1 DEF TypeOK
  <2>2. Waits(head) \in Int /\ Clock \in Nat
    BY <2>1, Numbers
  <2>3. QED
    BY <1>1, <2>2, TimeLeftIs
<1>3. QED
  BY <1>1, <1>2, ShootStep DEF MatchShoots

\* Those that the wrap handler shoots were due in the turn that has begun.
LEMMA WrapShootsStep ==
    ASSUME TypeOK, TypeOK', Good, WrapShoots
    PROVE  Good'
<1>1. /\ isr.pc = "wrap" /\ isr # Off /\ WrapOpen
      /\ head # Nil /\ long[head] = 1 /\ now > target[head]
      /\ long' = [long EXCEPT ![head] = 0]
  BY DEF WrapShoots, FirstIsPast, WrapOpen, Off
<1>2. head \in InList /\ head \in Timers
  BY <1>1, HeadFirst DEF Good, InList
<1>3. ~ (Clock < Waits(head))
  <2>1. turns \in Nat /\ now \in Nat /\ target[head] \in Nat
    BY <1>2, Numbers
  <2>2. turns * Turn \in Nat /\ ListTurn + 1 = turns
    <3>1. turns * Turn \in Nat
      BY <2>1, Multiples
    <3>2. ListTurn = turns - 1
      BY <1>1 DEF ListTurn
    <3>3. QED
      BY <2>1, <3>1, <3>2
  <2>3. Waits(head) = turns * Turn + target[head]
    BY <1>1, <1>2, <2>2 DEF Good, DueInv
  <2>4. QED
    BY <1>1, <2>1, <2>2, <2>3 DEF Clock
<1>4. \A t \in Timers : t # head => long'[t] = long[t]
  BY <1>1 DEF TypeOK
<1>5. QED
  BY <1>1, <1>3, <1>4, ShootStep DEF WrapShoots

(* The match register is right for the first timer after a value has been  *)
(* given to it, and no timer is overdue when a thread runs.                *)
LEMMA Programmed ==
    ASSUME TypeOK, Good, isr = Off, irqs = {}, NEW t \in InList, ProgramMatch(target[t])
    PROVE  /\ irqs' \subseteq {"match"}
           /\ long[t] = 0 => "match" \in irqs' \/ (match' = target[t] /\ target[t] > now)
<1>1. match' = target[t] /\ irqs' = IF target[t] = now THEN {"match"} ELSE {}
  BY DEF ProgramMatch
<1>2. ASSUME long[t] = 0 PROVE target[t] > now
  <2>1. Waits(t) - Clock = long[t] * Turn + target[t] - now /\ long[t] * Turn = 0
    BY <1>2, Idle, Remains DEF Good
  <2>2. Clock < Waits(t)
    BY IdleWaits
  <2>3. Waits(t) \in Int /\ Clock \in Nat /\ target[t] \in Nat /\ now \in Nat
    BY Numbers DEF InList
  <2>4. QED
    BY <2>1, <2>2, <2>3
<1>3. QED
  BY <1>1, <1>2

LEMMA TakeOutStep ==
    ASSUME TypeOK, Good, isr = Off, irqs = {}, NEW t \in Timers, TakeOut(t)
    PROVE  /\ \E f : IsChain(f, head', nxt') /\ IsList(f, InList \ {t}, long, target)
           /\ irqs' \subseteq {"match"}
           /\ head' # Nil /\ long[head'] = 0 =>
                  "match" \in irqs' \/ (match' = target[head'] /\ target[head'] > now)
<1>1. IsChain(Node, head, nxt) /\ IsList(Node, InList, long, target)
  BY TypeChain DEF ListChain, Good, ListInv
<1>2. Node[0] = head /\ (head # Nil => head \in InList)
  BY HeadFirst DEF Good
<1>3. Listed = InList
  BY <1>1 DEF Listed, IsList, N
<1>4. /\ head' = IF head = t THEN nxt[t] ELSE head
      /\ nxt' = [x \in Timers |-> IF nxt[x] = t /\ x \in Listed /\ head # t THEN nxt[t] ELSE nxt[x]]
  BY DEF TakeOut
<1>5. t # Nil
  BY Constants
<1>6. CASE head = t
  <2>1. head' = nxt[head]
    BY <1>4, <1>6
  <2>2. nxt' = nxt
    BY <1>4, <1>6 DEF TypeOK
  <2>3. PICK f : IsChain(f, nxt[head], nxt) /\ IsList(f, InList \ {head}, long, target)
    BY <1>5, <1>6, BehindHead DEF Good
  <2>4. CASE head' # Nil
    <3>1. head' \in InList
      <4>1. f[0] = head' /\ 0 \in 0..N
        BY <2>1, <2>3, NNat DEF IsChain
      <4>2. head' \in InList \ {head}
        BY <2>3, <2>4, <4>1, ListPlaces
      <4>3. QED
        BY <4>2
    <3>2. ProgramMatch(target[nxt[t]])
      BY <1>4, <1>6, <2>4 DEF TakeOut
    <3>3. nxt[t] \in InList /\ nxt[t] = head'
      BY <1>4, <1>6, <3>1
    <3>4. /\ irqs' \subseteq {"match"}
          /\ long[nxt[t]] = 0 => "match" \in irqs' \/ (match' = target[nxt[t]] /\ target[nxt[t]] > now)
      BY <3>2, <3>3, Programmed
    <3>5. QED
      BY <1>6, <2>1, <2>2, <2>3, <3>3, <3>4
  <2>5. CASE head' = Nil
    <3>1. irqs' = irqs
      BY <1>4, <1>6, <2>5 DEF TakeOut
    <3>2. QED
      BY <1>6, <2>1, <2>2, <2>3, <2>5, <3>1
  <2>6. QED
    BY <2>4, <2>5
<1>7. CASE head # t
  <2>1. head' = head /\ match' = match /\ irqs' = irqs
    BY <1>7 DEF TakeOut
  <2>2. head # Nil /\ long[head] = 0 => match = target[head] /\ target[head] > now
    BY DEF Good, MatchInv
  <2>3. nxt' = [x \in Timers |-> IF nxt[x] = t /\ x \in InList THEN nxt[t] ELSE nxt[x]]
    BY <1>3, <1>4, <1>7
  <2>4. CASE t \in InList
    <3>1. PICK p \in 0..N : p < N /\ Node[p] = t
      BY <1>1, <2>4, ListPlaces
    <3>2. p \in 1..N
      <4>1. p # 0
        BY <1>2, <1>7, <3>1
      <4>2. QED
        BY <4>1, NNat
    <3>3. nxt' = [x \in Timers |-> IF nxt[x] = Node[p] /\ x \in InList THEN nxt[Node[p]] ELSE nxt[x]]
      BY <2>3, <3>1
    <3>4. Node[p] # Nil
      BY <1>5, <3>1
    <3>5. IsChain([n \in 0..N |-> IF n < p THEN Node[n] ELSE IF n < N THEN Node[n + 1] ELSE Nil],
                  head, nxt')
      BY <1>1, <3>2, <3>3, <3>4, OutChain
    <3>6. IsList([n \in 0..N |-> IF n < p THEN Node[n] ELSE IF n < N THEN Node[n + 1] ELSE Nil],
                 InList \ {Node[p]}, long, target)
      BY <1>1, <3>4, OutList
    <3>7. QED
      BY <2>1, <2>2, <3>1, <3>5, <3>6
  <2>5. CASE t \notin InList
    <3>1. ASSUME NEW x \in InList PROVE nxt[x] # t
      <4>1. PICK n \in 0..N : n < N /\ Node[n] = x
        BY <1>1, ListPlaces
      <4>2. n + 1 \in 1..N /\ (n + 1) - 1 = n /\ n + 1 \in 0..N
        BY <4>1, NNat
      <4>3. x # Nil
        BY Constants DEF InList
      <4>4. Node[n + 1] = nxt[x]
        BY <1>1, <4>1, <4>2, <4>3 DEF IsChain
      <4>5. nxt[x] # Nil => nxt[x] \in InList
        BY <1>1, <4>2, <4>4, ListPlaces
      <4>6. QED
        BY <1>5, <2>5, <4>5
    <3>2. nxt' = nxt
      BY <2>3, <3>1 DEF TypeOK
    <3>3. InList \ {t} = InList
      BY <2>5
    <3>4. IsChain(Node, head', nxt') /\ IsList(Node, InList \ {t}, long, target)
      BY <1>1, <2>1, <3>2, <3>3
    <3>5. QED
      BY <2>1, <2>2, <3>4
  <2>6. QED
    BY <2>4, <2>5
<1>8. QED
  BY <1>6, <1>7

(* A step of a thread that changes one timer only, which is not in the     *)
(* list when it is done.                                                   *)
LEMMA ThreadStep ==
    ASSUME TypeOK, TypeOK', Good, isr = Off, irqs = {}, NEW t \in Timers,
           now' = now, turns' = turns, isr' = isr, late' = late, panic' = panic, early' = early,
           irqs' \subseteq {"match"},
           \E f : IsChain(f, head', nxt') /\ IsList(f, InList \ {t}, long, target),
           \A u \in Timers : u # t => /\ due'[u] = due[u] /\ target'[u] = target[u]
                                      /\ long'[u] = long[u] /\ setting'[u] = setting[u],
           due'[t] = 0 \/ setting'[t] # -1,
           setting'[t] # -1 =>
               /\ setting'[t] = turns /\ due'[t] # 0
               /\ \/ due'[t] - Overhead < Clock
                  \/ due'[t] - Overhead = (turns + long'[t]) * Turn + target'[t],
           head' # Nil /\ long[head'] = 0 =>
               "match" \in irqs' \/ (match' = target[head'] /\ target[head'] > now)
    PROVE  Good'
<1>1. InList' = InList \ {t}
  BY DEF InList
<1>2. PICK f : IsChain(f, head', nxt') /\ IsList(f, InList \ {t}, long, target)
  OBVIOUS
<1>3. Node' = f
  BY <1>2, NodeNext
<1>4. \A u \in InList \ {t} : u \in Timers /\ u # t
  BY DEF InList
<1>5. ListInv'
  <2>1. \A u, v \in InList \ {t} : NotLater(long, target, u, v) => NotLater(long', target', u, v)
    BY <1>4 DEF NotLater
  <2>2. IsList(f, InList \ {t}, long', target')
    BY <1>2, <2>1, ListRelabel
  <2>3. QED
    BY <1>1, <1>3, <2>2 DEF ListInv
<1>6. ListTurn' = ListTurn /\ Clock' = Clock /\ ~WrapOpen'
  BY DEF ListTurn, WrapOpen, Clock, Off
<1>7. \A u \in InList \ {t} : Waits(u)' = Waits(u)
  BY <1>4 DEF Waits
<1>8. DueInv'
  BY <1>1, <1>4, <1>6, <1>7 DEF Good, DueInv
<1>9. SetInv'
  <2>1. ASSUME NEW u \in Timers, u # t, setting'[u] # -1
        PROVE  /\ setting'[u] <= turns' /\ due'[u] # 0
               /\ Waits(u)' < Clock' \/ Waits(u)' = (setting'[u] + long'[u]) * Turn + target'[u]
    <3>1. Waits(u)' = Waits(u)
      BY <2>1 DEF Waits
    <3>2. QED
      BY <1>6, <2>1, <3>1 DEF Good, SetInv
  <2>2. ASSUME setting'[t] # -1
        PROVE  /\ setting'[t] <= turns' /\ due'[t] # 0
               /\ Waits(t)' < Clock' \/ Waits(t)' = (setting'[t] + long'[t]) * Turn + target'[t]
    <3>1. turns \in Nat
      BY Numbers
    <3>2. Waits(t)' = due'[t] - Overhead
      BY DEF Waits
    <3>3. QED
      BY <1>6, <2>2, <3>1, <3>2
  <2>3. QED
    BY <1>6, <2>1, <2>2 DEF SetInv
<1>10. WrapInv' /\ IsrInv'
  BY <1>6 DEF WrapInv, IsrInv, Off
<1>11. IdleInv'
  <2>1. late = 0
    BY DEF Good, IdleInv
  <2>2. QED
    BY <2>1 DEF IdleInv
<1>12. MatchInv'
  <2>1. SUFFICES ASSUME head' # Nil, long'[head'] = 0
                 PROVE  "match" \in irqs' \/ (match' = target'[head'] /\ target'[head'] > now)
    BY DEF MatchInv
  <2>2. head' \in InList \ {t}
    <3>1. f[0] = head' /\ 0 \in 0..N
      BY <1>2, NNat DEF IsChain
    <3>2. QED
      BY <1>2, <2>1, <3>1, ListPlaces
  <2>3. QED
    BY <1>4, <2>1, <2>2
<1>13. QED
  BY <1>5, <1>8, <1>9, <1>10, <1>11, <1>12 DEF Good

(* The time that is computed is the time that was asked for, unless that   *)
(* is shorter than the overhead.                                           *)
LEMMA ComputeIs ==
    ASSUME TypeOK, TypeOK', NEW t \in Timers, NEW o \in Offsets, NEW more \in Nat, NEW wait,
           Compute(t, o, more, wait),
           Ticks(o) + more * Turn < 0 \/ wait = Ticks(o) \div Turn + more
    PROVE  /\ setting[t] = -1 /\ setting'[t] = turns /\ setting'[t] # -1 /\ due'[t] # 0
           /\ \/ due'[t] - Overhead < Clock
              \/ due'[t] - Overhead = (turns + long'[t]) * Turn + target'[t]
           /\ \A u \in Timers : u # t => /\ due'[u] = due[u] /\ target'[u] = target[u]
                                         /\ long'[u] = long[u] /\ setting'[u] = setting[u]
<1>1. /\ setting[t] = -1 /\ setting'[t] = turns /\ due'[t] = Clock + o + more * Turn
      /\ target'[t] = Ticks(o) % Turn /\ long'[t] = wait
      /\ \A u \in Timers : u # t => /\ due'[u] = due[u] /\ target'[u] = target[u]
                                    /\ long'[u] = long[u] /\ setting'[u] = setting[u]
  BY DEF Compute, TypeOK
<1>2. /\ turns \in Nat /\ now \in Nat /\ o \in Nat /\ Overhead \in Nat /\ Turn \in Nat
      /\ Ticks(o) = now + o - Overhead
  BY Numbers, Constants DEF Ticks
<1>3. turns * Turn \in Nat /\ more * Turn \in Nat /\ Clock = turns * Turn + now
  BY <1>2, Multiples DEF Clock
<1>4. due'[t] # 0
  <2>1. Clock > 0
    <3>1. CASE turns = 0
      BY <1>2, <1>3, <3>1 DEF TypeOK
    <3>2. CASE turns # 0
      <4>1. 0 \in Int /\ turns \in Int /\ 0 < turns
        BY <1>2, <3>2
      <4>2. 0 * Turn + Turn <= turns * Turn
        BY <4>1, Multiples, Zenon
      <4>3. QED
        BY <1>2, <1>3, <4>2, Constants
    <3>3. QED
      BY <3>1, <3>2
  <2>2. QED
    BY <1>1, <1>2, <1>3, <2>1
<1>5. due'[t] - Overhead = turns * Turn + more * Turn + Ticks(o)
  BY <1>1, <1>2, <1>3
<1>s. setting'[t] # -1
  BY <1>1, <1>2
<1>n. CASE Ticks(o) + more * Turn < 0
  <2>1. due'[t] - Overhead < Clock
    BY <1>2, <1>3, <1>5, <1>n
  <2>2. QED
    BY <1>1, <1>4, <1>s, <2>1
<1>w. ASSUME ~ (Ticks(o) + more * Turn < 0)
      PROVE  due'[t] - Overhead = (turns + long'[t]) * Turn + target'[t]
  <2>0. long'[t] = Ticks(o) \div Turn + more
    BY <1>1, <1>w
  <2>1. PICK k \in -1..1 : Ticks(o) \div Turn = k /\ Ticks(o) % Turn = Ticks(o) - k * Turn
    <3>1. CASE Ticks(o) < 0
      <4>1. Ticks(o) \div Turn = -1 /\ Ticks(o) % Turn = Ticks(o) + Turn
        BY <3>1, TicksType DEF TypeOK
      <4>2. Ticks(o) + Turn = Ticks(o) - (-1) * Turn /\ -1 \in -1..1
        BY <1>2
      <4>3. QED
        BY <4>1, <4>2
    <3>2. CASE Ticks(o) \in 0..Turn - 1
      <4>1. Ticks(o) \div Turn = 0 /\ Ticks(o) % Turn = Ticks(o)
        BY <3>2, TicksType DEF TypeOK
      <4>2. Ticks(o) = Ticks(o) - 0 * Turn /\ 0 \in -1..1
        BY <1>2
      <4>3. QED
        BY <4>1, <4>2
    <3>3. CASE Ticks(o) >= Turn
      <4>1. Ticks(o) \div Turn = 1 /\ Ticks(o) % Turn = Ticks(o) - Turn
        BY <3>3, TicksType DEF TypeOK
      <4>2. Ticks(o) - Turn = Ticks(o) - 1 * Turn /\ 1 \in -1..1
        BY <1>2
      <4>3. QED
        BY <4>1, <4>2
    <3>4. QED
      BY <1>2, <3>1, <3>2, <3>3
  <2>2. (turns + (k + more)) * Turn = turns * Turn + k * Turn + more * Turn
    BY <1>2
  <2>3. k * Turn \in Int
    BY <1>2
  <2>4. long'[t] = k + more /\ target'[t] = Ticks(o) - k * Turn
    BY <1>1, <2>0, <2>1
  <2>5. (turns + long'[t]) * Turn = turns * Turn + k * Turn + more * Turn
    BY <2>2, <2>4
  <2>6. QED
    BY <1>2, <1>3, <1>5, <2>3, <2>4, <2>5
<1>9. QED
  BY <1>1, <1>4, <1>s, <1>n, <1>w

\* The list without a timer that is not in it.
LEMMA NotListed ==
    ASSUME TypeOK, Good, isr = Off, irqs = {}, NEW t \in Timers, t \notin InList,
           UNCHANGED <<head, nxt, match, irqs>>
    PROVE  /\ \E f : IsChain(f, head', nxt') /\ IsList(f, InList \ {t}, long, target)
           /\ irqs' \subseteq {"match"}
           /\ head' # Nil /\ long[head'] = 0 =>
                  "match" \in irqs' \/ (match' = target[head'] /\ target[head'] > now)
<1>1. IsChain(Node, head', nxt')
  BY TypeChain DEF ListChain
<1>2. InList \ {t} = InList
  OBVIOUS
<1>3. IsList(Node, InList \ {t}, long, target)
  BY <1>2 DEF Good, ListInv
<1>4. QED
  BY <1>1, <1>3 DEF Good, MatchInv

LEMMA SetStep ==
    ASSUME TypeOK, TypeOK', Good, NEW t \in Timers, NEW o \in Offsets, Set(t, o)
    PROVE  Good'
<1>1. /\ isr = Off /\ irqs = {} /\ now' = now /\ turns' = turns /\ isr' = isr
      /\ late' = late /\ panic' = panic /\ early' = early
  BY DEF Set, ThreadRuns
<1>2. /\ \E f : IsChain(f, head', nxt') /\ IsList(f, InList \ {t}, long, target)
      /\ irqs' \subseteq {"match"}
      /\ head' # Nil /\ long[head'] = 0 =>
             "match" \in irqs' \/ (match' = target[head'] /\ target[head'] > now)
  <2>1. CASE target[t] # 0
    <3>1. TakeOut(t)
      BY <2>1 DEF Set
    <3>2. QED
      BY <1>1, <3>1, TakeOutStep
  <2>2. CASE target[t] = 0
    <3>1. t \notin InList
      BY <2>2 DEF Good, DueInv
    <3>2. UNCHANGED <<head, nxt, match, irqs>>
      BY <2>2 DEF Set
    <3>3. QED
      BY <1>1, <3>1, <3>2, NotListed
  <2>3. QED
    BY <2>1, <2>2
<1>3. CASE o < Backoff
  <2>1. /\ due' = [due EXCEPT ![t] = 0] /\ setting[t] = -1
        /\ target' = target /\ long' = long /\ setting' = setting
    BY <1>3 DEF Set
  <2>2. \A u \in Timers : u # t => /\ due'[u] = due[u] /\ target'[u] = target[u]
                                   /\ long'[u] = long[u] /\ setting'[u] = setting[u]
    BY <2>1 DEF TypeOK
  <2>3. due'[t] = 0 /\ setting'[t] = -1
    BY <2>1 DEF TypeOK
  <2>4. QED
    BY <1>1, <1>2, <2>2, <2>3, ThreadStep
<1>4. CASE ~ (o < Backoff)
  <2>1. Compute(t, o, 0, Ticks(o) \div Turn)
    BY <1>4 DEF Set
  <2>2. Ticks(o) \div Turn = Ticks(o) \div Turn + 0 /\ 0 \in Nat
    BY TicksType, Constants DEF TypeOK
  <2>3. /\ setting'[t] = turns /\ setting'[t] # -1 /\ due'[t] # 0
        /\ \/ due'[t] - Overhead < Clock
           \/ due'[t] - Overhead = (turns + long'[t]) * Turn + target'[t]
        /\ \A u \in Timers : u # t => /\ due'[u] = due[u] /\ target'[u] = target[u]
                                      /\ long'[u] = long[u] /\ setting'[u] = setting[u]
    BY <2>1, <2>2, ComputeIs
  <2>4. QED
    BY <1>1, <1>2, <2>3, ThreadStep
<1>5. QED
  BY <1>3, <1>4

LEMMA SleepStep ==
    ASSUME TypeOK, TypeOK', Good, NEW t \in Timers, NEW o \in Offsets, NEW more \in Turns,
           Sleep(t, o, more)
    PROVE  Good'
<1>1. /\ isr = Off /\ irqs = {} /\ now' = now /\ turns' = turns /\ isr' = isr
      /\ late' = late /\ panic' = panic /\ early' = early
      /\ UNCHANGED <<head, nxt, match, irqs>> /\ due[t] = 0
  BY DEF Sleep, ThreadRuns
<1>2. t \notin InList
  BY <1>1 DEF InList
<1>3. more \in Nat /\ Compute(t, o, more, (Ticks(o) \div Turn + more) % Turn)
  BY Constants DEF Sleep
<1>w. \/ Ticks(o) + more * Turn < 0
      \/ (Ticks(o) \div Turn + more) % Turn = Ticks(o) \div Turn + more
  <2>1. /\ Ticks(o) \div Turn \in -1..1 /\ Ticks(o) \in Int /\ Turn \in Nat /\ Turn > 1
        /\ Ticks(o) < 0 \/ Ticks(o) \div Turn # -1
        /\ more < Turn - 1
    BY TicksType, Constants DEF TypeOK
  <2>2. SUFFICES ASSUME ~ (Ticks(o) + more * Turn < 0)
                 PROVE  Ticks(o) \div Turn + more \in 0..Turn - 1
    <3>1. \A a \in 0..Turn - 1 : a % Turn = a
      BY <2>1
    <3>2. QED
      BY <3>1
  <2>3. CASE more = 0
    <3>1. more * Turn = 0
      BY <2>1, <2>3
    <3>2. ~ (Ticks(o) < 0)
      BY <2>1, <2>2, <3>1
    <3>3. QED
      BY <2>1, <2>3, <3>2
  <2>4. CASE more # 0
    BY <1>3, <2>1, <2>4
  <2>5. QED
    BY <2>3, <2>4
<1>4. /\ setting'[t] = turns /\ setting'[t] # -1 /\ due'[t] # 0
      /\ \/ due'[t] - Overhead < Clock
         \/ due'[t] - Overhead = (turns + long'[t]) * Turn + target'[t]
      /\ \A u \in Timers : u # t => /\ due'[u] = due[u] /\ target'[u] = target[u]
                                    /\ long'[u] = long[u] /\ setting'[u] = setting[u]
  BY <1>3, <1>w, ComputeIs
<1>5. /\ \E f : IsChain(f, head', nxt') /\ IsList(f, InList \ {t}, long, target)
      /\ irqs' \subseteq {"match"}
      /\ head' # Nil /\ long[head'] = 0 =>
             "match" \in irqs' \/ (match' = target[head'] /\ target[head'] > now)
  BY <1>1, <1>2, NotListed
<1>6. QED
  BY <1>1, <1>4, <1>5, ThreadStep

LEMMA SetMsgStep ==
    ASSUME TypeOK, TypeOK', Good, NEW t \in Timers, NEW o \in Offsets, NEW more \in Turns,
           SetMsg(t, o, more), ~edge'
    PROVE  Good'
<1>1. /\ isr = Off /\ irqs = {} /\ now' = now /\ turns' = turns /\ isr' = isr
      /\ late' = late /\ panic' = panic /\ early' = early
      /\ UNCHANGED <<head, nxt, match, irqs>> /\ due[t] = 0
  BY DEF SetMsg, ThreadRuns
<1>2. t \notin InList
  BY <1>1 DEF InList
<1>m. more \in Nat
  BY Constants
<1> DEFINE off == Ticks(o) + more * Turn
\* Without an edge the 64-bit sum is of this turn or of the next one.
<1>3. PICK wait : /\ Compute(t, o, more, wait)
                  /\ off < 0 \/ wait = Ticks(o) \div Turn + more
  <2>1. /\ Ticks(o) \in Int /\ -Turn <= Ticks(o) /\ Ticks(o) < 2 * Turn
        /\ Turn \in Nat /\ Turn > 1 /\ more * Turn \in Nat
        /\ Ticks(o) < 0 => Ticks(o) \div Turn = -1
        /\ Ticks(o) \in 0..Turn - 1 => Ticks(o) \div Turn = 0
        /\ Ticks(o) >= Turn => Ticks(o) \div Turn = 1
    BY <1>m, TicksType, Multiples, Constants DEF TypeOK
  <2>2. more = 0 => more * Turn = 0
    BY <2>1
  <2>3. more = 1 => more * Turn = Turn
    BY <2>1
  <2>4. more = 2 => more * Turn = 2 * Turn
    BY <2>1
  <2>5. more > 2 => more * Turn >= 3 * Turn
    <3>1. \A a, b \in Int : a < b => a * Turn + Turn <= b * Turn
      BY Multiples, Zenon
    <3>2. 2 \in Int /\ more \in Int
      BY <1>m
    <3>3. 2 < more => 2 * Turn + Turn <= more * Turn
      BY <3>1, <3>2, Zenon
    <3>4. QED
      BY <1>m, <2>1, <3>3
  <2>6. off < 2 * Turn
    <3>1. ~ (off >= 2 * Turn)
      BY DEF SetMsg
    <3>2. QED
      BY <2>1, <3>1
  <2>7. CASE off \notin 0..Turn - 1
    <3>1. Compute(t, o, more, 1)
      BY <2>7 DEF SetMsg
    <3>2. off < 0 \/ Ticks(o) \div Turn + more = 1
      <4>1. CASE more = 0
        BY <2>1, <2>2, <2>6, <2>7, <4>1
      <4>2. CASE more = 1
        BY <2>1, <2>3, <2>6, <2>7, <4>2
      <4>3. CASE more = 2
        BY <2>1, <2>4, <2>6, <2>7, <4>3
      <4>4. CASE more > 2
        BY <2>1, <2>5, <2>6, <2>7, <4>4
      <4>5. QED
        BY <1>m, <4>1, <4>2, <4>3, <4>4
    <3>3. QED
      BY <3>1, <3>2
  <2>8. CASE off \in 0..Turn - 1
    <3>1. Compute(t, o, more, long[t]) /\ long[t] = 0
      BY <2>8 DEF SetMsg
    <3>2. Ticks(o) \div Turn + more = 0
      <4>1. CASE more = 0
        BY <2>1, <2>2, <2>8, <4>1
      <4>2. CASE more = 1
        BY <2>1, <2>3, <2>8, <4>2
      <4>3. CASE more = 2
        BY <2>1, <2>4, <2>8, <4>3
      <4>4. CASE more > 2
        BY <2>1, <2>5, <2>8, <4>4
      <4>5. QED
        BY <1>m, <4>1, <4>2, <4>3, <4>4
    <3>3. QED
      BY <3>1, <3>2
  <2>9. QED
    BY <2>7, <2>8
<1>4. /\ setting'[t] = turns /\ setting'[t] # -1 /\ due'[t] # 0
      /\ \/ due'[t] - Overhead < Clock
         \/ due'[t] - Overhead = (turns + long'[t]) * Turn + target'[t]
      /\ \A u \in Timers : u # t => /\ due'[u] = due[u] /\ target'[u] = target[u]
                                    /\ long'[u] = long[u] /\ setting'[u] = setting[u]
  BY <1>3, <1>m, ComputeIs
<1>5. /\ \E f : IsChain(f, head', nxt') /\ IsList(f, InList \ {t}, long, target)
      /\ irqs' \subseteq {"match"}
      /\ head' # Nil /\ long[head'] = 0 =>
             "match" \in irqs' \/ (match' = target[head'] /\ target[head'] > now)
  BY <1>1, <1>2, NotListed
<1>6. QED
  BY <1>1, <1>4, <1>5, ThreadStep

LEMMA RemoveStep ==
    ASSUME TypeOK, TypeOK', Good, NEW t \in Timers, Remove(t)
    PROVE  Good'
<1>1. /\ isr = Off /\ irqs = {} /\ now' = now /\ turns' = turns /\ isr' = isr
      /\ late' = late /\ panic' = panic /\ early' = early /\ TakeOut(t)
  BY DEF Remove, ThreadRuns
<1>2. /\ \E f : IsChain(f, head', nxt') /\ IsList(f, InList \ {t}, long, target)
      /\ irqs' \subseteq {"match"}
      /\ head' # Nil /\ long[head'] = 0 =>
             "match" \in irqs' \/ (match' = target[head'] /\ target[head'] > now)
  BY <1>1, TakeOutStep
<1>3. /\ due' = [due EXCEPT ![t] = 0] /\ setting[t] = -1
      /\ target' = target /\ long' = long /\ setting' = setting
  BY DEF Remove
<1>4. \A u \in Timers : u # t => /\ due'[u] = due[u] /\ target'[u] = target[u]
                                 /\ long'[u] = long[u] /\ setting'[u] = setting[u]
  BY <1>3 DEF TypeOK
<1>5. due'[t] = 0 /\ setting'[t] = -1
  BY <1>3 DEF TypeOK
<1>6. QED
  BY <1>1, <1>2, <1>4, <1>5, ThreadStep

-----------------------------------------------------------------------------
(* A timer is put in the list, and a wrap is handled                       *)

LEMMA AddStep ==
    ASSUME TypeOK, TypeOK', Good, NEW t \in Timers, AddToList(t), ~edge'
    PROVE  Good'
<1>1. /\ ~Cyclic /\ isr = Off /\ setting[t] # -1 /\ Insert(t)
      /\ setting' = [setting EXCEPT ![t] = -1]
      /\ target' = target /\ long' = long /\ due' = due /\ now' = now /\ turns' = turns
      /\ isr' = isr /\ late' = late /\ panic' = panic /\ early' = early
      /\ setting[t] = turns /\ target[t] # 0 /\ ~ (due[t] - Overhead < Clock)
  BY DEF AddToList
<1>2. /\ due[t] # 0 /\ Waits(t) = (turns + long[t]) * Turn + target[t] /\ "wrap" \notin irqs
  <2>1. turns \in Nat
    BY Numbers
  <2>2. ~ (Waits(t) < Clock)
    BY <1>1 DEF Waits
  <2>3. QED
    BY <1>1, <2>1, <2>2 DEF Good, SetInv, WrapOpen
<1>3. t \notin InList /\ t # Nil
  BY <1>1, Constants DEF InList
<1>4. InList' = InList \cup {t}
  BY <1>1, <1>2 DEF InList, TypeOK
<1>5. IsChain(Node, head, nxt) /\ IsList(Node, InList, long, target)
  BY TypeChain DEF ListChain, Good, ListInv
<1>6. /\ Place(t) \in 0..N
      /\ \A n \in 0..Place(t) - 1 : Node[n] # Nil /\ Before(Node[n], t)
      /\ Node[Place(t)] # Nil => ~ Before(Node[Place(t)], t)
  BY <1>1, PlaceIs
<1>7. /\ nxt' = [x \in Timers |-> IF Place(t) > 0 /\ x = Node[Place(t) - 1] THEN t
                                  ELSE IF x = t THEN Node[Place(t)] ELSE nxt[x]]
      /\ head' = IF Place(t) = 0 THEN t ELSE head
      /\ IF Place(t) = 0 /\ long[t] = 0 THEN ProgramMatch(target[t]) ELSE UNCHANGED <<match, irqs>>
  BY <1>1, InsertIs
<1>8. Place(t) < N /\ IsChain(Behind(Node, Place(t), t), head', nxt')
  BY <1>3, <1>5, <1>6, <1>7, PutChain
<1>9. ListInv'
  <2>1. ASSUME NEW n \in 0..Place(t) - 1
        PROVE  Node[n] # Nil /\ NotLater(long, target, Node[n], t)
    <3>1. n \in 0..N
      BY <1>6, NNat
    <3>2. Node[n] # Nil /\ Before(Node[n], t)
      BY <1>6
    <3>3. Node[n] # t
      BY <1>3, <1>5, <3>1, <3>2, ListPlaces
    <3>4. QED
      BY <3>2, <3>3 DEF Before, NotLater
  <2>2. Node[Place(t)] # Nil => ~ NotLater(long, target, Node[Place(t)], t)
    BY <1>6 DEF Before, NotLater
  <2>3. long \in [Timers -> Int] /\ target \in [Timers -> Int]
    BY Constants DEF TypeOK
  <2>4. IsList(Behind(Node, Place(t), t), InList \cup {t}, long, target)
    BY <1>3, <1>5, <1>6, <1>8, <2>1, <2>2, <2>3, PutList
  <2>5. Node' = Behind(Node, Place(t), t)
    BY <1>8, NodeNext
  <2>6. QED
    BY <1>1, <1>4, <2>4, <2>5 DEF ListInv
<1>10. /\ "wrap" \notin irqs' /\ (irqs' = {} => irqs = {}) /\ ("match" \in irqs => "match" \in irqs')
  BY <1>1, <1>2, <1>7 DEF ProgramMatch
<1>11. ListTurn' = ListTurn /\ Clock' = Clock /\ ListTurn = turns /\ ~WrapOpen'
  BY <1>1, <1>2, <1>10 DEF ListTurn, WrapOpen, Clock, Off
<1>12. \A u \in Timers : Waits(u)' = Waits(u)
  BY <1>1 DEF Waits
<1>13. DueInv'
  <2>1. ASSUME NEW u \in InList
        PROVE  /\ target'[u] # 0 /\ Waits(u)' = (ListTurn' + long'[u]) * Turn + target'[u]
               /\ Clock' - Waits(u)' <= late' /\ Clock' - Waits(u)' <= Latency
    <3>1. u \in Timers
      BY DEF InList
    <3>2. QED
      BY <1>1, <1>11, <1>12, <3>1 DEF Good, DueInv
  <2>2. /\ target'[t] # 0 /\ Waits(t)' = (ListTurn' + long'[t]) * Turn + target'[t]
    BY <1>1, <1>2, <1>11, <1>12
  <2>3. Clock' - Waits(t)' <= late' /\ Clock' - Waits(t)' <= Latency
    <3>1. Waits(t) \in Int /\ Clock \in Nat /\ late \in Nat
      BY Numbers
    <3>2. ~ (Waits(t) < Clock)
      BY <1>1 DEF Waits
    <3>3. QED
      BY <1>1, <1>11, <1>12, <3>1, <3>2, Constants
  <2>4. QED
    BY <1>4, <2>1, <2>2, <2>3 DEF DueInv
<1>14. SetInv'
  <2>1. \A u \in Timers : u # t => setting'[u] = setting[u]
    BY <1>1 DEF TypeOK
  <2>2. setting'[t] = -1
    BY <1>1 DEF TypeOK
  <2>3. QED
    BY <1>1, <1>11, <1>12, <2>1, <2>2 DEF Good, SetInv
<1>15. MatchInv'
  <2>1. SUFFICES ASSUME head' # Nil, long[head'] = 0
                 PROVE  "match" \in irqs' \/ (match' = target[head'] /\ target[head'] > now)
    BY <1>1 DEF MatchInv
  <2>2. CASE Place(t) = 0
    <3>1. head' = t /\ ProgramMatch(target[t])
      BY <1>7, <2>1, <2>2
    <3>2. match' = target[t] /\ irqs' = IF target[t] = now THEN irqs \cup {"match"} ELSE irqs
      BY <1>1, <3>1 DEF ProgramMatch
    <3>3. Clock = turns * Turn + now /\ Waits(t) = turns * Turn + target[t]
      <4>1. turns + long[t] = turns
        BY <2>1, <3>1, Numbers
      <4>2. QED
        BY <1>2, <4>1 DEF Clock
    <3>4. turns * Turn \in Nat /\ now \in Nat /\ target[t] \in Nat
      <4>1. turns \in Nat
        BY Numbers
      <4>2. QED
        BY <4>1, Numbers, Multiples
    <3>5. ~ (Waits(t) < Clock)
      BY <1>1 DEF Waits
    <3>6. target[t] = now \/ target[t] > now
      BY <3>3, <3>4, <3>5
    <3>7. QED
      BY <3>1, <3>2, <3>6
  <2>3. CASE Place(t) # 0
    <3>1. head' = head /\ match' = match /\ irqs' = irqs
      BY <1>7, <2>3
    <3>2. QED
      BY <1>1, <1>2, <2>1, <3>1 DEF Good, MatchInv
  <2>4. QED
    BY <2>2, <2>3
<1>16. WrapInv' /\ IsrInv' /\ IdleInv'
  BY <1>1, <1>10, <1>11 DEF Good, WrapInv, IsrInv, IdleInv
<1>17. QED
  BY <1>1, <1>9, <1>13, <1>14, <1>15, <1>16 DEF Good

LEMMA WrapPassesStep ==
    ASSUME TypeOK, TypeOK', Good, WrapPasses
    PROVE  Good'
<1>1. /\ isr.pc = "wrap" /\ isr # Off /\ WrapOpen /\ ~FirstIsPast
      /\ now' = now /\ turns' = turns /\ head' = head /\ nxt' = nxt /\ target' = target
      /\ setting' = setting /\ due' = due /\ match' = match /\ irqs' = irqs /\ early' = early
  BY DEF WrapPasses, WrapOpen, Off
<1>2. IsChain(Node, head, nxt) /\ IsList(Node, InList, long, target)
  BY TypeChain DEF ListChain, Good, ListInv
<1>3. Listed = InList
  BY <1>2 DEF Listed, IsList, N
<1>4. \A t \in InList : t \in Timers /\ long[t] > 0
  BY <1>1 DEF Good, WrapInv, InList
<1>5. /\ panic' = (\E t \in InList : long[t] = 0)
      /\ long' = [t \in Timers |-> IF t \in InList /\ long[t] > 0 THEN long[t] - 1 ELSE long[t]]
  BY <1>3 DEF WrapPasses, OneTurnLess
<1>6. panic' = FALSE
  BY <1>4, <1>5
<1>7. \A t \in InList : long'[t] = long[t] - 1
  BY <1>4, <1>5
<1>8. \A t \in Timers : t \notin InList => long'[t] = long[t]
  BY <1>5
<1>9. InList' = InList /\ Node' = Node /\ (\A t \in Timers : Waits(t)' = Waits(t)) /\ Clock' = Clock
  BY <1>1 DEF InList, Node, Waits, Clock
<1>10. "wrap" \notin irqs /\ "wrap" \notin irqs'
  BY <1>1, Handling
<1>11. \/ head # Nil /\ long[head] = 1 /\ isr' = [isr EXCEPT !.pc = "program"] /\ late' = late
       \/ ~ (head # Nil /\ long[head] = 1) /\ isr' = Off /\ late' = 0
  BY DEF WrapPasses, Ends
<1>12. isr'.pc \in {"program", "off"} /\ (isr' = Off => late' = 0)
  <2>1. CASE isr' = [isr EXCEPT !.pc = "program"]
    <3>1. isr'.pc = "program" /\ Off.pc = "off"
      BY <2>1 DEF Off, TypeOK
    <3>2. QED
      BY <3>1
  <2>2. CASE isr' = Off /\ late' = 0
    BY <2>2 DEF Off
  <2>3. QED
    BY <1>11, <2>1, <2>2
<1>13. ~WrapOpen' /\ ListTurn' = turns /\ ListTurn = turns - 1 /\ turns \in Nat
  <2>1. ~WrapOpen'
    BY <1>10, <1>12 DEF WrapOpen
  <2>2. QED
    BY <1>1, <2>1, Numbers DEF ListTurn
<1>14. ListInv'
  <2>1. ASSUME NEW t \in InList, NEW u \in InList, NotLater(long, target, t, u)
        PROVE  NotLater(long', target, t, u)
    <3>1. long'[t] = long[t] - 1 /\ long'[u] = long[u] - 1
      BY <1>7
    <3>2. long[t] \in Nat /\ long[u] \in Nat
      BY <1>4, Numbers
    <3>3. QED
      BY <2>1, <3>1, <3>2 DEF NotLater
  <2>2. IsList(Node, InList, long', target)
    BY <1>2, <2>1, ListRelabel
  <2>3. QED
    BY <1>1, <1>9, <2>2 DEF ListInv
\* If the handler ends here, the first timer waits for a later turn.
<1>15. ASSUME NEW t \in InList, late' # late PROVE Clock <= Waits(t)
  <2>1. head \in InList /\ head # Nil /\ Waits(head) <= Waits(t)
    BY HeadFirst DEF Good
  <2>2. long[head] > 1
    <3>1. long[head] > 0 /\ long[head] # 1 /\ head \in Timers
      BY <1>4, <1>11, <1>15, <2>1
    <3>2. long[head] \in Nat
      BY <3>1, Numbers
    <3>3. QED
      BY <3>1, <3>2
  <2>3. /\ Waits(head) = (ListTurn + long[head]) * Turn + target[head]
        /\ Waits(head) \in Int /\ Waits(t) \in Int /\ long[head] \in Nat /\ target[head] \in Nat
        /\ now \in Nat /\ now < Turn
    BY <1>4, <2>1, Numbers DEF Good, DueInv
  <2>4. ListTurn + long[head] \in Int /\ turns \in Int /\ turns < ListTurn + long[head]
    BY <1>13, <2>2, <2>3
  <2>5. turns * Turn + Turn <= (ListTurn + long[head]) * Turn
        /\ (ListTurn + long[head]) * Turn \in Int /\ turns * Turn \in Int
    BY <2>4, Multiples
  <2>6. QED
    BY <2>1, <2>3, <2>5, Constants DEF Clock
<1>16. DueInv'
  <2>1. ASSUME NEW t \in InList
        PROVE  /\ target'[t] # 0 /\ Waits(t)' = (ListTurn' + long'[t]) * Turn + target'[t]
               /\ Clock' - Waits(t)' <= late' /\ Clock' - Waits(t)' <= Latency
    <3>1. t \in Timers /\ target'[t] = target[t] /\ Waits(t)' = Waits(t)
      BY <1>1, <1>4, <1>9
    <3>2. /\ target[t] # 0 /\ Waits(t) = (ListTurn + long[t]) * Turn + target[t]
          /\ Clock - Waits(t) <= late /\ Clock - Waits(t) <= Latency
      BY DEF Good, DueInv
    <3>3. ListTurn' + long'[t] = ListTurn + long[t]
      <4>1. long[t] \in Nat
        BY <3>1, Numbers
      <4>2. QED
        BY <1>7, <1>13, <4>1
    <3>4. Clock' - Waits(t)' <= late'
      <4>1. Waits(t) \in Int /\ Clock \in Nat
        BY <3>1, Numbers
      <4>2. QED
        BY <1>9, <1>11, <1>15, <3>1, <3>2, <4>1
    <3>5. QED
      BY <1>9, <3>1, <3>2, <3>3, <3>4
  <2>2. QED
    BY <1>9, <2>1 DEF DueInv
<1>17. SetInv'
  <2>1. ASSUME NEW t \in Timers, setting[t] # -1
        PROVE  long'[t] = long[t] /\ Waits(t)' = Waits(t)
    <3>1. t \notin InList
      BY <2>1 DEF InList
    <3>2. QED
      BY <1>8, <1>9, <3>1
  <2>2. QED
    BY <1>1, <1>9, <1>13, <2>1 DEF Good, SetInv
<1>18. MatchInv'
  <2>1. SUFFICES ASSUME isr' = Off, head # Nil, long'[head] = 0 PROVE FALSE
    BY <1>1 DEF MatchInv
  <2>2. head \in InList /\ head \in Timers
    BY <1>4, <2>1, HeadFirst DEF Good
  <2>3. long[head] \in Nat /\ long'[head] = long[head] - 1
    BY <1>7, <2>2, Numbers
  <2>4. long[head] = 1
    BY <2>1, <2>3
  <2>5. QED
    BY <1>11, <1>12, <2>1, <2>4 DEF Off, TypeOK
<1>19. WrapInv' /\ IsrInv' /\ IdleInv'
  BY <1>10, <1>11, <1>12, <1>13 DEF WrapInv, IsrInv, IdleInv
<1>20. QED
  BY <1>1, <1>6, <1>14, <1>16, <1>17, <1>18, <1>19 DEF Good

-----------------------------------------------------------------------------
(* The theorems                                                            *)

LEMMA InitGood == Init => Good
<1> SUFFICES ASSUME Init PROVE Good
  OBVIOUS
<1>1. TypeOK /\ Init
  BY InitType
<1>2. InList = {}
  BY DEF Init, InList
<1>3. ListInv
  <2>1. IsChain(Node, Nil, nxt)
    BY <1>1, TypeChain DEF ListChain, Init
  <2>2. IsChain([n \in 0..N |-> Nil], Nil, nxt)
    BY NNat DEF IsChain, TimerOrNil
  <2>3. Node = [n \in 0..N |-> Nil]
    BY <2>1, <2>2, ChainUnique
  <2>4. N \in 0..N
    BY NNat
  <2>5. \A i \in 0..N : Node[i] = Nil
    BY <2>3
  <2>6. {Node[n] : n \in 0..N} \ {Nil} = {}
    BY <2>5
  <2>7. Node \in [0..N -> TimerOrNil]
    BY <2>1 DEF IsChain
  <2>8. QED
    BY <1>2, <2>4, <2>5, <2>6, <2>7 DEF ListInv, IsList
<1>4. SetInv
  BY DEF Init, SetInv
<1>5. QED
  BY <1>2, <1>3, <1>4 DEF Good, DueInv, WrapInv, WrapOpen, IsrInv, IdleInv, MatchInv, Init, Off

LEMMA GoodStep == TypeOK /\ TypeOK' /\ Good /\ [Next]_vars /\ ~edge' => Good'
<1> SUFFICES ASSUME TypeOK, TypeOK', Good, [Next]_vars, ~edge' PROVE Good'
  OBVIOUS
<1>1. CASE Tick
  BY <1>1, TickStep
<1>2. CASE MatchBegins
  BY <1>2, MatchBeginsStep
<1>3. CASE MatchShoots
  BY <1>3, MatchShootsStep
<1>4. CASE MatchLeaves \/ MatchLooks
  BY <1>4, MatchLeavesStep, MatchLooksStep
<1>5. CASE WrapBegins \/ WrapShoots \/ WrapPasses
  BY <1>5, WrapBeginsStep, WrapShootsStep, WrapPassesStep
<1>p. CASE Program
  BY <1>p, ProgramStep
<1>6. ASSUME NEW t \in Timers, NEW o \in Offsets, Set(t, o) PROVE Good'
  BY <1>6, SetStep
<1>7. ASSUME NEW t \in Timers, NEW o \in Offsets, NEW more \in Turns, SetMsg(t, o, more)
      PROVE  Good'
  BY <1>7, SetMsgStep
<1>8. ASSUME NEW t \in Timers, NEW o \in Offsets, NEW more \in Turns, Sleep(t, o, more)
      PROVE  Good'
  BY <1>8, SleepStep
<1>9. ASSUME NEW t \in Timers, AddToList(t) PROVE Good'
  BY <1>9, AddStep
<1>10. ASSUME NEW t \in Timers, Remove(t) PROVE Good'
  BY <1>10, RemoveStep
<1>11. CASE UNCHANGED vars
  <2>1. UNCHANGED timerVars
    BY <1>11 DEF vars, timerVars
  <2>2. /\ now' = now /\ turns' = turns /\ match' = match /\ irqs' = irqs /\ isr' = isr
        /\ late' = late /\ panic' = panic /\ early' = early
    BY <1>11 DEF vars, hwVars
  <2>3. ListInv' /\ InList' = InList /\ \A t \in Timers : Waits(t)' = Waits(t)
    BY <2>1, ListKept DEF Good
  <2>4. /\ WrapOpen' = WrapOpen /\ ListTurn' = ListTurn /\ Clock' = Clock
        /\ \A t \in InList : t \in Timers
    BY <2>2 DEF WrapOpen, ListTurn, Clock, InList
  <2>5. DueInv' /\ SetInv'
    BY <2>1, <2>2, <2>3, <2>4 DEF Good, DueInv, SetInv, timerVars
  <2>6. WrapInv' /\ IsrInv' /\ IdleInv' /\ MatchInv'
    BY <2>1, <2>2, <2>3, <2>4 DEF Good, WrapInv, IsrInv, IdleInv, MatchInv, timerVars
  <2>7. QED
    BY <2>2, <2>3, <2>5, <2>6 DEF Good
<1>12. QED
  BY <1>1, <1>2, <1>3, <1>4, <1>5, <1>p, <1>6, <1>7, <1>8, <1>9, <1>10, <1>11 DEF Next, Thread

\* An edge that has been met stays met.
LEMMA EdgeStays == TypeOK /\ [Next]_vars /\ edge => edge'
<1> SUFFICES ASSUME [Next]_vars, edge PROVE edge'
  OBVIOUS
<1>1. CASE Tick \/ MatchBegins \/ MatchShoots \/ MatchLeaves \/ MatchLooks
  BY <1>1 DEF Tick, MatchBegins, MatchShoots, MatchLeaves, MatchLooks
<1>w. CASE WrapBegins \/ WrapShoots \/ WrapPasses \/ Program
  BY <1>w DEF WrapBegins, WrapShoots, WrapPasses, Program
<1>2. ASSUME NEW t \in Timers, Thread(t) PROVE edge'
  BY <1>2 DEF Thread, Set, SetMsg, Sleep, AddToList, Remove
<1>3. CASE UNCHANGED vars
  BY <1>3 DEF vars
<1>4. QED
  BY <1>1, <1>w, <1>2, <1>3 DEF Next

(* Until a timer meets an edge of the counter, list, targets, match        *)
(* register and pending interrupts agree on what is due when.              *)
THEOREM InvariantHolds == Spec => []IInv
<1>1. Init => IInv
  BY InitGood, InitType DEF IInv
<1>2. IInv /\ [Next]_vars => IInv'
  <2>1. SUFFICES ASSUME IInv, [Next]_vars PROVE IInv'
    OBVIOUS
  <2>2. TypeOK /\ TypeOK'
    BY <2>1, TypeStep DEF IInv
  <2>3. ASSUME ~edge' PROVE Good'
    <3>1. ~edge
      BY <2>1, <2>2, <2>3, EdgeStays
    <3>2. QED
      BY <2>1, <2>2, <2>3, <3>1, GoodStep DEF IInv
  <2>4. QED
    BY <2>2, <2>3 DEF IInv
<1>3. QED
  BY <1>1, <1>2, PTL DEF Spec

(* Until an edge is met, the list holds exactly the timers that are set,   *)
(* once each, in the order in which they are due (_add_timer_to_list,      *)
(* _remove, the handlers).                                                 *)
THEOREM ListIsSound == Spec => []ListSound
<1>1. IInv => ListSound
  <2>1. SUFFICES ASSUME TypeOK, Good PROVE ListSound
    BY DEF IInv, ListSound
  <2>2. IsList(Node, InList, long, target)
    BY <2>1 DEF Good, ListInv
  <2>3. Node[N] = Nil
    BY <2>2 DEF IsList
  <2>4. Listed = InList
    BY <2>2 DEF IsList, Listed, N
  <2>5. ASSUME NEW n \in 1..N, Node[n] # Nil PROVE due[Node[n - 1]] <= due[Node[n]]
    <3>1. n \in 0..N /\ n - 1 \in 0..N /\ n - 1 < n
      BY NNat
    <3>2. Node[n - 1] # Nil /\ NotLater(long, target, Node[n - 1], Node[n])
      BY <2>2, <2>5, <3>1 DEF IsList
    <3>3. Node[n - 1] \in InList /\ Node[n] \in InList
      BY <2>2, <2>5, <3>1, <3>2, ListPlaces
    <3>4. Waits(Node[n - 1]) <= Waits(Node[n])
      BY <2>1, <3>2, <3>3, Ordered DEF Good
    <3>5. due[Node[n - 1]] \in Nat /\ due[Node[n]] \in Nat
      BY <2>1, <3>3 DEF InList, TypeOK
    <3>6. QED
      BY <3>4, <3>5, Constants DEF Waits
  <2>6. QED
    BY <2>3, <2>4, <2>5 DEF ListSound, InList, N
<1>2. QED
  BY <1>1, InvariantHolds, PTL

(* Until an edge is met, no timer of the list is overdue by more than an   *)
(* interrupt is late: the match register waits for the first one, though   *)
(* the counter goes on in the handlers (_lltimer_set, _timer_wrap,         *)
(* _timer_callback).                                                       *)
THEOREM NoneOverdue == Spec => []NotOverdue
<1>1. IInv => NotOverdue
  <2>1. SUFFICES ASSUME TypeOK, Good, NEW t \in Timers, due[t] # 0, setting[t] = -1
                 PROVE  Clock <= due[t] - Overhead + Latency
    BY DEF IInv, NotOverdue
  <2>2. Clock - Waits(t) <= Latency
    BY <2>1 DEF Good, DueInv, InList
  <2>3. Clock \in Nat /\ Waits(t) \in Int
    BY <2>1, Numbers
  <2>4. QED
    BY <2>2, <2>3, Constants DEF Waits
<1>2. QED
  BY <1>1, InvariantHolds, PTL

(* Only after an edge of the counter is a timer shot before its time, and  *)
(* only then does the assertion of _timer_wrap fail.                       *)
THEOREM WrongOnlyAtEdges == Spec => []WrongOnlyAfterEdge
<1>1. IInv => WrongOnlyAfterEdge
  BY DEF IInv, Good, WrongOnlyAfterEdge
<1>2. QED
  BY <1>1, InvariantHolds, PTL
=============================================================================
