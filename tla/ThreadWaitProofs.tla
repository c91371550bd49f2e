-------------------------- MODULE ThreadWaitProofs --------------------------
(***************************************************************************)
(* What every object with suspend lists needs to know of ThreadWait: what  *)
(* the operators on lists return, and that waiting, waking and timing out  *)
(* keep the lists, the states of the threads and their timers in step,     *)
(* however many interrupts get in before a timeout is handled.             *)
(***************************************************************************)
EXTENDS ThreadWait, NaturalsInduction, WellFoundedInduction, TLAPS

-----------------------------------------------------------------------------
(* Lists *)

\* A set of naturals has a least element: the induction behind the lemmas on
\* recursive functions and behind Min.
LEMMA LeastElement ==
    ASSUME NEW I \in SUBSET Nat, I # {}
    PROVE  \E m \in I : \A y \in I : m <= y
<1>1. IsWellFoundedOn(OpToRel(<, Nat), Nat)
    BY NatLessThanWellFounded
<1>2. PICK x \in I : \A y \in I : ~(<<y, x>> \in OpToRel(<, Nat))
    BY <1>1, WFMin, Zenon
<1>3. ASSUME NEW y \in Nat, y < x
      PROVE  <<y, x>> \in OpToRel(<, Nat)
    <2>1. OpToRel(<, Nat) = {ss \in Nat \X Nat : ss[1] < ss[2]}
        BY Zenon DEF OpToRel
    <2>2. <<y, x>> \in {ss \in Nat \X Nat : ss[1] < ss[2]}
        BY <1>3
    <2> QED
        BY <2>1, <2>2, Zenon
<1>4. \A y \in I : ~(y < x)
    BY <1>2, <1>3, Zenon
<1> QED
    BY <1>4

LEMMA MinOfNaturals ==
    ASSUME NEW I \in SUBSET Nat, I # {}
    PROVE  Min(I) \in I /\ \A y \in I : Min(I) <= y
<1>1. \E m \in I : \A y \in I : m <= y
    BY LeastElement
<1> QED
    BY <1>1, Zenon DEF Min

\* x is on the list s.
On(s, x) == \E i \in 1..Len(s) : s[i] = x

Distinct(s) == \A i, j \in 1..Len(s) : s[i] = s[j] => i = j

LEMMA NothingOnEmpty ==
    ASSUME NEW S, NEW s \in Seq(S)
    PROVE  s = <<>> <=> \A x : ~On(s, x)
<1>1. ASSUME s # <<>>
      PROVE  On(s, s[1])
    BY <1>1 DEF On
<1>2. ASSUME s = <<>>, NEW x
      PROVE  ~On(s, x)
    BY <1>2 DEF On
<1> QED
    BY <1>1, <1>2

\* F[i] is what is left of the first i threads of s when those in gone are
\* taken off.
IsKept(F, S, s, gone) ==
    /\ F \in [0..Len(s) -> Seq(S)] /\ F[0] = <<>>
    /\ \A i \in 1..Len(s) :
           F[i] = IF s[i] \in gone THEN F[i - 1] ELSE Append(F[i - 1], s[i])

\* The recursive function of Without exists.
LEMMA KeptFunction ==
    ASSUME NEW S, NEW s \in Seq(S), NEW gone
    PROVE  \E F : IsKept(F, S, s, gone)
<1> DEFINE Good(F, m) ==
        /\ F \in [0..m -> Seq(S)] /\ F[0] = <<>>
        /\ \A i \in 1..m :
               F[i] = IF s[i] \in gone THEN F[i - 1] ELSE Append(F[i - 1], s[i])
    Bad == {m \in Nat : m <= Len(s) /\ ~\E F : Good(F, m)}
<1>1. Bad = {}
    <2> SUFFICES ASSUME Bad # {} PROVE FALSE
        OBVIOUS
    <2>1. PICK m \in Bad : \A y \in Bad : m <= y
        <3>1. Bad \in SUBSET Nat
            OBVIOUS
        <3> HIDE DEF Bad
        <3> QED
            BY <3>1, LeastElement
    <2>2. m # 0
        <3>1. Good([i \in 0..0 |-> <<>>], 0)
            OBVIOUS
        <3> QED
            BY <3>1
    <2>3. PICK F : Good(F, m - 1)
        <3>1. m - 1 \in Nat /\ m - 1 <= Len(s) /\ ~(m <= m - 1)
            BY <2>2
        <3>2. m - 1 \notin Bad
            BY <2>1, <3>1
        <3> QED
            BY <3>1, <3>2, Zenon
    <2> DEFINE G == [i \in 0..m |-> IF i < m THEN F[i]
                                    ELSE IF s[m] \in gone THEN F[m - 1]
                                    ELSE Append(F[m - 1], s[m])]
    <2>4. m \in Nat /\ m >= 1 /\ m <= Len(s) /\ s[m] \in S
        BY <2>1, <2>2
    <2>5. F[m - 1] \in Seq(S) /\ \A i \in 0..m - 1 : F[i] \in Seq(S)
        BY <2>3, <2>4
    <2>6. G \in [0..m -> Seq(S)]
        BY <2>4, <2>5
    <2>7. ASSUME NEW i \in 1..m
          PROVE  G[i] = IF s[i] \in gone THEN G[i - 1] ELSE Append(G[i - 1], s[i])
        <3>1. G[i - 1] = F[i - 1]
            BY <2>4, <2>7
        <3>2. CASE i = m
            BY <3>1, <3>2, <2>4
        <3>3. CASE i # m
            <4>1. i \in 1..m - 1 /\ i \in 0..m /\ i < m
                BY <3>3, <2>4
            <4> QED
                BY <3>1, <4>1, <2>3
        <3> QED
            BY <3>2, <3>3
    <2>8. G[0] = <<>>
        BY <2>3, <2>4
    <2>9. Good(G, m)
        BY <2>6, <2>7, <2>8
    <2> QED
        BY <2>1, <2>9
<1>2. PICK F : Good(F, Len(s))
    <2>1. Len(s) \in Nat /\ Len(s) <= Len(s)
        OBVIOUS
    <2> QED
        BY <1>1, <2>1, Zenon
<1> QED
    BY <1>2 DEF IsKept

\* Taking threads off a list leaves the others, each as often as before.
LEMMA WithoutFacts ==
    ASSUME NEW S, NEW s \in Seq(S), NEW gone
    PROVE  /\ Without(s, gone) \in Seq(S)
           /\ \A x : On(Without(s, gone), x) <=> On(s, x) /\ x \notin gone
           /\ Distinct(s) => Distinct(Without(s, gone))
<1> DEFINE
        Rec(F) == [i \in 0..Len(s) |->
                      IF i = 0 THEN <<>>
                      ELSE IF s[i] \in gone THEN F[i - 1] ELSE Append(F[i - 1], s[i])]
        K == CHOOSE F : F = Rec(F)
<1>1. K = Rec(K)
    <2>1. PICK F : IsKept(F, S, s, gone)
        BY KeptFunction
    <2>2. ASSUME NEW i \in 0..Len(s)
          PROVE  F[i] = Rec(F)[i]
        <3>1. CASE i = 0
            BY <2>1, <3>1 DEF IsKept
        <3>2. CASE i # 0
            <4>1. i \in 1..Len(s)
                BY <3>2
            <4> QED
                BY <2>1, <3>2, <4>1 DEF IsKept
        <3> QED
            BY <3>1, <3>2
    <2>3. F = Rec(F)
        BY <2>1, <2>2 DEF IsKept
    <2> QED
        BY <2>3, Zenon
<1>2. Without(s, gone) = K[Len(s)]
    BY DEF Without
<1> HIDE DEF K
<1>3. K[0] = <<>> /\ \A i \in 1..Len(s) :
          K[i] = IF s[i] \in gone THEN K[i - 1] ELSE Append(K[i - 1], s[i])
    <2>1. ASSUME NEW i \in 0..Len(s)
          PROVE  Rec(K)[i] = IF i = 0 THEN <<>>
                             ELSE IF s[i] \in gone THEN K[i - 1] ELSE Append(K[i - 1], s[i])
        OBVIOUS
    <2> HIDE DEF Rec
    <2>2. ASSUME NEW i \in 0..Len(s)
          PROVE  K[i] = IF i = 0 THEN <<>>
                        ELSE IF s[i] \in gone THEN K[i - 1] ELSE Append(K[i - 1], s[i])
        BY <1>1, <2>1, Zenon
    <2>3. 0 \in 0..Len(s) /\ \A i \in 1..Len(s) : i \in 0..Len(s) /\ i # 0
        OBVIOUS
    <2> QED
        BY <2>2, <2>3
<1> HIDE DEF Rec
<1> DEFINE
        Right(n) ==
            /\ K[n] \in Seq(S)
            /\ \A x : On(K[n], x) <=> x \notin gone /\ \E j \in 1..n : s[j] = x
            /\ Distinct(s) => Distinct(K[n])
        Bad == {n \in Nat : n <= Len(s) /\ ~Right(n)}
<1>4. Bad = {}
    <2> SUFFICES ASSUME Bad # {} PROVE FALSE
        OBVIOUS
    <2>1. PICK m \in Bad : \A y \in Bad : m <= y
        <3>1. Bad \in SUBSET Nat
            OBVIOUS
        <3> HIDE DEF Bad
        <3> QED
            BY <3>1, LeastElement
    <2>2. m # 0
        <3>1. Right(0)
            BY <1>3 DEF On, Distinct
        <3> QED
            BY <3>1
    <2>3. m - 1 \in Nat /\ m - 1 <= Len(s) /\ ~(m <= m - 1) /\ m \in 1..Len(s)
        BY <2>2
    <2>4. Right(m - 1)
        <3>1. m - 1 \notin Bad
            BY <2>1, <2>3
        <3> QED
            BY <2>3, <3>1, Zenon
    <2> HIDE DEF Bad
    <2>5. s[m] \in S
        BY <2>3
    <2>6. Right(m)
        <3>1. CASE s[m] \in gone
            <4>1. K[m] = K[m - 1]
                BY <3>1, <1>3, <2>3
            <4>2. \A x : x \notin gone =>
                     ((\E j \in 1..m - 1 : s[j] = x) <=> (\E j \in 1..m : s[j] = x))
                BY <3>1, <2>3
            <4> QED
                BY <2>4, <4>1, <4>2
        <3>2. CASE s[m] \notin gone
            <4>1. K[m] = Append(K[m - 1], s[m]) /\ K[m - 1] \in Seq(S)
                BY <3>2, <1>3, <2>3, <2>4
            <4>2. /\ K[m] \in Seq(S) /\ Len(K[m]) = Len(K[m - 1]) + 1
                  /\ K[m][Len(K[m])] = s[m]
                  /\ \A i \in 1..Len(K[m - 1]) : K[m][i] = K[m - 1][i]
                BY <4>1, <2>5
            <4>3. ASSUME NEW x
                  PROVE  On(K[m], x) <=> On(K[m - 1], x) \/ x = s[m]
                BY <4>1, <4>2 DEF On
            <4>4. ASSUME NEW x
                  PROVE  (\E j \in 1..m : s[j] = x) <=> (\E j \in 1..m - 1 : s[j] = x) \/ x = s[m]
                BY <2>3
            <4>5. \A x : On(K[m], x) <=> x \notin gone /\ \E j \in 1..m : s[j] = x
                BY <4>3, <4>4, <2>4, <3>2
            <4>6. ASSUME Distinct(s)
                  PROVE  Distinct(K[m])
                <5>1. Distinct(K[m - 1])
                    BY <4>6, <2>4
                <5>2. ASSUME NEW j \in 1..m - 1
                      PROVE  s[j] # s[m]
                    BY <4>6, <2>3, <5>2 DEF Distinct
                <5>3. ASSUME NEW i \in 1..Len(K[m - 1])
                      PROVE  K[m - 1][i] # s[m]
                    BY <5>2, <5>3, <2>4, <4>1 DEF On
                <5> QED
                    BY <5>1, <5>3, <4>1, <4>2 DEF Distinct
            <4> QED
                BY <4>2, <4>5, <4>6
        <3> QED
            BY <3>1, <3>2
    <2> QED
        BY <2>6 DEF Bad
<1>5. Right(Len(s))
    <2>1. Len(s) \in Nat /\ Len(s) <= Len(s)
        OBVIOUS
    <2> QED
        BY <1>4, <2>1, Zenon
<1> QED
    BY <1>2, <1>5 DEF On

\* r is a followed by b.
IsConcat(S, r, a, b) ==
    /\ r \in Seq(S) /\ Len(r) = Len(a) + Len(b)
    /\ \A j \in 1..Len(a) : r[j] = a[j]
    /\ \A j \in 1..Len(b) : r[Len(a) + j] = b[j]

LEMMA ConcatFacts ==
    ASSUME NEW S, NEW a \in Seq(S), NEW b \in Seq(S)
    PROVE  IsConcat(S, a \o b, a, b)
BY DEF IsConcat

\* r is s with t put at place k.
IsInserted(S, r, s, t, k) ==
    /\ r \in Seq(S) /\ Len(r) = Len(s) + 1 /\ r[k] = t
    /\ \A j \in 1..k - 1 : r[j] = s[j]
    /\ \A j \in k..Len(s) : r[j + 1] = s[j]

LEMMA InsertedAt ==
    ASSUME NEW S, NEW s \in Seq(S), NEW t \in S, NEW k \in 1..Len(s)
    PROVE  IsInserted(S, SubSeq(s, 1, k - 1) \o <<t>> \o SubSeq(s, k, Len(s)), s, t, k)
<1> DEFINE a == SubSeq(s, 1, k - 1)
           b == SubSeq(s, k, Len(s))
           one == <<t>>
           c == a \o one
           r == c \o b
<1>0. Len(s) \in Nat /\ k \in 1..Len(s)
    OBVIOUS
<1>1. a \in Seq(S) /\ Len(a) = k - 1 /\ \A j \in 1..k - 1 : a[j] = s[j]
    OBVIOUS
<1>2. b \in Seq(S) /\ Len(b) = Len(s) - k + 1 /\ \A j \in 1..Len(s) - k + 1 : b[j] = s[j + k - 1]
    OBVIOUS
<1>3. one \in Seq(S) /\ Len(one) = 1 /\ one[1] = t
    OBVIOUS
<1> HIDE DEF a, b, one
<1>4. c \in Seq(S) /\ Len(c) = k /\ c[k] = t /\ \A j \in 1..k - 1 : c[j] = a[j]
    <2>1. IsConcat(S, c, a, one)
        BY <1>1, <1>3, ConcatFacts
    <2> HIDE DEF c
    <2>2. 1 \in 1..Len(one) /\ Len(a) + 1 = k
        BY <1>0, <1>1, <1>3
    <2> QED
        BY <1>1, <1>3, <2>1, <2>2 DEF IsConcat
<1> HIDE DEF c
<1>5. IsConcat(S, r, c, b)
    BY <1>2, <1>4, ConcatFacts
<1> HIDE DEF r
<1>6. r \in Seq(S) /\ Len(r) = Len(s) + 1
    <2>1. k + (Len(s) - k + 1) = Len(s) + 1
        BY <1>0
    <2> QED
        BY <1>2, <1>4, <1>5, <2>1 DEF IsConcat
<1>7. r[k] = t /\ \A j \in 1..k - 1 : r[j] = s[j]
    <2>1. k \in 1..k /\ \A j \in 1..k - 1 : j \in 1..k
        BY <1>0
    <2>2. \A j \in 1..k : r[j] = c[j]
        BY <1>4, <1>5 DEF IsConcat
    <2> QED
        BY <1>1, <1>4, <2>1, <2>2
<1>8. ASSUME NEW j \in k..Len(s) PROVE r[j + 1] = s[j]
    <2> DEFINE i == j - k + 1
    <2>1. i \in 1..Len(s) - k + 1 /\ k + i = j + 1 /\ i + k - 1 = j
        BY <1>0
    <2> HIDE DEF i
    <2>2. r[k + i] = b[i]
        BY <1>2, <1>4, <1>5, <2>1 DEF IsConcat
    <2>3. b[i] = s[i + k - 1]
        BY <1>2, <2>1
    <2> QED
        BY <2>1, <2>2, <2>3
<1>9. IsInserted(S, r, s, t, k)
    BY <1>6, <1>7, <1>8 DEF IsInserted
<1> QED
    BY <1>9 DEF r, c, one, a, b

\* A thread that starts to wait is put on the list once, wherever its priority
\* puts it.
LEMMA EnqueueFacts ==
    ASSUME NEW s \in Seq(Threads), NEW t \in Threads
    PROVE  /\ Enqueue(s, t) \in Seq(Threads)
           /\ Len(Enqueue(s, t)) = Len(s) + 1
           /\ \A x : On(Enqueue(s, t), x) <=> On(s, x) \/ x = t
           /\ Distinct(s) /\ ~On(s, t) => Distinct(Enqueue(s, t))
<1>1. ASSUME NEW r, NEW k \in 1..Len(s) + 1, r \in Seq(Threads), Len(r) = Len(s) + 1,
             r[k] = t, \A j \in 1..k - 1 : r[j] = s[j],
             \A j \in k..Len(s) : r[j + 1] = s[j]
      PROVE  /\ \A x : On(r, x) <=> On(s, x) \/ x = t
             /\ Distinct(s) /\ ~On(s, t) => Distinct(r)
    <2>1. ASSUME NEW j \in 1..Len(s) + 1
          PROVE  /\ j < k => j \in 1..Len(s) /\ r[j] = s[j]
                 /\ j > k => j - 1 \in 1..Len(s) /\ r[j] = s[j - 1]
        <3>1. CASE j > k
            <4>1. j - 1 \in k..Len(s) /\ (j - 1) + 1 = j
                BY <3>1
            <4> QED
                BY <4>1, <1>1
        <3> QED
            BY <3>1, <1>1
    <2>2. ASSUME NEW x
          PROVE  On(r, x) => On(s, x) \/ x = t
        <3> SUFFICES ASSUME NEW j \in 1..Len(s) + 1, r[j] = x
                     PROVE  On(s, x) \/ x = t
            BY <1>1 DEF On
        <3>1. j < k \/ j = k \/ j > k
            OBVIOUS
        <3> QED
            BY <1>1, <2>1, <3>1 DEF On
    <2>3. ASSUME NEW x, On(s, x)
          PROVE  On(r, x)
        <3>1. PICK j \in 1..Len(s) : s[j] = x
            BY <2>3 DEF On
        <3>2. j \in 1..Len(r) /\ j + 1 \in 1..Len(r) /\ (j \in 1..k - 1 \/ j \in k..Len(s))
            BY <1>1
        <3> QED
            BY <1>1, <3>1, <3>2 DEF On
    <2>4. On(r, t)
        BY <1>1 DEF On
    <2>5. ASSUME Distinct(s), ~On(s, t)
          PROVE  Distinct(r)
        <3> SUFFICES ASSUME NEW i \in 1..Len(s) + 1, NEW j \in 1..Len(s) + 1, r[i] = r[j], i < j
                     PROVE  FALSE
            BY <1>1 DEF Distinct
        <3>1. ASSUME NEW u \in 1..Len(s), NEW v \in 1..Len(s), s[u] = s[v]
              PROVE  u = v
            BY <2>5, <3>1 DEF Distinct
        <3>2. ASSUME NEW u \in 1..Len(s)
              PROVE  s[u] # t
            BY <2>5 DEF On
        <3>3. CASE i = k
            <4>1. j - 1 \in 1..Len(s) /\ r[j] = s[j - 1]
                BY <2>1, <3>3
            <4> QED
                BY <1>1, <3>2, <3>3, <4>1
        <3>4. CASE i < k /\ j = k
            BY <1>1, <2>1, <3>2, <3>4
        <3>5. CASE i < k /\ j < k
            BY <2>1, <3>1, <3>5
        <3>6. CASE j > k /\ i # k
            <4>1. j - 1 \in 1..Len(s) /\ r[j] = s[j - 1]
                BY <2>1, <3>6
            <4>2. \E u \in 1..Len(s) : r[i] = s[u] /\ u # j - 1
                BY <2>1, <3>6
            <4> QED
                BY <3>1, <4>1, <4>2
        <3> QED
            BY <3>3, <3>4, <3>5, <3>6
    <2> QED
        BY <2>2, <2>3, <2>4, <2>5
<1> DEFINE I == {i \in 1..Len(s) : Prio[t] < Prio[s[i]]}
<1>2. SelectInSeq(s, LAMBDA u : Prio[t] < Prio[u]) = IF I # {} THEN Min(I) ELSE 0
    BY DEF SelectInSeq
<1>3. CASE Fifo \/ I = {}
    <2>1. Enqueue(s, t) = Append(s, t)
        BY <1>2, <1>3 DEF Enqueue
    <2>2. Len(s) + 1 \in 1..Len(s) + 1
        OBVIOUS
    <2> DEFINE r == Append(s, t)
    <2>3. /\ r \in Seq(Threads) /\ Len(r) = Len(s) + 1 /\ r[Len(s) + 1] = t
          /\ \A j \in 1..(Len(s) + 1) - 1 : r[j] = s[j]
          /\ \A j \in Len(s) + 1..Len(s) : r[j + 1] = s[j]
        OBVIOUS
    <2> HIDE DEF r
    <2> QED
        BY <1>1, <2>1, <2>2, <2>3 DEF r
<1>4. CASE ~Fifo /\ I # {}
    <2> DEFINE k == Min(I)
               r == SubSeq(s, 1, k - 1) \o <<t>> \o SubSeq(s, k, Len(s))
    <2>1. k \in 1..Len(s)
        <3>1. I \in SUBSET Nat
            OBVIOUS
        <3>2. k \in I
            BY <3>1, <1>4, MinOfNaturals
        <3> QED
            BY <3>2
    <2>2. SelectInSeq(s, LAMBDA u : Prio[t] < Prio[u]) = k
        BY <1>2, <1>4
    <2> HIDE DEF k, I
    <2>3. k # 0 /\ ~Fifo
        BY <2>1, <1>4
    <2>4. Enqueue(s, t) = r
        BY <2>2, <2>3 DEF Enqueue, InsertAt
    <2>5. k \in 1..Len(s) + 1
        BY <2>1
    <2>6. /\ r \in Seq(Threads) /\ Len(r) = Len(s) + 1 /\ r[k] = t
          /\ \A j \in 1..k - 1 : r[j] = s[j]
          /\ \A j \in k..Len(s) : r[j + 1] = s[j]
        <3>1. IsInserted(Threads, r, s, t, k)
            BY <2>1, InsertedAt
        <3> HIDE DEF r
        <3> QED
            BY <3>1 DEF IsInserted
    <2> HIDE DEF r
    <2> QED
        BY <1>1, <2>4, <2>5, <2>6
<1> QED
    BY <1>3, <1>4

-----------------------------------------------------------------------------
(* The invariant of waiting *)

\* A thread is on one list at most, and there once.
ListedOnce ==
    \A k, l \in Lists : \A i \in 1..Len(susp[k]), j \in 1..Len(susp[l]) :
        susp[k][i] = susp[l][j] => k = l /\ i = j

ListedSuspended == \A l \in Lists : \A i \in 1..Len(susp[l]) : stat[susp[l][i]] = "suspended"

SuspendedListed ==
    \A t \in Threads : stat[t] = "suspended" => \E l \in Lists : On(susp[l], t)

\* A timer runs only for a thread that waits with a timeout.  One that waits
\* with a timeout and has no timer running is the one whose timer the tick
\* interrupt is processing.
TimersRight ==
    \A t \in Threads :
        /\ timer[t] => stat[t] = "suspended" /\ ttmr[t] /\ firing # t
        /\ stat[t] = "suspended" /\ ttmr[t] /\ ~timer[t] => firing = t

WaitInv == WaitTypeOK /\ ListedOnce /\ ListedSuspended /\ SuspendedListed /\ TimersRight

LEMMA WaitInvInit == WaitInit => WaitInv
BY WaitAssumption DEF WaitInit, WaitInv, WaitTypeOK, ListedOnce, ListedSuspended, SuspendedListed,
       TimersRight, Errors

\* Outside the tick interrupt every waiting thread can be made ready.
LEMMA NobodyRefuses ==
    ASSUME WaitInv, firing = None, NEW l \in Lists, NEW i \in 1..Len(susp[l])
    PROVE  ~Refuses(susp[l][i])
BY WaitAssumption DEF WaitInv, WaitTypeOK, ListedSuspended, TimersRight, Refuses

LEMMA NothingInVain ==
    ASSUME WaitInv, firing = None, NEW l \in Lists
    PROVE  ~InVain(l)
<1>1. susp[l] # <<>> => 1 \in 1..Len(susp[l])
    BY DEF WaitInv, WaitTypeOK
<1> QED
    BY <1>1, NobodyRefuses DEF InVain

\* A ready thread is on no list.
LEMMA ReadyNotListed ==
    ASSUME WaitInv, NEW t \in Threads, stat[t] = "ready", NEW l \in Lists
    PROVE  ~On(susp[l], t)
BY DEF WaitInv, ListedSuspended, On

-----------------------------------------------------------------------------
(* Every step of waiting keeps it *)

LEMMA StillWaiting ==
    ASSUME WaitInv, UNCHANGED <<susp, stat, timer, ttmr, firing>>,
           error' \in [Threads -> Errors], nested' \in 0..NestMax
    PROVE  WaitInv'
BY DEF WaitInv, WaitTypeOK, ListedOnce, ListedSuspended, SuspendedListed, TimersRight, On

LEMMA SuspendKeeps ==
    ASSUME WaitInv, NEW t \in Threads, NEW l \in Lists, NEW err \in Errors,
           NEW w \in BOOLEAN, NEW op,
           stat[t] = "ready", firing = None, SuspendToList(t, l, err, w, op)
    PROVE  /\ WaitInv'
           /\ \A k \in Lists : \A x : On(susp'[k], x) <=> On(susp[k], x) \/ (k = l /\ x = t)
<1> DEFINE s == susp[l]
           q == Enqueue(s, t)
<1> USE DEF WaitInv, WaitTypeOK
<1>1. s \in Seq(Threads) /\ Distinct(s) /\ ~On(s, t)
    BY ReadyNotListed DEF ListedOnce, Distinct
<1>2. /\ q \in Seq(Threads) /\ Len(q) = Len(s) + 1
      /\ \A x : On(q, x) <=> On(s, x) \/ x = t
      /\ Distinct(q)
    BY <1>1, EnqueueFacts
<1> HIDE DEF q, s
<1>3. /\ susp' = [susp EXCEPT ![l] = q]
      /\ stat' = [stat EXCEPT ![t] = "suspended"]
      /\ timer' = [timer EXCEPT ![t] = w]
      /\ ttmr' = [ttmr EXCEPT ![t] = w]
      /\ error' = [error EXCEPT ![t] = err]
      /\ firing' = firing /\ nested' = nested
    BY DEF SuspendToList, q, s
<1>4. WaitTypeOK'
    BY <1>2, <1>3
<1>5. /\ susp'[l] = q
      /\ \A k \in Lists : k # l => susp'[k] = susp[k]
    BY <1>3
<1>6. \A k \in Lists : \A x : On(susp'[k], x) <=> On(susp[k], x) \/ (k = l /\ x = t)
    BY <1>2, <1>5 DEF s
<1>7. ListedOnce'
    <2> SUFFICES ASSUME NEW k \in Lists, NEW m \in Lists,
                        NEW i \in 1..Len(susp'[k]), NEW j \in 1..Len(susp'[m]),
                        susp'[k][i] = susp'[m][j]
                 PROVE  k = m /\ i = j
        BY DEF ListedOnce
    <2>1. CASE k = l /\ m = l
        BY <2>1, <1>2, <1>5 DEF Distinct
    <2>2. CASE k # l /\ m # l
        BY <2>2, <1>5 DEF ListedOnce
    <2>3. ASSUME NEW x, NEW n \in Lists, n # l, On(susp[n], x)
          PROVE  ~On(q, x)
        <3>1. x # t
            BY <2>3, ReadyNotListed
        <3>2. ~On(s, x)
            <4> SUFFICES ASSUME On(s, x) PROVE FALSE
                OBVIOUS
            <4>1. PICK u \in 1..Len(susp[n]) : susp[n][u] = x
                BY <2>3 DEF On
            <4>2. PICK v \in 1..Len(susp[l]) : susp[l][v] = x
                BY DEF On, s
            <4> QED
                BY <2>3, <4>1, <4>2 DEF ListedOnce
        <3> QED
            BY <3>1, <3>2, <1>2
    <2>4. CASE k # l /\ m = l
        BY <2>3, <2>4, <1>5 DEF On
    <2>5. CASE k = l /\ m # l
        BY <2>3, <2>5, <1>5 DEF On
    <2> QED
        BY <2>1, <2>2, <2>4, <2>5
<1>8. ListedSuspended'
    <2> SUFFICES ASSUME NEW k \in Lists, NEW i \in 1..Len(susp'[k])
                 PROVE  stat'[susp'[k][i]] = "suspended"
        BY DEF ListedSuspended
    <2>1. On(susp'[k], susp'[k][i])
        BY DEF On
    <2>2. CASE susp'[k][i] = t
        BY <2>2, <1>3
    <2>3. CASE susp'[k][i] # t
        <3>1. On(susp[k], susp'[k][i])
            BY <2>1, <2>3, <1>6
        <3>2. stat[susp'[k][i]] = "suspended" /\ susp'[k][i] \in Threads
            BY <3>1 DEF On, ListedSuspended
        <3> QED
            BY <3>2, <2>3, <1>3
    <2> QED
        BY <2>2, <2>3
<1>9. SuspendedListed'
    <2> SUFFICES ASSUME NEW u \in Threads, stat'[u] = "suspended"
                 PROVE  \E k \in Lists : On(susp'[k], u)
        BY DEF SuspendedListed
    <2>1. CASE u = t
        BY <2>1, <1>6
    <2>2. CASE u # t
        BY <2>2, <1>3, <1>6 DEF SuspendedListed
    <2> QED
        BY <2>1, <2>2
<1>10. TimersRight'
    BY <1>3, WaitAssumption DEF TimersRight
<1> QED
    BY <1>4, <1>6, <1>7, <1>8, <1>9, <1>10

LEMMA TimerExpiresKeeps ==
    ASSUME WaitInv, NEW t \in Threads, TimerExpires(t)
    PROVE  WaitInv'
<1> USE DEF WaitInv, WaitTypeOK, TimerExpires
<1>1. WaitTypeOK'
    BY WaitAssumption
<1>2. ListedOnce' /\ ListedSuspended' /\ SuspendedListed'
    BY DEF ListedOnce, ListedSuspended, SuspendedListed, On
<1>3. TimersRight'
    BY WaitAssumption DEF TimersRight
<1> QED
    BY <1>1, <1>2, <1>3

\* What taking the threads in gone off all lists does to the lists.
LEMMA WithoutKeepsLists ==
    ASSUME susp \in [Lists -> Seq(Threads)], ListedOnce, NEW gone,
           susp' = [l \in Lists |-> Without(susp[l], gone)]
    PROVE  /\ susp' \in [Lists -> Seq(Threads)]
           /\ \A l \in Lists : \A x : On(susp'[l], x) <=> On(susp[l], x) /\ x \notin gone
           /\ ListedOnce'
<1>1. ASSUME NEW l \in Lists
      PROVE  /\ susp'[l] = Without(susp[l], gone)
             /\ susp'[l] \in Seq(Threads)
             /\ \A x : On(susp'[l], x) <=> On(susp[l], x) /\ x \notin gone
             /\ Distinct(susp'[l])
    <2>1. susp[l] \in Seq(Threads) /\ Distinct(susp[l])
        BY DEF ListedOnce, Distinct
    <2> QED
        BY <2>1, WithoutFacts
<1>2. ListedOnce'
    <2> SUFFICES ASSUME NEW k \in Lists, NEW m \in Lists,
                        NEW i \in 1..Len(susp'[k]), NEW j \in 1..Len(susp'[m]),
                        susp'[k][i] = susp'[m][j]
                 PROVE  k = m /\ i = j
        BY DEF ListedOnce
    <2>1. On(susp'[k], susp'[k][i]) /\ On(susp'[m], susp'[k][i])
        BY DEF On
    <2>2. On(susp[k], susp'[k][i]) /\ On(susp[m], susp'[k][i])
        BY <1>1, <2>1
    <2>3. k = m
        BY <2>2 DEF On, ListedOnce
    <2> QED
        BY <2>3, <1>1 DEF Distinct
<1>3. susp' \in [Lists -> Seq(Threads)]
    BY <1>1
<1> QED
    BY <1>1, <1>2, <1>3

LEMMA ThreadTimeoutKeeps ==
    ASSUME WaitInv, ThreadTimeout
    PROVE  /\ WaitInv'
           /\ \A l \in Lists : \A x : On(susp'[l], x) <=> On(susp[l], x) /\ x # firing
<1>1. /\ susp' \in [Lists -> Seq(Threads)]
      /\ \A l \in Lists : \A x : On(susp'[l], x) <=> On(susp[l], x) /\ x # firing
      /\ ListedOnce'
    <2>1. susp' = [l \in Lists |-> Without(susp[l], {firing})]
        BY DEF ThreadTimeout
    <2>2. /\ susp' \in [Lists -> Seq(Threads)]
          /\ \A l \in Lists : \A x : On(susp'[l], x) <=> On(susp[l], x) /\ x \notin {firing}
          /\ ListedOnce'
        BY <2>1, WithoutKeepsLists DEF WaitInv, WaitTypeOK
    <2> QED
        BY <2>2
<1> USE DEF WaitInv, WaitTypeOK, ThreadTimeout
<1>2. WaitTypeOK'
    <2>1. firing \in Threads /\ "ETIMEOUT" \in Errors /\ 0 \in 0..NestMax
        BY WaitAssumption DEF Errors
    <2> QED
        BY <1>1, <2>1
<1>3. ListedSuspended'
    <2> SUFFICES ASSUME NEW k \in Lists, NEW i \in 1..Len(susp'[k])
                 PROVE  stat'[susp'[k][i]] = "suspended"
        BY DEF ListedSuspended
    <2>1. On(susp'[k], susp'[k][i])
        BY DEF On
    <2>2. On(susp[k], susp'[k][i]) /\ susp'[k][i] # firing
        BY <1>1, <2>1
    <2>3. stat[susp'[k][i]] = "suspended" /\ susp'[k][i] \in Threads
        BY <2>2 DEF On, ListedSuspended
    <2> QED
        BY <2>2, <2>3
<1>4. SuspendedListed'
    BY <1>1 DEF SuspendedListed
<1>5. TimersRight'
    BY WaitAssumption DEF TimersRight
<1> QED
    BY <1>1, <1>2, <1>3, <1>4, <1>5

-----------------------------------------------------------------------------
(* Waking *)

LEMMA SuffixFacts ==
    ASSUME NEW S, NEW s \in Seq(S), NEW n \in Nat, n <= Len(s)
    PROVE  /\ SubSeq(s, n + 1, Len(s)) \in Seq(S)
           /\ Len(SubSeq(s, n + 1, Len(s))) = Len(s) - n
           /\ \A i \in 1..Len(s) - n :
                  n + i \in 1..Len(s) /\ SubSeq(s, n + 1, Len(s))[i] = s[n + i]
OBVIOUS

\* The threads woken from list l, at most m, are the first n, up to one that
\* refuses.
IsWoken(n, l, m) ==
    /\ n \in 0..m
    /\ Woken(l, m) \in Seq(Threads) /\ Len(Woken(l, m)) = n
    /\ \A j \in 1..n : Woken(l, m)[j] = susp[l][j] /\ ~Refuses(susp[l][j])
    /\ n < m => Refuses(susp[l][n + 1])

LEMMA WokenPrefix ==
    ASSUME susp \in [Lists -> Seq(Threads)], NEW l \in Lists,
           NEW m \in Nat, m <= Len(susp[l])
    PROVE  \E n : IsWoken(n, l, m)
<1> DEFINE s == SubSeq(susp[l], 1, m)
           I == {i \in 1..Len(s) : Refuses(s[i])}
<1>1. s \in Seq(Threads) /\ Len(s) = m /\ \A j \in 1..m : s[j] = susp[l][j]
    OBVIOUS
<1>2. SelectInSeq(s, Refuses) = IF I # {} THEN Min(I) ELSE 0
    BY DEF SelectInSeq
<1> HIDE DEF s
<1>3. CASE I = {}
    <2>1. Woken(l, m) = s
        BY <1>2, <1>3 DEF Woken, s
    <2>2. \A j \in 1..m : ~Refuses(susp[l][j])
        BY <1>1, <1>3
    <2>3. IsWoken(m, l, m)
        BY <1>1, <2>1, <2>2 DEF IsWoken
    <2> QED
        BY <2>3
<1>4. CASE I # {}
    <2> DEFINE k == Min(I)
    <2>1. I \in SUBSET Nat
        OBVIOUS
    <2>2. k \in I /\ \A y \in I : k <= y
        BY <2>1, <1>4, MinOfNaturals
    <2>3. k \in 1..m /\ Refuses(susp[l][k])
        BY <2>2, <1>1
    <2>4. \A j \in 1..k - 1 : ~Refuses(susp[l][j])
        BY <2>2, <2>3, <1>1
    <2>5. SelectInSeq(s, Refuses) = k
        BY <1>2, <1>4
    <2> HIDE DEF k, I
    <2>6. Woken(l, m) = SubSeq(s, 1, k - 1)
        BY <2>5, <2>3 DEF Woken, s
    <2>7. /\ Woken(l, m) \in Seq(Threads)
          /\ Len(Woken(l, m)) = k - 1 /\ \A j \in 1..k - 1 : Woken(l, m)[j] = susp[l][j]
        BY <2>6, <2>3, <1>1
    <2>8. k - 1 \in 0..m /\ (k - 1) + 1 = k
        BY <2>3
    <2>9. IsWoken(k - 1, l, m)
        BY <2>3, <2>4, <2>7, <2>8 DEF IsWoken
    <2> QED
        BY <2>9
<1> QED
    BY <1>3, <1>4

\* The first n[l] threads of each list.
FirstOf(n) == {t \in Threads : \E l \in Lists : \E j \in 1..n[l] : susp[l][j] = t}

\* These threads are made ready.  Of the timer flags of the others, none is
\* set, and that of a thread whose timer runs is not cleared.
Resumed(n, err) ==
    /\ susp' = [l \in Lists |-> SubSeq(susp[l], n[l] + 1, Len(susp[l]))]
    /\ stat' = [t \in Threads |-> IF t \in FirstOf(n) THEN "ready" ELSE stat[t]]
    /\ error' = [t \in Threads |-> IF t \in FirstOf(n) THEN err ELSE error[t]]
    /\ timer' = [t \in Threads |-> timer[t] /\ t \notin FirstOf(n)]
    /\ ttmr' \in [Threads -> BOOLEAN]
    /\ \A t \in Threads :
           /\ ttmr'[t] => ttmr[t] /\ t \notin FirstOf(n)
           /\ ttmr[t] /\ timer[t] /\ t \notin FirstOf(n) => ttmr'[t]
    /\ firing' = firing

\* Counts of threads that can be made ready, at most most[l] on each list and
\* less only if the next one refuses.
CanWake(n, most) ==
    /\ n \in [Lists -> Nat]
    /\ \A l \in Lists :
           /\ n[l] <= most[l] /\ n[l] <= Len(susp[l])
           /\ \A j \in 1..n[l] : ~Refuses(susp[l][j])
           /\ n[l] < most[l] => Refuses(susp[l][n[l] + 1])

LEMMA ResumeFacts ==
    ASSUME WaitTypeOK, NEW most \in [Lists -> Nat], NEW err,
           \A l \in Lists : most[l] <= Len(susp[l]),
           Resume(most, err)
    PROVE  \E n : CanWake(n, most) /\ Resumed(n, err)
<1> DEFINE w == [l \in Lists |-> Woken(l, most[l])]
           woken == UNION {ToSet(w[l]) : l \in Lists}
           asked == {susp[l][Len(w[l]) + 1] : l \in {k \in Lists : Len(w[k]) < most[k]}}
           n == [l \in Lists |-> Len(w[l])]
<1> USE DEF WaitTypeOK
<1>1. ASSUME NEW l \in Lists
      PROVE  /\ n[l] = Len(w[l]) /\ n[l] \in 0..most[l]
             /\ \A j \in 1..n[l] : w[l][j] = susp[l][j] /\ ~Refuses(susp[l][j])
             /\ n[l] < most[l] => Refuses(susp[l][n[l] + 1])
             /\ most[l] \in Nat /\ most[l] <= Len(susp[l])
             /\ DOMAIN w[l] = 1..n[l]
    <2>1. most[l] \in Nat /\ most[l] <= Len(susp[l])
        OBVIOUS
    <2>2. PICK k : IsWoken(k, l, most[l])
        BY <2>1, WokenPrefix
    <2> QED
        BY <2>1, <2>2 DEF IsWoken
<1>2. /\ susp' = [l \in Lists |-> SubSeq(susp[l], Len(w[l]) + 1, Len(susp[l]))]
      /\ stat' = [t \in Threads |-> IF t \in woken THEN "ready" ELSE stat[t]]
      /\ error' = [t \in Threads |-> IF t \in woken THEN err ELSE error[t]]
      /\ timer' = [t \in Threads |-> timer[t] /\ t \notin woken]
      /\ ttmr' = [t \in Threads |->
                     ttmr[t] /\ t \notin woken /\ ~(t \in asked /\ stat[t] = "suspended")]
      /\ firing' = firing
    BY DEF Resume
<1>3. ASSUME NEW t
      PROVE  t \in woken <=> \E l \in Lists : \E j \in 1..n[l] : susp[l][j] = t
    <2>1. t \in woken <=> \E l \in Lists : \E j \in DOMAIN w[l] : w[l][j] = t
        <3>1. ASSUME NEW l \in Lists, NEW j \in DOMAIN w[l], w[l][j] = t
              PROVE  t \in woken
            <4> HIDE DEF w
            <4>1. t \in ToSet(w[l])
                BY <3>1 DEF ToSet
            <4> QED
                BY <4>1
        <3>2. ASSUME t \in woken
              PROVE  \E l \in Lists : \E j \in DOMAIN w[l] : w[l][j] = t
            <4> HIDE DEF w
            <4>1. PICK l \in Lists : t \in ToSet(w[l])
                BY <3>2
            <4> QED
                BY <4>1 DEF ToSet
        <3> QED
            BY <3>1, <3>2
    <2> HIDE DEF w, n, woken
    <2>2. ASSUME NEW l \in Lists
          PROVE  (\E j \in DOMAIN w[l] : w[l][j] = t) <=> (\E j \in 1..n[l] : susp[l][j] = t)
        <3>1. DOMAIN w[l] = 1..n[l] /\ \A j \in 1..n[l] : w[l][j] = susp[l][j]
            BY <1>1
        <3> QED
            BY <3>1, Zenon
    <2> QED
        BY <2>1, <2>2, Zenon
<1>4. ASSUME NEW t \in Threads
      PROVE  t \in woken <=> t \in FirstOf(n)
    BY <1>3 DEF FirstOf
<1>5. ASSUME NEW t \in asked, stat[t] = "suspended"
      PROVE  ~timer[t]
    <2>1. PICK l \in Lists : Len(w[l]) < most[l] /\ t = susp[l][Len(w[l]) + 1]
        OBVIOUS
    <2> HIDE DEF w, n, woken, asked
    <2>2. Refuses(t)
        BY <1>1, <2>1
    <2> QED
        BY <2>2, <1>5 DEF Refuses
<1> HIDE DEF w, woken, asked
<1>6. CanWake(n, most)
    <2>1. n \in [Lists -> Nat]
        <3>1. \A l \in Lists : n[l] \in Nat
            BY <1>1
        <3> QED
            BY <3>1
    <2> HIDE DEF n
    <2> QED
        BY <2>1, <1>1 DEF CanWake
<1>7. Resumed(n, err)
    <2>1. susp' = [l \in Lists |-> SubSeq(susp[l], n[l] + 1, Len(susp[l]))]
        BY <1>2
    <2> HIDE DEF n
    <2>2. /\ stat' = [t \in Threads |-> IF t \in FirstOf(n) THEN "ready" ELSE stat[t]]
          /\ error' = [t \in Threads |-> IF t \in FirstOf(n) THEN err ELSE error[t]]
        BY <1>2, <1>4
    <2>3. timer' = [t \in Threads |-> timer[t] /\ t \notin FirstOf(n)]
        BY <1>2, <1>4
    <2>4. ttmr' \in [Threads -> BOOLEAN]
        BY <1>2
    <2>5. ASSUME NEW t \in Threads
          PROVE  /\ ttmr'[t] => ttmr[t] /\ t \notin FirstOf(n)
                 /\ ttmr[t] /\ timer[t] /\ t \notin FirstOf(n) => ttmr'[t]
        BY <1>2, <1>4, <1>5
    <2> QED
        BY <2>1, <2>2, <2>3, <2>4, <2>5, <1>2 DEF Resumed
<1> QED
    BY <1>6, <1>7

LEMMA ResumedKeeps ==
    ASSUME WaitInv, NEW n, NEW most, NEW err \in Errors, CanWake(n, most), Resumed(n, err),
           nested' \in 0..NestMax
    PROVE  /\ WaitInv'
           /\ \A l \in Lists : \A x : On(susp'[l], x) <=> On(susp[l], x) /\ x \notin FirstOf(n)
<1> USE DEF WaitInv, WaitTypeOK
<1>1. ASSUME NEW l \in Lists
      PROVE  /\ n[l] \in Nat /\ n[l] <= Len(susp[l])
             /\ susp[l] \in Seq(Threads) /\ susp'[l] \in Seq(Threads)
             /\ Len(susp'[l]) = Len(susp[l]) - n[l]
             /\ \A i \in 1..Len(susp'[l]) :
                    n[l] + i \in 1..Len(susp[l]) /\ susp'[l][i] = susp[l][n[l] + i]
    <2>1. n[l] \in Nat /\ n[l] <= Len(susp[l]) /\ susp[l] \in Seq(Threads)
        BY DEF CanWake
    <2>2. susp'[l] = SubSeq(susp[l], n[l] + 1, Len(susp[l]))
        BY DEF Resumed
    <2> HIDE DEF WaitInv, WaitTypeOK
    <2> DEFINE q == susp[l]
               m == n[l]
               r == SubSeq(q, m + 1, Len(q))
    <2>3. r \in Seq(Threads) /\ Len(r) = Len(q) - m
          /\ \A i \in 1..Len(q) - m : m + i \in 1..Len(q) /\ r[i] = q[m + i]
        <3>1. q \in Seq(Threads) /\ m \in Nat /\ m <= Len(q)
            BY <2>1
        <3> HIDE DEF q, m
        <3> QED
            BY <3>1, SuffixFacts
    <2>4. susp'[l] = r
        BY <2>2
    <2> HIDE DEF r
    <2> QED
        BY <2>1, <2>3, <2>4
<1>2. ASSUME NEW l \in Lists, NEW i \in 1..Len(susp[l])
      PROVE  susp[l][i] \in FirstOf(n) <=> i <= n[l]
    <2>1. ASSUME i <= n[l]
          PROVE  susp[l][i] \in FirstOf(n)
        <3>1. i \in 1..n[l] /\ susp[l][i] \in Threads
            BY <1>1, <2>1
        <3> QED
            BY <3>1 DEF FirstOf
    <2>2. ASSUME susp[l][i] \in FirstOf(n)
          PROVE  i <= n[l]
        <3>0. PICK k \in Lists : \E j \in 1..n[k] : susp[k][j] = susp[l][i]
            BY <2>2 DEF FirstOf
        <3>1. PICK j \in 1..n[k] : susp[k][j] = susp[l][i]
            BY <3>0
        <3>2. j \in 1..Len(susp[k])
            BY <1>1
        <3>3. k = l /\ j = i
            BY <3>1, <3>2 DEF ListedOnce
        <3> QED
            BY <3>3
    <2> QED
        BY <2>1, <2>2
<1>3. ASSUME NEW l \in Lists, NEW x
      PROVE  On(susp'[l], x) <=> On(susp[l], x) /\ x \notin FirstOf(n)
    <2>1. ASSUME NEW i \in 1..Len(susp'[l]), susp'[l][i] = x
          PROVE  On(susp[l], x) /\ x \notin FirstOf(n)
        <3>1. n[l] + i \in 1..Len(susp[l]) /\ susp[l][n[l] + i] = x /\ ~(n[l] + i <= n[l])
            BY <1>1, <2>1
        <3> QED
            BY <3>1, <1>2 DEF On
    <2>2. ASSUME NEW i \in 1..Len(susp[l]), susp[l][i] = x, x \notin FirstOf(n)
          PROVE  On(susp'[l], x)
        <3>1. ~(i <= n[l])
            BY <1>2, <2>2
        <3>2. i - n[l] \in 1..Len(susp'[l]) /\ n[l] + (i - n[l]) = i
            BY <3>1, <1>1
        <3>3. susp'[l][i - n[l]] = x
            BY <3>2, <1>1, <2>2
        <3> QED
            BY <3>2, <3>3 DEF On
    <2> QED
        BY <2>1, <2>2 DEF On
<1>4. WaitTypeOK'
    <2>1. susp' \in [Lists -> Seq(Threads)]
        BY <1>1 DEF Resumed
    <2>2. timer' \in [Threads -> BOOLEAN]
        BY DEF Resumed
    <2> QED
        BY <2>1, <2>2 DEF Resumed
<1>5. ListedOnce'
    <2> SUFFICES ASSUME NEW k \in Lists, NEW m \in Lists,
                        NEW i \in 1..Len(susp'[k]), NEW j \in 1..Len(susp'[m]),
                        susp'[k][i] = susp'[m][j]
                 PROVE  k = m /\ i = j
        BY DEF ListedOnce
    <2>1. /\ n[k] + i \in 1..Len(susp[k]) /\ n[m] + j \in 1..Len(susp[m])
          /\ susp[k][n[k] + i] = susp[m][n[m] + j]
        BY <1>1
    <2>2. k = m /\ n[k] + i = n[m] + j
        BY <2>1 DEF ListedOnce
    <2> QED
        BY <2>2, <1>1
<1>6. ListedSuspended'
    <2> SUFFICES ASSUME NEW l \in Lists, NEW i \in 1..Len(susp'[l])
                 PROVE  stat'[susp'[l][i]] = "suspended"
        BY DEF ListedSuspended
    <2>1. On(susp'[l], susp'[l][i])
        BY DEF On
    <2>2. On(susp[l], susp'[l][i]) /\ susp'[l][i] \notin FirstOf(n)
        BY <1>3, <2>1
    <2>3. stat[susp'[l][i]] = "suspended" /\ susp'[l][i] \in Threads
        BY <2>2 DEF On, ListedSuspended
    <2> QED
        BY <2>2, <2>3 DEF Resumed
<1>7. SuspendedListed'
    BY <1>3 DEF SuspendedListed, Resumed
<1>8. TimersRight'
    <2> SUFFICES ASSUME NEW t \in Threads
                 PROVE  /\ timer'[t] => stat'[t] = "suspended" /\ ttmr'[t] /\ firing' # t
                        /\ stat'[t] = "suspended" /\ ttmr'[t] /\ ~timer'[t] => firing' = t
        BY DEF TimersRight
    <2>1. CASE t \in FirstOf(n)
        BY <2>1 DEF Resumed
    <2>2. CASE t \notin FirstOf(n)
        BY <2>2 DEF Resumed, TimersRight
    <2> QED
        BY <2>1, <2>2
<1> QED
    BY <1>3, <1>4, <1>5, <1>6, <1>7, <1>8

\* The threads in w are made ready with the result err.
WakesUp(w, err) ==
    /\ w \subseteq Threads /\ \A t \in w : ~Refuses(t)
    /\ stat' = [t \in Threads |-> IF t \in w THEN "ready" ELSE stat[t]]
    /\ error' = [t \in Threads |-> IF t \in w THEN err ELSE error[t]]
    /\ \A l \in Lists : \A x : On(susp'[l], x) <=> On(susp[l], x) /\ x \notin w
    /\ firing' = firing

LEMMA ResumedWakesUp ==
    ASSUME WaitInv, NEW n, NEW most, NEW err \in Errors, CanWake(n, most), Resumed(n, err),
           nested' \in 0..NestMax
    PROVE  WaitInv' /\ WakesUp(FirstOf(n), err)
<1>1. /\ WaitInv'
      /\ \A l \in Lists : \A x : On(susp'[l], x) <=> On(susp[l], x) /\ x \notin FirstOf(n)
    BY ResumedKeeps
<1>2. ASSUME NEW t \in FirstOf(n)
      PROVE  ~Refuses(t)
    BY DEF FirstOf, CanWake
<1>3. FirstOf(n) \subseteq Threads
    BY DEF FirstOf
<1> QED
    BY <1>1, <1>2, <1>3 DEF WakesUp, Resumed

\* Waking the first thread of a list wakes that one if there is one, unless it
\* is in vain.
LEMMA ResumeFirstWakes ==
    ASSUME WaitInv, NEW l \in Lists, NEW err \in Errors, ResumeFirst(l, err),
           nested' \in 0..NestMax
    PROVE  /\ WaitInv'
           /\ \E w : /\ WakesUp(w, err)
                     /\ susp[l] = <<>> => w = {}
                     /\ InVain(l) => w = {}
                     /\ susp[l] # <<>> /\ ~InVain(l) => w = {susp[l][1]}
<1> DEFINE most == [k \in Lists |-> IF k = l /\ susp[k] # <<>> THEN 1 ELSE 0]
<1>1. susp \in [Lists -> Seq(Threads)] /\ WaitTypeOK
    BY DEF WaitInv, WaitTypeOK
<1>2. most \in [Lists -> Nat] /\ \A k \in Lists : most[k] <= Len(susp[k])
    <2>1. ASSUME NEW k \in Lists, susp[k] # <<>>
          PROVE  Len(susp[k]) >= 1
        BY <1>1, <2>1
    <2>2. ASSUME NEW k \in Lists
          PROVE  Len(susp[k]) >= 0
        BY <1>1
    <2> QED
        BY <2>1, <2>2
<1>3. Resume(most, err)
    BY DEF ResumeFirst
<1> HIDE DEF most
<1>4. PICK n : CanWake(n, most) /\ Resumed(n, err)
    BY <1>1, <1>2, <1>3, ResumeFacts
<1>5. WaitInv' /\ WakesUp(FirstOf(n), err)
    BY <1>4, ResumedWakesUp
<1>6. ASSUME NEW k \in Lists, k # l \/ susp[l] = <<>>
      PROVE  n[k] = 0
    BY <1>4, <1>6 DEF CanWake, most
<1>7. n[l] \in {0, 1}
    BY <1>4 DEF CanWake, most
<1>8. ASSUME n[l] = 0
      PROVE  FirstOf(n) = {}
    BY <1>6, <1>8 DEF FirstOf
<1>9. ASSUME n[l] = 1, susp[l] # <<>>
      PROVE  FirstOf(n) = {susp[l][1]}
    <2>1. susp[l][1] \in Threads
        BY <1>1, <1>9
    <2> QED
        BY <1>6, <1>9, <2>1 DEF FirstOf
<1>10. ASSUME susp[l] # <<>>
       PROVE  n[l] = IF InVain(l) THEN 0 ELSE 1
    <2>1. InVain(l) <=> Refuses(susp[l][1])
        BY <1>10 DEF InVain
    <2>2. most[l] = 1
        BY <1>10 DEF most
    <2>3. n[l] < most[l] => Refuses(susp[l][n[l] + 1])
        BY <1>4 DEF CanWake
    <2>4. n[l] = 1 => ~Refuses(susp[l][1])
        BY <1>4 DEF CanWake
    <2> QED
        BY <1>7, <2>1, <2>2, <2>3, <2>4
<1>11. /\ susp[l] = <<>> => FirstOf(n) = {}
       /\ InVain(l) => FirstOf(n) = {}
       /\ susp[l] # <<>> /\ ~InVain(l) => FirstOf(n) = {susp[l][1]}
    <2>1. InVain(l) => susp[l] # <<>>
        BY DEF InVain
    <2> QED
        BY <1>6, <1>8, <1>9, <1>10, <2>1
<1> QED
    BY <1>5, <1>11

\* Waking all threads outside the tick interrupt empties the lists.
LEMMA ResumeAllWakes ==
    ASSUME WaitInv, NEW err \in Errors, ResumeAll(err), firing = None, nested' \in 0..NestMax
    PROVE  /\ WaitInv'
           /\ \A l \in Lists : susp'[l] = <<>>
           /\ WakesUp({t \in Threads : stat[t] = "suspended"}, err)
<1> DEFINE most == [k \in Lists |-> Len(susp[k])]
<1>1. susp \in [Lists -> Seq(Threads)] /\ WaitTypeOK
    BY DEF WaitInv, WaitTypeOK
<1>2. most \in [Lists -> Nat] /\ \A k \in Lists : most[k] <= Len(susp[k])
    BY <1>1
<1>3. Resume(most, err)
    BY DEF ResumeAll
<1> HIDE DEF most
<1>4. PICK n : CanWake(n, most) /\ Resumed(n, err)
    BY <1>1, <1>2, <1>3, ResumeFacts
<1>5. WaitInv' /\ WakesUp(FirstOf(n), err)
    BY <1>4, ResumedWakesUp
<1>6. ASSUME NEW l \in Lists
      PROVE  n[l] = Len(susp[l])
    <2>1. /\ n[l] \in Nat /\ n[l] <= Len(susp[l])
          /\ n[l] < Len(susp[l]) => Refuses(susp[l][n[l] + 1])
        BY <1>4 DEF CanWake, most
    <2>2. CASE n[l] < Len(susp[l])
        <3>1. n[l] + 1 \in 1..Len(susp[l])
            BY <2>1, <2>2, <1>1
        <3> QED
            BY <2>1, <2>2, <3>1, NobodyRefuses
    <2> QED
        BY <2>1, <2>2, <1>1
<1>7. ASSUME NEW l \in Lists
      PROVE  susp'[l] = <<>>
    <2>1. susp'[l] = SubSeq(susp[l], Len(susp[l]) + 1, Len(susp[l]))
        BY <1>4, <1>6 DEF Resumed
    <2> QED
        BY <1>1, <2>1
<1>8. FirstOf(n) = {t \in Threads : stat[t] = "suspended"}
    <2>1. ASSUME NEW t \in Threads, stat[t] = "suspended"
          PROVE  t \in FirstOf(n)
        <3>1. PICK l \in Lists : On(susp[l], t)
            BY <2>1 DEF WaitInv, SuspendedListed
        <3> QED
            BY <3>1, <1>6 DEF FirstOf, On
    <2>2. ASSUME NEW t \in FirstOf(n)
          PROVE  stat[t] = "suspended"
        BY <1>6 DEF FirstOf, WaitInv, ListedSuspended
    <2> QED
        BY <2>1, <2>2 DEF FirstOf
<1> QED
    BY <1>5, <1>7, <1>8

=============================================================================
