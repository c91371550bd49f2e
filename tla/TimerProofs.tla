---------------------------- MODULE TimerProofs ----------------------------
(***************************************************************************)
(* The timers for every set of timers, every set of times below half the   *)
(* range of the tick counter, and wherever that counter wraps: the list of *)
(* timers holds exactly the timers that can be stopped, and the whole      *)
(* implements Countdown.                                                   *)
(***************************************************************************)
EXTENDS Timer, NaturalsInduction, WellFoundedInduction, TLAPS

-----------------------------------------------------------------------------
(* Lists *)

LEMMA MinOfNaturals ==
    ASSUME NEW I \in SUBSET Nat, I # {}
    PROVE  Min(I) \in I /\ \A y \in I : Min(I) <= y
<1>1. IsWellFoundedOn(OpToRel(<, Nat), Nat)
    BY NatLessThanWellFounded
<1>2. PICK x \in I : \A y \in I : ~(<<y, x>> \in OpToRel(<, Nat))
    BY <1>1, WFMin, Zenon
<1>3. ASSUME NEW y \in Nat, y < x
      PROVE  <<y, x>> \in OpToRel(<, Nat)
    <2>1. OpToRel(<, Nat) = {ss \in Nat \X Nat : ss[1] < ss[2]}
        BY Zenon DEF OpToRel
    <2>2. <<y, x>> \in {ss \in Nat \X Nat : ss[1] < ss[2]}
        BY <1>3
    <2> QED
        BY <2>1, <2>2, Zenon
<1>4. \A y \in I : ~(y < x)
    BY <1>2, <1>3, Zenon
<1>5. \E m \in I : \A y \in I : m <= y
    BY <1>4
<1> QED
    BY <1>5, Zenon DEF Min

\* x is in s; x comes before y in s; nothing is in s twice.
On(s, x) == \E i \in 1..Len(s) : s[i] = x
Ahead(s, x, y) == \E i, j \in 1..Len(s) : i < j /\ s[i] = x /\ s[j] = y
Distinct(s) == \A i, j \in 1..Len(s) : s[i] = s[j] => i = j

LEMMA AheadFacts ==
    ASSUME NEW S, NEW s \in Seq(S), NEW x, NEW y
    PROVE  /\ Ahead(s, x, y) => On(s, x) /\ On(s, y)
           /\ Distinct(s) /\ Ahead(s, x, y) => x # y /\ ~Ahead(s, y, x)
           /\ On(s, x) /\ On(s, y) /\ x # y => Ahead(s, x, y) \/ Ahead(s, y, x)
<1>1. Ahead(s, x, y) => On(s, x) /\ On(s, y)
    BY DEF Ahead, On
<1>2. ASSUME Distinct(s), Ahead(s, x, y) PROVE x # y /\ ~Ahead(s, y, x)
    <2>1. PICK i \in 1..Len(s), j \in 1..Len(s) : i < j /\ s[i] = x /\ s[j] = y
        BY <1>2 DEF Ahead
    <2>2. \A k \in 1..Len(s) : (s[k] = x => k = i) /\ (s[k] = y => k = j)
        BY <1>2, <2>1 DEF Distinct
    <2> QED
        BY <2>1, <2>2 DEF Ahead
<1>3. ASSUME On(s, x), On(s, y), x # y PROVE Ahead(s, x, y) \/ Ahead(s, y, x)
    <2>1. PICK i \in 1..Len(s), j \in 1..Len(s) : s[i] = x /\ s[j] = y
        BY <1>3 DEF On
    <2>2. i < j \/ j < i
        BY <1>3, <2>1
    <2> QED
        BY <2>1, <2>2 DEF Ahead
<1> QED
    BY <1>1, <1>2, <1>3

\* r is s with t put at place k.
IsInsert(r, s, k, t) ==
    /\ Len(r) = Len(s) + 1 /\ r[k] = t
    /\ \A j \in 1..k - 1 : r[j] = s[j]
    /\ \A j \in k..Len(s) : r[j + 1] = s[j]

LEMMA InsertFacts ==
    ASSUME NEW S, NEW s \in Seq(S), NEW t \in S, NEW k \in 1..Len(s) + 1,
           NEW r \in Seq(S), IsInsert(r, s, k, t), ~On(s, t), Distinct(s)
    PROVE  /\ Distinct(r)
           /\ \A x : On(r, x) <=> On(s, x) \/ x = t
           /\ \A x, y : Ahead(r, x, y) =>
                 \/ Ahead(s, x, y)
                 \/ y = t /\ \E i \in 1..k - 1 : s[i] = x
                 \/ x = t /\ \E i \in k..Len(s) : s[i] = y
           /\ \A x, y : Ahead(s, x, y) => Ahead(r, x, y)
<1> DEFINE Old(j) == IF j < k THEN j ELSE j - 1
           New(j) == IF j < k THEN j ELSE j + 1
<1>0. /\ Len(s) \in Nat /\ Len(r) = Len(s) + 1 /\ r[k] = t
      /\ \A j \in 1..k - 1 : r[j] = s[j]
      /\ \A j \in k..Len(s) : r[j + 1] = s[j]
    BY DEF IsInsert
<1>1. ASSUME NEW j \in 1..Len(r), j # k
      PROVE  Old(j) \in 1..Len(s) /\ r[j] = s[Old(j)]
    <2>1. CASE j < k
        BY <1>0, <1>1, <2>1
    <2>2. CASE j > k
        <3>1. j - 1 \in k..Len(s) /\ (j - 1) + 1 = j
            BY <1>0, <2>2
        <3> QED
            BY <1>0, <2>2, <3>1
    <2> QED
        BY <1>1, <2>1, <2>2
<1>2. ASSUME NEW j \in 1..Len(s)
      PROVE  New(j) \in 1..Len(r) /\ r[New(j)] = s[j]
    BY <1>0
<1>3. ASSUME NEW x PROVE On(r, x) <=> On(s, x) \/ x = t
    <2>1. ASSUME On(r, x) PROVE On(s, x) \/ x = t
        <3>1. PICK j \in 1..Len(r) : r[j] = x
            BY <2>1 DEF On
        <3> QED
            BY <1>0, <1>1, <3>1 DEF On
    <2>2. ASSUME On(s, x) PROVE On(r, x)
        <3>1. PICK j \in 1..Len(s) : s[j] = x
            BY <2>2 DEF On
        <3> QED
            BY <1>2, <3>1 DEF On
    <2>3. On(r, t)
        BY <1>0 DEF On
    <2> QED
        BY <2>1, <2>2, <2>3
<1>4. ASSUME NEW x, NEW y, Ahead(r, x, y)
      PROVE  \/ Ahead(s, x, y)
             \/ y = t /\ \E i \in 1..k - 1 : s[i] = x
             \/ x = t /\ \E i \in k..Len(s) : s[i] = y
    <2>1. PICK i \in 1..Len(r), j \in 1..Len(r) : i < j /\ r[i] = x /\ r[j] = y
        BY <1>4 DEF Ahead
    <2>2. CASE i = k
        <3>1. j # k /\ Old(j) \in k..Len(s)
            BY <1>1, <2>1, <2>2
        <3> QED
            BY <1>0, <1>1, <2>1, <2>2, <3>1
    <2>3. CASE j = k
        <3>1. i # k /\ Old(i) \in 1..k - 1
            BY <1>1, <2>1, <2>3
        <3> QED
            BY <1>0, <1>1, <2>1, <2>3, <3>1
    <2>4. CASE i # k /\ j # k
        <3>1. Old(i) < Old(j)
            BY <2>1, <2>4
        <3>2. Old(i) \in 1..Len(s) /\ s[Old(i)] = x /\ Old(j) \in 1..Len(s) /\ s[Old(j)] = y
            BY <1>1, <2>1, <2>4
        <3> HIDE DEF Old
        <3> QED
            BY <3>1, <3>2 DEF Ahead
    <2> QED
        BY <2>2, <2>3, <2>4
<1>5. ASSUME NEW x, NEW y, Ahead(s, x, y) PROVE Ahead(r, x, y)
    <2>1. PICK i \in 1..Len(s), j \in 1..Len(s) : i < j /\ s[i] = x /\ s[j] = y
        BY <1>5 DEF Ahead
    <2>2. New(i) < New(j)
        BY <2>1
    <2>3. New(i) \in 1..Len(r) /\ r[New(i)] = x /\ New(j) \in 1..Len(r) /\ r[New(j)] = y
        BY <1>2, <2>1
    <2> HIDE DEF New
    <2> QED
        BY <2>2, <2>3 DEF Ahead
<1>6. Distinct(r)
    <2> SUFFICES ASSUME NEW i \in 1..Len(r), NEW j \in 1..Len(r), r[i] = r[j]
                 PROVE  i = j
        BY DEF Distinct
    <2>1. CASE i # k /\ j # k
        <3>1. s[Old(i)] = s[Old(j)] /\ Old(i) \in 1..Len(s) /\ Old(j) \in 1..Len(s)
            BY <1>1, <2>1
        <3>2. Old(i) = Old(j)
            <4> HIDE DEF Old
            <4> QED
                BY <3>1 DEF Distinct
        <3> QED
            BY <2>1, <3>2
    <2>2. ASSUME NEW h \in 1..Len(r), h # k PROVE r[h] # t
        <3>1. Old(h) \in 1..Len(s) /\ r[h] = s[Old(h)]
            BY <1>1, <2>2
        <3> HIDE DEF Old
        <3> QED
            BY <3>1 DEF On
    <2> QED
        BY <1>0, <2>1, <2>2
<1> QED
    BY <1>3, <1>4, <1>5, <1>6

LEMMA InsertAtFacts ==
    ASSUME NEW S, NEW s \in Seq(S), NEW t \in S, NEW k \in 1..Len(s)
    PROVE  InsertAt(s, k, t) \in Seq(S) /\ IsInsert(InsertAt(s, k, t), s, k, t)
<1> DEFINE r == SubSeq(s, 1, k - 1) \o <<t>> \o SubSeq(s, k, Len(s))
<1>1. InsertAt(s, k, t) = r
    BY DEF InsertAt
<1>2. /\ r \in Seq(S) /\ Len(r) = Len(s) + 1 /\ r[k] = t
      /\ \A j \in 1..k - 1 : r[j] = s[j]
      /\ \A j \in k..Len(s) : r[j + 1] = s[j]
    OBVIOUS
<1> HIDE DEF r
<1> QED
    BY <1>1, <1>2 DEF IsInsert

LEMMA AppendFacts ==
    ASSUME NEW S, NEW s \in Seq(S), NEW t \in S, ~On(s, t), Distinct(s)
    PROVE  /\ Append(s, t) \in Seq(S) /\ Distinct(Append(s, t))
           /\ \A x : On(Append(s, t), x) <=> On(s, x) \/ x = t
           /\ \A x, y : Ahead(s, x, y) => Ahead(Append(s, t), x, y)
           /\ \A x : On(s, x) => Ahead(Append(s, t), x, t)
<1> DEFINE r == Append(s, t)
           n == Len(s) + 1
<1>1. r \in Seq(S) /\ n \in 1..n /\ n \in Nat /\ Len(r) = n /\ r[n] = t
      /\ \A j \in 1..Len(s) : r[j] = s[j]
    OBVIOUS
<1>2. IsInsert(r, s, n, t)
    BY <1>1 DEF IsInsert
<1> HIDE DEF r
<1>3. ASSUME NEW x, On(s, x) PROVE Ahead(r, x, t)
    <2>1. PICK i \in 1..Len(s) : s[i] = x
        BY <1>3 DEF On
    <2>2. i \in 1..n /\ n \in 1..n /\ i < n /\ r[i] = x
        BY <1>1, <2>1
    <2> HIDE DEF n
    <2> QED
        BY <1>1, <2>2 DEF Ahead
<1>4. n \in 1..Len(s) + 1
    BY <1>1
<1> HIDE DEF n
<1>5. /\ Distinct(r) /\ (\A x : On(r, x) <=> On(s, x) \/ x = t)
      /\ \A x, y : Ahead(s, x, y) => Ahead(r, x, y)
    BY <1>1, <1>2, <1>4, InsertFacts
<1> QED
    BY <1>1, <1>3, <1>5 DEF r

LEMMA RemoveAtFacts ==
    ASSUME NEW S, NEW s \in Seq(S), NEW k \in 1..Len(s)
    PROVE  /\ RemoveAt(s, k) \in Seq(S) /\ Len(RemoveAt(s, k)) = Len(s) - 1
           /\ \A j \in 1..k - 1 : RemoveAt(s, k)[j] = s[j]
           /\ \A j \in k..Len(s) - 1 : RemoveAt(s, k)[j] = s[j + 1]
<1> DEFINE a == SubSeq(s, 1, k - 1)
           b == SubSeq(s, k + 1, Len(s))
<1>1. /\ a \in Seq(S) /\ Len(a) = k - 1 /\ \A j \in 1..k - 1 : a[j] = s[j]
      /\ b \in Seq(S) /\ Len(b) = Len(s) - k /\ \A j \in 1..Len(s) - k : b[j] = s[j + k]
    OBVIOUS
<1>2. RemoveAt(s, k) = a \o b
    BY DEF RemoveAt
<1> HIDE DEF a, b
<1>3. /\ a \o b \in Seq(S) /\ Len(a \o b) = Len(s) - 1
      /\ \A j \in 1..k - 1 : (a \o b)[j] = s[j]
    <2>0. a \in Seq(S) /\ b \in Seq(S)
        BY <1>1
    <2>1. /\ a \o b \in Seq(S) /\ Len(a \o b) = Len(a) + Len(b)
          /\ \A j \in 1..Len(a) : (a \o b)[j] = a[j]
        BY <2>0
    <2>2. (k - 1) + (Len(s) - k) = Len(s) - 1
        OBVIOUS
    <2> QED
        BY <1>1, <2>1, <2>2
<1>4. ASSUME NEW j \in k..Len(s) - 1 PROVE (a \o b)[j] = s[j + 1]
    <2>1. j - k + 1 \in 1..Len(s) - k /\ j - k + 1 + k = j + 1 /\ j = Len(a) + (j - k + 1)
        BY <1>1
    <2>2. (a \o b)[j] = b[j - k + 1]
        BY <1>1, <2>1
    <2> QED
        BY <1>1, <2>1, <2>2
<1> QED
    BY <1>2, <1>3, <1>4

\* Taking a timer off a list leaves the others in their order.
LEMMA RemoveFacts ==
    ASSUME NEW S, NEW s \in Seq(S), NEW t, Distinct(s)
    PROVE  /\ RemoveFirst(s, t) \in Seq(S) /\ Distinct(RemoveFirst(s, t))
           /\ \A x : On(RemoveFirst(s, t), x) <=> On(s, x) /\ x # t
           /\ \A x, y : Ahead(RemoveFirst(s, t), x, y) <=> Ahead(s, x, y) /\ x # t /\ y # t
           /\ ~On(s, t) => RemoveFirst(s, t) = s
<1> DEFINE r == RemoveFirst(s, t)
<1>1. CASE ~On(s, t)
    <2>1. r = s
        BY <1>1, Zenon DEF RemoveFirst, On
    <2>2. \A x, y : Ahead(s, x, y) => x # t /\ y # t
        BY <1>1, AheadFacts
    <2> QED
        BY <1>1, <2>1, <2>2
<1>2. CASE On(s, t)
    <2> DEFINE I == {i \in 1..Len(s) : s[i] = t}
               k == Min(I)
    <2>1. SelectInSeq(s, LAMBDA v : v = t) = IF I # {} THEN Min(I) ELSE 0
        BY DEF SelectInSeq
    <2>2. I # {} /\ I \in SUBSET Nat
        BY <1>2 DEF On
    <2>3. k \in I
        <3> HIDE DEF I
        <3> QED
            BY <2>2, MinOfNaturals
    <2>4. k \in 1..Len(s) /\ s[k] = t
        BY <2>3
    <2>5. r = RemoveAt(s, k)
        <3> HIDE DEF I
        <3>1. SelectInSeq(s, LAMBDA v : v = t) = k
            BY <2>1, <2>2
        <3> HIDE DEF k
        <3> QED
            BY <1>2, <3>1 DEF RemoveFirst, On
    <2> HIDE DEF k, I
    <2>6. RemoveAt(s, k) \in Seq(S) /\ Len(RemoveAt(s, k)) = Len(s) - 1
        BY <2>4, RemoveAtFacts
    <2>7. /\ \A j \in 1..k - 1 : RemoveAt(s, k)[j] = s[j]
          /\ \A j \in k..Len(s) - 1 : RemoveAt(s, k)[j] = s[j + 1]
        BY <2>4, RemoveAtFacts
    <2>8. /\ r \in Seq(S) /\ Len(r) = Len(s) - 1 /\ Len(s) \in Nat
          /\ \A j \in 1..k - 1 : r[j] = s[j]
          /\ \A j \in k..Len(s) - 1 : r[j] = s[j + 1]
        BY <2>5, <2>6, <2>7
    <2> HIDE DEF r
    <2>9. ASSUME NEW j \in 1..Len(s), s[j] = t PROVE j = k
        BY <2>4, <2>9 DEF Distinct
    <2> DEFINE Old(j) == IF j < k THEN j ELSE j + 1
               New(j) == IF j < k THEN j ELSE j - 1
    <2>10. ASSUME NEW j \in 1..Len(r)
           PROVE  Old(j) \in 1..Len(s) /\ Old(j) # k /\ r[j] = s[Old(j)] /\ r[j] # t
        <3>1. Old(j) \in 1..Len(s) /\ Old(j) # k /\ r[j] = s[Old(j)]
            BY <2>4, <2>8
        <3> HIDE DEF Old
        <3> QED
            BY <2>9, <3>1
    <2>11. ASSUME NEW j \in 1..Len(s), s[j] # t
           PROVE  New(j) \in 1..Len(r) /\ r[New(j)] = s[j]
        <3>1. j # k
            BY <2>4, <2>11
        <3>2. CASE j > k
            <4>1. j - 1 \in k..Len(s) - 1 /\ (j - 1) + 1 = j
                BY <2>4, <2>8, <3>2
            <4> QED
                BY <2>4, <2>8, <3>2, <4>1
        <3>3. CASE j < k
            <4>1. j \in 1..k - 1 /\ j \in 1..Len(r)
                BY <2>4, <2>8, <3>3
            <4> QED
                BY <2>8, <3>3, <4>1
        <3> QED
            BY <2>4, <3>1, <3>2, <3>3
    <2>12. ASSUME NEW x PROVE On(r, x) <=> On(s, x) /\ x # t
        <3>1. ASSUME On(r, x) PROVE On(s, x) /\ x # t
            <4>1. PICK j \in 1..Len(r) : r[j] = x
                BY <3>1 DEF On
            <4>2. Old(j) \in 1..Len(s) /\ s[Old(j)] = x /\ x # t
                BY <2>10, <4>1
            <4> HIDE DEF Old
            <4> QED
                BY <4>2 DEF On
        <3>2. ASSUME On(s, x), x # t PROVE On(r, x)
            <4>1. PICK j \in 1..Len(s) : s[j] = x
                BY <3>2 DEF On
            <4>2. New(j) \in 1..Len(r) /\ r[New(j)] = x
                BY <2>11, <3>2, <4>1
            <4> HIDE DEF New
            <4> QED
                BY <4>2 DEF On
        <3> QED
            BY <3>1, <3>2
    <2>13. ASSUME NEW x, NEW y PROVE Ahead(r, x, y) <=> Ahead(s, x, y) /\ x # t /\ y # t
        <3>1. ASSUME Ahead(r, x, y) PROVE Ahead(s, x, y) /\ x # t /\ y # t
            <4>1. PICK i \in 1..Len(r), j \in 1..Len(r) : i < j /\ r[i] = x /\ r[j] = y
                BY <3>1 DEF Ahead
            <4>2. /\ Old(i) \in 1..Len(s) /\ s[Old(i)] = x /\ x # t
                  /\ Old(j) \in 1..Len(s) /\ s[Old(j)] = y /\ y # t
                BY <2>10, <4>1
            <4>3. Old(i) < Old(j)
                BY <2>4, <4>1
            <4> HIDE DEF Old
            <4> QED
                BY <4>2, <4>3 DEF Ahead
        <3>2. ASSUME Ahead(s, x, y), x # t, y # t PROVE Ahead(r, x, y)
            <4>1. PICK i \in 1..Len(s), j \in 1..Len(s) : i < j /\ s[i] = x /\ s[j] = y
                BY <3>2 DEF Ahead
            <4>2. New(i) \in 1..Len(r) /\ r[New(i)] = x /\ New(j) \in 1..Len(r) /\ r[New(j)] = y
                BY <2>11, <3>2, <4>1
            <4>3. i # k /\ j # k
                BY <2>4, <3>2, <4>1
            <4>4. New(i) < New(j)
                BY <2>4, <4>1, <4>3
            <4> HIDE DEF New
            <4> QED
                BY <4>2, <4>4 DEF Ahead
        <3> QED
            BY <3>1, <3>2
    <2>14. Distinct(r)
        <3> SUFFICES ASSUME NEW i \in 1..Len(r), NEW j \in 1..Len(r), r[i] = r[j]
                     PROVE  i = j
            BY DEF Distinct
        <3>1. Old(i) \in 1..Len(s) /\ Old(j) \in 1..Len(s) /\ s[Old(i)] = s[Old(j)]
            BY <2>10
        <3>2. Old(i) = Old(j)
            <4> HIDE DEF Old
            <4> QED
                BY <3>1 DEF Distinct
        <3> QED
            BY <2>4, <3>2
    <2> QED
        BY <1>2, <2>8, <2>12, <2>13, <2>14 DEF r
<1> QED
    BY <1>1, <1>2

\* The first timer of a list is ahead of the others.
LEMMA TailFacts ==
    ASSUME NEW S, NEW s \in Seq(S), s # <<>>, Distinct(s)
    PROVE  /\ Tail(s) \in Seq(S) /\ Distinct(Tail(s)) /\ On(s, Head(s)) /\ Head(s) \in S
           /\ \A x : On(Tail(s), x) <=> On(s, x) /\ x # Head(s)
           /\ \A x, y : Ahead(Tail(s), x, y) => Ahead(s, x, y)
           /\ \A x : On(s, x) /\ x # Head(s) => Ahead(s, Head(s), x)
<1> DEFINE r == Tail(s)
<1>1. /\ r \in Seq(S) /\ Len(s) \in Nat \ {0} /\ Len(r) = Len(s) - 1 /\ Head(s) = s[1] /\ s[1] \in S
      /\ \A j \in 1..Len(s) - 1 : r[j] = s[j + 1]
    OBVIOUS
<1> HIDE DEF r
<1>2. ASSUME NEW j \in 1..Len(r) PROVE j + 1 \in 1..Len(s) /\ r[j] = s[j + 1] /\ r[j] # s[1]
    <2>1. j + 1 \in 1..Len(s) /\ r[j] = s[j + 1] /\ 1 \in 1..Len(s) /\ j + 1 # 1
        BY <1>1
    <2> QED
        BY <2>1 DEF Distinct
<1>3. ASSUME NEW j \in 1..Len(s), j # 1 PROVE j - 1 \in 1..Len(r) /\ r[j - 1] = s[j]
    <2>1. j - 1 \in 1..Len(s) - 1 /\ (j - 1) + 1 = j
        BY <1>1, <1>3
    <2> QED
        BY <1>1, <2>1
<1>4. ASSUME NEW x PROVE On(r, x) <=> On(s, x) /\ x # s[1]
    BY <1>1, <1>2, <1>3 DEF On
<1>5. ASSUME NEW x, NEW y, Ahead(r, x, y) PROVE Ahead(s, x, y)
    <2>1. PICK i \in 1..Len(r), j \in 1..Len(r) : i < j /\ r[i] = x /\ r[j] = y
        BY <1>5 DEF Ahead
    <2>2. i + 1 \in 1..Len(s) /\ s[i + 1] = x /\ j + 1 \in 1..Len(s) /\ s[j + 1] = y /\ i + 1 < j + 1
        BY <1>2, <2>1
    <2> QED
        BY <2>2 DEF Ahead
<1>6. ASSUME NEW x, On(s, x), x # s[1] PROVE Ahead(s, s[1], x)
    <2>1. PICK j \in 1..Len(s) : s[j] = x
        BY <1>6 DEF On
    <2>2. 1 \in 1..Len(s) /\ 1 < j
        BY <1>1, <1>6, <2>1
    <2> QED
        BY <2>1, <2>2 DEF Ahead
<1>7. Distinct(r)
    <2> SUFFICES ASSUME NEW i \in 1..Len(r), NEW j \in 1..Len(r), r[i] = r[j]
                 PROVE  i = j
        BY DEF Distinct
    <2>1. i + 1 \in 1..Len(s) /\ j + 1 \in 1..Len(s) /\ s[i + 1] = s[j + 1]
        BY <1>2
    <2>2. i + 1 = j + 1
        BY <2>1 DEF Distinct
    <2> QED
        BY <2>2
<1>8. On(s, s[1])
    BY <1>1 DEF On
<1> QED
    BY <1>1, <1>4, <1>5, <1>6, <1>7, <1>8 DEF r

-----------------------------------------------------------------------------
(* The tick counter *)

\* What is left until a timeout, as the model's left has it.
Rest(timeout, now) ==
    LET d == Minus(timeout, now) IN IF d <= Half THEN d ELSE d - TickMod

LEMMA HalfFacts == Half \in Nat /\ Half >= 2 /\ 2 * Half <= TickMod - 1 /\ TickMod \in Nat
BY TimerAssumption DEF Half

LEMMA MinusFacts ==
    ASSUME NEW a \in 0..TickMod - 1, NEW b \in 0..TickMod - 1
    PROVE  Minus(a, b) = IF a >= b THEN a - b ELSE a - b + TickMod
BY TimerAssumption DEF Minus

LEMMA PlusFacts ==
    ASSUME NEW a \in 0..TickMod - 1, NEW b \in 0..TickMod - 1
    PROVE  Plus(a, b) = IF a + b < TickMod THEN a + b ELSE a + b - TickMod
BY TimerAssumption DEF Plus

\* A timer just started has its whole time left.
LEMMA RestAtStart ==
    ASSUME NEW now \in 0..TickMod - 1, NEW n \in 0..Half - 1
    PROVE  Plus(now, n) \in 0..TickMod - 1 /\ Rest(Plus(now, n), now) = n
<1> USE HalfFacts
<1>1. n \in 0..TickMod - 1
    OBVIOUS
<1>2. Plus(now, n) = IF now + n < TickMod THEN now + n ELSE now + n - TickMod
    BY <1>1, PlusFacts
<1>3. Plus(now, n) \in 0..TickMod - 1
    BY <1>1, <1>2
<1>4. Minus(Plus(now, n), now) = n
    BY <1>1, <1>2, <1>3, MinusFacts
<1> QED
    BY <1>3, <1>4 DEF Rest

\* A tick takes one off, wherever the counter wraps.
LEMMA RestAtTick ==
    ASSUME NEW to \in 0..TickMod - 1, NEW now \in 0..TickMod - 1, Rest(to, now) \in 0..Half - 1
    PROVE  /\ Plus(now, 1) \in 0..TickMod - 1
           /\ Rest(to, Plus(now, 1)) = Rest(to, now) - 1
<1> USE HalfFacts
<1>1. Plus(now, 1) = IF now + 1 < TickMod THEN now + 1 ELSE 0
    BY PlusFacts
<1>2. Plus(now, 1) \in 0..TickMod - 1
    BY <1>1
<1>3. Minus(to, now) = IF to >= now THEN to - now ELSE to - now + TickMod
    BY MinusFacts
<1>4. Minus(to, Plus(now, 1)) = IF to >= Plus(now, 1) THEN to - Plus(now, 1)
                                ELSE to - Plus(now, 1) + TickMod
    BY <1>2, MinusFacts
<1> QED
    BY <1>1, <1>2, <1>3, <1>4 DEF Rest

\* The test of rt_timer_check.
LEMMA RestAndDue ==
    ASSUME NEW to \in 0..TickMod - 1, NEW now \in 0..TickMod - 1, Rest(to, now) \in -1..Half - 1
    PROVE  Minus(now, to) < Half <=> Rest(to, now) <= 0
<1>1. /\ Minus(to, now) = IF to >= now THEN to - now ELSE to - now + TickMod
      /\ Minus(now, to) = IF now >= to THEN now - to ELSE now - to + TickMod
    BY MinusFacts
<1> QED
    BY <1>1, HalfFacts DEF Rest

\* The test of _timer_start.
LEMMA RestAndLater ==
    ASSUME NEW a \in 0..TickMod - 1, NEW b \in 0..TickMod - 1, NEW now \in 0..TickMod - 1,
           Rest(a, now) \in -1..Half - 1, Rest(b, now) \in 0..Half - 1
    PROVE  Later(a, b) <=> Rest(a, now) > Rest(b, now)
<1>1. /\ Minus(a, now) = IF a >= now THEN a - now ELSE a - now + TickMod
      /\ Minus(b, now) = IF b >= now THEN b - now ELSE b - now + TickMod
      /\ Minus(a, b) = IF a >= b THEN a - b ELSE a - b + TickMod
    BY MinusFacts
<1> QED
    BY <1>1, HalfFacts DEF Rest, Later

-----------------------------------------------------------------------------
(* The inductive invariant *)

\* During the tick interrupt, and only while a timer's function runs, there
\* is a timer in hand; what is on the local list is that timer, still marked
\* as being processed.
InHand ==
    /\ phase = "callback" <=> current # None
    /\ list # None => list = current /\ processing[list] /\ alive[list]

Listed == \A t \in Timers : On(timer_list, t) => activated[t] /\ alive[t] /\ list # t

Lists ==
    /\ Distinct(timer_list) /\ Distinct(started)
    /\ \A t : On(timer_list, t) <=> On(started, t)

\* No timer is overdue by more than the tick that is being handled.
Bounds ==
    \A t \in Timers : On(timer_list, t) =>
        Rest(timeout_tick[t], tick) \in (IF phase = "idle" THEN 0 ELSE -1)..Half - 1

\* The list is in the order in which the timers are due, and started.
Before(x, y) ==
    \/ Rest(timeout_tick[x], tick) < Rest(timeout_tick[y], tick)
    \/ Rest(timeout_tick[x], tick) = Rest(timeout_tick[y], tick) /\ Ahead(started, x, y)

Sorted == \A x, y \in Timers : Ahead(timer_list, x, y) => Before(x, y)

InOrder == Lists /\ Bounds /\ Sorted
TimerInv == TypeOK /\ InHand /\ Listed /\ InOrder

LEMMA ListedInTimers ==
    ASSUME NEW s \in Seq(Timers), NEW x
    PROVE  /\ On(s, x) => x \in Timers
           /\ x \in ToSet(s) <=> On(s, x)
<1>1. DOMAIN s = 1..Len(s)
    OBVIOUS
<1> QED
    BY <1>1 DEF On, ToSet

\* Where _timer_start puts a timer: behind those due no later, before the
\* others.
LEMMA InsertPlace ==
    ASSUME TypeOK, InOrder, NEW q \in Seq(Timers), NEW t \in Timers, NEW n \in 0..Half - 1,
           \A x : On(q, x) => On(timer_list, x),
           \A x, y : Ahead(q, x, y) => Ahead(timer_list, x, y)
    PROVE  \E k \in 1..Len(q) + 1 :
               /\ Insert(q, t, Plus(tick, n)) \in Seq(Timers)
               /\ IsInsert(Insert(q, t, Plus(tick, n)), q, k, t)
               /\ \A i \in 1..k - 1 : Rest(timeout_tick[q[i]], tick) <= n
               /\ \A i \in k..Len(q) : Rest(timeout_tick[q[i]], tick) > n
<1> DEFINE to == Plus(tick, n)
           I == {i \in 1..Len(q) : Later(timeout_tick[q[i]], to)}
<1>1. SelectInSeq(q, LAMBDA u : Later(timeout_tick[u], to)) = IF I # {} THEN Min(I) ELSE 0
    BY DEF SelectInSeq
<1>2. tick \in 0..TickMod - 1 /\ to \in 0..TickMod - 1 /\ Rest(to, tick) = n
    BY RestAtStart DEF TypeOK
<1> HIDE DEF to
<1>3. ASSUME NEW i \in 1..Len(q)
      PROVE  /\ q[i] \in Timers /\ timeout_tick[q[i]] \in 0..TickMod - 1
             /\ Rest(timeout_tick[q[i]], tick) \in -1..Half - 1
             /\ Later(timeout_tick[q[i]], to) <=> Rest(timeout_tick[q[i]], tick) > n
    <2>0. q[i] \in Timers /\ On(q, q[i])
        BY DEF On
    <2>1. q[i] \in Timers /\ On(timer_list, q[i]) /\ timeout_tick[q[i]] \in 0..TickMod - 1
        BY <2>0 DEF TypeOK
    <2>2. Rest(timeout_tick[q[i]], tick) \in -1..Half - 1
        BY <2>1, HalfFacts DEF InOrder, Bounds
    <2> QED
        BY <1>2, <2>1, <2>2, RestAndLater
<1>4. CASE I = {}
    <2> DEFINE k == Len(q) + 1
               r == Append(q, t)
    <2>1. Insert(q, t, to) = r
        BY <1>1, <1>4 DEF Insert
    <2>2. r \in Seq(Timers) /\ IsInsert(r, q, k, t) /\ k \in 1..Len(q) + 1
        BY DEF IsInsert
    <2>3. \A i \in 1..Len(q) : ~(Rest(timeout_tick[q[i]], tick) > n)
        BY <1>3, <1>4
    <2>4. \A i \in 1..Len(q) : Rest(timeout_tick[q[i]], tick) <= n
        BY <1>3, <2>3
    <2>5. k - 1 = Len(q) /\ k..Len(q) = {}
        OBVIOUS
    <2> HIDE DEF r, k
    <2> QED
        BY <2>1, <2>2, <2>4, <2>5 DEF to
<1>5. CASE I # {}
    <2> DEFINE k == Min(I)
               r == InsertAt(q, k, t)
    <2>1. I \in SUBSET Nat
        OBVIOUS
    <2>2. k \in I /\ \A i \in I : k <= i
        <3> HIDE DEF I
        <3> QED
            BY <1>5, <2>1, MinOfNaturals
    <2>3. k \in 1..Len(q) /\ Later(timeout_tick[q[k]], to)
          /\ \A i \in 1..k - 1 : ~Later(timeout_tick[q[i]], to)
        <3>1. k \in 1..Len(q) /\ Later(timeout_tick[q[k]], to)
            BY <2>2
        <3>2. ASSUME NEW i \in 1..k - 1 PROVE i \in 1..Len(q) /\ ~(k <= i)
            <4> HIDE DEF k
            <4> QED
                BY <3>1, <3>2
        <3>3. ASSUME NEW i \in 1..k - 1 PROVE ~Later(timeout_tick[q[i]], to)
            <4> HIDE DEF k
            <4> QED
                BY <2>2, <3>2, <3>3
        <3> QED
            BY <3>1, <3>3
    <2>4. SelectInSeq(q, LAMBDA u : Later(timeout_tick[u], to)) = k /\ k # 0
        BY <1>1, <1>5, <2>3
    <2> HIDE DEF I, k
    <2>5. Insert(q, t, to) = r
        BY <2>4 DEF Insert
    <2>6. r \in Seq(Timers) /\ IsInsert(r, q, k, t)
        BY <2>3, InsertAtFacts
    <2>7. ASSUME NEW i \in 1..k - 1 PROVE Rest(timeout_tick[q[i]], tick) <= n
        <3>1. i \in 1..Len(q)
            BY <2>3
        <3> QED
            BY <1>3, <2>3, <3>1
    <2>8. Rest(timeout_tick[q[k]], tick) > n
        BY <1>3, <2>3
    <2>9. ASSUME NEW i \in k..Len(q) PROVE Rest(timeout_tick[q[i]], tick) > n
        <3>1. i \in 1..Len(q) /\ (i = k \/ k < i)
            BY <2>3
        <3>2. CASE k < i
            <4>1. Ahead(timer_list, q[k], q[i])
                BY <2>3, <3>1, <3>2 DEF Ahead
            <4>2. Rest(timeout_tick[q[k]], tick) <= Rest(timeout_tick[q[i]], tick)
                BY <1>3, <2>3, <3>1, <4>1, SMTT(30) DEF InOrder, Sorted, Before
            <4> QED
                BY <1>3, <2>3, <2>8, <3>1, <4>2
        <3> QED
            BY <2>8, <3>1, <3>2
    <2>10. k \in 1..Len(q) + 1
        BY <2>3
    <2> HIDE DEF r
    <2> QED
        BY <2>5, <2>6, <2>7, <2>9, <2>10 DEF to
<1> QED
    BY <1>4, <1>5

-----------------------------------------------------------------------------
(* What a step does to the list *)

\* The timers' times and the order stay when the list does.
LEMMA SameLists ==
    ASSUME TypeOK, InOrder, UNCHANGED <<timer_list, started, tick>>,
           \A x : On(timer_list, x) => timeout_tick'[x] = timeout_tick[x],
           phase' = phase \/ phase' # "idle"
    PROVE  InOrder'
<1>1. Lists'
    BY DEF InOrder, Lists
<1>2. Bounds'
    BY HalfFacts DEF InOrder, Bounds
<1>3. Sorted'
    <2> SUFFICES ASSUME NEW x \in Timers, NEW y \in Timers, Ahead(timer_list, x, y)
                 PROVE  Before(x, y)'
        BY DEF Sorted
    <2>1. timeout_tick'[x] = timeout_tick[x] /\ timeout_tick'[y] = timeout_tick[y]
        BY AheadFacts DEF TypeOK
    <2> QED
        BY <2>1 DEF InOrder, Sorted, Before
<1> QED
    BY <1>1, <1>2, <1>3 DEF InOrder

LEMMA StopLists ==
    ASSUME TypeOK, InOrder, NEW t \in Timers,
           timer_list' = RemoveFirst(timer_list, t), started' = RemoveFirst(started, t),
           UNCHANGED <<timeout_tick, tick, phase>>
    PROVE  /\ InOrder' /\ timer_list' \in Seq(Timers) /\ started' \in Seq(Timers)
           /\ \A x : On(timer_list', x) <=> On(timer_list, x) /\ x # t
<1>1. /\ timer_list' \in Seq(Timers) /\ Distinct(timer_list')
      /\ \A x : On(timer_list', x) <=> On(timer_list, x) /\ x # t
      /\ \A x, y : Ahead(timer_list', x, y) <=> Ahead(timer_list, x, y) /\ x # t /\ y # t
    BY RemoveFacts DEF TypeOK, InOrder, Lists
<1>2. /\ started' \in Seq(Timers) /\ Distinct(started')
      /\ \A x : On(started', x) <=> On(started, x) /\ x # t
      /\ \A x, y : Ahead(started', x, y) <=> Ahead(started, x, y) /\ x # t /\ y # t
    BY RemoveFacts DEF TypeOK, InOrder, Lists
<1>3. Lists'
    BY <1>1, <1>2 DEF InOrder, Lists
<1>4. Bounds'
    BY <1>1 DEF InOrder, Bounds
<1>5. Sorted'
    BY <1>1, <1>2 DEF InOrder, Sorted, Before
<1> QED
    BY <1>1, <1>2, <1>3, <1>4, <1>5 DEF InOrder

LEMMA TakeLists ==
    ASSUME TypeOK, InOrder, timer_list # <<>>,
           timer_list' = Tail(timer_list), started' = RemoveFirst(started, Head(timer_list)),
           UNCHANGED <<timeout_tick, tick>>, phase' # "idle"
    PROVE  /\ InOrder' /\ timer_list' \in Seq(Timers) /\ started' \in Seq(Timers)
           /\ \A x : On(timer_list', x) <=> On(timer_list, x) /\ x # Head(timer_list)
<1> DEFINE t == Head(timer_list)
<1>1. /\ timer_list' \in Seq(Timers) /\ Distinct(timer_list')
      /\ \A x : On(timer_list', x) <=> On(timer_list, x) /\ x # t
      /\ \A x, y : Ahead(timer_list', x, y) => Ahead(timer_list, x, y)
    BY TailFacts DEF TypeOK, InOrder, Lists
<1>2. /\ started' \in Seq(Timers) /\ Distinct(started')
      /\ \A x : On(started', x) <=> On(started, x) /\ x # t
      /\ \A x, y : Ahead(started', x, y) <=> Ahead(started, x, y) /\ x # t /\ y # t
    BY RemoveFacts DEF TypeOK, InOrder, Lists
<1> HIDE DEF t
<1>3. Lists'
    BY <1>1, <1>2 DEF InOrder, Lists
<1>4. Bounds'
    BY <1>1, HalfFacts DEF InOrder, Bounds
<1>5. Sorted'
    <2> SUFFICES ASSUME NEW x \in Timers, NEW y \in Timers, Ahead(timer_list', x, y)
                 PROVE  Before(x, y)'
        BY DEF Sorted
    <2>1. x # t /\ y # t
        BY <1>1, AheadFacts
    <2> QED
        BY <1>1, <1>2, <2>1 DEF InOrder, Sorted, Before
<1> QED
    BY <1>1, <1>2, <1>3, <1>4, <1>5 DEF InOrder, t

LEMMA StartLists ==
    ASSUME TypeOK, InOrder, NEW t \in Timers, StartTimer(t), tick' = tick,
           phase' = phase \/ phase' # "idle"
    PROVE  /\ InOrder' /\ timer_list' \in Seq(Timers) /\ started' \in Seq(Timers)
           /\ timeout_tick' \in [Timers -> 0..TickMod - 1]
           /\ \A x : On(timer_list', x) <=> On(timer_list, x) \/ x = t
           /\ Rest(timeout_tick'[t], tick') = init_tick[t]
           /\ \A x \in Timers \ {t} : timeout_tick'[x] = timeout_tick[x]
<1> DEFINE q == RemoveFirst(timer_list, t)
           s == RemoveFirst(started, t)
           n == init_tick[t]
           r == Insert(q, t, Plus(tick, n))
<1>1. /\ q \in Seq(Timers) /\ Distinct(q)
      /\ \A x : On(q, x) <=> On(timer_list, x) /\ x # t
      /\ \A x, y : Ahead(q, x, y) <=> Ahead(timer_list, x, y) /\ x # t /\ y # t
    BY RemoveFacts DEF TypeOK, InOrder, Lists
<1>2. /\ s \in Seq(Timers) /\ Distinct(s)
      /\ \A x : On(s, x) <=> On(started, x) /\ x # t
      /\ \A x, y : Ahead(s, x, y) <=> Ahead(started, x, y) /\ x # t /\ y # t
    BY RemoveFacts DEF TypeOK, InOrder, Lists
<1>3. n \in 0..Half - 1 /\ tick \in 0..TickMod - 1
    BY TimerAssumption DEF TypeOK
<1>4. /\ Plus(tick, n) \in 0..TickMod - 1 /\ Rest(Plus(tick, n), tick) = n
    BY <1>3, RestAtStart
<1>5. /\ timeout_tick' = [timeout_tick EXCEPT ![t] = Plus(tick, n)]
      /\ timer_list' = r /\ started' = Append(s, t)
    <2>1. /\ timeout_tick' = [timeout_tick EXCEPT ![t] = Plus(tick, n)]
          /\ timer_list' = Insert(q, t, timeout_tick'[t]) /\ started' = Append(s, t)
        BY DEF StartTimer
    <2>2. timeout_tick'[t] = Plus(tick, n)
        BY <2>1 DEF TypeOK
    <2> QED
        BY <2>1, <2>2
<1>6. /\ timeout_tick' \in [Timers -> 0..TickMod - 1] /\ timeout_tick'[t] = Plus(tick, n)
      /\ \A x \in Timers \ {t} : timeout_tick'[x] = timeout_tick[x]
    BY <1>4, <1>5 DEF TypeOK
<1> HIDE DEF q, s, n
<1>7. PICK k \in 1..Len(q) + 1 :
          /\ r \in Seq(Timers) /\ IsInsert(r, q, k, t)
          /\ \A i \in 1..k - 1 : Rest(timeout_tick[q[i]], tick) <= n
          /\ \A i \in k..Len(q) : Rest(timeout_tick[q[i]], tick) > n
    BY <1>1, <1>3, InsertPlace
<1> HIDE DEF r
<1>8. ~On(q, t) /\ ~On(s, t)
    BY <1>1, <1>2
<1>9. /\ Distinct(r)
      /\ \A x : On(r, x) <=> On(q, x) \/ x = t
      /\ \A x, y : Ahead(r, x, y) =>
            \/ Ahead(q, x, y)
            \/ y = t /\ \E i \in 1..k - 1 : q[i] = x
            \/ x = t /\ \E i \in k..Len(q) : q[i] = y
    BY <1>1, <1>7, <1>8, InsertFacts
<1>10. /\ Append(s, t) \in Seq(Timers) /\ Distinct(Append(s, t))
       /\ \A x : On(Append(s, t), x) <=> On(s, x) \/ x = t
       /\ \A x, y : Ahead(s, x, y) => Ahead(Append(s, t), x, y)
       /\ \A x : On(s, x) => Ahead(Append(s, t), x, t)
    BY <1>2, <1>8, AppendFacts
<1>11. Lists'
    BY <1>1, <1>2, <1>5, <1>9, <1>10 DEF InOrder, Lists
<1>12. Rest(timeout_tick'[t], tick') = n
    BY <1>4, <1>6
<1>13. Bounds'
    <2> SUFFICES ASSUME NEW x \in Timers, On(timer_list', x)
                 PROVE  Rest(timeout_tick'[x], tick') \in (IF phase' = "idle" THEN 0 ELSE -1)..Half - 1
        BY DEF Bounds
    <2>1. CASE x = t
        BY <1>3, <1>12, <2>1, HalfFacts
    <2>2. CASE x # t
        <3>1. On(timer_list, x) /\ timeout_tick'[x] = timeout_tick[x]
            BY <1>1, <1>5, <1>6, <1>9, <2>2
        <3>2. Rest(timeout_tick[x], tick) \in (IF phase = "idle" THEN 0 ELSE -1)..Half - 1
            BY <3>1 DEF InOrder, Bounds
        <3> QED
            BY <3>1, <3>2, HalfFacts
    <2> QED
        BY <2>1, <2>2
<1>14. Sorted'
    <2> SUFFICES ASSUME NEW x \in Timers, NEW y \in Timers, Ahead(timer_list', x, y)
                 PROVE  Before(x, y)'
        BY DEF Sorted
    <2>1. CASE Ahead(q, x, y)
        <3>1. x # t /\ y # t /\ Ahead(timer_list, x, y)
            BY <1>1, <2>1
        <3>2. timeout_tick'[x] = timeout_tick[x] /\ timeout_tick'[y] = timeout_tick[y]
            BY <1>6, <3>1
        <3>3. Before(x, y)
            BY <3>1 DEF InOrder, Sorted
        <3>4. Ahead(started, x, y) => Ahead(started', x, y)
            BY <1>2, <1>5, <1>10, <3>1
        <3> QED
            BY <3>2, <3>3, <3>4 DEF Before
    <2>2. CASE y = t /\ \E i \in 1..k - 1 : q[i] = x
        <3>1. PICK i \in 1..k - 1 : q[i] = x
            BY <2>2
        <3>2. On(q, x) /\ Rest(timeout_tick[x], tick) <= n
            <4>1. i \in 1..Len(q)
                BY <1>1
            <4> QED
                BY <1>7, <3>1, <4>1 DEF On
        <3>3. x # t /\ timeout_tick'[x] = timeout_tick[x] /\ On(s, x)
              /\ Rest(timeout_tick[x], tick) \in -1..Half - 1
            <4>1. x # t /\ On(timer_list, x) /\ timeout_tick'[x] = timeout_tick[x]
                BY <1>1, <1>6, <3>2
            <4>2. On(s, x)
                BY <1>2, <4>1 DEF InOrder, Lists
            <4> QED
                BY <4>1, <4>2, HalfFacts DEF InOrder, Bounds
        <3>4. Ahead(started', x, t)
            BY <1>5, <1>10, <3>3
        <3>5. Rest(timeout_tick[x], tick) < n \/ Rest(timeout_tick[x], tick) = n
            BY <1>3, <3>2, <3>3
        <3> QED
            BY <1>12, <2>2, <3>3, <3>4, <3>5 DEF Before
    <2>3. CASE x = t /\ \E i \in k..Len(q) : q[i] = y
        <3>1. PICK i \in k..Len(q) : q[i] = y
            BY <2>3
        <3>2. On(q, y) /\ Rest(timeout_tick[y], tick) > n
            <4>1. i \in 1..Len(q)
                BY <1>1
            <4> QED
                BY <1>7, <3>1, <4>1 DEF On
        <3>3. y # t /\ timeout_tick'[y] = timeout_tick[y]
              /\ Rest(timeout_tick[y], tick) \in -1..Half - 1
            BY <1>1, <1>6, <3>2, HalfFacts, SMTT(30) DEF InOrder, Bounds
        <3>4. n < Rest(timeout_tick[y], tick)
            BY <1>3, <3>2, <3>3
        <3> QED
            BY <1>12, <2>3, <3>3, <3>4 DEF Before
    <2> QED
        BY <1>5, <1>9, <2>1, <2>2, <2>3
<1>15. \A x : On(timer_list', x) <=> On(timer_list, x) \/ x = t
    BY <1>1, <1>5, <1>9
<1> QED
    BY <1>5, <1>6, <1>7, <1>10, <1>11, <1>12, <1>13, <1>14, <1>15 DEF InOrder, n

\* A tick with nothing overdue.
LEMMA TickLists ==
    ASSUME TypeOK, InOrder, phase = "idle", phase' = "enter", tick' = Plus(tick, 1),
           UNCHANGED <<timer_list, started, timeout_tick>>
    PROVE  /\ InOrder' /\ tick' \in 0..TickMod - 1
           /\ \A x \in Timers : On(timer_list, x) =>
                 Rest(timeout_tick'[x], tick') = Rest(timeout_tick[x], tick) - 1
<1>1. ASSUME NEW x \in Timers, On(timer_list, x)
      PROVE  /\ Rest(timeout_tick'[x], tick') = Rest(timeout_tick[x], tick) - 1
             /\ Rest(timeout_tick[x], tick) \in 0..Half - 1
    <2>1. /\ timeout_tick[x] \in 0..TickMod - 1 /\ tick \in 0..TickMod - 1
          /\ Rest(timeout_tick[x], tick) \in 0..Half - 1
        BY <1>1 DEF TypeOK, InOrder, Bounds
    <2> QED
        BY <2>1, RestAtTick
<1>2. tick' \in 0..TickMod - 1
    <2>1. 1 \in 0..TickMod - 1 /\ tick \in 0..TickMod - 1 /\ TickMod \in Nat
        BY TimerAssumption DEF TypeOK
    <2> QED
        BY <2>1, PlusFacts
<1>3. Lists'
    BY DEF InOrder, Lists
<1>4. Bounds'
    <2> SUFFICES ASSUME NEW x \in Timers, On(timer_list, x)
                 PROVE  Rest(timeout_tick'[x], tick') \in -1..Half - 1
        BY DEF Bounds
    <2> QED
        BY <1>1, HalfFacts
<1>5. Sorted'
    <2> SUFFICES ASSUME NEW x \in Timers, NEW y \in Timers, Ahead(timer_list, x, y)
                 PROVE  Before(x, y)'
        BY DEF Sorted
    <2>1. On(timer_list, x) /\ On(timer_list, y)
        BY AheadFacts DEF TypeOK
    <2>2. Before(x, y)
        BY DEF InOrder, Sorted
    <2> QED
        BY <1>1, <2>1, <2>2 DEF Before
<1> QED
    BY <1>1, <1>2, <1>3, <1>4, <1>5 DEF InOrder

-----------------------------------------------------------------------------
(* Every step keeps the invariant *)

LEMMA InvInit == Init => TimerInv
<1> SUFFICES ASSUME Init PROVE TimerInv
    OBVIOUS
<1>1. TypeOK
    BY TimerAssumption DEF Init, TypeOK
<1>2. timer_list = <<>> /\ started = <<>> /\ (\A x : ~On(<<>>, x)) /\ \A x, y : ~Ahead(<<>>, x, y)
    BY DEF Init, On, Ahead
<1>3. InOrder
    BY <1>2 DEF InOrder, Lists, Bounds, Sorted, Distinct
<1>4. InHand /\ Listed
    BY <1>2 DEF Init, InHand, Listed
<1> QED
    BY <1>1, <1>3, <1>4 DEF TimerInv

LEMMA StartKeeps ==
    ASSUME TimerInv, NEW t \in Timers, Start(t)
    PROVE  TimerInv'
<1> USE DEF TimerInv
<1>1. /\ InOrder' /\ timer_list' \in Seq(Timers) /\ started' \in Seq(Timers)
      /\ timeout_tick' \in [Timers -> 0..TickMod - 1]
      /\ \A x : On(timer_list', x) <=> On(timer_list, x) \/ x = t
    BY StartLists DEF Start
<1>2. TypeOK'
    BY <1>1 DEF Start, StartTimer, TypeOK
<1>3. InHand'
    BY DEF Start, InHand
<1>4. Listed'
    <2>1. list # t
        BY TimerAssumption DEF Start, InHand
    <2> QED
        BY <1>1, <2>1 DEF Start, StartTimer, Callable, Listed, TypeOK
<1> QED
    BY <1>1, <1>2, <1>3, <1>4

\* rt_timer_stop, RT_TIMER_CTRL_SET_TIME and rt_timer_detach of a timer.
LEMMA StopTimerKeeps ==
    ASSUME TimerInv, NEW t \in Timers, StopTimer(t),
           UNCHANGED <<timeout_tick, tick, periodic, processing, phase, current>>,
           init_tick' \in [Timers -> Times],
           alive' = alive \/ alive' = [alive EXCEPT ![t] = FALSE]
    PROVE  TimerInv' /\ \A x : On(timer_list', x) <=> On(timer_list, x) /\ x # t
<1> USE DEF TimerInv
<1>1. /\ InOrder' /\ timer_list' \in Seq(Timers) /\ started' \in Seq(Timers)
      /\ \A x : On(timer_list', x) <=> On(timer_list, x) /\ x # t
    BY StopLists DEF StopTimer
<1>2. TypeOK'
    BY <1>1 DEF StopTimer, TypeOK
<1>3. InHand'
    BY TimerAssumption DEF StopTimer, InHand, TypeOK
<1>4. Listed'
    BY <1>1, TimerAssumption DEF StopTimer, Listed, TypeOK
<1> QED
    BY <1>1, <1>2, <1>3, <1>4

LEMMA StopKeeps ==
    ASSUME TimerInv, NEW t \in Timers, Stop(t)
    PROVE  TimerInv'
BY StopTimerKeeps DEF Stop, TimerInv, TypeOK

LEMMA DetachKeeps ==
    ASSUME TimerInv, NEW t \in Timers, Detach(t)
    PROVE  TimerInv'
BY StopTimerKeeps DEF Detach, TimerInv, TypeOK

LEMMA SetTimeKeeps ==
    ASSUME TimerInv, NEW t \in Timers, NEW n \in Times, SetTime(t, n)
    PROVE  TimerInv'
<1>1. init_tick' \in [Timers -> Times]
    BY DEF SetTime, TimerInv, TypeOK
<1>2. CASE activated[t]
    BY <1>1, <1>2, StopTimerKeeps DEF SetTime
<1>3. CASE ~activated[t]
    <2>1. UNCHANGED <<timer_list, list, activated, started, tick, timeout_tick, periodic,
                      processing, alive, phase, current>>
        BY <1>3 DEF SetTime
    <2>2. InOrder'
        BY <2>1, SameLists DEF TimerInv
    <2> QED
        BY <1>1, <2>1, <2>2 DEF TimerInv, TypeOK, InHand, Listed
<1> QED
    BY <1>2, <1>3

LEMMA SetModeKeeps ==
    ASSUME TimerInv, NEW t \in Timers, NEW p \in BOOLEAN, SetMode(t, p)
    PROVE  TimerInv'
<1>1. /\ UNCHANGED <<timer_list, list, activated, started, tick, timeout_tick, init_tick,
                     processing, alive, phase, current>>
      /\ periodic' \in [Timers -> BOOLEAN]
    BY DEF SetMode, TimerInv, TypeOK
<1>2. InOrder'
    BY <1>1, SameLists DEF TimerInv
<1> QED
    BY <1>1, <1>2 DEF TimerInv, TypeOK, InHand, Listed

LEMMA InitTimerKeeps ==
    ASSUME TimerInv, NEW t \in Timers, NEW n \in Times, NEW p \in BOOLEAN, InitTimer(t, n, p)
    PROVE  TimerInv' /\ ~On(timer_list, t) /\ list # t
<1> USE DEF TimerInv
<1>1. ~On(timer_list, t) /\ list # t
    BY TimerAssumption DEF InitTimer, Listed, InHand
<1>2. \A x : On(timer_list, x) => timeout_tick'[x] = timeout_tick[x]
    <2> SUFFICES ASSUME NEW x, On(timer_list, x) PROVE timeout_tick'[x] = timeout_tick[x]
        OBVIOUS
    <2>1. x \in Timers /\ x # t
        BY <1>1, ListedInTimers DEF TypeOK
    <2> QED
        BY <2>1 DEF InitTimer, TypeOK
<1>3. InOrder'
    BY <1>2, SameLists DEF InitTimer
<1>4. TypeOK'
    BY TimerAssumption DEF InitTimer, TypeOK
<1>5. InHand'
    BY <1>1 DEF InitTimer, InHand, TypeOK
<1>6. Listed'
    BY <1>1 DEF InitTimer, Listed, TypeOK
<1> QED
    BY <1>1, <1>3, <1>4, <1>5, <1>6

LEMMA TickKeeps ==
    ASSUME TimerInv, TickIncrease
    PROVE  TimerInv'
<1>1. InOrder' /\ tick' \in 0..TickMod - 1
    BY TickLists DEF TimerInv, TickIncrease, objVars
<1> QED
    BY <1>1 DEF TimerInv, TickIncrease, objVars, TypeOK, InHand, Listed

LEMMA TakeKeeps ==
    ASSUME TimerInv, CheckTake
    PROVE  TimerInv'
<1> DEFINE t == Head(timer_list)
<1> USE DEF TimerInv
<1>1. /\ InOrder' /\ timer_list' \in Seq(Timers) /\ started' \in Seq(Timers)
      /\ \A x : On(timer_list', x) <=> On(timer_list, x) /\ x # t
    BY TakeLists DEF CheckTake, Due
<1>2. t \in Timers /\ On(timer_list, t)
    BY TailFacts DEF CheckTake, Due, TypeOK, InOrder, Lists
<1>3. /\ activated' = [activated EXCEPT ![t] = periodic[t] /\ @]
      /\ processing' = [processing EXCEPT ![t] = TRUE]
      /\ list' = t /\ current' = t /\ phase' = "callback"
      /\ UNCHANGED <<tick, timeout_tick, init_tick, periodic, alive>>
    BY DEF CheckTake
<1> HIDE DEF t
<1>4. TypeOK'
    <2>1. activated' \in [Timers -> BOOLEAN]
        BY <1>2, <1>3, Zenon DEF TypeOK
    <2> QED
        BY <1>1, <1>2, <1>3, <2>1 DEF TypeOK
<1>5. alive[t]
    BY <1>2 DEF Listed
<1>6. InHand'
    BY <1>2, <1>3, <1>5, TimerAssumption DEF InHand, TypeOK
<1>7. Listed'
    BY <1>1, <1>3 DEF Listed, TypeOK
<1> QED
    BY <1>1, <1>4, <1>6, <1>7

LEMMA ReturnKeeps ==
    ASSUME TimerInv, CheckReturn
    PROVE  TimerInv'
<1> DEFINE t == current
<1> USE DEF TimerInv
<1>1. t \in Timers
    BY DEF CheckReturn, InHand, TypeOK
<1>2. /\ phase' = "locked" /\ processing' = [processing EXCEPT ![t] = FALSE]
      /\ list' = None /\ current' = None /\ UNCHANGED <<tick, init_tick, periodic, alive>>
    BY DEF CheckReturn
<1>3. InHand'
    BY <1>2 DEF InHand
<1>4. CASE list # None /\ periodic[t] /\ activated[t]
    <2>1. StartTimer(t) /\ list = t
        BY <1>4 DEF CheckReturn, InHand
    <2>2. /\ InOrder' /\ timer_list' \in Seq(Timers) /\ started' \in Seq(Timers)
          /\ timeout_tick' \in [Timers -> 0..TickMod - 1]
          /\ \A x : On(timer_list', x) <=> On(timer_list, x) \/ x = t
        BY <1>1, <1>2, <2>1, StartLists
    <2>3. TypeOK'
        BY <1>1, <1>2, <2>1, <2>2 DEF StartTimer, TypeOK
    <2>4. alive[t]
        BY <1>4, <2>1 DEF InHand
    <2>5. Listed'
        <3> HIDE DEF t
        <3> QED
            BY <1>1, <1>2, <2>1, <2>2, <2>4, TimerAssumption DEF StartTimer, Listed, TypeOK
    <2> QED
        BY <1>3, <2>2, <2>3, <2>5
<1>5. CASE ~(list # None /\ periodic[t] /\ activated[t])
    <2>1. UNCHANGED <<timeout_tick, timer_list, activated, started>>
        BY <1>5 DEF CheckReturn
    <2>2. InOrder'
        BY <1>2, <2>1, SameLists
    <2>3. TypeOK' /\ Listed'
        BY <1>1, <1>2, <2>1, TimerAssumption DEF TypeOK, Listed
    <2> QED
        BY <1>3, <2>2, <2>3
<1> QED
    BY <1>4, <1>5

\* The first timer decides: it is due when any is.
LEMMA DueFacts ==
    ASSUME TimerInv
    PROVE  /\ Due => /\ Rest(timeout_tick[Head(timer_list)], tick) <= 0
                     /\ \A x \in Timers \ {Head(timer_list)} :
                            On(timer_list, x) => Before(Head(timer_list), x)
           /\ ~Due => \A x \in Timers : On(timer_list, x) => Rest(timeout_tick[x], tick) > 0
<1> DEFINE t == Head(timer_list)
<1> USE DEF TimerInv
<1>1. CASE timer_list = <<>>
    BY <1>1 DEF Due, On
<1>2. CASE timer_list # <<>>
    <2>1. /\ t \in Timers /\ On(timer_list, t)
          /\ \A x : On(timer_list, x) /\ x # t => Ahead(timer_list, t, x)
        BY <1>2, TailFacts DEF TypeOK, InOrder, Lists
    <2>2. ASSUME NEW x \in Timers, On(timer_list, x)
          PROVE  timeout_tick[x] \in 0..TickMod - 1 /\ Rest(timeout_tick[x], tick) \in -1..Half - 1
        BY <2>2, HalfFacts DEF TypeOK, InOrder, Bounds
    <2>3. Due <=> Rest(timeout_tick[t], tick) <= 0
        <3>1. Due <=> Minus(tick, timeout_tick[t]) < Half
            BY <1>2 DEF Due
        <3>2. tick \in 0..TickMod - 1
            BY DEF TypeOK
        <3> QED
            BY <2>1, <2>2, <3>1, <3>2, RestAndDue
    <2> HIDE DEF t
    <2>4. \A x \in Timers \ {t} : On(timer_list, x) => Before(t, x)
        BY <2>1 DEF InOrder, Sorted
    <2>5. ASSUME ~Due, NEW x \in Timers, On(timer_list, x) PROVE Rest(timeout_tick[x], tick) > 0
        <3>1. Rest(timeout_tick[t], tick) > 0
            BY <2>1, <2>2, <2>3, <2>5
        <3>2. x = t \/ Rest(timeout_tick[t], tick) <= Rest(timeout_tick[x], tick)
            BY <2>1, <2>2, <2>4, <2>5 DEF Before
        <3> QED
            BY <2>1, <2>2, <2>5, <3>1, <3>2
    <2> QED
        BY <2>3, <2>4, <2>5 DEF t
<1> QED
    BY <1>1, <1>2

LEMMA EndKeeps ==
    ASSUME TimerInv, CheckEnd
    PROVE  TimerInv'
<1> USE DEF TimerInv
<1>1. /\ phase # "callback" /\ phase' = "idle"
      /\ UNCHANGED <<tick, timer_list, list, timeout_tick, init_tick, activated, periodic,
                     processing, alive, current, started>>
    BY DEF CheckEnd, objVars
<1>2. Lists' /\ Sorted'
    BY <1>1 DEF InOrder, Lists, Sorted, Before
<1>3. Bounds'
    <2> SUFFICES ASSUME NEW x \in Timers, On(timer_list, x)
                 PROVE  Rest(timeout_tick[x], tick) \in 0..Half - 1
        BY <1>1 DEF Bounds
    <2>1. Rest(timeout_tick[x], tick) > 0
        BY DueFacts DEF CheckEnd
    <2>2. Rest(timeout_tick[x], tick) \in -1..Half - 1
        BY HalfFacts DEF InOrder, Bounds
    <2> QED
        BY <2>1, <2>2, HalfFacts
<1> QED
    BY <1>1, <1>2, <1>3 DEF InOrder, TypeOK, InHand, Listed

LEMMA InvNext == TimerInv /\ [Next]_vars => TimerInv'
<1> SUFFICES ASSUME TimerInv, [Next]_vars PROVE TimerInv'
    OBVIOUS
<1>1. ASSUME NEW t \in Timers, Start(t) \/ Stop(t) PROVE TimerInv'
    BY <1>1, StartKeeps, StopKeeps
<1>2. ASSUME NEW t \in Managed,
             \/ Detach(t)
             \/ \E n \in Times : SetTime(t, n)
             \/ \E p \in BOOLEAN : SetMode(t, p)
             \/ \E n \in Times, p \in BOOLEAN : InitTimer(t, n, p)
      PROVE  TimerInv'
    <2>1. t \in Timers
        BY TimerAssumption
    <2> QED
        BY <1>2, <2>1, DetachKeeps, SetTimeKeeps, SetModeKeeps, InitTimerKeeps
<1>3. CASE TickIncrease \/ CheckTake \/ CheckReturn \/ CheckEnd
    BY <1>3, TickKeeps, TakeKeeps, ReturnKeeps, EndKeeps
<1>4. CASE UNCHANGED vars
    <2>1. InOrder'
        BY <1>4, SameLists DEF TimerInv, vars, objVars
    <2> QED
        BY <1>4, <2>1 DEF TimerInv, vars, objVars, TypeOK, InHand, Listed
<1> QED
    BY <1>1, <1>2, <1>3, <1>4 DEF Next

\* For every set of timers and wherever the tick counter wraps, a timer in
\* the list is there once and can be stopped, and a stopped or detached one,
\* or the one rt_timer_check has in hand, is not in it.
THEOREM ListStaysRight == Spec => []ListedAreActivated
<1>1. TimerInv => ListedAreActivated
    <2> SUFFICES ASSUME TimerInv PROVE ListedAreActivated
        OBVIOUS
    <2>1. timer_list \in Seq(Timers) /\ DOMAIN timer_list = 1..Len(timer_list)
        BY DEF TimerInv, TypeOK
    <2>2. IsInjective(timer_list)
        BY <2>1 DEF TimerInv, InOrder, Lists, Distinct, IsInjective
    <2>3. \A t \in ToSet(timer_list) : activated[t] /\ alive[t] /\ list # t
        BY <2>1, ListedInTimers DEF TimerInv, Listed
    <2> QED
        BY <2>2, <2>3 DEF ListedAreActivated
<1> QED
    BY <1>1, InvInit, InvNext, PTL DEF Spec

-----------------------------------------------------------------------------
(* Countdown *)

\* Countdown's operator on lists is the one of Timer.
LEMMA SameRemove ==
    ASSUME NEW s, NEW t
    PROVE  CD!RemoveFirst(s, t) = RemoveFirst(s, t)
BY DEF CD!RemoveFirst, RemoveFirst, CD!RemoveAt, RemoveAt, CD!SelectInSeq, SelectInSeq, CD!Min, Min

\* The mapped variable left, before and after a step.
LEMMA LeftIs ==
    ASSUME TimerInv
    PROVE  /\ left = [x \in ToSet(timer_list) |-> Rest(timeout_tick[x], tick)]
           /\ \A x : x \in ToSet(timer_list) <=> On(timer_list, x)
           /\ \A x : On(timer_list, x) => x \in Timers
BY ListedInTimers DEF left, Rest, TimerInv, TypeOK

LEMMA LeftWillBe ==
    ASSUME TimerInv'
    PROVE  /\ left' = [x \in ToSet(timer_list') |-> Rest(timeout_tick'[x], tick')]
           /\ \A x : x \in ToSet(timer_list') <=> On(timer_list', x)
BY ListedInTimers DEF left, Rest, TimerInv, TypeOK

\* A timer that is started counts from its time.
LEMMA StartIsPut ==
    ASSUME TimerInv, TimerInv', NEW t \in Timers, StartTimer(t), tick' = tick,
           phase' = phase \/ phase' # "idle"
    PROVE  CD!Put(t, init_tick[t])
<1>1. /\ \A x : On(timer_list', x) <=> On(timer_list, x) \/ x = t
      /\ Rest(timeout_tick'[t], tick') = init_tick[t]
      /\ \A x \in Timers \ {t} : timeout_tick'[x] = timeout_tick[x]
    BY StartLists DEF TimerInv
<1>2. ToSet(timer_list') = ToSet(timer_list) \cup {t}
    BY <1>1, LeftIs, LeftWillBe
<1>3. ASSUME NEW x \in ToSet(timer_list) \cup {t}
      PROVE  Rest(timeout_tick'[x], tick') = IF x = t THEN init_tick[t] ELSE left[x]
    BY <1>1, LeftIs
<1>4. left' = [x \in ToSet(timer_list) \cup {t} |-> IF x = t THEN init_tick[t] ELSE left[x]]
    BY <1>2, <1>3, LeftWillBe
<1>5. CD!Running = ToSet(timer_list)
    BY LeftIs DEF CD!Running
<1> QED
    BY <1>4, <1>5, SameRemove DEF CD!Put, StartTimer

LEMMA LessIsDrop ==
    ASSUME TimerInv, TimerInv', NEW t \in Timers,
           \A x : On(timer_list', x) <=> On(timer_list, x) /\ x # t,
           started' = RemoveFirst(started, t), UNCHANGED <<tick, timeout_tick>>
    PROVE  CD!Drop(t)
<1>1. ToSet(timer_list') = ToSet(timer_list) \ {t}
    BY LeftIs, LeftWillBe
<1>2. left' = [x \in ToSet(timer_list) \ {t} |-> left[x]]
    BY <1>1, LeftIs, LeftWillBe
<1>3. CD!Running = ToSet(timer_list)
    BY LeftIs DEF CD!Running
<1> QED
    BY <1>2, <1>3, SameRemove DEF CD!Drop

LEMMA SameLeft ==
    ASSUME TimerInv, TimerInv', UNCHANGED <<tick, timer_list>>,
           \A x : On(timer_list, x) => timeout_tick'[x] = timeout_tick[x]
    PROVE  left' = left
BY LeftIs, LeftWillBe

LEMMA StartIsStart ==
    ASSUME TimerInv, TimerInv', NEW t \in Timers, Start(t)
    PROVE  CD!Start(t)
<1>1. CD!Put(t, init_tick[t])
    BY StartIsPut DEF Start
<1>2. list # t
    BY TimerAssumption DEF Start, TimerInv, InHand
<1>3. (list # None /\ activated[list])' = (list # None /\ activated[list])
    BY <1>2 DEF Start, StartTimer, TimerInv, TypeOK
<1>4. UNCHANGED <<init_tick, periodic, current, phase>>
    BY DEF Start
<1> QED
    BY <1>1, <1>3, <1>4 DEF CD!Start

\* What taking a timer off does to the one that would be started again.
LEMMA StopEndsAgain ==
    ASSUME TimerInv, NEW t \in Timers, activated' = [activated EXCEPT ![t] = FALSE],
           list' = IF list = t THEN None ELSE list
    PROVE  (list # None /\ activated[list])' = ((list # None /\ activated[list]) /\ current # t)
BY TimerAssumption DEF TimerInv, InHand, TypeOK

LEMMA StopTimerIsStop ==
    ASSUME TimerInv, TimerInv', NEW t \in Timers, NEW n \in Times, StopTimer(t),
           UNCHANGED <<tick, timeout_tick, periodic, phase, current>>,
           init_tick' = [init_tick EXCEPT ![t] = n]
    PROVE  CD!Stop(t)
<1>1. \A x : On(timer_list', x) <=> On(timer_list, x) /\ x # t
    BY StopLists DEF StopTimer, TimerInv
<1>2. CD!Drop(t)
    BY <1>1, LessIsDrop DEF StopTimer
<1>3. (list # None /\ activated[list])' = ((list # None /\ activated[list]) /\ current # t)
    BY StopEndsAgain DEF StopTimer
<1>4. init_tick' \in {[init_tick EXCEPT ![t] = k] : k \in 0..Half - 1}
    BY TimerAssumption
<1> QED
    BY <1>2, <1>3, <1>4 DEF CD!Stop

LEMMA SameTime ==
    ASSUME TimerInv, NEW t \in Timers
    PROVE  init_tick = [init_tick EXCEPT ![t] = init_tick[t]] /\ init_tick[t] \in Times
BY DEF TimerInv, TypeOK

LEMMA StopIsStop ==
    ASSUME TimerInv, TimerInv', NEW t \in Timers, Stop(t) \/ Detach(t)
    PROVE  CD!Stop(t)
<1>1. /\ StopTimer(t) /\ UNCHANGED <<tick, timeout_tick, periodic, phase, current>>
      /\ init_tick' = init_tick
    BY DEF Stop, Detach
<1> QED
    BY <1>1, SameTime, StopTimerIsStop

LEMMA SetTimeIsStop ==
    ASSUME TimerInv, TimerInv', NEW t \in Timers, NEW n \in Times, SetTime(t, n)
    PROVE  CD!Stop(t)
<1>1. /\ UNCHANGED <<tick, timeout_tick, periodic, phase, current>>
      /\ init_tick' = [init_tick EXCEPT ![t] = n]
    BY DEF SetTime
<1>2. CASE activated[t]
    BY <1>1, <1>2, StopTimerIsStop DEF SetTime
<1>3. CASE ~activated[t]
    <2>1. UNCHANGED <<timer_list, list, activated, started>>
        BY <1>3 DEF SetTime
    <2>2. ~On(timer_list, t)
        BY <1>3 DEF TimerInv, Listed
    <2>3. RemoveFirst(started, t) = started
        BY <2>2, RemoveFacts DEF TimerInv, TypeOK, InOrder, Lists
    <2>4. CD!Drop(t)
        BY <1>1, <2>1, <2>2, <2>3, LessIsDrop
    <2>5. (list # None /\ activated[list])' = ((list # None /\ activated[list]) /\ current # t)
        BY <1>3, <2>1 DEF TimerInv, InHand, TypeOK
    <2>6. init_tick' \in {[init_tick EXCEPT ![t] = k] : k \in 0..Half - 1}
        BY <1>1, TimerAssumption
    <2> QED
        BY <1>1, <2>4, <2>5, <2>6 DEF CD!Stop
<1> QED
    BY <1>2, <1>3

LEMMA SetModeIsSetMode ==
    ASSUME TimerInv, TimerInv', NEW t \in Timers, NEW p \in BOOLEAN, SetMode(t, p)
    PROVE  CD!SetMode(t, p)
<1>1. left' = left
    BY SameLeft DEF SetMode
<1> QED
    BY <1>1 DEF SetMode, CD!SetMode

LEMMA InitTimerIsRenew ==
    ASSUME TimerInv, TimerInv', NEW t \in Timers, NEW n \in Times, NEW p \in BOOLEAN,
           InitTimer(t, n, p)
    PROVE  CD!Renew(t, n, p)
<1>1. ~On(timer_list, t) /\ list # t
    BY InitTimerKeeps
<1>2. t \notin CD!Running
    BY <1>1, LeftIs DEF CD!Running
<1>3. left' = left
    <2>1. ASSUME NEW x, On(timer_list, x) PROVE timeout_tick'[x] = timeout_tick[x]
        BY <1>1, <2>1, LeftIs DEF InitTimer, TimerInv, TypeOK
    <2> QED
        BY <2>1, SameLeft DEF InitTimer
<1>4. (list # None /\ activated[list])' = (list # None /\ activated[list])
    BY <1>1 DEF InitTimer, TimerInv, TypeOK
<1>5. ~((list # None /\ activated[list]) /\ current = t)
    BY <1>1 DEF TimerInv, InHand
<1> QED
    BY <1>2, <1>3, <1>4, <1>5 DEF InitTimer, CD!Renew

LEMMA TickIsTick ==
    ASSUME TimerInv, TimerInv', TickIncrease
    PROVE  CD!Tick
<1>1. \A x \in Timers : On(timer_list, x) =>
          Rest(timeout_tick'[x], tick') = Rest(timeout_tick[x], tick) - 1
    BY TickLists DEF TickIncrease, objVars, TimerInv
<1>2. timer_list' = timer_list
    BY DEF TickIncrease
<1>3. left' = [x \in ToSet(timer_list) |-> left[x] - 1]
    BY <1>1, <1>2, LeftIs, LeftWillBe
<1>4. CD!Running = ToSet(timer_list)
    BY LeftIs DEF CD!Running
<1> QED
    BY <1>3, <1>4 DEF TickIncrease, objVars, CD!Tick

LEMMA PlaceIs ==
    ASSUME NEW s \in Seq(Timers), Distinct(s), NEW x, NEW y, Ahead(s, x, y)
    PROVE  (CHOOSE i \in DOMAIN s : s[i] = x) < (CHOOSE i \in DOMAIN s : s[i] = y)
<1>1. PICK i \in 1..Len(s), j \in 1..Len(s) : i < j /\ s[i] = x /\ s[j] = y
    BY DEF Ahead
<1>2. DOMAIN s = 1..Len(s)
    OBVIOUS
<1>3. \A k \in DOMAIN s : (s[k] = x <=> k = i) /\ (s[k] = y <=> k = j)
    BY <1>1, <1>2 DEF Distinct
<1>4. (CHOOSE k \in DOMAIN s : s[k] = x) = i /\ (CHOOSE k \in DOMAIN s : s[k] = y) = j
    BY <1>1, <1>2, <1>3
<1> QED
    BY <1>1, <1>4

LEMMA TakeIsFire ==
    ASSUME TimerInv, TimerInv', CheckTake
    PROVE  \E t \in Timers : CD!Fire(t)
<1> DEFINE t == Head(timer_list)
<1>1. t \in Timers /\ On(timer_list, t)
    BY TailFacts DEF CheckTake, Due, TimerInv, TypeOK, InOrder, Lists
<1>2. /\ phase # "idle" /\ phase # "callback" /\ phase' = "callback"
      /\ activated' = [activated EXCEPT ![t] = periodic[t] /\ @]
      /\ list' = t /\ current' = t /\ started' = RemoveFirst(started, t)
      /\ UNCHANGED <<tick, timeout_tick, init_tick, periodic>>
    BY DEF CheckTake
<1>3. \A x : On(timer_list', x) <=> On(timer_list, x) /\ x # t
    BY TakeLists DEF CheckTake, Due, TimerInv
<1>4. /\ Rest(timeout_tick[t], tick) <= 0
      /\ \A x \in Timers \ {t} : On(timer_list, x) => Before(t, x)
    BY DueFacts DEF CheckTake
<1> HIDE DEF t
<1>5. CD!Drop(t)
    BY <1>1, <1>2, <1>3, LessIsDrop
<1>6. CD!Running = ToSet(timer_list) /\ t \in CD!Running /\ left[t] <= 0
    BY <1>1, <1>4, LeftIs DEF CD!Running
<1>7. ASSUME NEW u \in CD!Running \ {t}
      PROVE  left[t] < left[u] \/ (left[t] = left[u] /\ CD!Place(t) < CD!Place(u))
    <2>1. /\ u \in Timers \ {t} /\ On(timer_list, u) /\ Before(t, u)
          /\ left[u] = Rest(timeout_tick[u], tick) /\ left[t] = Rest(timeout_tick[t], tick)
        BY <1>1, <1>4, <1>6, LeftIs
    <2>2. Ahead(started, t, u) => CD!Place(t) < CD!Place(u)
        <3>1. started \in Seq(Timers) /\ Distinct(started)
            BY DEF TimerInv, TypeOK, InOrder, Lists
        <3>2. Ahead(started, t, u) =>
                (CHOOSE i \in DOMAIN started : started[i] = t)
                    < (CHOOSE i \in DOMAIN started : started[i] = u)
            BY <3>1, PlaceIs
        <3> QED
            BY <3>2, Zenon DEF CD!Place
    <2> QED
        BY <2>1, <2>2 DEF Before
<1>8. activated[t] /\ t # None
    BY <1>1, TimerAssumption DEF TimerInv, Listed
<1>9. (list # None /\ activated[list])' = periodic[t]
    BY <1>1, <1>2, <1>8, Zenon DEF TimerInv, TypeOK
<1>10. current = None
    BY <1>2 DEF TimerInv, InHand
<1>11. CD!Fire(t)
    BY <1>2, <1>5, <1>6, <1>7, <1>9, <1>10 DEF CD!Fire
<1> QED
    BY <1>1, <1>11

LEMMA ReturnIsReturn ==
    ASSUME TimerInv, TimerInv', CheckReturn
    PROVE  CD!Return
<1>1. current \in Timers /\ current # None /\ (list # None => list = current)
    BY DEF CheckReturn, TimerInv, InHand, TypeOK
<1>2. /\ phase = "callback" /\ phase' = "locked" /\ list' = None /\ current' = None
      /\ UNCHANGED <<tick, init_tick, periodic>>
    BY DEF CheckReturn
<1>3. CASE list # None /\ periodic[current] /\ activated[current]
    <2>1. StartTimer(current)
        BY <1>3 DEF CheckReturn
    <2>2. PICK t \in Timers : t = current
        BY <1>1
    <2>3. CD!Put(t, init_tick[t])
        BY <1>2, <2>1, <2>2, StartIsPut
    <2>4. (list # None /\ activated[list]) /\ periodic[current]
        BY <1>1, <1>3
    <2> QED
        BY <1>1, <1>2, <2>2, <2>3, <2>4 DEF CD!Return
<1>4. CASE ~(list # None /\ periodic[current] /\ activated[current])
    <2>1. UNCHANGED <<timeout_tick, timer_list, activated, started>>
        BY <1>4 DEF CheckReturn
    <2>2. left' = left
        BY <1>2, <2>1, SameLeft
    <2>3. ~((list # None /\ activated[list]) /\ periodic[current])
        BY <1>1, <1>4
    <2> QED
        BY <1>1, <1>2, <2>1, <2>2, <2>3 DEF CD!Return
<1> QED
    BY <1>3, <1>4

LEMMA EndIsEndCheck ==
    ASSUME TimerInv, TimerInv', CheckEnd
    PROVE  CD!EndCheck
<1>1. left' = left
    BY SameLeft DEF CheckEnd, objVars
<1>2. \A x \in CD!Running : left[x] > 0
    BY DueFacts, LeftIs DEF CheckEnd, CD!Running
<1>3. current = None
    BY DEF CheckEnd, TimerInv, InHand
<1> QED
    BY <1>1, <1>2, <1>3 DEF CheckEnd, objVars, CD!EndCheck

\* For every set of timers, every set of times below RT_TICK_MAX / 2, and
\* wherever the tick counter wraps: no timer fires early, late or out of
\* order, none is forgotten, and a periodic one goes on until it is stopped,
\* whatever the timers' functions and the interrupts call in between.
THEOREM TimersCountDown == Spec => ImplementsCountdown
<1>1. Init => CD!Init
    <2> SUFFICES ASSUME Init PROVE CD!Init
        OBVIOUS
    <2>1. TimerInv
        BY InvInit
    <2>2. timer_list = <<>> /\ ToSet(timer_list) = {}
        BY DEF Init, ToSet
    <2>3. left = <<>>
        <3>1. left = [x \in {} |-> Rest(timeout_tick[x], tick)]
            BY <2>1, <2>2, LeftIs
        <3>2. <<>> = [x \in {} |-> Rest(timeout_tick[x], tick)]
            OBVIOUS
        <3> QED
            BY <3>1, <3>2
    <2>4. init_tick \in [Timers -> 0..Half - 1] /\ periodic \in [Timers -> BOOLEAN]
        BY TimerAssumption DEF Init
    <2> QED
        BY <2>3, <2>4 DEF Init, CD!Init
<1>2. TimerInv /\ TimerInv' /\ [Next]_vars => [CD!Next]_(CD!vars)
    <2> SUFFICES ASSUME TimerInv, TimerInv', [Next]_vars PROVE [CD!Next]_(CD!vars)
        OBVIOUS
    <2>1. ASSUME NEW t \in Timers, Start(t) \/ Stop(t) PROVE CD!Next
        BY <2>1, StartIsStart, StopIsStop DEF CD!Next
    <2>2. ASSUME NEW t \in Managed,
                 \/ Detach(t)
                 \/ \E n \in Times : SetTime(t, n)
                 \/ \E p \in BOOLEAN : SetMode(t, p)
                 \/ \E n \in Times, p \in BOOLEAN : InitTimer(t, n, p)
          PROVE  CD!Next
        <3>1. t \in Timers /\ \A n \in Times : n \in 0..Half - 1
            BY TimerAssumption
        <3>2. CASE Detach(t) \/ \E n \in Times : SetTime(t, n)
            BY <3>1, <3>2, StopIsStop, SetTimeIsStop DEF CD!Next
        <3>3. CASE \E p \in BOOLEAN : SetMode(t, p)
            BY <3>1, <3>3, SetModeIsSetMode DEF CD!Next
        <3>4. CASE \E n \in Times, p \in BOOLEAN : InitTimer(t, n, p)
            BY <3>1, <3>4, InitTimerIsRenew DEF CD!Next
        <3> QED
            BY <2>2, <3>2, <3>3, <3>4
    <2>3. CASE TickIncrease \/ CheckTake \/ CheckReturn \/ CheckEnd
        BY <2>3, TickIsTick, TakeIsFire, ReturnIsReturn, EndIsEndCheck DEF CD!Next
    <2>4. CASE UNCHANGED vars
        <3>1. left' = left
            BY <2>4, SameLeft DEF vars, objVars
        <3> QED
            BY <2>4, <3>1 DEF vars, objVars, CD!vars
    <2> QED
        BY <2>1, <2>2, <2>3, <2>4 DEF Next
<1> QED
    BY <1>1, <1>2, InvInit, InvNext, PTL DEF Spec, ImplementsCountdown, CD!Spec

=============================================================================
