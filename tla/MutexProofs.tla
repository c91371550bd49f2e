---------------------------- MODULE MutexProofs ----------------------------
(***************************************************************************)
(* The mutex for any number of threads and mutexes, any priorities and     *)
(* ceilings, and chains and cycles of owners of any length: ownership, the *)
(* suspend lists and the results of rt_mutex_take stay right through       *)
(* timeouts, deletions, changed priorities and detached mutexes; the loop  *)
(* along the chain of owners ends, and when it has ended no waiter is more *)
(* urgent than the owner, and nothing is lent that is not owed.            *)
(***************************************************************************)
EXTENDS Mutex, FiniteSetTheorems, NaturalsInduction, WellFoundedInduction, TLAPS

-----------------------------------------------------------------------------
(* Lists *)

\* A set of naturals has a least element: the induction behind Min and behind
\* the chain of owners.
LEMMA LeastElement ==
    ASSUME NEW I \in SUBSET Nat, I # {}
    PROVE  \E m \in I : \A y \in I : m <= y
<1>1. IsWellFoundedOn(OpToRel(<, Nat), Nat)
    BY NatLessThanWellFounded
<1>2. PICK x \in I : \A y \in I : ~(<<y, x>> \in OpToRel(<, Nat))
    BY <1>1, WFMin, Zenon
<1>3. ASSUME NEW y \in Nat, y < x
      PROVE  <<y, x>> \in OpToRel(<, Nat)
    <2>1. OpToRel(<, Nat) = {ss \in Nat \X Nat : ss[1] < ss[2]}
        BY Zenon DEF OpToRel
    <2>2. <<y, x>> \in {ss \in Nat \X Nat : ss[1] < ss[2]}
        BY <1>3
    <2> QED
        BY <2>1, <2>2, Zenon
<1>4. \A y \in I : ~(y < x)
    BY <1>2, <1>3, Zenon
<1> QED
    BY <1>4

LEMMA MinOfNaturals ==
    ASSUME NEW I \in SUBSET Nat, I # {}
    PROVE  Min(I) \in I /\ \A y \in I : Min(I) <= y
<1>1. \E m \in I : \A y \in I : m <= y
    BY LeastElement
<1> QED
    BY <1>1, Zenon DEF Min

On(s, x) == \E i \in 1..Len(s) : s[i] = x
Distinct(s) == \A i, j \in 1..Len(s) : s[i] = s[j] => i = j

LEMMA NothingOnEmpty ==
    ASSUME NEW S, NEW s \in Seq(S)
    PROVE  s = <<>> <=> \A x : ~On(s, x)
<1>1. ASSUME s # <<>>
      PROVE  On(s, s[1])
    BY <1>1 DEF On
<1>2. ASSUME s = <<>>, NEW x
      PROVE  ~On(s, x)
    BY <1>2 DEF On
<1> QED
    BY <1>1, <1>2

LEMMA OnType ==
    ASSUME NEW S, NEW s \in Seq(S), NEW x, On(s, x)
    PROVE  x \in S
BY DEF On

\* The definitions used in the specification.
LEMMA SameWords ==
    ASSUME NEW S, NEW s \in Seq(S)
    PROVE  /\ IsInjective(s) <=> Distinct(s)
           /\ \A x : Contains(s, x) <=> On(s, x)
<1>1. DOMAIN s = 1..Len(s)
    OBVIOUS
<1> QED
    BY <1>1 DEF IsInjective, Contains, On, Distinct

\* r is s with t put at place k.
LEMMA InsertFacts ==
    ASSUME NEW S, NEW s \in Seq(S), NEW t \in S, NEW k \in 1..Len(s) + 1,
           NEW r \in Seq(S), Len(r) = Len(s) + 1, r[k] = t,
           \A j \in 1..k - 1 : r[j] = s[j],
           \A j \in k..Len(s) : r[j + 1] = s[j]
    PROVE  /\ \A x : On(r, x) <=> On(s, x) \/ x = t
           /\ Distinct(s) /\ ~On(s, t) => Distinct(r)
<1> DEFINE Old(j) == IF j < k THEN j ELSE j - 1
           New(j) == IF j < k THEN j ELSE j + 1
<1>1. ASSUME NEW j \in 1..Len(r), j # k
      PROVE  Old(j) \in 1..Len(s) /\ r[j] = s[Old(j)]
    <2>1. CASE j < k
        BY <1>1, <2>1
    <2>2. CASE j > k
        <3>1. j - 1 \in k..Len(s) /\ (j - 1) + 1 = j
            BY <2>2
        <3> QED
            BY <2>2, <3>1
    <2> QED
        BY <1>1, <2>1, <2>2
<1>2. ASSUME NEW j \in 1..Len(s)
      PROVE  New(j) \in 1..Len(r) /\ r[New(j)] = s[j]
    OBVIOUS
<1>3. ASSUME NEW x PROVE On(r, x) <=> On(s, x) \/ x = t
    <2>1. ASSUME On(r, x) PROVE On(s, x) \/ x = t
        <3>1. PICK j \in 1..Len(r) : r[j] = x
            BY <2>1 DEF On
        <3> QED
            BY <1>1, <3>1 DEF On
    <2>2. ASSUME On(s, x) PROVE On(r, x)
        <3>1. PICK j \in 1..Len(s) : s[j] = x
            BY <2>2 DEF On
        <3> QED
            BY <1>2, <3>1 DEF On
    <2>3. On(r, t)
        BY DEF On
    <2> QED
        BY <2>1, <2>2, <2>3
<1>4. ASSUME Distinct(s), ~On(s, t) PROVE Distinct(r)
    <2> SUFFICES ASSUME NEW i \in 1..Len(r), NEW j \in 1..Len(r), r[i] = r[j]
                 PROVE  i = j
        BY DEF Distinct
    <2>1. CASE i # k /\ j # k
        <3>1. s[Old(i)] = s[Old(j)] /\ Old(i) \in 1..Len(s) /\ Old(j) \in 1..Len(s)
            BY <1>1, <2>1
        <3>2. Old(i) = Old(j)
            <4> HIDE DEF Old
            <4> QED
                BY <1>4, <3>1 DEF Distinct
        <3> QED
            BY <2>1, <3>2
    <2>2. ASSUME NEW h \in 1..Len(r), h # k PROVE r[h] # t
        <3>1. Old(h) \in 1..Len(s) /\ r[h] = s[Old(h)]
            BY <1>1, <2>2
        <3> HIDE DEF Old
        <3> QED
            BY <1>4, <3>1 DEF On
    <2> QED
        BY <2>1, <2>2
<1> QED
    BY <1>3, <1>4

\* r is a followed by b.
IsConcat(S, r, a, b) ==
    /\ r \in Seq(S) /\ Len(r) = Len(a) + Len(b)
    /\ \A j \in 1..Len(a) : r[j] = a[j]
    /\ \A j \in 1..Len(b) : r[Len(a) + j] = b[j]

LEMMA ConcatFacts ==
    ASSUME NEW S, NEW a \in Seq(S), NEW b \in Seq(S)
    PROVE  IsConcat(S, a \o b, a, b)
BY DEF IsConcat

\* r is s with t put at place k.
IsInserted(S, r, s, t, k) ==
    /\ r \in Seq(S) /\ Len(r) = Len(s) + 1 /\ r[k] = t
    /\ \A j \in 1..k - 1 : r[j] = s[j]
    /\ \A j \in k..Len(s) : r[j + 1] = s[j]

LEMMA InsertedAt ==
    ASSUME NEW S, NEW s \in Seq(S), NEW t \in S, NEW k \in 1..Len(s)
    PROVE  IsInserted(S, SubSeq(s, 1, k - 1) \o <<t>> \o SubSeq(s, k, Len(s)), s, t, k)
<1> DEFINE a == SubSeq(s, 1, k - 1)
           b == SubSeq(s, k, Len(s))
           one == <<t>>
           c == a \o one
           r == c \o b
<1>0. Len(s) \in Nat /\ k \in 1..Len(s)
    OBVIOUS
<1>1. a \in Seq(S) /\ Len(a) = k - 1 /\ \A j \in 1..k - 1 : a[j] = s[j]
    OBVIOUS
<1>2. b \in Seq(S) /\ Len(b) = Len(s) - k + 1 /\ \A j \in 1..Len(s) - k + 1 : b[j] = s[j + k - 1]
    OBVIOUS
<1>3. one \in Seq(S) /\ Len(one) = 1 /\ one[1] = t
    OBVIOUS
<1> HIDE DEF a, b, one
<1>4. c \in Seq(S) /\ Len(c) = k /\ c[k] = t /\ \A j \in 1..k - 1 : c[j] = a[j]
    <2>1. IsConcat(S, c, a, one)
        BY <1>1, <1>3, ConcatFacts
    <2> HIDE DEF c
    <2>2. 1 \in 1..Len(one) /\ Len(a) + 1 = k
        BY <1>0, <1>1, <1>3
    <2> QED
        BY <1>1, <1>3, <2>1, <2>2 DEF IsConcat
<1> HIDE DEF c
<1>5. IsConcat(S, r, c, b)
    BY <1>2, <1>4, ConcatFacts
<1> HIDE DEF r
<1>6. r \in Seq(S) /\ Len(r) = Len(s) + 1
    <2>1. k + (Len(s) - k + 1) = Len(s) + 1
        BY <1>0
    <2> QED
        BY <1>2, <1>4, <1>5, <2>1 DEF IsConcat
<1>7. r[k] = t /\ \A j \in 1..k - 1 : r[j] = s[j]
    <2>1. k \in 1..k /\ \A j \in 1..k - 1 : j \in 1..k
        BY <1>0
    <2>2. \A j \in 1..k : r[j] = c[j]
        BY <1>4, <1>5 DEF IsConcat
    <2> QED
        BY <1>1, <1>4, <2>1, <2>2
<1>8. ASSUME NEW j \in k..Len(s) PROVE r[j + 1] = s[j]
    <2> DEFINE i == j - k + 1
    <2>1. i \in 1..Len(s) - k + 1 /\ k + i = j + 1 /\ i + k - 1 = j
        BY <1>0
    <2> HIDE DEF i
    <2>2. r[k + i] = b[i]
        BY <1>2, <1>4, <1>5, <2>1 DEF IsConcat
    <2>3. b[i] = s[i + k - 1]
        BY <1>2, <2>1
    <2> QED
        BY <2>1, <2>2, <2>3
<1>9. IsInserted(S, r, s, t, k)
    BY <1>6, <1>7, <1>8 DEF IsInserted
<1> QED
    BY <1>9 DEF r, c, one, a, b

\* Where rt_susp_list_enqueue puts a thread.
LEMMA EnqueuePlace ==
    ASSUME NEW s \in Seq(Threads), NEW t \in Threads, NEW c
    PROVE  \E k \in 1..Len(s) + 1 :
               /\ IsInserted(Threads, Enqueue(s, t, c), s, t, k)
               /\ \A j \in 1..k - 1 : ~(c[t] < c[s[j]])
               /\ k <= Len(s) => c[t] < c[s[k]]
<1> DEFINE I == {i \in 1..Len(s) : c[t] < c[s[i]]}
<1>1. SelectInSeq(s, LAMBDA u : c[t] < c[u]) = IF I # {} THEN Min(I) ELSE 0
    BY DEF SelectInSeq
<1>2. CASE I = {}
    <2> DEFINE k == Len(s) + 1
               r == Append(s, t)
    <2>1. Enqueue(s, t, c) = r
        BY <1>1, <1>2 DEF Enqueue
    <2>2. /\ r \in Seq(Threads) /\ Len(r) = Len(s) + 1 /\ r[k] = t /\ k \in 1..Len(s) + 1
          /\ \A j \in 1..k - 1 : r[j] = s[j]
          /\ \A j \in k..Len(s) : r[j + 1] = s[j]
        OBVIOUS
    <2>3. ~(k <= Len(s)) /\ \A j \in 1..k - 1 : ~(c[t] < c[s[j]])
        BY <1>2
    <2> HIDE DEF r, k, I
    <2>4. IsInserted(Threads, r, s, t, k)
        BY <2>2 DEF IsInserted
    <2> QED
        BY <2>1, <2>2, <2>3, <2>4
<1>3. CASE I # {}
    <2> DEFINE k == Min(I)
               r == SubSeq(s, 1, k - 1) \o <<t>> \o SubSeq(s, k, Len(s))
    <2>1. k \in I /\ \A j \in I : k <= j
        <3>1. I \in SUBSET Nat
            OBVIOUS
        <3> HIDE DEF I
        <3> QED
            BY <3>1, <1>3, MinOfNaturals
    <2>2. k \in 1..Len(s) /\ c[t] < c[s[k]]
        BY <2>1
    <2>3. ASSUME NEW j \in 1..k - 1 PROVE ~(c[t] < c[s[j]])
        <3> HIDE DEF k
        <3>1. j \in 1..Len(s) /\ ~(k <= j)
            BY <2>2
        <3> QED
            BY <2>1, <3>1
    <2>4. SelectInSeq(s, LAMBDA u : c[t] < c[u]) = k /\ k # 0
        BY <1>1, <1>3, <2>2
    <2> HIDE DEF k, I
    <2>5. Enqueue(s, t, c) = r
        BY <2>4 DEF Enqueue, InsertAt
    <2>6. IsInserted(Threads, r, s, t, k)
        BY <2>2, InsertedAt
    <2>7. k \in 1..Len(s) + 1
        BY <2>2
    <2> HIDE DEF r
    <2> QED
        BY <2>2, <2>3, <2>5, <2>6, <2>7
<1> QED
    BY <1>2, <1>3

LEMMA EnqueueFacts ==
    ASSUME NEW s \in Seq(Threads), NEW t \in Threads, NEW c
    PROVE  /\ Enqueue(s, t, c) \in Seq(Threads)
           /\ \A x : On(Enqueue(s, t, c), x) <=> On(s, x) \/ x = t
           /\ Distinct(s) /\ ~On(s, t) => Distinct(Enqueue(s, t, c))
<1> DEFINE r == Enqueue(s, t, c)
<1>1. PICK k \in 1..Len(s) + 1 : IsInserted(Threads, r, s, t, k)
    BY EnqueuePlace
<1> HIDE DEF r
<1>2. /\ r \in Seq(Threads) /\ Len(r) = Len(s) + 1 /\ r[k] = t
      /\ \A j \in 1..k - 1 : r[j] = s[j]
      /\ \A j \in k..Len(s) : r[j + 1] = s[j]
    BY <1>1 DEF IsInserted
<1>3. /\ \A x : On(r, x) <=> On(s, x) \/ x = t
      /\ Distinct(s) /\ ~On(s, t) => Distinct(r)
    BY <1>2, InsertFacts
<1> QED
    BY <1>2, <1>3 DEF r

LEMMA RemoveAtFacts ==
    ASSUME NEW S, NEW s \in Seq(S), NEW k \in 1..Len(s)
    PROVE  /\ RemoveAt(s, k) \in Seq(S) /\ Len(RemoveAt(s, k)) = Len(s) - 1
           /\ \A j \in 1..k - 1 : RemoveAt(s, k)[j] = s[j]
           /\ \A j \in k..Len(s) - 1 : RemoveAt(s, k)[j] = s[j + 1]
<1> DEFINE a == SubSeq(s, 1, k - 1)
           b == SubSeq(s, k + 1, Len(s))
<1>1. /\ a \in Seq(S) /\ Len(a) = k - 1 /\ \A j \in 1..k - 1 : a[j] = s[j]
      /\ b \in Seq(S) /\ Len(b) = Len(s) - k /\ \A j \in 1..Len(s) - k : b[j] = s[j + k]
    OBVIOUS
<1>2. RemoveAt(s, k) = a \o b
    BY DEF RemoveAt
<1> HIDE DEF a, b
<1>3. /\ a \o b \in Seq(S) /\ Len(a \o b) = Len(s) - 1
      /\ \A j \in 1..k - 1 : (a \o b)[j] = s[j]
    <2>0. a \in Seq(S) /\ b \in Seq(S)
        BY <1>1
    <2>1. /\ a \o b \in Seq(S) /\ Len(a \o b) = Len(a) + Len(b)
          /\ \A j \in 1..Len(a) : (a \o b)[j] = a[j]
        BY <2>0
    <2>2. (k - 1) + (Len(s) - k) = Len(s) - 1
        OBVIOUS
    <2> QED
        BY <1>1, <2>1, <2>2
<1>4. ASSUME NEW j \in k..Len(s) - 1 PROVE (a \o b)[j] = s[j + 1]
    <2>1. j - k + 1 \in 1..Len(s) - k /\ j - k + 1 + k = j + 1 /\ j = Len(a) + (j - k + 1)
        BY <1>1
    <2>2. (a \o b)[j] = b[j - k + 1]
        BY <1>1, <2>1
    <2> QED
        BY <1>1, <2>1, <2>2
<1> QED
    BY <1>2, <1>3, <1>4

LEMMA RemoveNothing ==
    ASSUME NEW S, NEW s \in Seq(S), NEW t, ~On(s, t)
    PROVE  RemoveFirst(s, t) = s
BY Zenon DEF RemoveFirst, On

\* r is s without what is at place k.
IsRemoved(S, r, s, k) ==
    /\ r \in Seq(S) /\ Len(r) = Len(s) - 1 /\ Len(s) \in Nat
    /\ \A j \in 1..k - 1 : r[j] = s[j]
    /\ \A j \in k..Len(s) - 1 : r[j] = s[j + 1]

LEMMA RemovePlace ==
    ASSUME NEW S, NEW s \in Seq(S), NEW t, On(s, t)
    PROVE  \E k \in 1..Len(s) : s[k] = t /\ IsRemoved(S, RemoveFirst(s, t), s, k)
<1> DEFINE I == {i \in 1..Len(s) : s[i] = t}
           k == Min(I)
<1>1. SelectInSeq(s, LAMBDA v : v = t) = IF I # {} THEN Min(I) ELSE 0
    BY DEF SelectInSeq
<1>2. I # {} /\ I \in SUBSET Nat
    BY DEF On
<1>3. k \in I
    <2> HIDE DEF I
    <2> QED
        BY <1>2, MinOfNaturals
<1>4. k \in 1..Len(s) /\ s[k] = t
    BY <1>3
<1>5. RemoveFirst(s, t) = RemoveAt(s, k)
    <2> HIDE DEF I
    <2>1. SelectInSeq(s, LAMBDA v : v = t) = k
        BY <1>1, <1>2
    <2> HIDE DEF k
    <2> QED
        BY <2>1 DEF RemoveFirst, On
<1> HIDE DEF k, I
<1>6. IsRemoved(S, RemoveAt(s, k), s, k)
    <2>1. RemoveAt(s, k) \in Seq(S) /\ Len(RemoveAt(s, k)) = Len(s) - 1
        BY <1>4, RemoveAtFacts
    <2>2. \A j \in 1..k - 1 : RemoveAt(s, k)[j] = s[j]
        BY <1>4, RemoveAtFacts
    <2>3. \A j \in k..Len(s) - 1 : RemoveAt(s, k)[j] = s[j + 1]
        BY <1>4, RemoveAtFacts
    <2>4. Len(s) \in Nat
        OBVIOUS
    <2> QED
        BY <2>1, <2>2, <2>3, <2>4, Zenon DEF IsRemoved
<1> QED
    BY <1>4, <1>5, <1>6

LEMMA RemoveFacts ==
    ASSUME NEW S, NEW s \in Seq(S), NEW t, Distinct(s)
    PROVE  /\ RemoveFirst(s, t) \in Seq(S) /\ Distinct(RemoveFirst(s, t))
           /\ \A x : On(RemoveFirst(s, t), x) <=> On(s, x) /\ x # t
<1> DEFINE r == RemoveFirst(s, t)
<1>1. CASE ~On(s, t)
    <2>1. r = s
        BY <1>1, RemoveNothing
    <2> QED
        BY <1>1, <2>1
<1>2. CASE On(s, t)
    <2>3. PICK k \in 1..Len(s) : s[k] = t /\ IsRemoved(S, r, s, k)
        BY <1>2, RemovePlace
    <2>4. k \in 1..Len(s) /\ s[k] = t
        BY <2>3
    <2>6. /\ r \in Seq(S) /\ Len(r) = Len(s) - 1 /\ Len(s) \in Nat
          /\ \A j \in 1..k - 1 : r[j] = s[j]
          /\ \A j \in k..Len(s) - 1 : r[j] = s[j + 1]
        <3> HIDE DEF r
        <3> QED
            BY <2>3 DEF IsRemoved
    <2> HIDE DEF r
    <2>7. ASSUME NEW j \in 1..Len(s), s[j] = t PROVE j = k
        BY <2>4, <2>7 DEF Distinct
    <2> DEFINE Old(j) == IF j < k THEN j ELSE j + 1
               New(j) == IF j < k THEN j ELSE j - 1
    <2>8. ASSUME NEW j \in 1..Len(r)
          PROVE  Old(j) \in 1..Len(s) /\ r[j] = s[Old(j)] /\ r[j] # t
        <3>1. Old(j) \in 1..Len(s) /\ Old(j) # k /\ r[j] = s[Old(j)]
            BY <2>4, <2>6
        <3> HIDE DEF Old
        <3> QED
            BY <2>7, <3>1
    <2>9. ASSUME NEW j \in 1..Len(s), s[j] # t
          PROVE  New(j) \in 1..Len(r) /\ r[New(j)] = s[j]
        <3>1. j # k
            BY <2>4, <2>9
        <3>2. CASE j > k
            <4>1. j - 1 \in k..Len(s) - 1 /\ (j - 1) + 1 = j
                BY <2>4, <2>6, <3>2
            <4> QED
                BY <2>4, <2>6, <3>2, <4>1
        <3>3. CASE j < k
            <4>1. j \in 1..k - 1 /\ j \in 1..Len(r)
                BY <2>4, <2>6, <3>3
            <4> QED
                BY <2>6, <3>3, <4>1
        <3> QED
            BY <2>4, <3>1, <3>2, <3>3
    <2>10. ASSUME NEW x PROVE On(r, x) <=> On(s, x) /\ x # t
        <3>1. ASSUME On(r, x) PROVE On(s, x) /\ x # t
            <4>1. PICK j \in 1..Len(r) : r[j] = x
                BY <3>1 DEF On
            <4>2. Old(j) \in 1..Len(s) /\ s[Old(j)] = x /\ x # t
                BY <2>8, <4>1
            <4> HIDE DEF Old
            <4> QED
                BY <4>2 DEF On
        <3>2. ASSUME On(s, x), x # t PROVE On(r, x)
            <4>1. PICK j \in 1..Len(s) : s[j] = x
                BY <3>2 DEF On
            <4>2. New(j) \in 1..Len(r) /\ r[New(j)] = x
                BY <2>9, <3>2, <4>1
            <4> HIDE DEF New
            <4> QED
                BY <4>2 DEF On
        <3> QED
            BY <3>1, <3>2
    <2>11. Distinct(r)
        <3> SUFFICES ASSUME NEW i \in 1..Len(r), NEW j \in 1..Len(r), r[i] = r[j]
                     PROVE  i = j
            BY DEF Distinct
        <3>1. Old(i) \in 1..Len(s) /\ Old(j) \in 1..Len(s) /\ s[Old(i)] = s[Old(j)]
            BY <2>8
        <3>2. Old(i) = Old(j)
            <4> HIDE DEF Old
            <4> QED
                BY <3>1 DEF Distinct
        <3> QED
            BY <2>4, <3>2
    <2> QED
        BY <2>6, <2>10, <2>11 DEF r
<1> QED
    BY <1>1, <1>2

LEMMA TailFacts ==
    ASSUME NEW S, NEW s \in Seq(S), s # <<>>, Distinct(s)
    PROVE  /\ Tail(s) \in Seq(S) /\ Distinct(Tail(s)) /\ On(s, Head(s)) /\ Head(s) \in S
           /\ \A x : On(Tail(s), x) <=> On(s, x) /\ x # Head(s)
<1> DEFINE r == Tail(s)
<1>1. /\ r \in Seq(S) /\ Len(s) \in Nat \ {0} /\ Len(r) = Len(s) - 1 /\ Head(s) = s[1] /\ s[1] \in S
      /\ \A j \in 1..Len(s) - 1 : r[j] = s[j + 1]
    OBVIOUS
<1> HIDE DEF r
<1>2. ASSUME NEW j \in 1..Len(r) PROVE j + 1 \in 1..Len(s) /\ r[j] = s[j + 1] /\ r[j] # s[1]
    <2>1. j + 1 \in 1..Len(s) /\ r[j] = s[j + 1] /\ 1 \in 1..Len(s) /\ j + 1 # 1
        BY <1>1
    <2> QED
        BY <2>1 DEF Distinct
<1>3. ASSUME NEW j \in 1..Len(s), j # 1 PROVE j - 1 \in 1..Len(r) /\ r[j - 1] = s[j]
    <2>1. j - 1 \in 1..Len(s) - 1 /\ (j - 1) + 1 = j
        BY <1>1, <1>3
    <2> QED
        BY <1>1, <2>1
<1>4. ASSUME NEW x PROVE On(r, x) <=> On(s, x) /\ x # s[1]
    BY <1>1, <1>2, <1>3 DEF On
<1>5. Distinct(r)
    <2> SUFFICES ASSUME NEW i \in 1..Len(r), NEW j \in 1..Len(r), r[i] = r[j]
                 PROVE  i = j
        BY DEF Distinct
    <2>1. i + 1 \in 1..Len(s) /\ j + 1 \in 1..Len(s) /\ s[i + 1] = s[j + 1]
        BY <1>2
    <2>2. i + 1 = j + 1
        BY <2>1 DEF Distinct
    <2> QED
        BY <2>2
<1>6. On(s, s[1])
    BY <1>1 DEF On
<1> QED
    BY <1>1, <1>4, <1>5, <1>6 DEF r
-----------------------------------------------------------------------------
(* Priorities *)

Prios == 0..31

LEMMA PrioOrder ==
    \A a, b, d \in Prios :
        /\ a < NoPrio /\ a <= NoPrio /\ a <= a /\ a # NoPrio
        /\ a < b => a <= b
        /\ ~(a < b) => b <= a
        /\ a <= b /\ b <= d => a <= d
BY DEF Prios, NoPrio

LEMMA PriosAreNaturals ==
    /\ Prios \subseteq Nat /\ NoPrio \in Nat /\ Ceilings \subseteq Nat
    /\ \A t \in Threads : InitPrio[t] \in Prios
BY MutexAssumption DEF Prios, NoPrio

LEMMA MutexPriorityType ==
    ASSUME NEW t \in Threads, NEW mine \in SUBSET Mutexes,
           NEW mp \in [Mutexes -> Prios \cup {NoPrio}],
           NEW ceil \in [Mutexes -> Ceilings \cup {NoPrio}]
    PROVE  MutexPriority(t, mine, mp, ceil) \in Prios
<1> DEFINE I == {InitPrio[t]} \cup {mp[m] : m \in mine} \cup {ceil[m] : m \in mine}
<1>1. I \in SUBSET Nat /\ InitPrio[t] \in I /\ InitPrio[t] \in Prios
    <2>1. InitPrio[t] \in Prios
        BY MutexAssumption DEF Prios
    <2>2. \A m \in Mutexes : mp[m] \in Nat
        BY DEF Prios, NoPrio
    <2>3. \A m \in Mutexes : ceil[m] \in Nat
        <3>1. Ceilings \subseteq Nat
            BY MutexAssumption
        <3>2. \A m \in Mutexes : ceil[m] \in Ceilings \cup {NoPrio}
            OBVIOUS
        <3>3. NoPrio \in Nat
            BY DEF NoPrio
        <3> QED
            BY <3>1, <3>2, <3>3, Zenon
    <2> QED
        BY <2>1, <2>2, <2>3 DEF Prios
<1>2. MutexPriority(t, mine, mp, ceil) = Min(I)
    BY DEF MutexPriority
<1> HIDE DEF I
<1>3. Min(I) \in Nat /\ Min(I) <= InitPrio[t]
    BY <1>1, MinOfNaturals
<1> QED
    BY <1>1, <1>2, <1>3 DEF Prios

LEMMA FirstPrioType ==
    ASSUME NEW s \in Seq(Threads), NEW c \in [Threads -> Prios]
    PROVE  FirstPrio(s, c) \in Prios \cup {NoPrio}
<1>1. s # <<>> => Head(s) \in Threads
    OBVIOUS
<1> QED
    BY <1>1 DEF FirstPrio

-----------------------------------------------------------------------------
(* Order *)

\* Under the priorities c the list s is in order, or is but for the place of t.
Sorted(s, c) == \A i, j \in 1..Len(s) : i < j => c[s[i]] <= c[s[j]]
SortedBut(s, t, c) ==
    \A i, j \in 1..Len(s) : i < j /\ s[i] # t /\ s[j] # t => c[s[i]] <= c[s[j]]

LEMMA SortedWithout ==
    ASSUME NEW S, NEW s \in Seq(S), NEW t, NEW c
    PROVE  /\ Sorted(s, c) => SortedBut(s, t, c)
           /\ SortedBut(s, t, c) /\ ~On(s, t) => Sorted(s, c)
BY DEF Sorted, SortedBut, On

\* Another priority of t does not matter to the order of the others.
LEMMA SortedElsewhere ==
    ASSUME NEW s \in Seq(Threads), NEW t \in Threads, NEW c \in [Threads -> Prios],
           NEW d \in [Threads -> Prios], \A x \in Threads \ {t} : d[x] = c[x],
           SortedBut(s, t, c)
    PROVE  SortedBut(s, t, d)
<1> SUFFICES ASSUME NEW i \in 1..Len(s), NEW j \in 1..Len(s), i < j, s[i] # t, s[j] # t
             PROVE  d[s[i]] <= d[s[j]]
    BY DEF SortedBut
<1>1. s[i] \in Threads \ {t} /\ s[j] \in Threads \ {t}
    OBVIOUS
<1>2. c[s[i]] <= c[s[j]]
    BY DEF SortedBut
<1> QED
    BY <1>1, <1>2

LEMMA EnqueueSorted ==
    ASSUME NEW s \in Seq(Threads), NEW t \in Threads, NEW c \in [Threads -> Prios],
           Sorted(s, c)
    PROVE  Sorted(Enqueue(s, t, c), c)
<1> DEFINE r == Enqueue(s, t, c)
<1>1. PICK k \in 1..Len(s) + 1 :
          /\ IsInserted(Threads, r, s, t, k)
          /\ \A j \in 1..k - 1 : ~(c[t] < c[s[j]])
          /\ k <= Len(s) => c[t] < c[s[k]]
    BY EnqueuePlace
<1> HIDE DEF r
<1> DEFINE Old(j) == IF j < k THEN j ELSE j - 1
<1>0. Len(s) \in Nat /\ Len(r) = Len(s) + 1 /\ r[k] = t /\ c[t] \in Prios
    BY <1>1 DEF IsInserted
<1>2. ASSUME NEW j \in 1..Len(r), j # k
      PROVE  Old(j) \in 1..Len(s) /\ r[j] = s[Old(j)]
    <2>1. CASE j < k
        BY <1>0, <1>1, <1>2, <2>1 DEF IsInserted
    <2>2. CASE j > k
        <3>1. j - 1 \in k..Len(s) /\ (j - 1) + 1 = j
            BY <1>0, <2>2
        <3> QED
            BY <1>0, <1>1, <2>2, <3>1 DEF IsInserted
    <2> QED
        BY <1>0, <1>2, <2>1, <2>2
<1>3. c[t] \in Prios /\ \A j \in 1..Len(s) : c[s[j]] \in Prios
    OBVIOUS
<1> SUFFICES ASSUME NEW i \in 1..Len(r), NEW j \in 1..Len(r), i < j
             PROVE  c[r[i]] <= c[r[j]]
    BY DEF Sorted, r
<1>4. CASE i # k /\ j # k
    <2>1. /\ Old(i) \in 1..Len(s) /\ r[i] = s[Old(i)]
          /\ Old(j) \in 1..Len(s) /\ r[j] = s[Old(j)] /\ Old(i) < Old(j)
        BY <1>0, <1>2, <1>4
    <2> HIDE DEF Old
    <2> QED
        BY <2>1 DEF Sorted
<1>5. CASE i = k
    <2>1. j - 1 \in 1..Len(s) /\ r[j] = s[j - 1] /\ k \in 1..Len(s) /\ k <= j - 1
        BY <1>0, <1>2, <1>5
    <2>2. c[t] < c[s[k]]
        BY <1>1, <2>1
    <2>3. c[s[k]] <= c[s[j - 1]]
        <3>1. CASE k = j - 1
            BY <1>3, <2>1, <3>1, PrioOrder, Zenon
        <3>2. CASE k # j - 1
            <4>1. k < j - 1
                BY <2>1, <3>2
            <4> QED
                BY <2>1, <4>1 DEF Sorted
        <3> QED
            BY <3>1, <3>2
    <2>4. c[t] \in Prios /\ c[s[k]] \in Prios /\ c[s[j - 1]] \in Prios
        BY <1>3, <2>1
    <2>5. c[t] <= c[s[j - 1]]
        BY <2>2, <2>3, <2>4, PrioOrder, Zenon
    <2> QED
        BY <1>0, <1>5, <2>1, <2>5
<1>6. CASE j = k
    <2>1. i \in 1..Len(s) /\ r[i] = s[i] /\ i \in 1..k - 1
        BY <1>0, <1>2, <1>6
    <2>2. ~(c[t] < c[s[i]])
        BY <1>1, <2>1
    <2>3. c[t] \in Prios /\ c[s[i]] \in Prios
        BY <1>3, <2>1
    <2>4. c[s[i]] <= c[t]
        BY <2>2, <2>3, PrioOrder, Zenon
    <2> QED
        BY <1>0, <1>6, <2>1, <2>4
<1> QED
    BY <1>4, <1>5, <1>6

LEMMA RemoveSorted ==
    ASSUME NEW s \in Seq(Threads), NEW t, NEW c, Distinct(s), SortedBut(s, t, c)
    PROVE  Sorted(RemoveFirst(s, t), c)
<1> DEFINE r == RemoveFirst(s, t)
<1>1. CASE ~On(s, t)
    BY <1>1, RemoveNothing, SortedWithout
<1>2. CASE On(s, t)
    <2>1. PICK k \in 1..Len(s) : s[k] = t /\ IsRemoved(Threads, r, s, k)
        BY <1>2, RemovePlace
    <2> HIDE DEF r
    <2> DEFINE Old(j) == IF j < k THEN j ELSE j + 1
    <2>2. Len(s) \in Nat /\ Len(r) = Len(s) - 1
        BY <2>1 DEF IsRemoved
    <2>3. ASSUME NEW j \in 1..Len(r)
          PROVE  Old(j) \in 1..Len(s) /\ r[j] = s[Old(j)] /\ s[Old(j)] # t
        <3>1. Old(j) \in 1..Len(s) /\ Old(j) # k /\ r[j] = s[Old(j)]
            BY <2>1, <2>2 DEF IsRemoved
        <3> HIDE DEF Old
        <3> QED
            BY <2>1, <3>1 DEF Distinct
    <2> SUFFICES ASSUME NEW i \in 1..Len(r), NEW j \in 1..Len(r), i < j
                 PROVE  c[r[i]] <= c[r[j]]
        BY DEF Sorted, r
    <2>4. Old(i) < Old(j)
        BY <2>1, <2>2
    <2>5. /\ Old(i) \in 1..Len(s) /\ r[i] = s[Old(i)] /\ s[Old(i)] # t
          /\ Old(j) \in 1..Len(s) /\ r[j] = s[Old(j)] /\ s[Old(j)] # t
        BY <2>3
    <2> HIDE DEF Old
    <2> QED
        BY <2>4, <2>5 DEF SortedBut
<1> QED
    BY <1>1, <1>2

LEMMA TailSorted ==
    ASSUME NEW s \in Seq(Threads), NEW c, s # <<>>, Sorted(s, c)
    PROVE  Sorted(Tail(s), c) /\ \A x : On(s, x) /\ x # Head(s) => c[Head(s)] <= c[x]
<1> DEFINE r == Tail(s)
<1>1. /\ Len(s) \in Nat \ {0} /\ Len(r) = Len(s) - 1 /\ Head(s) = s[1]
      /\ \A j \in 1..Len(s) - 1 : r[j] = s[j + 1]
    OBVIOUS
<1> HIDE DEF r
<1>2. Sorted(r, c)
    <2> SUFFICES ASSUME NEW i \in 1..Len(r), NEW j \in 1..Len(r), i < j
                 PROVE  c[r[i]] <= c[r[j]]
        BY DEF Sorted
    <2>1. /\ i + 1 \in 1..Len(s) /\ r[i] = s[i + 1]
          /\ j + 1 \in 1..Len(s) /\ r[j] = s[j + 1] /\ i + 1 < j + 1
        BY <1>1
    <2> QED
        BY <2>1 DEF Sorted
<1>3. ASSUME NEW x, On(s, x), x # Head(s)
      PROVE  c[Head(s)] <= c[x]
    <2>1. PICK i \in 1..Len(s) : s[i] = x
        BY <1>3 DEF On
    <2>2. 1 \in 1..Len(s) /\ 1 < i
        BY <1>1, <1>3, <2>1
    <2> QED
        BY <1>1, <2>1, <2>2 DEF Sorted
<1> QED
    BY <1>2, <1>3 DEF r

\* The first of a list in order is a most urgent one.
LEMMA FirstIsLeast ==
    ASSUME NEW s \in Seq(Threads), NEW c \in [Threads -> Prios], Sorted(s, c), NEW x, On(s, x)
    PROVE  FirstPrio(s, c) <= c[x]
<1>1. PICK i \in 1..Len(s) : s[i] = x
    BY DEF On
<1>2. s # <<>> /\ Head(s) = s[1] /\ 1 \in 1..Len(s) /\ s[1] \in Threads /\ x \in Threads
    BY <1>1
<1>3. FirstPrio(s, c) = c[s[1]]
    BY <1>2 DEF FirstPrio
<1>4. CASE i = 1
    <2>1. c[x] \in Prios /\ FirstPrio(s, c) = c[x]
        BY <1>1, <1>2, <1>3, <1>4
    <2> QED
        BY <2>1, PrioOrder, Zenon
<1>5. CASE i # 1
    <2>1. 1 < i
        BY <1>5
    <2> QED
        BY <1>1, <1>2, <1>3, <2>1 DEF Sorted
<1> QED
    BY <1>4, <1>5

\* Whatever the order was, a thread that is put in its place is behind nobody
\* who is less urgent, and it is the first only if it is more urgent than the
\* one that was.
LEMMA EnqueueFirst ==
    ASSUME NEW s \in Seq(Threads), NEW t \in Threads, NEW c \in [Threads -> Prios]
    PROVE  FirstPrio(Enqueue(s, t, c), c) =
               IF c[t] < FirstPrio(s, c) THEN c[t] ELSE FirstPrio(s, c)
<1> DEFINE r == Enqueue(s, t, c)
<1>1. PICK k \in 1..Len(s) + 1 :
          /\ IsInserted(Threads, r, s, t, k)
          /\ \A j \in 1..k - 1 : ~(c[t] < c[s[j]])
          /\ k <= Len(s) => c[t] < c[s[k]]
    BY EnqueuePlace
<1> HIDE DEF r
<1>2. r \in Seq(Threads) /\ Len(s) \in Nat /\ Len(r) = Len(s) + 1 /\ c[t] \in Prios
    BY <1>1 DEF IsInserted
<1>3. FirstPrio(r, c) = c[r[1]]
    <2>1. r # <<>> /\ Head(r) = r[1]
        BY <1>2
    <2> QED
        BY <2>1 DEF FirstPrio
<1>4. CASE s = <<>>
    <2>1. k = 1 /\ r[1] = t
        BY <1>1, <1>4 DEF IsInserted
    <2>2. FirstPrio(s, c) = NoPrio /\ c[t] \in Prios
        BY <1>4 DEF FirstPrio
    <2>3. c[t] < FirstPrio(s, c) /\ FirstPrio(r, c) = c[t]
        BY <1>3, <2>1, <2>2, PrioOrder, Zenon
    <2> QED
        BY <2>3 DEF r
<1>5. CASE s # <<>>
    <2>1. FirstPrio(s, c) = c[s[1]] /\ 1 \in 1..Len(s) /\ s[1] \in Threads
        BY <1>5 DEF FirstPrio
    <2>2. CASE k = 1
        <3>1. c[t] < c[s[1]] /\ r[1] = t
            BY <1>1, <2>1, <2>2 DEF IsInserted
        <3> QED
            BY <1>3, <2>1, <3>1 DEF r
    <2>3. CASE k # 1
        <3>1. 1 \in 1..k - 1
            BY <2>3, <1>2
        <3>2. ~(c[t] < c[s[1]]) /\ r[1] = s[1]
            BY <1>1, <3>1 DEF IsInserted
        <3> QED
            BY <1>3, <2>1, <3>2 DEF r
    <2> QED
        BY <2>2, <2>3
<1> QED
    BY <1>4, <1>5

-----------------------------------------------------------------------------
(* The chain of owners *)

\* Under the states st and pending objects pe of the threads, the lists s hold
\* exactly the threads that wait, each once.
ListsRight(s, st, pe) ==
    /\ s \in [Mutexes -> Seq(Threads)]
    /\ \A m \in Mutexes :
        /\ Distinct(s[m])
        /\ \A x \in Threads : On(s[m], x) <=> st[x] = "suspended" /\ pe[x] = m

\* What a round of the chain starts from and leaves behind.
ChainRight(c) ==
    /\ c \in [curr : [Threads -> Prios], susp : [Mutexes -> Seq(Threads)],
              mprio : [Mutexes -> Prios \cup {NoPrio}], t : Threads, go : BOOLEAN]
    /\ ListsRight(c.susp, stat', pending')

\* What the step has written before the chain begins.
ChainPre ==
    /\ pending' \in [Threads -> Mutexes \cup {None}]
    /\ taken' \in [Threads -> SUBSET Mutexes]
    /\ ceiling' \in [Mutexes -> Ceilings \cup {NoPrio}]
    /\ \A x \in Threads : stat'[x] = "suspended" /\ pending'[x] # None =>
           /\ owner'[pending'[x]] \in Threads /\ owner'[pending'[x]] # x
           /\ pending'[x] \in taken'[owner'[pending'[x]]]

\* Taking a waiting thread out and putting it back leaves the lists right.
LEMMA ResortRight ==
    ASSUME NEW s, NEW st, NEW pe, ListsRight(s, st, pe), NEW t \in Threads, NEW c,
           st[t] = "suspended", pe[t] \in Mutexes
    PROVE  ListsRight([s EXCEPT ![pe[t]] = Enqueue(RemoveFirst(@, t), t, c)], st, pe)
<1> DEFINE m == pe[t]
           r == RemoveFirst(s[m], t)
           e == Enqueue(r, t, c)
           z == [s EXCEPT ![m] = e]
<1>1. m \in Mutexes /\ s \in [Mutexes -> Seq(Threads)] /\ s[m] \in Seq(Threads) /\ Distinct(s[m])
      /\ On(s[m], t)
    BY DEF ListsRight
<1>2. r \in Seq(Threads) /\ Distinct(r) /\ \A x : On(r, x) <=> On(s[m], x) /\ x # t
    <2> HIDE DEF m
    <2> QED
        BY <1>1, RemoveFacts
<1> HIDE DEF r
<1>3. e \in Seq(Threads) /\ Distinct(e) /\ \A x : On(e, x) <=> On(r, x) \/ x = t
    BY <1>2, EnqueueFacts
<1>4. \A x : On(e, x) <=> On(s[m], x)
    BY <1>1, <1>2, <1>3
<1> HIDE DEF e
<1>5. z \in [Mutexes -> Seq(Threads)]
    BY <1>1, <1>3
<1>6. ASSUME NEW n \in Mutexes
      PROVE  Distinct(z[n]) /\ \A x \in Threads : On(z[n], x) <=> st[x] = "suspended" /\ pe[x] = n
    <2>1. CASE n = m
        <3>1. z[n] = e
            BY <1>1, <2>1
        <3> QED
            BY <1>1, <1>3, <1>4, <2>1, <3>1 DEF ListsRight
    <2>2. CASE n # m
        <3>1. z[n] = s[n]
            BY <1>1, <2>2
        <3> QED
            BY <3>1 DEF ListsRight
    <2> QED
        BY <2>1, <2>2
<1>7. ListsRight(z, st, pe)
    <2> HIDE DEF z, m
    <2> QED
        BY <1>5, <1>6 DEF ListsRight
<1> QED
    BY <1>7 DEF e, r

LEMMA ChainStepRight ==
    ASSUME ChainPre, NEW c, ChainRight(c)
    PROVE  ChainRight(ChainStep(c))
<1>0. /\ c.curr \in [Threads -> Prios] /\ c.susp \in [Mutexes -> Seq(Threads)]
      /\ c.mprio \in [Mutexes -> Prios \cup {NoPrio}] /\ c.t \in Threads
      /\ ListsRight(c.susp, stat', pending')
    BY DEF ChainRight
<1>1. CASE ~c.go \/ stat'[c.t] # "suspended" \/ pending'[c.t] = None
    <2>1. ChainStep(c) = [c EXCEPT !.go = FALSE]
        BY <1>1 DEF ChainStep
    <2> QED
        BY <2>1 DEF ChainRight
<1>2. CASE ~(~c.go \/ stat'[c.t] # "suspended" \/ pending'[c.t] = None)
    <2> DEFINE m    == pending'[c.t]
               list == Enqueue(RemoveFirst(c.susp[m], c.t), c.t, c.curr)
               mp   == [c.mprio EXCEPT ![m] = FirstPrio(list, c.curr)]
               o    == owner'[m]
               p    == MutexPriority(o, taken'[o], mp, ceiling')
               more == p # c.curr[o]
               s    == [c.susp EXCEPT ![m] = list]
               cu   == IF more THEN [c.curr EXCEPT ![o] = p] ELSE c.curr
    <2>1. ChainStep(c) = [curr |-> cu, susp |-> s, mprio |-> mp, t |-> o, go |-> more]
        BY <1>2 DEF ChainStep
    <2>2. m \in Mutexes /\ o \in Threads /\ stat'[c.t] = "suspended"
        BY <1>0, <1>2 DEF ChainPre
    <2>3. ListsRight(s, stat', pending')
        <3>1. s = [c.susp EXCEPT ![pending'[c.t]] = Enqueue(RemoveFirst(@, c.t), c.t, c.curr)]
            BY <1>0, <2>2
        <3> HIDE DEF s
        <3> QED
            BY <1>0, <2>2, <3>1, ResortRight
    <2>4. list \in Seq(Threads) /\ s \in [Mutexes -> Seq(Threads)]
        <3>1. s \in [Mutexes -> Seq(Threads)]
            BY <2>3 DEF ListsRight
        <3>2. s[m] = list
            <4> HIDE DEF list
            <4> QED
                BY <1>0, <2>2
        <3> QED
            BY <2>2, <3>1, <3>2
    <2> HIDE DEF list, m, s
    <2>5. mp \in [Mutexes -> Prios \cup {NoPrio}]
        BY <1>0, <2>2, <2>4, FirstPrioType
    <2>6. p \in Prios
        <3> HIDE DEF mp, o
        <3>1. taken'[o] \in SUBSET Mutexes /\ ceiling' \in [Mutexes -> Ceilings \cup {NoPrio}]
            BY <2>2 DEF ChainPre
        <3> QED
            BY <2>2, <2>5, <3>1, MutexPriorityType
    <2> HIDE DEF mp, o, p
    <2>7. cu \in [Threads -> Prios]
        BY <1>0, <2>2, <2>6
    <2>8. more \in BOOLEAN
        OBVIOUS
    <2> HIDE DEF cu, more
    <2> QED
        BY <2>1, <2>2, <2>3, <2>4, <2>5, <2>7, <2>8 DEF ChainRight
<1> QED
    BY <1>1, <1>2

\* A round of the loop that did something took c to d: the thread whose
\* priority had changed is in its new place in the list of m, which it waits
\* for, and the owner o of m has priority p.
IsRound(c, d, m, o, p) ==
    /\ c.go /\ stat'[c.t] = "suspended" /\ pending'[c.t] = m /\ m \in Mutexes
    /\ owner'[m] = o /\ o \in Threads
    /\ d.susp[m] = Enqueue(RemoveFirst(c.susp[m], c.t), c.t, c.curr)
    /\ d.mprio[m] = FirstPrio(d.susp[m], c.curr)
    /\ p = MutexPriority(o, taken'[o], d.mprio, ceiling') /\ p \in Prios
    /\ d.curr[o] = p /\ d.t = o
    /\ d.go <=> p # c.curr[o]
    /\ \A x \in Threads \ {o} : d.curr[x] = c.curr[x]
    /\ \A n \in Mutexes \ {m} : d.susp[n] = c.susp[n] /\ d.mprio[n] = c.mprio[n]

\* Either the loop is over, or there is such a round.
LEMMA ARound ==
    ASSUME ChainPre, NEW c, ChainRight(c)
    PROVE  \/ /\ ~c.go \/ stat'[c.t] # "suspended" \/ pending'[c.t] = None
              /\ ChainStep(c) = [c EXCEPT !.go = FALSE]
           \/ \E m, o, p : IsRound(c, ChainStep(c), m, o, p)
<1>0. /\ c.curr \in [Threads -> Prios] /\ c.susp \in [Mutexes -> Seq(Threads)]
      /\ c.mprio \in [Mutexes -> Prios \cup {NoPrio}] /\ c.t \in Threads
    BY DEF ChainRight
<1>1. CASE ~c.go \/ stat'[c.t] # "suspended" \/ pending'[c.t] = None
    BY <1>1 DEF ChainStep
<1>2. CASE ~(~c.go \/ stat'[c.t] # "suspended" \/ pending'[c.t] = None)
    <2> DEFINE m    == pending'[c.t]
               list == Enqueue(RemoveFirst(c.susp[m], c.t), c.t, c.curr)
               mp   == [c.mprio EXCEPT ![m] = FirstPrio(list, c.curr)]
               o    == owner'[m]
               p    == MutexPriority(o, taken'[o], mp, ceiling')
               more == p # c.curr[o]
               s    == [c.susp EXCEPT ![m] = list]
               cu   == IF more THEN [c.curr EXCEPT ![o] = p] ELSE c.curr
               d    == ChainStep(c)
    <2>1. ChainStep(c) = [curr |-> cu, susp |-> s, mprio |-> mp, t |-> o, go |-> more]
        BY <1>2 DEF ChainStep
    <2>2. m \in Mutexes /\ o \in Threads /\ stat'[c.t] = "suspended" /\ c.go
        BY <1>0, <1>2 DEF ChainPre
    <2>3. d.curr = cu /\ d.susp = s /\ d.mprio = mp /\ d.t = o /\ d.go = more
        <3> HIDE DEF cu, s, mp, o, more
        <3> QED
            BY <2>1
    <2>4. ChainRight(d)
        BY ChainStepRight
    <2> HIDE DEF d, p, list
    <2>5. s[m] = list /\ \A n \in Mutexes \ {m} : s[n] = c.susp[n]
        <3> HIDE DEF m
        <3> QED
            BY <1>0, <2>2
    <2>6. mp[m] = FirstPrio(list, c.curr) /\ \A n \in Mutexes \ {m} : mp[n] = c.mprio[n]
        <3> HIDE DEF m
        <3> QED
            BY <1>0, <2>2
    <2>7. cu[o] = p /\ \A x \in Threads \ {o} : cu[x] = c.curr[x]
        <3> HIDE DEF o
        <3> QED
            BY <1>0, <2>2
    <2>8. p \in Prios
        <3>1. d.curr \in [Threads -> Prios]
            BY <2>4 DEF ChainRight
        <3>2. d.curr[o] = p
            BY <2>3, <2>7, Zenon
        <3> QED
            BY <2>2, <3>1, <3>2
    <2>9. p = MutexPriority(o, taken'[o], d.mprio, ceiling') /\ (d.go <=> p # c.curr[o])
        BY <2>3 DEF p
    <2> HIDE DEF m, o, s, mp, cu, more
    <2>10. pending'[c.t] = m /\ owner'[m] = o
        BY DEF m, o
    <2>11. /\ d.susp[m] = list /\ d.mprio[m] = FirstPrio(d.susp[m], c.curr)
           /\ d.curr[o] = p /\ d.t = o
        BY <2>3, <2>5, <2>6, <2>7, Zenon
    <2>12. /\ \A x \in Threads \ {o} : d.curr[x] = c.curr[x]
           /\ \A n \in Mutexes \ {m} : d.susp[n] = c.susp[n] /\ d.mprio[n] = c.mprio[n]
        BY <2>3, <2>5, <2>6, <2>7, Zenon
    <2>13. IsRound(c, d, m, o, p)
        BY <2>2, <2>8, <2>9, <2>10, <2>11, <2>12, Zenon DEF IsRound, list
    <2> QED
        BY <2>13, Zenon DEF d
<1> QED
    BY <1>1, <1>2

LEMMA MutexPriorityLeast ==
    ASSUME NEW t \in Threads, NEW mine \in SUBSET Mutexes,
           NEW mp \in [Mutexes -> Prios \cup {NoPrio}],
           NEW ceil \in [Mutexes -> Ceilings \cup {NoPrio}]
    PROVE  \A m \in mine : MutexPriority(t, mine, mp, ceil) <= mp[m]
<1> DEFINE I == {InitPrio[t]} \cup {mp[m] : m \in mine} \cup {ceil[m] : m \in mine}
<1>1. I \in SUBSET Nat /\ I # {}
    BY PriosAreNaturals
<1>2. MutexPriority(t, mine, mp, ceil) = Min(I)
    BY DEF MutexPriority
<1>3. \A m \in mine : mp[m] \in I
    OBVIOUS
<1> HIDE DEF I
<1>4. \A y \in I : Min(I) <= y
    BY <1>1, MinOfNaturals
<1> QED
    BY <1>2, <1>3, <1>4, Zenon

\* A round puts the waiting thread behind nobody less urgent, so what it lends
\* the owner is at least as urgent as its own priority.
LEMMA RoundLends ==
    ASSUME ChainPre, NEW c, ChainRight(c), NEW d, ChainRight(d),
           NEW m, NEW o, NEW p, IsRound(c, d, m, o, p)
    PROVE  p <= c.curr[c.t]
<1>0. /\ c.curr \in [Threads -> Prios] /\ c.t \in Threads /\ c.susp[m] \in Seq(Threads)
      /\ d.mprio \in [Mutexes -> Prios \cup {NoPrio}] /\ Distinct(c.susp[m])
    BY DEF ChainRight, ListsRight, IsRound
<1>1. /\ m \in Mutexes /\ o \in Threads /\ m \in taken'[o] /\ taken'[o] \in SUBSET Mutexes
      /\ ceiling' \in [Mutexes -> Ceilings \cup {NoPrio}]
    BY <1>0, MutexAssumption DEF IsRound, ChainPre
<1>2. p <= d.mprio[m]
    <2>1. p = MutexPriority(o, taken'[o], d.mprio, ceiling')
        BY DEF IsRound
    <2> QED
        BY <1>0, <1>1, <2>1, MutexPriorityLeast
<1> DEFINE r == RemoveFirst(c.susp[m], c.t)
<1>3. r \in Seq(Threads)
    BY <1>0, RemoveFacts
<1>4. d.mprio[m] = FirstPrio(Enqueue(r, c.t, c.curr), c.curr)
    BY DEF IsRound
<1> HIDE DEF r
<1>5. d.mprio[m] = IF c.curr[c.t] < FirstPrio(r, c.curr) THEN c.curr[c.t] ELSE FirstPrio(r, c.curr)
    BY <1>0, <1>3, <1>4, EnqueueFirst
<1>6. p \in Nat /\ c.curr[c.t] \in Nat /\ FirstPrio(r, c.curr) \in Nat
    <2>1. p \in Prios /\ c.curr[c.t] \in Prios /\ FirstPrio(r, c.curr) \in Prios \cup {NoPrio}
        BY <1>0, <1>3, FirstPrioType DEF IsRound
    <2> QED
        BY <2>1, PriosAreNaturals
<1> QED
    BY <1>2, <1>5, <1>6

\* The rounds that are left: pairs that a round that goes on makes fewer.  The
\* priority that goes along the chain gets more urgent or it stays the same,
\* and then one thread more has it.
RoundsLeft(c) ==
    {e \in (Threads \cup {None}) \X Prios :
        \/ e[2] < c.curr[c.t]
        \/ e[2] = c.curr[c.t] /\ e[1] \in Threads /\ c.curr[e[1]] # e[2]}

LEMMA RoundProgress ==
    ASSUME ChainPre, NEW c, ChainRight(c), NEW d, ChainRight(d), d.go,
           NEW m, NEW o, NEW p, IsRound(c, d, m, o, p)
    PROVE  RoundsLeft(d) \subseteq RoundsLeft(c) /\ RoundsLeft(d) # RoundsLeft(c)
<1> DEFINE x == c.curr[c.t]
<1>0. /\ c.curr \in [Threads -> Prios] /\ c.t \in Threads /\ x \in Prios /\ p \in Prios
      /\ p <= x /\ d.curr[d.t] = p /\ o \in Threads /\ c.curr[o] # p
      /\ \A y \in Threads \ {o} : d.curr[y] = c.curr[y]
      /\ d.curr[o] = p
    <2>1. c.curr \in [Threads -> Prios] /\ c.t \in Threads /\ c.curr[c.t] \in Prios
        BY DEF ChainRight
    <2>2. p <= c.curr[c.t]
        BY RoundLends
    <2> QED
        BY <2>1, <2>2 DEF IsRound
<1>1. RoundsLeft(c) = {e \in (Threads \cup {None}) \X Prios :
                           e[2] < x \/ (e[2] = x /\ e[1] \in Threads /\ c.curr[e[1]] # e[2])}
    BY DEF RoundsLeft
<1>2. RoundsLeft(d) = {e \in (Threads \cup {None}) \X Prios :
                           e[2] < p \/ (e[2] = p /\ e[1] \in Threads /\ d.curr[e[1]] # e[2])}
    BY <1>0 DEF RoundsLeft
<1> HIDE DEF x
<1>3. CASE p < x
    <2>1. ASSUME NEW v \in Prios, v < p \/ v = p
          PROVE  v < x
        BY <1>0, <1>3, <2>1 DEF Prios
    <2>2. RoundsLeft(d) \subseteq RoundsLeft(c)
        BY <1>1, <1>2, <2>1
    <2>3. <<None, p>> \in RoundsLeft(c)
        BY <1>0, <1>1, <1>3
    <2>4. <<None, p>> \notin RoundsLeft(d)
        <3>1. ~(p < p)
            BY <1>0 DEF Prios
        <3> QED
            BY <1>2, <3>1, MutexAssumption
    <2> QED
        BY <2>2, <2>3, <2>4
<1>4. CASE p = x
    <2>1. RoundsLeft(d) \subseteq RoundsLeft(c)
        BY <1>0, <1>1, <1>2, <1>4
    <2>2. <<o, p>> \in RoundsLeft(c)
        BY <1>0, <1>1, <1>4
    <2>3. <<o, p>> \notin RoundsLeft(d)
        <3>1. ~(p < p)
            BY <1>0 DEF Prios
        <3> QED
            BY <1>0, <1>2, <3>1
    <2> QED
        BY <2>1, <2>2, <2>3
<1>5. p < x \/ p = x
    BY <1>0 DEF Prios
<1> QED
    BY <1>3, <1>4, <1>5

LEMMA RoundsLeftFew ==
    ASSUME NEW c, ChainRight(c)
    PROVE  /\ IsFiniteSet(RoundsLeft(c)) /\ Cardinality(RoundsLeft(c)) \in Nat
           /\ Cardinality(RoundsLeft(c)) < Rounds
<1> DEFINE All == (Threads \cup {None}) \X Prios
<1>1. IsFiniteSet(Prios) /\ Cardinality(Prios) = 32
    <2>1. 0 \in Int /\ 31 \in Int
        OBVIOUS
    <2>2. IsFiniteSet(0..31) /\ Cardinality(0..31) = IF 0 > 31 THEN 0 ELSE 31 - 0 + 1
        BY <2>1, FS_Interval, Zenon
    <2>3. Prios = 0..31
        BY DEF Prios
    <2> QED
        BY <2>2, <2>3
<1>2. /\ IsFiniteSet(Threads \cup {None})
      /\ Cardinality(Threads \cup {None}) = Cardinality(Threads) + 1
      /\ Cardinality(Threads) \in Nat
    <2>1. IsFiniteSet(Threads) /\ None \notin Threads
        BY MutexAssumption
    <2> QED
        BY <2>1, FS_AddElement, FS_CardinalityType
<1>3. IsFiniteSet(All) /\ Cardinality(All) = Rounds
    <2>1. IsFiniteSet(All) /\ Cardinality(All) = Cardinality(Threads \cup {None}) * Cardinality(Prios)
        BY <1>1, <1>2, FS_Product
    <2> QED
        BY <1>1, <1>2, <2>1 DEF Rounds
<1>4. RoundsLeft(c) \subseteq All
    BY DEF RoundsLeft
<1>5. RoundsLeft(c) # All
    <2>1. c.curr[c.t] \in Prios
        BY DEF ChainRight
    <2>2. <<None, c.curr[c.t]>> \in All
        BY <2>1
    <2>3. ~(c.curr[c.t] < c.curr[c.t])
        BY <2>1 DEF Prios
    <2>4. <<None, c.curr[c.t]>> \notin RoundsLeft(c)
        BY <2>3, MutexAssumption DEF RoundsLeft
    <2> QED
        BY <2>2, <2>4
<1> HIDE DEF All
<1> QED
    BY <1>3, <1>4, <1>5, FS_Subset, FS_CardinalityType

LEMMA RoundsType == Rounds \in Nat
<1>1. Cardinality(Threads) \in Nat
    BY MutexAssumption, FS_CardinalityType
<1> QED
    BY <1>1 DEF Rounds

\* The rounds of the chain from start, as far as the m-th.
IsChain(F, start, m) ==
    /\ F = [i \in 0..m |-> F[i]] /\ F[0] = start
    /\ \A i \in 1..m : F[i] = ChainStep(F[i - 1])

LEMMA ChainExists ==
    ASSUME NEW start
    PROVE  \E F : IsChain(F, start, Rounds)
<1> DEFINE Bad == {m \in Nat : ~\E F : IsChain(F, start, m)}
<1>1. Bad = {}
    <2> SUFFICES ASSUME Bad # {} PROVE FALSE
        OBVIOUS
    <2>1. PICK m \in Bad : \A y \in Bad : m <= y
        <3>1. Bad \in SUBSET Nat
            OBVIOUS
        <3> HIDE DEF Bad
        <3> QED
            BY <3>1, LeastElement
    <2>2. m # 0
        <3>1. IsChain([i \in 0..0 |-> start], start, 0)
            BY DEF IsChain
        <3> QED
            BY <3>1
    <2>3. m \in Nat /\ m >= 1 /\ m - 1 \in Nat
        BY <2>1, <2>2
    <2>4. PICK F : IsChain(F, start, m - 1)
        <3>1. ~(m <= m - 1)
            BY <2>3
        <3>2. m - 1 \notin Bad
            BY <2>1, <3>1, Zenon
        <3> QED
            BY <2>3, <3>2, Zenon
    <2> DEFINE G == [i \in 0..m |-> IF i < m THEN F[i] ELSE ChainStep(F[m - 1])]
    <2>5. G = [i \in 0..m |-> G[i]]
        OBVIOUS
    <2>6. ASSUME NEW i \in 1..m
          PROVE  G[i] = ChainStep(G[i - 1])
        <3>1. G[i - 1] = F[i - 1]
            BY <2>3, <2>6
        <3>2. CASE i = m
            BY <3>1, <3>2, <2>3
        <3>3. CASE i # m
            <4>1. i \in 1..m - 1 /\ i \in 0..m /\ i < m
                BY <3>3, <2>3
            <4>2. F[i] = ChainStep(F[i - 1])
                BY <4>1, <2>4 DEF IsChain
            <4>3. G[i] = F[i]
                BY <4>1
            <4> QED
                BY <3>1, <4>2, <4>3, Zenon
        <3> QED
            BY <3>2, <3>3
    <2>7. G[0] = start
        BY <2>3, <2>4 DEF IsChain
    <2>8. IsChain(G, start, m)
        <3> HIDE DEF G
        <3> QED
            BY <2>5, <2>6, <2>7 DEF IsChain
    <2> QED
        BY <2>1, <2>8
<1> QED
    BY <1>1, RoundsType

\* All rounds of a chain start from right lists.
LEMMA ChainStaysRight ==
    ASSUME ChainPre, NEW F, NEW start, IsChain(F, start, Rounds), ChainRight(start)
    PROVE  \A i \in 0..Rounds : ChainRight(F[i])
<1> DEFINE Bad == {n \in Nat : n <= Rounds /\ ~ChainRight(F[n])}
<1>1. Bad = {}
    <2> SUFFICES ASSUME Bad # {} PROVE FALSE
        OBVIOUS
    <2>1. PICK m \in Bad : \A y \in Bad : m <= y
        <3>1. Bad \in SUBSET Nat
            OBVIOUS
        <3> HIDE DEF Bad
        <3> QED
            BY <3>1, LeastElement
    <2>2. m # 0
        BY <2>1 DEF IsChain
    <2>3. m - 1 \in Nat /\ m - 1 <= Rounds /\ ~(m <= m - 1) /\ m \in 1..Rounds
        BY <2>1, <2>2, RoundsType
    <2>4. ChainRight(F[m - 1])
        BY <2>1, <2>3
    <2>5. F[m] = ChainStep(F[m - 1])
        BY <2>3 DEF IsChain
    <2>6. ChainRight(F[m])
        BY <2>4, <2>5, ChainStepRight
    <2> QED
        BY <2>1, <2>6
<1> QED
    BY <1>1, RoundsType

\* The loop ends, whatever waits for whatever: each round that goes on leaves
\* fewer rounds.
LEMMA LoopEnds ==
    ASSUME ChainPre, NEW F, NEW start, IsChain(F, start, Rounds), ChainRight(start)
    PROVE  \E i \in 0..Rounds : ~F[i].go
<1> SUFFICES ASSUME \A i \in 0..Rounds : F[i].go PROVE FALSE
    OBVIOUS
<1> DEFINE Few(i) == Cardinality(RoundsLeft(F[i])) + i < Rounds
           Bad == {n \in Nat : n <= Rounds /\ ~Few(n)}
<1>0. \A i \in 0..Rounds : ChainRight(F[i])
    BY ChainStaysRight
<1>1. \A i \in 0..Rounds : Cardinality(RoundsLeft(F[i])) \in Nat
    BY <1>0, RoundsLeftFew
<1>2. Bad = {}
    <2> SUFFICES ASSUME Bad # {} PROVE FALSE
        OBVIOUS
    <2>1. PICK m \in Bad : \A y \in Bad : m <= y
        <3>1. Bad \in SUBSET Nat
            OBVIOUS
        <3> HIDE DEF Bad
        <3> QED
            BY <3>1, LeastElement
    <2>2. m # 0
        <3>1. Cardinality(RoundsLeft(F[0])) \in Nat /\ Cardinality(RoundsLeft(F[0])) < Rounds
            BY <1>0, RoundsType, RoundsLeftFew
        <3> QED
            BY <2>1, <3>1
    <2>3. m - 1 \in Nat /\ m - 1 <= Rounds /\ ~(m <= m - 1) /\ m \in 1..Rounds
          /\ m \in 0..Rounds /\ m - 1 \in 0..Rounds
        BY <2>1, <2>2, RoundsType
    <2>4. Few(m - 1)
        BY <2>1, <2>3
    <2> DEFINE c == F[m - 1]
               d == F[m]
    <2>5. d = ChainStep(c) /\ c.go /\ d.go /\ ChainRight(c) /\ ChainRight(d)
        BY <1>0, <2>3 DEF IsChain
    <2>6. /\ IsFiniteSet(RoundsLeft(c)) /\ Cardinality(RoundsLeft(c)) \in Nat
          /\ IsFiniteSet(RoundsLeft(d)) /\ Cardinality(RoundsLeft(d)) \in Nat
        BY <2>5, RoundsLeftFew
    <2> HIDE DEF c, d
    <2>7. \E n, o, p : IsRound(c, d, n, o, p)
        <3>1. d # [c EXCEPT !.go = FALSE]
            <4>1. ChainRight(c)
                BY <2>5
            <4>2. [c EXCEPT !.go = FALSE].go = FALSE
                BY <4>1 DEF ChainRight
            <4> QED
                BY <2>5, <4>2
        <3> QED
            BY <2>5, <3>1, ARound
    <2>8. RoundsLeft(d) \subseteq RoundsLeft(c) /\ RoundsLeft(d) # RoundsLeft(c)
        BY <2>5, <2>7, RoundProgress
    <2>9. Cardinality(RoundsLeft(d)) < Cardinality(RoundsLeft(c))
        BY <2>6, <2>8, FS_Subset
    <2>10. Few(m)
        <3>1. Cardinality(RoundsLeft(F[m])) < Cardinality(RoundsLeft(F[m - 1]))
            BY <2>9 DEF c, d
        <3>2. Cardinality(RoundsLeft(F[m])) \in Nat /\ Cardinality(RoundsLeft(F[m - 1])) \in Nat
            BY <1>1, <2>3
        <3> QED
            BY <2>3, <2>4, <3>1, <3>2, RoundsType
    <2> QED
        BY <2>1, <2>10
<1>3. Few(Rounds)
    BY <1>2, RoundsType
<1>4. Cardinality(RoundsLeft(F[Rounds])) \in Nat
    BY <1>1, RoundsType
<1> QED
    BY <1>3, <1>4, RoundsType

\* What _thread_update_priority starts from.
ChainStart(t, p, s, mp) ==
    [curr |-> [curr EXCEPT ![t] = p], susp |-> s, mprio |-> mp, t |-> t, go |-> TRUE]

\* It leaves what a round leaves after which the loop ends.
ChainResult(F, n) ==
    /\ n \in 0..Rounds /\ ~F[n].go
    /\ curr' = F[n].curr /\ susp' = F[n].susp /\ mprio' = F[n].mprio

LEMMA UpdatePriorityRuns ==
    ASSUME NEW t \in Threads, NEW p \in Prios, NEW s, NEW mp,
           curr \in [Threads -> Prios], mp \in [Mutexes -> Prios \cup {NoPrio}],
           ListsRight(s, stat', pending'), ChainPre, UpdatePriority(t, p, s, mp)
    PROVE  /\ ChainRight(ChainStart(t, p, s, mp))
           /\ \E F, n : IsChain(F, ChainStart(t, p, s, mp), Rounds) /\ ChainResult(F, n)
<1> DEFINE start == [curr |-> [curr EXCEPT ![t] = p], susp |-> s, mprio |-> mp,
                     t |-> t, go |-> TRUE]
           Rec(F) == [i \in 0..Rounds |-> IF i = 0 THEN start ELSE ChainStep(F[i - 1])]
           K == CHOOSE F : F = Rec(F)
           n == CHOOSE i \in 0..Rounds : ~K[i].go
<1>0. ChainRight(start)
    BY DEF ChainRight, ListsRight
<1>1. curr' = K[n].curr /\ susp' = K[n].susp /\ mprio' = K[n].mprio
    BY Zenon DEF UpdatePriority
<1>2. start = ChainStart(t, p, s, mp)
    BY DEF ChainStart
<1> HIDE DEF start
<1>3. K = Rec(K)
    <2>1. PICK F : IsChain(F, start, Rounds)
        BY ChainExists
    <2>2. ASSUME NEW i \in 0..Rounds
          PROVE  F[i] = Rec(F)[i]
        <3>1. CASE i = 0
            BY <2>1, <3>1 DEF IsChain
        <3>2. CASE i # 0
            <4>1. i \in 1..Rounds
                BY <2>2, <3>2, RoundsType
            <4> QED
                BY <2>1, <3>2, <4>1 DEF IsChain
        <3> QED
            BY <3>1, <3>2
    <2>3. F = Rec(F)
        BY <2>1, <2>2 DEF IsChain
    <2> QED
        BY <2>3, Zenon
<1> HIDE DEF K
<1>4. K = [i \in 0..Rounds |-> K[i]]
    <2>1. Rec(K) = [i \in 0..Rounds |-> Rec(K)[i]]
        OBVIOUS
    <2> HIDE DEF Rec
    <2> QED
        BY <1>3, <2>1
<1>5. K[0] = start /\ \A i \in 1..Rounds : K[i] = ChainStep(K[i - 1])
    <2>1. ASSUME NEW i \in 0..Rounds
          PROVE  Rec(K)[i] = IF i = 0 THEN start ELSE ChainStep(K[i - 1])
        OBVIOUS
    <2> HIDE DEF Rec
    <2>2. ASSUME NEW i \in 0..Rounds
          PROVE  K[i] = IF i = 0 THEN start ELSE ChainStep(K[i - 1])
        BY <1>3, <2>1, Zenon
    <2>3. 0 \in 0..Rounds /\ \A i \in 1..Rounds : i \in 0..Rounds /\ i # 0
        BY RoundsType
    <2> QED
        BY <2>2, <2>3
<1>6. IsChain(K, start, Rounds)
    BY <1>4, <1>5 DEF IsChain
<1>7. n \in 0..Rounds /\ ~K[n].go
    <2>1. \E i \in 0..Rounds : ~K[i].go
        BY <1>0, <1>6, LoopEnds
    <2> QED
        BY <2>1, Zenon
<1> HIDE DEF n
<1>8. ChainResult(K, n)
    BY <1>1, <1>7 DEF ChainResult
<1> QED
    BY <1>0, <1>2, <1>6, <1>8

\* _thread_update_priority: whatever the chain of owners, the lists stay right
\* and the priorities are priorities.
LEMMA UpdatePriorityRight ==
    ASSUME NEW t \in Threads, NEW p \in Prios, NEW s, NEW mp,
           curr \in [Threads -> Prios], mp \in [Mutexes -> Prios \cup {NoPrio}],
           ListsRight(s, stat', pending'), ChainPre, UpdatePriority(t, p, s, mp)
    PROVE  /\ curr' \in [Threads -> Prios] /\ mprio' \in [Mutexes -> Prios \cup {NoPrio}]
           /\ ListsRight(susp', stat', pending')
<1> DEFINE start == ChainStart(t, p, s, mp)
<1>1. ChainRight(start)
    BY UpdatePriorityRuns
<1>2. PICK F, n : IsChain(F, start, Rounds) /\ ChainResult(F, n)
    BY UpdatePriorityRuns
<1> HIDE DEF start
<1>3. ChainRight(F[n])
    BY <1>1, <1>2, ChainStaysRight DEF ChainResult
<1> QED
    BY <1>2, <1>3 DEF ChainRight, ChainResult

-----------------------------------------------------------------------------
(* Priority inheritance along the chain *)

\* Under the priorities cu every list is in order, and a mutex is not less
\* urgent than its waiters, but for the place of t.
Ordered(cu, su, mp, t) ==
    \A m \in Mutexes :
        /\ SortedBut(su[m], t, cu)
        /\ \A x \in Threads : On(su[m], x) /\ x # t => mp[m] <= cu[x]

\* An owner is not less urgent than its mutexes.
Lent(cu, mp, ta) == \A x \in Threads : \A m \in ta[x] : cu[x] <= mp[m]

\* During the chain only the thread whose priority was changed last can be out
\* of its place, and when the loop has ended nobody is.
ChainOrdered(c) ==
    /\ Ordered(c.curr, c.susp, c.mprio, IF c.go THEN c.t ELSE None)
    /\ Lent(c.curr, c.mprio, taken')

\* All mutexes are in use, after the step too.
AllOwned == \A m \in Mutexes : \A x \in Threads : m \in taken'[x] => owner'[m] = x

LEMMA RoundOrders ==
    ASSUME ChainPre, AllOwned, NEW c, ChainRight(c), ChainOrdered(c), NEW d, ChainRight(d),
           NEW m, NEW o, NEW p, IsRound(c, d, m, o, p)
    PROVE  ChainOrdered(d)
<1>0. /\ c.curr \in [Threads -> Prios] /\ d.curr \in [Threads -> Prios] /\ c.t \in Threads
      /\ c.susp \in [Mutexes -> Seq(Threads)] /\ d.susp \in [Mutexes -> Seq(Threads)]
      /\ d.mprio \in [Mutexes -> Prios \cup {NoPrio}]
      /\ ListsRight(c.susp, stat', pending') /\ ListsRight(d.susp, stat', pending')
    BY DEF ChainRight
<1>1. /\ m \in Mutexes /\ o \in Threads /\ pending'[c.t] = m /\ stat'[c.t] = "suspended"
      /\ owner'[m] = o /\ d.curr[o] = p /\ d.t = o
      /\ d.go <=> p # c.curr[o]
      /\ \A x \in Threads \ {o} : d.curr[x] = c.curr[x]
      /\ \A n \in Mutexes \ {m} : d.susp[n] = c.susp[n] /\ d.mprio[n] = c.mprio[n]
    BY DEF IsRound
<1>2. Ordered(c.curr, c.susp, c.mprio, c.t) /\ Lent(c.curr, c.mprio, taken')
    BY DEF ChainOrdered, IsRound
<1>3. \A n \in Mutexes \ {m} : ~On(c.susp[n], c.t)
    BY <1>0, <1>1 DEF ListsRight
<1>4. ~On(d.susp[m], o)
    BY <1>0, <1>1, MutexAssumption DEF ListsRight, ChainPre
<1>5. ASSUME NEW n \in Mutexes
      PROVE  /\ Sorted(d.susp[n], c.curr)
             /\ \A x \in Threads : On(d.susp[n], x) => d.mprio[n] <= c.curr[x]
    <2>1. CASE n = m
        <3> DEFINE r == RemoveFirst(c.susp[m], c.t)
        <3>1. c.susp[m] \in Seq(Threads) /\ Distinct(c.susp[m]) /\ SortedBut(c.susp[m], c.t, c.curr)
            BY <1>0, <1>1, <1>2 DEF ListsRight, Ordered
        <3>2. r \in Seq(Threads) /\ Sorted(r, c.curr)
            BY <3>1, RemoveFacts, RemoveSorted
        <3>3. d.susp[m] = Enqueue(r, c.t, c.curr) /\ d.mprio[m] = FirstPrio(d.susp[m], c.curr)
            BY DEF IsRound
        <3> HIDE DEF r
        <3>4. Sorted(d.susp[m], c.curr)
            BY <1>0, <3>2, <3>3, EnqueueSorted
        <3>5. d.susp[m] \in Seq(Threads)
            BY <1>0, <1>1
        <3>6. \A x : On(d.susp[m], x) => d.mprio[m] <= c.curr[x]
            BY <1>0, <3>3, <3>4, <3>5, FirstIsLeast
        <3> QED
            BY <2>1, <3>4, <3>6
    <2>2. CASE n # m
        <3>1. d.susp[n] = c.susp[n] /\ d.mprio[n] = c.mprio[n] /\ ~On(c.susp[n], c.t)
              /\ c.susp[n] \in Seq(Threads)
            BY <1>0, <1>1, <1>3, <2>2
        <3>2. SortedBut(c.susp[n], c.t, c.curr)
              /\ \A x \in Threads : On(c.susp[n], x) /\ x # c.t => c.mprio[n] <= c.curr[x]
            BY <1>2 DEF Ordered
        <3>3. Sorted(c.susp[n], c.curr)
            BY <3>1, <3>2, SortedWithout
        <3> QED
            BY <3>1, <3>2, <3>3
    <2> QED
        BY <2>1, <2>2
<1>7. Lent(d.curr, d.mprio, taken')
    <2> SUFFICES ASSUME NEW x \in Threads, NEW n \in taken'[x]
                 PROVE  d.curr[x] <= d.mprio[n]
        BY DEF Lent
    <2>0. n \in Mutexes /\ taken'[x] \in SUBSET Mutexes
          /\ ceiling' \in [Mutexes -> Ceilings \cup {NoPrio}]
        BY DEF ChainPre
    <2>1. CASE x = o
        <3>1. p = MutexPriority(o, taken'[o], d.mprio, ceiling')
            BY DEF IsRound
        <3>2. p <= d.mprio[n]
            BY <1>0, <2>0, <2>1, <3>1, MutexPriorityLeast
        <3> QED
            BY <1>1, <2>1, <3>2
    <2>2. CASE x # o
        <3>1. n # m
            BY <1>1, <2>0, <2>2 DEF AllOwned
        <3> QED
            BY <1>1, <1>2, <2>0, <2>2, <3>1 DEF Lent
    <2> QED
        BY <2>1, <2>2
<1>6. CASE d.go
    <2>1. ASSUME NEW n \in Mutexes
          PROVE  SortedBut(d.susp[n], o, d.curr)
        <3>1. d.susp[n] \in Seq(Threads)
            BY <1>0
        <3>2. SortedBut(d.susp[n], o, c.curr)
            BY <1>5, <3>1, SortedWithout
        <3> QED
            BY <1>0, <1>1, <3>1, <3>2, SortedElsewhere
    <2>2. \A n \in Mutexes, x \in Threads :
              On(d.susp[n], x) /\ x # o => d.mprio[n] <= d.curr[x]
        BY <1>1, <1>5
    <2> QED
        BY <1>1, <1>6, <2>1, <2>2, <1>7 DEF Ordered, ChainOrdered
<1>8. CASE ~d.go
    <2>1. d.curr = c.curr
        <3>1. \A x \in Threads : d.curr[x] = c.curr[x]
            BY <1>1, <1>8
        <3> QED
            BY <1>0, <3>1
    <2>2. ASSUME NEW n \in Mutexes
          PROVE  /\ SortedBut(d.susp[n], None, d.curr)
                 /\ \A x \in Threads : On(d.susp[n], x) => d.mprio[n] <= d.curr[x]
        <3>1. d.susp[n] \in Seq(Threads)
            BY <1>0
        <3> QED
            BY <1>5, <2>1, <3>1, SortedWithout
    <2> QED
        BY <1>8, <2>2, <1>7 DEF Ordered, ChainOrdered
<1> QED
    BY <1>6, <1>8

LEMMA ChainStepOrders ==
    ASSUME ChainPre, AllOwned, NEW c, ChainRight(c), ChainOrdered(c)
    PROVE  ChainOrdered(ChainStep(c))
<1> DEFINE d == ChainStep(c)
<1>0. ChainRight(d)
    BY ChainStepRight
<1>1. CASE \E m, o, p : IsRound(c, d, m, o, p)
    BY <1>0, <1>1, RoundOrders
<1>2. CASE /\ ~c.go \/ stat'[c.t] # "suspended" \/ pending'[c.t] = None
           /\ d = [c EXCEPT !.go = FALSE]
    <2>1. d.curr = c.curr /\ d.susp = c.susp /\ d.mprio = c.mprio /\ ~d.go
        BY <1>2 DEF ChainRight
    <2> SUFFICES ChainOrdered(d)
        OBVIOUS
    <2> HIDE DEF d
    <2>2. CASE ~c.go
        BY <2>1, <2>2 DEF ChainOrdered
    <2>3. CASE c.go
        <3>1. \A n \in Mutexes : ~On(c.susp[n], c.t) /\ c.susp[n] \in Seq(Threads)
            BY <1>2, <2>3, MutexAssumption DEF ChainRight, ListsRight
        <3>2. Ordered(c.curr, c.susp, c.mprio, c.t)
            BY <2>3 DEF ChainOrdered
        <3>3. ASSUME NEW n \in Mutexes
              PROVE  /\ SortedBut(c.susp[n], None, c.curr)
                     /\ \A x \in Threads : On(c.susp[n], x) => c.mprio[n] <= c.curr[x]
            <4>1. SortedBut(c.susp[n], c.t, c.curr)
                  /\ \A x \in Threads : On(c.susp[n], x) /\ x # c.t => c.mprio[n] <= c.curr[x]
                BY <3>2 DEF Ordered
            <4>2. SortedBut(c.susp[n], None, c.curr)
                BY <3>1, <4>1, SortedWithout
            <4> QED
                BY <3>1, <4>1, <4>2
        <3> QED
            BY <2>1, <3>3 DEF ChainOrdered, Ordered
    <2> QED
        BY <2>2, <2>3
<1> QED
    BY <1>1, <1>2, ARound

\* _thread_update_priority: when the loop ends every list is in order again and
\* every owner at least as urgent as its waiters.
LEMMA UpdatePriorityOrders ==
    ASSUME NEW t \in Threads, NEW p \in Prios, NEW s, NEW mp,
           curr \in [Threads -> Prios], mp \in [Mutexes -> Prios \cup {NoPrio}],
           ListsRight(s, stat', pending'), ChainPre, UpdatePriority(t, p, s, mp),
           AllOwned, Ordered([curr EXCEPT ![t] = p], s, mp, t),
           Lent([curr EXCEPT ![t] = p], mp, taken')
    PROVE  Ordered(curr', susp', mprio', None) /\ Lent(curr', mprio', taken')
<1> DEFINE start == ChainStart(t, p, s, mp)
<1>1. ChainRight(start)
    BY UpdatePriorityRuns
<1>2. PICK F, n : IsChain(F, start, Rounds) /\ ChainResult(F, n)
    BY UpdatePriorityRuns
<1>3. ChainOrdered(start)
    BY DEF ChainStart, ChainOrdered
<1> HIDE DEF start
<1>4. \A i \in 0..Rounds : ChainRight(F[i])
    BY <1>1, <1>2, ChainStaysRight
<1> DEFINE Bad == {i \in Nat : i <= Rounds /\ ~ChainOrdered(F[i])}
<1>5. Bad = {}
    <2> SUFFICES ASSUME Bad # {} PROVE FALSE
        OBVIOUS
    <2>1. PICK m \in Bad : \A y \in Bad : m <= y
        <3>1. Bad \in SUBSET Nat
            OBVIOUS
        <3> HIDE DEF Bad
        <3> QED
            BY <3>1, LeastElement
    <2>2. m # 0
        BY <1>2, <1>3, <2>1 DEF IsChain
    <2>3. m - 1 \in Nat /\ m - 1 <= Rounds /\ ~(m <= m - 1) /\ m \in 1..Rounds
          /\ m - 1 \in 0..Rounds
        BY <2>1, <2>2, RoundsType
    <2>4. ChainOrdered(F[m - 1]) /\ ChainRight(F[m - 1])
        BY <1>4, <2>1, <2>3
    <2>5. F[m] = ChainStep(F[m - 1])
        BY <1>2, <2>3 DEF IsChain
    <2>6. ChainOrdered(F[m])
        BY <2>4, <2>5, ChainStepOrders
    <2> QED
        BY <2>1, <2>6
<1>6. ChainOrdered(F[n]) /\ ~F[n].go
    BY <1>2, <1>5, RoundsType DEF ChainResult
<1> QED
    BY <1>2, <1>6 DEF ChainOrdered, ChainResult

LEMMA FirstPrioSame ==
    ASSUME NEW s \in Seq(Threads), NEW c, NEW d, \A x \in Threads : On(s, x) => c[x] = d[x]
    PROVE  FirstPrio(s, c) = FirstPrio(s, d)
<1>1. CASE s = <<>>
    BY <1>1 DEF FirstPrio
<1>2. CASE s # <<>>
    <2>1. Head(s) \in Threads /\ Head(s) = s[1] /\ 1 \in 1..Len(s)
        BY <1>2
    <2>2. On(s, Head(s))
        BY <2>1 DEF On
    <2> QED
        BY <1>2, <2>1, <2>2 DEF FirstPrio
<1> QED
    BY <1>1, <1>2

LEMMA MutexPrioritySame ==
    ASSUME NEW t, NEW mine, NEW mp, NEW mq, NEW ceil, \A m \in mine : mp[m] = mq[m]
    PROVE  MutexPriority(t, mine, mp, ceil) = MutexPriority(t, mine, mq, ceil)
<1>1. {mp[m] : m \in mine} = {mq[m] : m \in mine}
    OBVIOUS
<1> QED
    BY <1>1 DEF MutexPriority

\* A mutex has exactly the priority of its first waiter, unless t waits for it.
ExactBut(cu, su, mp, t) ==
    \A m \in Mutexes : ~On(su[m], t) => mp[m] = FirstPrio(su[m], cu)

\* A thread has exactly the priority it is owed.
Owed(cu, mp, ta, ce) == \A x \in Threads : cu[x] = MutexPriority(x, ta[x], mp, ce)

ChainExact(c) ==
    /\ ExactBut(c.curr, c.susp, c.mprio, IF c.go THEN c.t ELSE None)
    /\ Owed(c.curr, c.mprio, taken', ceiling')

LEMMA RoundExact ==
    ASSUME ChainPre, AllOwned, NEW c, ChainRight(c), ChainExact(c), NEW d, ChainRight(d),
           NEW m, NEW o, NEW p, IsRound(c, d, m, o, p)
    PROVE  ChainExact(d)
<1>0. /\ c.curr \in [Threads -> Prios] /\ d.curr \in [Threads -> Prios] /\ c.t \in Threads
      /\ d.susp \in [Mutexes -> Seq(Threads)]
      /\ ListsRight(c.susp, stat', pending') /\ ListsRight(d.susp, stat', pending')
    BY DEF ChainRight
<1>1. /\ m \in Mutexes /\ o \in Threads /\ pending'[c.t] = m /\ stat'[c.t] = "suspended"
      /\ owner'[m] = o /\ d.curr[o] = p /\ d.t = o
      /\ d.go <=> p # c.curr[o]
      /\ \A x \in Threads \ {o} : d.curr[x] = c.curr[x]
      /\ \A n \in Mutexes \ {m} : d.susp[n] = c.susp[n] /\ d.mprio[n] = c.mprio[n]
      /\ d.mprio[m] = FirstPrio(d.susp[m], c.curr)
      /\ p = MutexPriority(o, taken'[o], d.mprio, ceiling')
    BY DEF IsRound
<1>2. ExactBut(c.curr, c.susp, c.mprio, c.t) /\ Owed(c.curr, c.mprio, taken', ceiling')
    BY DEF ChainExact, IsRound
<1>3. \A n \in Mutexes \ {m} : ~On(c.susp[n], c.t)
    BY <1>0, <1>1 DEF ListsRight
<1>4. \A n \in Mutexes : d.mprio[n] = FirstPrio(d.susp[n], c.curr)
    BY <1>1, <1>2, <1>3 DEF ExactBut
<1>5. Owed(d.curr, d.mprio, taken', ceiling')
    <2> SUFFICES ASSUME NEW x \in Threads
                 PROVE  d.curr[x] = MutexPriority(x, taken'[x], d.mprio, ceiling')
        BY DEF Owed
    <2>1. CASE x = o
        BY <1>1, <2>1
    <2>2. CASE x # o
        <3>1. \A n \in taken'[x] : d.mprio[n] = c.mprio[n]
            BY <1>1, <2>2 DEF AllOwned, ChainPre
        <3>2. MutexPriority(x, taken'[x], d.mprio, ceiling')
                  = MutexPriority(x, taken'[x], c.mprio, ceiling')
            BY <3>1, MutexPrioritySame
        <3> QED
            BY <1>1, <1>2, <2>2, <3>2 DEF Owed
    <2> QED
        BY <2>1, <2>2
<1>6. ASSUME NEW n \in Mutexes, d.go => ~On(d.susp[n], o)
      PROVE  d.mprio[n] = FirstPrio(d.susp[n], d.curr)
    <2>1. \A x \in Threads : On(d.susp[n], x) => c.curr[x] = d.curr[x]
        BY <1>1, <1>6
    <2>2. d.susp[n] \in Seq(Threads)
        BY <1>0
    <2>3. FirstPrio(d.susp[n], c.curr) = FirstPrio(d.susp[n], d.curr)
        BY <2>1, <2>2, FirstPrioSame
    <2> QED
        BY <1>4, <2>3
<1>7. CASE d.go
    BY <1>1, <1>5, <1>6, <1>7 DEF ChainExact, ExactBut
<1>8. CASE ~d.go
    BY <1>1, <1>5, <1>6, <1>8 DEF ChainExact, ExactBut
<1> QED
    BY <1>7, <1>8

LEMMA ChainStepExact ==
    ASSUME ChainPre, AllOwned, NEW c, ChainRight(c), ChainExact(c)
    PROVE  ChainExact(ChainStep(c))
<1> DEFINE d == ChainStep(c)
<1>0. ChainRight(d)
    BY ChainStepRight
<1>1. CASE \E m, o, p : IsRound(c, d, m, o, p)
    BY <1>0, <1>1, RoundExact
<1>2. CASE /\ ~c.go \/ stat'[c.t] # "suspended" \/ pending'[c.t] = None
           /\ d = [c EXCEPT !.go = FALSE]
    <2>1. d.curr = c.curr /\ d.susp = c.susp /\ d.mprio = c.mprio /\ ~d.go
        BY <1>2 DEF ChainRight
    <2> SUFFICES ChainExact(d)
        OBVIOUS
    <2> HIDE DEF d
    <2>2. CASE ~c.go
        BY <2>1, <2>2 DEF ChainExact
    <2>3. CASE c.go
        <3>1. \A n \in Mutexes : ~On(c.susp[n], c.t)
            BY <1>2, <2>3, MutexAssumption DEF ChainRight, ListsRight
        <3> QED
            BY <2>1, <2>3, <3>1 DEF ChainExact, ExactBut
    <2> QED
        BY <2>2, <2>3
<1> QED
    BY <1>1, <1>2, ARound

\* _thread_update_priority: what every thread is owed it has when the loop
\* ends, and no more.
LEMMA UpdatePriorityExact ==
    ASSUME NEW t \in Threads, NEW p \in Prios, NEW s, NEW mp,
           curr \in [Threads -> Prios], mp \in [Mutexes -> Prios \cup {NoPrio}],
           ListsRight(s, stat', pending'), ChainPre, UpdatePriority(t, p, s, mp),
           AllOwned, ExactBut([curr EXCEPT ![t] = p], s, mp, t),
           Owed([curr EXCEPT ![t] = p], mp, taken', ceiling')
    PROVE  ExactBut(curr', susp', mprio', None) /\ Owed(curr', mprio', taken', ceiling')
<1> DEFINE start == ChainStart(t, p, s, mp)
<1>1. ChainRight(start)
    BY UpdatePriorityRuns
<1>2. PICK F, n : IsChain(F, start, Rounds) /\ ChainResult(F, n)
    BY UpdatePriorityRuns
<1>3. ChainExact(start)
    BY DEF ChainStart, ChainExact
<1> HIDE DEF start
<1>4. \A i \in 0..Rounds : ChainRight(F[i])
    BY <1>1, <1>2, ChainStaysRight
<1> DEFINE Bad == {i \in Nat : i <= Rounds /\ ~ChainExact(F[i])}
<1>5. Bad = {}
    <2> SUFFICES ASSUME Bad # {} PROVE FALSE
        OBVIOUS
    <2>1. PICK m \in Bad : \A y \in Bad : m <= y
        <3>1. Bad \in SUBSET Nat
            OBVIOUS
        <3> HIDE DEF Bad
        <3> QED
            BY <3>1, LeastElement
    <2>2. m # 0
        BY <1>2, <1>3, <2>1 DEF IsChain
    <2>3. m - 1 \in Nat /\ m - 1 <= Rounds /\ ~(m <= m - 1) /\ m \in 1..Rounds
          /\ m - 1 \in 0..Rounds
        BY <2>1, <2>2, RoundsType
    <2>4. ChainExact(F[m - 1]) /\ ChainRight(F[m - 1])
        BY <1>4, <2>1, <2>3
    <2>5. F[m] = ChainStep(F[m - 1])
        BY <1>2, <2>3 DEF IsChain
    <2>6. ChainExact(F[m])
        BY <2>4, <2>5, ChainStepExact
    <2> QED
        BY <2>1, <2>6
<1>6. ChainExact(F[n]) /\ ~F[n].go
    BY <1>2, <1>5, RoundsType DEF ChainResult
<1> QED
    BY <1>2, <1>6 DEF ChainExact, ChainResult

-----------------------------------------------------------------------------
(* The invariant *)

Types ==
    /\ owner \in [Mutexes -> Threads \cup {None}]
    /\ hold \in [Mutexes -> 0..MaxHold]
    /\ mprio \in [Mutexes -> Prios \cup {NoPrio}]
    /\ ceiling \in [Mutexes -> Ceilings \cup {NoPrio}]
    /\ taken \in [Threads -> SUBSET Mutexes]
    /\ curr \in [Threads -> Prios]
    /\ stat \in [Threads -> {"ready", "suspended", "closed"}]
    /\ pending \in [Threads -> Mutexes \cup {None}]
    /\ error \in [Threads -> {"EOK", "ETIMEOUT", "ERROR"}]
    /\ call \in [Threads -> Mutexes \cup {None}]
    /\ live \subseteq Mutexes

\* A mutex in use is held by its owner and is on the owner's list alone.
OwnersRight ==
    \A m \in live :
        /\ owner[m] = None <=> hold[m] = 0
        /\ \A t \in Threads : owner[m] = t <=> m \in taken[t]

\* A suspended thread is in a take of a mutex in use that another thread owns;
\* pending_object is the mutex of the take; a take that timed out or failed
\* still finds it there, one that was handed the mutex does not; an ended
\* thread is in no take.
CallsRight ==
    \A t \in Threads :
        /\ stat[t] = "suspended" =>
               /\ pending[t] \in live /\ pending[t] = call[t] /\ error[t] = "EOK"
               /\ owner[pending[t]] \in Threads /\ owner[pending[t]] # t
        /\ pending[t] # None => /\ pending[t] = call[t]
                                /\ stat[t] = "ready" => error[t] # "EOK"
        /\ stat[t] = "ready" /\ call[t] # None /\ error[t] # "EOK" => pending[t] = call[t]
        /\ stat[t] = "closed" => call[t] = None

ResultsRight ==
    \A t \in Threads :
        call[t] # None /\ stat[t] = "ready" => (error[t] = "EOK" <=> owner[call[t]] = t)

\* The inductive invariant: TypeOK apart from the history variables, and the
\* three properties with what they rest on, said of each waiting thread.
MInv ==
    /\ Types /\ OwnersRight /\ CallsRight /\ ResultsRight
    /\ ListsRight(susp, stat, pending)

LEMMA MInvInit == Init => MInv
<1> SUFFICES ASSUME Init PROVE MInv
    OBVIOUS
<1>1. Types
    BY MutexAssumption DEF Init, Types, Prios, NoPrio
<1>2. OwnersRight /\ CallsRight /\ ResultsRight
    BY MutexAssumption DEF Init, OwnersRight, CallsRight, ResultsRight
<1>3. ListsRight(susp, stat, pending)
    <2>1. \A m \in Mutexes : susp[m] = <<>>
        BY DEF Init
    <2>2. susp \in [Mutexes -> Seq(Threads)] /\ \A t \in Threads : stat[t] # "suspended"
        BY DEF Init
    <2> QED
        BY <2>1, <2>2 DEF ListsRight, On, Distinct
<1> QED
    BY <1>1, <1>2, <1>3 DEF MInv

\* The history variables do not matter here.
Same == UNCHANGED live

LEMMA TakeFreeKeeps ==
    ASSUME MInv, Same, NEW t \in Threads, NEW m \in live, TakeFree(t, m)
    PROVE  MInv'
<1> USE DEF MInv, Same
<1>1. Types'
    <2>1. Min({curr[t], ceiling[m]}) \in Prios
        <3> DEFINE I == {curr[t], ceiling[m]}
        <3>1. curr[t] \in Prios /\ ceiling[m] \in Ceilings \cup {NoPrio}
            BY DEF Types
        <3>2. I \in SUBSET Nat /\ curr[t] \in I /\ I # {}
            <4>1. Ceilings \subseteq Nat /\ NoPrio \in Nat /\ Prios \subseteq Nat
                BY MutexAssumption DEF NoPrio, Prios
            <4> QED
                BY <3>1, <4>1
        <3> HIDE DEF I
        <3>3. Min(I) \in Nat /\ Min(I) <= curr[t]
            BY <3>2, MinOfNaturals
        <3>4. Min(I) \in Prios
            BY <3>1, <3>3 DEF Prios
        <3> QED
            BY <3>4 DEF I
    <2>2. 1 \in 0..MaxHold
        BY MutexAssumption
    <2>3. curr' \in [Threads -> Prios]
        BY <2>1 DEF TakeFree, Types
    <2>4. taken' \in [Threads -> SUBSET Mutexes]
        BY DEF TakeFree, Types
    <2>5. owner' \in [Mutexes -> Threads \cup {None}] /\ hold' \in [Mutexes -> 0..MaxHold]
        BY <2>2 DEF TakeFree, Types
    <2>6. mprio' \in [Mutexes -> Prios \cup {NoPrio}]
          /\ error' \in [Threads -> {"EOK", "ETIMEOUT", "ERROR"}]
        BY DEF TakeFree, Types
    <2> QED
        BY <2>3, <2>4, <2>5, <2>6 DEF TakeFree, Types
<1>2. OwnersRight'
    BY MutexAssumption DEF TakeFree, Types, OwnersRight
<1>3. CallsRight'
    BY MutexAssumption DEF TakeFree, Types, CallsRight
<1>4. ResultsRight'
    BY MutexAssumption DEF TakeFree, Types, ResultsRight, CallsRight
<1>5. ListsRight(susp, stat, pending)'
    BY DEF TakeFree
<1> QED
    BY <1>1, <1>2, <1>3, <1>4, <1>5

LEMMA TakeAgainKeeps ==
    ASSUME MInv, Same, NEW t \in Threads, NEW m \in live, TakeAgain(t, m)
    PROVE  MInv'
<1> USE DEF MInv, Same
<1>1. Types'
    <2>1. hold[m] + 1 \in 0..MaxHold
        BY MutexAssumption DEF TakeAgain, Types
    <2> QED
        BY <2>1 DEF TakeAgain, Types
<1>2. OwnersRight'
    BY MutexAssumption DEF TakeAgain, Types, OwnersRight
<1>3. CallsRight'
    BY MutexAssumption DEF TakeAgain, Types, CallsRight
<1>4. ResultsRight'
    BY MutexAssumption DEF TakeAgain, Types, ResultsRight
<1>5. ListsRight(susp, stat, pending)'
    BY DEF TakeAgain
<1> QED
    BY <1>1, <1>2, <1>3, <1>4, <1>5

LEMMA TakeDoneKeeps ==
    ASSUME MInv, Same, NEW t \in Threads, TakeDone(t)
    PROVE  MInv'
<1> USE DEF MInv, Same
<1>1. Types'
    BY DEF TakeDone, Types
<1>2. OwnersRight'
    BY DEF TakeDone, OwnersRight
<1>3. CallsRight'
    BY MutexAssumption DEF TakeDone, Types, CallsRight
<1>4. ResultsRight'
    BY MutexAssumption DEF TakeDone, Types, ResultsRight
<1>5. ListsRight(susp, stat, pending)'
    BY DEF TakeDone
<1> QED
    BY <1>1, <1>2, <1>3, <1>4, <1>5

LEMMA ReleaseNestedKeeps ==
    ASSUME MInv, Same, NEW t \in Threads, NEW m \in live, ReleaseNested(t, m)
    PROVE  MInv'
<1> USE DEF MInv, Same
<1>1. Types'
    <2>1. hold[m] - 1 \in 0..MaxHold
        BY MutexAssumption DEF ReleaseNested, Types
    <2> QED
        BY <2>1 DEF ReleaseNested, Types
<1>2. OwnersRight'
    BY MutexAssumption DEF ReleaseNested, Types, OwnersRight
<1>3. CallsRight' /\ ResultsRight'
    BY DEF ReleaseNested, CallsRight, ResultsRight
<1>5. ListsRight(susp, stat, pending)'
    BY DEF ReleaseNested
<1> QED
    BY <1>1, <1>2, <1>3, <1>5

LEMMA ExitKeeps ==
    ASSUME MInv, Same, NEW t \in Threads, Exit(t)
    PROVE  MInv'
<1> USE DEF MInv, Same
<1>1. Types'
    BY DEF Exit, Types
<1>2. OwnersRight'
    BY DEF Exit, OwnersRight
<1>3. CallsRight'
    BY MutexAssumption DEF Exit, Types, CallsRight
<1>4. ResultsRight'
    BY MutexAssumption DEF Exit, Types, ResultsRight
<1>5. ListsRight(susp, stat, pending)'
    BY DEF Exit, Types, ListsRight
<1> QED
    BY <1>1, <1>2, <1>3, <1>4, <1>5

LEMMA ChangePriorityKeeps ==
    ASSUME MInv, NEW t \in Threads, NEW p \in NewPrios, ChangePriority(t, p)
    PROVE  MInv'
<1> USE DEF MInv
<1>1. Types'
    <2>1. p \in Prios
        BY MutexAssumption DEF Prios
    <2> QED
        BY <2>1 DEF ChangePriority, Types
<1>2. OwnersRight' /\ CallsRight' /\ ResultsRight'
    BY DEF ChangePriority, OwnersRight, CallsRight, ResultsRight
<1>5. ListsRight(susp, stat, pending)'
    BY DEF ChangePriority
<1> QED
    BY <1>1, <1>2, <1>5

\* All that a chain changes is priorities and the order of the lists: the rest
\* of the invariant can be seen to hold before it starts.
OtherTypes ==
    /\ owner \in [Mutexes -> Threads \cup {None}]
    /\ hold \in [Mutexes -> 0..MaxHold]
    /\ ceiling \in [Mutexes -> Ceilings \cup {NoPrio}]
    /\ taken \in [Threads -> SUBSET Mutexes]
    /\ stat \in [Threads -> {"ready", "suspended", "closed"}]
    /\ pending \in [Threads -> Mutexes \cup {None}]
    /\ error \in [Threads -> {"EOK", "ETIMEOUT", "ERROR"}]
    /\ call \in [Threads -> Mutexes \cup {None}]
    /\ live \subseteq Mutexes

LEMMA BeforeChain ==
    ASSUME OtherTypes', OwnersRight', CallsRight'
    PROVE  ChainPre
BY DEF OtherTypes, OwnersRight, CallsRight, ChainPre

LEMMA AllTypes ==
    ASSUME OtherTypes', curr' \in [Threads -> Prios],
           mprio' \in [Mutexes -> Prios \cup {NoPrio}]
    PROVE  Types'
BY DEF OtherTypes, Types

\* The lists with t put in the list of m, for which it now waits.
LEMMA EnqueueRight ==
    ASSUME ListsRight(susp, stat, pending), NEW t \in Threads, NEW m \in Mutexes,
           stat[t] # "suspended", NEW c, NEW st, NEW pe,
           st[t] = "suspended", pe[t] = m,
           \A x \in Threads \ {t} : st[x] = stat[x] /\ pe[x] = pending[x]
    PROVE  ListsRight([susp EXCEPT ![m] = Enqueue(@, t, c)], st, pe)
<1> DEFINE e == Enqueue(susp[m], t, c)
           z == [susp EXCEPT ![m] = e]
<1>1. susp \in [Mutexes -> Seq(Threads)] /\ susp[m] \in Seq(Threads) /\ Distinct(susp[m])
      /\ ~On(susp[m], t)
    BY DEF ListsRight
<1>2. e \in Seq(Threads) /\ Distinct(e) /\ \A x : On(e, x) <=> On(susp[m], x) \/ x = t
    BY <1>1, EnqueueFacts
<1> HIDE DEF e
<1>3. z \in [Mutexes -> Seq(Threads)]
    BY <1>1, <1>2
<1>4. ASSUME NEW n \in Mutexes
      PROVE  Distinct(z[n]) /\ \A x \in Threads : On(z[n], x) <=> st[x] = "suspended" /\ pe[x] = n
    <2>1. CASE n = m
        <3>1. z[n] = e
            BY <1>1, <2>1
        <3> QED
            BY <1>1, <1>2, <2>1, <3>1 DEF ListsRight
    <2>2. CASE n # m
        <3>1. z[n] = susp[n]
            BY <1>1, <2>2
        <3> QED
            BY <2>2, <3>1 DEF ListsRight
    <2> QED
        BY <2>1, <2>2
<1>5. ListsRight(z, st, pe)
    <2> HIDE DEF z
    <2> QED
        BY <1>3, <1>4 DEF ListsRight
<1> QED
    BY <1>5 DEF e

\* The lists without t, which no longer waits.
LEMMA RemoveRight ==
    ASSUME ListsRight(susp, stat, pending), NEW t \in Threads, NEW m \in Mutexes,
           NEW st, NEW pe, st[t] # "suspended",
           stat[t] = "suspended" => pending[t] = m,
           \A x \in Threads \ {t} : st[x] = stat[x] /\ pe[x] = pending[x]
    PROVE  ListsRight([susp EXCEPT ![m] = RemoveFirst(@, t)], st, pe)
<1> DEFINE e == RemoveFirst(susp[m], t)
           z == [susp EXCEPT ![m] = e]
<1>1. susp \in [Mutexes -> Seq(Threads)] /\ susp[m] \in Seq(Threads) /\ Distinct(susp[m])
    BY DEF ListsRight
<1>2. e \in Seq(Threads) /\ Distinct(e) /\ \A x : On(e, x) <=> On(susp[m], x) /\ x # t
    BY <1>1, RemoveFacts
<1> HIDE DEF e
<1>3. z \in [Mutexes -> Seq(Threads)]
    BY <1>1, <1>2
<1>4. ASSUME NEW n \in Mutexes
      PROVE  Distinct(z[n]) /\ \A x \in Threads : On(z[n], x) <=> st[x] = "suspended" /\ pe[x] = n
    <2>1. CASE n = m
        <3>1. z[n] = e
            BY <1>1, <2>1
        <3> QED
            BY <1>1, <1>2, <2>1, <3>1 DEF ListsRight
    <2>2. CASE n # m
        <3>1. z[n] = susp[n]
            BY <1>1, <2>2
        <3> QED
            BY <2>2, <3>1 DEF ListsRight
    <2> QED
        BY <2>1, <2>2
<1>5. ListsRight(z, st, pe)
    <2> HIDE DEF z
    <2> QED
        BY <1>3, <1>4 DEF ListsRight
<1> QED
    BY <1>5 DEF e

LEMMA TakeBlockKeeps ==
    ASSUME MInv, Same, NEW t \in Threads, NEW m \in live, TakeBlock(t, m)
    PROVE  MInv'
<1> USE DEF MInv, Same
<1> DEFINE list == [susp EXCEPT ![m] = Enqueue(@, t, curr)]
           first == curr[t] < mprio[m]
           mp == IF first THEN [mprio EXCEPT ![m] = curr[t]] ELSE mprio
<1>1. OtherTypes'
    BY DEF TakeBlock, Types, OtherTypes
<1>2. OwnersRight'
    BY DEF TakeBlock, OwnersRight
<1>3. CallsRight'
    BY MutexAssumption DEF TakeBlock, Types, CallsRight
<1>4. ResultsRight'
    BY MutexAssumption DEF TakeBlock, Types, ResultsRight
<1>5. ListsRight(list, stat', pending')
    <2>1. m \in Mutexes /\ stat[t] # "suspended" /\ stat'[t] = "suspended" /\ pending'[t] = m
          /\ \A x \in Threads \ {t} : stat'[x] = stat[x] /\ pending'[x] = pending[x]
        BY DEF TakeBlock, Types
    <2> QED
        BY <2>1, EnqueueRight
<1> HIDE DEF list
<1>6. /\ mp \in [Mutexes -> Prios \cup {NoPrio}] /\ curr \in [Threads -> Prios]
      /\ owner[m] \in Threads /\ curr[t] \in Prios
    BY DEF TakeBlock, Types
<1>7. \/ UpdatePriority(owner[m], curr[t], list, mp)
      \/ susp' = list /\ mprio' = mp /\ curr' = curr
    BY DEF TakeBlock, list
<1> HIDE DEF mp
<1>8. /\ curr' \in [Threads -> Prios] /\ mprio' \in [Mutexes -> Prios \cup {NoPrio}]
      /\ ListsRight(susp', stat', pending')
    <2>1. CASE UpdatePriority(owner[m], curr[t], list, mp)
        <3>1. ChainPre
            BY <1>1, <1>2, <1>3, BeforeChain
        <3> HIDE DEF MInv, Same
        <3> QED
            BY <1>5, <1>6, <2>1, <3>1, UpdatePriorityRight
    <2>2. CASE susp' = list /\ mprio' = mp /\ curr' = curr
        BY <1>5, <1>6, <2>2, Zenon
    <2> QED
        BY <1>7, <2>1, <2>2
<1>9. Types'
    BY <1>1, <1>8, AllTypes
<1> QED
    BY <1>2, <1>3, <1>4, <1>8, <1>9

LEMMA TimeoutKeeps ==
    ASSUME MInv, Same, NEW t \in Threads, Timeout(t)
    PROVE  MInv'
<1> USE DEF MInv, Same
<1>1. OtherTypes' /\ curr' = curr /\ mprio' = mprio
    BY DEF Timeout, Types, OtherTypes
<1>2. OwnersRight'
    BY DEF Timeout, OwnersRight
<1>3. CallsRight'
    BY MutexAssumption DEF Timeout, Types, CallsRight
<1>4. ResultsRight'
    BY MutexAssumption DEF Timeout, Types, ResultsRight, CallsRight
<1>5. ListsRight(susp', stat', pending')
    <2>1. pending[t] \in Mutexes /\ stat'[t] # "suspended"
          /\ \A x \in Threads \ {t} : stat'[x] = stat[x] /\ pending'[x] = pending[x]
        BY DEF Timeout, Types, CallsRight
    <2>2. susp' = [susp EXCEPT ![pending[t]] = RemoveFirst(@, t)]
        BY DEF Timeout
    <2>3. ListsRight([susp EXCEPT ![pending[t]] = RemoveFirst(@, t)], stat', pending')
        BY <2>1, RemoveRight
    <2> QED
        BY <2>2, <2>3, Zenon
<1>6. Types'
    BY <1>1, AllTypes DEF Types
<1> QED
    BY <1>2, <1>3, <1>4, <1>5, <1>6

\* A waiter that leaves: whether or not the owner's priority is reconsidered.
LEMMA LeaveRight ==
    ASSUME Types, OtherTypes', OwnersRight', CallsRight', NEW t \in Threads, NEW m \in Mutexes,
           NEW list, ListsRight(list, stat', pending'), Leave(t, m, list)
    PROVE  /\ curr' \in [Threads -> Prios] /\ mprio' \in [Mutexes -> Prios \cup {NoPrio}]
           /\ ListsRight(susp', stat', pending')
<1> DEFINE mp == [mprio EXCEPT ![m] = FirstPrio(list[m], curr)]
           o  == owner[m]
           p  == MutexPriority(o, taken[o], mp, ceiling)
<1>1. /\ curr \in [Threads -> Prios] /\ o \in Threads \cup {None}
      /\ ceiling \in [Mutexes -> Ceilings \cup {NoPrio}] /\ taken \in [Threads -> SUBSET Mutexes]
      /\ mprio \in [Mutexes -> Prios \cup {NoPrio}]
    BY DEF Types
<1>2. mp \in [Mutexes -> Prios \cup {NoPrio}]
    <2>1. list[m] \in Seq(Threads)
        BY DEF ListsRight
    <2>2. FirstPrio(list[m], curr) \in Prios \cup {NoPrio}
        BY <1>1, <2>1, FirstPrioType
    <2> QED
        BY <1>1, <2>2
<1>3. \/ o # None /\ UpdatePriority(o, p, list, mp)
      \/ mprio' = mp /\ susp' = list /\ curr' = curr
    BY DEF Leave
<1> HIDE DEF mp, o
<1>4. CASE o # None /\ UpdatePriority(o, p, list, mp)
    <2>1. o \in Threads /\ taken[o] \in SUBSET Mutexes
        BY <1>1, <1>4
    <2>2. p \in Prios
        BY <1>1, <1>2, <2>1, MutexPriorityType
    <2>3. ChainPre
        BY BeforeChain
    <2> HIDE DEF p
    <2> QED
        BY <1>1, <1>2, <1>4, <2>1, <2>2, <2>3, UpdatePriorityRight
<1>5. CASE mprio' = mp /\ susp' = list /\ curr' = curr
    BY <1>1, <1>2, <1>5, Zenon
<1> QED
    BY <1>3, <1>4, <1>5

LEMMA TakeFailedKeeps ==
    ASSUME MInv, Same, NEW t \in Threads, TakeFailed(t)
    PROVE  MInv'
<1> USE DEF MInv, Same
<1>1. OtherTypes'
    BY DEF TakeFailed, Types, OtherTypes
<1>2. OwnersRight'
    BY DEF TakeFailed, OwnersRight
<1>3. CallsRight'
    BY MutexAssumption DEF TakeFailed, Types, CallsRight
<1>4. ResultsRight'
    BY MutexAssumption DEF TakeFailed, Types, ResultsRight
<1>5. ListsRight(susp, stat', pending')
    BY DEF TakeFailed, Types, ListsRight
<1>6. pending[t] \in Mutexes /\ Leave(t, pending[t], susp)
    BY DEF TakeFailed, Types, CallsRight
<1>7. /\ curr' \in [Threads -> Prios] /\ mprio' \in [Mutexes -> Prios \cup {NoPrio}]
      /\ ListsRight(susp', stat', pending')
    BY <1>1, <1>2, <1>3, <1>5, <1>6, LeaveRight
<1>8. Types'
    BY <1>1, <1>7, AllTypes
<1> QED
    BY <1>2, <1>3, <1>4, <1>7, <1>8

LEMMA DeleteThreadKeeps ==
    ASSUME MInv, Same, NEW t \in Threads, DeleteThread(t)
    PROVE  MInv'
<1> USE DEF MInv, Same
<1>1. OtherTypes'
    BY DEF DeleteThread, Types, OtherTypes
<1>2. OwnersRight'
    BY DEF DeleteThread, OwnersRight
<1>3. CallsRight'
    BY MutexAssumption DEF DeleteThread, Types, CallsRight
<1>4. ResultsRight'
    BY MutexAssumption DEF DeleteThread, Types, ResultsRight
<1>5. /\ curr' \in [Threads -> Prios] /\ mprio' \in [Mutexes -> Prios \cup {NoPrio}]
      /\ ListsRight(susp', stat', pending')
    <2>1. /\ stat'[t] # "suspended"
          /\ \A x \in Threads \ {t} : stat'[x] = stat[x] /\ pending'[x] = pending[x]
        BY DEF DeleteThread, Types
    <2>2. CASE pending[t] = None
        <3>1. susp' = susp /\ mprio' = mprio /\ curr' = curr /\ stat[t] # "suspended"
            BY <2>2, MutexAssumption DEF DeleteThread, CallsRight, Types
        <3>2. curr' \in [Threads -> Prios] /\ mprio' \in [Mutexes -> Prios \cup {NoPrio}]
            BY <3>1 DEF Types
        <3>3. \A x \in Threads, m \in Mutexes :
                  stat[x] = "suspended" /\ pending[x] = m
                      <=> stat'[x] = "suspended" /\ pending'[x] = m
            BY <2>1, <3>1
        <3>4. ListsRight(susp, stat', pending')
            BY <3>3 DEF ListsRight
        <3> QED
            BY <3>1, <3>2, <3>4, Zenon
    <2>3. CASE pending[t] # None
        <3>1. pending[t] \in Mutexes
              /\ Leave(t, pending[t], [susp EXCEPT ![pending[t]] = RemoveFirst(@, t)])
            BY <2>3 DEF DeleteThread, Types
        <3>2. ListsRight([susp EXCEPT ![pending[t]] = RemoveFirst(@, t)], stat', pending')
            BY <2>1, <3>1, RemoveRight
        <3> QED
            BY <1>1, <1>2, <1>3, <3>1, <3>2, LeaveRight
    <2> QED
        BY <2>2, <2>3
<1>6. Types'
    BY <1>1, <1>5, AllTypes
<1> QED
    BY <1>2, <1>3, <1>4, <1>5, <1>6

LEMMA SetPrioCeilingKeeps ==
    ASSUME MInv, Same, NEW m \in live, NEW c \in Ceilings, SetPrioCeiling(m, c)
    PROVE  MInv'
<1> USE DEF MInv, Same
<1> DEFINE o == owner[m]
           hp == MutexPriority(o, taken[o], mprio, ceiling')
<1>1. OtherTypes'
    BY DEF SetPrioCeiling, Types, OtherTypes
<1>2. OwnersRight' /\ CallsRight' /\ ResultsRight'
    BY DEF SetPrioCeiling, OwnersRight, CallsRight, ResultsRight
<1>3. ListsRight(susp, stat', pending')
    BY DEF SetPrioCeiling
<1>4. \/ o # None /\ UpdatePriority(o, hp, susp, mprio)
      \/ mprio' = mprio /\ susp' = susp /\ curr' = curr
    BY DEF SetPrioCeiling
<1>5. /\ curr \in [Threads -> Prios] /\ o \in Threads \cup {None}
      /\ mprio \in [Mutexes -> Prios \cup {NoPrio}] /\ taken \in [Threads -> SUBSET Mutexes]
      /\ ceiling' \in [Mutexes -> Ceilings \cup {NoPrio}]
    BY <1>1 DEF Types, OtherTypes
<1> HIDE DEF o
<1>6. /\ curr' \in [Threads -> Prios] /\ mprio' \in [Mutexes -> Prios \cup {NoPrio}]
      /\ ListsRight(susp', stat', pending')
    <2>1. CASE o # None /\ UpdatePriority(o, hp, susp, mprio)
        <3>1. o \in Threads /\ taken[o] \in SUBSET Mutexes
            BY <1>5, <2>1
        <3>2. hp \in Prios
            BY <1>5, <3>1, MutexPriorityType
        <3>3. ChainPre
            BY <1>1, <1>2, BeforeChain
        <3> HIDE DEF hp, MInv, Same
        <3> QED
            BY <1>3, <1>5, <2>1, <3>1, <3>2, <3>3, UpdatePriorityRight
    <2>2. CASE mprio' = mprio /\ susp' = susp /\ curr' = curr
        BY <1>3, <1>5, <2>2, Zenon
    <2> QED
        BY <1>4, <2>1, <2>2
<1>7. Types'
    BY <1>1, <1>6, AllTypes
<1> QED
    BY <1>2, <1>6, <1>7

LEMMA PrioAfterReleaseType ==
    ASSUME Types, NEW t \in Threads, NEW m \in Mutexes
    PROVE  PrioAfterRelease(t, m) \in Prios
<1>1. /\ taken[t] \ {m} \in SUBSET Mutexes /\ curr[t] \in Prios
      /\ mprio \in [Mutexes -> Prios \cup {NoPrio}]
      /\ ceiling \in [Mutexes -> Ceilings \cup {NoPrio}]
    BY DEF Types
<1>2. MutexPriority(t, taken[t] \ {m}, mprio, ceiling) \in Prios
    BY <1>1, MutexPriorityType
<1> QED
    BY <1>1, <1>2 DEF PrioAfterRelease

LEMMA ReleaseKeeps ==
    ASSUME MInv, Same, NEW t \in Threads, NEW m \in live, Release(t, m)
    PROVE  MInv'
<1> USE DEF MInv, Same
<1>0. m \in Mutexes /\ susp[m] \in Seq(Threads) /\ Distinct(susp[m])
    BY DEF Types, ListsRight
<1>1. curr' \in [Threads -> Prios]
    <2>1. PrioAfterRelease(t, m) \in Prios
        BY <1>0, PrioAfterReleaseType
    <2> QED
        BY <2>1 DEF Release, Types
<1>2. CASE susp[m] = <<>>
    <2>1. /\ owner' = [owner EXCEPT ![m] = None]
          /\ hold' = [hold EXCEPT ![m] = 0]
          /\ mprio' = [mprio EXCEPT ![m] = NoPrio]
          /\ taken' = [taken EXCEPT ![t] = @ \ {m}]
          /\ susp' = susp /\ stat' = stat /\ pending' = pending
          /\ ceiling' = ceiling /\ error' = error /\ call' = call
          /\ stat[t] = "ready" /\ call[t] = None /\ owner[m] = t
        BY <1>2 DEF Release
    <2>2. \A x \in Threads : ~(stat[x] = "suspended" /\ pending[x] = m)
        <3>1. \A x : ~On(susp[m], x)
            BY <1>0, <1>2, NothingOnEmpty
        <3> QED
            BY <1>0, <3>1 DEF ListsRight
    <2>3. 0 \in 0..MaxHold
        BY MutexAssumption
    <2>4. OtherTypes'
        BY <2>1, <2>3 DEF OtherTypes, Types
    <2>5. mprio' \in [Mutexes -> Prios \cup {NoPrio}]
        BY <2>1 DEF Types
    <2>6. OwnersRight'
        BY <1>0, <2>1, MutexAssumption DEF Types, OwnersRight
    <2>7. CallsRight'
        BY <1>0, <2>1, <2>2, MutexAssumption DEF Types, CallsRight
    <2>8. ResultsRight'
        BY <1>0, <2>1, MutexAssumption DEF Types, ResultsRight
    <2>9. ListsRight(susp', stat', pending')
        BY <2>1
    <2>10. Types'
        BY <1>1, <2>4, <2>5, AllTypes
    <2> QED
        BY <2>6, <2>7, <2>8, <2>9, <2>10
<1>3. CASE susp[m] # <<>>
    <2> DEFINE u == Head(susp[m])
               rest == Tail(susp[m])
    <2>1. /\ owner' = [owner EXCEPT ![m] = u]
          /\ mprio' = [mprio EXCEPT ![m] = FirstPrio(rest, curr)]
          /\ taken' = [taken EXCEPT ![t] = @ \ {m}, ![u] = @ \cup {m}]
          /\ susp' = [susp EXCEPT ![m] = rest]
          /\ stat' = [stat EXCEPT ![u] = "ready"]
          /\ pending' = [pending EXCEPT ![u] = None]
          /\ hold' = hold /\ ceiling' = ceiling /\ error' = error /\ call' = call
          /\ stat[t] = "ready" /\ call[t] = None /\ owner[m] = t /\ hold[m] = 1
        BY <1>3 DEF Release
    <2>2. /\ rest \in Seq(Threads) /\ Distinct(rest) /\ u \in Threads /\ On(susp[m], u)
          /\ \A x : On(rest, x) <=> On(susp[m], x) /\ x # u
        BY <1>0, <1>3, TailFacts
    <2> HIDE DEF u, rest
    <2>3. stat[u] = "suspended" /\ pending[u] = m /\ u # t
        BY <1>0, <2>1, <2>2 DEF ListsRight
    <2>4. /\ call[u] = m /\ error[u] = "EOK"
          /\ \A x \in Threads \ {u} : stat'[x] = stat[x] /\ pending'[x] = pending[x]
          /\ stat'[u] = "ready" /\ pending'[u] = None
          /\ \A x \in Threads : call'[x] = call[x] /\ error'[x] = error[x]
          /\ owner'[m] = u /\ \A n \in Mutexes \ {m} : owner'[n] = owner[n]
        BY <1>0, <2>1, <2>2, <2>3 DEF CallsRight, Types
    <2>5. OtherTypes'
        BY <1>0, <2>1, <2>2 DEF OtherTypes, Types
    <2>6. mprio' \in [Mutexes -> Prios \cup {NoPrio}]
        <3>1. FirstPrio(rest, curr) \in Prios \cup {NoPrio}
            BY <2>2, FirstPrioType DEF Types
        <3> QED
            BY <2>1, <3>1 DEF Types
    <2>7. OwnersRight'
        <3>1. \A x \in Threads : /\ m \in taken'[x] <=> x = u
                                 /\ \A n \in Mutexes \ {m} : n \in taken'[x] <=> n \in taken[x]
            BY <1>0, <2>1, <2>2, <2>3 DEF Types, OwnersRight
        <3> SUFFICES ASSUME NEW n \in live
                     PROVE  /\ owner'[n] = None <=> hold'[n] = 0
                            /\ \A x \in Threads : owner'[n] = x <=> n \in taken'[x]
            BY DEF OwnersRight
        <3>2. CASE n = m
            <4>1. u # None /\ hold'[m] = 1 /\ owner'[m] = u
                BY <2>1, <2>2, <2>4, MutexAssumption
            <4> QED
                BY <2>2, <3>1, <3>2, <4>1
        <3>3. CASE n # m
            <4>1. n \in Mutexes \ {m} /\ owner'[n] = owner[n] /\ hold'[n] = hold[n]
                BY <2>1, <2>4, <3>3 DEF Types
            <4> QED
                BY <3>1, <4>1 DEF OwnersRight
        <3> QED
            BY <3>2, <3>3
    <2>8. CallsRight'
        <3> SUFFICES ASSUME NEW x \in Threads
              PROVE  /\ stat'[x] = "suspended" =>
                            /\ pending'[x] \in live' /\ pending'[x] = call'[x]
                            /\ error'[x] = "EOK"
                            /\ owner'[pending'[x]] \in Threads /\ owner'[pending'[x]] # x
                     /\ pending'[x] # None => /\ pending'[x] = call'[x]
                                              /\ stat'[x] = "ready" => error'[x] # "EOK"
                     /\ stat'[x] = "ready" /\ call'[x] # None /\ error'[x] # "EOK" =>
                            pending'[x] = call'[x]
                     /\ stat'[x] = "closed" => call'[x] = None
            BY DEF CallsRight
        <3>0. live \subseteq Mutexes
            BY DEF Types
        <3>1. CASE x = u
            BY <2>4, <3>1
        <3>2. CASE x # u
            <4>2. /\ stat'[x] = stat[x] /\ pending'[x] = pending[x]
                  /\ call'[x] = call[x] /\ error'[x] = error[x]
                BY <2>4, <3>2
            <4>3. stat[x] = "suspended" =>
                      owner'[pending[x]] \in Threads /\ owner'[pending[x]] # x
                <5>1. CASE pending[x] = m
                    BY <2>2, <2>4, <3>2, <5>1
                <5>2. CASE pending[x] # m
                    BY <2>4, <3>0, <5>2 DEF CallsRight
                <5> QED
                    BY <5>1, <5>2
            <4> QED
                BY <4>2, <4>3 DEF CallsRight
        <3> QED
            BY <3>1, <3>2
    <2>9. ResultsRight'
        <3> SUFFICES ASSUME NEW x \in Threads, call'[x] # None, stat'[x] = "ready"
                     PROVE  error'[x] = "EOK" <=> owner'[call'[x]] = x
            BY DEF ResultsRight
        <3>1. call[x] \in Mutexes
            BY <2>4 DEF Types
        <3>2. CASE x = u
            BY <2>4, <3>2
        <3>3. CASE x # u
            BY <2>1, <2>4, <3>1, <3>3 DEF ResultsRight
        <3> QED
            BY <3>2, <3>3
    <2>10. ListsRight(susp', stat', pending')
        <3>1. susp' \in [Mutexes -> Seq(Threads)]
            BY <2>1, <2>2 DEF ListsRight
        <3>2. susp'[m] = rest /\ \A n \in Mutexes \ {m} : susp'[n] = susp[n]
            BY <1>0, <2>1 DEF ListsRight
        <3>3. ASSUME NEW n \in Mutexes
              PROVE  /\ Distinct(susp'[n])
                     /\ \A x \in Threads : On(susp'[n], x) <=> stat'[x] = "suspended" /\ pending'[x] = n
            <4>1. CASE n = m
                BY <2>2, <2>3, <2>4, <3>2, <4>1 DEF ListsRight
            <4>2. CASE n # m
                BY <2>2, <2>3, <2>4, <3>2, <4>2, MutexAssumption, SMTT(30) DEF ListsRight
            <4> QED
                BY <4>1, <4>2
        <3> QED
            BY <3>1, <3>3 DEF ListsRight
    <2>11. Types'
        BY <1>1, <2>5, <2>6, AllTypes
    <2> QED
        BY <2>7, <2>8, <2>9, <2>10, <2>11
<1> QED
    BY <1>2, <1>3

LEMMA DetachKeeps ==
    ASSUME MInv, NEW m \in live, Detach(m)
    PROVE  MInv'
<1> USE DEF MInv
<1>0. m \in Mutexes /\ susp[m] \in Seq(Threads)
    BY DEF Types, ListsRight
<1>1. \A x \in Threads : Contains(susp[m], x) <=> stat[x] = "suspended" /\ pending[x] = m
    BY <1>0, SameWords DEF ListsRight
<1>2. /\ owner' = owner /\ hold' = hold /\ mprio' = mprio /\ ceiling' = ceiling
      /\ pending' = pending /\ call' = call /\ live' = live \ {m}
      /\ susp' = [susp EXCEPT ![m] = <<>>]
    BY DEF Detach
<1>3. \A x \in Threads :
          IF stat[x] = "suspended" /\ pending[x] = m
          THEN stat'[x] = "ready" /\ error'[x] = "ERROR"
          ELSE stat'[x] = stat[x] /\ error'[x] = error[x]
    BY <1>1 DEF Detach
<1>4. stat' \in [Threads -> {"ready", "suspended", "closed"}]
      /\ error' \in [Threads -> {"EOK", "ETIMEOUT", "ERROR"}]
    BY DEF Detach, Types
<1>5. curr' \in [Threads -> Prios]
    <2>1. owner[m] # None => owner[m] \in Threads /\ PrioAfterRelease(owner[m], m) \in Prios
        BY <1>0, PrioAfterReleaseType DEF Types
    <2>2. \/ curr' = curr
          \/ owner[m] # None /\ curr' = [curr EXCEPT ![owner[m]] = PrioAfterRelease(owner[m], m)]
        BY DEF Detach
    <2> QED
        BY <2>1, <2>2 DEF Types
<1>6. taken' \in [Threads -> SUBSET Mutexes]
      /\ \A x \in Threads : \A n \in Mutexes \ {m} : n \in taken'[x] <=> n \in taken[x]
    <2>1. \/ taken' = taken
          \/ owner[m] # None /\ taken' = [taken EXCEPT ![owner[m]] = @ \ {m}]
        BY DEF Detach
    <2> QED
        BY <2>1 DEF Types
<1>7. OtherTypes'
    BY <1>2, <1>4, <1>6 DEF OtherTypes, Types
<1>8. Types'
    BY <1>2, <1>5, <1>7, AllTypes DEF Types
<1>9. OwnersRight'
    BY <1>2, <1>6 DEF OwnersRight, Types
<1>10. CallsRight'
    BY <1>2, <1>3, MutexAssumption DEF CallsRight, Types
<1>11. ResultsRight'
    BY <1>2, <1>3, MutexAssumption DEF CallsRight, ResultsRight, Types
<1>12. ListsRight(susp', stat', pending')
    <2>1. susp' \in [Mutexes -> Seq(Threads)]
        <3>1. <<>> \in Seq(Threads) /\ susp \in [Mutexes -> Seq(Threads)]
            BY DEF ListsRight
        <3> QED
            BY <1>2, <3>1
    <2>2. susp'[m] = <<>> /\ \A n \in Mutexes \ {m} : susp'[n] = susp[n]
        BY <1>0, <1>2 DEF ListsRight
    <2>3. Distinct(<<>>) /\ \A x : ~On(<<>>, x)
        BY DEF Distinct, On
    <2>4. ASSUME NEW n \in Mutexes
          PROVE  /\ Distinct(susp'[n])
                 /\ \A x \in Threads : On(susp'[n], x) <=> stat'[x] = "suspended" /\ pending'[x] = n
        <3>1. CASE n = m
            BY <1>2, <1>3, <2>2, <2>3, <3>1
        <3>2. CASE n # m
            BY <1>2, <1>3, <2>2, <3>2 DEF ListsRight
        <3> QED
            BY <3>1, <3>2
    <2> QED
        BY <2>1, <2>4 DEF ListsRight
<1> QED
    BY <1>8, <1>9, <1>10, <1>11, <1>12

LEMMA MInvNext == MInv /\ [Next]_vars => MInv'
<1> SUFFICES ASSUME MInv, [Next]_vars PROVE MInv'
    OBVIOUS
<1>1. ASSUME Plain, Same PROVE MInv'
    <2>1. ASSUME NEW t \in Threads, NEW m \in live,
                 \/ TakeFree(t, m) \/ TakeAgain(t, m)
                 \/ TakeBlock(t, m) \/ ReleaseNested(t, m) \/ Release(t, m)
          PROVE  MInv'
        BY <1>1, <2>1, TakeFreeKeeps, TakeAgainKeeps, TakeBlockKeeps,
           ReleaseNestedKeeps, ReleaseKeeps, Zenon
    <2>2. ASSUME NEW t \in Threads, TakeDone(t) \/ TakeFailed(t)
          PROVE  MInv'
        BY <1>1, <2>2, TakeDoneKeeps, TakeFailedKeeps, Zenon
    <2> QED
        BY <1>1, <2>1, <2>2, Zenon DEF Plain
<1>2. ASSUME Lasting, Same PROVE MInv'
    <2>1. ASSUME NEW t \in Threads, Timeout(t) \/ Exit(t) \/ DeleteThread(t)
          PROVE  MInv'
        BY <1>2, <2>1, TimeoutKeeps, ExitKeeps, DeleteThreadKeeps, Zenon
    <2>2. ASSUME NEW m \in live, NEW p \in Ceilings, SetPrioCeiling(m, p)
          PROVE  MInv'
        BY <1>2, <2>2, SetPrioCeilingKeeps, Zenon
    <2> QED
        BY <1>2, <2>1, <2>2, Zenon DEF Lasting
<1>3. ASSUME NEW t \in Threads, NEW p \in NewPrios, ChangePriority(t, p)
      PROVE  MInv'
    BY <1>3, ChangePriorityKeeps, Zenon
<1>4. ASSUME NEW m \in live, Detach(m)
      PROVE  MInv'
    BY <1>4, DetachKeeps, Zenon
<1>5. CASE UNCHANGED vars
    BY <1>5 DEF vars, MInv, Types, OwnersRight, CallsRight, ResultsRight
<1>6. CASE Next
    BY <1>1, <1>2, <1>3, <1>4, <1>6 DEF Next, Same
<1> QED
    BY <1>5, <1>6

\* Every reachable state of the mutex satisfies the invariant.
THEOREM InvariantHolds == Spec => []MInv
BY MInvInit, MInvNext, PTL DEF Spec

-----------------------------------------------------------------------------
(* The properties *)

History == plain \in BOOLEAN /\ changes \in 0..MaxChanges

LEMMA HistoryHolds == Spec => []History
<1>1. Init => History
    BY MutexAssumption DEF Init, History
<1>2. History /\ [Next]_vars => History'
    <2> SUFFICES ASSUME History, [Next]_vars PROVE History'
        OBVIOUS
    <2>1. CASE UNCHANGED vars
        BY <2>1 DEF vars, History
    <2>2. CASE Next
        <3>1. \/ plain' = plain /\ changes' = changes
              \/ plain' = FALSE /\ changes' = changes
              \/ plain' = FALSE /\ changes' = changes + 1 /\ changes < MaxChanges
            BY <2>2, Zenon DEF Next, ChangePriority, Detach
        <3>2. plain' \in BOOLEAN
            BY <3>1, Zenon DEF History
        <3>3. changes' \in 0..MaxChanges
            <4>1. changes \in 0..MaxChanges /\ MaxChanges \in Nat
                BY MutexAssumption DEF History
            <4>2. \/ changes' = changes
                  \/ changes' = changes + 1 /\ changes < MaxChanges
                BY <3>1, Zenon
            <4> QED
                BY <4>1, <4>2
        <3> QED
            BY <3>2, <3>3, Zenon DEF History
    <2> QED
        BY <2>1, <2>2
<1> QED
    BY <1>1, <1>2, PTL DEF Spec

\* Nested takes stay within RT_MUTEX_HOLD_MAX and every priority a chain of
\* owners computes (_thread_update_priority, _thread_get_mutex_priority) is a
\* priority, however long the chain.
THEOREM TypeCorrect == Spec => []TypeOK
<1>1. MInv /\ History => TypeOK
    BY DEF MInv, History, Types, ListsRight, Prios, TypeOK
<1> QED
    BY <1>1, InvariantHolds, HistoryHolds, PTL

\* rt_mutex_take, rt_mutex_release, _thread_timeout, rt_mutex_detach and
\* _thread_detach_from_mutex: a mutex in use has an owner exactly while it is
\* held, is on its owner's taken_object_list and on no other, and no thread
\* waits for a mutex that is free or detached.
THEOREM OwnershipStays == Spec => []OwnershipConsistent
<1>1. MInv => OwnershipConsistent
    <2> SUFFICES ASSUME MInv, NEW m \in Mutexes
                 PROVE  /\ m \in live =>
                              /\ (owner[m] = None) = (hold[m] = 0)
                              /\ \A t \in Threads : (owner[m] = t) = (m \in taken[t])
                        /\ owner[m] = None \/ m \notin live => susp[m] = <<>>
        BY DEF OwnershipConsistent
    <2>1. m \in live => /\ (owner[m] = None) = (hold[m] = 0)
                        /\ \A t \in Threads : (owner[m] = t) = (m \in taken[t])
        BY DEF MInv, OwnersRight
    <2>2. ASSUME owner[m] = None \/ m \notin live
          PROVE  susp[m] = <<>>
        <3>1. \A x \in Threads : ~On(susp[m], x)
            BY <2>2, MutexAssumption DEF MInv, ListsRight, CallsRight
        <3>2. susp[m] \in Seq(Threads)
            BY DEF MInv, ListsRight
        <3>3. \A x : ~On(susp[m], x)
            BY <3>1, <3>2, OnType
        <3> QED
            BY <3>2, <3>3, NothingOnEmpty
    <2> QED
        BY <2>1, <2>2
<1> QED
    BY <1>1, InvariantHolds, PTL

\* The loop of _thread_update_priority, which takes waiting threads out of the
\* suspend lists and puts them back: no thread is ever lost from a list or in
\* it twice, and a thread is in a list exactly while it is suspended in a take
\* of that mutex.
THEOREM ListsStayExact == Spec => []SuspendListsExact
<1>1. MInv => SuspendListsExact
    <2> SUFFICES ASSUME MInv, NEW m \in Mutexes
                 PROVE  /\ IsInjective(susp[m])
                        /\ \A t \in Threads :
                             Contains(susp[m], t) = (stat[t] = "suspended" /\ pending[t] = m)
        BY DEF SuspendListsExact
    <2>1. susp[m] \in Seq(Threads) /\ Distinct(susp[m])
          /\ \A x \in Threads : On(susp[m], x) <=> stat[x] = "suspended" /\ pending[x] = m
        BY DEF MInv, ListsRight
    <2>2. IsInjective(susp[m]) /\ \A x : Contains(susp[m], x) <=> On(susp[m], x)
        BY <2>1, SameWords
    <2>3. \A t \in Threads : Contains(susp[m], t) \in BOOLEAN
        BY DEF Contains
    <2> QED
        BY <2>1, <2>2, <2>3
<1> QED
    BY <1>1, InvariantHolds, PTL

\* The assertions of _rt_mutex_take, "get mutex successfully:
\* assert(mutex->owner == thread)" and its counterpart for a take that failed:
\* a take returns RT_EOK exactly if its thread owns the mutex, though a
\* timeout, a hand-over, a deletion or a detach came between the wake-up of the
\* thread and its return.
THEOREM TakeResultsRight == Spec => []TakeResultRight
<1>1. MInv => TakeResultRight
    BY DEF MInv, ResultsRight, TakeResultRight
<1> QED
    BY <1>1, InvariantHolds, PTL

-----------------------------------------------------------------------------
(* No priority inversion, as long as priorities are not changed from outside *)

InOrder == Ordered(curr, susp, mprio, None) /\ Lent(curr, mprio, taken)

\* Of InOrder after a step; the lists and the priorities are right then, and
\* the mutexes are in use.
OrderPre == MInv /\ MInv' /\ InOrder /\ live = Mutexes /\ live' = Mutexes

LEMMA OrderPreFacts ==
    ASSUME OrderPre
    PROVE  /\ Types /\ OwnersRight /\ CallsRight /\ ListsRight(susp, stat, pending)
           /\ Ordered(curr, susp, mprio, None) /\ Lent(curr, mprio, taken)
           /\ OtherTypes' /\ ChainPre /\ AllOwned
           /\ curr \in [Threads -> Prios] /\ mprio \in [Mutexes -> Prios \cup {NoPrio}]
           /\ susp \in [Mutexes -> Seq(Threads)] /\ taken \in [Threads -> SUBSET Mutexes]
<1>1. OtherTypes' /\ OwnersRight' /\ CallsRight'
    BY DEF OrderPre, MInv, Types, OtherTypes
<1>2. ChainPre
    BY <1>1, BeforeChain
<1>3. AllOwned
    BY <1>1 DEF OrderPre, AllOwned, OwnersRight
<1> QED
    BY <1>1, <1>2, <1>3 DEF OrderPre, MInv, InOrder, Types, ListsRight

\* Another priority of t disturbs at most the place of t.
LEMMA OrderedBut ==
    ASSUME NEW cu \in [Threads -> Prios], NEW cv \in [Threads -> Prios],
           NEW su \in [Mutexes -> Seq(Threads)], NEW mp, NEW t \in Threads,
           \A x \in Threads \ {t} : cv[x] = cu[x], Ordered(cu, su, mp, None)
    PROVE  /\ Ordered(cv, su, mp, t)
           /\ (\A m \in Mutexes : ~On(su[m], t)) => Ordered(cv, su, mp, None)
<1>1. ASSUME NEW m \in Mutexes
      PROVE  /\ SortedBut(su[m], t, cv)
             /\ \A x \in Threads : On(su[m], x) /\ x # t => mp[m] <= cv[x]
             /\ ~On(su[m], t) => SortedBut(su[m], None, cv)
    <2>1. su[m] \in Seq(Threads) /\ SortedBut(su[m], None, cu)
          /\ \A x \in Threads : On(su[m], x) /\ x # None => mp[m] <= cu[x]
        BY DEF Ordered
    <2>2. ~On(su[m], None)
        BY <2>1, OnType, MutexAssumption
    <2>3. Sorted(su[m], cu)
        BY <2>1, <2>2, SortedWithout
    <2>4. SortedBut(su[m], t, cu)
        BY <2>1, <2>3, SortedWithout
    <2>5. SortedBut(su[m], t, cv)
        BY <2>1, <2>4, SortedElsewhere
    <2>6. ~On(su[m], t) => SortedBut(su[m], None, cv)
        BY <2>1, <2>5, SortedWithout
    <2> QED
        BY <2>1, <2>5, <2>6, MutexAssumption
<1> QED
    BY <1>1 DEF Ordered

LEMMA OrderedSorted ==
    ASSUME NEW cu, NEW su \in [Mutexes -> Seq(Threads)], NEW mp
    PROVE  Ordered(cu, su, mp, None) <=>
               \A m \in Mutexes : /\ Sorted(su[m], cu)
                                  /\ \A x \in Threads : On(su[m], x) => mp[m] <= cu[x]
<1>1. ASSUME NEW m \in Mutexes
      PROVE  Sorted(su[m], cu) <=> SortedBut(su[m], None, cu)
    <2>1. su[m] \in Seq(Threads)
        OBVIOUS
    <2>2. ~On(su[m], None)
        BY <2>1, OnType, MutexAssumption
    <2> QED
        BY <2>1, <2>2, SortedWithout
<1> QED
    BY <1>1, MutexAssumption DEF Ordered

\* One list changes, and perhaps the priority of its mutex.
LEMMA OrderedOneList ==
    ASSUME NEW cu, NEW su \in [Mutexes -> Seq(Threads)], NEW sv \in [Mutexes -> Seq(Threads)],
           NEW mp, NEW mq, NEW m \in Mutexes,
           \A n \in Mutexes \ {m} : sv[n] = su[n] /\ mq[n] = mp[n],
           Ordered(cu, su, mp, None), Sorted(sv[m], cu),
           \A x \in Threads : On(sv[m], x) => mq[m] <= cu[x]
    PROVE  Ordered(cu, sv, mq, None)
<1>1. \A n \in Mutexes : /\ Sorted(su[n], cu)
                         /\ \A x \in Threads : On(su[n], x) => mp[n] <= cu[x]
    BY OrderedSorted
<1>2. ASSUME NEW n \in Mutexes
      PROVE  Sorted(sv[n], cu) /\ \A x \in Threads : On(sv[n], x) => mq[n] <= cu[x]
    <2>1. CASE n = m
        BY <2>1
    <2>2. CASE n # m
        <3>1. sv[n] = su[n] /\ mq[n] = mp[n]
            BY <2>2
        <3> QED
            BY <1>1, <3>1
    <2> QED
        BY <2>1, <2>2
<1> QED
    BY <1>2, OrderedSorted

LEMMA ListOrdered ==
    ASSUME OrderPre, NEW m \in Mutexes
    PROVE  /\ susp[m] \in Seq(Threads) /\ Distinct(susp[m]) /\ Sorted(susp[m], curr)
           /\ \A x \in Threads : On(susp[m], x) => mprio[m] <= curr[x]
<1>1. susp \in [Mutexes -> Seq(Threads)] /\ Ordered(curr, susp, mprio, None) /\ Distinct(susp[m])
    BY OrderPreFacts DEF ListsRight
<1> QED
    BY <1>1, OrderedSorted

\* A thread that runs is in no list.
LEMMA ReadyNotListed ==
    ASSUME OrderPre, NEW t \in Threads, stat[t] = "ready"
    PROVE  \A m \in Mutexes : ~On(susp[m], t)
BY OrderPreFacts DEF ListsRight

LEMMA TakeFreeOrders ==
    ASSUME OrderPre, NEW t \in Threads, NEW m \in live, TakeFree(t, m)
    PROVE  InOrder'
<1>0. m \in Mutexes /\ owner[m] = None /\ stat[t] = "ready"
    BY DEF OrderPre, TakeFree
<1>1. \A x : ~On(susp[m], x)
    <2>1. \A x \in Threads : ~On(susp[m], x)
        BY <1>0, OrderPreFacts, MutexAssumption DEF ListsRight, CallsRight
    <2> QED
        BY <1>0, <2>1, OrderPreFacts, OnType
<1>2. /\ curr' = [curr EXCEPT ![t] = Min({curr[t], ceiling[m]})]
      /\ mprio' = [mprio EXCEPT ![m] = NoPrio] /\ susp' = susp
      /\ taken' = [taken EXCEPT ![t] = @ \cup {m}]
    BY DEF TakeFree
<1>3. curr' \in [Threads -> Prios] /\ curr'[t] <= curr[t]
    <2>1. curr' \in [Threads -> Prios]
        BY DEF OrderPre, MInv, Types
    <2> DEFINE I == {curr[t], ceiling[m]}
    <2>2. I \in SUBSET Nat /\ I # {} /\ curr[t] \in I
        BY <1>0, OrderPreFacts, PriosAreNaturals DEF Types
    <2>3. curr'[t] = Min(I)
        BY <1>2, OrderPreFacts
    <2> HIDE DEF I
    <2>4. Min(I) <= curr[t]
        BY <2>2, MinOfNaturals
    <2> QED
        BY <2>1, <2>3, <2>4
<1>4. Ordered(curr', susp, mprio, None)
    <2>1. curr \in [Threads -> Prios] /\ susp \in [Mutexes -> Seq(Threads)]
          /\ Ordered(curr, susp, mprio, None)
        BY OrderPreFacts
    <2>2. \A x \in Threads \ {t} : curr'[x] = curr[x]
        BY <1>2, <2>1
    <2>3. \A n \in Mutexes : ~On(susp[n], t)
        BY <1>0, ReadyNotListed
    <2> QED
        BY <1>3, <2>1, <2>2, <2>3, OrderedBut
<1>5. Ordered(curr', susp', mprio', None)
    <2>1. Sorted(susp[m], curr')
        BY <1>0, <1>4, OrderPreFacts, OrderedSorted
    <2>2. \A n \in Mutexes \ {m} : mprio'[n] = mprio[n]
        BY <1>2, OrderPreFacts
    <2> QED
        BY <1>0, <1>1, <1>2, <1>4, <2>1, <2>2, OrderPreFacts, OrderedOneList
<1>6. Lent(curr', mprio', taken')
    <2> SUFFICES ASSUME NEW x \in Threads, NEW n \in taken'[x]
                 PROVE  curr'[x] <= mprio'[n]
        BY DEF Lent
    <2>0. n = m \/ (n \in taken[x] /\ n \in Mutexes \ {m} /\ mprio'[n] = mprio[n])
        BY <1>2, OrderPreFacts
    <2>1. CASE n = m
        <3>1. mprio'[n] = NoPrio /\ curr'[x] \in Prios
            BY <1>0, <1>2, <1>3, <2>1, OrderPreFacts
        <3> QED
            BY <3>1, PrioOrder
    <2>2. CASE n # m
        <3>1. curr[x] <= mprio[n] /\ curr[x] \in Nat /\ mprio[n] \in Nat /\ curr'[x] \in Nat
            BY <1>3, <2>0, <2>2, OrderPreFacts, PriosAreNaturals DEF Lent
        <3>2. curr'[x] <= curr[x]
            BY <1>2, <1>3, <3>1, OrderPreFacts
        <3> QED
            BY <2>0, <2>2, <3>1, <3>2
    <2> QED
        BY <2>1, <2>2
<1> QED
    BY <1>5, <1>6 DEF InOrder

LEMMA TimeoutOrders ==
    ASSUME OrderPre, NEW t \in Threads, Timeout(t)
    PROVE  InOrder'
<1> DEFINE m == pending[t]
           e == RemoveFirst(susp[m], t)
<1>0. m \in Mutexes /\ curr' = curr /\ mprio' = mprio /\ taken' = taken
      /\ susp' = [susp EXCEPT ![m] = e]
    BY OrderPreFacts DEF Timeout, CallsRight, Types
<1> HIDE DEF m
<1>1. susp[m] \in Seq(Threads) /\ Distinct(susp[m]) /\ Sorted(susp[m], curr)
      /\ \A x \in Threads : On(susp[m], x) => mprio[m] <= curr[x]
    BY <1>0, ListOrdered
<1>2. e \in Seq(Threads) /\ \A x : On(e, x) => On(susp[m], x)
    BY <1>1, RemoveFacts
<1>3. Sorted(e, curr)
    BY <1>1, SortedWithout, RemoveSorted
<1> HIDE DEF e
<1>4. susp' \in [Mutexes -> Seq(Threads)] /\ susp'[m] = e
      /\ \A n \in Mutexes \ {m} : susp'[n] = susp[n]
    BY <1>0, <1>2, OrderPreFacts
<1>5. \A x \in Threads : On(susp'[m], x) => mprio[m] <= curr[x]
    BY <1>1, <1>2, <1>4
<1>6. Ordered(curr, susp', mprio, None)
    BY <1>0, <1>3, <1>4, <1>5, OrderPreFacts, OrderedOneList
<1> QED
    BY <1>0, <1>6, OrderPreFacts DEF InOrder

LEMMA UnchangedOrders ==
    ASSUME OrderPre, UNCHANGED <<curr, susp, mprio, taken>>
    PROVE  InOrder'
BY DEF OrderPre, InOrder

\* A thread's priority is changed and the change runs along the chain.
LEMMA ChainOrders ==
    ASSUME OrderPre, NEW o \in Threads, NEW p \in Prios, NEW list, NEW mp,
           mp \in [Mutexes -> Prios \cup {NoPrio}], ListsRight(list, stat', pending'),
           UpdatePriority(o, p, list, mp), Ordered(curr, list, mp, None),
           \A n \in taken'[o] : p <= mp[n],
           \A x \in Threads \ {o} : \A n \in taken'[x] : curr[x] <= mp[n]
    PROVE  InOrder'
<1> DEFINE cv == [curr EXCEPT ![o] = p]
<1>1. curr \in [Threads -> Prios] /\ ChainPre /\ AllOwned
    BY OrderPreFacts
<1>2. cv \in [Threads -> Prios] /\ cv[o] = p /\ \A x \in Threads \ {o} : cv[x] = curr[x]
    BY <1>1
<1>3. list \in [Mutexes -> Seq(Threads)]
    BY DEF ListsRight
<1>4. Ordered(cv, list, mp, o)
    BY <1>1, <1>2, <1>3, OrderedBut
<1>5. Lent(cv, mp, taken')
    BY <1>2 DEF Lent
<1>6. Ordered(curr', susp', mprio', None) /\ Lent(curr', mprio', taken')
    BY <1>1, <1>4, <1>5, UpdatePriorityOrders
<1> QED
    BY <1>6 DEF InOrder

LEMMA TakeBlockOrders ==
    ASSUME OrderPre, NEW t \in Threads, NEW m \in live, TakeBlock(t, m)
    PROVE  InOrder'
<1> DEFINE e == Enqueue(susp[m], t, curr)
           list == [susp EXCEPT ![m] = e]
           first == curr[t] < mprio[m]
           mp == IF first THEN [mprio EXCEPT ![m] = curr[t]] ELSE mprio
           o == owner[m]
<1>0. /\ m \in Mutexes /\ stat[t] = "ready" /\ taken' = taken
      /\ o \in Threads /\ o # t
    BY OrderPreFacts DEF OrderPre, TakeBlock, Types
<1>1. IF first /\ curr[t] < curr[o]
      THEN UpdatePriority(o, curr[t], list, mp)
      ELSE susp' = list /\ mprio' = mp /\ curr' = curr
    BY DEF TakeBlock
<1>2. curr \in [Threads -> Prios] /\ mprio \in [Mutexes -> Prios \cup {NoPrio}]
      /\ curr[t] \in Prios /\ curr[o] \in Prios /\ mprio[m] \in Prios \cup {NoPrio}
      /\ susp \in [Mutexes -> Seq(Threads)]
    BY <1>0, OrderPreFacts
<1>3. curr[t] \in Nat /\ curr[o] \in Nat /\ mprio[m] \in Nat
    BY <1>2, PriosAreNaturals
<1>4. e \in Seq(Threads) /\ Sorted(e, curr)
      /\ \A x : On(e, x) <=> On(susp[m], x) \/ x = t
    BY <1>0, <1>2, ListOrdered, EnqueueFacts, EnqueueSorted
<1>5. ListsRight(list, stat', pending')
    <2>1. /\ ListsRight(susp, stat, pending) /\ stat[t] # "suspended"
          /\ stat'[t] = "suspended" /\ pending'[t] = m
          /\ \A x \in Threads \ {t} : stat'[x] = stat[x] /\ pending'[x] = pending[x]
        BY <1>0, OrderPreFacts DEF TakeBlock, Types
    <2> QED
        BY <1>0, <2>1, EnqueueRight
<1>6. list \in [Mutexes -> Seq(Threads)] /\ list[m] = e
      /\ \A n \in Mutexes \ {m} : list[n] = susp[n]
    BY <1>0, <1>2, <1>4
<1>7. mp \in [Mutexes -> Prios \cup {NoPrio}] /\ (mp[m] = IF first THEN curr[t] ELSE mprio[m])
      /\ \A n \in Mutexes \ {m} : mp[n] = mprio[n]
    BY <1>0, <1>2
<1>8. mp[m] <= mprio[m] /\ mp[m] <= curr[t]
    BY <1>3, <1>7
<1> HIDE DEF list, mp, e
<1>9. Ordered(curr, list, mp, None)
    <2>1. ASSUME NEW x \in Threads, On(list[m], x)
          PROVE  mp[m] <= curr[x]
        <3>1. CASE x = t
            BY <1>8, <3>1
        <3>2. CASE x # t
            <4>1. mprio[m] <= curr[x] /\ curr[x] \in Nat
                BY <1>0, <1>2, <1>4, <1>6, <2>1, <3>2, ListOrdered, PriosAreNaturals
            <4>2. mp[m] \in Nat
                BY <1>3, <1>7
            <4> QED
                BY <1>3, <1>8, <4>1, <4>2
        <3> QED
            BY <3>1, <3>2
    <2>2. \A n \in Mutexes \ {m} : list[n] = susp[n] /\ mp[n] = mprio[n]
        BY <1>6, <1>7
    <2>3. Sorted(list[m], curr) /\ Ordered(curr, susp, mprio, None)
        BY <1>4, <1>6, OrderPreFacts
    <2> QED
        BY <1>0, <1>2, <1>6, <2>1, <2>2, <2>3, OrderedOneList
<1>10. \A x \in Threads : \A n \in taken[x] : n \in Mutexes /\ (n = m => x = o) /\ curr[x] <= mprio[n]
    BY <1>0, OrderPreFacts DEF OwnersRight, Lent
<1>11. CASE first /\ curr[t] < curr[o]
    <2>1. UpdatePriority(o, curr[t], list, mp) /\ mp[m] = curr[t]
        BY <1>1, <1>7, <1>11
    <2>2. ASSUME NEW n \in taken[o] PROVE curr[t] <= mp[n]
        <3>1. CASE n = m
            BY <1>3, <2>1, <3>1
        <3>2. CASE n # m
            <4>1. mp[n] = mprio[n] /\ curr[o] <= mprio[n] /\ n \in Mutexes
                BY <1>0, <1>7, <1>10, <3>2
            <4>2. mprio[n] \in Nat
                BY <1>2, <4>1, PriosAreNaturals
            <4> QED
                BY <1>3, <1>11, <4>1, <4>2
        <3> QED
            BY <3>1, <3>2
    <2>3. \A x \in Threads \ {o} : \A n \in taken[x] : curr[x] <= mp[n]
        BY <1>7, <1>10
    <2>4. (\A n \in taken'[o] : curr[t] <= mp[n])
          /\ \A x \in Threads \ {o} : \A n \in taken'[x] : curr[x] <= mp[n]
        BY <1>0, <2>2, <2>3
    <2> HIDE DEF o, first
    <2> QED
        BY <1>0, <1>2, <1>5, <1>7, <1>9, <2>1, <2>4, ChainOrders
<1>12. CASE ~(first /\ curr[t] < curr[o])
    <2>1. susp' = list /\ mprio' = mp /\ curr' = curr
        BY <1>1, <1>12
    <2>2. curr[o] <= mprio[m] => curr[o] <= mp[m]
        BY <1>3, <1>7, <1>12
    <2>3. Lent(curr, mp, taken)
        BY <1>7, <1>10, <2>2 DEF Lent
    <2> QED
        BY <1>0, <1>9, <2>1, <2>3 DEF InOrder
<1> QED
    BY <1>11, <1>12

\* What is not less urgent than any thread of a list is not less urgent than
\* the first.
LEMMA FirstPrioBound ==
    ASSUME NEW s \in Seq(Threads), NEW c, NEW b \in Prios \cup {NoPrio},
           \A x \in Threads : On(s, x) => b <= c[x]
    PROVE  b <= FirstPrio(s, c)
<1>1. CASE s = <<>>
    <2>1. FirstPrio(s, c) = NoPrio
        BY <1>1 DEF FirstPrio
    <2> QED
        BY <2>1 DEF Prios, NoPrio
<1>2. CASE s # <<>>
    <2>1. Head(s) \in Threads /\ On(s, Head(s)) /\ FirstPrio(s, c) = c[Head(s)]
        BY <1>2 DEF FirstPrio, On
    <2> QED
        BY <2>1
<1> QED
    BY <1>1, <1>2

\* A waiter leaves: its mutex and its owner may become less urgent.
LEMMA LeaveOrders ==
    ASSUME OrderPre, NEW t \in Threads, NEW m \in Mutexes, NEW list,
           ListsRight(list, stat', pending'), Leave(t, m, list),
           UNCHANGED <<owner, ceiling, taken>>,
           \A n \in Mutexes \ {m} : list[n] = susp[n],
           Sorted(list[m], curr), \A x : On(list[m], x) => On(susp[m], x)
    PROVE  InOrder'
<1> DEFINE q == FirstPrio(list[m], curr)
           mp == [mprio EXCEPT ![m] = q]
           o == owner[m]
           p == MutexPriority(o, taken[o], mp, ceiling)
<1>1. IF o # None /\ curr[o] = curr[t] /\ p # curr[o]
      THEN UpdatePriority(o, p, list, mp)
      ELSE mprio' = mp /\ susp' = list /\ curr' = curr
    BY DEF Leave
<1>2. curr \in [Threads -> Prios] /\ mprio \in [Mutexes -> Prios \cup {NoPrio}]
      /\ susp \in [Mutexes -> Seq(Threads)] /\ list \in [Mutexes -> Seq(Threads)]
      /\ taken \in [Threads -> SUBSET Mutexes] /\ mprio[m] \in Prios \cup {NoPrio}
    BY OrderPreFacts DEF ListsRight
<1>3. q \in Prios \cup {NoPrio}
    BY <1>2, FirstPrioType
<1>4. mprio[m] <= q
    <2>1. \A x \in Threads : On(list[m], x) => mprio[m] <= curr[x]
        BY ListOrdered
    <2>2. list[m] \in Seq(Threads)
        BY <1>2
    <2> QED
        BY <1>2, <2>1, <2>2, FirstPrioBound
<1>5. \A x \in Threads : On(list[m], x) => q <= curr[x]
    BY <1>2, FirstIsLeast
<1>6. q \in Nat /\ mprio[m] \in Nat
    BY <1>2, <1>3, PriosAreNaturals
<1> HIDE DEF q
<1>7. mp \in [Mutexes -> Prios \cup {NoPrio}] /\ mp[m] = q
      /\ \A n \in Mutexes \ {m} : mp[n] = mprio[n]
    BY <1>2, <1>3
<1> HIDE DEF mp
<1>8. Ordered(curr, list, mp, None)
    <2>1. \A x \in Threads : On(list[m], x) => mp[m] <= curr[x]
        BY <1>5, <1>7
    <2>2. \A n \in Mutexes \ {m} : list[n] = susp[n] /\ mp[n] = mprio[n]
        BY <1>7
    <2>3. Ordered(curr, susp, mprio, None)
        BY OrderPreFacts
    <2> QED
        BY <1>2, <2>1, <2>2, <2>3, OrderedOneList
<1>9. ASSUME NEW x \in Threads, NEW n \in taken[x]
      PROVE  curr[x] <= mp[n]
    <2>1. curr[x] <= mprio[n] /\ n \in Mutexes
        BY <1>2, OrderPreFacts DEF Lent
    <2>2. curr[x] \in Nat
        BY <1>2, PriosAreNaturals
    <2>3. CASE n = m
        BY <1>4, <1>6, <1>7, <2>1, <2>2, <2>3
    <2>4. CASE n # m
        BY <1>7, <2>1, <2>4
    <2> QED
        BY <2>3, <2>4
<1>10. CASE o # None /\ curr[o] = curr[t] /\ p # curr[o]
    <2>1. UpdatePriority(o, p, list, mp) /\ o \in Threads
        BY <1>1, <1>10, OrderPreFacts DEF Types
    <2>2. ceiling \in [Mutexes -> Ceilings \cup {NoPrio}] /\ taken[o] \in SUBSET Mutexes
        BY <1>2, <2>1, OrderPreFacts DEF Types
    <2>3. p \in Prios /\ \A n \in taken[o] : p <= mp[n]
        BY <1>7, <2>1, <2>2, MutexPriorityType, MutexPriorityLeast
    <2> HIDE DEF o, p
    <2>4. (\A n \in taken'[o] : p <= mp[n])
          /\ \A x \in Threads \ {o} : \A n \in taken'[x] : curr[x] <= mp[n]
        BY <1>9, <2>3
    <2> QED
        BY <1>7, <1>8, <2>1, <2>3, <2>4, ChainOrders
<1>11. CASE ~(o # None /\ curr[o] = curr[t] /\ p # curr[o])
    <2>1. mprio' = mp /\ susp' = list /\ curr' = curr
        BY <1>1, <1>11
    <2>2. Lent(curr, mp, taken)
        BY <1>9 DEF Lent
    <2> QED
        BY <1>8, <2>1, <2>2 DEF InOrder
<1> QED
    BY <1>10, <1>11

LEMMA TakeFailedOrders ==
    ASSUME OrderPre, NEW t \in Threads, TakeFailed(t)
    PROVE  InOrder'
<1>1. /\ pending[t] \in Mutexes /\ Leave(t, pending[t], susp) /\ UNCHANGED <<owner, ceiling, taken>>
      /\ ListsRight(susp, stat', pending')
    BY OrderPreFacts DEF TakeFailed, Types, CallsRight, ListsRight
<1>2. Sorted(susp[pending[t]], curr)
    BY <1>1, ListOrdered
<1> QED
    BY <1>1, <1>2, LeaveOrders

LEMMA DeleteThreadOrders ==
    ASSUME OrderPre, NEW t \in Threads, DeleteThread(t)
    PROVE  InOrder'
<1>1. CASE pending[t] = None
    BY <1>1, UnchangedOrders DEF DeleteThread
<1>2. CASE pending[t] # None
    <2> DEFINE m == pending[t]
               e == RemoveFirst(susp[m], t)
               list == [susp EXCEPT ![m] = e]
    <2>1. m \in Mutexes /\ Leave(t, m, list) /\ UNCHANGED <<owner, ceiling, taken>>
        BY <1>2, OrderPreFacts DEF DeleteThread, Types
    <2>2. ListsRight(list, stat', pending')
        <3>1. /\ stat'[t] # "suspended" /\ ListsRight(susp, stat, pending)
              /\ \A x \in Threads \ {t} : stat'[x] = stat[x] /\ pending'[x] = pending[x]
            BY OrderPreFacts DEF DeleteThread, Types
        <3> QED
            BY <2>1, <3>1, RemoveRight
    <2> HIDE DEF m
    <2>3. susp[m] \in Seq(Threads) /\ Distinct(susp[m]) /\ Sorted(susp[m], curr)
        BY <2>1, ListOrdered
    <2>4. Sorted(e, curr) /\ \A x : On(e, x) => On(susp[m], x)
        BY <2>3, SortedWithout, RemoveSorted, RemoveFacts
    <2> HIDE DEF e
    <2>5. list[m] = e /\ \A n \in Mutexes \ {m} : list[n] = susp[n]
        BY <2>1, OrderPreFacts
    <2> HIDE DEF list
    <2> QED
        BY <2>1, <2>2, <2>4, <2>5, LeaveOrders
<1> QED
    BY <1>1, <1>2

LEMMA SetPrioCeilingOrders ==
    ASSUME OrderPre, NEW m \in live, NEW c \in Ceilings, SetPrioCeiling(m, c)
    PROVE  InOrder'
<1> DEFINE o == owner[m]
           p == MutexPriority(o, taken[o], mprio, ceiling')
<1>1. /\ IF o # None /\ p # curr[o]
         THEN UpdatePriority(o, p, susp, mprio)
         ELSE UNCHANGED <<curr, susp, mprio>>
      /\ taken' = taken /\ stat' = stat /\ pending' = pending /\ m \in Mutexes
    BY DEF SetPrioCeiling, OrderPre
<1>2. /\ ceiling' \in [Mutexes -> Ceilings \cup {NoPrio}]
      /\ mprio \in [Mutexes -> Prios \cup {NoPrio}] /\ Ordered(curr, susp, mprio, None)
      /\ taken \in [Threads -> SUBSET Mutexes] /\ Lent(curr, mprio, taken)
    BY OrderPreFacts DEF ChainPre
<1>3. ListsRight(susp, stat', pending')
    BY <1>1, OrderPreFacts
<1>4. CASE o # None /\ p # curr[o]
    <2>1. UpdatePriority(o, p, susp, mprio) /\ o \in Threads
        BY <1>1, <1>4, OrderPreFacts DEF Types
    <2>2. p \in Prios /\ \A n \in taken[o] : p <= mprio[n]
        BY <1>2, <2>1, MutexPriorityType, MutexPriorityLeast
    <2> HIDE DEF o, p
    <2>3. (\A n \in taken'[o] : p <= mprio[n])
          /\ \A x \in Threads \ {o} : \A n \in taken'[x] : curr[x] <= mprio[n]
        BY <1>1, <1>2, <2>2 DEF Lent
    <2> QED
        BY <1>2, <1>3, <2>1, <2>2, <2>3, ChainOrders
<1>5. CASE ~(o # None /\ p # curr[o])
    BY <1>1, <1>5, UnchangedOrders
<1> QED
    BY <1>4, <1>5

\* After a release a thread is still not less urgent than the mutexes it keeps.
LEMMA PrioAfterReleaseLeast ==
    ASSUME OrderPre, NEW t \in Threads, NEW m \in Mutexes, NEW n \in taken[t] \ {m}
    PROVE  PrioAfterRelease(t, m) <= mprio[n]
<1>1. /\ curr[t] <= mprio[n] /\ mprio \in [Mutexes -> Prios \cup {NoPrio}]
      /\ ceiling \in [Mutexes -> Ceilings \cup {NoPrio}] /\ taken[t] \ {m} \in SUBSET Mutexes
    BY OrderPreFacts DEF Lent, Types
<1>2. MutexPriority(t, taken[t] \ {m}, mprio, ceiling) <= mprio[n]
    BY <1>1, MutexPriorityLeast
<1> QED
    BY <1>1, <1>2 DEF PrioAfterRelease

LEMMA ReleaseOrders ==
    ASSUME OrderPre, NEW t \in Threads, NEW m \in live, Release(t, m)
    PROVE  InOrder'
<1>0. m \in Mutexes /\ owner[m] = t /\ stat[t] = "ready"
      /\ curr' = [curr EXCEPT ![t] = PrioAfterRelease(t, m)]
    BY DEF OrderPre, Release
<1>1. curr \in [Threads -> Prios] /\ mprio \in [Mutexes -> Prios \cup {NoPrio}]
      /\ susp \in [Mutexes -> Seq(Threads)] /\ taken \in [Threads -> SUBSET Mutexes]
      /\ Ordered(curr, susp, mprio, None) /\ curr' \in [Threads -> Prios]
    BY OrderPreFacts DEF OrderPre, MInv, Types
<1>2. curr'[t] = PrioAfterRelease(t, m) /\ \A x \in Threads \ {t} : curr'[x] = curr[x]
    BY <1>0, <1>1
<1>3. \A n \in Mutexes : ~On(susp[n], t)
    BY <1>0, ReadyNotListed
<1>4. Ordered(curr', susp, mprio, None)
    BY <1>1, <1>2, <1>3, OrderedBut
<1>5. Sorted(susp[m], curr')
    BY <1>0, <1>1, <1>4, OrderedSorted
<1>6. \A x \in Threads : \A n \in taken[x] \ {m} : curr'[x] <= mprio[n] /\ n \in Mutexes
    <2> SUFFICES ASSUME NEW x \in Threads, NEW n \in taken[x] \ {m}
                 PROVE  curr'[x] <= mprio[n] /\ n \in Mutexes
        OBVIOUS
    <2>1. CASE x = t
        BY <1>0, <1>1, <1>2, <2>1, PrioAfterReleaseLeast
    <2>2. CASE x # t
        BY <1>1, <1>2, <2>2, OrderPreFacts DEF Lent
    <2> QED
        BY <2>1, <2>2
<1>7. \A x \in Threads : m \in taken[x] => x = t
    BY <1>0, OrderPreFacts DEF OwnersRight
<1>8. CASE susp[m] = <<>>
    <2>1. susp' = susp /\ mprio' = [mprio EXCEPT ![m] = NoPrio]
          /\ taken' = [taken EXCEPT ![t] = @ \ {m}]
        BY <1>8 DEF Release
    <2>2. \A x : ~On(susp[m], x)
        BY <1>0, <1>1, <1>8, NothingOnEmpty
    <2>3. \A n \in Mutexes \ {m} : mprio'[n] = mprio[n]
        BY <1>1, <2>1
    <2>4. Ordered(curr', susp, mprio', None)
        <3>1. \A n \in Mutexes \ {m} : susp[n] = susp[n] /\ mprio'[n] = mprio[n]
            BY <2>3
        <3>2. \A x \in Threads : On(susp[m], x) => mprio'[m] <= curr'[x]
            BY <2>2
        <3> QED
            BY <1>0, <1>1, <1>4, <1>5, <3>1, <3>2, OrderedOneList
    <2>5. \A x \in Threads : \A n \in taken'[x] : n \in taken[x] \ {m}
        BY <1>1, <1>7, <2>1
    <2>6. Lent(curr', mprio', taken')
        BY <1>6, <2>3, <2>5 DEF Lent
    <2> QED
        BY <2>1, <2>4, <2>6 DEF InOrder
<1>9. CASE susp[m] # <<>>
    <2> DEFINE u == Head(susp[m])
               rest == Tail(susp[m])
               q == FirstPrio(rest, curr)
    <2>1. /\ mprio' = [mprio EXCEPT ![m] = q] /\ susp' = [susp EXCEPT ![m] = rest]
          /\ taken' = [taken EXCEPT ![t] = @ \ {m}, ![u] = @ \cup {m}]
        BY <1>9 DEF Release
    <2>2. susp[m] \in Seq(Threads) /\ Distinct(susp[m]) /\ Sorted(susp[m], curr)
        BY <1>0, ListOrdered
    <2>3. /\ rest \in Seq(Threads) /\ u \in Threads /\ On(susp[m], u)
          /\ \A x : On(rest, x) <=> On(susp[m], x) /\ x # u
        BY <1>9, <2>2, TailFacts
    <2>4. /\ Sorted(rest, curr) /\ Sorted(rest, curr')
          /\ \A x : On(susp[m], x) /\ x # u => curr[u] <= curr[x]
        BY <1>5, <1>9, <2>2, TailSorted
    <2>5. u # t
        BY <1>0, <1>3, <2>3
    <2>6. curr[u] <= q
        <3>1. curr[u] \in Prios \cup {NoPrio} /\ \A x \in Threads : On(rest, x) => curr[u] <= curr[x]
            BY <1>1, <2>3, <2>4
        <3> QED
            BY <2>3, <3>1, FirstPrioBound
    <2>7. \A x \in Threads : On(rest, x) => q <= curr[x]
        BY <1>1, <2>3, <2>4, FirstIsLeast
    <2> HIDE DEF u, rest, q
    <2>8. susp' \in [Mutexes -> Seq(Threads)] /\ susp'[m] = rest /\ mprio'[m] = q
          /\ \A n \in Mutexes \ {m} : susp'[n] = susp[n] /\ mprio'[n] = mprio[n]
        BY <1>0, <1>1, <2>1, <2>3
    <2>9. Ordered(curr', susp', mprio', None)
        <3>1. \A x \in Threads : On(rest, x) => x # t
            BY <1>0, <1>3, <2>3
        <3>2. \A x \in Threads : On(susp'[m], x) => mprio'[m] <= curr'[x]
            BY <1>2, <2>7, <2>8, <3>1
        <3>3. Sorted(susp'[m], curr')
            BY <2>4, <2>8
        <3>4. \A n \in Mutexes \ {m} : susp'[n] = susp[n] /\ mprio'[n] = mprio[n]
            BY <2>8
        <3>5. susp' \in [Mutexes -> Seq(Threads)]
            BY <2>8
        <3>6. m \in Mutexes /\ susp \in [Mutexes -> Seq(Threads)]
            BY <1>0, <1>1
        <3> QED
            BY <1>4, <3>2, <3>3, <3>4, <3>5, <3>6, OrderedOneList
    <2>10. \A x \in Threads : \A n \in taken'[x] :
               n \in taken[x] \ {m} \/ (n = m /\ x = u)
        BY <1>1, <1>7, <2>1, <2>3, <2>5
    <2>11. curr'[u] <= mprio'[m]
        BY <1>2, <2>3, <2>5, <2>6, <2>8
    <2>12. Lent(curr', mprio', taken')
        BY <1>6, <2>8, <2>10, <2>11 DEF Lent
    <2> QED
        BY <2>9, <2>12 DEF InOrder
<1> QED
    BY <1>8, <1>9

\* The inductive invariant behind NoInversion: until the first priority is
\* changed from outside, a mutex is not less urgent than its waiters, an owner
\* not less urgent than its mutexes, and every list is in order.
OrderInv == changes = 0 => live = Mutexes /\ InOrder

LEMMA OrderInit == Init => OrderInv
<1> SUFFICES ASSUME Init PROVE InOrder /\ live = Mutexes
    BY DEF OrderInv
<1>1. \A m \in Mutexes : susp[m] = <<>>
    BY DEF Init
<1>2. Ordered(curr, susp, mprio, None)
    BY <1>1 DEF Ordered, SortedBut, On
<1>3. Lent(curr, mprio, taken)
    BY DEF Init, Lent
<1> QED
    BY <1>2, <1>3 DEF InOrder, Init

LEMMA OrderNext == MInv /\ MInv' /\ History /\ OrderInv /\ [Next]_vars => OrderInv'
<1> SUFFICES ASSUME MInv, MInv', History, OrderInv, [Next]_vars, changes' = 0
             PROVE  live' = Mutexes /\ InOrder'
    BY DEF OrderInv
<1>1. CASE UNCHANGED vars
    BY <1>1 DEF vars, OrderInv, InOrder
<1>2. CASE Next
    <2>1. \/ Plain /\ UNCHANGED <<live, plain, changes>>
          \/ Lasting /\ UNCHANGED <<live, changes>>
          \/ changes' = changes + 1
        BY <1>2, Zenon DEF Next
    <2>2. changes \in Nat
        BY MutexAssumption DEF History
    <2>3. (Plain \/ Lasting) /\ live' = live /\ changes = 0
        BY <2>1, <2>2
    <2>4. OrderPre /\ live' = Mutexes
        BY <2>3 DEF OrderPre, OrderInv
    <2>5. ASSUME NEW t \in Threads, NEW m \in live, TakeAgain(t, m) \/ ReleaseNested(t, m)
          PROVE  InOrder'
        BY <2>4, <2>5, UnchangedOrders DEF TakeAgain, ReleaseNested
    <2>6. ASSUME NEW t \in Threads, TakeDone(t) \/ Exit(t)
          PROVE  InOrder'
        BY <2>4, <2>6, UnchangedOrders DEF TakeDone, Exit
    <2>7. CASE Plain
        BY <2>4, <2>5, <2>6, <2>7, TakeFreeOrders, TakeBlockOrders, ReleaseOrders,
           TakeFailedOrders DEF Plain
    <2>8. CASE Lasting
        BY <2>4, <2>6, <2>8, TimeoutOrders, DeleteThreadOrders, SetPrioCeilingOrders DEF Lasting
    <2> QED
        BY <2>3, <2>4, <2>7, <2>8
<1> QED
    BY <1>1, <1>2

LEMMA OrderHolds == Spec => []OrderInv
<1> QED
    BY OrderInit, OrderNext, InvariantHolds, HistoryHolds, PTL DEF Spec

\* Priority inheritance (_rt_mutex_take, _thread_update_priority,
\* _check_and_update_prio): through chains of owners of any length, nested
\* holds, timeouts, deletions and ceilings, an owner is never less urgent than
\* a thread that waits for its mutex, and the first thread of a suspend list is
\* a most urgent one, as long as no priority is changed from outside.
THEOREM NoPriorityInversion == Spec => []NoInversion
<1>1. MInv /\ OrderInv => NoInversion
    <2> SUFFICES ASSUME MInv, OrderInv, changes = 0, NEW m \in Mutexes, NEW i \in DOMAIN susp[m]
                 PROVE  /\ curr[owner[m]] <= curr[susp[m][i]]
                        /\ \A j \in DOMAIN susp[m] :
                               i < j => curr[susp[m][i]] <= curr[susp[m][j]]
        BY DEF NoInversion
    <2> DEFINE x == susp[m][i]
    <2>1. /\ susp \in [Mutexes -> Seq(Threads)] /\ Ordered(curr, susp, mprio, None)
          /\ Lent(curr, mprio, taken) /\ m \in live
        BY DEF MInv, ListsRight, OrderInv, InOrder
    <2>2. DOMAIN susp[m] = 1..Len(susp[m]) /\ susp[m] \in Seq(Threads)
        BY <2>1
    <2>3. Sorted(susp[m], curr) /\ \A y \in Threads : On(susp[m], y) => mprio[m] <= curr[y]
        BY <2>1, OrderedSorted
    <2>4. x \in Threads /\ On(susp[m], x)
        BY <2>2 DEF On
    <2>5. stat[x] = "suspended" /\ pending[x] = m
        BY <2>4 DEF MInv, ListsRight
    <2>6. owner[m] \in Threads
        BY <2>4, <2>5 DEF MInv, CallsRight
    <2>7. m \in taken[owner[m]]
        BY <2>1, <2>6 DEF MInv, OwnersRight
    <2>8. curr[owner[m]] <= mprio[m] /\ mprio[m] <= curr[x]
        BY <2>1, <2>3, <2>4, <2>6, <2>7 DEF Lent
    <2>9. curr[owner[m]] \in Nat /\ mprio[m] \in Nat /\ curr[x] \in Nat
        BY <2>4, <2>6, PriosAreNaturals DEF MInv, Types
    <2> HIDE DEF x
    <2>10. curr[owner[m]] <= curr[x]
        BY <2>8, <2>9
    <2> QED
        BY <2>2, <2>3, <2>10 DEF x, Sorted
<1> QED
    BY <1>1, InvariantHolds, OrderHolds, PTL

-----------------------------------------------------------------------------
(* Nothing more is lent, and everything lent is given back *)

\* v is what a thread is owed that holds mine, no ceilings set.
IsOwed(v, t, mine, mp) ==
    /\ v <= InitPrio[t] /\ \A m \in mine : v <= mp[m]
    /\ v = InitPrio[t] \/ \E m \in mine : v = mp[m]

NoCeilings == \A m \in Mutexes : ceiling[m] = NoPrio

LEMMA PlainPriority ==
    ASSUME NoCeilings, ceiling \in [Mutexes -> Ceilings \cup {NoPrio}],
           NEW t \in Threads, NEW mine \in SUBSET Mutexes,
           NEW mp \in [Mutexes -> Prios \cup {NoPrio}], NEW v \in Prios
    PROVE  v = MutexPriority(t, mine, mp, ceiling) <=> IsOwed(v, t, mine, mp)
<1> DEFINE I == {InitPrio[t]} \cup {mp[m] : m \in mine} \cup {ceiling[m] : m \in mine}
<1>1. MutexPriority(t, mine, mp, ceiling) = Min(I)
    BY DEF MutexPriority
<1>2. I \in SUBSET Nat /\ I # {} /\ InitPrio[t] \in I
    BY PriosAreNaturals
<1>3. \A m \in mine : mp[m] \in I
    OBVIOUS
<1>4. \A y \in I : y = InitPrio[t] \/ (\E m \in mine : y = mp[m]) \/ y = NoPrio
    BY DEF NoCeilings
<1>5. v < NoPrio /\ v \in Nat
    BY PrioOrder, PriosAreNaturals
<1> HIDE DEF I
<1>6. Min(I) \in I /\ (\A y \in I : Min(I) <= y) /\ Min(I) \in Nat
    BY <1>2, MinOfNaturals
<1>7. ASSUME v = Min(I) PROVE IsOwed(v, t, mine, mp)
    <2>1. v # NoPrio
        BY <1>5 DEF NoPrio
    <2> QED
        BY <1>2, <1>3, <1>4, <1>6, <1>7, <2>1 DEF IsOwed
<1>8. ASSUME IsOwed(v, t, mine, mp) PROVE v = Min(I)
    <2>1. v \in I
        BY <1>2, <1>3, <1>8 DEF IsOwed
    <2>2. \A y \in I : v <= y
        <3> SUFFICES ASSUME NEW y \in I PROVE v <= y
            OBVIOUS
        <3>1. CASE y = NoPrio
            BY <1>5, <3>1 DEF NoPrio
        <3>2. CASE y # NoPrio
            BY <1>4, <1>8, <3>2 DEF IsOwed
        <3> QED
            BY <3>1, <3>2
    <2>3. Min(I) <= v /\ v <= Min(I)
        BY <1>6, <2>1, <2>2
    <2> QED
        BY <1>5, <1>6, <2>3
<1> QED
    BY <1>1, <1>7, <1>8

\* What takes and releases alone keep: no ceiling, no failed take, no ended
\* thread; a mutex has exactly the priority of its first waiter and a thread
\* exactly the priority it is owed.
Undisturbed ==
    NoCeilings /\ \A t \in Threads : error[t] = "EOK" /\ stat[t] # "closed"

Exact ==
    /\ ExactBut(curr, susp, mprio, None)
    /\ \A x \in Threads : IsOwed(curr[x], x, taken[x], mprio)

ExactPre == OrderPre /\ InOrder' /\ Undisturbed /\ Exact /\ ceiling' = ceiling

LEMMA ExactPreFacts ==
    ASSUME ExactPre
    PROVE  /\ OrderPre /\ NoCeilings /\ ceiling \in [Mutexes -> Ceilings \cup {NoPrio}]
           /\ curr \in [Threads -> Prios] /\ mprio \in [Mutexes -> Prios \cup {NoPrio}]
           /\ susp \in [Mutexes -> Seq(Threads)] /\ taken \in [Threads -> SUBSET Mutexes]
           /\ \A m \in Mutexes : mprio[m] = FirstPrio(susp[m], curr)
           /\ \A x \in Threads : IsOwed(curr[x], x, taken[x], mprio)
<1>1. OrderPre
    BY DEF ExactPre
<1>2. /\ curr \in [Threads -> Prios] /\ mprio \in [Mutexes -> Prios \cup {NoPrio}]
      /\ susp \in [Mutexes -> Seq(Threads)] /\ taken \in [Threads -> SUBSET Mutexes]
      /\ ceiling \in [Mutexes -> Ceilings \cup {NoPrio}]
    BY <1>1, OrderPreFacts DEF Types
<1>3. \A m \in Mutexes : ~On(susp[m], None)
    BY <1>2, OnType, MutexAssumption
<1> QED
    BY <1>1, <1>2, <1>3 DEF ExactPre, Undisturbed, Exact, ExactBut

LEMMA UnchangedExact ==
    ASSUME ExactPre, UNCHANGED <<curr, susp, mprio, taken>>
    PROVE  Exact'
BY DEF ExactPre, Exact

LEMMA TakeFreeExact ==
    ASSUME ExactPre, NEW t \in Threads, NEW m \in live, TakeFree(t, m)
    PROVE  Exact'
<1>0. m \in Mutexes /\ owner[m] = None /\ stat[t] = "ready" /\ susp' = susp
    BY DEF ExactPre, OrderPre, TakeFree
<1>1. susp[m] = <<>>
    <2>1. \A x \in Threads : ~On(susp[m], x)
        BY <1>0, ExactPreFacts, OrderPreFacts, MutexAssumption DEF ListsRight, CallsRight
    <2>2. \A x : ~On(susp[m], x)
        BY <1>0, <2>1, ExactPreFacts, OnType
    <2> QED
        BY <1>0, <2>2, ExactPreFacts, NothingOnEmpty
<1>2. mprio[m] = NoPrio
    BY <1>0, <1>1, ExactPreFacts DEF FirstPrio
<1>3. mprio' = mprio
    BY <1>0, <1>2, ExactPreFacts DEF TakeFree
<1>4. curr' = curr
    <2>1. curr' = [curr EXCEPT ![t] = Min({curr[t], NoPrio})]
        BY <1>0, ExactPreFacts DEF TakeFree, NoCeilings
    <2>2. curr[t] < NoPrio /\ curr[t] \in Nat /\ NoPrio \in Nat
        BY ExactPreFacts, PrioOrder, PriosAreNaturals
    <2> DEFINE I == {curr[t], NoPrio}
    <2>3. I \in SUBSET Nat /\ I # {} /\ curr[t] \in I
        BY <2>2
    <2>4. Min(I) \in I /\ Min(I) <= curr[t]
        BY <2>3, MinOfNaturals
    <2>5. Min(I) = curr[t]
        BY <2>2, <2>4 DEF NoPrio
    <2> HIDE DEF I
    <2> QED
        BY <2>1, <2>5, ExactPreFacts DEF I
<1>5. ASSUME NEW x \in Threads PROVE IsOwed(curr[x], x, taken'[x], mprio)
    <2>1. IsOwed(curr[x], x, taken[x], mprio) /\ (taken'[x] = taken[x] \/ taken'[x] = taken[x] \cup {m})
        BY ExactPreFacts DEF TakeFree
    <2>2. curr[x] <= mprio[m]
        BY <1>2, ExactPreFacts, PrioOrder
    <2> QED
        BY <2>1, <2>2 DEF IsOwed
<1> QED
    BY <1>0, <1>3, <1>4, <1>5 DEF ExactPre, Exact

LEMMA TakeBlockExact ==
    ASSUME ExactPre, NEW t \in Threads, NEW m \in live, TakeBlock(t, m)
    PROVE  Exact'
<1> DEFINE e == Enqueue(susp[m], t, curr)
           list == [susp EXCEPT ![m] = e]
           first == curr[t] < mprio[m]
           mp == IF first THEN [mprio EXCEPT ![m] = curr[t]] ELSE mprio
           o == owner[m]
<1>0. /\ m \in Mutexes /\ stat[t] = "ready" /\ taken' = taken
      /\ o \in Threads /\ o # t
    BY ExactPreFacts, OrderPreFacts DEF OrderPre, TakeBlock, Types
<1>1. IF first /\ curr[t] < curr[o]
      THEN UpdatePriority(o, curr[t], list, mp)
      ELSE susp' = list /\ mprio' = mp /\ curr' = curr
    BY DEF TakeBlock
<1>2. curr \in [Threads -> Prios] /\ mprio \in [Mutexes -> Prios \cup {NoPrio}]
      /\ curr[t] \in Prios /\ curr[o] \in Prios /\ mprio[m] \in Prios \cup {NoPrio}
      /\ susp \in [Mutexes -> Seq(Threads)] /\ taken \in [Threads -> SUBSET Mutexes]
      /\ susp[m] \in Seq(Threads)
    BY <1>0, ExactPreFacts
<1>3. curr[t] \in Nat /\ curr[o] \in Nat /\ mprio[m] \in Nat
    BY <1>2, PriosAreNaturals
<1>4. mprio[m] = FirstPrio(susp[m], curr)
    BY <1>0, ExactPreFacts
<1>5. e \in Seq(Threads) /\ FirstPrio(e, curr) = IF first THEN curr[t] ELSE mprio[m]
    BY <1>2, <1>4, EnqueueFacts, EnqueueFirst
<1>6. ListsRight(list, stat', pending')
    <2>1. /\ ListsRight(susp, stat, pending) /\ stat[t] # "suspended"
          /\ stat'[t] = "suspended" /\ pending'[t] = m
          /\ \A x \in Threads \ {t} : stat'[x] = stat[x] /\ pending'[x] = pending[x]
        BY <1>0, ExactPreFacts, OrderPreFacts DEF TakeBlock, Types
    <2> QED
        BY <1>0, <2>1, EnqueueRight
<1>7. list \in [Mutexes -> Seq(Threads)] /\ list[m] = e
      /\ \A n \in Mutexes \ {m} : list[n] = susp[n]
    BY <1>0, <1>2, <1>5
<1>8. mp \in [Mutexes -> Prios \cup {NoPrio}] /\ (mp[m] = IF first THEN curr[t] ELSE mprio[m])
      /\ \A n \in Mutexes \ {m} : mp[n] = mprio[n]
    BY <1>0, <1>2
<1> HIDE DEF list, mp, e
<1>9. \A n \in Mutexes : mp[n] = FirstPrio(list[n], curr)
    <2> SUFFICES ASSUME NEW n \in Mutexes PROVE mp[n] = FirstPrio(list[n], curr)
        OBVIOUS
    <2>1. CASE n = m
        BY <1>5, <1>7, <1>8, <2>1, Zenon
    <2>2. CASE n # m
        BY <1>7, <1>8, <2>2, ExactPreFacts
    <2> QED
        BY <2>1, <2>2
<1>10. \A x \in Threads \ {o} : m \notin taken[x]
    BY <1>0, ExactPreFacts, OrderPreFacts DEF OwnersRight
<1>11. \A x \in Threads \ {o} : IsOwed(curr[x], x, taken[x], mp)
    <2> SUFFICES ASSUME NEW x \in Threads \ {o} PROVE IsOwed(curr[x], x, taken[x], mp)
        OBVIOUS
    <2>1. IsOwed(curr[x], x, taken[x], mprio) /\ \A n \in taken[x] : mp[n] = mprio[n]
        BY <1>2, <1>8, <1>10, ExactPreFacts
    <2> QED
        BY <2>1 DEF IsOwed
<1>12. IsOwed(curr[o], o, taken[o], mprio) /\ m \in taken[o]
    BY <1>0, ExactPreFacts, OrderPreFacts DEF OwnersRight
<1>13. CASE first /\ curr[t] < curr[o]
    <2> DEFINE cv == [curr EXCEPT ![o] = curr[t]]
    <2>1. UpdatePriority(o, curr[t], list, mp) /\ mp[m] = curr[t]
        BY <1>1, <1>8, <1>13
    <2>2. cv \in [Threads -> Prios] /\ cv[o] = curr[t] /\ \A x \in Threads \ {o} : cv[x] = curr[x]
        BY <1>0, <1>2
    <2>3. IsOwed(curr[t], o, taken[o], mp)
        <3>1. curr[t] <= InitPrio[o]
            <4>1. curr[o] <= InitPrio[o] /\ InitPrio[o] \in Nat
                BY <1>0, <1>12, PriosAreNaturals DEF IsOwed
            <4> QED
                BY <1>3, <1>13, <4>1
        <3>2. ASSUME NEW n \in taken[o] PROVE curr[t] <= mp[n]
            <4>1. CASE n = m
                BY <1>3, <2>1, <4>1
            <4>2. CASE n # m
                <5>1. mp[n] = mprio[n] /\ curr[o] <= mprio[n] /\ n \in Mutexes
                    BY <1>0, <1>2, <1>8, <1>12, <4>2 DEF IsOwed
                <5>2. mprio[n] \in Nat
                    BY <1>2, <5>1, PriosAreNaturals
                <5> QED
                    BY <1>3, <1>13, <5>1, <5>2
            <4> QED
                BY <4>1, <4>2
        <3> QED
            BY <1>12, <2>1, <3>1, <3>2 DEF IsOwed
    <2> HIDE DEF first
    <2>4. ExactBut(cv, list, mp, o)
        <3> SUFFICES ASSUME NEW n \in Mutexes, ~On(list[n], o)
                     PROVE  mp[n] = FirstPrio(list[n], cv)
            BY DEF ExactBut
        <3>1. list[n] \in Seq(Threads) /\ \A x \in Threads : On(list[n], x) => curr[x] = cv[x]
            BY <1>7, <2>2
        <3> HIDE DEF cv
        <3>2. FirstPrio(list[n], curr) = FirstPrio(list[n], cv)
            BY <3>1, FirstPrioSame
        <3> QED
            BY <1>9, <3>2
    <2>5. \A x \in Threads : IsOwed(cv[x], x, taken[x], mp)
        BY <1>11, <2>2, <2>3
    <2>6. Owed(cv, mp, taken', ceiling')
        <3> SUFFICES ASSUME NEW x \in Threads
                     PROVE  cv[x] = MutexPriority(x, taken[x], mp, ceiling)
            BY <1>0 DEF Owed, ExactPre
        <3>1. cv[x] \in Prios /\ taken[x] \in SUBSET Mutexes /\ IsOwed(cv[x], x, taken[x], mp)
            BY <1>2, <2>2, <2>5
        <3> HIDE DEF cv
        <3> QED
            BY <1>8, <3>1, ExactPreFacts, PlainPriority
    <2>7. ExactBut(curr', susp', mprio', None) /\ Owed(curr', mprio', taken', ceiling')
        <3>1. ChainPre /\ AllOwned
            BY ExactPreFacts, OrderPreFacts
        <3> HIDE DEF o
        <3> QED
            BY <1>0, <1>2, <1>6, <1>8, <2>1, <2>4, <2>6, <3>1, UpdatePriorityExact
    <2>8. ASSUME NEW x \in Threads PROVE IsOwed(curr'[x], x, taken'[x], mprio')
        <3>1. /\ curr'[x] = MutexPriority(x, taken'[x], mprio', ceiling)
              /\ curr'[x] \in Prios /\ taken'[x] \in SUBSET Mutexes
              /\ mprio' \in [Mutexes -> Prios \cup {NoPrio}]
            BY <2>7 DEF Owed, ExactPre, OrderPre, MInv, Types
        <3> QED
            BY <3>1, ExactPreFacts, PlainPriority
    <2> QED
        BY <2>7, <2>8 DEF Exact
<1>14. CASE ~(first /\ curr[t] < curr[o])
    <2>1. susp' = list /\ mprio' = mp /\ curr' = curr
        BY <1>1, <1>14
    <2>2. IsOwed(curr[o], o, taken[o], mp)
        <3>1. CASE ~first
            <4>1. \A n \in taken[o] : mp[n] = mprio[n]
                BY <1>0, <1>2, <1>8, <3>1
            <4> QED
                BY <1>12, <4>1 DEF IsOwed
        <3>2. CASE first
            <4>1. curr[o] <= curr[t] /\ mp[m] = curr[t] /\ curr[o] # mprio[m]
                BY <1>3, <1>8, <1>14, <3>2
            <4>2. \A n \in taken[o] : n # m => mp[n] = mprio[n]
                BY <1>0, <1>2, <1>8
            <4> QED
                BY <1>12, <4>1, <4>2 DEF IsOwed
        <3> QED
            BY <3>1, <3>2
    <2>3. \A x \in Threads : IsOwed(curr[x], x, taken[x], mp)
        BY <1>11, <2>2
    <2>4. ExactBut(curr, list, mp, None)
        BY <1>9 DEF ExactBut
    <2> QED
        BY <1>0, <2>1, <2>3, <2>4 DEF Exact
<1> QED
    BY <1>13, <1>14

\* _check_and_update_prio leaves the releasing thread what it is still owed.
LEMMA PrioAfterReleaseExact ==
    ASSUME ExactPre, NEW t \in Threads, NEW m \in Mutexes
    PROVE  IsOwed(PrioAfterRelease(t, m), t, taken[t] \ {m}, mprio)
<1>1. /\ NoCeilings /\ ceiling \in [Mutexes -> Ceilings \cup {NoPrio}]
      /\ mprio \in [Mutexes -> Prios \cup {NoPrio}] /\ taken[t] \ {m} \in SUBSET Mutexes
      /\ IsOwed(curr[t], t, taken[t], mprio)
    BY ExactPreFacts
<1>2. CASE curr[t] = mprio[m]
    <2> DEFINE v == MutexPriority(t, taken[t] \ {m}, mprio, ceiling)
    <2>1. PrioAfterRelease(t, m) = v /\ v \in Prios
        BY <1>1, <1>2, MutexPriorityType DEF PrioAfterRelease
    <2>2. IsOwed(v, t, taken[t] \ {m}, mprio)
        BY <1>1, <2>1, PlainPriority
    <2> QED
        BY <2>1, <2>2
<1>3. CASE curr[t] # mprio[m]
    <2>1. PrioAfterRelease(t, m) = curr[t]
        BY <1>1, <1>3 DEF PrioAfterRelease, NoCeilings
    <2>2. IsOwed(curr[t], t, taken[t] \ {m}, mprio)
        BY <1>1, <1>3 DEF IsOwed
    <2> QED
        BY <2>1, <2>2
<1> QED
    BY <1>2, <1>3

LEMMA ReleaseExact ==
    ASSUME ExactPre, NEW t \in Threads, NEW m \in live, Release(t, m)
    PROVE  Exact'
<1>0. m \in Mutexes /\ owner[m] = t /\ stat[t] = "ready" /\ OrderPre
      /\ curr' = [curr EXCEPT ![t] = PrioAfterRelease(t, m)]
    BY DEF ExactPre, OrderPre, Release
<1>1. curr \in [Threads -> Prios] /\ mprio \in [Mutexes -> Prios \cup {NoPrio}]
      /\ susp \in [Mutexes -> Seq(Threads)] /\ taken \in [Threads -> SUBSET Mutexes]
    BY ExactPreFacts
<1>2. curr'[t] = PrioAfterRelease(t, m) /\ \A x \in Threads \ {t} : curr'[x] = curr[x]
    BY <1>0, <1>1
<1>3. \A n \in Mutexes : ~On(susp[n], t)
    BY <1>0, ReadyNotListed
<1>4. \A n \in Mutexes : mprio[n] = FirstPrio(susp[n], curr')
    <2> SUFFICES ASSUME NEW n \in Mutexes PROVE mprio[n] = FirstPrio(susp[n], curr')
        OBVIOUS
    <2>1. susp[n] \in Seq(Threads) /\ \A x \in Threads : On(susp[n], x) => curr[x] = curr'[x]
        BY <1>1, <1>2, <1>3
    <2>2. FirstPrio(susp[n], curr) = FirstPrio(susp[n], curr')
        BY <2>1, FirstPrioSame
    <2> QED
        BY <2>2, ExactPreFacts
<1>5. \A x \in Threads : IsOwed(curr'[x], x, taken[x] \ {m}, mprio)
    <2> SUFFICES ASSUME NEW x \in Threads PROVE IsOwed(curr'[x], x, taken[x] \ {m}, mprio)
        OBVIOUS
    <2>1. CASE x = t
        BY <1>0, <1>2, <2>1, PrioAfterReleaseExact
    <2>2. CASE x # t
        <3>1. m \notin taken[x]
            BY <1>0, <2>2, OrderPreFacts DEF OwnersRight
        <3>2. taken[x] \ {m} = taken[x] /\ curr'[x] = curr[x]
            BY <1>2, <2>2, <3>1
        <3> QED
            BY <3>2, ExactPreFacts
    <2> QED
        BY <2>1, <2>2
<1>6. \A n \in Mutexes \ {m} : susp'[n] = susp[n] /\ mprio'[n] = mprio[n]
    <2>1. CASE susp[m] = <<>>
        BY <1>1, <2>1 DEF Release
    <2>2. CASE susp[m] # <<>>
        BY <1>1, <2>2 DEF Release
    <2> QED
        BY <2>1, <2>2
<1>7. \A x \in Threads : IsOwed(curr'[x], x, taken[x] \ {m}, mprio')
    <2> SUFFICES ASSUME NEW x \in Threads PROVE IsOwed(curr'[x], x, taken[x] \ {m}, mprio')
        OBVIOUS
    <2>1. \A n \in taken[x] \ {m} : mprio'[n] = mprio[n]
        BY <1>1, <1>6
    <2> QED
        BY <1>5, <2>1 DEF IsOwed
<1>8. mprio'[m] = FirstPrio(susp'[m], curr')
    <2>1. CASE susp[m] = <<>>
        BY <1>0, <1>1, <2>1 DEF Release, FirstPrio
    <2>2. CASE susp[m] # <<>>
        <3> DEFINE rest == Tail(susp[m])
        <3>1. mprio'[m] = FirstPrio(rest, curr) /\ susp'[m] = rest
            BY <1>0, <1>1, <2>2 DEF Release
        <3>2. susp[m] \in Seq(Threads) /\ Distinct(susp[m])
            BY <1>0, ListOrdered
        <3>3. rest \in Seq(Threads) /\ \A x : On(rest, x) => On(susp[m], x)
            BY <2>2, <3>2, TailFacts
        <3> HIDE DEF rest
        <3>4. \A x \in Threads : On(rest, x) => curr[x] = curr'[x]
            BY <1>0, <1>2, <1>3, <3>3
        <3>5. FirstPrio(rest, curr) = FirstPrio(rest, curr')
            BY <3>3, <3>4, FirstPrioSame
        <3> QED
            BY <3>1, <3>5
    <2> QED
        BY <2>1, <2>2
<1>9. ExactBut(curr', susp', mprio', None)
    BY <1>4, <1>6, <1>8 DEF ExactBut
<1>10. ASSUME NEW x \in Threads PROVE IsOwed(curr'[x], x, taken'[x], mprio')
    <2>1. taken'[x] = taken[x] \ {m} \/ taken'[x] = (taken[x] \ {m}) \cup {m}
        <3>0. \A y \in Threads \ {t} : m \notin taken[y]
            BY <1>0, OrderPreFacts DEF OwnersRight
        <3>1. CASE susp[m] = <<>>
            BY <1>1, <3>0, <3>1 DEF Release
        <3>2. CASE susp[m] # <<>>
            <4>1. taken' = [taken EXCEPT ![t] = @ \ {m}, ![Head(susp[m])] = @ \cup {m}]
                BY <3>2 DEF Release
            <4> QED
                BY <1>1, <3>0, <4>1
        <3> QED
            BY <3>1, <3>2
    <2>2. \A n \in taken'[x] : curr'[x] <= mprio'[n]
        BY DEF ExactPre, InOrder, Lent
    <2> QED
        BY <1>7, <2>1, <2>2 DEF IsOwed
<1> QED
    BY <1>9, <1>10 DEF Exact

\* The inductive invariant behind PriorityExact.
PlainInv == plain => changes = 0 /\ Undisturbed /\ Exact

LEMMA PlainInit == Init => PlainInv
<1> SUFFICES ASSUME Init PROVE changes = 0 /\ Undisturbed /\ Exact
    BY DEF PlainInv
<1>1. changes = 0 /\ Undisturbed
    BY DEF Init, Undisturbed, NoCeilings
<1>2. ExactBut(curr, susp, mprio, None)
    BY DEF Init, ExactBut, FirstPrio
<1>3. ASSUME NEW x \in Threads PROVE IsOwed(curr[x], x, taken[x], mprio)
    <2>1. curr[x] = InitPrio[x] /\ taken[x] = {} /\ InitPrio[x] \in Nat
        BY PriosAreNaturals DEF Init
    <2> QED
        BY <2>1 DEF IsOwed
<1> QED
    BY <1>1, <1>2, <1>3 DEF Exact

LEMMA PlainKeeps ==
    ASSUME Types, Undisturbed, Plain
    PROVE  Undisturbed' /\ ceiling' = ceiling
<1>1. ceiling' = ceiling
    <2>1. ASSUME NEW t \in Threads, NEW m \in live
          PROVE  /\ TakeFree(t, m) => ceiling' = ceiling
                 /\ TakeAgain(t, m) => ceiling' = ceiling
                 /\ TakeBlock(t, m) => ceiling' = ceiling
                 /\ ReleaseNested(t, m) => ceiling' = ceiling
                 /\ Release(t, m) => ceiling' = ceiling
        BY DEF TakeFree, TakeAgain, TakeBlock, ReleaseNested, Release
    <2>2. ASSUME NEW t \in Threads
          PROVE  TakeDone(t) \/ TakeFailed(t) => ceiling' = ceiling
        BY DEF TakeDone, TakeFailed
    <2> QED
        BY <2>1, <2>2 DEF Plain
<1>2. \A x \in Threads : (error'[x] = error[x] \/ error'[x] = "EOK")
                         /\ (stat'[x] = stat[x] \/ stat'[x] \in {"ready", "suspended"})
    <2>1. ASSUME NEW t \in Threads, NEW m \in live, NEW x \in Threads,
                 \/ TakeFree(t, m) \/ TakeAgain(t, m)
                 \/ TakeBlock(t, m) \/ ReleaseNested(t, m) \/ Release(t, m)
          PROVE  (error'[x] = error[x] \/ error'[x] = "EOK")
                 /\ (stat'[x] = stat[x] \/ stat'[x] \in {"ready", "suspended"})
        <3>1. CASE TakeFree(t, m)
            BY <3>1 DEF TakeFree, Types
        <3>2. CASE TakeAgain(t, m)
            BY <3>2 DEF TakeAgain, Types
        <3>3. CASE TakeBlock(t, m)
            BY <3>3 DEF TakeBlock, Types
        <3>4. CASE ReleaseNested(t, m)
            BY <3>4 DEF ReleaseNested
        <3>5. CASE Release(t, m)
            <4>1. error' = error
                BY <3>5 DEF Release
            <4>2. stat' = stat \/ \E u : stat' = [stat EXCEPT ![u] = "ready"]
                BY <3>5 DEF Release
            <4> QED
                BY <4>1, <4>2 DEF Types
        <3> QED
            BY <2>1, <3>1, <3>2, <3>3, <3>4, <3>5
    <2>2. ASSUME NEW t \in Threads, NEW x \in Threads, TakeDone(t) \/ TakeFailed(t)
          PROVE  error'[x] = error[x] /\ stat'[x] = stat[x]
        BY <2>2 DEF TakeDone, TakeFailed
    <2> QED
        BY <2>1, <2>2 DEF Plain
<1> QED
    BY <1>1, <1>2 DEF Undisturbed, NoCeilings

LEMMA PlainNext ==
    MInv /\ MInv' /\ History /\ OrderInv /\ OrderInv' /\ PlainInv /\ [Next]_vars => PlainInv'
<1> SUFFICES ASSUME MInv, MInv', History, OrderInv, OrderInv', PlainInv, [Next]_vars, plain'
             PROVE  changes' = 0 /\ Undisturbed' /\ Exact'
    BY DEF PlainInv
<1>1. CASE UNCHANGED vars
    BY <1>1, Zenon DEF vars, PlainInv, Undisturbed, NoCeilings, Exact
<1>2. CASE Next
    <2>1. Plain /\ plain /\ live' = live /\ changes' = changes
        BY <1>2, Zenon DEF Next
    <2>2. changes = 0 /\ changes' = 0 /\ Undisturbed /\ Exact
        BY <2>1, Zenon DEF PlainInv
    <2>3. Undisturbed' /\ ceiling' = ceiling
        BY <2>1, <2>2, PlainKeeps DEF MInv
    <2>4. ExactPre
        BY <2>1, <2>2, <2>3 DEF ExactPre, OrderPre, OrderInv
    <2>5. ASSUME NEW t \in Threads, NEW m \in live, TakeAgain(t, m) \/ ReleaseNested(t, m)
          PROVE  Exact'
        BY <2>4, <2>5, UnchangedExact DEF TakeAgain, ReleaseNested
    <2>6. ASSUME NEW t \in Threads, TakeDone(t)
          PROVE  Exact'
        BY <2>4, <2>6, UnchangedExact DEF TakeDone
    <2>7. \A t \in Threads : ~TakeFailed(t)
        BY <2>2 DEF Undisturbed, TakeFailed
    <2>8. Exact'
        BY <2>1, <2>4, <2>5, <2>6, <2>7, TakeFreeExact, TakeBlockExact, ReleaseExact DEF Plain
    <2> QED
        BY <2>2, <2>3, <2>8
<1> QED
    BY <1>1, <1>2

LEMMA PlainHolds == Spec => []PlainInv
<1> QED
    BY PlainInit, PlainNext, InvariantHolds, HistoryHolds, OrderHolds, PTL DEF Spec

\* _thread_get_mutex_priority, _mutex_update_priority, _thread_update_priority
\* and _check_and_update_prio: while threads only take and release, every
\* thread runs exactly at the most urgent of its own priority and those of the
\* threads that wait for what it holds; nothing more is lent, through chains of
\* any length, and a release gives back all that was lent for the mutex.
THEOREM PriorityStaysExact == Spec => []PriorityExact
<1>1. MInv /\ OrderInv /\ PlainInv => PriorityExact
    <2> SUFFICES ASSUME MInv, OrderInv, PlainInv, plain, NEW t \in Threads
                 PROVE  curr[t] =
                            Min({InitPrio[t]} \cup
                                {curr[u] : u \in {w \in Threads : pending[w] \in taken[t]}})
        BY DEF PriorityExact
    <2> DEFINE W == {w \in Threads : pending[w] \in taken[t]}
               I == {InitPrio[t]} \cup {curr[u] : u \in W}
    <2> SUFFICES curr[t] = Min(I)
        OBVIOUS
    <2>1. /\ Undisturbed /\ Exact /\ Ordered(curr, susp, mprio, None)
          /\ curr \in [Threads -> Prios] /\ mprio \in [Mutexes -> Prios \cup {NoPrio}]
          /\ susp \in [Mutexes -> Seq(Threads)] /\ taken \in [Threads -> SUBSET Mutexes]
        BY Zenon DEF PlainInv, OrderInv, InOrder, MInv, Types, ListsRight
    <2>2. \A m \in Mutexes : \A x \in Threads : On(susp[m], x) => mprio[m] <= curr[x]
        BY <2>1, OrderedSorted
    <2>3. IsOwed(curr[t], t, taken[t], mprio) /\ curr[t] \in Prios
        BY <2>1 DEF Exact
    <2>4. I \in SUBSET Nat /\ I # {}
        BY <2>1, PriosAreNaturals
    <2>5. ASSUME NEW w \in W PROVE curr[t] <= curr[w]
        <3>1. pending[w] \in taken[t] /\ w \in Threads /\ pending[w] \in Mutexes /\ pending[w] # None
            BY <2>1, MutexAssumption
        <3>2. stat[w] = "suspended"
            BY <2>1, <3>1 DEF MInv, Types, CallsRight, Undisturbed
        <3>3. On(susp[pending[w]], w)
            BY <3>1, <3>2 DEF MInv, ListsRight
        <3>4. curr[t] <= mprio[pending[w]] /\ mprio[pending[w]] <= curr[w]
            BY <2>2, <2>3, <3>1, <3>3 DEF IsOwed
        <3>5. curr[t] \in Nat /\ curr[w] \in Nat /\ mprio[pending[w]] \in Nat
            BY <2>1, <3>1, PriosAreNaturals
        <3> QED
            BY <3>4, <3>5
    <2>6. \A y \in I : curr[t] <= y
        BY <2>3, <2>5 DEF IsOwed
    <2>7. curr[t] \in I
        <3>1. CASE curr[t] = InitPrio[t]
            BY <3>1
        <3>2. ASSUME NEW m \in taken[t], curr[t] = mprio[m] PROVE curr[t] \in I
            <4>1. m \in Mutexes /\ susp[m] \in Seq(Threads)
                BY <2>1
            <4>2. ~On(susp[m], None)
                BY <4>1, OnType, MutexAssumption
            <4>3. mprio[m] = FirstPrio(susp[m], curr)
                BY <2>1, <4>1, <4>2 DEF Exact, ExactBut
            <4>4. susp[m] # <<>>
                BY <2>3, <3>2, <4>3, PrioOrder DEF FirstPrio
            <4>5. Head(susp[m]) \in Threads /\ On(susp[m], Head(susp[m]))
                BY <4>1, <4>4 DEF On
            <4>6. Head(susp[m]) \in W
                BY <4>1, <4>5 DEF MInv, ListsRight
            <4>7. curr[t] = curr[Head(susp[m])]
                BY <3>2, <4>3, <4>4 DEF FirstPrio
            <4> QED
                BY <4>6, <4>7
        <3> QED
            BY <2>3, <3>1, <3>2 DEF IsOwed
    <2> HIDE DEF I
    <2>8. Min(I) \in I /\ \A y \in I : Min(I) <= y
        BY <2>4, MinOfNaturals
    <2>9. Min(I) <= curr[t] /\ curr[t] <= Min(I) /\ Min(I) \in Nat /\ curr[t] \in Nat
        BY <2>4, <2>6, <2>7, <2>8
    <2> QED
        BY <2>9
<1> QED
    BY <1>1, InvariantHolds, OrderHolds, PlainHolds, PTL

-----------------------------------------------------------------------------
(* The loop of _thread_update_priority *)

\* Whatever thread's priority is changed to whatever value, on lists that are
\* right: the loop has ended within Rounds rounds.
ChainsEnd ==
    \A F, start : IsChain(F, start, Rounds) /\ ChainRight(start) =>
        \E i \in 0..Rounds : ~F[i].go

\* The do ... while of _thread_update_priority has no bound of its own and
\* follows owners round a cycle too (threads that deadlocked, whose takes may
\* time out): from every step of the system it ends, for a round that goes on
\* brings a thread to a more urgent priority, or the first time to the same.
THEOREM ChainEnds == Spec => [][ChainsEnd]_vars
<1>1. MInv' => ChainsEnd
    <2> SUFFICES ASSUME MInv' PROVE ChainsEnd
        OBVIOUS
    <2>1. ChainPre
        BY BeforeChain DEF MInv, Types, OtherTypes
    <2> QED
        BY <2>1, LoopEnds DEF ChainsEnd
<1> QED
    BY <1>1, InvariantHolds, PTL

-----------------------------------------------------------------------------
(* No thread is made less urgent than it is of its own *)

AtLeastOwn(cu) == \A x \in Threads : cu[x] <= InitPrio[x]

LEMMA MutexPriorityOwn ==
    ASSUME NEW t \in Threads, NEW mine \in SUBSET Mutexes,
           NEW mp \in [Mutexes -> Prios \cup {NoPrio}],
           NEW ceil \in [Mutexes -> Ceilings \cup {NoPrio}]
    PROVE  MutexPriority(t, mine, mp, ceil) <= InitPrio[t]
<1> DEFINE I == {InitPrio[t]} \cup {mp[m] : m \in mine} \cup {ceil[m] : m \in mine}
<1>1. I \in SUBSET Nat /\ I # {} /\ InitPrio[t] \in I
    BY PriosAreNaturals
<1>2. MutexPriority(t, mine, mp, ceil) = Min(I)
    BY DEF MutexPriority
<1> HIDE DEF I
<1>3. Min(I) <= InitPrio[t]
    BY <1>1, MinOfNaturals
<1> QED
    BY <1>2, <1>3

LEMMA ChainStepOwn ==
    ASSUME ChainPre, NEW c, ChainRight(c), AtLeastOwn(c.curr)
    PROVE  AtLeastOwn(ChainStep(c).curr)
<1> DEFINE d == ChainStep(c)
<1>0. ChainRight(d)
    BY ChainStepRight
<1>1. CASE \E m, o, p : IsRound(c, d, m, o, p)
    <2>1. PICK m, o, p : IsRound(c, d, m, o, p)
        BY <1>1
    <2> SUFFICES AtLeastOwn(d.curr)
        OBVIOUS
    <2> HIDE DEF d
    <2>2. /\ o \in Threads /\ d.curr[o] = MutexPriority(o, taken'[o], d.mprio, ceiling')
          /\ \A x \in Threads \ {o} : d.curr[x] = c.curr[x]
        BY <2>1 DEF IsRound
    <2>3. taken'[o] \in SUBSET Mutexes /\ ceiling' \in [Mutexes -> Ceilings \cup {NoPrio}]
          /\ d.mprio \in [Mutexes -> Prios \cup {NoPrio}]
        BY <1>0, <2>2 DEF ChainPre, ChainRight
    <2>4. d.curr[o] <= InitPrio[o]
        BY <2>2, <2>3, MutexPriorityOwn
    <2> QED
        BY <2>2, <2>4 DEF AtLeastOwn
<1>2. CASE d = [c EXCEPT !.go = FALSE]
    <2>1. d.curr = c.curr
        BY <1>2 DEF ChainRight
    <2> QED
        BY <2>1
<1> QED
    BY <1>1, <1>2, ARound

LEMMA UpdatePriorityOwn ==
    ASSUME NEW t \in Threads, NEW p \in Prios, NEW s, NEW mp,
           curr \in [Threads -> Prios], mp \in [Mutexes -> Prios \cup {NoPrio}],
           ListsRight(s, stat', pending'), ChainPre, UpdatePriority(t, p, s, mp),
           p <= InitPrio[t], AtLeastOwn(curr)
    PROVE  AtLeastOwn(curr')
<1> DEFINE start == ChainStart(t, p, s, mp)
<1>1. ChainRight(start)
    BY UpdatePriorityRuns
<1>2. PICK F, n : IsChain(F, start, Rounds) /\ ChainResult(F, n)
    BY UpdatePriorityRuns
<1>3. AtLeastOwn(start.curr)
    BY DEF ChainStart, AtLeastOwn
<1> HIDE DEF start
<1>4. \A i \in 0..Rounds : ChainRight(F[i])
    BY <1>1, <1>2, ChainStaysRight
<1> DEFINE Bad == {i \in Nat : i <= Rounds /\ ~AtLeastOwn(F[i].curr)}
<1>5. Bad = {}
    <2> SUFFICES ASSUME Bad # {} PROVE FALSE
        OBVIOUS
    <2>1. PICK m \in Bad : \A y \in Bad : m <= y
        <3>1. Bad \in SUBSET Nat
            OBVIOUS
        <3> HIDE DEF Bad
        <3> QED
            BY <3>1, LeastElement
    <2>2. m # 0
        BY <1>2, <1>3, <2>1 DEF IsChain
    <2>3. m - 1 \in Nat /\ m - 1 <= Rounds /\ ~(m <= m - 1) /\ m \in 1..Rounds
          /\ m - 1 \in 0..Rounds
        BY <2>1, <2>2, RoundsType
    <2>4. AtLeastOwn(F[m - 1].curr) /\ ChainRight(F[m - 1])
        BY <1>4, <2>1, <2>3
    <2>5. F[m] = ChainStep(F[m - 1])
        BY <1>2, <2>3 DEF IsChain
    <2>6. AtLeastOwn(F[m].curr)
        BY <2>4, <2>5, ChainStepOwn
    <2> QED
        BY <2>1, <2>6
<1>6. AtLeastOwn(F[n].curr)
    BY <1>2, <1>5, RoundsType DEF ChainResult
<1> QED
    BY <1>2, <1>6 DEF ChainResult

OwnPre == MInv /\ MInv' /\ AtLeastOwn(curr)

LEMMA OwnPreFacts ==
    ASSUME OwnPre
    PROVE  /\ Types /\ ListsRight(susp, stat, pending) /\ CallsRight /\ ChainPre
           /\ curr \in [Threads -> Prios] /\ mprio \in [Mutexes -> Prios \cup {NoPrio}]
           /\ taken \in [Threads -> SUBSET Mutexes] /\ AtLeastOwn(curr)
           /\ ceiling \in [Mutexes -> Ceilings \cup {NoPrio}]
           /\ ceiling' \in [Mutexes -> Ceilings \cup {NoPrio}]
<1>1. OtherTypes' /\ OwnersRight' /\ CallsRight'
    BY DEF OwnPre, MInv, Types, OtherTypes
<1>2. ChainPre
    BY <1>1, BeforeChain
<1> QED
    BY <1>2 DEF OwnPre, MInv, Types

LEMMA TakeBlockOwn ==
    ASSUME OwnPre, NEW t \in Threads, NEW m \in Mutexes, TakeBlock(t, m)
    PROVE  AtLeastOwn(curr')
<1> DEFINE list == [susp EXCEPT ![m] = Enqueue(@, t, curr)]
           first == curr[t] < mprio[m]
           mp == IF first THEN [mprio EXCEPT ![m] = curr[t]] ELSE mprio
           o == owner[m]
<1>1. IF first /\ curr[t] < curr[o]
      THEN UpdatePriority(o, curr[t], list, mp)
      ELSE susp' = list /\ mprio' = mp /\ curr' = curr
    BY DEF TakeBlock
<1>2. o \in Threads /\ curr[t] \in Prios /\ mp \in [Mutexes -> Prios \cup {NoPrio}]
    BY OwnPreFacts DEF TakeBlock, Types
<1>3. ListsRight(list, stat', pending')
    <2>1. /\ ListsRight(susp, stat, pending) /\ stat[t] # "suspended"
          /\ stat'[t] = "suspended" /\ pending'[t] = m
          /\ \A x \in Threads \ {t} : stat'[x] = stat[x] /\ pending'[x] = pending[x]
        BY OwnPreFacts DEF TakeBlock, Types
    <2> QED
        BY <2>1, EnqueueRight
<1> HIDE DEF list, mp
<1>4. CASE first /\ curr[t] < curr[o]
    <2>1. UpdatePriority(o, curr[t], list, mp)
        BY <1>1, <1>4
    <2>2. curr[o] <= InitPrio[o] /\ curr[o] \in Nat /\ InitPrio[o] \in Nat /\ curr[t] \in Nat
        BY <1>2, OwnPreFacts, PriosAreNaturals DEF AtLeastOwn
    <2>3. curr[t] <= InitPrio[o]
        BY <1>4, <2>2
    <2> HIDE DEF o
    <2> QED
        BY <1>2, <1>3, <2>1, <2>3, OwnPreFacts, UpdatePriorityOwn
<1>5. CASE ~(first /\ curr[t] < curr[o])
    BY <1>1, <1>5, OwnPreFacts
<1> QED
    BY <1>4, <1>5

LEMMA LeaveOwn ==
    ASSUME OwnPre, NEW t \in Threads, NEW m \in Mutexes, NEW list,
           ListsRight(list, stat', pending'), Leave(t, m, list)
    PROVE  AtLeastOwn(curr')
<1> DEFINE mp == [mprio EXCEPT ![m] = FirstPrio(list[m], curr)]
           o == owner[m]
           p == MutexPriority(o, taken[o], mp, ceiling)
<1>1. IF o # None /\ curr[o] = curr[t] /\ p # curr[o]
      THEN UpdatePriority(o, p, list, mp)
      ELSE mprio' = mp /\ susp' = list /\ curr' = curr
    BY DEF Leave
<1>2. FirstPrio(list[m], curr) \in Prios \cup {NoPrio}
    BY OwnPreFacts, FirstPrioType DEF ListsRight
<1>3. mp \in [Mutexes -> Prios \cup {NoPrio}]
    BY <1>2, OwnPreFacts
<1> HIDE DEF mp
<1>4. CASE o # None /\ curr[o] = curr[t] /\ p # curr[o]
    <2>1. UpdatePriority(o, p, list, mp) /\ o \in Threads
        BY <1>1, <1>4, OwnPreFacts DEF Types
    <2>2. taken[o] \in SUBSET Mutexes /\ ceiling \in [Mutexes -> Ceilings \cup {NoPrio}]
        BY <2>1, OwnPreFacts
    <2>3. p \in Prios /\ p <= InitPrio[o]
        BY <1>3, <2>1, <2>2, MutexPriorityType, MutexPriorityOwn
    <2> HIDE DEF o, p
    <2> QED
        BY <1>3, <2>1, <2>3, OwnPreFacts, UpdatePriorityOwn
<1>5. CASE ~(o # None /\ curr[o] = curr[t] /\ p # curr[o])
    BY <1>1, <1>5, OwnPreFacts
<1> QED
    BY <1>4, <1>5

LEMMA DeleteThreadOwn ==
    ASSUME OwnPre, NEW t \in Threads, DeleteThread(t)
    PROVE  AtLeastOwn(curr')
<1>1. CASE pending[t] = None
    BY <1>1, OwnPreFacts DEF DeleteThread
<1>2. CASE pending[t] # None
    <2> DEFINE list == [susp EXCEPT ![pending[t]] = RemoveFirst(@, t)]
    <2>1. pending[t] \in Mutexes /\ Leave(t, pending[t], list)
        BY <1>2, OwnPreFacts DEF DeleteThread, Types
    <2>2. /\ stat'[t] # "suspended" /\ ListsRight(susp, stat, pending)
          /\ \A x \in Threads \ {t} : stat'[x] = stat[x] /\ pending'[x] = pending[x]
        BY OwnPreFacts DEF DeleteThread, Types
    <2>3. ListsRight(list, stat', pending')
        BY <2>1, <2>2, RemoveRight
    <2> HIDE DEF list
    <2> QED
        BY <2>1, <2>3, LeaveOwn
<1> QED
    BY <1>1, <1>2

LEMMA TakeFailedOwn ==
    ASSUME OwnPre, NEW t \in Threads, TakeFailed(t)
    PROVE  AtLeastOwn(curr')
<1>1. /\ pending[t] \in Mutexes /\ Leave(t, pending[t], susp)
      /\ ListsRight(susp, stat', pending')
    BY OwnPreFacts DEF TakeFailed, Types, CallsRight, ListsRight
<1> QED
    BY <1>1, LeaveOwn

LEMMA SetPrioCeilingOwn ==
    ASSUME OwnPre, NEW m \in Mutexes, NEW c \in Ceilings, SetPrioCeiling(m, c)
    PROVE  AtLeastOwn(curr')
<1> DEFINE o == owner[m]
           p == MutexPriority(o, taken[o], mprio, ceiling')
<1>1. /\ IF o # None /\ p # curr[o]
         THEN UpdatePriority(o, p, susp, mprio)
         ELSE UNCHANGED <<curr, susp, mprio>>
      /\ stat' = stat /\ pending' = pending
    BY DEF SetPrioCeiling
<1>2. ListsRight(susp, stat', pending')
    BY <1>1, OwnPreFacts
<1>3. CASE o # None /\ p # curr[o]
    <2>1. UpdatePriority(o, p, susp, mprio) /\ o \in Threads
        BY <1>1, <1>3, OwnPreFacts DEF Types
    <2>2. taken[o] \in SUBSET Mutexes
        BY <2>1, OwnPreFacts
    <2>3. p \in Prios /\ p <= InitPrio[o]
        BY <2>1, <2>2, OwnPreFacts, MutexPriorityType, MutexPriorityOwn
    <2> HIDE DEF o, p
    <2> QED
        BY <1>2, <2>1, <2>3, OwnPreFacts, UpdatePriorityOwn
<1>4. CASE ~(o # None /\ p # curr[o])
    BY <1>1, <1>4, OwnPreFacts
<1> QED
    BY <1>3, <1>4

LEMMA TakeFreeOwn ==
    ASSUME OwnPre, NEW t \in Threads, NEW m \in Mutexes, TakeFree(t, m)
    PROVE  AtLeastOwn(curr')
<1> DEFINE I == {curr[t], ceiling[m]}
<1>1. curr' = [curr EXCEPT ![t] = Min(I)]
    BY DEF TakeFree
<1>2. I \in SUBSET Nat /\ I # {} /\ curr[t] \in I
    BY OwnPreFacts, PriosAreNaturals
<1> HIDE DEF I
<1>3. Min(I) <= curr[t] /\ Min(I) \in Nat /\ curr[t] \in Nat
    BY <1>2, MinOfNaturals
<1>4. curr[t] <= InitPrio[t] /\ InitPrio[t] \in Nat
    BY OwnPreFacts, PriosAreNaturals DEF AtLeastOwn
<1>5. Min(I) <= InitPrio[t]
    BY <1>3, <1>4
<1> QED
    BY <1>1, <1>5, OwnPreFacts DEF AtLeastOwn

LEMMA ReleaseOwn ==
    ASSUME OwnPre, NEW t \in Threads, NEW m \in Mutexes, Release(t, m)
    PROVE  AtLeastOwn(curr')
<1>1. curr' = [curr EXCEPT ![t] = PrioAfterRelease(t, m)]
    BY DEF Release
<1>2. taken[t] \ {m} \in SUBSET Mutexes
    BY OwnPreFacts
<1>3. MutexPriority(t, taken[t] \ {m}, mprio, ceiling) <= InitPrio[t]
    BY <1>2, OwnPreFacts, MutexPriorityOwn
<1>4. PrioAfterRelease(t, m) <= InitPrio[t]
    BY <1>3, OwnPreFacts DEF PrioAfterRelease, AtLeastOwn
<1> QED
    BY <1>1, <1>4, OwnPreFacts DEF AtLeastOwn

\* Until the first priority is changed from outside.
NeverLowered == changes = 0 => AtLeastOwn(curr)

LEMMA NeverLoweredNext == MInv /\ MInv' /\ History /\ NeverLowered /\ [Next]_vars => NeverLowered'
<1> SUFFICES ASSUME MInv, MInv', History, NeverLowered, [Next]_vars, changes' = 0
             PROVE  AtLeastOwn(curr')
    BY DEF NeverLowered
<1>1. CASE UNCHANGED vars
    BY <1>1 DEF vars, NeverLowered
<1>2. CASE Next
    <2>1. \/ Plain /\ UNCHANGED <<live, plain, changes>>
          \/ Lasting /\ UNCHANGED <<live, changes>>
          \/ changes' = changes + 1
        BY <1>2, Zenon DEF Next
    <2>2. changes \in Nat
        BY MutexAssumption DEF History
    <2>3. (Plain \/ Lasting) /\ changes = 0
        BY <2>1, <2>2
    <2>4. OwnPre /\ live \subseteq Mutexes /\ AtLeastOwn(curr)
        BY <2>3 DEF OwnPre, NeverLowered, MInv, Types
    <2>5. ASSUME NEW t \in Threads, NEW m \in live, TakeAgain(t, m) \/ ReleaseNested(t, m)
          PROVE  AtLeastOwn(curr')
        BY <2>4, <2>5 DEF TakeAgain, ReleaseNested
    <2>6. ASSUME NEW t \in Threads, TakeDone(t) \/ Exit(t) \/ Timeout(t)
          PROVE  AtLeastOwn(curr')
        BY <2>4, <2>6 DEF TakeDone, Exit, Timeout
    <2>7. CASE Plain
        <3>1. ASSUME NEW t \in Threads, NEW m \in live,
                     TakeFree(t, m) \/ TakeBlock(t, m) \/ Release(t, m)
              PROVE  AtLeastOwn(curr')
            <4>1. m \in Mutexes
                BY <2>4
            <4> QED
                BY <2>4, <3>1, <4>1, TakeFreeOwn, TakeBlockOwn, ReleaseOwn
        <3> QED
            BY <2>4, <2>5, <2>6, <2>7, <3>1, TakeFailedOwn DEF Plain
    <2>8. CASE Lasting
        BY <2>4, <2>6, <2>8, DeleteThreadOwn, SetPrioCeilingOwn DEF Lasting
    <2> QED
        BY <2>3, <2>7, <2>8
<1> QED
    BY <1>1, <1>2

\* _thread_update_priority and _check_and_update_prio, through takes, releases,
\* timeouts, deletions and ceilings: a thread is never less urgent than its own
\* init_priority, even where it keeps more than it is owed, as long as no
\* priority is changed from outside.
THEOREM NobodyIsLowered == Spec => []NeverLowered
<1>1. Init => NeverLowered
    <2> SUFFICES ASSUME Init, NEW x \in Threads PROVE curr[x] <= InitPrio[x]
        BY DEF NeverLowered, AtLeastOwn
    <2>1. curr[x] = InitPrio[x] /\ InitPrio[x] \in Nat
        BY PriosAreNaturals DEF Init
    <2> QED
        BY <2>1
<1> QED
    BY <1>1, NeverLoweredNext, InvariantHolds, HistoryHolds, PTL DEF Spec

=============================================================================
