------------------------- MODULE MessageQueueProofs -------------------------
(***************************************************************************)
(* The message queue, for any number of blocks, threads and messages: the  *)
(* two linked lists of blocks, the wake-ups, and the queue it implements.  *)
(***************************************************************************)
EXTENDS MessageQueue, ThreadWaitProofs, FiniteSetTheorems

-----------------------------------------------------------------------------
(* Linked lists *)

At(s, i) == IF i \in 1..Len(s) THEN s[i] ELSE None

\* The links in nx lead from b along the blocks of s to the end.
Linked(s, b, nx) ==
    /\ s \in Seq(Blocks) /\ b = At(s, 1)
    /\ \A i \in 1..Len(s) : nx[s[i]] = At(s, i + 1)

LEMMA BlocksArePlaces == 1 \in Blocks /\ Blocks \subseteq Nat /\ None \notin Blocks
BY MessageQueueAssumption DEF Blocks

\* What the recursive function of Walk has to satisfy.
IsSteps(c, nx, b) ==
    c = [i \in Blocks |->
            IF i = 1 THEN b ELSE IF c[i - 1] = None THEN None ELSE nx[c[i - 1]]]

LEMMA StepsAlong ==
    ASSUME NEW s, NEW b, NEW nx, Linked(s, b, nx)
    PROVE  IsSteps([i \in Blocks |-> At(s, i)], nx, b)
<1> DEFINE F == [i \in Blocks |-> At(s, i)]
<1> SUFFICES ASSUME NEW i \in Blocks
             PROVE  F[i] = IF i = 1 THEN b ELSE IF F[i - 1] = None THEN None ELSE nx[F[i - 1]]
    BY DEF IsSteps
<1>1. s \in Seq(Blocks) /\ Len(s) \in Nat
    BY DEF Linked
<1>2. CASE i = 1
    BY <1>2 DEF Linked
<1>3. CASE i # 1
    <2>1. i - 1 \in Blocks /\ i - 1 \in Nat
        BY <1>3, MessageQueueAssumption DEF Blocks
    <2>2. CASE i - 1 \in 1..Len(s)
        <3>1. F[i - 1] = s[i - 1] /\ F[i - 1] # None
            BY <1>1, <2>1, <2>2, BlocksArePlaces DEF At
        <3>2. nx[s[i - 1]] = At(s, (i - 1) + 1) /\ (i - 1) + 1 = i
            BY <2>1, <2>2, BlocksArePlaces DEF Linked
        <3> QED
            BY <1>3, <3>1, <3>2
    <2>3. CASE i - 1 \notin 1..Len(s)
        <3>1. F[i - 1] = None /\ i \notin 1..Len(s)
            BY <1>1, <1>3, <2>1, <2>3 DEF At
        <3> QED
            BY <1>3, <3>1 DEF At
    <2> QED
        BY <2>2, <2>3
<1> QED
    BY <1>2, <1>3

\* There is only one such function.
LEMMA StepsUnique ==
    ASSUME NEW c, NEW d, NEW nx, NEW b, IsSteps(c, nx, b), IsSteps(d, nx, b)
    PROVE  c = d
<1> DEFINE Bad == {i \in Blocks : c[i] # d[i]}
<1>1. ASSUME Bad # {}
      PROVE  FALSE
    <2>1. PICK m \in Bad : \A y \in Bad : m <= y
        BY <1>1, LeastElement, BlocksArePlaces
    <2>2. m \in Blocks /\ c[m] # d[m]
        BY <2>1
    <2>3. CASE m = 1
        BY <2>2, <2>3 DEF IsSteps
    <2>4. CASE m # 1
        <3>1. m - 1 \in Blocks /\ m \in Nat /\ ~(m <= m - 1)
            BY <2>2, <2>4, MessageQueueAssumption DEF Blocks
        <3>2. c[m - 1] = d[m - 1]
            BY <2>1, <3>1
        <3> QED
            BY <2>2, <2>4, <3>2 DEF IsSteps
    <2> QED
        BY <2>3, <2>4
<1>2. \A i \in Blocks : c[i] = d[i]
    BY <1>1
<1>3. /\ c = [i \in Blocks |-> c[i]]
      /\ d = [i \in Blocks |-> d[i]]
    BY DEF IsSteps
<1> QED
    BY <1>2, <1>3

\* The walk along linked blocks gives these blocks.
LEMMA WalkLinked ==
    ASSUME NEW s, NEW b, NEW nx, Linked(s, b, nx), Len(s) <= Size
    PROVE  Walk(nx, b) = s
<1> DEFINE F == [i \in Blocks |-> At(s, i)]
           c == CHOOSE c : IsSteps(c, nx, b)
<1>1. IsSteps(c, nx, b)
    BY StepsAlong
<1>2. c = F
    BY <1>1, StepsAlong, StepsUnique
<1>3. Walk(nx, b) = [i \in {j \in Blocks : c[j] # None} |-> c[i]]
    BY DEF Walk, IsSteps
<1>4. s \in Seq(Blocks) /\ Len(s) \in Nat /\ Size \in Nat
    BY MessageQueueAssumption DEF Linked
<1>5. {j \in Blocks : F[j] # None} = 1..Len(s)
    BY <1>4, BlocksArePlaces DEF At, Blocks
<1>6. \A i \in 1..Len(s) : F[i] = s[i]
    BY <1>4, <1>5 DEF At
<1> HIDE DEF F, c
<1>7. Walk(nx, b) = [i \in 1..Len(s) |-> s[i]]
    BY <1>2, <1>3, <1>5, <1>6
<1> QED
    BY <1>4, <1>7
-----------------------------------------------------------------------------
(* The first block taken off a list, a block put last, a block put first *)

\* Links of blocks that are not in the list do not matter.
LEMMA LinkedElsewhere ==
    ASSUME NEW s, NEW b, NEW nx, NEW ny, Linked(s, b, nx),
           \A x : On(s, x) => ny[x] = nx[x]
    PROVE  Linked(s, b, ny)
BY DEF Linked, On

LEMMA EmptyLinked ==
    ASSUME NEW s, NEW b, NEW nx, Linked(s, b, nx)
    PROVE  /\ b = None <=> s = <<>>
           /\ s # <<>> => /\ b \in Blocks /\ b = s[1] /\ On(s, b)
                          /\ Len(s) \in Nat \ {0}
<1>1. s \in Seq(Blocks) /\ b = At(s, 1)
    BY DEF Linked
<1>2. CASE s = <<>>
    BY <1>1, <1>2 DEF At
<1>3. CASE s # <<>>
    <2>1. 1 \in 1..Len(s) /\ Len(s) \in Nat \ {0} /\ s[1] \in Blocks
        BY <1>1, <1>3
    <2> QED
        BY <1>1, <1>3, <2>1, BlocksArePlaces DEF At, On
<1> QED
    BY <1>2, <1>3

LEMMA TailFacts ==
    ASSUME NEW s \in Seq(Blocks), s # <<>>
    PROVE  /\ Tail(s) \in Seq(Blocks) /\ Len(Tail(s)) = Len(s) - 1
           /\ Len(s) \in Nat \ {0}
           /\ \A i \in 1..Len(s) - 1 : i + 1 \in 1..Len(s) /\ Tail(s)[i] = s[i + 1]
OBVIOUS

\* The first block is taken off.
LEMMA TailLinked ==
    ASSUME NEW s, NEW b, NEW nx, Linked(s, b, nx), Distinct(s), s # <<>>
    PROVE  /\ Linked(Tail(s), nx[b], nx) /\ Distinct(Tail(s))
           /\ Len(Tail(s)) = Len(s) - 1
           /\ \A x : On(Tail(s), x) <=> On(s, x) /\ x # b
           /\ At(Tail(s), Len(s) - 1) = IF At(s, Len(s)) = b THEN None ELSE At(s, Len(s))
<1> DEFINE r == Tail(s)
           n == Len(s)
<1>1. s \in Seq(Blocks)
    BY DEF Linked
<1>2. /\ r \in Seq(Blocks) /\ Len(r) = n - 1 /\ n \in Nat \ {0}
      /\ \A i \in 1..n - 1 : i + 1 \in 1..n /\ r[i] = s[i + 1]
    BY <1>1, TailFacts
<1>3. /\ b = s[1] /\ 1 \in 1..n
      /\ \A i \in 1..n : nx[s[i]] = At(s, i + 1)
      /\ \A i, j \in 1..n : s[i] = s[j] => i = j
      /\ \A i \in 1..n : s[i] \in Blocks
    BY <1>1, <1>2, EmptyLinked DEF Linked, Distinct
<1> HIDE DEF r, n
<1>4. \A i \in Nat \ {0} : At(r, i) = At(s, i + 1)
    <2> SUFFICES ASSUME NEW i \in Nat \ {0}
                 PROVE  At(r, i) = At(s, i + 1)
        OBVIOUS
    <2>1. i \in 1..n - 1 <=> i + 1 \in 1..n
        BY <1>2
    <2> QED
        BY <1>2, <2>1 DEF At, n
<1>5. nx[b] = At(r, 1)
    BY <1>3, <1>4
<1>6. ASSUME NEW i \in 1..Len(r)
      PROVE  nx[r[i]] = At(r, i + 1)
    <2>1. i + 1 \in 1..n /\ r[i] = s[i + 1] /\ i + 1 \in Nat \ {0}
        BY <1>2
    <2>2. nx[s[i + 1]] = At(s, (i + 1) + 1)
        BY <2>1, <1>3
    <2> QED
        BY <2>1, <2>2, <1>4
<1>7. Linked(r, nx[b], nx)
    BY <1>2, <1>5, <1>6 DEF Linked
<1>8. Distinct(r)
    <2> SUFFICES ASSUME NEW i \in 1..Len(r), NEW j \in 1..Len(r), r[i] = r[j]
                 PROVE  i = j
        BY DEF Distinct
    <2>1. i + 1 = j + 1
        BY <1>2, <1>3
    <2> QED
        BY <2>1, <1>2
<1>9. ASSUME NEW x
      PROVE  On(r, x) <=> On(s, x) /\ x # b
    <2>1. ASSUME On(r, x)
          PROVE  On(s, x) /\ x # b
        <3>1. PICK i \in 1..Len(r) : r[i] = x
            BY <2>1 DEF On
        <3>2. i + 1 \in 1..n /\ s[i + 1] = x /\ i + 1 # 1
            BY <3>1, <1>2
        <3> QED
            BY <3>2, <1>3 DEF On, n
    <2>2. ASSUME On(s, x), x # b
          PROVE  On(r, x)
        <3>1. PICK i \in 1..n : s[i] = x
            BY <2>2 DEF On, n
        <3>2. i # 1
            BY <3>1, <2>2, <1>3
        <3>3. i - 1 \in 1..Len(r) /\ r[i - 1] = s[(i - 1) + 1] /\ (i - 1) + 1 = i
            BY <3>1, <3>2, <1>2
        <3> QED
            BY <3>1, <3>3 DEF On
    <2> QED
        BY <2>1, <2>2
<1>10. At(r, n - 1) = IF At(s, n) = b THEN None ELSE At(s, n)
    <2>1. At(s, n) = s[n] /\ n \in 1..n
        BY <1>2 DEF At, n
    <2>2. CASE n = 1
        <3>1. At(r, n - 1) = None
            BY <2>2, <1>2 DEF At
        <3> QED
            BY <2>1, <2>2, <3>1, <1>3
    <2>3. CASE n # 1
        <3>1. s[n] # b
            BY <2>1, <2>3, <1>3
        <3>2. n - 1 \in Nat \ {0} /\ (n - 1) + 1 = n
            BY <2>3, <1>2
        <3>3. At(r, n - 1) = At(s, n)
            BY <3>2, <1>4
        <3> QED
            BY <2>1, <3>1, <3>3
    <2> QED
        BY <2>2, <2>3
<1> QED
    BY <1>2, <1>7, <1>8, <1>9, <1>10 DEF r, n

\* A block is put last.
LEMMA AppendLinked ==
    ASSUME NEW s, NEW b, NEW nx, Linked(s, b, nx), Distinct(s), NEW x \in Blocks, ~On(s, x),
           NEW ny, ny[x] = None, \A y \in Blocks : y # x =>
               ny[y] = IF y = At(s, Len(s)) THEN x ELSE nx[y]
    PROVE  /\ Linked(Append(s, x), IF b = None THEN x ELSE b, ny) /\ Distinct(Append(s, x))
           /\ Len(Append(s, x)) = Len(s) + 1
           /\ \A y : On(Append(s, x), y) <=> On(s, y) \/ y = x
           /\ At(Append(s, x), Len(s) + 1) = x
<1> DEFINE r == Append(s, x)
           n == Len(s)
<1>1. s \in Seq(Blocks) /\ n \in Nat
    BY DEF Linked
<1>2. /\ r \in Seq(Blocks) /\ Len(r) = n + 1 /\ r[n + 1] = x
      /\ \A i \in 1..n : r[i] = s[i]
    BY <1>1
<1>3. /\ \A i \in 1..n : nx[s[i]] = At(s, i + 1)
      /\ \A i, j \in 1..n : s[i] = s[j] => i = j
      /\ \A i \in 1..n : s[i] \in Blocks /\ s[i] # x
    BY <1>1 DEF Linked, Distinct, On
<1>4. (IF b = None THEN x ELSE b) = At(r, 1)
    <2>1. CASE n = 0
        <3>1. b = None
            BY <1>1, <2>1 DEF Linked, At
        <3> QED
            BY <1>2, <2>1, <3>1 DEF At
    <2>2. CASE n # 0
        <3>1. 1 \in 1..n /\ 1 \in 1..Len(r)
            BY <1>1, <1>2, <2>2
        <3>2. b = s[1] /\ b # None
            BY <1>3, <3>1, BlocksArePlaces DEF Linked, At
        <3> QED
            BY <1>2, <3>1, <3>2 DEF At
    <2> QED
        BY <2>1, <2>2
<1> HIDE DEF r
<1>5. ASSUME NEW i \in 1..Len(r)
      PROVE  ny[r[i]] = At(r, i + 1)
    <2>1. CASE i = n + 1
        BY <1>1, <1>2, <2>1 DEF At
    <2>2. CASE i = n
        <3>1. i \in 1..n /\ At(s, n) = s[n] /\ i + 1 \in 1..Len(r)
            BY <1>1, <1>2, <2>2 DEF At
        <3>2. s[i] \in Blocks /\ s[i] # x /\ s[i] = At(s, Len(s))
            BY <1>3, <2>2, <3>1
        <3>3. ny[s[i]] = x
            BY <3>2
        <3> QED
            BY <1>2, <2>2, <3>1, <3>3 DEF At
    <2>3. CASE i # n /\ i # n + 1
        <3>1. i \in 1..n /\ i + 1 \in 1..n /\ n \in 1..n /\ i + 1 \in 1..Len(r)
            BY <1>1, <1>2, <2>3
        <3>2. s[i] # s[n] /\ At(s, n) = s[n] /\ At(s, i + 1) = s[i + 1]
            BY <1>3, <2>3, <3>1 DEF At
        <3>3. s[i] \in Blocks /\ s[i] # x /\ s[i] # At(s, Len(s))
            BY <1>3, <3>1, <3>2
        <3>4. ny[s[i]] = s[i + 1]
            BY <1>3, <3>1, <3>2, <3>3
        <3> QED
            BY <1>2, <3>1, <3>4 DEF At
    <2> QED
        BY <2>1, <2>2, <2>3
<1>6. Linked(r, IF b = None THEN x ELSE b, ny)
    BY <1>2, <1>4, <1>5 DEF Linked
<1>7. Distinct(r)
    <2> SUFFICES ASSUME NEW i \in 1..Len(r), NEW j \in 1..Len(r), r[i] = r[j]
                 PROVE  i = j
        BY DEF Distinct
    <2>1. /\ i = n + 1 \/ i \in 1..n
          /\ j = n + 1 \/ j \in 1..n
        BY <1>1, <1>2
    <2> QED
        BY <2>1, <1>2, <1>3
<1>8. ASSUME NEW y
      PROVE  On(r, y) <=> On(s, y) \/ y = x
    <2>1. \A i : i \in 1..Len(r) <=> i \in 1..n \/ i = n + 1
        BY <1>1, <1>2
    <2> QED
        BY <2>1, <1>2 DEF On
<1>9. At(r, n + 1) = x
    BY <1>1, <1>2 DEF At
<1> QED
    BY <1>2, <1>6, <1>7, <1>8, <1>9 DEF r

LEMMA FrontFacts ==
    ASSUME NEW S, NEW s \in Seq(S), NEW x \in S
    PROVE  /\ <<x>> \o s \in Seq(S) /\ Len(<<x>> \o s) = Len(s) + 1
           /\ (<<x>> \o s)[1] = x /\ Len(s) \in Nat
           /\ \A i \in 1..Len(s) : (<<x>> \o s)[i + 1] = s[i]
OBVIOUS

\* A block is put first.
LEMMA FrontLinked ==
    ASSUME NEW s, NEW b, NEW nx, Linked(s, b, nx), Distinct(s), NEW x \in Blocks, ~On(s, x),
           NEW ny, ny[x] = b, \A y \in Blocks : y # x => ny[y] = nx[y]
    PROVE  /\ Linked(<<x>> \o s, x, ny) /\ Distinct(<<x>> \o s)
           /\ Len(<<x>> \o s) = Len(s) + 1
           /\ \A y : On(<<x>> \o s, y) <=> On(s, y) \/ y = x
           /\ At(<<x>> \o s, Len(s) + 1) = IF At(s, Len(s)) = None THEN x ELSE At(s, Len(s))
<1> DEFINE r == <<x>> \o s
           n == Len(s)
<1>1. s \in Seq(Blocks) /\ n \in Nat
    BY DEF Linked
<1>2. /\ r \in Seq(Blocks) /\ Len(r) = n + 1 /\ r[1] = x
      /\ \A i \in 1..n : r[i + 1] = s[i]
    BY <1>1, FrontFacts
<1>3. /\ \A i \in 1..n : nx[s[i]] = At(s, i + 1)
      /\ \A i, j \in 1..n : s[i] = s[j] => i = j
      /\ \A i \in 1..n : s[i] \in Blocks /\ s[i] # x
      /\ b = At(s, 1)
    BY <1>1 DEF Linked, Distinct, On
<1> HIDE DEF r, n
<1>4. \A i \in 1..n + 1 : At(r, i + 1) = At(s, i)
    <2> SUFFICES ASSUME NEW i \in 1..n + 1
                 PROVE  At(r, i + 1) = At(s, i)
        OBVIOUS
    <2>1. i \in 1..n <=> i + 1 \in 1..n + 1
        BY <1>1
    <2> QED
        BY <1>2, <2>1 DEF At, n
<1>5. \A i \in 1..Len(r) : i = 1 \/ (i - 1 \in 1..n /\ r[i] = s[i - 1])
    <2> SUFFICES ASSUME NEW i \in 1..Len(r), i # 1
                 PROVE  i - 1 \in 1..n /\ r[i] = s[i - 1]
        OBVIOUS
    <2>1. i - 1 \in 1..n /\ (i - 1) + 1 = i
        BY <1>1, <1>2
    <2> QED
        BY <2>1, <1>2
<1>6. ASSUME NEW i \in 1..Len(r)
      PROVE  ny[r[i]] = At(r, i + 1)
    <2>0. i \in 1..n + 1 /\ At(r, i + 1) = At(s, i)
        BY <1>2, <1>4
    <2>1. CASE i = 1
        BY <1>2, <1>3, <2>0, <2>1
    <2>2. CASE i # 1
        <3>1. i - 1 \in 1..n /\ r[i] = s[i - 1] /\ (i - 1) + 1 = i
            BY <1>5, <2>0, <2>2
        <3>2. nx[s[i - 1]] = At(s, (i - 1) + 1)
            BY <1>3, <3>1
        <3>3. ny[s[i - 1]] = nx[s[i - 1]]
            BY <1>3, <3>1
        <3> QED
            BY <2>0, <3>1, <3>2, <3>3
    <2> QED
        BY <2>1, <2>2
<1>7. Linked(r, x, ny)
    BY <1>1, <1>2, <1>6 DEF Linked, At
<1>8. Distinct(r)
    <2> SUFFICES ASSUME NEW i \in 1..Len(r), NEW j \in 1..Len(r), r[i] = r[j]
                 PROVE  i = j
        BY DEF Distinct
    <2>1. (i = 1 /\ r[i] = x) \/ (i - 1 \in 1..n /\ r[i] = s[i - 1])
        BY <1>1, <1>2, <1>5
    <2>2. (j = 1 /\ r[j] = x) \/ (j - 1 \in 1..n /\ r[j] = s[j - 1])
        BY <1>1, <1>2, <1>5
    <2>3. ~(i = 1 /\ j - 1 \in 1..n /\ r[j] = s[j - 1]) /\ ~(j = 1 /\ i - 1 \in 1..n /\ r[i] = s[i - 1])
        BY <1>1, <1>2, <1>3
    <2>4. i - 1 \in 1..n /\ j - 1 \in 1..n /\ s[i - 1] = s[j - 1] => i - 1 = j - 1
        BY <1>1, <1>3
    <2>5. i \in Int /\ j \in Int
        OBVIOUS
    <2> QED
        BY <2>1, <2>2, <2>3, <2>4, <2>5
<1>9. ASSUME NEW y
      PROVE  On(r, y) <=> On(s, y) \/ y = x
    <2>1. ASSUME On(r, y)
          PROVE  On(s, y) \/ y = x
        BY <2>1, <1>2, <1>5 DEF On, n
    <2>2. ASSUME On(s, y)
          PROVE  On(r, y)
        <3>1. PICK i \in 1..n : s[i] = y
            BY <2>2 DEF On, n
        <3>2. i + 1 \in 1..Len(r) /\ r[i + 1] = y
            BY <1>1, <1>2, <3>1
        <3> QED
            BY <3>2 DEF On
    <2>3. On(r, x)
        <3>1. 1 \in 1..Len(r)
            BY <1>1, <1>2
        <3> QED
            BY <1>2, <3>1 DEF On
    <2> QED
        BY <2>1, <2>2, <2>3
<1>10. At(r, n + 1) = IF At(s, n) = None THEN x ELSE At(s, n)
    <2>1. CASE n = 0
        <3>1. At(s, n) = None /\ At(r, n + 1) = r[1]
            BY <1>2, <2>1 DEF At, n
        <3> QED
            BY <1>2, <3>1
    <2>2. CASE n # 0
        <3>1. n \in 1..n /\ n \in 1..n + 1 /\ At(s, n) = s[n]
            BY <1>1, <2>2 DEF At, n
        <3>2. At(s, n) # None
            BY <1>3, <3>1, BlocksArePlaces
        <3> QED
            BY <1>4, <3>1, <3>2
    <2> QED
        BY <2>1, <2>2
<1> QED
    BY <1>2, <1>7, <1>8, <1>9, <1>10 DEF r, n

\* The blocks of q, freed one by one, in front of the blocks of f.
Freed(q, f) ==
    [i \in 1..Len(q) + Len(f) |-> IF i <= Len(q) THEN q[Len(q) + 1 - i] ELSE f[i - Len(q)]]

LEMMA FreedFacts ==
    ASSUME NEW q \in Seq(Blocks), NEW f \in Seq(Blocks)
    PROVE  /\ Freed(q, f) \in Seq(Blocks) /\ Len(Freed(q, f)) = Len(q) + Len(f)
           /\ \A i \in 1..Len(q) : Freed(q, f)[Len(q) + 1 - i] = q[i]
           /\ \A i \in 1..Len(q) : Freed(q, f)[i] = q[Len(q) + 1 - i]
           /\ \A i \in 1..Len(f) : Freed(q, f)[Len(q) + i] = f[i]
<1> DEFINE n == Len(q)
           k == Len(f)
<1>1. n \in Nat /\ k \in Nat
    OBVIOUS
<1>2. /\ \A i \in 1..n : q[i] \in Blocks
      /\ \A i \in 1..k : f[i] \in Blocks
    OBVIOUS
<1> HIDE DEF n, k
<1>3. ASSUME NEW i \in 1..n + k
      PROVE  (IF i <= n THEN q[n + 1 - i] ELSE f[i - n]) \in Blocks
    <2>1. CASE i <= n
        <3>1. n + 1 - i \in 1..n
            BY <1>1, <2>1
        <3> QED
            BY <1>2, <2>1, <3>1
    <2>2. CASE ~(i <= n)
        <3>1. i - n \in 1..k
            BY <1>1, <2>2
        <3> QED
            BY <1>2, <2>2, <3>1
    <2> QED
        BY <2>1, <2>2
<1>4. Freed(q, f) \in [1..n + k -> Blocks] /\ n + k \in Nat
    BY <1>1, <1>3 DEF Freed, n, k
<1>5. Freed(q, f) \in Seq(Blocks) /\ Len(Freed(q, f)) = n + k
    BY <1>4
<1>6. ASSUME NEW i \in 1..n
      PROVE  Freed(q, f)[n + 1 - i] = q[i] /\ Freed(q, f)[i] = q[n + 1 - i]
    <2>1. /\ n + 1 - i \in 1..n + k /\ n + 1 - i <= n /\ n + 1 - (n + 1 - i) = i
          /\ i \in 1..n + k /\ i <= n
        BY <1>1
    <2>2. Freed(q, f)[n + 1 - i] = q[n + 1 - (n + 1 - i)]
        BY <2>1 DEF Freed, n, k
    <2>3. Freed(q, f)[i] = q[n + 1 - i]
        BY <2>1 DEF Freed, n, k
    <2> QED
        BY <2>1, <2>2, <2>3
<1>7. ASSUME NEW i \in 1..k
      PROVE  Freed(q, f)[n + i] = f[i]
    <2>1. n + i \in 1..n + k /\ ~(n + i <= n) /\ (n + i) - n = i
        BY <1>1
    <2>2. Freed(q, f)[n + i] = f[(n + i) - n]
        BY <2>1 DEF Freed, n, k
    <2> QED
        BY <2>1, <2>2
<1> QED
    BY <1>5, <1>6, <1>7 DEF n, k

\* All blocks of q are freed, the first one first.
LEMMA FreedLinked ==
    ASSUME NEW q, NEW h, NEW f, NEW b, NEW nx, Linked(q, h, nx), Linked(f, b, nx),
           Distinct(q), Distinct(f), \A x : ~(On(q, x) /\ On(f, x)),
           NEW ny, \A i \in 1..Len(q) : ny[q[i]] = IF i = 1 THEN b ELSE q[i - 1],
           \A x \in Blocks : ~On(q, x) => ny[x] = nx[x]
    PROVE  /\ Linked(Freed(q, f), IF Len(q) + 1 = 1 THEN b ELSE q[Len(q)], ny)
           /\ Distinct(Freed(q, f)) /\ Len(Freed(q, f)) = Len(q) + Len(f)
           /\ \A x : On(Freed(q, f), x) <=> On(q, x) \/ On(f, x)
<1> DEFINE r == Freed(q, f)
           n == Len(q)
           k == Len(f)
<1>1. q \in Seq(Blocks) /\ f \in Seq(Blocks) /\ n \in Nat /\ k \in Nat
    BY DEF Linked
<1>2. /\ r \in Seq(Blocks) /\ Len(r) = n + k
      /\ \A i \in 1..n : r[n + 1 - i] = q[i]
      /\ \A i \in 1..n : r[i] = q[n + 1 - i]
      /\ \A i \in 1..k : r[n + i] = f[i]
    BY <1>1, FreedFacts
<1>3. /\ \A i, j \in 1..n : q[i] = q[j] => i = j
      /\ \A i, j \in 1..k : f[i] = f[j] => i = j
      /\ \A i \in 1..n, j \in 1..k : q[i] # f[j]
      /\ \A i \in 1..k : f[i] \in Blocks /\ ny[f[i]] = At(f, i + 1)
      /\ b = At(f, 1)
    <2>1. /\ \A i, j \in 1..n : q[i] = q[j] => i = j
          /\ \A i, j \in 1..k : f[i] = f[j] => i = j
        BY DEF Distinct
    <2>2. \A i \in 1..n, j \in 1..k : q[i] # f[j]
        BY DEF On
    <2>3. ASSUME NEW i \in 1..k
          PROVE  f[i] \in Blocks /\ ny[f[i]] = At(f, i + 1)
        <3>1. f[i] \in Blocks /\ nx[f[i]] = At(f, i + 1)
            BY <1>1 DEF Linked
        <3>2. ~On(q, f[i])
            BY <2>2 DEF On
        <3> QED
            BY <3>1, <3>2
    <2> QED
        BY <2>1, <2>2, <2>3 DEF Linked
<1> HIDE DEF r, n, k
<1>4. \A i \in 1..Len(r) : \/ i \in 1..n
                           \/ i - n \in 1..k /\ n + (i - n) = i
    BY <1>1, <1>2
<1>5. \A i \in 1..k + 1 : At(r, n + i) = At(f, i)
    <2> SUFFICES ASSUME NEW i \in 1..k + 1
                 PROVE  At(r, n + i) = At(f, i)
        OBVIOUS
    <2>1. n + i \in 1..n + k <=> i \in 1..k
        BY <1>1
    <2> QED
        BY <1>2, <2>1 DEF At, k
<1>6. (IF n + 1 = 1 THEN b ELSE q[n]) = At(r, 1)
    <2>1. CASE n = 0
        <3>1. 1 \in 1..k + 1 /\ n + 1 = 1
            BY <1>1, <2>1
        <3> QED
            BY <1>3, <1>5, <3>1
    <2>2. CASE n # 0
        <3>1. n \in 1..n /\ n + 1 - n = 1 /\ 1 \in 1..Len(r) /\ n + 1 # 1
            BY <1>1, <1>2, <2>2
        <3>2. r[n + 1 - n] = q[n]
            BY <1>2, <3>1
        <3> QED
            BY <3>1, <3>2 DEF At
    <2> QED
        BY <2>1, <2>2
<1>7. ASSUME NEW i \in 1..Len(r)
      PROVE  ny[r[i]] = At(r, i + 1)
    <2>1. CASE i \in 1..n
        <3> DEFINE j == n + 1 - i
        <3>1. j \in 1..n /\ r[i] = q[j]
            BY <1>1, <1>2, <2>1
        <3>2. ny[q[j]] = IF j = 1 THEN b ELSE q[j - 1]
            BY <3>1 DEF n
        <3>3. CASE j = 1
            <4>1. i + 1 = n + 1 /\ 1 \in 1..k + 1
                BY <1>1, <2>1, <3>3
            <4>2. At(r, i + 1) = b
                BY <1>3, <1>5, <4>1
            <4> QED
                BY <3>1, <3>2, <3>3, <4>2
        <3>4. CASE j # 1
            <4>1. j - 1 \in 1..n /\ n + 1 - (j - 1) = i + 1 /\ i + 1 \in 1..Len(r)
                BY <1>1, <1>2, <2>1, <3>4
            <4>2. r[n + 1 - (j - 1)] = q[j - 1]
                BY <1>2, <4>1
            <4>3. At(r, i + 1) = q[j - 1]
                BY <4>1, <4>2 DEF At
            <4> QED
                BY <3>1, <3>2, <3>4, <4>3
        <3> QED
            BY <3>3, <3>4
    <2>2. CASE i \notin 1..n
        <3> DEFINE j == i - n
        <3>1. j \in 1..k /\ n + j = i /\ j + 1 \in 1..k + 1 /\ n + (j + 1) = i + 1
            BY <1>1, <1>4, <2>2
        <3>2. r[i] = f[j]
            BY <1>2, <3>1
        <3>3. At(r, i + 1) = At(f, j + 1)
            BY <1>5, <3>1
        <3> QED
            BY <1>3, <3>1, <3>2, <3>3
    <2> QED
        BY <2>1, <2>2
<1>8. Linked(r, IF n + 1 = 1 THEN b ELSE q[n], ny)
    BY <1>2, <1>6, <1>7 DEF Linked
<1>9. Distinct(r)
    <2> SUFFICES ASSUME NEW i \in 1..Len(r), NEW j \in 1..Len(r), r[i] = r[j]
                 PROVE  i = j
        BY DEF Distinct
    <2>0. r[i] = r[j]
        OBVIOUS
    <2>1. ASSUME NEW x \in 1..Len(r)
          PROVE  \/ x \in 1..n /\ n + 1 - x \in 1..n /\ r[x] = q[n + 1 - x]
                 \/ x - n \in 1..k /\ r[x] = f[x - n]
        <3>1. CASE x \in 1..n
            BY <1>1, <1>2, <3>1
        <3>2. CASE x \notin 1..n
            BY <1>2, <1>4, <3>2
        <3> QED
            BY <3>1, <3>2
    <2>2. CASE i \in 1..n /\ n + 1 - i \in 1..n /\ r[i] = q[n + 1 - i]
        <3>1. CASE j \in 1..n /\ n + 1 - j \in 1..n /\ r[j] = q[n + 1 - j]
            <4>1. n + 1 - i = n + 1 - j
                BY <1>3, <2>2, <3>1
            <4> QED
                BY <4>1, <1>1
        <3>2. CASE j - n \in 1..k /\ r[j] = f[j - n]
            <4>1. q[n + 1 - i] # f[j - n]
                BY <1>3, <2>2, <3>2
            <4> QED
                BY <2>0, <2>2, <3>2, <4>1
        <3> QED
            BY <2>1, <3>1, <3>2
    <2>3. CASE i - n \in 1..k /\ r[i] = f[i - n]
        <3>1. CASE j \in 1..n /\ n + 1 - j \in 1..n /\ r[j] = q[n + 1 - j]
            <4>1. q[n + 1 - j] # f[i - n]
                BY <1>3, <2>3, <3>1
            <4> QED
                BY <2>0, <2>3, <3>1, <4>1
        <3>2. CASE j - n \in 1..k /\ r[j] = f[j - n]
            <4>1. i - n = j - n
                BY <1>3, <2>3, <3>2
            <4> QED
                BY <4>1, <1>1
        <3> QED
            BY <2>1, <3>1, <3>2
    <2> QED
        BY <2>1, <2>2, <2>3
<1>10. ASSUME NEW x
       PROVE  On(r, x) <=> On(q, x) \/ On(f, x)
    <2>1. ASSUME On(r, x)
          PROVE  On(q, x) \/ On(f, x)
        <3>1. PICK i \in 1..Len(r) : r[i] = x
            BY <2>1 DEF On
        <3>2. CASE i \in 1..n
            <4>1. n + 1 - i \in 1..n /\ r[i] = q[n + 1 - i]
                BY <1>1, <1>2, <3>2
            <4> QED
                BY <3>1, <4>1 DEF On, n
        <3>3. CASE i \notin 1..n
            <4>1. i - n \in 1..k /\ r[i] = f[i - n]
                BY <1>2, <1>4, <3>3
            <4> QED
                BY <3>1, <4>1 DEF On, k
        <3> QED
            BY <3>2, <3>3
    <2>2. ASSUME On(q, x)
          PROVE  On(r, x)
        <3>1. PICK i \in 1..n : q[i] = x
            BY <2>2 DEF On, n
        <3>2. n + 1 - i \in 1..Len(r) /\ r[n + 1 - i] = q[i]
            BY <1>1, <1>2, <3>1
        <3> QED
            BY <3>1, <3>2 DEF On
    <2>3. ASSUME On(f, x)
          PROVE  On(r, x)
        <3>1. PICK i \in 1..k : f[i] = x
            BY <2>3 DEF On, k
        <3>2. n + i \in 1..Len(r) /\ r[n + i] = f[i]
            BY <1>1, <1>2, <3>1
        <3> QED
            BY <3>1, <3>2 DEF On
    <2> QED
        BY <2>1, <2>2, <2>3
<1> QED
    BY <1>2, <1>8, <1>9, <1>10 DEF r, n, k

-----------------------------------------------------------------------------
(* The invariant of the blocks *)

\* The two lists and the blocks m[c] of the calls c in H have no block in
\* common, and no other block is left.
Apart(q, f, H, m) ==
    /\ Distinct(q) /\ Distinct(f) /\ \A x : ~(On(q, x) /\ On(f, x))
    /\ \A c \in H : m[c] \in Blocks /\ ~On(q, m[c]) /\ ~On(f, m[c])
    /\ \A c, d \in H : m[c] = m[d] => c = d
    /\ \A x \in Blocks : On(q, x) \/ On(f, x) \/ \E c \in H : m[c] = x

\* The queued blocks are those of q and the free ones those of f.
Shape(q, f) ==
    /\ Linked(q, msg_queue_head, next) /\ Linked(f, msg_queue_free, next)
    /\ Apart(q, f, Holders, msg)
    /\ Len(q) + Len(f) + Cardinality(Holders) = Size
    /\ entry = Len(q) /\ msg_queue_tail = At(q, Len(q))
    /\ \A x : On(q, x) => data[x] \in Messages

\* A call that sends has its message; a block that was unlinked has one.
CallsOK ==
    /\ next \in [Blocks -> Blocks \cup {None}]
    /\ data \in [Blocks -> Messages \cup {None}]
    /\ half \in [Callers -> {"none", "send", "urgent", "recv"}]
    /\ msg \in [Callers -> Blocks \cup {None}]
    /\ mail \in [Callers -> Messages \cup {None}]
    /\ call \in [Threads -> Ops \cup {"none"}]
    /\ \A c \in Callers : half[c] \in {"send", "urgent"} => mail[c] \in Messages
    /\ \A c \in Callers : half[c] = "recv" => data[msg[c]] \in Messages
    /\ \A t \in Threads : call[t] = "send" => mail[t] \in Messages
    /\ \A t \in Threads : call[t] # "none" => half[t] = "none"

LEMMA HoldersFinite ==
    /\ IsFiniteSet(Holders) /\ Cardinality(Holders) \in Nat
    /\ IsFiniteSet(Holders') /\ Cardinality(Holders') \in Nat
<1>1. IsFiniteSet(Callers)
    BY WaitAssumption, FS_AddElement DEF Callers
<1>2. Holders \subseteq Callers /\ Holders' \subseteq Callers
    BY DEF Holders
<1> QED
    BY <1>1, <1>2, FS_Subset, FS_CardinalityType

LEMMA HoldersBegin ==
    ASSUME CallsOK, NEW c \in Callers, half[c] = "none", NEW op, op # "none",
           half' = [half EXCEPT ![c] = op]
    PROVE  /\ Holders' = Holders \cup {c} /\ c \notin Holders
           /\ Cardinality(Holders') = Cardinality(Holders) + 1
<1>1. Holders' = Holders \cup {c} /\ c \notin Holders
    BY DEF CallsOK, Holders
<1> QED
    BY <1>1, HoldersFinite, FS_AddElement

LEMMA HoldersEnd ==
    ASSUME CallsOK, NEW c \in Callers, half[c] # "none", half' = [half EXCEPT ![c] = "none"]
    PROVE  /\ Holders' = Holders \ {c} /\ c \in Holders
           /\ Cardinality(Holders') = Cardinality(Holders) - 1
           /\ Cardinality(Holders) \in Nat \ {0}
<1>1. Holders' = Holders \ {c} /\ c \in Holders
    BY DEF CallsOK, Holders
<1>2. Cardinality(Holders') = Cardinality(Holders) - 1
    BY <1>1, HoldersFinite, FS_RemoveElement
<1> QED
    BY <1>1, <1>2, HoldersFinite

LEMMA ShapeTypes ==
    ASSUME NEW q, NEW f, Shape(q, f)
    PROVE  /\ q \in Seq(Blocks) /\ f \in Seq(Blocks)
           /\ Len(q) \in Nat /\ Len(f) \in Nat /\ Cardinality(Holders) \in Nat
           /\ Len(q) <= Size /\ Len(f) <= Size
<1>1. q \in Seq(Blocks) /\ f \in Seq(Blocks)
    BY DEF Shape, Linked
<1> QED
    BY <1>1, HoldersFinite, MessageQueueAssumption DEF Shape

LEMMA LengthsAddUp ==
    ASSUME NEW q, NEW f, Shape(q, f)
    PROVE  /\ Len(q) \in Nat /\ Len(f) \in Nat /\ Cardinality(Holders) \in Nat
           /\ Len(q) + Len(f) + Cardinality(Holders) = Size
<1>1. Len(q) + Len(f) + Cardinality(Holders) = Size
    BY DEF Shape
<1> QED
    BY <1>1, ShapeTypes

\* The list's first block goes to the call c.
LEMMA ApartTake ==
    ASSUME NEW q, NEW f, NEW H, NEW m, NEW c, NEW b, NEW mm, Apart(q, f, H, m), c \notin H,
           \A d \in H : mm[d] = m[d], mm[c] = b, b \in Blocks,
           NEW r, Distinct(r), On(f, b), \A x : On(r, x) <=> On(f, x) /\ x # b
    PROVE  Apart(q, r, H \cup {c}, mm)
BY DEF Apart

LEMMA ApartSwap ==
    ASSUME NEW q, NEW f, NEW H, NEW m
    PROVE  Apart(q, f, H, m) <=> Apart(f, q, H, m)
BY DEF Apart

\* The block of the call c goes to the list.
LEMMA ApartGive ==
    ASSUME NEW q, NEW f, NEW H, NEW m, NEW c \in H, NEW mm, Apart(q, f, H, m),
           \A d \in H \ {c} : mm[d] = m[d],
           NEW r, Distinct(r), \A x : On(r, x) <=> On(f, x) \/ x = m[c]
    PROVE  Apart(q, r, H \ {c}, mm)
BY DEF Apart

-----------------------------------------------------------------------------
(* What each half of a call does to the lists *)

LEMMA AllocShape ==
    ASSUME CallsOK, NEW q, NEW f, Shape(q, f), NEW c \in Callers, half[c] = "none",
           NEW op \in {"send", "urgent"}, NEW m, Alloc(c, op, m)
    PROVE  Shape(q, Tail(f))' /\ f # <<>>
<1> DEFINE r == Tail(f)
<1>1. /\ Linked(q, msg_queue_head, next) /\ Linked(f, msg_queue_free, next)
      /\ Apart(q, f, Holders, msg) /\ Distinct(f)
    BY DEF Shape, Apart
<1>2. f # <<>> /\ msg_queue_free \in Blocks /\ On(f, msg_queue_free)
    BY <1>1, EmptyLinked DEF Alloc
<1>3. /\ Linked(r, next[msg_queue_free], next) /\ Distinct(r)
      /\ Len(r) = Len(f) - 1
      /\ \A x : On(r, x) <=> On(f, x) /\ x # msg_queue_free
    BY <1>1, <1>2, TailLinked
<1> HIDE DEF r
<1>4. /\ Holders' = Holders \cup {c} /\ c \notin Holders
      /\ Cardinality(Holders') = Cardinality(Holders) + 1
    BY HoldersBegin DEF Alloc
<1>5. /\ msg' = [msg EXCEPT ![c] = msg_queue_free] /\ msg \in [Callers -> Blocks \cup {None}]
      /\ msg_queue_free' = next[msg_queue_free]
      /\ UNCHANGED <<msg_queue_head, msg_queue_tail, next, entry, data>>
    BY DEF Alloc, CallsOK
<1>6. msg'[c] = msg_queue_free /\ \A d \in Holders : msg'[d] = msg[d]
    BY <1>4, <1>5 DEF Holders
<1>7. Apart(q, r, Holders', msg')
    BY <1>1, <1>2, <1>3, <1>4, <1>6, ApartTake
<1>8. Len(q) + Len(r) + Cardinality(Holders') = Size
    BY <1>3, <1>4, LengthsAddUp
<1> QED
    BY <1>1, <1>2, <1>3, <1>5, <1>7, <1>8 DEF Shape, r

LEMMA UnlinkShape ==
    ASSUME CallsOK, NEW q, NEW f, Shape(q, f), NEW c \in Callers, half[c] = "none", Unlink(c)
    PROVE  Shape(Tail(q), f)' /\ q # <<>> /\ msg'[c] = q[1] /\ data[q[1]] \in Messages
<1> DEFINE r == Tail(q)
<1>1. /\ Linked(q, msg_queue_head, next) /\ Linked(f, msg_queue_free, next)
      /\ Apart(f, q, Holders, msg) /\ Distinct(q)
    BY ApartSwap DEF Shape, Apart
<1>2. /\ q # <<>> /\ msg_queue_head \in Blocks /\ On(q, msg_queue_head)
      /\ msg_queue_head = q[1]
    <2>1. q # <<>>
        BY DEF Unlink, Shape
    <2> QED
        BY <1>1, <2>1, EmptyLinked
<1>3. /\ Linked(r, next[msg_queue_head], next) /\ Distinct(r)
      /\ Len(r) = Len(q) - 1
      /\ \A x : On(r, x) <=> On(q, x) /\ x # msg_queue_head
      /\ At(r, Len(q) - 1) =
             IF At(q, Len(q)) = msg_queue_head THEN None ELSE At(q, Len(q))
    BY <1>1, <1>2, TailLinked
<1> HIDE DEF r
<1>4. /\ Holders' = Holders \cup {c} /\ c \notin Holders
      /\ Cardinality(Holders') = Cardinality(Holders) + 1
    BY HoldersBegin DEF Unlink
<1>5. /\ msg' = [msg EXCEPT ![c] = msg_queue_head] /\ msg \in [Callers -> Blocks \cup {None}]
      /\ msg_queue_head' = next[msg_queue_head] /\ entry' = entry - 1
      /\ msg_queue_tail' = IF msg_queue_tail = msg_queue_head THEN None ELSE msg_queue_tail
      /\ UNCHANGED <<msg_queue_free, next, data>>
    BY DEF Unlink, CallsOK
<1>6. msg'[c] = msg_queue_head /\ \A d \in Holders : msg'[d] = msg[d]
    BY <1>4, <1>5 DEF Holders
<1>7. Apart(r, f, Holders', msg')
    BY <1>1, <1>2, <1>3, <1>4, <1>6, ApartTake, ApartSwap
<1>8. Len(r) + Len(f) + Cardinality(Holders') = Size
    BY <1>3, <1>4, LengthsAddUp
<1>9. entry' = Len(r) /\ msg_queue_tail' = At(r, Len(r))
    BY <1>3, <1>5 DEF Shape
<1>10. \A x : On(q, x) => data[x] \in Messages
    BY DEF Shape
<1> QED
    BY <1>1, <1>2, <1>3, <1>5, <1>6, <1>7, <1>8, <1>9, <1>10 DEF Shape, r

\* What the second half does to the call itself.
Ends(c) ==
    /\ half' = [half EXCEPT ![c] = "none"]
    /\ msg' = [msg EXCEPT ![c] = None]

LEMMA EndsFacts ==
    ASSUME CallsOK, NEW q, NEW f, Shape(q, f), NEW c \in Callers, half[c] # "none", Ends(c)
    PROVE  /\ Holders' = Holders \ {c} /\ c \in Holders
           /\ Cardinality(Holders') = Cardinality(Holders) - 1
           /\ \A d \in Holders \ {c} : msg'[d] = msg[d]
           /\ msg[c] \in Blocks /\ ~On(q, msg[c]) /\ ~On(f, msg[c])
           /\ Len(q) < Size
<1>1. /\ Holders' = Holders \ {c} /\ c \in Holders
      /\ Cardinality(Holders') = Cardinality(Holders) - 1
      /\ Cardinality(Holders) \in Nat \ {0}
    BY HoldersEnd DEF Ends
<1>2. \A d \in Holders \ {c} : msg'[d] = msg[d]
    BY DEF Ends, CallsOK, Holders
<1>3. msg[c] \in Blocks /\ ~On(q, msg[c]) /\ ~On(f, msg[c])
    BY <1>1 DEF Shape, Apart
<1>4. Len(q) < Size
    BY <1>1, ShapeTypes, MessageQueueAssumption DEF Shape
<1> QED
    BY <1>1, <1>2, <1>3, <1>4

LEMMA LinkLastShape ==
    ASSUME CallsOK, NEW q, NEW f, Shape(q, f), NEW c \in Callers, LinkLast(c), Ends(c),
           NEW x, x = msg[c]
    PROVE  Shape(Append(q, x), f)'
<1>1. /\ Linked(q, msg_queue_head, next) /\ Linked(f, msg_queue_free, next)
      /\ Apart(f, q, Holders, msg) /\ Distinct(q) /\ msg_queue_tail = At(q, Len(q))
    BY ApartSwap DEF Shape, Apart
<1>2. half[c] = "send" /\ mail[c] \in Messages
    BY DEF LinkLast, CallsOK
<1>3. /\ Holders' = Holders \ {c} /\ c \in Holders
      /\ Cardinality(Holders') = Cardinality(Holders) - 1
      /\ \A d \in Holders \ {c} : msg'[d] = msg[d]
      /\ x \in Blocks /\ ~On(q, x) /\ ~On(f, x)
    BY <1>2, EndsFacts
<1>4. /\ next' = [b \in Blocks |-> IF b = x THEN None
                                   ELSE IF b = msg_queue_tail THEN x ELSE next[b]]
      /\ msg_queue_tail' = x /\ entry' = entry + 1 /\ msg_queue_free' = msg_queue_free
      /\ msg_queue_head' = IF msg_queue_head = None THEN x ELSE msg_queue_head
      /\ data' = [data EXCEPT ![x] = mail[c]]
    BY DEF LinkLast
<1>5. /\ next'[x] = None
      /\ \A y \in Blocks : y # x => next'[y] = IF y = At(q, Len(q)) THEN x ELSE next[y]
    BY <1>1, <1>3, <1>4
<1>6. /\ Linked(Append(q, x), msg_queue_head', next') /\ Distinct(Append(q, x))
      /\ Len(Append(q, x)) = Len(q) + 1
      /\ \A y : On(Append(q, x), y) <=> On(q, y) \/ y = x
      /\ At(Append(q, x), Len(q) + 1) = x
    BY <1>1, <1>3, <1>4, <1>5, AppendLinked
<1>7. ASSUME NEW y, On(f, y)
      PROVE  next'[y] = next[y]
    <2>0. y \in Blocks
        BY <1>1, <1>7 DEF Linked, On
    <2>1. y \in Blocks /\ y # x /\ ~On(q, y)
        BY <2>0, <1>1, <1>3, <1>7 DEF Apart
    <2>2. y # At(q, Len(q))
        <3>1. q \in Seq(Blocks) /\ Len(q) \in Nat
            BY <1>1 DEF Linked
        <3> QED
            BY <2>1, <3>1, BlocksArePlaces DEF At, On
    <2> QED
        BY <1>5, <2>1, <2>2
<1>8. Linked(f, msg_queue_free', next')
    BY <1>1, <1>4, <1>7, LinkedElsewhere
<1>9. Apart(Append(q, x), f, Holders', msg')
    BY <1>1, <1>3, <1>6, ApartGive, ApartSwap
<1>10. Len(Append(q, x)) + Len(f) + Cardinality(Holders') = Size
    BY <1>3, <1>6, LengthsAddUp
<1>11. entry' = Len(Append(q, x)) /\ msg_queue_tail' = At(Append(q, x), Len(Append(q, x)))
    BY <1>4, <1>6 DEF Shape
<1>12. \A y : On(Append(q, x), y) => data'[y] \in Messages
    <2>1. \A y : On(q, y) => y \in Blocks /\ data[y] \in Messages
        BY <1>1 DEF Shape, Linked, On
    <2>2. data \in [Blocks -> Messages \cup {None}]
        BY DEF CallsOK
    <2> QED
        BY <1>2, <1>3, <1>4, <1>6, <2>1, <2>2
<1> QED
    BY <1>6, <1>8, <1>9, <1>10, <1>11, <1>12 DEF Shape

LEMMA LinkFirstShape ==
    ASSUME CallsOK, NEW q, NEW f, Shape(q, f), NEW c \in Callers, LinkFirst(c), Ends(c),
           NEW x, x = msg[c]
    PROVE  Shape(<<x>> \o q, f)'
<1> DEFINE r == <<x>> \o q
<1>1. /\ Linked(q, msg_queue_head, next) /\ Linked(f, msg_queue_free, next)
      /\ Apart(f, q, Holders, msg) /\ Distinct(q) /\ msg_queue_tail = At(q, Len(q))
    BY ApartSwap DEF Shape, Apart
<1>2. half[c] = "urgent" /\ mail[c] \in Messages
    BY DEF LinkFirst, CallsOK
<1>3. /\ Holders' = Holders \ {c} /\ c \in Holders
      /\ Cardinality(Holders') = Cardinality(Holders) - 1
      /\ \A d \in Holders \ {c} : msg'[d] = msg[d]
      /\ x \in Blocks /\ ~On(q, x) /\ ~On(f, x)
    BY <1>2, EndsFacts
<1>4. /\ next' = [next EXCEPT ![x] = msg_queue_head] /\ next \in [Blocks -> Blocks \cup {None}]
      /\ msg_queue_head' = x /\ entry' = entry + 1 /\ msg_queue_free' = msg_queue_free
      /\ msg_queue_tail' = IF msg_queue_tail = None THEN x ELSE msg_queue_tail
      /\ data' = [data EXCEPT ![x] = mail[c]]
    BY DEF LinkFirst, CallsOK
<1>5. next'[x] = msg_queue_head /\ \A y \in Blocks : y # x => next'[y] = next[y]
    BY <1>3, <1>4
<1>6. /\ Linked(r, x, next') /\ Distinct(r) /\ Len(r) = Len(q) + 1
      /\ \A y : On(r, y) <=> On(q, y) \/ y = x
      /\ At(r, Len(q) + 1) = IF At(q, Len(q)) = None THEN x ELSE At(q, Len(q))
    BY <1>1, <1>3, <1>5, FrontLinked
<1> HIDE DEF r
<1>7. \A y : On(f, y) => next'[y] = next[y]
    BY <1>1, <1>3, <1>5 DEF Linked, On
<1>8. Linked(f, msg_queue_free', next')
    BY <1>1, <1>4, <1>7, LinkedElsewhere
<1>9. Apart(r, f, Holders', msg')
    BY <1>1, <1>3, <1>6, ApartGive, ApartSwap
<1>10. Len(r) + Len(f) + Cardinality(Holders') = Size
    BY <1>3, <1>6, LengthsAddUp
<1>11. entry' = Len(r) /\ msg_queue_tail' = At(r, Len(r)) /\ msg_queue_head' = x
    BY <1>1, <1>4, <1>6 DEF Shape
<1>12. \A y : On(r, y) => data'[y] \in Messages
    <2>1. \A y : On(q, y) => y \in Blocks /\ data[y] \in Messages
        BY <1>1 DEF Shape, Linked, On
    <2>2. data \in [Blocks -> Messages \cup {None}]
        BY DEF CallsOK
    <2> QED
        BY <1>2, <1>3, <1>4, <1>6, <2>1, <2>2
<1> QED
    BY <1>6, <1>8, <1>9, <1>10, <1>11, <1>12 DEF Shape, r

LEMMA FreeShape ==
    ASSUME CallsOK, NEW q, NEW f, Shape(q, f), NEW c \in Callers, Free(c), Ends(c),
           NEW x, x = msg[c]
    PROVE  Shape(q, <<x>> \o f)'
<1> DEFINE r == <<x>> \o f
<1>1. /\ Linked(q, msg_queue_head, next) /\ Linked(f, msg_queue_free, next)
      /\ Apart(q, f, Holders, msg) /\ Distinct(f)
    BY DEF Shape, Apart
<1>2. half[c] # "none"
    BY DEF Free
<1>3. /\ Holders' = Holders \ {c} /\ c \in Holders
      /\ Cardinality(Holders') = Cardinality(Holders) - 1
      /\ \A d \in Holders \ {c} : msg'[d] = msg[d]
      /\ x \in Blocks /\ ~On(q, x) /\ ~On(f, x)
    BY <1>2, EndsFacts
<1>4. /\ next' = [next EXCEPT ![x] = msg_queue_free] /\ next \in [Blocks -> Blocks \cup {None}]
      /\ msg_queue_free' = x
      /\ UNCHANGED <<msg_queue_head, msg_queue_tail, entry, data>>
    BY DEF Free, CallsOK
<1>5. next'[x] = msg_queue_free /\ \A y \in Blocks : y # x => next'[y] = next[y]
    BY <1>3, <1>4
<1>6. /\ Linked(r, x, next') /\ Distinct(r) /\ Len(r) = Len(f) + 1
      /\ \A y : On(r, y) <=> On(f, y) \/ y = x
    BY <1>1, <1>3, <1>5, FrontLinked
<1> HIDE DEF r
<1>7. \A y : On(q, y) => next'[y] = next[y]
    BY <1>1, <1>3, <1>5 DEF Linked, On
<1>8. Linked(q, msg_queue_head', next')
    BY <1>1, <1>4, <1>7, LinkedElsewhere
<1>9. Apart(q, r, Holders', msg')
    BY <1>1, <1>3, <1>6, ApartGive
<1>10. Len(q) + Len(r) + Cardinality(Holders') = Size
    BY <1>3, <1>6, LengthsAddUp
<1>11. /\ entry' = Len(q) /\ msg_queue_tail' = At(q, Len(q))
       /\ \A y : On(q, y) => data'[y] \in Messages
    BY <1>4 DEF Shape
<1> QED
    BY <1>4, <1>6, <1>8, <1>9, <1>10, <1>11 DEF Shape, r

LEMMA WalksOfShape ==
    ASSUME NEW q, NEW f, Shape(q, f)
    PROVE  Walk(next, msg_queue_head) = q /\ Walk(next, msg_queue_free) = f
<1>1. Linked(q, msg_queue_head, next) /\ Linked(f, msg_queue_free, next)
    BY DEF Shape
<1> QED
    BY <1>1, ShapeTypes, WalkLinked

\* RT_IPC_CMD_RESET
LEMMA ResetShape ==
    ASSUME CallsOK, NEW q, NEW f, Shape(q, f), NEW t \in Threads, Reset(t)
    PROVE  Shape(<<>>, Freed(q, f))' /\ next' \in [Blocks -> Blocks \cup {None}]
<1> DEFINE r == Freed(q, f)
           Place(b) == CHOOSE i \in DOMAIN q : q[i] = b
<1>1. /\ Linked(q, msg_queue_head, next) /\ Linked(f, msg_queue_free, next)
      /\ Apart(q, f, Holders, msg) /\ Distinct(q) /\ Distinct(f)
      /\ \A x : ~(On(q, x) /\ On(f, x))
    BY DEF Shape, Apart
<1>2. q \in Seq(Blocks) /\ f \in Seq(Blocks) /\ Len(q) \in Nat
    BY ShapeTypes
<1>3. DOMAIN q = 1..Len(q) /\ \A x : x \in ToSet(q) <=> On(q, x)
    BY <1>2 DEF ToSet, On
<1>4. /\ msg_queue_head' = None /\ entry' = 0 /\ UNCHANGED <<data, half, msg, mail>>
      /\ msg_queue_tail' = IF msg_queue_tail \in ToSet(q) THEN None ELSE msg_queue_tail
      /\ msg_queue_free' = IF Len(q) + 1 = 1 THEN msg_queue_free ELSE q[(Len(q) + 1) - 1]
      /\ next' = [b \in Blocks |->
                     IF b \in ToSet(q)
                     THEN IF Place(b) = 1 THEN msg_queue_free ELSE q[Place(b) - 1]
                     ELSE next[b]]
    BY WalksOfShape DEF Reset, halfVars
<1>5. ASSUME NEW i \in 1..Len(q)
      PROVE  next'[q[i]] = IF i = 1 THEN msg_queue_free ELSE q[i - 1]
    <2>1. q[i] \in Blocks /\ q[i] \in ToSet(q)
        BY <1>2, <1>3 DEF On
    <2>2. Place(q[i]) = i
        <3>1. \A j \in DOMAIN q : q[j] = q[i] => j = i
            BY <1>1, <1>3 DEF Distinct
        <3> QED
            BY <1>3, <3>1
    <2> HIDE DEF Place
    <2> QED
        BY <1>4, <2>1, <2>2
<1>6. \A x \in Blocks : ~On(q, x) => next'[x] = next[x]
    BY <1>3, <1>4
<1>7. msg_queue_free' = IF Len(q) + 1 = 1 THEN msg_queue_free ELSE q[Len(q)]
    BY <1>2, <1>4
<1>8. /\ Linked(r, msg_queue_free', next') /\ Distinct(r) /\ Len(r) = Len(q) + Len(f)
      /\ \A x : On(r, x) <=> On(q, x) \/ On(f, x)
    BY <1>1, <1>5, <1>6, <1>7, FreedLinked, SMTT(30)
<1> HIDE DEF r
<1>9. /\ <<>> \in Seq(Blocks) /\ Len(<<>>) = 0 /\ At(<<>>, 1) = None /\ At(<<>>, 0) = None
      /\ \A x : ~On(<<>>, x)
      /\ Distinct(<<>>)
    BY DEF At, On, Distinct
<1>10. Linked(<<>>, None, next')
    BY <1>9 DEF Linked
<1>11. Holders' = Holders
    BY <1>4 DEF Holders
<1>12. Apart(<<>>, r, Holders', msg')
    BY <1>1, <1>4, <1>8, <1>9, <1>11 DEF Apart
<1>13. Len(<<>>) + Len(r) + Cardinality(Holders') = Size
    BY <1>8, <1>9, <1>11, LengthsAddUp
<1>14. msg_queue_tail' = None
    <2>1. msg_queue_tail = At(q, Len(q))
        BY DEF Shape
    <2>2. At(q, Len(q)) = None \/ On(q, At(q, Len(q)))
        BY DEF At, On
    <2> QED
        BY <1>3, <1>4, <2>1, <2>2
<1>15. /\ Linked(<<>>, msg_queue_head', next') /\ entry' = Len(<<>>)
       /\ msg_queue_tail' = At(<<>>, Len(<<>>))
       /\ \A x : On(<<>>, x) => data'[x] \in Messages
    BY <1>4, <1>9, <1>10, <1>14
<1>16. ASSUME NEW b \in Blocks
       PROVE  next'[b] \in Blocks \cup {None}
    <2>1. CASE On(q, b)
        <3>1. PICK i \in 1..Len(q) : q[i] = b
            BY <2>1 DEF On
        <3>2. msg_queue_free \in Blocks \cup {None}
            BY <1>1, EmptyLinked
        <3>3. i # 1 => q[i - 1] \in Blocks
            BY <1>2
        <3> QED
            BY <1>5, <3>1, <3>2, <3>3
    <2>2. CASE ~On(q, b)
        BY <1>6, <2>2 DEF CallsOK
    <2> QED
        BY <2>1, <2>2
<1>17. next' \in [Blocks -> Blocks \cup {None}]
    <2> HIDE DEF Place
    <2>1. next' = [b \in Blocks |-> next'[b]]
        BY <1>4
    <2> QED
        BY <1>16, <2>1
<1> QED
    BY <1>8, <1>12, <1>13, <1>15, <1>17 DEF Shape, r

-----------------------------------------------------------------------------
(* The invariant is kept *)

\* What a step does to the blocks, whoever takes it.
BlockStep ==
    \/ \E c \in Callers :
        /\ half[c] = "none" /\ UNCHANGED got
        /\ (\E op \in {"send", "urgent"}, m \in Messages : Alloc(c, op, m)) \/ Unlink(c)
    \/ \E c \in Callers : SecondHalf(c)
    \/ \E t \in Threads : Reset(t)
    \/ /\ UNCHANGED <<linkVars, data, half, msg, got>>
       /\ \A c \in Callers : half[c] # "none" => mail'[c] = mail[c]

LEMMA StepsOfNext ==
    ASSUME CallsOK, [Next]_vars
    PROVE  BlockStep
<1>0. \A t \in Threads : t \in Callers
    BY DEF Callers
<1>1. CASE UNCHANGED vars
    BY <1>1 DEF vars, halfVars, linkVars, BlockStep
<1>2. CASE \E t \in Threads : Begin(t)
    BY <1>0, <1>2 DEF Begin, Idle, FirstHalf, BlockStep
<1>3. CASE \E t \in Threads : Finish(t)
    BY <1>0, <1>3 DEF Finish, BlockStep
<1>4. CASE IsrBegin
    BY <1>4 DEF IsrBegin, IsrMayRun, FirstHalf, BlockStep, Callers
<1>5. CASE IsrFinish
    BY <1>5 DEF IsrFinish, BlockStep, Callers
<1>6. ASSUME NEW t \in Threads, NEW op, NEW m, NEW limit, Wait(t, op, m, limit)
      PROVE  BlockStep
    <2>1. half[t] = "none" /\ mail' = [mail EXCEPT ![t] = m]
        BY <1>6 DEF Wait, Idle
    <2>2. \A c \in Callers : half[c] # "none" => mail'[c] = mail[c]
        BY <2>1 DEF CallsOK
    <2> QED
        BY <1>6, <2>2 DEF Wait, BlockStep
<1>7. ASSUME NEW t \in Threads, WaitFailed(t) \/ GiveUp(t)
      PROVE  BlockStep
    <2>1. half[t] = "none" /\ mail' = [mail EXCEPT ![t] = None]
        BY <1>7 DEF WaitFailed, GiveUp, Back, Ops, CallsOK
    <2>2. \A c \in Callers : half[c] # "none" => mail'[c] = mail[c]
        BY <2>1 DEF CallsOK
    <2> QED
        BY <1>7, <2>2 DEF WaitFailed, GiveUp, BlockStep
<1>8. ASSUME NEW t \in Threads, WaitDone(t)
      PROVE  BlockStep
    <2>1. /\ half[t] = "none" /\ got' = got /\ t \in Callers
          /\ call[t] = "send" => mail[t] \in Messages /\ Alloc(t, "send", mail[t])
          /\ call[t] # "send" => Unlink(t)
        BY <1>0, <1>8 DEF WaitDone, Back, Ops, CallsOK
    <2>2. CASE call[t] = "send"
        BY <2>1, <2>2 DEF BlockStep
    <2>3. CASE call[t] # "send"
        BY <2>1, <2>3 DEF BlockStep
    <2> QED
        BY <2>2, <2>3
<1>9. CASE \E t \in Threads : WaitAgain(t)
    BY <1>9 DEF WaitAgain, halfVars, BlockStep
<1>10. CASE \E t \in Threads : Reset(t)
    BY <1>10 DEF BlockStep
<1>11. CASE \E t \in Threads : Detach(t)
    BY <1>11 DEF Detach, halfVars, BlockStep
<1>12. CASE Tick
    BY <1>12 DEF Tick, halfVars, BlockStep
<1> QED
    BY <1>1, <1>2, <1>3, <1>4, <1>5, <1>6, <1>7, <1>8, <1>9, <1>10, <1>11, <1>12 DEF Next

\* The blocks of the lists after a step.
LEMMA ShapeStays ==
    ASSUME CallsOK, NEW q, NEW f, Shape(q, f), BlockStep
    PROVE  \E r, g : Shape(r, g)'
<1>1. ASSUME NEW c \in Callers, half[c] = "none",
             NEW op \in {"send", "urgent"}, NEW m \in Messages, Alloc(c, op, m)
      PROVE  \E r, g : Shape(r, g)'
    BY <1>1, AllocShape
<1>2. ASSUME NEW c \in Callers, half[c] = "none", Unlink(c)
      PROVE  \E r, g : Shape(r, g)'
    BY <1>2, UnlinkShape
<1>3. ASSUME NEW c \in Callers, SecondHalf(c)
      PROVE  \E r, g : Shape(r, g)'
    <2>1. Ends(c) /\ (LinkLast(c) \/ LinkFirst(c) \/ Free(c))
        BY <1>3 DEF SecondHalf, Ends
    <2>2. PICK x : x = msg[c]
        OBVIOUS
    <2>3. CASE LinkLast(c)
        BY <2>1, <2>2, <2>3, LinkLastShape
    <2>4. CASE LinkFirst(c)
        BY <2>1, <2>2, <2>4, LinkFirstShape
    <2>5. CASE Free(c)
        BY <2>1, <2>2, <2>5, FreeShape
    <2> QED
        BY <2>1, <2>3, <2>4, <2>5
<1>4. ASSUME NEW t \in Threads, Reset(t)
      PROVE  \E r, g : Shape(r, g)'
    BY <1>4, ResetShape
<1>5. CASE UNCHANGED <<linkVars, data, half, msg, got>>
    <2>1. Shape(q, f)'
        BY <1>5 DEF Shape, linkVars, Holders
    <2> QED
        BY <2>1
<1> QED
    BY <1>1, <1>2, <1>3, <1>4, <1>5 DEF BlockStep

\* Nobody writes to a block that another call has unlinked.
LEMMA UnlinkedKept ==
    ASSUME CallsOK, NEW q, NEW f, Shape(q, f), NEW c \in Callers, SecondHalf(c),
           NEW d \in Callers, d # c, half[d] = "recv"
    PROVE  data'[msg[d]] = data[msg[d]] /\ msg[d] \in Blocks
<1>1. half[c] # "none"
    BY DEF SecondHalf, LinkLast, LinkFirst, Free
<1>2. c \in Holders /\ d \in Holders
    BY <1>1 DEF Holders
<1>3. msg[c] # msg[d] /\ msg[c] \in Blocks /\ msg[d] \in Blocks
    BY <1>2 DEF Shape, Apart
<1>4. data' = [data EXCEPT ![msg[c]] = mail[c]] \/ data' = data
    BY DEF SecondHalf, LinkLast, LinkFirst, Free
<1> QED
    BY <1>3, <1>4 DEF CallsOK

LEMMA FirstHalfCalls ==
    ASSUME CallsOK, NEW q, NEW f, Shape(q, f), NEW c \in Callers, half[c] = "none",
           (\E op \in {"send", "urgent"}, m \in Messages : Alloc(c, op, m)) \/ Unlink(c),
           call' \in [Threads -> Ops \cup {"none"}],
           \A t \in Threads : call'[t] # "none" => call'[t] = call[t] /\ t # c
    PROVE  CallsOK'
<1>1. ASSUME NEW op \in {"send", "urgent"}, NEW m \in Messages, Alloc(c, op, m)
      PROVE  CallsOK'
    <2>1. msg_queue_free \in Blocks
        BY <1>1, EmptyLinked DEF Shape, Alloc
    <2>2. /\ half' = [half EXCEPT ![c] = op] /\ msg' = [msg EXCEPT ![c] = msg_queue_free]
          /\ mail' = [mail EXCEPT ![c] = m] /\ UNCHANGED <<next, data>>
        BY <1>1 DEF Alloc
    <2> QED
        BY <2>1, <2>2 DEF CallsOK, Callers
<1>2. ASSUME Unlink(c)
      PROVE  CallsOK'
    <2>1. msg'[c] = q[1] /\ data[q[1]] \in Messages /\ msg_queue_head \in Blocks
        <3>1. q # <<>> /\ msg'[c] = q[1] /\ data[q[1]] \in Messages
            BY <1>2, UnlinkShape
        <3> QED
            BY <3>1, EmptyLinked DEF Shape
    <2>2. /\ half' = [half EXCEPT ![c] = "recv"] /\ msg' = [msg EXCEPT ![c] = msg_queue_head]
          /\ mail' = [mail EXCEPT ![c] = None] /\ UNCHANGED <<next, data>>
        BY <1>2 DEF Unlink
    <2> QED
        BY <2>1, <2>2 DEF CallsOK, Callers
<1> QED
    BY <1>1, <1>2

LEMMA SecondHalfCalls ==
    ASSUME CallsOK, NEW q, NEW f, Shape(q, f), NEW c \in Callers, SecondHalf(c)
    PROVE  CallsOK'
<1>1. /\ half' = [half EXCEPT ![c] = "none"] /\ msg' = [msg EXCEPT ![c] = None]
      /\ mail' = [mail EXCEPT ![c] = None] /\ call' = call
      /\ half[c] # "none"
    BY DEF SecondHalf, LinkLast, LinkFirst, Free
<1>2. msg[c] \in Blocks
    BY <1>1, EndsFacts DEF Ends
<1>3. next' \in [Blocks -> Blocks \cup {None}] /\ data' \in [Blocks -> Messages \cup {None}]
    <2>1. mail[c] \in Messages \cup {None}
        BY DEF CallsOK
    <2>2. msg_queue_head \in Blocks \cup {None} /\ msg_queue_free \in Blocks \cup {None}
        BY EmptyLinked DEF Shape
    <2>3. CASE LinkLast(c)
        BY <1>2, <2>1, <2>3 DEF LinkLast, CallsOK
    <2>4. CASE LinkFirst(c)
        BY <1>2, <2>1, <2>2, <2>4 DEF LinkFirst, CallsOK
    <2>5. CASE Free(c)
        BY <1>2, <2>1, <2>2, <2>5 DEF Free, CallsOK
    <2> QED
        BY <2>3, <2>4, <2>5 DEF SecondHalf
<1>4. ASSUME NEW d \in Callers, half'[d] = "recv"
      PROVE  data'[msg'[d]] \in Messages
    <2>1. d # c /\ half[d] = "recv" /\ msg'[d] = msg[d]
        BY <1>1, <1>4 DEF CallsOK
    <2>2. data'[msg[d]] = data[msg[d]]
        BY <2>1, UnlinkedKept
    <2> QED
        BY <2>1, <2>2 DEF CallsOK
<1> QED
    BY <1>1, <1>3, <1>4 DEF CallsOK, Callers

LEMMA CallsStayRight ==
    ASSUME CallsOK, NEW q, NEW f, Shape(q, f), [Next]_vars
    PROVE  CallsOK'
<1>0. \A t \in Threads : t \in Callers /\ t # Isr
    BY MessageQueueAssumption DEF Callers
<1>1. CASE UNCHANGED vars
    BY <1>1 DEF vars, halfVars, linkVars, waitVars, CallsOK
<1>2. ASSUME NEW t \in Threads, Begin(t)
      PROVE  CallsOK'
    <2>1. half[t] = "none" /\ call[t] = "none" /\ call' = call /\ FirstHalf(t)
        BY <1>2 DEF Begin, Idle, InThread, waitVars
    <2>2. /\ call' \in [Threads -> Ops \cup {"none"}]
          /\ \A u \in Threads : call'[u] # "none" => call'[u] = call[u] /\ u # t
        BY <2>1 DEF CallsOK
    <2> QED
        BY <1>0, <2>1, <2>2, FirstHalfCalls DEF FirstHalf
<1>3. CASE \E t \in Threads : Finish(t)
    BY <1>0, <1>3, SecondHalfCalls DEF Finish
<1>4. CASE IsrBegin
    <2>1. half[Isr] = "none" /\ call' = call /\ FirstHalf(Isr) /\ Isr \in Callers
        BY <1>4 DEF IsrBegin, IsrMayRun, waitVars, Callers
    <2>2. /\ call' \in [Threads -> Ops \cup {"none"}]
          /\ \A u \in Threads : call'[u] # "none" => call'[u] = call[u] /\ u # Isr
        BY <1>0, <2>1 DEF CallsOK
    <2> QED
        BY <2>1, <2>2, FirstHalfCalls DEF FirstHalf
<1>5. CASE IsrFinish
    BY <1>5, SecondHalfCalls DEF IsrFinish, Callers
<1>6. ASSUME NEW t \in Threads, NEW op \in Ops, NEW m \in Messages \cup {None}, NEW limit,
             op = "send" => m \in Messages, Wait(t, op, m, limit)
      PROVE  CallsOK'
    <2>1. /\ half[t] = "none" /\ mail' = [mail EXCEPT ![t] = m]
          /\ call' = [call EXCEPT ![t] = op] /\ UNCHANGED <<next, data, half, msg>>
        BY <1>6 DEF Wait, Idle, SuspendToList, linkVars
    <2> QED
        BY <1>0, <1>6, <2>1 DEF CallsOK, Ops
<1>7. ASSUME NEW t \in Threads, WaitFailed(t) \/ GiveUp(t)
      PROVE  CallsOK'
    <2>1. /\ half[t] = "none" /\ mail' = [mail EXCEPT ![t] = None]
          /\ call' = [call EXCEPT ![t] = "none"] /\ UNCHANGED <<next, data, half, msg>>
        BY <1>7 DEF WaitFailed, GiveUp, Return, Back, Ops, CallsOK, linkVars
    <2> QED
        BY <1>0, <2>1 DEF CallsOK
<1>8. ASSUME NEW t \in Threads, WaitDone(t)
      PROVE  CallsOK'
    <2>1. /\ half[t] = "none" /\ t \in Callers /\ call' = [call EXCEPT ![t] = "none"]
          /\ call[t] = "send" => mail[t] \in Messages /\ Alloc(t, "send", mail[t])
          /\ call[t] # "send" => Unlink(t)
        BY <1>0, <1>8 DEF WaitDone, Back, Return, Ops, CallsOK
    <2>2. /\ call' \in [Threads -> Ops \cup {"none"}]
          /\ \A u \in Threads : call'[u] # "none" => call'[u] = call[u] /\ u # t
        BY <2>1 DEF CallsOK
    <2>3. (\E op \in {"send", "urgent"}, m \in Messages : Alloc(t, op, m)) \/ Unlink(t)
        BY <2>1
    <2> QED
        BY <2>1, <2>2, <2>3, FirstHalfCalls
<1>9. ASSUME NEW t \in Threads, WaitAgain(t)
      PROVE  CallsOK'
    <2>1. call' = [call EXCEPT ![t] = call[t]] /\ UNCHANGED <<next, data, half, msg, mail>>
        BY <1>9 DEF WaitAgain, SuspendToList, halfVars, linkVars
    <2>2. call' = call
        BY <2>1 DEF CallsOK
    <2> QED
        BY <2>1, <2>2 DEF CallsOK
<1>10. ASSUME NEW t \in Threads, Reset(t)
       PROVE  CallsOK'
    <2>1. next' \in [Blocks -> Blocks \cup {None}] /\ UNCHANGED <<call, data, half, msg, mail>>
        BY <1>10, ResetShape DEF Reset, halfVars
    <2> QED
        BY <2>1 DEF CallsOK
<1>11. CASE \E t \in Threads : Detach(t)
    BY <1>11 DEF Detach, halfVars, linkVars, CallsOK
<1>12. CASE Tick
    BY <1>12 DEF Tick, TimerExpires, ThreadTimeout, halfVars, linkVars, CallsOK
<1> QED
    BY <1>1, <1>2, <1>3, <1>4, <1>5, <1>6, <1>7, <1>8, <1>9, <1>10, <1>11, <1>12 DEF Next, Ops

\* The inductive invariant of the blocks: they are in two linked lists and in
\* the hands of calls, all apart.
BInv == CallsOK /\ \E q, f : Shape(q, f)

LEMMA BInvInit == Init => BInv
<1> SUFFICES ASSUME Init
             PROVE  BInv
    OBVIOUS
<1>1. Size \in Nat \ {0} /\ Size \in Blocks
    BY MessageQueueAssumption DEF Blocks
<1> DEFINE f == [i \in 1..Size |-> Size + 1 - i]
<1>2. f \in [1..Size -> Blocks]
    BY <1>1 DEF Blocks
<1>3. f \in Seq(Blocks) /\ Len(f) = Size
    BY <1>1, <1>2
<1>4. \A i \in 1..Size : f[i] = Size + 1 - i
    OBVIOUS
<1> HIDE DEF f
<1>5. Linked(f, msg_queue_free, next)
    <2>1. msg_queue_free = At(f, 1)
        BY <1>1, <1>3, <1>4 DEF Init, At
    <2>2. ASSUME NEW i \in 1..Len(f)
          PROVE  next[f[i]] = At(f, i + 1)
        <3>1. f[i] = Size + 1 - i /\ Size + 1 - i \in Blocks
            BY <1>1, <1>3, <1>4 DEF Blocks
        <3>2. next[f[i]] = IF f[i] = 1 THEN None ELSE f[i] - 1
            BY <3>1 DEF Init
        <3>3. CASE i = Size
            BY <1>1, <1>3, <3>1, <3>2, <3>3 DEF At
        <3>4. CASE i # Size
            <4>1. i + 1 \in 1..Size /\ Size + 1 - i # 1 /\ Size + 1 - (i + 1) = (Size + 1 - i) - 1
                BY <1>1, <1>3, <3>4
            <4>2. f[i + 1] = Size + 1 - (i + 1)
                BY <1>4, <4>1
            <4> QED
                BY <1>3, <3>1, <3>2, <4>1, <4>2 DEF At
        <3> QED
            BY <3>3, <3>4
    <2> QED
        BY <1>3, <2>1, <2>2 DEF Linked
<1>6. Distinct(f)
    BY <1>1, <1>3, <1>4 DEF Distinct
<1>7. ASSUME NEW x \in Blocks
      PROVE  On(f, x)
    <2>1. Size + 1 - x \in 1..Len(f) /\ Size + 1 - (Size + 1 - x) = x
        BY <1>1, <1>3 DEF Blocks
    <2>2. f[Size + 1 - x] = x
        BY <1>3, <1>4, <2>1
    <2> QED
        BY <2>1, <2>2 DEF On
<1>8. /\ <<>> \in Seq(Blocks) /\ Len(<<>>) = 0 /\ At(<<>>, 1) = None /\ At(<<>>, 0) = None
      /\ \A x : ~On(<<>>, x)
      /\ Distinct(<<>>)
    BY DEF At, On, Distinct
<1>9. Holders = {} /\ Cardinality(Holders) = 0
    <2>1. Holders = {}
        BY DEF Init, Holders
    <2> QED
        BY <2>1, FS_EmptySet
<1>10. Linked(<<>>, msg_queue_head, next)
    BY <1>8 DEF Init, Linked
<1>11. Apart(<<>>, f, Holders, msg)
    BY <1>6, <1>7, <1>8, <1>9 DEF Apart
<1>12. Len(<<>>) + Len(f) + Cardinality(Holders) = Size
    BY <1>1, <1>3, <1>8, <1>9
<1>13. entry = Len(<<>>) /\ msg_queue_tail = At(<<>>, Len(<<>>))
    BY <1>8 DEF Init
<1>14. Shape(<<>>, f)
    BY <1>5, <1>8, <1>10, <1>11, <1>12, <1>13 DEF Shape
<1>15. next \in [Blocks -> Blocks \cup {None}]
    BY <1>1 DEF Init, Blocks
<1>16. CallsOK
    BY <1>15 DEF Init, WaitInit, CallsOK
<1> QED
    BY <1>14, <1>16 DEF BInv

LEMMA BInvNext == BInv /\ [Next]_vars => BInv'
<1> SUFFICES ASSUME BInv, [Next]_vars
             PROVE  BInv'
    OBVIOUS
<1>1. PICK q, f : Shape(q, f)
    BY DEF BInv
<1>2. CallsOK
    BY DEF BInv
<1>3. CallsOK'
    BY <1>1, <1>2, CallsStayRight
<1>4. \E r, g : Shape(r, g)'
    BY <1>1, <1>2, StepsOfNext, ShapeStays
<1> QED
    BY <1>3, <1>4 DEF BInv

LEMMA BInvariance == Spec => []BInv
BY BInvInit, BInvNext, PTL DEF Spec

\* No interleaving of the halves of sends, urgent sends and receives, by any
\* number of threads and an interrupt, and no reset in between, loses a block
\* of the pool, links it twice or ties the free list and the queue together,
\* for a queue of any size.
THEOREM NoBlockIsLost == Spec => []BlocksAccounted
<1>1. ASSUME NEW q, NEW f, Shape(q, f)
      PROVE  BlocksAccounted
    <2>1. Walk(next, msg_queue_head) = q /\ Walk(next, msg_queue_free) = f
        BY <1>1, WalksOfShape
    <2>2. q \in Seq(Blocks) /\ f \in Seq(Blocks) /\ Len(q) \in Nat
        BY <1>1, ShapeTypes
    <2>3. /\ ToSet(q) = {x \in Blocks : On(q, x)}
          /\ ToSet(f) = {x \in Blocks : On(f, x)}
        BY <2>2 DEF ToSet, On
    <2>4. ToSet(q) \cup ToSet(f) \cup {msg[c] : c \in Holders} = Blocks
        BY <1>1, <2>3 DEF Shape, Apart
    <2>5. msg_queue_tail = IF q = <<>> THEN None ELSE Last(q)
        BY <1>1, <2>2 DEF Shape, At, Last
    <2> QED
        BY <1>1, <2>1, <2>4, <2>5 DEF BlocksAccounted, Shape
<1>2. BInv => BlocksAccounted
    BY <1>1 DEF BInv
<1> QED
    BY <1>2, BInvariance, PTL

-----------------------------------------------------------------------------
(* Waiting *)

\* A thread waits in the list of the call it is in.
WaitsInCall == \A l \in Ops : \A u \in Threads : On(susp[l], u) => call[u] = l

WInv == BInv /\ WaitInv /\ WaitsInCall

LEMMA TwoLists == Lists = Ops /\ "send" \in Lists /\ "recv" \in Lists
BY MessageQueueAssumption DEF Ops

LEMMA WInvTypes ==
    ASSUME WInv
    PROVE  /\ call \in [Threads -> Ops \cup {"none"}] /\ error \in [Threads -> Errors]
           /\ half \in [Callers -> {"none", "send", "urgent", "recv"}]
           /\ stat \in [Threads -> {"ready", "suspended"}] /\ firing \in Threads \cup {None}
           /\ nested \in 0..NestMax /\ susp \in [Lists -> Seq(Threads)]
           /\ \A t \in Threads : t \in Callers /\ t # Isr
           /\ Isr \in Callers
BY MessageQueueAssumption DEF WInv, BInv, CallsOK, WaitInv, WaitTypeOK, Callers

\* Threads that go on waiting stay in their calls.
LEMMA ListedStayInCall ==
    ASSUME WInv, \A l \in Ops : \A u \in Threads : On(susp'[l], u) => On(susp[l], u),
           \A u \in Threads : stat[u] = "suspended" => call'[u] = call[u]
    PROVE  WaitsInCall'
<1> SUFFICES ASSUME NEW l \in Ops, NEW u \in Threads, On(susp'[l], u)
             PROVE  call'[u] = l
    BY DEF WaitsInCall
<1>1. On(susp[l], u)
    OBVIOUS
<1>2. stat[u] = "suspended"
    BY <1>1, TwoLists DEF WInv, WaitInv, ListedSuspended, On
<1> QED
    BY <1>1, <1>2 DEF WInv, WaitsInCall

\* The first half of a call, and a return without one, wake nobody.
NobodyWoken ==
    /\ UNCHANGED <<susp, stat, timer, ttmr, firing>>
    /\ error' \in [Threads -> Errors] /\ nested' \in 0..NestMax
    /\ \A u \in Threads : stat[u] = "suspended" => call'[u] = call[u]

LEMMA NobodyWokenSteps ==
    ASSUME WInv, \/ \E t \in Threads : Begin(t) \/ WaitFailed(t) \/ WaitDone(t) \/ GiveUp(t)
                 \/ IsrBegin
                 \/ UNCHANGED vars
    PROVE  NobodyWoken
<1> USE WInvTypes DEF NobodyWoken
<1>1. CASE UNCHANGED vars
    BY <1>1 DEF vars, waitVars
<1>2. CASE \E t \in Threads : Begin(t)
    BY <1>2 DEF Begin, waitVars
<1>3. CASE IsrBegin
    <2>1. nested' \in 0..NestMax
        BY <1>3, WaitAssumption DEF IsrBegin, IsrMayRun, InInterrupt, CountNested
    <2> QED
        BY <1>3, <2>1 DEF IsrBegin
<1>4. ASSUME NEW t \in Threads, WaitFailed(t) \/ GiveUp(t)
      PROVE  NobodyWoken
    <2>1. /\ stat[t] = "ready" /\ call' = [call EXCEPT ![t] = "none"]
          /\ UNCHANGED <<susp, stat, timer, ttmr, firing, nested>>
        BY <1>4 DEF WaitFailed, GiveUp, Back, Return
    <2>2. error' \in [Threads -> Errors]
        BY <1>4 DEF WaitFailed, GiveUp, Errors
    <2> QED
        BY <2>1, <2>2
<1>5. ASSUME NEW t \in Threads, WaitDone(t)
      PROVE  NobodyWoken
    <2>1. /\ stat[t] = "ready" /\ call' = [call EXCEPT ![t] = "none"]
          /\ UNCHANGED <<susp, stat, error, timer, ttmr, firing, nested>>
        BY <1>5 DEF WaitDone, Back, Return
    <2> QED
        BY <2>1
<1> QED
    BY <1>1, <1>2, <1>3, <1>4, <1>5

\* The second half of a call wakes the first thread of one list.
LEMMA SecondHalfSteps ==
    ASSUME WInv, IsrFinish \/ \E t \in Threads : Finish(t)
    PROVE  /\ UNCHANGED <<call, nested>>
           /\ \E c \in Callers : SecondHalf(c)
BY WInvTypes DEF IsrFinish, Finish, SecondHalf

LEMMA SecondHalfWakes ==
    ASSUME NEW c \in Callers, SecondHalf(c)
    PROVE  \E op \in Ops : ResumeFirst(op, "EOK")
BY DEF SecondHalf, LinkLast, LinkFirst, Free, Wake, Ops

LEMMA WakeKeeps ==
    ASSUME WInv, NEW op \in Ops, ResumeFirst(op, "EOK"), UNCHANGED <<call, nested>>
    PROVE  WaitInv' /\ WaitsInCall'
<1>1. "EOK" \in Errors /\ op \in Lists /\ nested' \in 0..NestMax
    BY TwoLists, WInvTypes DEF Errors
<1>2. WaitInv'
    BY <1>1, ResumeFirstWakes DEF WInv
<1>3. PICK w : WakesUp(w, "EOK")
    BY <1>1, ResumeFirstWakes DEF WInv
<1>4. \A l \in Ops : \A u \in Threads : On(susp'[l], u) => On(susp[l], u)
    BY <1>3, TwoLists DEF WakesUp
<1> QED
    BY <1>2, <1>4, ListedStayInCall

\* Starting to wait, or waiting again.
LEMMA SuspendKeepsCalls ==
    ASSUME WInv, NEW t \in Threads, NEW op \in Ops, NEW w \in BOOLEAN, stat[t] = "ready",
           firing = None, SuspendToList(t, op, "EINTR", w, op)
    PROVE  WaitInv' /\ WaitsInCall'
<1>1. "EINTR" \in Errors /\ op \in Lists
    BY TwoLists DEF Errors
<1>2. /\ WaitInv'
      /\ \A k \in Lists : \A x : On(susp'[k], x) <=> On(susp[k], x) \/ (k = op /\ x = t)
    BY <1>1, SuspendKeeps DEF WInv
<1>3. call' = [call EXCEPT ![t] = op] /\ call \in [Threads -> Ops \cup {"none"}]
    BY WInvTypes DEF SuspendToList
<1>4. ASSUME NEW k \in Ops
      PROVE  ~On(susp[k], t)
    BY TwoLists, ReadyNotListed DEF WInv
<1>5. ASSUME NEW k \in Ops, NEW u \in Threads, On(susp'[k], u)
      PROVE  call'[u] = k
    <2>1. CASE u = t
        BY <1>2, <1>3, <1>4, <1>5, <2>1, TwoLists
    <2>2. CASE u # t
        BY <1>2, <1>3, <1>5, <2>2, TwoLists DEF WInv, WaitsInCall
    <2> QED
        BY <2>1, <2>2
<1> QED
    BY <1>2, <1>5 DEF WaitsInCall

LEMMA WaitSteps ==
    ASSUME WInv, NEW t \in Threads,
           \/ \E op \in Ops : \E m, limit : Wait(t, op, m, limit)
           \/ WaitAgain(t)
    PROVE  /\ WaitInv' /\ WaitsInCall'
           /\ UNCHANGED <<linkVars, half, msg, data>> /\ stat[t] = "ready"
           /\ \E op \in Ops, w \in BOOLEAN :
                  /\ SuspendToList(t, op, "EINTR", w, op)
                  /\ Stuck(op) /\ call[t] \in {"none", op}
<1>1. PICK op \in Ops, w \in BOOLEAN :
          /\ SuspendToList(t, op, "EINTR", w, op) /\ Stuck(op) /\ call[t] \in {"none", op}
    <2>1. ASSUME NEW op \in Ops, NEW m, NEW limit, Wait(t, op, m, limit)
          PROVE  \E w \in BOOLEAN : /\ SuspendToList(t, op, "EINTR", w, op) /\ Stuck(op)
                                    /\ call[t] \in {"none", op}
        <3>1. /\ SuspendToList(t, op, "EINTR", limit = "ticks", op) /\ Stuck(op)
              /\ call[t] \in {"none", op} /\ (limit = "ticks") \in BOOLEAN
            BY <2>1 DEF Wait, Idle, InThread
        <3> QED
            BY <3>1
    <2>2. ASSUME WaitAgain(t)
          PROVE  \E op \in Ops, w \in BOOLEAN :
                     /\ SuspendToList(t, op, "EINTR", w, op) /\ Stuck(op)
                     /\ call[t] \in {"none", op}
        <3>1. PICK limit : SuspendToList(t, call[t], "EINTR", limit = "ticks", call[t])
            BY <2>2 DEF WaitAgain
        <3>2. PICK op \in Ops : op = call[t]
            BY <2>2 DEF WaitAgain, Back
        <3>3. Stuck(op) /\ (limit = "ticks") \in BOOLEAN
            BY <2>2, <3>2 DEF WaitAgain
        <3> QED
            BY <3>1, <3>2, <3>3
    <2> QED
        BY <2>1, <2>2
<1>2. stat[t] = "ready" /\ firing = None /\ UNCHANGED <<linkVars, half, msg, data>>
    BY DEF Wait, WaitAgain, Idle, InThread, Back, halfVars
<1>3. WaitInv' /\ WaitsInCall'
    BY <1>1, <1>2, SuspendKeepsCalls
<1> QED
    BY <1>1, <1>2, <1>3

\* rt_mq_control and rt_mq_detach wake everyone.
LEMMA WakeAllKeeps ==
    ASSUME WInv, NEW t \in Threads, Reset(t) \/ Detach(t)
    PROVE  WaitInv' /\ WaitsInCall' /\ \A l \in Lists : susp'[l] = <<>>
<1>1. /\ ResumeAll("ERROR") /\ firing = None /\ UNCHANGED <<call, nested>>
      /\ "ERROR" \in Errors
    BY DEF Reset, Detach, Idle, InThread, Errors
<1>2. nested' \in 0..NestMax
    BY <1>1, WInvTypes
<1>3. /\ WaitInv' /\ \A l \in Lists : susp'[l] = <<>>
      /\ WakesUp({u \in Threads : stat[u] = "suspended"}, "ERROR")
    BY <1>1, <1>2, ResumeAllWakes DEF WInv
<1>4. \A l \in Ops : \A u \in Threads : On(susp'[l], u) => On(susp[l], u)
    BY <1>3, TwoLists DEF WakesUp
<1>5. WaitsInCall'
    BY <1>1, <1>4, ListedStayInCall
<1> QED
    BY <1>3, <1>5

LEMMA TickKeeps ==
    ASSUME WInv, Tick
    PROVE  WaitInv' /\ WaitsInCall'
<1>1. call' = call
    BY DEF Tick, TimerExpires, ThreadTimeout
<1>2. CASE \E t \in Threads : TimerExpires(t)
    <2>1. WaitInv' /\ susp' = susp
        BY <1>2, TimerExpiresKeeps DEF WInv, TimerExpires
    <2> QED
        BY <1>1, <2>1, ListedStayInCall
<1>3. CASE ThreadTimeout
    <2>1. WaitInv' /\ \A l \in Lists : \A x : On(susp'[l], x) <=> On(susp[l], x) /\ x # firing
        BY <1>3, ThreadTimeoutKeeps DEF WInv
    <2> QED
        BY <1>1, <2>1, TwoLists, ListedStayInCall
<1> QED
    BY <1>2, <1>3 DEF Tick

LEMMA WInvInit == Init => WInv
<1> SUFFICES ASSUME Init PROVE WInv
    OBVIOUS
<1>1. WaitInv
    BY WaitInvInit DEF Init
<1>2. WaitsInCall
    BY TwoLists DEF Init, WaitInit, WaitsInCall, On
<1> QED
    BY <1>1, <1>2, BInvInit DEF WInv

LEMMA WInvNext == WInv /\ [Next]_vars => WInv'
<1> SUFFICES ASSUME WInv, [Next]_vars PROVE WInv'
    OBVIOUS
<1>1. BInv'
    BY BInvNext DEF WInv
<1>2. CASE \/ \E t \in Threads : Begin(t) \/ WaitFailed(t) \/ WaitDone(t) \/ GiveUp(t)
           \/ IsrBegin
           \/ UNCHANGED vars
    <2>1. NobodyWoken
        BY <1>2, NobodyWokenSteps
    <2>2. WaitInv'
        BY <2>1, StillWaiting DEF NobodyWoken, WInv
    <2>3. WaitsInCall'
        BY <2>1, ListedStayInCall DEF NobodyWoken
    <2> QED
        BY <1>1, <2>1, <2>2, <2>3 DEF WInv
<1>3. CASE IsrFinish \/ \E t \in Threads : Finish(t)
    <2>1. UNCHANGED <<call, nested>> /\ \E op \in Ops : ResumeFirst(op, "EOK")
        BY <1>3, SecondHalfSteps, SecondHalfWakes
    <2> QED
        BY <1>1, <2>1, WakeKeeps DEF WInv
<1>4. CASE \E t \in Threads : \E limit \in {"ticks", "forever"} :
               (\E m \in Messages : Wait(t, "send", m, limit)) \/ Wait(t, "recv", None, limit)
    <2>1. PICK t \in Threads : \E op \in Ops : \E m, limit : Wait(t, op, m, limit)
        BY <1>4 DEF Ops
    <2> QED
        BY <1>1, <2>1, WaitSteps DEF WInv
<1>5. CASE \E t \in Threads : WaitAgain(t)
    BY <1>1, <1>5, WaitSteps DEF WInv
<1>6. CASE \E t \in Threads : Reset(t) \/ Detach(t)
    BY <1>1, <1>6, WakeAllKeeps DEF WInv
<1>7. CASE Tick
    BY <1>1, <1>7, TickKeeps DEF WInv
<1> QED
    BY <1>2, <1>3, <1>4, <1>5, <1>6, <1>7 DEF Next

LEMMA WInvariance == Spec => []WInv
BY WInvInit, WInvNext, PTL DEF Spec

-----------------------------------------------------------------------------
(* No wake-up is lost *)

LEMMA WalksAfter ==
    ASSUME NEW q, NEW f, Shape(q, f)'
    PROVE  /\ Walk(next, msg_queue_head)' = q /\ Walk(next, msg_queue_free)' = f
           /\ entry' = Len(q) /\ q \in Seq(Blocks) /\ f \in Seq(Blocks)
<1>1. /\ Linked(q, msg_queue_head', next') /\ Linked(f, msg_queue_free', next')
      /\ Len(q) + Len(f) + Cardinality(Holders') = Size /\ entry' = Len(q)
    BY DEF Shape
<1>2. q \in Seq(Blocks) /\ f \in Seq(Blocks)
    BY <1>1 DEF Linked
<1>3. Len(q) \in Nat /\ Len(f) \in Nat
    BY <1>2
<1>4. Len(q) <= Size /\ Len(f) <= Size
    BY <1>1, <1>3, HoldersFinite
<1> QED
    BY <1>1, <1>2, <1>4, WalkLinked

\* What NoLostWakeup says when no wake-up was in vain.
EnoughWoken ==
    /\ susp["recv"] # <<>> => entry <= Cardinality(WokenFor("recv"))
    /\ susp["send"] # <<>> => Len(Walk(next, msg_queue_free)) <= Cardinality(WokenFor("send"))

\* The threads woken are enough for n messages and k free blocks.
Enough(n, k) ==
    /\ susp["recv"] # <<>> => n <= Cardinality(WokenFor("recv"))
    /\ susp["send"] # <<>> => k <= Cardinality(WokenFor("send"))

LEMMA EnoughIs ==
    ASSUME NEW q, NEW f, Shape(q, f)
    PROVE  EnoughWoken <=> Enough(Len(q), Len(f))
BY WalksOfShape DEF EnoughWoken, Enough, Shape

LEMMA EnoughIsAfter ==
    ASSUME NEW q, NEW f, Shape(q, f)'
    PROVE  EnoughWoken' <=> Enough(Len(q), Len(f))'
BY WalksAfter DEF EnoughWoken, Enough

\* How many messages and free blocks there are after each half of a call.
LEMMA HalfCounts ==
    ASSUME CallsOK, NEW q, NEW f, Shape(q, f), NEW c \in Callers
    PROVE  /\ half[c] = "none" =>
                \A op \in {"send", "urgent"} : \A m : Alloc(c, op, m) =>
                    \E r, g : Shape(r, g)' /\ Len(r) = Len(q) /\ Len(g) = Len(f) - 1
           /\ half[c] = "none" /\ Unlink(c) =>
                \E r, g : Shape(r, g)' /\ Len(r) = Len(q) - 1 /\ Len(g) = Len(f)
           /\ (LinkLast(c) \/ LinkFirst(c)) /\ Ends(c) =>
                \E r, g : Shape(r, g)' /\ Len(r) = Len(q) + 1 /\ Len(g) = Len(f)
           /\ Free(c) /\ Ends(c) =>
                \E r, g : Shape(r, g)' /\ Len(r) = Len(q) /\ Len(g) = Len(f) + 1
<1>0. q \in Seq(Blocks) /\ f \in Seq(Blocks)
    BY ShapeTypes
<1>1. ASSUME half[c] = "none", NEW op \in {"send", "urgent"}, NEW m, Alloc(c, op, m)
      PROVE  \E r, g : Shape(r, g)' /\ Len(r) = Len(q) /\ Len(g) = Len(f) - 1
    <2>1. Shape(q, Tail(f))' /\ f # <<>>
        BY <1>1, AllocShape
    <2>2. Len(Tail(f)) = Len(f) - 1
        BY <1>0, <2>1, TailFacts
    <2> QED
        BY <2>1, <2>2
<1>2. ASSUME half[c] = "none", Unlink(c)
      PROVE  \E r, g : Shape(r, g)' /\ Len(r) = Len(q) - 1 /\ Len(g) = Len(f)
    <2>1. Shape(Tail(q), f)' /\ q # <<>>
        BY <1>2, UnlinkShape
    <2>2. Len(Tail(q)) = Len(q) - 1
        BY <1>0, <2>1, TailFacts
    <2> QED
        BY <2>1, <2>2
<1>3. ASSUME LinkLast(c) \/ LinkFirst(c), Ends(c)
      PROVE  \E r, g : Shape(r, g)' /\ Len(r) = Len(q) + 1 /\ Len(g) = Len(f)
    <2>1. PICK x \in Blocks : x = msg[c]
        BY <1>3, EndsFacts DEF LinkLast, LinkFirst
    <2>2. Len(Append(q, x)) = Len(q) + 1 /\ Len(<<x>> \o q) = Len(q) + 1
        BY <1>0, <2>1, FrontFacts
    <2>3. CASE LinkLast(c)
        <3>1. Shape(Append(q, x), f)'
            BY <1>3, <2>1, <2>3, LinkLastShape
        <3> QED
            BY <2>2, <3>1
    <2>4. CASE LinkFirst(c)
        <3>1. Shape(<<x>> \o q, f)'
            BY <1>3, <2>1, <2>4, LinkFirstShape
        <3> QED
            BY <2>2, <3>1
    <2> QED
        BY <1>3, <2>3, <2>4
<1>4. ASSUME Free(c), Ends(c)
      PROVE  \E r, g : Shape(r, g)' /\ Len(r) = Len(q) /\ Len(g) = Len(f) + 1
    <2>1. PICK x \in Blocks : x = msg[c]
        BY <1>4, EndsFacts DEF Free
    <2>2. Len(<<x>> \o f) = Len(f) + 1
        BY <1>0, <2>1, FrontFacts
    <2>3. Shape(q, <<x>> \o f)'
        BY <1>4, <2>1, FreeShape
    <2> QED
        BY <2>2, <2>3
<1> QED
    BY <1>1, <1>2, <1>3, <1>4

LEMMA WokenFinite ==
    ASSUME NEW op
    PROVE  /\ IsFiniteSet(WokenFor(op)) /\ Cardinality(WokenFor(op)) \in Nat
           /\ IsFiniteSet(WokenFor(op)') /\ Cardinality(WokenFor(op)') \in Nat
<1>1. ASSUME NEW X, X \subseteq Threads
      PROVE  IsFiniteSet(X) /\ Cardinality(X) \in Nat
    BY <1>1, WaitAssumption, FS_Subset, FS_CardinalityType
<1>2. WokenFor(op) \subseteq Threads /\ WokenFor(op)' \subseteq Threads
    BY DEF WokenFor
<1> QED
    BY <1>1, <1>2

\* The first thread of the list op is woken if there is one, and joins those
\* that were woken before; those woken for the other call stay the same.
LEMMA WakeAdds ==
    ASSUME WInv, NEW op \in Ops, ~InVain(op), ResumeFirst(op, "EOK"), UNCHANGED <<call, nested>>
    PROVE  /\ \A l \in Ops : susp'[l] # <<>> => susp[l] # <<>>
           /\ \A l \in Ops : l # op => WokenFor(l)' = WokenFor(l)
           /\ susp[op] # <<>> =>
                  Cardinality(WokenFor(op)') = Cardinality(WokenFor(op)) + 1
<1>1. "EOK" \in Errors /\ op \in Lists /\ nested' \in 0..NestMax
    BY TwoLists, WInvTypes DEF Errors
<1>2. WaitInv'
    BY <1>1, ResumeFirstWakes DEF WInv
<1>3. PICK w : /\ WakesUp(w, "EOK")
               /\ susp[op] = <<>> => w = {}
               /\ susp[op] # <<>> => w = {susp[op][1]}
    BY <1>1, ResumeFirstWakes DEF WInv
<1>4. ASSUME NEW l \in Ops, susp[l] = <<>>
      PROVE  susp'[l] = <<>>
    <2>1. susp[l] \in Seq(Threads) /\ susp'[l] \in Seq(Threads)
        BY <1>2, TwoLists DEF WInv, WaitInv, WaitTypeOK
    <2>2. \A x : ~On(susp'[l], x)
        BY <1>3, <1>4, <2>1, TwoLists, NothingOnEmpty DEF WakesUp
    <2> QED
        BY <2>1, <2>2, NothingOnEmpty
<1>5. ASSUME NEW u \in w
      PROVE  u \in Threads /\ call[u] = op /\ stat[u] = "suspended"
    <2>1. susp[op] # <<>> /\ u = susp[op][1] /\ susp[op] \in Seq(Threads)
        BY <1>1, <1>3, <1>5 DEF WInv, WaitInv, WaitTypeOK
    <2>2. 1 \in 1..Len(susp[op]) /\ u \in Threads
        BY <2>1
    <2>3. On(susp[op], u)
        BY <2>1, <2>2 DEF On
    <2> QED
        BY <1>1, <2>1, <2>2, <2>3 DEF WInv, WaitsInCall, WaitInv, ListedSuspended
<1>6. ASSUME NEW l \in Ops
      PROVE  WokenFor(l)' = IF l = op THEN WokenFor(l) \cup w ELSE WokenFor(l)
    <2>1. stat' = [t \in Threads |-> IF t \in w THEN "ready" ELSE stat[t]]
          /\ error' = [t \in Threads |-> IF t \in w THEN "EOK" ELSE error[t]]
        BY <1>3 DEF WakesUp
    <2> QED
        BY <1>5, <2>1 DEF WokenFor
<1>7. ASSUME susp[op] # <<>>
      PROVE  Cardinality(WokenFor(op)') = Cardinality(WokenFor(op)) + 1
    <2>1. PICK u : w = {u}
        BY <1>3, <1>7
    <2>2. u \notin WokenFor(op)
        BY <1>5, <2>1 DEF WokenFor
    <2>3. WokenFor(op)' = WokenFor(op) \cup {u}
        BY <1>6, <2>1
    <2> QED
        BY <2>2, <2>3, WokenFinite, FS_AddElement
<1> QED
    BY <1>4, <1>6, <1>7

LEMMA SameWoken ==
    ASSUME NEW n \in Int, NEW k \in Int, NEW i \in Int, NEW j \in Int,
           Enough(n, k), i <= n, j <= k,
           \A l \in Ops : /\ susp'[l] # <<>> => susp[l] # <<>>
                          /\ WokenFor(l)' = WokenFor(l)
    PROVE  Enough(i, j)'
<1>1. \A l : Cardinality(WokenFor(l)) \in Nat
    BY WokenFinite
<1> QED
    BY <1>1 DEF Enough, Ops

\* The second half of a call: with its wake-up, the threads already woken are
\* enough for what there is.
LEMMA SecondHalfEnough ==
    ASSUME WInv, NEW q, NEW f, Shape(q, f), EnoughWoken, ~wasted',
           UNCHANGED <<call, nested>>, NEW c \in Callers, SecondHalf(c)
    PROVE  EnoughWoken'
<1>1. Ends(c) /\ CallsOK
    BY DEF SecondHalf, Ends, WInv, BInv
<1>2. Enough(Len(q), Len(f)) /\ Len(q) \in Nat /\ Len(f) \in Nat
    BY EnoughIs, ShapeTypes
<1>3. \A l : Cardinality(WokenFor(l)) \in Nat /\ Cardinality(WokenFor(l)') \in Nat
    BY WokenFinite
<1>4. "send" \in Ops /\ "recv" \in Ops
    BY DEF Ops
<1>5. CASE LinkLast(c) \/ LinkFirst(c)
    <2>1. PICK r, g : Shape(r, g)' /\ Len(r) = Len(q) + 1 /\ Len(g) = Len(f)
        BY <1>1, <1>5, HalfCounts
    <2>2. ResumeFirst("recv", "EOK") /\ ~InVain("recv")
        BY <1>5, Zenon DEF LinkLast, LinkFirst, Wake
    <2>3. /\ susp'["recv"] # <<>> => susp["recv"] # <<>>
          /\ susp'["send"] # <<>> => susp["send"] # <<>>
          /\ WokenFor("send")' = WokenFor("send")
          /\ susp["recv"] # <<>> =>
                 Cardinality(WokenFor("recv")') = Cardinality(WokenFor("recv")) + 1
        BY <1>4, <2>2, WakeAdds
    <2>4. Enough(Len(r), Len(g))'
        BY <1>2, <1>3, <2>1, <2>3 DEF Enough
    <2> QED
        BY <2>1, <2>4, EnoughIsAfter
<1>6. CASE Free(c)
    <2>1. PICK r, g : Shape(r, g)' /\ Len(r) = Len(q) /\ Len(g) = Len(f) + 1
        BY <1>1, <1>6, HalfCounts
    <2>2. ResumeFirst("send", "EOK") /\ ~InVain("send")
        BY <1>6, Zenon DEF Free, Wake
    <2>3. /\ susp'["recv"] # <<>> => susp["recv"] # <<>>
          /\ susp'["send"] # <<>> => susp["send"] # <<>>
          /\ WokenFor("recv")' = WokenFor("recv")
          /\ susp["send"] # <<>> =>
                 Cardinality(WokenFor("send")') = Cardinality(WokenFor("send")) + 1
        BY <1>4, <2>2, WakeAdds
    <2>4. Enough(Len(r), Len(g))'
        BY <1>2, <1>3, <2>1, <2>3 DEF Enough
    <2> QED
        BY <2>1, <2>4, EnoughIsAfter
<1> QED
    BY <1>5, <1>6 DEF SecondHalf

\* A call that begins takes a block or a message that nobody was woken for.
LEMMA FirstHalfEnough ==
    ASSUME WInv, NEW q, NEW f, Shape(q, f), EnoughWoken, NEW c \in Callers, half[c] = "none",
           FirstHalf(c), UNCHANGED <<susp, stat, error, call>>
    PROVE  EnoughWoken'
<1>1. Enough(Len(q), Len(f)) /\ Len(q) \in Nat /\ Len(f) \in Nat /\ CallsOK
    BY EnoughIs, ShapeTypes DEF WInv, BInv
<1>2. PICK r, g : Shape(r, g)' /\ Len(r) \in {Len(q), Len(q) - 1} /\ Len(g) \in {Len(f), Len(f) - 1}
    BY <1>1, HalfCounts DEF FirstHalf
<1>3. \A l \in Ops : /\ susp'[l] # <<>> => susp[l] # <<>>
                     /\ WokenFor(l)' = WokenFor(l)
    BY DEF WokenFor
<1>4. /\ Len(r) \in Int /\ Len(g) \in Int /\ Len(r) <= Len(q) /\ Len(g) <= Len(f)
    BY <1>1, <1>2
<1>5. Enough(Len(r), Len(g))'
    <2>1. PICK n \in Int, k \in Int, i \in Int, j \in Int :
              n = Len(q) /\ k = Len(f) /\ i = Len(r) /\ j = Len(g)
        BY <1>1, <1>4
    <2>2. Enough(n, k) /\ i <= n /\ j <= k
        BY <1>1, <1>4, <2>1
    <2>3. Enough(i, j)'
        BY <1>3, <2>2, SameWoken
    <2> QED
        BY <2>1, <2>3
<1> QED
    BY <1>2, <1>5, EnoughIsAfter

\* A thread that was woken for a message or for a block and takes it.
LEMMA WaitDoneEnough ==
    ASSUME WInv, NEW q, NEW f, Shape(q, f), EnoughWoken, NEW t \in Threads, WaitDone(t)
    PROVE  EnoughWoken'
<1>0. PICK me \in Ops : me = call[t]
    BY DEF WaitDone, Back
<1>1. /\ stat[t] = "ready" /\ error[t] = "EOK" /\ call' = [call EXCEPT ![t] = "none"]
      /\ UNCHANGED <<susp, stat, error>>
      /\ call \in [Threads -> Ops \cup {"none"}] /\ t \in Callers
    BY WInvTypes DEF WaitDone, Back, Return
<1>2. Enough(Len(q), Len(f)) /\ Len(q) \in Nat /\ Len(f) \in Nat /\ CallsOK
    BY EnoughIs, ShapeTypes DEF WInv, BInv
<1>3. ASSUME NEW l \in Ops
      PROVE  WokenFor(l)' = IF l = me THEN WokenFor(l) \ {t} ELSE WokenFor(l)
    BY <1>0, <1>1 DEF WokenFor, Ops
<1>4. Cardinality(WokenFor(me)') = Cardinality(WokenFor(me)) - 1
    <2>1. t \in WokenFor(me)
        BY <1>0, <1>1 DEF WokenFor
    <2>2. WokenFor(me)' = WokenFor(me) \ {t}
        BY <1>3
    <2> QED
        BY <2>1, <2>2, WokenFinite, FS_RemoveElement
<1>5. \A l : Cardinality(WokenFor(l)) \in Nat /\ Cardinality(WokenFor(l)') \in Nat
    BY WokenFinite
<1>6. "send" \in Ops /\ "recv" \in Ops
    BY DEF Ops
<1>7. half[t] = "none"
    BY <1>0, <1>2 DEF CallsOK, Ops
<1>8. CASE me = "send"
    <2>1. Alloc(t, "send", mail[t])
        BY <1>0, <1>8 DEF WaitDone
    <2>2. PICK r, g : Shape(r, g)' /\ Len(r) = Len(q) /\ Len(g) = Len(f) - 1
        BY <1>1, <1>2, <1>7, <2>1, HalfCounts
    <2>3. WokenFor("recv")' = WokenFor("recv")
        BY <1>3, <1>6, <1>8
    <2>4. Cardinality(WokenFor("send")') = Cardinality(WokenFor("send")) - 1
        BY <1>4, <1>8
    <2>5. Enough(Len(r), Len(g))'
        BY <1>1, <1>2, <1>5, <2>2, <2>3, <2>4 DEF Enough
    <2> QED
        BY <2>2, <2>5, EnoughIsAfter
<1>9. CASE me = "recv"
    <2>1. Unlink(t)
        BY <1>0, <1>9 DEF WaitDone
    <2>2. PICK r, g : Shape(r, g)' /\ Len(r) = Len(q) - 1 /\ Len(g) = Len(f)
        BY <1>1, <1>2, <1>7, <2>1, HalfCounts
    <2>3. WokenFor("send")' = WokenFor("send")
        BY <1>3, <1>6, <1>9
    <2>4. Cardinality(WokenFor("recv")') = Cardinality(WokenFor("recv")) - 1
        BY <1>4, <1>9
    <2>5. Enough(Len(r), Len(g))'
        BY <1>1, <1>2, <1>5, <2>2, <2>3, <2>4 DEF Enough
    <2> QED
        BY <2>2, <2>5, EnoughIsAfter
<1> QED
    BY <1>8, <1>9 DEF Ops

\* The thread t, about to wait or giving up, finds no message or no block.
LEMMA StuckIsFine ==
    ASSUME WInv, NEW q, NEW f, Shape(q, f), EnoughWoken, NEW op \in Ops, Stuck(op),
           \A l \in Ops : l # op => susp'[l] = susp[l] /\ WokenFor(l)' = WokenFor(l)
    PROVE  Enough(Len(q), Len(f))'
<1>1. \A l : Cardinality(WokenFor(l)') \in Nat
    BY WokenFinite
<1>2. Enough(Len(q), Len(f)) /\ "send" \in Ops /\ "recv" \in Ops
    BY EnoughIs DEF Ops
<1>3. CASE op = "send"
    <2>1. f = <<>>
        BY <1>3, EmptyLinked DEF Stuck, Shape
    <2>2. Len(f) = 0
        BY <2>1
    <2> QED
        BY <1>1, <1>2, <1>3, <2>2 DEF Enough
<1>4. CASE op = "recv"
    <2>1. Len(q) = 0
        BY <1>4 DEF Stuck, Shape
    <2> QED
        BY <1>1, <1>2, <1>4, <2>1 DEF Enough
<1> QED
    BY <1>3, <1>4 DEF Ops

LEMMA WaitingEnough ==
    ASSUME WInv, NEW q, NEW f, Shape(q, f), EnoughWoken, NEW t \in Threads, NEW op \in Ops,
           Stuck(op), stat[t] = "ready", call[t] \in {"none", op},
           NEW w, SuspendToList(t, op, "EINTR", w, op)
    PROVE  Enough(Len(q), Len(f))'
<1>1. ASSUME NEW l \in Ops, l # op
      PROVE  susp'[l] = susp[l] /\ WokenFor(l)' = WokenFor(l)
    <2>1. /\ susp' = [susp EXCEPT ![op] = Enqueue(susp[op], t)]
          /\ stat' = [stat EXCEPT ![t] = "suspended"]
          /\ error' = [error EXCEPT ![t] = "EINTR"]
          /\ call' = [call EXCEPT ![t] = op]
        BY DEF SuspendToList
    <2>2. call[t] # l
        BY <1>1 DEF Ops
    <2> QED
        BY <1>1, <2>1, <2>2, TwoLists, WInvTypes DEF WokenFor
<1> QED
    BY <1>1, StuckIsFine

LEMMA SameBlocks ==
    ASSUME NEW q, NEW f, Shape(q, f), UNCHANGED <<linkVars, half, msg, data>>
    PROVE  Shape(q, f)'
BY DEF Shape, linkVars, Holders

LEMMA NoLostNext ==
    ASSUME WInv, WInv', EnoughWoken, ~wasted', [Next]_vars
    PROVE  EnoughWoken'
<1>1. PICK q, f : Shape(q, f)
    BY DEF WInv, BInv
<1>2. Enough(Len(q), Len(f)) /\ Len(q) \in Nat /\ Len(f) \in Nat
    BY <1>1, EnoughIs, ShapeTypes
<1>3. ASSUME UNCHANGED <<linkVars, half, msg, data>>, Enough(Len(q), Len(f))'
      PROVE  EnoughWoken'
    BY <1>1, <1>3, SameBlocks, EnoughIsAfter
<1>4. ASSUME UNCHANGED <<linkVars, half, msg, data>>,
             \A l \in Ops : /\ susp'[l] # <<>> => susp[l] # <<>>
                            /\ WokenFor(l)' = WokenFor(l)
      PROVE  EnoughWoken'
    BY <1>2, <1>3, <1>4, SameWoken
<1>5. CASE UNCHANGED vars
    BY <1>4, <1>5 DEF vars, waitVars, halfVars, WokenFor
<1>6. ASSUME NEW t \in Threads, Begin(t)
      PROVE  EnoughWoken'
    BY <1>1, <1>6, WInvTypes, FirstHalfEnough DEF Begin, Idle, waitVars
<1>7. CASE IsrBegin
    BY <1>1, <1>7, WInvTypes, FirstHalfEnough DEF IsrBegin, IsrMayRun
<1>8. CASE IsrFinish \/ \E t \in Threads : Finish(t)
    BY <1>1, <1>8, SecondHalfSteps, SecondHalfEnough
<1>9. ASSUME NEW t \in Threads, \/ \E op \in Ops : \E m, limit : Wait(t, op, m, limit)
                                \/ WaitAgain(t)
      PROVE  EnoughWoken'
    <2>1. UNCHANGED <<linkVars, half, msg, data>> /\ stat[t] = "ready"
        BY <1>9, WaitSteps
    <2>2. PICK op \in Ops, w \in BOOLEAN :
              /\ SuspendToList(t, op, "EINTR", w, op) /\ Stuck(op) /\ call[t] \in {"none", op}
        BY <1>9, WaitSteps
    <2>3. Enough(Len(q), Len(f))'
        BY <1>1, <2>1, <2>2, WaitingEnough
    <2> QED
        BY <1>3, <2>1, <2>3
<1>10. ASSUME NEW t \in Threads, GiveUp(t)
       PROVE  EnoughWoken'
    <2>1. PICK op \in Ops : op = call[t]
        BY <1>10 DEF GiveUp, Back
    <2>2. /\ Stuck(op) /\ UNCHANGED <<linkVars, half, msg, data>> /\ susp' = susp /\ stat' = stat
          /\ \A u \in Threads : u # t => error'[u] = error[u] /\ call'[u] = call[u]
          /\ call'[t] = "none"
        BY <1>10, <2>1, WInvTypes DEF GiveUp, Return
    <2>3. ASSUME NEW l \in Ops, l # op
          PROVE  susp'[l] = susp[l] /\ WokenFor(l)' = WokenFor(l)
        BY <2>1, <2>2, <2>3 DEF WokenFor, Ops
    <2>4. Enough(Len(q), Len(f))'
        BY <1>1, <2>2, <2>3, StuckIsFine
    <2> QED
        BY <1>3, <2>2, <2>4
<1>11. ASSUME NEW t \in Threads, WaitFailed(t)
       PROVE  EnoughWoken'
    <2>1. ASSUME NEW l \in Ops
          PROVE  WokenFor(l)' = WokenFor(l)
        BY <1>11, WInvTypes DEF WaitFailed, Return, WokenFor, Ops
    <2> QED
        BY <1>4, <1>11, <2>1 DEF WaitFailed
<1>12. ASSUME NEW t \in Threads, Reset(t) \/ Detach(t)
       PROVE  EnoughWoken'
    BY <1>12, WakeAllKeeps, TwoLists DEF EnoughWoken
<1>13. ASSUME NEW t \in Threads, TimerExpires(t), UNCHANGED <<linkVars, half, msg, data>>
       PROVE  EnoughWoken'
    BY <1>4, <1>13 DEF TimerExpires, WokenFor
<1>14. ASSUME ThreadTimeout, UNCHANGED <<linkVars, half, msg, data>>
       PROVE  EnoughWoken'
    <2>1. ASSUME NEW l \in Ops, susp[l] = <<>>
          PROVE  susp'[l] = <<>>
        <3>1. susp[l] \in Seq(Threads) /\ susp'[l] \in Seq(Threads) /\ l \in Lists
            BY TwoLists DEF WInv, WaitInv, WaitTypeOK
        <3>2. \A x : ~On(susp'[l], x)
            BY <1>14, <2>1, <3>1, NothingOnEmpty, ThreadTimeoutKeeps DEF WInv
        <3> QED
            BY <3>1, <3>2, NothingOnEmpty
    <2>2. ASSUME NEW l \in Ops
          PROVE  WokenFor(l)' = WokenFor(l)
        BY <1>14, WInvTypes DEF ThreadTimeout, WokenFor
    <2> QED
        BY <1>4, <1>14, <2>1, <2>2
<1>15. CASE Tick
    BY <1>13, <1>14, <1>15 DEF Tick, halfVars
<1>16. ASSUME NEW t \in Threads, WaitDone(t)
       PROVE  EnoughWoken'
    BY <1>1, <1>16, WaitDoneEnough
<1> QED
    BY <1>5, <1>6, <1>7, <1>8, <1>9, <1>10, <1>11, <1>12, <1>15, <1>16 DEF Next, Ops

\* Only a reset makes up for a wake-up spent in vain.
LEMMA WastedStays ==
    ASSUME [Next]_vars, ~wasted'
    PROVE  ~wasted \/ \E t \in Threads : Reset(t)
<1>1. CASE UNCHANGED wasted
    BY <1>1
<1>2. ASSUME NEW c, SecondHalf(c)
      PROVE  ~wasted
    BY <1>2, Zenon DEF SecondHalf, LinkLast, LinkFirst, Free, Wake
<1>3. CASE IsrFinish \/ \E t \in Threads : Finish(t)
    BY <1>2, <1>3 DEF IsrFinish, Finish
<1>4. CASE \E t \in Threads : \E op, m, limit : Wait(t, op, m, limit)
    BY <1>1, <1>4 DEF Wait
<1>5. CASE IsrBegin \/ \E t \in Threads : Begin(t) \/ WaitFailed(t) \/ WaitDone(t)
    BY <1>1, <1>5 DEF IsrBegin, Begin, WaitFailed, WaitDone
<1>6. CASE \E t \in Threads : WaitAgain(t) \/ GiveUp(t) \/ Detach(t)
    BY <1>1, <1>6 DEF WaitAgain, GiveUp, Detach
<1>7. CASE Tick \/ UNCHANGED vars
    BY <1>1, <1>7 DEF Tick, vars
<1> QED
    BY <1>3, <1>4, <1>5, <1>6, <1>7 DEF Next

\* No thread sleeps beside a message, or beside a free block, that no woken
\* thread will take: for any number of threads and blocks, although a message
\* or a block is in no list between the two halves of a call, and although
\* interrupts call between the two parts of a timeout.  Only a wake-up spent
\* there on the thread that times out (ipc.c ignores that its dequeuing is
\* refused) ends this, until the next reset.
THEOREM WakeupsAreKept == Spec => []NoLostWakeup
<1>1. Init => NoLostWakeup
    BY TwoLists DEF Init, WaitInit, NoLostWakeup
<1>2. ASSUME WInv, WInv', NoLostWakeup, [Next]_vars
      PROVE  NoLostWakeup'
    <2> SUFFICES ASSUME ~wasted' PROVE EnoughWoken'
        BY DEF NoLostWakeup, EnoughWoken
    <2>1. CASE ~wasted
        <3>1. EnoughWoken
            BY <1>2, <2>1 DEF NoLostWakeup, EnoughWoken
        <3> QED
            BY <1>2, <3>1, NoLostNext
    <2>2. CASE \E t \in Threads : Reset(t)
        BY <1>2, <2>2, WakeAllKeeps, TwoLists DEF EnoughWoken
    <2> QED
        BY <1>2, <2>1, <2>2, WastedStays
<1> QED
    BY <1>1, <1>2, WInvariance, PTL DEF Spec

-----------------------------------------------------------------------------
(* The refinement *)

\* The messages in the blocks of s.
Contents(d, s) == [i \in 1..Len(s) |-> d[s[i]]]

LEMMA ContentsFacts ==
    ASSUME NEW s \in Seq(Blocks), NEW d, \A x : On(s, x) => d[x] \in Messages
    PROVE  /\ Contents(d, s) \in Seq(Messages) /\ Len(Contents(d, s)) = Len(s)
           /\ \A i \in 1..Len(s) : Contents(d, s)[i] = d[s[i]]
<1>1. Contents(d, s) \in [1..Len(s) -> Messages] /\ Len(s) \in Nat
    BY DEF Contents, On
<1> QED
    BY <1>1 DEF Contents

LEMMA QueueOfShape ==
    ASSUME NEW q, NEW f, Shape(q, f)
    PROVE  queue = Contents(data, q)
<1>1. Walk(next, msg_queue_head) = q /\ DOMAIN q = 1..Len(q)
    BY WalksOfShape, ShapeTypes
<1> QED
    BY <1>1 DEF queue, Contents

LEMMA QueueAfter ==
    ASSUME NEW q, NEW f, Shape(q, f)'
    PROVE  queue' = Contents(data', q)
<1>1. Walk(next, msg_queue_head)' = q /\ DOMAIN q = 1..Len(q)
    BY WalksAfter
<1> QED
    BY <1>1 DEF queue, Contents

\* What a caller is doing, in terms of its own fields.
LEMMA DoingFacts ==
    ASSUME CallsOK, NEW c \in Callers
    PROVE  /\ half[c] = "none" => doing[c] = None
           /\ half[c] \in {"send", "urgent"} => doing[c] = <<half[c], mail[c]>>
           /\ half[c] = "recv" => doing[c] = <<"recv", data[msg[c]]>>
           /\ half[c] # "none" => doing[c] # None
<1>1. half[c] \in {"none", "send", "urgent", "recv"}
    BY DEF CallsOK
<1>2. /\ half[c] = "none" => doing[c] = None
      /\ half[c] \in {"send", "urgent"} => doing[c] = <<half[c], mail[c]>>
      /\ half[c] = "recv" => doing[c] = <<"recv", data[msg[c]]>>
    BY <1>1 DEF doing
<1>3. ASSUME half[c] # "none"
      PROVE  doing[c] # None
    <2>1. \E m \in Messages : doing[c] = <<half[c], m>>
        BY <1>1, <1>2, <1>3 DEF CallsOK
    <2>2. doing[c] \in {"send", "urgent", "recv"} \X Messages
        BY <1>1, <1>3, <2>1
    <2> QED
        BY <2>2, MessageQueueAssumption
<1> QED
    BY <1>2, <1>3

LEMMA BeginSendRefines ==
    ASSUME CallsOK, NEW q, NEW f, Shape(q, f), NEW c \in Callers, half[c] = "none", got' = got,
           NEW op \in {"send", "urgent"}, NEW m \in Messages, Alloc(c, op, m)
    PROVE  MF!BeginSend(c, op, m)
<1>1. /\ half' = [half EXCEPT ![c] = op] /\ msg' = [msg EXCEPT ![c] = msg_queue_free]
      /\ mail' = [mail EXCEPT ![c] = m] /\ data' = data
    BY DEF Alloc
<1>2. queue' = queue
    BY <1>1, AllocShape, QueueOfShape, QueueAfter
<1>3. doing' = [doing EXCEPT ![c] = <<op, m>>]
    BY <1>1 DEF doing, CallsOK
<1> QED
    BY <1>2, <1>3, DoingFacts DEF MF!BeginSend

LEMMA BeginRecvRefines ==
    ASSUME CallsOK, NEW q, NEW f, Shape(q, f), NEW c \in Callers, half[c] = "none", got' = got,
           Unlink(c)
    PROVE  MF!BeginRecv(c)
<1>1. /\ half' = [half EXCEPT ![c] = "recv"] /\ msg' = [msg EXCEPT ![c] = msg_queue_head]
      /\ mail' = [mail EXCEPT ![c] = None] /\ data' = data
    BY DEF Unlink
<1>2. Shape(Tail(q), f)' /\ q # <<>> /\ msg'[c] = q[1]
    BY UnlinkShape
<1>3. /\ q \in Seq(Blocks) /\ \A x : On(q, x) => data[x] \in Messages
    BY ShapeTypes DEF Shape
<1> DEFINE s == Tail(q)
<1>4. /\ s \in Seq(Blocks) /\ Len(s) = Len(q) - 1 /\ Len(q) \in Nat \ {0}
      /\ \A i \in 1..Len(q) - 1 : i + 1 \in 1..Len(q) /\ s[i] = q[i + 1]
    BY <1>2, <1>3, TailFacts
<1>5. \A x : On(s, x) => data[x] \in Messages
    BY <1>3, <1>4 DEF On
<1> DEFINE a == Contents(data, q)
           b == Contents(data, s)
<1>6. queue = a /\ queue' = b
    BY <1>1, <1>2, QueueOfShape, QueueAfter
<1> HIDE DEF s
<1>7. /\ a \in Seq(Messages) /\ Len(a) = Len(q)
      /\ \A i \in 1..Len(q) : a[i] = data[q[i]]
    BY <1>3, ContentsFacts
<1>8. /\ b \in Seq(Messages) /\ Len(b) = Len(q) - 1
      /\ \A i \in 1..Len(q) - 1 : b[i] = data[s[i]]
    BY <1>4, <1>5, ContentsFacts
<1> HIDE DEF a, b
<1>9. ASSUME NEW i \in 1..Len(q) - 1
      PROVE  b[i] = a[i + 1]
    <2>1. i + 1 \in 1..Len(q) /\ s[i] = q[i + 1]
        BY <1>4
    <2>2. b[i] = data[s[i]]
        BY <1>8
    <2>3. a[i + 1] = data[q[i + 1]]
        BY <1>7, <2>1
    <2> QED
        BY <2>1, <2>2, <2>3
<1>10. b = Tail(a) /\ a # <<>> /\ Head(a) = data[q[1]]
    <2>1. a # <<>> /\ 1 \in 1..Len(q)
        BY <1>4, <1>7
    <2>2. Tail(a) \in Seq(Messages) /\ Len(Tail(a)) = Len(q) - 1
        BY <1>7, <2>1
    <2>3. \A i \in 1..Len(q) - 1 : Tail(a)[i] = a[i + 1]
        BY <1>7, <2>1
    <2>4. b = Tail(a)
        BY <1>8, <1>9, <2>2, <2>3
    <2> QED
        BY <1>7, <2>1, <2>4
<1>11. doing' = [doing EXCEPT ![c] = <<"recv", data[q[1]]>>]
    BY <1>1, <1>2 DEF doing, CallsOK
<1> QED
    BY <1>6, <1>10, <1>11, DoingFacts DEF MF!BeginRecv

\* What the others are doing does not change when the call c ends.
LEMMA OthersGoOn ==
    ASSUME CallsOK, NEW q, NEW f, Shape(q, f), NEW c \in Callers, SecondHalf(c)
    PROVE  doing' = [doing EXCEPT ![c] = None]
<1>1. /\ half' = [half EXCEPT ![c] = "none"] /\ msg' = [msg EXCEPT ![c] = None]
      /\ mail' = [mail EXCEPT ![c] = None]
    BY DEF SecondHalf
<1>2. ASSUME NEW d \in Callers, d # c
      PROVE  doing'[d] = doing[d]
    <2>1. half'[d] = half[d] /\ msg'[d] = msg[d] /\ mail'[d] = mail[d]
        BY <1>1, <1>2 DEF CallsOK
    <2>2. CASE half[d] = "recv"
        <3>1. data'[msg[d]] = data[msg[d]]
            BY <1>2, <2>2, UnlinkedKept
        <3> QED
            BY <2>1, <2>2, <3>1 DEF doing
    <2>3. CASE half[d] # "recv"
        BY <2>1, <2>3 DEF doing
    <2> QED
        BY <2>2, <2>3
<1>3. doing'[c] = None
    BY <1>1 DEF doing, CallsOK
<1>4. /\ doing' = [d \in Callers |-> doing'[d]]
      /\ doing = [d \in Callers |-> doing[d]]
    BY DEF doing
<1> QED
    BY <1>2, <1>3, <1>4

\* The ends of the three kinds of calls, case by case.
LEMMA EndOf ==
    ASSUME NEW c, NEW m, doing[c] # None, doing' = [doing EXCEPT ![c] = None]
    PROVE  /\ doing[c] = <<"send", m>> /\ Len(queue) < Size /\ queue' = Append(queue, m)
                  /\ got' = got => MF!End(c)
           /\ doing[c] = <<"urgent", m>> /\ Len(queue) < Size /\ queue' = <<m>> \o queue
                  /\ got' = got => MF!End(c)
           /\ doing[c] = <<"recv", m>> /\ got' = m /\ queue' = queue => MF!End(c)
<1>1. ASSUME doing[c] = <<"send", m>>, Len(queue) < Size, queue' = Append(queue, m), got' = got
      PROVE  MF!End(c)
    <2>1. doing[c][1] = "send" /\ doing[c][2] = m
        BY <1>1
    <2> QED
        BY <1>1, <2>1 DEF MF!End
<1>2. ASSUME doing[c] = <<"urgent", m>>, Len(queue) < Size, queue' = <<m>> \o queue, got' = got
      PROVE  MF!End(c)
    <2>1. doing[c][1] = "urgent" /\ doing[c][2] = m
        BY <1>2
    <2> QED
        BY <1>2, <2>1 DEF MF!End
<1>3. ASSUME doing[c] = <<"recv", m>>, got' = m, queue' = queue
      PROVE  MF!End(c)
    <2>1. doing[c][1] = "recv" /\ doing[c][2] = m
        BY <1>3
    <2> QED
        BY <1>3, <2>1 DEF MF!End
<1> QED
    BY <1>1, <1>2, <1>3

LEMMA LinkLastRefines ==
    ASSUME CallsOK, NEW q, NEW f, Shape(q, f), NEW c \in Callers, SecondHalf(c), LinkLast(c)
    PROVE  MF!End(c)
<1>1. Ends(c) /\ half[c] = "send" /\ mail[c] \in Messages /\ got' = got
    BY DEF SecondHalf, Ends, LinkLast, CallsOK
<1>2. PICK x : x = msg[c]
    OBVIOUS
<1>3. x \in Blocks /\ ~On(q, x) /\ Len(q) < Size
    BY <1>1, <1>2, EndsFacts
<1>4. Shape(Append(q, x), f)'
    BY <1>1, <1>2, LinkLastShape
<1>5. data' = [data EXCEPT ![x] = mail[c]] /\ data \in [Blocks -> Messages \cup {None}]
    BY <1>2 DEF LinkLast, CallsOK
<1>6. q \in Seq(Blocks) /\ Len(q) \in Nat /\ \A y : On(q, y) => data[y] \in Messages
    BY ShapeTypes DEF Shape
<1> DEFINE r == Append(q, x)
           a == Contents(data, q)
           b == Contents(data', r)
<1>7. /\ r \in Seq(Blocks) /\ Len(r) = Len(q) + 1 /\ r[Len(q) + 1] = x
      /\ \A i \in 1..Len(q) : r[i] = q[i] /\ q[i] \in Blocks /\ q[i] # x
    BY <1>3, <1>6 DEF On
<1>8. \A y : On(r, y) => data'[y] \in Messages
    BY <1>4 DEF Shape
<1>9. queue = a /\ queue' = b
    BY <1>4, QueueOfShape, QueueAfter
<1>10. /\ a \in Seq(Messages) /\ Len(a) = Len(q)
       /\ \A i \in 1..Len(q) : a[i] = data[q[i]]
    BY <1>6, ContentsFacts
<1> HIDE DEF r
<1>11. /\ b \in Seq(Messages) /\ Len(b) = Len(q) + 1
       /\ \A i \in 1..Len(q) + 1 : b[i] = data'[r[i]]
    <2>1. PICK d : d = data'
        OBVIOUS
    <2>2. \A y : On(r, y) => d[y] \in Messages
        BY <1>8, <2>1
    <2>3. /\ Contents(d, r) \in Seq(Messages) /\ Len(Contents(d, r)) = Len(r)
          /\ \A i \in 1..Len(r) : Contents(d, r)[i] = d[r[i]]
        BY <1>7, <2>2, ContentsFacts
    <2> QED
        BY <1>7, <2>1, <2>3
<1> HIDE DEF a, b
<1>12. ASSUME NEW i \in 1..Len(q)
       PROVE  b[i] = a[i]
    <2>1. i \in 1..Len(q) + 1
        BY <1>6
    <2>2. data'[q[i]] = data[q[i]]
        BY <1>5, <1>7
    <2> QED
        BY <1>7, <1>10, <1>11, <2>1, <2>2
<1>13. b[Len(q) + 1] = mail[c]
    <2>1. Len(q) + 1 \in 1..Len(q) + 1
        BY <1>6
    <2> QED
        BY <1>3, <1>5, <1>7, <1>11, <2>1
<1>14. b = Append(a, mail[c])
    BY <1>1, <1>6, <1>10, <1>11, <1>12, <1>13
<1>15. doing[c] = <<"send", mail[c]>> /\ doing[c] # None /\ doing' = [doing EXCEPT ![c] = None]
    BY <1>1, DoingFacts, OthersGoOn
<1> QED
    BY <1>1, <1>3, <1>9, <1>10, <1>14, <1>15, EndOf

LEMMA LinkFirstRefines ==
    ASSUME CallsOK, NEW q, NEW f, Shape(q, f), NEW c \in Callers, SecondHalf(c), LinkFirst(c)
    PROVE  MF!End(c)
<1>1. Ends(c) /\ half[c] = "urgent" /\ mail[c] \in Messages /\ got' = got
    BY DEF SecondHalf, Ends, LinkFirst, CallsOK
<1>2. PICK x : x = msg[c]
    OBVIOUS
<1>3. x \in Blocks /\ ~On(q, x) /\ Len(q) < Size
    BY <1>1, <1>2, EndsFacts
<1>4. Shape(<<x>> \o q, f)'
    BY <1>1, <1>2, LinkFirstShape
<1>5. data' = [data EXCEPT ![x] = mail[c]] /\ data \in [Blocks -> Messages \cup {None}]
    BY <1>2 DEF LinkFirst, CallsOK
<1>6. q \in Seq(Blocks) /\ Len(q) \in Nat /\ \A y : On(q, y) => data[y] \in Messages
    BY ShapeTypes DEF Shape
<1> DEFINE r == <<x>> \o q
           a == Contents(data, q)
           b == Contents(data', r)
<1>7. /\ r \in Seq(Blocks) /\ Len(r) = Len(q) + 1 /\ r[1] = x
      /\ \A i \in 1..Len(q) : r[i + 1] = q[i] /\ q[i] \in Blocks /\ q[i] # x
    BY <1>3, <1>6, FrontFacts DEF On
<1>8. \A y : On(r, y) => data'[y] \in Messages
    BY <1>4 DEF Shape
<1>9. queue = a /\ queue' = b
    BY <1>4, QueueOfShape, QueueAfter
<1>10. /\ a \in Seq(Messages) /\ Len(a) = Len(q)
       /\ \A i \in 1..Len(q) : a[i] = data[q[i]]
    BY <1>6, ContentsFacts
<1> HIDE DEF r
<1>11. /\ b \in Seq(Messages) /\ Len(b) = Len(q) + 1
       /\ \A i \in 1..Len(q) + 1 : b[i] = data'[r[i]]
    <2>1. PICK d : d = data'
        OBVIOUS
    <2>2. \A y : On(r, y) => d[y] \in Messages
        BY <1>8, <2>1
    <2>3. /\ Contents(d, r) \in Seq(Messages) /\ Len(Contents(d, r)) = Len(r)
          /\ \A i \in 1..Len(r) : Contents(d, r)[i] = d[r[i]]
        BY <1>7, <2>2, ContentsFacts
    <2> QED
        BY <1>7, <2>1, <2>3
<1> HIDE DEF a, b
<1>12. ASSUME NEW i \in 1..Len(q)
       PROVE  b[i + 1] = a[i]
    <2>1. i + 1 \in 1..Len(q) + 1
        BY <1>6
    <2>2. data'[q[i]] = data[q[i]]
        BY <1>5, <1>7
    <2> QED
        BY <1>7, <1>10, <1>11, <2>1, <2>2
<1>13. b[1] = mail[c]
    <2>1. 1 \in 1..Len(q) + 1
        BY <1>6
    <2> QED
        BY <1>3, <1>5, <1>7, <1>11, <2>1
<1>14. b = <<mail[c]>> \o a
    <2> DEFINE e == <<mail[c]>> \o a
    <2>1. /\ e \in Seq(Messages) /\ Len(e) = Len(q) + 1 /\ e[1] = mail[c]
          /\ \A i \in 1..Len(q) : e[i + 1] = a[i]
        BY <1>1, <1>10, FrontFacts
    <2> HIDE DEF e
    <2>2. ASSUME NEW j \in 1..Len(q) + 1
          PROVE  b[j] = e[j]
        <3>1. CASE j = 1
            BY <1>13, <2>1, <3>1
        <3>2. CASE j # 1
            <4>1. j - 1 \in 1..Len(q) /\ (j - 1) + 1 = j
                BY <1>6, <3>2
            <4> QED
                BY <1>12, <2>1, <4>1
        <3> QED
            BY <3>1, <3>2
    <2>3. b = e
        BY <1>11, <2>1, <2>2
    <2> QED
        BY <2>3 DEF e
<1>15. /\ doing[c] = <<"urgent", mail[c]>> /\ doing[c] # None
       /\ doing' = [doing EXCEPT ![c] = None]
    BY <1>1, DoingFacts, OthersGoOn
<1> QED
    BY <1>1, <1>3, <1>9, <1>10, <1>14, <1>15, EndOf

LEMMA FreeRefines ==
    ASSUME CallsOK, NEW q, NEW f, Shape(q, f), NEW c \in Callers, SecondHalf(c), Free(c)
    PROVE  MF!End(c)
<1>1. Ends(c) /\ half[c] = "recv" /\ got' = data[msg[c]] /\ data' = data
    BY DEF SecondHalf, Ends, Free
<1>2. PICK x : x = msg[c]
    OBVIOUS
<1>3. Shape(q, <<x>> \o f)'
    BY <1>1, <1>2, FreeShape
<1>4. queue' = queue
    BY <1>1, <1>3, QueueOfShape, QueueAfter
<1>5. /\ doing[c] = <<"recv", data[msg[c]]>> /\ doing[c] # None
      /\ doing' = [doing EXCEPT ![c] = None]
    BY <1>1, DoingFacts, OthersGoOn
<1> QED
    BY <1>1, <1>4, <1>5, EndOf

LEMMA NothingSeen ==
    ASSUME UNCHANGED <<linkVars, data, half, msg, got>>,
           \A c \in Callers : half[c] # "none" => mail'[c] = mail[c]
    PROVE  UNCHANGED <<queue, doing, got>>
<1>1. queue' = queue
    BY DEF queue, linkVars
<1>2. ASSUME NEW c \in Callers
      PROVE  doing'[c] = doing[c]
    BY DEF doing
<1>3. doing' = doing
    BY <1>2 DEF doing
<1> QED
    BY <1>1, <1>3

LEMMA StepRefines ==
    ASSUME CallsOK, NEW q, NEW f, Shape(q, f), BlockStep
    PROVE  [MF!Next]_<<queue, doing, got>>
<1>1. ASSUME NEW c \in Callers, half[c] = "none", got' = got,
             NEW op \in {"send", "urgent"}, NEW m \in Messages, Alloc(c, op, m)
      PROVE  MF!Next
    BY <1>1, BeginSendRefines DEF MF!Next
<1>2. ASSUME NEW c \in Callers, half[c] = "none", got' = got, Unlink(c)
      PROVE  MF!Next
    BY <1>2, BeginRecvRefines DEF MF!Next
<1>3. ASSUME NEW c \in Callers, SecondHalf(c)
      PROVE  MF!Next
    <2>1. MF!End(c)
        BY <1>3, LinkLastRefines, LinkFirstRefines, FreeRefines DEF SecondHalf
    <2> QED
        BY <2>1 DEF MF!Next
<1>4. ASSUME NEW t \in Threads, Reset(t)
      PROVE  MF!Next
    <2>1. UNCHANGED <<data, half, msg, mail, got>>
        BY <1>4 DEF Reset, halfVars
    <2>2. queue' = Contents(data', <<>>)
        BY <1>4, ResetShape, QueueAfter
    <2>3. queue' = <<>>
        BY <2>2 DEF Contents
    <2>4. doing' = doing
        BY <2>1 DEF doing
    <2> QED
        BY <2>1, <2>3, <2>4 DEF MF!Next, MF!Reset
<1>5. ASSUME UNCHANGED <<linkVars, data, half, msg, got>>,
             \A c \in Callers : half[c] # "none" => mail'[c] = mail[c]
      PROVE  UNCHANGED <<queue, doing, got>>
    BY <1>5, NothingSeen
<1> QED
    BY <1>1, <1>2, <1>3, <1>4, <1>5 DEF BlockStep

\* A step that begins or ends a call is not a reset of the queue of messages.
LEMMA OnlyResetResets ==
    ASSUME CallsOK, CallsOK', NEW q, NEW f, Shape(q, f), BlockStep
    PROVE  [MF!Reset => \E t \in Threads : Reset(t)]_<<queue, doing, got>>
<1>1. ASSUME NEW c \in Callers, half'[c] # "none"
      PROVE  doing'[c] # None
    <2>1. \E m \in Messages : doing'[c] = <<half'[c], m>>
        BY <1>1 DEF CallsOK, doing
    <2>2. doing'[c] \in {"send", "urgent", "recv"} \X Messages
        BY <1>1, <2>1 DEF CallsOK
    <2> QED
        BY <2>2, MessageQueueAssumption
<1>2. ASSUME NEW c \in Callers, half'[c] = "none"
      PROVE  doing'[c] = None
    BY <1>2 DEF doing
<1>3. ASSUME NEW c \in Callers, (half[c] = "none") # (half'[c] = "none"), MF!Reset
      PROVE  FALSE
    BY <1>1, <1>2, <1>3, DoingFacts DEF MF!Reset
<1>4. ASSUME NEW c \in Callers, half[c] = "none",
             (\E op \in {"send", "urgent"}, m \in Messages : Alloc(c, op, m)) \/ Unlink(c)
      PROVE  half'[c] # "none"
    BY <1>4 DEF Alloc, Unlink, CallsOK
<1>5. ASSUME NEW c \in Callers, SecondHalf(c)
      PROVE  half[c] # "none" /\ half'[c] = "none"
    BY <1>5 DEF SecondHalf, LinkLast, LinkFirst, Free, CallsOK
<1>6. ASSUME UNCHANGED <<linkVars, data, half, msg, got>>,
             \A c \in Callers : half[c] # "none" => mail'[c] = mail[c]
      PROVE  UNCHANGED <<queue, doing, got>>
    BY <1>6, NothingSeen
<1> QED
    BY <1>3, <1>4, <1>5, <1>6 DEF BlockStep

\* The message queue implements the queue of messages with a beginning and an
\* end of each call, for every number of blocks, threads and messages: they
\* are received once each, whole and in order, urgent ones first, whatever
\* comes between the two halves of a call, and only RT_IPC_CMD_RESET drops any.
THEOREM MessageQueueIsQueue == Spec => ImplementsMessageFifo
<1>1. Init => MF!Init
    <2> SUFFICES ASSUME Init
                 PROVE  MF!Init
        OBVIOUS
    <2>1. PICK q, f : Shape(q, f)
        BY BInvInit DEF BInv
    <2>2. q \in Seq(Blocks) /\ Len(q) = 0
        BY <2>1, ShapeTypes DEF Shape, Init
    <2>3. q = <<>>
        BY <2>2
    <2>4. queue = Contents(data, q)
        BY <2>1, QueueOfShape
    <2>5. queue = <<>>
        BY <2>3, <2>4 DEF Contents
    <2>6. doing = [c \in Callers |-> None]
        BY DEF Init, doing
    <2> QED
        BY <2>5, <2>6 DEF Init, MF!Init
<1>2. BInv /\ [Next]_vars => [MF!Next]_<<queue, doing, got>>
    BY StepsOfNext, StepRefines DEF BInv
<1>3. BInv /\ BInv' /\ [Next]_vars =>
          [MF!Reset => \E t \in Threads : Reset(t)]_<<queue, doing, got>>
    BY StepsOfNext, OnlyResetResets DEF BInv
<1> QED
    BY <1>1, <1>2, <1>3, BInvariance, PTL DEF Spec, ImplementsMessageFifo, MF!Spec

=============================================================================
