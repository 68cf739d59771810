--------------------------- MODULE WaitListProofs ---------------------------
(***************************************************************************)
(* What the operations on a list of waiters do to its members: the lemmas   *)
(* the proofs about Futex and BlockDevice use in place of positions.        *)
(***************************************************************************)
EXTENDS WaitList, SequenceTheorems, TLAPS

\* prepare_to_wait adds the thread, once.
LEMMA EnlistedFacts ==
  ASSUME NEW S, NEW s \in Seq(S), NEW t \in S
  PROVE  /\ Enlisted(s, t) \in Seq(S) /\ Enlisted(s, t) # << >>
         /\ \A x : Contains(Enlisted(s, t), x) <=> Contains(s, x) \/ x = t
         /\ IsInjective(s) => IsInjective(Enlisted(s, t))
<1>1. CASE Contains(s, t)
  BY <1>1 DEF Enlisted, Contains
<1>2. CASE ~Contains(s, t)
  <2>1. Enlisted(s, t) = Append(s, t)
    BY <1>2 DEF Enlisted
  <2>2. /\ Append(s, t) \in Seq(S) /\ Len(Append(s, t)) = Len(s) + 1
        /\ \A i \in 1..Len(s) : Append(s, t)[i] = s[i]
        /\ Append(s, t)[Len(s) + 1] = t
    OBVIOUS
  <2>3. \A x : Contains(Append(s, t), x) <=> Contains(s, x) \/ x = t
    BY <2>2 DEF Contains
  <2>4. ASSUME IsInjective(s) PROVE IsInjective(Append(s, t))
    BY <1>2, <2>2, <2>4 DEF IsInjective, Contains
  <2> QED
    BY <2>1, <2>2, <2>3, <2>4
<1> QED
  BY <1>1, <1>2

\* Taking out a position shifts what is behind it.
LEMMA RemoveAtFacts ==
  ASSUME NEW S, NEW s \in Seq(S), NEW p \in 1..Len(s)
  PROVE  /\ RemoveAt(s, p) \in Seq(S) /\ Len(RemoveAt(s, p)) = Len(s) - 1
         /\ \A i \in 1..(Len(s) - 1) : RemoveAt(s, p)[i] = IF i < p THEN s[i] ELSE s[i + 1]
<1> DEFINE a == SubSeq(s, 1, p - 1)
           b == SubSeq(s, p + 1, Len(s))
<1>1. /\ a \in Seq(S) /\ Len(a) = p - 1
      /\ \A i \in 1..(p - 1) : a[i] = s[i]
  <2>1. \A i \in 1..(p - 1) : s[i] \in S
    OBVIOUS
  <2> QED
    BY <2>1, SubSeqProperties
<1>2. /\ b \in Seq(S) /\ Len(b) = Len(s) - p
      /\ \A i \in 1..(Len(s) - p) : b[i] = s[p + i]
  <2>1. \A i \in (p + 1)..Len(s) : s[i] \in S
    OBVIOUS
  <2> QED
    BY <2>1, SubSeqProperties
<1> HIDE DEF a, b
<1>3. /\ a \o b \in Seq(S) /\ Len(a \o b) = Len(s) - 1
      /\ \A i \in 1..(Len(s) - 1) : (a \o b)[i] = IF i < p THEN s[i] ELSE s[i + 1]
  <2>1. /\ a \o b \in Seq(S) /\ Len(a \o b) = Len(a) + Len(b)
        /\ \A i \in 1..(Len(a) + Len(b)) :
             (a \o b)[i] = IF i <= Len(a) THEN a[i] ELSE b[i - Len(a)]
    BY <1>1, <1>2, ConcatProperties
  <2>2. Len(a) + Len(b) = Len(s) - 1
    BY <1>1, <1>2
  <2>3. ASSUME NEW i \in 1..(Len(s) - 1)
        PROVE  (a \o b)[i] = IF i < p THEN s[i] ELSE s[i + 1]
    <3>1. CASE i < p
      <4>1. i <= Len(a) /\ i \in 1..(p - 1)
        BY <1>1, <3>1
      <4> QED
        BY <1>1, <2>1, <2>2, <3>1, <4>1
    <3>2. CASE ~(i < p)
      <4> DEFINE j == i - (p - 1)
      <4>1. ~(i <= Len(a)) /\ j \in 1..(Len(s) - p) /\ i - Len(a) = j /\ p + j = i + 1
        BY <1>1, <3>2
      <4> HIDE DEF j
      <4>2. (a \o b)[i] = b[j]
        BY <2>1, <2>2, <4>1
      <4> QED
        BY <1>2, <3>2, <4>1, <4>2
    <3> QED
      BY <3>1, <3>2
  <2> QED
    BY <2>1, <2>2, <2>3
<1> QED
  BY <1>3 DEF RemoveAt, a, b

\* retain takes the thread out and keeps the others.
LEMMA WithoutFacts ==
  ASSUME NEW S, NEW s \in Seq(S), NEW t, IsInjective(s)
  PROVE  /\ Without(s, t) \in Seq(S)
         /\ \A x : Contains(Without(s, t), x) <=> Contains(s, x) /\ x # t
         /\ IsInjective(Without(s, t))
<1>1. CASE ~Contains(s, t)
  BY <1>1 DEF Without, Contains
<1>2. CASE Contains(s, t)
  <2> DEFINE p == CHOOSE i \in 1..Len(s) : s[i] = t
             r == RemoveAt(s, p)
  <2>1. p \in 1..Len(s) /\ s[p] = t
    BY <1>2 DEF Contains
  <2> HIDE DEF p
  <2>2. /\ r \in Seq(S) /\ Len(r) = Len(s) - 1
        /\ \A i \in 1..(Len(s) - 1) : r[i] = IF i < p THEN s[i] ELSE s[i + 1]
    BY <2>1, RemoveAtFacts
  <2> HIDE DEF r
  <2>3. \A i, j \in 1..Len(s) : s[i] = s[j] => i = j
    BY DEF IsInjective
  <2>4. ASSUME NEW x PROVE Contains(r, x) <=> Contains(s, x) /\ x # t
    <3>1. ASSUME NEW i \in 1..Len(r), r[i] = x PROVE Contains(s, x) /\ x # t
      <4>1. i \in 1..Len(s) /\ i + 1 \in 1..Len(s) /\ i \in 1..(Len(s) - 1)
        BY <2>2
      <4>2. CASE i < p
        BY <2>1, <2>2, <2>3, <3>1, <4>1, <4>2 DEF Contains
      <4>3. CASE ~(i < p)
        <5>1. x = s[i + 1] /\ i + 1 # p
          BY <2>1, <2>2, <3>1, <4>1, <4>3
        <5> QED
          BY <2>1, <2>3, <4>1, <5>1 DEF Contains
      <4> QED
        BY <4>2, <4>3
    <3>2. ASSUME NEW j \in 1..Len(s), s[j] = x, x # t PROVE Contains(r, x)
      <4>1. CASE j < p
        <5>1. j \in 1..Len(r) /\ r[j] = x
          BY <2>1, <2>2, <3>2, <4>1
        <5> QED
          BY <5>1 DEF Contains
      <4>2. CASE p < j
        <5>1. j - 1 \in 1..Len(r) /\ ~(j - 1 < p) /\ (j - 1) + 1 = j
          BY <2>1, <2>2, <4>2
        <5>2. r[j - 1] = x
          BY <2>2, <3>2, <5>1
        <5> QED
          BY <5>1, <5>2 DEF Contains
      <4> QED
        BY <2>1, <3>2, <4>1, <4>2
    <3> QED
      BY <3>1, <3>2 DEF Contains
  <2>5. ASSUME NEW i \in 1..Len(r), NEW j \in 1..Len(r), r[i] = r[j] PROVE i = j
    <3> DEFINE i2 == IF i < p THEN i ELSE i + 1
               j2 == IF j < p THEN j ELSE j + 1
    <3>1. i2 \in 1..Len(s) /\ j2 \in 1..Len(s) /\ s[i2] = s[j2]
      BY <2>1, <2>2, <2>5
    <3>2. i2 = j2
      BY <2>3, <3>1
    <3> QED
      BY <2>1, <3>2
  <2>6. IsInjective(r)
    BY <2>2, <2>5 DEF IsInjective
  <2> QED
    BY <1>2, <2>2, <2>4, <2>6 DEF Without, r, p
<1> QED
  BY <1>1, <1>2

\* pop_front takes the first out.
LEMMA TailFacts ==
  ASSUME NEW S, NEW s \in Seq(S), s # << >>
  PROVE  /\ Tail(s) \in Seq(S) /\ Head(s) \in S
         /\ IsInjective(s) => IsInjective(Tail(s))
<1>1. /\ Tail(s) \in Seq(S) /\ Head(s) \in S /\ Len(Tail(s)) = Len(s) - 1
      /\ \A i \in 1..(Len(s) - 1) : Tail(s)[i] = s[i + 1]
  OBVIOUS
<1>2. ASSUME IsInjective(s), NEW i \in 1..(Len(s) - 1), NEW j \in 1..(Len(s) - 1),
             Tail(s)[i] = Tail(s)[j]
      PROVE  i = j
  <2>1. i + 1 \in 1..Len(s) /\ j + 1 \in 1..Len(s) /\ s[i + 1] = s[j + 1]
    BY <1>1, <1>2
  <2>2. i + 1 = j + 1
    BY <1>2, <2>1 DEF IsInjective
  <2> QED
    BY <2>2
<1> QED
  BY <1>1, <1>2 DEF IsInjective

\* pop_front, k times: the members are divided between what is popped and
\* what is left.
LEMMA SplitFacts ==
  ASSUME NEW S, NEW s \in Seq(S), NEW k \in 0..Len(s), IsInjective(s)
  PROVE  /\ SubSeq(s, k + 1, Len(s)) \in Seq(S)
         /\ IsInjective(SubSeq(s, k + 1, Len(s)))
         /\ ToSet(SubSeq(s, 1, k)) \subseteq S
         /\ ToSet(SubSeq(s, k + 1, Len(s))) \subseteq S
         /\ \A x : Contains(SubSeq(s, k + 1, Len(s)), x)
                     <=> x \in ToSet(SubSeq(s, k + 1, Len(s)))
         /\ \A x : x \in ToSet(SubSeq(s, k + 1, Len(s)))
                     <=> Contains(s, x) /\ x \notin ToSet(SubSeq(s, 1, k))
         /\ \A x \in ToSet(SubSeq(s, 1, k)) : Contains(s, x)
<1> DEFINE a == SubSeq(s, 1, k)
           b == SubSeq(s, k + 1, Len(s))
           n == Len(s) - k
<1>1. /\ a \in Seq(S) /\ Len(a) = k
      /\ \A i \in 1..k : a[i] = s[i]
  <2>1. \A i \in 1..k : s[i] \in S
    OBVIOUS
  <2> QED
    BY <2>1, SubSeqProperties
<1>2. /\ b \in Seq(S) /\ Len(b) = n
      /\ \A i \in 1..n : b[i] = s[k + i]
  <2>1. \A i \in (k + 1)..Len(s) : s[i] \in S
    OBVIOUS
  <2> QED
    BY <2>1, SubSeqProperties
<1> HIDE DEF a, b
<1>3. \A i, j \in 1..Len(s) : s[i] = s[j] => i = j
  BY DEF IsInjective
<1>4. DOMAIN a = 1..k /\ DOMAIN b = 1..n
  BY <1>1, <1>2
<1>5. IsInjective(b)
  <2> SUFFICES ASSUME NEW i \in 1..n, NEW j \in 1..n, b[i] = b[j] PROVE i = j
    BY <1>4 DEF IsInjective
  <2>1. k + i \in 1..Len(s) /\ k + j \in 1..Len(s) /\ s[k + i] = s[k + j]
    BY <1>2
  <2>2. k + i = k + j
    BY <1>3, <2>1
  <2> QED
    BY <2>2
<1>6. ToSet(a) \subseteq S /\ ToSet(b) \subseteq S
  BY <1>1, <1>2, <1>4 DEF ToSet
<1>7. \A x : Contains(b, x) <=> x \in ToSet(b)
  BY <1>2, <1>4 DEF Contains, ToSet
<1>8. ASSUME NEW x PROVE x \in ToSet(b) <=> Contains(s, x) /\ x \notin ToSet(a)
  <2>1. ASSUME NEW i \in 1..n, b[i] = x PROVE Contains(s, x) /\ x \notin ToSet(a)
    <3>1. k + i \in 1..Len(s) /\ s[k + i] = x
      BY <1>2, <2>1
    <3>2. ASSUME NEW j \in 1..k, a[j] = x PROVE FALSE
      <4>1. j \in 1..Len(s) /\ s[j] = x
        BY <1>1, <3>2
      <4>2. j = k + i
        BY <1>3, <3>1, <4>1
      <4> QED
        BY <4>2
    <3> QED
      BY <1>4, <3>1, <3>2 DEF Contains, ToSet
  <2>2. ASSUME NEW j \in 1..Len(s), s[j] = x, x \notin ToSet(a) PROVE x \in ToSet(b)
    <3>1. ~(j <= k)
      BY <1>1, <1>4, <2>2 DEF ToSet
    <3>2. j - k \in 1..n /\ k + (j - k) = j
      BY <3>1
    <3>3. b[j - k] = x
      BY <1>2, <2>2, <3>2
    <3> QED
      BY <1>4, <3>2, <3>3 DEF ToSet
  <2> QED
    BY <1>4, <2>1, <2>2 DEF Contains, ToSet
<1>9. ASSUME NEW x \in ToSet(a) PROVE Contains(s, x)
  BY <1>1, <1>4 DEF Contains, ToSet
<1> QED
  BY <1>2, <1>5, <1>6, <1>7, <1>8, <1>9 DEF a, b
=============================================================================
