----------------------------- MODULE OrderLemmas -----------------------------
(***************************************************************************)
(* The order in which both matchers visit their clusters: a sequence that   *)
(* names each registered id once, appended to when an id is new and cut by  *)
(* RemoveFirst when one goes (sim.go:40-68, fluxion.go:185-243).            *)
(***************************************************************************)
EXTENDS Naturals, SequencesExt, SequenceTheorems, FiniteSetTheorems, TLAPS

\* s names each member of S once.
Lists(s, S) == s \in Seq(S) /\ IsInjective(s) /\ \A x \in S : \E i \in 1..Len(s) : s[i] = x

LEMMA ListsAll ==
  ASSUME NEW s, NEW S, Lists(s, S)
  PROVE  ToSet(s) = S /\ IsInjective(s)
BY DEF Lists, ToSet

\* A list names as many ids as there are.
LEMMA ListsCount ==
  ASSUME NEW s, NEW S, Lists(s, S)
  PROVE  IsFiniteSet(S) /\ Len(s) = Cardinality(S)
<1>1. Len(s) \in Nat /\ s \in [1..Len(s) -> S]
  BY DEF Lists
<1>2. s \in Bijection(1..Len(s), S)
  BY <1>1 DEF Lists, Bijection, Injection, Surjection, IsInjective
<1>3. IsFiniteSet(1..Len(s)) /\ Cardinality(1..Len(s)) = Len(s)
  BY <1>1, FS_Interval
<1> QED
  BY <1>2, <1>3, FS_Bijection DEF ExistsBijection

LEMMA ListsEmpty == Lists(<<>>, {})
BY DEF Lists, IsInjective

\* A new id goes to the end.
LEMMA ListsAppend ==
  ASSUME NEW s, NEW S, Lists(s, S), NEW x, x \notin S
  PROVE  Lists(Append(s, x), S \cup {x})
<1> DEFINE t == Append(s, x)
<1>1. /\ Len(s) \in Nat /\ s \in Seq(S \cup {x})
      /\ \A i \in 1..Len(s) : s[i] \in S
  BY DEF Lists
<1>2. /\ t \in Seq(S \cup {x}) /\ Len(t) = Len(s) + 1 /\ DOMAIN t = 1..Len(s) + 1
      /\ \A i \in 1..Len(s) : t[i] = s[i]
      /\ t[Len(s) + 1] = x
  BY <1>1
<1> HIDE DEF t
<1>3. IsInjective(t)
  <2> SUFFICES ASSUME NEW i \in DOMAIN t, NEW k \in DOMAIN t, t[i] = t[k] PROVE i = k
    BY DEF IsInjective
  <2>1. (i \in 1..Len(s) \/ i = Len(s) + 1) /\ (k \in 1..Len(s) \/ k = Len(s) + 1)
    BY <1>1, <1>2
  <2>2. \A m, n \in 1..Len(s) : s[m] = s[n] => m = n
    BY DEF Lists, IsInjective
  <2> QED
    BY <1>1, <1>2, <2>1, <2>2
<1>4. ASSUME NEW y \in S \cup {x} PROVE \E i \in 1..Len(t) : t[i] = y
  <2>1. CASE y = x
    BY <1>1, <1>2, <2>1
  <2>2. CASE y \in S
    <3>1. PICK i \in 1..Len(s) : s[i] = y
      BY <2>2 DEF Lists
    <3>2. i \in 1..Len(t)
      BY <1>1, <1>2
    <3> QED
      BY <1>2, <3>1, <3>2
  <2> QED
    BY <2>1, <2>2
<1> QED
  BY <1>2, <1>3, <1>4 DEF Lists, t

\* An id that goes is taken out of its place.
LEMMA ListsRemove ==
  ASSUME NEW s, NEW S, Lists(s, S), NEW x \in S
  PROVE  Lists(RemoveFirst(s, x), S \ {x})
<1>1. PICK k \in 1..Len(s) : s[k] = x
  BY DEF Lists
<1>2. /\ Len(s) \in Nat /\ k \in Nat /\ 1 <= k /\ k <= Len(s)
      /\ \A i \in 1..Len(s) : s[i] \in S
      /\ DOMAIN s = 1..Len(s)
      /\ \A m, n \in 1..Len(s) : s[m] = s[n] => m = n
  <2>1. s \in Seq(S) /\ Len(s) \in Nat /\ DOMAIN s = 1..Len(s)
    BY DEF Lists
  <2>2. k \in Nat /\ 1 <= k /\ k <= Len(s)
    BY <1>1, <2>1
  <2>3. \A i \in 1..Len(s) : s[i] \in S
    BY <2>1
  <2> QED
    BY <2>1, <2>2, <2>3 DEF Lists, IsInjective
<1>3. SelectInSeq(s, LAMBDA v : v = x) = k
  <2>1. {i \in 1..Len(s) : s[i] = x} = {k}
    BY <1>1, <1>2
  <2>2. Min({k}) = k
    BY <1>2 DEF Min
  <2> QED
    BY <2>1, <2>2 DEF SelectInSeq
<1> DEFINE t == SubSeq(s, 1, k - 1) \o SubSeq(s, k + 1, Len(s))
<1>4. RemoveFirst(s, x) = t
  BY <1>1, <1>3 DEF RemoveFirst, RemoveAt
<1>5. /\ t \in Seq(S) /\ Len(t) = Len(s) - 1 /\ Len(s) - 1 \in Nat
      /\ \A i \in 1..Len(s) - 1 : t[i] = IF i < k THEN s[i] ELSE s[i + 1]
  <2> DEFINE a == SubSeq(s, 1, k - 1)
             b == SubSeq(s, k + 1, Len(s))
  <2>1. s \in Seq(S)
    BY DEF Lists
  <2>2. a \in Seq(S) /\ Len(a) = k - 1 /\ \A i \in 1..k - 1 : a[i] = s[i]
    BY <1>2, <2>1
  <2>3. b \in Seq(S) /\ Len(b) = Len(s) - k /\ \A i \in 1..Len(s) - k : b[i] = s[k + i]
    <3>1. k + 1 \in Int /\ Len(s) \in Int /\ \A i \in k + 1..Len(s) : s[i] \in S
      BY <1>2
    <3>2. /\ b \in Seq(S) /\ Len(b) = IF k + 1 <= Len(s) THEN Len(s) - (k + 1) + 1 ELSE 0
          /\ \A i \in 1..Len(s) - (k + 1) + 1 : b[i] = s[(k + 1) + i - 1]
      BY <3>1, SubSeqProperties
    <3> HIDE DEF b
    <3>3. Len(s) - (k + 1) + 1 = Len(s) - k /\ \A i \in Nat : (k + 1) + i - 1 = k + i
      BY <1>2
    <3>4. Len(b) = Len(s) - k
      <4>1. CASE k = Len(s)
        <5>1. ~(k + 1 <= Len(s)) /\ Len(s) - k = 0
          BY <1>2, <4>1
        <5> QED
          BY <3>2, <5>1
      <4>2. CASE k < Len(s)
        <5>1. k + 1 <= Len(s)
          BY <1>2, <4>2
        <5>2. Len(b) = Len(s) - (k + 1) + 1
          BY <3>2, <5>1, Zenon
        <5> QED
          BY <3>3, <5>2, Zenon
      <4>3. k = Len(s) \/ k < Len(s)
        <5>1. k \in Nat /\ Len(s) \in Nat /\ k <= Len(s)
          BY <1>2
        <5> QED
          BY ONLY <5>1
      <4> QED
        BY <4>1, <4>2, <4>3
    <3>5. ASSUME NEW i \in 1..Len(s) - k PROVE b[i] = s[k + i]
      <4>1. i \in Nat /\ i \in 1..Len(s) - (k + 1) + 1
        BY <1>2, <3>3
      <4> QED
        BY <3>2, <3>3, <4>1
    <3> QED
      BY <3>2, <3>4, <3>5
  <2> HIDE DEF a, b
  <2>4. a \o b \in Seq(S) /\ Len(a \o b) = Len(s) - 1 /\ Len(s) - 1 \in Nat
    <3>1. a \in Seq(S) /\ b \in Seq(S)
      BY <2>2, <2>3
    <3>2. a \o b \in Seq(S) /\ Len(a \o b) = Len(a) + Len(b)
      BY ONLY <3>1
    <3> QED
      BY <1>2, <2>2, <2>3, <3>2
  <2>5. ASSUME NEW i \in 1..Len(s) - 1
        PROVE  (a \o b)[i] = IF i < k THEN s[i] ELSE s[i + 1]
    <3>1. CASE i < k
      BY <1>2, <2>2, <2>3, <2>5, <3>1
    <3>2. CASE ~(i < k)
      <4>1. i - (k - 1) \in 1..Len(s) - k /\ k + (i - (k - 1)) = i + 1
        BY <1>2, <2>5, <3>2
      <4>2. (a \o b)[i] = b[i - (k - 1)]
        BY <1>2, <2>2, <2>3, <2>5, <3>2
      <4> QED
        BY <2>3, <3>2, <4>1, <4>2
    <3> QED
      BY <3>1, <3>2
  <2>6. t = a \o b
    BY DEF a, b
  <2> HIDE DEF t
  <2> QED
    BY <2>4, <2>5, <2>6
<1> HIDE DEF t
<1>6. DOMAIN t = 1..Len(s) - 1
  BY <1>5
<1> DEFINE at(i) == IF i < k THEN i ELSE i + 1
<1>7. /\ \A i \in 1..Len(s) - 1 : t[i] = s[at(i)] /\ at(i) \in 1..Len(s) /\ at(i) # k
      /\ \A i, m \in 1..Len(s) - 1 : at(i) = at(m) => i = m
  BY <1>2, <1>5
<1>8. \A n \in 1..Len(s) : n # k => \E i \in 1..Len(s) - 1 : at(i) = n
  <2> SUFFICES ASSUME NEW n \in 1..Len(s), n # k PROVE \E i \in 1..Len(s) - 1 : at(i) = n
    OBVIOUS
  <2>1. CASE n < k
    BY <1>2, <2>1
  <2>2. CASE ~(n < k)
    <3>1. n - 1 \in 1..Len(s) - 1 /\ at(n - 1) = n
      BY <1>2, <2>2
    <3> QED
      BY <3>1
  <2> QED
    BY <2>1, <2>2
<1> HIDE DEF at
<1>9. \A i \in 1..Len(s) - 1 : t[i] \in S \ {x}
  BY <1>1, <1>2, <1>7
<1>10. t \in Seq(S \ {x})
  <2>1. t \in [1..Len(s) - 1 -> S \ {x}]
    BY <1>5, <1>6, <1>9
  <2> QED
    BY <1>5, <2>1
<1>11. IsInjective(t)
  <2> SUFFICES ASSUME NEW i \in 1..Len(s) - 1, NEW m \in 1..Len(s) - 1, t[i] = t[m]
               PROVE  i = m
    BY <1>6 DEF IsInjective
  <2>1. s[at(i)] = s[at(m)] /\ at(i) \in 1..Len(s) /\ at(m) \in 1..Len(s)
    BY <1>7
  <2>2. at(i) = at(m)
    BY ONLY <1>2, <2>1
  <2> QED
    BY <1>7, <2>2
<1>12. ASSUME NEW y \in S \ {x} PROVE \E i \in 1..Len(t) : t[i] = y
  <2>1. PICK n \in 1..Len(s) : s[n] = y
    BY DEF Lists
  <2>2. n # k
    BY <1>1, <2>1
  <2>3. PICK i \in 1..Len(s) - 1 : at(i) = n
    BY <1>8, <2>1, <2>2
  <2> QED
    BY <1>5, <1>7, <2>1, <2>3
<1> QED
  BY <1>4, <1>10, <1>11, <1>12 DEF Lists

\* An id that is not listed is not removed.
LEMMA ListsOthers ==
  ASSUME NEW s, NEW S, Lists(s, S), NEW x, x \notin S
  PROVE  RemoveFirst(s, x) = s
BY DEF Lists, RemoveFirst

=============================================================================
