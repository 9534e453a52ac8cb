------------------------------ MODULE ListLemmas ------------------------------
(***************************************************************************)
(* What the proofs need to know of the lists the program keeps: RemoveAt,  *)
(* which is erase() of an iterator, ToSet and FlattenSeq; and induction on *)
(* the naturals, with a set for the predicate.                             *)
(***************************************************************************)
EXTENDS Integers, Sequences, SequencesExt, SequenceTheorems, WellFoundedInduction, TLAPS

\* erase() takes one place out and moves the later ones down.
LEMMA RemoveAtPlaces ==
  ASSUME NEW S, NEW s \in Seq(S), NEW i \in 1..Len(s)
  PROVE  /\ RemoveAt(s, i) \in Seq(S)
         /\ Len(RemoveAt(s, i)) = Len(s) - 1
         /\ \A k \in 1..(Len(s) - 1) : RemoveAt(s, i)[k] = IF k < i THEN s[k] ELSE s[k + 1]
<1> DEFINE a == SubSeq(s, 1, i - 1)
           b == SubSeq(s, i + 1, Len(s))
<1>1. /\ a \in Seq(S) /\ Len(a) = i - 1
      /\ \A k \in 1..(i - 1) : a[k] = s[k]
  BY SubSeqProperties, ElementOfSeq
<1>2. /\ b \in Seq(S) /\ Len(b) = Len(s) - i
      /\ \A k \in 1..(Len(s) - i) : b[k] = s[k + i]
  BY SubSeqProperties, ElementOfSeq
<1> HIDE DEF a, b
<1>3. /\ a \o b \in Seq(S) /\ Len(a \o b) = Len(s) - 1
      /\ \A k \in 1..(Len(s) - 1) : (a \o b)[k] = IF k <= i - 1 THEN a[k] ELSE b[k - (i - 1)]
  <2>1. /\ a \o b \in Seq(S) /\ Len(a \o b) = Len(a) + Len(b)
        /\ \A k \in 1..(Len(a) + Len(b)) : (a \o b)[k] = IF k <= Len(a) THEN a[k] ELSE b[k - Len(a)]
    BY <1>1, <1>2, ConcatProperties
  <2>2. Len(a) + Len(b) = Len(s) - 1
    BY <1>1, <1>2
  <2> QED
    BY <1>1, <2>1, <2>2
<1>4. ASSUME NEW k \in 1..(Len(s) - 1)
      PROVE  (a \o b)[k] = IF k < i THEN s[k] ELSE s[k + 1]
  <2>1. CASE k < i
    BY <2>1, <1>1, <1>3
  <2>2. CASE ~(k < i)
    BY <2>2, <1>2, <1>3
  <2> QED
    BY <2>1, <2>2
<1> QED
  BY <1>3, <1>4 DEF RemoveAt, a, b

\* Every other element of the list is still in it, and nothing else is.
LEMMA RemoveAtSet ==
  ASSUME NEW S, NEW s \in Seq(S), NEW i \in 1..Len(s)
  PROVE  /\ ToSet(RemoveAt(s, i)) \subseteq ToSet(s)
         /\ ToSet(s) \ {s[i]} \subseteq ToSet(RemoveAt(s, i))
<1> DEFINE r == RemoveAt(s, i)
<1>1. /\ r \in Seq(S) /\ Len(r) = Len(s) - 1
      /\ \A k \in 1..(Len(s) - 1) : r[k] = IF k < i THEN s[k] ELSE s[k + 1]
  BY RemoveAtPlaces
<1> HIDE DEF r
<1>2. ToSet(r) = {r[k] : k \in 1..(Len(s) - 1)} /\ ToSet(s) = {s[k] : k \in 1..Len(s)}
  BY <1>1, LenProperties DEF ToSet
<1>3. \A k \in 1..(Len(s) - 1) : \E j \in 1..Len(s) : r[k] = s[j]
  BY <1>1
<1>4. ASSUME NEW j \in 1..Len(s), j # i
      PROVE  \E k \in 1..(Len(s) - 1) : r[k] = s[j]
  <2>1. CASE j < i
    BY <2>1, <1>1
  <2>2. CASE j > i
    <3>1. j - 1 \in 1..(Len(s) - 1) /\ r[j - 1] = s[j]
      BY <2>2, <1>1
    <3> QED
      BY <3>1
  <2> QED
    BY <1>4, <2>1, <2>2
<1> QED
  BY <1>2, <1>3, <1>4 DEF r

\* pop_front() is the erase() of the first place.
LEMMA TailIsRemoveAt ==
  ASSUME NEW S, NEW s \in Seq(S), s # <<>>
  PROVE  Tail(s) = RemoveAt(s, 1)
<1>1. SubSeq(s, 1, 0) = <<>> /\ Tail(s) = SubSeq(s, 2, Len(s)) /\ Tail(s) \in Seq(S)
  BY SubSeqEmpty, TailIsSubSeq, HeadTailProperties
<1> QED
  BY <1>1, ConcatEmptySeq DEF RemoveAt

\* push_back() adds its argument.
LEMMA AppendSet ==
  ASSUME NEW S, NEW s \in Seq(S), NEW e \in S
  PROVE  Append(s, e) \in Seq(S) /\ ToSet(Append(s, e)) = ToSet(s) \cup {e}
<1> DEFINE a == Append(s, e)
<1>1. a \in Seq(S) /\ Len(a) = Len(s) + 1 /\ Len(s) \in Nat
  OBVIOUS
<1>2. \A k \in 1..(Len(s) + 1) : a[k] = IF k = Len(s) + 1 THEN e ELSE s[k]
  OBVIOUS
<1> HIDE DEF a
<1>3. ToSet(a) = {a[k] : k \in 1..(Len(s) + 1)} /\ ToSet(s) = {s[k] : k \in 1..Len(s)}
  BY <1>1, LenProperties DEF ToSet
<1>4. \A k \in 1..Len(s) : k \in 1..(Len(s) + 1) /\ a[k] = s[k]
  BY <1>1, <1>2
<1>5. Len(s) + 1 \in 1..(Len(s) + 1) /\ a[Len(s) + 1] = e
  BY <1>1, <1>2
<1> QED
  BY <1>1, <1>2, <1>3, <1>4, <1>5 DEF a

\* splice() adds the elements of the other list.
LEMMA ConcatSet ==
  ASSUME NEW S, NEW s \in Seq(S), NEW t \in Seq(S)
  PROVE  s \o t \in Seq(S) /\ ToSet(s \o t) = ToSet(s) \cup ToSet(t)
<1> DEFINE c == s \o t
<1>1. /\ c \in Seq(S) /\ Len(c) = Len(s) + Len(t) /\ Len(s) \in Nat /\ Len(t) \in Nat
      /\ \A k \in 1..(Len(s) + Len(t)) : c[k] = IF k <= Len(s) THEN s[k] ELSE t[k - Len(s)]
  BY ConcatProperties
<1> HIDE DEF c
<1>2. /\ ToSet(c) = {c[k] : k \in 1..(Len(s) + Len(t))}
      /\ ToSet(s) = {s[k] : k \in 1..Len(s)} /\ ToSet(t) = {t[k] : k \in 1..Len(t)}
  BY <1>1, LenProperties DEF ToSet
<1>3. \A k \in 1..Len(s) : k \in 1..(Len(s) + Len(t)) /\ c[k] = s[k]
  BY <1>1
<1>4. ASSUME NEW k \in 1..Len(t)
      PROVE  \E j \in 1..(Len(s) + Len(t)) : c[j] = t[k]
  <2>1. Len(s) + k \in 1..(Len(s) + Len(t)) /\ ~(Len(s) + k <= Len(s))
        /\ (Len(s) + k) - Len(s) = k
    BY <1>1
  <2>2. c[Len(s) + k] = t[(Len(s) + k) - Len(s)]
    BY <1>1, <2>1
  <2> QED
    BY <2>1, <2>2
<1>5. ASSUME NEW k \in 1..(Len(s) + Len(t))
      PROVE  c[k] \in ToSet(s) \cup ToSet(t)
  <2>1. CASE k <= Len(s)
    BY <1>1, <1>2, <2>1
  <2>2. CASE ~(k <= Len(s))
    <3>1. k - Len(s) \in 1..Len(t) /\ c[k] = t[k - Len(s)]
      BY <1>1, <2>2
    <3> QED
      BY <1>2, <3>1
  <2> QED
    BY <2>1, <2>2
<1>6. ToSet(c) \subseteq ToSet(s) \cup ToSet(t)
  BY <1>2, <1>5
<1>7. ToSet(s) \subseteq ToSet(c) /\ ToSet(t) \subseteq ToSet(c)
  BY <1>2, <1>3, <1>4
<1> QED
  BY <1>1, <1>6, <1>7 DEF c
-----------------------------------------------------------------------------
(* Lists that hold nothing twice. *)

Distinct(s) == \A i, j \in 1..Len(s) : s[i] = s[j] => i = j

\* erase() leaves the places distinct, and its element is gone from a list that had it once.
LEMMA RemoveAtDistinct ==
  ASSUME NEW S, NEW s \in Seq(S), NEW i \in 1..Len(s), Distinct(s)
  PROVE  Distinct(RemoveAt(s, i)) /\ s[i] \notin ToSet(RemoveAt(s, i))
<1> DEFINE r == RemoveAt(s, i)
<1>1. /\ r \in Seq(S) /\ Len(r) = Len(s) - 1 /\ Len(s) \in Nat
      /\ \A k \in 1..(Len(s) - 1) : r[k] = IF k < i THEN s[k] ELSE s[k + 1]
  BY RemoveAtPlaces
<1> HIDE DEF r
<1>2. \A k \in 1..(Len(s) - 1) : \E j \in 1..Len(s) : j # i /\ r[k] = s[j]
  BY <1>1
<1>3. Distinct(r)
  <2> SUFFICES ASSUME NEW k \in 1..Len(r), NEW l \in 1..Len(r), r[k] = r[l]
               PROVE  k = l
    BY DEF Distinct
  <2> DEFINE up(x) == IF x < i THEN x ELSE x + 1
  <2>1. up(k) \in 1..Len(s) /\ up(l) \in 1..Len(s) /\ r[k] = s[up(k)] /\ r[l] = s[up(l)]
    BY <1>1
  <2>2. up(k) = up(l)
    BY <2>1 DEF Distinct
  <2> QED
    BY <1>1, <2>2
<1>4. s[i] \notin ToSet(r)
  <2>1. ToSet(r) = {r[k] : k \in 1..(Len(s) - 1)}
    BY <1>1, LenProperties DEF ToSet
  <2>2. \A k \in 1..(Len(s) - 1) : r[k] # s[i]
    BY <1>2 DEF Distinct
  <2> QED
    BY <2>1, <2>2
<1> QED
  BY <1>3, <1>4 DEF r

\* splice() of a list that has nothing in common with this one.
LEMMA ConcatDistinct ==
  ASSUME NEW S, NEW s \in Seq(S), NEW t \in Seq(S), Distinct(s), Distinct(t),
         ToSet(s) \cap ToSet(t) = {}
  PROVE  Distinct(s \o t)
<1> DEFINE c == s \o t
<1>1. /\ Len(c) = Len(s) + Len(t) /\ Len(s) \in Nat /\ Len(t) \in Nat
      /\ \A k \in 1..(Len(s) + Len(t)) : c[k] = IF k <= Len(s) THEN s[k] ELSE t[k - Len(s)]
  BY ConcatProperties
<1> HIDE DEF c
<1>2. \A i \in 1..Len(s), j \in 1..Len(t) : s[i] # t[j]
  BY LenProperties DEF ToSet
<1>3. ASSUME NEW i \in 1..Len(c), NEW j \in 1..Len(c), c[i] = c[j]
      PROVE  i = j
  <2>1. CASE i <= Len(s) /\ j <= Len(s)
    BY <1>1, <1>3, <2>1 DEF Distinct
  <2>2. CASE i > Len(s) /\ j > Len(s)
    <3>1. /\ i - Len(s) \in 1..Len(t) /\ j - Len(s) \in 1..Len(t)
          /\ t[i - Len(s)] = t[j - Len(s)]
      BY <1>1, <1>3, <2>2
    <3>2. i - Len(s) = j - Len(s)
      BY <3>1 DEF Distinct
    <3> QED
      BY <1>1, <3>2
  <2>3. CASE i <= Len(s) /\ j > Len(s)
    <3>1. i \in 1..Len(s) /\ j - Len(s) \in 1..Len(t) /\ s[i] = t[j - Len(s)]
      BY <1>1, <1>3, <2>3
    <3> QED
      BY <1>2, <3>1
  <2>4. CASE i > Len(s) /\ j <= Len(s)
    <3>1. j \in 1..Len(s) /\ i - Len(s) \in 1..Len(t) /\ s[j] = t[i - Len(s)]
      BY <1>1, <1>3, <2>4
    <3> QED
      BY <1>2, <3>1
  <2> QED
    BY <1>1, <2>1, <2>2, <2>3, <2>4
<1> QED
  BY <1>3 DEF Distinct, c

\* push_back() of what is not in the list.
LEMMA AppendDistinct ==
  ASSUME NEW S, NEW s \in Seq(S), NEW e \in S, Distinct(s), e \notin ToSet(s)
  PROVE  Distinct(Append(s, e))
<1>1. \A i \in 1..Len(s) : s[i] # e
  BY LenProperties DEF ToSet
<1> QED
  BY <1>1 DEF Distinct

\* pop_front() takes the first element out, and the others keep their order.
LEMMA TailDistinct ==
  ASSUME NEW S, NEW s \in Seq(S), s # <<>>, Distinct(s)
  PROVE  /\ Tail(s) \in Seq(S) /\ Head(s) \in ToSet(s)
         /\ Len(s) \in Nat \ {0} /\ Len(Tail(s)) = Len(s) - 1
         /\ \A i \in 1..(Len(s) - 1) : Tail(s)[i] = s[i + 1]
         /\ Distinct(Tail(s)) /\ ToSet(Tail(s)) = ToSet(s) \ {Head(s)}
<1>1. Len(s) \in Nat \ {0} /\ 1 \in 1..Len(s) /\ s[1] = Head(s)
  OBVIOUS
<1>2. /\ Tail(s) = RemoveAt(s, 1) /\ Tail(s) \in Seq(S) /\ Len(Tail(s)) = Len(s) - 1
      /\ \A i \in 1..(Len(s) - 1) : Tail(s)[i] = s[i + 1]
  <2>1. \A i \in 1..(Len(s) - 1) : ~(i < 1)
    BY <1>1
  <2> QED
    BY <1>1, <2>1, TailIsRemoveAt, RemoveAtPlaces
<1>3. Head(s) \in ToSet(s)
  BY <1>1, LenProperties DEF ToSet
<1>4. /\ Distinct(Tail(s)) /\ Head(s) \notin ToSet(Tail(s))
      /\ ToSet(Tail(s)) \subseteq ToSet(s) /\ ToSet(s) \ {Head(s)} \subseteq ToSet(Tail(s))
  <2>1. Distinct(RemoveAt(s, 1)) /\ s[1] \notin ToSet(RemoveAt(s, 1))
    BY <1>1, RemoveAtDistinct
  <2>2. ToSet(RemoveAt(s, 1)) \subseteq ToSet(s) /\ ToSet(s) \ {s[1]} \subseteq ToSet(RemoveAt(s, 1))
    BY <1>1, RemoveAtSet
  <2> QED
    BY <1>1, <1>2, <2>1, <2>2
<1> QED
  BY <1>1, <1>2, <1>3, <1>4
-----------------------------------------------------------------------------
(* Induction on the naturals, by the least counterexample. *)

\* Every set of naturals with an element has a least one.
LEMMA Least ==
  ASSUME NEW S \in SUBSET Nat, S # {}
  PROVE  \E m \in S : \A n \in S : m <= n
<1> DEFINE R == OpToRel(<, Nat)
<1>1. \A x \in Nat, y \in Nat : x < y => <<x, y>> \in R
  BY DEF OpToRel
<1>2. IsWellFoundedOn(R, Nat)
  BY NatLessThanWellFounded
<1> HIDE DEF R
<1>3. PICK m \in S : \A n \in S : ~(<<n, m>> \in R)
  BY <1>2, WFMin
<1>4. ASSUME NEW n \in S
      PROVE  m <= n
  <2>1. m \in Nat /\ n \in Nat /\ ~(n < m)
    BY <1>1, <1>3
  <2> QED
    BY <2>1
<1> QED
  BY <1>4

\* A set that holds 0, and with every number the next one, holds them all.
LEMMA SetInduction ==
  ASSUME NEW T, 0 \in T, \A n \in Nat : n \in T => n + 1 \in T
  PROVE  \A n \in Nat : n \in T
<1> SUFFICES ASSUME NEW k \in Nat, k \notin T
             PROVE  FALSE
  OBVIOUS
<1> DEFINE S == {n \in Nat : n \notin T}
<1>1. S \in SUBSET Nat /\ S # {}
  OBVIOUS
<1>2. PICK m \in S : \A n \in S : m <= n
  BY <1>1, Least
<1>3. m # 0 /\ m \in Nat /\ m \notin T
  OBVIOUS
<1>4. m - 1 \in Nat /\ m - 1 \notin S /\ m = (m - 1) + 1
  BY <1>2, <1>3
<1>5. m - 1 \in T
  BY <1>4
<1> QED
  BY <1>3, <1>4, <1>5
-----------------------------------------------------------------------------
(* FlattenSeq, which is computed one sequence at a time. *)

\* There are such partial results, and the last of them is what FlattenSeq returns.
LEMMA FlattenParts ==
  ASSUME NEW S, NEW ss \in Seq(Seq(S)), ss # <<>>
  PROVE  \E f \in [1..Len(ss) -> Seq(S)] :
           /\ f[1] = ss[1]
           /\ \A i \in 2..Len(ss) : f[i] = f[i - 1] \o ss[i]
           /\ FlattenSeq(ss) = f[Len(ss)]
<1> DEFINE N == Len(ss)
           step(g, i) == IF i = 1 THEN ss[i] ELSE g[i - 1] \o ss[i]
           T == {n \in Nat : n <= N =>
                   \E g \in [1..n -> Seq(S)] : \A i \in 1..n : g[i] = step(g, i)}
<1>0. N \in Nat \ {0} /\ \A i \in 1..N : ss[i] \in Seq(S)
  OBVIOUS
<1>1. 0 \in T
  <2> DEFINE g == [i \in 1..0 |-> <<>>]
  <2>1. g \in [1..0 -> Seq(S)] /\ \A i \in 1..0 : FALSE
    OBVIOUS
  <2> HIDE DEF g
  <2>2. \A i \in 1..0 : g[i] = step(g, i)
    BY <2>1
  <2> QED
    BY <2>1, <2>2
<1>2. ASSUME NEW n \in Nat, n \in T
      PROVE  n + 1 \in T
  <2> SUFFICES ASSUME n + 1 <= N
               PROVE  \E g \in [1..(n + 1) -> Seq(S)] : \A i \in 1..(n + 1) : g[i] = step(g, i)
    OBVIOUS
  <2>1. PICK g \in [1..n -> Seq(S)] : \A i \in 1..n : g[i] = step(g, i)
    <3>1. n <= N
      BY <1>0
    <3> HIDE DEF step
    <3> QED
      BY <1>2, <3>1
  <2> DEFINE h == [i \in 1..(n + 1) |-> IF i = n + 1 THEN step(g, i) ELSE g[i]]
  <2>2. step(g, n + 1) \in Seq(S)
    <3>1. CASE n = 0
      BY <1>0, <3>1
    <3>2. CASE n # 0
      <4>1. n \in 1..n /\ g[n] \in Seq(S) /\ ss[n + 1] \in Seq(S) /\ n + 1 # 1 /\ (n + 1) - 1 = n
        BY <1>0, <3>2
      <4> QED
        BY <4>1, ConcatProperties
    <3> QED
      BY <3>1, <3>2
  <2>3. h \in [1..(n + 1) -> Seq(S)]
    BY <2>2
  <2>4. ASSUME NEW i \in 1..(n + 1)
        PROVE  h[i] = step(h, i)
    <3>1. i # 1 => i - 1 \in 1..n /\ h[i - 1] = g[i - 1]
      BY <1>2
    <3>2. step(h, i) = step(g, i)
      BY <3>1
    <3>3. h[i] = step(g, i)
      <4>1. i # n + 1 => i \in 1..n
        BY <1>2
      <4> HIDE DEF step
      <4> QED
        BY <2>1, <4>1
    <3> QED
      BY <3>2, <3>3
  <2> QED
    BY <2>3, <2>4
<1>3. N \in T
  <2> HIDE DEF T, N
  <2>1. \A n \in Nat : n \in T
    BY <1>1, <1>2, SetInduction
  <2> QED
    BY <1>0, <2>1
<1>4. PICK g \in [1..N -> Seq(S)] : \A i \in 1..N : g[i] = step(g, i)
  <2>1. N <= N
    BY <1>0
  <2> HIDE DEF step, N
  <2> QED
    BY <1>3, <2>1
<1>5. g = [i \in 1..N |-> IF i = 1 THEN ss[i] ELSE g[i - 1] \o ss[i]]
  BY <1>4
<1> DEFINE F == CHOOSE f : f = [i \in 1..N |-> IF i = 1 THEN ss[i] ELSE f[i - 1] \o ss[i]]
<1>6. F = [i \in 1..N |-> IF i = 1 THEN ss[i] ELSE F[i - 1] \o ss[i]]
  BY <1>5
<1>7. FlattenSeq(ss) = F[N]
  BY <1>0 DEF FlattenSeq
<1> HIDE DEF F
<1>8. ASSUME NEW i \in 1..N
      PROVE  F[i] = step(F, i)
  BY <1>6
<1>9. F \in [1..N -> Seq(S)]
  <2> DEFINE U == {n \in Nat : n \in 1..N => F[n] \in Seq(S)}
  <2>1. 0 \in U
    OBVIOUS
  <2>2. ASSUME NEW n \in Nat, n \in U
        PROVE  n + 1 \in U
    <3> SUFFICES ASSUME n + 1 \in 1..N
                 PROVE  F[n + 1] \in Seq(S)
      OBVIOUS
    <3>1. CASE n = 0
      BY <1>0, <1>8, <3>1
    <3>2. CASE n # 0
      <4>1. n \in 1..N /\ F[n] \in Seq(S) /\ ss[n + 1] \in Seq(S) /\ n + 1 # 1 /\ (n + 1) - 1 = n
        BY <1>0, <2>2, <3>2
      <4>2. F[n + 1] = F[n] \o ss[n + 1]
        BY <1>8, <4>1
      <4> QED
        BY <4>1, <4>2, ConcatProperties
    <3> QED
      BY <3>1, <3>2
  <2> HIDE DEF U
  <2>3. \A n \in Nat : n \in U
    BY <2>1, <2>2, SetInduction
  <2>4. \A n \in 1..N : F[n] \in Seq(S)
    BY <2>3 DEF U
  <2> QED
    BY <1>6, <2>4
<1>10. F[1] = ss[1] /\ \A i \in 2..N : F[i] = F[i - 1] \o ss[i]
  <2>1. 1 \in 1..N /\ \A i \in 2..N : i \in 1..N /\ i # 1
    BY <1>0
  <2> HIDE DEF N
  <2> QED
    BY <1>8, <2>1
<1> QED
  BY <1>7, <1>9, <1>10

\* A sequence is the concatenation of parts that lie one after the other in it: the part i begins
\* where the parts before it end, at P[i - 1].
LEMMA FlattenByPlaces ==
  ASSUME NEW S, NEW ss \in Seq(Seq(S)), NEW q \in Seq(S), NEW P \in [0..Len(ss) -> Nat],
         P[0] = 0, \A i \in 1..Len(ss) : P[i] = P[i - 1] + Len(ss[i]),
         Len(q) = P[Len(ss)],
         \A i \in 1..Len(ss) : \A k \in 1..Len(ss[i]) : ss[i][k] = q[P[i - 1] + k]
  PROVE  FlattenSeq(ss) = q
<1> DEFINE N == Len(ss)
<1>0. N \in Nat /\ \A i \in 1..N : ss[i] \in Seq(S) /\ Len(ss[i]) \in Nat
  <2>1. \A i \in 1..N : ss[i] \in Seq(S)
    OBVIOUS
  <2> QED
    BY <2>1
<1>1. CASE ss = <<>>
  <2>1. FlattenSeq(ss) = <<>> /\ Len(q) = 0
    BY <1>1 DEF FlattenSeq
  <2> QED
    BY <2>1
<1>2. CASE ss # <<>>
  <2>1. PICK f \in [1..N -> Seq(S)] : /\ f[1] = ss[1]
                                      /\ \A i \in 2..N : f[i] = f[i - 1] \o ss[i]
                                      /\ FlattenSeq(ss) = f[N]
    BY <1>2, FlattenParts
  <2>2. N \in Nat \ {0}
    BY <1>2
  <2> HIDE DEF N
  <2> DEFINE good(n) == Len(f[n]) = P[n] /\ \A k \in 1..P[n] : f[n][k] = q[k]
             T == {n \in Nat : n \in 1..N => good(n)}
  <2>3. 0 \in T
    OBVIOUS
  <2>4. ASSUME NEW n \in Nat, n \in T
        PROVE  n + 1 \in T
    <3> SUFFICES ASSUME n + 1 \in 1..N
                 PROVE  good(n + 1)
      OBVIOUS
    <3> DEFINE s == ss[n + 1]
    <3>0. /\ n \in 0..Len(ss) /\ n + 1 \in 1..Len(ss) /\ n + 1 \in 0..Len(ss) /\ (n + 1) - 1 = n
      BY <2>2 DEF N
    <3>1. /\ s \in Seq(S) /\ Len(s) \in Nat /\ P[n] \in Nat /\ P[n + 1] = P[n] + Len(s)
          /\ \A k \in 1..Len(s) : s[k] = q[P[n] + k]
      BY <1>0, <3>0
    <3>2. CASE n = 0
      <4>1. f[n + 1] = s /\ P[n] = 0 /\ \A k \in 1..Len(s) : P[n] + k = k
        BY <2>1, <3>2
      <4>2. P[n + 1] = Len(s)
        BY <3>1, <4>1
      <4> HIDE DEF s
      <4>3. \A k \in 1..Len(s) : s[k] = q[k]
        BY <3>1, <4>1
      <4> QED
        BY <4>1, <4>2, <4>3
    <3>3. CASE n # 0
      <4>1. n \in 1..N /\ n + 1 \in 2..N
        BY <2>2, <3>3
      <4>2. /\ f[n] \in Seq(S) /\ f[n + 1] = f[n] \o s
            /\ Len(f[n]) = P[n] /\ \A k \in 1..P[n] : f[n][k] = q[k]
        BY <2>1, <2>4, <3>0, <4>1
      <4> HIDE DEF s
      <4>3. /\ Len(f[n + 1]) = P[n] + Len(s)
            /\ \A k \in 1..(P[n] + Len(s)) : f[n + 1][k] = IF k <= P[n] THEN f[n][k] ELSE s[k - P[n]]
        <5> DEFINE g == f[n]
        <5> HIDE DEF g
        <5>1. g \in Seq(S) /\ f[n + 1] = g \o s /\ Len(g) = P[n]
          BY <4>2 DEF g
        <5>2. /\ Len(g \o s) = Len(g) + Len(s)
              /\ \A k \in 1..(Len(g) + Len(s)) :
                   (g \o s)[k] = IF k <= Len(g) THEN g[k] ELSE s[k - Len(g)]
          <6>1. g \in Seq(S) /\ s \in Seq(S)
            BY <3>1, <5>1
          <6> QED
            BY <6>1, ConcatProperties
        <5> QED
          BY <5>1, <5>2 DEF g
      <4>4. ASSUME NEW k \in 1..(P[n] + Len(s))
            PROVE  f[n + 1][k] = q[k]
        <5>1. CASE k <= P[n]
          BY <3>1, <4>2, <4>3, <5>1
        <5>2. CASE ~(k <= P[n])
          <6> DEFINE p == P[n]
                     l == Len(s)
          <6> HIDE DEF p, l
          <6>0. p \in Nat /\ l \in Nat /\ k \in 1..(p + l) /\ ~(k <= p)
            BY <3>1, <5>2 DEF p, l
          <6>1. k - P[n] \in 1..Len(s) /\ P[n] + (k - P[n]) = k
            BY <6>0 DEF p, l
          <6> QED
            BY <3>1, <4>3, <5>2, <6>1
        <5> QED
          BY <5>1, <5>2
      <4> QED
        BY <3>1, <4>3, <4>4
    <3> QED
      BY <3>2, <3>3
  <2>5. good(N)
    <3> HIDE DEF good
    <3>1. \A n \in Nat : n \in T
      <4> HIDE DEF T
      <4> QED
        BY <2>3, <2>4, SetInduction
    <3> QED
      BY <2>2, <3>1
  <2>6. f[N] \in Seq(S) /\ Len(f[N]) = Len(q) /\ \A k \in 1..Len(q) : f[N][k] = q[k]
    BY <2>1, <2>2, <2>5 DEF N
  <2>7. f[N] = q
    BY <2>6, SeqEqual
  <2> QED
    BY <2>1, <2>7
<1> QED
  BY <1>1, <1>2
=============================================================================
