--------------------------- MODULE SequenceLemmas ---------------------------
(* Facts about what the models are built from: what taking an element out of *)
(* a sequence, or putting one in, does to its elements, and what an element   *)
(* adds to a sum over a finite set.                                           *)
EXTENDS Integers, Sequences, FiniteSets, SequencesExt, FiniteSetsExt, ArrayOps, TLAPS,
        SequenceTheorems, FiniteSetTheorems, WellFoundedInduction

(* A non-empty set of naturals has a least element, and Min is it. *)
LEMMA MinLemma ==
  ASSUME NEW S \in SUBSET Nat, S # {}
  PROVE  Min(S) \in S /\ \A x \in S : Min(S) <= x
<1>1. \E x \in S : \A y \in S : x <= y
  <2>1. PICK x \in S : \A y \in S : ~(<<y, x>> \in OpToRel(<, Nat))
    BY NatLessThanWellFounded, WFMin
  <2>2. OpToRel(<, Nat) = {ss \in Nat \X Nat : ss[1] < ss[2]}
    BY Zenon DEF OpToRel
  <2>3. \A y \in S : ~(<<y, x>> \in {ss \in Nat \X Nat : ss[1] < ss[2]})
    BY <2>1, <2>2
  <2>4. ASSUME NEW y \in S PROVE x <= y
    <3>1. x \in Nat /\ y \in Nat
      OBVIOUS
    <3>2. y < x => <<y, x>> \in {ss \in Nat \X Nat : ss[1] < ss[2]}
      BY <3>1
    <3>3. ~(y < x)
      BY <2>3, <3>2
    <3> QED BY <3>1, <3>3
  <2> QED BY <2>4
<1> QED BY <1>1 DEF Min

(* Removing one position of a sequence. *)
LEMMA RemoveAtLemma ==
  ASSUME NEW S, NEW q \in Seq(S), NEW i \in 1..Len(q)
  PROVE  /\ RemoveAt(q, i) \in Seq(S)
         /\ Len(RemoveAt(q, i)) = Len(q) - 1
         /\ \A j \in 1..(Len(q) - 1) :
              RemoveAt(q, i)[j] = IF j < i THEN q[j] ELSE q[j + 1]
<1> DEFINE a == SubSeq(q, 1, i - 1)
           b == SubSeq(q, i + 1, Len(q))
<1>1. /\ a \in Seq(S) /\ Len(a) = i - 1
      /\ \A j \in 1..(i - 1) : a[j] = q[j]
  <2>1. \A j \in 1..(i - 1) : q[j] \in S
    OBVIOUS
  <2> QED BY <2>1, SubSeqProperties
<1>2. /\ b \in Seq(S) /\ Len(b) = Len(q) - i
      /\ \A j \in 1..(Len(q) - i) : b[j] = q[i + j]
  <2>1. \A j \in (i + 1)..Len(q) : q[j] \in S
    OBVIOUS
  <2>2. /\ b \in Seq(S)
        /\ Len(b) = IF i + 1 <= Len(q) THEN Len(q) - (i + 1) + 1 ELSE 0
        /\ \A j \in 1..(Len(q) - (i + 1) + 1) : b[j] = q[(i + 1) + j - 1]
    BY <2>1, SubSeqProperties
  <2> QED BY <2>2
<1> HIDE DEF a, b
<1>3. /\ a \o b \in Seq(S)
      /\ Len(a \o b) = Len(a) + Len(b)
      /\ \A j \in 1..(Len(a) + Len(b)) :
           (a \o b)[j] = IF j <= Len(a) THEN a[j] ELSE b[j - Len(a)]
  BY <1>1, <1>2, ConcatProperties
<1>4. RemoveAt(q, i) = a \o b
  BY DEF RemoveAt, a, b
<1> DEFINE r == a \o b
<1> HIDE DEF r
<1>5. /\ r \in Seq(S) /\ Len(r) = Len(q) - 1
      /\ \A j \in 1..(Len(q) - 1) :
           r[j] = IF j <= i - 1 THEN a[j] ELSE b[j - (i - 1)]
  BY <1>1, <1>2, <1>3 DEF r
<1>6. \A j \in 1..(Len(q) - 1) : r[j] = IF j < i THEN q[j] ELSE q[j + 1]
  BY <1>1, <1>2, <1>5
<1>7. RemoveAt(q, i) = r
  BY <1>4 DEF r
<1> QED BY <1>5, <1>6, <1>7

(* Inserting an element at one position of a sequence. *)
LEMMA InsertAtLemma ==
  ASSUME NEW S, NEW q \in Seq(S), NEW i \in 1..(Len(q) + 1), NEW e \in S
  PROVE  /\ InsertAt(q, i, e) \in Seq(S)
         /\ Len(InsertAt(q, i, e)) = Len(q) + 1
         /\ \A j \in 1..(Len(q) + 1) :
              InsertAt(q, i, e)[j] =
                IF j < i THEN q[j] ELSE IF j = i THEN e ELSE q[j - 1]
<1> DEFINE a == SubSeq(q, 1, i - 1)
           b == SubSeq(q, i, Len(q))
           c == <<e>>
<1>1. /\ a \in Seq(S) /\ Len(a) = i - 1
      /\ \A j \in 1..(i - 1) : a[j] = q[j]
  <2>1. \A j \in 1..(i - 1) : q[j] \in S
    OBVIOUS
  <2> QED BY <2>1, SubSeqProperties
<1>2. /\ b \in Seq(S) /\ Len(b) = Len(q) - i + 1
      /\ \A j \in 1..(Len(q) - i + 1) : b[j] = q[i + j - 1]
  <2>1. \A j \in i..Len(q) : q[j] \in S
    OBVIOUS
  <2> QED BY <2>1, SubSeqProperties
<1>3. c \in Seq(S) /\ Len(c) = 1 /\ c[1] = e
  OBVIOUS
<1>4. InsertAt(q, i, e) = (a \o c) \o b
  BY DEF InsertAt
<1> HIDE DEF a, b, c
<1>5. /\ a \o c \in Seq(S)
      /\ Len(a \o c) = Len(a) + Len(c)
      /\ \A j \in 1..(Len(a) + Len(c)) :
           (a \o c)[j] = IF j <= Len(a) THEN a[j] ELSE c[j - Len(a)]
  BY <1>1, <1>3, ConcatProperties
<1> DEFINE d == a \o c
<1> HIDE DEF d
<1>6. /\ d \in Seq(S) /\ Len(d) = i
      /\ \A j \in 1..i : d[j] = IF j < i THEN q[j] ELSE e
  BY <1>1, <1>3, <1>5 DEF d
<1>7. /\ d \o b \in Seq(S)
      /\ Len(d \o b) = Len(d) + Len(b)
      /\ \A j \in 1..(Len(d) + Len(b)) :
           (d \o b)[j] = IF j <= Len(d) THEN d[j] ELSE b[j - Len(d)]
  BY <1>2, <1>6, ConcatProperties
<1>8. InsertAt(q, i, e) = d \o b
  BY <1>4 DEF d
<1> HIDE DEF d
<1>9. /\ Len(d \o b) = Len(q) + 1
      /\ \A j \in 1..(Len(q) + 1) : (d \o b)[j] = IF j < i THEN q[j] ELSE IF j = i THEN e ELSE q[j - 1]
  BY <1>2, <1>6, <1>7
<1> QED BY <1>7, <1>8, <1>9

(* The elements of a queue without its i-th one, when none is held twice. *)
LEMMA RemoveAtElements ==
  ASSUME NEW S, NEW q \in Seq(S), NEW i \in 1..Len(q), IsInjective(q)
  PROVE  /\ IsInjective(RemoveAt(q, i))
         /\ ToSet(RemoveAt(q, i)) = ToSet(q) \ {q[i]}
<1> DEFINE r == RemoveAt(q, i)
<1>1. /\ r \in Seq(S) /\ Len(r) = Len(q) - 1
      /\ \A j \in 1..(Len(q) - 1) : r[j] = IF j < i THEN q[j] ELSE q[j + 1]
  BY RemoveAtLemma
<1> HIDE DEF r
<1>2. DOMAIN q = 1..Len(q) /\ DOMAIN r = 1..(Len(q) - 1) /\ Len(q) \in Nat
  BY <1>1
<1>3. \A j, k \in 1..Len(q) : q[j] = q[k] => j = k
  BY <1>2 DEF IsInjective
<1>4. IsInjective(r)
  BY <1>1, <1>2, <1>3 DEF IsInjective
<1>5. \A x \in ToSet(r) : x \in ToSet(q) \ {q[i]}
  BY <1>1, <1>2, <1>3 DEF ToSet
<1>6. ASSUME NEW k \in 1..Len(q), k # i
      PROVE  q[k] \in ToSet(r)
  <2>1. CASE k < i
    BY <2>1, <1>1, <1>2 DEF ToSet
  <2>2. CASE k > i
    <3>1. k - 1 \in 1..(Len(q) - 1) /\ r[k - 1] = q[k]
      BY <2>2, <1>1, <1>2
    <3> QED BY <3>1, <1>2 DEF ToSet
  <2> QED BY <2>1, <2>2, <1>6
<1>7. \A x \in ToSet(q) \ {q[i]} : x \in ToSet(r)
  BY <1>2, <1>6 DEF ToSet
<1> QED BY <1>4, <1>5, <1>7 DEF r

(* The elements of a queue with a new one inserted. *)
LEMMA InsertAtElements ==
  ASSUME NEW S, NEW q \in Seq(S), NEW i \in 1..(Len(q) + 1), NEW e \in S,
         IsInjective(q), e \notin ToSet(q)
  PROVE  /\ IsInjective(InsertAt(q, i, e))
         /\ ToSet(InsertAt(q, i, e)) = ToSet(q) \cup {e}
<1> DEFINE r == InsertAt(q, i, e)
<1>1. /\ r \in Seq(S) /\ Len(r) = Len(q) + 1
      /\ \A j \in 1..(Len(q) + 1) :
           r[j] = IF j < i THEN q[j] ELSE IF j = i THEN e ELSE q[j - 1]
  BY InsertAtLemma
<1> HIDE DEF r
<1>2. DOMAIN q = 1..Len(q) /\ DOMAIN r = 1..(Len(q) + 1) /\ Len(q) \in Nat
  BY <1>1
<1>3. \A j, k \in 1..Len(q) : q[j] = q[k] => j = k
  BY <1>2 DEF IsInjective
<1>4. \A j \in 1..Len(q) : q[j] # e
  BY <1>2 DEF ToSet
<1>5. IsInjective(r)
  BY <1>1, <1>2, <1>3, <1>4, SMTT(30) DEF IsInjective
<1>6. \A x \in ToSet(r) : x \in ToSet(q) \cup {e}
  BY <1>1, <1>2, SMTT(30) DEF ToSet
<1>7. ASSUME NEW k \in 1..Len(q) PROVE q[k] \in ToSet(r)
  <2>1. CASE k < i
    BY <2>1, <1>1, <1>2 DEF ToSet
  <2>2. CASE k >= i
    <3>1. k + 1 \in 1..(Len(q) + 1) /\ r[k + 1] = q[k]
      BY <2>2, <1>1, <1>2
    <3> QED BY <3>1, <1>2 DEF ToSet
  <2> QED BY <2>1, <2>2
<1>8. e \in ToSet(r)
  BY <1>1, <1>2 DEF ToSet
<1>9. \A x \in ToSet(q) \cup {e} : x \in ToSet(r)
  BY <1>2, <1>7, <1>8 DEF ToSet
<1> QED BY <1>5, <1>6, <1>9 DEF r

(* The elements of a queue with a new one at its end. *)
LEMMA AppendElements ==
  ASSUME NEW S, NEW q \in Seq(S), NEW e \in S
  PROVE  /\ Append(q, e) \in Seq(S)
         /\ ToSet(Append(q, e)) = ToSet(q) \cup {e}
         /\ (IsInjective(q) /\ e \notin ToSet(q)) => IsInjective(Append(q, e))
<1> DEFINE r == Append(q, e)
<1>1. /\ r \in Seq(S) /\ Len(r) = Len(q) + 1
      /\ \A j \in 1..Len(q) : r[j] = q[j]
      /\ r[Len(q) + 1] = e
  BY AppendProperties
<1> HIDE DEF r
<1>2. DOMAIN q = 1..Len(q) /\ DOMAIN r = 1..(Len(q) + 1) /\ Len(q) \in Nat
  BY <1>1
<1>3. ToSet(r) = ToSet(q) \cup {e}
  BY <1>1, <1>2 DEF ToSet
<1>4. (IsInjective(q) /\ e \notin ToSet(q)) => IsInjective(r)
  BY <1>1, <1>2 DEF ToSet, IsInjective
<1> QED BY <1>1, <1>3, <1>4 DEF r

(* The elements of a queue after its first one was taken. *)
LEMMA TailElements ==
  ASSUME NEW S, NEW q \in Seq(S), q # <<>>
  PROVE  /\ Head(q) \in ToSet(q) /\ Head(q) \in S
         /\ Tail(q) \in Seq(S)
         /\ ToSet(q) = ToSet(Tail(q)) \cup {Head(q)}
         /\ IsInjective(q) => IsInjective(Tail(q)) /\ Head(q) \notin ToSet(Tail(q))
<1> DEFINE r == Tail(q)
<1>1. /\ r \in Seq(S) /\ Len(r) = Len(q) - 1
      /\ \A j \in 1..Len(r) : r[j] = q[j + 1]
      /\ Head(q) \in S /\ Head(q) = q[1]
  BY HeadTailProperties
<1>2. /\ DOMAIN q = 1..Len(q) /\ DOMAIN r = 1..(Len(q) - 1)
      /\ Len(q) \in Nat /\ Len(q) >= 1
  BY <1>1
<1> HIDE DEF r
<1>3. \A j \in 2..Len(q) : j - 1 \in 1..(Len(q) - 1) /\ q[j] = r[j - 1]
  BY <1>1, <1>2
<1>4. Head(q) \in ToSet(q)
  BY <1>1, <1>2 DEF ToSet
<1>5. ToSet(r) \subseteq ToSet(q)
  BY <1>1, <1>2 DEF ToSet
<1>6. ToSet(q) \subseteq ToSet(r) \cup {Head(q)}
  <2> SUFFICES ASSUME NEW j \in 1..Len(q), j # 1 PROVE q[j] \in ToSet(r)
    BY <1>1, <1>2 DEF ToSet
  <2> QED BY <1>2, <1>3 DEF ToSet
<1>7. ASSUME IsInjective(q) PROVE IsInjective(r) /\ Head(q) \notin ToSet(r)
  <2>1. \A j, k \in 1..Len(q) : q[j] = q[k] => j = k
    BY <1>2, <1>7 DEF IsInjective
  <2>2. \A j, k \in 1..(Len(q) - 1) : r[j] = r[k] => j = k
    <3> SUFFICES ASSUME NEW j \in 1..(Len(q) - 1), NEW k \in 1..(Len(q) - 1), r[j] = r[k]
                 PROVE  j = k
      OBVIOUS
    <3>1. j + 1 \in 1..Len(q) /\ k + 1 \in 1..Len(q) /\ q[j + 1] = q[k + 1]
      BY <1>1, <1>2
    <3> QED BY <2>1, <3>1
  <2>3. \A j \in 1..(Len(q) - 1) : r[j] # q[1]
    <3> SUFFICES ASSUME NEW j \in 1..(Len(q) - 1), r[j] = q[1] PROVE FALSE
      OBVIOUS
    <3>1. j + 1 \in 1..Len(q) /\ 1 \in 1..Len(q) /\ q[j + 1] = q[1]
      BY <1>1, <1>2
    <3>2. j + 1 = 1
      BY <2>1, <3>1
    <3> QED BY <3>2
  <2> QED BY <1>1, <1>2, <2>2, <2>3 DEF ToSet, IsInjective
<1> QED BY <1>1, <1>4, <1>5, <1>6, <1>7 DEF r

(* The elements of a queue with a new one in front. *)
LEMMA ConsElements ==
  ASSUME NEW S, NEW q \in Seq(S), NEW e \in S, IsInjective(q), e \notin ToSet(q)
  PROVE  /\ IsInjective(<<e>> \o q)
         /\ ToSet(<<e>> \o q) = ToSet(q) \cup {e}
<1> DEFINE r == <<e>> \o q
<1>1. /\ r \in Seq(S) /\ Len(r) = Len(q) + 1
      /\ \A j \in 1..(Len(q) + 1) : r[j] = IF j = 1 THEN e ELSE q[j - 1]
  <2>1. <<e>> \in Seq(S) /\ Len(<<e>>) = 1 /\ <<e>>[1] = e
    OBVIOUS
  <2>2. /\ r \in Seq(S) /\ Len(r) = 1 + Len(q)
        /\ \A j \in 1..(1 + Len(q)) : r[j] = IF j <= 1 THEN <<e>>[j] ELSE q[j - 1]
    BY <2>1, ConcatProperties
  <2> HIDE DEF r
  <2> QED BY <2>1, <2>2
<1> HIDE DEF r
<1>2. DOMAIN q = 1..Len(q) /\ DOMAIN r = 1..(Len(q) + 1) /\ Len(q) \in Nat
  BY <1>1
<1>3. \A j, k \in 1..Len(q) : q[j] = q[k] => j = k
  BY <1>2 DEF IsInjective
<1>4. \A j \in 1..Len(q) : q[j] # e
  BY <1>2 DEF ToSet
<1>5. IsInjective(r)
  BY <1>1, <1>2, <1>3, <1>4, SMTT(30) DEF IsInjective
<1>6. \A x \in ToSet(r) : x \in ToSet(q) \cup {e}
  BY <1>1, <1>2 DEF ToSet
<1>7. ASSUME NEW k \in 1..Len(q) PROVE q[k] \in ToSet(r)
  <2>1. k + 1 \in 1..(Len(q) + 1) /\ r[k + 1] = q[k]
    BY <1>1, <1>2
  <2> QED BY <2>1, <1>2 DEF ToSet
<1>8. e \in ToSet(r)
  BY <1>1, <1>2 DEF ToSet
<1>9. \A x \in ToSet(q) \cup {e} : x \in ToSet(r)
  BY <1>2, <1>7, <1>8 DEF ToSet
<1> QED BY <1>5, <1>6, <1>9 DEF r

(* The empty queue. *)
LEMMA EmptyElements == ToSet(<<>>) = {} /\ IsInjective(<<>>)
BY DEF ToSet, IsInjective

(* A sequence without its last element. *)
LEMMA FrontLemma ==
  ASSUME NEW S, NEW q \in Seq(S), q # <<>>
  PROVE  /\ Front(q) \in Seq(S) /\ Len(Front(q)) = Len(q) - 1
         /\ \A i \in 1..(Len(q) - 1) : Front(q)[i] = q[i]
         /\ ToSet(Front(q)) \subseteq ToSet(q)
<1> DEFINE n == Len(q) - 1
           r == SubSeq(q, 1, n)
<1>1. n \in Nat
  BY EmptySeq
<1>2. \A i \in 1..n : q[i] \in S
  BY <1>1
<1> HIDE DEF n
<1>3. /\ r \in Seq(S) /\ Len(r) = IF 1 <= n THEN n - 1 + 1 ELSE 0
      /\ \A i \in 1..(n - 1 + 1) : r[i] = q[1 + i - 1]
  BY <1>1, <1>2, SubSeqProperties
<1> HIDE DEF r
<1>4. /\ r \in Seq(S) /\ Len(r) = n /\ \A i \in 1..n : r[i] = q[i]
  BY <1>1, <1>3
<1>5. Front(q) = r
  BY DEF Front, r, n
<1>6. DOMAIN r = 1..n /\ 1..n \subseteq DOMAIN q
  BY <1>1, <1>4 DEF n
<1>7. ToSet(r) \subseteq ToSet(q)
  BY <1>4, <1>6 DEF ToSet
<1> QED
  BY <1>4, <1>5, <1>7 DEF n

LEMMA FrontOfAppend ==
  ASSUME NEW S, NEW q \in Seq(S), NEW e \in S
  PROVE  Front(Append(q, e)) = q
BY DEF Front

LEMMA TailNonempty ==
  ASSUME NEW S, NEW q \in Seq(S), Len(q) > 1
  PROVE  Tail(q) # <<>>
<1> DEFINE n == Len(q)
           m == Len(Tail(q))
<1>1. n \in Nat
  OBVIOUS
<1>2. q # <<>>
  BY EmptySeq
<1>3. m = n - 1
  BY <1>2, HeadTailProperties
<1>4. n > 1
  OBVIOUS
<1> HIDE DEF m, n
<1>5. m # 0
  BY <1>1, <1>3, <1>4
<1> QED
  BY <1>5, EmptySeq DEF m

-----------------------------------------------------------------------------
(* Sequences, element by element *)

LEMMA AppendAt ==
  ASSUME NEW S, NEW q \in Seq(S), NEW e \in S
  PROVE  /\ Append(q, e) \in Seq(S) /\ Len(q) \in Nat /\ Len(Append(q, e)) = Len(q) + 1
         /\ \A i \in 1..Len(q) : Append(q, e)[i] = q[i]
         /\ Append(q, e)[Len(q) + 1] = e
         /\ Append(q, e) # <<>>
OBVIOUS

LEMMA TailAt ==
  ASSUME NEW S, NEW q \in Seq(S), q # <<>>
  PROVE  /\ Tail(q) \in Seq(S) /\ Len(q) \in Nat \ {0} /\ Len(Tail(q)) = Len(q) - 1
         /\ \A i \in 1..Len(Tail(q)) : i + 1 \in 1..Len(q) /\ Tail(q)[i] = q[i + 1]
         /\ Head(q) = q[1] /\ Head(q) \in S
<1>1. /\ Tail(q) \in Seq(S) /\ Len(Tail(q)) = Len(q) - 1 /\ Head(q) \in S
      /\ \A i \in 1..Len(Tail(q)) : Tail(q)[i] = q[i + 1]
  BY HeadTailProperties
<1>2. Len(q) \in Nat \ {0}
  BY EmptySeq
<1>3. Head(q) = q[1]
  OBVIOUS
<1> DEFINE n == Len(q)
           t == Tail(q)
<1> HIDE DEF n, t
<1>4. \A i \in 1..Len(t) : i + 1 \in 1..n
  BY <1>1, <1>2 DEF n, t
<1> QED
  BY <1>1, <1>2, <1>3, <1>4 DEF n, t

LEMMA CatAt ==
  ASSUME NEW S, NEW q \in Seq(S), NEW r \in Seq(S)
  PROVE  /\ q \o r \in Seq(S) /\ Len(q) \in Nat /\ Len(r) \in Nat
         /\ Len(q \o r) = Len(q) + Len(r)
         /\ \A i \in 1..Len(q) : (q \o r)[i] = q[i]
         /\ \A i \in 1..Len(r) : (q \o r)[Len(q) + i] = r[i]
<1>1. /\ q \o r \in Seq(S) /\ Len(q \o r) = Len(q) + Len(r)
      /\ \A i \in 1..(Len(q) + Len(r)) :
           (q \o r)[i] = IF i <= Len(q) THEN q[i] ELSE r[i - Len(q)]
  BY ConcatProperties
<1>2. Len(q) \in Nat /\ Len(r) \in Nat
  OBVIOUS
<1> DEFINE n == Len(q)
           m == Len(r)
           t == q \o r
<1> HIDE DEF n, m, t
<1>3. /\ \A i \in 1..n : t[i] = q[i]
      /\ \A i \in 1..m : t[n + i] = r[i]
  <2>1. \A i \in 1..m : n + i \in 1..(n + m) /\ ~(n + i <= n) /\ n + i - n = i
    BY <1>2 DEF n, m
  <2> QED
    BY <1>1, <1>2, <2>1 DEF n, m, t
<1> QED
  BY <1>1, <1>2, <1>3 DEF n, m, t

LEMMA CutAt ==
  ASSUME NEW S, NEW q \in Seq(S), NEW n \in 0..Len(q)
  PROVE  /\ SubSeq(q, 1, n) \in Seq(S) /\ Len(SubSeq(q, 1, n)) = n
         /\ \A i \in 1..n : SubSeq(q, 1, n)[i] = q[i]
         /\ SubSeq(q, n + 1, Len(q)) \in Seq(S)
         /\ Len(SubSeq(q, n + 1, Len(q))) = Len(q) - n
         /\ \A i \in 1..(Len(q) - n) :
              n + i \in 1..Len(q) /\ SubSeq(q, n + 1, Len(q))[i] = q[n + i]
<1> DEFINE m == Len(q)
           a == SubSeq(q, 1, n)
           b == SubSeq(q, n + 1, m)
<1>1. m \in Nat /\ n \in 0..m
  OBVIOUS
<1>2. \A i \in 1..m : q[i] \in S
  BY <1>1
<1> HIDE DEF m
<1>3. /\ a \in Seq(S) /\ Len(a) = IF 1 <= n THEN n - 1 + 1 ELSE 0
      /\ \A i \in 1..(n - 1 + 1) : a[i] = q[1 + i - 1]
  <2>1. \A i \in 1..n : q[i] \in S
    BY <1>1, <1>2
  <2> QED
    BY <1>1, <2>1, SubSeqProperties
<1>4. /\ b \in Seq(S) /\ Len(b) = IF n + 1 <= m THEN m - (n + 1) + 1 ELSE 0
      /\ \A i \in 1..(m - (n + 1) + 1) : b[i] = q[n + 1 + i - 1]
  <2>1. \A i \in (n + 1)..m : q[i] \in S
    BY <1>1, <1>2
  <2>2. n + 1 \in Nat
    BY <1>1
  <2> QED
    BY <1>1, <2>1, <2>2, SubSeqProperties
<1> HIDE DEF a, b
<1>5. a \in Seq(S) /\ Len(a) = n /\ \A i \in 1..n : a[i] = q[i]
  <2>1. n - 1 + 1 = n /\ \A i \in 1..n : 1 + i - 1 = i
    BY <1>1
  <2>2. Len(a) = n
    BY <1>1, <1>3
  <2> QED
    BY <1>3, <2>1, <2>2
<1>6. b \in Seq(S) /\ Len(b) = m - n /\ \A i \in 1..(m - n) : n + i \in 1..m /\ b[i] = q[n + i]
  BY <1>1, <1>4
<1> QED
  BY <1>5, <1>6 DEF a, b, m

-----------------------------------------------------------------------------
(* Sums over finite sets.  The library's induction takes an operator; a least  *)
(* counterexample does as well.                                                *)
LEMMA SmallestSubset ==
  ASSUME NEW S, IsFiniteSet(S), NEW B \in SUBSET (SUBSET S), B # {}
  PROVE  \E s \in B : \A t \in B : Cardinality(s) <= Cardinality(t)
<1> DEFINE sizes == {Cardinality(s) : s \in B}
<1>1. \A s \in SUBSET S : Cardinality(s) \in Nat
  BY FS_Subset, FS_CardinalityType
<1>2. sizes \in SUBSET Nat /\ sizes # {}
  BY <1>1
<1>3. Min(sizes) \in sizes /\ \A n \in sizes : Min(sizes) <= n
  BY <1>2, MinLemma
<1>4. PICK s \in B : Cardinality(s) = Min(sizes)
  BY <1>3
<1> QED BY <1>3, <1>4

LEMMA SmallerWithout ==
  ASSUME NEW S, IsFiniteSet(S), NEW s \in SUBSET S, NEW x \in s
  PROVE  s \ {x} \in SUBSET S /\ ~(Cardinality(s) <= Cardinality(s \ {x}))
<1>1. IsFiniteSet(s) /\ Cardinality(s) \in Nat
  BY FS_Subset, FS_CardinalityType
<1>2. Cardinality(s \ {x}) = Cardinality(s) - 1
  BY <1>1, FS_RemoveElement
<1> QED BY <1>1, <1>2

Pick(s) == CHOOSE x \in s : TRUE
SumRec(w, S, f) ==
  f = [s \in SUBSET S |-> IF s = {} THEN 0 ELSE w[Pick(s)] + f[s \ {Pick(s)}]]
SumOf(w, S) == MapThenSumSet(LAMBDA c : w[c], S)

LEMMA PickIn == \A s : s # {} => Pick(s) \in s
BY Zenon DEF Pick

LEMMA SumIs ==
  ASSUME NEW w, NEW S
  PROVE  SumOf(w, S) = (CHOOSE f : SumRec(w, S, f))[S]
BY Zenon DEF SumOf, MapThenSumSet, MapThenFoldSet, SumRec, Pick

LEMMA SumRecAt ==
  ASSUME NEW w, NEW S, NEW f, SumRec(w, S, f), NEW s \in SUBSET S
  PROVE  f[s] = IF s = {} THEN 0 ELSE w[Pick(s)] + f[s \ {Pick(s)}]
BY Zenon DEF SumRec

LEMMA SumRecUnique ==
  ASSUME NEW w, NEW S, IsFiniteSet(S), NEW f, SumRec(w, S, f),
         NEW T, T \in SUBSET S, NEW g, SumRec(w, T, g)
  PROVE  \A s \in SUBSET T : f[s] = g[s]
<1> DEFINE B == {s \in SUBSET T : f[s] # g[s]}
<1> SUFFICES ASSUME B # {} PROVE FALSE
  OBVIOUS
<1>1. IsFiniteSet(T)
  BY FS_Subset
<1>2. PICK s \in B : \A t \in B : Cardinality(s) <= Cardinality(t)
  BY <1>1, SmallestSubset
<1>3. s \in SUBSET T /\ s \in SUBSET S /\ f[s] # g[s]
  BY <1>2
<1>4. /\ f[s] = IF s = {} THEN 0 ELSE w[Pick(s)] + f[s \ {Pick(s)}]
      /\ g[s] = IF s = {} THEN 0 ELSE w[Pick(s)] + g[s \ {Pick(s)}]
  BY <1>3, SumRecAt
<1>5. s # {}
  BY <1>3, <1>4
<1>6. s \ {Pick(s)} \in SUBSET T /\ ~(Cardinality(s) <= Cardinality(s \ {Pick(s)}))
  BY <1>1, <1>3, <1>5, PickIn, SmallerWithout
<1>7. f[s \ {Pick(s)}] = g[s \ {Pick(s)}]
  BY <1>2, <1>6
<1> QED BY <1>3, <1>4, <1>5, <1>7

LEMMA SumRecStep ==
  ASSUME NEW w, NEW S, IsFiniteSet(S), \A U \in SUBSET S : \E f : SumRec(w, U, f)
  PROVE  SumOf(w, S) = IF S = {} THEN 0 ELSE w[Pick(S)] + SumOf(w, S \ {Pick(S)})
<1>1. PICK U \in SUBSET S : U = S \ {Pick(S)}
  OBVIOUS
<1>2. PICK f : SumRec(w, S, f) /\ SumOf(w, S) = f[S]
  <2>1. SumRec(w, S, CHOOSE f : SumRec(w, S, f))
    BY Zenon
  <2> QED BY <2>1, SumIs
<1>3. PICK g : SumRec(w, U, g) /\ SumOf(w, U) = g[U]
  <2>1. SumRec(w, U, CHOOSE h : SumRec(w, U, h))
    BY <1>1, Zenon
  <2> QED BY <2>1, SumIs
<1>4. f[S] = IF S = {} THEN 0 ELSE w[Pick(S)] + f[U]
  BY <1>1, <1>2, SumRecAt
<1>5. SumRec(w, S, f) /\ SumRec(w, U, g) /\ IsFiniteSet(S) /\ U \in SUBSET S
  BY <1>1, <1>2, <1>3
<1>6. f[U] = g[U]
  BY ONLY <1>5, SumRecUnique
<1> QED BY <1>1, <1>2, <1>3, <1>4, <1>6

LEMMA SumRecExists ==
  ASSUME NEW w, NEW S, IsFiniteSet(S)
  PROVE  \A T \in SUBSET S : \E f : SumRec(w, T, f)
<1> DEFINE B == {T \in SUBSET S : ~\E f : SumRec(w, T, f)}
<1> SUFFICES ASSUME B # {} PROVE FALSE
  OBVIOUS
<1>1. PICK T \in B : \A U \in B : Cardinality(T) <= Cardinality(U)
  BY SmallestSubset
<1>2. T \in SUBSET S /\ IsFiniteSet(T)
  BY <1>1, FS_Subset
<1>3. \A s \in SUBSET T : s # {} => \A U \in SUBSET (s \ {Pick(s)}) : \E f : SumRec(w, U, f)
  <2> SUFFICES ASSUME NEW s \in SUBSET T, s # {}, NEW U \in SUBSET (s \ {Pick(s)})
               PROVE  U \in SUBSET S /\ ~(Cardinality(T) <= Cardinality(U))
    BY <1>1
  <2> DEFINE R == T \ {Pick(s)}
  <2>1. Pick(s) \in T /\ U \in SUBSET R
    BY PickIn
  <2>2. ~(Cardinality(T) <= Cardinality(R)) /\ IsFiniteSet(R)
    BY <1>2, <2>1, SmallerWithout, FS_Subset
  <2>3. /\ Cardinality(U) <= Cardinality(R) /\ Cardinality(U) \in Nat
        /\ Cardinality(R) \in Nat /\ Cardinality(T) \in Nat
    BY <1>2, <2>1, <2>2, FS_Subset, FS_CardinalityType
  <2> HIDE DEF R
  <2>4. ~(Cardinality(T) <= Cardinality(U))
    BY <2>2, <2>3
  <2> QED BY <1>2, <2>4
<1> DEFINE f == [s \in SUBSET T |-> IF s = {} THEN 0 ELSE w[Pick(s)] + SumOf(w, s \ {Pick(s)})]
<1>4. ASSUME NEW s \in SUBSET T, s # {}
      PROVE  f[s \ {Pick(s)}] = SumOf(w, s \ {Pick(s)})
  <2> DEFINE U == s \ {Pick(s)}
  <2>1. U \in SUBSET T /\ \A V \in SUBSET U : \E g : SumRec(w, V, g)
    BY <1>3, <1>4
  <2>2. IsFiniteSet(U)
    BY <1>2, <2>1, FS_Subset
  <2>3. f[U] = IF U = {} THEN 0 ELSE w[Pick(U)] + SumOf(w, U \ {Pick(U)})
    BY <2>1, Zenon
  <2> HIDE DEF U, f
  <2>4. SumOf(w, U) = IF U = {} THEN 0 ELSE w[Pick(U)] + SumOf(w, U \ {Pick(U)})
    BY <2>1, <2>2, SumRecStep
  <2>5. f[U] = SumOf(w, U)
    BY <2>3, <2>4
  <2> QED BY <2>5 DEF U
<1>5. \A s \in SUBSET T : f[s] = IF s = {} THEN 0 ELSE w[Pick(s)] + f[s \ {Pick(s)}]
  BY <1>4, Zenon
<1>6. f = [s \in SUBSET T |-> f[s]]
  OBVIOUS
<1> HIDE DEF f
<1>7. SumRec(w, T, f)
  BY <1>5, <1>6 DEF SumRec
<1> QED BY <1>1, <1>7

LEMMA SumStep ==
  ASSUME NEW w, NEW S, IsFiniteSet(S)
  PROVE  SumOf(w, S) = IF S = {} THEN 0 ELSE w[Pick(S)] + SumOf(w, S \ {Pick(S)})
BY SumRecExists, SumRecStep

LEMMA SumType ==
  ASSUME NEW C, IsFiniteSet(C), NEW w \in [C -> Int]
  PROVE  \A S \in SUBSET C : SumOf(w, S) \in Int
<1> DEFINE B == {s \in SUBSET C : SumOf(w, s) \notin Int}
<1> SUFFICES ASSUME B # {} PROVE FALSE
  OBVIOUS
<1>1. PICK s \in B : \A t \in B : Cardinality(s) <= Cardinality(t)
  BY SmallestSubset
<1>2. s \in SUBSET C /\ IsFiniteSet(s) /\ SumOf(w, s) \notin Int
  BY <1>1, FS_Subset
<1>3. SumOf(w, s) = IF s = {} THEN 0 ELSE w[Pick(s)] + SumOf(w, s \ {Pick(s)})
  BY <1>2, SumStep
<1>4. s # {}
  BY <1>2, <1>3
<1>5. Pick(s) \in s
  BY <1>4, PickIn
<1>6. s \ {Pick(s)} \in SUBSET C /\ ~(Cardinality(s) <= Cardinality(s \ {Pick(s)}))
  BY <1>2, <1>5, SmallerWithout
<1>7. SumOf(w, s \ {Pick(s)}) \in Int /\ w[Pick(s)] \in Int
  BY <1>1, <1>2, <1>5, <1>6
<1> QED BY <1>2, <1>3, <1>4, <1>7

(* The sum grows by the weight of an element that comes in, in whichever order *)
(* the fold takes the elements.                                                *)
LEMMA SumAdd ==
  ASSUME NEW C, IsFiniteSet(C), NEW w \in [C -> Int]
  PROVE  \A S \in SUBSET C : \A x \in C \ S : SumOf(w, S \cup {x}) = SumOf(w, S) + w[x]
<1> DEFINE B == {T \in SUBSET C : \E x \in C \ T : SumOf(w, T \cup {x}) # SumOf(w, T) + w[x]}
<1> SUFFICES ASSUME B # {} PROVE FALSE
  OBVIOUS
<1>1. PICK T \in B : \A t \in B : Cardinality(T) <= Cardinality(t)
  BY SmallestSubset
<1>2. PICK x \in C \ T : SumOf(w, T \cup {x}) # SumOf(w, T) + w[x]
  BY <1>1
<1> DEFINE U == T \cup {x}
           p == Pick(U)
<1>3. T \in SUBSET C /\ U \in SUBSET C /\ U # {} /\ IsFiniteSet(U)
  BY <1>1, <1>2, FS_Subset
<1>4. p \in U /\ SumOf(w, U) = w[p] + SumOf(w, U \ {p})
  BY <1>3, PickIn, SumStep
<1>5. SumOf(w, U) # SumOf(w, T) + w[x]
  BY <1>2
<1>6. w[x] \in Int /\ SumOf(w, T) \in Int
  BY <1>2, <1>3, SumType
<1> HIDE DEF p
<1>7. CASE p = x
  <2>1. U \ {p} = T
    BY <1>2, <1>7
  <2>2. SumOf(w, U) = w[x] + SumOf(w, T)
    BY <1>4, <1>7, <2>1
  <2> HIDE DEF U
  <2> QED BY <1>5, <1>6, <2>2
<1>8. CASE p # x
  <2> DEFINE R == T \ {p}
  <2>1. p \in T /\ p \in C
    BY <1>3, <1>4, <1>8
  <2>2. R \in SUBSET C /\ ~(Cardinality(T) <= Cardinality(R))
    BY <1>3, <2>1, SmallerWithout
  <2>3. \A y \in C \ R : SumOf(w, R \cup {y}) = SumOf(w, R) + w[y]
    BY <1>1, <2>2
  <2>4. R \cup {p} = T /\ R \cup {x} = U \ {p} /\ p \in C \ R /\ x \in C \ R
    BY <1>2, <1>8, <2>1
  <2>5. SumOf(w, T) = SumOf(w, R) + w[p]
    BY <2>3, <2>4
  <2>6. SumOf(w, U \ {p}) = SumOf(w, R) + w[x]
    BY <2>3, <2>4
  <2>7. SumOf(w, R) \in Int /\ w[p] \in Int
    BY <2>1, <2>2, SumType
  <2> HIDE DEF R
  <2> QED BY <1>4, <1>5, <1>6, <2>5, <2>6, <2>7
<1> QED BY <1>7, <1>8

LEMMA SumEmpty == \A w : SumOf(w, {}) = 0
BY SumStep, FS_EmptySet

LEMMA SumRemove ==
  ASSUME NEW C, IsFiniteSet(C), NEW w \in [C -> Int], NEW S \in SUBSET C, NEW x \in S
  PROVE  SumOf(w, S \ {x}) = SumOf(w, S) - w[x]
<1> DEFINE R == S \ {x}
<1>1. R \in SUBSET C /\ x \in C \ R /\ R \cup {x} = S
  OBVIOUS
<1> HIDE DEF R
<1>2. SumOf(w, S) = SumOf(w, R) + w[x]
  BY <1>1, SumAdd
<1>3. SumOf(w, R) \in Int /\ w[x] \in Int
  BY <1>1, SumType
<1>4. SumOf(w, R) = SumOf(w, S) - w[x]
  BY <1>2, <1>3
<1> QED BY <1>4 DEF R

-----------------------------------------------------------------------------
(* The members of a finite set of numbers in their order: the one with j of   *)
(* them up to itself is the j-th.                                              *)
LEMMA RankLemma ==
  ASSUME NEW S \in SUBSET Nat, IsFiniteSet(S)
  PROVE  \E f \in [1..Cardinality(S) -> S] :
           /\ \A j \in 1..Cardinality(S) :
                f[j] = CHOOSE i \in S : Cardinality({k \in S : k <= i}) = j
           /\ \A i, j \in 1..Cardinality(S) : i < j => f[i] < f[j]
           /\ \A x \in S : \E j \in 1..Cardinality(S) : f[j] = x
<1> DEFINE n == Cardinality(S)
           Upto(i) == {k \in S : k <= i}
           R == [i \in S |-> Cardinality(Upto(i))]
           f == [j \in 1..n |-> CHOOSE i \in S : Cardinality(Upto(i)) = j]
<1>1. n \in Nat
  BY FS_CardinalityType
<1>2. \A i \in S : IsFiniteSet(Upto(i)) /\ Cardinality(Upto(i)) \in 1..n
  <2> SUFFICES ASSUME NEW i \in S PROVE IsFiniteSet(Upto(i)) /\ Cardinality(Upto(i)) \in 1..n
    OBVIOUS
  <2>1. Upto(i) \in SUBSET S /\ i \in Upto(i)
    OBVIOUS
  <2> HIDE DEF Upto
  <2>2. IsFiniteSet(Upto(i)) /\ Cardinality(Upto(i)) <= n
    BY <2>1, FS_Subset
  <2>3. Cardinality(Upto(i)) \in Nat /\ Cardinality(Upto(i)) # 0
    BY <2>1, <2>2, FS_CardinalityType, FS_EmptySet
  <2> QED
    BY <1>1, <2>2, <2>3
<1>3. \A i, j \in S : i < j => Cardinality(Upto(i)) < Cardinality(Upto(j))
  <2> SUFFICES ASSUME NEW i \in S, NEW j \in S, i < j
               PROVE  Cardinality(Upto(i)) < Cardinality(Upto(j))
    OBVIOUS
  <2>1. Upto(i) \in SUBSET Upto(j) /\ j \in Upto(j) /\ j \notin Upto(i)
    <3>1. i \in Nat /\ j \in Nat /\ S \subseteq Nat
      OBVIOUS
    <3>2. \A k \in S : k <= i => k <= j
      BY <3>1
    <3>3. ~(j <= i) /\ j <= j
      BY <3>1
    <3> QED
      BY <3>2, <3>3
  <2> HIDE DEF Upto
  <2>2. Cardinality(Upto(i)) <= Cardinality(Upto(j)) /\ Cardinality(Upto(j)) # Cardinality(Upto(i))
    BY <1>2, <2>1, FS_Subset
  <2>3. Cardinality(Upto(i)) \in Nat /\ Cardinality(Upto(j)) \in Nat
    BY <1>1, <1>2
  <2> QED
    BY <2>2, <2>3
<1> HIDE DEF Upto
<1>4. R \in Injection(S, 1..n)
  <2>1. R \in [S -> 1..n]
    BY <1>2
  <2>2. ASSUME NEW i \in S, NEW j \in S, R[i] = R[j] PROVE i = j
    <3>1. i \in Nat /\ j \in Nat /\ R[i] \in Nat /\ R[j] \in Nat
      BY <1>1, <2>1
    <3>2. ~(i < j) /\ ~(j < i)
      BY <1>3, <2>2, <3>1
    <3> QED
      BY <3>1, <3>2
  <2> QED
    BY <2>1, <2>2 DEF Injection, IsInjective
<1>5. R \in Surjection(S, 1..n)
  <2>1. IsFiniteSet(1..n) /\ Cardinality(1..n) = n
    BY <1>1, FS_Interval
  <2> HIDE DEF R
  <2> QED
    BY <1>4, <2>1, FS_Injection
<1>6. \A j \in 1..n : \E i \in S : Cardinality(Upto(i)) = j
  BY <1>5 DEF Surjection
<1>7. \A j \in 1..n : f[j] \in S /\ Cardinality(Upto(f[j])) = j
  BY <1>6
<1>8. f \in [1..n -> S]
  BY <1>7
<1>9. \A i, j \in 1..n : i < j => f[i] < f[j]
  <2> SUFFICES ASSUME NEW i \in 1..n, NEW j \in 1..n, i < j PROVE f[i] < f[j]
    OBVIOUS
  <2>1. f[i] \in S /\ f[j] \in S /\ Cardinality(Upto(f[i])) = i /\ Cardinality(Upto(f[j])) = j
    BY <1>7
  <2> HIDE DEF f
  <2>2. f[i] \in Nat /\ f[j] \in Nat
    BY <2>1
  <2>3. f[i] # f[j] /\ ~(f[j] < f[i])
    <3>1. i \in Nat /\ j \in Nat /\ i # j /\ ~(j < i)
      BY <1>1
    <3>2. f[j] < f[i] => Cardinality(Upto(f[j])) < Cardinality(Upto(f[i]))
      BY <1>3, <2>1
    <3> QED
      BY <2>1, <3>1, <3>2
  <2> QED
    BY <2>2, <2>3
<1>10. \A x \in S : \E j \in 1..n : f[j] = x
  <2> SUFFICES ASSUME NEW x \in S PROVE \E j \in 1..n : f[j] = x
    OBVIOUS
  <2> DEFINE j == Cardinality(Upto(x))
  <2>1. j \in 1..n
    BY <1>2
  <2>2. f[j] \in S /\ Cardinality(Upto(f[j])) = j
    BY <1>7, <2>1
  <2>3. R[f[j]] = R[x]
    BY <2>2
  <2>4. f[j] = x
    <3> HIDE DEF f, R, j
    <3> QED
      BY <1>4, <2>2, <2>3 DEF Injection, IsInjective
  <2> QED
    BY <2>1, <2>4
<1>11. \A j \in 1..n : f[j] = CHOOSE i \in S : Cardinality({k \in S : k <= i}) = j
  BY DEF Upto
<1> HIDE DEF f, R
<1> QED
  BY <1>8, <1>9, <1>10, <1>11

(* A non-empty finite set of numbers has a greatest, and Max is it. *)
LEMMA MaxLemma ==
  ASSUME NEW S \in SUBSET Nat, S # {}, NEW n \in Nat, \A x \in S : x <= n
  PROVE  Max(S) \in S /\ \A x \in S : Max(S) >= x
<1> DEFINE T == {y \in Nat : \E x \in S : y = n - x}
<1>1. T \in SUBSET Nat /\ \A x \in S : n - x \in T
  <2>1. ASSUME NEW x \in S PROVE n - x \in Nat
    <3>1. x \in Nat /\ x <= n
      OBVIOUS
    <3> QED
      BY <3>1
  <2> QED
    BY <2>1
<1>2. T # {}
  BY <1>1
<1> HIDE DEF T
<1>3. Min(T) \in T /\ \A y \in T : Min(T) <= y
  BY <1>1, <1>2, MinLemma
<1>4. PICK m \in S : Min(T) = n - m
  BY <1>3 DEF T
<1>5. ASSUME NEW x \in S PROVE m >= x
  <2>1. n - m <= n - x /\ m \in Nat /\ x \in Nat
    BY <1>1, <1>3, <1>4
  <2> QED
    BY <2>1
<1> QED
  BY <1>5 DEF Max

(* Kept is the elements at some indices, in order: the sequence of those       *)
(* indices increases and leaves none out.                                       *)
LEMMA KeptAt ==
  ASSUME NEW M, NEW s \in Seq(M), NEW S \in SUBSET (1..Len(s))
  PROVE  /\ Kept(s, S) \in Seq(M)
         /\ \E f \in [1..Len(Kept(s, S)) -> S] :
              /\ \A j \in 1..Len(Kept(s, S)) : Kept(s, S)[j] = s[f[j]]
              /\ \A i, j \in 1..Len(Kept(s, S)) : i < j => f[i] < f[j]
              /\ \A x \in S : \E j \in 1..Len(Kept(s, S)) : f[j] = x
<1> DEFINE n == Cardinality(S)
           k == Kept(s, S)
<1>1. Len(s) \in Nat /\ \A i \in 1..Len(s) : s[i] \in M
  OBVIOUS
<1>2. IsFiniteSet(S) /\ S \in SUBSET Nat
  <2>1. IsFiniteSet(1..Len(s))
    BY <1>1, FS_Interval
  <2>2. IsFiniteSet(S)
    BY <2>1, FS_Subset
  <2>3. S \in SUBSET Nat
    BY <1>1
  <2> QED
    BY <2>2, <2>3
<1>3. n \in Nat
  BY <1>2, FS_CardinalityType
<1>4. PICK f \in [1..n -> S] :
        /\ \A j \in 1..n : f[j] = CHOOSE i \in S : Cardinality({x \in S : x <= i}) = j
        /\ \A i, j \in 1..n : i < j => f[i] < f[j]
        /\ \A x \in S : \E j \in 1..n : f[j] = x
  BY <1>2, RankLemma
<1>5. k = [j \in 1..n |-> s[CHOOSE i \in S : Cardinality({x \in S : x <= i}) = j]]
  BY DEF Kept
<1>6. k = [j \in 1..n |-> s[f[j]]]
  BY <1>4, <1>5
<1> HIDE DEF k, n
<1>7. \A j \in 1..n : s[f[j]] \in M
  BY <1>1, <1>4
<1>8. k \in Seq(M) /\ Len(k) = n
  BY <1>3, <1>6, <1>7
<1>9. \A j \in 1..n : k[j] = s[f[j]]
  BY <1>6
<1> QED
  BY <1>4, <1>8, <1>9 DEF k

(* The same, with a name for the indices that are picked. *)
Picks(f, k, s, S) ==
  /\ f \in [1..Len(k) -> S]
  /\ \A j \in 1..Len(k) : k[j] = s[f[j]]
  /\ \A i, j \in 1..Len(k) : i < j => f[i] < f[j]
  /\ \A x \in S : \E j \in 1..Len(k) : f[j] = x

LEMMA KeptPicks ==
  ASSUME NEW M, NEW s \in Seq(M), NEW S \in SUBSET (1..Len(s))
  PROVE  Kept(s, S) \in Seq(M) /\ \E f : Picks(f, Kept(s, S), s, S)
<1> DEFINE k == Kept(s, S)
<1>1. /\ k \in Seq(M)
      /\ \E f \in [1..Len(k) -> S] :
           /\ \A j \in 1..Len(k) : k[j] = s[f[j]]
           /\ \A i, j \in 1..Len(k) : i < j => f[i] < f[j]
           /\ \A x \in S : \E j \in 1..Len(k) : f[j] = x
  BY KeptAt
<1> HIDE DEF k
<1>2. k \in Seq(M) /\ \E f : Picks(f, k, s, S)
  BY <1>1 DEF Picks
<1> QED
  BY <1>2 DEF k

(* A finite set of numbers is bounded. *)
LEMMA FiniteBound ==
  ASSUME NEW S \in SUBSET Nat, IsFiniteSet(S)
  PROVE  \E n \in Nat : \A x \in S : x <= n
<1> DEFINE B == {s \in SUBSET S : ~ \E n \in Nat : \A x \in s : x <= n}
<1>1. CASE B = {}
  BY <1>1
<1>2. CASE B # {}
  <2>1. B \in SUBSET (SUBSET S)
    OBVIOUS
  <2>2. PICK s \in B : \A t \in B : Cardinality(s) <= Cardinality(t)
    <3> HIDE DEF B
    <3> QED
      BY <1>2, <2>1, SmallestSubset
  <2>3. s \in SUBSET S /\ ~ \E n \in Nat : \A x \in s : x <= n
    BY <2>2
  <2>4. PICK y \in s : TRUE
    BY <2>3
  <2>5. s \ {y} \in SUBSET S /\ ~(Cardinality(s) <= Cardinality(s \ {y}))
    BY <2>3, <2>4, SmallerWithout
  <2>6. s \ {y} \notin B
    BY <2>2, <2>5
  <2>7. PICK n \in Nat : \A x \in s \ {y} : x <= n
    BY <2>5, <2>6
  <2>8. y \in Nat /\ s \in SUBSET Nat
    BY <2>3, <2>4
  <2>9. \A x \in s : x <= n + y
    BY <2>7, <2>8
  <2> QED
    BY <2>3, <2>8, <2>9
<1> QED
  BY <1>1, <1>2
=============================================================================
