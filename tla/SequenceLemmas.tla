--------------------------- MODULE SequenceLemmas ---------------------------
(***************************************************************************)
(* What the operations of the kernel's lists (pushBack, popFront, erase)   *)
(* do to a sequence, and the smallest of a set of numbers, for the proofs  *)
(* about the modules that use them.                                        *)
(***************************************************************************)
EXTENDS Integers, Sequences, SequenceTheorems, WellFoundedInduction, TLAPS

\* What is in a list.
Elems(q) == {q[i] : i \in 1 .. Len(q)}

\* Nothing is in it twice.
NoDup(q) == \A i, j \in 1 .. Len(q) : q[i] = q[j] => i = j

----------------------------------------------------------------------------
(* Places in a list *)

\* What popFront leaves of a list.
LEMMA TailLemma ==
  ASSUME NEW S, NEW q \in Seq(S), q # <<>>
  PROVE  /\ Tail(q) \in Seq(S)
         /\ Len(q) \in Nat \ {0} /\ Len(Tail(q)) = Len(q) - 1
         /\ \A j \in 1 .. Len(q) - 1 : Tail(q)[j] = q[j + 1]
         /\ Head(q) = q[1] /\ q[1] \in S
  BY HeadTailProperties, LenProperties

\* What erase leaves of a list: the elements behind the erased one move up.
LEMMA RemoveAtLemma ==
  ASSUME NEW S, NEW q \in Seq(S), NEW k \in 1 .. Len(q)
  PROVE  LET d == SubSeq(q, 1, k - 1) \o SubSeq(q, k + 1, Len(q))
         IN /\ d \in Seq(S) /\ Len(d) = Len(q) - 1
            /\ \A j \in 1 .. Len(q) - 1 :
                 d[j] = IF j < k THEN q[j] ELSE q[j + 1]
<1> DEFINE l == SubSeq(q, 1, k - 1)
           r == SubSeq(q, k + 1, Len(q))
<1>1. l \in Seq(S) /\ Len(l) = k - 1 /\ \A j \in 1 .. k - 1 : l[j] = q[j]
  OBVIOUS
<1>2. r \in Seq(S) /\ Len(r) = Len(q) - k
      /\ \A j \in 1 .. Len(q) - k : r[j] = q[k + j]
  OBVIOUS
<1> HIDE DEF l, r
<1>3. l \o r \in Seq(S) /\ Len(l \o r) = Len(l) + Len(r)
      /\ \A j \in 1 .. Len(l) + Len(r) :
           (l \o r)[j] = IF j <= Len(l) THEN l[j] ELSE r[j - Len(l)]
  BY <1>1, <1>2, ConcatProperties
<1>4. Len(l \o r) = Len(q) - 1
  BY <1>1, <1>2, <1>3
<1>5. ASSUME NEW j \in 1 .. Len(q) - 1
      PROVE  (l \o r)[j] = IF j < k THEN q[j] ELSE q[j + 1]
  <2>0. j \in 1 .. Len(l) + Len(r) /\ Len(q) \in Nat
    BY <1>1, <1>2
  <2>1. CASE j < k
    BY <1>1, <1>3, <2>0, <2>1
  <2>2. CASE j >= k
    <3>1. (l \o r)[j] = r[j - (k - 1)] /\ j - (k - 1) \in 1 .. Len(q) - k
      BY <1>1, <1>2, <1>3, <2>0, <2>2
    <3>2. k + (j - (k - 1)) = j + 1
      BY <2>0
    <3> QED
      BY <1>2, <2>2, <3>1, <3>2
  <2> QED
    BY <2>0, <2>1, <2>2
<1> QED
  BY <1>3, <1>4, <1>5 DEF l, r

\* What is left of a list that is read from behind its k-th element on: the elements
\* behind it, then those in front of it.
LEMMA RotateLemma ==
  ASSUME NEW S, NEW q \in Seq(S), NEW k \in 1 .. Len(q)
  PROVE  LET d == SubSeq(q, k + 1, Len(q)) \o SubSeq(q, 1, k - 1)
         IN /\ d \in Seq(S) /\ Len(d) = Len(q) - 1
            /\ \A j \in 1 .. Len(q) - 1 :
                 d[j] = IF j <= Len(q) - k THEN q[k + j] ELSE q[j - (Len(q) - k)]
<1> DEFINE l == SubSeq(q, k + 1, Len(q))
           r == SubSeq(q, 1, k - 1)
<1>1. l \in Seq(S) /\ Len(l) = Len(q) - k
      /\ \A j \in 1 .. Len(q) - k : l[j] = q[k + j]
  OBVIOUS
<1>2. r \in Seq(S) /\ Len(r) = k - 1 /\ \A j \in 1 .. k - 1 : r[j] = q[j]
  OBVIOUS
<1> HIDE DEF l, r
<1>3. l \o r \in Seq(S) /\ Len(l \o r) = Len(l) + Len(r)
      /\ \A j \in 1 .. Len(l) + Len(r) :
           (l \o r)[j] = IF j <= Len(l) THEN l[j] ELSE r[j - Len(l)]
  BY <1>1, <1>2, ConcatProperties
<1>4. Len(l \o r) = Len(q) - 1
  BY <1>1, <1>2, <1>3
<1>5. ASSUME NEW j \in 1 .. Len(q) - 1
      PROVE  (l \o r)[j] = IF j <= Len(q) - k THEN q[k + j]
                           ELSE q[j - (Len(q) - k)]
  <2>0. j \in 1 .. Len(l) + Len(r) /\ Len(q) \in Nat
    BY <1>1, <1>2
  <2>1. CASE j <= Len(q) - k
    BY <1>1, <1>3, <2>0, <2>1
  <2>2. CASE j > Len(q) - k
    <3>1. j - (Len(q) - k) \in 1 .. k - 1
      BY <1>1, <1>2, <2>0, <2>2
    <3>2. (l \o r)[j] = r[j - (Len(q) - k)]
      BY <1>1, <1>3, <2>0, <2>2
    <3>3. r[j - (Len(q) - k)] = q[j - (Len(q) - k)]
      BY <1>2, <3>1
    <3> QED
      BY <2>0, <2>2, <3>2, <3>3
  <2> QED
    BY <2>0, <2>1, <2>2
<1> QED
  BY <1>3, <1>4, <1>5 DEF l, r

----------------------------------------------------------------------------
(* What is in a list *)

\* pushBack of something new.
LEMMA AppendElems ==
  ASSUME NEW S, NEW q \in Seq(S), NEW x \in S
  PROVE  /\ Append(q, x) \in Seq(S)
         /\ Elems(Append(q, x)) = Elems(q) \cup {x}
         /\ NoDup(q) /\ x \notin Elems(q) => NoDup(Append(q, x))
<1> DEFINE a == Append(q, x)
<1>1. /\ a \in Seq(S) /\ Len(a) = Len(q) + 1 /\ Len(q) \in Nat
      /\ \A i \in 1 .. Len(q) : a[i] = q[i]
      /\ a[Len(q) + 1] = x
  BY AppendProperties, LenProperties
<1> HIDE DEF a
<1>2. 1 .. Len(a) = 1 .. Len(q) \cup {Len(q) + 1}
  BY <1>1
<1>3. Elems(a) = Elems(q) \cup {x}
  BY <1>1, <1>2 DEF Elems
<1>4. ASSUME NoDup(q), x \notin Elems(q)
      PROVE  NoDup(a)
  <2> SUFFICES ASSUME NEW i \in 1 .. Len(a), NEW j \in 1 .. Len(a), a[i] = a[j]
               PROVE  i = j
    BY DEF NoDup
  <2>1. \A k \in 1 .. Len(q) : q[k] # x
    BY <1>4 DEF Elems
  <2> QED
    BY <1>1, <1>2, <1>4, <2>1 DEF NoDup
<1> QED
  BY <1>1, <1>3, <1>4 DEF a

\* popFront.
LEMMA TailElems ==
  ASSUME NEW S, NEW q \in Seq(S), q # <<>>
  PROVE  /\ Tail(q) \in Seq(S)
         /\ Head(q) \in S /\ Head(q) \in Elems(q)
         /\ Elems(q) = Elems(Tail(q)) \cup {Head(q)}
         /\ NoDup(q) => NoDup(Tail(q)) /\ Head(q) \notin Elems(Tail(q))
<1> DEFINE a == Tail(q)
<1>1. /\ a \in Seq(S)
      /\ Len(q) \in Nat \ {0} /\ Len(a) = Len(q) - 1
      /\ \A j \in 1 .. Len(q) - 1 : a[j] = q[j + 1]
      /\ Head(q) = q[1] /\ q[1] \in S
  BY TailLemma
<1> HIDE DEF a
<1>2. \A x : x \in Elems(q) <=> x = q[1] \/ x \in Elems(a)
  <2>1. ASSUME NEW i \in 1 .. Len(q)
        PROVE  q[i] = q[1] \/ q[i] \in Elems(a)
    <3>1. CASE i = 1
      BY <3>1
    <3>2. CASE i # 1
      <4>1. i - 1 \in 1 .. Len(a) /\ a[i - 1] = q[i]
        BY <1>1, <3>2
      <4> QED
        BY <4>1 DEF Elems
    <3> QED
      BY <3>1, <3>2
  <2>2. ASSUME NEW i \in 1 .. Len(a)
        PROVE  a[i] \in Elems(q)
    <3>1. i + 1 \in 1 .. Len(q) /\ a[i] = q[i + 1]
      BY <1>1
    <3> QED
      BY <3>1 DEF Elems
  <2>3. q[1] \in Elems(q)
    BY <1>1 DEF Elems
  <2> QED
    BY <2>1, <2>2, <2>3 DEF Elems
<1>3. ASSUME NoDup(q)
      PROVE  NoDup(a) /\ q[1] \notin Elems(a)
  <2>1. ASSUME NEW i \in 1 .. Len(a)
        PROVE  i + 1 \in 1 .. Len(q) /\ a[i] = q[i + 1] /\ 1 \in 1 .. Len(q) /\ i + 1 # 1
    BY <1>1
  <2>2. ASSUME NEW i \in 1 .. Len(a), NEW j \in 1 .. Len(a), a[i] = a[j]
        PROVE  i = j
    <3>1. i + 1 = j + 1
      BY <1>3, <2>1, <2>2 DEF NoDup
    <3> QED
      BY <3>1
  <2>3. ASSUME NEW i \in 1 .. Len(a)
        PROVE  a[i] # q[1]
    BY <1>3, <2>1 DEF NoDup
  <2> QED
    BY <2>2, <2>3 DEF NoDup, Elems
<1> QED
  BY <1>1, <1>2, <1>3 DEF a

\* erase, from a list without duplicates.
LEMMA RemoveAtElems ==
  ASSUME NEW S, NEW q \in Seq(S), NEW k \in 1 .. Len(q), NoDup(q)
  PROVE  LET d == SubSeq(q, 1, k - 1) \o SubSeq(q, k + 1, Len(q))
         IN d \in Seq(S) /\ NoDup(d) /\ Elems(d) = Elems(q) \ {q[k]}
<1> DEFINE d == SubSeq(q, 1, k - 1) \o SubSeq(q, k + 1, Len(q))
           From(j) == IF j < k THEN j ELSE j + 1
<1>1. /\ d \in Seq(S) /\ Len(d) = Len(q) - 1 /\ Len(q) \in Nat
      /\ \A j \in 1 .. Len(q) - 1 : d[j] = IF j < k THEN q[j] ELSE q[j + 1]
  BY RemoveAtLemma, LenProperties
<1> HIDE DEF d
<1>2. ASSUME NEW j \in 1 .. Len(d)
      PROVE  From(j) \in 1 .. Len(q) /\ From(j) # k /\ d[j] = q[From(j)]
  <2>1. CASE j < k
    BY <1>1, <2>1
  <2>2. CASE ~(j < k)
    BY <1>1, <2>2
  <2> QED
    BY <2>1, <2>2
<1>3. ASSUME NEW i \in 1 .. Len(d), NEW j \in 1 .. Len(d), d[i] = d[j]
      PROVE  i = j
  <2>1. From(i) = From(j)
    <3> HIDE DEF From
    <3> QED
      BY <1>2, <1>3 DEF NoDup
  <2> QED
    BY <2>1
<1>4. ASSUME NEW j \in 1 .. Len(d)
      PROVE  d[j] \in Elems(q) \ {q[k]}
  <2> HIDE DEF From
  <2> QED
    BY <1>2 DEF Elems, NoDup
<1>5. ASSUME NEW i \in 1 .. Len(q), q[i] # q[k]
      PROVE  q[i] \in Elems(d)
  <2>0. i # k
    BY <1>5
  <2>1. CASE i < k
    <3>1. i \in 1 .. Len(d) /\ d[i] = q[i]
      BY <1>1, <2>1
    <3> QED
      BY <3>1 DEF Elems
  <2>2. CASE i > k
    <3>1. i - 1 \in 1 .. Len(d) /\ d[i - 1] = q[i]
      BY <1>1, <2>2
    <3> QED
      BY <3>1 DEF Elems
  <2> QED
    BY <2>0, <2>1, <2>2
<1>6. Elems(d) = Elems(q) \ {q[k]}
  <2>1. \A x : x \in Elems(d) => x \in Elems(q) \ {q[k]}
    BY <1>4 DEF Elems
  <2>2. \A x : x \in Elems(q) \ {q[k]} => x \in Elems(d)
    BY <1>5 DEF Elems
  <2> QED
    BY <2>1, <2>2
<1>7. NoDup(d)
  BY <1>3 DEF NoDup
<1> QED
  BY <1>1, <1>6, <1>7 DEF d

----------------------------------------------------------------------------
(* Numbers *)

\* A set of numbers has a smallest.
LEMMA SmallestNumber ==
  ASSUME NEW C \in SUBSET Nat, C # {}
  PROVE  \E p \in C : \A q \in C : p <= q
<1> DEFINE R == OpToRel(<, Nat)
<1>1. PICK p \in C : \A q \in C : <<q, p>> \notin R
  <2> HIDE DEF R
  <2>1. IsWellFoundedOn(R, Nat)
    BY NatLessThanWellFounded, Zenon DEF R
  <2> QED
    BY <2>1, WFMin
<1>2. \A q \in C : ~(q < p)
  BY <1>1 DEF OpToRel
<1> QED
  BY <1>2
=============================================================================
