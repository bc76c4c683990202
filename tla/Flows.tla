------------------------------- MODULE Flows --------------------------------
(***************************************************************************)
(* Facts about sequences that the proofs about queues share: what is in a  *)
(* sequence, how its elements are ordered and how many of a kind there are *)
(* after an append, a removal at the front, a concatenation and a loop     *)
(* that keeps some of them.  A relation says which pairs may stand in this *)
(* order.                                                                  *)
(***************************************************************************)
EXTENDS Integers, Sequences, FiniteSets, SequenceTheorems, FiniteSetTheorems,
        WellFoundedInduction, TLAPS

Ordered(s, R) == \A i, j \in DOMAIN s : i < j => <<s[i], s[j]>> \in R

\* Of two numbers or times, the one in front is the smaller.
Earlier == {p \in Nat \X Nat : p[1] < p[2]}

(* What is in a sequence after push_back. *)
LEMMA AppendElems ==
    ASSUME NEW S, NEW s \in Seq(S), NEW e \in S
    PROVE  Append(s, e) \in Seq(S) /\ Range(Append(s, e)) = Range(s) \cup {e}
<1>1. /\ Append(s, e) \in Seq(S) /\ DOMAIN s = 1 .. Len(s) /\ Len(s) \in Nat
      /\ DOMAIN Append(s, e) = 1 .. Len(s) + 1
      /\ \A i \in 1 .. Len(s) : Append(s, e)[i] = s[i]
      /\ Append(s, e)[Len(s) + 1] = e
  OBVIOUS
<1>2. ASSUME NEW x \in Range(Append(s, e)) PROVE x \in Range(s) \cup {e}
  <2>1. PICK i \in 1 .. Len(s) + 1 : x = Append(s, e)[i]
    BY <1>1 DEF Range
  <2> QED
    BY <1>1, <2>1 DEF Range
<1>3. ASSUME NEW x \in Range(s) PROVE x \in Range(Append(s, e))
  BY <1>1 DEF Range
<1>4. e \in Range(Append(s, e))
  <2>1. Len(s) + 1 \in 1 .. Len(s) + 1
    BY <1>1
  <2> QED
    BY <1>1, <2>1 DEF Range
<1> QED
  BY <1>1, <1>2, <1>3, <1>4

(* What is in a sequence and in its rest after pop_front. *)
LEMMA TailElems ==
    ASSUME NEW S, NEW s \in Seq(S), s # <<>>
    PROVE  /\ Tail(s) \in Seq(S) /\ Head(s) \in S
           /\ Range(s) = {Head(s)} \cup Range(Tail(s))
<1>1. /\ Tail(s) \in Seq(S) /\ Head(s) = s[1] /\ Len(s) \in Nat /\ Len(s) >= 1
      /\ DOMAIN s = 1 .. Len(s) /\ DOMAIN Tail(s) = 1 .. Len(s) - 1
      /\ \A i \in 1 .. Len(s) - 1 : Tail(s)[i] = s[i + 1]
      /\ Head(s) \in S
  OBVIOUS
<1>2. ASSUME NEW x \in Range(s) PROVE x \in {Head(s)} \cup Range(Tail(s))
  <2>1. PICK i \in 1 .. Len(s) : x = s[i]
    BY <1>1 DEF Range
  <2>2. CASE i = 1
    BY <1>1, <2>1, <2>2
  <2>3. CASE i # 1
    <3>1. i - 1 \in 1 .. Len(s) - 1 /\ (i - 1) + 1 = i
      BY <1>1, <2>3
    <3>2. Tail(s)[i - 1] = s[i]
      BY <1>1, <3>1
    <3> QED
      BY <1>1, <2>1, <3>1, <3>2 DEF Range
  <2> QED
    BY <2>2, <2>3
<1>3. ASSUME NEW x \in Range(Tail(s)) PROVE x \in Range(s)
  <2>1. PICK i \in 1 .. Len(s) - 1 : x = Tail(s)[i]
    BY <1>1 DEF Range
  <2>2. i + 1 \in 1 .. Len(s) /\ x = s[i + 1]
    BY <1>1, <2>1
  <2> QED
    BY <1>1, <2>2 DEF Range
<1>4. Head(s) \in Range(s)
  <2>1. 1 \in 1 .. Len(s)
    BY <1>1
  <2> QED
    BY <1>1, <2>1 DEF Range
<1> QED
  BY <1>1, <1>2, <1>3, <1>4

(* Where the elements of a concatenation are. *)
LEMMA ConcatAt ==
    ASSUME NEW S, NEW s \in Seq(S), NEW t \in Seq(S)
    PROVE  /\ s \o t \in Seq(S) /\ Len(s) \in Nat /\ Len(t) \in Nat
           /\ DOMAIN s = 1 .. Len(s) /\ DOMAIN t = 1 .. Len(t)
           /\ DOMAIN (s \o t) = 1 .. Len(s) + Len(t)
           /\ \A i \in 1 .. Len(s) : (s \o t)[i] = s[i]
           /\ \A i \in Len(s) + 1 .. Len(s) + Len(t) : (s \o t)[i] = t[i - Len(s)]
  OBVIOUS

(* What is in a concatenation. *)
LEMMA ConcatElems ==
    ASSUME NEW S, NEW s \in Seq(S), NEW t \in Seq(S)
    PROVE  s \o t \in Seq(S) /\ Range(s \o t) = Range(s) \cup Range(t)
<1>1. ASSUME NEW x \in Range(s \o t) PROVE x \in Range(s) \cup Range(t)
  <2>1. PICK i \in 1 .. Len(s) + Len(t) : x = (s \o t)[i]
    BY ConcatAt DEF Range
  <2>2. CASE i <= Len(s)
    <3>1. i \in 1 .. Len(s) /\ i \in DOMAIN s
      BY <2>2, ConcatAt
    <3>2. x = s[i]
      BY <2>1, <3>1, ConcatAt
    <3> QED
      BY <3>1, <3>2 DEF Range
  <2>3. CASE i > Len(s)
    <3>1. i \in Len(s) + 1 .. Len(s) + Len(t) /\ i - Len(s) \in DOMAIN t
      BY <2>3, ConcatAt
    <3>2. x = t[i - Len(s)]
      BY <2>1, <3>1, ConcatAt
    <3> QED
      BY <3>1, <3>2 DEF Range
  <2> QED
    BY <2>2, <2>3, ConcatAt
<1>2. ASSUME NEW x \in Range(s) PROVE x \in Range(s \o t)
  <2>1. PICK i \in DOMAIN s : x = s[i]
    BY DEF Range
  <2>2. i \in 1 .. Len(s) /\ i \in DOMAIN (s \o t)
    BY ConcatAt
  <2>3. (s \o t)[i] = x
    BY <2>1, <2>2, ConcatAt
  <2> QED
    BY <2>2, <2>3 DEF Range
<1>3. ASSUME NEW x \in Range(t) PROVE x \in Range(s \o t)
  <2>1. PICK i \in DOMAIN t : x = t[i]
    BY DEF Range
  <2>2. /\ i + Len(s) \in Len(s) + 1 .. Len(s) + Len(t) /\ (i + Len(s)) - Len(s) = i
        /\ i + Len(s) \in DOMAIN (s \o t)
    BY ConcatAt
  <2>3. (s \o t)[i + Len(s)] = x
    BY <2>1, <2>2, ConcatAt
  <2> QED
    BY <2>2, <2>3 DEF Range
<1> QED
  BY <1>1, <1>2, <1>3, ConcatAt

-----------------------------------------------------------------------------
(* An append keeps the order if the new element may stand behind all. *)
LEMMA AppendOrdered ==
    ASSUME NEW S, NEW R, NEW s \in Seq(S), NEW e \in S, Ordered(s, R),
           \A x \in Range(s) : <<x, e>> \in R
    PROVE  Ordered(Append(s, e), R)
<1>1. /\ DOMAIN s = 1 .. Len(s) /\ Len(s) \in Nat /\ DOMAIN Append(s, e) = 1 .. Len(s) + 1
      /\ \A i \in 1 .. Len(s) : Append(s, e)[i] = s[i]
      /\ Append(s, e)[Len(s) + 1] = e
  OBVIOUS
<1> SUFFICES ASSUME NEW i \in 1 .. Len(s) + 1, NEW j \in 1 .. Len(s) + 1, i < j
             PROVE  <<Append(s, e)[i], Append(s, e)[j]>> \in R
  BY <1>1 DEF Ordered
<1>2. i \in 1 .. Len(s) /\ i \in DOMAIN s /\ Append(s, e)[i] = s[i]
  BY <1>1
<1>3. CASE j = Len(s) + 1
  <2>1. Append(s, e)[j] = e /\ s[i] \in Range(s)
    BY <1>1, <1>2, <1>3 DEF Range
  <2> QED
    BY <1>2, <2>1
<1>4. CASE j # Len(s) + 1
  <2>1. j \in 1 .. Len(s)
    BY <1>1, <1>4
  <2> QED
    BY <1>1, <1>2, <2>1 DEF Ordered
<1> QED
  BY <1>3, <1>4

(* The rest of an ordered sequence is ordered and comes after the head. *)
LEMMA TailOrdered ==
    ASSUME NEW S, NEW R, NEW s \in Seq(S), s # <<>>, Ordered(s, R)
    PROVE  Ordered(Tail(s), R) /\ \A x \in Range(Tail(s)) : <<Head(s), x>> \in R
<1>1. /\ Head(s) = s[1] /\ Len(s) \in Nat /\ Len(s) >= 1
      /\ DOMAIN s = 1 .. Len(s) /\ DOMAIN Tail(s) = 1 .. Len(s) - 1
      /\ \A i \in 1 .. Len(s) - 1 : Tail(s)[i] = s[i + 1]
  OBVIOUS
<1>2. ASSUME NEW i \in 1 .. Len(s) - 1, NEW j \in 1 .. Len(s) - 1, i < j
      PROVE  <<Tail(s)[i], Tail(s)[j]>> \in R
  <2>1. i + 1 \in DOMAIN s /\ j + 1 \in DOMAIN s /\ i + 1 < j + 1
    BY <1>1, <1>2
  <2>2. Tail(s)[i] = s[i + 1] /\ Tail(s)[j] = s[j + 1]
    BY <1>1
  <2> QED
    BY <2>1, <2>2 DEF Ordered
<1>3. ASSUME NEW x \in Range(Tail(s)) PROVE <<Head(s), x>> \in R
  <2>1. PICK i \in 1 .. Len(s) - 1 : x = Tail(s)[i]
    BY <1>1 DEF Range
  <2>2. 1 \in DOMAIN s /\ i + 1 \in DOMAIN s /\ 1 < i + 1 /\ x = s[i + 1]
    BY <1>1, <2>1
  <2> QED
    BY <1>1, <2>2 DEF Ordered
<1> QED
  BY <1>1, <1>2, <1>3 DEF Ordered

(* Two ordered sequences, one after the other. *)
LEMMA ConcatOrdered ==
    ASSUME NEW S, NEW R, NEW s \in Seq(S), NEW t \in Seq(S), Ordered(s, R), Ordered(t, R),
           \A x \in Range(s), y \in Range(t) : <<x, y>> \in R
    PROVE  Ordered(s \o t, R)
<1>0. DOMAIN (s \o t) = 1 .. Len(s) + Len(t)
  BY ConcatAt
<1> SUFFICES ASSUME NEW i \in 1 .. Len(s) + Len(t), NEW j \in 1 .. Len(s) + Len(t), i < j
             PROVE  <<(s \o t)[i], (s \o t)[j]>> \in R
  BY <1>0 DEF Ordered
<1>1. Len(s) \in Nat /\ Len(t) \in Nat /\ i \in Int /\ j \in Int
  BY ConcatAt
<1>2. ASSUME NEW k \in 1 .. Len(s) + Len(t), k <= Len(s)
      PROVE  k \in DOMAIN s /\ (s \o t)[k] = s[k] /\ s[k] \in Range(s)
  <2>1. k \in 1 .. Len(s) /\ k \in DOMAIN s
    BY <1>2, ConcatAt
  <2> QED
    BY <2>1, ConcatAt DEF Range
<1>3. ASSUME NEW k \in 1 .. Len(s) + Len(t), k > Len(s)
      PROVE  /\ k - Len(s) \in DOMAIN t /\ (s \o t)[k] = t[k - Len(s)]
             /\ t[k - Len(s)] \in Range(t)
  <2>1. k \in Len(s) + 1 .. Len(s) + Len(t) /\ k - Len(s) \in DOMAIN t
    BY <1>3, ConcatAt
  <2> QED
    BY <2>1, ConcatAt DEF Range
<1>4. CASE j <= Len(s)
  <2>1. i <= Len(s)
    BY <1>1, <1>4
  <2> QED
    BY <1>2, <1>4, <2>1 DEF Ordered
<1>5. CASE i <= Len(s) /\ j > Len(s)
  BY <1>2, <1>3, <1>5
<1>6. CASE i > Len(s)
  <2>1. j > Len(s) /\ i - Len(s) < j - Len(s)
    BY <1>1, <1>6
  <2> QED
    BY <1>3, <1>6, <2>1 DEF Ordered
<1>7. j <= Len(s) \/ (i <= Len(s) /\ j > Len(s)) \/ i > Len(s)
  BY <1>1
<1> QED
  BY <1>4, <1>5, <1>6, <1>7

(* The parts of an ordered sequence. *)
LEMMA ConcatParts ==
    ASSUME NEW S, NEW R, NEW s \in Seq(S), NEW t \in Seq(S), Ordered(s \o t, R)
    PROVE  /\ Ordered(s, R) /\ Ordered(t, R)
           /\ \A x \in Range(s), y \in Range(t) : <<x, y>> \in R
<1>0. Len(s) \in Nat /\ Len(t) \in Nat
  BY ConcatAt
<1>1. ASSUME NEW i \in DOMAIN s
      PROVE  i \in Int /\ i <= Len(s) /\ i \in DOMAIN (s \o t) /\ (s \o t)[i] = s[i]
  <2>1. i \in 1 .. Len(s) /\ i \in Int
    BY ConcatAt
  <2> QED
    BY <2>1, ConcatAt
<1>2. ASSUME NEW i \in DOMAIN t
      PROVE  /\ i \in Int /\ i > 0 /\ Len(s) + i \in DOMAIN (s \o t) /\ (s \o t)[Len(s) + i] = t[i]
  <2>1. i \in 1 .. Len(t) /\ i \in Int
    BY ConcatAt
  <2>2. Len(s) + i \in Len(s) + 1 .. Len(s) + Len(t) /\ (Len(s) + i) - Len(s) = i
    BY <1>0, <2>1
  <2>3. Len(s) + i \in 1 .. Len(s) + Len(t)
    BY <1>0, <2>1
  <2>4. (s \o t)[Len(s) + i] = t[(Len(s) + i) - Len(s)]
    BY <2>2, ConcatAt
  <2> QED
    BY <2>1, <2>2, <2>3, <2>4, ConcatAt
<1>3. Ordered(s, R)
  <2> SUFFICES ASSUME NEW i \in DOMAIN s, NEW j \in DOMAIN s, i < j PROVE <<s[i], s[j]>> \in R
    BY DEF Ordered
  <2> QED
    BY <1>1 DEF Ordered
<1>4. Ordered(t, R)
  <2> SUFFICES ASSUME NEW i \in DOMAIN t, NEW j \in DOMAIN t, i < j PROVE <<t[i], t[j]>> \in R
    BY DEF Ordered
  <2>1. Len(s) + i < Len(s) + j
    BY <1>0, <1>2
  <2>2. <<(s \o t)[Len(s) + i], (s \o t)[Len(s) + j]>> \in R
    BY <1>2, <2>1 DEF Ordered
  <2> QED
    BY <1>2, <2>2
<1>5. ASSUME NEW x \in Range(s), NEW y \in Range(t) PROVE <<x, y>> \in R
  <2>1. PICK i \in DOMAIN s : x = s[i]
    BY DEF Range
  <2>2. PICK j \in DOMAIN t : y = t[j]
    BY DEF Range
  <2>3. i < Len(s) + j
    BY <1>0, <1>1, <1>2
  <2>4. <<(s \o t)[i], (s \o t)[Len(s) + j]>> \in R
    BY <1>1, <1>2, <2>3 DEF Ordered
  <2> QED
    BY <1>1, <1>2, <2>1, <2>2, <2>4
<1> QED
  BY <1>3, <1>4, <1>5

(* The front of a queue moves on to what was taken before it. *)
LEMMA FrontMoves ==
    ASSUME NEW S, NEW s \in Seq(S), NEW t \in Seq(S), t # <<>>
    PROVE  (s \o <<Head(t)>>) \o Tail(t) = s \o t
<1> SUFFICES ASSUME NEW h, h = <<Head(t)>>, NEW l, l = s \o h, NEW r, r = Tail(t)
             PROVE  l \o r = s \o t
  OBVIOUS
<1>1. /\ h \in Seq(S) /\ r \in Seq(S) /\ Len(h) = 1 /\ h[1] = t[1]
      /\ Len(t) \in Nat /\ Len(t) >= 1 /\ Len(r) = Len(t) - 1
      /\ \A i \in 1 .. Len(t) - 1 : r[i] = t[i + 1]
  OBVIOUS
<1>2. /\ l \in Seq(S) /\ Len(s) \in Nat /\ Len(l) = Len(s) + 1
      /\ \A i \in 1 .. Len(s) : l[i] = s[i]
      /\ l[Len(s) + 1] = t[1]
  <2>0. h \in Seq(S) /\ Len(h) = 1
    BY <1>1
  <2>1. l \in Seq(S) /\ Len(s) \in Nat /\ Len(l) = Len(s) + 1
    BY <2>0
  <2>2. \A i \in 1 .. Len(s) : l[i] = s[i]
    BY <1>1, ConcatAt
  <2>3. l[Len(s) + 1] = h[1]
    BY <1>1, <2>1
  <2> QED
    BY <1>1, <2>1, <2>2, <2>3
<1>3. /\ l \o r \in Seq(S) /\ s \o t \in Seq(S)
      /\ Len(l \o r) = Len(s) + Len(t) /\ Len(s \o t) = Len(s) + Len(t)
  <2>0. l \in Seq(S) /\ r \in Seq(S)
    BY <1>1, <1>2
  <2>1. Len(l \o r) = Len(l) + Len(r) /\ Len(s \o t) = Len(s) + Len(t)
    BY <2>0
  <2>2. Len(l) + Len(r) = Len(s) + Len(t)
    BY <1>1, <1>2
  <2> QED
    BY <1>1, <1>2, <2>1, <2>2
<1>4. ASSUME NEW i \in 1 .. Len(s) + Len(t) PROVE (l \o r)[i] = (s \o t)[i]
  <2>0. i \in Int
    BY <1>1, <1>2
  <2>1. CASE i <= Len(s)
    <3>1. i \in 1 .. Len(s) /\ i \in 1 .. Len(l)
      BY <1>1, <1>2, <2>0, <2>1
    <3>2. (l \o r)[i] = l[i]
      BY <1>1, <1>2, <3>1, ConcatAt
    <3>3. (s \o t)[i] = s[i]
      BY <3>1, ConcatAt
    <3> QED
      BY <1>2, <3>1, <3>2, <3>3
  <2>2. CASE i = Len(s) + 1
    <3>1. (l \o r)[i] = l[i]
      BY <1>1, <1>2, <2>2
    <3>2. (s \o t)[i] = t[1]
      BY <1>1, <1>2, <2>2
    <3> QED
      BY <1>2, <2>2, <3>1, <3>2
  <2>3. CASE i > Len(s) + 1
    <3>1. /\ i \in Len(l) + 1 .. Len(l) + Len(r) /\ i \in Len(s) + 1 .. Len(s) + Len(t)
          /\ i - Len(l) \in 1 .. Len(t) - 1 /\ (i - Len(l)) + 1 = i - Len(s)
      BY <1>1, <1>2, <2>0, <2>3
    <3>2. (l \o r)[i] = r[i - Len(l)]
      BY <1>1, <1>2, <3>1, ConcatAt
    <3>3. (s \o t)[i] = t[i - Len(s)]
      BY <3>1, ConcatAt
    <3>4. r[i - Len(l)] = t[i - Len(s)]
      BY <1>1, <3>1
    <3> QED
      BY <3>2, <3>3, <3>4
  <2>4. i <= Len(s) \/ i = Len(s) + 1 \/ i > Len(s) + 1
    BY <1>2, <2>0
  <2> QED
    BY <2>1, <2>2, <2>3, <2>4
<1> QED
  BY <1>3, <1>4, SeqEqual

(* An append at the back of the second part. *)
LEMMA BackOfBoth ==
    ASSUME NEW S, NEW s \in Seq(S), NEW t \in Seq(S), NEW e \in S
    PROVE  s \o Append(t, e) = Append(s \o t, e)
  OBVIOUS

(* Nothing in the middle. *)
LEMMA EmptyEnd ==
    ASSUME NEW S, NEW s \in Seq(S)
    PROVE  s \o <<>> = s
  OBVIOUS

(* One element at the end. *)
LEMMA SingleEnd ==
    ASSUME NEW S, NEW s \in Seq(S), NEW t \in Seq(S), Len(t) = 1
    PROVE  s \o t = Append(s, t[1])
<1>1. 1 \in 1 .. Len(t) /\ t[1] \in S
  BY ElementOfSeq
<1>2. s \o t \in Seq(S) /\ Append(s, t[1]) \in Seq(S)
  BY <1>1, ConcatProperties, AppendProperties
<1>3. Len(s \o t) = Len(s) + 1 /\ Len(Append(s, t[1])) = Len(s) + 1 /\ Len(s) \in Nat
  <2>1. Len(s \o t) = Len(s) + Len(t)
    BY ConcatProperties
  <2>2. Len(Append(s, t[1])) = Len(s) + 1
    BY <1>1, AppendProperties
  <2>3. Len(s) \in Nat
    BY LenProperties
  <2> QED
    BY <2>1, <2>2, <2>3
<1>4. ASSUME NEW i \in 1 .. Len(s) + 1 PROVE (s \o t)[i] = Append(s, t[1])[i]
  <2>1. CASE i = Len(s) + 1
    <3>1. i \in 1 .. Len(s) + Len(t) /\ ~(i <= Len(s)) /\ i - Len(s) = 1
      BY <1>3, <2>1
    <3>2. (s \o t)[i] = t[i - Len(s)]
      BY <3>1, ConcatAt
    <3>3. Append(s, t[1])[Len(s) + 1] = t[1]
      BY <1>1, AppendProperties
    <3> QED
      BY <2>1, <3>1, <3>2, <3>3
  <2>2. CASE i # Len(s) + 1
    <3>1. i \in 1 .. Len(s) + Len(t) /\ i <= Len(s) /\ i \in 1 .. Len(s)
      BY <1>3, <2>2
    <3>2. (s \o t)[i] = s[i]
      BY <3>1, ConcatProperties
    <3>3. Append(s, t[1])[i] = s[i]
      BY <1>1, <3>1, AppendProperties
    <3> QED
      BY <3>2, <3>3
  <2> QED
    BY <2>1, <2>2
<1> QED
  BY <1>2, <1>3, <1>4, SeqEqual

(* One more element behind a queue q and what was taken from it before, b; *)
(* the front of q may have been dropped to make room for it.               *)
LEMMA OneMore ==
    ASSUME NEW S, NEW R, NEW b \in Seq(S), NEW q \in Seq(S), NEW e \in S,
           Ordered(b \o q, R), \A x \in Range(b \o q) : <<x, e>> \in R
    PROVE  /\ Ordered(b \o Append(q, e), R)
           /\ Range(b \o Append(q, e)) = Range(b \o q) \cup {e}
           /\ q # <<>> => /\ Ordered(b \o Append(Tail(q), e), R)
                          /\ Range(b \o Append(Tail(q), e)) \subseteq Range(b \o q) \cup {e}
<1>1. b \o q \in Seq(S) /\ Range(b \o q) = Range(b) \cup Range(q)
  BY ConcatElems
<1>2. b \o Append(q, e) = Append(b \o q, e)
  BY BackOfBoth
<1>3. ASSUME NEW w, w \in Seq(S) PROVE Range(Append(w, e)) = Range(w) \cup {e}
  BY <1>3, AppendElems
<1>4. Ordered(Append(b \o q, e), R)
  BY <1>1, AppendOrdered
<1>5. ASSUME q # <<>>
      PROVE  /\ Ordered(b \o Append(Tail(q), e), R)
             /\ Range(b \o Append(Tail(q), e)) \subseteq Range(b \o q) \cup {e}
  <2>1. Tail(q) \in Seq(S) /\ Range(Tail(q)) \subseteq Range(q)
    BY <1>5, TailElems
  <2>2. Ordered(b, R) /\ Ordered(q, R) /\ \A x \in Range(b), y \in Range(q) : <<x, y>> \in R
    BY ConcatParts
  <2>3. Ordered(Tail(q), R)
    BY <1>5, <2>2, TailOrdered
  <2>4. Ordered(b \o Tail(q), R)
    BY <2>1, <2>2, <2>3, ConcatOrdered
  <2>5. b \o Tail(q) \in Seq(S) /\ Range(b \o Tail(q)) \subseteq Range(b \o q)
    <3> DEFINE r == Tail(q)
    <3>1. r \in Seq(S)
      BY <2>1
    <3> HIDE DEF r
    <3>2. b \o r \in Seq(S) /\ Range(b \o r) = Range(b) \cup Range(r)
      BY <3>1, ConcatElems
    <3> QED
      BY <1>1, <2>1, <3>2 DEF r
  <2>6. b \o Append(Tail(q), e) = Append(b \o Tail(q), e)
    BY <2>1, BackOfBoth
  <2>7. Range(Append(b \o Tail(q), e)) = Range(b \o Tail(q)) \cup {e}
    BY <1>3, <2>5
  <2>8. Ordered(Append(b \o Tail(q), e), R)
    BY <2>4, <2>5, AppendOrdered
  <2> QED
    BY <2>5, <2>6, <2>7, <2>8
<1> QED
  BY <1>1, <1>2, <1>3, <1>4, <1>5

(* A sequence over a set is one over every larger set. *)
LEMMA SeqGrows ==
    ASSUME NEW S, NEW T, S \subseteq T, NEW q \in Seq(S)
    PROVE  q \in Seq(T)
  OBVIOUS

(* The front and the rest of short sequences. *)
LEMMA TailOfTwo == ASSUME NEW x, NEW y PROVE /\ Head(<<x, y>>) = x /\ Tail(<<x, y>>) = <<y>>
                                             /\ Head(<<x>>) = x /\ Tail(<<x>>) = <<>>
  OBVIOUS

-----------------------------------------------------------------------------
(* A set of natural numbers that is not empty has a least element. *)
LEMMA Least ==
    ASSUME NEW B \in SUBSET Nat, B # {}
    PROVE  \E m \in B : \A x \in B : m <= x
<1>1. PICK m \in B : \A x \in B : ~(<<x, m>> \in OpToRel(<, Nat))
  BY WFMin, NatLessThanWellFounded, Zenon
<1>2. \A x \in B : ~(x < m)
  BY <1>1, Zenon DEF OpToRel
<1>3. \A x \in B : m <= x
  BY <1>2
<1> QED
  BY <1>3

-----------------------------------------------------------------------------
(* How many of the first k elements of q are in S, and how many of all. *)
Upto(q, k, S) == Cardinality({i \in 1 .. k : q[i] \in S})
Count(q, S) == Upto(q, Len(q), S)

\* 1 for an element that is counted.
One(x, S) == IF x \in S THEN 1 ELSE 0

(* The count is a number. *)
LEMMA UptoType ==
    ASSUME NEW q, NEW k \in Nat, NEW S
    PROVE  IsFiniteSet({i \in 1 .. k : q[i] \in S}) /\ Upto(q, k, S) \in Nat
<1>1. IsFiniteSet(1 .. k)
  BY FS_Interval
<1>2. {i \in 1 .. k : q[i] \in S} \in SUBSET (1 .. k)
  OBVIOUS
<1>3. IsFiniteSet({i \in 1 .. k : q[i] \in S})
  BY <1>1, <1>2, FS_Subset
<1> QED
  BY <1>3, FS_CardinalityType DEF Upto

(* Counting goes on with the next element. *)
LEMMA UptoNext ==
    ASSUME NEW q, NEW k \in Nat, NEW S
    PROVE  Upto(q, k + 1, S) = Upto(q, k, S) + One(q[k + 1], S)
<1> DEFINE I == {i \in 1 .. k : q[i] \in S}
           J == {i \in 1 .. k + 1 : q[i] \in S}
<1>1. IsFiniteSet(I) /\ Cardinality(I) \in Nat
  BY UptoType DEF Upto
<1>2. CASE q[k + 1] \in S
  <2>1. J = I \cup {k + 1} /\ k + 1 \notin I
    BY <1>2
  <2>2. Cardinality(J) = Cardinality(I) + 1
    BY <1>1, <2>1, FS_AddElement
  <2> QED
    BY <1>2, <2>2 DEF Upto, One
<1>3. CASE q[k + 1] \notin S
  <2>1. J = I
    BY <1>3
  <2> QED
    BY <1>1, <1>3, <2>1 DEF Upto, One
<1> QED
  BY <1>2, <1>3

(* The count depends on nothing but the elements. *)
LEMMA UptoSame ==
    ASSUME NEW q, NEW r, NEW k \in Nat, NEW S, \A i \in 1 .. k : q[i] = r[i]
    PROVE  Upto(q, k, S) = Upto(r, k, S)
<1>1. {i \in 1 .. k : q[i] \in S} = {i \in 1 .. k : r[i] \in S}
  OBVIOUS
<1> QED
  BY <1>1 DEF Upto

(* Nothing to count. *)
LEMMA UptoNone ==
    ASSUME NEW q, NEW k \in Nat, NEW S, \A i \in 1 .. k : q[i] \notin S
    PROVE  Upto(q, k, S) = 0
<1>1. {i \in 1 .. k : q[i] \in S} = {}
  OBVIOUS
<1> QED
  BY <1>1, FS_EmptySet DEF Upto

(* The elements behind the first d. *)
LEMMA UptoShift ==
    ASSUME NEW q, NEW r, NEW d \in Nat, NEW k \in Nat, NEW S,
           \A i \in 1 .. k : r[i] = q[i + d]
    PROVE  Upto(q, d + k, S) = Upto(q, d, S) + Upto(r, k, S)
<1> DEFINE A == {i \in 1 .. d : q[i] \in S}
           B == {i \in d + 1 .. d + k : q[i] \in S}
           C == {i \in 1 .. k : r[i] \in S}
           f == [i \in C |-> i + d]
<1>1. IsFiniteSet(A) /\ IsFiniteSet(C)
  BY UptoType
<1>2. f \in Bijection(C, B)
  <2>1. f \in [C -> B]
    OBVIOUS
  <2>2. \A i, j \in C : f[i] = f[j] => i = j
    OBVIOUS
  <2>3. \A j \in B : \E i \in C : f[i] = j
    <3> TAKE j \in B
    <3>1. j - d \in C /\ (j - d) + d = j
      OBVIOUS
    <3> QED
      BY <3>1
  <2> QED
    BY <2>1, <2>2, <2>3, Zenon DEF Bijection, Injection, Surjection, IsInjective
<1>3. IsFiniteSet(B) /\ Cardinality(B) = Cardinality(C)
  BY <1>1, <1>2, FS_Bijection DEF ExistsBijection
<1>4. {i \in 1 .. d + k : q[i] \in S} = A \cup B /\ A \cap B = {}
  OBVIOUS
<1>5. Cardinality(A \cup B) = Cardinality(A) + Cardinality(B)
  <2>1. Cardinality(A \cap B) = 0
    BY <1>4, FS_EmptySet
  <2>2. Cardinality(A) \in Nat /\ Cardinality(B) \in Nat
    BY <1>1, <1>3, FS_CardinalityType
  <2>3. Cardinality(A \cup B) = Cardinality(A) + Cardinality(B) - Cardinality(A \cap B)
    BY <1>1, <1>3, FS_Union
  <2> HIDE DEF A, B
  <2> QED
    BY <2>1, <2>2, <2>3
<1> QED
  BY <1>3, <1>4, <1>5 DEF Upto

(* The count of a whole sequence is a number. *)
LEMMA CountType ==
    ASSUME NEW T, NEW q \in Seq(T), NEW S
    PROVE  Count(q, S) \in Nat
<1>1. Len(q) \in Nat
  OBVIOUS
<1> QED
  BY <1>1, UptoType DEF Count

(* An empty sequence. *)
LEMMA CountEmpty == ASSUME NEW S PROVE Count(<<>>, S) = 0
  BY UptoNone DEF Count

(* Elements of another kind are not counted. *)
LEMMA CountNone ==
    ASSUME NEW T, NEW q \in Seq(T), NEW S, T \cap S = {}
    PROVE  /\ Count(q, S) = 0
           /\ \A k \in 0 .. Len(q) : Upto(q, k, S) = 0
<1>1. Len(q) \in Nat /\ \A i \in 1 .. Len(q) : q[i] \notin S
  OBVIOUS
<1>2. ASSUME NEW k \in 0 .. Len(q) PROVE Upto(q, k, S) = 0
  <2>1. k \in Nat /\ \A i \in 1 .. k : q[i] \notin S
    BY <1>1
  <2> QED
    BY <2>1, UptoNone
<1>3. Len(q) \in 0 .. Len(q)
  BY <1>1
<1> QED
  BY <1>2, <1>3 DEF Count

(* Counting after push_back. *)
LEMMA CountAppend ==
    ASSUME NEW T, NEW q \in Seq(T), NEW e \in T, NEW S
    PROVE  /\ Count(Append(q, e), S) = Count(q, S) + One(e, S)
           /\ \A k \in 0 .. Len(q) : Upto(Append(q, e), k, S) = Upto(q, k, S)
<1> DEFINE r == Append(q, e)
<1>1. /\ r \in Seq(T) /\ Len(q) \in Nat /\ Len(r) = Len(q) + 1 /\ r[Len(q) + 1] = e
      /\ \A i \in 1 .. Len(q) : r[i] = q[i]
  OBVIOUS
<1> HIDE DEF r
<1>2. ASSUME NEW k \in 0 .. Len(q) PROVE Upto(r, k, S) = Upto(q, k, S)
  <2>1. k \in Nat /\ \A i \in 1 .. k : r[i] = q[i]
    BY <1>1
  <2> QED
    BY <2>1, UptoSame
<1>3. Upto(r, Len(q) + 1, S) = Upto(r, Len(q), S) + One(e, S)
  BY <1>1, UptoNext
<1>4. Len(q) \in 0 .. Len(q)
  BY <1>1
<1> QED
  BY <1>1, <1>2, <1>3, <1>4 DEF Count, r

(* Counting after pop_front. *)
LEMMA CountTail ==
    ASSUME NEW T, NEW q \in Seq(T), q # <<>>, NEW S
    PROVE  /\ Count(q, S) = One(Head(q), S) + Count(Tail(q), S)
           /\ \A k \in 0 .. Len(Tail(q)) :
                 /\ k + 1 \in 0 .. Len(q)
                 /\ Upto(q, k + 1, S) = One(Head(q), S) + Upto(Tail(q), k, S)
<1> DEFINE r == Tail(q)
<1>1. /\ r \in Seq(T) /\ Len(q) \in Nat /\ Len(r) \in Nat /\ Len(q) = Len(r) + 1
      /\ Head(q) = q[1]
      /\ \A i \in 1 .. Len(r) : r[i] = q[i + 1]
  OBVIOUS
<1> HIDE DEF r
<1>2. Upto(q, 1, S) = One(Head(q), S)
  <2>1. Upto(q, 0 + 1, S) = Upto(q, 0, S) + One(q[0 + 1], S)
    BY UptoNext
  <2>2. Upto(q, 0, S) = 0
    BY UptoNone
  <2>3. One(q[1], S) \in Nat
    BY DEF One
  <2> QED
    BY <2>1, <2>2, <2>3, <1>1
<1>3. ASSUME NEW k \in 0 .. Len(r)
      PROVE  k + 1 \in 0 .. Len(q) /\ Upto(q, k + 1, S) = One(Head(q), S) + Upto(r, k, S)
  <2>1. k \in Nat /\ k + 1 \in 0 .. Len(q) /\ \A i \in 1 .. k : r[i] = q[i + 1]
    BY <1>1
  <2>2. Upto(q, 1 + k, S) = Upto(q, 1, S) + Upto(r, k, S)
    BY <2>1, UptoShift
  <2> QED
    BY <1>2, <2>1, <2>2
<1>4. Len(r) \in 0 .. Len(r)
  BY <1>1
<1> QED
  BY <1>1, <1>3, <1>4 DEF Count, r

(* What is left behind the i-th element. *)
LEMMA CountSuffix ==
    ASSUME NEW T, NEW q \in Seq(T), NEW i \in 1 .. Len(q), NEW S
    PROVE  /\ SubSeq(q, i + 1, Len(q)) \in Seq(T)
           /\ Count(SubSeq(q, i + 1, Len(q)), S) + One(q[i], S) <= Count(q, S)
<1> DEFINE r == SubSeq(q, i + 1, Len(q))
<1>1. /\ r \in Seq(T) /\ Len(q) \in Nat /\ i \in Nat /\ i - 1 \in Nat /\ Len(r) \in Nat
      /\ Len(r) = Len(q) - i
      /\ \A j \in 1 .. Len(r) : r[j] = q[j + i]
  BY SMTT(60)
<1> HIDE DEF r
<1>2. Upto(q, i + Len(r), S) = Upto(q, i, S) + Upto(r, Len(r), S)
  <2>1. PICK k \in Nat, d \in Nat : k = Len(r) /\ d = i
    BY <1>1
  <2>2. \A j \in 1 .. k : r[j] = q[j + d]
    BY <1>1, <2>1
  <2>3. Upto(q, d + k, S) = Upto(q, d, S) + Upto(r, k, S)
    BY <2>2, UptoShift
  <2> QED
    BY <2>1, <2>3
<1>3. Upto(q, (i - 1) + 1, S) = Upto(q, i - 1, S) + One(q[(i - 1) + 1], S)
  BY <1>1, UptoNext
<1>4. Upto(q, i - 1, S) \in Nat /\ Upto(r, Len(r), S) \in Nat /\ One(q[i], S) \in Nat
  BY <1>1, UptoType DEF One
<1>5. i + Len(r) = Len(q) /\ (i - 1) + 1 = i
  BY <1>1
<1>6. Upto(r, Len(r), S) + One(q[i], S) <= Upto(q, Len(q), S)
  BY <1>2, <1>3, <1>4, <1>5
<1> QED
  BY <1>1, <1>6 DEF Count, r

(* A sequence of one element. *)
LEMMA CountOne ==
    ASSUME NEW x, NEW S
    PROVE  Count(<<x>>, S) = One(x, S)
<1>1. Len(<<x>>) = 1 /\ <<x>>[0 + 1] = x
  OBVIOUS
<1>2. Upto(<<x>>, 0 + 1, S) = Upto(<<x>>, 0, S) + One(<<x>>[0 + 1], S)
  BY UptoNext
<1>3. Upto(<<x>>, 0, S) = 0
  BY UptoNone
<1>4. One(x, S) \in Nat
  BY DEF One
<1> QED
  BY <1>1, <1>2, <1>3, <1>4 DEF Count

(* One counts 0 or 1. *)
LEMMA OneType == ASSUME NEW x, NEW S PROVE One(x, S) \in Nat
  BY DEF One

-----------------------------------------------------------------------------
\* The loop that keeps the elements that are not in D, as far as the i-th one.
Keeping(q, D, g, i) ==
    IF i = 0 THEN <<>> ELSE IF q[i] \in D THEN g[i - 1] ELSE Append(g[i - 1], q[i])

(* There is a function that the loop computes, and so the recursive definition of it has  *)
(* the value it says: a least index where it fails cannot be.                             *)
LEMMA KeepingExists ==
    ASSUME NEW T, NEW q \in Seq(T), NEW D
    PROVE  \E g : g = [i \in 0 .. Len(q) |-> Keeping(q, D, g, i)]
<1> DEFINE Good(m) == \E g \in [0 .. m -> Seq(T)] : \A i \in 0 .. m : g[i] = Keeping(q, D, g, i)
           B == {m \in 0 .. Len(q) : ~Good(m)}
<1>0. Len(q) \in Nat
  OBVIOUS
<1>1. Good(0)
  <2> DEFINE g == [i \in 0 .. 0 |-> <<>>]
  <2>1. g \in [0 .. 0 -> Seq(T)]
    OBVIOUS
  <2>2. \A i \in 0 .. 0 : i = 0 /\ g[i] = <<>>
    OBVIOUS
  <2> HIDE DEF g
  <2>3. \A i \in 0 .. 0 : g[i] = Keeping(q, D, g, i)
    BY <2>2 DEF Keeping
  <2> QED
    BY <2>1, <2>3
<1>2. ASSUME NEW m \in 1 .. Len(q), Good(m - 1)
      PROVE  Good(m)
  <2>1. PICK g \in [0 .. m - 1 -> Seq(T)] : \A i \in 0 .. m - 1 : g[i] = Keeping(q, D, g, i)
    BY <1>2
  <2> DEFINE h == [i \in 0 .. m |-> IF i = m THEN Keeping(q, D, g, m) ELSE g[i]]
  <2>2. m - 1 \in 0 .. m - 1 /\ g[m - 1] \in Seq(T) /\ q[m] \in T
    BY <1>0
  <2>3. Keeping(q, D, g, m) \in Seq(T)
    BY <1>0, <2>2 DEF Keeping
  <2>4. /\ h \in [0 .. m -> Seq(T)] /\ h[m] = Keeping(q, D, g, m)
        /\ \A i \in 0 .. m - 1 : h[i] = g[i]
    BY <1>0, <2>3
  <2> HIDE DEF h
  <2>5. ASSUME NEW i \in 0 .. m PROVE h[i] = Keeping(q, D, h, i)
    <3>1. i = 0 \/ (i - 1 \in 0 .. m - 1 /\ h[i - 1] = g[i - 1])
      BY <1>0, <2>4
    <3>2. Keeping(q, D, h, i) = Keeping(q, D, g, i)
      BY <3>1 DEF Keeping
    <3>3. CASE i = m
      BY <3>2, <3>3, <2>4
    <3>4. CASE i # m
      <4>1. i \in 0 .. m - 1
        BY <1>0, <3>4
      <4> QED
        BY <4>1, <3>2, <2>1, <2>4
    <3> QED
      BY <3>3, <3>4
  <2> QED
    BY <2>4, <2>5
<1>3. B = {}
  <2> SUFFICES ASSUME B # {} PROVE FALSE
    OBVIOUS
  <2>1. B \in SUBSET Nat
    BY <1>0
  <2>2. PICK m \in B : \A x \in B : m <= x
    BY <2>1, Least
  <2>3. m \in 0 .. Len(q) /\ ~Good(m)
    OBVIOUS
  <2>4. m # 0
    BY <2>3, <1>1
  <2> HIDE DEF Good
  <2>5. m \in 1 .. Len(q) /\ m - 1 \in 0 .. Len(q) /\ ~(m <= m - 1)
    BY <1>0, <2>3, <2>4
  <2>6. Good(m - 1)
    BY <2>2, <2>5
  <2> QED
    BY <1>2, <2>3, <2>5, <2>6
<1>4. Good(Len(q))
  <2> HIDE DEF Good
  <2> QED
    BY <1>0, <1>3
<1>5. PICK g \in [0 .. Len(q) -> Seq(T)] : \A i \in 0 .. Len(q) : g[i] = Keeping(q, D, g, i)
  BY <1>4
<1>6. g = [i \in 0 .. Len(q) |-> Keeping(q, D, g, i)]
  BY <1>5
<1> QED
  BY <1>6

(* What the loop keeps are elements of the queue, and no more of any kind than were there. *)
LEMMA KeepingKeeps ==
    ASSUME NEW T, NEW q \in Seq(T), NEW D, NEW S,
           NEW g, g = [i \in 0 .. Len(q) |-> Keeping(q, D, g, i)]
    PROVE  g[Len(q)] \in Seq(T) /\ Count(g[Len(q)], S) <= Count(q, S)
<1> DEFINE Good(m) == g[m] \in Seq(T) /\ Count(g[m], S) <= Upto(q, m, S)
           B == {m \in 0 .. Len(q) : ~Good(m)}
<1>0. Len(q) \in Nat /\ \A i \in 0 .. Len(q) : g[i] = Keeping(q, D, g, i)
  <2>1. Len(q) \in Nat
    OBVIOUS
  <2>2. \A i \in 0 .. Len(q) : [j \in 0 .. Len(q) |-> Keeping(q, D, g, j)][i] = Keeping(q, D, g, i)
    OBVIOUS
  <2> QED
    BY <2>1, <2>2
<1>1. Good(0)
  <2>1. g[0] = <<>>
    BY <1>0 DEF Keeping
  <2>2. Count(<<>>, S) = 0 /\ Upto(q, 0, S) = 0
    BY CountEmpty, UptoNone
  <2> QED
    BY <2>1, <2>2
<1>2. ASSUME NEW m \in 1 .. Len(q), Good(m - 1)
      PROVE  Good(m)
  <2>1. m - 1 \in Nat /\ m \in 0 .. Len(q) /\ m # 0 /\ (m - 1) + 1 = m /\ q[m] \in T
    BY <1>0
  <2>2. Upto(q, m, S) = Upto(q, m - 1, S) + One(q[m], S)
    <3>1. Upto(q, (m - 1) + 1, S) = Upto(q, m - 1, S) + One(q[(m - 1) + 1], S)
      BY <2>1, UptoNext
    <3> QED
      BY <3>1, <2>1
  <2>3. Upto(q, m - 1, S) \in Nat /\ One(q[m], S) \in Nat
    BY <2>1, UptoType DEF One
  <2>4. PICK r \in Seq(T) : r = g[m - 1]
    BY <1>2
  <2>5. Count(r, S) \in Nat /\ Count(r, S) <= Upto(q, m - 1, S)
    BY <1>2, <2>4, CountType
  <2>6. CASE q[m] \in D
    <3>1. g[m] = r
      BY <1>0, <2>1, <2>4, <2>6 DEF Keeping
    <3> QED
      BY <3>1, <2>2, <2>3, <2>5
  <2>7. CASE q[m] \notin D
    <3>1. g[m] = Append(r, q[m])
      BY <1>0, <2>1, <2>4, <2>7 DEF Keeping
    <3>2. Count(Append(r, q[m]), S) = Count(r, S) + One(q[m], S)
      BY <2>1, CountAppend
    <3>3. Append(r, q[m]) \in Seq(T)
      BY <2>1
    <3>4. Count(Append(r, q[m]), S) <= Upto(q, m, S)
      BY <3>2, <2>2, <2>3, <2>5
    <3> QED
      BY <3>1, <3>3, <3>4
  <2> QED
    BY <2>6, <2>7
<1>3. B = {}
  <2> SUFFICES ASSUME B # {} PROVE FALSE
    OBVIOUS
  <2>1. B \in SUBSET Nat
    BY <1>0
  <2>2. PICK m \in B : \A x \in B : m <= x
    BY <2>1, Least
  <2>3. m \in 0 .. Len(q) /\ ~Good(m)
    OBVIOUS
  <2>4. m # 0
    BY <2>3, <1>1
  <2> HIDE DEF Good
  <2>5. m \in 1 .. Len(q) /\ m - 1 \in 0 .. Len(q) /\ ~(m <= m - 1)
    BY <1>0, <2>3, <2>4
  <2>6. Good(m - 1)
    BY <2>2, <2>5
  <2> QED
    BY <1>2, <2>3, <2>5, <2>6
<1>4. Good(Len(q))
  <2> HIDE DEF Good
  <2> QED
    BY <1>0, <1>3
<1> QED
  BY <1>4 DEF Count

-----------------------------------------------------------------------------
(* What the loop keeps stays in order. *)
LEMMA KeepingOrdered ==
    ASSUME NEW T, NEW q \in Seq(T), NEW D, NEW R, Ordered(q, R),
           NEW g, g = [i \in 0 .. Len(q) |-> Keeping(q, D, g, i)]
    PROVE  /\ g[Len(q)] \in Seq(T) /\ Ordered(g[Len(q)], R)
           /\ Range(g[Len(q)]) \subseteq Range(q)
<1> DEFINE Seen(r, m) == \A x \in Range(r) : \E i \in 1 .. m : x = q[i]
           Good(m) == g[m] \in Seq(T) /\ Ordered(g[m], R) /\ Seen(g[m], m)
           B == {m \in 0 .. Len(q) : ~Good(m)}
<1>0. Len(q) \in Nat /\ \A i \in 0 .. Len(q) : g[i] = Keeping(q, D, g, i)
  <2>1. Len(q) \in Nat
    OBVIOUS
  <2>2. \A i \in 0 .. Len(q) : [j \in 0 .. Len(q) |-> Keeping(q, D, g, j)][i] = Keeping(q, D, g, i)
    OBVIOUS
  <2> QED
    BY <2>1, <2>2
<1>1. Good(0)
  <2>1. g[0] = <<>>
    BY <1>0 DEF Keeping
  <2>2. <<>> \in Seq(T) /\ Ordered(<<>>, R) /\ Range(<<>>) = {}
    BY DEF Ordered, Range
  <2> QED
    BY <2>1, <2>2
<1>2. ASSUME NEW m \in 1 .. Len(q), Good(m - 1)
      PROVE  Good(m)
  <2>1. m - 1 \in Nat /\ m \in 0 .. Len(q) /\ m # 0 /\ q[m] \in T
    BY <1>0
  <2>2. PICK r \in Seq(T) : r = g[m - 1]
    BY <1>2
  <2>3. Ordered(r, R) /\ Seen(r, m - 1)
    BY <1>2, <2>2
  <2>4. Seen(r, m)
    BY <2>3
  <2>5. CASE q[m] \in D
    <3>1. g[m] = r
      BY <1>0, <2>1, <2>2, <2>5 DEF Keeping
    <3> QED
      BY <3>1, <2>3, <2>4
  <2>6. CASE q[m] \notin D
    <3>1. g[m] = Append(r, q[m])
      BY <1>0, <2>1, <2>2, <2>6 DEF Keeping
    <3>2. ASSUME NEW x \in Range(r) PROVE <<x, q[m]>> \in R
      <4>1. PICK i \in 1 .. m - 1 : x = q[i]
        BY <2>3
      <4>2. i \in DOMAIN q /\ m \in DOMAIN q /\ i < m
        BY <1>0
      <4> QED
        BY <4>1, <4>2 DEF Ordered
    <3>3. Ordered(Append(r, q[m]), R)
      BY <2>1, <2>3, <3>2, AppendOrdered
    <3>4. Append(r, q[m]) \in Seq(T) /\ Range(Append(r, q[m])) = Range(r) \cup {q[m]}
      BY <2>1, AppendElems
    <3>5. Seen(Append(r, q[m]), m)
      BY <2>4, <3>4
    <3> QED
      BY <3>1, <3>3, <3>4, <3>5
  <2> QED
    BY <2>5, <2>6
<1>3. B = {}
  <2> SUFFICES ASSUME B # {} PROVE FALSE
    OBVIOUS
  <2>1. B \in SUBSET Nat
    BY <1>0
  <2>2. PICK m \in B : \A x \in B : m <= x
    BY <2>1, Least
  <2>3. m \in 0 .. Len(q) /\ ~Good(m)
    OBVIOUS
  <2>4. m # 0
    BY <2>3, <1>1
  <2> HIDE DEF Good
  <2>5. m \in 1 .. Len(q) /\ m - 1 \in 0 .. Len(q) /\ ~(m <= m - 1)
    BY <1>0, <2>3, <2>4
  <2>6. Good(m - 1)
    BY <2>2, <2>5
  <2> QED
    BY <1>2, <2>3, <2>5, <2>6
<1>4. Good(Len(q))
  <2> HIDE DEF Good
  <2> QED
    BY <1>0, <1>3
<1>5. Range(g[Len(q)]) \subseteq Range(q)
  BY <1>0, <1>4 DEF Range
<1> QED
  BY <1>4, <1>5

(* What lies behind the i-th element. *)
LEMMA SuffixAt ==
    ASSUME NEW S, NEW s \in Seq(S), NEW i \in 1 .. Len(s), NEW r, r = SubSeq(s, i + 1, Len(s))
    PROVE  /\ r \in Seq(S) /\ Len(r) = Len(s) - i /\ Len(s) \in Nat
           /\ DOMAIN s = 1 .. Len(s) /\ DOMAIN r = 1 .. Len(r)
           /\ \A j \in 1 .. Len(r) : r[j] = s[j + i]
  OBVIOUS

(* The part behind the i-th element. *)
LEMMA SuffixOrdered ==
    ASSUME NEW S, NEW R, NEW s \in Seq(S), Ordered(s, R), NEW i \in DOMAIN s,
           NEW r, r = SubSeq(s, i + 1, Len(s)), NEW e, e = s[i]
    PROVE  /\ r \in Seq(S) /\ Ordered(r, R) /\ Range(r) \subseteq Range(s)
           /\ e \in Range(s) /\ \A x \in Range(r) : <<e, x>> \in R
<1>0. i \in 1 .. Len(s)
  OBVIOUS
<1>1. /\ r \in Seq(S) /\ Len(r) = Len(s) - i /\ Len(s) \in Nat
      /\ DOMAIN s = 1 .. Len(s) /\ DOMAIN r = 1 .. Len(r)
      /\ \A j \in 1 .. Len(r) : r[j] = s[j + i]
  BY <1>0, SMTT(60)
<1>2. ASSUME NEW j \in DOMAIN r
      PROVE  j + i \in DOMAIN s /\ r[j] = s[j + i] /\ i < j + i /\ j \in Int
  <2>1. PICK n \in Nat : n = Len(s)
    BY <1>1
  <2>2. Len(r) = n - i /\ i \in 1 .. n
    BY <1>0, <1>1, <2>1
  <2>3. j \in 1 .. n - i
    BY <1>1, <2>2
  <2>4. j + i \in 1 .. n /\ i < j + i /\ j \in Int
    BY <2>1, <2>2, <2>3
  <2>5. r[j] = s[j + i]
    BY <1>1
  <2> QED
    BY <1>1, <2>1, <2>4, <2>5
<1>3. Ordered(r, R)
  <2> SUFFICES ASSUME NEW j \in DOMAIN r, NEW k \in DOMAIN r, j < k PROVE <<r[j], r[k]>> \in R
    BY DEF Ordered
  <2>1. j + i < k + i
    BY <1>2
  <2> QED
    BY <1>2, <2>1 DEF Ordered
<1>4. Range(r) \subseteq Range(s)
  BY <1>2 DEF Range
<1>5. s[i] \in Range(s) /\ i \in DOMAIN s
  BY <1>1 DEF Range
<1>6. ASSUME NEW x \in Range(r) PROVE <<s[i], x>> \in R
  <2>1. PICK j \in DOMAIN r : x = r[j]
    BY DEF Range
  <2> QED
    BY <2>1, <1>2, <1>5 DEF Ordered
<1> QED
  BY <1>1, <1>3, <1>4, <1>5, <1>6

(* When nothing of a kind is counted, nothing of that kind is there. *)
LEMMA CountedNone ==
    ASSUME NEW T, NEW q \in Seq(T), NEW S, Count(q, S) = 0
    PROVE  \A i \in DOMAIN q : q[i] \notin S
<1> DEFINE I == {i \in 1 .. Len(q) : q[i] \in S}
<1>1. Len(q) \in Nat /\ DOMAIN q = 1 .. Len(q)
  OBVIOUS
<1>2. IsFiniteSet(I) /\ Cardinality(I) = 0
  BY <1>1, UptoType DEF Count, Upto
<1>3. I = {}
  BY <1>2, FS_EmptySet
<1> QED
  BY <1>1, <1>3

(* The front and the back of a sequence that grows or shrinks by one. *)
LEMMA TailAt ==
    ASSUME NEW S, NEW s \in Seq(S), s # <<>>, NEW r, r = Tail(s)
    PROVE  /\ r \in Seq(S) /\ Len(r) = Len(s) - 1
           /\ \A i \in 1 .. Len(s) - 1 : r[i] = s[i + 1]
  OBVIOUS

LEMMA AppendAt ==
    ASSUME NEW S, NEW s \in Seq(S), NEW e \in S, NEW r, r = Append(s, e)
    PROVE  /\ r \in Seq(S) /\ Len(r) = Len(s) + 1
           /\ \A i \in 1 .. Len(s) : r[i] = s[i]
           /\ r[Len(s) + 1] = e
  OBVIOUS

(* Short sequences. *)
LEMMA Short ==
    /\ \A x : Append(<<>>, x) = <<x>> /\ Head(<<x>>) = x /\ Tail(<<x>>) = <<>> /\ <<x>> # <<>>
    /\ \A x, y : Append(<<x>>, y) = <<x, y>> /\ Head(<<x, y>>) = x /\ Tail(<<x, y>>) = <<y>>
                /\ <<x, y>> # <<>>
    /\ \A x, y, z : Head(<<x, y, z>>) = x /\ Tail(<<x, y, z>>) = <<y, z>> /\ <<x, y, z>> # <<>>
                    /\ Append(<<x, y>>, z) = <<x, y, z>>
<1>1. ASSUME NEW x
      PROVE  Append(<<>>, x) = <<x>> /\ Head(<<x>>) = x /\ Tail(<<x>>) = <<>> /\ <<x>> # <<>>
  <2>1. PICK s : s = Append(<<>>, x)
    OBVIOUS
  <2>2. s \in Seq({x}) /\ Len(s) = 1 /\ s[1] = x
    BY <2>1
  <2>3. PICK t : t = <<x>>
    OBVIOUS
  <2>4. t \in Seq({x}) /\ Len(t) = 1 /\ t[1] = x
    BY <2>3
  <2>5. s = t
    BY <2>2, <2>4, SeqEqual
  <2> QED
    BY <2>1, <2>3, <2>5
<1>2. ASSUME NEW x, NEW y
      PROVE  Append(<<x>>, y) = <<x, y>> /\ Head(<<x, y>>) = x /\ Tail(<<x, y>>) = <<y>>
             /\ <<x, y>> # <<>>
  <2>1. PICK s : s = Append(<<x>>, y)
    OBVIOUS
  <2>2. s \in Seq({x, y}) /\ Len(s) = 2 /\ s[1] = x /\ s[2] = y
    BY <2>1
  <2>3. PICK t : t = <<x, y>>
    OBVIOUS
  <2>4. t \in Seq({x, y}) /\ Len(t) = 2 /\ t[1] = x /\ t[2] = y
    BY <2>3
  <2>5. s = t
    BY <2>2, <2>4, SeqEqual
  <2> QED
    BY <2>1, <2>3, <2>5, TailOfTwo
<1>3. ASSUME NEW x, NEW y, NEW z
      PROVE  Head(<<x, y, z>>) = x /\ Tail(<<x, y, z>>) = <<y, z>> /\ <<x, y, z>> # <<>>
             /\ Append(<<x, y>>, z) = <<x, y, z>>
  <2>0. PICK S : x \in S /\ y \in S /\ z \in S
    <3>1. x \in {x, y, z} /\ y \in {x, y, z} /\ z \in {x, y, z}
      OBVIOUS
    <3> QED
      BY <3>1
  <2>1. PICK s : s = <<x, y, z>>
    OBVIOUS
  <2>2. s \in Seq(S) /\ Len(s) = 3 /\ s[1] = x /\ s[2] = y /\ s[3] = z
    BY <2>0, <2>1
  <2>3. PICK t : t = <<y, z>>
    OBVIOUS
  <2>4. t \in Seq(S) /\ Len(t) = 2 /\ t[1] = y /\ t[2] = z
    BY <2>0, <2>3
  <2>5. PICK r : r = Tail(s)
    OBVIOUS
  <2>6. r \in Seq(S) /\ Len(r) = 2 /\ r[1] = y /\ r[2] = z
    <3>0. s # <<>>
      BY <2>2, SMTT(60)
    <3>1. /\ r \in Seq(S) /\ Len(r) = Len(s) - 1
          /\ \A i \in 1 .. Len(s) - 1 : r[i] = s[i + 1]
      BY <2>2, <2>5, <3>0, TailAt
    <3> HIDE <2>1, <2>3, <2>5
    <3>2. Len(s) - 1 = 2 /\ 1 \in 1 .. 2 /\ 2 \in 1 .. 2
      BY <2>2
    <3>3. r[1] = s[1 + 1] /\ r[2] = s[2 + 1]
      BY <3>1, <3>2
    <3>4. r[1] = s[2] /\ r[2] = s[3]
      BY <3>3
    <3>5. r[1] = y /\ r[2] = z
      BY <2>2, <3>4
    <3> QED
      BY <3>1, <3>2, <3>5
  <2>7. r = t
    BY <2>4, <2>6, SeqEqual
  <2>8. PICK a : a = <<x, y>>
    OBVIOUS
  <2>9. a \in Seq(S) /\ Len(a) = 2 /\ a[1] = x /\ a[2] = y
    BY <2>0, <2>8
  <2>10. PICK b : b = Append(a, z)
    OBVIOUS
  <2>11. b \in Seq(S) /\ Len(b) = 3 /\ b[1] = x /\ b[2] = y /\ b[3] = z
    <3>1. /\ b \in Seq(S) /\ Len(b) = Len(a) + 1
          /\ \A i \in 1 .. Len(a) : b[i] = a[i]
          /\ b[Len(a) + 1] = z
      BY <2>0, <2>9, <2>10, AppendAt
    <3>2. Len(b) = 3 /\ 1 \in 1 .. Len(a) /\ 2 \in 1 .. Len(a)
      BY <2>9, <3>1
    <3>3. b[1] = x /\ b[2] = y
      BY <2>9, <3>1, <3>2
    <3>4. b[3] = z
      BY <2>9, <3>1
    <3> QED
      BY <3>1, <3>2, <3>3, <3>4
  <2>12. b = s
    BY <2>2, <2>11, SeqEqual
  <2> QED
    <3>1. Head(s) = x /\ s # <<>>
      BY <2>2, SMTT(60)
    <3> QED
      BY <2>1, <2>3, <2>5, <2>7, <2>8, <2>10, <2>12, <3>1
<1> QED
  BY <1>1, <1>2, <1>3

LEMMA Joined ==
    ASSUME NEW x, NEW y, NEW z
    PROVE  /\ <<>> \o <<>> = <<>> /\ <<x>> \o <<>> = <<x>> /\ <<>> \o <<x>> = <<x>>
           /\ <<x>> \o <<y>> = <<x, y>> /\ <<x, y>> \o <<>> = <<x, y>>
           /\ <<x, y>> \o <<z>> = <<x, y, z>> /\ <<x, y, z>> \o <<>> = <<x, y, z>>
<1>1. /\ <<>> \in Seq({x, y, z}) /\ <<x>> \in Seq({x, y, z}) /\ <<x, y>> \in Seq({x, y, z})
      /\ <<x, y, z>> \in Seq({x, y, z})
  OBVIOUS
<1>2. PICK a, b, c : a = <<x>> /\ b = <<y>> /\ c = <<z>>
  OBVIOUS
<1>3. PICK d : d = <<x, y>>
  OBVIOUS
<1>4. /\ a \in Seq({x, y, z}) /\ b \in Seq({x, y, z}) /\ c \in Seq({x, y, z}) /\ d \in Seq({x, y, z})
      /\ Len(b) = 1 /\ Len(c) = 1 /\ b[1] = y /\ c[1] = z
  BY <1>2, <1>3
<1>5. a \o b = Append(a, b[1]) /\ d \o c = Append(d, c[1])
  BY <1>4, SingleEnd
<1>6. <<x>> \o <<y>> = <<x, y>> /\ <<x, y>> \o <<z>> = <<x, y, z>>
  <2>1. <<x>> \o <<y>> = Append(<<x>>, y) /\ <<x, y>> \o <<z>> = Append(<<x, y>>, z)
    BY <1>2, <1>3, <1>4, <1>5, Zenon
  <2>2. Append(<<x>>, y) = <<x, y>> /\ Append(<<x, y>>, z) = <<x, y, z>>
    BY Short
  <2> QED
    BY <2>1, <2>2, Zenon
<1>7. /\ <<>> \o <<>> = <<>> /\ <<x>> \o <<>> = <<x>> /\ <<>> \o <<x>> = <<x>>
      /\ <<x, y>> \o <<>> = <<x, y>>
  BY <1>1, ConcatEmptySeq
<1>8. <<x, y, z>> \o <<>> = <<x, y, z>>
  <2>1. PICK s : s = <<x, y, z>>
    OBVIOUS
  <2>2. s \in Seq({x, y, z})
    BY <2>1
  <2>3. s \o <<>> = s
    BY <2>2, ConcatEmptySeq
  <2> QED
    BY <2>1, <2>3
<1> QED
  BY <1>6, <1>7, <1>8
=============================================================================
