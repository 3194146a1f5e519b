---------------------------- MODULE Lists_proofs ----------------------------
(***************************************************************************)
(* What the proofs of all components need to know of sequences, induction  *)
(* over the naturals without a predicate as a parameter, and functions     *)
(* that are defined by recursion: what Lists defines, for every list.      *)
(***************************************************************************)
EXTENDS Lists, WellFoundedInduction, TLAPS

Unique(list) == \A i, j \in DOMAIN list : list[i] = list[j] => i = j

-----------------------------------------------------------------------------
(* Sequences                                                                *)

LEMMA RangeType == ASSUME NEW S, NEW list \in Seq(S)
                   PROVE  Range(list) \subseteq S
  BY DEF Range

LEMMA RangeAppend == ASSUME NEW S, NEW list \in Seq(S), NEW x \in S
                     PROVE  /\ Append(list, x) \in Seq(S)
                            /\ Range(Append(list, x)) = Range(list) \cup {x}
  <1>1. \A i \in 1..Len(list) : Append(list, x)[i] = list[i]
    OBVIOUS
  <1>2. Append(list, x)[Len(list) + 1] = x
    OBVIOUS
  <1>3. DOMAIN Append(list, x) = 1..(Len(list) + 1) /\ DOMAIN list = 1..Len(list)
    OBVIOUS
  <1>4. Len(list) \in Nat
    OBVIOUS
  <1> QED  BY <1>1, <1>2, <1>3, <1>4 DEF Range

LEMMA RangeTail == ASSUME NEW S, NEW list \in Seq(S), list # <<>>
                   PROVE  /\ Tail(list) \in Seq(S)
                          /\ Range(Tail(list)) \subseteq Range(list)
                          /\ Head(list) \in Range(list)
  BY DEF Range

LEMMA RangeConcat == ASSUME NEW S, NEW a \in Seq(S), NEW b \in Seq(S)
                     PROVE  /\ a \o b \in Seq(S)
                            /\ Range(a \o b) \subseteq Range(a) \cup Range(b)
  BY DEF Range

LEMMA RangeRemoveAt == ASSUME NEW S, NEW list \in Seq(S), NEW i \in DOMAIN list
                       PROVE  /\ RemoveAt(list, i) \in Seq(S)
                              /\ Range(RemoveAt(list, i)) \subseteq Range(list)
  <1>1. i \in 1..Len(list) /\ Len(list) \in Nat
    OBVIOUS
  <1>2. /\ SubSeq(list, 1, i - 1) \in Seq(S)
        /\ SubSeq(list, i + 1, Len(list)) \in Seq(S)
    BY <1>1
  <1>3. /\ Range(SubSeq(list, 1, i - 1)) \subseteq Range(list)
        /\ Range(SubSeq(list, i + 1, Len(list))) \subseteq Range(list)
    BY SMTT(30), <1>1 DEF Range
  <1>4. ASSUME NEW front \in Seq(S), NEW rest \in Seq(S),
               Range(front) \subseteq Range(list),
               Range(rest) \subseteq Range(list)
        PROVE  /\ front \o rest \in Seq(S)
               /\ Range(front \o rest) \subseteq Range(list)
    BY <1>4, RangeConcat
  <1> QED  BY <1>2, <1>3, <1>4 DEF RemoveAt

LEMMA RangeSubSeq ==
    ASSUME NEW S, NEW list \in Seq(S), NEW m \in Nat \ {0},
           NEW n \in 0..Len(list)
    PROVE  /\ SubSeq(list, m, n) \in Seq(S)
           /\ Range(SubSeq(list, m, n)) \subseteq Range(list)
  <1>1. SubSeq(list, m, n) \in Seq(S)
    OBVIOUS
  <1>2. Len(SubSeq(list, m, n)) = IF m <= n THEN n - m + 1 ELSE 0
    OBVIOUS
  <1>3. ASSUME NEW k \in 1..Len(SubSeq(list, m, n))
        PROVE  SubSeq(list, m, n)[k] \in Range(list)
    <2>1. k + m - 1 \in DOMAIN list /\ SubSeq(list, m, n)[k] = list[k + m - 1]
      BY <1>2
    <2> QED  BY <2>1 DEF Range
  <1> QED  BY <1>1, <1>3 DEF Range

LEMMA SecondOfTail ==
    ASSUME NEW S, NEW list \in Seq(S), Len(list) > 1
    PROVE  /\ Tail(list) \in Seq(S) /\ Tail(list) # <<>>
           /\ Head(Tail(list)) = list[2] /\ list[2] \in S
  OBVIOUS

LEMMA UniqueTail ==
    ASSUME NEW S, NEW list \in Seq(S), Unique(list), list # <<>>
    PROVE  Unique(Tail(list)) /\ Head(list) \notin Range(Tail(list))
  BY DEF Unique, Range

LEMMA UniqueAppend ==
    ASSUME NEW S, NEW list \in Seq(S), Unique(list),
           NEW x \in S, x \notin Range(list)
    PROVE  Unique(Append(list, x))
  BY DEF Unique, Range

LEMMA Joined ==
    ASSUME NEW S, NEW a \in Seq(S), NEW b \in Seq(S)
    PROVE  /\ a \o b \in Seq(S) /\ DOMAIN (a \o b) = 1..Len(a) + Len(b)
           /\ \A k \in 1..Len(a) : (a \o b)[k] = a[k]
           /\ \A k \in 1..Len(b) : (a \o b)[Len(a) + k] = b[k]
  OBVIOUS

LEMMA LengthOf ==
    ASSUME NEW S, NEW list \in Seq(S), NEW k \in Nat, DOMAIN list = 1..k
    PROVE  Len(list) = k
  OBVIOUS

LEMMA JoinedOne ==
    ASSUME NEW S, NEW a \in Seq(S), NEW b \in Seq(S)
    PROVE  Len(b) = 1 =>
              /\ Len(a) \in Nat /\ a \o b \in Seq(S) /\ Len(a \o b) = Len(a) + 1
              /\ (a \o b)[Len(a) + 1] = b[1]
              /\ \A i \in 1..Len(a) : (a \o b)[i] = a[i]
  <1>1. /\ a \o b \in Seq(S) /\ DOMAIN (a \o b) = 1..Len(a) + Len(b)
        /\ \A k \in 1..Len(a) : (a \o b)[k] = a[k]
        /\ \A k \in 1..Len(b) : (a \o b)[Len(a) + k] = b[k]
    BY Joined
  <1>2. Len(a) \in Nat /\ Len(b) \in Nat
    OBVIOUS
  <1> DEFINE both == a \o b
  <1>3. Len(both) = Len(a) + Len(b)
    BY <1>1, <1>2, LengthOf
  <1> HIDE DEF both
  <1>4. \A k \in 1..Len(b) : both[Len(a) + k] = b[k]
    BY <1>1 DEF both
  <1>5. Len(b) = 1 => both[Len(a) + 1] = b[1]
    BY <1>2, <1>4
  <1> QED  BY <1>1, <1>2, <1>3, <1>5 DEF both

LEMMA JoinedAt ==
    ASSUME NEW S, NEW a \in Seq(S), NEW b \in Seq(S), NEW j \in 1..Len(a) + Len(b)
    PROVE  /\ j <= Len(a) => j \in 1..Len(a) /\ (a \o b)[j] = a[j]
           /\ j > Len(a) => j - Len(a) \in 1..Len(b) /\ (a \o b)[j] = b[j - Len(a)]
  <1>1. Len(a) \in Nat /\ Len(b) \in Nat
    OBVIOUS
  <1>2. j <= Len(a) => j \in 1..Len(a) /\ (a \o b)[j] = a[j]
    BY <1>1, Joined
  <1>3. ASSUME j > Len(a)
        PROVE  j - Len(a) \in 1..Len(b) /\ (a \o b)[j] = b[j - Len(a)]
    <2>1. j - Len(a) \in 1..Len(b) /\ Len(a) + (j - Len(a)) = j
      BY <1>1, <1>3
    <2> QED  BY <2>1, Joined
  <1> QED  BY <1>2, <1>3

LEMMA RemovedAt ==
    ASSUME NEW S, NEW list \in Seq(S), NEW i \in DOMAIN list
    PROVE  /\ DOMAIN RemoveAt(list, i) = 1 .. Len(list) - 1
           /\ \A j \in 1 .. Len(list) - 1 :
                 RemoveAt(list, i)[j] = IF j < i THEN list[j] ELSE list[j + 1]
  <1>1. i \in 1..Len(list) /\ Len(list) \in Nat
    OBVIOUS
  <1>2. /\ DOMAIN RemoveAt(list, i) = 1 .. Len(list) - 1
        /\ \A j \in 1 .. Len(list) - 1 :
              RemoveAt(list, i)[j] = IF j < i THEN list[j] ELSE list[j + 1]
    <2> DEFINE front == SubSeq(list, 1, i - 1)
               rest == SubSeq(list, i + 1, Len(list))
    <2>1. /\ front \in Seq(S) /\ Len(front) = i - 1
          /\ \A j \in 1 .. i - 1 : front[j] = list[j]
      BY <1>1
    <2>2. /\ rest \in Seq(S) /\ Len(rest) = Len(list) - i
          /\ \A j \in 1 .. Len(list) - i : rest[j] = list[j + i]
      BY <1>1
    <2>3. RemoveAt(list, i) = front \o rest
      BY DEF RemoveAt
    <2> HIDE DEF front, rest
    <2>4. /\ DOMAIN (front \o rest) = 1 .. Len(list) - 1
          /\ \A j \in 1 .. Len(list) - 1 :
                (front \o rest)[j] = IF j < i THEN front[j] ELSE rest[j - (i - 1)]
      <3>1. DOMAIN (front \o rest) = 1..Len(list) - 1
        BY <1>1, <2>1, <2>2, Joined
      <3> SUFFICES ASSUME NEW j \in 1..Len(list) - 1
                   PROVE  (front \o rest)[j] = IF j < i THEN front[j] ELSE rest[j - (i - 1)]
        BY <3>1
      <3>2. j \in 1..Len(front) + Len(rest) /\ (j <= Len(front) <=> j < i) /\ (j > Len(front) <=> ~(j < i))
        BY <1>1, <2>1, <2>2
      <3>3. j - Len(front) = j - (i - 1)
        BY <2>1
      <3> QED  BY <2>1, <2>2, <3>2, <3>3, JoinedAt
    <2>5. ASSUME NEW j \in 1 .. Len(list) - 1
          PROVE  (front \o rest)[j] = IF j < i THEN list[j] ELSE list[j + 1]
      <3>1. CASE j < i
        <4>1. j \in 1 .. i - 1
          BY <1>1, <3>1
        <4> QED  BY <2>1, <2>4, <3>1, <4>1
      <3>2. CASE ~(j < i)
        <4>1. j - (i - 1) \in 1 .. Len(list) - i /\ j - (i - 1) + i = j + 1
          BY <1>1, <3>2
        <4>2. rest[j - (i - 1)] = list[j + 1]
          BY <2>2, <4>1
        <4> QED  BY <2>4, <3>2, <4>2
      <3> QED  BY <3>1, <3>2
    <2> QED  BY <2>3, <2>4, <2>5
  <1> QED  BY <1>2

LEMMA UniqueRemoveAt ==
    ASSUME NEW S, NEW list \in Seq(S), Unique(list), NEW i \in DOMAIN list
    PROVE  /\ Unique(RemoveAt(list, i))
           /\ list[i] \notin Range(RemoveAt(list, i))
  <1>1. i \in 1..Len(list) /\ Len(list) \in Nat
    OBVIOUS
  <1>2. /\ DOMAIN RemoveAt(list, i) = 1 .. Len(list) - 1
        /\ \A j \in 1 .. Len(list) - 1 :
              RemoveAt(list, i)[j] = IF j < i THEN list[j] ELSE list[j + 1]
    BY RemovedAt
  <1>3. \A j \in 1 .. Len(list) - 1 : j \in DOMAIN list /\ j + 1 \in DOMAIN list
    BY <1>1
  <1>4. ASSUME NEW j \in DOMAIN RemoveAt(list, i),
               RemoveAt(list, i)[j] = list[i]
        PROVE  FALSE
    BY <1>1, <1>2, <1>3, <1>4 DEF Unique
  <1>5. ASSUME NEW j \in DOMAIN RemoveAt(list, i),
               NEW k \in DOMAIN RemoveAt(list, i),
               RemoveAt(list, i)[j] = RemoveAt(list, i)[k]
        PROVE  j = k
    BY <1>1, <1>2, <1>3, <1>5 DEF Unique
  <1> QED  BY <1>4, <1>5 DEF Unique, Range

LEMMA InsertedAt ==
    ASSUME NEW S, NEW list \in Seq(S), NEW x \in S, NEW i \in 1..Len(list) + 1
    PROVE  /\ InsertAt(list, i, x) \in Seq(S)
           /\ DOMAIN InsertAt(list, i, x) = 1..Len(list) + 1
           /\ \A j \in 1..Len(list) + 1 :
                 InsertAt(list, i, x)[j] = IF j < i THEN list[j] ELSE IF j = i THEN x ELSE list[j - 1]
  <1>1. i \in Nat /\ Len(list) \in Nat /\ 1 <= i /\ i <= Len(list) + 1
    OBVIOUS
  <1> DEFINE front == SubSeq(list, 1, i - 1)
             rest == SubSeq(list, i, Len(list))
             head == front \o <<x>>
  <1>2. /\ front \in Seq(S) /\ Len(front) = i - 1
        /\ \A j \in 1..i - 1 : front[j] = list[j]
    BY <1>1
  <1>3. /\ rest \in Seq(S) /\ Len(rest) = Len(list) + 1 - i
        /\ \A j \in 1..Len(list) + 1 - i : rest[j] = list[j + i - 1]
    BY <1>1
  <1>4. InsertAt(list, i, x) = head \o rest
    BY DEF InsertAt
  <1> HIDE DEF front, rest
  <1>5. /\ head \in Seq(S) /\ Len(head) = i /\ head[i] = x
        /\ \A j \in 1..i - 1 : head[j] = list[j]
    BY <1>1, <1>2
  <1> HIDE DEF head
  <1>6. /\ head \o rest \in Seq(S) /\ DOMAIN (head \o rest) = 1..Len(list) + 1
        /\ \A j \in 1..i : (head \o rest)[j] = head[j]
        /\ \A j \in 1..Len(list) + 1 - i : (head \o rest)[i + j] = rest[j]
    <2>1. Len(head) + Len(rest) = Len(list) + 1
      BY <1>1, <1>3, <1>5
    <2> QED  BY <1>3, <1>5, <2>1, Joined
  <1>7. ASSUME NEW j \in 1..Len(list) + 1
        PROVE  (head \o rest)[j] = IF j < i THEN list[j] ELSE IF j = i THEN x ELSE list[j - 1]
    <2>1. CASE j <= i
      <3>1. j \in 1..i /\ (head \o rest)[j] = head[j]
        BY <1>1, <1>6, <2>1
      <3>2. CASE j = i
        BY <1>5, <3>1, <3>2
      <3>3. CASE j < i
        <4>1. j \in 1..i - 1
          BY <1>1, <3>1, <3>3
        <4> QED  BY <1>5, <3>1, <3>3, <4>1
      <3>4. j = i \/ j < i
        BY <1>1, <2>1
      <3> QED  BY <3>2, <3>3, <3>4
    <2>2. CASE j > i
      <3>1. j - i \in 1..Len(list) + 1 - i /\ i + (j - i) = j /\ (j - i) + i - 1 = j - 1
        BY <1>1, <2>2
      <3>2. (head \o rest)[j] = rest[j - i] /\ rest[j - i] = list[j - 1]
        BY <1>3, <1>6, <3>1
      <3>3. ~(j < i) /\ j # i
        BY <1>1, <2>2
      <3> QED  BY <3>2, <3>3
    <2>3. j <= i \/ j > i
      BY <1>1
    <2> QED  BY <2>1, <2>2, <2>3
  <1> QED  BY <1>4, <1>6, <1>7

LEMMA UniqueInsertAt ==
    ASSUME NEW S, NEW list \in Seq(S), Unique(list), NEW x \in S, x \notin Range(list),
           NEW i \in 1..Len(list) + 1
    PROVE  /\ Unique(InsertAt(list, i, x))
           /\ Range(InsertAt(list, i, x)) \subseteq Range(list) \cup {x}
  <1>0. PICK new : new = InsertAt(list, i, x)
    OBVIOUS
  <1>1. /\ DOMAIN new = 1..Len(list) + 1
        /\ \A j \in 1..Len(list) + 1 :
              new[j] = IF j < i THEN list[j] ELSE IF j = i THEN x ELSE list[j - 1]
    <2>1. /\ DOMAIN InsertAt(list, i, x) = 1..Len(list) + 1
          /\ \A j \in 1..Len(list) + 1 :
                InsertAt(list, i, x)[j] = IF j < i THEN list[j] ELSE IF j = i THEN x ELSE list[j - 1]
      <3>1. DOMAIN InsertAt(list, i, x) = 1..Len(list) + 1
        BY InsertedAt
      <3>2. ASSUME NEW j \in 1..Len(list) + 1
            PROVE  InsertAt(list, i, x)[j] = IF j < i THEN list[j] ELSE IF j = i THEN x ELSE list[j - 1]
        BY InsertedAt
      <3> QED  BY <3>1, <3>2
    <2> QED  BY <1>0, <2>1
  <1>2. DOMAIN list = 1..Len(list) /\ Len(list) \in Nat /\ i \in Nat
    OBVIOUS
  <1>3. \A j \in DOMAIN list : list[j] # x
    BY DEF Range
  <1>4. \A j \in 1..Len(list) + 1 :
            /\ j < i => j \in DOMAIN list
            /\ j > i => j - 1 \in DOMAIN list
    BY <1>2
  <1>5. ASSUME NEW j \in DOMAIN new, NEW k \in DOMAIN new, new[j] = new[k]
        PROVE  j = k
    <2> DEFINE old(n) == IF n < i THEN n ELSE n - 1
    <2>1. \A n \in DOMAIN new : n # i => old(n) \in DOMAIN list /\ new[n] = list[old(n)]
      BY <1>1, <1>2, <1>4
    <2>2. new[i] = x /\ i \in DOMAIN new
      BY <1>1, <1>2
    <2>3. CASE j = i \/ k = i
      BY <1>3, <1>5, <2>1, <2>2, <2>3
    <2>4. CASE j # i /\ k # i
      <3>1. old(j) = old(k)
        BY <1>5, <2>1, <2>4 DEF Unique
      <3> QED  BY <1>1, <1>2, <2>4, <3>1
    <2> QED  BY <2>3, <2>4
  <1>6. ASSUME NEW j \in DOMAIN new
        PROVE  new[j] \in Range(list) \cup {x}
    BY <1>1, <1>2, <1>4 DEF Range
  <1>7. Unique(new)
    BY <1>5 DEF Unique
  <1>8. Range(new) \subseteq Range(list) \cup {x}
    BY <1>6 DEF Range
  <1> QED  BY <1>0, <1>7, <1>8

LEMMA OneOrNone == ASSUME NEW S, NEW x \in S, NEW P \in BOOLEAN
                   PROVE  (IF P THEN <<x>> ELSE <<>>) \in Seq(S)
  <1>1. <<x>> \in Seq(S) /\ <<>> \in Seq(S)
    OBVIOUS
  <1> QED  BY <1>1

LEMMA SeqMonotone == ASSUME NEW S, NEW T, S \subseteq T, NEW list \in Seq(S)
                     PROVE  list \in Seq(T)
  OBVIOUS

LEMMA NoRange == Range(<<>>) = {}
  BY DEF Range

LEMMA RangeJoin == ASSUME NEW S, NEW a \in Seq(S), NEW b \in Seq(S)
                   PROVE  a \o b \in Seq(S) /\ Range(a \o b) = Range(a) \cup Range(b)
  <1>1. /\ a \o b \in Seq(S) /\ Len(a \o b) = Len(a) + Len(b)
        /\ Len(a) \in Nat /\ Len(b) \in Nat
        /\ \A i \in 1..Len(a) : (a \o b)[i] = a[i]
        /\ \A i \in 1..Len(b) : (a \o b)[Len(a) + i] = b[i]
    OBVIOUS
  <1>2. \A i \in 1..Len(a) : i \in 1..Len(a) + Len(b)
    BY <1>1
  <1>3. \A i \in 1..Len(b) : Len(a) + i \in 1..Len(a) + Len(b)
    BY <1>1
  <1>4. \A k \in 1..Len(a) + Len(b) :
            k \in 1..Len(a) \/ (k - Len(a) \in 1..Len(b) /\ k = Len(a) + (k - Len(a)))
    BY <1>1
  <1>5. DOMAIN (a \o b) = 1..Len(a) + Len(b) /\ DOMAIN a = 1..Len(a) /\ DOMAIN b = 1..Len(b)
    BY <1>1
  <1>6. Range(a \o b) \subseteq Range(a) \cup Range(b)
    BY <1>1, <1>4, <1>5 DEF Range
  <1>7. Range(a) \cup Range(b) \subseteq Range(a \o b)
    BY <1>1, <1>2, <1>3, <1>5 DEF Range
  <1> QED  BY <1>1, <1>6, <1>7

LEMMA UniqueJoined ==
    ASSUME NEW S, NEW a \in Seq(S), NEW b \in Seq(S), Unique(a), Unique(b), Range(a) \cap Range(b) = {}
    PROVE  Unique(a \o b)
  <1>1. /\ DOMAIN (a \o b) = 1..Len(a) + Len(b)
        /\ \A k \in 1..Len(a) : (a \o b)[k] = a[k]
        /\ \A k \in 1..Len(b) : (a \o b)[Len(a) + k] = b[k]
    BY Joined
  <1>2. /\ Len(a) \in Nat /\ Len(b) \in Nat /\ DOMAIN a = 1..Len(a) /\ DOMAIN b = 1..Len(b)
        /\ \A i \in DOMAIN a, j \in DOMAIN b : a[i] # b[j]
    BY DEF Range
  <1>3. \A k \in 1..Len(a) + Len(b) :
            \/ k \in 1..Len(a) /\ (a \o b)[k] = a[k]
            \/ k - Len(a) \in 1..Len(b) /\ (a \o b)[k] = b[k - Len(a)]
    <2> SUFFICES ASSUME NEW k \in 1..Len(a) + Len(b), k \notin 1..Len(a)
                 PROVE  k - Len(a) \in 1..Len(b) /\ (a \o b)[k] = b[k - Len(a)]
      BY <1>1
    <2>1. k - Len(a) \in 1..Len(b) /\ Len(a) + (k - Len(a)) = k
      BY <1>2
    <2> QED  BY <1>1, <2>1
  <1>4. ASSUME NEW k \in 1..Len(a) + Len(b), NEW l \in 1..Len(a) + Len(b), (a \o b)[k] = (a \o b)[l]
        PROVE  k = l
    <2>1. CASE k \in 1..Len(a) /\ l \in 1..Len(a)
      BY <1>1, <1>2, <1>4, <2>1 DEF Unique
    <2>2. CASE k \notin 1..Len(a) /\ l \notin 1..Len(a)
      <3>1. /\ k - Len(a) \in DOMAIN b /\ l - Len(a) \in DOMAIN b
            /\ b[k - Len(a)] = b[l - Len(a)]
        BY <1>2, <1>3, <1>4, <2>2
      <3>2. k - Len(a) = l - Len(a)
        BY <3>1 DEF Unique
      <3> QED  BY <1>2, <3>2
    <2>3. CASE k \in 1..Len(a) /\ l \notin 1..Len(a)
      <3>1. /\ l - Len(a) \in DOMAIN b /\ a[k] = b[l - Len(a)]
        BY <1>1, <1>2, <1>3, <1>4, <2>3
      <3> QED  BY <1>2, <2>3, <3>1
    <2>4. CASE k \notin 1..Len(a) /\ l \in 1..Len(a)
      <3>1. /\ k - Len(a) \in DOMAIN b /\ a[l] = b[k - Len(a)]
        BY <1>1, <1>2, <1>3, <1>4, <2>4
      <3> QED  BY <1>2, <2>4, <3>1
    <2> QED  BY <2>1, <2>2, <2>3, <2>4
  <1> QED  BY <1>1, <1>4 DEF Unique

LEMMA RangeHeadTail == ASSUME NEW S, NEW list \in Seq(S), list # <<>>
                       PROVE  Range(list) = Range(Tail(list)) \cup {Head(list)}
  <1> DEFINE tail == Tail(list)
             n == Len(list)
  <1>1. /\ n \in Nat \ {0} /\ tail \in Seq(S) /\ Len(tail) = n - 1
        /\ \A i \in 1..n - 1 : tail[i] = list[i + 1]
        /\ Head(list) = list[1] /\ DOMAIN list = 1..n /\ DOMAIN tail = 1..n - 1
    OBVIOUS
  <1> HIDE DEF tail, n
  <1>2. /\ \A i \in 1..n : i = 1 \/ (i - 1 \in 1..n - 1 /\ i - 1 + 1 = i)
        /\ \A i \in 1..n - 1 : i + 1 \in 1..n
        /\ 1 \in 1..n
    BY <1>1
  <1>3. \A i \in 1..n : list[i] \in Range(tail) \cup {list[1]}
    <2>1. \A i \in 1..n : i = 1 \/ list[i] = tail[i - 1]
      BY <1>1, <1>2
    <2>2. \A i \in 1..n - 1 : tail[i] \in Range(tail)
      BY <1>1 DEF Range
    <2> QED  BY <1>2, <2>1, <2>2
  <1>4. \A i \in 1..n - 1 : tail[i] \in Range(list)
    BY <1>1, <1>2 DEF Range
  <1>5. list[1] \in Range(list)
    BY <1>1, <1>2 DEF Range
  <1>6. Range(list) \subseteq Range(tail) \cup {list[1]}
    BY <1>1, <1>3 DEF Range
  <1>7. Range(tail) \subseteq Range(list)
    BY <1>1, <1>4 DEF Range
  <1> QED  BY <1>1, <1>5, <1>6, <1>7 DEF tail

LEMMA LongTail ==
    ASSUME NEW S, NEW list \in Seq(S), Len(list) > 1
    PROVE  /\ Tail(list) \in Seq(S) /\ Tail(list) # <<>>
           /\ Tail(list)[Len(Tail(list))] = list[Len(list)]
           /\ Head(Tail(list)) = list[2] /\ list[2] \in S
           /\ Range(list) = Range(Tail(list)) \cup {Head(list)}
  <1>1. /\ Tail(list) \in Seq(S) /\ Len(Tail(list)) = Len(list) - 1
        /\ \A i \in 1..Len(list) - 1 : Tail(list)[i] = list[i + 1]
        /\ Len(list) \in Nat
    OBVIOUS
  <1>2. Len(list) - 1 \in 1..Len(list) - 1
    BY <1>1
  <1>3. Tail(list) # <<>> /\ Head(Tail(list)) = list[2] /\ list[2] \in S /\ list # <<>>
    OBVIOUS
  <1> QED  BY <1>1, <1>2, <1>3, RangeHeadTail

LEMMA NoLength == ASSUME NEW S, NEW list \in Seq(S), Len(list) = 0
                  PROVE  list = <<>>
  OBVIOUS

LEMMA OneLeft ==
    ASSUME NEW S, NEW list \in Seq(S), list # <<>>, ~(Len(list) > 1)
    PROVE  Len(list) = 1
  <1>1. Len(list) # 0
    BY NoLength
  <1> DEFINE n == Len(list)
  <1>2. n \in Nat
    OBVIOUS
  <1>3. ~(n > 1) /\ n # 0
    BY <1>1
  <1> HIDE DEF n
  <1>4. n = 1
    BY ONLY <1>2, <1>3
  <1> QED  BY <1>4 DEF n

LEMMA SameList ==
    ASSUME NEW S, NEW a \in Seq(S), NEW b \in Seq(S), Len(a) = Len(b),
           \A i \in 1..Len(a) : a[i] = b[i]
    PROVE  a = b
  OBVIOUS

LEMMA Appended ==
    ASSUME NEW S, NEW a \in Seq(S), NEW x \in S
    PROVE  /\ Append(a, x) \in Seq(S) /\ Len(Append(a, x)) = Len(a) + 1
           /\ \A i \in 1..Len(a) : Append(a, x)[i] = a[i]
           /\ Append(a, x)[Len(a) + 1] = x
  OBVIOUS

LEMMA LaterOnes ==
    ASSUME NEW S, NEW list \in Seq(S), Len(list) > 1
    PROVE  /\ Len(list) \in Nat /\ Tail(list) \in Seq(S) /\ Len(Tail(list)) = Len(list) - 1
           /\ \A j \in 1..Len(list) - 1 : Tail(list)[j] = list[j + 1]
           /\ Tail(list) # <<>> /\ Head(Tail(list)) = list[2]
  <1>1. /\ Len(list) \in Nat /\ Len(Tail(list)) = Len(list) - 1
        /\ \A j \in 1..Len(list) - 1 : Tail(list)[j] = list[j + 1]
    OBVIOUS
  <1> QED  BY <1>1, LongTail

-----------------------------------------------------------------------------
(* Induction over the naturals, for a set instead of a predicate.           *)

LEMMA Least ==
    ASSUME NEW S, S \subseteq Nat, S # {}
    PROVE  \E x \in S : \A y \in S : x <= y
  <1>1. \E x \in S : \A y \in S : ~ (<<y, x>> \in OpToRel(<, Nat))
    BY WFMin, NatLessThanWellFounded
  <1>2. \E x \in S : \A y \in S : ~(y < x)
    BY <1>1 DEF OpToRel
  <1> QED  BY ONLY <1>2, S \subseteq Nat

LEMMA Induction ==
    ASSUME NEW S, 0 \in S, \A n \in Nat : n \in S => n + 1 \in S
    PROVE  Nat \subseteq S
  <1> SUFFICES ASSUME Nat \ S # {} PROVE FALSE
    OBVIOUS
  <1>1. PICK x \in Nat \ S : \A y \in Nat \ S : x <= y
    BY Least
  <1>2. x # 0 /\ x \in Nat
    OBVIOUS
  <1>3. x - 1 \in Nat /\ x - 1 \in S
    BY <1>1, <1>2
  <1> QED  BY <1>2, <1>3

-----------------------------------------------------------------------------
(* A function that is defined by recursion: the value at n is made of the   *)
(* value at n - 1, whatever makes it, as long as it stays within V.         *)

Follows(f, base, step, N) ==
    f[0] = base /\ \A n \in 1..N : f[n] = step[<<f[n - 1], n>>]

LEMMA RecursionExists ==
    ASSUME NEW V, NEW N \in Nat, NEW base \in V, NEW step \in [V \X (1..N) -> V]
    PROVE  \E f \in [0..N -> V] : Follows(f, base, step, N)
  <1> DEFINE Good == {k \in Nat : k <= N => \E f \in [0..k -> V] : Follows(f, base, step, k)}
  <1>1. 0 \in Good
    <2>1. [i \in 0..0 |-> base] \in [0..0 -> V]
      OBVIOUS
    <2>2. Follows([i \in 0..0 |-> base], base, step, 0)
      BY DEF Follows
    <2> QED  BY <2>1, <2>2
  <1>2. ASSUME NEW k \in Nat, k \in Good
        PROVE  k + 1 \in Good
    <2> SUFFICES ASSUME k + 1 <= N
                 PROVE  \E f \in [0..k + 1 -> V] : Follows(f, base, step, k + 1)
      OBVIOUS
    <2>1. PICK f \in [0..k -> V] : Follows(f, base, step, k)
      BY <1>2
    <2>2. k \in 0..k /\ f[k] \in V /\ k + 1 \in 1..N
      BY <2>1
    <2>3. PICK v \in V : v = step[<<f[k], k + 1>>]
      BY <2>2
    <2> DEFINE g == [i \in 0..k + 1 |-> IF i = k + 1 THEN v ELSE f[i]]
    <2>4. g \in [0..k + 1 -> V]
      BY <2>1
    <2>5. g[0] = base
      BY <2>1 DEF Follows
    <2>6. ASSUME NEW n \in 1..k + 1
          PROVE  g[n] = step[<<g[n - 1], n>>]
      <3>1. n - 1 \in 0..k /\ g[n - 1] = f[n - 1]
        OBVIOUS
      <3>2. CASE n = k + 1
        <4>1. n - 1 = k /\ g[n] = v
          BY <3>2
        <4> QED  BY <2>3, <3>1, <3>2, <4>1
      <3>3. CASE n # k + 1
        <4>1. n \in 1..k /\ g[n] = f[n]
          BY <3>3
        <4> QED  BY <2>1, <3>1, <4>1 DEF Follows
      <3> QED  BY <3>2, <3>3
    <2> HIDE DEF g
    <2>7. Follows(g, base, step, k + 1)
      BY <2>5, <2>6 DEF Follows
    <2> QED  BY <2>4, <2>7
  <1> HIDE DEF Good
  <1>3. Nat \subseteq Good
    BY <1>1, <1>2, Induction
  <1> QED  BY <1>3 DEF Good

(* What holds of the first value and is handed on holds of every value.     *)
LEMMA HandedOn ==
    ASSUME NEW V, NEW N \in Nat, NEW f, f[0] \in V,
           \A n \in 1..N : f[n - 1] \in V => f[n] \in V
    PROVE  \A n \in 0..N : f[n] \in V
  <1> DEFINE Good == {k \in Nat : k <= N => f[k] \in V}
  <1>1. 0 \in Good
    OBVIOUS
  <1>2. ASSUME NEW k \in Nat, k \in Good
        PROVE  k + 1 \in Good
    <2> SUFFICES ASSUME k + 1 <= N PROVE f[k + 1] \in V
      OBVIOUS
    <2>1. k + 1 \in 1..N /\ k + 1 - 1 = k /\ f[k] \in V
      BY <1>2
    <2> QED  BY <2>1
  <1> HIDE DEF Good
  <1>3. Nat \subseteq Good
    BY <1>1, <1>2, Induction
  <1> QED  BY <1>3 DEF Good

-----------------------------------------------------------------------------
(* The first turns of a list, as Kept goes through them.                    *)
KeptStep(kept, list, S, n) ==
    kept[n] = IF n = 0 THEN <<>>
              ELSE IF list[n] \in S THEN Append(kept[n - 1], list[n])
              ELSE kept[n - 1]
KeptFrom(list, S, n, kept) ==
    kept = [i \in 0..n |-> IF i = 0 THEN <<>>
                           ELSE IF list[i] \in S THEN Append(kept[i - 1], list[i])
                           ELSE kept[i - 1]]

LEMMA KeptExists ==
    ASSUME NEW list, NEW S
    PROVE  \A n \in Nat : \E kept : KeptFrom(list, S, n, kept)
  <1> DEFINE Good == {n \in Nat : \E kept : KeptFrom(list, S, n, kept)}
  <1>1. 0 \in Good
    <2>1. KeptFrom(list, S, 0, [i \in 0..0 |-> <<>>])
      BY DEF KeptFrom
    <2> QED  BY <2>1
  <1>2. ASSUME NEW n \in Nat, n \in Good
        PROVE  n + 1 \in Good
    <2>1. PICK f : KeptFrom(list, S, n, f)
      BY <1>2
    <2> DEFINE g == [i \in 0..n + 1 |->
                        IF i <= n THEN f[i]
                        ELSE IF list[i] \in S THEN Append(f[i - 1], list[i])
                        ELSE f[i - 1]]
    <2>2. ASSUME NEW i \in 0..n + 1
          PROVE  g[i] = IF i = 0 THEN <<>>
                        ELSE IF list[i] \in S THEN Append(g[i - 1], list[i])
                        ELSE g[i - 1]
      <3>1. CASE i = 0
        BY <2>1, <3>1 DEF KeptFrom
      <3>2. CASE i # 0
        <4>1. i - 1 \in 0..n /\ g[i - 1] = f[i - 1]
          BY <3>2
        <4>2. CASE i <= n
          <5>1. i \in 0..n /\ g[i] = f[i]
            BY <4>2
          <5>2. f[i] = IF i = 0 THEN <<>>
                       ELSE IF list[i] \in S THEN Append(f[i - 1], list[i])
                       ELSE f[i - 1]
            BY <2>1, <5>1 DEF KeptFrom
          <5> QED  BY <3>2, <4>1, <5>1, <5>2
        <4>3. CASE ~(i <= n)
          BY <3>2, <4>1, <4>3
        <4> QED  BY <4>2, <4>3
      <3> QED  BY <3>1, <3>2
    <2>3. g = [i \in 0..n + 1 |-> g[i]]
      OBVIOUS
    <2> HIDE DEF g
    <2>4. KeptFrom(list, S, n + 1, g)
      BY <2>2, <2>3 DEF KeptFrom
    <2> QED  BY <2>4
  <1> HIDE DEF Good
  <1>3. Nat \subseteq Good
    BY <1>1, <1>2, Induction
  <1> QED  BY <1>3 DEF Good

LEMMA KeptUnfold ==
    ASSUME NEW list, NEW S, NEW N \in Nat, NEW kept, KeptFrom(list, S, N, kept)
    PROVE  /\ kept[0] = <<>>
           /\ \A n \in Nat : n + 1 <= N =>
                 kept[n + 1] = IF list[n + 1] \in S THEN Append(kept[n], list[n + 1])
                               ELSE kept[n]
  <1> DEFINE step(i) == IF i = 0 THEN <<>>
                        ELSE IF list[i] \in S THEN Append(kept[i - 1], list[i])
                        ELSE kept[i - 1]
  <1>1. kept = [i \in 0..N |-> step(i)]
    BY DEF KeptFrom
  <1> HIDE DEF step
  <1>2. \A i \in 0..N : kept[i] = step(i)
    BY <1>1
  <1>3. kept[0] = <<>>
    BY <1>2 DEF step
  <1>4. ASSUME NEW n \in Nat, n + 1 <= N
        PROVE  kept[n + 1] = IF list[n + 1] \in S THEN Append(kept[n], list[n + 1])
                             ELSE kept[n]
    <2>1. n + 1 \in 0..N /\ n + 1 # 0 /\ n + 1 - 1 = n
      BY <1>4
    <2>2. kept[n + 1] = step(n + 1)
      BY <1>2, <2>1
    <2> QED  BY <2>1, <2>2 DEF step
  <1> QED  BY <1>3, <1>4

LEMMA KeptFound ==
    ASSUME NEW list, NEW S, Len(list) \in Nat
    PROVE  \E kept :
              /\ Kept(list, S) = kept[Len(list)]
              /\ kept[0] = <<>>
              /\ \A n \in Nat : n + 1 <= Len(list) =>
                    kept[n + 1] = IF list[n + 1] \in S THEN Append(kept[n], list[n + 1])
                                  ELSE kept[n]
  <1> DEFINE kept == CHOOSE f : f = [n \in 0..Len(list) |->
                        IF n = 0 THEN <<>>
                           ELSE IF list[n] \in S THEN Append(f[n - 1], list[n])
                           ELSE f[n - 1]]
  <1>1. Kept(list, S) = kept[Len(list)]
    BY DEF Kept
  <1>2. \E f : f = [n \in 0..Len(list) |->
                        IF n = 0 THEN <<>>
                           ELSE IF list[n] \in S THEN Append(f[n - 1], list[n])
                           ELSE f[n - 1]]
    <2>1. \E f : KeptFrom(list, S, Len(list), f)
      BY KeptExists
    <2> QED  BY <2>1 DEF KeptFrom
  <1>3. KeptFrom(list, S, Len(list), kept)
    BY <1>2 DEF KeptFrom
  <1> HIDE DEF kept
  <1>4. /\ kept[0] = <<>>
        /\ \A n \in Nat : n + 1 <= Len(list) =>
              kept[n + 1] = IF list[n + 1] \in S THEN Append(kept[n], list[n + 1])
                            ELSE kept[n]
    BY <1>3, KeptUnfold
  <1> QED  BY <1>1, <1>4

LEMMA KeptRange ==
    ASSUME NEW A, NEW list \in Seq(A), NEW S
    PROVE  /\ Kept(list, S) \in Seq(A)
           /\ Range(Kept(list, S)) = Range(list) \cap S
           /\ Unique(list) => Unique(Kept(list, S))
  <1>0. Len(list) \in Nat
    OBVIOUS
  <1>1. PICK f :
           /\ Kept(list, S) = f[Len(list)]
           /\ f[0] = <<>>
           /\ \A n \in Nat : n + 1 <= Len(list) =>
                 f[n + 1] = IF list[n + 1] \in S THEN Append(f[n], list[n + 1]) ELSE f[n]
    BY <1>0, KeptFound
  <1> DEFINE Upto(n) == {list[i] : i \in 1..n} \cap S
             Fits(n) == /\ f[n] \in Seq(A)
                        /\ Range(f[n]) = Upto(n)
                        /\ Unique(list) => Unique(f[n])
             Good == {n \in Nat : n <= Len(list) => Fits(n)}
  <1>3. 0 \in Good
    <2>2. Range(<<>>) = {} /\ Unique(<<>>) /\ Upto(0) = {}
      BY DEF Range, Unique
    <2>3. Range(f[0]) = Upto(0) /\ Unique(f[0]) /\ f[0] \in Seq(A)
      BY <1>1, <2>2
    <2>4. Fits(0)
      BY <2>3
    <2> HIDE DEF Fits
    <2> QED  BY <2>4
  <1>4. ASSUME NEW n \in Nat, n \in Good
        PROVE  n + 1 \in Good
    <2> SUFFICES ASSUME n + 1 <= Len(list)
                 PROVE  Fits(n + 1)
      OBVIOUS
    <2>1. /\ n + 1 \in 0..Len(list) /\ n + 1 # 0 /\ n + 1 - 1 = n
          /\ n + 1 \in DOMAIN list /\ list[n + 1] \in A
      OBVIOUS
    <2>2. f[n + 1] = IF list[n + 1] \in S THEN Append(f[n], list[n + 1]) ELSE f[n]
      BY <1>1, <2>1
    <2>3. /\ f[n] \in Seq(A) /\ Range(f[n]) = Upto(n)
          /\ Unique(list) => Unique(f[n])
      BY <1>4, <2>1
    <2>4. {list[i] : i \in 1..n + 1} = {list[i] : i \in 1..n} \cup {list[n + 1]}
      OBVIOUS
    <2>5. Unique(list) => list[n + 1] \notin {list[i] : i \in 1..n}
      BY <2>1 DEF Unique
    <2>6. CASE list[n + 1] \in S
      <3>1. /\ f[n + 1] = Append(f[n], list[n + 1]) /\ f[n + 1] \in Seq(A)
            /\ Range(f[n + 1]) = Range(f[n]) \cup {list[n + 1]}
        BY <2>1, <2>2, <2>3, <2>6, RangeAppend
      <3>2. Unique(list) => Unique(f[n + 1])
        <4>1. Unique(list) => list[n + 1] \notin Range(f[n])
          BY <2>3, <2>5
        <4>2. ASSUME Unique(list) PROVE Unique(Append(f[n], list[n + 1]))
          BY <2>1, <2>3, <4>1, <4>2, UniqueAppend
        <4> QED  BY <3>1, <4>2
      <3> QED  BY <2>3, <2>4, <2>6, <3>1, <3>2
    <2>7. CASE list[n + 1] \notin S
      BY <2>2, <2>3, <2>4, <2>7
    <2> QED  BY <2>6, <2>7
  <1> HIDE DEF Good
  <1>5. Nat \subseteq Good
    BY <1>3, <1>4, Induction
  <1>6. Fits(Len(list))
    <2> HIDE DEF Fits
    <2> QED  BY <1>0, <1>5 DEF Good
  <1>7. Upto(Len(list)) = Range(list) \cap S
    BY DEF Range
  <1> QED  BY <1>1, <1>6, <1>7

(* What is kept when S has the first m turns of the list and none after.    *)
LEMMA KeptFirst ==
    ASSUME NEW A, NEW list \in Seq(A), NEW S, NEW m \in 0..Len(list),
           \A i \in 1..m : list[i] \in S,
           \A i \in m + 1..Len(list) : list[i] \notin S
    PROVE  Kept(list, S) = SubSeq(list, 1, m)
  <1>0. Len(list) \in Nat
    OBVIOUS
  <1>1. PICK f :
           /\ Kept(list, S) = f[Len(list)]
           /\ f[0] = <<>>
           /\ \A n \in Nat : n + 1 <= Len(list) =>
                 f[n + 1] = IF list[n + 1] \in S THEN Append(f[n], list[n + 1]) ELSE f[n]
    BY <1>0, KeptFound
  <1> DEFINE Good == {n \in Nat : n <= Len(list) =>
                         f[n] = SubSeq(list, 1, IF n <= m THEN n ELSE m)}
  <1>3. 0 \in Good
    <2>2. SubSeq(list, 1, 0) = <<>> /\ 0 <= m
      OBVIOUS
    <2> QED  BY <1>1, <2>2
  <1>4. ASSUME NEW n \in Nat, n \in Good
        PROVE  n + 1 \in Good
    <2> SUFFICES ASSUME n + 1 <= Len(list)
                 PROVE  f[n + 1] = SubSeq(list, 1, IF n + 1 <= m THEN n + 1 ELSE m)
      OBVIOUS
    <2>1. /\ n + 1 \in 0..Len(list) /\ n + 1 # 0 /\ n + 1 - 1 = n
          /\ n + 1 \in DOMAIN list /\ list[n + 1] \in A
      OBVIOUS
    <2>2. f[n + 1] = IF list[n + 1] \in S THEN Append(f[n], list[n + 1]) ELSE f[n]
      BY <1>1, <2>1
    <2>3. f[n] = SubSeq(list, 1, IF n <= m THEN n ELSE m)
      BY <1>4, <2>1
    <2>4. CASE n + 1 <= m
      <3>1. list[n + 1] \in S /\ f[n] = SubSeq(list, 1, n)
        BY <2>3, <2>4
      <3>2. Append(SubSeq(list, 1, n), list[n + 1]) = SubSeq(list, 1, n + 1)
        <4>1. /\ SubSeq(list, 1, n) \in Seq(A) /\ Len(SubSeq(list, 1, n)) = n
              /\ \A i \in 1..n : SubSeq(list, 1, n)[i] = list[i]
          BY <2>1
        <4>2. /\ SubSeq(list, 1, n + 1) \in Seq(A) /\ Len(SubSeq(list, 1, n + 1)) = n + 1
              /\ \A i \in 1..n + 1 : SubSeq(list, 1, n + 1)[i] = list[i]
          BY <2>1
        <4> DEFINE a == SubSeq(list, 1, n)
                   b == SubSeq(list, 1, n + 1)
        <4> HIDE DEF a, b
        <4>3. /\ a \in Seq(A) /\ Len(a) = n /\ \A i \in 1..n : a[i] = list[i]
              /\ b \in Seq(A) /\ Len(b) = n + 1 /\ \A i \in 1..n + 1 : b[i] = list[i]
          BY <4>1, <4>2 DEF a, b
        <4>4. Append(a, list[n + 1]) = b
          BY <2>1, <4>3
        <4> QED  BY <4>4 DEF a, b
      <3> QED  BY <2>2, <2>4, <3>1, <3>2
    <2>5. CASE ~(n + 1 <= m)
      <3>1. n + 1 \in m + 1..Len(list)
        BY <2>1, <2>5
      <3>2. f[n + 1] = f[n]
        BY <2>2, <3>1
      <3>3. (IF n <= m THEN n ELSE m) = m
        BY <2>5
      <3> QED  BY <2>3, <2>5, <3>2, <3>3
    <2> QED  BY <2>4, <2>5
  <1> HIDE DEF Good
  <1>5. Nat \subseteq Good
    BY <1>3, <1>4, Induction
  <1>6. f[Len(list)] = SubSeq(list, 1, IF Len(list) <= m THEN Len(list) ELSE m)
    BY <1>0, <1>5 DEF Good
  <1>7. (IF Len(list) <= m THEN Len(list) ELSE m) = m
    BY <1>0
  <1> QED  BY <1>1, <1>6, <1>7

LEMMA KeptAll ==
    ASSUME NEW A, NEW list \in Seq(A), NEW S, Range(list) \subseteq S
    PROVE  Kept(list, S) = list
  <1>1. \A i \in 1..Len(list) : list[i] \in S
    BY DEF Range
  <1>2. Kept(list, S) = SubSeq(list, 1, Len(list))
    BY <1>1, KeptFirst, Len(list) \in 0..Len(list)
  <1>3. SubSeq(list, 1, Len(list)) = list
    OBVIOUS
  <1> QED  BY <1>2, <1>3

(* What is kept of a list of which all but the first m turns are in S.      *)
OnlyAfter(list, S, m) ==
    /\ \A i \in 1..m : list[i] \notin S
    /\ \A i \in m + 1..Len(list) : list[i] \in S

IsRest(rest, list, m) ==
    /\ Len(rest) = Len(list) - m
    /\ \A i \in 1..Len(list) - m : rest[i] = list[m + i]

LEMMA KeptRest ==
    ASSUME NEW A, NEW list \in Seq(A), NEW S, NEW m \in 0..Len(list),
           OnlyAfter(list, S, m)
    PROVE  Kept(list, S) \in Seq(A) /\ IsRest(Kept(list, S), list, m)
  <1> USE DEF OnlyAfter, IsRest
  <1>1. Len(list) \in Nat /\ m \in Nat
    OBVIOUS
  <1>2. PICK f :
           /\ Kept(list, S) = f[Len(list)]
           /\ f[0] = <<>>
           /\ \A n \in Nat : n + 1 <= Len(list) =>
                 f[n + 1] = IF list[n + 1] \in S THEN Append(f[n], list[n + 1]) ELSE f[n]
    BY <1>1, KeptFound
  <1> DEFINE Rest(n) == IF n <= m THEN f[n] = <<>>
                        ELSE /\ f[n] \in Seq(A) /\ Len(f[n]) = n - m
                             /\ \A i \in 1..n - m : f[n][i] = list[m + i]
             Good == {n \in Nat : n <= Len(list) => Rest(n)}
  <1>3. 0 \in Good
    BY <1>1, <1>2
  <1>4. ASSUME NEW n \in Nat, n \in Good
        PROVE  n + 1 \in Good
    <2> SUFFICES ASSUME n + 1 <= Len(list)
                 PROVE  Rest(n + 1)
      OBVIOUS
    <2>1. /\ n <= Len(list) /\ n + 1 \in 1..Len(list) /\ list[n + 1] \in A
          /\ f[n + 1] = IF list[n + 1] \in S THEN Append(f[n], list[n + 1]) ELSE f[n]
      BY <1>2
    <2>2. Rest(n)
      BY <1>4, <2>1
    <2>3. CASE n + 1 <= m
      <3>1. n + 1 \in 1..m /\ n <= m
        BY <2>3
      <3> QED  BY <2>1, <2>2, <2>3, <3>1
    <2>4. CASE ~(n + 1 <= m)
      <3>1. n + 1 \in m + 1..Len(list)
        BY <1>1, <2>1, <2>4
      <3>2. f[n + 1] = Append(f[n], list[n + 1])
        BY <2>1, <3>1
      <3>3. f[n] \in Seq(A) /\ Len(f[n]) = n - m /\ \A i \in 1..n - m : f[n][i] = list[m + i]
        <4>1. CASE n <= m
          <5>1. n = m /\ f[n] = <<>>
            BY <1>1, <2>2, <2>4, <4>1
          <5> QED  BY <1>1, <5>1
        <4>2. CASE ~(n <= m)
          BY <2>2, <4>2
        <4> QED  BY <4>1, <4>2
      <3>4. PICK g : g = f[n]
        OBVIOUS
      <3>5. PICK x : x = list[n + 1] /\ x \in A
        BY <2>1
      <3>6. PICK d : d = n - m /\ d \in Nat
        BY <1>1, <2>4
      <3>7. g \in Seq(A) /\ Len(g) = d /\ \A i \in 1..d : g[i] = list[m + i]
        BY <3>3, <3>4, <3>6
      <3>8. /\ Append(g, x) \in Seq(A) /\ Len(Append(g, x)) = d + 1
            /\ \A i \in 1..d : Append(g, x)[i] = g[i]
            /\ Append(g, x)[d + 1] = x
        <4>1. /\ Append(g, x) \in Seq(A) /\ Len(Append(g, x)) = Len(g) + 1
              /\ \A i \in 1..Len(g) : Append(g, x)[i] = g[i]
              /\ Append(g, x)[Len(g) + 1] = x
          BY ONLY <3>5, <3>7, Appended
        <4> QED  BY ONLY <3>7, <4>1, Zenon
      <3>9. \A i \in 1..d + 1 : i \in 1..d \/ (i = d + 1 /\ m + i = n + 1)
        BY <1>1, <3>6
      <3>10. \A i \in 1..d + 1 : Append(g, x)[i] = list[m + i]
        BY <3>5, <3>7, <3>8, <3>9
      <3>11. n + 1 - m = d + 1 /\ f[n + 1] = Append(g, x)
        BY <1>1, <3>2, <3>4, <3>5, <3>6
      <3> QED  BY <2>4, <3>8, <3>10, <3>11
    <2> QED  BY <2>3, <2>4
  <1> HIDE DEF Good
  <1>5. Nat \subseteq Good
    BY <1>3, <1>4, Induction
  <1>6. Rest(Len(list))
    BY <1>1, <1>5 DEF Good
  <1>7. CASE Len(list) <= m
    <2>1. Len(list) = m /\ Len(list) - m = 0 /\ Kept(list, S) = <<>>
      BY <1>1, <1>2, <1>6, <1>7
    <2> QED  BY <2>1
  <1>8. CASE ~(Len(list) <= m)
    BY <1>2, <1>6, <1>8
  <1> QED  BY <1>7, <1>8

-----------------------------------------------------------------------------
(* Tables: functions that are defined on some of A.                        *)

Partial(A, B) == UNION {[S -> B] : S \in SUBSET A}

LEMMA PartialFunction ==
    ASSUME NEW A, NEW B, NEW f \in Partial(A, B)
    PROVE  f = [x \in DOMAIN f |-> f[x]] /\ DOMAIN f \subseteq A /\ \A x \in DOMAIN f : f[x] \in B
  BY DEF Partial

LEMMA IsPartial ==
    ASSUME NEW A, NEW B, NEW S \in SUBSET A, NEW f \in [S -> B]
    PROVE  f \in Partial(A, B)
  BY DEF Partial

LEMMA BackedPartial ==
    ASSUME NEW A, NEW B, NEW f \in Partial(A, B), NEW g \in Partial(A, B)
    PROVE  Backed(f, g) \in Partial(A, B)
  <1>1. /\ DOMAIN f \subseteq A /\ \A x \in DOMAIN f : f[x] \in B
        /\ DOMAIN g \subseteq A /\ \A x \in DOMAIN g : g[x] \in B
    BY PartialFunction
  <1>2. Backed(f, g) \in [DOMAIN f \cup DOMAIN g -> B]
    BY <1>1 DEF Backed
  <1> QED  BY <1>1, <1>2, IsPartial

LEMMA BackedAt ==
    ASSUME NEW f, NEW g
    PROVE  /\ DOMAIN Backed(f, g) = DOMAIN f \cup DOMAIN g
           /\ \A x \in DOMAIN f : Backed(f, g)[x] = f[x]
           /\ \A x \in DOMAIN g \ DOMAIN f : Backed(f, g)[x] = g[x]
  BY DEF Backed

LEMMA EnteredPartial ==
    ASSUME NEW A, NEW B, NEW f \in Partial(A, B), NEW x \in A, NEW v \in B
    PROVE  Entered(f, x, v) \in Partial(A, B)
  <1>1. DOMAIN f \subseteq A /\ \A y \in DOMAIN f : f[y] \in B
    BY PartialFunction
  <1>2. Entered(f, x, v) \in [DOMAIN f \cup {x} -> B]
    BY <1>1 DEF Entered
  <1> QED  BY <1>1, <1>2, IsPartial

LEMMA EnteredAt ==
    ASSUME NEW f, NEW x, NEW v
    PROVE  /\ DOMAIN Entered(f, x, v) = DOMAIN f \cup {x} /\ Entered(f, x, v)[x] = v
           /\ \A y \in DOMAIN f \ {x} : Entered(f, x, v)[y] = f[y]
  BY DEF Entered

LEMMA LessPartial ==
    ASSUME NEW A, NEW B, NEW f \in Partial(A, B), NEW S
    PROVE  [x \in DOMAIN f \ S |-> f[x]] \in Partial(A, B)
  <1>1. DOMAIN f \subseteq A /\ \A y \in DOMAIN f : f[y] \in B
    BY PartialFunction
  <1>2. [x \in DOMAIN f \ S |-> f[x]] \in [DOMAIN f \ S -> B]
    BY <1>1
  <1> QED  BY <1>1, <1>2, IsPartial

-----------------------------------------------------------------------------
(* What Kept and Flat make of one more item.                                *)

FlatFrom(lists, n, flat) ==
    flat = [i \in 0..n |-> IF i = 0 THEN <<>> ELSE flat[i - 1] \o lists[i]]

LEMMA FlatExists ==
    ASSUME NEW lists
    PROVE  \A n \in Nat : \E flat : FlatFrom(lists, n, flat)
  <1> DEFINE Good == {n \in Nat : \E flat : FlatFrom(lists, n, flat)}
  <1>1. 0 \in Good
    <2>1. FlatFrom(lists, 0, [i \in 0..0 |-> <<>>])
      BY DEF FlatFrom
    <2> QED  BY <2>1
  <1>2. ASSUME NEW n \in Nat, n \in Good
        PROVE  n + 1 \in Good
    <2>1. PICK f : FlatFrom(lists, n, f)
      BY <1>2
    <2> DEFINE g == [i \in 0..n + 1 |-> IF i <= n THEN f[i] ELSE f[i - 1] \o lists[i]]
    <2>2. ASSUME NEW i \in 0..n + 1
          PROVE  g[i] = IF i = 0 THEN <<>> ELSE g[i - 1] \o lists[i]
      <3>1. CASE i = 0
        BY <2>1, <3>1 DEF FlatFrom
      <3>2. CASE i # 0
        <4>1. i - 1 \in 0..n /\ g[i - 1] = f[i - 1]
          BY <3>2
        <4>2. CASE i <= n
          <5>1. i \in 0..n /\ g[i] = f[i]
            BY <4>2
          <5>2. f[i] = IF i = 0 THEN <<>> ELSE f[i - 1] \o lists[i]
            BY <2>1, <5>1 DEF FlatFrom
          <5> QED  BY <3>2, <4>1, <5>1, <5>2
        <4>3. CASE ~(i <= n)
          BY <3>2, <4>1, <4>3
        <4> QED  BY <4>2, <4>3
      <3> QED  BY <3>1, <3>2
    <2>3. g = [i \in 0..n + 1 |-> g[i]]
      OBVIOUS
    <2> HIDE DEF g
    <2>4. FlatFrom(lists, n + 1, g)
      BY <2>2, <2>3 DEF FlatFrom
    <2> QED  BY <2>4
  <1> HIDE DEF Good
  <1>3. Nat \subseteq Good
    BY <1>1, <1>2, Induction
  <1> QED  BY <1>3 DEF Good

LEMMA FlatUnfold ==
    ASSUME NEW lists, NEW N \in Nat, NEW flat, FlatFrom(lists, N, flat)
    PROVE  /\ flat[0] = <<>>
           /\ \A n \in 1..N : flat[n] = flat[n - 1] \o lists[n]
  <1> DEFINE step(i) == IF i = 0 THEN <<>> ELSE flat[i - 1] \o lists[i]
  <1>1. flat = [i \in 0..N |-> step(i)]
    BY DEF FlatFrom
  <1> HIDE DEF step
  <1>2. \A i \in 0..N : flat[i] = step(i)
    BY <1>1
  <1>3. flat[0] = <<>>
    BY <1>2 DEF step
  <1>4. ASSUME NEW n \in 1..N
        PROVE  flat[n] = flat[n - 1] \o lists[n]
    <2>1. n \in 0..N /\ n # 0
      OBVIOUS
    <2>2. flat[n] = step(n)
      BY <1>2, <2>1
    <2> QED  BY <2>1, <2>2 DEF step
  <1> QED  BY <1>3, <1>4

(* The lists joined so far.                                                 *)
Joins(flat, lists) ==
    /\ flat[0] = <<>>
    /\ \A n \in 1..Len(lists) : flat[n] = flat[n - 1] \o lists[n]

LEMMA FlatFound ==
    ASSUME NEW lists, Len(lists) \in Nat
    PROVE  \E flat : Flat(lists) = flat[Len(lists)] /\ Joins(flat, lists)
  <1> DEFINE flat == CHOOSE f : f = [n \in 0..Len(lists) |->
                        IF n = 0 THEN <<>> ELSE f[n - 1] \o lists[n]]
  <1>1. Flat(lists) = flat[Len(lists)]
    BY DEF Flat
  <1>2. \E f : f = [n \in 0..Len(lists) |->
                        IF n = 0 THEN <<>> ELSE f[n - 1] \o lists[n]]
    <2>1. \E f : FlatFrom(lists, Len(lists), f)
      BY FlatExists
    <2> QED  BY <2>1 DEF FlatFrom
  <1>3. FlatFrom(lists, Len(lists), flat)
    BY <1>2 DEF FlatFrom
  <1> HIDE DEF flat
  <1>4. Joins(flat, lists)
    BY <1>3, FlatUnfold DEF Joins
  <1> QED  BY <1>1, <1>4

LEMMA JoinsAt ==
    ASSUME NEW f, NEW lists, Joins(f, lists), NEW n \in Nat, n + 1 <= Len(lists), Len(lists) \in Nat
    PROVE  f[n + 1] = f[n] \o lists[n + 1]
  <1> DEFINE m == n + 1
  <1>1. m \in 1..Len(lists) /\ m - 1 = n
    OBVIOUS
  <1> HIDE DEF m
  <1>2. f[m] = f[m - 1] \o lists[m]
    BY <1>1 DEF Joins
  <1>3. f[m] = f[n] \o lists[m]
    BY <1>1, <1>2
  <1> QED  BY <1>3 DEF m

StartsAs(a, b) == Len(a) <= Len(b) /\ \A i \in 1..Len(a) : b[i] = a[i]

LEMMA JoinsSame ==
    ASSUME NEW A, NEW a \in Seq(Seq(A)), NEW b \in Seq(Seq(A)), StartsAs(a, b),
           NEW f, Joins(f, a), NEW g, Joins(g, b)
    PROVE  \A n \in 0..Len(a) : f[n] = g[n]
  <1> DEFINE Same == {n \in Nat : n <= Len(a) => f[n] = g[n]}
  <1>1. 0 \in Same
    BY DEF Joins
  <1>2. ASSUME NEW n \in Nat, n \in Same
        PROVE  n + 1 \in Same
    <2> SUFFICES ASSUME n + 1 <= Len(a) PROVE f[n + 1] = g[n + 1]
      OBVIOUS
    <2>0. Len(a) \in Nat /\ Len(b) \in Nat /\ Len(a) <= Len(b)
      BY DEF StartsAs
    <2>5. \A i \in 1..Len(a) : b[i] = a[i]
      BY DEF StartsAs
    <2>1. n + 1 \in 1..Len(a) /\ n + 1 \in 1..Len(b) /\ n + 1 - 1 = n
      BY <2>0
    <2>2. f[n + 1] = f[n] \o a[n + 1]
      BY <2>0, JoinsAt
    <2>4. g[n + 1] = g[n] \o b[n + 1]
      <3>1. n + 1 <= Len(b)
        BY <2>0
      <3> QED  BY <2>0, <3>1, JoinsAt
    <2>3. f[n] = g[n]
      BY <1>2, <2>0
    <2> QED  BY <2>1, <2>2, <2>3, <2>4, <2>5
  <1> HIDE DEF Same
  <1>3. Nat \subseteq Same
    BY <1>1, <1>2, Induction
  <1> QED  BY <1>3 DEF Same

LEMMA JoinsType ==
    ASSUME NEW A, NEW lists \in Seq(Seq(A)), NEW f, Joins(f, lists)
    PROVE  \A n \in 0..Len(lists) : f[n] \in Seq(A)
  <1>1. f[0] \in Seq(A)
    BY DEF Joins
  <1>2. ASSUME NEW n \in 1..Len(lists), f[n - 1] \in Seq(A)
        PROVE  f[n] \in Seq(A)
    <2>1. lists[n] \in Seq(A)
      OBVIOUS
    <2>2. f[n] = f[n - 1] \o lists[n]
      BY DEF Joins
    <2> QED  BY <1>2, <2>1, <2>2, Joined
  <1>3. Len(lists) \in Nat
    OBVIOUS
  <1> QED  BY <1>1, <1>2, <1>3, HandedOn

LEMMA FlatType ==
    ASSUME NEW A, NEW lists \in Seq(Seq(A))
    PROVE  Flat(lists) \in Seq(A)
  <1>1. Len(lists) \in Nat
    OBVIOUS
  <1>2. PICK f : Flat(lists) = f[Len(lists)] /\ Joins(f, lists)
    BY <1>1, FlatFound
  <1>3. \A n \in 0..Len(lists) : f[n] \in Seq(A)
    BY <1>2, JoinsType
  <1> QED  BY <1>1, <1>2, <1>3

LEMMA FlatEmpty == Flat(<<>>) = <<>>
  <1>1. Len(<<>>) = 0
    OBVIOUS
  <1>2. PICK f : Flat(<<>>) = f[0] /\ Joins(f, <<>>)
    BY <1>1, FlatFound
  <1> QED  BY <1>2 DEF Joins

LEMMA FlatAppend ==
    ASSUME NEW A, NEW lists \in Seq(Seq(A)), NEW x \in Seq(A)
    PROVE  Flat(Append(lists, x)) = Flat(lists) \o x
  <1> DEFINE more == Append(lists, x)
  <1>1. /\ more \in Seq(Seq(A)) /\ Len(more) = Len(lists) + 1 /\ Len(lists) \in Nat
        /\ \A i \in 1..Len(lists) : more[i] = lists[i]
        /\ more[Len(lists) + 1] = x
    BY Appended
  <1> HIDE DEF more
  <1>2. PICK f : Flat(lists) = f[Len(lists)] /\ Joins(f, lists)
    BY <1>1, FlatFound
  <1>3. PICK g : Flat(more) = g[Len(more)] /\ Joins(g, more)
    BY <1>1, FlatFound
  <1>4. \A n \in 0..Len(lists) : f[n] = g[n]
    <2>1. Len(lists) <= Len(more)
      BY <1>1
    <2>2. StartsAs(lists, more)
      BY <1>1, <2>1 DEF StartsAs
    <2>3. more \in Seq(Seq(A)) /\ Joins(f, lists) /\ Joins(g, more)
      BY <1>1, <1>2, <1>3
    <2> QED  BY <2>1, <2>2, <2>3, JoinsSame
  <1>5. Len(lists) + 1 \in 1..Len(more) /\ Len(lists) + 1 - 1 = Len(lists)
        /\ Len(lists) \in 0..Len(lists)
    BY <1>1
  <1>6. g[Len(lists) + 1] = g[Len(lists)] \o x
    <2>1. g[Len(lists) + 1] = g[Len(lists)] \o more[Len(lists) + 1]
      <3>1. Len(lists) + 1 <= Len(more) /\ Len(more) \in Nat
        BY <1>1
      <3> QED  BY <1>1, <1>3, <3>1, JoinsAt
    <2> QED  BY <1>1, <2>1
  <1>7. Flat(more) = Flat(lists) \o x
    BY <1>1, <1>2, <1>3, <1>4, <1>5, <1>6
  <1> QED  BY <1>7 DEF more

LEMMA FlatGrown ==
    ASSUME NEW A, NEW a \in Seq(Seq(A)), NEW b \in Seq(Seq(A)), StartsAs(a, b),
           \A i \in Len(a) + 1 .. Len(b) : b[i] = <<>>
    PROVE  Flat(b) = Flat(a)
  <1>1. Len(a) \in Nat /\ Len(b) \in Nat /\ Len(a) <= Len(b)
    BY DEF StartsAs
  <1>2. PICK f : Flat(a) = f[Len(a)] /\ Joins(f, a)
    BY <1>1, FlatFound
  <1>3. PICK g : Flat(b) = g[Len(b)] /\ Joins(g, b)
    BY <1>1, FlatFound
  <1>4. \A n \in 0..Len(a) : f[n] = g[n]
    BY <1>2, <1>3, JoinsSame
  <1>5. \A n \in 0..Len(b) : g[n] \in Seq(A)
    BY <1>3, JoinsType
  <1> DEFINE Same == {n \in Nat : Len(a) <= n /\ n <= Len(b) => g[n] = f[Len(a)]}
  <1>6. 0 \in Same
    BY <1>1, <1>4
  <1>7. ASSUME NEW n \in Nat, n \in Same
        PROVE  n + 1 \in Same
    <2> SUFFICES ASSUME Len(a) <= n + 1, n + 1 <= Len(b) PROVE g[n + 1] = f[Len(a)]
      OBVIOUS
    <2>1. CASE n + 1 = Len(a)
      <3>1. Len(a) \in 0..Len(a)
        BY <1>1
      <3>2. f[Len(a)] = g[Len(a)]
        BY <1>4, <3>1
      <3> QED  BY <2>1, <3>2
    <2>2. CASE n + 1 # Len(a)
      <3>1. /\ Len(a) <= n /\ n <= Len(b) /\ n + 1 \in 1..Len(b) /\ n + 1 - 1 = n
            /\ n \in 0..Len(b) /\ n + 1 \in Len(a) + 1 .. Len(b)
        BY <1>1, <2>2
      <3>2. g[n + 1] = g[n] \o b[n + 1]
        BY <1>1, <1>3, <3>1, JoinsAt
      <3>3. g[n] \in Seq(A) /\ b[n + 1] = <<>> /\ g[n] = f[Len(a)]
        BY <1>5, <1>7, <3>1
      <3>4. g[n] \o <<>> = g[n]
        BY <3>3
      <3> QED  BY <3>2, <3>3, <3>4
    <2> QED  BY <2>1, <2>2
  <1> HIDE DEF Same
  <1>8. Nat \subseteq Same
    BY <1>6, <1>7, Induction
  <1>9. g[Len(b)] = f[Len(a)]
    BY <1>1, <1>8 DEF Same
  <1> QED  BY <1>2, <1>3, <1>9

Keeps(kept, list, S) ==
    /\ kept[0] = <<>>
    /\ \A n \in Nat : n + 1 <= Len(list) =>
          kept[n + 1] = IF list[n + 1] \in S THEN Append(kept[n], list[n + 1]) ELSE kept[n]

LEMMA KeepsAt ==
    ASSUME NEW f, NEW list, NEW S, Keeps(f, list, S), NEW n \in Nat, n + 1 <= Len(list)
    PROVE  f[n + 1] = IF list[n + 1] \in S THEN Append(f[n], list[n + 1]) ELSE f[n]
  BY DEF Keeps

LEMMA KeptAppend ==
    ASSUME NEW A, NEW list \in Seq(A), NEW x \in A, NEW S
    PROVE  Kept(Append(list, x), S) =
              IF x \in S THEN Append(Kept(list, S), x) ELSE Kept(list, S)
  <1> DEFINE more == Append(list, x)
  <1>1. /\ more \in Seq(A) /\ Len(more) = Len(list) + 1 /\ Len(list) \in Nat
        /\ \A i \in 1..Len(list) : more[i] = list[i]
        /\ more[Len(list) + 1] = x
    BY Appended
  <1> HIDE DEF more
  <1>2. PICK f : Kept(list, S) = f[Len(list)] /\ Keeps(f, list, S)
    <2>1. \E f : Kept(list, S) = f[Len(list)] /\ Keeps(f, list, S)
      BY <1>1, KeptFound DEF Keeps
    <2> QED  BY <2>1
  <1>3. PICK g : Kept(more, S) = g[Len(more)] /\ Keeps(g, more, S)
    <2>1. \E g : Kept(more, S) = g[Len(more)] /\ Keeps(g, more, S)
      BY <1>1, KeptFound DEF Keeps
    <2> QED  BY <2>1
  <1> DEFINE Same == {n \in Nat : n <= Len(list) => f[n] = g[n]}
  <1>4. 0 \in Same
    BY <1>2, <1>3 DEF Keeps
  <1>5. ASSUME NEW n \in Nat, n \in Same
        PROVE  n + 1 \in Same
    <2> SUFFICES ASSUME n + 1 <= Len(list) PROVE f[n + 1] = g[n + 1]
      OBVIOUS
    <2>1. n + 1 <= Len(more) /\ n + 1 \in 1..Len(list) /\ f[n] = g[n]
      BY <1>1, <1>5
    <2>2. f[n + 1] = IF list[n + 1] \in S THEN Append(f[n], list[n + 1]) ELSE f[n]
      BY <1>2, KeepsAt
    <2>3. g[n + 1] = IF more[n + 1] \in S THEN Append(g[n], more[n + 1]) ELSE g[n]
      BY <1>3, <2>1, KeepsAt
    <2>4. more[n + 1] = list[n + 1]
      BY <1>1, <2>1
    <2> QED  BY <2>1, <2>2, <2>3, <2>4
  <1> HIDE DEF Same
  <1>6. Nat \subseteq Same
    BY <1>4, <1>5, Induction
  <1>7. f[Len(list)] = g[Len(list)]
    BY <1>1, <1>6 DEF Same
  <1>8. Len(list) + 1 <= Len(more)
    BY <1>1
  <1>9. g[Len(list) + 1] = IF more[Len(list) + 1] \in S
                           THEN Append(g[Len(list)], more[Len(list) + 1]) ELSE g[Len(list)]
    BY <1>1, <1>3, <1>8, KeepsAt
  <1>10. Kept(more, S) = IF x \in S THEN Append(Kept(list, S), x) ELSE Kept(list, S)
    BY <1>1, <1>2, <1>3, <1>7, <1>9
  <1> QED  BY <1>10 DEF more

LEMMA KeptNone == ASSUME NEW S PROVE Kept(<<>>, S) = <<>>
  <1>1. Len(<<>>) = 0
    OBVIOUS
  <1>2. PICK f : Kept(<<>>, S) = f[0] /\ f[0] = <<>>
    BY <1>1, KeptFound
  <1> QED  BY <1>2

-----------------------------------------------------------------------------
(* Lists of lists joined.                                                   *)

LEMMA JoinTwice ==
    ASSUME NEW A, NEW a \in Seq(A), NEW b \in Seq(A), NEW c \in Seq(A)
    PROVE  (a \o b) \o c = a \o (b \o c)
  <1> DEFINE ab == a \o b
             bc == b \o c
             left == ab \o c
             right == a \o bc
             p == Len(a)
             q == Len(b)
             r == Len(c)
  <1>0. p \in Nat /\ q \in Nat /\ r \in Nat
    OBVIOUS
  <1>1. /\ ab \in Seq(A) /\ DOMAIN ab = 1..p + q
        /\ \A k \in 1..p : ab[k] = a[k]
        /\ \A k \in 1..q : ab[p + k] = b[k]
    BY Joined
  <1>2. /\ bc \in Seq(A) /\ DOMAIN bc = 1..q + r
        /\ \A k \in 1..q : bc[k] = b[k]
        /\ \A k \in 1..r : bc[q + k] = c[k]
    BY Joined
  <1>3. Len(ab) = p + q /\ Len(bc) = q + r
    <2> HIDE DEF ab, bc, p, q, r
    <2> QED  BY <1>0, <1>1, <1>2, LengthOf
  <1>4. /\ left \in Seq(A) /\ DOMAIN left = 1..Len(ab) + r
        /\ \A k \in 1..Len(ab) : left[k] = ab[k]
        /\ \A k \in 1..r : left[Len(ab) + k] = c[k]
    <2>1. ab \in Seq(A)
      BY <1>1
    <2> HIDE DEF ab
    <2> QED  BY <2>1, Joined
  <1>5. /\ right \in Seq(A) /\ DOMAIN right = 1..p + Len(bc)
        /\ \A k \in 1..p : right[k] = a[k]
        /\ \A k \in 1..Len(bc) : right[p + k] = bc[k]
    <2>1. bc \in Seq(A)
      BY <1>2
    <2> HIDE DEF bc
    <2> QED  BY <2>1, Joined
  <1> HIDE DEF ab, bc, left, right, p, q, r
  <1>6. Len(left) = p + q + r /\ Len(right) = p + q + r
    <2>1. Len(ab) + r = p + q + r /\ p + Len(bc) = p + q + r /\ p + q + r \in Nat
      BY <1>0, <1>3
    <2> QED  BY <1>4, <1>5, <2>1, LengthOf
  <1>7. ASSUME NEW k \in 1..p + q + r
        PROVE  left[k] = right[k]
    <2>1. CASE k <= p
      <3>1. k \in 1..p /\ k \in 1..Len(ab)
        BY <1>0, <1>3, <2>1
      <3> QED  BY <1>1, <1>4, <1>5, <3>1
    <2>2. CASE k > p /\ k <= p + q
      <3>1. k - p \in 1..q /\ k \in 1..Len(ab) /\ k - p \in 1..Len(bc) /\ p + (k - p) = k
        BY <1>0, <1>3, <2>2
      <3>2. left[k] = ab[k] /\ ab[p + (k - p)] = b[k - p]
        BY <1>1, <1>4, <3>1
      <3>3. right[p + (k - p)] = bc[k - p] /\ bc[k - p] = b[k - p]
        BY <1>2, <1>5, <3>1
      <3> QED  BY <3>1, <3>2, <3>3
    <2>3. CASE k > p + q
      <3>1. /\ k - (p + q) \in 1..r /\ Len(ab) + (k - (p + q)) = k
            /\ q + (k - (p + q)) \in 1..Len(bc) /\ p + (q + (k - (p + q))) = k
        BY <1>0, <1>3, <2>3
      <3>2. left[Len(ab) + (k - (p + q))] = c[k - (p + q)]
        BY <1>4, <3>1
      <3>3. right[p + (q + (k - (p + q)))] = bc[q + (k - (p + q))]
        BY <1>5, <3>1
      <3>4. bc[q + (k - (p + q))] = c[k - (p + q)]
        BY <1>2, <3>1
      <3> QED  BY <3>1, <3>2, <3>3, <3>4
    <2> QED  BY <1>0, <2>1, <2>2, <2>3
  <1>8. left = right
    <2>1. left \in Seq(A) /\ right \in Seq(A) /\ Len(left) = Len(right)
          /\ \A k \in 1..Len(left) : left[k] = right[k]
      BY <1>4, <1>5, <1>6, <1>7
    <2> QED  BY <2>1, SameList
  <1> QED  BY <1>8 DEF ab, bc, left, right

LEMMA FlatOnes ==
    ASSUME NEW A, NEW list \in Seq(A), NEW ones \in Seq(Seq(A)), Len(ones) = Len(list),
           \A i \in 1..Len(list) : ones[i] = <<list[i]>>
    PROVE  Flat(ones) = list
  <1>1. Len(list) \in Nat /\ Len(ones) \in Nat
    OBVIOUS
  <1>2. PICK f : Flat(ones) = f[Len(ones)] /\ Joins(f, ones)
    BY <1>1, FlatFound
  <1>3. \A n \in 0..Len(ones) : f[n] \in Seq(A)
    BY <1>2, JoinsType
  <1> DEFINE Same == {n \in Nat : n <= Len(list) =>
                         Len(f[n]) = n /\ \A i \in 1..n : f[n][i] = list[i]}
  <1>4. 0 \in Same
    BY <1>2 DEF Joins
  <1>5. ASSUME NEW n \in Nat, n \in Same
        PROVE  n + 1 \in Same
    <2> SUFFICES ASSUME n + 1 <= Len(list)
                 PROVE  Len(f[n + 1]) = n + 1 /\ \A i \in 1..n + 1 : f[n + 1][i] = list[i]
      OBVIOUS
    <2>0. n <= Len(list) /\ n \in 0..Len(ones) /\ n + 1 \in 1..Len(list)
      BY <1>1
    <2>1. f[n] \in Seq(A) /\ Len(f[n]) = n /\ \A i \in 1..n : f[n][i] = list[i]
      BY <1>3, <1>5, <2>0
    <2>2. f[n + 1] = f[n] \o ones[n + 1]
      BY <1>1, <1>2, <2>0, JoinsAt
    <2>3. ones[n + 1] = <<list[n + 1]>> /\ list[n + 1] \in A
      BY <2>0
    <2>4. f[n + 1] = Append(f[n], list[n + 1])
      BY <2>1, <2>2, <2>3
    <2>5. /\ Len(f[n + 1]) = n + 1 /\ f[n + 1][n + 1] = list[n + 1]
          /\ \A i \in 1..n : f[n + 1][i] = f[n][i]
      BY <2>1, <2>3, <2>4, Appended
    <2> QED  BY <2>1, <2>5
  <1> HIDE DEF Same
  <1>6. Nat \subseteq Same
    BY <1>4, <1>5, Induction
  <1>7. f[Len(list)] \in Seq(A)
    BY <1>1, <1>3
  <1>8. Len(f[Len(list)]) = Len(list) /\ \A i \in 1..Len(list) : f[Len(list)][i] = list[i]
    BY <1>1, <1>6 DEF Same
  <1>9. f[Len(list)] = list
    BY <1>7, <1>8, SameList
  <1> QED  BY <1>2, <1>9

LEMMA FlatOne == ASSUME NEW A, NEW x \in Seq(A) PROVE Flat(<<x>>) = x
  <1>1. <<>> \in Seq(Seq(A)) /\ Append(<<>>, x) = <<x>> /\ <<>> \o x = x
    OBVIOUS
  <1> QED  BY <1>1, FlatAppend, FlatEmpty

LEMMA FlatJoin ==
    ASSUME NEW A, NEW a \in Seq(Seq(A)), NEW b \in Seq(Seq(A))
    PROVE  Flat(a \o b) = Flat(a) \o Flat(b)
  <1> DEFINE all == a \o b
  <1>1. /\ all \in Seq(Seq(A)) /\ DOMAIN all = 1..Len(a) + Len(b)
        /\ \A k \in 1..Len(a) : all[k] = a[k]
        /\ \A k \in 1..Len(b) : all[Len(a) + k] = b[k]
    BY Joined
  <1>2. Len(a) \in Nat /\ Len(b) \in Nat
    OBVIOUS
  <1> HIDE DEF all
  <1>3. Len(all) = Len(a) + Len(b)
    BY <1>1, <1>2, LengthOf
  <1>4. PICK f : Flat(a) = f[Len(a)] /\ Joins(f, a)
    BY <1>2, FlatFound
  <1>5. PICK g : Flat(b) = g[Len(b)] /\ Joins(g, b)
    BY <1>2, FlatFound
  <1>6. PICK h : Flat(all) = h[Len(all)] /\ Joins(h, all)
    <2>1. Len(all) \in Nat
      BY <1>2, <1>3
    <2> QED  BY ONLY <2>1, FlatFound
  <1>7. \A n \in 0..Len(a) : f[n] = h[n]
    <2>1. StartsAs(a, all)
      BY <1>1, <1>2, <1>3 DEF StartsAs
    <2> QED  BY <1>1, <1>4, <1>6, <2>1, JoinsSame
  <1>8. /\ \A n \in 0..Len(a) : f[n] \in Seq(A)
        /\ \A n \in 0..Len(b) : g[n] \in Seq(A)
    BY <1>4, <1>5, JoinsType
  <1>9. f[Len(a)] \in Seq(A) /\ h[Len(a)] = f[Len(a)]
    BY <1>2, <1>7, <1>8
  <1> DEFINE SameAt(n) == h[Len(a) + n] = f[Len(a)] \o g[n]
             Same == {n \in Nat : n <= Len(b) => SameAt(n)}
  <1>10. SameAt(0)
    <2>1. f[Len(a)] \o <<>> = f[Len(a)]
      BY <1>9
    <2>2. g[0] = <<>> /\ Len(a) + 0 = Len(a)
      BY <1>2, <1>5 DEF Joins
    <2> QED  BY <1>9, <2>1, <2>2
  <1>11. ASSUME NEW n \in Nat, n \in Same
         PROVE  n + 1 \in Same
    <2> HIDE DEF SameAt
    <2> SUFFICES ASSUME n + 1 <= Len(b)
                 PROVE  SameAt(n + 1)
      OBVIOUS
    <2>0. n <= Len(b) /\ n \in 0..Len(b) /\ n + 1 \in 1..Len(b)
      BY <1>2
    <2>1. h[Len(a) + n] = f[Len(a)] \o g[n]
      BY <1>11, <2>0 DEF SameAt
    <2>2. g[n + 1] = g[n] \o b[n + 1]
      BY <1>2, <1>5, <2>0, JoinsAt
    <2>3. h[(Len(a) + n) + 1] = h[Len(a) + n] \o all[(Len(a) + n) + 1]
      <3>1. Len(a) + n \in Nat /\ (Len(a) + n) + 1 <= Len(all) /\ Len(all) \in Nat
        BY <1>2, <1>3, <2>0
      <3> QED  BY ONLY <1>6, <3>1, JoinsAt
    <2>4. (Len(a) + n) + 1 = Len(a) + (n + 1) /\ all[Len(a) + (n + 1)] = b[n + 1]
      BY <1>1, <1>2, <2>0
    <2>5. h[Len(a) + (n + 1)] = (f[Len(a)] \o g[n]) \o b[n + 1]
      BY <2>1, <2>3, <2>4
    <2>6. f[Len(a)] \in Seq(A) /\ g[n] \in Seq(A) /\ b[n + 1] \in Seq(A)
      BY <1>8, <1>9, <2>0
    <2> DEFINE x == f[Len(a)]  y == g[n]  z == b[n + 1]
    <2> HIDE DEF x, y, z
    <2>8. x \in Seq(A) /\ y \in Seq(A) /\ z \in Seq(A)
      BY <2>6 DEF x, y, z
    <2>7. (x \o y) \o z = x \o (y \o z)
      BY ONLY <2>8, JoinTwice
    <2> QED  BY <2>2, <2>5, <2>7 DEF x, y, z, SameAt
  <1> HIDE DEF SameAt
  <1>12. Nat \subseteq Same
    <2>1. 0 \in Same
      BY <1>10
    <2> HIDE DEF Same
    <2> QED  BY <1>11, <2>1, Induction
  <1>13. SameAt(Len(b))
    BY <1>2, <1>12
  <1> QED  BY <1>3, <1>4, <1>5, <1>6, <1>13 DEF all, SameAt

=============================================================================
