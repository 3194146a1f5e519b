------------------------- MODULE SessionSave_proofs -------------------------
(***************************************************************************)
(* Proofs about saving, for every set of turns and of tasks that save, and *)
(* whatever edits, failures and crashes come in between.                   *)
(***************************************************************************)
EXTENDS SessionSave, Lists_proofs, FiniteSetTheorems

(* Turns that have contents, by w.                                          *)
Written(w) == {t \in Turns : w[t] # 0}

(* The transactions of an incremental and of a full save.                   *)
StepOf(w) ==
    {Session}
    \cup {OnTurn("delete", t) : t \in Turns}
    \cup {OnTurn("save", t) : t \in Written(w)}
    \cup {OnList("order", ids) : ids \in Seq(Turns)}

FullStep(wire) ==
    {Session} \cup {OnList("replace", ids) : ids \in Seq(DOMAIN wire)}

(* A save carries contents for each turn it is about to write.              *)
CarriesContents(v, w) ==
    /\ v.full \in BOOLEAN
    /\ v.full => /\ DOMAIN v.wire \subseteq Turns
                 /\ v.wire \in [DOMAIN v.wire -> Nat \ {0}]
                 /\ v.todo \in Seq(FullStep(v.wire))
    /\ ~v.full => /\ v.todo \in Seq(StepOf(w))
                  /\ v.todo # <<>> /\ Head(v.todo).op = "save" =>
                        v.wire[Head(v.todo).turn] \in Nat \ {0}

MemoryInv(ts, w, gone) ==
    /\ ts \in Seq(Turns)
    /\ w \in [Turns -> Nat]
    /\ gone \subseteq Turns
    /\ \A t \in Range(ts) : w[t] # 0

StoreInv ==
    /\ order \in Seq(Turns)
    /\ records \in [Turns -> Nat]
    /\ OrderHasRecords

QueueInv ==
    /\ jobs \in Seq(Tasks)
    /\ Unique(jobs)
    /\ DOMAIN saver = Tasks
    /\ \A s \in Range(jobs) : saver[s].todo # <<>>

SaveInv ==
    /\ MemoryInv(turns, version, deleted)
    /\ savedOrder \in Seq(Turns)
    /\ StoreInv
    /\ QueueInv
    /\ \A s \in Tasks : CarriesContents(saver[s], version)

-----------------------------------------------------------------------------
(* Lists of turns                                                           *)

(* The first turns of a list.                                               *)
First(list, n) == SubSeq(list, 1, n)

LEMMA FirstOf ==
    ASSUME NEW S, NEW list \in Seq(S), NEW n \in 0..Len(list)
    PROVE  /\ First(list, n) \in Seq(S) /\ Len(First(list, n)) = n
           /\ DOMAIN First(list, n) = 1..n
           /\ \A i \in 1..n : First(list, n)[i] = list[i]
           /\ Range(First(list, n)) = {list[i] : i \in 1..n}
  <1>1. /\ First(list, n) \in Seq(S) /\ Len(First(list, n)) = n
        /\ DOMAIN First(list, n) = 1..n
        /\ \A i \in 1..n : First(list, n)[i] = list[i]
    BY DEF First
  <1> QED  BY <1>1 DEF Range

LEMMA FirstAll ==
    ASSUME NEW S, NEW list \in Seq(S)
    PROVE  First(list, Len(list)) = list
  BY DEF First

LEMMA FirstGrows ==
    ASSUME NEW S, NEW list \in Seq(S), NEW n \in 0..Len(list), n < Len(list)
    PROVE  Append(First(list, n), list[n + 1]) = First(list, n + 1)
  <1> DEFINE a == First(list, n)
             b == First(list, n + 1)
  <1>1. n + 1 \in 0..Len(list) /\ n \in Nat /\ list[n + 1] \in S
    OBVIOUS
  <1>2. a \in Seq(S) /\ Len(a) = n /\ \A i \in 1..n : a[i] = list[i]
    BY FirstOf
  <1>3. b \in Seq(S) /\ Len(b) = n + 1 /\ \A i \in 1..n + 1 : b[i] = list[i]
    BY <1>1, FirstOf
  <1> HIDE DEF a, b
  <1>4. /\ Append(a, list[n + 1]) \in Seq(S) /\ Len(Append(a, list[n + 1])) = n + 1
        /\ \A i \in 1..n + 1 : Append(a, list[n + 1])[i] = list[i]
    BY <1>1, <1>2
  <1>5. Append(a, list[n + 1]) = b
    BY <1>3, <1>4, SameList
  <1> QED  BY <1>5 DEF a, b

LEMMA FirstAppend ==
    ASSUME NEW S, NEW list \in Seq(S), NEW x \in S, NEW n \in 0..Len(list)
    PROVE  First(Append(list, x), n) = First(list, n)
  <1>1. /\ Append(list, x) \in Seq(S) /\ n \in 0..Len(Append(list, x))
        /\ \A i \in 1..n : Append(list, x)[i] = list[i]
    OBVIOUS
  <1> DEFINE longer == Append(list, x)
  <1> HIDE DEF longer
  <1>2. longer \in Seq(S) /\ n \in 0..Len(longer) /\ \A i \in 1..n : longer[i] = list[i]
    BY <1>1 DEF longer
  <1>3. /\ First(longer, n) \in Seq(S) /\ Len(First(longer, n)) = n
        /\ \A i \in 1..n : First(longer, n)[i] = list[i]
    BY <1>2, FirstOf
  <1>4. /\ First(list, n) \in Seq(S) /\ Len(First(list, n)) = n
        /\ \A i \in 1..n : First(list, n)[i] = list[i]
    BY FirstOf
  <1>5. First(longer, n) = First(list, n)
    BY <1>3, <1>4, SameList
  <1> QED  BY <1>5 DEF longer

(* A range of a list gives way to one member.                               *)
Replaced(list, i, j, x) ==
    SubSeq(list, 1, i - 1) \o <<x>> \o SubSeq(list, j + 1, Len(list))

LEMMA RangeReplaced ==
    ASSUME NEW S, NEW list \in Seq(S), Unique(list), NEW x \in S, x \notin Range(list),
           NEW i \in DOMAIN list, NEW j \in DOMAIN list, i <= j,
           NEW new, new = Replaced(list, i, j, x)
    PROVE  /\ new \in Seq(S) /\ Unique(new)
           /\ x \in Range(new) /\ Range(new) \subseteq Range(list) \cup {x}
           /\ Range(new) \cap Range(SubSeq(list, i, j)) = {}
  <1> DEFINE n == Len(list)
             front == SubSeq(list, 1, i - 1)
             rest == SubSeq(list, j + 1, Len(list))
             mid == SubSeq(list, i, j)
  <1>1. /\ n \in Nat /\ i \in 1..n /\ j \in 1..n /\ DOMAIN list = 1..n
        /\ \A k \in 1..n : list[k] \in S
    OBVIOUS
  <1>2. /\ front \in Seq(S) /\ Len(front) = i - 1
        /\ \A k \in 1..i - 1 : front[k] = list[k]
    BY <1>1
  <1>3. /\ rest \in Seq(S) /\ Len(rest) = n - j
        /\ \A k \in 1..n - j : rest[k] = list[k + j]
    BY <1>1
  <1>4. /\ DOMAIN mid = 1..j - i + 1
        /\ \A k \in 1..j - i + 1 : mid[k] = list[k + i - 1]
    BY <1>1
  <1>5. new = front \o <<x>> \o rest
    BY DEF Replaced
  <1>6. \A a, b \in 1..n : list[a] = list[b] => a = b
    BY <1>1 DEF Unique
  <1>7. \A a \in 1..n : list[a] # x
    BY <1>1 DEF Range
  <1> HIDE DEF front, rest, mid, n
  <1>8. /\ front \o <<x>> \in Seq(S) /\ Len(front \o <<x>>) = i
        /\ \A k \in 1..i : (front \o <<x>>)[k] = IF k < i THEN list[k] ELSE x
    BY <1>1, <1>2
  <1> DEFINE first == front \o <<x>>
             src(k) == k - i + j
  <1> HIDE DEF first
  <1>9. /\ new \in Seq(S) /\ DOMAIN new = 1..i + (n - j)
        /\ \A k \in 1..i : new[k] = first[k]
        /\ \A k \in 1..n - j : new[i + k] = rest[k]
    <2>1. new = first \o rest /\ first \in Seq(S) /\ Len(first) = i
      BY <1>5, <1>8 DEF first
    <2> DEFINE d == n - j
    <2>2. i \in Nat /\ d \in Nat /\ rest \in Seq(S) /\ Len(rest) = d
      BY <1>1, <1>3
    <2> HIDE DEF d
    <2>3. /\ first \o rest \in Seq(S) /\ DOMAIN (first \o rest) = 1..i + d
          /\ \A k \in 1..i : (first \o rest)[k] = first[k]
          /\ \A k \in 1..d : (first \o rest)[i + k] = rest[k]
      <3>1. /\ first \o rest \in Seq(S)
            /\ DOMAIN (first \o rest) = 1..Len(first) + Len(rest)
            /\ \A k \in 1..Len(first) : (first \o rest)[k] = first[k]
            /\ \A k \in 1..Len(rest) : (first \o rest)[Len(first) + k] = rest[k]
        BY ONLY <2>1, <2>2, Joined
      <3> QED  BY ONLY <2>1, <2>2, <3>1, Zenon
    <2> QED  BY <2>1, <2>3 DEF d
  <1>10. /\ \A k \in 1..i + (n - j) : k < i => k \in 1..n /\ new[k] = list[k]
         /\ new[i] = x /\ i \in 1..i + (n - j)
    <2>1. \A k \in 1..i + (n - j) : k < i => k \in 1..n /\ k \in 1..i
      BY ONLY <1>1, i \in DOMAIN list, j \in DOMAIN list, i <= j
    <2>2. i \in 1..i /\ i \in 1..i + (n - j) /\ ~(i < i)
      BY ONLY <1>1, i \in DOMAIN list, j \in DOMAIN list, i <= j
    <2>3. \A k \in 1..i : new[k] = IF k < i THEN list[k] ELSE x
      BY <1>8, <1>9 DEF first
    <2> QED  BY <2>1, <2>2, <2>3
  <1>11. ASSUME NEW k \in 1..i + (n - j), k > i
         PROVE  src(k) \in j + 1..n /\ new[k] = list[src(k)]
    <2>1. k - i \in 1..n - j /\ i + (k - i) = k /\ (k - i) + j = src(k)
      BY <1>1, <1>11
    <2>2. new[i + (k - i)] = rest[k - i] /\ rest[k - i] = list[(k - i) + j]
      BY <1>3, <1>9, <2>1
    <2>3. src(k) \in j + 1..n
      BY <1>1, <1>11
    <2> QED  BY <2>1, <2>2, <2>3
  <1>12. \A k \in 1..i + (n - j) : k < i \/ k = i \/ k > i
    BY <1>1
  <1>13. \A k \in 1..i + (n - j) : k > i => src(k) \in 1..n
    BY <1>1, <1>11
  <1>14. Range(new) \subseteq Range(list) \cup {x}
    <2>1. \A k \in 1..n : list[k] \in Range(list)
      BY <1>1 DEF Range
    <2>2. ASSUME NEW k \in 1..i + (n - j) PROVE new[k] \in Range(list) \cup {x}
      <3>1. CASE k < i
        BY <1>10, <2>1, <3>1
      <3>2. CASE k = i
        BY <1>10, <3>2
      <3>3. CASE k > i
        BY <1>11, <1>13, <2>1, <3>3
      <3> QED  BY <1>12, <3>1, <3>2, <3>3
    <2> QED  BY <1>9, <2>2 DEF Range
  <1>15. x \in Range(new)
    BY <1>9, <1>10 DEF Range
  <1>16. ASSUME NEW a \in 1..i + (n - j), NEW b \in 1..i + (n - j), new[a] = new[b]
         PROVE  a = b
    <2>1. CASE a < i
      <3>1. a \in 1..n /\ new[a] = list[a]
        BY <1>10, <2>1
      <3>2. CASE b < i
        <4>1. b \in 1..n /\ new[b] = list[b]
          BY <1>10, <3>2
        <4> QED  BY <1>6, <1>16, <3>1, <4>1
      <3>3. CASE b = i
        BY <1>7, <1>10, <1>16, <3>1, <3>3
      <3>4. CASE b > i
        <4>1. src(b) \in j + 1..n /\ new[b] = list[src(b)] /\ src(b) \in 1..n
          BY <1>11, <1>13, <3>4
        <4>2. src(b) = a
          BY <1>6, <1>16, <3>1, <4>1
        <4> QED  BY <1>1, <2>1, <4>1, <4>2
      <3> QED  BY <1>12, <3>2, <3>3, <3>4
    <2>2. CASE a = i
      <3>1. CASE b < i
        BY <1>7, <1>10, <1>16, <2>2, <3>1
      <3>2. CASE b > i
        BY <1>7, <1>10, <1>11, <1>13, <1>16, <2>2, <3>2
      <3> QED  BY <1>12, <2>2, <3>1, <3>2
    <2>3. CASE a > i
      <3>1. src(a) \in j + 1..n /\ new[a] = list[src(a)] /\ src(a) \in 1..n
        BY <1>11, <1>13, <2>3
      <3>2. CASE b < i
        <4>1. b \in 1..n /\ new[b] = list[b]
          BY <1>10, <3>2
        <4>2. src(a) = b
          BY <1>6, <1>16, <3>1, <4>1
        <4> QED  BY <1>1, <3>1, <3>2, <4>2
      <3>3. CASE b = i
        BY <1>7, <1>10, <1>16, <3>1, <3>3
      <3>4. CASE b > i
        <4>1. new[b] = list[src(b)] /\ src(b) \in 1..n
          BY <1>11, <1>13, <3>4
        <4>2. src(a) = src(b)
          BY <1>6, <1>16, <3>1, <4>1
        <4> QED  BY <1>1, <4>2
      <3> QED  BY <1>12, <3>2, <3>3, <3>4
    <2> QED  BY <1>12, <2>1, <2>2, <2>3
  <1>17. ASSUME NEW a \in 1..i + (n - j), NEW b \in 1..j - i + 1, new[a] = mid[b]
         PROVE  FALSE
    <2>1. mid[b] = list[b + i - 1] /\ b + i - 1 \in 1..n
          /\ b + i - 1 >= i /\ b + i - 1 <= j
      BY <1>1, <1>4
    <2>2. CASE a < i
      BY <1>1, <1>6, <1>10, <1>17, <2>1, <2>2
    <2>3. CASE a = i
      BY <1>7, <1>10, <1>17, <2>1, <2>3
    <2>4. CASE a > i
      <3>1. src(a) \in j + 1..n /\ new[a] = list[src(a)] /\ src(a) \in 1..n
        BY <1>11, <1>13, <2>4
      <3>2. src(a) = b + i - 1
        BY <1>6, <1>17, <2>1, <3>1
      <3> QED  BY <1>1, <2>1, <3>1, <3>2
    <2> QED  BY <1>12, <2>2, <2>3, <2>4
  <1>18. Unique(new)
    BY <1>9, <1>16 DEF Unique
  <1>19. Range(new) \cap Range(mid) = {}
    <2>1. \A y \in Range(new) : \E a \in 1..i + (n - j) : y = new[a]
      BY <1>9 DEF Range
    <2>2. \A y \in Range(mid) : \E b \in 1..j - i + 1 : y = mid[b]
      BY <1>4 DEF Range
    <2> SUFFICES ASSUME NEW y \in Range(new), y \in Range(mid) PROVE FALSE
      OBVIOUS
    <2>3. PICK a \in 1..i + (n - j) : y = new[a]
      BY <2>1
    <2>4. PICK b \in 1..j - i + 1 : y = mid[b]
      BY <2>2
    <2> QED  BY <1>17, <2>3, <2>4
  <1> QED  BY <1>9, <1>14, <1>15, <1>18, <1>19 DEF mid

-----------------------------------------------------------------------------
(* The store: a transaction that carries contents keeps it in order.        *)

LEMMA CommitStore ==
    ASSUME StoreInv, NEW v, NEW w \in [Turns -> Nat],
           CarriesContents(v, w), v.todo # <<>>,
           Commit(Head(v.todo), v.wire)
    PROVE  StoreInv'
  <1> DEFINE tx == Head(v.todo)
  <1> USE DEF StoreInv, OrderHasRecords
  <1>1. CASE v.full
    <2>1. tx \in FullStep(v.wire)
      BY <1>1 DEF CarriesContents
    <2>2. CASE tx = Session
      BY <2>2 DEF Commit, Session, store
    <2>3. ASSUME NEW ids \in Seq(DOMAIN v.wire), tx = OnList("replace", ids)
          PROVE  StoreInv'
      <3>1. ReplaceTurns(ids, v.wire)
        BY <2>3 DEF Commit, OnList
      <3>2. Range(ids) \subseteq DOMAIN v.wire /\ ids \in Seq(Turns)
        BY <1>1, RangeType, SeqMonotone DEF CarriesContents
      <3>3. \A t \in Range(ids) : v.wire[t] \in Nat \ {0}
        BY <1>1, <3>2 DEF CarriesContents
      <3>4. \A t \in Turns : records'[t] = IF t \in Range(ids) THEN v.wire[t]
                ELSE IF t \in Range(order) THEN 0 ELSE records[t]
        BY <3>1 DEF ReplaceTurns
      <3>5. records' \in [Turns -> Nat]
        BY <3>1, <3>3 DEF ReplaceTurns
      <3>6. order' = ids
        BY <3>1 DEF ReplaceTurns
      <3>7. Range(ids) \subseteq Turns
        BY <3>2, RangeType
      <3> QED  BY <3>2, <3>3, <3>4, <3>5, <3>6, <3>7
    <2> QED  BY <2>1, <2>2, <2>3 DEF FullStep
  <1>2. CASE ~v.full
    <2>1. tx \in StepOf(w)
      BY <1>2 DEF CarriesContents
    <2>2. CASE tx = Session
      BY <2>2 DEF Commit, Session, store
    <2>3. ASSUME NEW t \in Turns, tx = OnTurn("delete", t)
          PROVE  StoreInv'
      <3>1. DeleteTurnRecord(t)
        BY <2>3 DEF Commit, OnTurn
      <3>2. CASE t \in Range(order)
        <4>1. order' \in Seq(Turns) /\ Range(order') = Range(order) \cap (Turns \ {t})
          BY <3>1, <3>2, KeptRange DEF DeleteTurnRecord
        <4>2. records' = [records EXCEPT ![t] = 0]
          BY <3>1, <3>2 DEF DeleteTurnRecord
        <4> QED  BY <4>1, <4>2
      <3>3. CASE t \notin Range(order)
        BY <3>1, <3>3 DEF DeleteTurnRecord, store
      <3> QED  BY <3>2, <3>3
    <2>4. ASSUME NEW t \in Written(w), tx = OnTurn("save", t)
          PROVE  StoreInv'
      <3>1. SaveTurn(t, v.wire) /\ tx.op = "save" /\ tx.turn = t
        BY <2>4 DEF Commit, OnTurn
      <3>2. t \in Turns /\ v.wire[t] \in Nat \ {0}
        BY <1>2, <3>1 DEF CarriesContents, Written
      <3>3. records' = [records EXCEPT ![t] = v.wire[t]]
        BY <3>1 DEF SaveTurn
      <3>4. order' \in Seq(Turns) /\ Range(order') \subseteq Range(order) \cup {t}
        BY <3>1, <3>2, RangeAppend DEF SaveTurn
      <3>5. Range(order) \subseteq Turns
        BY RangeType
      <3> QED  BY <3>2, <3>3, <3>4, <3>5
    <2>5. ASSUME NEW ids \in Seq(Turns), tx = OnList("order", ids)
          PROVE  StoreInv'
      <3>1. ReorderTurns(ids)
        BY <2>5 DEF Commit, OnList
      <3> QED  BY <3>1 DEF ReorderTurns
    <2> QED  BY <2>1, <2>2, <2>3, <2>4, <2>5 DEF StepOf
  <1> QED  BY <1>1, <1>2 DEF CarriesContents

-----------------------------------------------------------------------------
(* A save that begins.                                                      *)

LEMMA BeginSave ==
    ASSUME QueueInv, NEW m, MemoryInv(m.turns, m.version, m.deleted),
           NEW s \in Tasks, Begin(s, m),
           \A r \in Tasks : CarriesContents(saver[r], m.version)
    PROVE  /\ QueueInv'
           /\ \A r \in Tasks : CarriesContents(saver'[r], m.version)
  <1> USE DEF MemoryInv
  <1>1. PICK save \in IF savedOrder = <<>> THEN {FullSave(m)}
                     ELSE {IncrementalSave(m, gone) : gone \in SetToSeqs(m.deleted)} :
           saver' = [saver EXCEPT ![s] = save]
    BY DEF Begin
  <1>2. CarriesContents(save, m.version) /\ save.todo # <<>>
    <2>1. CASE savedOrder = <<>>
      <3>1. save = FullSave(m)
        BY <1>1, <2>1
      <3>2. Range(m.turns) \subseteq Turns /\ m.turns \in Seq(Range(m.turns))
        BY RangeType DEF Range
      <3>3. save.wire \in [Range(m.turns) -> Nat \ {0}]
        BY <3>1, <3>2 DEF FullSave
      <3>4. save.todo \in Seq(FullStep(save.wire)) /\ save.todo # <<>>
        BY <3>1, <3>2, <3>3 DEF FullSave, FullStep
      <3> QED  BY <3>1, <3>2, <3>3, <3>4 DEF FullSave, CarriesContents
    <2>2. CASE savedOrder # <<>>
      <3>1. PICK gone \in SetToSeqs(m.deleted) : save = IncrementalSave(m, gone)
        BY <1>1, <2>2
      <3> DEFINE new == Kept(m.turns, m.dirty)
                 known == Kept(m.turns, Known(m))
      <3>2. /\ save.todo = <<Session>>
                           \o [i \in 1..Len(gone) |-> OnTurn("delete", gone[i])]
                           \o [i \in 1..Len(new) |-> OnTurn("save", new[i])]
                           \o (IF known # savedOrder
                               THEN <<OnList("order", known)>> ELSE <<>>)
            /\ save.full = FALSE
        BY <3>1 DEF IncrementalSave
      <3>2a. new \in Seq(Turns) /\ Range(new) \subseteq Range(m.turns)
            /\ known \in Seq(Turns)
        BY KeptRange
      <3> HIDE DEF new, known
      <3>3. [i \in 1..Len(gone) |-> OnTurn("delete", gone[i])]
               \in Seq(StepOf(m.version))
        <4>1. Cardinality(m.deleted) \in Nat
          BY SaveAssumption, FS_Subset, FS_CardinalityType
        <4>2. gone \in [1..Cardinality(m.deleted) -> m.deleted]
          BY DEF SetToSeqs
        <4>3. gone \in Seq(Turns)
          BY <4>1, <4>2
        <4> QED  BY <4>3 DEF StepOf
      <3>4. [i \in 1..Len(new) |-> OnTurn("save", new[i])]
               \in Seq(StepOf(m.version))
        <4>1. new \in Seq(Range(new))
          BY <3>2a DEF Range
        <4>2. Range(new) \subseteq Written(m.version)
          BY <3>2a, RangeType DEF Written
        <4>3. new \in Seq(Written(m.version))
          BY <4>1, <4>2, SeqMonotone
        <4> QED  BY <4>3 DEF StepOf
      <3>5. (IF known # savedOrder THEN <<OnList("order", known)>> ELSE <<>>)
               \in Seq(StepOf(m.version))
        <4>2. OnList("order", known) \in StepOf(m.version)
          BY <3>2a DEF StepOf
        <4> QED  BY <4>2, OneOrNone
      <3>6. <<Session>> \in Seq(StepOf(m.version))
        BY DEF StepOf
      <3>7. save.todo \in Seq(StepOf(m.version))
        BY <3>2, <3>3, <3>4, <3>5, <3>6
      <3>8. save.todo # <<>> /\ Head(save.todo) = Session
        BY <3>2, <3>3, <3>4, <3>5, <3>6
      <3>9. Head(save.todo).op # "save"
        BY <3>8 DEF Session
      <3> QED  BY <3>2, <3>7, <3>8, <3>9 DEF CarriesContents
    <2> QED  BY <2>1, <2>2
  <1>3. jobs' \in Seq(Tasks) /\ Range(jobs') = Range(jobs) \cup {s}
    BY RangeAppend DEF Begin, QueueInv
  <1>4. Range(jobs) \subseteq Tasks
    BY RangeType DEF QueueInv
  <1>5. s \notin Range(jobs)
    BY DEF Begin, QueueInv, Idle
  <1>6. Unique(jobs')
    BY <1>5, UniqueAppend DEF Begin, QueueInv
  <1> QED  BY <1>1, <1>2, <1>3, <1>4, <1>6 DEF QueueInv

LEMMA IdleCarries == ASSUME NEW w PROVE CarriesContents(Idle, w)
  BY DEF CarriesContents, Idle

-----------------------------------------------------------------------------
(* The steps                                                                *)

LEMMA NextInQueue ==
    ASSUME SaveInv, jobs # <<>>
    PROVE  /\ Head(jobs) \in Tasks
           /\ saver[Head(jobs)].todo # <<>>
           /\ CarriesContents(saver[Head(jobs)], version)
           /\ Tail(jobs) \in Seq(Tasks)
           /\ Range(Tail(jobs)) \subseteq Range(jobs) \ {Head(jobs)}
           /\ Unique(Tail(jobs))
           /\ Range(jobs) \subseteq Tasks
  <1>1. jobs \in Seq(Tasks) /\ Head(jobs) \in Tasks
    BY DEF SaveInv, QueueInv
  <1>2. Head(jobs) \in Range(jobs)
    BY <1>1, RangeTail
  <1>3. Unique(Tail(jobs)) /\ Head(jobs) \notin Range(Tail(jobs))
    BY <1>1, UniqueTail DEF SaveInv, QueueInv
  <1> QED  BY <1>1, <1>2, <1>3, RangeTail, RangeType DEF SaveInv, QueueInv

(* The next transaction is serialised from turns that have contents.        *)
LEMMA NextCarries ==
    ASSUME NEW v, NEW w \in [Turns -> Nat], CarriesContents(v, w),
           Len(v.todo) > 1, w = version
    PROVE  /\ CarriesContents(Continued(v), w)
           /\ Continued(v).todo # <<>>
  <1> DEFINE u == Continued(v)
  <1>1. /\ u.todo = Tail(v.todo) /\ u.full = v.full
        /\ u.wire = IF v.full THEN v.wire ELSE Serialised(v.todo[2])
    BY DEF Continued
  <1> SUFFICES CarriesContents(u, w) /\ u.todo # <<>>
    OBVIOUS
  <1> HIDE DEF u
  <1>2. CASE v.full
    <2>1. v.todo \in Seq(FullStep(v.wire)) /\ u.wire = v.wire
      BY <1>1, <1>2 DEF CarriesContents
    <2>2. u.todo \in Seq(FullStep(u.wire)) /\ u.todo # <<>>
      BY <1>1, <2>1, SecondOfTail
    <2> QED  BY <1>1, <1>2, <2>1, <2>2 DEF CarriesContents
  <1>3. CASE ~v.full
    <2>1. v.todo \in Seq(StepOf(w)) /\ u.wire = Serialised(v.todo[2])
      BY <1>1, <1>3 DEF CarriesContents
    <2>2. /\ u.todo \in Seq(StepOf(w)) /\ u.todo # <<>>
          /\ Head(u.todo) = v.todo[2] /\ v.todo[2] \in StepOf(w)
      BY <1>1, <2>1, SecondOfTail
    <2>3. ASSUME v.todo[2].op = "save"
          PROVE  u.wire[v.todo[2].turn] \in Nat \ {0}
      <3>1. v.todo[2] \in {OnTurn("save", t) : t \in Written(w)}
        BY <2>2, <2>3 DEF StepOf, Session, OnTurn, OnList
      <3>2. v.todo[2].turn \in Written(w)
        BY <3>1 DEF OnTurn
      <3>3. u.wire = [t \in {v.todo[2].turn} |-> version[t]]
        BY <2>1, <2>3 DEF Serialised
      <3> QED  BY <3>2, <3>3 DEF Written
    <2> QED  BY <1>1, <1>3, <2>2, <2>3 DEF CarriesContents
  <1> QED  BY <1>2, <1>3 DEF CarriesContents

(* A save that is over, one way or another.                                 *)
LEMMA LeftQueue ==
    ASSUME QueueInv, \A r \in Tasks : CarriesContents(saver[r], version),
           NEW s \in Tasks, saver' = [saver EXCEPT ![s] = Idle],
           jobs' \in Seq(Tasks), Unique(jobs'),
           Range(jobs') \subseteq Range(jobs), s \notin Range(jobs'),
           UNCHANGED version
    PROVE  QueueInv' /\ \A r \in Tasks : CarriesContents(saver[r], version)'
  <1>1. DOMAIN saver = Tasks /\ Range(jobs) \subseteq Tasks
    BY RangeType DEF QueueInv
  <1>2. saver'[s] = Idle /\ \A r \in Tasks \ {s} : saver'[r] = saver[r]
    BY <1>1
  <1>3. \A r \in Tasks : CarriesContents(saver'[r], version')
    BY <1>2, IdleCarries
  <1> QED  BY <1>1, <1>2, <1>3 DEF QueueInv

LEMMA ExecuteStep == SaveInv /\ Execute => SaveInv'
  <1> SUFFICES ASSUME SaveInv, Execute PROVE SaveInv'
    OBVIOUS
  <1> DEFINE s == Head(jobs)
  <1>1. /\ jobs # <<>> /\ s \in Tasks /\ saver[s].todo # <<>>
        /\ CarriesContents(saver[s], version)
        /\ Tail(jobs) \in Seq(Tasks) /\ Unique(Tail(jobs))
        /\ Range(Tail(jobs)) \subseteq Range(jobs) \ {s}
        /\ Range(jobs) \subseteq Tasks
    BY NextInQueue DEF Execute
  <1>2. version \in [Turns -> Nat] /\ StoreInv /\ DOMAIN saver = Tasks
    BY DEF SaveInv, MemoryInv, QueueInv
  <1>3. Commit(Head(saver[s].todo), saver[s].wire)
    BY DEF Execute
  <1>4. StoreInv'
    BY <1>1, <1>2, <1>3, CommitStore
  <1>5. CASE Len(saver[s].todo) > 1
    <2>1. /\ saver' = [saver EXCEPT ![s] = Continued(saver[s])]
          /\ jobs' = Append(Tail(jobs), s)
          /\ UNCHANGED memory
      BY <1>5 DEF Execute
    <2>2. saver'[s] = Continued(saver[s])
      BY <1>1, <1>2, <2>1
    <2>3. \A r \in Tasks \ {s} : saver'[r] = saver[r]
      BY <1>2, <2>1
    <2>4. CarriesContents(saver'[s], version) /\ saver'[s].todo # <<>>
      BY <1>1, <1>2, <1>5, <2>2, NextCarries
    <2>5. jobs' \in Seq(Tasks) /\ Range(jobs') = Range(Tail(jobs)) \cup {s}
      <3>1. PICK rest : rest = Tail(jobs)
        OBVIOUS
      <3>2. rest \in Seq(Tasks) /\ s \in Tasks
        BY <1>1, <3>1
      <3>3. Append(rest, s) \in Seq(Tasks) /\ Range(Append(rest, s)) = Range(rest) \cup {s}
        BY ONLY <3>2, RangeAppend
      <3> QED  BY <2>1, <3>1, <3>3
    <2>6. QueueInv'
      <3>1. DOMAIN saver' = Tasks
        BY <1>2, <2>1
      <3>2. Unique(jobs')
        BY <1>1, <2>1, UniqueAppend
      <3> QED  BY <1>1, <2>3, <2>4, <2>5, <3>1, <3>2 DEF SaveInv, QueueInv
    <2> QED  BY <1>4, <2>1, <2>3, <2>4, <2>6 DEF SaveInv, memory
  <1>6. CASE ~(Len(saver[s].todo) > 1)
    <2>1. /\ MarkSavedClean(saver[s])
          /\ saver' = [saver EXCEPT ![s] = Idle]
          /\ jobs' = Tail(jobs)
      BY <1>6 DEF Execute
    <2>2. MemoryInv(turns, version, deleted)'
      BY <2>1 DEF SaveInv, MemoryInv, MarkSavedClean
    <2>3. UNCHANGED version
      BY <2>1 DEF MarkSavedClean
    <2>4. savedOrder' \in Seq(Turns)
      <3>1. turns \in Seq(Turns) /\ Range(turns) \subseteq Turns
        BY RangeType DEF SaveInv, MemoryInv
      <3>2. CASE savedOrder' = turns
        BY <3>1, <3>2
      <3>3. CASE savedOrder' = Kept(turns, saver[s].covers)
        BY <3>1, <3>3, KeptRange
      <3> QED  BY <2>1, <3>2, <3>3 DEF MarkSavedClean
    <2> QED  BY <1>1, <1>4, <2>1, <2>2, <2>3, <2>4, LeftQueue DEF SaveInv
  <1> QED  BY <1>5, <1>6

LEMMA FailStep == SaveInv /\ Fail => SaveInv'
  <1> SUFFICES ASSUME SaveInv, Fail PROVE SaveInv'
    OBVIOUS
  <1>1. /\ Tail(jobs) \in Seq(Tasks) /\ Unique(Tail(jobs))
        /\ Range(Tail(jobs)) \subseteq Range(jobs) \ {Head(jobs)}
        /\ Head(jobs) \in Tasks
    BY NextInQueue DEF Fail
  <1>2. /\ saver' = [saver EXCEPT ![Head(jobs)] = Idle]
        /\ jobs' = Tail(jobs)
        /\ UNCHANGED <<turns, version, deleted, savedOrder, records, order>>
    BY DEF Fail, memory, store
  <1>3. StoreInv' /\ MemoryInv(turns, version, deleted)'
    BY <1>2 DEF SaveInv, StoreInv, OrderHasRecords, MemoryInv
  <1> QED  BY <1>1, <1>2, <1>3, LeftQueue DEF SaveInv

LEMMA CancelStep ==
    ASSUME SaveInv, NEW s \in Tasks, Cancel(s),
           UNCHANGED <<turns, version, deleted, savedOrder>>
    PROVE  SaveInv'
  <1>1. PICK i \in DOMAIN jobs :
           /\ jobs[i] = s
           /\ jobs' = RemoveAt(jobs, i)
           /\ \/ UNCHANGED store
              \/ i = 1 /\ Commit(Head(saver[s].todo), saver[s].wire)
    BY DEF Cancel
  <1>2. jobs \in Seq(Tasks) /\ Unique(jobs)
    BY DEF SaveInv, QueueInv
  <1>3. /\ jobs' \in Seq(Tasks) /\ Range(jobs') \subseteq Range(jobs)
    BY <1>1, <1>2, RangeRemoveAt
  <1>4. Unique(jobs') /\ s \notin Range(jobs')
    BY <1>1, <1>2, UniqueRemoveAt
  <1>5. StoreInv'
    <2>1. CASE UNCHANGED store
      BY <2>1 DEF SaveInv, StoreInv, OrderHasRecords, store
    <2>2. CASE Commit(Head(saver[s].todo), saver[s].wire)
      <3>1. s \in Range(jobs)
        BY <1>1 DEF Range
      <3>2. saver[s].todo # <<>>
        BY <3>1 DEF SaveInv, QueueInv
      <3> QED  BY <2>2, <3>2, CommitStore DEF SaveInv, MemoryInv
    <2> QED  BY <1>1, <2>1, <2>2
  <1>6. saver' = [saver EXCEPT ![s] = Idle]
    BY DEF Cancel
  <1>7. MemoryInv(turns, version, deleted)'
    BY DEF SaveInv, MemoryInv
  <1> QED  BY <1>3, <1>4, <1>5, <1>6, <1>7, LeftQueue DEF SaveInv

(* Contents are never taken from a turn that has some.                      *)
LEMMA CarriesOn ==
    ASSUME NEW v, NEW w, NEW w2, Written(w) \subseteq Written(w2),
           CarriesContents(v, w)
    PROVE  CarriesContents(v, w2)
  <1>1. StepOf(w) \subseteq StepOf(w2)
    BY DEF StepOf
  <1> QED  BY <1>1, SeqMonotone DEF CarriesContents

LEMMA AddTurnStep ==
    ASSUME SaveInv, NEW t \in Turns, AddTurn(t)
    PROVE  SaveInv'
  <1>1. /\ version' = [version EXCEPT ![t] = 1] /\ turns' = Append(turns, t)
        /\ UNCHANGED <<deleted, savedOrder, saver, jobs, records, order>>
    BY DEF AddTurn, store
  <1>2. turns \in Seq(Turns) /\ version \in [Turns -> Nat]
    BY DEF SaveInv, MemoryInv
  <1>3. turns' \in Seq(Turns) /\ Range(turns') = Range(turns) \cup {t}
    BY <1>1, <1>2, RangeAppend
  <1>4. version' \in [Turns -> Nat] /\ Written(version) \subseteq Written(version')
    BY <1>1, <1>2 DEF Written
  <1>5. Range(turns) \subseteq Turns
    BY <1>2, RangeType
  <1>6. MemoryInv(turns, version, deleted)'
    BY <1>1, <1>2, <1>3, <1>4, <1>5 DEF SaveInv, MemoryInv
  <1>7. \A s \in Tasks : CarriesContents(saver'[s], version')
    BY <1>1, <1>4, CarriesOn DEF SaveInv
  <1> QED  BY <1>1, <1>6, <1>7
           DEF SaveInv, StoreInv, OrderHasRecords, QueueInv

LEMMA ChangeTurnStep ==
    ASSUME SaveInv, NEW t \in Turns, ChangeTurn(t)
    PROVE  SaveInv'
  <1>1. /\ version' = [version EXCEPT ![t] = version[t] + 1]
        /\ UNCHANGED <<turns, deleted, savedOrder, saver, jobs, records, order>>
    BY DEF ChangeTurn, store
  <1>2. turns \in Seq(Turns) /\ version \in [Turns -> Nat]
    BY DEF SaveInv, MemoryInv
  <1>3. version' \in [Turns -> Nat] /\ Written(version) \subseteq Written(version')
    BY <1>1, <1>2 DEF Written
  <1>4. Range(turns) \subseteq Turns
    BY <1>2, RangeType
  <1>5. MemoryInv(turns, version, deleted)'
    BY <1>1, <1>2, <1>3, <1>4 DEF SaveInv, MemoryInv
  <1>6. \A s \in Tasks : CarriesContents(saver'[s], version')
    BY <1>1, <1>3, CarriesOn DEF SaveInv
  <1> QED  BY <1>1, <1>5, <1>6
           DEF SaveInv, StoreInv, OrderHasRecords, QueueInv

(* A step that begins a save for contents that become the session's.        *)
LEMMA BeginStep ==
    ASSUME SaveInv, NEW m, NEW s \in Tasks, Begin(s, m),
           MemoryInv(m.turns, m.version, m.deleted),
           Written(version) \subseteq Written(m.version),
           turns' = m.turns, version' = m.version, deleted' = m.deleted,
           UNCHANGED <<savedOrder, store>>
    PROVE  SaveInv'
  <1>1. \A r \in Tasks : CarriesContents(saver[r], m.version)
    BY CarriesOn DEF SaveInv
  <1>2. QueueInv' /\ \A r \in Tasks : CarriesContents(saver'[r], m.version)
    BY <1>1, BeginSave DEF SaveInv
  <1>3. StoreInv'
    BY DEF SaveInv, StoreInv, OrderHasRecords, store
  <1> QED  BY <1>2, <1>3 DEF SaveInv

LEMMA BeginOwn ==
    ASSUME SaveInv, NEW s \in Tasks, Begin(s, Contents),
           UNCHANGED <<memory, store>>
    PROVE  SaveInv'
  <1>1. /\ Contents.turns = turns /\ Contents.version = version
        /\ Contents.deleted = deleted
    BY DEF Contents
  <1> QED  BY <1>1, BeginStep DEF SaveInv, memory

LEMMA DeleteTurnsStep ==
    ASSUME SaveInv, NEW s \in Savers, NEW gone, DeleteTurns(s, gone)
    PROVE  SaveInv'
  <1> DEFINE m ==
          [turns |-> Kept(turns, Turns \ gone),
           version |-> version,
           dirty |-> dirty \ gone,
           deleted |-> deleted \cup (gone \cap Range(savedOrder))]
  <1>2. /\ Begin(s, m)
        /\ turns' = m.turns /\ version' = m.version
        /\ deleted' = m.deleted /\ UNCHANGED <<savedOrder, store>>
    BY DEF DeleteTurns, EditAndSave
  <1>3. /\ turns \in Seq(Turns) /\ Range(turns) \subseteq Turns
        /\ Range(savedOrder) \subseteq Turns
    BY RangeType DEF SaveInv, MemoryInv
  <1>4. m.turns \in Seq(Turns) /\ Range(m.turns) \subseteq Range(turns)
    BY <1>3, KeptRange
  <1>6. MemoryInv(m.turns, m.version, m.deleted)
    BY <1>3, <1>4 DEF SaveInv, MemoryInv
  <1>7. Written(version) \subseteq Written(m.version)
    OBVIOUS
  <1>8. s \in Tasks
    BY DEF Tasks
  <1> HIDE DEF m
  <1> QED  BY <1>2, <1>6, <1>7, <1>8, BeginStep

LEMMA ArchiveTurnsStep ==
    ASSUME SaveInv, NEW s \in Savers, NEW i \in DOMAIN turns,
           NEW j \in DOMAIN turns, NEW t \in Turns, ArchiveTurns(s, i, j, t)
    PROVE  SaveInv'
  <1> DEFINE front == SubSeq(turns, 1, i - 1)
             rest == SubSeq(turns, j + 1, Len(turns))
             m == [turns |-> front \o <<t>> \o rest,
                   version |-> [version EXCEPT ![t] = 1],
                   dirty |-> (dirty \ Range(SubSeq(turns, i, j))) \cup {t},
                   deleted |-> deleted]
  <1>1. /\ Begin(s, m)
        /\ turns' = m.turns /\ version' = m.version
        /\ deleted' = m.deleted /\ UNCHANGED <<savedOrder, store>>
    BY DEF ArchiveTurns, EditAndSave
  <1>2. /\ turns \in Seq(Turns) /\ version \in [Turns -> Nat]
        /\ Range(turns) \subseteq Turns /\ deleted \subseteq Turns
        /\ \A u \in Range(turns) : version[u] # 0
    BY RangeType DEF SaveInv, MemoryInv
  <1>3. /\ front \in Seq(Turns) /\ Range(front) \subseteq Range(turns)
        /\ rest \in Seq(Turns) /\ Range(rest) \subseteq Range(turns)
    <2>1. i \in 1..Len(turns) /\ j \in 1..Len(turns) /\ Len(turns) \in Nat
      BY <1>2
    <2> QED  BY SMTT(30), <1>2, <2>1, RangeSubSeq
  <1>4. <<t>> \in Seq(Turns) /\ Range(<<t>>) = {t}
    BY DEF Range
  <1> HIDE DEF front, rest
  <1>5. /\ front \o <<t>> \in Seq(Turns)
        /\ Range(front \o <<t>>) \subseteq Range(turns) \cup {t}
    BY <1>3, <1>4, RangeConcat
  <1>6. /\ front \o <<t>> \o rest \in Seq(Turns)
        /\ Range(front \o <<t>> \o rest) \subseteq Range(turns) \cup {t}
    <2> DEFINE first == front \o <<t>>
    <2>1. first \in Seq(Turns) /\ Range(first) \subseteq Range(turns) \cup {t}
      BY <1>5
    <2> HIDE DEF first
    <2>2. /\ first \o rest \in Seq(Turns)
          /\ Range(first \o rest) \subseteq Range(first) \cup Range(rest)
      BY <1>3, <2>1, RangeConcat
    <2>3. Range(first \o rest) \subseteq Range(turns) \cup {t}
      BY <1>3, <2>1, <2>2
    <2> QED  BY <2>2, <2>3 DEF first
  <1>7. MemoryInv(m.turns, m.version, m.deleted)
    BY SMTT(30), <1>2, <1>6 DEF MemoryInv
  <1>8. Written(version) \subseteq Written(m.version)
    BY <1>2 DEF Written
  <1>9. s \in Tasks
    BY DEF Tasks
  <1> HIDE DEF m
  <1> QED  BY <1>1, <1>7, <1>8, <1>9, BeginStep

LEMMA CrashStep == SaveInv /\ Crash => SaveInv'
  <1> SUFFICES ASSUME SaveInv, Crash PROVE SaveInv'
    OBVIOUS
  <1>1. /\ turns' = Loaded /\ savedOrder' = turns' /\ version' = records /\ deleted' = {}
        /\ saver' = [s \in Tasks |-> Idle] /\ jobs' = <<>>
        /\ UNCHANGED <<records, order>>
    BY DEF Crash, store
  <1>2. StoreInv' /\ records \in [Turns -> Nat]
    BY <1>1 DEF SaveInv, StoreInv, OrderHasRecords
  <1>4. turns' \in Seq(Turns) /\ Range(turns') \subseteq {t \in Turns : records[t] # 0}
    BY <1>1, KeptRange DEF Loaded, SaveInv, StoreInv
  <1>5. MemoryInv(turns, version, deleted)' /\ savedOrder' \in Seq(Turns)
    BY <1>1, <1>2, <1>4 DEF MemoryInv
  <1>6. QueueInv'
    BY <1>1 DEF QueueInv, Unique, Range
  <1>7. \A s \in Tasks : CarriesContents(saver'[s], version')
    BY <1>1, IdleCarries
  <1> QED  BY <1>2, <1>5, <1>6, <1>7 DEF SaveInv

-----------------------------------------------------------------------------

LEMMA InitSaveInv == Init => SaveInv
  <1> SUFFICES ASSUME Init PROVE SaveInv
    OBVIOUS
  <1>1. Cardinality(OldTurns) \in Nat
    BY SaveAssumption, FS_Subset, FS_CardinalityType
  <1>2. turns \in [1..Cardinality(OldTurns) -> OldTurns]
    BY DEF Init, SetToSeqs
  <1>3. turns \in Seq(OldTurns)
    BY <1>1, <1>2
  <1>4. turns \in Seq(Turns) /\ Range(turns) \subseteq OldTurns
    BY <1>3, SaveAssumption, SeqMonotone, RangeType
  <1>5. MemoryInv(turns, version, deleted) /\ savedOrder \in Seq(Turns)
    BY <1>4, SaveAssumption DEF Init, MemoryInv
  <1>6. StoreInv
    BY <1>4, SaveAssumption DEF Init, StoreInv, OrderHasRecords
  <1>7. QueueInv
    BY DEF Init, QueueInv, Unique, Range
  <1>8. \A s \in Tasks : CarriesContents(saver[s], version)
    BY IdleCarries DEF Init
  <1> QED  BY <1>5, <1>6, <1>7, <1>8 DEF SaveInv

LEMMA NextSaveInv == SaveInv /\ [Next]_vars => SaveInv'
  <1> SUFFICES ASSUME SaveInv, [Next]_vars PROVE SaveInv'
    OBVIOUS
  <1>1. ASSUME NEW t \in Turns, AddUnscheduled(t) \/ AddScheduled(t) PROVE SaveInv'
    BY <1>1, AddTurnStep DEF AddUnscheduled, AddScheduled
  <1>2. ASSUME NEW t \in Turns, ChangeTurn(t) PROVE SaveInv'
    BY <1>2, ChangeTurnStep
  <1>3. ASSUME NEW s \in Savers, NEW gone, DeleteTurns(s, gone) PROVE SaveInv'
    BY <1>3, DeleteTurnsStep
  <1>4. ASSUME NEW s \in Savers, NEW i \in DOMAIN turns, NEW j \in DOMAIN turns,
               NEW t \in Turns, ArchiveTurns(s, i, j, t)
        PROVE  SaveInv'
    BY <1>4, ArchiveTurnsStep
  <1>5. CASE Edit
    BY <1>1, <1>2, <1>3, <1>4, <1>5 DEF Edit, OtherSavers
  <1>6. ASSUME NEW s \in Savers, Save(s) PROVE SaveInv'
    BY <1>6, BeginOwn DEF Save, Tasks
  <1>7. ASSUME UNCHANGED <<memory, saver, jobs, store>> PROVE SaveInv'
    BY <1>7 DEF memory, store, SaveInv, StoreInv, OrderHasRecords, QueueInv
  <1>8. CASE DebounceOver
    <2>1. CASE Begin(Debounced, Contents)
      BY <1>8, <2>1, BeginOwn DEF DebounceOver, Tasks
    <2>2. CASE UNCHANGED <<saver, jobs>>
      BY <1>7, <1>8, <2>2 DEF DebounceOver
    <2> QED  BY <1>8, <2>1, <2>2 DEF DebounceOver
  <1>9. CASE FlushPending
    <2>1. CASE Begin(Flush, Contents) /\ UNCHANGED <<memory, store>>
      BY <2>1, BeginOwn DEF Tasks
    <2>2. CASE UNCHANGED <<memory, saver, jobs, store>>
      BY <1>7, <2>2
    <2>3. CASE Cancel(Debounced) /\ UNCHANGED memory
      BY <2>3, CancelStep DEF Tasks, memory
    <2> QED  BY <1>9, <2>1, <2>2, <2>3 DEF FlushPending
  <1>10. CASE FlushJoined
    BY <1>10, BeginOwn DEF FlushJoined, Tasks
  <1>11. CASE CancelFlush
    BY <1>11, CancelStep DEF CancelFlush, Tasks, memory
  <1>12. CASE UNCHANGED vars
    BY <1>7, <1>12 DEF vars
  <1>13. ASSUME NEW s \in OtherSavers, Save(s) PROVE SaveInv'
    BY <1>6, <1>13 DEF OtherSavers
  <1> QED  BY ExecuteStep, FailStep, CrashStep,
              <1>5, <1>13, <1>8, <1>9, <1>10, <1>11, <1>12 DEF Next, Step

(* Whichever saves run side by side, and whatever fails, is cancelled or    *)
(* crashes between two transactions: every turn that the stored order lists *)
(* has its record, for any turns and tasks.                                 *)
THEOREM StoredOrderHasRecords == Spec => []OrderHasRecords
  <1>1. SaveInv => OrderHasRecords
    BY DEF SaveInv, StoreInv
  <1> QED  BY <1>1, InitSaveInv, NextSaveInv, PTL DEF Spec

-----------------------------------------------------------------------------
(***************************************************************************)
(* Saving while nothing is edited during a save (Calm).  Every save that   *)
(* is under way then carries the session as it is: however many overlap,   *)
(* fail or are cancelled, each of their transactions brings the store      *)
(* nearer to it, and the first one that is through leaves it there.        *)
(***************************************************************************)
Stored(t) == t \in Range(order) /\ records[t] = version[t]

(* The transactions of a save of the session as it is.                      *)
CalmSteps ==
    {Session, OnList("order", turns)}
    \cup {OnTurn("delete", t) : t \in Turns \ Range(turns)}
    \cup {OnTurn("save", t) : t \in Range(turns)}
CalmFullSteps == {Session, OnList("replace", turns)}

(* Each turn is stored or about to be, and the order is stored last, if it  *)
(* was not as it should be.                                                 *)
CalmSave(v) ==
    /\ v.covers = Range(turns) /\ v.todo # <<>>
    /\ v.full =>
           /\ v.todo \in Seq(CalmFullSteps)
           /\ v.todo[Len(v.todo)] = OnList("replace", turns)
           /\ v.wire = [t \in Range(turns) |-> version[t]]
    /\ ~v.full =>
           /\ v.todo \in Seq(CalmSteps)
           /\ \A t \in Range(turns) : Stored(t) \/ OnTurn("save", t) \in Range(v.todo)
           /\ v.todo[Len(v.todo)] = OnList("order", turns) \/ turns = savedOrder
           /\ Head(v.todo).op = "save" =>
                  v.wire[Head(v.todo).turn] = version[Head(v.todo).turn]

(* Between saves the store has the order that was saved last.               *)
NoneBroken == "delete" \in around /\ Unbroken

CalmMemory ==
    /\ Unique(turns) /\ Unique(order)
    /\ Range(turns) \cup Range(savedOrder) \cup removed \subseteq used
    /\ deleted \subseteq removed /\ deleted \cap Range(turns) = {}
    /\ Range(turns) \subseteq Range(savedOrder) \cup dirty

CalmStore ==
    /\ CleanIsStored
    /\ Range(order) \subseteq Range(turns) \cup removed
    /\ Unbroken /\ turns = savedOrder => order = turns
    /\ NoneBroken =>
           /\ jobs = <<>> => order = savedOrder
           /\ saveTask = "saving" => ~pending /\ Debounced \in Range(jobs)

CalmInv ==
    Calm => CalmMemory /\ CalmStore /\ \A s \in Range(jobs) : CalmSave(saver[s])

LEMMA LoadedIsOrder == ASSUME StoreInv PROVE Loaded = order
  <1>1. order \in Seq(Turns) /\ Range(order) \subseteq {t \in Turns : records[t] # 0}
    BY RangeType DEF StoreInv, OrderHasRecords
  <1> QED  BY <1>1, KeptAll DEF Loaded

(* What a transaction of such a save does to the store.                     *)
LEMMA CalmCommit ==
    ASSUME StoreInv, turns \in Seq(Turns), Unique(turns), Unique(order),
           NEW v, CalmSave(v), v.full \in BOOLEAN, NEW tx, tx = Head(v.todo),
           Commit(tx, v.wire), UNCHANGED <<turns, version>>
    PROVE  /\ \A t \in Range(turns) : Stored(t) => Stored(t)'
           /\ \A t \in Range(turns) : tx = OnTurn("save", t) => Stored(t)'
           /\ Range(order') \subseteq Range(order) \cup Range(turns)
           /\ Range(order) \cap Range(turns) \subseteq Range(order')
           /\ Unique(order')
           /\ order = turns => order' = turns
           /\ tx = OnList("order", turns) /\ Range(turns) \subseteq Range(order)
                => order' = turns
           /\ tx = OnList("replace", turns) =>
                  order' = turns /\ \A t \in Range(turns) : Stored(t)'
  <1>1. /\ order \in Seq(Turns) /\ records \in [Turns -> Nat]
        /\ Range(order) \subseteq Turns /\ Range(turns) \subseteq Turns
    BY RangeType DEF StoreInv
  <1>2. v.todo # <<>> /\ (v.full => tx \in CalmFullSteps) /\ (~v.full => tx \in CalmSteps)
    BY DEF CalmSave
  <1>3. CASE tx = Session
    <2>1. UNCHANGED store
      BY <1>3 DEF Commit, Session
    <2> QED  BY <1>3, <2>1 DEF store, Stored, Session, OnList, OnTurn
  <1>4. CASE ~v.full /\ tx = OnList("order", turns)
    <2>1. /\ order' = IF Range(turns) \subseteq Range(order) THEN turns ELSE order
          /\ records' = records
      BY <1>4 DEF Commit, OnList, ReorderTurns
    <2> QED  BY <1>1, <1>4, <2>1 DEF Stored, OnList, OnTurn
  <1>5. CASE v.full /\ tx = OnList("replace", turns)
    <2>1. /\ order' = turns
          /\ records' = [t \in Turns |->
                            IF t \in Range(turns) THEN v.wire[t]
                            ELSE IF t \in Range(order) THEN 0 ELSE records[t]]
      BY <1>5 DEF Commit, OnList, ReplaceTurns
    <2>2. \A t \in Range(turns) : v.wire[t] = version[t]
      BY <1>5 DEF CalmSave
    <2>3. \A t \in Range(turns) : Stored(t)'
      BY <1>1, <2>1, <2>2 DEF Stored
    <2> QED  BY <1>1, <1>5, <2>1, <2>3 DEF OnList, OnTurn
  <1>6. ASSUME ~v.full, NEW t \in Turns \ Range(turns), tx = OnTurn("delete", t)
        PROVE  /\ \A u \in Range(turns) : Stored(u) => Stored(u)'
               /\ Range(order') \subseteq Range(order)
               /\ Range(order) \cap Range(turns) \subseteq Range(order')
               /\ Unique(order')
               /\ order = turns => order' = turns
    <2>1. DeleteTurnRecord(t)
      BY <1>6 DEF Commit, OnTurn
    <2>2. CASE t \in Range(order)
      <3>1. /\ Range(order') = Range(order) \cap (Turns \ {t}) /\ Unique(order')
            /\ records' = [records EXCEPT ![t] = 0]
        BY <1>1, <2>1, <2>2, KeptRange DEF DeleteTurnRecord
      <3> QED  BY <1>1, <1>6, <2>2, <3>1 DEF Stored
    <2>3. CASE t \notin Range(order)
      BY <2>1, <2>3 DEF DeleteTurnRecord, store, Stored
    <2> QED  BY <2>2, <2>3
  <1>7. ASSUME ~v.full, NEW t \in Range(turns), tx = OnTurn("save", t)
        PROVE  /\ \A u \in Range(turns) : Stored(u) => Stored(u)'
               /\ Stored(t)'
               /\ Range(order') \subseteq Range(order) \cup Range(turns)
               /\ Range(order) \cap Range(turns) \subseteq Range(order')
               /\ Unique(order')
               /\ order = turns => order' = turns
    <2>1. tx.op = "save" /\ tx.turn = t
      BY <1>7 DEF OnTurn
    <2>2. /\ records' = [records EXCEPT ![t] = v.wire[t]]
          /\ order' = IF t \in Range(order) THEN order ELSE Append(order, t)
      BY <1>7, <2>1 DEF Commit, SaveTurn
    <2>3. v.wire[t] = version[t]
      BY <1>7, <2>1 DEF CalmSave
    <2>4. t \in Turns
      BY <1>1
    <2>5. /\ Range(order') = Range(order) \cup {t} /\ Unique(order')
      BY <1>1, <2>2, <2>4, RangeAppend, UniqueAppend
    <2>6. \A u \in Range(turns) : records'[u] = IF u = t THEN version[t] ELSE records[u]
      BY <1>1, <2>2, <2>3
    <2> QED  BY <2>2, <2>5, <2>6 DEF Stored
  <1>8. ASSUME NEW t \in Turns \ Range(turns), tx = OnTurn("delete", t)
        PROVE  /\ \A u : tx # OnTurn("save", u)
               /\ tx # OnList("order", turns) /\ tx # OnList("replace", turns)
    BY <1>8 DEF OnTurn, OnList
  <1>9. ASSUME NEW t \in Range(turns), tx = OnTurn("save", t)
        PROVE  /\ \A u : tx = OnTurn("save", u) => u = t
               /\ tx # OnList("order", turns) /\ tx # OnList("replace", turns)
    BY <1>9 DEF OnTurn, OnList
  <1>10. CASE v.full
    BY <1>2, <1>3, <1>5, <1>10 DEF CalmFullSteps
  <1>11. CASE ~v.full
    <2>1. CASE \E t \in Turns \ Range(turns) : tx = OnTurn("delete", t)
      BY <1>6, <1>8, <1>11, <2>1
    <2>2. CASE \E t \in Range(turns) : tx = OnTurn("save", t)
      BY <1>7, <1>9, <1>11, <2>2
    <2>3. \/ tx = Session \/ tx = OnList("order", turns)
          \/ \E t \in Turns \ Range(turns) : tx = OnTurn("delete", t)
          \/ \E t \in Range(turns) : tx = OnTurn("save", t)
      BY <1>2, <1>11 DEF CalmSteps
    <2> QED  BY <1>3, <1>4, <1>11, <2>1, <2>2, <2>3
  <1> QED  BY <1>10, <1>11

(* A save that begins carries the session it begins with.                   *)
LEMMA CalmBegin ==
    ASSUME NEW m, m.turns \in Seq(Turns), m.deleted \subseteq Turns,
           savedOrder \in Seq(Turns), DOMAIN saver = Tasks,
           Range(m.turns) \subseteq Range(savedOrder) \cup m.dirty,
           m.deleted \cap Range(m.turns) = {},
           \A t \in Range(m.turns) \ m.dirty :
               t \in Range(order) /\ records[t] = m.version[t],
           NEW s \in Tasks, Begin(s, m),
           turns' = m.turns, version' = m.version, UNCHANGED <<savedOrder, store>>
    PROVE  CalmSave(saver[s])'
  <1>1. PICK save \in IF savedOrder = <<>> THEN {FullSave(m)}
                     ELSE {IncrementalSave(m, gone) : gone \in SetToSeqs(m.deleted)} :
           saver' = [saver EXCEPT ![s] = save]
    BY DEF Begin
  <1>2. saver'[s] = save /\ Range(m.turns) \subseteq Turns
    BY <1>1, RangeType
  <1>3. CASE savedOrder = <<>>
    <2>1. save = FullSave(m)
      BY <1>1, <1>3
    <2>2. /\ save.todo = <<Session, OnList("replace", m.turns)>>
          /\ save.wire = [t \in Range(m.turns) |-> m.version[t]]
          /\ save.covers = Range(m.turns) /\ save.full = TRUE
      BY <2>1 DEF FullSave
    <2>3. /\ save.todo \in Seq({Session, OnList("replace", m.turns)})
          /\ save.todo # <<>>
          /\ save.todo[Len(save.todo)] = OnList("replace", m.turns)
      BY <2>2
    <2> QED  BY <1>2, <2>2, <2>3 DEF CalmSave, CalmFullSteps
  <1>4. CASE savedOrder # <<>>
    <2>1. PICK gone \in SetToSeqs(m.deleted) : save = IncrementalSave(m, gone)
      BY <1>1, <1>4
    <2> DEFINE new == Kept(m.turns, m.dirty)
               known == Kept(m.turns, Known(m))
               deletes == [i \in 1..Len(gone) |-> OnTurn("delete", gone[i])]
               saves == [i \in 1..Len(new) |-> OnTurn("save", new[i])]
               last == IF known # savedOrder THEN <<OnList("order", known)>> ELSE <<>>
               Steps == {Session, OnList("order", m.turns)}
                        \cup {OnTurn("delete", t) : t \in Turns \ Range(m.turns)}
                        \cup {OnTurn("save", t) : t \in Range(m.turns)}
    <2>2. /\ save.todo = <<Session>> \o deletes \o saves \o last
          /\ save.covers = Range(m.turns) /\ save.full = FALSE
      BY <2>1 DEF IncrementalSave
    <2>3. known = m.turns
      <3>1. Range(m.turns) \subseteq Known(m)
        BY DEF Known
      <3> QED  BY <3>1, KeptAll
    <2>4. new \in Seq(Turns) /\ Range(new) = Range(m.turns) \cap m.dirty
      BY KeptRange
    <2>5. <<Session>> \in Seq(Steps) /\ Range(<<Session>>) = {Session}
      BY DEF Range
    <2>6. deletes \in Seq(Steps)
      <3>1. Cardinality(m.deleted) \in Nat
        BY SaveAssumption, FS_Subset, FS_CardinalityType
      <3>2. gone \in [1..Cardinality(m.deleted) -> m.deleted]
        BY DEF SetToSeqs
      <3>3. gone \in Seq(Turns \ Range(m.turns))
        BY <3>1, <3>2
      <3> HIDE DEF new, known
      <3> QED  BY <3>3
    <2>7. saves \in Seq(Steps) /\ \A t \in Range(new) : OnTurn("save", t) \in Range(saves)
      <3>1. new \in Seq(Range(new))
        BY <2>4 DEF Range
      <3> HIDE DEF new, known
      <3>2. saves \in Seq(Steps)
        BY <2>4, <3>1
      <3>3. \A t \in Range(new) : OnTurn("save", t) \in Range(saves)
        BY <2>4 DEF Range
      <3> QED  BY <3>2, <3>3
    <2>8. last \in Seq(Steps)
      <3>1. OnList("order", known) \in Steps
        BY <2>3
      <3> HIDE DEF Steps, known
      <3> QED  BY <3>1, OneOrNone
    <2> DEFINE front == <<Session>> \o deletes
               middle == front \o saves
    <2> HIDE DEF new, known, deletes, saves, last, Steps
    <2>9. front \in Seq(Steps) /\ front # <<>> /\ Head(front) = Session
      BY <2>5, <2>6
    <2> HIDE DEF front
    <2>10. /\ middle \in Seq(Steps) /\ middle # <<>> /\ Head(middle) = Session
           /\ Range(middle) = Range(front) \cup Range(saves)
      BY <2>7, <2>9, RangeJoin
    <2>11. save.todo = middle \o last
      BY <2>2 DEF front
    <2> HIDE DEF middle
    <2>12. /\ save.todo \in Seq(Steps) /\ save.todo # <<>> /\ Head(save.todo) = Session
           /\ Range(middle) \subseteq Range(save.todo)
      BY <2>8, <2>10, <2>11, RangeJoin
    <2>13. \/ save.todo[Len(save.todo)] = OnList("order", m.turns)
           \/ m.turns = savedOrder
      <3>1. CASE known # savedOrder
        <4>1. last = <<OnList("order", m.turns)>>
          BY <2>3, <3>1 DEF last
        <4> QED  BY <2>10, <2>11, <4>1
      <3> QED  BY <2>3, <3>1
    <2>14. \A t \in Range(m.turns) : \/ t \in Range(order) /\ records[t] = m.version[t]
                                     \/ OnTurn("save", t) \in Range(save.todo)
      BY <2>4, <2>7, <2>10, <2>12
    <2>15. Head(save.todo).op # "save"
      BY <2>12 DEF Session
    <2> QED  BY <1>2, <2>2, <2>12, <2>13, <2>14, <2>15
             DEF CalmSave, CalmSteps, Stored, store, Steps
  <1> QED  BY <1>3, <1>4

(* A save goes on to its next transaction.                                  *)
LEMMA CalmContinues ==
    ASSUME NEW v, NEW u, u = Continued(v),
           CalmSave(v), v.full \in BOOLEAN, Len(v.todo) > 1,
           UNCHANGED <<turns, version, savedOrder>>,
           \A t \in Range(turns) : Stored(t) => Stored(t)',
           \A t \in Range(turns) : Head(v.todo) = OnTurn("save", t) => Stored(t)'
    PROVE  CalmSave(u)'
  <1>1. /\ u.todo = Tail(v.todo) /\ u.covers = v.covers /\ u.full = v.full
        /\ u.wire = IF v.full THEN v.wire ELSE Serialised(v.todo[2])
    BY DEF Continued
  <1>2. CASE v.full
    <2>1. v.todo \in Seq(CalmFullSteps) /\ v.todo[Len(v.todo)] = OnList("replace", turns)
      BY <1>2 DEF CalmSave
    <2>2. /\ Tail(v.todo) \in Seq(CalmFullSteps) /\ Tail(v.todo) # <<>>
          /\ Tail(v.todo)[Len(Tail(v.todo))] = OnList("replace", turns)
      BY <2>1, LongTail
    <2> QED  BY <1>1, <1>2, <2>2 DEF CalmSave, CalmFullSteps
  <1>3. CASE ~v.full
    <2>1. /\ v.todo \in Seq(CalmSteps)
          /\ v.todo[Len(v.todo)] = OnList("order", turns) \/ turns = savedOrder
          /\ \A t \in Range(turns) : Stored(t) \/ OnTurn("save", t) \in Range(v.todo)
      BY <1>3 DEF CalmSave
    <2>2. /\ Tail(v.todo) \in Seq(CalmSteps) /\ Tail(v.todo) # <<>>
          /\ Tail(v.todo)[Len(Tail(v.todo))] = v.todo[Len(v.todo)]
          /\ Head(Tail(v.todo)) = v.todo[2] /\ v.todo[2] \in CalmSteps
      BY <2>1, LongTail
    <2>3. Range(v.todo) = Range(Tail(v.todo)) \cup {Head(v.todo)}
      BY <2>1, LongTail
    <2>4. \A t \in Range(turns) : Stored(t)' \/ OnTurn("save", t) \in Range(Tail(v.todo))
      BY <2>1, <2>3
    <2>5. Head(u.todo).op = "save" => u.wire[Head(u.todo).turn] = version[Head(u.todo).turn]
      <3>1. u.wire = Serialised(v.todo[2]) /\ Head(u.todo) = v.todo[2]
        BY <1>1, <1>3, <2>2
      <3> QED  BY <3>1 DEF Serialised
    <2> QED  BY <1>1, <1>3, <2>1, <2>2, <2>4, <2>5 DEF CalmSave, CalmSteps
  <1> QED  BY <1>2, <1>3

LEMMA SaveTypes ==
    ASSUME SaveInv
    PROVE  /\ turns \in Seq(Turns) /\ order \in Seq(Turns) /\ savedOrder \in Seq(Turns)
           /\ Range(turns) \subseteq Turns /\ Range(order) \subseteq Turns
           /\ version \in [Turns -> Nat] /\ records \in [Turns -> Nat] /\ StoreInv
           /\ jobs \in Seq(Tasks) /\ Unique(jobs) /\ Range(jobs) \subseteq Tasks
           /\ DOMAIN saver = Tasks /\ deleted \subseteq Turns
           /\ \A s \in Tasks : saver[s].full \in BOOLEAN
  BY RangeType DEF SaveInv, MemoryInv, StoreInv, QueueInv, CarriesContents

(* A save that waits meanwhile has no more to do than it had.               *)
LEMMA CalmStays ==
    ASSUME NEW v, CalmSave(v), UNCHANGED <<turns, version>>,
           savedOrder' = savedOrder \/ savedOrder' = turns,
           \A t \in Range(turns) : Stored(t) => Stored(t)'
    PROVE  CalmSave(v)'
  BY DEF CalmSave, CalmSteps, CalmFullSteps

(* A transaction of a save keeps what is stored, and ends with the order.   *)
LEMMA CalmStoreStep ==
    ASSUME SaveInv, CalmInv, Calm, NEW s \in Range(jobs),
           Commit(Head(saver[s].todo), saver[s].wire), UNCHANGED <<turns, version>>
    PROVE  /\ \A t \in Range(turns) : Stored(t) => Stored(t)'
           /\ \A t \in Range(turns) : Head(saver[s].todo) = OnTurn("save", t) => Stored(t)'
           /\ Range(order') \subseteq Range(turns) \cup removed
           /\ Range(order) \subseteq Range(order') \cup removed
           /\ Unique(order')
           /\ order = turns => order' = turns
           /\ Len(saver[s].todo) = 1 =>
                 /\ \A t \in Range(turns) : Stored(t)'
                 /\ Unbroken => order' = turns
  <1> DEFINE v == saver[s]
             tx == Head(v.todo)
  <1>1. CalmSave(v) /\ CalmMemory /\ CalmStore
    BY DEF CalmInv
  <1>2. v.full \in BOOLEAN /\ StoreInv /\ turns \in Seq(Turns)
    BY SaveTypes
  <1> HIDE DEF v
  <1>3. /\ \A t \in Range(turns) : Stored(t) => Stored(t)'
        /\ \A t \in Range(turns) : tx = OnTurn("save", t) => Stored(t)'
        /\ Range(order') \subseteq Range(order) \cup Range(turns)
        /\ Range(order) \cap Range(turns) \subseteq Range(order')
        /\ Unique(order')
        /\ order = turns => order' = turns
        /\ tx = OnList("order", turns) /\ Range(turns) \subseteq Range(order)
             => order' = turns
        /\ tx = OnList("replace", turns) =>
               order' = turns /\ \A t \in Range(turns) : Stored(t)'
    BY <1>1, <1>2, CalmCommit DEF CalmMemory, v
  <1>4. /\ Range(order') \subseteq Range(turns) \cup removed
        /\ Range(order) \subseteq Range(order') \cup removed
    BY <1>1, <1>3 DEF CalmStore
  <1>5. ASSUME Len(v.todo) = 1
        PROVE  /\ \A t \in Range(turns) : Stored(t)'
               /\ Unbroken => order' = turns
    <2>1. CASE v.full
      <3>1. v.todo \in Seq(CalmFullSteps) /\ v.todo[1] = OnList("replace", turns)
        BY <1>1, <1>5, <2>1 DEF CalmSave
      <3>2. tx = OnList("replace", turns)
        BY <1>5, <3>1
      <3> QED  BY <1>3, <3>2
    <2>2. CASE ~v.full
      <3>1. /\ v.todo \in Seq(CalmSteps)
            /\ v.todo[1] = OnList("order", turns) \/ turns = savedOrder
            /\ \A t \in Range(turns) : Stored(t) \/ OnTurn("save", t) \in Range(v.todo)
        BY <1>1, <1>5, <2>2 DEF CalmSave
      <3>2. tx = v.todo[1] /\ Range(v.todo) = {tx}
        BY <1>5, <3>1 DEF Range
      <3>3. \A t \in Range(turns) : Stored(t)'
        BY <1>3, <3>1, <3>2
      <3>4. CASE tx = OnList("order", turns)
        <4>1. \A t \in Range(turns) : OnTurn("save", t) # tx
          BY <3>4 DEF OnTurn, OnList
        <4>2. Range(turns) \subseteq Range(order)
          BY <3>1, <3>2, <4>1 DEF Stored
        <4> QED  BY <1>3, <3>3, <3>4, <4>2
      <3>5. CASE turns = savedOrder
        BY <1>1, <1>3, <3>3, <3>5 DEF CalmStore
      <3> QED  BY <3>1, <3>2, <3>4, <3>5
    <2> QED  BY <1>2, <2>1, <2>2
  <1> QED  BY <1>3, <1>4, <1>5 DEF v

LEMMA CalmExecute ==
    ASSUME SaveInv, CalmInv, Calm, Execute, UNCHANGED around
    PROVE  CalmInv'
  <1>0. PICK s : s = Head(jobs)
    OBVIOUS
  <1>1. /\ jobs # <<>> /\ s \in Tasks /\ saver[s].todo # <<>>
        /\ CarriesContents(saver[s], version)
        /\ Tail(jobs) \in Seq(Tasks)
        /\ Range(Tail(jobs)) \subseteq Range(jobs) \ {s}
        /\ Range(jobs) \subseteq Tasks
    BY <1>0, NextInQueue DEF Execute
  <1>2. s \in Range(jobs) /\ jobs \in Seq(Tasks) /\ DOMAIN saver = Tasks
    BY <1>0, <1>1, SaveTypes, RangeTail
  <1>3. /\ Commit(Head(saver[s].todo), saver[s].wire) /\ UNCHANGED <<pending, removed, used>>
    BY <1>0 DEF Execute, history
  <1>4. CalmMemory /\ CalmStore /\ \A r \in Range(jobs) : CalmSave(saver[r])
    BY DEF CalmInv
  <1>5. turns \in Seq(Turns) /\ \E S : saver[s].todo \in Seq(S)
    <2>1. saver[s].full \in BOOLEAN /\ CalmSave(saver[s]) /\ turns \in Seq(Turns)
      BY <1>1, <1>2, <1>4, SaveTypes
    <2>2. \/ saver[s].todo \in Seq(CalmFullSteps)
          \/ saver[s].todo \in Seq(CalmSteps)
      BY <2>1 DEF CalmSave
    <2> QED  BY <2>1, <2>2
  <1>6. CASE Len(saver[s].todo) > 1
    <2>1. /\ saver' = [saver EXCEPT ![s] = Continued(saver[s])]
          /\ jobs' = Append(Tail(jobs), s)
          /\ UNCHANGED <<turns, version, dirty, deleted, savedOrder, saveTask>>
      BY <1>0, <1>6 DEF Execute, memory
    <2>2. /\ \A t \in Range(turns) : Stored(t) => Stored(t)'
          /\ \A t \in Range(turns) : Head(saver[s].todo) = OnTurn("save", t) => Stored(t)'
          /\ Range(order') \subseteq Range(turns) \cup removed
          /\ Unique(order') /\ (order = turns => order' = turns)
      BY <1>2, <1>3, <2>1, CalmStoreStep
    <2>3. jobs' # <<>> /\ Range(jobs') = Range(jobs)
      <3>1. Range(jobs') = Range(Tail(jobs)) \cup {s}
        BY <1>1, <2>1, RangeAppend
      <3>2. Range(jobs) = Range(Tail(jobs)) \cup {s}
        BY <1>0, <1>1, <1>2, RangeHeadTail
      <3>3. jobs' # <<>>
        BY <1>1, <2>1
      <3> QED  BY <3>1, <3>2, <3>3
    <2>4. saver'[s] = Continued(saver[s]) /\ \A r \in Tasks \ {s} : saver'[r] = saver[r]
      BY <1>1, <1>2, <2>1
    <2>5. CalmSave(saver[s])'
      <3>1. PICK u : u = Continued(saver[s])
        OBVIOUS
      <3>2. PICK v : v = saver[s]
        OBVIOUS
      <3>3. u = Continued(v) /\ CalmSave(v) /\ v.full \in BOOLEAN /\ Len(v.todo) > 1
        BY <1>1, <1>2, <1>4, <1>6, <3>1, <3>2, SaveTypes
      <3>4. \A t \in Range(turns) : Head(v.todo) = OnTurn("save", t) => Stored(t)'
        BY <2>2, <3>2
      <3>5. CalmSave(u)'
        BY <2>1, <2>2, <3>3, <3>4, CalmContinues
      <3>6. saver'[s] = u
        BY <2>4, <3>1
      <3> QED  BY <3>5, <3>6 DEF CalmSave
    <2>6. ASSUME NEW r \in Range(jobs) \ {s} PROVE CalmSave(saver[r])'
      <3>1. CalmSave(saver[r]) /\ saver'[r] = saver[r]
        BY <1>1, <1>4, <2>4
      <3> QED  BY <2>1, <2>2, <3>1, CalmStays
    <2>7. CalmMemory'
      BY <1>3, <1>4, <2>1, <2>2 DEF CalmMemory
    <2>8. CalmStore'
      <3>1. CleanIsStored'
        BY <1>4, <2>1, <2>2 DEF CalmStore, CleanIsStored, Stored
      <3> QED  BY <1>3, <1>4, <2>1, <2>2, <2>3, <3>1
               DEF CalmStore, NoneBroken, Unbroken
    <2>9. \A r \in Range(jobs') : CalmSave(saver[r])'
      BY <2>3, <2>5, <2>6
    <2> QED  BY <2>7, <2>8, <2>9 DEF CalmInv
  <1>7. CASE ~(Len(saver[s].todo) > 1)
    <2>1. /\ MarkSavedClean(saver[s])
          /\ saver' = [saver EXCEPT ![s] = Idle]
          /\ jobs' = Tail(jobs)
          /\ saveTask' = IF s = Debounced /\ saveTask = "saving" THEN "none" ELSE saveTask
      BY <1>0, <1>7 DEF Execute, TaskEnds
    <2>2. Len(saver[s].todo) = 1
      BY <1>1, <1>5, <1>7, OneLeft
    <2>3. UNCHANGED <<turns, version>> /\ deleted' = {}
      BY <2>1 DEF MarkSavedClean
    <2>4. savedOrder' = turns
      <3>1. saver[s].covers = Range(turns)
        BY <1>2, <1>4 DEF CalmSave
      <3>2. Kept(turns, saver[s].covers) = turns
        BY <1>5, <3>1, KeptAll
      <3> QED  BY <2>1, <3>2 DEF MarkSavedClean
    <2>5. /\ \A t \in Range(turns) : Stored(t)'
          /\ Range(order') \subseteq Range(turns) \cup removed
          /\ Unique(order') /\ (Unbroken => order' = turns)
      BY <1>2, <1>3, <2>2, <2>3, CalmStoreStep
    <2>6. \A r \in Range(jobs') : CalmSave(saver[r])'
      <3> SUFFICES ASSUME NEW r \in Range(jobs') PROVE CalmSave(saver[r])'
        OBVIOUS
      <3>1. CalmSave(saver[r]) /\ saver'[r] = saver[r]
        BY <1>1, <1>2, <1>4, <2>1
      <3> QED  BY <2>3, <2>4, <2>5, <3>1, CalmStays
    <2>7. CalmMemory'
      BY <1>3, <1>4, <2>3, <2>4, <2>5 DEF CalmMemory
    <2>8. CalmStore'
      <3>1. CleanIsStored'
        BY <2>3, <2>5 DEF CleanIsStored, Stored
      <3>2. ASSUME NoneBroken, saveTask' = "saving"
            PROVE  ~pending' /\ Debounced \in Range(jobs')
        <4>1. s # Debounced /\ saveTask = "saving"
          BY <2>1, <3>2
        <4>2. ~pending /\ Debounced \in Range(jobs)
          BY <1>4, <3>2, <4>1 DEF CalmStore
        <4>3. Range(jobs) = Range(Tail(jobs)) \cup {s}
          BY <1>0, <1>1, <1>2, RangeHeadTail
        <4> QED  BY <1>3, <2>1, <4>1, <4>2, <4>3
      <3> QED  BY <1>3, <2>3, <2>4, <2>5, <3>1, <3>2
               DEF CalmStore, NoneBroken, Unbroken
    <2> QED  BY <2>6, <2>7, <2>8 DEF CalmInv
  <1> QED  BY <1>6, <1>7

(* A save that ends early leaves the others and the store as good as they   *)
(* were, unless a deletion counts on its having gone through.               *)
LEMMA CalmLess ==
    ASSUME SaveInv, CalmInv, Calm, ~NoneBroken,
           UNCHANGED <<around, memory, history>>,
           Range(jobs') \subseteq Range(jobs),
           \A r \in Range(jobs') : saver'[r] = saver[r],
           \A t \in Range(turns) : Stored(t) => Stored(t)',
           Range(order') \subseteq Range(turns) \cup removed,
           Unique(order'), order = turns => order' = turns
    PROVE  CalmInv'
  <1>1. CalmMemory /\ CalmStore /\ \A r \in Range(jobs) : CalmSave(saver[r])
    BY DEF CalmInv
  <1>2. UNCHANGED <<turns, version, dirty, deleted, savedOrder, used, removed, around>>
    BY DEF memory, history
  <1>3. CalmMemory'
    BY <1>1, <1>2 DEF CalmMemory
  <1>4. CleanIsStored'
    BY <1>1, <1>2 DEF CalmStore, CleanIsStored, Stored
  <1>5. CalmStore'
    BY <1>1, <1>2, <1>4 DEF CalmStore, NoneBroken, Unbroken
  <1>6. ASSUME NEW r \in Range(jobs') PROVE CalmSave(saver[r])'
    <2>1. CalmSave(saver[r]) /\ saver'[r] = saver[r]
      BY <1>1
    <2> QED  BY <1>2, <2>1, CalmStays
  <1> QED  BY <1>3, <1>5, <1>6 DEF CalmInv

LEMMA CalmFail ==
    ASSUME SaveInv, CalmInv, Calm, Fail, UNCHANGED around
    PROVE  CalmInv'
  <1>1. PICK s : s = Head(jobs)
    OBVIOUS
  <1>2. /\ "fail" \in around /\ jobs # <<>> /\ jobs' = Tail(jobs)
        /\ saver' = [saver EXCEPT ![s] = Idle]
        /\ UNCHANGED <<memory, store, history>>
    BY <1>1 DEF Fail
  <1>3. ~NoneBroken
    BY <1>2 DEF NoneBroken, Unbroken
  <1>4. /\ Range(jobs') \subseteq Range(jobs) \ {s}
        /\ Range(jobs) \subseteq Tasks /\ DOMAIN saver = Tasks
    BY <1>1, <1>2, NextInQueue, SaveTypes
  <1>5. \A r \in Range(jobs') : saver'[r] = saver[r]
    BY <1>2, <1>4
  <1>6. CalmMemory /\ CalmStore /\ UNCHANGED <<order, records, version>>
    BY <1>2 DEF CalmInv, memory, store
  <1>7. \A t \in Range(turns) : Stored(t) => Stored(t)'
    BY <1>6 DEF Stored
  <1>8. /\ Range(order') \subseteq Range(turns) \cup removed
        /\ Unique(order') /\ (order = turns => order' = turns)
    BY <1>6 DEF CalmMemory, CalmStore
  <1> QED  BY <1>2, <1>3, <1>4, <1>5, <1>7, <1>8, CalmLess

LEMMA CalmCancel ==
    ASSUME SaveInv, CalmInv, Calm, ~NoneBroken, NEW s \in Tasks, Cancel(s),
           UNCHANGED <<around, memory, history>>
    PROVE  CalmInv'
  <1>1. PICK i \in DOMAIN jobs :
           /\ jobs[i] = s
           /\ jobs' = RemoveAt(jobs, i)
           /\ \/ UNCHANGED store
              \/ i = 1 /\ Commit(Head(saver[s].todo), saver[s].wire)
    BY DEF Cancel
  <1>2. /\ jobs \in Seq(Tasks) /\ Unique(jobs) /\ DOMAIN saver = Tasks
        /\ Range(jobs) \subseteq Tasks
    BY SaveTypes
  <1>3. Range(jobs') \subseteq Range(jobs) \ {s}
    BY <1>1, <1>2, RangeRemoveAt, UniqueRemoveAt
  <1>4. saver' = [saver EXCEPT ![s] = Idle]
    BY DEF Cancel
  <1>5. \A r \in Range(jobs') : saver'[r] = saver[r]
    BY <1>2, <1>3, <1>4
  <1>6. s \in Range(jobs)
    BY <1>1 DEF Range
  <1>7. UNCHANGED <<turns, version>> /\ CalmMemory /\ CalmStore
    BY DEF memory, CalmInv
  <1>8. /\ \A t \in Range(turns) : Stored(t) => Stored(t)'
        /\ Range(order') \subseteq Range(turns) \cup removed
        /\ Unique(order') /\ (order = turns => order' = turns)
    <2>1. CASE UNCHANGED store
      BY <1>7, <2>1 DEF store, Stored, CalmMemory, CalmStore
    <2>2. CASE Commit(Head(saver[s].todo), saver[s].wire)
      BY <1>6, <1>7, <2>2, CalmStoreStep
    <2> QED  BY <1>1, <2>1, <2>2
  <1> QED  BY <1>3, <1>5, <1>8, CalmLess

LEMMA CalmAddTurn ==
    ASSUME SaveInv, CalmInv, Calm, NEW t \in Turns,
           AddUnscheduled(t) \/ AddScheduled(t), UNCHANGED around
    PROVE  CalmInv'
  <1>1. /\ AddTurn(t) /\ (saveTask' = "saving" => saveTask = "saving")
    BY DEF AddUnscheduled, AddScheduled, debounce
  <1>2. /\ jobs = <<>> /\ t \notin used /\ used' = used \cup {t}
        /\ version' = [version EXCEPT ![t] = 1] /\ turns' = Append(turns, t)
        /\ dirty' = dirty \cup {t}
        /\ UNCHANGED <<deleted, savedOrder, jobs, order, records, removed>>
    BY <1>1 DEF AddTurn, MayEdit, Calm, store
  <1>3. CalmMemory /\ CalmStore
    BY DEF CalmInv
  <1>4. turns \in Seq(Turns) /\ version \in [Turns -> Nat] /\ Range(turns) \subseteq Turns
    BY SaveTypes
  <1>5. Range(turns') = Range(turns) \cup {t} /\ Unique(turns')
    BY <1>2, <1>3, <1>4, RangeAppend, UniqueAppend DEF CalmMemory
  <1>6. CalmMemory'
    BY <1>2, <1>3, <1>5 DEF CalmMemory
  <1>7. CleanIsStored'
    BY <1>2, <1>3, <1>4, <1>5 DEF CalmStore, CleanIsStored
  <1>8. turns' # savedOrder'
    BY <1>2, <1>3, <1>5 DEF CalmMemory
  <1>9. Range(order') \subseteq Range(turns') \cup removed'
    BY <1>2, <1>3, <1>5 DEF CalmStore
  <1>10. NoneBroken => saveTask' # "saving" /\ order = savedOrder
    BY <1>1, <1>2, <1>3, NoRange DEF CalmStore
  <1>11. CalmStore'
    BY <1>2, <1>7, <1>8, <1>9, <1>10 DEF CalmStore, NoneBroken, Unbroken
  <1>12. Range(jobs') = {}
    BY <1>2, NoRange
  <1> QED  BY <1>6, <1>11, <1>12 DEF CalmInv

LEMMA CalmChangeTurn ==
    ASSUME SaveInv, CalmInv, Calm, NEW t \in Turns, ChangeTurn(t), UNCHANGED around
    PROVE  CalmInv'
  <1>1. /\ jobs = <<>> /\ t \in Range(turns)
        /\ version' = [version EXCEPT ![t] = version[t] + 1]
        /\ dirty' = dirty \cup {t}
        /\ UNCHANGED <<turns, deleted, savedOrder, jobs, order, records, removed, used,
                       pending, saveTask>>
    BY DEF ChangeTurn, MayEdit, Calm, store, debounce, history
  <1>2. CalmMemory /\ CalmStore /\ version \in [Turns -> Nat] /\ Range(turns) \subseteq Turns
    BY SaveTypes DEF CalmInv
  <1>3. CalmMemory'
    BY <1>1, <1>2 DEF CalmMemory
  <1>4. CleanIsStored'
    BY <1>1, <1>2 DEF CalmStore, CleanIsStored
  <1>5. CalmStore'
    BY <1>1, <1>2, <1>4 DEF CalmStore, NoneBroken, Unbroken
  <1>6. Range(jobs') = {}
    BY <1>1, NoRange
  <1> QED  BY <1>3, <1>5, <1>6 DEF CalmInv

(* Only the debouncing goes on.                                             *)
LEMMA CalmSame ==
    ASSUME CalmInv, Calm, UNCHANGED <<around, memory, saver, jobs, store, history>>,
           NoneBroken /\ saveTask' = "saving" => ~pending' /\ saveTask = "saving"
    PROVE  CalmInv'
  <1>1. /\ UNCHANGED <<around, turns, version, dirty, deleted, savedOrder, saver, jobs>>
        /\ UNCHANGED <<order, records, used, removed>>
    BY DEF memory, store, history
  <1>2. CalmMemory /\ CalmStore /\ \A r \in Range(jobs) : CalmSave(saver[r])
    BY DEF CalmInv
  <1>3. CalmMemory'
    BY <1>1, <1>2 DEF CalmMemory
  <1>4. CleanIsStored'
    BY <1>1, <1>2 DEF CalmStore, CleanIsStored
  <1>5. CalmStore'
    BY <1>1, <1>2, <1>4 DEF CalmStore, NoneBroken, Unbroken
  <1>6. ASSUME NEW r \in Range(jobs') PROVE CalmSave(saver[r])'
    <2>1. CalmSave(saver[r]) /\ saver'[r] = saver[r] /\ \A t \in Range(turns) : Stored(t) => Stored(t)'
      BY <1>1, <1>2 DEF Stored
    <2> QED  BY <1>1, <2>1, CalmStays
  <1> QED  BY <1>3, <1>5, <1>6 DEF CalmInv

LEMMA BeginQueue ==
    ASSUME SaveInv, NEW s \in Tasks, NEW m, Begin(s, m)
    PROVE  /\ s \notin Range(jobs) /\ jobs' # <<>>
           /\ Range(jobs') = Range(jobs) \cup {s}
           /\ \A r \in Range(jobs) : saver'[r] = saver[r]
  <1>1. PICK save : saver' = [saver EXCEPT ![s] = save]
    BY DEF Begin
  <1>2. saver[s].todo = <<>> /\ jobs' = Append(jobs, s)
    BY DEF Begin, Idle
  <1>3. jobs \in Seq(Tasks) /\ DOMAIN saver = Tasks /\ Range(jobs) \subseteq Tasks
    BY SaveTypes
  <1>4. s \notin Range(jobs)
    BY <1>2 DEF SaveInv, QueueInv
  <1>5. Range(jobs') = Range(jobs) \cup {s} /\ jobs' # <<>>
    BY <1>2, <1>3, RangeAppend
  <1> QED  BY <1>1, <1>3, <1>4, <1>5

LEMMA CalmBeginOwn ==
    ASSUME SaveInv, CalmInv, Calm, NEW s \in Tasks, Begin(s, Contents),
           UNCHANGED <<around, memory, store, history>>,
           NoneBroken /\ saveTask' = "saving" =>
               ~pending' /\ (saveTask = "saving" \/ s = Debounced)
    PROVE  CalmInv'
  <1>1. /\ UNCHANGED <<around, turns, version, dirty, deleted, savedOrder>>
        /\ UNCHANGED <<order, records, used, removed>>
    BY DEF memory, store, history
  <1>2. CalmMemory /\ CalmStore /\ \A r \in Range(jobs) : CalmSave(saver[r])
    BY DEF CalmInv
  <1>3. /\ jobs' # <<>> /\ Range(jobs') = Range(jobs) \cup {s}
        /\ \A r \in Range(jobs) : saver'[r] = saver[r]
    BY BeginQueue
  <1>4. CalmMemory'
    BY <1>1, <1>2 DEF CalmMemory
  <1>5. CleanIsStored'
    BY <1>1, <1>2 DEF CalmStore, CleanIsStored
  <1>6. CalmStore'
    BY <1>1, <1>2, <1>3, <1>5 DEF CalmStore, NoneBroken, Unbroken
  <1>7. ASSUME NEW r \in Range(jobs) PROVE CalmSave(saver[r])'
    <2>1. CalmSave(saver[r]) /\ saver'[r] = saver[r] /\ \A t \in Range(turns) : Stored(t) => Stored(t)'
      BY <1>1, <1>2, <1>3 DEF Stored
    <2> QED  BY <1>1, <2>1, CalmStays
  <1>8. CalmSave(saver[s])'
    <2>1. PICK m : m = Contents
      OBVIOUS
    <2>2. m.turns = turns /\ m.version = version /\ m.dirty = dirty /\ m.deleted = deleted
      BY <2>1 DEF Contents
    <2>3. /\ m.turns \in Seq(Turns) /\ m.deleted \subseteq Turns
          /\ savedOrder \in Seq(Turns) /\ DOMAIN saver = Tasks
      BY <2>2, SaveTypes
    <2>4. /\ Range(m.turns) \subseteq Range(savedOrder) \cup m.dirty
          /\ m.deleted \cap Range(m.turns) = {}
      BY <1>2, <2>2 DEF CalmMemory
    <2>5. \A t \in Range(m.turns) \ m.dirty : t \in Range(order) /\ records[t] = m.version[t]
      BY <1>2, <2>2 DEF CalmStore, CleanIsStored
    <2>6. Begin(s, m)
      BY <2>1
    <2>7. turns' = m.turns /\ version' = m.version /\ UNCHANGED <<savedOrder, store>>
      BY <1>1, <2>2

    <2> QED  BY <2>3, <2>4, <2>5, <2>6, <2>7, CalmBegin
  <1> QED  BY <1>3, <1>4, <1>6, <1>7, <1>8 DEF CalmInv

(* Deleting and archiving begin the save of what they leave.                *)
LEMMA CalmEdit ==
    ASSUME SaveInv, CalmMemory, NEW m, NEW s \in Tasks, Begin(s, m), jobs = <<>>,
           m.turns \in Seq(Turns), m.deleted \subseteq Turns,
           turns' = m.turns, version' = m.version, dirty' = m.dirty,
           deleted' = m.deleted, UNCHANGED <<savedOrder, store>>,
           CalmMemory', CleanIsStored'
    PROVE  /\ \A r \in Range(jobs') : CalmSave(saver[r])'
           /\ jobs' # <<>>
  <1>1. Range(jobs') = {s} /\ jobs' # <<>>
    BY BeginQueue, NoRange
  <1>2. savedOrder \in Seq(Turns) /\ DOMAIN saver = Tasks
    BY SaveTypes
  <1>3. /\ Range(m.turns) \subseteq Range(savedOrder) \cup m.dirty
        /\ m.deleted \cap Range(m.turns) = {}
    BY DEF CalmMemory
  <1>4. \A t \in Range(m.turns) \ m.dirty : t \in Range(order) /\ records[t] = m.version[t]
    BY DEF CleanIsStored, store
  <1>5. CalmSave(saver[s])'
    BY <1>2, <1>3, <1>4, CalmBegin
  <1> QED  BY <1>1, <1>5

LEMMA CalmDeleteTurns ==
    ASSUME SaveInv, CalmInv, Calm, NEW s \in Savers, NEW gone \in SUBSET Range(turns),
           DeleteTurns(s, gone), UNCHANGED around
    PROVE  CalmInv'
  <1>1. PICK m : m = [turns |-> Kept(turns, Turns \ gone),
                      version |-> version,
                      dirty |-> dirty \ gone,
                      deleted |-> deleted \cup (gone \cap Range(savedOrder))]
    OBVIOUS
  <1>2. /\ m.turns = Kept(turns, Turns \ gone) /\ m.version = version
        /\ m.dirty = dirty \ gone /\ m.deleted = deleted \cup (gone \cap Range(savedOrder))
    BY <1>1
  <1>3. /\ "delete" \in around /\ jobs = <<>> /\ Begin(s, m)
        /\ turns' = m.turns /\ version' = m.version
        /\ dirty' = m.dirty /\ deleted' = m.deleted
        /\ removed' = removed \cup (Range(turns) \ Range(m.turns))
        /\ UNCHANGED <<used, savedOrder, store, pending, saveTask>>
    BY <1>1 DEF DeleteTurns, EditAndSave, MayEdit, Calm, debounce
  <1>4. /\ turns \in Seq(Turns) /\ Range(turns) \subseteq Turns
        /\ savedOrder \in Seq(Turns) /\ deleted \subseteq Turns
    BY SaveTypes
  <1>5. CalmMemory /\ CalmStore
    BY DEF CalmInv
  <1>6. /\ m.turns \in Seq(Turns) /\ Range(m.turns) = Range(turns) \ gone
        /\ Unique(m.turns)
    BY <1>2, <1>4, <1>5, KeptRange DEF CalmMemory
  <1>7. UNCHANGED <<order, records>>
    BY <1>3 DEF store
  <1>8. CalmMemory'
    <2>1. Unique(turns') /\ Unique(order')
      BY <1>3, <1>5, <1>6, <1>7 DEF CalmMemory
    <2>2. removed' = removed \cup gone
      BY <1>3, <1>6
    <2>3. deleted' \subseteq removed' /\ deleted' \cap Range(turns') = {}
      BY <1>2, <1>3, <1>5, <1>6, <2>2 DEF CalmMemory
    <2>4. Range(turns') \cup Range(savedOrder') \cup removed' \subseteq used'
      BY <1>3, <1>5, <1>6, <2>2 DEF CalmMemory
    <2>5. Range(turns') \subseteq Range(savedOrder') \cup dirty'
      BY <1>2, <1>3, <1>5, <1>6 DEF CalmMemory
    <2> QED  BY <2>1, <2>3, <2>4, <2>5 DEF CalmMemory
  <1>9. CleanIsStored'
    BY <1>2, <1>3, <1>5, <1>6, <1>7 DEF CalmStore, CleanIsStored
  <1>10. s \in Tasks /\ m.deleted \subseteq Turns
    BY <1>2, <1>4 DEF Tasks
  <1>11. /\ \A r \in Range(jobs') : CalmSave(saver[r])'
         /\ jobs' # <<>>
    BY <1>3, <1>5, <1>6, <1>8, <1>9, <1>10, CalmEdit
  <1>12. Range(order') \subseteq Range(turns') \cup removed'
    BY <1>3, <1>5, <1>7 DEF CalmStore
  <1>13. Unbroken => NoneBroken /\ order = savedOrder /\ saveTask # "saving"
    BY <1>3, <1>5, NoRange DEF CalmStore, NoneBroken
  <1>14. CalmStore'
    BY <1>3, <1>7, <1>9, <1>11, <1>12, <1>13 DEF CalmStore, NoneBroken, Unbroken
  <1> QED  BY <1>8, <1>11, <1>14 DEF CalmInv

LEMMA CalmArchiveTurns ==
    ASSUME SaveInv, CalmInv, Calm, NEW s \in Savers, NEW i \in DOMAIN turns,
           NEW j \in DOMAIN turns, NEW t \in Turns, ArchiveTurns(s, i, j, t),
           UNCHANGED around
    PROVE  CalmInv'
  <1>1. PICK m : m = [turns |-> SubSeq(turns, 1, i - 1) \o <<t>>
                               \o SubSeq(turns, j + 1, Len(turns)),
                      version |-> [version EXCEPT ![t] = 1],
                      dirty |-> (dirty \ Range(SubSeq(turns, i, j))) \cup {t},
                      deleted |-> deleted]
    OBVIOUS
  <1>2. /\ m.turns = SubSeq(turns, 1, i - 1) \o <<t>> \o SubSeq(turns, j + 1, Len(turns))
        /\ m.version = [version EXCEPT ![t] = 1]
        /\ m.dirty = (dirty \ Range(SubSeq(turns, i, j))) \cup {t}
        /\ m.deleted = deleted
    BY <1>1
  <1>3. /\ t \notin used /\ i <= j /\ jobs = <<>> /\ Begin(s, m)
        /\ turns' = m.turns /\ version' = m.version
        /\ dirty' = m.dirty /\ deleted' = m.deleted
        /\ removed' = removed \cup (Range(turns) \ Range(m.turns))
        /\ used' = used \cup {t}
        /\ UNCHANGED <<savedOrder, store, pending, saveTask>>
    BY <1>1 DEF ArchiveTurns, EditAndSave, MayEdit, Calm, debounce
  <1>4. /\ turns \in Seq(Turns) /\ Range(turns) \subseteq Turns
        /\ version \in [Turns -> Nat] /\ deleted \subseteq Turns
    BY SaveTypes
  <1>5. CalmMemory /\ CalmStore
    BY DEF CalmInv
  <1>6. /\ m.turns \in Seq(Turns) /\ Unique(m.turns)
        /\ t \in Range(m.turns) /\ Range(m.turns) \subseteq Range(turns) \cup {t}
        /\ Range(m.turns) \cap Range(SubSeq(turns, i, j)) = {}
    <2>1. Unique(turns) /\ t \notin Range(turns)
      BY <1>3, <1>5 DEF CalmMemory
    <2>2. m.turns = Replaced(turns, i, j, t)
      BY <1>2 DEF Replaced
    <2> QED  BY <1>3, <1>4, <2>1, <2>2, RangeReplaced
  <1>7. UNCHANGED <<order, records>>
    BY <1>3 DEF store
  <1>8. CalmMemory'
    <2>1. Unique(turns') /\ Unique(order')
      BY <1>3, <1>5, <1>6, <1>7 DEF CalmMemory
    <2>2. Range(turns') \cup Range(savedOrder') \cup removed' \subseteq used'
      BY <1>3, <1>5, <1>6 DEF CalmMemory
    <2>3. deleted' \subseteq removed' /\ deleted' \cap Range(turns') = {}
      BY <1>2, <1>3, <1>5, <1>6 DEF CalmMemory
    <2>4. Range(turns') \subseteq Range(savedOrder') \cup dirty'
      BY <1>2, <1>3, <1>5, <1>6 DEF CalmMemory
    <2> QED  BY <2>1, <2>2, <2>3, <2>4 DEF CalmMemory
  <1>9. CleanIsStored'
    BY <1>2, <1>3, <1>4, <1>5, <1>6, <1>7 DEF CalmStore, CleanIsStored
  <1>10. s \in Tasks /\ m.deleted \subseteq Turns
    BY <1>2, <1>4 DEF Tasks
  <1>11. /\ \A r \in Range(jobs') : CalmSave(saver[r])'
         /\ jobs' # <<>>
    BY <1>3, <1>5, <1>6, <1>8, <1>9, <1>10, CalmEdit
  <1>12. Range(order') \subseteq Range(turns') \cup removed'
    BY <1>3, <1>5, <1>7 DEF CalmStore
  <1>13. turns' # savedOrder'
    BY <1>3, <1>5, <1>6 DEF CalmMemory
  <1>14. NoneBroken => saveTask # "saving"
    BY <1>3, <1>5, NoRange DEF CalmStore
  <1>15. CalmStore'
    BY <1>3, <1>9, <1>11, <1>12, <1>13, <1>14 DEF CalmStore, NoneBroken, Unbroken
  <1> QED  BY <1>8, <1>11, <1>15 DEF CalmInv

LEMMA CalmCrash ==
    ASSUME SaveInv, CalmInv, Calm, Crash, UNCHANGED around
    PROVE  CalmInv'
  <1>1. /\ turns' = order /\ savedOrder' = order /\ version' = records
        /\ dirty' = {} /\ deleted' = {} /\ jobs' = <<>> /\ saveTask' = "none"
        /\ removed' = removed \ Range(order)
        /\ UNCHANGED <<order, records, used>>
    BY SaveTypes, LoadedIsOrder DEF Crash, store
  <1>2. CalmMemory /\ CalmStore
    BY DEF CalmInv
  <1>3. CalmMemory'
    BY <1>1, <1>2 DEF CalmMemory, CalmStore
  <1>4. CleanIsStored'
    BY <1>1 DEF CleanIsStored
  <1>5. CalmStore'
    BY <1>1, <1>4 DEF CalmStore
  <1>6. Range(jobs') = {}
    BY <1>1, NoRange
  <1> QED  BY <1>3, <1>5, <1>6 DEF CalmInv

LEMMA CalmInit == Init => CalmInv
  <1> SUFFICES ASSUME Init PROVE CalmInv
    OBVIOUS
  <1>1. Cardinality(OldTurns) \in Nat
    BY SaveAssumption, FS_Subset, FS_CardinalityType
  <1>2. /\ turns \in [1..Cardinality(OldTurns) -> OldTurns]
        /\ \A i, j \in 1..Cardinality(OldTurns) : i # j => turns[i] # turns[j]
    BY DEF Init, SetToSeqs
  <1>3. Unique(turns) /\ Range(turns) \subseteq OldTurns
    BY <1>2 DEF Unique, Range
  <1>4. /\ order = turns /\ savedOrder = turns /\ records = version /\ dirty = {}
        /\ deleted = {} /\ removed = {} /\ used = OldTurns /\ jobs = <<>>
        /\ saveTask = "none"
    BY DEF Init
  <1>5. CalmMemory
    BY <1>3, <1>4 DEF CalmMemory
  <1>6. CalmStore
    BY <1>4 DEF CalmStore, CleanIsStored
  <1>7. Range(jobs) = {}
    BY <1>4, NoRange
  <1> QED  BY <1>5, <1>6, <1>7 DEF CalmInv

LEMMA NextCalmInv == SaveInv /\ CalmInv /\ [Next]_vars => CalmInv'
  <1> SUFFICES ASSUME SaveInv, CalmInv, [Next]_vars, Calm' PROVE CalmInv'
    BY DEF CalmInv
  <1>1. CASE UNCHANGED vars
    <2>1. /\ UNCHANGED <<around, memory, saver, jobs, store, history>>
          /\ UNCHANGED <<pending, saveTask, around>>
      BY <1>1 DEF vars, debounce
    <2>2. NoneBroken /\ saveTask' = "saving" => ~pending' /\ saveTask = "saving"
      BY <2>1 DEF CalmInv, CalmStore, Calm
    <2> QED  BY <2>1, <2>2, CalmSame DEF Calm
  <1>2. CASE Next
    <2>1. UNCHANGED around /\ Calm
      BY <1>2 DEF Next, Steady, Calm
    <2>2. CASE Execute
      BY <2>1, <2>2, CalmExecute
    <2>3. CASE Fail
      BY <2>1, <2>3, CalmFail
    <2>4. CASE Edit
      BY <2>1, <2>4, CalmAddTurn, CalmChangeTurn, CalmDeleteTurns, CalmArchiveTurns
         DEF Edit, OtherSavers
    <2>5. ASSUME NEW s \in OtherSavers, Save(s) PROVE CalmInv'
      <3>1. /\ Begin(s, Contents) /\ s \in Tasks
            /\ UNCHANGED <<memory, store, history, pending, saveTask>>
        BY <2>5 DEF Save, Tasks, debounce, OtherSavers
      <3>2. NoneBroken /\ saveTask' = "saving" => ~pending' /\ saveTask = "saving"
        BY <2>1, <3>1 DEF CalmInv, CalmStore
      <3> QED  BY <2>1, <3>1, <3>2, CalmBeginOwn
    <2>6. CASE DebounceOver
      <3>1. ~pending' /\ UNCHANGED <<memory, store, history>> /\ Debounced \in Tasks
        BY <2>6 DEF DebounceOver, Tasks
      <3>2. CASE pending
        <4>1. Begin(Debounced, Contents)
          BY <2>6, <3>2 DEF DebounceOver
        <4> QED  BY <2>1, <3>1, <4>1, CalmBeginOwn
      <3>3. CASE ~pending
        <4>1. saveTask' = "none" /\ UNCHANGED <<saver, jobs>>
          BY <2>6, <3>3 DEF DebounceOver
        <4> QED  BY <2>1, <3>1, <4>1, CalmSame
      <3> QED  BY <3>2, <3>3
    <2>7. CASE FlushPending
      <3>1. /\ pending /\ ~pending' /\ UNCHANGED <<memory, history>>
            /\ Flush \in Tasks /\ Debounced \in Tasks
        BY <2>7 DEF FlushPending, Tasks
      <3>2. CASE saveTask = "none" /\ Begin(Flush, Contents) /\ UNCHANGED <<saveTask, store>>
        BY <2>1, <3>1, <3>2, CalmBeginOwn
      <3>3. CASE saveTask' = "joined" /\ UNCHANGED <<saver, jobs, store>>
        BY <2>1, <3>1, <3>3, CalmSame
      <3>4. CASE saveTask = "saving" /\ Cancel(Debounced)
        <4>1. ~NoneBroken
          BY <2>1, <3>1, <3>4 DEF CalmInv, CalmStore
        <4> QED  BY <2>1, <3>1, <3>4, <4>1, CalmCancel
      <3> QED  BY <2>7, <3>2, <3>3, <3>4 DEF FlushPending
    <2>8. CASE FlushJoined
      <3>1. /\ Begin(Flush, Contents) /\ saveTask' = "none" /\ Flush \in Tasks
            /\ UNCHANGED <<memory, store, history>>
        BY <2>8 DEF FlushJoined, Tasks
      <3> QED  BY <2>1, <3>1, CalmBeginOwn
    <2>9. CASE CancelFlush
      <3>1. "cancel" \in around /\ Cancel(Flush) /\ Flush \in Tasks
            /\ UNCHANGED <<memory, history>>
        BY <2>9 DEF CancelFlush, Tasks
      <3>2. ~NoneBroken
        BY <3>1 DEF NoneBroken, Unbroken
      <3> QED  BY <2>1, <3>1, <3>2, CalmCancel
    <2>10. CASE Crash
      BY <2>1, <2>10, CalmCrash
    <2> QED  BY <1>2, <2>2, <2>3, <2>4, <2>5, <2>6, <2>7, <2>8, <2>9, <2>10 DEF Next, Step
  <1> QED  BY <1>1, <1>2

LEMMA SpecSaveInvs == Spec => [](SaveInv /\ CalmInv)
  BY InitSaveInv, NextSaveInv, CalmInit, NextCalmInv, PTL DEF Spec

(* When nothing is left to save, a new process would find the session as it *)
(* is.                                                                      *)
THEOREM SavedMeansStoredHolds == Spec => []SavedMeansStored
  <1>1. SaveInv /\ CalmInv => SavedMeansStored
    <2> SUFFICES ASSUME SaveInv, CalmInv, Calm, Unbroken, Quiet
                 PROVE  /\ Loaded = turns
                        /\ \A t \in Range(turns) : records[t] = version[t]
      BY DEF SavedMeansStored
    <2>1. turns = savedOrder /\ dirty = {}
      BY DEF Quiet, NeedsSave
    <2>2. order = turns
      BY <2>1 DEF CalmInv, CalmStore
    <2>3. \A t \in Range(turns) : records[t] = version[t]
      BY <2>1 DEF CalmInv, CalmStore, CleanIsStored
    <2> QED  BY <2>2, <2>3, LoadedIsOrder, SaveTypes
  <1> QED  BY <1>1, SpecSaveInvs, PTL

LEMMA LoadedWhole == SaveInv => Loaded = order
  BY SaveTypes, LoadedIsOrder

(* No step takes from the disk what the session still has.                  *)
LEMMA CalmKeeps ==
    ASSUME SaveInv, CalmInv, Calm, Next
    PROVE  Range(order) \subseteq Range(order') \cup removed
  <1>1. CASE UNCHANGED order
    BY <1>1
  <1>2. CASE Execute
    <2>1. PICK s : s = Head(jobs)
      OBVIOUS
    <2>2. s \in Range(jobs) /\ Commit(Head(saver[s].todo), saver[s].wire)
      BY <1>2, <2>1, SaveTypes, RangeTail DEF Execute
    <2>3. UNCHANGED <<turns, version>>
      BY <1>2 DEF Execute, memory, MarkSavedClean
    <2> QED  BY <2>2, <2>3, CalmStoreStep
  <1>3. ASSUME NEW s \in Tasks, Cancel(s), UNCHANGED memory
        PROVE  Range(order) \subseteq Range(order') \cup removed
    <2>1. CASE UNCHANGED store
      BY <2>1 DEF store
    <2>2. CASE \E i \in DOMAIN jobs : jobs[i] = s /\ Commit(Head(saver[s].todo), saver[s].wire)
      <3>1. s \in Range(jobs)
        BY <2>2 DEF Range
      <3>2. UNCHANGED <<turns, version>>
        BY <1>3 DEF memory
      <3> QED  BY <2>2, <3>1, <3>2, CalmStoreStep
    <2> QED  BY <1>3, <2>1, <2>2 DEF Cancel
  <1>4. CASE FlushPending
    BY <1>1, <1>3, <1>4 DEF FlushPending, Tasks, store
  <1>5. CASE CancelFlush
    BY <1>3, <1>5 DEF CancelFlush, Tasks
  <1>6. CASE Edit
    <2>1. ASSUME NEW t \in Turns, AddUnscheduled(t) \/ AddScheduled(t) \/ ChangeTurn(t)
          PROVE  UNCHANGED order
      BY <2>1 DEF AddUnscheduled, AddScheduled, AddTurn, ChangeTurn, store
    <2>2. ASSUME NEW s, NEW gone, DeleteTurns(s, gone) PROVE UNCHANGED order
      BY <2>2 DEF DeleteTurns, EditAndSave, store
    <2>3. ASSUME NEW s, NEW i, NEW j, NEW t, ArchiveTurns(s, i, j, t)
          PROVE  UNCHANGED order
      BY <2>3 DEF ArchiveTurns, EditAndSave, store
    <2> QED  BY <1>1, <1>6, <2>1, <2>2, <2>3 DEF Edit
  <1>7. CASE \/ Fail \/ DebounceOver \/ FlushJoined \/ Crash
             \/ \E s \in OtherSavers : Save(s)
    BY <1>1, <1>7 DEF Fail, DebounceOver, FlushJoined, Crash, Save, store
  <1> QED  BY <1>2, <1>4, <1>5, <1>6, <1>7 DEF Next, Step

(* So what was on disk once and was not taken out of the session stays      *)
(* there, whatever fails, is cancelled or crashes.                          *)
THEOREM StoredStaysThere == Spec => StoredStays
  <1>1. SaveInv' => (Loaded = order)'
    BY LoadedWhole, PTL
  <1>2. SaveInv /\ CalmInv /\ SaveInv' /\ [Next]_vars
           => [Calm => Range(Loaded) \subseteq Range(Loaded') \cup removed]_vars
    BY <1>1, LoadedWhole, CalmKeeps
  <1> QED  BY <1>2, SpecSaveInvs, PTL DEF Spec, StoredStays

-----------------------------------------------------------------------------
(***************************************************************************)
(* Saving while a session only grows, also during saves, and only the      *)
(* runner saves (Growing).  What is on disk is a beginning of the          *)
(* conversation.  A save writes the turns after those that were saved when *)
(* it began, one after the other, up to the one that was the last then.    *)
(* Two saves can be under way, the end of a stream's and after it a        *)
(* debounced one of the next stream, and the second never overtakes the    *)
(* first, as the executor takes turns between them.                        *)
(***************************************************************************)
Growing == around \cap {"others", "change"} = {} /\ OldTurns # {}

GrowMemory ==
    /\ Unique(turns) /\ Range(turns) \subseteq used
    /\ deleted = {}
    /\ Len(savedOrder) \in 1..Len(order)
    /\ Len(order) \in 1..Len(turns)
    /\ savedOrder = First(turns, Len(savedOrder))
    /\ order = First(turns, Len(order))
    /\ dirty = {turns[i] : i \in Len(savedOrder) + 1 .. Len(turns)}
    /\ \A t \in Range(order) : records[t] = version[t]

(* A save that covers the first c turns has gone past this many: those it   *)
(* has still to write come after the next one, the order is last.           *)
Past(v, c) == c - Len(v.todo)

GrowSave(v, c) ==
    /\ ~v.full /\ v.todo # <<>>
    /\ c \in Len(order)..Len(turns)
    /\ v.covers = {turns[i] : i \in 1..c}
    /\ Past(v, c) \in -1 .. Len(order) - 1
    /\ \A j \in 1..Len(v.todo) :
           \/ /\ j = 1 /\ v.todo[j] = Session
              /\ Len(v.todo) = 1 \/ Past(v, c) + 2 <= Len(order)
           \/ j < Len(v.todo) /\ v.todo[j] = OnTurn("save", turns[Past(v, c) + j + 1])
           \/ j = Len(v.todo) /\ v.todo[j] = OnList("order", First(turns, c))
    /\ Head(v.todo).op = "save" =>
           v.wire[Head(v.todo).turn] = version[Head(v.todo).turn]

(* The final save covers f turns, the debounced one d.                      *)
FlushFirst(d, f) ==
    /\ Flush \in Range(jobs) =>
           /\ Past(saver[Flush], f) + 2 >= Len(savedOrder)
           /\ Len(saver[Flush].todo) > 1 => f > Len(savedOrder)
    /\ Flush \in Range(jobs) /\ Debounced \in Range(jobs) =>
           /\ f <= d
           /\ Past(saver[Flush], f) >= Past(saver[Debounced], d)
           /\ Past(saver[Flush], f) = Past(saver[Debounced], d) =>
                  \A i, j \in DOMAIN jobs :
                      jobs[i] = Flush /\ jobs[j] = Debounced => i < j

GrowSaves(d, f) ==
    /\ Range(jobs) \subseteq {Debounced, Flush}
    /\ Debounced \in Range(jobs) => GrowSave(saver[Debounced], d)
    /\ Flush \in Range(jobs) => GrowSave(saver[Flush], f)
    /\ FlushFirst(d, f)

GrowInv ==
    Growing =>
        /\ GrowMemory
        /\ \E d, f \in 0..Len(turns) : GrowSaves(d, f)
        /\ Debounced \in Range(jobs) => saveTask = "saving"

(* What a transaction of such a save does to the store: the order stays, or *)
(* the next turn comes to its end.                                          *)
LEMMA GrowCommit ==
    ASSUME SaveInv, GrowMemory, NEW v, NEW c, GrowSave(v, c), NEW S, v.todo \in Seq(S),
           Commit(Head(v.todo), v.wire), UNCHANGED <<turns, version>>
    PROVE  /\ \A t \in Range(order') : records'[t] = version[t]
           /\ order' = First(turns, Len(order')) /\ Len(order') \in Len(order)..c
           /\ \/ Len(order') = Len(order)
              \/ Len(v.todo) > 1 /\ Len(order') = Past(v, c) + 2
           /\ Len(v.todo) > 1 => Past(v, c) + 2 <= Len(order')
  <1> DEFINE tx == v.todo[1]
             L == Len(v.todo)
             o == Len(order)
             p == Past(v, c)
  <1>1. /\ turns \in Seq(Turns) /\ order \in Seq(Turns) /\ Range(turns) \subseteq Turns
        /\ records \in [Turns -> Nat]
    BY SaveTypes
  <1>2. /\ ~v.full /\ c \in o..Len(turns) /\ p \in -1 .. o - 1 /\ p = c - L
        /\ o \in 1..Len(turns) /\ order = First(turns, o) /\ Unique(turns)
        /\ \A t \in Range(order) : records[t] = version[t]
    <2>1. ~v.full /\ c \in o..Len(turns) /\ p \in -1 .. o - 1 /\ p = c - L
      BY DEF GrowSave, Past
    <2>2. /\ o \in 1..Len(turns) /\ order = First(turns, o) /\ Unique(turns)
          /\ \A t \in Range(order) : records[t] = version[t]
      BY DEF GrowMemory
    <2> QED  BY <2>1, <2>2
  <1>3. L \in Nat /\ L # 0 /\ Head(v.todo) = tx /\ Len(turns) \in Nat
    BY <1>1, NoLength DEF GrowSave
  <1>4. \/ tx = Session /\ (L = 1 \/ p + 2 <= o)
        \/ 1 < L /\ tx = OnTurn("save", turns[p + 1 + 1])
        \/ 1 = L /\ tx = OnList("order", First(turns, c))
    <2>1. 1 \in 1..L
      BY <1>3
    <2> QED  BY <2>1 DEF GrowSave
  <1>5. tx.op = "save" => v.wire[tx.turn] = version[tx.turn]
    BY <1>3 DEF GrowSave
  <1>6. Commit(tx, v.wire)
    BY <1>3
  <1> HIDE DEF tx, L, o, p
  <1>7. CASE order' = order /\ UNCHANGED records /\ (L > 1 => p + 2 <= o)
    <2>1. Len(order') = o /\ o \in o..c
      BY <1>2, <1>7 DEF o
    <2> QED  BY <1>2, <1>7, <2>1 DEF L, o, p
  <1>8. CASE tx = Session
    <2>1. UNCHANGED store
      BY <1>6, <1>8 DEF Commit, Session
    <2>2. L > 1 => p + 2 <= o
      BY <1>3, <1>4, <1>8 DEF Session, OnTurn, OnList
    <2> QED  BY <1>7, <2>1, <2>2 DEF store
  <1>9. CASE 1 = L /\ tx = OnList("order", First(turns, c))
    <2>1. c = o
      BY <1>2, <1>3, <1>9
    <2>2. UNCHANGED records /\ order' = order
      BY <1>2, <1>6, <1>9, <2>1 DEF Commit, OnList, ReorderTurns
    <2> QED  BY <1>7, <1>9, <2>2
  <1>10. CASE 1 < L /\ tx = OnTurn("save", turns[p + 1 + 1])
    <2>1. p + 2 \in 1..c /\ p + 1 + 1 = p + 2 /\ c <= Len(turns) /\ p + 2 \in 1..Len(turns)
      <3>1. PICK n : n = Len(turns)
        OBVIOUS
      <3>2. /\ n \in Nat /\ L \in Nat /\ 1 < L /\ p = c - L
            /\ o \in 1..n /\ c \in o..n /\ p \in -1 .. o - 1
        BY <1>2, <1>3, <1>10, <3>1
      <3>3. p + 2 \in 1..c /\ p + 1 + 1 = p + 2 /\ c <= n /\ p + 2 \in 1..n
        BY ONLY <3>2
      <3> QED  BY <3>1, <3>3
    <2>2. PICK t : t = turns[p + 2]
      OBVIOUS
    <2>3. t \in Turns /\ tx.op = "save" /\ tx.turn = t /\ v.wire[t] = version[t]
      BY <1>1, <1>5, <1>10, <2>1, <2>2 DEF OnTurn
    <2>4. /\ records' = [records EXCEPT ![t] = version[t]]
          /\ order' = IF t \in Range(order) THEN order ELSE Append(order, t)
      BY <1>6, <2>3 DEF Commit, SaveTurn
    <2>5. /\ DOMAIN order = 1..o /\ \A i \in 1..o : order[i] = turns[i]
          /\ Range(order) = {turns[i] : i \in 1..o}
      <3>1. o \in 0..Len(turns)
        BY <1>2
      <3> QED  BY <1>1, <1>2, <3>1, FirstOf
    <2>6. \A u \in Turns : records'[u] = IF u = t THEN version[t] ELSE records[u]
      BY <1>1, <2>4
    <2>7. Range(order) \subseteq Turns
      BY <1>1, RangeType
    <2>8. CASE t \in Range(order)
      <3>1. PICK i \in 1..o : turns[i] = turns[p + 2]
        BY <2>2, <2>5, <2>8
      <3>2. i \in DOMAIN turns /\ p + 2 \in DOMAIN turns
        <4>1. DOMAIN turns = 1..Len(turns)
          BY <1>1
        <4>2. i \in 1..Len(turns)
          BY <1>2, <1>3, <3>1
        <4> QED  BY <2>1, <4>1, <4>2
      <3>3. i = p + 2
        BY <1>2, <3>1, <3>2 DEF Unique
      <3>4. p + 2 <= o /\ order' = order
        BY <2>4, <2>8, <3>1, <3>3
      <3>5. Len(order') = o /\ o \in o..c
        BY <1>2, <3>4 DEF o
      <3>6. \A u \in Range(order') : records'[u] = version[u]
        BY <1>2, <2>6, <2>7, <3>4
      <3> QED  BY <1>2, <3>4, <3>5, <3>6 DEF L, o, p
    <2>9. CASE t \notin Range(order)
      <3>1. ~(p + 2 <= o)
        BY <2>1, <2>2, <2>5, <2>9
      <3>2. o = p + 1 /\ o + 1 = p + 2
        BY <1>2, <3>1
      <3>3. o \in 0..Len(turns) /\ o < Len(turns) /\ o + 1 \in 0..Len(turns)
        BY <1>2, <1>3, <2>1, <3>2
      <3>4. order' = Append(First(turns, o), turns[o + 1])
        BY <1>2, <2>2, <2>4, <2>9, <3>2
      <3>5. order' = First(turns, o + 1)
        BY <1>1, <3>3, <3>4, FirstGrows
      <3>6. Len(order') = o + 1 /\ Range(order') = {turns[i] : i \in 1..o + 1}
        <4>1. PICK n : n = o + 1 /\ n \in 0..Len(turns)
          BY <3>3
        <4>2. Len(First(turns, n)) = n /\ Range(First(turns, n)) = {turns[i] : i \in 1..n}
          BY <1>1, <4>1, FirstOf
        <4> QED  BY ONLY <3>5, <4>1, <4>2, Zenon
      <3>7. Range(order') \subseteq Range(order) \cup {t}
        <4>1. \A i \in 1..o + 1 : i \in 1..o \/ i = p + 2
          BY <1>2, <3>2
        <4> QED  BY <2>2, <2>5, <3>6, <4>1
      <3>8. \A u \in Range(order') : records'[u] = version[u]
        BY <1>2, <2>3, <2>6, <2>7, <3>7
      <3>9. o + 1 \in o..c
        BY <1>2, <2>1, <3>2
      <3> QED  BY <1>10, <3>2, <3>5, <3>6, <3>8, <3>9 DEF L, o, p
    <2> QED  BY <2>8, <2>9
  <1> QED  BY <1>4, <1>8, <1>9, <1>10

(* A save that waits meanwhile stands as it did.                            *)
LEMMA GrowStays ==
    ASSUME SaveInv, GrowMemory, NEW v, NEW c, GrowSave(v, c), UNCHANGED <<turns, version>>,
           Len(order') \in Len(order)..c
    PROVE  GrowSave(v, c)'
  <1> DEFINE o == Len(order)
             q == Len(order')
             p == Past(v, c)
  <1>1. o \in Nat /\ c \in o..Len(turns) /\ q \in o..c /\ p \in -1 .. o - 1
    BY SaveTypes DEF GrowSave
  <1>2. Len(turns) \in Nat
    BY SaveTypes
  <1> HIDE DEF o, q, p
  <1>3. /\ c \in q..Len(turns) /\ p \in -1 .. q - 1
        /\ \A x \in -1 .. o : x <= o => x <= q
    BY <1>1, <1>2
  <1>4. \A x \in -1 .. o - 1 : x + 2 <= o => x + 2 <= q
    BY <1>1
  <1>5. p + 2 <= o => p + 2 <= q
    BY <1>1, <1>4
  <1> QED  BY <1>3, <1>5 DEF GrowSave, Past, o, q, p

(* Its next transaction.                                                    *)
LEMMA GrowContinues ==
    ASSUME SaveInv, NEW v, NEW c, GrowSave(v, c), NEW S, v.todo \in Seq(S),
           Len(v.todo) > 1, UNCHANGED <<turns, version>>, order' \in Seq(Turns),
           Len(order') \in Len(order)..c, Past(v, c) + 2 <= Len(order'),
           NEW u, u = Continued(v)
    PROVE  GrowSave(u, c)' /\ Past(u, c) = Past(v, c) + 1
  <1> DEFINE L == Len(v.todo)
             rest == Tail(v.todo)
             q == Len(order')
             p == Past(v, c)
  <1>1. /\ u.todo = rest /\ u.covers = v.covers /\ u.full = v.full /\ ~v.full
        /\ u.wire = Serialised(v.todo[2])
    BY DEF Continued, GrowSave
  <1>2. /\ L \in Nat /\ L > 1 /\ rest \in Seq(S) /\ Len(rest) = L - 1
        /\ \A j \in 1..L - 1 : rest[j] = v.todo[j + 1]
        /\ rest # <<>> /\ Head(rest) = v.todo[2]
    BY LaterOnes
  <1>3. /\ Len(order) \in Nat /\ Len(turns) \in Nat /\ q \in Nat
        /\ c \in Len(order)..Len(turns) /\ p \in -1 .. Len(order) - 1 /\ p = c - L
        /\ q \in Len(order)..c /\ p + 2 <= q
    <2>1. order \in Seq(Turns) /\ turns \in Seq(Turns)
      BY SaveTypes
    <2>2. Len(order) \in Nat /\ Len(turns) \in Nat /\ q \in Nat
      BY <2>1
    <2>3. c \in Len(order)..Len(turns) /\ p \in -1 .. Len(order) - 1
      BY DEF GrowSave
    <2>4. p = c - L
      BY DEF Past
    <2> QED  BY <2>2, <2>3, <2>4
  <1>4. \A j \in 1..L :
           \/ j = 1
           \/ j < L /\ v.todo[j] = OnTurn("save", turns[p + j + 1])
           \/ j = L /\ v.todo[j] = OnList("order", First(turns, c))
    BY DEF GrowSave
  <1> HIDE DEF L, rest, q, p
  <1>5. c - (L - 1) = p + 1 /\ p + 1 \in -1 .. q - 1 /\ c \in q..Len(turns)
    BY <1>2, <1>3
  <1>6. ASSUME NEW j \in 1..L - 1
        PROVE  \/ j < L - 1 /\ rest[j] = OnTurn("save", turns[p + 1 + j + 1])
               \/ j = L - 1 /\ rest[j] = OnList("order", First(turns, c))
    <2>1. /\ j + 1 \in 1..L /\ j + 1 # 1 /\ p + (j + 1) + 1 = p + 1 + j + 1
          /\ (j + 1 < L <=> j < L - 1) /\ (j + 1 = L <=> j = L - 1)
      BY <1>2, <1>3
    <2>2. rest[j] = v.todo[j + 1]
      BY <1>2
    <2> QED  BY <1>4, <2>1, <2>2
  <1>7. Past(u, c) = p + 1
    BY <1>1, <1>2, <1>5 DEF Past
  <1>8. Head(u.todo).op = "save" => u.wire[Head(u.todo).turn] = version[Head(u.todo).turn]
    BY <1>1, <1>2 DEF Serialised
  <1>9. \A j \in 1..Len(u.todo) :
           \/ j < Len(u.todo) /\ u.todo[j] = OnTurn("save", turns[Past(u, c) + j + 1])
           \/ j = Len(u.todo) /\ u.todo[j] = OnList("order", First(turns, c))
    BY <1>1, <1>2, <1>6, <1>7
  <1>10. u.covers = {turns[i] : i \in 1..c}
    BY <1>1 DEF GrowSave
  <1>11. GrowSave(u, c)'
    <2>1. Past(u, c) \in -1 .. q - 1
      BY <1>5, <1>7
    <2> QED  BY <1>1, <1>2, <1>5, <1>8, <1>9, <1>10, <2>1 DEF GrowSave, Past, q
  <1> QED  BY <1>7, <1>11 DEF p

(* When it is through, it has saved as far as the order goes.               *)
LEMMA GrowDone ==
    ASSUME SaveInv, GrowMemory, NEW v, NEW c, GrowSave(v, c), Len(v.todo) = 1,
           MarkSavedClean(v)
    PROVE  /\ c = Len(order) /\ savedOrder' = First(turns, c) /\ Len(savedOrder') = c
           /\ dirty' = {turns[i] : i \in c + 1 .. Len(turns)}
           /\ deleted' = {} /\ UNCHANGED <<turns, version>>
  <1>1. /\ turns \in Seq(Turns) /\ Len(turns) \in Nat /\ DOMAIN turns = 1..Len(turns)
        /\ Range(turns) = {turns[i] : i \in 1..Len(turns)}
    BY SaveTypes DEF Range
  <1>2. /\ c \in Len(order)..Len(turns) /\ Len(order) \in 1..Len(turns)
        /\ c - 1 \in -1 .. Len(order) - 1 /\ ~v.full /\ Len(savedOrder) \in 1..Len(order)
        /\ v.covers = {turns[i] : i \in 1..c}
    BY DEF GrowSave, GrowMemory, Past
  <1>3. c = Len(order) /\ c \in 0..Len(turns) /\ Len(savedOrder) <= c
    BY <1>1, <1>2
  <1>4. \A i, j \in 1..Len(turns) : turns[i] = turns[j] => i = j
    BY <1>1 DEF GrowMemory, Unique
  <1>5. /\ \A i \in 1..c : turns[i] \in v.covers
        /\ \A i \in c + 1..Len(turns) : turns[i] \notin v.covers
    <2>1. ASSUME NEW i \in c + 1..Len(turns), NEW j \in 1..c, turns[i] = turns[j]
          PROVE  FALSE
      <3>1. i \in 1..Len(turns) /\ j \in 1..Len(turns) /\ i # j
        BY <1>1, <1>3
      <3> QED  BY <1>4, <2>1, <3>1
    <2> QED  BY <1>2, <2>1
  <1>6. Kept(turns, v.covers) = First(turns, c)
    BY <1>1, <1>3, <1>5, KeptFirst DEF First
  <1>7. savedOrder' = First(turns, c) /\ deleted' = {} /\ UNCHANGED <<turns, version>>
        /\ dirty' = dirty \ (v.covers \cap Range(turns))
    BY <1>2, <1>6 DEF MarkSavedClean
  <1>8. dirty = {turns[i] : i \in Len(savedOrder) + 1 .. Len(turns)}
    BY DEF GrowMemory
  <1>9. dirty' = {turns[i] : i \in c + 1 .. Len(turns)}
    <2>1. ASSUME NEW t \in dirty' PROVE t \in {turns[i] : i \in c + 1 .. Len(turns)}
      <3>1. PICK i \in Len(savedOrder) + 1 .. Len(turns) : t = turns[i]
        BY <1>7, <1>8
      <3>2. i \in 1..Len(turns)
        BY <1>1, <1>2
      <3>3. ~(i \in 1..c)
        BY <1>1, <1>5, <1>7, <3>1, <3>2
      <3>4. i \in c + 1 .. Len(turns)
        BY <1>1, <1>3, <3>2, <3>3
      <3> QED  BY <3>1, <3>4
    <2>2. ASSUME NEW i \in c + 1 .. Len(turns) PROVE turns[i] \in dirty'
      <3>1. i \in Len(savedOrder) + 1 .. Len(turns)
        BY <1>1, <1>2, <1>3
      <3> QED  BY <1>5, <1>7, <1>8, <3>1
    <2> QED  BY <2>1, <2>2
  <1>10. Len(First(turns, c)) = c
    BY <1>1, <1>3, FirstOf
  <1> QED  BY <1>3, <1>7, <1>9, <1>10

(* A save that begins has to write what was added since the last one.       *)
LEMMA GrowBegin ==
    ASSUME SaveInv, GrowMemory, NEW s \in Tasks, Begin(s, Contents),
           UNCHANGED <<turns, version, order>>, NEW n, n = Len(turns)
    PROVE  /\ GrowSave(saver[s], n)'
           /\ Past(saver'[s], n) + 2 >= Len(savedOrder)
           /\ \/ n = Len(savedOrder) /\ Len(saver'[s].todo) = 1
              \/ n > Len(savedOrder) /\ Past(saver'[s], n) + 2 = Len(savedOrder)
  <1> DEFINE m == Len(savedOrder)
             new == Kept(turns, dirty)
             saves == [i \in 1..Len(new) |-> OnTurn("save", new[i])]
             last == IF turns # savedOrder THEN <<OnList("order", turns)>> ELSE <<>>
             Steps == {Session, OnList("order", turns)}
                      \cup {OnTurn("save", t) : t \in Turns}
  <1>1. /\ turns \in Seq(Turns) /\ savedOrder \in Seq(Turns) /\ order \in Seq(Turns)
        /\ DOMAIN saver = Tasks
    BY SaveTypes
  <1>2. /\ n \in Nat /\ m \in 1..Len(order) /\ Len(order) \in 1..n /\ m \in 0..n
        /\ m \in Nat /\ Len(order) \in Nat
    <2>1. /\ Len(turns) \in Nat /\ Len(savedOrder) \in Nat /\ Len(order) \in Nat
          /\ Len(savedOrder) \in 1..Len(order) /\ Len(order) \in 1..Len(turns)
      BY <1>1 DEF GrowMemory
    <2> QED  BY <2>1
  <1>3. savedOrder # <<>>
    BY <1>2
  <1>4. Contents.turns = turns /\ Contents.dirty = dirty /\ Contents.deleted = {}
    BY DEF Contents, GrowMemory
  <1>5. PICK gone \in SetToSeqs({}) : saver' = [saver EXCEPT ![s] = IncrementalSave(Contents, gone)]
    BY <1>3, <1>4 DEF Begin
  <1>6. [i \in 1..Len(gone) |-> OnTurn("delete", gone[i])] = <<>>
    <2>1. gone \in [1..0 -> {}]
      BY <1>5, FS_EmptySet DEF SetToSeqs
    <2>2. gone = <<>> /\ Len(gone) = 0
      BY <2>1
    <2> QED  BY <2>2
  <1>7. Kept(Contents.turns, Known(Contents)) = turns
    <2>1. Range(turns) \subseteq Range(savedOrder) \cup dirty
      <3>1. ASSUME NEW i \in 1..n PROVE turns[i] \in Range(savedOrder) \cup dirty
        <4>1. i \in 1..m \/ i \in m + 1..n
          BY <1>2
        <4>2. CASE i \in 1..m
          BY <1>1, <1>2, <4>2, FirstOf DEF GrowMemory
        <4>3. CASE i \in m + 1..n
          BY <4>3 DEF GrowMemory
        <4> QED  BY <4>1, <4>2, <4>3
      <3> QED  BY <1>1, <3>1 DEF Range
    <2>2. Range(turns) \subseteq Known(Contents)
      BY <1>4, <2>1 DEF Known
    <2> QED  BY <1>1, <1>4, <2>2, KeptAll
  <1>8. new \in Seq(Turns) /\ Len(new) = n - m /\ \A i \in 1..n - m : new[i] = turns[m + i]
    <2>1. \A i, j \in 1..n : turns[i] = turns[j] => i = j
      BY <1>1 DEF GrowMemory, Unique
    <2>2. dirty = {turns[i] : i \in m + 1..n}
      BY DEF GrowMemory
    <2>3. \A i \in m + 1..n : turns[i] \in dirty
      BY <2>2
    <2>4. ASSUME NEW i \in 1..m PROVE turns[i] \notin dirty
      <3>1. \A j \in m + 1..n : i # j /\ i \in 1..n /\ j \in 1..n
        BY <1>2
      <3> QED  BY <2>1, <2>2, <3>1
    <2>5. /\ \A i \in 1..m : turns[i] \notin dirty
          /\ \A i \in m + 1..Len(turns) : turns[i] \in dirty
          /\ m \in 0..Len(turns)
      BY <1>2, <2>3, <2>4
    <2> HIDE DEF m
    <2>6. /\ new \in Seq(Turns) /\ Len(new) = Len(turns) - m
          /\ \A i \in 1..Len(turns) - m : new[i] = turns[m + i]
      <3>1. OnlyAfter(turns, dirty, m)
        BY <2>5 DEF OnlyAfter
      <3>2. new \in Seq(Turns) /\ IsRest(new, turns, m)
        BY <1>1, <2>5, <3>1, KeptRest
      <3> QED  BY <3>2 DEF IsRest
    <2> QED  BY <2>6
  <1>9. turns # savedOrder <=> m < n
    <2>1. CASE m = n
      BY <1>1, <2>1, FirstAll DEF GrowMemory
    <2> QED  BY <1>2, <2>1
  <1> HIDE DEF new
  <1>10. PICK v : v = saver'[s]
    OBVIOUS
  <1>11. /\ v.todo = <<Session>> \o <<>> \o saves \o last
         /\ v.covers = Range(turns) /\ v.full = FALSE
    <2>1. v = IncrementalSave(Contents, gone)
      BY <1>1, <1>5, <1>10
    <2>2. PICK g : g = [i \in 1..Len(gone) |-> OnTurn("delete", gone[i])]
      OBVIOUS
    <2>3. v.todo = <<Session>> \o g \o saves \o last
      BY <1>4, <1>7, <2>1, <2>2 DEF IncrementalSave, new
    <2> QED  BY <1>4, <1>6, <2>1, <2>2, <2>3 DEF IncrementalSave
  <1>12. /\ saves \in Seq(Steps) /\ Len(saves) = n - m
         /\ \A i \in 1..n - m : saves[i] = OnTurn("save", turns[m + i])
    BY <1>2, <1>8
  <1> DEFINE front == <<Session>> \o saves
  <1> HIDE DEF saves, last, Steps
  <1>13. /\ front \in Seq(Steps) /\ Len(front) = n - m + 1 /\ front[1] = Session
         /\ \A i \in 2..n - m + 1 : front[i] = OnTurn("save", turns[m + i - 1])
    <2>1. PICK g, h, A : g = <<Session>> /\ h = saves /\ A = Steps
      OBVIOUS
    <2>2. g \in Seq(A) /\ Len(g) = 1 /\ g[1] = Session /\ h \in Seq(A)
      BY <1>12, <2>1 DEF Steps
    <2>3. /\ g \o h \in Seq(A) /\ DOMAIN (g \o h) = 1..Len(g) + Len(h)
          /\ \A k \in 1..Len(g) : (g \o h)[k] = g[k]
          /\ \A k \in 1..Len(h) : (g \o h)[Len(g) + k] = h[k]
      <3>1. g \in Seq(A) /\ h \in Seq(A)
        BY <2>2
      <3> QED  BY ONLY <3>1, Joined
    <2>4. front = g \o h
      BY <2>1
    <2> HIDE DEF front
    <2>5. /\ front \in Seq(Steps) /\ DOMAIN front = 1..1 + (n - m) /\ front[1] = Session
          /\ \A k \in 1..n - m : front[1 + k] = saves[k]
      BY <1>12, <2>1, <2>2, <2>3, <2>4
    <2>6. Len(front) = n - m + 1
      <3>1. 1 + (n - m) \in Nat /\ 1 + (n - m) = n - m + 1
        BY <1>2
      <3> QED  BY <2>5, <3>1, LengthOf
    <2>7. ASSUME NEW i \in 2..n - m + 1 PROVE front[i] = OnTurn("save", turns[m + i - 1])
      <3>1. i - 1 \in 1..n - m /\ 1 + (i - 1) = i /\ m + (i - 1) = m + i - 1
        BY <1>2
      <3> QED  BY <1>12, <2>5, <3>1
    <2> QED  BY <2>5, <2>6, <2>7
  <1>14. v.todo = front \o last
    <2>1. <<Session>> \in Seq({Session})
      OBVIOUS
    <2>2. <<Session>> \o <<>> = <<Session>>
      BY <2>1
    <2> QED  BY <1>11, <2>2
  <1> HIDE DEF front
  <1>17. Range(turns) = {turns[i] : i \in 1..n}
    <2>1. DOMAIN turns = 1..n
      BY <1>1
    <2> QED  BY <2>1 DEF Range
  <1>15. CASE m = n
    <2>1. last = <<>>
      BY <1>2, <1>9, <1>15 DEF last
    <2>2. v.todo = front
      BY <1>13, <1>14, <2>1
    <2>3. Len(v.todo) = 1 /\ v.todo[1] = Session /\ v.todo # <<>> /\ Head(v.todo) = Session
      <3>1. n - m + 1 = 1
        BY <1>2, <1>15
      <3>2. Len(v.todo) = 1 /\ v.todo[1] = Session /\ v.todo \in Seq(Steps)
        BY <1>13, <2>2, <3>1
      <3> QED  BY <3>2
    <2>4. Past(v, n) = n - 1
      BY <2>3 DEF Past
    <2>5. Head(v.todo).op # "save"
      BY <2>3 DEF Session
    <2>6. v.covers = {turns[i] : i \in 1..n}
      BY <1>11, <1>17
    <2>7. Past(v, n) \in -1 .. Len(order) - 1 /\ n \in Len(order)..n
      BY <1>2, <1>15, <2>4
    <2>8. \A j \in 1..1 : j = 1
      OBVIOUS
    <2>9. GrowSave(v, n)'
      BY <1>11, <2>3, <2>5, <2>6, <2>7, <2>8 DEF GrowSave, Past
    <2>10. Past(v, n) + 2 >= m
      BY <1>2, <1>15, <2>4
    <2>11. GrowSave(saver[s], n)'
      BY <1>10, <2>9
    <2> QED  BY <1>10, <1>15, <2>3, <2>10, <2>11
  <1>16. CASE m # n
    <2>1. m < n /\ last = <<OnList("order", turns)>>
      BY <1>2, <1>9, <1>16 DEF last
    <2>2. /\ last \in Seq(Steps) /\ Len(last) = 1 /\ last[1] = OnList("order", turns)
      BY <2>1 DEF Steps
    <2>3. /\ front \o last \in Seq(Steps) /\ DOMAIN (front \o last) = 1..Len(front) + Len(last)
          /\ \A k \in 1..Len(front) : (front \o last)[k] = front[k]
          /\ \A k \in 1..Len(last) : (front \o last)[Len(front) + k] = last[k]
      <3>1. PICK g, h, A : g = front /\ h = last /\ A = Steps
        OBVIOUS
      <3>2. g \in Seq(A) /\ h \in Seq(A)
        BY <1>13, <2>2, <3>1
      <3>3. /\ g \o h \in Seq(A) /\ DOMAIN (g \o h) = 1..Len(g) + Len(h)
            /\ \A k \in 1..Len(g) : (g \o h)[k] = g[k]
            /\ \A k \in 1..Len(h) : (g \o h)[Len(g) + k] = h[k]
        BY ONLY <3>2, Joined
      <3> QED  BY <3>1, <3>3
    <2>4. PICK k : k = n - m + 1 /\ k \in Nat /\ k >= 2
      BY <1>2, <2>1
    <2>5. /\ v.todo \in Seq(Steps) /\ DOMAIN v.todo = 1..k + 1
          /\ \A i \in 1..k : v.todo[i] = front[i]
          /\ v.todo[k + 1] = OnList("order", turns)
      BY <1>13, <1>14, <2>2, <2>3, <2>4
    <2>6. Len(v.todo) = k + 1 /\ v.todo # <<>> /\ Head(v.todo) = v.todo[1]
      <3>1. Len(v.todo) = k + 1
        <4>1. k + 1 \in Nat
          BY <2>4
        <4> QED  BY <2>5, <4>1, LengthOf
      <3>2. PICK list, A : list = v.todo /\ A = Steps
        OBVIOUS
      <3>3. list \in Seq(A) /\ Len(list) # 0
        BY <2>4, <2>5, <3>1, <3>2
      <3>4. list # <<>> /\ Head(list) = list[1]
        BY ONLY <3>3
      <3> QED  BY <3>1, <3>2, <3>4
    <2>7. Past(v, n) = m - 2
      <3>1. Past(v, n) = n - (k + 1)
        BY <2>6 DEF Past
      <3> QED  BY <1>2, <2>4, <3>1
    <2>8. Past(v, n) \in -1 .. Len(order) - 1 /\ n \in Len(order)..n /\ Past(v, n) + 2 = m
          /\ m <= Len(order)
      BY <1>2, <2>7
    <2>9. Head(v.todo).op # "save" /\ v.todo[1] = Session
      <3>1. 1 \in 1..k
        BY <2>4
      <3>2. v.todo[1] = Session
        BY <1>13, <2>5, <3>1
      <3> QED  BY <2>6, <3>2 DEF Session
    <2>10. v.covers = {turns[i] : i \in 1..n}
      BY <1>11, <1>17
    <2>11. First(turns, n) = turns
      BY <1>1, FirstAll
    <2>12. ASSUME NEW j \in 1..k + 1
           PROVE  \/ j = 1
                  \/ j < k + 1 /\ v.todo[j] = OnTurn("save", turns[Past(v, n) + j + 1])
                  \/ j = k + 1 /\ v.todo[j] = OnList("order", First(turns, n))
      <3>1. CASE j \in 2..k
        <4>1. j \in 1..k /\ j < k + 1 /\ j \in 2..n - m + 1
          BY <2>4, <3>1
        <4>2. Past(v, n) + j + 1 = m + j - 1
          BY <1>2, <2>7
        <4> QED  BY <1>13, <2>5, <4>1, <4>2
      <3>2. CASE j = k + 1
        BY <2>5, <2>11, <3>2
      <3> QED  BY <2>4, <3>1, <3>2
    <2>13. GrowSave(v, n)'
      BY <1>11, <2>6, <2>8, <2>9, <2>10, <2>12 DEF GrowSave, Past
    <2>14. n > m /\ Past(v, n) + 2 >= m
      BY <1>2, <2>1, <2>8
    <2>15. GrowSave(saver[s], n)'
      BY <1>10, <2>13
    <2> QED  BY <1>10, <2>8, <2>14, <2>15
  <1> QED  BY <1>15, <1>16

(* The numbers of turns two saves cover, as integers.                       *)
LEMMA GrowNumbers ==
    ASSUME SaveInv, GrowMemory, NEW v, NEW c, GrowSave(v, c), NEW S, v.todo \in Seq(S)
    PROVE  /\ c \in Nat /\ Len(order) \in Nat /\ Len(turns) \in Nat /\ Len(v.todo) \in Nat \ {0}
           /\ Len(order) <= c /\ c <= Len(turns) /\ 1 <= Len(order)
           /\ Past(v, c) \in Int /\ -1 <= Past(v, c) /\ Past(v, c) < Len(order)
           /\ Past(v, c) + Len(v.todo) = c
  <1>1. /\ Len(order) \in Nat /\ Len(turns) \in Nat /\ Len(v.todo) \in Nat
    BY SaveTypes
  <1>2. /\ c \in Len(order)..Len(turns) /\ v.todo # <<>> /\ Past(v, c) \in -1 .. Len(order) - 1
        /\ Past(v, c) = c - Len(v.todo)
    BY DEF GrowSave, Past
  <1>3. Len(order) \in 1..Len(turns)
    BY DEF GrowMemory
  <1>4. Len(v.todo) # 0
    BY <1>2, NoLength
  <1> QED  BY <1>1, <1>2, <1>3, <1>4

LEMMA TodoSeq ==
    ASSUME SaveInv, NEW s \in Tasks
    PROVE  \E S : saver[s].todo \in Seq(S)
  <1>1. CarriesContents(saver[s], version)
    BY DEF SaveInv
  <1>2. \/ saver[s].todo \in Seq(FullStep(saver[s].wire))
        \/ saver[s].todo \in Seq(StepOf(version))
    BY <1>1 DEF CarriesContents
  <1> QED  BY <1>2

(* The debounced save is next in the queue: the final one is ahead of it.   *)
LEMMA FlushAhead ==
    ASSUME SaveInv, NEW d, NEW f, FlushFirst(d, f), Past(saver[Flush], f) \in Int,
           Past(saver[Debounced], d) \in Int,
           jobs # <<>>, Head(jobs) = Debounced, Flush \in Range(jobs)
    PROVE  Past(saver[Flush], f) > Past(saver[Debounced], d) /\ f <= d
  <1>1. jobs \in Seq(Tasks)
    BY SaveTypes
  <1>2. 1 \in DOMAIN jobs /\ jobs[1] = Debounced /\ Debounced \in Range(jobs)
    <2>1. 1 \in DOMAIN jobs /\ jobs[1] = Debounced
      BY <1>1
    <2> QED  BY <2>1 DEF Range
  <1>3. PICK i \in DOMAIN jobs : jobs[i] = Flush
    BY DEF Range
  <1>4. ~(i < 1)
    BY <1>1, <1>3
  <1>5. ~(Past(saver[Flush], f) = Past(saver[Debounced], d))
    BY <1>2, <1>3, <1>4 DEF FlushFirst
  <1>6. Past(saver[Flush], f) >= Past(saver[Debounced], d) /\ f <= d
    BY <1>2 DEF FlushFirst
  <1> QED  BY <1>5, <1>6

(* The next transaction in the queue never takes the order past what one of *)
(* the saves covers.                                                        *)
LEMMA GrowOrder ==
    ASSUME SaveInv, GrowMemory, NEW d, NEW f, GrowSaves(d, f),
           NEW s, jobs # <<>>, s = Head(jobs), NEW c, c = IF s = Flush THEN f ELSE d,
           Commit(Head(saver[s].todo), saver[s].wire), UNCHANGED <<turns, version>>
    PROVE  /\ s \in Range(jobs) /\ s \in {Debounced, Flush} /\ GrowSave(saver[s], c)
           /\ order' = First(turns, Len(order')) /\ order' \in Seq(Turns)
           /\ Len(order') \in Len(order)..c
           /\ \A t \in Range(order') : records'[t] = version[t]
           /\ Debounced \in Range(jobs) => Len(order') \in Len(order)..d
           /\ Flush \in Range(jobs) => Len(order') \in Len(order)..f
           /\ Len(saver[s].todo) > 1 => Past(saver[s], c) + 2 <= Len(order')
  <1>1. jobs \in Seq(Tasks) /\ turns \in Seq(Turns) /\ Debounced # Flush
    BY SaveTypes DEF Debounced, Flush
  <1>2. s \in Range(jobs) /\ s \in {Debounced, Flush} /\ s \in Tasks
    BY <1>1, RangeTail DEF GrowSaves, Tasks
  <1>3. PICK v : v = saver[s]
    OBVIOUS
  <1>4. GrowSave(v, c)
    BY <1>1, <1>2, <1>3 DEF GrowSaves
  <1>5. PICK S : v.todo \in Seq(S)
    BY <1>2, <1>3, TodoSeq
  <1>6. /\ \A t \in Range(order') : records'[t] = version[t]
        /\ order' = First(turns, Len(order')) /\ Len(order') \in Len(order)..c
        /\ \/ Len(order') = Len(order)
           \/ Len(v.todo) > 1 /\ Len(order') = Past(v, c) + 2
        /\ Len(v.todo) > 1 => Past(v, c) + 2 <= Len(order')
    BY <1>3, <1>4, <1>5, GrowCommit
  <1>7. /\ c \in Nat /\ Len(order) \in Nat /\ Len(turns) \in Nat /\ Len(v.todo) \in Nat \ {0}
        /\ Len(order) <= c /\ c <= Len(turns)
        /\ Past(v, c) \in Int /\ Past(v, c) + Len(v.todo) = c
    BY <1>4, <1>5, GrowNumbers
  <1>8. order' \in Seq(Turns)
    <2>1. Len(order') \in 0..Len(turns)
      BY <1>6, <1>7
    <2> QED  BY <1>1, <1>6, <2>1, FirstOf
  <1>9. /\ Debounced \in Range(jobs) => Len(order') \in Len(order)..d
        /\ Flush \in Range(jobs) => Len(order') \in Len(order)..f
    <2>1. CASE s = Flush
      <3>1. c = f /\ (Debounced \in Range(jobs) => f <= d)
        BY <1>2, <2>1 DEF GrowSaves, FlushFirst
      <3>2. ASSUME Debounced \in Range(jobs) PROVE d \in Nat
        <4>1. GrowSave(saver[Debounced], d) /\ Debounced \in Tasks
          BY <3>2 DEF GrowSaves, Tasks
        <4>2. PICK R : saver[Debounced].todo \in Seq(R)
          BY <4>1, TodoSeq
        <4> QED  BY <4>1, <4>2, GrowNumbers
      <3> QED  BY <1>6, <1>7, <3>1, <3>2
    <2>2. CASE s # Flush
      <3>1. s = Debounced /\ c = d
        BY <1>2, <2>2
      <3>2. ASSUME Flush \in Range(jobs) PROVE Len(order') \in Len(order)..f
        <4>1. GrowSave(saver[Flush], f) /\ Flush \in Tasks
          BY <3>2 DEF GrowSaves, Tasks
        <4>2. PICK R : saver[Flush].todo \in Seq(R)
          BY <4>1, TodoSeq
        <4>3. PICK w : w = saver[Flush]
          OBVIOUS
        <4>4. /\ f \in Nat /\ Len(w.todo) \in Nat \ {0} /\ Len(order) <= f
              /\ Past(w, f) \in Int /\ Past(w, f) + Len(w.todo) = f
          BY <4>1, <4>2, <4>3, GrowNumbers
        <4>5. Past(w, f) > Past(v, c)
          BY <1>3, <1>7, <3>1, <3>2, <4>3, <4>4, FlushAhead DEF GrowSaves
        <4> QED  BY <1>6, <1>7, <4>4, <4>5
      <3> QED  BY <1>6, <3>1, <3>2
    <2> QED  BY <2>1, <2>2
  <1> QED  BY <1>2, <1>3, <1>4, <1>6, <1>8, <1>9

(* What is in memory, with more of it on disk.                              *)
LEMMA GrowMemoryStays ==
    ASSUME SaveInv, GrowMemory, UNCHANGED <<turns, version, dirty, deleted, savedOrder, used>>,
           order' = First(turns, Len(order')), NEW c \in Nat, c <= Len(turns),
           Len(order') \in Len(order)..c, \A t \in Range(order') : records'[t] = version[t]
    PROVE  GrowMemory'
  <1>1. Len(order) \in Nat /\ Len(turns) \in Nat /\ Len(savedOrder) \in Nat
    BY SaveTypes
  <1>2. Len(order') \in 1..Len(turns) /\ Len(savedOrder) \in 1..Len(order')
    BY <1>1 DEF GrowMemory
  <1> QED  BY <1>2 DEF GrowMemory

(* A save ends early, its last transaction done or not.                     *)
LEMMA GrowLess ==
    ASSUME SaveInv, GrowInv, Growing, NEW s,
           UNCHANGED <<around, turns, version, dirty, deleted, savedOrder, used>>,
           \/ UNCHANGED <<order, records>>
           \/ jobs # <<>> /\ s = Head(jobs) /\ Commit(Head(saver[s].todo), saver[s].wire),
           Range(jobs') \subseteq Range(jobs) \ {s},
           s \in {Debounced, Flush},
           \A r \in Range(jobs') : saver'[r] = saver[r],
           Debounced \in Range(jobs') => saveTask' = "saving"
    PROVE  GrowInv'
  <1>1. GrowMemory
    BY DEF GrowInv
  <1>2. PICK d \in 0..Len(turns), f \in 0..Len(turns) : GrowSaves(d, f)
    BY DEF GrowInv
  <1>3. /\ Len(order) \in Nat /\ Len(turns) \in Nat /\ Len(order) <= Len(turns)
        /\ Debounced # Flush
    <2>1. Len(order) \in Nat /\ Len(turns) \in Nat
      BY SaveTypes
    <2> QED  BY <1>1, <2>1 DEF GrowMemory, Debounced, Flush
  <1>4. /\ order' = First(turns, Len(order')) /\ Len(order') \in Len(order)..Len(turns)
        /\ \A t \in Range(order') : records'[t] = version[t]
        /\ Debounced \in Range(jobs) => Len(order') \in Len(order)..d
        /\ Flush \in Range(jobs) => Len(order') \in Len(order)..f
    <2>1. CASE UNCHANGED <<order, records>>
      <3>1. /\ Debounced \in Range(jobs) => d \in Len(order)..Len(turns)
            /\ Flush \in Range(jobs) => f \in Len(order)..Len(turns)
        BY <1>2 DEF GrowSaves, GrowSave
      <3> QED  BY <1>1, <1>3, <2>1, <3>1 DEF GrowMemory
    <2>2. CASE jobs # <<>> /\ s = Head(jobs) /\ Commit(Head(saver[s].todo), saver[s].wire)
      <3>1. PICK c : c = IF s = Flush THEN f ELSE d
        OBVIOUS
      <3>2. c \in 0..Len(turns)
        BY <1>2, <3>1
      <3>3. /\ order' = First(turns, Len(order')) /\ Len(order') \in Len(order)..c
            /\ \A t \in Range(order') : records'[t] = version[t]
            /\ Debounced \in Range(jobs) => Len(order') \in Len(order)..d
            /\ Flush \in Range(jobs) => Len(order') \in Len(order)..f
        BY <1>1, <1>2, <2>2, <3>1, GrowOrder
      <3> QED  BY <1>3, <3>2, <3>3
    <2> QED  BY <2>1, <2>2
  <1>5. GrowMemory'
    BY <1>1, <1>3, <1>4, GrowMemoryStays
  <1>6. ASSUME Debounced \in Range(jobs') PROVE GrowSave(saver[Debounced], d)'
    <2>1. GrowSave(saver[Debounced], d) /\ saver'[Debounced] = saver[Debounced]
      BY <1>2, <1>6 DEF GrowSaves
    <2> QED  BY <1>1, <1>4, <1>6, <2>1, GrowStays
  <1>7. ASSUME Flush \in Range(jobs') PROVE GrowSave(saver[Flush], f)'
    <2>1. GrowSave(saver[Flush], f) /\ saver'[Flush] = saver[Flush]
      BY <1>2, <1>7 DEF GrowSaves
    <2> QED  BY <1>1, <1>4, <1>7, <2>1, GrowStays
  <1>8. FlushFirst(d, f)'
    <2>1. ~(Debounced \in Range(jobs') /\ Flush \in Range(jobs'))
      OBVIOUS
    <2>2. Flush \in Range(jobs') => Flush \in Range(jobs) /\ saver'[Flush] = saver[Flush]
      OBVIOUS
    <2> QED  BY <1>2, <2>1, <2>2 DEF GrowSaves, FlushFirst, Past
  <1>9. GrowSaves(d, f)'
    BY <1>2, <1>6, <1>7, <1>8 DEF GrowSaves
  <1> QED  BY <1>2, <1>5, <1>9 DEF GrowInv

LEMMA GrowFail ==
    ASSUME SaveInv, GrowInv, Growing, Fail, UNCHANGED around
    PROVE  GrowInv'
  <1>1. PICK s : s = Head(jobs)
    OBVIOUS
  <1>2. /\ jobs # <<>> /\ jobs' = Tail(jobs) /\ saver' = [saver EXCEPT ![s] = Idle]
        /\ UNCHANGED <<turns, version, dirty, deleted, savedOrder, used, order, records>>
        /\ saveTask' = IF s = Debounced /\ saveTask = "saving" THEN "none" ELSE saveTask
    BY <1>1 DEF Fail, TaskEnds, memory, store, history
  <1>3. /\ Range(jobs') \subseteq Range(jobs) \ {s}
        /\ Range(jobs) \subseteq Tasks /\ DOMAIN saver = Tasks /\ jobs \in Seq(Tasks)
    BY <1>1, <1>2, NextInQueue, SaveTypes
  <1>4. \A r \in Range(jobs') : saver'[r] = saver[r]
    BY <1>2, <1>3
  <1>5. s \in Range(jobs) /\ Range(jobs) \subseteq {Debounced, Flush}
    BY <1>1, <1>2, <1>3, RangeTail DEF GrowInv, GrowSaves
  <1>6. Debounced \in Range(jobs') => saveTask' = "saving"
    BY <1>2, <1>3 DEF GrowInv
  <1> QED  BY <1>2, <1>3, <1>4, <1>5, <1>6, GrowLess

LEMMA GrowCancel ==
    ASSUME SaveInv, GrowInv, Growing, NEW s \in {Debounced, Flush}, Cancel(s),
           UNCHANGED <<around, memory, history>>,
           s = Debounced \/ UNCHANGED saveTask
    PROVE  GrowInv'
  <1>1. PICK i \in DOMAIN jobs :
           /\ jobs[i] = s
           /\ jobs' = RemoveAt(jobs, i)
           /\ \/ UNCHANGED store
              \/ i = 1 /\ Commit(Head(saver[s].todo), saver[s].wire)
    BY DEF Cancel
  <1>2. /\ jobs \in Seq(Tasks) /\ Unique(jobs) /\ DOMAIN saver = Tasks
        /\ Range(jobs) \subseteq Tasks
    BY SaveTypes
  <1>3. Range(jobs') \subseteq Range(jobs) \ {s}
    BY <1>1, <1>2, RangeRemoveAt, UniqueRemoveAt
  <1>4. \A r \in Range(jobs') : saver'[r] = saver[r]
    BY <1>2, <1>3 DEF Cancel
  <1>5. \/ UNCHANGED <<order, records>>
        \/ jobs # <<>> /\ s = Head(jobs) /\ Commit(Head(saver[s].todo), saver[s].wire)
    BY <1>1, <1>2 DEF store
  <1>6. UNCHANGED <<turns, version, dirty, deleted, savedOrder, used>>
    BY DEF memory, history
  <1>7. Debounced \in Range(jobs') => saveTask' = "saving"
    BY <1>3 DEF GrowInv
  <1> QED  BY <1>3, <1>4, <1>5, <1>6, <1>7, GrowLess

(* A turn is added.                                                         *)
LEMMA GrowLonger ==
    ASSUME SaveInv, GrowMemory, NEW v, NEW c, GrowSave(v, c), NEW t \in Turns,
           NEW S, v.todo \in Seq(S),
           turns' = Append(turns, t), UNCHANGED order,
           \A u \in Range(turns) : version'[u] = version[u]
    PROVE  GrowSave(v, c)'
  <1>1. turns \in Seq(Turns) /\ Len(turns) \in Nat /\ Range(turns) = {turns[i] : i \in 1..Len(turns)}
    BY SaveTypes DEF Range
  <1>2. /\ Len(turns') = Len(turns) + 1 /\ \A i \in 1..Len(turns) : turns'[i] = turns[i]
    BY <1>1, Appended
  <1>3. /\ c \in Nat /\ Len(order) \in Nat /\ Len(v.todo) \in Nat \ {0}
        /\ Len(order) <= c /\ c <= Len(turns)
        /\ Past(v, c) \in Int /\ -1 <= Past(v, c) /\ Past(v, c) + Len(v.todo) = c
    BY GrowNumbers
  <1>4. First(turns', c) = First(turns, c)
    <2>1. c \in 0..Len(turns)
      BY <1>1, <1>3
    <2> QED  BY <1>1, <2>1, FirstAppend
  <1>5. \A j \in 1..Len(v.todo) :
           j < Len(v.todo) =>
               /\ Past(v, c) + j + 1 \in 1..Len(turns)
               /\ turns'[Past(v, c) + j + 1] = turns[Past(v, c) + j + 1]
    <2>1. ASSUME NEW j \in 1..Len(v.todo), j < Len(v.todo)
          PROVE  Past(v, c) + j + 1 \in 1..Len(turns)
      BY <1>1, <1>3, <2>1
    <2> QED  BY <1>2, <2>1
  <1>6. {turns'[i] : i \in 1..c} = {turns[i] : i \in 1..c}
    <2>1. \A i \in 1..c : i \in 1..Len(turns)
      BY <1>1, <1>3
    <2> QED  BY <1>2, <2>1
  <1>7. Head(v.todo).op = "save" =>
           v.wire[Head(v.todo).turn] = version'[Head(v.todo).turn]
    <2>1. SUFFICES ASSUME Head(v.todo).op = "save"
                   PROVE  Head(v.todo).turn \in Range(turns)
      BY DEF GrowSave
    <2>2. Head(v.todo) = v.todo[1] /\ 1 \in 1..Len(v.todo)
      BY <1>3 DEF GrowSave
    <2>3. 1 < Len(v.todo) /\ v.todo[1] = OnTurn("save", turns[Past(v, c) + 1 + 1])
      BY <2>1, <2>2 DEF GrowSave, Session, OnList
    <2>4. Head(v.todo).turn = turns[Past(v, c) + 1 + 1]
      BY <2>2, <2>3 DEF OnTurn
    <2> QED  BY <1>1, <1>5, <2>2, <2>3, <2>4
  <1>8. c \in Len(order)..Len(turns')
    BY <1>1, <1>2, <1>3
  <1>9. \A j \in 1..Len(v.todo) :
           \/ /\ j = 1 /\ v.todo[j] = Session
              /\ Len(v.todo) = 1 \/ Past(v, c) + 2 <= Len(order)
           \/ j < Len(v.todo) /\ v.todo[j] = OnTurn("save", turns'[Past(v, c) + j + 1])
           \/ j = Len(v.todo) /\ v.todo[j] = OnList("order", First(turns', c))
    BY <1>4, <1>5 DEF GrowSave
  <1> QED  BY <1>6, <1>7, <1>8, <1>9 DEF GrowSave, Past

LEMMA GrowAddTurn ==
    ASSUME SaveInv, GrowInv, Growing, NEW t \in Turns, AddTurn(t), UNCHANGED around,
           saveTask = "saving" => saveTask' = "saving"
    PROVE  GrowInv'
  <1>1. GrowMemory
    BY DEF GrowInv
  <1>2. PICK d \in 0..Len(turns), f \in 0..Len(turns) : GrowSaves(d, f)
    BY DEF GrowInv
  <1>3. /\ turns' = Append(turns, t) /\ t \notin used /\ used' = used \cup {t}
        /\ version' = [version EXCEPT ![t] = 1] /\ dirty' = dirty \cup {t}
        /\ UNCHANGED <<deleted, savedOrder, saver, jobs, order, records>>
    BY DEF AddTurn, store
  <1>4. /\ turns \in Seq(Turns) /\ order \in Seq(Turns) /\ version \in [Turns -> Nat]
        /\ Range(turns) \subseteq Turns /\ savedOrder \in Seq(Turns)
        /\ Len(turns) \in Nat /\ Len(order) \in Nat /\ Len(savedOrder) \in Nat
    BY SaveTypes
  <1>5. t \notin Range(turns) /\ \A u \in Range(turns) : version'[u] = version[u]
    BY <1>1, <1>3, <1>4 DEF GrowMemory
  <1>6. /\ Len(turns') = Len(turns) + 1 /\ \A i \in 1..Len(turns) : turns'[i] = turns[i]
        /\ turns'[Len(turns) + 1] = t
    BY <1>3, <1>4, Appended
  <1>7. GrowMemory'
    <2>1. Unique(turns') /\ Range(turns') \subseteq used'
      BY <1>1, <1>3, <1>4, <1>5, UniqueAppend, RangeAppend DEF GrowMemory
    <2>2. /\ Len(savedOrder) \in 1..Len(order) /\ Len(order) \in 1..Len(turns)
      BY <1>1 DEF GrowMemory
    <2>3. Len(savedOrder) \in 0..Len(turns) /\ Len(order) \in 0..Len(turns)
          /\ Len(order) \in 1..Len(turns')
      BY <1>4, <1>6, <2>2
    <2>4. savedOrder = First(turns', Len(savedOrder)) /\ order = First(turns', Len(order))
      BY <1>1, <1>3, <1>4, <2>3, FirstAppend DEF GrowMemory
    <2>5. dirty' = {turns'[i] : i \in Len(savedOrder) + 1 .. Len(turns')}
      <3>1. dirty = {turns[i] : i \in Len(savedOrder) + 1 .. Len(turns)}
        BY <1>1 DEF GrowMemory
      <3>2. \A i \in Len(savedOrder) + 1 .. Len(turns) : i \in 1..Len(turns)
        BY <1>4
      <3>3. dirty = {turns'[i] : i \in Len(savedOrder) + 1 .. Len(turns)}
        BY <1>6, <3>1, <3>2
      <3>4. /\ \A i \in Len(savedOrder) + 1 .. Len(turns) :
                   i \in Len(savedOrder) + 1 .. Len(turns')
            /\ \A i \in Len(savedOrder) + 1 .. Len(turns') :
                   i = Len(turns) + 1 \/ i \in Len(savedOrder) + 1 .. Len(turns)
            /\ Len(turns) + 1 \in Len(savedOrder) + 1 .. Len(turns')
        <4>1. PICK m, n, k : m = Len(savedOrder) /\ n = Len(turns) /\ k = Len(turns')
          OBVIOUS
        <4>2. m \in Nat /\ n \in Nat /\ m <= n /\ k = n + 1
          BY <1>4, <1>6, <2>3, <4>1
        <4>3. /\ \A i \in m + 1 .. n : i \in m + 1 .. k
              /\ \A i \in m + 1 .. k : i = n + 1 \/ i \in m + 1 .. n
              /\ n + 1 \in m + 1 .. k
          BY ONLY <4>2
        <4> QED  BY <4>1, <4>3
      <3> QED  BY <1>3, <1>6, <3>3, <3>4
    <2>6. \A u \in Range(order) : records[u] = version'[u]
      <3>1. Range(order) \subseteq Range(turns)
        <4>1. PICK n : n = Len(order) /\ n \in 0..Len(turns)
          BY <2>3
        <4>2. Range(order) = {turns[i] : i \in 1..n}
          <5>1. order = First(turns, n)
            BY <1>1, <4>1 DEF GrowMemory
          <5> QED  BY <1>4, <4>1, <5>1, FirstOf
        <4>3. \A i \in 1..n : i \in DOMAIN turns
          BY <1>4, <4>1
        <4> QED  BY <4>2, <4>3 DEF Range
      <3> QED  BY <1>1, <1>5, <3>1 DEF GrowMemory
    <2>7. deleted' = {} /\ Len(savedOrder') \in 1..Len(order') /\ Len(order') \in 1..Len(turns')
      BY <1>1, <1>3, <2>2, <2>3 DEF GrowMemory
    <2> QED  BY <1>3, <2>1, <2>4, <2>5, <2>6, <2>7 DEF GrowMemory
  <1>8. ASSUME Debounced \in Range(jobs) PROVE GrowSave(saver[Debounced], d)'
    <2>1. GrowSave(saver[Debounced], d) /\ Debounced \in Tasks
      BY <1>2, <1>8 DEF GrowSaves, Tasks
    <2>2. PICK S : saver[Debounced].todo \in Seq(S)
      BY <2>1, TodoSeq
    <2> QED  BY <1>1, <1>3, <1>5, <2>1, <2>2, GrowLonger
  <1>9. ASSUME Flush \in Range(jobs) PROVE GrowSave(saver[Flush], f)'
    <2>1. GrowSave(saver[Flush], f) /\ Flush \in Tasks
      BY <1>2, <1>9 DEF GrowSaves, Tasks
    <2>2. PICK S : saver[Flush].todo \in Seq(S)
      BY <2>1, TodoSeq
    <2> QED  BY <1>1, <1>3, <1>5, <2>1, <2>2, GrowLonger
  <1>10. GrowSaves(d, f)'
    BY <1>2, <1>3, <1>8, <1>9 DEF GrowSaves, FlushFirst, Past
  <1>11. d \in 0..Len(turns') /\ f \in 0..Len(turns')
    BY <1>2, <1>4, <1>6
  <1> QED  BY <1>3, <1>7, <1>10, <1>11 DEF GrowInv

LEMMA GrowAsBefore ==
    ASSUME NEW v, NEW c, GrowSave(v, c), UNCHANGED <<turns, version, order>>
    PROVE  GrowSave(v, c)'
  BY DEF GrowSave, Past

LEMMA GrowSame ==
    ASSUME GrowInv, UNCHANGED <<around, memory, store, used, saver, jobs>>,
           saveTask = "saving" /\ Debounced \in Range(jobs) => saveTask' = "saving"
    PROVE  GrowInv'
  <1>1. UNCHANGED <<turns, version, dirty, deleted, savedOrder, records, order>>
    BY DEF memory, store
  <1> SUFFICES ASSUME Growing' PROVE GrowInv'
    BY DEF GrowInv
  <1>2. GrowMemory
    BY DEF GrowInv, Growing
  <1>3. PICK d \in 0..Len(turns), f \in 0..Len(turns) : GrowSaves(d, f)
    BY DEF GrowInv, Growing
  <1>4. GrowMemory'
    BY <1>1, <1>2 DEF GrowMemory
  <1>5. /\ Debounced \in Range(jobs) => GrowSave(saver[Debounced], d)'
        /\ Flush \in Range(jobs) => GrowSave(saver[Flush], f)'
    BY <1>1, <1>3, GrowAsBefore DEF GrowSaves
  <1>6. FlushFirst(d, f)'
    BY <1>1, <1>3 DEF GrowSaves, FlushFirst, Past
  <1>7. GrowSaves(d, f)'
    BY <1>3, <1>5, <1>6 DEF GrowSaves
  <1>8. Debounced \in Range(jobs) => saveTask = "saving"
    BY DEF GrowInv, Growing
  <1> QED  BY <1>1, <1>3, <1>4, <1>7, <1>8 DEF GrowInv

(* A save of the runner begins.                                             *)
LEMMA GrowBeginOwn ==
    ASSUME SaveInv, GrowInv, Growing, NEW s \in {Debounced, Flush}, Begin(s, Contents),
           UNCHANGED <<around, memory, store, history>>,
           s = Flush => Debounced \notin Range(jobs),
           s = Debounced => saveTask' = "saving"
    PROVE  GrowInv'
  <1>1. GrowMemory
    BY DEF GrowInv
  <1>2. PICK d \in 0..Len(turns), f \in 0..Len(turns) : GrowSaves(d, f)
    BY DEF GrowInv
  <1>3. UNCHANGED <<turns, version, dirty, deleted, savedOrder, records, order, used>>
    BY DEF memory, store, history
  <1>4. /\ s \in Tasks /\ Debounced # Flush /\ Debounced \in Tasks /\ Flush \in Tasks
        /\ Len(turns) \in Nat /\ Len(order) \in Nat /\ jobs \in Seq(Tasks)
        /\ Len(savedOrder) \in Nat
    <2>1. s \in Tasks /\ Debounced # Flush /\ Debounced \in Tasks /\ Flush \in Tasks
      BY DEF Tasks, Debounced, Flush
    <2> QED  BY <2>1, SaveTypes
  <1>5. /\ s \notin Range(jobs) /\ Range(jobs') = Range(jobs) \cup {s}
        /\ \A r \in Range(jobs) : saver'[r] = saver[r]
    BY <1>4, BeginQueue
  <1>6. PICK n : n = Len(turns)
    OBVIOUS
  <1>7. /\ GrowSave(saver[s], n)'
        /\ Past(saver'[s], n) + 2 >= Len(savedOrder)
        /\ \/ n = Len(savedOrder) /\ Len(saver'[s].todo) = 1
           \/ n > Len(savedOrder) /\ Past(saver'[s], n) + 2 = Len(savedOrder)
    BY <1>1, <1>3, <1>4, <1>6, GrowBegin
  <1>8. GrowMemory'
    BY <1>1, <1>3 DEF GrowMemory
  <1>9. n \in 0..Len(turns)
    BY <1>4, <1>6
  <1>10. ASSUME NEW r, NEW c, GrowSave(saver[r], c), r \in Range(jobs)
         PROVE  GrowSave(saver[r], c)'
    BY <1>3, <1>5, <1>10, GrowAsBefore
  <1>11. CASE s = Flush
    <2>1. Debounced \notin Range(jobs')
      BY <1>4, <1>5, <1>11
    <2>2. FlushFirst(d, n)'
      <3>0. PICK v : v = saver'[Flush]
        OBVIOUS
      <3>1. Len(v.todo) > 1 => n > Len(savedOrder)
        <4>1. n > Len(savedOrder) \/ Len(v.todo) = 1
          BY <1>7, <1>11, <3>0
        <4>2. Len(v.todo) = 1 => ~(Len(v.todo) > 1)
          OBVIOUS
        <4> QED  BY ONLY <4>1, <4>2
      <3>2. Past(v, n) + 2 >= Len(savedOrder)
        BY <1>7, <1>11, <3>0
      <3> QED  BY <1>3, <2>1, <3>0, <3>1, <3>2 DEF FlushFirst, Past
    <2>3. GrowSaves(d, n)'
      BY <1>2, <1>5, <1>7, <1>11, <2>1, <2>2 DEF GrowSaves
    <2> QED  BY <1>2, <1>3, <1>8, <1>9, <2>1, <2>3 DEF GrowInv
  <1>12. CASE s = Debounced
    <2>1. Flush \in Range(jobs') => Flush \in Range(jobs) /\ saver'[Flush] = saver[Flush]
      BY <1>4, <1>5, <1>12
    <2>2. Flush \in Range(jobs') => GrowSave(saver[Flush], f)'
      BY <1>2, <1>10, <2>1 DEF GrowSaves
    <2>3. FlushFirst(n, f)'
      <3>1. ASSUME Flush \in Range(jobs')
            PROVE  /\ Past(saver'[Flush], f) + 2 >= Len(savedOrder)
                   /\ Len(saver'[Flush].todo) > 1 => f > Len(savedOrder)
        BY <1>2, <2>1, <3>1 DEF GrowSaves, FlushFirst, Past
      <3>2. ASSUME Flush \in Range(jobs')
            PROVE  /\ f <= n
                   /\ Past(saver'[Flush], f) >= Past(saver'[Debounced], n)
        <4>1. PICK w, v : w = saver'[Flush] /\ v = saver'[Debounced]
          OBVIOUS
        <4>2. GrowSave(w, f)
          BY <1>2, <2>1, <3>2, <4>1 DEF GrowSaves
        <4>3. PICK S : w.todo \in Seq(S)
          BY <1>4, <2>1, <3>2, <4>1, TodoSeq
        <4>4. /\ f \in Nat /\ Len(w.todo) \in Nat \ {0}
              /\ Len(order) <= f /\ f <= Len(turns) /\ 1 <= Len(order)
              /\ Past(w, f) \in Int /\ Past(w, f) + Len(w.todo) = f
          BY <1>1, <4>2, <4>3, GrowNumbers
        <4>5. Past(w, f) + 2 >= Len(savedOrder) /\ (Len(w.todo) > 1 => f > Len(savedOrder))
          BY <3>1, <3>2, <4>1
        <4>6. CASE n = Len(savedOrder) /\ Len(v.todo) = 1
          <5>1. Len(savedOrder) <= Len(order)
            BY <1>1, <1>4 DEF GrowMemory
          <5>2. f = n /\ Len(w.todo) = 1
            <6>1. PICK m, k, o : m = Len(savedOrder) /\ k = Len(w.todo) /\ o = Len(order)
              OBVIOUS
            <6>2. /\ m \in Nat /\ k \in Nat \ {0} /\ o \in Nat /\ f \in Nat
                  /\ o <= f /\ f <= n /\ n = m /\ m <= o /\ (k > 1 => f > m)
              BY <1>4, <1>6, <4>4, <4>5, <4>6, <5>1, <6>1
            <6>3. f = n /\ k = 1
              BY ONLY <6>2
            <6> QED  BY <6>1, <6>3
          <5>3. Past(v, n) = n - 1
            BY <4>6 DEF Past
          <5> QED  BY <1>4, <1>6, <4>1, <4>4, <5>2, <5>3
        <4>7. CASE n > Len(savedOrder) /\ Past(v, n) + 2 = Len(savedOrder)
          <5>1. Past(v, n) \in Int
            <6>1. GrowSave(saver[s], n)'
              BY <1>7
            <6>2. Past(v, n) \in -1 .. Len(order) - 1
              BY <1>3, <1>12, <4>1, <6>1 DEF GrowSave, Past
            <6> QED  BY <1>4, <6>2
          <5>2. Past(w, f) >= Past(v, n) /\ f <= n
            BY <1>4, <1>6, <4>4, <4>5, <4>7, <5>1
          <5> QED  BY <4>1, <5>2
        <4> QED  BY <1>7, <1>12, <4>1, <4>6, <4>7
      <3>3. ASSUME NEW i \in DOMAIN jobs', NEW j \in DOMAIN jobs',
                   jobs'[i] = Flush, jobs'[j] = Debounced
            PROVE  i < j
        <4>1. jobs' = Append(jobs, Debounced)
          BY <1>12 DEF Begin
        <4>2. /\ DOMAIN jobs' = 1..Len(jobs) + 1 /\ Len(jobs) \in Nat
              /\ jobs'[Len(jobs) + 1] = Debounced
              /\ \A k \in 1..Len(jobs) : jobs'[k] = jobs[k] /\ jobs[k] \in Range(jobs)
          BY <1>4, <4>1 DEF Range
        <4>3. ~(j \in 1..Len(jobs))
          BY <1>5, <1>12, <3>3, <4>2
        <4>4. i # Len(jobs) + 1
          BY <1>4, <3>3, <4>2
        <4> QED  BY <4>2, <4>3, <4>4
      <3> QED  BY <1>3, <3>1, <3>2, <3>3 DEF FlushFirst, Past
    <2>4. GrowSaves(n, f)'
      BY <1>2, <1>5, <1>7, <1>12, <2>2, <2>3 DEF GrowSaves
    <2> QED  BY <1>2, <1>3, <1>8, <1>9, <1>12, <2>4 DEF GrowInv
  <1> QED  BY <1>11, <1>12

LEMMA GrowCrash ==
    ASSUME SaveInv, GrowInv, Growing, Crash, UNCHANGED around
    PROVE  GrowInv'
  <1>1. /\ turns' = order /\ savedOrder' = order /\ version' = records
        /\ dirty' = {} /\ deleted' = {} /\ jobs' = <<>>
        /\ UNCHANGED <<order, records, used>>
    BY SaveTypes, LoadedIsOrder DEF Crash, store
  <1>2. GrowMemory
    BY DEF GrowInv
  <1>3. /\ turns \in Seq(Turns) /\ order \in Seq(Turns)
        /\ Len(turns) \in Nat /\ Len(order) \in Nat
    BY SaveTypes
  <1>4. PICK n : n = Len(order) /\ n \in 0..Len(turns) /\ n \in 1..n
    BY <1>2, <1>3 DEF GrowMemory
  <1>5. order = First(turns, n) /\ order = First(order, n)
    BY <1>2, <1>3, <1>4, FirstAll DEF GrowMemory
  <1>6. /\ DOMAIN order = 1..n /\ \A i \in 1..n : order[i] = turns[i] /\ i \in DOMAIN turns
        /\ Range(order) = {turns[i] : i \in 1..n}
    <2>1. /\ Len(order) = n /\ DOMAIN order = 1..n /\ \A i \in 1..n : order[i] = turns[i]
          /\ Range(order) = {turns[i] : i \in 1..n}
      <3>1. PICK list : list = turns
        OBVIOUS
      <3>2. list \in Seq(Turns) /\ n \in 0..Len(list) /\ order = First(list, n)
        BY <1>3, <1>4, <1>5, <3>1
      <3>3. /\ Len(order) = n /\ DOMAIN order = 1..n /\ \A i \in 1..n : order[i] = list[i]
            /\ Range(order) = {list[i] : i \in 1..n}
        <4>1. /\ Len(First(list, n)) = n /\ DOMAIN First(list, n) = 1..n
              /\ \A i \in 1..n : First(list, n)[i] = list[i]
              /\ Range(First(list, n)) = {list[i] : i \in 1..n}
          BY ONLY <3>2, FirstOf
        <4> QED  BY ONLY <3>2, <4>1, Zenon
      <3> QED  BY <3>1, <3>3
    <2>2. \A i \in 1..n : i \in DOMAIN turns
      BY <1>3, <1>4
    <2> QED  BY <2>1, <2>2
  <1>7. Unique(order) /\ Range(order) \subseteq used
    BY <1>2, <1>6 DEF GrowMemory, Unique, Range
  <1>8. {order[i] : i \in n + 1 .. n} = {}
    BY <1>4
  <1>9. GrowMemory'
    BY <1>1, <1>4, <1>5, <1>7, <1>8 DEF GrowMemory
  <1>10. Range(jobs') = {}
    BY <1>1, NoRange
  <1>11. GrowSaves(0, 0)' /\ 0 \in 0..Len(turns')
    BY <1>1, <1>3, <1>10 DEF GrowSaves, FlushFirst
  <1> QED  BY <1>9, <1>10, <1>11 DEF GrowInv

LEMMA GrowInit == Init => GrowInv
  <1> SUFFICES ASSUME Init, Growing PROVE GrowInv
    BY DEF GrowInv
  <1>1. IsFiniteSet(OldTurns) /\ OldTurns \subseteq Turns /\ OldTurns # {}
    BY SaveAssumption, FS_Subset DEF Growing
  <1>2. Cardinality(OldTurns) \in Nat \ {0}
    BY <1>1, FS_EmptySet, FS_CardinalityType
  <1>3. /\ turns \in [1..Cardinality(OldTurns) -> OldTurns]
        /\ \A i, j \in 1..Cardinality(OldTurns) : i # j => turns[i] # turns[j]
    BY DEF Init, SetToSeqs
  <1>4. PICK n : n = Cardinality(OldTurns) /\ n \in Nat \ {0}
    BY <1>2
  <1>5. /\ turns \in Seq(OldTurns) /\ Len(turns) = n
        /\ Unique(turns) /\ Range(turns) \subseteq OldTurns
    BY <1>3, <1>4 DEF Unique, Range
  <1>6. /\ order = turns /\ savedOrder = turns /\ records = version /\ dirty = {}
        /\ deleted = {} /\ used = OldTurns /\ jobs = <<>>
    BY DEF Init
  <1>7. turns = First(turns, n)
    BY <1>5, FirstAll
  <1>8. n \in 1..n /\ {turns[i] : i \in n + 1 .. n} = {}
    BY <1>4
  <1>9. GrowMemory
    BY <1>5, <1>6, <1>7, <1>8 DEF GrowMemory
  <1>10. Range(jobs) = {}
    BY <1>6, NoRange
  <1>11. GrowSaves(0, 0) /\ 0 \in 0..Len(turns)
    BY <1>4, <1>5, <1>10 DEF GrowSaves, FlushFirst
  <1> QED  BY <1>9, <1>10, <1>11 DEF GrowInv

(* The next transaction is executed, and its save goes on ...               *)
LEMMA GrowGoesOn ==
    ASSUME SaveInv, GrowInv, Growing, Execute, UNCHANGED around,
           Len(saver[Head(jobs)].todo) > 1
    PROVE  GrowInv'
  <1>1. GrowMemory
    BY DEF GrowInv
  <1>2. PICK d \in 0..Len(turns), f \in 0..Len(turns) : GrowSaves(d, f)
    BY DEF GrowInv
  <1>3. PICK s, v, u, c : /\ s = Head(jobs) /\ v = saver[s] /\ u = Continued(v)
                          /\ c = IF s = Flush THEN f ELSE d
    OBVIOUS
  <1>4. /\ jobs # <<>> /\ Commit(Head(v.todo), v.wire)
        /\ saver' = [saver EXCEPT ![s] = u] /\ jobs' = Append(Tail(jobs), s)
        /\ UNCHANGED <<turns, version, dirty, deleted, savedOrder, saveTask, used>>
        /\ Len(v.todo) > 1
    BY <1>3 DEF Execute, memory, history
  <1>5. /\ s \in Range(jobs) /\ s \in {Debounced, Flush} /\ GrowSave(v, c)
        /\ order' = First(turns, Len(order')) /\ order' \in Seq(Turns)
        /\ Len(order') \in Len(order)..c
        /\ \A t \in Range(order') : records'[t] = version[t]
        /\ Debounced \in Range(jobs) => Len(order') \in Len(order)..d
        /\ Flush \in Range(jobs) => Len(order') \in Len(order)..f
        /\ Past(v, c) + 2 <= Len(order')
    BY <1>1, <1>2, <1>3, <1>4, GrowOrder
  <1>6. /\ s \in Tasks /\ Debounced # Flush /\ Debounced \in Tasks /\ Flush \in Tasks
        /\ DOMAIN saver = Tasks /\ jobs \in Seq(Tasks) /\ Len(turns) \in Nat
    <2>1. s \in Tasks /\ Debounced # Flush /\ Debounced \in Tasks /\ Flush \in Tasks
      BY <1>5 DEF Tasks, Debounced, Flush
    <2> QED  BY <2>1, SaveTypes
  <1>7. PICK S : v.todo \in Seq(S)
    BY <1>3, <1>6, TodoSeq
  <1>8. GrowSave(u, c)' /\ Past(u, c) = Past(v, c) + 1
    BY <1>3, <1>4, <1>5, <1>7, GrowContinues
  <1>9. /\ Tail(jobs) \in Seq(Tasks) /\ Range(Tail(jobs)) = Range(jobs) \ {s}
        /\ Range(jobs') = Range(jobs)
    <2>1. Tail(jobs) \in Seq(Tasks) /\ Range(Tail(jobs)) \subseteq Range(jobs) \ {s}
      BY <1>3, <1>4, NextInQueue
    <2>2. Range(jobs) = Range(Tail(jobs)) \cup {s}
      BY <1>3, <1>4, <1>6, RangeHeadTail
    <2>3. PICK rest : rest = Tail(jobs)
      OBVIOUS
    <2>4. Range(jobs') = Range(rest) \cup {s}
      <3>1. rest \in Seq(Tasks) /\ s \in Tasks
        BY <1>6, <2>1, <2>3
      <3>2. Range(Append(rest, s)) = Range(rest) \cup {s}
        BY ONLY <3>1, RangeAppend
      <3> QED  BY <1>4, <2>3, <3>2
    <2> QED  BY <2>1, <2>2, <2>3, <2>4
  <1>10. saver'[s] = u /\ \A r \in Tasks \ {s} : saver'[r] = saver[r]
    BY <1>4, <1>6
  <1>11. c \in Nat /\ c <= Len(turns)
    BY <1>2, <1>3, <1>6
  <1>12. GrowMemory'
    BY <1>1, <1>4, <1>5, <1>11, GrowMemoryStays
  <1>13. /\ Debounced \in Range(jobs) => GrowSave(saver[Debounced], d)'
         /\ Flush \in Range(jobs) => GrowSave(saver[Flush], f)'
    <2>1. ASSUME NEW r \in Range(jobs) \ {s}, r \in Tasks, NEW e, GrowSave(saver[r], e),
                 Len(order') \in Len(order)..e
          PROVE  GrowSave(saver[r], e)'
      <3>1. saver'[r] = saver[r]
        BY <1>10, <2>1
      <3> QED  BY <1>1, <1>4, <2>1, <3>1, GrowStays
    <2>2. GrowSave(saver[s], c)'
      BY <1>8, <1>10
    <2>3. CASE s = Flush
      <3>1. ASSUME Debounced \in Range(jobs) PROVE GrowSave(saver[Debounced], d)'
        BY <1>2, <1>5, <1>6, <2>1, <2>3, <3>1 DEF GrowSaves
      <3> QED  BY <1>3, <2>2, <2>3, <3>1
    <2>4. CASE s = Debounced
      <3>1. ASSUME Flush \in Range(jobs) PROVE GrowSave(saver[Flush], f)'
        BY <1>2, <1>5, <1>6, <2>1, <2>4, <3>1 DEF GrowSaves
      <3> QED  BY <1>3, <1>6, <2>2, <2>4, <3>1
    <2> QED  BY <1>5, <2>3, <2>4
  <1>14. FlushFirst(d, f)'
    <2>1. FlushFirst(d, f)
      BY <1>2 DEF GrowSaves
    <2>2. Past(v, c) \in Int
      BY <1>1, <1>5, <1>7, GrowNumbers
    <2>3. CASE s = Flush
      <3>0. c = f /\ saver'[Flush] = u /\ v = saver[Flush] /\ saver'[Debounced] = saver[Debounced]
            /\ Flush \in Range(jobs)
        BY <1>3, <1>5, <1>6, <1>10, <2>3
      <3>1. PICK p, m, x : p = Past(v, f) /\ m = Len(savedOrder) /\ x = Past(saver[Debounced], d)
        OBVIOUS
      <3>2. /\ p \in Int /\ m \in Nat /\ p + 2 >= m /\ f > m /\ Past(u, f) = p + 1
            /\ Debounced \in Range(jobs) => f <= d /\ p >= x
        <4>1. m \in Nat
          BY <3>1, SaveTypes
        <4> QED  BY <1>4, <1>8, <2>1, <2>2, <3>0, <3>1, <4>1 DEF FlushFirst
      <3>3. Debounced \in Range(jobs) => x \in Int
        <4>1. Debounced \in Range(jobs) => GrowSave(saver[Debounced], d)
          BY <1>2 DEF GrowSaves
        <4>2. Debounced \in Range(jobs) => x \in -1 .. Len(order) - 1
          BY <3>1, <4>1 DEF GrowSave
        <4>3. Len(order) \in Nat
          BY SaveTypes
        <4> QED  BY <4>2, <4>3
      <3>4. Past(u, f) + 2 >= m
        BY <3>2
      <3>5. Debounced \in Range(jobs) => Past(u, f) >= x /\ Past(u, f) # x
        BY <3>2, <3>3
      <3> QED  BY <1>4, <1>9, <3>0, <3>1, <3>2, <3>4, <3>5 DEF FlushFirst, Past
    <2>4. CASE s = Debounced
      <3>0. c = d /\ saver'[Debounced] = u /\ v = saver[Debounced]
            /\ saver'[Flush] = saver[Flush]
        BY <1>3, <1>5, <1>6, <1>10, <2>4
      <3>1. ASSUME Flush \in Range(jobs) PROVE Past(saver[Flush], f) >= Past(u, d) /\ f <= d
        <4>1. GrowSave(saver[Flush], f)
          BY <1>2, <3>1 DEF GrowSaves
        <4>2. PICK R : saver[Flush].todo \in Seq(R)
          BY <1>6, TodoSeq
        <4>3. Past(saver[Flush], f) \in Int
          BY <1>1, <4>1, <4>2, GrowNumbers
        <4>4. Past(saver[Flush], f) > Past(v, d) /\ f <= d
          BY <1>3, <1>4, <2>1, <2>2, <2>4, <3>0, <3>1, <4>3, FlushAhead
        <4> QED  BY <1>8, <2>2, <3>0, <4>3, <4>4
      <3>2. ASSUME NEW i \in DOMAIN jobs', NEW j \in DOMAIN jobs',
                   jobs'[i] = Flush, jobs'[j] = Debounced
            PROVE  i < j
        <4>1. PICK rest : rest = Tail(jobs)
          OBVIOUS
        <4>2. rest \in Seq(Tasks) /\ Debounced \notin Range(rest) /\ jobs' = Append(rest, Debounced)
          BY <1>4, <1>9, <2>4, <4>1
        <4>3. /\ DOMAIN jobs' = 1..Len(rest) + 1 /\ Len(rest) \in Nat
              /\ jobs'[Len(rest) + 1] = Debounced
              /\ \A k \in 1..Len(rest) : jobs'[k] = rest[k] /\ rest[k] \in Range(rest)
          BY <1>6, <4>2 DEF Range
        <4>4. ~(j \in 1..Len(rest))
          BY <3>2, <4>2, <4>3
        <4>5. i # Len(rest) + 1
          BY <1>6, <3>2, <4>3
        <4> QED  BY <4>3, <4>4, <4>5
      <3> QED  BY <1>4, <1>9, <2>1, <3>0, <3>1, <3>2 DEF FlushFirst, Past
    <2> QED  BY <1>5, <2>3, <2>4
  <1>15. GrowSaves(d, f)'
    BY <1>2, <1>9, <1>13, <1>14 DEF GrowSaves
  <1> QED  BY <1>2, <1>4, <1>9, <1>12, <1>15 DEF GrowInv

(* ... or is through.                                                       *)
LEMMA GrowEnds ==
    ASSUME SaveInv, GrowInv, Growing, Execute, UNCHANGED around,
           ~(Len(saver[Head(jobs)].todo) > 1)
    PROVE  GrowInv'
  <1>1. GrowMemory
    BY DEF GrowInv
  <1>2. PICK d \in 0..Len(turns), f \in 0..Len(turns) : GrowSaves(d, f)
    BY DEF GrowInv
  <1>3. PICK s, v, c : s = Head(jobs) /\ v = saver[s] /\ c = IF s = Flush THEN f ELSE d
    OBVIOUS
  <1>4. /\ jobs # <<>> /\ Commit(Head(v.todo), v.wire) /\ MarkSavedClean(v)
        /\ saver' = [saver EXCEPT ![s] = Idle] /\ jobs' = Tail(jobs)
        /\ saveTask' = IF s = Debounced /\ saveTask = "saving" THEN "none" ELSE saveTask
        /\ UNCHANGED used
    BY <1>3 DEF Execute, TaskEnds, history
  <1>5. UNCHANGED <<turns, version>>
    BY <1>4 DEF MarkSavedClean
  <1>6. /\ s \in Range(jobs) /\ s \in {Debounced, Flush} /\ GrowSave(v, c)
        /\ order' = First(turns, Len(order')) /\ order' \in Seq(Turns)
        /\ Len(order') \in Len(order)..c
        /\ \A t \in Range(order') : records'[t] = version[t]
        /\ Debounced \in Range(jobs) => Len(order') \in Len(order)..d
        /\ Flush \in Range(jobs) => Len(order') \in Len(order)..f
    BY <1>1, <1>2, <1>3, <1>4, <1>5, GrowOrder
  <1>7. /\ s \in Tasks /\ Debounced # Flush /\ Debounced \in Tasks /\ Flush \in Tasks
        /\ DOMAIN saver = Tasks /\ jobs \in Seq(Tasks) /\ Len(turns) \in Nat
        /\ Range(jobs) \subseteq Tasks
    <2>1. s \in Tasks /\ Debounced # Flush /\ Debounced \in Tasks /\ Flush \in Tasks
      BY <1>6 DEF Tasks, Debounced, Flush
    <2> QED  BY <2>1, SaveTypes
  <1>8. PICK S : v.todo \in Seq(S)
    BY <1>3, <1>7, TodoSeq
  <1>9. Len(v.todo) = 1
    BY <1>3, <1>6, <1>8, OneLeft DEF GrowSave
  <1>10. /\ c = Len(order) /\ savedOrder' = First(turns, c) /\ Len(savedOrder') = c
         /\ dirty' = {turns[i] : i \in c + 1 .. Len(turns)} /\ deleted' = {}
    BY <1>1, <1>4, <1>6, <1>9, GrowDone
  <1>11. Len(order') = c /\ c \in Nat /\ c \in 1..Len(turns) /\ c \in 1..c
    <2>1. Len(order) \in Nat /\ Len(order) \in 1..Len(turns)
      BY <1>1, SaveTypes DEF GrowMemory
    <2> QED  BY <1>6, <1>10, <2>1
  <1>12. GrowMemory'
    <2>1. Unique(turns) /\ Range(turns) \subseteq used
      BY <1>1 DEF GrowMemory
    <2> QED  BY <1>4, <1>5, <1>6, <1>10, <1>11, <2>1 DEF GrowMemory
  <1>13. Range(jobs') = Range(jobs) \ {s}
    <2>1. Range(Tail(jobs)) \subseteq Range(jobs) \ {s}
      BY <1>3, <1>4, NextInQueue
    <2>2. Range(jobs) = Range(Tail(jobs)) \cup {s}
      BY <1>3, <1>4, <1>7, RangeHeadTail
    <2> QED  BY <1>4, <2>1, <2>2
  <1>14. \A r \in Tasks \ {s} : saver'[r] = saver[r]
    BY <1>4, <1>7
  <1>15. Flush \notin Range(jobs')
    <2>1. CASE s = Flush
      BY <1>13, <2>1
    <2>2. CASE s = Debounced
      <3> SUFFICES ASSUME Flush \in Range(jobs) PROVE FALSE
        BY <1>13
      <3>1. GrowSave(saver[Flush], f) /\ FlushFirst(d, f)
        BY <1>2 DEF GrowSaves
      <3>2. PICK R : saver[Flush].todo \in Seq(R)
        BY <1>7, TodoSeq
      <3>3. PICK w : w = saver[Flush]
        OBVIOUS
      <3>4. /\ f \in Nat /\ Len(w.todo) \in Nat \ {0} /\ Past(w, f) \in Int
            /\ Past(w, f) + Len(w.todo) = f
        BY <1>1, <3>1, <3>2, <3>3, GrowNumbers
      <3>5. c = d /\ v = saver[Debounced] /\ Past(v, d) = d - 1 /\ d \in Nat
        BY <1>2, <1>3, <1>7, <1>9, <2>2 DEF Past
      <3>6. Past(w, f) > Past(v, d) /\ f <= d
        <4>1. Past(v, d) \in Int
          BY <3>5
        <4> QED  BY <1>3, <1>4, <2>2, <3>1, <3>3, <3>4, <3>5, <4>1, FlushAhead
      <3> QED  BY <3>4, <3>5, <3>6
    <2> QED  BY <1>6, <2>1, <2>2
  <1>16. ASSUME Debounced \in Range(jobs') PROVE GrowSave(saver[Debounced], d)'
    <2>1. Debounced \in Range(jobs) /\ s # Debounced
      BY <1>13, <1>16
    <2>2. GrowSave(saver[Debounced], d) /\ saver'[Debounced] = saver[Debounced]
      BY <1>2, <1>7, <1>14, <2>1 DEF GrowSaves
    <2> QED  BY <1>1, <1>5, <1>6, <2>1, <2>2, GrowStays
  <1>17. GrowSaves(d, f)'
    BY <1>2, <1>13, <1>15, <1>16 DEF GrowSaves, FlushFirst
  <1>18. Debounced \in Range(jobs') => saveTask' = "saving"
    <2>1. Debounced \in Range(jobs) => saveTask = "saving"
      BY DEF GrowInv
    <2> QED  BY <1>4, <1>13, <2>1
  <1> QED  BY <1>2, <1>5, <1>12, <1>17, <1>18 DEF GrowInv

LEMMA NextGrowInv == SaveInv /\ GrowInv /\ [Next]_vars => GrowInv'
  <1> SUFFICES ASSUME SaveInv, GrowInv, [Next]_vars, Growing' PROVE GrowInv'
    BY DEF GrowInv
  <1>1. CASE UNCHANGED vars
    <2>1. UNCHANGED <<around, memory, store, used, saver, jobs, saveTask>>
      BY <1>1 DEF vars, debounce, history
    <2> QED  BY <2>1, GrowSame
  <1>2. CASE Next
    <2>1. UNCHANGED around /\ Growing /\ OtherSavers = {} /\ "change" \notin around
      BY <1>2 DEF Next, Steady, Growing, OtherSavers
    <2>2. CASE Execute
      BY <2>1, <2>2, GrowGoesOn, GrowEnds
    <2>3. CASE Fail
      BY <2>1, <2>3, GrowFail
    <2>4. CASE Edit
      <3>1. PICK t \in Turns : AddUnscheduled(t) \/ AddScheduled(t)
        BY <2>1, <2>4 DEF Edit, ChangeTurn
      <3>2. AddTurn(t) /\ (saveTask = "saving" => saveTask' = "saving")
        BY <3>1 DEF AddUnscheduled, AddScheduled, debounce
      <3> QED  BY <2>1, <3>2, GrowAddTurn
    <2>5. CASE DebounceOver
      <3>1. UNCHANGED <<memory, store, history>> /\ Debounced \notin Range(jobs)
        BY <2>1, <2>5 DEF DebounceOver, GrowInv
      <3>2. CASE pending
        BY <2>1, <2>5, <3>1, <3>2, GrowBeginOwn DEF DebounceOver, Debounced, Flush
      <3>3. CASE ~pending
        BY <2>1, <2>5, <3>1, <3>3, GrowSame DEF DebounceOver, history
      <3> QED  BY <3>2, <3>3
    <2>6. CASE FlushPending
      <3>1. UNCHANGED <<memory, history>> /\ Flush # Debounced
        BY <2>6 DEF FlushPending, Flush, Debounced
      <3>2. CASE saveTask = "none" /\ Begin(Flush, Contents) /\ UNCHANGED <<saveTask, store>>
        <4>1. Debounced \notin Range(jobs)
          BY <2>1, <3>2 DEF GrowInv
        <4> QED  BY <2>1, <3>1, <3>2, <4>1, GrowBeginOwn
      <3>3. CASE saveTask = "sleeping" /\ saveTask' = "joined" /\ UNCHANGED <<saver, jobs, store>>
        BY <2>1, <3>1, <3>3, GrowSame DEF history
      <3>4. CASE saveTask = "saving" /\ Cancel(Debounced)
        BY <2>1, <3>1, <3>4, GrowCancel
      <3> QED  BY <2>6, <3>2, <3>3, <3>4 DEF FlushPending
    <2>7. CASE FlushJoined
      <3>1. /\ Begin(Flush, Contents) /\ Debounced \notin Range(jobs) /\ Flush # Debounced
            /\ UNCHANGED <<memory, store, history>>
        BY <2>1, <2>7 DEF FlushJoined, GrowInv, Flush, Debounced
      <3> QED  BY <2>1, <3>1, GrowBeginOwn
    <2>8. CASE CancelFlush
      <3>1. Cancel(Flush) /\ UNCHANGED <<memory, history, saveTask>>
        BY <2>8 DEF CancelFlush, debounce
      <3> QED  BY <2>1, <3>1, GrowCancel
    <2>9. CASE Crash
      BY <2>1, <2>9, GrowCrash
    <2> QED  BY <1>2, <2>1, <2>2, <2>3, <2>4, <2>5, <2>6, <2>7, <2>8, <2>9 DEF Next, Step
  <1> QED  BY <1>1, <1>2

LEMMA SpecGrowInvs == Spec => [](SaveInv /\ GrowInv)
  BY InitSaveInv, NextSaveInv, GrowInit, NextGrowInv, PTL DEF Spec

LEMMA GrowClean ==
    ASSUME SaveInv, GrowMemory
    PROVE  CleanIsStored
  <1>1. /\ turns \in Seq(Turns) /\ order \in Seq(Turns)
        /\ Len(turns) \in Nat /\ Len(order) \in Nat /\ Len(savedOrder) \in Nat
    BY SaveTypes
  <1>2. PICK m, n : m = Len(savedOrder) /\ n = Len(order)
    OBVIOUS
  <1>3. m \in Nat /\ n \in Nat /\ m <= n /\ n \in 0..Len(turns)
    BY <1>1, <1>2 DEF GrowMemory
  <1>4. Range(order) = {turns[i] : i \in 1..n}
    <2>1. order = First(turns, n)
      BY <1>2 DEF GrowMemory
    <2> QED  BY <1>1, <1>3, <2>1, FirstOf
  <1>5. ASSUME NEW t \in Range(turns) \ dirty PROVE t \in Range(order)
    <2>1. PICK i \in 1..Len(turns) : t = turns[i]
      BY <1>1 DEF Range
    <2>2. ~(i \in m + 1 .. Len(turns))
      BY <1>2, <1>5, <2>1 DEF GrowMemory
    <2>3. i \in 1..n
      BY <1>1, <1>3, <2>2
    <2> QED  BY <1>4, <2>1, <2>3
  <1> QED  BY <1>5 DEF GrowMemory, CleanIsStored

(* Whether turns are edited between saves only, or added at any time while  *)
(* the runner alone saves: what is not dirty is on disk as it is in memory. *)
THEOREM CleanIsStoredHolds == Spec => [](Calm \/ Growing => CleanIsStored)
  <1>1. SaveInv /\ CalmInv /\ GrowInv => (Calm \/ Growing => CleanIsStored)
    BY GrowClean DEF CalmInv, CalmStore, GrowInv
  <1> QED  BY <1>1, SpecSaveInvs, SpecGrowInvs, PTL

-----------------------------------------------------------------------------
(* Seen as a log, the disk has the first turns of the conversation.         *)
OnDisk == IF IsPrefix(Loaded, turns) THEN Len(Loaded) ELSE -1

LEMMA FirstOnDisk ==
    ASSUME SaveInv, GrowMemory
    PROVE  OnDisk = Len(order)
  <1>1. Loaded = order
    BY LoadedWhole
  <1>2. /\ turns \in Seq(Turns) /\ order \in Seq(Turns)
        /\ Len(turns) \in Nat /\ Len(order) \in Nat
    BY SaveTypes
  <1>3. Len(order) <= Len(turns) /\ order = First(turns, Len(order))
    BY <1>2 DEF GrowMemory
  <1>4. First(order, Len(order)) = order
    BY <1>2, FirstAll
  <1>5. IsPrefix(order, turns)
    BY <1>3, <1>4 DEF IsPrefix, First
  <1> QED  BY <1>1, <1>5 DEF OnDisk

(* The order gets longer, or a turn is said, or all but the order is lost.  *)
LEMMA GrowStep ==
    ASSUME SaveInv, GrowInv, Growing, Next
    PROVE  \/ UNCHANGED turns /\ Len(order') >= Len(order)
           \/ (\E t \in Turns : turns' = Append(turns, t)) /\ UNCHANGED order
           \/ turns' = order /\ UNCHANGED order
  <1>1. Len(order) \in Nat /\ UNCHANGED around
    BY SaveTypes DEF Next, Steady
  <1>2. GrowMemory
    BY DEF GrowInv
  <1>3. PICK d \in 0..Len(turns), f \in 0..Len(turns) : GrowSaves(d, f)
    BY DEF GrowInv
  <1>4. ASSUME NEW s, jobs # <<>>, s = Head(jobs),
               Commit(Head(saver[s].todo), saver[s].wire), UNCHANGED <<turns, version>>
        PROVE  UNCHANGED turns /\ Len(order') >= Len(order)
    <2>1. PICK c : c = IF s = Flush THEN f ELSE d
      OBVIOUS
    <2>2. Len(order') \in Len(order)..c
      BY <1>2, <1>3, <1>4, <2>1, GrowOrder
    <2> QED  BY <1>1, <1>4, <2>2
  <1>5. ASSUME UNCHANGED <<turns, order>> PROVE UNCHANGED turns /\ Len(order') >= Len(order)
    BY <1>1, <1>5
  <1>6. CASE Execute
    <2>1. PICK s : s = Head(jobs)
      OBVIOUS
    <2>2. jobs # <<>> /\ Commit(Head(saver[s].todo), saver[s].wire)
      BY <1>6, <2>1 DEF Execute
    <2>3. UNCHANGED <<turns, version>>
      BY <1>6 DEF Execute, memory, MarkSavedClean
    <2> QED  BY <1>4, <2>1, <2>2, <2>3
  <1>7. ASSUME NEW s \in Tasks, Cancel(s), UNCHANGED memory
        PROVE  UNCHANGED turns /\ Len(order') >= Len(order)
    <2>1. UNCHANGED <<turns, version>> /\ jobs \in Seq(Tasks)
      BY <1>7, SaveTypes DEF memory
    <2>2. PICK i \in DOMAIN jobs :
             /\ jobs[i] = s
             /\ UNCHANGED store \/ (i = 1 /\ Commit(Head(saver[s].todo), saver[s].wire))
      BY <1>7 DEF Cancel
    <2>3. CASE UNCHANGED store
      BY <1>5, <2>1, <2>3 DEF store
    <2>4. CASE i = 1 /\ Commit(Head(saver[s].todo), saver[s].wire)
      <3>1. jobs # <<>> /\ s = Head(jobs)
        BY <2>1, <2>2, <2>4
      <3> QED  BY <1>4, <2>1, <2>4, <3>1
    <2> QED  BY <2>2, <2>3, <2>4
  <1>8. CASE Fail
    BY <1>5, <1>8 DEF Fail, memory, store
  <1>9. CASE Edit
    <2>1. PICK t \in Turns : AddUnscheduled(t) \/ AddScheduled(t)
      BY <1>9 DEF Edit, ChangeTurn, Growing, OtherSavers
    <2> QED  BY <2>1 DEF AddUnscheduled, AddScheduled, AddTurn, store
  <1>10. CASE DebounceOver
    BY <1>5, <1>10 DEF DebounceOver, memory, store
  <1>11. CASE FlushPending
    <2>1. UNCHANGED memory /\ (UNCHANGED store \/ Cancel(Debounced))
      BY <1>11 DEF FlushPending
    <2> QED  BY <1>5, <1>7, <2>1 DEF memory, store, Tasks
  <1>12. CASE FlushJoined
    BY <1>5, <1>12 DEF FlushJoined, memory, store
  <1>13. CASE CancelFlush
    BY <1>7, <1>13 DEF CancelFlush, Tasks
  <1>14. CASE Crash
    BY <1>14, LoadedWhole DEF Crash, store
  <1>15. OtherSavers = {}
    BY DEF Growing, OtherSavers
  <1> QED  BY <1>6, <1>8, <1>9, <1>10, <1>11, <1>12, <1>13, <1>14, <1>15 DEF Next, Step

LEMMA LogInit == Init /\ Growing => Log!Init
  <1> SUFFICES ASSUME Init, Growing PROVE Log!Init
    OBVIOUS
  <1>1. SaveInv /\ GrowMemory
    BY InitSaveInv, GrowInit DEF GrowInv
  <1>2. OnDisk = Len(turns) /\ turns \in Seq(Turns)
    BY <1>1, FirstOnDisk, SaveTypes DEF Init
  <1> QED  BY <1>2 DEF Log!Init, OnDisk

LEMMA LogNext ==
    ASSUME SaveInv, GrowInv, SaveInv', GrowInv', Growing, [Next]_vars
    PROVE  [Log!Next]_(Log!logVars)
  <1>1. CASE UNCHANGED vars
    BY <1>1 DEF vars, memory, store, Log!logVars, Loaded
  <1>2. CASE Next
    <2>1. UNCHANGED around
      BY <1>2 DEF Next, Steady
    <2>2. GrowMemory /\ GrowMemory'
      BY <2>1 DEF GrowInv, Growing
    <2>3. OnDisk = Len(order)
      BY <2>2, FirstOnDisk
    <2>4. OnDisk' = Len(order')
      <3>1. SaveInv' /\ GrowMemory' => (OnDisk = Len(order))'
        BY FirstOnDisk, PTL
      <3> QED  BY <2>2, <3>1
    <2>5. /\ Len(order) \in Nat /\ Len(order') \in Nat
          /\ Len(order') \in 1..Len(turns') /\ order = First(turns, Len(order))
      <3>1. Len(order) \in Nat
        BY SaveTypes
      <3>2. SaveInv' => (order \in Seq(Turns))'
        BY SaveTypes, PTL
      <3> QED  BY <2>2, <3>1, <3>2 DEF GrowMemory
    <2>6. CASE UNCHANGED turns /\ Len(order') >= Len(order)
      <3>1. OnDisk' = OnDisk \/ OnDisk' \in OnDisk + 1 .. Len(turns)
        BY <2>3, <2>4, <2>5, <2>6
      <3> QED  BY <2>6, <3>1 DEF Log!Next, Log!Persist, Log!logVars, OnDisk
    <2>7. CASE (\E t \in Turns : turns' = Append(turns, t)) /\ UNCHANGED order
      <3>1. OnDisk' = OnDisk
        BY <2>3, <2>4, <2>7
      <3> QED  BY <2>7, <3>1 DEF Log!Next, Log!Say, OnDisk
    <2>8. CASE turns' = order /\ UNCHANGED order
      <3>1. OnDisk' = OnDisk /\ turns' = SubSeq(turns, 1, OnDisk)
        BY <2>3, <2>4, <2>5, <2>8 DEF First
      <3> QED  BY <3>1 DEF Log!Next, Log!Crash, OnDisk
    <2> QED  BY <1>2, <2>6, <2>7, <2>8, GrowStep
  <1> QED  BY <1>1, <1>2

(* While a session only grows and the runner saves it, saving implements a  *)
(* durable log, whatever fails, is cancelled or crashes.                    *)
THEOREM SavingImplementsLog == Spec /\ Growing => ImplementsLog
  <1>1. Growing /\ [Next]_vars => Growing'
    BY DEF Growing, Next, Steady, vars
  <1>2. SaveInv /\ GrowInv /\ SaveInv' /\ GrowInv' /\ Growing /\ [Next]_vars
           => [Log!Next]_(Log!logVars)
    BY LogNext
  <1> QED  BY <1>1, <1>2, LogInit, SpecGrowInvs, PTL DEF Spec, ImplementsLog, Log!Spec

==============================================================================
