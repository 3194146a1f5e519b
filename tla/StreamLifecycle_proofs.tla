----------------------- MODULE StreamLifecycle_proofs -----------------------
(***************************************************************************)
(* Proofs about the message queue, for every bound on the messages; about  *)
(* the runner, for every set of exchanges, every number of output events   *)
(* and whether or not cancelled tasks linger; and about a session as a     *)
(* whole, which is made of them, in all surroundings.                      *)
(***************************************************************************)
EXTENDS StreamLifecycle, TLAPS

-----------------------------------------------------------------------------
(* The message queue                                                         *)

(* QueueOrder seen from its parts, and strengthened: a new message must be  *)
(* known to come after everything that is pending.                          *)
Parts ==
    /\ \A i, j \in 1..Len(taken) : i < j => taken[i] < taken[j]
    /\ \A i \in 1..Len(taken), j \in 1..Len(queue) : taken[i] < queue[j].id
    /\ \A i, j \in 1..Len(queue) : i < j => queue[i].id < queue[j].id
    /\ \A i \in 1..Len(taken) : taken[i] <= arrived
    /\ \A i \in 1..Len(queue) : queue[i].id <= arrived

QueueInv == QueueTypeOK /\ Parts

LEMMA IdsOf ==
    ASSUME NEW q \in Seq(Message)
    PROVE  /\ Ids(q) \in Seq(Tickets)
           /\ Len(Ids(q)) = Len(q)
           /\ \A i \in 1..Len(q) : Ids(q)[i] = q[i].id
  <1>1. \A i \in 1..Len(q) : q[i] \in Message
    OBVIOUS
  <1>2. \A m \in Message : m.id \in Tickets
    BY DEF Message
  <1> QED  BY <1>1, <1>2 DEF Ids

(* Positions in a concatenation.                                            *)
LEMMA ConcatAt ==
    ASSUME NEW S, NEW a \in Seq(S), NEW b \in Seq(S),
           NEW i \in 1..(Len(a) + Len(b))
    PROVE  /\ a \o b \in Seq(S)
           /\ Len(a \o b) = Len(a) + Len(b)
           /\ i <= Len(a) => i \in 1..Len(a) /\ (a \o b)[i] = a[i]
           /\ i > Len(a) =>
                i - Len(a) \in 1..Len(b) /\ (a \o b)[i] = b[i - Len(a)]
  OBVIOUS

LEMMA ConcatLen ==
    ASSUME NEW S, NEW a \in Seq(S), NEW b \in Seq(S)
    PROVE  a \o b \in Seq(S) /\ Len(a \o b) = Len(a) + Len(b)
  OBVIOUS

(* The typing of each operation's result.                                   *)
LEMMA QueueTypeStep == QueueTypeOK /\ [QueueNext]_queueVars => QueueTypeOK'
  <1> SUFFICES ASSUME QueueTypeOK, [QueueNext]_queueVars
               PROVE  QueueTypeOK'
    OBVIOUS
  <1> USE MaxMsgsAssumption
  <1>1. CASE AddMessage
    <2>1. [id |-> arrived + 1, paused |-> FALSE] \in Message
      BY <1>1 DEF AddMessage, QueueTypeOK, Message, Tickets
    <2> QED  BY <1>1, <2>1 DEF AddMessage, QueueTypeOK
  <1>2. CASE RemoveMessage
    <2>1. PICK i \in 1..Len(queue) :
             queue' = SubSeq(queue, 1, i - 1) \o SubSeq(queue, i + 1, Len(queue))
      BY <1>2 DEF RemoveMessage
    <2>2. /\ SubSeq(queue, 1, i - 1) \in Seq(Message)
          /\ SubSeq(queue, i + 1, Len(queue)) \in Seq(Message)
      BY DEF QueueTypeOK
    <2> QED  BY <1>2, <2>1, <2>2 DEF RemoveMessage, QueueTypeOK
  <1>3. CASE TogglePause
    <2>1. PICK i \in 1..Len(queue) : queue' = [queue EXCEPT ![i].paused = ~@]
      BY <1>3 DEF TogglePause
    <2>2. queue[i] \in Message
      BY DEF QueueTypeOK
    <2>4. [queue[i] EXCEPT !.paused = ~@] \in Message
      BY <2>2 DEF Message
    <2>3. queue' \in Seq(Message)
      BY <2>1, <2>4 DEF QueueTypeOK
    <2> QED  BY <1>3, <2>3 DEF TogglePause, QueueTypeOK
  <1>4. CASE Clear
    BY <1>4 DEF Clear, QueueTypeOK
  <1>5. CASE Drain
    <2>1. PICK n \in 1..Len(queue) :
             /\ taken' = taken \o Ids(SubSeq(queue, 1, n))
             /\ queue' = SubSeq(queue, n + 1, Len(queue))
      BY <1>5 DEF Drain
    <2>2. /\ SubSeq(queue, 1, n) \in Seq(Message)
          /\ SubSeq(queue, n + 1, Len(queue)) \in Seq(Message)
      BY DEF QueueTypeOK
    <2>3. Ids(SubSeq(queue, 1, n)) \in Seq(Tickets)
      BY <2>2, IdsOf
    <2> QED  BY <1>5, <2>1, <2>2, <2>3 DEF Drain, QueueTypeOK
  <1>6. CASE UNCHANGED queueVars
    BY <1>6 DEF queueVars, QueueTypeOK
  <1> QED  BY <1>1, <1>2, <1>3, <1>4, <1>5, <1>6 DEF QueueNext

LEMMA QueueInvInit == QueueInit => QueueInv
  BY MaxMsgsAssumption DEF QueueInit, QueueInv, QueueTypeOK, Parts

LEMMA PartsGiveOrder == QueueInv => QueueOrder
  <1> SUFFICES ASSUME QueueInv,
                      NEW i \in 1..Len(Pending), NEW j \in 1..Len(Pending), i < j
               PROVE  Pending[i] < Pending[j]
    BY DEF QueueOrder
  <1>1. /\ taken \in Seq(Tickets) /\ Ids(queue) \in Seq(Tickets)
        /\ Len(Ids(queue)) = Len(queue)
        /\ \A k \in 1..Len(queue) : Ids(queue)[k] = queue[k].id
    BY IdsOf DEF QueueInv, QueueTypeOK
  <1>2. Len(Pending) = Len(taken) + Len(queue)
    BY <1>1, ConcatLen DEF Pending
  <1>3. /\ i <= Len(taken) => i \in 1..Len(taken) /\ Pending[i] = taken[i]
        /\ i > Len(taken) => /\ i - Len(taken) \in 1..Len(queue)
                             /\ Pending[i] = queue[i - Len(taken)].id
    BY <1>1, <1>2, ConcatAt DEF Pending
  <1>4. /\ j <= Len(taken) => j \in 1..Len(taken) /\ Pending[j] = taken[j]
        /\ j > Len(taken) => /\ j - Len(taken) \in 1..Len(queue)
                             /\ Pending[j] = queue[j - Len(taken)].id
    BY <1>1, <1>2, ConcatAt DEF Pending
  <1>5. Len(taken) \in Nat /\ i \in Nat /\ j \in Nat
    BY <1>1, <1>2
  <1>6. CASE j <= Len(taken)
    BY <1>3, <1>4, <1>5, <1>6 DEF QueueInv, Parts
  <1>7. CASE i <= Len(taken) /\ j > Len(taken)
    BY <1>3, <1>4, <1>5, <1>7 DEF QueueInv, Parts
  <1>8. CASE i > Len(taken)
    <2>1. i - Len(taken) < j - Len(taken) /\ j > Len(taken)
      BY <1>5, <1>8
    <2> QED  BY <2>1, <1>3, <1>4, <1>8 DEF QueueInv, Parts
  <1> QED  BY <1>5, <1>6, <1>7, <1>8

(* Drain moves ids from the queue's front to the end of taken, the          *)
(* operations that drop messages keep the order of the others, and          *)
(* AddMessage appends the greatest id of all.                               *)
LEMMA QueueInvStep == QueueInv /\ [QueueNext]_queueVars => QueueInv'
  <1> SUFFICES ASSUME QueueInv, [QueueNext]_queueVars
               PROVE  Parts'
    BY QueueTypeStep DEF QueueInv
  <1>1. /\ taken \in Seq(Tickets) /\ queue \in Seq(Message) /\ arrived \in Nat
        /\ \A i \in 1..Len(taken) : taken[i] \in Nat
        /\ \A i \in 1..Len(queue) : queue[i] \in Message /\ queue[i].id \in Nat
    <2>1. /\ taken \in Seq(Tickets) /\ queue \in Seq(Message)
          /\ arrived \in Nat /\ Tickets \subseteq Nat
      BY MaxMsgsAssumption DEF QueueInv, QueueTypeOK, Tickets
    <2>2. \A m \in Message : m.id \in Tickets
      BY DEF Message
    <2>3. \A i \in 1..Len(queue) : queue[i] \in Message
      BY <2>1
    <2>4. \A i \in 1..Len(taken) : taken[i] \in Tickets
      BY <2>1
    <2> QED  BY <2>1, <2>2, <2>3, <2>4
  <1>2. Parts
    BY DEF QueueInv
  <1>3. CASE AddMessage
    <2>1. /\ arrived' = arrived + 1
          /\ taken' = taken
          /\ queue' = Append(queue, [id |-> arrived + 1, paused |-> FALSE])
      BY <1>3 DEF AddMessage
    <2>2. /\ Len(queue') = Len(queue) + 1
          /\ \A i \in 1..Len(queue) : queue'[i] = queue[i]
          /\ (queue'[Len(queue) + 1]).id = arrived + 1
      BY <2>1, <1>1
    <2> QED  BY <2>1, <2>2, <1>1, <1>2 DEF Parts
  <1>4. CASE RemoveMessage
    <2>1. PICK k \in 1..Len(queue) :
             queue' = SubSeq(queue, 1, k - 1) \o SubSeq(queue, k + 1, Len(queue))
      BY <1>4 DEF RemoveMessage
    <2>2. arrived' = arrived /\ taken' = taken
      BY <1>4 DEF RemoveMessage
    <2>3. /\ Len(queue') = Len(queue) - 1
          /\ \A i \in 1..(Len(queue) - 1) :
                queue'[i] = IF i < k THEN queue[i] ELSE queue[i + 1]
      <3> DEFINE a == SubSeq(queue, 1, k - 1)
                 b == SubSeq(queue, k + 1, Len(queue))
      <3>1. /\ a \in Seq(Message) /\ Len(a) = k - 1
            /\ \A i \in 1..(k - 1) : a[i] = queue[i]
        BY <1>1
      <3>2. /\ b \in Seq(Message) /\ Len(b) = Len(queue) - k
            /\ \A i \in 1..(Len(queue) - k) : b[i] = queue[i + k]
        BY <1>1
      <3>3. queue' = a \o b
        BY <2>1
      <3> HIDE DEF a, b
      <3>4. Len(queue) \in Nat
        BY <1>1
      <3>5. Len(queue') = Len(queue) - 1
        <4>1. a \in Seq(Message) /\ b \in Seq(Message)
          BY <3>1, <3>2
        <4>2. Len(a \o b) = Len(a) + Len(b)
          BY ONLY <4>1, ConcatLen
        <4>3. Len(a) = k - 1 /\ Len(b) = Len(queue) - k /\ k \in Nat
          BY <3>1, <3>2, <3>4
        <4>4. Len(queue') = Len(a) + Len(b)
          BY ONLY <4>2, <3>3
        <4>5. (k - 1) + (Len(queue) - k) = Len(queue) - 1
          BY ONLY <4>3, <3>4
        <4> QED  BY ONLY <4>3, <4>4, <4>5
      <3>6. ASSUME NEW i \in 1..(Len(queue) - 1)
            PROVE  queue'[i] = IF i < k THEN queue[i] ELSE queue[i + 1]
        <4>1. i \in 1..(Len(a) + Len(b))
          BY <3>1, <3>2, <3>4
        <4>2. /\ i <= Len(a) => (a \o b)[i] = a[i]
              /\ i > Len(a) => (a \o b)[i] = b[i - Len(a)]
          <5>1. a \in Seq(Message) /\ b \in Seq(Message)
            BY <3>1, <3>2
          <5> QED  BY ONLY <4>1, <5>1, ConcatAt
        <4>3. CASE i < k
          <5>1. i <= Len(a) /\ i \in 1..(k - 1)
            BY <4>3, <3>1
          <5> QED  BY <5>1, <4>2, <4>3, <3>1, <3>3
        <4>4. CASE i >= k
          <5>1. /\ i > Len(a)
                /\ i - Len(a) \in 1..(Len(queue) - k)
                /\ (i - Len(a)) + k = i + 1
                /\ ~(i < k)
            BY <4>4, <3>1, <3>4
          <5> QED  BY <5>1, <4>2, <3>2, <3>3
        <4> QED  BY <4>3, <4>4, <3>4
      <3> QED  BY <3>5, <3>6
    <2> DEFINE old(i) == IF i < k THEN i ELSE i + 1
    <2>4. ASSUME NEW i \in 1..Len(queue')
          PROVE  old(i) \in 1..Len(queue) /\ queue'[i] = queue[old(i)]
      BY <2>3, <1>1
    <2>5. ASSUME NEW i \in 1..Len(queue'), NEW j \in 1..Len(queue'), i < j
          PROVE  old(i) < old(j)
      BY <2>5
    <2> HIDE DEF old
    <2>6. \A i, j \in 1..Len(queue') :
             i < j => (queue'[i]).id < (queue'[j]).id
      BY <2>4, <2>5, <1>2 DEF Parts
    <2>7. \A i \in 1..Len(taken), j \in 1..Len(queue') :
             taken[i] < (queue'[j]).id
      BY <2>4, <1>2 DEF Parts
    <2>8. \A i \in 1..Len(queue') : (queue'[i]).id <= arrived
      BY <2>4, <1>2 DEF Parts
    <2> QED  BY <2>2, <2>6, <2>7, <2>8, <1>2 DEF Parts
  <1>5. CASE TogglePause
    <2>1. PICK k \in 1..Len(queue) : queue' = [queue EXCEPT ![k].paused = ~@]
      BY <1>5 DEF TogglePause
    <2>2. arrived' = arrived /\ taken' = taken
      BY <1>5 DEF TogglePause
    <2>3. /\ Len(queue') = Len(queue)
          /\ \A i \in 1..Len(queue) : (queue'[i]).id = queue[i].id
      BY <2>1, <1>1 DEF Message
    <2> QED  BY <2>2, <2>3, <1>2 DEF Parts
  <1>6. CASE Clear
    BY <1>6, <1>2 DEF Clear, Parts
  <1>7. CASE Drain
    <2>1. PICK n \in 1..Len(queue) :
             /\ taken' = taken \o Ids(SubSeq(queue, 1, n))
             /\ queue' = SubSeq(queue, n + 1, Len(queue))
      BY <1>7 DEF Drain
    <2>2. arrived' = arrived
      BY <1>7 DEF Drain
    <2>3. /\ SubSeq(queue, 1, n) \in Seq(Message)
          /\ Len(SubSeq(queue, 1, n)) = n
          /\ \A i \in 1..n : SubSeq(queue, 1, n)[i] = queue[i]
      BY <1>1
    <2> DEFINE s == Ids(SubSeq(queue, 1, n))
    <2>4. s \in Seq(Tickets) /\ Len(s) = n /\ \A i \in 1..n : s[i] = queue[i].id
      BY <2>3, IdsOf
    <2>5. /\ Len(queue') = Len(queue) - n
          /\ \A i \in 1..(Len(queue) - n) : queue'[i] = queue[i + n]
      BY <2>1, <1>1
    <2>6. taken' = taken \o s
      BY <2>1
    <2> HIDE DEF s
    <2>7. Len(taken) \in Nat /\ Len(queue) \in Nat /\ n \in Nat
      BY <1>1
    <2>8. Len(taken') = Len(taken) + n
      BY <2>4, <2>6, <1>1, ConcatLen
    <2>9. ASSUME NEW i \in 1..Len(taken')
          PROVE  \/ i \in 1..Len(taken) /\ taken'[i] = taken[i]
                 \/ /\ i > Len(taken) /\ i - Len(taken) \in 1..n
                    /\ taken'[i] = queue[i - Len(taken)].id
      <3>1. i \in 1..(Len(taken) + Len(s)) /\ i \in Nat
        BY <2>4, <2>7, <2>8
      <3>2. /\ i <= Len(taken) => i \in 1..Len(taken) /\ taken'[i] = taken[i]
            /\ i > Len(taken) =>
                  i - Len(taken) \in 1..n /\ taken'[i] = s[i - Len(taken)]
        BY <3>1, <2>4, <2>6, <1>1, ConcatAt
      <3> QED  BY <3>1, <3>2, <2>4, <2>7
    <2>10. ASSUME NEW i \in 1..Len(queue')
           PROVE  /\ i + n \in 1..Len(queue) /\ i + n > n
                  /\ queue'[i] = queue[i + n]
      BY <2>5, <2>7
    <2>11. ASSUME NEW i \in 1..Len(taken'), NEW j \in 1..Len(taken'), i < j
           PROVE  taken'[i] < taken'[j]
      <3>1. i \in Int /\ j \in Int
        OBVIOUS
      <3>2. CASE i \in 1..Len(taken) /\ j \in 1..Len(taken)
        <4>1. taken'[i] = taken[i] /\ taken'[j] = taken[j]
          BY <3>2, <2>7, <2>9
        <4> QED  BY <4>1, <3>2, <2>11, <1>2 DEF Parts
      <3>3. CASE i \in 1..Len(taken) /\ j > Len(taken)
        <4>1. /\ taken'[i] = taken[i]
              /\ j - Len(taken) \in 1..Len(queue)
              /\ taken'[j] = queue[j - Len(taken)].id
          BY <3>3, <2>7, <2>9
        <4> QED  BY <4>1, <3>3, <1>2 DEF Parts
      <3>4. CASE i > Len(taken) /\ j > Len(taken)
        <4>1. /\ i - Len(taken) \in 1..Len(queue)
              /\ taken'[i] = queue[i - Len(taken)].id
              /\ j - Len(taken) \in 1..Len(queue)
              /\ taken'[j] = queue[j - Len(taken)].id
          BY <3>4, <2>7, <2>9
        <4>2. i - Len(taken) < j - Len(taken)
          BY <2>7, <2>11, <3>1
        <4> QED  BY <4>1, <4>2, <1>2 DEF Parts
      <3> QED  BY <3>1, <3>2, <3>3, <3>4, <2>7, <2>11
    <2>12. ASSUME NEW i \in 1..Len(taken'), NEW j \in 1..Len(queue')
           PROVE  taken'[i] < (queue'[j]).id
      <3>1. CASE i \in 1..Len(taken) /\ taken'[i] = taken[i]
        BY <3>1, <2>10, <1>2 DEF Parts
      <3>2. CASE /\ i - Len(taken) \in 1..n
                 /\ taken'[i] = queue[i - Len(taken)].id
        <4>1. i - Len(taken) \in 1..Len(queue) /\ i - Len(taken) < j + n
          BY <3>2, <2>7
        <4> QED  BY <4>1, <3>2, <2>10, <1>2 DEF Parts
      <3> QED  BY <3>1, <3>2, <2>9
    <2>13. ASSUME NEW i \in 1..Len(queue'), NEW j \in 1..Len(queue'), i < j
           PROVE  (queue'[i]).id < (queue'[j]).id
      <3>1. i + n < j + n
        BY <2>7, <2>13
      <3> QED  BY <3>1, <2>10, <1>2 DEF Parts
    <2>14. ASSUME NEW i \in 1..Len(taken')
           PROVE  taken'[i] <= arrived
      <3>1. CASE i \in 1..Len(taken) /\ taken'[i] = taken[i]
        BY <3>1, <1>2 DEF Parts
      <3>2. CASE /\ i - Len(taken) \in 1..n
                 /\ taken'[i] = queue[i - Len(taken)].id
        BY <3>2, <2>7, <1>2 DEF Parts
      <3> QED  BY <3>1, <3>2, <2>9
    <2>15. ASSUME NEW i \in 1..Len(queue')
           PROVE  (queue'[i]).id <= arrived
      BY <2>10, <1>2 DEF Parts
    <2> QED  BY <2>2, <2>11, <2>12, <2>13, <2>14, <2>15 DEF Parts
  <1>8. CASE UNCHANGED queueVars
    BY <1>8, <1>2 DEF queueVars, Parts
  <1> QED  BY <1>3, <1>4, <1>5, <1>6, <1>7, <1>8 DEF QueueNext

(* Whatever is queued, paused, removed and drained, the queue is a sequence *)
(* of well-formed messages.                                                 *)
THEOREM QueueTypeCorrect == QueueSpec => []QueueTypeOK
  <1>1. QueueInit => QueueTypeOK
    BY QueueInvInit DEF QueueInv
  <1> QED  BY <1>1, QueueTypeStep, PTL DEF QueueSpec

(* Messages are handed out in the order they were typed, each at most once: *)
(* whatever is paused, removed or cleared between two drains.               *)
THEOREM QueueOrderCorrect == QueueSpec => []QueueOrder
  BY QueueInvInit, QueueInvStep, PartsGiveOrder, PTL DEF QueueSpec

-----------------------------------------------------------------------------
(* The runner                                                                *)

LEMMA PutKeepsType ==
    ASSUME RunnerTypeOK, NEW e \in Exchanges, NEW type \in Output \cup Final,
           Put(type, e)
    PROVE  evq' \in Seq(Event)
  <1>1. [type |-> type, of |-> e] \in Event
    BY DEF Event
  <1> QED  BY <1>1 DEF RunnerTypeOK, Put

LEMMA NoEvents == <<>> \in Seq(Event)
  OBVIOUS

LEMMA RunnerTypeInit == RunnerInit => RunnerTypeOK
  <1> SUFFICES ASSUME RunnerInit
               PROVE  RunnerTypeOK
    OBVIOUS
  <1>1. task \in [Exchanges -> TaskState]
    BY DEF RunnerInit, TaskState
  <1>2. out \in [Exchanges -> 0..MaxOut]
    BY RunnerAssumption DEF RunnerInit
  <1> QED  BY <1>1, <1>2, NoEvents DEF RunnerInit, RunnerTypeOK

LEMMA RunnerTypeStep ==
    RunnerTypeOK /\ StreamingHasTask /\ [RunnerNext]_runnerVars => RunnerTypeOK'
  <1> SUFFICES ASSUME RunnerTypeOK, StreamingHasTask, [RunnerNext]_runnerVars
               PROVE  RunnerTypeOK'
    OBVIOUS
  <1> USE RunnerAssumption DEF RunnerTypeOK, TaskState, Final
  <1>1. ASSUME NEW e \in Exchanges, StartBackground(e)
        PROVE  RunnerTypeOK'
    <2>1. task' \in [Exchanges -> TaskState] /\ evq' \in Seq(Event)
      BY <1>1, NoEvents DEF StartBackground
    <2> QED  BY <1>1, <2>1 DEF StartBackground
  <1>2. ASSUME NEW e \in Exchanges, NEW type \in Output, Produce(e, type)
        PROVE  RunnerTypeOK'
    <2>1. evq' \in Seq(Event)
      BY <1>2, PutKeepsType DEF Produce
    <2>2. out' \in [Exchanges -> 0..MaxOut]
      BY <1>2 DEF Produce
    <2> QED  BY <1>2, <2>1, <2>2 DEF Produce
  <1>3. ASSUME NEW e \in Exchanges, Settle(e)
        PROVE  RunnerTypeOK'
    <2>1. CASE Finish(e)
      BY <2>1 DEF Finish
    <2>2. CASE Conclude(e)
      <3>1. evq' \in Seq(Event)
        BY <2>2, PutKeepsType DEF Conclude
      <3> QED  BY <2>2, <3>1 DEF Conclude
    <2>3. CASE Fail(e)
      BY <2>3 DEF Fail
    <2>4. CASE ReportFailure(e)
      <3>1. PICK type \in {"rate_limit", "error"} :
               Put(type, e) /\ task' = [task EXCEPT ![e] = type]
        BY <2>4 DEF ReportFailure
      <3>2. evq' \in Seq(Event)
        BY <3>1, PutKeepsType
      <3> QED  BY <2>4, <3>1, <3>2 DEF ReportFailure
    <2>5. CASE Ask(e)
      BY <2>5 DEF Ask
    <2>6. CASE ReportQuestion(e)
      <3>1. evq' \in Seq(Event)
        BY <2>6, PutKeepsType DEF ReportQuestion
      <3> QED  BY <2>6, <3>1 DEF ReportQuestion
    <2>7. CASE Unwind(e)
      <3>1. evq' \in Seq(Event)
        BY <2>7, PutKeepsType DEF Unwind
      <3> QED  BY <2>7, <3>1 DEF Unwind
    <2> QED  BY <1>3, <2>1, <2>2, <2>3, <2>4, <2>5, <2>6, <2>7 DEF Settle
  <1>4. CASE Cancel
    <2>1. current \in Exchanges
      BY <1>4 DEF Cancel, StreamingHasTask
    <2>2. evq' \in Seq(Event)
      BY <1>4, <2>1, PutKeepsType DEF Cancel
    <2> QED  BY <1>4, <2>1, <2>2 DEF Cancel
  <1>5. CASE DrainEvents
    BY <1>5, NoEvents DEF DrainEvents
  <1>6. CASE UNCHANGED runnerVars
    BY <1>6 DEF runnerVars
  <1> QED  BY <1>1, <1>2, <1>3, <1>4, <1>5, <1>6 DEF RunnerNext

(* A task other than the current one never makes the runner streaming, and  *)
(* a step of the current one that ends its work resets the status with it.  *)
LEMMA StreamingHasTaskStep ==
    RunnerTypeOK /\ StreamingHasTask /\ [RunnerNext]_runnerVars
        => StreamingHasTask'
  <1> SUFFICES ASSUME RunnerTypeOK, StreamingHasTask, [RunnerNext]_runnerVars
               PROVE  StreamingHasTask'
    OBVIOUS
  <1> USE RunnerAssumption DEF RunnerTypeOK, StreamingHasTask, IsStreaming
  <1>1. ASSUME NEW e \in Exchanges, StartBackground(e)
        PROVE  StreamingHasTask'
    BY <1>1 DEF StartBackground
  <1>2. ASSUME NEW e \in Exchanges, NEW type \in Output, Produce(e, type)
        PROVE  StreamingHasTask'
    BY <1>2 DEF Produce
  <1>3. ASSUME NEW e \in Exchanges, Settle(e)
        PROVE  StreamingHasTask'
    <2>1. CASE Finish(e)
      BY <2>1 DEF Finish
    <2>2. CASE Conclude(e)
      BY <2>2 DEF Conclude
    <2>3. CASE Fail(e)
      BY <2>3 DEF Fail
    <2>4. CASE ReportFailure(e)
      BY <2>4 DEF ReportFailure
    <2>5. CASE Ask(e)
      BY <2>5 DEF Ask
    <2>6. CASE ReportQuestion(e)
      BY <2>6 DEF ReportQuestion
    <2>7. CASE Unwind(e)
      BY <2>7 DEF Unwind
    <2> QED  BY <1>3, <2>1, <2>2, <2>3, <2>4, <2>5, <2>6, <2>7 DEF Settle
  <1>4. CASE Cancel
    BY <1>4 DEF Cancel
  <1>5. CASE DrainEvents
    BY <1>5 DEF DrainEvents
  <1>6. CASE UNCHANGED runnerVars
    BY <1>6 DEF runnerVars
  <1> QED  BY <1>1, <1>2, <1>3, <1>4, <1>5, <1>6 DEF RunnerNext

(* A runner that calls itself streaming has a task at work, and its fields  *)
(* keep their types.                                                        *)
THEOREM RunnerCorrect == RunnerSpec => [](RunnerTypeOK /\ StreamingHasTask)
  <1>1. RunnerInit => StreamingHasTask
    BY DEF RunnerInit, StreamingHasTask, IsStreaming
  <1> QED  BY <1>1, RunnerTypeInit, RunnerTypeStep, StreamingHasTaskStep, PTL
           DEF RunnerSpec

-----------------------------------------------------------------------------
(* The session                                                               *)

(* What the handlers that end in _process_queued_messages do to the queue.  *)
LEMMA ProcessQueuedQueue ==
    ASSUME NEW rest, NEW turn, ProcessQueued(rest, turn)
    PROVE  [QueueNext]_queueVars
  BY DEF ProcessQueued, SubmitDrained, LoseDrained, QueueNext

LEMMA TellWatchersQueue ==
    ASSUME NEW rest, TellWatchers(rest)
    PROVE  [QueueNext]_queueVars
  BY ProcessQueuedQueue DEF TellWatchers

LEMMA DispatchQueue == Dispatch => [QueueNext]_queueVars
  <1> SUFFICES ASSUME Dispatch
               PROVE  [QueueNext]_queueVars
    OBVIOUS
  <1>1. ASSUME NEW type, DispatchOutput(type)
        PROVE  [QueueNext]_queueVars
    BY <1>1 DEF DispatchOutput
  <1>2. CASE DispatchKill
    BY <1>2 DEF DispatchKill
  <1>3. CASE DispatchDone
    BY <1>3, TellWatchersQueue DEF DispatchDone
  <1>4. ASSUME NEW type, DispatchFailure(type)
        PROVE  [QueueNext]_queueVars
    BY <1>4 DEF DispatchFailure
  <1>5. CASE DispatchQuestion
    BY <1>5, TellWatchersQueue DEF DispatchQuestion
  <1>6. CASE DispatchCancelled
    BY <1>6, ProcessQueuedQueue DEF DispatchCancelled
  <1> QED  BY <1>1, <1>2, <1>3, <1>4, <1>5, <1>6 DEF Dispatch

(* The service touches the queue by the queue's own operations only.        *)
LEMMA QueueStep == [Next]_vars => [QueueNext]_queueVars
  <1> SUFFICES ASSUME [Next]_vars
               PROVE  [QueueNext]_queueVars
    OBVIOUS
  <1>1. CASE PumpStep
    <2>1. CASE Poll
      BY <2>1 DEF Poll
    <2>2. CASE BeginDispatch
      BY <2>2 DEF BeginDispatch
    <2>3. CASE Dispatch
      BY <2>3, DispatchQueue
    <2>4. CASE WatchersTold
      BY <2>4, ProcessQueuedQueue DEF WatchersTold
    <2> QED  BY <1>1, <2>1, <2>2, <2>3, <2>4 DEF PumpStep
  <1>2. CASE LoseRound
    BY <1>2 DEF LoseRound
  <1>3. ASSUME NEW e \in Exchanges,
               \/ SubmitDirect(e)
               \/ LaunchSubmitted(e)
               \/ LaunchPumped(e)
               \/ Stream(e)
               \/ EndStream(e)
        PROVE  [QueueNext]_queueVars
    BY <1>3 DEF SubmitDirect, LaunchSubmitted, LaunchPumped, Launch, Stream,
                EndStream, QueueNext
  <1>4. CASE EnqueueFromWatcher
    BY <1>4 DEF EnqueueFromWatcher, QueueNext
  <1>5. CASE EditQueue
    BY <1>5 DEF EditQueue, QueueNext
  <1>6. CASE DeliverAlert
    BY <1>6 DEF DeliverAlert, SubmitDrained, QueueNext
  <1>7. CASE CancelStreaming
    BY <1>7 DEF CancelStreaming
  <1>8. CASE UNCHANGED vars
    BY <1>8 DEF vars
  <1> QED  BY <1>1, <1>2, <1>3, <1>4, <1>5, <1>6, <1>7, <1>8 DEF Next, Step

(* The service touches the runner by the runner's own operations only.      *)
LEMMA RunnerStep == [Next]_vars => [RunnerNext]_runnerVars
  <1> SUFFICES ASSUME [Next]_vars
               PROVE  [RunnerNext]_runnerVars
    OBVIOUS
  <1>1. CASE PumpStep
    <2>1. CASE Poll
      BY <2>1 DEF Poll, RunnerNext
    <2>2. CASE BeginDispatch
      BY <2>2 DEF BeginDispatch
    <2>3. CASE Dispatch
      BY <2>3 DEF Dispatch, DispatchOutput, DispatchKill, DispatchDone,
                  DispatchFailure, DispatchQuestion, DispatchCancelled,
                  CancelInternal, RunnerNext
    <2>4. CASE WatchersTold
      BY <2>4 DEF WatchersTold
    <2> QED  BY <1>1, <2>1, <2>2, <2>3, <2>4 DEF PumpStep
  <1>2. CASE LoseRound
    BY <1>2 DEF LoseRound
  <1>3. ASSUME NEW e \in Exchanges,
               \/ SubmitDirect(e)
               \/ LaunchSubmitted(e)
               \/ LaunchPumped(e)
               \/ Stream(e)
               \/ EndStream(e)
        PROVE  [RunnerNext]_runnerVars
    BY <1>3 DEF SubmitDirect, LaunchSubmitted, LaunchPumped, Launch, Stream,
                EndStream, RunnerNext
  <1>4. CASE EnqueueFromWatcher
    BY <1>4 DEF EnqueueFromWatcher
  <1>5. CASE EditQueue
    BY <1>5 DEF EditQueue
  <1>6. CASE DeliverAlert
    BY <1>6 DEF DeliverAlert
  <1>7. CASE CancelStreaming
    BY <1>7 DEF CancelStreaming, CancelInternal, RunnerNext
  <1>8. CASE UNCHANGED vars
    BY <1>8 DEF vars
  <1> QED  BY <1>1, <1>2, <1>3, <1>4, <1>5, <1>6, <1>7, <1>8 DEF Next, Step

(* Within the service the queue behaves as the queue specification says.    *)
THEOREM ImplementsQueue == Spec => QueueSpec
  BY QueueStep, PTL DEF Spec, Init, QueueSpec

(* Within the service the runner behaves as the runner specification says.  *)
THEOREM ImplementsRunner == Spec => RunnerSpec
  <1>1. [Next]_vars => [UNCHANGED around]_around
    BY DEF Next, Steady, vars
  <1> QED  BY <1>1, RunnerStep, PTL DEF Spec, Init, RunnerSpec

(* Messages leave the queue in the order they were typed, none twice, when  *)
(* clients, watchers, injections and the pump all drain it.                 *)
THEOREM SessionQueueOrder == Spec => []QueueOrder
  BY ImplementsQueue, QueueOrderCorrect, PTL

(* A session that refuses messages because it streams has a task at work,   *)
(* whatever older tasks, cancellations and kill switches do.                *)
THEOREM SessionStreamingHasTask == Spec => []StreamingHasTask
  BY ImplementsRunner, RunnerCorrect, PTL

-----------------------------------------------------------------------------
(* Typing.  The pump's place tells what it holds.                           *)

PumpHolds ==
    /\ pump \in {"polled", "dispatching"} => batch # <<>>
    /\ pump \in {"dispatching", "telling", "submitting"} => pumpCtx \in Contexts

TypeInv == TypeOK /\ StreamingHasTask /\ PumpHolds

Turn == [kind : {"plain", "partial", "marker"}, of : Contexts \cup {NoExchange}]

LEMMA PlainTurn == Plain \in Turn
  BY DEF Plain, Turn

LEMMA UpdateStreamType ==
    ASSUME stream \in [Exchanges -> {"none"} \cup Active \cup Closed],
           NEW s \in Active \cup Closed, NEW c, UpdateStream(c, s)
    PROVE  stream' \in [Exchanges -> {"none"} \cup Active \cup Closed]
  BY DEF UpdateStream

LEMMA NotifyType ==
    ASSUME notices \in [Exchanges -> Seq({"done", "error", "cancelled"})],
           NEW o \in {"done", "error", "cancelled"}, NEW c, Notify(c, o)
    PROVE  notices' \in [Exchanges -> Seq({"done", "error", "cancelled"})]
  BY DEF Notify

LEMMA ProceedType ==
    ASSUME NEW rest \in Seq(Event), Proceed(rest)
    PROVE  /\ batch' \in Seq(Event)
           /\ pump' \in {"sleeping", "dispatching"}
           /\ pumpSubmit' \in Exchanges \cup {NoExchange}
           /\ pump' = "dispatching" => batch' # <<>>
  BY DEF Proceed

LEMMA AbortType ==
    ASSUME Abort
    PROVE  /\ batch' \in Seq(Event)
           /\ pump' = "sleeping"
           /\ pumpSubmit' \in Exchanges \cup {NoExchange}
  BY NoEvents DEF Abort

LEMMA DrainedType == QueueTypeOK => DrainedIds \subseteq Tickets
  <1> SUFFICES ASSUME QueueTypeOK, NEW i \in Sendable(queue)
               PROVE  queue[i].id \in Tickets
    BY DEF DrainedIds
  <1>1. queue[i] \in Message
    BY DEF Sendable, QueueTypeOK
  <1> QED  BY <1>1 DEF Message

LEMMA SubmitDrainedType ==
    ASSUME TypeOK, NEW e \in Exchanges, SubmitDrained(e)
    PROVE  /\ submit' \in [Exchanges -> {"free", "saving", "started", "refused"}]
           /\ carrier' \in [Tickets -> Exchanges \cup {NoExchange}]
           /\ lost' \subseteq Tickets
           /\ arrived' = arrived
  BY DEF TypeOK, LifecycleTypeOK, SubmitDrained, Accept, Drain

(* What the three outcomes of _process_queued_messages leave behind.        *)
LEMMA ProcessQueuedType ==
    ASSUME TypeOK, NEW rest \in Seq(Event), NEW turn \in Turn,
           ProcessQueued(rest, turn)
    PROVE  /\ submit' \in [Exchanges -> {"free", "saving", "started", "refused"}]
           /\ carrier' \in [Tickets -> Exchanges \cup {NoExchange}]
           /\ lost' \subseteq Tickets
           /\ lastTurn' \in Turn
           /\ batch' \in Seq(Event)
           /\ pump' \in {"sleeping", "dispatching", "submitting"}
           /\ pumpSubmit' \in Exchanges \cup {NoExchange}
           /\ pump' = "dispatching" => batch' # <<>>
           /\ arrived' = arrived
  <1>1. CASE /\ Proceed(rest)
             /\ lastTurn' = turn
             /\ UNCHANGED <<queueVars, submitVars>>
    BY <1>1, ProceedType
       DEF TypeOK, LifecycleTypeOK, queueVars, submitVars
  <1>2. CASE \E e \in Exchanges :
                /\ SubmitDrained(e)
                /\ lastTurn' = Plain
                /\ batch' = rest
                /\ pump' = "submitting"
                /\ pumpSubmit' = e
    BY <1>2, SubmitDrainedType, PlainTurn
  <1>3. CASE LoseDrained /\ lastTurn' = turn /\ Abort
    BY <1>3, AbortType, DrainedType
       DEF TypeOK, LifecycleTypeOK, LoseDrained, Drain
  <1> QED  BY <1>1, <1>2, <1>3 DEF ProcessQueued, Unsent

LEMMA TellWatchersType ==
    ASSUME TypeOK, NEW rest \in Seq(Event), TellWatchers(rest)
    PROVE  /\ submit' \in [Exchanges -> {"free", "saving", "started", "refused"}]
           /\ carrier' \in [Tickets -> Exchanges \cup {NoExchange}]
           /\ lost' \subseteq Tickets
           /\ lastTurn' \in Turn
           /\ batch' \in Seq(Event)
           /\ pump' \in {"sleeping", "dispatching", "telling", "submitting"}
           /\ pumpSubmit' \in Exchanges \cup {NoExchange}
           /\ pump' = "dispatching" => batch' # <<>>
           /\ arrived' = arrived
  <1>1. lastTurn \in Turn
    BY DEF TypeOK, LifecycleTypeOK, Turn
  <1>2. CASE Watched
    BY <1>1, <1>2
       DEF TellWatchers, TypeOK, LifecycleTypeOK, queueVars, submitVars
  <1>3. CASE ~Watched
    <2>1. ProcessQueued(rest, lastTurn)
      BY <1>3 DEF TellWatchers
    <2> QED  BY <1>1, <2>1, ProcessQueuedType
  <1> QED  BY <1>2, <1>3

LEMMA DispatchType == TypeInv /\ Dispatch => LifecycleTypeOK' /\ PumpHolds'
  <1> SUFFICES ASSUME TypeInv, Dispatch
               PROVE  LifecycleTypeOK' /\ PumpHolds'
    OBVIOUS
  <1>1. /\ Head(batch) \in Event /\ Tail(batch) \in Seq(Event)
        /\ pumpCtx \in Contexts /\ pumpCtx' = pumpCtx /\ alerts' = alerts
    BY DEF Dispatch, TypeInv, TypeOK, LifecycleTypeOK, PumpHolds
  <1>2. TypeOK /\ LifecycleTypeOK /\ StreamingHasTask
    BY DEF TypeInv, TypeOK
  <1>3. lastTurn \in Turn
    BY <1>2 DEF LifecycleTypeOK, Turn
  <1>4. ASSUME NEW type, DispatchOutput(type)
        PROVE  LifecycleTypeOK' /\ PumpHolds'
    <2>1. stream' \in [Exchanges -> {"none"} \cup Active \cup Closed]
      BY <1>2, <1>4, UpdateStreamType
         DEF DispatchOutput, DispatchText, DispatchToolUse, DispatchToolResult,
             DispatchUsage, Active, LifecycleTypeOK
    <2>2. content' \subseteq Contexts
      BY <1>1, <1>2, <1>4
         DEF DispatchOutput, DispatchText, DispatchToolUse, DispatchToolResult,
             DispatchUsage, AfterFlush, LifecycleTypeOK
    <2>3. Proceed(Tail(batch))
      BY <1>4 DEF DispatchOutput
    <2> QED  BY <1>1, <1>2, <1>4, <2>1, <2>2, <2>3, ProceedType
             DEF DispatchOutput, LifecycleTypeOK, PumpHolds, killVars, queueVars,
                 submitVars, historyVars
  <1>5. CASE DispatchKill
    <2>1. current \in Exchanges
      BY <1>2, <1>5
         DEF DispatchKill, CancelInternal, Cancel, StreamingHasTask, TypeOK,
             RunnerTypeOK
    <2>2. stream' \in [Exchanges -> {"none"} \cup Active \cup Closed]
      BY <1>2, <1>5, UpdateStreamType
         DEF DispatchKill, CancelInternal, Closed, LifecycleTypeOK
    <2>3. Proceed(Tail(batch))
      BY <1>5 DEF DispatchKill
    <2> QED  BY <1>1, <1>2, <1>5, <2>1, <2>2, <2>3, ProceedType
             DEF DispatchKill, LifecycleTypeOK, PumpHolds, queueVars, submitVars,
                 historyVars
  <1>6. CASE DispatchDone
    <2>1. TellWatchers(Tail(batch))
      BY <1>6 DEF DispatchDone
    <2>2. stream' \in [Exchanges -> {"none"} \cup Active \cup Closed]
      BY <1>2, <1>6, UpdateStreamType DEF DispatchDone, Closed, LifecycleTypeOK
    <2>3. notices' \in [Exchanges -> Seq({"done", "error", "cancelled"})]
      BY <1>2, <1>6, NotifyType DEF DispatchDone, LifecycleTypeOK
    <2> QED  BY <1>1, <1>2, <1>6, <2>1, <2>2, <2>3, TellWatchersType
             DEF DispatchDone, LifecycleTypeOK, PumpHolds, AfterFlush, Turn
  <1>7. ASSUME NEW type, DispatchFailure(type)
        PROVE  LifecycleTypeOK' /\ PumpHolds'
    <2>1. Proceed(Tail(batch))
      BY <1>7 DEF DispatchFailure
    <2>2. stream' \in [Exchanges -> {"none"} \cup Active \cup Closed]
      BY <1>2, <1>7, UpdateStreamType DEF DispatchFailure, Closed, LifecycleTypeOK
    <2>3. notices' \in [Exchanges -> Seq({"done", "error", "cancelled"})]
      BY <1>2, <1>7, NotifyType DEF DispatchFailure, LifecycleTypeOK
    <2>4. killReason' \in BOOLEAN
      BY <1>7 DEF DispatchFailure
    <2> QED  BY <1>1, <1>2, <1>7, <2>1, <2>2, <2>3, <2>4, ProceedType
             DEF DispatchFailure, LifecycleTypeOK, PumpHolds, queueVars,
                 submitVars
  <1>8. CASE DispatchQuestion
    <2>1. TellWatchers(Tail(batch))
      BY <1>8 DEF DispatchQuestion
    <2>2. stream' \in [Exchanges -> {"none"} \cup Active \cup Closed]
      BY <1>2, <1>8, UpdateStreamType DEF DispatchQuestion, Closed, LifecycleTypeOK
    <2>3. notices' \in [Exchanges -> Seq({"done", "error", "cancelled"})]
      BY <1>2, <1>8, NotifyType DEF DispatchQuestion, LifecycleTypeOK
    <2> QED  BY <1>1, <1>2, <1>8, <2>1, <2>2, <2>3, TellWatchersType
             DEF DispatchQuestion, LifecycleTypeOK, PumpHolds, killVars, Turn
  <1>9. CASE DispatchCancelled
    <2>1. CASE /\ Proceed(Tail(batch))
               /\ UNCHANGED <<runnerVars, queueVars, submitVars, killVars,
                              historyVars, stream, ctx, content, lastTurn>>
      BY <1>1, <1>2, <2>1, ProceedType
         DEF LifecycleTypeOK, PumpHolds, killVars, queueVars, submitVars,
             historyVars
    <2>2. CASE /\ Notify(pumpCtx, "cancelled")
               /\ UpdateStream(pumpCtx, "cancelled")
               /\ content' = content \ {pumpCtx}
               /\ kept' = kept \cup (content \cap {pumpCtx})
               /\ ctx' = IF ctx = pumpCtx THEN NoExchange ELSE ctx
               /\ \E turn \in InterruptionTurns(pumpCtx) :
                      ProcessQueued(Tail(batch), turn)
               /\ UNCHANGED <<runnerVars, killVars, unsaved>>
      <3>1. PICK turn \in InterruptionTurns(pumpCtx) :
               ProcessQueued(Tail(batch), turn)
        BY <2>2
      <3>2. turn \in Turn
        BY <1>1, <1>3 DEF InterruptionTurns, Turn
      <3>3. stream' \in [Exchanges -> {"none"} \cup Active \cup Closed]
        BY <1>2, <2>2, UpdateStreamType DEF Closed, LifecycleTypeOK
      <3>4. notices' \in [Exchanges -> Seq({"done", "error", "cancelled"})]
        BY <1>2, <2>2, NotifyType DEF LifecycleTypeOK
      <3> QED  BY <1>1, <1>2, <2>2, <3>1, <3>2, <3>3, <3>4, ProcessQueuedType
               DEF LifecycleTypeOK, PumpHolds, killVars, Turn
    <2> QED  BY <1>9, <2>1, <2>2 DEF DispatchCancelled
  <1> QED  BY <1>4, <1>5, <1>6, <1>7, <1>8, <1>9 DEF Dispatch

LEMMA LaunchType ==
    ASSUME TypeInv, NEW e \in Exchanges, LaunchSubmitted(e) \/ LaunchPumped(e)
    PROVE  LifecycleTypeOK' /\ PumpHolds'
  <1>1. LifecycleTypeOK
    BY DEF TypeInv, TypeOK
  <1>2. /\ submit' \in [Exchanges -> {"free", "saving", "started", "refused"}]
        /\ stream' \in [Exchanges -> {"none"} \cup Active \cup Closed]
        /\ ctx' = e /\ content' = content \ {e}
        /\ UNCHANGED <<arrived, carrier, lost, lastTurn, alerts, killVars,
                       historyVars>>
    BY <1>1 DEF LaunchSubmitted, LaunchPumped, Launch, LifecycleTypeOK, Active,
                queueVars
  <1>3. CASE LaunchSubmitted(e)
    BY <1>1, <1>2, <1>3 DEF LaunchSubmitted, pumpVars, LifecycleTypeOK, PumpHolds,
                            TypeInv, Contexts, killVars, historyVars
  <1>4. CASE LaunchPumped(e)
    <2>1. /\ batch' \in Seq(Event)
          /\ pump' \in {"sleeping", "dispatching"}
          /\ pumpSubmit' \in Exchanges \cup {NoExchange}
          /\ pump' = "dispatching" => batch' # <<>>
      BY <1>1, <1>4, ProceedType, AbortType DEF LaunchPumped, LifecycleTypeOK
    <2> QED  BY <1>1, <1>2, <1>4, <2>1
             DEF LaunchPumped, LifecycleTypeOK, PumpHolds, TypeInv, Contexts,
                 killVars, historyVars
  <1> QED  BY <1>3, <1>4

LEMMA LifecycleTypeStep ==
    TypeInv /\ [Next]_vars => LifecycleTypeOK' /\ PumpHolds'
  <1> SUFFICES ASSUME TypeInv, [Next]_vars
               PROVE  LifecycleTypeOK' /\ PumpHolds'
    OBVIOUS
  <1>1. LifecycleTypeOK /\ PumpHolds /\ TypeOK
    BY DEF TypeInv, TypeOK
  <1> USE DEF LifecycleTypeOK, PumpHolds, submitVars, pumpVars, killVars,
              historyVars, serviceVars
  <1>2. CASE Poll
    BY <1>1, <1>2 DEF Poll, TypeOK, RunnerTypeOK, queueVars
  <1>3. CASE BeginDispatch
    BY <1>1, <1>3 DEF BeginDispatch, queueVars, Contexts
  <1>4. CASE Dispatch
    BY <1>4, DispatchType
  <1>5. CASE WatchersTold
    <2>1. ProcessQueued(batch, lastTurn) /\ lastTurn \in Turn
      BY <1>1, <1>5 DEF WatchersTold, Turn
    <2> QED  BY <1>1, <1>5, <2>1, ProcessQueuedType DEF WatchersTold, Turn
  <1>6. CASE LoseRound
    BY <1>1, <1>6, NoEvents DEF LoseRound, queueVars
  <1>7. ASSUME NEW e \in Exchanges, SubmitDirect(e)
        PROVE  LifecycleTypeOK' /\ PumpHolds'
    BY <1>1, <1>7, PlainTurn DEF SubmitDirect, Accept, queueVars, Turn
  <1>8. ASSUME NEW e \in Exchanges, LaunchSubmitted(e) \/ LaunchPumped(e)
        PROVE  LifecycleTypeOK' /\ PumpHolds'
    BY <1>8, LaunchType
  <1>9. ASSUME NEW e \in Exchanges, Stream(e)
        PROVE  LifecycleTypeOK' /\ PumpHolds'
    <2>1. arrived' = arrived
      BY <1>9 DEF Stream, Drain, queueVars
    <2>2. unsaved' \subseteq Exchanges
      BY <1>1, <1>9 DEF Stream
    <2>3. lastTurn' \in Turn
      BY <1>1, <1>9, PlainTurn DEF Stream, Turn
    <2> QED  BY <1>1, <1>9, <2>1, <2>2, <2>3 DEF Stream, Turn
  <1>10. ASSUME NEW e \in Exchanges, EndStream(e)
         PROVE  LifecycleTypeOK' /\ PumpHolds'
    <2>1. unsaved' \subseteq Exchanges /\ lastTurn' \in Turn
      BY <1>1, <1>10, PlainTurn DEF EndStream, Turn
    <2> QED  BY <1>1, <1>10, <2>1 DEF EndStream, Turn, queueVars
  <1>11. CASE EnqueueFromWatcher
    BY <1>1, <1>11, MaxMsgsAssumption
       DEF EnqueueFromWatcher, AddMessage, TypeOK, QueueTypeOK
  <1>12. CASE EditQueue
    <2>1. alerts \in 0..arrived'
      BY <1>1, <1>12, MaxMsgsAssumption
         DEF EditQueue, AddMessage, RemoveMessage, TogglePause, Clear, Drain,
             TypeOK, QueueTypeOK
    <2> QED  BY <1>1, <1>12, <2>1 DEF EditQueue
  <1>13. CASE DeliverAlert
    <2>1. alerts' \in 0..arrived
      BY <1>1, <1>13, MaxMsgsAssumption DEF DeliverAlert, TypeOK, QueueTypeOK
    <2>2. /\ submit' \in [Exchanges -> {"free", "saving", "started", "refused"}]
          /\ carrier' \in [Tickets -> Exchanges \cup {NoExchange}]
          /\ lost' \subseteq Tickets
          /\ arrived' = arrived
          /\ lastTurn' \in Turn
      BY <1>1, <1>13, SubmitDrainedType, PlainTurn
         DEF DeliverAlert, Unsent, Turn, queueVars
    <2> QED  BY <1>1, <1>13, <2>1, <2>2 DEF DeliverAlert, Turn
  <1>14. CASE CancelStreaming
    <2>1. stream' \in [Exchanges -> {"none"} \cup Active \cup Closed]
      BY <1>1, <1>14, UpdateStreamType
         DEF CancelStreaming, CancelInternal, Closed
    <2> QED  BY <1>1, <1>14, <2>1 DEF CancelStreaming, queueVars
  <1>15. CASE UNCHANGED vars
    BY <1>1, <1>15 DEF vars, queueVars
  <1> QED  BY <1>2, <1>3, <1>4, <1>5, <1>6, <1>7, <1>8, <1>9, <1>10, <1>11,
              <1>12, <1>13, <1>14, <1>15
           DEF Next, Step, PumpStep

LEMMA TypeInvInit == Init => TypeInv
  <1> SUFFICES ASSUME Init
               PROVE  TypeInv
    OBVIOUS
  <1>1. QueueTypeOK
    BY QueueInvInit DEF Init, QueueInv
  <1>2. RunnerTypeOK /\ StreamingHasTask
    BY RunnerTypeInit
       DEF Init, RunnerInit, StreamingHasTask, IsStreaming
  <1>3. LifecycleTypeOK /\ PumpHolds
    <2>1. arrived = 0
      BY DEF Init, QueueInit
    <2>2. notices \in [Exchanges -> Seq({"done", "error", "cancelled"})]
      BY DEF Init, LifecycleInit
    <2>3. submit \in [Exchanges -> {"free", "saving", "started", "refused"}]
      BY DEF Init, LifecycleInit
    <2>4. stream \in [Exchanges -> {"none"} \cup Active \cup Closed]
      BY DEF Init, LifecycleInit
    <2>5. carrier \in [Tickets -> Exchanges \cup {NoExchange}]
      BY DEF Init, LifecycleInit
    <2>6. alerts \in 0..arrived /\ batch \in Seq(Event) /\ lastTurn \in Turn
      BY <2>1, NoEvents, PlainTurn DEF Init, LifecycleInit
    <2> QED  BY <2>2, <2>3, <2>4, <2>5, <2>6
             DEF Init, LifecycleInit, LifecycleTypeOK, PumpHolds, Turn
  <1> QED  BY <1>1, <1>2, <1>3 DEF TypeInv, TypeOK

LEMMA TypeInvStep == TypeInv /\ [Next]_vars => TypeInv'
  BY QueueStep, RunnerStep, QueueTypeStep, RunnerTypeStep, StreamingHasTaskStep,
     LifecycleTypeStep
     DEF TypeInv, TypeOK

(* Whatever clients, watchers, the pump and lingering tasks do, every part  *)
(* of the session's state keeps its type.                                   *)
THEOREM SessionTypeCorrect == Spec => []TypeOK
  <1>1. TypeInv => TypeOK
    BY DEF TypeInv
  <1> QED  BY <1>1, TypeInvInit, TypeInvStep, PTL DEF Spec
=============================================================================
