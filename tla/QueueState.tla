------------------------------ MODULE QueueState ------------------------------
(***************************************************************************)
(* core/queue_state.py: the message queue of one session.                  *)
(*                                                                         *)
(* A message's uuid is modelled by its arrival number, so that the order   *)
(* of two messages can be read off their ids.  Content, creation time and  *)
(* snapshots for views are abstracted away; update_content therefore       *)
(* changes nothing here.  The queue lives in memory only and every method  *)
(* runs to completion on the event loop, so each one is an atomic step.    *)
(***************************************************************************)
EXTENDS Integers, Sequences

CONSTANT MaxMsgs    \* bound: messages ever queued for the session

ASSUME MaxMsgsAssumption == MaxMsgs \in Nat

VARIABLES
    queue,      \* _queues[session_id].messages
    arrived,    \* how many messages were ever added
    taken       \* history: ids handed out by drain, in that order

queueVars == <<queue, arrived, taken>>

Tickets == 1..MaxMsgs
Message == [id : Tickets, paused : BOOLEAN]

Ids(q) == [i \in 1..Len(q) |-> q[i].id]

(* The messages drain() hands out: everything before the first paused one. *)
Sendable(q) ==
    {i \in 1..Len(q) : \A j \in 1..i : ~q[j].paused}

(* has_messages() and not is_blocked(): the test its callers make first.    *)
HasSendable == queue # <<>> /\ ~Head(queue).paused

-----------------------------------------------------------------------------

QueueInit ==
    /\ queue = <<>>
    /\ arrived = 0
    /\ taken = <<>>

AddMessage ==
    /\ arrived < MaxMsgs
    /\ arrived' = arrived + 1
    /\ queue' = Append(queue, [id |-> arrived + 1, paused |-> FALSE])
    /\ UNCHANGED taken

RemoveMessage ==
    /\ \E i \in 1..Len(queue) :
          queue' = SubSeq(queue, 1, i - 1) \o SubSeq(queue, i + 1, Len(queue))
    /\ UNCHANGED <<arrived, taken>>

TogglePause ==
    /\ \E i \in 1..Len(queue) :
          queue' = [queue EXCEPT ![i].paused = ~@]
    /\ UNCHANGED <<arrived, taken>>

Clear ==
    /\ queue # <<>>
    /\ queue' = <<>>
    /\ UNCHANGED <<arrived, taken>>

(* Mutant of Drain: hands out what is behind a paused message too.          *)
Drain_PastPaused ==
    /\ \E i \in 1..Len(queue) : ~queue[i].paused
    /\ taken' = taken \o Ids(SelectSeq(queue, LAMBDA m : ~m.paused))
    /\ queue' = SelectSeq(queue, LAMBDA m : m.paused)
    /\ UNCHANGED arrived

Drain ==
    /\ HasSendable
    /\ \E n \in 1..Len(queue) :
          /\ Sendable(queue) = 1..n
          /\ taken' = taken \o Ids(SubSeq(queue, 1, n))
          /\ queue' = SubSeq(queue, n + 1, Len(queue))
    /\ UNCHANGED arrived

(* The ids a Drain step of this state hands out.                            *)
DrainedIds == {queue[i].id : i \in Sendable(queue)}

QueueNext == AddMessage \/ RemoveMessage \/ TogglePause \/ Clear \/ Drain

QueueSpec == QueueInit /\ [][QueueNext]_queueVars

-----------------------------------------------------------------------------

QueueTypeOK ==
    /\ queue \in Seq(Message)
    /\ arrived \in 0..MaxMsgs
    /\ taken \in Seq(Tickets)

Pending == taken \o Ids(queue)

(* Messages leave the queue in the order they were typed and never twice:   *)
(* whatever is paused, resumed, removed or cleared, what was handed out     *)
(* followed by what still waits is strictly ordered by arrival.             *)
QueueOrder ==
    \A i, j \in 1..Len(Pending) : i < j => Pending[i] < Pending[j]

=============================================================================
