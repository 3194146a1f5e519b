------------------------------ MODULE HelperRuns ------------------------------
(***************************************************************************)
(* A helper: an LLM call beside a session, which summarises, reviews or    *)
(* compresses (core/runner.py HelperRunner, start_helper, cancel_helper,   *)
(* await_helper_result and _pump_helper_events of                          *)
(* service/session_manager_service.py).                                    *)
(*                                                                         *)
(* Its events are drained by the event pump and by every client that       *)
(* awaits its result.  Dispatching one suspends only where "done" starts   *)
(* the completion of what the helper was for.                              *)
(***************************************************************************)
EXTENDS Integers, Sequences, FiniteSets

CONSTANTS
    Waiters,        \* clients that await the result
    Pump,           \* the event pump
    MaxPieces,      \* bound: pieces of text in an answer
    Automatic       \* whether "done" starts a completion: a set of Booleans

ASSUME HelperAssumption ==
    /\ Pump \notin Waiters /\ MaxPieces \in Nat \ {0}
    /\ Automatic \subseteq BOOLEAN

Drains == Waiters \cup {Pump}
Gone == -1

VARIABLES
    automatic,  \* metadata["auto_complete"]
    status,     \* the runner's status
    put,        \* pieces of text the runner has put
    events,     \* its event queue
    content,    \* pieces in the helper's context, Gone without a context
    listed,     \* the runner is in _helper_runners
    doing,      \* what each that drains is doing
    result,     \* what a waiter returned: pieces, Gone before it returns
    gaveUp,     \* history: the waiters that timed out
    completed   \* history: how often the completion ran

helperVars == <<automatic, status, put, events, content, listed, doing, result,
                gaveUp, completed>>

HelperInit ==
    /\ automatic \in Automatic
    /\ status = "idle" /\ put = 0 /\ events = <<>>
    /\ content = Gone /\ listed = FALSE
    /\ doing = [d \in Drains |-> "idle"]
    /\ result = [w \in Waiters |-> Gone]
    /\ gaveUp = {} /\ completed = 0

(* start_helper                                                             *)
StartHelper ==
    /\ status = "idle" /\ put = 0 /\ content = Gone
    /\ doing = [d \in Drains |-> "idle"] /\ completed = 0
    /\ status' = "streaming" /\ content' = 0 /\ listed' = TRUE
    /\ UNCHANGED <<automatic, put, events, doing, result, gaveUp, completed>>

(* HelperRunner._background_stream                                          *)
PutText ==
    /\ status = "streaming" /\ put < MaxPieces
    /\ put' = put + 1 /\ events' = Append(events, "text")
    /\ UNCHANGED <<automatic, status, content, listed, doing, result, gaveUp, completed>>

EndHelper ==
    /\ status = "streaming"
    /\ \/ put > 0 /\ status' = "ended" /\ events' = Append(events, "done")
       \/ status' = "error" /\ events' = Append(events, "error")
    /\ UNCHANGED <<automatic, put, content, listed, doing, result, gaveUp, completed>>

(* cancel_helper: also of a helper that has ended but is still listed.      *)
CancelHelper ==
    /\ listed /\ status \in {"streaming", "ended", "error"}
    /\ status' = "cancelled" /\ events' = Append(events, "cancelled")
    /\ UNCHANGED <<automatic, put, content, listed, doing, result, gaveUp, completed>>

(* _dispatch_helper_event for all that a drain returned.  What ends the     *)
(* helper drops its context.                                                *)
Ending(es) == {i \in DOMAIN es : es[i] # "text"}
IsDone(es) == \E i \in Ending(es) : es[i] = "done" /\ \A j \in Ending(es) : i <= j
Pieces(es) == Cardinality(DOMAIN es \ Ending(es))

(* The whole result, as the context of a drain has it.                      *)
Drained(d, then) ==
    /\ events' = <<>>
    /\ content' = IF Ending(events) # {} /\ ~(IsDone(events) /\ automatic) THEN Gone
                  ELSE content + Pieces(events)
    /\ IF IsDone(events) /\ automatic
       THEN doing' = [doing EXCEPT ![d] = "completing"] /\ completed' = completed + 1
       ELSE doing' = [doing EXCEPT ![d] = then] /\ UNCHANGED completed

(* Mutant of PumpHelper: an ended runner stays listed.                      *)
PumpHelper_KeepsRunner ==
    /\ doing[Pump] = "idle" /\ listed /\ content # Gone
    /\ Drained(Pump, "idle")
    /\ UNCHANGED <<automatic, status, put, listed, result, gaveUp>>

(* _pump_helper_events: no context, no drain; done, no longer listed.       *)
PumpHelper ==
    /\ doing[Pump] = "idle" /\ listed /\ content # Gone
    /\ Drained(Pump, "idle")
    /\ listed' = (status = "streaming" \/ (IsDone(events) /\ automatic))
    /\ UNCHANGED <<automatic, status, put, result, gaveUp>>

(* The completion ends: it drops the context and the runner itself.         *)
PumpCompletes ==
    /\ doing[Pump] = "completing"
    /\ doing' = [doing EXCEPT ![Pump] = "idle"]
    /\ content' = Gone /\ listed' = FALSE
    /\ UNCHANGED <<automatic, status, put, events, result, gaveUp, completed>>

(* await_helper_result: one round of its loop.                              *)
Await(w) ==
    /\ doing[w] = "idle" /\ result[w] = Gone /\ status # "idle"
    /\ doing' = [doing EXCEPT ![w] = "polling"]
    /\ UNCHANGED <<automatic, status, put, events, content, listed, result, gaveUp, completed>>

Returns(w, pieces) ==
    /\ result' = [result EXCEPT ![w] = pieces]
    /\ content' = Gone /\ listed' = FALSE

(* Mutant of Round: returns what the context holds, not what is still       *)
(* queued.                                                                  *)
Round_LeavesQueue(w) ==
    /\ doing[w] = "polling" /\ content # Gone /\ listed
    /\ IF status # "streaming" /\ ~(IsDone(events) /\ automatic)
       THEN /\ Returns(w, content)
            /\ events' = <<>> /\ doing' = [doing EXCEPT ![w] = "returned"]
            /\ UNCHANGED completed
       ELSE Drained(w, "polling") /\ UNCHANGED <<result, listed>>
    /\ UNCHANGED <<automatic, status, put, gaveUp>>

Round(w) ==
    /\ doing[w] = "polling" /\ content # Gone /\ listed
    /\ IF status # "streaming" /\ ~(IsDone(events) /\ automatic)
       THEN /\ Returns(w, content + Pieces(events))
            /\ events' = <<>> /\ doing' = [doing EXCEPT ![w] = "returned"]
            /\ UNCHANGED completed
       ELSE Drained(w, "polling") /\ UNCHANGED <<result, listed>>
    /\ UNCHANGED <<automatic, status, put, gaveUp>>

(* The completion this waiter's drain started has ended.                    *)
WaiterCompletes(w) ==
    /\ doing[w] = "completing"
    /\ Returns(w, put)
    /\ doing' = [doing EXCEPT ![w] = "returned"]
    /\ UNCHANGED <<automatic, status, put, events, gaveUp, completed>>

(* No context: the empty string.  A context without a runner: what it has.  *)
NoContext(w) ==
    /\ doing[w] = "polling" /\ content = Gone
    /\ result' = [result EXCEPT ![w] = 0]
    /\ doing' = [doing EXCEPT ![w] = "returned"]
    /\ UNCHANGED <<automatic, status, put, events, content, listed, gaveUp, completed>>

NoRunner(w) ==
    /\ doing[w] = "polling" /\ content # Gone /\ ~listed
    /\ Returns(w, content)
    /\ doing' = [doing EXCEPT ![w] = "returned"]
    /\ UNCHANGED <<automatic, status, put, events, gaveUp, completed>>

(* On a timeout what there is is returned, and context and runner dropped.  *)
TimeOut(w) ==
    /\ doing[w] = "polling"
    /\ Returns(w, IF content = Gone THEN 0 ELSE content)
    /\ doing' = [doing EXCEPT ![w] = "returned"]
    /\ gaveUp' = gaveUp \cup {w}
    /\ UNCHANGED <<automatic, status, put, events, completed>>

HelperNext ==
    \/ StartHelper \/ PutText \/ EndHelper \/ CancelHelper
    \/ PumpHelper \/ PumpCompletes
    \/ \E w \in Waiters : Await(w) \/ Round(w) \/ WaiterCompletes(w) \/ NoContext(w)
                          \/ NoRunner(w) \/ TimeOut(w)

HelperSpec == HelperInit /\ [][HelperNext]_helperVars

-----------------------------------------------------------------------------
(* Properties                                                               *)

HelperTypeOK ==
    /\ status \in {"idle", "streaming", "ended", "error", "cancelled"}
    /\ put \in 0..MaxPieces /\ content \in Gone..MaxPieces
    /\ doing \in [Drains -> {"idle", "polling", "completing", "returned"}]
    /\ result \in [Waiters -> Gone..MaxPieces]

(* Although pump and waiters drain one queue, no waiter takes a part of a   *)
(* result for the whole: unless it timed out or the helper failed or was    *)
(* cancelled, it returns everything or nothing.                             *)
NeverTruncated ==
    \A w \in Waiters :
        result[w] \notin {Gone, 0} /\ w \notin gaveUp /\ status = "ended"
            => result[w] = put

(* What the helper was for is completed once at most, and once the queue is *)
(* empty and nobody is at work it has been, if the helper ended well, or a  *)
(* waiter timed out; no context and no runner is left behind.               *)
CompletedOnce ==
    /\ completed <= 1
    /\ /\ status = "ended" /\ automatic /\ content = Gone
       /\ \A d \in Drains : doing[d] # "completing"
       => completed = 1 \/ gaveUp # {}
    /\ content = Gone /\ status # "streaming" /\ events = <<>> => ~listed

(* The pump and those who wait drain one queue: the result is nevertheless   *)
(* taken whole, and acted on once.                                           *)
ResultTakenOnce == NeverTruncated /\ CompletedOnce

(* "The helper's accumulated text result, or empty string on timeout/error" *)
AwaitedResult ==
    \A w \in Waiters : result[w] = 0 /\ status = "ended" => w \in gaveUp
=============================================================================
