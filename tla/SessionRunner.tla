---------------------------- MODULE SessionRunner ----------------------------
(***************************************************************************)
(* core/runner.py, class SessionRunner: the background streams of one      *)
(* session and the queue through which they report to the event pump.      *)
(*                                                                         *)
(* The runner object is shared by consecutive streams: status, the cancel  *)
(* flag and the event queue are fields of the object, while each stream    *)
(* runs in an asyncio task of its own.  A task that has not returned yet   *)
(* still writes those fields when a newer one is already running.          *)
(*                                                                         *)
(* A stream is named by the exchange it answers.  Steps are the stretches  *)
(* of code between two awaits that really suspend; putting into the        *)
(* unbounded asyncio.Queue does not.  Events put in one stretch that only  *)
(* matter together are one event here: "text" is a delta with the          *)
(* text_turn_started before it, "tool_use_start" comes with the text_flush *)
(* of the text it follows, "done" with that of the last text.              *)
(***************************************************************************)
EXTENDS Integers, Sequences

CONSTANTS
    Exchanges,      \* uuids of exchanges; one per started stream
    NoExchange,
    MaxOut,         \* bound: output events a stream puts before it ends
    Surroundings    \* what the session may find around it, each a set of
                    \* names; one of them holds throughout a behaviour

ASSUME RunnerAssumption ==
    /\ NoExchange \notin Exchanges
    /\ MaxOut \in Nat

VARIABLES
    around,         \* the surroundings of this behaviour
    status,         \* _status
    current,        \* the exchange of _background_task
    cancelEmitted,  \* _cancel_event_emitted
    evq,            \* _event_queue
    task,           \* where the task of each exchange stands
    out             \* number of output events each task has put

runnerVars == <<status, current, cancelEmitted, evq, task, out>>

Output == {"text", "tool_use_start", "tool_result", "result"}
Final == {"done", "error", "rate_limit", "input_required", "cancelled"}

(* A cancelled task may live on: it is slow to unwind, or its cancellation *)
(* is swallowed.                                                           *)
Lingering == "lingering" \in around

(* "of" is the task that put the event; the code's events do not carry it.  *)
Event == [type : Output \cup Final, of : Exchanges]

(* running     iterating over the backend's stream_response                *)
(* finalizing  in _finalize_stream, awaiting _flush_pending_save           *)
(* failing     status is ERROR, awaiting _flush_pending_save               *)
(* limited     the same after a RateLimitError                             *)
(* asking      status is IDLE after an InputRequiredError, finalizing      *)
(* unwinding   cancelled, the CancelledError not handled yet               *)
(* a Final     has returned; names how it came to that                     *)
TaskState == {"none", "running", "finalizing", "failing", "limited",
              "asking", "unwinding"} \cup Final

IsStreaming == status = "streaming"

Put(type, e) == evq' = Append(evq, [type |-> type, of |-> e])

-----------------------------------------------------------------------------

RunnerInit ==
    /\ around \in Surroundings
    /\ status = "idle"
    /\ current = NoExchange
    /\ cancelEmitted = FALSE
    /\ evq = <<>>
    /\ task = [e \in Exchanges |-> "none"]
    /\ out = [e \in Exchanges |-> 0]

(* Raises instead when the runner is streaming: the guard of its caller.   *)
(* _reset_state empties the event queue.                                   *)
StartBackground(e) ==
    /\ ~IsStreaming
    /\ task[e] = "none"
    /\ status' = "streaming"
    /\ current' = e
    /\ cancelEmitted' = FALSE
    /\ evq' = <<>>
    /\ task' = [task EXCEPT ![e] = "running"]
    /\ UNCHANGED out

Produce(e, type) ==
    /\ task[e] = "running"
    /\ out[e] < MaxOut
    /\ out' = [out EXCEPT ![e] = @ + 1]
    /\ Put(type, e)
    /\ UNCHANGED <<status, current, cancelEmitted, task>>

(* The backend's stream is exhausted; _finalize_stream saves first and     *)
(* sets the status only when the save is through.                          *)
Finish(e) ==
    /\ task[e] = "running"
    /\ task' = [task EXCEPT ![e] = "finalizing"]
    /\ UNCHANGED <<status, current, cancelEmitted, evq, out>>

(* Mutant of Conclude: the status is not reset.                            *)
Conclude_StillStreaming(e) ==
    /\ task[e] = "finalizing"
    /\ task' = [task EXCEPT ![e] = "done"]
    /\ Put("done", e)
    /\ UNCHANGED <<status, current, cancelEmitted, out>>

Conclude(e) ==
    /\ task[e] = "finalizing"
    /\ task' = [task EXCEPT ![e] = "done"]
    /\ status' = "idle"
    /\ Put("done", e)
    /\ UNCHANGED <<current, cancelEmitted, out>>

(* The exception handlers set the status before they save, and put their   *)
(* event after it.                                                         *)
Fail(e) ==
    /\ task[e] = "running"
    /\ \E s \in {"failing", "limited"} : task' = [task EXCEPT ![e] = s]
    /\ status' = "error"
    /\ UNCHANGED <<current, cancelEmitted, evq, out>>

ReportFailure(e) ==
    /\ task[e] \in {"failing", "limited"}
    /\ LET type == IF task[e] = "limited" THEN "rate_limit" ELSE "error"
       IN  Put(type, e) /\ task' = [task EXCEPT ![e] = type]
    /\ UNCHANGED <<status, current, cancelEmitted, out>>

Ask(e) ==
    /\ task[e] = "running"
    /\ task' = [task EXCEPT ![e] = "asking"]
    /\ status' = "idle"
    /\ UNCHANGED <<current, cancelEmitted, evq, out>>

(* _finalize_stream sets IDLE once more when its save is through.          *)
ReportQuestion(e) ==
    /\ task[e] = "asking"
    /\ task' = [task EXCEPT ![e] = "input_required"]
    /\ status' = "idle"
    /\ Put("input_required", e)
    /\ UNCHANGED <<current, cancelEmitted, out>>

(* Mutants of Cancel: callable while nothing streams; status left to the   *)
(* handler of the task; task not cancelled.                                *)
Cancel_Anytime ==
    /\ task' = [task EXCEPT ![current] = "unwinding"]
    /\ status' = "cancelled"
    /\ IF cancelEmitted THEN UNCHANGED evq ELSE Put("cancelled", current)
    /\ cancelEmitted' = TRUE
    /\ UNCHANGED <<current, out>>

Cancel_StatusLater ==
    /\ IsStreaming
    /\ task' = [task EXCEPT ![current] = "unwinding"]
    /\ IF cancelEmitted THEN UNCHANGED evq ELSE Put("cancelled", current)
    /\ cancelEmitted' = TRUE
    /\ UNCHANGED <<status, current, out>>

Cancel_TaskGoesOn ==
    /\ IsStreaming
    /\ status' = "cancelled"
    /\ IF cancelEmitted THEN UNCHANGED evq ELSE Put("cancelled", current)
    /\ cancelEmitted' = TRUE
    /\ UNCHANGED <<current, task, out>>

(* cancel(): the "cancelled" event goes out at once, through the flag      *)
(* that keeps the task from putting a second one.  A task that is joining  *)
(* its debounced save swallows the CancelledError and goes on.             *)
Cancel ==
    /\ IsStreaming
    /\ \/ task' = [task EXCEPT ![current] = "unwinding"]
       \/ /\ Lingering
          /\ task[current] = "finalizing"
          /\ UNCHANGED task
    /\ status' = "cancelled"
    /\ IF cancelEmitted THEN UNCHANGED evq ELSE Put("cancelled", current)
    /\ cancelEmitted' = TRUE
    /\ UNCHANGED <<current, out>>

(* Mutant of Unwind: the handler puts its event whatever cancel() did.     *)
Unwind_Again(e) ==
    /\ task[e] = "unwinding"
    /\ task' = [task EXCEPT ![e] = "cancelled"]
    /\ status' = "cancelled"
    /\ Put("cancelled", e)
    /\ UNCHANGED <<current, cancelEmitted, out>>

(* The CancelledError handler; a task cancelled before its first step has  *)
(* none.                                                                   *)
Unwind(e) ==
    /\ task[e] = "unwinding"
    /\ task' = [task EXCEPT ![e] = "cancelled"]
    /\ \/ /\ status' = "cancelled"
          /\ IF cancelEmitted THEN UNCHANGED evq ELSE Put("cancelled", e)
          /\ cancelEmitted' = TRUE
       \/ /\ out[e] = 0
          /\ UNCHANGED <<status, evq, cancelEmitted>>
    /\ UNCHANGED <<current, out>>

(* A cancelled task that does not linger is gone before the next start.    *)
MayStart == Lingering \/ \A e \in Exchanges : task[e] # "unwinding"

(* The steps by which a task comes to its end.                             *)
Settle(e) ==
    \/ Finish(e)
    \/ Conclude(e)
    \/ Fail(e)
    \/ ReportFailure(e)
    \/ Ask(e)
    \/ ReportQuestion(e)
    \/ Unwind(e)

DrainEvents ==
    /\ evq' = <<>>
    /\ UNCHANGED <<status, current, cancelEmitted, task, out>>

RunnerNext ==
    \/ \E e \in Exchanges :
          \/ StartBackground(e)
          \/ \E type \in Output : Produce(e, type)
          \/ Settle(e)
    \/ Cancel
    \/ DrainEvents

RunnerSpec ==
    RunnerInit /\ [][RunnerNext]_runnerVars /\ [][UNCHANGED around]_around

-----------------------------------------------------------------------------

RunnerTypeOK ==
    /\ status \in {"idle", "streaming", "error", "cancelled"}
    /\ current \in Exchanges \cup {NoExchange}
    /\ cancelEmitted \in BOOLEAN
    /\ evq \in Seq(Event)
    /\ task \in [Exchanges -> TaskState]
    /\ out \in [Exchanges -> 0..MaxOut]

(* The session is never stuck "already streaming": whenever the runner     *)
(* refuses new messages because it streams, the task it started last is    *)
(* really at work and has not been told to stop, however late older tasks  *)
(* of the same runner write the shared status.                             *)
StreamingHasTask ==
    IsStreaming =>
        /\ current # NoExchange
        /\ task[current] \in {"running", "finalizing"}

=============================================================================
