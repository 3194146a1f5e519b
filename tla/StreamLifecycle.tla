--------------------------- MODULE StreamLifecycle ---------------------------
(***************************************************************************)
(* service/session_manager_service.py: how a message becomes a stream and  *)
(* how the stream's end gets back to the clients, for one session.         *)
(*                                                                         *)
(* Four kinds of coroutines share the state: calls of submit_message, the  *)
(* background tasks of the runner, the event pump, and the tasks that      *)
(* deliver queue notifications.  They run on one event loop, so a step is  *)
(* what a coroutine does between two awaits that really suspend.  The only *)
(* session observer the server registers never suspends; what does is      *)
(* session.save(), loading a watcher's session, and the pump's sleep.      *)
(***************************************************************************)
EXTENDS QueueState, SessionRunner, FiniteSets

CONSTANTS
    Anonymous       \* the context the pump makes for events without one

ASSUME LifecycleAssumption == Anonymous \notin Exchanges \cup {NoExchange}

VARIABLES
    submit,     \* where the submit_message call of each exchange stands
    carrier,    \* the exchange a queued message was submitted with
    lost,       \* history: drained messages whose submission was refused
    stream,     \* StreamState._streams: status by exchange
    ctx,        \* _streaming_contexts[session_id], or NoExchange
    content,    \* contexts whose ctx.content is not empty
    lastTurn,   \* what the newest turn says about an interruption
    killReason, \* _kill_switch_stops has an entry for the session
    alerts,     \* queue notifications of watcher messages not yet run
    pump,       \* where the pump stands
    batch,      \* events it has polled and not yet dispatched
    pumpCtx,    \* the context it dispatches them with
    pumpSubmit, \* the exchange whose submit_message the pump awaits
    notices,    \* history: terminal notifications sent for each exchange
    unsaved,    \* exchanges with text that is not part of a turn yet
    kept,       \* history: exchanges whose partial answer was persisted
    killed,     \* history: exchanges stopped by the kill switch
    blamed      \* history: exchanges reported as stopped by it

submitVars == <<submit, carrier, lost>>
pumpVars == <<pump, batch, pumpCtx, pumpSubmit>>
killVars == <<killReason, killed, blamed>>
historyVars == <<notices, unsaved, kept>>
serviceVars == <<stream, ctx, content, lastTurn, alerts>>

vars == <<around, queueVars, runnerVars, submitVars, pumpVars, killVars,
          historyVars, serviceVars>>

Contexts == Exchanges \cup {Anonymous}

(* Messages come in at any time (several clients, watchers); otherwise one  *)
(* client waits for the end of all it has sent before it submits directly.  *)
Overlapping == "overlapping" \in around

(* Other sessions watch this one.                                           *)
Watched == "watched" \in around

(* Clients pause, remove and drain what they have queued.                   *)
Editing == "editing" \in around

(* The pump serves other sessions as well.                                  *)
Crowded == "crowded" \in around

Active == {"streaming", "executing"}
Closed == {"completed", "error", "cancelled"}

Plain == [kind |-> "plain", of |-> NoExchange]

(* While the pump dispatches, no other coroutine runs; between polling and  *)
(* dispatching one does only when another session's turn comes in between.  *)
LoopFree ==
    /\ pump # "dispatching"
    /\ pump = "polled" => Crowded

Unsent == {e \in Exchanges : submit[e] = "free"}

-----------------------------------------------------------------------------
(* StreamState: update_stream on an id it does not know changes nothing,    *)
(* and no status is final.                                                  *)

UpdateStream(c, s) ==
    stream' = IF c \in Exchanges /\ stream[c] # "none"
              THEN [stream EXCEPT ![c] = s]
              ELSE stream

Notify(c, outcome) ==
    notices' = IF c \in Exchanges
               THEN [notices EXCEPT ![c] = Append(@, outcome)]
               ELSE notices

-----------------------------------------------------------------------------

LifecycleInit ==
    /\ submit = [e \in Exchanges |-> "free"]
    /\ carrier = [m \in Tickets |-> NoExchange]
    /\ lost = {}
    /\ stream = [e \in Exchanges |-> "none"]
    /\ ctx = NoExchange
    /\ content = {}
    /\ lastTurn = Plain
    /\ killReason = FALSE
    /\ alerts = 0
    /\ pump = "sleeping"
    /\ batch = <<>>
    /\ pumpCtx = NoExchange
    /\ pumpSubmit = NoExchange
    /\ notices = [e \in Exchanges |-> <<>>]
    /\ unsaved = {}
    /\ kept = {}
    /\ killed = {}
    /\ blamed = {}

Init == QueueInit /\ RunnerInit /\ LifecycleInit

-----------------------------------------------------------------------------
(* submit_message                                                           *)

(* Up to the await of session.save(): nothing is streaming; the user turn   *)
(* is appended under a fresh exchange id.                                   *)
Accept(e) ==
    /\ submit[e] = "free"
    /\ ~IsStreaming
    /\ submit' = [submit EXCEPT ![e] = "saving"]

(* What the client that does not overlap waits for.                         *)
AllAnswered ==
    /\ ~IsStreaming
    /\ alerts = 0
    /\ \A e \in Exchanges :
          /\ submit[e] # "saving"
          /\ submit[e] = "started" => notices[e] # <<>>

SubmitDirect(e) ==
    /\ Overlapping \/ AllAnswered
    /\ Accept(e)
    /\ lastTurn' = Plain
    /\ UNCHANGED <<queueVars, runnerVars, carrier, lost, pumpVars, killVars,
                   historyVars, stream, ctx, content, alerts>>

(* After the await: the stream and the context are registered, then         *)
(* start_background is called, which raises if the runner streams by now.   *)
Launch(e) ==
    /\ submit[e] = "saving"
    /\ stream' = [stream EXCEPT ![e] = "streaming"]
    /\ ctx' = e
    /\ content' = content \ {e}
    /\ \/ /\ MayStart
          /\ StartBackground(e)
          /\ submit' = [submit EXCEPT ![e] = "started"]
       \/ /\ IsStreaming
          /\ submit' = [submit EXCEPT ![e] = "refused"]
          /\ UNCHANGED runnerVars
    /\ UNCHANGED <<queueVars, carrier, lost, lastTurn, alerts, killVars,
                   historyVars>>

LaunchSubmitted(e) ==
    /\ e # pumpSubmit
    /\ Launch(e)
    /\ UNCHANGED pumpVars

(* _process_queued_messages: drains, then submits the drained messages as   *)
(* one.  The messages are gone when submit_message refuses them.            *)
SubmitDrained(e) ==
    /\ Drain
    /\ Accept(e)
    /\ carrier' = [m \in Tickets |-> IF m \in DrainedIds THEN e ELSE carrier[m]]
    /\ UNCHANGED lost

LoseDrained ==
    /\ Drain
    /\ IsStreaming
    /\ lost' = lost \cup DrainedIds
    /\ UNCHANGED <<submit, carrier>>

-----------------------------------------------------------------------------
(* Messages that are queued, and the clients' operations on the queue       *)

EnqueueFromWatcher ==
    /\ Overlapping
    /\ AddMessage
    /\ alerts' = alerts + 1
    /\ UNCHANGED <<runnerVars, submitVars, pumpVars, killVars, historyVars,
                   stream, ctx, content, lastTurn>>

(* submit_message(queue=True) while streaming, QueueStateService.*          *)
EditQueue ==
    /\ \/ AddMessage
       \/ Editing /\ (RemoveMessage \/ TogglePause \/ Clear \/ Drain)
    /\ UNCHANGED <<runnerVars, submitVars, pumpVars, killVars, historyVars,
                   serviceVars>>

(* _on_queue_event: the notification of a watcher's message runs as a task  *)
(* of its own.                                                              *)
DeliverAlert ==
    /\ alerts > 0
    /\ alerts' = alerts - 1
    /\ \/ /\ ~IsStreaming
          /\ \E e \in Unsent : SubmitDrained(e)
          /\ lastTurn' = Plain
       \/ /\ IsStreaming \/ ~HasSendable \/ Unsent = {}
          /\ UNCHANGED <<queueVars, submitVars, lastTurn>>
    /\ UNCHANGED <<runnerVars, pumpVars, killVars, historyVars, stream, ctx,
                   content>>

-----------------------------------------------------------------------------
(* The stream itself                                                        *)

(* The turns of a tool, and of the text before it, are appended to the      *)
(* session; so is a text turn where reasoning and answer meet.  After a     *)
(* tool's result the backend asks for queued messages and injects them.     *)
Stream(e) ==
    /\ \E type \in Output :
          /\ Produce(e, type)
          /\ unsaved' = CASE type = "text" -> unsaved \cup {e}
                         [] type = "tool_use_start" -> unsaved \ {e}
                         [] OTHER -> unsaved
          /\ \/ type # "result" /\ lastTurn' = Plain
             \/ type \in {"text", "result"} /\ UNCHANGED lastTurn
          /\ IF type = "tool_result" /\ HasSendable
             THEN Drain
             ELSE UNCHANGED queueVars
    /\ UNCHANGED <<submitVars, pumpVars, killVars, notices, kept, stream, ctx,
                   content, alerts>>

(* The buffered text becomes the last turn when the stream is finalized; a  *)
(* failure appends an error turn and leaves the text in the buffer.         *)
EndStream(e) ==
    /\ Settle(e)
    /\ IF task'[e] \in {"finalizing", "asking"}
       THEN /\ unsaved' = unsaved \ {e}
            /\ lastTurn' \in IF e \in unsaved THEN {Plain} ELSE {Plain, lastTurn}
       ELSE /\ UNCHANGED unsaved
            /\ lastTurn' = IF task'[e] \in {"failing", "limited"}
                           THEN Plain ELSE lastTurn
    /\ UNCHANGED <<queueVars, submitVars, pumpVars, killVars, notices, kept,
                   stream, ctx, content, alerts>>

-----------------------------------------------------------------------------
(* cancel_streaming and the kill switch: the runner is cancelled and the    *)
(* stream is marked inactive; the context stays for the events still        *)
(* queued.                                                                  *)

CancelInternal ==
    /\ Cancel
    /\ UpdateStream(ctx, "cancelled")

(* Mutant of CancelStreaming: takes the context away at once.               *)
CancelStreaming_PopsContext ==
    /\ CancelInternal
    /\ ctx' = NoExchange
    /\ UNCHANGED <<queueVars, submitVars, pumpVars, killVars, historyVars,
                   content, lastTurn, alerts>>

CancelStreaming ==
    /\ CancelInternal
    /\ UNCHANGED <<queueVars, submitVars, pumpVars, killVars, historyVars,
                   ctx, content, lastTurn, alerts>>

-----------------------------------------------------------------------------
(* The event pump                                                           *)

(* Mutant of Poll: only streaming sessions are polled.                      *)
Poll_StreamingOnly ==
    /\ pump = "sleeping"
    /\ IsStreaming
    /\ evq # <<>>
    /\ DrainEvents
    /\ batch' = evq
    /\ pump' = "polled"
    /\ UNCHANGED <<queueVars, submitVars, pumpCtx, pumpSubmit, killVars,
                   historyVars, serviceVars>>

(* poll_all drains the runner's queue, before any session is dispatched.    *)
Poll ==
    /\ pump = "sleeping"
    /\ evq # <<>>
    /\ DrainEvents
    /\ batch' = evq
    /\ pump' = "polled"
    /\ UNCHANGED <<queueVars, submitVars, pumpCtx, pumpSubmit, killVars,
                   historyVars, serviceVars>>

(* The session's turn in the round; events without a context get an         *)
(* anonymous one.                                                           *)
BeginDispatch ==
    /\ pump = "polled"
    /\ pump' = "dispatching"
    /\ ctx' = IF ctx = NoExchange THEN Anonymous ELSE ctx
    /\ pumpCtx' = ctx'
    /\ content' = IF ctx = NoExchange THEN content \ {Anonymous} ELSE content
    /\ UNCHANGED <<queueVars, runnerVars, submitVars, batch, pumpSubmit,
                   killVars, historyVars, stream, lastTurn, alerts>>

(* A handler that raised for a session served earlier ended the round.      *)
LoseRound ==
    /\ pump = "polled"
    /\ Crowded /\ (Overlapping \/ Watched)
    /\ batch' = <<>>
    /\ pump' = "sleeping"
    /\ UNCHANGED <<queueVars, runnerVars, submitVars, pumpCtx, pumpSubmit,
                   killVars, historyVars, serviceVars>>

(* On to the next event of the batch, or to sleep.                          *)
Proceed(rest) ==
    /\ batch' = rest
    /\ pump' = IF rest = <<>> THEN "sleeping" ELSE "dispatching"
    /\ pumpSubmit' = NoExchange

(* An exception in a handler ends the round: the rest of the batch is lost. *)
Abort ==
    /\ batch' = <<>>
    /\ pump' = "sleeping"
    /\ pumpSubmit' = NoExchange

(* _process_queued_messages as the last call of a handler; turn is what the *)
(* session's newest turn is until then.                                     *)
ProcessQueued(rest, turn) ==
    \/ /\ ~HasSendable \/ (Unsent = {} /\ ~IsStreaming)
       /\ Proceed(rest)
       /\ lastTurn' = turn
       /\ UNCHANGED <<queueVars, submitVars>>
    \/ \E e \in Unsent :
          /\ SubmitDrained(e)
          /\ lastTurn' = Plain
          /\ batch' = rest
          /\ pump' = "submitting"
          /\ pumpSubmit' = e
    \/ /\ LoseDrained
       /\ lastTurn' = turn
       /\ Abort

(* The watchers are told first, which awaits when one is not loaded.        *)
TellWatchers(rest) ==
    IF Watched
    THEN /\ batch' = rest
         /\ pump' = "telling"
         /\ UNCHANGED <<queueVars, submitVars, pumpSubmit, lastTurn>>
    ELSE ProcessQueued(rest, lastTurn)

(* Text that was flushed under a turn id announced with the flush is reset  *)
(* from the context, other text is not.                                     *)
AfterFlush(c) == {content, content \ {c}}

(* A delta, the turn it may open, or a flush that ends it.                  *)
DispatchText ==
    /\ content' = content \cup {pumpCtx}
    /\ UNCHANGED stream

DispatchToolUse ==
    /\ UpdateStream(pumpCtx, "executing")
    /\ content' \in AfterFlush(pumpCtx)

DispatchToolResult ==
    /\ UpdateStream(pumpCtx, "streaming")
    /\ UNCHANGED content

(* Token counts of the backend; the handler of "result" while the limit is  *)
(* not reached.                                                             *)
DispatchUsage == UNCHANGED <<stream, content>>

DispatchOutput(type) ==
    /\ \/ type = "text" /\ DispatchText
       \/ type = "tool_use_start" /\ DispatchToolUse
       \/ type = "tool_result" /\ DispatchToolResult
       \/ type = "result" /\ DispatchUsage
    /\ Proceed(Tail(batch))
    /\ UNCHANGED <<runnerVars, killVars, queueVars, submitVars, historyVars,
                   ctx, lastTurn>>

(* The handler of "result" when the session's tokens exceed the limit.      *)
DispatchKill ==
    /\ CancelInternal
    /\ killReason' = TRUE
    /\ killed' = killed \cup {current}
    /\ Proceed(Tail(batch))
    /\ UNCHANGED <<blamed, queueVars, submitVars, historyVars, ctx, content,
                   lastTurn>>

DispatchDone ==
    /\ killReason' = FALSE
    /\ blamed' = IF killReason THEN blamed \cup {pumpCtx} ELSE blamed
    /\ Notify(pumpCtx, "done")
    /\ UpdateStream(pumpCtx, "completed")
    /\ ctx' = NoExchange
    /\ content' \in AfterFlush(pumpCtx)
    /\ TellWatchers(Tail(batch))
    /\ UNCHANGED <<runnerVars, killed, unsaved, kept>>

(* Only "error" drops the kill switch's reason; neither of the two submits  *)
(* what is queued.                                                          *)
DispatchFailure(type) ==
    /\ killReason' = (killReason /\ type = "rate_limit")
    /\ Notify(pumpCtx, "error")
    /\ UpdateStream(pumpCtx, "error")
    /\ ctx' = NoExchange
    /\ Proceed(Tail(batch))
    /\ UNCHANGED <<runnerVars, killed, blamed, unsaved, kept, content,
                   queueVars, submitVars, lastTurn>>

DispatchQuestion ==
    /\ Notify(pumpCtx, "done")
    /\ UpdateStream(pumpCtx, "completed")
    /\ ctx' = NoExchange
    /\ TellWatchers(Tail(batch))
    /\ UNCHANGED <<runnerVars, killVars, unsaved, kept, content>>

(* _cancellation_already_recorded.                                          *)
AlreadyRecorded(c) ==
    \/ c \in Exchanges /\ lastTurn.of = c
    \/ c = Anonymous /\ lastTurn.kind = "marker"

(* _flush_partial_as_interrupted: the partial answer becomes a new turn, or *)
(* goes onto the turn the runner had already appended; with nothing to      *)
(* flush a marker is appended.                                              *)
InterruptionTurns(c) ==
    IF c \in content
    THEN {lastTurn, [kind |-> "partial", of |-> c]}
    ELSE {[kind |-> "marker", of |-> c]}

(* Mutant of DispatchCancelled: trusts the stream to be marked already.     *)
DispatchCancelled_Marked ==
    IF AlreadyRecorded(pumpCtx) \/ IsStreaming
    THEN /\ Proceed(Tail(batch))
         /\ UNCHANGED <<runnerVars, queueVars, submitVars, killVars,
                        historyVars, stream, ctx, content, lastTurn>>
    ELSE /\ Notify(pumpCtx, "cancelled")
         /\ content' = content \ {pumpCtx}
         /\ kept' = kept \cup (content \cap {pumpCtx})
         /\ ctx' = IF ctx = pumpCtx THEN NoExchange ELSE ctx
         /\ \E turn \in InterruptionTurns(pumpCtx) :
                ProcessQueued(Tail(batch), turn)
         /\ UNCHANGED <<runnerVars, killVars, unsaved, stream>>

DispatchCancelled ==
    IF AlreadyRecorded(pumpCtx) \/ IsStreaming
    THEN /\ Proceed(Tail(batch))
         /\ UNCHANGED <<runnerVars, queueVars, submitVars, killVars,
                        historyVars, stream, ctx, content, lastTurn>>
    ELSE /\ Notify(pumpCtx, "cancelled")
         /\ UpdateStream(pumpCtx, "cancelled")
         /\ content' = content \ {pumpCtx}
         /\ kept' = kept \cup (content \cap {pumpCtx})
         /\ ctx' = IF ctx = pumpCtx THEN NoExchange ELSE ctx
         /\ \E turn \in InterruptionTurns(pumpCtx) :
                ProcessQueued(Tail(batch), turn)
         /\ UNCHANGED <<runnerVars, killVars, unsaved>>

Dispatch ==
    /\ pump = "dispatching"
    /\ LET type == Head(batch).type IN
          \/ DispatchOutput(type)
          \/ type = "result" /\ DispatchKill
          \/ type = "done" /\ DispatchDone
          \/ type \in {"error", "rate_limit"} /\ DispatchFailure(type)
          \/ type = "input_required" /\ DispatchQuestion
          \/ type = "cancelled" /\ DispatchCancelled
    /\ UNCHANGED <<pumpCtx, alerts>>

(* The watchers have been told: the handler goes on with the queue.         *)
WatchersTold ==
    /\ pump = "telling"
    /\ ProcessQueued(batch, lastTurn)
    /\ UNCHANGED <<runnerVars, killVars, historyVars, stream, ctx, content,
                   alerts, pumpCtx>>

(* The submission the pump awaits goes on; a refusal propagates to the      *)
(* pump loop.                                                               *)
LaunchPumped(e) ==
    /\ pump = "submitting"
    /\ e = pumpSubmit
    /\ Launch(e)
    /\ IF submit'[e] = "started" THEN Proceed(batch) ELSE Abort
    /\ UNCHANGED pumpCtx

PumpStep == Poll \/ BeginDispatch \/ Dispatch \/ WatchersTold

-----------------------------------------------------------------------------

Step ==
    \/ PumpStep
    \/ LoseRound
    \/ /\ LoopFree
       /\ \/ \E e \in Exchanges :
                \/ SubmitDirect(e)
                \/ LaunchSubmitted(e)
                \/ LaunchPumped(e)
                \/ Stream(e)
                \/ EndStream(e)
          \/ EnqueueFromWatcher
          \/ EditQueue
          \/ DeliverAlert
          \/ CancelStreaming

Steady == UNCHANGED around

Next == Step /\ Steady

(* Every coroutine that can run is run; saves return; a backend's stream    *)
(* ends or times out.  Nobody has to type, cancel or edit the queue.        *)
Fairness ==
    /\ WF_vars(PumpStep /\ Steady)
    /\ WF_vars(LoopFree /\ DeliverAlert /\ Steady)
    /\ \A e \in Exchanges :
          /\ WF_vars(LoopFree /\ (LaunchSubmitted(e) \/ LaunchPumped(e)) /\ Steady)
          /\ WF_vars(LoopFree /\ EndStream(e) /\ Steady)

Spec == Init /\ [][Next]_vars
FairSpec == Spec /\ Fairness

-----------------------------------------------------------------------------
(* Properties that hold whatever the constants are.                         *)

LifecycleTypeOK ==
    /\ submit \in [Exchanges -> {"free", "saving", "started", "refused"}]
    /\ carrier \in [Tickets -> Exchanges \cup {NoExchange}]
    /\ lost \subseteq Tickets
    /\ stream \in [Exchanges -> {"none"} \cup Active \cup Closed]
    /\ ctx \in Contexts \cup {NoExchange}
    /\ content \subseteq Contexts
    /\ lastTurn \in [kind : {"plain", "partial", "marker"},
                     of : Contexts \cup {NoExchange}]
    /\ killReason \in BOOLEAN
    /\ alerts \in 0..arrived
    /\ pump \in {"sleeping", "polled", "dispatching", "telling", "submitting"}
    /\ batch \in Seq(Event)
    /\ pumpCtx \in Contexts \cup {NoExchange}
    /\ pumpSubmit \in Exchanges \cup {NoExchange}
    /\ notices \in [Exchanges -> Seq({"done", "error", "cancelled"})]
    /\ unsaved \subseteq Exchanges
    /\ kept \subseteq Contexts
    /\ killed \subseteq Exchanges
    /\ blamed \subseteq Contexts

TypeOK == QueueTypeOK /\ RunnerTypeOK /\ LifecycleTypeOK

(* A session does not stay busy: the runner leaves the streaming state      *)
(* again, whoever submits, cancels, watches or queues meanwhile.            *)
BusyEnds == IsStreaming ~> ~IsStreaming

-----------------------------------------------------------------------------
(* How the stream of an exchange ends, once that is decided.                *)
Fate(e) ==
    CASE task[e] \in {"none", "running", "finalizing"} -> "undecided"
      [] task[e] \in {"done", "asking", "input_required"} -> "done"
      [] task[e] \in {"failing", "limited", "error", "rate_limit"} -> "error"
      [] task[e] \in {"unwinding", "cancelled"} -> "cancelled"

-----------------------------------------------------------------------------
(* Properties of a session with one client that waits for the answer, whose *)
(* cancelled tasks are gone by then, and that nobody watches.  While         *)
(* watchers are told of an end, the client may submit beside the pump; two   *)
(* streams can then be at work at once.                                      *)

Waits == ~Overlapping /\ ~Lingering /\ ~Watched

(* A stream that still runs is the one the runner knows: no stream goes on  *)
(* behind the back of the session, where it could not be cancelled.         *)
NoStrayTask ==
    Waits =>
        \A e \in Exchanges :
            task[e] \in {"running", "finalizing"} => e = current /\ IsStreaming

(* Every event is dispatched with the context of the exchange whose stream  *)
(* put it, so that text and ends are not credited to another exchange.      *)
EventsMeetTheirContext ==
    Waits /\ pump = "dispatching" =>
        \A i \in 1..Len(batch) : batch[i].of = pumpCtx

(* What is typed while a stream runs is not lost when it is drained: no     *)
(* submission of drained messages is refused, and none breaks off after the *)
(* user turn has been saved.                                                *)
NothingLost ==
    Waits =>
        /\ lost = {}
        /\ \A e \in Exchanges : submit[e] # "refused"

(* An answer that was cut short is kept: once the pump has dispatched what  *)
(* a cancelled stream had put, the text that was streamed is either a turn  *)
(* of the session already or has been persisted as an interrupted one.      *)
PartialKept ==
    Waits /\ pump = "sleeping" /\ evq = <<>> =>
        \A e \in unsaved : Fate(e) = "cancelled" => e \in kept

(* What StreamState says of a stream agrees with what the client was told   *)
(* of its end.                                                              *)
StreamMatchesNotice ==
    Waits => \A e \in Exchanges : notices[e] # <<>> =>
        stream[e] = CASE notices[e][1] = "done" -> "completed"
                      [] notices[e][1] = "error" -> "error"
                      [] notices[e][1] = "cancelled" -> "cancelled"

(* The protocol, seen through what this module keeps for it.  It is what a  *)
(* client that waits may rely on; of others it sees nothing.                *)
Protocol == INSTANCE ExchangeProtocol WITH
    opened <- {e \in Exchanges : Waits /\ stream[e] # "none"},
    fate <- [e \in Exchanges |-> IF Waits THEN Fate(e) ELSE "undecided"],
    answer <- [e \in Exchanges |-> IF Waits THEN notices[e] ELSE <<>>]

-----------------------------------------------------------------------------
(* What comments and docstrings of the code say of it.                      *)

(* _kill_switch_stops is for "the current stream": only a stream the switch *)
(* has stopped is reported as stopped by it.                                *)
OnlyKilledBlamed == blamed \subseteq killed

(* Cancelling marks the stream inactive at once, whatever becomes of the    *)
(* events that are still queued.                                            *)
CancelledIsInactive ==
    \A e \in Exchanges :
        task[e] \in {"unwinding", "cancelled"} => stream[e] \notin Active

(* The messages drained at the end of a stream are submitted.               *)
DrainedAreSent == lost = {}

(* A terminal event waits in the runner's queue until the pump polls it.    *)
EndsArePolled ==
    [][\A i \in 1..Len(evq) :
          evq[i].type \in Final /\ evq' = <<>> => batch' = evq]_vars

(* A message queued while a stream runs is sent when the stream is over.    *)
QueuedIsSent ==
    IsStreaming /\ HasSendable ~> (~HasSendable \/ Unsent = {})

(* submit_message raises before it has changed anything.                    *)
RefusedUpFront == \A e \in Exchanges : submit[e] # "refused"

-----------------------------------------------------------------------------
(* The machinery of runner, pump and contexts implements the protocol: one  *)
(* exchange at a time, each with one end, which the client is told once.    *)
ImplementsProtocol == Protocol!Spec

=============================================================================
