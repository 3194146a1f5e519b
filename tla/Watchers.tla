------------------------------ MODULE Watchers ------------------------------
(***************************************************************************)
(* Watcher mode of service/session_manager_service.py and                  *)
(* core/watcher_tools.py: what happens when a watched session completes an *)
(* exchange.  A helper per watcher summarises the exchange in the          *)
(* background; the pump puts the summary into the watcher, which then       *)
(* answers it, and may send its target a message.                          *)
(*                                                                         *)
(* One target and its watchers.  An exchange has the id the service gave   *)
(* its prompt and the id the runner gave its answers.  Sessions are in     *)
(* memory; SessionFamily has the loading, StreamLifecycle the streams.     *)
(***************************************************************************)
EXTENDS Integers, Sequences, SequencesExt, FiniteSets

CONSTANTS
    Watchers,       \* sessions that can watch the target
    MaxExchanges,   \* bound: exchanges of the target
    MaxAsked,       \* bound: what users ask a watcher
    MaxAlerts,      \* bound: messages to the target
    Hows            \* each a set of the names below, one per behaviour

(* Users talk to watchers themselves; watching is stopped; helpers and      *)
(* streams fail; the server restarts; watchers are deleted; the target goes  *)
(* on before the helpers of its last exchange are done.                      *)
HowNames == {"users", "stop", "fail", "restart", "delete", "hurry"}

ASSUME WatchersAssumption ==
    /\ MaxExchanges \in Nat /\ MaxAsked \in Nat /\ MaxAlerts \in Nat
    /\ Hows \subseteq SUBSET HowNames

VARIABLES
    how,        \* what happens in this behaviour
    gone,       \* the watchers whose sessions were deleted
    target,     \* the target's turns
    talking,    \* its runner streams
    queued,     \* QueueState: messages for the target
    kept,       \* message_queue in the target's record on disk
    watching,   \* the watchers that are registered
    helpers,    \* summaries under way
    log,        \* the turns of each watcher, up to its deletion
    busy,       \* the watchers whose runner streams
    parked,     \* message_queue of each watcher
    injecting,  \* where _inject_watch_summary stands: the pump awaits it
    alerting    \* the messages send_to_target has saved but not queued

targetVars == <<target, talking>>
queues == <<queued, kept, alerting>>
watcherVars == <<log, busy, parked>>
watchVars == <<how, gone, targetVars, queues, watching, helpers, watcherVars, injecting>>

None == [stage |-> "none"]
Pumping == injecting = None

-----------------------------------------------------------------------------
(* The target                                                               *)

(* Exchange k: the prompt has one id, the runner's turns another.           *)
PromptId(k) == 2 * k - 1
AnswerId(k) == 2 * k
Says(id, who) == [id |-> id, who |-> who]

Begun == Cardinality({i \in DOMAIN target : target[i].who = "user"})

(* The place of an id among the distinct ids, in the order they first       *)
(* appear.                                                                  *)
FirstOf(id) ==
    CHOOSE i \in DOMAIN target :
        target[i].id = id /\ \A j \in 1..(i - 1) : target[j].id # id
IndexOfId(id) == Cardinality({target[i].id : i \in 1..FirstOf(id)})

WatchInit ==
    /\ how \in Hows /\ gone = {}
    /\ target = <<>> /\ talking = FALSE
    /\ queued = <<>> /\ kept = {} /\ alerting = {}
    /\ watching = {} /\ helpers = {}
    /\ log = [w \in Watchers |-> <<>>]
    /\ busy = {} /\ parked = [w \in Watchers |-> <<>>]
    /\ injecting = None

BeginExchange ==
    /\ talking' = TRUE
    /\ target' = Append(target, Says(PromptId(Begun + 1), "user"))

(* submit_message                                                           *)
AskTarget ==
    /\ ~talking /\ Begun < MaxExchanges
    /\ "hurry" \in how \/ (helpers = {} /\ Pumping)
    /\ BeginExchange
    /\ UNCHANGED <<how, gone, queues, watching, helpers, watcherVars, injecting>>

AnswerTarget ==
    /\ talking
    /\ \A i \in DOMAIN target : target[i].id # AnswerId(Begun)
    /\ target' = Append(target, Says(AnswerId(Begun), "assistant"))
    /\ UNCHANGED <<how, gone, talking, queues, watching, helpers, watcherVars, injecting>>

(* _format_exchange_for_summary, _build_watcher_context and                 *)
(* _build_watcher_summary_prompt: the turns that bear the exchange's id,    *)
(* and what the watcher's own turns say at this time.                       *)
Summary(w, id) ==
    [watcher |-> w, index |-> IndexOfId(id),
     tells |-> {t.who : t \in {u \in ToSet(target) : u.id = id}},
     knows |-> Len(log[w]), done |-> FALSE]

(* Mutant of Notify: the helper is started for one watcher only.            *)
Notify_First(id) ==
    helpers' = IF watching \ gone = {} THEN helpers
               ELSE helpers \cup {Summary(CHOOSE w \in watching \ gone : TRUE, id)}

(* _notify_watchers_of_exchange, _start_watcher_summary_generation: a       *)
(* watcher that is deleted stays registered, and is not found.              *)
Notify(id) == helpers' = helpers \cup {Summary(w, id) : w \in watching \ gone}

(* "done", handled by the pump: the watchers hear of it, then the queue is  *)
(* sent as the next prompt.                                                 *)
CompleteTarget ==
    /\ talking /\ Pumping
    /\ Last(target).who = "assistant"
    /\ Notify(PromptId(Begun))
    /\ IF queued # <<>> /\ Begun < MaxExchanges
       THEN BeginExchange /\ queued' = <<>>
       ELSE talking' = FALSE /\ UNCHANGED <<target, queued>>
    /\ UNCHANGED <<how, gone, kept, alerting, watching, watcherVars, injecting>>

(* An exchange that fails or is cancelled concerns no watcher.              *)
FailTarget ==
    /\ "fail" \in how /\ talking /\ Pumping
    /\ talking' = FALSE
    /\ UNCHANGED <<how, gone, target, queues, watching, helpers, watcherVars, injecting>>

-----------------------------------------------------------------------------
(* The watchers                                                             *)

LogEntry(kind, index) == [kind |-> kind, index |-> index]
Logs(w, kind, index) == [log EXCEPT ![w] = Append(@, LogEntry(kind, index))]
Has(w, kind) == \E i \in DOMAIN log[w] : log[w][i].kind = kind

(* create_watcher_session, or start_watching_session of a session that is   *)
(* there.                                                                   *)
StartWatching(w) ==
    /\ ~Has(w, "start")
    /\ watching' = watching \cup {w}
    /\ log' = Logs(w, "start", 0)
    /\ UNCHANGED <<how, gone, targetVars, queues, helpers, busy, parked, injecting>>

(* stop_watching_session: the turn is there, its save raises.               *)
StopWatching(w) ==
    /\ "stop" \in how /\ w \notin gone
    /\ Has(w, "start") /\ ~Has(w, "stop")
    /\ log' = Logs(w, "stop", 0)
    /\ UNCHANGED <<how, gone, targetVars, queues, watching, helpers, busy, parked, injecting>>

(* delete_session: out of memory with its runner, whose stream is           *)
(* cancelled, and off the disk.  SessionFamily has what overlaps with it.   *)
DeleteWatcher(w) ==
    /\ "delete" \in how /\ Has(w, "start") /\ w \notin gone
    /\ gone' = gone \cup {w}
    /\ busy' = busy \ {w}
    /\ UNCHANGED <<how, targetVars, queues, watching, helpers, log, parked, injecting>>

(* The helper's stream ends.                                                *)
HelperEnds(h) ==
    /\ h \in helpers /\ ~h.done
    /\ helpers' = (helpers \ {h}) \cup {[h EXCEPT !.done = TRUE]}
    /\ UNCHANGED <<how, gone, targetVars, queues, watching, watcherVars, injecting>>

HelperBreaks(h) ==
    /\ "fail" \in how /\ h \in helpers /\ ~h.done
    /\ helpers' = helpers \ {h}
    /\ UNCHANGED <<how, gone, targetVars, queues, watching, watcherVars, injecting>>

(* Mutant of Inject: the helper stays registered.                           *)
Inject_Again(h) ==
    /\ h \in helpers /\ h.done /\ Pumping /\ Len(log[h.watcher]) < 5
    /\ log' = Logs(h.watcher, "summary", h.index)
    /\ injecting' = IF h.watcher \in gone \/ Has(h.watcher, "stop") THEN None
                    ELSE [stage |-> "saved", watcher |-> h.watcher, index |-> h.index]
    /\ UNCHANGED <<how, gone, targetVars, queues, watching, helpers, busy, parked>>

(* Mutant of Inject: the watcher is asked, the summary is not in its log.   *)
Inject_NotStored(h) ==
    /\ h \in helpers /\ h.done /\ Pumping
    /\ helpers' = helpers \ {h}
    /\ injecting' = IF h.watcher \in gone \/ Has(h.watcher, "stop") THEN None
                    ELSE [stage |-> "saved", watcher |-> h.watcher, index |-> h.index]
    /\ UNCHANGED <<how, gone, targetVars, queues, watching, log, busy, parked>>

(* _dispatch_helper_event, _inject_watch_summary up to the save.  A watcher *)
(* that is deleted is not found.  One that was told to stop takes the       *)
(* summary, but cannot be saved, and the exception ends the injection.      *)
Inject(h) ==
    /\ h \in helpers /\ h.done /\ Pumping
    /\ helpers' = helpers \ {h}
    /\ log' = IF h.watcher \in gone THEN log ELSE Logs(h.watcher, "summary", h.index)
    /\ injecting' = IF h.watcher \in gone \/ Has(h.watcher, "stop") THEN None
                    ELSE [stage |-> "saved", watcher |-> h.watcher, index |-> h.index]
    /\ UNCHANGED <<how, gone, targetVars, queues, watching, busy, parked>>

(* _trigger_watcher_response: a watcher deleted during the save has no      *)
(* runner, one that streams gets the prompt into its session's              *)
(* message_queue, any other has it submitted.                               *)
Trigger ==
    /\ injecting.stage = "saved"
    /\ LET w == injecting.watcher
       IN  \/ w \in gone /\ UNCHANGED watcherVars
           \/ /\ w \in busy
              /\ parked' = [parked EXCEPT ![w] = Append(@, injecting.index)]
              /\ UNCHANGED <<log, busy>>
           \/ /\ w \notin busy \cup gone
              /\ busy' = busy \cup {w}
              /\ log' = Logs(w, "prompt", injecting.index)
              /\ UNCHANGED parked
    /\ injecting' = None
    /\ UNCHANGED <<how, gone, targetVars, queues, watching, helpers>>

(* A user talks to the watcher.                                             *)
AskWatcher(w) ==
    /\ "users" \in how /\ Has(w, "start") /\ ~Has(w, "stop")
    /\ w \notin busy \cup gone
    /\ Cardinality({i \in DOMAIN log[w] : log[w][i] = LogEntry("prompt", 0)}) < MaxAsked
    /\ busy' = busy \cup {w}
    /\ log' = Logs(w, "prompt", 0)
    /\ UNCHANGED <<how, gone, targetVars, queues, watching, helpers, parked, injecting>>

(* The watcher's answer, and the end of its stream.                         *)
WatcherDone(w) ==
    /\ w \in busy /\ Pumping
    /\ busy' = busy \ {w}
    /\ log' = IF Has(w, "stop") THEN log ELSE Logs(w, "answer", 0)
    /\ UNCHANGED <<how, gone, targetVars, queues, watching, helpers, parked, injecting>>

-----------------------------------------------------------------------------
(* Messages to the target                                                   *)

(* send_to_target: the message is saved in the target's record ...          *)
SendToTarget(w) ==
    /\ w \in busy /\ Has(w, "start") /\ ~Has(w, "stop")
    /\ Cardinality(kept) < MaxAlerts
    /\ kept' = kept \cup {Cardinality(kept) + 1}
    /\ alerting' = alerting \cup {Cardinality(kept) + 1}
    /\ UNCHANGED <<how, gone, targetVars, queued, watching, helpers, watcherVars, injecting>>

(* ... and put into QueueState; an idle target takes it at once.            *)
QueueForTarget(m) ==
    /\ m \in alerting
    /\ alerting' = alerting \ {m}
    /\ IF talking \/ Begun >= MaxExchanges
       THEN queued' = Append(queued, m) /\ UNCHANGED targetVars
       ELSE BeginExchange /\ UNCHANGED queued
    /\ UNCHANGED <<how, gone, kept, watching, helpers, watcherVars, injecting>>

(* What was saved of a watcher: a session that was told to stop cannot be.  *)
StopOf(w) == CHOOSE i \in DOMAIN log[w] : log[w][i].kind = "stop"
Saved(w) == IF Has(w, "stop") THEN SubSeq(log[w], 1, StopOf(w) - 1) ELSE log[w]

(* Memory is gone.  The sessions are what was saved: nothing of a watcher   *)
(* from its stop on.  Nobody reads the message queues on disk.              *)
WatchRestart ==
    /\ "restart" \in how
    /\ how' = (how \ {"restart"}) \cup {"restarted"}
    /\ talking' = FALSE /\ busy' = {}
    /\ queued' = <<>> /\ alerting' = {}
    /\ helpers' = {} /\ injecting' = None
    /\ log' = [w \in Watchers |-> Saved(w)]
    /\ UNCHANGED <<gone, target, kept, watching, parked>>

Proceed ==
    \/ AnswerTarget \/ CompleteTarget \/ Trigger
    \/ \E h \in helpers : HelperEnds(h) \/ Inject(h)
    \/ \E w \in Watchers : WatcherDone(w)
    \/ \E m \in alerting : QueueForTarget(m)

WatchNext ==
    \/ Proceed
    \/ AskTarget \/ FailTarget \/ WatchRestart
    \/ \E h \in helpers : HelperBreaks(h)
    \/ \E w \in Watchers :
           StartWatching(w) \/ StopWatching(w) \/ DeleteWatcher(w)
               \/ AskWatcher(w) \/ SendToTarget(w)

(* The loop runs the pump, the helpers and the tools; models answer.        *)
WatchFair == WF_watchVars(Proceed)
WatchSpec == WatchInit /\ [][WatchNext]_watchVars /\ WatchFair

-----------------------------------------------------------------------------
(* Properties                                                               *)

Count(w, kind, index) ==
    Cardinality({i \in DOMAIN log[w] : log[w][i] = LogEntry(kind, index)})

WatchTypeOK ==
    /\ talking \in BOOLEAN
    /\ watching \subseteq Watchers /\ busy \subseteq Watchers \ gone
    /\ \A h \in helpers : h.watcher \in Watchers /\ h.index \in 1..(2 * MaxExchanges)
    /\ \A w \in Watchers : \A i \in DOMAIN log[w] :
           log[w][i].kind \in {"start", "stop", "summary", "prompt", "answer"}

(* However helpers, users and restarts fall between, a watcher is told of   *)
(* an exchange once at most, and asked about it once at most.               *)
ToldOnce ==
    \A w \in Watchers : \A i \in 1..(2 * MaxExchanges) :
        Count(w, "summary", i) <= 1 /\ Count(w, "prompt", i) <= 1

(* A watcher is never asked about an exchange before its session holds the  *)
(* summary.                                                                 *)
AskedAfterTold ==
    \A w \in Watchers : \A i \in DOMAIN log[w] :
        log[w][i].kind = "prompt" /\ log[w][i].index # 0 =>
            \E j \in 1..(i - 1) : log[w][j] = LogEntry("summary", log[w][i].index)

(* Each exchange reaches a watcher once at most, the summary before the      *)
(* question about it.                                                        *)
ToldThenAsked == ToldOnce /\ AskedAfterTold

(* Nothing is put to a watcher while it answers something else.             *)
OneStream ==
    \A w \in Watchers \ gone : ~Has(w, "stop") /\ "restarted" \notin how =>
        LET Entries(kind) == {i \in DOMAIN log[w] : log[w][i].kind = kind}
        IN  Cardinality(Entries("prompt"))
              = Cardinality(Entries("answer")) + (IF w \in busy THEN 1 ELSE 0)

(* An exchange that began while it is watched reaches every watcher, those  *)
(* that were told to stop included, unless it is deleted, the server stops   *)
(* or a stream fails.                                                       *)
Calm == how \cap {"fail", "restart", "restarted"} = {}
AllTold ==
    \A w \in Watchers : \A k \in 1..MaxExchanges :
        (Calm /\ w \in watching /\ talking /\ Begun = k)
            ~> (w \in gone \/ Count(w, "summary", PromptId(k)) = 1)

(* A message that is in QueueState is sent to the target or the server      *)
(* stops.                                                                   *)
AlertsArrive == (queued # <<>> /\ Begun < MaxExchanges) ~> (queued = <<>>)

(* "Queue the response for later": a watcher that was busy answers in the   *)
(* end.                                                                     *)
BusyResponseSent ==
    \A w \in Watchers : \A i \in 1..(2 * MaxExchanges) :
        (i \in ToSet(parked[w])) ~> (Count(w, "prompt", i) > 0)

(* "Contains an LLM-generated summary of a target exchange": the helper is  *)
(* told what was answered, not only what was asked.                         *)
SummaryTellsAnswer == \A h \in helpers : "assistant" \in h.tells
=============================================================================
