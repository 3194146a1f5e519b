------------------------------ MODULE EventFeed ------------------------------
(***************************************************************************)
(* How the browser's view of a session follows the session                 *)
(* (service/ws_server.py, session_data_service.py, subscription_manager.py *)
(* and the client's side in web/ui/src/hooks/useSessionData.ts).           *)
(*                                                                         *)
(* Every event is a task of its own that sends to its targets one after    *)
(* the other and waits where a client reads slowly.  A task that is not    *)
(* held up runs before the server takes up anything else.                  *)
(***************************************************************************)
EXTENDS Integers, Sequences, FiniteSets, SequencesExt, FiniteSetsExt

CONSTANTS
    Viewers,        \* browsers
    MaxTurn,        \* bound: turns ever made; odd ones are the user's
    MaxPiece,       \* bound: deltas of one assistant turn
    MaxTasks,       \* bound: events under way
    Page,           \* HISTORY_CHUNK_SIZE, LAZY_LOAD_CHUNK_SIZE
    Feeds           \* what happens in a behaviour: sets of names

ASSUME FeedAssumption ==
    /\ MaxTurn \in Nat \ {0} /\ MaxPiece \in Nat \ {0}
    /\ MaxTasks \in Nat \ {0} /\ Page \in Nat \ {0}

TurnIds == 1..MaxTurn
Layers == {"header", "body", "delta", "history", "reverse", "lazy"}

VARIABLES
    feed,       \* the member of Feeds this behaviour is about
    made,       \* turns made so far
    turns,      \* session.turns
    writing,    \* the assistant turn being streamed, 0 for none
    pieces,     \* deltas of it so far
    sweep,      \* the order in which _clients is walked
    conn,       \* "off", "hello", "open", or "ghost": no handler, still listed
    layers,     \* _subscriptions of the session
    stalled,    \* the clients that do not read
    tasks,      \* _broadcast tasks, oldest first: an event, who still gets it
    mode,       \* how a viewer loads the history, "none" when it shows nothing
    view,       \* turnsById of a viewer
    buffer,     \* pendingDeltas of a viewer
    expected,   \* pendingAssistantTurns of a viewer: the orders announced
    tree        \* loadSessionWithLayers of a viewer: "idle", "waiting", "done"

feedVars == <<feed, made, turns, writing, pieces, sweep, conn, layers, stalled,
              tasks, mode, view, buffer, expected, tree>>
sessionVars == <<made, turns, writing, pieces>>
viewVars == <<mode, view, buffer, expected, tree>>
serverVars == <<conn, layers, stalled>>

FeedInit ==
    /\ feed \in Feeds
    /\ made = 0 /\ turns = <<>> /\ writing = 0 /\ pieces = 0
    /\ sweep \in {s \in [1..Cardinality(Viewers) -> Viewers] : IsInjective(s)}
    /\ conn = [v \in Viewers |-> "off"]
    /\ layers = [v \in Viewers |-> {}]
    /\ stalled = {} /\ tasks = <<>>
    /\ mode = [v \in Viewers |-> "none"]
    /\ view = [v \in Viewers |-> <<>>]
    /\ buffer = [v \in Viewers |-> {}]
    /\ expected = [v \in Viewers |-> <<>>]
    /\ tree = [v \in Viewers |-> "idle"]

-----------------------------------------------------------------------------
(* What the server sends                                                    *)

Event(kind, ts, first) == [kind |-> kind, turns |-> ts, first |-> first]

(* The clients with one of the layers; every client for a set of none.      *)
Wants(ls) == {v \in Viewers : ls = {} \/ layers[v] \cap ls # {}}

(* _on_service_event, _broadcast: the clients listed, in the order of the set*)
Task(e, targets) ==
    [event |-> e,
     todo |-> SelectSeq(sweep, LAMBDA v : v \in targets /\ conn[v] = "open")]

Emitted(ts) == SelectSeq(ts, LAMBDA t : t.todo # <<>>)

Runnable == {k \in DOMAIN tasks : Head(tasks[k].todo) \notin stalled}

(* Nothing waits for the event loop.                                        *)
Quiet == Runnable = {} /\ Len(tasks) < MaxTasks

Created(t, order) == Task(Event("created", <<t>>, order), Wants({"header"}))
DeltaOf(t) == Task(Event("delta", <<t>>, 0), Wants({"delta"}))
Finished(t, order) == Task(Event("finished", <<t>>, order), Wants({"header", "body"}))
Done == Task(Event("done", <<>>, 0), Wants({"header"}))
Deleted(t) == Task(Event("deleted", <<t>>, 0), Wants({}))

(* The turns from index i up to, and without, index j.                      *)
Chunk(v, i, j) ==
    Task(Event("chunk", SubSeq(turns, i + 1, Min({j, Len(turns)})), i), {v})

Chunks == IF turns = <<>> THEN 1 ELSE (Len(turns) + Page - 1) \div Page

(* The last turns, fewer than a chunk, are left out.                        *)
History_RoundsDown(v, backwards) ==
    LET n == Len(turns) \div Page
        nth(k) == IF backwards THEN n - k ELSE k - 1
    IN  [k \in 1..n |-> Chunk(v, nth(k) * Page, (nth(k) + 1) * Page)]
        \o <<Task(Event("complete", <<>>, 0), {v})>>

(* _load_and_emit_history                                                   *)
History(v, backwards) ==
    LET n == Chunks
        nth(k) == IF backwards THEN n - k ELSE k - 1
    IN  [k \in 1..n |-> Chunk(v, nth(k) * Page, (nth(k) + 1) * Page)]
        \o <<Task(Event("complete", <<>>, 0), {v})>>

Range0(i, j) == IF Max({0, i}) < Min({j, Len(turns)}) THEN {Max({0, i})} ELSE {}

(* load_history_range: nothing for an empty range, one chunk otherwise       *)
HistoryRange(v, i, j) ==
    IF Range0(i, j) = {} THEN <<>> ELSE <<Chunk(v, Max({0, i}), j)>>

-----------------------------------------------------------------------------
(* What a viewer makes of it                                                *)

Knows(v, t) == t \in DOMAIN view[v]
With(f, t, x) == [u \in DOMAIN f \cup {t} |-> IF u = t THEN x ELSE f[u]]
Less(f, ts) == [u \in DOMAIN f \ ts |-> f[u]]
Behind(v) == Max({-1} \cup {view[v][t].order : t \in DOMAIN view[v]}) + 1
FromUser(t) == t % 2 = 1

(* Where a turn that is not there yet goes: as announced, or else as given    *)
Place(v, t, given) == IF t \in DOMAIN expected[v] THEN expected[v][t] ELSE given

(* sessionDataTurnCreated                                                   *)
SeesCreated(v, t, order) ==
    IF FromUser(t)
    THEN /\ view' = IF Knows(v, t) THEN view
                    ELSE [view EXCEPT ![v] = With(view[v], t,
                            [order |-> order, text |-> "none", live |-> TRUE])]
         /\ UNCHANGED expected
    ELSE /\ expected' = [expected EXCEPT ![v] = With(@, t, order)]
         /\ UNCHANGED view

(* sessionDataTurnFinished                                                  *)
SeesFinished(v, t, order) ==
    /\ view' = [view EXCEPT ![v] = With(view[v], t,
            [order |-> IF Knows(v, t) THEN order ELSE Place(v, t, order),
             text |-> "all", live |-> FALSE])]
    /\ expected' = [expected EXCEPT ![v] = Less(@, {t})]

(* sessionDataHistoryChunk: what is there already stays as it is            *)
SeesChunk(v, e) ==
    view' = [view EXCEPT ![v] =
        [t \in DOMAIN view[v] \cup Range(e.turns) |->
            IF Knows(v, t) THEN view[v][t]
            ELSE [order |-> e.first - 1 + (CHOOSE k \in DOMAIN e.turns : e.turns[k] = t),
                  text |-> "all", live |-> FALSE]]]

(* sessionDataTurnsDeleted                                                  *)
SeesDeleted(v, t) ==
    /\ view' = [view EXCEPT ![v] = Less(@, {t})]
    /\ expected' = [expected EXCEPT ![v] = Less(@, {t})]

(* sessionDataStreamDone, finalizeStreamingTurns                            *)
SeesDone(v) ==
    /\ view' = [view EXCEPT ![v] = [t \in DOMAIN view[v] |->
            [view[v][t] EXCEPT !.live = FALSE]]]
    /\ expected' = [expected EXCEPT ![v] = <<>>]

(* The handlers of a viewer that shows the session                          *)
Handles(v, e) ==
    /\ IF mode[v] = "none" THEN UNCHANGED <<view, expected>>
       ELSE CASE e.kind = "created" -> SeesCreated(v, e.turns[1], e.first)
              [] e.kind = "finished" -> SeesFinished(v, e.turns[1], e.first)
              [] e.kind = "chunk" -> SeesChunk(v, e) /\ UNCHANGED expected
              [] e.kind = "deleted" -> SeesDeleted(v, e.turns[1])
              [] e.kind = "done" -> SeesDone(v)
              [] OTHER -> UNCHANGED <<view, expected>>
    /\ buffer' = IF mode[v] # "none" /\ e.kind = "delta"
                 THEN [buffer EXCEPT ![v] = @ \cup Range(e.turns)] ELSE buffer
    /\ tree' = IF tree[v] = "waiting" /\ e.kind = "complete"
               THEN [tree EXCEPT ![v] = "done"] ELSE tree

(* One send of the oldest task that nothing holds up                        *)
Send ==
    /\ Runnable # {}
    /\ LET k == Min(Runnable)
           v == Head(tasks[k].todo)
       IN  /\ Handles(v, tasks[k].event)
           /\ tasks' = Emitted([tasks EXCEPT ![k].todo = Tail(@)])
    /\ UNCHANGED <<feed, sweep, sessionVars, serverVars, mode>>

(* Deltas are added to finished turns too.                                  *)
FlushDeltas_Reopens(v) ==
    /\ buffer[v] # {}
    /\ view' = [view EXCEPT ![v] =
        [t \in DOMAIN view[v] \cup buffer[v] |->
            IF ~Knows(v, t)
            THEN [order |-> Place(v, t, Behind(v)), text |-> "part", live |-> TRUE]
            ELSE IF t \in buffer[v] THEN [view[v][t] EXCEPT !.live = TRUE]
            ELSE view[v][t]]]
    /\ expected' = [expected EXCEPT ![v] = Less(@, buffer[v] \ DOMAIN view[v])]
    /\ buffer' = [buffer EXCEPT ![v] = {}]
    /\ UNCHANGED <<feed, sweep, sessionVars, serverVars, tasks, mode, tree>>

(* flushPendingDeltas, on a timer                                           *)
FlushDeltas(v) ==
    /\ buffer[v] # {}
    /\ view' = [view EXCEPT ![v] =
        [t \in DOMAIN view[v] \cup buffer[v] |->
            IF ~Knows(v, t)
            THEN [order |-> Place(v, t, Behind(v)), text |-> "part", live |-> TRUE]
            ELSE IF t \in buffer[v] /\ view[v][t].live
            THEN [view[v][t] EXCEPT !.text = "part"]
            ELSE view[v][t]]]
    /\ expected' = [expected EXCEPT ![v] = Less(@, buffer[v] \ DOMAIN view[v])]
    /\ buffer' = [buffer EXCEPT ![v] = {}]
    /\ UNCHANGED <<feed, sweep, sessionVars, serverVars, tasks, mode, tree>>

-----------------------------------------------------------------------------
(* The session                                                              *)

Say ==
    /\ Quiet /\ writing = 0 /\ made + 2 <= MaxTurn
    /\ LET t == made + 1
       IN  /\ turns' = Append(turns, t) /\ made' = t
           /\ tasks' = tasks \o Emitted(<<Created(t, Len(turns)), Finished(t, Len(turns))>>)
    /\ UNCHANGED <<feed, sweep, writing, pieces, serverVars, viewVars>>

StartTurn ==
    /\ Quiet /\ writing = 0 /\ FromUser(made)
    /\ writing' = made + 1 /\ made' = made + 1 /\ pieces' = 0
    /\ tasks' = tasks \o Emitted(<<Created(made + 1, Len(turns))>>)
    /\ UNCHANGED <<feed, sweep, turns, serverVars, viewVars>>

SayPiece ==
    /\ Quiet /\ writing # 0 /\ pieces < MaxPiece
    /\ pieces' = pieces + 1
    /\ tasks' = tasks \o Emitted(<<DeltaOf(writing)>>)
    /\ UNCHANGED <<feed, sweep, made, turns, writing, serverVars, viewVars>>

(* The runner adds the turn, text_flush reports it, the stream ends          *)
EndTurn ==
    /\ Quiet /\ writing # 0 /\ pieces > 0
    /\ turns' = Append(turns, writing) /\ writing' = 0 /\ pieces' = 0
    /\ tasks' = tasks \o Emitted(<<Finished(writing, Len(turns)), Done>>)
    /\ UNCHANGED <<feed, sweep, made, serverVars, viewVars>>

DeleteTurn ==
    /\ Quiet /\ "delete" \in feed
    /\ \E k \in DOMAIN turns :
        /\ turns' = SubSeq(turns, 1, k - 1) \o SubSeq(turns, k + 1, Len(turns))
        /\ tasks' = tasks \o Emitted(<<Deleted(turns[k])>>)
    /\ UNCHANGED <<feed, sweep, made, writing, pieces, serverVars, viewVars>>

-----------------------------------------------------------------------------
(* Connections and subscriptions                                            *)

(* _handle_connection up to the "connected" event                           *)
Connect(v) ==
    /\ conn[v] = "off" /\ Quiet
    /\ conn' = [conn EXCEPT ![v] = "hello"]
    /\ UNCHANGED <<feed, sweep, sessionVars, layers, stalled, tasks, viewVars>>

(* The "connected" event goes out, or the socket is closed already           *)
Welcome(v) ==
    /\ conn[v] = "hello" /\ Quiet
    /\ conn' = [conn EXCEPT ![v] = "open"]
    /\ UNCHANGED <<feed, sweep, sessionVars, layers, stalled, tasks, viewVars>>

Slam(v) ==
    /\ conn[v] = "hello" /\ Quiet /\ "slam" \in feed
    /\ conn' = [conn EXCEPT ![v] = "ghost"]
    /\ UNCHANGED <<feed, sweep, sessionVars, layers, stalled, tasks, viewVars>>

Cleared(v) ==
    /\ mode' = [mode EXCEPT ![v] = "none"]
    /\ view' = [view EXCEPT ![v] = <<>>]
    /\ buffer' = [buffer EXCEPT ![v] = {}]
    /\ expected' = [expected EXCEPT ![v] = <<>>]

(* The end of _handle_connection, client_disconnected: who waits to send to  *)
(* the socket gets ConnectionClosed                                          *)
Disconnect(v) ==
    /\ conn[v] = "open" /\ Quiet /\ "leave" \in feed
    /\ conn' = [conn EXCEPT ![v] = "off"]
    /\ layers' = [layers EXCEPT ![v] = {}]
    /\ stalled' = stalled \ {v}
    /\ tasks' = Emitted([k \in DOMAIN tasks |->
            [tasks[k] EXCEPT !.todo = SelectSeq(@, LAMBDA u : u # v)]])
    /\ Cleared(v)
    /\ tree' = [tree EXCEPT ![v] = "idle"]
    /\ UNCHANGED <<feed, sweep, sessionVars>>

Stall(v) ==
    /\ conn[v] = "open" /\ Quiet /\ v \notin stalled /\ "stall" \in feed
    /\ stalled' = stalled \cup {v}
    /\ UNCHANGED <<feed, sweep, sessionVars, conn, layers, tasks, viewVars>>

Unstall(v) ==
    /\ v \in stalled
    /\ stalled' = stalled \ {v}
    /\ UNCHANGED <<feed, sweep, sessionVars, conn, layers, tasks, viewVars>>

(* What the history layer sends when subscribe_add changed something         *)
Loads(v, m) ==
    CASE m = "lazy" -> HistoryRange(v, Len(turns) - Page, Len(turns))
      [] m = "reverse" -> History(v, TRUE)
      [] OTHER -> History(v, FALSE)

(* subscribe of useSessionData: the handlers first, then subscribe_add       *)
Subscribe(v, m) ==
    /\ conn[v] = "open" /\ mode[v] = "none" /\ Quiet /\ m \in feed
    /\ LET wanted == {"header", "body", "delta", m}
       IN  /\ layers' = [layers EXCEPT ![v] = @ \cup wanted]
           /\ tasks' = IF wanted \subseteq layers[v] THEN tasks
                       ELSE tasks \o Emitted(Loads(v, m))
    /\ mode' = [mode EXCEPT ![v] = m]
    /\ UNCHANGED <<feed, sweep, sessionVars, conn, stalled, view, buffer, expected, tree>>

(* unsubscribe of useSessionData: handlers off, subscribe_remove of these    *)
(* four layers whatever the mode was, state cleared.  The answer it awaits   *)
(* comes after what is being sent to v                                       *)
Unsubscribe(v) ==
    /\ conn[v] = "open" /\ mode[v] # "none" /\ Quiet
    /\ v \notin stalled /\ "switch" \in feed
    /\ layers' = [layers EXCEPT ![v] = @ \ {"header", "body", "delta", "history"}]
    /\ Cleared(v)
    /\ UNCHANGED <<feed, sweep, sessionVars, conn, stalled, tasks, tree>>

Lowest(v) == Min({view[v][t].order : t \in DOMAIN view[v]})

(* Scrolling up in lazy mode, StreamingTurnsView                             *)
LoadOlder(v) ==
    /\ conn[v] = "open" /\ mode[v] = "lazy" /\ Quiet
    /\ DOMAIN view[v] # {} /\ Lowest(v) > 0
    /\ LET last == Lowest(v) - 1
           first == Max({0, last - Page + 1})
           loaded == Emitted(HistoryRange(v, first, last))
       IN  /\ loaded # <<>>
           /\ tasks' = tasks \o loaded
    /\ UNCHANGED <<feed, sweep, sessionVars, serverVars, viewVars>>

(* loadSessionWithLayers of the tree view, which leaves its layers on        *)
OpenTree(v) ==
    /\ conn[v] = "open" /\ tree[v] # "waiting" /\ Quiet /\ "tree" \in feed
    /\ LET wanted == {"header", "body", "history"}
       IN  /\ layers' = [layers EXCEPT ![v] = @ \cup wanted]
           /\ tasks' = IF wanted \subseteq layers[v] THEN tasks
                       ELSE tasks \o Emitted(History(v, FALSE))
    /\ tree' = [tree EXCEPT ![v] = "waiting"]
    /\ UNCHANGED <<feed, sweep, sessionVars, conn, stalled, mode, view, buffer, expected>>

FeedNext ==
    \/ Send \/ Say \/ StartTurn \/ SayPiece \/ EndTurn \/ DeleteTurn
    \/ \E v \in Viewers :
        \/ FlushDeltas(v) \/ Connect(v) \/ Welcome(v) \/ Slam(v) \/ Disconnect(v)
        \/ Stall(v) \/ Unstall(v) \/ Unsubscribe(v) \/ LoadOlder(v) \/ OpenTree(v)
        \/ \E m \in {"history", "reverse", "lazy"} : Subscribe(v, m)

FeedSpec == FeedInit /\ [][FeedNext]_feedVars

-----------------------------------------------------------------------------
(* Types, and tasks still have somebody to send to.                          *)
FeedTypeOK ==
    /\ made \in 0..MaxTurn /\ writing \in 0..MaxTurn /\ pieces \in 0..MaxPiece
    /\ turns \in Seq(TurnIds) /\ IsInjective(turns)
    /\ \A v \in Viewers :
        /\ layers[v] \subseteq Layers
        /\ DOMAIN view[v] \subseteq TurnIds /\ buffer[v] \subseteq TurnIds
        /\ DOMAIN expected[v] \subseteq {t \in TurnIds : ~FromUser(t)}
        /\ mode[v] = "none" => DOMAIN view[v] = {} /\ buffer[v] = {}
    /\ \A k \in DOMAIN tasks : tasks[k].todo # <<>>

Settled(v) ==
    /\ conn[v] = "open" /\ mode[v] # "none" /\ buffer[v] = {}
    /\ \A k \in DOMAIN tasks : v \notin Range(tasks[k].todo)

(* A viewer that shows the session with its history, and for which nothing   *)
(* is under way, shows every turn of the session in full and as finished:    *)
(* whatever it missed before it subscribed, and in whatever order history    *)
(* chunks, deltas and finished turns came.                                   *)
FeedConverges ==
    \A v \in Viewers : Settled(v) /\ mode[v] # "lazy" =>
        \A k \in DOMAIN turns :
            /\ Knows(v, turns[k])
            /\ view[v][turns[k]].text = "all" /\ ~view[v][turns[k]].live

(* The turn that is being written has no finished look, and nothing else is  *)
(* left that looks as if it were being written.                              *)
SpinnersEnd ==
    \A v \in Viewers : Settled(v) =>
        \A t \in DOMAIN view[v] : view[v][t].live => t = writing \/ t \notin Range(turns)

(* When nothing is under way, a viewer shows what the session has: every     *)
(* turn in full, and nothing as being written but the turn that is.          *)
ViewsConverge == FeedConverges /\ SpinnersEnd

(* Subscriptions, and events under way, are those of open connections only.  *)
NothingForTheGone ==
    \A v \in Viewers : conn[v] # "open" =>
        layers[v] = {} /\ \A k \in DOMAIN tasks : v \notin Range(tasks[k].todo)

(* A connection that is listed has a handler (ws_server.py:85-97).           *)
NoGhosts == \A v \in Viewers : conn[v] # "ghost"

(* A viewer only shows turns the session has or is writing.                  *)
NothingExtra ==
    \A v \in Viewers : Settled(v) =>
        DOMAIN view[v] \subseteq Range(turns) \cup {writing}

(* "Event queue for ordered delivery. Using asyncio.Queue ensures events are *)
(* sent in FIFO order" (ws_server.py:94-95): no event reaches a client while *)
(* an older one for it is still to be sent.                                  *)
EventsInOrder ==
    [][\A k \in DOMAIN tasks : \A v \in Viewers :
        (v = Head(tasks[k].todo) /\ Send /\ k = Min(Runnable)) =>
            \A i \in 1..(k - 1) : v \notin Range(tasks[i].todo)]_feedVars

(* Scrolling up loads what is older: once the first turn is there, all are.  *)
LazyHistoryComplete ==
    \A v \in Viewers : Settled(v) /\ mode[v] = "lazy" /\ DOMAIN view[v] # {} =>
        (Lowest(v) = 0 => Range(turns) \subseteq DOMAIN view[v])

(* A tree view that waits for the history gets it.                           *)
TreeAnswered ==
    \A v \in Viewers : tree[v] = "waiting" =>
        \E k \in DOMAIN tasks :
            tasks[k].event.kind = "complete" /\ v \in Range(tasks[k].todo)
=============================================================================
