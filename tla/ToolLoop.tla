------------------------------ MODULE ToolLoop ------------------------------
(***************************************************************************)
(* One exchange as the runner for OpenAI-compatible servers drives it: the *)
(* request built from the session (core/openai_runner.py, build_messages), *)
(* the responses with their tool calls, the turns core/runner.py makes of  *)
(* them, and what service/session_manager_service.py tells a client.       *)
(*                                                                         *)
(* Events are dispatched in the order they are made, so each is handled    *)
(* here in the step that makes it; a submission that overtakes the events  *)
(* of a stopped exchange is StreamLifecycle's concern.                     *)
(***************************************************************************)
EXTENDS Integers, Sequences, FiniteSets, SequencesExt, FiniteSetsExt, Lists

CONSTANTS
    MaxWords,       \* bound: pieces of text, of users and model, but blanks
    MaxBlanks,      \* bound: blanks of one exchange
    MaxCalls,       \* bound: tool calls ever made
    MaxAsks,        \* bound: exchanges
    MaxTogether,    \* bound: tool calls of one response
    MaxModes,       \* bound: turns whose context mode is changed
    Happens         \* what happens in a behaviour: sets of names

ASSUME LoopAssumption ==
    /\ MaxWords \in Nat \ {0} /\ MaxBlanks \in Nat /\ MaxCalls \in Nat
    /\ MaxAsks \in Nat \ {0} /\ MaxTogether \in Nat /\ MaxModes \in Nat

Blank == 0          \* a piece of white space
Note == -1          \* "[Interrupted: user_cancelled]", "[Error: api_error]"
NotAvailable == -2  \* "[Tool result not available]"
CallKinds == {"work", "ui", "ask"}

VARIABLES
    happens,    \* the member of Happens this behaviour is about
    asks,       \* exchanges begun
    words,      \* pieces of text so far
    calls,      \* the tool calls so far: the kind, the first of the response
    phase,      \* "idle", "answer", "tools"
    told,       \* the pieces the model streamed in this exchange
    outcome,    \* how the exchange ended, "" while it runs
    s,          \* the session, the runner and the streaming context, see Start
    said,       \* content_buffer of the response
    response,   \* tool_calls of the response
    todo,       \* the calls of it that are not executed yet
    queue,      \* messages the user sent meanwhile
    steering,   \* accumulated_steering
    request,    \* openai_messages
    shown       \* what a client shows of the turns, by their ids

loopVars == <<happens, asks, words, calls, phase, told, outcome, s, said,
              response, todo, queue, steering, request, shown>>

Wordy(text) == Kept(text, Int \ {Blank})

-----------------------------------------------------------------------------
(* The request: build_messages                                              *)

Msg(role, text, cs, answers) ==
    [role |-> role, text |-> text, calls |-> cs, answers |-> answers]

(* One turn as messages.  Reasoning is not sent again; a tool of the        *)
(* client gets an answer at once, besides the one that is stored.           *)
Serialised(t) ==
    IF t.mode = "drop" THEN <<>>
    ELSE CASE t.kind = "result" -> <<Msg("tool", t.text, <<>>, t.call)>>
      [] t.kind = "user" -> <<Msg("user", t.text, <<>>, 0)>>
      [] t.kind = "text" \/ (t.mode = "summary" /\ t.kind \notin {"result", "user"}) ->
            <<Msg("assistant", t.text, <<>>, 0)>>
      [] t.kind = "use" /\ t.mode = "full" ->
            <<Msg("assistant", <<>>, <<t.call>>, 0)>>
            \o (IF calls[t.call].kind = "ui"
                THEN <<Msg("tool", <<>>, <<>>, t.call)>> ELSE <<>>)
      [] t.kind = "thinking" /\ t.mode = "full" -> <<>>
      [] t.kind \in {"marker", "error"} /\ t.mode = "full" ->
            <<Msg("assistant", <<Note>>, <<>>, 0)>>

(* The prompt joins a user message at the end, even when it is that message *)
WithPrompt(ms, prompt) ==
    IF ms # <<>> /\ Last(ms).role = "user"
    THEN Front(ms) \o <<Msg("user", Last(ms).text \o prompt, <<>>, 0)>>
    ELSE ms \o <<Msg("user", prompt, <<>>, 0)>>

IsNote(m) == m.role = "assistant" /\ m.calls = <<>> /\ m.text = <<Note>>

Passed(m) == m.role \in {"tool", "user"} \/ m.calls # <<>> \/ IsNote(m)

(* The answer to a call: the last one there is in the history.              *)
AnswerTo(ms, c) ==
    LET at == {k \in DOMAIN ms : ms[k].role = "tool" /\ ms[k].answers = c}
    IN IF at = {} THEN Msg("tool", <<NotAvailable>>, <<>>, c) ELSE ms[Max(at)]

(* The messages from i up to the first that is not passed: one message with *)
(* their calls, which joins the assistant's message before it, and answers. *)
WithBlock(out, ms, i) ==
    LET j == Min({k \in i + 1 .. Len(ms) + 1 : k = Len(ms) + 1 \/ ~Passed(ms[k])})
        joins == out # <<>> /\ Last(out).role = "assistant" /\ Last(out).calls = <<>>
        text == (IF joins THEN Last(out).text ELSE <<>>)
                \o Flat([k \in 1 .. j - i |->
                            IF ms[i + k - 1].calls # <<>> THEN ms[i + k - 1].text ELSE <<>>])
        cs == Flat([k \in 1 .. j - i |-> ms[i + k - 1].calls])
    IN  (IF joins THEN Front(out) ELSE out)
        \o <<Msg("assistant", text, cs, 0)>> \o [k \in DOMAIN cs |-> AnswerTo(ms, cs[k])]

InBlock(ms, n) ==
    \E i \in 1 .. n - 1 : ms[i].calls # <<>> /\ \A k \in i + 1 .. n : Passed(ms[k])

(* _reorder_tool_messages                                                   *)
Reordered(ms) ==
    LET out[n \in 0..Len(ms)] ==
            IF n = 0 THEN <<>>
            ELSE IF ms[n].role = "tool" \/ InBlock(ms, n) THEN out[n - 1]
            ELSE IF ms[n].calls = <<>> THEN Append(out[n - 1], ms[n])
            ELSE WithBlock(out[n - 1], ms, n)
    IN  out[Len(ms)]

(* _normalize_strict_alternation, _merge_consecutive_messages               *)
WithNext(out, m) ==
    IF IsNote(m) THEN out
    ELSE IF /\ out # <<>> /\ Last(out).role = m.role
            /\ m.role # "tool" /\ m.calls = <<>> /\ Last(out).calls = <<>>
    THEN Front(out) \o <<Msg(m.role, Last(out).text \o m.text, <<>>, 0)>>
    ELSE Append(out, m)
Merged(ms) ==
    LET out[n \in 0..Len(ms)] == IF n = 0 THEN <<>> ELSE WithNext(out[n - 1], ms[n])
    IN  out[Len(ms)]

MessagesOf(turns) == Flat([k \in DOMAIN turns |-> Serialised(turns[k])])

(* Mutant: the history goes out as it is stored.                            *)
BuildMessages_AsStored(turns, prompt) == Merged(WithPrompt(MessagesOf(turns), prompt))

BuildMessages(turns, prompt) == Merged(Reordered(WithPrompt(MessagesOf(turns), prompt)))

-----------------------------------------------------------------------------
(* The runner: events of the model become turns, and events for the client  *)

Turn(id, kind, text, call) ==
    [id |-> id, kind |-> kind, text |-> text, call |-> call, group |-> 0,
     ask |-> asks, exchange |-> 2 * asks, mode |-> "full", steers |-> FALSE, replies |-> FALSE]

(* _reset_state, and the context of the new exchange                        *)
Start(x) ==
    [x EXCEPT !.buffer = <<>>, !.pending = 0, !.initial = x.fresh + 1,
              !.fresh = x.fresh + 1, !.own = 0, !.tools = 0, !.textTools = 0,
              !.current = x.fresh + 1, !.content = <<>>, !.group = 0,
              !.waiting = 0]

(* _create_turn, _save_turn_to_session: with the id _reset_state gave the   *)
(* exchange (2 * asks); the service gives its own turns another.            *)
Add(x, t) ==
    [x EXCEPT !.turns = Append(x.turns, t),
              !.fresh = IF t.id > x.fresh THEN t.id ELSE x.fresh,
              !.own = x.own + 1]

(* _flush_text_as_turn; text of blanks only stays in the buffer             *)
Flush(x) ==
    IF Wordy(x.buffer) = <<>> THEN x
    ELSE LET id == IF x.pending # 0 THEN x.pending
                   ELSE IF x.own = 0 THEN x.initial ELSE x.fresh + 1
             y == Add(x, [Turn(id, x.kind, x.buffer, 0) EXCEPT !.replies = x.steered])
         IN [y EXCEPT !.buffer = <<>>, !.kind = "none", !.pending = 0,
                      !.steered = FALSE,
                      !.current = IF x.pending = 0 THEN id ELSE x.current,
                      !.content = IF x.pending = 0 THEN <<>> ELSE x.content]

(* A delta of text or reasoning: it begins a turn of its own after a tool   *)
(* call, and where the kind changes.                                        *)
Delta(x, kind, p) ==
    LET changes == /\ x.kind = (IF kind = "text" THEN "thinking" ELSE "text")
                   /\ Wordy(x.buffer) # <<>>
        y == IF changes THEN Flush(x) ELSE x
        begins == (y.tools > y.textTools \/ changes) /\ y.buffer = <<>>
        z == IF begins
             THEN [y EXCEPT !.fresh = y.fresh + 1, !.pending = y.fresh + 1,
                            !.textTools = IF kind = "text" THEN y.tools
                                          ELSE y.textTools,
                            !.current = y.fresh + 1, !.content = <<>>]
             ELSE y
    IN [z EXCEPT !.kind = kind, !.buffer = Append(z.buffer, p),
                 !.content = Append(z.content, p)]

(* Tool calls start: their group is that of the calls still unanswered.     *)
ToolStart(x, cs) ==
    LET y == Flush(x)
    IN [y EXCEPT !.tools = y.tools + Len(cs), !.waiting = y.waiting + Len(cs),
                 !.group = IF y.waiting = 0 THEN cs[1] ELSE y.group]

(* They are turns, one after the other.                                     *)
ToolUse(x, cs) ==
    [x EXCEPT !.turns = x.turns \o [k \in DOMAIN cs |->
                  [Turn(x.fresh + k, "use", <<>>, cs[k]) EXCEPT !.group = x.group]],
              !.fresh = x.fresh + Len(cs),
              !.own = x.own + Len(cs)]

ToolResult(x, c) ==
    LET y == Add(x, [Turn(x.fresh + 1, "result", <<>>, c) EXCEPT !.group = x.group])
        left == IF x.waiting = 0 THEN 0 ELSE x.waiting - 1
    IN [y EXCEPT !.waiting = left, !.group = IF left = 0 THEN 0 ELSE x.group]

Steered(x, text) ==
    [Add(x, [Turn(x.fresh + 1, "user", text, 0) EXCEPT !.steers = TRUE]) EXCEPT !.steered = TRUE]

(* What clients are told: deltas go to the turn the context names, and a    *)
(* turn that is finished comes with its text.                               *)
Show(view, id, text, done) ==
    [k \in DOMAIN view \cup {id} |->
        IF k = id THEN [text |-> text, done |-> done] ELSE view[k]]

FinishedTurns(view, x, y) ==
    LET new == {y.turns[k] : k \in Len(x.turns) + 1 .. Len(y.turns)}
    IN  [i \in DOMAIN view \cup {t.id : t \in new} |->
            IF \E t \in new : t.id = i
            THEN [text |-> (CHOOSE t \in new : t.id = i).text, done |-> TRUE] ELSE view[i]]

Reported(view, x) ==
    IF x.content = <<>> THEN view ELSE Show(view, x.current, x.content, TRUE)

Streamed(view, x, y) ==
    LET v == FinishedTurns(view, x, y)
        before == IF y.current \in DOMAIN v THEN v[y.current].text ELSE <<>>
    IN Show(v, y.current, Append(before, Last(y.buffer)), FALSE)

-----------------------------------------------------------------------------
LoopInit ==
    /\ happens \in Happens
    /\ asks = 0 /\ words = 0 /\ calls = <<>>
    /\ phase = "idle" /\ told = <<>> /\ outcome = "done"
    /\ s = [turns |-> <<>>, fresh |-> 0, buffer |-> <<>>, kind |-> "none",
            pending |-> 0, initial |-> 0, own |-> 0, tools |-> 0,
            textTools |-> 0, steered |-> FALSE,
            current |-> 0, content |-> <<>>, group |-> 0, waiting |-> 0]
    /\ said = <<>> /\ response = <<>> /\ todo = <<>>
    /\ queue = <<>> /\ steering = <<>> /\ request = <<>> /\ shown = <<>>

OfService(ask) == 2 * ask - 1

(* submit_message, start_background, stream_response up to the first request*)
Submit(prompt) ==
    /\ phase = "idle" /\ asks < MaxAsks
    /\ asks' = asks + 1
    /\ LET x == [s EXCEPT !.turns = Append(s.turns,
                                [Turn(s.fresh + 1, "user", prompt, 0)
                                 EXCEPT !.ask = asks + 1,
                                        !.exchange = OfService(asks + 1)]),
                          !.fresh = s.fresh + 1]
       IN /\ s' = Start(x)
          /\ shown' = FinishedTurns(shown, s, x)
          /\ request' = BuildMessages(x.turns, prompt)
    /\ phase' = "answer" /\ told' = <<>> /\ outcome' = ""
    /\ said' = <<>> /\ response' = <<>> /\ todo' = <<>> /\ steering' = <<>>

Ask ==
    /\ words < MaxWords
    /\ Submit(<<words + 1>>)
    /\ words' = words + 1
    /\ UNCHANGED <<happens, calls, queue>>

(* _process_queued_messages, after every end but a failure                  *)
AskQueued ==
    /\ queue # <<>> /\ outcome # "failed"
    /\ Submit(queue)
    /\ queue' = <<>>
    /\ UNCHANGED <<happens, calls, words>>

QueueMessage ==
    /\ "steer" \in happens
    /\ phase # "idle" /\ words < MaxWords
    /\ words' = words + 1
    /\ queue' = Append(queue, words + 1)
    /\ UNCHANGED <<happens, asks, calls, phase, told, outcome, s, said, response,
                   todo, steering, request, shown>>

(* A turn's context mode is changed between two exchanges.                  *)
SetMode ==
    /\ "modes" \in happens /\ phase = "idle"
    /\ Cardinality({k \in DOMAIN s.turns : s.turns[k].mode # "full"}) < MaxModes
    /\ \E k \in DOMAIN s.turns, mode \in {"drop", "summary"} :
        /\ s.turns[k].mode = "full"
        /\ s' = [s EXCEPT !.turns[k].mode = mode]
    /\ UNCHANGED <<happens, asks, words, calls, phase, told, outcome, said,
                   response, todo, queue, steering, request, shown>>

Piece(kind, p) ==
    /\ phase = "answer" /\ response = <<>>
    /\ kind = "thinking" => kind \in happens
    /\ told' = Append(told, p)
    /\ said' = Append(said, p)
    /\ s' = Delta(s, kind, p)
    /\ shown' = Streamed(shown, s, Delta(s, kind, p))
    /\ UNCHANGED <<happens, asks, calls, phase, outcome, response, todo, queue,
                   steering, request>>

StreamWord ==
    /\ words < MaxWords
    /\ words' = words + 1
    /\ \E kind \in {"text", "thinking"} : Piece(kind, words + 1)

StreamBlank ==
    /\ "blank" \in happens
    /\ Len(told) - Len(Wordy(told)) < MaxBlanks
    /\ \E kind \in {"text", "thinking"} : Piece(kind, Blank)
    /\ UNCHANGED words

StartCall ==
    /\ phase = "answer" /\ Len(calls) < MaxCalls
    /\ Len(response) < MaxTogether
    /\ \E kind \in CallKinds :
        /\ kind = "work" \/ kind \in happens
        /\ calls' = Append(calls, [kind |-> kind,
                                   batch |-> Head(response \o <<Len(calls) + 1>>)])
        /\ response' = Append(response, Len(calls) + 1)
    /\ s' = ToolStart(s, <<Len(calls) + 1>>)
    /\ shown' = FinishedTurns(shown, s, s')
    /\ UNCHANGED <<happens, asks, words, phase, told, outcome, said, todo, queue,
                   steering, request>>

(* The response ends with tool calls: they are turns now, and the message   *)
(* that holds them ends the request.  The reasoning is part of its text.    *)
EndWithCalls ==
    /\ phase = "answer" /\ response # <<>>
    /\ s' = ToolUse(s, response)
    /\ shown' = FinishedTurns(shown, s, s')
    /\ request' = Append(request, Msg("assistant", said, response, 0))
    /\ phase' = "tools" /\ todo' = response
    /\ UNCHANGED <<happens, asks, words, calls, told, outcome, said, response,
                   queue, steering>>

(* _finalize_stream and "done": the rest of the text is a turn; a context    *)
(* that still holds text reports its turn once more.                        *)
Finish ==
    /\ phase = "answer" /\ response = <<>>
    /\ s' = Flush(s)
    /\ shown' = Reported(FinishedTurns(shown, s, s'), s')
    /\ outcome' = "done" /\ phase' = "idle"
    /\ UNCHANGED <<happens, asks, words, calls, told, said, response, todo, queue,
                   steering, request>>

(* One tool runs; what the user sent meanwhile is read after it.  A tool of *)
(* the client is answered without running, and the queue is not read.       *)
Execute ==
    /\ phase = "tools" /\ todo # <<>>
    /\ LET c == Head(todo)
           x == ToolResult(s, c)
           reads == calls[c].kind = "work" /\ queue # <<>>
           y == IF reads THEN Steered(x, queue) ELSE x
           z == IF calls[c].kind = "ask" THEN Flush(y) ELSE y
       IN /\ s' = z
          /\ shown' = IF calls[c].kind = "ask"
                      THEN Reported(FinishedTurns(shown, s, z), z)
                      ELSE FinishedTurns(shown, s, z)
          /\ queue' = IF reads THEN <<>> ELSE queue
          /\ steering' = IF reads THEN steering \o queue ELSE steering
          /\ request' = Append(request, Msg("tool", <<>>, <<>>, c))
          /\ IF calls[c].kind = "ask"
             THEN phase' = "idle" /\ outcome' = "asked" /\ todo' = <<>>
             ELSE phase' = phase /\ outcome' = outcome /\ todo' = Tail(todo)
    /\ UNCHANGED <<happens, asks, words, calls, told, said, response>>

(* Mutant: steering is kept for the session only.                           *)
NextResponse_Forgets ==
    /\ phase = "tools" /\ todo = <<>>
    /\ steering' = <<>> /\ phase' = "answer"
    /\ said' = <<>> /\ response' = <<>>
    /\ UNCHANGED <<happens, asks, words, calls, told, outcome, s, todo, queue,
                   request, shown>>

(* A response without native calls whose text holds calls: they are parsed  *)
(* out of the text, reasoning included (_parse_embedded_tool_calls).        *)
EmbeddedCalls ==
    /\ "embedded" \in happens
    /\ phase = "answer" /\ response = <<>> /\ Wordy(said) # <<>>
    /\ \E n \in 1..MaxTogether :
        /\ Len(calls) + n <= MaxCalls
        /\ response' = [k \in 1..n |-> Len(calls) + k]
        /\ calls' = calls \o [k \in 1..n |->
                              [kind |-> "work", batch |-> Len(calls) + 1]]
    /\ s' = ToolUse(ToolStart(s, response'), response')
    /\ shown' = FinishedTurns(shown, s, s')
    /\ request' = Append(request, Msg("assistant", said, response', 0))
    /\ phase' = "tools" /\ todo' = response'
    /\ UNCHANGED <<happens, asks, words, told, outcome, said, queue, steering>>

NextResponse ==
    /\ phase = "tools" /\ todo = <<>>
    /\ request' = IF steering = <<>> THEN request
                  ELSE WithPrompt(request, steering)
    /\ steering' = <<>> /\ phase' = "answer"
    /\ said' = <<>> /\ response' = <<>>
    /\ UNCHANGED <<happens, asks, words, calls, told, outcome, s, todo, queue,
                   shown>>

(* Mutant: a stop leaves a marker only.                                     *)
Cancel_MarkerOnly ==
    /\ "cancel" \in happens /\ phase # "idle"
    /\ s' = [Add(s, Turn(s.fresh + 1, "marker", <<>>, 0)) EXCEPT !.content = <<>>]
    /\ shown' = FinishedTurns(shown, s, s')
    /\ phase' = "idle" /\ outcome' = "cancelled" /\ todo' = <<>>
    /\ UNCHANGED <<happens, asks, words, calls, told, said, response, queue,
                   steering, request>>

(* Mutant: clients are not told of the turn a stop leaves.                  *)
Cancel_Silent ==
    /\ "cancel" \in happens /\ phase # "idle"
    /\ s' = [Add(s, Turn(s.fresh + 1, "marker", <<>>, 0)) EXCEPT !.content = <<>>]
    /\ phase' = "idle" /\ outcome' = "cancelled" /\ todo' = <<>>
    /\ UNCHANGED <<happens, asks, words, calls, told, said, response, queue,
                   steering, request, shown>>

(* cancel: what the context holds is kept as an interrupted turn, on the    *)
(* turn the deltas went to; with nothing there a marker is added.           *)
Cancel ==
    /\ "cancel" \in happens /\ phase # "idle"
    /\ LET at == {k \in DOMAIN s.turns : s.turns[k].id = s.current}
           Left(t) == Add(s, [t EXCEPT !.exchange = OfService(asks)])
           x == IF s.content = <<>> THEN Left(Turn(s.fresh + 1, "marker", <<>>, 0))
                ELSE IF at = {}
                THEN Left(Turn(s.current, IF s.kind = "thinking" THEN s.kind ELSE "text",
                               s.content, 0))
                ELSE [s EXCEPT !.turns = [k \in DOMAIN s.turns |->
                                  IF k \in at THEN [s.turns[k] EXCEPT !.text = s.content]
                                  ELSE s.turns[k]]]
       IN /\ s' = [x EXCEPT !.content = <<>>]
          /\ shown' = FinishedTurns(shown, s, x)
    /\ phase' = "idle" /\ outcome' = "cancelled" /\ todo' = <<>>
    /\ UNCHANGED <<happens, asks, words, calls, told, said, response, queue,
                   steering, request>>

(* The server fails: an error turn; the text of the buffer is dropped.      *)
Fail ==
    /\ "fail" \in happens /\ phase = "answer"
    /\ s' = Add(s, Turn(s.fresh + 1, "error", <<>>, 0))
    /\ shown' = FinishedTurns(shown, s, s')
    /\ phase' = "idle" /\ outcome' = "failed"
    /\ UNCHANGED <<happens, asks, words, calls, told, said, response, todo, queue,
                   steering, request>>

LoopNext ==
    \/ Ask \/ AskQueued \/ QueueMessage \/ SetMode
    \/ StreamWord \/ StreamBlank \/ StartCall \/ EndWithCalls \/ EmbeddedCalls
    \/ Finish \/ Execute \/ NextResponse \/ Cancel \/ Fail

LoopSpec == LoopInit /\ [][LoopNext]_loopVars


-----------------------------------------------------------------------------
(* Properties                                                               *)

(* The types of the variables.                                              *)
LoopTypeOK ==
    /\ asks \in 0..MaxAsks /\ words \in 0..MaxWords
    /\ \A c \in DOMAIN calls : calls[c].kind \in CallKinds
    /\ phase \in {"idle", "answer", "tools"}
    /\ outcome \in {"", "done", "asked", "cancelled", "failed"}
    /\ (phase = "idle") <=> (outcome # "")
    /\ \A k \in DOMAIN s.turns :
            s.turns[k].kind \in {"user", "text", "thinking", "use", "result",
                                "marker", "error"}
    /\ IsInjective([k \in DOMAIN s.turns |-> s.turns[k].id])
    /\ \A m \in ToSet(request) : m.role \in {"user", "assistant", "tool"}

(* Whatever was stopped, dropped from the context or summarised before: in  *)
(* every request a message with tool calls is followed by one answer to     *)
(* each of them, in their order, and no other answer is sent; and what a    *)
(* tool answered is what is sent while its turn is part of the context      *)
(* (_reorder_tool_messages: "must be immediately followed by tool role      *)
(* messages for ALL those tool_call_ids").                                  *)
ToolProtocol ==
    phase = "answer" =>
        /\ \A k \in DOMAIN request :
            /\ \A n \in DOMAIN request[k].calls :
                /\ k + n \in DOMAIN request
                /\ request[k + n].role = "tool"
                /\ request[k + n].answers = request[k].calls[n]
            /\ request[k].role = "tool" =>
                \E b \in 1 .. k - 1 : request[k].answers \in ToSet(request[b].calls)
        /\ IsInjective([k \in {b \in DOMAIN request : request[b].role = "tool"}
                            |-> request[k].answers])
        /\ \A m \in ToSet(request), t \in ToSet(s.turns) :
            (m.role = "tool" /\ t.kind = "result" /\ t.mode # "drop"
                /\ t.call = m.answers) => m.text = <<>>

(* Unless the server failed, the turns of an exchange hold every word the   *)
(* model streamed, once and in its order, however reasoning, answers, white *)
(* space, tool calls and a stop alternated (_flush_text_as_turn,            *)
(* _flush_partial_as_interrupted).                                          *)
WordsKept ==
    phase = "idle" /\ outcome # "failed" =>
        Wordy(told) = Flat([k \in DOMAIN s.turns |->
            IF s.turns[k].ask = asks /\ s.turns[k].kind \in {"text", "thinking"}
            THEN Wordy(s.turns[k].text) ELSE <<>>])

(* Every stored turn has been shown to the clients as finished, with the    *)
(* text that is stored.                                                     *)
StoredIsShown ==
    \A t \in ToSet(s.turns) :
        /\ t.id \in DOMAIN shown
        /\ t.kind \in {"text", "thinking"} => Wordy(shown[t.id].text) = Wordy(t.text)
        /\ (phase = "idle" \/ t.id # s.current) => shown[t.id].done

(* The calls of one response, and their results, share a group, and no      *)
(* other call is in it (_dispatch_event, tool_use_start to tool_result).    *)
GroupsAreResponses ==
    \A t \in ToSet(s.turns) :
        t.kind \in {"use", "result"} => t.group = calls[t.call].batch

(* What the user sent meanwhile becomes one turn, and the next request of   *)
(* the exchange has it once (stream_response, accumulated_steering).        *)
SteeringReachesModel ==
    /\ \A w \in 1..words :
        Cardinality({k \in DOMAIN s.turns : w \in ToSet(s.turns[k].text)})
            + (IF w \in ToSet(queue) THEN 1 ELSE 0) <= 1
    /\ phase = "answer" =>
        \A t \in ToSet(s.turns) : t.steers /\ t.ask = asks =>
            \A w \in ToSet(t.text) :
                Cardinality({k \in DOMAIN request : w \in ToSet(request[k].text)}) = 1

(* What the user asked is part of the request (build_messages: "The FULL    *)
(* chat history (including system) must be sent every time").               *)
PromptReachesModel ==
    phase = "answer" =>
        \A t \in ToSet(s.turns) : t.kind = "user" /\ t.ask = asks =>
            \E m \in ToSet(request) : ToSet(t.text) \subseteq ToSet(m.text)

(* The prompt is sent once.                                                 *)
PromptOnce ==
    phase = "answer" =>
        \A k \in DOMAIN request : request[k].role = "user" => IsInjective(request[k].text)

(* The prompt and all that answers it share an exchange id (models.py, Turn:*)
(* "Groups turns in an agentic loop (user prompt + all responses)").        *)
ExchangeIsWhole ==
    \A t, u \in ToSet(s.turns) : t.ask = u.ask => t.exchange = u.exchange

(* A client shows no text, once an exchange is done, but that of its turns. *)
ShownIsStored ==
    phase = "idle" /\ outcome = "done" =>
        \A id \in DOMAIN shown : Wordy(shown[id].text) # <<>> =>
            \E t \in ToSet(s.turns) : t.id = id

(* A turn said to reply to a steering message follows one in its exchange.  *)
RepliesToSteering ==
    \A k \in DOMAIN s.turns : s.turns[k].replies =>
        \E b \in 1 .. k - 1 : s.turns[b].steers /\ s.turns[b].ask = s.turns[k].ask

=============================================================================
