------------------------ MODULE WaitingClient_proofs ------------------------
(***************************************************************************)
(* Proofs about a session with one client that waits for its answers, for  *)
(* every number of exchanges, messages and events: what the client relies  *)
(* on, and that the session implements the protocol of exchanges.          *)
(*                                                                         *)
(* The argument is one inductive invariant, WaitInv.  The events of the    *)
(* runner do not say whose they are, so everything rests on this: at most  *)
(* one exchange is owed an answer, all that is still to be dispatched is   *)
(* its, and its end, once reported, comes last.                            *)
(***************************************************************************)
EXTENDS StreamLifecycle_proofs, SequenceTheorems


(* What the streams have put and the pump has not dispatched.               *)
Coming == batch \o evq

(* The exchange has a stream, and the client has not been told of its end.  *)
Answering(e) == submit[e] = "started" /\ notices[e] = <<>>

(* Someone is owed something: the session has at most one such exchange.    *)
Busy(e) == submit[e] = "saving" \/ Answering(e)

(* States of a task whose end is in the queue, and the end that belongs.    *)
Reported == Final \cup {"unwinding"}

Fits(type, state) ==
    IF type = "cancelled" THEN state \in {"unwinding", "cancelled"}
    ELSE type \in Final /\ state = type

(* s is what is to come of the answer to e, whose task has come to a state: *)
(* nothing of another exchange, and its end, when reported, last.           *)
EndComesLast(s, e, state) ==
    /\ \A i \in 1..Len(s) : s[i].of = e
    /\ IF state \in Reported
       THEN /\ s # <<>>
            /\ Fits(s[Len(s)].type, state)
            /\ \A i \in 1..Len(s) - 1 : s[i].type \in Output
       ELSE \A i \in 1..Len(s) : s[i].type \in Output

(* Text of e that is in no turn is in its context, or to come, and no tool  *)
(* call comes after it.                                                     *)
TextComes(s, e, contexts) ==
    \/ /\ e \in contexts
       /\ \A i \in 1..Len(s) : s[i].type # "tool_use_start"
    \/ \E i \in 1..Len(s) :
          /\ s[i].type = "text"
          /\ \A j \in i + 1..Len(s) : s[j].type # "tool_use_start"

AnswerInv(e) ==
    /\ e = current /\ e = ctx
    /\ IsStreaming <=> task[e] \in {"running", "finalizing"}
    /\ EndComesLast(Coming, e, task[e])
    /\ e \in unsaved => TextComes(Coming, e, content)

(* What StreamState says of a stream whose end was told.                    *)
StatusOf(notice) ==
    CASE notice = "done" -> "completed"
      [] notice = "error" -> "error"
      [] notice = "cancelled" -> "cancelled"

AnsweredInv(e) ==
    /\ submit[e] = "started"
    /\ task[e] \in Reported
    /\ stream[e] = StatusOf(notices[e][1])
    /\ task[e] \in {"unwinding", "cancelled"} /\ e \in unsaved => e \in kept

ExchangeInv(e) ==
    /\ submit[e] # "refused"
    /\ submit[e] # "started" =>
          task[e] = "none" /\ stream[e] = "none" /\ notices[e] = <<>> /\ e \notin unsaved
    /\ submit[e] = "started" => task[e] # "none" /\ stream[e] # "none"
    /\ Answering(e) => AnswerInv(e)
    /\ notices[e] # <<>> => AnsweredInv(e)
    /\ task[e] = "unwinding" => cancelEmitted
    /\ lastTurn.of = e => notices[e] # <<>>

(* With no answer under way the runner, its queue and the context rest.     *)
QuietInv ==
    (\A e \in Exchanges : ~Answering(e)) =>
        ~IsStreaming /\ Coming = <<>> /\ ctx = NoExchange

PumpInv ==
    /\ pump # "telling"
    /\ pump \in {"sleeping", "submitting"} => batch = <<>>
    /\ pump \in {"polled", "dispatching"} => batch # <<>>
    /\ pump = "dispatching" => pumpCtx = ctx
    /\ pump = "submitting" =>
          pumpSubmit \in Exchanges /\ submit[pumpSubmit] = "saving"
    /\ pump # "submitting" => pumpSubmit = NoExchange

AloneInv == \A e, f \in Exchanges : Busy(e) /\ Busy(f) => e = f

WaitInv ==
    Waits =>
        /\ alerts = 0 /\ lost = {}
        /\ IsStreaming => ~cancelEmitted
        /\ \A e \in Exchanges : ExchangeInv(e)
        /\ AloneInv
        /\ QuietInv
        /\ PumpInv

-----------------------------------------------------------------------------
(* Lemmas about what is to come.                                            *)

LEMMA ComingPut ==
    ASSUME NEW b \in Seq(Event), NEW q \in Seq(Event), NEW x \in Event
    PROVE  b \o Append(q, x) = Append(b \o q, x)
  OBVIOUS

LEMMA ComingTail ==
    ASSUME NEW b \in Seq(Event), NEW q \in Seq(Event), b # <<>>
    PROVE  /\ b \o q # <<>>
           /\ Head(b \o q) = Head(b)
           /\ Tail(b \o q) = Tail(b) \o q
  OBVIOUS

LEMMA ComingEmpty ==
    ASSUME NEW b \in Seq(Event), NEW q \in Seq(Event)
    PROVE  b \o q = <<>> <=> b = <<>> /\ q = <<>>
  OBVIOUS

LEMMA ComingPolled ==
    ASSUME NEW q \in Seq(Event)
    PROVE  <<>> \o q = q /\ q \o <<>> = q
  OBVIOUS

LEMMA One ==
    ASSUME NEW n \in Nat, n >= 1, ~(n >= 2)
    PROVE  n = 1
  OBVIOUS

LEMMA OnlyOne ==
    ASSUME NEW s \in Seq(Event), s # <<>>
    PROVE  Tail(s) = <<>> <=> Len(s) = 1
  <1>1. Len(s) \in Nat /\ Len(s) # 0
    BY EmptySeq
  <1>2. Tail(s) \in Seq(Event) /\ Len(Tail(s)) = Len(s) - 1
    BY <1>1
  <1> QED  BY <1>1, <1>2, EmptySeq

(* A running task puts output.                                              *)
LEMMA OutputComes ==
    ASSUME NEW s \in Seq(Event), NEW e, NEW state, NEW x \in Event,
           EndComesLast(s, e, state), state \notin Reported,
           x.of = e, x.type \in Output
    PROVE  EndComesLast(Append(s, x), e, state)
  BY DEF EndComesLast

(* A task reports its end.                                                  *)
LEMMA EndComes ==
    ASSUME NEW s \in Seq(Event), NEW e, NEW state, NEW end \in Reported,
           NEW x \in Event,
           EndComesLast(s, e, state), state \notin Reported,
           x.of = e, Fits(x.type, end)
    PROVE  EndComesLast(Append(s, x), e, end)
  <1>1. /\ Len(s) \in Nat
        /\ Len(Append(s, x)) = Len(s) + 1
        /\ Append(s, x)[Len(s) + 1] = x
        /\ \A i \in 1..Len(s) : Append(s, x)[i] = s[i]
        /\ Append(s, x) # <<>>
    OBVIOUS
  <1>2. /\ \A i \in 1..Len(s) : s[i].of = e
        /\ \A i \in 1..Len(s) : s[i].type \in Output
    BY DEF EndComesLast
  <1>3. \A i \in 1..Len(Append(s, x)) : Append(s, x)[i].of = e
    BY <1>1, <1>2
  <1>4. \A i \in 1..Len(Append(s, x)) - 1 : Append(s, x)[i].type \in Output
    BY <1>1, <1>2
  <1> QED  BY <1>1, <1>3, <1>4 DEF EndComesLast

(* Output is dispatched: the end stays last.                                *)
LEMMA OutputGone ==
    ASSUME NEW s \in Seq(Event), NEW e, NEW state,
           EndComesLast(s, e, state), s # <<>>, Head(s).type \in Output
    PROVE  EndComesLast(Tail(s), e, state)
  <1>1. /\ Len(s) \in Nat /\ Len(s) >= 1
        /\ Len(Tail(s)) = Len(s) - 1
        /\ \A i \in 1..Len(Tail(s)) : Tail(s)[i] = s[i + 1]
        /\ Head(s) = s[1]
    OBVIOUS
  <1>2. \A i \in 1..Len(Tail(s)) : Tail(s)[i].of = e
    BY <1>1 DEF EndComesLast
  <1>3. CASE state \in Reported
    <2>1. Len(s) # 1
      BY <1>1, <1>3 DEF EndComesLast, Fits, Output, Final
    <2>2. Tail(s)[Len(Tail(s))] = s[Len(s)]
      BY <1>1, <2>1
    <2>4. Tail(s) # <<>>
      BY <2>1, OnlyOne
    <2>3. \A i \in 1..Len(Tail(s)) - 1 : Tail(s)[i].type \in Output
      BY <1>1, <1>3 DEF EndComesLast
    <2> QED  BY <1>2, <1>3, <2>2, <2>3, <2>4 DEF EndComesLast
  <1>4. CASE state \notin Reported
    BY <1>1, <1>2, <1>4 DEF EndComesLast
  <1> QED  BY <1>3, <1>4

(* An end that is dispatched is the task's own, and nothing follows it.     *)
LEMMA EndIsLast ==
    ASSUME NEW s \in Seq(Event), NEW e, NEW state,
           EndComesLast(s, e, state), s # <<>>, Head(s).type \in Final
    PROVE  Tail(s) = <<>> /\ state \in Reported /\ Fits(Head(s).type, state)
  <1>1. /\ Len(s) \in Nat /\ Len(s) >= 1
        /\ Head(s) = s[1]
    OBVIOUS
  <1>2. state \in Reported
    BY <1>1 DEF EndComesLast, Output, Final
  <1>3. \A i \in 1..Len(s) - 1 : s[i].type \in Output
    BY <1>2 DEF EndComesLast
  <1>4. Len(s) = 1
    <2>1. s[1].type \notin Output
      BY <1>1 DEF Output, Final
    <2>2. ~(Len(s) >= 2)
      BY <1>1, <1>3, <2>1
    <2> QED  BY <1>1, <2>2, One
  <1>5. Tail(s) = <<>>
    BY <1>4, OnlyOne
  <1> QED  BY <1>1, <1>2, <1>4, <1>5 DEF EndComesLast

LEMMA TextPut ==
    ASSUME NEW s \in Seq(Event), NEW e, NEW contexts, NEW x \in Event,
           \/ x.type = "text"
           \/ x.type # "tool_use_start" /\ TextComes(s, e, contexts)
    PROVE  TextComes(Append(s, x), e, contexts)
  <1>1. /\ Len(s) \in Nat
        /\ Len(Append(s, x)) = Len(s) + 1
        /\ Append(s, x)[Len(s) + 1] = x
        /\ \A i \in 1..Len(s) : Append(s, x)[i] = s[i]
    OBVIOUS
  <1>2. CASE x.type = "text"
    BY <1>1, <1>2 DEF TextComes
  <1>3. CASE x.type # "tool_use_start" /\ TextComes(s, e, contexts)
    BY <1>1, <1>3 DEF TextComes
  <1> QED  BY <1>2, <1>3

(* Dispatched text is in the context; what a tool call takes out of it is   *)
(* in a turn.                                                               *)
LEMMA TextGone ==
    ASSUME NEW s \in Seq(Event), NEW e, NEW contexts, NEW after,
           TextComes(s, e, contexts), s # <<>>,
           Head(s).type = "text" => e \in after,
           Head(s).type # "tool_use_start" =>
               (e \in contexts => e \in after)
    PROVE  TextComes(Tail(s), e, after)
  <1>1. /\ Len(s) \in Nat /\ Len(s) >= 1
        /\ Len(Tail(s)) = Len(s) - 1
        /\ \A i \in 1..Len(Tail(s)) : Tail(s)[i] = s[i + 1]
        /\ Head(s) = s[1]
    OBVIOUS
  <1>2. CASE /\ e \in contexts
             /\ \A i \in 1..Len(s) : s[i].type # "tool_use_start"
    BY <1>1, <1>2 DEF TextComes
  <1>3. ASSUME NEW i \in 1..Len(s), s[i].type = "text",
               \A j \in i + 1..Len(s) : s[j].type # "tool_use_start"
        PROVE  TextComes(Tail(s), e, after)
    <2>1. CASE i = 1
      BY <1>1, <1>3, <2>1 DEF TextComes
    <2>2. CASE i # 1
      <3>1. i - 1 \in 1..Len(Tail(s)) /\ Tail(s)[i - 1].type = "text"
        BY <1>1, <1>3, <2>2
      <3>2. \A j \in (i - 1) + 1..Len(Tail(s)) :
               Tail(s)[j].type # "tool_use_start"
        BY <1>1, <1>3
      <3> QED  BY <3>1, <3>2 DEF TextComes
    <2> QED  BY <2>1, <2>2
  <1> QED  BY <1>2, <1>3 DEF TextComes

LEMMA TextThere ==
    ASSUME NEW s \in Seq(Event), NEW e, NEW contexts,
           TextComes(s, e, contexts), s # <<>>, Tail(s) = <<>>,
           Head(s).type # "text"
    PROVE  e \in contexts
  <1>1. Len(s) = 1 /\ Head(s) = s[1]
    BY OnlyOne
  <1> QED  BY <1>1 DEF TextComes

-----------------------------------------------------------------------------
(* Shapes of steps.                                                         *)

LEMMA WaitFacts ==
    ASSUME WaitInv, Waits
    PROVE  /\ alerts = 0 /\ lost = {}
           /\ IsStreaming => ~cancelEmitted
           /\ \A e \in Exchanges : ExchangeInv(e)
           /\ AloneInv /\ QuietInv /\ PumpInv
  BY DEF WaitInv

LEMMA TypeFacts ==
    ASSUME TypeInv
    PROVE  /\ batch \in Seq(Event) /\ evq \in Seq(Event)
           /\ Coming \in Seq(Event)
           /\ task \in [Exchanges -> TaskState]
           /\ submit \in [Exchanges -> {"free", "saving", "started", "refused"}]
           /\ stream \in [Exchanges -> {"none"} \cup Active \cup Closed]
           /\ notices \in [Exchanges -> Seq({"done", "error", "cancelled"})]
           /\ StreamingHasTask
  BY DEF TypeInv, TypeOK, LifecycleTypeOK, RunnerTypeOK, Coming

(* The answer to e goes on: its task, its text, its stream or the pump.     *)
LEMMA AnswerGoesOn ==
    ASSUME TypeInv, WaitInv, Waits, NEW e \in Exchanges, Answering(e),
           UNCHANGED <<around, submit, lost, ctx, alerts, notices, kept, current>>,
           NEW state, task' = [task EXCEPT ![e] = state], state # "none",
           IsStreaming' <=> state \in {"running", "finalizing"},
           IsStreaming' => ~cancelEmitted',
           cancelEmitted => cancelEmitted', state = "unwinding" => cancelEmitted',
           \A f \in Exchanges : f # e => stream'[f] = stream[f],
           stream'[e] # "none",
           EndComesLast(Coming', e, state),
           unsaved' \subseteq unsaved \cup {e},
           e \in unsaved' => TextComes(Coming', e, content'),
           lastTurn' \in {lastTurn, Plain},
           PumpInv'
    PROVE  WaitInv'
  <1>1. ExchangeInv(e) /\ AnswerInv(e)
    BY WaitFacts DEF ExchangeInv
  <1>2. task'[e] = state /\ \A f \in Exchanges : f # e => task'[f] = task[f]
    BY TypeFacts
  <1>3. \A f \in Exchanges : Answering(f)' <=> Answering(f)
    BY DEF Answering
  <1>4. ExchangeInv(e)'
    <2>1. AnswerInv(e)'
      BY <1>1, <1>2 DEF AnswerInv
    <2>2. lastTurn'.of # e
      BY <1>1, RunnerAssumption DEF ExchangeInv, Plain, Answering
    <2> QED  BY <1>1, <1>2, <2>1, <2>2 DEF ExchangeInv, Answering
  <1>5. ASSUME NEW f \in Exchanges, f # e
        PROVE  ExchangeInv(f)'
    <2>1. ExchangeInv(f) /\ ~Answering(f)
      BY <1>5, WaitFacts DEF AloneInv, Busy
    <2>2. task'[f] = task[f] /\ stream'[f] = stream[f]
          /\ (f \in unsaved' => f \in unsaved)
      BY <1>2, <1>5
    <2>3. lastTurn'.of = f => lastTurn.of = f
      BY RunnerAssumption DEF Plain
    <2>4. AnsweredInv(f) => AnsweredInv(f)'
      BY <2>2 DEF AnsweredInv
    <2> QED  BY <1>3, <2>1, <2>2, <2>3, <2>4 DEF ExchangeInv
  <1>6. AloneInv'
    BY <1>3, WaitFacts DEF AloneInv, Busy
  <1>7. QuietInv'
    BY <1>3 DEF QuietInv
  <1> QED  BY <1>4, <1>5, <1>6, <1>7, WaitFacts DEF WaitInv

LEMMA SavingFrom ==
    ASSUME submit \in [Exchanges -> {"free", "saving", "started", "refused"}],
           \/ submit' = submit
           \/ \E f \in Exchanges :
                 submit[f] = "free" /\ submit' = [submit EXCEPT ![f] = "saving"]
    PROVE  \A f \in Exchanges :
              \/ submit'[f] = submit[f]
              \/ submit[f] = "free" /\ submit'[f] = "saving"
  OBVIOUS

(* The client is told how e ended, and with it the pump is through.  What   *)
(* is queued may be submitted right away.                                   *)
LEMMA AnswerGiven ==
    ASSUME TypeInv, WaitInv, Waits, NEW e \in Exchanges, Answering(e),
           UNCHANGED <<around, lost, alerts, current, status, cancelEmitted,
                       task, evq, unsaved>>,
           NEW outcome, notices' = [notices EXCEPT ![e] = <<outcome>>],
           stream' = [stream EXCEPT ![e] = StatusOf(outcome)],
           StatusOf(outcome) # "none",
           ctx' = NoExchange, Coming' = <<>>, batch' = <<>>,
           task[e] \in Reported,
           kept \subseteq kept',
           task[e] \in {"unwinding", "cancelled"} /\ e \in unsaved => e \in kept',
           lastTurn'.of \in Exchanges \cup {NoExchange} =>
               lastTurn'.of \in {lastTurn.of, NoExchange, e},
           \/ /\ submit' = submit
              /\ pump' = "sleeping" /\ pumpSubmit' = NoExchange
           \/ \E f \in Exchanges :
                 /\ submit[f] = "free" /\ submit' = [submit EXCEPT ![f] = "saving"]
                 /\ pump' = "submitting" /\ pumpSubmit' = f
    PROVE  WaitInv'
  <1>1. ExchangeInv(e) /\ AnswerInv(e) /\ submit[e] = "started"
    BY WaitFacts DEF ExchangeInv, Answering
  <1>2. notices'[e] = <<outcome>> /\ stream'[e] = StatusOf(outcome)
        /\ \A f \in Exchanges :
              f # e => notices'[f] = notices[f] /\ stream'[f] = stream[f]
    BY TypeFacts
  <1>3. <<outcome>> # <<>> /\ <<outcome>>[1] = outcome
    OBVIOUS
  <1>4. ~IsStreaming'
    BY <1>1 DEF AnswerInv, Reported, Final, IsStreaming
  <1>5. \A f \in Exchanges : submit'[f] = "started" <=> submit[f] = "started"
    BY TypeFacts
  <1>6. \A f \in Exchanges : ~Answering(f)'
    <2> SUFFICES ASSUME NEW f \in Exchanges, Answering(f)'
                 PROVE  FALSE
      OBVIOUS
    <2>1. f # e
      BY <1>2, <1>3 DEF Answering
    <2>2. Answering(f)
      BY <1>2, <1>5, <2>1 DEF Answering
    <2> QED  BY <2>1, <2>2, WaitFacts DEF AloneInv, Busy
  <1>7. ExchangeInv(e)'
    <2>1. AnsweredInv(e)'
      BY <1>1, <1>2, <1>3, <1>5 DEF AnsweredInv
    <2>2. submit'[e] = "started"
      BY <1>1, <1>5
    <2> QED  BY <1>1, <1>2, <1>3, <1>6, <2>1, <2>2 DEF ExchangeInv
  <1>8. ASSUME NEW f \in Exchanges, f # e
        PROVE  ExchangeInv(f)'
    <2>1. ExchangeInv(f) /\ ~Busy(f)
      BY <1>8, WaitFacts DEF AloneInv, Busy
    <2>2. notices'[f] = notices[f] /\ stream'[f] = stream[f]
      BY <1>2, <1>8
    <2>3. \/ submit'[f] = submit[f]
          \/ submit[f] = "free" /\ submit'[f] = "saving"
      BY TypeFacts, SavingFrom
    <2>4. lastTurn'.of = f => lastTurn.of = f
      BY <1>8, RunnerAssumption
    <2>5. AnsweredInv(f) => AnsweredInv(f)'
      BY <1>5, <2>2 DEF AnsweredInv
    <2> QED  BY <1>6, <2>1, <2>2, <2>3, <2>4, <2>5 DEF ExchangeInv
  <1>9. AloneInv'
    <2>1. \A f \in Exchanges : submit[f] # "saving"
      BY <1>1, WaitFacts DEF AloneInv, Busy, Answering
    <2>2. \A f, g \in Exchanges :
             submit'[f] = "saving" /\ submit'[g] = "saving" => f = g
      BY <2>1, TypeFacts
    <2> QED  BY <1>6, <2>2 DEF AloneInv, Busy
  <1>10. QuietInv'
    BY <1>4 DEF QuietInv
  <1>11. PumpInv'
    BY TypeFacts DEF PumpInv
  <1> QED  BY <1>4, <1>7, <1>8, <1>9, <1>10, <1>11, WaitFacts DEF WaitInv

(* Nothing the client waits for is touched.                                 *)
LEMMA NothingHappens ==
    ASSUME TypeInv, WaitInv, Waits,
           UNCHANGED <<around, alerts, lost, status, cancelEmitted, evq, task,
                       current, submit, stream, ctx, content, lastTurn,
                       notices, unsaved, kept, pumpVars>>
    PROVE  WaitInv'
  <1>1. PumpInv'
    BY WaitFacts DEF PumpInv, pumpVars
  <1>2. QuietInv' /\ AloneInv'
    BY WaitFacts DEF QuietInv, AloneInv, Busy, Answering, Coming, pumpVars,
                     IsStreaming
  <1>3. ASSUME NEW e \in Exchanges
        PROVE  ExchangeInv(e)'
    <2>1. ExchangeInv(e)
      BY WaitFacts
    <2>2. AnswerInv(e) => AnswerInv(e)'
      BY DEF AnswerInv, Coming, pumpVars, IsStreaming
    <2>3. AnsweredInv(e) => AnsweredInv(e)'
      BY DEF AnsweredInv
    <2> QED  BY <2>1, <2>2, <2>3 DEF ExchangeInv, Answering
  <1> QED  BY <1>1, <1>2, <1>3, WaitFacts DEF WaitInv, IsStreaming

(* A client with all its answers submits the next message.                  *)
LEMMA SubmitDirectWaits ==
    ASSUME TypeInv, WaitInv, Waits, UNCHANGED around,
           NEW e \in Exchanges, SubmitDirect(e)
    PROVE  WaitInv'
  <1>1. /\ \A f \in Exchanges : submit[f] # "saving" /\ ~Answering(f)
        /\ submit[e] = "free" /\ submit' = [submit EXCEPT ![e] = "saving"]
        /\ lastTurn' = Plain
        /\ UNCHANGED <<alerts, lost, status, cancelEmitted, evq, task, current,
                       stream, ctx, content, notices, unsaved, kept, pumpVars>>
    BY DEF SubmitDirect, AllAnswered, Accept, Waits, Answering, runnerVars,
           historyVars
  <1>2. /\ submit'[e] = "saving"
        /\ \A f \in Exchanges : f # e => submit'[f] = submit[f]
    BY <1>1, TypeFacts
  <1>3. \A f \in Exchanges : ~Answering(f)'
    BY <1>1, <1>2 DEF Answering
  <1>4. QuietInv'
    BY <1>1, WaitFacts DEF QuietInv, Coming, pumpVars, IsStreaming
  <1>5. AloneInv'
    BY <1>1, <1>2, <1>3 DEF AloneInv, Busy
  <1>6. PumpInv'
    BY <1>1, WaitFacts DEF PumpInv, pumpVars
  <1>7. ASSUME NEW f \in Exchanges
        PROVE  ExchangeInv(f)'
    <2>1. ExchangeInv(f)
      BY WaitFacts
    <2>2. lastTurn'.of # f
      BY <1>1, RunnerAssumption DEF Plain
    <2>3. AnsweredInv(f) => AnsweredInv(f)'
      BY <1>1, <1>2 DEF AnsweredInv
    <2> QED  BY <1>1, <1>2, <1>3, <2>1, <2>2, <2>3 DEF ExchangeInv
  <1> QED  BY <1>1, <1>4, <1>5, <1>6, <1>7, WaitFacts DEF WaitInv, IsStreaming

(* The submission that was saving starts its stream: nothing streams, so it *)
(* is not refused, and nothing of an older stream is left.                  *)
LEMMA LaunchFacts ==
    ASSUME TypeInv, WaitInv, Waits, UNCHANGED around, NEW e \in Exchanges,
           LaunchSubmitted(e) \/ LaunchPumped(e)
    PROVE  /\ submit[e] = "saving" /\ submit' = [submit EXCEPT ![e] = "started"]
           /\ \A f \in Exchanges : ~Answering(f) /\ (submit[f] = "saving" => f = e)
           /\ \A f \in Exchanges : task[f] # "unwinding"
           /\ ~IsStreaming /\ StartBackground(e)
           /\ stream' = [stream EXCEPT ![e] = "streaming"]
           /\ ctx' = e
           /\ batch = <<>> /\ batch' = <<>> /\ pump' = "sleeping"
           /\ pumpSubmit' = NoExchange
           /\ UNCHANGED <<lost, alerts, lastTurn, notices, unsaved, kept>>
  <1>1. Launch(e)
    BY DEF LaunchSubmitted, LaunchPumped
  <1>2. submit[e] = "saving"
    BY <1>1 DEF Launch
  <1>3. \A f \in Exchanges : ~Answering(f) /\ (submit[f] = "saving" => f = e)
    BY <1>2, WaitFacts DEF AloneInv, Busy, Answering
  <1>4. ~IsStreaming /\ batch = <<>>
    BY <1>3, WaitFacts, TypeFacts, ComingEmpty DEF QuietInv, Coming
  <1>5. /\ StartBackground(e)
        /\ submit' = [submit EXCEPT ![e] = "started"]
        /\ \A f \in Exchanges : task[f] # "unwinding"
    BY <1>1, <1>4 DEF Launch, MayStart, Waits
  <1>6. /\ stream' = [stream EXCEPT ![e] = "streaming"]
        /\ ctx' = e
        /\ UNCHANGED <<lost, alerts, lastTurn, notices, unsaved, kept>>
    BY <1>1 DEF Launch, historyVars
  <1>7. submit'[e] = "started"
    BY <1>5, TypeFacts
  <1>8. batch' = <<>> /\ pump' = "sleeping" /\ pumpSubmit' = NoExchange
    <2>1. CASE LaunchSubmitted(e)
      <3>1. UNCHANGED pumpVars /\ e # pumpSubmit
        BY <2>1 DEF LaunchSubmitted
      <3>2. pump = "sleeping" /\ pumpSubmit = NoExchange
        BY <1>3, <1>4, <3>1, WaitFacts DEF PumpInv, TypeInv, TypeOK, LifecycleTypeOK
      <3> QED  BY <1>4, <3>1, <3>2 DEF pumpVars
    <2>2. CASE LaunchPumped(e)
      <3>1. Proceed(batch)
        BY <1>7, <2>2 DEF LaunchPumped
      <3> QED  BY <1>4, <3>1 DEF Proceed
    <2> QED  BY <2>1, <2>2
  <1> QED  BY <1>2, <1>3, <1>4, <1>5, <1>6, <1>8

LEMMA LaunchWaits ==
    ASSUME TypeInv, WaitInv, Waits, UNCHANGED around, NEW e \in Exchanges,
           LaunchSubmitted(e) \/ LaunchPumped(e)
    PROVE  WaitInv'
  <1>1. /\ submit'[e] = "started" /\ stream'[e] = "streaming"
        /\ task'[e] = "running"
        /\ \A f \in Exchanges : f # e =>
              submit'[f] = submit[f] /\ stream'[f] = stream[f] /\ task'[f] = task[f]
    <2>1. /\ submit' = [submit EXCEPT ![e] = "started"]
          /\ stream' = [stream EXCEPT ![e] = "streaming"]
          /\ task' = [task EXCEPT ![e] = "running"]
      BY LaunchFacts DEF StartBackground
    <2> QED  BY <2>1, TypeFacts
  <1>2. Coming' = <<>>
    <2>1. batch' = <<>> /\ evq' = <<>>
      BY LaunchFacts DEF StartBackground
    <2> QED  BY <2>1, NoEvents, ComingPolled DEF Coming
  <1>3. IsStreaming' /\ ~cancelEmitted' /\ current' = e
    BY LaunchFacts DEF StartBackground, IsStreaming
  <1>4. ExchangeInv(e) /\ notices[e] = <<>> /\ e \notin unsaved
    BY LaunchFacts, WaitFacts DEF ExchangeInv
  <1>5. ExchangeInv(e)'
    <2>1. EndComesLast(Coming', e, task'[e])
      BY <1>1, <1>2, EmptySeq DEF EndComesLast, Reported, Final
    <2>2. AnswerInv(e)'
      BY <1>1, <1>3, <1>4, <2>1, LaunchFacts DEF AnswerInv
    <2> QED  BY <1>1, <1>4, <2>2, LaunchFacts DEF ExchangeInv
  <1>6. ASSUME NEW f \in Exchanges, f # e
        PROVE  ExchangeInv(f)' /\ ~Busy(f)'
    <2>1. ExchangeInv(f) /\ ~Busy(f) /\ task[f] # "unwinding"
      BY <1>6, WaitFacts, LaunchFacts DEF Busy
    <2>2. AnsweredInv(f) => AnsweredInv(f)'
      BY <1>1, <1>6, LaunchFacts DEF AnsweredInv
    <2>3. ~Busy(f)'
      BY <1>1, <1>6, <2>1, LaunchFacts DEF Busy, Answering
    <2> QED  BY <1>1, <1>6, <2>1, <2>2, <2>3, LaunchFacts
             DEF ExchangeInv, Busy
  <1>7. AloneInv'
    BY <1>6 DEF AloneInv
  <1>8. QuietInv'
    BY <1>1, <1>4, LaunchFacts DEF QuietInv, Answering
  <1>9. PumpInv'
    BY LaunchFacts DEF PumpInv
  <1> QED  BY <1>3, <1>5, <1>6, <1>7, <1>8, <1>9, WaitFacts, LaunchFacts
           DEF WaitInv

-----------------------------------------------------------------------------
(* The runner's steps.                                                      *)

(* A task that has not reported its end answers an exchange that waits.     *)
LEMMA AtWork ==
    ASSUME TypeInv, WaitInv, Waits, NEW e \in Exchanges,
           task[e] # "none", task[e] \notin Reported
    PROVE  Answering(e) /\ AnswerInv(e) /\ ExchangeInv(e)
  <1>1. ExchangeInv(e)
    BY WaitFacts
  <1>2. submit[e] = "started"
    BY <1>1 DEF ExchangeInv
  <1>3. notices[e] = <<>>
    BY <1>1 DEF ExchangeInv, AnsweredInv
  <1> QED  BY <1>1, <1>2, <1>3 DEF ExchangeInv, Answering

LEMMA PutComes ==
    ASSUME TypeInv, NEW e \in Exchanges, NEW type \in Output \cup Final,
           Put(type, e), UNCHANGED batch
    PROVE  \E x \in Event : x = [type |-> type, of |-> e] /\ Coming' = Append(Coming, x)
  <1>1. [type |-> type, of |-> e] \in Event
    BY DEF Event
  <1> QED  BY <1>1, TypeFacts, ComingPut DEF Put, Coming

LEMMA StreamWaits ==
    ASSUME TypeInv, WaitInv, Waits, UNCHANGED around, NEW e \in Exchanges,
           Stream(e)
    PROVE  WaitInv'
  <1>1. PICK type \in Output :
           /\ Produce(e, type)
           /\ unsaved' = CASE type = "text" -> unsaved \cup {e}
                           [] type = "tool_use_start" -> unsaved \ {e}
                           [] OTHER -> unsaved
           /\ lastTurn' \in {Plain, lastTurn}
    BY DEF Stream
  <1>2. UNCHANGED <<submit, lost, pump, batch, pumpCtx, pumpSubmit, notices, kept,
                    stream, ctx, content, alerts, status, current, cancelEmitted,
                    task>>
    BY <1>1 DEF Stream, Produce, submitVars, pumpVars
  <1>3. task[e] = "running" /\ task[e] # "none" /\ task[e] \notin Reported
    BY <1>1 DEF Produce, Reported, Final
  <1>4. Answering(e) /\ AnswerInv(e) /\ ExchangeInv(e)
    BY <1>3, AtWork
  <1>5. PICK x \in Event : x = [type |-> type, of |-> e]
                           /\ Coming' = Append(Coming, x)
    BY <1>1, <1>2, PutComes DEF Produce
  <1>6. x.type = type /\ x.of = e
    BY <1>5
  <1>7. EndComesLast(Coming', e, task[e])
    BY <1>3, <1>4, <1>5, <1>6, OutputComes, TypeFacts DEF AnswerInv
  <1>8. e \in unsaved' => TextComes(Coming', e, content')
    <2>1. CASE type = "text"
      BY <1>2, <1>5, <1>6, <2>1, TextPut, TypeFacts
    <2>2. CASE type = "tool_use_start"
      BY <1>1, <2>2
    <2>3. CASE type \notin {"text", "tool_use_start"}
      <3>1. unsaved' = unsaved
        BY <1>1, <2>3
      <3> QED  BY <1>2, <1>4, <1>5, <1>6, <2>3, <3>1, TextPut, TypeFacts
               DEF AnswerInv
    <2> QED  BY <2>1, <2>2, <2>3
  <1>9. unsaved' \subseteq unsaved \cup {e}
    BY <1>1
  <1>10. PumpInv'
    BY <1>2, WaitFacts DEF PumpInv
  <1>11. task' = [task EXCEPT ![e] = task[e]]
    BY <1>2, TypeFacts
  <1>12. stream'[e] # "none" /\ (IsStreaming' <=> task[e] \in {"running", "finalizing"})
         /\ (IsStreaming' => ~cancelEmitted')
    BY <1>2, <1>4, WaitFacts DEF ExchangeInv, AnswerInv, Answering, IsStreaming
  <1> QED  BY <1>1, <1>2, <1>3, <1>4, <1>7, <1>8, <1>9, <1>10, <1>11, <1>12,
              AnswerGoesOn

(* A cancelled task unwinds after its client has been told.                 *)
LEMMA LateUnwind ==
    ASSUME TypeInv, WaitInv, Waits, NEW e \in Exchanges,
           task[e] = "unwinding", ~Answering(e),
           task' = [task EXCEPT ![e] = "cancelled"],
           ~IsStreaming, ~IsStreaming', cancelEmitted',
           UNCHANGED <<around, alerts, lost, evq, current, submit, stream, ctx,
                       content, lastTurn, notices, unsaved, kept, pumpVars>>
    PROVE  WaitInv'
  <1>1. task'[e] = "cancelled" /\ \A f \in Exchanges : f # e => task'[f] = task[f]
    BY TypeFacts
  <1>2. PumpInv'
    BY WaitFacts DEF PumpInv, pumpVars
  <1>3. QuietInv' /\ AloneInv'
    BY WaitFacts DEF QuietInv, AloneInv, Busy, Answering, Coming, pumpVars
  <1>4. ASSUME NEW f \in Exchanges
        PROVE  ExchangeInv(f)'
    <2>1. ExchangeInv(f)
      BY WaitFacts
    <2>2. f # e /\ AnswerInv(f) => AnswerInv(f)'
      BY <1>1 DEF AnswerInv, Coming, pumpVars
    <2>3. AnsweredInv(f) => AnsweredInv(f)'
      BY <1>1 DEF AnsweredInv, Reported, Final
    <2>4. Answering(f)' <=> Answering(f)
      BY DEF Answering
    <2>5. task'[f] = "none" <=> task[f] = "none"
      BY <1>1
    <2> QED  BY <2>1, <2>2, <2>3, <2>4, <2>5 DEF ExchangeInv
  <1> QED  BY <1>2, <1>3, <1>4, WaitFacts DEF WaitInv

(* A step of a task towards its end, which it may report.                   *)
LEMMA TaskMoves ==
    ASSUME TypeInv, WaitInv, Waits, NEW e \in Exchanges,
           task[e] # "none", task[e] \notin Reported, NEW state,
           state # "none", state # "unwinding",
           task' = [task EXCEPT ![e] = state],
           IsStreaming' <=> state \in {"running", "finalizing"},
           IsStreaming' => IsStreaming,
           UNCHANGED <<around, alerts, lost, cancelEmitted, current, submit, stream,
                       ctx, content, notices, kept, pumpVars>>,
           \/ state \notin Reported /\ evq' = evq
           \/ /\ state \in Final \ {"cancelled"}
              /\ Put(state, e),
           unsaved' \subseteq unsaved, lastTurn' \in {Plain, lastTurn}
    PROVE  WaitInv'
  <1>1. Answering(e) /\ AnswerInv(e) /\ ExchangeInv(e)
    BY AtWork
  <1>2. /\ EndComesLast(Coming', e, state)
        /\ e \in unsaved' => TextComes(Coming', e, content')
    <2>1. CASE state \notin Reported /\ evq' = evq
      BY <1>1, <2>1 DEF AnswerInv, EndComesLast, Coming, pumpVars
    <2>2. CASE state \in Final \ {"cancelled"} /\ Put(state, e)
      <3>1. PICK x \in Event : x = [type |-> state, of |-> e]
                               /\ Coming' = Append(Coming, x)
        BY <2>2, PutComes DEF pumpVars
      <3>2. x.type = state /\ x.of = e
        BY <3>1
      <3>3. state \in Reported /\ Fits(x.type, state)
        BY <2>2, <3>2 DEF Reported, Fits
      <3>4. EndComesLast(Coming', e, state)
        BY <1>1, <3>1, <3>2, <3>3, EndComes, TypeFacts DEF AnswerInv
      <3>5. x.type # "tool_use_start"
        BY <2>2, <3>2 DEF Final
      <3>6. e \in unsaved' => TextComes(Coming', e, content')
        BY <1>1, <3>1, <3>5, TextPut, TypeFacts DEF AnswerInv
      <3> QED  BY <3>4, <3>6
    <2> QED  BY <2>1, <2>2
  <1>3. PumpInv'
    BY WaitFacts DEF PumpInv, pumpVars
  <1>4. IsStreaming' => ~cancelEmitted'
    BY WaitFacts
  <1>5. stream'[e] # "none"
    BY <1>1 DEF ExchangeInv, Answering
  <1> QED  BY <1>1, <1>2, <1>3, <1>4, <1>5, AnswerGoesOn

LEMMA EndStreamWaits ==
    ASSUME TypeInv, WaitInv, Waits, UNCHANGED around, NEW e \in Exchanges,
           EndStream(e)
    PROVE  WaitInv'
  <1>1. /\ Settle(e)
        /\ unsaved' \subseteq unsaved /\ lastTurn' \in {Plain, lastTurn}
        /\ UNCHANGED <<alerts, lost, submit, stream, ctx, content, notices, kept,
                       pumpVars>>
    BY DEF EndStream, submitVars
  <1> USE DEF Reported, Final
  <1>2. CASE Finish(e)
    <2>1. /\ task[e] = "running" /\ task' = [task EXCEPT ![e] = "finalizing"]
          /\ UNCHANGED <<status, current, cancelEmitted, evq>>
      BY <1>2 DEF Finish
    <2>2. IsStreaming /\ IsStreaming'
      BY <2>1, AtWork DEF AnswerInv, IsStreaming
    <2> QED  BY <1>1, <2>1, <2>2, TaskMoves
  <1>3. CASE Conclude(e)
    <2>1. /\ task[e] = "finalizing" /\ task' = [task EXCEPT ![e] = "done"]
          /\ ~IsStreaming' /\ Put("done", e)
          /\ UNCHANGED <<current, cancelEmitted>>
      BY <1>3 DEF Conclude, IsStreaming
    <2> QED  BY <1>1, <2>1, TaskMoves
  <1>4. CASE Fail(e)
    <2>1. PICK s \in {"failing", "limited"} :
             /\ task[e] = "running" /\ task' = [task EXCEPT ![e] = s]
             /\ ~IsStreaming'
             /\ UNCHANGED <<current, cancelEmitted, evq>>
      BY <1>4 DEF Fail, IsStreaming
    <2> QED  BY <1>1, <2>1, TaskMoves
  <1>5. CASE ReportFailure(e)
    <2>1. PICK s \in {"rate_limit", "error"} :
             /\ task[e] \in {"failing", "limited"}
             /\ task' = [task EXCEPT ![e] = s] /\ Put(s, e)
             /\ UNCHANGED <<status, current, cancelEmitted>>
      BY <1>5 DEF ReportFailure
    <2>2. ~IsStreaming /\ ~IsStreaming'
      BY <2>1, AtWork DEF AnswerInv, IsStreaming
    <2> QED  BY <1>1, <2>1, <2>2, TaskMoves
  <1>6. CASE Ask(e)
    <2>1. /\ task[e] = "running" /\ task' = [task EXCEPT ![e] = "asking"]
          /\ ~IsStreaming'
          /\ UNCHANGED <<current, cancelEmitted, evq>>
      BY <1>6 DEF Ask, IsStreaming
    <2> QED  BY <1>1, <2>1, TaskMoves
  <1>7. CASE ReportQuestion(e)
    <2>1. /\ task[e] = "asking" /\ task' = [task EXCEPT ![e] = "input_required"]
          /\ ~IsStreaming' /\ Put("input_required", e)
          /\ UNCHANGED <<current, cancelEmitted>>
      BY <1>7 DEF ReportQuestion, IsStreaming
    <2> QED  BY <1>1, <2>1, TaskMoves
  <1>8. CASE Unwind(e)
    <2>1. task[e] = "unwinding" /\ task' = [task EXCEPT ![e] = "cancelled"]
          /\ current' = current
      BY <1>8 DEF Unwind
    <2>2. cancelEmitted /\ ~IsStreaming /\ ExchangeInv(e)
      BY <2>1, WaitFacts DEF ExchangeInv
    <2>3. /\ cancelEmitted' /\ ~IsStreaming' /\ evq' = evq
      BY <1>8, <2>2 DEF Unwind, IsStreaming
    <2>4. task'[e] = "cancelled"
      BY <2>1, TypeFacts
    <2>5. unsaved' = unsaved /\ lastTurn' = lastTurn
      BY <2>4 DEF EndStream
    <2>6. CASE Answering(e)
      <3>1. AnswerInv(e)
        BY <2>2, <2>6 DEF ExchangeInv
      <3>2. Coming' = Coming
        BY <1>1, <2>3 DEF Coming, pumpVars
      <3>3. EndComesLast(Coming', e, "cancelled")
        BY <2>1, <3>1, <3>2 DEF AnswerInv, EndComesLast, Fits
      <3>4. PumpInv'
        BY <1>1, WaitFacts DEF PumpInv, pumpVars
      <3>5. stream'[e] # "none"
        BY <1>1, <2>2, <2>6 DEF ExchangeInv, Answering
      <3> QED  BY <1>1, <2>1, <2>3, <2>5, <2>6, <3>1, <3>2, <3>3, <3>4, <3>5,
                  AnswerGoesOn DEF AnswerInv
    <2>7. CASE ~Answering(e)
      BY <1>1, <2>1, <2>2, <2>3, <2>5, <2>7, LateUnwind
    <2> QED  BY <2>6, <2>7
  <1> QED  BY <1>1, <1>2, <1>3, <1>4, <1>5, <1>6, <1>7, <1>8 DEF Settle

(* The session is cancelled: the end of the one stream at work is put.      *)
LEMMA CancelFacts ==
    ASSUME TypeInv, WaitInv, Waits, CancelInternal
    PROVE  \E e \in Exchanges :
              /\ Answering(e) /\ AnswerInv(e) /\ ExchangeInv(e)
              /\ task[e] \in {"running", "finalizing"}
              /\ task' = [task EXCEPT ![e] = "unwinding"]
              /\ ~IsStreaming' /\ cancelEmitted' /\ current' = current
              /\ Put("cancelled", e)
              /\ stream' = [stream EXCEPT ![e] = "cancelled"]
  <1>1. IsStreaming /\ current \in Exchanges
        /\ task[current] \in {"running", "finalizing"}
    BY DEF CancelInternal, Cancel, TypeInv, TypeOK, RunnerTypeOK, StreamingHasTask
  <1>2. Answering(current) /\ AnswerInv(current) /\ ExchangeInv(current)
    BY <1>1, AtWork DEF Reported, Final
  <1>3. ctx = current /\ stream[current] # "none"
    BY <1>2 DEF AnswerInv, ExchangeInv, Answering
  <1>4. stream' = [stream EXCEPT ![current] = "cancelled"]
    BY <1>1, <1>3 DEF CancelInternal, UpdateStream
  <1>5. /\ task' = [task EXCEPT ![current] = "unwinding"]
        /\ ~IsStreaming' /\ cancelEmitted' /\ current' = current
        /\ Put("cancelled", current)
    BY <1>1, WaitFacts DEF CancelInternal, Cancel, Waits, IsStreaming
  <1> QED  BY <1>1, <1>2, <1>4, <1>5

LEMMA CancelWaits ==
    ASSUME TypeInv, WaitInv, Waits, UNCHANGED around, CancelStreaming
    PROVE  WaitInv'
  <1>1. PICK e \in Exchanges :
              /\ Answering(e) /\ AnswerInv(e) /\ ExchangeInv(e)
              /\ task[e] \in {"running", "finalizing"}
              /\ task' = [task EXCEPT ![e] = "unwinding"]
              /\ ~IsStreaming' /\ cancelEmitted' /\ current' = current
              /\ Put("cancelled", e)
              /\ stream' = [stream EXCEPT ![e] = "cancelled"]
    BY CancelFacts DEF CancelStreaming
  <1>2. UNCHANGED <<submit, lost, ctx, alerts, notices, kept, unsaved, content,
                    lastTurn, pump, batch, pumpCtx, pumpSubmit>>
    BY DEF CancelStreaming, submitVars, pumpVars, historyVars
  <1>3. PICK x \in Event : x = [type |-> "cancelled", of |-> e]
                           /\ Coming' = Append(Coming, x)
    BY <1>1, <1>2, PutComes DEF Final
  <1>4. x.type = "cancelled" /\ x.of = e
    BY <1>3
  <1>5. task[e] \notin Reported /\ "unwinding" \in Reported
    BY <1>1 DEF Reported, Final
  <1>6. EndComesLast(Coming', e, "unwinding")
    BY <1>1, <1>3, <1>4, <1>5, EndComes, TypeFacts DEF AnswerInv, Fits
  <1>7. e \in unsaved' => TextComes(Coming', e, content')
    BY <1>1, <1>2, <1>3, <1>4, TextPut, TypeFacts DEF AnswerInv
  <1>8. PumpInv'
    BY <1>2, WaitFacts DEF PumpInv
  <1>9. stream'[e] = "cancelled" /\ \A f \in Exchanges : f # e => stream'[f] = stream[f]
    BY <1>1, TypeFacts
  <1> QED  BY <1>1, <1>2, <1>6, <1>7, <1>8, <1>9, AnswerGoesOn

-----------------------------------------------------------------------------
(* The pump's steps.                                                        *)

LEMMA SomethingComes ==
    ASSUME TypeInv, WaitInv, Waits, Coming # <<>>
    PROVE  \E e \in Exchanges : Answering(e) /\ AnswerInv(e) /\ ExchangeInv(e)
  BY WaitFacts DEF QuietInv, ExchangeInv

LEMMA PollWaits ==
    ASSUME TypeInv, WaitInv, Waits, UNCHANGED around, Poll
    PROVE  WaitInv'
  <1>1. /\ batch = <<>> /\ batch' = evq /\ evq' = <<>> /\ evq # <<>>
        /\ pump' = "polled" /\ pumpSubmit = NoExchange
    BY WaitFacts DEF Poll, DrainEvents, PumpInv
  <1>2. UNCHANGED <<status, current, cancelEmitted, task, submit, lost, pumpCtx,
                    pumpSubmit, notices, unsaved, kept, stream, ctx, content,
                    lastTurn, alerts>>
    BY DEF Poll, DrainEvents, submitVars, historyVars, serviceVars
  <1>3. Coming' = Coming /\ Coming # <<>>
    BY <1>1, TypeFacts, ComingPolled DEF Coming
  <1>4. PICK e \in Exchanges : Answering(e) /\ AnswerInv(e) /\ ExchangeInv(e)
    BY <1>3, SomethingComes
  <1>5. PumpInv'
    BY <1>1, <1>2 DEF PumpInv
  <1>6. task' = [task EXCEPT ![e] = task[e]]
    BY <1>2, TypeFacts
  <1>7. /\ IsStreaming' <=> task[e] \in {"running", "finalizing"}
        /\ IsStreaming' => ~cancelEmitted'
        /\ stream'[e] # "none" /\ task[e] # "none"
        /\ task[e] = "unwinding" => cancelEmitted'
    BY <1>2, <1>4, WaitFacts DEF IsStreaming, AnswerInv, ExchangeInv, Answering
  <1> QED  BY <1>2, <1>3, <1>4, <1>5, <1>6, <1>7, AnswerGoesOn DEF AnswerInv

LEMMA BeginDispatchWaits ==
    ASSUME TypeInv, WaitInv, Waits, UNCHANGED around, BeginDispatch
    PROVE  WaitInv'
  <1>1. batch # <<>> /\ pumpSubmit = NoExchange
    BY WaitFacts DEF BeginDispatch, PumpInv
  <1>2. Coming # <<>>
    BY <1>1, TypeFacts, ComingTail DEF Coming
  <1>3. PICK e \in Exchanges : Answering(e) /\ AnswerInv(e) /\ ExchangeInv(e)
    BY <1>2, SomethingComes
  <1>4. ctx # NoExchange
    BY <1>3, RunnerAssumption DEF AnswerInv
  <1>5. /\ pump' = "dispatching" /\ ctx' = ctx /\ pumpCtx' = ctx
        /\ content' = content
        /\ UNCHANGED <<status, current, cancelEmitted, evq, task, submit, lost,
                       batch, pumpSubmit, notices, unsaved, kept, stream, lastTurn,
                       alerts>>
    BY <1>4 DEF BeginDispatch, submitVars, historyVars, runnerVars
  <1>6. PumpInv'
    BY <1>1, <1>5 DEF PumpInv
  <1>7. Coming' = Coming
    BY <1>5 DEF Coming
  <1>8. task' = [task EXCEPT ![e] = task[e]]
    BY <1>5, TypeFacts
  <1>9. /\ IsStreaming' <=> task[e] \in {"running", "finalizing"}
        /\ IsStreaming' => ~cancelEmitted'
        /\ stream'[e] # "none" /\ task[e] # "none"
        /\ task[e] = "unwinding" => cancelEmitted'
    BY <1>3, <1>5, WaitFacts DEF IsStreaming, AnswerInv, ExchangeInv, Answering
  <1> QED  BY <1>3, <1>5, <1>6, <1>7, <1>8, <1>9, AnswerGoesOn DEF AnswerInv

(* The pump dispatches what the one answer under way has put.               *)
LEMMA DispatchFacts ==
    ASSUME TypeInv, WaitInv, Waits, pump = "dispatching"
    PROVE  /\ pumpCtx \in Exchanges /\ ctx = pumpCtx /\ current = pumpCtx
           /\ Answering(pumpCtx) /\ AnswerInv(pumpCtx) /\ ExchangeInv(pumpCtx)
           /\ batch # <<>> /\ Coming # <<>> /\ Head(Coming) = Head(batch)
           /\ Tail(Coming) = Tail(batch) \o evq
           /\ Tail(batch) \in Seq(Event) /\ Tail(Coming) \in Seq(Event)
           /\ pumpSubmit = NoExchange
  <1>1. batch # <<>> /\ pumpCtx = ctx /\ pumpSubmit = NoExchange
    BY WaitFacts DEF PumpInv
  <1>2. /\ Coming # <<>> /\ Head(Coming) = Head(batch)
        /\ Tail(Coming) = Tail(batch) \o evq
        /\ Tail(batch) \in Seq(Event) /\ Tail(Coming) \in Seq(Event)
    BY <1>1, TypeFacts, ComingTail DEF Coming
  <1>3. PICK e \in Exchanges : Answering(e) /\ AnswerInv(e) /\ ExchangeInv(e)
    BY <1>2, SomethingComes
  <1>4. e = pumpCtx /\ e = current
    BY <1>1, <1>3 DEF AnswerInv
  <1> QED  BY <1>1, <1>2, <1>3, <1>4

LEMMA ProceedWaits ==
    ASSUME NEW rest, Proceed(rest), UNCHANGED <<ctx, pumpCtx>>, pumpCtx = ctx
    PROVE  PumpInv' /\ batch' = rest
  BY DEF Proceed, PumpInv

LEMMA OutputDispatched ==
    ASSUME TypeInv, WaitInv, Waits, UNCHANGED around, pump = "dispatching",
           NEW type, type = Head(batch).type, DispatchOutput(type),
           UNCHANGED <<pumpCtx, alerts>>
    PROVE  WaitInv'
  <1> DEFINE e == pumpCtx
  <1>1. /\ e \in Exchanges /\ Answering(e) /\ AnswerInv(e) /\ ExchangeInv(e)
        /\ Coming # <<>> /\ Head(Coming).type = type
    BY DispatchFacts
  <1>2. /\ type \in Output
        /\ Proceed(Tail(batch))
        /\ UNCHANGED <<status, current, cancelEmitted, evq, task, submit, lost,
                       notices, unsaved, kept, ctx, lastTurn>>
    BY DEF DispatchOutput, Output, runnerVars, submitVars, historyVars
  <1>3. PumpInv' /\ Coming' = Tail(Coming)
    BY <1>2, ProceedWaits, DispatchFacts DEF Coming
  <1>4. EndComesLast(Coming', e, task[e])
    BY <1>1, <1>2, <1>3, OutputGone, TypeFacts DEF AnswerInv
  <1>5. /\ type = "text" => e \in content'
        /\ type # "tool_use_start" => (e \in content => e \in content')
    BY DEF DispatchOutput, DispatchText, DispatchToolUse, DispatchToolResult,
           DispatchUsage
  <1>6. e \in unsaved' => TextComes(Coming', e, content')
    BY <1>1, <1>2, <1>3, <1>5, TextGone, TypeFacts DEF AnswerInv
  <1>7. /\ \A f \in Exchanges : f # e => stream'[f] = stream[f]
        /\ stream'[e] # "none"
    <2>1. stream[e] # "none"
      BY <1>1 DEF ExchangeInv, Answering
    <2>2. \/ UpdateStream(e, "executing")
          \/ UpdateStream(e, "streaming")
          \/ UNCHANGED stream
      BY DEF DispatchOutput, DispatchText, DispatchToolUse, DispatchToolResult,
             DispatchUsage
    <2> QED  BY <1>1, <2>1, <2>2, TypeFacts DEF UpdateStream
  <1>8. task' = [task EXCEPT ![e] = task[e]]
    BY <1>2, TypeFacts
  <1>9. /\ IsStreaming' <=> task[e] \in {"running", "finalizing"}
        /\ IsStreaming' => ~cancelEmitted'
        /\ task[e] # "none"
        /\ task[e] = "unwinding" => cancelEmitted'
    BY <1>1, <1>2, WaitFacts DEF IsStreaming, AnswerInv, ExchangeInv, Answering
  <1> HIDE DEF e
  <1> QED  BY <1>1, <1>2, <1>3, <1>4, <1>6, <1>7, <1>8, <1>9, AnswerGoesOn

LEMMA KillDispatched ==
    ASSUME TypeInv, WaitInv, Waits, UNCHANGED around, pump = "dispatching",
           Head(batch).type = "result", DispatchKill,
           UNCHANGED <<pumpCtx, alerts>>
    PROVE  WaitInv'
  <1>1. PICK e \in Exchanges :
              /\ Answering(e) /\ AnswerInv(e) /\ ExchangeInv(e)
              /\ task[e] \in {"running", "finalizing"}
              /\ task' = [task EXCEPT ![e] = "unwinding"]
              /\ ~IsStreaming' /\ cancelEmitted' /\ current' = current
              /\ Put("cancelled", e)
              /\ stream' = [stream EXCEPT ![e] = "cancelled"]
    BY CancelFacts DEF DispatchKill
  <1>2. /\ Proceed(Tail(batch))
        /\ UNCHANGED <<submit, lost, notices, unsaved, kept, ctx, content, lastTurn>>
    BY DEF DispatchKill, submitVars, historyVars
  <1>3. PumpInv' /\ batch' = Tail(batch)
    BY <1>2, ProceedWaits, DispatchFacts
  <1>4. /\ Coming # <<>> /\ Head(Coming).type = "result"
        /\ Tail(Coming) \in Seq(Event)
        /\ Tail(Coming) = Tail(batch) \o evq /\ Tail(batch) \in Seq(Event)
    BY DispatchFacts
  <1>5. PICK x \in Event : x = [type |-> "cancelled", of |-> e]
    BY DEF Event, Final
  <1>6. x.type = "cancelled" /\ x.of = e
    BY <1>5
  <1>7. Coming' = Append(Tail(Coming), x)
    <2>1. evq' = Append(evq, x)
      BY <1>1, <1>5 DEF Put
    <2>2. Tail(batch) \o Append(evq, x) = Append(Tail(batch) \o evq, x)
      BY <1>4, ComingPut, TypeFacts
    <2>3. batch' \o evq' = Append(Tail(batch) \o evq, x)
      BY <1>3, <2>1, <2>2
    <2> QED  BY <1>4, <2>3 DEF Coming
  <1>8. task[e] \notin Reported /\ "unwinding" \in Reported
    BY <1>1 DEF Reported, Final
  <1>9. EndComesLast(Tail(Coming), e, task[e])
    BY <1>1, <1>4, OutputGone, TypeFacts DEF AnswerInv, Output
  <1>10. EndComesLast(Coming', e, "unwinding")
    BY <1>4, <1>6, <1>7, <1>8, <1>9, EndComes DEF Fits
  <1>11. e \in unsaved' => TextComes(Tail(Coming), e, content)
    BY <1>1, <1>2, <1>4, TextGone, TypeFacts DEF AnswerInv
  <1>12. e \in unsaved' => TextComes(Coming', e, content')
    BY <1>2, <1>4, <1>6, <1>7, <1>11, TextPut
  <1>13. stream'[e] = "cancelled" /\ \A f \in Exchanges : f # e => stream'[f] = stream[f]
    BY <1>1, TypeFacts
  <1> QED  BY <1>1, <1>2, <1>3, <1>10, <1>12, <1>13, AnswerGoesOn

(* What _process_queued_messages does when the session is quiet.            *)
LEMMA ProcessQueuedWaits ==
    ASSUME NEW turn, ProcessQueued(<<>>, turn), ~IsStreaming
    PROVE  /\ batch' = <<>> /\ lost' = lost
           /\ lastTurn' \in {turn, Plain}
           /\ \/ /\ submit' = submit
                 /\ pump' = "sleeping" /\ pumpSubmit' = NoExchange
              \/ \E f \in Exchanges :
                    /\ submit[f] = "free" /\ submit' = [submit EXCEPT ![f] = "saving"]
                    /\ pump' = "submitting" /\ pumpSubmit' = f
  BY DEF ProcessQueued, Proceed, SubmitDrained, Accept, LoseDrained, Unsent,
         submitVars

(* How the stream of e ended is what its client is told.                    *)
Ended(e, outcome) ==
    /\ Answering(e) /\ task[e] \in Reported /\ Fate(e) = outcome
    /\ UNCHANGED <<lost, alerts, current, status, cancelEmitted, task, evq, unsaved>>
    /\ notices' = [notices EXCEPT ![e] = <<outcome>>]
    /\ stream' = [stream EXCEPT ![e] = StatusOf(outcome)]
    /\ ctx' = NoExchange /\ Coming' = <<>> /\ batch' = <<>>
    /\ kept \subseteq kept'
    /\ task[e] \in {"unwinding", "cancelled"} /\ e \in unsaved => e \in kept'
    /\ lastTurn'.of \in {lastTurn.of, NoExchange, e}
    /\ \/ /\ submit' = submit
          /\ pump' = "sleeping" /\ pumpSubmit' = NoExchange
       \/ \E f \in Exchanges :
             /\ submit[f] = "free" /\ submit' = [submit EXCEPT ![f] = "saving"]
             /\ pump' = "submitting" /\ pumpSubmit' = f

LEMMA EndFacts ==
    ASSUME TypeInv, WaitInv, Waits, pump = "dispatching",
           Head(batch).type \in Final
    PROVE  /\ Tail(Coming) = <<>> /\ Tail(batch) = <<>> /\ evq = <<>>
           /\ task[pumpCtx] \in Reported
           /\ Fits(Head(batch).type, task[pumpCtx])
           /\ ~IsStreaming
           /\ pumpCtx \in unsaved => pumpCtx \in content
           /\ stream[pumpCtx] # "none" /\ notices[pumpCtx] = <<>>
           /\ lastTurn.of # pumpCtx
  <1> DEFINE e == pumpCtx
  <1>1. /\ e \in Exchanges /\ Answering(e) /\ AnswerInv(e) /\ ExchangeInv(e)
        /\ Coming # <<>> /\ Head(Coming) = Head(batch)
        /\ Tail(Coming) = Tail(batch) \o evq /\ Tail(batch) \in Seq(Event)
    BY DispatchFacts
  <1>2. Tail(Coming) = <<>> /\ task[e] \in Reported
        /\ Fits(Head(Coming).type, task[e])
    BY <1>1, EndIsLast, TypeFacts DEF AnswerInv
  <1>3. Tail(batch) = <<>> /\ evq = <<>>
    BY <1>1, <1>2, ComingEmpty, TypeFacts
  <1>4. ~IsStreaming
    BY <1>1, <1>2 DEF AnswerInv, Reported, Final
  <1>5. e \in unsaved => e \in content
    BY <1>1, <1>2, TextThere, TypeFacts DEF AnswerInv, Final
  <1> QED  BY <1>1, <1>2, <1>3, <1>4, <1>5 DEF ExchangeInv, Answering

LEMMA TellFacts ==
    ASSUME TypeInv, WaitInv, Waits, pump = "dispatching",
           Head(batch).type \in Final,
           NEW outcome, Notify(pumpCtx, outcome),
           UpdateStream(pumpCtx, StatusOf(outcome))
    PROVE  /\ notices' = [notices EXCEPT ![pumpCtx] = <<outcome>>]
           /\ stream' = [stream EXCEPT ![pumpCtx] = StatusOf(outcome)]
  <1>1. pumpCtx \in Exchanges
    BY DispatchFacts
  <1>2. notices[pumpCtx] = <<>> /\ stream[pumpCtx] # "none"
    BY EndFacts
  <1>3. Append(<<>>, outcome) = <<outcome>>
    OBVIOUS
  <1>4. notices' = [notices EXCEPT ![pumpCtx] = Append(<<>>, outcome)]
    BY <1>1, <1>2 DEF Notify
  <1> QED  BY <1>1, <1>2, <1>3, <1>4 DEF UpdateStream

LEMMA StatusesDiffer ==
    /\ StatusOf("done") = "completed"
    /\ StatusOf("error") = "error"
    /\ StatusOf("cancelled") = "cancelled"
  BY DEF StatusOf

(* "done" and questions are told as done, and the queue is looked at.       *)
LEMMA DoneDispatched ==
    ASSUME TypeInv, WaitInv, Waits, pump = "dispatching",
           NEW type \in {"done", "input_required"}, type = Head(batch).type,
           \/ type = "done" /\ DispatchDone
           \/ type = "input_required" /\ DispatchQuestion,
           UNCHANGED <<pumpCtx, alerts>>
    PROVE  Ended(pumpCtx, "done")
  <1>1. /\ Notify(pumpCtx, "done") /\ UpdateStream(pumpCtx, "completed")
        /\ ctx' = NoExchange
        /\ TellWatchers(Tail(batch))
        /\ UNCHANGED <<status, current, cancelEmitted, evq, task, unsaved, kept>>
    BY DEF DispatchDone, DispatchQuestion, runnerVars
  <1>2. type \in Final /\ type # "cancelled"
    BY DEF Final
  <1>3. /\ Answering(pumpCtx) /\ pumpCtx \in Exchanges
    BY DispatchFacts
  <1>4. task[pumpCtx] \in Reported /\ task[pumpCtx] = type
        /\ Tail(batch) = <<>> /\ evq = <<>> /\ ~IsStreaming
    BY <1>2, EndFacts DEF Fits
  <1>5. Fate(pumpCtx) = "done"
    BY <1>4 DEF Fate
  <1>6. ProcessQueued(<<>>, lastTurn)
    BY <1>1, <1>4 DEF TellWatchers, Waits
  <1>7. /\ batch' = <<>> /\ lost' = lost
        /\ lastTurn' \in {lastTurn, Plain}
        /\ \/ /\ submit' = submit
              /\ pump' = "sleeping" /\ pumpSubmit' = NoExchange
           \/ \E f \in Exchanges :
                 /\ submit[f] = "free" /\ submit' = [submit EXCEPT ![f] = "saving"]
                 /\ pump' = "submitting" /\ pumpSubmit' = f
    BY <1>4, <1>6, ProcessQueuedWaits
  <1>8. Coming' = <<>>
    BY <1>1, <1>4, <1>7, NoEvents, ComingPolled DEF Coming
  <1>9. lastTurn'.of \in {lastTurn.of, NoExchange, pumpCtx}
    BY <1>7 DEF Plain
  <1>10. /\ notices' = [notices EXCEPT ![pumpCtx] = <<"done">>]
         /\ stream' = [stream EXCEPT ![pumpCtx] = StatusOf("done")]
    BY <1>1, <1>2, StatusesDiffer, TellFacts
  <1>11. task[pumpCtx] \notin {"unwinding", "cancelled"}
    BY <1>4
  <1> QED  BY <1>1, <1>3, <1>4, <1>5, <1>7, <1>8, <1>9, <1>10, <1>11 DEF Ended

LEMMA FailureDispatched ==
    ASSUME TypeInv, WaitInv, Waits, pump = "dispatching",
           NEW type \in {"error", "rate_limit"}, type = Head(batch).type,
           DispatchFailure(type), UNCHANGED <<pumpCtx, alerts>>
    PROVE  Ended(pumpCtx, "error")
  <1>1. /\ Notify(pumpCtx, "error") /\ UpdateStream(pumpCtx, "error")
        /\ ctx' = NoExchange
        /\ Proceed(Tail(batch))
        /\ UNCHANGED <<status, current, cancelEmitted, evq, task, unsaved, kept,
                       submit, lost, lastTurn>>
    BY DEF DispatchFailure, runnerVars, submitVars
  <1>2. type \in Final /\ type # "cancelled"
    BY DEF Final
  <1>3. /\ Answering(pumpCtx) /\ pumpCtx \in Exchanges
    BY DispatchFacts
  <1>4. task[pumpCtx] \in Reported /\ task[pumpCtx] = type
        /\ Tail(batch) = <<>> /\ evq = <<>> /\ ~IsStreaming
    BY <1>2, EndFacts DEF Fits
  <1>5. Fate(pumpCtx) = "error"
    BY <1>4 DEF Fate
  <1>6. batch' = <<>> /\ pump' = "sleeping" /\ pumpSubmit' = NoExchange
    BY <1>1, <1>4 DEF Proceed
  <1>7. Coming' = <<>>
    BY <1>1, <1>4, <1>6, NoEvents, ComingPolled DEF Coming
  <1>8. /\ notices' = [notices EXCEPT ![pumpCtx] = <<"error">>]
        /\ stream' = [stream EXCEPT ![pumpCtx] = StatusOf("error")]
    BY <1>1, <1>2, StatusesDiffer, TellFacts
  <1>9. task[pumpCtx] \notin {"unwinding", "cancelled"}
    BY <1>4
  <1> QED  BY <1>1, <1>3, <1>4, <1>5, <1>6, <1>7, <1>8, <1>9 DEF Ended

(* A cancellation is recorded: no turn says so yet, and nothing streams.    *)
LEMMA CancellationDispatched ==
    ASSUME TypeInv, WaitInv, Waits, pump = "dispatching",
           Head(batch).type = "cancelled", DispatchCancelled,
           UNCHANGED <<pumpCtx, alerts>>
    PROVE  Ended(pumpCtx, "cancelled")
  <1>1. "cancelled" \in Final
    BY DEF Final
  <1>2. /\ Answering(pumpCtx) /\ pumpCtx \in Exchanges /\ ctx = pumpCtx
    BY DispatchFacts
  <1>3. task[pumpCtx] \in Reported /\ task[pumpCtx] \in {"unwinding", "cancelled"}
        /\ Tail(batch) = <<>> /\ evq = <<>> /\ ~IsStreaming
        /\ (pumpCtx \in unsaved => pumpCtx \in content)
        /\ lastTurn.of # pumpCtx
    BY <1>1, EndFacts DEF Fits
  <1>4. ~AlreadyRecorded(pumpCtx)
    BY <1>2, <1>3, LifecycleAssumption DEF AlreadyRecorded
  <1>5. /\ Notify(pumpCtx, "cancelled") /\ UpdateStream(pumpCtx, "cancelled")
        /\ kept' = kept \cup (content \cap {pumpCtx})
        /\ ctx' = NoExchange
        /\ UNCHANGED <<status, current, cancelEmitted, evq, task, unsaved>>
    BY <1>2, <1>3, <1>4 DEF DispatchCancelled, runnerVars
  <1>6. PICK turn \in InterruptionTurns(pumpCtx) : ProcessQueued(<<>>, turn)
    BY <1>3, <1>4 DEF DispatchCancelled
  <1>7. /\ batch' = <<>> /\ lost' = lost
        /\ lastTurn' \in {turn, Plain}
        /\ \/ /\ submit' = submit
              /\ pump' = "sleeping" /\ pumpSubmit' = NoExchange
           \/ \E f \in Exchanges :
                 /\ submit[f] = "free" /\ submit' = [submit EXCEPT ![f] = "saving"]
                 /\ pump' = "submitting" /\ pumpSubmit' = f
    BY <1>3, <1>6, ProcessQueuedWaits
  <1>8. turn.of \in {lastTurn.of, pumpCtx}
    BY <1>6 DEF InterruptionTurns
  <1>9. lastTurn'.of \in {lastTurn.of, NoExchange, pumpCtx}
    BY <1>7, <1>8 DEF Plain
  <1>10. Coming' = <<>>
    BY <1>3, <1>5, <1>7, NoEvents, ComingPolled DEF Coming
  <1>11. Fate(pumpCtx) = "cancelled"
    BY <1>3 DEF Fate
  <1>12. /\ notices' = [notices EXCEPT ![pumpCtx] = <<"cancelled">>]
         /\ stream' = [stream EXCEPT ![pumpCtx] = StatusOf("cancelled")]
    BY <1>1, <1>5, StatusesDiffer, TellFacts
  <1> QED  BY <1>2, <1>3, <1>5, <1>7, <1>9, <1>10, <1>11, <1>12 DEF Ended

LEMMA EndDispatched ==
    ASSUME TypeInv, WaitInv, Waits, Dispatch, Head(batch).type \in Final
    PROVE  pumpCtx \in Exchanges
           /\ \E outcome \in {"done", "error", "cancelled"} : Ended(pumpCtx, outcome)
  <1>1. pump = "dispatching" /\ pumpCtx \in Exchanges
        /\ UNCHANGED <<pumpCtx, alerts>>
    BY DispatchFacts DEF Dispatch
  <1> DEFINE type == Head(batch).type
  <1>2. type \notin Output
    BY DEF Output, Final
  <1>3. \/ type = "done" /\ DispatchDone
        \/ type = "input_required" /\ DispatchQuestion
        \/ type \in {"error", "rate_limit"} /\ DispatchFailure(type)
        \/ type = "cancelled" /\ DispatchCancelled
    BY <1>2 DEF Dispatch, DispatchOutput, Output
  <1> QED  BY <1>1, <1>3, DoneDispatched, FailureDispatched, CancellationDispatched

LEMMA EndedWaits ==
    ASSUME TypeInv, WaitInv, Waits, UNCHANGED around, NEW e \in Exchanges,
           NEW outcome \in {"done", "error", "cancelled"}, Ended(e, outcome)
    PROVE  WaitInv'
  <1>1. StatusOf(outcome) # "none"
    BY StatusesDiffer
  <1> QED  BY <1>1, AnswerGiven DEF Ended

LEMMA DispatchWaits ==
    ASSUME TypeInv, WaitInv, Waits, UNCHANGED around, Dispatch
    PROVE  WaitInv'
  <1> DEFINE type == Head(batch).type
  <1>1. CASE type \in Final
    BY <1>1, EndDispatched, EndedWaits
  <1>2. CASE type \notin Final
    <2>1. DispatchOutput(type) \/ (type = "result" /\ DispatchKill)
      BY <1>2 DEF Dispatch, Final
    <2> QED  BY <2>1, OutputDispatched, KillDispatched DEF Dispatch
  <1> QED  BY <1>1, <1>2

-----------------------------------------------------------------------------
(* The invariant is one.                                                    *)

LEMMA WaitInit == Init => WaitInv
  <1> SUFFICES ASSUME Init, Waits
               PROVE  WaitInv
    BY DEF WaitInv
  <1>1. ASSUME NEW e \in Exchanges
        PROVE  ExchangeInv(e) /\ ~Busy(e)
    BY <1>1, RunnerAssumption
       DEF Init, RunnerInit, LifecycleInit, ExchangeInv, Answering, AnsweredInv,
           Busy, Plain
  <1>2. QuietInv /\ PumpInv
    BY NoEvents, ComingPolled
       DEF Init, RunnerInit, LifecycleInit, QuietInv, PumpInv, Coming, IsStreaming
  <1>3. AloneInv
    BY <1>1 DEF AloneInv
  <1> QED  BY <1>1, <1>2, <1>3
           DEF WaitInv, Init, RunnerInit, LifecycleInit, IsStreaming

LEMMA WaitStep == TypeInv /\ WaitInv /\ [Next]_vars => WaitInv'
  <1> SUFFICES ASSUME TypeInv, WaitInv, [Next]_vars, Waits'
               PROVE  WaitInv'
    BY DEF WaitInv
  <1>1. UNCHANGED around
    BY DEF Next, Steady, vars
  <1>2. Waits
    BY <1>1 DEF Waits, Overlapping, Lingering, Watched
  <1>3. CASE PumpStep
    <2>1. CASE Poll
      BY <1>1, <1>2, <2>1, PollWaits
    <2>2. CASE BeginDispatch
      BY <1>1, <1>2, <2>2, BeginDispatchWaits
    <2>3. CASE Dispatch
      BY <1>1, <1>2, <2>3, DispatchWaits
    <2>4. CASE WatchersTold
      BY <1>2, <2>4, WaitFacts DEF WatchersTold, PumpInv
    <2> QED  BY <1>3, <2>1, <2>2, <2>3, <2>4 DEF PumpStep
  <1>4. CASE LoseRound
    BY <1>2, <1>4 DEF LoseRound, Waits
  <1>5. ASSUME NEW e \in Exchanges,
               \/ SubmitDirect(e)
               \/ LaunchSubmitted(e)
               \/ LaunchPumped(e)
               \/ Stream(e)
               \/ EndStream(e)
        PROVE  WaitInv'
    BY <1>1, <1>2, <1>5, SubmitDirectWaits, LaunchWaits, StreamWaits, EndStreamWaits
  <1>6. CASE EnqueueFromWatcher
    BY <1>2, <1>6 DEF EnqueueFromWatcher, Waits
  <1>7. CASE EditQueue
    BY <1>1, <1>2, <1>7, NothingHappens
       DEF EditQueue, runnerVars, submitVars, historyVars, serviceVars
  <1>8. CASE DeliverAlert
    BY <1>2, <1>8, WaitFacts DEF DeliverAlert
  <1>9. CASE CancelStreaming
    BY <1>1, <1>2, <1>9, CancelWaits
  <1>10. CASE UNCHANGED vars
    BY <1>1, <1>2, <1>10, NothingHappens
       DEF vars, runnerVars, submitVars, historyVars, serviceVars
  <1> QED  BY <1>3, <1>4, <1>5, <1>6, <1>7, <1>8, <1>9, <1>10 DEF Next, Step

LEMMA WaitInvHolds == Spec => [](TypeInv /\ WaitInv)
  BY TypeInvInit, TypeInvStep, WaitInit, WaitStep, PTL DEF Spec

(* A stream that still runs is the one the runner knows, and can be         *)
(* cancelled: whatever a waiting client submits, queues and cancels.        *)
THEOREM NoStrayTaskCorrect == Spec => []NoStrayTask
  <1>1. TypeInv /\ WaitInv => NoStrayTask
    <2> SUFFICES ASSUME TypeInv, WaitInv, Waits, NEW e \in Exchanges,
                        task[e] \in {"running", "finalizing"}
                 PROVE  e = current /\ IsStreaming
      BY DEF NoStrayTask
    <2> QED  BY AtWork DEF AnswerInv, Reported, Final
  <1> QED  BY <1>1, WaitInvHolds, PTL

(* What the pump dispatches belongs to the exchange it takes it for, though *)
(* the events do not say whose they are.                                    *)
THEOREM ContextCorrect == Spec => []EventsMeetTheirContext
  <1>1. TypeInv /\ WaitInv => EventsMeetTheirContext
    <2> SUFFICES ASSUME TypeInv, WaitInv, Waits, pump = "dispatching",
                        NEW i \in 1..Len(batch)
                 PROVE  batch[i].of = pumpCtx
      BY DEF EventsMeetTheirContext
    <2>1. AnswerInv(pumpCtx)
      BY DispatchFacts
    <2>2. i \in 1..Len(Coming) /\ Coming[i] = batch[i]
      BY TypeFacts DEF Coming
    <2> QED  BY <2>1, <2>2 DEF AnswerInv, EndComesLast
  <1> QED  BY <1>1, WaitInvHolds, PTL

(* Nothing a waiting client queues is lost, and nothing it submits is       *)
(* refused after its turn was saved.                                        *)
THEOREM NothingLostCorrect == Spec => []NothingLost
  <1>1. WaitInv => NothingLost
    BY WaitFacts DEF NothingLost, ExchangeInv
  <1> QED  BY <1>1, WaitInvHolds, PTL

(* The text of an answer that was cut short is kept.                        *)
THEOREM PartialKeptCorrect == Spec => []PartialKept
  <1>1. TypeInv /\ WaitInv => PartialKept
    <2> SUFFICES ASSUME TypeInv, WaitInv, Waits, pump = "sleeping", evq = <<>>,
                        NEW e \in unsaved, Fate(e) = "cancelled"
                 PROVE  e \in kept
      BY DEF PartialKept
    <2>1. e \in Exchanges /\ ExchangeInv(e) /\ task[e] \in TaskState
      BY WaitFacts, TypeFacts DEF TypeInv, TypeOK, LifecycleTypeOK
    <2>2. task[e] \in {"unwinding", "cancelled"}
      BY <2>1 DEF Fate, TaskState, Final
    <2>3. Coming = <<>>
      BY WaitFacts, NoEvents, ComingPolled DEF PumpInv, Coming
    <2>4. ~Answering(e)
      BY <2>1, <2>2, <2>3 DEF ExchangeInv, AnswerInv, EndComesLast, Reported, Final
    <2>5. AnsweredInv(e)
      BY <2>1, <2>2, <2>4 DEF ExchangeInv, Answering
    <2> QED  BY <2>2, <2>5 DEF AnsweredInv
  <1> QED  BY <1>1, WaitInvHolds, PTL

(* What StreamState says of a stream is what the client was told.           *)
THEOREM StreamMatchesNoticeCorrect == Spec => []StreamMatchesNotice
  <1>1. WaitInv => StreamMatchesNotice
    BY WaitFacts DEF StreamMatchesNotice, ExchangeInv, AnsweredInv, StatusOf
  <1> QED  BY <1>1, WaitInvHolds, PTL

-----------------------------------------------------------------------------
(* The protocol.                                                            *)

LEMMA ProtocolInit == Init => Protocol!Init
  <1> SUFFICES ASSUME Init
               PROVE  Protocol!Init
    OBVIOUS
  <1>1. \A e \in Exchanges : stream[e] = "none" /\ notices[e] = <<>> /\ Fate(e) = "undecided"
    BY DEF Init, RunnerInit, LifecycleInit, Fate
  <1> QED  BY <1>1 DEF Protocol!Init

LEMMA UnseenStep ==
    ASSUME ~Waits, UNCHANGED around
    PROVE  UNCHANGED Protocol!protocolVars
  BY DEF Protocol!protocolVars, Waits, Overlapping, Lingering, Watched

(* What the client sees of a state.                                         *)
Opened == {e \in Exchanges : stream[e] # "none"}
Fates == [e \in Exchanges |-> Fate(e)]

Outcomes == {"done", "error", "cancelled"}

LEMMA Seen ==
    ASSUME TypeInv, TypeInv', Waits, UNCHANGED around
    PROVE  /\ {e \in Exchanges : Waits /\ stream[e] # "none"} = Opened
           /\ {e \in Exchanges : Waits' /\ stream'[e] # "none"} = Opened'
           /\ [e \in Exchanges |-> IF Waits THEN Fate(e) ELSE "undecided"] = Fates
           /\ [e \in Exchanges |-> IF Waits' THEN Fate(e)' ELSE "undecided"] = Fates'
           /\ [e \in Exchanges |-> IF Waits THEN notices[e] ELSE <<>>] = notices
           /\ [e \in Exchanges |-> IF Waits' THEN notices'[e] ELSE <<>>] = notices'
  <1>1. Waits'
    BY DEF Waits, Overlapping, Lingering, Watched
  <1>2. /\ notices \in [Exchanges -> Seq({"done", "error", "cancelled"})]
        /\ notices' \in [Exchanges -> Seq({"done", "error", "cancelled"})]
    BY DEF TypeInv, TypeOK, LifecycleTypeOK
  <1> QED  BY <1>1, <1>2 DEF Opened, Fates

LEMMA StutterStep ==
    ASSUME TypeInv, TypeInv', Waits, UNCHANGED around,
           Opened' = Opened, Fates' = Fates, notices' = notices
    PROVE  UNCHANGED Protocol!protocolVars
  BY Seen DEF Protocol!protocolVars

LEMMA OpenStep ==
    ASSUME TypeInv, TypeInv', Waits, UNCHANGED around, NEW e \in Exchanges,
           e \notin Opened, \A o \in Opened : notices[o] # <<>>,
           Opened' = Opened \cup {e}, Fates' = Fates, notices' = notices
    PROVE  Protocol!Next
  <1>1. Protocol!Open(e)
    BY Seen DEF Protocol!Open
  <1> QED  BY <1>1 DEF Protocol!Next

LEMMA DecideStep ==
    ASSUME TypeInv, TypeInv', Waits, UNCHANGED around, NEW e \in Exchanges,
           e \in Opened, Fates[e] = "undecided",
           NEW o \in Outcomes, Fates' = [Fates EXCEPT ![e] = o],
           Opened' = Opened, notices' = notices
    PROVE  Protocol!Next
  <1>1. Protocol!Decide(e)
    BY Seen DEF Protocol!Decide, Protocol!Outcome, Outcomes
  <1> QED  BY <1>1 DEF Protocol!Next

LEMMA TellStep ==
    ASSUME TypeInv, TypeInv', Waits, UNCHANGED around, NEW e \in Exchanges,
           Fates[e] # "undecided", notices[e] = <<>>,
           notices' = [notices EXCEPT ![e] = <<Fates[e]>>],
           Opened' = Opened, Fates' = Fates
    PROVE  Protocol!Next
  <1>1. Protocol!Tell(e)
    BY Seen DEF Protocol!Tell
  <1> QED  BY <1>1 DEF Protocol!Next

(* A task that moves changes one fate, and none that is decided.            *)
LEMMA TaskFate ==
    ASSUME TypeInv, TypeInv', Waits, UNCHANGED around, NEW e \in Exchanges,
           NEW state, task' = [task EXCEPT ![e] = state],
           task[e] # "none" => e \in Opened,
           Opened' = Opened, notices' = notices,
           \/ task[e] = "running" /\ state = "finalizing"
           \/ task[e] \in {"running", "finalizing"} /\ Fate(e)' \in Outcomes
           \/ task[e] # "none" /\ Fate(e)' = Fate(e)
    PROVE  [Protocol!Next]_Protocol!protocolVars
  <1>1. task'[e] = state /\ \A f \in Exchanges : f # e => task'[f] = task[f]
    BY TypeFacts
  <1>2. \A f \in Exchanges : f # e => Fate(f)' = Fate(f)
    BY <1>1 DEF Fate
  <1>3. Fates' = [Fates EXCEPT ![e] = Fate(e)'] /\ Fates[e] = Fate(e)
    BY <1>2 DEF Fates
  <1>4. CASE Fate(e)' = Fate(e)
    <2>1. Fates' = Fates
      BY <1>2, <1>4 DEF Fates
    <2> QED  BY <2>1, StutterStep
  <1>5. CASE task[e] = "running" /\ state = "finalizing"
    <2>1. Fate(e)' = Fate(e)
      BY <1>1, <1>5 DEF Fate
    <2> QED  BY <1>4, <2>1
  <1>6. CASE task[e] \in {"running", "finalizing"} /\ Fate(e)' \in Outcomes
    <2>1. Fate(e) = "undecided" /\ task[e] # "none"
      BY <1>6 DEF Fate
    <2> QED  BY <1>3, <1>6, <2>1, DecideStep
  <1> QED  BY <1>4, <1>5, <1>6

(* A stream that is known stays so.                                         *)
LEMMA OpenedStays ==
    ASSUME TypeInv, NEW c, NEW s \in Active \cup Closed,
           UpdateStream(c, s) \/ UNCHANGED stream
    PROVE  Opened' = Opened
  <1>1. s # "none"
    BY DEF Active, Closed
  <1>2. \A e \in Exchanges : stream'[e] = "none" <=> stream[e] = "none"
    BY <1>1, TypeFacts DEF UpdateStream
  <1> QED  BY <1>2 DEF Opened

LEMMA StartedOpened ==
    ASSUME WaitInv, Waits, NEW e \in Exchanges, task[e] # "none"
    PROVE  e \in Opened
  BY WaitFacts DEF ExchangeInv, Opened

LEMMA ProtocolEndStream ==
    ASSUME TypeInv, TypeInv', WaitInv, Waits, UNCHANGED around,
           NEW e \in Exchanges, EndStream(e)
    PROVE  [Protocol!Next]_Protocol!protocolVars
  <1>1. Settle(e) /\ UNCHANGED <<stream, notices>>
    BY DEF EndStream
  <1>2. Opened' = Opened
    BY <1>1 DEF Opened
  <1>3. ASSUME NEW state, task' = [task EXCEPT ![e] = state]
        PROVE  Fate(e)' = CASE state \in {"none", "running", "finalizing"} -> "undecided"
                            [] state \in {"done", "asking", "input_required"} -> "done"
                            [] state \in {"failing", "limited", "error", "rate_limit"} -> "error"
                            [] state \in {"unwinding", "cancelled"} -> "cancelled"
    <2>1. task'[e] = state
      BY <1>3, TypeFacts
    <2> QED  BY <2>1 DEF Fate
  <1>4. PICK state :
           /\ task' = [task EXCEPT ![e] = state]
           /\ \/ task[e] = "running" /\ state = "finalizing"
              \/ task[e] = "finalizing" /\ state = "done"
              \/ task[e] = "running" /\ state \in {"failing", "limited"}
              \/ task[e] = "running" /\ state = "asking"
              \/ task[e] = "limited" /\ state = "rate_limit"
              \/ task[e] = "failing" /\ state = "error"
              \/ task[e] = "asking" /\ state = "input_required"
              \/ task[e] = "unwinding" /\ state = "cancelled"
    BY <1>1 DEF Settle, Finish, Conclude, Fail, ReportFailure, Ask,
                ReportQuestion, Unwind
  <1>5. task[e] # "none"
    BY <1>4
  <1>6. e \in Opened
    BY <1>5, StartedOpened
  <1>7. CASE task[e] = "running" /\ state = "finalizing"
    BY <1>1, <1>2, <1>4, <1>6, <1>7, TaskFate
  <1>8. CASE task[e] \in {"running", "finalizing"} /\ state # "finalizing"
    <2>1. Fate(e)' \in Outcomes
      BY <1>3, <1>4, <1>8 DEF Outcomes
    <2> QED  BY <1>1, <1>2, <1>4, <1>6, <1>8, <2>1, TaskFate
  <1>9. CASE task[e] \notin {"running", "finalizing"}
    <2>1. Fate(e)' = Fate(e)
      BY <1>3, <1>4, <1>9 DEF Fate
    <2> QED  BY <1>1, <1>2, <1>4, <1>5, <1>6, <2>1, TaskFate
  <1> QED  BY <1>4, <1>7, <1>8, <1>9

LEMMA ProtocolCancel ==
    ASSUME TypeInv, TypeInv', WaitInv, Waits, UNCHANGED around,
           CancelInternal, UNCHANGED notices
    PROVE  [Protocol!Next]_Protocol!protocolVars
  <1>1. PICK e \in Exchanges :
              /\ task[e] \in {"running", "finalizing"}
              /\ task' = [task EXCEPT ![e] = "unwinding"]
    BY CancelFacts
  <1>2. Opened' = Opened
    BY OpenedStays DEF CancelInternal, Closed
  <1>3. Fate(e)' = "cancelled"
    <2>1. task'[e] = "unwinding"
      BY <1>1, TypeFacts
    <2> QED  BY <2>1 DEF Fate
  <1>4. e \in Opened
    BY <1>1, StartedOpened
  <1> QED  BY <1>1, <1>2, <1>3, <1>4, TaskFate DEF Outcomes

LEMMA ProtocolLaunch ==
    ASSUME TypeInv, TypeInv', WaitInv, Waits, UNCHANGED around,
           NEW e \in Exchanges, LaunchSubmitted(e) \/ LaunchPumped(e)
    PROVE  Protocol!Next
  <1>1. /\ submit[e] = "saving" /\ StartBackground(e)
        /\ stream' = [stream EXCEPT ![e] = "streaming"]
        /\ notices' = notices
        /\ \A f \in Exchanges : ~Answering(f)
    BY LaunchFacts
  <1>2. stream[e] = "none"
    BY <1>1, WaitFacts DEF ExchangeInv
  <1>3. Opened' = Opened \cup {e} /\ e \notin Opened
    BY <1>1, <1>2, TypeFacts DEF Opened
  <1>4. \A o \in Opened : notices[o] # <<>>
    BY <1>1, WaitFacts DEF Opened, ExchangeInv, Answering
  <1>5. Fates' = Fates
    <2>1. task[e] = "none" /\ task'[e] = "running"
          /\ \A f \in Exchanges : f # e => task'[f] = task[f]
      BY <1>1, TypeFacts DEF StartBackground
    <2>2. \A f \in Exchanges : Fate(f)' = Fate(f)
      BY <2>1 DEF Fate
    <2> QED  BY <2>2 DEF Fates
  <1> QED  BY <1>1, <1>3, <1>4, <1>5, OpenStep

LEMMA ProtocolDispatch ==
    ASSUME TypeInv, TypeInv', WaitInv, Waits, UNCHANGED around, Dispatch
    PROVE  [Protocol!Next]_Protocol!protocolVars
  <1> DEFINE type == Head(batch).type
  <1>1. CASE type \in Final
    <2>1. PICK outcome \in Outcomes : pumpCtx \in Exchanges /\ Ended(pumpCtx, outcome)
      BY <1>1, EndDispatched DEF Outcomes
    <2>2. /\ notices[pumpCtx] = <<>>
          /\ notices' = [notices EXCEPT ![pumpCtx] = <<outcome>>]
          /\ Fates[pumpCtx] = outcome /\ outcome # "undecided"
      BY <2>1 DEF Ended, Answering, Fates, Outcomes
    <2>4. Fates' = Fates
      BY <2>1 DEF Ended, Fates, Fate
    <2>3. Opened' = Opened
      <3>1. stream' = [stream EXCEPT ![pumpCtx] = StatusOf(outcome)]
        BY <2>1 DEF Ended
      <3>2. StatusOf(outcome) # "none"
        BY StatusesDiffer DEF Outcomes
      <3>3. stream[pumpCtx] # "none"
        BY <2>1, WaitFacts DEF Ended, Answering, ExchangeInv
      <3> QED  BY <2>1, <3>1, <3>2, <3>3, TypeFacts DEF Opened
    <2> QED  BY <2>1, <2>2, <2>3, <2>4, TellStep
  <1>2. CASE type \notin Final
    <2>1. \/ DispatchOutput(type)
          \/ DispatchKill
      BY <1>2 DEF Dispatch, Final
    <2>2. CASE DispatchOutput(type)
      <3>1. UNCHANGED <<task, notices>>
        BY <2>2 DEF DispatchOutput, runnerVars, historyVars
      <3>2. Opened' = Opened
        <4>1. \/ UpdateStream(pumpCtx, "executing")
              \/ UpdateStream(pumpCtx, "streaming")
              \/ UNCHANGED stream
          BY <2>2 DEF DispatchOutput, DispatchText, DispatchToolUse,
                      DispatchToolResult, DispatchUsage
        <4>2. "executing" \in Active /\ "streaming" \in Active
          BY DEF Active
        <4> QED  BY <4>1, <4>2, OpenedStays
      <3>3. Fates' = Fates
        BY <3>1 DEF Fates, Fate
      <3> QED  BY <3>1, <3>2, <3>3, StutterStep
    <2>3. CASE DispatchKill
      BY <2>3, ProtocolCancel DEF DispatchKill, historyVars
    <2> QED  BY <2>1, <2>2, <2>3
  <1> QED  BY <1>1, <1>2

LEMMA ProtocolStep ==
    TypeInv /\ TypeInv' /\ WaitInv /\ [Next]_vars
        => [Protocol!Next]_Protocol!protocolVars
  <1> SUFFICES ASSUME TypeInv, TypeInv', WaitInv, [Next]_vars
               PROVE  [Protocol!Next]_Protocol!protocolVars
    OBVIOUS
  <1>1. UNCHANGED around
    BY DEF Next, Steady, vars
  <1>2. CASE ~Waits
    BY <1>1, <1>2, UnseenStep
  <1>3. ASSUME Waits, UNCHANGED <<stream, task, notices>>
        PROVE  [Protocol!Next]_Protocol!protocolVars
    <2>1. Opened' = Opened /\ Fates' = Fates
      BY <1>3 DEF Opened, Fates, Fate
    <2> QED  BY <1>1, <1>3, <2>1, StutterStep
  <1>4. CASE Waits
    <2>1. CASE Poll \/ BeginDispatch
      BY <1>3, <1>4, <2>1 DEF Poll, DrainEvents, BeginDispatch, runnerVars,
                              historyVars, serviceVars
    <2>2. CASE Dispatch
      BY <1>1, <1>4, <2>2, ProtocolDispatch
    <2>3. CASE WatchersTold
      BY <1>4, <2>3, WaitFacts DEF WatchersTold, PumpInv
    <2>4. CASE LoseRound
      BY <1>4, <2>4 DEF LoseRound, Waits
    <2>5. ASSUME NEW e \in Exchanges, SubmitDirect(e)
          PROVE  UNCHANGED <<stream, task, notices>>
      BY <2>5 DEF SubmitDirect, runnerVars, historyVars
    <2>6. ASSUME NEW e \in Exchanges, LaunchSubmitted(e) \/ LaunchPumped(e)
          PROVE  Protocol!Next
      BY <1>1, <1>4, <2>6, ProtocolLaunch
    <2>7. ASSUME NEW e \in Exchanges, Stream(e)
          PROVE  UNCHANGED <<stream, task, notices>>
      BY <2>7 DEF Stream, Produce
    <2>8. ASSUME NEW e \in Exchanges, EndStream(e)
          PROVE  [Protocol!Next]_Protocol!protocolVars
      BY <1>1, <1>4, <2>8, ProtocolEndStream
    <2>9. CASE EnqueueFromWatcher \/ EditQueue \/ DeliverAlert \/ UNCHANGED vars
      BY <1>3, <1>4, <2>9 DEF EnqueueFromWatcher, EditQueue, DeliverAlert,
                              runnerVars, historyVars, serviceVars, vars
    <2>10. CASE CancelStreaming
      BY <1>1, <1>4, <2>10, ProtocolCancel DEF CancelStreaming, historyVars
    <2> QED  BY <1>3, <1>4, <2>1, <2>2, <2>3, <2>4, <2>5, <2>6, <2>7, <2>8, <2>9,
                <2>10 DEF Next, Step, PumpStep
  <1> QED  BY <1>2, <1>4

(* Every step of runner, pump, contexts and queue is a step of the protocol *)
(* or changes nothing of it: exchanges open one at a time, each comes to    *)
(* one end, and the client is told that end, once, before the next opens.   *)
THEOREM ProtocolSafety == Spec => Protocol!Init /\ [][Protocol!Next]_Protocol!protocolVars
  BY WaitInvHolds, TypeInvStep, ProtocolInit, ProtocolStep, PTL DEF Spec

=============================================================================
