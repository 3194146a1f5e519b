----------------------------- MODULE SessionSave -----------------------------
(***************************************************************************)
(* session.py, core/async_storage.py, core/runner.py (debouncing) and      *)
(* lmdb_engine.rs: how the turns of one session get to disk.               *)
(*                                                                         *)
(* Saving is a coroutine that submits one transaction after the other to   *)
(* an executor with a single thread and waits for each.  Any number of     *)
(* saves of one session run side by side (the per-session locks in         *)
(* session.py are never taken).  A transaction only touches the store, and *)
(* its coroutine resumes without looking at it, so that executing it and   *)
(* resuming up to the next one is one step.                                *)
(*                                                                         *)
(* A turn is its id and the number of times it was changed.  The session   *)
(* record is abstracted away; writing it is still a transaction, because   *)
(* it takes its place in the executor's queue.                             *)
(***************************************************************************)
EXTENDS Integers, Sequences, SequencesExt, FiniteSets, Lists

CONSTANTS
    Turns,              \* turn ids
    OldTurns,           \* those the session has when it is loaded
    NoTurn,
    Savers,             \* bound: other coroutines that can save at a time
    MaxVersion,         \* bound: changes to one turn
    Surroundings        \* what may happen, each a set of the names below;
                        \* one of them holds throughout a behaviour

(* What clients do besides adding turns; that they do it, and add turns,    *)
(* while a save is under way; other tasks that save; and what goes wrong: a *)
(* transaction fails, the process dies, the stream is cancelled in its      *)
(* final save.                                                              *)
Names == {"change", "delete", "archive", "busy", "others",
          "fail", "crash", "cancel"}

Debounced == "debounced"    \* the runner's task for debounced saves
Flush == "flush"            \* the runner itself at the end of a stream

ASSUME SaveAssumption ==
    /\ IsFiniteSet(Turns) /\ OldTurns \subseteq Turns
    /\ NoTurn \notin Turns
    /\ Debounced \notin Savers /\ Flush \notin Savers
    /\ MaxVersion \in Nat \ {0}
    /\ Surroundings \subseteq SUBSET Names

Tasks == Savers \cup {Debounced, Flush}

VARIABLES
    around,     \* the surroundings of this behaviour
    turns,      \* session.turns
    version,    \* what the turns contain
    dirty,      \* turns with _dirty
    deleted,    \* _deleted_turn_ids
    savedOrder, \* _saved_turn_order
    saver,      \* the save each task is in
    jobs,       \* the executor's queue: tasks that wait for a transaction
    pending,    \* runner._save_pending
    saveTask,   \* where runner._save_task stands
    records,    \* table turns: content by id, 0 for none
    order,      \* table turn_order
    used,       \* history: ids given to turns
    removed     \* history: turns deleted or archived

memory == <<turns, version, dirty, deleted, savedOrder>>
store == <<records, order>>
debounce == <<pending, saveTask>>
history == <<used, removed>>
vars == <<around, memory, saver, jobs, debounce, store, history>>

(* One transaction of a save; "ids" is the list an order or replace         *)
(* transaction carries, "turn" the turn of the other two.                   *)
Transaction == [op : {"session", "delete", "save", "order", "replace"},
                turn : Turns \cup {NoTurn}, ids : Seq(Turns)]

Session == [op |-> "session", turn |-> NoTurn, ids |-> <<>>]
OnTurn(op, t) == [op |-> op, turn |-> t, ids |-> <<>>]
OnList(op, ids) == [op |-> op, turn |-> NoTurn, ids |-> ids]

NoContent == [t \in {} |-> 0]
Idle == [todo |-> <<>>, wire |-> NoContent, covers |-> {}, full |-> FALSE]

-----------------------------------------------------------------------------
(* The store                                                                *)

(* load_turns: what a new process would find.                               *)
Loaded == Kept(order, {t \in Turns : records[t] # 0})

SaveTurn(t, content) ==
    /\ records' = [records EXCEPT ![t] = content[t]]
    /\ order' = IF t \in Range(order) THEN order ELSE Append(order, t)

(* TurnNotFound is swallowed by the caller.                                 *)
DeleteTurnRecord(t) ==
    IF t \in Range(order)
    THEN /\ order' = Kept(order, Turns \ {t})
         /\ records' = [records EXCEPT ![t] = 0]
    ELSE UNCHANGED store

(* Mutant of ReorderTurns: turns that are not in the order come in by it.   *)
ReorderTurns_Unchecked(ids) ==
    /\ order' = ids
    /\ UNCHANGED records

(* Mutant of ReorderTurns: turns that are not listed keep a place.          *)
ReorderTurns_KeepsRest(ids) ==
    /\ order' = IF Range(ids) \subseteq Range(order)
                THEN ids \o Kept(order, Turns \ Range(ids))
                ELSE order
    /\ UNCHANGED records

(* So is this one: the order stays as it is if one of the turns is gone.    *)
ReorderTurns(ids) ==
    /\ order' = IF Range(ids) \subseteq Range(order) THEN ids ELSE order
    /\ UNCHANGED records

ReplaceTurns(ids, content) ==
    /\ order' = ids
    /\ records' = [t \in Turns |->
                      IF t \in Range(ids) THEN content[t]
                      ELSE IF t \in Range(order) THEN 0 ELSE records[t]]

Commit(tx, content) ==
    \/ tx.op = "session" /\ UNCHANGED store
    \/ tx.op = "delete" /\ DeleteTurnRecord(tx.turn)
    \/ tx.op = "save" /\ SaveTurn(tx.turn, content)
    \/ tx.op = "order" /\ ReorderTurns(tx.ids)
    \/ tx.op = "replace" /\ ReplaceTurns(tx.ids, content)

-----------------------------------------------------------------------------
(* One save                                                                 *)

(* What is serialised when a transaction is submitted: the turn as it is by *)
(* then.  A full save serialises all its turns before its first await.      *)
Serialised(tx) ==
    IF tx.op = "save" THEN [t \in {tx.turn} |-> version[t]] ELSE NoContent

FullSave(m) ==
    [todo |-> <<Session, OnList("replace", m.turns)>>,
     wire |-> [t \in Range(m.turns) |-> m.version[t]],
     covers |-> Range(m.turns),
     full |-> TRUE]

(* Mutant of Known: turns that are new to the store are not known.          *)
Known_SavedOnly(m) == Range(savedOrder) \ m.deleted

(* The turns that are in the store once the turns of m are saved.           *)
Known(m) == (Range(savedOrder) \cup m.dirty) \ m.deleted

(* The deletions come in any order, Python's of a set.                      *)
IncrementalSave(m, gone) ==
    LET new == Kept(m.turns, m.dirty)
        known == Kept(m.turns, Known(m))
    IN  [todo |-> <<Session>>
                  \o [i \in 1..Len(gone) |-> OnTurn("delete", gone[i])]
                  \o [i \in 1..Len(new) |-> OnTurn("save", new[i])]
                  \o (IF known # savedOrder
                      THEN <<OnList("order", known)>> ELSE <<>>),
         wire |-> NoContent,
         covers |-> Range(m.turns),
         full |-> FALSE]

(* save_session up to its first await, for a session with contents m.       *)
Begin(s, m) ==
    /\ saver[s] = Idle
    /\ \E save \in IF savedOrder = <<>> THEN {FullSave(m)}
                    ELSE {IncrementalSave(m, gone) : gone \in SetToSeqs(m.deleted)} :
          saver' = [saver EXCEPT ![s] = save]
    /\ jobs' = Append(jobs, s)

(* The save after its first transaction, with the next one submitted.       *)
Continued(save) ==
    [todo |-> Tail(save.todo),
     wire |-> IF save.full THEN save.wire ELSE Serialised(save.todo[2]),
     covers |-> save.covers,
     full |-> save.full]

Contents == [turns |-> turns, version |-> version,
             dirty |-> dirty, deleted |-> deleted]

(* Mutant of MarkSavedClean: after every save.                              *)
MarkSavedClean_All(save) ==
    /\ deleted' = {}
    /\ dirty' = {}
    /\ savedOrder' = turns
    /\ UNCHANGED <<turns, version>>

(* mark_saved_clean: after a full save everything the session has by now    *)
(* counts as saved.                                                         *)
MarkSavedClean(save) ==
    /\ deleted' = {}
    /\ IF save.full
       THEN dirty' = {} /\ savedOrder' = turns
       ELSE /\ dirty' = dirty \ (save.covers \cap Range(turns))
            /\ savedOrder' = Kept(turns, save.covers)
    /\ UNCHANGED <<turns, version>>

(* The debounced task is done when its save is.                             *)
TaskEnds(s) ==
    saveTask' = IF s = Debounced /\ saveTask = "saving" THEN "none" ELSE saveTask

-----------------------------------------------------------------------------

Init ==
    /\ around \in Surroundings
    /\ turns \in SetToSeqs(OldTurns)
    /\ version = [t \in Turns |-> IF t \in OldTurns THEN 1 ELSE 0]
    /\ dirty = {}
    /\ deleted = {}
    /\ savedOrder = turns
    /\ saver = [s \in Tasks |-> Idle]
    /\ jobs = <<>>
    /\ pending = FALSE
    /\ saveTask = "none"
    /\ records = version
    /\ order = turns
    /\ used = OldTurns
    /\ removed = {}

-----------------------------------------------------------------------------
(* The executor                                                             *)

(* The first transaction in the queue is executed; its coroutine submits    *)
(* the next one, or is through.                                             *)
Execute ==
    /\ jobs # <<>>
    /\ LET s == Head(jobs)
           todo == saver[s].todo
       IN  /\ Commit(Head(todo), saver[s].wire)
           /\ IF Len(todo) > 1
              THEN /\ saver' = [saver EXCEPT ![s] = Continued(@)]
                   /\ jobs' = Append(Tail(jobs), s)
                   /\ UNCHANGED <<memory, saveTask>>
              ELSE /\ MarkSavedClean(saver[s])
                   /\ saver' = [saver EXCEPT ![s] = Idle]
                   /\ jobs' = Tail(jobs)
                   /\ TaskEnds(s)
    /\ UNCHANGED <<pending, history>>

(* A transaction fails for another reason than a turn that is not there:    *)
(* the save ends by the exception and nothing is marked.                    *)
Fail ==
    /\ "fail" \in around
    /\ jobs # <<>>
    /\ saver' = [saver EXCEPT ![Head(jobs)] = Idle]
    /\ jobs' = Tail(jobs)
    /\ TaskEnds(Head(jobs))
    /\ UNCHANGED <<memory, store, pending, history>>

(* A task is cancelled while it waits for its transaction: that one is      *)
(* withdrawn, unless the executor is at it already.                         *)
Cancel(s) ==
    /\ \E i \in DOMAIN jobs :
          /\ jobs[i] = s
          /\ jobs' = RemoveAt(jobs, i)
          /\ \/ UNCHANGED store
             \/ i = 1 /\ Commit(Head(saver[s].todo), saver[s].wire)
    /\ saver' = [saver EXCEPT ![s] = Idle]

-----------------------------------------------------------------------------
(* What the session is put to                                               *)

MayEdit == "busy" \in around \/ jobs = <<>>

AddTurn(t) ==
    /\ MayEdit
    /\ t \notin used
    /\ used' = used \cup {t}
    /\ version' = [version EXCEPT ![t] = 1]
    /\ turns' = Append(turns, t)
    /\ dirty' = dirty \cup {t}
    /\ UNCHANGED <<deleted, savedOrder, saver, jobs, store, removed>>

(* add_turn, and the runner's turns that are left to the next save.         *)
AddUnscheduled(t) == AddTurn(t) /\ UNCHANGED debounce

(* The runner adds no turn while it waits for its own final save, unless    *)
(* that one was cancelled in between and the next stream is running.        *)
RunnerFree ==
    "cancel" \in around \/ (saver[Flush] = Idle /\ saveTask # "joined")

(* _save_turn_to_session(save_now=True): no task is created as long as the  *)
(* last one is not done.                                                    *)
AddScheduled(t) ==
    /\ RunnerFree
    /\ AddTurn(t)
    /\ pending' = TRUE
    /\ saveTask' = IF saveTask = "none" THEN "sleeping" ELSE saveTask

(* A turn's block, tokens or group are changed and the turn marked dirty.   *)
ChangeTurn(t) ==
    /\ "change" \in around /\ MayEdit
    /\ t \in Range(turns)
    /\ version[t] < MaxVersion
    /\ version' = [version EXCEPT ![t] = @ + 1]
    /\ dirty' = dirty \cup {t}
    /\ UNCHANGED <<turns, deleted, savedOrder, saver, jobs, debounce, store,
                   history>>

(* Deleting and archiving turns start a save in the same step.              *)
EditAndSave(s, m) ==
    /\ MayEdit
    /\ Begin(s, m)
    /\ turns' = m.turns
    /\ version' = m.version
    /\ dirty' = m.dirty
    /\ deleted' = m.deleted
    /\ removed' = removed \cup (Range(turns) \ Range(m.turns))
    /\ UNCHANGED <<savedOrder, debounce, store>>

(* A deletion is noted only for turns that were there at the last save.     *)
DeleteTurns(s, gone) ==
    /\ "delete" \in around
    /\ gone # {}
    /\ EditAndSave(s,
           [turns |-> Kept(turns, Turns \ gone),
            version |-> version,
            dirty |-> dirty \ gone,
            deleted |-> deleted \cup (gone \cap Range(savedOrder))])
    /\ UNCHANGED used

(* A range of turns gives way to one that stands for it; nothing is noted   *)
(* as deleted.                                                              *)
ArchiveTurns(s, i, j, t) ==
    /\ "archive" \in around
    /\ t \notin used
    /\ i <= j
    /\ EditAndSave(s,
           [turns |-> SubSeq(turns, 1, i - 1) \o <<t>>
                      \o SubSeq(turns, j + 1, Len(turns)),
            version |-> [version EXCEPT ![t] = 1],
            dirty |-> (dirty \ Range(SubSeq(turns, i, j))) \cup {t},
            deleted |-> deleted])
    /\ used' = used \cup {t}

Save(s) ==
    /\ Begin(s, Contents)
    /\ UNCHANGED <<memory, debounce, store, history>>

-----------------------------------------------------------------------------
(* The runner's debounced saves                                             *)

DebounceOver ==
    /\ saveTask = "sleeping"
    /\ IF pending
       THEN Begin(Debounced, Contents) /\ saveTask' = "saving"
       ELSE saveTask' = "none" /\ UNCHANGED <<saver, jobs>>
    /\ pending' = FALSE
    /\ UNCHANGED <<memory, store, history>>

(* Mutant of FlushPending: the save that is under way is left alone.        *)
FlushPending_Beside ==
    /\ pending
    /\ pending' = FALSE
    /\ Begin(Flush, Contents)
    /\ UNCHANGED <<memory, saveTask, store, history>>

(* _flush_pending_save cancels a task that is not done and joins it.        *)
FlushPending ==
    /\ pending
    /\ saver[Flush] = Idle
    /\ pending' = FALSE
    /\ \/ /\ saveTask = "none"
          /\ Begin(Flush, Contents)
          /\ UNCHANGED <<saveTask, store>>
       \/ /\ saveTask = "sleeping"
          /\ saveTask' = "joined"
          /\ UNCHANGED <<saver, jobs, store>>
       \/ /\ saveTask = "saving"
          /\ saveTask' = "joined"
          /\ Cancel(Debounced)
    /\ UNCHANGED <<memory, history>>

(* Mutant of FlushJoined: the save that was joined is taken for its own.    *)
FlushJoined_NoSave ==
    /\ saveTask = "joined"
    /\ saveTask' = "none"
    /\ UNCHANGED <<memory, saver, jobs, pending, store, history>>

FlushJoined ==
    /\ saveTask = "joined"
    /\ Begin(Flush, Contents)
    /\ saveTask' = "none"
    /\ UNCHANGED <<memory, pending, store, history>>

CancelFlush ==
    /\ "cancel" \in around
    /\ Cancel(Flush)
    /\ UNCHANGED <<memory, debounce, history>>

-----------------------------------------------------------------------------

(* The process dies; the next one loads what is there.                      *)
Crash ==
    /\ "crash" \in around
    /\ turns' = Loaded
    /\ savedOrder' = turns'
    /\ version' = records
    /\ dirty' = {}
    /\ deleted' = {}
    /\ saver' = [s \in Tasks |-> Idle]
    /\ jobs' = <<>>
    /\ pending' = FALSE
    /\ saveTask' = "none"
    /\ removed' = removed \ Range(order)
    /\ UNCHANGED <<store, used>>

-----------------------------------------------------------------------------

OtherSavers == IF "others" \in around THEN Savers ELSE {}

Edit ==
    \/ \E t \in Turns : AddUnscheduled(t) \/ AddScheduled(t) \/ ChangeTurn(t)
    \/ \E s \in OtherSavers :
          \/ \E gone \in SUBSET Range(turns) : DeleteTurns(s, gone)
          \/ \E i, j \in DOMAIN turns, t \in Turns : ArchiveTurns(s, i, j, t)

Step ==
    \/ Execute
    \/ Fail
    \/ Edit
    \/ \E s \in OtherSavers : Save(s)
    \/ DebounceOver
    \/ FlushPending
    \/ FlushJoined
    \/ CancelFlush
    \/ Crash

Steady == UNCHANGED around

Next == Step /\ Steady

Spec == Init /\ [][Next]_vars

(* The executor works, and the event loop runs what is ready.  A stream may *)
(* go on for as long as it likes ...                                        *)
FairSpec ==
    /\ Spec
    /\ WF_vars(Execute /\ Steady)
    /\ WF_vars(DebounceOver /\ Steady)
    /\ WF_vars(FlushJoined /\ Steady)

(* ... or is known to end, its runner with it.                              *)
StreamsEnd == FairSpec /\ WF_vars(FlushPending /\ Steady)

-----------------------------------------------------------------------------

SaveState == [todo : Seq(Transaction),
              wire : UNION {[T -> 0..MaxVersion] : T \in SUBSET Turns},
              covers : SUBSET Turns,
              full : BOOLEAN]

TypeOK ==
    /\ turns \in Seq(Turns)
    /\ version \in [Turns -> 0..MaxVersion]
    /\ dirty \subseteq Range(turns)
    /\ deleted \subseteq Turns
    /\ savedOrder \in Seq(Turns)
    /\ saver \in [Tasks -> SaveState]
    /\ jobs \in Seq(Tasks)
    /\ \A s \in Tasks : saver[s].todo # <<>> <=> s \in Range(jobs)
    /\ pending \in BOOLEAN
    /\ saveTask \in {"none", "sleeping", "saving", "joined"}
    /\ saveTask = "saving" <=> Debounced \in Range(jobs)
    /\ records \in [Turns -> 0..MaxVersion]
    /\ order \in Seq(Turns)
    /\ used \subseteq Turns
    /\ removed \subseteq used

(* Whatever overlaps, fails, is cancelled or crashes: every turn the stored *)
(* order lists has its record, so load_turns never has to skip one.         *)
OrderHasRecords == \A t \in Range(order) : records[t] # 0

(* A turn that is not dirty is on disk as it is in memory.                  *)
CleanIsStored ==
    \A t \in Range(turns) \ dirty :
        t \in Range(order) /\ records[t] = version[t]

(* needs_save, as far as turns go.                                          *)
NeedsSave ==
    \/ deleted # {}
    \/ turns # savedOrder
    \/ dirty # {}

Quiet == jobs = <<>> /\ ~NeedsSave

(* Once nothing is left to save, no turn of the session is missing on disk. *)
NothingLeftOut == Quiet => Range(turns) \subseteq Range(Loaded)

(* Nothing is edited or added while a save is under way.                    *)
Calm == "busy" \notin around

(* A turn that was stored by a save that broke off, and then deleted, is    *)
(* not noted as deleted: it was in no order that counted as saved.          *)
Unbroken == "delete" \in around => around \cap {"fail", "cancel"} = {}

(* When nothing is left to save, a new process would find the session as    *)
(* it is.                                                                   *)
SavedMeansStored ==
    Calm /\ Unbroken /\ Quiet =>
             /\ Loaded = turns
             /\ \A t \in Range(turns) : records[t] = version[t]

(* What was on disk once and was not taken out of the session stays there.  *)
StoredStays ==
    [][Calm => Range(Loaded) \subseteq Range(Loaded') \cup removed]_vars

(* What was taken out of the session is not on disk once nothing is left to *)
(* save.                                                                    *)
RemovedIsGone == Quiet => Range(Loaded) \cap removed = {}

(* A save the runner has asked for is made.                                 *)
PendingIsSaved == pending ~> ~pending

(* A turn the runner has asked to be saved is on disk in the end, unless    *)
(* something goes wrong.                                                    *)
Sound == around \cap {"fail", "crash", "cancel"} = {}

ScheduledIsStored ==
    \A t \in Turns :
        (Sound /\ pending /\ t \in dirty) ~> (t \in Range(Loaded))

(* The abstract log: what is on disk has to be a beginning of the           *)
(* conversation, which is what -1 would deny.                               *)
Log == INSTANCE DurableLog WITH
    conversation <- turns,
    saved <- IF IsPrefix(Loaded, turns) THEN Len(Loaded) ELSE -1

(* While turns are only added, saving implements a durable log.             *)
ImplementsLog == Log!Spec

=============================================================================
