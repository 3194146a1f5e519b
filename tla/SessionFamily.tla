---------------------------- MODULE SessionFamily ----------------------------
(***************************************************************************)
(* core/manager.py, core/fork.py and the parts of                          *)
(* service/session_manager_service.py that relate sessions to each other:  *)
(* forks and merges, links, watchers, and what they do to the copies of a  *)
(* session that are in memory and on disk.                                 *)
(*                                                                         *)
(* Every call is a coroutine.  It runs without interruption between two    *)
(* awaits, and awaits only the store and the summary of a fork.  A save is *)
(* one step here; SessionSave takes it apart.  A session is its relations  *)
(* to others and its turns; a turn is what it says about another session.  *)
(***************************************************************************)
EXTENDS Integers, Sequences, SequencesExt, FiniteSets

CONSTANTS
    Sessions,           \* session ids
    Roots,              \* those that are stored at the beginning
    Nobody,             \* no session
    Callers,            \* bound: calls at a time
    MaxCopy,            \* bound: Session objects at a time
    MaxTurns,           \* bound: turns ever made
    Occasions           \* each a set of the names below, one per behaviour

(* What clients ask for; that they do so at the same time, that the server  *)
(* has the sessions in memory already, restarts, or that a summary fails.   *)
Requests == {"create", "fork", "compress", "merge", "conclude", "backend",
             "link", "watch", "unwatch", "watcher", "alert", "open",
             "delete", "talk"}
Events == {"together", "warm", "restart", "fail"}

ASSUME FamilyAssumption ==
    /\ Roots \subseteq Sessions /\ Nobody \notin Sessions
    /\ IsFiniteSet(Roots) /\ Cardinality(Roots) <= MaxCopy
    /\ MaxCopy \in Nat /\ MaxTurns \in Nat
    /\ Occasions \subseteq SUBSET (Requests \cup Events)

Refs == 1..MaxCopy

VARIABLES
    occasion,   \* what happens in this behaviour
    stored,     \* the sessions on disk
    disk,       \* and what they say there
    copy,       \* the Session objects
    live,       \* manager._sessions: the object of a session, 0 for none
    runner,     \* manager._runners: the calls that hold the runner
    call,       \* where each call stands
    watched,    \* _watcher_targets, _watcher_watching: <<watcher, target>>
    table,      \* the table of watchers
    deleted,    \* history: sessions deleted
    made        \* history: number of turns made

store == <<stored, disk>>
watchers == <<watched, table>>
familyVars == <<occasion, store, copy, live, runner, call, watchers, deleted,
                made>>

(* parent_id, children with their status, fork_status, concluded.           *)
Blank(parent) == [turns |-> <<>>, parent |-> parent, kids |-> [k \in {} |-> ""],
                  merged |-> FALSE, concluded |-> FALSE]

(* A Session object: what it is of, what it says, its _saved_turn_order.    *)
Object(s, is, saved) == [of |-> s, is |-> is, saved |-> saved]
NoObject == Object(Nobody, Blank(Nobody), <<>>)
Read(s) == Object(s, disk[s], disk[s].turns)

NoCall == [op |-> "none", at |-> "none", s |-> Nobody, t |-> Nobody,
           a |-> 0, b |-> 0]

Together == "together" \in occasion

-----------------------------------------------------------------------------
(* What a session says                                                      *)

Turn(kind, with) == [kind |-> kind, with |-> with, id |-> made]
Adds(o, kind, with) == [o EXCEPT !.is.turns = Append(@, Turn(kind, with))]

(* add_child, mark_child_merged: the status of a child in its parent.       *)
HasKid(o, k, status) ==
    [o EXCEPT !.is.kids = [x \in DOMAIN @ \cup {k} |->
                              IF x = k THEN status ELSE @[x]]]
KidMerged(o, k) == IF k \in DOMAIN o.is.kids THEN HasKid(o, k, "merged") ELSE o

At(is, kind, t) ==
    {i \in DOMAIN is.turns : is.turns[i].kind = kind /\ is.turns[i].with = t}

(* get_all_watch_targets: what was not left after it was last taken up.     *)
Targets(is) ==
    {t \in Sessions : \E i \in At(is, "watch", t) :
                          \A j \in At(is, "unwatch", t) : j < i}

(* get_watch_target_id: the one that was taken up last.                     *)
IsLastTarget(t, is) ==
    /\ t \in Targets(is)
    /\ \E i \in At(is, "watch", t) :
           \A u \in Targets(is) \ {t} : \A j \in At(is, "watch", u) : j < i

-----------------------------------------------------------------------------
(* The store                                                                *)

(* save_session.  The turns that are new to the object are appended; then   *)
(* the object's order becomes the stored one, if it changed and lists only  *)
(* turns that are stored.                                                   *)
WrittenTurns(o) ==
    LET grown == disk[o.of].turns
                   \o SelectSeq(o.is.turns, LAMBDA t : t \notin ToSet(o.saved))
    IN  IF o.saved = <<>> THEN o.is.turns
        ELSE IF o.is.turns = o.saved THEN disk[o.of].turns
        ELSE IF ToSet(o.is.turns) \subseteq ToSet(grown) THEN o.is.turns
        ELSE grown

(* _serialize_content_block cannot write the end of a watch: it reads a     *)
(* target_session_name that WatchStopBlock does not have.                   *)
Storable(o) == \A t \in ToSet(o.is.turns) : t.kind # "unwatch"

Store(o) ==
    /\ Storable(o)
    /\ stored' = stored \cup {o.of}
    /\ disk' = [disk EXCEPT ![o.of] = [o.is EXCEPT !.turns = WrittenTurns(o)]]

(* What an incremental save has written when it meets the end of a watch:   *)
(* a full save serialises everything first.                                 *)
StoreUpToStop(o) ==
    LET stop == CHOOSE i \in DOMAIN o.is.turns :
                    /\ o.is.turns[i].kind = "unwatch"
                    /\ \A j \in 1..(i - 1) : o.is.turns[j].kind # "unwatch"
        before == SelectSeq(SubSeq(o.is.turns, 1, stop - 1),
                            LAMBDA t : t \notin ToSet(o.saved))
    IN  IF o.saved = <<>> THEN UNCHANGED store
        ELSE /\ stored' = stored \cup {o.of}
             /\ disk' = [disk EXCEPT ![o.of] =
                            [o.is EXCEPT !.turns = disk[o.of].turns \o before]]

Clean(o) == [o EXCEPT !.saved = o.is.turns]

-----------------------------------------------------------------------------
(* Calls and objects                                                        *)

FamilyInit ==
    /\ occasion \in Occasions
    /\ stored = Roots
    /\ disk = [s \in Sessions |-> Blank(Nobody)]
    /\ live \in [Sessions -> 0..Cardinality(Roots)]
    /\ \A s \in Sessions : live[s] # 0 <=> s \in Roots /\ "warm" \in occasion
    /\ \A s, t \in Roots : s # t /\ live[s] # 0 => live[s] # live[t]
    /\ copy = [r \in Refs |->
                 IF \E s \in Roots : live[s] = r
                 THEN Read(CHOOSE s \in Roots : live[s] = r) ELSE NoObject]
    /\ runner = [s \in Sessions |-> {}]
    /\ call = [c \in Callers |-> NoCall]
    /\ watched = {} /\ table = {} /\ deleted = {}
    /\ made = 0

(* Objects nothing refers to any more are gone.                             *)
InUse == {live[s] : s \in Sessions}
           \cup UNION {{call[c].a, call[c].b} : c \in Callers}
Free == Refs \ InUse
Fresh == CHOOSE r \in Free : TRUE
With(r, o) == [copy EXCEPT ![r] = o]

(* The ids no session ever had.                                             *)
NewIds == {s \in Sessions : /\ s \notin stored \cup deleted
                            /\ \A r \in Refs \cap InUse : copy[r].of # s}

(* A call that is "running" has the event loop; all the others wait.        *)
Loop(c) == \A d \in Callers \ {c} : call[d].at # "running"
Runs(c, op) == call[c].at = "running" /\ call[c].op = op
Waits(c, at) == call[c].at = at /\ Loop(c)

Goes(c, at) == call' = [call EXCEPT ![c].at = at]
Ends(c) == call' = [call EXCEPT ![c] = NoCall]

Begin(c, op, s, t) ==
    /\ Loop(c) /\ call[c] = NoCall
    /\ Together \/ \A d \in Callers : call[d] = NoCall
    /\ made < MaxTurns
    /\ call' = [call EXCEPT ![c] = [NoCall EXCEPT !.op = op, !.at = "running",
                                                  !.s = s, !.t = t]]
    /\ copy' = [r \in Refs |-> IF r \in InUse THEN copy[r] ELSE NoObject]
    /\ UNCHANGED <<occasion, store, live, runner, watchers, deleted, made>>

(* Mutant of First: a session in memory is read from the disk again.        *)
First_ReadsAgain(c) == call[c].a

(* get_session or load_session: the object in memory, or one that is read.  *)
First(c) ==
    IF call[c].a # 0 THEN call[c].a
    ELSE IF call[c].op = "create" THEN 0 ELSE live[call[c].s]
Second(c) == IF call[c].b # 0 THEN call[c].b ELSE live[call[c].t]
NeedsBoth(c) == call[c].op \in {"link", "watch"}
HasFirst(c) == call[c].op = "create" \/ First(c) # 0
HasAll(c) == HasFirst(c) /\ (NeedsBoth(c) => Second(c) # 0)

Miss(c) ==
    /\ call[c].at = "running" /\ ~HasAll(c)
    /\ call' = [call EXCEPT ![c].at = IF HasFirst(c) THEN "loadSecond"
                                      ELSE "loadFirst",
                            ![c].a = First(c)]
    /\ UNCHANGED <<occasion, store, copy, live, runner, watchers, deleted, made>>

(* What is read takes the place of an object that came in meanwhile, and    *)
(* brings a runner of its own.                                              *)
Load(c) ==
    \E first \in BOOLEAN :
    LET s == IF first THEN call[c].s ELSE call[c].t
    IN  /\ Waits(c, IF first THEN "loadFirst" ELSE "loadSecond")
        /\ IF s \in stored
           THEN /\ Free # {}
                /\ live' = [live EXCEPT ![s] = Fresh]
                /\ runner' = [runner EXCEPT ![s] = {}]
                /\ call' = [call EXCEPT ![c].at = "running",
                                ![c].a = IF first THEN Fresh ELSE @,
                                ![c].b = IF first THEN @ ELSE Fresh]
                /\ copy' = With(Fresh, Read(s))
           ELSE Ends(c) /\ UNCHANGED copy /\ UNCHANGED <<live, runner>>
        /\ UNCHANGED <<occasion, store, watchers, deleted, made>>

(* A call that refuses, or finds nothing to do.                             *)
Refuse(c) ==
    /\ Ends(c) /\ UNCHANGED copy
    /\ UNCHANGED <<occasion, store, live, runner, watchers, deleted, made>>

(* A call that changes an object and saves it.                              *)
Change(c, r, o, at) ==
    /\ call' = [call EXCEPT ![c].at = at, ![c].a = r]
    /\ copy' = With(r, o)
    /\ made' = made + 1
    /\ UNCHANGED <<occasion, store, live, runner, watchers, deleted>>

(* Where a call waits for the save of its first or its second object.       *)
SavesFirst == {"saveParent", "saveFork", "saveSource", "saveWatch",
               "saveUnwatch", "saveTalk", "saveBackend", "saveLast"}
SavesSecond == {"saveNew", "saveChild", "saveInto"}

(* The save at the end of a call.                                           *)
SaveAndEnd(c) ==
    /\ Waits(c, "saveLast")
    /\ Store(copy[call[c].a])
    /\ Ends(c) /\ copy' = With(call[c].a, Clean(copy[call[c].a]))
    /\ UNCHANGED <<occasion, live, runner, watchers, deleted, made>>

-----------------------------------------------------------------------------
(* Creating, concluding, deleting                                           *)

(* create_session, and create_watcher_session, which goes on as             *)
(* start_watching_session does for the session it created.                  *)
Create(c) ==
    /\ Runs(c, "create") \/ Runs(c, "watcher")
    /\ HasFirst(c) /\ Free # {} /\ NewIds # {}
    /\ call' = [call EXCEPT ![c].at = "saveNew", ![c].b = Fresh]
    /\ \E n \in NewIds : copy' = With(Fresh, Object(n, Blank(Nobody), <<>>))
    /\ UNCHANGED <<occasion, store, live, runner, watchers, deleted, made>>

SaveNew(c) ==
    LET r == call[c].b  n == copy[r].of
    IN  /\ Waits(c, "saveNew")
        /\ Store(copy[r])
        /\ live' = [live EXCEPT ![n] = r]
        /\ runner' = [runner EXCEPT ![n] = {}]
        /\ IF call[c].op = "create"
           THEN Ends(c) /\ UNCHANGED copy /\ UNCHANGED made
           ELSE /\ call' = [call EXCEPT ![c].at = "saveWatch", ![c].s = n,
                                ![c].t = call[c].s, ![c].a = r, ![c].b = 0]
                /\ copy' = With(r, Adds(copy[r], "watch", call[c].s))
                /\ made' = made + 1
        /\ UNCHANGED <<occasion, watchers, deleted>>

(* conclude_session and reopen_session.                                     *)
Conclude(c) ==
    LET r == First(c)
    IN  /\ Runs(c, "conclude") /\ HasFirst(c)
        /\ Change(c, r, [Adds(copy[r], "noted", Nobody)
                            EXCEPT !.is.concluded = ~@], "saveLast")

(* delete_session: out of memory and its stream cancelled, then off the     *)
(* disk.                                                                    *)
Delete(c) ==
    /\ Runs(c, "delete") /\ HasFirst(c)
    /\ live' = [live EXCEPT ![call[c].s] = 0]
    /\ runner' = [runner EXCEPT ![call[c].s] = {}]
    /\ call' = [d \in Callers |->
                  IF d = c THEN [call[c] EXCEPT !.at = "erase", !.a = First(c)]
                  ELSE IF call[d].at = "stream" /\ d \in runner[call[c].s]
                  THEN NoCall ELSE call[d]]
    /\ UNCHANGED copy
    /\ UNCHANGED <<occasion, store, watchers, deleted, made>>

Erase(c) ==
    /\ Waits(c, "erase")
    /\ stored' = stored \ {call[c].s}
    /\ disk' = [disk EXCEPT ![call[c].s] = Blank(Nobody)]
    /\ deleted' = deleted \cup {call[c].s}
    /\ Ends(c) /\ UNCHANGED copy
    /\ UNCHANGED <<occasion, live, runner, watchers, made>>


-----------------------------------------------------------------------------
(* Forks and merges                                                         *)

(* fork_session.  A fork whose context must be compressed is in memory at   *)
(* once and waits for the summary; any other is saved first.                *)
Fork(c) ==
    LET s == call[c].s  whole == call[c].op = "fork"
    IN  /\ Runs(c, "fork") \/ Runs(c, "compress")
        /\ HasFirst(c) /\ Free # {}
        /\ \E n \in NewIds :
               LET o == Object(n, Blank(s), <<>>)
               IN  /\ copy' = With(Fresh, IF whole THEN Adds(o, "from", s) ELSE o)
                   /\ IF whole THEN UNCHANGED <<live, runner>>
                      ELSE /\ live' = [live EXCEPT ![n] = Fresh]
                           /\ runner' = [runner EXCEPT ![n] = {}]
        /\ call' = [call EXCEPT ![c].at = IF whole THEN "saveChild" ELSE "summary",
                                ![c].a = First(c), ![c].b = Fresh]
        /\ made' = made + 1
        /\ UNCHANGED <<occasion, store, watchers, deleted>>

(* complete_fork_after_compression.                                         *)
Summarised(c) ==
    LET r == call[c].b
    IN  /\ Waits(c, "summary")
        /\ Goes(c, "saveChild") /\ made' = made + 1
        /\ copy' = With(r, Adds(copy[r], "from", call[c].s))
        /\ UNCHANGED <<occasion, store, live, runner, watchers, deleted>>

SummaryFails(c) ==
    /\ "fail" \in occasion /\ Waits(c, "summary")
    /\ occasion' = (occasion \ {"fail"}) \cup {"failed"}
    /\ Ends(c) /\ UNCHANGED copy
    /\ UNCHANGED <<store, live, runner, watchers, deleted, made>>

(* Mutant of SaveChild: the fork is not saved before its parent.            *)
SaveChild_Unsaved(c) ==
    LET a == call[c].a  b == call[c].b  n == copy[b].of
    IN  /\ Waits(c, "saveChild")
        /\ Goes(c, "saveParent")
        /\ copy' = [copy EXCEPT ![a] = Adds(HasKid(@, n, "active"), "fork", n)]
        /\ made' = made + 1
        /\ UNCHANGED <<occasion, store, live, runner, watchers, deleted>>

SaveChild(c) ==
    LET a == call[c].a  b == call[c].b  n == copy[b].of
    IN  /\ Waits(c, "saveChild")
        /\ Store(copy[b]) /\ Goes(c, "saveParent")
        /\ copy' = [With(b, Clean(copy[b])) EXCEPT
                       ![a] = Adds(HasKid(@, n, "active"), "fork", n)]
        /\ made' = made + 1
        /\ UNCHANGED <<occasion, live, runner, watchers, deleted>>

SaveParent(c) ==
    LET a == call[c].a  b == call[c].b  n == copy[b].of
    IN  /\ Waits(c, "saveParent")
        /\ Store(copy[a]) /\ Ends(c) /\ copy' = With(a, Clean(copy[a]))
        /\ IF call[c].op = "fork"
           THEN live' = [live EXCEPT ![n] = b] /\ runner' = [runner EXCEPT ![n] = {}]
           ELSE UNCHANGED <<live, runner>>
        /\ UNCHANGED <<occasion, watchers, deleted, made>>

(* merge_session.  The parent is read from the disk even if it is in memory,*)
(* and what was read then takes the place of what was there, with a runner  *)
(* of its own.  A fork can be merged again.                                 *)
Merge(c) ==
    /\ Runs(c, "merge") /\ HasFirst(c)
    /\ copy[First(c)].is.parent # Nobody
    /\ call' = [call EXCEPT ![c].at = "readParent", ![c].a = First(c)]
    /\ UNCHANGED <<occasion, store, copy, live, runner, watchers, deleted, made>>

NotAFork(c) ==
    /\ Runs(c, "merge") /\ HasFirst(c)
    /\ copy[First(c)].is.parent = Nobody
    /\ Refuse(c)

ReadParent(c) ==
    LET a == call[c].a  p == copy[a].is.parent
    IN  /\ Waits(c, "readParent")
        /\ p \in stored /\ Free # {}
        /\ call' = [call EXCEPT ![c].at = "saveFork", ![c].b = Fresh, ![c].t = p]
        /\ copy' = [With(Fresh, Read(p)) EXCEPT
                       ![a] = Adds([@ EXCEPT !.is.merged = TRUE], "merged", p)]
        /\ made' = made + 1
        /\ UNCHANGED <<occasion, store, live, runner, watchers, deleted>>

NoParent(c) ==
    /\ Waits(c, "readParent")
    /\ copy[call[c].a].is.parent \notin stored
    /\ Refuse(c)

(* Mutant of SaveFork: only the parent is saved.                            *)
SaveFork_Unsaved(c) ==
    LET a == call[c].a  b == call[c].b  s == call[c].s
    IN  /\ Waits(c, "saveFork")
        /\ Goes(c, "saveInto")
        /\ copy' = With(b, Adds(KidMerged(copy[b], s), "merge", s))
        /\ made' = made + 1
        /\ UNCHANGED <<occasion, store, live, runner, watchers, deleted>>

SaveFork(c) ==
    LET a == call[c].a  b == call[c].b  s == call[c].s
    IN  /\ Waits(c, "saveFork")
        /\ Store(copy[a]) /\ Goes(c, "saveInto")
        /\ copy' = [With(a, Clean(copy[a])) EXCEPT
                       ![b] = Adds(KidMerged(@, s), "merge", s)]
        /\ made' = made + 1
        /\ UNCHANGED <<occasion, live, runner, watchers, deleted>>

(* Mutant of SaveInto: what was merged into stays out of memory.            *)
SaveInto_Unregistered(c) ==
    LET b == call[c].b
    IN  /\ Waits(c, "saveInto")
        /\ Store(copy[b]) /\ Ends(c)
        /\ copy' = With(b, Clean(copy[b]))
        /\ UNCHANGED <<occasion, live, runner, watchers, deleted, made>>

SaveInto(c) ==
    LET b == call[c].b  p == copy[b].of
    IN  /\ Waits(c, "saveInto")
        /\ Store(copy[b]) /\ Ends(c)
        /\ live' = [live EXCEPT ![p] = b]
        /\ runner' = [runner EXCEPT ![p] = {}]
        /\ copy' = With(b, Clean(copy[b]))
        /\ UNCHANGED <<occasion, watchers, deleted, made>>

-----------------------------------------------------------------------------
(* Links and watchers                                                       *)

(* link_sessions: both sessions get a turn, one save after the other.       *)
Link(c) ==
    LET s == call[c].s  t == call[c].t  r == First(c)
    IN  /\ Runs(c, "link") /\ HasAll(c)
        /\ s # t /\ At(copy[r].is, "link", t) = {}
        /\ call' = [call EXCEPT ![c].at = "saveSource", ![c].a = r, ![c].b = Second(c)]
        /\ copy' = With(r, Adds(copy[r], "link", t)) /\ made' = made + 1
        /\ UNCHANGED <<occasion, store, live, runner, watchers, deleted>>

(* Mutant of SaveSource: the other end gets no link.                        *)
SaveSource_Ends(c) ==
    /\ Waits(c, "saveSource")
    /\ Store(copy[call[c].a]) /\ Ends(c)
    /\ copy' = With(call[c].a, Clean(copy[call[c].a]))
    /\ UNCHANGED <<occasion, live, runner, watchers, deleted, made>>

SaveSource(c) ==
    LET a == call[c].a  b == call[c].b
    IN  /\ Waits(c, "saveSource")
        /\ Store(copy[a])
        /\ call' = [call EXCEPT ![c].at = "saveLast", ![c].a = b]
        /\ copy' = [With(a, Clean(copy[a])) EXCEPT ![b] = Adds(@, "link", call[c].s)]
        /\ made' = made + 1
        /\ UNCHANGED <<occasion, live, runner, watchers, deleted>>

(* start_watching_session: a turn, then memory, then the table.             *)
Watch(c) ==
    LET s == call[c].s  t == call[c].t  r == First(c)
    IN  /\ Runs(c, "watch") /\ HasAll(c)
        /\ s # t /\ t \notin Targets(copy[r].is)
        /\ Change(c, r, Adds(copy[r], "watch", t), "saveWatch")

(* A session and itself, sessions that are linked, a target watched already. *)
Nothing(c) ==
    LET s == call[c].s  t == call[c].t  is == copy[First(c)].is
    IN  /\ call[c].at = "running" /\ HasAll(c)
        /\ \/ Runs(c, "link") /\ (s = t \/ At(is, "link", t) # {})
           \/ Runs(c, "watch") /\ (s = t \/ t \in Targets(is))
           \/ Runs(c, "unwatch") /\ t \notin Targets(is)
        /\ Refuse(c)

(* _register_watcher_internal                                               *)
Register(c, s, t) ==
    /\ watched' = watched \cup {<<s, t>>}
    /\ IF <<s, t>> \in watched THEN Ends(c)
       ELSE call' = [call EXCEPT ![c].at = "saveTable", ![c].s = s, ![c].t = t,
                         ![c].a = 0, ![c].b = 0]

SaveWatch(c) ==
    LET r == call[c].a
    IN  /\ Waits(c, "saveWatch")
        /\ Store(copy[r]) /\ Register(c, call[c].s, call[c].t)
        /\ copy' = With(r, Clean(copy[r]))
        /\ UNCHANGED <<occasion, live, runner, table, deleted, made>>

SaveTable(c) ==
    /\ Waits(c, "saveTable")
    /\ table' = table \cup {<<call[c].s, call[c].t>>}
    /\ Ends(c)
    /\ UNCHANGED <<occasion, store, copy, live, runner, watched, deleted, made>>

(* stop_watching_session, of one target.                                    *)
Unwatch(c) ==
    LET t == call[c].t  r == First(c)
    IN  /\ Runs(c, "unwatch") /\ HasFirst(c)
        /\ t \in Targets(copy[r].is)
        /\ Change(c, r, Adds(copy[r], "unwatch", t), "saveUnwatch")

(* Mutant of SaveFails: the watcher is unregistered all the same.           *)
SaveFails_Unregisters(c) ==
    LET a == call[c].at
        o == copy[IF a \in SavesSecond THEN call[c].b ELSE call[c].a]
    IN  /\ a \in SavesFirst \cup SavesSecond /\ Loop(c)
        /\ ~Storable(o) /\ StoreUpToStop(o)
        /\ watched' = IF a = "saveUnwatch" THEN watched \ {<<call[c].s, call[c].t>>}
                      ELSE watched
        /\ runner' = [s \in Sessions |-> runner[s] \ {c}]
        /\ Ends(c) /\ UNCHANGED copy
        /\ UNCHANGED <<occasion, live, table, deleted, made>>

(* A save of an object that holds the end of a watch raises, and so does    *)
(* the call.  stop_watching_session itself never comes to unregister the    *)
(* watcher.                                                                 *)
SaveFails(c) ==
    LET a == call[c].at
        o == copy[IF a \in SavesSecond THEN call[c].b ELSE call[c].a]
    IN  /\ a \in SavesFirst \cup SavesSecond /\ Loop(c)
        /\ ~Storable(o) /\ StoreUpToStop(o)
        /\ runner' = [s \in Sessions |-> runner[s] \ {c}]
        /\ Ends(c) /\ UNCHANGED copy
        /\ UNCHANGED <<occasion, live, watchers, deleted, made>>

(* switch_session: the last target is taken up in memory.                   *)
Open(c) ==
    LET s == call[c].s  is == copy[First(c)].is
    IN  /\ Runs(c, "open") /\ HasFirst(c)
        /\ IF Targets(is) = {} THEN Ends(c) /\ UNCHANGED watched
           ELSE \E t \in Sessions : IsLastTarget(t, is) /\ Register(c, s, t)
        /\ UNCHANGED copy
        /\ UNCHANGED <<occasion, store, live, runner, table, deleted, made>>

(* send_to_target: the target is read from the disk and saved, with the     *)
(* message, apart from the object in memory.                                *)
Alert(c) ==
    LET is == copy[First(c)].is
    IN  /\ Runs(c, "alert") /\ HasFirst(c)
        /\ IF Targets(is) = {} THEN Ends(c)
           ELSE \E t \in Sessions :
                    /\ IsLastTarget(t, is)
                    /\ call' = [call EXCEPT ![c].at = "readTarget", ![c].t = t]
        /\ UNCHANGED copy
        /\ UNCHANGED <<occasion, store, live, runner, watchers, deleted, made>>

ReadTarget(c) ==
    LET t == call[c].t
    IN  /\ Waits(c, "readTarget")
        /\ IF t \in stored
           THEN /\ Free # {}
                /\ call' = [call EXCEPT ![c].at = "saveLast", ![c].a = Fresh]
                /\ copy' = With(Fresh, Read(t))
           ELSE Ends(c) /\ UNCHANGED copy
        /\ UNCHANGED <<occasion, store, live, runner, watchers, deleted, made>>

-----------------------------------------------------------------------------
(* Streams and runners                                                      *)

(* The runner of a session streams.                                         *)
Streaming(s) == \E d \in runner[s] : call[d].at = "stream"

(* submit_message: the runner is looked up before the save, and streams     *)
(* after it.                                                                *)
Talk(c) ==
    LET s == call[c].s  r == First(c)
    IN  /\ Runs(c, "talk") /\ HasFirst(c)
        /\ IF Streaming(s)
           THEN Refuse(c)
           ELSE /\ call' = [call EXCEPT ![c].at = "saveTalk", ![c].a = r]
                /\ copy' = With(r, Adds(copy[r], "said", Nobody))
                /\ made' = made + 1
                /\ runner' = [runner EXCEPT ![s] = @ \cup {c}]
                /\ UNCHANGED <<occasion, store, live, watchers, deleted>>

SaveTalk(c) ==
    LET s == call[c].s  r == call[c].a
    IN  /\ Waits(c, "saveTalk")
        /\ Store(copy[r])
        /\ IF c \in runner[s] /\ Streaming(s)
           THEN Ends(c) /\ runner' = [runner EXCEPT ![s] = @ \ {c}]
           ELSE Goes(c, "stream") /\ UNCHANGED runner
        /\ copy' = With(r, Clean(copy[r]))
        /\ UNCHANGED <<occasion, live, watchers, deleted, made>>

(* What a runner streams reaches the session that is live, if the runner is *)
(* the one that poll_all asks.                                              *)
Answer(c) ==
    LET s == call[c].s
    IN  /\ Waits(c, "stream") /\ c \in runner[s] /\ live[s] # 0
        /\ runner' = [runner EXCEPT ![s] = @ \ {c}]
        /\ call' = [call EXCEPT ![c].at = "saveLast", ![c].a = live[s]]
        /\ copy' = With(live[s], Adds(copy[live[s]], "answer", Nobody))
        /\ made' = made + 1
        /\ UNCHANGED <<occasion, store, live, watchers, deleted>>

(* set_session_backend                                                      *)
Backend(c) ==
    /\ Runs(c, "backend") /\ HasFirst(c)
    /\ IF Streaming(call[c].s) THEN Ends(c)
       ELSE call' = [call EXCEPT ![c].at = "saveBackend", ![c].a = First(c)]
    /\ UNCHANGED copy
    /\ UNCHANGED <<occasion, store, live, runner, watchers, deleted, made>>

(* update_runner raises if the session is not registered any more.          *)
SaveBackend(c) ==
    LET s == call[c].s  r == call[c].a
    IN  /\ Waits(c, "saveBackend")
        /\ Store(copy[r]) /\ Ends(c)
        /\ copy' = With(r, Clean(copy[r]))
        /\ runner' = [runner EXCEPT ![s] = IF live[s] # 0 THEN {} ELSE @]
        /\ UNCHANGED <<occasion, live, watchers, deleted, made>>

-----------------------------------------------------------------------------
(* The server stops and starts: memory is empty, and the watchers are       *)
(* rebuilt from the table (_rebuild_all_watcher_relationships).             *)
Restart ==
    /\ "restart" \in occasion
    /\ occasion' = (occasion \ {"restart"}) \cup {"restarted"}
    /\ live' = [s \in Sessions |-> 0]
    /\ runner' = [s \in Sessions |-> {}]
    /\ call' = [c \in Callers |-> NoCall]
    /\ copy' = [r \in Refs |-> NoObject]
    /\ watched' = table
    /\ UNCHANGED <<store, table, deleted, made>>

Known == stored \cup deleted \cup {s \in Sessions : live[s] # 0}

Starts(c) ==
    /\ \E s, t \in Known \cup {Nobody} : \E op \in Requests \cap occasion :
           /\ op = "create" <=> s = Nobody
           /\ op \in {"link", "watch", "unwatch"} <=> t # Nobody
           /\ Begin(c, op, s, t)

FamilyStep(c) ==
    \/ Starts(c) \/ Miss(c) \/ Load(c) \/ SaveAndEnd(c)
    \/ Create(c) \/ SaveNew(c) \/ Conclude(c) \/ Delete(c) \/ Erase(c)
    \/ Fork(c) \/ Summarised(c) \/ SummaryFails(c) \/ SaveChild(c) \/ SaveParent(c)
    \/ Merge(c) \/ NotAFork(c) \/ ReadParent(c) \/ NoParent(c) \/ SaveFork(c)
    \/ SaveInto(c)
    \/ Link(c) \/ SaveSource(c) \/ Watch(c) \/ Nothing(c) \/ SaveWatch(c)
    \/ SaveTable(c) \/ Unwatch(c) \/ SaveFails(c) \/ Open(c)
    \/ Alert(c) \/ ReadTarget(c)
    \/ Talk(c) \/ SaveTalk(c) \/ Answer(c) \/ Backend(c) \/ SaveBackend(c)

FamilyNext == (\E c \in Callers : FamilyStep(c)) \/ Restart

FamilySpec == FamilyInit /\ [][FamilyNext]_familyVars

-----------------------------------------------------------------------------
(* Properties                                                               *)

Idle == \A c \in Callers : call[c] = NoCall

(* A session can have two objects at a time when it is merged into or       *)
(* messaged, when two calls load it, or one does while it is being forked   *)
(* or after it was deleted and stored again.                                *)
OneObject ==
    Together => /\ "warm" \in occasion
                /\ occasion \cap {"merge", "alert", "fork", "delete", "restarted"} = {}

(* No session in memory is beyond saving, and none was: a merge may put what *)
(* the disk has of a session in place of the object that has the end of a   *)
(* watch.                                                                   *)
AllStorable ==
    /\ ~({"merge", "unwatch"} \subseteq occasion)
    /\ \A s \in Sessions : live[s] # 0 => Storable(copy[live[s]])

FamilyTypeOK ==
    /\ stored \subseteq Sessions /\ deleted \subseteq Sessions
    /\ live \in [Sessions -> 0..MaxCopy]
    /\ runner \in [Sessions -> SUBSET Callers]
    /\ watched \subseteq Sessions \X Sessions
    /\ table \subseteq Sessions \X Sessions
    /\ made \in Nat

(* Whatever runs beside it and wherever the server stops, the parent that   *)
(* is stored names no fork that was never stored: the fork is saved first.  *)
KidsStored ==
    \A p \in stored : DOMAIN disk[p].kids \subseteq stored \cup deleted

(* When calls come one at a time and none was cut short, parent and fork    *)
(* name each other on disk, agree on whether the fork is merged, and what   *)
(* is in memory is what is stored, whichever copy merge_session left there, *)
(* as long as no session holds the end of a watch.                          *)
FamilyAgrees ==
    /\ Idle /\ ~Together /\ occasion \cap {"restarted", "failed"} = {}
    /\ AllStorable
    =>
        /\ \A k \in stored :
               LET p == disk[k].parent
               IN  p \in stored =>
                       /\ k \in DOMAIN disk[p].kids
                       /\ disk[k].merged <=> disk[p].kids[k] = "merged"
        /\ \A s \in stored : live[s] # 0 => copy[live[s]].is = disk[s]

(* A merge that the server's stop cuts in two is known to the fork at       *)
(* least: a parent never counts a fork as merged that does not know it.     *)
ForkKnowsMerge ==
    ~Together =>
        \A p \in stored : \A k \in DOMAIN disk[p].kids \cap stored :
            disk[p].kids[k] = "merged" => disk[k].merged

(* What is stored of a parent is never ahead of its forks, wherever saves    *)
(* are cut in two: it names none that was not stored, and counts none as     *)
(* merged that does not know it (ForkManager.fork, merge).                   *)
ParentNeverAhead == KidsStored /\ ForkKnowsMerge

(* A link has two ends once link_sessions has returned, also when sessions  *)
(* are loaded or linked meanwhile, as long as they have one object each and *)
(* can be saved.                                                            *)
LinksPaired ==
    Idle /\ OneObject /\ "restarted" \notin occasion /\ AllStorable =>
        \A s, t \in stored : At(disk[s], "link", t) # {} => At(disk[t], "link", s) # {}

(* What a watcher's turns say, what the service notifies, and the table it  *)
(* is rebuilt from agree when calls came one at a time, however many of     *)
(* them failed to stop a watch.                                             *)
WatchersAgree ==
    Idle /\ ~Together /\ "restarted" \notin occasion =>
        /\ table = watched
        /\ AllStorable =>
               \A s \in stored :
                   Targets(disk[s]) = {t \in Sessions : <<s, t>> \in table}

(* Fork and parent, the two ends of a link, a watch and its record are each  *)
(* written to two places by two saves; once calls are through, the two       *)
(* places say the same.                                                      *)
BothEndsAgree == FamilyAgrees /\ LinksPaired /\ WatchersAgree

(* stop_watching_session "Adds WatchStopBlock, unregisters": what a session *)
(* in memory has stopped watching no longer notifies it.                    *)
StopUnregisters ==
    Idle /\ ~Together =>
        \A s \in stored : live[s] # 0 =>
            \A t \in Sessions :
                <<s, t>> \in watched => t \in Targets(copy[live[s]].is)

(* No save takes a turn of another call away, as long as the two use the    *)
(* same object.                                                             *)
StoredTurnsStay ==
    [][OneObject =>
          \A s \in stored \cap stored' : ToSet(disk[s].turns) \subseteq ToSet(disk'[s].turns)
      ]_familyVars

(* A stream belongs to the runner that poll_all asks, or nobody would ever  *)
(* dispatch its events, unless the runner was replaced beside it.           *)
StreamIsPolled ==
    OneObject /\ "backend" \notin occasion =>
        \A c \in Callers : call[c].at = "stream" => c \in runner[call[c].s]

(* "Cannot change backend while streaming": set_session_backend never takes *)
(* the runner away from a stream.                                           *)
BackendKeepsStream ==
    OneObject =>
        \A c \in Callers : call[c].at = "stream" => c \in runner[call[c].s]

(* "This removes the session from memory and storage": what was deleted is  *)
(* not stored again by a call that was under way.                           *)
DeletedStay == deleted \cap stored = {}
=============================================================================
