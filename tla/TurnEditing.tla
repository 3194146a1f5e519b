----------------------------- MODULE TurnEditing -----------------------------
(***************************************************************************)
(* The turns of one session while clients edit them:                       *)
(* start_archive, complete_archive, rehydrate and the reviews of           *)
(* service/session_manager_service.py, delete_turns and set_context_mode   *)
(* of service/session_data_service.py, core/archiver.py, and the list that *)
(* web/ui/src/hooks/useSessionData.ts keeps from the events of a session.  *)
(*                                                                         *)
(* A client names turns by index.  Archive and rehydrate hold the lock of  *)
(* the session's turns across their save; deleting does not.               *)
(***************************************************************************)
EXTENDS Integers, Sequences, SequencesExt, FiniteSets, Lists

CONSTANTS
    Clients,        \* bound: calls at a time
    MaxSaid,        \* bound: texts ever said
    MaxArchive,     \* bound: archives ever made
    MaxTurn,        \* bound: turns ever made
    Plans           \* each a set of the names below, one per behaviour

Edits == {"say", "think", "delete", "mode", "archive", "complete", "rehydrate",
          "review", "approve"}

(* "manual": the client completes an archive itself.  "alone": calls come   *)
(* one at a time.                                                           *)

ASSUME EditAssumption ==
    /\ MaxSaid \in Nat /\ MaxArchive \in Nat /\ MaxTurn \in Nat
    /\ Plans \subseteq SUBSET (Edits \cup {"manual", "fail", "restart", "alone"})

VARIABLES
    plan,       \* what happens in this behaviour
    turns,      \* session.turns
    kept,       \* the turns on disk
    files,      \* the archive files: the turns in each, and those summarised
    lock,       \* _session_turn_locks: who holds it, or nobody
    edit,       \* where each call stands
    helper,     \* _helper_contexts: the archive or review under way
    view,       \* turnsById of a client: turn id to order
    said,       \* history: number of texts said
    minted,     \* history: number of turn ids made
    dropped     \* history: texts a client deleted

editVars == <<plan, turns, kept, files, lock, edit, helper, view, said, minted,
              dropped>>

(* A turn: its id, its block, and what the block holds: the number of a     *)
(* text, of an archive file, or of what became of a review.                 *)
TurnOf(id, kind, holds) == [id |-> id, kind |-> kind, holds |-> holds, mode |-> "copy"]

NoEdit == [op |-> "none", at |-> "none", lo |-> 0, hi |-> 0, new |-> {}, old |-> {},
           about |-> <<>>]
NoHelper == [kind |-> "none", lo |-> 0, hi |-> 0, about |-> <<>>, at |-> "none"]

Ids(ts) == {ts[i].id : i \in DOMAIN ts}
Where(id) == CHOOSE i \in DOMAIN turns : turns[i].id = id
Blocks(ts) == [i \in DOMAIN ts |-> <<ts[i].kind, ts[i].holds>>]

EditInit ==
    /\ plan \in Plans
    /\ turns = <<TurnOf(1, "text", 1), TurnOf(2, "text", 2), TurnOf(3, "text", 3)>>
    /\ kept = turns
    /\ files = <<>>
    /\ lock = "nobody"
    /\ edit = [c \in Clients |-> NoEdit]
    /\ helper = NoHelper
    /\ view = [id \in 1..3 |-> id - 1]
    /\ said = 3 /\ minted = 3
    /\ dropped = {}

-----------------------------------------------------------------------------
(* save_session writes the order and the turns that are new; a turn that is *)
(* stored already is not written again unless it is marked dirty, which     *)
(* neither set_context_mode nor approve_session_review does.                *)
Written ==
    [i \in DOMAIN turns |->
        IF turns[i].id \in Ids(kept)
        THEN kept[CHOOSE j \in DOMAIN kept : kept[j].id = turns[i].id]
        ELSE turns[i]]

(* turnCreated and turnFinished, turnsDeleted, turnsReordered, as the       *)
(* client applies them.                                                     *)
Created(v, id, order) == [x \in DOMAIN v \cup {id} |-> IF x = id THEN order ELSE v[x]]
Dropped(v, gone) == [x \in DOMAIN v \ gone |-> v[x]]
Reordered(v) ==
    [x \in DOMAIN v |-> IF x \in Ids(turns) THEN Where(x) - 1 ELSE v[x]]

CanBegin(c) ==
    /\ edit[c] = NoEdit
    /\ "alone" \in plan => \A d \in Clients : edit[d] = NoEdit
Does(c, op, at) == edit[c].op = op /\ edit[c].at = at
Begins(c, op, at) == [edit EXCEPT ![c] = [NoEdit EXCEPT !.op = op, !.at = at]]
Ended(c) == [edit EXCEPT ![c] = NoEdit]

(* The texts of a turn: its own, or those of an archive before the n-th.    *)
TextsBelow(held, t, n) ==
    IF t.kind = "text" THEN {t.holds}
    ELSE IF t.kind = "archive" /\ t.holds < n THEN held[t.holds]
    ELSE {}

(* The texts an archive holds, those of the archives in it included.        *)
HeldBy[a \in 0..MaxArchive] ==
    IF a \in DOMAIN files
    THEN UNION {TextsBelow(HeldBy, t, a) : t \in ToSet(files[a].turns)}
    ELSE {}
Texts(ts) == UNION {TextsBelow(HeldBy, t, MaxArchive + 1) : t \in ToSet(ts)}

-----------------------------------------------------------------------------
(* Talking, deleting, setting a context mode                                *)

(* submit_message and the turns of its answer: appended, saved, announced   *)
(* under the index they had when they were appended.                        *)
Say(c) ==
    /\ CanBegin(c) /\ minted < MaxTurn
    /\ \/ /\ "say" \in plan /\ said < MaxSaid
          /\ turns' = Append(turns, TurnOf(minted + 1, "text", said + 1))
          /\ said' = said + 1
       \/ /\ "think" \in plan
          /\ turns' = Append(turns, TurnOf(minted + 1, "thinking", 0))
          /\ UNCHANGED said
    /\ minted' = minted + 1
    /\ edit' = [edit EXCEPT ![c] = [NoEdit EXCEPT !.op = "say", !.at = "save",
                        !.new = {minted + 1}, !.lo = Len(turns),
                        !.hi = IF said' > said THEN said' ELSE 0]]
    /\ UNCHANGED <<plan, kept, files, lock, helper, view, dropped>>

SaySaved(c) ==
    /\ Does(c, "say", "save")
    /\ kept' = Written
    /\ view' = Created(view, CHOOSE id \in edit[c].new : TRUE, edit[c].lo)
    /\ edit' = Ended(c)
    /\ UNCHANGED <<plan, turns, files, lock, helper, said, minted, dropped>>

(* delete_turns: by index, whatever the lock says; the orders of the turns  *)
(* that stay are not announced again.                                       *)
DeleteTurns(c) ==
    /\ CanBegin(c) /\ "delete" \in plan
    /\ \E gone \in SUBSET DOMAIN turns :
           /\ gone # {}
           /\ LET stay == Kept(turns, {turns[i] : i \in DOMAIN turns \ gone})
                  out == {turns[i].id : i \in gone}
              IN  /\ turns' = stay
                  /\ dropped' = dropped \cup (Texts(turns) \ Texts(stay))
                  /\ edit' = [edit EXCEPT ![c] = [NoEdit EXCEPT !.op = "delete",
                                                     !.at = "save", !.old = out]]
    /\ UNCHANGED <<plan, kept, files, lock, helper, view, said, minted>>

DeleteSaved(c) ==
    /\ Does(c, "delete", "save")
    /\ kept' = Written
    /\ view' = Dropped(view, edit[c].old)
    /\ edit' = Ended(c)
    /\ UNCHANGED <<plan, turns, files, lock, helper, said, minted, dropped>>

SetContextMode(c) ==
    /\ CanBegin(c) /\ "mode" \in plan
    /\ \E i \in DOMAIN turns : turns' = [turns EXCEPT ![i].mode = "drop"]
    /\ edit' = Begins(c, "mode", "save")
    /\ UNCHANGED <<plan, kept, files, lock, helper, view, said, minted, dropped>>

(* Calls whose save is the last thing they do.                              *)
OnlySaved(c) ==
    /\ edit[c].op \in {"mode", "review", "approve"} /\ edit[c].at = "save"
    /\ kept' = Written
    /\ edit' = Ended(c)
    /\ UNCHANGED <<plan, turns, files, lock, helper, view, said, minted, dropped>>

-----------------------------------------------------------------------------
(* Archive and rehydrate                                                    *)

(* start_archive: the range is checked now, the summary written from it.    *)
StartArchive ==
    /\ "archive" \in plan /\ helper = NoHelper /\ Len(files) < MaxArchive
    /\ \E lo, hi \in DOMAIN turns :
           /\ lo <= hi
           /\ helper' = [kind |-> "archive", lo |-> lo, hi |-> hi, at |-> "running",
                         about |-> Blocks(SubSeq(turns, lo, hi))]
    /\ UNCHANGED <<plan, turns, kept, files, lock, edit, view, said, minted, dropped>>

(* The helper's "done": completion starts by itself, unless the client said *)
(* it would do it; then the context is gone before it can.                  *)
HelperDone ==
    /\ helper.at = "running"
    /\ helper' = IF "manual" \in plan THEN NoHelper ELSE [helper EXCEPT !.at = "done"]
    /\ UNCHANGED <<plan, turns, kept, files, lock, edit, view, said, minted, dropped>>

HelperFailed ==
    /\ "fail" \in plan /\ helper.at = "running"
    /\ helper' = NoHelper
    /\ UNCHANGED <<plan, turns, kept, files, lock, edit, view, said, minted, dropped>>

(* The event pump completes what is done, a client what is there.           *)
Completes(kind) ==
    helper.kind = kind /\ (helper.at = "done" \/ "complete" \in plan)
Taken == [helper EXCEPT !.at = IF @ = "done" THEN "taken" ELSE @]

(* complete_archive: the context is read, then the lock awaited.            *)
CompleteArchive(c) ==
    /\ CanBegin(c) /\ Completes("archive")
    /\ helper' = Taken
    /\ edit' = [edit EXCEPT ![c] = [NoEdit EXCEPT !.op = "complete", !.at = "lock",
                                       !.lo = helper.lo, !.hi = helper.hi,
                                       !.about = helper.about]]
    /\ UNCHANGED <<plan, turns, kept, files, lock, view, said, minted, dropped>>

(* Mutant of ArchiveTurns: the last turn of the range is not in the file.   *)
ArchiveTurns_LastLost(c) ==
    LET lo == edit[c].lo  hi == edit[c].hi
    IN  /\ Does(c, "complete", "lock") /\ lock = "nobody"
        /\ hi <= Len(turns) /\ Len(files) < MaxArchive /\ minted < MaxTurn
        /\ lock' = c
        /\ files' = Append(files, [turns |-> SubSeq(turns, lo, hi - 1),
                                   about |-> edit[c].about])
        /\ turns' = SubSeq(turns, 1, lo - 1)
                      \o <<TurnOf(minted + 1, "archive", Len(files) + 1)>>
                      \o SubSeq(turns, hi + 1, Len(turns))
        /\ edit' = [edit EXCEPT ![c].at = "save", ![c].new = {minted + 1},
                                ![c].old = Ids(SubSeq(turns, lo, hi))]
        /\ minted' = minted + 1
        /\ UNCHANGED <<plan, kept, helper, view, said, dropped>>

(* prepare_archive, Archiver.archive_turns: the range, as it was given, of  *)
(* the turns there are now.                                                 *)
ArchiveTurns(c) ==
    LET lo == edit[c].lo  hi == edit[c].hi
    IN  /\ Does(c, "complete", "lock") /\ lock = "nobody"
        /\ hi <= Len(turns) /\ Len(files) < MaxArchive /\ minted < MaxTurn
        /\ lock' = c
        /\ files' = Append(files, [turns |-> SubSeq(turns, lo, hi),
                                   about |-> edit[c].about])
        /\ turns' = SubSeq(turns, 1, lo - 1)
                      \o <<TurnOf(minted + 1, "archive", Len(files) + 1)>>
                      \o SubSeq(turns, hi + 1, Len(turns))
        /\ edit' = [edit EXCEPT ![c].at = "save", ![c].new = {minted + 1},
                                ![c].old = Ids(SubSeq(turns, lo, hi))]
        /\ minted' = minted + 1
        /\ UNCHANGED <<plan, kept, helper, view, said, dropped>>

ArchiveRefused(c) ==
    /\ Does(c, "complete", "lock") /\ lock = "nobody"
    /\ edit[c].hi > Len(turns)
    /\ edit' = Ended(c)
    /\ UNCHANGED <<plan, turns, kept, files, lock, helper, view, said, minted, dropped>>

(* Saved, announced, and the context dropped, all under the lock.           *)
ArchiveSaved(c) ==
    /\ Does(c, "complete", "save")
    /\ kept' = Written
    /\ view' = Reordered(Created(Dropped(view, edit[c].old),
                                 CHOOSE id \in edit[c].new : TRUE, edit[c].lo - 1))
    /\ helper' = IF helper.kind = "archive" /\ helper.about = edit[c].about
                 THEN NoHelper ELSE helper
    /\ lock' = "nobody"
    /\ edit' = Ended(c)
    /\ UNCHANGED <<plan, turns, files, said, minted, dropped>>

(* rehydrate: what _serialize_content_block has no case for comes back as   *)
(* an unknown block, and every turn comes back under a new id.              *)
Restored(a) ==
    [i \in DOMAIN files[a].turns |->
        LET t == files[a].turns[i]
        IN  TurnOf(minted + i, IF t.kind \in {"thinking", "review"} THEN "unknown" ELSE t.kind,
                   t.holds)]

AskRehydrate(c) ==
    /\ CanBegin(c) /\ "rehydrate" \in plan
    /\ \E i \in DOMAIN turns :
           /\ turns[i].kind = "archive"
           /\ edit' = [edit EXCEPT ![c] = [NoEdit EXCEPT !.op = "rehydrate",
                                                         !.at = "lock", !.lo = i]]
    /\ UNCHANGED <<plan, turns, kept, files, lock, helper, view, said, minted, dropped>>

(* Mutant of Rehydrate: the archive's turn is off the disk before the turns *)
(* that take its place are on it.                                           *)
Rehydrate_DropsFirst(c) ==
    LET i == edit[c].lo  back == Restored(turns[i].holds)
    IN  /\ Does(c, "rehydrate", "lock") /\ lock = "nobody"
        /\ i \in DOMAIN turns /\ turns[i].kind = "archive"
        /\ minted + Len(back) <= MaxTurn
        /\ lock' = c
        /\ turns' = SubSeq(turns, 1, i - 1) \o back \o SubSeq(turns, i + 1, Len(turns))
        /\ kept' = SelectSeq(kept, LAMBDA t : t.id # turns[i].id)
        /\ edit' = [edit EXCEPT ![c].at = "save", ![c].old = {turns[i].id},
                                ![c].new = Ids(back)]
        /\ minted' = minted + Len(back)
        /\ UNCHANGED <<plan, files, helper, view, said, dropped>>

Rehydrate(c) ==
    LET i == edit[c].lo  back == Restored(turns[i].holds)
    IN  /\ Does(c, "rehydrate", "lock") /\ lock = "nobody"
        /\ i \in DOMAIN turns /\ turns[i].kind = "archive"
        /\ minted + Len(back) <= MaxTurn
        /\ lock' = c
        /\ turns' = SubSeq(turns, 1, i - 1) \o back \o SubSeq(turns, i + 1, Len(turns))
        /\ edit' = [edit EXCEPT ![c].at = "save", ![c].old = {turns[i].id},
                                ![c].new = Ids(back)]
        /\ minted' = minted + Len(back)
        /\ UNCHANGED <<plan, kept, files, helper, view, said, dropped>>

RehydrateRefused(c) ==
    /\ Does(c, "rehydrate", "lock") /\ lock = "nobody"
    /\ edit[c].lo \in DOMAIN turns => turns[edit[c].lo].kind # "archive"
    /\ edit' = Ended(c)
    /\ UNCHANGED <<plan, turns, kept, files, lock, helper, view, said, minted, dropped>>

RehydrateSaved(c) ==
    LET e == edit[c]  first == CHOOSE n \in e.new : \A m \in e.new : n <= m
        added == [x \in DOMAIN view \cup e.new |->
                    IF x \in e.new THEN e.lo - 1 + x - first ELSE view[x]]
    IN  /\ Does(c, "rehydrate", "save")
        /\ kept' = Written
        /\ view' = Reordered(Dropped(added, e.old))
        /\ lock' = "nobody"
        /\ edit' = Ended(c)
        /\ UNCHANGED <<plan, turns, files, helper, said, minted, dropped>>

-----------------------------------------------------------------------------
(* Reviews                                                                  *)

(* start_session_review                                                     *)
StartReview ==
    /\ "review" \in plan /\ helper = NoHelper /\ turns # <<>>
    /\ helper' = [NoHelper EXCEPT !.kind = "review", !.at = "running"]
    /\ UNCHANGED <<plan, turns, kept, files, lock, edit, view, said, minted, dropped>>

(* complete_session_review: its turn is not announced as a turn.            *)
CompleteReview(c) ==
    /\ CanBegin(c) /\ Completes("review") /\ minted < MaxTurn
    /\ turns' = Append(turns, TurnOf(minted + 1, "review", 0))
    /\ minted' = minted + 1
    /\ helper' = NoHelper
    /\ edit' = Begins(c, "review", "save")
    /\ UNCHANGED <<plan, kept, files, lock, view, said, dropped>>

(* approve_session_review                                                   *)
ApproveReview(c) ==
    /\ CanBegin(c) /\ "approve" \in plan
    /\ \E i \in DOMAIN turns : /\ turns[i].kind = "review" /\ turns[i].holds = 0
                               /\ turns' = [turns EXCEPT ![i].holds = 1]
    /\ edit' = Begins(c, "approve", "save")
    /\ UNCHANGED <<plan, kept, files, lock, helper, view, said, minted, dropped>>

-----------------------------------------------------------------------------
(* Texts that are said but not saved yet.                                   *)
Unsaved == {edit[c].hi : c \in {c \in Clients : Does(c, "say", "save")}} \ {0}

(* The server stops and starts; the client subscribes anew.                 *)
EditRestart ==
    /\ "restart" \in plan
    /\ plan' = plan \ {"restart"}
    /\ turns' = kept
    /\ lock' = "nobody"
    /\ edit' = [c \in Clients |-> NoEdit]
    /\ helper' = NoHelper
    /\ view' = [x \in Ids(kept) |-> (CHOOSE i \in DOMAIN kept : kept[i].id = x) - 1]
    /\ dropped' = dropped \cup Unsaved
    /\ UNCHANGED <<kept, files, said, minted>>

EditStep(c) ==
    \/ Say(c) \/ SaySaved(c) \/ DeleteTurns(c) \/ DeleteSaved(c)
    \/ SetContextMode(c) \/ OnlySaved(c)
    \/ CompleteArchive(c) \/ ArchiveTurns(c) \/ ArchiveRefused(c) \/ ArchiveSaved(c)
    \/ AskRehydrate(c) \/ Rehydrate(c) \/ RehydrateRefused(c) \/ RehydrateSaved(c)
    \/ CompleteReview(c) \/ ApproveReview(c)

EditNext ==
    \/ \E c \in Clients : EditStep(c)
    \/ StartArchive \/ HelperDone \/ HelperFailed \/ StartReview \/ EditRestart

EditSpec == EditInit /\ [][EditNext]_editVars
-----------------------------------------------------------------------------
(* Properties                                                               *)

EditTypeOK ==
    /\ lock \in Clients \cup {"nobody"}
    /\ Ids(turns) \subseteq 1..minted /\ Ids(kept) \subseteq 1..minted
    /\ DOMAIN view \subseteq 1..minted
    /\ dropped \subseteq 1..said

(* However archives, rehydrations, deletions and talk overlap, and though   *)
(* an archive may take other turns than those it was asked for: every text  *)
(* that no client deleted is held by one turn, itself or in the archives    *)
(* below it, and by one only.                                               *)
TextsKept ==
    /\ 1..said \subseteq Texts(turns) \cup dropped
    /\ \A i, j \in DOMAIN turns :
           i # j => Texts(<<turns[i]>>) \cap Texts(<<turns[j]>>) = {}

(* And so it is on disk at every moment, whatever the archive files there   *)
(* hold: the server may stop between the file and the save.                 *)
TextsStored == 1..said \subseteq Texts(kept) \cup dropped \cup Unsaved

(* No edit loses or doubles what was said, in memory or on disk.             *)
TextsSafe == TextsKept /\ TextsStored

(* The client, which sorts its turns by the order they were announced with, *)
(* shows them as they are in the session, after archives and rehydrations   *)
(* as well, unless a turn was deleted.                                      *)
ShowsInOrder ==
    \A x, y \in DOMAIN view \cap Ids(turns) : view[x] < view[y] => Where(x) < Where(y)
ViewOrdered ==
    /\ "alone" \in plan /\ "delete" \notin plan
    /\ \A c \in Clients : edit[c] = NoEdit
    => /\ ShowsInOrder
       /\ DOMAIN view = {turns[i].id : i \in {i \in DOMAIN turns : turns[i].kind # "review"}}

(* "Turn position for client-side sorting": the order a client has of a     *)
(* turn puts it where it is in the session once no call is under way.       *)
OrderIsPosition ==
    "alone" \in plan /\ (\A c \in Clients : edit[c] = NoEdit) => ShowsInOrder

(* "to prevent race conditions where multiple operations compute results    *)
(* based on stale session state": an archive holds the turns whose summary  *)
(* stands in their place.                                                   *)
ArchivesWhatWasSummarised ==
    \A a \in DOMAIN files : Blocks(files[a].turns) = files[a].about

(* "New turn list with archive replaced by original turns".                 *)
RehydrateRestores ==
    \A i \in DOMAIN turns : turns[i].kind # "unknown"
=============================================================================
