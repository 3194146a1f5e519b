------------------------------ MODULE Documents ------------------------------
(* The calendar and the charts domains (plugins/calendar, plugins/charts):   *)
(* documents, calendars of events or charts of rows, kept in memory and in   *)
(* one file each.  A document can be deleted, which removes its file at once, *)
(* while another call is still about to write it.  Calendars that follow a   *)
(* feed are filled by fetching it (calendar/sync/ical.py), for which the     *)
(* server stands still: urlopen is not awaited.                              *)
(*                                                                           *)
(* An event is the pair of its start and end, a row that of its x and y;     *)
(* names, colors, styles and the text of feeds are left out.                 *)
(***************************************************************************)
EXTENDS Integers, Sequences, SequencesExt, FiniteSets, Lists

CONSTANTS
    Callers,        \* sessions, each with one call at a time
    Shelves,        \* which domains: subsets of {"calendars", "charts"}
    Hours,          \* times of events, coordinates of rows: 1..Hours
    MaxDocuments,   \* bound: documents made
    MaxEntries,     \* bound: entries made
    DocumentWays    \* what happens in a behaviour: sets of "edit", "feed", "early"
                    \* (calls overlap before the files are loaded), "overlap" (they
                    \* do afterwards), "crash"

VARIABLES
    shelf,          \* which domain this behaviour is about
    docWay,         \* which of DocumentWays it is
    docs,           \* _calendars, _global_charts
    docsLoaded,     \* _calendars_loaded, _charts_loaded
    docFiles,       \* the files
    docCalls,       \* the call of each caller
    story           \* ghost: what was made, told, deleted and fetched

docVars == <<shelf, docWay, docs, docsLoaded, docFiles, docCalls, story>>

ASSUME DocumentAssumption ==
    Hours \in Nat \ {0, 1} /\ MaxDocuments \in Nat /\ MaxEntries \in Nat

-----------------------------------------------------------------------------
(* Documents and their entries                                               *)

Pairs == (1..Hours) \X (1..Hours)
Proper == {p \in Pairs : p[1] < p[2]}

(* "state" is sync_status.state; a chart keeps the one it is made with.      *)
Document(kind) == [kind |-> kind, state |-> "idle", entries |-> <<>>]
Leaving(f, S) == [x \in (DOMAIN f) \ S |-> f[x]]

(* What a fetched feed has, all-day events of no length included; one that   *)
(* cannot be fetched, or has a time that cannot be read, is an error.        *)
Feeds == {[ok |-> TRUE, events |-> s] : s \in {<<>>} \cup {<<p>> : p \in Pairs}}
         \cup {[ok |-> FALSE, events |-> <<>>]}
Numbered(s, n) == [i \in {n + k : k \in DOMAIN s} |-> s[i - n]]

(* A file between its opening and its writing.                               *)
Opening == [whole |-> FALSE, doc |-> Document("local")]
Whole(d) == [whole |-> TRUE, doc |-> d]
Caller(at, op, left, key, doc, told) ==
    [at |-> at, op |-> op, left |-> left, key |-> key, doc |-> doc, lost |-> FALSE, told |-> told]
Free == Caller("free", "", {}, 0, Document("local"), {})

DocInit ==
    /\ shelf \in Shelves /\ docWay \in DocumentWays
    /\ docs = <<>> /\ docsLoaded = FALSE
    /\ docFiles = <<Whole([Document(IF shelf = "charts" THEN "chart" ELSE "local")
                           EXCEPT !.entries = <<(CHOOSE p \in Proper : TRUE)>>])>>
    /\ docCalls = [c \in Callers |-> Free]
    /\ story = [made |-> 1, entries |-> 1, home |-> <<1>>, told |-> {1}, gone |-> {},
                deleted |-> {}, fetched |-> <<>>]

-----------------------------------------------------------------------------
(* What the tools do to the memory ds: the outcomes of each.  "key" is the   *)
(* document that is worked on, "save" says whether it is written; "drop" has *)
(* the one whose file is removed, "gone" the entries that the answer says    *)
(* are deleted.                                                              *)

Result(ds, d, save, drop, made, gone, fetched) ==
    [docs |-> ds, key |-> d, save |-> save, drop |-> drop, made |-> made, gone |-> gone,
     fetched |-> fetched]
Nothing(ds) == Result(ds, 0, FALSE, {}, 0, {}, <<>>)
Changing(ds, d, doc, made) == Result(Entered(ds, d, doc), d, FALSE, {}, made, {}, <<>>)
Saving(ds, d, doc, made, gone) == Result(Entered(ds, d, doc), d, TRUE, {}, made, gone, <<>>)

Listed(doc, entries) == [kind |-> doc.kind, state |-> doc.state, entries |-> entries]

(* calendar_create, chart_create                                             *)
Create(ds, kind) ==
    IF story.made = MaxDocuments THEN {}
    ELSE {Saving(ds, story.made + 1, Document(kind), 0, {})}

(* Mutant of Discard: the document is forgotten and its file is left.        *)
Discard_FileStays(ds) ==
    {Result(Leaving(ds, {d}), d, FALSE, {}, 0, DOMAIN ds[d].entries, <<>>) : d \in DOMAIN ds}

(* calendar_delete, chart_delete                                             *)
Discard(ds) ==
    {Result(Leaving(ds, {d}), d, FALSE, {d}, 0, DOMAIN ds[d].entries, <<>>) : d \in DOMAIN ds}

(* The calendar with what the feed has instead of its events.                *)
Filled(doc, feed) ==
    IF feed.ok THEN [kind |-> doc.kind, state |-> "synced", entries |-> Numbered(feed.events, story.entries)]
    ELSE [kind |-> doc.kind, state |-> "error", entries |-> doc.entries]

(* Mutant of Fetched: the events are dropped before the feed is fetched.     *)
Fetched_Early(ds, d, doc, feed) ==
    Result(Entered(ds, d, Filled(Listed(doc, <<>>), feed)), d, TRUE, {}, Len(feed.events),
        DOMAIN doc.entries,
        IF feed.ok \/ d \notin DOMAIN story.fetched THEN Entered(<<>>, d, feed.events) ELSE <<>>)

Fetched(ds, d, doc, feed) ==
    Result(Entered(ds, d, Filled(doc, feed)), d, TRUE, {}, Len(feed.events), DOMAIN doc.entries,
        IF feed.ok \/ d \notin DOMAIN story.fetched THEN Entered(<<>>, d, feed.events) ELSE <<>>)

FeedsWithin == {f \in Feeds : story.entries + Len(f.events) <= MaxEntries}

(* calendar_connect_ical: a feed that fails makes a calendar all the same.   *)
Connect(ds) ==
    IF story.made = MaxDocuments THEN {}
    ELSE {Fetched(ds, story.made + 1, Document("feed"), f) : f \in FeedsWithin}

(* calendar_sync                                                             *)
Sync(ds) ==
    {Fetched(ds, d, ds[d], f) : d \in {x \in DOMAIN ds : ds[x].kind = "feed"}, f \in FeedsWithin}

(* calendar_create_event; times that are refused change nothing.             *)
EventCreate(ds) ==
    IF story.entries = MaxEntries THEN {}
    ELSE {Saving(ds, d, Listed(ds[d], Entered(ds[d].entries, story.entries + 1, p)), 1, {}) :
          d \in {x \in DOMAIN ds : ds[x].kind = "local"}, p \in Proper}

Entries(ds, kinds) ==
    UNION {{<<d, e>> : e \in DOMAIN ds[d].entries} : d \in {d \in DOMAIN ds : ds[d].kind \in kinds}}

(* calendar_update_event: the times are entered before they are compared.    *)
EventUpdate(ds) ==
    {LET doc == Listed(ds[q[1]], Entered(ds[q[1]].entries, q[2], p))
     IN  IF p \in Proper THEN Saving(ds, q[1], doc, 0, {}) ELSE Changing(ds, q[1], doc, 0) :
     q \in Entries(ds, {"local"}), p \in Pairs}

(* calendar_delete_event                                                     *)
EventDelete(ds) ==
    {Saving(ds, q[1], Listed(ds[q[1]], Leaving(ds[q[1]].entries, {q[2]})), 0, {q[2]}) :
     q \in Entries(ds, {"local"})}

(* chart_add_data: a row after it whose y is no number is an error, and what *)
(* was added stays, unsaved.                                                 *)
RowAdd(ds) ==
    IF story.entries = MaxEntries THEN {}
    ELSE UNION {LET doc == Listed(ds[d], Entered(ds[d].entries, story.entries + 1, p))
                IN  {Saving(ds, d, doc, 1, {}), Changing(ds, d, doc, 1)} :
                d \in DOMAIN ds, p \in Pairs}

(* Rows that meet the criteria: x below a bound and y above another.         *)
Meets(p, q) == p[1] < q[1] /\ p[2] > q[2]
Criteria == (1..(Hours + 1)) \X (0..Hours)

(* Mutant of RowRemove: the rows that meet any of the criteria are removed.  *)
RowRemove_Any(ds) ==
    {LET entries == ds[d].entries
         out == {e \in DOMAIN entries : entries[e][1] < q[1] \/ entries[e][2] > q[2]}
     IN  Saving(ds, d, Listed(ds[d], Leaving(entries, out)), 0, {e \in out : Meets(entries[e], q)}) :
     d \in DOMAIN ds, q \in Criteria}

(* chart_remove_data: the rows that meet every criterion.                    *)
RowRemove(ds) ==
    {LET entries == ds[d].entries
         out == {e \in DOMAIN entries : Meets(entries[e], q)}
     IN  Saving(ds, d, Listed(ds[d], Leaving(entries, out)), 0, out) :
     d \in DOMAIN ds, q \in Criteria}

(* chart_set_style: what it changes is left out, but not that it is saved.   *)
Restyle(ds) == {Saving(ds, d, ds[d], 0, {}) : d \in DOMAIN ds}

OpsOf ==
    {"list", "create", "discard"}
    \cup (IF shelf = "charts" THEN {"add", "remove", "style"} ELSE {"event", "unevent"})
    \cup (IF shelf = "calendars" /\ "edit" \in docWay THEN {"update"} ELSE {})
    \cup (IF shelf = "calendars" /\ "feed" \in docWay THEN {"connect", "sync"} ELSE {})

OutcomesOf(op, ds) ==
    LET of == CASE op = "create" -> Create(ds, IF shelf = "charts" THEN "chart" ELSE "local")
                [] op = "discard" -> Discard(ds)
                [] op = "connect" -> Connect(ds)
                [] op = "sync" -> Sync(ds)
                [] op = "event" -> EventCreate(ds)
                [] op = "update" -> EventUpdate(ds)
                [] op = "unevent" -> EventDelete(ds)
                [] op = "add" -> RowAdd(ds)
                [] op = "remove" -> RowRemove(ds)
                [] op = "style" -> Restyle(ds)
                [] OTHER -> {}
    IN  IF of = {} THEN {Nothing(ds)} ELSE of

-----------------------------------------------------------------------------
(* Calls                                                                     *)

(* What the call does once everything is loaded, the memory being ds.  A     *)
(* file that is removed while a call has it open is lost to that call.       *)
Carry(c, op, ds) ==
    \E o \in OutcomesOf(op, ds) :
        LET new == {story.entries + i : i \in 1..o.made}
        IN  /\ docs' = o.docs /\ docsLoaded' = TRUE
            /\ docFiles' = Leaving(docFiles, o.drop)
            /\ docCalls' = [x \in Callers |->
                   IF x = c
                   THEN IF o.save THEN Caller("open", op, {}, o.key, o.docs[o.key], new) ELSE Free
                   ELSE IF docCalls[x].at = "put" /\ docCalls[x].key \in o.drop
                        THEN [docCalls[x] EXCEPT !.lost = TRUE] ELSE docCalls[x]]
            /\ story' = [story EXCEPT
                   !.made = @ + Cardinality(DOMAIN o.docs \ DOMAIN ds),
                   !.entries = @ + o.made,
                   !.home = [e \in 1..(story.entries + o.made) |->
                                IF e <= story.entries THEN @[e] ELSE o.key],
                   !.gone = @ \cup o.gone,
                   !.deleted = @ \cup ((DOMAIN ds) \ DOMAIN o.docs),
                   !.fetched = Backed(o.fetched, @)]
            /\ UNCHANGED <<shelf, docWay>>

InTurn(c) == \A x \in Callers \ {c} : docCalls[x].at = "free"

CallDocuments(c, op) ==
    /\ docCalls[c].at = "free"
    /\ InTurn(c) \/ ("overlap" \in docWay /\ docsLoaded) \/ "early" \in docWay
    /\ IF docsLoaded \/ docFiles = <<>> THEN Carry(c, op, docs)
       ELSE /\ docCalls' = [docCalls EXCEPT ![c] =
                   Caller("load", op, DOMAIN docFiles, 0, Document("local"), {})]
            /\ UNCHANGED <<shelf, docWay, docs, docsLoaded, docFiles, story>>

(* _load_all_calendars, _load_all_charts: the next file of those listed when *)
(* the call began; one that is gone or cannot be read is passed over.        *)
LoadDocument(c) ==
    /\ docCalls[c].at = "load"
    /\ \E d \in docCalls[c].left :
           LET there == d \in DOMAIN docFiles /\ docFiles[d].whole
               ds == IF there THEN Entered(docs, d, docFiles[d].doc) ELSE docs
               left == docCalls[c].left \ {d}
           IN  IF left = {} THEN Carry(c, docCalls[c].op, ds)
               ELSE /\ docs' = ds
                    /\ docCalls' = [docCalls EXCEPT ![c].left = left]
                    /\ UNCHANGED <<shelf, docWay, docsLoaded, docFiles, story>>

(* JsonFileStorage.save: the file is opened, and made where there is none.   *)
OpenFile(c) ==
    /\ docCalls[c].at = "open"
    /\ docFiles' = Entered(docFiles, docCalls[c].key, Opening)
    /\ docCalls' = [docCalls EXCEPT ![c].at = "put"]
    /\ UNCHANGED <<shelf, docWay, docs, docsLoaded, story>>

(* It is written; over what another call has written, perhaps in vain.       *)
PutFile(c) ==
    LET d == docCalls[c].key
    IN  /\ docCalls[c].at = "put"
        /\ IF docCalls[c].lost THEN UNCHANGED docFiles
           ELSE \E file \in {Whole(docCalls[c].doc)}
                            \cup (IF docFiles[d].whole THEN {Opening} ELSE {}) :
                   docFiles' = [docFiles EXCEPT ![d] = file]
        /\ docCalls' = [docCalls EXCEPT ![c] = Free]
        /\ story' = [story EXCEPT !.told = @ \cup docCalls[c].told]
        /\ UNCHANGED <<shelf, docWay, docs, docsLoaded>>

(* The server stops and starts, between calls unless it crashes.             *)
RestartDocuments ==
    /\ docsLoaded \/ \E c \in Callers : docCalls[c].at # "free"
    /\ "crash" \in docWay \/ \A c \in Callers : docCalls[c].at = "free"
    /\ docs' = <<>> /\ docsLoaded' = FALSE
    /\ docCalls' = [c \in Callers |-> Free]
    /\ UNCHANGED <<shelf, docWay, docFiles, story>>

DocNext ==
    \/ \E c \in Callers :
          \/ \E op \in OpsOf : CallDocuments(c, op)
          \/ LoadDocument(c) \/ OpenFile(c) \/ PutFile(c)
    \/ RestartDocuments

DocSpec == DocInit /\ [][DocNext]_docVars

-----------------------------------------------------------------------------
(* Properties                                                                *)

OneByOne == docWay \cap {"early", "overlap"} = {}
AtRest == \A c \in Callers : docCalls[c].at = "free"
Stored == {d \in DOMAIN docFiles : docFiles[d].whole}

DocTypeOK ==
    /\ DOMAIN docs \cup DOMAIN docFiles \subseteq 1..MaxDocuments
    /\ \A d \in DOMAIN docs : docs[d].kind \in {"local", "feed", "chart"}
    /\ \A c \in Callers :
           docCalls[c].at = "put" /\ ~docCalls[c].lost => docCalls[c].key \in DOMAIN docFiles
    /\ story.told \cup story.gone \subseteq DOMAIN story.home

(* While calls do not overlap, a document that was deleted is gone for good: *)
(* no write that comes late brings its file back, no restart the document.   *)
DeletedForGood == OneByOne => story.deleted \cap (DOMAIN docs \cup DOMAIN docFiles) = {}

(* A file that comes back is known to be possible when calls overlap: a call *)
(* that is about to write has not been told (refuted).                       *)
DeletedStayDeleted == AtRest => story.deleted \cap DOMAIN docFiles = {}

(* While calls do not overlap, an entry that was told of is stored until it  *)
(* is deleted; a crash that cuts a write short takes all of its document.    *)
ToldIsStored ==
    OneByOne => \A e \in story.told \ story.gone :
        LET d == story.home[e]
        IN  d \in Stored \cup story.deleted =>
                d \in story.deleted \/ ~AtRest \/ e \in DOMAIN docFiles[d].doc.entries

(* A calendar that follows a feed shows what the feed had when it was last   *)
(* fetched with success: errors in between take nothing, no tool adds, and a *)
(* restart between calls brings the same back.                               *)
FeedAsFetched ==
    OneByOne /\ "crash" \notin docWay => \A d \in DOMAIN docs : docs[d].kind = "feed" =>
        LET shown == docs[d].entries
        IN  /\ Cardinality(DOMAIN shown) = Len(story.fetched[d])
            /\ {shown[e] : e \in DOMAIN shown} = ToSet(story.fetched[d])

(* What was deleted stays away, and what the user was told of, or a feed     *)
(* had, is there.                                                            *)
DocumentsKept == DeletedForGood /\ ToldIsStored /\ FeedAsFetched

(* "End time must be after start time" (calendar/domain.py:635): so it is    *)
(* for every event that was not fetched (refuted: what is refused stays).    *)
EndsAfterStart ==
    \A d \in DOMAIN docs : docs[d].kind = "local" =>
        \A e \in DOMAIN docs[d].entries : docs[d].entries[e] \in Proper
=============================================================================
