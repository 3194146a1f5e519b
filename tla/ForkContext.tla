----------------------------- MODULE ForkContext -----------------------------
(***************************************************************************)
(* What a fork takes over from its parent: respond_to_fork_proposal and    *)
(* fork_session of service/session_manager_service.py, core/fork.py and    *)
(* core/context_grouper.py, with the ways turns get into the parent.       *)
(*                                                                         *)
(* The model proposes, in a tool call, which exchanges of the session a    *)
(* fork copies, compresses or drops; the user accepts, perhaps with        *)
(* another plan, and perhaps later.  Compressing awaits a helper.          *)
(***************************************************************************)
EXTENDS Integers, Sequences, SequencesExt, FiniteSets, Lists

CONSTANTS
    MaxParent,      \* bound: turns of the parent
    MaxIds,         \* bound: ids of turns and exchanges
    MaxForks,       \* bound: forks
    Ranges,         \* the ranges of exchanges that plans name
    PlanLength,     \* bound: assignments in a plan
    Sayings         \* each a set of the ways below, one per behaviour

(* submit_message and request_proposal; submit_markdown_message;            *)
(* submit_message_with_images; a link made beside the exchanges; deleting;  *)
(* more than one fork.                                                      *)
Ways == {"text", "markdown", "images", "link", "delete", "again"}

RangeNames == {"all", "last", "last-1", "-2", "0-1", "0"}

ASSUME ForkContextAssumption ==
    /\ Ranges \subseteq RangeNames
    /\ MaxParent \in Nat /\ MaxIds \in Nat /\ MaxForks \in Nat /\ PlanLength \in Nat
    /\ Sayings \subseteq SUBSET Ways

VARIABLES
    ways,       \* how turns come about in this behaviour
    parent,     \* the parent's turns
    lastId,     \* ids given so far
    under,      \* the exchange whose stream is under way: its runner's id, 0 for none
    announced,  \* turns announced to clients: id and index
    compressing,\* forks whose helper is at work
    children,   \* forks that are complete
    marks       \* what the proposals' turns say: proposal and fork

forkVars == <<ways, parent, lastId, under, announced, compressing, children, marks>>

TurnWith(id, ex, kind) == [id |-> id, ex |-> ex, kind |-> kind]
NoExchange == 0
ForkInit ==
    /\ ways \in Sayings
    /\ parent = <<>> /\ lastId = 0 /\ under = 0 /\ announced = {}
    /\ compressing = {} /\ children = {} /\ marks = {}

-----------------------------------------------------------------------------
(* The parent                                                               *)

(* add_message makes a turn of every block and returns the last one, whose  *)
(* id is announced with the index of the first.                             *)
Prompt(kind, extra) ==
    /\ under = 0 /\ Len(parent) + extra < MaxParent /\ lastId < MaxIds
    /\ parent' = parent \o [i \in 1..(1 + extra) |->
                    TurnWith(lastId + i, lastId + 1, IF i = 1 THEN kind ELSE "image")]
    /\ announced' = announced \cup {[id |-> lastId + 1 + extra, at |-> Len(parent) + 1]}
    /\ lastId' = lastId + 2 + extra
    /\ under' = lastId + 2 + extra
    /\ UNCHANGED <<ways, compressing, children, marks>>

SubmitText == "text" \in ways /\ Prompt("text", 0)
SubmitMarkdown == "markdown" \in ways /\ Prompt("markdown", 0)
SubmitImages == "images" \in ways /\ Prompt("text", 1)

(* The runner's turns bear the id the runner made up.                       *)
RunnerAdds(kind) ==
    /\ under # 0 /\ Len(parent) < MaxParent /\ lastId < MaxIds
    /\ parent' = Append(parent, TurnWith(lastId + 1, under, kind))
    /\ announced' = announced \cup {[id |-> lastId + 1, at |-> Len(parent) + 1]}
    /\ lastId' = lastId + 1
    /\ UNCHANGED <<ways, under, compressing, children, marks>>

EndExchange ==
    /\ under # 0
    /\ under' = 0
    /\ UNCHANGED <<ways, parent, lastId, announced, compressing, children, marks>>

(* link_sessions: a turn of no exchange.                                    *)
AddLink ==
    /\ "link" \in ways /\ Len(parent) < MaxParent /\ lastId < MaxIds
    /\ parent' = Append(parent, TurnWith(lastId + 1, NoExchange, "link"))
    /\ announced' = announced \cup {[id |-> lastId + 1, at |-> Len(parent) + 1]}
    /\ lastId' = lastId + 1
    /\ UNCHANGED <<ways, under, compressing, children, marks>>

DropTurn(i) ==
    /\ "delete" \in ways
    /\ parent' = RemoveAt(parent, i)
    /\ marks' = {m \in marks : m.proposal # parent[i].id}
    /\ UNCHANGED <<ways, lastId, under, announced, compressing, children>>

-----------------------------------------------------------------------------
(* Exchanges and plans                                                      *)

(* _get_turns_grouped_by_exchange: the indices of the turns of each         *)
(* exchange, by first index; a turn of no exchange is one of its own.       *)
GroupOf(i) ==
    {j \in DOMAIN parent : j = i \/ (parent[i].ex # NoExchange /\ parent[j].ex = parent[i].ex)}
Starts == {i \in DOMAIN parent : \A j \in GroupOf(i) : i <= j}
Groups == Cardinality(Starts)

Exchange(i) == Cardinality({s \in Starts : \A j \in GroupOf(i) : s <= j}) - 1

(* _parse_range of each range among n exchanges.                            *)
Upto(a, b) == {k \in 0..10 : a <= k /\ k < b}
AtLeast0(n) == IF n < 0 THEN 0 ELSE n
InRange(range, n) ==
    CASE range = "all" -> Upto(0, n)
      [] range = "last" -> Upto(AtLeast0(n - 1), n)
      [] range = "last-1" -> Upto(AtLeast0(n - 2), n)
      [] range = "-2" -> Upto(AtLeast0(n - 2), n)
      [] range = "0-1" -> Upto(0, n) \cap {0, 1}
      [] range = "0" -> Upto(0, n) \cap {0}

Modes == {"copy", "compress", "drop"}
Plans == UNION {[1..n -> [range : Ranges, mode : Modes]] : n \in 1..PlanLength}

(* resolve_exchange_indices, with the current exchange left out: the last   *)
(* assignment that names an exchange counts.                                *)
Named(plan, g, n) == {k \in DOMAIN plan : g \in InRange(plan[k].range, n)}
Resolved(plan, ks) == plan[CHOOSE k \in ks : \A m \in ks : m <= k].mode

(* What respond_to_fork_proposal makes of a plan for each turn: an exchange *)
(* it does not name is compressed, the last one has no mode, and            *)
(* fork_session copies what has no mode.                                    *)
ModesOf(plan) ==
    LET n == Groups - 1
        modes == [g \in 0..n |->
                    LET ks == Named(plan, g, n)
                    IN  IF ks # {} THEN Resolved(plan, ks)
                        ELSE IF g = n THEN "copy" ELSE "compress"]
    IN  [i \in DOMAIN parent |-> modes[Exchange(i)]]

InMode(modes, mode) == {i \in DOMAIN parent : modes[i] = mode}

(* Mutant of FirstRun: all turns to compress, whatever lies between.        *)
FirstRun_All(modes) == InMode(modes, "compress")

(* Mutant of FirstRun: dropped turns between those to compress as well.     *)
FirstRun_WithDropped(modes) ==
    LET all == {i \in DOMAIN parent : modes[i] # "copy"}
    IN  {i \in all : \A c \in InMode(modes, "copy") : c < i => \A j \in all : c < j}

(* group_messages_by_context_mode: the first run of turns to compress that  *)
(* no copied turn interrupts.                                               *)
FirstRun(modes) ==
    LET all == InMode(modes, "compress")
    IN  {i \in all : \A c \in InMode(modes, "copy") : c < i => \A j \in all : c < j}

(* The copies in order, and the summary of some turns where they were.      *)
Item(kind, of) == [kind |-> kind, of |-> of]
Content(modes) ==
    LET run == FirstRun(modes)
        IsFirst(i) == i \in run /\ \A j \in run : i <= j
        order == Kept([i \in DOMAIN parent |-> i],
                      {i \in DOMAIN parent : modes[i] = "copy" \/ IsFirst(i)})
    IN  [k \in DOMAIN order |->
            IF IsFirst(order[k]) THEN Item("summary", {parent[i].id : i \in run})
            ELSE Item("copy", {parent[order[k]].id})]

Forks == Cardinality(compressing) + Cardinality(children)

(* A fork, with what was asked for when it was accepted.                    *)
Accepted(p, modes) ==
    [no |-> Forks + 1, proposal |-> p,
     order |-> [i \in DOMAIN parent |-> parent[i].id],
     dropped |-> {parent[i].id : i \in InMode(modes, "drop")},
     compressed |-> {parent[i].id : i \in InMode(modes, "compress")},
     has |-> Content(modes)]

Mark(p, no) ==
    IF \E i \in DOMAIN parent : parent[i].id = p
    THEN {m \in marks : m.proposal # p} \cup {[proposal |-> p, fork |-> no]}
    ELSE marks

(* respond_to_fork_proposal, accepted: nothing remembers that a proposal    *)
(* was answered before, or looks whether it is still there.                 *)
Accept(p, modes) ==
    /\ LET fork == Accepted(p, modes)
       IN  /\ IF fork.compressed = {}
              THEN children' = children \cup {fork} /\ UNCHANGED compressing
              ELSE compressing' = compressing \cup {fork} /\ UNCHANGED children
           /\ marks' = Mark(p, fork.no)
    /\ UNCHANGED <<ways, parent, lastId, under, announced>>

(* Mutant of ForkSummarised: the copies are taken from the parent as it is  *)
(* by now, at the indices of then.                                          *)
ForkSummarised_ReadsLate(f) ==
    LET now == [f EXCEPT !.has = [k \in DOMAIN @ |->
                   IF @[k].kind = "summary" THEN @[k]
                   ELSE LET i == SelectInSeq(f.order, LAMBDA id : id \in f.has[k].of)
                        IN  IF i \in DOMAIN parent THEN Item("copy", {parent[i].id}) ELSE @[k]]]
    IN  /\ compressing' = compressing \ {f}
        /\ children' = children \cup {now}
        /\ UNCHANGED <<ways, parent, lastId, under, announced, marks>>

(* complete_fork_after_compression: from the messages that were taken when  *)
(* the fork was accepted.                                                   *)
ForkSummarised(f) ==
    /\ compressing' = compressing \ {f}
    /\ children' = children \cup {f}
    /\ UNCHANGED <<ways, parent, lastId, under, announced, marks>>

(* The helper fails: the fork stays without content.                        *)
ForkSummaryFails(f) ==
    /\ compressing' = compressing \ {f}
    /\ children' = children \cup {[f EXCEPT !.has = <<>>]}
    /\ UNCHANGED <<ways, parent, lastId, under, announced, marks>>

ForkNext ==
    \/ SubmitText \/ SubmitMarkdown \/ SubmitImages
    \/ RunnerAdds("answer") \/ RunnerAdds("proposal") \/ EndExchange
    \/ AddLink \/ \E i \in DOMAIN parent : DropTurn(i)
    \/ /\ Forks < MaxForks /\ (Forks > 0 => "again" \in ways)
       /\ \E p \in {t.id : t \in {u \in ToSet(parent) : u.kind = "proposal"}} :
              \E modes \in {ModesOf(plan) : plan \in Plans} : Accept(p, modes)
    \/ \E f \in compressing : ForkSummarised(f) \/ ForkSummaryFails(f)

ForkSpec == ForkInit /\ [][ForkNext]_forkVars

-----------------------------------------------------------------------------
(* Properties                                                               *)

ForkTypeOK ==
    /\ Len(parent) <= MaxParent /\ under \in 0..lastId
    /\ "delete" \notin ways => \A t \in announced : t.at \in DOMAIN parent
    /\ \A m \in marks : m.fork \in 1..MaxForks
    /\ \A f \in compressing \cup children : f.no \in 1..MaxForks

PlaceOf(f, id) == CHOOSE i \in DOMAIN f.order : f.order[i] = id
Firsts(f, k) ==
    CHOOSE id \in f.has[k].of : \A x \in f.has[k].of : PlaceOf(f, id) <= PlaceOf(f, x)

(* A fork tells its parent's story in its order, as it was when the fork    *)
(* was accepted, whatever happens to the parent before the summary is       *)
(* there; no turn is in it twice.                                           *)
ForkInOrder ==
    \A f \in children : \A k, m \in DOMAIN f.has :
        /\ f.has[k].of \subseteq ToSet(f.order)
        /\ k < m => /\ PlaceOf(f, Firsts(f, k)) < PlaceOf(f, Firsts(f, m))
                    /\ f.has[k].of \cap f.has[m].of = {}

(* No copied turn lies between those that a summary stands for.             *)
SummaryUnbroken ==
    \A f \in children : \A k, m \in DOMAIN f.has :
        f.has[k].kind = "summary" /\ m > k =>
            \A x \in f.has[k].of : \A y \in f.has[m].of : PlaceOf(f, x) < PlaceOf(f, y)

(* What was to be dropped is in no fork, not in a summary either.           *)
DropsDropped ==
    \A f \in children : \A k \in DOMAIN f.has : f.has[k].of \cap f.dropped = {}

(* A fork tells what the plan kept of its parent's story, in its order, with *)
(* summaries in the place of what they stand for.                            *)
ForkFaithful == ForkInOrder /\ SummaryUnbroken /\ DropsDropped

(* A proposal is marked with a fork that was made of it.                    *)
MarksNameForks ==
    \A m \in marks : \E f \in compressing \cup children :
        f.no = m.fork /\ f.proposal = m.proposal

(* "compress: LLM summarizes the exchange": every turn to be compressed is  *)
(* in a summary.                                                            *)
CompressedIsSummarised ==
    \A f \in children : f.has # <<>> =>
        f.compressed \subseteq UNION {f.has[k].of : k \in DOMAIN f.has}

(* "Check if it's the last exchange (current proposal) - skip it": a fork   *)
(* does not contain its own proposal.                                       *)
ProposalLeftOut ==
    \A f \in children : \A k \in DOMAIN f.has : f.proposal \notin f.has[k].of

(* A turn is announced under its own id and index.                          *)
AnnouncedAsStored ==
    "delete" \notin ways =>
        \A t \in announced : parent[t.at].id = t.id
=============================================================================
