------------------------------- MODULE Browsers -------------------------------
(***************************************************************************)
(* The browsers a model or a user drives (service/browser_state_service.py *)
(* and core/browser_tools.py): a table by name, a default, one lock, and a *)
(* task that polls the browsers that are connected.                        *)
(*                                                                         *)
(* create_browser looks at the table, then waits for the lock, then for    *)
(* the browser, and goes on with the name it was called with.              *)
(***************************************************************************)
EXTENDS Integers, Sequences, FiniteSets, Functions

CONSTANTS
    Names,          \* names of browsers
    NoName,         \* no default
    MaxBrowsers,    \* bound: browsers ever created
    MaxPages,       \* bound: pages a browser goes to
    Habits          \* how users behave: sets of names

ASSUME BrowsersAssumption == MaxBrowsers \in Nat /\ MaxPages \in Nat /\ NoName \notin Names

VARIABLES
    habit,      \* the member of Habits this behaviour is about
    table,      \* _browser_registry
    called,     \* the name each create_browser call was given
    label,      \* instance.name
    stage,      \* how far the call is: "asked", "connecting", "failed", "over"
    status,     \* instance.status
    open,       \* the browsers that run
    default,    \* _default_browser_name
    holder,     \* the browser being destroyed, with the lock held, 0 for none
    poller,     \* _poll_task: "off", "on", or "ending", with the lock held
    polling,    \* the browser it waits for, 0 for none, and the page it was told
    page,       \* the page a browser is at, by number
    known,      \* instance.current_url
    asked       \* the page a goto under way asked for, 0 for none

pageVars == <<page, known, asked>>
browserVars == <<habit, table, called, label, stage, status, open, default, holder,
                 poller, polling, pageVars>>

Ids == 1..Len(called)

BrowsersInit ==
    /\ habit \in Habits
    /\ table = <<>> /\ called = <<>> /\ label = <<>> /\ stage = <<>> /\ status = <<>>
    /\ open = {} /\ default = NoName /\ holder = 0 /\ poller = "off" /\ polling = [of |-> 0, at |-> 0]
    /\ page = [b \in 1..MaxBrowsers |-> 0] /\ known = page /\ asked = page

LockFree == holder = 0 /\ poller # "ending"
Listed(b) == label[b] \in DOMAIN table /\ table[label[b]] = b
Entry(t, n, b) == [m \in DOMAIN t \cup {n} |-> IF m = n THEN b ELSE t[m]]
Less(t, n) == [m \in DOMAIN t \ {n} |-> t[m]]

(* Patient users do not touch the table while a browser is being created, nor *)
(* create one while the lock is held.                                         *)
Settled == "hasty" \in habit \/ \A b \in Ids : stage[b] = "over"

(* Bounds: users who browse create one browser, hasty ones two.              *)
MoreBrowsers ==
    /\ Len(called) < MaxBrowsers
    /\ "browse" \in habit => called = <<>>
    /\ "hasty" \in habit => Len(called) < 2


-----------------------------------------------------------------------------
(* create_browser                                                           *)

Create(n) ==
    /\ MoreBrowsers /\ n \notin DOMAIN table
    /\ "hasty" \in habit \/ LockFree
    /\ called' = Append(called, n) /\ label' = Append(label, n)
    /\ status' = Append(status, "connecting")
    /\ IF LockFree
       THEN stage' = Append(stage, "connecting") /\ table' = Entry(table, n, Len(called'))
       ELSE stage' = Append(stage, "asked") /\ UNCHANGED table
    /\ UNCHANGED <<habit, open, default, holder, poller, polling, pageVars>>

(* The lock had to be waited for; the name may have been taken meanwhile.    *)
Register(b) ==
    /\ stage[b] = "asked" /\ LockFree
    /\ stage' = [stage EXCEPT ![b] = "connecting"]
    /\ table' = Entry(table, called[b], b)
    /\ UNCHANGED <<habit, called, label, status, open, default, holder, poller, polling, pageVars>>

(* The default becomes the name the call was given, if asked for or if there  *)
(* is none; polling is not started while it is about to end.                  *)
Connected(b) ==
    /\ stage[b] = "connecting"
    /\ stage' = [stage EXCEPT ![b] = "over"]
    /\ status' = [status EXCEPT ![b] = "connected"]
    /\ open' = open \cup {b}
    /\ default' \in (IF default = NoName THEN {} ELSE {default}) \cup {called[b]}
    /\ poller' = IF poller = "off" THEN "on" ELSE poller
    /\ UNCHANGED <<habit, table, called, label, holder, polling, pageVars>>

(* Every attempt failed.  A browser that connected but did not tell its id    *)
(* stays open.                                                               *)
Fails(b) ==
    /\ stage[b] = "connecting"
    /\ stage' = [stage EXCEPT ![b] = "failed"]
    /\ status' = [status EXCEPT ![b] = "error"]
    /\ open' \in IF "crash" \in habit THEN {open, open \cup {b}} ELSE {open}
    /\ UNCHANGED <<habit, table, called, label, default, holder, poller, polling, pageVars>>

(* Whatever the table has by that name goes.                                 *)
CleanUp(b) ==
    /\ stage[b] = "failed" /\ LockFree
    /\ stage' = [stage EXCEPT ![b] = "over"]
    /\ table' = Less(table, called[b])
    /\ UNCHANGED <<habit, called, label, status, open, default, holder, poller, polling, pageVars>>

-----------------------------------------------------------------------------
Destroy(n) ==
    /\ LockFree /\ n \in DOMAIN table /\ Settled
    /\ holder' = table[n]
    /\ UNCHANGED <<habit, table, called, label, stage, status, open, default, poller, polling, pageVars>>

(* The browser that is next in the table becomes the default; polling ends    *)
(* with the last one.                                                        *)
Gone(b, closed) ==
    /\ holder = b /\ holder' = 0
    /\ open' = open \ closed
    /\ table' = Less(table, label[b])
    /\ default' \in IF default # label[b] THEN {default}
                    ELSE IF DOMAIN table' = {} THEN {NoName} ELSE DOMAIN table'
    /\ poller' = IF DOMAIN table' = {} /\ poller = "on" THEN "ending" ELSE poller
    /\ UNCHANGED <<habit, called, label, stage, status, polling, pageVars>>

Destroyed_LeftOpen(b) == Gone(b, {})
Destroyed(b) == Gone(b, {b})

PollEnds ==
    /\ poller = "ending"
    /\ poller' = "off" /\ polling' = [of |-> 0, at |-> 0]
    /\ UNCHANGED <<habit, table, called, label, stage, status, open, default, holder, pageVars>>

Rename_KeepsDefault(old, new) ==
    /\ LockFree /\ old \in DOMAIN table /\ new \notin DOMAIN table /\ Settled
    /\ label' = [label EXCEPT ![table[old]] = new]
    /\ table' = Entry(Less(table, old), new, table[old])
    /\ UNCHANGED <<habit, called, stage, status, open, default, holder, poller, polling, pageVars>>

Rename(old, new) ==
    /\ LockFree /\ old \in DOMAIN table /\ new \notin DOMAIN table /\ Settled
    /\ label' = [label EXCEPT ![table[old]] = new]
    /\ table' = Entry(Less(table, old), new, table[old])
    /\ default' = IF default = old THEN new ELSE default
    /\ UNCHANGED <<habit, called, stage, status, open, holder, poller, polling, pageVars>>

SetDefault(n) ==
    /\ n \in DOMAIN table /\ Settled
    /\ "hasty" \in habit \/ LockFree
    /\ default' = n
    /\ UNCHANGED <<habit, table, called, label, stage, status, open, holder, poller, polling, pageVars>>

-----------------------------------------------------------------------------
(* Someone closes the window, or it crashes.                                *)
Crash(b) ==
    /\ "crash" \in habit /\ b \in open
    /\ open' = open \ {b}
    /\ UNCHANGED <<habit, table, called, label, stage, status, default, holder, poller, polling, pageVars>>

(* goto: the page is what was asked for once the browser is there.           *)
Goto(b) ==
    /\ "browse" \in habit /\ b \in open /\ Listed(b) /\ asked[b] = 0 /\ page[b] < MaxPages
    /\ page' = [page EXCEPT ![b] = @ + 1]
    /\ asked' = [asked EXCEPT ![b] = page[b] + 1]
    /\ UNCHANGED <<habit, table, called, label, stage, status, open, default, holder, poller, polling, known>>

WentTo(b) ==
    /\ asked[b] # 0
    /\ known' = [known EXCEPT ![b] = asked[b]]
    /\ asked' = [asked EXCEPT ![b] = 0]
    /\ UNCHANGED <<habit, table, called, label, stage, status, open, default, holder, poller, polling, page>>

(* What leads elsewhere without anyone keeping where: only get_url asks.      *)
Wander(b) ==
    /\ "browse" \in habit /\ b \in open /\ Listed(b) /\ page[b] < MaxPages
    /\ page' = [page EXCEPT ![b] = @ + 1]
    /\ UNCHANGED <<habit, table, called, label, stage, status, open, default, holder, poller, polling, known, asked>>

ActOnPage(b) == Wander(b)   \* click, fill
Revisit(b) == Wander(b)     \* back, forward, refresh, execute_js
FillInput(b) == Wander(b)   \* set_input: a script of the page reacts
OpenTab(b) == Wander(b)     \* new_tab, switch_tab

(* close_tab: the last tab takes the browser with it, which stays listed.     *)
CloseTab(b) ==
    \/ Wander(b)
    \/ /\ "browse" \in habit /\ b \in open /\ Listed(b)
       /\ open' = open \ {b}
       /\ UNCHANGED <<habit, table, called, label, stage, status, default, holder, poller, polling, pageVars>>

GetUrl(b) ==
    /\ "browse" \in habit /\ b \in open /\ Listed(b)
    /\ known' = [known EXCEPT ![b] = page[b]]
    /\ UNCHANGED <<habit, table, called, label, stage, status, open, default, holder, poller, polling, page, asked>>

(* _poll_browser_state asks one browser after the other ...                 *)
PollBrowser(b) ==
    /\ poller = "on" /\ polling.of = 0
    /\ Listed(b) /\ status[b] = "connected" /\ (b \notin open \/ page[b] # known[b])
    /\ polling' = [of |-> b, at |-> IF b \in open THEN page[b] ELSE -1]
    /\ UNCHANGED <<habit, table, called, label, stage, status, open, default, holder, poller, pageVars>>

(* ... and goes by what it was told, which may be old by then.               *)
Polled ==
    /\ polling.of # 0 /\ poller # "off"
    /\ status' = IF polling.at = -1 THEN [status EXCEPT ![polling.of] = "error"] ELSE status
    /\ known' = IF polling.at = -1 THEN known ELSE [known EXCEPT ![polling.of] = polling.at]
    /\ polling' = [of |-> 0, at |-> 0]
    /\ UNCHANGED <<habit, table, called, label, stage, open, default, holder, poller, page, asked>>

-----------------------------------------------------------------------------
Serves ==
    \/ \E b \in Ids : Register(b) \/ CleanUp(b) \/ Destroyed(b) \/ PollBrowser(b) \/ WentTo(b)
    \/ PollEnds \/ Polled

BrowsersNext ==
    \/ Serves
    \/ \E b \in Ids : Connected(b) \/ Fails(b) \/ Crash(b) \/ Goto(b) \/ GetUrl(b)
    \/ \E b \in Ids : ActOnPage(b) \/ Revisit(b) \/ FillInput(b) \/ OpenTab(b) \/ CloseTab(b)
    \/ \E n \in Names : Create(n) \/ Destroy(n) \/ SetDefault(n)
    \/ \E n, m \in Names : Rename(n, m)

BrowsersSpec == BrowsersInit /\ [][BrowsersNext]_browserVars /\ WF_browserVars(Serves)

-----------------------------------------------------------------------------
Patient == "hasty" \notin habit

BrowsersTypeOK ==
    /\ DOMAIN table \subseteq Names /\ \A n \in DOMAIN table : table[n] \in Ids
    /\ open \subseteq Ids /\ default \in Names \cup {NoName}
    /\ holder # 0 => Listed(holder)

(* With patient users, every browser that runs is in the table under its      *)
(* name, so that it can be stopped, or failed to tell its id.                 *)
OpenIsListed == Patient => \A b \in open : Listed(b) \/ status[b] = "error"

(* With patient users, the default is a browser of the table.                *)
DefaultIsListed == Patient => default \in DOMAIN table \cup {NoName}

(* With patient users the table has every browser that runs, and the default *)
(* among them, however starts, renames and stops overlap.                    *)
TableSound == OpenIsListed /\ DefaultIsListed

(* A connected browser of the table that crashes is noticed: the poll runs as *)
(* long as there is one.  With hasty users one that connects while the last   *)
(* other is destroyed is never polled.                                        *)
CrashIsNoticed ==
    \A b \in 1..MaxBrowsers :
        (Patient /\ b \in Ids /\ stage[b] = "over" /\ Listed(b) /\ b \notin open)
            ~> (b \in Ids => status[b] = "error" \/ ~Listed(b))

(* Where a browser is gets known in the end, whatever the order in which a    *)
(* goto, a click and a poll are answered.                                     *)
PageIsKnown ==
    \A b \in 1..MaxBrowsers :
        (Patient /\ b \in Ids /\ b \in open /\ page[b] # known[b])
            ~> (b \notin open \/ page[b] = known[b] \/ status[b] = "error")

(* False: a browser is destroyed while it connects, or two calls with one     *)
(* name wait for the lock.                                                    *)
HastyOpenIsListed == \A b \in open : Listed(b) \/ status[b] = "error"

(* False: a browser is renamed or destroyed while it connects, or one that     *)
(* becomes the default as the next in the table fails to connect.             *)
HastyDefaultIsListed == default \in DOMAIN table \cup {NoName}
=============================================================================
