------------------------------ MODULE Supervisor ------------------------------
(***************************************************************************)
(* The process supervisor and its configuration                            *)
(* (service/supervisor_state_service.py, core/supervisor_tools.py,         *)
(* supervisor_config.py, and the crate balloons-supervisor below them).    *)
(*                                                                         *)
(* Python calls the supervisor on its one event loop and waits for the     *)
(* answer; each process has a task of its own on the supervisor's threads, *)
(* which reports to Python by posting to the event loop.                   *)
(***************************************************************************)
EXTENDS Integers, Sequences, FiniteSets, SequencesExt, FiniteSetsExt

CONSTANTS
    Hosts,          \* names of ssh hosts
    Backends,       \* backends that may be mapped to a host
    Procs,          \* processes
    Nothing,        \* no process
    MaxEdits,       \* bound: configurations given to hosts
    MaxChecks,      \* bound: checks under way
    MaxStops,       \* bound: stops asked of a process
    MaxLines,       \* bound: lines a process writes
    Chores          \* what happens in a behaviour: sets of names

ASSUME SupervisorAssumption ==
    /\ MaxEdits \in Nat \ {0} /\ MaxChecks \in Nat \ {0}
    /\ MaxStops \in Nat /\ MaxLines \in Nat
    /\ Nothing \notin Procs

VARIABLES
    chore,      \* the member of Chores this behaviour is about
    config,     \* the SupervisorConfig in memory: hosts, mapping, lsp
    file,       \* supervisor.yaml: the same, and whether it is there
    saved,      \* history: the last edit was saved, and the file is left alone
    edits,      \* the configurations given to hosts so far, by number
    cache,      \* _host_status_cache: the configuration a status was found for
    checks,     \* check_host_status calls; the first holds _status_check_lock
    raced,      \* history: hosts edited while one of their checks was under way
    renamed,    \* history: names given up by a rename
    proc,       \* status of a process: "none", "running", "exited", "killed"
    alive,      \* the process itself: "yes", "code" or "signal" once it ended
    inbox,      \* stops in the channel of a process, which holds one
    handler,    \* the task of a process: "none", "reads", "kills",
                \* "clears" or "done"
    sender,     \* the process whose channel the event loop waits for
    announcing, \* a process started whose start has not been posted
    posts,      \* call_soon_threadsafe: what the event loop is to send
    shown,      \* status of a process in the browser
    snapshot,   \* get_state on its way to the browser: the statuses it found
    missed,     \* history: processes whose end was posted before their start,
                \* or reached the browser ahead of an older state
    stops,      \* stops asked of a process
    written     \* lines a process has written

configVars == <<config, file, saved, edits, cache, checks, raced, renamed>>
procVars == <<proc, alive, inbox, handler, sender, announcing, posts, shown,
              snapshot, missed, stops, written>>
supervisorVars == <<chore, configVars, procVars>>

NoHosts == [h \in {} |-> 0]
NoFile == [there |-> FALSE, hosts |-> NoHosts, mapping |-> <<>>, lsp |-> "none"]

(* SupervisorConfig.load: without a file there is no language server at all, *)
(* with one the built-in ones unless the file has others.                    *)
Load(f) ==
    [hosts |-> f.hosts, mapping |-> f.mapping,
     lsp |-> IF ~f.there THEN "none"
             ELSE IF f.lsp = "users" THEN "users" ELSE "builtin"]

(* to_dict: no language servers                                              *)
ToDict(c) == [there |-> TRUE, hosts |-> c.hosts, mapping |-> c.mapping, lsp |-> "none"]

SupervisorInit ==
    /\ chore \in Chores
    /\ file \in {NoFile, [NoFile EXCEPT !.there = TRUE, !.lsp = "users"]}
    /\ config = Load(file) /\ saved = TRUE /\ edits = 0
    /\ cache = NoHosts /\ checks = <<>> /\ raced = {} /\ renamed = {}
    /\ proc = [p \in Procs |-> "none"] /\ alive = [p \in Procs |-> "yes"]
    /\ inbox = [p \in Procs |-> 0] /\ handler = [p \in Procs |-> "none"]
    /\ sender = Nothing /\ announcing = Nothing /\ posts = <<>>
    /\ shown = [p \in Procs |-> "none"] /\ snapshot = <<>> /\ missed = {}
    /\ stops = [p \in Procs |-> 0] /\ written = [p \in Procs |-> 0]

(* The event loop is free to take up a call.                                *)
LoopFree == sender = Nothing /\ announcing = Nothing

-----------------------------------------------------------------------------
(* Hosts and mappings                                                       *)

Without(f, xs) == [x \in DOMAIN f \ xs |-> f[x]]
Put(f, x, y) == [z \in DOMAIN f \cup {x} |-> IF z = x THEN y ELSE f[z]]
Checked == {checks[i].host : i \in DOMAIN checks}

(* save: writing the file may fail, before or after it was emptied; what is  *)
(* in memory stays either way.                                               *)
Save(c) ==
    /\ config' = c
    /\ \/ file' = ToDict(c) /\ saved' = TRUE
       \/ /\ "fail" \in chore /\ saved' = FALSE
          /\ file' \in {file, [NoFile EXCEPT !.there = TRUE]}

Drop(names) == cache' = Without(cache, names)

(* A failed save leaves the statuses as they are.                           *)
DropIfSaved(names) == cache' = IF saved' THEN Without(cache, names) ELSE cache

Editing == "edit" \in chore /\ LoopFree /\ edits < MaxEdits

AddHost(h) ==
    /\ Editing /\ h \notin DOMAIN config.hosts
    /\ edits' = edits + 1
    /\ Save([config EXCEPT !.hosts = Put(config.hosts, h, edits + 1)])
    /\ DropIfSaved(DOMAIN cache)
    /\ raced' = raced \cup (Checked \cap {h})
    /\ UNCHANGED <<checks, renamed>>

UpdateHost_KeepsStatus(h) ==
    /\ Editing /\ h \in DOMAIN config.hosts
    /\ edits' = edits + 1
    /\ Save([config EXCEPT !.hosts = Put(config.hosts, h, edits + 1)])
    /\ raced' = raced \cup (Checked \cap {h})
    /\ UNCHANGED <<cache, checks, renamed>>

(* The status of a host whose edit was not saved stays, too.                *)
UpdateHost(h) ==
    /\ Editing /\ h \in DOMAIN config.hosts
    /\ edits' = edits + 1
    /\ Save([config EXCEPT !.hosts = Put(config.hosts, h, edits + 1)])
    /\ DropIfSaved({h})
    /\ raced' = raced \cup (Checked \cap {h}) \cup (IF saved' THEN {} ELSE {h})
    /\ UNCHANGED <<checks, renamed>>

(* update_host with originalName: mappings keep the old name.               *)
RenameHost(h, new) ==
    /\ Editing /\ h \in DOMAIN config.hosts /\ new \notin DOMAIN config.hosts
    /\ edits' = edits + 1
    /\ Save([config EXCEPT !.hosts = Put(Without(config.hosts, {h}), new, edits + 1)])
    /\ cache' = Without(cache, {h} \cup IF saved' THEN {new} ELSE {})
    /\ renamed' = renamed \cup {h}
    /\ raced' = raced \cup (Checked \cap {h, new})
    /\ UNCHANGED checks

RemoveHost(h) ==
    /\ Editing /\ h \in DOMAIN config.hosts
    /\ edits' = edits + 1
    /\ LET gone == {b \in DOMAIN config.mapping : config.mapping[b] = h}
       IN  Save([config EXCEPT !.hosts = Without(config.hosts, {h}),
                               !.mapping = Without(config.mapping, gone)])
    /\ DropIfSaved({h})
    /\ raced' = raced \cup (Checked \cap {h}) \cup (IF saved' THEN {} ELSE {h})
    /\ UNCHANGED <<checks, renamed>>

SetBackendHost(b, h) ==
    /\ Editing /\ h \in DOMAIN config.hosts
    /\ Save([config EXCEPT !.mapping = Put(config.mapping, b, h)])
    /\ UNCHANGED <<edits, cache, checks, raced, renamed>>

RemoveBackendHost(b) ==
    /\ Editing /\ b \in DOMAIN config.mapping
    /\ Save([config EXCEPT !.mapping = Without(config.mapping, {b})])
    /\ UNCHANGED <<edits, cache, checks, raced, renamed>>

(* Someone edits the file by hand, or the other server does.                *)
EditFile ==
    /\ Editing
    /\ edits' = edits + 1 /\ saved' = FALSE
    /\ \E hs \in SUBSET Hosts :
          file' = [there |-> TRUE, hosts |-> [h \in hs |-> edits + 1],
                   mapping |-> <<>>, lsp |-> "users"]
    /\ UNCHANGED <<config, cache, checks, raced, renamed>>

ReloadConfig ==
    /\ Editing
    /\ config' = Load(file) /\ saved' = TRUE
    /\ Drop(DOMAIN cache)
    /\ raced' = raced \cup Checked
    /\ UNCHANGED <<file, edits, checks, renamed>>

(* check_host_status: the host is looked up, then the lock is waited for    *)
StartCheck(h) ==
    /\ "check" \in chore /\ LoopFree /\ Len(checks) < MaxChecks
    /\ h \in DOMAIN config.hosts
    /\ checks' = Append(checks, [host |-> h, with |-> config.hosts[h]])
    /\ UNCHANGED <<config, file, saved, edits, cache, raced, renamed>>

(* ssh answers, fails or times out; only an error of another kind leaves no  *)
(* status.                                                                   *)
EndCheck ==
    /\ checks # <<>> /\ LoopFree
    /\ checks' = Tail(checks)
    /\ \/ cache' = Put(cache, Head(checks).host, Head(checks).with)
       \/ UNCHANGED cache
    /\ UNCHANGED <<config, file, saved, edits, raced, renamed>>

-----------------------------------------------------------------------------
(* Processes                                                                *)

Post(e) == posts' = Append(posts, e)

(* execute_supervisor_tool "supervisor_start": the task of the process runs  *)
(* from here on, and the event loop goes on to announce the process.         *)
StartProcess(p) ==
    /\ "run" \in chore /\ LoopFree /\ proc[p] = "none"
    /\ proc' = [proc EXCEPT ![p] = "running"]
    /\ handler' = [handler EXCEPT ![p] = "reads"]
    /\ announcing' = p
    /\ UNCHANGED <<alive, inbox, sender, posts, shown, snapshot, missed, stops, written>>

(* _emit_process_started                                                    *)
Announce ==
    /\ announcing # Nothing
    /\ Post(<<"started", announcing>>)
    /\ announcing' = Nothing
    /\ UNCHANGED <<proc, alive, inbox, handler, sender, shown, snapshot, missed, stops, written>>

WriteLine(p) ==
    /\ handler[p] = "reads" /\ alive[p] = "yes" /\ inbox[p] = 0
    /\ written[p] < MaxLines /\ "write" \in chore
    /\ written' = [written EXCEPT ![p] = @ + 1]
    /\ UNCHANGED <<proc, alive, inbox, handler, sender, announcing, posts, shown, snapshot, missed, stops>>

(* The process ends by itself, or is killed by someone else.                *)
Ends(p) ==
    /\ proc[p] = "running" /\ alive[p] = "yes"
    /\ \E how \in {"code", "signal"} : alive' = [alive EXCEPT ![p] = how]
    /\ UNCHANGED <<proc, inbox, handler, sender, announcing, posts, shown, snapshot, missed, stops, written>>

(* handle_process_events, Exited: only an exit with a code is reported by    *)
(* _output_callback.  A stop that has come is taken first.                   *)
Reap(p) ==
    /\ handler[p] = "reads" /\ inbox[p] = 0 /\ alive[p] # "yes"
    /\ handler' = [handler EXCEPT ![p] = "done"]
    /\ proc' = [proc EXCEPT ![p] = "exited"]
    /\ posts' = IF alive[p] = "code" THEN Append(posts, <<"stopped", p>>) ELSE posts
    /\ missed' = IF announcing = p THEN missed \cup {p} ELSE missed
    /\ UNCHANGED <<alive, inbox, sender, announcing, shown, snapshot, stops, written>>

TakeStop(p) ==
    /\ handler[p] = "reads" /\ inbox[p] = 1
    /\ handler' = [handler EXCEPT ![p] = "kills"]
    /\ inbox' = [inbox EXCEPT ![p] = 0]
    /\ UNCHANGED <<proc, alive, sender, announcing, posts, shown, snapshot, missed, stops, written>>

(* handle.kill, and the status that mark_killed sets first                  *)
Kill(p) ==
    /\ handler[p] = "kills"
    /\ handler' = [handler EXCEPT ![p] = "clears"]
    /\ proc' = [proc EXCEPT ![p] = "killed"]
    /\ alive' = [alive EXCEPT ![p] = IF @ = "yes" THEN "signal" ELSE @]
    /\ UNCHANGED <<inbox, sender, announcing, posts, shown, snapshot, missed, stops, written>>


(* The end of mark_killed takes the lock a waiting stop holds.              *)
Killed(p) ==
    /\ handler[p] = "clears" /\ sender # p
    /\ handler' = [handler EXCEPT ![p] = "done"]
    /\ UNCHANGED <<proc, alive, inbox, sender, announcing, posts, shown, snapshot, missed, stops, written>>

(* stop_process: refused unless the process is running; the event loop waits *)
(* when the channel is full.                                                 *)
StopProcess(p) ==
    /\ "stop" \in chore /\ LoopFree /\ proc[p] = "running" /\ stops[p] < MaxStops
    /\ stops' = [stops EXCEPT ![p] = @ + 1]
    /\ IF inbox[p] = 0
       THEN inbox' = [inbox EXCEPT ![p] = 1] /\ UNCHANGED sender
       ELSE sender' = p /\ UNCHANGED inbox
    /\ UNCHANGED <<proc, alive, handler, announcing, posts, shown, snapshot, missed, written>>

StopSent ==
    /\ sender # Nothing /\ inbox[sender] = 0
    /\ inbox' = [inbox EXCEPT ![sender] = 1]
    /\ sender' = Nothing
    /\ UNCHANGED <<proc, alive, handler, announcing, posts, shown, snapshot, missed, stops, written>>

(* The event loop sends what was posted: processStarted adds a row,         *)
(* processStopped changes one that is there.                                *)
SendEvent ==
    /\ posts # <<>> /\ LoopFree
    /\ LET p == Head(posts)[2] IN
       shown' = [shown EXCEPT ![p] =
           IF Head(posts)[1] = "started" THEN "running"
           ELSE IF @ = "none" THEN "none" ELSE "stopped"]
    /\ posts' = Tail(posts)
    /\ missed' = IF snapshot # <<>> THEN missed \cup {Head(posts)[2]} ELSE missed
    /\ UNCHANGED <<proc, alive, inbox, handler, sender, announcing, snapshot, stops, written>>

(* loadState, get_state: the statuses are read on a thread of the supervisor *)
AskState ==
    /\ "refresh" \in chore /\ LoopFree /\ snapshot = <<>>
    /\ snapshot' = proc
    /\ UNCHANGED <<proc, alive, inbox, handler, sender, announcing, posts, shown,
                   missed, stops, written>>

LoadState ==
    /\ LoopFree /\ snapshot # <<>>
    /\ shown' = [p \in Procs |->
           IF snapshot[p] \in {"none", "running"} THEN snapshot[p] ELSE "stopped"]
    /\ snapshot' = <<>>
    /\ UNCHANGED <<proc, alive, inbox, handler, sender, announcing, posts, missed,
                   stops, written>>

-----------------------------------------------------------------------------
(* get_process_output: the last lines, fewer the more are left out           *)

Fetched(n, limit, offset) == Min({n, limit + offset})
PageOf(n, limit, offset) ==
    IF offset >= Fetched(n, limit, offset) THEN {}
    ELSE (n - Fetched(n, limit, offset) + 1)..(n - offset)
HasMore(n, limit, offset) == Fetched(n, limit, offset) >= limit + offset

-----------------------------------------------------------------------------
ConfigNext ==
    /\ \/ \E h \in Hosts : AddHost(h) \/ UpdateHost(h) \/ RemoveHost(h) \/ StartCheck(h)
       \/ \E h, g \in Hosts : RenameHost(h, g)
       \/ \E b \in Backends, h \in Hosts : SetBackendHost(b, h)
       \/ \E b \in Backends : RemoveBackendHost(b)
       \/ EditFile \/ ReloadConfig \/ EndCheck
    /\ UNCHANGED <<chore, procVars>>

(* What runs without anyone asking for it.                                  *)
Runs ==
    /\ \/ Announce \/ StopSent \/ SendEvent
       \/ \E p \in Procs : Reap(p) \/ TakeStop(p) \/ Kill(p) \/ Killed(p)
    /\ UNCHANGED <<chore, configVars>>

Asks ==
    /\ \/ \E p \in Procs : StartProcess(p) \/ WriteLine(p) \/ Ends(p) \/ StopProcess(p)
       \/ AskState \/ LoadState
    /\ UNCHANGED <<chore, configVars>>

SupervisorNext == ConfigNext \/ Runs \/ Asks

SupervisorSpec ==
    SupervisorInit /\ [][SupervisorNext]_supervisorVars /\ WF_supervisorVars(Runs)

-----------------------------------------------------------------------------
SupervisorTypeOK ==
    /\ DOMAIN config.hosts \subseteq Hosts /\ DOMAIN config.mapping \subseteq Backends
    /\ config.lsp \in {"none", "builtin", "users"} /\ file.there \in BOOLEAN
    /\ DOMAIN cache \subseteq Hosts /\ Len(checks) <= MaxChecks
    /\ \A p \in Procs :
          /\ proc[p] \in {"none", "running", "exited", "killed"}
          /\ handler[p] = "done" => proc[p] \in {"exited", "killed"}
          /\ handler[p] = "clears" => proc[p] = "killed"
          /\ inbox[p] \in {0, 1}
    /\ sender \in Procs \cup {Nothing} /\ announcing \in Procs \cup {Nothing}

(* What is in memory is what a restart reads, unless a save failed or the    *)
(* file was edited: every change of hosts and mappings is written at once.   *)
ConfigSurvives ==
    saved => Load(file).hosts = config.hosts /\ Load(file).mapping = config.mapping

(* A backend is mapped to a host there is, or to one that was renamed away.   *)
MappingsNameHosts ==
    \A b \in DOMAIN config.mapping :
        config.mapping[b] \in DOMAIN config.hosts \cup renamed

(* A status shown for a host is one of its present configuration, unless it  *)
(* was edited while a check of it was under way or its edit was not saved.   *)
StatusIsCurrent ==
    \A h \in DOMAIN cache \ raced :
        h \in DOMAIN config.hosts /\ cache[h] = config.hosts[h]

(* Reading the output of a process page by page gives every line once, and   *)
(* one knows when to stop.                                                   *)
PagesCover ==
    \A p \in Procs, limit \in 1..2 :
        LET n == written[p]
            read == {k \in 0..n : \A j \in 0..(k - 1) : HasMore(n, limit, j * limit)}
        IN  /\ UNION {PageOf(n, limit, k * limit) : k \in read} = 1..n
            /\ \A j, k \in read : j # k =>
                  PageOf(n, limit, j * limit) \cap PageOf(n, limit, k * limit) = {}

(* A process that ended with a code is shown as stopped once everything      *)
(* posted was sent, unless its end was posted before its start or overtook a  *)
(* state that was on its way.                                                *)
EndIsShown ==
    \A p \in Procs \ missed :
        (posts = <<>> /\ announcing = Nothing /\ snapshot = <<>> /\ proc[p] = "exited" /\ alive[p] = "code")
            => shown[p] # "running"


(* The event loop is never held up for good: false with three stops, of      *)
(* which the second finds the channel empty and the third finds it full,     *)
(* while the first is being carried out.                                     *)
NeverWedged == (sender # Nothing) ~> (sender = Nothing)

(* What the configuration had, it has after a restart: false of language     *)
(* servers, which no save writes.                                            *)
ServersSurvive == saved => Load(file).lsp = config.lsp

(* Every end is reported: false of a process that is stopped, killed, or     *)
(* faster than the announcement of its start.                                *)
EveryEndIsShown ==
    \A p \in Procs :
        (posts = <<>> /\ announcing = Nothing /\ proc[p] \in {"exited", "killed"})
            => shown[p] # "running"
=============================================================================
