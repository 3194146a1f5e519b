---------------------------- MODULE LanguageServers ----------------------------
(***************************************************************************)
(* The language servers: core/lsp_client.py, with the calls its users make *)
(* (service/lsp_service.py, core/lsp_tools.py).  One lock serves every     *)
(* server; it is held while a server starts up and while one is shut down. *)
(* A reader polls the output of each server.                               *)
(***************************************************************************)
EXTENDS Integers, Sequences, FiniteSets, SequencesExt, FiniteSetsExt

CONSTANTS
    Keys,           \* server_name:workspace_root
    Users,          \* tool calls and calls of browsers
    MaxServers,     \* bound: servers ever started
    MaxRequests,    \* bound: requests ever sent
    Limit,          \* entries a poll gets (100 in _handle_server_output)
    Demands         \* what happens in a behaviour: sets of names

ASSUME LanguageAssumption ==
    MaxServers \in Nat /\ MaxRequests \in Nat /\ Limit \in Nat \ {0}

Pids == 1..MaxServers

VARIABLES
    demand,     \* the member of Demands this behaviour is about
    instance,   \* _instances: the process of a server, 0 for none
    ready,      \* the processes whose instance is initialized
    running,    \* the processes that run
    keyOf,      \* the server a process was started for
    reading,    \* the processes with a reader (_output_handlers)
    call,       \* what a user asked for, and how far it is
    lock,       \* the users that hold or wait for _lock, the holder first
    request,    \* the request a user waits for, 0 for none
    sentTo,     \* the process a request was sent to
    output,     \* the answers a process has written
    seen,       \* how far the reader of a process has asked for output
    taken,      \* a poll that has been answered but not handled: its end, or -1
    unlucky,    \* history: answers no poll can see
    given,      \* answers handed to the user that waited
    dropped     \* history: processes whose stop was cancelled halfway

languageVars == <<demand, instance, ready, running, keyOf, reading, call, lock, request,
                  sentTo, output, seen, taken, unlucky, given, dropped>>

Idle == [op |-> "none", key |-> CHOOSE k \in Keys : TRUE, stage |-> "idle"]

LanguageInit ==
    /\ demand \in Demands
    /\ instance = [k \in Keys |-> 0] /\ ready = {} /\ running = {} /\ keyOf = <<>>
    /\ reading = {} /\ call = [u \in Users |-> Idle] /\ lock = <<>>
    /\ request = [u \in Users |-> 0] /\ sentTo = <<>>
    /\ output = [p \in Pids |-> <<>>] /\ seen = [p \in Pids |-> 0]
    /\ taken = [p \in Pids |-> -1] /\ unlucky = {} /\ given = {} /\ dropped = {}

Holds(u) == lock # <<>> /\ Head(lock) = u
At(u, stage) == call[u].stage = stage
Goes(u, stage) == call' = [call EXCEPT ![u].stage = stage]
Key(u) == call[u].key
Pid(u) == instance[Key(u)]
Started == Len(keyOf)

readerVars == <<reading, output, seen, taken, unlucky, given>>

-----------------------------------------------------------------------------
(* Calls                                                                    *)

(* Bound: a call may send three requests.                                   *)
Room == Len(sentTo) + 3 * Cardinality({u \in Users : ~At(u, "idle")}) + 3 <= MaxRequests

(* get_hover, get_definition, ... and ensure_server for "ask"; start_server  *)
(* of the service, which looks without the lock, for "start"; stop_server    *)
(* and restart_server.                                                       *)
Ask(u, op, k) ==
    /\ op \in demand /\ At(u, "idle") /\ Room
    /\ LET known == instance[k] # 0
           stage == IF op \in {"stop", "restart"} /\ known THEN "stop" ELSE "ensure"
       IN  /\ op = "start" => ~known
           /\ op = "stop" => known
           /\ call' = [call EXCEPT ![u] = [op |-> op, key |-> k, stage |-> stage]]
    /\ lock' = Append(lock, u)
    /\ UNCHANGED <<demand, instance, ready, running, keyOf, request, sentTo, dropped, readerVars>>

(* _send_request, up to the wait; a process that is gone takes no input.     *)
Sends(u, p) ==
    /\ sentTo' = Append(sentTo, p)
    /\ request' = [request EXCEPT ![u] = Len(sentTo) + 1]

(* What a user does with the instance it was given.  The instance may be one *)
(* that never got initialized, or one whose process is gone.                 *)
Uses(u, p) ==
    IF call[u].op = "ask" /\ p \in ready /\ p \in running
    THEN Sends(u, p) /\ Goes(u, "waits")
    ELSE Goes(u, "idle") /\ UNCHANGED <<request, sentTo>>

(* ensure_server, the server is in the table                                *)
Found(u) ==
    /\ Holds(u) /\ At(u, "ensure") /\ Pid(u) # 0
    /\ Uses(u, Pid(u))
    /\ lock' = Tail(lock)
    /\ UNCHANGED <<demand, instance, ready, running, keyOf, dropped, readerVars>>

Start_NotKept(u) ==
    /\ Holds(u) /\ At(u, "ensure") /\ Pid(u) = 0 /\ Started < MaxServers
    /\ keyOf' = Append(keyOf, Key(u))
    /\ running' = running \cup {Started + 1} /\ reading' = reading \cup {Started + 1}
    /\ Sends(u, Started + 1) /\ Goes(u, "init")
    /\ UNCHANGED <<demand, instance, ready, lock, output, seen, taken, unlucky, given, dropped>>

(* ensure_server starts the process, keeps the instance and its reader, and  *)
(* sends initialize with the lock held.                                      *)
Start(u) ==
    /\ Holds(u) /\ At(u, "ensure") /\ Pid(u) = 0 /\ Started < MaxServers
    /\ keyOf' = Append(keyOf, Key(u))
    /\ instance' = [instance EXCEPT ![Key(u)] = Started + 1]
    /\ running' = running \cup {Started + 1} /\ reading' = reading \cup {Started + 1}
    /\ Sends(u, Started + 1) /\ Goes(u, "init")
    /\ UNCHANGED <<demand, ready, lock, output, seen, taken, unlucky, given, dropped>>

(* There is no such server, no supervisor, or the start fails.               *)
NoStart(u) ==
    /\ Holds(u) /\ At(u, "ensure") /\ Pid(u) = 0
    /\ Goes(u, "idle") /\ lock' = Tail(lock)
    /\ UNCHANGED <<demand, instance, ready, running, keyOf, request, sentTo, dropped, readerVars>>

Answered(u) == request[u] \in given

(* An answer the user still waits for is on its way to it: the reader has a  *)
(* tenth of a second, the user ten.                                          *)
OnItsWay(u) ==
    LET p == sentTo[request[u]]
    IN  p \in reading /\ request[u] \in Range(output[p]) \ unlucky

(* _initialize_server: answered, or given up; the instance is returned either *)
(* way.  A user that asked for more goes on with it.                          *)
Initialized(u) ==
    /\ At(u, "init")
    /\ Answered(u) \/ ~OnItsWay(u)
    /\ LET p == sentTo[request[u]] IN
       /\ ready' = IF Answered(u) THEN ready \cup {p} ELSE ready
       /\ IF call[u].op = "ask" /\ Answered(u) /\ p \in running
          THEN Sends(u, p) /\ Goes(u, "waits")
          ELSE Goes(u, "idle") /\ request' = [request EXCEPT ![u] = 0] /\ UNCHANGED sentTo
    /\ lock' = Tail(lock)
    /\ UNCHANGED <<demand, instance, running, keyOf, dropped, readerVars>>

(* The answer, or a timeout                                                 *)
Returns(u) ==
    /\ At(u, "waits")
    /\ Answered(u) \/ ~OnItsWay(u)
    /\ Goes(u, "idle") /\ request' = [request EXCEPT ![u] = 0]
    /\ UNCHANGED <<demand, instance, ready, running, keyOf, lock, sentTo, dropped, readerVars>>

(* stop_server: the instance and its reader go first, then the server is     *)
(* asked to shut down; nobody reads its answer.                              *)
Stop(u) ==
    /\ Holds(u) /\ At(u, "stop")
    /\ IF Pid(u) = 0
       THEN /\ IF call[u].op = "restart"
               THEN Goes(u, "ensure") /\ lock' = Append(Tail(lock), u)
               ELSE Goes(u, "idle") /\ lock' = Tail(lock)
            /\ UNCHANGED <<instance, reading, request, sentTo>>
       ELSE /\ instance' = [instance EXCEPT ![Key(u)] = 0]
            /\ reading' = reading \ {Pid(u)}
            /\ Sends(u, Pid(u)) /\ Goes(u, "shuts") /\ UNCHANGED lock
    /\ UNCHANGED <<demand, ready, running, keyOf, output, seen, taken, unlucky, given, dropped>>

(* ... the wait for it over, the process is stopped.                         *)
Stopped(u) ==
    /\ At(u, "shuts")
    /\ running' = running \ {sentTo[request[u]]}
    /\ request' = [request EXCEPT ![u] = 0]
    /\ IF call[u].op = "restart"
       THEN Goes(u, "ensure") /\ lock' = Append(Tail(lock), u)
       ELSE Goes(u, "idle") /\ lock' = Tail(lock)
    /\ UNCHANGED <<demand, instance, ready, keyOf, sentTo, dropped, readerVars>>

Cancelled_HoldsLock(u) ==
    /\ "cancel" \in demand /\ call[u].stage \in {"init", "waits", "shuts", "ensure", "stop"}
    /\ dropped' = IF At(u, "shuts") THEN dropped \cup {sentTo[request[u]]} ELSE dropped
    /\ call' = [call EXCEPT ![u] = Idle] /\ request' = [request EXCEPT ![u] = 0]
    /\ UNCHANGED <<demand, instance, ready, running, keyOf, lock, sentTo, readerVars>>

(* The tool call is cancelled while it waits: what it did so far stays.      *)
Cancelled(u) ==
    /\ "cancel" \in demand /\ call[u].stage \in {"init", "waits", "shuts", "ensure", "stop"}
    /\ dropped' = IF At(u, "shuts") THEN dropped \cup {sentTo[request[u]]} ELSE dropped
    /\ lock' = SelectSeq(lock, LAMBDA v : v # u)
    /\ call' = [call EXCEPT ![u] = Idle] /\ request' = [request EXCEPT ![u] = 0]
    /\ UNCHANGED <<demand, instance, ready, running, keyOf, sentTo, readerVars>>

-----------------------------------------------------------------------------
(* Servers and their readers                                                *)

serverless == <<demand, instance, ready, keyOf, call, lock, request, sentTo, dropped>>

(* The server answers a request somebody waits for; a later answer finds no   *)
(* pending request and changes nothing.                                       *)
Answers(r) ==
    /\ r \in Range(request) /\ sentTo[r] \in running /\ r \notin Range(output[sentTo[r]])
    /\ output' = [output EXCEPT ![sentTo[r]] = Append(@, r)]
    /\ unlucky' = IF taken[sentTo[r]] >= 0 THEN unlucky \cup {r} ELSE unlucky
    /\ UNCHANGED <<serverless, running, reading, seen, taken, given>>

Dies(p) ==
    /\ "die" \in demand /\ p \in running
    /\ running' = running \ {p}
    /\ UNCHANGED <<serverless, readerVars>>

(* _handle_server_output: get_output since the last check ...                *)
Poll(p) ==
    /\ p \in reading /\ taken[p] < 0 /\ Len(output[p]) > seen[p]
    /\ taken' = [taken EXCEPT ![p] = Len(output[p])]
    /\ unlucky' = unlucky \cup
          {output[p][i] : i \in (seen[p] + 1)..(Len(output[p]) - Limit)}
    /\ UNCHANGED <<serverless, running, reading, output, seen, given>>

(* A poll may also find nothing, and be overtaken by an answer.              *)
PollEmpty(p) ==
    /\ p \in reading /\ taken[p] < 0 /\ Len(output[p]) = seen[p] /\ "busy" \in demand
    /\ taken' = [taken EXCEPT ![p] = Len(output[p])]
    /\ UNCHANGED <<serverless, running, reading, output, seen, unlucky, given>>

(* ... and last_check becomes the time after its messages were handled.      *)
Handle(p) ==
    /\ p \in reading /\ taken[p] >= 0
    /\ given' = given \cup
          {output[p][i] : i \in Max({seen[p] + 1, taken[p] - Limit + 1})..taken[p]}
    /\ seen' = [seen EXCEPT ![p] = Len(output[p])]
    /\ taken' = [taken EXCEPT ![p] = -1]
    /\ UNCHANGED <<serverless, running, reading, output, unlucky>>

-----------------------------------------------------------------------------
UserProceeds(u) ==
    \/ Found(u) \/ Start(u) \/ NoStart(u) \/ Initialized(u)
    \/ Returns(u) \/ Stop(u) \/ Stopped(u)

Reads(p) == Poll(p) \/ Handle(p)

LanguageNext ==
    \/ \E u \in Users : UserProceeds(u) \/ Cancelled(u)
    \/ \E p \in Pids : Reads(p) \/ Dies(p) \/ PollEmpty(p)
    \/ \E u \in Users, k \in Keys, op \in {"ask", "start", "stop", "restart"} : Ask(u, op, k)
    \/ \E r \in DOMAIN sentTo : Answers(r)

LanguageSpec ==
    /\ LanguageInit /\ [][LanguageNext]_languageVars
    /\ \A u \in Users : WF_languageVars(UserProceeds(u))
    /\ \A p \in Pids : WF_languageVars(Reads(p))

-----------------------------------------------------------------------------
LanguageTypeOK ==
    /\ \A k \in Keys : instance[k] \in 0..Started
    /\ ready \subseteq 1..Started /\ running \subseteq 1..Started
    /\ reading \subseteq {instance[k] : k \in Keys}
    /\ \A u \in Users : call[u].stage \in {"init", "shuts"} => Holds(u)

(* A server that runs is the one the table has for its workspace, or is being *)
(* shut down, or its shutdown was cancelled: there are never two for the      *)
(* users to reach, and none that nobody can stop.                             *)
OneServerEach ==
    \A p \in running \ dropped :
        \/ instance[keyOf[p]] = p
        \/ \E u \in Users : At(u, "shuts") /\ sentTo[request[u]] = p

(* Every call comes to an end, whatever the servers do.                      *)
CallsReturn == \A u \in Users : (call[u].stage # "idle") ~> (call[u].stage = "idle")

(* An answer a server wrote is handed on, unless it came between a poll and   *)
(* the end of its handling, was one of too many, or the reader was taken away.*)
AnswersArrive ==
    \A p \in Pids :
        LET under_way == IF p \in reading THEN Range(output[p]) \ (unlucky \cup given) ELSE {}
        IN  (under_way # {}) ~> (under_way = {})

(* A server the table has can be asked: false once it died, or once it was    *)
(* slow to initialize, since nobody ever takes it out of the table.           *)
KnownIsUsable == \A k \in Keys : instance[k] # 0 /\ ~(\E u \in Users : At(u, "init"))
                    => instance[k] \in ready \cap running

(* A server is given the time to answer the request to shut down: false, its  *)
(* reader has been cancelled.                                                 *)
ShutdownIsAnswered ==
    \A u \in Users : At(u, "shuts") => sentTo[request[u]] \in reading
=============================================================================
