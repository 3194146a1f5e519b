----------------------------- MODULE PluginHost -----------------------------
(* The registry of domain plugins (plugins/registry.py), the RPC service     *)
(* that offers their methods (plugins/rpc_service.py), and the sessions that *)
(* use domains: the service and the model's tools load and unload them, and  *)
(* opening a session loads what it lists.  All of it happens in one thread   *)
(* and awaits nothing in between but the saving of the session.              *)
(*                                                                           *)
(* A domain offers one method, by its own name: of the domains there are, only*)
(* the grocery's has methods, so no two have the same wire name.  The hooks    *)
(* are left out: no domain has an on_load, and the one on_unload there is, the *)
(* grocery's, catches what it raises.  No domain depends on itself by way of   *)
(* others.                                                                    *)
(***************************************************************************)
EXTENDS Integers, Sequences, SequencesExt, FiniteSets, Lists

CONSTANTS
    HostSessions,   \* sessions
    Catalogs,       \* sets of the domains there are in a behaviour
    MaxInstances    \* bound: domains made

VARIABLES
    catalog,        \* the domains there are
    loaded,         \* self._domains: the instance of each domain that is loaded
    toolOwner,      \* self._tool_to_domain
    rpcMethods,     \* _domain_methods of the RPC service
    instances,      \* instances made so far
    uses,           \* the sessions in memory: domains listed and tools enabled
    usesStored      \* and as stored

Domains == {"files", "charts", "reports", "rival"}

ASSUME HostAssumption == (\A c \in Catalogs : c \subseteq Domains) /\ MaxInstances \in Nat

hostVars == <<catalog, loaded, toolOwner, rpcMethods, instances, uses, usesStored>>

-----------------------------------------------------------------------------
(* Domains: "rival" has a tool of the same name as "charts", after one of    *)
(* its own; "reports" depends on "charts", that on "files".                  *)

ToolsOf(d) == CASE d = "files" -> <<"copy">> [] d = "charts" -> <<"plot">>
                [] d = "reports" -> <<"report">> [] d = "rival" -> <<"sketch", "plot">>
DependsOn(d) == CASE d = "reports" -> <<"charts">> [] d = "charts" -> <<"files">>
                  [] OTHER -> <<>>

Registry == [loaded |-> loaded, tools |-> toolOwner, rpc |-> rpcMethods, made |-> instances,
             ok |-> TRUE]

(* Mutant of RegisterTools: a tool that is there already is taken over.      *)
RegisterTools_TakesOver(r, d) ==
    [r EXCEPT !.tools = Backed([t \in ToSet(ToolsOf(d)) |-> d], @)]

(* The tools are entered one by one until one of them is there already.      *)
RegisterTools(r, d) ==
    LET tools == ToolsOf(d)
        before(i) == \A j \in 1..i : tools[j] \notin DOMAIN r.tools
        entered == {tools[i] : i \in {i \in DOMAIN tools : before(i)}}
    IN  [r EXCEPT !.tools = Backed(@, [t \in entered |-> d]), !.ok = before(Len(tools))]

(* One domain, once its dependencies are there: tools, then the domain, then *)
(* its methods.  An error, such as a module that is not there, ends the whole*)
(* load; what was done stays.                                                *)
LoadOne(r, d) ==
    IF ~r.ok \/ d \in DOMAIN r.loaded THEN r
    ELSE IF d \notin catalog THEN [r EXCEPT !.ok = FALSE]
    ELSE LET made == RegisterTools([r EXCEPT !.made = @ + 1], d)
         IN  IF ~made.ok \/ \E i \in DOMAIN DependsOn(d) : DependsOn(d)[i] \notin DOMAIN r.loaded
             THEN [made EXCEPT !.ok = FALSE]
             ELSE [made EXCEPT !.loaded = Entered(@, d, made.made),
                                  !.rpc = Entered(@, d, made.made)]

(* The domains to load for d, those it depends on first.                     *)
Chain(d) ==
    LET needs == DependsOn(d)
    IN  (IF needs = <<>> THEN <<>> ELSE DependsOn(needs[1])) \o needs \o <<d>>

LoadEach(r, chain) ==
    LET after[n \in 0..Len(chain)] ==
            IF n = 0 THEN r ELSE LoadOne(after[n - 1], chain[n])
    IN  after[Len(chain)]

(* load_domain of the registry: an error if it is loaded.                    *)
Load(r, d) ==
    IF d \in DOMAIN r.loaded \/ d \notin catalog THEN [r EXCEPT !.ok = FALSE]
    ELSE LoadEach(r, Chain(d))

Needed(r, d) == \E e \in DOMAIN r.loaded : d \in ToSet(DependsOn(e))

(* Mutant of Unload: whether others need it is not looked at.                *)
Unload_Needed(r, d) ==
    IF d \notin DOMAIN r.loaded THEN [r EXCEPT !.ok = FALSE]
    ELSE [r EXCEPT !.loaded = [e \in DOMAIN @ \ {d} |-> @[e]],
                   !.tools = [t \in DOMAIN @ \ ToSet(ToolsOf(d)) |-> @[t]],
                   !.rpc = [e \in DOMAIN @ \ {d} |-> @[e]]]

(* Mutant of Unload: the methods stay.                                       *)
Unload_MethodsStay(r, d) ==
    IF d \notin DOMAIN r.loaded \/ Needed(r, d) THEN [r EXCEPT !.ok = FALSE]
    ELSE [r EXCEPT !.loaded = [e \in DOMAIN @ \ {d} |-> @[e]],
                   !.tools = [t \in DOMAIN @ \ ToSet(ToolsOf(d)) |-> @[t]]]

(* unload_domain of the registry: an error if it is not loaded, or needed.   *)
Unload(r, d) ==
    IF d \notin DOMAIN r.loaded \/ Needed(r, d) THEN [r EXCEPT !.ok = FALSE]
    ELSE [r EXCEPT !.loaded = [e \in DOMAIN @ \ {d} |-> @[e]],
                   !.tools = [t \in DOMAIN @ \ ToSet(ToolsOf(d)) |-> @[t]],
                   !.rpc = [e \in DOMAIN @ \ {d} |-> @[e]]]

(* reload_domain: a domain that is not loaded is just loaded.                *)
Reload(r, d) ==
    LET out == IF d \in DOMAIN r.loaded THEN Unload(r, d) ELSE r
    IN  IF out.ok THEN Load(out, d) ELSE out

Becomes(r) ==
    /\ r.made <= MaxInstances
    /\ loaded' = r.loaded /\ toolOwner' = r.tools /\ rpcMethods' = r.rpc /\ instances' = r.made
    /\ UNCHANGED catalog

-----------------------------------------------------------------------------
(* Sessions                                                                  *)

NoUse == [open |-> FALSE, domains |-> {}, tools |-> {}]

HostInit ==
    /\ catalog \in Catalogs
    /\ loaded = <<>> /\ toolOwner = <<>> /\ rpcMethods = <<>> /\ instances = 0
    /\ uses = [s \in HostSessions |-> NoUse]
    /\ usesStored = [s \in HostSessions |-> NoUse]

(* A session that is not in memory is loaded before it is changed.           *)
Opened(s) == IF uses[s].open THEN uses[s] ELSE [usesStored[s] EXCEPT !.open = TRUE]

Stores(s, use) ==
    /\ uses' = [uses EXCEPT ![s] = use]
    /\ usesStored' = [usesStored EXCEPT ![s] = [use EXCEPT !.open = FALSE]]

(* load_domain of the service, for a session: where the registry raises, as  *)
(* it does for a domain that is loaded, the session is left as it was.       *)
ServiceLoad(s, d) ==
    LET r == Load(Registry, d)
    IN  /\ Becomes(r)
        /\ IF r.ok
           THEN Stores(s, [Opened(s) EXCEPT !.domains = @ \cup {d},
                                            !.tools = @ \cup ToSet(ToolsOf(d))])
           ELSE UNCHANGED <<uses, usesStored>>

ServiceUnload(s, d) ==
    LET r == Unload(Registry, d)
    IN  /\ Becomes(r)
        /\ IF r.ok
           THEN Stores(s, [Opened(s) EXCEPT !.domains = @ \ {d},
                                            !.tools = @ \ ToSet(ToolsOf(d))])
           ELSE UNCHANGED <<uses, usesStored>>

(* The model's tool load_domain: the session lists the domain, and is saved  *)
(* by and by.                                                                *)
ToolLoad(s, d) ==
    /\ uses[s].open /\ d \in catalog
    /\ LET r == IF d \in DOMAIN loaded THEN Registry ELSE Load(Registry, d)
       IN  /\ Becomes(r)
           /\ uses' = IF r.ok THEN [uses EXCEPT ![s].domains = @ \cup {d}] ELSE uses
    /\ UNCHANGED usesStored

ToolUnload(s, d) ==
    /\ uses[s].open
    /\ LET r == Unload(Registry, d)
       IN  /\ Becomes(r)
           /\ uses' = IF r.ok THEN [uses EXCEPT ![s].domains = @ \ {d}] ELSE uses
    /\ UNCHANGED usesStored

(* reload_domain of the session data service.                                *)
ServiceReload(d) ==
    /\ Becomes(Reload(Registry, d))
    /\ UNCHANGED <<uses, usesStored>>

(* request_domain_state loads the domain it is asked for.                    *)
RequestState(s, d) ==
    /\ uses[s].open /\ d \notin DOMAIN loaded
    /\ Becomes(Load(Registry, d))
    /\ UNCHANGED <<uses, usesStored>>

(* switch_session, then _ensure_session_domains_loaded: what is listed and   *)
(* not loaded, in some order; errors are passed over.                        *)
Ensure(r, d) == [(IF d \in catalog THEN Load(r, d) ELSE r) EXCEPT !.ok = TRUE]

EnsureEach(r, order) ==
    LET after[n \in 0..Len(order)] ==
            IF n = 0 THEN r ELSE Ensure(after[n - 1], order[n])
    IN  after[Len(order)]

SwitchTo(s) ==
    /\ uses' = [uses EXCEPT ![s] = Opened(s)]
    /\ \E order \in SetToSeqs(Opened(s).domains \ DOMAIN loaded) :
          Becomes(EnsureEach(Registry, order))
    /\ UNCHANGED usesStored

(* The session is saved, at the end of a turn for instance.                  *)
SaveUse(s) ==
    /\ uses[s].open
    /\ Stores(s, uses[s])
    /\ UNCHANGED <<catalog, loaded, toolOwner, rpcMethods, instances>>

HostRestart ==
    /\ loaded' = <<>> /\ toolOwner' = <<>> /\ rpcMethods' = <<>>
    /\ uses' = [s \in HostSessions |-> NoUse]
    /\ UNCHANGED <<catalog, instances, usesStored>>

HostNext ==
    \/ \E s \in HostSessions, d \in catalog :
          \/ ServiceLoad(s, d) \/ ServiceUnload(s, d) \/ ToolLoad(s, d) \/ ToolUnload(s, d)
          \/ RequestState(s, d)
    \/ \E d \in catalog : ServiceReload(d)
    \/ \E s \in HostSessions : SwitchTo(s) \/ SaveUse(s)
    \/ HostRestart

HostSpec == HostInit /\ [][HostNext]_hostVars

-----------------------------------------------------------------------------
(* Properties                                                                *)

HostTypeOK ==
    /\ DOMAIN loaded \subseteq catalog
    /\ \A d \in DOMAIN loaded : loaded[d] \in 1..instances
    /\ \A t \in DOMAIN toolOwner : toolOwner[t] \in catalog
    /\ \A s \in HostSessions : uses[s].domains \cup usesStored[s].domains \subseteq catalog

(* What a domain depends on is loaded as long as the domain is.              *)
DependenciesLoaded == \A d \in DOMAIN loaded : ToSet(DependsOn(d)) \subseteq DOMAIN loaded

(* The methods that are offered are those of the domains that are loaded,    *)
(* and of the very instances, however often they were reloaded.              *)
RpcIsCurrent == rpcMethods = loaded

(* Each tool of a domain that is loaded is run by that domain, whatever was  *)
(* tried and failed before.                                                  *)
ToolsAreOwned ==
    \A d \in DOMAIN loaded : \A t \in ToSet(ToolsOf(d)) :
        t \in DOMAIN toolOwner /\ toolOwner[t] = d

(* Registry, tool table and RPC methods are three tables of one thing: they  *)
(* offer what is loaded, by the instances that are loaded, with all that     *)
(* they need.                                                                *)
OffersAreLoaded == DependenciesLoaded /\ RpcIsCurrent /\ ToolsAreOwned

(* A tool the registry routes is one of a domain that is loaded (refuted: a  *)
(* load that fails leaves the tools it has entered).                         *)
OwnersAreLoaded == \A t \in DOMAIN toolOwner : toolOwner[t] \in DOMAIN loaded

(* "Its tools are now available" (core/domain_tools.py:155): a session that  *)
(* lists a domain that is loaded has its tools (refuted: the model's tool    *)
(* enables none).                                                            *)
ListedIsEnabled ==
    \A s \in HostSessions : \A d \in uses[s].domains \cap DOMAIN loaded :
        ToSet(ToolsOf(d)) \subseteq uses[s].tools

(* And it is loaded while the session is open (refuted: other sessions       *)
(* unload it).                                                               *)
ListedIsLoaded == \A s \in HostSessions : uses[s].open => uses[s].domains \subseteq DOMAIN loaded
=============================================================================
