---------------------------- MODULE Services_proofs ----------------------------
(***************************************************************************)
(* Proofs about the services apart from the sessions: language servers for *)
(* any number of servers, users and requests, whatever dies, is cancelled   *)
(* or answers late; the supervisor's configuration for any hosts, edits and *)
(* checks; the table of browsers for any names and any number of browsers;  *)
(* what watchers are told, for any watchers, exchanges and failures.        *)
(***************************************************************************)
EXTENDS Supervisor, LanguageServers, Browsers, Watchers, Lists_proofs,
        FiniteSetTheorems, TLAPS

-----------------------------------------------------------------------------
(* Language servers                                                          *)

Ops == {"none", "ask", "start", "stop", "restart"}
Stages == {"idle", "ensure", "init", "waits", "stop", "shuts"}
Calls == [op : Ops, key : Keys \cup {Idle.key}, stage : Stages]

LanguageTypes ==
    /\ keyOf \in Seq(Keys)
    /\ instance \in [Keys -> Nat]
    /\ running \subseteq 1..Len(keyOf)
    /\ sentTo \in Seq(Nat)
    /\ request \in [Users -> Nat]
    /\ call \in [Users -> Calls]
    /\ \A u \in Users : At(u, "idle") \/ Key(u) \in Keys

(* Who shuts a server down waits for a request that was sent.                *)
ShutdownInv == \A u \in Users : At(u, "shuts") => request[u] \in 1..Len(sentTo)

LanguageInv == LanguageTypes /\ ShutdownInv /\ OneServerEach

-----------------------------------------------------------------------------
(* What the parts of a call do                                              *)

LEMMA CountedIsNat ==
    ASSUME NEW n \in Nat, NEW some, some \subseteq 1..n, NEW x \in some PROVE x \in Nat
<1>1. x \in 1..n
      OBVIOUS
<1> QED
      BY <1>1

LEMMA CountedOn ==
    ASSUME NEW n \in Nat, NEW some, some \subseteq 1..n
    PROVE  some \cup {n + 1} \subseteq 1..(n + 1)
<1>1. ASSUME NEW x \in some PROVE x \in 1..(n + 1)
  <2>1. x \in 1..n
        OBVIOUS
  <2> QED
        BY <2>1
<1> QED
      BY <1>1

LEMMA GoesTyped ==
    ASSUME LanguageTypes, NEW u \in Users, NEW to \in Stages, Goes(u, to)
    PROVE  /\ call' \in [Users -> Calls]
           /\ call'[u].stage = to /\ call'[u].key = call[u].key
           /\ \A v \in Users \ {u} : call'[v] = call[v]
BY DEF LanguageTypes, Goes, Calls

(* A request that was sent leaves the older ones as they are.                *)
LEMMA SendsTyped ==
    ASSUME LanguageTypes, NEW u \in Users, NEW p \in Nat, Sends(u, p)
    PROVE  /\ sentTo' \in Seq(Nat) /\ request' \in [Users -> Nat]
           /\ request'[u] \in 1..Len(sentTo') /\ sentTo'[request'[u]] = p
           /\ \A v \in Users \ {u} : request'[v] = request[v]
           /\ \A r \in 1..Len(sentTo) : r \in 1..Len(sentTo') /\ sentTo'[r] = sentTo[r]
BY DEF LanguageTypes, Sends

(* What stays as it was needs no more than the others' calls.                *)
LEMMA OthersStay ==
    ASSUME LanguageInv, NEW u \in Users, ~At(u, "shuts"), call'[u].stage # "shuts",
           \A v \in Users \ {u} : call'[v] = call[v] /\ request'[v] = request[v],
           \A r \in 1..Len(sentTo) : r \in 1..Len(sentTo') /\ sentTo'[r] = sentTo[r]
    PROVE  /\ ShutdownInv'
           /\ \A p : (\E v \in Users : At(v, "shuts") /\ sentTo[request[v]] = p)
                       => \E v \in Users : At(v, "shuts")' /\ sentTo'[request'[v]] = p
BY DEF LanguageInv, ShutdownInv, At

LEMMA SendStays ==
    ASSUME LanguageInv, NEW u \in Users, ~At(u, "shuts"), NEW p \in Nat, Sends(u, p),
           NEW to \in Stages \ {"shuts"}, Goes(u, to)
    PROVE  /\ ShutdownInv'
           /\ \A q : (\E v \in Users : At(v, "shuts") /\ sentTo[request[v]] = q)
                       => \E v \in Users : At(v, "shuts")' /\ sentTo'[request'[v]] = q
<1>1. LanguageTypes
      BY DEF LanguageInv
<1>2. call'[u].stage # "shuts" /\ \A v \in Users \ {u} : call'[v] = call[v]
      BY <1>1, GoesTyped
<1>3. /\ \A v \in Users \ {u} : request'[v] = request[v]
      /\ \A r \in 1..Len(sentTo) : r \in 1..Len(sentTo') /\ sentTo'[r] = sentTo[r]
      BY <1>1, SendsTyped
<1> QED
      BY <1>2, <1>3, OthersStay

LEMMA IdleTyped == Idle \in Calls /\ Idle.stage = "idle"
<1>1. Idle = [op |-> "none", key |-> Idle.key, stage |-> "idle"]
      BY DEF Idle
<1> QED
      BY <1>1 DEF Calls, Ops, Stages

LEMMA LanguageInitially == LanguageInit => LanguageInv
      BY IdleTyped DEF LanguageInit, LanguageInv, LanguageTypes, ShutdownInv, OneServerEach, At, Key

LEMMA LanguageSteps == LanguageInv /\ [LanguageNext]_languageVars => LanguageInv'
<1> SUFFICES ASSUME LanguageInv, [LanguageNext]_languageVars PROVE LanguageInv'
    OBVIOUS
<1>1. ASSUME NEW u \in Users, Found(u) PROVE LanguageInv'
  <2>0. ~At(u, "shuts") /\ Key(u) \in Keys /\ Pid(u) \in Nat
        BY <1>1 DEF Found, At, Key, Pid, LanguageInv, LanguageTypes
  <2>1. CASE Sends(u, Pid(u)) /\ Goes(u, "waits")
    <3>1. LanguageTypes'
          BY <1>1, <2>0, <2>1, GoesTyped, SendsTyped DEF Stages, Found, LanguageInv, LanguageTypes, At, Key
    <3>2. ShutdownInv' /\ OneServerEach'
      <4>1. UNCHANGED <<instance, running, keyOf, dropped>>
            BY <1>1 DEF Found
      <4> QED
            BY <2>0, <2>1, <4>1, SendStays DEF Stages, LanguageInv, OneServerEach
    <3> QED
          BY <3>1, <3>2 DEF LanguageInv
  <2>2. CASE Goes(u, "idle") /\ UNCHANGED <<request, sentTo>>
    <3>1. LanguageTypes'
          BY <1>1, <2>0, <2>2, GoesTyped DEF Stages, Found, LanguageInv, LanguageTypes, At, Key
    <3>2. ShutdownInv' /\ OneServerEach'
          BY <1>1, <2>0, <2>2, GoesTyped, OthersStay
             DEF Stages, Found, LanguageInv, OneServerEach, LanguageTypes
    <3> QED
          BY <3>1, <3>2 DEF LanguageInv
  <2> QED
        BY <1>1, <2>1, <2>2 DEF Found, Uses
<1>2. ASSUME NEW u \in Users, Start(u) PROVE LanguageInv'
  <2>0. ~At(u, "shuts") /\ Key(u) \in Keys /\ instance[Key(u)] = 0
        BY <1>2 DEF Start, At, Key, Pid, LanguageInv, LanguageTypes
  <2>1. /\ keyOf' \in Seq(Keys) /\ Len(keyOf') = Len(keyOf) + 1
        /\ \A p \in 1..Len(keyOf) : keyOf'[p] = keyOf[p]
        /\ keyOf'[Len(keyOf) + 1] = Key(u)
        BY <1>2, <2>0 DEF Start, LanguageInv, LanguageTypes
  <2>2. /\ Sends(u, Len(keyOf) + 1) /\ Goes(u, "init")
        /\ instance' = [instance EXCEPT ![Key(u)] = Len(keyOf) + 1]
        /\ running' = running \cup {Len(keyOf) + 1} /\ UNCHANGED dropped
        BY <1>2 DEF Start, Started
  <2>3. LanguageTypes'
    <3>1. Len(keyOf) \in Nat /\ LanguageTypes
          BY DEF LanguageInv, LanguageTypes
    <3>2. /\ call' \in [Users -> Calls] /\ sentTo' \in Seq(Nat) /\ request' \in [Users -> Nat]
          /\ call'[u].key = call[u].key /\ \A v \in Users \ {u} : call'[v] = call[v]
          BY <2>2, <3>1, GoesTyped, SendsTyped DEF Stages
    <3>3. running' \subseteq 1..Len(keyOf')
      <4>1. PICK n \in Nat : n = Len(keyOf)
            BY <3>1
      <4>2. Len(keyOf') = n + 1 /\ running' = running \cup {n + 1}
            BY <2>1, <2>2, <4>1
      <4>3. running \subseteq 1..n
            BY <3>1, <4>1 DEF LanguageTypes
      <4>4. running \cup {n + 1} \subseteq 1..(n + 1)
            BY <4>3, CountedOn
      <4> QED
            BY <4>2, <4>4
    <3>4. instance' \in [Keys -> Nat]
      <4>1. PICK n \in Nat : n = Len(keyOf) + 1
            BY <3>1
      <4>2. instance' = [instance EXCEPT ![Key(u)] = n] /\ instance \in [Keys -> Nat]
            BY <2>2, <3>1, <4>1 DEF LanguageTypes
      <4> QED
            BY <4>2
    <3> QED
          BY <2>0, <2>1, <3>1, <3>2, <3>3, <3>4 DEF LanguageTypes, At, Key
  <2>4. ShutdownInv' /\ OneServerEach'
    <3>1. Len(keyOf) \in Nat /\ running \subseteq 1..Len(keyOf) /\ instance \in [Keys -> Nat]
          BY DEF LanguageInv, LanguageTypes
    <3>2. /\ ShutdownInv'
          /\ \A q : (\E v \in Users : At(v, "shuts") /\ sentTo[request[v]] = q)
                      => \E v \in Users : At(v, "shuts")' /\ sentTo'[request'[v]] = q
          BY <2>0, <2>2, <3>1, SendStays DEF Stages
    <3>3. ASSUME NEW p \in running \ dropped, instance[keyOf[p]] = p
          PROVE  instance'[keyOf'[p]] = p
          BY <2>0, <2>1, <2>2, <3>1, <3>3
    <3>4. instance'[keyOf'[Len(keyOf) + 1]] = Len(keyOf) + 1
          BY <2>0, <2>1, <2>2, <3>1
    <3> QED
          BY <2>2, <3>2, <3>3, <3>4 DEF LanguageInv, OneServerEach
  <2> QED
        BY <2>3, <2>4 DEF LanguageInv
<1>3. ASSUME NEW u \in Users, NoStart(u) PROVE LanguageInv'
  <2>0. ~At(u, "shuts")
        BY <1>3 DEF NoStart, At
  <2>1. LanguageTypes'
        BY <1>3, GoesTyped DEF Stages, NoStart, LanguageInv, LanguageTypes, At, Key
  <2>2. ShutdownInv' /\ OneServerEach'
        BY <1>3, <2>0, GoesTyped, OthersStay DEF Stages, NoStart, LanguageInv, OneServerEach, LanguageTypes
  <2> QED
        BY <2>1, <2>2 DEF LanguageInv
<1>4. ASSUME NEW u \in Users, Initialized(u) PROVE LanguageInv'
  <2>0. ~At(u, "shuts") /\ Key(u) \in Keys /\ UNCHANGED <<instance, running, keyOf, dropped>>
        BY <1>4 DEF Initialized, At, Key, LanguageInv, LanguageTypes
  <2>1. CASE Sends(u, sentTo[request[u]]) /\ Goes(u, "waits") /\ sentTo[request[u]] \in running
    <3>0. sentTo[request[u]] \in Nat
      <4>1. running \subseteq 1..Len(keyOf) /\ Len(keyOf) \in Nat
            BY DEF LanguageInv, LanguageTypes
      <4>2. sentTo[request[u]] \in running
            BY <2>1
      <4> QED
            BY <4>1, <4>2, CountedIsNat
    <3>1. LanguageTypes'
          BY <2>0, <2>1, <3>0, GoesTyped, SendsTyped DEF Stages, LanguageInv, LanguageTypes, At, Key
    <3>2. ShutdownInv' /\ OneServerEach'
          BY <2>0, <2>1, <3>0, SendStays DEF Stages, LanguageInv, OneServerEach
    <3> QED
          BY <3>1, <3>2 DEF LanguageInv
  <2>2. CASE Goes(u, "idle") /\ request' = [request EXCEPT ![u] = 0] /\ UNCHANGED sentTo
    <3>1. LanguageTypes'
          BY <2>0, <2>2, GoesTyped DEF Stages, LanguageInv, LanguageTypes, At, Key
    <3>2. ShutdownInv' /\ OneServerEach'
          BY <2>0, <2>2, GoesTyped, OthersStay DEF Stages, LanguageInv, OneServerEach, LanguageTypes
    <3> QED
          BY <3>1, <3>2 DEF LanguageInv
  <2> QED
        BY <1>4, <2>1, <2>2 DEF Initialized
<1>5. ASSUME NEW u \in Users, Returns(u) PROVE LanguageInv'
  <2>0. ~At(u, "shuts")
        BY <1>5 DEF Returns, At
  <2>1. LanguageTypes'
        BY <1>5, GoesTyped DEF Stages, Returns, LanguageInv, LanguageTypes, At, Key
  <2>2. ShutdownInv' /\ OneServerEach'
        BY <1>5, <2>0, GoesTyped, OthersStay DEF Stages, Returns, LanguageInv, OneServerEach, LanguageTypes
  <2> QED
        BY <2>1, <2>2 DEF LanguageInv
<1>6. ASSUME NEW u \in Users, Stop(u) PROVE LanguageInv'
  <2>0. ~At(u, "shuts") /\ Key(u) \in Keys /\ UNCHANGED <<running, keyOf, dropped>>
        BY <1>6 DEF Stop, At, Key, LanguageInv, LanguageTypes
  <2>1. ASSUME NEW to \in {"ensure", "idle"}, Goes(u, to), UNCHANGED <<instance, request, sentTo>>
        PROVE  LanguageInv'
    <3>1. LanguageTypes'
          BY <2>0, <2>1, GoesTyped DEF Stages, LanguageInv, LanguageTypes, At, Key
    <3>2. ShutdownInv' /\ OneServerEach'
      <4>1. LanguageTypes /\ to \in Stages /\ to # "shuts"
            BY <2>1 DEF Stages, LanguageInv
      <4>2. call'[u].stage = to /\ \A v \in Users \ {u} : call'[v] = call[v]
            BY <2>1, <4>1, GoesTyped
      <4>3. /\ \A v \in Users \ {u} : call'[v] = call[v] /\ request'[v] = request[v]
            /\ \A r \in 1..Len(sentTo) : r \in 1..Len(sentTo') /\ sentTo'[r] = sentTo[r]
            BY <2>1, <4>2
      <4>4. /\ ShutdownInv'
            /\ \A p : (\E v \in Users : At(v, "shuts") /\ sentTo[request[v]] = p)
                         => \E v \in Users : At(v, "shuts")' /\ sentTo'[request'[v]] = p
            BY <2>0, <4>1, <4>2, <4>3, OthersStay
      <4> QED
            BY <2>0, <2>1, <4>4 DEF LanguageInv, OneServerEach
    <3> QED
          BY <3>1, <3>2 DEF LanguageInv
  <2>2. CASE Pid(u) # 0
    <3>0. /\ instance' = [instance EXCEPT ![Key(u)] = 0] /\ Sends(u, Pid(u)) /\ Goes(u, "shuts")
          /\ Pid(u) = instance[Key(u)] /\ Pid(u) \in Nat
          BY <1>6, <2>0, <2>2 DEF Stop, Pid, LanguageInv, LanguageTypes
    <3>1. LanguageTypes'
      <4>1. LanguageTypes /\ "shuts" \in Stages
            BY DEF Stages, LanguageInv
      <4>2. /\ call' \in [Users -> Calls] /\ call'[u].key = call[u].key
            /\ \A v \in Users \ {u} : call'[v] = call[v]
            BY <3>0, <4>1, GoesTyped
      <4>3. sentTo' \in Seq(Nat) /\ request' \in [Users -> Nat]
            BY <3>0, <4>1, SendsTyped
      <4>4. instance' \in [Keys -> Nat]
            BY <3>0, <4>1 DEF LanguageTypes
      <4>5. ASSUME NEW v \in Users PROVE At(v, "idle")' \/ Key(v)' \in Keys
            BY <2>0, <4>1, <4>2 DEF LanguageTypes, At, Key
      <4> QED
            BY <2>0, <4>1, <4>2, <4>3, <4>4, <4>5 DEF LanguageTypes
    <3>2. ShutdownInv'
          BY <2>0, <3>0, GoesTyped, SendsTyped DEF Stages, LanguageInv, ShutdownInv, At
    <3>3. OneServerEach'
      <4> SUFFICES ASSUME NEW p \in running \ dropped
                   PROVE  \/ instance'[keyOf[p]] = p
                          \/ \E v \in Users : At(v, "shuts")' /\ sentTo'[request'[v]] = p
          BY <2>0 DEF OneServerEach
      <4>1. CASE p = Pid(u)
            BY <3>0, <4>1, GoesTyped, SendsTyped DEF Stages, LanguageInv, At
      <4>2. CASE p # Pid(u) /\ instance[keyOf[p]] = p
            BY <2>0, <3>0, <4>2 DEF LanguageInv, LanguageTypes
      <4>3. ASSUME NEW v \in Users, At(v, "shuts"), sentTo[request[v]] = p
            PROVE  At(v, "shuts")' /\ sentTo'[request'[v]] = p
            BY <2>0, <3>0, <4>3, GoesTyped, SendsTyped DEF Stages, LanguageInv, ShutdownInv, At
      <4> QED
            BY <4>1, <4>2, <4>3 DEF LanguageInv, OneServerEach
    <3> QED
          BY <3>1, <3>2, <3>3 DEF LanguageInv
  <2> QED
        BY <1>6, <2>1, <2>2 DEF Stop
<1>7. ASSUME NEW u \in Users, Stopped(u) PROVE LanguageInv'
  <2>0. PICK to \in {"ensure", "idle"} :
            /\ Goes(u, to) /\ running' = running \ {sentTo[request[u]]}
            /\ request' = [request EXCEPT ![u] = 0] /\ UNCHANGED <<instance, keyOf, sentTo, dropped>>
        BY <1>7 DEF Stopped
  <2>1. At(u, "shuts")
        BY <1>7 DEF Stopped
  <2>2. LanguageTypes'
        BY <2>0, <2>1, GoesTyped DEF Stages, LanguageInv, LanguageTypes, At, Key
  <2>3. ShutdownInv'
        BY <2>0, <2>1, GoesTyped DEF Stages, LanguageInv, LanguageTypes, ShutdownInv, At
  <2>4. OneServerEach'
    <3> SUFFICES ASSUME NEW p \in running \ dropped, p # sentTo[request[u]]
                 PROVE  \/ instance[keyOf[p]] = p
                        \/ \E v \in Users : At(v, "shuts")' /\ sentTo[request'[v]] = p
        BY <2>0 DEF OneServerEach
    <3>1. ASSUME NEW v \in Users, At(v, "shuts"), sentTo[request[v]] = p
          PROVE  At(v, "shuts")' /\ sentTo[request'[v]] = p
          BY <2>0, <3>1, GoesTyped DEF Stages, LanguageInv, LanguageTypes, At
    <3> QED
          BY <3>1 DEF LanguageInv, OneServerEach
  <2> QED
        BY <2>2, <2>3, <2>4 DEF LanguageInv
<1>8. ASSUME NEW u \in Users, Cancelled(u) PROVE LanguageInv'
  <2>0. /\ call' = [call EXCEPT ![u] = Idle] /\ request' = [request EXCEPT ![u] = 0]
        /\ dropped' = IF At(u, "shuts") THEN dropped \cup {sentTo[request[u]]} ELSE dropped
        /\ UNCHANGED <<instance, running, keyOf, sentTo>>
        BY <1>8 DEF Cancelled
  <2>1. LanguageTypes'
        BY <2>0, IdleTyped DEF LanguageInv, LanguageTypes, At, Key
  <2>2. ShutdownInv'
        BY <2>0, IdleTyped DEF LanguageInv, LanguageTypes, ShutdownInv, At
  <2>3. OneServerEach'
    <3> SUFFICES ASSUME NEW p \in running \ dropped'
                 PROVE  \/ instance[keyOf[p]] = p
                        \/ \E v \in Users : At(v, "shuts")' /\ sentTo[request'[v]] = p
        BY <2>0 DEF OneServerEach
    <3>1. ASSUME NEW v \in Users, At(v, "shuts"), sentTo[request[v]] = p
          PROVE  At(v, "shuts")' /\ sentTo[request'[v]] = p
          BY <2>0, <3>1, IdleTyped DEF LanguageInv, LanguageTypes, At
    <3>2. p \in running \ dropped
          BY <2>0
    <3> QED
          BY <3>1, <3>2 DEF LanguageInv, OneServerEach
  <2> QED
        BY <2>1, <2>2, <2>3 DEF LanguageInv
<1>9. ASSUME NEW u \in Users, NEW k \in Keys, NEW op \in {"ask", "start", "stop", "restart"}, Ask(u, op, k)
      PROVE  LanguageInv'
  <2>0. PICK to \in {"ensure", "stop"} :
            /\ call' = [call EXCEPT ![u] = [op |-> op, key |-> k, stage |-> to]]
            /\ At(u, "idle") /\ UNCHANGED <<instance, running, keyOf, request, sentTo, dropped>>
        BY <1>9 DEF Ask
  <2>1. LanguageTypes'
        BY <2>0 DEF LanguageInv, LanguageTypes, Calls, Ops, Stages, At, Key
  <2>2. /\ ~At(u, "shuts") /\ call'[u].stage # "shuts"
        /\ \A v \in Users \ {u} : call'[v] = call[v]
        BY <2>0 DEF LanguageInv, LanguageTypes, At
  <2>3. ShutdownInv' /\ OneServerEach'
        BY <2>0, <2>2, OthersStay DEF LanguageInv, OneServerEach, LanguageTypes
  <2> QED
        BY <2>1, <2>3 DEF LanguageInv
<1>10. ASSUME NEW p \in Pids, Dies(p) PROVE LanguageInv'
      BY <1>10 DEF Dies, serverless, LanguageInv, LanguageTypes, ShutdownInv, OneServerEach, At, Key
<1>11. ASSUME UNCHANGED <<serverless, running>> PROVE LanguageInv'
      BY <1>11 DEF LanguageInv, LanguageTypes, ShutdownInv, OneServerEach, At, Key, serverless
<1>12. CASE UNCHANGED languageVars
      BY <1>11, <1>12 DEF languageVars, serverless
<1> QED
      BY <1>1, <1>2, <1>3, <1>4, <1>5, <1>6, <1>7, <1>8, <1>9, <1>10, <1>11, <1>12
         DEF LanguageNext, UserProceeds, Reads, Poll, PollEmpty, Handle, Answers

(* However often servers are started, stopped, restarted and cancelled, by   *)
(* any number of users: a server that runs is the one of its entry in the    *)
(* table, or is being shut down, or its shutdown was cancelled.              *)
THEOREM OneServerEachCorrect == LanguageSpec => []OneServerEach
<1>1. LanguageInv => OneServerEach
      BY DEF LanguageInv
<1> QED
      BY LanguageInitially, LanguageSteps, <1>1, PTL DEF LanguageSpec

-----------------------------------------------------------------------------
(* The supervisor's configuration                                             *)

(* Tables by host, by backend; a configuration, and what its file holds.     *)
HostTable(f) == DOMAIN f \subseteq Hosts /\ f \in [DOMAIN f -> Nat]
Mapping(f) == DOMAIN f \subseteq Backends /\ f \in [DOMAIN f -> Hosts]
IsConfig(c) ==
    /\ c \in [hosts : {c.hosts}, mapping : {c.mapping}, lsp : {c.lsp}]
    /\ HostTable(c.hosts) /\ Mapping(c.mapping)
IsFile(f) ==
    /\ f \in [there : {f.there}, hosts : {f.hosts}, mapping : {f.mapping}, lsp : {f.lsp}]
    /\ HostTable(f.hosts) /\ Mapping(f.mapping)

ConfigTypes ==
    /\ IsConfig(config) /\ IsFile(file)
    /\ HostTable(cache)
    /\ checks \in Seq([host : Hosts, with : Nat])
    /\ edits \in Nat /\ saved \in BOOLEAN

(* The configuration a check goes by is the present one, unless its host was *)
(* edited meanwhile.                                                         *)
ChecksCurrent ==
    \A i \in DOMAIN checks : checks[i].host \notin raced =>
        /\ checks[i].host \in DOMAIN config.hosts
        /\ checks[i].with = config.hosts[checks[i].host]

(* What the mappings of c name; given up are the names in "old".             *)
Named(c, old) ==
    \A b \in DOMAIN c.mapping : c.mapping[b] \in DOMAIN c.hosts \cup old

StatusInv == ChecksCurrent /\ StatusIsCurrent
FileInv == ConfigSurvives /\ Named(config, renamed) /\ Named(file, renamed)
ConfigInv == ConfigTypes /\ StatusInv /\ FileInv

-----------------------------------------------------------------------------
LEMMA AppendAt ==
    ASSUME NEW S, NEW s \in Seq(S), NEW x \in S
    PROVE  \A i \in DOMAIN Append(s, x) :
               \/ Append(s, x)[i] = x
               \/ i \in DOMAIN s /\ Append(s, x)[i] = s[i]
OBVIOUS

LEMMA TailAt ==
    ASSUME NEW S, NEW s \in Seq(S), s # <<>>
    PROVE  /\ Head(s) \in S /\ Head(s) = s[1] /\ 1 \in DOMAIN s
           /\ Tail(s) \in Seq(S)
           /\ \A i \in DOMAIN Tail(s) : i + 1 \in DOMAIN s /\ Tail(s)[i] = s[i + 1]
OBVIOUS

LEMMA ConfigHosts ==
    ASSUME NEW c, IsConfig(c), NEW hs, HostTable(hs), NEW d, d = [c EXCEPT !.hosts = hs]
    PROVE  IsConfig(d) /\ d.hosts = hs /\ d.mapping = c.mapping
BY DEF IsConfig

LEMMA ConfigMapping ==
    ASSUME NEW c, IsConfig(c), NEW m, Mapping(m), NEW d, d = [c EXCEPT !.mapping = m]
    PROVE  IsConfig(d) /\ d.hosts = c.hosts /\ d.mapping = m
BY DEF IsConfig

LEMMA NoTables == /\ HostTable(NoHosts) /\ Mapping(<<>>)
                  /\ DOMAIN NoHosts = {} /\ DOMAIN <<>> = {}
BY DEF HostTable, Mapping, NoHosts

LEMMA Writes ==
    ASSUME NEW c, IsConfig(c)
    PROVE  /\ IsFile(ToDict(c))
           /\ ToDict(c).hosts = c.hosts /\ ToDict(c).mapping = c.mapping
BY DEF IsConfig, IsFile, ToDict

LEMMA Loads ==
    ASSUME NEW f, IsFile(f)
    PROVE  IsConfig(Load(f)) /\ Load(f).hosts = f.hosts /\ Load(f).mapping = f.mapping
BY DEF IsConfig, IsFile, Load

LEMMA EmptyFiles ==
    ASSUME NEW f \in {NoFile, [NoFile EXCEPT !.there = TRUE],
                      [NoFile EXCEPT !.there = TRUE, !.lsp = "users"]}
    PROVE  IsFile(f) /\ DOMAIN f.hosts = {} /\ DOMAIN f.mapping = {}
<1>1. PICK x, y : f = [there |-> x, hosts |-> NoHosts, mapping |-> <<>>, lsp |-> y]
  <2>1. CASE f = NoFile
        BY <2>1 DEF NoFile
  <2>2. CASE f = [NoFile EXCEPT !.there = TRUE]
        BY <2>2 DEF NoFile
  <2>3. CASE f = [NoFile EXCEPT !.there = TRUE, !.lsp = "users"]
        BY <2>3 DEF NoFile
  <2> QED
        BY <2>1, <2>2, <2>3
<1> QED
      BY <1>1, NoTables DEF IsFile

(* A save either writes what is in memory or leaves an older or empty file.  *)
LEMMA SaveParts ==
    ASSUME NEW c, IsConfig(c), IsFile(file), Save(c)
    PROVE  /\ config' = c /\ IsConfig(config') /\ IsFile(file') /\ saved' \in BOOLEAN
           /\ ConfigSurvives'
           /\ \/ file' = file
              \/ file'.mapping = c.mapping /\ file'.hosts = c.hosts
              \/ DOMAIN file'.mapping = {}
<1>1. config' = c
      BY DEF Save
<1>2. CASE file' = ToDict(c) /\ saved' = TRUE
      BY <1>1, <1>2, Writes, Loads DEF ConfigSurvives
<1>3. CASE saved' = FALSE /\ file' = file
      BY <1>1, <1>3 DEF ConfigSurvives
<1>4. CASE saved' = FALSE /\ file' = [NoFile EXCEPT !.there = TRUE]
      BY <1>1, <1>4, EmptyFiles DEF ConfigSurvives
<1> QED
      BY <1>1, <1>2, <1>3, <1>4 DEF Save

(* Mappings stay named as long as hosts are only added or renamed.           *)
LEMMA SaveNamed ==
    ASSUME NEW c, IsConfig(c), IsFile(file), Save(c), FileInv,
           renamed \subseteq renamed', Named(c, renamed')
    PROVE  FileInv'
<1>1. /\ config' = c /\ ConfigSurvives'
      /\ \/ file' = file
         \/ file'.mapping = c.mapping /\ file'.hosts = c.hosts
         \/ DOMAIN file'.mapping = {}
      BY SaveParts
<1>2. Named(file', renamed')
      BY <1>1 DEF FileInv, Named
<1> QED
      BY <1>1, <1>2 DEF FileInv

(* The statuses and checks of hosts whose configuration stays.               *)
LEMMA StatusKept ==
    ASSUME ConfigTypes, StatusInv, NEW edited,
           \A h \in DOMAIN config.hosts \ edited :
               h \in DOMAIN config'.hosts /\ config'.hosts[h] = config.hosts[h],
           checks' = checks, raced \cup (Checked \cap edited) \subseteq raced',
           DOMAIN cache' \subseteq DOMAIN cache,
           \A h \in DOMAIN cache' : cache'[h] = cache[h],
           \A h \in DOMAIN cache' \cap edited : h \in raced'
    PROVE  StatusInv'
<1>1. ASSUME NEW i \in DOMAIN checks, checks[i].host \notin raced'
      PROVE  /\ checks[i].host \in DOMAIN config'.hosts
             /\ checks[i].with = config'.hosts[checks[i].host]
  <2>1. checks[i].host \in Checked
        BY DEF Checked
  <2>2. checks[i].host \in DOMAIN config.hosts \ edited
        BY <1>1, <2>1 DEF StatusInv, ChecksCurrent
  <2> QED
        BY <1>1, <2>2 DEF StatusInv, ChecksCurrent
<1>2. ASSUME NEW h \in DOMAIN cache' \ raced'
      PROVE  h \in DOMAIN config'.hosts /\ cache'[h] = config'.hosts[h]
      BY DEF StatusInv, StatusIsCurrent
<1> QED
      BY <1>1, <1>2 DEF StatusInv, ChecksCurrent, StatusIsCurrent

(* An edit of the hosts in "edited" that ends with c.                        *)
LEMMA EditKeeps ==
    ASSUME ConfigInv, NEW c, IsConfig(c), Save(c), NEW edited,
           \A h \in DOMAIN config.hosts \ edited :
               h \in DOMAIN c.hosts /\ c.hosts[h] = config.hosts[h],
           checks' = checks, raced \cup (Checked \cap edited) \subseteq raced',
           HostTable(cache'), DOMAIN cache' \subseteq DOMAIN cache,
           \A h \in DOMAIN cache' : cache'[h] = cache[h],
           \A h \in DOMAIN cache' \cap edited : h \in raced',
           edits' \in Nat, renamed \subseteq renamed', Named(c, renamed')
    PROVE  ConfigInv'
<1>1. ConfigTypes /\ StatusInv /\ FileInv /\ IsFile(file)
      BY DEF ConfigInv, ConfigTypes
<1>2. config' = c /\ IsConfig(config') /\ IsFile(file') /\ saved' \in BOOLEAN
      BY <1>1, SaveParts
<1>3. StatusInv'
      BY <1>1, <1>2, StatusKept
<1>4. FileInv'
      BY <1>1, SaveNamed
<1> QED
      BY <1>1, <1>2, <1>3, <1>4 DEF ConfigInv, ConfigTypes

-----------------------------------------------------------------------------
LEMMA ConfigInitially ==
    ASSUME SupervisorInit PROVE ConfigInv
<1>1. IsFile(file) /\ DOMAIN file.hosts = {} /\ DOMAIN file.mapping = {}
      BY EmptyFiles DEF SupervisorInit
<1>2. /\ IsConfig(config) /\ config.hosts = file.hosts /\ config.mapping = file.mapping
      BY <1>1, Loads DEF SupervisorInit
<1>3. HostTable(cache) /\ DOMAIN cache = {} /\ checks = <<>>
      BY NoTables DEF SupervisorInit
<1>4. ConfigTypes
      BY <1>1, <1>2, <1>3 DEF SupervisorInit, ConfigTypes
<1>5. StatusInv
      BY <1>3 DEF StatusInv, ChecksCurrent, StatusIsCurrent
<1>6. ConfigSurvives
      BY <1>1, <1>2, Loads DEF SupervisorInit, ConfigSurvives
<1> QED
      BY <1>1, <1>2, <1>4, <1>5, <1>6 DEF ConfigInv, FileInv, Named

(* What the proofs about single edits begin with.                           *)
LEMMA ConfigFacts ==
    ASSUME ConfigInv
    PROVE  /\ IsConfig(config) /\ HostTable(config.hosts) /\ Mapping(config.mapping)
           /\ HostTable(cache) /\ edits \in Nat /\ edits + 1 \in Nat
           /\ StatusIsCurrent /\ Named(config, renamed)
BY DEF ConfigInv, ConfigTypes, IsConfig, StatusInv, FileInv

(* Statuses are dropped, or stay.                                           *)
LEMMA CacheKept ==
    ASSUME HostTable(cache), NEW names, cache' = Without(cache, names) \/ cache' = cache
    PROVE  /\ HostTable(cache') /\ DOMAIN cache' \subseteq DOMAIN cache
           /\ \A g \in DOMAIN cache' : cache'[g] = cache[g]
           /\ cache' = Without(cache, names) => DOMAIN cache' = DOMAIN cache \ names
<1>1. CASE cache' = cache
      BY <1>1 DEF Without
<1>2. CASE cache' = Without(cache, names)
      BY <1>2 DEF HostTable, Without
<1> QED
      BY <1>1, <1>2

LEMMA AddHostKeeps ==
    ASSUME ConfigInv, NEW h \in Hosts, AddHost(h) PROVE ConfigInv'
<1>1. PICK n : n = edits + 1 /\ n \in Nat
      BY ConfigFacts
<1>2. PICK hs : hs = Put(config.hosts, h, n)
      OBVIOUS
<1>3. PICK c : c = [config EXCEPT !.hosts = hs]
      OBVIOUS
<1>4. /\ Save(c) /\ h \notin DOMAIN config.hosts /\ edits' = n
      /\ UNCHANGED <<checks, renamed>> /\ raced' = raced \cup (Checked \cap {h})
      /\ cache' = Without(cache, DOMAIN cache) \/ cache' = cache
      BY <1>1, <1>2, <1>3 DEF AddHost, DropIfSaved
<1>5. /\ HostTable(hs) /\ DOMAIN hs = DOMAIN config.hosts \cup {h}
      /\ \A g \in DOMAIN config.hosts \ {h} : hs[g] = config.hosts[g]
      BY <1>1, <1>2, ConfigFacts DEF HostTable, Put
<1>6. IsConfig(c) /\ c.hosts = hs /\ c.mapping = config.mapping
      BY <1>3, <1>5, ConfigFacts, ConfigHosts
<1>7. /\ HostTable(cache') /\ DOMAIN cache' \subseteq DOMAIN cache
      /\ \A g \in DOMAIN cache' : cache'[g] = cache[g]
      BY <1>4, ConfigFacts, CacheKept
<1>8. \A g \in DOMAIN cache' \cap {h} : g \in raced'
      BY <1>4, <1>7, ConfigFacts DEF StatusIsCurrent
<1>9. Named(c, renamed')
      BY <1>4, <1>5, <1>6, ConfigFacts DEF Named
<1> QED
      BY <1>1, <1>4, <1>5, <1>6, <1>7, <1>8, <1>9, EditKeeps

LEMMA UpdateHostKeeps ==
    ASSUME ConfigInv, NEW h \in Hosts, UpdateHost(h) PROVE ConfigInv'
<1>1. PICK n : n = edits + 1 /\ n \in Nat
      BY ConfigFacts
<1>2. PICK hs : hs = Put(config.hosts, h, n)
      OBVIOUS
<1>3. PICK c : c = [config EXCEPT !.hosts = hs]
      OBVIOUS
<1>4. /\ Save(c) /\ h \in DOMAIN config.hosts /\ edits' = n
      /\ UNCHANGED <<checks, renamed>>
      /\ raced' = raced \cup (Checked \cap {h}) \cup (IF saved' THEN {} ELSE {h})
      /\ cache' = IF saved' THEN Without(cache, {h}) ELSE cache
      BY <1>1, <1>2, <1>3 DEF UpdateHost, DropIfSaved
<1>5. /\ HostTable(hs) /\ DOMAIN hs = DOMAIN config.hosts
      /\ \A g \in DOMAIN config.hosts \ {h} : hs[g] = config.hosts[g]
      BY <1>1, <1>2, <1>4, ConfigFacts DEF HostTable, Put
<1>6. IsConfig(c) /\ c.hosts = hs /\ c.mapping = config.mapping
      BY <1>3, <1>5, ConfigFacts, ConfigHosts
<1>7. /\ HostTable(cache') /\ DOMAIN cache' \subseteq DOMAIN cache
      /\ \A g \in DOMAIN cache' : cache'[g] = cache[g]
      /\ h \in DOMAIN cache' => ~saved'
      BY <1>4, ConfigFacts, CacheKept
<1>8. \A g \in DOMAIN cache' \cap {h} : g \in raced'
      BY <1>4, <1>7
<1>9. Named(c, renamed')
      BY <1>4, <1>5, <1>6, ConfigFacts DEF Named
<1>10. raced \cup (Checked \cap {h}) \subseteq raced'
      BY <1>4
<1> QED
      BY <1>1, <1>4, <1>5, <1>6, <1>7, <1>8, <1>9, <1>10, EditKeeps

(* A name that is given up stays a name mappings may have.                  *)
LEMMA RenameHostKeeps ==
    ASSUME ConfigInv, NEW h \in Hosts, NEW new \in Hosts, RenameHost(h, new)
    PROVE  ConfigInv'
<1>1. PICK n : n = edits + 1 /\ n \in Nat
      BY ConfigFacts
<1>2. PICK hs : hs = Put(Without(config.hosts, {h}), new, n)
      OBVIOUS
<1>3. PICK c : c = [config EXCEPT !.hosts = hs]
      OBVIOUS
<1>4. /\ Save(c) /\ h \in DOMAIN config.hosts /\ new \notin DOMAIN config.hosts
      /\ edits' = n /\ checks' = checks /\ renamed' = renamed \cup {h}
      /\ raced' = raced \cup (Checked \cap {h, new})
      /\ \E names : cache' = Without(cache, names) /\ h \in names
      BY <1>1, <1>2, <1>3 DEF RenameHost
<1>5. /\ HostTable(hs) /\ DOMAIN hs = (DOMAIN config.hosts \ {h}) \cup {new}
      /\ \A g \in DOMAIN config.hosts \ {h, new} : hs[g] = config.hosts[g]
      BY <1>1, <1>2, ConfigFacts DEF HostTable, Put, Without
<1>6. IsConfig(c) /\ c.hosts = hs /\ c.mapping = config.mapping
      BY <1>3, <1>5, ConfigFacts, ConfigHosts
<1>7. /\ HostTable(cache') /\ DOMAIN cache' \subseteq DOMAIN cache
      /\ \A g \in DOMAIN cache' : cache'[g] = cache[g]
      /\ h \notin DOMAIN cache'
  <2>1. PICK names : cache' = Without(cache, names) /\ h \in names
        BY <1>4
  <2> QED
        BY <2>1, ConfigFacts, CacheKept
<1>8. \A g \in DOMAIN cache' \cap {h, new} : g \in raced'
      BY <1>4, <1>7, ConfigFacts DEF StatusIsCurrent
<1>9. Named(c, renamed')
      BY <1>4, <1>5, <1>6, ConfigFacts DEF Named
<1>10. \A g \in DOMAIN config.hosts \ {h, new} :
           g \in DOMAIN c.hosts /\ c.hosts[g] = config.hosts[g]
      BY <1>5, <1>6
<1> QED
      BY <1>1, <1>4, <1>6, <1>7, <1>8, <1>9, <1>10, EditKeeps

LEMMA RemoveHostKeeps ==
    ASSUME ConfigInv, NEW h \in Hosts, RemoveHost(h) PROVE ConfigInv'
<1>1. PICK n : n = edits + 1 /\ n \in Nat
      BY ConfigFacts
<1>2. PICK hs : hs = Without(config.hosts, {h})
      OBVIOUS
<1>3. PICK m : m = Without(config.mapping,
                           {b \in DOMAIN config.mapping : config.mapping[b] = h})
      OBVIOUS
<1>4. PICK c : c = [config EXCEPT !.hosts = hs, !.mapping = m]
      OBVIOUS
<1>5. /\ Save(c) /\ h \in DOMAIN config.hosts /\ edits' = n
      /\ UNCHANGED <<checks, renamed>>
      /\ raced' = raced \cup (Checked \cap {h}) \cup (IF saved' THEN {} ELSE {h})
      /\ cache' = IF saved' THEN Without(cache, {h}) ELSE cache
      BY <1>1, <1>2, <1>3, <1>4 DEF RemoveHost, DropIfSaved
<1>6. /\ HostTable(hs) /\ DOMAIN hs = DOMAIN config.hosts \ {h}
      /\ \A g \in DOMAIN config.hosts \ {h} : hs[g] = config.hosts[g]
      BY <1>2, ConfigFacts DEF HostTable, Without
<1>7. /\ Mapping(m) /\ DOMAIN m \subseteq DOMAIN config.mapping
      /\ \A b \in DOMAIN m : m[b] = config.mapping[b] /\ m[b] # h
      BY <1>3, ConfigFacts DEF Mapping, Without
<1>8. IsConfig(c) /\ c.hosts = hs /\ c.mapping = m
      BY <1>4, <1>6, <1>7, ConfigFacts DEF IsConfig
<1>9. /\ HostTable(cache') /\ DOMAIN cache' \subseteq DOMAIN cache
      /\ \A g \in DOMAIN cache' : cache'[g] = cache[g]
      /\ h \in DOMAIN cache' => ~saved'
      BY <1>5, ConfigFacts, CacheKept
<1>10. \A g \in DOMAIN cache' \cap {h} : g \in raced'
      BY <1>5, <1>9
<1>11. Named(c, renamed')
      BY <1>5, <1>6, <1>7, <1>8, ConfigFacts DEF Named
<1>12. raced \cup (Checked \cap {h}) \subseteq raced'
      BY <1>5
<1> QED
      BY <1>1, <1>5, <1>6, <1>8, <1>9, <1>10, <1>11, <1>12, EditKeeps

(* Mappings say nothing about a host's status.                              *)
LEMMA MappingKeeps ==
    ASSUME ConfigInv, NEW m, Mapping(m), Save([config EXCEPT !.mapping = m]),
           \A b \in DOMAIN m : m[b] \in DOMAIN config.hosts \cup renamed,
           UNCHANGED <<edits, cache, checks, raced, renamed>>
    PROVE  ConfigInv'
<1>1. PICK c : c = [config EXCEPT !.mapping = m]
      OBVIOUS
<1>2. IsConfig(c) /\ c.hosts = config.hosts /\ c.mapping = m
      BY <1>1, ConfigFacts, ConfigMapping
<1>3. Save(c)
      BY <1>1
<1>4. Named(c, renamed')
      BY <1>2 DEF Named
<1>5. PICK none : none = {}
      OBVIOUS
<1>6. /\ HostTable(cache') /\ edits' \in Nat
      /\ \A h \in DOMAIN config.hosts \ none :
             h \in DOMAIN c.hosts /\ c.hosts[h] = config.hosts[h]
      /\ raced \cup (Checked \cap none) \subseteq raced'
      /\ \A h \in DOMAIN cache' \cap none : h \in raced'
      BY <1>2, <1>5, ConfigFacts
<1> QED
      BY <1>2, <1>3, <1>4, <1>6, EditKeeps

LEMMA SetBackendHostKeeps ==
    ASSUME ConfigInv, NEW b \in Backends, NEW h \in Hosts, SetBackendHost(b, h)
    PROVE  ConfigInv'
<1>1. PICK m : m = Put(config.mapping, b, h)
      OBVIOUS
<1>2. /\ Mapping(m) /\ DOMAIN m = DOMAIN config.mapping \cup {b} /\ m[b] = h
      /\ \A x \in DOMAIN config.mapping \ {b} : m[x] = config.mapping[x]
      BY <1>1, ConfigFacts DEF Mapping, Put
<1>3. h \in DOMAIN config.hosts /\ Save([config EXCEPT !.mapping = m])
      /\ UNCHANGED <<edits, cache, checks, raced, renamed>>
      BY <1>1 DEF SetBackendHost
<1>4. \A x \in DOMAIN m : m[x] \in DOMAIN config.hosts \cup renamed
      BY <1>2, <1>3, ConfigFacts DEF Named
<1> QED
      BY <1>2, <1>3, <1>4, MappingKeeps

LEMMA RemoveBackendHostKeeps ==
    ASSUME ConfigInv, NEW b \in Backends, RemoveBackendHost(b)
    PROVE  ConfigInv'
<1>1. PICK m : m = Without(config.mapping, {b})
      OBVIOUS
<1>2. Mapping(m) /\ \A x \in DOMAIN m : x \in DOMAIN config.mapping
                                         /\ m[x] = config.mapping[x]
      BY <1>1, ConfigFacts DEF Mapping, Without
<1>3. Save([config EXCEPT !.mapping = m])
      /\ UNCHANGED <<edits, cache, checks, raced, renamed>>
      BY <1>1 DEF RemoveBackendHost
<1>4. \A x \in DOMAIN m : m[x] \in DOMAIN config.hosts \cup renamed
      BY <1>2, ConfigFacts DEF Named
<1> QED
      BY <1>2, <1>3, <1>4, MappingKeeps

LEMMA EditFileKeeps == ASSUME ConfigInv, EditFile PROVE ConfigInv'
<1>1. PICK n : n = edits + 1 /\ n \in Nat
      BY ConfigFacts
<1>2. PICK hs \in SUBSET Hosts :
          file' = [there |-> TRUE, hosts |-> [h \in hs |-> n],
                   mapping |-> <<>>, lsp |-> "users"]
      BY <1>1 DEF EditFile
<1>3. HostTable([h \in hs |-> n])
      BY <1>1 DEF HostTable
<1>4. IsFile(file') /\ DOMAIN file'.mapping = {}
      BY <1>2, <1>3, NoTables DEF IsFile
<1>5. edits' = n /\ saved' = FALSE /\ UNCHANGED <<config, cache, checks, raced, renamed>>
      BY <1>1 DEF EditFile
<1>6. ConfigTypes'
      BY <1>1, <1>4, <1>5 DEF ConfigInv, ConfigTypes
<1>7. StatusInv'
      BY <1>5 DEF ConfigInv, StatusInv, ChecksCurrent, StatusIsCurrent
<1>8. FileInv'
      BY <1>4, <1>5 DEF ConfigInv, FileInv, ConfigSurvives, Named
<1> QED
      BY <1>6, <1>7, <1>8 DEF ConfigInv

LEMMA ReloadConfigKeeps == ASSUME ConfigInv, ReloadConfig PROVE ConfigInv'
<1>1. /\ config' = Load(file) /\ saved' = TRUE /\ cache' = Without(cache, DOMAIN cache)
      /\ raced' = raced \cup Checked /\ UNCHANGED <<file, edits, checks, renamed>>
      BY DEF ReloadConfig, Drop
<1>2. IsFile(file)
      BY DEF ConfigInv, ConfigTypes
<1>3. IsConfig(config') /\ config'.hosts = file.hosts /\ config'.mapping = file.mapping
      BY <1>1, <1>2, Loads
<1>4. HostTable(cache') /\ DOMAIN cache' = {}
      BY <1>1, ConfigFacts, CacheKept
<1>5. ConfigTypes'
      BY <1>1, <1>3, <1>4 DEF ConfigInv, ConfigTypes
<1>6. StatusInv'
      BY <1>1, <1>4 DEF StatusInv, ChecksCurrent, StatusIsCurrent, Checked
<1>7. ConfigSurvives'
      BY <1>1 DEF ConfigSurvives
<1>8. Named(config', renamed') /\ Named(file', renamed')
      BY <1>1, <1>3 DEF ConfigInv, FileInv, Named
<1> QED
      BY <1>5, <1>6, <1>7, <1>8 DEF ConfigInv, FileInv

LEMMA StartCheckKeeps ==
    ASSUME ConfigInv, NEW h \in Hosts, StartCheck(h) PROVE ConfigInv'
<1>1. PICK k : k = [host |-> h, with |-> config.hosts[h]]
      OBVIOUS
<1>2. /\ checks' = Append(checks, k) /\ h \in DOMAIN config.hosts
      /\ UNCHANGED <<config, file, saved, edits, cache, raced, renamed>>
      BY <1>1 DEF StartCheck
<1>3. k \in [host : Hosts, with : Nat] /\ checks \in Seq([host : Hosts, with : Nat])
      BY <1>1, <1>2, ConfigFacts DEF HostTable, ConfigInv, ConfigTypes
<1>4. ConfigTypes'
      BY <1>2, <1>3 DEF ConfigInv, ConfigTypes
<1>5. \A i \in DOMAIN checks' : \/ checks'[i] = k
                                \/ i \in DOMAIN checks /\ checks'[i] = checks[i]
      BY <1>2, <1>3, AppendAt
<1>6. ChecksCurrent'
      BY <1>1, <1>2, <1>5 DEF ConfigInv, StatusInv, ChecksCurrent
<1>7. StatusIsCurrent' /\ FileInv'
      BY <1>2 DEF ConfigInv, StatusInv, StatusIsCurrent, FileInv, ConfigSurvives, Named
<1> QED
      BY <1>4, <1>6, <1>7 DEF ConfigInv, StatusInv

(* The check that ends is one whose host was edited, or is still current.   *)
LEMMA EndCheckKeeps == ASSUME ConfigInv, EndCheck PROVE ConfigInv'
<1>1. PICK S : S = [host : Hosts, with : Nat]
      OBVIOUS
<1>2. checks \in Seq(S) /\ checks # <<>>
      BY <1>1 DEF ConfigInv, ConfigTypes, EndCheck
<1>3. PICK k : k = Head(checks)
      OBVIOUS
<1>4. /\ Head(checks) \in S /\ Head(checks) = checks[1] /\ 1 \in DOMAIN checks
       /\ Tail(checks) \in Seq(S)
       /\ \A i \in DOMAIN Tail(checks) : i + 1 \in DOMAIN checks
                                          /\ Tail(checks)[i] = checks[i + 1]
      BY <1>2, TailAt
<1>5. /\ k.host \in Hosts /\ k.with \in Nat
       /\ 1 \in DOMAIN checks /\ k = checks[1]
      BY <1>1, <1>3, <1>4
<1>6. /\ checks' = Tail(checks) /\ cache' \in {Put(cache, k.host, k.with), cache}
      /\ UNCHANGED <<config, file, saved, edits, raced, renamed>>
      BY <1>3 DEF EndCheck
<1>7. HostTable(cache')
      BY <1>5, <1>6, ConfigFacts DEF HostTable, Put
<1>8. ConfigTypes'
      BY <1>1, <1>4, <1>6, <1>7 DEF ConfigInv, ConfigTypes
<1>9. ChecksCurrent'
      BY <1>4, <1>6 DEF ConfigInv, StatusInv, ChecksCurrent
<1>10. StatusIsCurrent'
  <2>1. CASE cache' = cache
        BY <1>6, <2>1, ConfigFacts DEF StatusIsCurrent
  <2>2. CASE cache' = Put(cache, k.host, k.with)
    <3>1. k.host \notin raced => k.host \in DOMAIN config.hosts
                                 /\ k.with = config.hosts[k.host]
          BY <1>5 DEF ConfigInv, StatusInv, ChecksCurrent
    <3>2. \A h \in DOMAIN cache' : \/ h = k.host /\ cache'[h] = k.with
                                   \/ h \in DOMAIN cache /\ cache'[h] = cache[h]
          BY <2>2 DEF Put
    <3> QED
          BY <1>6, <3>1, <3>2, ConfigFacts DEF StatusIsCurrent
  <2> QED
        BY <1>6, <2>1, <2>2
<1>11. FileInv'
      BY <1>6 DEF ConfigInv, FileInv, ConfigSurvives, Named
<1> QED
      BY <1>8, <1>9, <1>10, <1>11 DEF ConfigInv, StatusInv

LEMMA ConfigUnchanged ==
    ASSUME ConfigInv, UNCHANGED configVars PROVE ConfigInv'
<1>1. ConfigTypes'
      BY DEF ConfigInv, ConfigTypes, configVars
<1>2. StatusInv'
      BY DEF ConfigInv, StatusInv, ChecksCurrent, StatusIsCurrent, configVars
<1>3. FileInv'
      BY DEF ConfigInv, FileInv, ConfigSurvives, Named, configVars
<1> QED
      BY <1>1, <1>2, <1>3 DEF ConfigInv

LEMMA ConfigInvHolds == SupervisorSpec => []ConfigInv
<1>1. SupervisorInit => ConfigInv
      BY ConfigInitially
<1>2. ASSUME ConfigInv, [SupervisorNext]_supervisorVars PROVE ConfigInv'
  <2>1. CASE ConfigNext
    <3>1. ASSUME NEW h \in Hosts,
                 AddHost(h) \/ UpdateHost(h) \/ RemoveHost(h) \/ StartCheck(h)
          PROVE  ConfigInv'
          BY <1>2, <3>1, AddHostKeeps, UpdateHostKeeps, RemoveHostKeeps, StartCheckKeeps
    <3>2. ASSUME NEW h \in Hosts, NEW g \in Hosts, RenameHost(h, g) PROVE ConfigInv'
          BY <1>2, <3>2, RenameHostKeeps
    <3>3. ASSUME NEW b \in Backends, NEW h \in Hosts, SetBackendHost(b, h)
          PROVE  ConfigInv'
          BY <1>2, <3>3, SetBackendHostKeeps
    <3>4. ASSUME NEW b \in Backends, RemoveBackendHost(b) PROVE ConfigInv'
          BY <1>2, <3>4, RemoveBackendHostKeeps
    <3>5. CASE EditFile \/ ReloadConfig \/ EndCheck
          BY <1>2, <3>5, EditFileKeeps, ReloadConfigKeeps, EndCheckKeeps
    <3> QED
          BY <2>1, <3>1, <3>2, <3>3, <3>4, <3>5 DEF ConfigNext
  <2>2. CASE Runs \/ Asks \/ UNCHANGED supervisorVars
    <3>1. UNCHANGED configVars
          BY <2>2 DEF Runs, Asks, supervisorVars
    <3> QED
          BY <1>2, <3>1, ConfigUnchanged
  <2> QED
        BY <1>2, <2>1, <2>2 DEF SupervisorNext
<1> QED
      BY <1>1, <1>2, PTL DEF SupervisorSpec

(* A status is one of the host's present configuration, for any number of    *)
(* hosts, edits and checks, unless the host was edited beside its check or    *)
(* its edit was not saved.                                                   *)
THEOREM StatusCorrect == SupervisorSpec => []StatusIsCurrent
<1>1. ConfigInv => StatusIsCurrent
      BY DEF ConfigInv, StatusInv
<1> QED
      BY <1>1, ConfigInvHolds, PTL

(* What a restart reads is what was in memory, unless the last save failed   *)
(* or the file was edited by hand; and a mapping names a host there is, or    *)
(* one that was renamed.                                                     *)
THEOREM ConfigCorrect == SupervisorSpec => [](ConfigSurvives /\ MappingsNameHosts)
<1>1. ConfigInv => ConfigSurvives /\ MappingsNameHosts
      BY DEF ConfigInv, FileInv, Named, MappingsNameHosts
<1> QED
      BY <1>1, ConfigInvHolds, PTL

-----------------------------------------------------------------------------
(* Browsers                                                                  *)

BrowserStages == {"asked", "connecting", "failed", "over"}
BrowserStates == {"connecting", "connected", "error"}

BrowserTypes ==
    /\ called \in Seq(Names) /\ label \in Seq(Names)
    /\ stage \in Seq(BrowserStages) /\ status \in Seq(BrowserStates)
    /\ Len(label) = Len(called) /\ Len(stage) = Len(called) /\ Len(status) = Len(called)
    /\ DOMAIN table \subseteq Names

(* Nobody waits for the lock before his browser is in the table; a browser  *)
(* of the table is there under its name; one that is being created still    *)
(* has the name it was created with.                                        *)
TableNames == \A n \in DOMAIN table : table[n] \in Ids /\ label[table[n]] = n
NobodyAsks == \A b \in Ids : stage[b] # "asked"
NewAreListed ==
    \A b \in Ids : stage[b] \in {"connecting", "failed"} => label[b] = called[b] /\ Listed(b)

(* Nothing is created while a browser is being destroyed, and what is        *)
(* destroyed is in the table.                                               *)
HeldIsListed ==
    holder # 0 => holder \in Ids /\ Listed(holder) /\ \A b \in Ids : stage[b] = "over"

(* The default is a browser whose creation is over, so that no failure of it *)
(* takes it out of the table.                                               *)
DefaultIsOver ==
    default # NoName => default \in DOMAIN table /\ stage[table[default]] = "over"
FailedInError == \A b \in Ids : stage[b] = "failed" => status[b] = "error"
OpenAreKnown ==
    \A b \in open : /\ b \in Ids /\ stage[b] # "connecting"
                    /\ Listed(b) \/ status[b] = "error"

PatientInv ==
    /\ TableNames /\ NobodyAsks /\ NewAreListed /\ HeldIsListed
    /\ DefaultIsOver /\ FailedInError /\ OpenAreKnown

BrowsersInv == BrowserTypes /\ (Patient => PatientInv)
-----------------------------------------------------------------------------
LEMMA PutAt ==
    ASSUME NEW S, NEW s \in Seq(S), NEW b \in 1..Len(s), NEW x \in S
    PROVE  LET t == [s EXCEPT ![b] = x]
           IN  /\ t \in Seq(S) /\ Len(t) = Len(s) /\ t[b] = x
               /\ \A i \in 1..Len(s) : i # b => t[i] = s[i]
OBVIOUS

LEMMA BrowserFacts ==
    ASSUME BrowserTypes
    PROVE  /\ Ids = 1..Len(label) /\ Ids = 1..Len(stage) /\ Ids = 1..Len(status)
           /\ Ids = DOMAIN called /\ Ids = DOMAIN label
           /\ Ids = DOMAIN stage /\ Ids = DOMAIN status /\ Ids \subseteq Nat \ {0}
           /\ \A b \in Ids : label[b] \in Names /\ called[b] \in Names
                             /\ stage[b] \in BrowserStages
BY DEF BrowserTypes, Ids

LEMMA BrowsersInitially == ASSUME BrowsersInit PROVE BrowsersInv
<1>1. /\ table = <<>> /\ called = <<>> /\ label = <<>> /\ stage = <<>> /\ status = <<>>
      /\ open = {} /\ default = NoName /\ holder = 0
      BY DEF BrowsersInit
<1>2. Ids = {} /\ DOMAIN table = {}
      BY <1>1 DEF Ids
<1>3. BrowserTypes
      BY <1>1, <1>2 DEF BrowserTypes
<1>4. PatientInv
      BY <1>1, <1>2 DEF PatientInv, TableNames, NobodyAsks, NewAreListed, HeldIsListed,
                        DefaultIsOver, FailedInError, OpenAreKnown
<1> QED
      BY <1>3, <1>4 DEF BrowsersInv

(* What only reads a page leaves the table as it is.                        *)
LEMMA PagesKeep ==
    ASSUME BrowsersInv, habit' = habit,
           UNCHANGED <<table, called, label, stage, status, default, holder>>,
           open' \subseteq open
    PROVE  BrowsersInv'
<1>1. BrowserTypes' /\ Ids' = Ids /\ \A b : Listed(b)' <=> Listed(b)
      BY DEF BrowsersInv, BrowserTypes, Ids, Listed
<1>2. Patient' <=> Patient
      BY DEF Patient
<1>3. ASSUME PatientInv PROVE PatientInv'
  <2>1. TableNames' /\ NobodyAsks' /\ NewAreListed'
        BY <1>1, <1>3 DEF PatientInv, TableNames, NobodyAsks, NewAreListed
  <2>2. HeldIsListed' /\ DefaultIsOver' /\ FailedInError'
        BY <1>1, <1>3 DEF PatientInv, HeldIsListed, DefaultIsOver, FailedInError
  <2>3. OpenAreKnown'
        BY <1>1, <1>3 DEF PatientInv, OpenAreKnown
  <2> QED
        BY <2>1, <2>2, <2>3 DEF PatientInv
<1> QED
      BY <1>1, <1>2, <1>3 DEF BrowsersInv

LEMMA CreateKeeps == ASSUME BrowsersInv, NEW n \in Names, Create(n) PROVE BrowsersInv'
<1>1. PICK new : new = Len(called) + 1
      OBVIOUS
<1>2. /\ called' = Append(called, n) /\ label' = Append(label, n)
      /\ status' = Append(status, "connecting")
      /\ \/ /\ LockFree /\ stage' = Append(stage, "connecting")
            /\ table' = Entry(table, n, Len(called'))
         \/ ~LockFree /\ stage' = Append(stage, "asked") /\ table' = table
      /\ UNCHANGED <<habit, open, default, holder>> /\ n \notin DOMAIN table
      /\ "hasty" \in habit \/ LockFree
      BY DEF Create
<1>3. BrowserTypes
      BY DEF BrowsersInv
<1>4. Len(called') = new /\ new \notin Ids /\ Ids' = Ids \cup {new}
      BY <1>1, <1>2, <1>3 DEF BrowserTypes, Ids
<1>5. DOMAIN table' \subseteq Names
      BY <1>2, <1>3 DEF BrowserTypes, Entry
<1>6. BrowserTypes'
  <2>1. called' \in Seq(Names) /\ label' \in Seq(Names) /\ Len(label') = Len(called')
        BY <1>2, <1>3 DEF BrowserTypes
  <2>2. status' \in Seq(BrowserStates) /\ Len(status') = Len(called')
        BY <1>2, <1>3 DEF BrowserTypes, BrowserStates
  <2>3. stage' \in Seq(BrowserStages) /\ Len(stage') = Len(called')
    <3>1. PICK x \in BrowserStages : stage' = Append(stage, x)
          BY <1>2 DEF BrowserStages
    <3> QED
          BY <1>2, <1>3, <3>1 DEF BrowserTypes
  <2> QED
        BY <1>5, <2>1, <2>2, <2>3 DEF BrowserTypes
<1>7. /\ called'[new] = n /\ label'[new] = n /\ status'[new] = "connecting"
      /\ \A b \in Ids : called'[b] = called[b] /\ label'[b] = label[b]
      /\ \A b \in Ids : status'[b] = status[b] /\ stage'[b] = stage[b]
  <2>1. /\ called'[new] = n /\ label'[new] = n
        /\ \A b \in Ids : called'[b] = called[b] /\ label'[b] = label[b]
        BY <1>1, <1>2, <1>3 DEF BrowserTypes, Ids
  <2>2. status'[new] = "connecting" /\ \A b \in Ids : status'[b] = status[b]
        BY <1>1, <1>2, <1>3 DEF BrowserTypes, Ids
  <2>3. \A b \in Ids : stage'[b] = stage[b]
    <3>1. PICK x \in BrowserStages : stage' = Append(stage, x)
          BY <1>2 DEF BrowserStages
    <3> QED
          BY <1>3, <3>1 DEF BrowserTypes, Ids
  <2> QED
        BY <2>1, <2>2, <2>3
<1>8. ASSUME Patient PROVE PatientInv'
  <2>1. PatientInv /\ LockFree /\ stage'[new] = "connecting" /\ holder = 0
        /\ table' = Entry(table, n, new)
        BY <1>1, <1>2, <1>3, <1>4, <1>8 DEF BrowsersInv, Patient, BrowserTypes, LockFree
  <2>2. /\ DOMAIN table' = DOMAIN table \cup {n} /\ table'[n] = new
        /\ \A m \in DOMAIN table : table'[m] = table[m]
        BY <1>2, <2>1 DEF Entry
  <2>3. TableNames'
        BY <1>4, <1>7, <2>1, <2>2 DEF PatientInv, TableNames
  <2>4. \A b \in Ids : Listed(b) => Listed(b)'
        BY <1>7, <2>2 DEF Listed
  <2>5. NobodyAsks' /\ FailedInError'
        BY <1>4, <1>7, <2>1 DEF PatientInv, NobodyAsks, FailedInError
  <2>6. NewAreListed'
        BY <1>4, <1>7, <2>1, <2>2, <2>4 DEF PatientInv, NewAreListed, Listed
  <2>7. HeldIsListed'
        BY <1>2, <2>1 DEF HeldIsListed
  <2>8. DefaultIsOver'
        BY <1>2, <1>7, <2>1, <2>2 DEF PatientInv, DefaultIsOver, TableNames
  <2>9. OpenAreKnown'
        BY <1>2, <1>4, <1>7, <2>1, <2>4 DEF PatientInv, OpenAreKnown
  <2> QED
        BY <2>3, <2>5, <2>6, <2>7, <2>8, <2>9 DEF PatientInv
<1> QED
      BY <1>2, <1>6, <1>8 DEF BrowsersInv, Patient

LEMMA RegisterKeeps == ASSUME BrowsersInv, NEW b \in Ids, Register(b) PROVE BrowsersInv'
<1>1. /\ stage[b] = "asked" /\ stage' = [stage EXCEPT ![b] = "connecting"]
      /\ table' = Entry(table, called[b], b)
      /\ UNCHANGED <<habit, called, label, status>>
      BY DEF Register
<1>2. BrowserTypes'
  <2>1. stage' \in Seq(BrowserStages) /\ Len(stage') = Len(stage)
        BY <1>1, BrowserFacts DEF BrowsersInv, BrowserTypes, BrowserStages
  <2>2. DOMAIN table' \subseteq Names
        BY <1>1, BrowserFacts DEF BrowsersInv, BrowserTypes, Entry
  <2> QED
        BY <1>1, <2>1, <2>2 DEF BrowsersInv, BrowserTypes
<1>3. ~Patient
      BY <1>1 DEF BrowsersInv, PatientInv, NobodyAsks
<1> QED
      BY <1>1, <1>2, <1>3 DEF BrowsersInv, Patient

(* A browser's creation goes on; what is listed stays so.                   *)
LEMMA StageAt ==
    ASSUME BrowserTypes, NEW b \in Ids, NEW x \in BrowserStages,
           stage' = [stage EXCEPT ![b] = x]
    PROVE  /\ stage' \in Seq(BrowserStages) /\ Len(stage') = Len(stage)
           /\ stage'[b] = x /\ \A c \in Ids : c # b => stage'[c] = stage[c]
BY BrowserFacts DEF BrowserTypes

LEMMA StatusAt ==
    ASSUME BrowserTypes, NEW b \in Ids, NEW x \in BrowserStates,
           status' = [status EXCEPT ![b] = x]
    PROVE  /\ status' \in Seq(BrowserStates) /\ Len(status') = Len(status)
           /\ status'[b] = x /\ \A c \in Ids : c # b => status'[c] = status[c]
BY BrowserFacts DEF BrowserTypes

LEMMA ConnectedKeeps == ASSUME BrowsersInv, NEW b \in Ids, Connected(b) PROVE BrowsersInv'
<1>1. /\ stage[b] = "connecting" /\ stage' = [stage EXCEPT ![b] = "over"]
      /\ status' = [status EXCEPT ![b] = "connected"]
      /\ open' = open \cup {b} /\ default' \in {default, called[b]}
      /\ UNCHANGED <<habit, table, called, label, holder>>
      BY DEF Connected
<1>2. BrowserTypes /\ Ids' = Ids /\ \A c : Listed(c)' <=> Listed(c)
      BY <1>1 DEF BrowsersInv, Ids, Listed
<1>3. /\ stage' \in Seq(BrowserStages) /\ Len(stage') = Len(stage)
      /\ stage'[b] = "over" /\ \A c \in Ids : c # b => stage'[c] = stage[c]
      BY <1>1, <1>2, StageAt DEF BrowserStages
<1>4. /\ status' \in Seq(BrowserStates) /\ Len(status') = Len(status)
      /\ \A c \in Ids : c # b => status'[c] = status[c]
      BY <1>1, <1>2, StatusAt DEF BrowserStates
<1>5. BrowserTypes'
      BY <1>1, <1>2, <1>3, <1>4 DEF BrowserTypes
<1>6. ASSUME Patient PROVE PatientInv'
  <2>1. PatientInv /\ holder = 0 /\ label[b] = called[b] /\ Listed(b)
        BY <1>1, <1>6 DEF BrowsersInv, PatientInv, HeldIsListed, NewAreListed
  <2>2. TableNames' /\ NobodyAsks' /\ HeldIsListed'
        BY <1>1, <1>2, <1>3, <2>1
           DEF PatientInv, TableNames, NobodyAsks, HeldIsListed
  <2>3. NewAreListed'
        BY <1>1, <1>2, <1>3, <2>1 DEF PatientInv, NewAreListed
  <2>4. DefaultIsOver'
        BY <1>1, <1>3, <2>1 DEF PatientInv, DefaultIsOver, Listed, TableNames
  <2>5. FailedInError'
        BY <1>2, <1>3, <1>4, <2>1 DEF PatientInv, FailedInError
  <2>6. OpenAreKnown'
        BY <1>1, <1>2, <1>3, <1>4, <2>1 DEF PatientInv, OpenAreKnown
  <2> QED
        BY <2>2, <2>3, <2>4, <2>5, <2>6 DEF PatientInv
<1> QED
      BY <1>1, <1>5, <1>6 DEF BrowsersInv, Patient

LEMMA FailsKeeps == ASSUME BrowsersInv, NEW b \in Ids, Fails(b) PROVE BrowsersInv'
<1>1. /\ stage[b] = "connecting" /\ stage' = [stage EXCEPT ![b] = "failed"]
      /\ status' = [status EXCEPT ![b] = "error"]
      /\ open' \subseteq open \cup {b}
      /\ UNCHANGED <<habit, table, called, label, default, holder>>
      BY DEF Fails
<1>2. BrowserTypes /\ Ids' = Ids /\ \A c : Listed(c)' <=> Listed(c)
      BY <1>1 DEF BrowsersInv, Ids, Listed
<1>3. /\ stage' \in Seq(BrowserStages) /\ Len(stage') = Len(stage)
      /\ stage'[b] = "failed" /\ \A c \in Ids : c # b => stage'[c] = stage[c]
      BY <1>1, <1>2, StageAt DEF BrowserStages
<1>4. /\ status' \in Seq(BrowserStates) /\ Len(status') = Len(status)
      /\ status'[b] = "error" /\ \A c \in Ids : c # b => status'[c] = status[c]
      BY <1>1, <1>2, StatusAt DEF BrowserStates
<1>5. BrowserTypes'
      BY <1>1, <1>2, <1>3, <1>4 DEF BrowserTypes
<1>6. ASSUME Patient PROVE PatientInv'
  <2>1. PatientInv /\ holder = 0 /\ label[b] = called[b] /\ Listed(b)
        BY <1>1, <1>6 DEF BrowsersInv, PatientInv, HeldIsListed, NewAreListed
  <2>2. TableNames' /\ NobodyAsks' /\ HeldIsListed'
        BY <1>1, <1>2, <1>3, <2>1
           DEF PatientInv, TableNames, NobodyAsks, HeldIsListed
  <2>3. NewAreListed'
        BY <1>1, <1>2, <1>3, <2>1 DEF PatientInv, NewAreListed
  <2>4. DefaultIsOver'
        BY <1>1, <1>3, <2>1 DEF PatientInv, DefaultIsOver, TableNames
  <2>5. FailedInError'
        BY <1>2, <1>3, <1>4, <2>1 DEF PatientInv, FailedInError
  <2>6. OpenAreKnown'
        BY <1>1, <1>2, <1>3, <1>4, <2>1 DEF PatientInv, OpenAreKnown
  <2> QED
        BY <2>2, <2>3, <2>4, <2>5, <2>6 DEF PatientInv
<1> QED
      BY <1>1, <1>5, <1>6 DEF BrowsersInv, Patient

(* The failed browser's name is its own, and not the default.               *)
LEMMA CleanUpKeeps == ASSUME BrowsersInv, NEW b \in Ids, CleanUp(b) PROVE BrowsersInv'
<1>1. /\ stage[b] = "failed" /\ stage' = [stage EXCEPT ![b] = "over"]
      /\ table' = Less(table, called[b])
      /\ UNCHANGED <<habit, called, label, status, open, default, holder>>
      BY DEF CleanUp
<1>2. BrowserTypes /\ Ids' = Ids
      BY <1>1 DEF BrowsersInv, Ids
<1>3. /\ stage' \in Seq(BrowserStages) /\ Len(stage') = Len(stage)
      /\ stage'[b] = "over" /\ \A c \in Ids : c # b => stage'[c] = stage[c]
      BY <1>1, <1>2, StageAt DEF BrowserStages
<1>4. /\ DOMAIN table' = DOMAIN table \ {called[b]}
      /\ \A n \in DOMAIN table' : table'[n] = table[n]
      BY <1>1 DEF Less
<1>5. BrowserTypes'
      BY <1>1, <1>2, <1>3, <1>4 DEF BrowserTypes
<1>6. ASSUME Patient PROVE PatientInv'
  <2>1. PatientInv /\ holder = 0 /\ label[b] = called[b] /\ Listed(b)
        BY <1>1, <1>6 DEF BrowsersInv, PatientInv, HeldIsListed, NewAreListed
  <2>2. \A c \in Ids \ {b} : Listed(c) => Listed(c)'
        BY <1>1, <1>4, <2>1 DEF Listed
  <2>3. TableNames' /\ NobodyAsks'
        BY <1>1, <1>2, <1>3, <1>4, <2>1 DEF PatientInv, TableNames, NobodyAsks
  <2>4. HeldIsListed'
        BY <1>1, <2>1 DEF HeldIsListed
  <2>5. NewAreListed'
        BY <1>1, <1>2, <1>3, <2>1, <2>2 DEF PatientInv, NewAreListed
  <2>6. DefaultIsOver'
    <3>1. CASE default = NoName
          BY <1>1, <3>1 DEF DefaultIsOver
    <3>2. CASE default # NoName
      <4>1. default \in DOMAIN table /\ stage[table[default]] = "over"
            BY <2>1, <3>2 DEF PatientInv, DefaultIsOver
      <4>2. table[default] # b /\ table[default] \in Ids
            BY <1>1, <2>1, <4>1 DEF PatientInv, TableNames
      <4>3. default # called[b]
            BY <2>1, <4>2 DEF Listed
      <4> QED
            BY <1>1, <1>3, <1>4, <4>1, <4>2, <4>3 DEF DefaultIsOver
    <3> QED
          BY <3>1, <3>2
  <2>7. FailedInError'
        BY <1>1, <1>2, <1>3, <2>1 DEF PatientInv, FailedInError
  <2>8. OpenAreKnown'
        BY <1>1, <1>2, <1>3, <2>1, <2>2 DEF PatientInv, OpenAreKnown, FailedInError
  <2> QED
        BY <2>3, <2>4, <2>5, <2>6, <2>7, <2>8 DEF PatientInv
<1> QED
      BY <1>1, <1>5, <1>6 DEF BrowsersInv, Patient

LEMMA SettledIsOver ==
    ASSUME BrowsersInv, Patient, Settled PROVE \A b \in Ids : stage[b] = "over"
BY DEF Patient, Settled

LEMMA DestroyKeeps == ASSUME BrowsersInv, NEW n \in Names, Destroy(n) PROVE BrowsersInv'
<1>1. /\ n \in DOMAIN table /\ Settled /\ holder' = table[n]
      /\ UNCHANGED <<habit, table, called, label, stage, status, open, default>>
      BY DEF Destroy
<1>2. BrowserTypes' /\ Ids' = Ids /\ \A c : Listed(c)' <=> Listed(c)
      BY <1>1 DEF BrowsersInv, BrowserTypes, Ids, Listed
<1>3. ASSUME Patient PROVE PatientInv'
  <2>1. PatientInv /\ \A b \in Ids : stage[b] = "over"
        BY <1>1, <1>3, SettledIsOver DEF BrowsersInv
  <2>2. TableNames' /\ NobodyAsks' /\ NewAreListed' /\ FailedInError'
        BY <1>1, <1>2, <2>1
           DEF PatientInv, TableNames, NobodyAsks, NewAreListed, FailedInError
  <2>3. DefaultIsOver' /\ OpenAreKnown'
        BY <1>1, <1>2, <2>1 DEF PatientInv, DefaultIsOver, OpenAreKnown
  <2>4. table[n] \in Ids /\ Listed(table[n])
        BY <1>1, <2>1 DEF PatientInv, TableNames, Listed
  <2>5. HeldIsListed'
        BY <1>1, <1>2, <2>1, <2>4 DEF HeldIsListed
  <2> QED
        BY <2>2, <2>3, <2>5 DEF PatientInv
<1> QED
      BY <1>1, <1>2, <1>3 DEF BrowsersInv, Patient

LEMMA DestroyedKeeps == ASSUME BrowsersInv, NEW b \in Ids, Destroyed(b) PROVE BrowsersInv'
<1>1. /\ holder = b /\ holder' = 0 /\ open' = open \ {b}
      /\ table' = Less(table, label[b])
      /\ default' \in IF default # label[b] THEN {default}
                      ELSE IF DOMAIN table' = {} THEN {NoName} ELSE DOMAIN table'
      /\ UNCHANGED <<habit, called, label, stage, status>>
      BY DEF Destroyed, Gone
<1>2. BrowserTypes /\ Ids' = Ids /\ b # 0
      BY <1>1 DEF BrowsersInv, Ids
<1>3. /\ DOMAIN table' = DOMAIN table \ {label[b]}
      /\ \A n \in DOMAIN table' : table'[n] = table[n]
      BY <1>1 DEF Less
<1>4. BrowserTypes'
      BY <1>1, <1>2, <1>3 DEF BrowserTypes
<1>5. ASSUME Patient PROVE PatientInv'
  <2>1. PatientInv /\ Listed(b) /\ \A c \in Ids : stage[c] = "over"
        BY <1>1, <1>2, <1>5 DEF BrowsersInv, PatientInv, HeldIsListed
  <2>2. \A c \in Ids \ {b} : Listed(c) => Listed(c)'
        BY <1>1, <1>3, <2>1 DEF Listed
  <2>3. TableNames' /\ NobodyAsks' /\ NewAreListed' /\ FailedInError'
        BY <1>1, <1>2, <1>3, <2>1
           DEF PatientInv, TableNames, NobodyAsks, NewAreListed, FailedInError
  <2>4. HeldIsListed'
        BY <1>1 DEF HeldIsListed
  <2>5. default' # NoName => default' \in DOMAIN table'
        BY <1>1, <1>3, <2>1 DEF PatientInv, DefaultIsOver
  <2>6. DefaultIsOver'
        BY <1>1, <1>3, <2>1, <2>5 DEF PatientInv, DefaultIsOver, TableNames
  <2>7. OpenAreKnown'
        BY <1>1, <1>2, <2>1, <2>2 DEF PatientInv, OpenAreKnown
  <2> QED
        BY <2>3, <2>4, <2>6, <2>7 DEF PatientInv
<1> QED
      BY <1>1, <1>4, <1>5 DEF BrowsersInv, Patient

LEMMA RenameKeeps ==
    ASSUME BrowsersInv, NEW old \in Names, NEW new \in Names, Rename(old, new)
    PROVE  BrowsersInv'
<1>1. PICK b : b = table[old]
      OBVIOUS
<1>2. /\ LockFree /\ old \in DOMAIN table /\ new \notin DOMAIN table /\ Settled
      /\ label' = [label EXCEPT ![b] = new]
      /\ table' = Entry(Less(table, old), new, b)
      /\ default' = IF default = old THEN new ELSE default
      /\ UNCHANGED <<habit, called, stage, status, open, holder>>
      BY <1>1 DEF Rename
<1>3. BrowserTypes /\ Ids' = Ids
      BY <1>2 DEF BrowsersInv, Ids
<1>4. /\ DOMAIN table' = (DOMAIN table \ {old}) \cup {new} /\ table'[new] = b
      /\ \A n \in DOMAIN table \ {old} : table'[n] = table[n]
      BY <1>2 DEF Entry, Less
<1>5. /\ label' \in Seq(Names) /\ Len(label') = Len(label)
      /\ b \in Ids => label'[b] = new
      /\ \A c \in Ids : c # b => label'[c] = label[c]
  <2>1. CASE b \in Ids
        BY <1>2, <1>3, <2>1, BrowserFacts DEF BrowserTypes
  <2>2. CASE b \notin Ids
    <3>1. label' = label
          BY <1>2, <1>3, <2>2, BrowserFacts DEF BrowserTypes
    <3> QED
          BY <1>3, <2>2, <3>1 DEF BrowserTypes
  <2> QED
        BY <2>1, <2>2
<1>6. BrowserTypes'
      BY <1>2, <1>3, <1>4, <1>5 DEF BrowserTypes
<1>7. ASSUME Patient PROVE PatientInv'
  <2>1. PatientInv /\ holder = 0 /\ \A c \in Ids : stage[c] = "over"
        BY <1>2, <1>7, SettledIsOver DEF BrowsersInv, LockFree
  <2>2. b \in Ids /\ label[b] = old
        BY <1>1, <1>2, <2>1 DEF PatientInv, TableNames
  <2>3. TableNames'
        BY <1>2, <1>3, <1>4, <1>5, <2>1, <2>2 DEF PatientInv, TableNames
  <2>4. ASSUME NEW c \in Ids, Listed(c) PROVE Listed(c)'
    <3>1. CASE c = b
          BY <1>4, <1>5, <3>1 DEF Listed
    <3>2. CASE c # b
      <4>1. label[c] \in DOMAIN table \ {old} /\ table[label[c]] = c
            BY <1>1, <2>4, <3>2 DEF Listed
      <4> QED
            BY <1>4, <1>5, <3>2, <4>1 DEF Listed
    <3> QED
          BY <3>1, <3>2
  <2>5. NobodyAsks' /\ NewAreListed' /\ FailedInError' /\ HeldIsListed'
        BY <1>2, <1>3, <2>1
           DEF PatientInv, NobodyAsks, NewAreListed, FailedInError, HeldIsListed
  <2>6. DefaultIsOver'
    <3>1. CASE default = old
          BY <1>2, <1>4, <2>1, <2>2, <3>1 DEF DefaultIsOver
    <3>2. CASE default # old
          BY <1>2, <1>4, <2>1, <3>2 DEF PatientInv, DefaultIsOver
    <3> QED
          BY <3>1, <3>2
  <2>7. OpenAreKnown'
        BY <1>2, <1>3, <2>1, <2>4 DEF PatientInv, OpenAreKnown
  <2> QED
        BY <2>3, <2>5, <2>6, <2>7 DEF PatientInv
<1> QED
      BY <1>2, <1>6, <1>7 DEF BrowsersInv, Patient

LEMMA SetDefaultKeeps ==
    ASSUME BrowsersInv, NEW n \in Names, SetDefault(n) PROVE BrowsersInv'
<1>1. /\ n \in DOMAIN table /\ Settled /\ default' = n
      /\ UNCHANGED <<habit, table, called, label, stage, status, open, holder>>
      BY DEF SetDefault
<1>2. BrowserTypes' /\ Ids' = Ids /\ \A c : Listed(c)' <=> Listed(c)
      BY <1>1 DEF BrowsersInv, BrowserTypes, Ids, Listed
<1>3. ASSUME Patient PROVE PatientInv'
  <2>1. PatientInv /\ \A b \in Ids : stage[b] = "over"
        BY <1>1, <1>3, SettledIsOver DEF BrowsersInv
  <2>2. TableNames' /\ NobodyAsks' /\ NewAreListed' /\ FailedInError'
        BY <1>1, <1>2, <2>1
           DEF PatientInv, TableNames, NobodyAsks, NewAreListed, FailedInError
  <2>3. HeldIsListed' /\ OpenAreKnown'
        BY <1>1, <1>2, <2>1 DEF PatientInv, HeldIsListed, OpenAreKnown
  <2>4. DefaultIsOver'
        BY <1>1, <2>1 DEF PatientInv, DefaultIsOver, TableNames
  <2> QED
        BY <2>2, <2>3, <2>4 DEF PatientInv
<1> QED
      BY <1>1, <1>2, <1>3 DEF BrowsersInv, Patient

(* The poll only ever tells that a browser is gone.                         *)
LEMMA PolledKeeps == ASSUME BrowsersInv, Polled PROVE BrowsersInv'
<1>1. /\ status' = [status EXCEPT ![polling.of] = "error"] \/ status' = status
      /\ UNCHANGED <<habit, table, called, label, stage, open, default, holder>>
      BY DEF Polled
<1>2. BrowserTypes /\ Ids' = Ids /\ \A c : Listed(c)' <=> Listed(c)
      BY <1>1 DEF BrowsersInv, Ids, Listed
<1>3. /\ status' \in Seq(BrowserStates) /\ Len(status') = Len(status)
      /\ \A c \in Ids : status[c] = "error" => status'[c] = "error"
  <2>1. CASE status' = status
        BY <1>2, <2>1 DEF BrowserTypes
  <2>2. CASE status' = [status EXCEPT ![polling.of] = "error"] /\ polling.of \in Ids
        BY <1>2, <2>2, StatusAt DEF BrowserStates
  <2>3. CASE status' = [status EXCEPT ![polling.of] = "error"] /\ polling.of \notin Ids
    <3>1. status' = status
          BY <1>2, <2>3, BrowserFacts DEF BrowserTypes
    <3> QED
          BY <2>1, <3>1
  <2> QED
        BY <1>1, <2>1, <2>2, <2>3
<1>4. BrowserTypes'
      BY <1>1, <1>2, <1>3 DEF BrowserTypes
<1>5. ASSUME PatientInv PROVE PatientInv'
  <2>1. TableNames' /\ NobodyAsks' /\ NewAreListed' /\ HeldIsListed'
        BY <1>1, <1>2, <1>5
           DEF PatientInv, TableNames, NobodyAsks, NewAreListed, HeldIsListed
  <2>2. DefaultIsOver' /\ FailedInError'
        BY <1>1, <1>2, <1>3, <1>5 DEF PatientInv, DefaultIsOver, FailedInError
  <2>3. OpenAreKnown'
        BY <1>1, <1>2, <1>3, <1>5 DEF PatientInv, OpenAreKnown
  <2> QED
        BY <2>1, <2>2, <2>3 DEF PatientInv
<1> QED
      BY <1>1, <1>4, <1>5 DEF BrowsersInv, Patient

LEMMA BrowsersInvHolds == BrowsersSpec => []BrowsersInv
<1>1. BrowsersInit => BrowsersInv
      BY BrowsersInitially
<1>2. ASSUME BrowsersInv, [BrowsersNext]_browserVars PROVE BrowsersInv'
  <2>1. ASSUME NEW b \in Ids, Register(b) \/ CleanUp(b) \/ Destroyed(b)
                              \/ Connected(b) \/ Fails(b)
        PROVE  BrowsersInv'
        BY <1>2, <2>1, RegisterKeeps, CleanUpKeeps, DestroyedKeeps, ConnectedKeeps,
           FailsKeeps
  <2>2. ASSUME NEW n \in Names, Create(n) \/ Destroy(n) \/ SetDefault(n)
        PROVE  BrowsersInv'
        BY <1>2, <2>2, CreateKeeps, DestroyKeeps, SetDefaultKeeps
  <2>3. ASSUME NEW n \in Names, NEW m \in Names, Rename(n, m) PROVE BrowsersInv'
        BY <1>2, <2>3, RenameKeeps
  <2>4. CASE Polled
        BY <1>2, <2>4, PolledKeeps
  <2>5. ASSUME \/ \E b \in Ids : PollBrowser(b) \/ WentTo(b) \/ Goto(b) \/ GetUrl(b)
               \/ \E b \in Ids : Wander(b) \/ CloseTab(b) \/ Crash(b)
               \/ PollEnds \/ UNCHANGED browserVars
        PROVE  BrowsersInv'
    <3>1. habit' = habit /\ open' \subseteq open
          /\ UNCHANGED <<table, called, label, stage, status, default, holder>>
          BY <2>5 DEF PollBrowser, WentTo, Goto, GetUrl, Wander, CloseTab, Crash,
                      PollEnds, browserVars
    <3> QED
          BY <1>2, <3>1, PagesKeep
  <2>6. CASE Serves
        BY <2>1, <2>4, <2>5, <2>6 DEF Serves
  <2>7. CASE \E b \in Ids : ActOnPage(b) \/ Revisit(b) \/ FillInput(b) \/ OpenTab(b)
                            \/ CloseTab(b)
        BY <2>5, <2>7 DEF ActOnPage, Revisit, FillInput, OpenTab
  <2> QED
        BY <1>2, <2>1, <2>2, <2>3, <2>5, <2>6, <2>7 DEF BrowsersNext
<1> QED
      BY <1>1, <1>2, PTL DEF BrowsersSpec

(* For any number of names and browsers: with patient users the table has    *)
(* every browser that runs, and the default among them, however starts,      *)
(* failures, renames and stops overlap.                                      *)
THEOREM TableCorrect == BrowsersSpec => []TableSound
<1>1. BrowsersInv => TableSound
      BY DEF BrowsersInv, PatientInv, OpenAreKnown, DefaultIsOver, TableSound, OpenIsListed,
             DefaultIsListed
<1> QED
      BY <1>1, BrowsersInvHolds, PTL

-----------------------------------------------------------------------------
(* What watchers are told of their target: each exchange has its own        *)
(* number, a helper is the only one that tells it, and the question about   *)
(* it is put by who has just told it.                                       *)

WatchedTurns == [id : Nat, who : {"user", "assistant"}]
LogEntries == [kind : {"start", "stop", "summary", "prompt", "answer"}, index : Nat]
Helping == [watcher : Watchers, index : Nat, tells : SUBSET {"user", "assistant"},
            knows : Nat, done : BOOLEAN]

IdsOf(turns) == {turns[i].id : i \in DOMAIN turns}
AsksOf(turns) == {i \in DOMAIN turns : turns[i].who = "user"}
FirstIn(turns, id) ==
    CHOOSE i \in DOMAIN turns :
        turns[i].id = id /\ \A j \in 1..(i - 1) : turns[j].id # id
IndexIn(turns, id) == Cardinality({turns[i].id : i \in 1..FirstIn(turns, id)})
IdsUpTo(turns, n) == \A i \in DOMAIN turns : turns[i].id <= n

LEMMA IdsFinite ==
    ASSUME NEW turns \in Seq(WatchedTurns), NEW n \in Nat, IdsUpTo(turns, n),
           NEW S \in SUBSET IdsOf(turns)
    PROVE  IsFiniteSet(S) /\ Cardinality(S) \in Nat
  <1>1. \A i \in DOMAIN turns : turns[i].id \in 0..n
    <2> SUFFICES ASSUME NEW i \in DOMAIN turns PROVE turns[i].id \in 0..n
      OBVIOUS
    <2>1. turns[i] \in WatchedTurns
      OBVIOUS
    <2>2. turns[i].id \in Nat
      BY <2>1 DEF WatchedTurns
    <2> QED  BY <2>2 DEF IdsUpTo
  <1>2. S \subseteq 0..n
    BY <1>1 DEF IdsOf
  <1>3. IsFiniteSet(0..n)
    BY FS_Interval
  <1> QED  BY <1>2, <1>3, FS_Subset, FS_CardinalityType

LEMMA TurnAppended ==
    ASSUME NEW turns \in Seq(WatchedTurns), NEW x \in WatchedTurns
    PROVE  /\ IdsOf(Append(turns, x)) = IdsOf(turns) \cup {x.id}
           /\ Cardinality(AsksOf(turns)) \in Nat
           /\ Cardinality(AsksOf(Append(turns, x)))
                = IF x.who = "user" THEN Cardinality(AsksOf(turns)) + 1
                  ELSE Cardinality(AsksOf(turns))
  <1> DEFINE more == Append(turns, x)
  <1>1. /\ more \in Seq(WatchedTurns) /\ Len(more) = Len(turns) + 1
        /\ \A i \in 1..Len(turns) : more[i] = turns[i]
        /\ more[Len(turns) + 1] = x
    BY Appended
  <1>2. Len(turns) \in Nat /\ DOMAIN turns = 1..Len(turns)
        /\ DOMAIN more = 1..(Len(turns) + 1)
    BY <1>1
  <1> HIDE DEF more
  <1>3. IdsOf(more) = IdsOf(turns) \cup {x.id}
    <2>1. \A i \in DOMAIN more : i \in DOMAIN turns \/ i = Len(turns) + 1
      BY <1>2
    <2>2. \A i \in DOMAIN turns : i \in DOMAIN more
      BY <1>2
    <2>3. Len(turns) + 1 \in DOMAIN more
      BY <1>2
    <2> QED  BY <1>1, <1>2, <2>1, <2>2, <2>3 DEF IdsOf
  <1>4. AsksOf(more) = IF x.who = "user" THEN AsksOf(turns) \cup {Len(turns) + 1}
                       ELSE AsksOf(turns)
    BY <1>1, <1>2 DEF AsksOf
  <1>5. IsFiniteSet(AsksOf(turns)) /\ Cardinality(AsksOf(turns)) \in Nat
    <2>1. IsFiniteSet(1..Len(turns))
      BY <1>2, FS_Interval
    <2>2. AsksOf(turns) \subseteq 1..Len(turns)
      BY <1>2 DEF AsksOf
    <2> QED  BY <2>1, <2>2, FS_Subset, FS_CardinalityType
  <1>6. Len(turns) + 1 \notin AsksOf(turns)
    BY <1>2 DEF AsksOf
  <1>7. Cardinality(AsksOf(turns) \cup {Len(turns) + 1}) = Cardinality(AsksOf(turns)) + 1
    BY <1>5, <1>6, FS_AddElement
  <1> QED  BY <1>3, <1>4, <1>5, <1>7 DEF more

(* The first turn that bears an id.                                         *)
LEMMA FirstFound ==
    ASSUME NEW turns \in Seq(WatchedTurns), NEW id \in IdsOf(turns)
    PROVE  /\ FirstIn(turns, id) \in DOMAIN turns
           /\ turns[FirstIn(turns, id)].id = id
           /\ \A j \in 1..(FirstIn(turns, id) - 1) : turns[j].id # id
  <1> DEFINE Bears == {i \in DOMAIN turns : turns[i].id = id}
  <1>1. Bears # {} /\ Bears \subseteq Nat
    BY DEF IdsOf
  <1>2. PICK i \in Bears : \A j \in Bears : i <= j
    <2> HIDE DEF Bears
    <2> QED  BY <1>1, Least
  <1>3. \A j \in 1..(i - 1) : turns[j].id # id
    <2> SUFFICES ASSUME NEW j \in 1..(i - 1), turns[j].id = id PROVE FALSE
      OBVIOUS
    <2>1. j \in DOMAIN turns /\ j < i
      BY <1>2
    <2> QED  BY <1>2, <2>1
  <1>4. \E k \in DOMAIN turns : turns[k].id = id /\ \A j \in 1..(k - 1) : turns[j].id # id
    BY <1>2, <1>3
  <1> QED  BY <1>4 DEF FirstIn

LEMMA FirstIsThis ==
    ASSUME NEW turns \in Seq(WatchedTurns), NEW id, NEW i \in DOMAIN turns,
           turns[i].id = id, \A j \in 1..(i - 1) : turns[j].id # id
    PROVE  FirstIn(turns, id) = i
  <1>1. id \in IdsOf(turns)
    BY DEF IdsOf
  <1> DEFINE k == FirstIn(turns, id)
  <1>2. k \in DOMAIN turns /\ turns[k].id = id /\ \A j \in 1..(k - 1) : turns[j].id # id
    BY <1>1, FirstFound
  <1> HIDE DEF k
  <1>3. i \in Nat /\ k \in Nat /\ i >= 1 /\ k >= 1
    BY <1>2
  <1>4. ~(i < k) /\ ~(k < i)
    BY <1>2, <1>3
  <1> QED  BY <1>3, <1>4 DEF k

LEMMA IndexInRange ==
    ASSUME NEW turns \in Seq(WatchedTurns), NEW n \in Nat, IdsUpTo(turns, n),
           NEW id \in IdsOf(turns)
    PROVE  /\ Cardinality(IdsOf(turns)) \in Nat
           /\ IndexIn(turns, id) \in 1..Cardinality(IdsOf(turns))
  <1> DEFINE k == FirstIn(turns, id)
  <1> DEFINE S == {turns[i].id : i \in 1..k}
  <1>1. k \in DOMAIN turns
    BY FirstFound
  <1>2. S \subseteq IdsOf(turns)
    BY <1>1 DEF IdsOf
  <1>3. turns[k].id \in S
    BY <1>1
  <1> HIDE DEF S
  <1>4. /\ IsFiniteSet(S) /\ Cardinality(S) \in Nat
        /\ IsFiniteSet(IdsOf(turns)) /\ Cardinality(IdsOf(turns)) \in Nat
    BY <1>2, IdsFinite
  <1>5. Cardinality(S) <= Cardinality(IdsOf(turns))
    BY <1>2, <1>4, FS_Subset
  <1>6. Cardinality(S) # 0
    BY <1>3, <1>4, FS_EmptySet
  <1>7. IndexIn(turns, id) = Cardinality(S)
    BY DEF IndexIn, S
  <1> QED  BY <1>4, <1>5, <1>6, <1>7

LEMMA IndexStays ==
    ASSUME NEW turns \in Seq(WatchedTurns), NEW x \in WatchedTurns,
           NEW id \in IdsOf(turns)
    PROVE  IndexIn(Append(turns, x), id) = IndexIn(turns, id)
  <1> DEFINE more == Append(turns, x)
  <1> DEFINE k == FirstIn(turns, id)
  <1>1. /\ more \in Seq(WatchedTurns) /\ Len(more) = Len(turns) + 1
        /\ \A i \in 1..Len(turns) : more[i] = turns[i]
    BY Appended
  <1> HIDE DEF more
  <1>2. k \in DOMAIN turns /\ turns[k].id = id /\ \A j \in 1..(k - 1) : turns[j].id # id
    BY FirstFound
  <1> HIDE DEF k
  <1>3. k \in DOMAIN more /\ \A j \in 1..k : more[j] = turns[j]
    BY <1>1, <1>2
  <1>4. more[k].id = id /\ \A j \in 1..(k - 1) : more[j].id # id
    BY <1>2, <1>3
  <1>5. FirstIn(more, id) = k
    BY <1>1, <1>3, <1>4, FirstIsThis
  <1>6. {more[i].id : i \in 1..k} = {turns[i].id : i \in 1..k}
    BY <1>3
  <1> QED  BY <1>5, <1>6 DEF IndexIn, k, more

LEMMA IndexNew ==
    ASSUME NEW turns \in Seq(WatchedTurns), NEW n \in Nat, IdsUpTo(turns, n),
           NEW x \in WatchedTurns, x.id \notin IdsOf(turns)
    PROVE  /\ Cardinality(IdsOf(turns)) \in Nat
           /\ IndexIn(Append(turns, x), x.id) = Cardinality(IdsOf(turns)) + 1
           /\ Cardinality(IdsOf(Append(turns, x))) = Cardinality(IdsOf(turns)) + 1
  <1> DEFINE more == Append(turns, x)
  <1> DEFINE k == Len(turns) + 1
  <1>1. /\ more \in Seq(WatchedTurns) /\ Len(more) = Len(turns) + 1
        /\ \A i \in 1..Len(turns) : more[i] = turns[i]
        /\ more[k] = x
    BY Appended
  <1>2. IdsOf(more) = IdsOf(turns) \cup {x.id}
    BY TurnAppended
  <1> HIDE DEF more
  <1>3. k \in DOMAIN more /\ DOMAIN more = 1..k
    BY <1>1
  <1>4. \A j \in 1..(k - 1) : more[j].id # x.id
    BY <1>1 DEF IdsOf
  <1>5. FirstIn(more, x.id) = k
    BY <1>1, <1>3, <1>4, FirstIsThis
  <1>6. {more[i].id : i \in 1..k} = IdsOf(more)
    BY <1>3 DEF IdsOf
  <1>7. IsFiniteSet(IdsOf(turns)) /\ Cardinality(IdsOf(turns)) \in Nat
    BY IdsFinite
  <1>8. Cardinality(IdsOf(more)) = Cardinality(IdsOf(turns)) + 1
    BY <1>2, <1>7, FS_AddElement
  <1> QED  BY <1>5, <1>6, <1>7, <1>8 DEF IndexIn, more

-----------------------------------------------------------------------------
(* A watcher's turns                                                        *)

Tells(list, kind, n) == \E i \in DOMAIN list : list[i] = LogEntry(kind, n)
OnceEach(list) ==
    \A i, j \in DOMAIN list :
        /\ list[i].kind \in {"summary", "prompt"} /\ list[i].index # 0
        /\ list[i] = list[j]
        => i = j
ToldFirst(list) ==
    \A i \in DOMAIN list :
        list[i].kind = "prompt" /\ list[i].index # 0 =>
            \E j \in 1..(i - 1) : list[j] = LogEntry("summary", list[i].index)
NumberedUpTo(list, n) == \A i \in DOMAIN list : list[i].index <= n
Sound(list) == OnceEach(list) /\ ToldFirst(list)

LEMMA TellsMore ==
    ASSUME NEW list \in Seq(LogEntries), NEW x \in LogEntries, NEW kind, NEW n
    PROVE  Tells(Append(list, x), kind, n) <=> Tells(list, kind, n) \/ x = LogEntry(kind, n)
  <1> DEFINE more == Append(list, x)
  <1>1. /\ more \in Seq(LogEntries) /\ Len(more) = Len(list) + 1
        /\ \A i \in 1..Len(list) : more[i] = list[i]
        /\ more[Len(list) + 1] = x
    BY Appended
  <1> HIDE DEF more
  <1>2. /\ \A i \in DOMAIN more : i \in DOMAIN list \/ i = Len(list) + 1
        /\ \A i \in DOMAIN list : i \in DOMAIN more /\ more[i] = list[i]
        /\ Len(list) + 1 \in DOMAIN more
    BY <1>1
  <1> QED  BY <1>1, <1>2 DEF Tells, more

LEMMA NumberedMore ==
    ASSUME NEW list \in Seq(LogEntries), NEW x \in LogEntries, NEW n \in Nat,
           NumberedUpTo(list, n), x.index <= n
    PROVE  NumberedUpTo(Append(list, x), n)
  BY DEF NumberedUpTo

LEMMA NumberedHigher ==
    ASSUME NEW list \in Seq(LogEntries), NEW n \in Nat, NEW m \in Nat, n <= m,
           NumberedUpTo(list, n)
    PROVE  NumberedUpTo(list, m)
  <1> SUFFICES ASSUME NEW i \in DOMAIN list PROVE list[i].index <= m
    BY DEF NumberedUpTo
  <1>1. list[i] \in LogEntries
    OBVIOUS
  <1>2. list[i].index \in Nat
    BY <1>1 DEF LogEntries
  <1> QED  BY <1>2 DEF NumberedUpTo

(* A log stays sound by a turn without a number, by the first summary of a  *)
(* number, and by the first question about what it was told.                *)
MayFollow(list, x) ==
    \/ x.index = 0
    \/ x.kind = "summary" /\ ~Tells(list, "summary", x.index)
    \/ /\ x.kind = "prompt" /\ ~Tells(list, "prompt", x.index)
       /\ Tells(list, "summary", x.index)

LEMMA SoundMore ==
    ASSUME NEW list \in Seq(LogEntries), NEW x \in LogEntries, Sound(list), MayFollow(list, x)
    PROVE  Append(list, x) \in Seq(LogEntries) /\ Sound(Append(list, x))
  <1> DEFINE more == Append(list, x)
  <1>1. /\ more \in Seq(LogEntries) /\ Len(more) = Len(list) + 1
        /\ \A i \in 1..Len(list) : more[i] = list[i]
        /\ more[Len(list) + 1] = x
    BY Appended
  <1> DEFINE k == Len(list) + 1
  <1>2. /\ k \in Nat /\ k - 1 = Len(list) /\ DOMAIN more = 1..k
        /\ DOMAIN list = 1..(k - 1) /\ more[k] = x
        /\ \A i \in 1..(k - 1) : more[i] = list[i]
    BY <1>1
  <1> HIDE DEF more, k
  <1>3. x = LogEntry(x.kind, x.index)
    BY DEF LogEntries, LogEntry
  <1>4. x.kind \in {"summary", "prompt"} /\ x.index # 0 => \A i \in 1..(k - 1) : list[i] # x
    BY <1>2, <1>3 DEF MayFollow, Tells
  <1>5. OnceEach(more)
    <2> SUFFICES ASSUME NEW i \in 1..k, NEW j \in 1..k,
                        more[i].kind \in {"summary", "prompt"}, more[i].index # 0,
                        more[i] = more[j]
                 PROVE  i = j
      BY <1>2 DEF OnceEach
    <2>1. CASE i # k /\ j # k
      <3>1. i \in DOMAIN list /\ j \in DOMAIN list
        BY <1>2, <2>1
      <3> QED  BY <1>2, <3>1 DEF Sound, OnceEach
    <2>2. CASE i = k /\ j # k
      <3>1. j \in 1..(k - 1)
        BY <1>2, <2>2
      <3> QED  BY <1>2, <1>4, <2>2, <3>1
    <2>3. CASE i # k /\ j = k
      <3>1. i \in 1..(k - 1)
        BY <1>2, <2>3
      <3> QED  BY <1>2, <1>4, <2>3, <3>1
    <2> QED  BY <2>1, <2>2, <2>3
  <1>6. ToldFirst(more)
    <2> SUFFICES ASSUME NEW i \in 1..k, more[i].kind = "prompt", more[i].index # 0
                 PROVE  \E j \in 1..(i - 1) : more[j] = LogEntry("summary", more[i].index)
      BY <1>2 DEF ToldFirst
    <2>1. CASE i # k
      <3>1. i \in 1..(k - 1) /\ i \in DOMAIN list
        BY <1>2, <2>1
      <3>2. PICK j \in 1..(i - 1) : list[j] = LogEntry("summary", list[i].index)
        BY <1>2, <3>1 DEF Sound, ToldFirst
      <3>3. j \in 1..(k - 1)
        BY <1>2, <3>1
      <3> QED  BY <1>2, <3>1, <3>2, <3>3
    <2>2. CASE i = k
      <3>1. Tells(list, "summary", x.index)
        BY <1>2, <2>2 DEF MayFollow
      <3> QED  BY <1>2, <2>2, <3>1 DEF Tells
    <2> QED  BY <2>1, <2>2
  <1> QED  BY <1>1, <1>5, <1>6 DEF Sound, more

LEMMA SoundCut ==
    ASSUME NEW list \in Seq(LogEntries), Sound(list), NEW m \in 0..Len(list), NEW n \in Nat,
           NumberedUpTo(list, n)
    PROVE  /\ SubSeq(list, 1, m) \in Seq(LogEntries) /\ Sound(SubSeq(list, 1, m))
           /\ NumberedUpTo(SubSeq(list, 1, m), n)
  <1> DEFINE cut == SubSeq(list, 1, m)
  <1>1. /\ cut \in Seq(LogEntries) /\ Len(cut) = m
        /\ \A i \in 1..m : cut[i] = list[i]
    OBVIOUS
  <1>2. DOMAIN cut = 1..m /\ m \in Nat /\ \A i \in 1..m : i \in DOMAIN list
    BY <1>1
  <1> HIDE DEF cut
  <1>3. OnceEach(cut)
    BY <1>1, <1>2 DEF Sound, OnceEach
  <1>4. ToldFirst(cut)
    <2> SUFFICES ASSUME NEW i \in 1..m, cut[i].kind = "prompt", cut[i].index # 0
                 PROVE  \E j \in 1..(i - 1) : cut[j] = LogEntry("summary", cut[i].index)
      BY <1>2 DEF ToldFirst
    <2>1. PICK j \in 1..(i - 1) : list[j] = LogEntry("summary", list[i].index)
      BY <1>1, <1>2 DEF Sound, ToldFirst
    <2>2. j \in 1..m
      OBVIOUS
    <2> QED  BY <1>1, <2>1, <2>2
  <1>5. NumberedUpTo(cut, n)
    BY <1>1, <1>2 DEF NumberedUpTo
  <1> QED  BY <1>1, <1>3, <1>4, <1>5 DEF Sound, cut

-----------------------------------------------------------------------------
(* The invariant of watching                                                *)

WatchTypes ==
    /\ target \in Seq(WatchedTurns) /\ talking \in BOOLEAN
    /\ watching \subseteq Watchers
    /\ helpers \subseteq Helping
    /\ log \in [Watchers -> Seq(LogEntries)]

(* Ids are used up in order; the exchange under way is among them.          *)
TargetInv ==
    /\ IdsUpTo(target, 2 * Begun)
    /\ talking => PromptId(Begun) \in IdsOf(target)

(* The exchanges that can have been told: those before the one under way.   *)
Latest == IF talking THEN IndexIn(target, PromptId(Begun)) - 1
          ELSE Cardinality(IdsOf(target))
NumbersInv ==
    /\ \A h \in helpers : h.index \in 1..Latest
    /\ \A w \in Watchers : NumberedUpTo(log[w], Latest)

HelpersInv ==
    /\ \A h, g \in helpers : h.watcher = g.watcher /\ h.index = g.index => h = g
    /\ \A h \in helpers : ~Tells(log[h.watcher], "summary", h.index)
InjectInv ==
    injecting # None =>
        /\ injecting.watcher \in Watchers /\ injecting.index \in 1..Latest
        /\ Tells(log[injecting.watcher], "summary", injecting.index)
        /\ ~Tells(log[injecting.watcher], "prompt", injecting.index)
LogsInv == \A w \in Watchers : Sound(log[w])

ToldInv == HelpersInv /\ InjectInv /\ LogsInv
WatchInv == WatchTypes /\ TargetInv /\ NumbersInv /\ ToldInv

LEMMA BegunIs == Begun = Cardinality(AsksOf(target))
  BY DEF Begun, AsksOf

LEMMA IndexIs == \A id : IndexOfId(id) = IndexIn(target, id)
  BY DEF IndexOfId, IndexIn, FirstOf, FirstIn

LEMMA BegunType == ASSUME WatchTypes PROVE Begun \in Nat
  <1>1. target \in Seq(WatchedTurns)
    BY DEF WatchTypes
  <1>2. [id |-> 0, who |-> "user"] \in WatchedTurns
    BY DEF WatchedTurns
  <1> QED  BY <1>1, <1>2, TurnAppended, BegunIs

LEMMA LatestType ==
    ASSUME WatchTypes, TargetInv
    PROVE  /\ Latest \in Nat /\ Cardinality(IdsOf(target)) \in Nat
           /\ Latest <= Cardinality(IdsOf(target))
           /\ talking => /\ IndexOfId(PromptId(Begun)) = Latest + 1
                         /\ Latest + 1 <= Cardinality(IdsOf(target))
  <1>1. target \in Seq(WatchedTurns) /\ talking \in BOOLEAN
    BY DEF WatchTypes
  <1>2. Begun \in Nat /\ 2 * Begun \in Nat
    BY BegunType
  <1>3. IdsUpTo(target, 2 * Begun)
    BY DEF TargetInv
  <1>4. Cardinality(IdsOf(target)) \in Nat
    BY <1>1, <1>2, <1>3, IdsFinite
  <1> DEFINE k == IndexIn(target, PromptId(Begun))
  <1>5. CASE talking
    <2>1. PromptId(Begun) \in IdsOf(target)
      BY <1>5 DEF TargetInv
    <2>2. k \in 1..Cardinality(IdsOf(target))
      BY <1>1, <1>2, <1>3, <2>1, IndexInRange
    <2>3. IndexOfId(PromptId(Begun)) = k
      BY IndexIs
    <2>4. Latest = k - 1
      BY <1>5 DEF Latest
    <2> HIDE DEF k
    <2> QED  BY <1>4, <2>2, <2>3, <2>4
  <1>6. CASE ~talking
    BY <1>4, <1>6 DEF Latest
  <1> QED  BY <1>1, <1>5, <1>6

(* A prompt begins an exchange whose id is new.                             *)
LEMMA TargetBegins ==
    ASSUME WatchTypes, TargetInv, BeginExchange
    PROVE  /\ target' \in Seq(WatchedTurns) /\ talking' \in BOOLEAN
           /\ TargetInv' /\ Latest' = Cardinality(IdsOf(target))
  <1> DEFINE x == Says(PromptId(Begun + 1), "user")
  <1>1. target \in Seq(WatchedTurns) /\ talking' = TRUE /\ target' = Append(target, x)
    BY DEF WatchTypes, BeginExchange
  <1>2. Begun \in Nat
    BY BegunType
  <1>3. x.id = 2 * Begun + 1 /\ x.who = "user" /\ x \in WatchedTurns
    BY <1>2 DEF Says, PromptId, WatchedTurns
  <1> HIDE DEF x
  <1>4. \A i \in DOMAIN target : target[i].id <= 2 * Begun
    BY DEF TargetInv, IdsUpTo
  <1>5. x.id \notin IdsOf(target)
    BY <1>2, <1>3, <1>4 DEF IdsOf
  <1>6. Begun' = Begun + 1
    <2>1. Begun' = Cardinality(AsksOf(target'))
      BY DEF Begun, AsksOf
    <2> QED  BY <1>1, <1>3, <2>1, TurnAppended, BegunIs
  <1>7. target' \in Seq(WatchedTurns)
    BY <1>1, <1>3
  <1>8. IdsUpTo(target, 2 * Begun) /\ 2 * Begun \in Nat
    BY <1>2 DEF TargetInv
  <1>9. PromptId(Begun)' = x.id
    BY <1>2, <1>3, <1>6 DEF PromptId
  <1>10. TargetInv'
    <2>1. \A i \in DOMAIN target' : target'[i].id <= 2 * (Begun')
      <3> SUFFICES ASSUME NEW i \in DOMAIN target' PROVE target'[i].id <= 2 * (Begun')
        OBVIOUS
      <3>1. CASE i \in DOMAIN target
        <4>1. target'[i] = target[i] /\ target[i] \in WatchedTurns
          BY <1>1, <1>3, <3>1
        <4>2. target[i].id \in Nat
          BY <4>1 DEF WatchedTurns
        <4> QED  BY <1>2, <1>4, <1>6, <3>1, <4>1, <4>2
      <3>2. CASE i \notin DOMAIN target
        <4>1. target'[i] = x
          BY <1>1, <1>3, <3>2
        <4> QED  BY <1>2, <1>3, <1>6, <4>1
      <3> QED  BY <3>1, <3>2
    <2>2. x.id \in IdsOf(target')
      BY <1>1, <1>3, TurnAppended
    <2>3. (PromptId(Begun) \in IdsOf(target))'
      BY <1>9, <2>2 DEF IdsOf
    <2> QED  BY <2>1, <2>3 DEF TargetInv, IdsUpTo
  <1>11. Latest' = Cardinality(IdsOf(target))
    <2>1. /\ Cardinality(IdsOf(target)) \in Nat
          /\ IndexIn(target', x.id) = Cardinality(IdsOf(target)) + 1
      BY <1>1, <1>3, <1>5, <1>8, IndexNew
    <2>2. Latest' = IndexIn(target', PromptId(Begun)') - 1
      BY <1>1 DEF Latest, IndexIn, FirstIn
    <2> QED  BY <1>9, <2>1, <2>2
  <1> QED  BY <1>1, <1>7, <1>10, <1>11

LEMMA TargetAnswers ==
    ASSUME WatchTypes, TargetInv, AnswerTarget
    PROVE  target' \in Seq(WatchedTurns) /\ TargetInv' /\ Latest' = Latest
  <1> DEFINE x == Says(AnswerId(Begun), "assistant")
  <1>1. target \in Seq(WatchedTurns) /\ talking' = talking /\ target' = Append(target, x)
        /\ talking
    BY DEF WatchTypes, AnswerTarget
  <1>2. Begun \in Nat
    BY BegunType
  <1>3. x.id = 2 * Begun /\ x.who # "user" /\ x \in WatchedTurns
    BY <1>2 DEF Says, AnswerId, WatchedTurns
  <1> HIDE DEF x
  <1>4. \A i \in DOMAIN target : target[i].id <= 2 * Begun
    BY DEF TargetInv, IdsUpTo
  <1>5. PromptId(Begun) \in IdsOf(target)
    BY <1>1 DEF TargetInv
  <1>6. Begun' = Begun
    <2>1. Begun' = Cardinality(AsksOf(target'))
      BY DEF Begun, AsksOf
    <2> QED  BY <1>1, <1>3, <2>1, TurnAppended, BegunIs
  <1>7. target' \in Seq(WatchedTurns)
    BY <1>1, <1>3
  <1>8. PromptId(Begun)' = PromptId(Begun)
    BY <1>6 DEF PromptId
  <1>9. TargetInv'
    <2>1. \A i \in DOMAIN target' : target'[i].id <= 2 * (Begun')
      <3> SUFFICES ASSUME NEW i \in DOMAIN target' PROVE target'[i].id <= 2 * (Begun')
        OBVIOUS
      <3>1. CASE i \in DOMAIN target
        <4>1. target'[i] = target[i]
          BY <1>1, <1>3, <3>1
        <4> QED  BY <1>4, <1>6, <3>1, <4>1
      <3>2. CASE i \notin DOMAIN target
        <4>1. target'[i] = x
          BY <1>1, <1>3, <3>2
        <4> QED  BY <1>2, <1>3, <1>6, <4>1
      <3> QED  BY <3>1, <3>2
    <2>2. PromptId(Begun) \in IdsOf(target')
      BY <1>1, <1>3, <1>5, TurnAppended
    <2>3. (PromptId(Begun) \in IdsOf(target))'
      BY <1>8, <2>2 DEF IdsOf
    <2> QED  BY <2>1, <2>3 DEF TargetInv, IdsUpTo
  <1>10. Latest' = Latest
    <2>1. IndexIn(target', PromptId(Begun)) = IndexIn(target, PromptId(Begun))
      BY <1>1, <1>3, <1>5, IndexStays
    <2>2. Latest' = IndexIn(target', PromptId(Begun)') - 1
      BY <1>1 DEF Latest, IndexIn, FirstIn
    <2>3. Latest = IndexIn(target, PromptId(Begun)) - 1
      BY <1>1 DEF Latest
    <2> QED  BY <1>8, <2>1, <2>2, <2>3
  <1> QED  BY <1>7, <1>9, <1>10

LEMMA TargetRests ==
    ASSUME WatchTypes, TargetInv, target' = target, talking' = FALSE
    PROVE  TargetInv' /\ Latest' = Cardinality(IdsOf(target))
  <1>1. Begun' = Begun /\ IdsOf(target') = IdsOf(target)
    BY DEF Begun, IdsOf
  <1>2. TargetInv'
    BY <1>1 DEF TargetInv, IdsUpTo
  <1>3. Latest' = Cardinality(IdsOf(target'))
    BY DEF Latest, IdsOf
  <1> QED  BY <1>1, <1>2, <1>3

LEMMA TargetStays ==
    ASSUME TargetInv, UNCHANGED targetVars
    PROVE  TargetInv' /\ Latest' = Latest
  BY DEF TargetInv, Latest, IdsUpTo, IdsOf, Begun, PromptId, IndexIn, FirstIn, targetVars

(* Nothing told is forgotten or renumbered when the target goes on.         *)
LEMMA NumbersRise ==
    ASSUME WatchTypes, NumbersInv, Latest \in Nat, Latest' \in Nat, Latest <= Latest',
           helpers' \subseteq helpers, log' = log
    PROVE  NumbersInv'
  <1>1. ASSUME NEW h \in helpers' PROVE h.index \in 1..Latest'
    <2>1. h.index \in 1..Latest
      BY <1>1 DEF NumbersInv
    <2> QED  BY <2>1
  <1>2. ASSUME NEW w \in Watchers PROVE NumberedUpTo(log'[w], Latest')
    <2>1. log[w] \in Seq(LogEntries)
      BY DEF WatchTypes
    <2>2. NumberedUpTo(log[w], Latest)
      BY DEF NumbersInv
    <2> QED  BY <2>1, <2>2, NumberedHigher
  <1> QED  BY <1>1, <1>2 DEF NumbersInv, NumberedUpTo

LEMMA ToldStays ==
    ASSUME ToldInv, Latest \in Nat, Latest' \in Nat, Latest <= Latest',
           helpers' \subseteq helpers, log' = log, injecting' = injecting
    PROVE  ToldInv'
  <1>1. HelpersInv'
    BY DEF ToldInv, HelpersInv, Tells
  <1>2. InjectInv'
    <2> SUFFICES ASSUME injecting # None PROVE InjectInv'
      BY DEF InjectInv
    <2>1. injecting.index \in 1..Latest
      BY DEF ToldInv, InjectInv
    <2>2. injecting.index \in 1..Latest'
      BY <2>1
    <2> QED  BY <2>2 DEF ToldInv, InjectInv, Tells, LogEntry
  <1>3. LogsInv'
    BY DEF ToldInv, LogsInv, Sound, OnceEach, ToldFirst
  <1> QED  BY <1>1, <1>2, <1>3 DEF ToldInv

LEMMA OldNumbers ==
    ASSUME WatchTypes, LogsInv, NumbersInv, Latest \in Nat,
           NEW w \in Watchers, NEW kind \in {"summary", "prompt"}, NEW n \in Nat, n > Latest
    PROVE  ~Tells(log[w], kind, n)
  <1> SUFFICES ASSUME NEW i \in DOMAIN log[w], log[w][i] = LogEntry(kind, n) PROVE FALSE
    BY DEF Tells
  <1>1. log[w][i].index <= Latest
    BY DEF NumbersInv, NumberedUpTo
  <1>2. log[w][i].index = n
    BY DEF LogEntry
  <1> QED  BY <1>1, <1>2

(* The helpers that a completed exchange starts.                            *)
LEMMA Notifies ==
    ASSUME WatchInv, talking, Notify(PromptId(Begun)), log' = log,
           injecting = None, injecting' = injecting,
           Latest' = Cardinality(IdsOf(target))
    PROVE  helpers' \subseteq Helping /\ NumbersInv' /\ ToldInv'
  <1> DEFINE n == IndexOfId(PromptId(Begun))
  <1>1. /\ Latest \in Nat /\ Latest' \in Nat /\ n = Latest + 1 /\ n <= Latest'
    BY LatestType DEF WatchInv
  <1>2. /\ helpers \subseteq Helping /\ watching \subseteq Watchers
        /\ log \in [Watchers -> Seq(LogEntries)] /\ target \in Seq(WatchedTurns)
    BY DEF WatchInv, WatchTypes
  <1>3. ASSUME NEW h \in helpers', h \notin helpers
        PROVE  /\ h \in Helping /\ h.index = n /\ h.watcher \in Watchers
               /\ h = Summary(h.watcher, PromptId(Begun))
    <2>1. PICK w \in watching \ gone : h = Summary(w, PromptId(Begun))
      BY <1>3 DEF Notify
    <2>2. w \in Watchers
      BY <1>2
    <2>3. h.watcher = w /\ h.index = n
      BY <2>1 DEF Summary
    <2>4. {t.who : t \in {u \in ToSet(target) : u.id = PromptId(Begun)}}
            \in SUBSET {"user", "assistant"}
      <3>1. ASSUME NEW u \in ToSet(target) PROVE u.who \in {"user", "assistant"}
        <4>1. PICK i \in DOMAIN target : u = target[i]
          BY DEF ToSet
        <4>2. target[i] \in WatchedTurns
          BY <1>2
        <4> QED  BY <4>1, <4>2 DEF WatchedTurns
      <3> QED  BY <3>1
    <2>5. Len(log[w]) \in Nat
      BY <1>2, <2>2
    <2>6. n \in Nat
      BY <1>1
    <2> HIDE DEF n
    <2>7. h \in Helping
      <3> DEFINE tells == {t.who : t \in {u \in ToSet(target) : u.id = PromptId(Begun)}}
      <3>1. h = [watcher |-> w, index |-> IndexOfId(PromptId(Begun)), tells |-> tells,
                 knows |-> Len(log[w]), done |-> FALSE]
        BY <2>1 DEF Summary
      <3>2. tells \in SUBSET {"user", "assistant"} /\ IndexOfId(PromptId(Begun)) \in Nat
        BY <2>4, <2>6 DEF n
      <3> HIDE DEF tells
      <3> QED  BY <2>2, <2>5, <3>1, <3>2 DEF Helping
    <2> QED  BY <2>1, <2>2, <2>3, <2>7
  <1> HIDE DEF n
  <1>4. helpers' \subseteq Helping
    BY <1>2, <1>3
  <1>5. \A h \in helpers : h.index \in 1..Latest /\ h.index # n
    BY <1>1 DEF WatchInv, NumbersInv
  <1>6. NumbersInv'
    <2>1. ASSUME NEW h \in helpers' PROVE h.index \in 1..Latest'
      <3>1. CASE h \in helpers
        BY <1>1, <1>5, <3>1
      <3>2. CASE h \notin helpers
        BY <1>1, <1>3, <3>2
      <3> QED  BY <3>1, <3>2
    <2>2. ASSUME NEW w \in Watchers PROVE NumberedUpTo(log'[w], Latest')
      <3>1. NumberedUpTo(log[w], Latest) /\ log[w] \in Seq(LogEntries)
        BY <1>2 DEF WatchInv, NumbersInv
      <3> QED  BY <1>1, <3>1, NumberedHigher
    <2> QED  BY <2>1, <2>2 DEF NumbersInv, NumberedUpTo
  <1>7. HelpersInv'
    <2>1. ASSUME NEW h \in helpers', NEW g \in helpers', h.watcher = g.watcher,
                 h.index = g.index
          PROVE  h = g
      <3>1. CASE h \in helpers /\ g \in helpers
        BY <2>1, <3>1 DEF WatchInv, ToldInv, HelpersInv
      <3>2. CASE h \notin helpers /\ g \notin helpers
        BY <1>3, <2>1, <3>2
      <3>3. CASE h \in helpers /\ g \notin helpers
        BY <1>3, <1>5, <2>1, <3>3
      <3>4. CASE h \notin helpers /\ g \in helpers
        BY <1>3, <1>5, <2>1, <3>4
      <3> QED  BY <3>1, <3>2, <3>3, <3>4
    <2>2. ASSUME NEW h \in helpers' PROVE ~Tells(log[h.watcher], "summary", h.index)
      <3>1. CASE h \in helpers
        BY <3>1 DEF WatchInv, ToldInv, HelpersInv
      <3>2. CASE h \notin helpers
        <4>1. h.index \in Nat /\ h.index > Latest /\ h.watcher \in Watchers
          BY <1>1, <1>3, <3>2
        <4> QED  BY <1>1, <4>1, OldNumbers DEF WatchInv, ToldInv
      <3> QED  BY <3>1, <3>2
    <2> QED  BY <2>1, <2>2 DEF HelpersInv, Tells
  <1>8. InjectInv'
    BY DEF InjectInv
  <1>9. LogsInv'
    BY DEF WatchInv, ToldInv, LogsInv, Sound, OnceEach, ToldFirst
  <1> QED  BY <1>4, <1>6, <1>7, <1>8, <1>9 DEF ToldInv

(* One watcher's log grows by an entry.                                     *)
LEMMA LogGrows ==
    ASSUME WatchTypes, NEW w \in Watchers, NEW kind, NEW n,
           LogEntry(kind, n) \in LogEntries, log' = Logs(w, kind, n)
    PROVE  /\ log' \in [Watchers -> Seq(LogEntries)]
           /\ log'[w] = Append(log[w], LogEntry(kind, n))
           /\ \A v \in Watchers : v # w => log'[v] = log[v]
           /\ log[w] \in Seq(LogEntries)
  <1> DEFINE x == LogEntry(kind, n)
  <1> DEFINE more == Append(log[w], x)
  <1>1. log \in [Watchers -> Seq(LogEntries)] /\ log[w] \in Seq(LogEntries)
    BY DEF WatchTypes
  <1>2. x \in LogEntries /\ log' = [log EXCEPT ![w] = more]
    BY DEF Logs
  <1> HIDE DEF x
  <1>3. more \in Seq(LogEntries)
    BY <1>1, <1>2
  <1> HIDE DEF more
  <1>4. /\ log' \in [Watchers -> Seq(LogEntries)] /\ log'[w] = more
        /\ \A v \in Watchers : v # w => log'[v] = log[v]
    BY <1>1, <1>2, <1>3
  <1> QED  BY <1>1, <1>4 DEF more, x

(* What its growth leaves as it was: the logs are sound and numbered.       *)
LEMMA LogGrowsSound ==
    ASSUME WatchTypes, LogsInv, NumbersInv, Latest \in Nat, Latest' = Latest,
           NEW w \in Watchers, NEW kind, NEW n \in Nat,
           LogEntry(kind, n) \in LogEntries, log' = Logs(w, kind, n),
           n <= Latest, MayFollow(log[w], LogEntry(kind, n)), helpers' \subseteq helpers
    PROVE  LogsInv' /\ NumbersInv'
  <1> DEFINE x == LogEntry(kind, n)
  <1>1. /\ log'[w] = Append(log[w], x)
        /\ \A v \in Watchers : v # w => log'[v] = log[v]
        /\ log[w] \in Seq(LogEntries) /\ x \in LogEntries
    BY LogGrows
  <1>2. x.index = n
    BY DEF LogEntry
  <1>3. Sound(log[w]) /\ NumberedUpTo(log[w], Latest)
    BY DEF LogsInv, NumbersInv
  <1> HIDE DEF x
  <1>4. MayFollow(log[w], x)
    BY DEF x
  <1>5. Sound(log'[w])
    BY <1>1, <1>3, <1>4, SoundMore
  <1>6. NumberedUpTo(log'[w], Latest)
    BY <1>1, <1>2, <1>3, NumberedMore
  <1>7. \A v \in Watchers : Sound(log'[v]) /\ NumberedUpTo(log'[v], Latest')
    BY <1>1, <1>5, <1>6 DEF LogsInv, NumbersInv
  <1>8. \A h \in helpers' : h.index \in 1..Latest'
    BY DEF NumbersInv
  <1> QED  BY <1>7, <1>8 DEF LogsInv, NumbersInv, Sound, OnceEach, ToldFirst, NumberedUpTo

LEMMA TellsSame ==
    ASSUME WatchTypes, NEW w \in Watchers, NEW kind, NEW n,
           LogEntry(kind, n) \in LogEntries, log' = Logs(w, kind, n),
           NEW v \in Watchers, NEW k, NEW i,
           v # w \/ LogEntry(kind, n) # LogEntry(k, i)
    PROVE  Tells(log'[v], k, i) <=> Tells(log[v], k, i)
  <1> DEFINE x == LogEntry(kind, n)
  <1>1. /\ log'[w] = Append(log[w], x)
        /\ \A u \in Watchers : u # w => log'[u] = log[u]
        /\ log[w] \in Seq(LogEntries) /\ x \in LogEntries
    BY LogGrows
  <1> HIDE DEF x
  <1>2. CASE v # w
    BY <1>1, <1>2
  <1>3. CASE v = w
    <2>1. x # LogEntry(k, i)
      BY <1>3 DEF x
    <2>2. Tells(Append(log[w], x), k, i) <=> Tells(log[w], k, i) \/ x = LogEntry(k, i)
      BY <1>1, TellsMore
    <2> QED  BY <1>1, <1>3, <2>1, <2>2
  <1> QED  BY <1>2, <1>3

(* A turn without a number concerns nothing that was told.                  *)
LEMMA PlainTurn ==
    ASSUME WatchInv, Latest \in Nat, Latest' = Latest, NEW w \in Watchers,
           NEW kind \in {"start", "stop", "prompt", "answer"}, log' = Logs(w, kind, 0),
           helpers' = helpers, injecting' = injecting
    PROVE  log' \in [Watchers -> Seq(LogEntries)] /\ NumbersInv' /\ ToldInv'
  <1>1. LogEntry(kind, 0) \in LogEntries
    BY DEF LogEntry, LogEntries
  <1>2. WatchTypes /\ NumbersInv /\ LogsInv /\ HelpersInv /\ InjectInv
    BY DEF WatchInv, ToldInv
  <1>3. MayFollow(log[w], LogEntry(kind, 0))
    BY DEF MayFollow, LogEntry
  <1>4. LogsInv' /\ NumbersInv'
    BY <1>1, <1>2, <1>3, LogGrowsSound
  <1>5. log' \in [Watchers -> Seq(LogEntries)]
    BY <1>1, <1>2, LogGrows
  <1>6. ASSUME NEW v \in Watchers, NEW k, NEW i \in 1..Latest
        PROVE  Tells(log'[v], k, i) <=> Tells(log[v], k, i)
    <2>1. LogEntry(kind, 0) # LogEntry(k, i)
      <3>1. LogEntry(kind, 0).index = 0 /\ LogEntry(k, i).index = i /\ i # 0
        BY <1>6 DEF LogEntry
      <3> QED  BY <3>1
    <2> QED  BY <1>1, <1>2, <2>1, TellsSame
  <1>7. HelpersInv'
    <2>1. \A h \in helpers : h.watcher \in Watchers /\ h.index \in 1..Latest
      BY <1>2 DEF WatchTypes, Helping, NumbersInv
    <2>2. \A h \in helpers : ~Tells(log'[h.watcher], "summary", h.index)
      BY <1>2, <1>6, <2>1 DEF HelpersInv
    <2> QED  BY <1>2, <2>2 DEF HelpersInv, Tells
  <1>8. InjectInv'
    <2> SUFFICES ASSUME injecting # None PROVE InjectInv'
      BY DEF InjectInv
    <2>1. /\ injecting.watcher \in Watchers /\ injecting.index \in 1..Latest
          /\ Tells(log[injecting.watcher], "summary", injecting.index)
          /\ ~Tells(log[injecting.watcher], "prompt", injecting.index)
      BY <1>2 DEF InjectInv
    <2>2. /\ Tells(log'[injecting.watcher], "summary", injecting.index)
          /\ ~Tells(log'[injecting.watcher], "prompt", injecting.index)
      BY <1>6, <2>1
    <2> QED  BY <2>1, <2>2 DEF InjectInv, Tells, LogEntry
  <1> QED  BY <1>4, <1>5, <1>7, <1>8 DEF ToldInv

(* A finished helper tells its watcher, for the first time.                 *)
LEMMA HelperInjects ==
    ASSUME WatchInv, Latest \in Nat, Latest' = Latest, NEW h \in helpers, Inject(h),
           h.watcher \notin gone
    PROVE  log' \in [Watchers -> Seq(LogEntries)] /\ NumbersInv' /\ ToldInv'
  <1> DEFINE w == h.watcher
  <1> DEFINE n == h.index
  <1>1. WatchTypes /\ NumbersInv /\ LogsInv /\ HelpersInv /\ InjectInv
    BY DEF WatchInv, ToldInv
  <1>2. /\ helpers' = helpers \ {h} /\ log' = Logs(w, "summary", n)
        /\ injecting' = IF Has(w, "stop") THEN None
                        ELSE [stage |-> "saved", watcher |-> w, index |-> n]
    BY DEF Inject
  <1>3. w \in Watchers /\ n \in 1..Latest /\ n \in Nat /\ n # 0 /\ n <= Latest
    BY <1>1 DEF WatchTypes, Helping, NumbersInv
  <1>4. ~Tells(log[w], "summary", n)
    BY <1>1 DEF HelpersInv
  <1>5. \A g \in helpers : g.watcher = w /\ g.index = n => g = h
    BY <1>1 DEF HelpersInv
  <1> HIDE DEF w, n
  <1>6. LogEntry("summary", n) \in LogEntries
    BY <1>3 DEF LogEntry, LogEntries
  <1>7. MayFollow(log[w], LogEntry("summary", n))
    BY <1>4 DEF MayFollow, LogEntry
  <1>8. LogsInv' /\ NumbersInv'
    <2>1. helpers' \subseteq helpers
      BY <1>2
    <2> QED  BY <1>1, <1>2, <1>3, <1>6, <1>7, <2>1, LogGrowsSound
  <1>9. log' \in [Watchers -> Seq(LogEntries)]
    BY <1>1, <1>2, <1>3, <1>6, LogGrows
  <1>10. HelpersInv'
    <2>1. ASSUME NEW g \in helpers' PROVE ~Tells(log'[g.watcher], "summary", g.index)
      <3>1. g \in helpers /\ g # h /\ g.watcher \in Watchers
        BY <1>1, <1>2 DEF WatchTypes, Helping
      <3>2. g.watcher # w \/ LogEntry("summary", n) # LogEntry("summary", g.index)
        <4>1. g.watcher # w \/ g.index # n
          BY <1>5, <3>1
        <4>2. LogEntry("summary", n).index = n
              /\ LogEntry("summary", g.index).index = g.index
          BY DEF LogEntry
        <4> QED  BY <4>1, <4>2
      <3>3. Tells(log'[g.watcher], "summary", g.index)
              <=> Tells(log[g.watcher], "summary", g.index)
        BY <1>1, <1>2, <1>3, <1>6, <3>1, <3>2, TellsSame
      <3> QED  BY <1>1, <3>1, <3>3 DEF HelpersInv
    <2>2. \A g, k \in helpers' : g.watcher = k.watcher /\ g.index = k.index => g = k
      BY <1>1, <1>2 DEF HelpersInv
    <2> QED  BY <2>1, <2>2 DEF HelpersInv, Tells
  <1>11. InjectInv'
    <2>1. CASE Has(w, "stop")
      BY <1>2, <2>1 DEF InjectInv, None
    <2>2. CASE ~Has(w, "stop")
      <3>1. injecting'.watcher = w /\ injecting'.index = n
        BY <1>2, <2>2
      <3>2. /\ log'[w] = Append(log[w], LogEntry("summary", n))
            /\ log[w] \in Seq(LogEntries)
        BY <1>1, <1>2, <1>3, <1>6, LogGrows
      <3>3. Tells(log'[w], "summary", n)
        BY <1>6, <3>2, TellsMore
      <3>4. ~Tells(log[w], "prompt", n)
        <4> SUFFICES ASSUME NEW i \in DOMAIN log[w], log[w][i] = LogEntry("prompt", n)
                     PROVE  FALSE
          BY DEF Tells
        <4>1. ToldFirst(log[w])
          BY <1>1, <1>3 DEF LogsInv, Sound
        <4>2. log[w][i].kind = "prompt" /\ log[w][i].index = n
          BY DEF LogEntry
        <4>3. PICK j \in 1..(i - 1) : log[w][j] = LogEntry("summary", n)
          BY <1>3, <4>1, <4>2 DEF ToldFirst
        <4>4. j \in DOMAIN log[w]
          BY <3>2
        <4> QED  BY <1>4, <4>3, <4>4 DEF Tells
      <3>5. LogEntry("summary", n) # LogEntry("prompt", n)
        <4>1. LogEntry("summary", n).kind = "summary" /\ LogEntry("prompt", n).kind = "prompt"
          BY DEF LogEntry
        <4> QED  BY <4>1
      <3>6. ~Tells(log'[w], "prompt", n)
        BY <1>1, <1>2, <1>3, <1>6, <3>4, <3>5, TellsSame
      <3>7. n \in 1..Latest'
        BY <1>3
      <3> QED  BY <1>3, <3>1, <3>3, <3>6, <3>7 DEF InjectInv, Tells, LogEntry
    <2> QED  BY <2>1, <2>2
  <1> QED  BY <1>8, <1>9, <1>10, <1>11 DEF ToldInv

(* The watcher is asked about what it was just told.                        *)
LEMMA Triggers ==
    ASSUME WatchInv, Latest \in Nat, Latest' = Latest, Trigger
    PROVE  log' \in [Watchers -> Seq(LogEntries)] /\ NumbersInv' /\ ToldInv'
  <1> DEFINE w == injecting.watcher
  <1> DEFINE n == injecting.index
  <1>1. WatchTypes /\ NumbersInv /\ LogsInv /\ HelpersInv /\ InjectInv
    BY DEF WatchInv, ToldInv
  <1>2. injecting # None /\ injecting' = None /\ helpers' = helpers
    BY DEF Trigger, None
  <1>3. log' = log \/ log' = Logs(w, "prompt", n)
    BY DEF Trigger, watcherVars
  <1>4. /\ w \in Watchers /\ n \in 1..Latest /\ n \in Nat /\ n <= Latest
        /\ Tells(log[w], "summary", n) /\ ~Tells(log[w], "prompt", n)
    BY <1>1, <1>2 DEF InjectInv
  <1> HIDE DEF w, n
  <1>5. InjectInv'
    BY <1>2 DEF InjectInv, None
  <1>6. CASE log' = log
    <2>1. log' \in [Watchers -> Seq(LogEntries)]
      BY <1>1, <1>6 DEF WatchTypes
    <2>2. NumbersInv'
      BY <1>1, <1>2, <1>6, NumbersRise
    <2>3. HelpersInv' /\ LogsInv'
      BY <1>1, <1>2, <1>6
         DEF HelpersInv, LogsInv, Tells, Sound, OnceEach, ToldFirst
    <2> QED  BY <1>5, <2>1, <2>2, <2>3 DEF ToldInv
  <1>7. CASE log' = Logs(w, "prompt", n)
    <2>1. LogEntry("prompt", n) \in LogEntries
      BY <1>4 DEF LogEntry, LogEntries
    <2>2. MayFollow(log[w], LogEntry("prompt", n))
      BY <1>4 DEF MayFollow, LogEntry
    <2>3. LogsInv' /\ NumbersInv'
      BY <1>1, <1>2, <1>4, <1>7, <2>1, <2>2, LogGrowsSound
    <2>4. log' \in [Watchers -> Seq(LogEntries)]
      BY <1>1, <1>4, <1>7, <2>1, LogGrows
    <2>5. ASSUME NEW h \in helpers PROVE ~Tells(log'[h.watcher], "summary", h.index)
      <3>1. h.watcher \in Watchers
        BY <1>1 DEF WatchTypes, Helping
      <3>2. LogEntry("prompt", n) # LogEntry("summary", h.index)
        <4>1. LogEntry("prompt", n).kind = "prompt"
              /\ LogEntry("summary", h.index).kind = "summary"
          BY DEF LogEntry
        <4> QED  BY <4>1
      <3>3. Tells(log'[h.watcher], "summary", h.index)
              <=> Tells(log[h.watcher], "summary", h.index)
        BY <1>1, <1>4, <1>7, <2>1, <3>1, <3>2, TellsSame
      <3> QED  BY <1>1, <3>3 DEF HelpersInv
    <2>6. HelpersInv'
      BY <1>1, <1>2, <2>5 DEF HelpersInv, Tells
    <2> QED  BY <1>5, <2>3, <2>4, <2>6 DEF ToldInv
  <1> QED  BY <1>3, <1>6, <1>7

(* A restart leaves each watcher a part of what it was told.                *)
LEMMA Restarts ==
    ASSUME WatchInv, WatchRestart
    PROVE  WatchTypes' /\ TargetInv' /\ NumbersInv' /\ ToldInv'
  <1>1. WatchTypes /\ NumbersInv /\ LogsInv
    BY DEF WatchInv, ToldInv
  <1>2. /\ target' = target /\ talking' = FALSE /\ watching' = watching
        /\ helpers' = {} /\ injecting' = None
        /\ log' = [w \in Watchers |-> Saved(w)]
    BY DEF WatchRestart
  <1>3. /\ TargetInv' /\ Latest \in Nat /\ Latest' \in Nat /\ Latest <= Latest'
    BY <1>1, <1>2, TargetRests, LatestType DEF WatchInv
  <1>4. ASSUME NEW w \in Watchers
        PROVE  Saved(w) \in Seq(LogEntries) /\ Sound(Saved(w)) /\ NumberedUpTo(Saved(w), Latest')
    <2> DEFINE list == log[w]
    <2>1. list \in Seq(LogEntries) /\ Sound(list) /\ NumberedUpTo(list, Latest)
      BY <1>1 DEF WatchTypes, LogsInv, NumbersInv
    <2>2. NumberedUpTo(list, Latest')
      BY <1>3, <2>1, NumberedHigher
    <2>3. CASE ~Has(w, "stop")
      BY <2>1, <2>2, <2>3 DEF Saved
    <2>4. CASE Has(w, "stop")
      <3>1. \E i \in DOMAIN list : list[i].kind = "stop"
        BY <2>4 DEF Has
      <3>2. StopOf(w) \in DOMAIN list
        BY <3>1 DEF StopOf
      <3>3. Saved(w) = SubSeq(list, 1, StopOf(w) - 1)
        BY <2>4 DEF Saved
      <3> DEFINE m == StopOf(w) - 1
      <3>4. m \in 0..Len(list)
        BY <2>1, <3>2
      <3> HIDE DEF m
      <3>5. /\ SubSeq(list, 1, m) \in Seq(LogEntries) /\ Sound(SubSeq(list, 1, m))
            /\ NumberedUpTo(SubSeq(list, 1, m), Latest')
        BY <1>3, <2>1, <2>2, <3>4, SoundCut
      <3> QED  BY <3>3, <3>5 DEF m
    <2> QED  BY <2>3, <2>4
  <1>5. log' \in [Watchers -> Seq(LogEntries)] /\ \A w \in Watchers : log'[w] = Saved(w)
    BY <1>2, <1>4
  <1>6. WatchTypes'
    BY <1>1, <1>2, <1>5 DEF WatchTypes
  <1>7. NumbersInv'
    <2>1. \A w \in Watchers : NumberedUpTo(log'[w], Latest')
      BY <1>4, <1>5
    <2> QED  BY <1>2, <2>1 DEF NumbersInv, NumberedUpTo
  <1>8. HelpersInv'
    BY <1>2 DEF HelpersInv
  <1>9. InjectInv'
    BY <1>2 DEF InjectInv, None
  <1>10. LogsInv'
    <2>1. \A w \in Watchers : Sound(log'[w])
      BY <1>4, <1>5
    <2> QED  BY <2>1 DEF LogsInv, Sound, OnceEach, ToldFirst
  <1> QED  BY <1>3, <1>6, <1>7, <1>8, <1>9, <1>10 DEF ToldInv

(* A helper's stream ends: what it tells, and whom, is as it was.           *)
LEMMA HelperDone ==
    ASSUME WatchInv, Latest' = Latest, NEW h \in helpers, HelperEnds(h)
    PROVE  helpers' \subseteq Helping /\ NumbersInv' /\ ToldInv'
  <1> DEFINE g == [h EXCEPT !.done = TRUE]
  <1>1. WatchTypes /\ NumbersInv /\ LogsInv /\ HelpersInv /\ InjectInv
    BY DEF WatchInv, ToldInv
  <1>2. /\ helpers' = (helpers \ {h}) \cup {g} /\ log' = log /\ injecting' = injecting
    BY DEF HelperEnds, watcherVars
  <1>3. h \in Helping /\ helpers \subseteq Helping
    BY <1>1 DEF WatchTypes
  <1>4. g \in Helping /\ g.watcher = h.watcher /\ g.index = h.index
    BY <1>3 DEF Helping
  <1> HIDE DEF g
  <1>5. helpers' \subseteq Helping
    BY <1>2, <1>3, <1>4
  <1>6. \A k \in helpers' : \E j \in helpers :
            /\ j.watcher = k.watcher /\ j.index = k.index
            /\ (k = g /\ j = h) \/ (k = j /\ k # h)
    BY <1>2, <1>4
  <1>7. NumbersInv'
    BY <1>1, <1>2, <1>6 DEF NumbersInv, NumberedUpTo
  <1>8. HelpersInv'
    <2>1. ASSUME NEW k \in helpers', NEW m \in helpers', k.watcher = m.watcher,
                 k.index = m.index
          PROVE  k = m
      <3>1. PICK i \in helpers : /\ i.watcher = k.watcher /\ i.index = k.index
                                 /\ (k = g /\ i = h) \/ (k = i /\ k # h)
        BY <1>6
      <3>2. PICK j \in helpers : /\ j.watcher = m.watcher /\ j.index = m.index
                                 /\ (m = g /\ j = h) \/ (m = j /\ m # h)
        BY <1>6
      <3>3. i = j
        BY <1>1, <2>1, <3>1, <3>2 DEF HelpersInv
      <3> QED  BY <3>1, <3>2, <3>3
    <2>2. \A k \in helpers' : ~Tells(log[k.watcher], "summary", k.index)
      BY <1>1, <1>6 DEF HelpersInv
    <2> QED  BY <1>2, <2>1, <2>2 DEF HelpersInv, Tells
  <1>9. InjectInv'
    BY <1>1, <1>2 DEF InjectInv, Tells, LogEntry
  <1>10. LogsInv'
    BY <1>1, <1>2 DEF LogsInv, Sound, OnceEach, ToldFirst
  <1> QED  BY <1>5, <1>7, <1>8, <1>9, <1>10 DEF ToldInv

(* Every step.                                                              *)
LEMMA WatchStep == ASSUME WatchInv, WatchNext PROVE WatchInv'
  <1>1. WatchTypes /\ TargetInv /\ NumbersInv /\ ToldInv
    BY DEF WatchInv
  <1>2. /\ Latest \in Nat /\ Cardinality(IdsOf(target)) \in Nat
        /\ Latest <= Cardinality(IdsOf(target))
    BY <1>1, LatestType
  <1>3. ASSUME UNCHANGED targetVars PROVE TargetInv' /\ Latest' = Latest
    BY <1>1, <1>3, TargetStays
  <1>4. CASE AskTarget \/ \E m \in alerting : QueueForTarget(m)
    <2>1. watching' = watching /\ helpers' = helpers /\ log' = log /\ injecting' = injecting
      BY <1>4 DEF AskTarget, QueueForTarget, watcherVars
    <2>2. BeginExchange \/ UNCHANGED targetVars
      BY <1>4 DEF AskTarget, QueueForTarget
    <2>3. target' \in Seq(WatchedTurns) /\ talking' \in BOOLEAN
          /\ TargetInv' /\ Latest' \in Nat /\ Latest <= Latest'
      <3>1. CASE BeginExchange
        BY <1>1, <1>2, <3>1, TargetBegins
      <3>2. CASE UNCHANGED targetVars
        BY <1>1, <1>2, <1>3, <3>2 DEF targetVars, WatchTypes
      <3> QED  BY <2>2, <3>1, <3>2
    <2>4. NumbersInv' /\ ToldInv'
      BY <1>1, <1>2, <2>1, <2>3, NumbersRise, ToldStays
    <2> QED  BY <1>1, <2>1, <2>3, <2>4 DEF WatchInv, WatchTypes
  <1>5. CASE AnswerTarget
    <2>1. /\ talking' = talking /\ watching' = watching /\ helpers' = helpers
          /\ log' = log /\ injecting' = injecting
      BY <1>5 DEF AnswerTarget, watcherVars
    <2>2. target' \in Seq(WatchedTurns) /\ TargetInv' /\ Latest' = Latest
      BY <1>1, <1>5, TargetAnswers
    <2>3. NumbersInv' /\ ToldInv'
      BY <1>1, <1>2, <2>1, <2>2, NumbersRise, ToldStays
    <2> QED  BY <1>1, <2>1, <2>2, <2>3 DEF WatchInv, WatchTypes
  <1>6. CASE CompleteTarget
    <2>1. /\ talking /\ Notify(PromptId(Begun)) /\ injecting = None
          /\ log' = log /\ injecting' = injecting /\ watching' = watching
      BY <1>6 DEF CompleteTarget, watcherVars, Pumping
    <2>2. BeginExchange \/ (talking' = FALSE /\ target' = target)
      BY <1>6 DEF CompleteTarget
    <2>3. target' \in Seq(WatchedTurns) /\ talking' \in BOOLEAN
          /\ TargetInv' /\ Latest' = Cardinality(IdsOf(target))
      <3>1. CASE BeginExchange
        BY <1>1, <3>1, TargetBegins
      <3>2. CASE talking' = FALSE /\ target' = target
        BY <1>1, <3>2, TargetRests DEF WatchTypes
      <3> QED  BY <2>2, <3>1, <3>2
    <2>4. helpers' \subseteq Helping /\ NumbersInv' /\ ToldInv'
      BY <2>1, <2>3, Notifies
    <2> QED  BY <1>1, <2>1, <2>3, <2>4 DEF WatchInv, WatchTypes
  <1>7. CASE FailTarget
    <2>1. /\ talking' = FALSE /\ target' = target /\ watching' = watching
          /\ helpers' = helpers /\ log' = log /\ injecting' = injecting
      BY <1>7 DEF FailTarget, watcherVars
    <2>2. TargetInv' /\ Latest' \in Nat /\ Latest <= Latest'
      BY <1>1, <1>2, <2>1, TargetRests
    <2>3. NumbersInv' /\ ToldInv'
      BY <1>1, <1>2, <2>1, <2>2, NumbersRise, ToldStays
    <2> QED  BY <1>1, <2>1, <2>2, <2>3 DEF WatchInv, WatchTypes
  <1>8. CASE WatchRestart
    BY <1>8, Restarts DEF WatchInv
  <1>9. CASE Trigger
    <2>1. UNCHANGED targetVars /\ watching' = watching /\ helpers' = helpers
      BY <1>9 DEF Trigger
    <2>2. TargetInv' /\ Latest' = Latest
      BY <1>3, <2>1
    <2>3. log' \in [Watchers -> Seq(LogEntries)] /\ NumbersInv' /\ ToldInv'
      BY <1>2, <1>9, <2>2, Triggers
    <2> QED  BY <1>1, <2>1, <2>2, <2>3 DEF WatchInv, WatchTypes, targetVars
  <1>10. CASE \E h \in helpers : HelperEnds(h) \/ Inject(h) \/ HelperBreaks(h)
    <2>1. PICK h \in helpers : HelperEnds(h) \/ Inject(h) \/ HelperBreaks(h)
      BY <1>10
    <2>2. UNCHANGED targetVars /\ watching' = watching
      BY <2>1 DEF HelperEnds, Inject, HelperBreaks
    <2>3. TargetInv' /\ Latest' = Latest
      BY <1>3, <2>2
    <2>4. CASE HelperEnds(h)
      <3>1. log' = log
        BY <2>4 DEF HelperEnds, watcherVars
      <3>2. helpers' \subseteq Helping /\ NumbersInv' /\ ToldInv'
        BY <2>3, <2>4, HelperDone
      <3> QED  BY <1>1, <2>2, <2>3, <3>1, <3>2 DEF WatchInv, WatchTypes, targetVars
    <2>5. CASE Inject(h)
      <3>1. helpers' \subseteq helpers
        BY <2>5 DEF Inject
      <3>2. log' \in [Watchers -> Seq(LogEntries)] /\ NumbersInv' /\ ToldInv'
        <4>1. CASE h.watcher \notin gone
          BY <1>2, <2>1, <2>3, <2>5, <4>1, HelperInjects
        <4>2. CASE h.watcher \in gone
          <5>1. log' = log /\ injecting' = injecting
            BY <2>5, <4>2 DEF Inject, Pumping
          <5>2. log' \in [Watchers -> Seq(LogEntries)]
            BY <1>1, <5>1 DEF WatchTypes
          <5>3. NumbersInv' /\ ToldInv'
            BY <1>1, <1>2, <2>3, <3>1, <5>1, NumbersRise, ToldStays
          <5> QED  BY <5>2, <5>3
        <4> QED  BY <4>1, <4>2
      <3> QED  BY <1>1, <2>2, <2>3, <3>1, <3>2 DEF WatchInv, WatchTypes, targetVars
    <2>6. CASE HelperBreaks(h)
      <3>1. helpers' \subseteq helpers /\ log' = log /\ injecting' = injecting
        BY <2>6 DEF HelperBreaks, watcherVars
      <3>2. NumbersInv' /\ ToldInv'
        BY <1>1, <1>2, <2>3, <3>1, NumbersRise, ToldStays
      <3> QED  BY <1>1, <2>2, <2>3, <3>1, <3>2 DEF WatchInv, WatchTypes, targetVars
    <2> QED  BY <2>1, <2>4, <2>5, <2>6
  <1>11. CASE \E w \in Watchers : \/ StartWatching(w) \/ StopWatching(w) \/ AskWatcher(w)
                                  \/ SendToTarget(w) \/ WatcherDone(w) \/ DeleteWatcher(w)
    <2>1. PICK w \in Watchers : \/ StartWatching(w) \/ StopWatching(w) \/ AskWatcher(w)
                                \/ SendToTarget(w) \/ WatcherDone(w) \/ DeleteWatcher(w)
      BY <1>11
    <2>2. /\ UNCHANGED targetVars /\ helpers' = helpers /\ injecting' = injecting
          /\ watching' \in {watching, watching \cup {w}}
      BY <2>1 DEF StartWatching, StopWatching, AskWatcher, SendToTarget, WatcherDone,
                  DeleteWatcher
    <2>3. TargetInv' /\ Latest' = Latest
      BY <1>3, <2>2
    <2>4. \/ log' = log
          \/ \E kind \in {"start", "stop", "prompt", "answer"} : log' = Logs(w, kind, 0)
      BY <2>1 DEF StartWatching, StopWatching, AskWatcher, SendToTarget, WatcherDone,
                  DeleteWatcher, watcherVars
    <2>5. log' \in [Watchers -> Seq(LogEntries)] /\ NumbersInv' /\ ToldInv'
      <3>1. CASE log' = log
        <4>1. log' \in [Watchers -> Seq(LogEntries)]
          BY <1>1, <3>1 DEF WatchTypes
        <4>2. NumbersInv' /\ ToldInv'
          BY <1>1, <1>2, <2>2, <2>3, <3>1, NumbersRise, ToldStays
        <4> QED  BY <4>1, <4>2
      <3>2. CASE \E kind \in {"start", "stop", "prompt", "answer"} : log' = Logs(w, kind, 0)
        BY <1>2, <2>2, <2>3, <3>2, PlainTurn
      <3> QED  BY <2>4, <3>1, <3>2
    <2> QED  BY <1>1, <2>2, <2>3, <2>5 DEF WatchInv, WatchTypes, targetVars
  <1> QED  BY <1>4, <1>5, <1>6, <1>7, <1>8, <1>9, <1>10, <1>11 DEF WatchNext, Proceed

LEMMA WatchStart == ASSUME WatchInit PROVE WatchInv
  <1>1. target = <<>> /\ talking = FALSE /\ watching = {} /\ helpers = {}
        /\ log = [w \in Watchers |-> <<>>] /\ injecting = None
    BY DEF WatchInit
  <1>2. WatchTypes
    <2>1. <<>> \in Seq(LogEntries) /\ <<>> \in Seq(WatchedTurns)
      OBVIOUS
    <2>2. log \in [Watchers -> Seq(LogEntries)]
      BY <1>1, <2>1
    <2>3. talking \in BOOLEAN /\ watching \subseteq Watchers /\ helpers \subseteq Helping
      BY <1>1
    <2> QED  BY <1>1, <2>1, <2>2, <2>3 DEF WatchTypes
  <1>3. TargetInv
    BY <1>1 DEF TargetInv, IdsUpTo
  <1>4. Latest \in Nat
    BY <1>2, <1>3, LatestType
  <1>5. NumbersInv
    BY <1>1, <1>4 DEF NumbersInv, NumberedUpTo
  <1>6. ToldInv
    BY <1>1 DEF ToldInv, HelpersInv, InjectInv, LogsInv, Sound, OnceEach, ToldFirst
  <1> QED  BY <1>2, <1>3, <1>5, <1>6 DEF WatchInv

LEMMA AtMostOne ==
    ASSUME NEW S, \A i, j \in S : i = j
    PROVE  Cardinality(S) <= 1
  <1>1. CASE S = {}
    BY <1>1, FS_EmptySet
  <1>2. CASE S # {}
    <2>1. PICK x : S = {x}
      BY <1>2
    <2> QED  BY <2>1, FS_Singleton
  <1> QED  BY <1>1, <1>2

LEMMA ToldThenAskedHolds == ASSUME WatchInv PROVE ToldThenAsked
  <1>1. \A w \in Watchers : log[w] \in Seq(LogEntries) /\ OnceEach(log[w]) /\ ToldFirst(log[w])
    BY DEF WatchInv, WatchTypes, ToldInv, LogsInv, Sound
  <1>2. ASSUME NEW w \in Watchers, NEW k \in {"summary", "prompt"}, NEW n \in Nat, n # 0
        PROVE  Count(w, k, n) <= 1
    <2> DEFINE S == {i \in DOMAIN log[w] : log[w][i] = LogEntry(k, n)}
    <2>1. \A i, j \in S : i = j
      <3> SUFFICES ASSUME NEW i \in S, NEW j \in S PROVE i = j
        OBVIOUS
      <3>1. /\ i \in DOMAIN log[w] /\ j \in DOMAIN log[w] /\ log[w][i] = log[w][j]
            /\ log[w][i].kind = k /\ log[w][i].index = n
        BY DEF LogEntry
      <3> QED  BY <1>1, <1>2, <3>1 DEF OnceEach
    <2> HIDE DEF S
    <2>2. Cardinality(S) <= 1
      BY <2>1, AtMostOne
    <2> QED  BY <2>2 DEF Count, S
  <1>3. ToldOnce
    <2> SUFFICES ASSUME NEW w \in Watchers, NEW i \in 1..(2 * MaxExchanges)
                 PROVE  Count(w, "summary", i) <= 1 /\ Count(w, "prompt", i) <= 1
      BY DEF ToldOnce
    <2>1. i \in Nat /\ i # 0
      BY WatchersAssumption
    <2> QED  BY <1>2, <2>1
  <1>4. AskedAfterTold
    BY <1>1 DEF AskedAfterTold, ToldFirst
  <1> QED  BY <1>3, <1>4 DEF ToldThenAsked

(* Each exchange reaches a watcher once at most, the summary before the     *)
(* question about it: _notify_watchers_of_exchange, _inject_watch_summary,  *)
(* _trigger_watcher_response.                                               *)
THEOREM ToldThenAskedCorrect == WatchSpec => []ToldThenAsked
  <1>1. WatchInit => WatchInv
    BY WatchStart
  <1>2. WatchInv /\ [WatchNext]_watchVars => WatchInv'
    <2>1. ASSUME WatchInv, UNCHANGED watchVars PROVE WatchInv'
      <3>1. WatchTypes /\ TargetInv /\ NumbersInv /\ ToldInv
        BY <2>1 DEF WatchInv
      <3>2. UNCHANGED targetVars /\ watching' = watching /\ helpers' = helpers
            /\ log' = log /\ injecting' = injecting
        BY <2>1 DEF watchVars, watcherVars
      <3>3. TargetInv' /\ Latest' = Latest /\ Latest \in Nat
        BY <3>1, <3>2, TargetStays, LatestType
      <3>4. NumbersInv' /\ ToldInv'
        BY <3>1, <3>2, <3>3, NumbersRise, ToldStays
      <3> QED  BY <3>1, <3>2, <3>3, <3>4 DEF WatchInv, WatchTypes, targetVars
    <2> QED  BY <2>1, WatchStep
  <1>3. WatchInv => ToldThenAsked
    BY ToldThenAskedHolds
  <1> QED  BY <1>1, <1>2, <1>3, PTL DEF WatchSpec

=============================================================================
