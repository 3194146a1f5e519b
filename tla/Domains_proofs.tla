--------------------------- MODULE Domains_proofs ---------------------------
(***************************************************************************)
(* Proofs about the host of the domain plugins and the domains: for any    *)
(* number of sessions, users, callers and shoppers, and of boards,         *)
(* documents, stores, browsers and days.                                   *)
(***************************************************************************)
EXTENDS PluginHost, Kanban, Chess, Documents, Grocery, Lists_proofs, FiniteSetTheorems

-----------------------------------------------------------------------------
(* The host of the domains                                                  *)

ToolNames == {"copy", "plot", "report", "sketch"}

(* The three tables are of one thing: OffersAreLoaded, and the types, of a  *)
(* registry as the operations hand it on.                                   *)
Registries ==
    [loaded : Partial(catalog, Nat), tools : Partial(ToolNames, catalog),
     rpc : Partial(catalog, Nat), made : Nat, ok : BOOLEAN]

Offered(r, d) ==
    /\ r.loaded[d] \in 1..r.made
    /\ ToSet(DependsOn(d)) \subseteq DOMAIN r.loaded
    /\ \A t \in ToSet(ToolsOf(d)) : t \in DOMAIN r.tools /\ r.tools[t] = d

GoodRegistries ==
    {r \in Registries : r.rpc = r.loaded /\ \A d \in DOMAIN r.loaded : Offered(r, d)}

Uses(C) == [open : BOOLEAN, domains : SUBSET C, tools : SUBSET ToolNames]

HostInv ==
    /\ catalog \subseteq Domains
    /\ Registry \in GoodRegistries
    /\ uses \in [HostSessions -> Uses(catalog)]
    /\ usesStored \in [HostSessions -> Uses(catalog)]

LEMMA DomainTables ==
    ASSUME NEW d \in Domains
    PROVE  /\ ToolsOf(d) \in Seq(ToolNames) /\ DependsOn(d) \in Seq(Domains)
           /\ Chain(d) \in Seq(Domains)
  <1>1. /\ <<"copy">> \in Seq(ToolNames) /\ <<"plot">> \in Seq(ToolNames)
        /\ <<"report">> \in Seq(ToolNames) /\ <<"sketch", "plot">> \in Seq(ToolNames)
    BY DEF ToolNames
  <1>2. ToolsOf(d) \in Seq(ToolNames)
    BY <1>1 DEF ToolsOf, Domains
  <1>3. /\ <<>> \in Seq(Domains) /\ <<"charts">> \in Seq(Domains) /\ <<"files">> \in Seq(Domains)
    BY DEF Domains
  <1>4. ASSUME NEW e PROVE DependsOn(e) \in Seq(Domains)
    BY <1>3 DEF DependsOn
  <1>5. <<d>> \in Seq(Domains)
    OBVIOUS
  <1>6. Chain(d) \in Seq(Domains)
    BY <1>3, <1>4, <1>5 DEF Chain
  <1> QED  BY <1>2, <1>4, <1>6

(* What registering the tools of a domain does to the table, whether or not *)
(* it runs into a tool that is there.                                       *)
LEMMA RegisterToolsGood ==
    ASSUME NEW r \in Registries, NEW d \in catalog, catalog \subseteq Domains,
           NEW s, s = RegisterTools(r, d)
    PROVE  /\ s \in Registries /\ s.loaded = r.loaded /\ s.rpc = r.rpc /\ s.made = r.made
           /\ \A t \in DOMAIN r.tools : t \in DOMAIN s.tools /\ s.tools[t] = r.tools[t]
           /\ s.ok => \A t \in ToSet(ToolsOf(d)) : t \in DOMAIN s.tools /\ s.tools[t] = d
  <1> DEFINE tools == ToolsOf(d)
             before(i) == \A j \in 1..i : tools[j] \notin DOMAIN r.tools
             entered == {tools[i] : i \in {i \in DOMAIN tools : before(i)}}
             more == [t \in entered |-> d]
  <1>1. /\ tools \in Seq(ToolNames) /\ DOMAIN tools = 1..Len(tools) /\ Len(tools) \in Nat
        /\ \A i \in DOMAIN tools : tools[i] \in ToolNames
    BY DomainTables
  <1>2. entered \subseteq ToolNames /\ ToSet(tools) = {tools[i] : i \in DOMAIN tools}
    BY <1>1 DEF ToSet
  <1>3. more \in Partial(ToolNames, catalog)
    BY <1>2, IsPartial
  <1>4. r.tools \in Partial(ToolNames, catalog) /\ DOMAIN more = entered
    BY DEF Registries
  <1>5. s = [r EXCEPT !.tools = Backed(@, more), !.ok = before(Len(tools))]
    BY DEF RegisterTools
  <1>6. before(Len(tools)) =>
            /\ entered = ToSet(tools)
            /\ \A t \in entered : t \notin DOMAIN r.tools
    <2> SUFFICES ASSUME before(Len(tools))
                 PROVE  entered = ToSet(tools) /\ \A t \in entered : t \notin DOMAIN r.tools
      OBVIOUS
    <2>1. \A i \in DOMAIN tools : before(i) /\ tools[i] \notin DOMAIN r.tools
      BY <1>1
    <2> QED  BY <1>2, <2>1
  <1> DEFINE all == before(Len(tools))
  <1>7. all \in BOOLEAN
    OBVIOUS
  <1>8. s = [r EXCEPT !.tools = Backed(@, more), !.ok = all]
    BY <1>5
  <1>9. all => entered = ToSet(tools) /\ \A t \in entered : t \notin DOMAIN r.tools
    BY <1>6
  <1>10. \A t \in entered : more[t] = d
    OBVIOUS
  <1> HIDE DEF all, more, entered, before, tools
  <1>11. /\ Backed(r.tools, more) \in Partial(ToolNames, catalog)
         /\ DOMAIN Backed(r.tools, more) = DOMAIN r.tools \cup entered
         /\ \A t \in DOMAIN r.tools : Backed(r.tools, more)[t] = r.tools[t]
         /\ \A t \in entered \ DOMAIN r.tools : Backed(r.tools, more)[t] = d
    <2>1. /\ Backed(r.tools, more) \in Partial(ToolNames, catalog)
          /\ DOMAIN Backed(r.tools, more) = DOMAIN r.tools \cup DOMAIN more
          /\ \A t \in DOMAIN r.tools : Backed(r.tools, more)[t] = r.tools[t]
          /\ \A t \in DOMAIN more \ DOMAIN r.tools : Backed(r.tools, more)[t] = more[t]
      BY <1>3, <1>4, BackedPartial, BackedAt
    <2> QED  BY <1>4, <1>10, <2>1
  <1>12. /\ s \in Registries /\ s.loaded = r.loaded /\ s.rpc = r.rpc /\ s.made = r.made
         /\ s.tools = Backed(r.tools, more) /\ s.ok = all
    BY <1>7, <1>8, <1>11 DEF Registries
  <1>13. s.ok => \A t \in ToSet(tools) : t \in DOMAIN s.tools /\ s.tools[t] = d
    BY <1>9, <1>11, <1>12
  <1> QED  BY <1>11, <1>12, <1>13 DEF tools

(* One domain of the chain: a failure leaves what is offered as it was, but *)
(* for tools that are entered under names nobody had.                       *)
LEMMA KeptOffers ==
    ASSUME NEW r \in GoodRegistries, NEW s \in Registries,
           s.loaded = r.loaded, s.rpc = r.rpc, s.made >= r.made,
           \A t \in DOMAIN r.tools : t \in DOMAIN s.tools /\ s.tools[t] = r.tools[t]
    PROVE  s \in GoodRegistries
  <1>1. r.made \in Nat /\ s.made \in Nat
    BY DEF GoodRegistries, Registries
  <1>2. ASSUME NEW d \in DOMAIN s.loaded
        PROVE  Offered(s, d)
    <2>1. Offered(r, d)
      BY DEF GoodRegistries
    <2> QED  BY <1>1, <2>1 DEF Offered
  <1> QED  BY <1>2 DEF GoodRegistries

LEMMA LoadOneGood ==
    ASSUME NEW r \in GoodRegistries, NEW d, catalog \subseteq Domains
    PROVE  LoadOne(r, d) \in GoodRegistries
  <1>1. r \in Registries /\ r.made \in Nat
    BY DEF GoodRegistries, Registries
  <1>2. CASE ~r.ok \/ d \in DOMAIN r.loaded
    BY <1>2 DEF LoadOne
  <1>3. CASE ~(~r.ok \/ d \in DOMAIN r.loaded) /\ d \notin catalog
    <2>1. [r EXCEPT !.ok = FALSE] \in Registries
      BY <1>1 DEF Registries
    <2>2. [r EXCEPT !.ok = FALSE] \in GoodRegistries
      BY <1>1, <2>1, KeptOffers DEF Registries
    <2> QED  BY <1>3, <2>2 DEF LoadOne
  <1>4. CASE ~(~r.ok \/ d \in DOMAIN r.loaded) /\ d \in catalog
    <2> DEFINE once == [r EXCEPT !.made = @ + 1]
    <2>1. once \in Registries /\ once.loaded = r.loaded /\ once.rpc = r.rpc
          /\ once.tools = r.tools /\ once.made = r.made + 1
      BY <1>1 DEF Registries
    <2> HIDE DEF once
    <2>2. PICK made : made = RegisterTools(once, d)
      OBVIOUS
    <2>3. /\ made \in Registries /\ made.loaded = r.loaded /\ made.rpc = r.rpc
          /\ made.made = r.made + 1
          /\ \A t \in DOMAIN r.tools : t \in DOMAIN made.tools /\ made.tools[t] = r.tools[t]
          /\ made.ok => \A t \in ToSet(ToolsOf(d)) : t \in DOMAIN made.tools /\ made.tools[t] = d
      BY <1>4, <2>1, <2>2, RegisterToolsGood
    <2>4. made \in GoodRegistries
      BY <1>1, <2>3, KeptOffers
    <2> DEFINE short == \E i \in DOMAIN DependsOn(d) : DependsOn(d)[i] \notin DOMAIN r.loaded
    <2>5. CASE ~made.ok \/ short
      <3>1. [made EXCEPT !.ok = FALSE] \in Registries
        BY <2>3 DEF Registries
      <3>2. [made EXCEPT !.ok = FALSE] \in GoodRegistries
        BY <2>3, <2>4, <3>1, KeptOffers DEF Registries
      <3>3. LoadOne(r, d) = [made EXCEPT !.ok = FALSE]
        BY <1>4, <2>2, <2>5 DEF LoadOne, once
      <3> QED  BY <3>2, <3>3
    <2>6. CASE ~(~made.ok \/ short)
      <3>1. LoadOne(r, d) = [made EXCEPT !.loaded = Entered(@, d, made.made),
                                         !.rpc = Entered(@, d, made.made)]
        BY <1>4, <2>2, <2>6 DEF LoadOne, once
      <3>2. made.loaded \in Partial(catalog, Nat) /\ made.rpc \in Partial(catalog, Nat)
            /\ made.made \in Nat
        BY <2>3 DEF Registries
      <3>3. PICK now : now = Entered(made.loaded, d, made.made)
        OBVIOUS
      <3>4. /\ now \in Partial(catalog, Nat) /\ DOMAIN now = DOMAIN r.loaded \cup {d}
            /\ now[d] = r.made + 1
            /\ \A e \in DOMAIN r.loaded : now[e] = r.loaded[e]
        <4>1. /\ now \in Partial(catalog, Nat) /\ DOMAIN now = DOMAIN made.loaded \cup {d}
              /\ now[d] = made.made
              /\ \A e \in DOMAIN made.loaded \ {d} : now[e] = made.loaded[e]
          <5>1. now \in Partial(catalog, Nat)
            BY <1>4, <3>2, <3>3, EnteredPartial
          <5> QED  BY <3>3, <5>1 DEF Entered
        <4> QED  BY <1>4, <2>3, <4>1
      <3>5. made.rpc = made.loaded
        BY <2>4 DEF GoodRegistries
      <3>6. PICK s : s = [made EXCEPT !.loaded = now, !.rpc = now]
        OBVIOUS
      <3>7. /\ s \in Registries /\ s.loaded = now /\ s.rpc = now /\ s.made = r.made + 1
            /\ s.tools = made.tools
        BY <2>3, <3>4, <3>6 DEF Registries
      <3>8. ASSUME NEW e \in DOMAIN r.loaded
            PROVE  Offered(s, e)
        <4>1. Offered(r, e)
          BY DEF GoodRegistries
        <4> QED  BY <1>1, <2>3, <3>4, <3>7, <4>1 DEF Offered
      <3>9. Offered(s, d)
        <4>1. ToSet(DependsOn(d)) \subseteq DOMAIN r.loaded
          BY <2>6 DEF ToSet
        <4> QED  BY <1>1, <2>3, <2>6, <3>4, <3>7, <4>1 DEF Offered
      <3>10. s \in GoodRegistries
        BY <3>4, <3>7, <3>8, <3>9 DEF GoodRegistries
      <3> QED  BY <3>1, <3>3, <3>5, <3>6, <3>10
    <2> QED  BY <2>5, <2>6
  <1> QED  BY <1>2, <1>3, <1>4

(* Any chain of domains, one after the other.                               *)
LEMMA LoadEachGood ==
    ASSUME NEW r \in GoodRegistries, NEW chain, Len(chain) \in Nat, catalog \subseteq Domains
    PROVE  LoadEach(r, chain) \in GoodRegistries
  <1> DEFINE N == Len(chain)
             Recurses(f) == f = [n \in 0..N |-> IF n = 0 THEN r ELSE LoadOne(f[n - 1], chain[n])]
             after == CHOOSE f : Recurses(f)
             step == [p \in GoodRegistries \X (1..N) |-> LoadOne(p[1], chain[p[2]])]
  <1>1. step \in [GoodRegistries \X (1..N) -> GoodRegistries]
    BY LoadOneGood
  <1>2. \E f : Recurses(f)
    <2>1. PICK f \in [0..N -> GoodRegistries] : Follows(f, r, step, N)
      BY <1>1, RecursionExists
    <2>2. \A n \in 1..N : f[n - 1] \in GoodRegistries /\ f[n] = LoadOne(f[n - 1], chain[n])
      <3> SUFFICES ASSUME NEW n \in 1..N
                   PROVE  f[n - 1] \in GoodRegistries /\ f[n] = LoadOne(f[n - 1], chain[n])
        OBVIOUS
      <3>1. n - 1 \in 0..N
        OBVIOUS
      <3>2. f[n - 1] \in GoodRegistries /\ f[n] = step[<<f[n - 1], n>>]
        BY <2>1, <3>1 DEF Follows
      <3> QED  BY <3>2
    <2>3. \A n \in 0..N : f[n] = IF n = 0 THEN r ELSE LoadOne(f[n - 1], chain[n])
      BY <2>1, <2>2 DEF Follows
    <2>4. Recurses(f)
      BY <2>1, <2>3
    <2> QED  BY <2>4
  <1>3. Recurses(after)
    BY <1>2
  <1>4. /\ after[0] = r
        /\ \A n \in 1..N : after[n] = LoadOne(after[n - 1], chain[n])
    <2>1. \A n \in 0..N : after[n] = IF n = 0 THEN r ELSE LoadOne(after[n - 1], chain[n])
      BY <1>3
    <2> HIDE DEF after
    <2> QED  BY <2>1
  <1> HIDE DEF after, step
  <1>5. \A n \in 0..N : after[n] \in GoodRegistries
    BY <1>4, LoadOneGood, HandedOn
  <1>6. LoadEach(r, chain) = after[N]
    BY DEF LoadEach, after
  <1> QED  BY <1>5, <1>6

LEMMA LoadGood ==
    ASSUME NEW r \in GoodRegistries, NEW d, catalog \subseteq Domains
    PROVE  Load(r, d) \in GoodRegistries
  <1>1. CASE d \in DOMAIN r.loaded \/ d \notin catalog
    <2>1. [r EXCEPT !.ok = FALSE] \in Registries /\ r.made \in Nat
      BY DEF GoodRegistries, Registries
    <2>2. [r EXCEPT !.ok = FALSE] \in GoodRegistries
      <3>1. r \in Registries
        BY DEF GoodRegistries
      <3> QED  BY <2>1, <3>1, KeptOffers DEF Registries
    <2> QED  BY <1>1, <2>2 DEF Load
  <1>2. CASE ~(d \in DOMAIN r.loaded \/ d \notin catalog)
    <2>1. Chain(d) \in Seq(Domains)
      BY <1>2, DomainTables
    <2>2. Len(Chain(d)) \in Nat
      BY <2>1
    <2> QED  BY <1>2, <2>2, LoadEachGood DEF Load
  <1> QED  BY <1>1, <1>2

(* What nobody needs can go: the tools of the others are others.            *)
LEMMA UnloadGood ==
    ASSUME NEW r \in GoodRegistries, NEW d, catalog \subseteq Domains
    PROVE  Unload(r, d) \in GoodRegistries
  <1>0. r \in Registries /\ r.made \in Nat
    BY DEF GoodRegistries, Registries
  <1>1. CASE d \notin DOMAIN r.loaded \/ Needed(r, d)
    <2>1. [r EXCEPT !.ok = FALSE] \in Registries
      BY <1>0 DEF Registries
    <2>2. [r EXCEPT !.ok = FALSE] \in GoodRegistries
      BY <1>0, <2>1, KeptOffers DEF Registries
    <2> QED  BY <1>1, <2>2 DEF Unload
  <1>2. CASE ~(d \notin DOMAIN r.loaded \/ Needed(r, d))
    <2> DEFINE now == [e \in DOMAIN r.loaded \ {d} |-> r.loaded[e]]
               tools == [t \in DOMAIN r.tools \ ToSet(ToolsOf(d)) |-> r.tools[t]]
    <2>1. r.loaded \in Partial(catalog, Nat) /\ r.tools \in Partial(ToolNames, catalog)
          /\ r.rpc = r.loaded
      BY <1>0 DEF GoodRegistries, Registries
    <2>2. now \in Partial(catalog, Nat) /\ tools \in Partial(ToolNames, catalog)
      BY <2>1, LessPartial
    <2>3. PICK s : s = [r EXCEPT !.loaded = now, !.tools = tools, !.rpc = now]
      OBVIOUS
    <2>4. Unload(r, d) = s
      BY <1>2, <2>1, <2>3 DEF Unload
    <2>5. DOMAIN now = DOMAIN r.loaded \ {d} /\ DOMAIN tools = DOMAIN r.tools \ ToSet(ToolsOf(d))
      OBVIOUS
    <2>6. (\A e \in DOMAIN now : now[e] = r.loaded[e]) /\ \A t \in DOMAIN tools : tools[t] = r.tools[t]
      OBVIOUS
    <2> HIDE DEF now, tools
    <2>7. /\ s \in Registries /\ s.loaded = now /\ s.rpc = now /\ s.tools = tools
          /\ s.made = r.made
      BY <1>0, <2>2, <2>3 DEF Registries
    <2>8. ASSUME NEW e \in DOMAIN now
          PROVE  Offered(s, e)
      <3>1. e \in DOMAIN r.loaded /\ e # d /\ Offered(r, e) /\ Offered(r, d)
        BY <1>2, <2>5 DEF GoodRegistries
      <3>2. ToSet(DependsOn(e)) \subseteq DOMAIN now
        BY <1>2, <2>5, <3>1 DEF Offered, Needed
      <3>3. \A t \in ToSet(ToolsOf(e)) : t \in DOMAIN tools /\ tools[t] = e
        BY <2>5, <2>6, <3>1 DEF Offered
      <3> QED  BY <2>6, <2>7, <3>1, <3>2, <3>3 DEF Offered
    <2> QED  BY <2>4, <2>7, <2>8 DEF GoodRegistries
  <1> QED  BY <1>1, <1>2

LEMMA ReloadGood ==
    ASSUME NEW r \in GoodRegistries, NEW d, catalog \subseteq Domains
    PROVE  Reload(r, d) \in GoodRegistries
  <1>1. (IF d \in DOMAIN r.loaded THEN Unload(r, d) ELSE r) \in GoodRegistries
    BY UnloadGood
  <1> QED  BY <1>1, LoadGood DEF Reload

(* The domains that a session lists, in whatever order.                     *)
LEMMA EnsureGood ==
    ASSUME NEW r \in GoodRegistries, NEW d, catalog \subseteq Domains
    PROVE  Ensure(r, d) \in GoodRegistries
  <1>1. PICK s \in GoodRegistries : s = IF d \in catalog THEN Load(r, d) ELSE r
    BY LoadGood
  <1>2. s \in Registries /\ s.made \in Nat
    BY DEF GoodRegistries, Registries
  <1>3. [s EXCEPT !.ok = TRUE] \in Registries
    BY <1>2 DEF Registries
  <1>4. [s EXCEPT !.ok = TRUE] \in GoodRegistries
    BY <1>2, <1>3, KeptOffers DEF Registries
  <1> QED  BY <1>1, <1>4 DEF Ensure

LEMMA EnsureEachGood ==
    ASSUME NEW r \in GoodRegistries, NEW order, Len(order) \in Nat, catalog \subseteq Domains
    PROVE  EnsureEach(r, order) \in GoodRegistries
  <1> DEFINE N == Len(order)
             Recurses(f) == f = [n \in 0..N |-> IF n = 0 THEN r ELSE Ensure(f[n - 1], order[n])]
             after == CHOOSE f : Recurses(f)
             step == [p \in GoodRegistries \X (1..N) |-> Ensure(p[1], order[p[2]])]
  <1>1. step \in [GoodRegistries \X (1..N) -> GoodRegistries]
    BY EnsureGood
  <1>2. \E f : Recurses(f)
    <2>1. PICK f \in [0..N -> GoodRegistries] : Follows(f, r, step, N)
      BY <1>1, RecursionExists
    <2>2. \A n \in 1..N : f[n - 1] \in GoodRegistries /\ f[n] = Ensure(f[n - 1], order[n])
      <3> SUFFICES ASSUME NEW n \in 1..N
                   PROVE  f[n - 1] \in GoodRegistries /\ f[n] = Ensure(f[n - 1], order[n])
        OBVIOUS
      <3>1. n - 1 \in 0..N
        OBVIOUS
      <3>2. f[n - 1] \in GoodRegistries /\ f[n] = step[<<f[n - 1], n>>]
        BY <2>1, <3>1 DEF Follows
      <3> QED  BY <3>2
    <2>3. \A n \in 0..N : f[n] = IF n = 0 THEN r ELSE Ensure(f[n - 1], order[n])
      BY <2>1, <2>2 DEF Follows
    <2>4. Recurses(f)
      BY <2>1, <2>3
    <2> QED  BY <2>4
  <1>3. Recurses(after)
    BY <1>2
  <1>4. /\ after[0] = r
        /\ \A n \in 1..N : after[n] = Ensure(after[n - 1], order[n])
    <2>1. \A n \in 0..N : after[n] = IF n = 0 THEN r ELSE Ensure(after[n - 1], order[n])
      BY <1>3
    <2> HIDE DEF after
    <2> QED  BY <2>1
  <1> HIDE DEF after, step
  <1>5. \A n \in 0..N : after[n] \in GoodRegistries
    BY <1>4, EnsureGood, HandedOn
  <1>6. EnsureEach(r, order) = after[N]
    BY DEF EnsureEach, after
  <1> QED  BY <1>5, <1>6

(* The registry of the state.                                               *)
LEMMA BecomesGood ==
    ASSUME NEW r \in GoodRegistries, Becomes(r)
    PROVE  Registry' \in GoodRegistries' /\ catalog' = catalog
  <1>1. r \in Registries /\ r.made \in Nat /\ catalog' = catalog
    BY DEF GoodRegistries, Registries, Becomes
  <1>2. PICK s : s = [loaded |-> r.loaded, tools |-> r.tools, rpc |-> r.rpc, made |-> r.made,
                      ok |-> TRUE]
    OBVIOUS
  <1>3. Registry' = s
    BY <1>2 DEF Becomes, Registry
  <1>4. s \in Registries
    BY <1>1, <1>2 DEF Registries
  <1>6. s \in GoodRegistries
    BY <1>1, <1>2, <1>4, KeptOffers
  <1>5. GoodRegistries' = GoodRegistries
    BY <1>1 DEF GoodRegistries, Registries, Offered
  <1> QED  BY <1>1, <1>3, <1>5, <1>6

LEMMA FewDomains == IsFiniteSet(Domains)
  <1>1. Domains = {"files", "charts", "reports"} \cup {"rival"}
    BY DEF Domains
  <1>2. {"files", "charts", "reports"} = {"files", "charts"} \cup {"reports"}
    OBVIOUS
  <1>3. {"files", "charts"} = {"files"} \cup {"charts"}
    OBVIOUS
  <1>4. IsFiniteSet({"files"})
    BY FS_Singleton
  <1>5. IsFiniteSet({"files", "charts"})
    BY <1>3, <1>4, FS_AddElement
  <1>6. IsFiniteSet({"files", "charts", "reports"})
    BY <1>2, <1>5, FS_AddElement
  <1> QED  BY <1>1, <1>6, FS_AddElement

LEMMA OrdersOf ==
    ASSUME NEW S \in SUBSET Domains, NEW order \in SetToSeqs(S)
    PROVE  Len(order) \in Nat
  <1>1. Cardinality(S) \in Nat
    BY FewDomains, FS_Subset, FS_CardinalityType
  <1>2. order \in [1..Cardinality(S) -> S]
    BY DEF SetToSeqs
  <1>3. order \in Seq(S)
    BY <1>1, <1>2
  <1> QED  BY <1>3

LEMMA HostInvInit == HostInit => HostInv
  <1> SUFFICES ASSUME HostInit
               PROVE  HostInv
    OBVIOUS
  <1>1. catalog \subseteq Domains
    BY HostAssumption DEF HostInit
  <1>2. <<>> \in Partial(catalog, Nat) /\ <<>> \in Partial(ToolNames, catalog)
    <2>1. <<>> \in [{} -> Nat] /\ <<>> \in [{} -> catalog]
      OBVIOUS
    <2> QED  BY <2>1, IsPartial
  <1>3. Registry \in Registries
    BY <1>2 DEF HostInit, Registry, Registries
  <1>4. Registry.rpc = Registry.loaded /\ DOMAIN Registry.loaded = {}
    BY DEF HostInit, Registry
  <1>5. Registry \in GoodRegistries
    BY <1>3, <1>4 DEF GoodRegistries
  <1> QED  BY <1>1, <1>5 DEF HostInit, HostInv, Uses, NoUse

(* What a session lists, and its tools, as it is changed and stored.        *)
LEMMA OpenedUse ==
    ASSUME HostInv, NEW s \in HostSessions
    PROVE  Opened(s) \in Uses(catalog)
  BY DEF Opened, HostInv, Uses

LEMMA StoresUse ==
    ASSUME HostInv, NEW s \in HostSessions, NEW use \in Uses(catalog), Stores(s, use)
    PROVE  uses' \in [HostSessions -> Uses(catalog)] /\ usesStored' \in [HostSessions -> Uses(catalog)]
  <1>1. [use EXCEPT !.open = FALSE] \in Uses(catalog)
    BY DEF Uses
  <1> QED  BY <1>1 DEF Stores, HostInv

LEMMA DomainTools ==
    ASSUME NEW d \in Domains
    PROVE  ToSet(ToolsOf(d)) \subseteq ToolNames
  BY DomainTables DEF ToSet

LEMMA HostInvStep == HostInv /\ [HostNext]_hostVars => HostInv'
  <1> SUFFICES ASSUME HostInv, [HostNext]_hostVars
               PROVE  HostInv'
    OBVIOUS
  <1> DEFINE UsesKept == /\ uses' \in [HostSessions -> Uses(catalog)]
                         /\ usesStored' \in [HostSessions -> Uses(catalog)]
  <1>1. catalog \subseteq Domains /\ Registry \in GoodRegistries
    BY DEF HostInv
  <1>2. ASSUME NEW r \in GoodRegistries, Becomes(r), UsesKept
        PROVE  HostInv'
    BY <1>1, <1>2, BecomesGood DEF HostInv
  <1>3. UNCHANGED <<uses, usesStored>> => UsesKept
    BY DEF HostInv
  <1> HIDE DEF UsesKept
  <1>4. ASSUME NEW s \in HostSessions, NEW d \in catalog, ServiceLoad(s, d)
        PROVE  HostInv'
    <2>1. PICK r : r = Load(Registry, d)
      OBVIOUS
    <2>2. r \in GoodRegistries /\ Becomes(r)
      BY <1>1, <1>4, <2>1, LoadGood DEF ServiceLoad
    <2>3. [Opened(s) EXCEPT !.domains = @ \cup {d}, !.tools = @ \cup ToSet(ToolsOf(d))] \in Uses(catalog)
      <3>1. Opened(s) \in Uses(catalog) /\ ToSet(ToolsOf(d)) \subseteq ToolNames
        BY <1>1, OpenedUse, DomainTools
      <3> QED  BY <3>1 DEF Uses
    <2>4. UsesKept
      BY <1>3, <1>4, <2>1, <2>3, StoresUse DEF ServiceLoad, UsesKept
    <2> QED  BY <1>2, <2>2, <2>4
  <1>5. ASSUME NEW s \in HostSessions, NEW d \in catalog, ServiceUnload(s, d)
        PROVE  HostInv'
    <2>1. PICK r : r = Unload(Registry, d)
      OBVIOUS
    <2>2. r \in GoodRegistries /\ Becomes(r)
      BY <1>1, <1>5, <2>1, UnloadGood DEF ServiceUnload
    <2>3. [Opened(s) EXCEPT !.domains = @ \ {d}, !.tools = @ \ ToSet(ToolsOf(d))] \in Uses(catalog)
      BY OpenedUse DEF Uses
    <2>4. UsesKept
      BY <1>3, <1>5, <2>1, <2>3, StoresUse DEF ServiceUnload, UsesKept
    <2> QED  BY <1>2, <2>2, <2>4
  <1>6. ASSUME NEW s \in HostSessions, NEW d \in catalog, ToolLoad(s, d)
        PROVE  HostInv'
    <2>1. PICK r : r = IF d \in DOMAIN loaded THEN Registry ELSE Load(Registry, d)
      OBVIOUS
    <2>2. r \in GoodRegistries /\ Becomes(r)
      BY <1>1, <1>6, <2>1, LoadGood DEF ToolLoad
    <2>3. UsesKept
      BY <1>6 DEF ToolLoad, HostInv, UsesKept, Uses
    <2> QED  BY <1>2, <2>2, <2>3
  <1>7. ASSUME NEW s \in HostSessions, NEW d \in catalog, ToolUnload(s, d)
        PROVE  HostInv'
    <2>1. PICK r : r = Unload(Registry, d)
      OBVIOUS
    <2>2. r \in GoodRegistries /\ Becomes(r)
      BY <1>1, <1>7, <2>1, UnloadGood DEF ToolUnload
    <2>3. UsesKept
      BY <1>7 DEF ToolUnload, HostInv, UsesKept, Uses
    <2> QED  BY <1>2, <2>2, <2>3
  <1>8. ASSUME NEW s \in HostSessions, NEW d \in catalog, RequestState(s, d)
        PROVE  HostInv'
    BY <1>1, <1>2, <1>3, <1>8, LoadGood DEF RequestState
  <1>9. ASSUME NEW d \in catalog, ServiceReload(d)
        PROVE  HostInv'
    BY <1>1, <1>2, <1>3, <1>9, ReloadGood DEF ServiceReload
  <1>10. ASSUME NEW s \in HostSessions, SwitchTo(s)
         PROVE  HostInv'
    <2>1. PICK order \in SetToSeqs(Opened(s).domains \ DOMAIN loaded) :
             Becomes(EnsureEach(Registry, order))
      BY <1>10 DEF SwitchTo
    <2>2. Opened(s) \in Uses(catalog)
      BY OpenedUse
    <2>3. Opened(s).domains \ DOMAIN loaded \subseteq Domains
      BY <1>1, <2>2 DEF Uses
    <2>4. Len(order) \in Nat
      BY <2>3, OrdersOf
    <2>5. EnsureEach(Registry, order) \in GoodRegistries
      BY <1>1, <2>4, EnsureEachGood
    <2>6. UsesKept
      BY <1>10, <2>2 DEF SwitchTo, HostInv, UsesKept
    <2> QED  BY <1>2, <2>1, <2>5, <2>6
  <1>11. ASSUME NEW s \in HostSessions, SaveUse(s)
         PROVE  HostInv'
    <2>1. uses[s] \in Uses(catalog)
      BY DEF HostInv
    <2>2. UsesKept
      BY <1>11, <2>1, StoresUse DEF SaveUse, UsesKept
    <2> QED  BY <1>1, <1>11, <2>2 DEF SaveUse, HostInv, Registry, GoodRegistries, Registries, Offered, UsesKept
  <1>12. CASE HostRestart
    <2>1. <<>> \in Partial(catalog, Nat) /\ <<>> \in Partial(ToolNames, catalog)
      <3>1. <<>> \in [{} -> Nat] /\ <<>> \in [{} -> catalog]
        OBVIOUS
      <3> QED  BY <3>1, IsPartial
    <2>2. catalog' = catalog /\ instances' \in Nat
      BY <1>1, <1>12 DEF HostRestart, GoodRegistries, Registries, Registry
    <2>3. Registry' \in Registries' /\ Registry'.rpc = Registry'.loaded /\ DOMAIN Registry'.loaded = {}
      BY <1>12, <2>1, <2>2 DEF HostRestart, Registry, Registries
    <2>4. Registry' \in GoodRegistries'
      BY <2>3 DEF GoodRegistries
    <2> QED  BY <1>12, <2>2, <2>4 DEF HostRestart, HostInv, Uses, NoUse
  <1>13. CASE UNCHANGED hostVars
    BY <1>13 DEF hostVars, HostInv, Registry, GoodRegistries, Registries, Offered
  <1> QED  BY <1>4, <1>5, <1>6, <1>7, <1>8, <1>9, <1>10, <1>11, <1>12, <1>13 DEF HostNext

LEMMA HostInvHolds == HostSpec => []HostInv
  <1>1. HostInit => HostInv
    BY HostInvInit
  <1>2. HostInv /\ [HostNext]_hostVars => HostInv'
    BY HostInvStep
  <1> QED  BY <1>1, <1>2, PTL DEF HostSpec

(* Whatever sessions, the service and the model's tools load, unload and    *)
(* reload, in any order and with loads that fail half way, the registry,    *)
(* the tool table and the RPC methods offer what is loaded.                 *)
THEOREM OffersCorrect == HostSpec => [](HostTypeOK /\ OffersAreLoaded)
  <1>1. HostInv => HostTypeOK /\ OffersAreLoaded
    <2> SUFFICES ASSUME HostInv
                 PROVE  HostTypeOK /\ OffersAreLoaded
      OBVIOUS
    <2>1. Registry \in Registries /\ rpcMethods = loaded /\ \A d \in DOMAIN loaded : Offered(Registry, d)
      BY DEF HostInv, GoodRegistries, Registry
    <2>2. loaded \in Partial(catalog, Nat) /\ toolOwner \in Partial(ToolNames, catalog)
      BY <2>1 DEF Registries, Registry
    <2>3. /\ DOMAIN loaded \subseteq catalog
          /\ \A t \in DOMAIN toolOwner : toolOwner[t] \in catalog
      BY <2>2, PartialFunction
    <2>4. ASSUME NEW d \in DOMAIN loaded
          PROVE  /\ loaded[d] \in 1..instances /\ ToSet(DependsOn(d)) \subseteq DOMAIN loaded
                 /\ \A t \in ToSet(ToolsOf(d)) : t \in DOMAIN toolOwner /\ toolOwner[t] = d
      BY <2>1 DEF Offered, Registry
    <2>5. \A s \in HostSessions : uses[s].domains \cup usesStored[s].domains \subseteq catalog
      BY DEF HostInv, Uses
    <2> QED  BY <2>1, <2>3, <2>4, <2>5
             DEF HostTypeOK, OffersAreLoaded, DependenciesLoaded, RpcIsCurrent, ToolsAreOwned
  <1> QED  BY <1>1, HostInvHolds, PTL

-----------------------------------------------------------------------------
(* The kanban domain                                                        *)

Columns == [id : Nat, tasks : Seq(Nat)]

(* Lists that share no task with each other and list tasks of S only.       *)
Spread(columns, S) ==
    \A i \in DOMAIN columns :
        /\ Unique(columns[i].tasks) /\ Range(columns[i].tasks) \subseteq S
        /\ \A j \in DOMAIN columns :
               i # j => Range(columns[i].tasks) \cap Range(columns[j].tasks) = {}

Boards(N) == [columns : Seq(Columns), tasks : Partial(1..N, Nat)]
GoodBoards(N) == {board \in Boards(N) : Sound(board)}

LEMMA SoundSpread ==
    ASSUME NEW board
    PROVE  Sound(board) <=> Spread(board.columns, DOMAIN board.tasks)
  <1>1. ASSUME Sound(board)
        PROVE  Spread(board.columns, DOMAIN board.tasks)
    BY <1>1 DEF Sound, Spread, At, Unique, Range
  <1>2. ASSUME Spread(board.columns, DOMAIN board.tasks)
        PROVE  Sound(board)
    <2> SUFFICES ASSUME NEW i \in DOMAIN board.columns, NEW j \in DOMAIN board.columns,
                        NEW k \in DOMAIN board.columns[i].tasks, NEW l \in DOMAIN board.columns[j].tasks
                 PROVE  /\ At(board, i, k) \in DOMAIN board.tasks
                        /\ At(board, i, k) = At(board, j, l) => i = j /\ k = l
      BY DEF Sound
    <2>1. /\ board.columns[i].tasks[k] \in Range(board.columns[i].tasks)
          /\ board.columns[j].tasks[l] \in Range(board.columns[j].tasks)
      BY DEF Range
    <2> QED  BY <1>2, <2>1 DEF Spread, At, Unique
  <1> QED  BY <1>1, <1>2

LEMMA GoodBoardIs ==
    ASSUME NEW N, NEW columns \in Seq(Columns), NEW ts \in Partial(1..N, Nat),
           Spread(columns, DOMAIN ts)
    PROVE  [columns |-> columns, tasks |-> ts] \in GoodBoards(N)
  BY SoundSpread DEF GoodBoards, Boards

LEMMA GoodBoardHas ==
    ASSUME NEW N, NEW board \in GoodBoards(N)
    PROVE  /\ board.columns \in Seq(Columns) /\ board.tasks \in Partial(1..N, Nat)
           /\ Spread(board.columns, DOMAIN board.tasks)
           /\ DOMAIN board.tasks \subseteq 1..N
           /\ board = [columns |-> board.columns, tasks |-> board.tasks]
  BY SoundSpread, PartialFunction DEF GoodBoards, Boards

LEMMA MoreGoodBoards ==
    ASSUME NEW N \in Nat, NEW M \in Nat, N <= M
    PROVE  GoodBoards(N) \subseteq GoodBoards(M)
  <1>1. 1..N \subseteq 1..M
    OBVIOUS
  <1>2. Partial(1..N, Nat) \subseteq Partial(1..M, Nat)
    BY <1>1 DEF Partial
  <1> QED  BY <1>2 DEF GoodBoards, Boards

LEMMA ColumnAt ==
    ASSUME NEW columns \in Seq(Columns), NEW i \in DOMAIN columns
    PROVE  /\ columns[i] \in Columns /\ columns[i].tasks \in Seq(Nat) /\ columns[i].id \in Nat
           /\ columns[i] = [id |-> columns[i].id, tasks |-> columns[i].tasks]
           /\ Len(columns[i].tasks) \in Nat
  <1>1. columns[i] \in Columns
    OBVIOUS
  <1>2. /\ columns[i].tasks \in Seq(Nat) /\ columns[i].id \in Nat
        /\ columns[i] = [id |-> columns[i].id, tasks |-> columns[i].tasks]
    BY <1>1 DEF Columns
  <1> QED  BY <1>1, <1>2

LEMMA ListingIs ==
    ASSUME NEW columns \in Seq(Columns), NEW i \in DOMAIN columns, NEW list \in Seq(Nat)
    PROVE  /\ Listing(columns, i, list) \in Seq(Columns)
           /\ DOMAIN Listing(columns, i, list) = DOMAIN columns
           /\ Len(Listing(columns, i, list)) = Len(columns)
           /\ Listing(columns, i, list)[i].tasks = list
           /\ \A j \in DOMAIN columns \ {i} : Listing(columns, i, list)[j] = columns[j]
  <1>1. DOMAIN columns = 1..Len(columns) /\ Len(columns) \in Nat
    OBVIOUS
  <1>2. PICK c : c = [id |-> columns[i].id, tasks |-> list]
    OBVIOUS
  <1>3. c \in Columns /\ c.tasks = list
    BY <1>2, ColumnAt DEF Columns
  <1>4. Listing(columns, i, list) = [columns EXCEPT ![i] = c]
    BY <1>2 DEF Listing
  <1>5. [columns EXCEPT ![i] = c] \in [1..Len(columns) -> Columns]
    BY <1>1, <1>3, ColumnAt
  <1> QED  BY <1>1, <1>3, <1>4, <1>5

LEMMA ListingSpread ==
    ASSUME NEW columns \in Seq(Columns), NEW S, Spread(columns, S), NEW i \in DOMAIN columns,
           NEW list \in Seq(Nat), Unique(list), NEW T, S \subseteq T, Range(list) \subseteq T,
           \A j \in DOMAIN columns \ {i} : Range(list) \cap Range(columns[j].tasks) = {}
    PROVE  Spread(Listing(columns, i, list), T)
  <1> DEFINE new == Listing(columns, i, list)
  <1>1. /\ DOMAIN new = DOMAIN columns /\ new[i].tasks = list
        /\ \A j \in DOMAIN columns \ {i} : new[j] = columns[j]
    BY ListingIs
  <1> HIDE DEF new
  <1>2. ASSUME NEW k \in DOMAIN columns
        PROVE  /\ Unique(new[k].tasks) /\ Range(new[k].tasks) \subseteq T
               /\ \A j \in DOMAIN columns :
                     k # j => Range(new[k].tasks) \cap Range(new[j].tasks) = {}
    <2>1. CASE k = i
      BY <1>1, <2>1
    <2>2. CASE k # i
      <3>1. new[k] = columns[k] /\ Range(list) \cap Range(columns[k].tasks) = {}
        BY <1>1, <2>2
      <3>2. Unique(columns[k].tasks) /\ Range(columns[k].tasks) \subseteq T
        BY DEF Spread
      <3>3. ASSUME NEW j \in DOMAIN columns, k # j
            PROVE  Range(new[k].tasks) \cap Range(new[j].tasks) = {}
        <4>1. CASE j = i
          BY <1>1, <3>1, <4>1
        <4>2. CASE j # i
          <5>1. new[j] = columns[j]
            BY <1>1, <4>2
          <5> QED  BY <3>1, <3>3, <5>1 DEF Spread
        <4> QED  BY <4>1, <4>2
      <3> QED  BY <3>1, <3>2, <3>3
    <2> QED  BY <2>1, <2>2
  <1>3. Spread(new, T)
    BY <1>1, <1>2 DEF Spread
  <1> QED  BY <1>3 DEF new

LEMMA TakenOutIs ==
    ASSUME NEW columns \in Seq(Columns), NEW t
    PROVE  /\ TakenOut(columns, t) \in Seq(Columns)
           /\ DOMAIN TakenOut(columns, t) = DOMAIN columns
           /\ \A i \in DOMAIN columns :
                 TakenOut(columns, t)[i].tasks = Kept(columns[i].tasks, Nat \ {t})
  <1>1. ASSUME NEW i \in DOMAIN columns
        PROVE  /\ TakenOut(columns, t)[i] =
                     [id |-> columns[i].id, tasks |-> Kept(columns[i].tasks, Nat \ {t})]
               /\ TakenOut(columns, t)[i] \in Columns
               /\ TakenOut(columns, t)[i].tasks = Kept(columns[i].tasks, Nat \ {t})
    <2>1. Kept(columns[i].tasks, Nat \ {t}) \in Seq(Nat)
      BY ColumnAt, KeptRange
    <2>2. TakenOut(columns, t)[i] =
              [id |-> columns[i].id, tasks |-> Kept(columns[i].tasks, Nat \ {t})]
      BY ColumnAt DEF TakenOut
    <2>3. TakenOut(columns, t)[i].tasks = Kept(columns[i].tasks, Nat \ {t})
      BY <2>2
    <2> QED  BY <2>1, <2>2, <2>3, ColumnAt DEF Columns
  <1>2. DOMAIN columns = 1..Len(columns) /\ Len(columns) \in Nat
    OBVIOUS
  <1>3. TakenOut(columns, t) = [i \in 1..Len(columns) |-> TakenOut(columns, t)[i]]
    BY <1>2 DEF TakenOut
  <1>4. TakenOut(columns, t) \in [1..Len(columns) -> Columns]
    BY <1>1, <1>2, <1>3
  <1>5. TakenOut(columns, t) \in Seq(Columns)
    BY <1>2, <1>4
  <1>6. \A i \in DOMAIN columns :
            TakenOut(columns, t)[i].tasks = Kept(columns[i].tasks, Nat \ {t})
    BY <1>1
  <1> QED  BY <1>2, <1>4, <1>5, <1>6

LEMMA TakenOutSpread ==
    ASSUME NEW columns \in Seq(Columns), NEW S, Spread(columns, S), NEW t
    PROVE  /\ Spread(TakenOut(columns, t), S \ {t})
           /\ \A i \in DOMAIN columns : t \notin Range(TakenOut(columns, t)[i].tasks)
  <1> DEFINE new == TakenOut(columns, t)
  <1>1. /\ DOMAIN new = DOMAIN columns
        /\ \A i \in DOMAIN columns : new[i].tasks = Kept(columns[i].tasks, Nat \ {t})
    BY TakenOutIs
  <1>2. ASSUME NEW i \in DOMAIN columns
        PROVE  /\ Range(new[i].tasks) = Range(columns[i].tasks) \cap (Nat \ {t})
               /\ Unique(columns[i].tasks) => Unique(new[i].tasks)
    <2>1. columns[i].tasks \in Seq(Nat)
      BY ColumnAt
    <2> HIDE DEF new
    <2> QED  BY <1>1, <2>1, KeptRange
  <1> HIDE DEF new
  <1>3. Spread(new, S \ {t})
    <2> SUFFICES ASSUME NEW i \in DOMAIN columns
                 PROVE  /\ Unique(new[i].tasks) /\ Range(new[i].tasks) \subseteq S \ {t}
                        /\ \A j \in DOMAIN columns :
                              i # j => Range(new[i].tasks) \cap Range(new[j].tasks) = {}
      BY <1>1 DEF Spread
    <2>1. /\ Unique(columns[i].tasks) /\ Range(columns[i].tasks) \subseteq S
          /\ \A j \in DOMAIN columns :
                i # j => Range(columns[i].tasks) \cap Range(columns[j].tasks) = {}
      BY DEF Spread
    <2>2. Unique(new[i].tasks) /\ Range(new[i].tasks) \subseteq S \ {t}
      BY <1>2, <2>1
    <2>3. ASSUME NEW j \in DOMAIN columns, i # j
          PROVE  Range(new[i].tasks) \cap Range(new[j].tasks) = {}
      <3>1. Range(columns[i].tasks) \cap Range(columns[j].tasks) = {}
        BY <2>1, <2>3
      <3>2. /\ Range(new[i].tasks) = Range(columns[i].tasks) \cap (Nat \ {t})
            /\ Range(new[j].tasks) = Range(columns[j].tasks) \cap (Nat \ {t})
        BY <1>2
      <3> QED  BY <3>1, <3>2
    <2> QED  BY <2>2, <2>3
  <1>4. \A i \in DOMAIN columns : t \notin Range(new[i].tasks)
    BY <1>2
  <1> QED  BY <1>3, <1>4 DEF new

LEMMA TaskAddedGood ==
    ASSUME NEW N \in Nat, NEW board \in GoodBoards(N), NEW i \in DOMAIN board.columns
    PROVE  /\ TaskAdded(board, i, N + 1) \in GoodBoards(N + 1)
           /\ DOMAIN TaskAdded(board, i, N + 1).tasks = DOMAIN board.tasks \cup {N + 1}
  <1> DEFINE cs == board.columns
             list == Append(cs[i].tasks, N + 1)
             ts == Entered(board.tasks, N + 1, 0)
  <1>1. /\ cs \in Seq(Columns) /\ board.tasks \in Partial(1..N, Nat)
        /\ Spread(cs, DOMAIN board.tasks) /\ DOMAIN board.tasks \subseteq 1..N
    BY GoodBoardHas
  <1>2. N + 1 \in Nat /\ N + 1 \notin 1..N /\ 1..N \subseteq 1..(N + 1) /\ N + 1 \in 1..(N + 1)
    OBVIOUS
  <1>3. DOMAIN ts = DOMAIN board.tasks \cup {N + 1} /\ ts \in Partial(1..(N + 1), Nat)
    <2>1. board.tasks \in Partial(1..(N + 1), Nat)
      BY <1>1, <1>2 DEF Partial
    <2> QED  BY <1>2, <2>1, EnteredPartial, EnteredAt
  <1>4. /\ Range(cs[i].tasks) \subseteq 1..N /\ Unique(cs[i].tasks) /\ cs[i].tasks \in Seq(Nat)
    BY <1>1, ColumnAt DEF Spread
  <1>5. /\ list \in Seq(Nat) /\ Unique(list) /\ Range(list) = Range(cs[i].tasks) \cup {N + 1}
    BY <1>2, <1>4, RangeAppend, UniqueAppend
  <1> HIDE DEF cs, list, ts
  <1>6. \A j \in DOMAIN cs \ {i} : Range(list) \cap Range(cs[j].tasks) = {}
    BY <1>1, <1>2, <1>5 DEF Spread, cs
  <1>7. i \in DOMAIN cs
    BY DEF cs
  <1>8. Listing(cs, i, list) \in Seq(Columns) /\ Spread(Listing(cs, i, list), DOMAIN ts)
    <2>1. Range(list) \subseteq DOMAIN ts /\ DOMAIN board.tasks \subseteq DOMAIN ts
      BY <1>1, <1>3, <1>5, <1>7 DEF Spread
    <2>2. Listing(cs, i, list) \in Seq(Columns)
      BY <1>1, <1>5, <1>7, ListingIs
    <2>3. Spread(Listing(cs, i, list), DOMAIN ts)
      BY <1>1, <1>5, <1>6, <1>7, <2>1, ListingSpread
    <2> QED  BY <2>2, <2>3
  <1>9. TaskAdded(board, i, N + 1) = [columns |-> Listing(cs, i, list), tasks |-> ts]
    BY DEF TaskAdded, cs, list, ts
  <1> QED  BY <1>2, <1>3, <1>8, <1>9, GoodBoardIs

LEMMA TaskEditedGood ==
    ASSUME NEW N \in Nat, NEW board \in GoodBoards(N), NEW t \in DOMAIN board.tasks
    PROVE  /\ TaskEdited(board, t) \in GoodBoards(N)
           /\ DOMAIN TaskEdited(board, t).tasks = DOMAIN board.tasks
  <1> DEFINE ts == [board.tasks EXCEPT ![t] = @ + 1]
  <1>1. /\ board.columns \in Seq(Columns) /\ board.tasks \in Partial(1..N, Nat)
        /\ Spread(board.columns, DOMAIN board.tasks)
    BY GoodBoardHas
  <1>2. DOMAIN ts = DOMAIN board.tasks /\ ts \in Partial(1..N, Nat)
    <2>1. /\ board.tasks \in [DOMAIN board.tasks -> Nat]
          /\ DOMAIN board.tasks \subseteq 1..N
      BY <1>1, PartialFunction
    <2>2. ts \in [DOMAIN board.tasks -> Nat]
      BY <2>1
    <2> QED  BY <2>1, <2>2, IsPartial
  <1>3. TaskEdited(board, t) = [columns |-> board.columns, tasks |-> ts]
    BY DEF TaskEdited
  <1> HIDE DEF ts
  <1> QED  BY <1>1, <1>2, <1>3, GoodBoardIs

LEMMA TaskMovedGood ==
    ASSUME NEW N \in Nat, NEW board \in GoodBoards(N), NEW t \in DOMAIN board.tasks,
           NEW j \in DOMAIN board.columns,
           NEW place \in 1..Len(TakenOut(board.columns, t)[j].tasks) + 1
    PROVE  /\ TaskMoved(board, t, j, place) \in GoodBoards(N)
           /\ DOMAIN TaskMoved(board, t, j, place).tasks = DOMAIN board.tasks
  <1> DEFINE out == TakenOut(board.columns, t)
             list == InsertAt(out[j].tasks, place, t)
  <1>1. /\ board.columns \in Seq(Columns) /\ board.tasks \in Partial(1..N, Nat)
        /\ Spread(board.columns, DOMAIN board.tasks) /\ DOMAIN board.tasks \subseteq 1..N
    BY GoodBoardHas
  <1>2. /\ out \in Seq(Columns) /\ DOMAIN out = DOMAIN board.columns
        /\ Spread(out, DOMAIN board.tasks \ {t})
        /\ \A i \in DOMAIN board.columns : t \notin Range(out[i].tasks)
    BY <1>1, TakenOutIs, TakenOutSpread
  <1>3. t \in Nat
    BY <1>1
  <1>4. place \in 1..Len(out[j].tasks) + 1
    OBVIOUS
  <1> HIDE DEF out
  <1>5. /\ list \in Seq(Nat) /\ Unique(list) /\ Range(list) \subseteq Range(out[j].tasks) \cup {t}
    <2>1. out[j].tasks \in Seq(Nat) /\ Unique(out[j].tasks) /\ t \notin Range(out[j].tasks)
      BY <1>2, ColumnAt DEF Spread
    <2> QED  BY <1>3, <1>4, <2>1, InsertedAt, UniqueInsertAt
  <1> HIDE DEF list
  <1>6. \A i \in DOMAIN out \ {j} : Range(list) \cap Range(out[i].tasks) = {}
    BY <1>2, <1>5 DEF Spread
  <1>7. Range(list) \subseteq DOMAIN board.tasks
    BY <1>2, <1>5 DEF Spread
  <1>8. Listing(out, j, list) \in Seq(Columns) /\ Spread(Listing(out, j, list), DOMAIN board.tasks)
    <2>1. j \in DOMAIN out /\ DOMAIN board.tasks \ {t} \subseteq DOMAIN board.tasks
      BY <1>2
    <2>2. Listing(out, j, list) \in Seq(Columns)
      BY <1>2, <1>5, <2>1, ListingIs
    <2>3. Spread(Listing(out, j, list), DOMAIN board.tasks)
      BY <1>2, <1>5, <1>6, <1>7, <2>1, ListingSpread
    <2> QED  BY <2>2, <2>3
  <1>9. TaskMoved(board, t, j, place) = [columns |-> Listing(out, j, list), tasks |-> board.tasks]
    BY DEF TaskMoved, out, list
  <1> QED  BY <1>1, <1>8, <1>9, GoodBoardIs

LEMMA TaskDroppedGood ==
    ASSUME NEW N \in Nat, NEW board \in GoodBoards(N), NEW t \in DOMAIN board.tasks
    PROVE  /\ TaskDropped(board, t) \in GoodBoards(N)
           /\ DOMAIN TaskDropped(board, t).tasks = DOMAIN board.tasks \ {t}
  <1> DEFINE out == TakenOut(board.columns, t)
             ts == Without(board.tasks, t)
  <1>1. /\ board.columns \in Seq(Columns) /\ board.tasks \in Partial(1..N, Nat)
        /\ Spread(board.columns, DOMAIN board.tasks) /\ DOMAIN board.tasks \subseteq 1..N
    BY GoodBoardHas
  <1>2. out \in Seq(Columns) /\ Spread(out, DOMAIN board.tasks \ {t})
    BY <1>1, TakenOutIs, TakenOutSpread
  <1>3. DOMAIN ts = DOMAIN board.tasks \ {t} /\ ts \in Partial(1..N, Nat)
    BY <1>1, LessPartial DEF Without
  <1>4. TaskDropped(board, t) = [columns |-> out, tasks |-> ts]
    BY DEF TaskDropped
  <1> HIDE DEF out, ts
  <1> QED  BY <1>2, <1>3, <1>4, GoodBoardIs

LEMMA ColumnDroppedGood ==
    ASSUME NEW N \in Nat, NEW board \in GoodBoards(N), NEW i \in DOMAIN board.columns,
           NEW j \in 0..Len(board.columns)
    PROVE  /\ ColumnDropped(board, i, j) \in GoodBoards(N)
           /\ DOMAIN ColumnDropped(board, i, j).tasks = DOMAIN board.tasks
  <1> DEFINE cs == board.columns
             to == IF j = 0 \/ j = i THEN cs
                   ELSE Listing(cs, j, cs[j].tasks \o cs[i].tasks)
             S == DOMAIN board.tasks
             new == RemoveAt(to, i)
  <1>1. /\ cs \in Seq(Columns) /\ board.tasks \in Partial(1..N, Nat) /\ Spread(cs, S)
    BY GoodBoardHas
  <1>2. ColumnDropped(board, i, j) = [columns |-> new, tasks |-> board.tasks]
    BY DEF ColumnDropped
  <1>3. i \in DOMAIN cs /\ (j # 0 => j \in DOMAIN cs)
    BY <1>1
  <1>4. /\ to \in Seq(Columns) /\ DOMAIN to = DOMAIN cs
        /\ \A k \in DOMAIN cs \ {i} :
              /\ Unique(to[k].tasks) /\ Range(to[k].tasks) \subseteq S
              /\ \A l \in DOMAIN cs \ {i} : k # l => Range(to[k].tasks) \cap Range(to[l].tasks) = {}
    <2>1. CASE j = 0 \/ j = i
      <3>1. to = cs
        BY <2>1
      <3> HIDE DEF to, cs
      <3> QED  BY <1>1, <3>1 DEF Spread
    <2>2. CASE ~(j = 0 \/ j = i)
      <3> DEFINE list == cs[j].tasks \o cs[i].tasks
      <3>1. to = Listing(cs, j, list)
        BY <2>2
      <3>2. j \in DOMAIN cs /\ j # i
        BY <1>3, <2>2
      <3> HIDE DEF to, cs, S
      <3>3. cs[j].tasks \in Seq(Nat) /\ cs[i].tasks \in Seq(Nat)
        BY <1>1, <1>3, <3>2, ColumnAt
      <3>4. /\ Unique(cs[j].tasks) /\ Unique(cs[i].tasks)
            /\ Range(cs[j].tasks) \cap Range(cs[i].tasks) = {}
        BY <1>1, <1>3, <3>2 DEF Spread
      <3>5. /\ list \in Seq(Nat) /\ Unique(list)
            /\ Range(list) = Range(cs[j].tasks) \cup Range(cs[i].tasks)
        BY <3>3, <3>4, RangeJoin, UniqueJoined
      <3> HIDE DEF list
      <3>6. /\ to \in Seq(Columns) /\ DOMAIN to = DOMAIN cs /\ to[j].tasks = list
            /\ \A k \in DOMAIN cs \ {j} : to[k] = cs[k]
        BY <1>1, <3>1, <3>2, <3>5, ListingIs
      <3> QED  BY <1>1, <1>3, <3>2, <3>5, <3>6 DEF Spread
    <2> QED  BY <2>1, <2>2
  <1> HIDE DEF to, cs, S
  <1>5. i \in DOMAIN to /\ Len(to) \in Nat /\ DOMAIN to = 1..Len(to)
    BY <1>3, <1>4
  <1>6. /\ new \in Seq(Columns) /\ DOMAIN new = 1..Len(to) - 1
        /\ \A k \in 1..Len(to) - 1 : new[k] = IF k < i THEN to[k] ELSE to[k + 1]
    BY <1>4, <1>5, RangeRemoveAt, RemovedAt
  <1> HIDE DEF new
  <1>7. ASSUME NEW k \in 1..Len(to) - 1
        PROVE  \E n \in DOMAIN cs \ {i} : new[k] = to[n] /\ n = IF k < i THEN k ELSE k + 1
    <2>1. (IF k < i THEN k ELSE k + 1) \in DOMAIN cs \ {i}
      BY <1>4, <1>5
    <2> QED  BY <1>6, <2>1
  <1>8. Spread(new, S)
    <2> SUFFICES ASSUME NEW k \in DOMAIN new
                 PROVE  /\ Unique(new[k].tasks) /\ Range(new[k].tasks) \subseteq S
                        /\ \A l \in DOMAIN new : k # l => Range(new[k].tasks) \cap Range(new[l].tasks) = {}
      BY DEF Spread
    <2>1. PICK n \in DOMAIN cs \ {i} : new[k] = to[n] /\ n = IF k < i THEN k ELSE k + 1
      BY <1>6, <1>7
    <2>2. ASSUME NEW l \in DOMAIN new, k # l
          PROVE  Range(new[k].tasks) \cap Range(new[l].tasks) = {}
      <3>1. PICK o \in DOMAIN cs \ {i} : new[l] = to[o] /\ o = IF l < i THEN l ELSE l + 1
        BY <1>6, <1>7
      <3>2. n # o
        BY <1>5, <1>6, <2>1, <2>2, <3>1
      <3> QED  BY <1>4, <2>1, <3>1, <3>2
    <2> QED  BY <1>4, <2>1, <2>2
  <1> QED  BY <1>1, <1>2, <1>6, <1>8, GoodBoardIs DEF S

-----------------------------------------------------------------------------
(* What holds of the domain in every state                                  *)

ForBoard(w) == w.file = "board"
ForLink(w) == w.file \notin {"board", "unlink"}

BoardTables(k, N) == Partial(1..k, GoodBoards(N))
Files(N) == [whole : BOOLEAN, board : GoodBoards(N)]
FileTables(k, N) == Partial(1..k, Files(N))

(* What a call still writes: a board and then what links it, or one thing.  *)
(* The task that the user will be told of is on the board.                  *)
PlanOK(ws, made, ts) ==
    \E w : /\ ws = <<w>> \/ \E a : ws = <<w, a>> /\ ~ForBoard(a) /\ made = {}
           /\ ForBoard(w) => w.key \in 1..ts.boards /\ w.board \in GoodBoards(Len(ts.on))
           /\ \A t \in made : /\ ForBoard(w) /\ t \in 1..Len(ts.on)
                              /\ ts.on[t] = w.key /\ t \in DOMAIN w.board.tasks

TasksOK(ts) ==
    /\ ts = [on |-> ts.on, answered |-> ts.answered, deleted |-> ts.deleted,
             boards |-> ts.boards, links |-> ts.links]
    /\ ts.on \in Seq(Nat) /\ ts.answered \subseteq 1..Len(ts.on) /\ ts.boards \in Nat

CallOK(c, ts) ==
    /\ c = [at |-> c.at, op |-> c.op, left |-> c.left, writes |-> c.writes, made |-> c.made]
    /\ c.at \in {"idle", "boards", "links", "write", "put"}
    /\ c.at \in {"write", "put"} => PlanOK(c.writes, c.made, ts)
    /\ c.at = "put" => ForBoard(Head(c.writes))

KanbanShape ==
    /\ TasksOK(tasks)
    /\ boards \in BoardTables(tasks.boards, Len(tasks.on))
    /\ boardFiles \in FileTables(tasks.boards, Len(tasks.on))
    /\ calls = [u \in Users |-> calls[u]]
    /\ \A u \in Users : /\ CallOK(calls[u], tasks) /\ calls[u].op \in Ops
                        /\ calls[u].at = "boards" => calls[u].left \subseteq DOMAIN boardFiles
                        /\ calls[u].at = "put" => Head(calls[u].writes).key \in DOMAIN boardFiles

Alike(x, y) == DOMAIN x.tasks = DOMAIN y.tasks /\ ("wrong" \notin kanbanWay => x = y)

(* The call is about to write the board b.                                  *)
Working(c, b) ==
    c.at \in {"write", "put"} /\ ForBoard(Head(c.writes)) /\ Head(c.writes).key = b
InFile(b) ==
    b \in DOMAIN boardFiles /\ boardFiles[b].whole /\ Alike(boardFiles[b].board, boards[b])

TurnInv ==
    /\ \A u, v \in Users : u # v => calls[u].at = "idle" \/ calls[v].at = "idle"
    /\ \A u \in Users :
           /\ calls[u].at \in {"boards", "links"} => ~boardsLoaded
           /\ calls[u].at \in {"write", "put"} => boardsLoaded
           /\ calls[u].at = "boards" =>
                  \A b \in DOMAIN boardFiles \ calls[u].left : boardFiles[b].whole => b \in DOMAIN boards
           /\ calls[u].at = "put" => ~boardFiles[Head(calls[u].writes).key].whole
           /\ \A b : Working(calls[u], b) => b \in DOMAIN boards /\ boards[b] = Head(calls[u].writes).board
    /\ boardsLoaded \/ (\E u \in Users : calls[u].at = "links") =>
           \A b \in DOMAIN boardFiles : boardFiles[b].whole => b \in DOMAIN boards
    /\ \A b \in DOMAIN boards : InFile(b) \/ \E u \in Users : Working(calls[u], b)
    /\ \A t \in tasks.answered \ tasks.deleted :
           LET b == tasks.on[t]
           IN  /\ b \in DOMAIN boardFiles
               /\ boardFiles[b].whole => t \in DOMAIN boardFiles[b].board.tasks
               /\ b \in DOMAIN boards => t \in DOMAIN boards[b].tasks

KanbanInv == KanbanShape /\ (Patient => TurnInv)

-----------------------------------------------------------------------------
(* How a tool may end                                                       *)

(* The boards afterwards, and what of them is to be written.                *)
BoardsGo(o, bs) ==
    /\ o.boards \in BoardTables(tasks.boards + 1, Len(tasks.on) + Len(o.task))
    /\ DOMAIN bs \subseteq DOMAIN o.boards
    /\ DOMAIN o.boards \ DOMAIN bs \in {{}, {tasks.boards + 1}}
    /\ \A b \in DOMAIN bs : DOMAIN bs[b].tasks \subseteq DOMAIN o.boards[b].tasks \cup o.gone

Written1(o, bs) ==
    \E w : /\ o.writes = <<w>> \/ \E a : o.writes = <<w, a>> /\ ForBoard(w) /\ ForLink(a) /\ o.task = <<>>
           /\ ForBoard(w) => w.key \in DOMAIN o.boards /\ o.boards[w.key] = w.board
           /\ ~ForBoard(w) => o.boards = bs
           /\ \A b \in DOMAIN o.boards : \/ ForBoard(w) /\ b = w.key
                                         \/ b \in DOMAIN bs /\ bs[b] = o.boards[b]
           /\ o.task # <<>> => ForBoard(w) /\ o.task = <<w.key>> /\ Len(tasks.on) + 1 \in DOMAIN w.board.tasks

OutcomeOK(o, bs) ==
    /\ BoardsGo(o, bs) /\ Len(o.task) \in Nat /\ o.task \in Seq(Nat)
    /\ \/ Written1(o, bs)
       \/ /\ o.writes = <<>> /\ o.task = <<>>
          /\ \A b \in DOMAIN o.boards : b \in DOMAIN bs /\ Alike(bs[b], o.boards[b])

LEMMA TableHas ==
    ASSUME NEW k, NEW N, NEW bs \in BoardTables(k, N)
    PROVE  /\ DOMAIN bs \subseteq 1..k /\ bs \in [DOMAIN bs -> GoodBoards(N)]
           /\ \A b \in DOMAIN bs : b \in 1..k /\ bs[b] \in GoodBoards(N)
  <1>1. PICK S \in SUBSET (1..k) : bs \in [S -> GoodBoards(N)]
    BY DEF BoardTables, Partial
  <1> QED  BY <1>1

LEMMA MoreTables ==
    ASSUME NEW k \in Nat, NEW N \in Nat, NEW l \in Nat, NEW M \in Nat, k <= l, N <= M
    PROVE  BoardTables(k, N) \subseteq BoardTables(l, M)
  <1>1. 1..k \subseteq 1..l /\ GoodBoards(N) \subseteq GoodBoards(M)
    BY MoreGoodBoards
  <1> SUFFICES ASSUME NEW bs \in BoardTables(k, N)
               PROVE  bs \in BoardTables(l, M)
    OBVIOUS
  <1>2. DOMAIN bs \subseteq 1..k /\ bs \in [DOMAIN bs -> GoodBoards(N)]
    BY TableHas
  <1>3. DOMAIN bs \subseteq 1..l /\ bs \in [DOMAIN bs -> GoodBoards(M)]
    BY <1>1, <1>2
  <1> QED  BY <1>3, IsPartial DEF BoardTables

LEMMA OneMoreTable ==
    ASSUME NEW k \in Nat, NEW N \in Nat, NEW bs \in BoardTables(k, N)
    PROVE  bs \in BoardTables(k + 1, N)
  <1>1. k + 1 \in Nat /\ k <= k + 1 /\ N <= N
    OBVIOUS
  <1> QED  BY <1>1, MoreTables

LEMMA TableEntered ==
    ASSUME NEW k, NEW N, NEW bs \in BoardTables(k, N), NEW b \in 1..k, NEW board \in GoodBoards(N)
    PROVE  Entered(bs, b, board) \in BoardTables(k, N)
  BY EnteredPartial DEF BoardTables

LEMMA EndingIs ==
    ASSUME NEW bs, NEW ls, NEW writes, NEW task, NEW gone, NEW o, o = Ending(bs, ls, writes, task, gone)
    PROVE  /\ o.boards = bs /\ o.links = ls /\ o.writes = writes /\ o.task = task /\ o.gone = gone
  BY DEF Ending

LEMMA BoardWriteIs ==
    ASSUME NEW b, NEW board
    PROVE  /\ BoardWrite(b, board).key = b /\ BoardWrite(b, board).board = board
           /\ ForBoard(BoardWrite(b, board))
  BY DEF BoardWrite, ForBoard

LEMMA LinkWriteIs ==
    ASSUME NEW file, file # "board", NEW key, NEW to
    PROVE  ~ForBoard(LinkWrite(file, key, to))
  BY DEF LinkWrite, ForBoard

LEMMA EmptyBoardGood ==
    ASSUME NEW N \in Nat
    PROVE  EmptyBoard \in GoodBoards(N)
  <1> DEFINE cs == [i \in 1..ColumnCount |-> [id |-> i, tasks |-> <<>>]]
  <1>1. ColumnCount \in Nat
    BY KanbanAssumption
  <1>2. cs \in [1..ColumnCount -> Columns]
    BY <1>1 DEF Columns
  <1>3. cs \in Seq(Columns) /\ DOMAIN cs = 1..ColumnCount
    BY <1>1, <1>2
  <1>4. <<>> \in Partial(1..N, Nat) /\ DOMAIN <<>> = {}
    <2>1. <<>> \in [{} -> Nat]
      OBVIOUS
    <2> QED  BY <2>1 DEF Partial
  <1>5. \A i \in DOMAIN cs : cs[i].tasks = <<>>
    BY <1>3
  <1> HIDE DEF cs
  <1>6. Spread(cs, DOMAIN <<>>)
    BY <1>5, NoRange DEF Spread, Unique
  <1>7. EmptyBoard = [columns |-> cs, tasks |-> <<>>]
    BY DEF EmptyBoard, cs
  <1> QED  BY <1>3, <1>4, <1>6, <1>7, GoodBoardIs

(* A board is put in the place of another, and written.                     *)
LEMMA ChangedOK ==
    ASSUME TasksOK(tasks), NEW bs \in BoardTables(tasks.boards, Len(tasks.on)), NEW ls,
           NEW b \in DOMAIN bs, NEW task \in Seq(Nat), NEW gone,
           NEW board \in GoodBoards(Len(tasks.on) + Len(task)),
           DOMAIN bs[b].tasks \subseteq DOMAIN board.tasks \cup gone,
           task = <<>> \/ (task = <<b>> /\ Len(tasks.on) + 1 \in DOMAIN board.tasks),
           NEW o, o = Changed(bs, ls, b, board, task, gone)
    PROVE  OutcomeOK(o, bs)
  <1> DEFINE n == Len(tasks.on)
             new == Entered(bs, b, board)
             w == BoardWrite(b, board)
  <1>1. /\ o.boards = new /\ o.writes = <<w>> /\ o.task = task /\ o.gone = gone
    BY EndingIs DEF Changed
  <1>2. /\ n \in Nat /\ Len(task) \in Nat /\ tasks.boards \in Nat
    BY DEF TasksOK
  <1>3. /\ DOMAIN new = DOMAIN bs /\ new[b] = board
        /\ \A c \in DOMAIN bs \ {b} : new[c] = bs[c]
    BY DEF Entered
  <1>4. new \in BoardTables(tasks.boards + 1, n + Len(task))
    <2>1. bs \in BoardTables(tasks.boards + 1, n + Len(task))
      BY <1>2, MoreTables
    <2>2. b \in 1..tasks.boards + 1
      BY <2>1, TableHas
    <2> QED  BY <2>1, <2>2, TableEntered
  <1>5. w.key = b /\ w.board = board /\ ForBoard(w)
    BY BoardWriteIs
  <1> HIDE DEF new, w
  <1>6. BoardsGo(o, bs)
    BY <1>1, <1>3, <1>4 DEF BoardsGo
  <1>7. Written1(o, bs)
    BY <1>1, <1>3, <1>5 DEF Written1
  <1> QED  BY <1>1, <1>2, <1>6, <1>7 DEF OutcomeOK

LEMMA BoardCreateOK ==
    ASSUME TasksOK(tasks), NEW bs \in BoardTables(tasks.boards, Len(tasks.on)), NEW ls,
           NEW u, NEW o \in BoardCreate(u, bs, ls)
    PROVE  OutcomeOK(o, bs)
  <1> DEFINE n == Len(tasks.on)
             b == tasks.boards + 1
             new == Entered(bs, b, EmptyBoard)
             w == BoardWrite(b, EmptyBoard)
             a == LinkWrite("associate", b, 0)
  <1>1. o = Ending(new, ls, <<w, a>>, <<>>, {})
    BY DEF BoardCreate
  <1>2. /\ o.boards = new /\ o.writes = <<w, a>> /\ o.task = <<>> /\ o.gone = {}
    BY <1>1, EndingIs
  <1>3. /\ n \in Nat /\ tasks.boards \in Nat /\ n + Len(<<>>) = n
    BY DEF TasksOK
  <1>4. DOMAIN bs \subseteq 1..tasks.boards
    BY TableHas
  <1>5. b \notin DOMAIN bs /\ b \in 1..tasks.boards + 1 /\ 1..tasks.boards \subseteq 1..tasks.boards + 1
    BY <1>3, <1>4
  <1>6. /\ DOMAIN new = DOMAIN bs \cup {b} /\ new[b] = EmptyBoard
        /\ \A c \in DOMAIN bs : new[c] = bs[c]
    BY <1>5 DEF Entered
  <1>7. new \in BoardTables(tasks.boards + 1, n)
    <2>1. bs \in BoardTables(tasks.boards + 1, n)
      BY <1>3, OneMoreTable
    <2>2. EmptyBoard \in GoodBoards(n)
      BY <1>3, EmptyBoardGood
    <2> QED  BY <1>5, <2>1, <2>2, TableEntered
  <1>8. w.key = b /\ w.board = EmptyBoard /\ ForBoard(w) /\ ForLink(a)
    BY BoardWriteIs DEF LinkWrite, ForLink
  <1> HIDE DEF new, w, a
  <1>9. BoardsGo(o, bs)
    <2>1. DOMAIN o.boards \ DOMAIN bs = {tasks.boards + 1}
      BY <1>2, <1>5, <1>6
    <2> QED  BY <1>2, <1>3, <1>6, <1>7, <2>1 DEF BoardsGo
  <1>10. Written1(o, bs)
    <2>1. w.key \in DOMAIN o.boards /\ o.boards[w.key] = w.board
      BY <1>2, <1>6, <1>8
    <2>2. \A c \in DOMAIN o.boards : c = w.key \/ (c \in DOMAIN bs /\ bs[c] = o.boards[c])
      BY <1>2, <1>6, <1>8
    <2> QED  BY <1>2, <1>8, <2>1, <2>2 DEF Written1
  <1> QED  BY <1>2, <1>9, <1>10 DEF OutcomeOK

(* Nothing happens to the boards.                                           *)
LEMMA SameOK ==
    ASSUME TasksOK(tasks), NEW bs \in BoardTables(tasks.boards, Len(tasks.on)),
           NEW o, o.boards = bs, o.task = <<>>, o.gone = {},
           o.writes = <<>> \/ \E w : o.writes = <<w>> /\ ~ForBoard(w)
    PROVE  OutcomeOK(o, bs)
  <1>1. tasks.boards \in Nat /\ Len(tasks.on) + Len(o.task) = Len(tasks.on)
    BY DEF TasksOK
  <1>2. bs \in BoardTables(tasks.boards + 1, Len(tasks.on))
    <2>1. Len(tasks.on) \in Nat
      BY DEF TasksOK
    <2> QED  BY <1>1, <2>1, OneMoreTable
  <1>3. BoardsGo(o, bs)
    BY <1>1, <1>2 DEF BoardsGo
  <1>4. \A b \in DOMAIN bs : Alike(bs[b], bs[b])
    BY DEF Alike
  <1>5. CASE o.writes = <<>>
    BY <1>3, <1>4, <1>5 DEF OutcomeOK
  <1>6. CASE \E w : o.writes = <<w>> /\ ~ForBoard(w)
    <2>1. Written1(o, bs)
      BY <1>6 DEF Written1
    <2> QED  BY <1>3, <2>1 DEF OutcomeOK
  <1> QED  BY <1>5, <1>6

LEMMA MisupdateOK ==
    ASSUME TasksOK(tasks), NEW bs \in BoardTables(tasks.boards, Len(tasks.on)), NEW ls,
           "wrong" \in kanbanWay, NEW b \in DOMAIN bs, NEW board \in GoodBoards(Len(tasks.on)),
           DOMAIN board.tasks = DOMAIN bs[b].tasks, NEW o, o = Same(Entered(bs, b, board), ls)
    PROVE  OutcomeOK(o, bs)
  <1> DEFINE n == Len(tasks.on)
             new == Entered(bs, b, board)
  <1>1. /\ o.boards = new /\ o.writes = <<>> /\ o.task = <<>> /\ o.gone = {}
    BY EndingIs DEF Same
  <1>2. /\ n \in Nat /\ tasks.boards \in Nat /\ n + Len(<<>>) = n
    BY DEF TasksOK
  <1>3. /\ DOMAIN new = DOMAIN bs /\ new[b] = board
        /\ \A c \in DOMAIN bs \ {b} : new[c] = bs[c]
    BY DEF Entered
  <1>4. new \in BoardTables(tasks.boards + 1, n)
    <2>1. bs \in BoardTables(tasks.boards + 1, n)
      BY <1>2, OneMoreTable
    <2>2. b \in 1..tasks.boards + 1
      BY <2>1, TableHas
    <2> QED  BY <2>1, <2>2, TableEntered
  <1> HIDE DEF new
  <1>5. BoardsGo(o, bs)
    BY <1>1, <1>2, <1>3, <1>4 DEF BoardsGo
  <1>6. \A c \in DOMAIN new : Alike(bs[c], new[c])
    BY <1>3 DEF Alike
  <1> QED  BY <1>1, <1>3, <1>5, <1>6 DEF OutcomeOK

(* However a tool ends.                                                     *)
LEMMA OutcomesOK ==
    ASSUME TasksOK(tasks), NEW bs \in BoardTables(tasks.boards, Len(tasks.on)), NEW ls,
           NEW u, NEW op \in Ops, NEW o \in Outcomes(op, u, bs, ls)
    PROVE  OutcomeOK(o, bs)
  <1> DEFINE n == Len(tasks.on)
  <1>1. /\ n \in Nat /\ tasks.boards \in Nat /\ n + Len(<<>>) = n /\ <<>> \in Seq(Nat)
    BY DEF TasksOK
  <1>2. ASSUME NEW b \in DOMAIN bs
        PROVE  bs[b] \in GoodBoards(n)
    BY TableHas
  <1>3. ASSUME NEW p \in TasksOf(u, bs, ls)
        PROVE  p[1] \in DOMAIN bs /\ p[2] \in DOMAIN bs[p[1]].tasks
    BY DEF TasksOf, Mine
  <1>4. ASSUME NEW b \in DOMAIN bs, NEW board \in GoodBoards(n), DOMAIN board.tasks = DOMAIN bs[b].tasks,
               o = Edited(bs, ls, b, board)
        PROVE  OutcomeOK(o, bs)
    <2>1. o = Changed(bs, ls, b, board, <<>>, {})
      BY <1>4 DEF Edited
    <2> HIDE DEF n
    <2> QED  BY <1>1, <1>4, <2>1, ChangedOK DEF n
  <1>5. ASSUME o = Same(bs, ls)
        PROVE  OutcomeOK(o, bs)
    BY <1>5, EndingIs, SameOK DEF Same
  <1>6. ASSUME o \in TaskCreate(u, bs, ls)
        PROVE  OutcomeOK(o, bs)
    <2>1. PICK b \in DOMAIN bs : \E i \in DOMAIN bs[b].columns :
              o = Changed(bs, ls, b, TaskAdded(bs[b], i, n + 1), <<b>>, {})
      BY <1>6 DEF TaskCreate
    <2>2. PICK i \in DOMAIN bs[b].columns : o = Changed(bs, ls, b, TaskAdded(bs[b], i, n + 1), <<b>>, {})
      BY <2>1
    <2> DEFINE board == TaskAdded(bs[b], i, n + 1)
    <2> HIDE DEF n
    <2>3. board \in GoodBoards(n + 1) /\ DOMAIN board.tasks = DOMAIN bs[b].tasks \cup {n + 1}
      BY <1>1, <1>2, TaskAddedGood
    <2> HIDE DEF board
    <2>4. <<b>> \in Seq(Nat) /\ Len(<<b>>) = 1
      <3>1. b \in Nat
        BY TableHas
      <3> QED  BY <3>1
    <2>5. o = Changed(bs, ls, b, board, <<b>>, {})
      BY <2>2 DEF board
    <2> QED  BY <2>3, <2>4, <2>5, ChangedOK DEF n
  <1>7. ASSUME o \in TaskUpdate(u, bs, ls, TRUE)
        PROVE  OutcomeOK(o, bs)
    <2>1. PICK p \in TasksOf(u, bs, ls) : o = Edited(bs, ls, p[1], TaskEdited(bs[p[1]], p[2]))
      BY <1>7 DEF TaskUpdate
    <2>2. /\ TaskEdited(bs[p[1]], p[2]) \in GoodBoards(n)
          /\ DOMAIN TaskEdited(bs[p[1]], p[2]).tasks = DOMAIN bs[p[1]].tasks
      BY <1>1, <1>2, <1>3, TaskEditedGood
    <2> QED  BY <1>3, <1>4, <2>1, <2>2
  <1>8. ASSUME o \in TaskUpdate(u, bs, ls, FALSE), "wrong" \in kanbanWay
        PROVE  OutcomeOK(o, bs)
    <2>1. PICK p \in TasksOf(u, bs, ls) : o = Same(Entered(bs, p[1], TaskEdited(bs[p[1]], p[2])), ls)
      BY <1>8 DEF TaskUpdate
    <2>2. /\ TaskEdited(bs[p[1]], p[2]) \in GoodBoards(n)
          /\ DOMAIN TaskEdited(bs[p[1]], p[2]).tasks = DOMAIN bs[p[1]].tasks
      BY <1>1, <1>2, <1>3, TaskEditedGood
    <2> QED  BY <1>3, <1>8, <2>1, <2>2, MisupdateOK
  <1>9. ASSUME o \in TaskMove(u, bs, ls)
        PROVE  OutcomeOK(o, bs)
    <2>1. PICK p \in TasksOf(u, bs, ls) :
              \E q \in {q \in (DOMAIN bs[p[1]].columns) \X (1..MaxTasks) :
                          q[2] <= Len(TakenOut(bs[p[1]].columns, p[2])[q[1]].tasks) + 1} :
                  o = Edited(bs, ls, p[1], TaskMoved(bs[p[1]], p[2], q[1], q[2]))
      BY <1>9 DEF TaskMove
    <2>2. PICK q \in (DOMAIN bs[p[1]].columns) \X (1..MaxTasks) :
              /\ q[2] <= Len(TakenOut(bs[p[1]].columns, p[2])[q[1]].tasks) + 1
              /\ o = Edited(bs, ls, p[1], TaskMoved(bs[p[1]], p[2], q[1], q[2]))
      BY <2>1
    <2> DEFINE b == p[1]
               t == p[2]
               j == q[1]
               place == q[2]
    <2>3. /\ b \in DOMAIN bs /\ t \in DOMAIN bs[b].tasks /\ bs[b] \in GoodBoards(n)
          /\ j \in DOMAIN bs[b].columns /\ place \in 1..MaxTasks
      BY <1>2, <1>3
    <2>4. Len(TakenOut(bs[b].columns, t)[j].tasks) \in Nat
      <3>1. bs[b].columns \in Seq(Columns)
        BY <2>3, GoodBoardHas
      <3>2. TakenOut(bs[b].columns, t) \in Seq(Columns) /\ j \in DOMAIN TakenOut(bs[b].columns, t)
        BY <2>3, <3>1, TakenOutIs
      <3> QED  BY <3>2, ColumnAt
    <2>5. place \in 1..Len(TakenOut(bs[b].columns, t)[j].tasks) + 1
      BY <2>2, <2>3, <2>4, KanbanAssumption
    <2>6. /\ TaskMoved(bs[b], t, j, place) \in GoodBoards(n)
          /\ DOMAIN TaskMoved(bs[b], t, j, place).tasks = DOMAIN bs[b].tasks
      <3> HIDE DEF n, b, t, j, place
      <3> QED  BY <1>1, <2>3, <2>5, TaskMovedGood
    <2>7. o = Edited(bs, ls, b, TaskMoved(bs[b], t, j, place))
      BY <2>2
    <2> HIDE DEF b, t, j, place
    <2> QED  BY <1>4, <2>3, <2>6, <2>7
  <1>10. ASSUME o \in TaskDelete(u, bs, ls)
         PROVE  OutcomeOK(o, bs)
    <2>1. PICK p \in TasksOf(u, bs, ls) :
              o = Changed(bs, ls, p[1], TaskDropped(bs[p[1]], p[2]), <<>>, {p[2]})
      BY <1>10 DEF TaskDelete
    <2>2. /\ TaskDropped(bs[p[1]], p[2]) \in GoodBoards(n)
          /\ DOMAIN TaskDropped(bs[p[1]], p[2]).tasks = DOMAIN bs[p[1]].tasks \ {p[2]}
      BY <1>1, <1>2, <1>3, TaskDroppedGood
    <2> DEFINE b == p[1]
               board == TaskDropped(bs[p[1]], p[2])
    <2>3. /\ b \in DOMAIN bs /\ board \in GoodBoards(n)
          /\ DOMAIN bs[b].tasks \subseteq DOMAIN board.tasks \cup {p[2]}
      BY <1>3, <2>2
    <2>4. o = Changed(bs, ls, b, board, <<>>, {p[2]})
      BY <2>1
    <2> HIDE DEF b, board, n
    <2> QED  BY <1>1, <2>3, <2>4, ChangedOK DEF n
  <1>11. ASSUME o \in ColumnDelete(u, bs, ls)
         PROVE  OutcomeOK(o, bs)
    <2>1. PICK p \in {p \in Mine(u, ls, bs) \X (1..ColumnCount) : p[2] \in DOMAIN bs[p[1]].columns} :
              \E j \in 0..Len(bs[p[1]].columns) : o = Edited(bs, ls, p[1], ColumnDropped(bs[p[1]], p[2], j))
      BY <1>11 DEF ColumnDelete
    <2>2. PICK j \in 0..Len(bs[p[1]].columns) : o = Edited(bs, ls, p[1], ColumnDropped(bs[p[1]], p[2], j))
      BY <2>1
    <2>3. p[1] \in DOMAIN bs /\ p[2] \in DOMAIN bs[p[1]].columns
      BY <2>1 DEF Mine
    <2>4. /\ ColumnDropped(bs[p[1]], p[2], j) \in GoodBoards(n)
          /\ DOMAIN ColumnDropped(bs[p[1]], p[2], j).tasks = DOMAIN bs[p[1]].tasks
      BY <1>1, <1>2, <2>3, ColumnDroppedGood
    <2> QED  BY <1>4, <2>2, <2>3, <2>4
  <1>12. ASSUME o \in BoardLink(u, bs, ls)
         PROVE  OutcomeOK(o, bs)
    <2>1. PICK b \in DOMAIN bs :
              o = Ending(bs, Entered(ls, tasks.links + 1, [user |-> u, board |-> b]),
                      <<LinkWrite("link", tasks.links + 1, b)>>, <<>>, {})
      BY <1>12 DEF BoardLink
    <2>2. /\ o.boards = bs /\ o.task = <<>> /\ o.gone = {}
          /\ o.writes = <<LinkWrite("link", tasks.links + 1, b)>>
      BY <2>1, EndingIs
    <2> QED  BY <2>2, LinkWriteIs, SameOK
  <1>13. ASSUME o \in BoardUnlink(u, bs, ls)
         PROVE  OutcomeOK(o, bs)
    <2>1. PICK l \in DOMAIN ls :
              o = Ending(bs, Without(ls, l), <<LinkWrite("unlink", l, ls[l].board)>>, <<>>, {})
      BY <1>13 DEF BoardUnlink
    <2>2. /\ o.boards = bs /\ o.task = <<>> /\ o.gone = {}
          /\ o.writes = <<LinkWrite("unlink", l, ls[l].board)>>
      BY <2>1, EndingIs
    <2> QED  BY <2>2, LinkWriteIs, SameOK
  <1>14. op = "misupdate" => "wrong" \in kanbanWay
    BY DEF Ops, Reads
  <1>15. ASSUME o # Same(bs, ls)
         PROVE  \/ o \in BoardCreate(u, bs, ls) \/ o \in TaskCreate(u, bs, ls)
                \/ o \in TaskUpdate(u, bs, ls, TRUE)
                \/ op = "misupdate" /\ o \in TaskUpdate(u, bs, ls, FALSE)
                \/ o \in TaskMove(u, bs, ls) \/ o \in TaskDelete(u, bs, ls)
                \/ o \in ColumnDelete(u, bs, ls) \/ o \in BoardLink(u, bs, ls)
                \/ o \in BoardUnlink(u, bs, ls)
    BY <1>15 DEF Outcomes, Ops, Reads
  <1> QED  BY <1>5, <1>6, <1>7, <1>8, <1>9, <1>10, <1>11, <1>12, <1>13, <1>14, <1>15, BoardCreateOK

-----------------------------------------------------------------------------
(* Steps of the domain                                                      *)

Grown(ts, us) ==
    /\ Len(ts.on) <= Len(us.on) /\ ts.boards <= us.boards
    /\ \A t \in 1..Len(ts.on) : us.on[t] = ts.on[t]

LEMMA FileTableHas ==
    ASSUME NEW k, NEW N, NEW fs \in FileTables(k, N)
    PROVE  /\ DOMAIN fs \subseteq 1..k /\ fs \in [DOMAIN fs -> Files(N)]
           /\ \A b \in DOMAIN fs : b \in 1..k /\ fs[b] \in Files(N)
  <1>1. PICK S \in SUBSET (1..k) : fs \in [S -> Files(N)]
    BY DEF FileTables, Partial
  <1> QED  BY <1>1

LEMMA FileEntered ==
    ASSUME NEW k, NEW N, NEW fs \in FileTables(k, N), NEW b \in 1..k, NEW file \in Files(N)
    PROVE  Entered(fs, b, file) \in FileTables(k, N)
  BY EnteredPartial DEF FileTables

LEMMA MoreFiles ==
    ASSUME NEW k \in Nat, NEW N \in Nat, NEW l \in Nat, NEW M \in Nat, k <= l, N <= M
    PROVE  FileTables(k, N) \subseteq FileTables(l, M)
  <1>1. 1..k \subseteq 1..l /\ Files(N) \subseteq Files(M)
    BY MoreGoodBoards DEF Files
  <1> SUFFICES ASSUME NEW fs \in FileTables(k, N)
               PROVE  fs \in FileTables(l, M)
    OBVIOUS
  <1>2. DOMAIN fs \subseteq 1..k /\ fs \in [DOMAIN fs -> Files(N)]
    BY FileTableHas
  <1>3. DOMAIN fs \subseteq 1..l /\ fs \in [DOMAIN fs -> Files(M)]
    BY <1>1, <1>2
  <1> QED  BY <1>3, IsPartial DEF FileTables

(* What a call still writes stays good while boards and tasks are made.     *)
LEMMA PlanStays ==
    ASSUME NEW ts, NEW us, TasksOK(ts), TasksOK(us), Grown(ts, us),
           NEW ws, NEW made, PlanOK(ws, made, ts)
    PROVE  PlanOK(ws, made, us)
  <1>1. /\ Len(ts.on) \in Nat /\ Len(us.on) \in Nat /\ ts.boards \in Nat /\ us.boards \in Nat
        /\ Len(ts.on) <= Len(us.on) /\ ts.boards <= us.boards
    BY DEF TasksOK, Grown
  <1>2. GoodBoards(Len(ts.on)) \subseteq GoodBoards(Len(us.on))
    BY <1>1, MoreGoodBoards
  <1>3. 1..Len(ts.on) \subseteq 1..Len(us.on) /\ 1..ts.boards \subseteq 1..us.boards
    BY <1>1
  <1>4. \A t \in 1..Len(ts.on) : us.on[t] = ts.on[t]
    BY DEF Grown
  <1>5. PICK w : /\ ws = <<w>> \/ \E a : ws = <<w, a>> /\ ~ForBoard(a) /\ made = {}
                 /\ ForBoard(w) => w.key \in 1..ts.boards /\ w.board \in GoodBoards(Len(ts.on))
                 /\ \A t \in made : /\ ForBoard(w) /\ t \in 1..Len(ts.on)
                                    /\ ts.on[t] = w.key /\ t \in DOMAIN w.board.tasks
    BY DEF PlanOK
  <1>6. /\ ForBoard(w) => w.key \in 1..us.boards /\ w.board \in GoodBoards(Len(us.on))
        /\ \A t \in made : /\ ForBoard(w) /\ t \in 1..Len(us.on)
                           /\ us.on[t] = w.key /\ t \in DOMAIN w.board.tasks
    BY <1>2, <1>3, <1>4, <1>5
  <1> QED  BY <1>5, <1>6 DEF PlanOK

LEMMA CallStays ==
    ASSUME NEW ts, NEW us, TasksOK(ts), TasksOK(us), Grown(ts, us), NEW c, CallOK(c, ts)
    PROVE  CallOK(c, us)
  BY PlanStays DEF CallOK

(* The first of what a call writes, and what is left.                       *)
LEMMA PlanHas ==
    ASSUME NEW ts, NEW ws, NEW made, PlanOK(ws, made, ts)
    PROVE  /\ ForBoard(Head(ws)) => /\ Head(ws).key \in 1..ts.boards
                                    /\ Head(ws).board \in GoodBoards(Len(ts.on))
           /\ \A t \in made : /\ ForBoard(Head(ws)) /\ t \in 1..Len(ts.on)
                              /\ ts.on[t] = Head(ws).key /\ t \in DOMAIN Head(ws).board.tasks
  <1>1. PICK w : /\ ws = <<w>> \/ \E a : ws = <<w, a>> /\ ~ForBoard(a) /\ made = {}
                 /\ ForBoard(w) => w.key \in 1..ts.boards /\ w.board \in GoodBoards(Len(ts.on))
                 /\ \A t \in made : /\ ForBoard(w) /\ t \in 1..Len(ts.on)
                                    /\ ts.on[t] = w.key /\ t \in DOMAIN w.board.tasks
    BY DEF PlanOK
  <1>2. Head(ws) = w
    BY <1>1
  <1> QED  BY <1>1, <1>2

LEMMA PlanThen ==
    ASSUME NEW ts, NEW ws, NEW made, PlanOK(ws, made, ts), Tail(ws) # <<>>
    PROVE  made = {} /\ PlanOK(Tail(ws), made, ts) /\ ~ForBoard(Head(Tail(ws)))
  <1>1. PICK w : /\ ws = <<w>> \/ \E a : ws = <<w, a>> /\ ~ForBoard(a) /\ made = {}
                 /\ ForBoard(w) => w.key \in 1..ts.boards /\ w.board \in GoodBoards(Len(ts.on))
                 /\ \A t \in made : /\ ForBoard(w) /\ t \in 1..Len(ts.on)
                                    /\ ts.on[t] = w.key /\ t \in DOMAIN w.board.tasks
    BY DEF PlanOK
  <1>2. ws # <<w>>
    <2>1. Tail(<<w>>) = <<>>
      OBVIOUS
    <2> QED  BY <2>1
  <1>3. PICK a : ws = <<w, a>> /\ ~ForBoard(a) /\ made = {}
    BY <1>1, <1>2
  <1>4. Tail(ws) = <<a>> /\ Head(Tail(ws)) = a
    BY <1>3
  <1>5. PlanOK(<<a>>, {}, ts)
    BY <1>3 DEF PlanOK
  <1> QED  BY <1>3, <1>4, <1>5

(* What is in memory is what the files have, and nothing is being written.  *)
Clean(u, bs) ==
    /\ \A v \in Users \ {u} : calls[v].at = "idle"
    /\ \A b \in DOMAIN bs : /\ b \in DOMAIN boardFiles /\ boardFiles[b].whole
                            /\ Alike(boardFiles[b].board, bs[b])
    /\ \A t \in tasks.answered \ tasks.deleted :
           LET b == tasks.on[t]
           IN  /\ b \in DOMAIN boardFiles
               /\ boardFiles[b].whole => t \in DOMAIN boardFiles[b].board.tasks
Full(bs) == \A b \in DOMAIN boardFiles : boardFiles[b].whole => b \in DOMAIN bs
Ready(u, bs) == Clean(u, bs) /\ Full(bs)

LEMMA CallIs ==
    ASSUME NEW at, NEW op, NEW left, NEW ws, NEW made, NEW c,
           c = [at |-> at, op |-> op, left |-> left, writes |-> ws, made |-> made]
    PROVE  /\ c.at = at /\ c.op = op /\ c.left = left /\ c.writes = ws /\ c.made = made
           /\ c = [at |-> c.at, op |-> c.op, left |-> c.left, writes |-> c.writes, made |-> c.made]
  OBVIOUS

LEMMA PerformEnds ==
    ASSUME NEW u \in Users, NEW o, NEW bs,
           KanbanShape, OutcomeOK(o, bs), NEW c, NEW op, c = GoesOn(op, o)
    PROVE  /\ c.at \in {"idle", "write"} /\ c.op \in {"read", op}
           /\ c = [at |-> c.at, op |-> c.op, left |-> c.left, writes |-> c.writes, made |-> c.made]
           /\ \A b : Working(c, b) => b \in DOMAIN o.boards /\ o.boards[b] = Head(c.writes).board
           /\ \A b \in DOMAIN o.boards : Working(c, b) \/ (b \in DOMAIN bs /\ Alike(bs[b], o.boards[b]))
           /\ \A ts : /\ c.at = "write" /\ TasksOK(ts) /\ o.boards \in BoardTables(ts.boards, Len(ts.on))
                      /\ ts.on = tasks.on \o o.task
                      => PlanOK(c.writes, c.made, ts)
  <1>1. CASE o.writes = <<>> \/ Unlinked(o) # {}
    <2>1. /\ c = [at |-> "idle", op |-> "read", left |-> {}, writes |-> <<>>, made |-> {}]
      BY <1>1 DEF GoesOn, Idle
    <2>2. ASSUME Written1(o, bs)
          PROVE  o.boards = bs
      <3>1. PICK w : /\ o.writes = <<w>> \/ \E a : o.writes = <<w, a>> /\ ForBoard(w) /\ ForLink(a) /\ o.task = <<>>
                     /\ ~ForBoard(w) => o.boards = bs
        BY <2>2 DEF Written1
      <3>2. CASE o.writes = <<w>>
        <4>1. o.writes # <<>> /\ DOMAIN o.writes = {1} /\ o.writes[1] = w
          BY <3>2
        <4>2. o.writes[1].file = "unlink"
          BY <1>1, <4>1 DEF Unlinked
        <4> QED  BY <3>1, <4>1, <4>2 DEF ForBoard
      <3>3. CASE \E a : o.writes = <<w, a>> /\ ForBoard(w) /\ ForLink(a) /\ o.task = <<>>
        <4>1. PICK a : o.writes = <<w, a>> /\ ForBoard(w) /\ ForLink(a)
          BY <3>3
        <4>2. o.writes # <<>> /\ DOMAIN o.writes = {1, 2} /\ o.writes[1] = w /\ o.writes[2] = a
          BY <4>1
        <4>3. \E j \in DOMAIN o.writes : o.writes[j].file = "unlink"
          BY <1>1, <4>2 DEF Unlinked
        <4> QED  BY <4>1, <4>2, <4>3 DEF ForBoard, ForLink
      <3> QED  BY <3>1, <3>2, <3>3
    <2>3. \A b \in DOMAIN o.boards : b \in DOMAIN bs /\ Alike(bs[b], o.boards[b])
      BY <2>2 DEF OutcomeOK, Alike
    <2>4. c.at = "idle" /\ c.op = "read"
      BY <2>1, CallIs
    <2>5. c = [at |-> c.at, op |-> c.op, left |-> c.left, writes |-> c.writes, made |-> c.made]
      BY <2>1, CallIs
    <2>6. \A b : ~Working(c, b)
      BY <2>4 DEF Working
    <2> QED  BY <2>3, <2>4, <2>5, <2>6
  <1>2. CASE ~(o.writes = <<>> \/ Unlinked(o) # {})
    <2>1. o.writes # <<>>
      BY <1>2
    <2> DEFINE made == IF o.task = <<>> THEN {} ELSE {Len(tasks.on) + 1}
    <2>2. c = [at |-> "write", op |-> op, left |-> {}, writes |-> o.writes, made |-> made]
      BY <1>2 DEF GoesOn, Writing
    <2> HIDE DEF made
    <2>3. /\ c.at = "write" /\ c.op = op /\ c.writes = o.writes
          /\ c.made = IF o.task = <<>> THEN {} ELSE {Len(tasks.on) + 1}
          /\ c = [at |-> c.at, op |-> c.op, left |-> c.left, writes |-> c.writes, made |-> c.made]
      BY <2>2, CallIs DEF made
    <2>4. Written1(o, bs)
      BY <2>1 DEF OutcomeOK
    <2>5. PICK w :
              /\ o.writes = <<w>> \/ \E a : o.writes = <<w, a>> /\ ForBoard(w) /\ ForLink(a) /\ o.task = <<>>
              /\ ForBoard(w) => w.key \in DOMAIN o.boards /\ o.boards[w.key] = w.board
              /\ ~ForBoard(w) => o.boards = bs
              /\ \A b \in DOMAIN o.boards : \/ ForBoard(w) /\ b = w.key
                                            \/ b \in DOMAIN bs /\ bs[b] = o.boards[b]
              /\ o.task # <<>> => ForBoard(w) /\ o.task = <<w.key>> /\ Len(tasks.on) + 1 \in DOMAIN w.board.tasks
      BY <2>4 DEF Written1
    <2>6. Head(o.writes) = w
      BY <2>5
    <2>7. \A b : Working(c, b) <=> ForBoard(w) /\ w.key = b
      BY <2>3, <2>6 DEF Working
    <2>8. ASSUME NEW ts, TasksOK(ts), o.boards \in BoardTables(ts.boards, Len(ts.on)),
                 ts.on = tasks.on \o o.task
          PROVE  PlanOK(o.writes, c.made, ts)
      <3>1. o.writes = <<w>> \/ \E a : o.writes = <<w, a>> /\ ~ForBoard(a) /\ c.made = {}
        BY <2>3, <2>5 DEF ForLink, ForBoard
      <3>2. ForBoard(w) => w.key \in 1..ts.boards /\ w.board \in GoodBoards(Len(ts.on))
        BY <2>5, <2>8, TableHas
      <3>3. ASSUME NEW t \in c.made
            PROVE  /\ ForBoard(w) /\ t \in 1..Len(ts.on) /\ ts.on[t] = w.key /\ t \in DOMAIN w.board.tasks
        <4>1. o.task # <<>> /\ t = Len(tasks.on) + 1
          BY <2>3
        <4>2. ForBoard(w) /\ o.task = <<w.key>> /\ Len(tasks.on) + 1 \in DOMAIN w.board.tasks
          BY <2>5, <4>1
        <4>3. tasks.on \in Seq(Nat) /\ o.task \in Seq(Nat) /\ Len(o.task) = 1 /\ o.task[1] = w.key
          BY <4>2 DEF KanbanShape, TasksOK, OutcomeOK
        <4>4. Len(tasks.on) + 1 \in 1..Len(ts.on) /\ ts.on[Len(tasks.on) + 1] = w.key
          <5>1. ts.on = tasks.on \o o.task
            BY <2>8
          <5>2. /\ Len(tasks.on \o o.task) = Len(tasks.on) + 1 /\ Len(tasks.on) \in Nat
                /\ (tasks.on \o o.task)[Len(tasks.on) + 1] = o.task[1]
            BY <4>3, JoinedOne
          <5> QED  BY <4>3, <5>1, <5>2
        <4> QED  BY <4>1, <4>2, <4>4
      <3> QED  BY <3>1, <3>2, <3>3 DEF PlanOK
    <2>9. \A b \in DOMAIN o.boards : Working(c, b) \/ (b \in DOMAIN bs /\ Alike(bs[b], o.boards[b]))
      BY <2>5, <2>7 DEF Alike
    <2>10. \A b : Working(c, b) => b \in DOMAIN o.boards /\ o.boards[b] = Head(c.writes).board
      BY <2>3, <2>5, <2>6, <2>7
    <2> QED  BY <2>3, <2>8, <2>9, <2>10
  <1> QED  BY <1>1, <1>2

LEMMA TasksAre ==
    ASSUME NEW on, NEW answered, NEW deleted, NEW made, NEW joined, NEW ts,
           ts = [on |-> on, answered |-> answered, deleted |-> deleted, boards |-> made, links |-> joined]
    PROVE  /\ ts.on = on /\ ts.answered = answered /\ ts.deleted = deleted
           /\ ts.boards = made /\ ts.links = joined
           /\ ts = [on |-> ts.on, answered |-> ts.answered, deleted |-> ts.deleted,
                    boards |-> ts.boards, links |-> ts.links]
  OBVIOUS

(* What the counters are after a tool.                                      *)
LEMMA BoardsCounted ==
    ASSUME NEW k \in Nat, NEW m, NEW old, old \subseteq 1..k, NEW new \in BoardTables(k + 1, m),
           DOMAIN new \ old \in {{}, {k + 1}}
    PROVE  \E d \in Nat : Cardinality(DOMAIN new \ old) = d /\ new \in BoardTables(k + d, m)
  <1>1. CASE DOMAIN new \ old = {}
    <2>1. Cardinality(DOMAIN new \ old) = 0
      BY <1>1, FS_EmptySet
    <2>2. DOMAIN new \subseteq 1..k
      BY <1>1
    <2>3. new \in [DOMAIN new -> GoodBoards(m)]
      BY TableHas
    <2>4. new \in BoardTables(k, m)
      BY <2>2, <2>3, IsPartial DEF BoardTables
    <2>5. k + 0 = k
      OBVIOUS
    <2>6. new \in BoardTables(k + 0, m)
      BY <2>4, <2>5
    <2> QED  BY <2>1, <2>6
  <1>2. CASE DOMAIN new \ old = {k + 1}
    <2>1. Cardinality(DOMAIN new \ old) = 1
      BY <1>2, FS_Singleton
    <2> QED  BY <2>1
  <1> QED  BY <1>1, <1>2

LEMMA PerformCounts ==
    ASSUME TasksOK(tasks), NEW bs \in BoardTables(tasks.boards, Len(tasks.on)), NEW o,
           OutcomeOK(o, bs), NEW deleted, NEW joined
    PROVE  \A ts :
              ts = [on |-> tasks.on \o o.task, answered |-> tasks.answered, deleted |-> deleted,
                    boards |-> tasks.boards + Cardinality(DOMAIN o.boards \ DOMAIN bs), links |-> joined]
              => /\ TasksOK(ts) /\ Grown(tasks, ts)
                 /\ o.boards \in BoardTables(ts.boards, Len(ts.on))
                 /\ ts.on = tasks.on \o o.task /\ ts.answered = tasks.answered /\ ts.deleted = deleted
  <1>a. tasks.on \in Seq(Nat) /\ o.task \in Seq(Nat)
    BY DEF TasksOK, OutcomeOK
  <1>b. /\ tasks.on \o o.task \in Seq(Nat)
        /\ DOMAIN (tasks.on \o o.task) = 1..Len(tasks.on) + Len(o.task)
        /\ \A t \in 1..Len(tasks.on) : (tasks.on \o o.task)[t] = tasks.on[t]
    <2>1. \A a, b \in Seq(Nat) : /\ a \o b \in Seq(Nat) /\ DOMAIN (a \o b) = 1..Len(a) + Len(b)
                                 /\ \A t \in 1..Len(a) : (a \o b)[t] = a[t]
      BY Joined
    <2> QED  BY <1>a, <2>1
  <1> DEFINE n == Len(tasks.on)
             m == n + Len(o.task)
             k == tasks.boards
             d == Cardinality(DOMAIN o.boards \ DOMAIN bs)
             on == tasks.on \o o.task
  <1>1. /\ tasks.on \in Seq(Nat) /\ k \in Nat /\ tasks.answered \subseteq 1..n /\ o.task \in Seq(Nat)
    BY DEF TasksOK, OutcomeOK
  <1>2. n \in Nat /\ Len(o.task) \in Nat
    BY <1>1
  <1>3. d \in Nat /\ o.boards \in BoardTables(k + d, m)
    <2>1. DOMAIN bs \subseteq 1..k
      BY TableHas
    <2>2. o.boards \in BoardTables(k + 1, m) /\ DOMAIN o.boards \ DOMAIN bs \in {{}, {k + 1}}
      BY DEF OutcomeOK, BoardsGo
    <2> HIDE DEF k, m
    <2>3. \E e \in Nat : d = e /\ o.boards \in BoardTables(k + e, m)
      BY <1>1, <2>1, <2>2, BoardsCounted
    <2> QED  BY <2>3
  <1>4. on \in Seq(Nat) /\ DOMAIN on = 1..m /\ \A t \in 1..n : on[t] = tasks.on[t]
    BY <1>b
  <1> HIDE DEF d, on, n, k
  <1>5. m \in Nat /\ n <= m /\ k + d \in Nat /\ k <= k + d /\ 1..n \subseteq 1..m
    BY <1>1, <1>2, <1>3
  <1> HIDE DEF m
  <1>6. Len(on) = m
    BY <1>4, <1>5, LengthOf
  <1> SUFFICES ASSUME NEW ts, ts = [on |-> on, answered |-> tasks.answered, deleted |-> deleted,
                                    boards |-> k + d, links |-> joined]
               PROVE  /\ TasksOK(ts) /\ Grown(tasks, ts) /\ o.boards \in BoardTables(ts.boards, Len(ts.on))
                      /\ ts.on = on /\ ts.answered = tasks.answered /\ ts.deleted = deleted
    BY DEF on, k, d
  <1>7. /\ ts.on = on /\ ts.answered = tasks.answered /\ ts.deleted = deleted
        /\ ts.boards = k + d
        /\ ts = [on |-> ts.on, answered |-> ts.answered, deleted |-> ts.deleted,
                 boards |-> ts.boards, links |-> ts.links]
    BY TasksAre
  <1>8. TasksOK(ts)
    BY <1>1, <1>4, <1>5, <1>6, <1>7 DEF TasksOK
  <1>9. Grown(tasks, ts)
    BY <1>4, <1>5, <1>6, <1>7 DEF Grown, n, k
  <1> QED  BY <1>3, <1>6, <1>7, <1>8, <1>9

LEMMA ShapeStays ==
    ASSUME KanbanShape, NEW u \in Users, NEW c, calls' = [calls EXCEPT ![u] = c],
           kanbanWay' = kanbanWay, TasksOK(tasks'), Grown(tasks, tasks'),
           boards' \in BoardTables(tasks'.boards, Len(tasks'.on)),
           boardFiles' \in FileTables(tasks'.boards, Len(tasks'.on)),
           DOMAIN boardFiles \subseteq DOMAIN boardFiles',
           CallOK(c, tasks'), c.op \in Ops,
           c.at = "boards" => c.left \subseteq DOMAIN boardFiles',
           c.at = "put" => Head(c.writes).key \in DOMAIN boardFiles'
    PROVE  KanbanShape'
  <1>1. /\ calls' = [v \in Users |-> calls'[v]] /\ calls'[u] = c
        /\ \A v \in Users \ {u} : calls'[v] = calls[v]
    BY DEF KanbanShape
  <1>2. Ops' = Ops
    BY DEF Ops
  <1>3. ASSUME NEW v \in Users
        PROVE  /\ CallOK(calls'[v], tasks') /\ calls'[v].op \in Ops'
               /\ calls'[v].at = "boards" => calls'[v].left \subseteq DOMAIN boardFiles'
               /\ calls'[v].at = "put" => Head(calls'[v].writes).key \in DOMAIN boardFiles'
    <2>1. CASE v = u
      BY <1>1, <1>2, <2>1
    <2>2. CASE v # u
      <3>1. calls'[v] = calls[v]
        BY <1>1, <2>2
      <3>2. /\ CallOK(calls[v], tasks) /\ calls[v].op \in Ops
            /\ calls[v].at = "boards" => calls[v].left \subseteq DOMAIN boardFiles
            /\ calls[v].at = "put" => Head(calls[v].writes).key \in DOMAIN boardFiles
        BY DEF KanbanShape
      <3>3. CallOK(calls[v], tasks')
        BY <3>2, CallStays DEF KanbanShape
      <3> QED  BY <1>2, <3>1, <3>2, <3>3
    <2> QED  BY <2>1, <2>2
  <1> QED  BY <1>1, <1>3 DEF KanbanShape

LEMMA PerformStep ==
    ASSUME KanbanShape, NEW u \in Users, NEW op \in Ops, NEW ls,
           NEW bs \in BoardTables(tasks.boards, Len(tasks.on)), Perform(u, op, bs, ls)
    PROVE  KanbanShape' /\ (Patient /\ Ready(u, bs) => TurnInv')
  <1>1. PICK o \in Outcomes(op, u, bs, ls) :
            /\ boards' = o.boards /\ boardsLoaded' = TRUE /\ boardFiles' = boardFiles
            /\ kanbanWay' = kanbanWay /\ calls' = [calls EXCEPT ![u] = GoesOn(op, o)]
            /\ tasks' = [tasks EXCEPT !.on = @ \o o.task, !.deleted = @ \cup o.gone,
                   !.boards = @ + Cardinality(DOMAIN o.boards \ DOMAIN bs),
                   !.links = @ + Cardinality(DOMAIN o.links \ DOMAIN ls)]
    BY DEF Perform
  <1>2. OutcomeOK(o, bs)
    BY OutcomesOK DEF KanbanShape
  <1> DEFINE c == GoesOn(op, o)
             joined == tasks.links + Cardinality(DOMAIN o.links \ DOMAIN ls)
  <1>3. tasks' = [on |-> tasks.on \o o.task, answered |-> tasks.answered,
                  deleted |-> tasks.deleted \cup o.gone,
                  boards |-> tasks.boards + Cardinality(DOMAIN o.boards \ DOMAIN bs), links |-> joined]
    BY <1>1 DEF KanbanShape, TasksOK
  <1>4. /\ TasksOK(tasks') /\ Grown(tasks, tasks')
        /\ o.boards \in BoardTables(tasks'.boards, Len(tasks'.on))
        /\ tasks'.on = tasks.on \o o.task /\ tasks'.answered = tasks.answered
        /\ tasks'.deleted = tasks.deleted \cup o.gone
    BY <1>2, <1>3, PerformCounts DEF KanbanShape
  <1>5. /\ c.at \in {"idle", "write"} /\ c.op \in {"read", op}
        /\ c = [at |-> c.at, op |-> c.op, left |-> c.left, writes |-> c.writes, made |-> c.made]
        /\ \A b : Working(c, b) => b \in DOMAIN o.boards /\ o.boards[b] = Head(c.writes).board
        /\ \A b \in DOMAIN o.boards : Working(c, b) \/ (b \in DOMAIN bs /\ Alike(bs[b], o.boards[b]))
        /\ \A ts : /\ c.at = "write" /\ TasksOK(ts) /\ o.boards \in BoardTables(ts.boards, Len(ts.on))
                   /\ ts.on = tasks.on \o o.task
                   => PlanOK(c.writes, c.made, ts)
    BY <1>2, PerformEnds
  <1>6. /\ calls' = [v \in Users |-> calls'[v]] /\ calls'[u] = c
        /\ \A v \in Users \ {u} : calls'[v] = calls[v]
    BY <1>1 DEF KanbanShape
  <1> HIDE DEF c, joined
  <1>7. /\ boards' = o.boards /\ boardsLoaded' = TRUE /\ boardFiles' = boardFiles /\ kanbanWay' = kanbanWay
    BY <1>1
  <1>8. KanbanShape'
    <2>1. boardFiles' \in FileTables(tasks'.boards, Len(tasks'.on))
      <3>1. /\ tasks.boards \in Nat /\ tasks'.boards \in Nat /\ tasks.boards <= tasks'.boards
            /\ Len(tasks.on) \in Nat /\ Len(tasks'.on) \in Nat /\ Len(tasks.on) <= Len(tasks'.on)
        BY <1>4 DEF KanbanShape, TasksOK, Grown
      <3> QED  BY <1>7, <3>1, MoreFiles DEF KanbanShape
    <2>2. "read" \in Ops
      BY DEF Ops, Reads
    <2>3. CallOK(c, tasks')
      <3>1. c.at = "write" => PlanOK(c.writes, c.made, tasks')
        BY <1>4, <1>5
      <3> QED  BY <1>5, <3>1 DEF CallOK
    <2>4. calls' = [calls EXCEPT ![u] = c]
      BY <1>1 DEF c
    <2>5. c.op \in Ops /\ c.at \notin {"boards", "put"}
      BY <1>5, <2>2
    <2> QED  BY <1>4, <1>7, <2>1, <2>3, <2>4, <2>5, ShapeStays
  <1>9. ASSUME Patient, Ready(u, bs)
        PROVE  TurnInv'
    <2>1. /\ \A v \in Users \ {u} : calls'[v].at = "idle"
          /\ \A b \in DOMAIN boardFiles : boardFiles[b].whole => b \in DOMAIN bs
          /\ \A b \in DOMAIN bs : /\ b \in DOMAIN boardFiles /\ boardFiles[b].whole
                                  /\ Alike(boardFiles[b].board, bs[b])
      BY <1>6, <1>9 DEF Ready, Clean, Full
    <2>2. DOMAIN bs \subseteq DOMAIN o.boards
      BY <1>2 DEF OutcomeOK, BoardsGo
    <2>3. \A v, w \in Users : v # w => calls'[v].at = "idle" \/ calls'[w].at = "idle"
      BY <2>1
    <2>4. ASSUME NEW v \in Users
          PROVE  /\ calls'[v].at \in {"boards", "links"} => ~boardsLoaded'
                 /\ calls'[v].at \in {"write", "put"} => boardsLoaded'
                 /\ calls'[v].at = "boards" =>
                        \A b \in DOMAIN boardFiles' \ calls'[v].left : boardFiles'[b].whole => b \in DOMAIN boards'
                 /\ calls'[v].at = "put" => ~boardFiles'[Head(calls'[v].writes).key].whole
                 /\ \A b : Working(calls'[v], b) => b \in DOMAIN boards' /\ boards'[b] = Head(calls'[v].writes).board
      <3>1. calls'[v].at \in {"idle", "write"}
        BY <1>5, <1>6, <2>1
      <3>2. \A b : Working(calls'[v], b) => b \in DOMAIN boards' /\ boards'[b] = Head(calls'[v].writes).board
        <4>1. CASE v = u
          BY <1>5, <1>6, <1>7, <4>1
        <4>2. CASE v # u
          <5>1. calls'[v].at = "idle"
            BY <2>1, <4>2
          <5> QED  BY <5>1 DEF Working
        <4> QED  BY <4>1, <4>2
      <3> QED  BY <1>7, <3>1, <3>2
    <2>5. \A b \in DOMAIN boardFiles' : boardFiles'[b].whole => b \in DOMAIN boards'
      BY <1>7, <2>1, <2>2
    <2>6. ASSUME NEW b \in DOMAIN boards'
          PROVE  InFile(b)' \/ \E v \in Users : Working(calls'[v], b)
      <3>1. CASE Working(c, b)
        BY <1>6, <3>1
      <3>2. CASE b \in DOMAIN bs /\ Alike(bs[b], o.boards[b])
        <4>1. b \in DOMAIN boardFiles /\ boardFiles[b].whole /\ Alike(boardFiles[b].board, bs[b])
          BY <2>1, <3>2
        <4>2. Alike(boardFiles[b].board, o.boards[b])
          BY <3>2, <4>1 DEF Alike
        <4> QED  BY <1>7, <4>1, <4>2 DEF InFile, Alike
      <3> QED  BY <1>5, <1>7, <3>1, <3>2
    <2>7. ASSUME NEW t \in tasks'.answered \ tasks'.deleted
          PROVE  /\ tasks'.on[t] \in DOMAIN boardFiles'
                 /\ boardFiles'[tasks'.on[t]].whole => t \in DOMAIN boardFiles'[tasks'.on[t]].board.tasks
                 /\ tasks'.on[t] \in DOMAIN boards' => t \in DOMAIN boards'[tasks'.on[t]].tasks
      <3> DEFINE b == tasks.on[t]
      <3>1. t \in tasks.answered \ tasks.deleted /\ t \notin o.gone /\ tasks'.on[t] = b
        BY <1>4 DEF KanbanShape, TasksOK, Grown
      <3>2. b \in DOMAIN boardFiles /\ (boardFiles[b].whole => t \in DOMAIN boardFiles[b].board.tasks)
        BY <1>9, <3>1 DEF Ready, Clean, Full
      <3> HIDE DEF b
      <3>3. ASSUME b \in DOMAIN o.boards
            PROVE  t \in DOMAIN o.boards[b].tasks
        <4>1. b \in DOMAIN bs
          <5>1. DOMAIN o.boards \ DOMAIN bs \in {{}, {tasks.boards + 1}}
            BY <1>2 DEF OutcomeOK, BoardsGo
          <5>2. b \in 1..tasks.boards /\ tasks.boards \in Nat
            BY <3>2, FileTableHas DEF KanbanShape, TasksOK
          <5>3. b # tasks.boards + 1
            BY <5>2
          <5> QED  BY <3>3, <5>1, <5>3
        <4>2. boardFiles[b].whole /\ Alike(boardFiles[b].board, bs[b])
          BY <2>1, <4>1
        <4>3. t \in DOMAIN bs[b].tasks
          BY <3>2, <4>2 DEF Alike
        <4>4. DOMAIN bs[b].tasks \subseteq DOMAIN o.boards[b].tasks \cup o.gone
          BY <1>2, <4>1 DEF OutcomeOK, BoardsGo
        <4> QED  BY <3>1, <4>3, <4>4
      <3> QED  BY <1>7, <3>1, <3>2, <3>3
    <2> QED  BY <2>3, <2>4, <2>5, <2>6, <2>7 DEF TurnInv
  <1> QED  BY <1>8, <1>9

(* A call goes on: nothing is written, nobody is told anything.             *)
Silent(u, c) ==
    /\ calls' = [calls EXCEPT ![u] = c] /\ kanbanWay' = kanbanWay /\ boardFiles' = boardFiles
    /\ tasks'.on = tasks.on /\ tasks'.answered = tasks.answered
    /\ tasks'.deleted = tasks.deleted /\ tasks'.boards = tasks.boards /\ TasksOK(tasks')

LEMMA SilentShape ==
    ASSUME KanbanShape, NEW u \in Users, NEW c, Silent(u, c),
           boards' \in BoardTables(tasks.boards, Len(tasks.on)),
           CallOK(c, tasks'), c.op \in Ops,
           c.at = "boards" => c.left \subseteq DOMAIN boardFiles,
           c.at = "put" => Head(c.writes).key \in DOMAIN boardFiles
    PROVE  KanbanShape'
  <1>1. /\ calls' = [calls EXCEPT ![u] = c] /\ kanbanWay' = kanbanWay /\ boardFiles' = boardFiles
        /\ tasks'.on = tasks.on /\ tasks'.boards = tasks.boards /\ TasksOK(tasks')
    BY DEF Silent
  <1>2. Grown(tasks, tasks')
    <2>1. Len(tasks.on) \in Nat /\ tasks.boards \in Nat
      BY DEF KanbanShape, TasksOK
    <2> QED  BY <1>1, <2>1 DEF Grown
  <1>3. boardFiles \in FileTables(tasks.boards, Len(tasks.on))
    BY DEF KanbanShape
  <1> QED  BY <1>1, <1>2, <1>3, ShapeStays

(* While everything is loaded.                                              *)
LEMMA LoadingTurn ==
    ASSUME KanbanShape, NEW u \in Users, NEW c, Silent(u, c), Clean(u, boards'), ~boardsLoaded',
           c.at \in {"boards", "links"},
           c.at = "links" => Full(boards'),
           c.at = "boards" => \A b \in DOMAIN boardFiles \ c.left :
                                  boardFiles[b].whole => b \in DOMAIN boards'
    PROVE  TurnInv'
  <1>1. /\ calls'[u] = c /\ \A v \in Users \ {u} : calls'[v].at = "idle"
    BY DEF KanbanShape, Silent, Clean
  <1>2. /\ kanbanWay' = kanbanWay /\ boardFiles' = boardFiles /\ tasks'.on = tasks.on
        /\ tasks'.answered = tasks.answered /\ tasks'.deleted = tasks.deleted
    BY DEF Silent
  <1>3. \A v, w \in Users : v # w => calls'[v].at = "idle" \/ calls'[w].at = "idle"
    BY <1>1
  <1>4. \A v \in Users : /\ calls'[v].at \in {"idle", "boards", "links"}
                         /\ v # u => calls'[v].at = "idle"
    BY <1>1
  <1>5. \A v \in Users : \A b : ~Working(calls'[v], b)
    BY <1>4 DEF Working
  <1>6. ASSUME NEW v \in Users, calls'[v].at = "boards"
        PROVE  \A b \in DOMAIN boardFiles' \ calls'[v].left : boardFiles'[b].whole => b \in DOMAIN boards'
    <2>1. calls'[v] = c
      BY <1>1, <1>6
    <2> QED  BY <1>2, <1>6, <2>1
  <1>7. (\E v \in Users : calls'[v].at = "links") =>
            \A b \in DOMAIN boardFiles' : boardFiles'[b].whole => b \in DOMAIN boards'
    BY <1>1, <1>2 DEF Full
  <1>8. \A b \in DOMAIN boards' : InFile(b)'
    BY <1>2 DEF Clean, InFile, Alike
  <1>9. ASSUME NEW t \in tasks'.answered \ tasks'.deleted
        PROVE  /\ tasks'.on[t] \in DOMAIN boardFiles'
               /\ boardFiles'[tasks'.on[t]].whole => t \in DOMAIN boardFiles'[tasks'.on[t]].board.tasks
               /\ tasks'.on[t] \in DOMAIN boards' => t \in DOMAIN boards'[tasks'.on[t]].tasks
    <2> DEFINE b == tasks.on[t]
    <2>1. /\ b \in DOMAIN boardFiles /\ tasks'.on[t] = b
          /\ boardFiles[b].whole => t \in DOMAIN boardFiles[b].board.tasks
      BY <1>2, <1>9 DEF Clean
    <2> HIDE DEF b
    <2>2. b \in DOMAIN boards' => boardFiles[b].whole /\ Alike(boardFiles[b].board, boards'[b])
      BY DEF Clean
    <2> QED  BY <1>2, <2>1, <2>2 DEF Alike
  <1> QED  BY <1>3, <1>4, <1>5, <1>6, <1>7, <1>8, <1>9 DEF TurnInv

(* While nothing is written, memory is what the files have.                 *)
LEMMA TurnClean ==
    ASSUME TurnInv, NEW u \in Users, \A v \in Users \ {u} : calls[v].at = "idle",
           calls[u].at \notin {"write", "put"}
    PROVE  /\ Clean(u, boards)
           /\ boardsLoaded \/ calls[u].at = "links" => Full(boards)
  <1>1. \A v \in Users : \A b : ~Working(calls[v], b)
    BY DEF Working
  <1>2. \A b \in DOMAIN boards : InFile(b)
    BY <1>1 DEF TurnInv
  <1>3. \A t \in tasks.answered \ tasks.deleted :
            /\ tasks.on[t] \in DOMAIN boardFiles
            /\ boardFiles[tasks.on[t]].whole => t \in DOMAIN boardFiles[tasks.on[t]].board.tasks
    BY DEF TurnInv
  <1>4. Clean(u, boards)
    BY <1>2, <1>3 DEF Clean, InFile
  <1>5. boardsLoaded \/ calls[u].at = "links" => Full(boards)
    BY DEF TurnInv, Full
  <1> QED  BY <1>4, <1>5

LEMMA OthersIdle ==
    ASSUME TurnInv, NEW u \in Users, calls[u].at # "idle"
    PROVE  \A v \in Users \ {u} : calls[v].at = "idle"
  BY DEF TurnInv

LEMMA SameTasks ==
    ASSUME KanbanShape, tasks' = tasks, NEW u, NEW c, calls' = [calls EXCEPT ![u] = c],
           kanbanWay' = kanbanWay, boardFiles' = boardFiles
    PROVE  Silent(u, c)
  BY DEF Silent, KanbanShape

LEMMA CallToolStep ==
    ASSUME KanbanInv, NEW u \in Users, NEW op \in Ops, CallTool(u, op)
    PROVE  KanbanShape' /\ (Patient => TurnInv')
  <1>1. /\ KanbanShape /\ (Patient => TurnInv)
        /\ boards \in BoardTables(tasks.boards, Len(tasks.on))
    BY DEF KanbanInv, KanbanShape
  <1>2. calls[u].at = "idle" /\ (Patient => \A v \in Users \ {u} : calls[v].at = "idle")
    BY DEF CallTool, Patient, OtherUsers
  <1>3. ASSUME Patient
        PROVE  Clean(u, boards) /\ (boardsLoaded => Full(boards))
    BY <1>1, <1>2, <1>3, TurnClean
  <1>4. CASE boardsLoaded
    <2>1. Perform(u, op, boards, links)
      BY <1>4 DEF CallTool
    <2>2. Patient => Ready(u, boards)
      BY <1>3, <1>4 DEF Ready
    <2> QED  BY <1>1, <2>1, <2>2, PerformStep
  <1>5. CASE ~boardsLoaded
    <2> DEFINE c == Loading(op, DOMAIN boardFiles)
    <2>1. /\ calls' = [calls EXCEPT ![u] = c] /\ kanbanWay' = kanbanWay /\ boardFiles' = boardFiles
          /\ tasks' = tasks /\ boards' = boards /\ boardsLoaded' = boardsLoaded
      BY <1>5 DEF CallTool
    <2>2. /\ c.at = "boards" /\ c.op = op /\ c.left = DOMAIN boardFiles
          /\ c = [at |-> c.at, op |-> c.op, left |-> c.left, writes |-> c.writes, made |-> c.made]
      BY DEF Loading
    <2> HIDE DEF c
    <2>3. Silent(u, c)
      BY <1>1, <2>1, SameTasks
    <2>4. CallOK(c, tasks')
      BY <2>2 DEF CallOK
    <2>5. KanbanShape'
      BY <1>1, <2>1, <2>2, <2>3, <2>4, SilentShape
    <2>6. ASSUME Patient
          PROVE  TurnInv'
      BY <1>1, <1>3, <1>5, <2>1, <2>2, <2>3, <2>6, LoadingTurn
    <2> QED  BY <2>5, <2>6
  <1> QED  BY <1>4, <1>5

LEMMA CallLeft ==
    ASSUME NEW c, NEW left,
           c = [at |-> c.at, op |-> c.op, left |-> c.left, writes |-> c.writes, made |-> c.made]
    PROVE  [c EXCEPT !.left = left] =
               [at |-> c.at, op |-> c.op, left |-> left, writes |-> c.writes, made |-> c.made]
  OBVIOUS

LEMMA CallAt ==
    ASSUME NEW c, NEW at,
           c = [at |-> c.at, op |-> c.op, left |-> c.left, writes |-> c.writes, made |-> c.made]
    PROVE  [c EXCEPT !.at = at] =
               [at |-> at, op |-> c.op, left |-> c.left, writes |-> c.writes, made |-> c.made]
  OBVIOUS

LEMMA CallMoved ==
    ASSUME NEW c, NEW at, NEW left,
           c = [at |-> c.at, op |-> c.op, left |-> c.left, writes |-> c.writes, made |-> c.made]
    PROVE  [c EXCEPT !.at = at, !.left = left] =
               [at |-> at, op |-> c.op, left |-> left, writes |-> c.writes, made |-> c.made]
  <1>1. [c EXCEPT !.at = at] =
            [at |-> at, op |-> c.op, left |-> c.left, writes |-> c.writes, made |-> c.made]
    BY CallAt
  <1>2. PICK d : d = [c EXCEPT !.at = at]
    OBVIOUS
  <1>3. /\ d.at = at /\ d.op = c.op /\ d.left = c.left /\ d.writes = c.writes /\ d.made = c.made
        /\ d = [at |-> d.at, op |-> d.op, left |-> d.left, writes |-> d.writes, made |-> d.made]
    BY <1>1, <1>2, CallIs
  <1>4. [d EXCEPT !.left = left] =
            [at |-> at, op |-> c.op, left |-> left, writes |-> c.writes, made |-> c.made]
    BY <1>3
  <1> QED  BY <1>2, <1>4

LEMMA CallWrites ==
    ASSUME NEW c, NEW at, NEW ws,
           c = [at |-> c.at, op |-> c.op, left |-> c.left, writes |-> c.writes, made |-> c.made]
    PROVE  [c EXCEPT !.at = at, !.writes = ws] =
               [at |-> at, op |-> c.op, left |-> c.left, writes |-> ws, made |-> c.made]
  <1>1. [c EXCEPT !.at = at] =
            [at |-> at, op |-> c.op, left |-> c.left, writes |-> c.writes, made |-> c.made]
    BY CallAt
  <1>2. PICK d : d = [c EXCEPT !.at = at]
    OBVIOUS
  <1>3. /\ d.at = at /\ d.op = c.op /\ d.left = c.left /\ d.writes = c.writes /\ d.made = c.made
        /\ d = [at |-> d.at, op |-> d.op, left |-> d.left, writes |-> d.writes, made |-> d.made]
    BY <1>1, <1>2, CallIs
  <1>4. [d EXCEPT !.writes = ws] =
            [at |-> at, op |-> c.op, left |-> c.left, writes |-> ws, made |-> c.made]
    BY <1>3
  <1> QED  BY <1>2, <1>4

(* A board's file is read.                                                  *)
LEMMA BoardLoaded ==
    ASSUME KanbanShape, NEW u \in Users, calls[u].at = "boards", NEW b \in calls[u].left, NEW bs,
           bs = IF boardFiles[b].whole THEN Entered(boards, b, boardFiles[b].board) ELSE boards
    PROVE  /\ bs \in BoardTables(tasks.boards, Len(tasks.on))
           /\ Clean(u, boards) => Clean(u, bs)
           /\ \A left : left = calls[u].left \ {b} =>
                 ((\A d \in DOMAIN boardFiles \ calls[u].left : boardFiles[d].whole => d \in DOMAIN boards)
                  => \A d \in DOMAIN boardFiles \ left : boardFiles[d].whole => d \in DOMAIN bs)
  <1>1. /\ boards \in BoardTables(tasks.boards, Len(tasks.on))
        /\ boardFiles \in FileTables(tasks.boards, Len(tasks.on))
        /\ b \in DOMAIN boardFiles
    BY DEF KanbanShape
  <1>2. b \in 1..tasks.boards /\ boardFiles[b] \in Files(Len(tasks.on))
    BY <1>1, FileTableHas
  <1>3. boardFiles[b].board \in GoodBoards(Len(tasks.on))
    BY <1>2 DEF Files
  <1>4. bs \in BoardTables(tasks.boards, Len(tasks.on))
    BY <1>1, <1>2, <1>3, TableEntered
  <1>5. \/ boardFiles[b].whole /\ DOMAIN bs = DOMAIN boards \cup {b} /\ bs[b] = boardFiles[b].board
           /\ \A d \in DOMAIN boards \ {b} : bs[d] = boards[d]
        \/ ~boardFiles[b].whole /\ bs = boards
    BY DEF Entered
  <1>6. ASSUME Clean(u, boards)
        PROVE  Clean(u, bs)
    <2>1. \A d \in DOMAIN boards : /\ d \in DOMAIN boardFiles /\ boardFiles[d].whole
                                   /\ Alike(boardFiles[d].board, boards[d])
      BY <1>6 DEF Clean
    <2>2. ASSUME NEW d \in DOMAIN bs
          PROVE  /\ d \in DOMAIN boardFiles /\ boardFiles[d].whole /\ Alike(boardFiles[d].board, bs[d])
      <3>1. CASE boardFiles[b].whole /\ d = b
        BY <1>1, <1>5, <3>1 DEF Alike
      <3>2. CASE ~(boardFiles[b].whole /\ d = b)
        <4>1. d \in DOMAIN boards /\ bs[d] = boards[d]
          BY <1>5, <3>2
        <4> QED  BY <2>1, <4>1
      <3> QED  BY <3>1, <3>2
    <2> QED  BY <1>6, <2>2 DEF Clean
  <1>7. ASSUME NEW left, left = calls[u].left \ {b},
               \A d \in DOMAIN boardFiles \ calls[u].left : boardFiles[d].whole => d \in DOMAIN boards,
               NEW d \in DOMAIN boardFiles \ left, boardFiles[d].whole
        PROVE  d \in DOMAIN bs
    BY <1>5, <1>7
  <1> QED  BY <1>4, <1>6, <1>7

LEMMA LoadBoardStep ==
    ASSUME KanbanInv, NEW u \in Users, LoadBoard(u)
    PROVE  KanbanShape' /\ (Patient => TurnInv')
  <1> DEFINE n == Len(tasks.on)
  <1>1. /\ KanbanShape /\ (Patient => TurnInv) /\ calls[u].at = "boards"
    BY DEF KanbanInv, LoadBoard
  <1>2. /\ calls[u].op \in Ops /\ calls[u].left \subseteq DOMAIN boardFiles
        /\ calls[u] = [at |-> calls[u].at, op |-> calls[u].op, left |-> calls[u].left,
                       writes |-> calls[u].writes, made |-> calls[u].made]
    BY <1>1 DEF KanbanShape, CallOK
  <1>3. PICK b \in calls[u].left :
            LET bs == IF boardFiles[b].whole THEN Entered(boards, b, boardFiles[b].board) ELSE boards
                left == calls[u].left \ {b}
            IN  IF left = {} /\ linkFiles = <<>> THEN Perform(u, calls[u].op, bs, links)
                ELSE /\ boards' = bs
                     /\ calls' = [calls EXCEPT ![u] =
                            IF left = {} THEN [calls[u] EXCEPT !.at = "links", !.left = DOMAIN linkFiles]
                            ELSE [calls[u] EXCEPT !.left = left]]
                     /\ UNCHANGED <<kanbanWay, links, boardsLoaded, boardFiles, linkFiles, tasks>>
    BY <1>1 DEF LoadBoard, KanbanShape
  <1> DEFINE bs == IF boardFiles[b].whole THEN Entered(boards, b, boardFiles[b].board) ELSE boards
             left == calls[u].left \ {b}
             c == IF left = {} THEN [calls[u] EXCEPT !.at = "links", !.left = DOMAIN linkFiles]
                  ELSE [calls[u] EXCEPT !.left = left]
  <1>4. /\ c.at = (IF left = {} THEN "links" ELSE "boards") /\ c.op = calls[u].op
        /\ c.left = (IF left = {} THEN DOMAIN linkFiles ELSE left)
        /\ c = [at |-> c.at, op |-> c.op, left |-> c.left, writes |-> c.writes, made |-> c.made]
    <2>1. CASE left = {}
      <3>1. c = [at |-> "links", op |-> calls[u].op, left |-> DOMAIN linkFiles,
                 writes |-> calls[u].writes, made |-> calls[u].made]
        BY <1>2, <2>1, CallMoved
      <3> HIDE DEF c, left
      <3> QED  BY <2>1, <3>1, CallIs
    <2>2. CASE left # {}
      <3>1. c = [at |-> "boards", op |-> calls[u].op, left |-> left,
                 writes |-> calls[u].writes, made |-> calls[u].made]
        BY <1>1, <1>2, <2>2, CallLeft
      <3> HIDE DEF c, left
      <3> QED  BY <2>2, <3>1, CallIs
    <2> QED  BY <2>1, <2>2
  <1>5. \/ left = {} /\ Perform(u, calls[u].op, bs, links)
        \/ /\ boards' = bs /\ calls' = [calls EXCEPT ![u] = c]
           /\ kanbanWay' = kanbanWay /\ boardsLoaded' = boardsLoaded /\ boardFiles' = boardFiles
           /\ tasks' = tasks
    BY <1>3
  <1> HIDE DEF c
  <1>6. /\ bs \in BoardTables(tasks.boards, n) /\ (Clean(u, boards) => Clean(u, bs))
        /\ (\A d \in DOMAIN boardFiles \ calls[u].left : boardFiles[d].whole => d \in DOMAIN boards)
           => \A d \in DOMAIN boardFiles \ left : boardFiles[d].whole => d \in DOMAIN bs
    <2>1. bs = IF boardFiles[b].whole THEN Entered(boards, b, boardFiles[b].board) ELSE boards
      OBVIOUS
    <2>2. left = calls[u].left \ {b}
      OBVIOUS
    <2> HIDE DEF bs, left
    <2> QED  BY <1>1, <2>1, <2>2, BoardLoaded
  <1> HIDE DEF bs, left
  <1>7. ASSUME Patient
        PROVE  /\ Clean(u, bs) /\ ~boardsLoaded
               /\ \A d \in DOMAIN boardFiles \ left : boardFiles[d].whole => d \in DOMAIN bs
    <2>1. TurnInv /\ \A v \in Users \ {u} : calls[v].at = "idle"
      BY <1>1, <1>7, OthersIdle
    <2>2. Clean(u, boards)
      BY <1>1, <2>1, TurnClean
    <2>3. /\ ~boardsLoaded
          /\ \A d \in DOMAIN boardFiles \ calls[u].left : boardFiles[d].whole => d \in DOMAIN boards
      BY <1>1, <2>1 DEF TurnInv
    <2> QED  BY <1>6, <2>2, <2>3
  <1>8. CASE left = {} /\ Perform(u, calls[u].op, bs, links)
    <2>1. Patient => Ready(u, bs)
      BY <1>7, <1>8 DEF Ready, Full
    <2> QED  BY <1>1, <1>2, <1>6, <1>8, <2>1, PerformStep
  <1>9. CASE /\ boards' = bs /\ calls' = [calls EXCEPT ![u] = c]
             /\ kanbanWay' = kanbanWay /\ boardsLoaded' = boardsLoaded /\ boardFiles' = boardFiles
             /\ tasks' = tasks
    <2>1. Silent(u, c)
      BY <1>1, <1>9, SameTasks
    <2>2. c.at \in {"links", "boards"}
      BY <1>4
    <2>3. CallOK(c, tasks')
      BY <1>4, <2>2 DEF CallOK
    <2>4. c.at = "boards" => left # {} /\ c.left = left
      BY <1>4
    <2>5. left \subseteq DOMAIN boardFiles
      BY <1>2 DEF left
    <2>6. c.op \in Ops
      BY <1>2, <1>4
    <2>7. KanbanShape'
      BY <1>1, <1>6, <1>9, <2>1, <2>2, <2>3, <2>4, <2>5, <2>6, SilentShape
    <2>8. ASSUME Patient
          PROVE  TurnInv'
      <3>1. c.at = "links" => Full(boards')
        BY <1>4, <1>7, <1>9, <2>8 DEF Full
      <3>2. c.at = "boards" => \A d \in DOMAIN boardFiles \ c.left : boardFiles[d].whole => d \in DOMAIN boards'
        BY <1>7, <1>9, <2>4, <2>8
      <3>3. Clean(u, boards') /\ ~boardsLoaded'
        BY <1>7, <1>9, <2>8
      <3> QED  BY <1>1, <2>1, <2>2, <3>1, <3>2, <3>3, LoadingTurn
    <2> QED  BY <2>7, <2>8
  <1> QED  BY <1>5, <1>8, <1>9

LEMMA LoadLinkStep ==
    ASSUME KanbanInv, NEW u \in Users, LoadLink(u)
    PROVE  KanbanShape' /\ (Patient => TurnInv')
  <1>1. /\ KanbanShape /\ (Patient => TurnInv) /\ calls[u].at = "links"
        /\ boards \in BoardTables(tasks.boards, Len(tasks.on))
    BY DEF KanbanInv, KanbanShape, LoadLink
  <1>2. /\ calls[u].op \in Ops
        /\ calls[u] = [at |-> calls[u].at, op |-> calls[u].op, left |-> calls[u].left,
                       writes |-> calls[u].writes, made |-> calls[u].made]
    BY <1>1 DEF KanbanShape, CallOK
  <1>3. ASSUME Patient
        PROVE  Ready(u, boards) /\ ~boardsLoaded
    <2>1. TurnInv /\ \A v \in Users \ {u} : calls[v].at = "idle"
      BY <1>1, <1>3, OthersIdle
    <2>2. Clean(u, boards) /\ Full(boards)
      BY <1>1, <2>1, TurnClean
    <2>3. ~boardsLoaded
      BY <1>1, <2>1 DEF TurnInv
    <2> QED  BY <2>2, <2>3 DEF Ready
  <1>4. PICK l \in calls[u].left :
            LET ls == IF l \in DOMAIN linkFiles THEN Entered(links, l, linkFiles[l]) ELSE links
                left == calls[u].left \ {l}
            IN  IF left = {} THEN Perform(u, calls[u].op, boards, ls)
                ELSE /\ links' = ls
                     /\ calls' = [calls EXCEPT ![u].left = left]
                     /\ UNCHANGED <<kanbanWay, boards, boardsLoaded, boardFiles, linkFiles, tasks>>
    BY DEF LoadLink
  <1> DEFINE left == calls[u].left \ {l}
             ls == IF l \in DOMAIN linkFiles THEN Entered(links, l, linkFiles[l]) ELSE links
             c == [calls[u] EXCEPT !.left = left]
  <1>5. CASE left = {}
    <2>1. Perform(u, calls[u].op, boards, ls)
      BY <1>4, <1>5
    <2> HIDE DEF ls
    <2> QED  BY <1>1, <1>2, <1>3, <2>1, PerformStep
  <1>6. CASE left # {}
    <2>1. /\ calls' = [calls EXCEPT ![u] = c] /\ kanbanWay' = kanbanWay /\ boards' = boards
          /\ boardsLoaded' = boardsLoaded /\ boardFiles' = boardFiles /\ tasks' = tasks
      BY <1>1, <1>4, <1>6 DEF KanbanShape
    <2>2. /\ c.at = "links" /\ c.op = calls[u].op
          /\ c = [at |-> c.at, op |-> c.op, left |-> c.left, writes |-> c.writes, made |-> c.made]
      <3>1. c = [at |-> calls[u].at, op |-> calls[u].op, left |-> left,
                 writes |-> calls[u].writes, made |-> calls[u].made]
        BY <1>2, CallLeft
      <3> HIDE DEF c
      <3> QED  BY <1>1, <3>1, CallIs
    <2> HIDE DEF c
    <2>3. Silent(u, c)
      BY <1>1, <2>1, SameTasks
    <2>4. CallOK(c, tasks')
      BY <2>2 DEF CallOK
    <2>5. KanbanShape'
      BY <1>1, <1>2, <2>1, <2>2, <2>3, <2>4, SilentShape
    <2>6. ASSUME Patient
          PROVE  TurnInv'
      <3>1. Clean(u, boards') /\ Full(boards') /\ ~boardsLoaded'
        BY <1>3, <2>1, <2>6 DEF Ready
      <3> QED  BY <1>1, <2>2, <2>3, <3>1, LoadingTurn
    <2> QED  BY <2>5, <2>6
  <1> QED  BY <1>5, <1>6

LEMMA OpenBoardStep ==
    ASSUME KanbanInv, NEW u \in Users, OpenBoard(u)
    PROVE  KanbanShape' /\ (Patient => TurnInv')
  <1> DEFINE w == Head(calls[u].writes)
             c == [calls[u] EXCEPT !.at = "put"]
             n == Len(tasks.on)
  <1>1. /\ KanbanShape /\ (Patient => TurnInv) /\ TasksOK(tasks)
        /\ boards \in BoardTables(tasks.boards, n) /\ boardFiles \in FileTables(tasks.boards, n)
    BY DEF KanbanInv, KanbanShape
  <1>2. /\ calls[u].at = "write" /\ ForBoard(w)
        /\ boardFiles' = Entered(boardFiles, w.key, EmptyFile)
        /\ calls' = [calls EXCEPT ![u] = c]
        /\ kanbanWay' = kanbanWay /\ boards' = boards /\ boardsLoaded' = boardsLoaded /\ tasks' = tasks
    BY <1>1 DEF OpenBoard, ForBoard, KanbanShape
  <1>3. /\ calls[u].op \in Ops /\ PlanOK(calls[u].writes, calls[u].made, tasks)
        /\ calls[u] = [at |-> calls[u].at, op |-> calls[u].op, left |-> calls[u].left,
                       writes |-> calls[u].writes, made |-> calls[u].made]
    BY <1>1, <1>2 DEF KanbanShape, CallOK
  <1>4. /\ c.at = "put" /\ c.op = calls[u].op /\ c.writes = calls[u].writes /\ c.made = calls[u].made
        /\ c = [at |-> c.at, op |-> c.op, left |-> c.left, writes |-> c.writes, made |-> c.made]
    <2>1. c = [at |-> "put", op |-> calls[u].op, left |-> calls[u].left,
               writes |-> calls[u].writes, made |-> calls[u].made]
      BY <1>3, CallAt
    <2> HIDE DEF c
    <2> QED  BY <2>1, CallIs
  <1>5. w.key \in 1..tasks.boards
    <2>1. PlanOK(calls[u].writes, calls[u].made, tasks)
      BY <1>3
    <2>2. ForBoard(w) => w.key \in 1..tasks.boards
      BY ONLY <2>1, PlanHas
    <2> QED  BY <1>2, <2>2
  <1>6. Head(c.writes) = w
    BY <1>4
  <1> HIDE DEF c, w
  <1>7. /\ DOMAIN boardFiles' = DOMAIN boardFiles \cup {w.key} /\ boardFiles'[w.key] = EmptyFile
        /\ \A b \in DOMAIN boardFiles \ {w.key} : boardFiles'[b] = boardFiles[b]
    <2>1. boardFiles' = Entered(boardFiles, w.key, EmptyFile)
      BY <1>2
    <2> QED  BY <2>1 DEF Entered
  <1>8. KanbanShape'
    <2>1. n \in Nat
      BY <1>1 DEF TasksOK
    <2>2. EmptyFile \in Files(n)
      BY <2>1, EmptyBoardGood DEF EmptyFile, Files
    <2>3. boardFiles' \in FileTables(tasks'.boards, Len(tasks'.on))
      <3> HIDE DEF n
      <3>1. boardFiles' \in FileTables(tasks.boards, n)
        BY <1>1, <1>2, <1>5, <2>2, FileEntered
      <3> QED  BY <1>2, <3>1 DEF n
    <2>4. CallOK(c, tasks')
      <3>1. PlanOK(c.writes, c.made, tasks')
        BY <1>2, <1>3, <1>4
      <3> QED  BY <1>2, <1>4, <1>6, <3>1 DEF CallOK
    <2>5. Grown(tasks, tasks') /\ TasksOK(tasks')
      BY <1>1, <1>2, <2>1 DEF Grown, TasksOK
    <2>6. Head(c.writes).key \in DOMAIN boardFiles' /\ DOMAIN boardFiles \subseteq DOMAIN boardFiles'
      BY <1>6, <1>7
    <2> QED  BY <1>1, <1>2, <1>3, <1>4, <2>3, <2>4, <2>5, <2>6, ShapeStays
  <1>9. ASSUME Patient
        PROVE  TurnInv'
    <2>1. TurnInv /\ \A v \in Users \ {u} : calls[v].at = "idle"
      BY <1>1, <1>2, <1>9, OthersIdle
    <2>2. calls'[u] = c /\ \A v \in Users \ {u} : calls'[v].at = "idle"
      BY <1>1, <1>2, <2>1 DEF KanbanShape
    <2>3. \A b : /\ Working(c, b) <=> b = w.key
                 /\ Working(calls[u], b) <=> b = w.key
      BY <1>2, <1>4, <1>6 DEF Working, w
    <2>4. /\ boardsLoaded /\ w.key \in DOMAIN boards /\ boards[w.key] = w.board
      BY <1>2, <2>1, <2>3 DEF TurnInv, w
    <2>5. ~EmptyFile.whole
      BY DEF EmptyFile
    <2>6. \A v, x \in Users : v # x => calls'[v].at = "idle" \/ calls'[x].at = "idle"
      BY <2>2
    <2>7. ASSUME NEW v \in Users
          PROVE  /\ calls'[v].at \in {"idle", "put"}
                 /\ calls'[v].at = "put" => ~boardFiles'[Head(calls'[v].writes).key].whole
                 /\ \A b : Working(calls'[v], b) => b \in DOMAIN boards' /\ boards'[b] = Head(calls'[v].writes).board
      <3>1. CASE v = u
        BY <1>2, <1>4, <1>6, <1>7, <2>2, <2>3, <2>4, <2>5, <3>1
      <3>2. CASE v # u
        <4>1. calls'[v].at = "idle"
          BY <2>2, <3>2
        <4> QED  BY <4>1 DEF Working
      <3> QED  BY <3>1, <3>2
    <2>8. ASSUME NEW b \in DOMAIN boardFiles', boardFiles'[b].whole
          PROVE  b \in DOMAIN boards' /\ b # w.key
      <3>1. b # w.key
        BY <1>7, <2>5, <2>8
      <3>2. b \in DOMAIN boardFiles /\ boardFiles[b].whole
        BY <1>7, <2>8, <3>1
      <3> QED  BY <1>2, <2>1, <2>4, <3>1, <3>2 DEF TurnInv
    <2>9. ASSUME NEW b \in DOMAIN boards'
          PROVE  InFile(b)' \/ \E v \in Users : Working(calls'[v], b)
      <3>1. CASE b = w.key
        BY <2>2, <2>3, <3>1
      <3>2. CASE b # w.key
        <4>1. \A v \in Users : ~Working(calls[v], b)
          BY <2>1, <2>3, <3>2 DEF Working
        <4>2. InFile(b)
          BY <1>2, <2>1, <4>1 DEF TurnInv
        <4> QED  BY <1>2, <1>7, <3>2, <4>2 DEF InFile, Alike
      <3> QED  BY <3>1, <3>2
    <2>10. ASSUME NEW t \in tasks'.answered \ tasks'.deleted
           PROVE  /\ tasks'.on[t] \in DOMAIN boardFiles'
                  /\ boardFiles'[tasks'.on[t]].whole => t \in DOMAIN boardFiles'[tasks'.on[t]].board.tasks
                  /\ tasks'.on[t] \in DOMAIN boards' => t \in DOMAIN boards'[tasks'.on[t]].tasks
      <3> DEFINE b == tasks.on[t]
      <3>1. /\ b \in DOMAIN boardFiles /\ tasks'.on[t] = b
            /\ boardFiles[b].whole => t \in DOMAIN boardFiles[b].board.tasks
            /\ b \in DOMAIN boards => t \in DOMAIN boards[b].tasks
        BY <1>2, <2>1, <2>10 DEF TurnInv
      <3> HIDE DEF b
      <3> QED  BY <1>2, <1>7, <2>8, <3>1
    <2> QED  BY <1>2, <2>4, <2>6, <2>7, <2>8, <2>9, <2>10 DEF TurnInv
  <1> QED  BY <1>8, <1>9

(* What Written does to the call.                                           *)
AfterWrite(c) ==
    IF Tail(c.writes) = <<>> THEN Idle ELSE [c EXCEPT !.at = "write", !.writes = Tail(c.writes)]

LEMMA WrittenIs ==
    ASSUME KanbanShape, NEW u \in Users, calls[u].at \in {"write", "put"}, Written(u)
    PROVE  /\ calls' = [calls EXCEPT ![u] = AfterWrite(calls[u])]
           /\ TasksOK(tasks') /\ Grown(tasks, tasks')
           /\ tasks'.on = tasks.on /\ tasks'.deleted = tasks.deleted /\ tasks'.boards = tasks.boards
           /\ tasks.answered \subseteq tasks'.answered
           /\ tasks'.answered \subseteq tasks.answered \cup calls[u].made
           /\ AfterWrite(calls[u]).at \in {"idle", "write"} /\ AfterWrite(calls[u]).op \in Ops
           /\ CallOK(AfterWrite(calls[u]), tasks)
           /\ \A b : ~Working(AfterWrite(calls[u]), b)
  <1> DEFINE c == AfterWrite(calls[u])
             rest == Tail(calls[u].writes)
             answered == IF rest = <<>> THEN tasks.answered \cup calls[u].made ELSE tasks.answered
  <1>1. /\ calls[u].op \in Ops /\ PlanOK(calls[u].writes, calls[u].made, tasks)
        /\ calls[u] = [at |-> calls[u].at, op |-> calls[u].op, left |-> calls[u].left,
                       writes |-> calls[u].writes, made |-> calls[u].made]
        /\ TasksOK(tasks)
    BY DEF KanbanShape, CallOK
  <1>2. /\ \A t \in calls[u].made : t \in 1..Len(tasks.on)
        /\ rest # <<>> => PlanOK(rest, calls[u].made, tasks) /\ ~ForBoard(Head(rest))
    <2>1. PlanOK(calls[u].writes, calls[u].made, tasks)
      BY <1>1
    <2>2. \A t \in calls[u].made : t \in 1..Len(tasks.on)
      BY ONLY <2>1, PlanHas
    <2>3. rest # <<>> => PlanOK(rest, calls[u].made, tasks) /\ ~ForBoard(Head(rest))
      BY ONLY <2>1, PlanThen
    <2> QED  BY ONLY <2>2, <2>3
  <1>3. calls' = [calls EXCEPT ![u] = c]
    BY DEF Written, AfterWrite, KanbanShape
  <1>4. tasks' = [on |-> tasks.on, answered |-> answered, deleted |-> tasks.deleted,
                  boards |-> tasks.boards, links |-> tasks.links]
    <2>1. tasks' = [tasks EXCEPT !.answered = answered]
      BY DEF Written
    <2> HIDE DEF answered
    <2> QED  BY <1>1, <2>1 DEF TasksOK
  <1>5. tasks.answered \subseteq answered /\ answered \subseteq tasks.answered \cup calls[u].made
    OBVIOUS
  <1> HIDE DEF answered
  <1>6. /\ tasks'.on = tasks.on /\ tasks'.deleted = tasks.deleted /\ tasks'.boards = tasks.boards
        /\ tasks'.answered = answered
        /\ tasks' = [on |-> tasks'.on, answered |-> tasks'.answered, deleted |-> tasks'.deleted,
                     boards |-> tasks'.boards, links |-> tasks'.links]
    BY <1>4, TasksAre
  <1>7. TasksOK(tasks')
    BY <1>1, <1>2, <1>5, <1>6 DEF TasksOK
  <1>8. Grown(tasks, tasks')
    <2>1. Len(tasks.on) \in Nat /\ tasks.boards \in Nat
      BY <1>1 DEF TasksOK
    <2> QED  BY <1>6, <2>1 DEF Grown
  <1>9. CASE rest = <<>>
    <2>1. c = [at |-> "idle", op |-> "read", left |-> {}, writes |-> <<>>, made |-> {}]
      BY <1>9 DEF AfterWrite, Idle
    <2> HIDE DEF c
    <2>2. /\ c.at = "idle" /\ c.op = "read"
          /\ c = [at |-> c.at, op |-> c.op, left |-> c.left, writes |-> c.writes, made |-> c.made]
      BY <2>1, CallIs
    <2>3. CallOK(c, tasks) /\ (\A b : ~Working(c, b)) /\ c.op \in Ops
      BY <2>2 DEF CallOK, Working, Ops, Reads
    <2> QED  BY <1>3, <1>5, <1>6, <1>7, <1>8, <2>2, <2>3 DEF c
  <1>10. CASE rest # <<>>
    <2>1. c = [at |-> "write", op |-> calls[u].op, left |-> calls[u].left,
               writes |-> rest, made |-> calls[u].made]
      BY <1>1, <1>10, CallWrites DEF AfterWrite
    <2> HIDE DEF c, rest
    <2>2. /\ c.at = "write" /\ c.op = calls[u].op /\ c.writes = rest /\ c.made = calls[u].made
          /\ c = [at |-> c.at, op |-> c.op, left |-> c.left, writes |-> c.writes, made |-> c.made]
      BY <2>1, CallIs
    <2>3. PlanOK(c.writes, c.made, tasks) /\ ~ForBoard(Head(c.writes))
      BY <1>2, <1>10, <2>2
    <2>4. CallOK(c, tasks)
      BY <2>2, <2>3 DEF CallOK
    <2>5. (\A b : ~Working(c, b)) /\ c.op \in Ops
      BY <1>1, <2>2, <2>3 DEF Working
    <2> QED  BY <1>3, <1>5, <1>6, <1>7, <1>8, <2>2, <2>4, <2>5 DEF c
  <1> QED  BY <1>9, <1>10

LEMMA PutBoardStep ==
    ASSUME KanbanInv, NEW u \in Users, PutBoard(u)
    PROVE  KanbanShape' /\ (Patient => TurnInv')
  <1> DEFINE w == Head(calls[u].writes)
             c == AfterWrite(calls[u])
             n == Len(tasks.on)
  <1>1. /\ KanbanShape /\ (Patient => TurnInv) /\ TasksOK(tasks)
        /\ boards \in BoardTables(tasks.boards, n) /\ boardFiles \in FileTables(tasks.boards, n)
    BY DEF KanbanInv, KanbanShape
  <1>3. /\ calls[u].at = "put" /\ Written(u)
        /\ kanbanWay' = kanbanWay /\ boards' = boards /\ boardsLoaded' = boardsLoaded
    BY DEF PutBoard
  <1>4. /\ ForBoard(w) /\ w.key \in DOMAIN boardFiles /\ PlanOK(calls[u].writes, calls[u].made, tasks)
    BY <1>1, <1>3 DEF KanbanShape, CallOK
  <1>5. /\ w.key \in 1..tasks.boards /\ w.board \in GoodBoards(n)
        /\ \A t \in calls[u].made : tasks.on[t] = w.key /\ t \in DOMAIN w.board.tasks
    <2>1. PlanOK(calls[u].writes, calls[u].made, tasks)
      BY <1>4
    <2>2. /\ ForBoard(w) => w.key \in 1..tasks.boards /\ w.board \in GoodBoards(n)
          /\ \A t \in calls[u].made : tasks.on[t] = w.key /\ t \in DOMAIN w.board.tasks
      <3>1. ASSUME NEW ws, NEW made, PlanOK(ws, made, tasks)
            PROVE  /\ ForBoard(Head(ws)) => /\ Head(ws).key \in 1..tasks.boards
                                             /\ Head(ws).board \in GoodBoards(Len(tasks.on))
                   /\ \A t \in made : /\ tasks.on[t] = Head(ws).key /\ t \in DOMAIN Head(ws).board.tasks
        BY ONLY <3>1, PlanHas
      <3> QED  BY <2>1, <3>1
    <2> QED  BY <1>4, <2>2
  <1>2. PICK file \in {[whole |-> TRUE, board |-> w.board]}
                      \cup (IF boardFiles[w.key].whole THEN {EmptyFile} ELSE {}) :
            boardFiles' = [boardFiles EXCEPT ![w.key] = file]
    BY DEF PutBoard
  <1>6. /\ calls' = [calls EXCEPT ![u] = c]
        /\ TasksOK(tasks') /\ Grown(tasks, tasks')
        /\ tasks'.on = tasks.on /\ tasks'.deleted = tasks.deleted /\ tasks'.boards = tasks.boards
        /\ tasks'.answered \subseteq tasks.answered \cup calls[u].made
        /\ c.at \in {"idle", "write"} /\ c.op \in Ops /\ CallOK(c, tasks) /\ \A b : ~Working(c, b)
    BY <1>1, <1>3, WrittenIs
  <1> HIDE DEF c
  <1>7. /\ DOMAIN boardFiles' = DOMAIN boardFiles /\ boardFiles'[w.key] = file
        /\ \A b \in DOMAIN boardFiles \ {w.key} : boardFiles'[b] = boardFiles[b]
    <2>1. PICK S \in SUBSET (1..tasks.boards) : boardFiles \in [S -> Files(n)]
      BY <1>1 DEF FileTables, Partial
    <2> QED  BY <1>2, <1>4, <2>1
  <1>8. KanbanShape'
    <2>1. n \in Nat
      BY <1>1 DEF TasksOK
    <2>2. file \in Files(n)
      <3>1. EmptyFile \in Files(n)
        BY <2>1, EmptyBoardGood DEF EmptyFile, Files
      <3>2. [whole |-> TRUE, board |-> w.board] \in Files(n)
        BY <1>5 DEF Files
      <3>3. file \in {[whole |-> TRUE, board |-> w.board], EmptyFile}
        BY <1>2
      <3> QED  BY <3>1, <3>2, <3>3
    <2>3. boardFiles' \in FileTables(tasks'.boards, Len(tasks'.on))
      <3>1. \A b \in DOMAIN boardFiles' : b \in 1..tasks.boards /\ boardFiles'[b] \in Files(n)
        BY <1>1, <1>7, <2>2, FileTableHas
      <3>2. boardFiles' = [b \in DOMAIN boardFiles |-> boardFiles'[b]]
        <4>1. boardFiles = [b \in DOMAIN boardFiles |-> boardFiles[b]]
          BY <1>1, FileTableHas
        <4> QED  BY <1>2, <4>1
      <3>3. boardFiles' \in [DOMAIN boardFiles -> Files(n)] /\ DOMAIN boardFiles \in SUBSET (1..tasks.boards)
        BY <1>7, <3>1, <3>2
      <3>4. boardFiles' \in FileTables(tasks.boards, n)
        BY <3>3, IsPartial DEF FileTables
      <3> QED  BY <1>6, <3>4
    <2>4. CallOK(c, tasks')
      BY <1>1, <1>6, CallStays
    <2>5. c.at \notin {"boards", "put"}
      BY <1>6
    <2>6. boards' \in BoardTables(tasks'.boards, Len(tasks'.on))
      BY <1>1, <1>3, <1>6
    <2> QED  BY <1>1, <1>3, <1>6, <1>7, <2>3, <2>4, <2>5, <2>6, ShapeStays
  <1>9. ASSUME Patient
        PROVE  TurnInv'
    <2>1. TurnInv /\ \A v \in Users \ {u} : calls[v].at = "idle"
      BY <1>1, <1>3, <1>9, OthersIdle
    <2>2. calls'[u] = c /\ \A v \in Users \ {u} : calls'[v].at = "idle"
      BY <1>1, <1>6, <2>1 DEF KanbanShape
    <2>3. \A b : Working(calls[u], b) <=> b = w.key
      BY <1>3, <1>4 DEF Working
    <2>4. /\ boardsLoaded /\ w.key \in DOMAIN boards /\ boards[w.key] = w.board
          /\ ~boardFiles[w.key].whole
      BY <1>3, <2>1, <2>3 DEF TurnInv
    <2>5. file = [whole |-> TRUE, board |-> w.board]
      BY <1>2, <2>4
    <2>6. file.whole /\ file.board = w.board
      BY <2>5
    <2> HIDE DEF w
    <2>7. \A v, x \in Users : v # x => calls'[v].at = "idle" \/ calls'[x].at = "idle"
      BY <2>2
    <2>8. ASSUME NEW v \in Users
          PROVE  calls'[v].at \in {"idle", "write"} /\ \A b : ~Working(calls'[v], b)
      <3>1. CASE v = u
        BY <1>6, <2>2, <3>1
      <3>2. CASE v # u
        <4>1. calls'[v].at = "idle"
          BY <2>2, <3>2
        <4> QED  BY <4>1 DEF Working
      <3> QED  BY <3>1, <3>2
    <2>9. ASSUME NEW b \in DOMAIN boardFiles', boardFiles'[b].whole
          PROVE  b \in DOMAIN boards'
      <3>1. CASE b = w.key
        BY <1>3, <2>4, <3>1
      <3>2. CASE b # w.key
        <4>1. b \in DOMAIN boardFiles /\ boardFiles[b].whole
          BY <1>7, <2>9, <3>2
        <4> QED  BY <1>3, <2>1, <2>4, <4>1 DEF TurnInv
      <3> QED  BY <3>1, <3>2
    <2>10. ASSUME NEW b \in DOMAIN boards'
           PROVE  InFile(b)'
      <3>1. CASE b = w.key
        BY <1>3, <1>4, <1>7, <2>4, <2>6, <3>1 DEF InFile, Alike
      <3>2. CASE b # w.key
        <4>1. \A v \in Users : ~Working(calls[v], b)
          BY <2>1, <2>3, <3>2 DEF Working
        <4>2. InFile(b)
          BY <1>3, <2>1, <4>1 DEF TurnInv
        <4> QED  BY <1>3, <1>7, <3>2, <4>2 DEF InFile, Alike
      <3> QED  BY <3>1, <3>2
    <2>11. ASSUME NEW t \in tasks'.answered \ tasks'.deleted
           PROVE  /\ tasks'.on[t] \in DOMAIN boardFiles'
                  /\ boardFiles'[tasks'.on[t]].whole => t \in DOMAIN boardFiles'[tasks'.on[t]].board.tasks
                  /\ tasks'.on[t] \in DOMAIN boards' => t \in DOMAIN boards'[tasks'.on[t]].tasks
      <3> DEFINE b == tasks.on[t]
      <3>1. tasks'.on[t] = b /\ t \notin tasks.deleted /\ (t \in tasks.answered \/ t \in calls[u].made)
        BY <1>6, <2>11
      <3>2. CASE t \in calls[u].made
        <4>1. b = w.key /\ t \in DOMAIN w.board.tasks
          BY <1>5, <3>2
        <4> HIDE DEF b
        <4> QED  BY <1>3, <1>4, <1>7, <2>4, <2>6, <3>1, <4>1
      <3>3. CASE t \in tasks.answered
        <4>1. /\ b \in DOMAIN boardFiles
              /\ boardFiles[b].whole => t \in DOMAIN boardFiles[b].board.tasks
              /\ b \in DOMAIN boards => t \in DOMAIN boards[b].tasks
          BY <2>1, <3>1, <3>3 DEF TurnInv
        <4> HIDE DEF b
        <4> QED  BY <1>3, <1>4, <1>7, <2>4, <2>6, <3>1, <4>1
      <3> QED  BY <3>1, <3>2, <3>3
    <2> QED  BY <1>3, <2>4, <2>7, <2>8, <2>9, <2>10, <2>11 DEF TurnInv
  <1> QED  BY <1>8, <1>9

(* A link is made or written, and the boards are left alone.                *)
LEMMA LinkTurn ==
    ASSUME KanbanShape, TurnInv, NEW u \in Users, NEW c, calls' = [calls EXCEPT ![u] = c],
           calls[u].at = "write", ~ForBoard(Head(calls[u].writes)),
           c.at \in {"idle", "write"}, \A b : ~Working(c, b),
           kanbanWay' = kanbanWay, boards' = boards, boardsLoaded' = boardsLoaded,
           boardFiles' = boardFiles, tasks'.on = tasks.on, tasks'.answered = tasks.answered,
           tasks'.deleted = tasks.deleted
    PROVE  TurnInv'
  <1>1. /\ \A v \in Users \ {u} : calls[v].at = "idle"
        /\ calls'[u] = c /\ \A v \in Users \ {u} : calls'[v] = calls[v]
    BY OthersIdle DEF KanbanShape
  <1>2. boardsLoaded
    BY DEF TurnInv
  <1>3. \A v \in Users : \A b : ~Working(calls[v], b)
    BY <1>1 DEF Working
  <1>4. \A v \in Users : \A b : ~Working(calls'[v], b)
    <2>1. ASSUME NEW v \in Users, NEW b
          PROVE  ~Working(calls'[v], b)
      <3>1. CASE v = u
        BY <1>1, <3>1
      <3>2. CASE v # u
        BY <1>1, <1>3, <3>2
      <3> QED  BY <3>1, <3>2
    <2> QED  BY <2>1
  <1>5. \A v \in Users : calls'[v].at \in {"idle", "write"} /\ (v # u => calls'[v].at = "idle")
    BY <1>1
  <1>6. \A b \in DOMAIN boards : InFile(b)
    BY <1>3 DEF TurnInv
  <1>7. \A b \in DOMAIN boards' : InFile(b)'
    BY <1>6 DEF InFile, Alike
  <1>8. \A b \in DOMAIN boardFiles : boardFiles[b].whole => b \in DOMAIN boards
    BY <1>2 DEF TurnInv
  <1>9. \A t \in tasks.answered \ tasks.deleted :
            /\ tasks.on[t] \in DOMAIN boardFiles
            /\ boardFiles[tasks.on[t]].whole => t \in DOMAIN boardFiles[tasks.on[t]].board.tasks
            /\ tasks.on[t] \in DOMAIN boards => t \in DOMAIN boards[tasks.on[t]].tasks
    BY DEF TurnInv
  <1>10. \A v, x \in Users : v # x => calls'[v].at = "idle" \/ calls'[x].at = "idle"
    BY <1>5
  <1> QED  BY <1>2, <1>4, <1>5, <1>7, <1>8, <1>9, <1>10 DEF TurnInv

LEMMA AssociateStep ==
    ASSUME KanbanInv, NEW u \in Users, Associate(u)
    PROVE  KanbanShape' /\ (Patient => TurnInv')
  <1> DEFINE a == LinkWrite("link", tasks.links + 1, Head(calls[u].writes).key)
             c == [calls[u] EXCEPT !.writes = <<a>>]
  <1>1. /\ KanbanShape /\ (Patient => TurnInv) /\ TasksOK(tasks)
        /\ boards \in BoardTables(tasks.boards, Len(tasks.on))
    BY DEF KanbanInv, KanbanShape
  <1>2. /\ calls[u].at = "write" /\ ~ForBoard(Head(calls[u].writes))
        /\ kanbanWay' = kanbanWay /\ boards' = boards /\ boardsLoaded' = boardsLoaded
        /\ boardFiles' = boardFiles
        /\ calls' = [calls EXCEPT ![u] = c] /\ tasks' = [tasks EXCEPT !.links = tasks.links + 1]
    BY <1>1 DEF Associate, ForBoard, KanbanShape
  <1>3. tasks' = [on |-> tasks.on, answered |-> tasks.answered, deleted |-> tasks.deleted,
                  boards |-> tasks.boards, links |-> tasks.links + 1]
    BY <1>1, <1>2 DEF TasksOK
  <1>4. /\ tasks'.on = tasks.on /\ tasks'.answered = tasks.answered /\ tasks'.deleted = tasks.deleted
        /\ tasks'.boards = tasks.boards /\ TasksOK(tasks')
    <2>1. /\ tasks'.on = tasks.on /\ tasks'.answered = tasks.answered /\ tasks'.deleted = tasks.deleted
          /\ tasks'.boards = tasks.boards
          /\ tasks' = [on |-> tasks'.on, answered |-> tasks'.answered, deleted |-> tasks'.deleted,
                       boards |-> tasks'.boards, links |-> tasks'.links]
      BY <1>3, TasksAre
    <2> QED  BY <1>1, <2>1 DEF TasksOK
  <1>5. /\ calls[u].op \in Ops /\ PlanOK(calls[u].writes, calls[u].made, tasks)
        /\ calls[u] = [at |-> calls[u].at, op |-> calls[u].op, left |-> calls[u].left,
                       writes |-> calls[u].writes, made |-> calls[u].made]
    BY <1>1, <1>2 DEF KanbanShape, CallOK
  <1>6. calls[u].made = {}
    <2>1. PlanOK(calls[u].writes, calls[u].made, tasks)
      BY <1>5
    <2>2. \A t \in calls[u].made : ForBoard(Head(calls[u].writes))
      BY ONLY <2>1, PlanHas
    <2>3. ~ForBoard(Head(calls[u].writes))
      BY <1>2
    <2> QED  BY ONLY <2>2, <2>3
  <1> HIDE DEF a
  <1>7. /\ c.at = "write" /\ c.op = calls[u].op /\ c.writes = <<a>> /\ c.made = {}
        /\ c = [at |-> c.at, op |-> c.op, left |-> c.left, writes |-> c.writes, made |-> c.made]
    <2>1. c = [at |-> "write", op |-> calls[u].op, left |-> calls[u].left, writes |-> <<a>>, made |-> {}]
      BY <1>2, <1>5, <1>6
    <2> HIDE DEF c
    <2> QED  BY <2>1, CallIs
  <1> HIDE DEF c
  <1>8. ~ForBoard(a)
    BY LinkWriteIs DEF a
  <1>9. Head(c.writes) = a
    BY <1>7
  <1>10. \A b : ~Working(c, b)
    BY <1>8, <1>9 DEF Working
  <1>11. CallOK(c, tasks')
    <2>1. PlanOK(<<a>>, {}, tasks')
      BY <1>8 DEF PlanOK
    <2> QED  BY <1>7, <2>1 DEF CallOK
  <1>12. Silent(u, c)
    BY <1>2, <1>4 DEF Silent
  <1>13. KanbanShape'
    BY <1>1, <1>2, <1>5, <1>7, <1>11, <1>12, SilentShape
  <1>14. Patient => TurnInv'
    BY <1>1, <1>2, <1>4, <1>7, <1>10, LinkTurn
  <1> QED  BY <1>13, <1>14

LEMMA PutLinkStep ==
    ASSUME KanbanInv, NEW u \in Users, PutLink(u)
    PROVE  KanbanShape' /\ (Patient => TurnInv')
  <1> DEFINE c == AfterWrite(calls[u])
  <1>1. /\ KanbanShape /\ (Patient => TurnInv) /\ TasksOK(tasks)
        /\ boards \in BoardTables(tasks.boards, Len(tasks.on))
    BY DEF KanbanInv, KanbanShape
  <1>2. /\ calls[u].at = "write" /\ ~ForBoard(Head(calls[u].writes)) /\ Written(u)
        /\ kanbanWay' = kanbanWay /\ boards' = boards /\ boardsLoaded' = boardsLoaded
        /\ boardFiles' = boardFiles
    BY DEF PutLink, ForBoard
  <1>3. /\ calls' = [calls EXCEPT ![u] = c]
        /\ TasksOK(tasks') /\ Grown(tasks, tasks')
        /\ tasks'.on = tasks.on /\ tasks'.deleted = tasks.deleted /\ tasks'.boards = tasks.boards
        /\ tasks.answered \subseteq tasks'.answered
        /\ tasks'.answered \subseteq tasks.answered \cup calls[u].made
        /\ c.at \in {"idle", "write"} /\ c.op \in Ops /\ CallOK(c, tasks) /\ \A b : ~Working(c, b)
    BY <1>1, <1>2, WrittenIs
  <1> HIDE DEF c
  <1>4. calls[u].made = {}
    <2>1. PlanOK(calls[u].writes, calls[u].made, tasks)
      BY <1>1, <1>2 DEF KanbanShape, CallOK
    <2>2. \A t \in calls[u].made : ForBoard(Head(calls[u].writes))
      BY ONLY <2>1, PlanHas
    <2>3. ~ForBoard(Head(calls[u].writes))
      BY <1>2
    <2> QED  BY ONLY <2>2, <2>3
  <1>5. tasks'.answered = tasks.answered
    BY <1>3, <1>4
  <1>6. CallOK(c, tasks') /\ c.at \notin {"boards", "put"}
    BY <1>1, <1>3, CallStays
  <1>7. Silent(u, c)
    BY <1>2, <1>3, <1>5 DEF Silent
  <1>8. KanbanShape'
    BY <1>1, <1>2, <1>3, <1>6, <1>7, SilentShape
  <1>9. Patient => TurnInv'
    BY <1>1, <1>2, <1>3, <1>5, LinkTurn
  <1> QED  BY <1>8, <1>9

LEMMA NoTables ==
    ASSUME NEW k, NEW N
    PROVE  <<>> \in BoardTables(k, N) /\ DOMAIN <<>> = {}
  <1>1. <<>> \in [{} -> GoodBoards(N)]
    OBVIOUS
  <1> QED  BY <1>1, IsPartial DEF BoardTables

LEMMA IdleOK ==
    ASSUME NEW ts
    PROVE  /\ CallOK(Idle, ts) /\ Idle.at = "idle" /\ Idle.op \in Ops
           /\ \A b : ~Working(Idle, b)
  BY DEF Idle, CallOK, Working, Ops, Reads

LEMMA KanbanRestarts ==
    ASSUME KanbanInv, RestartKanban
    PROVE  KanbanShape' /\ (Patient => TurnInv')
  <1>1. /\ KanbanShape /\ (Patient => TurnInv)
    BY DEF KanbanInv
  <1>2. /\ boards' = <<>> /\ boardsLoaded' = FALSE /\ calls' = [v \in Users |-> Idle]
        /\ kanbanWay' = kanbanWay /\ boardFiles' = boardFiles /\ tasks' = tasks
    BY DEF RestartKanban
  <1>3. \A v \in Users : calls'[v] = Idle
    BY <1>2
  <1>4. DOMAIN boards' = {}
    BY <1>2, NoTables
  <1>5. KanbanShape'
    <2>1. /\ boards' \in BoardTables(tasks'.boards, Len(tasks'.on)) /\ TasksOK(tasks')
          /\ boardFiles' \in FileTables(tasks'.boards, Len(tasks'.on))
      BY <1>1, <1>2, NoTables DEF KanbanShape
    <2>2. Ops' = Ops
      BY <1>2 DEF Ops
    <2>3. ASSUME NEW v \in Users
          PROVE  /\ CallOK(calls'[v], tasks') /\ calls'[v].op \in Ops'
                 /\ calls'[v].at = "idle"
      BY <1>3, <2>2, IdleOK
    <2>4. calls' = [v \in Users |-> calls'[v]]
      BY <1>2
    <2> QED  BY <2>1, <2>3, <2>4 DEF KanbanShape
  <1>6. ASSUME Patient
        PROVE  TurnInv'
    <2>1. \A v \in Users : calls'[v].at = "idle" /\ \A b : ~Working(calls'[v], b)
      BY <1>3, IdleOK
    <2>2. \A t \in tasks.answered \ tasks.deleted :
              /\ tasks.on[t] \in DOMAIN boardFiles
              /\ boardFiles[tasks.on[t]].whole => t \in DOMAIN boardFiles[tasks.on[t]].board.tasks
      BY <1>1, <1>6 DEF TurnInv
    <2> QED  BY <1>2, <1>4, <2>1, <2>2 DEF TurnInv
  <1> QED  BY <1>5, <1>6

LEMMA KanbanStarts == KanbanInit => KanbanInv
  <1> SUFFICES ASSUME KanbanInit
               PROVE  KanbanInv
    OBVIOUS
  <1> DEFINE file == [whole |-> TRUE, board |-> EmptyBoard]
  <1>1. /\ boards = <<>> /\ boardsLoaded = FALSE /\ boardFiles = <<file>>
        /\ calls = [v \in Users |-> Idle]
        /\ tasks = [on |-> <<>>, answered |-> {}, deleted |-> {}, boards |-> 1,
                    links |-> Cardinality(Users)]
    BY DEF KanbanInit
  <1>2. /\ tasks.on = <<>> /\ tasks.answered = {} /\ tasks.deleted = {} /\ tasks.boards = 1
        /\ tasks = [on |-> tasks.on, answered |-> tasks.answered, deleted |-> tasks.deleted,
                    boards |-> tasks.boards, links |-> tasks.links]
    BY <1>1, TasksAre
  <1>3. Len(tasks.on) = 0 /\ tasks.on \in Seq(Nat)
    BY <1>2
  <1>4. TasksOK(tasks)
    BY <1>2, <1>3 DEF TasksOK
  <1>5. file \in Files(0)
    BY EmptyBoardGood DEF Files
  <1> HIDE DEF file
  <1>6. boardFiles \in FileTables(1, 0) /\ DOMAIN boardFiles = {1}
    <2>1. DOMAIN <<file>> = {1} /\ <<file>> \in [{1} -> Files(0)] /\ {1} \in SUBSET (1..1)
      BY <1>5
    <2> QED  BY <1>1, <2>1, IsPartial DEF FileTables
  <1>7. boards \in BoardTables(1, 0) /\ DOMAIN boards = {}
    BY <1>1, NoTables
  <1>8. \A v \in Users : calls[v] = Idle
    BY <1>1
  <1>9. \A v \in Users : /\ CallOK(calls[v], tasks) /\ calls[v].op \in Ops /\ calls[v].at = "idle"
                         /\ \A b : ~Working(calls[v], b)
    BY <1>8, IdleOK
  <1>10. KanbanShape
    BY <1>1, <1>2, <1>3, <1>4, <1>6, <1>7, <1>9 DEF KanbanShape
  <1>11. TurnInv
    BY <1>1, <1>2, <1>7, <1>9 DEF TurnInv
  <1> QED  BY <1>10, <1>11 DEF KanbanInv

LEMMA KanbanAlways == KanbanSpec => []KanbanInv
  <1>1. KanbanInv /\ [KanbanNext]_kanbanVars => KanbanInv'
    <2> SUFFICES ASSUME KanbanInv, [KanbanNext]_kanbanVars
                 PROVE  KanbanInv'
      OBVIOUS
    <2>1. KanbanShape /\ (Patient => TurnInv)
      BY DEF KanbanInv
    <2>2. CASE KanbanNext
      <3>1. kanbanWay' = kanbanWay
        <4>1. ASSUME NEW u, NEW op, NEW bs, NEW ls, Perform(u, op, bs, ls)
              PROVE  kanbanWay' = kanbanWay
          BY <4>1 DEF Perform
        <4>2. ASSUME NEW u \in Users, NEW op, CallTool(u, op)
              PROVE  kanbanWay' = kanbanWay
          BY <4>1, <4>2 DEF CallTool
        <4>3. ASSUME NEW u \in Users, LoadBoard(u)
              PROVE  kanbanWay' = kanbanWay
          <5>1. PICK b \in calls[u].left :
                    \/ \E op, bs, ls : Perform(u, op, bs, ls)
                    \/ kanbanWay' = kanbanWay
            BY <4>3 DEF LoadBoard
          <5> QED  BY <4>1, <5>1
        <4>4. ASSUME NEW u \in Users, LoadLink(u)
              PROVE  kanbanWay' = kanbanWay
          <5>1. PICK l \in calls[u].left :
                    \/ \E op, bs, ls : Perform(u, op, bs, ls)
                    \/ kanbanWay' = kanbanWay
            BY <4>4 DEF LoadLink
          <5> QED  BY <4>1, <5>1
        <4>5. ASSUME NEW u \in Users, OpenBoard(u) \/ PutBoard(u) \/ Associate(u) \/ PutLink(u)
              PROVE  kanbanWay' = kanbanWay
          BY <4>5 DEF OpenBoard, PutBoard, Associate, PutLink
        <4> QED  BY <2>2, <4>2, <4>3, <4>4, <4>5 DEF KanbanNext, RestartKanban
      <3>2. KanbanShape' /\ (Patient => TurnInv')
        BY <2>2, CallToolStep, LoadBoardStep, LoadLinkStep, OpenBoardStep, PutBoardStep, AssociateStep,
           PutLinkStep, KanbanRestarts DEF KanbanNext
      <3> QED  BY <3>1, <3>2 DEF KanbanInv, Patient
    <2>3. CASE UNCHANGED kanbanVars
      BY <2>1, <2>3 DEF kanbanVars, KanbanInv, KanbanShape, TurnInv, Patient, Ops, InFile, Alike
    <2> QED  BY <2>2, <2>3
  <1> QED  BY <1>1, KanbanStarts, PTL DEF KanbanSpec

(* Boards are sound and keep the tasks the users were told of, in memory    *)
(* and in their files, whatever number of sessions, boards and tasks there  *)
(* is (KanbanManager and its tools; plugins/storage.py).                    *)
THEOREM TasksKeptCorrect == KanbanSpec => []TasksKept
  <1>1. KanbanInv => TasksKept
    <2> SUFFICES ASSUME KanbanInv
                 PROVE  TasksKept
      OBVIOUS
    <2>1. /\ KanbanShape /\ (Patient => TurnInv)
          /\ boards \in BoardTables(tasks.boards, Len(tasks.on))
          /\ boardFiles \in FileTables(tasks.boards, Len(tasks.on))
      BY DEF KanbanInv, KanbanShape
    <2>2. \A b \in DOMAIN boardFiles : boardFiles[b] \in Files(Len(tasks.on))
      BY <2>1, FileTableHas
    <2>3. BoardsSound
      <3>1. \A b \in DOMAIN boards : Sound(boards[b])
        BY <2>1, TableHas DEF GoodBoards
      <3>2. \A b \in DOMAIN boardFiles : Sound(boardFiles[b].board)
        BY <2>2 DEF Files, GoodBoards
      <3> QED  BY <3>1, <3>2 DEF BoardsSound
    <2>4. TasksSurvive
      <3> SUFFICES ASSUME Patient, NEW t \in tasks.answered \ tasks.deleted,
                          boardFiles[tasks.on[t]].whole
                   PROVE  /\ t \in DOMAIN boardFiles[tasks.on[t]].board.tasks
                          /\ boardsLoaded => /\ tasks.on[t] \in DOMAIN boards
                                             /\ t \in DOMAIN boards[tasks.on[t]].tasks
        BY DEF TasksSurvive
      <3>1. TurnInv
        BY <2>1
      <3> QED  BY <3>1 DEF TurnInv
    <2>5. AutoSavedInTurn
      <3> SUFFICES ASSUME kanbanWay \cap {"early", "overlap", "wrong"} = {}, Resting, NEW b \in DOMAIN boards
                   PROVE  boardFiles[b] = [whole |-> TRUE, board |-> boards[b]]
        BY DEF AutoSavedInTurn, AutoSaved
      <3>1. TurnInv /\ "wrong" \notin kanbanWay
        BY <2>1 DEF Patient
      <3>2. \A v \in Users : ~Working(calls[v], b)
        BY DEF Resting, Working
      <3>3. b \in DOMAIN boardFiles /\ boardFiles[b].whole /\ boardFiles[b].board = boards[b]
        BY <3>1, <3>2 DEF TurnInv, InFile, Alike
      <3> QED  BY <2>2, <3>3 DEF Files
    <2> QED  BY <2>3, <2>4, <2>5 DEF TasksKept
  <1> QED  BY <1>1, KanbanAlways, PTL

-----------------------------------------------------------------------------
(* The chess domain                                                         *)

Pieces == [side : Sides, type : PieceTypes]
BoardOK(b) == \A s \in DOMAIN b : s \in Squares /\ b[s] \in Pieces

Directions == Straight \cup Diagonal
Back(d) == <<-d[1], -d[2]>>

LEMMA SquareIs ==
    ASSUME NEW s \in Squares
    PROVE  s = <<s[1], s[2]>> /\ s[1] \in 0..7 /\ s[2] \in 0..7 /\ On(s)
  BY DEF Squares, On

LEMMA OnIsSquare ==
    ASSUME NEW i \in Int, NEW j \in Int, On(<<i, j>>)
    PROVE  <<i, j>> \in Squares
  BY DEF Squares, On

LEMMA DirectionIs ==
    ASSUME NEW d \in Directions
    PROVE  /\ d[1] \in {-1, 0, 1} /\ d[2] \in {-1, 0, 1}
           /\ Back(d) \in Directions
           /\ d \in Straight => Back(d) \in Straight
           /\ d \in Diagonal => Back(d) \in Diagonal
  BY DEF Directions, Straight, Diagonal, Back

LEMMA LeapIs ==
    ASSUME NEW d \in Leaps
    PROVE  d[1] \in Int /\ d[2] \in Int /\ Back(d) \in Leaps
  BY DEF Leaps, Back

LEMMA Times ==
    ASSUME NEW e \in {-1, 0, 1}, NEW n \in Int
    PROVE  n * e = IF e = 0 THEN 0 ELSE IF e = 1 THEN n ELSE -n
  OBVIOUS

(* From where a piece has come the same way leads back.                     *)
LEMMA OneBack ==
    ASSUME NEW s \in Squares, NEW d, d[1] \in Int, d[2] \in Int, NEW t, t = Shift(s, d, 1)
    PROVE  t = <<s[1] + d[1], s[2] + d[2]>> /\ Shift(t, Back(d), 1) = s
  <1>1. s = <<s[1], s[2]>> /\ s[1] \in Int /\ s[2] \in Int
    BY SquareIs
  <1>2. t = <<s[1] + d[1], s[2] + d[2]>>
    BY <1>1 DEF Shift
  <1>3. Shift(<<s[1] + d[1], s[2] + d[2]>>, <<-d[1], -d[2]>>, 1) = <<s[1], s[2]>>
    BY <1>1 DEF Shift
  <1> QED  BY <1>1, <1>2, <1>3 DEF Back

LEMMA RayBack ==
    ASSUME NEW b, NEW s \in Squares, NEW d \in Directions, NEW n \in Ray(b, s, d),
           NEW t, t = Shift(s, d, n)
    PROVE  /\ t \in Squares /\ n \in Ray(b, t, Back(d)) /\ Shift(t, Back(d), n) = s
  <1>1. /\ s = <<s[1], s[2]>> /\ s[1] \in 0..7 /\ s[2] \in 0..7 /\ On(s)
        /\ d[1] \in {-1, 0, 1} /\ d[2] \in {-1, 0, 1}
    BY SquareIs, DirectionIs
  <1>2. n \in 1..7 /\ On(t) /\ \A k \in 1..(n - 1) : Empty(b, Shift(s, d, k))
    BY DEF Ray
  <1>3. t = <<s[1] + n * d[1], s[2] + n * d[2]>>
    BY DEF Shift
  <1>4. n * d[1] \in Int /\ n * d[2] \in Int
    <2>1. n \in Int
      BY <1>2
    <2>2. \A e \in {-1, 0, 1} : n * e \in Int
      BY <2>1
    <2> QED  BY <1>1, <2>2
  <1>5. t \in Squares
    BY <1>1, <1>2, <1>3, <1>4, OnIsSquare
  <1>6. ASSUME NEW k \in 1..n
        PROVE  Shift(t, Back(d), k) = Shift(s, d, n - k)
    <2>1. /\ k * (-d[1]) = -(k * d[1]) /\ k * (-d[2]) = -(k * d[2])
          /\ (n - k) * d[1] = n * d[1] - k * d[1] /\ (n - k) * d[2] = n * d[2] - k * d[2]
          /\ k * d[1] \in Int /\ k * d[2] \in Int
      <3>1. k \in Int /\ n \in Int /\ n - k \in Int
        BY <1>2
      <3>2. \A e \in {-1, 0, 1} : /\ k * (-e) = -(k * e) /\ (n - k) * e = n * e - k * e
                                  /\ k * e \in Int
        BY <3>1
      <3> QED  BY <1>1, <3>2
    <2>2. Shift(t, Back(d), k) = <<s[1] + n * d[1] + k * (-d[1]), s[2] + n * d[2] + k * (-d[2])>>
      BY <1>3 DEF Shift, Back
    <2>3. Shift(s, d, n - k) = <<s[1] + (n - k) * d[1], s[2] + (n - k) * d[2]>>
      BY DEF Shift
    <2> QED  BY <1>1, <1>4, <2>1, <2>2, <2>3
  <1>7. Shift(t, Back(d), n) = s
    <2>1. n \in 1..n /\ n - n = 0
      BY <1>2
    <2>2. Shift(s, d, 0) = <<s[1], s[2]>>
      <3>1. 0 * d[1] = 0 /\ 0 * d[2] = 0
        BY <1>1
      <3> QED  BY <1>1, <3>1 DEF Shift
    <2>3. Shift(t, Back(d), n) = Shift(s, d, n - n)
      BY <1>6, <2>1
    <2> QED  BY <1>1, <2>1, <2>2, <2>3
  <1>8. ASSUME NEW k \in 1..(n - 1)
        PROVE  Empty(b, Shift(t, Back(d), k))
    <2>1. k \in 1..n /\ n - k \in 1..(n - 1)
      BY <1>2
    <2> QED  BY <1>2, <1>6, <2>1
  <1> QED  BY <1>1, <1>2, <1>5, <1>7, <1>8 DEF Ray


-----------------------------------------------------------------------------
(* What is struck is attacked                                               *)

Promotable(m) == m.promotion \in Promotions \cup {""}
Plain(m) == m.promotion = ""

LEMMA PlainIsPromotable ==
    ASSUME NEW m, Plain(m)
    PROVE  Promotable(m)
  BY DEF Plain, Promotable

LEMMA Sides2 ==
    ASSUME NEW side \in Sides
    PROVE  /\ Opposite(side) \in Sides /\ Opposite(side) # side /\ Opposite(Opposite(side)) = side
           /\ Forward(side) \in {-1, 1} /\ Forward(Opposite(side)) = -Forward(side)
  BY DEF Sides, Opposite, Forward

LEMMA KnightStrikes ==
    ASSUME NEW g, BoardOK(g.board), NEW s \in DOMAIN g.board, NEW side,
           Is(g.board, s, side, {"knight"}), NEW m \in KnightMoves(g, s, side)
    PROVE  m.from = s /\ Plain(m) /\ m.to \in Squares /\ IsAttacked(g.board, m.to, side)
  <1>1. PICK d \in Leaps : m = Move(s, Shift(s, d, 1), "") /\ On(Shift(s, d, 1))
    BY DEF KnightMoves, Steps, Open
  <1>2. s \in Squares /\ d[1] \in Int /\ d[2] \in Int /\ Back(d) \in Leaps
    BY LeapIs DEF BoardOK
  <1>3. m.from = s /\ m.to = Shift(s, d, 1) /\ Plain(m)
    BY <1>1 DEF Move, Plain
  <1>4. Shift(s, d, 1) = <<s[1] + d[1], s[2] + d[2]>> /\ Shift(m.to, Back(d), 1) = s
    BY <1>2, <1>3, OneBack
  <1>5. Is(g.board, Shift(m.to, Back(d), 1), side, {"knight"})
    BY <1>4
  <1>6. m.to \in Squares
    <2>1. s[1] + d[1] \in Int /\ s[2] + d[2] \in Int
      BY <1>2, SquareIs
    <2> QED  BY <1>1, <1>3, <1>4, <2>1, OnIsSquare
  <1> QED  BY <1>2, <1>3, <1>5, <1>6 DEF IsAttacked

LEMMA SliderStrikes ==
    ASSUME NEW g, BoardOK(g.board), NEW s \in DOMAIN g.board, NEW side, NEW directions,
           \/ directions = Straight /\ Is(g.board, s, side, {"rook", "queen"})
           \/ directions = Diagonal /\ Is(g.board, s, side, {"bishop", "queen"})
           \/ directions = Straight \cup Diagonal /\ Is(g.board, s, side, {"queen"}),
           NEW m \in SlidingMoves(g, s, side, directions)
    PROVE  m.from = s /\ Plain(m) /\ m.to \in Squares /\ IsAttacked(g.board, m.to, side)
  <1>1. PICK d \in directions : \E n \in Ray(g.board, s, d) : m = Move(s, Shift(s, d, n), "")
    BY DEF SlidingMoves, Steps
  <1>n. PICK n \in Ray(g.board, s, d) : m = Move(s, Shift(s, d, n), "")
    BY <1>1
  <1>r. n \in Ray(g.board, s, d)
    BY <1>n
  <1>2. m.from = s /\ m.to = Shift(s, d, n) /\ Plain(m)
    BY <1>n DEF Move, Plain
  <1>3. s \in Squares /\ d \in Directions
    BY DEF BoardOK, Directions
  <1>4. /\ m.to \in Squares /\ n \in Ray(g.board, m.to, Back(d))
        /\ Shift(m.to, Back(d), n) = s
    BY <1>r, <1>2, <1>3, RayBack
  <1>5. \/ d \in Straight /\ Is(g.board, s, side, {"rook", "queen"})
        \/ d \in Diagonal /\ Is(g.board, s, side, {"bishop", "queen"})
    BY DEF Is
  <1>6. /\ d \in Straight => Back(d) \in Straight
        /\ d \in Diagonal => Back(d) \in Diagonal
    BY <1>3, DirectionIs
  <1> QED  BY <1>2, <1>4, <1>5, <1>6 DEF IsAttacked

LEMMA KingStrikes ==
    ASSUME NEW g, BoardOK(g.board), NEW s \in DOMAIN g.board, NEW side \in Sides,
           Is(g.board, s, side, {"king"}), NEW m \in KingMoves(g, s, side)
    PROVE  /\ m.from = s /\ Plain(m) /\ m.to \in Squares
           /\ IsAttacked(g.board, m.to, side) \/ Empty(g.board, m.to)
  <1>1. CASE m \in Castlings(g, s, side)
    <2>1. PICK file \in {2, 6} :
              /\ m = Move(s, <<file, IF side = "white" THEN 0 ELSE 7>>, "")
              /\ Empty(g.board, <<file, IF side = "white" THEN 0 ELSE 7>>)
      BY <1>1 DEF Castlings, Steps
    <2>2. <<file, IF side = "white" THEN 0 ELSE 7>> \in Squares
      BY DEF Squares
    <2> QED  BY <2>1, <2>2 DEF Move, Plain
  <1>2. CASE m \in Steps(s, {t \in {Shift(s, d, 1) : d \in Straight \cup Diagonal} : Open(g.board, side, t)})
    <2>1. PICK d \in Straight \cup Diagonal : m = Move(s, Shift(s, d, 1), "") /\ On(Shift(s, d, 1))
      BY <1>2 DEF Steps, Open
    <2>2. /\ s \in Squares /\ d[1] \in Int /\ d[2] \in Int
          /\ Back(d) \in Straight \cup Diagonal
      BY DirectionIs DEF BoardOK, Directions
    <2>3. m.from = s /\ m.to = Shift(s, d, 1) /\ Plain(m)
      BY <2>1 DEF Move, Plain
    <2>4. Shift(s, d, 1) = <<s[1] + d[1], s[2] + d[2]>> /\ Shift(m.to, Back(d), 1) = s
      BY <2>2, <2>3, OneBack
    <2>5. Is(g.board, Shift(m.to, Back(d), 1), side, {"king"})
      BY <2>4
    <2>6. m.to \in Squares
      <3>1. s[1] + d[1] \in Int /\ s[2] + d[2] \in Int
        BY <2>2, SquareIs
      <3> QED  BY <2>1, <2>3, <2>4, <3>1, OnIsSquare
    <2> QED  BY <2>2, <2>3, <2>5, <2>6 DEF IsAttacked
  <1> QED  BY <1>1, <1>2 DEF KingMoves

(* A pawn goes one rank on, or two over an empty square.                    *)
PawnGoes(g, s, side, m) ==
    \/ m.to[2] = s[2] + Forward(side)
    \/ /\ m.to = <<s[1], s[2] + 2 * Forward(side)>> /\ Plain(m)
       /\ Empty(g.board, <<s[1], s[2] + Forward(side)>>)
       /\ <<s[1], s[2] + Forward(side)>> \in Squares

LEMMA PawnStrikes ==
    ASSUME NEW g, BoardOK(g.board), NEW s \in DOMAIN g.board, NEW side \in Sides,
           Is(g.board, s, side, {"pawn"}), NEW m \in PawnMoves(g, s, side)
    PROVE  /\ m.from = s /\ Promotable(m) /\ m.to \in Squares
           /\ IsAttacked(g.board, m.to, side) \/ Empty(g.board, m.to)
           /\ PawnGoes(g, s, side, m)
  <1> DEFINE one == <<s[1], s[2] + Forward(side)>>
             two == <<s[1], s[2] + 2 * Forward(side)>>
             takes == {t \in {<<s[1] + f, one[2]>> : f \in {-1, 1}} :
                         On(t) /\ (Is(g.board, t, Opposite(side), PieceTypes) \/ t \in g.enPassant)}
             pushes == IF ~On(one) \/ ~Empty(g.board, one) THEN {}
                       ELSE {one} \cup (IF s[2] = (IF side = "white" THEN 1 ELSE 6)
                                           /\ Empty(g.board, two) THEN {two} ELSE {})
  <1>1. s \in Squares /\ s = <<s[1], s[2]>> /\ s[1] \in 0..7 /\ s[2] \in 0..7 /\ Forward(side) \in {-1, 1}
    BY SquareIs, Sides2 DEF BoardOK
  <1>m. PawnMoves(g, s, side) =
            IF one[2] = (IF side = "white" THEN 7 ELSE 0)
            THEN {Move(s, t, p) : t \in takes \cup pushes, p \in Promotions}
            ELSE Steps(s, takes \cup pushes)
    BY DEF PawnMoves
  <1>2. PICK t \in takes \cup pushes :
            /\ m.from = s /\ m.to = t /\ Promotable(m)
            /\ s[2] + Forward(side) # (IF side = "white" THEN 7 ELSE 0) => Plain(m)
    <2> HIDE DEF takes, pushes
    <2>1. CASE s[2] + Forward(side) = (IF side = "white" THEN 7 ELSE 0)
      <3>1. m \in {Move(s, t, p) : t \in takes \cup pushes, p \in Promotions}
        BY <1>m, <2>1
      <3>2. PICK t \in takes \cup pushes : \E p \in Promotions : m = Move(s, t, p)
        BY <3>1
      <3>3. PICK p \in Promotions : m = Move(s, t, p)
        BY <3>2
      <3>4. m.from = s /\ m.to = t /\ m.promotion = p
        BY <3>3 DEF Move
      <3>5. Promotable(m)
        BY <3>3, <3>4 DEF Promotable
      <3> QED  BY <2>1, <3>2, <3>4, <3>5
    <2>2. CASE s[2] + Forward(side) # (IF side = "white" THEN 7 ELSE 0)
      <3>1. m \in Steps(s, takes \cup pushes)
        BY <1>m, <2>2
      <3>2. PICK t \in takes \cup pushes : m = Move(s, t, "")
        BY <3>1 DEF Steps
      <3> QED  BY <2>2, <3>2 DEF Move, Promotable, Plain
    <2> QED  BY <2>1, <2>2
  <1>3. CASE t \in takes
    <2>1. PICK f \in {-1, 1} : t = <<s[1] + f, s[2] + Forward(side)>> /\ On(t)
      BY <1>3
    <2>2. t \in Squares /\ t[1] = s[1] + f /\ t[2] = s[2] + Forward(side)
      BY <1>1, <2>1, OnIsSquare
    <2>3. <<t[1] + (-f), t[2] - Forward(side)>> = s /\ -f \in {-1, 1}
      BY <1>1, <2>2
    <2>4. IsAttacked(g.board, t, side)
      BY <2>3 DEF IsAttacked
    <2> QED  BY <1>2, <2>2, <2>4 DEF PawnGoes
  <1>4. CASE t \in pushes /\ t # two
    <2>1. t = one /\ On(one) /\ Empty(g.board, one)
      BY <1>4
    <2>2. one \in Squares
      BY <1>1, <2>1, OnIsSquare
    <2> QED  BY <1>1, <1>2, <2>1, <2>2 DEF PawnGoes
  <1>5. CASE t \in pushes /\ t = two
    <2>1. two # one
      BY <1>1
    <2>2. /\ On(one) /\ Empty(g.board, one) /\ Empty(g.board, two)
          /\ s[2] = (IF side = "white" THEN 1 ELSE 6)
      BY <1>5, <2>1
    <2>3. /\ one \in Squares
          /\ two \in Squares
          /\ s[2] + Forward(side) # (IF side = "white" THEN 7 ELSE 0)
      <3>1. s[2] + 2 * Forward(side) \in 0..7 /\ s[2] + Forward(side) # (IF side = "white" THEN 7 ELSE 0)
        BY <2>2 DEF Forward, Sides
      <3>2. two \in Squares
        BY <1>1, <3>1 DEF Squares
      <3>3. one \in Squares
        BY <1>1, <2>2, OnIsSquare
      <3> QED  BY <3>1, <3>2, <3>3
    <2> QED  BY <1>2, <1>5, <2>2, <2>3 DEF PawnGoes
  <1> QED  BY <1>2, <1>3, <1>4, <1>5

(* Wherever a piece can go, it attacks what stands there.                   *)
LEMMA Strikes ==
    ASSUME NEW g, BoardOK(g.board), NEW s \in DOMAIN g.board, NEW m \in PseudoMoves(g, s)
    PROVE  /\ m.from = s /\ Promotable(m) /\ m.to \in Squares
           /\ g.board[s].type # "pawn" => Plain(m)
           /\ IsAttacked(g.board, m.to, g.board[s].side) \/ Empty(g.board, m.to)
  <1> DEFINE p == g.board[s]
  <1>1. p.side \in Sides /\ p.type \in PieceTypes
    BY DEF BoardOK, Pieces
  <1>2. \A types : p.type \in types => Is(g.board, s, p.side, types)
    BY DEF Is
  <1>3. CASE p.type = "pawn"
    <2>1. m \in PawnMoves(g, s, p.side) /\ Is(g.board, s, p.side, {"pawn"})
      BY <1>2, <1>3 DEF PseudoMoves
    <2>2. /\ m.from = s /\ Promotable(m) /\ m.to \in Squares
          /\ IsAttacked(g.board, m.to, p.side) \/ Empty(g.board, m.to)
      BY <1>1, <2>1, PawnStrikes
    <2> QED  BY <1>3, <2>2
  <1>4. CASE p.type = "knight"
    <2>1. m \in KnightMoves(g, s, p.side) /\ Is(g.board, s, p.side, {"knight"})
      BY <1>2, <1>4 DEF PseudoMoves
    <2> QED  BY <1>4, <2>1, PlainIsPromotable, KnightStrikes
  <1>5. CASE p.type = "bishop"
    <2>1. m \in SlidingMoves(g, s, p.side, Diagonal) /\ Is(g.board, s, p.side, {"bishop", "queen"})
      BY <1>2, <1>5 DEF PseudoMoves
    <2> QED  BY <1>5, <2>1, PlainIsPromotable, SliderStrikes
  <1>6. CASE p.type = "rook"
    <2>1. m \in SlidingMoves(g, s, p.side, Straight) /\ Is(g.board, s, p.side, {"rook", "queen"})
      BY <1>2, <1>6 DEF PseudoMoves
    <2> QED  BY <1>6, <2>1, PlainIsPromotable, SliderStrikes
  <1>7. CASE p.type = "queen"
    <2>1. m \in SlidingMoves(g, s, p.side, Straight \cup Diagonal) /\ Is(g.board, s, p.side, {"queen"})
      BY <1>2, <1>7 DEF PseudoMoves
    <2> QED  BY <1>7, <2>1, PlainIsPromotable, SliderStrikes
  <1>8. CASE p.type = "king"
    <2>1. m \in KingMoves(g, s, p.side) /\ Is(g.board, s, p.side, {"king"})
      BY <1>2, <1>8 DEF PseudoMoves
    <2> QED  BY <1>1, <1>8, <2>1, PlainIsPromotable, KingStrikes
  <1> QED  BY <1>1, <1>3, <1>4, <1>5, <1>6, <1>7, <1>8 DEF PieceTypes

-----------------------------------------------------------------------------
(* Positions in which no king can be taken                                  *)

Safe(g) ==
    /\ BoardOK(g.board) /\ g.turn \in Sides /\ g.enPassant \subseteq Squares
    /\ Passing(g) /\ ~InCheck(g.board, Opposite(g.turn))

(* Whose turn it is cannot take the king.                                   *)
LEMMA NoKingTaken ==
    ASSUME NEW g, Safe(g), NEW s \in Of(g.board, g.turn, PieceTypes), NEW m \in PseudoMoves(g, s)
    PROVE  ~Is(g.board, m.to, Opposite(g.turn), {"king"})
  <1>1. s \in DOMAIN g.board /\ g.board[s].side = g.turn
    BY DEF Of
  <1>2. IsAttacked(g.board, m.to, g.board[s].side) \/ Empty(g.board, m.to)
    BY <1>1, Strikes DEF Safe
  <1>3. SUFFICES ASSUME Is(g.board, m.to, Opposite(g.turn), {"king"})
                 PROVE  FALSE
    OBVIOUS
  <1>4. m.to \in Of(g.board, Opposite(g.turn), {"king"}) /\ ~Empty(g.board, m.to)
    BY <1>3 DEF Is, Of, Empty
  <1>5. IsAttacked(g.board, m.to, Opposite(Opposite(g.turn)))
    BY <1>1, <1>2, <1>4, Sides2 DEF Safe
  <1> QED  BY <1>4, <1>5 DEF Safe, InCheck

LEMMA ClearedOK ==
    ASSUME NEW b, BoardOK(b), NEW S
    PROVE  /\ BoardOK(Cleared(b, S)) /\ DOMAIN Cleared(b, S) = DOMAIN b \ S
           /\ \A s \in DOMAIN b \ S : Cleared(b, S)[s] = b[s]
  BY DEF BoardOK, Cleared, Pieces

LEMMA EnteredOK ==
    ASSUME NEW b, BoardOK(b), NEW s \in Squares, NEW p \in Pieces
    PROVE  BoardOK(Entered(b, s, p))
  BY DEF BoardOK, Entered

LEMMA EnteredIs ==
    ASSUME NEW b, NEW s, NEW p
    PROVE  /\ DOMAIN Entered(b, s, p) = DOMAIN b \cup {s} /\ Entered(b, s, p)[s] = p
           /\ \A t \in DOMAIN b \ {s} : Entered(b, s, p)[t] = b[t]
  BY DEF Entered

LEMMA RookMovedOK ==
    ASSUME NEW b, BoardOK(b), NEW m, m.from \in Squares
    PROVE  BoardOK(RookMoved(b, m))
  <1> DEFINE right == m.to[1] > m.from[1]
             corner == <<IF right THEN 7 ELSE 0, m.from[2]>>
             beside == <<IF right THEN 5 ELSE 3, m.from[2]>>
  <1>1. RookMoved(b, m) = IF Empty(b, corner) THEN Cleared(b, {beside})
                          ELSE Entered(Cleared(b, {corner}), beside, b[corner])
    BY DEF RookMoved
  <1>2. beside \in Squares
    BY DEF Squares
  <1> HIDE DEF corner, beside
  <1>3. ~Empty(b, corner) => b[corner] \in Pieces
    BY DEF Empty, BoardOK
  <1>c. \A S : BoardOK(Cleared(b, S))
    BY ClearedOK
  <1>4. CASE Empty(b, corner)
    BY <1>1, <1>4, <1>c
  <1>5. CASE ~Empty(b, corner)
    <2>1. BoardOK(Cleared(b, {corner}))
      BY <1>c
    <2>2. BoardOK(Entered(Cleared(b, {corner}), beside, b[corner]))
      BY <1>2, <1>3, <1>5, <2>1, EnteredOK
    <2> QED  BY <1>1, <1>5, <2>2
  <1> QED  BY <1>4, <1>5

(* A move leaves a board.  The side that moves does not lose its turn, and  *)
(* the square that may be taken in passing is behind the pawn.              *)
LEMMA AppliedSound ==
    ASSUME NEW g, Safe(g), NEW m \in LegalMoves(g)
    PROVE  Safe(Applied(g, m))
  <1> DEFINE p == g.board[m.from]
             passing == p.type = "pawn" /\ m.to \in g.enPassant
             left == Cleared(g.board, {m.from, m.to}
                         \cup (IF passing THEN {<<m.to[1], m.from[2]>>} ELSE {}))
             cornered == IF p.type = "king" /\ Distance(m.from[1], m.to[1]) = 2
                         THEN RookMoved(left, m) ELSE left
             now == IF m.promotion = "" THEN p ELSE Piece(p.side, m.promotion)
             h == Applied(g, m)
  <1> SUFFICES Safe(h)
    OBVIOUS
  <1>1. PICK s \in Of(g.board, g.turn, PieceTypes) : m \in PseudoMoves(g, s)
    BY DEF LegalMoves
  <1>2. s \in DOMAIN g.board /\ g.board[s].side = g.turn /\ g.board[s].type \in PieceTypes
    BY <1>1 DEF Of
  <1>3. /\ BoardOK(g.board) /\ g.turn \in Sides /\ g.enPassant \subseteq Squares
        /\ g.board[s] \in Pieces /\ s \in Squares
    BY <1>2 DEF Safe, BoardOK
  <1>4. /\ m.from = s /\ Promotable(m) /\ m.to \in Squares
        /\ g.board[s].type # "pawn" => Plain(m)
    BY <1>1, <1>2, <1>3, Strikes
  <1>5. /\ h.board = Entered(cornered, m.to, now)
        /\ h.turn = Opposite(g.turn)
        /\ h.enPassant = IF p.type = "pawn" /\ Distance(m.from[2], m.to[2]) = 2
                         THEN {<<m.from[1], (m.from[2] + m.to[2]) \div 2>>} ELSE {}
    BY DEF Applied
  <1>6. now \in Pieces
    <2>1. m.promotion # "" => m.promotion \in PieceTypes
      BY <1>4 DEF Promotable, Promotions, PieceTypes
    <2>2. p \in Pieces
      BY <1>3, <1>4
    <2> QED  BY <2>1, <2>2 DEF Piece, Pieces
  <1>7. BoardOK(left) /\ m.to \notin DOMAIN left /\ DOMAIN left \subseteq DOMAIN g.board
    <2> DEFINE gone == {m.from, m.to} \cup (IF passing THEN {<<m.to[1], m.from[2]>>} ELSE {})
    <2>1. m.to \in gone /\ left = Cleared(g.board, gone)
      OBVIOUS
    <2> HIDE DEF gone, left
    <2>2. BoardOK(Cleared(g.board, gone)) /\ DOMAIN Cleared(g.board, gone) = DOMAIN g.board \ gone
      BY <1>3, ClearedOK
    <2> QED  BY <2>1, <2>2
  <1>8. BoardOK(cornered)
    <2> HIDE DEF left
    <2> QED  BY <1>3, <1>4, <1>7, RookMovedOK
  <1>9. BoardOK(h.board) /\ h.board[m.to] = now /\ m.to \in DOMAIN h.board
    <2>1. h.board = Entered(cornered, m.to, now) /\ m.to \in Squares
      BY <1>4, <1>5
    <2> HIDE DEF cornered, now, h
    <2>2. BoardOK(Entered(cornered, m.to, now))
      BY <1>6, <1>8, <2>1, EnteredOK
    <2>3. m.to \in DOMAIN Entered(cornered, m.to, now) /\ Entered(cornered, m.to, now)[m.to] = now
      BY DEF Entered
    <2> QED  BY <2>1, <2>2, <2>3
  <1>b. BoardOK(h.board)
    BY <1>9
  <1>10. h.turn \in Sides /\ Opposite(h.turn) = g.turn
    BY <1>3, <1>5, Sides2
  <1>11. ~InCheck(h.board, Opposite(h.turn))
    <2>1. ~InCheck(Applied(g, m).board, g.turn)
      BY DEF LegalMoves
    <2> HIDE DEF h
    <2>2. h = Applied(g, m)
      BY DEF h
    <2> QED  BY <1>10, <2>1, <2>2
  <1>12. CASE ~(p.type = "pawn" /\ Distance(m.from[2], m.to[2]) = 2)
    <2>1. h.enPassant = {}
      BY <1>5, <1>12
    <2> HIDE DEF h
    <2> QED  BY <1>b, <1>10, <1>11, <2>1 DEF Safe, Passing
  <1>13. CASE p.type = "pawn" /\ Distance(m.from[2], m.to[2]) = 2
    <2> DEFINE up == Forward(g.turn)
               one == <<s[1], s[2] + up>>
    <2>1. Is(g.board, s, g.turn, {"pawn"}) /\ m \in PawnMoves(g, s, g.turn)
      BY <1>1, <1>2, <1>4, <1>13 DEF Is, PseudoMoves
    <2>2. PawnGoes(g, s, g.turn, m)
      BY <1>2, <1>3, <2>1, PawnStrikes
    <2>3. up \in {-1, 1} /\ s[1] \in 0..7 /\ s[2] \in 0..7
      BY <1>3, Sides2, SquareIs
    <2>4. m.to[2] # s[2] + up
      <3>1. Distance(s[2], m.to[2]) = 2
        BY <1>4, <1>13
      <3> QED  BY <2>3, <3>1 DEF Distance
    <2>5. /\ m.to = <<s[1], s[2] + 2 * up>> /\ Plain(m)
          /\ Empty(g.board, one) /\ one \in Squares
      BY <2>2, <2>4 DEF PawnGoes
    <2>6. h.enPassant = {one}
      <3>1. (s[2] + (s[2] + 2 * up)) \div 2 = s[2] + up
        BY <2>3
      <3>2. <<m.from[1], (m.from[2] + m.to[2]) \div 2>> = one
        BY <1>4, <2>5, <3>1
      <3> QED  BY <1>5, <1>13, <3>2
    <2>7. now = p
      BY <2>5 DEF Plain
    <2>8. Is(h.board, m.to, g.turn, {"pawn"})
      BY <1>2, <1>4, <1>9, <1>13, <2>7 DEF Is
    <2>9. Empty(h.board, one)
      <3>1. cornered = left
        BY <1>13
      <3>2. one # m.to
        BY <2>3, <2>5
      <3>3. DOMAIN h.board = DOMAIN left \cup {m.to}
        <4>1. h.board = Entered(left, m.to, now) /\ m.to \in Squares /\ BoardOK(left)
          BY <1>4, <1>5, <1>7, <3>1
        <4> HIDE DEF cornered, now, h, left
        <4>2. DOMAIN Entered(left, m.to, now) = DOMAIN left \cup {m.to}
          BY DEF Entered
        <4> QED  BY <4>1, <4>2
      <3> HIDE DEF h, left
      <3> QED  BY <1>7, <2>5, <3>2, <3>3 DEF Empty
    <2>10. <<one[1], one[2] + Forward(g.turn)>> = m.to
      BY <2>3, <2>5
    <2>11. Passing(h)
      <3> HIDE DEF h, one
      <3> QED  BY <1>10, <2>6, <2>8, <2>9, <2>10 DEF Passing
    <2>12. h.enPassant \subseteq Squares
      BY <2>5, <2>6
    <2> HIDE DEF h
    <2> QED  BY <1>b, <1>10, <1>11, <2>11, <2>12 DEF Safe
  <1> QED  BY <1>12, <1>13

(* Nothing attacks the kings at the start.                                  *)
LEMMA NewGameSound == Safe(NewGame)
  <1> DEFINE b == NewGame.board
             order == <<"rook", "knight", "bishop", "queen", "king", "bishop", "knight", "rook">>
             at(s) == IF s[2] = 0 THEN Piece("white", order[s[1] + 1])
                      ELSE IF s[2] = 1 THEN Piece("white", "pawn")
                      ELSE IF s[2] = 6 THEN Piece("black", "pawn")
                      ELSE Piece("black", order[s[1] + 1])
  <1>1. b = [s \in (0..7) \X {0, 1, 6, 7} |-> at(s)]
    <2> DEFINE A == Rank("white", 0)
               B == Pawns("white", 1)
               C == Pawns("black", 6)
               D == Rank("black", 7)
    <2>1. b = Backed(Backed(A, B), Backed(C, D))
      BY DEF NewGame
    <2>2. /\ A = [s \in (0..7) \X {0} |-> at(s)]
          /\ B = [s \in (0..7) \X {1} |-> at(s)]
          /\ C = [s \in (0..7) \X {6} |-> at(s)]
          /\ D = [s \in (0..7) \X {7} |-> at(s)]
      BY DEF Rank, Pawns
    <2> HIDE DEF A, B, C, D, at, b
    <2>3. Backed(A, B) = [s \in (0..7) \X {0, 1} |-> at(s)]
      BY <2>2 DEF Backed
    <2>4. Backed(C, D) = [s \in (0..7) \X {6, 7} |-> at(s)]
      BY <2>2 DEF Backed
    <2> QED  BY <2>1, <2>3, <2>4 DEF Backed
  <1>2. \A i \in 1..8 : order[i] \in PieceTypes
    BY DEF PieceTypes
  <1> HIDE DEF b, order
  <1>3. ASSUME NEW s \in DOMAIN b
        PROVE  /\ s \in Squares /\ s[1] \in 0..7 /\ s[2] \in {0, 1, 6, 7} /\ b[s] \in Pieces
               /\ b[s].side = IF s[2] < 2 THEN "white" ELSE "black"
               /\ s[2] \in {1, 6} => b[s].type = "pawn"
    <2>1. s[1] \in 0..7 /\ s[2] \in {0, 1, 6, 7} /\ s = <<s[1], s[2]>> /\ b[s] = at(s)
      BY <1>1
    <2>2. order[s[1] + 1] \in PieceTypes
      BY <1>2, <2>1
    <2> QED  BY <2>1, <2>2 DEF Squares, Pieces, Piece, Sides, PieceTypes
  <1>4. ASSUME NEW i \in 0..7
        PROVE  <<i, 6>> \in DOMAIN b
    BY <1>1
  <1>5. ASSUME NEW k \in Of(b, "black", {"king"})
        PROVE  ~IsAttacked(b, k, "white")
    <2>1. k \in Squares /\ k = <<k[1], k[2]>> /\ k[1] \in 0..7 /\ k[2] = 7
      BY <1>3, SquareIs DEF Of
    <2>2. ASSUME NEW s, NEW types, Is(b, s, "white", types)
          PROVE  s[2] \in {0, 1}
      BY <1>3, <2>2 DEF Is
    <2>3. ASSUME NEW f \in {-1, 1}
          PROVE  ~Is(b, <<k[1] + f, k[2] - Forward("white")>>, "white", {"pawn"})
      <3>1. k[2] - Forward("white") = 6
        BY <2>1 DEF Forward
      <3> QED  BY <2>2, <3>1
    <2>4. ASSUME NEW d \in Leaps \cup Directions
          PROVE  ~Is(b, Shift(k, d, 1), "white", {"knight"}) /\ ~Is(b, Shift(k, d, 1), "white", {"king"})
      <3>1. d[2] \in {-2, -1, 0, 1, 2}
        BY DEF Leaps, Directions, Straight, Diagonal
      <3>2. Shift(k, d, 1)[2] \notin {0, 1}
        BY <2>1, <3>1 DEF Shift
      <3> QED  BY <2>2, <3>2
    <2>5. ASSUME NEW d \in Directions, NEW n \in Ray(b, k, d), NEW types
          PROVE  ~Is(b, Shift(k, d, n), "white", types)
      <3> SUFFICES ASSUME Is(b, Shift(k, d, n), "white", types)
                   PROVE  FALSE
        OBVIOUS
      <3>1. n \in 1..7 /\ Shift(k, d, n) \in Squares /\ \A i \in 1..(n - 1) : Empty(b, Shift(k, d, i))
        BY <1>3 DEF Ray, Is
      <3>2. /\ Shift(k, d, n) = <<k[1] + n * d[1], 7 + n * d[2]>>
            /\ Shift(k, d, 1) = <<k[1] + 1 * d[1], 7 + 1 * d[2]>>
        BY <2>1 DEF Shift
      <3>3. d[1] \in {-1, 0, 1} /\ d[2] \in {-1, 0, 1}
        BY DirectionIs
      <3>4. 7 + n * d[2] \in {0, 1} /\ k[1] + n * d[1] \in 0..7
        BY <2>2, <3>1, <3>2 DEF Squares
      <3>5. d[2] = -1 /\ n \in {6, 7}
        <4>1. \A e \in {-1, 0, 1} : 7 + n * e \in {0, 1} => e = -1 /\ n \in {6, 7}
          <5>1. \A e \in {0, 1} : 7 + n * e \notin {0, 1}
            BY <3>1
          <5>2. 7 + n * (-1) = 7 - n
            BY <3>1
          <5> QED  BY <3>1, <5>1, <5>2
        <4> QED  BY <3>3, <3>4, <4>1
      <3>6. k[1] + d[1] \in 0..7
        BY <2>1, <3>3, <3>4, <3>5
      <3>7. Shift(k, d, 1) = <<k[1] + d[1], 6>>
        BY <3>2, <3>3, <3>5
      <3>8. Empty(b, Shift(k, d, 1))
        BY <3>1, <3>5
      <3> QED  BY <1>4, <3>6, <3>7, <3>8 DEF Empty
    <2> QED  BY <2>3, <2>4, <2>5 DEF IsAttacked, Directions
  <1>6. ~InCheck(b, "black")
    BY <1>5 DEF InCheck, Opposite
  <1>7. NewGame.turn = "white" /\ NewGame.enPassant = {} /\ NewGame.board = b
    BY DEF NewGame, b
  <1> QED  BY <1>3, <1>6, <1>7 DEF Safe, BoardOK, Sides, Opposite, Passing

LEMMA NoGameSound == Safe(NoGame)
  BY DEF Safe, NoGame, BoardOK, Sides, Passing, InCheck, Of

LEMMA OpeningSound ==
    ASSUME NEW g \in Openings
    PROVE  Safe(g)
  <1>1. Lawful(g)
    BY ChessAssumption
  <1> QED  BY <1>1 DEF Lawful, Safe, BoardOK, Pieces

LEMMA ChessAlways == ChessSpec => []Safe(game)
  <1>1. ChessInit => Safe(game)
    BY NoGameSound DEF ChessInit
  <1>2. Safe(game) /\ [ChessNext]_chessVars => Safe(game)'
    <2> SUFFICES ASSUME Safe(game), [ChessNext]_chessVars
                 PROVE  Safe(game')
      OBVIOUS
    <2>1. CASE StartGame
      BY <2>1, NewGameSound DEF StartGame, Start
    <2>2. CASE \E g \in Openings : SetPosition(g)
      BY <2>2, OpeningSound DEF SetPosition, Start
    <2>3. CASE PlayMove
      BY <2>3, AppliedSound DEF PlayMove
    <2>4. CASE Resign \/ UNCHANGED chessVars
      BY <2>4 DEF Resign, chessVars
    <2>5. CASE LoseGames
      BY <2>5, NoGameSound DEF LoseGames
    <2> QED  BY <2>1, <2>2, <2>3, <2>4, <2>5 DEF ChessNext
  <1> QED  BY <1>1, <1>2, PTL DEF ChessSpec

(* No move that the generator gives takes a king, and the square that may be *)
(* taken in passing is the one the pawn has just passed: whatever a piece    *)
(* can go to, _is_attacked finds attacked, piece by piece and direction by   *)
(* direction, so the legality test leaves no king where the other side's     *)
(* moves lead.                                                               *)
THEOREM PositionSoundCorrect == ChessSpec => []PositionSound
  <1>1. Safe(game) => PositionSound
    <2> SUFFICES ASSUME Safe(game)
                 PROVE  KingIsSafe /\ PassedJustNow
      BY DEF PositionSound
    <2>1. KingIsSafe
      BY NoKingTaken DEF KingIsSafe
    <2>2. PassedJustNow
      BY DEF PassedJustNow, Safe
    <2> QED  BY <2>1, <2>2
  <1> QED  BY <1>1, ChessAlways, PTL

-----------------------------------------------------------------------------
(* The grocery domain                                                       *)

Stages == {"free", "search", "connect", "choose", "disconnect", "visit", "read", "click", "count"}
CallKinds == {"", "api", "start", "stop", "search", "detail", "add"}
PageKinds == {"home", "search", "detail"}

Pages ==
    [live : BOOLEAN, chain : Chains, page : PageKinds, cart : Int, clicks : Int, store : Nat]
Errands ==
    [at : Stages, op : CallKinds, browser : Nat, chain : Chains, store : Nat, before : Int, known : BOOLEAN]

(* A shop with all its fields; what is in the cart is left open.             *)
IsShop(s) ==
    /\ s = [store |-> s.store, chain |-> s.chain, cart |-> s.cart, results |-> s.results,
            browser |-> s.browser]
    /\ s.store \in Nat /\ s.chain \in Chains

IsHarvest(h) == h = [products |-> h.products, nutrition |-> h.nutrition, prices |-> h.prices]

GroceryTypes ==
    /\ IsShop(shop) /\ shop.browser \in DOMAIN browsers \cup {0}
    /\ defaults \in [Chains -> Nat]
    /\ IsFiniteSet(DOMAIN browsers) /\ DOMAIN browsers \subseteq Nat \ {0}
    /\ browsers \in [DOMAIN browsers -> Pages]
    /\ errands \in [Shoppers -> Errands]
    /\ \A c \in Shoppers :
           /\ errands[c].at = "visit" => errands[c].op \in PageKinds
           /\ errands[c].at \in {"choose", "disconnect", "visit"} => errands[c].browser \in DOMAIN browsers
    /\ bought \in [tracked : Int, added : Int]
    /\ IsHarvest(harvest)

-----------------------------------------------------------------------------
(* One price a day                                                          *)

LEMMA HarvestedPrice ==
    ASSUME NEW h, IsHarvest(h), NEW code, NEW record,
           NEW new, new = HarvestPrice(h, code, record)
    PROVE  /\ IsHarvest(new)
           /\ new.products = h.products \cup {code} /\ new.nutrition = h.nutrition
           /\ new.prices = {p \in h.prices : <<p.chain, p.store, p.date>>
                                             # <<record.chain, record.store, record.date>>} \cup {record}
<1> DEFINE mid == [h EXCEPT !.products = @ \cup {code}]
<1>1. mid = [products |-> h.products \cup {code}, nutrition |-> h.nutrition, prices |-> h.prices]
      BY DEF IsHarvest
<1>2. new = [mid EXCEPT !.prices =
                {p \in @ : <<p.chain, p.store, p.date>> # <<record.chain, record.store, record.date>>}
                    \cup {record}]
      BY DEF HarvestPrice, SavePrice
<1> HIDE DEF mid
<1> QED
      BY <1>1, <1>2 DEF IsHarvest

LEMMA HarvestedNutrition ==
    ASSUME NEW h, IsHarvest(h), NEW code, NEW new, new = HarvestNutrition(h, code)
    PROVE  IsHarvest(new) /\ new.products = h.products /\ new.prices = h.prices
BY DEF HarvestNutrition, IsHarvest

(* The prices of a harvest, whatever day and shop it is.                     *)
Priced(h) ==
    \A p \in h.prices :
        /\ Product(p.of[1]) \in h.products
        /\ \A q \in h.prices : <<p.chain, p.store, p.date>> = <<q.chain, q.store, q.date>> => p = q

LEMMA PriceAdded ==
    ASSUME NEW h, IsHarvest(h), Priced(h), NEW record, NEW chain, record.of[1] = chain,
           NEW new, new = HarvestPrice(h, Product(chain), record)
    PROVE  IsHarvest(new) /\ Priced(new)
<1>1. /\ IsHarvest(new)
      /\ new.products = h.products \cup {Product(chain)}
      /\ new.prices = {p \in h.prices : <<p.chain, p.store, p.date>>
                                        # <<record.chain, record.store, record.date>>} \cup {record}
      BY HarvestedPrice
<1> QED
      BY <1>1 DEF Priced

LEMMA PageReadPriced ==
    ASSUME NEW c, PageRead(c), IsHarvest(harvest), Priced(harvest)
    PROVE  IsHarvest(harvest)' /\ Priced(harvest)'
<1> DEFINE chain == PageOf(c).chain
           known == IF errands[c].op = "detail" THEN HarvestNutrition(harvest, Product(chain)) ELSE harvest
           record == PriceRecord(shop.chain, shop.store, <<chain, PageOf(c).store>>)
<1>1. IsHarvest(known) /\ Priced(known)
      BY HarvestedNutrition DEF Priced
<1>2. harvest' = harvest \/ harvest' = known \/ harvest' = HarvestPrice(known, Product(chain), record)
      BY DEF PageRead
<1>3. record.of[1] = chain
      BY DEF PriceRecord
<1> HIDE DEF known, chain, record
<1> QED
      BY <1>1, <1>2, <1>3, PriceAdded
-----------------------------------------------------------------------------
(* What calls change                                                        *)

LEMMA NoErrandTyped == NoErrand \in Errands /\ NoErrand.at = "free"
BY DEF NoErrand, Errands, Stages, CallKinds, Chains

LEMMA BeginsTyped ==
    ASSUME GroceryTypes, NEW c \in Shoppers, NEW at \in Stages, NEW op \in CallKinds, Begins(c, at, op)
    PROVE  /\ errands' \in [Shoppers -> Errands]
           /\ \A d \in Shoppers \ {c} : errands'[d] = errands[d]
           /\ errands'[c].at = at /\ errands'[c].op = op /\ errands'[c].browser = shop.browser
<1>1. /\ shop.browser \in Nat /\ shop.chain \in Chains /\ shop.store \in Nat
      /\ errands \in [Shoppers -> Errands]
      BY DEF GroceryTypes, IsShop
<1> DEFINE e == [at |-> at, op |-> op, browser |-> shop.browser, chain |-> shop.chain,
                 store |-> shop.store, before |-> 0, known |-> TRUE]
<1>2. errands' = [errands EXCEPT ![c] = e]
      BY DEF Begins, NoErrand
<1>3. e \in Errands /\ e.at = at /\ e.op = op /\ e.browser = shop.browser
      BY <1>1 DEF Errands
<1> HIDE DEF e
<1> QED
      BY <1>1, <1>2, <1>3

LEMMA EndsTyped ==
    ASSUME GroceryTypes, NEW c \in Shoppers, Ends(c)
    PROVE  /\ errands' \in [Shoppers -> Errands]
           /\ \A d \in Shoppers \ {c} : errands'[d] = errands[d]
           /\ errands'[c].at = "free"
BY NoErrandTyped DEF GroceryTypes, Ends

LEMMA PageReplaced ==
    ASSUME GroceryTypes, NEW b \in DOMAIN browsers, NEW page \in Pages,
           browsers' = [browsers EXCEPT ![b] = page]
    PROVE  /\ DOMAIN browsers' = DOMAIN browsers /\ browsers' \in [DOMAIN browsers' -> Pages]
           /\ browsers'[b] = page /\ \A x \in DOMAIN browsers \ {b} : browsers'[x] = browsers[x]
BY DEF GroceryTypes

(* A page that shows something else is still there with its cart.            *)
SetClicks(p, n) == [p EXCEPT !.clicks = n]
SetPage(p, kind) == [p EXCEPT !.page = kind]
SetChain(p, chain) == [p EXCEPT !.chain = chain]
SetShown(p, store) == [p EXCEPT !.store = store]
SetCart(p, n) == [p EXCEPT !.cart = n]
SetLive(p, live) == [p EXCEPT !.live = live]

LEMMA PageFields ==
    ASSUME NEW p \in Pages
    PROVE  /\ \A n \in Int :
                /\ SetClicks(p, n) \in Pages /\ SetClicks(p, n).cart = p.cart /\ SetClicks(p, n).live = p.live
                /\ SetCart(p, n) \in Pages /\ SetCart(p, n).cart = n /\ SetCart(p, n).live = p.live
           /\ \A kind \in PageKinds :
                SetPage(p, kind) \in Pages /\ SetPage(p, kind).cart = p.cart /\ SetPage(p, kind).live = p.live
           /\ \A chain \in Chains :
                SetChain(p, chain) \in Pages /\ SetChain(p, chain).cart = p.cart /\ SetChain(p, chain).live = p.live
           /\ \A store \in Nat :
                SetShown(p, store) \in Pages /\ SetShown(p, store).cart = p.cart /\ SetShown(p, store).live = p.live
           /\ \A live \in BOOLEAN :
                SetLive(p, live) \in Pages /\ SetLive(p, live).cart = p.cart /\ SetLive(p, live).live = live
BY DEF Pages, SetClicks, SetPage, SetChain, SetShown, SetCart, SetLive

LEMMA ClicksField ==
    ASSUME NEW p \in Pages, NEW n \in Int
    PROVE  SetClicks(p, n) \in Pages /\ SetClicks(p, n).cart = p.cart /\ SetClicks(p, n).live = p.live
BY PageFields

LEMMA ShownField ==
    ASSUME NEW p \in Pages, NEW store \in Nat
    PROVE  SetShown(p, store) \in Pages /\ SetShown(p, store).cart = p.cart /\ SetShown(p, store).live = p.live
BY PageFields

LEMMA CartField ==
    ASSUME NEW p \in Pages, NEW n \in Int
    PROVE  SetCart(p, n) \in Pages /\ SetCart(p, n).cart = n /\ SetCart(p, n).live = p.live
BY PageFields

-----------------------------------------------------------------------------
(* One call after the other                                                 *)

ErrandInTurn(e) ==
    /\ e.at = "connect" => shop.browser = 0
    /\ e.at = "disconnect" => e.browser = shop.browser
    /\ e.at \in {"click", "count"} =>
           /\ e.browser = shop.browser /\ shop.browser \in DOMAIN browsers
           /\ bought.tracked + browsers[e.browser].cart - e.before <= bought.added

(* The click that is counted is no further ahead than the site's cart; and   *)
(* the browser that runs is the session's.                                   *)
ShopsInTurn ==
    /\ \A c, d \in Shoppers : c # d => errands[c].at = "free" \/ errands[d].at = "free"
    /\ \A c \in Shoppers : ErrandInTurn(errands[c])
    /\ bought.tracked <= bought.added
    /\ "fail" \notin groceryWay => Live \subseteq {shop.browser}

GroceryInv ==
    /\ GroceryTypes
    /\ "overlap" \notin groceryWay => ShopsInTurn
    /\ Priced(harvest)

LEMMA FreeWhenCalled ==
    ASSUME NEW c, MayCall(c), "overlap" \notin groceryWay
    PROVE  \A d \in Shoppers : errands[d].at = "free"
BY DEF MayCall, Does

(* Most calls leave what the invariant is about: the browser, and the carts  *)
(* except that things are taken out.                                         *)
LEMMA QuietStep ==
    ASSUME GroceryTypes, ShopsInTurn, NEW c \in Shoppers,
           DOMAIN browsers' = DOMAIN browsers, browsers' \in [DOMAIN browsers' -> Pages],
           \A b \in DOMAIN browsers :
               browsers'[b].live = browsers[b].live /\ browsers'[b].cart <= browsers[b].cart,
           shop'.browser = shop.browser, UNCHANGED <<groceryWay, bought>>,
           \A d \in Shoppers \ {c} : errands'[d] = errands[d],
           errands' \in [Shoppers -> Errands],
           errands'[c].at = "free" \/ \A d \in Shoppers \ {c} : errands[d].at = "free",
           ErrandInTurn(errands[c])'
    PROVE  ShopsInTurn'
<1>1. ASSUME NEW d \in Shoppers \ {c} PROVE ErrandInTurn(errands[d])'
  <2>1. ErrandInTurn(errands[d]) /\ errands'[d] = errands[d]
        BY DEF ShopsInTurn
  <2>2. errands[d] \in Errands /\ bought \in [tracked : Int, added : Int]
        BY DEF GroceryTypes
  <2>3. \A b \in DOMAIN browsers : browsers[b].cart \in Int /\ browsers'[b].cart \in Int
        BY DEF GroceryTypes, Pages
  <2> QED
        BY <2>1, <2>2, <2>3 DEF ErrandInTurn, Errands
<1>2. Live' = Live
      BY DEF Live
<1> QED
      BY <1>1, <1>2 DEF ShopsInTurn
-----------------------------------------------------------------------------
(* The steps                                                                *)

(* A call is begun; nothing else changes.                                   *)
LEMMA BeginStep ==
    ASSUME GroceryInv, NEW c \in Shoppers, MayCall(c), NEW at \in Stages, NEW op \in CallKinds, Begins(c, at, op),
           UNCHANGED <<groceryWay, shop, defaults, browsers, harvest, today, bought>>,
           at \notin {"click", "count"}, at = "connect" => shop.browser = 0,
           at = "visit" => op \in PageKinds,
           at \in {"choose", "disconnect", "visit"} => shop.browser # 0
    PROVE  GroceryInv'
<1>1. GroceryTypes
      BY DEF GroceryInv
<1>2. /\ errands' \in [Shoppers -> Errands]
      /\ \A d \in Shoppers \ {c} : errands'[d] = errands[d]
      /\ errands'[c].at = at /\ errands'[c].op = op /\ errands'[c].browser = shop.browser
      BY <1>1, BeginsTyped
<1>3. GroceryTypes'
      BY <1>1, <1>2 DEF GroceryTypes, IsShop, IsHarvest
<1>4. ASSUME "overlap" \notin groceryWay PROVE ShopsInTurn'
  <2>1. ShopsInTurn /\ ErrandInTurn(errands[c])'
        BY <1>2, <1>4 DEF GroceryInv, ErrandInTurn
  <2>2. browsers' \in [DOMAIN browsers' -> Pages] /\ \A b \in DOMAIN browsers : browsers[b].cart \in Int
        BY <1>1 DEF GroceryTypes, Pages
  <2> QED
        BY <1>1, <1>2, <1>4, <2>1, <2>2, FreeWhenCalled, QuietStep
<1> QED
      BY <1>3, <1>4 DEF GroceryInv, Priced

(* A call ends, or another is made at once, that changes neither the browser *)
(* nor what was bought.                                                      *)
LEMMA ShopStep ==
    ASSUME GroceryInv, NEW c \in Shoppers, IsShop(shop)', shop'.browser = shop.browser,
           UNCHANGED <<groceryWay, browsers, bought>>, defaults' \in [Chains -> Nat],
           IsHarvest(harvest)', Priced(harvest)',
           UNCHANGED errands \/ Ends(c)
    PROVE  GroceryInv'
<1>1. GroceryTypes
      BY DEF GroceryInv
<1>2. /\ errands' \in [Shoppers -> Errands]
      /\ \A d \in Shoppers \ {c} : errands'[d] = errands[d]
      /\ errands' = errands \/ errands'[c].at = "free"
  <2>1. CASE UNCHANGED errands
        BY <1>1, <2>1 DEF GroceryTypes
  <2>2. CASE Ends(c)
        BY <1>1, <2>2, EndsTyped
  <2> QED
        BY <2>1, <2>2
<1>3. GroceryTypes'
      BY <1>1, <1>2 DEF GroceryTypes
<1>4. ASSUME "overlap" \notin groceryWay PROVE ShopsInTurn'
  <2>1. ShopsInTurn
        BY <1>4 DEF GroceryInv
  <2>2. CASE UNCHANGED errands
        BY <2>1, <2>2 DEF ShopsInTurn, ErrandInTurn, Live
  <2>3. CASE errands'[c].at = "free"
    <3>1. ErrandInTurn(errands[c])'
          BY <2>3 DEF ErrandInTurn
    <3>2. browsers' \in [DOMAIN browsers' -> Pages] /\ \A b \in DOMAIN browsers : browsers[b].cart \in Int
          BY <1>1 DEF GroceryTypes, Pages
    <3> QED
          BY <1>1, <1>2, <2>1, <2>3, <3>1, <3>2, QuietStep
  <2> QED
        BY <1>2, <2>2, <2>3
<1> QED
      BY <1>3, <1>4 DEF GroceryInv

Replaces(b, page) == browsers' = [browsers EXCEPT ![b] = page]
HasClicked(c) == errands[c].at = "click" /\ errands' = [errands EXCEPT ![c].at = "count"]

(* A page of a browser changes, and perhaps a call ends or has clicked.      *)
LEMMA PageStep ==
    ASSUME GroceryInv, NEW c \in Shoppers, NEW b \in DOMAIN browsers, NEW page \in Pages,
           Replaces(b, page),
           page.live = browsers[b].live, page.cart <= browsers[b].cart,
           UNCHANGED <<groceryWay, shop, defaults, harvest, today, bought>>,
           \/ UNCHANGED errands
           \/ Ends(c)
           \/ HasClicked(c)
    PROVE  GroceryInv'
<1>1. GroceryTypes
      BY DEF GroceryInv
<1>2. /\ DOMAIN browsers' = DOMAIN browsers /\ browsers' \in [DOMAIN browsers' -> Pages]
      /\ browsers'[b] = page /\ \A x \in DOMAIN browsers \ {b} : browsers'[x] = browsers[x]
      BY <1>1, PageReplaced DEF Replaces
<1>3. /\ errands' \in [Shoppers -> Errands]
      /\ \A d \in Shoppers \ {c} : errands'[d] = errands[d]
      /\ \/ errands' = errands
         \/ errands'[c].at = "free"
         \/ /\ errands[c].at = "click" /\ errands'[c].at = "count"
            /\ errands'[c].browser = errands[c].browser /\ errands'[c].before = errands[c].before
  <2>1. CASE UNCHANGED errands
        BY <1>1, <2>1 DEF GroceryTypes
  <2>2. CASE Ends(c)
        BY <1>1, <2>2, EndsTyped
  <2>3. CASE HasClicked(c)
        BY <1>1, <2>3 DEF HasClicked, GroceryTypes, Errands, Stages
  <2> QED
        BY <2>1, <2>2, <2>3
<1>4. GroceryTypes'
      BY <1>1, <1>2, <1>3 DEF GroceryTypes, IsShop, IsHarvest
<1>5. \A x \in DOMAIN browsers :
          /\ browsers'[x].live = browsers[x].live /\ browsers'[x].cart <= browsers[x].cart
          /\ browsers'[x].cart \in Int /\ browsers[x].cart \in Int
      BY <1>1, <1>2 DEF GroceryTypes, Pages
<1>6. ASSUME "overlap" \notin groceryWay PROVE ShopsInTurn'
  <2>1. ShopsInTurn
        BY <1>6 DEF GroceryInv
  <2>2. ErrandInTurn(errands[c])'
    <3>1. ErrandInTurn(errands[c]) /\ errands[c] \in Errands /\ bought \in [tracked : Int, added : Int]
          BY <1>1, <2>1 DEF ShopsInTurn, GroceryTypes
    <3> QED
          BY <1>2, <1>3, <1>5, <3>1 DEF ErrandInTurn, Errands
  <2>3. CASE errands' = errands /\ errands[c].at = "free"
        BY <1>1, <1>2, <1>3, <1>5, <2>1, <2>2, <2>3, QuietStep
  <2>4. CASE errands[c].at # "free"
    <3>1. \A d \in Shoppers \ {c} : errands[d].at = "free"
          BY <2>1, <2>4 DEF ShopsInTurn
    <3> QED
          BY <1>1, <1>2, <1>3, <1>5, <2>1, <2>2, <3>1, QuietStep
  <2>5. CASE errands[c].at = "free" /\ errands'[c].at = "free"
        BY <1>1, <1>2, <1>3, <1>5, <2>1, <2>2, <2>5, QuietStep
  <2> QED
        BY <1>3, <2>3, <2>4, <2>5
<1> QED
      BY <1>4, <1>6 DEF GroceryInv, Priced

-----------------------------------------------------------------------------
(* The shop and its cart                                                    *)

SetStoreOf(s, store) == [s EXCEPT !.store = store]
SetChainOf(s, chain) == [s EXCEPT !.chain = chain]
SetResults(s, found) == [s EXCEPT !.results = found]
SetCartOf(s, cart) == [s EXCEPT !.cart = cart]
SetBrowser(s, b) == [s EXCEPT !.browser = b]

LEMMA ShopFields ==
    ASSUME NEW s, IsShop(s)
    PROVE  /\ \A store \in Nat : IsShop(SetStoreOf(s, store)) /\ SetStoreOf(s, store).browser = s.browser
           /\ \A chain \in Chains : IsShop(SetChainOf(s, chain)) /\ SetChainOf(s, chain).browser = s.browser
           /\ \A found : IsShop(SetResults(s, found)) /\ SetResults(s, found).browser = s.browser
           /\ \A cart : IsShop(SetCartOf(s, cart)) /\ SetCartOf(s, cart).browser = s.browser
           /\ \A b : IsShop(SetBrowser(s, b)) /\ SetBrowser(s, b).browser = b
<1>1. ASSUME NEW store \in Nat PROVE IsShop(SetStoreOf(s, store)) /\ SetStoreOf(s, store).browser = s.browser
      BY DEF IsShop, SetStoreOf
<1>2. ASSUME NEW chain \in Chains PROVE IsShop(SetChainOf(s, chain)) /\ SetChainOf(s, chain).browser = s.browser
      BY DEF IsShop, SetChainOf
<1>3. ASSUME NEW found PROVE IsShop(SetResults(s, found)) /\ SetResults(s, found).browser = s.browser
      BY DEF IsShop, SetResults
<1>4. ASSUME NEW cart PROVE IsShop(SetCartOf(s, cart)) /\ SetCartOf(s, cart).browser = s.browser
      BY DEF IsShop, SetCartOf
<1>5. ASSUME NEW b PROVE IsShop(SetBrowser(s, b)) /\ SetBrowser(s, b).browser = b
      BY DEF IsShop, SetBrowser
<1> QED
      BY <1>1, <1>2, <1>3, <1>4, <1>5

LEMMA SetStoreStep ==
    ASSUME GroceryInv, NEW c \in Shoppers, NEW chain \in Chains, NEW store \in StoreIds, NEW save \in BOOLEAN,
           SetStore(c, chain, store, save)
    PROVE  GroceryInv'
<1>1. IsShop(shop) /\ store \in Nat /\ defaults \in [Chains -> Nat]
      BY GroceryAssumption DEF GroceryInv, GroceryTypes
<1>2. shop' = SetChainOf(SetStoreOf(shop, store), chain)
      BY DEF SetStore, SetChainOf, SetStoreOf
<1>5. IsShop(SetStoreOf(shop, store)) /\ SetStoreOf(shop, store).browser = shop.browser
      BY <1>1, ShopFields
<1>4. IsShop(shop)' /\ shop'.browser = shop.browser
      BY <1>2, <1>5, ShopFields
<1>3. defaults' \in [Chains -> Nat]
      BY <1>1 DEF SetStore
<1> QED
      BY <1>3, <1>4, ShopStep DEF SetStore, GroceryInv, GroceryTypes, Priced, IsHarvest

LEMMA EditCartStep == ASSUME GroceryInv, NEW c \in Shoppers, EditCart(c) PROVE GroceryInv'
<1>1. \E cart : shop' = SetCartOf(shop, cart)
      BY DEF EditCart, SetCartOf
<1>2. IsShop(shop)' /\ shop'.browser = shop.browser
      BY <1>1, ShopFields DEF GroceryInv, GroceryTypes
<1> QED
      BY <1>2, ShopStep DEF EditCart, GroceryInv, GroceryTypes, Priced, IsHarvest

LEMMA SearchAnsweredStep == ASSUME GroceryInv, NEW c \in Shoppers, SearchAnswered(c) PROVE GroceryInv'
<1>1. \E found : shop' = SetResults(shop, found)
      BY DEF SearchAnswered, SetResults
<1>2. IsShop(shop)' /\ shop'.browser = shop.browser
      BY <1>1, ShopFields DEF GroceryInv, GroceryTypes
<1> QED
      BY <1>2, ShopStep DEF SearchAnswered, GroceryInv, GroceryTypes, Priced, IsHarvest

LEMMA SyncCartStep == ASSUME GroceryInv, NEW c \in Shoppers, SyncCart(c) PROVE GroceryInv'
<1>1. \E cart : shop' = SetCartOf(shop, cart)
      BY DEF SyncCart, SetCartOf
<1>2. IsShop(shop)' /\ shop'.browser = shop.browser
      BY <1>1, ShopFields DEF GroceryInv, GroceryTypes
<1> QED
      BY <1>2, ShopStep DEF SyncCart, GroceryInv, GroceryTypes, Priced, IsHarvest

LEMMA PageReadStep == ASSUME GroceryInv, NEW c \in Shoppers, PageRead(c) PROVE GroceryInv'
<1>1. IsHarvest(harvest)' /\ Priced(harvest)'
      BY PageReadPriced DEF GroceryInv, GroceryTypes
<1>2. shop' = shop \/ \E found : shop' = SetResults(shop, found)
      BY DEF PageRead, SetResults
<1>3. IsShop(shop)' /\ shop'.browser = shop.browser
      BY <1>2, ShopFields DEF GroceryInv, GroceryTypes
<1> QED
      BY <1>1, <1>3, ShopStep DEF PageRead, GroceryInv, GroceryTypes

-----------------------------------------------------------------------------
(* The browser and its pages                                                *)

LEMMA StoreChosenStep == ASSUME GroceryInv, NEW c \in Shoppers, StoreChosen(c) PROVE GroceryInv'
<1> DEFINE b == errands[c].browser
           page == SetShown(browsers[b], defaults["pcexpress"])
<1>1. b \in DOMAIN browsers /\ browsers[b] \in Pages /\ defaults["pcexpress"] \in Nat
      BY DEF StoreChosen, GroceryInv, GroceryTypes, Chains
<1>2. page \in Pages /\ page.live = browsers[b].live /\ page.cart = browsers[b].cart
      BY <1>1, ShownField
<1>3. Replaces(b, page) \/ UNCHANGED browsers
      BY DEF StoreChosen, PageOf, SetShown, Replaces
<1>4. browsers[b].cart \in Int /\ (UNCHANGED browsers => Replaces(b, browsers[b]))
      BY <1>1 DEF Pages, GroceryInv, GroceryTypes, Replaces
<1>5. UNCHANGED <<groceryWay, shop, defaults, harvest, today, bought>> /\ Ends(c)
      BY DEF StoreChosen
<1> HIDE DEF b, page
<1>6. CASE Replaces(b, page)
      BY <1>1, <1>2, <1>4, <1>5, <1>6, PageStep DEF Pages
<1>7. CASE UNCHANGED browsers
      BY <1>1, <1>4, <1>5, <1>7, PageStep
<1> QED
      BY <1>3, <1>6, <1>7

LEMMA VisitedStep == ASSUME GroceryInv, NEW c \in Shoppers, Visited(c) PROVE GroceryInv'
<1> DEFINE e == errands[c]
           b == e.browser
           to == IF e.op = "detail" THEN "pcexpress" ELSE e.chain
           shown == IF to = "saveon" THEN e.store
                    ELSE IF browsers[b].chain = "saveon" THEN 0 ELSE browsers[b].store
           one == SetPage(browsers[b], e.op)
           two == SetChain(one, to)
           page == SetShown(two, shown)
<1>1. /\ b \in DOMAIN browsers /\ browsers[b] \in Pages /\ e \in Errands /\ e.op \in PageKinds
      /\ to \in Chains
      BY DEF Visited, GroceryInv, GroceryTypes, Chains, Errands
<1>2. shown \in Nat
      BY <1>1 DEF Errands, Pages
<1>3. browsers' = IF ~browsers[b].live THEN browsers
                  ELSE [browsers EXCEPT ![b].page = e.op, ![b].chain = to,
                            ![b].store = IF to = "saveon" THEN e.store
                                         ELSE IF browsers[b].chain = "saveon" THEN 0 ELSE @]
      BY DEF Visited, PageOf
<1>4. UNCHANGED <<groceryWay, shop, defaults, harvest, today, bought>> /\ Ends(c)
      BY DEF Visited
<1> HIDE DEF e, b, to
<1>5. one \in Pages /\ one.live = browsers[b].live /\ one.cart = browsers[b].cart
      BY <1>1, PageFields
<1>6. two \in Pages /\ two.live = one.live /\ two.cart = one.cart
  <2> HIDE DEF one
  <2> QED
      BY <1>1, <1>5, PageFields
<1>7. page \in Pages /\ page.live = two.live /\ page.cart = two.cart
  <2> HIDE DEF two, shown
  <2> QED
      BY <1>2, <1>6, PageFields
<1>8. Replaces(b, page) \/ UNCHANGED browsers
      BY <1>1, <1>3 DEF Replaces, SetPage, SetChain, SetShown, GroceryInv, GroceryTypes
<1>9. browsers[b].cart \in Int /\ (UNCHANGED browsers => Replaces(b, browsers[b]))
      BY <1>1 DEF Pages, GroceryInv, GroceryTypes, Replaces
<1> HIDE DEF shown, one, two, page
<1>10. CASE Replaces(b, page)
      BY <1>1, <1>4, <1>5, <1>6, <1>7, <1>9, <1>10, PageStep
<1>11. CASE UNCHANGED browsers
      BY <1>1, <1>4, <1>9, <1>11, PageStep
<1> QED
      BY <1>8, <1>10, <1>11

LEMMA ClicksStep ==
    ASSUME GroceryInv, NEW c \in Shoppers, NEW op \in {"add", "other"}, Clicks(c, op) PROVE GroceryInv'
<1> DEFINE b == shop.browser
           page == SetClicks(browsers[b], browsers[b].clicks + 1)
<1>1. CASE b = 0
      BY <1>1, ShopStep DEF Clicks, GroceryInv, GroceryTypes, Priced, IsHarvest, IsShop
<1>2. CASE b # 0
  <2>1. b \in DOMAIN browsers /\ browsers[b] \in Pages /\ browsers[b].clicks + 1 \in Int /\ browsers[b].cart \in Int
        BY <1>2 DEF GroceryInv, GroceryTypes, Pages
  <2>2. page \in Pages /\ page.live = browsers[b].live /\ page.cart = browsers[b].cart
        BY <2>1, ClicksField
  <2>3. /\ Replaces(b, page)
        /\ UNCHANGED <<groceryWay, shop, defaults, harvest, today, bought>>
        /\ UNCHANGED errands \/ HasClicked(c)
    <3>1. Replaces(b, page) /\ UNCHANGED <<groceryWay, shop, defaults, harvest, today, bought>>
          BY <1>2 DEF Clicks, SetClicks, Replaces
    <3>2. UNCHANGED errands \/ HasClicked(c)
      <4>1. CASE op = "add"
            BY <1>2, <4>1 DEF Clicks, HasClicked
      <4>2. CASE op # "add"
            BY <1>2, <4>2 DEF Clicks
      <4> QED
            BY <4>1, <4>2
    <3> QED
          BY <3>1, <3>2
  <2> HIDE DEF b, page
  <2> QED
        BY <2>1, <2>2, <2>3, PageStep
<1> QED
      BY <1>1, <1>2

LEMMA DecreaseStep == ASSUME GroceryInv, NEW c \in Shoppers, DecreaseQuantity(c) PROVE GroceryInv'
<1> DEFINE b == shop.browser
           n == browsers[b].cart - 1
           page == SetCart(browsers[b], n)
<1>1. /\ b \in DOMAIN browsers /\ browsers[b] \in Pages
      /\ browsers[b].cart \in Int /\ n \in Int
      BY DEF DecreaseQuantity, Buying, GroceryInv, GroceryTypes, Pages
<1>2. page \in Pages /\ page.live = browsers[b].live /\ page.cart = n
  <2> HIDE DEF b, n
  <2> QED
      BY <1>1, CartField
<1>3. Replaces(b, page) /\ UNCHANGED <<groceryWay, shop, defaults, errands, harvest, today, bought>>
      BY DEF DecreaseQuantity, SetCart, Replaces
<1> HIDE DEF b, page
<1> QED
      BY <1>1, <1>2, <1>3, PageStep

(* add_product counts before it clicks.                                      *)
LEMMA AddProductStep == ASSUME GroceryInv, NEW c \in Shoppers, AddProduct(c) PROVE GroceryInv'
<1>1. GroceryTypes
      BY DEF GroceryInv
<1>2. PICK known \in BOOLEAN : errands' = [errands EXCEPT ![c] =
          [at |-> "click", op |-> "add", browser |-> shop.browser, chain |-> shop.chain,
           store |-> shop.store, before |-> browsers[shop.browser].cart, known |-> known]]
      BY DEF AddProduct
<1>3. MayCall(c) /\ UNCHANGED <<groceryWay, shop, defaults, browsers, harvest, today, bought>>
      BY DEF AddProduct, Buying
<1>4. /\ shop.browser \in DOMAIN browsers /\ shop.browser \in Nat /\ shop.chain \in Chains /\ shop.store \in Nat
      /\ browsers[shop.browser].cart \in Int
      BY <1>1 DEF AddProduct, Buying, GroceryTypes, IsShop, Pages
<1> DEFINE e == [at |-> "click", op |-> "add", browser |-> shop.browser, chain |-> shop.chain,
                 store |-> shop.store, before |-> browsers[shop.browser].cart, known |-> known]
<1>5. /\ e \in Errands /\ e.at = "click" /\ e.browser = shop.browser
      /\ e.before = browsers[shop.browser].cart
      BY <1>4 DEF Errands, Stages, CallKinds
<1>6. errands' = [errands EXCEPT ![c] = e]
      BY <1>2
<1> HIDE DEF e
<1>7. /\ errands' \in [Shoppers -> Errands] /\ errands'[c] = e
      /\ \A d \in Shoppers \ {c} : errands'[d] = errands[d]
      BY <1>1, <1>5, <1>6 DEF GroceryTypes
<1>8. GroceryTypes'
      BY <1>1, <1>3, <1>5, <1>7 DEF GroceryTypes, IsShop, IsHarvest
<1>9. ASSUME "overlap" \notin groceryWay PROVE ShopsInTurn'
  <2>1. ShopsInTurn
        BY <1>9 DEF GroceryInv
  <2>2. bought.tracked \in Int /\ bought.added \in Int /\ bought.tracked <= bought.added
        BY <1>1, <2>1 DEF ShopsInTurn, GroceryTypes
  <2>3. ErrandInTurn(errands[c])'
        BY <1>3, <1>4, <1>5, <1>7, <2>2 DEF ErrandInTurn
  <2>4. browsers' \in [DOMAIN browsers' -> Pages] /\ \A b \in DOMAIN browsers : browsers[b].cart \in Int
        BY <1>1, <1>3 DEF GroceryTypes, Pages
  <2> QED
        BY <1>1, <1>3, <1>7, <1>9, <2>1, <2>3, <2>4, FreeWhenCalled, QuietStep
<1> QED
      BY <1>3, <1>8, <1>9 DEF GroceryInv, Priced

(* When all calls are over, a browser may stop and the shop be made anew.    *)
LEMMA AllFreeStep ==
    ASSUME GroceryInv, \A d \in Shoppers : errands'[d].at = "free", errands' \in [Shoppers -> Errands],
           IsShop(shop)', shop'.browser \in DOMAIN browsers \cup {0},
           DOMAIN browsers' = DOMAIN browsers, browsers' \in [DOMAIN browsers' -> Pages],
           "fail" \notin groceryWay => Live' \subseteq {shop'.browser},
           UNCHANGED <<groceryWay, defaults, harvest, today, bought>>
    PROVE  GroceryInv'
<1>1. GroceryTypes'
      BY DEF GroceryInv, GroceryTypes, IsHarvest
<1>2. ASSUME "overlap" \notin groceryWay PROVE ShopsInTurn'
      BY <1>2 DEF GroceryInv, ShopsInTurn, ErrandInTurn
<1> QED
      BY <1>1, <1>2 DEF GroceryInv, Priced

LEMMA RestartStep == ASSUME GroceryInv, RestartGrocery PROVE GroceryInv'
<1>1. GroceryTypes
      BY DEF GroceryInv
<1>2. errands' \in [Shoppers -> Errands] /\ \A d \in Shoppers : errands'[d].at = "free"
      BY NoErrandTyped DEF RestartGrocery
<1>3. IsShop(shop)' /\ shop'.browser = 0
      BY <1>1 DEF RestartGrocery, NewShop, IsShop, GroceryTypes, Chains
<1>4. browsers' = [b \in DOMAIN browsers |-> SetLive(browsers[b], FALSE)]
      BY DEF RestartGrocery, SetLive
<1>5. /\ DOMAIN browsers' = DOMAIN browsers /\ browsers' \in [DOMAIN browsers' -> Pages]
      /\ \A b \in DOMAIN browsers : browsers'[b].live = FALSE
      BY <1>1, <1>4, PageFields DEF GroceryTypes
<1>6. Live' = {}
      BY <1>5 DEF Live
<1>7. UNCHANGED <<groceryWay, defaults, harvest, today, bought>>
      BY DEF RestartGrocery
<1> QED
      BY <1>2, <1>3, <1>5, <1>6, <1>7, AllFreeStep

(* The session's browser stops.                                              *)
LEMMA BrowserStopped ==
    ASSUME GroceryTypes, NEW b \in DOMAIN browsers, browsers' = [browsers EXCEPT ![b].live = FALSE],
           shop' = [shop EXCEPT !.browser = 0]
    PROVE  /\ DOMAIN browsers' = DOMAIN browsers /\ browsers' \in [DOMAIN browsers' -> Pages]
           /\ \A x \in DOMAIN browsers \ {b} : browsers'[x] = browsers[x]
           /\ Live' = Live \ {b}
           /\ IsShop(shop)' /\ shop'.browser = 0
<1>1. browsers[b] \in Pages
      BY DEF GroceryTypes
<1>2. Replaces(b, SetLive(browsers[b], FALSE))
      BY DEF Replaces, SetLive
<1>3. /\ SetLive(browsers[b], FALSE) \in Pages
      /\ SetLive(browsers[b], FALSE).live = FALSE
      BY <1>1, PageFields
<1>4. /\ DOMAIN browsers' = DOMAIN browsers /\ browsers' \in [DOMAIN browsers' -> Pages]
      /\ browsers'[b] = SetLive(browsers[b], FALSE)
      /\ \A x \in DOMAIN browsers \ {b} : browsers'[x] = browsers[x]
      BY <1>2, <1>3, PageReplaced DEF Replaces
<1>5. Live' = Live \ {b}
      BY <1>3, <1>4 DEF Live
<1>6. shop' = SetBrowser(shop, 0) /\ IsShop(shop)
      BY DEF SetBrowser, GroceryTypes
<1>7. IsShop(SetBrowser(shop, 0)) /\ SetBrowser(shop, 0).browser = 0
      BY <1>6, ShopFields
<1> QED
      BY <1>4, <1>5, <1>6, <1>7

LEMMA UnloadStep == ASSUME GroceryInv, UnloadGrocery PROVE GroceryInv'
<1>1. GroceryTypes /\ shop.browser \in DOMAIN browsers
      BY DEF GroceryInv, GroceryTypes, UnloadGrocery
<1>2. /\ DOMAIN browsers' = DOMAIN browsers /\ browsers' \in [DOMAIN browsers' -> Pages]
      /\ Live' = Live \ {shop.browser} /\ IsShop(shop)' /\ shop'.browser = 0
      BY <1>1, BrowserStopped DEF UnloadGrocery
<1>3. /\ errands' \in [Shoppers -> Errands] /\ \A d \in Shoppers : errands'[d].at = "free"
      /\ UNCHANGED <<groceryWay, errands, defaults, harvest, today, bought>>
      BY <1>1 DEF UnloadGrocery, GroceryTypes
<1>4. CASE "overlap" \notin groceryWay
  <2>1. "fail" \notin groceryWay => Live' \subseteq {shop'.browser}
        BY <1>2, <1>4 DEF GroceryInv, ShopsInTurn
  <2> QED
        BY <1>2, <1>3, <2>1, AllFreeStep
<1>5. CASE "overlap" \in groceryWay
  <2>1. GroceryTypes'
        BY <1>1, <1>2, <1>3 DEF GroceryTypes, IsHarvest
  <2> QED
        BY <1>3, <1>5, <2>1 DEF GroceryInv, Priced
<1> QED
      BY <1>4, <1>5

LEMMA DisconnectedStep == ASSUME GroceryInv, NEW c \in Shoppers, Disconnected(c) PROVE GroceryInv'
<1> DEFINE b == errands[c].browser
<1>1. GroceryTypes /\ b \in DOMAIN browsers /\ errands[c].at = "disconnect"
      BY DEF GroceryInv, GroceryTypes, Disconnected
<1>2. UNCHANGED <<groceryWay, defaults, harvest, today, bought>> /\ Ends(c)
      BY DEF Disconnected
<1>3. /\ DOMAIN browsers' = DOMAIN browsers /\ browsers' \in [DOMAIN browsers' -> Pages]
      /\ Live' = Live \ {b} /\ IsShop(shop)' /\ shop'.browser = 0
      BY <1>1, BrowserStopped DEF Disconnected
<1>4. /\ errands' \in [Shoppers -> Errands] /\ errands'[c].at = "free"
      /\ \A d \in Shoppers \ {c} : errands'[d] = errands[d]
      BY <1>1, <1>2, EndsTyped
<1> HIDE DEF b
<1>5. CASE "overlap" \notin groceryWay
  <2>1. ShopsInTurn
        BY <1>5 DEF GroceryInv
  <2>2. \A d \in Shoppers : errands'[d].at = "free"
        BY <1>1, <1>4, <2>1 DEF ShopsInTurn
  <2>3. "fail" \notin groceryWay => Live' \subseteq {shop'.browser}
        BY <1>1, <1>3, <2>1 DEF ShopsInTurn, ErrandInTurn, b
  <2> QED
        BY <1>2, <1>3, <1>4, <2>2, <2>3, AllFreeStep
<1>6. CASE "overlap" \in groceryWay
  <2>1. GroceryTypes'
        BY <1>1, <1>2, <1>3, <1>4 DEF GroceryTypes, IsHarvest
  <2> QED
        BY <1>2, <1>6, <2>1 DEF GroceryInv, Priced
<1> QED
      BY <1>5, <1>6

LEMMA PutTyped ==
    ASSUME NEW f, f \in [DOMAIN f -> Pages], IsFiniteSet(DOMAIN f), DOMAIN f \subseteq Nat \ {0},
           NEW n \in Nat \ {0}, NEW page \in Pages, NEW new, new = Put(f, n, page)
    PROVE  /\ DOMAIN new = DOMAIN f \cup {n} /\ IsFiniteSet(DOMAIN new)
           /\ new \in [DOMAIN new -> Pages] /\ new[n] = page
           /\ \A x \in DOMAIN f \ {n} : new[x] = f[x]
<1>1. DOMAIN new = DOMAIN f \cup {n}
      BY DEF Put
<1>2. IsFiniteSet(DOMAIN new)
      BY <1>1, FS_AddElement
<1> QED
      BY <1>1, <1>2 DEF Put

SetErrand(c, at, b) == errands' = [errands EXCEPT ![c].at = at, ![c].browser = b]

LEMMA SetErrandTyped ==
    ASSUME GroceryTypes, NEW c \in Shoppers, NEW at \in Stages, NEW b \in Nat, SetErrand(c, at, b)
    PROVE  /\ errands' \in [Shoppers -> Errands] /\ errands'[c].at = at /\ errands'[c].browser = b
           /\ \A d \in Shoppers \ {c} : errands'[d] = errands[d]
<1> DEFINE mid == [errands EXCEPT ![c].at = at]
<1>1. mid \in [Shoppers -> Errands] /\ mid[c].at = at /\ \A d \in Shoppers \ {c} : mid[d] = errands[d]
      BY DEF GroceryTypes, Errands
<1>2. errands' = [mid EXCEPT ![c].browser = b]
      BY DEF SetErrand
<1> HIDE DEF mid
<1> QED
      BY <1>1, <1>2 DEF Errands

LEMMA ConnectedStep == ASSUME GroceryInv, NEW c \in Shoppers, Connected(c) PROVE GroceryInv'
<1> DEFINE b == Cardinality(DOMAIN browsers) + 1
           page == [live |-> TRUE, chain |-> errands[c].chain, page |-> "home", cart |-> 0, clicks |-> 0,
                    store |-> IF errands[c].chain = "saveon" THEN errands[c].store ELSE 0]
<1>1. /\ GroceryTypes /\ errands[c].at = "connect" /\ errands[c] \in Errands
      /\ UNCHANGED <<groceryWay, defaults, harvest, today, bought>>
      BY DEF Connected, GroceryInv, GroceryTypes
<1>2. b \in Nat \ {0}
      BY <1>1, FS_CardinalityType DEF GroceryTypes
<1>3. page \in Pages /\ page.live = TRUE
      BY <1>1 DEF Pages, Errands, PageKinds
<1>4. browsers' = Put(browsers, b, page)
      BY DEF Connected
<1>5. \/ shop' = SetBrowser(shop, b) /\ SetErrand(c, "choose", b)
      \/ "fail" \in groceryWay /\ Ends(c) /\ UNCHANGED shop
      BY DEF Connected, SetBrowser, SetErrand, Does
<1> HIDE DEF b, page
<1>6. /\ DOMAIN browsers' = DOMAIN browsers \cup {b} /\ IsFiniteSet(DOMAIN browsers')
      /\ browsers' \in [DOMAIN browsers' -> Pages]
      /\ \A x \in DOMAIN browsers \ {b} : browsers'[x] = browsers[x]
  <2>1. browsers \in [DOMAIN browsers -> Pages] /\ IsFiniteSet(DOMAIN browsers) /\ DOMAIN browsers \subseteq Nat \ {0}
        BY <1>1 DEF GroceryTypes
  <2> QED
        BY <1>2, <1>3, <1>4, <2>1, PutTyped
<1>7. Live' \subseteq Live \cup {b}
      BY <1>6 DEF Live
<1>8. /\ IsShop(shop)' /\ shop'.browser \in DOMAIN browsers' \cup {0}
      /\ errands' \in [Shoppers -> Errands] /\ \A d \in Shoppers \ {c} : errands'[d] = errands[d]
      /\ \/ errands'[c].at = "choose" /\ errands'[c].browser = b /\ shop'.browser = b
         \/ errands'[c].at = "free" /\ "fail" \in groceryWay /\ UNCHANGED shop
  <2>1. CASE shop' = SetBrowser(shop, b) /\ SetErrand(c, "choose", b)
    <3>1. IsShop(SetBrowser(shop, b)) /\ SetBrowser(shop, b).browser = b
          BY <1>1, ShopFields DEF GroceryTypes
    <3> QED
          BY <1>1, <1>2, <1>6, <2>1, <3>1, SetErrandTyped DEF Stages
  <2>2. CASE "fail" \in groceryWay /\ Ends(c) /\ UNCHANGED shop
        BY <1>1, <1>6, <2>2, EndsTyped DEF GroceryTypes, IsShop
  <2> QED
        BY <1>5, <2>1, <2>2
<1>9. GroceryTypes'
      BY <1>1, <1>2, <1>6, <1>8 DEF GroceryTypes, IsHarvest
<1>10. ASSUME "overlap" \notin groceryWay PROVE ShopsInTurn'
  <2>1. ShopsInTurn
        BY <1>10 DEF GroceryInv
  <2>2. shop.browser = 0 /\ \A d \in Shoppers \ {c} : errands'[d].at = "free"
        BY <1>1, <1>8, <2>1 DEF ShopsInTurn, ErrandInTurn
  <2>3. \A d \in Shoppers : ErrandInTurn(errands[d])'
        BY <1>8, <2>2 DEF ErrandInTurn
  <2>4. "fail" \notin groceryWay => Live' \subseteq {shop'.browser}
    <3>1. "fail" \notin groceryWay => Live = {}
          BY <1>1, <2>1, <2>2 DEF ShopsInTurn, Live, GroceryTypes
    <3> QED
          BY <1>7, <1>8, <3>1
  <2> QED
        BY <1>1, <2>1, <2>2, <2>3, <2>4 DEF ShopsInTurn
<1> QED
      BY <1>1, <1>9, <1>10 DEF GroceryInv, Priced

(* A click handled is a click gone from the page and a product more in its
   cart.                                                                     *)
LEMMA ClickHandled ==
    ASSUME NEW p \in Pages, NEW fewer \in Int, NEW more \in Int
    PROVE  /\ SetCart(SetClicks(p, fewer), more) \in Pages
           /\ SetCart(SetClicks(p, fewer), more).cart = more
           /\ SetCart(SetClicks(p, fewer), more).live = p.live
<1>1. SetClicks(p, fewer) \in Pages /\ SetClicks(p, fewer).live = p.live
      BY PageFields
<1> QED
      BY <1>1, PageFields

(* The site puts something in the cart, or drops a click.                    *)
LEMMA SiteCartsStep == ASSUME GroceryInv, NEW b \in DOMAIN browsers, SiteCarts(b) PROVE GroceryInv'
<1> DEFINE fewer == browsers[b].clicks - 1
           one == SetClicks(browsers[b], fewer)
           more == browsers[b].cart + 1
           two == SetCart(one, more)
<1>1. GroceryTypes /\ browsers[b] \in Pages /\ UNCHANGED <<groceryWay, shop, defaults, errands, harvest, today>>
      BY DEF SiteCarts, GroceryInv, GroceryTypes
<1>2. fewer \in Int /\ browsers[b].cart \in Int /\ more \in Int
      BY <1>1 DEF Pages
<1>3. one \in Pages /\ one.cart = browsers[b].cart /\ one.live = browsers[b].live
  <2> HIDE DEF fewer
  <2> QED
      BY <1>1, <1>2, ClicksField
<1>4. two \in Pages /\ two.cart = more /\ two.live = browsers[b].live
  <2> HIDE DEF fewer, more
  <2> QED
      BY <1>1, <1>2, ClickHandled
<1>5. \/ Replaces(b, one) /\ UNCHANGED bought
      \/ Replaces(b, two) /\ bought' = [bought EXCEPT !.added = @ + 1]
  <2>1. CASE browsers' = [browsers EXCEPT ![b].clicks = @ - 1] /\ UNCHANGED bought
        BY <2>1 DEF Replaces, SetClicks
  <2>2. CASE /\ browsers' = [browsers EXCEPT ![b].clicks = @ - 1, ![b].cart = @ + 1]
             /\ bought' = [bought EXCEPT !.added = @ + 1]
        BY <1>1, <2>2 DEF Replaces, SetClicks, SetCart, GroceryTypes
  <2> QED
        BY <2>1, <2>2 DEF SiteCarts
<1> HIDE DEF one, two
<1>6. PICK page \in {one, two} :
          /\ Replaces(b, page) /\ page \in Pages /\ page.live = browsers[b].live
          /\ bought'.tracked = bought.tracked /\ bought' \in [tracked : Int, added : Int]
          /\ page.cart - browsers[b].cart <= bought'.added - bought.added
          /\ bought'.added >= bought.added
      BY <1>1, <1>2, <1>3, <1>4, <1>5 DEF GroceryTypes
<1>7. /\ DOMAIN browsers' = DOMAIN browsers /\ browsers' \in [DOMAIN browsers' -> Pages]
      /\ browsers'[b] = page /\ \A x \in DOMAIN browsers \ {b} : browsers'[x] = browsers[x]
      BY <1>1, <1>6, PageReplaced DEF Replaces
<1>8. GroceryTypes'
      BY <1>1, <1>6, <1>7 DEF GroceryTypes, IsShop, IsHarvest
<1>9. ASSUME "overlap" \notin groceryWay PROVE ShopsInTurn'
  <2>1. ShopsInTurn /\ bought.tracked \in Int /\ bought.added \in Int /\ bought'.added \in Int
        BY <1>1, <1>6, <1>9 DEF GroceryInv, GroceryTypes
  <2>2. ASSUME NEW d \in Shoppers PROVE ErrandInTurn(errands[d])'
    <3>1. ErrandInTurn(errands[d]) /\ errands[d].before \in Int
          BY <1>1, <2>1 DEF ShopsInTurn, GroceryTypes, Errands
    <3>2. \A x \in DOMAIN browsers : browsers[x].cart \in Int
                                  /\ browsers'[x].cart \in Int
                                  /\ browsers'[x].cart - browsers[x].cart <= bought'.added - bought.added
          BY <1>1, <1>6, <1>7, <2>1 DEF GroceryTypes, Pages
    <3> QED
          BY <1>1, <1>6, <1>7, <2>1, <3>1, <3>2 DEF ErrandInTurn
  <2>3. Live' = Live
        BY <1>6, <1>7 DEF Live
  <2> QED
        BY <1>1, <1>6, <2>1, <2>2, <2>3 DEF ShopsInTurn
<1> QED
      BY <1>1, <1>8, <1>9 DEF GroceryInv, Priced

(* What is tracked was counted.                                              *)
LEMMA CountedStep == ASSUME GroceryInv, NEW c \in Shoppers, Counted(c) PROVE GroceryInv'
<1> DEFINE b == shop.browser
<1>1. /\ GroceryTypes /\ errands[c].at = "count" /\ Ends(c)
      /\ UNCHANGED <<groceryWay, defaults, browsers, harvest, today>>
      BY DEF Counted, GroceryInv
<1>2. \/ UNCHANGED <<shop, bought>>
      \/ /\ b # 0 /\ browsers[b].cart > errands[c].before /\ bought' = [bought EXCEPT !.tracked = @ + 1]
         /\ \E cart : shop' = SetCartOf(shop, cart)
      BY DEF Counted, SetCartOf
<1>3. IsShop(shop)' /\ shop'.browser = b
      BY <1>1, <1>2, ShopFields DEF GroceryTypes, IsShop
<1>4. /\ errands' \in [Shoppers -> Errands] /\ errands'[c].at = "free"
      /\ \A d \in Shoppers \ {c} : errands'[d] = errands[d]
      BY <1>1, EndsTyped
<1>5. bought' \in [tracked : Int, added : Int]
      BY <1>1, <1>2 DEF GroceryTypes
<1>6. GroceryTypes'
      BY <1>1, <1>3, <1>4, <1>5 DEF GroceryTypes, IsHarvest
<1>7. ASSUME "overlap" \notin groceryWay PROVE ShopsInTurn'
  <2>1. ShopsInTurn
        BY <1>7 DEF GroceryInv
  <2>2. \A d \in Shoppers : errands'[d].at = "free"
        BY <1>1, <1>4, <2>1 DEF ShopsInTurn
  <2>3. bought'.tracked <= bought'.added
    <3>1. ErrandInTurn(errands[c]) /\ errands[c].before \in Int /\ bought \in [tracked : Int, added : Int]
          BY <1>1, <2>1 DEF ShopsInTurn, GroceryTypes, Errands
    <3>2. b # 0 => browsers[b].cart \in Int
          BY <1>1 DEF GroceryTypes, Pages
    <3>3. CASE UNCHANGED bought
          BY <2>1, <3>3 DEF ShopsInTurn
    <3>4. CASE /\ b # 0 /\ browsers[b].cart > errands[c].before
               /\ bought' = [bought EXCEPT !.tracked = @ + 1]
          BY <1>1, <3>1, <3>2, <3>4 DEF ErrandInTurn
    <3> QED
          BY <1>2, <3>3, <3>4
  <2>4. Live' = Live
        BY <1>1 DEF Live
  <2> QED
        BY <1>1, <1>3, <2>1, <2>2, <2>3, <2>4 DEF ShopsInTurn, ErrandInTurn
<1> QED
      BY <1>1, <1>6, <1>7 DEF GroceryInv, Priced

-----------------------------------------------------------------------------
(* All steps                                                                *)

LEMMA GroceryInitially == GroceryInit => GroceryInv
<1> SUFFICES ASSUME GroceryInit PROVE GroceryInv
    OBVIOUS
<1>1. IsShop(shop) /\ shop.browser = 0 /\ defaults \in [Chains -> Nat]
      BY DEF GroceryInit, NewShop, IsShop, Chains
<1>2. IsFiniteSet(DOMAIN browsers) /\ DOMAIN browsers = {}
      BY FS_EmptySet DEF GroceryInit
<1>3. browsers \in [DOMAIN browsers -> Pages]
      BY <1>2 DEF GroceryInit
<1>4. errands \in [Shoppers -> Errands] /\ \A c \in Shoppers : errands[c].at = "free"
      BY NoErrandTyped DEF GroceryInit
<1>5. IsHarvest(harvest) /\ harvest.prices = {}
      BY DEF GroceryInit, IsHarvest
<1>6. bought \in [tracked : Int, added : Int] /\ bought.tracked <= bought.added
      BY DEF GroceryInit
<1>7. GroceryTypes
      BY <1>1, <1>2, <1>3, <1>4, <1>5, <1>6 DEF GroceryTypes
<1>8. ShopsInTurn
      BY <1>2, <1>4, <1>6 DEF ShopsInTurn, ErrandInTurn, Live
<1> QED
      BY <1>5, <1>7, <1>8 DEF GroceryInv, Priced

LEMMA GrocerySteps == GroceryInv /\ [GroceryNext]_groceryVars => GroceryInv'
<1> SUFFICES ASSUME GroceryInv, [GroceryNext]_groceryVars PROVE GroceryInv'
    OBVIOUS
<1>1. ASSUME NEW c \in Shoppers,
             SearchChain(c) \/ StartBrowser(c) \/ StopBrowser(c)
               \/ (\E page \in {"search", "detail"} : Visit(c, page))
               \/ (\E op \in {"search", "detail"} : ReadPage(c, op))
      PROVE  GroceryInv'
  <2>1. CASE SearchChain(c)
        BY <2>1, BeginStep DEF SearchChain, Stages, CallKinds
  <2>2. CASE StartBrowser(c)
        BY <2>2, BeginStep DEF StartBrowser, Stages, CallKinds
  <2>3. CASE StopBrowser(c)
        BY <2>3, BeginStep DEF StopBrowser, Stages, CallKinds
  <2>4. ASSUME NEW page \in {"search", "detail"}, Visit(c, page) PROVE GroceryInv'
        BY <2>4, BeginStep DEF Visit, Stages, CallKinds, PageKinds
  <2>5. ASSUME NEW op \in {"search", "detail"}, ReadPage(c, op) PROVE GroceryInv'
        BY <2>5, BeginStep DEF ReadPage, Stages, CallKinds
  <2> QED
        BY <1>1, <2>1, <2>2, <2>3, <2>4, <2>5
<1>2. CASE NextDay \/ UNCHANGED groceryVars
  <2>1. UNCHANGED <<groceryWay, shop, defaults, browsers, errands, harvest, bought>>
        BY <1>2 DEF NextDay, groceryVars
  <2>2. GroceryTypes'
        BY <2>1 DEF GroceryInv, GroceryTypes, IsShop, IsHarvest
  <2>3. "overlap" \notin groceryWay' => ShopsInTurn'
        BY <2>1 DEF GroceryInv, ShopsInTurn, ErrandInTurn, Live
  <2> QED
        BY <2>1, <2>2, <2>3 DEF GroceryInv, Priced
<1> QED
      BY <1>1, <1>2, SetStoreStep, SearchAnsweredStep, EditCartStep, ConnectedStep, StoreChosenStep,
         DisconnectedStep, VisitedStep, PageReadStep, AddProductStep, ClicksStep, DecreaseStep, CountedStep,
         SyncCartStep, SiteCartsStep, UnloadStep, RestartStep
         DEF GroceryNext

LEMMA GroceryAlways == GrocerySpec => []GroceryInv
BY GroceryInitially, GrocerySteps, PTL DEF GrocerySpec

(* However products are found, read and priced, and calls overlap: one price *)
(* for each product, store and day, and none without its product.            *)
THEOREM OnePriceADayCorrect == GrocerySpec => []OnePriceADay
<1>1. GroceryInv => OnePriceADay
      BY DEF GroceryInv, Priced, OnePriceADay
<1> QED
      BY GroceryAlways, <1>1, PTL

(* For any number of shoppers that wait for each other, and browsers that do *)
(* not fail, the browser that runs is the session's.                         *)
THEOREM OneBrowserCorrect == GrocerySpec => []OneBrowserInTurn
<1>1. GroceryInv => OneBrowserInTurn
  <2> SUFFICES ASSUME GroceryInv, "fail" \notin groceryWay, "overlap" \notin groceryWay PROVE OneBrowser
      BY DEF OneBrowserInTurn
  <2>1. Live \subseteq {shop.browser}
        BY DEF GroceryInv, ShopsInTurn
  <2>2. IsFiniteSet({shop.browser}) /\ Cardinality({shop.browser}) = 1
        BY FS_Singleton
  <2>3. Cardinality(Live) <= 1
        BY <2>1, <2>2, FS_Subset
  <2> QED
        BY <2>1, <2>3 DEF OneBrowser
<1> QED
      BY GroceryAlways, <1>1, PTL

(* While calls do not overlap, no more is tracked than the site has put in   *)
(* its carts, whatever fails, is clicked besides, taken out or stopped.      *)
THEOREM TrackedWasAddedCorrect == GrocerySpec => []TrackedWasAddedInTurn
<1>1. GroceryInv => TrackedWasAddedInTurn
      BY DEF GroceryInv, ShopsInTurn, TrackedWasAddedInTurn, TrackedWasAdded, Does
<1> QED
      BY GroceryAlways, <1>1, PTL

-----------------------------------------------------------------------------
(* Documents and their events                                                *)

DocKinds == IF shelf = "charts" THEN {"chart", "local"} ELSE {"local", "feed"}
DocStates == {"idle", "synced", "error"}
EntryTables == Partial(Nat, Pairs)
DocSort == [kind : DocKinds, state : DocStates, entries : EntryTables]
DocTables == Partial(Nat, DocSort)
FetchedLists == Partial(Nat, Seq(Pairs))

(* A document of a feed has what was last fetched of it.                     *)
Fed(doc, d, fetched) ==
    doc.kind = "feed" =>
        /\ d \in DOMAIN fetched
        /\ Cardinality(DOMAIN doc.entries) = Len(fetched[d])
        /\ {doc.entries[e] : e \in DOMAIN doc.entries} = ToSet(fetched[d])

OpAllowed(op) == op \in {"add", "remove"} => shelf = "charts"

ResultTypes ==
    [docs : DocTables, key : Nat, save : BOOLEAN, drop : SUBSET Nat, made : Nat,
     gone : SUBSET Nat, fetched : FetchedLists]

(* What an outcome o on the memory ds may be.                                *)
DocOutcome(o, ds) ==
    /\ o \in ResultTypes
    /\ DOMAIN o.docs \ DOMAIN ds \in {{}, {story.made + 1}}
    /\ DOMAIN ds \ DOMAIN o.docs = o.drop
    /\ \A d \in DOMAIN o.docs : d # o.key => d \in DOMAIN ds /\ o.docs[d] = ds[d]
    /\ \A d \in DOMAIN o.docs \cap DOMAIN ds :
           DOMAIN ds[d].entries \subseteq DOMAIN o.docs[d].entries \cup o.gone
    /\ o.save \/ o.made > 0 => o.key \in DOMAIN o.docs
    /\ o.save => \A i \in 1..o.made : story.entries + i \in DOMAIN o.docs[o.key].entries
    /\ DOMAIN o.fetched \subseteq {o.key} /\ (~o.save => DOMAIN o.fetched = {})
    /\ (\A d \in DOMAIN ds : Fed(ds[d], d, story.fetched)) =>
           (o.key \in DOMAIN o.docs => Fed(o.docs[o.key], o.key, Backed(o.fetched, story.fetched)))

LEMMA ResultIs ==
    ASSUME NEW ds, NEW d, NEW save, NEW drop, NEW made, NEW gone, NEW fetched
    PROVE  LET o == Result(ds, d, save, drop, made, gone, fetched)
           IN  /\ o = [docs |-> ds, key |-> d, save |-> save, drop |-> drop, made |-> made,
                       gone |-> gone, fetched |-> fetched]
               /\ o.docs = ds /\ o.key = d /\ o.save = save /\ o.drop = drop /\ o.made = made
               /\ o.gone = gone /\ o.fetched = fetched
  BY DEF Result

LEMMA ResultTyped ==
    ASSUME NEW ds \in DocTables, NEW d \in Nat, NEW save \in BOOLEAN, NEW drop \in SUBSET Nat,
           NEW made \in Nat, NEW gone \in SUBSET Nat, NEW fetched \in FetchedLists
    PROVE  Result(ds, d, save, drop, made, gone, fetched) \in ResultTypes
  BY DEF Result, ResultTypes

LEMMA NoFetched == <<>> \in FetchedLists /\ DOMAIN <<>> = {}
<1>1. DOMAIN <<>> = {} /\ <<>> \in [{} -> Seq(Pairs)]
  OBVIOUS
<1>2. <<>> \in Partial(Nat, Seq(Pairs))
  BY <1>1, IsPartial
<1> QED BY <1>1, <1>2 DEF FetchedLists

(* A document is entered, or replaced.                                       *)
LEMMA EnteredOutcome ==
    ASSUME NEW ds \in DocTables, NEW d \in Nat, NEW doc \in DocSort, NEW save \in BOOLEAN,
           NEW made \in Nat, NEW gone \in SUBSET Nat, NEW fetched \in FetchedLists,
           d \in DOMAIN ds \/ d = story.made + 1,
           d \in DOMAIN ds => DOMAIN ds[d].entries \subseteq DOMAIN doc.entries \cup gone,
           save => \A i \in 1..made : story.entries + i \in DOMAIN doc.entries,
           DOMAIN fetched \subseteq {d}, ~save => DOMAIN fetched = {},
           (\A x \in DOMAIN ds : Fed(ds[x], x, story.fetched)) =>
               Fed(doc, d, Backed(fetched, story.fetched))
    PROVE  DocOutcome(Result(Entered(ds, d, doc), d, save, {}, made, gone, fetched), ds)
<1> DEFINE o == Result(Entered(ds, d, doc), d, save, {}, made, gone, fetched)
<1>1. PICK t : t = Entered(ds, d, doc)
  OBVIOUS
<1>2. t \in DocTables
  BY <1>1, EnteredPartial DEF DocTables
<1>3. DOMAIN t = DOMAIN ds \cup {d} /\ t[d] = doc /\ \A y \in DOMAIN ds \ {d} : t[y] = ds[y]
  BY <1>1 DEF Entered
<1>4. o \in ResultTypes
  BY <1>1, <1>2, ResultTyped
<1>5. /\ o.docs = t /\ o.key = d /\ o.save = save /\ o.drop = {} /\ o.made = made
      /\ o.gone = gone /\ o.fetched = fetched
  BY <1>1, ResultIs
<1> HIDE DEF o
<1>6. DOMAIN o.docs \ DOMAIN ds \in {{}, {story.made + 1}}
  BY <1>3, <1>5
<1>7. DOMAIN ds \ DOMAIN o.docs = o.drop
  BY <1>3, <1>5
<1>8. \A x \in DOMAIN o.docs : x # o.key => x \in DOMAIN ds /\ o.docs[x] = ds[x]
  BY <1>3, <1>5
<1>9. \A x \in DOMAIN o.docs \cap DOMAIN ds :
          DOMAIN ds[x].entries \subseteq DOMAIN o.docs[x].entries \cup o.gone
  BY <1>3, <1>5
<1>10. /\ o.save \/ o.made > 0 => o.key \in DOMAIN o.docs
       /\ o.save => \A i \in 1..o.made : story.entries + i \in DOMAIN o.docs[o.key].entries
       /\ DOMAIN o.fetched \subseteq {o.key} /\ (~o.save => DOMAIN o.fetched = {})
  BY <1>3, <1>5
<1>11. (\A x \in DOMAIN ds : Fed(ds[x], x, story.fetched)) =>
           (o.key \in DOMAIN o.docs => Fed(o.docs[o.key], o.key, Backed(o.fetched, story.fetched)))
  BY <1>3, <1>5
<1>12. DocOutcome(o, ds)
  BY <1>4, <1>6, <1>7, <1>8, <1>9, <1>10, <1>11 DEF DocOutcome
<1> QED BY <1>12 DEF o

(* Nothing happens.                                                          *)
LEMMA NothingOutcome ==
    ASSUME NEW ds \in DocTables
    PROVE  0 \notin DOMAIN ds => DocOutcome(Nothing(ds), ds)
<1> DEFINE o == Nothing(ds)
<1>1. o \in ResultTypes
  BY NoFetched, ResultTyped DEF Nothing
<1>2. /\ o.docs = ds /\ o.key = 0 /\ ~o.save /\ o.drop = {} /\ o.made = 0
      /\ o.gone = {} /\ o.fetched = <<>>
  BY DEF Nothing, Result
<1> HIDE DEF o
<1>3. ASSUME 0 \notin DOMAIN ds PROVE DocOutcome(o, ds)
  <2>1. DOMAIN o.docs \ DOMAIN ds \in {{}, {story.made + 1}}
    BY <1>2
  <2>2. DOMAIN ds \ DOMAIN o.docs = o.drop
    BY <1>2
  <2>3. \A x \in DOMAIN o.docs : x # o.key => x \in DOMAIN ds /\ o.docs[x] = ds[x]
    BY <1>2
  <2>4. \A x \in DOMAIN o.docs \cap DOMAIN ds :
            DOMAIN ds[x].entries \subseteq DOMAIN o.docs[x].entries \cup o.gone
    BY <1>2
  <2>5. /\ o.save \/ o.made > 0 => o.key \in DOMAIN o.docs
        /\ o.save => \A i \in 1..o.made : story.entries + i \in DOMAIN o.docs[o.key].entries
        /\ DOMAIN o.fetched \subseteq {o.key} /\ (~o.save => DOMAIN o.fetched = {})
    BY <1>2, NoFetched
  <2>6. o.key \notin DOMAIN o.docs
    BY <1>2, <1>3
  <2> QED BY <1>1, <2>1, <2>2, <2>3, <2>4, <2>5, <2>6 DEF DocOutcome
<1> QED BY <1>3 DEF o

(* A document is taken out.                                                  *)
LEMMA DiscardOutcome ==
    ASSUME NEW ds \in DocTables, NEW o \in Discard(ds)
    PROVE  DocOutcome(o, ds)
<1>1. PICK d \in DOMAIN ds :
          o = Result(Leaving(ds, {d}), d, FALSE, {d}, 0, DOMAIN ds[d].entries, <<>>)
  BY DEF Discard
<1>2. DOMAIN ds \subseteq Nat /\ \A x \in DOMAIN ds : ds[x] \in DocSort
  BY PartialFunction DEF DocTables
<1>3. DOMAIN ds[d].entries \subseteq Nat
  <2>1. ds[d].entries \in Partial(Nat, Pairs)
    BY <1>1, <1>2 DEF DocSort, EntryTables
  <2> QED BY <2>1, PartialFunction
<1>4. PICK t : t = Leaving(ds, {d})
  OBVIOUS
<1>5. t \in DocTables
  BY <1>4, LessPartial DEF DocTables, Leaving
<1>6. DOMAIN t = DOMAIN ds \ {d} /\ \A x \in DOMAIN t : t[x] = ds[x]
  BY <1>4 DEF Leaving
<1>7. o \in ResultTypes
  BY <1>1, <1>2, <1>3, <1>4, <1>5, NoFetched, ResultTyped
<1>8. /\ o.docs = t /\ o.key = d /\ ~o.save /\ o.drop = {d} /\ o.made = 0
      /\ o.fetched = <<>>
  BY <1>1, <1>4 DEF Result
<1>9. DOMAIN o.docs \ DOMAIN ds \in {{}, {story.made + 1}}
  BY <1>6, <1>8
<1>10. DOMAIN ds \ DOMAIN o.docs = o.drop
  BY <1>1, <1>6, <1>8
<1>11. \A x \in DOMAIN o.docs : x # o.key => x \in DOMAIN ds /\ o.docs[x] = ds[x]
  BY <1>6, <1>8
<1>12. \A x \in DOMAIN o.docs \cap DOMAIN ds :
           DOMAIN ds[x].entries \subseteq DOMAIN o.docs[x].entries \cup o.gone
  BY <1>6, <1>8
<1>13. /\ o.save \/ o.made > 0 => o.key \in DOMAIN o.docs
       /\ o.save => \A i \in 1..o.made : story.entries + i \in DOMAIN o.docs[o.key].entries
       /\ DOMAIN o.fetched \subseteq {o.key} /\ (~o.save => DOMAIN o.fetched = {})
  BY <1>8, NoFetched
<1>14. o.key \notin DOMAIN o.docs
  BY <1>6, <1>8
<1> QED BY <1>7, <1>9, <1>10, <1>11, <1>12, <1>13, <1>14 DEF DocOutcome

LEMMA NewDocument ==
    ASSUME NEW kind \in DocKinds
    PROVE  /\ Document(kind) \in DocSort /\ Document(kind).kind = kind
           /\ Document(kind).entries = <<>>
<1>1. DOMAIN <<>> = {} /\ <<>> \in [{} -> Pairs]
  OBVIOUS
<1>2. <<>> \in EntryTables
  BY <1>1, IsPartial DEF EntryTables
<1> QED BY <1>2 DEF Document, DocSort, DocStates

Shelved(ds) ==
    /\ ds \in DocTables /\ story.made \in Nat /\ story.entries \in Nat
    /\ DOMAIN ds \subseteq 1..story.made /\ DOMAIN story.fetched \subseteq 1..story.made

LEMMA FetchedStays ==
    ASSUME NEW doc, NEW d
    PROVE  Fed(doc, d, story.fetched) => Fed(doc, d, Backed(<<>>, story.fetched))
<1>1. PICK f : f = Backed(<<>>, story.fetched)
  OBVIOUS
<1>2. DOMAIN <<>> = {}
  OBVIOUS
<1>3. DOMAIN f = DOMAIN story.fetched /\ \A x \in DOMAIN f : f[x] = story.fetched[x]
  BY <1>1, <1>2 DEF Backed
<1>4. Fed(doc, d, story.fetched) => Fed(doc, d, f)
  BY <1>3 DEF Fed
<1> QED BY <1>1, <1>4

LEMMA DocumentOf ==
    ASSUME NEW ds, Shelved(ds), NEW d \in DOMAIN ds
    PROVE  /\ d \in Nat /\ d \in 1..story.made /\ ds[d] \in DocSort
           /\ ds[d].kind \in DocKinds /\ ds[d].state \in DocStates
           /\ ds[d].entries \in EntryTables /\ DOMAIN ds[d].entries \subseteq Nat
           /\ \A e \in DOMAIN ds[d].entries : ds[d].entries[e] \in Pairs
<1>1. d \in Nat /\ d \in 1..story.made /\ ds[d] \in DocSort
  BY PartialFunction DEF DocTables, Shelved
<1>2. ds[d].kind \in DocKinds /\ ds[d].state \in DocStates /\ ds[d].entries \in EntryTables
  BY <1>1 DEF DocSort
<1> QED BY <1>1, <1>2, PartialFunction DEF EntryTables

LEMMA CreateOutcome ==
    ASSUME NEW ds, Shelved(ds),
           NEW o \in Create(ds, IF shelf = "charts" THEN "chart" ELSE "local")
    PROVE  DocOutcome(o, ds)
<1>1. PICK kind : kind = IF shelf = "charts" THEN "chart" ELSE "local"
  OBVIOUS
<1>2. PICK d : d = story.made + 1
  OBVIOUS
<1>3. o = Result(Entered(ds, d, Document(kind)), d, TRUE, {}, 0, {}, <<>>)
  BY <1>1, <1>2 DEF Create, Saving
<1>4. kind \in DocKinds /\ kind # "feed"
  BY <1>1 DEF DocKinds
<1>5. d \in Nat /\ d \notin DOMAIN ds
  BY <1>2 DEF Shelved
<1>6. Document(kind) \in DocSort /\ Fed(Document(kind), d, Backed(<<>>, story.fetched))
  BY <1>4, NewDocument DEF Fed
<1>7. ds \in DocTables
  BY DEF Shelved
<1>8. \A i \in 1..0 : story.entries + i \in DOMAIN Document(kind).entries
  OBVIOUS
<1> QED BY <1>2, <1>3, <1>5, <1>6, <1>7, <1>8, NoFetched, EnteredOutcome

(* A document of the memory is changed, and saved or not.                    *)
LEMMA ChangedOutcome ==
    ASSUME NEW ds, Shelved(ds), NEW d \in DOMAIN ds, NEW doc \in DocSort, NEW save \in BOOLEAN,
           NEW made \in Nat, NEW gone \in SUBSET Nat,
           DOMAIN ds[d].entries \subseteq DOMAIN doc.entries \cup gone,
           save => \A i \in 1..made : story.entries + i \in DOMAIN doc.entries,
           doc = ds[d] \/ doc.kind # "feed"
    PROVE  DocOutcome(Result(Entered(ds, d, doc), d, save, {}, made, gone, <<>>), ds)
<1>1. ds \in DocTables /\ d \in Nat
  BY DocumentOf DEF Shelved
<1>2. (\A x \in DOMAIN ds : Fed(ds[x], x, story.fetched)) =>
          Fed(doc, d, Backed(<<>>, story.fetched))
  <2>1. CASE doc.kind # "feed"
    BY <2>1 DEF Fed
  <2>2. CASE doc = ds[d]
    BY <2>2, FetchedStays
  <2> QED BY <2>1, <2>2
<1> QED BY <1>1, <1>2, NoFetched, EnteredOutcome

LEMMA ListedSort ==
    ASSUME NEW doc \in DocSort, NEW entries \in EntryTables
    PROVE  /\ Listed(doc, entries) \in DocSort /\ Listed(doc, entries).kind = doc.kind
           /\ Listed(doc, entries).entries = entries
  BY DEF Listed, DocSort

(* An entry is made or changed.                                              *)
LEMMA EntryEntered ==
    ASSUME NEW ds, Shelved(ds), NEW d \in DOMAIN ds, NEW e \in Nat, NEW p \in Pairs
    PROVE  LET doc == Listed(ds[d], Entered(ds[d].entries, e, p))
           IN  /\ doc \in DocSort /\ doc.kind = ds[d].kind /\ e \in DOMAIN doc.entries
               /\ DOMAIN ds[d].entries \subseteq DOMAIN doc.entries
<1>1. PICK t : t = Entered(ds[d].entries, e, p)
  OBVIOUS
<1>2. ds[d] \in DocSort /\ ds[d].entries \in EntryTables
  BY DocumentOf
<1>3. t \in EntryTables
  BY <1>1, <1>2, EnteredPartial DEF EntryTables
<1>4. DOMAIN t = DOMAIN ds[d].entries \cup {e}
  BY <1>1 DEF Entered
<1> QED BY <1>1, <1>2, <1>3, <1>4, ListedSort

LEMMA EventCreateOutcome ==
    ASSUME NEW ds, Shelved(ds), NEW o \in EventCreate(ds)
    PROVE  DocOutcome(o, ds)
<1>1. PICK d \in DOMAIN ds, p \in Proper :
          /\ ds[d].kind = "local"
          /\ o = Saving(ds, d, Listed(ds[d], Entered(ds[d].entries, story.entries + 1, p)), 1, {})
  BY DEF EventCreate
<1>2. PICK doc : doc = Listed(ds[d], Entered(ds[d].entries, story.entries + 1, p))
  OBVIOUS
<1>3. story.entries + 1 \in Nat /\ p \in Pairs
  BY DEF Shelved, Proper
<1>4. /\ doc \in DocSort /\ doc.kind = ds[d].kind /\ story.entries + 1 \in DOMAIN doc.entries
      /\ DOMAIN ds[d].entries \subseteq DOMAIN doc.entries
  BY <1>2, <1>3, EntryEntered
<1>5. \A i \in 1..1 : story.entries + i \in DOMAIN doc.entries
  BY <1>4
<1>6. o = Result(Entered(ds, d, doc), d, TRUE, {}, 1, {}, <<>>)
  BY <1>1, <1>2 DEF Saving
<1>7. doc.kind # "feed"
  BY <1>1, <1>4
<1> QED BY <1>4, <1>5, <1>6, <1>7, ChangedOutcome

LEMMA RowAddOutcome ==
    ASSUME NEW ds, Shelved(ds), shelf = "charts", NEW o \in RowAdd(ds)
    PROVE  DocOutcome(o, ds)
<1>1. PICK d \in DOMAIN ds, p \in Pairs :
          LET doc == Listed(ds[d], Entered(ds[d].entries, story.entries + 1, p))
          IN  o \in {Saving(ds, d, doc, 1, {}), Changing(ds, d, doc, 1)}
  BY DEF RowAdd
<1>2. PICK doc : doc = Listed(ds[d], Entered(ds[d].entries, story.entries + 1, p))
  OBVIOUS
<1>3. story.entries + 1 \in Nat
  BY DEF Shelved
<1>4. /\ doc \in DocSort /\ doc.kind = ds[d].kind /\ story.entries + 1 \in DOMAIN doc.entries
      /\ DOMAIN ds[d].entries \subseteq DOMAIN doc.entries
  BY <1>2, <1>3, EntryEntered
<1>5. doc.kind # "feed"
  BY <1>4, DocumentOf DEF DocKinds
<1>6. \A i \in 1..1 : story.entries + i \in DOMAIN doc.entries
  BY <1>4
<1>7. \E save \in BOOLEAN : o = Result(Entered(ds, d, doc), d, save, {}, 1, {}, <<>>)
  BY <1>1, <1>2 DEF Saving, Changing
<1> QED BY <1>4, <1>5, <1>6, <1>7, ChangedOutcome

LEMMA EntryOf ==
    ASSUME NEW ds, NEW kinds, NEW q \in Entries(ds, kinds)
    PROVE  /\ q[1] \in DOMAIN ds /\ ds[q[1]].kind \in kinds /\ q[2] \in DOMAIN ds[q[1]].entries
<1>1. PICK d \in DOMAIN ds : ds[d].kind \in kinds /\ \E e \in DOMAIN ds[d].entries : q = <<d, e>>
  BY DEF Entries
<1> QED BY <1>1

LEMMA EventUpdateOutcome ==
    ASSUME NEW ds, Shelved(ds), NEW o \in EventUpdate(ds)
    PROVE  DocOutcome(o, ds)
<1>1. PICK q \in Entries(ds, {"local"}), p \in Pairs :
          LET doc == Listed(ds[q[1]], Entered(ds[q[1]].entries, q[2], p))
          IN  o = IF p \in Proper THEN Saving(ds, q[1], doc, 0, {}) ELSE Changing(ds, q[1], doc, 0)
  BY DEF EventUpdate
<1>2. PICK d : d = q[1]
  OBVIOUS
<1>3. d \in DOMAIN ds /\ ds[d].kind = "local" /\ q[2] \in DOMAIN ds[d].entries
  BY <1>2, EntryOf
<1>4. PICK doc : doc = Listed(ds[d], Entered(ds[d].entries, q[2], p))
  OBVIOUS
<1>5. q[2] \in Nat
  BY <1>3, DocumentOf
<1>6. /\ doc \in DocSort /\ doc.kind = ds[d].kind
      /\ DOMAIN ds[d].entries \subseteq DOMAIN doc.entries
  BY <1>3, <1>4, <1>5, EntryEntered
<1>7. \E save \in BOOLEAN : o = Result(Entered(ds, d, doc), d, save, {}, 0, {}, <<>>)
  BY <1>1, <1>2, <1>4 DEF Saving, Changing
<1>8. \A i \in 1..0 : story.entries + i \in DOMAIN doc.entries
  OBVIOUS
<1>9. d \in DOMAIN ds /\ doc.kind # "feed"
  BY <1>3, <1>6
<1>10. DOMAIN ds[d].entries \subseteq DOMAIN doc.entries \cup {}
  BY <1>6
<1> QED BY <1>6, <1>7, <1>8, <1>9, <1>10, ChangedOutcome

(* Entries are taken out.                                                    *)
LEMMA EntriesLeft ==
    ASSUME NEW ds, Shelved(ds), NEW d \in DOMAIN ds, ds[d].kind # "feed", NEW out \in SUBSET Nat
    PROVE  DocOutcome(Saving(ds, d, Listed(ds[d], Leaving(ds[d].entries, out)), 0, out), ds)
<1>1. PICK t : t = Leaving(ds[d].entries, out)
  OBVIOUS
<1>2. ds[d] \in DocSort /\ ds[d].entries \in EntryTables
  BY DocumentOf
<1>3. t \in EntryTables
  BY <1>1, <1>2, LessPartial DEF EntryTables, Leaving
<1>4. DOMAIN ds[d].entries \subseteq DOMAIN t \cup out
  BY <1>1 DEF Leaving
<1>5. PICK doc : doc = Listed(ds[d], t)
  OBVIOUS
<1>6. doc \in DocSort /\ doc.kind = ds[d].kind /\ doc.entries = t
  BY <1>2, <1>3, <1>5, ListedSort
<1>7. \A i \in 1..0 : story.entries + i \in DOMAIN doc.entries
  OBVIOUS
<1>8. DocOutcome(Result(Entered(ds, d, doc), d, TRUE, {}, 0, out, <<>>), ds)
  BY <1>4, <1>6, <1>7, ChangedOutcome
<1> QED BY <1>1, <1>5, <1>8 DEF Saving

LEMMA EventDeleteOutcome ==
    ASSUME NEW ds, Shelved(ds), NEW o \in EventDelete(ds)
    PROVE  DocOutcome(o, ds)
<1>1. PICK q \in Entries(ds, {"local"}) :
          o = Saving(ds, q[1], Listed(ds[q[1]], Leaving(ds[q[1]].entries, {q[2]})), 0, {q[2]})
  BY DEF EventDelete
<1>2. q[1] \in DOMAIN ds /\ ds[q[1]].kind = "local" /\ q[2] \in DOMAIN ds[q[1]].entries
  BY EntryOf
<1>3. {q[2]} \in SUBSET Nat /\ ds[q[1]].kind # "feed"
  BY <1>2, DocumentOf
<1> QED BY <1>1, <1>2, <1>3, EntriesLeft

LEMMA RowRemoveOutcome ==
    ASSUME NEW ds, Shelved(ds), shelf = "charts", NEW o \in RowRemove(ds)
    PROVE  DocOutcome(o, ds)
<1>1. PICK d \in DOMAIN ds, q \in Criteria :
          LET out == {e \in DOMAIN ds[d].entries : Meets(ds[d].entries[e], q)}
          IN  o = Saving(ds, d, Listed(ds[d], Leaving(ds[d].entries, out)), 0, out)
  BY DEF RowRemove
<1>2. PICK out : out = {e \in DOMAIN ds[d].entries : Meets(ds[d].entries[e], q)}
  OBVIOUS
<1>3. o = Saving(ds, d, Listed(ds[d], Leaving(ds[d].entries, out)), 0, out)
  BY <1>1, <1>2
<1>4. out \in SUBSET Nat /\ ds[d].kind # "feed"
  BY <1>2, DocumentOf DEF DocKinds
<1> QED BY <1>3, <1>4, EntriesLeft

LEMMA RestyleOutcome ==
    ASSUME NEW ds, Shelved(ds), NEW o \in Restyle(ds)
    PROVE  DocOutcome(o, ds)
<1>1. PICK d \in DOMAIN ds : o = Result(Entered(ds, d, ds[d]), d, TRUE, {}, 0, {}, <<>>)
  BY DEF Restyle, Saving
<1>2. ds[d] \in DocSort
  BY DocumentOf
<1>3. \A i \in 1..0 : story.entries + i \in DOMAIN ds[d].entries
  OBVIOUS
<1> QED BY <1>1, <1>2, <1>3, ChangedOutcome

(* What is fetched: the feeds of the model have an event at most.            *)
LEMMA FeedIs ==
    ASSUME NEW feed \in Feeds
    PROVE  /\ feed.ok \in BOOLEAN /\ feed.events \in Seq(Pairs) /\ Len(feed.events) \in Nat
           /\ ~feed.ok => Len(feed.events) = 0 /\ feed.events = <<>>
           /\ feed.events = <<>> \/ \E p \in Pairs : feed.events = <<p>>
<1>1. CASE feed = [ok |-> FALSE, events |-> <<>>]
  BY <1>1
<1>2. CASE \E s \in {<<>>} \cup {<<p>> : p \in Pairs} : feed = [ok |-> TRUE, events |-> s]
  <2>1. PICK s \in {<<>>} \cup {<<p>> : p \in Pairs} : feed = [ok |-> TRUE, events |-> s]
    BY <1>2
  <2>2. s = <<>> \/ \E p \in Pairs : s = <<p>>
    BY <2>1
  <2>3. s \in Seq(Pairs)
    <3>1. \A p \in Pairs : <<p>> \in Seq(Pairs)
      OBVIOUS
    <3>2. <<>> \in Seq(Pairs)
      OBVIOUS
    <3> QED BY <2>1, <3>1, <3>2
  <2>4. feed.ok = TRUE /\ feed.events = s
    BY <2>1
  <2>5. Len(s) \in Nat
    BY <2>3
  <2> QED BY <2>2, <2>3, <2>4, <2>5
<1> QED BY <1>1, <1>2 DEF Feeds

LEMMA NoneNumbered ==
    ASSUME NEW n \in Nat
    PROVE  /\ Numbered(<<>>, n) \in EntryTables /\ DOMAIN Numbered(<<>>, n) = {}
           /\ Cardinality(DOMAIN Numbered(<<>>, n)) = Len(<<>>)
           /\ {Numbered(<<>>, n)[e] : e \in DOMAIN Numbered(<<>>, n)} = ToSet(<<>>)
<1>1. PICK t : t = Numbered(<<>>, n)
  OBVIOUS
<1>2. DOMAIN t = {} /\ t \in [{} -> Pairs]
  BY <1>1 DEF Numbered
<1>3. t \in EntryTables
  BY <1>2, IsPartial DEF EntryTables
<1>4. Cardinality(DOMAIN t) = 0
  BY <1>2, FS_EmptySet
<1>5. {t[e] : e \in DOMAIN t} = {} /\ ToSet(<<>>) = {} /\ Len(<<>>) = 0
  BY <1>2 DEF ToSet
<1> QED BY <1>1, <1>2, <1>3, <1>4, <1>5

LEMMA OneNumbered ==
    ASSUME NEW n \in Nat, NEW p \in Pairs
    PROVE  /\ Numbered(<<p>>, n) \in EntryTables /\ DOMAIN Numbered(<<p>>, n) = {n + 1}
           /\ Cardinality(DOMAIN Numbered(<<p>>, n)) = Len(<<p>>)
           /\ {Numbered(<<p>>, n)[e] : e \in DOMAIN Numbered(<<p>>, n)} = ToSet(<<p>>)
<1>1. PICK t : t = Numbered(<<p>>, n)
  OBVIOUS
<1>2. DOMAIN <<p>> = {1} /\ <<p>>[1] = p
  OBVIOUS
<1>3. DOMAIN t = {n + 1} /\ t[n + 1] = p
  BY <1>1, <1>2 DEF Numbered
<1>4. t \in [{n + 1} -> Pairs]
  BY <1>1, <1>2 DEF Numbered
<1>5. t \in EntryTables
  BY <1>4, IsPartial DEF EntryTables
<1>6. Cardinality(DOMAIN t) = 1
  BY <1>3, FS_Singleton
<1>7. {t[e] : e \in DOMAIN t} = {p}
  BY <1>3
<1>8. ToSet(<<p>>) = {p}
  BY <1>2 DEF ToSet
<1>9. Len(<<p>>) = 1
  OBVIOUS
<1> QED BY <1>1, <1>3, <1>5, <1>6, <1>7, <1>8, <1>9

LEMMA Numbers ==
    ASSUME NEW n \in Nat, NEW feed \in Feeds
    PROVE  LET t == Numbered(feed.events, n)
           IN  /\ t \in EntryTables /\ Cardinality(DOMAIN t) = Len(feed.events)
               /\ {t[e] : e \in DOMAIN t} = ToSet(feed.events)
               /\ \A i \in 1..Len(feed.events) : n + i \in DOMAIN t
<1>1. CASE feed.events = <<>>
  BY <1>1, NoneNumbered
<1>2. CASE \E p \in Pairs : feed.events = <<p>>
  <2>1. PICK p \in Pairs : feed.events = <<p>>
    BY <1>2
  <2>2. \A i \in 1..Len(<<p>>) : n + i = n + 1
    OBVIOUS
  <2>3. PICK events : events = <<p>>
    OBVIOUS
  <2>4. PICK t : t = Numbered(events, n)
    OBVIOUS
  <2>5. /\ t \in EntryTables /\ Cardinality(DOMAIN t) = Len(events)
        /\ {t[e] : e \in DOMAIN t} = ToSet(events) /\ DOMAIN t = {n + 1}
    BY <2>3, <2>4, OneNumbered
  <2>6. \A i \in 1..Len(events) : n + i \in DOMAIN t
    BY <2>2, <2>3, <2>5
  <2>7. feed.events = events
    BY <2>1, <2>3
  <2> QED BY <2>4, <2>5, <2>6, <2>7
<1> QED BY <1>1, <1>2, FeedIs

LEMMA FilledSort ==
    ASSUME NEW doc \in DocSort, doc.kind = "feed", NEW feed \in Feeds, story.entries \in Nat
    PROVE  LET new == Filled(doc, feed)
           IN  /\ new \in DocSort /\ new.kind = "feed"
               /\ feed.ok => new.entries = Numbered(feed.events, story.entries)
               /\ ~feed.ok => new.entries = doc.entries
  BY Numbers DEF Filled, DocSort, DocStates

LEMMA OneFetched ==
    ASSUME NEW d \in Nat, NEW events \in Seq(Pairs), NEW f
    PROVE  /\ Entered(<<>>, d, events) \in FetchedLists
           /\ DOMAIN Entered(<<>>, d, events) = {d}
           /\ Backed(Entered(<<>>, d, events), f)[d] = events
           /\ d \in DOMAIN Backed(Entered(<<>>, d, events), f)
<1>1. PICK t : t = Entered(<<>>, d, events)
  OBVIOUS
<1>2. t \in FetchedLists
  BY <1>1, NoFetched, EnteredPartial DEF FetchedLists
<1>3. DOMAIN t = {d} /\ t[d] = events
  BY <1>1, NoFetched DEF Entered
<1>4. Backed(t, f)[d] = events /\ d \in DOMAIN Backed(t, f)
  BY <1>3 DEF Backed
<1> QED BY <1>1, <1>2, <1>3, <1>4

LEMMA FetchedOutcome ==
    ASSUME NEW ds, Shelved(ds), NEW d \in Nat, NEW doc \in DocSort, doc.kind = "feed",
           NEW feed \in Feeds,
           \/ d \in DOMAIN ds /\ doc = ds[d]
           \/ /\ d = story.made + 1 /\ d \notin DOMAIN ds /\ d \notin DOMAIN story.fetched
              /\ DOMAIN doc.entries = {}
    PROVE  DocOutcome(Fetched(ds, d, doc, feed), ds)
<1>1. PICK fetched : fetched = IF feed.ok \/ d \notin DOMAIN story.fetched
                               THEN Entered(<<>>, d, feed.events) ELSE <<>>
  OBVIOUS
<1>2. PICK new : new = Filled(doc, feed)
  OBVIOUS
<1>3. ds \in DocTables /\ story.entries \in Nat
  BY DEF Shelved
<1>4. /\ new \in DocSort /\ new.kind = "feed"
      /\ feed.ok => new.entries = Numbered(feed.events, story.entries)
      /\ ~feed.ok => new.entries = doc.entries
  BY <1>2, <1>3, FilledSort
<1>5. /\ feed.ok \in BOOLEAN /\ feed.events \in Seq(Pairs) /\ Len(feed.events) \in Nat
      /\ ~feed.ok => Len(feed.events) = 0 /\ feed.events = <<>>
  BY FeedIs
<1>6. fetched \in FetchedLists /\ DOMAIN fetched \subseteq {d}
  BY <1>1, <1>5, OneFetched, NoFetched
<1>7. DOMAIN doc.entries \in SUBSET Nat
  <2>1. doc.entries \in Partial(Nat, Pairs)
    BY DEF DocSort, EntryTables
  <2> QED BY <2>1, PartialFunction
<1>8. d \in DOMAIN ds => DOMAIN ds[d].entries \subseteq DOMAIN new.entries \cup DOMAIN doc.entries
  OBVIOUS
<1>9. \A i \in 1..Len(feed.events) : story.entries + i \in DOMAIN new.entries
  <2>1. CASE feed.ok
    BY <1>3, <1>4, <2>1, Numbers
  <2>2. CASE ~feed.ok
    <3>1. Len(feed.events) = 0
      BY <1>5, <2>2
    <3> QED BY <3>1
  <2> QED BY <2>1, <2>2
<1>10. ASSUME \A x \in DOMAIN ds : Fed(ds[x], x, story.fetched)
       PROVE  Fed(new, d, Backed(fetched, story.fetched))
  <2>1. CASE feed.ok
    <3>1. fetched = Entered(<<>>, d, feed.events)
      BY <1>1, <2>1
    <3>2. d \in DOMAIN Backed(fetched, story.fetched) /\ Backed(fetched, story.fetched)[d] = feed.events
      <4>1. d \in Nat /\ feed.events \in Seq(Pairs)
        BY <1>5
      <4> QED BY ONLY <3>1, <4>1, OneFetched
    <3>3. /\ Cardinality(DOMAIN new.entries) = Len(feed.events)
          /\ {new.entries[e] : e \in DOMAIN new.entries} = ToSet(feed.events)
      <4>1. PICK t : t = Numbered(feed.events, story.entries)
        OBVIOUS
      <4>2. new.entries = t
        BY <1>4, <2>1, <4>1
      <4>3. Cardinality(DOMAIN t) = Len(feed.events) /\ {t[e] : e \in DOMAIN t} = ToSet(feed.events)
        BY <1>3, <4>1, Numbers
      <4> QED BY <4>2, <4>3
    <3> QED BY <3>2, <3>3 DEF Fed
  <2>2. CASE ~feed.ok /\ d \in DOMAIN ds
    <3>1. doc = ds[d]
      BY <2>2
    <3>2. Fed(doc, d, story.fetched)
      BY <1>10, <2>2, <3>1
    <3>3. d \in DOMAIN story.fetched
      BY <3>2 DEF Fed
    <3>4. fetched = <<>>
      BY <1>1, <2>2, <3>3
    <3>5. Fed(doc, d, Backed(fetched, story.fetched))
      BY <3>2, <3>4, FetchedStays
    <3>6. new.kind = doc.kind /\ new.entries = doc.entries
      BY <1>4, <2>2
    <3> QED BY <3>5, <3>6 DEF Fed
  <2>3. CASE ~feed.ok /\ d \notin DOMAIN ds
    <3>1. d \notin DOMAIN story.fetched /\ DOMAIN doc.entries = {}
      BY <2>3
    <3>2. fetched = Entered(<<>>, d, feed.events)
      BY <1>1, <3>1
    <3>3. d \in DOMAIN Backed(fetched, story.fetched) /\ Backed(fetched, story.fetched)[d] = <<>>
      BY <1>5, <2>3, <3>2, OneFetched
    <3>4. DOMAIN new.entries = {}
      BY <1>4, <2>3, <3>1
    <3>5. Cardinality(DOMAIN new.entries) = Len(<<>>)
      BY <3>4, FS_EmptySet
    <3>6. {new.entries[e] : e \in DOMAIN new.entries} = ToSet(<<>>)
      BY <3>4 DEF ToSet
    <3> QED BY <3>3, <3>5, <3>6 DEF Fed
  <2> QED BY <2>1, <2>2, <2>3
<1>11. Fetched(ds, d, doc, feed) =
           Result(Entered(ds, d, new), d, TRUE, {}, Len(feed.events), DOMAIN doc.entries, fetched)
  BY <1>1, <1>2 DEF Fetched
<1>12. d \in DOMAIN ds \/ d = story.made + 1
  OBVIOUS
<1>13. (\A x \in DOMAIN ds : Fed(ds[x], x, story.fetched)) =>
           Fed(new, d, Backed(fetched, story.fetched))
  BY <1>10
<1>14. PICK n \in Nat, gone \in SUBSET Nat : n = Len(feed.events) /\ gone = DOMAIN doc.entries
  BY <1>5, <1>7
<1>15. /\ d \in DOMAIN ds => DOMAIN ds[d].entries \subseteq DOMAIN new.entries \cup gone
       /\ \A i \in 1..n : story.entries + i \in DOMAIN new.entries
  BY <1>8, <1>9, <1>14
<1>16. new \in DocSort
  BY <1>4
<1>17. DocOutcome(Result(Entered(ds, d, new), d, TRUE, {}, n, gone, fetched), ds)
  BY <1>3, <1>6, <1>12, <1>13, <1>15, <1>16, EnteredOutcome
<1> QED BY <1>11, <1>14, <1>17

LEMMA ConnectOutcome ==
    ASSUME NEW ds, Shelved(ds), shelf # "charts", NEW o \in Connect(ds)
    PROVE  DocOutcome(o, ds)
<1>1. PICK feed \in Feeds : o = Fetched(ds, story.made + 1, Document("feed"), feed)
  BY DEF Connect, FeedsWithin
<1>2. PICK d : d = story.made + 1
  OBVIOUS
<1>3. d \in Nat /\ d \notin DOMAIN ds /\ d \notin DOMAIN story.fetched
  BY <1>2 DEF Shelved
<1>4. "feed" \in DocKinds
  BY DEF DocKinds
<1>5. PICK doc : doc = Document("feed")
  OBVIOUS
<1>6. doc \in DocSort /\ doc.kind = "feed" /\ doc.entries = <<>>
  BY <1>4, <1>5, NewDocument
<1>7. DOMAIN doc.entries = {}
  BY <1>6
<1>8. DocOutcome(Fetched(ds, d, doc, feed), ds)
  BY <1>2, <1>3, <1>6, <1>7, FetchedOutcome
<1> QED BY <1>1, <1>2, <1>5, <1>8

LEMMA SyncOutcome ==
    ASSUME NEW ds, Shelved(ds), NEW o \in Sync(ds)
    PROVE  DocOutcome(o, ds)
<1>1. PICK d \in DOMAIN ds, feed \in Feeds : ds[d].kind = "feed" /\ o = Fetched(ds, d, ds[d], feed)
  BY DEF Sync, FeedsWithin
<1>2. d \in Nat /\ ds[d] \in DocSort
  BY DocumentOf
<1> QED BY <1>1, <1>2, FetchedOutcome

LEMMA OutcomesAllowed ==
    ASSUME NEW ds, Shelved(ds), NEW op, OpAllowed(op),
           op \in {"connect", "sync"} => shelf # "charts", NEW o \in OutcomesOf(op, ds)
    PROVE  DocOutcome(o, ds)
<1>1. DocOutcome(Nothing(ds), ds)
  BY NothingOutcome DEF Shelved
<1>2. CASE op = "create"
  BY <1>1, <1>2, CreateOutcome DEF OutcomesOf
<1>3. CASE op = "discard"
  <2>1. o \in Discard(ds) \cup {Nothing(ds)}
    BY <1>3 DEF OutcomesOf
  <2> QED BY <1>1, <2>1, DiscardOutcome DEF Shelved
<1>4. CASE op = "connect"
  BY <1>1, <1>4, ConnectOutcome DEF OutcomesOf
<1>5. CASE op = "sync"
  BY <1>1, <1>5, SyncOutcome DEF OutcomesOf
<1>6. CASE op = "event"
  BY <1>1, <1>6, EventCreateOutcome DEF OutcomesOf
<1>7. CASE op = "update"
  BY <1>1, <1>7, EventUpdateOutcome DEF OutcomesOf
<1>8. CASE op = "unevent"
  BY <1>1, <1>8, EventDeleteOutcome DEF OutcomesOf
<1>9. CASE op = "add"
  BY <1>1, <1>9, RowAddOutcome DEF OutcomesOf, OpAllowed
<1>10. CASE op = "remove"
  BY <1>1, <1>10, RowRemoveOutcome DEF OutcomesOf, OpAllowed
<1>11. CASE op = "style"
  BY <1>1, <1>11, RestyleOutcome DEF OutcomesOf
<1>12. CASE op \notin {"create", "discard", "connect", "sync", "event", "update", "unevent",
                       "add", "remove", "style"}
  BY <1>1, <1>12 DEF OutcomesOf
<1> QED BY <1>2, <1>3, <1>4, <1>5, <1>6, <1>7, <1>8, <1>9, <1>10, <1>11, <1>12

-----------------------------------------------------------------------------
(* The invariant of calls one after the other.                               *)

DocFileSort == [whole : BOOLEAN, doc : DocSort]
DocFileTables == Partial(Nat, DocFileSort)
DocStages == {"free", "load", "open", "put"}
DocCallSort ==
    [at : DocStages, op : OpsOf \cup {""}, left : SUBSET Nat, key : Nat, doc : DocSort,
     lost : BOOLEAN, told : SUBSET Nat]
Stories ==
    [made : Nat, entries : Nat, home : Partial(Nat, Nat), told : SUBSET Nat, gone : SUBSET Nat,
     deleted : SUBSET Nat, fetched : FetchedLists]

DocTypes ==
    /\ docs \in DocTables /\ docFiles \in DocFileTables
    /\ docCalls \in [Callers -> DocCallSort] /\ story \in Stories

(* What the memory and the files have of a story s, the memory being ds:     *)
(* what was deleted is in neither, what was told of is in both.              *)
DocPlaces(ds, files, s) ==
    /\ DOMAIN ds \cup DOMAIN files \cup s.deleted \cup DOMAIN s.fetched \subseteq 1..s.made
    /\ s.deleted \cap (DOMAIN ds \cup DOMAIN files) = {}
    /\ s.told \subseteq 1..s.entries /\ DOMAIN s.home = 1..s.entries
    /\ \A e \in 1..s.entries : s.home[e] \in 1..s.made
DocMemory(ds, s) ==
    \A e \in s.told \ s.gone : s.home[e] \in DOMAIN ds => e \in DOMAIN ds[s.home[e]].entries
DocDisk(files, s) ==
    \A e \in s.told \ s.gone :
        s.home[e] \in DOMAIN files /\ files[s.home[e]].whole =>
            e \in DOMAIN files[s.home[e]].doc.entries

(* What is shown of the feeds, but for the documents of K in the files.      *)
MemoryFed(ds, s) == "crash" \notin docWay => \A d \in DOMAIN ds : Fed(ds[d], d, s.fetched)
DiskFed(files, s, K) ==
    "crash" \notin docWay =>
        \A d \in DOMAIN files \ K : files[d].whole => Fed(files[d].doc, d, s.fetched)

DocWorld(ds, files, s, K) ==
    /\ DocPlaces(ds, files, s) /\ DocMemory(ds, s) /\ DocDisk(files, s)
    /\ MemoryFed(ds, s) /\ DiskFed(files, s, K)

(* A call that is about to write has the document as it is in the memory,    *)
(* and with the entries that it will tell of.                                *)
AboutToWrite(c) ==
    LET d == docCalls[c].key
    IN  /\ d \in DOMAIN docs /\ docCalls[c].doc = docs[d] /\ ~docCalls[c].lost
        /\ \A e \in docCalls[c].told :
               e \in 1..story.entries /\ story.home[e] = d /\ e \in DOMAIN docs[d].entries
        /\ docCalls[c].at = "put" => d \in DOMAIN docFiles /\ ~docFiles[d].whole

BeingWritten == {docCalls[c].key : c \in {x \in Callers : docCalls[x].at \in {"open", "put"}}}

DocTurn ==
    /\ DocTypes
    /\ \A c, x \in Callers : docCalls[c].at # "free" /\ docCalls[x].at # "free" => c = x
    /\ \A c \in Callers : docCalls[c].at \in {"open", "put"} => AboutToWrite(c)
    /\ DocWorld(docs, docFiles, story, BeingWritten)
DocInv == OneByOne => DocTurn

LEMMA FreeSort == Free \in DocCallSort /\ Free.at = "free"
<1>1. "local" \in DocKinds
  BY DEF DocKinds
<1>2. Document("local") \in DocSort
  BY <1>1, NewDocument
<1> QED BY <1>2 DEF Free, Caller, DocCallSort, DocStages

LEMMA CallerSort ==
    ASSUME NEW at \in DocStages, NEW op \in OpsOf \cup {""}, NEW left \in SUBSET Nat,
           NEW key \in Nat, NEW doc \in DocSort, NEW told \in SUBSET Nat
    PROVE  LET call == Caller(at, op, left, key, doc, told)
           IN  /\ call \in DocCallSort /\ call.at = at /\ call.op = op /\ call.left = left
               /\ call.key = key /\ call.doc = doc /\ call.told = told /\ ~call.lost
  BY DEF Caller, DocCallSort

LEMMA StoryFields ==
    ASSUME NEW s \in Stories
    PROVE  /\ s.made \in Nat /\ s.entries \in Nat /\ s.home \in Partial(Nat, Nat)
           /\ s.told \in SUBSET Nat /\ s.gone \in SUBSET Nat /\ s.deleted \in SUBSET Nat
           /\ s.fetched \in FetchedLists
  BY DEF Stories

StoryOf(s, m, n, h, g, x, f) ==
    [s EXCEPT !.made = @ + m, !.entries = @ + n, !.home = h, !.gone = @ \cup g,
              !.deleted = @ \cup x, !.fetched = Backed(f, @)]
HomeOf(s, n, d) == [e \in 1..(s.entries + n) |-> IF e <= s.entries THEN s.home[e] ELSE d]

GoneOn(s, t, m, n, h, g, x, f) ==
    /\ t \in Stories /\ t.made = s.made + m /\ t.entries = s.entries + n
    /\ t.home = h /\ t.told = s.told /\ t.gone = s.gone \cup g
    /\ t.deleted = s.deleted \cup x /\ t.fetched = Backed(f, s.fetched)

LEMMA StoryAfter ==
    ASSUME NEW s \in Stories, NEW m \in Nat, NEW n \in Nat, NEW h \in Partial(Nat, Nat),
           NEW g \in SUBSET Nat, NEW x \in SUBSET Nat, NEW f \in FetchedLists
    PROVE  GoneOn(s, StoryOf(s, m, n, h, g, x, f), m, n, h, g, x, f)
<1>1. Backed(f, s.fetched) \in FetchedLists
  BY BackedPartial DEF Stories, FetchedLists
<1>2. PICK b \in FetchedLists : b = Backed(f, s.fetched)
  BY <1>1
<1>3. s.made + m \in Nat /\ s.entries + n \in Nat
  BY StoryFields
<1>4. s.gone \cup g \in SUBSET Nat /\ s.deleted \cup x \in SUBSET Nat
  BY StoryFields
<1>5. PICK made \in Nat, entries \in Nat, gone \in SUBSET Nat, deleted \in SUBSET Nat :
          /\ made = s.made + m /\ entries = s.entries + n /\ gone = s.gone \cup g
          /\ deleted = s.deleted \cup x
  BY <1>3, <1>4, Zenon
<1>6. PICK t : t = [s EXCEPT !.made = made, !.entries = entries, !.home = h,
                             !.gone = gone, !.deleted = deleted, !.fetched = b]
  OBVIOUS
<1>7. /\ t \in Stories /\ t.made = made /\ t.entries = entries /\ t.home = h
      /\ t.told = s.told /\ t.gone = gone /\ t.deleted = deleted /\ t.fetched = b
  BY <1>6 DEF Stories
<1>8. StoryOf(s, m, n, h, g, x, f) = t
  BY <1>2, <1>5, <1>6 DEF StoryOf
<1> QED BY <1>2, <1>5, <1>7, <1>8 DEF GoneOn

LEMMA StoryTold ==
    ASSUME NEW s \in Stories, NEW told \in SUBSET Nat
    PROVE  \A t : t = [s EXCEPT !.told = @ \cup told]
               => /\ t \in Stories /\ t.made = s.made /\ t.entries = s.entries
                  /\ t.home = s.home /\ t.told = s.told \cup told /\ t.gone = s.gone
                  /\ t.deleted = s.deleted /\ t.fetched = s.fetched
  BY DEF Stories

LEMMA HomeAfter ==
    ASSUME NEW s \in Stories, NEW n \in Nat, NEW d \in Nat, DOMAIN s.home = 1..s.entries
    PROVE  LET h == HomeOf(s, n, d)
           IN  /\ h \in Partial(Nat, Nat) /\ DOMAIN h = 1..s.entries + n
               /\ \A e \in 1..s.entries : h[e] = s.home[e]
               /\ \A e \in 1..s.entries + n : e \notin 1..s.entries => h[e] = d
<1>0. PICK h : h = HomeOf(s, n, d)
  OBVIOUS
<1>1. s.entries \in Nat /\ \A e \in 1..s.entries : s.home[e] \in Nat
  BY StoryFields, PartialFunction
<1>2. h \in [1..s.entries + n -> Nat]
  BY <1>0, <1>1 DEF HomeOf
<1>3. 1..s.entries + n \subseteq Nat
  BY <1>1
<1>4. h \in Partial(Nat, Nat)
  BY <1>2, <1>3, IsPartial
<1>5. /\ DOMAIN h = 1..s.entries + n
      /\ \A e \in 1..s.entries : h[e] = s.home[e]
      /\ \A e \in 1..s.entries + n : e \notin 1..s.entries => h[e] = d
  BY <1>0, <1>1 DEF HomeOf
<1> QED BY <1>0, <1>4, <1>5

(* The story after an outcome.                                               *)
Told(o, ds, s) ==
    /\ s \in Stories
    /\ s.made = story.made + Cardinality(DOMAIN o.docs \ DOMAIN ds)
    /\ s.entries = story.entries + o.made
    /\ DOMAIN s.home = 1..story.entries + o.made
    /\ \A e \in 1..story.entries : s.home[e] = story.home[e]
    /\ \A e \in 1..story.entries + o.made : e \notin 1..story.entries => s.home[e] = o.key
    /\ s.told = story.told /\ s.gone = story.gone \cup o.gone
    /\ s.deleted = story.deleted \cup (DOMAIN ds \ DOMAIN o.docs)
    /\ s.fetched = Backed(o.fetched, story.fetched)

LEMMA OutcomeFields ==
    ASSUME NEW o \in ResultTypes
    PROVE  /\ o.docs \in DocTables /\ o.key \in Nat /\ o.save \in BOOLEAN /\ o.drop \in SUBSET Nat
           /\ o.made \in Nat /\ o.gone \in SUBSET Nat /\ o.fetched \in FetchedLists
  BY DEF ResultTypes

LEMMA NewDocuments ==
    ASSUME NEW ds, NEW o, DocOutcome(o, ds), story.made \in Nat
    PROVE  /\ Cardinality(DOMAIN o.docs \ DOMAIN ds) \in Nat
           /\ DOMAIN ds \subseteq 1..story.made =>
                  DOMAIN o.docs \subseteq 1..story.made + Cardinality(DOMAIN o.docs \ DOMAIN ds)
<1>1. CASE DOMAIN o.docs \ DOMAIN ds = {}
  <2>1. Cardinality(DOMAIN o.docs \ DOMAIN ds) = 0
    BY <1>1, FS_EmptySet
  <2> QED BY <1>1, <2>1
<1>2. CASE DOMAIN o.docs \ DOMAIN ds = {story.made + 1}
  <2>1. Cardinality(DOMAIN o.docs \ DOMAIN ds) = 1
    BY <1>2, FS_Singleton
  <2> QED BY <1>2, <2>1
<1> QED BY <1>1, <1>2 DEF DocOutcome

LEMMA OutcomeTold ==
    ASSUME story \in Stories, DOMAIN story.home = 1..story.entries, NEW ds \in DocTables, NEW o,
           DocOutcome(o, ds)
    PROVE  Told(o, ds, [story EXCEPT
                            !.made = @ + Cardinality(DOMAIN o.docs \ DOMAIN ds),
                            !.entries = @ + o.made,
                            !.home = [e \in 1..(story.entries + o.made) |->
                                         IF e <= story.entries THEN @[e] ELSE o.key],
                            !.gone = @ \cup o.gone,
                            !.deleted = @ \cup ((DOMAIN ds) \ DOMAIN o.docs),
                            !.fetched = Backed(o.fetched, @)])
<1>1. story.made \in Nat
  BY StoryFields
<1>2. /\ o.key \in Nat /\ o.made \in Nat /\ o.gone \in SUBSET Nat /\ o.fetched \in FetchedLists
  BY OutcomeFields DEF DocOutcome
<1>3. DOMAIN ds \ DOMAIN o.docs \in SUBSET Nat
  BY PartialFunction DEF DocTables
<1>4. PICK m \in Nat : m = Cardinality(DOMAIN o.docs \ DOMAIN ds)
  BY <1>1, NewDocuments
<1>5. PICK x \in SUBSET Nat : x = DOMAIN ds \ DOMAIN o.docs
  BY <1>3
<1>6. PICK h : h = HomeOf(story, o.made, o.key)
  OBVIOUS
<1>7. /\ h \in Partial(Nat, Nat) /\ DOMAIN h = 1..story.entries + o.made
      /\ \A e \in 1..story.entries : h[e] = story.home[e]
      /\ \A e \in 1..story.entries + o.made : e \notin 1..story.entries => h[e] = o.key
  BY <1>2, <1>6, HomeAfter
<1>8. PICK s : s = StoryOf(story, m, o.made, h, o.gone, x, o.fetched)
  OBVIOUS
<1>9. GoneOn(story, s, m, o.made, h, o.gone, x, o.fetched)
  BY <1>2, <1>7, <1>8, StoryAfter
<1>10. Told(o, ds, s)
  BY <1>4, <1>5, <1>7, <1>9 DEF Told, GoneOn
<1> QED BY <1>4, <1>5, <1>6, <1>8, <1>10 DEF StoryOf, HomeOf

(* What an outcome makes of the memory, the files and the story.             *)
LEMMA WorldAfter ==
    ASSUME NEW ds, Shelved(ds), NEW files \in DocFileTables, story \in Stories,
           DocWorld(ds, files, story, {}), NEW o, DocOutcome(o, ds), NEW s, Told(o, ds, s)
    PROVE  DocWorld(o.docs, Leaving(files, o.drop), s, IF o.save THEN {o.key} ELSE {})
<1>1. PICK left : left = Leaving(files, o.drop)
  OBVIOUS
<1>2. DOMAIN left = DOMAIN files \ o.drop /\ \A d \in DOMAIN left : left[d] = files[d]
  BY <1>1 DEF Leaving
<1>3. /\ o.key \in Nat /\ o.save \in BOOLEAN /\ o.made \in Nat /\ o.fetched \in FetchedLists
  BY OutcomeFields DEF DocOutcome
<1>4. story.made \in Nat /\ story.entries \in Nat /\ s.made \in Nat /\ s.entries \in Nat
  BY StoryFields DEF Told
<1>5. /\ story.made <= s.made /\ DOMAIN o.docs \subseteq 1..s.made
  <2>1. PICK m : m = Cardinality(DOMAIN o.docs \ DOMAIN ds)
    OBVIOUS
  <2>2. m \in Nat /\ s.made = story.made + m
    BY <1>4, <2>1, NewDocuments DEF Told
  <2>3. DOMAIN ds \subseteq 1..story.made
    BY DEF Shelved
  <2>4. DOMAIN o.docs \subseteq 1..story.made + m
    BY <1>4, <2>1, <2>3, NewDocuments
  <2> QED BY <1>4, <2>2, <2>4
<1>6. DocPlaces(o.docs, left, s)
  <2>1. DOMAIN s.fetched \subseteq 1..s.made
    <3>1. s.fetched = Backed(o.fetched, story.fetched)
      BY DEF Told
    <3>2. DOMAIN s.fetched = DOMAIN o.fetched \cup DOMAIN story.fetched
      BY <3>1 DEF Backed
    <3>3. DOMAIN o.fetched \subseteq DOMAIN o.docs
      BY <1>3 DEF DocOutcome
    <3>4. DOMAIN story.fetched \subseteq 1..story.made
      BY DEF Shelved
    <3> QED BY <1>4, <1>5, <3>2, <3>3, <3>4
  <2>2. DOMAIN ds \cup DOMAIN files \cup story.deleted \subseteq 1..story.made
    BY DEF DocWorld, DocPlaces
  <2>3. DOMAIN ds \ DOMAIN o.docs = o.drop /\ s.deleted = story.deleted \cup o.drop
    BY DEF Told, DocOutcome
  <2>4. DOMAIN left \cup s.deleted \subseteq 1..s.made
    BY <1>2, <1>4, <1>5, <2>2, <2>3
  <2>5. s.deleted \cap DOMAIN left = {}
    BY <1>2, <2>3 DEF DocWorld, DocPlaces
  <2>6. s.deleted \cap DOMAIN o.docs = {}
    <3>1. DOMAIN o.docs \subseteq DOMAIN ds \cup {story.made + 1}
      BY DEF DocOutcome
    <3>2. story.made + 1 \notin story.deleted
      BY <1>4, <2>2
    <3>3. story.deleted \cap DOMAIN ds = {}
      BY DEF DocWorld, DocPlaces
    <3> QED BY <2>3, <3>1, <3>2, <3>3
  <2>7. s.told \subseteq 1..s.entries /\ DOMAIN s.home = 1..s.entries
    <3>1. s.told = story.told /\ s.entries = story.entries + o.made
      BY DEF Told
    <3>2. story.told \subseteq 1..story.entries
      BY DEF DocWorld, DocPlaces
    <3>3. DOMAIN s.home = 1..story.entries + o.made
      BY DEF Told
    <3> QED BY <1>3, <1>4, <3>1, <3>2, <3>3
  <2>8. ASSUME NEW e \in 1..s.entries PROVE s.home[e] \in 1..s.made
    <3>1. CASE e \in 1..story.entries
      <4>1. s.home[e] = story.home[e] /\ story.home[e] \in 1..story.made
        BY <3>1 DEF Told, DocWorld, DocPlaces
      <4> QED BY <1>4, <1>5, <4>1
    <3>2. CASE e \notin 1..story.entries
      <4>1. s.entries = story.entries + o.made
        BY DEF Told
      <4>2. s.home[e] = o.key
        BY <3>2, <4>1 DEF Told
      <4>3. o.made > 0
        BY <1>3, <1>4, <3>2, <4>1
      <4>4. o.key \in DOMAIN o.docs
        BY <4>3 DEF DocOutcome
      <4> QED BY <1>5, <4>2, <4>4
    <3> QED BY <3>1, <3>2
  <2> QED BY <1>5, <2>1, <2>4, <2>5, <2>6, <2>7, <2>8 DEF DocPlaces
<1>7. \A e \in s.told \ s.gone :
          e \in story.told \ story.gone /\ e \notin o.gone /\ s.home[e] = story.home[e]
             /\ story.home[e] \in 1..story.made
  BY DEF Told, DocWorld, DocPlaces
<1>8. DocMemory(o.docs, s)
  <2> SUFFICES ASSUME NEW e \in s.told \ s.gone, s.home[e] \in DOMAIN o.docs
               PROVE  e \in DOMAIN o.docs[s.home[e]].entries
    BY DEF DocMemory
  <2>1. /\ e \in story.told \ story.gone /\ e \notin o.gone /\ s.home[e] = story.home[e]
        /\ story.home[e] \in 1..story.made
    BY <1>7
  <2>2. story.home[e] \in DOMAIN ds
    <3>1. DOMAIN o.docs \subseteq DOMAIN ds \cup {story.made + 1}
      BY DEF DocOutcome
    <3> QED BY <1>4, <2>1, <3>1
  <2>3. e \in DOMAIN ds[story.home[e]].entries
    BY <2>1, <2>2 DEF DocWorld, DocMemory
  <2> QED BY <2>1, <2>2, <2>3 DEF DocOutcome
<1>9. DocDisk(left, s)
  BY <1>2, <1>7 DEF DocDisk, DocWorld
<1>10. \A d : d # o.key \/ ~o.save =>
           \A doc : Fed(doc, d, story.fetched) => Fed(doc, d, s.fetched)
  <2> SUFFICES ASSUME NEW d, d # o.key \/ ~o.save, NEW doc, Fed(doc, d, story.fetched)
               PROVE  Fed(doc, d, s.fetched)
    OBVIOUS
  <2>1. s.fetched = Backed(o.fetched, story.fetched)
    BY DEF Told
  <2>2. d \notin DOMAIN o.fetched
    BY DEF DocOutcome
  <2>3. d \in DOMAIN story.fetched => d \in DOMAIN s.fetched /\ s.fetched[d] = story.fetched[d]
    BY <2>1, <2>2 DEF Backed
  <2> QED BY <2>3 DEF Fed
<1>11. MemoryFed(o.docs, s)
  <2> SUFFICES ASSUME "crash" \notin docWay, NEW d \in DOMAIN o.docs
               PROVE  Fed(o.docs[d], d, s.fetched)
    BY DEF MemoryFed
  <2>1. \A x \in DOMAIN ds : Fed(ds[x], x, story.fetched)
    BY DEF DocWorld, MemoryFed
  <2>2. CASE d = o.key
    <3>1. o.key \in DOMAIN o.docs
      BY <2>2
    <3>2. Fed(o.docs[o.key], o.key, Backed(o.fetched, story.fetched))
      BY <2>1, <3>1 DEF DocOutcome
    <3>3. s.fetched = Backed(o.fetched, story.fetched)
      BY DEF Told
    <3> QED BY <2>2, <3>2, <3>3
  <2>3. CASE d # o.key
    <3>1. d \in DOMAIN ds /\ o.docs[d] = ds[d]
      BY <2>3 DEF DocOutcome
    <3>2. Fed(ds[d], d, story.fetched)
      BY <2>1, <3>1
    <3> QED BY <1>10, <2>3, <3>1, <3>2
  <2> QED BY <2>2, <2>3
<1>12. DiskFed(left, s, IF o.save THEN {o.key} ELSE {})
  <2> SUFFICES ASSUME "crash" \notin docWay, NEW d \in DOMAIN left, d # o.key \/ ~o.save,
                      left[d].whole
               PROVE  Fed(left[d].doc, d, s.fetched)
    BY <1>3 DEF DiskFed
  <2>1. d \in DOMAIN files /\ left[d] = files[d]
    BY <1>2
  <2>2. Fed(files[d].doc, d, story.fetched)
    BY <2>1 DEF DocWorld, DiskFed
  <2> QED BY <1>10, <2>1, <2>2
<1> QED BY <1>1, <1>6, <1>8, <1>9, <1>11, <1>12 DEF DocWorld

(* The invariant after a step, piece by piece.                               *)
LEMMA TypesAfter ==
    ASSUME shelf' = shelf, docWay' = docWay
    PROVE  /\ docs' \in DocTables /\ docFiles' \in DocFileTables
           /\ docCalls' \in [Callers -> DocCallSort] /\ story' \in Stories
           => DocTypes'
  BY DEF DocTypes, DocTables, DocFileTables, DocFileSort, DocCallSort, DocSort, DocKinds, OpsOf

LEMMA PlacesAfter ==
    ASSUME docWay' = docWay
    PROVE  DocWorld(docs', docFiles', story', BeingWritten') =>
               DocWorld(docs, docFiles, story, BeingWritten)'
  BY DEF DocWorld, DocPlaces, DocMemory, DocDisk, MemoryFed, DiskFed

(* The call of c, when all others are free.                                  *)
Only(c) == \A x \in Callers \ {c} : docCalls[x].at = "free"

LEMMA OneCall ==
    ASSUME NEW c \in Callers, Only(c)
    PROVE  /\ \A x, y \in Callers : docCalls[x].at # "free" /\ docCalls[y].at # "free" => x = y
           /\ BeingWritten = IF docCalls[c].at \in {"open", "put"} THEN {docCalls[c].key} ELSE {}
           /\ \A x \in Callers : docCalls[x].at \in {"open", "put"} => x = c
<1>1. \A x \in Callers : docCalls[x].at # "free" => x = c
  BY DEF Only
<1>2. \A x \in Callers : docCalls[x].at \in {"open", "put"} => x = c
  BY <1>1
<1>3. CASE docCalls[c].at \in {"open", "put"}
  <2>1. {x \in Callers : docCalls[x].at \in {"open", "put"}} = {c}
    BY <1>2, <1>3
  <2>2. BeingWritten = {docCalls[c].key}
    BY <2>1 DEF BeingWritten
  <2> QED BY <1>1, <1>2, <1>3, <2>2
<1>4. CASE docCalls[c].at \notin {"open", "put"}
  <2>1. {x \in Callers : docCalls[x].at \in {"open", "put"}} = {}
    BY <1>2, <1>4
  <2>2. BeingWritten = {}
    BY <2>1 DEF BeingWritten
  <2> QED BY <1>1, <1>2, <1>4, <2>2
<1> QED BY <1>3, <1>4

LEMMA OneCallAfter ==
    ASSUME NEW c \in Callers, Only(c)'
    PROVE  /\ \A x, y \in Callers : docCalls'[x].at # "free" /\ docCalls'[y].at # "free" => x = y
           /\ BeingWritten' = IF docCalls'[c].at \in {"open", "put"} THEN {docCalls'[c].key} ELSE {}
           /\ \A x \in Callers : docCalls'[x].at \in {"open", "put"} => x = c
<1>1. \A x \in Callers : docCalls'[x].at # "free" => x = c
  BY DEF Only
<1>2. \A x \in Callers : docCalls'[x].at \in {"open", "put"} => x = c
  BY <1>1
<1>3. CASE docCalls'[c].at \in {"open", "put"}
  <2>1. {x \in Callers : docCalls'[x].at \in {"open", "put"}} = {c}
    BY <1>2, <1>3
  <2>2. BeingWritten' = {docCalls'[c].key}
    BY <2>1 DEF BeingWritten
  <2> QED BY <1>1, <1>2, <1>3, <2>2
<1>4. CASE docCalls'[c].at \notin {"open", "put"}
  <2>1. {x \in Callers : docCalls'[x].at \in {"open", "put"}} = {}
    BY <1>2, <1>4
  <2>2. BeingWritten' = {}
    BY <2>1 DEF BeingWritten
  <2> QED BY <1>1, <1>2, <1>4, <2>2
<1> QED BY <1>3, <1>4

LEMMA TurnAfter ==
    ASSUME NEW c \in Callers, Only(c)', shelf' = shelf, docWay' = docWay,
           docs' \in DocTables, docFiles' \in DocFileTables,
           docCalls' \in [Callers -> DocCallSort], story' \in Stories,
           docCalls'[c].at \in {"open", "put"} => AboutToWrite(c)',
           DocWorld(docs', docFiles', story',
                    IF docCalls'[c].at \in {"open", "put"} THEN {docCalls'[c].key} ELSE {})
    PROVE  DocTurn'
<1>1. DocTypes'
  BY TypesAfter
<1>2. /\ \A x, y \in Callers : docCalls'[x].at # "free" /\ docCalls'[y].at # "free" => x = y
      /\ \A x \in Callers : docCalls'[x].at \in {"open", "put"} => x = c
  BY OneCallAfter
<1>3. BeingWritten' = IF docCalls'[c].at \in {"open", "put"} THEN {docCalls'[c].key} ELSE {}
  BY OneCallAfter
<1>4. DocWorld(docs, docFiles, story, BeingWritten)'
  BY <1>3, PlacesAfter
<1>5. \A x \in Callers : docCalls'[x].at \in {"open", "put"} => AboutToWrite(x)'
  BY <1>2
<1> QED BY <1>1, <1>2, <1>4, <1>5 DEF DocTurn

LEMMA OpsAllowed ==
    ASSUME NEW op \in OpsOf \cup {""}
    PROVE  OpAllowed(op) /\ (op \in {"connect", "sync"} => shelf # "charts")
  BY DEF OpsOf, OpAllowed

LEMMA Following ==
    ASSUME NEW n \in Nat, NEW k \in Nat
    PROVE  \A e \in {n + i : i \in 1..k} : e \in Nat /\ e \in 1..n + k /\ e \notin 1..n
  OBVIOUS

(* A call does what it is for.                                               *)
LEMMA CarryStep ==
    ASSUME DocTypes, NEW c \in Callers, Only(c), NEW op \in OpsOf \cup {""}, NEW ds, Shelved(ds),
           DocWorld(ds, docFiles, story, {}), Carry(c, op, ds)
    PROVE  DocTurn'
<1>1. PICK o \in OutcomesOf(op, ds) :
          LET new == {story.entries + i : i \in 1..o.made}
          IN  /\ docs' = o.docs /\ docsLoaded' = TRUE
              /\ docFiles' = Leaving(docFiles, o.drop)
              /\ docCalls' = [x \in Callers |->
                     IF x = c
                     THEN IF o.save THEN Caller("open", op, {}, o.key, o.docs[o.key], new) ELSE Free
                     ELSE IF docCalls[x].at = "put" /\ docCalls[x].key \in o.drop
                          THEN [docCalls[x] EXCEPT !.lost = TRUE] ELSE docCalls[x]]
              /\ story' = [story EXCEPT
                     !.made = @ + Cardinality(DOMAIN o.docs \ DOMAIN ds),
                     !.entries = @ + o.made,
                     !.home = [e \in 1..(story.entries + o.made) |->
                                  IF e <= story.entries THEN @[e] ELSE o.key],
                     !.gone = @ \cup o.gone,
                     !.deleted = @ \cup ((DOMAIN ds) \ DOMAIN o.docs),
                     !.fetched = Backed(o.fetched, @)]
              /\ UNCHANGED <<shelf, docWay>>
  BY DEF Carry
<1>2. DocOutcome(o, ds)
  BY OpsAllowed, OutcomesAllowed
<1>3. /\ docs' = o.docs /\ docFiles' = Leaving(docFiles, o.drop) /\ shelf' = shelf
      /\ docWay' = docWay
  BY <1>1
<1>4. docFiles \in DocFileTables /\ docCalls \in [Callers -> DocCallSort] /\ story \in Stories
  BY DEF DocTypes
<1>5. DOMAIN story.home = 1..story.entries /\ ds \in DocTables
  BY DEF DocWorld, DocPlaces, Shelved
<1>6. Told(o, ds, story')
  BY <1>1, <1>2, <1>4, <1>5, OutcomeTold
<1>7. DocWorld(docs', docFiles', story', IF o.save THEN {o.key} ELSE {})
  BY <1>2, <1>3, <1>4, <1>6, WorldAfter
<1>8. /\ o.docs \in DocTables /\ o.key \in Nat /\ o.save \in BOOLEAN /\ o.made \in Nat
  BY <1>2, OutcomeFields DEF DocOutcome
<1>9. docs' \in DocTables /\ docFiles' \in DocFileTables /\ story' \in Stories
  BY <1>3, <1>4, <1>6, <1>8, LessPartial DEF DocFileTables, Leaving, Told
<1>10. PICK new : new = {story.entries + i : i \in 1..o.made}
  OBVIOUS
<1>0. story.entries \in Nat
  BY <1>4, StoryFields
<1>11. new \in SUBSET Nat
  BY <1>0, <1>8, <1>10, Following
<1>12. docCalls' = [x \in Callers |->
            IF x = c THEN IF o.save THEN Caller("open", op, {}, o.key, o.docs[o.key], new) ELSE Free
            ELSE docCalls[x]]
  <2>1. \A x \in Callers \ {c} : docCalls[x].at # "put"
    BY DEF Only
  <2> QED BY <1>1, <1>10, <2>1
<1>13. \A x \in Callers \ {c} : docCalls'[x] = docCalls[x]
  BY <1>12
<1>14. Only(c)'
  BY <1>13 DEF Only
<1>15. CASE o.save
  <2>1. o.key \in DOMAIN o.docs /\ o.docs[o.key] \in DocSort
    <3>1. o.key \in DOMAIN o.docs
      BY <1>2, <1>15 DEF DocOutcome
    <3>2. o.docs \in Partial(Nat, DocSort)
      BY <1>8 DEF DocTables
    <3> QED BY <3>1, <3>2, PartialFunction
  <2>2. PICK call : call = Caller("open", op, {}, o.key, o.docs[o.key], new)
    OBVIOUS
  <2>3. /\ call \in DocCallSort /\ call.at = "open" /\ call.key = o.key
        /\ call.doc = o.docs[o.key] /\ call.told = new /\ ~call.lost
    BY <1>8, <1>11, <2>1, <2>2 DEF Caller, DocCallSort, DocStages
  <2>4. docCalls' = [x \in Callers |-> IF x = c THEN call ELSE docCalls[x]]
    BY <1>12, <1>15, <2>2
  <2>5. docCalls' \in [Callers -> DocCallSort] /\ docCalls'[c] = call
    BY <1>4, <2>3, <2>4
  <2>6. AboutToWrite(c)'
    <3>1. \A e \in new : e \in DOMAIN o.docs[o.key].entries
      <4>1. \A i \in 1..o.made : story.entries + i \in DOMAIN o.docs[o.key].entries
        BY <1>2, <1>15 DEF DocOutcome
      <4> QED BY <1>10, <4>1
    <3>2. \A e \in new : e \in 1..story.entries + o.made /\ e \notin 1..story.entries
      BY <1>0, <1>8, <1>10, Following
    <3>3. \A e \in new : e \in 1..story'.entries /\ story'.home[e] = o.key
      BY <1>6, <3>2 DEF Told
    <3> QED BY <1>3, <2>1, <2>3, <2>5, <3>1, <3>3 DEF AboutToWrite
  <2>7. /\ docCalls'[c].at \in {"open", "put"} /\ docCalls'[c].key = o.key
    BY <2>3, <2>5
  <2>8. DocWorld(docs', docFiles', story',
                 IF docCalls'[c].at \in {"open", "put"} THEN {docCalls'[c].key} ELSE {})
    BY <1>7, <1>15, <2>7
  <2> QED BY <1>3, <1>9, <1>14, <2>5, <2>6, <2>8, TurnAfter
<1>16. CASE ~o.save
  <2>1. docCalls' \in [Callers -> DocCallSort] /\ docCalls'[c] = Free
    BY <1>4, <1>12, <1>16, FreeSort
  <2>2. docCalls'[c].at \notin {"open", "put"}
    BY <2>1, FreeSort
  <2>3. DocWorld(docs', docFiles', story',
                 IF docCalls'[c].at \in {"open", "put"} THEN {docCalls'[c].key} ELSE {})
    BY <1>7, <1>16, <2>2
  <2> QED BY <1>3, <1>9, <1>14, <2>1, <2>2, <2>3, TurnAfter
<1> QED BY <1>15, <1>16

LEMMA ShelvedNow ==
    ASSUME DocTypes, NEW K, DocWorld(docs, docFiles, story, K)
    PROVE  Shelved(docs)
<1>1. docs \in DocTables /\ story \in Stories
  BY DEF DocTypes
<1>2. story.made \in Nat /\ story.entries \in Nat
  BY <1>1, StoryFields
<1>3. DOMAIN docs \cup DOMAIN docFiles \cup story.deleted \cup DOMAIN story.fetched \subseteq 1..story.made
  BY DEF DocWorld, DocPlaces
<1> QED BY <1>1, <1>2, <1>3 DEF Shelved

LEMMA TurnOf ==
    ASSUME DocTurn, NEW c \in Callers, docCalls[c].at # "free"
    PROVE  Only(c)
  BY DEF DocTurn, Only

(* Before a call writes, the world is as it says.                            *)
LEMMA WorldOf ==
    ASSUME DocTurn, NEW c \in Callers, Only(c)
    PROVE  /\ docCalls[c].at \in {"free", "load"} => DocWorld(docs, docFiles, story, {})
           /\ docCalls[c].at \in {"open", "put"} =>
                  DocWorld(docs, docFiles, story, {docCalls[c].key}) /\ AboutToWrite(c)
<1>1. BeingWritten = IF docCalls[c].at \in {"open", "put"} THEN {docCalls[c].key} ELSE {}
  BY OneCall
<1>2. DocWorld(docs, docFiles, story, BeingWritten)
  BY DEF DocTurn
<1>3. docCalls[c].at \in {"open", "put"} => AboutToWrite(c)
  BY DEF DocTurn
<1>4. ASSUME docCalls[c].at \in {"free", "load"}
      PROVE  DocWorld(docs, docFiles, story, {})
  <2>1. BeingWritten = {}
    BY <1>1, <1>4
  <2> QED BY <1>2, <2>1
<1>5. ASSUME docCalls[c].at \in {"open", "put"}
      PROVE  DocWorld(docs, docFiles, story, {docCalls[c].key})
  <2>1. BeingWritten = {docCalls[c].key}
    BY <1>1, <1>5
  <2> QED BY <1>2, <2>1
<1> QED BY <1>3, <1>4, <1>5

(* The fields of a call are replaced.                                        *)
LEMMA CallReplaced ==
    ASSUME docCalls \in [Callers -> DocCallSort], NEW c \in Callers, NEW call \in DocCallSort, Only(c)
    PROVE  docCalls' = [docCalls EXCEPT ![c] = call] =>
              /\ docCalls' \in [Callers -> DocCallSort] /\ docCalls'[c] = call /\ Only(c)'
  BY DEF Only

LEMMA CallDocumentsStep ==
    ASSUME DocTurn, OneByOne, NEW c \in Callers, NEW op \in OpsOf, CallDocuments(c, op)
    PROVE  DocTurn'
<1>1. DocTypes
  BY DEF DocTurn
<1>2. Only(c) /\ docCalls[c].at = "free"
  BY DEF CallDocuments, InTurn, OneByOne, Only
<1>3. DocWorld(docs, docFiles, story, {})
  BY <1>2, WorldOf
<1>4. Shelved(docs)
  BY <1>1, <1>3, ShelvedNow
<1>5. CASE docsLoaded \/ docFiles = <<>>
  <2>1. Carry(c, op, docs)
    BY <1>5 DEF CallDocuments
  <2> QED BY <1>1, <1>2, <1>3, <1>4, <2>1, CarryStep
<1>6. CASE ~(docsLoaded \/ docFiles = <<>>)
  <2>1. PICK call : call = Caller("load", op, DOMAIN docFiles, 0, Document("local"), {})
    OBVIOUS
  <2>2. docCalls' = [docCalls EXCEPT ![c] = call]
    BY <1>6, <2>1 DEF CallDocuments
  <2>3. UNCHANGED <<shelf, docWay, docs, docsLoaded, docFiles, story>>
    BY <1>6 DEF CallDocuments
  <2>4. DOMAIN docFiles \in SUBSET Nat
    BY <1>1, PartialFunction DEF DocTypes, DocFileTables
  <2>5. Document("local") \in DocSort
    <3>1. "local" \in DocKinds
      BY DEF DocKinds
    <3> QED BY <3>1, NewDocument
  <2>6. call \in DocCallSort /\ call.at = "load"
    BY <2>1, <2>4, <2>5 DEF Caller, DocCallSort, DocStages
  <2>7. docCalls \in [Callers -> DocCallSort]
    BY <1>1 DEF DocTypes
  <2>8. docCalls' \in [Callers -> DocCallSort] /\ docCalls'[c] = call /\ Only(c)'
    BY <1>2, <2>2, <2>6, <2>7, CallReplaced
  <2>9. docCalls'[c].at \notin {"open", "put"}
    BY <2>6, <2>8
  <2>10. shelf' = shelf /\ docWay' = docWay
    BY <2>3
  <2>11. docs' \in DocTables /\ docFiles' \in DocFileTables /\ story' \in Stories
    BY <1>1, <2>3 DEF DocTypes
  <2>12. DocWorld(docs', docFiles', story',
                  IF docCalls'[c].at \in {"open", "put"} THEN {docCalls'[c].key} ELSE {})
    BY <1>3, <2>3, <2>9
  <2> QED BY <2>8, <2>9, <2>10, <2>11, <2>12, TurnAfter
<1> QED BY <1>5, <1>6

LEMMA DocFileOf ==
    ASSUME NEW files \in DocFileTables, NEW d \in DOMAIN files
    PROVE  d \in Nat /\ files[d].doc \in DocSort
<1>1. d \in Nat /\ files[d] \in DocFileSort
  BY PartialFunction DEF DocFileTables
<1> QED BY <1>1 DEF DocFileSort

(* A document is read from its file.                                         *)
LEMMA DocumentRead ==
    ASSUME DocTypes, DocWorld(docs, docFiles, story, {}), NEW d \in DOMAIN docFiles, docFiles[d].whole,
           NEW ds, ds = Entered(docs, d, docFiles[d].doc)
    PROVE  DocWorld(ds, docFiles, story, {}) /\ Shelved(ds)
<1>1. DOMAIN ds = DOMAIN docs \cup {d} /\ ds[d] = docFiles[d].doc
  BY DEF Entered
<1>2. \A x \in DOMAIN docs \ {d} : ds[x] = docs[x]
  BY DEF Entered
<1>3. docFiles \in Partial(Nat, DocFileSort) /\ docs \in Partial(Nat, DocSort)
  BY DEF DocTypes, DocFileTables, DocTables
<1>4. d \in Nat /\ docFiles[d].doc \in DocSort
  BY DocFileOf DEF DocTypes
<1>5. ds \in DocTables
  BY <1>3, <1>4, EnteredPartial DEF DocTables
<1>6. DocPlaces(ds, docFiles, story)
  BY <1>1 DEF DocWorld, DocPlaces
<1>7. DocMemory(ds, story)
  <2> SUFFICES ASSUME NEW e \in story.told \ story.gone, story.home[e] \in DOMAIN ds
               PROVE  e \in DOMAIN ds[story.home[e]].entries
    BY DEF DocMemory
  <2>1. CASE story.home[e] = d
    <3>1. e \in DOMAIN docFiles[d].doc.entries
      BY <2>1 DEF DocWorld, DocDisk
    <3> QED BY <1>1, <2>1, <3>1
  <2>2. CASE story.home[e] # d
    <3>1. story.home[e] \in DOMAIN docs
      BY <1>1, <2>2
    <3>2. e \in DOMAIN docs[story.home[e]].entries
      BY <3>1 DEF DocWorld, DocMemory
    <3> QED BY <1>2, <2>2, <3>1, <3>2
  <2> QED BY <2>1, <2>2
<1>8. MemoryFed(ds, story)
  <2> SUFFICES ASSUME "crash" \notin docWay, NEW x \in DOMAIN ds
               PROVE  Fed(ds[x], x, story.fetched)
    BY DEF MemoryFed
  <2>1. CASE x = d
    <3>1. Fed(docFiles[d].doc, d, story.fetched)
      BY DEF DocWorld, DiskFed
    <3> QED BY <1>1, <2>1, <3>1
  <2>2. CASE x # d
    <3>1. x \in DOMAIN docs
      BY <1>1, <2>2
    <3>2. Fed(docs[x], x, story.fetched)
      BY <3>1 DEF DocWorld, MemoryFed
    <3> QED BY <1>2, <2>2, <3>1, <3>2
  <2> QED BY <2>1, <2>2
<1>9. DocWorld(ds, docFiles, story, {})
  BY <1>6, <1>7, <1>8 DEF DocWorld
<1>10. Shelved(ds)
  <2>1. story.made \in Nat /\ story.entries \in Nat
    BY StoryFields DEF DocTypes
  <2>2. DOMAIN ds \cup DOMAIN story.fetched \subseteq 1..story.made
    BY <1>6 DEF DocPlaces
  <2> QED BY <1>5, <2>1, <2>2 DEF Shelved
<1> QED BY <1>9, <1>10

LEMMA CallFields ==
    ASSUME NEW call \in DocCallSort
    PROVE  /\ call.at \in DocStages /\ call.op \in OpsOf \cup {""} /\ call.left \in SUBSET Nat
           /\ call.key \in Nat /\ call.doc \in DocSort /\ call.lost \in BOOLEAN
           /\ call.told \in SUBSET Nat
  BY DEF DocCallSort

LEMMA LoadDocumentStep ==
    ASSUME DocTurn, NEW c \in Callers, LoadDocument(c)
    PROVE  DocTurn'
<1>1. DocTypes
  BY DEF DocTurn
<1>2. docCalls[c].at = "load"
  BY DEF LoadDocument
<1>3. Only(c)
  BY <1>2, TurnOf
<1>4. DocWorld(docs, docFiles, story, {})
  BY <1>2, <1>3, WorldOf
<1>5. docCalls \in [Callers -> DocCallSort] /\ docCalls[c] \in DocCallSort
  BY <1>1 DEF DocTypes
<1>6. docCalls[c].op \in OpsOf \cup {""} /\ docCalls[c].left \in SUBSET Nat
  BY <1>5, CallFields
<1>7. PICK d \in docCalls[c].left :
          LET there == d \in DOMAIN docFiles /\ docFiles[d].whole
              ds == IF there THEN Entered(docs, d, docFiles[d].doc) ELSE docs
              left == docCalls[c].left \ {d}
          IN  IF left = {} THEN Carry(c, docCalls[c].op, ds)
              ELSE /\ docs' = ds
                   /\ docCalls' = [docCalls EXCEPT ![c].left = left]
                   /\ UNCHANGED <<shelf, docWay, docsLoaded, docFiles, story>>
  BY DEF LoadDocument
<1>8. PICK ds : ds = IF d \in DOMAIN docFiles /\ docFiles[d].whole
                     THEN Entered(docs, d, docFiles[d].doc) ELSE docs
  OBVIOUS
<1>9. PICK left : left = docCalls[c].left \ {d}
  OBVIOUS
<1>10. DocWorld(ds, docFiles, story, {}) /\ Shelved(ds)
  <2>1. CASE d \in DOMAIN docFiles /\ docFiles[d].whole
    BY <1>1, <1>4, <1>8, <2>1, DocumentRead
  <2>2. CASE ~(d \in DOMAIN docFiles /\ docFiles[d].whole)
    BY <1>1, <1>4, <1>8, <2>2, ShelvedNow
  <2> QED BY <2>1, <2>2
<1>11. CASE left = {}
  <2>1. Carry(c, docCalls[c].op, ds)
    BY <1>7, <1>8, <1>9, <1>11
  <2> QED BY <1>1, <1>3, <1>6, <1>10, <2>1, CarryStep
<1>12. CASE left # {}
  <2>1. /\ docs' = ds /\ docCalls' = [docCalls EXCEPT ![c].left = left]
        /\ UNCHANGED <<shelf, docWay, docsLoaded, docFiles, story>>
    BY <1>7, <1>8, <1>9, <1>12
  <2>2. PICK call : call = [docCalls[c] EXCEPT !.left = left]
    OBVIOUS
  <2>3. left \in SUBSET Nat
    BY <1>6, <1>9
  <2>4. call \in DocCallSort /\ call.at = docCalls[c].at
    BY <1>5, <2>2, <2>3 DEF DocCallSort
  <2>5. docCalls' = [docCalls EXCEPT ![c] = call]
    BY <2>1, <2>2
  <2>6. docCalls' \in [Callers -> DocCallSort] /\ docCalls'[c] = call /\ Only(c)'
    BY <1>3, <1>5, <2>4, <2>5, CallReplaced
  <2>7. docCalls'[c].at \notin {"open", "put"}
    BY <1>2, <2>4, <2>6
  <2>8. shelf' = shelf /\ docWay' = docWay
    BY <2>1
  <2>9. docs' \in DocTables /\ docFiles' \in DocFileTables /\ story' \in Stories
    BY <1>1, <1>10, <2>1 DEF DocTypes, Shelved
  <2>10. DocWorld(docs', docFiles', story',
                  IF docCalls'[c].at \in {"open", "put"} THEN {docCalls'[c].key} ELSE {})
    BY <1>10, <2>1, <2>7
  <2> QED BY <2>6, <2>7, <2>8, <2>9, <2>10, TurnAfter
<1> QED BY <1>11, <1>12

LEMMA OpenFileStep ==
    ASSUME DocTurn, NEW c \in Callers, OpenFile(c)
    PROVE  DocTurn'
<1>1. DocTypes
  BY DEF DocTurn
<1>2. docCalls[c].at = "open"
  BY DEF OpenFile
<1>3. Only(c)
  BY <1>2, TurnOf
<1>4. PICK d : d = docCalls[c].key
  OBVIOUS
<1>5. DocWorld(docs, docFiles, story, {d}) /\ AboutToWrite(c)
  BY <1>2, <1>3, <1>4, WorldOf
<1>6. docCalls \in [Callers -> DocCallSort] /\ docCalls[c] \in DocCallSort
  BY <1>1 DEF DocTypes
<1>7. d \in DOMAIN docs /\ d \in Nat
  BY <1>4, <1>5, <1>6, CallFields DEF AboutToWrite
<1>8. PICK files : files = Entered(docFiles, d, Opening)
  OBVIOUS
<1>9. DOMAIN files = DOMAIN docFiles \cup {d} /\ files[d] = Opening
  BY <1>8 DEF Entered
<1>10. \A x \in DOMAIN docFiles \ {d} : files[x] = docFiles[x]
  BY <1>8 DEF Entered
<1>11. Opening \in DocFileSort /\ ~Opening.whole
  <2>1. "local" \in DocKinds
    BY DEF DocKinds
  <2>2. Document("local") \in DocSort
    BY <2>1, NewDocument
  <2> QED BY <2>2 DEF Opening, DocFileSort
<1>12. files \in DocFileTables
  BY <1>1, <1>7, <1>8, <1>11, EnteredPartial DEF DocTypes, DocFileTables
<1>13. DocWorld(docs, files, story, {d})
  <2>1. DocPlaces(docs, files, story)
    BY <1>5, <1>7, <1>9 DEF DocWorld, DocPlaces
  <2>2. DocDisk(files, story)
    <3> SUFFICES ASSUME NEW e \in story.told \ story.gone, story.home[e] \in DOMAIN files,
                        files[story.home[e]].whole
                 PROVE  e \in DOMAIN files[story.home[e]].doc.entries
      BY DEF DocDisk
    <3>1. story.home[e] # d
      BY <1>9, <1>11
    <3>2. story.home[e] \in DOMAIN docFiles /\ files[story.home[e]] = docFiles[story.home[e]]
      BY <1>9, <1>10, <3>1
    <3> QED BY <1>5, <3>2 DEF DocWorld, DocDisk
  <2>3. DiskFed(files, story, {d})
    BY <1>5, <1>9, <1>10 DEF DocWorld, DiskFed
  <2> QED BY <1>5, <2>1, <2>2, <2>3 DEF DocWorld
<1>14. /\ docFiles' = files /\ docCalls' = [docCalls EXCEPT ![c].at = "put"]
       /\ shelf' = shelf /\ docWay' = docWay /\ docs' = docs /\ story' = story
  BY <1>4, <1>8 DEF OpenFile
<1>15. PICK call : call = [docCalls[c] EXCEPT !.at = "put"]
  OBVIOUS
<1>16. /\ call \in DocCallSort /\ call.at = "put" /\ call.key = d /\ call.doc = docCalls[c].doc
       /\ call.told = docCalls[c].told /\ (call.lost <=> docCalls[c].lost)
  BY <1>4, <1>6, <1>15 DEF DocCallSort, DocStages
<1>17. docCalls' = [docCalls EXCEPT ![c] = call]
  BY <1>14, <1>15
<1>18. docCalls' \in [Callers -> DocCallSort] /\ docCalls'[c] = call /\ Only(c)'
  BY <1>3, <1>6, <1>16, <1>17, CallReplaced
<1>19. AboutToWrite(c)'
  BY <1>4, <1>5, <1>9, <1>11, <1>14, <1>16, <1>18 DEF AboutToWrite
<1>20. docs' \in DocTables /\ docFiles' \in DocFileTables /\ story' \in Stories
  BY <1>1, <1>12, <1>14 DEF DocTypes
<1>21. docCalls'[c].at \in {"open", "put"} /\ docCalls'[c].key = d
  BY <1>16, <1>18
<1>22. DocWorld(docs', docFiles', story',
                IF docCalls'[c].at \in {"open", "put"} THEN {docCalls'[c].key} ELSE {})
  BY <1>13, <1>14, <1>21
<1>23. shelf' = shelf /\ docWay' = docWay
  BY <1>14
<1> QED BY <1>18, <1>19, <1>20, <1>22, <1>23, TurnAfter

LEMMA PutFileStep ==
    ASSUME DocTurn, NEW c \in Callers, PutFile(c)
    PROVE  DocTurn'
<1>1. DocTypes
  BY DEF DocTurn
<1>2. docCalls[c].at = "put"
  BY DEF PutFile
<1>3. Only(c)
  BY <1>2, TurnOf
<1>4. PICK d : d = docCalls[c].key
  OBVIOUS
<1>5. DocWorld(docs, docFiles, story, {d}) /\ AboutToWrite(c)
  BY <1>2, <1>3, <1>4, WorldOf
<1>6. docCalls \in [Callers -> DocCallSort] /\ docCalls[c] \in DocCallSort /\ story \in Stories
  BY <1>1 DEF DocTypes
<1>7. PICK told \in SUBSET Nat : told = docCalls[c].told
  BY <1>6, CallFields
<1>8. /\ d \in DOMAIN docs /\ docCalls[c].doc = docs[d] /\ ~docCalls[c].lost
      /\ \A e \in told : e \in 1..story.entries /\ story.home[e] = d /\ e \in DOMAIN docs[d].entries
      /\ d \in DOMAIN docFiles /\ ~docFiles[d].whole
  BY <1>2, <1>4, <1>5, <1>7 DEF AboutToWrite
<1>9. docs \in Partial(Nat, DocSort) /\ docFiles \in Partial(Nat, DocFileSort)
  BY <1>1 DEF DocTypes, DocTables, DocFileTables
<1>10. d \in Nat /\ docs[d] \in DocSort
  BY <1>8, <1>9, PartialFunction
<1>11. PICK file : file = Whole(docs[d])
  OBVIOUS
<1>12. file \in DocFileSort /\ file.whole /\ file.doc = docs[d]
  BY <1>10, <1>11 DEF Whole, DocFileSort
<1>13. docFiles' = [docFiles EXCEPT ![d] = file]
  BY <1>4, <1>8, <1>11 DEF PutFile
<1>14. docCalls' = [docCalls EXCEPT ![c] = Free] /\ shelf' = shelf /\ docWay' = docWay /\ docs' = docs
  BY DEF PutFile
<1>15. PICK files : files = Entered(docFiles, d, file)
  OBVIOUS
<1>16. docFiles' = files
  <2>1. docFiles = [x \in DOMAIN docFiles |-> docFiles[x]]
    BY <1>9, PartialFunction
  <2> QED BY <1>8, <1>13, <1>15, <2>1 DEF Entered
<1>17. /\ DOMAIN files = DOMAIN docFiles /\ files[d] = file
       /\ \A x \in DOMAIN docFiles \ {d} : files[x] = docFiles[x]
  BY <1>8, <1>15 DEF Entered
<1>18. files \in DocFileTables
  BY <1>9, <1>10, <1>12, <1>15, EnteredPartial DEF DocFileTables
<1>19. PICK s : s = [story EXCEPT !.told = @ \cup told]
  OBVIOUS
<1>20. /\ s \in Stories /\ s.made = story.made /\ s.entries = story.entries
       /\ s.home = story.home /\ s.told = story.told \cup told /\ s.gone = story.gone
       /\ s.deleted = story.deleted /\ s.fetched = story.fetched
  BY <1>6, <1>19 DEF Stories
<1>21. story' = s
  BY <1>7, <1>19 DEF PutFile
<1>22. DocPlaces(docs, files, s)
  BY <1>5, <1>8, <1>17, <1>20 DEF DocWorld, DocPlaces
<1>23. DocMemory(docs, s)
  <2> SUFFICES ASSUME NEW e \in s.told \ s.gone, s.home[e] \in DOMAIN docs
               PROVE  e \in DOMAIN docs[s.home[e]].entries
    BY DEF DocMemory
  <2>1. CASE e \in told
    BY <1>8, <1>20, <2>1
  <2>2. CASE e \notin told
    BY <1>5, <1>20, <2>2 DEF DocWorld, DocMemory
  <2> QED BY <2>1, <2>2
<1>24. DocDisk(files, s)
  <2> SUFFICES ASSUME NEW e \in s.told \ s.gone, s.home[e] \in DOMAIN files, files[s.home[e]].whole
               PROVE  e \in DOMAIN files[s.home[e]].doc.entries
    BY DEF DocDisk
  <2>1. CASE s.home[e] = d
    <3>1. e \in DOMAIN docs[d].entries
      BY <1>8, <1>23, <2>1 DEF DocMemory
    <3> QED BY <1>12, <1>17, <2>1, <3>1
  <2>2. CASE s.home[e] # d
    <3>1. e \notin told
      BY <1>8, <1>20, <2>2
    <3>2. s.home[e] \in DOMAIN docFiles /\ files[s.home[e]] = docFiles[s.home[e]]
      BY <1>17, <2>2
    <3> QED BY <1>5, <1>20, <3>1, <3>2 DEF DocWorld, DocDisk
  <2> QED BY <2>1, <2>2
<1>25. MemoryFed(docs, s)
  BY <1>5, <1>20 DEF DocWorld, MemoryFed
<1>26. DiskFed(files, s, {})
  <2> SUFFICES ASSUME "crash" \notin docWay, NEW x \in DOMAIN files, files[x].whole
               PROVE  Fed(files[x].doc, x, s.fetched)
    BY DEF DiskFed
  <2>1. CASE x = d
    <3>1. Fed(docs[d], d, s.fetched)
      BY <1>8, <1>25 DEF MemoryFed
    <3> QED BY <1>12, <1>17, <2>1, <3>1
  <2>2. CASE x # d
    <3>1. x \in DOMAIN docFiles \ {d} /\ files[x] = docFiles[x]
      BY <1>17, <2>2
    <3>2. Fed(docFiles[x].doc, x, story.fetched)
      BY <1>5, <3>1 DEF DocWorld, DiskFed
    <3> QED BY <1>20, <3>1, <3>2
  <2> QED BY <2>1, <2>2
<1>27. DocWorld(docs, files, s, {})
  BY <1>22, <1>23, <1>24, <1>25, <1>26 DEF DocWorld
<1>28. docCalls' \in [Callers -> DocCallSort] /\ docCalls'[c] = Free /\ Only(c)'
  BY <1>3, <1>6, <1>14, FreeSort, CallReplaced
<1>29. docCalls'[c].at \notin {"open", "put"}
  BY <1>28, FreeSort
<1>30. docs' \in DocTables /\ docFiles' \in DocFileTables /\ story' \in Stories
  BY <1>1, <1>14, <1>16, <1>18, <1>20, <1>21 DEF DocTypes
<1>31. DocWorld(docs', docFiles', story',
                IF docCalls'[c].at \in {"open", "put"} THEN {docCalls'[c].key} ELSE {})
  BY <1>14, <1>16, <1>21, <1>27, <1>29
<1>32. shelf' = shelf /\ docWay' = docWay
  BY <1>14
<1> QED BY <1>28, <1>29, <1>30, <1>31, <1>32, TurnAfter

LEMMA RestartDocumentsStep ==
    ASSUME DocTurn, RestartDocuments
    PROVE  DocTurn'
<1>1. /\ docs' = <<>> /\ docCalls' = [c \in Callers |-> Free]
      /\ shelf' = shelf /\ docWay' = docWay /\ docFiles' = docFiles /\ story' = story
  BY DEF RestartDocuments
<1>2. DOMAIN <<>> = {} /\ <<>> \in [{} -> DocSort]
  OBVIOUS
<1>3. <<>> \in DocTables
  BY <1>2, IsPartial DEF DocTables
<1>4. DocTypes
  BY DEF DocTurn
<1>5. docCalls' \in [Callers -> DocCallSort] /\ \A c \in Callers : docCalls'[c].at = "free"
  BY <1>1, FreeSort
<1>6. BeingWritten' = {}
  BY <1>5 DEF BeingWritten
<1>7. DocWorld(docs, docFiles, story, BeingWritten)
  BY DEF DocTurn
<1>8. DocPlaces(<<>>, docFiles, story)
  BY <1>2, <1>7 DEF DocWorld, DocPlaces
<1>9. DocMemory(<<>>, story) /\ MemoryFed(<<>>, story)
  BY <1>2 DEF DocMemory, MemoryFed
<1>10. DiskFed(docFiles, story, {})
  <2>1. CASE "crash" \in docWay
    BY <2>1 DEF DiskFed
  <2>2. CASE "crash" \notin docWay
    <3>1. \A c \in Callers : docCalls[c].at = "free"
      BY <2>2 DEF RestartDocuments
    <3>2. BeingWritten = {}
      BY <3>1 DEF BeingWritten
    <3> QED BY <1>7, <3>2 DEF DocWorld
  <2> QED BY <2>1, <2>2
<1>11. DocWorld(<<>>, docFiles, story, {})
  BY <1>7, <1>8, <1>9, <1>10 DEF DocWorld
<1>12. DocWorld(docs', docFiles', story', BeingWritten')
  BY <1>1, <1>6, <1>11
<1>13. DocWorld(docs, docFiles, story, BeingWritten)'
  BY <1>1, <1>12, PlacesAfter
<1>14. DocTypes'
  BY <1>1, <1>3, <1>4, <1>5, TypesAfter DEF DocTypes
<1> QED BY <1>5, <1>13, <1>14 DEF DocTurn

LEMMA DocInitially == DocInit => DocTurn
<1> SUFFICES ASSUME DocInit PROVE DocTurn
  OBVIOUS
<1>1. PICK kind : kind = IF shelf = "charts" THEN "chart" ELSE "local"
  OBVIOUS
<1>2. kind \in DocKinds /\ kind # "feed"
  BY <1>1 DEF DocKinds
<1>3. <<1, 2>> \in Proper
  BY DocumentAssumption DEF Proper, Pairs
<1>4. PICK p \in Proper : p = CHOOSE q \in Proper : TRUE
  BY <1>3
<1>5. p \in Pairs
  BY DEF Proper
<1>6. <<p>> \in [{1} -> Pairs] /\ DOMAIN <<p>> = {1} /\ {1} \in SUBSET Nat
  BY <1>5
<1>7. <<p>> \in EntryTables
  BY <1>6, IsPartial DEF EntryTables
<1>8. PICK doc : doc = [Document(kind) EXCEPT !.entries = <<p>>]
  OBVIOUS
<1>9. doc \in DocSort /\ doc.kind = kind /\ doc.entries = <<p>>
  BY <1>2, <1>7, <1>8 DEF Document, DocSort, DocStates
<1>10. PICK file : file = Whole(doc)
  OBVIOUS
<1>11. file \in DocFileSort /\ file.doc = doc
  BY <1>9, <1>10 DEF Whole, DocFileSort
<1>12. docFiles = <<file>>
  BY <1>1, <1>4, <1>8, <1>10 DEF DocInit
<1>13. docFiles \in [{1} -> DocFileSort] /\ DOMAIN docFiles = {1} /\ docFiles[1] = file
  BY <1>11, <1>12
<1>14. docFiles \in DocFileTables
  BY <1>6, <1>13, IsPartial DEF DocFileTables
<1>15. docs = <<>> /\ docCalls = [c \in Callers |-> Free]
  BY DEF DocInit
<1>16. DOMAIN <<>> = {} /\ <<>> \in [{} -> DocSort]
  OBVIOUS
<1>17. docs \in DocTables /\ DOMAIN docs = {}
  BY <1>15, <1>16, IsPartial DEF DocTables
<1>18. docCalls \in [Callers -> DocCallSort] /\ \A c \in Callers : docCalls[c].at = "free"
  BY <1>15, FreeSort
<1>19. /\ story = [made |-> 1, entries |-> 1, home |-> <<1>>, told |-> {1}, gone |-> {},
                   deleted |-> {}, fetched |-> <<>>]
  BY DEF DocInit
<1>20. <<1>> \in [{1} -> Nat] /\ DOMAIN <<1>> = 1..1 /\ <<1>>[1] = 1
  OBVIOUS
<1>21. <<1>> \in Partial(Nat, Nat)
  BY <1>6, <1>20, IsPartial
<1>22. story \in Stories
  BY <1>19, <1>21, NoFetched DEF Stories
<1>23. /\ story.made = 1 /\ story.entries = 1 /\ story.home = <<1>> /\ story.told = {1}
       /\ story.gone = {} /\ story.deleted = {} /\ story.fetched = <<>>
  BY <1>19
<1>24. DocPlaces(docs, docFiles, story)
  BY <1>13, <1>17, <1>20, <1>23, NoFetched DEF DocPlaces
<1>25. DocMemory(docs, story) /\ MemoryFed(docs, story)
  BY <1>17 DEF DocMemory, MemoryFed
<1>26. DocDisk(docFiles, story)
  BY <1>6, <1>9, <1>11, <1>13, <1>20, <1>23 DEF DocDisk
<1>27. DiskFed(docFiles, story, BeingWritten)
  BY <1>2, <1>9, <1>11, <1>13 DEF DiskFed, Fed
<1>28. DocTypes
  BY <1>14, <1>17, <1>18, <1>22 DEF DocTypes
<1>29. DocWorld(docs, docFiles, story, BeingWritten)
  BY <1>24, <1>25, <1>26, <1>27 DEF DocWorld
<1> QED BY <1>18, <1>28, <1>29 DEF DocTurn

LEMMA DocTurnStays == DocTurn /\ UNCHANGED docVars => DocTurn'
<1> SUFFICES ASSUME DocTurn, UNCHANGED docVars PROVE DocTurn'
  OBVIOUS
<1>1. /\ docs' = docs /\ docCalls' = docCalls /\ shelf' = shelf /\ docWay' = docWay
      /\ docFiles' = docFiles /\ story' = story
  BY DEF docVars
<1>2. DocTypes'
  BY <1>1, TypesAfter DEF DocTurn, DocTypes
<1>3. BeingWritten' = BeingWritten
  BY <1>1 DEF BeingWritten
<1>4. DocWorld(docs', docFiles', story', BeingWritten')
  BY <1>1, <1>3 DEF DocTurn
<1>5. DocWorld(docs, docFiles, story, BeingWritten)'
  BY <1>1, <1>4, PlacesAfter
<1>6. \A c \in Callers : docCalls'[c].at \in {"open", "put"} => AboutToWrite(c)'
  BY <1>1 DEF DocTurn, AboutToWrite
<1> QED BY <1>1, <1>2, <1>5, <1>6 DEF DocTurn

LEMMA DocSteps == DocInv /\ [DocNext]_docVars => DocInv'
<1> SUFFICES ASSUME DocInv, [DocNext]_docVars, OneByOne' PROVE DocTurn'
  BY DEF DocInv
<1>1. docWay' = docWay
  <2>1. ASSUME NEW c \in Callers, NEW op, NEW ds, Carry(c, op, ds) PROVE docWay' = docWay
    BY <2>1 DEF Carry
  <2>2. ASSUME NEW c \in Callers, NEW op \in OpsOf, CallDocuments(c, op) PROVE docWay' = docWay
    BY <2>1, <2>2 DEF CallDocuments
  <2>3. ASSUME NEW c \in Callers, LoadDocument(c) PROVE docWay' = docWay
    BY <2>1, <2>3 DEF LoadDocument
  <2>4. ASSUME NEW c \in Callers, OpenFile(c) \/ PutFile(c) PROVE docWay' = docWay
    BY <2>4 DEF OpenFile, PutFile
  <2>5. CASE RestartDocuments
    BY <2>5 DEF RestartDocuments
  <2>6. CASE UNCHANGED docVars
    BY <2>6 DEF docVars
  <2> QED BY <2>2, <2>3, <2>4, <2>5, <2>6 DEF DocNext
<1>2. OneByOne /\ DocTurn
  BY <1>1 DEF DocInv, OneByOne
<1>3. CASE \E c \in Callers : \E op \in OpsOf : CallDocuments(c, op)
  BY <1>2, <1>3, CallDocumentsStep
<1>4. CASE \E c \in Callers : LoadDocument(c)
  BY <1>2, <1>4, LoadDocumentStep
<1>5. CASE \E c \in Callers : OpenFile(c)
  BY <1>2, <1>5, OpenFileStep
<1>6. CASE \E c \in Callers : PutFile(c)
  BY <1>2, <1>6, PutFileStep
<1>7. CASE RestartDocuments
  BY <1>2, <1>7, RestartDocumentsStep
<1>8. CASE UNCHANGED docVars
  BY <1>2, <1>8, DocTurnStays
<1> QED BY <1>3, <1>4, <1>5, <1>6, <1>7, <1>8 DEF DocNext

LEMMA DocAlways == DocSpec => []DocInv
<1>1. DocInit => DocInv
  BY DocInitially DEF DocInv
<1> QED BY <1>1, DocSteps, PTL DEF DocSpec

(* What was deleted stays away, and what the user was told of, or a feed     *)
(* had, is there, while calls come one after the other (plugins/calendar and *)
(* plugins/charts, domain.py).                                               *)
THEOREM DocumentsKeptCorrect == DocSpec => []DocumentsKept
<1>1. DocInv => DocumentsKept
  <2> SUFFICES ASSUME DocInv PROVE DocumentsKept
    OBVIOUS
  <2>1. ASSUME OneByOne PROVE story.deleted \cap (DOMAIN docs \cup DOMAIN docFiles) = {}
    BY <2>1 DEF DocInv, DocTurn, DocWorld, DocPlaces
  <2>2. ASSUME OneByOne, NEW e \in story.told \ story.gone, NEW d, d = story.home[e],
               d \in Stored \cup story.deleted
        PROVE  d \in story.deleted \/ ~AtRest \/ e \in DOMAIN docFiles[d].doc.entries
    BY <2>2 DEF DocInv, DocTurn, DocWorld, DocDisk, Stored
  <2>3. ASSUME OneByOne, "crash" \notin docWay, NEW d \in DOMAIN docs, docs[d].kind = "feed"
        PROVE  /\ Cardinality(DOMAIN docs[d].entries) = Len(story.fetched[d])
               /\ {docs[d].entries[e] : e \in DOMAIN docs[d].entries} = ToSet(story.fetched[d])
    <3>1. MemoryFed(docs, story)
      BY <2>3 DEF DocInv, DocTurn, DocWorld
    <3>2. Fed(docs[d], d, story.fetched)
      BY <2>3, <3>1 DEF MemoryFed
    <3> QED BY <2>3, <3>2 DEF Fed
  <2>4. DeletedForGood
    BY <2>1 DEF DeletedForGood
  <2>5. ToldIsStored
    BY <2>2 DEF ToldIsStored
  <2>6. FeedAsFetched
    BY <2>3 DEF FeedAsFetched
  <2> QED BY <2>4, <2>5, <2>6 DEF DocumentsKept
<1> QED BY <1>1, DocAlways, PTL
===============================================================================
