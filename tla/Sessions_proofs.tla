---------------------------- MODULE Sessions_proofs ----------------------------
(***************************************************************************)
(* What is proved of the sessions and of the helper runs: that a parent is *)
(* never stored ahead of its forks (SessionFamily), that the result of a   *)
(* helper run is taken once (HelperRuns), that no edit of a session loses  *)
(* or doubles a text (TurnEditing), and that what is stored and archived   *)
(* tells the story that was written (BlockCodec).                          *)
(***************************************************************************)
EXTENDS SessionFamily, TurnEditing, HelperRuns, BlockCodec, Lists_proofs, FiniteSetTheorems,
        TLAPS

(***************************************************************************)
(* The family of sessions                                                  *)
(***************************************************************************)
Merged(x) == {k \in DOMAIN x.kids : x.kids[k] = "merged"}

(* What a session says, and an object of it, with whatever turns.           *)
IsSays(x) ==
    \E t, p, k, m, e :
        x = [turns |-> t, parent |-> p, kids |-> k, merged |-> m, concluded |-> e]
IsObject(o) ==
    \E s, is, saved : o = [of |-> s, is |-> is, saved |-> saved] /\ IsSays(is)

(* An object that says the same of the family.                              *)
SameFamily(o, q) ==
    /\ IsObject(q) /\ q.of = o.of /\ q.is.parent = o.is.parent
    /\ q.is.kids = o.is.kids /\ q.is.merged = o.is.merged

Places == Sessions \cup {Nobody}
Stages == {"none", "running", "loadFirst", "loadSecond", "erase", "summary", "readParent",
           "readTarget", "saveTable", "stream"} \cup SavesFirst \cup SavesSecond
Calls == [op : Requests \cup {"none"}, at : Stages, s : Places, t : Places,
          a : 0..MaxCopy, b : 0..MaxCopy]

Objs == InUse \cap Refs

(* Where a call stands, it has the sessions and the objects it goes on with. *)
CallOK(x) ==
    /\ x.at = "running" =>
           /\ x.s \in Sessions \/ x.op = "create"
           /\ x.op \in {"link", "watch"} => x.t \in Sessions
    /\ x.at \in {"loadFirst", "loadSecond", "stream", "saveTalk", "saveBackend", "readParent",
                "erase"} => x.s \in Sessions
    /\ x.at \in {"loadFirst", "loadSecond"} /\ x.op \in {"link", "watch"} => x.t \in Sessions
    /\ x.at = "loadFirst" => x.op # "create"
    /\ x.at = "loadSecond" => x.op \in {"link", "watch"}
    /\ x.at = "readTarget" => x.t \in Sessions
    /\ x.at \in SavesSecond \cup {"summary", "saveParent", "saveFork", "saveSource"}
           => x.b \in Refs
    /\ x.at \in SavesFirst \cup {"readParent", "summary", "saveChild", "loadSecond"}
           => x.a \in Refs

FamilyShape ==
    /\ copy = [r \in Refs |-> copy[r]] /\ disk = [s \in Sessions |-> disk[s]]
    /\ live \in [Sessions -> 0..MaxCopy]
    /\ call \in [Callers -> Calls]
    /\ stored \subseteq Sessions /\ deleted \subseteq Sessions

CallsSound == \A c \in Callers : CallOK(call[c])

(* The object a call loaded or found is of the session it was called for.   *)
FirstIsOf(c) ==
    call[c].at \in {"running", "loadSecond", "readParent", "saveFork"} /\ call[c].a # 0
        => copy[call[c].a].of = call[c].s

ObjectsSound ==
    /\ \A r \in Objs :
           /\ IsObject(copy[r]) /\ copy[r].of \in Sessions
           /\ copy[r].is.parent # copy[r].of
           /\ DOMAIN copy[r].is.kids \subseteq stored \cup deleted
    /\ \A s \in Sessions : live[s] # 0 => copy[live[s]].of = s
    /\ \A c \in Callers : FirstIsOf(c)

DiskSound ==
    \A s \in stored :
        /\ IsSays(disk[s]) /\ disk[s].parent # s
        /\ DOMAIN disk[s].kids \subseteq stored \cup deleted

(* A fork that a stored parent or one in memory counts as merged knows it,  *)
(* on disk and in memory.                                                   *)
CountedMerged(k) ==
    \/ \E p \in stored : k \in Merged(disk[p])
    \/ \E r \in Objs : k \in Merged(copy[r].is)
KnownMerged == {k \in Sessions :
                   /\ k \in stored => disk[k].merged = TRUE
                   /\ \A r \in Objs : copy[r].of = k => copy[r].is.merged = TRUE}
MergeKnown == \A k \in Sessions : CountedMerged(k) => k \in KnownMerged

Alone == \A c, d \in Callers : call[c] # NoCall /\ call[d] # NoCall => c = d

(* While a fork is merged, the one object of it is the one in memory.       *)
MergeSound(c) ==
    /\ call[c].at = "running" /\ call[c].op = "merge" /\ call[c].a # 0
           => live[call[c].s] = call[c].a
    /\ call[c].at \in {"readParent", "saveFork"} =>
           call[c].s \in Sessions /\ live[call[c].s] = call[c].a
    /\ call[c].at = "saveFork" =>
           copy[call[c].a].is.merged = TRUE /\ copy[call[c].b].of # call[c].s

FamilyInv ==
    /\ FamilyShape /\ CallsSound /\ ObjectsSound /\ DiskSound
    /\ ~Together => Alone /\ MergeKnown /\ \A c \in Callers : MergeSound(c)

-----------------------------------------------------------------------------
(* Objects                                                                  *)

LEMMA SameAsItself == ASSUME NEW o, IsObject(o) PROVE SameFamily(o, o)
BY DEF SameFamily

LEMMA BlankSays ==
    ASSUME NEW p
    PROVE  /\ IsSays(Blank(p)) /\ Blank(p).parent = p /\ DOMAIN Blank(p).kids = {}
           /\ Merged(Blank(p)) = {}
BY DEF IsSays, Blank, Merged

LEMMA ObjectSays ==
    ASSUME NEW s, NEW x, IsSays(x), NEW saved
    PROVE  IsObject(Object(s, x, saved)) /\ Object(s, x, saved).of = s
           /\ Object(s, x, saved).is = x
BY DEF IsObject, Object

(* An object taken apart, and put together.                                 *)
LEMMA ObjectTaken ==
    ASSUME NEW o, IsObject(o)
    PROVE  \E s, t, p, k, m, e, saved :
               o = [of |-> s, saved |-> saved,
                    is |-> [turns |-> t, parent |-> p, kids |-> k, merged |-> m, concluded |-> e]]
<1>1. PICK s, x, saved : o = [of |-> s, is |-> x, saved |-> saved] /\ IsSays(x)
      BY DEF IsObject
<1>2. PICK t, p, k, m, e :
          x = [turns |-> t, parent |-> p, kids |-> k, merged |-> m, concluded |-> e]
      BY <1>1 DEF IsSays
<1>3. o = [of |-> s, saved |-> saved,
           is |-> [turns |-> t, parent |-> p, kids |-> k, merged |-> m, concluded |-> e]]
      BY <1>1, <1>2
<1> QED
      BY <1>3

LEMMA ObjectMade ==
    ASSUME NEW s, NEW t, NEW p, NEW k, NEW m, NEW e, NEW saved, NEW q,
           q = [of |-> s, saved |-> saved,
                is |-> [turns |-> t, parent |-> p, kids |-> k, merged |-> m, concluded |-> e]]
    PROVE  /\ IsObject(q) /\ q.of = s /\ q.is.parent = p /\ q.is.kids = k /\ q.is.merged = m
<1>1. PICK x : x = [turns |-> t, parent |-> p, kids |-> k, merged |-> m, concluded |-> e]
      OBVIOUS
<1>2. IsSays(x) /\ x.parent = p /\ x.kids = k /\ x.merged = m
      BY <1>1 DEF IsSays
<1>3. q = [of |-> s, is |-> x, saved |-> saved] /\ q.of = s /\ q.is = x
      BY <1>1
<1> QED
      BY <1>2, <1>3 DEF IsObject

LEMMA AddsSame ==
    ASSUME NEW o, IsObject(o), NEW kind, NEW with
    PROVE  SameFamily(o, Adds(o, kind, with))
<1>1. PICK s, t, p, k, m, e, saved :
          o = [of |-> s, saved |-> saved,
               is |-> [turns |-> t, parent |-> p, kids |-> k, merged |-> m, concluded |-> e]]
      BY ObjectTaken
<1>2. PICK u : u = Append(o.is.turns, Turn(kind, with))
      OBVIOUS
<1>a. Adds(o, kind, with) = [o EXCEPT !.is.turns = u]
      BY ONLY <1>2 DEF Adds
<1>3. Adds(o, kind, with) =
          [of |-> s, saved |-> saved,
           is |-> [turns |-> u, parent |-> p, kids |-> k, merged |-> m, concluded |-> e]]
      BY ONLY <1>1, <1>a
<1>4. PICK q : q = Adds(o, kind, with)
      OBVIOUS
<1>5. /\ IsObject(q) /\ q.of = s /\ q.is.parent = p /\ q.is.kids = k /\ q.is.merged = m
      BY <1>3, <1>4, ObjectMade
<1>6. o.of = s /\ o.is.parent = p /\ o.is.kids = k /\ o.is.merged = m
      BY <1>1, ObjectMade
<1> QED
      BY <1>4, <1>5, <1>6 DEF SameFamily

LEMMA CleanSame == ASSUME NEW o, IsObject(o) PROVE SameFamily(o, Clean(o))
<1>1. PICK s, x, saved : o = [of |-> s, is |-> x, saved |-> saved] /\ IsSays(x)
      BY DEF IsObject
<1>2. PICK q : q = Clean(o)
      OBVIOUS
<1>3. PICK t : t = x.turns
      OBVIOUS
<1>4. q = [of |-> s, is |-> x, saved |-> t]
      BY <1>1, <1>2, <1>3 DEF Clean
<1>5. IsObject(q)
      BY <1>1, <1>4 DEF IsObject
<1>6. q.of = o.of /\ q.is = o.is
      BY <1>1, <1>4
<1> QED
      BY <1>2, <1>5, <1>6 DEF SameFamily

LEMMA ConcludedSame ==
    ASSUME NEW o, IsObject(o), NEW f, NEW q, q = [o EXCEPT !.is.concluded = f]
    PROVE  SameFamily(o, q)
<1>1. PICK s, t, p, k, m, e, saved :
          o = [of |-> s, saved |-> saved,
               is |-> [turns |-> t, parent |-> p, kids |-> k, merged |-> m, concluded |-> e]]
      BY ObjectTaken
<1>2. q = [of |-> s, saved |-> saved,
           is |-> [turns |-> t, parent |-> p, kids |-> k, merged |-> m, concluded |-> f]]
      BY <1>1
<1>3. /\ IsObject(q) /\ q.of = s /\ q.is.parent = p /\ q.is.kids = k /\ q.is.merged = m
      BY ONLY <1>2, ObjectMade
<1>4. o.of = s /\ o.is.parent = p /\ o.is.kids = k /\ o.is.merged = m
      BY <1>1, ObjectMade
<1> QED
      BY <1>3, <1>4 DEF SameFamily

LEMMA SameTwice ==
    ASSUME NEW o, NEW q, NEW r, SameFamily(o, q), SameFamily(q, r)
    PROVE  SameFamily(o, r)
BY DEF SameFamily

LEMMA MergedSays ==
    ASSUME NEW o, IsObject(o), NEW q, q = [o EXCEPT !.is.merged = TRUE]
    PROVE  /\ IsObject(q) /\ q.of = o.of /\ q.is.parent = o.is.parent
           /\ q.is.kids = o.is.kids /\ q.is.merged = TRUE
<1>1. PICK s, t, p, k, m, e, saved :
          o = [of |-> s, saved |-> saved,
               is |-> [turns |-> t, parent |-> p, kids |-> k, merged |-> m, concluded |-> e]]
      BY ObjectTaken
<1>2. PICK n : n = TRUE
      OBVIOUS
<1>3. q = [of |-> s, saved |-> saved,
           is |-> [turns |-> t, parent |-> p, kids |-> k, merged |-> n, concluded |-> e]]
      BY <1>1, <1>2
<1>4. /\ IsObject(q) /\ q.of = s /\ q.is.parent = p /\ q.is.kids = k /\ q.is.merged = n
      BY ONLY <1>3, ObjectMade
<1>5. o.of = s /\ o.is.parent = p /\ o.is.kids = k
      BY <1>1, ObjectMade
<1> QED
      BY <1>2, <1>4, <1>5

LEMMA HasKidSays ==
    ASSUME NEW o, IsObject(o), NEW k, NEW st, NEW q, q = HasKid(o, k, st)
    PROVE  /\ IsObject(q) /\ q.of = o.of /\ q.is.parent = o.is.parent
           /\ q.is.merged = o.is.merged
           /\ DOMAIN q.is.kids = DOMAIN o.is.kids \cup {k}
           /\ q.is.kids[k] = st
           /\ \A x \in DOMAIN o.is.kids \ {k} : q.is.kids[x] = o.is.kids[x]
<1>1. PICK s, t, p, ks, m, e, saved :
          o = [of |-> s, saved |-> saved,
               is |-> [turns |-> t, parent |-> p, kids |-> ks, merged |-> m, concluded |-> e]]
      BY ObjectTaken
<1>2. PICK js : js = [x \in DOMAIN ks \cup {k} |-> IF x = k THEN st ELSE ks[x]]
      OBVIOUS
<1>3. q = [of |-> s, saved |-> saved,
           is |-> [turns |-> t, parent |-> p, kids |-> js, merged |-> m, concluded |-> e]]
      BY <1>1, <1>2 DEF HasKid
<1>4. /\ IsObject(q) /\ q.of = s /\ q.is.parent = p /\ q.is.kids = js /\ q.is.merged = m
      BY ONLY <1>3, ObjectMade
<1>5. o.of = s /\ o.is.parent = p /\ o.is.kids = ks /\ o.is.merged = m
      BY <1>1, ObjectMade
<1>6. /\ DOMAIN js = DOMAIN ks \cup {k} /\ js[k] = st
      /\ \A x \in DOMAIN ks \ {k} : js[x] = ks[x]
      BY <1>2
<1> QED
      BY <1>4, <1>5, <1>6

-----------------------------------------------------------------------------
(* Calls and the objects they hold                                          *)

LEMMA UsedBy ==
    ASSUME FamilyInv
    PROVE  /\ \A s \in Sessions : live[s] # 0 => live[s] \in Objs
           /\ \A c \in Callers : /\ call[c].a # 0 => call[c].a \in Objs
                                 /\ call[c].b # 0 => call[c].b \in Objs
           /\ \A r \in Objs : \/ \E s \in Sessions : r = live[s]
                              \/ \E c \in Callers : r \in {call[c].a, call[c].b}
<1>1. \A s \in Sessions : live[s] # 0 => live[s] \in Refs
      BY FamilyAssumption DEF FamilyInv, FamilyShape, Refs
<1>2. \A c \in Callers : /\ call[c].a # 0 => call[c].a \in Refs
                         /\ call[c].b # 0 => call[c].b \in Refs
      BY FamilyAssumption DEF FamilyInv, FamilyShape, Refs, Calls
<1> QED
      BY <1>1, <1>2 DEF Objs, InUse

LEMMA UsedAfter ==
    ASSUME FamilyInv, NEW c \in Callers, NEW X,
           \A d \in Callers \ {c} : call'[d] \in {call[d], NoCall},
           call'[c].a \in Objs \cup X \cup {0}, call'[c].b \in Objs \cup X \cup {0},
           \A s \in Sessions : live'[s] \in Objs \cup X \cup {0}
    PROVE  Objs' \subseteq Objs \cup X
<1>1. \A d \in Callers : /\ call[d].a \in Objs \cup {0} /\ call[d].b \in Objs \cup {0}
      BY UsedBy
<1>2. NoCall.a = 0 /\ NoCall.b = 0
      BY DEF NoCall
<1>3. \A d \in Callers : call'[d].a \in Objs \cup X \cup {0} /\ call'[d].b \in Objs \cup X \cup {0}
      BY <1>1, <1>2
<1>4. 0 \notin Refs /\ Refs' = Refs
      BY DEF Refs
<1>5. ASSUME NEW r \in Objs' PROVE r \in Objs \cup X
  <2>1. r \in Refs /\ r \in InUse'
        BY <1>4 DEF Objs
  <2>2. \/ \E s \in Sessions : r = live'[s]
        \/ \E d \in Callers : r = call'[d].a \/ r = call'[d].b
        BY <2>1 DEF InUse
  <2> QED
        BY <2>1, <2>2, <1>3, <1>4
<1> QED
      BY <1>5

LEMMA FreeIsUnused == ASSUME Free # {} PROVE Fresh \in Refs /\ Fresh \notin InUse
BY DEF Free, Fresh

-----------------------------------------------------------------------------
(* What a step does                                                         *)

(* What is said now follows what was said, of the same session, and forks   *)
(* that it newly counts as merged know it.                                  *)
FollowsOn(x, y) ==
    /\ x.parent = y.parent
    /\ ~Together => Merged(x) \subseteq Merged(y) \cup KnownMerged'
    /\ DOMAIN x.kids \subseteq DOMAIN y.kids \cup stored'
    /\ y.merged = TRUE => x.merged = TRUE

(* An object was there, was read, or is of a session that is new.           *)
Came(r) ==
    \/ r \in Objs /\ copy'[r].of = copy[r].of /\ FollowsOn(copy'[r].is, copy[r].is)
    \/ \E s \in stored : copy'[r].of = s /\ FollowsOn(copy'[r].is, disk[s])
    \/ /\ copy'[r].of \in Sessions \ (stored \cup deleted)
       /\ DOMAIN copy'[r].is.kids = {} /\ copy'[r].is.parent # copy'[r].of

WrittenOnly(s) ==
    \/ s \in stored /\ disk'[s] = disk[s]
    \/ \E r \in Objs : /\ copy[r].of = s /\ IsSays(disk'[s])
                       /\ FollowsOn(disk'[s], copy[r].is)

StoreSound ==
    /\ stored' \subseteq Sessions /\ deleted' \subseteq Sessions
    /\ disk' = [s \in Sessions |-> disk'[s]]
    /\ stored \cup deleted \subseteq stored' \cup deleted'
    /\ \A s \in stored' : WrittenOnly(s)

CallSteps(c) ==
    /\ call' \in [Callers -> Calls] /\ CallOK(call'[c])
    /\ \A d \in Callers \ {c} : call'[d] \in {call[d], NoCall}

LEMMA ObjectsFollow ==
    ASSUME FamilyInv, StoreSound,
           \A r \in Objs' : IsObject(copy'[r]) /\ Came(r)
    PROVE  \A r \in Objs' :
               /\ copy'[r].of \in Sessions /\ copy'[r].is.parent # copy'[r].of
               /\ DOMAIN copy'[r].is.kids \subseteq stored' \cup deleted'
<1> SUFFICES ASSUME NEW r \in Objs'
    PROVE  /\ copy'[r].of \in Sessions /\ copy'[r].is.parent # copy'[r].of
           /\ DOMAIN copy'[r].is.kids \subseteq stored' \cup deleted'
    OBVIOUS
<1>1. CASE r \in Objs /\ copy'[r].of = copy[r].of /\ FollowsOn(copy'[r].is, copy[r].is)
  <2>1. /\ copy[r].of \in Sessions /\ copy[r].is.parent # copy[r].of
        /\ DOMAIN copy[r].is.kids \subseteq stored \cup deleted
        BY <1>1 DEF FamilyInv, ObjectsSound
  <2> QED
        BY <1>1, <2>1 DEF FollowsOn, StoreSound
<1>2. ASSUME NEW s \in stored, copy'[r].of = s, FollowsOn(copy'[r].is, disk[s])
      PROVE  /\ copy'[r].of \in Sessions /\ copy'[r].is.parent # copy'[r].of
             /\ DOMAIN copy'[r].is.kids \subseteq stored' \cup deleted'
  <2>1. s \in Sessions /\ disk[s].parent # s /\ DOMAIN disk[s].kids \subseteq stored \cup deleted
        BY DEF FamilyInv, DiskSound, FamilyShape
  <2> QED
        BY <1>2, <2>1 DEF FollowsOn, StoreSound
<1>3. CASE /\ copy'[r].of \in Sessions \ (stored \cup deleted)
           /\ DOMAIN copy'[r].is.kids = {} /\ copy'[r].is.parent # copy'[r].of
      BY <1>3
<1> QED
      BY <1>1, <1>2, <1>3 DEF Came

LEMMA DiskFollows ==
    ASSUME FamilyInv, StoreSound
    PROVE  DiskSound'
<1> SUFFICES ASSUME NEW s \in stored'
    PROVE  /\ IsSays(disk'[s]) /\ disk'[s].parent # s
           /\ DOMAIN disk'[s].kids \subseteq stored' \cup deleted'
    BY DEF DiskSound
<1>1. CASE s \in stored /\ disk'[s] = disk[s]
  <2>1. /\ IsSays(disk[s]) /\ disk[s].parent # s
        /\ DOMAIN disk[s].kids \subseteq stored \cup deleted
        BY <1>1 DEF FamilyInv, DiskSound
  <2> QED
        BY <1>1, <2>1 DEF StoreSound
<1>2. ASSUME NEW r \in Objs, copy[r].of = s, IsSays(disk'[s]), FollowsOn(disk'[s], copy[r].is)
      PROVE  /\ IsSays(disk'[s]) /\ disk'[s].parent # s
             /\ DOMAIN disk'[s].kids \subseteq stored' \cup deleted'
  <2>1. /\ copy[r].of \in Sessions /\ copy[r].is.parent # copy[r].of
        /\ DOMAIN copy[r].is.kids \subseteq stored \cup deleted
        BY DEF FamilyInv, ObjectsSound
  <2> QED
        BY <1>2, <2>1 DEF FollowsOn, StoreSound
<1> QED
      BY <1>1, <1>2 DEF StoreSound, WrittenOnly

(* What is counted as merged was so before, or is known to be now.          *)
LEMMA CountedBefore ==
    ASSUME FamilyInv, ~Together, StoreSound, \A r \in Objs' : Came(r), NEW k, CountedMerged(k)'
    PROVE  CountedMerged(k) \/ k \in KnownMerged'
<1>1. ASSUME NEW p \in stored', k \in Merged(disk'[p])
      PROVE  CountedMerged(k) \/ k \in KnownMerged'
  <2>1. WrittenOnly(p)
        BY DEF StoreSound
  <2>2. CASE p \in stored /\ disk'[p] = disk[p]
        BY <1>1, <2>2 DEF CountedMerged
  <2>3. ASSUME NEW r \in Objs, FollowsOn(disk'[p], copy[r].is)
        PROVE  CountedMerged(k) \/ k \in KnownMerged'
        BY <1>1, <2>3 DEF CountedMerged, FollowsOn
  <2> QED
        BY <2>1, <2>2, <2>3 DEF WrittenOnly
<1>2. ASSUME NEW r \in Objs', k \in Merged(copy'[r].is)
      PROVE  CountedMerged(k) \/ k \in KnownMerged'
  <2>1. CASE r \in Objs /\ FollowsOn(copy'[r].is, copy[r].is)
        BY <1>2, <2>1 DEF CountedMerged, FollowsOn
  <2>2. ASSUME NEW s \in stored, FollowsOn(copy'[r].is, disk[s])
        PROVE  CountedMerged(k) \/ k \in KnownMerged'
        BY <1>2, <2>2 DEF CountedMerged, FollowsOn
  <2>3. CASE DOMAIN copy'[r].is.kids = {}
        BY <1>2, <2>3 DEF Merged
  <2> QED
        BY <2>1, <2>2, <2>3 DEF Came
<1>3. \/ \E p \in stored' : k \in Merged(disk'[p])
      \/ \E r \in Objs' : k \in Merged(copy'[r].is)
      BY DEF CountedMerged, Merged
<1> QED
      BY <1>1, <1>2, <1>3

(* A session that is counted as merged is not new.                          *)
LEMMA CountedIsKnown ==
    ASSUME FamilyInv, NEW k, CountedMerged(k)
    PROVE  k \in stored \cup deleted
BY DEF FamilyInv, ObjectsSound, DiskSound, CountedMerged, Merged

(* Whoever is counted as merged, now or before, knows it.                   *)
LEMMA KnownFollows ==
    ASSUME FamilyInv, ~Together, StoreSound, \A r \in Objs' : Came(r),
           NEW k \in Sessions, CountedMerged(k)
    PROVE  k \in KnownMerged'
<1>1. /\ k \in stored => disk[k].merged = TRUE
      /\ \A r \in Objs : copy[r].of = k => copy[r].is.merged = TRUE
      BY DEF FamilyInv, MergeKnown, KnownMerged
<1>2. ASSUME k \in stored' PROVE disk'[k].merged = TRUE
  <2>1. WrittenOnly(k)
        BY <1>2 DEF StoreSound
  <2> QED
        BY <1>1, <2>1 DEF WrittenOnly, FollowsOn
<1>3. ASSUME NEW r \in Objs', copy'[r].of = k PROVE copy'[r].is.merged = TRUE
  <2>1. k \in stored \cup deleted
        BY CountedIsKnown
  <2> QED
        BY <1>1, <1>3, <2>1 DEF Came, FollowsOn
<1> QED
      BY <1>2, <1>3 DEF KnownMerged

LEMMA AloneStays ==
    ASSUME FamilyInv, ~Together, NEW c \in Callers, CallSteps(c),
           call[c] # NoCall \/ \A d \in Callers : call[d] = NoCall
    PROVE  Alone' /\ \A d \in Callers \ {c} : call'[d] = NoCall
<1>1. \A d \in Callers \ {c} : call[d] = NoCall
      BY DEF FamilyInv, Alone
<1>2. \A d \in Callers \ {c} : call'[d] = NoCall
      BY <1>1 DEF CallSteps
<1> QED
      BY <1>2 DEF Alone

LEMMA NoCallSound ==
    /\ CallOK(NoCall) /\ NoCall \in Calls /\ NoCall.at = "none"
    /\ NoCall.a = 0 /\ NoCall.b = 0
<1>1. 0 \in 0..MaxCopy
      BY FamilyAssumption
<1>a. NoCall.at = "none" /\ NoCall.a = 0 /\ NoCall.b = 0
      BY DEF NoCall
<1>b. "none" \in Stages /\ Nobody \in Places
      BY DEF Places, Stages
<1>c. NoCall \in Calls
      BY <1>1, <1>b DEF NoCall, Calls
<1>2. NoCall \in Calls /\ NoCall.at = "none" /\ NoCall.a = 0 /\ NoCall.b = 0
      BY <1>a, <1>c
<1>3. CallOK(NoCall)
      BY <1>2 DEF CallOK, SavesFirst, SavesSecond
<1> QED
      BY <1>2, <1>3

(* A step keeps the invariant if all that is said follows what was said.    *)
LEMMA StepKeeps ==
    ASSUME FamilyInv, NEW c \in Callers, CallSteps(c), StoreSound,
           call[c] # NoCall \/ Together \/ \A d \in Callers : call[d] = NoCall,
           Together' = Together,
           copy' = [r \in Refs |-> copy'[r]], live' \in [Sessions -> 0..MaxCopy],
           \A r \in Objs' : IsObject(copy'[r]) /\ Came(r),
           \A s \in Sessions : live'[s] # 0 => copy'[live'[s]].of = s,
           \A d \in Callers : FirstIsOf(d)',
           ~Together => MergeSound(c)'
    PROVE  FamilyInv'
<1>1. FamilyShape'
      BY DEF FamilyShape, StoreSound, CallSteps, Refs
<1>2. CallsSound'
  <2>1. \A d \in Callers : CallOK(call[d])
        BY DEF FamilyInv, CallsSound
  <2>2. \A d \in Callers : CallOK(call'[d])
        BY <2>1, NoCallSound DEF CallSteps
  <2> QED
        BY <2>2 DEF CallsSound, CallOK, Refs
<1>3. ObjectsSound'
      BY ObjectsFollow DEF ObjectsSound
<1>4. DiskSound'
      BY DiskFollows
<1>5. ASSUME ~Together' PROVE Alone' /\ MergeKnown' /\ \A d \in Callers : MergeSound(d)'
  <2>1. ~Together
        BY <1>5
  <2>2. Alone' /\ \A d \in Callers \ {c} : call'[d] = NoCall
        BY <2>1, AloneStays
  <2>3. MergeKnown'
        BY <2>1, CountedBefore, KnownFollows DEF MergeKnown
  <2>4. \A d \in Callers \ {c} : MergeSound(d)'
        BY <2>2, NoCallSound DEF MergeSound
  <2> QED
        BY <2>1, <2>2, <2>3, <2>4
<1> QED
      BY <1>1, <1>2, <1>3, <1>4, <1>5 DEF FamilyInv

LEMMA SameFollows ==
    ASSUME NEW x, NEW y, x.parent = y.parent, x.kids = y.kids, x.merged = y.merged
    PROVE  FollowsOn(x, y)
BY DEF FollowsOn, Merged

LEMMA StoreStays ==
    ASSUME FamilyInv, UNCHANGED <<store, deleted>>
    PROVE  StoreSound
<1>1. stored' = stored /\ disk' = disk /\ deleted' = deleted
      BY DEF store
<1> QED
      BY <1>1 DEF FamilyInv, FamilyShape, StoreSound, WrittenOnly

(* What a session says is written where it is stored.                       *)
LEMMA WritesSound ==
    ASSUME FamilyInv, NEW r \in Objs, NEW x, IsSays(x),
           x.parent = copy[r].is.parent, x.kids = copy[r].is.kids,
           x.merged = copy[r].is.merged,
           stored' = stored \cup {copy[r].of}, disk' = [disk EXCEPT ![copy[r].of] = x],
           deleted' = deleted
    PROVE  StoreSound
<1>1. copy[r].of \in Sessions /\ stored \subseteq Sessions /\ deleted \subseteq Sessions
      /\ disk = [s \in Sessions |-> disk[s]]
      BY DEF FamilyInv, ObjectsSound, FamilyShape
<1>2. FollowsOn(x, copy[r].is)
      BY SameFollows
<1>3. disk' = [s \in Sessions |-> disk'[s]] /\ disk'[copy[r].of] = x
      /\ \A s \in Sessions \ {copy[r].of} : disk'[s] = disk[s]
      BY <1>1
<1>4. \A s \in stored' : WrittenOnly(s)
      BY <1>1, <1>2, <1>3 DEF WrittenOnly
<1> QED
      BY <1>1, <1>3, <1>4 DEF StoreSound

LEMMA TurnsReplaced ==
    ASSUME NEW y, IsSays(y), NEW u, NEW x, x = [y EXCEPT !.turns = u]
    PROVE  IsSays(x) /\ x.parent = y.parent /\ x.kids = y.kids /\ x.merged = y.merged
BY DEF IsSays

LEMMA StoreWrites ==
    ASSUME FamilyInv, NEW r \in Objs, Store(copy[r]), deleted' = deleted
    PROVE  StoreSound
<1>1. PICK u : u = WrittenTurns(copy[r])
      OBVIOUS
<1>2. PICK x : x = [copy[r].is EXCEPT !.turns = u]
      OBVIOUS
<1>3. /\ stored' = stored \cup {copy[r].of}
      /\ disk' = [disk EXCEPT ![copy[r].of] = x]
      BY <1>1, <1>2 DEF Store
<1>4. IsSays(copy[r].is)
  <2>1. IsObject(copy[r])
        BY DEF FamilyInv, ObjectsSound
  <2> QED
        BY <2>1 DEF IsObject
<1>5. /\ IsSays(x) /\ x.parent = copy[r].is.parent /\ x.kids = copy[r].is.kids
      /\ x.merged = copy[r].is.merged
      BY <1>2, <1>4, TurnsReplaced
<1> QED
      BY <1>3, <1>5, WritesSound

LEMMA StopWrites ==
    ASSUME FamilyInv, NEW r \in Objs, StoreUpToStop(copy[r]), deleted' = deleted
    PROVE  StoreSound
<1>1. CASE copy[r].saved = <<>>
  <2>1. UNCHANGED store
        BY <1>1 DEF StoreUpToStop
  <2> QED
        BY <2>1, StoreStays
<1>2. CASE copy[r].saved # <<>>
  <2>1. PICK u : disk' = [disk EXCEPT ![copy[r].of] = [copy[r].is EXCEPT !.turns = u]]
        BY <1>2 DEF StoreUpToStop
  <2>2. PICK x : x = [copy[r].is EXCEPT !.turns = u]
        OBVIOUS
  <2>3. /\ stored' = stored \cup {copy[r].of}
        /\ disk' = [disk EXCEPT ![copy[r].of] = x]
        BY <1>2, <2>1, <2>2 DEF StoreUpToStop
  <2>4. IsSays(copy[r].is)
    <3>1. IsObject(copy[r])
          BY DEF FamilyInv, ObjectsSound
    <3> QED
          BY <3>1 DEF IsObject
  <2>5. /\ IsSays(x) /\ x.parent = copy[r].is.parent /\ x.kids = copy[r].is.kids
        /\ x.merged = copy[r].is.merged
        BY <2>2, <2>4, TurnsReplaced
  <2> QED
        BY <2>3, <2>5, WritesSound
<1> QED
      BY <1>1, <1>2

(* The calls of others still hold objects of their sessions.                *)
LEMMA OthersStay ==
    ASSUME FamilyInv, NEW c \in Callers, CallSteps(c),
           \A x \in Objs : copy'[x].of = copy[x].of,
           FirstIsOf(c)'
    PROVE  \A d \in Callers : FirstIsOf(d)'
<1> SUFFICES ASSUME NEW d \in Callers \ {c} PROVE FirstIsOf(d)'
    OBVIOUS
<1>1. CASE call'[d] = NoCall
      BY <1>1, NoCallSound DEF FirstIsOf
<1>2. CASE call'[d] = call[d]
  <2>1. FirstIsOf(d)
        BY DEF FamilyInv, ObjectsSound
  <2>2. call[d].a # 0 => call[d].a \in Objs
        BY UsedBy
  <2> QED
        BY <1>2, <2>1, <2>2 DEF FirstIsOf
<1> QED
      BY <1>1, <1>2 DEF CallSteps

(* A step that no session in memory tells from a save or a new turn.        *)
LEMMA QuietStep ==
    ASSUME FamilyInv, NEW c \in Callers, CallSteps(c), StoreSound,
           call[c] # NoCall \/ Together \/ \A d \in Callers : call[d] = NoCall,
           Together' = Together,
           copy' = [r \in Refs |-> copy'[r]], live' \in [Sessions -> 0..MaxCopy],
           call'[c].a \in Objs \cup {0}, call'[c].b \in Objs \cup {0},
           \A x \in Objs : SameFamily(copy[x], copy'[x]),
           \A s \in Sessions : \/ live'[s] = 0 \/ live'[s] = live[s]
                               \/ live'[s] \in Objs /\ copy[live'[s]].of = s,
           FirstIsOf(c)', ~Together => MergeSound(c)'
    PROVE  FamilyInv'
<1>1. \A s \in Sessions : live'[s] \in Objs \cup {0}
      BY UsedBy
<1>2. Objs' \subseteq Objs
  <2>1. \A d \in Callers \ {c} : call'[d] \in {call[d], NoCall}
        BY DEF CallSteps
  <2>2. Objs' \subseteq Objs \cup {}
        BY <1>1, <2>1, UsedAfter
  <2> QED
        BY <2>2
<1>3. \A r \in Objs' : IsObject(copy'[r]) /\ Came(r)
      BY <1>2, SameFollows DEF SameFamily, Came
<1>4. \A s \in Sessions : live'[s] # 0 => copy'[live'[s]].of = s
  <2>1. \A s \in Sessions : live[s] # 0 => copy[live[s]].of = s
        BY DEF FamilyInv, ObjectsSound
  <2>2. \A s \in Sessions : live'[s] # 0 => live'[s] \in Objs /\ copy[live'[s]].of = s
        BY <1>1, <2>1
  <2> QED
        BY <2>2 DEF SameFamily
<1>5. \A d \in Callers : FirstIsOf(d)'
      BY OthersStay DEF SameFamily
<1> QED
      BY <1>3, <1>4, <1>5, StepKeeps

LEMMA CallFacts ==
    ASSUME FamilyInv, NEW c \in Callers
    PROVE  /\ call[c] \in Calls /\ CallOK(call[c]) /\ FirstIsOf(c)
           /\ call[c] = [op |-> call[c].op, at |-> call[c].at, s |-> call[c].s,
                         t |-> call[c].t, a |-> call[c].a, b |-> call[c].b]
           /\ call[c].a \in Objs \cup {0} /\ call[c].b \in Objs \cup {0}
           /\ call[c].at # "none" => call[c] # NoCall
<1>1. call[c] \in Calls /\ CallOK(call[c]) /\ FirstIsOf(c)
      BY DEF FamilyInv, FamilyShape, CallsSound, ObjectsSound
<1>2. call[c] = [op |-> call[c].op, at |-> call[c].at, s |-> call[c].s,
                 t |-> call[c].t, a |-> call[c].a, b |-> call[c].b]
      BY <1>1 DEF Calls
<1>3. call[c].a \in Objs \cup {0} /\ call[c].b \in Objs \cup {0}
      BY UsedBy
<1> QED
      BY <1>1, <1>2, <1>3, NoCallSound

LEMMA HeldObjects ==
    ASSUME FamilyInv, NEW c \in Callers
    PROVE  /\ call[c].at \in SavesFirst \cup {"readParent", "summary", "saveChild", "loadSecond"}
                  => call[c].a \in Objs
           /\ call[c].at \in SavesSecond \cup {"summary", "saveParent", "saveFork", "saveSource"}
                  => call[c].b \in Objs
<1>1. CallOK(call[c]) /\ call[c].a \in Objs \cup {0} /\ call[c].b \in Objs \cup {0}
      BY CallFacts
<1>2. 0 \notin Refs
      BY DEF Refs
<1> QED
      BY <1>1, <1>2 DEF CallOK

LEMMA CallMoves ==
    ASSUME FamilyInv, NEW c \in Callers, NEW x \in Calls, CallOK(x),
           call' = [call EXCEPT ![c] = x]
    PROVE  CallSteps(c) /\ call'[c] = x
BY DEF FamilyInv, FamilyShape, CallSteps

LEMMA ObjFacts ==
    ASSUME FamilyInv, NEW r \in Objs
    PROVE  r \in Refs /\ r # 0 /\ r \in 0..MaxCopy /\ IsObject(copy[r]) /\ copy[r].of \in Sessions
BY FamilyAssumption DEF FamilyInv, ObjectsSound, Objs, Refs

LEMMA TouchSame ==
    ASSUME FamilyInv, NEW r \in Objs, NEW q, SameFamily(copy[r], q),
           copy' = [copy EXCEPT ![r] = q]
    PROVE  /\ copy' = [x \in Refs |-> copy'[x]]
           /\ \A x \in Objs : SameFamily(copy[x], copy'[x])
<1>1. copy = [x \in Refs |-> copy[x]] /\ Objs \subseteq Refs
      BY DEF FamilyInv, FamilyShape, Objs
<1>2. \A x \in Objs : SameFamily(copy[x], copy[x])
      BY ObjFacts, SameAsItself
<1> QED
      BY <1>1, <1>2

LEMMA CopyStays ==
    ASSUME FamilyInv, copy' = copy
    PROVE  /\ copy' = [x \in Refs |-> copy'[x]]
           /\ \A x \in Objs : SameFamily(copy[x], copy'[x])
BY ObjFacts, SameAsItself DEF FamilyInv, FamilyShape

LEMMA CleanTouches ==
    ASSUME FamilyInv, NEW r \in Objs, copy' = With(r, Clean(copy[r]))
    PROVE  /\ copy' = [x \in Refs |-> copy'[x]]
           /\ \A x \in Objs : SameFamily(copy[x], copy'[x])
<1>1. SameFamily(copy[r], Clean(copy[r]))
      BY ObjFacts, CleanSame
<1> QED
      BY <1>1, TouchSame DEF With

LEMMA AddsTouches ==
    ASSUME FamilyInv, NEW r \in Objs, NEW kind, NEW with,
           copy' = With(r, Adds(copy[r], kind, with))
    PROVE  /\ copy' = [x \in Refs |-> copy'[x]]
           /\ \A x \in Objs : SameFamily(copy[x], copy'[x])
<1>1. SameFamily(copy[r], Adds(copy[r], kind, with))
      BY ObjFacts, AddsSame
<1> QED
      BY <1>1, TouchSame DEF With

LEMMA LiveStays ==
    ASSUME FamilyInv, live' = live
    PROVE  /\ live' \in [Sessions -> 0..MaxCopy]
           /\ \A s \in Sessions : live'[s] = live[s]
BY DEF FamilyInv, FamilyShape

(* Another object of a session takes its place in memory.                   *)
LEMMA LiveTaken ==
    ASSUME FamilyInv, NEW r \in Objs, live' = [live EXCEPT ![copy[r].of] = r]
    PROVE  /\ live' \in [Sessions -> 0..MaxCopy]
           /\ \A s \in Sessions : \/ live'[s] = live[s]
                                  \/ live'[s] \in Objs /\ copy[live'[s]].of = s
BY ObjFacts DEF FamilyInv, FamilyShape

(* A call ends that holds nothing any more.                                 *)
LEMMA QuietEnds ==
    ASSUME FamilyInv, NEW c \in Callers, call[c].at # "none", Ends(c), StoreSound,
           Together' = Together,
           copy' = [r \in Refs |-> copy'[r]], live' \in [Sessions -> 0..MaxCopy],
           \A x \in Objs : SameFamily(copy[x], copy'[x]),
           \A s \in Sessions : \/ live'[s] = 0 \/ live'[s] = live[s]
                               \/ live'[s] \in Objs /\ copy[live'[s]].of = s
    PROVE  FamilyInv'
<1>1. CallSteps(c) /\ call'[c] = NoCall
      BY CallMoves, NoCallSound DEF Ends
<1>2. FirstIsOf(c)' /\ MergeSound(c)'
      BY <1>1, NoCallSound DEF FirstIsOf, MergeSound
<1>3. call[c] # NoCall
      BY CallFacts
<1> QED
      BY <1>1, <1>2, <1>3, NoCallSound, QuietStep

(* A call goes on to wait, other than to merge.                             *)
LEMMA QuietWaits ==
    ASSUME FamilyInv, NEW c \in Callers, call[c].at # "none", NEW x \in Calls, CallOK(x),
           x.at \notin {"running", "loadSecond", "readParent", "saveFork"},
           x.a \in Objs \cup {0}, x.b \in Objs \cup {0},
           call' = [call EXCEPT ![c] = x], StoreSound,
           Together' = Together,
           copy' = [r \in Refs |-> copy'[r]], live' \in [Sessions -> 0..MaxCopy],
           \A y \in Objs : SameFamily(copy[y], copy'[y]),
           \A s \in Sessions : \/ live'[s] = 0 \/ live'[s] = live[s]
                               \/ live'[s] \in Objs /\ copy[live'[s]].of = s
    PROVE  FamilyInv'
<1>1. CallSteps(c) /\ call'[c] = x
      BY CallMoves
<1>2. FirstIsOf(c)' /\ MergeSound(c)'
      BY <1>1 DEF FirstIsOf, MergeSound
<1>3. call[c] # NoCall
      BY CallFacts
<1> QED
      BY <1>1, <1>2, <1>3, QuietStep

LEMMA RefuseKeeps ==
    ASSUME FamilyInv, NEW c \in Callers, call[c].at # "none", Refuse(c) PROVE FamilyInv'
<1>1. Ends(c) /\ copy' = copy /\ UNCHANGED <<occasion, store, live, deleted>>
      BY DEF Refuse
<1>2. StoreSound /\ Together' = Together
      BY <1>1, StoreStays DEF Together
<1> QED
      BY <1>1, <1>2, CopyStays, LiveStays, QuietEnds

LEMMA SaveAndEndKeeps ==
    ASSUME FamilyInv, NEW c \in Callers, SaveAndEnd(c) PROVE FamilyInv'
<1>1. /\ call[c].at = "saveLast" /\ Store(copy[call[c].a]) /\ Ends(c)
      /\ copy' = With(call[c].a, Clean(copy[call[c].a]))
      /\ UNCHANGED <<occasion, live, deleted>>
      BY DEF SaveAndEnd, Waits
<1>2. call[c].a \in Objs
      BY <1>1, HeldObjects DEF SavesFirst
<1>3. StoreSound /\ Together' = Together
      BY <1>1, <1>2, StoreWrites DEF Together
<1> QED
      BY <1>1, <1>2, <1>3, CleanTouches, LiveStays, QuietEnds

LEMMA SaveTableKeeps ==
    ASSUME FamilyInv, NEW c \in Callers, SaveTable(c) PROVE FamilyInv'
<1>1. /\ call[c].at = "saveTable" /\ Ends(c)
      /\ UNCHANGED <<occasion, store, copy, live, deleted>>
      BY DEF SaveTable, Waits
<1>2. StoreSound /\ Together' = Together
      BY <1>1, StoreStays DEF Together
<1> QED
      BY <1>1, <1>2, CopyStays, LiveStays, QuietEnds

LEMMA SaveFailsKeeps ==
    ASSUME FamilyInv, NEW c \in Callers, SaveFails(c) PROVE FamilyInv'
<1> DEFINE r == IF call[c].at \in SavesSecond THEN call[c].b ELSE call[c].a
<1>1. /\ call[c].at \in SavesFirst \cup SavesSecond /\ Ends(c) /\ copy' = copy
      /\ StoreUpToStop(copy[r])
      /\ UNCHANGED <<occasion, live, deleted>>
      BY DEF SaveFails
<1>2. r \in Objs
      BY <1>1, HeldObjects
<1> HIDE DEF r
<1>3. StoreSound /\ Together' = Together
      BY <1>1, <1>2, StopWrites DEF Together
<1>4. call[c].at # "none"
      BY <1>1 DEF SavesFirst, SavesSecond
<1> QED
      BY <1>1, <1>3, <1>4, CopyStays, LiveStays, QuietEnds

LEMMA SaveBackendKeeps ==
    ASSUME FamilyInv, NEW c \in Callers, SaveBackend(c) PROVE FamilyInv'
<1>1. /\ call[c].at = "saveBackend" /\ Store(copy[call[c].a]) /\ Ends(c)
      /\ copy' = With(call[c].a, Clean(copy[call[c].a]))
      /\ UNCHANGED <<occasion, live, deleted>>
      BY DEF SaveBackend, Waits
<1>2. call[c].a \in Objs
      BY <1>1, HeldObjects DEF SavesFirst
<1>3. StoreSound /\ Together' = Together
      BY <1>1, <1>2, StoreWrites DEF Together
<1> QED
      BY <1>1, <1>2, <1>3, CleanTouches, LiveStays, QuietEnds

LEMMA SaveIntoKeeps ==
    ASSUME FamilyInv, NEW c \in Callers, SaveInto(c) PROVE FamilyInv'
<1> DEFINE b == call[c].b
<1>1. /\ call[c].at = "saveInto" /\ Store(copy[b]) /\ Ends(c)
      /\ copy' = With(b, Clean(copy[b])) /\ live' = [live EXCEPT ![copy[b].of] = b]
      /\ UNCHANGED <<occasion, deleted>>
      BY DEF SaveInto, Waits
<1>2. b \in Objs
      BY <1>1, HeldObjects DEF SavesSecond
<1> HIDE DEF b
<1>3. StoreSound /\ Together' = Together
      BY <1>1, <1>2, StoreWrites DEF Together
<1> QED
      BY <1>1, <1>2, <1>3, CleanTouches, LiveTaken, QuietEnds

LEMMA SaveParentKeeps ==
    ASSUME FamilyInv, NEW c \in Callers, SaveParent(c) PROVE FamilyInv'
<1> DEFINE a == call[c].a
           b == call[c].b
<1>1. /\ call[c].at = "saveParent" /\ Store(copy[a]) /\ Ends(c)
      /\ copy' = With(a, Clean(copy[a]))
      /\ live' = live \/ live' = [live EXCEPT ![copy[b].of] = b]
      /\ UNCHANGED <<occasion, deleted>>
      BY DEF SaveParent, Waits
<1>2. a \in Objs /\ b \in Objs
      BY <1>1, HeldObjects DEF SavesFirst
<1> HIDE DEF a, b
<1>3. StoreSound /\ Together' = Together
      BY <1>1, <1>2, StoreWrites DEF Together
<1>4. /\ live' \in [Sessions -> 0..MaxCopy]
      /\ \A s \in Sessions : \/ live'[s] = live[s]
                             \/ live'[s] \in Objs /\ copy[live'[s]].of = s
      BY <1>1, <1>2, LiveStays, LiveTaken
<1> QED
      BY <1>1, <1>2, <1>3, <1>4, CleanTouches, QuietEnds

(* The forms in which a call moves on.                                      *)
MovesFirst(c, at, a) == call' = [call EXCEPT ![c].at = at, ![c].a = a]
MovesBoth(c, at, a, b) == call' = [call EXCEPT ![c].at = at, ![c].a = a, ![c].b = b]
MovesAll(c, at, s, t, a, b) ==
    call' = [call EXCEPT ![c].at = at, ![c].s = s, ![c].t = t, ![c].a = a, ![c].b = b]

LEMMA FirstMoved ==
    ASSUME FamilyInv, NEW c \in Callers, NEW at, NEW a, NEW x, MovesFirst(c, at, a),
           x = [op |-> call[c].op, at |-> at, s |-> call[c].s, t |-> call[c].t,
                a |-> a, b |-> call[c].b]
    PROVE  call' = [call EXCEPT ![c] = x]
<1>1. PICK y : y = call[c]
      OBVIOUS
<1>2. y = [op |-> y.op, at |-> y.at, s |-> y.s, t |-> y.t, a |-> y.a, b |-> y.b]
      BY <1>1, CallFacts
<1>3. PICK z : z = [y EXCEPT !.at = at, !.a = a]
      OBVIOUS
<1>a. z = [op |-> y.op, at |-> at, s |-> y.s, t |-> y.t,
                a |-> a, b |-> y.b]
      BY <1>2, <1>3
<1>4. call = [d \in Callers |-> call[d]]
      BY DEF FamilyInv, FamilyShape
<1>5. call' = [call EXCEPT ![c] = [y EXCEPT !.at = at, !.a = a]]
      BY ONLY <1>1, <1>4, MovesFirst(c, at, a) DEF MovesFirst
<1> QED
      BY <1>1, <1>3, <1>a, <1>5

LEMMA BothMoved ==
    ASSUME FamilyInv, NEW c \in Callers, NEW at, NEW a, NEW b, NEW x,
           MovesBoth(c, at, a, b),
           x = [op |-> call[c].op, at |-> at, s |-> call[c].s, t |-> call[c].t,
                a |-> a, b |-> b]
    PROVE  call' = [call EXCEPT ![c] = x]
<1>1. PICK y : y = call[c]
      OBVIOUS
<1>2. y = [op |-> y.op, at |-> y.at, s |-> y.s, t |-> y.t, a |-> y.a, b |-> y.b]
      BY <1>1, CallFacts
<1>3. PICK z : z = [y EXCEPT !.at = at, !.a = a, !.b = b]
      OBVIOUS
<1>a. z = [op |-> y.op, at |-> at, s |-> y.s, t |-> y.t,
                a |-> a, b |-> b]
      BY <1>2, <1>3
<1>4. call = [d \in Callers |-> call[d]]
      BY DEF FamilyInv, FamilyShape
<1>5. call' = [call EXCEPT ![c] = [y EXCEPT !.at = at, !.a = a, !.b = b]]
      BY ONLY <1>1, <1>4, MovesBoth(c, at, a, b) DEF MovesBoth
<1> QED
      BY <1>1, <1>3, <1>a, <1>5

LEMMA AllMoved ==
    ASSUME FamilyInv, NEW c \in Callers, NEW at, NEW s, NEW t, NEW a, NEW b, NEW x,
           MovesAll(c, at, s, t, a, b),
           x = [op |-> call[c].op, at |-> at, s |-> s, t |-> t, a |-> a, b |-> b]
    PROVE  call' = [call EXCEPT ![c] = x]
<1>1. PICK y : y = call[c]
      OBVIOUS
<1>2. y = [op |-> y.op, at |-> y.at, s |-> y.s, t |-> y.t, a |-> y.a, b |-> y.b]
      BY <1>1, CallFacts
<1>3. PICK z : z = [y EXCEPT !.at = at, !.s = s, !.t = t, !.a = a, !.b = b]
      OBVIOUS
<1>a. z = [op |-> y.op, at |-> at, s |-> s, t |-> t, a |-> a, b |-> b]
      BY <1>2, <1>3
<1>4. call = [d \in Callers |-> call[d]]
      BY DEF FamilyInv, FamilyShape
<1>5. call' = [call EXCEPT ![c] = [y EXCEPT !.at = at, !.s = s, !.t = t, !.a = a, !.b = b]]
      BY ONLY <1>1, <1>4, MovesAll(c, at, s, t, a, b) DEF MovesAll
<1> QED
      BY <1>1, <1>3, <1>a, <1>5

LEMMA MovedOn ==
    ASSUME FamilyInv, NEW c \in Callers, NEW at, NEW x,
           x = [op |-> call[c].op, at |-> at, s |-> call[c].s, t |-> call[c].t,
                a |-> call[c].a, b |-> call[c].b],
           Goes(c, at)
    PROVE  call' = [call EXCEPT ![c] = x]
<1>1. call[c] = [op |-> call[c].op, at |-> call[c].at, s |-> call[c].s,
                 t |-> call[c].t, a |-> call[c].a, b |-> call[c].b]
      BY CallFacts
<1>2. [call[c] EXCEPT !.at = at] = x
      BY <1>1
<1>3. call = [d \in Callers |-> call[d]]
      BY DEF FamilyInv, FamilyShape
<1> QED
      BY <1>2, <1>3 DEF Goes

LEMMA MadeCall ==
    ASSUME FamilyInv, NEW c \in Callers, NEW at \in Stages, NEW s \in Places, NEW t \in Places,
           NEW a \in Objs \cup {0}, NEW b \in Objs \cup {0}, NEW x,
           x = [op |-> call[c].op, at |-> at, s |-> s, t |-> t, a |-> a, b |-> b]
    PROVE  /\ x \in Calls /\ x.op = call[c].op /\ x.at = at /\ x.s = s /\ x.t = t
           /\ x.a = a /\ x.b = b
<1>1. a \in 0..MaxCopy /\ b \in 0..MaxCopy
      BY FamilyAssumption, ObjFacts
<1>2. call[c].op \in Requests \cup {"none"}
      BY CallFacts DEF Calls
<1> QED
      BY <1>1, <1>2 DEF Calls

LEMMA MovedOnMade ==
    ASSUME FamilyInv, NEW c \in Callers, NEW at \in Stages, Goes(c, at)
    PROVE  \E x \in Calls :
               /\ call' = [call EXCEPT ![c] = x]
               /\ x.op = call[c].op /\ x.at = at /\ x.s = call[c].s /\ x.t = call[c].t
               /\ x.a = call[c].a /\ x.b = call[c].b
<1>1. PICK s, t, a, b : s = call[c].s /\ t = call[c].t /\ a = call[c].a /\ b = call[c].b
      OBVIOUS
<1>2. s \in Places /\ t \in Places /\ a \in Objs \cup {0} /\ b \in Objs \cup {0}
      BY <1>1, CallFacts DEF Calls
<1>3. PICK x : x = [op |-> call[c].op, at |-> at, s |-> s, t |-> t, a |-> a, b |-> b]
      OBVIOUS
<1>4. /\ x \in Calls /\ x.op = call[c].op /\ x.at = at /\ x.s = s /\ x.t = t
      /\ x.a = a /\ x.b = b
      BY <1>2, <1>3, MadeCall
<1>5. call' = [call EXCEPT ![c] = x]
      BY <1>1, <1>3, MovedOn
<1> QED
      BY <1>1, <1>4, <1>5

LEMMA FirstMade ==
    ASSUME FamilyInv, NEW c \in Callers, NEW at \in Stages, NEW a \in Objs \cup {0},
           MovesFirst(c, at, a)
    PROVE  \E x \in Calls :
               /\ call' = [call EXCEPT ![c] = x]
               /\ x.op = call[c].op /\ x.at = at /\ x.s = call[c].s /\ x.t = call[c].t
               /\ x.a = a /\ x.b = call[c].b
<1>1. PICK s, t, b : s = call[c].s /\ t = call[c].t /\ b = call[c].b
      OBVIOUS
<1>2. s \in Places /\ t \in Places /\ b \in Objs \cup {0}
      BY <1>1, CallFacts DEF Calls
<1>3. PICK x : x = [op |-> call[c].op, at |-> at, s |-> s, t |-> t, a |-> a, b |-> b]
      OBVIOUS
<1>4. /\ x \in Calls /\ x.op = call[c].op /\ x.at = at /\ x.s = s /\ x.t = t
      /\ x.a = a /\ x.b = b
      BY <1>2, <1>3, MadeCall
<1>5. call' = [call EXCEPT ![c] = x]
      BY <1>1, <1>3, FirstMoved
<1> QED
      BY <1>1, <1>4, <1>5

LEMMA BothMade ==
    ASSUME FamilyInv, NEW c \in Callers, NEW at \in Stages, NEW a \in Objs \cup {0},
           NEW b \in Objs \cup {0}, MovesBoth(c, at, a, b)
    PROVE  \E x \in Calls :
               /\ call' = [call EXCEPT ![c] = x]
               /\ x.op = call[c].op /\ x.at = at /\ x.s = call[c].s /\ x.t = call[c].t
               /\ x.a = a /\ x.b = b
<1>1. PICK s, t : s = call[c].s /\ t = call[c].t
      OBVIOUS
<1>2. s \in Places /\ t \in Places
      BY <1>1, CallFacts DEF Calls
<1>3. PICK x : x = [op |-> call[c].op, at |-> at, s |-> s, t |-> t, a |-> a, b |-> b]
      OBVIOUS
<1>4. /\ x \in Calls /\ x.op = call[c].op /\ x.at = at /\ x.s = s /\ x.t = t
      /\ x.a = a /\ x.b = b
      BY <1>2, <1>3, MadeCall
<1>5. call' = [call EXCEPT ![c] = x]
      BY <1>1, <1>3, BothMoved
<1> QED
      BY <1>1, <1>4, <1>5

(* What a running call has of its first session, and of its second.         *)
LEMMA FirstFacts ==
    ASSUME FamilyInv, NEW c \in Callers, call[c].at = "running", call[c].op # "create"
    PROVE  /\ call[c].s \in Sessions /\ First(c) \in Objs \cup {0}
           /\ First(c) # 0 => copy[First(c)].of = call[c].s
           /\ HasFirst(c) => First(c) \in Objs
           /\ ~Together /\ call[c].op = "merge" /\ First(c) # 0 => live[call[c].s] = First(c)
<1>1. call[c].s \in Sessions /\ call[c].a \in Objs \cup {0} /\ FirstIsOf(c)
      BY CallFacts DEF CallOK
<1>2. /\ live[call[c].s] \in Objs \cup {0}
      /\ live[call[c].s] # 0 => copy[live[call[c].s]].of = call[c].s
      BY <1>1, UsedBy DEF FamilyInv, ObjectsSound
<1>3. First(c) = IF call[c].a # 0 THEN call[c].a ELSE live[call[c].s]
      BY DEF First
<1>4. First(c) # 0 => copy[First(c)].of = call[c].s
      BY <1>1, <1>2, <1>3 DEF FirstIsOf
<1>5. HasFirst(c) => First(c) # 0
      BY DEF HasFirst
<1>6. ~Together /\ call[c].op = "merge" /\ First(c) # 0 => live[call[c].s] = First(c)
      BY <1>3 DEF FamilyInv, MergeSound
<1> QED
      BY <1>1, <1>2, <1>3, <1>4, <1>5, <1>6

LEMMA SecondFacts ==
    ASSUME FamilyInv, NEW c \in Callers, call[c].at = "running", call[c].op \in {"link", "watch"}
    PROVE  /\ call[c].t \in Sessions /\ Second(c) \in Objs \cup {0}
           /\ HasAll(c) => Second(c) \in Objs
<1>1. call[c].t \in Sessions /\ call[c].b \in Objs \cup {0}
      BY CallFacts DEF CallOK
<1>2. live[call[c].t] \in Objs \cup {0}
      BY <1>1, UsedBy
<1> QED
      BY <1>1, <1>2 DEF Second, HasAll, NeedsBoth

LEMMA ChangeKeeps ==
    ASSUME FamilyInv, NEW c \in Callers, call[c].at # "none", NEW r \in Objs, NEW o,
           SameFamily(copy[r], o), NEW at \in {"saveLast", "saveWatch", "saveUnwatch"},
           Change(c, r, o, at)
    PROVE  FamilyInv'
<1>1. /\ MovesFirst(c, at, r) /\ copy' = [copy EXCEPT ![r] = o]
      /\ UNCHANGED <<occasion, store, live, deleted>>
      BY DEF Change, With, MovesFirst
<1>2. at \in Stages /\ r \in Objs \cup {0}
      BY DEF Stages, SavesFirst
<1>3. call[c].b \in Objs \cup {0}
      BY CallFacts DEF Calls
<1>4. PICK x \in Calls :
          /\ call' = [call EXCEPT ![c] = x]
          /\ x.op = call[c].op /\ x.at = at /\ x.s = call[c].s /\ x.t = call[c].t
          /\ x.a = r /\ x.b = call[c].b
      BY <1>1, <1>2, FirstMade
<1>5. CallOK(x)
      BY <1>3, <1>4, ObjFacts DEF CallOK, SavesSecond
<1>6. call' = [call EXCEPT ![c] = x]
      BY <1>4
<1>7. StoreSound /\ Together' = Together
      BY <1>1, StoreStays DEF Together
<1> QED
      BY <1>1, <1>3, <1>4, <1>5, <1>6, <1>7, TouchSame, LiveStays, QuietWaits

LEMMA ConcludeKeeps == ASSUME FamilyInv, NEW c \in Callers, Conclude(c) PROVE FamilyInv'
<1>1. PICK r, p : r = First(c) /\ p = Adds(copy[r], "noted", Nobody)
      OBVIOUS
<1>2. PICK o : o = [p EXCEPT !.is.concluded = ~@]
      OBVIOUS
<1>3. call[c].at = "running" /\ call[c].op # "create" /\ HasFirst(c)
      /\ Change(c, r, o, "saveLast")
      BY <1>1, <1>2 DEF Conclude, Runs
<1>4. r \in Objs
      BY <1>1, <1>3, FirstFacts
<1>5. SameFamily(copy[r], p) /\ IsObject(p)
      BY <1>1, <1>4, ObjFacts, AddsSame DEF SameFamily
<1>6. SameFamily(p, o)
      BY <1>2, <1>5, ConcludedSame
<1> QED
      BY <1>3, <1>4, <1>5, <1>6, SameTwice, ChangeKeeps

LEMMA WatchKeeps == ASSUME FamilyInv, NEW c \in Callers, Watch(c) PROVE FamilyInv'
<1>1. PICK r, o : r = First(c) /\ o = Adds(copy[r], "watch", call[c].t)
      OBVIOUS
<1>2. call[c].at = "running" /\ call[c].op # "create" /\ HasFirst(c)
      /\ Change(c, r, o, "saveWatch")
      BY <1>1 DEF Watch, Runs, HasAll
<1>3. r \in Objs
      BY <1>1, <1>2, FirstFacts
<1>4. SameFamily(copy[r], o)
      BY <1>1, <1>3, ObjFacts, AddsSame
<1> QED
      BY <1>2, <1>3, <1>4, ChangeKeeps

LEMMA UnwatchKeeps == ASSUME FamilyInv, NEW c \in Callers, Unwatch(c) PROVE FamilyInv'
<1>1. PICK r, o : r = First(c) /\ o = Adds(copy[r], "unwatch", call[c].t)
      OBVIOUS
<1>2. call[c].at = "running" /\ call[c].op # "create" /\ HasFirst(c)
      /\ Change(c, r, o, "saveUnwatch")
      BY <1>1 DEF Unwatch, Runs
<1>3. r \in Objs
      BY <1>1, <1>2, FirstFacts
<1>4. SameFamily(copy[r], o)
      BY <1>1, <1>3, ObjFacts, AddsSame
<1> QED
      BY <1>2, <1>3, <1>4, ChangeKeeps

LEMMA RegisterKeeps ==
    ASSUME FamilyInv, NEW c \in Callers, call[c].at # "none",
           NEW s \in Places, NEW t \in Places, Register(c, s, t), StoreSound,
           Together' = Together, live' = live,
           copy' = [r \in Refs |-> copy'[r]], \A x \in Objs : SameFamily(copy[x], copy'[x])
    PROVE  FamilyInv'
<1>1. CASE Ends(c)
      BY <1>1, LiveStays, QuietEnds
<1>2. CASE MovesAll(c, "saveTable", s, t, 0, 0)
  <2>1. PICK x : x = [op |-> call[c].op, at |-> "saveTable", s |-> s, t |-> t, a |-> 0, b |-> 0]
        OBVIOUS
  <2>2. x \in Calls /\ x.at = "saveTable" /\ x.a = 0 /\ x.b = 0
        BY <2>1, MadeCall DEF Stages
  <2>3. CallOK(x)
        BY <2>2 DEF CallOK, SavesFirst, SavesSecond
  <2>4. call' = [call EXCEPT ![c] = x]
        BY <1>2, <2>1, AllMoved
  <2> QED
        BY <2>2, <2>3, <2>4, LiveStays, QuietWaits
<1> QED
      BY <1>1, <1>2 DEF Register, MovesAll

LEMMA SaveWatchKeeps == ASSUME FamilyInv, NEW c \in Callers, SaveWatch(c) PROVE FamilyInv'
<1>1. /\ call[c].at = "saveWatch" /\ Store(copy[call[c].a])
      /\ Register(c, call[c].s, call[c].t)
      /\ copy' = With(call[c].a, Clean(copy[call[c].a]))
      /\ UNCHANGED <<occasion, live, deleted>>
      BY DEF SaveWatch, Waits
<1>2. call[c].a \in Objs /\ call[c].s \in Places /\ call[c].t \in Places
      BY <1>1, HeldObjects, CallFacts DEF SavesFirst, Calls
<1>3. StoreSound /\ Together' = Together
      BY <1>1, <1>2, StoreWrites DEF Together
<1> QED
      BY <1>1, <1>2, <1>3, CleanTouches, RegisterKeeps

LEMMA OpenKeeps == ASSUME FamilyInv, NEW c \in Callers, Open(c) PROVE FamilyInv'
<1>1. /\ call[c].at = "running" /\ call[c].op # "create"
      /\ UNCHANGED <<occasion, store, copy, live, deleted>>
      /\ Ends(c) \/ \E t \in Sessions : Register(c, call[c].s, t)
      BY DEF Open, Runs
<1>2. call[c].s \in Places /\ Sessions \subseteq Places
      BY CallFacts DEF Calls, Places
<1>3. StoreSound /\ Together' = Together
      BY <1>1, StoreStays DEF Together
<1>4. /\ copy' = [r \in Refs |-> copy'[r]]
      /\ \A x \in Objs : SameFamily(copy[x], copy'[x])
      BY <1>1, CopyStays
<1>5. CASE Ends(c)
      BY <1>1, <1>3, <1>4, <1>5, LiveStays, QuietEnds
<1>6. ASSUME NEW t \in Sessions, Register(c, call[c].s, t) PROVE FamilyInv'
      BY <1>1, <1>2, <1>3, <1>4, <1>6, RegisterKeeps
<1> QED
      BY <1>1, <1>5, <1>6

LEMMA SaveNewKeeps == ASSUME FamilyInv, NEW c \in Callers, SaveNew(c) PROVE FamilyInv'
<1> DEFINE r == call[c].b
           n == copy[r].of
<1>1. /\ call[c].at = "saveNew" /\ Store(copy[r])
      /\ live' = [live EXCEPT ![n] = r]
      /\ UNCHANGED <<occasion, deleted>>
      /\ \/ Ends(c) /\ copy' = copy
         \/ /\ MovesAll(c, "saveWatch", n, call[c].s, r, 0)
            /\ copy' = With(r, Adds(copy[r], "watch", call[c].s))
      BY DEF SaveNew, Waits, MovesAll
<1>2. r \in Objs
      BY <1>1, HeldObjects DEF SavesSecond
<1> HIDE DEF r, n
<1>3. StoreSound /\ Together' = Together
      BY <1>1, <1>2, StoreWrites DEF Together, n
<1>4. n \in Sessions /\ r \in Refs
      BY <1>2, ObjFacts DEF n
<1>5. /\ live' \in [Sessions -> 0..MaxCopy]
      /\ \A s \in Sessions : \/ live'[s] = live[s]
                             \/ live'[s] \in Objs /\ copy[live'[s]].of = s
      BY <1>1, <1>2, LiveTaken DEF n
<1>6. CASE Ends(c) /\ copy' = copy
      BY <1>1, <1>3, <1>5, <1>6, CopyStays, QuietEnds
<1>7. CASE /\ MovesAll(c, "saveWatch", n, call[c].s, r, 0)
           /\ copy' = With(r, Adds(copy[r], "watch", call[c].s))
  <2>1. PICK x : x = [op |-> call[c].op, at |-> "saveWatch", s |-> n, t |-> call[c].s,
                      a |-> r, b |-> 0]
        OBVIOUS
  <2>2. "saveWatch" \in Stages /\ n \in Places /\ call[c].s \in Places
        BY <1>4, CallFacts DEF Stages, SavesFirst, Places, Calls
  <2>3. x \in Calls /\ x.at = "saveWatch" /\ x.a = r /\ x.b = 0
        BY <1>2, <2>1, <2>2, MadeCall
  <2>4. CallOK(x)
        BY <1>4, <2>3 DEF CallOK, SavesSecond
  <2>5. call' = [call EXCEPT ![c] = x]
        BY <1>7, <2>1, AllMoved
  <2>6. /\ copy' = [y \in Refs |-> copy'[y]]
        /\ \A y \in Objs : SameFamily(copy[y], copy'[y])
        BY <1>2, <1>7, AddsTouches
  <2> QED
        BY <1>1, <1>2, <1>3, <1>5, <2>3, <2>4, <2>5, <2>6, QuietWaits
<1> QED
      BY <1>1, <1>6, <1>7

LEMMA SaveTalkKeeps == ASSUME FamilyInv, NEW c \in Callers, SaveTalk(c) PROVE FamilyInv'
<1>1. /\ call[c].at = "saveTalk" /\ Store(copy[call[c].a])
      /\ copy' = With(call[c].a, Clean(copy[call[c].a])) /\ UNCHANGED <<occasion, live, deleted>>
      /\ Ends(c) \/ Goes(c, "stream")
      BY DEF SaveTalk, Waits
<1>2. call[c].a \in Objs /\ call[c].s \in Sessions
      BY <1>1, HeldObjects, CallFacts DEF SavesFirst, CallOK
<1>3. StoreSound /\ Together' = Together
      BY <1>1, <1>2, StoreWrites DEF Together
<1>4. CASE Ends(c)
      BY <1>1, <1>2, <1>3, <1>4, CleanTouches, LiveStays, QuietEnds
<1>5. CASE Goes(c, "stream")
  <2>1. "stream" \in Stages
        BY DEF Stages
  <2>2. PICK x \in Calls :
            /\ call' = [call EXCEPT ![c] = x]
            /\ x.at = "stream" /\ x.s = call[c].s /\ x.a = call[c].a /\ x.b = call[c].b
        BY <1>5, <2>1, MovedOnMade
  <2>3. CallOK(x)
        BY <1>2, <2>2 DEF CallOK, SavesFirst, SavesSecond
  <2>4. call[c].a \in Objs \cup {0} /\ call[c].b \in Objs \cup {0}
        BY CallFacts
  <2> QED
        BY <1>1, <1>2, <1>3, <2>2, <2>3, <2>4, CleanTouches, LiveStays, QuietWaits
<1> QED
      BY <1>1, <1>4, <1>5

LEMMA SaveSourceKeeps == ASSUME FamilyInv, NEW c \in Callers, SaveSource(c) PROVE FamilyInv'
<1> DEFINE a == call[c].a
           b == call[c].b
<1>1. /\ call[c].at = "saveSource" /\ Store(copy[a])
      /\ MovesFirst(c, "saveLast", b)
      /\ copy' = [With(a, Clean(copy[a])) EXCEPT ![b] = Adds(@, "link", call[c].s)]
      /\ UNCHANGED <<occasion, live, deleted>>
      BY DEF SaveSource, Waits, MovesFirst
<1>2. a \in Objs /\ b \in Objs
      BY <1>1, HeldObjects DEF SavesFirst
<1>3. StoreSound /\ Together' = Together
      BY <1>1, <1>2, StoreWrites DEF Together
<1>4. PICK x : x = [op |-> call[c].op, at |-> "saveLast", s |-> call[c].s, t |-> call[c].t,
                    a |-> b, b |-> b]
      OBVIOUS
<1>5. "saveLast" \in Stages /\ call[c].s \in Places /\ call[c].t \in Places
      BY CallFacts DEF Stages, SavesFirst, Calls
<1>6. x \in Calls /\ x.at = "saveLast" /\ x.a = b /\ x.b = b
      BY <1>2, <1>4, <1>5, MadeCall
<1>7. CallOK(x)
      BY <1>2, <1>6, ObjFacts DEF CallOK, SavesSecond
<1>8. call' = [call EXCEPT ![c] = x]
      BY <1>1, <1>4, FirstMoved
<1>9. /\ copy' = [y \in Refs |-> copy'[y]]
      /\ \A y \in Objs : SameFamily(copy[y], copy'[y])
  <2>1. PICK p : p = Clean(copy[a])
        OBVIOUS
  <2>2. PICK u : u = With(a, p)
        OBVIOUS
  <2>3. SameFamily(copy[a], p)
        BY <1>2, <2>1, ObjFacts, CleanSame
  <2>4. u = [y \in Refs |-> u[y]] /\ \A y \in Objs : SameFamily(copy[y], u[y])
    <3>1. copy = [y \in Refs |-> copy[y]] /\ Objs \subseteq Refs
          BY DEF FamilyInv, FamilyShape, Objs
    <3>2. \A y \in Objs : SameFamily(copy[y], copy[y])
          BY ObjFacts, SameAsItself
    <3> QED
          BY <1>2, <2>2, <2>3, <3>1, <3>2 DEF With
  <2>5. SameFamily(u[b], Adds(u[b], "link", call[c].s))
    <3>1. IsObject(u[b])
          BY <1>2, <2>4 DEF SameFamily
    <3> QED
          BY <3>1, AddsSame
  <2>6. PICK q : q = Adds(u[b], "link", call[c].s)
        OBVIOUS
  <2>7. copy' = [u EXCEPT ![b] = q]
        BY <1>1, <2>1, <2>2, <2>6
  <2>8. SameFamily(copy[b], q)
        BY <1>2, <2>4, <2>5, <2>6, SameTwice
  <2> QED
        BY <1>2, <2>4, <2>7, <2>8
<1> QED
      BY <1>1, <1>2, <1>3, <1>6, <1>7, <1>8, <1>9, LiveStays, QuietWaits

LEMMA SummarisedKeeps == ASSUME FamilyInv, NEW c \in Callers, Summarised(c) PROVE FamilyInv'
<1>1. /\ call[c].at = "summary" /\ Goes(c, "saveChild")
      /\ copy' = With(call[c].b, Adds(copy[call[c].b], "from", call[c].s))
      /\ UNCHANGED <<occasion, store, live, deleted>>
      BY DEF Summarised, Waits
<1>2. call[c].a \in Objs /\ call[c].b \in Objs
      BY <1>1, HeldObjects
<1>3. StoreSound /\ Together' = Together
      BY <1>1, StoreStays DEF Together
<1>4. "saveChild" \in Stages
      BY DEF Stages, SavesSecond
<1>5. PICK x \in Calls : /\ call' = [call EXCEPT ![c] = x]
                         /\ x.at = "saveChild" /\ x.a = call[c].a /\ x.b = call[c].b
      BY <1>1, <1>4, MovedOnMade
<1>6. CallOK(x)
      BY <1>2, <1>5, ObjFacts DEF CallOK, SavesFirst
<1> QED
      BY <1>1, <1>2, <1>3, <1>5, <1>6, AddsTouches, LiveStays, QuietWaits

LEMMA SummaryFailsKeeps ==
    ASSUME FamilyInv, NEW c \in Callers, SummaryFails(c) PROVE FamilyInv'
<1>1. /\ call[c].at = "summary" /\ Ends(c)
      /\ occasion' = (occasion \ {"fail"}) \cup {"failed"}
      /\ UNCHANGED <<store, copy, live, deleted>>
      BY DEF SummaryFails, Waits
<1>2. StoreSound /\ Together' = Together
      BY <1>1, StoreStays DEF Together
<1> QED
      BY <1>1, <1>2, CopyStays, LiveStays, QuietEnds

LEMMA MergeKeeps == ASSUME FamilyInv, NEW c \in Callers, Merge(c) PROVE FamilyInv'
<1>1. /\ call[c].at = "running" /\ call[c].op = "merge" /\ HasFirst(c)
      /\ MovesFirst(c, "readParent", First(c))
      /\ UNCHANGED <<occasion, store, copy, live, deleted>>
      BY DEF Merge, Runs, MovesFirst
<1>2. /\ call[c].s \in Sessions /\ First(c) \in Objs /\ copy[First(c)].of = call[c].s
      /\ ~Together => live[call[c].s] = First(c)
      BY <1>1, FirstFacts, ObjFacts
<1>3. StoreSound /\ Together' = Together
      BY <1>1, StoreStays DEF Together
<1>4. "readParent" \in Stages
      BY DEF Stages
<1>5. PICK x \in Calls : /\ call' = [call EXCEPT ![c] = x]
                         /\ x.at = "readParent" /\ x.s = call[c].s
                         /\ x.a = First(c) /\ x.b = call[c].b
      BY <1>1, <1>2, <1>4, FirstMade
<1>6. CallOK(x)
      BY <1>2, <1>5, ObjFacts DEF CallOK, SavesFirst, SavesSecond
<1>7. CallSteps(c) /\ call'[c] = x
      BY <1>5, <1>6, CallMoves
<1>8. FirstIsOf(c)' /\ (~Together => MergeSound(c)')
      BY <1>1, <1>2, <1>5, <1>7 DEF FirstIsOf, MergeSound
<1>9. call[c] # NoCall /\ call[c].b \in Objs \cup {0}
      BY <1>1, CallFacts
<1> QED
      BY <1>1, <1>2, <1>3, <1>5, <1>7, <1>8, <1>9, CopyStays, LiveStays, QuietStep

LEMMA MissKeeps == ASSUME FamilyInv, NEW c \in Callers, Miss(c) PROVE FamilyInv'
<1> DEFINE at == IF HasFirst(c) THEN "loadSecond" ELSE "loadFirst"
<1>1. /\ call[c].at = "running" /\ ~HasAll(c) /\ MovesFirst(c, at, First(c))
      /\ UNCHANGED <<occasion, store, copy, live, deleted>>
      BY DEF Miss, MovesFirst
<1>2. (call[c].op # "create" /\ ~HasFirst(c)) \/ call[c].op \in {"link", "watch"}
      BY <1>1 DEF HasAll, HasFirst, NeedsBoth
<1>3. /\ call[c].s \in Sessions /\ First(c) \in Objs \cup {0}
      /\ First(c) # 0 => copy[First(c)].of = call[c].s
      /\ HasFirst(c) => First(c) \in Objs
      BY <1>1, <1>2, FirstFacts
<1>4. call[c].op \in {"link", "watch"} => call[c].t \in Sessions
      BY <1>1, SecondFacts
<1>5. StoreSound /\ Together' = Together
      BY <1>1, StoreStays DEF Together
<1>6. at \in Stages
      BY DEF Stages
<1>7. at \in {"loadFirst", "loadSecond"} /\ (HasFirst(c) <=> at = "loadSecond")
      OBVIOUS
<1> HIDE DEF at
<1>8. PICK x \in Calls : /\ call' = [call EXCEPT ![c] = x]
                         /\ x.op = call[c].op /\ x.at = at /\ x.s = call[c].s
                         /\ x.t = call[c].t /\ x.a = First(c) /\ x.b = call[c].b
      BY <1>1, <1>3, <1>6, FirstMade
<1>9. CallOK(x)
      BY <1>2, <1>3, <1>4, <1>7, <1>8, ObjFacts DEF CallOK, SavesFirst, SavesSecond
<1>10. CallSteps(c) /\ call'[c] = x
      BY <1>8, <1>9, CallMoves
<1>11. FirstIsOf(c)' /\ MergeSound(c)'
      BY <1>1, <1>3, <1>7, <1>8, <1>10 DEF FirstIsOf, MergeSound
<1>12. call[c] # NoCall /\ call[c].b \in Objs \cup {0}
      BY <1>1, CallFacts
<1> QED
      BY <1>1, <1>3, <1>5, <1>8, <1>10, <1>11, <1>12, CopyStays, LiveStays, QuietStep

LEMMA LinkKeeps == ASSUME FamilyInv, NEW c \in Callers, Link(c) PROVE FamilyInv'
<1>1. PICK r, q : r = First(c) /\ q = Second(c)
      OBVIOUS
<1>2. /\ call[c].at = "running" /\ call[c].op = "link" /\ HasFirst(c) /\ HasAll(c)
      /\ MovesBoth(c, "saveSource", r, q)
      /\ copy' = With(r, Adds(copy[r], "link", call[c].t))
      /\ UNCHANGED <<occasion, store, live, deleted>>
      BY <1>1 DEF Link, Runs, HasAll, MovesBoth
<1>3. r \in Objs /\ q \in Objs
      BY <1>1, <1>2, FirstFacts, SecondFacts
<1>4. StoreSound /\ Together' = Together
      BY <1>2, StoreStays DEF Together
<1>5. "saveSource" \in Stages
      BY DEF Stages, SavesFirst
<1>6. PICK x \in Calls : /\ call' = [call EXCEPT ![c] = x]
                         /\ x.at = "saveSource" /\ x.a = r /\ x.b = q
      BY <1>2, <1>3, <1>5, BothMade
<1>7. CallOK(x)
      BY <1>3, <1>6, ObjFacts DEF CallOK
<1>8. call[c].at # "none"
      BY <1>2
<1> QED
      BY <1>2, <1>3, <1>4, <1>6, <1>7, <1>8, AddsTouches, LiveStays, QuietWaits

LEMMA AlertKeeps == ASSUME FamilyInv, NEW c \in Callers, Alert(c) PROVE FamilyInv'
<1>1. /\ call[c].at = "running"
      /\ UNCHANGED <<occasion, store, copy, live, deleted>>
      /\ \/ Ends(c)
         \/ \E t \in Sessions : call' = [call EXCEPT ![c].at = "readTarget", ![c].t = t]
      BY DEF Alert, Runs
<1>2. StoreSound /\ Together' = Together
      BY <1>1, StoreStays DEF Together
<1>3. CASE Ends(c)
      BY <1>1, <1>2, <1>3, CopyStays, LiveStays, QuietEnds
<1>4. ASSUME NEW t \in Sessions,
             call' = [call EXCEPT ![c].at = "readTarget", ![c].t = t]
      PROVE  FamilyInv'
  <2>1. PICK y : y = call[c]
        OBVIOUS
  <2>2. y = [op |-> y.op, at |-> y.at, s |-> y.s, t |-> y.t, a |-> y.a, b |-> y.b]
        BY <2>1, CallFacts
  <2>3. PICK z : z = [y EXCEPT !.at = "readTarget", !.t = t]
        OBVIOUS
  <2>4. z = [op |-> y.op, at |-> "readTarget", s |-> y.s, t |-> t, a |-> y.a, b |-> y.b]
        BY <2>2, <2>3
  <2>5. call = [d \in Callers |-> call[d]]
        BY DEF FamilyInv, FamilyShape
  <2>6. call' = [call EXCEPT ![c] = z]
        BY ONLY <1>4, <2>1, <2>3, <2>5
  <2>7. y \in Calls /\ y.a \in Objs \cup {0} /\ y.b \in Objs \cup {0}
        BY <2>1, CallFacts
  <2>8. z \in Calls /\ z.at = "readTarget" /\ z.t = t /\ z.a = y.a /\ z.b = y.b
        BY <2>4, <2>7 DEF Calls, Stages, Places
  <2>9. CallOK(z)
        BY <2>8 DEF CallOK, SavesFirst, SavesSecond
  <2>10. call[c].at # "none"
        BY <1>1
  <2> QED
        BY <1>1, <1>2, <2>6, <2>7, <2>8, <2>9, <2>10, CopyStays, LiveStays, QuietWaits
<1> QED
      BY <1>1, <1>3, <1>4

LEMMA TalkKeeps == ASSUME FamilyInv, NEW c \in Callers, Talk(c) PROVE FamilyInv'
<1>1. PICK r : r = First(c)
      OBVIOUS
<1>2. /\ call[c].at = "running" /\ call[c].op = "talk" /\ HasFirst(c)
      /\ \/ Refuse(c)
         \/ /\ MovesFirst(c, "saveTalk", r)
            /\ copy' = With(r, Adds(copy[r], "said", Nobody))
            /\ UNCHANGED <<occasion, store, live, deleted>>
      BY <1>1 DEF Talk, Runs, MovesFirst
<1>3. r \in Objs /\ call[c].s \in Sessions
      BY <1>1, <1>2, FirstFacts
<1>4. CASE Refuse(c)
      BY <1>2, <1>4, RefuseKeeps
<1>5. CASE /\ MovesFirst(c, "saveTalk", r)
           /\ copy' = With(r, Adds(copy[r], "said", Nobody))
           /\ UNCHANGED <<occasion, store, live, deleted>>
  <2>1. StoreSound /\ Together' = Together
        BY <1>5, StoreStays DEF Together
  <2>2. "saveTalk" \in Stages /\ call[c].b \in Objs \cup {0}
        BY CallFacts DEF Stages, SavesFirst
  <2>3. PICK x \in Calls : /\ call' = [call EXCEPT ![c] = x] /\ x.at = "saveTalk"
                           /\ x.s = call[c].s /\ x.a = r /\ x.b = call[c].b
        BY <1>3, <1>5, <2>2, FirstMade
  <2>4. CallOK(x)
        BY <1>3, <2>3, ObjFacts DEF CallOK, SavesSecond
  <2>5. call[c].at # "none"
        BY <1>2
  <2> QED
        BY <1>3, <1>5, <2>1, <2>2, <2>3, <2>4, <2>5, AddsTouches, LiveStays, QuietWaits
<1> QED
      BY <1>2, <1>4, <1>5

LEMMA AnswerKeeps == ASSUME FamilyInv, NEW c \in Callers, Answer(c) PROVE FamilyInv'
<1>1. PICK r : r = live[call[c].s]
      OBVIOUS
<1>2. /\ call[c].at = "stream" /\ r # 0 /\ MovesFirst(c, "saveLast", r)
      /\ copy' = With(r, Adds(copy[r], "answer", Nobody))
      /\ UNCHANGED <<occasion, store, live, deleted>>
      BY <1>1 DEF Answer, Waits, MovesFirst
<1>3. r \in Objs
      BY <1>1, <1>2, CallFacts, UsedBy DEF CallOK
<1>4. StoreSound /\ Together' = Together
      BY <1>2, StoreStays DEF Together
<1>5. "saveLast" \in Stages /\ call[c].b \in Objs \cup {0}
      BY CallFacts DEF Stages, SavesFirst
<1>6. PICK x \in Calls : /\ call' = [call EXCEPT ![c] = x]
                         /\ x.at = "saveLast" /\ x.a = r /\ x.b = call[c].b
      BY <1>2, <1>3, <1>5, FirstMade
<1>7. CallOK(x)
      BY <1>3, <1>6, ObjFacts DEF CallOK, SavesSecond
<1>8. call[c].at # "none"
      BY <1>2
<1> QED
      BY <1>2, <1>3, <1>4, <1>5, <1>6, <1>7, <1>8, AddsTouches, LiveStays, QuietWaits

LEMMA BackendKeeps == ASSUME FamilyInv, NEW c \in Callers, Backend(c) PROVE FamilyInv'
<1>1. PICK r : r = First(c)
      OBVIOUS
<1>2. /\ call[c].at = "running" /\ call[c].op = "backend" /\ HasFirst(c)
      /\ Ends(c) \/ MovesFirst(c, "saveBackend", r)
      /\ UNCHANGED <<occasion, store, copy, live, deleted>>
      BY <1>1 DEF Backend, Runs, MovesFirst
<1>3. r \in Objs /\ call[c].s \in Sessions
      BY <1>1, <1>2, FirstFacts
<1>4. StoreSound /\ Together' = Together
      BY <1>2, StoreStays DEF Together
<1>5. CASE Ends(c)
      BY <1>2, <1>4, <1>5, CopyStays, LiveStays, QuietEnds
<1>6. CASE MovesFirst(c, "saveBackend", r)
  <2>1. "saveBackend" \in Stages /\ call[c].b \in Objs \cup {0}
        BY CallFacts DEF Stages, SavesFirst
  <2>2. PICK x \in Calls : /\ call' = [call EXCEPT ![c] = x] /\ x.at = "saveBackend"
                           /\ x.s = call[c].s /\ x.a = r /\ x.b = call[c].b
        BY <1>3, <1>6, <2>1, FirstMade
  <2>3. CallOK(x)
        BY <1>3, <2>2, ObjFacts DEF CallOK, SavesSecond
  <2>4. call[c].at # "none"
        BY <1>2
  <2> QED
        BY <1>2, <1>3, <1>4, <2>1, <2>2, <2>3, <2>4, CopyStays, LiveStays, QuietWaits
<1> QED
      BY <1>2, <1>5, <1>6

LEMMA DeleteKeeps == ASSUME FamilyInv, NEW c \in Callers, Delete(c) PROVE FamilyInv'
<1>1. PICK x : x = [call[c] EXCEPT !.at = "erase", !.a = First(c)]
      OBVIOUS
<1>2. /\ call[c].at = "running" /\ call[c].op = "delete" /\ HasFirst(c)
      /\ live' = [live EXCEPT ![call[c].s] = 0] /\ copy' = copy
      /\ UNCHANGED <<occasion, store, deleted>>
      BY DEF Delete, Runs
<1>3. /\ call' = [d \in Callers |-> call'[d]] /\ call'[c] = x
      /\ \A d \in Callers \ {c} : call'[d] \in {call[d], NoCall}
      BY <1>1 DEF Delete
<1>4. First(c) \in Objs /\ call[c].s \in Sessions
      BY <1>2, FirstFacts
<1>5. /\ x \in Calls /\ x.at = "erase" /\ x.s = call[c].s /\ x.a = First(c)
      /\ x.b = call[c].b /\ x.b \in Objs \cup {0}
  <2>1. PICK y, r : y = call[c] /\ r = First(c)
        OBVIOUS
  <2>2. y = [op |-> y.op, at |-> y.at, s |-> y.s, t |-> y.t, a |-> y.a, b |-> y.b]
        BY <2>1, CallFacts
  <2>3. x = [y EXCEPT !.at = "erase", !.a = r]
        BY ONLY <1>1, <2>1
  <2>4. x = [op |-> y.op, at |-> "erase", s |-> y.s, t |-> y.t, a |-> r, b |-> y.b]
        BY ONLY <2>2, <2>3
  <2>5. y \in Calls /\ y.b \in Objs \cup {0} /\ r \in 0..MaxCopy
        BY <1>4, <2>1, CallFacts, ObjFacts
  <2> QED
        BY <2>1, <2>4, <2>5 DEF Calls, Stages
<1>6. CallOK(x)
      BY <1>4, <1>5 DEF CallOK, SavesFirst, SavesSecond
<1>7. CallSteps(c)
  <2>1. \A d \in Callers : call'[d] \in Calls
        BY <1>3, <1>5, CallFacts, NoCallSound
  <2> QED
        BY <1>3, <1>6, <2>1 DEF CallSteps
<1>8. StoreSound /\ Together' = Together
      BY <1>2, StoreStays DEF Together
<1>9. FirstIsOf(c)' /\ MergeSound(c)'
      BY <1>3, <1>5 DEF FirstIsOf, MergeSound
<1>10. /\ live' \in [Sessions -> 0..MaxCopy]
       /\ \A s \in Sessions : live'[s] = 0 \/ live'[s] = live[s]
  <2>1. 0 \in 0..MaxCopy /\ live \in [Sessions -> 0..MaxCopy]
        BY FamilyAssumption DEF FamilyInv, FamilyShape
  <2>2. PICK p : p = call[c].s
        OBVIOUS
  <2>3. live' = [live EXCEPT ![p] = 0]
        BY <1>2, <2>2
  <2> QED
        BY <2>1, <2>3
<1>11. call[c] # NoCall
      BY <1>2, CallFacts
<1> QED
      BY <1>2, <1>3, <1>4, <1>5, <1>7, <1>8, <1>9, <1>10, <1>11, CopyStays, QuietStep

LEMMA StartsKeeps == ASSUME FamilyInv, NEW c \in Callers, Starts(c) PROVE FamilyInv'
<1>1. PICK s \in Known \cup {Nobody}, t \in Known \cup {Nobody}, op \in Requests :
          /\ op = "create" <=> s = Nobody
          /\ op \in {"link", "watch", "unwatch"} <=> t # Nobody
          /\ Begin(c, op, s, t)
      BY DEF Starts
<1>2. Known \subseteq Sessions
      BY DEF Known, FamilyInv, FamilyShape
<1>3. PICK n : n = NoCall
      OBVIOUS
<1>4. PICK x : x = [n EXCEPT !.op = op, !.at = "running", !.s = s, !.t = t]
      OBVIOUS
<1>5. /\ Together \/ \A d \in Callers : call[d] = NoCall
      /\ call' = [call EXCEPT ![c] = x]
      /\ copy' = [r \in Refs |-> IF r \in InUse THEN copy[r] ELSE NoObject]
      /\ UNCHANGED <<occasion, store, live, deleted>>
      BY <1>1, <1>3, <1>4 DEF Begin
<1>6. n = [op |-> "none", at |-> "none", s |-> Nobody, t |-> Nobody, a |-> 0, b |-> 0]
      BY <1>3 DEF NoCall
<1>7. x = [op |-> op, at |-> "running", s |-> s, t |-> t, a |-> 0, b |-> 0]
      BY ONLY <1>4, <1>6
<1>8. "running" \in Stages /\ s \in Places /\ t \in Places /\ 0 \in 0..MaxCopy
      BY <1>2, FamilyAssumption DEF Stages, Places
<1>9. /\ x \in Calls /\ x.at = "running" /\ x.op = op /\ x.s = s /\ x.t = t
      /\ x.a = 0 /\ x.b = 0
      BY <1>7, <1>8 DEF Calls
<1>10. CallOK(x)
      BY <1>1, <1>2, <1>9 DEF CallOK, SavesFirst, SavesSecond
<1>11. CallSteps(c) /\ call'[c] = x
      BY <1>5, <1>9, <1>10, CallMoves
<1>12. StoreSound /\ Together' = Together
      BY <1>5, StoreStays DEF Together
<1>13. FirstIsOf(c)' /\ MergeSound(c)'
      BY <1>9, <1>11 DEF FirstIsOf, MergeSound
<1>14. /\ copy' = [r \in Refs |-> copy'[r]]
       /\ \A r \in Objs : SameFamily(copy[r], copy'[r])
  <2>1. \A r \in Objs : copy'[r] = copy[r] /\ IsObject(copy[r])
        BY <1>5, ObjFacts DEF Objs
  <2> QED
        BY <1>5, <2>1, SameAsItself
<1> QED
      BY <1>5, <1>9, <1>11, <1>12, <1>13, <1>14, LiveStays, QuietStep

-----------------------------------------------------------------------------
(* Steps that make an object, or that change what a session says            *)

LEMMA FreshObject ==
    ASSUME FamilyInv, Free # {}, NEW q, copy' = With(Fresh, q)
    PROVE  /\ Fresh \in Refs \ Objs /\ Fresh # 0 /\ Fresh \in 0..MaxCopy
           /\ copy' = [x \in Refs |-> copy'[x]] /\ copy'[Fresh] = q
           /\ \A x \in Objs : copy'[x] = copy[x] /\ IsObject(copy[x])
<1>1. PICK f : f = Fresh
      OBVIOUS
<1>2. f \in Refs /\ f \notin InUse
      BY <1>1, FreeIsUnused
<1>3. copy = [x \in Refs |-> copy[x]] /\ copy' = [copy EXCEPT ![f] = q]
      BY <1>1 DEF FamilyInv, FamilyShape, With
<1>4. f \notin Objs /\ f # 0 /\ f \in 0..MaxCopy /\ Objs \subseteq Refs
      BY <1>2, FamilyAssumption DEF Objs, Refs
<1> QED
      BY <1>1, <1>2, <1>3, <1>4, ObjFacts

(* A step that keeps the invariant, with or without a new object.           *)
LEMMA FollowStep ==
    ASSUME FamilyInv, NEW c \in Callers, CallSteps(c), StoreSound, call[c].at # "none",
           Together' = Together, NEW X \in SUBSET (Refs \ Objs),
           copy' = [r \in Refs |-> copy'[r]], live' \in [Sessions -> 0..MaxCopy],
           call'[c].a \in Objs \cup X \cup {0}, call'[c].b \in Objs \cup X \cup {0},
           \A x \in Objs : /\ IsObject(copy'[x]) /\ copy'[x].of = copy[x].of
                           /\ FollowsOn(copy'[x].is, copy[x].is),
           \A x \in X : IsObject(copy'[x]) /\ Came(x),
           \A s \in Sessions : \/ live'[s] = 0 \/ live'[s] = live[s]
                               \/ live'[s] \in X /\ copy'[live'[s]].of = s,
           FirstIsOf(c)', ~Together => MergeSound(c)'
    PROVE  FamilyInv'
<1>1. \A s \in Sessions : live'[s] \in Objs \cup X \cup {0}
      BY UsedBy
<1>2. Objs' \subseteq Objs \cup X
      BY <1>1, UsedAfter DEF CallSteps
<1>3. \A r \in Objs' : IsObject(copy'[r]) /\ Came(r)
      BY <1>2 DEF Came
<1>4. \A s \in Sessions : live'[s] # 0 => copy'[live'[s]].of = s
  <2>1. \A s \in Sessions : live[s] # 0 => copy[live[s]].of = s /\ live[s] \in Objs
        BY UsedBy DEF FamilyInv, ObjectsSound
  <2> QED
        BY <2>1
<1>5. \A d \in Callers : FirstIsOf(d)'
      BY OthersStay
<1>6. call[c] # NoCall
      BY CallFacts
<1> QED
      BY <1>3, <1>4, <1>5, <1>6, StepKeeps

(* What was stored, read into a new object.                                 *)
LEMMA ReadComes ==
    ASSUME FamilyInv, NEW s \in stored, NEW f, copy'[f] = Read(s)
    PROVE  IsObject(copy'[f]) /\ Came(f) /\ copy'[f].of = s
<1>1. IsSays(disk[s])
      BY DEF FamilyInv, DiskSound
<1>2. /\ IsObject(Read(s)) /\ Read(s).of = s /\ Read(s).is = disk[s]
      BY <1>1, ObjectSays DEF Read
<1>3. FollowsOn(disk[s], disk[s])
      BY SameFollows
<1> QED
      BY <1>2, <1>3 DEF Came

(* A session that is new.                                                   *)
LEMMA NewComes ==
    ASSUME FamilyInv, NEW n \in NewIds, NEW p, p # n, NEW f, NEW q, copy'[f] = q,
           SameFamily(Object(n, Blank(p), <<>>), q)
    PROVE  IsObject(copy'[f]) /\ Came(f) /\ copy'[f].of = n
<1>1. n \in Sessions \ (stored \cup deleted)
      BY DEF NewIds
<1>2. PICK o : o = Object(n, Blank(p), <<>>)
      OBVIOUS
<1>3. IsObject(o) /\ o.of = n /\ o.is.parent = p /\ DOMAIN o.is.kids = {}
      BY <1>2, ObjectSays, BlankSays
<1>4. IsObject(q) /\ q.of = n /\ q.is.parent = p /\ DOMAIN q.is.kids = {}
      BY <1>2, <1>3 DEF SameFamily
<1> QED
      BY <1>1, <1>4 DEF Came

LEMMA UntouchedFollow ==
    ASSUME FamilyInv, \A x \in Objs : SameFamily(copy[x], copy'[x])
    PROVE  \A x \in Objs : /\ IsObject(copy'[x]) /\ copy'[x].of = copy[x].of
                           /\ FollowsOn(copy'[x].is, copy[x].is)
BY SameFollows DEF SameFamily

LEMMA EqualSame ==
    ASSUME FamilyInv, \A x \in Objs : copy'[x] = copy[x]
    PROVE  \A x \in Objs : SameFamily(copy[x], copy'[x])
BY ObjFacts, SameAsItself

LEMMA LoadKeeps == ASSUME FamilyInv, NEW c \in Callers, Load(c) PROVE FamilyInv'
<1>1. PICK first \in BOOLEAN :
    LET s == IF first THEN call[c].s ELSE call[c].t
    IN  /\ call[c].at = IF first THEN "loadFirst" ELSE "loadSecond"
        /\ IF s \in stored
           THEN /\ Free # {}
                /\ live' = [live EXCEPT ![s] = Fresh]
                /\ call' = [call EXCEPT ![c].at = "running",
                                ![c].a = IF first THEN Fresh ELSE @,
                                ![c].b = IF first THEN @ ELSE Fresh]
                /\ copy' = With(Fresh, Read(s))
           ELSE Ends(c) /\ UNCHANGED copy /\ UNCHANGED live
        /\ UNCHANGED <<occasion, store, deleted>>
      BY DEF Load, Waits
<1> DEFINE s == IF first THEN call[c].s ELSE call[c].t
<1>2. /\ call[c].at = IF first THEN "loadFirst" ELSE "loadSecond"
      /\ call[c].at # "none" /\ UNCHANGED <<occasion, store, deleted>>
      BY <1>1
<1>3. StoreSound /\ Together' = Together
      BY <1>2, StoreStays DEF Together
<1>4. CASE s \notin stored
  <2>1. Ends(c) /\ copy' = copy /\ live' = live
        BY <1>1, <1>4
  <2> QED
        BY <1>2, <1>3, <2>1, CopyStays, LiveStays, QuietEnds
<1>5. CASE s \in stored
  <2>1. /\ Free # {} /\ live' = [live EXCEPT ![s] = Fresh]
        /\ copy' = With(Fresh, Read(s))
        BY <1>1, <1>5
  <2>2. PICK f : f = Fresh
        OBVIOUS
  <2>3. /\ f \in Refs \ Objs /\ f # 0 /\ f \in 0..MaxCopy
        /\ copy' = [x \in Refs |-> copy'[x]] /\ copy'[f] = Read(s)
        /\ \A x \in Objs : copy'[x] = copy[x]
        BY <2>1, <2>2, FreshObject
  <2>4. IsObject(copy'[f]) /\ Came(f) /\ copy'[f].of = s
        BY <1>5, <2>3, ReadComes
  <2>5. PICK y : y = call[c]
        OBVIOUS
  <2>6. /\ y \in Calls /\ CallOK(y) /\ y.a \in Objs \cup {0} /\ y.b \in Objs \cup {0}
        /\ y = [op |-> y.op, at |-> y.at, s |-> y.s, t |-> y.t, a |-> y.a, b |-> y.b]
        BY <2>5, CallFacts
  <2>7. call = [d \in Callers |-> call[d]]
        BY DEF FamilyInv, FamilyShape
  <2>8. s \in Sessions
        BY <1>5 DEF FamilyInv, FamilyShape
  <2>9. /\ live' \in [Sessions -> 0..MaxCopy]
        /\ \A x \in Sessions : live'[x] = live[x] \/ (live'[x] = f /\ x = s)
        /\ live'[s] = f
        BY <2>1, <2>2, <2>3, <2>8 DEF FamilyInv, FamilyShape
  <2>10. \A x \in Objs : /\ IsObject(copy'[x]) /\ copy'[x].of = copy[x].of
                         /\ FollowsOn(copy'[x].is, copy[x].is)
        BY <2>3, EqualSame, UntouchedFollow
  <2>11. PICK x : /\ x = [op |-> y.op, at |-> "running", s |-> y.s, t |-> y.t,
                          a |-> IF first THEN f ELSE y.a, b |-> IF first THEN y.b ELSE f]
                  /\ call' = [call EXCEPT ![c] = x]
    <3>1. PICK z : z = [y EXCEPT !.at = "running", !.a = IF first THEN f ELSE @,
                                 !.b = IF first THEN @ ELSE f]
          OBVIOUS
    <3>2. z = [op |-> y.op, at |-> "running", s |-> y.s, t |-> y.t,
               a |-> IF first THEN f ELSE y.a, b |-> IF first THEN y.b ELSE f]
          BY <2>6, <3>1
    <3>3. call' = [call EXCEPT ![c].at = "running", ![c].a = IF first THEN f ELSE @,
                               ![c].b = IF first THEN @ ELSE f]
          BY <1>1, <1>5, <2>2
    <3>4. call' = [call EXCEPT ![c] = z]
          BY ONLY <2>5, <2>7, <3>1, <3>3
    <3> QED
          BY <3>2, <3>4
  <2>12. /\ x.op = y.op /\ x.at = "running" /\ x.s = y.s /\ x.t = y.t
         /\ x.a = IF first THEN f ELSE y.a
         /\ x.b = IF first THEN y.b ELSE f
        BY <2>11
  <2>13. x \in Calls
        BY <2>3, <2>6, <2>11 DEF Calls, Stages
  <2>14. CallOK(x)
        BY <1>2, <2>5, <2>6, <2>12 DEF CallOK, SavesFirst, SavesSecond
  <2>15. CallSteps(c) /\ call'[c] = x
        BY <2>11, <2>13, <2>14, CallMoves
  <2>16. FirstIsOf(c)'
    <3>1. CASE first
          BY <2>4, <2>5, <2>12, <2>15, <3>1 DEF FirstIsOf
    <3>2. CASE ~first
      <4>1. call[c].a # 0 => copy[call[c].a].of = call[c].s
            BY <1>2, <3>2, CallFacts DEF FirstIsOf
      <4> QED
            BY <2>3, <2>5, <2>6, <2>12, <2>15, <3>2, <4>1 DEF FirstIsOf
    <3> QED
          BY <3>1, <3>2
  <2>17. MergeSound(c)'
    <3>1. CASE first
          BY <2>5, <2>9, <2>12, <2>15, <3>1 DEF MergeSound
    <3>2. CASE ~first
      <4>1. y.op # "merge"
            BY <1>2, <2>5, <2>6, <3>2 DEF CallOK
      <4> QED
            BY <2>12, <2>15, <4>1 DEF MergeSound
    <3> QED
          BY <3>1, <3>2
  <2>18. x.a \in Objs \cup {f} \cup {0} /\ x.b \in Objs \cup {f} \cup {0}
        BY <2>6, <2>12
  <2> HIDE DEF s
  <2>19. \A u \in Sessions : \/ live'[u] = 0 \/ live'[u] = live[u]
                             \/ live'[u] \in {f} /\ copy'[live'[u]].of = u
        BY <2>4, <2>9
  <2>20. {f} \in SUBSET (Refs \ Objs) /\ \A u \in {f} : IsObject(copy'[u]) /\ Came(u)
        BY <2>3, <2>4
  <2> QED
        BY <1>2, <1>3, <2>3, <2>9, <2>10, <2>15, <2>16, <2>17, <2>18, <2>19, <2>20, FollowStep
<1> QED
      BY <1>4, <1>5

LEMMA CreateKeeps == ASSUME FamilyInv, NEW c \in Callers, Create(c) PROVE FamilyInv'
<1>1. PICK n \in NewIds :
          /\ call[c].at = "running" /\ Free # {}
          /\ call' = [call EXCEPT ![c].at = "saveNew", ![c].b = Fresh]
          /\ copy' = With(Fresh, Object(n, Blank(Nobody), <<>>))
          /\ UNCHANGED <<occasion, store, live, deleted>>
      BY DEF Create, Runs
<1>2. PICK f, q : f = Fresh /\ q = Object(n, Blank(Nobody), <<>>)
      OBVIOUS
<1>3. /\ f \in Refs \ Objs /\ f # 0 /\ f \in 0..MaxCopy
      /\ copy' = [x \in Refs |-> copy'[x]] /\ copy'[f] = q
      /\ \A x \in Objs : copy'[x] = copy[x]
      BY <1>1, <1>2, FreshObject
<1>4. IsObject(copy'[f]) /\ Came(f)
  <2>1. SameFamily(Object(n, Blank(Nobody), <<>>), q)
        BY <1>2, BlankSays, ObjectSays, SameAsItself
  <2>2. Nobody # n
        BY FamilyAssumption DEF NewIds
  <2> QED
        BY <1>3, <2>1, <2>2, NewComes
<1>5. StoreSound /\ Together' = Together
      BY <1>1, StoreStays DEF Together
<1>6. PICK y : y = call[c]
      OBVIOUS
<1>7. /\ y \in Calls /\ y.a \in Objs \cup {0}
      /\ y = [op |-> y.op, at |-> y.at, s |-> y.s, t |-> y.t, a |-> y.a, b |-> y.b]
      BY <1>6, CallFacts
<1>8. PICK x : /\ x = [op |-> y.op, at |-> "saveNew", s |-> y.s, t |-> y.t, a |-> y.a, b |-> f]
               /\ call' = [call EXCEPT ![c] = x]
  <2>1. PICK z : z = [y EXCEPT !.at = "saveNew", !.b = f]
        OBVIOUS
  <2>2. z = [op |-> y.op, at |-> "saveNew", s |-> y.s, t |-> y.t, a |-> y.a, b |-> f]
        BY <1>7, <2>1
  <2>3. call' = [call EXCEPT ![c].at = "saveNew", ![c].b = f]
        BY <1>1, <1>2
  <2>4. call = [d \in Callers |-> call[d]]
        BY DEF FamilyInv, FamilyShape
  <2>5. call' = [call EXCEPT ![c] = z]
        BY ONLY <1>6, <2>1, <2>3, <2>4
  <2> QED
        BY <2>2, <2>5
<1>9. x.at = "saveNew" /\ x.a = y.a /\ x.b = f
      BY <1>8
<1>10. x \in Calls
      BY <1>3, <1>7, <1>8 DEF Calls, Stages, SavesSecond
<1>11. CallOK(x)
      BY <1>3, <1>9 DEF CallOK, SavesFirst, SavesSecond
<1>12. CallSteps(c) /\ call'[c] = x
      BY <1>8, <1>10, <1>11, CallMoves
<1>13. FirstIsOf(c)' /\ MergeSound(c)'
      BY <1>9, <1>12 DEF FirstIsOf, MergeSound
<1>14. \A u \in Objs : /\ IsObject(copy'[u]) /\ copy'[u].of = copy[u].of
                       /\ FollowsOn(copy'[u].is, copy[u].is)
      BY <1>3, EqualSame, UntouchedFollow
<1>15. {f} \in SUBSET (Refs \ Objs) /\ \A u \in {f} : IsObject(copy'[u]) /\ Came(u)
      BY <1>3, <1>4
<1>16. call[c].at # "none" /\ live' = live
      BY <1>1
<1>17. x.a \in Objs \cup {f} \cup {0} /\ x.b \in Objs \cup {f} \cup {0}
      BY <1>7, <1>9
<1> QED
      BY <1>3, <1>5, <1>12, <1>13, <1>14, <1>15, <1>16, <1>17, LiveStays, FollowStep

LEMMA ReadTargetKeeps == ASSUME FamilyInv, NEW c \in Callers, ReadTarget(c) PROVE FamilyInv'
<1>1. /\ call[c].at = "readTarget" /\ UNCHANGED <<occasion, store, live, deleted>>
      /\ IF call[c].t \in stored
         THEN Free # {} /\ MovesFirst(c, "saveLast", Fresh) /\ copy' = With(Fresh, Read(call[c].t))
         ELSE Ends(c) /\ copy' = copy
      BY DEF ReadTarget, Waits, MovesFirst
<1>2. StoreSound /\ Together' = Together
      BY <1>1, StoreStays DEF Together
<1>3. call[c].at # "none" /\ live' = live
      BY <1>1
<1>4. CASE call[c].t \notin stored
      BY <1>1, <1>2, <1>3, <1>4, CopyStays, LiveStays, QuietEnds
<1>5. CASE call[c].t \in stored
  <2>1. PICK t, f : t = call[c].t /\ f = Fresh
        OBVIOUS
  <2>2. /\ f \in Refs \ Objs /\ f # 0 /\ f \in 0..MaxCopy
        /\ copy' = [x \in Refs |-> copy'[x]] /\ copy'[f] = Read(t)
        /\ \A x \in Objs : copy'[x] = copy[x]
        BY <1>1, <1>5, <2>1, FreshObject
  <2>3. IsObject(copy'[f]) /\ Came(f)
        BY <1>5, <2>1, <2>2, ReadComes
  <2>4. PICK s, b : s = call[c].s /\ b = call[c].b
        OBVIOUS
  <2>5. s \in Places /\ t \in Places /\ b \in 0..MaxCopy /\ b \in Objs \cup {0}
        BY <2>1, <2>4, CallFacts DEF Calls
  <2>6. PICK x : x = [op |-> call[c].op, at |-> "saveLast", s |-> s, t |-> t, a |-> f, b |-> b]
        OBVIOUS
  <2>7. call' = [call EXCEPT ![c] = x]
    <3>1. MovesFirst(c, "saveLast", f)
          BY <1>1, <1>5, <2>1
    <3> QED
          BY <2>1, <2>4, <2>6, <3>1, FirstMoved
  <2>8. x.at = "saveLast" /\ x.a = f /\ x.b = b
        BY <2>6
  <2>9. x \in Calls
    <3>1. call[c].op \in Requests \cup {"none"}
          BY CallFacts DEF Calls
    <3> QED
          BY <2>2, <2>5, <2>6, <3>1 DEF Calls, Stages, SavesFirst
  <2>10. CallOK(x)
        BY <2>2, <2>8 DEF CallOK, SavesSecond
  <2>11. CallSteps(c) /\ call'[c] = x
        BY <2>7, <2>9, <2>10, CallMoves
  <2>12. FirstIsOf(c)' /\ MergeSound(c)'
        BY <2>8, <2>11 DEF FirstIsOf, MergeSound
  <2>13. \A u \in Objs : /\ IsObject(copy'[u]) /\ copy'[u].of = copy[u].of
                         /\ FollowsOn(copy'[u].is, copy[u].is)
        BY <2>2, EqualSame, UntouchedFollow
  <2>14. {f} \in SUBSET (Refs \ Objs) /\ \A u \in {f} : IsObject(copy'[u]) /\ Came(u)
        BY <2>2, <2>3
  <2>15. x.a \in Objs \cup {f} \cup {0} /\ x.b \in Objs \cup {f} \cup {0}
        BY <2>5, <2>8
  <2> QED
        BY <1>2, <1>3, <2>2, <2>11, <2>12, <2>13, <2>14, <2>15, LiveStays, FollowStep
<1> QED
      BY <1>4, <1>5

LEMMA ForkKeeps == ASSUME FamilyInv, NEW c \in Callers, Fork(c) PROVE FamilyInv'
<1>1. PICK s, r, f : s = call[c].s /\ r = First(c) /\ f = Fresh
      OBVIOUS
<1>2. PICK n, q, at :
          /\ n \in NewIds /\ call[c].at = "running" /\ call[c].op # "create" /\ HasFirst(c) /\ Free # {}
          /\ q \in {Object(n, Blank(s), <<>>), Adds(Object(n, Blank(s), <<>>), "from", s)}
          /\ copy' = With(Fresh, q)
          /\ live' = live \/ live' = [live EXCEPT ![n] = f]
          /\ at \in {"saveChild", "summary"}
          /\ MovesBoth(c, at, r, f)
          /\ UNCHANGED <<occasion, store, deleted>>
  <2>1. /\ call[c].at = "running" /\ call[c].op \in {"fork", "compress"}
        /\ HasFirst(c) /\ Free # {} /\ UNCHANGED <<occasion, store, deleted>>
        BY DEF Fork, Runs
  <2>2. PICK n \in NewIds :
            /\ copy' = With(f, IF call[c].op = "fork"
                               THEN Adds(Object(n, Blank(s), <<>>), "from", s)
                               ELSE Object(n, Blank(s), <<>>))
            /\ IF call[c].op = "fork" THEN live' = live ELSE live' = [live EXCEPT ![n] = f]
        BY <1>1 DEF Fork
  <2>3. MovesBoth(c, IF call[c].op = "fork" THEN "saveChild" ELSE "summary", r, f)
        BY <1>1 DEF Fork, MovesBoth
  <2>4. CASE call[c].op = "fork"
        BY <1>1, <2>1, <2>2, <2>3, <2>4
  <2>5. CASE call[c].op # "fork"
        BY <1>1, <2>1, <2>2, <2>3, <2>5
  <2> QED
        BY <2>4, <2>5
<1>3. r \in Objs /\ copy[r].of = s /\ s \in Sessions
      BY <1>1, <1>2, FirstFacts, ObjFacts
<1>4. n \in Sessions /\ s # n
      BY <1>2, <1>3 DEF NewIds, Objs
<1>5. /\ f \in Refs \ Objs /\ f # 0 /\ f \in 0..MaxCopy
      /\ copy' = [x \in Refs |-> copy'[x]] /\ copy'[f] = q
      /\ \A x \in Objs : copy'[x] = copy[x]
      BY <1>1, <1>2, FreshObject
<1>6. IsObject(copy'[f]) /\ Came(f) /\ copy'[f].of = n
  <2>1. PICK o : o = Object(n, Blank(s), <<>>)
        OBVIOUS
  <2>2. IsObject(o)
        BY <2>1, BlankSays, ObjectSays
  <2>3. SameFamily(o, q)
        BY <1>2, <2>1, <2>2, SameAsItself, AddsSame
  <2>4. SameFamily(Object(n, Blank(s), <<>>), q)
        BY <2>1, <2>3
  <2> QED
        BY <1>2, <1>4, <1>5, <2>4, NewComes
<1>7. StoreSound /\ Together' = Together
      BY <1>2, StoreStays DEF Together
<1>8. PICK t : t = call[c].t
      OBVIOUS
<1>9. s \in Places /\ t \in Places /\ at \in Stages /\ call[c].op \in Requests \cup {"none"}
      BY <1>1, <1>2, <1>8, CallFacts DEF Calls, Stages, SavesSecond
<1>10. PICK x : x = [op |-> call[c].op, at |-> at, s |-> s, t |-> t, a |-> r, b |-> f]
      OBVIOUS
<1>11. call' = [call EXCEPT ![c] = x]
      BY <1>1, <1>2, <1>8, <1>10, BothMoved
<1>12. x.at = at /\ x.a = r /\ x.b = f
      BY <1>10
<1>13. x \in Calls
  <2>1. r \in 0..MaxCopy
        BY <1>3, ObjFacts
  <2> QED
        BY <1>5, <1>9, <1>10, <2>1 DEF Calls
<1>14. CallOK(x)
      BY <1>2, <1>3, <1>5, <1>12, ObjFacts DEF CallOK
<1>15. CallSteps(c) /\ call'[c] = x
      BY <1>11, <1>13, <1>14, CallMoves
<1>16. FirstIsOf(c)' /\ MergeSound(c)'
      BY <1>2, <1>12, <1>15 DEF FirstIsOf, MergeSound
<1>17. \A u \in Objs : /\ IsObject(copy'[u]) /\ copy'[u].of = copy[u].of
                       /\ FollowsOn(copy'[u].is, copy[u].is)
      BY <1>5, EqualSame, UntouchedFollow
<1>18. {f} \in SUBSET (Refs \ Objs) /\ \A u \in {f} : IsObject(copy'[u]) /\ Came(u)
      BY <1>5, <1>6
<1>19. /\ live' \in [Sessions -> 0..MaxCopy]
       /\ \A u \in Sessions : \/ live'[u] = live[u]
                              \/ live'[u] \in {f} /\ copy'[live'[u]].of = u
      BY <1>2, <1>4, <1>5, <1>6 DEF FamilyInv, FamilyShape
<1>20. x.a \in Objs \cup {f} \cup {0} /\ x.b \in Objs \cup {f} \cup {0} /\ call[c].at # "none"
      BY <1>2, <1>3, <1>12
<1> QED
      BY <1>5, <1>7, <1>15, <1>16, <1>17, <1>18, <1>19, <1>20, FollowStep

LEMMA ReadParentKeeps == ASSUME FamilyInv, NEW c \in Callers, ReadParent(c) PROVE FamilyInv'
<1>1. PICK s, a, p, f : s = call[c].s /\ a = call[c].a /\ p = copy[a].is.parent /\ f = Fresh
      OBVIOUS
<1>2. /\ call[c].at = "readParent" /\ p \in stored /\ Free # {}
      /\ call' = [call EXCEPT ![c].at = "saveFork", ![c].b = f, ![c].t = p]
      /\ copy' = [With(Fresh, Read(p)) EXCEPT
                     ![a] = Adds([@ EXCEPT !.is.merged = TRUE], "merged", p)]
      /\ UNCHANGED <<occasion, store, live, deleted>>
      BY <1>1 DEF ReadParent, Waits
<1>3. /\ a \in Objs /\ a # 0 /\ copy[a].of = s /\ s \in Sessions /\ copy[a].is.parent # s
      /\ ~Together => live[s] = a
  <2>1. a \in Objs /\ a # 0
        BY <1>1, <1>2, HeldObjects, ObjFacts
  <2>2. copy[a].of = s /\ s \in Sessions
        BY <1>1, <1>2, <2>1, CallFacts DEF FirstIsOf, CallOK
  <2>3. copy[a].is.parent # s
        BY <2>1, <2>2 DEF FamilyInv, ObjectsSound
  <2>4. ~Together => live[s] = a
        BY <1>1, <1>2 DEF FamilyInv, MergeSound
  <2> QED
        BY <2>1, <2>2, <2>3, <2>4
<1>4. /\ f \in Refs \ Objs /\ f # 0 /\ f \in 0..MaxCopy /\ a \in Refs
  <2>1. f \in Refs /\ f \notin InUse
        BY <1>1, <1>2, FreeIsUnused
  <2>2. f \notin Objs /\ a \in Refs
        BY <1>3, <2>1 DEF Objs
  <2> QED
        BY <2>1, <2>2, FamilyAssumption DEF Refs
<1>5. PICK m, q : m = [copy[a] EXCEPT !.is.merged = TRUE] /\ q = Adds(m, "merged", p)
      OBVIOUS
<1>6. /\ IsObject(m) /\ m.of = s /\ m.is.parent = p /\ m.is.kids = copy[a].is.kids
      /\ m.is.merged = TRUE
      BY <1>1, <1>3, <1>5, ObjFacts, MergedSays
<1>7. /\ IsObject(q) /\ q.of = s /\ q.is.parent = p /\ q.is.kids = copy[a].is.kids
      /\ q.is.merged = TRUE
  <2>1. SameFamily(m, Adds(m, "merged", p))
        BY <1>6, AddsSame
  <2>2. SameFamily(m, q)
        BY <1>5, <2>1
  <2> QED
        BY <1>6, <2>2 DEF SameFamily
<1>8. /\ copy' = [x \in Refs |-> copy'[x]] /\ copy'[f] = Read(p) /\ copy'[a] = q
      /\ \A x \in Objs \ {a} : copy'[x] = copy[x]
  <2>1. PICK u, w : w = Read(p) /\ u = With(f, w)
        OBVIOUS
  <2>2. copy = [x \in Refs |-> copy[x]] /\ u = [copy EXCEPT ![f] = w] /\ Objs \subseteq Refs
        BY <2>1 DEF FamilyInv, FamilyShape, With, Objs
  <2>3. a # f /\ u = [x \in Refs |-> u[x]] /\ u[f] = w /\ \A x \in Objs : u[x] = copy[x]
        BY <1>3, <1>4, <2>2
  <2>4. copy' = [u EXCEPT ![a] = Adds([u[a] EXCEPT !.is.merged = TRUE], "merged", p)]
        BY <1>1, <1>2, <2>1
  <2>5. copy' = [u EXCEPT ![a] = q]
        BY <1>3, <1>5, <2>3, <2>4
  <2> QED
        BY <1>3, <1>4, <2>1, <2>2, <2>3, <2>5
<1>9. IsObject(copy'[f]) /\ Came(f) /\ copy'[f].of = p
      BY <1>2, <1>8, ReadComes
<1>10. StoreSound /\ Together' = Together
      BY <1>2, StoreStays DEF Together
<1>11. \A u \in Objs : /\ IsObject(copy'[u]) /\ copy'[u].of = copy[u].of
                       /\ FollowsOn(copy'[u].is, copy[u].is)
  <2>1. FollowsOn(q.is, copy[a].is)
        BY <1>1, <1>7 DEF FollowsOn, Merged
  <2>2. \A u \in Objs : IsObject(copy[u]) /\ FollowsOn(copy[u].is, copy[u].is)
        BY ObjFacts, SameFollows
  <2> QED
        BY <1>3, <1>7, <1>8, <2>1, <2>2
<1>12. PICK y : y = call[c]
      OBVIOUS
<1>13. /\ y \in Calls /\ y.s = s /\ y.a = a
       /\ y = [op |-> y.op, at |-> y.at, s |-> y.s, t |-> y.t, a |-> y.a, b |-> y.b]
      BY <1>1, <1>12, CallFacts
<1>14. PICK x : /\ x = [op |-> y.op, at |-> "saveFork", s |-> y.s, t |-> p, a |-> y.a, b |-> f]
                /\ call' = [call EXCEPT ![c] = x]
  <2>1. PICK z : z = [y EXCEPT !.at = "saveFork", !.b = f, !.t = p]
        OBVIOUS
  <2>2. z = [op |-> y.op, at |-> "saveFork", s |-> y.s, t |-> p, a |-> y.a, b |-> f]
        BY <1>13, <2>1
  <2>3. call = [d \in Callers |-> call[d]]
        BY DEF FamilyInv, FamilyShape
  <2>4. call' = [call EXCEPT ![c].at = "saveFork", ![c].b = f, ![c].t = p]
        BY <1>2
  <2>5. call' = [call EXCEPT ![c] = z]
        BY ONLY <1>12, <2>1, <2>3, <2>4
  <2> QED
        BY <2>2, <2>5
<1>15. x.at = "saveFork" /\ x.s = s /\ x.a = a /\ x.b = f
      BY <1>13, <1>14
<1>16. x \in Calls
  <2>1. p \in Places
        BY <1>2 DEF FamilyInv, FamilyShape, Places
  <2> QED
        BY <1>4, <1>13, <1>14, <2>1 DEF Calls, Stages, SavesFirst
<1>17. CallOK(x)
      BY <1>4, <1>15 DEF CallOK
<1>18. CallSteps(c) /\ call'[c] = x
      BY <1>14, <1>16, <1>17, CallMoves
<1>19. FirstIsOf(c)'
      BY <1>7, <1>8, <1>15, <1>18 DEF FirstIsOf
<1>20. ~Together => MergeSound(c)'
  <2>1. /\ call'[c].at = "saveFork" /\ call'[c].s = s /\ call'[c].a = a /\ call'[c].b = f
        BY <1>15, <1>18
  <2>2. copy'[a].is.merged = TRUE /\ copy'[f].of # s
        BY <1>1, <1>3, <1>7, <1>8, <1>9
  <2>3. ~Together => live'[s] = a
        BY <1>2, <1>3
  <2> QED
        BY <1>3, <2>1, <2>2, <2>3 DEF MergeSound
<1>21. {f} \in SUBSET (Refs \ Objs) /\ \A u \in {f} : IsObject(copy'[u]) /\ Came(u)
      BY <1>4, <1>9
<1>22. /\ x.a \in Objs \cup {f} \cup {0} /\ x.b \in Objs \cup {f} \cup {0}
       /\ call[c].at # "none" /\ live' = live
      BY <1>2, <1>3, <1>15
<1> QED
      BY <1>8, <1>10, <1>11, <1>18, <1>19, <1>20, <1>21, <1>22, LiveStays, FollowStep

(* Two objects are written to one after the other.                          *)
LEMMA CleanedAndChanged ==
    ASSUME FamilyInv, NEW a \in Objs, NEW b \in Objs, NEW u, u = With(a, Clean(copy[a])),
           NEW q, copy' = [u EXCEPT ![b] = q]
    PROVE  /\ copy' = [x \in Refs |-> copy'[x]] /\ copy'[b] = q
           /\ \A x \in Objs : SameFamily(copy[x], u[x])
           /\ \A x \in Objs \ {b} : copy'[x] = u[x]
<1>1. PICK p : p = Clean(copy[a])
      OBVIOUS
<1>2. SameFamily(copy[a], p)
      BY <1>1, ObjFacts, CleanSame
<1>3. copy = [x \in Refs |-> copy[x]] /\ Objs \subseteq Refs
      BY DEF FamilyInv, FamilyShape, Objs
<1>4. u = [copy EXCEPT ![a] = p]
      BY <1>1 DEF With
<1>5. \A x \in Objs : SameFamily(copy[x], copy[x])
      BY ObjFacts, SameAsItself
<1>6. \A x \in Objs : SameFamily(copy[x], u[x])
      BY <1>2, <1>3, <1>4, <1>5
<1>7. u = [x \in Refs |-> u[x]]
      BY <1>3, <1>4
<1> QED
      BY <1>3, <1>6, <1>7

(* What a step writes of a session that it saves.                           *)
LEMMA StoreSays ==
    ASSUME FamilyInv, NEW r \in Objs, Store(copy[r])
    PROVE  copy[r].of \in stored' /\ disk'[copy[r].of].merged = copy[r].is.merged
<1>1. PICK u, x : u = WrittenTurns(copy[r]) /\ x = [copy[r].is EXCEPT !.turns = u]
      OBVIOUS
<1>2. /\ stored' = stored \cup {copy[r].of}
      /\ disk' = [disk EXCEPT ![copy[r].of] = x]
      BY <1>1 DEF Store
<1>3. IsSays(copy[r].is)
  <2>1. IsObject(copy[r])
        BY ObjFacts
  <2> QED
        BY <2>1 DEF IsObject
<1>4. x.merged = copy[r].is.merged
      BY <1>1, <1>3, TurnsReplaced
<1>5. disk'[copy[r].of] = x
      BY <1>2, ObjFacts DEF FamilyInv, FamilyShape
<1> QED
      BY <1>2, <1>4, <1>5

LEMMA SaveChildKeeps == ASSUME FamilyInv, NEW c \in Callers, SaveChild(c) PROVE FamilyInv'
<1>1. PICK a, b, n : a = call[c].a /\ b = call[c].b /\ n = copy[b].of
      OBVIOUS
<1>2. PICK u : u = With(b, Clean(copy[b]))
      OBVIOUS
<1>3. /\ call[c].at = "saveChild" /\ Store(copy[b]) /\ Goes(c, "saveParent")
      /\ copy' = [u EXCEPT ![a] = Adds(HasKid(u[a], n, "active"), "fork", n)]
      /\ UNCHANGED <<occasion, live, deleted>>
      BY <1>1, <1>2 DEF SaveChild, Waits
<1>4. a \in Objs /\ b \in Objs /\ a # 0 /\ b # 0
      BY <1>1, <1>3, HeldObjects, ObjFacts DEF SavesSecond
<1>5. StoreSound /\ Together' = Together
      BY <1>3, <1>4, StoreWrites DEF Together
<1>6. n \in stored'
      BY <1>1, <1>3, <1>4, StoreSays
<1>7. PICK h, q : h = HasKid(u[a], n, "active") /\ q = Adds(h, "fork", n)
      OBVIOUS
<1>8. copy' = [u EXCEPT ![a] = q]
      BY <1>3, <1>7
<1>9. /\ copy' = [x \in Refs |-> copy'[x]] /\ copy'[a] = q
      /\ \A x \in Objs : SameFamily(copy[x], u[x])
      /\ \A x \in Objs \ {a} : copy'[x] = u[x]
      BY <1>2, <1>4, <1>8, CleanedAndChanged
<1>10. /\ IsObject(h) /\ h.of = u[a].of /\ h.is.parent = u[a].is.parent
       /\ h.is.merged = u[a].is.merged
       /\ DOMAIN h.is.kids = DOMAIN u[a].is.kids \cup {n} /\ h.is.kids[n] = "active"
       /\ \A x \in DOMAIN u[a].is.kids \ {n} : h.is.kids[x] = u[a].is.kids[x]
  <2>1. IsObject(u[a])
        BY <1>4, <1>9 DEF SameFamily
  <2> QED
        BY <1>7, <2>1, HasKidSays
<1>11. SameFamily(h, q)
  <2>1. SameFamily(h, Adds(h, "fork", n))
        BY <1>10, AddsSame
  <2> QED
        BY <1>7, <2>1
<1>12. /\ IsObject(q) /\ q.of = copy[a].of /\ q.is.parent = copy[a].is.parent
       /\ q.is.merged = copy[a].is.merged
       /\ DOMAIN q.is.kids = DOMAIN copy[a].is.kids \cup {n} /\ q.is.kids[n] = "active"
       /\ \A x \in DOMAIN copy[a].is.kids \ {n} : q.is.kids[x] = copy[a].is.kids[x]
  <2>1. SameFamily(copy[a], u[a])
        BY <1>4, <1>9
  <2> QED
        BY <1>10, <1>11, <2>1 DEF SameFamily
<1>13. FollowsOn(q.is, copy[a].is)
  <2>1. Merged(q.is) \subseteq Merged(copy[a].is)
        BY <1>12 DEF Merged
  <2> QED
        BY <1>6, <1>12, <2>1 DEF FollowsOn
<1>14. \A x \in Objs : /\ IsObject(copy'[x]) /\ copy'[x].of = copy[x].of
                       /\ FollowsOn(copy'[x].is, copy[x].is)
  <2>1. \A x \in Objs \ {a} : SameFamily(copy[x], copy'[x])
        BY <1>9
  <2>2. \A x \in Objs \ {a} : /\ IsObject(copy'[x]) /\ copy'[x].of = copy[x].of
                              /\ FollowsOn(copy'[x].is, copy[x].is)
        BY <2>1, SameFollows DEF SameFamily
  <2> QED
        BY <1>9, <1>12, <1>13, <2>2
<1>15. PICK x \in Calls :
           /\ call' = [call EXCEPT ![c] = x]
           /\ x.at = "saveParent" /\ x.a = a /\ x.b = b
  <2>1. "saveParent" \in Stages
        BY DEF Stages, SavesFirst
  <2> QED
        BY <1>1, <1>3, <2>1, MovedOnMade
<1>16. CallOK(x)
      BY <1>4, <1>15, ObjFacts DEF CallOK
<1>17. CallSteps(c) /\ call'[c] = x
      BY <1>15, <1>16, CallMoves
<1>18. FirstIsOf(c)' /\ MergeSound(c)'
      BY <1>15, <1>17 DEF FirstIsOf, MergeSound
<1>19. /\ {} \in SUBSET (Refs \ Objs)
       /\ call'[c].a \in Objs \cup {} \cup {0} /\ call'[c].b \in Objs \cup {} \cup {0}
       /\ call[c].at # "none"
      BY <1>3, <1>4, <1>15, <1>17
<1> QED
      BY <1>3, <1>5, <1>9, <1>14, <1>17, <1>18, <1>19, LiveStays, FollowStep

(* While a fork is merged alone, its one object is the one that is saved.   *)
LEMMA OneOfFork ==
    ASSUME FamilyInv, ~Together, NEW c \in Callers, call[c].at = "saveFork",
           NEW r \in Objs, copy[r].of = call[c].s
    PROVE  r = call[c].a
<1>1. /\ live[call[c].s] = call[c].a /\ copy[call[c].b].of # call[c].s
      BY DEF FamilyInv, MergeSound
<1>2. ASSUME NEW s \in Sessions, r = live[s] PROVE r = call[c].a
  <2>1. copy[r].of = s
        BY <1>2, ObjFacts DEF FamilyInv, ObjectsSound
  <2> QED
        BY <1>1, <1>2, <2>1
<1>3. ASSUME NEW d \in Callers, r \in {call[d].a, call[d].b} PROVE r = call[c].a
  <2>1. call[d] # NoCall
        BY <1>3, NoCallSound, ObjFacts
  <2>2. call[c] # NoCall
        BY NoCallSound
  <2>3. d = c
        BY <2>1, <2>2 DEF FamilyInv, Alone
  <2> QED
        BY <1>1, <1>3, <2>3
<1> QED
      BY <1>2, <1>3, UsedBy

LEMMA KidMergedSays ==
    ASSUME NEW o, IsObject(o), NEW k, NEW q, q = KidMerged(o, k)
    PROVE  /\ IsObject(q) /\ q.of = o.of /\ q.is.parent = o.is.parent
           /\ q.is.merged = o.is.merged /\ DOMAIN q.is.kids = DOMAIN o.is.kids
           /\ Merged(q.is) \subseteq Merged(o.is) \cup {k}
<1>1. CASE k \in DOMAIN o.is.kids
  <2>1. q = HasKid(o, k, "merged")
        BY <1>1 DEF KidMerged
  <2>2. /\ IsObject(q) /\ q.of = o.of /\ q.is.parent = o.is.parent
        /\ q.is.merged = o.is.merged
        /\ DOMAIN q.is.kids = DOMAIN o.is.kids \cup {k}
        /\ \A x \in DOMAIN o.is.kids \ {k} : q.is.kids[x] = o.is.kids[x]
        BY <2>1, HasKidSays
  <2> QED
        BY <1>1, <2>2 DEF Merged
<1>2. CASE k \notin DOMAIN o.is.kids
      BY <1>2 DEF KidMerged
<1> QED
      BY <1>1, <1>2

LEMMA SaveForkKeeps == ASSUME FamilyInv, NEW c \in Callers, SaveFork(c) PROVE FamilyInv'
<1>1. PICK a, b, s : a = call[c].a /\ b = call[c].b /\ s = call[c].s
      OBVIOUS
<1>2. PICK u : u = With(a, Clean(copy[a]))
      OBVIOUS
<1>3. /\ call[c].at = "saveFork" /\ Store(copy[a]) /\ Goes(c, "saveInto")
      /\ copy' = [u EXCEPT ![b] = Adds(KidMerged(u[b], s), "merge", s)]
      /\ UNCHANGED <<occasion, live, deleted>>
      BY <1>1, <1>2 DEF SaveFork, Waits
<1>4. a \in Objs /\ b \in Objs /\ a # 0 /\ b # 0 /\ copy[a].of = s /\ s \in Sessions
  <2>1. a \in Objs /\ b \in Objs /\ a # 0 /\ b # 0
        BY <1>1, <1>3, HeldObjects, ObjFacts DEF SavesFirst
  <2>2. copy[a].of = s
        BY <1>1, <1>3, <2>1, CallFacts DEF FirstIsOf
  <2> QED
        BY <2>1, <2>2, ObjFacts
<1>5. StoreSound /\ Together' = Together
      BY <1>3, <1>4, StoreWrites DEF Together
<1>6. s \in stored' /\ disk'[s].merged = copy[a].is.merged
      BY <1>3, <1>4, StoreSays
<1>7. PICK h, q : h = KidMerged(u[b], s) /\ q = Adds(h, "merge", s)
      OBVIOUS
<1>8. copy' = [u EXCEPT ![b] = q]
      BY <1>3, <1>7
<1>9. /\ copy' = [x \in Refs |-> copy'[x]] /\ copy'[b] = q
      /\ \A x \in Objs : SameFamily(copy[x], u[x])
      /\ \A x \in Objs \ {b} : copy'[x] = u[x]
      BY <1>2, <1>4, <1>8, CleanedAndChanged
<1>10. /\ IsObject(h) /\ h.of = u[b].of /\ h.is.parent = u[b].is.parent
       /\ h.is.merged = u[b].is.merged /\ DOMAIN h.is.kids = DOMAIN u[b].is.kids
       /\ Merged(h.is) \subseteq Merged(u[b].is) \cup {s}
  <2>1. IsObject(u[b])
        BY <1>4, <1>9 DEF SameFamily
  <2> QED
        BY <1>7, <2>1, KidMergedSays
<1>11. SameFamily(h, q)
  <2>1. SameFamily(h, Adds(h, "merge", s))
        BY <1>10, AddsSame
  <2> QED
        BY <1>7, <2>1
<1>12. /\ IsObject(q) /\ q.of = copy[b].of /\ q.is.parent = copy[b].is.parent
       /\ q.is.merged = copy[b].is.merged
       /\ DOMAIN q.is.kids = DOMAIN copy[b].is.kids
       /\ Merged(q.is) \subseteq Merged(copy[b].is) \cup {s}
  <2>1. SameFamily(copy[b], u[b])
        BY <1>4, <1>9
  <2>2. /\ q.of = h.of /\ q.is.parent = h.is.parent /\ q.is.merged = h.is.merged
        /\ q.is.kids = h.is.kids /\ Merged(q.is) = Merged(h.is) /\ IsObject(q)
        BY <1>11 DEF SameFamily, Merged
  <2>3. /\ u[b].of = copy[b].of /\ u[b].is.parent = copy[b].is.parent
        /\ u[b].is.merged = copy[b].is.merged /\ u[b].is.kids = copy[b].is.kids
        /\ Merged(u[b].is) = Merged(copy[b].is)
        BY <2>1 DEF SameFamily, Merged
  <2> QED
        BY <1>10, <2>2, <2>3
<1>13. PICK x \in Calls :
           /\ call' = [call EXCEPT ![c] = x]
           /\ x.at = "saveInto" /\ x.a = a /\ x.b = b
  <2>1. "saveInto" \in Stages
        BY DEF Stages, SavesSecond
  <2> QED
        BY <1>1, <1>3, <2>1, MovedOnMade
<1>14. CallOK(x)
      BY <1>4, <1>13, ObjFacts DEF CallOK, SavesFirst
<1>15. CallSteps(c) /\ call'[c] = x
      BY <1>13, <1>14, CallMoves
<1>16. \A y \in Objs : IsObject(copy'[y]) /\ copy'[y].of = copy[y].of
  <2>1. \A y \in Objs \ {b} : SameFamily(copy[y], copy'[y])
        BY <1>9
  <2> QED
        BY <1>9, <1>12, <2>1 DEF SameFamily
<1>17. ASSUME ~Together PROVE s \in KnownMerged'
  <2>1. copy[a].is.merged = TRUE /\ copy[b].of # s
        BY <1>1, <1>3, <1>17 DEF FamilyInv, MergeSound
  <2>2. a # b /\ copy'[a].is.merged = TRUE
    <3>1. a # b
          BY <1>4, <2>1
    <3>2. copy'[a] = u[a] /\ u[a].is.merged = copy[a].is.merged
          BY <1>4, <1>9, <3>1 DEF SameFamily
    <3> QED
          BY <2>1, <3>1, <3>2
  <2>3. \A y \in Sessions : live'[y] \in Objs \cup {} \cup {0}
        BY <1>3, UsedBy
  <2>4. Objs' \subseteq Objs \cup {}
    <3>1. \A d \in Callers \ {c} : call'[d] \in {call[d], NoCall}
          BY <1>15 DEF CallSteps
    <3>2. call'[c].a \in Objs \cup {} \cup {0} /\ call'[c].b \in Objs \cup {} \cup {0}
          BY <1>4, <1>13, <1>15
    <3> QED
          BY <2>3, <3>1, <3>2, UsedAfter
  <2>5. ASSUME NEW y \in Objs', copy'[y].of = s PROVE copy'[y].is.merged = TRUE
    <3>1. y \in Objs /\ copy[y].of = s
          BY <1>16, <2>4, <2>5
    <3>2. y = a
          BY <1>1, <1>3, <1>17, <3>1, OneOfFork
    <3> QED
          BY <2>2, <3>2
  <2> QED
        BY <1>4, <1>6, <2>1, <2>5 DEF KnownMerged
<1>18. FollowsOn(q.is, copy[b].is)
      BY <1>12, <1>17 DEF FollowsOn
<1>19. \A y \in Objs : /\ IsObject(copy'[y]) /\ copy'[y].of = copy[y].of
                       /\ FollowsOn(copy'[y].is, copy[y].is)
  <2>1. \A y \in Objs \ {b} : FollowsOn(copy'[y].is, copy[y].is)
        BY <1>9, SameFollows DEF SameFamily
  <2> QED
        BY <1>9, <1>16, <1>18, <2>1
<1>20. FirstIsOf(c)' /\ MergeSound(c)'
      BY <1>13, <1>15 DEF FirstIsOf, MergeSound
<1>21. /\ {} \in SUBSET (Refs \ Objs)
       /\ call'[c].a \in Objs \cup {} \cup {0} /\ call'[c].b \in Objs \cup {} \cup {0}
       /\ call[c].at # "none"
      BY <1>3, <1>4, <1>13, <1>15
<1> QED
      BY <1>3, <1>5, <1>9, <1>15, <1>19, <1>20, <1>21, LiveStays, FollowStep

LEMMA EraseKeeps == ASSUME FamilyInv, NEW c \in Callers, Erase(c) PROVE FamilyInv'
<1>1. PICK s : s = call[c].s
      OBVIOUS
<1>2. /\ call[c].at = "erase" /\ Ends(c) /\ copy' = copy
      /\ stored' = stored \ {s} /\ deleted' = deleted \cup {s}
      /\ disk' = [disk EXCEPT ![s] = Blank(Nobody)]
      /\ UNCHANGED <<occasion, live>>
      BY <1>1 DEF Erase, Waits
<1>3. s \in Sessions
      BY <1>1, <1>2, CallFacts DEF CallOK
<1>4. disk' = [x \in Sessions |-> disk'[x]] /\ \A x \in stored' : disk'[x] = disk[x]
      BY <1>2, <1>3 DEF FamilyInv, FamilyShape
<1>5. \A x \in stored' : WrittenOnly(x)
      BY <1>2, <1>4 DEF WrittenOnly
<1>6. StoreSound
      BY <1>2, <1>3, <1>4, <1>5 DEF FamilyInv, FamilyShape, StoreSound
<1>7. Together' = Together
      BY <1>2 DEF Together
<1> QED
      BY <1>2, <1>6, <1>7, CopyStays, LiveStays, QuietEnds

(* Calls that find nothing to do.                                           *)
LEMMA NothingKeeps ==
    ASSUME FamilyInv, NEW c \in Callers, NotAFork(c) \/ NoParent(c) \/ Nothing(c)
    PROVE  FamilyInv'
<1>1. call[c].at # "none" /\ Refuse(c)
      BY DEF NotAFork, NoParent, Nothing, Runs, Waits
<1> QED
      BY <1>1, RefuseKeeps

(* The server starts with nothing in memory.                                *)
LEMMA RestartKeeps == ASSUME FamilyInv, Restart PROVE FamilyInv'
<1>1. /\ occasion' = (occasion \ {"restart"}) \cup {"restarted"}
      /\ live' = [s \in Sessions |-> 0] /\ call' = [c \in Callers |-> NoCall]
      /\ copy' = [r \in Refs |-> NoObject]
      /\ stored' = stored /\ disk' = disk /\ deleted' = deleted
      BY DEF Restart, store
<1>2. Together' = Together
      BY <1>1 DEF Together
<1>3. Objs' = {}
  <2>1. \A s \in Sessions : live'[s] = 0
        BY <1>1
  <2>2. \A c \in Callers : call'[c].a = 0 /\ call'[c].b = 0
        BY <1>1, NoCallSound
  <2>3. 0 \notin Refs' /\ InUse' \subseteq {0}
        BY <2>1, <2>2 DEF InUse, Refs
  <2> QED
        BY <2>3 DEF Objs
<1>4. FamilyShape'
  <2>1. call' \in [Callers -> Calls] /\ 0 \in 0..MaxCopy
        BY <1>1, NoCallSound, FamilyAssumption
  <2> QED
        BY <1>1, <2>1 DEF FamilyInv, FamilyShape, Refs
<1>5. CallsSound'
  <2>1. \A c \in Callers : CallOK(call'[c])
        BY <1>1, NoCallSound
  <2> QED
        BY <2>1 DEF CallsSound, CallOK, Refs
<1>6. \A c \in Callers : FirstIsOf(c)' /\ MergeSound(c)'
      BY <1>1, NoCallSound DEF FirstIsOf, MergeSound
<1>7. ObjectsSound'
      BY <1>1, <1>3, <1>6 DEF ObjectsSound
<1>8. DiskSound'
      BY <1>1 DEF FamilyInv, DiskSound
<1>9. Alone'
      BY <1>1 DEF Alone
<1>10. ASSUME ~Together PROVE MergeKnown'
  <2>1. MergeKnown
        BY <1>10 DEF FamilyInv
  <2>2. ASSUME NEW k \in Sessions, CountedMerged(k)' PROVE k \in KnownMerged'
    <3>1. \E p \in stored : k \in Merged(disk[p])
          BY <1>1, <1>3, <2>2 DEF CountedMerged, Merged
    <3>2. k \in KnownMerged
          BY <2>1, <3>1 DEF MergeKnown, CountedMerged
    <3> QED
          BY <1>1, <1>3, <3>2 DEF KnownMerged
  <2> QED
        BY <2>2 DEF MergeKnown
<1> QED
      BY <1>2, <1>4, <1>5, <1>6, <1>7, <1>8, <1>9, <1>10 DEF FamilyInv

LEMMA FamilyUnchanged == ASSUME FamilyInv, UNCHANGED familyVars PROVE FamilyInv'
<1>1. UNCHANGED <<occasion, stored, disk, copy, live, call, deleted>>
      BY DEF familyVars, store
<1>2. Objs' = Objs /\ Together' = Together
      BY <1>1 DEF Objs, InUse, Refs, Together
<1>3. FamilyShape' /\ CallsSound'
      BY <1>1 DEF FamilyInv, FamilyShape, CallsSound, CallOK, Refs
<1>4. \A c \in Callers : FirstIsOf(c)' = FirstIsOf(c) /\ MergeSound(c)' = MergeSound(c)
      BY <1>1 DEF FirstIsOf, MergeSound
<1>5. ObjectsSound' /\ DiskSound'
      BY <1>1, <1>2, <1>4 DEF FamilyInv, ObjectsSound, DiskSound
<1>6. Alone' = Alone
      BY <1>1 DEF Alone
<1>7. MergeKnown => MergeKnown'
  <2>1. \A k : CountedMerged(k)' = CountedMerged(k)
        BY <1>1, <1>2 DEF CountedMerged, Merged
  <2>2. KnownMerged' = KnownMerged
        BY <1>1, <1>2 DEF KnownMerged
  <2> QED
        BY <2>1, <2>2 DEF MergeKnown
<1> QED
      BY <1>2, <1>3, <1>4, <1>5, <1>6, <1>7 DEF FamilyInv

LEMMA FamilyInitially == ASSUME FamilyInit PROVE FamilyInv
<1>1. /\ stored = Roots /\ disk = [s \in Sessions |-> Blank(Nobody)] /\ deleted = {}
      /\ live \in [Sessions -> 0..Cardinality(Roots)]
      /\ call = [c \in Callers |-> NoCall]
      /\ \A s \in Sessions : live[s] # 0 => s \in Roots
      /\ \A s, t \in Roots : s # t /\ live[s] # 0 => live[s] # live[t]
      /\ copy = [r \in Refs |->
                   IF \E s \in Roots : live[s] = r
                   THEN Read(CHOOSE s \in Roots : live[s] = r) ELSE NoObject]
      BY DEF FamilyInit
<1>2. /\ Roots \subseteq Sessions /\ Nobody \notin Sessions /\ MaxCopy \in Nat
      /\ Cardinality(Roots) <= MaxCopy /\ Cardinality(Roots) \in Nat
      BY FamilyAssumption, FS_CardinalityType
<1>3. live \in [Sessions -> 0..MaxCopy]
  <2>1. \A n \in 0..Cardinality(Roots) : n \in 0..MaxCopy
        BY <1>2
  <2> QED
        BY <1>1, <2>1
<1>4. FamilyShape
      BY <1>1, <1>2, <1>3, NoCallSound DEF FamilyShape
<1>5. CallsSound
      BY <1>1, NoCallSound DEF CallsSound
<1>6. \A c \in Callers : FirstIsOf(c) /\ MergeSound(c)
      BY <1>1, NoCallSound DEF FirstIsOf, MergeSound
<1>7. Alone
      BY <1>1 DEF Alone
<1>8. PICK x : x = Blank(Nobody)
      OBVIOUS
<1>9. IsSays(x) /\ x.parent = Nobody /\ DOMAIN x.kids = {} /\ Merged(x) = {}
      BY <1>8, BlankSays
<1>10. \A s \in stored : disk[s] = x
      BY <1>1, <1>2, <1>8
<1>11. DiskSound
      BY <1>1, <1>2, <1>9, <1>10 DEF DiskSound
<1>12. \A r \in Objs : \E s \in Roots : live[s] = r /\ copy[r] = Read(s)
  <2> SUFFICES ASSUME NEW r \in Objs PROVE \E s \in Roots : live[s] = r /\ copy[r] = Read(s)
      OBVIOUS
  <2>1. r \in Refs /\ r \in InUse /\ r # 0
        BY DEF Objs, Refs
  <2>2. \A c \in Callers : call[c].a = 0 /\ call[c].b = 0
        BY <1>1, NoCallSound
  <2>3. \E s \in Roots : live[s] = r
        BY <1>1, <2>1, <2>2 DEF InUse
  <2>4. PICK s : s = CHOOSE t \in Roots : live[t] = r
        OBVIOUS
  <2>5. s \in Roots /\ live[s] = r
        BY <2>3, <2>4
  <2>6. copy[r] = Read(s)
        BY <1>1, <2>1, <2>3, <2>4
  <2> QED
        BY <2>5, <2>6
<1>13. \A s \in Roots : IsObject(Read(s)) /\ Read(s).of = s /\ Read(s).is = x
  <2>1. \A s \in Roots : disk[s] = x
        BY <1>1, <1>10
  <2> QED
        BY <1>9, <2>1, ObjectSays DEF Read
<1>14. \A r \in Objs : /\ IsObject(copy[r]) /\ copy[r].of \in Sessions
                       /\ copy[r].is.parent # copy[r].of
                       /\ DOMAIN copy[r].is.kids = {} /\ Merged(copy[r].is) = {}
      BY <1>2, <1>9, <1>12, <1>13
<1>15. ASSUME NEW s \in Sessions, live[s] # 0 PROVE copy[live[s]].of = s
  <2>1. live[s] \in Objs
        BY <1>2, <1>3, <1>15 DEF Objs, InUse, Refs
  <2>2. PICK t \in Roots : live[t] = live[s] /\ copy[live[s]] = Read(t)
        BY <1>12, <2>1
  <2>3. t = s
        BY <1>1, <1>15, <2>2
  <2> QED
        BY <1>13, <2>2, <2>3
<1>16. ObjectsSound
      BY <1>6, <1>14, <1>15 DEF ObjectsSound
<1>17. MergeKnown
      BY <1>9, <1>10, <1>14 DEF MergeKnown, CountedMerged
<1> QED
      BY <1>4, <1>5, <1>6, <1>7, <1>11, <1>16, <1>17 DEF FamilyInv

LEMMA FamilyStepKeeps == ASSUME FamilyInv, NEW c \in Callers, FamilyStep(c) PROVE FamilyInv'
<1>1. CASE Starts(c) \/ Miss(c) \/ Load(c) \/ SaveAndEnd(c)
      BY <1>1, StartsKeeps, MissKeeps, LoadKeeps, SaveAndEndKeeps
<1>2. CASE Create(c) \/ SaveNew(c) \/ Conclude(c) \/ Delete(c) \/ Erase(c)
      BY <1>2, CreateKeeps, SaveNewKeeps, ConcludeKeeps, DeleteKeeps, EraseKeeps
<1>3. CASE Fork(c) \/ Summarised(c) \/ SummaryFails(c) \/ SaveChild(c) \/ SaveParent(c)
      BY <1>3, ForkKeeps, SummarisedKeeps, SummaryFailsKeeps, SaveChildKeeps, SaveParentKeeps
<1>4. CASE Merge(c) \/ ReadParent(c) \/ SaveFork(c) \/ SaveInto(c)
      BY <1>4, MergeKeeps, ReadParentKeeps, SaveForkKeeps, SaveIntoKeeps
<1>5. CASE NotAFork(c) \/ NoParent(c) \/ Nothing(c)
      BY <1>5, NothingKeeps
<1>6. CASE Link(c) \/ SaveSource(c) \/ Watch(c) \/ SaveWatch(c) \/ SaveTable(c) \/ Unwatch(c)
      BY <1>6, LinkKeeps, SaveSourceKeeps, WatchKeeps, SaveWatchKeeps, SaveTableKeeps, UnwatchKeeps
<1>7. CASE SaveFails(c) \/ Open(c) \/ Alert(c) \/ ReadTarget(c)
      BY <1>7, SaveFailsKeeps, OpenKeeps, AlertKeeps, ReadTargetKeeps
<1>8. CASE Talk(c) \/ SaveTalk(c) \/ Answer(c) \/ Backend(c) \/ SaveBackend(c)
      BY <1>8, TalkKeeps, SaveTalkKeeps, AnswerKeeps, BackendKeeps, SaveBackendKeeps
<1> QED
      BY <1>1, <1>2, <1>3, <1>4, <1>5, <1>6, <1>7, <1>8 DEF FamilyStep

LEMMA FamilyInvHolds == FamilySpec => []FamilyInv
<1>1. FamilyInit => FamilyInv
      BY FamilyInitially
<1>2. FamilyInv /\ [FamilyNext]_familyVars => FamilyInv'
      BY FamilyStepKeeps, RestartKeeps, FamilyUnchanged DEF FamilyNext
<1> QED
      BY <1>1, <1>2, PTL DEF FamilySpec

(* Whatever runs beside it and wherever the server stops, what is stored of *)
(* a parent names no fork that was never stored; and when calls come one at *)
(* a time, also if the stop cuts one in two, it counts no fork as merged    *)
(* that does not know it (ForkManager.fork and merge, save_session).        *)
THEOREM FamilyCorrect == FamilySpec => []ParentNeverAhead
<1>1. FamilyInv => KidsStored
      BY DEF FamilyInv, DiskSound, KidsStored
<1>2. FamilyInv => ForkKnowsMerge
  <2> SUFFICES ASSUME FamilyInv, ~Together, NEW p \in stored,
                      NEW k \in DOMAIN disk[p].kids \cap stored, disk[p].kids[k] = "merged"
               PROVE  disk[k].merged
      BY DEF ForkKnowsMerge
  <2>1. CountedMerged(k) /\ k \in Sessions
        BY DEF CountedMerged, Merged, FamilyInv, FamilyShape
  <2>2. k \in KnownMerged
        BY <2>1 DEF FamilyInv, MergeKnown
  <2> QED
        BY <2>2 DEF KnownMerged
<1>3. FamilyInv => ParentNeverAhead
      BY <1>1, <1>2 DEF ParentNeverAhead
<1> QED
      BY <1>3, FamilyInvHolds, PTL


(***************************************************************************)
(* Helpers                                                                 *)
(***************************************************************************)
EventKinds == {"text", "done", "error", "cancelled"}
Doings == {"idle", "polling", "completing", "returned"}

HelperTypes ==
    /\ automatic \in BOOLEAN /\ listed \in BOOLEAN
    /\ status \in {"idle", "streaming", "ended", "error", "cancelled"}
    /\ put \in Nat /\ content \in {Gone} \cup Nat /\ completed \in Nat
    /\ events \in Seq(EventKinds)
    /\ doing \in [Drains -> Doings]
    /\ result \in [Waiters -> {Gone} \cup Nat]

(* While the helper is idle or streams, no end of it is known.              *)
NoEndYet ==
    /\ status \in {"idle", "streaming"} =>
           /\ Ending(events) = {} /\ completed = 0
           /\ \A d \in Drains : doing[d] # "completing"
    /\ status = "idle" =>
           /\ content = Gone /\ put = 0 /\ events = <<>>
           /\ \A w \in Waiters : result[w] = Gone
           /\ \A d \in Drains : doing[d] = "idle"

(* What the runner has put is in the context or in the queue, and a waiter  *)
(* that did not time out took nothing, or all of it.                        *)
AllIsThere ==
    /\ content # Gone => content + Pieces(events) = put
    /\ \A w \in Waiters :
           result[w] \notin {Gone, 0} /\ w \notin gaveUp
               => result[w] = put /\ status # "streaming"

(* A context outlives its runner only when nothing is left to drain.        *)
ContextAndRunner ==
    /\ content = Gone => ~listed
    /\ content # Gone /\ ~listed => status # "streaming" /\ events = <<>>
    /\ status = "streaming" /\ content = Gone => gaveUp # {}

(* "done" is in the queue once, and only before it is acted on.             *)
DoneOnce ==
    /\ completed <= 1
    /\ \A i \in DOMAIN events : events[i] = "done" => completed = 0
    /\ \A d \in Drains : doing[d] = "completing" => completed = 1

(* An end that nobody has drained is still in the queue.                    *)
EndIsQueued ==
    /\ status # "streaming" /\ completed = 0 /\ content # Gone => Ending(events) # {}
    /\ status = "ended" /\ automatic =>
           completed = 1 \/ gaveUp # {} \/ (content # Gone /\ IsDone(events))

HelperInv ==
    HelperTypes /\ NoEndYet /\ AllIsThere /\ ContextAndRunner /\ DoneOnce /\ EndIsQueued

-----------------------------------------------------------------------------
LEMMA EmptyQueue == Ending(<<>>) = {} /\ Pieces(<<>>) = 0 /\ ~IsDone(<<>>)
<1>1. Ending(<<>>) = {} /\ DOMAIN <<>> \ Ending(<<>>) = {}
      BY DEF Ending
<1> QED
      BY <1>1, FS_EmptySet DEF Pieces, IsDone

LEMMA PiecesAreFinite ==
    ASSUME NEW es \in Seq(EventKinds)
    PROVE  IsFiniteSet(DOMAIN es \ Ending(es)) /\ Pieces(es) \in Nat
<1>1. IsFiniteSet(DOMAIN es)
      BY FS_Interval, DOMAIN es = 1..Len(es), Len(es) \in Nat
<1>2. IsFiniteSet(DOMAIN es \ Ending(es))
      BY <1>1, FS_Difference
<1> QED
      BY <1>2, FS_CardinalityType DEF Pieces

LEMMA TextAppended ==
    ASSUME NEW es \in Seq(EventKinds)
    PROVE  /\ Ending(Append(es, "text")) = Ending(es)
           /\ Pieces(Append(es, "text")) = Pieces(es) + 1
<1> DEFINE fs == Append(es, "text")
           n == Len(es) + 1
<1>1. /\ Len(es) \in Nat /\ DOMAIN es = 1..Len(es)
      /\ DOMAIN fs = 1..n /\ DOMAIN fs = DOMAIN es \cup {n} /\ n \notin DOMAIN es
      /\ fs[n] = "text" /\ \A i \in DOMAIN es : fs[i] = es[i]
      OBVIOUS
<1> HIDE DEF fs, n
<1>2. Ending(fs) = Ending(es)
      BY <1>1 DEF Ending
<1>3. DOMAIN fs \ Ending(fs) = (DOMAIN es \ Ending(es)) \cup {n} /\ n \notin DOMAIN es \ Ending(es)
      BY <1>1, <1>2 DEF Ending
<1>4. Pieces(fs) = Pieces(es) + 1
      BY <1>3, PiecesAreFinite, FS_AddElement DEF Pieces
<1> QED
      BY <1>2, <1>4 DEF fs

LEMMA EndAppended ==
    ASSUME NEW es \in Seq(EventKinds), NEW e \in EventKinds \ {"text"}
    PROVE  /\ Ending(Append(es, e)) = Ending(es) \cup {Len(es) + 1}
           /\ Pieces(Append(es, e)) = Pieces(es)
<1> DEFINE fs == Append(es, e)
           n == Len(es) + 1
<1>1. /\ Len(es) \in Nat /\ DOMAIN es = 1..Len(es)
      /\ DOMAIN fs = DOMAIN es \cup {n} /\ n \notin DOMAIN es
      /\ fs[n] = e /\ \A i \in DOMAIN es : fs[i] = es[i]
      OBVIOUS
<1> HIDE DEF fs, n
<1>2. Ending(fs) = Ending(es) \cup {n}
      BY <1>1 DEF Ending
<1>3. DOMAIN fs \ Ending(fs) = DOMAIN es \ Ending(es)
      BY <1>1, <1>2 DEF Ending
<1> QED
      BY <1>2, <1>3 DEF fs, n, Pieces

LEMMA FirstIsDone ==
    ASSUME NEW es \in Seq(EventKinds), Ending(es) = {}
    PROVE  IsDone(Append(es, "done"))
<1>1. Ending(Append(es, "done")) = {Len(es) + 1}
      BY EndAppended DEF EventKinds
<1>2. Append(es, "done")[Len(es) + 1] = "done" /\ Len(es) + 1 \in Nat
      OBVIOUS
<1> QED
      BY <1>1, <1>2 DEF IsDone

LEMMA HelperInitially == ASSUME HelperInit PROVE HelperInv
<1>1. /\ status = "idle" /\ put = 0 /\ events = <<>> /\ content = Gone /\ listed = FALSE
      /\ doing = [d \in Drains |-> "idle"] /\ result = [w \in Waiters |-> Gone]
      /\ completed = 0 /\ automatic \in BOOLEAN
      BY HelperAssumption DEF HelperInit
<1>2. HelperTypes
  <2>1. <<>> \in Seq(EventKinds)
        OBVIOUS
  <2> QED
        BY <1>1, <2>1 DEF HelperTypes, Doings
<1>3. NoEndYet
      BY <1>1, EmptyQueue DEF NoEndYet
<1>4. AllIsThere /\ ContextAndRunner
      BY <1>1 DEF AllIsThere, ContextAndRunner
<1>5. DoneOnce /\ EndIsQueued
      BY <1>1 DEF DoneOnce, EndIsQueued
<1> QED
      BY <1>2, <1>3, <1>4, <1>5 DEF HelperInv

LEMMA StartHelperKeeps == ASSUME HelperInv, StartHelper PROVE HelperInv'
<1>1. /\ status = "idle" /\ events = <<>> /\ put = 0 /\ completed = 0
      /\ status' = "streaming" /\ content' = 0 /\ listed' = TRUE
      /\ UNCHANGED <<automatic, put, events, doing, result, gaveUp, completed>>
      /\ \A w \in Waiters : result[w] = Gone
      /\ Ending(events) = {} /\ Pieces(events) = 0
      BY EmptyQueue DEF StartHelper, HelperInv, NoEndYet
<1>2. HelperTypes'
      BY <1>1 DEF HelperInv, HelperTypes, Gone
<1>3. NoEndYet' /\ DoneOnce'
      BY <1>1 DEF HelperInv, NoEndYet, DoneOnce
<1>4. AllIsThere' /\ ContextAndRunner' /\ EndIsQueued'
      BY <1>1 DEF AllIsThere, ContextAndRunner, EndIsQueued, Gone
<1> QED
      BY <1>2, <1>3, <1>4 DEF HelperInv

LEMMA PutTextKeeps == ASSUME HelperInv, PutText PROVE HelperInv'
<1>1. /\ status = "streaming" /\ put' = put + 1 /\ events' = Append(events, "text")
      /\ UNCHANGED <<automatic, status, content, listed, doing, result, gaveUp, completed>>
      /\ put \in Nat /\ content \in {Gone} \cup Nat /\ events \in Seq(EventKinds)
      BY DEF PutText, HelperInv, HelperTypes
<1>2. Ending(events') = Ending(events) /\ Pieces(events') = Pieces(events) + 1
      BY <1>1, TextAppended
<1>3. Pieces(events) \in Nat /\ Ending(events) = {} /\ completed = 0
      BY <1>1, PiecesAreFinite DEF HelperInv, NoEndYet
<1>4. HelperTypes'
  <2>1. events' \in Seq(EventKinds) /\ put' \in Nat
        BY <1>1 DEF EventKinds
  <2> QED
        BY <1>1, <2>1 DEF HelperInv, HelperTypes
<1>5. NoEndYet'
      BY <1>1, <1>2 DEF HelperInv, NoEndYet
<1>6. AllIsThere'
      BY <1>1, <1>2, <1>3 DEF HelperInv, AllIsThere, Gone
<1>7. ContextAndRunner' /\ EndIsQueued'
      BY <1>1 DEF HelperInv, ContextAndRunner, EndIsQueued
<1>8. DoneOnce'
      BY <1>1, <1>3 DEF HelperInv, DoneOnce
<1> QED
      BY <1>4, <1>5, <1>6, <1>7, <1>8 DEF HelperInv

(* An end is put into the queue, by the runner or by cancel_helper.         *)
LEMMA EndPut ==
    ASSUME HelperInv, status # "idle", NEW e \in EventKinds \ {"text"},
           events' = Append(events, e),
           UNCHANGED <<automatic, put, content, listed, doing, result, gaveUp, completed>>
    PROVE  /\ Ending(events') = Ending(events) \cup {Len(events) + 1} /\ Ending(events') # {}
           /\ Pieces(events') = Pieces(events) /\ events' \in Seq(EventKinds)
           /\ \A i \in DOMAIN events' :
                  events'[i] = "done" => e = "done" \/ (i \in DOMAIN events /\ events[i] = "done")
<1>1. events \in Seq(EventKinds)
      BY DEF HelperInv, HelperTypes
<1>2. /\ Ending(events') = Ending(events) \cup {Len(events) + 1}
      /\ Pieces(events') = Pieces(events)
      BY <1>1, EndAppended
<1>3. events' \in Seq(EventKinds)
      BY <1>1
<1>4. ASSUME NEW i \in DOMAIN events', events'[i] = "done"
      PROVE  e = "done" \/ (i \in DOMAIN events /\ events[i] = "done")
      BY <1>1, <1>4
<1> QED
      BY <1>2, <1>3, <1>4

LEMMA EndHelperKeeps == ASSUME HelperInv, EndHelper PROVE HelperInv'
<1>1. PICK e \in {"done", "error"} :
          /\ events' = Append(events, e)
          /\ status' = IF e = "done" THEN "ended" ELSE "error"
      BY DEF EndHelper
<1>2. /\ status = "streaming"
      /\ UNCHANGED <<automatic, put, content, listed, doing, result, gaveUp, completed>>
      BY DEF EndHelper
<1>3. /\ Ending(events') # {}
      /\ Pieces(events') = Pieces(events) /\ events' \in Seq(EventKinds)
      BY <1>1, <1>2, EndPut DEF EventKinds
<1>4. Ending(events) = {} /\ completed = 0 /\ events \in Seq(EventKinds)
      BY <1>2 DEF HelperInv, NoEndYet, HelperTypes
<1>5. status' \in {"ended", "error"} /\ (status' = "ended" => IsDone(events'))
      BY <1>1, <1>4, FirstIsDone
<1>6. HelperTypes'
      BY <1>2, <1>3, <1>5 DEF HelperInv, HelperTypes
<1>7. NoEndYet'
      BY <1>5 DEF NoEndYet
<1>8. AllIsThere'
      BY <1>2, <1>3, <1>5 DEF HelperInv, AllIsThere
<1>9. ContextAndRunner'
      BY <1>2, <1>5 DEF HelperInv, ContextAndRunner
<1>10. DoneOnce'
      BY <1>2, <1>4 DEF HelperInv, DoneOnce
<1>11. EndIsQueued'
      BY <1>2, <1>3, <1>5 DEF HelperInv, EndIsQueued, ContextAndRunner
<1> QED
      BY <1>6, <1>7, <1>8, <1>9, <1>10, <1>11 DEF HelperInv

LEMMA CancelHelperKeeps == ASSUME HelperInv, CancelHelper PROVE HelperInv'
<1>1. /\ listed /\ status # "idle" /\ status' = "cancelled"
      /\ events' = Append(events, "cancelled")
      /\ UNCHANGED <<automatic, put, content, listed, doing, result, gaveUp, completed>>
      BY DEF CancelHelper
<1>2. /\ Ending(events') # {}
      /\ Pieces(events') = Pieces(events) /\ events' \in Seq(EventKinds)
      /\ \A i \in DOMAIN events' :
             events'[i] = "done" => i \in DOMAIN events /\ events[i] = "done"
      BY <1>1, EndPut DEF EventKinds
<1>3. HelperTypes'
      BY <1>1, <1>2 DEF HelperInv, HelperTypes
<1>4. NoEndYet' /\ ContextAndRunner'
      BY <1>1 DEF HelperInv, NoEndYet, ContextAndRunner
<1>5. AllIsThere'
      BY <1>1, <1>2 DEF HelperInv, AllIsThere
<1>6. DoneOnce'
      BY <1>1, <1>2 DEF HelperInv, DoneOnce
<1>7. EndIsQueued'
      BY <1>1, <1>2 DEF EndIsQueued
<1> QED
      BY <1>3, <1>4, <1>5, <1>6, <1>7 DEF HelperInv

(* Whoever drains the queue has all of it, and what ends the helper drops   *)
(* the context, unless its completion is to do so.                          *)
LEMMA DrainedParts ==
    ASSUME HelperInv, content # Gone, status # "idle",
           NEW d \in Drains, NEW then \in {"idle", "polling"}, Drained(d, then),
           UNCHANGED <<automatic, status, put, result, gaveUp>>
    PROVE  /\ events' = <<>> /\ doing' \in [Drains -> Doings] /\ completed' \in Nat
           /\ content' \in {Gone} \cup Nat
           /\ content' = Gone <=> Ending(events) # {} /\ ~(IsDone(events) /\ automatic)
           /\ content' # Gone => content' = put
           /\ IF IsDone(events) /\ automatic
              THEN completed = 0 /\ completed' = 1
              ELSE /\ completed' = completed
                   /\ \A x \in Drains : doing'[x] = "completing" => doing[x] = "completing"
<1>1. /\ events \in Seq(EventKinds) /\ content \in Nat /\ put \in Nat /\ completed \in Nat
      /\ doing \in [Drains -> Doings] /\ content + Pieces(events) = put
      BY DEF HelperInv, HelperTypes, AllIsThere
<1>2. Pieces(events) \in Nat
      BY <1>1, PiecesAreFinite
<1>3. /\ events' = <<>>
      /\ content' = IF Ending(events) # {} /\ ~(IsDone(events) /\ automatic) THEN Gone
                    ELSE content + Pieces(events)
      BY DEF Drained
<1>4. content + Pieces(events) \in Nat /\ content + Pieces(events) # Gone
      BY <1>1, <1>2 DEF Gone
<1>5. CASE IsDone(events) /\ automatic
  <2>1. doing' = [doing EXCEPT ![d] = "completing"] /\ completed' = completed + 1
        BY <1>5 DEF Drained
  <2>2. \E i \in DOMAIN events : events[i] = "done"
        BY <1>5 DEF IsDone, Ending
  <2>3. completed = 0
        BY <2>2 DEF HelperInv, DoneOnce
  <2> QED
        BY <1>1, <1>3, <1>4, <1>5, <2>1, <2>3 DEF Doings
<1>6. CASE ~(IsDone(events) /\ automatic)
  <2>1. doing' = [doing EXCEPT ![d] = then] /\ completed' = completed
        BY <1>6 DEF Drained
  <2> QED
        BY <1>1, <1>3, <1>4, <1>6, <2>1 DEF Doings
<1> QED
      BY <1>5, <1>6

(* A drain that did not return to a waiter keeps the invariant, once what   *)
(* it says of the runner is known.                                          *)
LEMMA DrainedKeeps ==
    ASSUME HelperInv, content # Gone, listed,
           NEW d \in Drains, NEW then \in {"idle", "polling"}, Drained(d, then),
           UNCHANGED <<automatic, status, put, result, gaveUp>>,
           listed' \in BOOLEAN,
           Ending(events) # {} /\ ~(IsDone(events) /\ automatic) => ~listed',
           ~listed' => status # "streaming"
    PROVE  HelperInv'
<1>1. status # "idle"
      BY DEF HelperInv, NoEndYet
<1>2. /\ events' = <<>> /\ doing' \in [Drains -> Doings] /\ completed' \in Nat
      /\ content' \in {Gone} \cup Nat
      /\ content' = Gone <=> Ending(events) # {} /\ ~(IsDone(events) /\ automatic)
      /\ content' # Gone => content' = put
      /\ IF IsDone(events) /\ automatic
         THEN completed = 0 /\ completed' = 1
         ELSE /\ completed' = completed
              /\ \A x \in Drains : doing'[x] = "completing" => doing[x] = "completing"
      BY <1>1, DrainedParts
<1>3. Ending(events') = {} /\ Pieces(events') = 0 /\ ~IsDone(events')
      BY <1>2, EmptyQueue
<1>4. IsDone(events) => Ending(events) # {}
      BY DEF IsDone
<1>5. HelperTypes'
      BY <1>2 DEF HelperInv, HelperTypes, EventKinds
<1>6. NoEndYet'
      BY <1>1, <1>2, <1>3, <1>4 DEF HelperInv, NoEndYet
<1>7. AllIsThere'
  <2>1. content' # Gone => content' + Pieces(events') = put'
        BY <1>2, <1>3 DEF HelperInv, HelperTypes
  <2> QED
        BY <2>1 DEF HelperInv, AllIsThere
<1>8. ContextAndRunner'
  <2>1. status = "streaming" => content' # Gone
        BY <1>2 DEF HelperInv, NoEndYet
  <2> QED
        BY <1>2, <2>1 DEF ContextAndRunner
<1>9. DoneOnce'
      BY <1>2 DEF HelperInv, DoneOnce
<1>10. EndIsQueued'
  <2>1. status # "streaming" /\ completed = 0 => Ending(events) # {}
        BY DEF HelperInv, EndIsQueued
  <2>2. status # "streaming" /\ completed' = 0 => content' = Gone
        BY <1>2, <2>1
  <2>3. status = "ended" /\ automatic => completed = 1 \/ gaveUp # {} \/ IsDone(events)
        BY DEF HelperInv, EndIsQueued
  <2>4. status = "ended" /\ automatic => completed' = 1 \/ gaveUp # {}
        BY <1>2, <2>3
  <2> QED
        BY <2>2, <2>4 DEF EndIsQueued
<1> QED
      BY <1>5, <1>6, <1>7, <1>8, <1>9, <1>10 DEF HelperInv

LEMMA PumpHelperKeeps == ASSUME HelperInv, PumpHelper PROVE HelperInv'
<1>1. /\ content # Gone /\ listed /\ Drained(Pump, "idle")
      /\ UNCHANGED <<automatic, status, put, result, gaveUp>>
      /\ listed' = (status = "streaming" \/ (IsDone(events) /\ automatic))
      BY DEF PumpHelper
<1>2. status = "streaming" => Ending(events) = {}
      BY DEF HelperInv, NoEndYet
<1>3. /\ listed' \in BOOLEAN /\ (~listed' => status # "streaming")
      /\ Ending(events) # {} /\ ~(IsDone(events) /\ automatic) => ~listed'
      BY <1>1, <1>2
<1> QED
      BY <1>1, <1>3, DrainedKeeps DEF Drains

(* Context and runner are dropped by one who waits, or at the end of the    *)
(* completion.                                                              *)
LEMMA DroppedKeeps ==
    ASSUME HelperInv, status # "idle", content' = Gone, listed' = FALSE,
           status # "streaming" \/ gaveUp' # {},
           status = "ended" /\ automatic => completed = 1 \/ gaveUp' # {},
           UNCHANGED <<automatic, status, put, completed>>,
           events' \in {events, <<>>},
           NEW d \in Drains, doing' = [doing EXCEPT ![d] = doing'[d]],
           doing'[d] \in {"idle", "returned"},
           result' \in [Waiters -> {Gone} \cup Nat],
           \A w \in Waiters : result'[w] \notin {Gone, 0} /\ w \notin gaveUp'
                                  => result'[w] = put /\ status # "streaming"
    PROVE  HelperInv'
<1>1. HelperTypes'
  <2>1. events' \in Seq(EventKinds)
    <3>1. events \in Seq(EventKinds) /\ <<>> \in Seq(EventKinds)
          BY DEF HelperInv, HelperTypes
    <3> QED
          BY <3>1
  <2>2. doing' \in [Drains -> Doings]
        BY DEF HelperInv, HelperTypes, Doings
  <2> QED
        BY <2>1, <2>2 DEF HelperInv, HelperTypes
<1>2. NoEndYet'
  <2>1. Ending(events) = {} => Ending(events') = {}
        BY EmptyQueue
  <2>2. \A x \in Drains : doing'[x] = "completing" => doing[x] = "completing"
        BY DEF HelperInv, HelperTypes
  <2> QED
        BY <2>1, <2>2 DEF HelperInv, NoEndYet
<1>3. AllIsThere' /\ ContextAndRunner'
      BY DEF AllIsThere, ContextAndRunner
<1>4. DoneOnce'
  <2>1. \A x \in Drains : doing'[x] = "completing" => doing[x] = "completing"
        BY DEF HelperInv, HelperTypes
  <2>2. \A i \in DOMAIN events' : events'[i] = "done" => completed = 0
        BY DEF HelperInv, DoneOnce
  <2> QED
        BY <2>1, <2>2 DEF HelperInv, DoneOnce
<1>5. EndIsQueued'
      BY DEF EndIsQueued
<1> QED
      BY <1>1, <1>2, <1>3, <1>4, <1>5 DEF HelperInv

LEMMA PumpCompletesKeeps == ASSUME HelperInv, PumpCompletes PROVE HelperInv'
<1>1. /\ doing[Pump] = "completing" /\ doing' = [doing EXCEPT ![Pump] = "idle"]
      /\ content' = Gone /\ listed' = FALSE /\ Pump \in Drains
      /\ UNCHANGED <<automatic, status, put, events, result, gaveUp, completed>>
      BY DEF PumpCompletes, Drains
<1>2. status \notin {"idle", "streaming"} /\ completed = 1
      BY <1>1 DEF HelperInv, NoEndYet, DoneOnce
<1>3. doing'[Pump] = "idle"
      BY <1>1 DEF HelperInv, HelperTypes
<1>4. result' \in [Waiters -> {Gone} \cup Nat]
      BY <1>1 DEF HelperInv, HelperTypes
<1>5. \A w \in Waiters : result'[w] \notin {Gone, 0} /\ w \notin gaveUp' => result'[w] = put
      BY <1>1 DEF HelperInv, AllIsThere
<1> QED
      BY <1>1, <1>2, <1>3, <1>4, <1>5, DroppedKeeps

LEMMA AwaitKeeps == ASSUME HelperInv, NEW w \in Waiters, Await(w) PROVE HelperInv'
<1>1. /\ doing' = [doing EXCEPT ![w] = "polling"] /\ w \in Drains /\ status # "idle"
      /\ UNCHANGED <<automatic, status, put, events, content, listed, result, gaveUp,
                     completed>>
      BY DEF Await, Drains
<1>2. /\ doing' \in [Drains -> Doings]
      /\ \A x \in Drains : doing'[x] = "completing" => doing[x] = "completing"
      BY <1>1 DEF HelperInv, HelperTypes, Doings
<1>3. HelperTypes'
      BY <1>1, <1>2 DEF HelperInv, HelperTypes
<1>4. NoEndYet' /\ DoneOnce'
      BY <1>1, <1>2 DEF HelperInv, NoEndYet, DoneOnce
<1>5. AllIsThere' /\ ContextAndRunner' /\ EndIsQueued'
      BY <1>1 DEF HelperInv, AllIsThere, ContextAndRunner, EndIsQueued
<1> QED
      BY <1>3, <1>4, <1>5 DEF HelperInv

(* What a waiter returns is right if it timed out, or has nothing, or all.  *)
LEMMA Returned ==
    ASSUME HelperInv, NEW w \in Waiters, NEW n \in Nat,
           result' = [result EXCEPT ![w] = n],
           gaveUp \subseteq gaveUp',
           n = 0 \/ w \in gaveUp' \/ (n = put /\ status # "streaming")
    PROVE  /\ result' \in [Waiters -> {Gone} \cup Nat]
           /\ \A x \in Waiters : result'[x] \notin {Gone, 0} /\ x \notin gaveUp'
                                     => result'[x] = put /\ status # "streaming"
<1>1. result \in [Waiters -> {Gone} \cup Nat]
      BY DEF HelperInv, HelperTypes
<1>2. result' \in [Waiters -> {Gone} \cup Nat]
      BY <1>1
<1>3. ASSUME NEW x \in Waiters, result'[x] \notin {Gone, 0}, x \notin gaveUp'
      PROVE  result'[x] = put /\ status # "streaming"
  <2>1. CASE x = w
        BY <1>1, <1>3, <2>1
  <2>2. CASE x # w
        BY <1>1, <1>3, <2>2 DEF HelperInv, AllIsThere
  <2> QED
        BY <2>1, <2>2
<1> QED
      BY <1>2, <1>3

LEMMA RoundKeeps == ASSUME HelperInv, NEW w \in Waiters, Round(w) PROVE HelperInv'
<1>1. /\ doing[w] = "polling" /\ content # Gone /\ listed /\ w \in Drains
      /\ UNCHANGED <<automatic, status, put, gaveUp>>
      BY DEF Round, Drains
<1>2. status # "idle"
      BY <1>1 DEF HelperInv, NoEndYet
<1>3. CASE status # "streaming" /\ ~(IsDone(events) /\ automatic)
  <2>1. /\ result' = [result EXCEPT ![w] = content + Pieces(events)]
        /\ content' = Gone /\ listed' = FALSE /\ events' = <<>>
        /\ doing' = [doing EXCEPT ![w] = "returned"] /\ completed' = completed
        BY <1>3 DEF Round, Returns
  <2>2. content + Pieces(events) = put /\ put \in Nat
        BY <1>1 DEF HelperInv, AllIsThere, HelperTypes
  <2>3. /\ result' \in [Waiters -> {Gone} \cup Nat]
        /\ \A x \in Waiters : result'[x] \notin {Gone, 0} /\ x \notin gaveUp'
                                  => result'[x] = put /\ status # "streaming"
        BY <1>1, <1>3, <2>1, <2>2, Returned
  <2>4. status = "ended" /\ automatic => completed = 1 \/ gaveUp' # {}
        BY <1>1, <1>3 DEF HelperInv, EndIsQueued
  <2>5. doing'[w] = "returned"
        BY <1>1, <2>1 DEF HelperInv, HelperTypes
  <2> QED
        BY <1>1, <1>2, <1>3, <2>1, <2>3, <2>4, <2>5, DroppedKeeps
<1>4. CASE ~(status # "streaming" /\ ~(IsDone(events) /\ automatic))
  <2>1. Drained(w, "polling") /\ result' = result /\ listed' = listed
        BY <1>4 DEF Round
  <2>2. status = "streaming" => Ending(events) = {}
        BY DEF HelperInv, NoEndYet
  <2>3. ~(Ending(events) # {} /\ ~(IsDone(events) /\ automatic)) /\ listed' \in BOOLEAN
        BY <1>1, <1>4, <2>1, <2>2
  <2> QED
        BY <1>1, <2>1, <2>3, DrainedKeeps
<1> QED
      BY <1>3, <1>4

LEMMA WaiterCompletesKeeps ==
    ASSUME HelperInv, NEW w \in Waiters, WaiterCompletes(w) PROVE HelperInv'
<1>1. /\ doing[w] = "completing" /\ w \in Drains
      /\ result' = [result EXCEPT ![w] = put]
      /\ content' = Gone /\ listed' = FALSE
      /\ doing' = [doing EXCEPT ![w] = "returned"]
      /\ UNCHANGED <<automatic, status, put, events, gaveUp, completed>>
      BY DEF WaiterCompletes, Returns, Drains
<1>2. status \notin {"idle", "streaming"} /\ completed = 1 /\ put \in Nat
      BY <1>1 DEF HelperInv, NoEndYet, DoneOnce, HelperTypes
<1>3. /\ result' \in [Waiters -> {Gone} \cup Nat]
      /\ \A x \in Waiters : result'[x] \notin {Gone, 0} /\ x \notin gaveUp'
                                => result'[x] = put /\ status # "streaming"
      BY <1>1, <1>2, Returned
<1>4. doing'[w] = "returned"
      BY <1>1 DEF HelperInv, HelperTypes
<1> QED
      BY <1>1, <1>2, <1>3, <1>4, DroppedKeeps

LEMMA NoRunnerKeeps ==
    ASSUME HelperInv, NEW w \in Waiters, NoRunner(w) PROVE HelperInv'
<1>1. /\ doing[w] = "polling" /\ content # Gone /\ ~listed /\ w \in Drains
      /\ result' = [result EXCEPT ![w] = content]
      /\ content' = Gone /\ listed' = FALSE
      /\ doing' = [doing EXCEPT ![w] = "returned"]
      /\ UNCHANGED <<automatic, status, put, events, gaveUp, completed>>
      BY DEF NoRunner, Returns, Drains
<1>2. status \notin {"idle", "streaming"} /\ events = <<>>
      BY <1>1 DEF HelperInv, ContextAndRunner, NoEndYet
<1>3. content = put /\ content \in Nat /\ ~IsDone(events)
      BY <1>1, <1>2, EmptyQueue DEF HelperInv, AllIsThere, HelperTypes
<1>4. /\ result' \in [Waiters -> {Gone} \cup Nat]
      /\ \A x \in Waiters : result'[x] \notin {Gone, 0} /\ x \notin gaveUp'
                                => result'[x] = put /\ status # "streaming"
      BY <1>1, <1>2, <1>3, Returned
<1>5. doing'[w] = "returned"
      BY <1>1 DEF HelperInv, HelperTypes
<1>6. status = "ended" /\ automatic => completed = 1 \/ gaveUp' # {}
      BY <1>1, <1>3 DEF HelperInv, EndIsQueued
<1> QED
      BY <1>1, <1>2, <1>4, <1>5, <1>6, DroppedKeeps

LEMMA NoContextKeeps ==
    ASSUME HelperInv, NEW w \in Waiters, NoContext(w) PROVE HelperInv'
<1>1. /\ content = Gone /\ w \in Drains /\ doing[w] = "polling"
      /\ result' = [result EXCEPT ![w] = 0]
      /\ doing' = [doing EXCEPT ![w] = "returned"]
      /\ UNCHANGED <<automatic, status, put, events, content, listed, gaveUp, completed>>
      BY DEF NoContext, Drains
<1>2. listed' = FALSE
      BY <1>1 DEF HelperInv, ContextAndRunner, HelperTypes
<1>3. /\ result' \in [Waiters -> {Gone} \cup Nat]
      /\ \A x \in Waiters : result'[x] \notin {Gone, 0} /\ x \notin gaveUp'
                                => result'[x] = put /\ status # "streaming"
      BY <1>1, Returned
<1>4. doing'[w] = "returned"
      BY <1>1 DEF HelperInv, HelperTypes
<1>5. /\ status = "ended" /\ automatic => completed = 1 \/ gaveUp' # {}
      /\ status # "streaming" \/ gaveUp' # {}
      BY <1>1 DEF HelperInv, EndIsQueued, ContextAndRunner
<1>6. status # "idle"
      BY <1>1 DEF HelperInv, NoEndYet
<1> QED
      BY <1>1, <1>2, <1>3, <1>4, <1>5, <1>6, DroppedKeeps

LEMMA TimeOutKeeps ==
    ASSUME HelperInv, NEW w \in Waiters, TimeOut(w) PROVE HelperInv'
<1> DEFINE n == IF content = Gone THEN 0 ELSE content
<1>1. /\ doing[w] = "polling" /\ w \in Drains
      /\ result' = [result EXCEPT ![w] = n]
      /\ content' = Gone /\ listed' = FALSE
      /\ doing' = [doing EXCEPT ![w] = "returned"]
      /\ gaveUp' = gaveUp \cup {w}
      /\ UNCHANGED <<automatic, status, put, events, completed>>
      BY DEF TimeOut, Returns, Drains
<1>2. n \in Nat
      BY DEF HelperInv, HelperTypes
<1> HIDE DEF n
<1>3. /\ result' \in [Waiters -> {Gone} \cup Nat]
      /\ \A x \in Waiters : result'[x] \notin {Gone, 0} /\ x \notin gaveUp'
                                => result'[x] = put /\ status # "streaming"
      BY <1>1, <1>2, Returned
<1>4. doing'[w] = "returned"
      BY <1>1 DEF HelperInv, HelperTypes
<1>5. status # "idle"
      BY <1>1 DEF HelperInv, NoEndYet
<1>6. gaveUp' # {}
      BY <1>1
<1> QED
      BY <1>1, <1>3, <1>4, <1>5, <1>6, DroppedKeeps

LEMMA HelperUnchanged == ASSUME HelperInv, UNCHANGED helperVars PROVE HelperInv'
<1>1. UNCHANGED <<automatic, status, put, events, content, listed, doing, result, gaveUp,
                  completed>>
      BY DEF helperVars
<1>2. HelperTypes' /\ NoEndYet' /\ AllIsThere'
      BY <1>1 DEF HelperInv, HelperTypes, NoEndYet, AllIsThere
<1>3. ContextAndRunner' /\ DoneOnce' /\ EndIsQueued'
      BY <1>1 DEF HelperInv, ContextAndRunner, DoneOnce, EndIsQueued
<1> QED
      BY <1>2, <1>3 DEF HelperInv

LEMMA HelperInvHolds == HelperSpec => []HelperInv
<1>1. HelperInv /\ [HelperNext]_helperVars => HelperInv'
  <2> SUFFICES ASSUME HelperInv, [HelperNext]_helperVars PROVE HelperInv'
      OBVIOUS
  <2>1. CASE StartHelper
        BY <2>1, StartHelperKeeps
  <2>2. CASE PutText
        BY <2>2, PutTextKeeps
  <2>3. CASE EndHelper
        BY <2>3, EndHelperKeeps
  <2>4. CASE CancelHelper
        BY <2>4, CancelHelperKeeps
  <2>5. CASE PumpHelper
        BY <2>5, PumpHelperKeeps
  <2>6. CASE PumpCompletes
        BY <2>6, PumpCompletesKeeps
  <2>7. ASSUME NEW w \in Waiters,
               \/ Await(w) \/ Round(w) \/ WaiterCompletes(w) \/ NoContext(w)
               \/ NoRunner(w) \/ TimeOut(w)
        PROVE  HelperInv'
        BY <2>7, AwaitKeeps, RoundKeeps, WaiterCompletesKeeps, NoContextKeeps, NoRunnerKeeps,
           TimeOutKeeps
  <2>8. CASE UNCHANGED helperVars
        BY <2>8, HelperUnchanged
  <2> QED
        BY <2>1, <2>2, <2>3, <2>4, <2>5, <2>6, <2>7, <2>8 DEF HelperNext
<1> QED
      BY <1>1, HelperInitially, PTL DEF HelperSpec

(* However many clients await a helper beside the pump, time out, and cancel *)
(* it, and wherever what they drain is divided between them: no waiter takes *)
(* a part of the result for the whole, the completion runs once, and neither *)
(* context nor runner is left (_pump_helper_events, await_helper_result).    *)
THEOREM ResultCorrect == HelperSpec => []ResultTakenOnce
<1>1. ASSUME HelperInv PROVE ResultTakenOnce
  <2>1. NeverTruncated
        BY <1>1 DEF HelperInv, AllIsThere, NeverTruncated
  <2>2. CompletedOnce
        BY <1>1 DEF HelperInv, DoneOnce, EndIsQueued, ContextAndRunner, CompletedOnce
  <2> QED
        BY <2>1, <2>2 DEF ResultTakenOnce
<1> QED
      BY <1>1, HelperInvHolds, PTL

(***************************************************************************)
(* The turns of a session while they are edited                            *)
(***************************************************************************)
-----------------------------------------------------------------------------
(* What archives hold: the texts in their files, those of archives that     *)
(* were put into them included.  A file holds earlier archives only.        *)

EditKinds == {"text", "thinking", "archive", "review", "unknown"}
EditTurns == [id : Nat, kind : EditKinds, holds : Nat, mode : {"copy", "drop"}]

HeldFrom(fs, held, a) ==
    IF a \in DOMAIN fs THEN UNION {TextsBelow(held, t, a) : t \in ToSet(fs[a].turns)} ELSE {}
HeldUpTo(fs, n, held) == held = [a \in 0..n |-> HeldFrom(fs, held, a)]
HeldIn(fs) == CHOOSE held : HeldUpTo(fs, MaxArchive, held)

LEMMA HeldIs == HeldBy = HeldIn(files)
  BY DEF HeldBy, HeldIn, HeldUpTo, HeldFrom

(* The files: in each a list of turns.                                      *)
AreFiles(fs) == \A a \in DOMAIN fs : fs[a].turns \in Seq(EditTurns)

LEMMA HeldLower ==
    ASSUME NEW fs, AreFiles(fs), NEW a \in Nat, NEW f, NEW g,
           \A b \in Nat : b < a => f[b] = g[b]
    PROVE  HeldFrom(fs, f, a) = HeldFrom(fs, g, a)
  <1>1. CASE a \in DOMAIN fs
    <2>1. ASSUME NEW t \in ToSet(fs[a].turns)
          PROVE  TextsBelow(f, t, a) = TextsBelow(g, t, a)
      <3>1. fs[a].turns \in Seq(EditTurns)
        BY <1>1 DEF AreFiles
      <3>2. t \in EditTurns
        BY <3>1 DEF ToSet
      <3>3. t.holds \in Nat
        BY <3>2 DEF EditTurns
      <3> QED  BY <3>3 DEF TextsBelow
    <2>2. {TextsBelow(f, t, a) : t \in ToSet(fs[a].turns)}
            = {TextsBelow(g, t, a) : t \in ToSet(fs[a].turns)}
      BY <2>1
    <2> QED  BY <1>1, <2>2 DEF HeldFrom
  <1>2. CASE a \notin DOMAIN fs
    BY <1>2 DEF HeldFrom
  <1> QED  BY <1>1, <1>2

LEMMA HeldExists ==
    ASSUME NEW fs, AreFiles(fs)
    PROVE  \A n \in Nat : \E held : HeldUpTo(fs, n, held)
  <1> DEFINE Good == {n \in Nat : \E held : HeldUpTo(fs, n, held)}
  <1>1. 0 \in Good
    <2> DEFINE f == [a \in 0..0 |-> HeldFrom(fs, <<>>, a)]
    <2>1. HeldFrom(fs, f, 0) = HeldFrom(fs, <<>>, 0)
      <3>1. \A b \in Nat : b < 0 => f[b] = <<>>[b]
        OBVIOUS
      <3> HIDE DEF f
      <3> QED  BY <3>1, HeldLower
    <2>2. f = [a \in 0..0 |-> HeldFrom(fs, f, 0)]
      BY <2>1
    <2> HIDE DEF f
    <2>3. HeldUpTo(fs, 0, f)
      BY <2>2 DEF HeldUpTo
    <2> QED  BY <2>3
  <1>2. ASSUME NEW n \in Nat, n \in Good
        PROVE  n + 1 \in Good
    <2>1. PICK f : HeldUpTo(fs, n, f)
      BY <1>2
    <2> DEFINE g == [a \in 0..n + 1 |-> IF a <= n THEN f[a] ELSE HeldFrom(fs, f, a)]
    <2>2. \A a \in 0..n : g[a] = f[a]
      OBVIOUS
    <2>3. g[n + 1] = HeldFrom(fs, f, n + 1)
      OBVIOUS
    <2>4. g = [a \in 0..n + 1 |-> g[a]]
      OBVIOUS
    <2> HIDE DEF g
    <2>5. ASSUME NEW a \in 0..n + 1 PROVE g[a] = HeldFrom(fs, g, a)
      <3>1. a \in Nat /\ \A b \in Nat : b < a => g[b] = f[b]
        BY <2>2
      <3>2. HeldFrom(fs, g, a) = HeldFrom(fs, f, a)
        BY <3>1, HeldLower
      <3>3. g[a] = HeldFrom(fs, f, a)
        <4>1. CASE a \in 0..n
          BY <2>1, <2>2, <4>1 DEF HeldUpTo
        <4>2. CASE a \notin 0..n
          <5>1. a = n + 1
            BY <4>2
          <5> QED  BY <2>3, <5>1
        <4> QED  BY <4>1, <4>2
      <3> QED  BY <3>2, <3>3
    <2>6. HeldUpTo(fs, n + 1, g)
      BY <2>4, <2>5 DEF HeldUpTo
    <2> QED  BY <2>6
  <1> HIDE DEF Good
  <1>3. Nat \subseteq Good
    BY <1>1, <1>2, Induction
  <1> QED  BY <1>3 DEF Good

LEMMA HeldUnfold ==
    ASSUME NEW fs, AreFiles(fs)
    PROVE  \A a \in 0..MaxArchive : HeldIn(fs)[a] = HeldFrom(fs, HeldIn(fs), a)
  <1>1. MaxArchive \in Nat
    BY EditAssumption
  <1>2. \E held : HeldUpTo(fs, MaxArchive, held)
    BY <1>1, HeldExists
  <1>3. HeldUpTo(fs, MaxArchive, HeldIn(fs))
    BY <1>2 DEF HeldIn
  <1> QED  BY <1>3 DEF HeldUpTo

(* A file more changes nothing of those before it.                          *)
LEMMA HeldStays ==
    ASSUME NEW fs, NEW gs, AreFiles(fs), AreFiles(gs), NEW n \in 0..MaxArchive,
           \A a \in 1..n : a \in DOMAIN fs /\ a \in DOMAIN gs /\ fs[a] = gs[a],
           0 \notin DOMAIN fs, 0 \notin DOMAIN gs
    PROVE  \A a \in 0..n : HeldIn(fs)[a] = HeldIn(gs)[a]
  <1> DEFINE f == HeldIn(fs)
  <1> DEFINE g == HeldIn(gs)
  <1> DEFINE Differ == {a \in 0..n : f[a] # g[a]}
  <1>0. MaxArchive \in Nat /\ n \in Nat
    BY EditAssumption
  <1>1. /\ \A a \in 0..MaxArchive : f[a] = HeldFrom(fs, f, a)
        /\ \A a \in 0..MaxArchive : g[a] = HeldFrom(gs, g, a)
    BY HeldUnfold
  <1> HIDE DEF f, g
  <1> SUFFICES ASSUME Differ # {} PROVE FALSE
    BY DEF f, g
  <1>2. Differ \subseteq Nat
    BY <1>0
  <1> HIDE DEF Differ
  <1>3. PICK a \in Differ : \A b \in Differ : a <= b
    BY <1>2, Least
  <1>4. a \in 0..n /\ f[a] # g[a] /\ a \in Nat /\ a \in 0..MaxArchive
    BY <1>0, <1>3 DEF Differ
  <1>5. \A b \in Nat : b < a => f[b] = g[b]
    BY <1>0, <1>3, <1>4 DEF Differ
  <1>6. HeldFrom(fs, f, a) = HeldFrom(fs, g, a)
    BY <1>4, <1>5, HeldLower
  <1>7. HeldFrom(fs, g, a) = HeldFrom(gs, g, a)
    <2>1. CASE a = 0
      BY <2>1 DEF HeldFrom
    <2>2. CASE a # 0
      <3>1. a \in 1..n
        BY <1>0, <1>4, <2>2
      <3> QED  BY <3>1 DEF HeldFrom
    <2> QED  BY <2>1, <2>2
  <1> QED  BY <1>1, <1>4, <1>6, <1>7

-----------------------------------------------------------------------------
(* The texts of a list of turns, for what archives hold                     *)

TextsOf(held, t) == TextsBelow(held, t, MaxArchive + 1)
AllTexts(held, list) == UNION {TextsOf(held, list[i]) : i \in DOMAIN list}
Apart(held, list) ==
    \A i, j \in DOMAIN list : i # j => TextsOf(held, list[i]) \cap TextsOf(held, list[j]) = {}
(* Texts that were said, and archives among the first n.                    *)
Based(list, n, m) ==
    \A i \in DOMAIN list :
        /\ list[i].kind = "text" => list[i].holds \in 1..m
        /\ list[i].kind = "archive" => list[i].holds \in 1..n

LEMMA TextsAre ==
    ASSUME NEW list
    PROVE  Texts(list) = AllTexts(HeldBy, list)
  BY DEF Texts, AllTexts, TextsOf, ToSet

LEMMA HeldIsTexts ==
    ASSUME NEW fs, AreFiles(fs), NEW a \in 1..MaxArchive, a \in DOMAIN fs, NEW m,
           Based(fs[a].turns, a - 1, m)
    PROVE  HeldIn(fs)[a] = AllTexts(HeldIn(fs), fs[a].turns)
  <1> DEFINE f == HeldIn(fs)
  <1> DEFINE list == fs[a].turns
  <1>0. MaxArchive \in Nat
    BY EditAssumption
  <1>1. f[a] = HeldFrom(fs, f, a)
    BY <1>0, HeldUnfold
  <1> HIDE DEF f
  <1>2. list \in Seq(EditTurns)
    BY DEF AreFiles
  <1>3. Based(list, a - 1, m)
    OBVIOUS
  <1>4. f[a] = UNION {TextsBelow(f, t, a) : t \in ToSet(list)}
    BY <1>1 DEF HeldFrom
  <1> HIDE DEF list
  <1>5. ASSUME NEW i \in DOMAIN list
        PROVE  TextsBelow(f, list[i], a) = TextsOf(f, list[i])
    <2>1. list[i].kind = "archive" => list[i].holds \in 1..(a - 1)
      BY <1>3 DEF Based
    <2>2. list[i].kind = "archive" => list[i].holds < a /\ list[i].holds < MaxArchive + 1
      BY <1>0, <2>1
    <2> QED  BY <2>2 DEF TextsOf, TextsBelow
  <1>6. ToSet(list) = {list[i] : i \in DOMAIN list}
    BY DEF ToSet
  <1>7. UNION {TextsBelow(f, t, a) : t \in ToSet(list)} = AllTexts(f, list)
    BY <1>5, <1>6 DEF AllTexts
  <1> QED  BY <1>4, <1>7 DEF f, list

(* Only the archives of a list matter.                                      *)
LEMMA TextsAlike ==
    ASSUME NEW f, NEW g, NEW t \in EditTurns, NEW n \in 0..MaxArchive, NEW m,
           \A a \in 0..n : f[a] = g[a],
           t.kind = "archive" => t.holds \in 1..n
    PROVE  TextsOf(f, t) = TextsOf(g, t)
  BY EditAssumption DEF TextsOf, TextsBelow

-----------------------------------------------------------------------------
(* Lists of turns with their ids, their texts and their archives in order   *)

OwnIds(list, n) ==
    /\ \A i \in DOMAIN list : list[i].id <= n
    /\ \A i, j \in DOMAIN list : list[i].id = list[j].id => i = j
GoodTurns(held, list, files0, said0, minted0) ==
    /\ list \in Seq(EditTurns)
    /\ OwnIds(list, minted0) /\ Based(list, files0, said0) /\ Apart(held, list)

(* Lists that are the same but for what is no text.                         *)
SameTurn(t, u) ==
    t.id = u.id /\ t.kind = u.kind /\ (t.kind # "review" => t.holds = u.holds)
Matching(list, other) ==
    \A i \in DOMAIN list, j \in DOMAIN other :
        list[i].id = other[j].id => SameTurn(list[i], other[j])

LEMMA SameTexts ==
    ASSUME NEW t, NEW u, SameTurn(t, u), NEW held
    PROVE  TextsOf(held, t) = TextsOf(held, u)
  BY DEF SameTurn, TextsOf, TextsBelow

LEMMA Alike ==
    ASSUME NEW held, NEW list, NEW other \in Seq(EditTurns), NEW n, NEW s, NEW m,
           GoodTurns(held, list, n, s, m), DOMAIN other = DOMAIN list,
           \A i \in DOMAIN list : SameTurn(list[i], other[i])
    PROVE  /\ GoodTurns(held, other, n, s, m)
           /\ AllTexts(held, other) = AllTexts(held, list)
  <1>1. \A i \in DOMAIN list : TextsOf(held, list[i]) = TextsOf(held, other[i])
    BY SameTexts
  <1>2. AllTexts(held, other) = AllTexts(held, list)
    BY <1>1 DEF AllTexts
  <1>3. Apart(held, other)
    BY <1>1 DEF Apart, GoodTurns
  <1>4. OwnIds(other, m)
    BY DEF OwnIds, GoodTurns, SameTurn
  <1>5. Based(other, n, s)
    BY DEF Based, GoodTurns, SameTurn
  <1> QED  BY <1>2, <1>3, <1>4, <1>5 DEF GoodTurns

LEMMA MoreSaid ==
    ASSUME NEW held, NEW list, NEW n \in Nat, NEW s \in Nat, NEW m \in Nat,
           GoodTurns(held, list, n, s, m),
           NEW n2 \in Nat, NEW s2 \in Nat, NEW m2 \in Nat, n <= n2, s <= s2, m <= m2
    PROVE  GoodTurns(held, list, n2, s2, m2)
  <1>1. list \in Seq(EditTurns)
    BY DEF GoodTurns
  <1>2. \A i \in DOMAIN list : list[i].id <= m2
    <2> SUFFICES ASSUME NEW i \in DOMAIN list PROVE list[i].id <= m2
      OBVIOUS
    <2>1. list[i] \in EditTurns
      BY <1>1
    <2>2. list[i].id \in Nat /\ list[i].id <= m
      BY <2>1 DEF EditTurns, GoodTurns, OwnIds
    <2> QED  BY <2>2
  <1>3. Based(list, n2, s2)
    BY DEF Based, GoodTurns
  <1> QED  BY <1>1, <1>2, <1>3 DEF GoodTurns, OwnIds

(* A turn at the end.                                                       *)
LEMMA TurnAdded ==
    ASSUME NEW held, NEW list, NEW n \in Nat, NEW s \in Nat, NEW m \in Nat,
           GoodTurns(held, list, n, s, m),
           NEW t \in EditTurns, t.id = m + 1, t.kind # "archive",
           t.kind = "text" => t.holds = s + 1,
           \A a \in 1..n : held[a] \subseteq 1..s, n <= MaxArchive
    PROVE  /\ GoodTurns(held, Append(list, t), n, IF t.kind = "text" THEN s + 1 ELSE s, m + 1)
           /\ AllTexts(held, Append(list, t))
                = AllTexts(held, list) \cup (IF t.kind = "text" THEN {s + 1} ELSE {})
  <1> DEFINE more == Append(list, t)
  <1> DEFINE k == Len(list) + 1
  <1> DEFINE s2 == IF t.kind = "text" THEN s + 1 ELSE s
  <1>1. list \in Seq(EditTurns)
    BY DEF GoodTurns
  <1>2. /\ more \in Seq(EditTurns) /\ Len(more) = k
        /\ \A i \in 1..Len(list) : more[i] = list[i]
        /\ more[k] = t
    BY <1>1, Appended
  <1>3. /\ k \in Nat /\ k >= 1 /\ DOMAIN more = 1..k /\ DOMAIN list = 1..(k - 1)
        /\ \A i \in 1..(k - 1) : more[i] = list[i]
    BY <1>1, <1>2
  <1> HIDE DEF more, k
  <1>4. \A i \in 1..k : i = k \/ i \in 1..(k - 1)
    BY <1>3
  <1>5. TextsOf(held, t) = IF t.kind = "text" THEN {s + 1} ELSE {}
    BY DEF TextsOf, TextsBelow
  <1>6. ASSUME NEW i \in 1..(k - 1)
        PROVE  /\ TextsOf(held, list[i]) \subseteq 1..s
               /\ list[i].id \in Nat /\ list[i].id <= m
    <2>1. list[i] \in EditTurns /\ i \in DOMAIN list
      BY <1>1, <1>3
    <2>2. /\ list[i].kind = "text" => list[i].holds \in 1..s
          /\ list[i].kind = "archive" => list[i].holds \in 1..n
      BY <2>1 DEF GoodTurns, Based
    <2>3. TextsOf(held, list[i]) \subseteq 1..s
      BY <2>2 DEF TextsOf, TextsBelow
    <2> QED  BY <2>1, <2>3 DEF EditTurns, GoodTurns, OwnIds
  <1>7. OwnIds(more, m + 1)
    <2>1. \A i \in 1..k : more[i].id <= m + 1
      BY <1>2, <1>3, <1>4, <1>6
    <2>2. ASSUME NEW i \in 1..k, NEW j \in 1..k, more[i].id = more[j].id PROVE i = j
      <3>1. CASE i \in 1..(k - 1) /\ j \in 1..(k - 1)
        BY <1>3, <2>2, <3>1 DEF GoodTurns, OwnIds
      <3>2. CASE i = k /\ j = k
        BY <3>2
      <3>3. CASE i = k /\ j \in 1..(k - 1)
        <4>1. more[i].id = m + 1 /\ more[j].id <= m /\ more[j].id \in Nat
          BY <1>2, <1>3, <1>6, <3>3
        <4> QED  BY <2>2, <4>1
      <3>4. CASE i \in 1..(k - 1) /\ j = k
        <4>1. more[j].id = m + 1 /\ more[i].id <= m /\ more[i].id \in Nat
          BY <1>2, <1>3, <1>6, <3>4
        <4> QED  BY <2>2, <4>1
      <3> QED  BY <1>4, <3>1, <3>2, <3>3, <3>4
    <2> QED  BY <1>3, <2>1, <2>2 DEF OwnIds
  <1>8. Based(more, n, s2)
    <2> SUFFICES ASSUME NEW i \in 1..k
                 PROVE  /\ more[i].kind = "text" => more[i].holds \in 1..s2
                        /\ more[i].kind = "archive" => more[i].holds \in 1..n
      BY <1>3 DEF Based
    <2>1. CASE i = k
      BY <1>2, <2>1
    <2>2. CASE i \in 1..(k - 1)
      <3>1. /\ list[i].kind = "text" => list[i].holds \in 1..s
            /\ list[i].kind = "archive" => list[i].holds \in 1..n
        BY <1>3, <2>2 DEF GoodTurns, Based
      <3> QED  BY <1>3, <2>2, <3>1
    <2> QED  BY <1>4, <2>1, <2>2
  <1>9. Apart(held, more)
    <2> SUFFICES ASSUME NEW i \in 1..k, NEW j \in 1..k, i # j
                 PROVE  TextsOf(held, more[i]) \cap TextsOf(held, more[j]) = {}
      BY <1>3 DEF Apart
    <2>1. CASE i \in 1..(k - 1) /\ j \in 1..(k - 1)
      BY <1>3, <2>1 DEF GoodTurns, Apart
    <2>2. CASE i = k /\ j \in 1..(k - 1)
      BY <1>2, <1>3, <1>5, <1>6, <2>2
    <2>3. CASE i \in 1..(k - 1) /\ j = k
      BY <1>2, <1>3, <1>5, <1>6, <2>3
    <2> QED  BY <1>4, <2>1, <2>2, <2>3
  <1>10. AllTexts(held, more) = AllTexts(held, list) \cup TextsOf(held, t)
    <2>1. {TextsOf(held, more[i]) : i \in DOMAIN more}
            = {TextsOf(held, list[i]) : i \in DOMAIN list} \cup {TextsOf(held, t)}
      <3>1. k \in DOMAIN more /\ \A i \in DOMAIN list : i \in DOMAIN more
        BY <1>3
      <3> QED  BY <1>2, <1>3, <1>4, <3>1
    <2> QED  BY <2>1 DEF AllTexts
  <1> QED  BY <1>2, <1>5, <1>7, <1>8, <1>9, <1>10 DEF GoodTurns, more

(* Some of the turns.                                                       *)
LEMMA TurnsKept ==
    ASSUME NEW held, NEW list, NEW n, NEW s, NEW m, GoodTurns(held, list, n, s, m), NEW S
    PROVE  GoodTurns(held, Kept(list, S), n, s, m)
           /\ \A i \in DOMAIN Kept(list, S) : \E k \in DOMAIN list : Kept(list, S)[i] = list[k]
  <1> DEFINE some == Kept(list, S)
  <1>1. list \in Seq(EditTurns)
    BY DEF GoodTurns
  <1>2. Unique(list)
    BY DEF Unique, GoodTurns, OwnIds
  <1>3. some \in Seq(EditTurns) /\ Range(some) = Range(list) \cap S /\ Unique(some)
    BY <1>1, <1>2, KeptRange
  <1> HIDE DEF some
  <1>4. \A i \in DOMAIN some : \E k \in DOMAIN list : some[i] = list[k]
    BY <1>3 DEF Range
  <1>5. \A i, j \in DOMAIN some : some[i] = some[j] => i = j
    BY <1>3 DEF Unique
  <1>6. OwnIds(some, m)
    <2>1. \A i \in DOMAIN some : some[i].id <= m
      BY <1>4 DEF GoodTurns, OwnIds
    <2>2. ASSUME NEW i \in DOMAIN some, NEW j \in DOMAIN some, some[i].id = some[j].id
          PROVE  i = j
      <3>1. PICK k \in DOMAIN list : some[i] = list[k]
        BY <1>4
      <3>2. PICK l \in DOMAIN list : some[j] = list[l]
        BY <1>4
      <3>3. k = l
        BY <2>2, <3>1, <3>2 DEF GoodTurns, OwnIds
      <3> QED  BY <1>5, <3>1, <3>2, <3>3
    <2> QED  BY <2>1, <2>2 DEF OwnIds
  <1>7. Based(some, n, s)
    BY <1>4 DEF GoodTurns, Based
  <1>8. Apart(held, some)
    <2> SUFFICES ASSUME NEW i \in DOMAIN some, NEW j \in DOMAIN some, i # j
                 PROVE  TextsOf(held, some[i]) \cap TextsOf(held, some[j]) = {}
      BY DEF Apart
    <2>1. PICK k \in DOMAIN list : some[i] = list[k]
      BY <1>4
    <2>2. PICK l \in DOMAIN list : some[j] = list[l]
      BY <1>4
    <2>3. k # l
      BY <1>5, <2>1, <2>2
    <2> QED  BY <2>1, <2>2, <2>3 DEF GoodTurns, Apart
  <1> QED  BY <1>3, <1>4, <1>6, <1>7, <1>8 DEF GoodTurns, some

(* Some turns in the place of others: what comes from where.                *)
Replaced(list, lo, hi, mid) == SubSeq(list, 1, lo - 1) \o mid \o SubSeq(list, hi + 1, Len(list))
After(list, lo, hi, mid, k) == k - Len(mid) + (hi - lo + 1)

IsReplaced(out, list, lo, hi, mid) ==
    /\ out \in Seq(EditTurns)
    /\ Len(out) = Len(list) - (hi - lo + 1) + Len(mid)
    /\ \A k \in DOMAIN out :
          /\ k < lo => out[k] = list[k]
          /\ k >= lo /\ k < lo + Len(mid) => out[k] = mid[k - lo + 1]
          /\ k >= lo + Len(mid) => out[k] = list[After(list, lo, hi, mid, k)]

LEMMA ReplacedAt ==
    ASSUME NEW list \in Seq(EditTurns), NEW mid \in Seq(EditTurns),
           NEW lo \in DOMAIN list, NEW hi \in DOMAIN list, lo <= hi
    PROVE  IsReplaced(Replaced(list, lo, hi, mid), list, lo, hi, mid)
  <1> DEFINE front == SubSeq(list, 1, lo - 1)
  <1> DEFINE rest == SubSeq(list, hi + 1, Len(list))
  <1> DEFINE N == Len(list)
  <1> DEFINE M == Len(mid)
  <1>1. /\ N \in Nat /\ M \in Nat /\ lo \in 1..N /\ hi \in 1..N
        /\ DOMAIN list = 1..N /\ DOMAIN mid = 1..M
    OBVIOUS
  <1>2. /\ front \in Seq(EditTurns) /\ Len(front) = lo - 1
        /\ \A k \in 1..(lo - 1) : front[k] = list[k]
    OBVIOUS
  <1>3. /\ rest \in Seq(EditTurns) /\ Len(rest) = N - hi
        /\ \A k \in 1..(N - hi) : rest[k] = list[hi + k]
    OBVIOUS
  <1> HIDE DEF front, rest
  <1> DEFINE both == front \o mid
  <1>4. /\ both \in Seq(EditTurns) /\ Len(both) = lo - 1 + M
        /\ \A k \in 1..(lo - 1) : both[k] = list[k]
        /\ \A k \in 1..M : both[lo - 1 + k] = mid[k]
    <2>0. front \in Seq(EditTurns)
      BY <1>2
    <2>1. /\ front \o mid \in Seq(EditTurns) /\ DOMAIN (front \o mid) = 1..Len(front) + Len(mid)
          /\ \A k \in 1..Len(front) : (front \o mid)[k] = front[k]
          /\ \A k \in 1..Len(mid) : (front \o mid)[Len(front) + k] = mid[k]
      BY <2>0, Joined
    <2>4. /\ both \in Seq(EditTurns) /\ DOMAIN both = 1..Len(front) + Len(mid)
          /\ \A k \in 1..Len(front) : both[k] = front[k]
          /\ \A k \in 1..Len(mid) : both[Len(front) + k] = mid[k]
      BY <2>1
    <2> HIDE DEF both
    <2>2. Len(front) + Len(mid) = lo - 1 + M /\ lo - 1 + M \in Nat
      BY <1>1, <1>2
    <2>3. Len(both) = lo - 1 + M
      BY <2>2, <2>4, LengthOf
    <2> QED  BY <1>1, <1>2, <2>3, <2>4
  <1> HIDE DEF both
  <1> DEFINE all == both \o rest
  <1>5. /\ all \in Seq(EditTurns) /\ Len(all) = lo - 1 + M + (N - hi)
        /\ \A k \in 1..(lo - 1 + M) : all[k] = both[k]
        /\ \A k \in 1..(N - hi) : all[lo - 1 + M + k] = rest[k]
    <2>0. both \in Seq(EditTurns) /\ rest \in Seq(EditTurns)
      BY <1>3, <1>4
    <2>1. /\ both \o rest \in Seq(EditTurns) /\ DOMAIN (both \o rest) = 1..Len(both) + Len(rest)
          /\ \A k \in 1..Len(both) : (both \o rest)[k] = both[k]
          /\ \A k \in 1..Len(rest) : (both \o rest)[Len(both) + k] = rest[k]
      BY <2>0, Joined
    <2>4. /\ all \in Seq(EditTurns) /\ DOMAIN all = 1..Len(both) + Len(rest)
          /\ \A k \in 1..Len(both) : all[k] = both[k]
          /\ \A k \in 1..Len(rest) : all[Len(both) + k] = rest[k]
      BY <2>1
    <2> HIDE DEF all
    <2>2. Len(both) + Len(rest) = lo - 1 + M + (N - hi) /\ lo - 1 + M + (N - hi) \in Nat
      BY <1>1, <1>3, <1>4
    <2>3. Len(all) = lo - 1 + M + (N - hi)
      BY <2>2, <2>4, LengthOf
    <2> QED  BY <1>3, <1>4, <2>3, <2>4
  <1> HIDE DEF all
  <1>6. all = Replaced(list, lo, hi, mid)
    BY DEF Replaced, all, both, front, rest
  <1>7. Len(all) = N - (hi - lo + 1) + M /\ DOMAIN all = 1..(lo - 1 + M + (N - hi))
    BY <1>1, <1>5
  <1>8. ASSUME NEW k \in DOMAIN all
        PROVE  /\ k < lo => all[k] = list[k]
               /\ k >= lo /\ k < lo + M => all[k] = mid[k - lo + 1]
               /\ k >= lo + M => all[k] = list[After(list, lo, hi, mid, k)]
    <2>1. k \in Nat /\ k >= 1 /\ k <= lo - 1 + M + (N - hi)
      BY <1>1, <1>7
    <2>2. CASE k < lo
      <3>1. k \in 1..(lo - 1) /\ k \in 1..(lo - 1 + M)
        BY <1>1, <2>1, <2>2
      <3> QED  BY <1>1, <1>4, <1>5, <2>1, <2>2, <3>1
    <2>3. CASE k >= lo /\ k < lo + M
      <3> DEFINE x == k - lo + 1
      <3>1. /\ k \in 1..(lo - 1 + M) /\ x \in 1..M /\ lo - 1 + x = k
            /\ ~(k < lo) /\ ~(k >= lo + M)
        BY <1>1, <2>1, <2>3
      <3>2. all[k] = mid[x]
        <4> HIDE DEF x
        <4>1. all[k] = both[k] /\ both[lo - 1 + x] = mid[x]
          BY <1>4, <1>5, <3>1
        <4> QED  BY <3>1, <4>1
      <3> QED  BY <3>1, <3>2
    <2>4. CASE k >= lo + M
      <3> DEFINE x == k - (lo - 1 + M)
      <3>1. x \in 1..(N - hi) /\ lo - 1 + M + x = k /\ hi + x = After(list, lo, hi, mid, k)
        BY <1>1, <2>1, <2>4 DEF After
      <3>2. all[k] = rest[x] /\ rest[x] = list[hi + x]
        <4> HIDE DEF x
        <4> QED  BY <1>3, <1>5, <3>1
      <3> QED  BY <1>1, <2>1, <2>4, <3>1, <3>2
    <2> QED  BY <1>1, <2>1, <2>2, <2>3, <2>4
  <1>9. IsReplaced(all, list, lo, hi, mid)
    BY <1>5, <1>7, <1>8 DEF IsReplaced
  <1> QED  BY <1>6, <1>9

SpanTexts(held, list, lo, hi) == UNION {TextsOf(held, list[k]) : k \in lo..hi}

(* The turns mid can stand where those from lo to hi do: their ids are new,  *)
(* their texts the same.                                                    *)
Fits(held, list, n, s, m, lo, hi, mid, m2) ==
    /\ lo \in DOMAIN list /\ hi \in DOMAIN list /\ lo <= hi
    /\ mid \in Seq(EditTurns) /\ m2 \in Nat /\ m <= m2
    /\ \A x \in DOMAIN mid : mid[x].id > m /\ mid[x].id <= m2
    /\ \A x, y \in DOMAIN mid : mid[x].id = mid[y].id => x = y
    /\ Based(mid, n, s) /\ Apart(held, mid)
    /\ AllTexts(held, mid) = SpanTexts(held, list, lo, hi)

LEMMA Splices ==
    ASSUME NEW held, NEW list, NEW n \in Nat, NEW s \in Nat, NEW m \in Nat,
           GoodTurns(held, list, n, s, m),
           NEW lo, NEW hi, NEW mid, NEW m2, Fits(held, list, n, s, m, lo, hi, mid, m2)
    PROVE  /\ GoodTurns(held, Replaced(list, lo, hi, mid), n, s, m2)
           /\ AllTexts(held, Replaced(list, lo, hi, mid)) = AllTexts(held, list)
  <1> DEFINE out == Replaced(list, lo, hi, mid)
  <1> DEFINE M == Len(mid)
  <1> DEFINE N == Len(list)
  <1> DEFINE Inner(k) == k >= lo /\ k < lo + M
  <1> DEFINE Old(k) == IF k < lo THEN k ELSE After(list, lo, hi, mid, k)
  <1>18. /\ lo \in DOMAIN list /\ hi \in DOMAIN list /\ lo <= hi
         /\ mid \in Seq(EditTurns) /\ m2 \in Nat /\ m <= m2
    BY DEF Fits
  <1>19. /\ \A x \in DOMAIN mid : mid[x].id > m /\ mid[x].id <= m2
         /\ \A x, y \in DOMAIN mid : mid[x].id = mid[y].id => x = y
         /\ Based(mid, n, s) /\ Apart(held, mid)
         /\ AllTexts(held, mid) = SpanTexts(held, list, lo, hi)
    BY DEF Fits
  <1>0. list \in Seq(EditTurns)
    BY DEF GoodTurns
  <1> USE <1>18
  <1>1. /\ N \in Nat /\ M \in Nat /\ lo \in 1..N /\ hi \in 1..N
        /\ DOMAIN list = 1..N /\ DOMAIN mid = 1..M
    BY <1>0
  <1>16. IsReplaced(out, list, lo, hi, mid)
    BY <1>0, ReplacedAt
  <1>2. /\ out \in Seq(EditTurns) /\ Len(out) = N - (hi - lo + 1) + M
        /\ \A k \in DOMAIN out :
              /\ k < lo => out[k] = list[k]
              /\ k >= lo /\ k < lo + M => out[k] = mid[k - lo + 1]
              /\ k >= lo + M => out[k] = list[After(list, lo, hi, mid, k)]
    BY <1>16 DEF IsReplaced
  <1>3. DOMAIN out = 1..(N - (hi - lo + 1) + M)
    BY <1>2
  <1> HIDE DEF out
  <1>4. ASSUME NEW k \in DOMAIN out
        PROVE  /\ Inner(k) => k - lo + 1 \in DOMAIN mid /\ out[k] = mid[k - lo + 1]
               /\ ~Inner(k) => /\ Old(k) \in DOMAIN list /\ Old(k) \notin lo..hi
                               /\ out[k] = list[Old(k)]
    <2>1. k \in Nat /\ k >= 1 /\ k <= N - (hi - lo + 1) + M
      BY <1>1, <1>3
    <2>2. CASE k < lo
      BY <1>1, <1>2, <2>1, <2>2
    <2>3. CASE k >= lo /\ k < lo + M
      <3>1. Inner(k) /\ k - lo + 1 \in DOMAIN mid
        BY <1>1, <2>1, <2>3
      <3>2. out[k] = mid[k - lo + 1]
        BY <1>2, <2>3
      <3> QED  BY <3>1, <3>2
    <2>4. CASE k >= lo + M
      <3>1. After(list, lo, hi, mid, k) = k - M + (hi - lo + 1)
        BY DEF After
      <3>2. k - M + (hi - lo + 1) \in 1..N /\ k - M + (hi - lo + 1) > hi
            /\ ~(k < lo) /\ ~Inner(k)
        BY <1>1, <2>1, <2>4
      <3>3. out[k] = list[After(list, lo, hi, mid, k)]
        BY <1>2, <2>4
      <3>4. After(list, lo, hi, mid, k) \in DOMAIN list /\ After(list, lo, hi, mid, k) \notin lo..hi
        BY <1>1, <3>1, <3>2
      <3> QED  BY <3>2, <3>3, <3>4
    <2> QED  BY <1>1, <2>1, <2>2, <2>3, <2>4
  <1>5. ASSUME NEW i \in DOMAIN out, NEW j \in DOMAIN out, ~Inner(i), ~Inner(j), Old(i) = Old(j)
        PROVE  i = j
    <2>1. i \in Nat /\ j \in Nat
      BY <1>1, <1>3
    <2>2. \A k \in {i, j} : k < lo \/ k >= lo + M
      BY <1>1, <1>5, <2>1
    <2>3. \A k \in {i, j} : k >= lo + M => Old(k) = k - M + (hi - lo + 1) /\ Old(k) > hi
      BY <1>1, <2>1 DEF After
    <2>4. \A k \in {i, j} : k < lo => Old(k) = k /\ Old(k) < lo
      OBVIOUS
    <2>5. CASE i < lo /\ j < lo
      BY <1>5, <2>4, <2>5
    <2>6. CASE i >= lo + M /\ j >= lo + M
      <3>1. i - M + (hi - lo + 1) = j - M + (hi - lo + 1)
        <4> HIDE DEF Old, Inner
        <4> QED  BY <1>5, <2>3, <2>6
      <3> QED  BY ONLY <1>1, <2>1, <3>1
    <2>7. ASSUME NEW k \in {i, j}, NEW l \in {i, j}, k < lo, l >= lo + M, Old(k) = Old(l)
          PROVE  FALSE
      <3>1. Old(k) < lo /\ Old(l) > hi
        <4> HIDE DEF Old, Inner
        <4> QED  BY <2>3, <2>4, <2>7
      <3>2. ~(lo > hi) /\ Old(k) \in Int
        BY <1>1, <2>1, <2>4, <2>7
      <3> HIDE DEF Old, Inner
      <3> QED  BY <1>1, <2>7, <3>1, <3>2
    <2> HIDE DEF Old, Inner
    <2> QED  BY <1>5, <2>2, <2>5, <2>6, <2>7
  <1>6. ASSUME NEW x \in DOMAIN mid
        PROVE  \E k \in DOMAIN out : Inner(k) /\ out[k] = mid[x]
    <2> DEFINE k == lo - 1 + x
    <2>1. k \in DOMAIN out /\ Inner(k) /\ k - lo + 1 = x
      BY <1>1, <1>3
    <2> HIDE DEF k, Inner
    <2> QED  BY <1>4, <2>1
  <1>7. ASSUME NEW o \in DOMAIN list, o \notin lo..hi
        PROVE  \E k \in DOMAIN out : ~Inner(k) /\ out[k] = list[o]
    <2> DEFINE k == IF o < lo THEN o ELSE o + M - (hi - lo + 1)
    <2>1. k \in DOMAIN out /\ ~Inner(k) /\ Old(k) = o
      <3>1. CASE o < lo
        BY <1>1, <1>3, <3>1
      <3>2. CASE ~(o < lo)
        <4>1. o > hi /\ o \in Nat
          BY <1>1, <1>7, <3>2
        <4>2. k = o + M - (hi - lo + 1) /\ k >= lo + M /\ k \in DOMAIN out
          BY <1>1, <1>3, <3>2, <4>1
        <4>3. Old(k) = k - M + (hi - lo + 1)
          BY <1>1, <4>1, <4>2 DEF After
        <4> QED  BY <1>1, <4>1, <4>2, <4>3
      <3> QED  BY <3>1, <3>2
    <2> HIDE DEF k, Inner, Old
    <2> QED  BY <1>4, <2>1
  <1> HIDE DEF Inner, Old
  <1> DEFINE U == SpanTexts(held, list, lo, hi)
  <1>8. \A x \in DOMAIN mid : TextsOf(held, mid[x]) \subseteq U
    BY <1>19 DEF AllTexts
  <1>17. U = UNION {TextsOf(held, list[k]) : k \in lo..hi}
    BY DEF SpanTexts
  <1>9. \A o \in DOMAIN list : o \notin lo..hi => TextsOf(held, list[o]) \cap U = {}
    <2>1. \A k \in lo..hi : k \in DOMAIN list
      BY <1>1
    <2>2. \A o, k \in DOMAIN list : o # k =>
            TextsOf(held, list[o]) \cap TextsOf(held, list[k]) = {}
      BY DEF GoodTurns, Apart
    <2> QED  BY <1>17, <2>1, <2>2
  <1>10. AllTexts(held, list)
           = U \cup UNION {TextsOf(held, list[o]) : o \in DOMAIN list \ (lo..hi)}
    <2>1. \A k \in lo..hi : k \in DOMAIN list
      BY <1>1
    <2> QED  BY <1>17, <2>1 DEF AllTexts
  <1>11. AllTexts(held, mid) = U
    BY <1>19
  <1> HIDE DEF U
  <1>12. OwnIds(out, m2)
    <2>1. ASSUME NEW o \in DOMAIN list PROVE list[o].id \in Nat /\ list[o].id <= m
      <3>1. list[o] \in EditTurns
        BY <1>0
      <3> QED  BY <3>1 DEF GoodTurns, OwnIds, EditTurns
    <2>2. ASSUME NEW i \in DOMAIN out PROVE out[i].id <= m2
      BY <1>4, <1>19, <2>1
    <2>3. ASSUME NEW x \in DOMAIN mid PROVE mid[x].id \in Nat /\ mid[x].id > m
      <3>1. mid[x] \in EditTurns
        OBVIOUS
      <3> QED  BY <1>19, <3>1 DEF EditTurns
    <2>4. ASSUME NEW i \in DOMAIN out, NEW j \in DOMAIN out, out[i].id = out[j].id PROVE i = j
      <3>1. CASE Inner(i) /\ Inner(j)
        <4>1. i - lo + 1 = j - lo + 1
          BY <1>4, <1>19, <2>4, <3>1
        <4> QED  BY <1>1, <1>3, <4>1
      <3>2. CASE ~Inner(i) /\ ~Inner(j)
        <4>1. Old(i) = Old(j)
          BY <1>4, <2>4, <3>2 DEF GoodTurns, OwnIds
        <4> QED  BY <1>5, <3>2, <4>1
      <3>3. CASE Inner(i) /\ ~Inner(j)
        <4>1. out[i].id > m /\ out[i].id \in Nat /\ out[j].id <= m /\ out[j].id \in Nat
          BY <1>4, <2>1, <2>3, <3>3
        <4> QED  BY <2>4, <4>1
      <3>4. CASE ~Inner(i) /\ Inner(j)
        <4>1. out[j].id > m /\ out[j].id \in Nat /\ out[i].id <= m /\ out[i].id \in Nat
          BY <1>4, <2>1, <2>3, <3>4
        <4> QED  BY <2>4, <4>1
      <3> QED  BY <3>1, <3>2, <3>3, <3>4
    <2> QED  BY <2>2, <2>4 DEF OwnIds
  <1>13. Based(out, n, s)
    BY <1>4, <1>19 DEF Based, GoodTurns
  <1>14. Apart(held, out)
    <2> SUFFICES ASSUME NEW i \in DOMAIN out, NEW j \in DOMAIN out, i # j
                 PROVE  TextsOf(held, out[i]) \cap TextsOf(held, out[j]) = {}
      BY DEF Apart
    <2>1. CASE Inner(i) /\ Inner(j)
      <3>1. i - lo + 1 # j - lo + 1
        BY <1>1, <1>3
      <3> QED  BY <1>4, <1>19, <2>1, <3>1 DEF Apart
    <2>2. CASE ~Inner(i) /\ ~Inner(j)
      <3>1. Old(i) # Old(j)
        BY <1>5, <2>2
      <3> QED  BY <1>4, <2>2, <3>1 DEF GoodTurns, Apart
    <2>3. CASE Inner(i) /\ ~Inner(j)
      BY <1>4, <1>8, <1>9, <2>3
    <2>4. CASE ~Inner(i) /\ Inner(j)
      BY <1>4, <1>8, <1>9, <2>4
    <2> QED  BY <2>1, <2>2, <2>3, <2>4
  <1>15. AllTexts(held, out) = AllTexts(held, list)
    <2>1. ASSUME NEW t \in AllTexts(held, out) PROVE t \in AllTexts(held, list)
      <3>1. PICK k \in DOMAIN out : t \in TextsOf(held, out[k])
        BY DEF AllTexts
      <3>2. CASE Inner(k)
        <4>1. t \in U
          BY <1>4, <1>8, <3>1, <3>2
        <4> QED  BY <1>10, <4>1
      <3>3. CASE ~Inner(k)
        BY <1>4, <3>1, <3>3 DEF AllTexts
      <3> QED  BY <3>2, <3>3
    <2>2. ASSUME NEW t \in U PROVE t \in AllTexts(held, out)
      <3>1. PICK x \in DOMAIN mid : t \in TextsOf(held, mid[x])
        BY <1>11 DEF AllTexts
      <3> QED  BY <1>6, <3>1 DEF AllTexts
    <2>3. ASSUME NEW o \in DOMAIN list \ (lo..hi), NEW t \in TextsOf(held, list[o])
          PROVE  t \in AllTexts(held, out)
      BY <1>7 DEF AllTexts
    <2> QED  BY <1>10, <2>1, <2>2, <2>3
  <1> QED  BY <1>2, <1>12, <1>13, <1>14, <1>15 DEF GoodTurns, out

-----------------------------------------------------------------------------
(* What every edit preserves: of the files fs, the turns ts, the turns on   *)
(* disk ks, s texts said, m ids made, the texts d deleted and u unsaved.    *)

BlockLists == Seq(EditKinds \X Nat)
EditFiles == [turns : Seq(EditTurns), about : BlockLists]

FilesGood(fs, s) ==
    /\ fs \in Seq(EditFiles) /\ Len(fs) <= MaxArchive
    /\ \A a \in DOMAIN fs :
           /\ Based(fs[a].turns, a - 1, s) /\ Apart(HeldIn(fs), fs[a].turns)
           /\ HeldIn(fs)[a] \subseteq 1..s
Core(fs, ts, ks, s, m, d, u) ==
    /\ s \in Nat /\ m \in Nat
    /\ FilesGood(fs, s)
    /\ GoodTurns(HeldIn(fs), ts, Len(fs), s, m)
    /\ GoodTurns(HeldIn(fs), ks, Len(fs), s, m)
    /\ Matching(ts, ks)
    /\ 1..s \subseteq AllTexts(HeldIn(fs), ts) \cup d
    /\ 1..s \subseteq AllTexts(HeldIn(fs), ks) \cup d \cup u

(* The list out is ts but for what is no text.                              *)
IsLike(out, ts) ==
    /\ out \in Seq(EditTurns) /\ DOMAIN out = DOMAIN ts
    /\ \A i \in DOMAIN ts : SameTurn(ts[i], out[i])

LEMMA FilesAre ==
    ASSUME NEW fs, NEW s, FilesGood(fs, s)
    PROVE  /\ AreFiles(fs) /\ Len(fs) \in 0..MaxArchive /\ Len(fs) \in Nat
           /\ DOMAIN fs = 1..Len(fs) /\ 0 \notin DOMAIN fs
           /\ \A a \in 1..Len(fs) : a \in 1..MaxArchive /\ a \in Nat
  <1>1. fs \in Seq(EditFiles) /\ Len(fs) <= MaxArchive /\ MaxArchive \in Nat
    BY EditAssumption DEF FilesGood
  <1>2. AreFiles(fs)
    <2> SUFFICES ASSUME NEW a \in DOMAIN fs PROVE fs[a].turns \in Seq(EditTurns)
      BY DEF AreFiles
    <2>1. fs[a] \in EditFiles
      BY <1>1
    <2> QED  BY <2>1 DEF EditFiles
  <1> QED  BY <1>1, <1>2

LEMMA CoreLater ==
    ASSUME NEW fs, NEW ts, NEW ks, NEW s, NEW m, NEW d, NEW u, Core(fs, ts, ks, s, m, d, u),
           NEW v, u \subseteq v
    PROVE  Core(fs, ts, ks, s, m, d, v)
  BY DEF Core

LEMMA CoreSaved ==
    ASSUME NEW fs, NEW ts, NEW ks, NEW s, NEW m, NEW d, NEW u, Core(fs, ts, ks, s, m, d, u),
           NEW out, IsLike(out, ts), NEW v
    PROVE  Core(fs, ts, out, s, m, d, v)
  <1>1. GoodTurns(HeldIn(fs), ts, Len(fs), s, m)
    BY DEF Core
  <1>2. /\ GoodTurns(HeldIn(fs), out, Len(fs), s, m)
        /\ AllTexts(HeldIn(fs), out) = AllTexts(HeldIn(fs), ts)
    BY <1>1, Alike DEF IsLike
  <1>3. Matching(ts, out)
    BY <1>1 DEF Matching, IsLike, SameTurn, GoodTurns, OwnIds
  <1> QED  BY <1>2, <1>3 DEF Core

LEMMA CoreLike ==
    ASSUME NEW fs, NEW ts, NEW ks, NEW s, NEW m, NEW d, NEW u, Core(fs, ts, ks, s, m, d, u),
           NEW out, IsLike(out, ts)
    PROVE  Core(fs, out, ks, s, m, d, u)
  <1>1. GoodTurns(HeldIn(fs), ts, Len(fs), s, m) /\ Matching(ts, ks)
    BY DEF Core
  <1>2. /\ GoodTurns(HeldIn(fs), out, Len(fs), s, m)
        /\ AllTexts(HeldIn(fs), out) = AllTexts(HeldIn(fs), ts)
    BY <1>1, Alike DEF IsLike
  <1>3. Matching(out, ks)
    BY <1>1 DEF Matching, IsLike, SameTurn
  <1> QED  BY <1>2, <1>3 DEF Core

LEMMA CoreRestarted ==
    ASSUME NEW fs, NEW ts, NEW ks, NEW s, NEW m, NEW d, NEW u, Core(fs, ts, ks, s, m, d, u),
           NEW v
    PROVE  Core(fs, ks, ks, s, m, d \cup u, v)
  <1>1. GoodTurns(HeldIn(fs), ks, Len(fs), s, m)
    BY DEF Core
  <1>2. Matching(ks, ks)
    BY <1>1 DEF Matching, SameTurn, GoodTurns, OwnIds
  <1> QED  BY <1>1, <1>2 DEF Core

LEMMA CoreAdded ==
    ASSUME NEW fs, NEW ts, NEW ks, NEW s, NEW m, NEW d, NEW u, Core(fs, ts, ks, s, m, d, u),
           NEW t \in EditTurns, t.id = m + 1, t.kind # "archive",
           t.kind = "text" => t.holds = s + 1,
           NEW v, u \subseteq v, t.kind = "text" => s + 1 \in v
    PROVE  Core(fs, Append(ts, t), ks, IF t.kind = "text" THEN s + 1 ELSE s, m + 1, d, v)
  <1> DEFINE H == HeldIn(fs)
  <1> DEFINE n == Len(fs)
  <1> DEFINE s2 == IF t.kind = "text" THEN s + 1 ELSE s
  <1> DEFINE more == Append(ts, t)
  <1>1. /\ s \in Nat /\ m \in Nat /\ FilesGood(fs, s)
        /\ GoodTurns(H, ts, n, s, m) /\ GoodTurns(H, ks, n, s, m)
        /\ Matching(ts, ks)
        /\ 1..s \subseteq AllTexts(H, ts) \cup d
        /\ 1..s \subseteq AllTexts(H, ks) \cup d \cup u
    BY DEF Core
  <1>2. n \in Nat /\ n <= MaxArchive /\ DOMAIN fs = 1..n /\ \A a \in 1..n : H[a] \subseteq 1..s
    BY <1>1, FilesAre DEF FilesGood
  <1>3. s2 \in Nat /\ s <= s2 /\ m + 1 \in Nat /\ m <= m + 1 /\ 1..s2 \subseteq 1..s \cup {s + 1}
        /\ (s2 # s => t.kind = "text")
    BY <1>1
  <1> HIDE DEF H, n
  <1>4. /\ GoodTurns(H, more, n, s2, m + 1)
        /\ AllTexts(H, more) = AllTexts(H, ts) \cup (IF t.kind = "text" THEN {s + 1} ELSE {})
    BY <1>1, <1>2, TurnAdded
  <1>5. GoodTurns(H, ks, n, s2, m + 1)
    BY <1>1, <1>2, <1>3, MoreSaid
  <1>6. FilesGood(fs, s2)
    <2>1. ASSUME NEW a \in DOMAIN fs
          PROVE  /\ Based(fs[a].turns, a - 1, s2) /\ Apart(H, fs[a].turns)
                 /\ H[a] \subseteq 1..s2
      <3>1. Based(fs[a].turns, a - 1, s) /\ Apart(H, fs[a].turns) /\ H[a] \subseteq 1..s
        BY <1>1 DEF FilesGood, H
      <3>2. 1..s \subseteq 1..s2
        BY <1>1, <1>3
      <3> HIDE DEF s2
      <3> QED  BY <3>1, <3>2 DEF Based
    <2> QED  BY <1>1, <2>1 DEF FilesGood, H
  <1>7. Matching(more, ks)
    <2>1. ts \in Seq(EditTurns) /\ ks \in Seq(EditTurns)
      BY <1>1 DEF GoodTurns
    <2>2. ASSUME NEW j \in DOMAIN ks PROVE ks[j].id # m + 1
      <3>1. ks[j] \in EditTurns
        BY <2>1
      <3>2. ks[j].id \in Nat /\ ks[j].id <= m
        BY <1>1, <3>1 DEF GoodTurns, OwnIds, EditTurns
      <3> QED  BY <1>1, <3>2
    <2>3. \A i \in DOMAIN more : (i \in DOMAIN ts /\ more[i] = ts[i]) \/ more[i] = t
      BY <2>1
    <2> HIDE DEF more
    <2> QED  BY <1>1, <2>2, <2>3 DEF Matching
  <1>8. 1..s2 \subseteq AllTexts(H, more) \cup d
    <2> HIDE DEF more
    <2> QED  BY <1>1, <1>3, <1>4
  <1>9. 1..s2 \subseteq AllTexts(H, ks) \cup d \cup v
    BY <1>1, <1>3
  <1> QED  BY <1>3, <1>4, <1>5, <1>6, <1>7, <1>8, <1>9 DEF Core, H, n

LEMMA CoreDeleted ==
    ASSUME NEW fs, NEW ts, NEW ks, NEW s, NEW m, NEW d, NEW u, Core(fs, ts, ks, s, m, d, u),
           NEW S, NEW e,
           e = d \cup (AllTexts(HeldIn(fs), ts) \ AllTexts(HeldIn(fs), Kept(ts, S)))
    PROVE  Core(fs, Kept(ts, S), ks, s, m, e, u)
  <1> DEFINE some == Kept(ts, S)
  <1>1. GoodTurns(HeldIn(fs), ts, Len(fs), s, m) /\ Matching(ts, ks)
    BY DEF Core
  <1>2. /\ GoodTurns(HeldIn(fs), some, Len(fs), s, m)
        /\ \A i \in DOMAIN some : \E k \in DOMAIN ts : some[i] = ts[k]
    BY <1>1, TurnsKept
  <1> HIDE DEF some
  <1>3. Matching(some, ks)
    BY <1>1, <1>2 DEF Matching
  <1>4. e = d \cup (AllTexts(HeldIn(fs), ts) \ AllTexts(HeldIn(fs), some))
    BY DEF some
  <1>5. Core(fs, some, ks, s, m, e, u)
    BY <1>2, <1>3, <1>4 DEF Core
  <1> QED  BY <1>5 DEF some

(* Turns come and go between others, with the same texts.                   *)
LEMMA CoreSpliced ==
    ASSUME NEW fs, NEW ts, NEW ks, NEW s, NEW m, NEW d, NEW u, Core(fs, ts, ks, s, m, d, u),
           NEW lo, NEW hi, NEW mid, NEW m2,
           Fits(HeldIn(fs), ts, Len(fs), s, m, lo, hi, mid, m2)
    PROVE  Core(fs, Replaced(ts, lo, hi, mid), ks, s, m2, d, u)
  <1> DEFINE H == HeldIn(fs)
  <1> DEFINE n == Len(fs)
  <1> DEFINE out == Replaced(ts, lo, hi, mid)
  <1>1. /\ s \in Nat /\ m \in Nat /\ FilesGood(fs, s)
        /\ GoodTurns(H, ts, n, s, m) /\ GoodTurns(H, ks, n, s, m)
        /\ Matching(ts, ks)
    BY DEF Core
  <1>2. n \in Nat
    BY <1>1, FilesAre
  <1> HIDE DEF H, n
  <1>3. Fits(H, ts, n, s, m, lo, hi, mid, m2)
    BY DEF H, n
  <1>7. /\ lo \in DOMAIN ts /\ hi \in DOMAIN ts /\ lo <= hi
        /\ mid \in Seq(EditTurns) /\ m2 \in Nat /\ m <= m2
        /\ \A x \in DOMAIN mid : mid[x].id > m /\ mid[x].id <= m2
    BY <1>3 DEF Fits
  <1>4. /\ GoodTurns(H, out, n, s, m2) /\ AllTexts(H, out) = AllTexts(H, ts)
    BY <1>1, <1>2, <1>3, Splices
  <1>5. GoodTurns(H, ks, n, s, m2)
    BY <1>1, <1>2, <1>7, MoreSaid
  <1>6. Matching(out, ks)
    <2>1. ts \in Seq(EditTurns) /\ ks \in Seq(EditTurns)
      BY <1>1 DEF GoodTurns
    <2>2. IsReplaced(out, ts, lo, hi, mid)
      BY <1>7, <2>1, ReplacedAt
    <2> HIDE DEF out
    <2>3. ASSUME NEW i \in DOMAIN out
          PROVE  (\E k \in DOMAIN ts : out[i] = ts[k]) \/ (\E x \in DOMAIN mid : out[i] = mid[x])
      <3> DEFINE N == Len(ts)
      <3> DEFINE M == Len(mid)
      <3>1. N \in Nat /\ M \in Nat /\ lo \in 1..N /\ hi \in 1..N /\ DOMAIN ts = 1..N
            /\ DOMAIN mid = 1..M
        BY <1>7, <2>1
      <3>2. i \in Nat /\ i >= 1 /\ i <= N - (hi - lo + 1) + M
        BY <2>2, <3>1 DEF IsReplaced
      <3>3. CASE i < lo
        <4>1. i \in DOMAIN ts /\ out[i] = ts[i]
          BY <2>2, <3>1, <3>2, <3>3 DEF IsReplaced
        <4> QED  BY <4>1
      <3>4. CASE i >= lo /\ i < lo + M
        <4>1. i - lo + 1 \in DOMAIN mid /\ out[i] = mid[i - lo + 1]
          BY <2>2, <3>1, <3>2, <3>4 DEF IsReplaced
        <4> QED  BY <4>1
      <3>5. CASE i >= lo + M
        <4>1. After(ts, lo, hi, mid, i) = i - M + (hi - lo + 1)
          BY DEF After
        <4>2. After(ts, lo, hi, mid, i) \in DOMAIN ts
          BY <3>1, <3>2, <3>5, <4>1
        <4>3. out[i] = ts[After(ts, lo, hi, mid, i)]
          BY <2>2, <3>1, <3>2, <3>5 DEF IsReplaced
        <4> QED  BY <4>2, <4>3
      <3> QED  BY <3>1, <3>2, <3>3, <3>4, <3>5
    <2>4. ASSUME NEW j \in DOMAIN ks, NEW x \in DOMAIN mid PROVE mid[x].id # ks[j].id
      <3>1. ks[j] \in EditTurns /\ mid[x] \in EditTurns
        BY <1>7, <2>1
      <3>2. ks[j].id \in Nat /\ ks[j].id <= m /\ mid[x].id \in Nat /\ mid[x].id > m
        BY <1>1, <1>7, <3>1 DEF GoodTurns, OwnIds, EditTurns
      <3> QED  BY <1>1, <3>2
    <2> QED  BY <1>1, <2>3, <2>4 DEF Matching
  <1> QED  BY <1>1, <1>4, <1>5, <1>6, <1>7 DEF Core, H, n

-----------------------------------------------------------------------------
(* A file more, and what stands for it                                      *)

LEMMA ListAlike ==
    ASSUME NEW f, NEW g, NEW list \in Seq(EditTurns), NEW n \in 0..MaxArchive, NEW m,
           \A a \in 0..n : f[a] = g[a], Based(list, n, m)
    PROVE  /\ AllTexts(f, list) = AllTexts(g, list)
           /\ Apart(f, list) => Apart(g, list)
  <1>1. ASSUME NEW i \in DOMAIN list PROVE TextsOf(f, list[i]) = TextsOf(g, list[i])
    <2>1. list[i] \in EditTurns
      OBVIOUS
    <2>2. list[i].kind = "archive" => list[i].holds \in 1..n
      BY DEF Based
    <2> QED  BY <2>1, <2>2, TextsAlike
  <1> QED  BY <1>1 DEF AllTexts, Apart

(* Some turns in a row.                                                     *)
LEMMA CutOf ==
    ASSUME NEW held, NEW list, NEW n \in Nat, NEW s \in Nat, NEW m \in Nat,
           GoodTurns(held, list, n, s, m),
           NEW lo \in DOMAIN list, NEW hi \in DOMAIN list, lo <= hi,
           \A a \in 1..n : held[a] \subseteq 1..s, n <= MaxArchive
    PROVE  /\ SubSeq(list, lo, hi) \in Seq(EditTurns)
           /\ Based(SubSeq(list, lo, hi), n, s) /\ Apart(held, SubSeq(list, lo, hi))
           /\ AllTexts(held, SubSeq(list, lo, hi)) = SpanTexts(held, list, lo, hi)
           /\ AllTexts(held, SubSeq(list, lo, hi)) \subseteq 1..s
  <1> DEFINE cut == SubSeq(list, lo, hi)
  <1> DEFINE L == hi - lo + 1
  <1>1. list \in Seq(EditTurns)
    BY DEF GoodTurns
  <1>2. lo \in Nat /\ hi \in Nat /\ lo >= 1 /\ hi <= Len(list) /\ L \in Nat /\ Len(list) \in Nat
        /\ DOMAIN list = 1..Len(list)
    BY <1>1
  <1>3. cut \in Seq(EditTurns) /\ DOMAIN cut = 1..L
        /\ \A k \in 1..L : cut[k] = list[lo + k - 1]
    BY <1>1, <1>2
  <1>4. \A k \in 1..L : lo + k - 1 \in DOMAIN list /\ lo + k - 1 \in lo..hi
    BY <1>2
  <1>5. \A o \in lo..hi : o - lo + 1 \in 1..L /\ lo + (o - lo + 1) - 1 = o
    BY <1>2
  <1>9. \A k, l \in 1..L : k # l => lo + k - 1 # lo + l - 1
    BY <1>2
  <1> HIDE DEF cut, L
  <1>6. Based(cut, n, s)
    BY <1>3, <1>4 DEF GoodTurns, Based
  <1>7. Apart(held, cut)
    BY <1>3, <1>4, <1>9 DEF GoodTurns, Apart
  <1>8. AllTexts(held, cut) = SpanTexts(held, list, lo, hi)
    <2>1. ASSUME NEW x, x \in AllTexts(held, cut) PROVE x \in SpanTexts(held, list, lo, hi)
      <3>1. PICK k \in 1..L : x \in TextsOf(held, cut[k])
        BY <1>3, <2>1 DEF AllTexts
      <3>2. lo + k - 1 \in lo..hi /\ x \in TextsOf(held, list[lo + k - 1])
        BY <1>3, <1>4, <3>1
      <3> QED  BY <3>2 DEF SpanTexts
    <2>2. ASSUME NEW x, x \in SpanTexts(held, list, lo, hi) PROVE x \in AllTexts(held, cut)
      <3>1. PICK o \in lo..hi : x \in TextsOf(held, list[o])
        BY <2>2 DEF SpanTexts
      <3>2. o - lo + 1 \in DOMAIN cut /\ cut[o - lo + 1] = list[o]
        BY <1>3, <1>5
      <3> QED  BY <3>1, <3>2 DEF AllTexts
    <2> QED  BY <2>1, <2>2
  <1>10. AllTexts(held, cut) \subseteq 1..s
    <2>1. ASSUME NEW k \in DOMAIN cut PROVE TextsOf(held, cut[k]) \subseteq 1..s
      <3>1. /\ cut[k].kind = "text" => cut[k].holds \in 1..s
            /\ cut[k].kind = "archive" => cut[k].holds \in 1..n
        BY <1>6 DEF Based
      <3> QED  BY <3>1 DEF TextsOf, TextsBelow
    <2> QED  BY <2>1 DEF AllTexts
  <1> QED  BY <1>3, <1>6, <1>7, <1>8, <1>10 DEF cut

IsFiled(gs, fs, cut) ==
    /\ Len(gs) = Len(fs) + 1
    /\ \A a \in 0..Len(fs) : HeldIn(gs)[a] = HeldIn(fs)[a]
    /\ HeldIn(gs)[Len(fs) + 1] = AllTexts(HeldIn(fs), cut)

LEMMA Filed ==
    ASSUME NEW fs, NEW s \in Nat, FilesGood(fs, s), Len(fs) < MaxArchive,
           NEW cut \in Seq(EditTurns), NEW b \in BlockLists,
           Based(cut, Len(fs), s), Apart(HeldIn(fs), cut), AllTexts(HeldIn(fs), cut) \subseteq 1..s
    PROVE  /\ FilesGood(Append(fs, [turns |-> cut, about |-> b]), s)
           /\ IsFiled(Append(fs, [turns |-> cut, about |-> b]), fs, cut)
  <1> DEFINE file == [turns |-> cut, about |-> b]
  <1> DEFINE gs == Append(fs, file)
  <1> DEFINE n == Len(fs)
  <1>0. MaxArchive \in Nat
    BY EditAssumption
  <1>1. fs \in Seq(EditFiles) /\ AreFiles(fs) /\ n \in Nat /\ n < MaxArchive
        /\ DOMAIN fs = 1..n /\ 0 \notin DOMAIN fs
    BY FilesAre DEF FilesGood
  <1>2. file \in EditFiles /\ file.turns = cut
    BY DEF EditFiles
  <1> HIDE DEF file
  <1>3. gs \in Seq(EditFiles) /\ Len(gs) = n + 1 /\ (\A a \in 1..n : gs[a] = fs[a])
        /\ gs[n + 1] = file /\ DOMAIN gs = 1..n + 1
    BY <1>1, <1>2
  <1> HIDE DEF gs
  <1>4. AreFiles(gs)
    <2> SUFFICES ASSUME NEW a \in DOMAIN gs PROVE gs[a].turns \in Seq(EditTurns)
      BY DEF AreFiles
    <2>1. gs[a] \in EditFiles
      BY <1>3
    <2> QED  BY <2>1 DEF EditFiles
  <1>5. \A a \in 0..n : HeldIn(gs)[a] = HeldIn(fs)[a]
    <2>1. n \in 0..MaxArchive
      BY <1>0, <1>1
    <2>2. \A a \in 1..n : a \in DOMAIN fs /\ a \in DOMAIN gs /\ fs[a] = gs[a]
      BY <1>1, <1>3
    <2>3. 0 \notin DOMAIN gs
      BY <1>1, <1>3
    <2>4. \A a \in 0..n : HeldIn(fs)[a] = HeldIn(gs)[a]
      BY <1>1, <1>4, <2>1, <2>2, <2>3, HeldStays
    <2> QED  BY <2>4
  <1> DEFINE H == HeldIn(fs)
  <1> DEFINE G == HeldIn(gs)
  <1>6. \A a \in 0..n : G[a] = H[a] /\ H[a] = G[a]
    BY <1>5
  <1>7. G[n + 1] = AllTexts(G, cut)
    <2>1. n + 1 \in 1..MaxArchive /\ n + 1 \in DOMAIN gs /\ gs[n + 1].turns = cut /\ n + 1 - 1 = n
      BY <1>0, <1>1, <1>2, <1>3
    <2>2. Based(gs[n + 1].turns, n + 1 - 1, s)
      BY <2>1
    <2>3. HeldIn(gs)[n + 1] = AllTexts(HeldIn(gs), gs[n + 1].turns)
      BY <1>4, <2>1, <2>2, HeldIsTexts
    <2> QED  BY <2>1, <2>3
  <1> HIDE DEF H, G
  <1>8. n \in 0..MaxArchive
    BY <1>0, <1>1
  <1>9. Based(cut, n, s) /\ Apart(H, cut) /\ AllTexts(H, cut) \subseteq 1..s
    BY DEF H
  <1>10. AllTexts(H, cut) = AllTexts(G, cut) /\ Apart(G, cut)
    <2> HIDE DEF n
    <2> QED  BY <1>6, <1>8, <1>9, ListAlike
  <1>11. ASSUME NEW a \in DOMAIN gs
         PROVE  /\ Based(gs[a].turns, a - 1, s) /\ Apart(G, gs[a].turns) /\ G[a] \subseteq 1..s
    <2>1. CASE a = n + 1
      <3>1. a - 1 = n
        BY <1>1, <2>1
      <3> QED  BY <1>2, <1>3, <1>7, <1>9, <1>10, <2>1, <3>1
    <2>2. CASE a # n + 1
      <3>1. a \in 1..n /\ a \in 0..n /\ a - 1 \in 0..MaxArchive /\ a \in DOMAIN fs
            /\ \A x \in 0..(a - 1) : x \in 0..n
        BY <1>0, <1>1, <1>3, <2>2
      <3>2. Based(fs[a].turns, a - 1, s) /\ Apart(H, fs[a].turns) /\ H[a] \subseteq 1..s
        BY <3>1 DEF FilesGood, H
      <3>3. fs[a].turns \in Seq(EditTurns)
        BY <1>1, <3>1 DEF AreFiles
      <3>4. \A x \in 0..(a - 1) : H[x] = G[x]
        BY <1>6, <3>1
      <3>5. Apart(G, fs[a].turns)
        <4> DEFINE l == fs[a].turns
        <4> DEFINE k == a - 1
        <4>1. l \in Seq(EditTurns) /\ k \in 0..MaxArchive /\ Based(l, k, s) /\ Apart(H, l)
              /\ \A x \in 0..k : H[x] = G[x]
          BY <3>1, <3>2, <3>3, <3>4
        <4> HIDE DEF l, k
        <4>2. Apart(G, l)
          BY <4>1, ListAlike
        <4> QED  BY <4>2 DEF l
      <3> QED  BY <1>3, <1>6, <3>1, <3>2, <3>5
    <2> QED  BY <2>1, <2>2
  <1>12. n + 1 <= MaxArchive
    BY <1>0, <1>1
  <1>13. FilesGood(gs, s)
    BY <1>3, <1>11, <1>12 DEF FilesGood, G
  <1>14. IsFiled(gs, fs, cut)
    BY <1>3, <1>5, <1>7, <1>10 DEF IsFiled, G, H
  <1> QED  BY <1>13, <1>14 DEF gs, file

(* The same lists, with a file more.                                        *)
LEMMA GoodFiled ==
    ASSUME NEW fs, NEW gs, NEW cut, IsFiled(gs, fs, cut), NEW s \in Nat, NEW m \in Nat,
           Len(fs) \in Nat, Len(fs) <= MaxArchive,
           NEW list, GoodTurns(HeldIn(fs), list, Len(fs), s, m)
    PROVE  /\ GoodTurns(HeldIn(gs), list, Len(gs), s, m)
           /\ AllTexts(HeldIn(gs), list) = AllTexts(HeldIn(fs), list)
  <1> DEFINE H == HeldIn(fs)
  <1> DEFINE G == HeldIn(gs)
  <1> DEFINE n == Len(fs)
  <1>1. n \in 0..MaxArchive /\ n \in Nat /\ n + 1 \in Nat /\ n <= n + 1 /\ Len(gs) = n + 1
    BY EditAssumption DEF IsFiled
  <1>2. \A a \in 0..n : H[a] = G[a]
    BY DEF IsFiled
  <1>3. GoodTurns(H, list, n, s, m)
    OBVIOUS
  <1> HIDE DEF H, G, n
  <1>4. list \in Seq(EditTurns) /\ Based(list, n, s) /\ Apart(H, list) /\ OwnIds(list, m)
    BY <1>3 DEF GoodTurns
  <1>5. AllTexts(H, list) = AllTexts(G, list) /\ Apart(G, list)
    BY <1>1, <1>2, <1>4, ListAlike
  <1>6. GoodTurns(G, list, n, s, m)
    BY <1>4, <1>5 DEF GoodTurns
  <1>7. GoodTurns(G, list, n + 1, s, m)
    BY <1>1, <1>6, MoreSaid
  <1> QED  BY <1>1, <1>5, <1>7 DEF H, G

(* archive: the turns into a file, one turn for them.                       *)
LEMMA CoreArchived ==
    ASSUME NEW fs, NEW ts, NEW ks, NEW s, NEW m, NEW d, NEW u, Core(fs, ts, ks, s, m, d, u),
           Len(fs) < MaxArchive, NEW lo \in DOMAIN ts, NEW hi \in DOMAIN ts, lo <= hi,
           NEW b \in BlockLists
    PROVE  Core(Append(fs, [turns |-> SubSeq(ts, lo, hi), about |-> b]),
                Replaced(ts, lo, hi, <<TurnOf(m + 1, "archive", Len(fs) + 1)>>),
                ks, s, m + 1, d, u)
  <1> DEFINE cut == SubSeq(ts, lo, hi)
  <1> DEFINE gs == Append(fs, [turns |-> cut, about |-> b])
  <1> DEFINE H == HeldIn(fs)
  <1> DEFINE G == HeldIn(gs)
  <1> DEFINE n == Len(fs)
  <1> DEFINE t == TurnOf(m + 1, "archive", n + 1)
  <1>1. /\ s \in Nat /\ m \in Nat /\ FilesGood(fs, s)
        /\ GoodTurns(H, ts, n, s, m) /\ GoodTurns(H, ks, n, s, m)
        /\ Matching(ts, ks)
        /\ 1..s \subseteq AllTexts(H, ts) \cup d
        /\ 1..s \subseteq AllTexts(H, ks) \cup d \cup u
    BY DEF Core
  <1>2. n \in Nat /\ n <= MaxArchive /\ DOMAIN fs = 1..n /\ \A a \in 1..n : H[a] \subseteq 1..s
    BY <1>1, FilesAre DEF FilesGood
  <1>3. /\ cut \in Seq(EditTurns) /\ Based(cut, n, s) /\ Apart(H, cut)
        /\ AllTexts(H, cut) = SpanTexts(H, ts, lo, hi) /\ AllTexts(H, cut) \subseteq 1..s
    <2> HIDE DEF H, n
    <2> QED  BY <1>1, <1>2, CutOf
  <1> HIDE DEF cut
  <1>4. FilesGood(gs, s) /\ IsFiled(gs, fs, cut)
    BY <1>1, <1>3, Filed
  <1> HIDE DEF gs
  <1>5. /\ GoodTurns(G, ts, Len(gs), s, m) /\ AllTexts(G, ts) = AllTexts(H, ts)
        /\ GoodTurns(G, ks, Len(gs), s, m) /\ AllTexts(G, ks) = AllTexts(H, ks)
    BY <1>1, <1>2, <1>4, GoodFiled
  <1>6. Core(gs, ts, ks, s, m, d, u)
    BY <1>1, <1>4, <1>5 DEF Core
  <1>7. Len(gs) = n + 1 /\ G[n + 1] = AllTexts(H, cut) /\ \A a \in 0..n : G[a] = H[a]
    BY <1>4 DEF IsFiled
  <1>8. ts \in Seq(EditTurns)
    BY <1>1 DEF GoodTurns
  <1>9. SpanTexts(G, ts, lo, hi) = SpanTexts(H, ts, lo, hi)
    <2>1. ASSUME NEW k \in lo..hi PROVE TextsOf(G, ts[k]) = TextsOf(H, ts[k])
      <3>1. k \in DOMAIN ts
        BY <1>8
      <3>2. ts[k] \in EditTurns
        BY <1>8, <3>1
      <3>3. ts[k].kind = "archive" => ts[k].holds \in 1..n
        BY <1>1, <3>1 DEF GoodTurns, Based
      <3>4. n \in 0..MaxArchive
        BY <1>2, EditAssumption
      <3> HIDE DEF G, H, n
      <3> QED  BY <1>7, <3>2, <3>3, <3>4, TextsAlike
    <2> QED  BY <2>1 DEF SpanTexts
  <1>10. t \in EditTurns /\ t.id = m + 1 /\ t.kind = "archive" /\ t.holds = n + 1
    BY <1>1, <1>2 DEF TurnOf, EditTurns, EditKinds
  <1>11. TextsOf(G, t) = G[n + 1]
    <2>1. n + 1 < MaxArchive + 1
      BY <1>2, EditAssumption
    <2> HIDE DEF t, G, n
    <2> QED  BY <1>10, <2>1 DEF TextsOf, TextsBelow
  <1> HIDE DEF t
  <1> DEFINE mid == <<t>>
  <1>12. mid \in Seq(EditTurns) /\ DOMAIN mid = {1} /\ mid[1] = t
    BY <1>10
  <1> HIDE DEF mid
  <1>13. AllTexts(G, mid) = SpanTexts(G, ts, lo, hi)
    BY <1>3, <1>7, <1>9, <1>11, <1>12 DEF AllTexts
  <1>14. Apart(G, mid)
    BY <1>12 DEF Apart
  <1>15. Based(mid, n + 1, s)
    BY <1>2, <1>10, <1>12 DEF Based
  <1>16. m + 1 \in Nat /\ m <= m + 1 /\ t.id > m /\ t.id <= m + 1
    BY <1>1, <1>10
  <1>17. Fits(G, ts, Len(gs), s, m, lo, hi, mid, m + 1)
    <2> HIDE DEF G, n
    <2> QED  BY <1>7, <1>12, <1>13, <1>14, <1>15, <1>16 DEF Fits
  <1>18. Core(gs, Replaced(ts, lo, hi, mid), ks, s, m + 1, d, u)
    BY <1>6, <1>17, CoreSpliced
  <1> QED  BY <1>18 DEF gs, cut, mid, t

(* rehydrate: the turns of the file in the place of the one that stood for  *)
(* them, all but their texts made anew.                                     *)
IsBack(back, list, m) ==
    /\ back \in Seq(EditTurns) /\ DOMAIN back = DOMAIN list
    /\ \A i \in DOMAIN list :
           /\ back[i].id = m + i
           /\ list[i].kind \in {"text", "archive"}
                => back[i].kind = list[i].kind /\ back[i].holds = list[i].holds
           /\ list[i].kind \notin {"text", "archive"} => back[i].kind \notin {"text", "archive"}

LEMMA CoreRehydrated ==
    ASSUME NEW fs, NEW ts, NEW ks, NEW s, NEW m, NEW d, NEW u, Core(fs, ts, ks, s, m, d, u),
           NEW i \in DOMAIN ts, ts[i].kind = "archive",
           NEW back, IsBack(back, fs[ts[i].holds].turns, m)
    PROVE  Core(fs, Replaced(ts, i, i, back), ks, s, m + Len(back), d, u)
  <1> DEFINE H == HeldIn(fs)
  <1> DEFINE n == Len(fs)
  <1> DEFINE a == ts[i].holds
  <1> DEFINE list == fs[a].turns
  <1> DEFINE L == Len(back)
  <1>1. /\ s \in Nat /\ m \in Nat /\ FilesGood(fs, s) /\ GoodTurns(H, ts, n, s, m)
    BY DEF Core
  <1>2. /\ AreFiles(fs) /\ n \in Nat /\ n <= MaxArchive /\ DOMAIN fs = 1..n
        /\ \A x \in 1..n : x \in 1..MaxArchive /\ x \in Nat
    BY <1>1, FilesAre DEF FilesGood
  <1>3. a \in 1..n
    BY <1>1 DEF GoodTurns, Based
  <1>4. list \in Seq(EditTurns) /\ Based(list, a - 1, s) /\ Apart(H, list)
        /\ H[a] = AllTexts(H, list)
    <2>1. a \in DOMAIN fs /\ a \in 1..MaxArchive
      BY <1>2, <1>3
    <2>2. Based(list, a - 1, s) /\ Apart(H, list)
      BY <1>1, <2>1 DEF FilesGood
    <2>3. H[a] = AllTexts(H, list)
      <3> HIDE DEF a
      <3> QED  BY <1>2, <2>1, <2>2, HeldIsTexts
    <2>4. list \in Seq(EditTurns)
      BY <1>2, <2>1 DEF AreFiles
    <2> QED  BY <2>2, <2>3, <2>4
  <1>5. IsBack(back, list, m)
    OBVIOUS
  <1>6. a \in Nat /\ a < MaxArchive + 1 /\ TextsOf(H, ts[i]) = H[a]
    <2>1. a \in Nat /\ a < MaxArchive + 1
      BY <1>2, <1>3, EditAssumption
    <2> HIDE DEF H
    <2> QED  BY <2>1 DEF TextsOf, TextsBelow
  <1>7. SpanTexts(H, ts, i, i) = H[a]
    <2>1. ts \in Seq(EditTurns)
      BY <1>1 DEF GoodTurns
    <2>2. i \in Nat /\ i..i = {i}
      BY <2>1
    <2> HIDE DEF H, a
    <2> QED  BY <1>6, <2>2 DEF SpanTexts
  <1> HIDE DEF H, n, a, list
  <1>8. back \in Seq(EditTurns) /\ DOMAIN back = 1..L /\ DOMAIN list = 1..L /\ L \in Nat
    BY <1>5 DEF IsBack
  <1> HIDE DEF L
  <1>9. ASSUME NEW x \in 1..L
        PROVE  TextsOf(H, back[x]) = TextsOf(H, list[x])
    BY <1>5, <1>8 DEF IsBack, TextsOf, TextsBelow
  <1>10. AllTexts(H, back) = AllTexts(H, list)
    BY <1>8, <1>9 DEF AllTexts
  <1>11. Apart(H, back)
    BY <1>4, <1>8, <1>9 DEF Apart
  <1>12. Based(back, n, s)
    <2> SUFFICES ASSUME NEW x \in 1..L
                 PROVE  /\ back[x].kind = "text" => back[x].holds \in 1..s
                        /\ back[x].kind = "archive" => back[x].holds \in 1..n
      BY <1>8 DEF Based
    <2>1. /\ list[x].kind = "text" => list[x].holds \in 1..s
          /\ list[x].kind = "archive" => list[x].holds \in 1..(a - 1)
      BY <1>4, <1>8 DEF Based
    <2>2. 1..(a - 1) \subseteq 1..n
      BY <1>2, <1>3
    <2>3. /\ list[x].kind \in {"text", "archive"}
                => back[x].kind = list[x].kind /\ back[x].holds = list[x].holds
          /\ list[x].kind \notin {"text", "archive"} => back[x].kind \notin {"text", "archive"}
      BY <1>5, <1>8 DEF IsBack
    <2> QED  BY <2>1, <2>2, <2>3
  <1>13. /\ \A x \in DOMAIN back : back[x].id > m /\ back[x].id <= m + L
         /\ \A x, y \in DOMAIN back : back[x].id = back[y].id => x = y
    <2>1. \A x \in 1..L : back[x].id = m + x
      BY <1>5, <1>8 DEF IsBack
    <2> QED  BY <1>1, <1>8, <2>1
  <1>14. i <= i /\ m + L \in Nat /\ m <= m + L
    <2>1. ts \in Seq(EditTurns)
      BY <1>1 DEF GoodTurns
    <2> QED  BY <1>1, <1>8, <2>1
  <1>15. Fits(H, ts, n, s, m, i, i, back, m + L)
    BY <1>4, <1>7, <1>8, <1>10, <1>11, <1>12, <1>13, <1>14 DEF Fits
  <1>16. Core(fs, Replaced(ts, i, i, back), ks, s, m + L, d, u)
    BY <1>15, CoreSpliced DEF H, n
  <1> QED  BY <1>16 DEF L

-----------------------------------------------------------------------------
(* The invariant of the session's turns                                     *)

EditOps == {"none", "say", "delete", "mode", "complete", "rehydrate", "review", "approve"}
EditCalls == [op : EditOps, at : {"none", "save", "lock"}, lo : Nat, hi : Nat,
              new : SUBSET Nat, old : SUBSET Nat, about : BlockLists]
EditHelpers == [kind : {"none", "archive", "review"}, lo : Nat, hi : Nat,
                about : BlockLists, at : {"none", "running", "done", "taken"}]

EditShape ==
    /\ edit \in [Clients -> EditCalls]
    /\ \A c \in Clients : edit[c].op = "complete" => edit[c].lo >= 1 /\ edit[c].lo <= edit[c].hi
    /\ helper \in EditHelpers
    /\ helper.kind = "archive" => helper.lo >= 1 /\ helper.lo <= helper.hi
EditInv == EditShape /\ Core(files, turns, kept, said, minted, dropped, Unsaved)

LEMMA BlocksAre ==
    ASSUME NEW list \in Seq(EditTurns)
    PROVE  Blocks(list) \in BlockLists
  <1>1. \A i \in 1..Len(list) : <<list[i].kind, list[i].holds>> \in EditKinds \X Nat
    <2> SUFFICES ASSUME NEW i \in 1..Len(list)
                 PROVE  <<list[i].kind, list[i].holds>> \in EditKinds \X Nat
      OBVIOUS
    <2>1. list[i] \in EditTurns
      OBVIOUS
    <2> QED  BY <2>1 DEF EditTurns
  <1>2. Blocks(list) \in [1..Len(list) -> EditKinds \X Nat]
    BY <1>1 DEF Blocks
  <1> QED  BY <1>2 DEF BlockLists

LEMMA NoneIs ==
    /\ NoEdit \in EditCalls /\ NoEdit.op = "none" /\ NoEdit.at = "none"
    /\ NoHelper \in EditHelpers /\ NoHelper.kind = "none"
  <1>1. <<>> \in BlockLists
    BY DEF BlockLists
  <1> QED  BY <1>1 DEF NoEdit, NoHelper, EditCalls, EditHelpers, EditOps

(* The turns as save_session writes them.                                   *)
LEMMA WrittenIs ==
    ASSUME EditInv
    PROVE  IsLike(Written, turns)
  <1>1. /\ turns \in Seq(EditTurns) /\ kept \in Seq(EditTurns) /\ Matching(turns, kept)
    BY DEF EditInv, Core, GoodTurns
  <1>2. ASSUME NEW i \in DOMAIN turns
        PROVE  Written[i] \in EditTurns /\ SameTurn(turns[i], Written[i])
    <2>1. CASE turns[i].id \in Ids(kept)
      <3> DEFINE j == CHOOSE j \in DOMAIN kept : kept[j].id = turns[i].id
      <3>1. \E k \in DOMAIN kept : kept[k].id = turns[i].id
        BY <2>1 DEF Ids
      <3>2. j \in DOMAIN kept /\ kept[j].id = turns[i].id
        BY <3>1
      <3>3. Written[i] = kept[j]
        BY <2>1 DEF Written
      <3> HIDE DEF j
      <3>4. kept[j] \in EditTurns
        BY <1>1, <3>2
      <3> QED  BY <1>1, <3>2, <3>3, <3>4 DEF Matching
    <2>2. CASE turns[i].id \notin Ids(kept)
      <3>1. Written[i] = turns[i]
        BY <2>2 DEF Written
      <3>2. turns[i] \in EditTurns
        BY <1>1
      <3> QED  BY <3>1, <3>2 DEF SameTurn
    <2> QED  BY <2>1, <2>2
  <1>3. DOMAIN Written = DOMAIN turns /\ Written = [i \in DOMAIN turns |-> Written[i]]
    BY DEF Written
  <1>4. DOMAIN turns = 1..Len(turns) /\ Len(turns) \in Nat
    BY <1>1
  <1>5. Written \in Seq(EditTurns)
    <2>1. PICK w : w = Written
      OBVIOUS
    <2>2. w = [i \in 1..Len(turns) |-> w[i]] /\ \A i \in 1..Len(turns) : w[i] \in EditTurns
      BY <1>2, <1>3, <1>4, <2>1
    <2>3. w \in [1..Len(turns) -> EditTurns]
      BY <2>2
    <2>4. w \in Seq(EditTurns)
      BY <1>4, <2>3
    <2> QED  BY <2>1, <2>4
  <1> QED  BY <1>2, <1>3, <1>5 DEF IsLike

LEMMA RestoredIs ==
    ASSUME EditInv, NEW a \in DOMAIN files
    PROVE  IsBack(Restored(a), files[a].turns, minted)
  <1> DEFINE list == files[a].turns
  <1>1. list \in Seq(EditTurns) /\ minted \in Nat
    <2>1. files \in Seq(EditFiles) /\ minted \in Nat
      BY DEF EditInv, Core, FilesGood
    <2>2. files[a] \in EditFiles
      BY <2>1
    <2> QED  BY <2>1, <2>2 DEF EditFiles
  <1>2. PICK back : back = Restored(a)
    OBVIOUS
  <1>3. back = [i \in DOMAIN list |->
                  TurnOf(minted + i, IF list[i].kind \in {"thinking", "review"} THEN "unknown"
                                     ELSE list[i].kind, list[i].holds)]
    BY <1>2 DEF Restored
  <1> HIDE DEF list
  <1>4. ASSUME NEW i \in DOMAIN list
        PROVE  /\ back[i] \in EditTurns /\ back[i].id = minted + i
               /\ list[i].kind \in {"text", "archive"}
                    => back[i].kind = list[i].kind /\ back[i].holds = list[i].holds
               /\ list[i].kind \notin {"text", "archive"} => back[i].kind \notin {"text", "archive"}
    <2>1. list[i] \in EditTurns /\ i \in Nat
      BY <1>1
    <2> DEFINE kind == IF list[i].kind \in {"thinking", "review"} THEN "unknown" ELSE list[i].kind
    <2>2. kind \in EditKinds /\ list[i].holds \in Nat /\ minted + i \in Nat
      BY <1>1, <2>1 DEF EditTurns, EditKinds
    <2>3. back[i] = TurnOf(minted + i, kind, list[i].holds)
      BY <1>3
    <2>4. back[i] \in EditTurns /\ back[i].id = minted + i /\ back[i].kind = kind
          /\ back[i].holds = list[i].holds
      <3> HIDE DEF kind
      <3> QED  BY <2>2, <2>3 DEF TurnOf, EditTurns
    <2> QED  BY <2>4
  <1>5. DOMAIN back = DOMAIN list /\ DOMAIN list = 1..Len(list) /\ Len(list) \in Nat
    BY <1>1, <1>3
  <1>6. back \in Seq(EditTurns)
    <2>1. back = [i \in 1..Len(list) |-> back[i]]
      BY <1>3, <1>5
    <2>2. \A i \in 1..Len(list) : back[i] \in EditTurns
      BY <1>4, <1>5
    <2>3. back \in [1..Len(list) -> EditTurns]
      BY <2>1, <2>2
    <2> QED  BY <1>5, <2>3
  <1>7. IsBack(back, list, minted)
    BY <1>4, <1>5, <1>6 DEF IsBack
  <1> QED  BY <1>2, <1>7 DEF list

(* Calls that say nothing leave what is unsaved as it is.                   *)
LEMMA UnsavedStays ==
    ASSUME NEW c, \A x \in Clients \ {c} : edit'[x] = edit[x], ~Does(c, "say", "save")
    PROVE  Unsaved \subseteq Unsaved'
  <1>1. ASSUME NEW x \in Clients, Does(x, "say", "save")
        PROVE  Does(x, "say", "save")' /\ edit'[x] = edit[x]
    <2>1. x # c
      BY <1>1
    <2> QED  BY <1>1, <2>1 DEF Does
  <1> QED  BY <1>1 DEF Unsaved

LEMMA UnsavedIs == ASSUME UNCHANGED edit PROVE Unsaved' = Unsaved
  BY DEF Unsaved, Does

LEMMA EditInitHolds == EditInit => EditInv
  <1> SUFFICES ASSUME EditInit PROVE EditInv
    OBVIOUS
  <1>1. EditShape
    BY NoneIs DEF EditInit, EditShape
  <1> DEFINE H == HeldIn(files)
  <1>2. /\ files = <<>> /\ said = 3 /\ minted = 3 /\ kept = turns
        /\ turns = <<TurnOf(1, "text", 1), TurnOf(2, "text", 2), TurnOf(3, "text", 3)>>
    BY DEF EditInit
  <1>3. FilesGood(files, said)
    BY <1>2, EditAssumption DEF FilesGood
  <1> HIDE DEF H
  <1>4. /\ TurnOf(1, "text", 1) \in EditTurns /\ TurnOf(2, "text", 2) \in EditTurns
        /\ TurnOf(3, "text", 3) \in EditTurns
    BY DEF TurnOf, EditTurns, EditKinds
  <1>5. turns \in Seq(EditTurns) /\ DOMAIN turns = 1..3
    BY <1>2, <1>4
  <1>6. \A i \in 1..3 : turns[i].id = i /\ turns[i].kind = "text" /\ turns[i].holds = i
    BY <1>2 DEF TurnOf
  <1>7. \A i \in 1..3 : TextsOf(H, turns[i]) = {i}
    BY <1>6 DEF TextsOf, TextsBelow
  <1>8. GoodTurns(H, turns, Len(files), said, minted)
    <2>1. OwnIds(turns, 3)
      BY <1>5, <1>6 DEF OwnIds
    <2>2. Based(turns, Len(files), 3)
      BY <1>5, <1>6 DEF Based
    <2>3. Apart(H, turns)
      BY <1>5, <1>7 DEF Apart
    <2> QED  BY <1>2, <1>5, <2>1, <2>2, <2>3 DEF GoodTurns
  <1>9. 1..said \subseteq AllTexts(H, turns)
    BY <1>2, <1>5, <1>7 DEF AllTexts
  <1>10. Matching(turns, turns)
    BY <1>5, <1>6 DEF Matching, SameTurn
  <1>11. Core(files, turns, kept, said, minted, dropped, Unsaved)
    BY <1>2, <1>3, <1>8, <1>9, <1>10 DEF Core, H
  <1> QED  BY <1>1, <1>11 DEF EditInv

LEMMA EditSafe == EditInv => TextsSafe
  <1> SUFFICES ASSUME EditInv PROVE TextsSafe
    OBVIOUS
  <1> DEFINE H == HeldIn(files)
  <1>1. /\ Apart(H, turns) /\ turns \in Seq(EditTurns)
        /\ 1..said \subseteq AllTexts(H, turns) \cup dropped
        /\ 1..said \subseteq AllTexts(H, kept) \cup dropped \cup Unsaved
    BY DEF EditInv, Core, GoodTurns
  <1> HIDE DEF H
  <1>2. \A list : Texts(list) = AllTexts(H, list)
    BY TextsAre, HeldIs DEF H
  <1>3. ASSUME NEW i \in DOMAIN turns, NEW j \in DOMAIN turns, i # j
        PROVE  Texts(<<turns[i]>>) \cap Texts(<<turns[j]>>) = {}
    <2>1. \A t : AllTexts(H, <<t>>) = TextsOf(H, t)
      BY DEF AllTexts
    <2> QED  BY <1>1, <1>2, <1>3, <2>1 DEF Apart
  <1>4. TextsKept
    BY <1>1, <1>2, <1>3 DEF TextsKept
  <1>5. TextsStored
    BY <1>1, <1>2 DEF TextsStored
  <1> QED  BY <1>4, <1>5 DEF TextsSafe

-----------------------------------------------------------------------------
(* Every step keeps the shape of the calls and of the helper                *)

CallShape(e) == e \in EditCalls /\ (e.op = "complete" => e.lo >= 1 /\ e.lo <= e.hi)
HelperShape(h) == h \in EditHelpers /\ (h.kind = "archive" => h.lo >= 1 /\ h.lo <= h.hi)

LEMMA ShapeKept ==
    ASSUME EditShape, NEW c \in Clients, NEW e, CallShape(e), edit' = [edit EXCEPT ![c] = e],
           HelperShape(helper')
    PROVE  EditShape'
  BY DEF EditShape, CallShape, HelperShape

LEMMA ShapeSame ==
    ASSUME EditShape, UNCHANGED edit, HelperShape(helper')
    PROVE  EditShape'
  BY DEF EditShape, HelperShape

LEMMA ShapesAre ==
    ASSUME EditShape
    PROVE  HelperShape(helper) /\ HelperShape(NoHelper) /\ \A c \in Clients : CallShape(edit[c])
  BY NoneIs DEF EditShape, CallShape, HelperShape

LEMMA CallBegun ==
    ASSUME NEW op \in EditOps \ {"complete"}, NEW at \in {"none", "save", "lock"}
    PROVE  CallShape([NoEdit EXCEPT !.op = op, !.at = at])
  BY NoneIs DEF CallShape, EditCalls

LEMMA SayShape ==
    ASSUME EditInv, NEW c \in Clients, Say(c)
    PROVE  EditShape'
  <1> DEFINE e == [NoEdit EXCEPT !.op = "say", !.at = "save", !.new = {minted + 1},
                      !.lo = Len(turns), !.hi = IF said' > said THEN said' ELSE 0]
  <1>1. /\ minted \in Nat /\ said \in Nat /\ turns \in Seq(EditTurns)
    BY DEF EditInv, Core, GoodTurns
  <1>2. said' \in Nat /\ edit' = [edit EXCEPT ![c] = e] /\ helper' = helper
    BY <1>1 DEF Say
  <1>3. CallShape(e)
    <2> DEFINE hi == IF said' > said THEN said' ELSE 0
    <2>1. hi \in Nat /\ minted + 1 \in Nat /\ Len(turns) \in Nat
      BY <1>1, <1>2
    <2> HIDE DEF hi
    <2>2. CallShape([NoEdit EXCEPT !.op = "say", !.at = "save", !.new = {minted + 1},
                        !.lo = Len(turns), !.hi = hi])
      BY <2>1, NoneIs DEF CallShape, EditCalls, EditOps
    <2> QED  BY <2>2 DEF hi
  <1> HIDE DEF e
  <1> QED  BY <1>2, <1>3, ShapesAre, ShapeKept DEF EditInv

LEMMA ArchiveShape ==
    ASSUME EditInv, NEW c \in Clients, ArchiveTurns(c)
    PROVE  EditShape'
  <1> DEFINE lo == edit[c].lo
  <1> DEFINE hi == edit[c].hi
  <1> DEFINE new == {minted + 1}
  <1> DEFINE old == Ids(SubSeq(turns, lo, hi))
  <1>1. /\ minted \in Nat /\ turns \in Seq(EditTurns) /\ EditShape
    BY DEF EditInv, Core, GoodTurns
  <1>2. CallShape(edit[c]) /\ HelperShape(helper) /\ edit \in [Clients -> EditCalls]
    BY <1>1, ShapesAre DEF EditShape
  <1>3. /\ edit' = [edit EXCEPT ![c].at = "save", ![c].new = new, ![c].old = old]
        /\ helper' = helper /\ edit[c].op = "complete" /\ hi <= Len(turns)
    BY DEF ArchiveTurns, Does
  <1>4. new \subseteq Nat /\ old \subseteq Nat
    <2>1. lo \in Nat /\ hi \in Nat /\ lo >= 1 /\ lo <= hi
      BY <1>2, <1>3 DEF CallShape, EditCalls
    <2>2. SubSeq(turns, lo, hi) \in Seq(EditTurns)
      BY <1>1, <1>3, <2>1
    <2>3. \A s \in Seq(EditTurns) : Ids(s) \subseteq Nat
      <3> SUFFICES ASSUME NEW s \in Seq(EditTurns), NEW i \in DOMAIN s PROVE s[i].id \in Nat
        BY DEF Ids
      <3>1. s[i] \in EditTurns
        OBVIOUS
      <3> QED  BY <3>1 DEF EditTurns
    <2>4. old \subseteq Nat
      BY <2>2, <2>3
    <2>5. minted + 1 \in Nat
      BY <1>1
    <2> HIDE DEF old
    <2> QED  BY <2>4, <2>5
  <1> HIDE DEF lo, hi, new, old
  <1> DEFINE e == [edit[c] EXCEPT !.at = "save", !.new = new, !.old = old]
  <1>5. edit' = [edit EXCEPT ![c] = e]
    BY <1>2, <1>3
  <1>6. CallShape(e)
    BY <1>2, <1>4 DEF CallShape, EditCalls
  <1> HIDE DEF e
  <1> QED  BY <1>1, <1>2, <1>3, <1>5, <1>6, ShapeKept

LEMMA RehydrateShape ==
    ASSUME EditInv, NEW c \in Clients, Rehydrate(c)
    PROVE  EditShape'
  <1> DEFINE i == edit[c].lo
  <1> DEFINE back == Restored(turns[i].holds)
  <1> DEFINE new == Ids(back)
  <1> DEFINE old == {turns[i].id}
  <1>1. /\ minted \in Nat /\ turns \in Seq(EditTurns) /\ EditShape
        /\ files \in Seq(EditFiles) /\ Based(turns, Len(files), said)
    BY DEF EditInv, Core, GoodTurns, FilesGood
  <1>2. CallShape(edit[c]) /\ HelperShape(helper) /\ edit \in [Clients -> EditCalls]
    BY <1>1, ShapesAre DEF EditShape
  <1>3. /\ edit' = [edit EXCEPT ![c].at = "save", ![c].old = old, ![c].new = new]
        /\ helper' = helper /\ edit[c].op = "rehydrate"
        /\ i \in DOMAIN turns /\ turns[i].kind = "archive"
    BY DEF Rehydrate, Does
  <1>4. new \subseteq Nat /\ old \subseteq Nat
    <2>1. turns[i].holds \in DOMAIN files
      BY <1>1, <1>3 DEF Based
    <2>2. back \in Seq(EditTurns)
      BY <2>1, RestoredIs DEF IsBack
    <2>3. \A s \in Seq(EditTurns) : Ids(s) \subseteq Nat
      <3> SUFFICES ASSUME NEW s \in Seq(EditTurns), NEW k \in DOMAIN s PROVE s[k].id \in Nat
        BY DEF Ids
      <3>1. s[k] \in EditTurns
        OBVIOUS
      <3> QED  BY <3>1 DEF EditTurns
    <2>4. turns[i] \in EditTurns
      BY <1>1, <1>3
    <2>5. turns[i].id \in Nat
      BY <2>4 DEF EditTurns
    <2> QED  BY <2>2, <2>3, <2>5
  <1> HIDE DEF i, back, new, old
  <1> DEFINE e == [edit[c] EXCEPT !.at = "save", !.old = old, !.new = new]
  <1>5. edit' = [edit EXCEPT ![c] = e]
    BY <1>2, <1>3
  <1>6. CallShape(e)
    BY <1>2, <1>3, <1>4 DEF CallShape, EditCalls
  <1> HIDE DEF e
  <1> QED  BY <1>1, <1>2, <1>3, <1>5, <1>6, ShapeKept

LEMMA OthersShape ==
    ASSUME EditInv, NEW c \in Clients,
           \/ SaySaved(c) \/ DeleteTurns(c) \/ DeleteSaved(c) \/ SetContextMode(c) \/ OnlySaved(c)
           \/ CompleteArchive(c) \/ ArchiveRefused(c) \/ ArchiveSaved(c) \/ AskRehydrate(c)
           \/ RehydrateRefused(c) \/ RehydrateSaved(c) \/ CompleteReview(c) \/ ApproveReview(c)
    PROVE  EditShape'
  <1>1. /\ turns \in Seq(EditTurns) /\ EditShape
    BY DEF EditInv, Core, GoodTurns
  <1>2. HelperShape(helper) /\ HelperShape(NoHelper) /\ CallShape(NoEdit)
    BY <1>1, ShapesAre, NoneIs DEF CallShape
  <1>3. CASE \/ SaySaved(c) \/ DeleteSaved(c) \/ OnlySaved(c) \/ ArchiveRefused(c)
             \/ ArchiveSaved(c) \/ RehydrateRefused(c) \/ RehydrateSaved(c)
    <2>1. edit' = [edit EXCEPT ![c] = NoEdit] /\ (helper' = helper \/ helper' = NoHelper)
      BY <1>3 DEF SaySaved, DeleteSaved, OnlySaved, ArchiveRefused, ArchiveSaved,
                  RehydrateRefused, RehydrateSaved, Ended
    <2> QED  BY <1>1, <1>2, <2>1, ShapeKept
  <1>4. CASE SetContextMode(c) \/ CompleteReview(c) \/ ApproveReview(c)
    <2>1. PICK op \in {"mode", "review", "approve"} :
            /\ edit' = [edit EXCEPT ![c] = [NoEdit EXCEPT !.op = op, !.at = "save"]]
            /\ helper' = helper \/ helper' = NoHelper
      BY <1>4 DEF SetContextMode, CompleteReview, ApproveReview, Begins
    <2>2. CallShape([NoEdit EXCEPT !.op = op, !.at = "save"])
      BY CallBegun DEF EditOps
    <2> QED  BY <1>1, <1>2, <2>1, <2>2, ShapeKept
  <1>5. CASE DeleteTurns(c)
    <2>1. PICK gone \in SUBSET DOMAIN turns :
            /\ edit' = [edit EXCEPT ![c] = [NoEdit EXCEPT !.op = "delete", !.at = "save",
                                               !.old = {turns[i].id : i \in gone}]]
            /\ helper' = helper
      BY <1>5 DEF DeleteTurns
    <2> DEFINE old == {turns[i].id : i \in gone}
    <2>2. old \subseteq Nat
      <3> SUFFICES ASSUME NEW i \in gone PROVE turns[i].id \in Nat
        OBVIOUS
      <3>1. turns[i] \in EditTurns
        BY <1>1
      <3> QED  BY <3>1 DEF EditTurns
    <2> HIDE DEF old
    <2>3. CallShape([NoEdit EXCEPT !.op = "delete", !.at = "save", !.old = old])
      BY <2>2, NoneIs DEF CallShape, EditCalls, EditOps
    <2>4. edit' = [edit EXCEPT ![c] = [NoEdit EXCEPT !.op = "delete", !.at = "save", !.old = old]]
      BY <2>1 DEF old
    <2> QED  BY <1>1, <1>2, <2>1, <2>3, <2>4, ShapeKept
  <1>6. CASE AskRehydrate(c)
    <2>1. PICK i \in DOMAIN turns :
            /\ edit' = [edit EXCEPT ![c] = [NoEdit EXCEPT !.op = "rehydrate", !.at = "lock",
                                               !.lo = i]]
            /\ helper' = helper
      BY <1>6 DEF AskRehydrate
    <2>2. i \in Nat
      BY <1>1
    <2>3. CallShape([NoEdit EXCEPT !.op = "rehydrate", !.at = "lock", !.lo = i])
      BY <2>2, NoneIs DEF CallShape, EditCalls, EditOps
    <2> QED  BY <1>1, <1>2, <2>1, <2>3, ShapeKept
  <1>7. CASE CompleteArchive(c)
    <2>1. /\ edit' = [edit EXCEPT ![c] = [NoEdit EXCEPT !.op = "complete", !.at = "lock",
                                             !.lo = helper.lo, !.hi = helper.hi,
                                             !.about = helper.about]]
          /\ helper' = Taken /\ helper.kind = "archive"
      BY <1>7 DEF CompleteArchive, Completes
    <2>2. CallShape([NoEdit EXCEPT !.op = "complete", !.at = "lock", !.lo = helper.lo,
                        !.hi = helper.hi, !.about = helper.about])
      <3>1. helper.lo \in Nat /\ helper.hi \in Nat /\ helper.about \in BlockLists
            /\ helper.lo >= 1 /\ helper.lo <= helper.hi
        BY <1>2, <2>1 DEF HelperShape, EditHelpers
      <3> QED  BY <3>1, NoneIs DEF CallShape, EditCalls, EditOps
    <2>3. HelperShape(Taken)
      BY <1>2 DEF HelperShape, EditHelpers, Taken
    <2> QED  BY <1>1, <2>1, <2>2, <2>3, ShapeKept
  <1> QED  BY <1>3, <1>4, <1>5, <1>6, <1>7

LEMMA HelpersShape ==
    ASSUME EditInv, StartArchive \/ HelperDone \/ HelperFailed \/ StartReview \/ EditRestart
    PROVE  EditShape'
  <1>1. /\ turns \in Seq(EditTurns) /\ EditShape
    BY DEF EditInv, Core, GoodTurns
  <1>2. HelperShape(helper) /\ HelperShape(NoHelper) /\ CallShape(NoEdit)
    BY <1>1, ShapesAre, NoneIs DEF CallShape
  <1>3. CASE StartArchive
    <2>1. PICK lo \in DOMAIN turns, hi \in DOMAIN turns :
            /\ lo <= hi /\ UNCHANGED edit
            /\ helper' = [kind |-> "archive", lo |-> lo, hi |-> hi, at |-> "running",
                          about |-> Blocks(SubSeq(turns, lo, hi))]
      BY <1>3 DEF StartArchive
    <2>2. SubSeq(turns, lo, hi) \in Seq(EditTurns) /\ lo \in Nat /\ hi \in Nat /\ lo >= 1
      BY <1>1, <2>1
    <2>3. Blocks(SubSeq(turns, lo, hi)) \in BlockLists
      BY <2>2, BlocksAre
    <2> DEFINE about == Blocks(SubSeq(turns, lo, hi))
    <2>4. about \in BlockLists
      BY <2>3
    <2>5. helper' = [kind |-> "archive", lo |-> lo, hi |-> hi, at |-> "running", about |-> about]
      BY <2>1
    <2> HIDE DEF about
    <2>6. HelperShape(helper')
      BY <2>1, <2>2, <2>4, <2>5 DEF HelperShape, EditHelpers
    <2> QED  BY <1>1, <2>1, <2>6, ShapeSame
  <1>4. CASE HelperDone
    <2>1. HelperShape([helper EXCEPT !.at = "done"])
      BY <1>2 DEF HelperShape, EditHelpers
    <2>2. UNCHANGED edit /\ (helper' = NoHelper \/ helper' = [helper EXCEPT !.at = "done"])
      BY <1>4 DEF HelperDone
    <2> QED  BY <1>1, <1>2, <2>1, <2>2, ShapeSame
  <1>5. CASE HelperFailed
    BY <1>1, <1>2, <1>5, ShapeSame DEF HelperFailed
  <1>6. CASE StartReview
    <2>1. HelperShape([NoHelper EXCEPT !.kind = "review", !.at = "running"])
      BY NoneIs DEF HelperShape, EditHelpers
    <2> QED  BY <1>1, <1>6, <2>1, ShapeSame DEF StartReview
  <1>7. CASE EditRestart
    <2>1. edit' = [c \in Clients |-> NoEdit] /\ helper' = NoHelper
      BY <1>7 DEF EditRestart
    <2> QED  BY <1>2, <2>1 DEF EditShape, CallShape, HelperShape
  <1> QED  BY <1>3, <1>4, <1>5, <1>6, <1>7

-----------------------------------------------------------------------------
(* Every step keeps the texts                                               *)

EditCore == Core(files, turns, kept, said, minted, dropped, Unsaved)

LEMMA SavedCore ==
    ASSUME EditInv, kept' = Written, UNCHANGED <<files, turns, said, minted, dropped>>
    PROVE  EditCore'
  <1>1. Core(files, turns, Written, said, minted, dropped, Unsaved')
    BY WrittenIs, CoreSaved DEF EditInv
  <1> QED  BY <1>1 DEF EditCore

LEMMA SameCore ==
    ASSUME EditInv, Unsaved \subseteq Unsaved',
           UNCHANGED <<files, turns, kept, said, minted, dropped>>
    PROVE  EditCore'
  <1>1. Core(files, turns, kept, said, minted, dropped, Unsaved')
    BY CoreLater DEF EditInv
  <1> QED  BY <1>1 DEF EditCore

LEMMA SayCore ==
    ASSUME EditInv, NEW c \in Clients, Say(c)
    PROVE  EditCore'
  <1> DEFINE e == [NoEdit EXCEPT !.op = "say", !.at = "save", !.new = {minted + 1},
                      !.lo = Len(turns), !.hi = IF said' > said THEN said' ELSE 0]
  <1>1. /\ minted \in Nat /\ said \in Nat /\ turns \in Seq(EditTurns)
        /\ edit \in [Clients -> EditCalls]
    BY DEF EditInv, Core, GoodTurns, EditShape
  <1>2. PICK t : /\ turns' = Append(turns, t) /\ minted' = minted + 1
                 /\ \/ t = TurnOf(minted + 1, "text", said + 1) /\ said' = said + 1
                    \/ t = TurnOf(minted + 1, "thinking", 0) /\ said' = said
    BY DEF Say
  <1>3. /\ t \in EditTurns /\ t.id = minted + 1 /\ t.kind # "archive"
        /\ t.kind = "text" => t.holds = said + 1
        /\ said' = IF t.kind = "text" THEN said + 1 ELSE said
    BY <1>1, <1>2 DEF TurnOf, EditTurns, EditKinds
  <1>4. edit' = [edit EXCEPT ![c] = e] /\ edit[c] = NoEdit
        /\ UNCHANGED <<files, kept, dropped>>
    BY DEF Say, CanBegin
  <1>5. Unsaved \subseteq Unsaved'
    <2>1. ~Does(c, "say", "save")
      BY <1>4, NoneIs DEF Does
    <2> HIDE DEF e
    <2>2. \A x \in Clients \ {c} : edit'[x] = edit[x]
      BY <1>1, <1>4
    <2> QED  BY <2>1, <2>2, UnsavedStays
  <1>6. t.kind = "text" => said + 1 \in Unsaved'
    <2> SUFFICES ASSUME t.kind = "text" PROVE said + 1 \in Unsaved'
      OBVIOUS
    <2>1. said' = said + 1 /\ said' > said /\ said + 1 # 0
      BY <1>1, <1>3
    <2>2. e.op = "say" /\ e.at = "save" /\ e.hi = said + 1
      BY <2>1, NoneIs DEF EditCalls
    <2> HIDE DEF e
    <2>3. edit'[c] = e
      BY <1>1, <1>4
    <2>4. Does(c, "say", "save")'
      BY <2>2, <2>3 DEF Does
    <2> QED  BY <2>1, <2>2, <2>3, <2>4 DEF Unsaved
  <1>7. Core(files, Append(turns, t), kept, IF t.kind = "text" THEN said + 1 ELSE said,
             minted + 1, dropped, Unsaved')
    BY <1>3, <1>5, <1>6, CoreAdded DEF EditInv
  <1> QED  BY <1>2, <1>3, <1>4, <1>7 DEF EditCore

LEMMA ReviewedCore ==
    ASSUME EditInv, NEW c \in Clients, CompleteReview(c)
    PROVE  EditCore'
  <1> DEFINE t == TurnOf(minted + 1, "review", 0)
  <1>1. minted \in Nat /\ said \in Nat /\ edit \in [Clients -> EditCalls]
    BY DEF EditInv, Core, EditShape
  <1>2. t \in EditTurns /\ t.id = minted + 1 /\ t.kind = "review"
    BY <1>1 DEF TurnOf, EditTurns, EditKinds
  <1>3. /\ turns' = Append(turns, t) /\ minted' = minted + 1
        /\ UNCHANGED <<files, kept, said, dropped>>
        /\ edit' = [edit EXCEPT ![c] = [NoEdit EXCEPT !.op = "review", !.at = "save"]]
        /\ edit[c] = NoEdit
    BY DEF CompleteReview, Begins, CanBegin
  <1> HIDE DEF t
  <1>4. Unsaved \subseteq Unsaved'
    <2>1. ~Does(c, "say", "save")
      BY <1>3, NoneIs DEF Does
    <2>2. \A x \in Clients \ {c} : edit'[x] = edit[x]
      BY <1>1, <1>3
    <2> QED  BY <2>1, <2>2, UnsavedStays
  <1>5. Core(files, Append(turns, t), kept, IF t.kind = "text" THEN said + 1 ELSE said,
             minted + 1, dropped, Unsaved')
    BY <1>2, <1>4, CoreAdded DEF EditInv
  <1>6. (IF t.kind = "text" THEN said + 1 ELSE said) = said
    BY <1>2
  <1> QED  BY <1>3, <1>5, <1>6 DEF EditCore

LEMMA MarkedCore ==
    ASSUME EditInv, NEW c \in Clients, SetContextMode(c) \/ ApproveReview(c)
    PROVE  EditCore'
  <1>1. turns \in Seq(EditTurns) /\ edit \in [Clients -> EditCalls]
    BY DEF EditInv, Core, GoodTurns, EditShape
  <1>2. IsLike(turns', turns)
    <2>1. CASE SetContextMode(c)
      <3>1. PICK i \in DOMAIN turns : turns' = [turns EXCEPT ![i].mode = "drop"]
        BY <2>1 DEF SetContextMode
      <3>2. \A k \in DOMAIN turns : turns[k] \in EditTurns
        BY <1>1
      <3>3. turns[i] \in EditTurns
        BY <1>1
      <3>4. [turns[i] EXCEPT !.mode = "drop"] \in EditTurns
            /\ SameTurn(turns[i], [turns[i] EXCEPT !.mode = "drop"])
        BY <3>3 DEF EditTurns, SameTurn
      <3> DEFINE t == [turns[i] EXCEPT !.mode = "drop"]
      <3>5. t \in EditTurns /\ SameTurn(turns[i], t)
        BY <3>4
      <3>6. turns' = [turns EXCEPT ![i] = t]
        BY <3>1
      <3> HIDE DEF t
      <3>7. \A k \in DOMAIN turns : SameTurn(turns[k], turns[k])
        BY DEF SameTurn
      <3> QED  BY <1>1, <3>5, <3>6, <3>7 DEF IsLike
    <2>2. CASE ApproveReview(c)
      <3>1. PICK i \in DOMAIN turns :
              turns[i].kind = "review" /\ turns' = [turns EXCEPT ![i].holds = 1]
        BY <2>2 DEF ApproveReview
      <3>3. turns[i] \in EditTurns
        BY <1>1
      <3> DEFINE t == [turns[i] EXCEPT !.holds = 1]
      <3>5. t \in EditTurns /\ SameTurn(turns[i], t)
        BY <3>1, <3>3 DEF EditTurns, SameTurn
      <3>6. turns' = [turns EXCEPT ![i] = t]
        BY <3>1
      <3> HIDE DEF t
      <3>7. \A k \in DOMAIN turns : SameTurn(turns[k], turns[k])
        BY DEF SameTurn
      <3> QED  BY <1>1, <3>5, <3>6, <3>7 DEF IsLike
    <2> QED  BY <2>1, <2>2
  <1>3. /\ UNCHANGED <<files, kept, said, minted, dropped>> /\ edit[c] = NoEdit
        /\ \E e : edit' = [edit EXCEPT ![c] = e]
    BY DEF SetContextMode, ApproveReview, CanBegin, Begins
  <1>4. Unsaved \subseteq Unsaved'
    <2>1. ~Does(c, "say", "save")
      BY <1>3, NoneIs DEF Does
    <2>2. \A x \in Clients \ {c} : edit'[x] = edit[x]
      BY <1>1, <1>3
    <2> QED  BY <2>1, <2>2, UnsavedStays
  <1>5. Core(files, turns', kept, said, minted, dropped, Unsaved)
    BY <1>2, CoreLike DEF EditInv
  <1>6. Core(files, turns', kept, said, minted, dropped, Unsaved')
    BY <1>4, <1>5, CoreLater
  <1> QED  BY <1>3, <1>6 DEF EditCore

LEMMA DeletedCore ==
    ASSUME EditInv, NEW c \in Clients, DeleteTurns(c)
    PROVE  EditCore'
  <1>1. edit \in [Clients -> EditCalls]
    BY DEF EditInv, EditShape
  <1>2. PICK S, e : /\ turns' = Kept(turns, S)
                    /\ dropped' = dropped \cup (Texts(turns) \ Texts(Kept(turns, S)))
                    /\ edit' = [edit EXCEPT ![c] = e]
    BY DEF DeleteTurns
  <1>3. \A list : Texts(list) = AllTexts(HeldIn(files), list)
    BY TextsAre, HeldIs
  <1>4. dropped' = dropped \cup (AllTexts(HeldIn(files), turns)
                                  \ AllTexts(HeldIn(files), Kept(turns, S)))
    BY <1>2, <1>3
  <1>5. /\ UNCHANGED <<files, kept, said, minted>> /\ edit[c] = NoEdit
    BY DEF DeleteTurns, CanBegin
  <1>6. Unsaved \subseteq Unsaved'
    <2>1. ~Does(c, "say", "save")
      BY <1>5, NoneIs DEF Does
    <2>2. \A x \in Clients \ {c} : edit'[x] = edit[x]
      BY <1>1, <1>2
    <2> QED  BY <2>1, <2>2, UnsavedStays
  <1>7. Core(files, Kept(turns, S), kept, said, minted, dropped', Unsaved)
    BY <1>4, CoreDeleted DEF EditInv
  <1>8. Core(files, Kept(turns, S), kept, said, minted, dropped', Unsaved')
    BY <1>6, <1>7, CoreLater
  <1> QED  BY <1>2, <1>5, <1>8 DEF EditCore

LEMMA ArchivedCore ==
    ASSUME EditInv, NEW c \in Clients, ArchiveTurns(c)
    PROVE  EditCore'
  <1> DEFINE lo == edit[c].lo
  <1> DEFINE hi == edit[c].hi
  <1> DEFINE b == edit[c].about
  <1> DEFINE mid == <<TurnOf(minted + 1, "archive", Len(files) + 1)>>
  <1>1. edit \in [Clients -> EditCalls] /\ turns \in Seq(EditTurns)
    BY DEF EditInv, EditShape, Core, GoodTurns
  <1>2. CallShape(edit[c])
    BY ShapesAre DEF EditInv
  <1>3. /\ edit[c].op = "complete" /\ edit[c].at = "lock" /\ hi <= Len(turns)
        /\ Len(files) < MaxArchive
        /\ files' = Append(files, [turns |-> SubSeq(turns, lo, hi), about |-> b])
        /\ turns' = Replaced(turns, lo, hi, mid) /\ minted' = minted + 1
        /\ UNCHANGED <<kept, said, dropped>>
    BY DEF ArchiveTurns, Does, Replaced
  <1>4. edit' = [edit EXCEPT ![c].at = "save", ![c].new = {minted + 1},
                             ![c].old = Ids(SubSeq(turns, lo, hi))]
    BY DEF ArchiveTurns
  <1>5. lo \in DOMAIN turns /\ hi \in DOMAIN turns /\ lo <= hi /\ b \in BlockLists
    <2>1. lo \in Nat /\ hi \in Nat /\ lo >= 1 /\ lo <= hi /\ b \in BlockLists
      BY <1>2, <1>3 DEF CallShape, EditCalls
    <2> QED  BY <1>1, <1>3, <2>1
  <1>6. Unsaved \subseteq Unsaved'
    <2>1. ~Does(c, "say", "save")
      BY <1>3 DEF Does
    <2>2. \A x \in Clients \ {c} : edit'[x] = edit[x]
      <3> DEFINE old == Ids(SubSeq(turns, lo, hi))
      <3> HIDE DEF old, lo, hi
      <3> QED  BY <1>1, <1>4 DEF old
    <2> QED  BY <2>1, <2>2, UnsavedStays
  <1> HIDE DEF lo, hi, b
  <1>7. Core(files', turns', kept, said, minted + 1, dropped, Unsaved)
    <2>1. Core(Append(files, [turns |-> SubSeq(turns, lo, hi), about |-> b]),
               Replaced(turns, lo, hi, <<TurnOf(minted + 1, "archive", Len(files) + 1)>>),
               kept, said, minted + 1, dropped, Unsaved)
      BY <1>3, <1>5, CoreArchived DEF EditInv
    <2> QED  BY <1>3, <2>1
  <1>8. Core(files', turns', kept, said, minted + 1, dropped, Unsaved')
    BY <1>6, <1>7, CoreLater
  <1> QED  BY <1>3, <1>8 DEF EditCore

LEMMA RehydratedCore ==
    ASSUME EditInv, NEW c \in Clients, Rehydrate(c)
    PROVE  EditCore'
  <1> DEFINE i == edit[c].lo
  <1> DEFINE back == Restored(turns[i].holds)
  <1>1. /\ edit \in [Clients -> EditCalls] /\ files \in Seq(EditFiles)
        /\ Based(turns, Len(files), said)
    BY DEF EditInv, EditShape, Core, GoodTurns, FilesGood
  <1>2. /\ edit[c].op = "rehydrate" /\ i \in DOMAIN turns /\ turns[i].kind = "archive"
        /\ turns' = Replaced(turns, i, i, back) /\ minted' = minted + Len(back)
        /\ UNCHANGED <<files, kept, said, dropped>>
    BY DEF Rehydrate, Does, Replaced
  <1>3. edit' = [edit EXCEPT ![c].at = "save", ![c].old = {turns[i].id}, ![c].new = Ids(back)]
    BY DEF Rehydrate
  <1>4. Unsaved \subseteq Unsaved'
    <2>1. ~Does(c, "say", "save")
      BY <1>2 DEF Does
    <2>2. \A x \in Clients \ {c} : edit'[x] = edit[x]
      <3> HIDE DEF i, back
      <3> QED  BY <1>1, <1>3
    <2> QED  BY <2>1, <2>2, UnsavedStays
  <1>5. turns[i].holds \in DOMAIN files
    BY <1>1, <1>2 DEF Based
  <1>6. IsBack(back, files[turns[i].holds].turns, minted)
    BY <1>5, RestoredIs
  <1> HIDE DEF i, back
  <1>7. Core(files, Replaced(turns, i, i, back), kept, said, minted + Len(back), dropped, Unsaved)
    BY <1>2, <1>6, CoreRehydrated DEF EditInv
  <1>8. Core(files, Replaced(turns, i, i, back), kept, said, minted + Len(back), dropped, Unsaved')
    BY <1>4, <1>7, CoreLater
  <1> QED  BY <1>2, <1>8 DEF EditCore

LEMMA EditInvSteps == EditInv /\ [EditNext]_editVars => EditInv'
  <1> SUFFICES ASSUME EditInv, [EditNext]_editVars PROVE EditInv'
    OBVIOUS
  <1> USE DEF EditCore
  <1>1. ASSUME NEW c \in Clients, EditStep(c) PROVE EditInv'
    <2>1. CASE Say(c)
      BY <2>1, SayShape, SayCore DEF EditInv
    <2>2. CASE DeleteTurns(c)
      BY <2>2, OthersShape, DeletedCore DEF EditInv
    <2>3. CASE SetContextMode(c) \/ ApproveReview(c)
      BY <2>3, OthersShape, MarkedCore DEF EditInv
    <2>4. CASE CompleteReview(c)
      BY <2>4, OthersShape, ReviewedCore DEF EditInv
    <2>5. CASE ArchiveTurns(c)
      BY <2>5, ArchiveShape, ArchivedCore DEF EditInv
    <2>6. CASE Rehydrate(c)
      BY <2>6, RehydrateShape, RehydratedCore DEF EditInv
    <2>7. CASE SaySaved(c) \/ DeleteSaved(c) \/ OnlySaved(c) \/ ArchiveSaved(c) \/ RehydrateSaved(c)
      <3>1. kept' = Written /\ UNCHANGED <<files, turns, said, minted, dropped>>
        BY <2>7 DEF SaySaved, DeleteSaved, OnlySaved, ArchiveSaved, RehydrateSaved
      <3>2. EditCore'
        BY <3>1, SavedCore
      <3>3. EditShape'
        BY <2>7, OthersShape
      <3> QED  BY <3>2, <3>3 DEF EditInv
    <2>8. CASE CompleteArchive(c) \/ ArchiveRefused(c) \/ AskRehydrate(c) \/ RehydrateRefused(c)
      <3>1. /\ UNCHANGED <<files, turns, kept, said, minted, dropped>>
            /\ \E e : edit' = [edit EXCEPT ![c] = e]
            /\ ~Does(c, "say", "save")
        BY <2>8, NoneIs DEF CompleteArchive, ArchiveRefused, AskRehydrate, RehydrateRefused,
                            CanBegin, Does, Ended
      <3>2. edit \in [Clients -> EditCalls]
        BY DEF EditInv, EditShape
      <3>3. \A x \in Clients \ {c} : edit'[x] = edit[x]
        BY <3>1, <3>2
      <3>4. Unsaved \subseteq Unsaved'
        BY <3>1, <3>3, UnsavedStays
      <3>5. EditCore'
        BY <3>1, <3>4, SameCore
      <3>6. EditShape'
        BY <2>8, OthersShape
      <3> QED  BY <3>5, <3>6 DEF EditInv
    <2> QED  BY <1>1, <2>1, <2>2, <2>3, <2>4, <2>5, <2>6, <2>7, <2>8 DEF EditStep
  <1>2. CASE StartArchive \/ HelperDone \/ HelperFailed \/ StartReview
    <2>1. UNCHANGED <<edit, files, turns, kept, said, minted, dropped>>
      BY <1>2 DEF StartArchive, HelperDone, HelperFailed, StartReview
    <2>2. EditCore'
      BY <2>1, UnsavedIs, SameCore
    <2>3. EditShape'
      BY <1>2, HelpersShape
    <2> QED  BY <2>2, <2>3 DEF EditInv
  <1>3. CASE EditRestart
    <2>1. /\ turns' = kept /\ dropped' = dropped \cup Unsaved
          /\ UNCHANGED <<kept, files, said, minted>>
      BY <1>3 DEF EditRestart
    <2>2. Core(files, kept, kept, said, minted, dropped \cup Unsaved, Unsaved')
      BY CoreRestarted DEF EditInv
    <2>3. EditShape'
      BY <1>3, HelpersShape
    <2> QED  BY <2>1, <2>2, <2>3 DEF EditInv
  <1>4. CASE UNCHANGED editVars
    <2>1. UNCHANGED <<edit, helper, files, turns, kept, said, minted, dropped>>
      BY <1>4 DEF editVars
    <2>2. EditCore'
      BY <2>1, UnsavedIs, SameCore
    <2>3. EditShape'
      BY <2>1 DEF EditInv, EditShape
    <2> QED  BY <2>2, <2>3 DEF EditInv
  <1> QED  BY <1>1, <1>2, <1>3, <1>4 DEF EditNext

(* However archives, rehydrations, deletions, talk and restarts overlap, no *)
(* text that was not deleted is lost or held twice, in memory or on disk.   *)
THEOREM TextsSafeCorrect == EditSpec => []TextsSafe
  <1>1. EditInit => EditInv
    BY EditInitHolds
  <1>2. EditInv /\ [EditNext]_editVars => EditInv'
    BY EditInvSteps
  <1>3. EditInv => TextsSafe
    BY EditSafe
  <1> QED  BY <1>1, <1>2, <1>3, PTL DEF EditSpec

(***************************************************************************)
(* What files keep of a story (BlockCodec)                                 *)
(***************************************************************************)

CodecNames == UNION {Fields[k] : k \in DOMAIN Fields}
Named(t) == Fields[t.kind] \cap NamingFields \subseteq t.has
AllTurns == [of : Nat, kind : DOMAIN Fields, has : SUBSET CodecNames,
             says : Nat \cup {UnknownText}, meta : SUBSET TurnFields, file : Nat]
CodecTurns == {t \in AllTurns : Named(t)}

(* The turns whose archives are among the first k.                          *)
TurnsTo(k) == {t \in CodecTurns : t.kind = "archive" => t.file \in 1..k}

(* Tables by which archives stay archives, and names stay.                  *)
Naming(codec) ==
    /\ "archive" \in DOMAIN codec /\ DOMAIN codec \subseteq DOMAIN Fields
    /\ \A k \in DOMAIN codec : Fields[k] \cap NamingFields \subseteq codec[k]

LEMMA FieldsDomain ==
    /\ DOMAIN Fields = {"text", "markdown", "thinking", "image", "tool_use", "tool_result",
                        "interruption", "error", "link", "fork", "merge", "merged_to",
                        "forked_from", "slide", "review", "fork_proposal", "merge_proposal",
                        "archive", "session_summary", "watch_start", "watch_summary"}
    /\ Fields["text"] = {"text", "interrupted"}
  <1>1. DOMAIN SpokenFields = {"text", "markdown", "thinking", "image", "tool_use",
                               "tool_result", "interruption", "error"}
        /\ SpokenFields["text"] = {"text", "interrupted"}
    BY DEF SpokenFields
  <1>2. DOMAIN RelationFields = {"link", "fork", "merge", "merged_to", "forked_from", "slide",
                                 "review"}
    BY DEF RelationFields
  <1>3. DOMAIN ProposalFields = {"fork_proposal", "merge_proposal"}
    BY DEF ProposalFields
  <1>4. DOMAIN RecordFields = {"archive", "session_summary", "watch_start", "watch_summary"}
    BY DEF RecordFields
  <1> DEFINE a == Backed(SpokenFields, RelationFields)
             b == Backed(ProposalFields, RecordFields)
  <1>5. /\ DOMAIN a = DOMAIN SpokenFields \cup DOMAIN RelationFields
        /\ \A x \in DOMAIN SpokenFields : a[x] = SpokenFields[x]
        /\ DOMAIN b = DOMAIN ProposalFields \cup DOMAIN RecordFields
    BY BackedAt
  <1>6. Fields = Backed(a, b)
    BY DEF Fields
  <1> HIDE DEF a, b
  <1>7. /\ DOMAIN Fields = DOMAIN a \cup DOMAIN b
        /\ \A x \in DOMAIN a : Fields[x] = a[x]
    BY <1>6, BackedAt
  <1> QED  BY <1>1, <1>2, <1>3, <1>4, <1>5, <1>7

LEMMA AllButNames ==
    ASSUME NEW drops, NEW kinds, kinds \subseteq DOMAIN Fields, "archive" \in kinds,
           \A k \in DOMAIN drops : drops[k] \cap NamingFields = {}
    PROVE  Naming(AllBut(drops, kinds)) /\ DOMAIN AllBut(drops, kinds) = kinds
  <1> DEFINE left(k) == Fields[k] \ (IF k \in DOMAIN drops THEN drops[k] ELSE {})
  <1>1. AllBut(drops, kinds) = [k \in kinds |-> left(k)]
    BY DEF AllBut
  <1>2. \A k \in kinds : Fields[k] \cap NamingFields \subseteq left(k)
    OBVIOUS
  <1> HIDE DEF left
  <1> QED  BY <1>1, <1>2 DEF Naming

LEMMA NoNames ==
    /\ {"dump_file"} \cap NamingFields = {} /\ {"notes"} \cap NamingFields = {}
    /\ {"interrupted"} \cap NamingFields = {} /\ Fields["text"] \cap NamingFields = {}
  BY FieldsDomain DEF NamingFields

LEMMA TablesName ==
    /\ Naming(StorageWrites) /\ Naming(StorageReads)
    /\ Naming(ArchiveWrites) /\ Naming(ArchiveReads)
    /\ {"text", "markdown", "thinking", "tool_use", "tool_result"} \subseteq DOMAIN StorageWrites
    /\ {"text", "markdown", "thinking", "tool_use", "tool_result"} \subseteq DOMAIN StorageReads
  <1> DEFINE one == [error |-> {"dump_file"}, review |-> {"notes"}]
             two == [text |-> {"interrupted"}, review |-> {"notes"}]
             three == [review |-> {"notes"}]
             most == DOMAIN Fields \ {"image", "forked_from", "session_summary"}
             some == {"text", "tool_use", "tool_result", "interruption", "error", "link", "fork",
                      "merge", "merged_to", "review", "archive"}
  <1>1. \A k \in DOMAIN one : one[k] \cap NamingFields = {}
    BY NoNames
  <1>2. \A k \in DOMAIN two : two[k] \cap NamingFields = {}
    BY NoNames
  <1>3. \A k \in DOMAIN three : three[k] \cap NamingFields = {}
    BY NoNames
  <1>4. /\ StorageWrites = AllBut(one, most) /\ ArchiveWrites = AllBut(two, some)
        /\ StorageReads = AllBut(three, most)
        /\ ArchiveReads = AllBut(three, DOMAIN ArchiveWrites \cup {"thinking"})
    BY DEF StorageWrites, StorageReads, ArchiveWrites, ArchiveReads
  <1>5. /\ most \subseteq DOMAIN Fields /\ "archive" \in most
        /\ some \cup {"thinking"} \subseteq DOMAIN Fields /\ "archive" \in some
        /\ {"text", "markdown", "thinking", "tool_use", "tool_result"} \subseteq most
    BY FieldsDomain
  <1> HIDE DEF one, two, three, most, some
  <1>6. Naming(StorageWrites) /\ DOMAIN StorageWrites = most
    BY <1>1, <1>4, <1>5, AllButNames
  <1>7. Naming(StorageReads) /\ DOMAIN StorageReads = most
    BY <1>3, <1>4, <1>5, AllButNames
  <1>8. Naming(ArchiveWrites) /\ DOMAIN ArchiveWrites = some
    BY <1>2, <1>4, <1>5, AllButNames
  <1>9. Naming(ArchiveReads)
    <2>1. DOMAIN ArchiveWrites \cup {"thinking"} \subseteq DOMAIN Fields
          /\ "archive" \in DOMAIN ArchiveWrites \cup {"thinking"}
      BY <1>5, <1>8
    <2> QED  BY <1>3, <1>4, <2>1, AllButNames
  <1> QED  BY <1>5, <1>6, <1>7, <1>8, <1>9

-----------------------------------------------------------------------------
(* Turns that tell the same                                                 *)

LikeTurn(t, u) ==
    /\ t.of = u.of /\ (t.kind = "archive" <=> u.kind = "archive")
    /\ t.kind = "archive" => t.file = u.file
Like(a, b) == Len(a) = Len(b) /\ \A i \in 1..Len(a) : LikeTurn(a[i], b[i])

LEMMA ThroughGood ==
    ASSUME NEW writes, NEW reads, Naming(writes), Naming(reads), NEW keeps,
           NEW n, NEW t \in TurnsTo(n)
    PROVE  /\ Through(t, writes, reads, keeps) \in TurnsTo(n)
           /\ LikeTurn(t, Through(t, writes, reads, keeps))
           /\ t.kind \in DOMAIN writes \cap DOMAIN reads =>
                 /\ Through(t, writes, reads, keeps).kind = t.kind
                 /\ Through(t, writes, reads, keeps).says = t.says
  <1>1. t \in AllTurns /\ Named(t) /\ (t.kind = "archive" => t.file \in 1..n)
    BY DEF TurnsTo, CodecTurns
  <1> DEFINE less == [t EXCEPT !.meta = @ \cap keeps]
             same == [less EXCEPT !.has = @ \cap writes[t.kind] \cap reads[t.kind]]
             none == [less EXCEPT !.kind = "text", !.has = {"text"}, !.says = UnknownText]
             u == Through(t, writes, reads, keeps)
  <1>2. /\ less \in AllTurns /\ less.of = t.of /\ less.kind = t.kind /\ less.has = t.has
        /\ less.says = t.says /\ less.file = t.file
    BY <1>1 DEF AllTurns
  <1>3. u = IF t.kind \in DOMAIN writes /\ t.kind \in DOMAIN reads THEN same ELSE none
    BY DEF Through
  <1> HIDE DEF less
  <1>4. CASE t.kind \in DOMAIN writes /\ t.kind \in DOMAIN reads
    <2>1. /\ same \in AllTurns /\ same.of = t.of /\ same.kind = t.kind /\ same.says = t.says
          /\ same.file = t.file /\ same.has = t.has \cap writes[t.kind] \cap reads[t.kind]
      BY <1>2 DEF AllTurns
    <2>2. u = same
      BY <1>3, <1>4
    <2> HIDE DEF same, u
    <2>3. Named(same)
      BY <1>1, <1>4, <2>1 DEF Named, Naming
    <2> QED  BY <1>1, <2>1, <2>2, <2>3 DEF TurnsTo, CodecTurns, LikeTurn, u
  <1>5. CASE ~(t.kind \in DOMAIN writes /\ t.kind \in DOMAIN reads)
    <2>0. {"text"} \subseteq CodecNames /\ "text" \in DOMAIN Fields
      BY FieldsDomain DEF CodecNames
    <2>1. /\ none \in AllTurns /\ none.of = t.of /\ none.kind = "text" /\ none.has = {"text"}
      BY <1>2, <2>0 DEF AllTurns
    <2>2. u = none
      BY <1>3, <1>5
    <2> HIDE DEF none, u
    <2>3. Named(none)
      BY <2>1, NoNames DEF Named
    <2>4. t.kind # "archive"
      BY <1>5 DEF Naming
    <2>5. none \in TurnsTo(n) /\ LikeTurn(t, none)
      BY <2>1, <2>3, <2>4 DEF TurnsTo, CodecTurns, LikeTurn
    <2> QED  BY <1>5, <2>2, <2>5 DEF u
  <1> QED  BY <1>4, <1>5

(* Lists of turns, and the files archives name.                             *)
ListsTo(k) == Seq(TurnsTo(k))
CodecFiles(fs) ==
    /\ fs \in Seq(Seq(CodecTurns))
    /\ \A a \in DOMAIN fs : fs[a] \in ListsTo(a - 1)

Opened(fs, ts) ==
    [i \in DOMAIN ts |-> IF ts[i].kind = "archive" THEN fs[ts[i].file] ELSE <<ts[i]>>]
UnfoldIn(fs, ts) == Flat(Opened(fs, ts))

LEMMA ListsGrow ==
    ASSUME NEW j \in Nat, NEW k \in Nat, j <= k, NEW ts \in ListsTo(j)
    PROVE  ts \in ListsTo(k)
  <1>1. TurnsTo(j) \subseteq TurnsTo(k)
    BY DEF TurnsTo
  <1> QED  BY <1>1, SeqMonotone DEF ListsTo

LEMMA ListsAre ==
    ASSUME NEW k, NEW ts \in ListsTo(k)
    PROVE  /\ ts \in Seq(CodecTurns) /\ Len(ts) \in Nat /\ DOMAIN ts = 1..Len(ts)
           /\ \A i \in 1..Len(ts) : ts[i] \in CodecTurns
                                    /\ (ts[i].kind = "archive" => ts[i].file \in 1..k)
  <1>1. TurnsTo(k) \subseteq CodecTurns
    BY DEF TurnsTo
  <1>2. ts \in Seq(TurnsTo(k))
    BY DEF ListsTo
  <1>3. \A i \in 1..Len(ts) : ts[i] \in TurnsTo(k)
    BY <1>2
  <1>4. Len(ts) \in Nat /\ DOMAIN ts = 1..Len(ts)
    BY <1>2
  <1>5. ts \in Seq(CodecTurns)
    BY <1>1, <1>2, SeqMonotone
  <1> QED  BY <1>3, <1>4, <1>5 DEF TurnsTo

LEMMA OpenedIs ==
    ASSUME NEW fs, CodecFiles(fs), NEW k \in 0..Len(fs), NEW ts \in ListsTo(k),
           NEW j \in Nat, k <= j + 1
    PROVE  /\ Opened(fs, ts) \in Seq(ListsTo(j)) /\ Len(Opened(fs, ts)) = Len(ts)
           /\ \A i \in 1..Len(ts) :
                  Opened(fs, ts)[i] = IF ts[i].kind = "archive" THEN fs[ts[i].file] ELSE <<ts[i]>>
  <1>1. /\ Len(ts) \in Nat /\ DOMAIN ts = 1..Len(ts)
        /\ \A i \in 1..Len(ts) : ts[i] \in CodecTurns
                                 /\ (ts[i].kind = "archive" => ts[i].file \in 1..k)
    BY ListsAre
  <1> DEFINE one(i) == IF ts[i].kind = "archive" THEN fs[ts[i].file] ELSE <<ts[i]>>
  <1>2. Opened(fs, ts) = [i \in 1..Len(ts) |-> one(i)]
    BY <1>1 DEF Opened
  <1>3. ASSUME NEW i \in 1..Len(ts)
        PROVE  one(i) \in ListsTo(j)
    <2>1. CASE ts[i].kind = "archive"
      <3>1. ts[i].file \in 1..k /\ ts[i].file \in DOMAIN fs /\ ts[i].file - 1 \in Nat
            /\ ts[i].file - 1 <= j
        BY <1>1, <2>1 DEF CodecFiles
      <3>2. fs[ts[i].file] \in ListsTo(ts[i].file - 1)
        BY <3>1 DEF CodecFiles
      <3>3. fs[ts[i].file] \in ListsTo(j)
        BY <3>1, <3>2, ListsGrow
      <3> QED  BY <2>1, <3>3
    <2>2. CASE ts[i].kind # "archive"
      <3>1. ts[i] \in TurnsTo(j)
        BY <1>1, <2>2 DEF TurnsTo
      <3>2. <<ts[i]>> \in Seq(TurnsTo(j))
        BY <3>1
      <3> QED  BY <2>2, <3>2 DEF ListsTo
    <2> QED  BY <2>1, <2>2
  <1> HIDE DEF one
  <1>4. Opened(fs, ts) \in Seq(ListsTo(j)) /\ Len(Opened(fs, ts)) = Len(ts)
    BY <1>1, <1>2, <1>3
  <1>5. \A i \in 1..Len(ts) : Opened(fs, ts)[i] = one(i)
    BY <1>2
  <1> QED  BY <1>4, <1>5 DEF one

LEMMA UnfoldType ==
    ASSUME NEW fs, CodecFiles(fs), NEW k \in 0..Len(fs), NEW ts \in ListsTo(k),
           NEW j \in Nat, k <= j + 1
    PROVE  UnfoldIn(fs, ts) \in ListsTo(j)
  <1>1. Opened(fs, ts) \in Seq(Seq(TurnsTo(j)))
    BY OpenedIs DEF ListsTo
  <1> QED  BY <1>1, FlatType DEF UnfoldIn, ListsTo

LEMMA UnfoldNone ==
    ASSUME NEW fs, CodecFiles(fs), NEW ts \in ListsTo(0)
    PROVE  UnfoldIn(fs, ts) = ts
  <1>0. 0 \in 0..Len(fs)
    BY DEF CodecFiles
  <1>1. /\ Opened(fs, ts) \in Seq(ListsTo(0)) /\ Len(Opened(fs, ts)) = Len(ts)
        /\ \A i \in 1..Len(ts) :
               Opened(fs, ts)[i] = IF ts[i].kind = "archive" THEN fs[ts[i].file] ELSE <<ts[i]>>
    BY <1>0, OpenedIs
  <1>2. \A i \in 1..Len(ts) : ts[i].kind # "archive"
    BY ListsAre
  <1>3. ts \in Seq(TurnsTo(0)) /\ Opened(fs, ts) \in Seq(Seq(TurnsTo(0)))
    BY <1>1 DEF ListsTo
  <1> QED  BY <1>1, <1>2, <1>3, FlatOnes DEF UnfoldIn

LEMMA UnfoldJoin ==
    ASSUME NEW fs, CodecFiles(fs), NEW a \in ListsTo(Len(fs)), NEW b \in ListsTo(Len(fs))
    PROVE  UnfoldIn(fs, a \o b) = UnfoldIn(fs, a) \o UnfoldIn(fs, b)
  <1> DEFINE n == Len(fs)
             ab == a \o b
  <1>0. n \in Nat /\ n \in 0..Len(fs) /\ a \in Seq(TurnsTo(n)) /\ b \in Seq(TurnsTo(n))
    BY DEF CodecFiles, ListsTo
  <1>1. /\ ab \in Seq(TurnsTo(n)) /\ DOMAIN ab = 1..Len(a) + Len(b)
        /\ \A k \in 1..Len(a) : ab[k] = a[k]
        /\ \A k \in 1..Len(b) : ab[Len(a) + k] = b[k]
    <2> HIDE DEF n
    <2> QED  BY <1>0, Joined
  <1> DEFINE o == Opened(fs, ab)
             p == Opened(fs, a)
             q == Opened(fs, b)
             pq == p \o q
             Is(x, y) == x = IF y.kind = "archive" THEN fs[y.file] ELSE <<y>>
  <1>2. /\ p \in Seq(ListsTo(n)) /\ Len(p) = Len(a) /\ \A i \in 1..Len(a) : Is(p[i], a[i])
        /\ q \in Seq(ListsTo(n)) /\ Len(q) = Len(b) /\ \A i \in 1..Len(b) : Is(q[i], b[i])
    <2> HIDE DEF n, p, q
    <2>1. n <= n + 1
      BY <1>0
    <2> QED  BY <1>0, <2>1, OpenedIs DEF n, p, q
  <1>3. ab \in ListsTo(n)
    BY <1>1 DEF ListsTo
  <1>4. o \in Seq(ListsTo(n)) /\ Len(o) = Len(ab) /\ \A i \in 1..Len(ab) : Is(o[i], ab[i])
    <2>1. n <= n + 1
      BY <1>0
    <2> HIDE DEF n, o, ab
    <2> QED  BY <1>0, <1>3, <2>1, OpenedIs DEF n, o
  <1>5. Len(ab) = Len(a) + Len(b) /\ Len(a) \in Nat /\ Len(b) \in Nat
    <2>1. Len(a) \in Nat /\ Len(b) \in Nat /\ Len(a) + Len(b) \in Nat
      BY <1>0
    <2> HIDE DEF ab, n
    <2> QED  BY <1>1, <2>1, LengthOf
  <1> HIDE DEF o, p, q, ab, n
  <1>6. /\ pq \in Seq(ListsTo(n)) /\ DOMAIN pq = 1..Len(p) + Len(q)
        /\ \A k \in 1..Len(p) : pq[k] = p[k]
        /\ \A k \in 1..Len(q) : pq[Len(p) + k] = q[k]
    <2>1. p \in Seq(ListsTo(n)) /\ q \in Seq(ListsTo(n))
      BY <1>2
    <2> QED  BY ONLY <2>1, Joined
  <1> HIDE DEF pq
  <1>7. Len(pq) = Len(a) + Len(b)
    BY <1>2, <1>5, <1>6, LengthOf
  <1>8. ASSUME NEW k \in 1..Len(a) + Len(b)
        PROVE  o[k] = pq[k]
    <2>0. k \in 1..Len(ab)
      BY <1>5
    <2>1. Is(o[k], ab[k])
      BY <1>4, <2>0
    <2>2. CASE k <= Len(a)
      <3>1. k \in 1..Len(a) /\ k \in 1..Len(p)
        BY <1>2, <1>5, <2>2
      <3>2. Is(p[k], a[k]) /\ pq[k] = p[k] /\ ab[k] = a[k]
        BY <1>1, <1>2, <1>6, <3>1
      <3> QED  BY <2>1, <3>2
    <2>3. CASE k > Len(a)
      <3>1. k - Len(a) \in 1..Len(b) /\ Len(a) + (k - Len(a)) = k
        BY <1>5, <2>3
      <3>2. Is(q[k - Len(a)], b[k - Len(a)]) /\ pq[k] = q[k - Len(a)] /\ ab[k] = b[k - Len(a)]
        <4> DEFINE l == k - Len(a)
        <4>1. l \in 1..Len(b) /\ l \in 1..Len(q) /\ Len(a) + l = k /\ Len(p) + l = k
          BY <1>2, <3>1
        <4> HIDE DEF l
        <4>2. Is(q[l], b[l]) /\ pq[k] = q[l] /\ ab[k] = b[l]
          BY <1>1, <1>2, <1>6, <4>1
        <4> QED  BY <4>2 DEF l
      <3> QED  BY <2>1, <3>2
    <2> QED  BY <1>5, <2>2, <2>3
  <1> HIDE DEF Is
  <1>9. o = pq
    BY <1>4, <1>5, <1>6, <1>7, <1>8, SameList
  <1>10. p \in Seq(Seq(TurnsTo(n))) /\ q \in Seq(Seq(TurnsTo(n)))
    BY <1>2 DEF ListsTo
  <1>11. Flat(pq) = Flat(p) \o Flat(q)
    BY <1>10, FlatJoin DEF pq
  <1> QED  BY <1>9, <1>11 DEF UnfoldIn, o, p, q, ab

(* What files hold is opened level by level, as WholeStory does.            *)
Deepens(deep, fs, ts) ==
    deep[0] = ts /\ \A n \in 1..MaxFiles : deep[n] = UnfoldIn(fs, deep[n - 1])
Short(fs) == Len(fs) <= MaxFiles

LEMMA FilesCount ==
    ASSUME NEW fs, CodecFiles(fs), Short(fs)
    PROVE  /\ MaxFiles \in Nat /\ Len(fs) \in Nat /\ Len(fs) \in 0..Len(fs) /\ Len(fs) <= MaxFiles
           /\ DOMAIN fs = 1..Len(fs)
  BY CodecAssumption DEF CodecFiles, Short

LEMMA DeepExists ==
    ASSUME NEW fs, CodecFiles(fs), Short(fs), NEW ts \in ListsTo(Len(fs))
    PROVE  \E deep : Deepens(deep, fs, ts)
  <1> DEFINE V == ListsTo(Len(fs))
             step == [x \in V \X (1..MaxFiles) |-> UnfoldIn(fs, x[1])]
  <1>1. step \in [V \X (1..MaxFiles) -> V]
    <2> SUFFICES ASSUME NEW x \in V \X (1..MaxFiles) PROVE UnfoldIn(fs, x[1]) \in V
      OBVIOUS
    <2>1. x[1] \in ListsTo(Len(fs))
      OBVIOUS
    <2>2. Len(fs) \in 0..Len(fs) /\ Len(fs) \in Nat /\ Len(fs) <= Len(fs) + 1
      BY FilesCount
    <2> QED  BY <2>1, <2>2, UnfoldType
  <1>2. \A y \in V, n \in 1..MaxFiles : step[<<y, n>>] = UnfoldIn(fs, y)
    OBVIOUS
  <1> HIDE DEF step
  <1>3. ts \in V /\ MaxFiles \in Nat
    BY FilesCount
  <1> HIDE DEF V
  <1>4. PICK f \in [0..MaxFiles -> V] : Follows(f, ts, step, MaxFiles)
    BY <1>1, <1>3, RecursionExists
  <1>5. f[0] = ts /\ \A n \in 1..MaxFiles : f[n] = step[<<f[n - 1], n>>]
    BY <1>4 DEF Follows
  <1>6. ASSUME NEW n \in 1..MaxFiles
        PROVE  f[n] = UnfoldIn(fs, f[n - 1])
    <2>1. f[n - 1] \in V
      BY <1>3, <1>4
    <2> QED  BY <1>2, <1>5, <2>1
  <1> QED  BY <1>5, <1>6 DEF Deepens

(* From lists whose archives are among the first k, level n has those of    *)
(* the first k - n only.                                                    *)
Minus(k, n) == IF n <= k THEN k - n ELSE 0

LEMMA DeepReach ==
    ASSUME NEW fs, CodecFiles(fs), Short(fs), NEW k \in 0..Len(fs), NEW ts \in ListsTo(k),
           NEW deep, Deepens(deep, fs, ts)
    PROVE  \A n \in 0..MaxFiles : deep[n] \in ListsTo(Minus(k, n))
  <1>1. MaxFiles \in Nat /\ Len(fs) \in Nat /\ k \in Nat
    BY FilesCount
  <1> DEFINE Good == {n \in Nat : n <= MaxFiles => deep[n] \in ListsTo(Minus(k, n))}
  <1>2. 0 \in Good
    <2>1. Minus(k, 0) = k
      BY <1>1 DEF Minus
    <2> QED  BY <2>1 DEF Deepens
  <1>3. ASSUME NEW n \in Nat, n \in Good
        PROVE  n + 1 \in Good
    <2> SUFFICES ASSUME n + 1 <= MaxFiles PROVE deep[n + 1] \in ListsTo(Minus(k, n + 1))
      OBVIOUS
    <2>1. n <= MaxFiles /\ n + 1 \in 1..MaxFiles /\ (n + 1) - 1 = n
      BY <1>1
    <2>2. deep[n] \in ListsTo(Minus(k, n))
      BY <1>3, <2>1
    <2>3. deep[n + 1] = UnfoldIn(fs, deep[n])
      <3> DEFINE m == n + 1
      <3>1. m \in 1..MaxFiles /\ m - 1 = n
        BY <2>1
      <3> HIDE DEF m
      <3>2. deep[m] = UnfoldIn(fs, deep[m - 1])
        BY <3>1 DEF Deepens
      <3> QED  BY <3>1, <3>2 DEF m
    <2>4. /\ Minus(k, n) \in 0..Len(fs) /\ Minus(k, n + 1) \in Nat
          /\ Minus(k, n) <= Minus(k, n + 1) + 1
      BY <1>1 DEF Minus
    <2> QED  BY <2>2, <2>3, <2>4, UnfoldType
  <1> HIDE DEF Good
  <1>4. Nat \subseteq Good
    BY <1>2, <1>3, Induction
  <1> QED  BY <1>1, <1>4 DEF Good

LEMMA DeepType ==
    ASSUME NEW fs, CodecFiles(fs), Short(fs), NEW ts \in ListsTo(Len(fs)),
           NEW deep, Deepens(deep, fs, ts)
    PROVE  \A n \in 0..MaxFiles : deep[n] \in ListsTo(Len(fs))
  <1>1. MaxFiles \in Nat /\ Len(fs) \in Nat /\ Len(fs) \in 0..Len(fs)
    BY FilesCount
  <1>2. \A n \in 0..MaxFiles : deep[n] \in ListsTo(Minus(Len(fs), n))
    BY <1>1, DeepReach
  <1>3. ASSUME NEW n \in 0..MaxFiles
        PROVE  deep[n] \in ListsTo(Len(fs))
    <2>1. Minus(Len(fs), n) \in Nat /\ Minus(Len(fs), n) <= Len(fs)
      BY <1>1 DEF Minus
    <2>2. deep[n] \in ListsTo(Minus(Len(fs), n))
      BY <1>2
    <2> QED  BY <1>1, <2>1, <2>2, ListsGrow
  <1> QED  BY <1>3

(* Two levels by level are compared by a step from level to level.          *)
LEMMA Levels ==
    ASSUME NEW S, NEW N \in Nat, 0 \in S, \A n \in 1..N : n - 1 \in S => n \in S
    PROVE  0..N \subseteq S
  <1> DEFINE T == {n \in Nat : n <= N => n \in S}
  <1>1. 0 \in T
    OBVIOUS
  <1>2. ASSUME NEW n \in Nat, n \in T PROVE n + 1 \in T
    <2>1. n + 1 <= N => n + 1 \in 1..N /\ (n + 1) - 1 \in S
      BY <1>2
    <2> QED  BY <2>1
  <1> HIDE DEF T
  <1>3. Nat \subseteq T
    BY <1>1, <1>2, Induction
  <1> QED  BY <1>3 DEF T

LEMMA DeepSame ==
    ASSUME NEW fs, CodecFiles(fs), Short(fs), NEW ts, NEW deep, Deepens(deep, fs, ts),
           NEW other, Deepens(other, fs, ts)
    PROVE  \A n \in 0..MaxFiles : deep[n] = other[n]
  <1> DEFINE S == {n \in 0..MaxFiles : deep[n] = other[n]}
  <1>0. MaxFiles \in Nat
    BY FilesCount
  <1>1. 0 \in S
    BY <1>0 DEF Deepens
  <1>2. ASSUME NEW n \in 1..MaxFiles, n - 1 \in S PROVE n \in S
    BY <1>0, <1>2 DEF Deepens
  <1> HIDE DEF S
  <1>3. 0..MaxFiles \subseteq S
    BY <1>0, <1>1, <1>2, Levels
  <1> QED  BY <1>3 DEF S

Joining(c, a, b) == c = a \o b

LEMMA DeepJoin ==
    ASSUME NEW fs, CodecFiles(fs), Short(fs), NEW a \in ListsTo(Len(fs)), NEW b \in ListsTo(Len(fs)),
           NEW f, Deepens(f, fs, a), NEW g, Deepens(g, fs, b),
           NEW c, Joining(c, a, b), NEW h, Deepens(h, fs, c)
    PROVE  Joining(h[MaxFiles], f[MaxFiles], g[MaxFiles])
  <1> DEFINE S == {n \in 0..MaxFiles : h[n] = f[n] \o g[n]}
  <1>0. MaxFiles \in Nat
    BY FilesCount
  <1>1. 0 \in S
    <2>1. h[0] = a \o b /\ f[0] = a /\ g[0] = b
      BY DEF Deepens, Joining
    <2>2. h[0] = f[0] \o g[0] /\ 0 \in 0..MaxFiles
      BY <1>0, <2>1
    <2> QED  BY ONLY <2>2
  <1>2. ASSUME NEW n \in 1..MaxFiles, n - 1 \in S PROVE n \in S
    <2>1. n - 1 \in 0..MaxFiles /\ h[n - 1] = f[n - 1] \o g[n - 1]
      BY <1>0, <1>2
    <2>2. f[n - 1] \in ListsTo(Len(fs)) /\ g[n - 1] \in ListsTo(Len(fs))
      BY <2>1, DeepType
    <2>3. UnfoldIn(fs, h[n - 1]) = UnfoldIn(fs, f[n - 1]) \o UnfoldIn(fs, g[n - 1])
      BY <2>1, <2>2, UnfoldJoin
    <2>4. /\ h[n] = UnfoldIn(fs, h[n - 1]) /\ f[n] = UnfoldIn(fs, f[n - 1])
          /\ g[n] = UnfoldIn(fs, g[n - 1])
      BY DEF Deepens
    <2>5. n \in 0..MaxFiles
      BY <1>0
    <2> QED  BY <2>3, <2>4, <2>5
  <1> HIDE DEF S
  <1>3. 0..MaxFiles \subseteq S
    BY <1>0, <1>1, <1>2, Levels
  <1>4. MaxFiles \in 0..MaxFiles
    BY <1>0
  <1> QED  BY <1>3, <1>4 DEF S, Joining

(* A list that has no archives, or is at its end, stays.                    *)
LEMMA DeepStays ==
    ASSUME NEW fs, CodecFiles(fs), Short(fs), NEW k \in 0..Len(fs), NEW ts \in ListsTo(k),
           NEW deep, Deepens(deep, fs, ts)
    PROVE  \A n \in k..MaxFiles : deep[n] = deep[MaxFiles] /\ deep[n] \in ListsTo(0)
  <1>0. MaxFiles \in Nat /\ k \in 0..MaxFiles /\ k \in Nat
    BY FilesCount
  <1>1. \A n \in k..MaxFiles : deep[n] \in ListsTo(0)
    <2> SUFFICES ASSUME NEW n \in k..MaxFiles PROVE deep[n] \in ListsTo(0)
      OBVIOUS
    <2>1. n \in 0..MaxFiles /\ Minus(k, n) = 0
      BY <1>0 DEF Minus
    <2>2. deep[n] \in ListsTo(Minus(k, n))
      BY <2>1, DeepReach
    <2> QED  BY <2>1, <2>2
  <1> DEFINE S == {n \in 0..MaxFiles : n >= k => deep[n] = deep[k]}
  <1>2. 0 \in S
    BY <1>0
  <1>3. ASSUME NEW n \in 1..MaxFiles, n - 1 \in S PROVE n \in S
    <2>1. n \in 0..MaxFiles /\ (n >= k => n = k \/ n - 1 \in k..MaxFiles)
      BY <1>0
    <2>2. CASE n - 1 \in k..MaxFiles
      <3>1. deep[n - 1] = deep[k] /\ deep[n - 1] \in ListsTo(0)
        BY <1>0, <1>1, <1>3, <2>2
      <3>2. deep[n] = UnfoldIn(fs, deep[n - 1])
        BY DEF Deepens
      <3>3. deep[n] = deep[k]
        BY <3>1, <3>2, UnfoldNone
      <3> QED  BY <2>1, <3>3
    <2> QED  BY <2>1, <2>2
  <1> HIDE DEF S
  <1>4. 0..MaxFiles \subseteq S
    BY <1>0, <1>2, <1>3, Levels
  <1>5. \A n \in k..MaxFiles : n \in 0..MaxFiles /\ n >= k
    BY <1>0
  <1>6. MaxFiles \in k..MaxFiles
    BY <1>0
  <1> QED  BY <1>1, <1>4, <1>5, <1>6 DEF S

(* An archive opened is what its file holds.                                *)
LEMMA DeepArchive ==
    ASSUME NEW fs, CodecFiles(fs), Short(fs), NEW t \in TurnsTo(Len(fs)), t.kind = "archive",
           NEW f, Deepens(f, fs, <<t>>), NEW g, Deepens(g, fs, fs[t.file])
    PROVE  f[MaxFiles] = g[MaxFiles]
  <1> DEFINE a == t.file
  <1>0. MaxFiles \in Nat /\ Len(fs) \in Nat /\ Len(fs) <= MaxFiles /\ DOMAIN fs = 1..Len(fs)
    BY FilesCount
  <1>1. a \in 1..Len(fs) /\ <<t>> \in ListsTo(Len(fs))
    BY DEF TurnsTo, ListsTo
  <1> HIDE DEF a
  <1>2. /\ a - 1 \in 0..Len(fs) /\ a \in 1..MaxFiles /\ a \in DOMAIN fs
        /\ fs[a] \in ListsTo(a - 1) /\ MaxFiles - 1 \in (a - 1)..MaxFiles
        /\ MaxFiles \in (a - 1)..MaxFiles /\ 1 \in 1..MaxFiles
    <2>1. /\ a - 1 \in 0..Len(fs) /\ a \in 1..MaxFiles /\ a \in 1..Len(fs)
          /\ MaxFiles - 1 \in (a - 1)..MaxFiles
          /\ MaxFiles \in (a - 1)..MaxFiles /\ 1 \in 1..MaxFiles
      BY ONLY <1>0, <1>1
    <2>2. a \in DOMAIN fs
      BY <1>0, <2>1
    <2>3. fs[a] \in ListsTo(a - 1)
      BY <2>2 DEF CodecFiles
    <2> QED  BY <2>1, <2>2, <2>3
  <1>3. UnfoldIn(fs, <<t>>) = fs[a]
    <2>1. /\ Opened(fs, <<t>>) \in Seq(ListsTo(Len(fs))) /\ Len(Opened(fs, <<t>>)) = 1
          /\ Opened(fs, <<t>>)[1] = fs[a]
      <3>1. Len(fs) \in 0..Len(fs) /\ Len(fs) <= Len(fs) + 1
        BY <1>0
      <3>2. Len(<<t>>) = 1 /\ <<t>>[1] = t
        OBVIOUS
      <3> HIDE DEF Opened
      <3>3. /\ Opened(fs, <<t>>) \in Seq(ListsTo(Len(fs)))
            /\ Len(Opened(fs, <<t>>)) = Len(<<t>>)
            /\ \A i \in 1..Len(<<t>>) :
                   Opened(fs, <<t>>)[i] = IF <<t>>[i].kind = "archive" THEN fs[<<t>>[i].file]
                                          ELSE <<<<t>>[i]>>
        BY <1>0, <1>1, <3>1, OpenedIs
      <3> QED  BY <3>2, <3>3 DEF a
    <2> DEFINE o == Opened(fs, <<t>>)
    <2> HIDE DEF o
    <2>2. o = <<fs[a]>>
      BY <2>1 DEF o
    <2>3. fs[a] \in Seq(CodecTurns)
      BY <1>2, ListsAre
    <2> QED  BY <2>2, <2>3, FlatOne DEF UnfoldIn, o
  <1>4. f[1] = fs[a] /\ g[0] = fs[a]
    <2>1. f[0] = <<t>> /\ g[0] = fs[a]
      BY DEF Deepens, a
    <2>2. f[1] = UnfoldIn(fs, f[1 - 1])
      BY <1>2 DEF Deepens
    <2> QED  BY <1>3, <2>1, <2>2
  <1> DEFINE S == {n \in 0..MaxFiles : n + 1 <= MaxFiles => f[n + 1] = g[n]}
  <1>5. 0 \in S
    BY <1>0, <1>4
  <1>6. ASSUME NEW n \in 1..MaxFiles, n - 1 \in S PROVE n \in S
    <2> SUFFICES ASSUME n + 1 <= MaxFiles PROVE f[n + 1] = g[n]
      BY <1>0
    <2>1. (n - 1) + 1 = n /\ n + 1 \in 1..MaxFiles /\ (n + 1) - 1 = n
      BY <1>0
    <2>2. f[n] = g[n - 1]
      BY <1>0, <1>6, <2>1
    <2>3. f[n + 1] = UnfoldIn(fs, f[n])
      <3> DEFINE m == n + 1
      <3>1. m \in 1..MaxFiles /\ m - 1 = n
        BY <2>1
      <3> HIDE DEF m
      <3> QED  BY <3>1 DEF Deepens, m
    <2>4. g[n] = UnfoldIn(fs, g[n - 1])
      BY DEF Deepens
    <2> QED  BY <2>2, <2>3, <2>4
  <1> HIDE DEF S
  <1>7. 0..MaxFiles \subseteq S
    BY <1>0, <1>5, <1>6, Levels
  <1>8. MaxFiles - 1 \in 0..MaxFiles /\ (MaxFiles - 1) + 1 = MaxFiles /\ MaxFiles <= MaxFiles
    BY <1>0, <1>2
  <1>9. f[MaxFiles] = g[MaxFiles - 1]
    BY <1>7, <1>8 DEF S
  <1>10. g[MaxFiles - 1] = g[MaxFiles]
    <2>1. Deepens(g, fs, fs[a])
      BY DEF a
    <2> QED  BY <1>2, <2>1, DeepStays
  <1> QED  BY <1>9, <1>10

(* A file more changes nothing.                                             *)
LEMMA DeepMore ==
    ASSUME NEW fs, CodecFiles(fs), Short(fs), NEW gs, CodecFiles(gs), Short(gs),
           StartsAs(fs, gs), NEW ts \in ListsTo(Len(fs)),
           NEW f, Deepens(f, fs, ts), NEW g, Deepens(g, gs, ts)
    PROVE  f[MaxFiles] = g[MaxFiles]
  <1>0. /\ MaxFiles \in Nat /\ Len(fs) \in Nat /\ Len(gs) \in Nat /\ DOMAIN fs = 1..Len(fs)
        /\ Len(fs) \in 0..Len(fs) /\ Len(fs) <= Len(fs) + 1
    BY FilesCount
  <1>1. \A n \in 0..MaxFiles : f[n] \in ListsTo(Len(fs))
    BY DeepType
  <1>2. ASSUME NEW x \in ListsTo(Len(fs)) PROVE UnfoldIn(fs, x) = UnfoldIn(gs, x)
    <2>1. /\ DOMAIN x = 1..Len(x)
          /\ \A i \in 1..Len(x) : x[i].kind = "archive" => x[i].file \in 1..Len(fs)
      BY ListsAre
    <2>2. \A i \in DOMAIN x : x[i].kind = "archive" => fs[x[i].file] = gs[x[i].file]
      BY <2>1 DEF StartsAs
    <2>3. Opened(fs, x) = Opened(gs, x)
      BY <2>2 DEF Opened
    <2> QED  BY <2>3 DEF UnfoldIn
  <1> DEFINE S == {n \in 0..MaxFiles : f[n] = g[n]}
  <1>3. 0 \in S
    BY <1>0 DEF Deepens
  <1>4. ASSUME NEW n \in 1..MaxFiles, n - 1 \in S PROVE n \in S
    <2>1. n - 1 \in 0..MaxFiles /\ f[n - 1] = g[n - 1]
      BY <1>0, <1>4
    <2>2. UnfoldIn(fs, f[n - 1]) = UnfoldIn(gs, g[n - 1])
      BY <1>1, <1>2, <2>1
    <2>3. f[n] = UnfoldIn(fs, f[n - 1]) /\ g[n] = UnfoldIn(gs, g[n - 1])
      BY DEF Deepens
    <2>4. n \in 0..MaxFiles
      BY <1>0
    <2> QED  BY <2>2, <2>3, <2>4
  <1> HIDE DEF S
  <1>5. 0..MaxFiles \subseteq S
    BY <1>0, <1>3, <1>4, Levels
  <1>6. MaxFiles \in 0..MaxFiles
    BY <1>0
  <1> QED  BY <1>5, <1>6 DEF S

LEMMA LikeJoin ==
    ASSUME NEW a \in Seq(CodecTurns), NEW b \in Seq(CodecTurns),
           NEW c \in Seq(CodecTurns), NEW d \in Seq(CodecTurns), Like(a, c), Like(b, d)
    PROVE  Like(a \o b, c \o d)
  <1> DEFINE p == a \o b
             q == c \o d
  <1>0. Len(a) \in Nat /\ Len(b) \in Nat /\ Len(c) = Len(a) /\ Len(d) = Len(b)
    BY DEF Like
  <1>1. /\ p \in Seq(CodecTurns) /\ DOMAIN p = 1..Len(a) + Len(b)
        /\ \A k \in 1..Len(a) : p[k] = a[k]
        /\ \A k \in 1..Len(b) : p[Len(a) + k] = b[k]
    BY Joined
  <1>2. /\ q \in Seq(CodecTurns) /\ DOMAIN q = 1..Len(c) + Len(d)
        /\ \A k \in 1..Len(c) : q[k] = c[k]
        /\ \A k \in 1..Len(d) : q[Len(c) + k] = d[k]
    BY Joined
  <1> HIDE DEF p, q
  <1>3. Len(p) = Len(a) + Len(b) /\ Len(q) = Len(a) + Len(b)
    BY <1>0, <1>1, <1>2, LengthOf
  <1>4. ASSUME NEW k \in 1..Len(a) + Len(b) PROVE LikeTurn(p[k], q[k])
    <2>1. CASE k <= Len(a)
      <3>1. k \in 1..Len(a)
        BY <1>0, <2>1
      <3> QED  BY <1>0, <1>1, <1>2, <3>1 DEF Like
    <2>2. CASE k > Len(a)
      <3>1. PICK l \in 1..Len(b) : k = Len(a) + l
        <4>1. k - Len(a) \in 1..Len(b) /\ k = Len(a) + (k - Len(a))
          BY <1>0, <2>2
        <4> QED  BY <4>1
      <3>2. p[Len(a) + l] = b[l] /\ q[Len(a) + l] = d[l] /\ LikeTurn(b[l], d[l])
        BY <1>0, <1>1, <1>2 DEF Like
      <3> QED  BY <3>1, <3>2
    <2> QED  BY <1>0, <2>1, <2>2
  <1> QED  BY <1>3, <1>4 DEF Like, p, q

LEMMA LikeFlat ==
    ASSUME NEW a \in Seq(Seq(CodecTurns)), NEW b \in Seq(Seq(CodecTurns)), Len(a) = Len(b),
           \A i \in 1..Len(a) : Like(a[i], b[i])
    PROVE  Like(Flat(a), Flat(b))
  <1>0. Len(a) \in Nat /\ Len(b) \in Nat
    OBVIOUS
  <1>1. PICK f : Flat(a) = f[Len(a)] /\ Joins(f, a)
    BY <1>0, FlatFound
  <1>2. PICK g : Flat(b) = g[Len(b)] /\ Joins(g, b)
    BY <1>0, FlatFound
  <1>3. /\ \A n \in 0..Len(a) : f[n] \in Seq(CodecTurns)
        /\ \A n \in 0..Len(b) : g[n] \in Seq(CodecTurns)
    BY <1>1, <1>2, JoinsType
  <1> DEFINE S == {n \in 0..Len(a) : Like(f[n], g[n])}
  <1>4. 0 \in S
    <2>1. f[0] = <<>> /\ g[0] = <<>> /\ 0 \in 0..Len(a)
      BY <1>0, <1>1, <1>2 DEF Joins
    <2>2. Like(<<>>, <<>>)
      BY DEF Like
    <2> QED  BY <2>1, <2>2
  <1>5. ASSUME NEW n \in 1..Len(a), n - 1 \in S PROVE n \in S
    <2>1. n - 1 \in 0..Len(a) /\ n \in 0..Len(a) /\ Like(f[n - 1], g[n - 1])
      BY <1>0, <1>5
    <2>2. f[n] = f[n - 1] \o a[n] /\ g[n] = g[n - 1] \o b[n]
      BY <1>1, <1>2 DEF Joins
    <2>3. /\ f[n - 1] \in Seq(CodecTurns) /\ g[n - 1] \in Seq(CodecTurns)
          /\ a[n] \in Seq(CodecTurns) /\ b[n] \in Seq(CodecTurns) /\ Like(a[n], b[n])
      BY <1>0, <1>3, <2>1
    <2>4. Like(f[n - 1] \o a[n], g[n - 1] \o b[n])
      BY <2>1, <2>3, LikeJoin
    <2> QED  BY <2>1, <2>2, <2>4
  <1> HIDE DEF S
  <1>6. 0..Len(a) \subseteq S
    BY <1>0, <1>4, <1>5, Levels
  <1>7. Len(a) \in 0..Len(a)
    BY <1>0
  <1> QED  BY <1>1, <1>2, <1>6, <1>7 DEF S

LEMMA LikeOne ==
    ASSUME NEW t, NEW u, LikeTurn(t, u)
    PROVE  Like(<<t>>, <<u>>)
  <1>1. /\ Len(<<t>>) = 1 /\ Len(<<u>>) = 1
        /\ \A i \in 1..1 : <<t>>[i] = t /\ <<u>>[i] = u
    OBVIOUS
  <1> HIDE DEF LikeTurn
  <1> QED  BY <1>1 DEF Like

LEMMA DeepLike ==
    ASSUME NEW fs, CodecFiles(fs), Short(fs), NEW a \in ListsTo(Len(fs)), NEW b \in ListsTo(Len(fs)),
           Like(a, b), NEW f, Deepens(f, fs, a), NEW g, Deepens(g, fs, b)
    PROVE  Like(f[MaxFiles], g[MaxFiles])
  <1>0. /\ MaxFiles \in Nat /\ Len(fs) \in Nat /\ Len(fs) \in 0..Len(fs)
        /\ Len(fs) <= Len(fs) + 1
    BY FilesCount
  <1>1. /\ \A n \in 0..MaxFiles : f[n] \in ListsTo(Len(fs))
        /\ \A n \in 0..MaxFiles : g[n] \in ListsTo(Len(fs))
    BY DeepType
  <1>2. ASSUME NEW x \in ListsTo(Len(fs)), NEW y \in ListsTo(Len(fs)), Like(x, y)
        PROVE  Like(UnfoldIn(fs, x), UnfoldIn(fs, y))
    <2> DEFINE Is(z, t) == z = IF t.kind = "archive" THEN fs[t.file] ELSE <<t>>
               o == Opened(fs, x)
               p == Opened(fs, y)
    <2>1. o \in Seq(ListsTo(Len(fs))) /\ Len(o) = Len(x) /\ \A i \in 1..Len(x) : Is(o[i], x[i])
      BY <1>0, OpenedIs
    <2>2. p \in Seq(ListsTo(Len(fs))) /\ Len(p) = Len(y) /\ \A i \in 1..Len(y) : Is(p[i], y[i])
      BY <1>0, OpenedIs
    <2> HIDE DEF o, p
    <2>3. Len(x) = Len(y) /\ \A i \in 1..Len(x) : LikeTurn(x[i], y[i])
      BY <1>2 DEF Like
    <2>4. ASSUME NEW i \in 1..Len(x) PROVE Like(o[i], p[i])
      <3>1. Is(o[i], x[i]) /\ Is(p[i], y[i]) /\ LikeTurn(x[i], y[i])
        BY <2>1, <2>2, <2>3
      <3>2. CASE x[i].kind = "archive"
        <4>1. y[i].kind = "archive" /\ y[i].file = x[i].file
          BY <3>1, <3>2 DEF LikeTurn
        <4>2. o[i] = fs[x[i].file] /\ p[i] = fs[x[i].file]
          BY <3>1, <3>2, <4>1
        <4>3. Like(fs[x[i].file], fs[x[i].file])
          BY DEF Like, LikeTurn
        <4> QED  BY <4>2, <4>3
      <3>3. CASE x[i].kind # "archive"
        <4>1. o[i] = <<x[i]>> /\ p[i] = <<y[i]>>
          BY <3>1, <3>3 DEF LikeTurn
        <4> QED  BY <3>1, <4>1, LikeOne
      <3> QED  BY <3>2, <3>3
    <2>5. TurnsTo(Len(fs)) \subseteq CodecTurns
      BY DEF TurnsTo
    <2>6. ListsTo(Len(fs)) \subseteq Seq(CodecTurns)
      BY ListsAre
    <2>7. o \in Seq(Seq(CodecTurns)) /\ p \in Seq(Seq(CodecTurns))
      BY <2>1, <2>2, <2>6, SeqMonotone
    <2> HIDE DEF Is
    <2> QED  BY <2>1, <2>2, <2>3, <2>4, <2>7, LikeFlat DEF UnfoldIn, o, p
  <1> DEFINE S == {n \in 0..MaxFiles : Like(f[n], g[n])}
  <1>3. 0 \in S
    BY <1>0 DEF Deepens
  <1>4. ASSUME NEW n \in 1..MaxFiles, n - 1 \in S PROVE n \in S
    <2>1. n - 1 \in 0..MaxFiles /\ n \in 0..MaxFiles /\ Like(f[n - 1], g[n - 1])
      BY <1>0, <1>4
    <2>2. Like(UnfoldIn(fs, f[n - 1]), UnfoldIn(fs, g[n - 1]))
      BY <1>1, <1>2, <2>1
    <2>3. f[n] = UnfoldIn(fs, f[n - 1]) /\ g[n] = UnfoldIn(fs, g[n - 1])
      BY DEF Deepens
    <2> QED  BY <2>1, <2>2, <2>3
  <1> HIDE DEF S
  <1>5. 0..MaxFiles \subseteq S
    BY <1>0, <1>3, <1>4, Levels
  <1>6. MaxFiles \in 0..MaxFiles
    BY <1>0
  <1> QED  BY <1>5, <1>6 DEF S

-----------------------------------------------------------------------------
(* What is told in all                                                      *)

Tale(fs, ts) ==
    LET deep[n \in 0..MaxFiles] == IF n = 0 THEN ts ELSE UnfoldIn(fs, deep[n - 1])
    IN  deep[MaxFiles]

LEMMA WholeIsTale == WholeStory = Tale(archiveFiles, story)
  BY DEF WholeStory, Tale, Unfold, UnfoldIn, Opened

LEMMA TaleFound ==
    ASSUME NEW fs, CodecFiles(fs), Short(fs), NEW ts \in ListsTo(Len(fs))
    PROVE  \E deep : Deepens(deep, fs, ts) /\ Tale(fs, ts) = deep[MaxFiles]
  <1> DEFINE Is(f) == f = [n \in 0..MaxFiles |-> IF n = 0 THEN ts ELSE UnfoldIn(fs, f[n - 1])]
             deep == CHOOSE f : Is(f)
  <1>0. MaxFiles \in Nat
    BY FilesCount
  <1>1. Tale(fs, ts) = deep[MaxFiles]
    BY DEF Tale
  <1>2. \E f : Is(f)
    <2>1. PICK d : Deepens(d, fs, ts)
      BY DeepExists
    <2> DEFINE h == [n \in 0..MaxFiles |-> d[n]]
    <2>2. \A n \in 0..MaxFiles : h[n] = IF n = 0 THEN ts ELSE UnfoldIn(fs, h[n - 1])
      <3> SUFFICES ASSUME NEW n \in 0..MaxFiles
                   PROVE  h[n] = IF n = 0 THEN ts ELSE UnfoldIn(fs, h[n - 1])
        OBVIOUS
      <3>1. CASE n = 0
        BY <1>0, <2>1, <3>1 DEF Deepens
      <3>2. CASE n # 0
        <4>1. n \in 1..MaxFiles /\ n - 1 \in 0..MaxFiles
          BY <1>0, <3>2
        <4>2. h[n] = d[n] /\ h[n - 1] = d[n - 1]
          BY <4>1
        <4>3. d[n] = UnfoldIn(fs, d[n - 1])
          BY <2>1, <4>1 DEF Deepens
        <4> QED  BY <3>2, <4>2, <4>3
      <3> QED  BY <3>1, <3>2
    <2>3. h = [n \in 0..MaxFiles |-> h[n]]
      OBVIOUS
    <2> HIDE DEF h
    <2>4. Is(h)
      BY <2>2, <2>3
    <2> QED  BY <2>4
  <1>3. Is(deep)
    BY <1>2
  <1> HIDE DEF deep
  <1>4. Deepens(deep, fs, ts)
    <2>1. deep[0] = ts
      BY <1>0, <1>3
    <2>2. \A n \in 1..MaxFiles : deep[n] = UnfoldIn(fs, deep[n - 1])
      <3> SUFFICES ASSUME NEW n \in 1..MaxFiles PROVE deep[n] = UnfoldIn(fs, deep[n - 1])
        OBVIOUS
      <3>1. n \in 0..MaxFiles /\ n # 0
        BY <1>0
      <3> QED  BY <1>3, <3>1
    <2> QED  BY <2>1, <2>2 DEF Deepens
  <1> QED  BY <1>1, <1>4

LEMMA TaleType ==
    ASSUME NEW fs, CodecFiles(fs), Short(fs), NEW ts \in ListsTo(Len(fs))
    PROVE  Tale(fs, ts) \in ListsTo(0) /\ Tale(fs, ts) \in Seq(CodecTurns)
  <1>1. PICK deep : Deepens(deep, fs, ts) /\ Tale(fs, ts) = deep[MaxFiles]
    BY TaleFound
  <1>2. Len(fs) \in 0..Len(fs) /\ MaxFiles \in Len(fs)..MaxFiles
    BY FilesCount
  <1>3. deep[MaxFiles] \in ListsTo(0)
    BY <1>1, <1>2, DeepStays
  <1> QED  BY <1>1, <1>3, ListsAre

LEMMA TaleStays ==
    ASSUME NEW fs, CodecFiles(fs), Short(fs), NEW ts \in ListsTo(0)
    PROVE  ts \in ListsTo(Len(fs)) /\ Tale(fs, ts) = ts
  <1>1. MaxFiles \in Nat /\ Len(fs) \in Nat /\ 0 \in 0..Len(fs) /\ 0 \in 0..MaxFiles /\ 0 <= Len(fs)
    BY FilesCount
  <1>2. ts \in ListsTo(Len(fs))
    BY <1>1, ListsGrow
  <1>3. PICK deep : Deepens(deep, fs, ts) /\ Tale(fs, ts) = deep[MaxFiles]
    BY <1>2, TaleFound
  <1>4. deep[0] = deep[MaxFiles]
    BY <1>1, <1>3, DeepStays
  <1> QED  BY <1>2, <1>3, <1>4 DEF Deepens

LEMMA TaleJoin ==
    ASSUME NEW fs, CodecFiles(fs), Short(fs), NEW a \in ListsTo(Len(fs)), NEW b \in ListsTo(Len(fs))
    PROVE  a \o b \in ListsTo(Len(fs)) /\ Tale(fs, a \o b) = Tale(fs, a) \o Tale(fs, b)
  <1>1. a \in Seq(TurnsTo(Len(fs))) /\ b \in Seq(TurnsTo(Len(fs)))
    BY DEF ListsTo
  <1>2. a \o b \in Seq(TurnsTo(Len(fs)))
    BY ONLY <1>1, Joined
  <1> DEFINE ab == a \o b
  <1>3. ab \in ListsTo(Len(fs)) /\ ab = a \o b
    BY <1>2 DEF ListsTo
  <1> HIDE DEF ab
  <1>4. PICK f : Deepens(f, fs, a) /\ Tale(fs, a) = f[MaxFiles]
    BY TaleFound
  <1>5. PICK g : Deepens(g, fs, b) /\ Tale(fs, b) = g[MaxFiles]
    BY TaleFound
  <1>6. PICK h : Deepens(h, fs, ab) /\ Tale(fs, ab) = h[MaxFiles]
    BY <1>3, TaleFound
  <1>7. Joining(h[MaxFiles], f[MaxFiles], g[MaxFiles])
    <2>1. /\ CodecFiles(fs) /\ Short(fs) /\ a \in ListsTo(Len(fs)) /\ b \in ListsTo(Len(fs))
          /\ Deepens(f, fs, a) /\ Deepens(g, fs, b) /\ Deepens(h, fs, ab) /\ Joining(ab, a, b)
      BY <1>3, <1>4, <1>5, <1>6 DEF Joining
    <2> QED  BY ONLY <2>1, DeepJoin
  <1> QED  BY <1>3, <1>4, <1>5, <1>6, <1>7 DEF Joining

LEMMA TaleArchive ==
    ASSUME NEW fs, CodecFiles(fs), Short(fs), NEW t \in TurnsTo(Len(fs)), t.kind = "archive"
    PROVE  /\ <<t>> \in ListsTo(Len(fs)) /\ fs[t.file] \in ListsTo(Len(fs))
           /\ Tale(fs, <<t>>) = Tale(fs, fs[t.file])
  <1>1. <<t>> \in ListsTo(Len(fs))
    BY DEF ListsTo
  <1>2. t.file \in 1..Len(fs) /\ Len(fs) \in Nat /\ DOMAIN fs = 1..Len(fs)
    BY FilesCount DEF TurnsTo
  <1> DEFINE a == t.file
  <1> HIDE DEF a
  <1>3. a \in DOMAIN fs /\ a - 1 \in Nat /\ a - 1 <= Len(fs)
    BY <1>2 DEF a
  <1>4. fs[a] \in ListsTo(a - 1)
    BY <1>3 DEF CodecFiles
  <1>5. fs[a] \in ListsTo(Len(fs))
    BY <1>2, <1>3, <1>4, ListsGrow
  <1>6. PICK f : Deepens(f, fs, <<t>>) /\ Tale(fs, <<t>>) = f[MaxFiles]
    BY <1>1, TaleFound
  <1>7. PICK g : Deepens(g, fs, fs[a]) /\ Tale(fs, fs[a]) = g[MaxFiles]
    BY <1>5, TaleFound
  <1>8. Deepens(g, fs, fs[t.file])
    BY <1>7 DEF a
  <1>9. f[MaxFiles] = g[MaxFiles]
    BY <1>6, <1>8, DeepArchive
  <1> QED  BY <1>1, <1>5, <1>6, <1>7, <1>9 DEF a

LEMMA TaleMore ==
    ASSUME NEW fs, CodecFiles(fs), Short(fs), NEW gs, CodecFiles(gs), Short(gs),
           StartsAs(fs, gs), NEW ts \in ListsTo(Len(fs))
    PROVE  ts \in ListsTo(Len(gs)) /\ Tale(fs, ts) = Tale(gs, ts)
  <1>1. Len(fs) \in Nat /\ Len(gs) \in Nat
    BY FilesCount
  <1>2. ts \in ListsTo(Len(gs))
    BY <1>1, ListsGrow DEF StartsAs
  <1>3. PICK f : Deepens(f, fs, ts) /\ Tale(fs, ts) = f[MaxFiles]
    BY TaleFound
  <1>4. PICK g : Deepens(g, gs, ts) /\ Tale(gs, ts) = g[MaxFiles]
    BY <1>2, TaleFound
  <1>5. f[MaxFiles] = g[MaxFiles]
    BY <1>3, <1>4, DeepMore
  <1> QED  BY <1>2, <1>3, <1>4, <1>5

LEMMA TaleLike ==
    ASSUME NEW fs, CodecFiles(fs), Short(fs), NEW a \in ListsTo(Len(fs)), NEW b \in ListsTo(Len(fs)),
           Like(a, b)
    PROVE  Like(Tale(fs, a), Tale(fs, b))
  <1>1. PICK f : Deepens(f, fs, a) /\ Tale(fs, a) = f[MaxFiles]
    BY TaleFound
  <1>2. PICK g : Deepens(g, fs, b) /\ Tale(fs, b) = g[MaxFiles]
    BY TaleFound
  <1>3. Like(f[MaxFiles], g[MaxFiles])
    BY <1>1, <1>2, DeepLike
  <1> QED  BY <1>1, <1>2, <1>3

LEMMA LikeSelf == \A a : Like(a, a)
  BY DEF Like, LikeTurn

(* What stands in the middle may be replaced by what tells the same.        *)
LEMMA TaleReplaced ==
    ASSUME NEW fs, CodecFiles(fs), Short(fs), NEW a \in ListsTo(Len(fs)), NEW b \in ListsTo(Len(fs)),
           NEW x \in ListsTo(Len(fs)), NEW y \in ListsTo(Len(fs)),
           Like(Tale(fs, x), Tale(fs, y))
    PROVE  /\ (a \o y) \o b \in ListsTo(Len(fs))
           /\ Like(Tale(fs, (a \o x) \o b), Tale(fs, (a \o y) \o b))
  <1> DEFINE ax == a \o x
             ay == a \o y
  <1>1. /\ ax \in ListsTo(Len(fs)) /\ Tale(fs, ax) = Tale(fs, a) \o Tale(fs, x)
        /\ ay \in ListsTo(Len(fs)) /\ Tale(fs, ay) = Tale(fs, a) \o Tale(fs, y)
    BY TaleJoin
  <1> HIDE DEF ax, ay
  <1>2. /\ ay \o b \in ListsTo(Len(fs))
        /\ Tale(fs, ax \o b) = Tale(fs, ax) \o Tale(fs, b)
        /\ Tale(fs, ay \o b) = Tale(fs, ay) \o Tale(fs, b)
    BY <1>1, TaleJoin
  <1>3. /\ Tale(fs, a) \in Seq(CodecTurns) /\ Tale(fs, x) \in Seq(CodecTurns)
        /\ Tale(fs, y) \in Seq(CodecTurns) /\ Tale(fs, b) \in Seq(CodecTurns)
        /\ Tale(fs, ax) \in Seq(CodecTurns) /\ Tale(fs, ay) \in Seq(CodecTurns)
    BY <1>1, TaleType
  <1>4. Like(Tale(fs, ax), Tale(fs, ay))
    <2>1. Like(Tale(fs, a) \o Tale(fs, x), Tale(fs, a) \o Tale(fs, y))
      BY <1>3, LikeSelf, LikeJoin
    <2> QED  BY <1>1, <2>1
  <1>5. Like(Tale(fs, ax) \o Tale(fs, b), Tale(fs, ay) \o Tale(fs, b))
    BY <1>3, <1>4, LikeSelf, LikeJoin
  <1> QED  BY <1>2, <1>5 DEF ax, ay

-----------------------------------------------------------------------------
(* The invariant                                                            *)

Tells(ts, n) == Len(ts) = n /\ \A i \in 1..n : ts[i].of = i
Words(ts, us) ==
    \A i \in DOMAIN us :
        ts[i].kind \in {"text", "markdown", "thinking", "tool_use", "tool_result"} =>
            us[i].kind = ts[i].kind /\ us[i].says = ts[i].says

CodecInv ==
    /\ storyLength \in Nat
    /\ CodecFiles(archiveFiles) /\ Short(archiveFiles)
    /\ story \in ListsTo(Len(archiveFiles)) /\ storyStored \in ListsTo(Len(archiveFiles))
    /\ Like(story, storyStored) /\ Words(story, storyStored)
    /\ Tells(Tale(archiveFiles, story), storyLength)

LEMMA TellsLike ==
    ASSUME NEW a, NEW b, NEW n, Tells(a, n), Like(a, b)
    PROVE  Tells(b, n)
  BY DEF Tells, Like, LikeTurn

LEMMA StoredGood ==
    ASSUME NEW k, NEW ts \in ListsTo(k)
    PROVE  AllStored(ts) \in ListsTo(k) /\ Like(ts, AllStored(ts)) /\ Words(ts, AllStored(ts))
  <1> DEFINE us == AllStored(ts)
             spoken == {"text", "markdown", "thinking", "tool_use", "tool_result"}
  <1>1. ts \in Seq(TurnsTo(k)) /\ Len(ts) \in Nat /\ DOMAIN ts = 1..Len(ts)
    BY ListsAre DEF ListsTo
  <1>2. us = [i \in 1..Len(ts) |-> AsStored(ts[i])]
    BY <1>1 DEF AllStored
  <1>3. ASSUME NEW i \in 1..Len(ts)
        PROVE  /\ AsStored(ts[i]) \in TurnsTo(k) /\ LikeTurn(ts[i], AsStored(ts[i]))
               /\ ts[i].kind \in spoken => /\ AsStored(ts[i]).kind = ts[i].kind
                                         /\ AsStored(ts[i]).says = ts[i].says
    <2>1. ts[i] \in TurnsTo(k)
      BY <1>1
    <2>2. ts[i].kind \in spoken => ts[i].kind \in DOMAIN StorageWrites \cap DOMAIN StorageReads
      BY TablesName
    <2> QED  BY <2>1, <2>2, TablesName, ThroughGood DEF AsStored
  <1> HIDE DEF us
  <1>4. us \in Seq(TurnsTo(k)) /\ Len(us) = Len(ts) /\ DOMAIN us = 1..Len(ts)
        /\ \A i \in 1..Len(ts) : us[i] = AsStored(ts[i])
    BY <1>1, <1>2, <1>3
  <1>5. us \in ListsTo(k) /\ Like(ts, us)
    BY <1>3, <1>4 DEF ListsTo, Like
  <1>6. Words(ts, us)
    BY <1>3, <1>4 DEF Words
  <1> QED  BY <1>5, <1>6 DEF us

LEMMA TurnGood ==
    ASSUME NEW n \in Nat, NEW k \in DOMAIN Fields
    PROVE  StoryTurn(n, k) \in CodecTurns /\ StoryTurn(n, k).kind = k /\ StoryTurn(n, k).of = n
  <1>1. Fields[k] \subseteq CodecNames
    BY DEF CodecNames
  <1>2. /\ StoryTurn(n, k) \in AllTurns /\ StoryTurn(n, k).kind = k /\ StoryTurn(n, k).of = n
        /\ StoryTurn(n, k).has = Fields[k]
    BY <1>1 DEF StoryTurn, AllTurns
  <1> QED  BY <1>2 DEF CodecTurns, Named

LEMMA ArchiveTurnGood ==
    ASSUME NEW n \in Nat \ {0}
    PROVE  /\ [StoryTurn(0, "archive") EXCEPT !.file = n] \in TurnsTo(n)
           /\ [StoryTurn(0, "archive") EXCEPT !.file = n].kind = "archive"
           /\ [StoryTurn(0, "archive") EXCEPT !.file = n].file = n
  <1>0. "archive" \in DOMAIN Fields
    BY FieldsDomain
  <1> DEFINE s == StoryTurn(0, "archive")
  <1>1. s \in AllTurns /\ Named(s) /\ s.kind = "archive"
    BY <1>0, TurnGood DEF CodecTurns
  <1> HIDE DEF s
  <1> DEFINE t == [s EXCEPT !.file = n]
  <1>2. t \in AllTurns /\ t.kind = "archive" /\ t.has = s.has /\ t.file = n
    BY <1>1 DEF AllTurns
  <1> HIDE DEF t
  <1>3. Named(t)
    BY <1>1, <1>2 DEF Named
  <1>4. n \in 1..n
    OBVIOUS
  <1>5. t \in TurnsTo(n)
    BY <1>2, <1>3, <1>4 DEF TurnsTo, CodecTurns
  <1> QED  BY <1>2, <1>5 DEF t, s

LEMMA CodecStart == CodecInit => CodecInv
  <1> SUFFICES ASSUME CodecInit PROVE CodecInv
    OBVIOUS
  <1>1. /\ story = <<>> /\ storyStored = <<>> /\ archiveFiles = <<>> /\ storyLength = 0
    BY DEF CodecInit
  <1>2. CodecFiles(<<>>) /\ Short(<<>>) /\ Len(<<>>) = 0 /\ <<>> \in ListsTo(0)
    BY CodecAssumption DEF CodecFiles, Short, ListsTo
  <1>3. Tale(<<>>, <<>>) = <<>>
    BY <1>2, TaleStays
  <1>4. Like(<<>>, <<>>) /\ Words(<<>>, <<>>) /\ Tells(<<>>, 0)
    BY DEF Like, Words, Tells
  <1> QED  BY <1>1, <1>2, <1>3, <1>4 DEF CodecInv

(* Whatever is stored as it stands keeps the rest.                          *)
LEMMA CodecStep ==
    ASSUME storyLength' \in Nat, CodecFiles(archiveFiles'), Short(archiveFiles'),
           story' \in ListsTo(Len(archiveFiles')), storyStored' = AllStored(story'),
           Tells(Tale(archiveFiles', story'), storyLength')
    PROVE  CodecInv'
  <1> DEFINE fs == archiveFiles'
             ts == story'
             us == storyStored'
  <1> HIDE DEF fs, ts, us
  <1>1. us \in ListsTo(Len(fs)) /\ Like(ts, us) /\ Words(ts, us)
    <2>1. ts \in ListsTo(Len(fs)) /\ us = AllStored(ts)
      BY DEF fs, ts, us
    <2> QED  BY <2>1, StoredGood
  <1> QED  BY <1>1 DEF CodecInv, fs, ts, us

LEMMA SaySteps ==
    ASSUME CodecInv, NEW k \in Kinds, SayBlock(k)
    PROVE  CodecInv'
  <1> DEFINE n == storyLength
             t == StoryTurn(n + 1, k)
             fs == archiveFiles
  <1>1. /\ n \in Nat /\ CodecFiles(fs) /\ Short(fs) /\ story \in ListsTo(Len(fs))
        /\ Tells(Tale(fs, story), n)
    BY DEF CodecInv
  <1>2. /\ storyLength' = n + 1 /\ story' = Append(story, t) /\ storyStored' = AllStored(story')
        /\ archiveFiles' = fs
    BY DEF SayBlock
  <1>3. k \in DOMAIN Fields /\ k # "archive"
    BY CodecAssumption
  <1>4. t \in CodecTurns /\ t.kind = k /\ t.of = n + 1
    BY <1>1, <1>3, TurnGood
  <1> HIDE DEF n, t, fs
  <1>5. <<t>> \in ListsTo(0) /\ <<t>> \in ListsTo(Len(fs))
    BY <1>3, <1>4 DEF TurnsTo, ListsTo
  <1>6. Append(story, t) = story \o <<t>>
    BY <1>1, <1>4 DEF ListsTo
  <1>7. /\ story \o <<t>> \in ListsTo(Len(fs))
        /\ Tale(fs, story \o <<t>>) = Tale(fs, story) \o Tale(fs, <<t>>)
    BY <1>1, <1>5, TaleJoin
  <1>8. Tale(fs, <<t>>) = <<t>>
    BY <1>1, <1>5, TaleStays
  <1>9. Tells(Tale(fs, story) \o <<t>>, n + 1)
    <2> DEFINE d == Tale(fs, story)
    <2>1. d \in Seq(CodecTurns) /\ Len(d) = n /\ \A i \in 1..n : d[i].of = i
      BY <1>1, TaleType DEF Tells
    <2> HIDE DEF d
    <2>2. /\ Len(d \o <<t>>) = n + 1 /\ (d \o <<t>>)[n + 1] = t
          /\ \A i \in 1..n : (d \o <<t>>)[i] = d[i]
      BY <1>4, <2>1
    <2>3. ASSUME NEW i \in 1..(n + 1) PROVE (d \o <<t>>)[i].of = i
      <3>1. i = n + 1 \/ i \in 1..n
        BY <1>1
      <3> QED  BY <1>4, <2>1, <2>2, <3>1
    <2>4. Tells(d \o <<t>>, n + 1)
      BY <2>2, <2>3 DEF Tells
    <2> QED  BY <2>4 DEF d
  <1>10. storyLength' \in Nat
    BY <1>1, <1>2
  <1> QED  BY <1>1, <1>2, <1>6, <1>7, <1>8, <1>9, <1>10, CodecStep

LEMMA ReloadSteps ==
    ASSUME CodecInv, ReloadStory
    PROVE  CodecInv'
  <1>1. /\ story' = storyStored /\ storyStored' = storyStored /\ archiveFiles' = archiveFiles
        /\ storyLength' = storyLength
    BY DEF ReloadStory
  <1>2. Like(Tale(archiveFiles, story), Tale(archiveFiles, storyStored))
    BY TaleLike DEF CodecInv
  <1>3. Tells(Tale(archiveFiles, storyStored), storyLength)
    BY <1>2, TellsLike DEF CodecInv
  <1>4. Like(storyStored, storyStored) /\ Words(storyStored, storyStored)
    BY LikeSelf DEF Words
  <1> QED  BY <1>1, <1>3, <1>4 DEF CodecInv

(* A list cut in three.                                                     *)
Cut(list, i, j, pre, mid, post) ==
    /\ pre = SubSeq(list, 1, i - 1) /\ post = SubSeq(list, j + 1, Len(list))
    /\ list = (pre \o mid) \o post /\ Len(mid) = j - i + 1
    /\ \A k \in 1..(j - i + 1) : mid[k] = list[i + k - 1]

LEMMA CutInThree ==
    ASSUME NEW S, NEW list \in Seq(S), NEW i \in 1..Len(list), NEW j \in 1..Len(list), i <= j
    PROVE  \E pre, mid, post \in Seq(S) : Cut(list, i, j, pre, mid, post)
  <1> DEFINE pre == SubSeq(list, 1, i - 1)
             mid == SubSeq(list, i, j)
             post == SubSeq(list, j + 1, Len(list))
             front == pre \o mid
             all == front \o post
  <1>0. Len(list) \in Nat /\ i \in Nat /\ j \in Nat /\ 1 <= i /\ i <= j /\ j <= Len(list)
    OBVIOUS
  <1>1. /\ pre \in Seq(S) /\ Len(pre) = i - 1 /\ \A k \in 1..(i - 1) : pre[k] = list[k]
    OBVIOUS
  <1>2. /\ mid \in Seq(S) /\ Len(mid) = j - i + 1
        /\ \A k \in 1..(j - i + 1) : mid[k] = list[i + k - 1]
    OBVIOUS
  <1>3. /\ post \in Seq(S) /\ Len(post) = Len(list) - j
        /\ \A k \in 1..(Len(list) - j) : post[k] = list[j + k]
    OBVIOUS
  <1> HIDE DEF pre, mid, post
  <1>4. /\ front \in Seq(S) /\ DOMAIN front = 1..Len(pre) + Len(mid)
        /\ \A k \in 1..Len(pre) : front[k] = pre[k]
        /\ \A k \in 1..Len(mid) : front[Len(pre) + k] = mid[k]
    <2>1. pre \in Seq(S) /\ mid \in Seq(S)
      BY <1>1, <1>2
    <2> QED  BY ONLY <2>1, Joined
  <1> HIDE DEF front
  <1>5. Len(front) = j
    <2>1. Len(pre) + Len(mid) = j /\ j \in Nat
      BY <1>0, <1>1, <1>2
    <2> QED  BY <1>4, <2>1, LengthOf
  <1>6. /\ all \in Seq(S) /\ DOMAIN all = 1..Len(front) + Len(post)
        /\ \A k \in 1..Len(front) : all[k] = front[k]
        /\ \A k \in 1..Len(post) : all[Len(front) + k] = post[k]
    <2>1. front \in Seq(S) /\ post \in Seq(S)
      BY <1>3, <1>4
    <2> QED  BY ONLY <2>1, Joined
  <1> HIDE DEF all
  <1>7. Len(all) = Len(list)
    <2>1. Len(front) + Len(post) = Len(list)
      BY <1>0, <1>3, <1>5
    <2> QED  BY <1>0, <1>6, <2>1, LengthOf
  <1>8. ASSUME NEW k \in 1..Len(list) PROVE list[k] = all[k]
    <2>1. CASE k <= i - 1
      <3>1. k \in 1..(i - 1) /\ k \in 1..Len(pre) /\ k \in 1..Len(front)
        BY <1>0, <1>1, <1>5, <2>1
      <3> QED  BY <1>1, <1>4, <1>6, <3>1
    <2>2. CASE i <= k /\ k <= j
      <3> DEFINE l == k - i + 1
      <3>1. l \in 1..(j - i + 1) /\ l \in 1..Len(mid) /\ Len(pre) + l = k /\ i + l - 1 = k
            /\ k \in 1..Len(front)
        BY <1>0, <1>1, <1>2, <1>5, <2>2
      <3> HIDE DEF l
      <3>2. all[k] = front[k]
        BY <1>6, <3>1
      <3>3. front[Len(pre) + l] = mid[l] /\ mid[l] = list[i + l - 1]
        BY <1>2, <1>4, <3>1
      <3> QED  BY <3>1, <3>2, <3>3
    <2>3. CASE j + 1 <= k
      <3> DEFINE l == k - j
      <3>1. l \in 1..(Len(list) - j) /\ l \in 1..Len(post) /\ Len(front) + l = k /\ j + l = k
        BY <1>0, <1>3, <1>5, <2>3
      <3> HIDE DEF l
      <3>2. all[Len(front) + l] = post[l] /\ post[l] = list[j + l]
        BY <1>3, <1>6, <3>1
      <3> QED  BY <3>1, <3>2
    <2> QED  BY <1>0, <2>1, <2>2, <2>3
  <1>9. list = all
    BY <1>6, <1>7, <1>8, SameList
  <1>10. Cut(list, i, j, pre, mid, post)
    BY <1>2, <1>9 DEF Cut, all, front, pre, post
  <1> QED  BY <1>1, <1>2, <1>3, <1>10

LEMMA OfLists ==
    ASSUME NEW n, NEW ts, ts \in Seq(TurnsTo(n))
    PROVE  ts \in ListsTo(n)
  BY DEF ListsTo

LEMMA ArchiveSteps ==
    ASSUME CodecInv, NEW i \in DOMAIN story, NEW j \in DOMAIN story, i <= j, ArchiveRange(i, j)
    PROVE  CodecInv'
  <1> DEFINE fs == archiveFiles
             n == Len(fs)
             file == [k \in 1..(j - i + 1) |-> AsArchived(story[i + k - 1])]
             gs == Append(fs, file)
             t == [StoryTurn(0, "archive") EXCEPT !.file = n + 1]
  <1>1. /\ CodecFiles(fs) /\ Short(fs) /\ story \in ListsTo(n)
        /\ Tells(Tale(fs, story), storyLength) /\ storyLength \in Nat
    BY DEF CodecInv
  <1>2. /\ n \in Nat /\ n <= MaxFiles /\ MaxFiles \in Nat /\ fs \in Seq(Seq(CodecTurns))
        /\ DOMAIN fs = 1..n
    BY <1>1, FilesCount DEF CodecFiles
  <1>3. /\ n < MaxFiles /\ archiveFiles' = gs /\ storyStored' = AllStored(story')
        /\ storyLength' = storyLength
    BY DEF ArchiveRange
  <1>4. story \in Seq(TurnsTo(n)) /\ i \in 1..Len(story) /\ j \in 1..Len(story)
    BY <1>1 DEF ListsTo
  <1>4a. \E pre, mid, post \in Seq(TurnsTo(n)) : Cut(story, i, j, pre, mid, post)
    <2> DEFINE all == TurnsTo(n)
    <2>1. story \in Seq(all) /\ i \in 1..Len(story) /\ j \in 1..Len(story) /\ i <= j
      BY <1>4
    <2> HIDE DEF all
    <2>2. \E pre, mid, post \in Seq(all) : Cut(story, i, j, pre, mid, post)
      BY ONLY <2>1, CutInThree
    <2> QED  BY <2>2 DEF all
  <1>4b. PICK pre, mid, post \in Seq(TurnsTo(n)) : Cut(story, i, j, pre, mid, post)
    BY <1>4a
  <1>5. /\ pre = SubSeq(story, 1, i - 1) /\ post = SubSeq(story, j + 1, Len(story))
        /\ story = (pre \o mid) \o post /\ Len(mid) = j - i + 1
        /\ \A k \in 1..(j - i + 1) : mid[k] = story[i + k - 1]
    BY <1>4b DEF Cut
  <1>6. /\ file \in ListsTo(n) /\ Like(mid, file)
    <2>1. ASSUME NEW k \in 1..(j - i + 1)
          PROVE  /\ AsArchived(story[i + k - 1]) \in TurnsTo(n)
                 /\ LikeTurn(mid[k], AsArchived(story[i + k - 1]))
      <3>1. k \in 1..Len(mid) /\ mid[k] = story[i + k - 1]
        BY <1>5
      <3>2. mid[k] \in TurnsTo(n)
        <4> DEFINE all == TurnsTo(n)
        <4>1. mid \in Seq(all)
          BY <1>4b
        <4> HIDE DEF all
        <4>2. mid[k] \in all
          BY <3>1, <4>1
        <4> QED  BY <4>2 DEF all
      <3>3. AsArchived(mid[k]) \in TurnsTo(n) /\ LikeTurn(mid[k], AsArchived(mid[k]))
        BY <3>2, TablesName, ThroughGood DEF AsArchived
      <3> QED  BY <3>1, <3>3
    <2>2. j - i + 1 \in Nat
      BY <1>4
    <2> DEFINE arch(k) == AsArchived(story[i + k - 1])
    <2> HIDE DEF n, arch
    <2>3. file = [k \in 1..(j - i + 1) |-> arch(k)]
      BY DEF arch
    <2>4. \A k \in 1..(j - i + 1) : arch(k) \in TurnsTo(n) /\ LikeTurn(mid[k], arch(k))
      BY <2>1 DEF arch
    <2> HIDE DEF file
    <2>5. file \in Seq(TurnsTo(n)) /\ Len(file) = j - i + 1
          /\ \A k \in 1..(j - i + 1) : file[k] = arch(k)
      BY <2>2, <2>3, <2>4
    <2> QED  BY <1>5, <2>4, <2>5, OfLists DEF Like
  <1> HIDE DEF file
  <1>7. /\ gs \in Seq(Seq(CodecTurns)) /\ Len(gs) = n + 1 /\ gs[n + 1] = file
        /\ \A a \in 1..n : gs[a] = fs[a]
    <2>1. file \in Seq(CodecTurns)
      BY <1>6, ListsAre
    <2> QED  BY <1>2, <2>1, Appended
  <1> HIDE DEF gs
  <1>8. CodecFiles(gs) /\ Short(gs) /\ StartsAs(fs, gs)
    <2>1. ASSUME NEW a \in DOMAIN gs PROVE gs[a] \in ListsTo(a - 1)
      <3>1. a \in 1..n \/ a = n + 1
        BY <1>2, <1>7
      <3>2. CASE a \in 1..n
        <4>1. fs[a] \in ListsTo(a - 1)
          BY <1>1, <1>2, <3>2 DEF CodecFiles
        <4> QED  BY <1>7, <3>2, <4>1
      <3>3. CASE a = n + 1
        <4>1. a - 1 = n
          BY <1>2, <3>3
        <4> QED  BY <1>6, <1>7, <3>3, <4>1
      <3> QED  BY <3>1, <3>2, <3>3
    <2>2. n + 1 <= MaxFiles /\ n <= n + 1
      BY <1>2, <1>3
    <2> QED  BY <1>7, <2>1, <2>2 DEF CodecFiles, Short, StartsAs
  <1>9. t \in TurnsTo(n + 1) /\ t.kind = "archive" /\ t.file = n + 1
    <2> DEFINE m == n + 1
    <2>1. m \in Nat \ {0}
      BY <1>2
    <2> HIDE DEF m
    <2>2. /\ [StoryTurn(0, "archive") EXCEPT !.file = m] \in TurnsTo(m)
          /\ [StoryTurn(0, "archive") EXCEPT !.file = m].kind = "archive"
          /\ [StoryTurn(0, "archive") EXCEPT !.file = m].file = m
      BY <2>1, ArchiveTurnGood
    <2> QED  BY <2>2 DEF m
  <1>10. story' = (pre \o <<t>>) \o post
    <2>1. Len(archiveFiles') = n + 1
      BY <1>3, <1>7
    <2>2. story' = SubSeq(story, 1, i - 1) \o <<t>> \o SubSeq(story, j + 1, Len(story))
      BY <2>1 DEF ArchiveRange
    <2> HIDE DEF t
    <2> QED  BY <1>5, <2>2
  <1> HIDE DEF t
  <1>11. /\ pre \in ListsTo(n) /\ mid \in ListsTo(n) /\ post \in ListsTo(n)
    BY <1>4b, OfLists
  <1>12. Tale(fs, story) = Tale(gs, story)
    BY <1>1, <1>8, TaleMore
  <1>13. /\ pre \in ListsTo(Len(gs)) /\ mid \in ListsTo(Len(gs)) /\ post \in ListsTo(Len(gs))
         /\ file \in ListsTo(Len(gs))
    <2>1. n + 1 \in Nat /\ n <= n + 1
      BY <1>2
    <2> HIDE DEF n
    <2> QED  BY <1>2, <1>6, <1>7, <1>11, <2>1, ListsGrow
  <1>14. <<t>> \in ListsTo(Len(gs)) /\ Tale(gs, <<t>>) = Tale(gs, file)
    <2>1. t \in TurnsTo(Len(gs)) /\ gs[t.file] = file
      BY <1>7, <1>9
    <2> QED  BY <1>8, <1>9, <2>1, TaleArchive
  <1>15. Like(Tale(gs, mid), Tale(gs, <<t>>))
    <2>1. Like(Tale(gs, mid), Tale(gs, file))
      BY <1>6, <1>8, <1>13, TaleLike
    <2> QED  BY <1>14, <2>1
  <1> DEFINE old == (pre \o mid) \o post
             new == (pre \o <<t>>) \o post
  <1>16. new \in ListsTo(Len(gs)) /\ Like(Tale(gs, old), Tale(gs, new))
    BY <1>8, <1>13, <1>14, <1>15, TaleReplaced
  <1>17. old = story /\ new = story'
    BY <1>5, <1>10
  <1> HIDE DEF old, new
  <1>18. Tells(Tale(gs, story'), storyLength)
    BY <1>1, <1>12, <1>16, <1>17, TellsLike
  <1> QED  BY <1>1, <1>3, <1>8, <1>16, <1>17, <1>18, CodecStep

LEMMA UnarchiveSteps ==
    ASSUME CodecInv, NEW i \in DOMAIN story, UnarchiveAt(i)
    PROVE  CodecInv'
  <1> DEFINE fs == archiveFiles
             n == Len(fs)
             t == story[i]
             file == fs[t.file]
  <1>1. /\ CodecFiles(fs) /\ Short(fs) /\ story \in ListsTo(n)
        /\ Tells(Tale(fs, story), storyLength) /\ storyLength \in Nat
    BY DEF CodecInv
  <1>2. /\ t.kind = "archive" /\ archiveFiles' = fs /\ storyStored' = AllStored(story')
        /\ storyLength' = storyLength
        /\ story' = SubSeq(story, 1, i - 1) \o file \o SubSeq(story, i + 1, Len(story))
    BY DEF UnarchiveAt
  <1>3. story \in Seq(TurnsTo(n)) /\ i \in 1..Len(story) /\ i <= i /\ t \in TurnsTo(n)
    BY <1>1 DEF ListsTo
  <1>3a. \E pre, mid, post \in Seq(TurnsTo(n)) : Cut(story, i, i, pre, mid, post)
    <2> DEFINE all == TurnsTo(n)
    <2>1. story \in Seq(all) /\ i \in 1..Len(story) /\ i <= i
      BY <1>3
    <2> HIDE DEF all
    <2>2. \E pre, mid, post \in Seq(all) : Cut(story, i, i, pre, mid, post)
      BY ONLY <2>1, CutInThree
    <2> QED  BY <2>2 DEF all
  <1>3b. PICK pre, mid, post \in Seq(TurnsTo(n)) : Cut(story, i, i, pre, mid, post)
    BY <1>3a
  <1>4. /\ pre = SubSeq(story, 1, i - 1) /\ post = SubSeq(story, i + 1, Len(story))
        /\ story = (pre \o mid) \o post /\ Len(mid) = i - i + 1
        /\ \A k \in 1..(i - i + 1) : mid[k] = story[i + k - 1]
    BY <1>3b DEF Cut
  <1>5. mid = <<t>>
    <2>1. i - i + 1 = 1 /\ i + 1 - 1 = i
      BY <1>3
    <2>2. Len(mid) = 1 /\ 1 \in 1..(i - i + 1)
      BY <1>4, <2>1
    <2>3. mid[1] = story[i + 1 - 1]
      BY <1>4, <2>2
    <2>4. mid[1] = t
      BY <2>1, <2>3
    <2> DEFINE all == TurnsTo(n)
    <2>5. mid \in Seq(all)
      BY <1>3b
    <2> HIDE DEF t, all
    <2> QED  BY <2>2, <2>4, <2>5
  <1> HIDE DEF file
  <1>6. story' = (pre \o file) \o post
    BY <1>2, <1>4
  <1> HIDE DEF t
  <1>7. /\ <<t>> \in ListsTo(n) /\ file \in ListsTo(n) /\ Tale(fs, <<t>>) = Tale(fs, file)
    BY <1>1, <1>2, <1>3, TaleArchive DEF file
  <1>8. /\ pre \in ListsTo(n) /\ post \in ListsTo(n) /\ Like(Tale(fs, <<t>>), Tale(fs, file))
    BY <1>3b, <1>7, LikeSelf, OfLists
  <1> DEFINE old == (pre \o <<t>>) \o post
             new == (pre \o file) \o post
  <1>9. new \in ListsTo(n) /\ Like(Tale(fs, old), Tale(fs, new))
    BY <1>1, <1>7, <1>8, TaleReplaced
  <1>10. old = story /\ new = story'
    BY <1>4, <1>5, <1>6
  <1> HIDE DEF old, new
  <1>11. Tells(Tale(fs, story'), storyLength)
    BY <1>1, <1>9, <1>10, TellsLike
  <1> QED  BY <1>1, <1>2, <1>9, <1>10, <1>11, CodecStep

LEMMA CodecStays ==
    ASSUME CodecInv, UNCHANGED codecVars
    PROVE  CodecInv'
  BY DEF CodecInv, codecVars

(* What the invariant is for.                                               *)
LEMMA CodecTells == CodecInv => StoryKept
  <1> SUFFICES ASSUME CodecInv PROVE StoryKept
    OBVIOUS
  <1> DEFINE whole == Tale(archiveFiles, story)
  <1>1. WholeStory = whole
    BY WholeIsTale
  <1>2. whole \in Seq(CodecTurns) /\ Tells(whole, storyLength)
    BY TaleType DEF CodecInv
  <1> HIDE DEF whole
  <1>3. DOMAIN whole = 1..storyLength /\ \A i \in 1..storyLength : whole[i].of = i
    BY <1>2 DEF Tells
  <1>4. StoryWhole
    BY <1>1, <1>3 DEF StoryWhole
  <1>5. NamesKept
    <2>1. \A i \in DOMAIN whole : Named(whole[i])
      BY <1>2 DEF CodecTurns
    <2> QED  BY <1>1, <2>1 DEF NamesKept, Named
  <1>6. WordsStored
    BY DEF CodecInv, Words, WordsStored
  <1> QED  BY <1>4, <1>5, <1>6 DEF StoryKept

(* What is read from disk tells the story that was written, turn by turn,   *)
(* with the names it needs and the words that were said, though the archive *)
(* and the session have each a codec of their own (StoryKept).              *)
THEOREM StoryKeptCorrect == CodecSpec => []StoryKept
  <1>1. CodecInit => CodecInv
    BY CodecStart
  <1>2. CodecInv /\ [CodecNext]_codecVars => CodecInv'
    <2> SUFFICES ASSUME CodecInv, [CodecNext]_codecVars PROVE CodecInv'
      OBVIOUS
    <2>1. CASE \E k \in Kinds : SayBlock(k)
      BY <2>1, SaySteps
    <2>2. CASE ReloadStory
      BY <2>2, ReloadSteps
    <2>3. CASE \E i, j \in DOMAIN story : i <= j /\ ArchiveRange(i, j)
      BY <2>3, ArchiveSteps
    <2>4. CASE \E i \in DOMAIN story : UnarchiveAt(i)
      BY <2>4, UnarchiveSteps
    <2>5. CASE UNCHANGED codecVars
      BY <2>5, CodecStays
    <2> QED  BY <2>1, <2>2, <2>3, <2>4, <2>5 DEF CodecNext
  <1>3. CodecInv => StoryKept
    BY CodecTells
  <1> QED  BY <1>1, <1>2, <1>3, PTL DEF CodecSpec
================================================================================
