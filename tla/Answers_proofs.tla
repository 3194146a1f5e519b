--------------------------- MODULE Answers_proofs ---------------------------
(***************************************************************************)
(* Proofs about one exchange of the runner: whatever is streamed, called,  *)
(* sent meanwhile or stopped, and however many exchanges there are.        *)
(***************************************************************************)
EXTENDS ToolLoop, ForkContext, Lists_proofs, FiniteSetTheorems

-----------------------------------------------------------------------------
(* Turns, the runner's state, and what its operations make of it            *)

Speech == {"text", "thinking"}

Turns ==
    [id : Nat, kind : {"user", "text", "thinking", "use", "result", "marker", "error"},
     text : Seq(Int), call : Nat, group : Nat, ask : Nat, exchange : Int,
     mode : {"full", "drop", "summary"}, steers : BOOLEAN, replies : BOOLEAN]

Runners ==
    [turns : Seq(Turns), fresh : Nat, buffer : Seq(Int), kind : {"none", "text", "thinking"},
     pending : Nat, initial : Nat, own : Nat, tools : Nat, textTools : Nat,
     steered : BOOLEAN, current : Nat, content : Seq(Int), group : Nat, waiting : Nat]

LEMMA TurnType ==
    ASSUME NEW id \in Nat, NEW kind \in {"user", "text", "thinking", "use", "result", "marker", "error"},
           NEW text \in Seq(Int), NEW call \in Nat, asks \in Nat
    PROVE  Turn(id, kind, text, call) \in Turns
  BY DEF Turn, Turns

LEMMA TurnMarked ==
    ASSUME NEW t \in Turns
    PROVE  /\ \A g \in Nat : [t EXCEPT !.group = g] \in Turns
           /\ \A e \in Int : [t EXCEPT !.exchange = e] \in Turns
           /\ \A b \in BOOLEAN : [t EXCEPT !.steers = b] \in Turns
           /\ \A b \in BOOLEAN : [t EXCEPT !.replies = b] \in Turns
           /\ \A a \in Nat, e \in Int : [t EXCEPT !.ask = a, !.exchange = e] \in Turns
  BY DEF Turns

(* What a new turn leaves alone.                                            *)
Framed(x, y) ==
    /\ y.initial = x.initial /\ y.tools = x.tools /\ y.textTools = x.textTools
    /\ y.group = x.group /\ y.waiting = x.waiting
Same(x, y) ==
    /\ Framed(x, y)
    /\ y.buffer = x.buffer /\ y.kind = x.kind /\ y.pending = x.pending /\ y.steered = x.steered
    /\ y.current = x.current /\ y.content = x.content

LEMMA AddFields ==
    ASSUME NEW x \in Runners, NEW t \in Turns
    PROVE  /\ Add(x, t) \in Runners
           /\ Add(x, t).turns = Append(x.turns, t)
           /\ Add(x, t).fresh = IF t.id > x.fresh THEN t.id ELSE x.fresh
           /\ Add(x, t).own = x.own + 1
           /\ Same(x, Add(x, t))
  <1>1. t.id \in Nat
    BY DEF Turns
  <1>2. Append(x.turns, t) \in Seq(Turns)
    BY DEF Runners
  <1> DEFINE y == Add(x, t)
             list == Append(x.turns, t)
  <1>3. y = [x EXCEPT !.turns = list, !.fresh = IF t.id > x.fresh THEN t.id ELSE x.fresh, !.own = x.own + 1]
    BY DEF Add
  <1> HIDE DEF y, list
  <1>4. list \in Seq(Turns) /\ x.own + 1 \in Nat /\ (IF t.id > x.fresh THEN t.id ELSE x.fresh) \in Nat
    BY <1>1, <1>2 DEF list, Runners
  <1>5. y \in Runners
    BY <1>3, <1>4 DEF Runners
  <1>6. /\ y.turns = list /\ y.fresh = (IF t.id > x.fresh THEN t.id ELSE x.fresh) /\ y.own = x.own + 1
        /\ Same(x, y)
    BY <1>3 DEF Runners, Same, Framed
  <1> QED  BY <1>5, <1>6 DEF y, list

(* The turn that Flush makes.                                               *)
FlushId(x) == IF x.pending # 0 THEN x.pending ELSE IF x.own = 0 THEN x.initial ELSE x.fresh + 1
FlushTurn(x) == [Turn(FlushId(x), x.kind, x.buffer, 0) EXCEPT !.replies = x.steered]

LEMMA FlushFields ==
    ASSUME NEW x \in Runners, asks \in Nat, Wordy(x.buffer) # <<>>, x.kind \in Speech
    PROVE  /\ FlushTurn(x) \in Turns /\ FlushTurn(x).id = FlushId(x) /\ FlushTurn(x).text = x.buffer
           /\ FlushTurn(x).kind = x.kind /\ FlushTurn(x).ask = asks
           /\ Flush(x) \in Runners
           /\ Flush(x).turns = Append(x.turns, FlushTurn(x))
           /\ Flush(x).fresh = IF FlushId(x) > x.fresh THEN FlushId(x) ELSE x.fresh
           /\ Flush(x).own = x.own + 1 /\ Flush(x).buffer = <<>> /\ Flush(x).kind = "none"
           /\ Flush(x).pending = 0
           /\ Flush(x).current = IF x.pending = 0 THEN FlushId(x) ELSE x.current
           /\ Flush(x).content = IF x.pending = 0 THEN <<>> ELSE x.content
           /\ Framed(x, Flush(x))
  <1>1. /\ FlushId(x) \in Nat /\ x.buffer \in Seq(Int) /\ x.steered \in BOOLEAN
        /\ x.kind \in {"user", "text", "thinking", "use", "result", "marker", "error"} /\ 0 \in Nat
    BY DEF FlushId, Runners, Speech
  <1>2. FlushTurn(x) \in Turns
    <2> DEFINE i == FlushId(x)
               b == x.steered
    <2>1. i \in Nat /\ b \in BOOLEAN
      BY <1>1
    <2> HIDE DEF i, b
    <2>2. Turn(i, x.kind, x.buffer, 0) \in Turns
      BY <1>1, <2>1, TurnType
    <2>3. [Turn(i, x.kind, x.buffer, 0) EXCEPT !.replies = b] \in Turns
      BY <2>1, <2>2, TurnMarked
    <2> QED  BY <2>3 DEF FlushTurn, i, b
  <1>3. /\ FlushTurn(x).id = FlushId(x) /\ FlushTurn(x).text = x.buffer
        /\ FlushTurn(x).kind = x.kind /\ FlushTurn(x).ask = asks
    BY DEF FlushTurn, Turn
  <1> DEFINE y == Add(x, FlushTurn(x))
  <1>4. Flush(x) = [y EXCEPT !.buffer = <<>>, !.kind = "none", !.pending = 0,
                      !.steered = FALSE,
                      !.current = IF x.pending = 0 THEN FlushId(x) ELSE x.current,
                      !.content = IF x.pending = 0 THEN <<>> ELSE x.content]
    BY DEF Flush, FlushId, FlushTurn
  <1>5. /\ y \in Runners /\ y.turns = Append(x.turns, FlushTurn(x))
        /\ y.fresh = IF FlushId(x) > x.fresh THEN FlushId(x) ELSE x.fresh
        /\ y.own = x.own + 1
        /\ Same(x, y)
    BY <1>2, <1>3, AddFields
  <1> HIDE DEF y
  <1>6. x.content \in Seq(Int) /\ x.current \in Nat
    BY DEF Runners
  <1>7. Flush(x) \in Runners
    <2>1. /\ (IF x.pending = 0 THEN FlushId(x) ELSE x.current) \in Nat
          /\ (IF x.pending = 0 THEN <<>> ELSE x.content) \in Seq(Int)
      BY <1>1, <1>6
    <2> DEFINE i == IF x.pending = 0 THEN FlushId(x) ELSE x.current
               none == "none"
               empty == <<>>
               c == IF x.pending = 0 THEN <<>> ELSE x.content
    <2>2. Flush(x) = [y EXCEPT !.buffer = empty, !.kind = none, !.pending = 0,
                      !.steered = FALSE, !.current = i, !.content = c]
      BY <1>4
    <2> HIDE DEF i, c, none, empty
    <2>3. /\ i \in Nat /\ c \in Seq(Int) /\ empty \in Seq(Int) /\ 0 \in Nat /\ FALSE \in BOOLEAN
          /\ none \in {"none", "text", "thinking"}
      BY <2>1 DEF i, c, none, empty
    <2>4. y \in Runners
      BY <1>5
    <2> QED  BY ONLY ZenonT(60), <2>2, <2>3, <2>4 DEF Runners
  <1>8. /\ Flush(x).turns = y.turns /\ Flush(x).fresh = y.fresh /\ Flush(x).own = y.own
        /\ Flush(x).buffer = <<>> /\ Flush(x).kind = "none" /\ Flush(x).pending = 0
        /\ Flush(x).current = (IF x.pending = 0 THEN FlushId(x) ELSE x.current)
        /\ Flush(x).content = (IF x.pending = 0 THEN <<>> ELSE x.content)
        /\ Framed(y, Flush(x))
    BY <1>4, <1>5 DEF Runners, Framed
  <1> QED  BY <1>2, <1>3, <1>5, <1>7, <1>8 DEF Same, Framed

LEMMA WordyType == ASSUME NEW text \in Seq(Int) PROVE Wordy(text) \in Seq(Int)
  BY KeptRange DEF Wordy

LEMMA WordyNone == Wordy(<<>>) = <<>>
  BY KeptNone DEF Wordy

LEMMA WordyAppend ==
    ASSUME NEW text \in Seq(Int), NEW p \in Int
    PROVE  Wordy(Append(text, p)) = IF p # Blank THEN Append(Wordy(text), p) ELSE Wordy(text)
  <1>1. p \in Int \ {Blank} <=> p # Blank
    OBVIOUS
  <1> DEFINE S == Int \ {Blank}
  <1> HIDE DEF S
  <1>2. Kept(Append(text, p), S) = IF p \in S THEN Append(Kept(text, S), p) ELSE Kept(text, S)
    BY KeptAppend
  <1> QED  BY <1>1, <1>2 DEF Wordy, S

(* What is spoken in exchange a.                                            *)
SpeechOf(t, a) == IF t.ask = a /\ t.kind \in Speech THEN Wordy(t.text) ELSE <<>>
Spoken(x, a) == Flat([k \in DOMAIN x.turns |-> SpeechOf(x.turns[k], a)])

LEMMA SpeechType == ASSUME NEW t \in Turns, NEW a PROVE SpeechOf(t, a) \in Seq(Int)
  <1>1. t.text \in Seq(Int) /\ <<>> \in Seq(Int)
    BY DEF Turns
  <1> QED  BY <1>1, WordyType DEF SpeechOf

LEMMA SpeechListType ==
    ASSUME NEW list \in Seq(Turns), NEW a
    PROVE  /\ [k \in DOMAIN list |-> SpeechOf(list[k], a)] \in Seq(Seq(Int))
           /\ Len([k \in DOMAIN list |-> SpeechOf(list[k], a)]) = Len(list)
  <1>1. \A k \in 1..Len(list) : SpeechOf(list[k], a) \in Seq(Int)
    BY SpeechType
  <1>2. DOMAIN list = 1..Len(list) /\ Len(list) \in Nat
    OBVIOUS
  <1> DEFINE f == [k \in DOMAIN list |-> SpeechOf(list[k], a)]
  <1>3. f \in [1..Len(list) -> Seq(Int)]
    BY <1>1, <1>2
  <1>4. DOMAIN f = 1..Len(list)
    BY <1>2
  <1> HIDE DEF f
  <1>5. f \in Seq(Seq(Int))
    BY <1>2, <1>3
  <1>6. Len(f) = Len(list)
    BY <1>2, <1>4, <1>5, LengthOf
  <1> QED  BY <1>5, <1>6 DEF f

LEMMA SpokenAppend ==
    ASSUME NEW x \in Runners, NEW y \in Runners, NEW t \in Turns, NEW a,
           y.turns = Append(x.turns, t)
    PROVE  Spoken(y, a) = Spoken(x, a) \o SpeechOf(t, a)
  <1> DEFINE old == [k \in DOMAIN x.turns |-> SpeechOf(x.turns[k], a)]
             new == [k \in DOMAIN y.turns |-> SpeechOf(y.turns[k], a)]
             v == SpeechOf(t, a)
  <1>1. x.turns \in Seq(Turns) /\ y.turns \in Seq(Turns)
    BY DEF Runners
  <1>2. /\ old \in Seq(Seq(Int)) /\ Len(old) = Len(x.turns)
        /\ new \in Seq(Seq(Int)) /\ Len(new) = Len(y.turns)
    BY <1>1, SpeechListType
  <1>3. v \in Seq(Int)
    BY SpeechType
  <1>4. /\ Len(y.turns) = Len(x.turns) + 1 /\ Len(x.turns) \in Nat
        /\ \A i \in 1..Len(x.turns) : y.turns[i] = x.turns[i]
        /\ y.turns[Len(x.turns) + 1] = t
    BY <1>1, Appended
  <1>5. /\ \A k \in 1..Len(x.turns) : old[k] = SpeechOf(x.turns[k], a)
        /\ \A k \in 1..Len(y.turns) : new[k] = SpeechOf(y.turns[k], a)
    BY <1>1
  <1> HIDE DEF old, new
  <1>6. new = Append(old, v)
    <2> DEFINE m == Append(old, v)
    <2>1. /\ m \in Seq(Seq(Int)) /\ Len(m) = Len(old) + 1
          /\ \A i \in 1..Len(old) : m[i] = old[i]
          /\ m[Len(old) + 1] = v
      BY <1>2, <1>3, Appended
    <2> HIDE DEF m
    <2>2. Len(new) = Len(m)
      BY <1>2, <1>4, <2>1
    <2>3. ASSUME NEW i \in 1..Len(new) PROVE new[i] = m[i]
      <3>1. CASE i \in 1..Len(x.turns)
        BY <1>2, <1>4, <1>5, <2>1, <3>1
      <3>2. CASE i = Len(x.turns) + 1
        BY <1>2, <1>4, <1>5, <2>1, <3>2 DEF v
      <3> QED  BY <1>2, <1>4, <3>1, <3>2
    <2>4. new = m
      BY <1>2, <2>1, <2>2, <2>3, SameList
    <2> QED  BY <2>4 DEF m
  <1> HIDE DEF v
  <1>7. Flat(new) = Flat(old) \o v
    BY <1>2, <1>3, <1>6, FlatAppend
  <1> QED  BY <1>7 DEF Spoken, old, new, v

(* y has the turns of x and others.                                         *)
Grows(x, y) == StartsAs(x.turns, y.turns)

LEMMA SpokenGrown ==
    ASSUME NEW x \in Runners, NEW y \in Runners, NEW a, Grows(x, y),
           \A k \in Len(x.turns) + 1 .. Len(y.turns) : y.turns[k].kind \notin Speech
    PROVE  Spoken(y, a) = Spoken(x, a)
  <1> DEFINE old == [k \in DOMAIN x.turns |-> SpeechOf(x.turns[k], a)]
             new == [k \in DOMAIN y.turns |-> SpeechOf(y.turns[k], a)]
  <1>1. x.turns \in Seq(Turns) /\ y.turns \in Seq(Turns)
    BY DEF Runners
  <1>2. /\ old \in Seq(Seq(Int)) /\ Len(old) = Len(x.turns)
        /\ new \in Seq(Seq(Int)) /\ Len(new) = Len(y.turns)
    BY <1>1, SpeechListType
  <1>3. /\ Len(x.turns) \in Nat /\ Len(y.turns) \in Nat /\ Len(x.turns) <= Len(y.turns)
        /\ \A i \in 1..Len(x.turns) : y.turns[i] = x.turns[i]
    BY <1>1 DEF Grows, StartsAs
  <1>5. /\ \A k \in 1..Len(x.turns) : old[k] = SpeechOf(x.turns[k], a)
        /\ \A k \in 1..Len(y.turns) : new[k] = SpeechOf(y.turns[k], a)
    BY <1>1
  <1> HIDE DEF old, new
  <1>6. StartsAs(old, new)
    BY <1>2, <1>3, <1>5 DEF StartsAs
  <1>7. \A i \in Len(old) + 1 .. Len(new) : new[i] = <<>>
    <2> SUFFICES ASSUME NEW i \in Len(x.turns) + 1 .. Len(y.turns)
                 PROVE  new[i] = <<>>
      BY <1>2
    <2>1. i \in 1..Len(y.turns)
      BY <1>3
    <2>2. y.turns[i].kind \notin Speech
      OBVIOUS
    <2> QED  BY <1>5, <2>1, <2>2 DEF SpeechOf
  <1>8. Flat(new) = Flat(old)
    BY <1>2, <1>6, <1>7, FlatGrown
  <1> QED  BY <1>8 DEF Spoken, old, new

LEMMA SpokenType == ASSUME NEW x \in Runners, NEW a PROVE Spoken(x, a) \in Seq(Int)
  <1>1. x.turns \in Seq(Turns)
    BY DEF Runners
  <1>2. [k \in DOMAIN x.turns |-> SpeechOf(x.turns[k], a)] \in Seq(Seq(Int))
    BY <1>1, SpeechListType
  <1> QED  BY <1>2, FlatType DEF Spoken

IdsFine(x) ==
    /\ \A k \in DOMAIN x.turns : x.turns[k].id <= x.fresh
    /\ \A j, k \in DOMAIN x.turns : x.turns[j].id = x.turns[k].id => j = k

Unused(x, i) == \A k \in DOMAIN x.turns : x.turns[k].id # i

(* The runner has w of what the model said: as turns, and in its buffer.    *)
(* The context holds what the buffer holds, or a turn it was told of.       *)
Whole(x, a, w) ==
    /\ x \in Runners /\ IdsFine(x)
    /\ x.textTools <= x.tools /\ x.current <= x.fresh /\ x.initial <= x.fresh
    /\ x.own = 0 => Unused(x, x.initial)
    /\ x.pending # 0 => x.pending = x.current /\ x.buffer # <<>>
    /\ x.buffer # <<>> => x.content = x.buffer /\ Unused(x, x.current) /\ x.kind \in Speech
    /\ x.buffer = <<>> /\ x.content # <<>> =>
          \E k \in DOMAIN x.turns : x.turns[k].id = x.current /\ x.turns[k].text = x.content
    /\ w = Spoken(x, a) \o Wordy(x.buffer)

(* Where the context's turn is stored, what comes next is of another.       *)
Ready(x) == x.buffer = <<>> /\ ~Unused(x, x.current) => x.tools > x.textTools

LEMMA TurnsIn ==
    ASSUME NEW x \in Runners, NEW k \in DOMAIN x.turns
    PROVE  x.turns[k] \in Turns /\ x.turns[k].id \in Nat
  <1>1. x.turns \in Seq(Turns)
    BY DEF Runners
  <1>2. x.turns[k] \in Turns
    BY <1>1
  <1> QED  BY <1>2 DEF Turns

LEMMA NewIds ==
    ASSUME NEW x \in Runners, NEW y \in Runners, NEW t \in Turns, IdsFine(x), Unused(x, t.id),
           y.turns = Append(x.turns, t),
           y.fresh = IF t.id > x.fresh THEN t.id ELSE x.fresh
    PROVE  /\ IdsFine(y) /\ Grows(x, y) /\ x.fresh <= y.fresh /\ t.id <= y.fresh
           /\ y.turns[Len(x.turns) + 1] = t /\ Len(y.turns) = Len(x.turns) + 1
           /\ Len(x.turns) + 1 \in DOMAIN y.turns
           /\ \A i \in Nat : Unused(x, i) /\ i # t.id => Unused(y, i)
  <1>1. x.turns \in Seq(Turns) /\ y.turns \in Seq(Turns) /\ x.fresh \in Nat /\ t.id \in Nat
    BY DEF Runners, Turns
  <1> DEFINE n == Len(x.turns)
  <1>2. /\ Len(y.turns) = n + 1 /\ n \in Nat
        /\ \A i \in 1..n : y.turns[i] = x.turns[i]
        /\ y.turns[n + 1] = t
    BY <1>1, Appended
  <1>3. DOMAIN x.turns = 1..n /\ DOMAIN y.turns = 1..n + 1
    BY <1>1, <1>2
  <1> HIDE DEF n
  <1>4. \A k \in 1..n + 1 : k \in 1..n \/ k = n + 1
    BY <1>2
  <1>5. \A k \in 1..n : x.turns[k].id \in Nat /\ x.turns[k].id <= x.fresh /\ x.turns[k].id # t.id
    BY <1>3, TurnsIn DEF IdsFine, Unused
  <1>6. x.fresh <= y.fresh /\ t.id <= y.fresh /\ y.fresh \in Nat
    BY <1>1
  <1>7. ASSUME NEW k \in 1..n + 1 PROVE y.turns[k].id <= y.fresh
    <2>1. CASE k \in 1..n
      BY <1>1, <1>2, <1>5, <1>6, <2>1
    <2>2. CASE k = n + 1
      BY <1>2, <1>6, <2>2
    <2> QED  BY <1>4, <2>1, <2>2
  <1>8. ASSUME NEW j \in 1..n + 1, NEW k \in 1..n + 1, y.turns[j].id = y.turns[k].id
        PROVE  j = k
    <2>1. CASE j \in 1..n /\ k \in 1..n
      <3>1. x.turns[j].id = x.turns[k].id
        BY <1>2, <1>8, <2>1
      <3> QED  BY <1>3, <2>1, <3>1 DEF IdsFine
    <2>2. CASE j = n + 1 /\ k \in 1..n
      BY <1>2, <1>5, <1>8, <2>2
    <2>3. CASE j \in 1..n /\ k = n + 1
      BY <1>2, <1>5, <1>8, <2>3
    <2> QED  BY <1>4, <2>1, <2>2, <2>3
  <1>9. IdsFine(y)
    BY <1>3, <1>7, <1>8 DEF IdsFine
  <1>10. Grows(x, y)
    BY <1>2 DEF Grows, StartsAs, n
  <1>11. ASSUME NEW i \in Nat, Unused(x, i), i # t.id PROVE Unused(y, i)
    BY <1>2, <1>3, <1>4, <1>11 DEF Unused
  <1>12. n + 1 \in 1..n + 1
    BY <1>2
  <1> QED  BY <1>2, <1>3, <1>6, <1>9, <1>10, <1>11, <1>12 DEF n

LEMMA FreshUnused ==
    ASSUME NEW x \in Runners, IdsFine(x), NEW i \in Nat, i > x.fresh
    PROVE  Unused(x, i)
  <1>1. x.turns \in Seq(Turns) /\ x.fresh \in Nat
    BY DEF Runners
  <1>2. \A k \in DOMAIN x.turns : x.turns[k].id \in Nat /\ x.turns[k].id <= x.fresh
    BY TurnsIn DEF IdsFine
  <1> QED  BY <1>1, <1>2 DEF Unused

LEMMA FlushWhole ==
    ASSUME NEW x, NEW w, asks \in Nat, Whole(x, asks, w)
    PROVE  /\ Whole(Flush(x), asks, w) /\ Wordy(Flush(x).buffer) = <<>>
           /\ Grows(x, Flush(x)) /\ Framed(x, Flush(x)) /\ x.fresh <= Flush(x).fresh
           /\ Wordy(x.buffer) # <<>> => Flush(x).buffer = <<>> /\ Flush(x).pending = 0
  <1>0. x \in Runners
    BY DEF Whole
  <1>1. CASE Wordy(x.buffer) = <<>>
    <2>1. Flush(x) = x
      BY <1>1 DEF Flush
    <2>2. Grows(x, x)
      <3>1. Len(x.turns) \in Nat
        BY <1>0 DEF Runners
      <3> QED  BY <3>1 DEF Grows, StartsAs
    <2>3. x.fresh \in Nat
      BY <1>0 DEF Runners
    <2>4. Framed(x, x)
      BY DEF Framed
    <2> QED  BY <1>1, <2>1, <2>2, <2>3, <2>4
  <1>2. CASE Wordy(x.buffer) # <<>>
    <2> DEFINE y == Flush(x)
               t == FlushTurn(x)
    <2>1. x.buffer # <<>>
      BY <1>2, WordyNone
    <2>2. /\ x.content = x.buffer /\ Unused(x, x.current) /\ x.kind \in Speech
          /\ IdsFine(x)
          /\ x.pending # 0 => x.pending = x.current
          /\ x.own = 0 => Unused(x, x.initial)
          /\ x.textTools <= x.tools /\ x.current <= x.fresh /\ x.initial <= x.fresh
          /\ w = Spoken(x, asks) \o Wordy(x.buffer)
      BY <2>1 DEF Whole
    <2>3. /\ t \in Turns /\ t.id = FlushId(x) /\ t.text = x.buffer
          /\ t.kind = x.kind /\ t.ask = asks
          /\ y \in Runners /\ y.turns = Append(x.turns, t)
          /\ y.fresh = IF FlushId(x) > x.fresh THEN FlushId(x) ELSE x.fresh
          /\ y.own = x.own + 1 /\ y.buffer = <<>> /\ y.kind = "none" /\ y.pending = 0
          /\ y.current = IF x.pending = 0 THEN FlushId(x) ELSE x.current
          /\ y.content = IF x.pending = 0 THEN <<>> ELSE x.content
          /\ Framed(x, y)
      BY <1>0, <1>2, <2>2, FlushFields
    <2> HIDE DEF y, t
    <2>4. /\ x.fresh \in Nat /\ x.current \in Nat /\ x.initial \in Nat /\ x.pending \in Nat
          /\ x.own \in Nat /\ x.tools \in Nat /\ x.textTools \in Nat /\ x.buffer \in Seq(Int)
      BY <1>0 DEF Runners
    <2>5. Unused(x, FlushId(x)) /\ FlushId(x) \in Nat
      <3>1. Unused(x, x.fresh + 1)
        BY <1>0, <2>2, <2>4, FreshUnused
      <3> QED  BY <2>2, <2>4, <3>1 DEF FlushId
    <2>6. /\ IdsFine(y) /\ Grows(x, y) /\ x.fresh <= y.fresh /\ t.id <= y.fresh
          /\ y.turns[Len(x.turns) + 1] = t /\ Len(x.turns) + 1 \in DOMAIN y.turns
      <3>1. y.fresh = (IF t.id > x.fresh THEN t.id ELSE x.fresh) /\ Unused(x, t.id)
        BY <2>3, <2>5
      <3>2. t \in Turns /\ y \in Runners /\ y.turns = Append(x.turns, t) /\ IdsFine(x)
        BY <2>2, <2>3
      <3> HIDE DEF y, t
      <3> QED  BY <1>0, <3>1, <3>2, NewIds
    <2>7. Spoken(y, asks) = Spoken(x, asks) \o Wordy(x.buffer)
      <3>1. SpeechOf(t, asks) = Wordy(x.buffer)
        BY <2>2, <2>3 DEF SpeechOf
      <3>2. Spoken(y, asks) = Spoken(x, asks) \o SpeechOf(t, asks)
        BY <1>0, <2>3, SpokenAppend
      <3> QED  BY <3>1, <3>2
    <2>8. w = Spoken(y, asks) \o Wordy(y.buffer)
      <3>1. Spoken(y, asks) \in Seq(Int)
        BY <2>3, SpokenType
      <3>2. Spoken(y, asks) \o <<>> = Spoken(y, asks)
        BY <3>1
      <3> QED  BY <2>2, <2>3, <2>7, <3>2, WordyNone
    <2>9. y.buffer = <<>> /\ y.content # <<>> =>
             \E k \in DOMAIN y.turns : y.turns[k].id = y.current /\ y.turns[k].text = y.content
      <3> SUFFICES ASSUME y.content # <<>>
                   PROVE  \E k \in DOMAIN y.turns : y.turns[k].id = y.current /\ y.turns[k].text = y.content
        OBVIOUS
      <3>1. x.pending # 0
        BY <2>3
      <3>2. y.current = t.id /\ y.content = t.text
        BY <2>2, <2>3, <3>1 DEF FlushId
      <3> QED  BY <2>6, <3>2
    <2>10. y.current <= y.fresh /\ y.initial <= y.fresh /\ y.textTools <= y.tools
      <3>1. y.fresh \in Nat /\ t.id \in Nat
        BY <2>3 DEF Runners, Turns
      <3>2. y.initial = x.initial /\ y.tools = x.tools /\ y.textTools = x.textTools
        BY <2>3 DEF Framed
      <3>3. y.current = t.id \/ y.current = x.current
        BY <2>3
      <3>4. y.current <= y.fresh
        BY <2>2, <2>4, <2>6, <3>1, <3>3
      <3>5. y.initial <= y.fresh /\ y.textTools <= y.tools
        BY <2>2, <2>4, <2>6, <3>1, <3>2
      <3> QED  BY <3>4, <3>5
    <2>11. y.own # 0
      BY <2>3, <2>4
    <2>12. Whole(y, asks, w)
      BY <2>3, <2>6, <2>8, <2>9, <2>10, <2>11 DEF Whole
    <2> QED  BY <2>3, <2>6, <2>12, WordyNone DEF y
  <1> QED  BY <1>1, <1>2

LEMMA SpokenSame ==
    ASSUME NEW x, NEW y, NEW a, y.turns = x.turns
    PROVE  /\ Spoken(y, a) = Spoken(x, a)
           /\ \A i : Unused(x, i) <=> Unused(y, i)
  BY DEF Spoken, Unused

LEMMA GrowsSame ==
    ASSUME NEW x \in Runners, NEW y \in Runners, y.turns = x.turns
    PROVE  Grows(x, y)
  <1>1. Len(x.turns) \in Nat
    BY DEF Runners
  <1> QED  BY <1>1 DEF Grows, StartsAs

LEMMA GrowsOn ==
    ASSUME NEW x \in Runners, NEW y \in Runners, NEW z \in Runners, Grows(x, y), Grows(y, z)
    PROVE  Grows(x, z)
  <1>0. \A r \in Runners : Len(r.turns) \in Nat
    BY DEF Runners
  <1>1. Len(x.turns) \in Nat /\ Len(y.turns) \in Nat /\ Len(z.turns) \in Nat
    BY <1>0
  <1>2. /\ Len(x.turns) <= Len(y.turns) /\ Len(y.turns) <= Len(z.turns)
    BY DEF Grows, StartsAs
  <1>3. \A i \in 1..Len(x.turns) : i \in 1..Len(y.turns)
    BY <1>1, <1>2
  <1>4. /\ \A i \in 1..Len(x.turns) : y.turns[i] = x.turns[i]
        /\ \A i \in 1..Len(y.turns) : z.turns[i] = y.turns[i]
    BY DEF Grows, StartsAs
  <1>5. \A i \in 1..Len(x.turns) : z.turns[i] = x.turns[i]
    BY <1>3, <1>4
  <1>6. Len(x.turns) <= Len(z.turns)
    BY <1>1, <1>2
  <1> QED  BY <1>5, <1>6 DEF Grows, StartsAs

(* The state in which a delta is taken up, and whether it begins a turn.    *)
Changes(x, kind) == x.kind = (IF kind = "text" THEN "thinking" ELSE "text") /\ Wordy(x.buffer) # <<>>
Before(x, kind) == IF Changes(x, kind) THEN Flush(x) ELSE x
Begins(x, kind) ==
    (Before(x, kind).tools > Before(x, kind).textTools \/ Changes(x, kind)) /\ Before(x, kind).buffer = <<>>

LEMMA DeltaFields ==
    ASSUME NEW x, NEW kind \in Speech, NEW p \in Int, Before(x, kind) \in Runners
    PROVE  LET y == Before(x, kind)
               r == Delta(x, kind, p)
           IN  /\ r \in Runners /\ r.turns = y.turns /\ r.buffer = Append(y.buffer, p) /\ r.kind = kind
               /\ r.initial = y.initial /\ r.own = y.own /\ r.tools = y.tools
               /\ r.fresh = IF Begins(x, kind) THEN y.fresh + 1 ELSE y.fresh
               /\ r.pending = IF Begins(x, kind) THEN y.fresh + 1 ELSE y.pending
               /\ r.current = IF Begins(x, kind) THEN y.fresh + 1 ELSE y.current
               /\ r.content = IF Begins(x, kind) THEN Append(<<>>, p) ELSE Append(y.content, p)
               /\ r.textTools = y.textTools \/ r.textTools = y.tools
  <1> DEFINE y == Before(x, kind)
             z == IF Begins(x, kind)
                  THEN [y EXCEPT !.fresh = y.fresh + 1, !.pending = y.fresh + 1,
                            !.textTools = IF kind = "text" THEN y.tools ELSE y.textTools,
                            !.current = y.fresh + 1, !.content = <<>>]
                  ELSE y
             r == Delta(x, kind, p)
  <1>1. r = [z EXCEPT !.kind = kind, !.buffer = Append(z.buffer, p), !.content = Append(z.content, p)]
    BY DEF Delta, Begins, Before, Changes
  <1>2. y \in Runners
    OBVIOUS
  <1>3. /\ y.fresh + 1 \in Nat /\ <<>> \in Seq(Int)
        /\ (IF kind = "text" THEN y.tools ELSE y.textTools) \in Nat
    BY <1>2 DEF Runners
  <1> HIDE DEF y, r
  <1>4. CASE Begins(x, kind)
    <2> DEFINE f == y.fresh + 1
               e == <<>>
               g == IF kind = "text" THEN y.tools ELSE y.textTools
    <2>1. f \in Nat /\ e \in Seq(Int) /\ g \in Nat
      BY <1>3
    <2>2. z = [y EXCEPT !.fresh = f, !.pending = f, !.textTools = g, !.current = f, !.content = e]
      BY <1>4
    <2>3. g = y.textTools \/ g = y.tools
      OBVIOUS
    <2> HIDE DEF f, e, g, z
    <2>4. /\ z \in Runners /\ z.turns = y.turns /\ z.buffer = y.buffer /\ z.initial = y.initial
          /\ z.own = y.own /\ z.tools = y.tools /\ z.fresh = f /\ z.pending = f /\ z.current = f
          /\ z.textTools = g /\ z.content = e
      BY <1>2, <2>1, <2>2 DEF Runners
    <2>5. Append(z.buffer, p) \in Seq(Int) /\ Append(z.content, p) \in Seq(Int)
      <3>1. z.buffer \in Seq(Int) /\ z.content \in Seq(Int)
        BY <2>4 DEF Runners
      <3> HIDE DEF Begins
      <3> QED  BY <3>1, Appended
    <2> DEFINE b == Append(z.buffer, p)
               c == Append(z.content, p)
    <2>6. r = [z EXCEPT !.kind = kind, !.buffer = b, !.content = c]
      BY <1>1
    <2>7. b \in Seq(Int) /\ c \in Seq(Int) /\ kind \in {"none", "text", "thinking"}
      BY <2>5 DEF Speech
    <2> HIDE DEF b, c
    <2>8. /\ r \in Runners /\ r.turns = z.turns /\ r.buffer = b /\ r.kind = kind
          /\ r.initial = z.initial /\ r.own = z.own /\ r.tools = z.tools /\ r.fresh = z.fresh
          /\ r.pending = z.pending /\ r.current = z.current /\ r.content = c
          /\ r.textTools = z.textTools
      BY <2>4, <2>6, <2>7 DEF Runners
    <2> QED  BY <1>4, <2>3, <2>4, <2>8 DEF b, c, e, f, y, r
  <1>5. CASE ~Begins(x, kind)
    <2>1. z = y
      BY <1>5
    <2>2. Append(y.buffer, p) \in Seq(Int) /\ Append(y.content, p) \in Seq(Int)
      BY <1>2 DEF Runners
    <2> DEFINE b == Append(y.buffer, p)
               c == Append(y.content, p)
    <2>3. r = [y EXCEPT !.kind = kind, !.buffer = b, !.content = c]
      BY <1>1, <2>1
    <2>4. b \in Seq(Int) /\ c \in Seq(Int) /\ kind \in {"none", "text", "thinking"}
      BY <2>2 DEF Speech
    <2> HIDE DEF b, c
    <2>5. /\ r \in Runners /\ r.turns = y.turns /\ r.buffer = b /\ r.kind = kind
          /\ r.initial = y.initial /\ r.own = y.own /\ r.tools = y.tools /\ r.fresh = y.fresh
          /\ r.pending = y.pending /\ r.current = y.current /\ r.content = c
          /\ r.textTools = y.textTools
      BY <1>2, <2>3, <2>4 DEF Runners
    <2> QED  BY <1>5, <2>5 DEF b, c, y, r
  <1> QED  BY <1>4, <1>5

JoinAppends(S) == \A a, b \in Seq(S) : \A p \in S : Append(a \o b, p) = a \o Append(b, p)

LEMMA JoinedThenOne == ASSUME NEW S PROVE JoinAppends(S)
  <1> SUFFICES ASSUME NEW a \in Seq(S), NEW b \in Seq(S), NEW p \in S
               PROVE  Append(a \o b, p) = a \o Append(b, p)
    BY DEF JoinAppends
  <1> DEFINE c == a \o b
             d == Append(b, p)
             f == Append(c, p)
             g == a \o d
  <1>1. /\ c \in Seq(S) /\ DOMAIN c = 1..Len(a) + Len(b)
        /\ \A k \in 1..Len(a) : c[k] = a[k]
        /\ \A k \in 1..Len(b) : c[Len(a) + k] = b[k]
    BY Joined
  <1>2. /\ d \in Seq(S) /\ Len(d) = Len(b) + 1
        /\ \A i \in 1..Len(b) : d[i] = b[i]
        /\ d[Len(b) + 1] = p
    BY Appended
  <1>3. Len(a) \in Nat /\ Len(b) \in Nat
    OBVIOUS
  <1> HIDE DEF c, d
  <1>4. Len(c) = Len(a) + Len(b)
    BY <1>1, <1>3, LengthOf
  <1>5. /\ f \in Seq(S) /\ Len(f) = Len(c) + 1
        /\ \A i \in 1..Len(c) : f[i] = c[i]
        /\ f[Len(c) + 1] = p
    BY <1>1, Appended
  <1>6. /\ g \in Seq(S) /\ DOMAIN g = 1..Len(a) + Len(d)
        /\ \A k \in 1..Len(a) : g[k] = a[k]
        /\ \A k \in 1..Len(d) : g[Len(a) + k] = d[k]
    <2>1. d \in Seq(S)
      BY <1>2
    <2> QED  BY <2>1, Joined
  <1> HIDE DEF f, g
  <1>7. Len(g) = Len(f)
    <2>1. Len(g) = Len(a) + Len(d)
      BY <1>2, <1>3, <1>6, LengthOf
    <2> QED  BY <1>2, <1>3, <1>4, <1>5, <2>1
  <1>8. ASSUME NEW i \in 1..Len(f) PROVE f[i] = g[i]
    <2>1. CASE i <= Len(a)
      BY <1>1, <1>3, <1>4, <1>5, <1>6, <2>1
    <2>2. CASE i > Len(a) /\ i <= Len(a) + Len(b)
      <3>1. i - Len(a) \in 1..Len(b) /\ i - Len(a) \in 1..Len(d) /\ Len(a) + (i - Len(a)) = i /\ i \in 1..Len(c)
        BY <1>2, <1>3, <1>4, <2>2
      <3>2. f[i] = b[i - Len(a)]
        BY <1>1, <1>5, <3>1
      <3>3. g[i] = b[i - Len(a)]
        BY <1>2, <1>6, <3>1
      <3> QED  BY <3>2, <3>3
    <2>3. CASE i = Len(a) + Len(b) + 1
      <3>1. Len(b) + 1 \in 1..Len(d) /\ Len(a) + (Len(b) + 1) = i
        BY <1>2, <1>3, <2>3
      <3>2. f[i] = p
        BY <1>4, <1>5, <2>3
      <3>3. g[i] = p
        BY <1>2, <1>6, <3>1
      <3> QED  BY <3>2, <3>3
    <2> QED  BY <1>3, <1>4, <1>5, <2>1, <2>2, <2>3
  <1>9. f = g
    BY <1>5, <1>6, <1>7, <1>8, SameList
  <1> QED  BY <1>9 DEF c, d, f, g

LEMMA NotEmpty ==
    ASSUME NEW S, NEW list \in Seq(S), NEW p \in S
    PROVE  Append(list, p) # <<>> /\ Last(Append(list, p)) = p
  BY DEF Last

LEMMA DeltaWhole ==
    ASSUME NEW x, NEW w \in Seq(Int), asks \in Nat, Whole(x, asks, w), Ready(x),
           NEW kind \in Speech, NEW p \in Int
    PROVE  LET r == Delta(x, kind, p)
           IN  /\ Whole(r, asks, IF p # Blank THEN Append(w, p) ELSE w)
               /\ Ready(r) /\ Grows(x, r) /\ Unused(r, r.current)
               /\ r.buffer # <<>> /\ r.content = r.buffer /\ Last(r.buffer) = p
  <1> DEFINE y == Before(x, kind)
             r == Delta(x, kind, p)
             v == IF p # Blank THEN Append(w, p) ELSE w
             new == Begins(x, kind)
  <1>0. x \in Runners
    BY DEF Whole
  <1>1. Whole(y, asks, w) /\ Grows(x, y)
    <2>1. Changes(x, kind) => Whole(y, asks, w) /\ Grows(x, y)
      BY FlushWhole DEF Before
    <2>2. ~Changes(x, kind) => Whole(y, asks, w) /\ Grows(x, y)
      BY <1>0, GrowsSame DEF Before
    <2> QED  BY <2>1, <2>2
  <1>2. Changes(x, kind) => y.buffer = <<>>
    <2> SUFFICES ASSUME Changes(x, kind) PROVE y.buffer = <<>>
      OBVIOUS
    <2>1. Wordy(x.buffer) # <<>>
      BY DEF Changes
    <2>2. Flush(x).buffer = <<>>
      BY <2>1, FlushWhole
    <2> QED  BY <2>2 DEF Before
  <1>3. y \in Runners
    BY <1>1 DEF Whole
  <1>4. /\ r \in Runners /\ r.turns = y.turns /\ r.buffer = Append(y.buffer, p) /\ r.kind = kind
        /\ r.initial = y.initial /\ r.own = y.own /\ r.tools = y.tools
        /\ r.fresh = (IF new THEN y.fresh + 1 ELSE y.fresh)
        /\ r.pending = (IF new THEN y.fresh + 1 ELSE y.pending)
        /\ r.current = (IF new THEN y.fresh + 1 ELSE y.current)
        /\ r.content = (IF new THEN Append(<<>>, p) ELSE Append(y.content, p))
        /\ r.textTools = y.textTools \/ r.textTools = y.tools
    BY <1>3, DeltaFields
  <1>5. ~new /\ y.buffer = <<>> => Unused(y, y.current) /\ y.content = <<>>
    <2> SUFFICES ASSUME ~new, y.buffer = <<>>
                 PROVE  Unused(y, y.current) /\ y.content = <<>>
      OBVIOUS
    <2>1. ~Changes(x, kind) /\ ~(y.tools > y.textTools)
      BY DEF Begins
    <2>2. y = x
      BY <2>1 DEF Before
    <2>3. Unused(y, y.current)
      BY <2>1, <2>2 DEF Ready
    <2>4. y.content # <<>> => \E k \in DOMAIN y.turns : y.turns[k].id = y.current
      BY <1>1 DEF Whole
    <2> QED  BY <2>3, <2>4 DEF Unused
  <1>6. new => y.buffer = <<>>
    BY DEF Begins
  <1> HIDE DEF y, r, new
  <1>7. /\ y.fresh \in Nat /\ y.current \in Nat /\ y.initial \in Nat /\ y.buffer \in Seq(Int)
        /\ y.content \in Seq(Int) /\ y.tools \in Nat /\ y.textTools \in Nat /\ y.turns \in Seq(Turns)
    BY <1>3 DEF Runners
  <1>8. /\ IdsFine(y) /\ y.textTools <= y.tools /\ y.current <= y.fresh /\ y.initial <= y.fresh
        /\ w = Spoken(y, asks) \o Wordy(y.buffer)
    BY <1>1 DEF Whole
  <1>9. r.buffer # <<>> /\ Last(r.buffer) = p
    BY <1>4, <1>7, NotEmpty
  <1>10. r.content = r.buffer
    <2>1. y.buffer # <<>> => y.content = y.buffer
      BY <1>1 DEF Whole
    <2>2. new => r.content = r.buffer
      BY <1>4, <1>6
    <2>3. ~new => y.content = y.buffer
      BY <1>5, <2>1
    <2> QED  BY <1>4, <2>2, <2>3
  <1>11. \A i : Unused(y, i) <=> Unused(r, i)
    BY <1>4, SpokenSame
  <1>12. Unused(r, r.current)
    <2>1. y.buffer # <<>> => Unused(y, y.current)
      BY <1>1 DEF Whole
    <2>2. ~new => Unused(y, y.current)
      BY <1>5, <2>1
    <2>3. y.fresh + 1 \in Nat /\ y.fresh + 1 > y.fresh
      BY <1>7
    <2>4. Unused(y, y.fresh + 1)
      BY <1>3, <1>8, <2>3, FreshUnused
    <2> QED  BY <1>4, <1>11, <2>2, <2>4
  <1>13. IdsFine(r)
    <2>1. \A k \in DOMAIN y.turns : y.turns[k].id \in Nat
      BY <1>3, TurnsIn
    <2>2. r.fresh \in Nat /\ y.fresh <= r.fresh
      <3>1. r.fresh = y.fresh \/ r.fresh = y.fresh + 1
        BY <1>4
      <3>2. y.fresh \in Nat
        BY <1>7
      <3> QED  BY ONLY <3>1, <3>2
    <2>3. ASSUME NEW k \in DOMAIN r.turns PROVE r.turns[k].id <= r.fresh
      <3>1. k \in DOMAIN y.turns /\ r.turns[k] = y.turns[k]
        BY <1>4
      <3>2. y.turns[k].id \in Nat /\ y.turns[k].id <= y.fresh
        BY <1>8, <2>1, <3>1 DEF IdsFine
      <3> QED  BY <1>7, <2>2, <3>1, <3>2
    <2>4. \A j, k \in DOMAIN r.turns : r.turns[j].id = r.turns[k].id => j = k
      BY <1>4, <1>8 DEF IdsFine
    <2> QED  BY <2>3, <2>4 DEF IdsFine
  <1>14. r.own = 0 => Unused(r, r.initial)
    <2>1. y.own = 0 => Unused(y, y.initial)
      BY <1>1 DEF Whole
    <2> QED  BY <1>4, <1>11, <2>1
  <1>15. r.pending # 0 => r.pending = r.current
    <2>1. y.pending # 0 => y.pending = y.current
      BY <1>1 DEF Whole
    <2> QED  BY <1>4, <2>1
  <1>16. v = Spoken(r, asks) \o Wordy(r.buffer)
    <2>1. Spoken(r, asks) = Spoken(y, asks)
      BY <1>4, SpokenSame
    <2>2. Wordy(r.buffer) = IF p # Blank THEN Append(Wordy(y.buffer), p) ELSE Wordy(y.buffer)
      BY <1>4, <1>7, WordyAppend
    <2>3. Spoken(y, asks) \in Seq(Int) /\ Wordy(y.buffer) \in Seq(Int)
      BY <1>3, <1>7, SpokenType, WordyType
    <2>4. Append(Spoken(y, asks) \o Wordy(y.buffer), p) = Spoken(y, asks) \o Append(Wordy(y.buffer), p)
      <3>1. ASSUME NEW a \in Seq(Int), NEW b \in Seq(Int)
            PROVE  Append(a \o b, p) = a \o Append(b, p)
        <4>1. JoinAppends(Int)
          BY JoinedThenOne
        <4> QED  BY <4>1 DEF JoinAppends
      <3> QED  BY <2>3, <3>1
    <2> QED  BY <1>8, <2>1, <2>2, <2>4
  <1>17. r.textTools <= r.tools /\ r.current <= r.fresh /\ r.initial <= r.fresh
    <2>1. r.textTools <= r.tools
      BY <1>4, <1>7, <1>8
    <2>2. CASE new
      <3>1. r.current = y.fresh + 1 /\ r.fresh = y.fresh + 1 /\ r.initial = y.initial
        BY <1>4, <2>2
      <3> QED  BY <1>7, <1>8, <2>1, <3>1
    <2>3. CASE ~new
      <3>1. r.current = y.current /\ r.fresh = y.fresh /\ r.initial = y.initial
        BY <1>4, <2>3
      <3> QED  BY <1>7, <1>8, <2>1, <3>1
    <2> QED  BY <2>2, <2>3
  <1>18. Whole(r, asks, v)
    BY <1>4, <1>9, <1>10, <1>12, <1>13, <1>14, <1>15, <1>16, <1>17 DEF Whole
  <1>19. Grows(x, r)
    <2>1. Grows(y, r)
      BY <1>3, <1>4, GrowsSame
    <2> QED  BY <1>0, <1>1, <1>3, <1>4, <2>1, GrowsOn
  <1>20. Ready(r)
    BY <1>9 DEF Ready
  <1> QED  BY <1>9, <1>10, <1>12, <1>18, <1>19, <1>20 DEF r

(* Turns nobody spoke, with new ids, disturb neither words nor ids.         *)
Later(x, y) ==
    /\ y.initial = x.initial /\ y.textTools = x.textTools /\ x.tools <= y.tools
    /\ y.buffer = x.buffer /\ y.kind = x.kind /\ y.pending = x.pending
    /\ y.current = x.current /\ y.content = x.content
    /\ x.fresh <= y.fresh
    /\ y.own = 0 => x.own = 0

Unspoken(x, y) ==
    \A k \in Len(x.turns) + 1 .. Len(y.turns) :
        y.turns[k].kind \notin Speech /\ y.turns[k].id > x.fresh

LEMMA OldOrNew ==
    ASSUME NEW x \in Runners, NEW y \in Runners, Grows(x, y)
    PROVE  /\ \A k \in DOMAIN x.turns : k \in DOMAIN y.turns /\ y.turns[k] = x.turns[k]
           /\ \A k \in DOMAIN y.turns : k \in DOMAIN x.turns \/ k \in Len(x.turns) + 1 .. Len(y.turns)
           /\ \A k \in Len(x.turns) + 1 .. Len(y.turns) : k \in DOMAIN y.turns /\ k \notin DOMAIN x.turns
  <1>1. \A r \in Runners : Len(r.turns) \in Nat /\ DOMAIN r.turns = 1..Len(r.turns)
    BY DEF Runners
  <1> DEFINE m == Len(x.turns)
             n == Len(y.turns)
  <1>2. m \in Nat /\ n \in Nat /\ DOMAIN x.turns = 1..m /\ DOMAIN y.turns = 1..n
    BY <1>1
  <1>3. m <= n /\ \A k \in 1..m : y.turns[k] = x.turns[k]
    BY DEF Grows, StartsAs
  <1> HIDE DEF m, n
  <1>4. /\ \A k \in 1..m : k \in 1..n
        /\ \A k \in 1..n : k \in 1..m \/ k \in m + 1..n
        /\ \A k \in m + 1..n : k \in 1..n /\ k \notin 1..m
    BY <1>2, <1>3
  <1> QED  BY <1>2, <1>3, <1>4 DEF m, n

LEMMA GrownWhole ==
    ASSUME NEW x, NEW a, NEW w, Whole(x, a, w), NEW y \in Runners, Grows(x, y), IdsFine(y),
           Unspoken(x, y), Later(x, y)
    PROVE  /\ Whole(y, a, w) /\ (Ready(x) => Ready(y))
           /\ \A i \in Nat : i <= x.fresh /\ Unused(x, i) => Unused(y, i)
  <1>0. x \in Runners
    BY DEF Whole
  <1>1. /\ \A k \in DOMAIN x.turns : k \in DOMAIN y.turns /\ y.turns[k] = x.turns[k]
        /\ \A k \in DOMAIN y.turns : k \in DOMAIN x.turns \/ k \in Len(x.turns) + 1 .. Len(y.turns)
        /\ \A k \in Len(x.turns) + 1 .. Len(y.turns) : k \in DOMAIN y.turns /\ k \notin DOMAIN x.turns
    BY <1>0, OldOrNew
  <1>2. \A r \in Runners : /\ r.fresh \in Nat /\ r.current \in Nat /\ r.initial \in Nat
                           /\ r.tools \in Nat /\ r.textTools \in Nat
    BY DEF Runners
  <1>3. /\ x.fresh \in Nat /\ x.current \in Nat /\ x.initial \in Nat /\ y.fresh \in Nat
        /\ x.tools \in Nat /\ x.textTools \in Nat /\ y.tools \in Nat
    BY <1>0, <1>2
  <1>4. \A k \in DOMAIN y.turns : y.turns[k].id \in Nat
    BY TurnsIn
  <1>5. ASSUME NEW i \in Nat, i <= x.fresh, Unused(x, i) PROVE Unused(y, i)
    <2>1. \A k \in DOMAIN x.turns : x.turns[k].id # i
      BY <1>5 DEF Unused
    <2>2. \A k \in Len(x.turns) + 1 .. Len(y.turns) : y.turns[k].id > x.fresh
      BY DEF Unspoken
    <2>3. \A k \in Len(x.turns) + 1 .. Len(y.turns) : y.turns[k].id # i
      BY <1>1, <1>3, <1>4, <1>5, <2>2
    <2> QED  BY <1>1, <2>1, <2>3 DEF Unused
  <1>6. \A i : ~Unused(x, i) => ~Unused(y, i)
    BY <1>1 DEF Unused
  <1>7. /\ y.initial = x.initial /\ y.textTools = x.textTools /\ x.tools <= y.tools
        /\ y.buffer = x.buffer /\ y.kind = x.kind /\ y.pending = x.pending
        /\ y.current = x.current /\ y.content = x.content /\ x.fresh <= y.fresh
    BY DEF Later
  <1>8. y.own = 0 => x.own = 0
    BY DEF Later
  <1>9. /\ x.textTools <= x.tools /\ x.current <= x.fresh /\ x.initial <= x.fresh
        /\ w = Spoken(x, a) \o Wordy(x.buffer)
    BY DEF Whole
  <1>10. Spoken(y, a) = Spoken(x, a)
    <2>1. \A k \in Len(x.turns) + 1 .. Len(y.turns) : y.turns[k].kind \notin Speech
      BY DEF Unspoken
    <2> QED  BY <1>0, <2>1, SpokenGrown
  <1>11. y.own = 0 => Unused(y, y.initial)
    <2>1. x.own = 0 => Unused(x, x.initial)
      BY DEF Whole
    <2> QED  BY <1>3, <1>5, <1>7, <1>8, <1>9, <2>1
  <1>12. y.pending # 0 => y.pending = y.current /\ y.buffer # <<>>
    <2>1. x.pending # 0 => x.pending = x.current /\ x.buffer # <<>>
      BY DEF Whole
    <2> QED  BY <1>7, <2>1
  <1>13. y.buffer # <<>> => y.content = y.buffer /\ Unused(y, y.current) /\ y.kind \in Speech
    <2>1. x.buffer # <<>> => x.content = x.buffer /\ Unused(x, x.current) /\ x.kind \in Speech
      BY DEF Whole
    <2> QED  BY <1>3, <1>5, <1>7, <1>9, <2>1
  <1>14. y.buffer = <<>> /\ y.content # <<>> =>
            \E k \in DOMAIN y.turns : y.turns[k].id = y.current /\ y.turns[k].text = y.content
    <2> SUFFICES ASSUME y.buffer = <<>>, y.content # <<>>
                 PROVE  \E k \in DOMAIN y.turns : y.turns[k].id = y.current /\ y.turns[k].text = y.content
      OBVIOUS
    <2>1. PICK k \in DOMAIN x.turns : x.turns[k].id = x.current /\ x.turns[k].text = x.content
      BY <1>7 DEF Whole
    <2> QED  BY <1>1, <1>7, <2>1
  <1>15. y.textTools <= y.tools /\ y.current <= y.fresh /\ y.initial <= y.fresh
    BY <1>3, <1>7, <1>9
  <1>16. Whole(y, a, w)
    BY <1>7, <1>9, <1>10, <1>11, <1>12, <1>13, <1>14, <1>15 DEF Whole
  <1>17. Ready(x) => Ready(y)
    <2> SUFFICES ASSUME Ready(x), y.buffer = <<>>, ~Unused(y, y.current)
                 PROVE  y.tools > y.textTools
      BY DEF Ready
    <2>1. ~Unused(x, x.current)
      BY <1>3, <1>5, <1>7, <1>9
    <2>2. x.tools > x.textTools
      BY <1>7, <2>1 DEF Ready
    <2> QED  BY <1>3, <1>7, <2>2
  <1> QED  BY <1>5, <1>16, <1>17

LEMMA AddWhole ==
    ASSUME NEW x, NEW a, NEW w, Whole(x, a, w), NEW t \in Turns, t.kind \notin Speech,
           t.id = x.fresh + 1
    PROVE  /\ Whole(Add(x, t), a, w) /\ (Ready(x) => Ready(Add(x, t)))
           /\ Grows(x, Add(x, t)) /\ Add(x, t) \in Runners
           /\ \A i \in Nat : i <= x.fresh /\ Unused(x, i) => Unused(Add(x, t), i)
  <1> DEFINE y == Add(x, t)
  <1>0. x \in Runners /\ IdsFine(x)
    BY DEF Whole
  <1>1. x.fresh \in Nat /\ x.own \in Nat /\ x.tools \in Nat /\ t.id > x.fresh /\ t.id \in Nat
    <2>1. x.fresh \in Nat /\ x.own \in Nat /\ x.tools \in Nat
      BY <1>0 DEF Runners
    <2> QED  BY <2>1
  <1>2. /\ y \in Runners /\ y.turns = Append(x.turns, t)
        /\ y.fresh = (IF t.id > x.fresh THEN t.id ELSE x.fresh)
        /\ y.own = x.own + 1 /\ Same(x, y)
    BY <1>0, AddFields
  <1>3. Unused(x, t.id)
    BY <1>0, <1>1, FreshUnused
  <1> HIDE DEF y
  <1>4. /\ IdsFine(y) /\ Grows(x, y) /\ x.fresh <= y.fresh /\ t.id <= y.fresh
        /\ y.turns[Len(x.turns) + 1] = t /\ Len(y.turns) = Len(x.turns) + 1
    BY <1>0, <1>2, <1>3, NewIds
  <1>5. Unspoken(x, y)
    <2>1. Len(x.turns) \in Nat
      BY <1>0 DEF Runners
    <2> QED  BY <1>1, <1>4, <2>1 DEF Unspoken
  <1>6. Later(x, y)
    BY <1>1, <1>2, <1>4 DEF Later, Same, Framed
  <1>7. /\ Whole(y, a, w) /\ (Ready(x) => Ready(y))
        /\ \A i \in Nat : i <= x.fresh /\ Unused(x, i) => Unused(y, i)
    BY <1>2, <1>4, <1>5, <1>6, GrownWhole
  <1> QED  BY <1>2, <1>4, <1>7 DEF y

-----------------------------------------------------------------------------
(* What clients show of the turns                                           *)

(* The turns of x are shown as finished, with their text.                   *)
ShownOf(view, x) ==
    \A k \in DOMAIN x.turns :
        /\ x.turns[k].id \in DOMAIN view
        /\ view[x.turns[k].id].text = x.turns[k].text /\ view[x.turns[k].id].done = TRUE

NewTurns(x, y) == {y.turns[k] : k \in Len(x.turns) + 1 .. Len(y.turns)}

LEMMA FinishedShown ==
    ASSUME NEW view, NEW x \in Runners, NEW y \in Runners, Grows(x, y), IdsFine(y), ShownOf(view, x)
    PROVE  ShownOf(FinishedTurns(view, x, y), y)
  <1> DEFINE v == FinishedTurns(view, x, y)
             new == NewTurns(x, y)
  <1>1. /\ \A k \in DOMAIN x.turns : k \in DOMAIN y.turns /\ y.turns[k] = x.turns[k]
        /\ \A k \in DOMAIN y.turns : k \in DOMAIN x.turns \/ k \in Len(x.turns) + 1 .. Len(y.turns)
        /\ \A k \in Len(x.turns) + 1 .. Len(y.turns) : k \in DOMAIN y.turns /\ k \notin DOMAIN x.turns
    BY OldOrNew
  <1>2. \A t \in new : \E k \in Len(x.turns) + 1 .. Len(y.turns) : t = y.turns[k]
    BY DEF NewTurns
  <1>3. \A k \in Len(x.turns) + 1 .. Len(y.turns) : y.turns[k] \in new
    BY DEF NewTurns
  <1>4. \A j, k \in DOMAIN y.turns : y.turns[j].id = y.turns[k].id => j = k
    BY DEF IdsFine
  <1>5. DOMAIN v = DOMAIN view \cup {t.id : t \in new}
    BY DEF FinishedTurns, NewTurns
  <1>6. \A i \in DOMAIN v :
            v[i] = IF \E t \in new : t.id = i
                   THEN [text |-> (CHOOSE t \in new : t.id = i).text, done |-> TRUE] ELSE view[i]
    BY DEF FinishedTurns, NewTurns
  <1> HIDE DEF v, new
  <1>7. ASSUME NEW k \in DOMAIN y.turns
        PROVE  /\ y.turns[k].id \in DOMAIN v
               /\ v[y.turns[k].id].text = y.turns[k].text /\ v[y.turns[k].id].done = TRUE
    <2>0. PICK t : t = y.turns[k]
      OBVIOUS
    <2>1. CASE k \in DOMAIN x.turns
      <3>1. t = x.turns[k]
        BY <1>1, <2>0, <2>1
      <3>2. t.id \in DOMAIN view /\ view[t.id].text = t.text /\ view[t.id].done = TRUE
        BY <2>1, <3>1 DEF ShownOf
      <3>3. ~\E u \in new : u.id = t.id
        BY <1>1, <1>2, <1>4, <2>0, <2>1
      <3>4. t.id \in DOMAIN v
        BY <1>5, <3>2
      <3>5. v[t.id] = view[t.id]
        BY <1>6, <3>3, <3>4
      <3> QED  BY <2>0, <3>2, <3>4, <3>5
    <2>2. CASE k \in Len(x.turns) + 1 .. Len(y.turns)
      <3>1. t \in new
        BY <1>3, <2>0, <2>2
      <3>2. \A u \in new : u.id = t.id => u = t
        BY <1>1, <1>2, <1>4, <2>0
      <3>3. t.id \in DOMAIN v
        BY <1>5, <3>1
      <3>4. (CHOOSE u \in new : u.id = t.id) = t
        BY <3>1, <3>2
      <3>5. v[t.id] = [text |-> t.text, done |-> TRUE]
        <4>1. v[t.id] = [text |-> (CHOOSE u \in new : u.id = t.id).text, done |-> TRUE]
          BY <1>6, <3>1, <3>3
        <4> QED  BY <3>4, <4>1
      <3>6. v[t.id].text = t.text /\ v[t.id].done = TRUE
        BY <3>5
      <3> QED  BY <2>0, <3>3, <3>6
    <2> QED  BY <1>1, <2>1, <2>2
  <1> QED  BY <1>7 DEF ShownOf, v

LEMMA StreamedShown ==
    ASSUME NEW view, NEW x \in Runners, NEW y \in Runners, Grows(x, y), IdsFine(y), ShownOf(view, x),
           Unused(y, y.current)
    PROVE  ShownOf(Streamed(view, x, y), y)
  <1> DEFINE v == FinishedTurns(view, x, y)
             before == IF y.current \in DOMAIN v THEN v[y.current].text ELSE <<>>
             text == Append(before, Last(y.buffer))
  <1>1. ShownOf(v, y)
    BY FinishedShown
  <1>2. Streamed(view, x, y) = Show(v, y.current, text, FALSE)
    BY DEF Streamed
  <1> HIDE DEF v, text
  <1>3. ASSUME NEW k \in DOMAIN y.turns
        PROVE  /\ y.turns[k].id \in DOMAIN Show(v, y.current, text, FALSE)
               /\ Show(v, y.current, text, FALSE)[y.turns[k].id] = v[y.turns[k].id]
    <2>1. y.turns[k].id \in DOMAIN v /\ y.turns[k].id # y.current
      BY <1>1 DEF ShownOf, Unused
    <2> DEFINE i == y.turns[k].id
    <2>2. i \in DOMAIN v /\ i # y.current
      BY <2>1
    <2> HIDE DEF i
    <2>3. i \in DOMAIN Show(v, y.current, text, FALSE) /\ Show(v, y.current, text, FALSE)[i] = v[i]
      BY <2>2 DEF Show
    <2> QED  BY <2>3 DEF i
  <1> DEFINE u == Show(v, y.current, text, FALSE)
  <1>4. \A k \in DOMAIN y.turns : y.turns[k].id \in DOMAIN u /\ u[y.turns[k].id] = v[y.turns[k].id]
    BY <1>3
  <1> HIDE DEF u
  <1>5. ShownOf(u, y)
    BY <1>1, <1>4 DEF ShownOf
  <1> QED  BY <1>2, <1>5 DEF u

LEMMA ReportedShown ==
    ASSUME NEW view, NEW x, NEW a, NEW w, Whole(x, a, w), ShownOf(view, x)
    PROVE  ShownOf(Reported(view, x), x)
  <1>1. CASE x.content = <<>>
    BY <1>1 DEF Reported
  <1>2. CASE x.content # <<>>
    <2> DEFINE v == Show(view, x.current, x.content, TRUE)
    <2>1. Reported(view, x) = v
      BY <1>2 DEF Reported
    <2>2. Unused(x, x.current) \/ \E k \in DOMAIN x.turns : x.turns[k].id = x.current /\ x.turns[k].text = x.content
      BY <1>2 DEF Whole
    <2>3. \A j, k \in DOMAIN x.turns : x.turns[j].id = x.turns[k].id => j = k
      BY DEF Whole, IdsFine
    <2>4. ASSUME NEW k \in DOMAIN x.turns, x.turns[k].id = x.current
          PROVE  x.turns[k].text = x.content
      BY <2>2, <2>3, <2>4 DEF Unused
    <2>5. ASSUME NEW k \in DOMAIN x.turns
          PROVE  /\ x.turns[k].id \in DOMAIN v
                 /\ v[x.turns[k].id].text = x.turns[k].text /\ v[x.turns[k].id].done = TRUE
      <3>1. /\ x.turns[k].id \in DOMAIN view
            /\ view[x.turns[k].id].text = x.turns[k].text /\ view[x.turns[k].id].done = TRUE
        BY DEF ShownOf
      <3>2. CASE x.turns[k].id = x.current
        <4>1. v[x.current].text = x.content /\ v[x.current].done = TRUE /\ x.current \in DOMAIN v
          BY DEF Show
        <4> QED  BY <2>4, <3>2, <4>1
      <3>3. CASE x.turns[k].id # x.current
        <4>1. v[x.turns[k].id] = view[x.turns[k].id] /\ x.turns[k].id \in DOMAIN v
          BY <3>1, <3>3 DEF Show
        <4> QED  BY <3>1, <4>1
      <3> QED  BY <3>2, <3>3
    <2> QED  BY <2>1, <2>5 DEF ShownOf
  <1> QED  BY <1>1, <1>2

-----------------------------------------------------------------------------
(* The operations of the runner on tool calls                               *)

LEMMA ToolStartWhole ==
    ASSUME NEW x, NEW w, asks \in Nat, Whole(x, asks, w), NEW cs \in Seq(Nat), cs # <<>>
    PROVE  LET r == ToolStart(x, cs)
           IN  /\ Whole(r, asks, w) /\ Ready(r) /\ Grows(x, r) /\ r \in Runners
               /\ r.turns = Flush(x).turns /\ r.fresh = Flush(x).fresh
  <1> DEFINE y == Flush(x)
             r == ToolStart(x, cs)
             t == y.tools + Len(cs)
             n == y.waiting + Len(cs)
             g == IF y.waiting = 0 THEN cs[1] ELSE y.group
  <1>1. Whole(y, asks, w) /\ Grows(x, y) /\ x \in Runners
    BY FlushWhole DEF Whole
  <1>2. r = [y EXCEPT !.tools = t, !.waiting = n, !.group = g]
    BY DEF ToolStart
  <1> HIDE DEF y, r
  <1>3. y \in Runners
    BY <1>1 DEF Whole
  <1>4. Len(cs) \in Nat /\ Len(cs) # 0 /\ cs[1] \in Nat
    <2>1. Len(cs) # 0 /\ Len(cs) \in Nat
      BY NoLength
    <2>2. 1 \in DOMAIN cs
      BY <2>1
    <2> QED  BY <2>1, <2>2
  <1>5. t \in Nat /\ n \in Nat /\ g \in Nat
    <2>1. y.tools \in Nat /\ y.waiting \in Nat /\ y.group \in Nat
      BY <1>3 DEF Runners
    <2> QED  BY <1>4, <2>1
  <1>6. t > y.tools
    BY <1>3, <1>4 DEF Runners
  <1> HIDE DEF t, n, g
  <1>7. /\ r \in Runners /\ r.turns = y.turns /\ r.fresh = y.fresh /\ r.buffer = y.buffer
        /\ r.kind = y.kind /\ r.pending = y.pending /\ r.initial = y.initial /\ r.own = y.own
        /\ r.textTools = y.textTools /\ r.current = y.current /\ r.content = y.content /\ r.tools = t
    BY <1>2, <1>3, <1>5 DEF Runners
  <1>8. Grows(y, r)
    BY <1>3, <1>7, GrowsSame
  <1>9. IdsFine(r)
    <2>1. IdsFine(y)
      BY <1>1 DEF Whole
    <2> QED  BY <1>7, <2>1 DEF IdsFine
  <1>10. Unspoken(y, r)
    <2>1. Len(y.turns) \in Nat
      BY <1>3 DEF Runners
    <2> QED  BY <1>7, <2>1 DEF Unspoken
  <1>11. y.tools \in Nat /\ y.fresh \in Nat /\ y.textTools \in Nat
    BY <1>3 DEF Runners
  <1>12. Later(y, r)
    BY <1>5, <1>6, <1>7, <1>11 DEF Later
  <1>13. Whole(r, asks, w)
    BY <1>1, <1>7, <1>8, <1>9, <1>10, <1>12, GrownWhole
  <1>14. Ready(r)
    <2>1. y.textTools <= y.tools
      BY <1>1 DEF Whole
    <2>2. r.tools > r.textTools
      BY <1>5, <1>6, <1>7, <1>11, <2>1
    <2> QED  BY <2>2 DEF Ready
  <1>15. Grows(x, r)
    BY <1>1, <1>3, <1>7, <1>8, GrowsOn
  <1> QED  BY <1>7, <1>13, <1>14, <1>15 DEF y, r

UseTurn(x, cs, k) == [Turn(x.fresh + k, "use", <<>>, cs[k]) EXCEPT !.group = x.group]

LEMMA UseTurns ==
    ASSUME NEW x \in Runners, NEW cs \in Seq(Nat), asks \in Nat
    PROVE  \A k \in 1..Len(cs) :
              /\ UseTurn(x, cs, k) \in Turns /\ UseTurn(x, cs, k).id = x.fresh + k
              /\ UseTurn(x, cs, k).kind = "use" /\ UseTurn(x, cs, k).call = cs[k]
              /\ UseTurn(x, cs, k).text = <<>> /\ UseTurn(x, cs, k).ask = asks
              /\ UseTurn(x, cs, k).mode = "full" /\ UseTurn(x, cs, k).steers = FALSE
  <1> SUFFICES ASSUME NEW k \in 1..Len(cs)
               PROVE  /\ UseTurn(x, cs, k) \in Turns /\ UseTurn(x, cs, k).id = x.fresh + k
                      /\ UseTurn(x, cs, k).kind = "use" /\ UseTurn(x, cs, k).call = cs[k]
                      /\ UseTurn(x, cs, k).text = <<>> /\ UseTurn(x, cs, k).ask = asks
                      /\ UseTurn(x, cs, k).mode = "full" /\ UseTurn(x, cs, k).steers = FALSE
    OBVIOUS
  <1> DEFINE i == x.fresh + k
             c == cs[k]
             g == x.group
             kind == "use"
             e == <<>>
  <1>1. i \in Nat /\ c \in Nat /\ g \in Nat /\ e \in Seq(Int)
        /\ kind \in {"user", "text", "thinking", "use", "result", "marker", "error"}
    <2>1. x.fresh \in Nat /\ x.group \in Nat
      BY DEF Runners
    <2>2. k \in Nat /\ cs[k] \in Nat
      OBVIOUS
    <2> QED  BY <2>1, <2>2
  <1> HIDE DEF i, c, g, kind, e
  <1>2. Turn(i, kind, e, c) \in Turns
    BY <1>1, TurnType
  <1>3. [Turn(i, kind, e, c) EXCEPT !.group = g] \in Turns
    BY <1>1, <1>2, TurnMarked
  <1>4. /\ [Turn(i, kind, e, c) EXCEPT !.group = g].id = i
        /\ [Turn(i, kind, e, c) EXCEPT !.group = g].kind = kind
        /\ [Turn(i, kind, e, c) EXCEPT !.group = g].call = c
        /\ [Turn(i, kind, e, c) EXCEPT !.group = g].text = e
        /\ [Turn(i, kind, e, c) EXCEPT !.group = g].ask = asks
        /\ [Turn(i, kind, e, c) EXCEPT !.group = g].mode = "full"
        /\ [Turn(i, kind, e, c) EXCEPT !.group = g].steers = FALSE
    BY DEF Turn
  <1>5. UseTurn(x, cs, k) = [Turn(i, kind, e, c) EXCEPT !.group = g]
    BY DEF UseTurn, i, kind, e, c, g
  <1> QED  BY <1>3, <1>4, <1>5 DEF i, kind, e, c, g

LEMMA ToolUseFields ==
    ASSUME NEW x \in Runners, NEW cs \in Seq(Nat), asks \in Nat
    PROVE  LET r == ToolUse(x, cs)
           IN  /\ r \in Runners /\ Len(r.turns) = Len(x.turns) + Len(cs)
               /\ \A k \in 1..Len(x.turns) : r.turns[k] = x.turns[k]
               /\ \A k \in 1..Len(cs) : r.turns[Len(x.turns) + k] = UseTurn(x, cs, k)
               /\ r.fresh = x.fresh + Len(cs) /\ r.own = x.own + Len(cs)
               /\ Same(x, r)
  <1> DEFINE r == ToolUse(x, cs)
             list == [k \in DOMAIN cs |-> UseTurn(x, cs, k)]
             both == x.turns \o list
             f == x.fresh + Len(cs)
             o == x.own + Len(cs)
  <1>1. r = [x EXCEPT !.turns = both, !.fresh = f, !.own = o]
    BY DEF ToolUse, UseTurn
  <1>2. Len(cs) \in Nat /\ DOMAIN cs = 1..Len(cs) /\ x.turns \in Seq(Turns) /\ Len(x.turns) \in Nat
    BY DEF Runners
  <1>3. \A k \in 1..Len(cs) : UseTurn(x, cs, k) \in Turns
    BY UseTurns
  <1>4. /\ list \in Seq(Turns) /\ Len(list) = Len(cs)
        /\ \A k \in 1..Len(cs) : list[k] = UseTurn(x, cs, k)
    <2>1. list \in [1..Len(cs) -> Turns] /\ DOMAIN list = 1..Len(cs)
      BY <1>2, <1>3
    <2>2. \A k \in 1..Len(cs) : list[k] = UseTurn(x, cs, k)
      BY <1>2
    <2> HIDE DEF list
    <2>3. list \in Seq(Turns)
      BY <1>2, <2>1
    <2>4. Len(list) = Len(cs)
      BY <1>2, <2>1, <2>3, LengthOf
    <2> QED  BY <2>2, <2>3, <2>4
  <1> HIDE DEF list, r
  <1>5. /\ both \in Seq(Turns) /\ DOMAIN both = 1..Len(x.turns) + Len(list)
        /\ \A k \in 1..Len(x.turns) : both[k] = x.turns[k]
        /\ \A k \in 1..Len(list) : both[Len(x.turns) + k] = list[k]
    <2>1. x.turns \in Seq(Turns) /\ list \in Seq(Turns)
      BY <1>2, <1>4
    <2> QED  BY <2>1, Joined
  <1> HIDE DEF both
  <1>6. Len(both) = Len(x.turns) + Len(cs)
    BY <1>2, <1>4, <1>5, LengthOf
  <1>7. f \in Nat /\ o \in Nat
    BY <1>2 DEF Runners
  <1> HIDE DEF f, o
  <1>8. r \in Runners /\ r.turns = both /\ r.fresh = f /\ r.own = o
    BY <1>1, <1>5, <1>7 DEF Runners
  <1>9. Same(x, r)
    BY <1>1 DEF Runners, Same, Framed
  <1>10. \A k \in 1..Len(cs) : both[Len(x.turns) + k] = UseTurn(x, cs, k)
    BY <1>4, <1>5
  <1> QED  BY <1>5, <1>6, <1>8, <1>9, <1>10 DEF r, f, o

LEMMA ToolUseWhole ==
    ASSUME NEW x, NEW w, asks \in Nat, Whole(x, asks, w), NEW cs \in Seq(Nat)
    PROVE  LET r == ToolUse(x, cs)
           IN  Whole(r, asks, w) /\ (Ready(x) => Ready(r)) /\ Grows(x, r) /\ r \in Runners
  <1> DEFINE r == ToolUse(x, cs)
             m == Len(x.turns)
             n == Len(cs)
  <1>0. x \in Runners /\ IdsFine(x)
    BY DEF Whole
  <1>1. /\ r \in Runners /\ Len(r.turns) = Len(x.turns) + Len(cs)
        /\ \A k \in 1..Len(x.turns) : r.turns[k] = x.turns[k]
        /\ \A k \in 1..Len(cs) : r.turns[Len(x.turns) + k] = UseTurn(x, cs, k)
        /\ r.fresh = x.fresh + Len(cs) /\ r.own = x.own + Len(cs)
        /\ Same(x, r)
    BY <1>0, ToolUseFields
  <1>2. \A k \in 1..n : UseTurn(x, cs, k).id = x.fresh + k /\ UseTurn(x, cs, k).kind = "use"
    BY <1>0, UseTurns
  <1>3. m \in Nat /\ n \in Nat /\ x.fresh \in Nat /\ x.own \in Nat /\ x.tools \in Nat
    BY <1>0 DEF Runners
  <1>4. DOMAIN x.turns = 1..m /\ DOMAIN r.turns = 1..m + n
    <2>1. x.turns \in Seq(Turns) /\ r.turns \in Seq(Turns)
      BY <1>0, <1>1 DEF Runners
    <2> QED  BY <1>1, <2>1
  <1> HIDE DEF r
  <1>5. Grows(x, r)
    BY <1>1, <1>3 DEF Grows, StartsAs
  <1>6. \A k \in m + 1..m + n :
            /\ k - m \in 1..n /\ r.turns[k].id = x.fresh + (k - m) /\ r.turns[k].kind = "use"
    <2> SUFFICES ASSUME NEW k \in m + 1..m + n
                 PROVE  /\ k - m \in 1..n /\ r.turns[k].id = x.fresh + (k - m) /\ r.turns[k].kind = "use"
      OBVIOUS
    <2>1. k - m \in 1..n /\ m + (k - m) = k
      BY <1>3
    <2>2. r.turns[k] = UseTurn(x, cs, k - m)
      BY <1>1, <2>1
    <2> QED  BY <1>2, <2>1, <2>2
  <1>7. \A k \in 1..m : r.turns[k].id \in Nat /\ r.turns[k].id <= x.fresh
    BY <1>0, <1>1, <1>4, TurnsIn DEF IdsFine
  <1>8. \A k \in 1..m + n : k \in 1..m \/ k \in m + 1..m + n
    BY <1>3
  <1>9. IdsFine(r)
    <2>1. ASSUME NEW k \in 1..m + n PROVE r.turns[k].id <= r.fresh
      <3>1. CASE k \in 1..m
        BY <1>1, <1>3, <1>7, <3>1
      <3>2. CASE k \in m + 1..m + n
        <4>1. r.turns[k].id = x.fresh + (k - m) /\ k - m \in 1..n
          BY <1>6, <3>2
        <4>2. k - m \in Nat /\ k - m <= n
          BY <1>3, <4>1
        <4>3. r.fresh = x.fresh + n
          BY <1>1
        <4> HIDE DEF m, n
        <4> QED  BY <1>3, <4>1, <4>2, <4>3
      <3> QED  BY <1>8, <3>1, <3>2
    <2>2. ASSUME NEW j \in 1..m + n, NEW k \in 1..m + n, r.turns[j].id = r.turns[k].id
          PROVE  j = k
      <3>1. CASE j \in 1..m /\ k \in 1..m
        <4>1. x.turns[j].id = x.turns[k].id
          BY <1>1, <2>2, <3>1
        <4> QED  BY <1>0, <1>4, <3>1, <4>1 DEF IdsFine
      <3>2. CASE j \in m + 1..m + n /\ k \in m + 1..m + n
        <4>1. x.fresh + (j - m) = x.fresh + (k - m)
          BY <1>6, <2>2, <3>2
        <4>2. j \in Int /\ k \in Int
          BY <1>3
        <4> HIDE DEF m, n
        <4> QED  BY <1>3, <4>1, <4>2
      <3>3. CASE j \in 1..m /\ k \in m + 1..m + n
        <4>1. r.turns[j].id \in Nat /\ r.turns[j].id <= x.fresh
          BY <1>7, <3>3
        <4>2. k - m \in 1..n /\ r.turns[k].id = x.fresh + (k - m)
          BY <1>6, <3>3
        <4>3. x.fresh + (k - m) > x.fresh
          BY <1>3, <4>2
        <4> HIDE DEF m, n
        <4> QED  BY <1>3, <2>2, <4>1, <4>2, <4>3
      <3>4. CASE j \in m + 1..m + n /\ k \in 1..m
        <4>1. r.turns[k].id \in Nat /\ r.turns[k].id <= x.fresh
          BY <1>7, <3>4
        <4>2. j - m \in 1..n /\ r.turns[j].id = x.fresh + (j - m)
          BY <1>6, <3>4
        <4>3. x.fresh + (j - m) > x.fresh
          BY <1>3, <4>2
        <4> HIDE DEF m, n
        <4> QED  BY <1>3, <2>2, <4>1, <4>2, <4>3
      <3> QED  BY <1>8, <3>1, <3>2, <3>3, <3>4
    <2> QED  BY <1>4, <2>1, <2>2 DEF IdsFine
  <1>10. Unspoken(x, r)
    <2>1. \A k \in m + 1..m + n : r.turns[k].id > x.fresh /\ r.turns[k].kind \notin Speech
      BY <1>3, <1>6 DEF Speech
    <2> QED  BY <1>1, <2>1 DEF Unspoken
  <1>11. Later(x, r)
    BY <1>1, <1>3 DEF Later, Same, Framed
  <1>12. Whole(r, asks, w) /\ (Ready(x) => Ready(r))
    BY <1>1, <1>5, <1>9, <1>10, <1>11, GrownWhole
  <1> QED  BY <1>1, <1>5, <1>12 DEF r

ResultTurn(x, c) == [Turn(x.fresh + 1, "result", <<>>, c) EXCEPT !.group = x.group]
SteerTurn(x, text) == [Turn(x.fresh + 1, "user", text, 0) EXCEPT !.steers = TRUE]

LEMMA ResultTurnIs ==
    ASSUME NEW x \in Runners, NEW c \in Nat, asks \in Nat
    PROVE  /\ ResultTurn(x, c) \in Turns /\ ResultTurn(x, c).id = x.fresh + 1
           /\ ResultTurn(x, c).kind = "result" /\ ResultTurn(x, c).call = c
           /\ ResultTurn(x, c).text = <<>> /\ ResultTurn(x, c).ask = asks
           /\ ResultTurn(x, c).mode = "full" /\ ResultTurn(x, c).steers = FALSE
  <1> DEFINE i == x.fresh + 1
             g == x.group
             kind == "result"
             e == <<>>
  <1>1. i \in Nat /\ g \in Nat /\ e \in Seq(Int)
        /\ kind \in {"user", "text", "thinking", "use", "result", "marker", "error"}
    BY DEF Runners
  <1> HIDE DEF i, g, kind, e
  <1>2. Turn(i, kind, e, c) \in Turns
    BY <1>1, TurnType
  <1>3. [Turn(i, kind, e, c) EXCEPT !.group = g] \in Turns
    BY <1>1, <1>2, TurnMarked
  <1>4. /\ [Turn(i, kind, e, c) EXCEPT !.group = g].id = i
        /\ [Turn(i, kind, e, c) EXCEPT !.group = g].kind = kind
        /\ [Turn(i, kind, e, c) EXCEPT !.group = g].call = c
        /\ [Turn(i, kind, e, c) EXCEPT !.group = g].text = e
        /\ [Turn(i, kind, e, c) EXCEPT !.group = g].ask = asks
        /\ [Turn(i, kind, e, c) EXCEPT !.group = g].mode = "full"
        /\ [Turn(i, kind, e, c) EXCEPT !.group = g].steers = FALSE
    BY DEF Turn
  <1>5. ResultTurn(x, c) = [Turn(i, kind, e, c) EXCEPT !.group = g]
    BY DEF ResultTurn, i, kind, e, g
  <1> QED  BY <1>3, <1>4, <1>5 DEF i, kind, e

LEMMA SteerTurnIs ==
    ASSUME NEW x \in Runners, NEW text \in Seq(Int), asks \in Nat
    PROVE  /\ SteerTurn(x, text) \in Turns /\ SteerTurn(x, text).id = x.fresh + 1
           /\ SteerTurn(x, text).kind = "user" /\ SteerTurn(x, text).call = 0
           /\ SteerTurn(x, text).text = text /\ SteerTurn(x, text).ask = asks
           /\ SteerTurn(x, text).mode = "full" /\ SteerTurn(x, text).steers = TRUE
  <1> DEFINE i == x.fresh + 1
             kind == "user"
             b == TRUE
             z == 0
  <1>1. i \in Nat /\ b \in BOOLEAN /\ z \in Nat
        /\ kind \in {"user", "text", "thinking", "use", "result", "marker", "error"}
    BY DEF Runners
  <1> HIDE DEF i, kind, b, z
  <1>2. Turn(i, kind, text, z) \in Turns
    BY <1>1, TurnType
  <1>3. [Turn(i, kind, text, z) EXCEPT !.steers = b] \in Turns
    BY <1>1, <1>2, TurnMarked
  <1>4. /\ [Turn(i, kind, text, z) EXCEPT !.steers = b].id = i
        /\ [Turn(i, kind, text, z) EXCEPT !.steers = b].kind = kind
        /\ [Turn(i, kind, text, z) EXCEPT !.steers = b].call = z
        /\ [Turn(i, kind, text, z) EXCEPT !.steers = b].text = text
        /\ [Turn(i, kind, text, z) EXCEPT !.steers = b].ask = asks
        /\ [Turn(i, kind, text, z) EXCEPT !.steers = b].mode = "full"
        /\ [Turn(i, kind, text, z) EXCEPT !.steers = b].steers = b
    BY DEF Turn
  <1>5. SteerTurn(x, text) = [Turn(i, kind, text, z) EXCEPT !.steers = b]
    BY DEF SteerTurn, i, kind, b, z
  <1> QED  BY <1>3, <1>4, <1>5 DEF i, kind, b, z

(* A change that touches no turn and nothing of the text.                   *)
Retouched(x, r) ==
    /\ r \in Runners /\ r.turns = x.turns /\ r.fresh = x.fresh /\ r.buffer = x.buffer
    /\ r.kind = x.kind /\ r.pending = x.pending /\ r.initial = x.initial /\ r.own = x.own
    /\ r.tools = x.tools /\ r.textTools = x.textTools /\ r.current = x.current /\ r.content = x.content

LEMMA RetouchedWhole ==
    ASSUME NEW x, NEW a, NEW w, Whole(x, a, w), NEW r, Retouched(x, r)
    PROVE  Whole(r, a, w) /\ (Ready(x) => Ready(r)) /\ Grows(x, r) /\ r \in Runners
  <1>1. x \in Runners /\ r \in Runners
    BY DEF Whole, Retouched
  <1>2. Grows(x, r)
    BY <1>1, GrowsSame DEF Retouched
  <1>3. IdsFine(r)
    BY DEF Whole, IdsFine, Retouched
  <1>4. Unspoken(x, r)
    <2>1. Len(x.turns) \in Nat
      BY <1>1 DEF Runners
    <2> QED  BY <2>1 DEF Unspoken, Retouched
  <1>5. Later(x, r)
    <2>1. x.tools \in Nat /\ x.fresh \in Nat
      BY <1>1 DEF Runners
    <2> QED  BY <2>1 DEF Later, Retouched
  <1> QED  BY <1>1, <1>2, <1>3, <1>4, <1>5, GrownWhole

LEMMA ToolResultWhole ==
    ASSUME NEW x, NEW w, asks \in Nat, Whole(x, asks, w), NEW c \in Nat
    PROVE  LET r == ToolResult(x, c)
           IN  /\ Whole(r, asks, w) /\ (Ready(x) => Ready(r)) /\ Grows(x, r) /\ r \in Runners
               /\ r.turns = Append(x.turns, ResultTurn(x, c))
  <1> DEFINE r == ToolResult(x, c)
             t == ResultTurn(x, c)
             y == Add(x, t)
             n == IF x.waiting = 0 THEN 0 ELSE x.waiting - 1
             g == IF n = 0 THEN 0 ELSE x.group
  <1>1. x \in Runners
    BY DEF Whole
  <1>2. r = [y EXCEPT !.waiting = n, !.group = g]
    BY DEF ToolResult, ResultTurn
  <1>3. t \in Turns /\ t.kind \notin Speech /\ t.id = x.fresh + 1
    BY <1>1, ResultTurnIs DEF Speech
  <1>4. Whole(y, asks, w) /\ (Ready(x) => Ready(y)) /\ Grows(x, y) /\ y \in Runners
    BY <1>3, AddWhole
  <1>5. y.turns = Append(x.turns, t)
    BY <1>1, <1>3, AddFields
  <1>6. n \in Nat /\ g \in Nat
    BY <1>1 DEF Runners
  <1> HIDE DEF r, y, n, g, t
  <1>7. Retouched(y, r)
    BY <1>2, <1>4, <1>6 DEF Retouched, Runners
  <1>8. Whole(r, asks, w) /\ (Ready(y) => Ready(r)) /\ Grows(y, r) /\ r \in Runners
    BY <1>4, <1>7, RetouchedWhole
  <1>9. Grows(x, r)
    BY <1>1, <1>4, <1>8, GrowsOn
  <1>10. r.turns = Append(x.turns, t)
    BY <1>5, <1>7 DEF Retouched
  <1> QED  BY <1>4, <1>8, <1>9, <1>10 DEF r, t

LEMMA SteeredWhole ==
    ASSUME NEW x, NEW w, asks \in Nat, Whole(x, asks, w), NEW text \in Seq(Int)
    PROVE  LET r == Steered(x, text)
           IN  /\ Whole(r, asks, w) /\ (Ready(x) => Ready(r)) /\ Grows(x, r) /\ r \in Runners
               /\ r.turns = Append(x.turns, SteerTurn(x, text))
  <1> DEFINE r == Steered(x, text)
             t == SteerTurn(x, text)
             y == Add(x, t)
  <1>1. x \in Runners
    BY DEF Whole
  <1>2. r = [y EXCEPT !.steered = TRUE]
    BY DEF Steered, SteerTurn
  <1>3. t \in Turns /\ t.kind \notin Speech /\ t.id = x.fresh + 1
    BY <1>1, SteerTurnIs DEF Speech
  <1>4. Whole(y, asks, w) /\ (Ready(x) => Ready(y)) /\ Grows(x, y) /\ y \in Runners
    BY <1>3, AddWhole
  <1>5. y.turns = Append(x.turns, t)
    BY <1>1, <1>3, AddFields
  <1> HIDE DEF r, y, t
  <1>7. Retouched(y, r)
    BY <1>2, <1>4 DEF Retouched, Runners
  <1>8. Whole(r, asks, w) /\ (Ready(y) => Ready(r)) /\ Grows(y, r) /\ r \in Runners
    BY <1>4, <1>7, RetouchedWhole
  <1>9. Grows(x, r)
    BY <1>1, <1>4, <1>8, GrowsOn
  <1>10. r.turns = Append(x.turns, t)
    BY <1>5, <1>7 DEF Retouched
  <1> QED  BY <1>4, <1>8, <1>9, <1>10 DEF r, t

-----------------------------------------------------------------------------
(* The exchange a turn is of                                                *)

Asked(x, a) == \A k \in DOMAIN x.turns : x.turns[k].ask \in Nat /\ x.turns[k].ask <= a

LEMMA AskedAppend ==
    ASSUME NEW x \in Runners, NEW y \in Runners, NEW t \in Turns, NEW a, Asked(x, a), t.ask <= a,
           y.turns = Append(x.turns, t)
    PROVE  Asked(y, a)
  <1>1. x.turns \in Seq(Turns) /\ t.ask \in Nat
    BY DEF Runners, Turns
  <1>2. /\ Append(x.turns, t) \in Seq(Turns) /\ Len(Append(x.turns, t)) = Len(x.turns) + 1
        /\ \A i \in 1..Len(x.turns) : Append(x.turns, t)[i] = x.turns[i]
        /\ Append(x.turns, t)[Len(x.turns) + 1] = t
    BY <1>1, Appended
  <1>3. /\ DOMAIN x.turns = 1..Len(x.turns) /\ DOMAIN y.turns = 1..Len(x.turns) + 1
        /\ Len(x.turns) \in Nat
    BY <1>1, <1>2
  <1>4. \A k \in 1..Len(x.turns) + 1 : k \in 1..Len(x.turns) \/ k = Len(x.turns) + 1
    BY <1>3
  <1> QED  BY <1>1, <1>2, <1>3, <1>4 DEF Asked

LEMMA AskedSame ==
    ASSUME NEW x, NEW y, NEW a, Asked(x, a), y.turns = x.turns
    PROVE  Asked(y, a)
  BY DEF Asked

LEMMA AskedFlush ==
    ASSUME NEW x, NEW w, asks \in Nat, Whole(x, asks, w), Asked(x, asks)
    PROVE  Asked(Flush(x), asks)
  <1>1. CASE Wordy(x.buffer) = <<>>
    BY <1>1 DEF Flush
  <1>2. CASE Wordy(x.buffer) # <<>>
    <2>1. x.buffer # <<>>
      BY <1>2, WordyNone
    <2>2. x \in Runners /\ x.kind \in Speech
      BY <2>1 DEF Whole
    <2>3. /\ FlushTurn(x) \in Turns /\ FlushTurn(x).ask = asks /\ Flush(x) \in Runners
          /\ Flush(x).turns = Append(x.turns, FlushTurn(x))
      BY <1>2, <2>2, FlushFields
    <2> QED  BY <2>2, <2>3, AskedAppend
  <1> QED  BY <1>1, <1>2

LEMMA AskedDelta ==
    ASSUME NEW x, NEW w, asks \in Nat, Whole(x, asks, w), Asked(x, asks), NEW kind \in Speech, NEW p \in Int
    PROVE  Asked(Delta(x, kind, p), asks)
  <1> DEFINE y == Before(x, kind)
  <1>1. y \in Runners /\ Asked(y, asks)
    <2>1. Changes(x, kind) => y = Flush(x)
      BY DEF Before
    <2>2. ~Changes(x, kind) => y = x
      BY DEF Before
    <2>3. Flush(x) \in Runners /\ x \in Runners
      BY FlushWhole DEF Whole
    <2>4. Asked(Flush(x), asks)
      BY AskedFlush
    <2> QED  BY <2>1, <2>2, <2>3, <2>4
  <1>2. Delta(x, kind, p).turns = y.turns
    BY <1>1, DeltaFields
  <1> HIDE DEF y
  <1> QED  BY <1>1, <1>2, AskedSame

LEMMA AskedUse ==
    ASSUME NEW x \in Runners, NEW cs \in Seq(Nat), asks \in Nat, Asked(x, asks)
    PROVE  Asked(ToolUse(x, cs), asks)
  <1> DEFINE r == ToolUse(x, cs)
             m == Len(x.turns)
             n == Len(cs)
  <1>1. /\ r \in Runners /\ Len(r.turns) = m + n
        /\ \A k \in 1..m : r.turns[k] = x.turns[k]
        /\ \A k \in 1..n : r.turns[m + k] = UseTurn(x, cs, k)
    BY ToolUseFields
  <1>2. \A k \in 1..n : UseTurn(x, cs, k).ask = asks
    BY UseTurns
  <1>3. m \in Nat /\ n \in Nat /\ DOMAIN x.turns = 1..m /\ DOMAIN r.turns = 1..m + n
    <2>1. x.turns \in Seq(Turns) /\ r.turns \in Seq(Turns)
      BY <1>1 DEF Runners
    <2> QED  BY <1>1, <2>1
  <1> HIDE DEF r, m, n
  <1>4. ASSUME NEW k \in 1..m + n PROVE r.turns[k].ask \in Nat /\ r.turns[k].ask <= asks
    <2>1. CASE k \in 1..m
      BY <1>1, <1>3, <2>1 DEF Asked
    <2>2. CASE k \notin 1..m
      <3>1. k - m \in 1..n /\ m + (k - m) = k
        BY <1>3, <2>2
      <3>2. r.turns[k] = UseTurn(x, cs, k - m)
        BY <1>1, <3>1
      <3> QED  BY <1>2, <3>1, <3>2
    <2> QED  BY <2>1, <2>2
  <1> QED  BY <1>3, <1>4 DEF Asked, r

(* A new exchange begins: the prompt's turn, and nothing said yet.          *)
PromptTurn(x, prompt) ==
    [Turn(x.fresh + 1, "user", prompt, 0) EXCEPT !.ask = asks + 1, !.exchange = OfService(asks + 1)]
Prompted(x, prompt) ==
    [x EXCEPT !.turns = Append(x.turns, PromptTurn(x, prompt)), !.fresh = x.fresh + 1]

LEMMA PromptTurnIs ==
    ASSUME NEW x \in Runners, NEW prompt \in Seq(Int), asks \in Nat
    PROVE  /\ PromptTurn(x, prompt) \in Turns /\ PromptTurn(x, prompt).id = x.fresh + 1
           /\ PromptTurn(x, prompt).kind = "user" /\ PromptTurn(x, prompt).call = 0
           /\ PromptTurn(x, prompt).text = prompt /\ PromptTurn(x, prompt).ask = asks + 1
           /\ PromptTurn(x, prompt).mode = "full" /\ PromptTurn(x, prompt).steers = FALSE
  <1> DEFINE i == x.fresh + 1
             kind == "user"
             a == asks + 1
             e == OfService(asks + 1)
             z == 0
  <1>1. i \in Nat /\ a \in Nat /\ e \in Int /\ z \in Nat
        /\ kind \in {"user", "text", "thinking", "use", "result", "marker", "error"}
    BY DEF Runners, OfService
  <1> HIDE DEF i, kind, a, e, z
  <1>2. Turn(i, kind, prompt, z) \in Turns
    BY <1>1, TurnType
  <1>3. [Turn(i, kind, prompt, z) EXCEPT !.ask = a, !.exchange = e] \in Turns
    BY <1>1, <1>2, TurnMarked
  <1>4. /\ [Turn(i, kind, prompt, z) EXCEPT !.ask = a, !.exchange = e].id = i
        /\ [Turn(i, kind, prompt, z) EXCEPT !.ask = a, !.exchange = e].kind = kind
        /\ [Turn(i, kind, prompt, z) EXCEPT !.ask = a, !.exchange = e].call = z
        /\ [Turn(i, kind, prompt, z) EXCEPT !.ask = a, !.exchange = e].text = prompt
        /\ [Turn(i, kind, prompt, z) EXCEPT !.ask = a, !.exchange = e].ask = a
        /\ [Turn(i, kind, prompt, z) EXCEPT !.ask = a, !.exchange = e].mode = "full"
        /\ [Turn(i, kind, prompt, z) EXCEPT !.ask = a, !.exchange = e].steers = FALSE
    BY DEF Turn
  <1>5. PromptTurn(x, prompt) = [Turn(i, kind, prompt, z) EXCEPT !.ask = a, !.exchange = e]
    BY DEF PromptTurn, i, kind, a, e, z
  <1> QED  BY <1>3, <1>4, <1>5 DEF i, kind, a, z

LEMMA PromptedFields ==
    ASSUME NEW x \in Runners, NEW prompt \in Seq(Int), asks \in Nat, IdsFine(x), Asked(x, asks)
    PROVE  LET y == Prompted(x, prompt)
           IN  /\ y \in Runners /\ y.turns = Append(x.turns, PromptTurn(x, prompt))
               /\ y.fresh = x.fresh + 1 /\ IdsFine(y) /\ Grows(x, y) /\ Asked(y, asks + 1)
               /\ Spoken(y, asks + 1) = <<>>
  <1> DEFINE y == Prompted(x, prompt)
             t == PromptTurn(x, prompt)
             f == x.fresh + 1
             list == Append(x.turns, t)
  <1>1. /\ t \in Turns /\ t.id = x.fresh + 1 /\ t.kind = "user" /\ t.ask = asks + 1
    BY PromptTurnIs
  <1>2. x.turns \in Seq(Turns) /\ x.fresh \in Nat
    BY DEF Runners
  <1>3. y = [x EXCEPT !.turns = list, !.fresh = f]
    BY DEF Prompted
  <1> HIDE DEF y, t
  <1>4. list \in Seq(Turns) /\ f \in Nat
    BY <1>1, <1>2
  <1> HIDE DEF list, f
  <1>5. y \in Runners /\ y.turns = list /\ y.fresh = f
    BY <1>3, <1>4 DEF Runners
  <1>6. y.turns = Append(x.turns, t) /\ y.fresh = (IF t.id > x.fresh THEN t.id ELSE x.fresh)
    BY <1>1, <1>2, <1>5 DEF list, f
  <1>7. Unused(x, t.id)
    <2>1. t.id \in Nat /\ t.id > x.fresh
      BY <1>1, <1>2
    <2> QED  BY <2>1, FreshUnused
  <1>8. IdsFine(y) /\ Grows(x, y)
    BY <1>1, <1>5, <1>6, <1>7, NewIds
  <1>9. Asked(x, asks + 1)
    BY DEF Asked
  <1>10. Asked(y, asks + 1)
    <2>1. t.ask <= asks + 1
      BY <1>1
    <2> QED  BY <1>1, <1>5, <1>6, <1>9, <2>1, AskedAppend
  <1>11. Spoken(y, asks + 1) = <<>>
    <2> DEFINE new == [k \in DOMAIN y.turns |-> SpeechOf(y.turns[k], asks + 1)]
               none == <<>>
    <2>1. y.turns \in Seq(Turns)
      BY <1>5 DEF Runners
    <2>2. new \in Seq(Seq(Int)) /\ Len(new) = Len(y.turns)
      BY <2>1, SpeechListType
    <2>3. \A k \in 1..Len(y.turns) : new[k] = SpeechOf(y.turns[k], asks + 1)
      BY <2>1
    <2>4. ASSUME NEW k \in 1..Len(y.turns) PROVE SpeechOf(y.turns[k], asks + 1) = <<>>
      <3>1. CASE k \in DOMAIN x.turns
        <4>1. y.turns[k] = x.turns[k]
          BY <1>2, <1>5, <1>8, <3>1, OldOrNew
        <4>2. x.turns[k].ask \in Nat /\ x.turns[k].ask <= asks
          BY <3>1 DEF Asked
        <4>3. y.turns[k].ask # asks + 1
          BY <4>1, <4>2
        <4> QED  BY <4>3 DEF SpeechOf
      <3>2. CASE k \notin DOMAIN x.turns
        <4>1. y.turns[k] = t
          BY <1>1, <1>2, <1>6, <3>2
        <4> QED  BY <1>1, <4>1 DEF SpeechOf, Speech
      <3> QED  BY <3>1, <3>2
    <2> HIDE DEF new
    <2>5. none \in Seq(Seq(Int)) /\ Len(none) = 0
      OBVIOUS
    <2>6. StartsAs(none, new)
      BY <2>1, <2>2, <2>5 DEF StartsAs
    <2>7. \A i \in Len(none) + 1 .. Len(new) : new[i] = <<>>
      BY <2>1, <2>2, <2>3, <2>4, <2>5
    <2>8. Flat(new) = Flat(none)
      <3> HIDE DEF none
      <3> QED  BY <2>2, <2>5, <2>6, <2>7, FlatGrown
    <2> QED  BY <2>8, FlatEmpty DEF Spoken, new
  <1> QED  BY <1>5, <1>6, <1>8, <1>10, <1>11 DEF y, t, f

LEMMA StartWhole ==
    ASSUME NEW x \in Runners, NEW a, IdsFine(x), Spoken(x, a) = <<>>
    PROVE  /\ Whole(Start(x), a, <<>>) /\ Ready(Start(x)) /\ Start(x).turns = x.turns
           /\ Start(x) \in Runners /\ Start(x).buffer = <<>> /\ Start(x).fresh = x.fresh + 1
  <1> DEFINE r == Start(x)
             f == x.fresh + 1
             e == <<>>
  <1>1. f \in Nat /\ e \in Seq(Int) /\ x.fresh \in Nat
    BY DEF Runners
  <1>2. r = [x EXCEPT !.buffer = e, !.pending = 0, !.initial = f, !.fresh = f, !.own = 0, !.tools = 0,
              !.textTools = 0, !.current = f, !.content = e, !.group = 0, !.waiting = 0]
    BY DEF Start
  <1> HIDE DEF r, e
  <1>3. f > x.fresh
    BY <1>1
  <1> HIDE DEF f
  <1>4. /\ r \in Runners /\ r.turns = x.turns /\ r.buffer = e /\ r.pending = 0 /\ r.initial = f
        /\ r.fresh = f /\ r.own = 0 /\ r.tools = 0 /\ r.textTools = 0 /\ r.current = f /\ r.content = e
    BY <1>1, <1>2 DEF Runners
  <1>5. Unused(r, f)
    <2>1. Unused(x, f)
      BY <1>1, <1>3, FreshUnused
    <2> QED  BY <1>4, <2>1 DEF Unused
  <1>6. IdsFine(r)
    <2>1. \A k \in DOMAIN x.turns : x.turns[k].id \in Nat
      BY TurnsIn
    <2>2. \A k \in DOMAIN x.turns : x.turns[k].id <= f
      BY <1>1, <1>3, <2>1 DEF IdsFine
    <2> QED  BY <1>4, <2>2 DEF IdsFine
  <1>7. Spoken(r, a) = <<>>
    BY <1>4, SpokenSame
  <1>8. Spoken(r, a) \o Wordy(r.buffer) = <<>>
    BY <1>4, <1>7, WordyNone DEF e
  <1>9. Whole(r, a, <<>>)
    BY <1>1, <1>4, <1>5, <1>6, <1>8 DEF Whole, e
  <1>10. Ready(r)
    BY <1>4, <1>5 DEF Ready
  <1> QED  BY <1>4, <1>9, <1>10 DEF r, f, e

-----------------------------------------------------------------------------
(* WordsKept and StoredIsShown: the runner has what was told, as turns and  *)
(* in its buffer, until the exchange ends; what is stored is shown.         *)

CallsType == Seq([kind : CallKinds, batch : Nat])

LoopTypes ==
    /\ asks \in Nat /\ words \in Nat /\ told \in Seq(Int) /\ queue \in Seq(Int)
    /\ response \in Seq(Nat) /\ todo \in Seq(Nat) /\ calls \in CallsType
    /\ phase \in {"idle", "answer", "tools"} /\ s \in Runners

SessionFine ==
    /\ IdsFine(s) /\ Asked(s, asks) /\ ShownOf(shown, s)
    /\ phase # "idle" => Whole(s, asks, Wordy(told)) /\ Ready(s)
    /\ phase = "idle" /\ outcome # "failed" => Wordy(told) = Spoken(s, asks)

TalkInv == LoopTypes /\ SessionFine

LEMMA TalkInit == LoopInit => TalkInv
  <1> SUFFICES ASSUME LoopInit PROVE TalkInv
    OBVIOUS
  <1> DEFINE e == <<>>
  <1>1. e \in Seq(Turns) /\ e \in Seq(Int) /\ e \in Seq(Nat) /\ e \in CallsType
    BY DEF CallsType
  <1>2. s \in Runners
    <2> HIDE DEF e
    <2>1. s = [turns |-> e, fresh |-> 0, buffer |-> e, kind |-> "none",
            pending |-> 0, initial |-> 0, own |-> 0, tools |-> 0,
            textTools |-> 0, steered |-> FALSE,
            current |-> 0, content |-> e, group |-> 0, waiting |-> 0]
      BY DEF LoopInit, e
    <2> QED  BY <1>1, <2>1 DEF Runners
  <1>3. LoopTypes
    BY <1>1, <1>2 DEF LoopInit, LoopTypes
  <1>4. s.turns = <<>>
    BY DEF LoopInit
  <1>5. IdsFine(s) /\ Asked(s, asks) /\ ShownOf(shown, s)
    BY <1>4 DEF IdsFine, Asked, ShownOf
  <1>6. Spoken(s, asks) = <<>>
    <2>1. [k \in DOMAIN s.turns |-> SpeechOf(s.turns[k], asks)] = <<>>
      BY <1>4
    <2> QED  BY <2>1, FlatEmpty DEF Spoken
  <1>7. Wordy(told) = <<>> /\ phase = "idle"
    BY WordyNone DEF LoopInit
  <1> QED  BY <1>3, <1>5, <1>6, <1>7 DEF TalkInv, SessionFine

LEMMA TalkSubmit ==
    ASSUME TalkInv, NEW prompt \in Seq(Int), Submit(prompt)
    PROVE  /\ asks' \in Nat /\ told' \in Seq(Int) /\ response' \in Seq(Nat) /\ todo' \in Seq(Nat)
           /\ phase' \in {"idle", "answer", "tools"} /\ s' \in Runners
           /\ SessionFine'
           /\ s'.turns = Append(s.turns, PromptTurn(s, prompt))
  <1> DEFINE x == Prompted(s, prompt)
  <1>1. s \in Runners /\ asks \in Nat /\ IdsFine(s) /\ Asked(s, asks) /\ ShownOf(shown, s)
    BY DEF TalkInv, LoopTypes, SessionFine
  <1>2. /\ asks' = asks + 1 /\ s' = Start(x) /\ shown' = FinishedTurns(shown, s, x)
        /\ phase' = "answer" /\ told' = <<>> /\ response' = <<>> /\ todo' = <<>>
    BY DEF Submit, Prompted, PromptTurn
  <1>3. /\ x \in Runners /\ x.turns = Append(s.turns, PromptTurn(s, prompt))
        /\ IdsFine(x) /\ Grows(s, x) /\ Asked(x, asks + 1) /\ Spoken(x, asks + 1) = <<>>
    BY <1>1, PromptedFields
  <1> HIDE DEF x
  <1>4. /\ Whole(Start(x), asks + 1, <<>>) /\ Ready(Start(x)) /\ Start(x).turns = x.turns
        /\ Start(x) \in Runners
    BY <1>3, StartWhole
  <1>5. ShownOf(shown', x)
    BY <1>1, <1>2, <1>3, FinishedShown
  <1>6. ShownOf(shown', s')
    BY <1>2, <1>4, <1>5 DEF ShownOf
  <1>7. IdsFine(s') /\ Asked(s', asks')
    BY <1>2, <1>3, <1>4, AskedSame DEF Whole
  <1>8. Whole(s', asks', Wordy(told')) /\ Ready(s')
    BY <1>2, <1>4, WordyNone
  <1>9. SessionFine'
    BY <1>2, <1>6, <1>7, <1>8 DEF SessionFine
  <1> QED  BY <1>1, <1>2, <1>3, <1>4, <1>9

(* Where only the session and what is shown of it change.                   *)
LEMMA TalkGoes ==
    ASSUME TalkInv, s' \in Runners, Whole(s', asks, Wordy(told)), Ready(s'), Asked(s', asks),
           ShownOf(shown', s'), told' = told, asks' = asks, phase' # "idle"
    PROVE  SessionFine'
  <1>1. IdsFine(s')
    BY DEF Whole
  <1> QED  BY <1>1 DEF SessionFine

LEMMA TalkPiece ==
    ASSUME TalkInv, NEW kind \in Speech, NEW p \in Int, Piece(kind, p)
    PROVE  /\ told' \in Seq(Int) /\ s' \in Runners /\ SessionFine'
  <1>1. /\ s \in Runners /\ asks \in Nat /\ IdsFine(s) /\ Asked(s, asks) /\ ShownOf(shown, s)
        /\ told \in Seq(Int)
    BY DEF TalkInv, LoopTypes, SessionFine
  <1> DEFINE r == Delta(s, kind, p)
             w == Wordy(told)
  <1>2. /\ phase = "answer" /\ told' = Append(told, p) /\ s' = r /\ shown' = Streamed(shown, s, r)
        /\ asks' = asks /\ phase' = phase
    BY DEF Piece
  <1>3. Whole(s, asks, w) /\ Ready(s)
    BY <1>2 DEF TalkInv, SessionFine
  <1>4. w \in Seq(Int)
    BY <1>1, WordyType
  <1> HIDE DEF w
  <1>5. /\ Whole(r, asks, IF p # Blank THEN Append(w, p) ELSE w)
        /\ Ready(r) /\ Grows(s, r) /\ Unused(r, r.current)
    BY <1>1, <1>3, <1>4, DeltaWhole
  <1>6. Asked(r, asks)
    BY <1>1, <1>3, AskedDelta
  <1> HIDE DEF r
  <1>7. r \in Runners /\ IdsFine(r)
    BY <1>5 DEF Whole
  <1>8. ShownOf(Streamed(shown, s, r), r)
    BY <1>1, <1>5, <1>7, StreamedShown
  <1>9. Wordy(told') = (IF p # Blank THEN Append(w, p) ELSE w)
    BY <1>1, <1>2, WordyAppend DEF w
  <1>10. told' \in Seq(Int)
    BY <1>1, <1>2
  <1>11. Whole(s', asks', Wordy(told'))
    BY <1>2, <1>5, <1>9
  <1> QED  BY <1>2, <1>5, <1>6, <1>7, <1>8, <1>10, <1>11 DEF SessionFine

LEMMA TalkStartCall ==
    ASSUME TalkInv, StartCall
    PROVE  s' \in Runners /\ SessionFine'
  <1>1. /\ s \in Runners /\ asks \in Nat /\ Asked(s, asks) /\ ShownOf(shown, s) /\ calls \in CallsType
    BY DEF TalkInv, LoopTypes, SessionFine
  <1> DEFINE cs == <<Len(calls) + 1>>
             r == ToolStart(s, cs)
  <1>2. /\ phase = "answer" /\ s' = r /\ shown' = FinishedTurns(shown, s, r)
        /\ asks' = asks /\ phase' = phase /\ told' = told
    BY DEF StartCall
  <1>3. Whole(s, asks, Wordy(told))
    BY <1>2 DEF TalkInv, SessionFine
  <1>4. cs \in Seq(Nat) /\ cs # <<>>
    BY <1>1 DEF CallsType
  <1> HIDE DEF cs
  <1>5. /\ Whole(r, asks, Wordy(told)) /\ Ready(r) /\ Grows(s, r) /\ r \in Runners
        /\ r.turns = Flush(s).turns
    BY <1>1, <1>3, <1>4, ToolStartWhole
  <1>6. Asked(r, asks)
    BY <1>1, <1>3, <1>5, AskedFlush, AskedSame
  <1> HIDE DEF r
  <1>7. IdsFine(r)
    BY <1>5 DEF Whole
  <1>8. ShownOf(shown', r)
    BY <1>1, <1>2, <1>5, <1>7, FinishedShown
  <1> QED  BY <1>2, <1>5, <1>6, <1>8, TalkGoes

LEMMA TalkEndWithCalls ==
    ASSUME TalkInv, EndWithCalls
    PROVE  s' \in Runners /\ SessionFine'
  <1>1. /\ s \in Runners /\ asks \in Nat /\ Asked(s, asks) /\ ShownOf(shown, s) /\ response \in Seq(Nat)
    BY DEF TalkInv, LoopTypes, SessionFine
  <1> DEFINE r == ToolUse(s, response)
  <1>2. /\ phase = "answer" /\ s' = r /\ shown' = FinishedTurns(shown, s, r)
        /\ asks' = asks /\ phase' = "tools" /\ told' = told
    BY DEF EndWithCalls
  <1>3. Whole(s, asks, Wordy(told)) /\ Ready(s)
    BY <1>2 DEF TalkInv, SessionFine
  <1>4. Whole(r, asks, Wordy(told)) /\ Ready(r) /\ Grows(s, r) /\ r \in Runners
    BY <1>1, <1>3, ToolUseWhole
  <1>5. Asked(r, asks)
    BY <1>1, AskedUse
  <1> HIDE DEF r
  <1>6. IdsFine(r)
    BY <1>4 DEF Whole
  <1>7. ShownOf(shown', r)
    BY <1>1, <1>2, <1>4, <1>6, FinishedShown
  <1> QED  BY <1>2, <1>4, <1>5, <1>7, TalkGoes

LEMMA NextCalls ==
    ASSUME calls \in CallsType, NEW n \in Nat, n > 0
    PROVE  /\ [k \in 1..n |-> Len(calls) + k] \in Seq(Nat)
           /\ [k \in 1..n |-> Len(calls) + k] # <<>>
           /\ Len([k \in 1..n |-> Len(calls) + k]) = n
           /\ \A k \in 1..n : [j \in 1..n |-> Len(calls) + j][k] = Len(calls) + k
           /\ [k \in 1..n |-> [kind |-> "work", batch |-> Len(calls) + 1]] \in CallsType
           /\ Len([k \in 1..n |-> [kind |-> "work", batch |-> Len(calls) + 1]]) = n
  <1>1. Len(calls) \in Nat
    BY DEF CallsType
  <1> DEFINE list == [k \in 1..n |-> Len(calls) + k]
  <1>2. list \in [1..n -> Nat] /\ DOMAIN list = 1..n
    BY <1>1
  <1>3. \A k \in 1..n : list[k] = Len(calls) + k
    OBVIOUS
  <1> HIDE DEF list
  <1>4. list \in Seq(Nat)
    BY <1>2
  <1>5. Len(list) = n
    BY <1>2, <1>4, LengthOf
  <1>6. list # <<>>
    BY <1>5
  <1> DEFINE kinds == [kind : CallKinds, batch : Nat]
             more == [k \in 1..n |-> [kind |-> "work", batch |-> Len(calls) + 1]]
  <1>7. [kind |-> "work", batch |-> Len(calls) + 1] \in kinds
    BY <1>1 DEF CallKinds
  <1>8. more \in [1..n -> kinds] /\ DOMAIN more = 1..n
    BY <1>7
  <1> HIDE DEF kinds, more
  <1>9. more \in Seq(kinds)
    BY <1>8
  <1>10. Len(more) = n
    BY <1>8, <1>9, LengthOf
  <1> QED  BY <1>3, <1>4, <1>5, <1>6, <1>9, <1>10 DEF list, more, kinds, CallsType

LEMMA TalkEmbeddedCalls ==
    ASSUME LoopAssumption, TalkInv, EmbeddedCalls
    PROVE  s' \in Runners /\ SessionFine' /\ response' \in Seq(Nat) /\ calls' \in CallsType
  <1>1. /\ s \in Runners /\ asks \in Nat /\ Asked(s, asks) /\ ShownOf(shown, s) /\ calls \in CallsType
    BY DEF TalkInv, LoopTypes, SessionFine
  <1>2. PICK n \in 1..MaxTogether :
            /\ response' = [k \in 1..n |-> Len(calls) + k]
            /\ calls' = calls \o [k \in 1..n |-> [kind |-> "work", batch |-> Len(calls) + 1]]
    BY DEF EmbeddedCalls
  <1>3. n \in Nat /\ n > 0
    BY DEF LoopAssumption
  <1>4. response' \in Seq(Nat) /\ response' # <<>>
    BY <1>1, <1>2, <1>3, NextCalls
  <1>5. calls' \in CallsType
    <2> DEFINE more == [k \in 1..n |-> [kind |-> "work", batch |-> Len(calls) + 1]]
    <2>1. more \in CallsType
      BY <1>1, <1>3, NextCalls
    <2>2. calls' = calls \o more
      BY <1>2
    <2> HIDE DEF more
    <2> QED  BY <1>1, <2>1, <2>2, Joined DEF CallsType
  <1>6. PICK cs : cs = response'
    OBVIOUS
  <1> DEFINE y == ToolStart(s, cs)
             r == ToolUse(y, cs)
  <1>7. /\ phase = "answer" /\ s' = r /\ shown' = FinishedTurns(shown, s, s')
        /\ asks' = asks /\ phase' = "tools" /\ told' = told
    BY <1>6 DEF EmbeddedCalls
  <1>8. Whole(s, asks, Wordy(told))
    BY <1>7 DEF TalkInv, SessionFine
  <1>9. cs \in Seq(Nat) /\ cs # <<>>
    BY <1>4, <1>6
  <1>10. /\ Whole(y, asks, Wordy(told)) /\ Ready(y) /\ Grows(s, y) /\ y \in Runners
         /\ y.turns = Flush(s).turns
    BY <1>1, <1>8, <1>9, ToolStartWhole
  <1>11. Asked(y, asks)
    BY <1>1, <1>8, <1>10, AskedFlush, AskedSame
  <1> HIDE DEF y
  <1>12. Whole(r, asks, Wordy(told)) /\ Ready(r) /\ Grows(y, r) /\ r \in Runners
    BY <1>1, <1>9, <1>10, ToolUseWhole
  <1>13. Asked(r, asks)
    BY <1>1, <1>9, <1>10, <1>11, AskedUse
  <1> HIDE DEF r
  <1>14. IdsFine(r)
    BY <1>12 DEF Whole
  <1>15. Grows(s, r)
    BY <1>1, <1>10, <1>12, GrowsOn
  <1>16. ShownOf(shown', r)
    BY <1>1, <1>7, <1>12, <1>14, <1>15, FinishedShown
  <1>17. SessionFine'
    BY <1>7, <1>12, <1>13, <1>16, TalkGoes
  <1> QED  BY <1>4, <1>5, <1>7, <1>12, <1>17

(* Where the exchange ends, and the buffer has no words left.               *)
LEMMA TalkEnds ==
    ASSUME TalkInv, s' \in Runners, IdsFine(s'), Asked(s', asks),
           outcome' # "failed" => Wordy(told) = Spoken(s', asks),
           ShownOf(shown', s'), told' = told, asks' = asks, phase' = "idle"
    PROVE  SessionFine'
  BY DEF SessionFine

LEMMA WholeSaid ==
    ASSUME NEW x, NEW a, NEW w, Whole(x, a, w), Wordy(x.buffer) = <<>>
    PROVE  w = Spoken(x, a)
  <1>1. x \in Runners /\ w = Spoken(x, a) \o Wordy(x.buffer)
    BY DEF Whole
  <1>2. Spoken(x, a) \in Seq(Int)
    BY <1>1, SpokenType
  <1>3. Spoken(x, a) \o <<>> = Spoken(x, a)
    BY <1>2
  <1> QED  BY <1>1, <1>3

LEMMA TalkFinish ==
    ASSUME TalkInv, Finish
    PROVE  s' \in Runners /\ SessionFine'
  <1>1. /\ s \in Runners /\ asks \in Nat /\ Asked(s, asks) /\ ShownOf(shown, s)
    BY DEF TalkInv, LoopTypes, SessionFine
  <1> DEFINE r == Flush(s)
  <1>2. /\ phase = "answer" /\ s' = r /\ shown' = Reported(FinishedTurns(shown, s, r), r)
        /\ asks' = asks /\ phase' = "idle" /\ told' = told
    BY DEF Finish
  <1>3. Whole(s, asks, Wordy(told))
    BY <1>2 DEF TalkInv, SessionFine
  <1>4. Whole(r, asks, Wordy(told)) /\ Wordy(r.buffer) = <<>> /\ Grows(s, r)
    BY <1>1, <1>3, FlushWhole
  <1>5. Asked(r, asks)
    BY <1>1, <1>3, AskedFlush
  <1> HIDE DEF r
  <1>6. r \in Runners /\ IdsFine(r)
    BY <1>4 DEF Whole
  <1>7. ShownOf(FinishedTurns(shown, s, r), r)
    BY <1>1, <1>4, <1>6, FinishedShown
  <1>8. ShownOf(shown', r)
    BY <1>2, <1>4, <1>7, ReportedShown
  <1>9. Wordy(told) = Spoken(r, asks)
    BY <1>4, WholeSaid
  <1> QED  BY <1>2, <1>5, <1>6, <1>8, <1>9, TalkEnds

LEMMA TalkExecute ==
    ASSUME TalkInv, Execute
    PROVE  s' \in Runners /\ SessionFine' /\ queue' \in Seq(Int) /\ todo' \in Seq(Nat)
           /\ phase' \in {"idle", "answer", "tools"}
  <1>1. /\ s \in Runners /\ asks \in Nat /\ Asked(s, asks) /\ ShownOf(shown, s)
        /\ queue \in Seq(Int) /\ todo \in Seq(Nat)
    BY DEF TalkInv, LoopTypes, SessionFine
  <1>0. PICK c : c = Head(todo)
    OBVIOUS
  <1> DEFINE x == ToolResult(s, c)
             reads == calls[c].kind = "work" /\ queue # <<>>
             y == IF reads THEN Steered(x, queue) ELSE x
             asking == calls[c].kind = "ask"
             z == IF asking THEN Flush(y) ELSE y
  <1>2. /\ phase = "tools" /\ todo # <<>> /\ s' = z
        /\ shown' = IF asking THEN Reported(FinishedTurns(shown, s, z), z)
                    ELSE FinishedTurns(shown, s, z)
        /\ queue' = IF reads THEN <<>> ELSE queue
        /\ asks' = asks /\ told' = told
        /\ asking => phase' = "idle" /\ outcome' = "asked" /\ todo' = <<>>
        /\ ~asking => phase' = phase /\ todo' = Tail(todo)
    BY <1>0 DEF Execute
  <1>3. c \in Nat
    BY <1>0, <1>1, <1>2
  <1>4. Whole(s, asks, Wordy(told)) /\ Ready(s)
    BY <1>2 DEF TalkInv, SessionFine
  <1>5. /\ Whole(x, asks, Wordy(told)) /\ Ready(x) /\ Grows(s, x) /\ x \in Runners
        /\ x.turns = Append(s.turns, ResultTurn(s, c))
    BY <1>1, <1>3, <1>4, ToolResultWhole
  <1>6. Asked(x, asks)
    <2>1. ResultTurn(s, c) \in Turns /\ ResultTurn(s, c).ask = asks
      BY <1>1, <1>3, ResultTurnIs
    <2>2. ResultTurn(s, c).ask <= asks
      BY <1>1, <2>1
    <2> QED  BY <1>1, <1>5, <2>1, <2>2, AskedAppend
  <1> HIDE DEF x
  <1>7. /\ Whole(y, asks, Wordy(told)) /\ Ready(y) /\ Grows(x, y) /\ y \in Runners /\ Asked(y, asks)
    <2>1. CASE reads
      <3>1. y = Steered(x, queue)
        BY <2>1
      <3> HIDE DEF y
      <3>2. /\ Whole(y, asks, Wordy(told)) /\ Ready(y) /\ Grows(x, y) /\ y \in Runners
            /\ y.turns = Append(x.turns, SteerTurn(x, queue))
        BY <1>1, <1>5, <3>1, SteeredWhole
      <3>3. SteerTurn(x, queue) \in Turns /\ SteerTurn(x, queue).ask = asks
        BY <1>1, <1>5, SteerTurnIs
      <3>4. SteerTurn(x, queue).ask <= asks
        BY <1>1, <3>3
      <3> QED  BY <1>5, <1>6, <3>2, <3>3, <3>4, AskedAppend
    <2>2. CASE ~reads
      BY <1>5, <1>6, <2>2, GrowsSame
    <2> QED  BY <2>1, <2>2
  <1> HIDE DEF y
  <1>8. /\ Whole(z, asks, Wordy(told)) /\ (~asking => Ready(z)) /\ Grows(y, z) /\ Asked(z, asks)
        /\ (asking => Wordy(z.buffer) = <<>>)
    <2>1. CASE asking
      BY <1>1, <1>7, <2>1, FlushWhole, AskedFlush
    <2>2. CASE ~asking
      BY <1>7, <2>2, GrowsSame
    <2> QED  BY <2>1, <2>2
  <1> HIDE DEF z
  <1>9. z \in Runners /\ IdsFine(z)
    BY <1>8 DEF Whole
  <1>10. Grows(s, z)
    <2>1. Grows(s, y)
      BY <1>1, <1>5, <1>7, GrowsOn
    <2> QED  BY <1>1, <1>7, <1>8, <1>9, <2>1, GrowsOn
  <1>11. ShownOf(FinishedTurns(shown, s, z), z)
    BY <1>1, <1>9, <1>10, FinishedShown
  <1>12. ShownOf(shown', z)
    BY <1>2, <1>8, <1>11, ReportedShown
  <1>13. queue' \in Seq(Int) /\ todo' \in Seq(Nat)
    <2>1. Tail(todo) \in Seq(Nat) /\ <<>> \in Seq(Nat) /\ <<>> \in Seq(Int)
      BY <1>1, <1>2
    <2> HIDE DEF reads, asking
    <2>2. queue' \in Seq(Int)
      <3>1. CASE reads
        BY <1>2, <2>1, <3>1
      <3>2. CASE ~reads
        BY <1>1, <1>2, <3>2
      <3> QED  BY <3>1, <3>2
    <2>3. todo' \in Seq(Nat)
      <3>1. CASE asking
        BY <1>2, <2>1, <3>1
      <3>2. CASE ~asking
        BY <1>2, <2>1, <3>2
      <3> QED  BY <3>1, <3>2
    <2> QED  BY <2>2, <2>3
  <1>14. SessionFine'
    <2>1. CASE asking
      <3>1. Wordy(told) = Spoken(z, asks)
        BY <1>8, <2>1, WholeSaid
      <3> QED  BY <1>2, <1>8, <1>9, <1>12, <2>1, <3>1, TalkEnds
    <2>2. CASE ~asking
      BY <1>2, <1>8, <1>9, <1>12, <2>2, TalkGoes
    <2> QED  BY <2>1, <2>2
  <1> QED  BY <1>2, <1>9, <1>13, <1>14

(* A stop: what the context holds is a turn.                                *)
Cleared(x) == [x EXCEPT !.content = <<>>]

LEMMA ClearedIs ==
    ASSUME NEW x \in Runners
    PROVE  Cleared(x) \in Runners /\ Cleared(x).turns = x.turns
  <1> DEFINE e == <<>>
  <1>1. e \in Seq(Int) /\ Cleared(x) = [x EXCEPT !.content = e]
    BY DEF Cleared
  <1> HIDE DEF e
  <1> QED  BY <1>1 DEF Runners

LEMMA ClearedEnds ==
    ASSUME NEW x \in Runners, TalkInv, IdsFine(x), Asked(x, asks), Wordy(told) = Spoken(x, asks),
           ShownOf(FinishedTurns(shown, s, x), x), s' = Cleared(x),
           shown' = FinishedTurns(shown, s, x), told' = told, asks' = asks, phase' = "idle"
    PROVE  s' \in Runners /\ SessionFine' /\ s'.turns = x.turns
  <1>1. s' \in Runners /\ s'.turns = x.turns
    BY ClearedIs
  <1>2. IdsFine(s')
    <2>1. s'.fresh = x.fresh
      BY DEF Cleared, Runners
    <2> QED  BY <1>1, <2>1 DEF IdsFine
  <1>3. Asked(s', asks)
    BY <1>1, AskedSame
  <1>4. Wordy(told) = Spoken(s', asks)
    BY <1>1, SpokenSame
  <1>5. ShownOf(shown', s')
    BY <1>1 DEF ShownOf
  <1> QED  BY <1>1, <1>2, <1>3, <1>4, <1>5, TalkEnds

MarkerTurn(x) == [Turn(x.fresh + 1, "marker", <<>>, 0) EXCEPT !.exchange = OfService(asks)]
LeftTurn(x) ==
    [Turn(x.current, IF x.kind = "thinking" THEN x.kind ELSE "text", x.content, 0)
        EXCEPT !.exchange = OfService(asks)]

LEMMA MarkerTurnIs ==
    ASSUME NEW x \in Runners, asks \in Nat
    PROVE  /\ MarkerTurn(x) \in Turns /\ MarkerTurn(x).id = x.fresh + 1 /\ MarkerTurn(x).kind = "marker"
           /\ MarkerTurn(x).text = <<>> /\ MarkerTurn(x).ask = asks /\ MarkerTurn(x).steers = FALSE
  <1> DEFINE i == x.fresh + 1
             e == OfService(asks)
             kind == "marker"
             empty == <<>>
             no == FALSE
             z == 0
  <1>1. /\ i \in Nat /\ e \in Int /\ empty \in Seq(Int) /\ z \in Nat /\ no \in BOOLEAN
        /\ kind \in {"user", "text", "thinking", "use", "result", "marker", "error"}
    BY DEF Runners, OfService
  <1>2. MarkerTurn(x) = [Turn(i, kind, empty, z) EXCEPT !.exchange = e]
    BY DEF MarkerTurn
  <1>3. Turn(i, kind, empty, z).steers = no
    BY DEF Turn
  <1> HIDE DEF i, e, kind, empty, no, z
  <1>4. Turn(i, kind, empty, z) \in Turns
    BY <1>1, TurnType
  <1>5. [Turn(i, kind, empty, z) EXCEPT !.exchange = e] \in Turns
    BY <1>1, <1>4, TurnMarked
  <1>6. /\ [Turn(i, kind, empty, z) EXCEPT !.exchange = e].id = i
        /\ [Turn(i, kind, empty, z) EXCEPT !.exchange = e].kind = kind
        /\ [Turn(i, kind, empty, z) EXCEPT !.exchange = e].text = empty
        /\ [Turn(i, kind, empty, z) EXCEPT !.exchange = e].ask = asks
        /\ [Turn(i, kind, empty, z) EXCEPT !.exchange = e].steers = Turn(i, kind, empty, z).steers
    BY DEF Turn
  <1> QED  BY <1>2, <1>3, <1>5, <1>6 DEF i, kind, empty, no

LEMMA LeftTurnIs ==
    ASSUME NEW x \in Runners, asks \in Nat, x.kind \in Speech
    PROVE  /\ LeftTurn(x) \in Turns /\ LeftTurn(x).id = x.current /\ LeftTurn(x).kind = x.kind
           /\ LeftTurn(x).text = x.content /\ LeftTurn(x).ask = asks /\ LeftTurn(x).steers = FALSE
  <1> DEFINE i == x.current
             e == OfService(asks)
             kind == x.kind
             text == x.content
             no == FALSE
             z == 0
  <1>1. /\ i \in Nat /\ e \in Int /\ text \in Seq(Int) /\ z \in Nat /\ no \in BOOLEAN
        /\ kind \in {"user", "text", "thinking", "use", "result", "marker", "error"}
    BY DEF Runners, OfService, Speech
  <1>2. LeftTurn(x) = [Turn(i, kind, text, z) EXCEPT !.exchange = e]
    BY DEF LeftTurn, Speech
  <1>3. Turn(i, kind, text, z).steers = no
    BY DEF Turn
  <1> HIDE DEF i, e, kind, text, no, z
  <1>4. Turn(i, kind, text, z) \in Turns
    BY <1>1, TurnType
  <1>5. [Turn(i, kind, text, z) EXCEPT !.exchange = e] \in Turns
    BY <1>1, <1>4, TurnMarked
  <1>6. /\ [Turn(i, kind, text, z) EXCEPT !.exchange = e].id = i
        /\ [Turn(i, kind, text, z) EXCEPT !.exchange = e].kind = kind
        /\ [Turn(i, kind, text, z) EXCEPT !.exchange = e].text = text
        /\ [Turn(i, kind, text, z) EXCEPT !.exchange = e].ask = asks
        /\ [Turn(i, kind, text, z) EXCEPT !.exchange = e].steers = Turn(i, kind, text, z).steers
    BY DEF Turn
  <1> QED  BY <1>2, <1>3, <1>5, <1>6 DEF i, kind, text, no

LEMMA AddShown ==
    ASSUME TalkInv, NEW t \in Turns, Unused(s, t.id), t.ask = asks
    PROVE  LET x == Add(s, t)
           IN  /\ x \in Runners /\ IdsFine(x) /\ Asked(x, asks)
               /\ ShownOf(FinishedTurns(shown, s, x), x) /\ x.turns = Append(s.turns, t)
  <1> DEFINE x == Add(s, t)
  <1>1. s \in Runners /\ asks \in Nat /\ IdsFine(s) /\ Asked(s, asks) /\ ShownOf(shown, s)
    BY DEF TalkInv, LoopTypes, SessionFine
  <1>2. /\ x \in Runners /\ x.turns = Append(s.turns, t)
        /\ x.fresh = IF t.id > s.fresh THEN t.id ELSE s.fresh
    BY <1>1, AddFields
  <1> HIDE DEF x
  <1>3. IdsFine(x) /\ Grows(s, x)
    BY <1>1, <1>2, NewIds
  <1>4. t.ask <= asks
    BY <1>1
  <1>5. Asked(x, asks)
    BY <1>1, <1>2, <1>4, AskedAppend
  <1>6. ShownOf(FinishedTurns(shown, s, x), x)
    BY <1>1, <1>2, <1>3, FinishedShown
  <1> QED  BY <1>2, <1>3, <1>5, <1>6 DEF x

Kept1(x) == [k \in DOMAIN x.turns |->
                IF k \in {j \in DOMAIN x.turns : x.turns[j].id = x.current}
                THEN [x.turns[k] EXCEPT !.text = x.content] ELSE x.turns[k]]

(* The turn a stop leaves.                                                  *)
CutShort(t) ==
    /\ t.steers = FALSE /\ t.kind \in {"text", "thinking", "marker"}
    /\ t.text = <<>> \/ (t.text = s.content /\ s.buffer # <<>> /\ s.content = s.buffer)

LEMMA TalkCancel ==
    ASSUME TalkInv, Cancel
    PROVE  s' \in Runners /\ SessionFine' /\ todo' \in Seq(Nat)
           /\ (s'.turns = s.turns
               \/ \E t \in Turns : s'.turns = Append(s.turns, t) /\ CutShort(t))
  <1>1. /\ s \in Runners /\ asks \in Nat /\ IdsFine(s) /\ Asked(s, asks) /\ ShownOf(shown, s)
    BY DEF TalkInv, LoopTypes, SessionFine
  <1>2. /\ phase # "idle" /\ asks' = asks /\ phase' = "idle" /\ told' = told /\ todo' = <<>>
    BY DEF Cancel
  <1>3. Whole(s, asks, Wordy(told))
    BY <1>2 DEF TalkInv, SessionFine
  <1>4. todo' \in Seq(Nat)
    BY <1>2
  <1>5. CASE s.content = <<>>
    <2> DEFINE t == MarkerTurn(s)
               x == Add(s, t)
    <2>1. s' = Cleared(x) /\ shown' = FinishedTurns(shown, s, x)
      BY <1>5 DEF Cancel, Cleared, MarkerTurn
    <2>2. s.buffer = <<>>
      BY <1>3, <1>5 DEF Whole
    <2>3. t \in Turns /\ t.id = s.fresh + 1 /\ t.kind = "marker" /\ t.text = <<>> /\ t.ask = asks /\ t.steers = FALSE
      BY <1>1, MarkerTurnIs
    <2> HIDE DEF t
    <2>4. Whole(x, asks, Wordy(told))
      BY <1>3, <2>3, AddWhole DEF Speech
    <2>5. Unused(s, t.id)
      <3>1. t.id \in Nat /\ s.fresh \in Nat /\ t.id > s.fresh
        BY <1>1, <2>3 DEF Runners
      <3> QED  BY <1>1, <3>1, FreshUnused
    <2>6. /\ x \in Runners /\ IdsFine(x) /\ Asked(x, asks)
          /\ ShownOf(FinishedTurns(shown, s, x), x) /\ x.turns = Append(s.turns, t)
      BY <2>3, <2>5, AddShown
    <2>7. x.buffer = <<>>
      BY <1>1, <2>2, <2>3, AddFields DEF Same
    <2> HIDE DEF x
    <2>8. Wordy(told) = Spoken(x, asks)
      BY <2>4, <2>7, WordyNone, WholeSaid
    <2>9. s' \in Runners /\ SessionFine' /\ s'.turns = x.turns
      BY <1>2, <2>1, <2>6, <2>8, ClearedEnds
    <2>10. CutShort(t)
      BY <2>3 DEF CutShort
    <2> QED  BY <1>4, <2>3, <2>6, <2>9, <2>10
  <1>6. CASE s.content # <<>> /\ Unused(s, s.current)
    <2> DEFINE t == LeftTurn(s)
               x == Add(s, t)
    <2>1. s' = Cleared(x) /\ shown' = FinishedTurns(shown, s, x)
      <3>1. {k \in DOMAIN s.turns : s.turns[k].id = s.current} = {}
        BY <1>6 DEF Unused
      <3> QED  BY <1>6, <3>1 DEF Cancel, Cleared, LeftTurn
    <2>2. s.buffer # <<>> /\ s.content = s.buffer /\ s.kind \in Speech
      BY <1>3, <1>6 DEF Whole, Unused
    <2>3. t \in Turns /\ t.id = s.current /\ t.kind = s.kind /\ t.text = s.content /\ t.ask = asks /\ t.steers = FALSE
      BY <1>1, <2>2, LeftTurnIs
    <2> HIDE DEF t
    <2>4. /\ x \in Runners /\ IdsFine(x) /\ Asked(x, asks)
          /\ ShownOf(FinishedTurns(shown, s, x), x) /\ x.turns = Append(s.turns, t)
      BY <1>6, <2>3, AddShown
    <2> HIDE DEF x
    <2>5. Wordy(told) = Spoken(x, asks)
      <3>1. SpeechOf(t, asks) = Wordy(s.buffer)
        BY <2>2, <2>3 DEF SpeechOf
      <3>2. Spoken(x, asks) = Spoken(s, asks) \o SpeechOf(t, asks)
        BY <1>1, <2>3, <2>4, SpokenAppend
      <3>3. Wordy(told) = Spoken(s, asks) \o Wordy(s.buffer)
        BY <1>3 DEF Whole
      <3> QED  BY <3>1, <3>2, <3>3
    <2>6. s' \in Runners /\ SessionFine' /\ s'.turns = x.turns
      BY <1>2, <2>1, <2>4, <2>5, ClearedEnds
    <2>7. CutShort(t)
      BY <2>2, <2>3 DEF CutShort, Speech
    <2> QED  BY <1>4, <2>3, <2>4, <2>6, <2>7
  <1>7. CASE s.content # <<>> /\ ~Unused(s, s.current)
    <2> DEFINE at == {k \in DOMAIN s.turns : s.turns[k].id = s.current}
               list == Kept1(s)
               x == [s EXCEPT !.turns = list]
    <2>1. s' = Cleared(x) /\ shown' = FinishedTurns(shown, s, x)
      <3>1. at # {}
        BY <1>7 DEF Unused
      <3> QED  BY <1>7, <3>1 DEF Cancel, Cleared, Kept1
    <2>2. s.buffer = <<>>
      BY <1>3, <1>7 DEF Whole
    <2>3. PICK j \in DOMAIN s.turns : s.turns[j].id = s.current /\ s.turns[j].text = s.content
      BY <1>3, <1>7, <2>2 DEF Whole
    <2>4. \A k \in DOMAIN s.turns : list[k] = s.turns[k]
      <3> SUFFICES ASSUME NEW k \in DOMAIN s.turns PROVE list[k] = s.turns[k]
        OBVIOUS
      <3>1. CASE k \in at
        <4>1. k = j
          BY <1>1, <2>3, <3>1 DEF IdsFine
        <4>2. s.turns[j] \in Turns
          BY <1>1, TurnsIn
        <4> DEFINE t == s.turns[j]
                   c == s.content
        <4>3. list[k] = [t EXCEPT !.text = c]
          BY <3>1, <4>1 DEF Kept1
        <4>4. t \in Turns /\ t.text = c
          BY <2>3, <4>2
        <4> HIDE DEF t, c
        <4>5. [t EXCEPT !.text = c] = t
          BY <4>4 DEF Turns
        <4> QED  BY <4>1, <4>3, <4>5 DEF t
      <3>2. CASE k \notin at
        BY <3>2 DEF Kept1
      <3> QED  BY <3>1, <3>2
    <2>5. list = s.turns
      <3>1. s.turns \in Seq(Turns)
        BY <1>1 DEF Runners
      <3>2. s.turns = [k \in DOMAIN s.turns |-> s.turns[k]]
        BY <3>1
      <3>3. list = [k \in DOMAIN s.turns |-> list[k]]
        BY DEF Kept1
      <3> HIDE DEF list
      <3> QED  BY <2>4, <3>2, <3>3
    <2> HIDE DEF list
    <2>6. x = s
      BY <1>1, <2>5 DEF Runners
    <2>7. IdsFine(s) /\ Asked(s, asks) /\ ShownOf(FinishedTurns(shown, s, s), s)
      BY <1>1, GrowsSame, FinishedShown
    <2>8. Wordy(told) = Spoken(s, asks)
      BY <1>3, <2>2, WordyNone, WholeSaid
    <2> HIDE DEF x
    <2>9. s' = Cleared(s) /\ shown' = FinishedTurns(shown, s, s)
      BY <2>1, <2>6
    <2>10. s' \in Runners /\ SessionFine' /\ s'.turns = s.turns
      BY <1>1, <1>2, <2>7, <2>8, <2>9, ClearedEnds
    <2> QED  BY <1>4, <2>10
  <1> QED  BY <1>5, <1>6, <1>7

LEMMA TalkFail ==
    ASSUME TalkInv, Fail
    PROVE  s' \in Runners /\ SessionFine'
           /\ \E t \in Turns : /\ s'.turns = Append(s.turns, t) /\ t.text = <<>> /\ t.steers = FALSE
                             /\ t.kind = "error"
  <1>1. s \in Runners /\ asks \in Nat /\ IdsFine(s)
    BY DEF TalkInv, LoopTypes, SessionFine
  <1> DEFINE i == s.fresh + 1
             kind == "error"
             e == <<>>
             z == 0
             no == FALSE
             t == Turn(i, kind, e, z)
  <1>2. /\ s' = Add(s, t) /\ shown' = FinishedTurns(shown, s, s') /\ asks' = asks /\ told' = told
        /\ phase' = "idle" /\ outcome' = "failed"
    BY DEF Fail
  <1>3. /\ i \in Nat /\ e \in Seq(Int) /\ z \in Nat /\ i > s.fresh
        /\ kind \in {"user", "text", "thinking", "use", "result", "marker", "error"}
    BY <1>1 DEF Runners
  <1>4. t.steers = no /\ t.kind = kind
    BY DEF Turn
  <1> HIDE DEF i, kind, e, z, no
  <1>5. t \in Turns /\ t.id = i /\ t.ask = asks /\ t.text = e
    BY <1>1, <1>3, TurnType DEF Turn
  <1> HIDE DEF t
  <1>6. Unused(s, t.id)
    BY <1>1, <1>3, <1>5, FreshUnused
  <1> DEFINE x == Add(s, t)
  <1>7. /\ x \in Runners /\ IdsFine(x) /\ Asked(x, asks)
        /\ ShownOf(FinishedTurns(shown, s, x), x) /\ x.turns = Append(s.turns, t)
    BY <1>5, <1>6, AddShown
  <1> HIDE DEF x
  <1>8. s' = x /\ shown' = FinishedTurns(shown, s, x)
    BY <1>2 DEF x
  <1>9. SessionFine'
    BY <1>2, <1>7, <1>8, TalkEnds
  <1> QED  BY <1>4, <1>5, <1>7, <1>8, <1>9 DEF e, no, kind

(* The text, the kind and the id of a turn do not change with its mode.     *)
LEMMA TalkSetMode ==
    ASSUME TalkInv, SetMode
    PROVE  s' \in Runners /\ SessionFine'
           /\ Len(s'.turns) = Len(s.turns)
           /\ \A k \in DOMAIN s.turns :
                 /\ s'.turns[k].text = s.turns[k].text /\ s'.turns[k].steers = s.turns[k].steers
                 /\ s'.turns[k].ask = s.turns[k].ask /\ s'.turns[k].kind = s.turns[k].kind
                 /\ s'.turns[k].call = s.turns[k].call
  <1>1. /\ s \in Runners /\ asks \in Nat /\ IdsFine(s) /\ Asked(s, asks) /\ ShownOf(shown, s)
    BY DEF TalkInv, LoopTypes, SessionFine
  <1>2. PICK j \in DOMAIN s.turns, mode \in {"drop", "summary"} : s' = [s EXCEPT !.turns[j].mode = mode]
    BY DEF SetMode
  <1>3. /\ phase = "idle" /\ asks' = asks /\ told' = told /\ phase' = phase /\ outcome' = outcome
        /\ shown' = shown
    BY DEF SetMode
  <1> DEFINE t == s.turns[j]
             u == [t EXCEPT !.mode = mode]
             list == [s.turns EXCEPT ![j] = u]
  <1>4. t \in Turns
    BY <1>1, TurnsIn
  <1>5. /\ u \in Turns /\ u.id = t.id /\ u.kind = t.kind /\ u.text = t.text /\ u.ask = t.ask
        /\ u.steers = t.steers /\ u.call = t.call
    <2> HIDE DEF t
    <2>1. mode \in {"full", "drop", "summary"}
      OBVIOUS
    <2> HIDE DEF u
    <2>2. u = [t EXCEPT !.mode = mode]
      BY DEF u
    <2> QED  BY <1>4, <2>1, <2>2 DEF Turns
  <1>6. s' = [s EXCEPT !.turns = list]
    BY <1>2
  <1>7. s.turns \in Seq(Turns)
    BY <1>1 DEF Runners
  <1> HIDE DEF u
  <1>8. /\ list \in Seq(Turns) /\ DOMAIN list = DOMAIN s.turns /\ Len(list) = Len(s.turns)
        /\ list[j] = u /\ \A k \in DOMAIN s.turns : k # j => list[k] = s.turns[k]
    BY <1>5, <1>7
  <1> HIDE DEF list
  <1>9. s' \in Runners /\ s'.turns = list /\ s'.fresh = s.fresh
    BY <1>1, <1>6, <1>8 DEF Runners
  <1>10. /\ DOMAIN s'.turns = DOMAIN s.turns
         /\ \A k \in DOMAIN s.turns : s'.turns[k].id = s.turns[k].id /\ s'.turns[k].kind = s.turns[k].kind
               /\ s'.turns[k].text = s.turns[k].text /\ s'.turns[k].ask = s.turns[k].ask
               /\ s'.turns[k].steers = s.turns[k].steers /\ s'.turns[k].call = s.turns[k].call
    BY <1>5, <1>8, <1>9
  <1>11. IdsFine(s')
    BY <1>1, <1>9, <1>10 DEF IdsFine
  <1>12. Asked(s', asks)
    BY <1>1, <1>10 DEF Asked
  <1>13. ShownOf(shown, s')
    BY <1>1, <1>10 DEF ShownOf
  <1>14. Spoken(s', asks) = Spoken(s, asks)
    <2>1. \A k \in DOMAIN s.turns : SpeechOf(s'.turns[k], asks) = SpeechOf(s.turns[k], asks)
      BY <1>10 DEF SpeechOf
    <2>2. [k \in DOMAIN s'.turns |-> SpeechOf(s'.turns[k], asks)]
              = [k \in DOMAIN s.turns |-> SpeechOf(s.turns[k], asks)]
      BY <1>10, <2>1
    <2> QED  BY <2>2 DEF Spoken
  <1>15. outcome # "failed" => Wordy(told) = Spoken(s', asks)
    BY <1>3, <1>14 DEF TalkInv, SessionFine
  <1>16. SessionFine'
    BY <1>3, <1>11, <1>12, <1>13, <1>15 DEF SessionFine
  <1> QED  BY <1>8, <1>9, <1>10, <1>16

LEMMA TalkNext == LoopAssumption /\ TalkInv /\ LoopNext => TalkInv'
  <1> SUFFICES ASSUME LoopAssumption, TalkInv, LoopNext PROVE TalkInv'
    OBVIOUS
  <1>1. /\ asks \in Nat /\ words \in Nat /\ told \in Seq(Int) /\ queue \in Seq(Int)
        /\ response \in Seq(Nat) /\ todo \in Seq(Nat) /\ calls \in CallsType
        /\ phase \in {"idle", "answer", "tools"} /\ s \in Runners
    BY DEF TalkInv, LoopTypes
  <1>2. words + 1 \in Nat /\ words + 1 \in Int /\ <<words + 1>> \in Seq(Int) /\ <<>> \in Seq(Int)
    BY <1>1
  <1>3. CASE Ask
    <2>1. Submit(<<words + 1>>) /\ words' = words + 1 /\ calls' = calls /\ queue' = queue
      BY <1>3 DEF Ask
    <2> DEFINE prompt == <<words + 1>>
    <2>2. prompt \in Seq(Int) /\ Submit(prompt)
      BY <1>2, <2>1
    <2> HIDE DEF prompt
    <2>3. /\ asks' \in Nat /\ told' \in Seq(Int) /\ response' \in Seq(Nat) /\ todo' \in Seq(Nat)
          /\ phase' \in {"idle", "answer", "tools"} /\ s' \in Runners /\ SessionFine'
      BY <2>2, TalkSubmit
    <2> QED  BY <1>1, <1>2, <2>1, <2>3 DEF TalkInv, LoopTypes
  <1>4. CASE AskQueued
    <2>1. Submit(queue) /\ words' = words /\ calls' = calls /\ queue' = <<>>
      BY <1>4 DEF AskQueued
    <2>2. /\ asks' \in Nat /\ told' \in Seq(Int) /\ response' \in Seq(Nat) /\ todo' \in Seq(Nat)
          /\ phase' \in {"idle", "answer", "tools"} /\ s' \in Runners /\ SessionFine'
      BY <1>1, <2>1, TalkSubmit
    <2> QED  BY <1>1, <1>2, <2>1, <2>2 DEF TalkInv, LoopTypes
  <1>5. CASE QueueMessage
    <2>1. /\ words' = words + 1 /\ queue' = Append(queue, words + 1)
          /\ UNCHANGED <<asks, calls, phase, told, outcome, s, response, todo, shown>>
      BY <1>5 DEF QueueMessage
    <2>2. queue' \in Seq(Int)
      BY <1>1, <1>2, <2>1
    <2> QED  BY <1>1, <1>2, <2>1, <2>2 DEF TalkInv, LoopTypes, SessionFine
  <1>6. CASE SetMode
    <2>1. UNCHANGED <<asks, words, calls, phase, told, response, todo, queue>>
      BY <1>6 DEF SetMode
    <2> QED  BY <1>1, <1>6, <2>1, TalkSetMode DEF TalkInv, LoopTypes
  <1>7. ASSUME NEW kind \in Speech, NEW p \in Int, Piece(kind, p), words' \in Nat PROVE TalkInv'
    <2>1. UNCHANGED <<asks, calls, phase, response, todo, queue>>
      BY <1>7 DEF Piece
    <2>2. told' \in Seq(Int) /\ s' \in Runners /\ SessionFine'
      BY <1>7, TalkPiece
    <2> QED  BY <1>1, <1>7, <2>1, <2>2 DEF TalkInv, LoopTypes
  <1>8. CASE StreamWord
    <2>1. words' \in Nat
      BY <1>2, <1>8 DEF StreamWord
    <2>2. PICK kind \in Speech : Piece(kind, words + 1)
      BY <1>8 DEF StreamWord, Speech
    <2> QED  BY <1>2, <1>7, <2>1, <2>2
  <1>9. CASE StreamBlank
    <2>1. words' \in Nat /\ Blank \in Int
      BY <1>1, <1>9 DEF StreamBlank, Blank
    <2>2. PICK kind \in Speech : Piece(kind, Blank)
      BY <1>9 DEF StreamBlank, Speech
    <2> QED  BY <1>7, <2>1, <2>2
  <1>10. CASE StartCall
    <2>1. UNCHANGED <<asks, words, phase, told, todo, queue>> /\ response' = Append(response, Len(calls) + 1)
      BY <1>10 DEF StartCall
    <2>2. response' \in Seq(Nat) /\ calls' \in CallsType
      <3>1. Len(calls) + 1 \in Nat
        BY <1>1 DEF CallsType
      <3>2. response' \in Seq(Nat)
        BY <1>1, <2>1, <3>1
      <3>3. PICK kind \in CallKinds :
                calls' = Append(calls, [kind |-> kind, batch |-> Head(response \o <<Len(calls) + 1>>)])
        BY <1>10 DEF StartCall
      <3>4. Head(response \o <<Len(calls) + 1>>) \in Nat
        BY <1>1, <3>1
      <3> DEFINE b == Head(response \o <<Len(calls) + 1>>)
                 kinds == [kind : CallKinds, batch : Nat]
                 r == [kind |-> kind, batch |-> b]
      <3> HIDE DEF b
      <3>5. r \in kinds /\ b \in Nat
        BY <3>4 DEF b
      <3>6. calls' = Append(calls, r)
        BY <3>3 DEF b
      <3> HIDE DEF kinds, r
      <3>7. calls \in Seq(kinds)
        BY <1>1 DEF CallsType, kinds
      <3>8. calls' \in Seq(kinds)
        BY <3>5, <3>6, <3>7
      <3> QED  BY <3>2, <3>8 DEF CallsType, kinds
    <2> QED  BY <1>1, <1>10, <2>1, <2>2, TalkStartCall DEF TalkInv, LoopTypes
  <1>11. CASE EndWithCalls
    <2>1. UNCHANGED <<asks, words, calls, told, response, queue>> /\ phase' = "tools" /\ todo' = response
      BY <1>11 DEF EndWithCalls
    <2> QED  BY <1>1, <1>11, <2>1, TalkEndWithCalls DEF TalkInv, LoopTypes
  <1>12. CASE EmbeddedCalls
    <2>1. UNCHANGED <<asks, words, told, queue>> /\ phase' = "tools" /\ todo' = response'
      BY <1>12 DEF EmbeddedCalls
    <2>2. s' \in Runners /\ SessionFine' /\ response' \in Seq(Nat) /\ calls' \in CallsType
      BY <1>12, TalkEmbeddedCalls
    <2> QED  BY <1>1, <2>1, <2>2 DEF TalkInv, LoopTypes
  <1>13. CASE Finish
    <2>1. UNCHANGED <<asks, words, calls, told, response, todo, queue>> /\ phase' = "idle"
      BY <1>13 DEF Finish
    <2> QED  BY <1>1, <1>13, <2>1, TalkFinish DEF TalkInv, LoopTypes
  <1>14. CASE Execute
    <2>1. UNCHANGED <<asks, words, calls, told, response>>
      BY <1>14 DEF Execute
    <2> QED  BY <1>1, <1>14, <2>1, TalkExecute DEF TalkInv, LoopTypes
  <1>15. CASE NextResponse
    <2>1. /\ UNCHANGED <<asks, words, calls, told, outcome, s, todo, queue, shown>>
          /\ phase = "tools" /\ phase' = "answer" /\ response' = <<>>
      BY <1>15 DEF NextResponse
    <2>2. response' \in Seq(Nat)
      BY <2>1
    <2> QED  BY <1>1, <2>1, <2>2 DEF TalkInv, LoopTypes, SessionFine
  <1>16. CASE Cancel
    <2>1. UNCHANGED <<asks, words, calls, told, response, queue>> /\ phase' = "idle"
      BY <1>16 DEF Cancel
    <2> QED  BY <1>1, <1>16, <2>1, TalkCancel DEF TalkInv, LoopTypes
  <1>17. CASE Fail
    <2>1. UNCHANGED <<asks, words, calls, told, response, todo, queue>> /\ phase' = "idle"
      BY <1>17 DEF Fail
    <2> QED  BY <1>1, <1>17, <2>1, TalkFail DEF TalkInv, LoopTypes
  <1> QED  BY <1>3, <1>4, <1>5, <1>6, <1>8, <1>9, <1>10, <1>11, <1>12, <1>13, <1>14, <1>15, <1>16, <1>17
           DEF LoopNext

LEMMA TalkAlways == LoopSpec => []TalkInv
  <1>1. TalkInv /\ UNCHANGED loopVars => TalkInv'
    BY DEF loopVars, TalkInv, LoopTypes, SessionFine
  <1> QED  BY <1>1, LoopAssumption, TalkInit, TalkNext, PTL DEF LoopSpec

(* Unless the server failed, the turns of an exchange hold every word the   *)
(* model streamed, once and in its order (_flush_text_as_turn,              *)
(* _flush_partial_as_interrupted).                                          *)
THEOREM WordsKeptCorrect == LoopSpec => []WordsKept
  <1>1. TalkInv => WordsKept
    BY DEF TalkInv, SessionFine, WordsKept, Spoken, SpeechOf, Speech
  <1> QED  BY <1>1, TalkAlways, PTL

(* Every stored turn has been shown to the clients as finished, with the    *)
(* text that is stored (_dispatch_event, turn_complete).                    *)
THEOREM StoredIsShownCorrect == LoopSpec => []StoredIsShown
  <1>1. TalkInv => StoredIsShown
    <2> SUFFICES ASSUME TalkInv, NEW t \in ToSet(s.turns)
                 PROVE  /\ t.id \in DOMAIN shown
                        /\ t.kind \in {"text", "thinking"} => Wordy(shown[t.id].text) = Wordy(t.text)
                        /\ (phase = "idle" \/ t.id # s.current) => shown[t.id].done
      BY DEF StoredIsShown
    <2>1. PICK k \in DOMAIN s.turns : s.turns[k] = t
      BY DEF ToSet
    <2> QED  BY <2>1 DEF TalkInv, SessionFine, ShownOf
  <1> QED  BY <1>1, TalkAlways, PTL


-----------------------------------------------------------------------------
(* What a fork takes over: decided when it is accepted, from turns whose    *)
(* ids are all different.                                                   *)

TurnKinds == {"text", "markdown", "image", "answer", "proposal", "link"}
ParentTurns == [id : Nat, ex : Nat, kind : TurnKinds]

ParentFine ==
    /\ parent \in Seq(ParentTurns) /\ lastId \in Nat
    /\ \A i \in DOMAIN parent : parent[i].id <= lastId
    /\ \A i, j \in DOMAIN parent : parent[i].id = parent[j].id => i = j

InOrder(f) ==
    \A k, m \in DOMAIN f.has :
        /\ f.has[k].of \subseteq ToSet(f.order)
        /\ k < m => /\ PlaceOf(f, Firsts(f, k)) < PlaceOf(f, Firsts(f, m))
                    /\ f.has[k].of \cap f.has[m].of = {}
Unbroken(f) ==
    \A k, m \in DOMAIN f.has :
        f.has[k].kind = "summary" /\ m > k =>
            \A x \in f.has[k].of : \A y \in f.has[m].of : PlaceOf(f, x) < PlaceOf(f, y)
LeavesOut(f) == \A k \in DOMAIN f.has : f.has[k].of \cap f.dropped = {}
Faithful(f) == InOrder(f) /\ Unbroken(f) /\ LeavesOut(f)

ForkInv ==
    /\ ParentFine /\ under \in Nat
    /\ \A f \in compressing \cup children : Faithful(f)

Sorted(list) == \A i, j \in DOMAIN list : i < j => list[i] < list[j]

LEMMA SortedAppend ==
    ASSUME NEW list \in Seq(Nat), NEW x \in Nat, Sorted(list), \A y \in Range(list) : y < x
    PROVE  Sorted(Append(list, x))
  <1> DEFINE more == Append(list, x)
             n == Len(list)
  <1>1. /\ more \in Seq(Nat) /\ Len(more) = n + 1 /\ n \in Nat
        /\ \A i \in 1..n : more[i] = list[i]
        /\ more[n + 1] = x
    BY Appended
  <1>2. DOMAIN more = 1..n + 1 /\ DOMAIN list = 1..n
    BY <1>1
  <1> HIDE DEF more, n
  <1>3. ASSUME NEW i \in 1..n + 1, NEW j \in 1..n + 1, i < j PROVE more[i] < more[j]
    <2>1. i \in 1..n
      BY <1>1, <1>3
    <2>2. CASE j \in 1..n
      BY <1>1, <1>2, <1>3, <2>1, <2>2 DEF Sorted
    <2>3. CASE j = n + 1
      BY <1>1, <1>2, <2>1, <2>3 DEF Range
    <2>4. j \in 1..n \/ j = n + 1
      BY <1>1, <1>3
    <2> QED  BY <2>2, <2>3, <2>4
  <1>4. Sorted(more)
    BY <1>2, <1>3 DEF Sorted
  <1> QED  BY <1>4 DEF more

LEMMA KeptSorted ==
    ASSUME NEW list \in Seq(Nat), Sorted(list), NEW S
    PROVE  Sorted(Kept(list, S))
  <1> DEFINE N == Len(list)
  <1>1. N \in Nat /\ DOMAIN list = 1..N
    OBVIOUS
  <1>2. PICK kept : Kept(list, S) = kept[N] /\ Keeps(kept, list, S)
    <2>1. Len(list) \in Nat
      OBVIOUS
    <2>2. \E kept : Kept(list, S) = kept[Len(list)] /\ Keeps(kept, list, S)
      BY <2>1, KeptFound DEF Keeps
    <2> QED  BY <2>2
  <1>0. /\ kept[0] = <<>>
        /\ \A n \in Nat : n + 1 <= N =>
              kept[n + 1] = IF list[n + 1] \in S THEN Append(kept[n], list[n + 1]) ELSE kept[n]
    BY <1>2 DEF Keeps
  <1> HIDE DEF N
  <1> DEFINE Good == {n \in Nat : n <= N =>
                /\ kept[n] \in Seq(Nat) /\ Sorted(kept[n])
                /\ \A y \in Range(kept[n]) : \A i \in n + 1..N : y < list[i]}
  <1>3. 0 \in Good
    <2>1. kept[0] \in Seq(Nat) /\ Sorted(kept[0]) /\ Range(kept[0]) = {}
      BY <1>0, NoRange DEF Sorted
    <2> QED  BY <2>1
  <1>4. ASSUME NEW n \in Nat, n \in Good PROVE n + 1 \in Good
    <2> SUFFICES ASSUME n + 1 <= N
                 PROVE  /\ kept[n + 1] \in Seq(Nat) /\ Sorted(kept[n + 1])
                        /\ \A y \in Range(kept[n + 1]) : \A i \in n + 1 + 1..N : y < list[i]
      OBVIOUS
    <2>1. /\ kept[n] \in Seq(Nat) /\ Sorted(kept[n])
          /\ \A y \in Range(kept[n]) : \A i \in n + 1..N : y < list[i]
      BY <1>1, <1>4
    <2>2. n + 1 \in 1..N /\ list[n + 1] \in Nat /\ n + 1 \in n + 1..N
      BY <1>1
    <2>3. \A i \in n + 1 + 1..N : i \in n + 1..N /\ i \in 1..N /\ n + 1 < i
      BY <1>1
    <2>4. \A i \in n + 1 + 1..N : list[n + 1] < list[i]
      BY <1>1, <2>2, <2>3 DEF Sorted
    <2>5. CASE list[n + 1] \in S
      <3>1. kept[n + 1] = Append(kept[n], list[n + 1])
        BY <1>0, <2>5
      <3>2. Sorted(kept[n + 1])
        BY <2>1, <2>2, <3>1, SortedAppend
      <3>3. kept[n + 1] \in Seq(Nat) /\ Range(kept[n + 1]) = Range(kept[n]) \cup {list[n + 1]}
        BY <2>1, <2>2, <3>1, RangeAppend
      <3> QED  BY <2>1, <2>3, <2>4, <3>2, <3>3
    <2>6. CASE list[n + 1] \notin S
      <3>1. kept[n + 1] = kept[n]
        BY <1>0, <2>6
      <3> QED  BY <2>1, <2>3, <3>1
    <2> QED  BY <2>5, <2>6
  <1> HIDE DEF Good
  <1>5. Nat \subseteq Good
    BY <1>3, <1>4, Induction
  <1>6. N <= N
    BY <1>1
  <1> QED  BY <1>1, <1>2, <1>5, <1>6 DEF Good

(* The indices in a fork's content, and what stands for each.               *)
IsFirstOf(run, i) == i \in run /\ \A j \in run : i <= j
PickedFrom(modes) ==
    {i \in DOMAIN parent : modes[i] = "copy" \/ IsFirstOf(FirstRun(modes), i)}
OrderOf(modes) == Kept([i \in DOMAIN parent |-> i], PickedFrom(modes))
StandFor(modes, i) == IF IsFirstOf(FirstRun(modes), i) THEN FirstRun(modes) ELSE {i}

LEMMA OrderIs ==
    ASSUME ParentFine, NEW modes
    PROVE  /\ OrderOf(modes) \in Seq(Nat) /\ Sorted(OrderOf(modes))
           /\ \A k \in DOMAIN OrderOf(modes) : OrderOf(modes)[k] \in PickedFrom(modes)
  <1> DEFINE idx == [i \in DOMAIN parent |-> i]
  <1>1. DOMAIN parent = 1..Len(parent) /\ Len(parent) \in Nat
    BY DEF ParentFine
  <1>2. idx \in Seq(Nat)
    BY <1>1
  <1>3. Sorted(idx)
    BY DEF Sorted
  <1> HIDE DEF idx
  <1>4. Sorted(Kept(idx, PickedFrom(modes)))
    BY <1>2, <1>3, KeptSorted
  <1>5. /\ Kept(idx, PickedFrom(modes)) \in Seq(Nat)
        /\ Range(Kept(idx, PickedFrom(modes))) = Range(idx) \cap PickedFrom(modes)
    BY <1>2, KeptRange
  <1> QED  BY <1>4, <1>5 DEF OrderOf, idx, Range

LEMMA ContentIs ==
    ASSUME ParentFine, NEW modes
    PROVE  /\ DOMAIN Content(modes) = DOMAIN OrderOf(modes)
           /\ \A k \in DOMAIN OrderOf(modes) :
                 /\ Content(modes)[k].of = {parent[i].id : i \in StandFor(modes, OrderOf(modes)[k])}
                 /\ Content(modes)[k].kind = "summary" => IsFirstOf(FirstRun(modes), OrderOf(modes)[k])
  <1> DEFINE order == OrderOf(modes)
  <1>1. Content(modes) =
            [k \in DOMAIN order |->
                IF IsFirstOf(FirstRun(modes), order[k])
                THEN Item("summary", {parent[i].id : i \in FirstRun(modes)})
                ELSE Item("copy", {parent[order[k]].id})]
    BY DEF Content, OrderOf, PickedFrom, IsFirstOf
  <1> HIDE DEF order
  <1>2. DOMAIN Content(modes) = DOMAIN order
    BY <1>1
  <1>3. ASSUME NEW k \in DOMAIN order
        PROVE  /\ Content(modes)[k].of = {parent[i].id : i \in StandFor(modes, order[k])}
               /\ Content(modes)[k].kind = "summary" => IsFirstOf(FirstRun(modes), order[k])
    <2>1. CASE IsFirstOf(FirstRun(modes), order[k])
      <3>1. Content(modes)[k] = Item("summary", {parent[i].id : i \in FirstRun(modes)})
        BY <1>1, <2>1
      <3> QED  BY <2>1, <3>1 DEF StandFor, Item
    <2>2. CASE ~IsFirstOf(FirstRun(modes), order[k])
      <3>1. Content(modes)[k] = Item("copy", {parent[order[k]].id})
        BY <1>1, <2>2
      <3>2. StandFor(modes, order[k]) = {order[k]}
        BY <2>2 DEF StandFor
      <3>3. Content(modes)[k].of = {parent[order[k]].id} /\ Content(modes)[k].kind = "copy"
        BY <3>1 DEF Item
      <3>4. {parent[order[k]].id} = {parent[i].id : i \in StandFor(modes, order[k])}
        BY <3>2
      <3> QED  BY <3>3, <3>4
    <2> QED  BY <2>1, <2>2
  <1> QED  BY <1>2, <1>3 DEF order

(* Turns to compress that stand together, and copies beside them.           *)
LEMMA StandIs ==
    ASSUME ParentFine, NEW modes, NEW i \in PickedFrom(modes)
    PROVE  /\ i \in Nat /\ i \in StandFor(modes, i) /\ StandFor(modes, i) \subseteq DOMAIN parent
           /\ \A j \in StandFor(modes, i) : j \in Nat /\ i <= j
           /\ \A j \in StandFor(modes, i) : modes[j] \in {"copy", "compress"}
           /\ ~IsFirstOf(FirstRun(modes), i) => modes[i] = "copy" /\ StandFor(modes, i) = {i}
  <1>1. DOMAIN parent \subseteq Nat
    BY DEF ParentFine
  <1>2. FirstRun(modes) \subseteq InMode(modes, "compress") /\ InMode(modes, "compress") \subseteq DOMAIN parent
    BY DEF FirstRun, InMode
  <1>3. \A j \in InMode(modes, "compress") : modes[j] = "compress"
    BY DEF InMode
  <1>4. i \in DOMAIN parent /\ (modes[i] = "copy" \/ IsFirstOf(FirstRun(modes), i))
    BY DEF PickedFrom
  <1>5. CASE IsFirstOf(FirstRun(modes), i)
    BY <1>1, <1>2, <1>3, <1>5 DEF IsFirstOf, StandFor
  <1>6. CASE ~IsFirstOf(FirstRun(modes), i)
    BY <1>1, <1>4, <1>6 DEF StandFor
  <1> QED  BY <1>5, <1>6

LEMMA StandApart ==
    ASSUME ParentFine, NEW modes, NEW i \in PickedFrom(modes), NEW j \in PickedFrom(modes), i < j
    PROVE  /\ StandFor(modes, i) \cap StandFor(modes, j) = {}
           /\ IsFirstOf(FirstRun(modes), i) =>
                \A x \in StandFor(modes, i), y \in StandFor(modes, j) : x < y
  <1> DEFINE run == FirstRun(modes)
  <1>1. i \in Nat /\ j \in Nat
    BY StandIs
  <1>2. CASE IsFirstOf(run, i)
    <2>1. ~IsFirstOf(run, j)
      BY <1>1, <1>2 DEF IsFirstOf
    <2>2. modes[j] = "copy" /\ StandFor(modes, j) = {j} /\ j \in DOMAIN parent
      BY <2>1, StandIs DEF PickedFrom
    <2>3. StandFor(modes, i) = run /\ i \in run
      BY <1>2 DEF StandFor, IsFirstOf
    <2>4. ASSUME NEW x \in run PROVE x < j
      <3>1. x \in InMode(modes, "compress") /\ i \in InMode(modes, "compress") /\ j \in InMode(modes, "copy")
        BY <2>2, <2>3 DEF FirstRun, InMode
      <3>2. j < x => j < i
        BY <3>1 DEF FirstRun
      <3>3. x # j /\ x \in Nat
        BY <3>1 DEF InMode, ParentFine
      <3> QED  BY <1>1, <3>2, <3>3
    <2>5. StandFor(modes, i) \cap StandFor(modes, j) = {}
      BY <1>1, <2>2, <2>3, <2>4
    <2> QED  BY <2>2, <2>3, <2>4, <2>5
  <1>3. CASE ~IsFirstOf(run, i)
    <2>1. StandFor(modes, i) = {i}
      BY <1>3, StandIs
    <2>2. \A y \in StandFor(modes, j) : y \in Nat /\ j <= y
      BY StandIs
    <2> QED  BY <1>1, <1>3, <2>1, <2>2
  <1> QED  BY <1>2, <1>3

LEMMA PlaceIs ==
    ASSUME ParentFine, NEW f, f.order = [i \in DOMAIN parent |-> parent[i].id],
           NEW i \in DOMAIN parent
    PROVE  PlaceOf(f, parent[i].id) = i
  <1>1. DOMAIN f.order = DOMAIN parent /\ \A j \in DOMAIN parent : f.order[j] = parent[j].id
    OBVIOUS
  <1>2. \A j \in DOMAIN parent : f.order[j] = parent[i].id => j = i
    BY <1>1 DEF ParentFine
  <1> QED  BY <1>1, <1>2 DEF PlaceOf

LEMMA FirstsIs ==
    ASSUME ParentFine, NEW f, f.order = [i \in DOMAIN parent |-> parent[i].id],
           NEW k, NEW M \in SUBSET DOMAIN parent, f.has[k].of = {parent[i].id : i \in M},
           NEW i \in M, \A j \in M : i <= j
    PROVE  PlaceOf(f, Firsts(f, k)) = i
  <1>1. \A j \in M : PlaceOf(f, parent[j].id) = j
    BY PlaceIs
  <1>2. DOMAIN parent \subseteq Nat
    BY DEF ParentFine
  <1> DEFINE id == Firsts(f, k)
             S == f.has[k].of
  <1>3. \A x \in S : PlaceOf(f, parent[i].id) <= PlaceOf(f, x)
    BY <1>1
  <1>4. parent[i].id \in S
    OBVIOUS
  <1>5. id = CHOOSE y \in S : \A x \in S : PlaceOf(f, y) <= PlaceOf(f, x)
    BY DEF Firsts
  <1>6. id \in S /\ \A x \in S : PlaceOf(f, id) <= PlaceOf(f, x)
    BY <1>3, <1>4, <1>5
  <1>7. PICK j \in M : id = parent[j].id
    BY <1>6
  <1>8. PlaceOf(f, id) = j /\ j <= i /\ i <= j /\ i \in Nat /\ j \in Nat
    BY <1>1, <1>2, <1>4, <1>6, <1>7
  <1> QED  BY <1>8

LEMMA AcceptedFaithful ==
    ASSUME ParentFine, NEW modes, NEW p
    PROVE  Faithful(Accepted(p, modes))
  <1> DEFINE f == Accepted(p, modes)
             order == OrderOf(modes)
             M(k) == StandFor(modes, order[k])
  <1>1. /\ f.order = [i \in DOMAIN parent |-> parent[i].id] /\ f.has = Content(modes)
        /\ f.dropped = {parent[i].id : i \in InMode(modes, "drop")}
    BY DEF Accepted
  <1> HIDE DEF f
  <1>2. /\ DOMAIN f.has = DOMAIN order
        /\ \A k \in DOMAIN order :
              /\ f.has[k].of = {parent[i].id : i \in M(k)}
              /\ f.has[k].kind = "summary" => IsFirstOf(FirstRun(modes), order[k])
    BY <1>1, ContentIs
  <1>3. /\ order \in Seq(Nat) /\ Sorted(order)
        /\ \A k \in DOMAIN order : order[k] \in PickedFrom(modes)
    BY OrderIs
  <1>4. \A k \in DOMAIN order :
            /\ order[k] \in Nat /\ order[k] \in M(k) /\ M(k) \subseteq DOMAIN parent
            /\ \A j \in M(k) : order[k] <= j
            /\ \A j \in M(k) : modes[j] \in {"copy", "compress"}
    BY <1>3, StandIs
  <1>5. ASSUME NEW k \in DOMAIN order, NEW m \in DOMAIN order, k < m
        PROVE  /\ M(k) \cap M(m) = {}
               /\ IsFirstOf(FirstRun(modes), order[k]) => \A x \in M(k), y \in M(m) : x < y
               /\ order[k] < order[m]
    <2>1. order[k] < order[m]
      BY <1>3, <1>5 DEF Sorted
    <2> QED  BY <1>3, <2>1, StandApart
  <1>6. \A k \in DOMAIN order : PlaceOf(f, Firsts(f, k)) = order[k]
    BY <1>1, <1>2, <1>4, FirstsIs
  <1> HIDE DEF order, M
  <1>7. InOrder(f)
    <2> SUFFICES ASSUME NEW k \in DOMAIN order, NEW m \in DOMAIN order
                 PROVE  /\ f.has[k].of \subseteq ToSet(f.order)
                        /\ k < m => /\ PlaceOf(f, Firsts(f, k)) < PlaceOf(f, Firsts(f, m))
                                    /\ f.has[k].of \cap f.has[m].of = {}
      BY <1>2 DEF InOrder
    <2>1. f.has[k].of \subseteq ToSet(f.order)
      BY <1>1, <1>2, <1>4 DEF ToSet
    <2>2. ASSUME k < m PROVE f.has[k].of \cap f.has[m].of = {}
      <3>1. \A i \in M(k), j \in M(m) : parent[i].id # parent[j].id
        BY <1>4, <1>5, <2>2 DEF ParentFine
      <3> QED  BY <1>2, <3>1
    <2> QED  BY <1>5, <1>6, <2>1, <2>2
  <1>8. Unbroken(f)
    <2> SUFFICES ASSUME NEW k \in DOMAIN order, NEW m \in DOMAIN order,
                        f.has[k].kind = "summary", m > k,
                        NEW x \in f.has[k].of, NEW y \in f.has[m].of
                 PROVE  PlaceOf(f, x) < PlaceOf(f, y)
      BY <1>2 DEF Unbroken
    <2>1. PICK i \in M(k) : x = parent[i].id
      BY <1>2
    <2>2. PICK j \in M(m) : y = parent[j].id
      BY <1>2
    <2>3. k \in Nat /\ m \in Nat
      BY <1>3
    <2>4. i < j
      BY <1>2, <1>5, <2>3
    <2>5. i \in DOMAIN parent /\ j \in DOMAIN parent
      BY <1>4
    <2>6. PlaceOf(f, x) = i /\ PlaceOf(f, y) = j
      BY <1>1, <2>1, <2>2, <2>5, PlaceIs
    <2> QED  BY <2>4, <2>6
  <1>9. LeavesOut(f)
    <2> SUFFICES ASSUME NEW k \in DOMAIN order, NEW x \in f.has[k].of, x \in f.dropped PROVE FALSE
      BY <1>2 DEF LeavesOut
    <2>1. PICK i \in M(k) : x = parent[i].id
      BY <1>2
    <2>2. PICK j \in InMode(modes, "drop") : x = parent[j].id
      BY <1>1
    <2>3. j \in DOMAIN parent /\ modes[j] = "drop"
      BY DEF InMode
    <2>4. i = j
      BY <1>4, <2>1, <2>2, <2>3 DEF ParentFine
    <2> QED  BY <1>4, <2>3, <2>4
  <1> QED  BY <1>7, <1>8, <1>9 DEF Faithful, f

-----------------------------------------------------------------------------
(* The parent's turns come and go, their ids do not come back.              *)

LEMMA ParentAdds ==
    ASSUME ParentFine, NEW more \in Seq(ParentTurns), parent' = parent \o more,
           lastId' \in Nat, lastId <= lastId',
           \A i \in DOMAIN more : more[i].id > lastId /\ more[i].id <= lastId',
           \A i, j \in DOMAIN more : more[i].id = more[j].id => i = j
    PROVE  ParentFine'
  <1> DEFINE n == Len(parent)
             m == Len(more)
  <1>1. /\ n \in Nat /\ m \in Nat /\ parent \in Seq(ParentTurns) /\ lastId \in Nat
        /\ parent' \in Seq(ParentTurns) /\ DOMAIN parent' = 1..n + m
        /\ \A k \in 1..n : parent'[k] = parent[k]
        /\ \A k \in 1..m : parent'[n + k] = more[k]
        /\ DOMAIN parent = 1..n /\ DOMAIN more = 1..m
    BY Joined DEF ParentFine
  <1>2. \A k \in 1..n : parent[k].id \in Nat /\ parent[k].id <= lastId
    <2>1. \A k \in 1..n : parent[k] \in ParentTurns
      BY <1>1
    <2> QED  BY <1>1, <2>1 DEF ParentFine, ParentTurns
  <1>3. \A k \in 1..m : more[k].id \in Nat /\ more[k].id > lastId /\ more[k].id <= lastId'
    <2>1. \A k \in 1..m : more[k] \in ParentTurns
      BY <1>1
    <2> QED  BY <1>1, <2>1 DEF ParentTurns
  <1> HIDE DEF n, m
  <1>4. ASSUME NEW k \in 1..n + m
        PROVE  \/ k \in 1..n /\ parent'[k] = parent[k]
               \/ k - n \in 1..m /\ parent'[k] = more[k - n]
    <2>1. CASE k <= n
      BY <1>1, <2>1
    <2>2. CASE k > n
      <3>1. k - n \in 1..m /\ n + (k - n) = k
        BY <1>1, <2>2
      <3> QED  BY <1>1, <3>1
    <2> QED  BY <1>1, <2>1, <2>2
  <1>5. ASSUME NEW k \in 1..n + m PROVE parent'[k].id <= lastId'
    BY <1>1, <1>2, <1>3, <1>4
  <1>6. ASSUME NEW j \in 1..n + m, NEW k \in 1..n + m, parent'[j].id = parent'[k].id PROVE j = k
    <2>1. CASE j \in 1..n /\ parent'[j] = parent[j] /\ k \in 1..n /\ parent'[k] = parent[k]
      BY <1>1, <1>6, <2>1 DEF ParentFine
    <2>2. CASE j - n \in 1..m /\ parent'[j] = more[j - n] /\ k - n \in 1..m /\ parent'[k] = more[k - n]
      <3>1. j - n = k - n
        BY <1>1, <1>6, <2>2
      <3> QED  BY <1>1, <3>1
    <2>3. CASE j \in 1..n /\ parent'[j] = parent[j] /\ k - n \in 1..m /\ parent'[k] = more[k - n]
      BY <1>1, <1>2, <1>3, <1>6, <2>3
    <2>4. CASE j - n \in 1..m /\ parent'[j] = more[j - n] /\ k \in 1..n /\ parent'[k] = parent[k]
      BY <1>1, <1>2, <1>3, <1>6, <2>4
    <2> QED  BY <1>4, <2>1, <2>2, <2>3, <2>4
  <1> QED  BY <1>1, <1>5, <1>6 DEF ParentFine

LEMMA ParentAddsOne ==
    ASSUME ParentFine, NEW t \in ParentTurns, parent' = Append(parent, t), t.id = lastId + 1,
           lastId' = lastId + 1
    PROVE  ParentFine'
  <1> DEFINE more == <<t>>
  <1>1. /\ more \in Seq(ParentTurns) /\ parent' = parent \o more /\ DOMAIN more = {1} /\ more[1] = t
        /\ lastId \in Nat
    BY DEF ParentFine
  <1> HIDE DEF more
  <1> QED  BY <1>1, ParentAdds

LEMMA ParentPrompt ==
    ASSUME ForkInv, NEW kind \in TurnKinds, NEW extra \in Nat, Prompt(kind, extra)
    PROVE  ForkInv'
  <1> DEFINE t(i) == TurnWith(lastId + i, lastId + 1, IF i = 1 THEN kind ELSE "image")
             more == [i \in 1..(1 + extra) |-> t(i)]
  <1>1. parent' = parent \o more /\ lastId' = lastId + 2 + extra
    BY DEF Prompt
  <1>2. lastId \in Nat /\ ParentFine
    BY DEF ForkInv, ParentFine
  <1>3. \A i \in 1..(1 + extra) : t(i) \in ParentTurns /\ t(i).id = lastId + i
    <2> SUFFICES ASSUME NEW i \in 1..(1 + extra) PROVE t(i) \in ParentTurns /\ t(i).id = lastId + i
      OBVIOUS
    <2> DEFINE a == lastId + i
               b == lastId + 1
               c == IF i = 1 THEN kind ELSE "image"
    <2>1. a \in Nat /\ b \in Nat /\ c \in TurnKinds
      BY <1>2 DEF TurnKinds
    <2> HIDE DEF a, b, c
    <2>2. TurnWith(a, b, c) \in ParentTurns /\ TurnWith(a, b, c).id = a
      BY <2>1 DEF TurnWith, ParentTurns
    <2> QED  BY <2>2 DEF a, b, c
  <1> HIDE DEF t
  <1>4. more \in [1..(1 + extra) -> ParentTurns] /\ DOMAIN more = 1..(1 + extra)
        /\ \A i \in 1..(1 + extra) : more[i].id = lastId + i
    BY <1>3
  <1> HIDE DEF more
  <1>5. more \in Seq(ParentTurns)
    BY <1>4
  <1>6. /\ lastId' \in Nat /\ lastId <= lastId'
        /\ \A i \in DOMAIN more : more[i].id > lastId /\ more[i].id <= lastId'
        /\ \A i, j \in DOMAIN more : more[i].id = more[j].id => i = j
    BY <1>1, <1>2, <1>4
  <1>7. ParentFine'
    BY <1>1, <1>2, <1>5, <1>6, ParentAdds
  <1>8. compressing' = compressing /\ children' = children /\ under' \in Nat
    BY <1>2 DEF Prompt
  <1>9. \A f \in compressing' \cup children' : Faithful(f)
    BY <1>8 DEF ForkInv
  <1> QED  BY <1>7, <1>8, <1>9 DEF ForkInv

LEMMA ForkInits == ForkInit => ForkInv
  <1> SUFFICES ASSUME ForkInit PROVE ForkInv
    OBVIOUS
  <1>1. parent = <<>> /\ lastId = 0 /\ under = 0 /\ compressing = {} /\ children = {}
    BY DEF ForkInit
  <1>2. ParentFine
    BY <1>1 DEF ParentFine
  <1> QED  BY <1>1, <1>2 DEF ForkInv

LEMMA ForkSteps == ForkInv /\ ForkNext => ForkInv'
  <1> SUFFICES ASSUME ForkInv, ForkNext PROVE ForkInv'
    OBVIOUS
  <1>0. lastId \in Nat /\ under \in Nat /\ ParentFine /\ \A f \in compressing \cup children : Faithful(f)
    BY DEF ForkInv, ParentFine
  <1> DEFINE same == compressing' = compressing /\ children' = children
  <1>1. CASE SubmitText
    <2>1. Prompt("text", 0) /\ "text" \in TurnKinds /\ 0 \in Nat
      BY <1>1 DEF SubmitText, TurnKinds
    <2> QED  BY <2>1, ParentPrompt
  <1>2. CASE SubmitMarkdown
    <2>1. Prompt("markdown", 0) /\ "markdown" \in TurnKinds /\ 0 \in Nat
      BY <1>2 DEF SubmitMarkdown, TurnKinds
    <2> QED  BY <2>1, ParentPrompt
  <1>3. CASE SubmitImages
    <2>1. Prompt("text", 1) /\ "text" \in TurnKinds /\ 1 \in Nat
      BY <1>3 DEF SubmitImages, TurnKinds
    <2> QED  BY <2>1, ParentPrompt
  <1>4. ASSUME NEW kind \in TurnKinds, NEW ex \in Nat,
               parent' = Append(parent, TurnWith(lastId + 1, ex, kind)), lastId' = lastId + 1,
               under' = under, same
        PROVE  ForkInv'
    <2> DEFINE a == lastId + 1
               t == TurnWith(a, ex, kind)
    <2>1. a \in Nat
      BY <1>0
    <2> HIDE DEF a
    <2>2. t \in ParentTurns /\ t.id = a
      BY <2>1 DEF TurnWith, ParentTurns
    <2>3. parent' = Append(parent, t)
      BY <1>4 DEF a
    <2> HIDE DEF t
    <2>4. t.id = lastId + 1
      BY <2>2 DEF a
    <2>5. ParentFine'
      BY <1>0, <1>4, <2>2, <2>3, <2>4, ParentAddsOne
    <2>6. \A f \in compressing' \cup children' : Faithful(f)
      BY <1>0, <1>4
    <2> QED  BY <1>0, <1>4, <2>5, <2>6 DEF ForkInv
  <1>5. CASE RunnerAdds("answer") \/ RunnerAdds("proposal")
    <2>1. PICK kind \in TurnKinds : RunnerAdds(kind)
      BY <1>5 DEF TurnKinds
    <2>2. /\ parent' = Append(parent, TurnWith(lastId + 1, under, kind)) /\ lastId' = lastId + 1
          /\ under' = under /\ same
      BY <2>1 DEF RunnerAdds
    <2> QED  BY <1>0, <1>4, <2>2
  <1>6. CASE AddLink
    <2>1. NoExchange \in Nat /\ "link" \in TurnKinds
      BY DEF NoExchange, TurnKinds
    <2>2. /\ parent' = Append(parent, TurnWith(lastId + 1, NoExchange, "link")) /\ lastId' = lastId + 1
          /\ under' = under /\ same
      BY <1>6 DEF AddLink
    <2> QED  BY <1>4, <2>1, <2>2
  <1>7. CASE EndExchange
    <2>1. parent' = parent /\ lastId' = lastId /\ under' = 0 /\ same
      BY <1>7 DEF EndExchange
    <2>2. ParentFine'
      BY <1>0, <2>1 DEF ParentFine
    <2>3. \A f \in compressing' \cup children' : Faithful(f)
      BY <1>0, <2>1
    <2> QED  BY <2>1, <2>2, <2>3 DEF ForkInv
  <1>8. ASSUME NEW i \in DOMAIN parent, DropTurn(i) PROVE ForkInv'
    <2>1. parent' = RemoveAt(parent, i) /\ lastId' = lastId /\ under' = under /\ same
      BY <1>8 DEF DropTurn
    <2>2. /\ parent \in Seq(ParentTurns) /\ DOMAIN parent = 1..Len(parent) /\ Len(parent) \in Nat
      BY <1>0 DEF ParentFine
    <2>3. /\ parent' \in Seq(ParentTurns) /\ DOMAIN parent' = 1..Len(parent) - 1
          /\ \A j \in 1..Len(parent) - 1 : parent'[j] = IF j < i THEN parent[j] ELSE parent[j + 1]
      BY <2>1, <2>2, RangeRemoveAt, RemovedAt
    <2>4. \A j \in 1..Len(parent) - 1 :
              \E k \in DOMAIN parent : parent'[j] = parent[k] /\ k = IF j < i THEN j ELSE j + 1
      <3> SUFFICES ASSUME NEW j \in 1..Len(parent) - 1
                   PROVE  \E k \in DOMAIN parent : parent'[j] = parent[k] /\ k = IF j < i THEN j ELSE j + 1
        OBVIOUS
      <3>1. j \in DOMAIN parent /\ j + 1 \in DOMAIN parent
        BY <2>2
      <3> QED  BY <2>3, <3>1
    <2>5. \A j \in DOMAIN parent' : parent'[j].id <= lastId
      BY <1>0, <2>3, <2>4 DEF ParentFine
    <2>6. ASSUME NEW j \in DOMAIN parent', NEW k \in DOMAIN parent', parent'[j].id = parent'[k].id
          PROVE  j = k
      <3>1. PICK a \in DOMAIN parent : parent'[j] = parent[a] /\ a = IF j < i THEN j ELSE j + 1
        BY <2>3, <2>4
      <3>2. PICK b \in DOMAIN parent : parent'[k] = parent[b] /\ b = IF k < i THEN k ELSE k + 1
        BY <2>3, <2>4
      <3>3. a = b
        BY <1>0, <2>6, <3>1, <3>2 DEF ParentFine
      <3> QED  BY <2>2, <2>3, <3>1, <3>2, <3>3
    <2>7. ParentFine'
      BY <1>0, <2>1, <2>3, <2>5, <2>6 DEF ParentFine
    <2>8. \A f \in compressing' \cup children' : Faithful(f)
      BY <1>0, <2>1
    <2> QED  BY <1>0, <2>1, <2>7, <2>8 DEF ForkInv
  <1>9. ASSUME NEW p, NEW modes, Accept(p, modes) PROVE ForkInv'
    <2>1. /\ compressing' \cup children' = compressing \cup children \cup {Accepted(p, modes)}
          /\ parent' = parent /\ lastId' = lastId /\ under' = under
      BY <1>9 DEF Accept
    <2>2. Faithful(Accepted(p, modes))
      BY <1>0, AcceptedFaithful
    <2>3. \A f \in compressing' \cup children' : Faithful(f)
      BY <1>0, <2>1, <2>2
    <2>4. ParentFine'
      BY <1>0, <2>1 DEF ParentFine
    <2> QED  BY <1>0, <2>1, <2>3, <2>4 DEF ForkInv
  <1>10. ASSUME NEW f \in compressing, ForkSummarised(f) PROVE ForkInv'
    <2>1. /\ compressing' \cup children' \subseteq compressing \cup children
          /\ parent' = parent /\ lastId' = lastId /\ under' = under
      BY <1>10 DEF ForkSummarised
    <2>2. ParentFine'
      BY <1>0, <2>1 DEF ParentFine
    <2> QED  BY <1>0, <2>1, <2>2 DEF ForkInv
  <1>11. ASSUME NEW f \in compressing, ForkSummaryFails(f) PROVE ForkInv'
    <2> DEFINE e == <<>>
               g == [f EXCEPT !.has = e]
    <2>1. /\ compressing' \cup children' \subseteq compressing \cup children \cup {g}
          /\ parent' = parent /\ lastId' = lastId /\ under' = under
      BY <1>11 DEF ForkSummaryFails
    <2>2. "has" \in DOMAIN f => DOMAIN g.has = {}
      OBVIOUS
    <2>3. Faithful(g)
      BY <2>2 DEF Faithful, InOrder, Unbroken, LeavesOut
    <2>4. ParentFine'
      BY <1>0, <2>1 DEF ParentFine
    <2> QED  BY <1>0, <2>1, <2>3, <2>4 DEF ForkInv
  <1> QED  BY <1>1, <1>2, <1>3, <1>5, <1>6, <1>7, <1>8, <1>9, <1>10, <1>11 DEF ForkNext

(* A fork tells what the plan kept of its parent's story, in its order,     *)
(* with summaries in the place of what they stand for, whatever happens to  *)
(* the parent meanwhile (respond_to_fork_proposal, fork_session).           *)
THEOREM ForkFaithfulCorrect == ForkSpec => []ForkFaithful
  <1>1. ForkInv => ForkFaithful
    BY DEF ForkInv, ForkFaithful, ForkInOrder, SummaryUnbroken, DropsDropped,
           Faithful, InOrder, Unbroken, LeavesOut
  <1>2. ForkInv /\ UNCHANGED forkVars => ForkInv'
    BY DEF ForkInv, forkVars, ParentFine
  <1> QED  BY <1>1, <1>2, ForkInits, ForkSteps, PTL DEF ForkSpec

-----------------------------------------------------------------------------
(* More about lists of lists                                                *)

LEMMA JoinedThree ==
    ASSUME NEW A, NEW a \in Seq(A), NEW b \in Seq(A), NEW c \in Seq(A)
    PROVE  (a \o b) \o c = a \o (b \o c)
  BY SMTT(30)

Regroups(a, b, c) == (a \o b) \o c = a \o (b \o c)

LEMMA RegroupsIs ==
    ASSUME NEW A, NEW a \in Seq(A), NEW b \in Seq(A), NEW c \in Seq(A)
    PROVE  Regroups(a, b, c)
  BY JoinedThree DEF Regroups

LEMMA JoinedIn ==
    ASSUME NEW A, NEW a \in Seq(A), NEW b \in Seq(A), NEW k \in DOMAIN (a \o b)
    PROVE  \/ k \in DOMAIN a /\ (a \o b)[k] = a[k]
           \/ k - Len(a) \in DOMAIN b /\ (a \o b)[k] = b[k - Len(a)]
  <1>1. k \in 1..Len(a) + Len(b) /\ Len(a) \in Nat /\ DOMAIN a = 1..Len(a) /\ DOMAIN b = 1..Len(b)
    BY Joined
  <1>2. k <= Len(a) \/ k > Len(a)
    BY <1>1
  <1> QED  BY <1>1, <1>2, JoinedAt

(* No two members of a list are a pair of B.                                *)
NoPair(list, B) == \A j, k \in DOMAIN list : j # k => <<list[j], list[k]>> \notin B
NoPairs(lists, B) ==
    /\ \A k \in DOMAIN lists : NoPair(lists[k], B)
    /\ \A k, l \in DOMAIN lists : k # l =>
          \A a \in DOMAIN lists[k], b \in DOMAIN lists[l] : <<lists[k][a], lists[l][b]>> \notin B

LEMMA FlatHas ==
    ASSUME NEW A, NEW lists \in Seq(Seq(A)), NEW B, NoPairs(lists, B)
    PROVE  /\ Flat(lists) \in Seq(A) /\ NoPair(Flat(lists), B)
           /\ \A i \in DOMAIN Flat(lists) : \E k \in DOMAIN lists : \E a \in DOMAIN lists[k] :
                 Flat(lists)[i] = lists[k][a]
           /\ \A k \in DOMAIN lists : \A a \in DOMAIN lists[k] : \E i \in DOMAIN Flat(lists) :
                 Flat(lists)[i] = lists[k][a]
  <1> DEFINE N == Len(lists)
  <1>1. N \in Nat /\ DOMAIN lists = 1..N
    OBVIOUS
  <1>2. PICK f : Flat(lists) = f[N] /\ Joins(f, lists)
    BY FlatFound
  <1> DEFINE From(n, i) == \E k \in 1..n : \E a \in DOMAIN lists[k] : f[n][i] = lists[k][a]
  <1> DEFINE Has(n, x) == \E i \in DOMAIN f[n] : f[n][i] = x
  <1> DEFINE Fine(n) ==
        /\ f[n] \in Seq(A) /\ NoPair(f[n], B)
        /\ \A i \in DOMAIN f[n] : From(n, i)
        /\ \A k \in 1..n : \A a \in DOMAIN lists[k] : Has(n, lists[k][a])
  <1> DEFINE Good == {n \in Nat : n <= N => Fine(n)}
  <1>3. 0 \in Good
    <2>1. f[0] = <<>>
      BY <1>2 DEF Joins
    <2>2. f[0] \in Seq(A) /\ DOMAIN f[0] = {} /\ 1..0 = {}
      BY <2>1
    <2>3. NoPair(f[0], B)
      BY <2>2 DEF NoPair
    <2>4. Fine(0)
      BY <2>2, <2>3
    <2> HIDE DEF Fine
    <2> QED  BY <2>4
  <1>4. ASSUME NEW m \in Nat, m \in Good PROVE m + 1 \in Good
    <2> SUFFICES ASSUME m + 1 <= N PROVE Fine(m + 1)
      <3> HIDE DEF Fine, N
      <3> QED  OBVIOUS
    <2> DEFINE n == m + 1
    <2> DEFINE old == f[m]
    <2> DEFINE add == lists[m + 1]
    <2> DEFINE new == f[m + 1]
    <2>1. Fine(m) /\ n \in 1..N /\ n \in Nat /\ n - 1 = m
      <3>1. n \in 1..N /\ n \in Nat /\ n - 1 = m /\ m <= N
        BY <1>1
      <3> HIDE DEF Fine
      <3>2. Fine(m)
        BY <1>4, <3>1
      <3> QED  BY <3>1, <3>2
    <2>2. new = old \o add
      BY <2>1, <1>2 DEF Joins
    <2>3. add \in Seq(A) /\ old \in Seq(A)
      BY <1>1, <2>1
    <2>4. /\ new \in Seq(A) /\ DOMAIN new = 1..Len(old) + Len(add)
          /\ \A k \in 1..Len(old) : new[k] = old[k]
          /\ \A k \in 1..Len(add) : new[Len(old) + k] = add[k]
          /\ \A k \in DOMAIN new : \/ k \in DOMAIN old /\ new[k] = old[k]
                                   \/ k - Len(old) \in DOMAIN add /\ new[k] = add[k - Len(old)]
      <3>1. /\ old \o add \in Seq(A) /\ DOMAIN (old \o add) = 1..Len(old) + Len(add)
            /\ \A k \in 1..Len(old) : (old \o add)[k] = old[k]
            /\ \A k \in 1..Len(add) : (old \o add)[Len(old) + k] = add[k]
        <4> HIDE DEF old, add
        <4> QED  BY <2>3, Joined
      <3>2. \A k \in DOMAIN (old \o add) :
               \/ k \in DOMAIN old /\ (old \o add)[k] = old[k]
               \/ k - Len(old) \in DOMAIN add /\ (old \o add)[k] = add[k - Len(old)]
        <4> HIDE DEF old, add
        <4> QED  BY <2>3, JoinedIn
      <3> HIDE DEF old, add, new
      <3> QED  BY <2>2, <3>1, <3>2
    <2>5. /\ Len(old) \in Nat /\ Len(add) \in Nat /\ DOMAIN old = 1..Len(old)
          /\ DOMAIN add = 1..Len(add)
      BY <2>3
    <2>6. NoPair(old, B) /\ \A i \in DOMAIN old : From(m, i)
      BY <2>1
    <2>7. \A k \in 1..m : \A a \in DOMAIN lists[k] : Has(m, lists[k][a])
      BY <2>1
    <2>14. /\ \A i \in DOMAIN old : i \in DOMAIN new /\ new[i] = old[i]
           /\ \A a \in DOMAIN add : Len(old) + a \in DOMAIN new /\ new[Len(old) + a] = add[a]
      <3> HIDE DEF old, add, new
      <3> QED  BY <2>4, <2>5
    <2>8. \A x, i : i \in DOMAIN old /\ old[i] = x => Has(n, x)
      BY <2>14
    <2>9. \A a \in DOMAIN add : Has(n, add[a])
      BY <2>14
    <2>10. \A k \in 1..n : k \in 1..m \/ k = n
      BY <2>1
    <2>11. \A k \in 1..n : \A a \in DOMAIN lists[k] : Has(n, lists[k][a])
      <3>1. ASSUME NEW k \in 1..m, NEW a \in DOMAIN lists[k] PROVE Has(n, lists[k][a])
        <4>1. PICK i \in DOMAIN old : old[i] = lists[k][a]
          BY <2>7
        <4> QED  BY <2>8, <4>1
      <3> QED  BY <2>9, <2>10, <3>1
    <2>12. \A i \in DOMAIN new : From(n, i)
      <3> SUFFICES ASSUME NEW i \in DOMAIN new PROVE From(n, i)
        OBVIOUS
      <3>1. CASE i \in DOMAIN old /\ new[i] = old[i]
        <4>1. From(m, i) /\ f[m][i] = f[n][i]
          BY <2>6, <3>1
        <4>2. PICK k \in 1..m : \E a \in DOMAIN lists[k] : f[m][i] = lists[k][a]
          BY <4>1
        <4>3. k \in 1..n
          BY <2>1
        <4> QED  BY <4>1, <4>2, <4>3
      <3>2. CASE i - Len(old) \in DOMAIN add /\ new[i] = add[i - Len(old)]
        <4>1. n \in 1..n
          BY <2>1
        <4> QED  BY <3>2, <4>1
      <3> QED  BY <2>4, <3>1, <3>2
    <2>13. NoPair(new, B)
      <3> SUFFICES ASSUME NEW i \in DOMAIN new, NEW j \in DOMAIN new, i # j
                   PROVE  <<new[i], new[j]>> \notin B
        BY DEF NoPair
      <3>1. \A k \in DOMAIN new : k \in Nat
        BY <2>4, <2>5
      <3>2. ASSUME NEW x \in DOMAIN old, NEW y \in DOMAIN add
            PROVE  <<old[x], add[y]>> \notin B /\ <<add[y], old[x]>> \notin B
        <4>1. PICK k \in 1..m : \E a \in DOMAIN lists[k] : old[x] = lists[k][a]
          BY <2>6
        <4>2. k \in DOMAIN lists /\ n \in DOMAIN lists /\ k # n
          BY <1>1, <2>1
        <4>3. PICK a \in DOMAIN lists[k] : old[x] = lists[k][a]
          BY <4>1
        <4>4. \A b \in DOMAIN lists[k], d \in DOMAIN lists[n] :
                 <<lists[k][b], lists[n][d]>> \notin B /\ <<lists[n][d], lists[k][b]>> \notin B
          BY <4>2 DEF NoPairs
        <4> QED  BY <4>3, <4>4
      <3>3. NoPair(add, B)
        BY <1>1, <2>1 DEF NoPairs
      <3> HIDE DEF n, old, add, new
      <3>4. CASE i \in DOMAIN old /\ new[i] = old[i]
        <4>1. CASE j \in DOMAIN old /\ new[j] = old[j]
          BY <2>6, <3>4, <4>1 DEF NoPair
        <4>2. CASE j - Len(old) \in DOMAIN add /\ new[j] = add[j - Len(old)]
          BY <3>2, <3>4, <4>2
        <4> QED  BY <2>4, <4>1, <4>2
      <3>5. CASE i - Len(old) \in DOMAIN add /\ new[i] = add[i - Len(old)]
        <4>1. CASE j \in DOMAIN old /\ new[j] = old[j]
          BY <3>2, <3>5, <4>1
        <4>2. CASE j - Len(old) \in DOMAIN add /\ new[j] = add[j - Len(old)]
          <5>1. i - Len(old) # j - Len(old)
            BY <2>5, <3>1
          <5> QED  BY <3>3, <3>5, <4>2, <5>1 DEF NoPair
        <4> QED  BY <2>4, <4>1, <4>2
      <3> QED  BY <2>4, <3>4, <3>5
    <2> QED  BY <2>4, <2>11, <2>12, <2>13
  <1> HIDE DEF Good
  <1>5. Nat \subseteq Good
    BY <1>3, <1>4, Induction
  <1>6. Fine(N)
    <2> HIDE DEF Fine
    <2>1. N \in Good /\ N <= N
      BY <1>1, <1>5
    <2> QED  BY <2>1 DEF Good
  <1>7. Flat(lists) \in Seq(A) /\ NoPair(Flat(lists), B)
    BY <1>2, <1>6
  <1>8. \A i \in DOMAIN Flat(lists) : \E k \in 1..N : \E a \in DOMAIN lists[k] :
           Flat(lists)[i] = lists[k][a]
    BY <1>2, <1>6
  <1>9. \A k \in 1..N : \A a \in DOMAIN lists[k] : \E i \in DOMAIN Flat(lists) :
           Flat(lists)[i] = lists[k][a]
    BY <1>2, <1>6
  <1> HIDE DEF N
  <1> QED  BY <1>1, <1>7, <1>8, <1>9

LEMMA OneThen ==
    ASSUME NEW A, NEW x \in A, NEW b \in Seq(A)
    PROVE  /\ <<x>> \o b \in Seq(A) /\ Len(<<x>> \o b) = 1 + Len(b)
           /\ DOMAIN (<<x>> \o b) = 1..1 + Len(b)
           /\ (<<x>> \o b)[1] = x /\ \A k \in 1..Len(b) : (<<x>> \o b)[1 + k] = b[k]
  <1> DEFINE one == <<x>>
             c == one \o b
  <1>1. one \in Seq(A) /\ Len(one) = 1 /\ one[1] = x
    OBVIOUS
  <1>2. Len(b) \in Nat
    OBVIOUS
  <1> HIDE DEF one
  <1>3. one \in Seq(A) /\ b \in Seq(A)
    BY <1>1
  <1>4. /\ c \in Seq(A) /\ DOMAIN c = 1..Len(one) + Len(b)
        /\ \A k \in 1..Len(one) : c[k] = one[k]
        /\ \A k \in 1..Len(b) : c[Len(one) + k] = b[k]
    BY ONLY <1>3, Joined
  <1> HIDE DEF c
  <1>5. DOMAIN c = 1..1 + Len(b)
    BY <1>1, <1>4
  <1>6. Len(c) = 1 + Len(b)
    <2>1. 1 + Len(b) \in Nat
      BY <1>2
    <2> QED  BY <1>4, <1>5, <2>1, LengthOf
  <1>7. c[1] = x /\ \A k \in 1..Len(b) : c[1 + k] = b[k]
    BY <1>1, <1>4
  <1> QED  BY <1>4, <1>5, <1>6, <1>7 DEF c, one

-----------------------------------------------------------------------------
(* Requests in which every call is answered, in place and once              *)

Messages == [role : {"user", "assistant", "tool"}, text : Seq(Int), calls : Seq(Nat),
             answers : Nat]

AnswersFollow(ms) ==
    \A k \in DOMAIN ms : \A n \in DOMAIN ms[k].calls :
        /\ k + n \in DOMAIN ms
        /\ ms[k + n].role = "tool" /\ ms[k + n].answers = ms[k].calls[n]
CallsPrecede(ms) ==
    \A k \in DOMAIN ms : ms[k].role = "tool" =>
        \E b \in 1 .. k - 1 : \E n \in DOMAIN ms[b].calls : ms[b].calls[n] = ms[k].answers
AnswersOnce(ms) ==
    \A j, k \in DOMAIN ms :
        ms[j].role = "tool" /\ ms[k].role = "tool" /\ ms[j].answers = ms[k].answers => j = k
OnlyAssistantCalls(ms) == \A k \in DOMAIN ms : ms[k].role # "assistant" => ms[k].calls = <<>>

Protocol(ms) ==
    /\ ms \in Seq(Messages)
    /\ AnswersFollow(ms) /\ CallsPrecede(ms) /\ AnswersOnce(ms) /\ OnlyAssistantCalls(ms)

(* The calls in a list of messages.                                         *)
Calling(ms) == UNION {{ms[k].calls[n] : n \in DOMAIN ms[k].calls} : k \in DOMAIN ms}

LEMMA CallIn ==
    ASSUME NEW ms, NEW c
    PROVE  c \in Calling(ms) <=> \E k \in DOMAIN ms : \E n \in DOMAIN ms[k].calls : ms[k].calls[n] = c
  BY DEF Calling

LEMMA AnswersCalling ==
    ASSUME NEW ms, Protocol(ms), NEW k \in DOMAIN ms, ms[k].role = "tool"
    PROVE  ms[k].answers \in Calling(ms)
  <1>1. PICK b \in 1 .. k - 1 : \E n \in DOMAIN ms[b].calls : ms[b].calls[n] = ms[k].answers
    BY DEF Protocol, CallsPrecede
  <1>2. b \in DOMAIN ms
    BY DEF Protocol
  <1> QED  BY <1>1, <1>2, CallIn

(* Lists in which the same messages stand, but for their texts.             *)
SameMessage(m, o) ==
    o.role = m.role /\ o.calls = m.calls /\ (m.role = "tool" => o.answers = m.answers)

LEMMA ProtocolAlike ==
    ASSUME NEW ms, NEW out \in Seq(Messages), Protocol(ms), DOMAIN out = DOMAIN ms,
           \A k \in DOMAIN ms : SameMessage(ms[k], out[k])
    PROVE  Protocol(out) /\ Calling(out) = Calling(ms)
  <1>0. /\ \A k \in DOMAIN ms : /\ out[k].role = ms[k].role /\ out[k].calls = ms[k].calls
                                /\ ms[k].role = "tool" => out[k].answers = ms[k].answers
        /\ ms \in Seq(Messages) /\ DOMAIN ms = 1..Len(ms)
    BY DEF SameMessage, Protocol
  <1>1. AnswersFollow(out)
    BY <1>0 DEF AnswersFollow, Protocol
  <1>2. CallsPrecede(out)
    <2> SUFFICES ASSUME NEW k \in DOMAIN out, out[k].role = "tool"
                 PROVE  \E b \in 1 .. k - 1 : \E n \in DOMAIN out[b].calls :
                           out[b].calls[n] = out[k].answers
      BY DEF CallsPrecede
    <2>1. PICK b \in 1 .. k - 1 : \E n \in DOMAIN ms[b].calls : ms[b].calls[n] = ms[k].answers
      BY <1>0 DEF CallsPrecede, Protocol
    <2>2. b \in DOMAIN ms
      BY <1>0
    <2> QED  BY <1>0, <2>1, <2>2
  <1>3. AnswersOnce(out) /\ OnlyAssistantCalls(out)
    BY <1>0 DEF AnswersOnce, OnlyAssistantCalls, Protocol
  <1>4. Calling(out) = Calling(ms)
    BY <1>0 DEF Calling
  <1> QED  BY <1>1, <1>2, <1>3, <1>4 DEF Protocol

LEMMA ProtocolJoined ==
    ASSUME NEW a, NEW b, Protocol(a), Protocol(b), Calling(a) \cap Calling(b) = {}
    PROVE  Protocol(a \o b) /\ Calling(a \o b) = Calling(a) \cup Calling(b)
  <1> DEFINE all == a \o b
  <1> DEFINE L == Len(a)
  <1> DEFINE M == Len(b)
  <1>1. a \in Seq(Messages) /\ b \in Seq(Messages)
    BY DEF Protocol
  <1>2. L \in Nat /\ M \in Nat /\ DOMAIN a = 1..L /\ DOMAIN b = 1..M
    BY <1>1
  <1>3. /\ all \in Seq(Messages) /\ DOMAIN all = 1..L + M
        /\ \A k \in 1..L : all[k] = a[k]
        /\ \A k \in 1..M : all[L + k] = b[k]
    BY <1>1, Joined
  <1> HIDE DEF all, L, M
  <1>4. \A k \in 1..L + M : k \in 1..L \/ (k - L \in 1..M /\ L + (k - L) = k)
    BY <1>2
  <1>5. \A k \in 1..L : k \in DOMAIN all
    BY <1>2, <1>3
  <1>6. \A k \in 1..M : L + k \in DOMAIN all
    BY <1>2, <1>3
  <1>7. Calling(all) = Calling(a) \cup Calling(b)
    <2>1. ASSUME NEW c, c \in Calling(all) PROVE c \in Calling(a) \cup Calling(b)
      <3>0. \E k \in DOMAIN all : \E n \in DOMAIN all[k].calls : all[k].calls[n] = c
        BY <2>1, CallIn
      <3>1. PICK k \in 1..L + M : \E n \in DOMAIN all[k].calls : all[k].calls[n] = c
        BY <1>3, <3>0
      <3>2. CASE k \in 1..L
        <4>1. k \in DOMAIN a /\ \E n \in DOMAIN a[k].calls : a[k].calls[n] = c
          BY <1>2, <1>3, <3>1, <3>2
        <4> QED  BY <4>1, CallIn
      <3>3. CASE k - L \in 1..M /\ L + (k - L) = k
        <4>1. all[k] = b[k - L]
          BY <1>3, <3>3
        <4>2. k - L \in DOMAIN b /\ \E n \in DOMAIN b[k - L].calls : b[k - L].calls[n] = c
          BY <1>2, <3>1, <3>3, <4>1
        <4> QED  BY <4>2, CallIn
      <3> QED  BY <1>4, <3>2, <3>3
    <2>2. ASSUME NEW c, c \in Calling(a) PROVE c \in Calling(all)
      <3>1. PICK k \in 1..L : \E n \in DOMAIN a[k].calls : a[k].calls[n] = c
        BY <1>2, <2>2, CallIn
      <3>2. k \in DOMAIN all /\ \E n \in DOMAIN all[k].calls : all[k].calls[n] = c
        BY <1>3, <1>5, <3>1
      <3> QED  BY <3>2, CallIn
    <2>3. ASSUME NEW c, c \in Calling(b) PROVE c \in Calling(all)
      <3>1. PICK k \in 1..M : \E n \in DOMAIN b[k].calls : b[k].calls[n] = c
        BY <1>2, <2>3, CallIn
      <3>2. all[L + k] = b[k]
        BY <1>3
      <3>3. L + k \in DOMAIN all /\ \E n \in DOMAIN all[L + k].calls : all[L + k].calls[n] = c
        BY <1>6, <3>1, <3>2
      <3> QED  BY <3>3, CallIn
    <2> QED  BY <2>1, <2>2, <2>3
  <1>8. AnswersFollow(all)
    <2> SUFFICES ASSUME NEW k \in 1..L + M, NEW n \in DOMAIN all[k].calls
                 PROVE  /\ k + n \in DOMAIN all
                        /\ all[k + n].role = "tool" /\ all[k + n].answers = all[k].calls[n]
      BY <1>3 DEF AnswersFollow
    <2>1. CASE k \in 1..L
      <3>1. /\ all[k] = a[k] /\ k \in DOMAIN a /\ n \in DOMAIN a[k].calls
        BY <1>2, <1>3, <2>1
      <3>2. k + n \in DOMAIN a /\ a[k + n].role = "tool" /\ a[k + n].answers = a[k].calls[n]
        BY <3>1 DEF Protocol, AnswersFollow
      <3>3. all[k + n] = a[k + n] /\ k + n \in DOMAIN all
        BY <1>2, <1>3, <1>5, <3>2
      <3> QED  BY <3>1, <3>2, <3>3
    <2>2. CASE k - L \in 1..M /\ L + (k - L) = k
      <3> DEFINE x == k - L
      <3>1. x \in 1..M /\ L + x = k
        BY <2>2
      <3>5. x \in Nat /\ x \in DOMAIN b
        BY <1>2, <3>1
      <3> HIDE DEF x
      <3>2. /\ all[k] = b[x] /\ n \in DOMAIN b[x].calls
        BY <1>3, <3>1
      <3>3. x + n \in DOMAIN b /\ b[x + n].role = "tool" /\ b[x + n].answers = b[x].calls[n]
        BY <3>2, <3>5 DEF Protocol, AnswersFollow
      <3>6. n \in Nat
        <4>1. b[x] \in Messages
          BY <1>1, <3>5
        <4>2. b[x].calls \in Seq(Nat)
          BY <4>1 DEF Messages
        <4> QED  BY <3>2, <4>2
      <3>4. all[k + n] = b[x + n] /\ k + n \in DOMAIN all
        <4>1. k + n = L + (x + n) /\ x + n \in 1..M
          BY <1>2, <3>1, <3>3, <3>5, <3>6
        <4> QED  BY <1>3, <1>6, <4>1
      <3> QED  BY <3>2, <3>3, <3>4
    <2> QED  BY <1>4, <2>1, <2>2
  <1>9. CallsPrecede(all)
    <2> SUFFICES ASSUME NEW k \in 1..L + M, all[k].role = "tool"
                 PROVE  \E d \in 1 .. k - 1 : \E n \in DOMAIN all[d].calls :
                           all[d].calls[n] = all[k].answers
      BY <1>3 DEF CallsPrecede
    <2>1. CASE k \in 1..L
      <3>1. all[k] = a[k] /\ k \in DOMAIN a
        BY <1>2, <1>3, <2>1
      <3>2. PICK d \in 1 .. k - 1 : \E n \in DOMAIN a[d].calls : a[d].calls[n] = a[k].answers
        BY <3>1 DEF Protocol, CallsPrecede
      <3>3. d \in 1..L
        BY <1>2, <2>1
      <3>4. all[d] = a[d]
        BY <1>3, <3>3
      <3> QED  BY <3>1, <3>2, <3>4
    <2>2. CASE k - L \in 1..M /\ L + (k - L) = k
      <3>1. all[k] = b[k - L] /\ k - L \in DOMAIN b
        BY <1>2, <1>3, <2>2
      <3>2. PICK d \in 1 .. k - L - 1 : \E n \in DOMAIN b[d].calls : b[d].calls[n] = b[k - L].answers
        BY <3>1 DEF Protocol, CallsPrecede
      <3>3. d \in 1..M /\ L + d \in 1..k - 1
        BY <1>2, <2>2
      <3>4. all[L + d] = b[d]
        BY <1>3, <3>3
      <3> QED  BY <3>1, <3>2, <3>3, <3>4
    <2> QED  BY <1>4, <2>1, <2>2
  <1>10. AnswersOnce(all)
    <2> SUFFICES ASSUME NEW j \in 1..L + M, NEW k \in 1..L + M, all[j].role = "tool",
                        all[k].role = "tool", all[j].answers = all[k].answers
                 PROVE  j = k
      BY <1>3 DEF AnswersOnce
    <2>1. \A x \in 1..L : all[x] = a[x] /\ x \in DOMAIN a
                 /\ (all[x].role = "tool" => all[x].answers \in Calling(a))
      BY <1>2, <1>3, AnswersCalling
    <2>0. \A y \in 1..M : b[y].role = "tool" => b[y].answers \in Calling(b)
      BY <1>2, AnswersCalling
    <2>9. \A x \in 1..L + M : x - L \in 1..M /\ L + (x - L) = x =>
             all[x] = b[x - L] /\ x - L \in DOMAIN b
      BY <1>2, <1>3
    <2>2. \A x \in 1..L + M : x - L \in 1..M /\ L + (x - L) = x =>
             /\ all[x] = b[x - L] /\ x - L \in DOMAIN b
             /\ (all[x].role = "tool" => all[x].answers \in Calling(b))
      BY <1>2, <2>0, <2>9
    <2>3. CASE j \in 1..L /\ k \in 1..L
      BY <2>1, <2>3 DEF Protocol, AnswersOnce
    <2>4. CASE ~(j \in 1..L) /\ ~(k \in 1..L)
      <3>1. j - L = k - L
        BY <1>4, <2>2, <2>4 DEF Protocol, AnswersOnce
      <3> QED  BY <1>2, <3>1
    <2>5. CASE j \in 1..L /\ ~(k \in 1..L)
      BY <1>4, <2>1, <2>2, <2>5
    <2>6. CASE ~(j \in 1..L) /\ k \in 1..L
      BY <1>4, <2>1, <2>2, <2>6
    <2> QED  BY <2>3, <2>4, <2>5, <2>6
  <1>11. OnlyAssistantCalls(all)
    <2> SUFFICES ASSUME NEW k \in 1..L + M, all[k].role # "assistant"
                 PROVE  all[k].calls = <<>>
      BY <1>3 DEF OnlyAssistantCalls
    <2>1. CASE k \in 1..L
      BY <1>2, <1>3, <2>1 DEF Protocol, OnlyAssistantCalls
    <2>2. CASE k - L \in 1..M /\ L + (k - L) = k
      <3>1. all[k] = b[k - L] /\ k - L \in DOMAIN b
        BY <1>2, <1>3, <2>2
      <3> QED  BY <3>1 DEF Protocol, OnlyAssistantCalls
    <2> QED  BY <1>4, <2>1, <2>2
  <1> QED  BY <1>3, <1>7, <1>8, <1>9, <1>10, <1>11 DEF Protocol, all

(* A message that calls nothing and answers nothing taken out.              *)
TakenOut(out, ms, p) ==
    /\ DOMAIN out = 1 .. Len(ms) - 1
    /\ \A i \in DOMAIN out : out[i] = IF i < p THEN ms[i] ELSE ms[i + 1]

LEMMA ProtocolWithout ==
    ASSUME NEW ms, Protocol(ms), NEW p \in DOMAIN ms, ms[p].calls = <<>>, ms[p].role # "tool",
           NEW out \in Seq(Messages), TakenOut(out, ms, p)
    PROVE  Protocol(out) /\ Calling(out) = Calling(ms)
  <1> DEFINE N == Len(ms)
  <1> DEFINE at(i) == IF i < p THEN i ELSE i + 1
  <1>1. ms \in Seq(Messages) /\ N \in Nat /\ DOMAIN ms = 1..N /\ p \in 1..N
    BY DEF Protocol
  <1>2. DOMAIN out = 1..N - 1
    BY DEF TakenOut
  <1>3. \A i \in 1..N - 1 : at(i) \in 1..N /\ at(i) # p /\ i \in Nat
    BY <1>1
  <1>4. \A i \in 1..N - 1 : out[i] = ms[at(i)]
    BY <1>2 DEF TakenOut
  <1>5. \A o \in 1..N : o # p => \E i \in 1..N - 1 : at(i) = o
    <2> SUFFICES ASSUME NEW o \in 1..N, o # p PROVE \E i \in 1..N - 1 : at(i) = o
      OBVIOUS
    <2>1. CASE o < p
      <3>1. o \in 1..N - 1 /\ at(o) = o
        BY <1>1, <2>1
      <3> QED  BY <3>1
    <2>2. CASE o > p
      <3>1. o - 1 \in 1..N - 1 /\ at(o - 1) = o
        BY <1>1, <2>2
      <3> QED  BY <3>1
    <2> QED  BY <1>1, <2>1, <2>2
  <1>6. \A i, j \in 1..N - 1 : (at(i) = at(j) => i = j) /\ (at(i) < at(j) => i < j)
    BY <1>1
  <1>7. \A i \in 1..N - 1, n \in Nat : at(i) + n \in 1..N /\ ~(i < p /\ i + n >= p) =>
           i + n \in 1..N - 1 /\ at(i + n) = at(i) + n
    BY <1>1
  <1>8. \A i \in 1..N - 1, n \in Nat : i < p /\ i + n >= p /\ n >= 1 =>
           p - i \in 1..n /\ at(i) + (p - i) = p
    BY <1>1
  <1> HIDE DEF at, N
  <1>9. \A i \in 1..N - 1 : \A n \in DOMAIN out[i].calls :
           /\ n \in Nat /\ n >= 1 /\ 1..n \subseteq DOMAIN ms[at(i)].calls
           /\ at(i) + n \in 1..N
           /\ ms[at(i) + n].role = "tool" /\ ms[at(i) + n].answers = ms[at(i)].calls[n]
    <2> SUFFICES ASSUME NEW i \in 1..N - 1, NEW n \in DOMAIN ms[at(i)].calls
                 PROVE  /\ n \in Nat /\ n >= 1 /\ 1..n \subseteq DOMAIN ms[at(i)].calls
                        /\ at(i) + n \in 1..N
                        /\ ms[at(i) + n].role = "tool" /\ ms[at(i) + n].answers = ms[at(i)].calls[n]
      BY <1>4
    <2>1. ms[at(i)] \in Messages /\ at(i) \in DOMAIN ms
      BY <1>1, <1>3
    <2>2. ms[at(i)].calls \in Seq(Nat)
      BY <2>1 DEF Messages
    <2>3. n \in Nat /\ n >= 1 /\ 1..n \subseteq DOMAIN ms[at(i)].calls
      BY <2>2
    <2> QED  BY <1>1, <2>1, <2>3 DEF Protocol, AnswersFollow
  <1>10. AnswersFollow(out)
    <2> SUFFICES ASSUME NEW i \in 1..N - 1, NEW n \in DOMAIN out[i].calls
                 PROVE  /\ i + n \in DOMAIN out
                        /\ out[i + n].role = "tool" /\ out[i + n].answers = out[i].calls[n]
      BY <1>2 DEF AnswersFollow
    <2>1. ~(i < p /\ i + n >= p)
      <3> SUFFICES ASSUME i < p, i + n >= p PROVE FALSE
        OBVIOUS
      <3>1. n \in Nat /\ n >= 1 /\ 1..n \subseteq DOMAIN ms[at(i)].calls
        BY <1>9
      <3>2. p - i \in 1..n /\ at(i) + (p - i) = p
        BY <1>8, <3>1
      <3>3. p - i \in DOMAIN ms[at(i)].calls
        BY <3>1, <3>2
      <3>4. ms[at(i) + (p - i)].role = "tool"
        BY <1>4, <1>9, <3>3
      <3> QED  BY <3>2, <3>4
    <2>2. i + n \in 1..N - 1 /\ at(i + n) = at(i) + n
      BY <1>7, <1>9, <2>1
    <2> QED  BY <1>2, <1>4, <1>9, <2>2
  <1>11. CallsPrecede(out)
    <2> SUFFICES ASSUME NEW k \in 1..N - 1, out[k].role = "tool"
                 PROVE  \E b \in 1 .. k - 1 : \E n \in DOMAIN out[b].calls :
                           out[b].calls[n] = out[k].answers
      BY <1>2 DEF CallsPrecede
    <2>1. out[k] = ms[at(k)] /\ at(k) \in DOMAIN ms
      BY <1>1, <1>3, <1>4
    <2>2. PICK o \in 1 .. at(k) - 1 : \E n \in DOMAIN ms[o].calls : ms[o].calls[n] = ms[at(k)].answers
      BY <2>1 DEF Protocol, CallsPrecede
    <2>3. o \in 1..N /\ o < at(k) /\ at(k) \in Nat
      BY <1>1, <1>3
    <2>4. o # p
      BY <2>2
    <2>5. PICK b \in 1..N - 1 : at(b) = o
      BY <1>5, <2>3, <2>4
    <2>6. b < k /\ b \in 1..k - 1
      <3>1. b < k
        BY <1>6, <2>3, <2>5
      <3> QED  BY <1>1, <3>1
    <2> QED  BY <1>4, <2>1, <2>2, <2>5, <2>6
  <1>12. AnswersOnce(out)
    <2> SUFFICES ASSUME NEW j \in 1..N - 1, NEW k \in 1..N - 1, out[j].role = "tool",
                        out[k].role = "tool", out[j].answers = out[k].answers
                 PROVE  j = k
      BY <1>2 DEF AnswersOnce
    <2>1. at(j) \in DOMAIN ms /\ at(k) \in DOMAIN ms
      BY <1>1, <1>3
    <2>2. at(j) = at(k)
      BY <1>4, <2>1 DEF Protocol, AnswersOnce
    <2> QED  BY <1>6, <2>2
  <1>13. OnlyAssistantCalls(out)
    BY <1>1, <1>2, <1>3, <1>4 DEF Protocol, OnlyAssistantCalls
  <1>14. Calling(out) = Calling(ms)
    <2>1. ASSUME NEW c, c \in Calling(out) PROVE c \in Calling(ms)
      <3>0. \E i \in DOMAIN out : \E n \in DOMAIN out[i].calls : out[i].calls[n] = c
        BY <2>1, CallIn
      <3>1. PICK i \in 1..N - 1 : \E n \in DOMAIN out[i].calls : out[i].calls[n] = c
        BY <1>2, <3>0
      <3>2. at(i) \in DOMAIN ms /\ \E n \in DOMAIN ms[at(i)].calls : ms[at(i)].calls[n] = c
        BY <1>1, <1>3, <1>4, <3>1
      <3> QED  BY <3>2, CallIn
    <2>2. ASSUME NEW c, c \in Calling(ms) PROVE c \in Calling(out)
      <3>1. PICK o \in 1..N : \E n \in DOMAIN ms[o].calls : ms[o].calls[n] = c
        BY <1>1, <2>2, CallIn
      <3>2. o # p
        BY <3>1
      <3>3. PICK i \in 1..N - 1 : at(i) = o
        BY <1>5, <3>2
      <3>4. i \in DOMAIN out /\ \E n \in DOMAIN out[i].calls : out[i].calls[n] = c
        BY <1>2, <1>4, <3>1, <3>3
      <3> QED  BY <3>4, CallIn
    <2> QED  BY <2>1, <2>2
  <1> QED  BY <1>10, <1>11, <1>12, <1>13, <1>14 DEF Protocol

-----------------------------------------------------------------------------
(* First and last ones                                                      *)

LEMMA SmallestIn ==
    ASSUME NEW S, S \subseteq Nat, S # {}
    PROVE  Min(S) \in S /\ \A y \in S : Min(S) <= y
  <1>1. \E x \in S : \A y \in S : x =< y
    BY Least
  <1> QED  BY <1>1 DEF Min

LEMMA LargestIn ==
    ASSUME NEW N \in Nat, NEW S, S \subseteq 1..N, S # {}
    PROVE  Max(S) \in S
  <1> DEFINE T == {N - x : x \in S}
  <1>1. T \subseteq Nat /\ T # {}
    OBVIOUS
  <1>2. PICK t \in T : \A u \in T : t <= u
    BY <1>1, Least
  <1>3. PICK x \in S : t = N - x
    BY <1>2
  <1>4. \A y \in S : N - x <= N - y
    BY <1>2, <1>3
  <1>5. \A y \in S : x >= y
    BY <1>4
  <1>6. \E z \in S : \A y \in S : z >= y
    BY <1>5
  <1> QED  BY <1>6 DEF Max

LEMMA FrontLast ==
    ASSUME NEW A, NEW list \in Seq(A), list # <<>>
    PROVE  /\ Len(list) \in Nat /\ Len(list) >= 1 /\ Last(list) = list[Len(list)]
           /\ Len(list) \in DOMAIN list /\ Last(list) \in A
           /\ Front(list) \in Seq(A) /\ Len(Front(list)) = Len(list) - 1
           /\ DOMAIN Front(list) = 1..Len(list) - 1
           /\ \A k \in 1..Len(list) - 1 : Front(list)[k] = list[k]
  <1>1. Len(list) \in Nat /\ Len(list) # 0
    BY NoLength
  <1>2. Len(list) >= 1 /\ Len(list) \in DOMAIN list
    BY <1>1
  <1>3. Last(list) = list[Len(list)] /\ Last(list) \in A
    BY <1>2 DEF Last
  <1>4. /\ Front(list) \in Seq(A) /\ Len(Front(list)) = Len(list) - 1
        /\ DOMAIN Front(list) = 1..Len(list) - 1
        /\ \A k \in 1..Len(list) - 1 : Front(list)[k] = list[k]
    <2> DEFINE n == Len(list) - 1
    <2>1. n \in Nat /\ n <= Len(list) /\ n = n - 1 + 1
      BY <1>1, <1>2
    <2>2. Front(list) = SubSeq(list, 1, n)
      BY DEF Front
    <2>3. \A k \in 1..n : 1 + k - 1 = k /\ k \in DOMAIN list
      BY <1>1, <2>1
    <2> HIDE DEF n
    <2>4. SubSeq(list, 1, n) \in Seq(A) /\ Len(SubSeq(list, 1, n)) = n
      BY <1>1, <2>1, <2>3
    <2>5. \A k \in 1..n : SubSeq(list, 1, n)[k] = list[k]
      BY <1>1, <2>1, <2>3
    <2>6. DOMAIN SubSeq(list, 1, n) = 1..n
      BY <2>4
    <2> QED  BY <2>2, <2>4, <2>5, <2>6 DEF n
  <1> QED  BY <1>1, <1>2, <1>3, <1>4

-----------------------------------------------------------------------------
(* Pieces of a request                                                      *)

LEMMA MsgType ==
    ASSUME NEW role \in {"user", "assistant", "tool"}, NEW text \in Seq(Int), NEW cs \in Seq(Nat),
           NEW answers \in Nat
    PROVE  /\ Msg(role, text, cs, answers) \in Messages
           /\ Msg(role, text, cs, answers).role = role /\ Msg(role, text, cs, answers).text = text
           /\ Msg(role, text, cs, answers).calls = cs /\ Msg(role, text, cs, answers).answers = answers
  BY DEF Msg, Messages

LEMMA PlainProto ==
    ASSUME NEW m \in Messages, m.calls = <<>>, m.role # "tool"
    PROVE  Protocol(<<m>>) /\ Calling(<<m>>) = {}
  <1> DEFINE one == <<m>>
  <1>1. one \in Seq(Messages) /\ DOMAIN one = {1} /\ one[1] = m
    OBVIOUS
  <1>2. \A k \in DOMAIN one : one[k].calls = <<>> /\ one[k].role # "tool"
    BY <1>1
  <1> HIDE DEF one
  <1>3. AnswersFollow(one) /\ CallsPrecede(one) /\ AnswersOnce(one) /\ OnlyAssistantCalls(one)
    BY <1>2 DEF AnswersFollow, CallsPrecede, AnswersOnce, OnlyAssistantCalls
  <1>4. Calling(one) = {}
    BY <1>2 DEF Calling
  <1> QED  BY <1>1, <1>3, <1>4 DEF Protocol, one

LEMMA NoneProto == Protocol(<<>>) /\ Calling(<<>>) = {}
  <1>1. <<>> \in Seq(Messages) /\ DOMAIN <<>> = {}
    OBVIOUS
  <1>2. AnswersFollow(<<>>) /\ CallsPrecede(<<>>) /\ AnswersOnce(<<>>) /\ OnlyAssistantCalls(<<>>)
    BY <1>1 DEF AnswersFollow, CallsPrecede, AnswersOnce, OnlyAssistantCalls
  <1> QED  BY <1>1, <1>2 DEF Protocol, Calling

(* Answers to the calls cs, in their order.                                 *)
Answering(ans, cs) ==
    /\ ans \in Seq(Messages) /\ DOMAIN ans = DOMAIN cs
    /\ \A k \in DOMAIN cs : ans[k].role = "tool" /\ ans[k].calls = <<>> /\ ans[k].answers = cs[k]

LEMMA BlockProto ==
    ASSUME NEW m \in Messages, m.role = "assistant", Unique(m.calls), NEW ans, Answering(ans, m.calls)
    PROVE  Protocol(<<m>> \o ans) /\ Calling(<<m>> \o ans) = Range(m.calls)
  <1> DEFINE cs == m.calls
  <1> DEFINE M == Len(cs)
  <1> DEFINE all == <<m>> \o ans
  <1>1. cs \in Seq(Nat)
    BY DEF Messages
  <1>2. M \in Nat /\ DOMAIN cs = 1..M
    BY <1>1
  <1>3. ans \in Seq(Messages) /\ DOMAIN ans = 1..M /\ Len(ans) = M
    BY <1>2, LengthOf DEF Answering
  <1>4. <<m>> \in Seq(Messages) /\ Len(<<m>>) = 1 /\ <<m>>[1] = m
    OBVIOUS
  <1>5. /\ all \in Seq(Messages) /\ DOMAIN all = 1..1 + M
        /\ all[1] = m /\ \A k \in 1..M : all[1 + k] = ans[k]
    <2> DEFINE one == <<m>>
    <2>1. one \in Seq(Messages) /\ Len(one) = 1 /\ one[1] = m
      BY <1>4
    <2> HIDE DEF one
    <2>2. /\ one \o ans \in Seq(Messages) /\ DOMAIN (one \o ans) = 1..1 + M
          /\ \A k \in 1..1 : (one \o ans)[k] = one[k]
          /\ \A k \in 1..M : (one \o ans)[1 + k] = ans[k]
      <3>0. one \in Seq(Messages) /\ ans \in Seq(Messages)
        BY <1>3, <2>1
      <3>1. /\ one \o ans \in Seq(Messages) /\ DOMAIN (one \o ans) = 1..Len(one) + Len(ans)
            /\ \A k \in 1..Len(one) : (one \o ans)[k] = one[k]
            /\ \A k \in 1..Len(ans) : (one \o ans)[Len(one) + k] = ans[k]
        BY ONLY <3>0, Joined
      <3> QED  BY ONLY <1>3, <2>1, <3>1
    <2> QED  BY <2>1, <2>2 DEF one
  <1>6. \A k \in 1..M : /\ all[1 + k].role = "tool" /\ all[1 + k].calls = <<>>
                        /\ all[1 + k].answers = cs[k]
    BY <1>2, <1>5 DEF Answering
  <1> HIDE DEF all, cs, M
  <1>7. \A k \in 1..1 + M : k = 1 \/ (k - 1 \in 1..M /\ 1 + (k - 1) = k)
    BY <1>2
  <1>8. all[1].calls = cs /\ all[1].role = "assistant" /\ 1 \in 1..1 + M
    BY <1>2, <1>5 DEF cs
  <1>9. AnswersFollow(all)
    <2> SUFFICES ASSUME NEW k \in 1..1 + M, NEW n \in DOMAIN all[k].calls
                 PROVE  /\ k + n \in DOMAIN all
                        /\ all[k + n].role = "tool" /\ all[k + n].answers = all[k].calls[n]
      BY <1>5 DEF AnswersFollow
    <2>1. k = 1
      BY <1>6, <1>7
    <2>2. n \in 1..M /\ 1 + n \in 1..1 + M
      BY <1>2, <1>8, <2>1
    <2> QED  BY <1>5, <1>6, <1>8, <2>1, <2>2
  <1>10. CallsPrecede(all)
    <2> SUFFICES ASSUME NEW k \in 1..1 + M, all[k].role = "tool"
                 PROVE  \E b \in 1 .. k - 1 : \E n \in DOMAIN all[b].calls :
                           all[b].calls[n] = all[k].answers
      BY <1>5 DEF CallsPrecede
    <2>1. k - 1 \in 1..M /\ 1 + (k - 1) = k
      BY <1>7, <1>8
    <2>2. all[k].answers = cs[k - 1] /\ k - 1 \in DOMAIN all[1].calls /\ 1 \in 1..k - 1
      BY <1>2, <1>6, <1>8, <2>1
    <2> QED  BY <1>8, <2>2
  <1>11. AnswersOnce(all)
    <2> SUFFICES ASSUME NEW j \in 1..1 + M, NEW k \in 1..1 + M, all[j].role = "tool",
                        all[k].role = "tool", all[j].answers = all[k].answers
                 PROVE  j = k
      BY <1>5 DEF AnswersOnce
    <2>1. j - 1 \in 1..M /\ 1 + (j - 1) = j /\ k - 1 \in 1..M /\ 1 + (k - 1) = k
      BY <1>7, <1>8
    <2>2. cs[j - 1] = cs[k - 1]
      BY <1>6, <2>1
    <2>3. j - 1 = k - 1
      BY <1>2, <2>1, <2>2 DEF Unique, cs
    <2> QED  BY <2>1, <2>3
  <1>12. OnlyAssistantCalls(all)
    BY <1>5, <1>6, <1>7, <1>8 DEF OnlyAssistantCalls
  <1>13. Calling(all) = Range(cs)
    <2>1. ASSUME NEW c, c \in Calling(all) PROVE c \in Range(cs)
      <3>1. \E k \in DOMAIN all : \E n \in DOMAIN all[k].calls : all[k].calls[n] = c
        BY <2>1, CallIn
      <3>2. PICK k \in 1..1 + M : \E n \in DOMAIN all[k].calls : all[k].calls[n] = c
        BY <1>5, <3>1
      <3>3. k = 1
        BY <1>6, <1>7, <3>2
      <3> QED  BY <1>8, <3>2, <3>3 DEF Range
    <2>2. ASSUME NEW c, c \in Range(cs) PROVE c \in Calling(all)
      <3>1. 1 \in DOMAIN all /\ \E n \in DOMAIN all[1].calls : all[1].calls[n] = c
        BY <1>5, <1>8, <2>2 DEF Range
      <3> QED  BY <3>1, CallIn
    <2> QED  BY <2>1, <2>2
  <1> QED  BY <1>5, <1>9, <1>10, <1>11, <1>12, <1>13 DEF Protocol, all, cs

-----------------------------------------------------------------------------
(* Answers found in the history                                             *)

Silent(ms) == \A k \in DOMAIN ms : ms[k].role = "tool" => ms[k].text = <<>>
NoAnswer(ms, c) == \A k \in DOMAIN ms : ~(ms[k].role = "tool" /\ ms[k].answers = c)

LEMMA AnswerToIs ==
    ASSUME NEW ms \in Seq(Messages), OnlyAssistantCalls(ms), NEW c \in Nat
    PROVE  /\ AnswerTo(ms, c) \in Messages /\ AnswerTo(ms, c).role = "tool"
           /\ AnswerTo(ms, c).calls = <<>> /\ AnswerTo(ms, c).answers = c
           /\ Silent(ms) => AnswerTo(ms, c).text = <<>> \/ NoAnswer(ms, c)
  <1> DEFINE at == {k \in DOMAIN ms : ms[k].role = "tool" /\ ms[k].answers = c}
  <1>1. AnswerTo(ms, c) = IF at = {} THEN Msg("tool", <<NotAvailable>>, <<>>, c) ELSE ms[Max(at)]
    BY DEF AnswerTo
  <1>2. CASE at = {}
    <2> DEFINE none == <<NotAvailable>>
               empty == <<>>
               m == Msg("tool", none, empty, c)
    <2>1. none \in Seq(Int) /\ empty \in Seq(Nat)
      BY DEF NotAvailable
    <2>2. AnswerTo(ms, c) = m
      BY <1>1, <1>2
    <2>3. NoAnswer(ms, c)
      BY <1>2 DEF NoAnswer
    <2> HIDE DEF none, empty
    <2>4. m \in Messages /\ m.role = "tool" /\ m.calls = empty /\ m.answers = c
      BY <2>1 DEF Msg, Messages
    <2> USE DEF empty
    <2> QED  BY <2>2, <2>3, <2>4
  <1>3. CASE at # {}
    <2>1. at \subseteq 1..Len(ms) /\ Len(ms) \in Nat
      OBVIOUS
    <2>2. Max(at) \in at
      BY <1>3, <2>1, LargestIn
    <2>3. AnswerTo(ms, c) = ms[Max(at)]
      BY <1>1, <1>3
    <2>4. Max(at) \in DOMAIN ms /\ ms[Max(at)].role = "tool" /\ ms[Max(at)].answers = c
      BY <2>2
    <2> DEFINE k == Max(at)
    <2> HIDE DEF k
    <2>5. k \in DOMAIN ms /\ ms[k].role = "tool" /\ ms[k].answers = c /\ AnswerTo(ms, c) = ms[k]
      BY <2>3, <2>4 DEF k
    <2>6. ms[k] \in Messages
      BY <2>5
    <2>7. ms[k].calls = <<>>
      BY <2>5 DEF OnlyAssistantCalls
    <2>8. Silent(ms) => ms[k].text = <<>>
      BY <2>5 DEF Silent
    <2> QED  BY <2>5, <2>6, <2>7, <2>8
  <1> QED  BY <1>2, <1>3

(* What a block comes after.                                                *)
JoinsLast(out) == out # <<>> /\ Last(out).role = "assistant" /\ Last(out).calls = <<>>
Base(out) == IF JoinsLast(out) THEN Front(out) ELSE out

LEMMA BaseIs ==
    ASSUME NEW out \in Seq(Messages)
    PROVE  /\ Base(out) \in Seq(Messages)
           /\ Protocol(out) => Protocol(Base(out)) /\ Calling(Base(out)) = Calling(out)
           /\ \A k \in DOMAIN Base(out) : k \in DOMAIN out /\ Base(out)[k] = out[k]
  <1>1. CASE ~JoinsLast(out)
    BY <1>1 DEF Base
  <1>2. CASE JoinsLast(out)
    <2> DEFINE N == Len(out)
               few == Front(out)
    <2>1. /\ N \in Nat /\ N >= 1 /\ Last(out) = out[N] /\ N \in DOMAIN out
          /\ few \in Seq(Messages) /\ DOMAIN few = 1..N - 1
          /\ \A k \in 1..N - 1 : few[k] = out[k]
      BY <1>2, FrontLast DEF JoinsLast
    <2>2. DOMAIN out = 1..N
      OBVIOUS
    <2>3. Base(out) = few
      BY <1>2 DEF Base
    <2>4. out[N].role = "assistant" /\ out[N].calls = <<>>
      BY <1>2, <2>1 DEF JoinsLast
    <2> HIDE DEF few
    <2>5. TakenOut(few, out, N)
      BY <2>1 DEF TakenOut
    <2>6. Protocol(out) => Protocol(few) /\ Calling(few) = Calling(out)
      <3> SUFFICES ASSUME Protocol(out) PROVE Protocol(few) /\ Calling(few) = Calling(out)
        OBVIOUS
      <3> HIDE DEF N
      <3>1. out[N].role # "tool"
        BY <2>4
      <3> QED  BY <2>1, <2>4, <2>5, <3>1, ProtocolWithout
    <2> QED  BY <2>1, <2>2, <2>3, <2>6
  <1> QED  BY <1>1, <1>2

(* The calls of the messages i to j - 1.                                    *)
CallsOf(ms, i, j) == Flat([k \in 1 .. j - i |-> ms[i + k - 1].calls])
Texts(ms, i, j) ==
    Flat([k \in 1 .. j - i |-> IF ms[i + k - 1].calls # <<>> THEN ms[i + k - 1].text ELSE <<>>])

LEMMA BlockLists ==
    ASSUME NEW ms \in Seq(Messages), NEW i \in DOMAIN ms, NEW j \in i + 1 .. Len(ms) + 1
    PROVE  CallsOf(ms, i, j) \in Seq(Nat) /\ Texts(ms, i, j) \in Seq(Int)
  <1> DEFINE n == j - i
             cs == [k \in 1 .. n |-> ms[i + k - 1].calls]
             ts == [k \in 1 .. n |-> IF ms[i + k - 1].calls # <<>> THEN ms[i + k - 1].text ELSE <<>>]
  <1>1. i \in Nat /\ j \in Nat /\ i >= 1 /\ Len(ms) \in Nat /\ n \in Nat
    OBVIOUS
  <1>2. \A k \in 1..n : i + k - 1 \in DOMAIN ms
    BY <1>1
  <1>3. \A k \in DOMAIN ms : ms[k].calls \in Seq(Nat) /\ ms[k].text \in Seq(Int)
    <2>1. \A k \in DOMAIN ms : ms[k] \in Messages
      OBVIOUS
    <2> QED  BY <2>1 DEF Messages
  <1>4. cs \in [1..n -> Seq(Nat)]
    BY <1>2, <1>3
  <1>5. \A k \in 1..n : (IF ms[i + k - 1].calls # <<>> THEN ms[i + k - 1].text ELSE <<>>) \in Seq(Int)
    <2> SUFFICES ASSUME NEW k \in 1..n
                 PROVE  (IF ms[i + k - 1].calls # <<>> THEN ms[i + k - 1].text ELSE <<>>) \in Seq(Int)
      OBVIOUS
    <2>1. ms[i + k - 1].text \in Seq(Int)
      BY <1>2, <1>3
    <2> QED  BY <2>1
  <1>6. ts \in [1..n -> Seq(Int)]
    BY <1>5
  <1>7. \A A, f : f \in [1..n -> A] => f \in Seq(A)
    BY <1>1
  <1>8. cs \in Seq(Seq(Nat)) /\ ts \in Seq(Seq(Int))
    BY <1>4, <1>6, <1>7
  <1> HIDE DEF cs, ts
  <1>9. Flat(cs) \in Seq(Nat) /\ Flat(ts) \in Seq(Int)
    BY <1>8, FlatType
  <1> QED  BY <1>9 DEF cs, ts, CallsOf, Texts

(* No call is made twice.                                                  *)
OneCall(ms) ==
    \A k, l \in DOMAIN ms : \A a \in DOMAIN ms[k].calls, b \in DOMAIN ms[l].calls :
        ms[k].calls[a] = ms[l].calls[b] => k = l /\ a = b

LEMMA CallsOfIs ==
    ASSUME NEW ms \in Seq(Messages), NEW i \in DOMAIN ms, NEW j \in i + 1 .. Len(ms) + 1,
           OneCall(ms)
    PROVE  /\ Unique(CallsOf(ms, i, j))
           /\ \A c \in Range(CallsOf(ms, i, j)) : \E k \in i .. j - 1 :
                 \E a \in DOMAIN ms[k].calls : ms[k].calls[a] = c
  <1> DEFINE n == j - i
             cs == [k \in 1 .. n |-> ms[i + k - 1].calls]
             B == {<<x, x>> : x \in Nat}
             out == Flat(cs)
  <1>1. i \in Nat /\ j \in Nat /\ i >= 1 /\ Len(ms) \in Nat /\ n \in Nat
    OBVIOUS
  <1>2. \A k \in 1..n : i + k - 1 \in DOMAIN ms /\ i + k - 1 \in i .. j - 1
    BY <1>1
  <1>3. \A k \in DOMAIN ms : ms[k].calls \in Seq(Nat)
    <2>1. \A k \in DOMAIN ms : ms[k] \in Messages
      OBVIOUS
    <2> QED  BY <2>1 DEF Messages
  <1>4. cs \in [1..n -> Seq(Nat)]
    BY <1>2, <1>3
  <1>5. \A A, f : f \in [1..n -> A] => f \in Seq(A)
    BY <1>1
  <1>6. cs \in Seq(Seq(Nat)) /\ DOMAIN cs = 1..n
    BY <1>4, <1>5
  <1>7. \A k \in 1..n : cs[k] = ms[i + k - 1].calls
    OBVIOUS
  <1>12. CallsOf(ms, i, j) = out
    BY DEF CallsOf
  <1>13. \A x, y : <<x, y>> \in B => x = y
    OBVIOUS
  <1>14. \A x \in Nat : <<x, x>> \in B
    OBVIOUS
  <1> HIDE DEF cs, n, B
  <1>8. NoPairs(cs, B)
    <2>1. \A k \in DOMAIN cs : NoPair(cs[k], B)
      <3> SUFFICES ASSUME NEW k \in 1..n, NEW a \in DOMAIN cs[k], NEW b \in DOMAIN cs[k],
                          a # b, <<cs[k][a], cs[k][b]>> \in B
                   PROVE  FALSE
        BY <1>6 DEF NoPair
      <3>1. cs[k][a] = cs[k][b]
        BY <1>13
      <3> DEFINE o == i + k - 1
      <3>2. o \in DOMAIN ms /\ cs[k] = ms[o].calls
        BY <1>2, <1>7
      <3> HIDE DEF o
      <3>3. ms[o].calls[a] = ms[o].calls[b] /\ a \in DOMAIN ms[o].calls /\ b \in DOMAIN ms[o].calls
        BY <3>1, <3>2
      <3> QED  BY <3>2, <3>3 DEF OneCall
    <2>2. \A k, l \in DOMAIN cs : k # l =>
             \A a \in DOMAIN cs[k], b \in DOMAIN cs[l] : <<cs[k][a], cs[l][b]>> \notin B
      <3> SUFFICES ASSUME NEW k \in 1..n, NEW l \in 1..n, k # l, NEW a \in DOMAIN cs[k],
                          NEW b \in DOMAIN cs[l], <<cs[k][a], cs[l][b]>> \in B
                   PROVE  FALSE
        BY <1>6
      <3>1. cs[k][a] = cs[l][b]
        BY <1>13
      <3> DEFINE o == i + k - 1
                 q == i + l - 1
      <3>2. o \in DOMAIN ms /\ cs[k] = ms[o].calls /\ q \in DOMAIN ms /\ cs[l] = ms[q].calls
        BY <1>2, <1>7
      <3> HIDE DEF o, q
      <3>3. /\ ms[o].calls[a] = ms[q].calls[b] /\ a \in DOMAIN ms[o].calls /\ b \in DOMAIN ms[q].calls
        BY <3>1, <3>2
      <3>4. o = q
        BY <3>2, <3>3 DEF OneCall
      <3>5. i + k - 1 = i + l - 1
        BY <3>4 DEF o, q
      <3>6. k \in Int /\ l \in Int
        BY <1>1
      <3> QED  BY <1>1, <3>5, <3>6
    <2> QED  BY <2>1, <2>2 DEF NoPairs
  <1>9. /\ out \in Seq(Nat) /\ NoPair(out, B)
        /\ \A x \in DOMAIN out : \E k \in DOMAIN cs : \E a \in DOMAIN cs[k] : out[x] = cs[k][a]
    <2>1. cs \in Seq(Seq(Nat))
      BY <1>6
    <2>2. /\ Flat(cs) \in Seq(Nat) /\ NoPair(Flat(cs), B)
          /\ \A x \in DOMAIN Flat(cs) : \E k \in DOMAIN cs : \E a \in DOMAIN cs[k] :
                Flat(cs)[x] = cs[k][a]
      BY ONLY <2>1, <1>8, FlatHas
    <2> QED  BY <2>2
  <1> HIDE DEF out
  <1>10. Unique(out)
    <2> SUFFICES ASSUME NEW x \in DOMAIN out, NEW y \in DOMAIN out, out[x] = out[y] PROVE x = y
      BY DEF Unique
    <2>1. out[x] \in Nat
      BY <1>9
    <2> QED  BY <1>9, <1>14, <2>1 DEF NoPair
  <1>11. ASSUME NEW c \in Range(out)
         PROVE  \E k \in i .. j - 1 : \E a \in DOMAIN ms[k].calls : ms[k].calls[a] = c
    <2>1. PICK x \in DOMAIN out : out[x] = c
      BY <1>11 DEF Range
    <2>2. PICK k \in 1..n : \E a \in DOMAIN cs[k] : out[x] = cs[k][a]
      BY <1>6, <1>9
    <2> QED  BY <1>2, <1>7, <2>1, <2>2
  <1> QED  BY <1>10, <1>11, <1>12

(* The answers to a block, and the block.                                   *)
AnswersTo(ms, cs) == [k \in DOMAIN cs |-> AnswerTo(ms, cs[k])]
EndOf(ms, i) == Min({k \in i + 1 .. Len(ms) + 1 : k = Len(ms) + 1 \/ ~Passed(ms[k])})
TextOf(out, ms, i, j) == (IF JoinsLast(out) THEN Last(out).text ELSE <<>>) \o Texts(ms, i, j)
Block(out, ms, i) ==
    LET j == EndOf(ms, i)
    IN  <<Msg("assistant", TextOf(out, ms, i, j), CallsOf(ms, i, j), 0)>>
            \o AnswersTo(ms, CallsOf(ms, i, j))

LEMMA EndIs ==
    ASSUME NEW ms \in Seq(Messages), NEW i \in DOMAIN ms
    PROVE  EndOf(ms, i) \in i + 1 .. Len(ms) + 1 /\ \A k \in i + 1 .. EndOf(ms, i) - 1 : Passed(ms[k])
  <1> DEFINE S == {k \in i + 1 .. Len(ms) + 1 : k = Len(ms) + 1 \/ ~Passed(ms[k])}
             j == EndOf(ms, i)
  <1>1. i \in Nat /\ Len(ms) \in Nat /\ Len(ms) + 1 \in i + 1 .. Len(ms) + 1
    OBVIOUS
  <1>2. S \subseteq Nat /\ S # {}
    BY <1>1
  <1>3. j \in S /\ \A y \in S : j <= y
    <2>1. Min(S) \in S /\ \A y \in S : Min(S) <= y
      <3> HIDE DEF S
      <3> QED  BY <1>2, SmallestIn
    <2> QED  BY <2>1 DEF EndOf
  <1> HIDE DEF j
  <1>4. j \in i + 1 .. Len(ms) + 1
    BY <1>3
  <1>5. ASSUME NEW k \in i + 1 .. j - 1 PROVE Passed(ms[k])
    <2>1. k \in i + 1 .. Len(ms) + 1 /\ ~(j <= k)
      BY <1>1, <1>4
    <2> QED  BY <1>3, <2>1
  <1> QED  BY <1>4, <1>5 DEF j

LEMMA AnswersToIs ==
    ASSUME NEW ms \in Seq(Messages), OnlyAssistantCalls(ms), NEW cs \in Seq(Nat)
    PROVE  /\ Answering(AnswersTo(ms, cs), cs)
           /\ \A k \in DOMAIN cs : AnswersTo(ms, cs)[k] = AnswerTo(ms, cs[k])
  <1>1. \A k \in DOMAIN cs : cs[k] \in Nat
    OBVIOUS
  <1>2. \A k \in DOMAIN cs : /\ AnswerTo(ms, cs[k]) \in Messages /\ AnswerTo(ms, cs[k]).role = "tool"
                             /\ AnswerTo(ms, cs[k]).calls = <<>> /\ AnswerTo(ms, cs[k]).answers = cs[k]
    BY <1>1, AnswerToIs
  <1>3. DOMAIN cs = 1..Len(cs) /\ Len(cs) \in Nat
    OBVIOUS
  <1>4. AnswersTo(ms, cs) \in [1..Len(cs) -> Messages]
    BY <1>2, <1>3 DEF AnswersTo
  <1>5. AnswersTo(ms, cs) \in Seq(Messages)
    BY <1>3, <1>4
  <1>6. \A k \in DOMAIN cs : AnswersTo(ms, cs)[k] = AnswerTo(ms, cs[k])
    BY DEF AnswersTo
  <1>7. DOMAIN AnswersTo(ms, cs) = DOMAIN cs
    BY DEF AnswersTo
  <1> QED  BY <1>2, <1>5, <1>6, <1>7 DEF Answering

LEMMA BlockIs ==
    ASSUME NEW ms \in Seq(Messages), OnlyAssistantCalls(ms), NEW i \in DOMAIN ms,
           NEW out \in Seq(Messages)
    PROVE  /\ WithBlock(out, ms, i) = Base(out) \o Block(out, ms, i)
           /\ Block(out, ms, i) \in Seq(Messages) /\ WithBlock(out, ms, i) \in Seq(Messages)
           /\ \A k \in DOMAIN Block(out, ms, i) : Block(out, ms, i)[k].role = "tool" =>
                 \E c \in Nat : Block(out, ms, i)[k] = AnswerTo(ms, c)
           /\ Unique(CallsOf(ms, i, EndOf(ms, i))) =>
                 /\ Protocol(Block(out, ms, i))
                 /\ Calling(Block(out, ms, i)) = Range(CallsOf(ms, i, EndOf(ms, i)))
  <1> DEFINE j == EndOf(ms, i)
             cs == CallsOf(ms, i, j)
             text == TextOf(out, ms, i, j)
             m == Msg("assistant", text, cs, 0)
             ans == AnswersTo(ms, cs)
             one == <<m>>
  <1>1. j \in i + 1 .. Len(ms) + 1
    BY EndIs
  <1>2. cs \in Seq(Nat) /\ Texts(ms, i, j) \in Seq(Int)
    BY <1>1, BlockLists
  <1>3. text \in Seq(Int)
    <2>1. (IF JoinsLast(out) THEN Last(out).text ELSE <<>>) \in Seq(Int)
      <3>1. JoinsLast(out) => Last(out) \in Messages
        BY FrontLast DEF JoinsLast
      <3>2. JoinsLast(out) => Last(out).text \in Seq(Int)
        BY <3>1 DEF Messages
      <3> QED  BY <3>2
    <2> QED  BY <1>2, <2>1 DEF TextOf
  <1>4. m \in Messages /\ m.role = "assistant" /\ m.calls = cs
    <2> HIDE DEF text, cs
    <2> QED  BY <1>2, <1>3 DEF Msg, Messages
  <1>5. Answering(ans, cs) /\ \A k \in DOMAIN cs : ans[k] = AnswerTo(ms, cs[k])
    BY <1>2, AnswersToIs
  <1>6. Base(out) \in Seq(Messages)
    BY BaseIs
  <1>7. WithBlock(out, ms, i) = (Base(out) \o one) \o ans
    BY DEF WithBlock, EndOf, CallsOf, TextOf, Texts, AnswersTo, Base, JoinsLast
  <1>8. Block(out, ms, i) = one \o ans
    BY DEF Block
  <1>9. one \in Seq(Messages) /\ Len(one) = 1 /\ one[1] = m
    BY <1>4
  <1>10. ans \in Seq(Messages) /\ DOMAIN ans = DOMAIN cs
    BY <1>5 DEF Answering
  <1> HIDE DEF one, ans, cs, m, text, j
  <1>11. (Base(out) \o one) \o ans = Base(out) \o (one \o ans)
    <2>1. Base(out) \in Seq(Messages) /\ one \in Seq(Messages) /\ ans \in Seq(Messages)
      BY <1>6, <1>9, <1>10
    <2>2. Regroups(Base(out), one, ans)
      BY ONLY <2>1, RegroupsIs
    <2> QED  BY ONLY <2>2 DEF Regroups
  <1>12. one \o ans \in Seq(Messages)
    BY <1>9, <1>10, Joined
  <1>13. Base(out) \o (one \o ans) \in Seq(Messages)
    BY <1>6, <1>12, Joined
  <1>14. ASSUME NEW k \in DOMAIN (one \o ans), (one \o ans)[k].role = "tool"
         PROVE  \E c \in Nat : (one \o ans)[k] = AnswerTo(ms, c)
    <2>1. \/ k \in DOMAIN one /\ (one \o ans)[k] = one[k]
          \/ k - Len(one) \in DOMAIN ans /\ (one \o ans)[k] = ans[k - Len(one)]
      BY <1>9, <1>10, JoinedIn
    <2>2. k \in DOMAIN one => one[k] = m
      BY <1>9
    <2>3. k - Len(one) \in DOMAIN cs /\ (one \o ans)[k] = ans[k - Len(one)]
      BY <1>4, <1>10, <1>14, <2>1, <2>2
    <2>4. cs[k - Len(one)] \in Nat
      BY <1>2, <2>3
    <2> QED  BY <1>5, <2>3, <2>4
  <1>15. Unique(cs) => Protocol(<<m>> \o ans) /\ Calling(<<m>> \o ans) = Range(cs)
    BY <1>4, <1>5, BlockProto
  <1>16. Unique(cs) => Protocol(one \o ans) /\ Calling(one \o ans) = Range(cs)
    BY <1>15 DEF one
  <1> QED  BY <1>7, <1>8, <1>11, <1>12, <1>13, <1>14, <1>16 DEF cs, j

-----------------------------------------------------------------------------
(* Histories, and what becomes of them                                      *)

History(ms) == ms \in Seq(Messages) /\ OneCall(ms) /\ OnlyAssistantCalls(ms) /\ Silent(ms)

(* The answers in out are those of the history.                             *)
Told(ms, out) ==
    \A k \in DOMAIN out : out[k].role = "tool" =>
        out[k].text = <<>> \/ NoAnswer(ms, out[k].answers)

(* A call of the blocks that begin up to n.                                 *)
Reached(ms, n, c) ==
    \E i \in 1..n : /\ ms[i].calls # <<>>
                    /\ \E k \in i .. Len(ms) : /\ \A l \in i + 1 .. k : Passed(ms[l])
                                               /\ \E a \in DOMAIN ms[k].calls : ms[k].calls[a] = c

Ordered(ms, n, out) ==
    /\ Protocol(out) /\ Told(ms, out)
    /\ \A c \in Calling(out) : Reached(ms, n, c)

OrderStep(ms, out, n) ==
    IF ms[n].role = "tool" \/ InBlock(ms, n) THEN out
    ELSE IF ms[n].calls = <<>> THEN Append(out, ms[n]) ELSE WithBlock(out, ms, n)

LEMMA AppendIs ==
    ASSUME NEW A, NEW list \in Seq(A), NEW x \in A
    PROVE  Append(list, x) = list \o <<x>>
  OBVIOUS

LEMMA TypeOfProtocol == ASSUME NEW ms, Protocol(ms) PROVE ms \in Seq(Messages)
  BY DEF Protocol

LEMMA ToldJoined ==
    ASSUME NEW ms, NEW a \in Seq(Messages), NEW b \in Seq(Messages), Told(ms, a), Told(ms, b)
    PROVE  Told(ms, a \o b)
  <1> DEFINE all == a \o b
  <1>1. \A k \in DOMAIN all : \/ k \in DOMAIN a /\ all[k] = a[k]
                              \/ k - Len(a) \in DOMAIN b /\ all[k] = b[k - Len(a)]
    BY JoinedIn
  <1> HIDE DEF all
  <1>2. Told(ms, all)
    BY <1>1 DEF Told
  <1> QED  BY <1>2 DEF all

LEMMA ReachedOn ==
    ASSUME NEW ms, NEW n \in Nat, NEW c, Reached(ms, n - 1, c)
    PROVE  Reached(ms, n, c)
  <1>1. \A i \in 1..n - 1 : i \in 1..n
    OBVIOUS
  <1> QED  BY <1>1 DEF Reached

LEMMA BlockApart ==
    ASSUME NEW ms, History(ms), NEW n \in DOMAIN ms, ~InBlock(ms, n), NEW c, Reached(ms, n - 1, c)
    PROVE  c \notin Range(CallsOf(ms, n, EndOf(ms, n)))
  <1> DEFINE j == EndOf(ms, n)
  <1>1. ms \in Seq(Messages) /\ n \in Nat /\ n >= 1 /\ Len(ms) \in Nat /\ DOMAIN ms = 1..Len(ms)
    BY DEF History
  <1>2. j \in n + 1 .. Len(ms) + 1
    BY <1>1, EndIs
  <1> HIDE DEF j
  <1>3. \A d \in Range(CallsOf(ms, n, j)) : \E k \in n .. j - 1 :
           \E a \in DOMAIN ms[k].calls : ms[k].calls[a] = d
    BY <1>1, <1>2, CallsOfIs DEF History
  <1> SUFFICES ASSUME c \in Range(CallsOf(ms, n, j)) PROVE FALSE
    BY DEF j
  <1>4. PICK o \in n .. j - 1 : \E a \in DOMAIN ms[o].calls : ms[o].calls[a] = c
    BY <1>3
  <1>5. PICK i \in 1..n - 1 :
           /\ ms[i].calls # <<>>
           /\ \E k \in i .. Len(ms) : /\ \A l \in i + 1 .. k : Passed(ms[l])
                                      /\ \E a \in DOMAIN ms[k].calls : ms[k].calls[a] = c
    BY DEF Reached
  <1>6. PICK k \in i .. Len(ms) : /\ \A l \in i + 1 .. k : Passed(ms[l])
                                  /\ \E a \in DOMAIN ms[k].calls : ms[k].calls[a] = c
    BY <1>5
  <1>7. k \in DOMAIN ms /\ o \in DOMAIN ms
    BY <1>1, <1>2
  <1>8. k = o
    BY <1>4, <1>6, <1>7 DEF History, OneCall
  <1>9. \A l \in i + 1 .. n : l \in i + 1 .. k
    BY <1>1, <1>2, <1>8
  <1>10. InBlock(ms, n)
    BY <1>5, <1>6, <1>9 DEF InBlock
  <1> QED  BY <1>10

LEMMA BlockReached ==
    ASSUME NEW ms, History(ms), NEW n \in DOMAIN ms, ms[n].calls # <<>>,
           NEW c \in Range(CallsOf(ms, n, EndOf(ms, n)))
    PROVE  Reached(ms, n, c)
  <1> DEFINE j == EndOf(ms, n)
  <1>1. ms \in Seq(Messages) /\ n \in Nat /\ n >= 1 /\ Len(ms) \in Nat /\ DOMAIN ms = 1..Len(ms)
    BY DEF History
  <1>2. j \in n + 1 .. Len(ms) + 1 /\ \A k \in n + 1 .. j - 1 : Passed(ms[k])
    BY <1>1, EndIs
  <1> HIDE DEF j
  <1>3. \A d \in Range(CallsOf(ms, n, j)) : \E k \in n .. j - 1 :
           \E a \in DOMAIN ms[k].calls : ms[k].calls[a] = d
    BY <1>1, <1>2, CallsOfIs DEF History
  <1>4. PICK o \in n .. j - 1 : \E a \in DOMAIN ms[o].calls : ms[o].calls[a] = c
    BY <1>3 DEF j
  <1>5. o \in n .. Len(ms) /\ \A l \in n + 1 .. o : Passed(ms[l])
    BY <1>1, <1>2
  <1>6. n \in 1..n
    BY <1>1
  <1> QED  BY <1>4, <1>5, <1>6 DEF Reached

LEMMA BlockTold ==
    ASSUME NEW ms, History(ms), NEW n \in DOMAIN ms, NEW out \in Seq(Messages)
    PROVE  Told(ms, Block(out, ms, n))
  <1> DEFINE b == Block(out, ms, n)
  <1>1. ms \in Seq(Messages) /\ OnlyAssistantCalls(ms) /\ Silent(ms)
    BY DEF History
  <1>2. \A k \in DOMAIN b : b[k].role = "tool" => \E c \in Nat : b[k] = AnswerTo(ms, c)
    BY <1>1, BlockIs
  <1>3. \A c \in Nat : /\ AnswerTo(ms, c).answers = c
                       /\ AnswerTo(ms, c).text = <<>> \/ NoAnswer(ms, c)
    BY <1>1, AnswerToIs
  <1> HIDE DEF b
  <1>4. Told(ms, b)
    BY <1>2, <1>3 DEF Told
  <1> QED  BY <1>4 DEF b

LEMMA OrderedStep ==
    ASSUME NEW ms, History(ms), NEW n \in DOMAIN ms, NEW out, Ordered(ms, n - 1, out)
    PROVE  Ordered(ms, n, OrderStep(ms, out, n))
  <1>1. /\ ms \in Seq(Messages) /\ n \in Nat /\ ms[n] \in Messages /\ OnlyAssistantCalls(ms)
        /\ out \in Seq(Messages) /\ Protocol(out) /\ Told(ms, out)
    BY DEF History, Ordered, Protocol
  <1>2. \A c \in Calling(out) : Reached(ms, n - 1, c)
    BY DEF Ordered
  <1>3. \A c \in Calling(out) : Reached(ms, n, c)
    BY <1>1, <1>2, ReachedOn
  <1>4. CASE ms[n].role = "tool" \/ InBlock(ms, n)
    BY <1>1, <1>3, <1>4 DEF OrderStep, Ordered
  <1>5. CASE ~(ms[n].role = "tool" \/ InBlock(ms, n)) /\ ms[n].calls = <<>>
    <2> DEFINE m == ms[n]
               one == <<m>>
    <2>1. OrderStep(ms, out, n) = out \o one
      BY <1>1, <1>5, AppendIs DEF OrderStep
    <2>2. Protocol(one) /\ Calling(one) = {}
      BY <1>1, <1>5, PlainProto
    <2>3. \A k \in DOMAIN one : one[k] = m
      OBVIOUS
    <2> HIDE DEF one
    <2>4. Told(ms, one)
      BY <1>5, <2>3 DEF Told
    <2>5. Protocol(out \o one) /\ Calling(out \o one) = Calling(out) \cup Calling(one)
      BY <1>1, <2>2, ProtocolJoined
    <2>6. Told(ms, out \o one)
      BY <1>1, <2>2, <2>4, ToldJoined, TypeOfProtocol
    <2>7. \A c \in Calling(out \o one) : Reached(ms, n, c)
      BY <1>3, <2>2, <2>5
    <2> QED  BY <2>1, <2>5, <2>6, <2>7 DEF Ordered
  <1>6. CASE ~(ms[n].role = "tool" \/ InBlock(ms, n)) /\ ms[n].calls # <<>>
    <2> DEFINE a == Base(out)
               b == Block(out, ms, n)
               cs == CallsOf(ms, n, EndOf(ms, n))
    <2>1. OrderStep(ms, out, n) = a \o b
      BY <1>1, <1>6, BlockIs DEF OrderStep
    <2>2. a \in Seq(Messages) /\ Protocol(a) /\ Calling(a) = Calling(out)
          /\ \A k \in DOMAIN a : k \in DOMAIN out /\ a[k] = out[k]
      BY <1>1, BaseIs
    <2>3. Unique(cs)
      <3>1. EndOf(ms, n) \in n + 1 .. Len(ms) + 1
        BY <1>1, EndIs
      <3> QED  BY <1>1, <3>1, CallsOfIs DEF History
    <2>4. Protocol(b) /\ Calling(b) = Range(cs)
      BY <1>1, <2>3, BlockIs
    <2>5. \A c \in Calling(out) : c \notin Range(cs)
      BY <1>2, <1>6, BlockApart
    <2>6. \A c \in Range(cs) : Reached(ms, n, c)
      BY <1>6, BlockReached
    <2>7. Told(ms, b)
      BY <1>1, BlockTold
    <2> HIDE DEF a, b, cs
    <2>8. Told(ms, a)
      BY <1>1, <2>2 DEF Told
    <2>9. Protocol(a \o b) /\ Calling(a \o b) = Calling(a) \cup Calling(b)
      <3>1. Calling(a) \cap Calling(b) = {}
        BY <2>2, <2>4, <2>5
      <3> QED  BY <2>2, <2>4, <3>1, ProtocolJoined
    <2>10. Told(ms, a \o b)
      BY <2>2, <2>4, <2>7, <2>8, ToldJoined, TypeOfProtocol
    <2>11. \A c \in Calling(a \o b) : Reached(ms, n, c)
      BY <1>3, <2>2, <2>4, <2>6, <2>9
    <2> QED  BY <2>1, <2>9, <2>10, <2>11 DEF Ordered
  <1> QED  BY <1>4, <1>5, <1>6

LEMMA OrderStepType ==
    ASSUME NEW ms \in Seq(Messages), OnlyAssistantCalls(ms), NEW n \in DOMAIN ms,
           NEW out \in Seq(Messages)
    PROVE  OrderStep(ms, out, n) \in Seq(Messages)
  <1>1. ms[n] \in Messages
    OBVIOUS
  <1>2. Append(out, ms[n]) \in Seq(Messages)
    BY <1>1
  <1>3. WithBlock(out, ms, n) \in Seq(Messages)
    BY BlockIs
  <1> QED  BY <1>2, <1>3 DEF OrderStep

LEMMA ReorderedIs ==
    ASSUME NEW ms, History(ms)
    PROVE  Ordered(ms, Len(ms), Reordered(ms))
  <1> DEFINE N == Len(ms)
             V == Seq(Messages)
             Recurses(f) == f = [n \in 0..N |-> IF n = 0 THEN <<>> ELSE OrderStep(ms, f[n - 1], n)]
             after == CHOOSE f : Recurses(f)
             step == [p \in V \X (1..N) |-> OrderStep(ms, p[1], p[2])]
  <1>0. ms \in V /\ OnlyAssistantCalls(ms) /\ N \in Nat /\ DOMAIN ms = 1..N
    BY DEF History
  <1>1. step \in [V \X (1..N) -> V]
    <2>1. \A p \in V \X (1..N) : OrderStep(ms, p[1], p[2]) \in V
      BY <1>0, OrderStepType
    <2> HIDE DEF V
    <2> QED  BY <2>1
  <1>2. \E f : Recurses(f)
    <2>0. <<>> \in V
      OBVIOUS
    <2> HIDE DEF V
    <2>1. PICK f \in [0..N -> V] : Follows(f, <<>>, step, N)
      <3> HIDE DEF step
      <3> QED  BY <1>0, <1>1, <2>0, RecursionExists
    <2>2. \A n \in 1..N : f[n] = OrderStep(ms, f[n - 1], n)
      <3> SUFFICES ASSUME NEW n \in 1..N PROVE f[n] = OrderStep(ms, f[n - 1], n)
        OBVIOUS
      <3>1. n - 1 \in 0..N
        BY <1>0
      <3>2. f[n - 1] \in V /\ f[n] = step[<<f[n - 1], n>>]
        BY <2>1, <3>1 DEF Follows
      <3> QED  BY <3>2
    <2>3. \A n \in 0..N : f[n] = IF n = 0 THEN <<>> ELSE OrderStep(ms, f[n - 1], n)
      BY <1>0, <2>1, <2>2 DEF Follows
    <2>4. Recurses(f)
      BY <2>1, <2>3
    <2> QED  BY <2>4
  <1>3. Recurses(after)
    BY <1>2
  <1>4. /\ after[0] = <<>>
        /\ \A n \in 1..N : after[n] = OrderStep(ms, after[n - 1], n)
    <2>1. \A n \in 0..N : after[n] = IF n = 0 THEN <<>> ELSE OrderStep(ms, after[n - 1], n)
      BY <1>3
    <2> HIDE DEF after
    <2> QED  BY <1>0, <2>1
  <1>5. Reordered(ms) = after[N]
    BY DEF Reordered, OrderStep
  <1> HIDE DEF after, step, V
  <1> DEFINE Good == {n \in Nat : n <= N => Ordered(ms, n, after[n])}
  <1>6. 0 \in Good
    <2>1. Protocol(<<>>) /\ Calling(<<>>) = {}
      BY NoneProto
    <2>2. Told(ms, <<>>)
      BY DEF Told
    <2>3. Ordered(ms, 0, after[0])
      BY <1>4, <2>1, <2>2 DEF Ordered
    <2> QED  BY <2>3
  <1>7. ASSUME NEW n \in Nat, n \in Good PROVE n + 1 \in Good
    <2> SUFFICES ASSUME n + 1 <= N PROVE Ordered(ms, n + 1, after[n + 1])
      OBVIOUS
    <2>1. n + 1 \in DOMAIN ms /\ n + 1 - 1 = n /\ Ordered(ms, n, after[n])
      BY <1>0, <1>7
    <2>2. after[n + 1] = OrderStep(ms, after[n], n + 1)
      BY <1>0, <1>4, <2>1
    <2>3. Ordered(ms, n + 1 - 1, after[n])
      BY <2>1
    <2>4. Ordered(ms, n + 1, OrderStep(ms, after[n], n + 1))
      BY <2>1, <2>3, OrderedStep
    <2> QED  BY <2>2, <2>4
  <1> HIDE DEF Good
  <1>8. Nat \subseteq Good
    BY <1>6, <1>7, Induction
  <1>9. N \in Good /\ N <= N
    BY <1>0, <1>8
  <1>10. Ordered(ms, N, after[N])
    BY <1>9 DEF Good
  <1> QED  BY <1>5, <1>10

-----------------------------------------------------------------------------
(* Merging messages, and adding a prompt                                    *)

After(ms, n) == SubSeq(ms, n + 1, Len(ms))

LEMMA AfterIs ==
    ASSUME NEW A, NEW ms \in Seq(A), NEW n \in 0..Len(ms)
    PROVE  /\ After(ms, n) \in Seq(A) /\ Len(After(ms, n)) = Len(ms) - n
           /\ \A k \in 1..Len(ms) - n : After(ms, n)[k] = ms[n + k]
  <1> DEFINE N == Len(ms)
             r == SubSeq(ms, n + 1, N)
  <1>1. N \in Nat /\ n \in Nat /\ n <= N
    OBVIOUS
  <1>2. \A k \in n + 1..N : k \in DOMAIN ms
    BY <1>1
  <1> HIDE DEF N
  <1>3. r \in Seq(A)
    BY <1>1, <1>2
  <1>4. Len(r) = N - n
    BY <1>1, <1>2
  <1>5. \A k \in 1..N - n : r[k] = ms[n + k]
    BY <1>1, <1>2
  <1> QED  BY <1>3, <1>4, <1>5 DEF After, N

LEMMA AfterNext ==
    ASSUME NEW A, NEW ms \in Seq(A), NEW n \in 1..Len(ms)
    PROVE  /\ After(ms, n - 1) = <<ms[n]>> \o After(ms, n)
           /\ After(ms, 0) = ms /\ After(ms, Len(ms)) = <<>>
  <1> DEFINE N == Len(ms)
             a == After(ms, n - 1)
             b == After(ms, n)
             one == <<ms[n]>>
             c == one \o b
  <1>1. N \in Nat /\ n \in 1..N /\ n - 1 \in 0..N /\ n \in 0..N /\ ms[n] \in A /\ 0 \in 0..N /\ N \in 0..N
    OBVIOUS
  <1>2. /\ a \in Seq(A) /\ Len(a) = N - (n - 1) /\ \A k \in 1..N - (n - 1) : a[k] = ms[n - 1 + k]
    BY <1>1, AfterIs
  <1>3. /\ b \in Seq(A) /\ Len(b) = N - n /\ \A k \in 1..N - n : b[k] = ms[n + k]
    BY <1>1, AfterIs
  <1> HIDE DEF a, b
  <1>4. /\ c \in Seq(A) /\ Len(c) = 1 + Len(b)
        /\ c[1] = ms[n] /\ \A k \in 1..Len(b) : c[1 + k] = b[k]
    <2> DEFINE x == ms[n]
    <2> HIDE DEF x
    <2>1. x \in A /\ b \in Seq(A)
      BY <1>1, <1>3 DEF x
    <2>2. /\ <<x>> \o b \in Seq(A) /\ Len(<<x>> \o b) = 1 + Len(b)
          /\ (<<x>> \o b)[1] = x /\ \A k \in 1..Len(b) : (<<x>> \o b)[1 + k] = b[k]
      BY ONLY <2>1, OneThen
    <2> QED  BY <2>2 DEF x
  <1> HIDE DEF c, N
  <1>6. c[1] = ms[n] /\ \A k \in 1..N - n : c[1 + k] = ms[n + k]
    BY <1>1, <1>3, <1>4
  <1>7. Len(c) = N - (n - 1)
    BY <1>1, <1>3, <1>4
  <1>8. \A k \in 1..N - (n - 1) : a[k] = c[k]
    <2> SUFFICES ASSUME NEW k \in 1..N - (n - 1) PROVE a[k] = c[k]
      OBVIOUS
    <2>1. CASE k = 1
      <3>1. a[1] = ms[n - 1 + 1] /\ n - 1 + 1 = n
        BY <1>1, <1>2, <2>1
      <3> QED  BY <1>6, <2>1, <3>1
    <2>2. CASE k # 1
      <3>1. k - 1 \in 1..N - n /\ 1 + (k - 1) = k /\ n + (k - 1) = n - 1 + k
        BY <1>1, <2>2
      <3>2. c[k] = ms[n - 1 + k]
        BY <1>6, <3>1
      <3> QED  BY <1>2, <3>2
    <2> QED  BY <2>1, <2>2
  <1>9. a = c
    BY <1>2, <1>4, <1>7, <1>8, SameList
  <1>10. After(ms, 0) = ms
    <2>1. /\ After(ms, 0) \in Seq(A) /\ Len(After(ms, 0)) = N - 0
          /\ \A k \in 1..N - 0 : After(ms, 0)[k] = ms[0 + k]
      BY <1>1, AfterIs DEF N
    <2>2. \A k \in 1..N : After(ms, 0)[k] = ms[k]
      BY <1>1, <2>1
    <2>3. Len(After(ms, 0)) = Len(ms)
      BY <1>1, <2>1 DEF N
    <2> QED  BY <2>1, <2>2, <2>3, SameList DEF N
  <1>11. After(ms, N) = <<>>
    <2>1. After(ms, N) \in Seq(A) /\ Len(After(ms, N)) = N - N
      BY <1>1, AfterIs DEF N
    <2>2. Len(After(ms, N)) = 0
      BY <1>1, <2>1
    <2> QED  BY <2>1, <2>2, NoLength
  <1> QED  BY <1>9, <1>10, <1>11 DEF a, b, c, one, N

LEMMA DropOne ==
    ASSUME NEW a \in Seq(Messages), NEW b \in Seq(Messages), NEW m \in Messages
    PROVE  /\ TakenOut(a \o b, a \o (<<m>> \o b), Len(a) + 1)
           /\ Len(a) + 1 \in DOMAIN (a \o (<<m>> \o b)) /\ (a \o (<<m>> \o b))[Len(a) + 1] = m
  <1> DEFINE one == <<m>>
             c == one \o b
             out == a \o b
             all == a \o c
             L == Len(a)
             M == Len(b)
  <1>2. L \in Nat /\ M \in Nat
    OBVIOUS
  <1>3. /\ c \in Seq(Messages) /\ Len(c) = 1 + M
        /\ c[1] = m /\ \A k \in 1..M : c[1 + k] = b[k]
    BY OneThen
  <1>4. c[1] = m /\ \A k \in 1..M : c[1 + k] = b[k]
    BY <1>3
  <1>5. Len(c) = 1 + M
    BY <1>3
  <1> HIDE DEF c
  <1>6. /\ all \in Seq(Messages) /\ DOMAIN all = 1..L + Len(c)
        /\ \A k \in 1..L : all[k] = a[k]
        /\ \A k \in 1..Len(c) : all[L + k] = c[k]
    <2>1. a \in Seq(Messages) /\ c \in Seq(Messages)
      BY <1>3
    <2>2. /\ a \o c \in Seq(Messages) /\ DOMAIN (a \o c) = 1..Len(a) + Len(c)
          /\ \A k \in 1..Len(a) : (a \o c)[k] = a[k]
          /\ \A k \in 1..Len(c) : (a \o c)[Len(a) + k] = c[k]
      BY ONLY <2>1, Joined
    <2> QED  BY <2>2
  <1>7. /\ DOMAIN out = 1..L + M
        /\ \A k \in 1..L : out[k] = a[k]
        /\ \A k \in 1..M : out[L + k] = b[k]
    BY Joined
  <1> HIDE DEF all, out, L, M
  <1>8. DOMAIN all = 1..L + M + 1 /\ L + M + 1 \in Nat
    BY <1>2, <1>5, <1>6
  <1>9. Len(all) = L + M + 1
    BY <1>6, <1>8, LengthOf
  <1>10. \A k \in 1..1 + M : all[L + k] = c[k]
    BY <1>5, <1>6
  <1>11. ASSUME NEW i \in 1..L + M
         PROVE  out[i] = IF i < L + 1 THEN all[i] ELSE all[i + 1]
    <2>1. CASE i < L + 1
      <3>1. i \in 1..L
        BY <1>2, <2>1
      <3> QED  BY <1>6, <1>7, <2>1, <3>1
    <2>2. CASE ~(i < L + 1)
      <3>1. i - L \in 1..M /\ L + (i - L) = i /\ 1 + (i - L) \in 1..1 + M
            /\ L + (1 + (i - L)) = i + 1
        BY <1>2, <2>2
      <3>2. out[i] = b[i - L] /\ all[i + 1] = c[1 + (i - L)]
        BY <1>7, <1>10, <3>1
      <3> QED  BY <1>4, <2>2, <3>1, <3>2
    <2> QED  BY <2>1, <2>2
  <1>12. L + M = Len(all) - 1
    BY <1>2, <1>9
  <1>13. TakenOut(out, all, L + 1)
    BY <1>7, <1>11, <1>12 DEF TakenOut
  <1>14. L + 1 \in DOMAIN all /\ all[L + 1] = m
    <2>1. 1 \in 1..1 + M /\ L + 1 \in 1..L + M + 1
      BY <1>2
    <2> QED  BY <1>4, <1>8, <1>10, <2>1
  <1> QED  BY <1>13, <1>14 DEF out, all, L, c, one

(* The last message, which calls and answers nothing, with another text.    *)
Retold(out, text) == Front(out) \o <<Msg(Last(out).role, text, <<>>, 0)>>

LEMMA RetoldIs ==
    ASSUME NEW out \in Seq(Messages), out # <<>>, Last(out).calls = <<>>, Last(out).role # "tool",
           NEW text \in Seq(Int)
    PROVE  /\ Retold(out, text) \in Seq(Messages) /\ Len(Retold(out, text)) = Len(out)
           /\ \A k \in DOMAIN out : SameMessage(out[k], Retold(out, text)[k])
           /\ \A k \in DOMAIN out : out[k].role = "tool" => Retold(out, text)[k] = out[k]
           /\ DOMAIN Retold(out, text) = DOMAIN out
  <1> DEFINE N == Len(out)
             role == Last(out).role
             none == <<>>
             m == Msg(role, text, none, 0)
             one == <<m>>
             few == Front(out)
             new == few \o one
  <1>1. /\ N \in Nat /\ N >= 1 /\ Last(out) = out[N] /\ N \in DOMAIN out /\ Last(out) \in Messages
        /\ few \in Seq(Messages) /\ Len(few) = N - 1 /\ \A k \in 1..N - 1 : few[k] = out[k]
    BY FrontLast
  <1>2. m \in Messages /\ m.role = role /\ m.calls = <<>>
    <2>1. role \in {"user", "assistant", "tool"} /\ none \in Seq(Nat)
      BY <1>1 DEF Messages
    <2>2. m \in Messages /\ m.role = role /\ m.calls = none
      <3> HIDE DEF role, none
      <3> QED  BY <2>1 DEF Msg, Messages
    <2> QED  BY <2>2
  <1>3. one \in Seq(Messages) /\ Len(one) = 1 /\ one[1] = m
    BY <1>2
  <1>4. DOMAIN out = 1..N
    OBVIOUS
  <1> HIDE DEF one, few, m, N
  <1>5. /\ new \in Seq(Messages) /\ Len(new) = Len(few) + 1 /\ new[Len(few) + 1] = one[1]
        /\ \A i \in 1..Len(few) : new[i] = few[i]
    BY <1>1, <1>3, JoinedOne
  <1> HIDE DEF new
  <1>6. Len(new) = N /\ new[N] = m /\ \A i \in 1..N - 1 : new[i] = out[i]
    BY <1>1, <1>3, <1>5
  <1>7. \A k \in 1..N : k \in 1..N - 1 \/ k = N
    BY <1>1
  <1>8. SameMessage(out[N], new[N])
    BY <1>1, <1>2, <1>6 DEF SameMessage, role
  <1>9. \A k \in 1..N : SameMessage(out[k], new[k])
    <2>1. \A k \in 1..N - 1 : SameMessage(out[k], new[k])
      BY <1>6 DEF SameMessage
    <2> QED  BY <1>7, <1>8, <2>1
  <1>10. \A k \in 1..N : out[k].role = "tool" => new[k] = out[k]
    BY <1>1, <1>6, <1>7
  <1>11. DOMAIN new = 1..N
    BY <1>5, <1>6
  <1> QED  BY <1>4, <1>5, <1>6, <1>9, <1>10, <1>11 DEF Retold, new, few, one, m, role, N

(* Two steps of merging: a message is left out, or joins the last one.      *)
Merges(out, m) ==
    /\ out # <<>> /\ Last(out).role = m.role
    /\ m.role # "tool" /\ m.calls = <<>> /\ Last(out).calls = <<>>

LEMMA WithNextIs ==
    ASSUME NEW out \in Seq(Messages), NEW m \in Messages
    PROVE  /\ IsNote(m) => WithNext(out, m) = out
           /\ ~IsNote(m) /\ Merges(out, m) => WithNext(out, m) = Retold(out, Last(out).text \o m.text)
           /\ ~IsNote(m) /\ ~Merges(out, m) => WithNext(out, m) = out \o <<m>>
           /\ Merges(out, m) => Last(out).text \o m.text \in Seq(Int)
           /\ WithNext(out, m) \in Seq(Messages)
  <1>1. Append(out, m) = out \o <<m>> /\ Append(out, m) \in Seq(Messages)
    BY AppendIs
  <1>2. Merges(out, m) => Last(out).text \o m.text \in Seq(Int)
    <2>1. Merges(out, m) => Last(out) \in Messages
      BY FrontLast DEF Merges
    <2>2. Merges(out, m) => Last(out).text \in Seq(Int) /\ m.text \in Seq(Int)
      BY <2>1 DEF Messages
    <2> QED  BY <2>2
  <1>3. ~IsNote(m) /\ Merges(out, m) => WithNext(out, m) = Retold(out, Last(out).text \o m.text)
    BY DEF WithNext, Merges, Retold
  <1>4. /\ IsNote(m) => WithNext(out, m) = out
        /\ ~IsNote(m) /\ ~Merges(out, m) => WithNext(out, m) = Append(out, m)
    BY DEF WithNext, Merges
  <1>5. Merges(out, m) => Retold(out, Last(out).text \o m.text) \in Seq(Messages)
    BY <1>2, RetoldIs DEF Merges
  <1> QED  BY <1>1, <1>2, <1>3, <1>4, <1>5

(* Merged so far, with the messages to come.                                *)
MergedSoFar(h, ms, n, out) ==
    /\ out \in Seq(Messages) /\ Told(h, out)
    /\ Protocol(out \o After(ms, n)) /\ Calling(out \o After(ms, n)) = Calling(ms)

AllAlike(x, y) ==
    /\ x \in Seq(Messages) /\ y \in Seq(Messages) /\ DOMAIN y = DOMAIN x
    /\ \A k \in DOMAIN x : SameMessage(x[k], y[k])

LEMMA SameAlike ==
    ASSUME NEW a \in Seq(Messages), NEW b \in Seq(Messages), NEW c \in Seq(Messages),
           Len(a) = Len(b), \A k \in DOMAIN a : SameMessage(a[k], b[k])
    PROVE  AllAlike(a \o c, b \o c)
  <1> DEFINE x == a \o c
             y == b \o c
  <1>1. x \in Seq(Messages) /\ DOMAIN x = 1..Len(a) + Len(c)
    BY Joined
  <1>2. y \in Seq(Messages) /\ DOMAIN y = 1..Len(a) + Len(c)
    BY Joined
  <1>3. \A k \in 1..Len(a) + Len(c) :
           /\ k <= Len(a) => k \in 1..Len(a) /\ x[k] = a[k] /\ y[k] = b[k]
           /\ k > Len(a) => x[k] = c[k - Len(a)] /\ y[k] = c[k - Len(a)]
    BY JoinedAt
  <1>4. \A k \in 1..Len(a) + Len(c) : k <= Len(a) \/ k > Len(a)
    OBVIOUS
  <1>5. \A m : SameMessage(m, m)
    BY DEF SameMessage
  <1>6. DOMAIN a = 1..Len(a)
    OBVIOUS
  <1> HIDE DEF x, y
  <1>7. \A k \in 1..Len(a) + Len(c) : SameMessage(x[k], y[k])
    BY <1>3, <1>4, <1>5, <1>6
  <1>8. AllAlike(x, y)
    BY <1>1, <1>2, <1>7 DEF AllAlike
  <1> QED  BY <1>8 DEF x, y

LEMMA MergedStep ==
    ASSUME NEW h, NEW ms, Protocol(ms), Told(h, ms), NEW n \in DOMAIN ms, NEW out,
           MergedSoFar(h, ms, n - 1, out)
    PROVE  MergedSoFar(h, ms, n, WithNext(out, ms[n]))
  <1> DEFINE m == ms[n]
             rest == After(ms, n)
             new == WithNext(out, m)
             one == <<m>>
             old == out \o (one \o rest)
             mid == out \o rest
  <1>1. ms \in Seq(Messages) /\ n \in 1..Len(ms) /\ n \in 0..Len(ms) /\ m \in Messages
    BY DEF Protocol
  <1>2. After(ms, n - 1) = one \o rest
    BY <1>1, AfterNext
  <1>3. rest \in Seq(Messages)
    BY <1>1, AfterIs
  <1>4. /\ out \in Seq(Messages) /\ Told(h, out) /\ Protocol(old) /\ Calling(old) = Calling(ms)
    BY <1>2 DEF MergedSoFar
  <1>5. /\ IsNote(m) => new = out
        /\ ~IsNote(m) /\ Merges(out, m) => new = Retold(out, Last(out).text \o m.text)
        /\ ~IsNote(m) /\ ~Merges(out, m) => new = out \o one
        /\ Merges(out, m) => Last(out).text \o m.text \in Seq(Int)
        /\ new \in Seq(Messages)
    BY <1>1, <1>4, WithNextIs
  <1>6. m.calls = <<>> /\ m.role # "tool" => Protocol(mid) /\ Calling(mid) = Calling(ms)
    <2> SUFFICES ASSUME m.calls = <<>>, m.role # "tool"
                 PROVE  Protocol(mid) /\ Calling(mid) = Calling(ms)
      OBVIOUS
    <2> DEFINE p == Len(out) + 1
    <2>1. TakenOut(mid, old, p) /\ p \in DOMAIN old /\ old[p] = m
      <3> HIDE DEF m, rest
      <3> QED  BY <1>1, <1>3, <1>4, DropOne
    <2>2. mid \in Seq(Messages)
      BY <1>3, <1>4, Joined
    <2>3. old[p].calls = <<>> /\ old[p].role # "tool"
      BY <2>1
    <2> HIDE DEF mid, old, p, m
    <2> QED  BY <1>4, <2>1, <2>2, <2>3, ProtocolWithout
  <1>7. CASE IsNote(m)
    <2>1. m.calls = <<>> /\ m.role # "tool"
      BY <1>7 DEF IsNote
    <2>2. new = out
      BY <1>5, <1>7
    <2> HIDE DEF new, m, mid
    <2>3. Protocol(new \o rest) /\ Calling(new \o rest) = Calling(ms)
      BY <1>6, <2>1, <2>2 DEF mid
    <2> QED  BY <1>4, <2>2, <2>3 DEF MergedSoFar, new, m
  <1>8. CASE ~IsNote(m) /\ Merges(out, m)
    <2> DEFINE text == Last(out).text \o m.text
    <2>1. /\ m.calls = <<>> /\ m.role # "tool" /\ out # <<>> /\ Last(out).calls = <<>>
          /\ Last(out).role # "tool"
      BY <1>8 DEF Merges
    <2>2. new = Retold(out, text) /\ text \in Seq(Int)
      BY <1>5, <1>8
    <2> HIDE DEF text
    <2>3. /\ new \in Seq(Messages) /\ Len(new) = Len(out)
          /\ \A k \in DOMAIN out : SameMessage(out[k], new[k])
          /\ \A k \in DOMAIN out : out[k].role = "tool" => new[k] = out[k]
          /\ DOMAIN new = DOMAIN out
      <3>1. /\ Retold(out, text) \in Seq(Messages) /\ Len(Retold(out, text)) = Len(out)
            /\ \A k \in DOMAIN out : SameMessage(out[k], Retold(out, text)[k])
            /\ \A k \in DOMAIN out : out[k].role = "tool" => Retold(out, text)[k] = out[k]
            /\ DOMAIN Retold(out, text) = DOMAIN out
        BY <1>4, <2>1, <2>2, RetoldIs
      <3> QED  BY <2>2, <3>1
    <2>4. Told(h, new)
      <3>1. \A k \in DOMAIN out : new[k].role = "tool" => new[k] = out[k]
        BY <2>3 DEF SameMessage
      <3> QED  BY <1>4, <2>3, <3>1 DEF Told
    <2> HIDE DEF new, m, rest
    <2>5. /\ new \o rest \in Seq(Messages) /\ DOMAIN (new \o rest) = DOMAIN mid
          /\ \A k \in DOMAIN mid : SameMessage(mid[k], (new \o rest)[k])
      <3>1. /\ out \in Seq(Messages) /\ new \in Seq(Messages) /\ rest \in Seq(Messages)
            /\ Len(out) = Len(new) /\ \A k \in DOMAIN out : SameMessage(out[k], new[k])
        BY <1>3, <1>4, <2>3
      <3>2. AllAlike(out \o rest, new \o rest)
        BY ONLY <3>1, SameAlike
      <3> QED  BY <3>2 DEF AllAlike
    <2> DEFINE last == new \o rest
    <2>6. Protocol(mid)
      BY <1>6, <2>1
    <2>7. Protocol(last) /\ Calling(last) = Calling(mid)
      <3>1. /\ last \in Seq(Messages) /\ DOMAIN last = DOMAIN mid
            /\ \A k \in DOMAIN mid : SameMessage(mid[k], last[k])
        BY <2>5
      <3> HIDE DEF last, mid
      <3> QED  BY <2>6, <3>1, ProtocolAlike
    <2>8. Calling(last) = Calling(ms)
      BY <1>6, <2>1, <2>7
    <2> QED  BY <2>3, <2>4, <2>7, <2>8 DEF MergedSoFar, new, m, rest
  <1>9. CASE ~IsNote(m) /\ ~Merges(out, m)
    <2>1. new = out \o one
      BY <1>5, <1>9
    <2>2. one \in Seq(Messages) /\ \A k \in DOMAIN one : one[k] = m
      BY <1>1
    <2>3. Told(h, one)
      <3>1. m.role = "tool" => m.text = <<>> \/ NoAnswer(h, m.answers)
        BY DEF Told
      <3> HIDE DEF m, one
      <3> QED  BY <2>2, <3>1 DEF Told
    <2> HIDE DEF new, m, rest, one
    <2>4. Told(h, new)
      BY <1>4, <2>1, <2>2, <2>3, ToldJoined
    <2>5. (out \o one) \o rest = old
      BY <1>3, <1>4, <2>2, JoinedThree
    <2>6. new \o rest = old
      BY <2>1, <2>5
    <2> QED  BY <1>4, <1>5, <2>4, <2>6 DEF MergedSoFar, new, m, rest
  <1> QED  BY <1>7, <1>8, <1>9

LEMMA MergedIs ==
    ASSUME NEW h, NEW ms, Protocol(ms), Told(h, ms)
    PROVE  Protocol(Merged(ms)) /\ Calling(Merged(ms)) = Calling(ms) /\ Told(h, Merged(ms))
  <1> DEFINE N == Len(ms)
             V == Seq(Messages)
             Recurses(f) == f = [n \in 0..N |-> IF n = 0 THEN <<>> ELSE WithNext(f[n - 1], ms[n])]
             after == CHOOSE f : Recurses(f)
             step == [p \in V \X (1..N) |-> WithNext(p[1], ms[p[2]])]
  <1>0. ms \in V /\ N \in Nat /\ DOMAIN ms = 1..N
    BY DEF Protocol
  <1>1. step \in [V \X (1..N) -> V]
    <2>0. \A n \in 1..N : ms[n] \in Messages
      BY <1>0
    <2>1. \A p \in V \X (1..N) : WithNext(p[1], ms[p[2]]) \in V
      BY <1>0, <2>0, WithNextIs
    <2> HIDE DEF V
    <2> QED  BY <2>1
  <1>2. \E f : Recurses(f)
    <2>0. <<>> \in V
      OBVIOUS
    <2> HIDE DEF V
    <2>1. PICK f \in [0..N -> V] : Follows(f, <<>>, step, N)
      <3> HIDE DEF step
      <3> QED  BY <1>0, <1>1, <2>0, RecursionExists
    <2>2. \A n \in 1..N : f[n] = WithNext(f[n - 1], ms[n])
      <3> SUFFICES ASSUME NEW n \in 1..N PROVE f[n] = WithNext(f[n - 1], ms[n])
        OBVIOUS
      <3>1. n - 1 \in 0..N
        BY <1>0
      <3>2. f[n - 1] \in V /\ f[n] = step[<<f[n - 1], n>>]
        BY <2>1, <3>1 DEF Follows
      <3> QED  BY <3>2
    <2>3. \A n \in 0..N : f[n] = IF n = 0 THEN <<>> ELSE WithNext(f[n - 1], ms[n])
      BY <1>0, <2>1, <2>2 DEF Follows
    <2>4. Recurses(f)
      BY <2>1, <2>3
    <2> QED  BY <2>4
  <1>3. Recurses(after)
    BY <1>2
  <1>4. /\ after[0] = <<>>
        /\ \A n \in 1..N : after[n] = WithNext(after[n - 1], ms[n])
    <2>1. \A n \in 0..N : after[n] = IF n = 0 THEN <<>> ELSE WithNext(after[n - 1], ms[n])
      BY <1>3
    <2> HIDE DEF after
    <2> QED  BY <1>0, <2>1
  <1>5. Merged(ms) = after[N]
    BY DEF Merged
  <1> HIDE DEF after, step, V
  <1> DEFINE Good == {n \in Nat : n <= N => MergedSoFar(h, ms, n, after[n])}
  <1>11. ms \in Seq(Messages)
    BY DEF Protocol
  <1>6. 0 \in Good
    <2>1. <<>> \in Seq(Messages) /\ Told(h, <<>>) /\ <<>> \o ms = ms
      BY <1>11 DEF Told
    <2>2. After(ms, 0) = ms
      <3>1. CASE N = 0
        <4>1. ms = <<>> /\ 0 \in 0..Len(ms)
          BY <1>11, <3>1, NoLength
        <4>2. After(ms, 0) \in Seq(Messages) /\ Len(After(ms, 0)) = Len(ms) - 0
          BY <1>11, <4>1, AfterIs
        <4>3. Len(After(ms, 0)) = 0
          BY <3>1, <4>2
        <4> QED  BY <4>1, <4>2, <4>3, NoLength
      <3>2. CASE N # 0
        <4>1. 1 \in 1..Len(ms)
          BY <1>0, <3>2
        <4> QED  BY <1>11, <4>1, AfterNext
      <3> QED  BY <3>1, <3>2
    <2>3. MergedSoFar(h, ms, 0, after[0])
      BY <1>4, <2>1, <2>2 DEF MergedSoFar
    <2> QED  BY <2>3
  <1>7. ASSUME NEW n \in Nat, n \in Good PROVE n + 1 \in Good
    <2> SUFFICES ASSUME n + 1 <= N PROVE MergedSoFar(h, ms, n + 1, after[n + 1])
      OBVIOUS
    <2>1. n + 1 \in DOMAIN ms /\ n + 1 - 1 = n /\ MergedSoFar(h, ms, n, after[n])
      BY <1>0, <1>7
    <2>2. after[n + 1] = WithNext(after[n], ms[n + 1])
      BY <1>0, <1>4, <2>1
    <2>3. MergedSoFar(h, ms, n + 1 - 1, after[n])
      BY <2>1
    <2>4. MergedSoFar(h, ms, n + 1, WithNext(after[n], ms[n + 1]))
      BY <2>1, <2>3, MergedStep
    <2> QED  BY <2>2, <2>4
  <1> HIDE DEF Good
  <1>8. Nat \subseteq Good
    BY <1>6, <1>7, Induction
  <1>9. N \in Good /\ N <= N
    BY <1>0, <1>8
  <1>10. MergedSoFar(h, ms, N, after[N])
    BY <1>9 DEF Good
  <1>12. After(ms, N) = <<>>
    <2>1. N \in 0..Len(ms)
      BY <1>0
    <2>2. After(ms, N) \in Seq(Messages) /\ Len(After(ms, N)) = Len(ms) - N
      BY <1>11, <2>1, AfterIs
    <2>3. Len(After(ms, N)) = 0
      BY <1>0, <2>2
    <2> QED  BY <2>2, <2>3, NoLength
  <1>13. after[N] \o <<>> = after[N]
    BY <1>10 DEF MergedSoFar
  <1> QED  BY <1>5, <1>10, <1>12, <1>13 DEF MergedSoFar

LEMMA PromptIs ==
    ASSUME NEW ms \in Seq(Messages), OnlyAssistantCalls(ms), NEW prompt \in Seq(Int)
    PROVE  \/ /\ ms # <<>> /\ Last(ms).role = "user" /\ Last(ms).calls = <<>>
              /\ \E text \in Seq(Int) : WithPrompt(ms, prompt) = Retold(ms, text)
           \/ \E m \in Messages : /\ m.role = "user" /\ m.calls = <<>>
                                  /\ WithPrompt(ms, prompt) = ms \o <<m>>
  <1>1. CASE ms # <<>> /\ Last(ms).role = "user"
    <2>1. Len(ms) \in DOMAIN ms /\ Last(ms) = ms[Len(ms)] /\ Last(ms) \in Messages
      BY <1>1, FrontLast
    <2>2. Last(ms).calls = <<>>
      BY <1>1, <2>1 DEF OnlyAssistantCalls
    <2>3. Last(ms).text \o prompt \in Seq(Int)
      <3>1. Last(ms).text \in Seq(Int)
        BY <2>1 DEF Messages
      <3> QED  BY <3>1
    <2>4. WithPrompt(ms, prompt) = Retold(ms, Last(ms).text \o prompt)
      BY <1>1 DEF WithPrompt, Retold
    <2> QED  BY <1>1, <2>2, <2>3, <2>4
  <1>2. CASE ~(ms # <<>> /\ Last(ms).role = "user")
    <2> DEFINE none == <<>>
               user == "user"
               m == Msg(user, prompt, none, 0)
    <2>1. none \in Seq(Nat) /\ user \in {"user", "assistant", "tool"}
      OBVIOUS
    <2>2. WithPrompt(ms, prompt) = ms \o <<m>>
      BY <1>2 DEF WithPrompt
    <2>3. m \in Messages /\ m.role = user /\ m.calls = none
      <3> HIDE DEF none, user
      <3> QED  BY <2>1 DEF Msg, Messages
    <2> QED  BY <2>2, <2>3
  <1> QED  BY <1>1, <1>2

LEMMA PromptProtocol ==
    ASSUME NEW h, NEW ms, Protocol(ms), Told(h, ms), NEW prompt \in Seq(Int)
    PROVE  /\ Protocol(WithPrompt(ms, prompt)) /\ Told(h, WithPrompt(ms, prompt))
           /\ Calling(WithPrompt(ms, prompt)) = Calling(ms)
  <1> DEFINE w == WithPrompt(ms, prompt)
  <1>1. ms \in Seq(Messages) /\ OnlyAssistantCalls(ms)
    BY DEF Protocol
  <1>2. \/ /\ ms # <<>> /\ Last(ms).role = "user" /\ Last(ms).calls = <<>>
           /\ \E text \in Seq(Int) : w = Retold(ms, text)
        \/ \E m \in Messages : m.role = "user" /\ m.calls = <<>> /\ w = ms \o <<m>>
    BY <1>1, PromptIs
  <1> HIDE DEF w
  <1>3. ASSUME ms # <<>>, Last(ms).role = "user", Last(ms).calls = <<>>,
               NEW text \in Seq(Int), w = Retold(ms, text)
        PROVE  Protocol(w) /\ Told(h, w) /\ Calling(w) = Calling(ms)
    <2>1. /\ Retold(ms, text) \in Seq(Messages)
          /\ \A k \in DOMAIN ms : SameMessage(ms[k], Retold(ms, text)[k])
          /\ \A k \in DOMAIN ms : ms[k].role = "tool" => Retold(ms, text)[k] = ms[k]
          /\ DOMAIN Retold(ms, text) = DOMAIN ms
      BY <1>1, <1>3, RetoldIs
    <2>2. /\ w \in Seq(Messages) /\ DOMAIN w = DOMAIN ms
          /\ \A k \in DOMAIN ms : SameMessage(ms[k], w[k])
          /\ \A k \in DOMAIN ms : ms[k].role = "tool" => w[k] = ms[k]
      BY <1>3, <2>1
    <2>3. Protocol(w) /\ Calling(w) = Calling(ms)
      BY <2>2, ProtocolAlike
    <2>4. Told(h, w)
      <3>1. \A k \in DOMAIN ms : w[k].role = "tool" => w[k] = ms[k]
        BY <2>2 DEF SameMessage
      <3> QED  BY <2>2, <3>1 DEF Told
    <2> QED  BY <2>3, <2>4
  <1>4. ASSUME NEW m \in Messages, m.role = "user", m.calls = <<>>, w = ms \o <<m>>
        PROVE  Protocol(w) /\ Told(h, w) /\ Calling(w) = Calling(ms)
    <2> DEFINE one == <<m>>
    <2>1. Protocol(one) /\ Calling(one) = {}
      BY <1>4, PlainProto
    <2>2. \A k \in DOMAIN one : one[k] = m
      OBVIOUS
    <2> HIDE DEF one
    <2>3. Told(h, one)
      BY <1>4, <2>2 DEF Told
    <2>4. Protocol(ms \o one) /\ Calling(ms \o one) = Calling(ms) \cup Calling(one)
      BY <2>1, ProtocolJoined
    <2>5. Told(h, ms \o one)
      BY <1>1, <2>1, <2>3, ToldJoined, TypeOfProtocol
    <2> QED  BY <1>4, <2>1, <2>4, <2>5 DEF one
  <1>5. Protocol(w) /\ Told(h, w) /\ Calling(w) = Calling(ms)
    BY <1>2, <1>3, <1>4
  <1> QED  BY <1>5 DEF w

(* Nothing but a user's text is added.                                      *)
Addressed(ms, w) ==
    /\ w \in Seq(Messages) /\ DOMAIN ms \subseteq DOMAIN w
    /\ \A k \in DOMAIN ms : SameMessage(ms[k], w[k]) /\ (ms[k].role = "tool" => w[k] = ms[k])
    /\ \A k \in DOMAIN w : k \notin DOMAIN ms => w[k].role = "user" /\ w[k].calls = <<>>

LEMMA PromptHistory ==
    ASSUME NEW ms, History(ms), NEW prompt \in Seq(Int)
    PROVE  /\ History(WithPrompt(ms, prompt)) /\ Calling(WithPrompt(ms, prompt)) = Calling(ms)
           /\ \A c : NoAnswer(WithPrompt(ms, prompt), c) => NoAnswer(ms, c)
  <1> DEFINE w == WithPrompt(ms, prompt)
  <1>1. ms \in Seq(Messages) /\ OnlyAssistantCalls(ms) /\ OneCall(ms) /\ Silent(ms)
    BY DEF History
  <1>2. \/ /\ ms # <<>> /\ Last(ms).role = "user" /\ Last(ms).calls = <<>>
           /\ \E text \in Seq(Int) : w = Retold(ms, text)
        \/ \E m \in Messages : m.role = "user" /\ m.calls = <<>> /\ w = ms \o <<m>>
    BY <1>1, PromptIs
  <1> HIDE DEF w
  <1>3. Addressed(ms, w)
    <2>1. ASSUME ms # <<>>, Last(ms).role = "user", Last(ms).calls = <<>>,
                 NEW text \in Seq(Int), w = Retold(ms, text)
          PROVE  Addressed(ms, w)
      <3>1. /\ Retold(ms, text) \in Seq(Messages)
            /\ \A k \in DOMAIN ms : SameMessage(ms[k], Retold(ms, text)[k])
            /\ \A k \in DOMAIN ms : ms[k].role = "tool" => Retold(ms, text)[k] = ms[k]
            /\ DOMAIN Retold(ms, text) = DOMAIN ms
        BY <1>1, <2>1, RetoldIs
      <3> QED  BY <2>1, <3>1 DEF Addressed
    <2>2. ASSUME NEW m \in Messages, m.role = "user", m.calls = <<>>, w = ms \o <<m>>
          PROVE  Addressed(ms, w)
      <3> DEFINE one == <<m>>
      <3>1. one \in Seq(Messages) /\ \A k \in DOMAIN one : one[k] = m
        OBVIOUS
      <3> HIDE DEF one
      <3>2. ms \o one \in Seq(Messages) /\ DOMAIN (ms \o one) = 1..Len(ms) + Len(one)
            /\ \A k \in 1..Len(ms) : (ms \o one)[k] = ms[k]
        BY <1>1, <3>1, Joined
      <3>3. \A k \in DOMAIN (ms \o one) :
               \/ k \in DOMAIN ms /\ (ms \o one)[k] = ms[k]
               \/ k - Len(ms) \in DOMAIN one /\ (ms \o one)[k] = one[k - Len(ms)]
        BY <1>1, <3>1, JoinedIn
      <3>4. DOMAIN ms = 1..Len(ms) /\ Len(ms) \in Nat /\ Len(one) \in Nat
        BY <1>1, <3>1
      <3>5. w = ms \o one
        BY <2>2 DEF one
      <3>6. DOMAIN ms \subseteq DOMAIN w /\ w \in Seq(Messages)
        BY <3>2, <3>4, <3>5
      <3>7. \A k \in DOMAIN ms : w[k] = ms[k]
        BY <3>2, <3>4, <3>5
      <3>8. \A k \in DOMAIN w : k \notin DOMAIN ms => w[k] = m
        BY <3>1, <3>3, <3>5
      <3>9. \A x : SameMessage(x, x)
        BY DEF SameMessage
      <3> QED  BY <2>2, <3>6, <3>7, <3>8, <3>9 DEF Addressed
    <2> QED  BY <1>2, <2>1, <2>2
  <1>4. /\ \A k \in DOMAIN ms : w[k].role = ms[k].role /\ w[k].calls = ms[k].calls
        /\ \A k \in DOMAIN w : \A n \in DOMAIN w[k].calls : k \in DOMAIN ms
        /\ \A k \in DOMAIN w : w[k].role = "tool" => k \in DOMAIN ms /\ w[k] = ms[k]
    BY <1>3 DEF SameMessage, Addressed
  <1>5. OneCall(w)
    BY <1>1, <1>4 DEF OneCall
  <1>6. OnlyAssistantCalls(w)
    BY <1>1, <1>3, <1>4 DEF OnlyAssistantCalls, Addressed
  <1>7. Silent(w)
    BY <1>1, <1>4 DEF Silent
  <1>8. Calling(w) = Calling(ms)
    <2>1. ASSUME NEW c, c \in Calling(w) PROVE c \in Calling(ms)
      <3>1. PICK k \in DOMAIN w : \E n \in DOMAIN w[k].calls : w[k].calls[n] = c
        BY <2>1, CallIn
      <3>2. k \in DOMAIN ms /\ \E n \in DOMAIN ms[k].calls : ms[k].calls[n] = c
        BY <1>4, <3>1
      <3> QED  BY <3>2, CallIn
    <2>2. ASSUME NEW c, c \in Calling(ms) PROVE c \in Calling(w)
      <3>1. PICK k \in DOMAIN ms : \E n \in DOMAIN ms[k].calls : ms[k].calls[n] = c
        BY <2>2, CallIn
      <3>2. k \in DOMAIN w /\ \E n \in DOMAIN w[k].calls : w[k].calls[n] = c
        BY <1>3, <1>4, <3>1 DEF Addressed
      <3> QED  BY <3>2, CallIn
    <2> QED  BY <2>1, <2>2
  <1>9. \A c : NoAnswer(w, c) => NoAnswer(ms, c)
    BY <1>3 DEF NoAnswer, Addressed
  <1> QED  BY <1>3, <1>5, <1>6, <1>7, <1>8, <1>9 DEF History, Addressed, w

-----------------------------------------------------------------------------
(* The history of a session                                                 *)

(* Each call is used once, and what tools answered is their result.         *)
TurnsTalk(turns, top) ==
    /\ \A k \in DOMAIN turns : turns[k].kind = "use" => turns[k].call \in 1..top
    /\ \A j, k \in DOMAIN turns :
          turns[j].kind = "use" /\ turns[k].kind = "use" /\ turns[j].call = turns[k].call => j = k
    /\ \A k \in DOMAIN turns : turns[k].kind = "result" => turns[k].text = <<>>

(* What one turn may become.                                                *)
Speaks(t, list) ==
    /\ list \in Seq(Messages)
    /\ \A a \in DOMAIN list : list[a].role # "assistant" => list[a].calls = <<>>
    /\ \A a \in DOMAIN list : list[a].role = "tool" => list[a].text = <<>>
    /\ \A a \in DOMAIN list : \A n \in DOMAIN list[a].calls :
          a = 1 /\ n = 1 /\ list[a].calls[n] = t.call /\ t.kind = "use"
    /\ t.kind = "result" /\ t.mode # "drop" =>
          \E a \in DOMAIN list : list[a].role = "tool" /\ list[a].answers = t.call

LEMMA SpeaksNone == ASSUME NEW t, t.kind # "result" \/ t.mode = "drop" PROVE Speaks(t, <<>>)
  <1>1. <<>> \in Seq(Messages) /\ DOMAIN <<>> = {}
    OBVIOUS
  <1> QED  BY <1>1 DEF Speaks

LEMMA SpeaksOne ==
    ASSUME NEW t, NEW m \in Messages, m.calls = <<>>, m.role = "tool" => m.text = <<>>,
           t.kind = "result" => m.role = "tool" /\ m.answers = t.call
    PROVE  Speaks(t, <<m>>)
  <1> DEFINE one == <<m>>
  <1>1. one \in Seq(Messages) /\ DOMAIN one = {1} /\ one[1] = m
    OBVIOUS
  <1>2. DOMAIN m.calls = {}
    OBVIOUS
  <1> HIDE DEF one
  <1>3. Speaks(t, one)
    BY <1>1, <1>2 DEF Speaks
  <1> QED  BY <1>3 DEF one

LEMMA SpeaksUse ==
    ASSUME NEW t \in Turns, t.kind = "use", NEW ui \in BOOLEAN
    PROVE  Speaks(t, <<Msg("assistant", <<>>, <<t.call>>, 0)>>
                     \o (IF ui THEN <<Msg("tool", <<>>, <<>>, t.call)>> ELSE <<>>))
  <1> DEFINE none == <<>>
             c == t.call
             cs == <<c>>
             role == "assistant"
             tool == "tool"
             m == Msg(role, none, cs, 0)
             o == Msg(tool, none, none, c)
             rest == IF ui THEN <<o>> ELSE <<>>
             list == <<m>> \o rest
  <1>1. c \in Nat /\ cs \in Seq(Nat) /\ none \in Seq(Nat) /\ none \in Seq(Int)
    BY DEF Turns
  <1>2. role \in {"user", "assistant", "tool"} /\ tool \in {"user", "assistant", "tool"}
    OBVIOUS
  <1>3. DOMAIN cs = {1} /\ cs[1] = c /\ DOMAIN none = {}
    OBVIOUS
  <1> HIDE DEF none, cs, c, role, tool
  <1>4. m \in Messages /\ m.role = role /\ m.calls = cs
    BY <1>1, <1>2 DEF Msg, Messages
  <1>5. o \in Messages /\ o.role = tool /\ o.calls = none /\ o.text = none
    BY <1>1, <1>2 DEF Msg, Messages
  <1> HIDE DEF m, o
  <1>6. rest \in Seq(Messages) /\ \A k \in 1..Len(rest) : rest[k] = o
    BY <1>5
  <1> HIDE DEF rest
  <1>7. /\ list \in Seq(Messages) /\ DOMAIN list = 1..1 + Len(rest)
        /\ list[1] = m /\ \A k \in 1..Len(rest) : list[1 + k] = rest[k]
    <2>1. m \in Messages /\ rest \in Seq(Messages)
      BY <1>4, <1>6
    <2>2. /\ <<m>> \o rest \in Seq(Messages) /\ DOMAIN (<<m>> \o rest) = 1..1 + Len(rest)
          /\ (<<m>> \o rest)[1] = m /\ \A k \in 1..Len(rest) : (<<m>> \o rest)[1 + k] = rest[k]
      BY ONLY <2>1, OneThen
    <2> QED  BY <2>2
  <1>8. Len(rest) \in Nat
    BY <1>6
  <1> HIDE DEF list
  <1>9. \A k \in DOMAIN list : (k = 1 /\ list[k] = m) \/ list[k] = o
    <2> SUFFICES ASSUME NEW k \in DOMAIN list, k # 1 PROVE list[k] = o
      BY <1>7
    <2>1. k - 1 \in 1..Len(rest) /\ 1 + (k - 1) = k
      BY <1>7, <1>8
    <2> QED  BY <1>6, <1>7, <2>1
  <1>10. /\ m.role # "tool" /\ m.role = "assistant" /\ o.text = <<>> /\ o.calls = <<>>
         /\ DOMAIN o.calls = {} /\ DOMAIN m.calls = {1} /\ m.calls[1] = t.call
    BY <1>3, <1>4, <1>5 DEF none, role, c
  <1>11. Speaks(t, list)
    BY <1>7, <1>9, <1>10 DEF Speaks
  <1> QED  BY <1>11 DEF list, rest, m, o, cs, none, role, tool, c

LEMMA SerialisedIs ==
    ASSUME NEW t \in Turns, t.kind = "result" => t.text = <<>>
    PROVE  Speaks(t, Serialised(t))
  <1>1. /\ t.kind \in {"user", "text", "thinking", "use", "result", "marker", "error"}
        /\ t.mode \in {"full", "drop", "summary"} /\ t.text \in Seq(Int) /\ t.call \in Nat
    BY DEF Turns
  <1> DEFINE none == <<>>
             note == <<Note>>
  <1>2. none \in Seq(Nat) /\ note \in Seq(Int)
    BY DEF Note
  <1>3. ASSUME NEW role \in {"user", "assistant"}, NEW text \in Seq(Int), t.kind # "result"
        PROVE  Speaks(t, <<Msg(role, text, <<>>, 0)>>)
    <2> DEFINE m == Msg(role, text, none, 0)
    <2>1. m \in Messages /\ m.role = role /\ m.calls = none
      <3> HIDE DEF none
      <3> QED  BY <1>2 DEF Msg, Messages
    <2> HIDE DEF m
    <2>2. Speaks(t, <<m>>)
      BY <1>3, <2>1, SpeaksOne
    <2> QED  BY <2>2 DEF m
  <1>4. CASE t.mode = "drop"
    <2>1. Serialised(t) = <<>>
      BY <1>4 DEF Serialised
    <2> QED  BY <1>4, <2>1, SpeaksNone
  <1>5. CASE t.mode # "drop" /\ t.kind = "result"
    <2> DEFINE tool == "tool"
               c == t.call
               x == t.text
               m == Msg(tool, x, none, c)
    <2>1. Serialised(t) = <<m>>
      BY <1>5 DEF Serialised
    <2>2. tool \in {"user", "assistant", "tool"} /\ c \in Nat /\ x \in Seq(Int) /\ x = none
      BY <1>1, <1>5
    <2>3. m \in Messages /\ m.role = tool /\ m.calls = none /\ m.answers = c /\ m.text = none
      <3> HIDE DEF none, tool, c, x
      <3> QED  BY <1>2, <2>2 DEF Msg, Messages
    <2> HIDE DEF m
    <2>4. Speaks(t, <<m>>)
      BY <2>3, SpeaksOne
    <2> QED  BY <2>1, <2>4
  <1>6. CASE t.mode # "drop" /\ t.kind = "user"
    <2>1. Serialised(t) = <<Msg("user", t.text, <<>>, 0)>>
      BY <1>6 DEF Serialised
    <2> QED  BY <1>1, <1>3, <1>6, <2>1
  <1>7. CASE /\ t.mode # "drop"
             /\ t.kind = "text" \/ (t.mode = "summary" /\ t.kind \notin {"result", "user"})
    <2>1. Serialised(t) = <<Msg("assistant", t.text, <<>>, 0)>>
      BY <1>7 DEF Serialised
    <2> QED  BY <1>1, <1>3, <1>7, <2>1
  <1>8. CASE t.mode = "full" /\ t.kind = "thinking"
    <2>1. Serialised(t) = <<>>
      BY <1>8 DEF Serialised
    <2> QED  BY <1>8, <2>1, SpeaksNone
  <1>9. CASE t.mode = "full" /\ t.kind \in {"marker", "error"}
    <2>1. Serialised(t) = <<Msg("assistant", note, <<>>, 0)>>
      BY <1>9 DEF Serialised
    <2> HIDE DEF note
    <2> QED  BY <1>2, <1>3, <1>9, <2>1
  <1>10. CASE t.mode = "full" /\ t.kind = "use"
    <2> DEFINE ui == calls[t.call].kind = "ui"
    <2>1. Serialised(t) = <<Msg("assistant", <<>>, <<t.call>>, 0)>>
                          \o (IF ui THEN <<Msg("tool", <<>>, <<>>, t.call)>> ELSE <<>>)
      BY <1>10 DEF Serialised
    <2>2. ui \in BOOLEAN
      OBVIOUS
    <2> HIDE DEF ui
    <2>3. Speaks(t, <<Msg("assistant", <<>>, <<t.call>>, 0)>>
                    \o (IF ui THEN <<Msg("tool", <<>>, <<>>, t.call)>> ELSE <<>>))
      BY <1>10, <2>2, SpeaksUse
    <2> QED  BY <2>1, <2>3
  <1> QED  BY <1>1, <1>4, <1>5, <1>6, <1>7, <1>8, <1>9, <1>10

Share(m, o) == \E a \in DOMAIN m.calls : \E b \in DOMAIN o.calls : m.calls[a] = o.calls[b]
Sharing == {p \in Messages \X Messages : Share(p[1], p[2])}

LEMMA SharingIs ==
    ASSUME NEW m \in Messages, NEW o \in Messages
    PROVE  <<m, o>> \in Sharing <=> Share(m, o)
  BY DEF Sharing

LEMMA MessagesOfIs ==
    ASSUME NEW turns \in Seq(Turns), NEW top \in Nat, TurnsTalk(turns, top)
    PROVE  /\ History(MessagesOf(turns)) /\ Calling(MessagesOf(turns)) \subseteq 1..top
           /\ \A k \in DOMAIN turns : turns[k].kind = "result" /\ turns[k].mode # "drop" =>
                 ~NoAnswer(MessagesOf(turns), turns[k].call)
  <1> DEFINE N == Len(turns)
             lists == [k \in DOMAIN turns |-> Serialised(turns[k])]
             all == Flat(lists)
  <1>1. N \in Nat /\ DOMAIN turns = 1..N /\ \A k \in 1..N : turns[k] \in Turns
    OBVIOUS
  <1>2. \A k \in 1..N : Speaks(turns[k], Serialised(turns[k]))
    BY <1>1, SerialisedIs DEF TurnsTalk
  <1>3. DOMAIN lists = 1..N /\ \A k \in 1..N : lists[k] = Serialised(turns[k])
    BY <1>1
  <1>4. MessagesOf(turns) = all
    BY DEF MessagesOf
  <1>5. lists \in [1..N -> Seq(Messages)]
    <2>1. \A k \in 1..N : Serialised(turns[k]) \in Seq(Messages)
      BY <1>2 DEF Speaks
    <2> QED  BY <1>1, <2>1
  <1> HIDE DEF lists
  <1>6. lists \in Seq(Seq(Messages))
    BY <1>1, <1>5
  <1>7. \A k \in 1..N : Speaks(turns[k], lists[k])
    BY <1>2, <1>3
  <1>8. \A k \in 1..N : \A a \in DOMAIN lists[k] :
           /\ lists[k][a] \in Messages
           /\ \A n \in DOMAIN lists[k][a].calls :
                 a = 1 /\ n = 1 /\ lists[k][a].calls[n] = turns[k].call /\ turns[k].kind = "use"
    BY <1>5, <1>7 DEF Speaks
  <1>9. NoPairs(lists, Sharing)
    <2>1. ASSUME NEW k \in 1..N PROVE NoPair(lists[k], Sharing)
      <3> SUFFICES ASSUME NEW a \in DOMAIN lists[k], NEW b \in DOMAIN lists[k], a # b
                   PROVE  <<lists[k][a], lists[k][b]>> \notin Sharing
        BY DEF NoPair
      <3> DEFINE x == lists[k][a]
                 y == lists[k][b]
      <3>1. x \in Messages /\ y \in Messages
        BY <1>8
      <3>2. ~Share(x, y)
        BY <1>8 DEF Share
      <3> HIDE DEF x, y
      <3>3. <<x, y>> \notin Sharing
        BY <3>1, <3>2, SharingIs
      <3> QED  BY <3>3 DEF x, y
    <2>2. ASSUME NEW k \in 1..N, NEW l \in 1..N, k # l,
                 NEW a \in DOMAIN lists[k], NEW b \in DOMAIN lists[l]
          PROVE  <<lists[k][a], lists[l][b]>> \notin Sharing
      <3> DEFINE x == lists[k][a]
                 y == lists[l][b]
      <3>1. x \in Messages /\ y \in Messages
        BY <1>8
      <3>2. ~Share(x, y)
        <4> SUFFICES ASSUME Share(x, y) PROVE FALSE
          OBVIOUS
        <4>1. PICK n \in DOMAIN x.calls : \E o \in DOMAIN y.calls : x.calls[n] = y.calls[o]
          BY DEF Share
        <4>2. PICK o \in DOMAIN y.calls : x.calls[n] = y.calls[o]
          BY <4>1
        <4>3. /\ x.calls[n] = turns[k].call /\ turns[k].kind = "use"
              /\ y.calls[o] = turns[l].call /\ turns[l].kind = "use"
          BY <1>8
        <4> HIDE DEF x, y
        <4>4. turns[k].call = turns[l].call
          BY <4>2, <4>3
        <4> QED  BY <1>1, <2>2, <4>3, <4>4 DEF TurnsTalk
      <3> HIDE DEF x, y
      <3>3. <<x, y>> \notin Sharing
        BY <3>1, <3>2, SharingIs
      <3> QED  BY <3>3 DEF x, y
    <2> QED  BY <1>3, <2>1, <2>2 DEF NoPairs
  <1>10. /\ Flat(lists) \in Seq(Messages) /\ NoPair(Flat(lists), Sharing)
         /\ \A i \in DOMAIN Flat(lists) : \E k \in DOMAIN lists : \E a \in DOMAIN lists[k] :
               Flat(lists)[i] = lists[k][a]
         /\ \A k \in DOMAIN lists : \A a \in DOMAIN lists[k] : \E i \in DOMAIN Flat(lists) :
               Flat(lists)[i] = lists[k][a]
    BY ONLY <1>6, <1>9, FlatHas
  <1>11. /\ all \in Seq(Messages) /\ NoPair(all, Sharing)
         /\ \A i \in DOMAIN all : \E k \in 1..N : \E a \in DOMAIN lists[k] : all[i] = lists[k][a]
         /\ \A k \in 1..N : \A a \in DOMAIN lists[k] : \E i \in DOMAIN all : all[i] = lists[k][a]
    BY <1>3, <1>10
  <1> HIDE DEF all
  <1>12. \A i \in DOMAIN all :
            /\ all[i] \in Messages
            /\ all[i].role # "assistant" => all[i].calls = <<>>
            /\ all[i].role = "tool" => all[i].text = <<>>
            /\ \A n \in DOMAIN all[i].calls : n = 1 /\ all[i].calls[n] \in 1..top
    <2> SUFFICES ASSUME NEW i \in DOMAIN all
                 PROVE  /\ all[i] \in Messages
                        /\ all[i].role # "assistant" => all[i].calls = <<>>
                        /\ all[i].role = "tool" => all[i].text = <<>>
                        /\ \A n \in DOMAIN all[i].calls : n = 1 /\ all[i].calls[n] \in 1..top
      OBVIOUS
    <2>1. PICK k \in 1..N : \E a \in DOMAIN lists[k] : all[i] = lists[k][a]
      BY <1>11
    <2>2. PICK a \in DOMAIN lists[k] : all[i] = lists[k][a]
      BY <2>1
    <2>3. /\ lists[k][a].role # "assistant" => lists[k][a].calls = <<>>
          /\ lists[k][a].role = "tool" => lists[k][a].text = <<>>
      BY <1>7 DEF Speaks
    <2>4. \A n \in DOMAIN lists[k][a].calls : n = 1 /\ lists[k][a].calls[n] \in 1..top
      BY <1>1, <1>8 DEF TurnsTalk
    <2>5. lists[k][a] \in Messages
      BY <1>8
    <2> QED  BY <2>2, <2>3, <2>4, <2>5
  <1>13. OnlyAssistantCalls(all) /\ Silent(all)
    BY <1>12 DEF OnlyAssistantCalls, Silent
  <1>14. OneCall(all)
    <2> SUFFICES ASSUME NEW k \in DOMAIN all, NEW l \in DOMAIN all, NEW a \in DOMAIN all[k].calls,
                        NEW b \in DOMAIN all[l].calls, all[k].calls[a] = all[l].calls[b]
                 PROVE  k = l /\ a = b
      BY DEF OneCall
    <2>1. a = b
      BY <1>12
    <2>2. all[k] \in Messages /\ all[l] \in Messages /\ Share(all[k], all[l])
      BY <1>12 DEF Share
    <2>3. <<all[k], all[l]>> \in Sharing
      BY <2>2, SharingIs
    <2> QED  BY <1>11, <2>1, <2>3 DEF NoPair
  <1>15. Calling(all) \subseteq 1..top
    <2> SUFFICES ASSUME NEW c, c \in Calling(all) PROVE c \in 1..top
      OBVIOUS
    <2>1. PICK k \in DOMAIN all : \E n \in DOMAIN all[k].calls : all[k].calls[n] = c
      BY CallIn
    <2> QED  BY <1>12, <2>1
  <1>16. ASSUME NEW k \in 1..N, turns[k].kind = "result", turns[k].mode # "drop"
         PROVE  ~NoAnswer(all, turns[k].call)
    <2>1. PICK a \in DOMAIN lists[k] : lists[k][a].role = "tool" /\ lists[k][a].answers = turns[k].call
      BY <1>7, <1>16 DEF Speaks
    <2>2. PICK i \in DOMAIN all : all[i] = lists[k][a]
      BY <1>11
    <2> QED  BY <2>1, <2>2 DEF NoAnswer
  <1>17. History(all)
    BY <1>11, <1>13, <1>14 DEF History
  <1> QED  BY <1>1, <1>4, <1>15, <1>16, <1>17

(* What is in a request of the results that are still in the context.       *)
RequestTold(req, turns) ==
    \A k \in DOMAIN req, t \in DOMAIN turns :
        /\ req[k].role = "tool"
        /\ turns[t].kind = "result" /\ turns[t].mode # "drop" /\ turns[t].call = req[k].answers
        => req[k].text = <<>>

LEMMA ReorderedCalls ==
    ASSUME NEW ms, History(ms)
    PROVE  /\ Protocol(Reordered(ms)) /\ Told(ms, Reordered(ms))
           /\ Calling(Reordered(ms)) \subseteq Calling(ms)
  <1>1. Ordered(ms, Len(ms), Reordered(ms))
    BY ReorderedIs
  <1>2. ASSUME NEW c, c \in Calling(Reordered(ms)) PROVE c \in Calling(ms)
    <2>1. Reached(ms, Len(ms), c)
      BY <1>1, <1>2 DEF Ordered
    <2>2. PICK i \in 1..Len(ms) :
             \E k \in i .. Len(ms) : \E a \in DOMAIN ms[k].calls : ms[k].calls[a] = c
      BY <2>1 DEF Reached
    <2>3. PICK k \in i .. Len(ms) : \E a \in DOMAIN ms[k].calls : ms[k].calls[a] = c
      BY <2>2
    <2>4. k \in DOMAIN ms
      BY DEF History
    <2> QED  BY <2>3, <2>4, CallIn
  <1> QED  BY <1>1, <1>2 DEF Ordered

LEMMA BuildIs ==
    ASSUME NEW turns \in Seq(Turns), NEW top \in Nat, TurnsTalk(turns, top), NEW prompt \in Seq(Int)
    PROVE  /\ Protocol(BuildMessages(turns, prompt))
           /\ Calling(BuildMessages(turns, prompt)) \subseteq 1..top
           /\ RequestTold(BuildMessages(turns, prompt), turns)
  <1> DEFINE h == MessagesOf(turns)
             w == WithPrompt(h, prompt)
             r == Reordered(w)
             req == Merged(r)
  <1>1. /\ History(h) /\ Calling(h) \subseteq 1..top
        /\ \A k \in DOMAIN turns : turns[k].kind = "result" /\ turns[k].mode # "drop" =>
              ~NoAnswer(h, turns[k].call)
    BY MessagesOfIs
  <1> HIDE DEF h
  <1>2. History(w) /\ Calling(w) = Calling(h) /\ \A c : NoAnswer(w, c) => NoAnswer(h, c)
    BY <1>1, PromptHistory
  <1> HIDE DEF w
  <1>3. Protocol(r) /\ Told(w, r) /\ Calling(r) \subseteq Calling(w)
    BY <1>2, ReorderedCalls
  <1> HIDE DEF r
  <1>4. Protocol(req) /\ Calling(req) = Calling(r) /\ Told(w, req)
    BY <1>3, MergedIs
  <1> HIDE DEF req
  <1>5. RequestTold(req, turns)
    BY <1>1, <1>2, <1>4 DEF RequestTold, Told
  <1>6. Calling(req) \subseteq 1..top
    BY <1>1, <1>2, <1>3, <1>4
  <1>7. BuildMessages(turns, prompt) = req
    BY DEF BuildMessages, req, r, w, h
  <1> QED  BY <1>4, <1>5, <1>6, <1>7

-----------------------------------------------------------------------------
(* The request while calls are executed                                     *)

(* The answers to the calls that are not executed yet.                      *)
Due(todo_) == [k \in DOMAIN todo_ |-> Msg("tool", <<>>, <<>>, todo_[k])]

LEMMA DueIs ==
    ASSUME NEW cs \in Seq(Nat)
    PROVE  /\ Answering(Due(cs), cs) /\ Due(cs) \in Seq(Messages) /\ Len(Due(cs)) = Len(cs)
           /\ \A k \in DOMAIN cs : Due(cs)[k] = Msg("tool", <<>>, <<>>, cs[k])
           /\ \A h : Told(h, Due(cs))
  <1> DEFINE tool == "tool"
             none == <<>>
             N == Len(cs)
  <1>1. tool \in {"user", "assistant", "tool"} /\ none \in Seq(Int) /\ none \in Seq(Nat)
    OBVIOUS
  <1>2. N \in Nat /\ DOMAIN cs = 1..N /\ \A k \in 1..N : cs[k] \in Nat
    OBVIOUS
  <1>3. /\ DOMAIN Due(cs) = 1..N
        /\ \A k \in 1..N : Due(cs)[k] = Msg(tool, none, none, cs[k])
    BY <1>2 DEF Due
  <1> HIDE DEF tool, none, N
  <1>4. \A k \in 1..N : /\ Due(cs)[k] \in Messages /\ Due(cs)[k].role = tool
                        /\ Due(cs)[k].calls = none /\ Due(cs)[k].answers = cs[k]
                        /\ Due(cs)[k].text = none
    BY <1>1, <1>2, <1>3, MsgType
  <1>5. Due(cs) \in [1..N -> Messages]
    <2>1. Due(cs) = [k \in DOMAIN cs |-> Due(cs)[k]]
      BY DEF Due
    <2> QED  BY <1>2, <1>4, <2>1
  <1>6. Due(cs) \in Seq(Messages)
    BY <1>2, <1>5
  <1>7. Len(Due(cs)) = N
    BY <1>2, <1>3, <1>6, LengthOf
  <1>8. Answering(Due(cs), cs)
    BY <1>2, <1>3, <1>4, <1>6 DEF Answering, tool, none
  <1>9. \A h : Told(h, Due(cs))
    BY <1>3, <1>4 DEF Told, none
  <1> QED  BY <1>2, <1>3, <1>6, <1>7, <1>8, <1>9 DEF tool, none, N

LEMMA DueNone == Due(<<>>) = <<>>
  <1>1. <<>> \in Seq(Nat) /\ Len(<<>>) = 0
    OBVIOUS
  <1>2. Due(<<>>) \in Seq(Messages) /\ Len(Due(<<>>)) = 0
    BY <1>1, DueIs
  <1> QED  BY <1>2, NoLength

LEMMA DueFirst ==
    ASSUME NEW req \in Seq(Messages), NEW cs \in Seq(Nat), cs # <<>>
    PROVE  LET m == Msg("tool", <<>>, <<>>, Head(cs))
           IN  /\ m \in Messages
               /\ Append(req, m) \o Due(Tail(cs)) = req \o Due(cs)
  <1> DEFINE m == Msg("tool", <<>>, <<>>, Head(cs))
             few == Tail(cs)
             N == Len(cs)
             one == <<m>>
  <1>1. /\ few \in Seq(Nat) /\ Len(few) = N - 1 /\ N \in Nat /\ N > 0
        /\ \A k \in 1..N - 1 : few[k] = cs[k + 1]
        /\ Head(cs) = cs[1] /\ DOMAIN cs = 1..N /\ DOMAIN few = 1..N - 1
    OBVIOUS
  <1> HIDE DEF few, N
  <1>2. /\ Due(cs) \in Seq(Messages) /\ Len(Due(cs)) = N
        /\ \A k \in DOMAIN cs : Due(cs)[k] = Msg("tool", <<>>, <<>>, cs[k])
    BY DueIs DEF N
  <1>3. /\ Due(few) \in Seq(Messages) /\ Len(Due(few)) = N - 1
        /\ \A k \in DOMAIN few : Due(few)[k] = Msg("tool", <<>>, <<>>, few[k])
    BY <1>1, DueIs
  <1>4. Due(cs)[1] = m /\ m \in Messages
    <2>1. 1 \in DOMAIN cs
      BY <1>1
    <2>2. Due(cs)[1] = m
      BY <1>1, <1>2, <2>1
    <2>3. 1 \in DOMAIN Due(cs)
      BY <1>1, <1>2
    <2> HIDE DEF m
    <2> QED  BY <1>2, <2>2, <2>3
  <1>5. \A k \in 1..N - 1 : Due(cs)[1 + k] = Due(few)[k]
    <2> SUFFICES ASSUME NEW k \in 1..N - 1 PROVE Due(cs)[1 + k] = Due(few)[k]
      OBVIOUS
    <2>1. 1 + k \in DOMAIN cs /\ k \in DOMAIN few /\ k + 1 = 1 + k
      BY <1>1
    <2>2. Due(cs)[1 + k] = Msg("tool", <<>>, <<>>, cs[1 + k])
      BY <1>2, <2>1
    <2>3. Due(few)[k] = Msg("tool", <<>>, <<>>, few[k])
      BY <1>3, <2>1
    <2>4. few[k] = cs[1 + k]
      BY <1>1, <2>1
    <2> QED  BY <2>2, <2>3, <2>4
  <1> HIDE DEF m
  <1>6. /\ <<m>> \o Due(few) \in Seq(Messages) /\ Len(<<m>> \o Due(few)) = 1 + Len(Due(few))
        /\ (<<m>> \o Due(few))[1] = m /\ \A k \in 1..Len(Due(few)) : (<<m>> \o Due(few))[1 + k] = Due(few)[k]
    BY ONLY <1>3, <1>4, OneThen
  <1> DEFINE all == <<m>> \o Due(few)
             due == Due(cs)
  <1>7. /\ all \in Seq(Messages) /\ Len(all) = N /\ all[1] = m
        /\ \A k \in 1..N - 1 : all[1 + k] = Due(few)[k]
    BY <1>1, <1>3, <1>6
  <1> HIDE DEF all, due
  <1>8. due \in Seq(Messages) /\ Len(due) = N /\ due[1] = m /\ \A k \in 1..N - 1 : due[1 + k] = Due(few)[k]
    BY <1>2, <1>4, <1>5 DEF due
  <1>9. \A k \in 1..N : due[k] = all[k]
    <2> SUFFICES ASSUME NEW k \in 1..N PROVE due[k] = all[k]
      OBVIOUS
    <2>1. CASE k = 1
      BY <1>7, <1>8, <2>1
    <2>2. CASE k # 1
      <3>1. k - 1 \in 1..N - 1 /\ 1 + (k - 1) = k
        BY <1>1, <2>2
      <3> QED  BY <1>7, <1>8, <3>1
    <2> QED  BY <2>1, <2>2
  <1>10. due = all
    BY <1>1, <1>7, <1>8, <1>9
  <1>11. Append(req, m) = req \o <<m>>
    BY <1>4, AppendIs
  <1>12. <<m>> \in Seq(Messages)
    BY <1>4
  <1> HIDE DEF one
  <1>13. (req \o <<m>>) \o Due(few) = req \o (<<m>> \o Due(few))
    BY ONLY <1>3, <1>12, JoinedThree, req \in Seq(Messages)
  <1>14. Append(req, m) \o Due(few) = req \o Due(cs)
    BY <1>10, <1>11, <1>13 DEF all, due
  <1> QED  BY <1>4, <1>14 DEF m, few

-----------------------------------------------------------------------------
(* What the turns are while an exchange runs                                *)

(* b is a and turns that call nothing; the results are of the calls S.      *)
Continues(a, b, S) ==
    /\ a \in Seq(Turns) /\ b \in Seq(Turns) /\ Len(a) <= Len(b)
    /\ \A k \in 1..Len(a) : b[k] = a[k]
    /\ \A k \in 1..Len(b) : k > Len(a) =>
          /\ b[k].kind # "use"
          /\ b[k].kind = "result" => b[k].text = <<>> /\ b[k].call \in S

LEMMA ContinuesSame == ASSUME NEW a \in Seq(Turns), NEW S PROVE Continues(a, a, S)
  <1>1. Len(a) \in Nat
    OBVIOUS
  <1> QED  BY <1>1 DEF Continues

LEMMA ContinuesOne ==
    ASSUME NEW a \in Seq(Turns), NEW t \in Turns, NEW S, t.kind # "use",
           t.kind = "result" => t.text = <<>> /\ t.call \in S
    PROVE  Continues(a, Append(a, t), S)
  <1> DEFINE b == Append(a, t)
             N == Len(a)
  <1>1. /\ b \in Seq(Turns) /\ N \in Nat /\ Len(b) = N + 1 /\ b[N + 1] = t
        /\ \A k \in 1..N : b[k] = a[k]
    OBVIOUS
  <1> HIDE DEF b
  <1>2. \A k \in 1..N + 1 : k > N => k = N + 1
    BY <1>1
  <1>3. N <= N + 1
    BY <1>1
  <1>4. Continues(a, b, S)
    BY <1>1, <1>2, <1>3 DEF Continues
  <1> QED  BY <1>4 DEF b

LEMMA ContinuesOn ==
    ASSUME NEW a, NEW b, NEW c, NEW S, Continues(a, b, S), Continues(b, c, S)
    PROVE  Continues(a, c, S)
  <1>1. /\ a \in Seq(Turns) /\ b \in Seq(Turns) /\ c \in Seq(Turns)
        /\ Len(a) <= Len(b) /\ Len(b) <= Len(c)
        /\ \A k \in 1..Len(a) : b[k] = a[k]
        /\ \A k \in 1..Len(b) : c[k] = b[k]
    BY DEF Continues
  <1>2. Len(a) \in Nat /\ Len(b) \in Nat /\ Len(c) \in Nat
    BY <1>1
  <1>3. Len(a) <= Len(c) /\ \A k \in 1..Len(a) : k \in 1..Len(b)
    BY <1>1, <1>2
  <1>4. \A k \in 1..Len(a) : c[k] = a[k]
    BY <1>1, <1>3
  <1>5. ASSUME NEW k \in 1..Len(c), k > Len(a)
        PROVE  c[k].kind # "use" /\ (c[k].kind = "result" => c[k].text = <<>> /\ c[k].call \in S)
    <2>1. CASE k > Len(b)
      BY <2>1 DEF Continues
    <2>2. CASE ~(k > Len(b))
      <3>1. k \in 1..Len(b)
        BY <1>2, <2>2
      <3>2. c[k] = b[k]
        BY <1>1, <3>1
      <3> QED  BY <1>5, <3>1, <3>2 DEF Continues
    <2> QED  BY <2>1, <2>2
  <1> QED  BY <1>1, <1>3, <1>4, <1>5 DEF Continues

LEMMA ContinuesTalk ==
    ASSUME NEW a, NEW b, NEW S, Continues(a, b, S), NEW top, TurnsTalk(a, top)
    PROVE  TurnsTalk(b, top)
  <1>1. /\ DOMAIN a = 1..Len(a) /\ DOMAIN b = 1..Len(b) /\ Len(a) \in Nat /\ Len(b) \in Nat
        /\ \A k \in 1..Len(a) : b[k] = a[k]
    BY DEF Continues
  <1>2. \A k \in 1..Len(b) : k \in 1..Len(a) \/ k > Len(a)
    BY <1>1
  <1>3. \A k \in DOMAIN b : b[k].kind = "use" => k \in DOMAIN a /\ b[k] = a[k]
    BY <1>1, <1>2 DEF Continues
  <1>4. \A k \in DOMAIN b : b[k].kind = "result" => b[k].text = <<>>
    BY <1>1, <1>2 DEF Continues, TurnsTalk
  <1> QED  BY <1>3, <1>4 DEF TurnsTalk

(* The results of turns that are in the context, as Told reads them.        *)
Standing(turns) ==
    [t \in DOMAIN turns |-> [role |-> IF turns[t].kind = "result" /\ turns[t].mode # "drop"
                                      THEN "tool" ELSE "none",
                             answers |-> turns[t].call]]

LEMMA StandingIs ==
    ASSUME NEW turns, NEW req
    PROVE  RequestTold(req, turns) <=> Told(Standing(turns), req)
  <1> DEFINE h == Standing(turns)
  <1>1. /\ DOMAIN h = DOMAIN turns
        /\ \A t \in DOMAIN turns : h[t].answers = turns[t].call /\
              (h[t].role = "tool" <=> turns[t].kind = "result" /\ turns[t].mode # "drop")
    BY DEF Standing
  <1> HIDE DEF h
  <1>2. \A c : NoAnswer(h, c) <=> \A t \in DOMAIN turns :
              ~(turns[t].kind = "result" /\ turns[t].mode # "drop" /\ turns[t].call = c)
    BY <1>1 DEF NoAnswer
  <1>3. RequestTold(req, turns) <=> Told(h, req)
    BY <1>2 DEF RequestTold, Told
  <1> QED  BY <1>3 DEF h

LEMMA ContinuesTold ==
    ASSUME NEW a, NEW b, NEW S, Continues(a, b, S), NEW req, RequestTold(req, a),
           \A k \in DOMAIN req : req[k].role = "tool" => req[k].answers \notin S \/ req[k].text = <<>>
    PROVE  RequestTold(req, b)
  <1>1. /\ DOMAIN a = 1..Len(a) /\ DOMAIN b = 1..Len(b) /\ Len(a) \in Nat /\ Len(b) \in Nat
        /\ \A k \in 1..Len(a) : b[k] = a[k]
    BY DEF Continues
  <1>2. \A k \in 1..Len(b) : k \in 1..Len(a) \/ k > Len(a)
    BY <1>1
  <1>3. \A t \in DOMAIN b : \/ t \in DOMAIN a /\ b[t] = a[t]
                            \/ b[t].kind = "result" => b[t].call \in S
    BY <1>1, <1>2 DEF Continues
  <1> QED  BY <1>3 DEF RequestTold

(* The calls of a response that is not a message yet.                       *)
Coming(cs, req, turns, top) ==
    /\ cs \in Seq(Nat) /\ Unique(cs) /\ Range(cs) \subseteq 1..top
    /\ Range(cs) \cap Calling(req) = {}
    /\ \A k \in DOMAIN turns : turns[k].kind = "use" => turns[k].call \notin Range(cs)

LEMMA ContinuesComing ==
    ASSUME NEW a, NEW b, NEW S, Continues(a, b, S), NEW cs, NEW req, NEW top, Coming(cs, req, a, top)
    PROVE  Coming(cs, req, b, top)
  <1>1. /\ DOMAIN a = 1..Len(a) /\ DOMAIN b = 1..Len(b) /\ Len(a) \in Nat /\ Len(b) \in Nat
        /\ \A k \in 1..Len(a) : b[k] = a[k]
    BY DEF Continues
  <1>2. \A k \in 1..Len(b) : k \in 1..Len(a) \/ k > Len(a)
    BY <1>1
  <1>3. \A k \in DOMAIN b : b[k].kind = "use" => k \in DOMAIN a /\ b[k] = a[k]
    BY <1>1, <1>2 DEF Continues
  <1> QED  BY <1>3 DEF Coming

LEMMA ComingNone == ASSUME NEW req, NEW turns, NEW top PROVE Coming(<<>>, req, turns, top)
  <1>1. <<>> \in Seq(Nat) /\ DOMAIN <<>> = {}
    OBVIOUS
  <1>2. Range(<<>>) = {}
    BY <1>1 DEF Range
  <1> QED  BY <1>1, <1>2 DEF Coming, Unique

(* A new call.                                                              *)
LEMMA TalkOfMore ==
    ASSUME NEW turns, NEW top \in Nat, TurnsTalk(turns, top), NEW more \in Nat, more >= top
    PROVE  TurnsTalk(turns, more)
  <1>1. 1..top \subseteq 1..more
    OBVIOUS
  <1> QED  BY <1>1 DEF TurnsTalk

LEMMA ComingOne ==
    ASSUME NEW cs, NEW req, NEW turns, NEW top \in Nat, TurnsTalk(turns, top),
           Calling(req) \subseteq 1..top, Coming(cs, req, turns, top)
    PROVE  Coming(Append(cs, top + 1), req, turns, top + 1)
  <1> DEFINE c == top + 1
             more == Append(cs, c)
  <1>1. c \in Nat /\ c \notin 1..top /\ 1..top \subseteq 1..c /\ c \in 1..c
    OBVIOUS
  <1>2. cs \in Seq(Nat) /\ Unique(cs) /\ Range(cs) \subseteq 1..top
    BY DEF Coming
  <1>3. Range(more) = Range(cs) \cup {c}
    BY <1>1, <1>2, RangeAppend
  <1>4. Unique(more)
    <2>1. c \notin Range(cs)
      BY <1>1, <1>2
    <2> HIDE DEF c
    <2> QED  BY <1>1, <1>2, <2>1, UniqueAppend
  <1>5. more \in Seq(Nat)
    BY <1>1, <1>2
  <1> HIDE DEF c, more
  <1>6. \A k \in DOMAIN turns : turns[k].kind = "use" => turns[k].call \in 1..top
    BY DEF TurnsTalk
  <1>7. Coming(more, req, turns, c)
    BY <1>1, <1>2, <1>3, <1>4, <1>5, <1>6 DEF Coming
  <1> QED  BY <1>7 DEF c, more

LEMMA ComingMany ==
    ASSUME NEW req, NEW turns, NEW top \in Nat, TurnsTalk(turns, top), Calling(req) \subseteq 1..top,
           NEW n \in Nat, NEW cs \in Seq(Nat), Len(cs) = n, \A k \in 1..n : cs[k] = top + k
    PROVE  Coming(cs, req, turns, top + n)
  <1>1. DOMAIN cs = 1..n
    OBVIOUS
  <1>2. Unique(cs)
    BY <1>1 DEF Unique
  <1>3. \A c \in Range(cs) : c \in 1..top + n /\ c \notin 1..top
    BY <1>1 DEF Range
  <1>4. \A k \in DOMAIN turns : turns[k].kind = "use" => turns[k].call \in 1..top
    BY DEF TurnsTalk
  <1> QED  BY <1>2, <1>3, <1>4 DEF Coming

(* b is a and the turns of the calls cs.                                    *)
Uses(a, b, cs) ==
    /\ a \in Seq(Turns) /\ b \in Seq(Turns) /\ Len(b) = Len(a) + Len(cs)
    /\ \A k \in 1..Len(a) : b[k] = a[k]
    /\ \A k \in 1..Len(cs) : b[Len(a) + k].kind = "use" /\ b[Len(a) + k].call = cs[k]

LEMMA UsesTalk ==
    ASSUME NEW a, NEW b, NEW cs, NEW req, NEW top \in Nat, Uses(a, b, cs), TurnsTalk(a, top),
           Coming(cs, req, a, top)
    PROVE  TurnsTalk(b, top) /\ \A r : RequestTold(r, a) => RequestTold(r, b)
  <1>1. /\ DOMAIN a = 1..Len(a) /\ DOMAIN b = 1..Len(a) + Len(cs) /\ Len(a) \in Nat /\ Len(cs) \in Nat
        /\ \A k \in 1..Len(a) : b[k] = a[k]
        /\ cs \in Seq(Nat) /\ DOMAIN cs = 1..Len(cs)
    BY DEF Uses, Coming
  <1>2. ASSUME NEW k \in DOMAIN b
        PROVE  \/ k \in DOMAIN a /\ b[k] = a[k]
               \/ /\ k - Len(a) \in DOMAIN cs /\ b[k].kind = "use" /\ b[k].call = cs[k - Len(a)]
                  /\ b[k].call \in Range(cs)
    <2>1. CASE k <= Len(a)
      BY <1>1, <2>1
    <2>2. CASE ~(k <= Len(a))
      <3>1. k - Len(a) \in 1..Len(cs) /\ Len(a) + (k - Len(a)) = k
        BY <1>1, <2>2
      <3>2. b[k].kind = "use" /\ b[k].call = cs[k - Len(a)]
        BY <3>1 DEF Uses
      <3> QED  BY <1>1, <3>1, <3>2 DEF Range
    <2> QED  BY <2>1, <2>2
  <1>3. \A k \in DOMAIN b : b[k].kind = "use" => b[k].call \in 1..top
    BY <1>2 DEF TurnsTalk, Coming
  <1>4. ASSUME NEW j \in DOMAIN b, NEW k \in DOMAIN b, b[j].kind = "use", b[k].kind = "use",
               b[j].call = b[k].call
        PROVE  j = k
    <2>1. CASE j \in DOMAIN a /\ b[j] = a[j]
      <3>1. b[k].call \notin Range(cs)
        BY <1>4, <2>1 DEF Coming
      <3>2. k \in DOMAIN a /\ b[k] = a[k]
        BY <1>2, <3>1
      <3> QED  BY <1>4, <2>1, <3>2 DEF TurnsTalk
    <2>2. CASE j - Len(a) \in DOMAIN cs /\ b[j].call = cs[j - Len(a)] /\ b[j].call \in Range(cs)
      <3>1. ~(k \in DOMAIN a /\ b[k] = a[k])
        BY <1>4, <2>2 DEF Coming
      <3>2. k - Len(a) \in DOMAIN cs /\ b[k].call = cs[k - Len(a)]
        BY <1>2, <3>1
      <3>3. j - Len(a) = k - Len(a)
        BY <1>4, <2>2, <3>2 DEF Coming, Unique
      <3> QED  BY <1>1, <3>3
    <2> QED  BY <1>2, <2>1, <2>2
  <1>5. \A k \in DOMAIN b : b[k].kind = "result" => k \in DOMAIN a /\ b[k] = a[k]
    BY <1>2
  <1>6. TurnsTalk(b, top)
    BY <1>3, <1>4, <1>5 DEF TurnsTalk
  <1>7. \A r : RequestTold(r, a) => RequestTold(r, b)
    BY <1>5 DEF RequestTold
  <1> QED  BY <1>6, <1>7

(* A request and the calls of its last message that are not executed yet.   *)
Pending(req, cs, turns, top) ==
    /\ req \in Seq(Messages) /\ cs \in Seq(Nat)
    /\ Protocol(req \o Due(cs)) /\ Calling(req) \subseteq 1..top
    /\ RequestTold(req, turns)

LEMMA CallingAppend ==
    ASSUME NEW req \in Seq(Messages), NEW m \in Messages
    PROVE  Calling(Append(req, m)) \subseteq Calling(req) \cup Range(m.calls)
  <1> DEFINE all == Append(req, m)
  <1>1. \A k \in DOMAIN all : all[k] = m \/ (k \in DOMAIN req /\ all[k] = req[k])
    OBVIOUS
  <1> HIDE DEF all
  <1>2. ASSUME NEW c, c \in Calling(all) PROVE c \in Calling(req) \cup Range(m.calls)
    <2>1. PICK k \in DOMAIN all : \E n \in DOMAIN all[k].calls : all[k].calls[n] = c
      BY <1>2, CallIn
    <2>2. CASE all[k] = m
      BY <2>1, <2>2 DEF Range
    <2>3. CASE k \in DOMAIN req /\ all[k] = req[k]
      <3>1. c \in Calling(req)
        BY <2>1, <2>3, CallIn
      <3> QED  BY <3>1
    <2> QED  BY <1>1, <2>2, <2>3
  <1> QED  BY <1>2 DEF all

LEMMA ToldAppend ==
    ASSUME NEW req \in Seq(Messages), NEW m \in Messages, NEW turns, RequestTold(req, turns),
           m.role = "tool" => m.text = <<>>
    PROVE  RequestTold(Append(req, m), turns)
  <1> DEFINE all == Append(req, m)
  <1>1. \A k \in DOMAIN all : all[k] = m \/ (k \in DOMAIN req /\ all[k] = req[k])
    OBVIOUS
  <1> HIDE DEF all
  <1>2. RequestTold(all, turns)
    BY <1>1 DEF RequestTold
  <1> QED  BY <1>2 DEF all

LEMMA NoneDue ==
    ASSUME NEW req \in Seq(Messages)
    PROVE  req \o Due(<<>>) = req
  <1>1. req \o <<>> = req
    OBVIOUS
  <1> QED  BY <1>1, DueNone

LEMMA PendingBuilt ==
    ASSUME NEW turns \in Seq(Turns), NEW top \in Nat, TurnsTalk(turns, top), NEW prompt \in Seq(Int)
    PROVE  Pending(BuildMessages(turns, prompt), <<>>, turns, top)
  <1> DEFINE req == BuildMessages(turns, prompt)
  <1>1. Protocol(req) /\ Calling(req) \subseteq 1..top /\ RequestTold(req, turns)
    BY BuildIs
  <1> HIDE DEF req
  <1>2. req \in Seq(Messages) /\ <<>> \in Seq(Nat)
    BY <1>1, TypeOfProtocol
  <1>3. req \o Due(<<>>) = req
    BY <1>2, NoneDue
  <1>4. Pending(req, <<>>, turns, top)
    BY <1>1, <1>2, <1>3 DEF Pending
  <1> QED  BY <1>4 DEF req

LEMMA PendingOn ==
    ASSUME NEW req, NEW cs, NEW a, NEW b, NEW top, Pending(req, cs, a, top), Continues(a, b, {})
    PROVE  Pending(req, cs, b, top)
  <1>1. \A k \in DOMAIN req : req[k].role = "tool" => req[k].answers \notin {} \/ req[k].text = <<>>
    OBVIOUS
  <1>2. RequestTold(req, b)
    BY <1>1, ContinuesTold DEF Pending
  <1> QED  BY <1>2 DEF Pending

LEMMA PendingMore ==
    ASSUME NEW req, NEW cs, NEW a, NEW top \in Nat, Pending(req, cs, a, top), NEW more \in Nat, more >= top
    PROVE  Pending(req, cs, a, more)
  <1>1. 1..top \subseteq 1..more
    OBVIOUS
  <1> QED  BY <1>1 DEF Pending

LEMMA PendingPrompt ==
    ASSUME NEW req, NEW turns, NEW top, Pending(req, <<>>, turns, top), NEW prompt \in Seq(Int)
    PROVE  Pending(WithPrompt(req, prompt), <<>>, turns, top)
  <1> DEFINE w == WithPrompt(req, prompt)
             h == Standing(turns)
  <1>1. req \in Seq(Messages) /\ Calling(req) \subseteq 1..top /\ RequestTold(req, turns)
    BY DEF Pending
  <1>2. Protocol(req)
    <2>1. req \o Due(<<>>) = req
      BY <1>1, NoneDue
    <2> QED  BY <2>1 DEF Pending
  <1>3. Told(h, req)
    BY <1>1, StandingIs
  <1> HIDE DEF h
  <1>4. Protocol(w) /\ Told(h, w) /\ Calling(w) = Calling(req)
    BY <1>2, <1>3, PromptProtocol
  <1> HIDE DEF w
  <1>5. RequestTold(w, turns)
    BY <1>4, StandingIs DEF h
  <1>6. w \in Seq(Messages) /\ <<>> \in Seq(Nat)
    BY <1>4, TypeOfProtocol
  <1>7. w \o Due(<<>>) = w
    BY <1>6, NoneDue
  <1>8. Pending(w, <<>>, turns, top)
    BY <1>1, <1>4, <1>5, <1>6, <1>7 DEF Pending
  <1> QED  BY <1>8 DEF w

(* The response is a message, and its calls are due.                        *)
LEMMA PendingCalls ==
    ASSUME NEW req, NEW turns, NEW top, Pending(req, <<>>, turns, top), NEW cs, Coming(cs, req, turns, top),
           NEW text \in Seq(Int)
    PROVE  Pending(Append(req, Msg("assistant", text, cs, 0)), cs, turns, top)
  <1> DEFINE role == "assistant"
             zero == 0
             m == Msg(role, text, cs, zero)
             one == <<m>>
             due == Due(cs)
  <1>1. /\ req \in Seq(Messages) /\ Calling(req) \subseteq 1..top /\ RequestTold(req, turns)
        /\ cs \in Seq(Nat) /\ Unique(cs) /\ Range(cs) \subseteq 1..top /\ Range(cs) \cap Calling(req) = {}
    BY DEF Pending, Coming
  <1>2. Protocol(req)
    <2>1. req \o Due(<<>>) = req
      BY <1>1, NoneDue
    <2> QED  BY <2>1 DEF Pending
  <1>3. role \in {"user", "assistant", "tool"} /\ zero \in Nat
    OBVIOUS
  <1> HIDE DEF role, zero
  <1>4. m \in Messages /\ m.role = role /\ m.calls = cs
    BY <1>1, <1>3, MsgType
  <1> HIDE DEF m
  <1>5. Answering(due, m.calls) /\ due \in Seq(Messages)
    BY <1>1, <1>4, DueIs
  <1> HIDE DEF due
  <1>6. Protocol(<<m>> \o due) /\ Calling(<<m>> \o due) = Range(cs)
    BY <1>1, <1>4, <1>5, BlockProto DEF role
  <1>7. Protocol(req \o (<<m>> \o due))
    <2> DEFINE block == <<m>> \o due
    <2>1. Protocol(block) /\ Calling(block) = Range(cs)
      BY <1>6
    <2> HIDE DEF block
    <2>2. Calling(req) \cap Calling(block) = {}
      BY <1>1, <2>1
    <2>3. Protocol(req \o block)
      BY <1>2, <2>1, <2>2, ProtocolJoined
    <2> QED  BY <2>3 DEF block
  <1>8. Append(req, m) \o due = req \o (<<m>> \o due)
    <2>1. Append(req, m) = req \o <<m>>
      BY <1>1, <1>4, AppendIs
    <2>2. <<m>> \in Seq(Messages) /\ req \in Seq(Messages)
      BY <1>1, <1>4
    <2>3. (req \o <<m>>) \o due = req \o (<<m>> \o due)
      BY ONLY <1>5, <2>2, JoinedThree
    <2> QED  BY <2>1, <2>3
  <1>9. Calling(Append(req, m)) \subseteq 1..top
    <2>1. Calling(Append(req, m)) \subseteq Calling(req) \cup Range(m.calls)
      BY <1>1, <1>4, CallingAppend
    <2> QED  BY <1>1, <1>4, <2>1
  <1>10. RequestTold(Append(req, m), turns)
    BY <1>1, <1>4, ToldAppend DEF role
  <1>11. Append(req, m) \in Seq(Messages)
    BY <1>1, <1>4
  <1>12. Pending(Append(req, m), cs, turns, top)
    BY <1>1, <1>7, <1>8, <1>9, <1>10, <1>11 DEF Pending, due
  <1> QED  BY <1>12 DEF m, role, zero

(* One of the calls is executed.                                            *)
LEMMA PendingDone ==
    ASSUME NEW req, NEW cs, cs # <<>>, NEW a, NEW b, NEW top, Pending(req, cs, a, top),
           Continues(a, b, {Head(cs)})
    PROVE  Pending(Append(req, Msg("tool", <<>>, <<>>, Head(cs))), Tail(cs), b, top)
  <1> DEFINE tool == "tool"
             none == <<>>
             c == Head(cs)
             m == Msg(tool, none, none, c)
             all == req \o Due(cs)
  <1>1. /\ req \in Seq(Messages) /\ Calling(req) \subseteq 1..top /\ RequestTold(req, a)
        /\ cs \in Seq(Nat) /\ Protocol(all)
    BY DEF Pending
  <1>2. c \in Nat /\ cs[1] = c /\ 1 \in DOMAIN cs /\ Len(cs) \in Nat /\ 1 \in 1..Len(cs)
        /\ Tail(cs) \in Seq(Nat)
    BY <1>1
  <1>3. m \in Messages /\ m.role = tool /\ m.calls = none /\ m.text = none /\ m.answers = c
    <2>1. tool \in {"user", "assistant", "tool"} /\ none \in Seq(Nat) /\ none \in Seq(Int)
      OBVIOUS
    <2> HIDE DEF tool, none, c
    <2> QED  BY <1>2, <2>1, MsgType
  <1>4. Append(req, m) \o Due(Tail(cs)) = all
    BY <1>1, DueFirst
  <1>5. /\ Due(cs) \in Seq(Messages) /\ Len(Due(cs)) = Len(cs)
        /\ Due(cs)[1] = m
    BY <1>1, <1>2, DueIs
  <1> HIDE DEF m
  <1>6. /\ DOMAIN all = 1..Len(req) + Len(cs) /\ all[Len(req) + 1] = m
        /\ \A k \in 1..Len(req) : all[k] = req[k]
    <2>0. req \in Seq(Messages) /\ Due(cs) \in Seq(Messages)
      BY <1>1, <1>5
    <2>1. /\ DOMAIN (req \o Due(cs)) = 1..Len(req) + Len(Due(cs))
          /\ \A k \in 1..Len(req) : (req \o Due(cs))[k] = req[k]
          /\ \A k \in 1..Len(Due(cs)) : (req \o Due(cs))[Len(req) + k] = Due(cs)[k]
      BY ONLY <2>0, Joined
    <2> QED  BY <1>2, <1>5, <2>1
  <1>7. Len(req) \in Nat /\ DOMAIN req = 1..Len(req)
    BY <1>1
  <1> HIDE DEF all
  <1>8. \A k \in DOMAIN req : req[k].role = "tool" => req[k].answers \notin {c}
    <2> SUFFICES ASSUME NEW k \in DOMAIN req, req[k].role = "tool", req[k].answers = c PROVE FALSE
      OBVIOUS
    <2>1. k \in DOMAIN all /\ Len(req) + 1 \in DOMAIN all /\ k # Len(req) + 1
      BY <1>2, <1>6, <1>7
    <2>2. /\ all[k].role = "tool" /\ all[k].answers = c
          /\ all[Len(req) + 1].role = "tool" /\ all[Len(req) + 1].answers = c
      BY <1>3, <1>6, <1>7
    <2> HIDE DEF c
    <2>3. AnswersOnce(all)
      BY <1>1 DEF Protocol
    <2> QED  BY <2>1, <2>2, <2>3 DEF AnswersOnce
  <1>9. RequestTold(req, b)
    BY <1>1, <1>8, ContinuesTold
  <1>10. RequestTold(Append(req, m), b)
    BY <1>1, <1>3, <1>9, ToldAppend
  <1>11. Calling(Append(req, m)) \subseteq 1..top
    <2>1. Calling(Append(req, m)) \subseteq Calling(req) \cup Range(m.calls)
      BY <1>1, <1>3, CallingAppend
    <2>2. DOMAIN none = {}
      OBVIOUS
    <2>3. Range(m.calls) = {}
      BY <1>3, <2>2 DEF Range
    <2> QED  BY <1>1, <2>1, <2>3
  <1>12. Append(req, m) \in Seq(Messages)
    BY <1>1, <1>3
  <1>13. Pending(Append(req, m), Tail(cs), b, top)
    BY <1>1, <1>2, <1>4, <1>10, <1>11, <1>12 DEF Pending
  <1> QED  BY <1>13 DEF m

(* The calls of the response are turns now.                                 *)
LEMMA PendingUses ==
    ASSUME NEW req, NEW cs, NEW a, NEW b, NEW top \in Nat, Pending(req, <<>>, a, top), Uses(a, b, cs),
           TurnsTalk(a, top), Coming(cs, req, a, top), NEW text \in Seq(Int)
    PROVE  TurnsTalk(b, top) /\ Pending(Append(req, Msg("assistant", text, cs, 0)), cs, b, top)
  <1> DEFINE r == Append(req, Msg("assistant", text, cs, 0))
  <1>1. Pending(r, cs, a, top)
    BY PendingCalls
  <1> HIDE DEF r
  <1>2. TurnsTalk(b, top) /\ (RequestTold(r, a) => RequestTold(r, b))
    BY UsesTalk
  <1>3. Pending(r, cs, b, top)
    BY <1>1, <1>2 DEF Pending
  <1> QED  BY <1>2, <1>3 DEF r

-----------------------------------------------------------------------------
(* ToolProtocol: while an exchange runs, its request with the answers to    *)
(* the calls that are not executed yet follows the protocol; the calls of   *)
(* the response that is coming are in no turn and in no message.            *)

RequestInv ==
    /\ TurnsTalk(s.turns, Len(calls)) /\ said \in Seq(Int) /\ steering \in Seq(Int)
    /\ phase # "idle" => Pending(request, todo, s.turns, Len(calls))
    /\ phase = "answer" => todo = <<>> /\ Coming(response, request, s.turns, Len(calls))

LEMMA RequestInit == LoopInit => RequestInv
  <1> SUFFICES ASSUME LoopInit PROVE RequestInv
    OBVIOUS
  <1>1. s.turns = <<>> /\ said = <<>> /\ steering = <<>> /\ phase = "idle"
    BY DEF LoopInit
  <1>2. DOMAIN <<>> = {} /\ <<>> \in Seq(Int)
    OBVIOUS
  <1>3. TurnsTalk(s.turns, Len(calls))
    BY <1>1, <1>2 DEF TurnsTalk
  <1> QED  BY <1>1, <1>2, <1>3 DEF RequestInv

LEMMA CountCalls == ASSUME TalkInv PROVE Len(calls) \in Nat
  BY DEF TalkInv, LoopTypes, CallsType

LEMMA FlushContinues ==
    ASSUME NEW x, NEW w, asks \in Nat, Whole(x, asks, w), NEW S
    PROVE  Continues(x.turns, Flush(x).turns, S)
  <1>1. x \in Runners
    BY DEF Whole
  <1>2. x.turns \in Seq(Turns)
    BY <1>1 DEF Runners
  <1>3. CASE Wordy(x.buffer) = <<>>
    BY <1>2, <1>3, ContinuesSame DEF Flush
  <1>4. CASE Wordy(x.buffer) # <<>>
    <2>1. x.kind \in Speech
      BY <1>4, WordyNone DEF Whole
    <2>2. /\ FlushTurn(x) \in Turns /\ FlushTurn(x).kind = x.kind
          /\ Flush(x).turns = Append(x.turns, FlushTurn(x))
      BY <1>1, <1>4, <2>1, FlushFields
    <2> QED  BY <1>2, <2>1, <2>2, ContinuesOne DEF Speech
  <1> QED  BY <1>3, <1>4

(* Where only turns that call nothing are added.                            *)
LEMMA RequestGoes ==
    ASSUME RequestInv, Continues(s.turns, s'.turns, {}), said' \in Seq(Int), steering' \in Seq(Int),
           calls' = calls, phase' = phase, request' = request, todo' = todo, response' = response
    PROVE  RequestInv'
  <1> DEFINE n == Len(calls)
  <1>1. TurnsTalk(s'.turns, n)
    BY ContinuesTalk DEF RequestInv
  <1>2. phase # "idle" => Pending(request, todo, s'.turns, n)
    BY PendingOn DEF RequestInv
  <1>3. phase = "answer" => todo = <<>> /\ Coming(response, request, s'.turns, n)
    BY ContinuesComing DEF RequestInv
  <1> QED  BY <1>1, <1>2, <1>3 DEF RequestInv

(* Where the exchange ends.                                                 *)
LEMMA RequestEnds ==
    ASSUME RequestInv, NEW S, Continues(s.turns, s'.turns, S), said' = said, steering' \in Seq(Int),
           calls' = calls, phase' = "idle"
    PROVE  RequestInv'
  <1>1. TurnsTalk(s'.turns, Len(calls))
    BY ContinuesTalk DEF RequestInv
  <1> QED  BY <1>1 DEF RequestInv

LEMMA RequestSubmit ==
    ASSUME TalkInv, RequestInv, NEW prompt \in Seq(Int), Submit(prompt), calls' = calls
    PROVE  RequestInv'
  <1> DEFINE n == Len(calls)
             list == Append(s.turns, PromptTurn(s, prompt))
  <1>1. s \in Runners /\ asks \in Nat /\ IdsFine(s) /\ Asked(s, asks) /\ n \in Nat
    BY CountCalls DEF TalkInv, LoopTypes, SessionFine
  <1>2. s'.turns = list
    BY TalkSubmit
  <1>3. Prompted(s, prompt).turns = list
    BY <1>1, PromptedFields
  <1>4. request' = BuildMessages(Prompted(s, prompt).turns, prompt)
    BY DEF Submit, Prompted, PromptTurn
  <1>5. phase' = "answer" /\ said' = <<>> /\ response' = <<>> /\ todo' = <<>> /\ steering' = <<>>
    BY DEF Submit
  <1>6. Continues(s.turns, list, {})
    <2>1. PromptTurn(s, prompt) \in Turns /\ PromptTurn(s, prompt).kind = "user"
      BY <1>1, PromptTurnIs
    <2>2. s.turns \in Seq(Turns)
      BY <1>1 DEF Runners
    <2> QED  BY <2>1, <2>2, ContinuesOne
  <1> HIDE DEF list, n
  <1>7. TurnsTalk(list, n) /\ list \in Seq(Turns)
    <2>1. TurnsTalk(s.turns, n)
      BY DEF RequestInv, n
    <2>2. list \in Seq(Turns)
      BY <1>6 DEF Continues
    <2> QED  BY <1>6, <2>1, <2>2, ContinuesTalk
  <1>8. Pending(request', <<>>, list, n)
    BY <1>1, <1>3, <1>4, <1>7, PendingBuilt
  <1>9. Coming(<<>>, request', list, n)
    BY ComingNone
  <1>10. <<>> \in Seq(Int)
    OBVIOUS
  <1> QED  BY <1>2, <1>5, <1>7, <1>8, <1>9, <1>10 DEF RequestInv, n

LEMMA RequestPiece ==
    ASSUME TalkInv, RequestInv, NEW kind \in Speech, NEW p \in Int, Piece(kind, p)
    PROVE  RequestInv'
  <1>1. s \in Runners /\ asks \in Nat
    BY DEF TalkInv, LoopTypes
  <1>2. /\ phase = "answer" /\ said' = Append(said, p) /\ s' = Delta(s, kind, p)
        /\ UNCHANGED <<calls, phase, response, todo, steering, request>>
    BY DEF Piece
  <1>3. Whole(s, asks, Wordy(told))
    BY <1>2 DEF TalkInv, SessionFine
  <1> DEFINE y == Before(s, kind)
  <1>4. y \in Runners /\ Continues(s.turns, y.turns, {})
    <2>1. CASE Changes(s, kind)
      <3>1. y = Flush(s)
        BY <2>1 DEF Before
      <3>2. Whole(Flush(s), asks, Wordy(told))
        BY <1>1, <1>3, FlushWhole
      <3>3. Flush(s) \in Runners
        BY <3>2 DEF Whole
      <3>4. Continues(s.turns, Flush(s).turns, {})
        BY <1>1, <1>3, FlushContinues
      <3> QED  BY <3>1, <3>3, <3>4
    <2>2. CASE ~Changes(s, kind)
      <3>1. y = s
        BY <2>2 DEF Before
      <3>2. s.turns \in Seq(Turns)
        BY <1>1 DEF Runners
      <3> QED  BY <1>1, <3>1, <3>2, ContinuesSame
    <2> QED  BY <2>1, <2>2
  <1>5. Delta(s, kind, p).turns = y.turns
    BY <1>4, DeltaFields
  <1> HIDE DEF y
  <1>6. said' \in Seq(Int) /\ steering' \in Seq(Int)
    BY <1>2 DEF RequestInv
  <1>7. Continues(s.turns, s'.turns, {})
    BY <1>2, <1>4, <1>5
  <1> QED  BY <1>2, <1>6, <1>7, RequestGoes

LEMMA RequestStartCall ==
    ASSUME TalkInv, RequestInv, StartCall
    PROVE  RequestInv'
  <1> DEFINE n == Len(calls)
             cs == <<Len(calls) + 1>>
  <1>1. s \in Runners /\ asks \in Nat /\ n \in Nat
    BY CountCalls DEF TalkInv, LoopTypes
  <1>2. /\ phase = "answer" /\ response' = Append(response, n + 1) /\ s' = ToolStart(s, cs)
        /\ UNCHANGED <<phase, said, todo, steering, request>>
        /\ \E k \in CallKinds :
              calls' = Append(calls, [kind |-> k, batch |-> Head(response \o <<Len(calls) + 1>>)])
    BY DEF StartCall
  <1>3. Whole(s, asks, Wordy(told))
    BY <1>2 DEF TalkInv, SessionFine
  <1>4. s'.turns = Flush(s).turns
    <2>1. cs \in Seq(Nat) /\ cs # <<>>
      BY <1>1
    <2> HIDE DEF cs
    <2> QED  BY <1>1, <1>2, <1>3, <2>1, ToolStartWhole
  <1>5. Continues(s.turns, s'.turns, {})
    BY <1>1, <1>3, <1>4, FlushContinues
  <1>6. Len(calls') = n + 1
    <2>1. \E r : calls' = Append(calls, r)
      BY <1>2
    <2>2. calls \in CallsType
      BY DEF TalkInv, LoopTypes
    <2> QED  BY <2>1, <2>2 DEF CallsType
  <1> HIDE DEF n, cs
  <1>7. /\ TurnsTalk(s.turns, n) /\ Pending(request, todo, s.turns, n) /\ todo = <<>>
        /\ Coming(response, request, s.turns, n)
    BY <1>2 DEF RequestInv, n
  <1>8. /\ TurnsTalk(s'.turns, n) /\ Pending(request, todo, s'.turns, n)
        /\ Coming(response, request, s'.turns, n)
    BY <1>5, <1>7, ContinuesTalk, PendingOn, ContinuesComing
  <1>9. Calling(request) \subseteq 1..n
    BY <1>8 DEF Pending
  <1>10. Coming(Append(response, n + 1), request, s'.turns, n + 1)
    BY <1>1, <1>8, <1>9, ComingOne
  <1>11. n + 1 \in Nat /\ n + 1 >= n
    BY <1>1
  <1>12. TurnsTalk(s'.turns, n + 1)
    BY <1>1, <1>8, <1>11, TalkOfMore
  <1>13. Pending(request, todo, s'.turns, n + 1)
    BY <1>1, <1>8, <1>11, PendingMore
  <1>14. said' \in Seq(Int) /\ steering' \in Seq(Int)
    BY <1>2 DEF RequestInv
  <1> QED  BY <1>2, <1>6, <1>7, <1>10, <1>12, <1>13, <1>14 DEF RequestInv

LEMMA UsesOf ==
    ASSUME NEW x \in Runners, NEW cs \in Seq(Nat), asks \in Nat
    PROVE  Uses(x.turns, ToolUse(x, cs).turns, cs)
  <1> DEFINE r == ToolUse(x, cs)
  <1>1. /\ r \in Runners /\ Len(r.turns) = Len(x.turns) + Len(cs)
        /\ \A k \in 1..Len(x.turns) : r.turns[k] = x.turns[k]
        /\ \A k \in 1..Len(cs) : r.turns[Len(x.turns) + k] = UseTurn(x, cs, k)
    BY ToolUseFields
  <1>2. \A k \in 1..Len(cs) : UseTurn(x, cs, k).kind = "use" /\ UseTurn(x, cs, k).call = cs[k]
    BY UseTurns
  <1> HIDE DEF r
  <1>3. x.turns \in Seq(Turns) /\ r.turns \in Seq(Turns)
    BY <1>1 DEF Runners
  <1>4. Uses(x.turns, r.turns, cs)
    BY <1>1, <1>2, <1>3 DEF Uses
  <1> QED  BY <1>4 DEF r

LEMMA RequestEndWithCalls ==
    ASSUME TalkInv, RequestInv, EndWithCalls
    PROVE  RequestInv'
  <1> DEFINE n == Len(calls)
  <1>1. s \in Runners /\ asks \in Nat /\ n \in Nat /\ response \in Seq(Nat)
    BY CountCalls DEF TalkInv, LoopTypes
  <1>2. /\ phase = "answer" /\ s' = ToolUse(s, response) /\ phase' = "tools" /\ todo' = response
        /\ request' = Append(request, Msg("assistant", said, response, 0))
        /\ UNCHANGED <<calls, said, response, steering>>
    BY DEF EndWithCalls
  <1> HIDE DEF n
  <1>3. /\ TurnsTalk(s.turns, n) /\ Pending(request, <<>>, s.turns, n)
        /\ Coming(response, request, s.turns, n) /\ said \in Seq(Int) /\ steering \in Seq(Int)
    BY <1>2 DEF RequestInv, n
  <1>4. Uses(s.turns, s'.turns, response)
    BY <1>1, <1>2, UsesOf
  <1>5. TurnsTalk(s'.turns, n) /\ Pending(request', response, s'.turns, n)
    BY <1>1, <1>2, <1>3, <1>4, PendingUses
  <1> QED  BY <1>2, <1>3, <1>5 DEF RequestInv, n

LEMMA LenJoined == ASSUME NEW S, NEW a \in Seq(S), NEW b \in Seq(S) PROVE Len(a \o b) = Len(a) + Len(b)
  OBVIOUS

LEMMA RequestEmbeddedCalls ==
    ASSUME LoopAssumption, TalkInv, RequestInv, EmbeddedCalls
    PROVE  RequestInv'
  <1> DEFINE top == Len(calls)
  <1>1. s \in Runners /\ asks \in Nat /\ top \in Nat /\ calls \in CallsType
    BY CountCalls DEF TalkInv, LoopTypes
  <1>2. PICK n \in 1..MaxTogether :
            /\ response' = [k \in 1..n |-> Len(calls) + k]
            /\ calls' = calls \o [k \in 1..n |-> [kind |-> "work", batch |-> Len(calls) + 1]]
    BY DEF EmbeddedCalls
  <1>3. n \in Nat /\ n > 0
    BY DEF LoopAssumption
  <1>4. /\ response' \in Seq(Nat) /\ response' # <<>> /\ Len(response') = n
        /\ \A k \in 1..n : response'[k] = top + k
    BY <1>1, <1>2, <1>3, NextCalls
  <1>5. Len(calls') = top + n
    <2> DEFINE more == [k \in 1..n |-> [kind |-> "work", batch |-> Len(calls) + 1]]
    <2>1. more \in CallsType /\ Len(more) = n
      BY <1>1, <1>3, NextCalls
    <2>2. calls' = calls \o more
      BY <1>2
    <2> HIDE DEF more
    <2>3. Len(calls \o more) = Len(calls) + Len(more)
      BY <1>1, <2>1, LenJoined DEF CallsType
    <2> QED  BY <2>1, <2>2, <2>3
  <1>6. PICK cs : cs = response'
    OBVIOUS
  <1> DEFINE y == ToolStart(s, cs)
  <1>7. /\ phase = "answer" /\ s' = ToolUse(y, cs) /\ phase' = "tools" /\ todo' = cs
        /\ request' = Append(request, Msg("assistant", said, cs, 0))
        /\ UNCHANGED <<said, steering>>
    BY <1>6 DEF EmbeddedCalls
  <1>8. cs \in Seq(Nat) /\ cs # <<>> /\ Len(cs) = n /\ \A k \in 1..n : cs[k] = top + k
    BY <1>4, <1>6
  <1>9. Whole(s, asks, Wordy(told))
    BY <1>7 DEF TalkInv, SessionFine
  <1>10. y.turns = Flush(s).turns /\ y \in Runners
    BY <1>1, <1>8, <1>9, ToolStartWhole
  <1>11. Continues(s.turns, y.turns, {})
    BY <1>1, <1>9, <1>10, FlushContinues
  <1>12. Uses(y.turns, s'.turns, cs)
    BY <1>1, <1>7, <1>8, <1>10, UsesOf
  <1> HIDE DEF y, top
  <1>13. /\ TurnsTalk(s.turns, top) /\ Pending(request, <<>>, s.turns, top)
         /\ said \in Seq(Int) /\ steering \in Seq(Int)
    BY <1>7 DEF RequestInv, top
  <1>14. TurnsTalk(y.turns, top) /\ Pending(request, <<>>, y.turns, top)
    BY <1>11, <1>13, ContinuesTalk, PendingOn
  <1>15. Calling(request) \subseteq 1..top
    BY <1>14 DEF Pending
  <1> DEFINE more == top + n
  <1>16. Coming(cs, request, y.turns, more)
    BY <1>1, <1>3, <1>8, <1>14, <1>15, ComingMany
  <1>17. more \in Nat /\ more >= top
    BY <1>1, <1>3
  <1>18. Len(calls') = more
    BY <1>5
  <1> HIDE DEF more
  <1>19. TurnsTalk(y.turns, more) /\ Pending(request, <<>>, y.turns, more)
    BY <1>1, <1>14, <1>17, TalkOfMore, PendingMore
  <1>20. TurnsTalk(s'.turns, more) /\ Pending(request', cs, s'.turns, more)
    BY <1>7, <1>12, <1>13, <1>16, <1>17, <1>19, PendingUses
  <1> QED  BY <1>7, <1>13, <1>18, <1>20 DEF RequestInv

LEMMA RequestFinish ==
    ASSUME TalkInv, RequestInv, Finish
    PROVE  RequestInv'
  <1>1. asks \in Nat
    BY DEF TalkInv, LoopTypes
  <1>2. /\ phase = "answer" /\ s' = Flush(s) /\ phase' = "idle"
        /\ UNCHANGED <<calls, said, steering>>
    BY DEF Finish
  <1>3. Whole(s, asks, Wordy(told))
    BY <1>2 DEF TalkInv, SessionFine
  <1>4. Continues(s.turns, s'.turns, {})
    BY <1>1, <1>2, <1>3, FlushContinues
  <1>5. steering' \in Seq(Int)
    BY <1>2 DEF RequestInv
  <1> QED  BY <1>2, <1>4, <1>5, RequestEnds

LEMMA RequestExecute ==
    ASSUME TalkInv, RequestInv, Execute
    PROVE  RequestInv'
  <1>1. /\ s \in Runners /\ asks \in Nat /\ queue \in Seq(Int) /\ todo \in Seq(Nat)
    BY DEF TalkInv, LoopTypes
  <1>0. PICK c : c = Head(todo)
    OBVIOUS
  <1> DEFINE x == ToolResult(s, c)
             reads == calls[c].kind = "work" /\ queue # <<>>
             y == IF reads THEN Steered(x, queue) ELSE x
             asking == calls[c].kind = "ask"
             z == IF asking THEN Flush(y) ELSE y
  <1>2. /\ phase = "tools" /\ todo # <<>> /\ s' = z
        /\ steering' = IF reads THEN steering \o queue ELSE steering
        /\ request' = Append(request, Msg("tool", <<>>, <<>>, c))
        /\ asking => phase' = "idle"
        /\ ~asking => phase' = phase /\ todo' = Tail(todo)
        /\ UNCHANGED <<calls, said>>
    BY <1>0 DEF Execute
  <1>3. c \in Nat
    BY <1>0, <1>1, <1>2
  <1>4. Whole(s, asks, Wordy(told))
    BY <1>2 DEF TalkInv, SessionFine
  <1>5. /\ Whole(x, asks, Wordy(told)) /\ x \in Runners
        /\ x.turns = Append(s.turns, ResultTurn(s, c))
    BY <1>1, <1>3, <1>4, ToolResultWhole
  <1>6. Continues(s.turns, x.turns, {c})
    <2>1. /\ ResultTurn(s, c) \in Turns /\ ResultTurn(s, c).kind = "result"
          /\ ResultTurn(s, c).call = c /\ ResultTurn(s, c).text = <<>>
      BY <1>1, <1>3, ResultTurnIs
    <2>2. s.turns \in Seq(Turns) /\ c \in {c}
      BY <1>1 DEF Runners
    <2> QED  BY <1>5, <2>1, <2>2, ContinuesOne
  <1> HIDE DEF x
  <1>7. Whole(y, asks, Wordy(told)) /\ Continues(x.turns, y.turns, {c})
    <2>1. x.turns \in Seq(Turns)
      BY <1>5 DEF Runners
    <2>2. CASE reads
      <3>1. y = Steered(x, queue)
        BY <2>2
      <3> HIDE DEF y
      <3>2. Whole(y, asks, Wordy(told)) /\ y.turns = Append(x.turns, SteerTurn(x, queue))
        BY <1>1, <1>5, <3>1, SteeredWhole
      <3>3. SteerTurn(x, queue) \in Turns /\ SteerTurn(x, queue).kind = "user"
        BY <1>1, <1>5, SteerTurnIs
      <3> QED  BY <2>1, <3>2, <3>3, ContinuesOne
    <2>3. CASE ~reads
      <3>1. y = x
        BY <2>3
      <3> QED  BY <1>5, <2>1, <3>1, ContinuesSame
    <2> QED  BY <2>2, <2>3
  <1> HIDE DEF y
  <1>8. Continues(y.turns, z.turns, {c})
    <2>1. CASE asking
      <3>1. z = Flush(y)
        BY <2>1
      <3> QED  BY <1>1, <1>7, <3>1, FlushContinues
    <2>2. CASE ~asking
      <3>1. z = y
        BY <2>2
      <3>2. y.turns \in Seq(Turns)
        BY <1>7 DEF Continues
      <3> QED  BY <3>1, <3>2, ContinuesSame
    <2> QED  BY <2>1, <2>2
  <1> HIDE DEF z
  <1>9. Continues(s.turns, s'.turns, {c})
    <2>1. Continues(s.turns, y.turns, {c})
      BY <1>6, <1>7, ContinuesOn
    <2>2. Continues(s.turns, z.turns, {c})
      BY <1>8, <2>1, ContinuesOn
    <2> QED  BY <1>2, <2>2
  <1>10. steering' \in Seq(Int)
    <2>1. steering \in Seq(Int)
      BY DEF RequestInv
    <2> HIDE DEF reads
    <2>2. steering \o queue \in Seq(Int)
      BY <1>1, <2>1
    <2>3. CASE reads
      BY <1>2, <2>2, <2>3
    <2>4. CASE ~reads
      BY <1>2, <2>1, <2>4
    <2> QED  BY <2>3, <2>4
  <1> HIDE DEF reads, asking
  <1>11. CASE asking
    BY <1>2, <1>9, <1>10, <1>11, RequestEnds
  <1>12. CASE ~asking
    <2> DEFINE n == Len(calls)
               req == Append(request, Msg("tool", <<>>, <<>>, Head(todo)))
    <2>1. TurnsTalk(s.turns, n) /\ Pending(request, todo, s.turns, n)
      BY <1>2 DEF RequestInv
    <2>2. todo # <<>> /\ Continues(s.turns, s'.turns, {Head(todo)})
      BY <1>0, <1>2, <1>9
    <2> HIDE DEF n
    <2>3. TurnsTalk(s'.turns, n)
      BY <1>9, <2>1, ContinuesTalk
    <2>4. Pending(req, Tail(todo), s'.turns, n)
      BY <2>1, <2>2, PendingDone
    <2>5. request' = req /\ todo' = Tail(todo) /\ phase' = "tools"
      BY <1>0, <1>2, <1>12
    <2> HIDE DEF req
    <2>6. said' \in Seq(Int)
      BY <1>2 DEF RequestInv
    <2> QED  BY <1>2, <1>10, <2>3, <2>4, <2>5, <2>6 DEF RequestInv, n
  <1> QED  BY <1>11, <1>12

LEMMA RequestNextResponse ==
    ASSUME RequestInv, NextResponse
    PROVE  RequestInv'
  <1> DEFINE n == Len(calls)
  <1>1. /\ phase = "tools" /\ todo = <<>> /\ phase' = "answer" /\ said' = <<>> /\ response' = <<>>
        /\ request' = (IF steering = <<>> THEN request ELSE WithPrompt(request, steering))
        /\ steering' = <<>> /\ UNCHANGED <<calls, s, todo>>
    BY DEF NextResponse
  <1> HIDE DEF n
  <1>2. TurnsTalk(s.turns, n) /\ Pending(request, <<>>, s.turns, n) /\ steering \in Seq(Int)
    BY <1>1 DEF RequestInv, n
  <1>3. Pending(request', <<>>, s.turns, n)
    <2>1. CASE steering = <<>>
      BY <1>1, <1>2, <2>1
    <2>2. CASE steering # <<>>
      <3>1. Pending(WithPrompt(request, steering), <<>>, s.turns, n)
        BY <1>2, PendingPrompt
      <3> QED  BY <1>1, <2>2, <3>1
    <2> QED  BY <2>1, <2>2
  <1>4. Coming(<<>>, request', s.turns, n)
    BY ComingNone
  <1>5. <<>> \in Seq(Int)
    OBVIOUS
  <1> QED  BY <1>1, <1>2, <1>3, <1>4, <1>5 DEF RequestInv, n

LEMMA RequestCancel ==
    ASSUME TalkInv, RequestInv, Cancel
    PROVE  RequestInv'
  <1>1. phase' = "idle" /\ UNCHANGED <<calls, said, steering>>
    BY DEF Cancel
  <1>2. s.turns \in Seq(Turns)
    BY DEF TalkInv, LoopTypes, Runners
  <1>3. Continues(s.turns, s'.turns, {})
    <2>1. CASE s'.turns = s.turns
      BY <1>2, <2>1, ContinuesSame
    <2>2. ASSUME NEW t \in Turns, s'.turns = Append(s.turns, t), CutShort(t)
          PROVE  Continues(s.turns, s'.turns, {})
      BY <1>2, <2>2, ContinuesOne DEF CutShort
    <2> QED  BY <2>1, <2>2, TalkCancel
  <1>4. steering' \in Seq(Int)
    BY <1>1 DEF RequestInv
  <1> QED  BY <1>1, <1>3, <1>4, RequestEnds

LEMMA RequestFail ==
    ASSUME TalkInv, RequestInv, Fail
    PROVE  RequestInv'
  <1>1. phase' = "idle" /\ UNCHANGED <<calls, said, steering>>
    BY DEF Fail
  <1>2. s.turns \in Seq(Turns)
    BY DEF TalkInv, LoopTypes, Runners
  <1>3. Continues(s.turns, s'.turns, {})
    <2>1. PICK t \in Turns : s'.turns = Append(s.turns, t) /\ t.kind = "error"
      BY TalkFail
    <2> QED  BY <1>2, <2>1, ContinuesOne
  <1>4. steering' \in Seq(Int)
    BY <1>1 DEF RequestInv
  <1> QED  BY <1>1, <1>3, <1>4, RequestEnds

LEMMA RequestSetMode ==
    ASSUME TalkInv, RequestInv, SetMode
    PROVE  RequestInv'
  <1>1. phase = "idle" /\ UNCHANGED <<calls, phase, said, steering>>
    BY DEF SetMode
  <1>2. /\ s' \in Runners /\ Len(s'.turns) = Len(s.turns)
        /\ \A k \in DOMAIN s.turns :
              s'.turns[k].text = s.turns[k].text /\ s'.turns[k].kind = s.turns[k].kind
              /\ s'.turns[k].call = s.turns[k].call
    BY TalkSetMode
  <1>3. DOMAIN s'.turns = DOMAIN s.turns
    <2>1. s.turns \in Seq(Turns) /\ s'.turns \in Seq(Turns)
      BY <1>2 DEF TalkInv, LoopTypes, Runners
    <2> QED  BY <1>2, <2>1
  <1>4. TurnsTalk(s'.turns, Len(calls))
    BY <1>2, <1>3 DEF RequestInv, TurnsTalk
  <1> QED  BY <1>1, <1>4 DEF RequestInv

LEMMA RequestNext == LoopAssumption /\ TalkInv /\ RequestInv /\ LoopNext => RequestInv'
  <1> SUFFICES ASSUME LoopAssumption, TalkInv, RequestInv, LoopNext PROVE RequestInv'
    OBVIOUS
  <1>1. words \in Nat /\ queue \in Seq(Int) /\ s.turns \in Seq(Turns)
    BY DEF TalkInv, LoopTypes, Runners
  <1>2. words + 1 \in Int /\ <<words + 1>> \in Seq(Int) /\ Blank \in Int
    BY <1>1 DEF Blank
  <1>3. CASE Ask
    <2> DEFINE prompt == <<words + 1>>
    <2>1. Submit(prompt) /\ calls' = calls /\ prompt \in Seq(Int)
      BY <1>2, <1>3 DEF Ask
    <2> HIDE DEF prompt
    <2> QED  BY <2>1, RequestSubmit
  <1>4. CASE AskQueued
    <2>1. Submit(queue) /\ calls' = calls
      BY <1>4 DEF AskQueued
    <2> QED  BY <1>1, <2>1, RequestSubmit
  <1>5. CASE QueueMessage
    <2>1. UNCHANGED <<calls, phase, s, said, response, todo, steering, request>>
      BY <1>5 DEF QueueMessage
    <2> QED  BY <2>1 DEF RequestInv
  <1>6. CASE SetMode
    BY <1>6, RequestSetMode
  <1>7. CASE StreamWord
    <2>1. PICK kind \in Speech : Piece(kind, words + 1)
      BY <1>7 DEF StreamWord, Speech
    <2> QED  BY <1>2, <2>1, RequestPiece
  <1>8. CASE StreamBlank
    <2>1. PICK kind \in Speech : Piece(kind, Blank)
      BY <1>8 DEF StreamBlank, Speech
    <2> QED  BY <1>2, <2>1, RequestPiece
  <1>9. CASE StartCall
    BY <1>9, RequestStartCall
  <1>10. CASE EndWithCalls
    BY <1>10, RequestEndWithCalls
  <1>11. CASE EmbeddedCalls
    BY <1>11, RequestEmbeddedCalls
  <1>12. CASE Finish
    BY <1>12, RequestFinish
  <1>13. CASE Execute
    BY <1>13, RequestExecute
  <1>14. CASE NextResponse
    BY <1>14, RequestNextResponse
  <1>15. CASE Cancel
    BY <1>15, RequestCancel
  <1>16. CASE Fail
    BY <1>16, RequestFail
  <1> QED  BY <1>3, <1>4, <1>5, <1>6, <1>7, <1>8, <1>9, <1>10, <1>11, <1>12, <1>13, <1>14, <1>15, <1>16
           DEF LoopNext

LEMMA RequestAlways == LoopSpec => []RequestInv
  <1>1. RequestInv /\ UNCHANGED loopVars => RequestInv'
    BY DEF loopVars, RequestInv
  <1> QED  BY <1>1, LoopAssumption, RequestInit, RequestNext, TalkAlways, PTL DEF LoopSpec

LEMMA RequestProtocol == ASSUME RequestInv PROVE ToolProtocol
  <1> SUFFICES ASSUME phase = "answer" PROVE ToolProtocol
    BY DEF ToolProtocol
  <1>1. Protocol(request) /\ RequestTold(request, s.turns) /\ request \in Seq(Messages)
    <2>1. /\ request \in Seq(Messages) /\ Protocol(request \o Due(<<>>))
          /\ RequestTold(request, s.turns)
      BY DEF RequestInv, Pending
    <2>2. request \o Due(<<>>) = request
      BY <2>1, NoneDue
    <2> QED  BY <2>1, <2>2
  <1>2. \A k \in DOMAIN request : \A n \in DOMAIN request[k].calls :
           /\ k + n \in DOMAIN request
           /\ request[k + n].role = "tool" /\ request[k + n].answers = request[k].calls[n]
    BY <1>1 DEF Protocol, AnswersFollow
  <1>3. \A k \in DOMAIN request : request[k].role = "tool" =>
           \E b \in 1 .. k - 1 : request[k].answers \in ToSet(request[b].calls)
    BY <1>1 DEF Protocol, CallsPrecede, ToSet
  <1>4. IsInjective([k \in {b \in DOMAIN request : request[b].role = "tool"} |-> request[k].answers])
    <2> DEFINE at == {b \in DOMAIN request : request[b].role = "tool"}
               f == [k \in at |-> request[k].answers]
    <2>1. \A j \in at, k \in at : request[j].answers = request[k].answers => j = k
      BY <1>1 DEF Protocol, AnswersOnce
    <2>2. DOMAIN f = at /\ \A k \in at : f[k] = request[k].answers
      OBVIOUS
    <2> HIDE DEF f, at
    <2>3. IsInjective(f)
      BY <2>1, <2>2 DEF IsInjective
    <2> QED  BY <2>3 DEF f, at
  <1>5. ASSUME NEW m \in ToSet(request), NEW t \in ToSet(s.turns), m.role = "tool", t.kind = "result",
               t.mode # "drop", t.call = m.answers
        PROVE  m.text = <<>>
    <2>1. PICK k \in DOMAIN request : m = request[k]
      BY DEF ToSet
    <2>2. PICK j \in DOMAIN s.turns : t = s.turns[j]
      BY DEF ToSet
    <2> QED  BY <1>1, <1>5, <2>1, <2>2 DEF RequestTold
  <1> QED  BY <1>2, <1>3, <1>4, <1>5 DEF ToolProtocol

(* In every request a message with tool calls is followed by one answer to  *)
(* each, in their order, no other answer is sent, and what a tool answered  *)
(* is what is sent while its turn is in the context, whatever was stopped,  *)
(* dropped or summarised before (build_messages, _reorder_tool_messages).   *)
THEOREM ToolProtocolCorrect == LoopSpec => []ToolProtocol
  <1>1. RequestInv => ToolProtocol
    BY RequestProtocol
  <1> QED  BY <1>1, RequestAlways, PTL

=============================================================================
