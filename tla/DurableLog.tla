------------------------------ MODULE DurableLog ------------------------------
(***************************************************************************)
(* What saving promises while a session only grows: a conversation in      *)
(* memory of which a beginning is on disk.  What is on disk only gets      *)
(* longer, and a crash costs no more than what was not there yet.          *)
(***************************************************************************)
EXTENDS Integers, Sequences

CONSTANT Turns

VARIABLES
    conversation,   \* the turns in memory
    saved           \* how many of them are on disk

logVars == <<conversation, saved>>

Init ==
    /\ conversation \in Seq(Turns)
    /\ saved = Len(conversation)

Say(t) ==
    /\ conversation' = Append(conversation, t)
    /\ UNCHANGED saved

Persist ==
    /\ saved' \in saved + 1 .. Len(conversation)
    /\ UNCHANGED conversation

Crash ==
    /\ conversation' = SubSeq(conversation, 1, saved)
    /\ UNCHANGED saved

Next == (\E t \in Turns : Say(t)) \/ Persist \/ Crash

Spec == Init /\ [][Next]_logVars

==============================================================================
