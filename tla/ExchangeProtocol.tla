-------------------------- MODULE ExchangeProtocol --------------------------
(***************************************************************************)
(* What the session service promises its clients about exchanges, without  *)
(* runner, pump, contexts or queues: exchanges open one after the other,   *)
(* each comes to one end, and the client is told that end once, before the *)
(* next exchange opens.                                                    *)
(***************************************************************************)
EXTENDS Sequences

CONSTANT Exchanges

VARIABLES
    opened,     \* exchanges whose stream was announced
    fate,       \* how each of them ended, as far as that is decided
    answer      \* the terminal notifications sent for each

protocolVars == <<opened, fate, answer>>

Outcome == {"done", "error", "cancelled"}

-----------------------------------------------------------------------------

Init ==
    /\ opened = {}
    /\ fate = [e \in Exchanges |-> "undecided"]
    /\ answer = [e \in Exchanges |-> <<>>]

Open(e) ==
    /\ e \notin opened
    /\ \A o \in opened : answer[o] # <<>>
    /\ opened' = opened \cup {e}
    /\ UNCHANGED <<fate, answer>>

Decide(e) ==
    /\ e \in opened
    /\ fate[e] = "undecided"
    /\ \E o \in Outcome : fate' = [fate EXCEPT ![e] = o]
    /\ UNCHANGED <<opened, answer>>

Tell(e) ==
    /\ fate[e] # "undecided"
    /\ answer[e] = <<>>
    /\ answer' = [answer EXCEPT ![e] = <<fate[e]>>]
    /\ UNCHANGED <<opened, fate>>

Next == \E e \in Exchanges : Open(e) \/ Decide(e) \/ Tell(e)

(* The service owes an end and its notification, not new exchanges.         *)
Spec ==
    /\ Init
    /\ [][Next]_protocolVars
    /\ \A e \in Exchanges : e \in opened ~> answer[e] # <<>>

=============================================================================
