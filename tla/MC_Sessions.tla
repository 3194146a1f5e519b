----------------------------- MODULE MC_Sessions -----------------------------
(* Four components that act on sessions apart from each other: how sessions *)
(* relate, how the turns of one are edited, what is stored of them, how a   *)
(* helper runs.  A behaviour is one of one of them; the others stay as they *)
(* began.                                                                   *)
EXTENDS SessionFamily, TurnEditing, HelperRuns, BlockCodec

VARIABLE focus

OneOf(S) == CHOOSE x \in S : TRUE

MCInit ==
    /\ focus \in {"family", "editing", "blocks", "helper"}
    /\ FamilyInit /\ EditInit /\ CodecInit /\ HelperInit
    /\ focus # "family" => occasion = OneOf(Occasions) /\ live[OneOf(Roots)] \in {0, 1}
    /\ focus # "editing" => plan = OneOf(Plans)
    /\ focus # "helper" => automatic = OneOf(Automatic)

MCNext ==
    \/ focus = "family" /\ FamilyNext /\ UNCHANGED <<focus, editVars, codecVars, helperVars>>
    \/ focus = "editing" /\ EditNext /\ UNCHANGED <<focus, familyVars, codecVars, helperVars>>
    \/ focus = "blocks" /\ CodecNext /\ UNCHANGED <<focus, familyVars, editVars, helperVars>>
    \/ focus = "helper" /\ HelperNext /\ UNCHANGED <<focus, familyVars, editVars, codecVars>>

MCSpec == MCInit /\ [][MCNext]_<<focus, familyVars, editVars, codecVars, helperVars>>

(* Callers and roots are alike.                                             *)
Alike == Permutations(Callers) \cup Permutations(Roots)
=============================================================================
