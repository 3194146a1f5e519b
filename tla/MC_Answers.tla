----------------------------- MODULE MC_Answers -----------------------------
(* How an answer is made, how it reaches those who look on, and what a fork  *)
(* takes over of answers and questions.  A behaviour is one of one of them;  *)
(* the others stay as they began.                                            *)
EXTENDS ToolLoop, EventFeed, ForkContext

VARIABLE focus

MCInit ==
    /\ focus \in {"loop", "feed", "forks"}
    /\ LoopInit /\ FeedInit /\ ForkInit
    /\ focus # "loop" => happens = CHOOSE h \in Happens : TRUE
    /\ focus # "feed" => feed = CHOOSE f \in Feeds : TRUE
    /\ focus # "forks" => ways = CHOOSE w \in Sayings : TRUE

MCNext ==
    \/ focus = "loop" /\ LoopNext /\ UNCHANGED <<focus, feedVars, forkVars>>
    \/ focus = "feed" /\ FeedNext /\ UNCHANGED <<focus, loopVars, forkVars>>
    \/ focus = "forks" /\ ForkNext /\ UNCHANGED <<focus, loopVars, feedVars>>

MCSpec == MCInit /\ [][MCNext]_<<focus, loopVars, feedVars, forkVars>>
=============================================================================
