----------------------------- MODULE MC_Services -----------------------------
(* Three services apart from the sessions: processes and their configuration, *)
(* language servers, browsers.  A behaviour is one of one of them; the others *)
(* stay as they began.                                                        *)
EXTENDS Supervisor, LanguageServers, Browsers

VARIABLE focus

MCInit ==
    /\ focus \in {"processes", "languages", "browsers"}
    /\ SupervisorInit /\ LanguageInit /\ BrowsersInit
    /\ focus # "processes" => chore = (CHOOSE c \in Chores : TRUE) /\ ~file.there
    /\ focus # "languages" => demand = CHOOSE d \in Demands : TRUE
    /\ focus # "browsers" => habit = CHOOSE h \in Habits : TRUE

MCNext ==
    \/ focus = "processes" /\ SupervisorNext /\ UNCHANGED <<focus, languageVars, browserVars>>
    \/ focus = "languages" /\ LanguageNext /\ UNCHANGED <<focus, supervisorVars, browserVars>>
    \/ focus = "browsers" /\ BrowsersNext /\ UNCHANGED <<focus, supervisorVars, languageVars>>

MCSpec ==
    /\ MCInit /\ [][MCNext]_<<focus, supervisorVars, languageVars, browserVars>>
    /\ WF_supervisorVars(Runs)
    /\ \A u \in Users : WF_languageVars(UserProceeds(u))
    /\ \A p \in Pids : WF_languageVars(Reads(p))
    /\ WF_browserVars(Serves)
=============================================================================
