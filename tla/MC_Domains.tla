----------------------------- MODULE MC_Domains -----------------------------
(* The host of the domain plugins and four kinds of domains.  A behaviour is *)
(* one of one of them; the others stay as they began, in a way that does not *)
(* matter then.  Charts are checked without overlapping calls, about which   *)
(* none of the properties says anything of them.                             *)
EXTENDS PluginHost, Kanban, Chess, Documents, Grocery

(* Positions: few pieces, about to castle, to pass a pawn, to promote, to    *)
(* uncover a check, to mate, to take the last piece but one, to have moved   *)
(* to and fro for long.                                                      *)
MCOpenings ==
    LET kings == {<< <<4, 0>>, "white", "king">>, << <<4, 7>>, "black", "king">>}
    IN  {Position(kings \cup {<< <<7, 0>>, "white", "rook">>,
             << <<0, 0>>, "white", "rook">>, << <<6, 2>>, "black", "knight">>},
             "black", {<<"white", "K">>, <<"white", "Q">>}, 0),
         Position(kings \cup {<< <<3, 1>>, "white", "pawn">>,
             << <<2, 3>>, "black", "pawn">>, << <<4, 3>>, "black", "pawn">>},
             "white", {}, 0),
         Position(kings \cup {<< <<1, 6>>, "white", "pawn">>,
             << <<0, 7>>, "black", "rook">>, << <<6, 1>>, "black", "pawn">>},
             "white", {}, 0),
         Position(kings \cup {<< <<4, 3>>, "white", "bishop">>,
             << <<4, 5>>, "black", "rook">>, << <<0, 3>>, "black", "queen">>},
             "white", {}, 0),
         Position({<< <<5, 5>>, "white", "king">>,
             << <<0, 6>>, "white", "queen">>, << <<5, 7>>, "black", "king">>},
             "white", {}, 0),
         Position({<< <<3, 3>>, "white", "king">>, << <<4, 4>>, "black", "knight">>,
             << <<0, 0>>, "black", "bishop">>, << <<7, 7>>, "black", "king">>},
             "white", {}, 0),
         Position(kings \cup {<< <<0, 0>>, "white", "rook">>},
             "white", {<<"white", "Q">>}, DrawnAfter - 2)}

VARIABLE focus

MCInit ==
    /\ focus \in {"host", "kanban", "chess", "documents", "grocery"}
    /\ HostInit /\ KanbanInit /\ ChessInit /\ DocInit /\ GroceryInit
    /\ focus # "host" => catalog = CHOOSE c \in Catalogs : TRUE
    /\ focus # "kanban" => kanbanWay = CHOOSE w \in KanbanWays : TRUE
    /\ focus # "documents" => /\ docWay = CHOOSE w \in DocumentWays : TRUE
                              /\ shelf = CHOOSE s \in Shelves : TRUE
    /\ focus # "grocery" => groceryWay = CHOOSE w \in GroceryWays : TRUE
    /\ focus = "documents" /\ shelf = "charts" => docWay \cap {"overlap", "early"} = {}

MCNext ==
    \/ focus = "host" /\ HostNext /\ UNCHANGED <<focus, kanbanVars, chessVars, docVars, groceryVars>>
    \/ focus = "kanban" /\ KanbanNext /\ UNCHANGED <<focus, hostVars, chessVars, docVars, groceryVars>>
    \/ focus = "chess" /\ ChessNext /\ UNCHANGED <<focus, hostVars, kanbanVars, docVars, groceryVars>>
    \/ focus = "documents" /\ DocNext /\ UNCHANGED <<focus, hostVars, kanbanVars, chessVars, groceryVars>>
    \/ focus = "grocery" /\ GroceryNext /\ UNCHANGED <<focus, hostVars, kanbanVars, chessVars, docVars>>

MCSpec ==
    MCInit /\ [][MCNext]_<<focus, hostVars, kanbanVars, chessVars, docVars, groceryVars>>
=============================================================================
