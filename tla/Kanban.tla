------------------------------- MODULE Kanban -------------------------------
(* The kanban domain (plugins/kanban): boards of columns of tasks, kept in   *)
(* memory and in one file each, and the links that say which session uses    *)
(* which board.  The files are those of JsonFileStorage (plugins/storage.py).*)
(*                                                                           *)
(* A call of a tool loads every file first, unless that was done before, and *)
(* awaits each of them; what it then does to the memory is one step, for     *)
(* nothing is awaited in it; then it writes.  A write opens the file, which  *)
(* empties it, and puts the content in afterwards.  Names, descriptions and  *)
(* times are left out: a task is the number of its edits.                    *)
(***************************************************************************)
EXTENDS Integers, Sequences, SequencesExt, FiniteSets, Lists

CONSTANTS
    Users,          \* sessions, each with one call at a time
    ColumnCount,    \* columns of a new board
    MaxBoards,      \* bound: boards made
    MaxTasks,       \* bound: tasks made
    MaxLinks,       \* bound: links made
    MaxEdits,       \* bound: edits of a task
    KanbanWays      \* what happens in a behaviour: sets of "boards", "edit",
                    \* "wrong" (an edit with a priority there is none of),
                    \* "columns", "links", "early" (calls overlap before the files
                    \* are loaded), "overlap" (they do afterwards), "crash"

VARIABLES
    kanbanWay,      \* which of KanbanWays this behaviour is
    boards,         \* self._boards
    links,          \* self._associations
    boardsLoaded,   \* self._boards_loaded
    boardFiles,     \* the boards' files
    linkFiles,      \* the associations' files
    calls,          \* the call of each user
    tasks           \* ghost: the tasks made, answered for and deleted

kanbanVars == <<kanbanWay, boards, links, boardsLoaded, boardFiles, linkFiles, calls, tasks>>

ASSUME KanbanAssumption ==
    /\ ColumnCount \in Nat \ {0} /\ MaxBoards \in Nat /\ MaxTasks \in Nat
    /\ MaxLinks \in Nat /\ MaxEdits \in Nat

-----------------------------------------------------------------------------
(* Boards (models.py)                                                        *)

EmptyBoard ==
    [columns |-> [i \in 1..ColumnCount |-> [id |-> i, tasks |-> <<>>]], tasks |-> <<>>]

Without(f, x) == [y \in DOMAIN f \ {x} |-> f[y]]

(* A file is empty from its opening until it is written.                     *)
EmptyFile == [whole |-> FALSE, board |-> EmptyBoard]
Idle == [at |-> "idle", op |-> "read", left |-> {}, writes |-> <<>>, made |-> {}]
Loading(op, left) == [at |-> "boards", op |-> op, left |-> left, writes |-> <<>>, made |-> {}]
Writing(op, writes, made) ==
    [at |-> "write", op |-> op, left |-> {}, writes |-> writes, made |-> made]

(* A server that has started with a board that every user is linked to.      *)
KanbanInit ==
    /\ kanbanWay \in KanbanWays
    /\ boards = <<>> /\ links = <<>> /\ boardsLoaded = FALSE
    /\ boardFiles = <<[whole |-> TRUE, board |-> EmptyBoard]>>
    /\ LET order == SetToSeq(Users)
       IN  linkFiles = [i \in DOMAIN order |-> [user |-> order[i], board |-> 1]]
    /\ calls = [u \in Users |-> Idle]
    /\ tasks = [on |-> <<>>, answered |-> {}, deleted |-> {}, boards |-> 1,
                links |-> Cardinality(Users)]

-----------------------------------------------------------------------------
(* What the tools do to the memory: the ways op may end for user u when the  *)
(* boards are bs and the links ls.  "writes" is what is saved afterwards.    *)

Mine(u, ls, bs) == {ls[l].board : l \in {k \in DOMAIN ls : ls[k].user = u}} \cap DOMAIN bs

Ending(bs, ls, writes, task, gone) ==
    [boards |-> bs, links |-> ls, writes |-> writes, task |-> task, gone |-> gone]
Same(bs, ls) == Ending(bs, ls, <<>>, <<>>, {})

BoardWrite(b, board) == [file |-> "board", key |-> b, board |-> board, to |-> 0]
LinkWrite(file, key, to) == [file |-> file, key |-> key, board |-> EmptyBoard, to |-> to]

Changed(bs, ls, b, board, task, gone) ==
    Ending(Entered(bs, b, board), ls, <<BoardWrite(b, board)>>, task, gone)
Edited(bs, ls, b, board) == Changed(bs, ls, b, board, <<>>, {})

(* kanban_create_board: the link is made when the board has been written.    *)
BoardCreate(u, bs, ls) ==
    IF tasks.boards = MaxBoards THEN {}
    ELSE LET b == tasks.boards + 1
         IN  {Ending(Entered(bs, b, EmptyBoard), ls,
                  <<BoardWrite(b, EmptyBoard), LinkWrite("associate", b, 0)>>, <<>>, {})}

(* The columns with another list of tasks in the i-th.                       *)
Listing(columns, i, list) == [columns EXCEPT ![i] = [id |-> @.id, tasks |-> list]]

TaskAdded(board, i, t) ==
    [columns |-> Listing(board.columns, i, Append(board.columns[i].tasks, t)),
     tasks |-> Entered(board.tasks, t, 0)]

(* kanban_create_task: on any board that is named, in any column.            *)
TaskCreate(u, bs, ls) ==
    IF Len(tasks.on) = MaxTasks THEN {}
    ELSE UNION {{Changed(bs, ls, b, TaskAdded(bs[b], i, Len(tasks.on) + 1), <<b>>, {}) :
                 i \in DOMAIN bs[b].columns} : b \in DOMAIN bs}

TasksOf(u, bs, ls) ==
    UNION {{<<b, t>> : t \in DOMAIN bs[b].tasks} : b \in Mine(u, ls, bs)}

TaskEdited(board, t) ==
    [columns |-> board.columns, tasks |-> [board.tasks EXCEPT ![t] = @ + 1]]

(* kanban_update_task: the title is changed before the priority is checked.  *)
TaskUpdate(u, bs, ls, right) ==
    {LET board == TaskEdited(bs[p[1]], p[2])
     IN  IF right THEN Edited(bs, ls, p[1], board) ELSE Same(Entered(bs, p[1], board), ls) :
        p \in {q \in TasksOf(u, bs, ls) : bs[q[1]].tasks[q[2]] < MaxEdits}}

(* Mutant of TakenOut: only the first column is looked at.                   *)
TakenOut_First(columns, t) ==
    [i \in DOMAIN columns |->
        IF i = 1 THEN [columns[i] EXCEPT !.tasks = Kept(@, Nat \ {t})] ELSE columns[i]]

TakenOut(columns, t) ==
    [i \in DOMAIN columns |-> [columns[i] EXCEPT !.tasks = Kept(@, Nat \ {t})]]

TaskMoved(board, t, j, place) ==
    LET out == TakenOut(board.columns, t)
    IN  [columns |-> Listing(out, j, InsertAt(out[j].tasks, place, t)), tasks |-> board.tasks]

(* Mutant of TaskMove: the board is not saved.                               *)
TaskMove_Unsaved(u, bs, ls) ==
    UNION {{Same(Entered(bs, p[1], TaskMoved(bs[p[1]], p[2], i, 1)), ls) :
            i \in DOMAIN bs[p[1]].columns} : p \in TasksOf(u, bs, ls)}

(* kanban_move_task: out of its column, into another at some place.          *)
TaskMove(u, bs, ls) ==
    UNION {{Edited(bs, ls, p[1], TaskMoved(bs[p[1]], p[2], q[1], q[2])) :
            q \in {q \in (DOMAIN bs[p[1]].columns) \X (1..MaxTasks) :
                      q[2] <= Len(TakenOut(bs[p[1]].columns, p[2])[q[1]].tasks) + 1}} :
           p \in TasksOf(u, bs, ls)}

TaskDropped(board, t) ==
    [columns |-> TakenOut(board.columns, t), tasks |-> Without(board.tasks, t)]

(* kanban_delete_task                                                        *)
TaskDelete(u, bs, ls) ==
    {Changed(bs, ls, p[1], TaskDropped(bs[p[1]], p[2]), <<>>, {p[2]}) : p \in TasksOf(u, bs, ls)}

ColumnDropped(board, i, j) ==
    LET columns == board.columns
        to == IF j = 0 \/ j = i THEN columns
              ELSE Listing(columns, j, columns[j].tasks \o columns[i].tasks)
    IN  [columns |-> RemoveAt(to, i), tasks |-> board.tasks]

(* kanban_delete_column: its tasks go to another column, or to none (to the  *)
(* column itself, which is then removed).                                    *)
ColumnDelete(u, bs, ls) ==
    UNION {{Edited(bs, ls, p[1], ColumnDropped(bs[p[1]], p[2], j)) :
            j \in 0..Len(bs[p[1]].columns)} :
           p \in {p \in Mine(u, ls, bs) \X (1..ColumnCount) : p[2] \in DOMAIN bs[p[1]].columns}}

(* kanban_link_board, unless it is linked already.                           *)
BoardLink(u, bs, ls) ==
    IF tasks.links = MaxLinks THEN {}
    ELSE {LET l == [user |-> u, board |-> b]
          IN  Ending(bs, Entered(ls, tasks.links + 1, l),
                  <<LinkWrite("link", tasks.links + 1, b)>>, <<>>, {}) :
          b \in DOMAIN bs \ Mine(u, ls, bs)}

(* kanban_unlink_board: the file is removed at once.                         *)
BoardUnlink(u, bs, ls) ==
    {Ending(bs, Without(ls, l), <<LinkWrite("unlink", l, ls[l].board)>>, <<>>, {}) :
     l \in {l \in DOMAIN ls : ls[l].user = u /\ ls[l].board \in DOMAIN bs}}

(* Tools that only read, and tools that find nothing to do.                  *)
Reads == {"read"}

Outcomes(op, u, bs, ls) ==
    LET of == CASE op = "board" -> BoardCreate(u, bs, ls)
                [] op = "task" -> TaskCreate(u, bs, ls)
                [] op = "update" -> TaskUpdate(u, bs, ls, TRUE)
                [] op = "misupdate" -> TaskUpdate(u, bs, ls, FALSE)
                [] op = "move" -> TaskMove(u, bs, ls)
                [] op = "delete" -> TaskDelete(u, bs, ls)
                [] op = "column" -> ColumnDelete(u, bs, ls)
                [] op = "link" -> BoardLink(u, bs, ls)
                [] op = "unlink" -> BoardUnlink(u, bs, ls)
                [] OTHER -> {}
    IN  IF of = {} THEN {Same(bs, ls)} ELSE of

Ops == Reads \cup {"task", "move", "delete"}
       \cup (IF "boards" \in kanbanWay THEN {"board"} ELSE {})
       \cup (IF "edit" \in kanbanWay THEN {"update"} ELSE {})
       \cup (IF "wrong" \in kanbanWay THEN {"misupdate"} ELSE {})
       \cup (IF "columns" \in kanbanWay THEN {"column"} ELSE {})
       \cup (IF "links" \in kanbanWay THEN {"link", "unlink"} ELSE {})

-----------------------------------------------------------------------------
(* Calls                                                                     *)

OtherUsers(u) == Users \ {u}
Resting == \A u \in Users : calls[u].at = "idle"

(* The links whose files a tool removes, and the call after the tool.        *)
Unlinked(o) ==
    {o.writes[i].key : i \in {j \in DOMAIN o.writes : o.writes[j].file = "unlink"}}
GoesOn(op, o) ==
    IF o.writes = <<>> \/ Unlinked(o) # {} THEN Idle
    ELSE Writing(op, o.writes, IF o.task = <<>> THEN {} ELSE {Len(tasks.on) + 1})

(* What the call does once everything is loaded, with boards bs and links ls.*)
Perform(u, op, bs, ls) ==
    \E o \in Outcomes(op, u, bs, ls) :
        /\ boards' = o.boards /\ links' = o.links /\ boardsLoaded' = TRUE
        /\ linkFiles' = [l \in DOMAIN linkFiles \ Unlinked(o) |-> linkFiles[l]]
        /\ calls' = [calls EXCEPT ![u] = GoesOn(op, o)]
        /\ tasks' = [tasks EXCEPT !.on = @ \o o.task, !.deleted = @ \cup o.gone,
               !.boards = @ + Cardinality(DOMAIN o.boards \ DOMAIN bs),
               !.links = @ + Cardinality(DOMAIN o.links \ DOMAIN ls)]
        /\ UNCHANGED <<kanbanWay, boardFiles>>

(* A tool is called.                                                         *)
CallTool(u, op) ==
    /\ calls[u].at = "idle"
    /\ \/ \A v \in OtherUsers(u) : calls[v].at = "idle"
       \/ "overlap" \in kanbanWay /\ boardsLoaded
       \/ "early" \in kanbanWay
    /\ IF boardsLoaded THEN Perform(u, op, boards, links)
       ELSE /\ calls' = [calls EXCEPT ![u] = Loading(op, DOMAIN boardFiles)]
            /\ UNCHANGED <<kanbanWay, boards, links, boardsLoaded, boardFiles, linkFiles, tasks>>

(* Mutant of LoadBoard: all is taken for loaded with the first file.         *)
LoadBoard_First(u) ==
    /\ calls[u].at = "boards"
    /\ \E b \in calls[u].left :
           LET bs == IF boardFiles[b].whole THEN Entered(boards, b, boardFiles[b].board)
                     ELSE boards
           IN  Perform(u, calls[u].op, bs, links)

(* _load_all_data: the next board; a file that cannot be read is passed over.*)
LoadBoard(u) ==
    /\ calls[u].at = "boards"
    /\ \E b \in calls[u].left :
           LET bs == IF boardFiles[b].whole THEN Entered(boards, b, boardFiles[b].board)
                     ELSE boards
               left == calls[u].left \ {b}
           IN  IF left = {} /\ linkFiles = <<>> THEN Perform(u, calls[u].op, bs, links)
               ELSE /\ boards' = bs
                    /\ calls' = [calls EXCEPT ![u] =
                           IF left = {} THEN [@ EXCEPT !.at = "links", !.left = DOMAIN linkFiles]
                           ELSE [@ EXCEPT !.left = left]]
                    /\ UNCHANGED <<kanbanWay, links, boardsLoaded, boardFiles, linkFiles, tasks>>

LoadLink(u) ==
    /\ calls[u].at = "links"
    /\ \E l \in calls[u].left :
           LET ls == IF l \in DOMAIN linkFiles THEN Entered(links, l, linkFiles[l]) ELSE links
               left == calls[u].left \ {l}
           IN  IF left = {} THEN Perform(u, calls[u].op, boards, ls)
               ELSE /\ links' = ls
                    /\ calls' = [calls EXCEPT ![u].left = left]
                    /\ UNCHANGED <<kanbanWay, boards, boardsLoaded, boardFiles, linkFiles, tasks>>

(* The call has written the first of what it has to write.                   *)
Written(u) ==
    LET rest == Tail(calls[u].writes)
    IN  /\ calls' = [calls EXCEPT ![u] = IF rest = <<>> THEN Idle
                                          ELSE [@ EXCEPT !.at = "write", !.writes = rest]]
        /\ tasks' = [tasks EXCEPT !.answered = IF rest = <<>> THEN @ \cup calls[u].made ELSE @]

(* JsonFileStorage.save: the file is opened.                                 *)
OpenBoard(u) ==
    /\ calls[u].at = "write" /\ Head(calls[u].writes).file = "board"
    /\ LET b == Head(calls[u].writes).key
       IN  boardFiles' = Entered(boardFiles, b, EmptyFile)
    /\ calls' = [calls EXCEPT ![u].at = "put"]
    /\ UNCHANGED <<kanbanWay, boards, links, boardsLoaded, linkFiles, tasks>>

(* It is written, from its beginning; when another call has written more in  *)
(* between, the rest of that stays behind.                                   *)
PutBoard(u) ==
    /\ calls[u].at = "put"
    /\ LET w == Head(calls[u].writes)
       IN  \E file \in {[whole |-> TRUE, board |-> w.board]}
                       \cup (IF boardFiles[w.key].whole THEN {EmptyFile} ELSE {}) :
              boardFiles' = [boardFiles EXCEPT ![w.key] = file]
    /\ Written(u)
    /\ UNCHANGED <<kanbanWay, boards, links, boardsLoaded, linkFiles>>

(* kanban_create_board goes on: the new board is linked to the session.      *)
Associate(u) ==
    /\ calls[u].at = "write" /\ Head(calls[u].writes).file = "associate"
    /\ tasks.links < MaxLinks
    /\ LET l == tasks.links + 1
       IN  /\ links' = Entered(links, l, [user |-> u, board |-> Head(calls[u].writes).key])
           /\ calls' = [calls EXCEPT ![u].writes =
                  <<LinkWrite("link", l, Head(calls[u].writes).key)>>]
           /\ tasks' = [tasks EXCEPT !.links = l]
    /\ UNCHANGED <<kanbanWay, boards, boardsLoaded, boardFiles, linkFiles>>

(* _save_association, whose content does not depend on what happens since.   *)
PutLink(u) ==
    /\ calls[u].at = "write" /\ Head(calls[u].writes).file = "link"
    /\ LET l == Head(calls[u].writes).key
       IN  linkFiles' = Entered(linkFiles, l, [user |-> u, board |-> Head(calls[u].writes).to])
    /\ Written(u)
    /\ UNCHANGED <<kanbanWay, boards, links, boardsLoaded, boardFiles>>

(* The server stops and starts; it may only stop while nothing is called     *)
(* unless this behaviour has crashes.                                        *)
RestartKanban ==
    /\ Resting \/ "crash" \in kanbanWay
    /\ boardsLoaded \/ ~Resting
    /\ boards' = <<>> /\ links' = <<>> /\ boardsLoaded' = FALSE
    /\ calls' = [u \in Users |-> Idle]
    /\ UNCHANGED <<kanbanWay, boardFiles, linkFiles, tasks>>

KanbanNext ==
    \/ \E u \in Users :
          \/ \E op \in Ops : CallTool(u, op)
          \/ LoadBoard(u) \/ LoadLink(u)
          \/ OpenBoard(u) \/ PutBoard(u) \/ Associate(u) \/ PutLink(u)
    \/ RestartKanban

KanbanSpec == KanbanInit /\ [][KanbanNext]_kanbanVars

-----------------------------------------------------------------------------
(* Properties                                                                *)

Patient == kanbanWay \cap {"early", "overlap"} = {}

KanbanTypeOK ==
    /\ DOMAIN boards \subseteq 1..MaxBoards /\ DOMAIN links \subseteq 1..MaxLinks
    /\ \A u \in Users : calls[u].at \in {"idle", "boards", "links", "write", "put"}
    /\ \A u \in Users : calls[u].at = "put" => Head(calls[u].writes).key \in DOMAIN boardFiles
    /\ tasks.answered \cup tasks.deleted \subseteq DOMAIN tasks.on

(* A board shows no task twice and none that is gone, in memory and in its   *)
(* file, whatever overlaps, crashes and is loaded again.                     *)
At(board, i, k) == board.columns[i].tasks[k]
Sound(board) ==
    \A i, j \in DOMAIN board.columns :
        \A k \in DOMAIN board.columns[i].tasks, l \in DOMAIN board.columns[j].tasks :
            /\ At(board, i, k) \in DOMAIN board.tasks
            /\ At(board, i, k) = At(board, j, l) => i = j /\ k = l
BoardsSound ==
    /\ \A b \in DOMAIN boards : Sound(boards[b])
    /\ \A b \in DOMAIN boardFiles : boardFiles[b].whole => Sound(boardFiles[b].board)

(* When calls do not overlap, a task the user was told of is in memory and   *)
(* in its board's file until it is deleted, and a crash loses it only with   *)
(* the whole board, when that was being written.                             *)
TasksSurvive ==
    Patient => \A t \in tasks.answered \ tasks.deleted :
        LET b == tasks.on[t]
        IN  boardFiles[b].whole =>
                /\ t \in DOMAIN boardFiles[b].board.tasks \/ ~Resting
                /\ boardsLoaded => b \in DOMAIN boards /\ t \in DOMAIN boards[b].tasks

(* Once everything is loaded, no overlapping of calls takes a task from      *)
(* memory, but for deleting it.                                              *)
InMemory == UNION {DOMAIN boards[b].tasks : b \in DOMAIN boards}
TasksStay ==
    [][boardsLoaded /\ boardsLoaded' /\ "early" \notin kanbanWay =>
           InMemory \subseteq InMemory' \cup tasks'.deleted]_kanbanVars

(* "Boards are auto-saved on each operation" (domain.py:1107): at rest, the  *)
(* files have what is in memory.                                             *)
AutoSaved ==
    Resting /\ boardsLoaded => \A b \in DOMAIN boards :
        boardFiles[b] = [whole |-> TRUE, board |-> boards[b]]

(* So it is when calls do not overlap and edits are right.                   *)
AutoSavedInTurn == kanbanWay \cap {"early", "overlap", "wrong"} = {} => AutoSaved

(* Boards, in memory and in their files, are sound and keep the tasks the    *)
(* user was told of.                                                         *)
TasksKept == BoardsSound /\ TasksSurvive /\ AutoSavedInTurn
=============================================================================
