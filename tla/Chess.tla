------------------------------- MODULE Chess --------------------------------
(* The chess domain (plugins/chess): the engine, which generates moves and   *)
(* knows whether a king is attacked by two definitions apart from each       *)
(* other, and the game of a session that the tools play with it.             *)
(*                                                                           *)
(* A square is <<file, rank>>, both from 0; a board maps the squares that    *)
(* are taken to pieces.  The text of positions and moves is left out.        *)
(***************************************************************************)
EXTENDS Integers, Sequences, FiniteSets, Lists

CONSTANTS
    Openings,       \* positions that users set
    MaxPlies,       \* bound: moves in a behaviour
    DrawnAfter      \* moves without a capture or a pawn's move, then it is a draw

VARIABLES
    game,           \* the engine's state
    playing,        \* whether the session is in _session_games
    plies,          \* moves made
    announced       \* ghost: chess_game_over was sent, or the tool told of it, in this game

chessVars == <<game, playing, plies, announced>>

-----------------------------------------------------------------------------
(* The board                                                                 *)

Sides == {"white", "black"}
Opposite(side) == IF side = "white" THEN "black" ELSE "white"
PieceTypes == {"pawn", "knight", "bishop", "rook", "queen", "king"}
Promotions == {"queen", "rook", "bishop", "knight"}

Squares == (0..7) \X (0..7)
On(s) == s[1] \in 0..7 /\ s[2] \in 0..7
Shift(s, d, n) == <<s[1] + n * d[1], s[2] + n * d[2]>>
Straight == {<<0, 1>>, <<0, -1>>, <<1, 0>>, <<-1, 0>>}
Diagonal == {<<1, 1>>, <<1, -1>>, <<-1, 1>>, <<-1, -1>>}
Leaps == {<<-2, -1>>, <<-2, 1>>, <<-1, -2>>, <<-1, 2>>, <<1, -2>>, <<1, 2>>, <<2, -1>>, <<2, 1>>}

Piece(side, type) == [side |-> side, type |-> type]
Empty(b, s) == s \notin DOMAIN b
Is(b, s, side, types) == s \in DOMAIN b /\ b[s].side = side /\ b[s].type \in types
Of(b, side, types) == {s \in DOMAIN b : b[s].side = side /\ b[s].type \in types}
Cleared(b, S) == [s \in DOMAIN b \ S |-> b[s]]

(* The ways in direction d over empty squares, the first piece included.     *)
Ray(b, s, d) ==
    {n \in 1..7 : On(Shift(s, d, n)) /\ \A k \in 1..(n - 1) : Empty(b, Shift(s, d, k))}

Forward(side) == IF side = "white" THEN 1 ELSE -1

(* Mutant of IsAttacked: pawns are taken to attack forwards of the square.   *)
IsAttacked_Forwards(b, s, by) ==
    \/ \E f \in {-1, 1} : Is(b, <<s[1] + f, s[2] + Forward(by)>>, by, {"pawn"})
    \/ \E d \in Leaps : Is(b, Shift(s, d, 1), by, {"knight"})
    \/ \E d \in Straight \cup Diagonal : Is(b, Shift(s, d, 1), by, {"king"})
    \/ \E d \in Straight : \E n \in Ray(b, s, d) : Is(b, Shift(s, d, n), by, {"rook", "queen"})
    \/ \E d \in Diagonal : \E n \in Ray(b, s, d) : Is(b, Shift(s, d, n), by, {"bishop", "queen"})

(* _is_attacked                                                              *)
IsAttacked(b, s, by) ==
    \/ \E f \in {-1, 1} : Is(b, <<s[1] + f, s[2] - Forward(by)>>, by, {"pawn"})
    \/ \E d \in Leaps : Is(b, Shift(s, d, 1), by, {"knight"})
    \/ \E d \in Straight \cup Diagonal : Is(b, Shift(s, d, 1), by, {"king"})
    \/ \E d \in Straight : \E n \in Ray(b, s, d) : Is(b, Shift(s, d, n), by, {"rook", "queen"})
    \/ \E d \in Diagonal : \E n \in Ray(b, s, d) : Is(b, Shift(s, d, n), by, {"bishop", "queen"})

(* A side without a king is not in check.                                    *)
InCheck(b, side) == \E s \in Of(b, side, {"king"}) : IsAttacked(b, s, Opposite(side))

-----------------------------------------------------------------------------
(* Moves, some of which may leave the king in check                          *)

Move(from, to, promotion) == [from |-> from, to |-> to, promotion |-> promotion]
Steps(s, tos) == {Move(s, to, "") : to \in tos}
Open(b, side, s) == On(s) /\ ~Is(b, s, side, PieceTypes)

(* _get_pawn_moves                                                           *)
PawnMoves(g, s, side) ==
    LET one == <<s[1], s[2] + Forward(side)>>
        two == <<s[1], s[2] + 2 * Forward(side)>>
        takes == {t \in {<<s[1] + f, one[2]>> : f \in {-1, 1}} :
                     On(t) /\ (Is(g.board, t, Opposite(side), PieceTypes) \/ t \in g.enPassant)}
        pushes == IF ~On(one) \/ ~Empty(g.board, one) THEN {}
                  ELSE {one} \cup (IF s[2] = (IF side = "white" THEN 1 ELSE 6)
                                      /\ Empty(g.board, two) THEN {two} ELSE {})
    IN  IF one[2] = (IF side = "white" THEN 7 ELSE 0)
        THEN {Move(s, t, p) : t \in takes \cup pushes, p \in Promotions}
        ELSE Steps(s, takes \cup pushes)

KnightMoves(g, s, side) ==
    Steps(s, {t \in {Shift(s, d, 1) : d \in Leaps} : Open(g.board, side, t)})

(* _get_sliding_moves, and the ordinary moves of the king.                   *)
SlidingMoves(g, s, side, directions) ==
    Steps(s, {t \in UNION {{Shift(s, d, n) : n \in Ray(g.board, s, d)} : d \in directions} :
                 Open(g.board, side, t)})

(* The king castles while it may, over squares that are empty and not        *)
(* attacked.  Whether there is a rook is not looked at.                      *)
Castlings(g, s, side) ==
    LET home == IF side = "white" THEN 0 ELSE 7
        free(files) == \A f \in files : Empty(g.board, <<f, home>>)
        safe(files) == \A f \in files : ~IsAttacked(g.board, <<f, home>>, Opposite(side))
    IN  IF InCheck(g.board, side) THEN {}
        ELSE Steps(s, {t \in {<<6, home>>} : <<side, "K">> \in g.rights /\ free({5, 6}) /\ safe({5, 6})}
                      \cup {t \in {<<2, home>>} : <<side, "Q">> \in g.rights
                                                    /\ free({1, 2, 3}) /\ safe({2, 3})})

KingMoves(g, s, side) ==
    Steps(s, {t \in {Shift(s, d, 1) : d \in Straight \cup Diagonal} : Open(g.board, side, t)})
        \cup Castlings(g, s, side)

PseudoMoves(g, s) ==
    LET p == g.board[s]
    IN  CASE p.type = "pawn" -> PawnMoves(g, s, p.side)
          [] p.type = "knight" -> KnightMoves(g, s, p.side)
          [] p.type = "bishop" -> SlidingMoves(g, s, p.side, Diagonal)
          [] p.type = "rook" -> SlidingMoves(g, s, p.side, Straight)
          [] p.type = "queen" -> SlidingMoves(g, s, p.side, Straight \cup Diagonal)
          [] p.type = "king" -> KingMoves(g, s, p.side)

-----------------------------------------------------------------------------
(* Making a move                                                             *)

(* What castling does to the piece in the corner, whatever it is.            *)
RookMoved(b, m) ==
    LET right == m.to[1] > m.from[1]
        corner == <<IF right THEN 7 ELSE 0, m.from[2]>>
        beside == <<IF right THEN 5 ELSE 3, m.from[2]>>
    IN  IF Empty(b, corner) THEN Cleared(b, {beside})
        ELSE Entered(Cleared(b, {corner}), beside, b[corner])

Distance(i, j) == IF i < j THEN j - i ELSE i - j

(* Mutant of Applied: the square passed over stays for later moves.          *)
Applied_PassedStays(g, m) ==
    LET p == g.board[m.from]
        passing == p.type = "pawn" /\ m.to \in g.enPassant
        left == Cleared(g.board, {m.from, m.to}
                    \cup (IF passing THEN {<<m.to[1], m.from[2]>>} ELSE {}))
        cornered == IF p.type = "king" /\ Distance(m.from[1], m.to[1]) = 2
                    THEN RookMoved(left, m) ELSE left
        now == IF m.promotion = "" THEN p ELSE Piece(p.side, m.promotion)
        lost == CASE p.type = "king" -> {<<p.side, "K">>, <<p.side, "Q">>}
                  [] p.type = "rook" -> (IF m.from[1] = 0 THEN {<<p.side, "Q">>}
                                         ELSE IF m.from[1] = 7 THEN {<<p.side, "K">>} ELSE {})
                  [] OTHER -> {}
    IN  [board |-> Entered(cornered, m.to, now),
         turn |-> Opposite(g.turn),
         rights |-> g.rights \ lost,
         enPassant |-> IF p.type = "pawn" /\ Distance(m.from[2], m.to[2]) = 2
                       THEN {<<m.from[1], (m.from[2] + m.to[2]) \div 2>>} ELSE g.enPassant,
         quiet |-> IF p.type = "pawn" \/ ~Empty(g.board, m.to) THEN 0 ELSE g.quiet + 1]

(* _apply_move_unchecked                                                     *)
Applied(g, m) ==
    LET p == g.board[m.from]
        passing == p.type = "pawn" /\ m.to \in g.enPassant
        left == Cleared(g.board, {m.from, m.to}
                    \cup (IF passing THEN {<<m.to[1], m.from[2]>>} ELSE {}))
        cornered == IF p.type = "king" /\ Distance(m.from[1], m.to[1]) = 2
                    THEN RookMoved(left, m) ELSE left
        now == IF m.promotion = "" THEN p ELSE Piece(p.side, m.promotion)
        lost == CASE p.type = "king" -> {<<p.side, "K">>, <<p.side, "Q">>}
                  [] p.type = "rook" -> (IF m.from[1] = 0 THEN {<<p.side, "Q">>}
                                         ELSE IF m.from[1] = 7 THEN {<<p.side, "K">>} ELSE {})
                  [] OTHER -> {}
    IN  [board |-> Entered(cornered, m.to, now),
         turn |-> Opposite(g.turn),
         rights |-> g.rights \ lost,
         enPassant |-> IF p.type = "pawn" /\ Distance(m.from[2], m.to[2]) = 2
                       THEN {<<m.from[1], (m.from[2] + m.to[2]) \div 2>>} ELSE {},
         quiet |-> IF p.type = "pawn" \/ ~Empty(g.board, m.to) THEN 0 ELSE g.quiet + 1]

(* get_legal_moves                                                           *)
LegalMoves(g) ==
    {m \in UNION {PseudoMoves(g, s) : s \in Of(g.board, g.turn, PieceTypes)} :
        ~InCheck(Applied(g, m).board, g.turn)}

-----------------------------------------------------------------------------
(* Results                                                                   *)

NoMoves(g) == LegalMoves(g) = {}
Checkmate(g) == InCheck(g.board, g.turn) /\ NoMoves(g)
BesidesKings(g) == {s \in DOMAIN g.board : g.board[s].type # "king"}
Drawn(g) ==
    \/ ~InCheck(g.board, g.turn) /\ NoMoves(g)
    \/ g.quiet >= DrawnAfter
    \/ BesidesKings(g) = {}
    \/ Cardinality(BesidesKings(g)) = 1 /\ \A s \in BesidesKings(g) : g.board[s].type \in {"bishop", "knight"}
Over(g) == Drawn(g) \/ Checkmate(g)

-----------------------------------------------------------------------------
(* Positions                                                                 *)

Rank(side, rank) ==
    LET order == <<"rook", "knight", "bishop", "queen", "king", "bishop", "knight", "rook">>
    IN  [s \in (0..7) \X {rank} |-> Piece(side, order[s[1] + 1])]
Pawns(side, rank) == [s \in (0..7) \X {rank} |-> Piece(side, "pawn")]

(* GameState.new_game                                                        *)
NewGame ==
    [board |-> Backed(Backed(Rank("white", 0), Pawns("white", 1)),
                      Backed(Pawns("black", 6), Rank("black", 7))),
     turn |-> "white", rights |-> Sides \X {"K", "Q"}, enPassant |-> {}, quiet |-> 0]

Position(pieces, turn, rights, quiet) ==
    [board |-> [s \in {p[1] : p \in pieces} |-> LET p == CHOOSE q \in pieces : q[1] = s
                                               IN  Piece(p[2], p[3])],
     turn |-> turn, rights |-> rights, enPassant |-> {}, quiet |-> quiet]

(* A position of chess: one king a side, pawns where they may stand, kings   *)
(* at home while they may castle, no way to take the king, and a square that *)
(* may be taken in passing behind a pawn that has just passed it.            *)
Home(side) == <<4, IF side = "white" THEN 0 ELSE 7>>
Passing(g) ==
    \A s \in g.enPassant :
        LET mover == Opposite(g.turn)
        IN  /\ Empty(g.board, s)
            /\ Is(g.board, <<s[1], s[2] + Forward(mover)>>, mover, {"pawn"})
Lawful(g) ==
    /\ \A s \in DOMAIN g.board :
           /\ s \in Squares /\ g.board[s] \in [side : Sides, type : PieceTypes]
           /\ g.board[s].type = "pawn" => s[2] \in 1..6
    /\ \A side \in Sides : Cardinality(Of(g.board, side, {"king"})) = 1
    /\ g.turn \in Sides /\ g.rights \subseteq Sides \X {"K", "Q"} /\ g.quiet \in Nat
    /\ \A r \in g.rights : Is(g.board, Home(r[1]), r[1], {"king"})
    /\ g.enPassant \subseteq Squares /\ Cardinality(g.enPassant) <= 1 /\ Passing(g)
    /\ ~InCheck(g.board, Opposite(g.turn))

(* The tool that sets positions takes whatever it is given.                  *)
ASSUME ChessAssumption == (\A g \in Openings : Lawful(g)) /\ MaxPlies \in Nat

-----------------------------------------------------------------------------
(* The tools                                                                 *)

NoGame == [board |-> <<>>, turn |-> "white", rights |-> {}, enPassant |-> {}, quiet |-> 0]

ChessInit == game = NoGame /\ playing = FALSE /\ plies = 0 /\ announced = FALSE

Start(g) ==
    /\ game' = g /\ playing' = TRUE /\ announced' = FALSE
    /\ UNCHANGED plies

(* chess_new_game: a session that has no game gets one, and one that has a   *)
(* game another.                                                             *)
StartGame == Start(NewGame)

(* chess_set_position, which does the same.                                  *)
SetPosition(g) == Start(g)

(* chess_move; what is not legal changes nothing.                            *)
PlayMove ==
    /\ playing /\ plies < MaxPlies /\ ~Over(game)
    /\ \E m \in LegalMoves(game) : game' = Applied(game, m)
    /\ plies' = plies + 1
    /\ announced' = Over(game')
    /\ UNCHANGED playing

(* chess_resign: the end of the game is announced.                           *)
Resign ==
    /\ playing /\ ~Over(game)
    /\ announced' = TRUE
    /\ UNCHANGED <<game, playing, plies>>

(* The server starts anew; games are in memory, and what would store them,   *)
(* save_state, is not called.                                                *)
LoseGames ==
    /\ playing
    /\ game' = NoGame /\ playing' = FALSE /\ announced' = FALSE
    /\ UNCHANGED plies

ChessNext ==
    \/ StartGame
    \/ \E g \in Openings : SetPosition(g)
    \/ PlayMove
    \/ Resign
    \/ LoseGames

ChessSpec == ChessInit /\ [][ChessNext]_chessVars

-----------------------------------------------------------------------------
(* Properties                                                                *)

(* The board keeps its shape: one king a side, pawns on the six ranks they   *)
(* may stand on.                                                             *)
ChessTypeOK ==
    /\ \A s \in DOMAIN game.board :
           /\ On(s) /\ game.board[s].type \in PieceTypes
           /\ game.board[s].type = "pawn" => s[2] \in 1..6
    /\ playing => \A side \in Sides : Cardinality(Of(game.board, side, {"king"})) = 1
    /\ game.turn \in Sides /\ Cardinality(game.enPassant) <= 1 /\ plies \in 0..MaxPlies

(* What a move generator and a check detector that were written apart have   *)
(* to agree on: no side can ever take the other's king.                      *)
KingIsSafe ==
    \A s \in Of(game.board, game.turn, PieceTypes) :
        \A m \in PseudoMoves(game, s) : ~Is(game.board, m.to, Opposite(game.turn), {"king"})

(* The square that may be taken in passing is empty, and behind a pawn of    *)
(* the side that has just moved.                                             *)
PassedJustNow == Passing(game)

(* Every position that play reaches is one of chess: no king hangs, and the  *)
(* square of a pawn that may be taken in passing is the right one.           *)
PositionSound == KingIsSafe /\ PassedJustNow

(* Nothing appears on the board, and at most one piece leaves it in a move.  *)
OneTaken ==
    [][plies' # plies =>
           LET before == Cardinality(DOMAIN game.board)
           IN  Cardinality(DOMAIN game'.board) \in {before - 1, before}]_chessVars

(* A side neither loses nor gains pieces of its own by moving, castling and  *)
(* promotion included.                                                       *)
OwnPiecesStay ==
    [][plies' # plies =>
           LET count(g, side) == Cardinality(Of(g.board, side, PieceTypes))
           IN  count(game', game.turn) = count(game, game.turn)]_chessVars

(* "Chess engine with full rules validation" (engine.py:275): a side may     *)
(* castle only with a rook in that corner.                                   *)
CastlesWithRook ==
    \A r \in game.rights :
        Is(game.board, <<IF r[2] = "K" THEN 7 ELSE 0, IF r[1] = "white" THEN 0 ELSE 7>>,
           r[1], {"rook"})
            \/ r[1] # game.turn
            \/ ~\E m \in LegalMoves(game) :
                   /\ game.board[m.from].type = "king" /\ m.from[1] = 4
                   /\ m.to[1] = IF r[2] = "K" THEN 6 ELSE 2

(* "Resign the current game. The opponent wins." (domain.py:306): once the   *)
(* end of a game is announced, nobody moves in it.                           *)
AnnouncedIsOver == [][plies' # plies => ~announced]_chessVars
=============================================================================
