------------------------------ MODULE OXBoard ------------------------------
(***************************************************************************)
(* The game state of applications/OXGame.c (struct OXGame) and what one    *)
(* input does to it: cursor moves, placing a piece, a reset.  The threads  *)
(* run each of these under lcd_mutex, so each is one step here; OXGame     *)
(* adds the threads, the mutex and the interrupts around them.             *)
(***************************************************************************)
EXTENDS Naturals, FiniteSets

VARIABLES
    board,          \* board[<<x, y>>]: 0 empty, 1 X, 2 O
    cursor_x, cursor_y,
    current_player, \* 0: X, 1: O
    total_steps,
    state,          \* GameState
    state_changed   \* the screen is out of date (rt_bool_t)

cursor == <<cursor_x, cursor_y>>
round == <<board, current_player, total_steps, state>>
gameVars == <<board, cursor_x, cursor_y, current_player, total_steps, state,
              state_changed>>

Cells == (0..2) \X (0..2)
EmptyBoard == [c \in Cells |-> 0]
GameState == {"PLAYING", "X_WIN", "O_WIN", "DRAW"}

-----------------------------------------------------------------------------
(* check_win, on the board b after steps moves *)

Winner(piece) == IF piece = 1 THEN "X_WIN" ELSE "O_WIN"

\* "the first cell is taken and the three are equal"
Same3(b, c1, c2, c3) == b[c1] # 0 /\ b[c1] = b[c2] /\ b[c2] = b[c3]

\* Mutant: the full board is tested before the lines.
check_winDrawFirst(b, steps) ==
    IF steps >= 9 THEN "DRAW"
    ELSE IF \E p \in {1, 2} :
              \/ \E i \in 0..2 : \/ \A j \in 0..2 : b[<<j, i>>] = p
                                 \/ \A j \in 0..2 : b[<<i, j>>] = p
              \/ \A i \in 0..2 : b[<<i, i>>] = p
              \/ \A i \in 0..2 : b[<<2 - i, i>>] = p
    THEN Winner(2 - (steps % 2))
    ELSE "PLAYING"

\* Rows, then columns, then the two diagonals, then the draw.  Each loop
\* returns at its first hit, hence the CHOOSE of the least y or x.
check_win(b, steps) ==
    LET Row(y) == Same3(b, <<0, y>>, <<1, y>>, <<2, y>>)
        Col(x) == Same3(b, <<x, 0>>, <<x, 1>>, <<x, 2>>)
        First(P(_)) == CHOOSE i \in 0..2 : P(i) /\ \A j \in 0..2 : P(j) => i <= j
    IN  IF \E y \in 0..2 : Row(y) THEN Winner(b[<<0, First(Row)>>])
        ELSE IF \E x \in 0..2 : Col(x) THEN Winner(b[<<First(Col), 0>>])
        ELSE IF Same3(b, <<0, 0>>, <<1, 1>>, <<2, 2>>) THEN Winner(b[<<0, 0>>])
        ELSE IF Same3(b, <<2, 0>>, <<1, 1>>, <<0, 2>>) THEN Winner(b[<<2, 0>>])
        ELSE IF steps >= 9 THEN "DRAW"
        ELSE "PLAYING"

-----------------------------------------------------------------------------
(* The inputs *)

MoveLeft ==
    /\ cursor_x' = IF cursor_x = 0 THEN 2 ELSE cursor_x - 1
    /\ state_changed' = TRUE
    /\ UNCHANGED <<round, cursor_y>>

MoveRight ==
    /\ cursor_x' = (cursor_x + 1) % 3
    /\ state_changed' = TRUE
    /\ UNCHANGED <<round, cursor_y>>

\* Mutant: "cursor_y <= 2".
MoveDownOffByOne ==
    /\ cursor_y' = IF cursor_y <= 2 THEN cursor_y + 1 ELSE 0
    /\ state_changed' = TRUE
    /\ UNCHANGED <<round, cursor_x>>

MoveDown ==
    /\ cursor_y' = IF cursor_y < 2 THEN cursor_y + 1 ELSE 0
    /\ state_changed' = TRUE
    /\ UNCHANGED <<round, cursor_x>>

MoveUp ==
    /\ cursor_y' = IF cursor_y = 0 THEN 2 ELSE cursor_y - 1
    /\ state_changed' = TRUE
    /\ UNCHANGED <<round, cursor_x>>

\* Mutant: a taken cell is taken over.
PlacePieceAnywhere ==
    IF state = "PLAYING"
    THEN /\ board' = [board EXCEPT ![cursor] = current_player + 1]
         /\ total_steps' = total_steps + 1
         /\ state' = check_win(board', total_steps')
         /\ current_player' = 1 - current_player
         /\ state_changed' = TRUE
         /\ UNCHANGED <<cursor_x, cursor_y>>
    ELSE UNCHANGED gameVars

\* BUTTON_OK and 'e': a piece on a free cell while the game is on; otherwise
\* the input is ignored.
PlacePiece ==
    IF board[cursor] = 0 /\ state = "PLAYING"
    THEN /\ board' = [board EXCEPT ![cursor] = current_player + 1]
         /\ total_steps' = total_steps + 1
         /\ state' = check_win(board', total_steps')
         /\ current_player' = 1 - current_player
         /\ state_changed' = TRUE
         /\ UNCHANGED <<cursor_x, cursor_y>>
    ELSE UNCHANGED gameVars

\* Mutants: a reset that forgets one of the fields.
ResetRoundKeepsSteps ==
    /\ cursor_x' = 1 /\ cursor_y' = 1
    /\ state' = "PLAYING" /\ current_player' = 0
    /\ board' = EmptyBoard /\ state_changed' = TRUE
    /\ UNCHANGED total_steps

ResetRoundKeepsPlayer ==
    /\ cursor_x' = 1 /\ cursor_y' = 1
    /\ state' = "PLAYING" /\ total_steps' = 0
    /\ board' = EmptyBoard /\ state_changed' = TRUE
    /\ UNCHANGED current_player

ResetRoundKeepsState ==
    /\ cursor_x' = 1 /\ cursor_y' = 1
    /\ total_steps' = 0 /\ current_player' = 0
    /\ board' = EmptyBoard /\ state_changed' = TRUE
    /\ UNCHANGED state

ResetRoundNoRedraw ==
    /\ cursor_x' = 1 /\ cursor_y' = 1
    /\ total_steps' = 0 /\ current_player' = 0
    /\ board' = EmptyBoard /\ state' = "PLAYING"
    /\ UNCHANGED state_changed

\* The part of reset_game both reset types have in common.
ResetRound ==
    /\ cursor_x' = 1 /\ cursor_y' = 1
    /\ total_steps' = 0
    /\ state' = "PLAYING"
    /\ current_player' = 0
    /\ board' = EmptyBoard
    /\ state_changed' = TRUE

\* ox_game_draw_board in lcd_thread_entry.
Redraw == state_changed' = FALSE /\ UNCHANGED <<round, cursor_x, cursor_y>>

BoardInit ==
    /\ cursor_x = 1 /\ cursor_y = 1
    /\ total_steps = 0
    /\ state = "PLAYING"
    /\ current_player = 0
    /\ board = EmptyBoard
    /\ state_changed = TRUE

BoardNext ==
    \/ MoveLeft \/ MoveRight \/ MoveDown \/ MoveUp
    \/ PlacePiece
    \/ ResetRound
    \/ state_changed /\ Redraw

BoardSpec == BoardInit /\ [][BoardNext]_gameVars

-----------------------------------------------------------------------------
(* Properties *)

\* The cursor stays on the board and the step counter within its nine cells,
\* so every access of game.board is inside the array.
BoardTypeOK ==
    /\ board \in [Cells -> 0..2]
    /\ cursor_x \in 0..2 /\ cursor_y \in 0..2
    /\ current_player \in {0, 1}
    /\ total_steps \in 0..9
    /\ state \in GameState
    /\ state_changed \in BOOLEAN

\* The eight lines of the game, by what they are and not by how the code
\* enumerates them.
Lines ==
    { {<<x, y>> : x \in 0..2} : y \in 0..2 } \cup
    { {<<x, y>> : y \in 0..2} : x \in 0..2 } \cup
    { {<<i, i>> : i \in 0..2}, {<<2 - i, i>> : i \in 0..2} }

HasLine(b, piece) == \E l \in Lines : \A c \in l : b[c] = piece

Taken(b) == {c \in Cells : b[c] # 0}
Pieces(b, piece) == {c \in Cells : b[c] = piece}

\* What the rules say of a board.
Outcome(b) ==
    IF HasLine(b, 1) THEN "X_WIN"
    ELSE IF HasLine(b, 2) THEN "O_WIN"
    ELSE IF Taken(b) = Cells THEN "DRAW"
    ELSE "PLAYING"

\* total_steps, on which the draw is decided, is the number of pieces on the
\* board through any sequence of moves, placements and resets.
StepsCountPieces == total_steps = Cardinality(Taken(board))

\* The players alternate: X is to move when both have as many pieces, O when
\* X has one more.
TurnsAlternate ==
    Cardinality(Pieces(board, 1)) = Cardinality(Pieces(board, 2)) + current_player

\* The state the code keeps is the one the rules give to the board, and the
\* loser never has a line: the game stops at the first line.
StateIsOutcome ==
    /\ state = Outcome(board)
    /\ ~(HasLine(board, 1) /\ HasLine(board, 2))

\* A piece stays where it is until the whole board is cleared, and after the
\* end of a game nothing but a reset changes the board.
PiecesStay ==
    [][ \/ board' = EmptyBoard
        \/ /\ \A c \in Cells : board[c] # 0 => board'[c] = board[c]
           /\ state # "PLAYING" => board' = board ]_gameVars

=============================================================================
