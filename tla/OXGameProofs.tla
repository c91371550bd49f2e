---------------------------- MODULE OXGameProofs ----------------------------
(***************************************************************************)
(* The game.  First its rules (OXBoard): the step counter, the player to   *)
(* move and the pieces on the board agree after any sequence of inputs.    *)
(* Then its threads (OXGame): lcd_mutex is held as deep as the code says,  *)
(* the threads change the game by whole inputs, the screen follows it, and *)
(* the command thread sleeps only on an empty buffer.                      *)
(***************************************************************************)
EXTENDS OXGame, FiniteSetTheorems, TLAPS

-----------------------------------------------------------------------------
(* The rules *)

\* What is inductive.  The bound on total_steps is not part of it: it
\* follows from the count of pieces.
FieldsOK ==
    /\ board \in [Cells -> 0..2]
    /\ cursor_x \in 0..2 /\ cursor_y \in 0..2
    /\ current_player \in {0, 1}
    /\ state \in GameState
    /\ state_changed \in BOOLEAN

BInv == FieldsOK /\ StepsCountPieces /\ TurnsAlternate

LEMMA CellsCount == IsFiniteSet(Cells) /\ Cardinality(Cells) = 9
  <1>1. IsFiniteSet(0..2) /\ Cardinality(0..2) = 3
    <2>1. 0 \in Int /\ 2 \in Int
      OBVIOUS
    <2>2. /\ IsFiniteSet(0..2)
          /\ Cardinality(0..2) = IF 0 > 2 THEN 0 ELSE 2 - 0 + 1
      BY <2>1, FS_Interval, Zenon
    <2> QED BY <2>2
  <1>2. IsFiniteSet(Cells) /\ Cardinality(Cells) = 3 * 3
    BY <1>1, FS_Product DEF Cells
  <1> QED BY <1>2

\* Sets of cells are finite.
LEMMA PiecesFinite ==
    ASSUME NEW b
    PROVE  /\ IsFiniteSet(Taken(b)) /\ Cardinality(Taken(b)) \in 0..9
           /\ \A p : IsFiniteSet(Pieces(b, p)) /\ Cardinality(Pieces(b, p)) \in 0..9
  <1>1. ASSUME NEW S \in SUBSET Cells
        PROVE  IsFiniteSet(S) /\ Cardinality(S) \in 0..9
    <2>1. IsFiniteSet(S) /\ Cardinality(S) <= 9
      BY CellsCount, FS_Subset
    <2>2. Cardinality(S) \in Nat
      BY <2>1, FS_CardinalityType
    <2> QED BY <2>1, <2>2
  <1>2. Taken(b) \in SUBSET Cells /\ \A p : Pieces(b, p) \in SUBSET Cells
    BY DEF Taken, Pieces
  <1> QED BY <1>1, <1>2

LEMMA EmptyBoardCount ==
    /\ EmptyBoard \in [Cells -> 0..2]
    /\ Cardinality(Taken(EmptyBoard)) = 0
    /\ Cardinality(Pieces(EmptyBoard, 1)) = 0
    /\ Cardinality(Pieces(EmptyBoard, 2)) = 0
  <1>1. Taken(EmptyBoard) = {} /\ Pieces(EmptyBoard, 1) = {} /\ Pieces(EmptyBoard, 2) = {}
    BY DEF EmptyBoard, Taken, Pieces
  <1>2. Cardinality({}) = 0
    BY FS_EmptySet
  <1> QED BY <1>1, <1>2 DEF EmptyBoard

LEMMA CheckWinType ==
    ASSUME NEW b, NEW steps
    PROVE  check_win(b, steps) \in GameState
  BY DEF check_win, Winner, GameState

\* A piece is placed on a free cell of the board.
LEMMA Placing ==
    ASSUME FieldsOK, PlacePiece, board[cursor] = 0, state = "PLAYING"
    PROVE  /\ FieldsOK' /\ cursor \in Cells
           /\ board' = [board EXCEPT ![cursor] = current_player + 1]
           /\ total_steps' = total_steps + 1
           /\ state' = check_win(board', total_steps')
           /\ current_player' = 1 - current_player
           /\ Cardinality(Taken(board')) = Cardinality(Taken(board)) + 1
  <1>1. cursor \in Cells
    BY DEF FieldsOK, cursor, Cells
  <1>2. /\ board' = [board EXCEPT ![cursor] = current_player + 1]
        /\ total_steps' = total_steps + 1
        /\ state' = check_win(board', total_steps')
        /\ current_player' = 1 - current_player
        /\ state_changed' = TRUE
        /\ cursor_x' = cursor_x /\ cursor_y' = cursor_y
    BY DEF PlacePiece
  <1>3. state' \in GameState
    BY <1>2, CheckWinType
  <1>4. FieldsOK'
    BY <1>1, <1>2, <1>3 DEF FieldsOK
  <1>5. Taken(board') = Taken(board) \cup {cursor} /\ cursor \notin Taken(board)
    BY <1>1, <1>2 DEF FieldsOK, Taken
  <1>6. Cardinality(Taken(board')) = Cardinality(Taken(board)) + 1
    BY <1>5, PiecesFinite, FS_AddElement, SMTT(30)
  <1> QED BY <1>1, <1>2, <1>4, <1>6

\* Any other input that is no reset leaves the pieces alone.
LEMMA OtherInputs ==
    ASSUME FieldsOK,
           \/ MoveLeft \/ MoveRight \/ MoveDown \/ MoveUp \/ Redraw \/ UNCHANGED gameVars
           \/ PlacePiece /\ ~(board[cursor] = 0 /\ state = "PLAYING")
    PROVE  FieldsOK' /\ UNCHANGED round
  <1>1. CASE MoveLeft \/ MoveRight \/ MoveDown \/ MoveUp
    <2>1. UNCHANGED round /\ state_changed' = TRUE
      BY <1>1 DEF MoveLeft, MoveRight, MoveDown, MoveUp
    <2>2. cursor_x' \in 0..2 /\ cursor_y' \in 0..2
      BY <1>1 DEF MoveLeft, MoveRight, MoveDown, MoveUp, FieldsOK
    <2> QED
      BY <2>1, <2>2 DEF round, FieldsOK
  <1>2. CASE Redraw
    BY <1>2 DEF Redraw, round, FieldsOK
  <1>3. CASE UNCHANGED gameVars
    BY <1>3 DEF gameVars, round, FieldsOK
  <1>4. CASE PlacePiece /\ ~(board[cursor] = 0 /\ state = "PLAYING")
    BY <1>4 DEF PlacePiece, gameVars, round, FieldsOK
  <1> QED BY <1>1, <1>2, <1>3, <1>4

\* The inputs: a placement, a reset, or one that leaves the pieces alone.
LEMMA Inputs ==
    ASSUME [BoardNext]_gameVars
    PROVE  \/ PlacePiece /\ board[cursor] = 0 /\ state = "PLAYING"
           \/ ResetRound
           \/ \/ MoveLeft \/ MoveRight \/ MoveDown \/ MoveUp \/ Redraw \/ UNCHANGED gameVars
              \/ PlacePiece /\ ~(board[cursor] = 0 /\ state = "PLAYING")
  BY DEF BoardNext

\* The counting of steps does not depend on the order of the players.
LEMMA StepsKept ==
    ASSUME FieldsOK, StepsCountPieces, [BoardNext]_gameVars
    PROVE  FieldsOK' /\ StepsCountPieces'
  <1>1. CASE PlacePiece /\ board[cursor] = 0 /\ state = "PLAYING"
    BY <1>1, Placing DEF StepsCountPieces
  <1>2. CASE ResetRound
    BY <1>2, EmptyBoardCount DEF ResetRound, FieldsOK, StepsCountPieces, GameState
  <1> QED BY <1>1, <1>2, Inputs, OtherInputs DEF StepsCountPieces, round

LEMMA TurnsKept ==
    ASSUME FieldsOK, TurnsAlternate, [BoardNext]_gameVars
    PROVE  TurnsAlternate'
  <1>1. CASE PlacePiece /\ board[cursor] = 0 /\ state = "PLAYING"
    <2>1. /\ FieldsOK' /\ cursor \in Cells
          /\ board' = [board EXCEPT ![cursor] = current_player + 1]
          /\ current_player' = 1 - current_player
      BY <1>1, Placing
    <2>2. CASE current_player = 0
      <3>1. /\ Pieces(board', 1) = Pieces(board, 1) \cup {cursor}
            /\ cursor \notin Pieces(board, 1)
            /\ Pieces(board', 2) = Pieces(board, 2)
        BY <1>1, <2>1, <2>2 DEF FieldsOK, Pieces
      <3>2. Cardinality(Pieces(board', 1)) = Cardinality(Pieces(board, 1)) + 1
        BY <3>1, PiecesFinite, FS_AddElement
      <3> QED
        BY <2>1, <2>2, <3>1, <3>2, PiecesFinite DEF TurnsAlternate
    <2>3. CASE current_player = 1
      <3>1. /\ Pieces(board', 2) = Pieces(board, 2) \cup {cursor}
            /\ cursor \notin Pieces(board, 2)
            /\ Pieces(board', 1) = Pieces(board, 1)
        BY <1>1, <2>1, <2>3 DEF FieldsOK, Pieces
      <3>2. Cardinality(Pieces(board', 2)) = Cardinality(Pieces(board, 2)) + 1
        BY <3>1, PiecesFinite, FS_AddElement
      <3> QED
        BY <2>1, <2>3, <3>1, <3>2, PiecesFinite DEF TurnsAlternate
    <2> QED BY <2>2, <2>3 DEF FieldsOK
  <1>2. CASE ResetRound
    BY <1>2, EmptyBoardCount DEF ResetRound, TurnsAlternate
  <1> QED BY <1>1, <1>2, Inputs, OtherInputs DEF TurnsAlternate, round

LEMMA BInvInit == BoardInit => BInv
  BY EmptyBoardCount
  DEF BoardInit, BInv, FieldsOK, StepsCountPieces, TurnsAlternate, GameState

LEMMA BInvNext == BInv /\ [BoardNext]_gameVars => BInv'
  BY StepsKept, TurnsKept DEF BInv

\* The cursor stays on the board and at most nine pieces are counted.
THEOREM BoardTypeCorrect == BoardSpec => []BoardTypeOK
  <1>1. BInv => BoardTypeOK
    BY PiecesFinite DEF BInv, FieldsOK, StepsCountPieces, BoardTypeOK
  <1> QED BY <1>1, BInvInit, BInvNext, PTL DEF BoardSpec

\* total_steps, on which check_win decides a draw, counts the pieces.
THEOREM StepsCorrect == BoardSpec => []StepsCountPieces
  <1>1. BInv => StepsCountPieces
    BY DEF BInv
  <1> QED BY <1>1, BInvInit, BInvNext, PTL DEF BoardSpec

\* current_player is the player whose turn the board says it is.
THEOREM TurnsCorrect == BoardSpec => []TurnsAlternate
  <1>1. BInv => TurnsAlternate
    BY DEF BInv
  <1> QED BY <1>1, BInvInit, BInvNext, PTL DEF BoardSpec

\* No input removes or overwrites a single piece, and none but a reset
\* touches the board of a finished game.
THEOREM PiecesNeverMove == BoardSpec => PiecesStay
  <1> DEFINE Stay == \/ board' = EmptyBoard
                     \/ /\ \A c \in Cells : board[c] # 0 => board'[c] = board[c]
                        /\ state # "PLAYING" => board' = board
  <1>1. BInv /\ [BoardNext]_gameVars => [Stay]_gameVars
    <2> SUFFICES ASSUME BInv, BoardNext PROVE Stay \/ UNCHANGED gameVars
      OBVIOUS
    <2>1. CASE MoveLeft \/ MoveRight \/ MoveDown \/ MoveUp \/ Redraw
      BY <2>1 DEF MoveLeft, MoveRight, MoveDown, MoveUp, Redraw, round
    <2>2. CASE PlacePiece
      BY <2>2 DEF PlacePiece, BInv, FieldsOK, cursor, Cells
    <2>3. CASE ResetRound
      BY <2>3 DEF ResetRound
    <2> QED BY <2>1, <2>2, <2>3 DEF BoardNext
  <1> QED BY <1>1, BInvInit, BInvNext, PTL DEF BoardSpec, PiecesStay

-----------------------------------------------------------------------------
(* The outcome *)

\* The four kinds of lines that the loops of check_win look at are the lines of
\* the game.
LineOf(b, p) ==
    \/ \E y \in 0..2 : b[<<0, y>>] = p /\ b[<<1, y>>] = p /\ b[<<2, y>>] = p
    \/ \E x \in 0..2 : b[<<x, 0>>] = p /\ b[<<x, 1>>] = p /\ b[<<x, 2>>] = p
    \/ b[<<0, 0>>] = p /\ b[<<1, 1>>] = p /\ b[<<2, 2>>] = p
    \/ b[<<2, 0>>] = p /\ b[<<1, 1>>] = p /\ b[<<0, 2>>] = p

LEMMA LinesAreLines ==
    ASSUME NEW b, NEW p
    PROVE  HasLine(b, p) <=> LineOf(b, p)
<1>0. 0..2 = {0, 1, 2}
    OBVIOUS
<1>1. ASSUME NEW l \in Lines, \A c \in l : b[c] = p
      PROVE  LineOf(b, p)
    <2>1. CASE \E y \in 0..2 : l = {<<x, y>> : x \in 0..2}
        BY <1>0, <1>1, <2>1 DEF LineOf
    <2>2. CASE \E x \in 0..2 : l = {<<x, y>> : y \in 0..2}
        BY <1>0, <1>1, <2>2 DEF LineOf
    <2>3. CASE l = {<<i, i>> : i \in 0..2}
        BY <1>0, <1>1, <2>3 DEF LineOf
    <2>4. CASE l = {<<2 - i, i>> : i \in 0..2}
        <3>1. <<2, 0>> \in l /\ <<1, 1>> \in l /\ <<0, 2>> \in l
            BY <2>4
        <3> QED
            BY <1>1, <3>1 DEF LineOf
    <2> QED
        BY <2>1, <2>2, <2>3, <2>4 DEF Lines
<1>2. ASSUME NEW y \in 0..2, b[<<0, y>>] = p, b[<<1, y>>] = p, b[<<2, y>>] = p
      PROVE  HasLine(b, p)
    <2> DEFINE l == {<<x, y>> : x \in 0..2}
    <2>1. l \in Lines
        BY DEF Lines
    <2>2. \A c \in l : b[c] = p
        BY <1>0, <1>2
    <2> QED
        BY <2>1, <2>2 DEF HasLine
<1>3. ASSUME NEW x \in 0..2, b[<<x, 0>>] = p, b[<<x, 1>>] = p, b[<<x, 2>>] = p
      PROVE  HasLine(b, p)
    <2> DEFINE l == {<<x, y>> : y \in 0..2}
    <2>1. l \in Lines
        BY DEF Lines
    <2>2. \A c \in l : b[c] = p
        BY <1>0, <1>3
    <2> QED
        BY <2>1, <2>2 DEF HasLine
<1>4. ASSUME b[<<0, 0>>] = p, b[<<1, 1>>] = p, b[<<2, 2>>] = p
      PROVE  HasLine(b, p)
    <2> DEFINE l == {<<i, i>> : i \in 0..2}
    <2>1. l \in Lines
        BY DEF Lines
    <2>2. \A c \in l : b[c] = p
        BY <1>0, <1>4
    <2> QED
        BY <2>1, <2>2 DEF HasLine
<1>5. ASSUME b[<<2, 0>>] = p, b[<<1, 1>>] = p, b[<<0, 2>>] = p
      PROVE  HasLine(b, p)
    <2> DEFINE l == {<<2 - i, i>> : i \in 0..2}
    <2>1. l \in Lines
        BY DEF Lines
    <2>2. l = {<<2, 0>>, <<1, 1>>, <<0, 2>>}
        BY <1>0
    <2>3. \A c \in l : b[c] = p
        BY <1>5, <2>2
    <2> QED
        BY <2>1, <2>3 DEF HasLine
<1> QED
    BY <1>1, <1>2, <1>3, <1>4, <1>5 DEF HasLine, LineOf

\* Whichever line a loop finds first, check_win names the player who has one;
\* with no line the counter tells the full board.
LEMMA CheckWinIsOutcome ==
    ASSUME NEW b \in [Cells -> 0..2], ~(HasLine(b, 1) /\ HasLine(b, 2))
    PROVE  check_win(b, Cardinality(Taken(b))) = Outcome(b)
<1> DEFINE steps == Cardinality(Taken(b))
           Row(y) == Same3(b, <<0, y>>, <<1, y>>, <<2, y>>)
           Col(x) == Same3(b, <<x, 0>>, <<x, 1>>, <<x, 2>>)
           Diag == Same3(b, <<0, 0>>, <<1, 1>>, <<2, 2>>)
           Anti == Same3(b, <<2, 0>>, <<1, 1>>, <<0, 2>>)
           row == CHOOSE i \in 0..2 : Row(i) /\ \A j \in 0..2 : Row(j) => i <= j
           col == CHOOSE i \in 0..2 : Col(i) /\ \A j \in 0..2 : Col(j) => i <= j
<1>1. check_win(b, steps) =
        IF \E y \in 0..2 : Row(y) THEN Winner(b[<<0, row>>])
        ELSE IF \E x \in 0..2 : Col(x) THEN Winner(b[<<col, 0>>])
        ELSE IF Diag THEN Winner(b[<<0, 0>>])
        ELSE IF Anti THEN Winner(b[<<2, 0>>])
        ELSE IF steps >= 9 THEN "DRAW" ELSE "PLAYING"
    BY DEF check_win
<1>2. ASSUME NEW c \in Cells, b[c] # 0, LineOf(b, b[c])
      PROVE  Winner(b[c]) = Outcome(b)
    <2>1. b[c] \in {1, 2}
        BY <1>2
    <2>2. HasLine(b, b[c])
        BY <1>2, LinesAreLines
    <2> QED
        BY <2>1, <2>2 DEF Winner, Outcome
<1>3. CASE \E y \in 0..2 : Row(y)
    <2>1. \E i \in 0..2 : Row(i) /\ \A j \in 0..2 : Row(j) => i <= j
        <3> HIDE DEF Row
        <3> QED
            BY <1>3
    <2>2. row \in 0..2 /\ Row(row)
        <3> HIDE DEF Row
        <3> QED
            BY <2>1
    <2> HIDE DEF row
    <2>3. <<0, row>> \in Cells /\ b[<<0, row>>] # 0 /\ LineOf(b, b[<<0, row>>])
        BY <2>2 DEF Same3, LineOf, Cells
    <2> QED
        BY <1>1, <1>2, <1>3, <2>3
<1>4. CASE ~(\E y \in 0..2 : Row(y)) /\ \E x \in 0..2 : Col(x)
    <2>1. \E i \in 0..2 : Col(i) /\ \A j \in 0..2 : Col(j) => i <= j
        <3> HIDE DEF Col
        <3> QED
            BY <1>4
    <2>2. col \in 0..2 /\ Col(col)
        <3> HIDE DEF Col
        <3> QED
            BY <2>1
    <2> HIDE DEF col
    <2>3. <<col, 0>> \in Cells /\ b[<<col, 0>>] # 0 /\ LineOf(b, b[<<col, 0>>])
        BY <2>2 DEF Same3, LineOf, Cells
    <2> QED
        BY <1>1, <1>2, <1>4, <2>3
<1>5. CASE ~(\E y \in 0..2 : Row(y)) /\ ~(\E x \in 0..2 : Col(x)) /\ Diag
    <2>1. <<0, 0>> \in Cells /\ b[<<0, 0>>] # 0 /\ LineOf(b, b[<<0, 0>>])
        BY <1>5 DEF Same3, LineOf, Cells
    <2> QED
        BY <1>1, <1>2, <1>5, <2>1
<1>6. CASE ~(\E y \in 0..2 : Row(y)) /\ ~(\E x \in 0..2 : Col(x)) /\ ~Diag /\ Anti
    <2>1. <<2, 0>> \in Cells /\ b[<<2, 0>>] # 0 /\ LineOf(b, b[<<2, 0>>])
        BY <1>6 DEF Same3, LineOf, Cells
    <2> QED
        BY <1>1, <1>2, <1>6, <2>1
<1>7. CASE ~(\E y \in 0..2 : Row(y)) /\ ~(\E x \in 0..2 : Col(x)) /\ ~Diag /\ ~Anti
    <2>1. ~LineOf(b, 1) /\ ~LineOf(b, 2)
        BY <1>7 DEF Same3, LineOf
    <2>2. ~HasLine(b, 1) /\ ~HasLine(b, 2)
        BY <2>1, LinesAreLines
    <2>3. steps >= 9 <=> Taken(b) = Cells
        <3>1. Taken(b) \in SUBSET Cells
            BY DEF Taken
        <3>2. steps \in 0..9
            BY PiecesFinite
        <3>3. Cardinality(Taken(b)) = Cardinality(Cells) => Taken(b) = Cells
            BY <3>1, CellsCount, FS_Subset
        <3> QED
            BY <3>2, <3>3, CellsCount
    <2>4. check_win(b, steps) = IF steps >= 9 THEN "DRAW" ELSE "PLAYING"
        BY <1>1, <1>7
    <2> HIDE DEF steps
    <2> QED
        BY <2>2, <2>3, <2>4 DEF Outcome, steps
<1> QED
    BY <1>3, <1>4, <1>5, <1>6, <1>7

LEMMA EmptyBoardPlays == ~HasLine(EmptyBoard, 1) /\ ~HasLine(EmptyBoard, 2) /\ Outcome(EmptyBoard) = "PLAYING"
<1>1. \A c \in Cells : EmptyBoard[c] = 0
    BY DEF EmptyBoard
<1>2. ~LineOf(EmptyBoard, 1) /\ ~LineOf(EmptyBoard, 2)
    BY <1>1 DEF LineOf, Cells
<1>3. ~HasLine(EmptyBoard, 1) /\ ~HasLine(EmptyBoard, 2)
    BY <1>2, LinesAreLines
<1>4. Taken(EmptyBoard) # Cells
    <2>1. <<0, 0>> \in Cells
        BY DEF Cells
    <2>2. <<0, 0>> \notin Taken(EmptyBoard)
        BY <1>1, <2>1 DEF Taken
    <2> QED
        BY <2>1, <2>2
<1> QED
    BY <1>3, <1>4 DEF Outcome

\* A piece makes no line for the other player, so the one who has just moved
\* is the only one who can have a line.
LEMMA OutcomeKept ==
    ASSUME FieldsOK, StepsCountPieces, StateIsOutcome, [BoardNext]_gameVars
    PROVE  StateIsOutcome'
<1>1. CASE PlacePiece /\ board[cursor] = 0 /\ state = "PLAYING"
    <2>1. /\ FieldsOK' /\ cursor \in Cells
          /\ board' = [board EXCEPT ![cursor] = current_player + 1]
          /\ total_steps' = total_steps + 1
          /\ state' = check_win(board', total_steps')
        BY <1>1, Placing
    <2>2. ~HasLine(board, 1) /\ ~HasLine(board, 2)
        BY <1>1 DEF StateIsOutcome, Outcome
    <2>3. PICK q \in {1, 2} : q # current_player + 1
        BY DEF FieldsOK
    <2>4. \A c \in Cells : board'[c] = q => board[c] = q
        BY <2>1, <2>3 DEF FieldsOK
    <2>5. ~HasLine(board', q)
        <3>1. LineOf(board', q) => LineOf(board, q)
            BY <2>4 DEF LineOf, Cells
        <3> QED
            BY <2>2, <3>1, LinesAreLines
    <2>6. ~(HasLine(board', 1) /\ HasLine(board', 2))
        BY <2>5
    <2>7. total_steps' = Cardinality(Taken(board'))
        BY StepsKept DEF StepsCountPieces
    <2>8. check_win(board', Cardinality(Taken(board'))) = Outcome(board')
        BY <2>1, <2>6, CheckWinIsOutcome DEF FieldsOK
    <2> QED
        BY <2>1, <2>6, <2>7, <2>8 DEF StateIsOutcome
<1>2. CASE ResetRound
    BY <1>2, EmptyBoardPlays DEF ResetRound, StateIsOutcome
<1> QED
    BY <1>1, <1>2, Inputs, OtherInputs DEF StateIsOutcome, round

\* The state that check_win stores is the outcome the rules give to the board
\* after every sequence of inputs, a line completed by the ninth piece
\* included, and the two players never both have a line.
THEOREM StateStaysOutcome == BoardSpec => []StateIsOutcome
<1>1. BoardInit => StateIsOutcome
    BY EmptyBoardPlays DEF BoardInit, StateIsOutcome
<1>2. BInv /\ StateIsOutcome /\ [BoardNext]_gameVars => StateIsOutcome'
    BY OutcomeKept DEF BInv
<1> QED
    BY <1>1, <1>2, BInvInit, BInvNext, PTL DEF BoardSpec

-----------------------------------------------------------------------------
(* lcd_mutex *)

LockTypeOK ==
    /\ pc \in [Threads -> Labels]
    /\ blocked \in [Threads -> {"no", "mutex", "key_sem", "uart_rx_sem"}]
    /\ owner \in Threads \cup {"none"} /\ hold \in 0..2

\* The labels a take of lcd_mutex leads to.
Taking == {"clearFull", "clearCurrent", "scan", "draw", "exec", "unlock"}

\* A thread waits for lcd_mutex only while another one has it, and only in the
\* outermost of its takes.
WaitsForOther ==
    \A t \in Threads :
        blocked[t] = "mutex" => /\ owner \notin {"none", t}
                                /\ Nesting(t) = 1 /\ pc[t] \in Taking

\* The three threads are created by ox_game_start at the end of the shell's
\* part.
OffUntilStarted ==
    pc["shell"] # "done" => \A t \in {"key", "lcd", "cmd"} : pc[t] = "off"

LockInv ==
    /\ LockTypeOK /\ LockBalanced /\ WaitsForOther /\ OffUntilStarted
    /\ owner = "none" => hold = 0

LEMMA NestingType ==
    ASSUME NEW t
    PROVE  Nesting(t) \in 0..2 /\ Nesting(t)' \in 0..2
BY DEF Nesting

\* The thread that runs and holds the mutex is its owner, and no other thread
\* is inside a critical section.
LEMMA OneInside ==
    ASSUME LockInv, NEW t \in Threads, blocked[t] # "mutex", Nesting(t) # 0
    PROVE  /\ owner = t /\ hold = Nesting(t)
           /\ \A u \in Threads : u # t /\ Nesting(u) # 0 => blocked[u] = "mutex"
BY NestingType DEF LockInv, LockBalanced

\* A thread that takes lcd_mutex, nested or not, with or without waiting.
LEMMA TakeKeepsLock ==
    ASSUME LockInv, NEW t \in Threads, NEW l \in Taking, blocked[t] = "no", Take(t, l),
           Nesting(t) \in {0, 1}, Nesting(t)' = Nesting(t) + 1, pc[t] \notin {"off", "done"}
    PROVE  LockInv'
<1> USE DEF LockInv, LockTypeOK
<1>1. /\ pc' = [pc EXCEPT ![t] = l] /\ l \in Labels /\ l \notin {"off", "done"}
      /\ \A u \in Threads : u # t => Nesting(u)' = Nesting(u) /\ pc'[u] = pc[u]
    BY DEF Take, Goto, Taking, Labels, Nesting
<1>2. Nesting(t) = IF owner = t THEN hold ELSE 0
    BY DEF LockBalanced
<1>3. OffUntilStarted'
    BY <1>1 DEF OffUntilStarted, Threads
<1>4. CASE owner \in {"none", t}
    <2>1. owner' = t /\ hold' = hold + 1 /\ blocked' = blocked
        BY <1>4 DEF Take
    <2>2. hold = Nesting(t)
        BY <1>2, <1>4, <2>1
    <2>3. LockTypeOK'
        BY <1>1, <2>1, <2>2
    <2>4. LockBalanced'
        <3> SUFFICES ASSUME NEW u \in Threads, blocked[u] # "mutex"
                     PROVE  Nesting(u)' = IF t = u THEN hold + 1 ELSE 0
            BY <2>1 DEF LockBalanced
        <3>1. CASE u = t
            BY <2>2, <3>1
        <3>2. CASE u # t
            BY <1>1, <1>4, <3>2 DEF LockBalanced, Threads
        <3> QED
            BY <3>1, <3>2
    <2>5. WaitsForOther'
        BY <1>1, <1>4, <2>1 DEF WaitsForOther, Threads
    <2> QED
        BY <1>3, <2>1, <2>3, <2>4, <2>5 DEF Threads
<1>5. CASE owner \notin {"none", t}
    <2>1. blocked' = [blocked EXCEPT ![t] = "mutex"] /\ owner' = owner /\ hold' = hold
        BY <1>5 DEF Take, lockVars
    <2>2. LockTypeOK'
        BY <1>1, <2>1
    <2>3. LockBalanced'
        BY <1>1, <2>1 DEF LockBalanced
    <2>4. WaitsForOther'
        <3>1. Nesting(t)' = 1 /\ pc'[t] \in Taking
            BY <1>1, <1>2, <1>5
        <3> QED
            BY <1>1, <1>5, <2>1, <3>1 DEF WaitsForOther
    <2> QED
        BY <1>3, <2>1, <2>2, <2>3, <2>4
<1> QED
    BY <1>4, <1>5

\* Among threads that wait there is one of highest priority.
LEMMA BestWaiter ==
    ASSUME NEW W \in SUBSET Threads, W # {}
    PROVE  \E t \in W : \A u \in W : Priority(t) <= Priority(u)
<1>1. /\ Priority("cmd") = 7 /\ Priority("key") = 10
      /\ Priority("lcd") = 11 /\ Priority("shell") = 20
    BY DEF Priority
<1>2. CASE "cmd" \in W
    BY <1>1, <1>2 DEF Threads
<1>3. CASE "cmd" \notin W /\ "key" \in W
    BY <1>1, <1>3 DEF Threads
<1>4. CASE "cmd" \notin W /\ "key" \notin W /\ "lcd" \in W
    BY <1>1, <1>4 DEF Threads
<1>5. CASE "cmd" \notin W /\ "key" \notin W /\ "lcd" \notin W
    <2>1. W = {"shell"}
        BY <1>5 DEF Threads
    <2> QED
        BY <1>1, <2>1
<1> QED
    BY <1>2, <1>3, <1>4, <1>5

\* A thread that releases lcd_mutex and goes on to l.
LEMMA ReleaseKeepsLock ==
    ASSUME LockInv, NEW t \in Threads, NEW l \in Labels, blocked[t] = "no", Release, Goto(t, l),
           Nesting(t) \in {1, 2}, Nesting(t)' = Nesting(t) - 1,
           pc[t] \notin {"off", "done"}, l \notin {"off", "done"}
    PROVE  LockInv'
<1> USE DEF LockInv, LockTypeOK
<1> DEFINE W == {u \in Threads : blocked[u] = "mutex"}
           best == CHOOSE u \in W : \A v \in W : Priority(u) <= Priority(v)
<1>1. /\ pc' = [pc EXCEPT ![t] = l]
      /\ \A u \in Threads : u # t => Nesting(u)' = Nesting(u) /\ pc'[u] = pc[u]
    BY DEF Goto, Nesting
<1>2. owner = t /\ hold = Nesting(t)
    BY DEF LockBalanced
<1>3. OffUntilStarted'
    BY <1>1 DEF OffUntilStarted, Threads
<1>4. \A u \in Threads : u # t /\ blocked[u] # "mutex" => Nesting(u) = 0
    BY <1>2 DEF LockBalanced
<1>5. CASE hold > 1
    <2>1. hold' = hold - 1 /\ owner' = owner /\ blocked' = blocked
        BY <1>5 DEF Release
    <2>2. LockTypeOK'
        BY <1>1, <1>5, <2>1
    <2>3. LockBalanced'
        BY <1>1, <1>2, <1>4, <2>1 DEF LockBalanced
    <2>4. WaitsForOther'
        BY <1>1, <2>1 DEF WaitsForOther
    <2> QED
        BY <1>2, <1>3, <2>1, <2>2, <2>3, <2>4 DEF Threads
<1>6. CASE hold <= 1 /\ W = {}
    <2>1. owner' = "none" /\ hold' = 0 /\ blocked' = blocked
        BY <1>6 DEF Release
    <2>2. LockTypeOK'
        BY <1>1, <2>1
    <2>3. LockBalanced'
        BY <1>1, <1>2, <1>4, <1>6, <2>1 DEF LockBalanced, Threads
    <2>4. WaitsForOther'
        BY <1>6, <2>1 DEF WaitsForOther
    <2> QED
        BY <1>3, <2>1, <2>2, <2>3, <2>4
<1>7. CASE hold <= 1 /\ W # {}
    <2>1. owner' = best /\ hold' = 1 /\ blocked' = [blocked EXCEPT ![best] = "no"]
        BY <1>7 DEF Release
    <2>2. best \in W
        <3>1. \E u \in W : \A v \in W : Priority(u) <= Priority(v)
            BY <1>7, BestWaiter
        <3> QED
            BY <3>1
    <2> HIDE DEF best
    <2>3. best \in Threads /\ blocked[best] = "mutex" /\ best # t /\ Nesting(best) = 1
        BY <2>2 DEF WaitsForOther
    <2>4. LockTypeOK'
        BY <1>1, <2>1, <2>3
    <2>5. LockBalanced'
        <3> SUFFICES ASSUME NEW u \in Threads, blocked'[u] # "mutex"
                     PROVE  Nesting(u)' = IF best = u THEN 1 ELSE 0
            BY <2>1 DEF LockBalanced
        <3>1. CASE u = t
            BY <1>2, <1>7, <2>3, <3>1
        <3>2. CASE u # t
            BY <1>1, <1>4, <2>1, <2>3, <3>2
        <3> QED
            BY <3>1, <3>2
    <2>6. WaitsForOther'
        <3> SUFFICES ASSUME NEW u \in Threads, blocked'[u] = "mutex"
                     PROVE  best \notin {"none", u} /\ Nesting(u)' = 1 /\ pc'[u] \in Taking
            BY <2>1 DEF WaitsForOther
        <3>1. u # best /\ blocked[u] = "mutex" /\ u # t
            BY <2>1, <2>3
        <3>2. best # "none"
            BY <2>3 DEF Threads
        <3> QED
            BY <1>1, <3>1, <3>2 DEF WaitsForOther
    <2> QED
        BY <1>3, <2>1, <2>3, <2>4, <2>5, <2>6 DEF Threads
<1> QED
    BY <1>5, <1>6, <1>7

\* A step of a running thread that has nothing to do with lcd_mutex.
LEMMA OtherKeepsLock ==
    ASSUME LockInv, NEW t \in Threads, NEW l \in Labels, blocked[t] = "no", Goto(t, l),
           UNCHANGED lockVars, Nesting(t)' = Nesting(t),
           pc[t] \notin {"off", "done"}, l \notin {"off", "done"},
           blocked' \in [Threads -> {"no", "mutex", "key_sem", "uart_rx_sem"}],
           \A u \in Threads : blocked'[u] = "mutex" <=> blocked[u] = "mutex"
    PROVE  LockInv'
<1> USE DEF LockInv, LockTypeOK
<1>1. /\ pc' = [pc EXCEPT ![t] = l] /\ owner' = owner /\ hold' = hold
      /\ \A u \in Threads : u # t => Nesting(u)' = Nesting(u) /\ pc'[u] = pc[u]
    BY DEF Goto, Nesting, lockVars
<1>2. LockTypeOK'
    BY <1>1
<1>3. LockBalanced'
    BY <1>1 DEF LockBalanced
<1>4. WaitsForOther'
    BY <1>1 DEF WaitsForOther
<1>5. OffUntilStarted'
    BY <1>1 DEF OffUntilStarted, Threads
<1> QED
    BY <1>1, <1>2, <1>3, <1>4, <1>5

\* A step that moves no thread and leaves lcd_mutex alone.
LEMMA StillKeepsLock ==
    ASSUME LockInv, pc' = pc, UNCHANGED lockVars,
           blocked' \in [Threads -> {"no", "mutex", "key_sem", "uart_rx_sem"}],
           \A u \in Threads : blocked'[u] = "mutex" <=> blocked[u] = "mutex"
    PROVE  LockInv'
<1>1. \A u \in Threads : Nesting(u)' = Nesting(u)
    BY DEF Nesting
<1> QED
    BY <1>1 DEF LockInv, LockTypeOK, LockBalanced, WaitsForOther, OffUntilStarted, lockVars

LEMMA ResetGameKeepsLock ==
    ASSUME LockInv, NEW t \in {"shell", "lcd", "cmd"}, ResetGame(t)
    PROVE  LockInv'
<1> USE DEF At, Threads
<1>0. t \in Threads /\ pc \in [Threads -> Labels] /\ blocked \in [Threads -> {"no", "mutex", "key_sem", "uart_rx_sem"}]
    BY DEF LockInv, LockTypeOK
<1>1. CASE ResetTake(t)
    <2>1. PICK l \in {"clearFull", "clearCurrent"} : Take(t, l)
        BY <1>1 DEF ResetTake
    <2>2. blocked[t] = "no" /\ pc[t] \in {"resetFull", "resetCurrent"} /\ pc'[t] = l
        BY <1>0, <1>1, <2>1 DEF ResetTake, Take, Goto
    <2>3. Nesting(t) \in {0, 1} /\ Nesting(t)' = Nesting(t) + 1
        BY <2>2 DEF Nesting
    <2> QED
        BY <1>0, <2>1, <2>2, <2>3, TakeKeepsLock DEF Taking
<1>2. CASE ResetReturn(t)
    <2>1. /\ blocked[t] = "no" /\ pc[t] = "resetDelay" /\ Release
          /\ AfterReset(t) \in {"start", "relock", "unlock"} /\ Goto(t, AfterReset(t))
          /\ AfterReset(t) = "unlock" <=> t = "cmd"
        BY <1>2 DEF ResetReturn, AfterReset
    <2>2. PICK l \in {"start", "relock", "unlock"} : l = AfterReset(t)
        BY <2>1
    <2>3. pc'[t] = l /\ Goto(t, l)
        BY <1>0, <2>1, <2>2 DEF Goto
    <2>4. Nesting(t) \in {1, 2} /\ Nesting(t)' = Nesting(t) - 1
        BY <2>1, <2>2, <2>3 DEF Nesting
    <2> QED
        BY <1>0, <2>1, <2>3, <2>4, ReleaseKeepsLock DEF Labels
<1>3. ASSUME NEW l \in {"flushX", "flushO", "getX", "getO", "waitX", "waitO", "resetDelay"},
             Goto(t, l), UNCHANGED lockVars, blocked[t] = "no",
             pc[t] \in {"clearFull", "clearCurrent", "flushX", "flushO", "getX", "getO", "waitX",
                        "waitO"},
             blocked' \in [Threads -> {"no", "mutex", "key_sem", "uart_rx_sem"}],
             \A u \in Threads : blocked'[u] = "mutex" <=> blocked[u] = "mutex"
      PROVE  LockInv'
    <2>1. pc'[t] = l
        BY <1>0, <1>3 DEF Goto
    <2>2. Nesting(t)' = Nesting(t)
        BY <1>3, <2>1 DEF Nesting
    <2> QED
        BY <1>0, <1>3, <2>2, OtherKeepsLock DEF Labels
<1>4. CASE ResetClear(t)
    BY <1>0, <1>3, <1>4 DEF ResetClear
<1>5. CASE NameFlush(t)
    BY <1>0, <1>3, <1>5 DEF NameFlush
<1>6. CASE NameEmpty(t)
    BY <1>0, <1>3, <1>6 DEF NameEmpty
<1>7. CASE NameWait(t)
    <2>1. /\ blocked' \in [Threads -> {"no", "mutex", "key_sem", "uart_rx_sem"}]
          /\ \A u \in Threads : blocked'[u] = "mutex" <=> blocked[u] = "mutex"
        BY <1>0, <1>7 DEF NameWait, TakeRxSem
    <2> QED
        BY <1>3, <1>7, <2>1 DEF NameWait, TakeRxSem
<1>8. CASE NameChar(t)
    <2>1. CASE pc' = pc
        BY <1>0, <1>8, <2>1, StillKeepsLock DEF NameChar
    <2>2. CASE Goto(t, "flushO") \/ Goto(t, "resetDelay")
        BY <1>0, <1>3, <1>8, <2>2 DEF NameChar
    <2> QED
        BY <1>8, <2>1, <2>2 DEF NameChar
<1> QED
    BY <1>1, <1>2, <1>4, <1>5, <1>6, <1>7, <1>8 DEF ResetGame

LEMMA StartKeepsLock ==
    ASSUME LockInv, Start
    PROVE  LockInv'
<1>1. /\ pc["shell"] = "start" /\ blocked["shell"] = "no"
      /\ pc["key"] = "off" /\ pc["lcd"] = "off" /\ pc["cmd"] = "off"
      /\ pc' = [shell |-> "done", key |-> "take", lcd |-> "lock", cmd |-> "take"]
      /\ blocked' = blocked /\ owner' = owner /\ hold' = hold
    BY DEF LockInv, OffUntilStarted, Start, At, lockVars
<1>2. \A u \in Threads : Nesting(u) = 0 /\ Nesting(u)' = 0 /\ blocked[u] # "mutex"
    <2>1. \A u \in Threads : Nesting(u) = 0 /\ Nesting(u)' = 0
        BY <1>1 DEF Nesting, Threads
    <2> QED
        BY <2>1 DEF LockInv, WaitsForOther
<1>3. pc' \in [Threads -> Labels]
    BY <1>1 DEF Threads, Labels
<1> QED
    BY <1>1, <1>2, <1>3 DEF LockInv, LockTypeOK, LockBalanced, WaitsForOther, OffUntilStarted

LEMMA KeyKeepsLock ==
    ASSUME LockInv, KeyThread
    PROVE  LockInv'
<1> USE DEF At
<1>0. /\ "key" \in Threads /\ pc \in [Threads -> Labels]
      /\ blocked \in [Threads -> {"no", "mutex", "key_sem", "uart_rx_sem"}]
    BY DEF LockInv, LockTypeOK, Threads
<1>1. CASE KeyTake
    <2>1. Nesting("key")' = Nesting("key")
        BY <1>0, <1>1 DEF KeyTake, Goto, Nesting
    <2>2. /\ blocked' \in [Threads -> {"no", "mutex", "key_sem", "uart_rx_sem"}]
          /\ \A u \in Threads : blocked'[u] = "mutex" <=> blocked[u] = "mutex"
        BY <1>0, <1>1 DEF KeyTake
    <2> QED
        BY <1>0, <1>1, <2>1, <2>2, OtherKeepsLock DEF KeyTake, Labels
<1>2. CASE KeyLock
    <2>1. Nesting("key") = 0 /\ Nesting("key")' = 1
        BY <1>0, <1>2 DEF KeyLock, Take, Goto, Nesting
    <2> QED
        BY <1>0, <1>2, <2>1, TakeKeepsLock DEF KeyLock, Taking
<1>3. ASSUME blocked["key"] = "no", pc["key"] \in {"scan", "settle"}, Goto("key", "enable"), Release
      PROVE  LockInv'
    <2>1. Nesting("key") = 1 /\ Nesting("key")' = 0
        BY <1>0, <1>3 DEF Goto, Nesting
    <2> QED
        BY <1>0, <1>3, <2>1, ReleaseKeepsLock DEF Labels
<1>5. CASE KeyScan
    <2>1. CASE Goto("key", "enable") /\ Release
        BY <1>3, <1>5, <2>1 DEF KeyScan
    <2>2. CASE Goto("key", "settle") /\ UNCHANGED <<blocked, lockVars>>
        <3>1. Nesting("key")' = Nesting("key") /\ blocked["key"] = "no"
            BY <1>0, <1>5, <2>2 DEF KeyScan, Goto, Nesting
        <3> QED
            BY <1>0, <1>5, <2>2, <3>1, OtherKeepsLock DEF KeyScan, Labels
    <2> QED
        BY <1>5, <2>1, <2>2 DEF KeyScan
<1>6. CASE SettlePiece("key")
    BY <1>3, <1>6 DEF SettlePiece
<1>4. CASE KeyEnable
    <2>1. Nesting("key")' = Nesting("key")
        BY <1>0, <1>4 DEF KeyEnable, Goto, Nesting
    <2> QED
        BY <1>0, <1>4, <2>1, OtherKeepsLock DEF KeyEnable, Labels
<1> QED
    BY <1>1, <1>2, <1>4, <1>5, <1>6 DEF KeyThread

LEMMA LcdKeepsLock ==
    ASSUME LockInv, LcdThread
    PROVE  LockInv'
<1> USE DEF At
<1>0. /\ "lcd" \in Threads /\ pc \in [Threads -> Labels]
      /\ blocked \in [Threads -> {"no", "mutex", "key_sem", "uart_rx_sem"}]
    BY DEF LockInv, LockTypeOK, Threads
<1>1. CASE LcdLock
    <2>1. PICK l \in {"draw", "unlock"} : Take("lcd", l)
        BY <1>1 DEF LcdLock
    <2>2. blocked["lcd"] = "no" /\ pc["lcd"] \in {"lock", "relock"}
        BY <1>1 DEF LcdLock
    <2>3. Nesting("lcd") = 0 /\ Nesting("lcd")' = 1
        BY <1>0, <2>1, <2>2 DEF Take, Goto, Nesting
    <2> QED
        BY <1>0, <2>1, <2>2, <2>3, TakeKeepsLock DEF Taking
<1>2. CASE LcdDraw \/ LcdUnlock
    <2>1. PICK l \in {"lock", "announce"} : Goto("lcd", l)
        BY <1>2 DEF LcdDraw, LcdUnlock
    <2>2. Release /\ blocked["lcd"] = "no" /\ pc["lcd"] \in {"draw", "unlock"}
        BY <1>2 DEF LcdDraw, LcdUnlock
    <2>3. Nesting("lcd") = 1 /\ Nesting("lcd")' = 0
        BY <1>0, <2>1, <2>2 DEF Goto, Nesting
    <2> QED
        BY <1>0, <2>1, <2>2, <2>3, ReleaseKeepsLock DEF Labels
<1>3. CASE LcdAnnounced
    <2>1. Nesting("lcd")' = Nesting("lcd")
        BY <1>0, <1>3 DEF LcdAnnounced, Goto, Nesting
    <2> QED
        BY <1>0, <1>3, <2>1, OtherKeepsLock DEF LcdAnnounced, Labels
<1>4. CASE ResetGame("lcd")
    BY <1>4, ResetGameKeepsLock
<1> QED
    BY <1>1, <1>2, <1>3, <1>4 DEF LcdThread

LEMMA ReleaseRxSemBlocks ==
    ASSUME LockInv, ReleaseRxSem
    PROVE  /\ blocked' \in [Threads -> {"no", "mutex", "key_sem", "uart_rx_sem"}]
           /\ \A u \in Threads : blocked'[u] = "mutex" <=> blocked[u] = "mutex"
BY DEF LockInv, LockTypeOK, ReleaseRxSem

LEMMA CmdKeepsLock ==
    ASSUME LockInv, CmdThread
    PROVE  LockInv'
<1> USE DEF At
<1>0. /\ "cmd" \in Threads /\ pc \in [Threads -> Labels]
      /\ blocked \in [Threads -> {"no", "mutex", "key_sem", "uart_rx_sem"}]
    BY DEF LockInv, LockTypeOK, Threads
<1>1. ASSUME NEW l \in {"get", "release", "lock", "take"}, Goto("cmd", l), UNCHANGED lockVars,
             blocked["cmd"] = "no", pc["cmd"] \in {"take", "get", "release"},
             blocked' \in [Threads -> {"no", "mutex", "key_sem", "uart_rx_sem"}],
             \A u \in Threads : blocked'[u] = "mutex" <=> blocked[u] = "mutex"
      PROVE  LockInv'
    <2>1. Nesting("cmd")' = Nesting("cmd")
        BY <1>0, <1>1 DEF Goto, Nesting
    <2> QED
        BY <1>0, <1>1, <2>1, OtherKeepsLock DEF Labels
<1>2. CASE CmdTake
    <2>1. /\ blocked' \in [Threads -> {"no", "mutex", "key_sem", "uart_rx_sem"}]
          /\ \A u \in Threads : blocked'[u] = "mutex" <=> blocked[u] = "mutex"
        BY <1>0, <1>2 DEF CmdTake, TakeRxSem
    <2> QED
        BY <1>1, <1>2, <2>1 DEF CmdTake, TakeRxSem
<1>3. CASE CmdGet
    BY <1>0, <1>1, <1>3 DEF CmdGet
<1>4. CASE CmdRelease
    BY <1>1, <1>4, ReleaseRxSemBlocks DEF CmdRelease
<1>5. CASE CmdLock
    <2>1. Nesting("cmd") = 0 /\ Nesting("cmd")' = 1
        BY <1>0, <1>5 DEF CmdLock, Take, Goto, Nesting
    <2> QED
        BY <1>0, <1>5, <2>1, TakeKeepsLock DEF CmdLock, Taking
<1>6. ASSUME Release, Goto("cmd", "get"), blocked["cmd"] = "no",
             pc["cmd"] \in {"exec", "settle", "unlock"}
      PROVE  LockInv'
    <2>1. Nesting("cmd") = 1 /\ Nesting("cmd")' = 0
        BY <1>0, <1>6 DEF Goto, Nesting
    <2> QED
        BY <1>0, <1>6, <2>1, ReleaseKeepsLock DEF Labels
<1>9. CASE CmdExec
    <2>1. CASE Goto("cmd", "get") /\ Release
        BY <1>6, <1>9, <2>1 DEF CmdExec
    <2>2. CASE Goto("cmd", "settle") /\ UNCHANGED <<blocked, lockVars>>
        <3>1. Nesting("cmd")' = Nesting("cmd") /\ blocked["cmd"] = "no"
            BY <1>0, <1>9, <2>2 DEF CmdExec, Goto, Nesting
        <3> QED
            BY <1>0, <1>9, <2>2, <3>1, OtherKeepsLock DEF CmdExec, Labels
    <2> QED
        BY <1>9, <2>1, <2>2 DEF CmdExec
<1>10. CASE CmdUnlock
    BY <1>6, <1>10 DEF CmdUnlock
<1>11. CASE SettlePiece("cmd")
    BY <1>6, <1>11 DEF SettlePiece
<1>7. CASE CmdReset
    <2>1. PICK l \in {"resetFull", "resetCurrent"} : Goto("cmd", l)
        BY <1>7 DEF CmdReset
    <2>2. Nesting("cmd")' = Nesting("cmd")
        BY <1>0, <1>7, <2>1 DEF CmdReset, Goto, Nesting
    <2> QED
        BY <1>0, <1>7, <2>1, <2>2, OtherKeepsLock DEF CmdReset, Labels
<1>8. CASE ResetGame("cmd")
    BY <1>8, ResetGameKeepsLock
<1> QED
    BY <1>2, <1>3, <1>4, <1>5, <1>7, <1>8, <1>9, <1>10, <1>11 DEF CmdThread

LEMMA EnvironmentKeepsLock ==
    ASSUME LockInv, Environment
    PROVE  LockInv'
<1>1. ASSUME NEW s, uart_rx_ind(s)
      PROVE  LockInv'
    BY <1>1, ReleaseRxSemBlocks, StillKeepsLock DEF uart_rx_ind
<1>2. ASSUME NEW p, Press(p)
      PROVE  LockInv'
    <2>1. /\ blocked' \in [Threads -> {"no", "mutex", "key_sem", "uart_rx_sem"}]
          /\ \A u \in Threads : blocked'[u] = "mutex" <=> blocked[u] = "mutex"
        BY <1>2 DEF Press, LockInv, LockTypeOK
    <2> QED
        BY <1>2, <2>1, StillKeepsLock DEF Press
<1>3. ASSUME NEW p, LetGo(p)
      PROVE  LockInv'
    BY <1>3, StillKeepsLock DEF LetGo, LockInv, LockTypeOK
<1> QED
    BY <1>1, <1>2, <1>3 DEF Environment

LEMMA LockInvInit == Init => LockInv
<1> SUFFICES ASSUME Init PROVE LockInv
    OBVIOUS
<1>1. /\ pc \in {[shell |-> "resetFull", key |-> "off", lcd |-> "off", cmd |-> "off"],
                 [shell |-> "done", key |-> "take", lcd |-> "lock", cmd |-> "take"]}
      /\ blocked = [t \in Threads |-> "no"] /\ owner = "none" /\ hold = 0
    BY DEF Init, InitObjects, FreshStart, GameUnderWay
<1>2. pc \in [Threads -> Labels] /\ OffUntilStarted
    BY <1>1 DEF Threads, Labels, OffUntilStarted
<1>3. \A t \in Threads : Nesting(t) = 0
    BY <1>1 DEF Nesting, Threads
<1>4. "none" \notin Threads
    BY DEF Threads
<1> QED
    BY <1>1, <1>2, <1>3, <1>4 DEF LockInv, LockTypeOK, LockBalanced, WaitsForOther

LEMMA LockInvNext == LockInv /\ [Next]_vars => LockInv'
<1> SUFFICES ASSUME LockInv, [Next]_vars PROVE LockInv'
    OBVIOUS
<1>1. CASE UNCHANGED vars
    BY <1>1, StillKeepsLock DEF vars, lockVars, LockInv, LockTypeOK
<1>2. CASE Next
    BY <1>2, ResetGameKeepsLock, StartKeepsLock, KeyKeepsLock, LcdKeepsLock, CmdKeepsLock,
       EnvironmentKeepsLock DEF Next, ShellThread
<1> QED
    BY <1>1, <1>2

LEMMA LockInvariance == Spec => []LockInv
BY LockInvInit, LockInvNext, PTL DEF Spec

\* lcd_mutex is taken and released in pairs on every path of the three
\* threads, the nested reset of a command and the shell's set-up included, for
\* any inputs: no two threads are inside a critical section together.
THEOREM LockStaysBalanced == Spec => []LockBalanced
<1>1. LockInv => LockBalanced
    BY DEF LockInv
<1> QED
    BY <1>1, LockInvariance, PTL

-----------------------------------------------------------------------------
(* The game, as the threads change it *)

\* The inputs that are handled in one step.
WholeInput ==
    \/ MoveLeft \/ MoveRight \/ MoveDown \/ MoveUp \/ ResetRound
    \/ state_changed /\ Redraw
    \/ UNCHANGED gameVars

\* The second half of a placement.
Settled ==
    /\ total_steps' = total_steps + 1 /\ state' = check_win(board, total_steps')
    /\ current_player' = 1 - current_player /\ state_changed' = TRUE
    /\ UNCHANGED <<board, cursor_x, cursor_y>>

LEMMA HandledInputs ==
    /\ \A r : ActivePin(r) \in Pins
    /\ \A p \in Pins : HandlePin(p) => WholeInput
    /\ \A ch : HandleCmd(ch) => WholeInput
<1>1. \A r : ActivePin(r) \in Pins
    BY DEF ActivePin, Pins
<1>2. \A p \in Pins : HandlePin(p) => WholeInput
    BY DEF HandlePin, Pins, WholeInput
<1>3. \A ch : HandleCmd(ch) => WholeInput
    BY DEF HandleCmd, WholeInput
<1> QED
    BY <1>1, <1>2, <1>3

\* A thread that runs in a critical section, and is not placing a piece itself,
\* runs while nobody is: the one that is has lcd_mutex.
LEMMA NobodyPlaces ==
    ASSUME LockInv, NEW t \in Threads, blocked[t] = "no", Nesting(t) # 0
    PROVE  \A u \in Threads : u # t => pc[u] # "settle"
<1> SUFFICES ASSUME NEW u \in Threads, u # t, pc[u] = "settle"
             PROVE  FALSE
    OBVIOUS
<1>1. Nesting(u) # 0
    BY DEF Nesting
<1>2. blocked[u] = "mutex"
    BY <1>1, OneInside
<1> QED
    BY <1>2 DEF LockInv, WaitsForOther, Taking

\* What a step does to the game, by whether a piece is half placed.
GameStep ==
    \/ UNCHANGED gameVars /\ (HalfPlaced' <=> HalfPlaced)
    \/ ~HalfPlaced /\ ~HalfPlaced' /\ WholeInput
    \/ ~HalfPlaced /\ HalfPlaced' /\ PutPiece
    \/ HalfPlaced /\ ~HalfPlaced' /\ Settled

\* A step of one thread that is neither in nor into the middle of a placement.
LEMMA MovesAreQuiet ==
    ASSUME LockInv, NEW t \in Threads, NEW l, Goto(t, l), UNCHANGED gameVars,
           pc[t] # "settle", l # "settle"
    PROVE  GameStep
<1>1. pc' = [pc EXCEPT ![t] = l] /\ pc \in [Threads -> Labels]
    BY DEF Goto, LockInv, LockTypeOK
<1>2. HalfPlaced' <=> HalfPlaced
    BY <1>1 DEF HalfPlaced
<1> QED
    BY <1>2 DEF GameStep

\* A whole input, and the two halves of a placement, in a critical section.
LEMMA InputsAreWhole ==
    ASSUME LockInv, NEW t \in Threads, blocked[t] = "no", Nesting(t) # 0, NEW l, Goto(t, l),
           \/ WholeInput /\ pc[t] # "settle" /\ l # "settle"
           \/ PutPiece /\ pc[t] # "settle" /\ l = "settle"
           \/ Settled /\ pc[t] = "settle" /\ l # "settle"
    PROVE  GameStep
<1>1. pc' = [pc EXCEPT ![t] = l] /\ pc \in [Threads -> Labels]
    BY DEF Goto, LockInv, LockTypeOK
<1>2. \A u \in Threads : u # t => pc[u] # "settle" /\ pc'[u] # "settle"
    BY <1>1, NobodyPlaces
<1>3. (HalfPlaced <=> pc[t] = "settle") /\ (HalfPlaced' <=> l = "settle")
    BY <1>1, <1>2 DEF HalfPlaced
<1> QED
    BY <1>3 DEF GameStep

LEMMA StillIsQuiet ==
    ASSUME UNCHANGED gameVars, pc' = pc
    PROVE  GameStep
BY DEF GameStep, HalfPlaced

LEMMA ResetGameSteps ==
    ASSUME LockInv, NEW t \in {"shell", "lcd", "cmd"}, ResetGame(t)
    PROVE  GameStep
<1> USE DEF At
<1>0. t \in Threads /\ pc \in [Threads -> Labels]
    BY DEF Threads, LockInv, LockTypeOK
<1>1. CASE ResetClear(t)
    <2>1. PICK l \in {"flushX", "resetDelay"} : Goto(t, l)
        BY <1>1 DEF ResetClear
    <2>2. blocked[t] = "no" /\ Nesting(t) # 0 /\ pc[t] # "settle" /\ ResetRound
        BY <1>1 DEF ResetClear, Nesting
    <2> QED
        BY <1>0, <2>1, <2>2, InputsAreWhole DEF WholeInput
<1>2. CASE ResetTake(t) \/ NameFlush(t) \/ NameEmpty(t) \/ NameWait(t)
    <2>1. PICK l \in {"clearFull", "clearCurrent", "getX", "getO", "waitX", "waitO"} : Goto(t, l)
        BY <1>2 DEF ResetTake, Take, NameFlush, NameEmpty, NameWait, TakeRxSem
    <2>2. UNCHANGED gameVars /\ pc[t] # "settle"
        BY <1>2 DEF ResetTake, NameFlush, NameEmpty, NameWait
    <2> QED
        BY <1>0, <2>1, <2>2, MovesAreQuiet
<1>3. CASE NameChar(t)
    <2>1. pc' = pc \/ \E l \in {"flushO", "resetDelay"} : Goto(t, l)
        BY <1>3 DEF NameChar
    <2>2. UNCHANGED gameVars /\ pc[t] # "settle"
        BY <1>3 DEF NameChar
    <2> QED
        BY <1>0, <2>1, <2>2, MovesAreQuiet, StillIsQuiet
<1>4. CASE ResetReturn(t)
    <2>1. PICK l : l = AfterReset(t) /\ l \in {"start", "relock", "unlock"}
        BY DEF AfterReset
    <2>2. Goto(t, l) /\ UNCHANGED gameVars /\ pc[t] # "settle"
        BY <1>4, <2>1 DEF ResetReturn, Goto
    <2> QED
        BY <1>0, <2>1, <2>2, MovesAreQuiet
<1> QED
    BY <1>1, <1>2, <1>3, <1>4 DEF ResetGame

LEMMA SettleSteps ==
    ASSUME LockInv, NEW t \in {"key", "cmd"}, SettlePiece(t)
    PROVE  GameStep
<1>1. t \in Threads /\ blocked[t] = "no" /\ pc[t] = "settle" /\ Settled
    BY DEF SettlePiece, Settled, At, Threads
<1>2. PICK l \in {"enable", "get"} : Goto(t, l)
    BY DEF SettlePiece, Goto
<1>3. Nesting(t) # 0
    BY <1>1 DEF Nesting
<1> QED
    BY <1>1, <1>2, <1>3, InputsAreWhole

LEMMA GameSteps ==
    ASSUME LockInv, [Next]_vars
    PROVE  GameStep
<1> USE DEF At
<1>0. "shell" \in Threads /\ "key" \in Threads /\ "lcd" \in Threads /\ "cmd" \in Threads
    BY DEF Threads
<1>1. CASE UNCHANGED vars
    BY <1>1, StillIsQuiet DEF vars
<1>2. CASE Start
    <2>1. \A u \in Threads : pc[u] # "settle" /\ pc'[u] # "settle"
        BY <1>2 DEF Start, LockInv, OffUntilStarted, Threads
    <2> QED
        BY <1>2, <2>1 DEF Start, GameStep, HalfPlaced
<1>3. CASE KeyThread
    <2>1. CASE KeyScan
        <3>1. blocked["key"] = "no" /\ pc["key"] = "scan" /\ Nesting("key") # 0
            BY <2>1 DEF KeyScan, Nesting
        <3>2. \/ WholeInput /\ Goto("key", "enable")
              \/ PutPiece /\ Goto("key", "settle")
            BY <2>1, HandledInputs DEF KeyScan
        <3> QED
            BY <1>0, <3>1, <3>2, InputsAreWhole
    <2>2. CASE KeyTake \/ KeyLock \/ KeyEnable
        <3>1. PICK l \in {"debounce", "scan", "take"} : Goto("key", l)
            BY <2>2 DEF KeyTake, KeyLock, KeyEnable, Take
        <3>2. UNCHANGED gameVars /\ pc["key"] # "settle"
            BY <2>2 DEF KeyTake, KeyLock, KeyEnable
        <3> QED
            BY <1>0, <3>1, <3>2, MovesAreQuiet
    <2> QED
        BY <1>3, <2>1, <2>2, SettleSteps DEF KeyThread
<1>4. CASE LcdThread
    <2>1. CASE LcdDraw
        <3>1. blocked["lcd"] = "no" /\ pc["lcd"] = "draw" /\ Nesting("lcd") # 0
            BY <2>1 DEF LcdDraw, Nesting
        <3>2. PICK l \in {"lock", "announce"} : Goto("lcd", l)
            BY <2>1 DEF LcdDraw
        <3>3. WholeInput
            BY <2>1 DEF LcdDraw, WholeInput
        <3> QED
            BY <1>0, <3>1, <3>2, <3>3, InputsAreWhole
    <2>2. CASE LcdLock \/ LcdAnnounced \/ LcdUnlock
        <3>1. PICK l \in {"draw", "unlock", "lock", "resetCurrent"} : Goto("lcd", l)
            BY <2>2 DEF LcdLock, LcdAnnounced, LcdUnlock, Take
        <3>2. UNCHANGED gameVars /\ pc["lcd"] # "settle"
            BY <2>2 DEF LcdLock, LcdAnnounced, LcdUnlock
        <3> QED
            BY <1>0, <3>1, <3>2, MovesAreQuiet
    <2> QED
        BY <1>4, <2>1, <2>2, ResetGameSteps DEF LcdThread
<1>5. CASE CmdThread
    <2>1. CASE CmdExec
        <3>1. blocked["cmd"] = "no" /\ pc["cmd"] = "exec" /\ Nesting("cmd") # 0
            BY <2>1 DEF CmdExec, Nesting
        <3>2. \/ WholeInput /\ Goto("cmd", "get")
              \/ PutPiece /\ Goto("cmd", "settle")
            BY <2>1, HandledInputs DEF CmdExec
        <3> QED
            BY <1>0, <3>1, <3>2, InputsAreWhole
    <2>2. CASE CmdTake \/ CmdGet \/ CmdLock \/ CmdReset \/ CmdUnlock \/ CmdRelease
        <3>1. PICK l \in {"get", "release", "lock", "exec", "resetFull", "resetCurrent", "take"} :
                  Goto("cmd", l)
            BY <2>2 DEF CmdTake, TakeRxSem, CmdGet, CmdLock, Take, CmdReset, CmdUnlock, CmdRelease
        <3>2. UNCHANGED gameVars /\ pc["cmd"] # "settle"
            BY <2>2 DEF CmdTake, CmdGet, CmdLock, CmdReset, CmdUnlock, CmdRelease
        <3> QED
            BY <1>0, <3>1, <3>2, MovesAreQuiet
    <2> QED
        BY <1>5, <2>1, <2>2, SettleSteps, ResetGameSteps DEF CmdThread
<1>6. CASE Environment
    BY <1>6, StillIsQuiet DEF Environment, uart_rx_ind, Press, LetGo
<1> QED
    BY <1>1, <1>2, <1>3, <1>4, <1>5, <1>6, ResetGameSteps DEF Next, ShellThread

\* A piece that is half placed is on the board and not counted yet; the game
\* was on and it is its player's turn.
HalfRight ==
    /\ total_steps = IF HalfPlaced THEN Cardinality(Taken(board)) - 1 ELSE Cardinality(Taken(board))
    /\ HalfPlaced => board[cursor] = current_player + 1 /\ state = "PLAYING"

PlaceInv == FieldsOK /\ HalfRight

LEMMA PlaceInvNext ==
    ASSUME PlaceInv, GameStep
    PROVE  PlaceInv'
<1>0. FieldsOK /\ cursor \in Cells /\ cursor = <<cursor_x, cursor_y>>
    BY DEF PlaceInv, FieldsOK, cursor, Cells
<1>1. CASE UNCHANGED gameVars /\ (HalfPlaced' <=> HalfPlaced)
    BY <1>1 DEF PlaceInv, FieldsOK, HalfRight, gameVars, cursor
<1>2. CASE ~HalfPlaced /\ ~HalfPlaced' /\ WholeInput
    <2>1. CASE ResetRound
        BY <1>2, <2>1, EmptyBoardCount DEF ResetRound, PlaceInv, FieldsOK, HalfRight, GameState
    <2>2. CASE ~ResetRound
        <3>1. FieldsOK' /\ UNCHANGED round
            BY <1>0, <1>2, <2>2, OtherInputs DEF WholeInput
        <3> QED
            BY <1>2, <3>1 DEF PlaceInv, HalfRight, round
    <2> QED
        BY <2>1, <2>2
<1>3. CASE ~HalfPlaced /\ HalfPlaced' /\ PutPiece
    <2>1. /\ board[cursor] = 0 /\ state = "PLAYING" /\ cursor' = cursor
          /\ board' = [board EXCEPT ![cursor] = current_player + 1]
          /\ UNCHANGED <<cursor_x, cursor_y, current_player, total_steps, state, state_changed>>
        BY <1>3 DEF PutPiece, MayPlace, cursor
    <2>2. FieldsOK'
        BY <1>0, <2>1 DEF FieldsOK
    <2>3. Taken(board') = Taken(board) \cup {cursor} /\ cursor \notin Taken(board)
        BY <1>0, <2>1 DEF FieldsOK, Taken
    <2>4. Cardinality(Taken(board')) = Cardinality(Taken(board)) + 1 /\ Cardinality(Taken(board)) \in Nat
        <3>1. IsFiniteSet(Taken(board)) /\ Cardinality(Taken(board)) \in Nat
            BY PiecesFinite
        <3>2. Cardinality(Taken(board) \cup {cursor}) = Cardinality(Taken(board)) + 1
            BY <2>3, <3>1, FS_AddElement
        <3> QED
            BY <2>3, <3>1, <3>2
    <2>5. total_steps' = Cardinality(Taken(board')) - 1
        BY <1>3, <2>1, <2>4 DEF PlaceInv, HalfRight
    <2>6. board'[cursor'] = current_player' + 1
        BY <1>0, <2>1 DEF FieldsOK
    <2> QED
        BY <1>3, <2>1, <2>2, <2>5, <2>6 DEF PlaceInv, HalfRight
<1>4. CASE HalfPlaced /\ ~HalfPlaced' /\ Settled
    <2>1. Cardinality(Taken(board)) \in Nat
        BY <1>0, PiecesFinite DEF FieldsOK
    <2>2. total_steps' = Cardinality(Taken(board')) /\ state' \in GameState
        BY <1>4, <2>1, CheckWinType DEF PlaceInv, HalfRight, Settled
    <2>3. FieldsOK'
        BY <1>0, <1>4, <2>2 DEF FieldsOK, Settled
    <2> QED
        BY <1>4, <2>2, <2>3 DEF PlaceInv, HalfRight
<1> QED
    BY <1>1, <1>2, <1>3, <1>4 DEF GameStep

LEMMA PlaceInvariance == Spec => []PlaceInv
<1>1. Init => FieldsOK /\ StepsCountPieces /\ ~HalfPlaced
    <2>1. ASSUME InitObjects, FreshStart
          PROVE  FieldsOK /\ StepsCountPieces
        <3>1. /\ board = EmptyBoard /\ total_steps = 0 /\ cursor_x = 0 /\ cursor_y = 0
              /\ current_player = 0 /\ state = "PLAYING" /\ state_changed = FALSE
            BY <2>1 DEF FreshStart
        <3>2. StepsCountPieces
            BY <3>1, EmptyBoardCount DEF StepsCountPieces
        <3>3. state_changed \in BOOLEAN
            BY <3>1, Zenon
        <3>4. board \in [Cells -> 0..2]
            BY <3>1, EmptyBoardCount
        <3>5. cursor_x \in 0..2 /\ cursor_y \in 0..2 /\ current_player \in {0, 1}
            BY <3>1
        <3>6. state \in GameState
            BY <3>1 DEF GameState
        <3> QED
            BY <3>2, <3>3, <3>4, <3>5, <3>6, Zenon DEF FieldsOK
    <2>2. ASSUME InitObjects, GameUnderWay
          PROVE  FieldsOK /\ StepsCountPieces
        <3>1. total_steps \in 0..9
            BY <2>2, PiecesFinite DEF GameUnderWay
        <3>2. current_player \in {0, 1}
            BY <2>2, <3>1 DEF GameUnderWay
        <3> QED
            BY <2>2, <3>2, SizesAssumption DEF GameUnderWay, FieldsOK, StepsCountPieces, GameState
    <2>3. Init => ~HalfPlaced
        BY DEF Init, FreshStart, GameUnderWay, HalfPlaced, Threads
    <2> QED
        BY <2>1, <2>2, <2>3 DEF Init
<1>2. Init => PlaceInv
    BY <1>1 DEF PlaceInv, HalfRight, StepsCountPieces
<1>3. PlaceInv /\ LockInv /\ [Next]_vars => PlaceInv'
    BY GameSteps, PlaceInvNext
<1> QED
    BY <1>2, <1>3, LockInvariance, PTL DEF Spec

LEMMA SameCheckWin == \A b, steps : Rules!check_win(b, steps) = check_win(b, steps)
BY DEF Rules!check_win, check_win, Rules!Winner, Winner, Rules!Same3, Same3

LEMMA StepsRefine ==
    ASSUME PlaceInv, GameStep
    PROVE  [Rules!BoardNext]_(Rules!gameVars)
<1>0. /\ board \in [Cells -> 0..2] /\ cursor \in Cells /\ cursor = <<cursor_x, cursor_y>>
      /\ current_player \in {0, 1}
    BY DEF PlaceInv, FieldsOK, cursor, Cells
<1>1. CASE UNCHANGED gameVars /\ (HalfPlaced' <=> HalfPlaced)
    BY <1>1 DEF gameVars, Rules!gameVars, BoardSoFar, cursor
<1>2. CASE ~HalfPlaced /\ ~HalfPlaced' /\ WholeInput
    <2>1. BoardSoFar = board /\ BoardSoFar' = board'
        BY <1>2 DEF BoardSoFar
    <2>2. CASE MoveLeft \/ MoveRight \/ MoveDown \/ MoveUp
        BY <2>1, <2>2 DEF MoveLeft, MoveRight, MoveDown, MoveUp, round, Rules!BoardNext,
            Rules!MoveLeft, Rules!MoveRight, Rules!MoveDown, Rules!MoveUp, Rules!round
    <2>3. CASE ResetRound
        BY <2>1, <2>3 DEF ResetRound, EmptyBoard, Cells, Rules!BoardNext, Rules!ResetRound,
            Rules!EmptyBoard, Rules!Cells
    <2>4. CASE state_changed /\ Redraw
        BY <2>1, <2>4 DEF Redraw, round, Rules!BoardNext, Rules!Redraw, Rules!round
    <2>5. CASE UNCHANGED gameVars
        BY <2>1, <2>5 DEF gameVars, Rules!gameVars
    <2> QED
        BY <1>2, <2>2, <2>3, <2>4, <2>5 DEF WholeInput
<1>3. CASE ~HalfPlaced /\ HalfPlaced' /\ PutPiece
    <2>1. /\ board[cursor] = 0 /\ cursor' = cursor
          /\ board' = [board EXCEPT ![cursor] = current_player + 1]
          /\ UNCHANGED <<cursor_x, cursor_y, current_player, total_steps, state, state_changed>>
        BY <1>3 DEF PutPiece, MayPlace, cursor
    <2>2. [board' EXCEPT ![cursor] = 0] = board
        BY <1>0, <2>1
    <2>3. BoardSoFar' = board /\ BoardSoFar = board
        BY <1>3, <2>1, <2>2 DEF BoardSoFar
    <2> QED
        BY <2>1, <2>3 DEF Rules!gameVars
<1>4. CASE HalfPlaced /\ ~HalfPlaced' /\ Settled
    <2>1. board[cursor] = current_player + 1 /\ state = "PLAYING"
        BY <1>4 DEF PlaceInv, HalfRight
    <2>2. BoardSoFar = [board EXCEPT ![cursor] = 0] /\ BoardSoFar' = board
        BY <1>4 DEF BoardSoFar, Settled
    <2>3. BoardSoFar[cursor] = 0 /\ BoardSoFar' = [BoardSoFar EXCEPT ![cursor] = current_player + 1]
        BY <1>0, <2>1, <2>2
    <2>4. state' = Rules!check_win(BoardSoFar', total_steps')
        BY <1>4, <2>2, SameCheckWin DEF Settled
    <2>5. Rules!PlacePiece
        BY <1>0, <1>4, <2>1, <2>3, <2>4 DEF Settled, Rules!PlacePiece, Rules!cursor
    <2> QED
        BY <2>5 DEF Rules!BoardNext
<1> QED
    BY <1>1, <1>2, <1>3, <1>4 DEF GameStep

\* The threads play by the rules of OXBoard: however they interleave, and
\* although a thread that places a piece may lose the processor in the middle,
\* the game changes by whole inputs only.  This is what lcd_mutex is for: the
\* proof rests on LockInv, by which no thread is in a critical section while
\* another one is placing a piece.
THEOREM ThreadsPlayByRules == Spec => PlaysByRules
<1>1. PlaceInv /\ LockInv /\ [Next]_vars => [Rules!BoardNext]_(Rules!gameVars)
    BY GameSteps, StepsRefine
<1> QED
    BY <1>1, PlaceInvariance, LockInvariance, PTL DEF Spec, PlaysByRules

-----------------------------------------------------------------------------
(* The objects of the threads *)

Naming == {"flushX", "flushO", "getX", "getO", "waitX", "waitO"}

\* A name being typed still has room.
ObjectsOK ==
    /\ key_sem \in 0..SemMax /\ uart_rx_sem \in 0..SemMax
    /\ cmd_rb \in Seq(Chars) /\ Len(cmd_rb) <= RbSize
    /\ cmd \in Chars \cup {"eol"}
    /\ name_x \in 0..NameMax /\ name_o \in 0..NameMax /\ len \in 0..NameMax
    /\ active_pin \in Pins
    /\ pressed \subseteq Pins /\ irq \subseteq Pins
    /\ \A t \in Threads : pc[t] \in {"getX", "getO", "waitX", "waitO"} => len < NameMax

\* While a thread holds lcd_mutex no other one asks for a name: the local of
\* input_player_name is one variable.
LEMMA OneAsks ==
    ASSUME LockInv, NEW t \in Threads, blocked[t] = "no", Nesting(t) # 0
    PROVE  \A u \in Threads : u # t => pc[u] \notin Naming
<1> SUFFICES ASSUME NEW u \in Threads, u # t, pc[u] \in Naming
             PROVE  FALSE
    OBVIOUS
<1>1. Nesting(u) # 0
    BY DEF Nesting, Naming
<1>2. blocked[u] = "mutex"
    BY <1>1, OneInside
<1> QED
    BY <1>2 DEF LockInv, WaitsForOther, Taking, Naming

LEMMA CharsAreSeq ==
    ASSUME NEW n \in Nat, NEW s \in [1..n -> Chars]
    PROVE  s \in Seq(Chars) /\ Len(s) = n
OBVIOUS

LEMMA PutCharsFits ==
    ASSUME ObjectsOK, NEW n \in Nat, NEW s \in [1..n -> Chars]
    PROVE  PutChars(s) \in Seq(Chars) /\ Len(PutChars(s)) <= RbSize
<1>1. s \in Seq(Chars) /\ Len(s) = n
    BY CharsAreSeq
<1>2. RbSize \in Nat /\ Len(cmd_rb) \in Nat /\ cmd_rb \in Seq(Chars) /\ Len(cmd_rb) <= RbSize
    BY SizesAssumption DEF ObjectsOK
<1> DEFINE k == IF Len(s) < RbSize - Len(cmd_rb) THEN Len(s) ELSE RbSize - Len(cmd_rb)
<1>3. k \in 0..n /\ k <= RbSize - Len(cmd_rb)
    BY <1>1, <1>2
<1> HIDE DEF k
<1>4. SubSeq(s, 1, k) \in Seq(Chars) /\ Len(SubSeq(s, 1, k)) = k
    BY <1>1, <1>3
<1>5. PutChars(s) = cmd_rb \o SubSeq(s, 1, k)
    BY DEF PutChars, k
<1> QED
    BY <1>2, <1>3, <1>4, <1>5

\* A step that moves one thread, not into a prompt, and types nothing.
LEMMA MovesKeepObjects ==
    ASSUME ObjectsOK, LockInv, NEW t \in Threads, NEW l, Goto(t, l), UNCHANGED <<nameVars, pressed>>,
           l \notin {"getX", "getO", "waitX", "waitO"},
           key_sem' \in 0..SemMax, uart_rx_sem' \in 0..SemMax,
           cmd_rb' \in Seq(Chars), Len(cmd_rb') <= RbSize, cmd' \in Chars \cup {"eol"},
           active_pin' \in Pins, irq' \subseteq Pins
    PROVE  ObjectsOK'
<1>1. pc' = [pc EXCEPT ![t] = l] /\ pc \in [Threads -> Labels]
    BY DEF Goto, LockInv, LockTypeOK
<1> QED
    BY <1>1 DEF ObjectsOK, nameVars

LEMMA ResetGameKeepsObjects ==
    ASSUME ObjectsOK, LockInv, NEW t \in {"shell", "lcd", "cmd"}, ResetGame(t)
    PROVE  ObjectsOK'
<1> USE DEF At
<1>0. t \in Threads /\ pc \in [Threads -> Labels] /\ NameMax \in Nat /\ NameMax # 0
    BY SizesAssumption DEF Threads, LockInv, LockTypeOK
<1>1. CASE ResetTake(t)
    <2>1. PICK l \in {"clearFull", "clearCurrent"} : Goto(t, l)
        BY <1>1 DEF ResetTake, Take
    <2> QED
        BY <1>0, <1>1, <2>1, MovesKeepObjects DEF ResetTake, semVars, pinVars, ObjectsOK
<1>2. CASE ResetReturn(t)
    <2>1. PICK l : l = AfterReset(t) /\ l \in {"start", "relock", "unlock"}
        BY DEF AfterReset
    <2>2. Goto(t, l)
        BY <1>2, <2>1 DEF ResetReturn, Goto
    <2> QED
        BY <1>0, <1>2, <2>1, <2>2, MovesKeepObjects DEF ResetReturn, semVars, pinVars, ObjectsOK
<1>3. CASE ResetClear(t)
    <2>1. pc' = [pc EXCEPT ![t] = "flushX"] \/ pc' = [pc EXCEPT ![t] = "resetDelay"]
        BY <1>3 DEF ResetClear, Goto
    <2>2. name_x' \in 0..NameMax /\ name_o' \in 0..NameMax
        BY <1>0, <1>3 DEF ResetClear, ObjectsOK
    <2> QED
        BY <1>0, <1>3, <2>1, <2>2 DEF ResetClear, ObjectsOK, semVars, pinVars
<1>4. CASE NameFlush(t)
    <2>1. pc' = [pc EXCEPT ![t] = "getX"] \/ pc' = [pc EXCEPT ![t] = "getO"]
        BY <1>4 DEF NameFlush, Goto
    <2>2. cmd_rb' = <<>> /\ len' = 0 /\ len' \in 0..NameMax /\ len' < NameMax
        BY <1>0, <1>4 DEF NameFlush
    <2>3. cmd_rb' \in Seq(Chars) /\ Len(cmd_rb') <= RbSize
        BY <2>2, SizesAssumption
    <2> QED
        BY <1>0, <1>4, <2>1, <2>2, <2>3 DEF NameFlush, ObjectsOK, semVars, pinVars
<1>5. CASE NameEmpty(t)
    <2>1. /\ pc[t] \in {"getX", "getO"}
          /\ pc' = [pc EXCEPT ![t] = "waitX"] \/ pc' = [pc EXCEPT ![t] = "waitO"]
        BY <1>5 DEF NameEmpty, Goto
    <2>2. len < NameMax
        BY <1>0, <2>1 DEF ObjectsOK
    <2> QED
        BY <1>0, <1>5, <2>1, <2>2 DEF NameEmpty, ObjectsOK, semVars, pinVars, nameVars
<1>6. CASE NameWait(t)
    <2>1. /\ pc[t] \in {"waitX", "waitO"}
          /\ pc' = [pc EXCEPT ![t] = "getX"] \/ pc' = [pc EXCEPT ![t] = "getO"]
        BY <1>6 DEF NameWait, TakeRxSem, Goto
    <2>2. len < NameMax
        BY <1>0, <2>1 DEF ObjectsOK
    <2>3. uart_rx_sem' \in 0..SemMax
        BY <1>6, SizesAssumption DEF NameWait, TakeRxSem, ObjectsOK
    <2> QED
        BY <1>0, <1>6, <2>1, <2>2, <2>3 DEF NameWait, ObjectsOK, pinVars, nameVars
<1>7. CASE NameChar(t)
    <2>1. /\ pc[t] \in {"getX", "getO"} /\ blocked[t] = "no" /\ cmd_rb # <<>>
          /\ cmd_rb' = Tail(cmd_rb)
        BY <1>7 DEF NameChar
    <2>2. cmd_rb' \in Seq(Chars) /\ Len(cmd_rb') <= RbSize
        BY <2>1, SizesAssumption DEF ObjectsOK
    <2>3. len < NameMax /\ len \in Nat
        BY <1>0, <2>1 DEF ObjectsOK
    <2>4. len' \in {len, len + 1} /\ len' \in 0..NameMax
        BY <1>0, <1>7, <2>3 DEF NameChar
    <2>5. name_x' \in {name_x, len'} /\ name_o' \in {name_o, len'}
        BY <1>7 DEF NameChar
    <2>6. \A u \in Threads : u # t => pc[u] \notin Naming
        <3>1. Nesting(t) # 0
            BY <2>1 DEF Nesting
        <3> QED
            BY <1>0, <2>1, <3>1, OneAsks
    <2>7. \/ pc' = [pc EXCEPT ![t] = "flushO"] \/ pc' = [pc EXCEPT ![t] = "resetDelay"]
          \/ pc' = pc /\ len' < NameMax
        <3>1. CASE len' = NameMax
            <4>1. len' = len + 1 /\ len' > 0
                BY <1>0, <2>3, <2>4, <3>1
            <4> QED
                BY <1>0, <1>7, <3>1, <4>1 DEF NameChar, Goto
        <3>2. CASE len' # NameMax
            BY <1>0, <1>7, <2>4, <3>2 DEF NameChar, Goto
        <3> QED
            BY <3>1, <3>2
    <2>8. \A u \in Threads : pc'[u] \in {"getX", "getO", "waitX", "waitO"} => len' < NameMax
        BY <1>0, <2>6, <2>7 DEF Naming
    <2>9. name_x' \in 0..NameMax /\ name_o' \in 0..NameMax
        BY <2>4, <2>5 DEF ObjectsOK
    <2> QED
        BY <1>7, <2>2, <2>4, <2>8, <2>9 DEF NameChar, ObjectsOK, semVars, pinVars
<1> QED
    BY <1>1, <1>2, <1>3, <1>4, <1>5, <1>6, <1>7 DEF ResetGame

LEMMA ReleaseRxSemType ==
    ASSUME ObjectsOK, ReleaseRxSem
    PROVE  uart_rx_sem' \in 0..SemMax
BY SizesAssumption DEF ObjectsOK, ReleaseRxSem

LEMMA ThreadsKeepObjects ==
    ASSUME ObjectsOK, LockInv, Start \/ KeyThread \/ LcdThread \/ CmdThread
    PROVE  ObjectsOK'
<1> USE DEF At
<1>0. /\ "key" \in Threads /\ "lcd" \in Threads /\ "cmd" \in Threads
      /\ pc \in [Threads -> Labels]
    BY DEF Threads, LockInv, LockTypeOK
<1>1. CASE Start
    <2>1. \A u \in Threads : pc'[u] \in {"done", "take", "lock"}
        BY <1>1 DEF Start, Threads
    <2> QED
        BY <1>1, <2>1 DEF Start, ObjectsOK, semVars, pinVars, nameVars
<1>2. CASE KeyThread
    <2>1. CASE KeyTake
        <3>1. key_sem' \in 0..SemMax
            BY <2>1, SizesAssumption DEF KeyTake, ObjectsOK
        <3> QED
            BY <1>0, <2>1, <3>1, MovesKeepObjects DEF KeyTake, ObjectsOK, pinVars
    <2>2. CASE KeyLock
        BY <1>0, <2>2, MovesKeepObjects DEF KeyLock, Take, ObjectsOK, semVars, pinVars
    <2>3. CASE KeyScan
        <3>1. /\ active_pin' \in Pins /\ UNCHANGED <<semVars, cmd_rb, cmd, nameVars, pinVars>>
              /\ \E l \in {"enable", "settle"} : Goto("key", l)
            BY <2>3, HandledInputs DEF KeyScan
        <3> QED
            BY <1>0, <3>1, MovesKeepObjects DEF ObjectsOK, semVars, pinVars
    <2>5. CASE SettlePiece("key")
        BY <1>0, <2>5, MovesKeepObjects DEF SettlePiece, ObjectsOK, semVars, pinVars
    <2>4. CASE KeyEnable
        <3>1. irq' \subseteq Pins
            BY <2>4 DEF KeyEnable, ObjectsOK
        <3> QED
            BY <1>0, <2>4, <3>1, MovesKeepObjects DEF KeyEnable, ObjectsOK, semVars
    <2> QED
        BY <1>2, <2>1, <2>2, <2>3, <2>4, <2>5 DEF KeyThread
<1>3. CASE LcdThread
    <2>1. CASE LcdLock \/ LcdDraw \/ LcdAnnounced \/ LcdUnlock
        <3>1. PICK l \in {"draw", "unlock", "lock", "announce", "resetCurrent"} : Goto("lcd", l)
            BY <2>1 DEF LcdLock, LcdDraw, LcdAnnounced, LcdUnlock, Take
        <3>2. UNCHANGED <<semVars, cmd_rb, cmd, nameVars, active_pin, pinVars>>
            BY <2>1 DEF LcdLock, LcdDraw, LcdAnnounced, LcdUnlock
        <3> QED
            BY <1>0, <3>1, <3>2, MovesKeepObjects DEF ObjectsOK, semVars, pinVars
    <2> QED
        BY <1>3, <2>1, ResetGameKeepsObjects DEF LcdThread
<1>4. CASE CmdThread
    <2>1. CASE CmdLock \/ CmdExec \/ SettlePiece("cmd") \/ CmdReset \/ CmdUnlock
        <3>1. PICK l \in {"exec", "settle", "get", "resetFull", "resetCurrent"} : Goto("cmd", l)
            BY <2>1 DEF CmdLock, CmdExec, SettlePiece, CmdReset, CmdUnlock, Take
        <3>2. UNCHANGED <<semVars, cmd_rb, cmd, nameVars, active_pin, pinVars>>
            BY <2>1 DEF CmdLock, CmdExec, SettlePiece, CmdReset, CmdUnlock
        <3> QED
            BY <1>0, <3>1, <3>2, MovesKeepObjects DEF ObjectsOK, semVars, pinVars
    <2>2. CASE CmdTake
        <3>1. uart_rx_sem' \in 0..SemMax
            BY <2>2, SizesAssumption DEF CmdTake, TakeRxSem, ObjectsOK
        <3> QED
            BY <1>0, <2>2, <3>1, MovesKeepObjects DEF CmdTake, TakeRxSem, ObjectsOK, pinVars
    <2>3. CASE CmdRelease
        BY <1>0, <2>3, ReleaseRxSemType, MovesKeepObjects DEF CmdRelease, ObjectsOK, pinVars
    <2>4. CASE CmdGet
        <3>1. PICK l \in {"release", "lock"} : Goto("cmd", l)
            BY <2>4 DEF CmdGet
        <3>2. /\ cmd_rb' \in Seq(Chars) /\ Len(cmd_rb') <= RbSize
              /\ cmd' \in Chars \cup {"eol"}
            BY <2>4, SizesAssumption DEF CmdGet, ObjectsOK
        <3> QED
            BY <1>0, <2>4, <3>1, <3>2, MovesKeepObjects DEF CmdGet, ObjectsOK, semVars, pinVars
    <2> QED
        BY <1>4, <2>1, <2>2, <2>3, <2>4, ResetGameKeepsObjects DEF CmdThread
<1> QED
    BY <1>1, <1>2, <1>3, <1>4

LEMMA EnvironmentKeepsObjects ==
    ASSUME ObjectsOK, LockInv, Environment
    PROVE  ObjectsOK'
<1>1. ASSUME NEW n \in 1..Batch, NEW s \in [1..n -> Chars], uart_rx_ind(s)
      PROVE  ObjectsOK'
    <2>1. cmd_rb' \in Seq(Chars) /\ Len(cmd_rb') <= RbSize
        BY <1>1, PutCharsFits DEF uart_rx_ind
    <2>2. uart_rx_sem' \in 0..SemMax
        BY <1>1, ReleaseRxSemType DEF uart_rx_ind
    <2> QED
        BY <1>1, <2>1, <2>2 DEF uart_rx_ind, ObjectsOK, nameVars, pinVars
<1>2. ASSUME NEW p \in Buttons, Press(p) \/ LetGo(p)
      PROVE  ObjectsOK'
    <2>1. p \in Pins
        BY SizesAssumption DEF Pins
    <2>2. key_sem' \in 0..SemMax
        BY <1>2, SizesAssumption DEF Press, LetGo, semVars, ObjectsOK
    <2>3. pressed' \subseteq Pins /\ irq' \subseteq Pins
        BY <1>2, <2>1 DEF Press, LetGo, ObjectsOK
    <2> QED
        BY <1>2, <2>2, <2>3 DEF Press, LetGo, ObjectsOK, nameVars, semVars
<1> QED
    BY <1>1, <1>2 DEF Environment

LEMMA ObjectsNext == ObjectsOK /\ LockInv /\ [Next]_vars => ObjectsOK'
<1> SUFFICES ASSUME ObjectsOK, LockInv, [Next]_vars PROVE ObjectsOK'
    OBVIOUS
<1>1. CASE UNCHANGED vars
    BY <1>1 DEF vars, ObjectsOK, semVars, nameVars, pinVars
<1>2. CASE Next
    BY <1>2, ResetGameKeepsObjects, ThreadsKeepObjects, EnvironmentKeepsObjects
       DEF Next, ShellThread
<1> QED
    BY <1>1, <1>2

LEMMA ObjectsInvariance == Spec => []ObjectsOK
<1>1. Init => ObjectsOK
    <2> SUFFICES ASSUME Init PROVE ObjectsOK
        OBVIOUS
    <2>1. \A t \in Threads : pc[t] \notin {"getX", "getO", "waitX", "waitO"}
        BY DEF Init, FreshStart, GameUnderWay, Threads
    <2>2. name_x \in 0..NameMax /\ name_o \in 0..NameMax
        BY SizesAssumption DEF Init, FreshStart, GameUnderWay
    <2>3. InitObjects
        BY DEF Init
    <2>4. /\ key_sem \in 0..SemMax /\ uart_rx_sem \in 0..SemMax /\ len \in 0..NameMax
          /\ cmd_rb \in Seq(Chars) /\ Len(cmd_rb) <= RbSize
        BY <2>3, SizesAssumption DEF InitObjects
    <2> QED
        BY <2>1, <2>2, <2>3, <2>4 DEF InitObjects, ObjectsOK, Pins
<1> QED
    BY <1>1, ObjectsNext, LockInvariance, PTL DEF Spec

\* No index leaves the board, no name its buffer, no semaphore its limit, and
\* lcd_mutex nests at most twice, whatever is typed and pressed and however
\* the threads and the interrupts interleave.
THEOREM TypeCorrect == Spec => []TypeOK
<1>1. PlaceInv => total_steps \in 0..9
    <2> SUFFICES ASSUME PlaceInv PROVE total_steps \in 0..9
        OBVIOUS
    <2>1. board \in [Cells -> 0..2] /\ cursor \in Cells /\ current_player \in {0, 1}
        BY DEF PlaceInv, FieldsOK, cursor, Cells
    <2>2. Cardinality(Taken(board)) \in 0..9 /\ IsFiniteSet(Taken(board))
        BY <2>1, PiecesFinite
    <2>3. ASSUME HalfPlaced
          PROVE  Cardinality(Taken(board)) # 0
        <3>1. board[cursor] # 0
            BY <2>1, <2>3 DEF PlaceInv, HalfRight
        <3>2. cursor \in Taken(board)
            BY <2>1, <3>1 DEF Taken
        <3> QED
            BY <2>2, <3>2, FS_EmptySet
    <2> QED
        BY <2>2, <2>3 DEF PlaceInv, HalfRight
<1>2. LockInv /\ ObjectsOK /\ PlaceInv => TypeOK
    BY <1>1 DEF LockInv, LockTypeOK, ObjectsOK, PlaceInv, FieldsOK, TypeOK, BoardTypeOK
<1> QED
    BY <1>2, LockInvariance, ObjectsInvariance, PlaceInvariance, PTL

-----------------------------------------------------------------------------
(* The screen *)

\* A name is typed only after a reset has marked the screen, and the first
\* reset comes before the LCD thread exists.
ScreenInv ==
    /\ ScreenUpToDate
    /\ \A t \in Threads : pc[t] \in Naming => state_changed
    /\ pc["lcd"] = "off" /\ pc["shell"] \notin {"resetFull", "clearFull"} => state_changed

LEMMA MarkKeepsScreen ==
    ASSUME state_changed'
    PROVE  ScreenInv'
BY DEF ScreenInv, ScreenUpToDate

\* A step that moves one thread and leaves what is on the screen alone.
LEMMA QuietKeepsScreen ==
    ASSUME ScreenInv, LockInv, NEW t \in Threads, NEW l, Goto(t, l),
           UNCHANGED <<gameVars, name_x, name_o, shown>>,
           l \in Naming => pc[t] \in Naming,
           pc[t] \notin {"off", "settle"}, l # "off",
           pc[t] \in {"resetFull", "clearFull"} => l \in {"resetFull", "clearFull"}
    PROVE  ScreenInv'
<1>1. pc' = [pc EXCEPT ![t] = l] /\ pc \in [Threads -> Labels] /\ "lcd" \in Threads /\ "shell" \in Threads
    BY DEF Goto, LockInv, LockTypeOK, Threads
<1>2. Visible' = Visible /\ shown' = shown /\ (state_changed' <=> state_changed)
    BY DEF Visible, gameVars, cursor
<1>3. ScreenUpToDate'
    BY <1>1, <1>2 DEF ScreenInv, ScreenUpToDate, HalfPlaced
<1> QED
    BY <1>1, <1>2, <1>3 DEF ScreenInv

\* The same for a step that moves no thread.
LEMMA StillKeepsScreen ==
    ASSUME ScreenInv, pc' = pc, UNCHANGED <<gameVars, name_x, name_o, shown>>
    PROVE  ScreenInv'
BY DEF ScreenInv, ScreenUpToDate, HalfPlaced, Visible, gameVars, cursor

\* A piece that is half placed.
LEMMA PutKeepsScreen ==
    ASSUME ScreenInv, LockInv, NEW t \in Threads, Goto(t, "settle"), PutPiece, pc[t] # "off",
           pc[t] \notin {"resetFull", "clearFull"}
    PROVE  ScreenInv'
<1>1. pc' = [pc EXCEPT ![t] = "settle"] /\ pc \in [Threads -> Labels] /\ "lcd" \in Threads
      /\ "shell" \in Threads
    BY DEF Goto, LockInv, LockTypeOK, Threads
<1>2. state_changed' = state_changed
    BY DEF PutPiece
<1>3. HalfPlaced'
    BY <1>1 DEF HalfPlaced
<1> QED
    BY <1>1, <1>2, <1>3 DEF ScreenInv, ScreenUpToDate, Naming

LEMMA ResetGameKeepsScreen ==
    ASSUME ScreenInv, LockInv, NEW t \in {"shell", "lcd", "cmd"}, ResetGame(t)
    PROVE  ScreenInv'
<1> USE DEF At
<1>0. t \in Threads
    BY DEF Threads
<1>1. CASE ResetTake(t)
    BY <1>0, <1>1, QuietKeepsScreen DEF ResetTake, Take, Naming, nameVars
<1>2. CASE ResetReturn(t)
    <2>1. PICK l : l = AfterReset(t) /\ l \in {"start", "relock", "unlock"}
        BY DEF AfterReset
    <2>2. Goto(t, l)
        BY <1>2, <2>1 DEF ResetReturn, Goto
    <2> QED
        BY <1>0, <1>2, <2>1, <2>2, QuietKeepsScreen DEF ResetReturn, Naming, nameVars
<1>3. CASE ResetClear(t)
    BY <1>3, MarkKeepsScreen DEF ResetClear, ResetRound
<1>4. CASE NameFlush(t)
    BY <1>0, <1>4, QuietKeepsScreen DEF NameFlush, Naming
<1>5. CASE NameEmpty(t)
    BY <1>0, <1>5, QuietKeepsScreen DEF NameEmpty, Naming, nameVars
<1>6. CASE NameWait(t)
    BY <1>0, <1>6, QuietKeepsScreen DEF NameWait, TakeRxSem, Naming, nameVars
<1>7. CASE NameChar(t)
    <2>1. pc[t] \in Naming /\ state_changed' = state_changed
        BY <1>7 DEF NameChar, Naming, gameVars
    <2>2. state_changed
        BY <1>0, <2>1 DEF ScreenInv
    <2> QED
        BY <2>1, <2>2, MarkKeepsScreen
<1> QED
    BY <1>1, <1>2, <1>3, <1>4, <1>5, <1>6, <1>7 DEF ResetGame

\* An input marks the screen or changes nothing.
LEMMA InputsMark ==
    ASSUME \/ MoveLeft \/ MoveRight \/ MoveDown \/ MoveUp \/ UNCHANGED gameVars
    PROVE  state_changed' \/ UNCHANGED gameVars
BY DEF MoveLeft, MoveRight, MoveDown, MoveUp

LEMMA ThreadsKeepScreen ==
    ASSUME ScreenInv, LockInv, Start \/ KeyThread \/ LcdThread \/ CmdThread
    PROVE  ScreenInv'
<1> USE DEF At
<1>0. /\ "key" \in Threads /\ "lcd" \in Threads /\ "cmd" \in Threads /\ "shell" \in Threads
      /\ pc \in [Threads -> Labels]
    BY DEF Threads, LockInv, LockTypeOK
<1>1. CASE Start
    <2>1. pc["lcd"] = "off" /\ pc["shell"] = "start" /\ state_changed' = state_changed
        BY <1>1 DEF Start, LockInv, OffUntilStarted, gameVars
    <2>2. state_changed
        BY <2>1 DEF ScreenInv
    <2> QED
        BY <2>1, <2>2, MarkKeepsScreen
<1>2. CASE KeyThread
    <2>1. CASE KeyTake
        BY <1>0, <2>1, QuietKeepsScreen DEF KeyTake, Naming, nameVars
    <2>2. CASE KeyLock
        BY <1>0, <2>2, QuietKeepsScreen DEF KeyLock, Take, Naming, nameVars
    <2>3. CASE KeyScan
        <3>1. \A p \in Pins : HandlePin(p) => state_changed' \/ UNCHANGED gameVars
            BY InputsMark DEF HandlePin, Pins
        <3>2. /\ At("key", "scan") /\ UNCHANGED <<nameVars, shown>>
              /\ \/ (state_changed' \/ UNCHANGED gameVars) /\ Goto("key", "enable")
                 \/ PutPiece /\ Goto("key", "settle")
            BY <2>3, <3>1, HandledInputs DEF KeyScan
        <3> QED
            BY <1>0, <3>2, MarkKeepsScreen, QuietKeepsScreen, PutKeepsScreen DEF Naming, nameVars
    <2>5. CASE SettlePiece("key")
        BY <2>5, MarkKeepsScreen DEF SettlePiece
    <2>4. CASE KeyEnable
        BY <1>0, <2>4, QuietKeepsScreen DEF KeyEnable, Naming, nameVars
    <2> QED
        BY <1>2, <2>1, <2>2, <2>3, <2>4, <2>5 DEF KeyThread
<1>3. CASE LcdThread
    <2>1. CASE LcdLock
        BY <1>0, <2>1, QuietKeepsScreen DEF LcdLock, Take, Naming, nameVars
    <2>2. CASE LcdAnnounced
        BY <1>0, <2>2, QuietKeepsScreen DEF LcdAnnounced, Naming, nameVars
    <2>3. CASE LcdUnlock
        BY <1>0, <2>3, QuietKeepsScreen DEF LcdUnlock, Naming, nameVars
    <2>4. CASE LcdDraw
        <3>1. PICK l \in {"lock", "announce"} : Goto("lcd", l)
            BY <2>4 DEF LcdDraw
        <3>2. CASE ~state_changed
            BY <1>0, <2>4, <3>1, <3>2, QuietKeepsScreen DEF LcdDraw, Naming, nameVars
        <3>3. CASE state_changed
            <4>1. Redraw /\ shown' = Visible /\ UNCHANGED nameVars
                BY <2>4, <3>3 DEF LcdDraw
            <4>2. Visible' = Visible
                BY <4>1 DEF Redraw, Visible, round, cursor, nameVars
            <4>3. pc' = [pc EXCEPT !["lcd"] = l] /\ l \notin Naming /\ l # "off"
                BY <3>1 DEF Goto, Naming
            <4>4. \A u \in Threads : u # "lcd" => pc[u] \notin Naming
                <5>1. Nesting("lcd") # 0 /\ blocked["lcd"] = "no"
                    BY <2>4 DEF LcdDraw, Nesting
                <5> QED
                    BY <1>0, <5>1, OneAsks
            <4> QED
                BY <1>0, <4>1, <4>2, <4>3, <4>4 DEF ScreenInv, ScreenUpToDate
        <3> QED
            BY <3>2, <3>3
    <2> QED
        BY <1>3, <2>1, <2>2, <2>3, <2>4, ResetGameKeepsScreen DEF LcdThread
<1>4. CASE CmdThread
    <2>1. CASE CmdLock \/ CmdReset \/ CmdUnlock
        <3>1. /\ pc["cmd"] \in {"lock", "exec", "unlock"}
              /\ \E l \in {"exec", "get", "resetFull", "resetCurrent"} : Goto("cmd", l)
            BY <2>1 DEF CmdLock, CmdReset, CmdUnlock, Take
        <3>2. UNCHANGED <<gameVars, nameVars, shown>>
            BY <2>1 DEF CmdLock, CmdReset, CmdUnlock
        <3> QED
            BY <1>0, <3>1, <3>2, QuietKeepsScreen DEF Naming, nameVars
    <2>2. CASE CmdExec
        <3>1. HandleCmd(cmd) => state_changed' \/ UNCHANGED gameVars
            BY InputsMark DEF HandleCmd
        <3>2. /\ At("cmd", "exec") /\ UNCHANGED <<nameVars, shown>>
              /\ \/ (state_changed' \/ UNCHANGED gameVars) /\ Goto("cmd", "get")
                 \/ PutPiece /\ Goto("cmd", "settle")
            BY <2>2, <3>1 DEF CmdExec
        <3> QED
            BY <1>0, <3>2, MarkKeepsScreen, QuietKeepsScreen, PutKeepsScreen DEF Naming, nameVars
    <2>6. CASE SettlePiece("cmd")
        BY <2>6, MarkKeepsScreen DEF SettlePiece
    <2>3. CASE CmdTake
        BY <1>0, <2>3, QuietKeepsScreen DEF CmdTake, TakeRxSem, Naming, nameVars
    <2>4. CASE CmdRelease
        BY <1>0, <2>4, QuietKeepsScreen DEF CmdRelease, Naming, nameVars
    <2>5. CASE CmdGet
        BY <1>0, <2>5, QuietKeepsScreen DEF CmdGet, Naming, nameVars
    <2> QED
        BY <1>4, <2>1, <2>2, <2>3, <2>4, <2>5, <2>6, ResetGameKeepsScreen DEF CmdThread
<1> QED
    BY <1>1, <1>2, <1>3, <1>4

\* The refresh thread misses nothing: once it runs, the LCD shows the board,
\* the cursor, the player and the names as they are whenever state_changed is
\* clear, for any inputs and any interleaving.
THEOREM ScreenStaysUpToDate == Spec => []ScreenUpToDate
<1>1. Init => ScreenInv
    <2> SUFFICES ASSUME Init PROVE ScreenInv
        OBVIOUS
    <2>1. CASE FreshStart
        <3>1. /\ pc["lcd"] = "off" /\ pc["shell"] = "resetFull"
              /\ \A t \in Threads : pc[t] \in {"off", "resetFull"}
            BY <2>1 DEF FreshStart, Threads
        <3> QED
            BY <3>1 DEF ScreenInv, ScreenUpToDate, Naming
    <2>2. CASE GameUnderWay
        BY <2>2 DEF GameUnderWay, ScreenInv, ScreenUpToDate
    <2> QED
        BY <2>1, <2>2 DEF Init
<1>2. ScreenInv /\ LockInv /\ [Next]_vars => ScreenInv'
    <2> SUFFICES ASSUME ScreenInv, LockInv, [Next]_vars PROVE ScreenInv'
        OBVIOUS
    <2>1. CASE UNCHANGED vars
        BY <2>1, StillKeepsScreen DEF vars, nameVars
    <2>2. CASE Environment
        BY <2>2, StillKeepsScreen DEF Environment, uart_rx_ind, Press, LetGo, nameVars
    <2> QED
        BY <2>1, <2>2, ResetGameKeepsScreen, ThreadsKeepScreen DEF Next, ShellThread
<1>3. ScreenInv => ScreenUpToDate
    BY DEF ScreenInv
<1> QED
    BY <1>1, <1>2, <1>3, LockInvariance, PTL DEF Spec

-----------------------------------------------------------------------------
(* The characters *)

ShellLabels == Naming \cup {"resetFull", "clearFull", "resetDelay", "start", "done"}
LcdLabels == {"off", "lock", "draw", "announce", "resetCurrent", "clearCurrent", "resetDelay",
              "relock", "unlock"}
Getting == {"getX", "getO"}

\* The two readers of uart_rx_sem, one after the other: the shell until it has
\* started the threads, then the command thread.
ReadersTakeTurns ==
    /\ pc["shell"] \in ShellLabels /\ pc["lcd"] \in LcdLabels
    /\ pc["cmd"] = "off" <=> pc["shell"] # "done"
    /\ blocked["key"] # "uart_rx_sem" /\ blocked["lcd"] # "uart_rx_sem"

\* A token for every character where a reader may go to sleep.  A reader that
\* has just taken a token is one short; the command thread may be short of more
\* where it is sure to look into the buffer again.
TokensForChars ==
    IF pc["cmd"] = "off"
    THEN Len(cmd_rb) <= IF pc["shell"] \in Getting THEN uart_rx_sem + 1 ELSE uart_rx_sem
    ELSE pc["cmd"] \in {"waitX", "waitO", "take", "release"} => Len(cmd_rb) <= uart_rx_sem

SleepsEmpty ==
    \A t \in Threads :
        blocked[t] = "uart_rx_sem" => /\ cmd_rb = <<>> /\ uart_rx_sem = 0
                                      /\ pc[t] \in Getting \cup {"get"}

CharInv == ReadersTakeTurns /\ TokensForChars /\ SleepsEmpty

\* A running thread goes on without touching the characters or their tokens.
LEMMA OtherKeepsChars ==
    ASSUME CharInv, ObjectsOK, LockInv, LockInv',
           NEW t \in Threads, NEW l, Goto(t, l), blocked[t] = "no",
           UNCHANGED <<cmd_rb, uart_rx_sem>>,
           \A u \in Threads : blocked'[u] = "uart_rx_sem" => blocked[u] = "uart_rx_sem",
           pc[t] \notin {"off", "done"}, l \notin {"off", "done"},
           t = "shell" => l \in ShellLabels /\ pc[t] \notin Getting,
           t = "lcd" => l \in LcdLabels,
           t = "cmd" => l \notin {"waitX", "waitO", "take", "release"}
    PROVE  CharInv'
<1>1. pc' = [pc EXCEPT ![t] = l] /\ pc \in [Threads -> Labels]
    BY DEF Goto, LockInv, LockTypeOK
<1>2. "shell" \in Threads /\ "lcd" \in Threads /\ "cmd" \in Threads /\ "key" \in Threads
    BY DEF Threads
<1>3. ReadersTakeTurns'
    BY <1>1, <1>2 DEF CharInv, ReadersTakeTurns
<1>4. TokensForChars'
    <2>1. CASE pc["cmd"] = "off"
        <3>1. t # "cmd" /\ pc'["cmd"] = "off"
            BY <1>1, <1>2, <2>1
        <3>2. pc["shell"] \in Getting => pc'["shell"] \in Getting
            BY <1>1, <1>2
        <3>3. cmd_rb' = cmd_rb /\ uart_rx_sem' = uart_rx_sem
            OBVIOUS
        <3>4. CASE pc["shell"] \in Getting
            BY <2>1, <3>1, <3>2, <3>3, <3>4 DEF CharInv, TokensForChars
        <3>5. CASE pc["shell"] \notin Getting
            <4>1. Len(cmd_rb) <= uart_rx_sem /\ Len(cmd_rb) \in Nat /\ uart_rx_sem \in Nat
                BY <2>1, <3>5 DEF CharInv, TokensForChars, ObjectsOK
            <4> QED
                BY <3>1, <3>3, <4>1 DEF TokensForChars
        <3> QED
            BY <3>4, <3>5
    <2>2. CASE pc["cmd"] # "off"
        BY <1>1, <1>2, <2>2 DEF CharInv, TokensForChars
    <2> QED
        BY <2>1, <2>2
<1>5. SleepsEmpty'
    BY <1>1 DEF CharInv, SleepsEmpty
<1> QED
    BY <1>3, <1>4, <1>5 DEF CharInv

LEMMA ReleaseBlocks ==
    ASSUME LockInv, Release
    PROVE  \A u \in Threads : blocked'[u] = "uart_rx_sem" => blocked[u] = "uart_rx_sem"
<1> DEFINE W == {u \in Threads : blocked[u] = "mutex"}
           best == CHOOSE u \in W : \A v \in W : Priority(u) <= Priority(v)
<1>1. blocked' = blocked \/ blocked' = [blocked EXCEPT ![best] = "no"]
    BY DEF Release
<1> HIDE DEF best
<1> QED
    BY <1>1 DEF LockInv, LockTypeOK

LEMMA TakeBlocks ==
    ASSUME LockInv, NEW t, NEW l, Take(t, l)
    PROVE  \A u \in Threads : blocked'[u] = "uart_rx_sem" => blocked[u] = "uart_rx_sem"
BY DEF LockInv, LockTypeOK, Take

\* rt_sem_take of uart_rx_sem where every character has its token: a reader
\* goes to sleep on an empty buffer only.
LEMMA TakeRxSemKeepsChars ==
    ASSUME CharInv, ObjectsOK, LockInv, LockInv', NEW t \in {"shell", "cmd"}, NEW l, TakeRxSem(t, l),
           UNCHANGED cmd_rb, blocked[t] = "no", pc[t] \notin {"off", "done"},
           Len(cmd_rb) <= uart_rx_sem,
           l \in Getting \/ (t = "cmd" /\ l = "get")
    PROVE  CharInv'
<1>1. pc' = [pc EXCEPT ![t] = l] /\ pc \in [Threads -> Labels] /\ t \in Threads
    BY DEF TakeRxSem, Goto, LockInv, LockTypeOK, Threads
<1>2. "shell" \in Threads /\ "lcd" \in Threads /\ "cmd" \in Threads /\ "key" \in Threads
    BY DEF Threads
<1>3. l \notin {"off", "done", "waitX", "waitO", "take", "release"} /\ (t = "shell" => l \in ShellLabels)
    BY DEF Getting, ShellLabels, Naming
<1>4. Len(cmd_rb) \in Nat /\ uart_rx_sem \in Nat /\ cmd_rb \in Seq(Chars)
    BY DEF ObjectsOK
<1>5. /\ blocked' = blocked \/ blocked' = [blocked EXCEPT ![t] = "uart_rx_sem"]
      /\ blocked \in [Threads -> {"no", "mutex", "key_sem", "uart_rx_sem"}]
    BY DEF TakeRxSem, LockInv, LockTypeOK
<1>6. ReadersTakeTurns'
    BY <1>1, <1>2, <1>3, <1>5 DEF CharInv, ReadersTakeTurns
<1>7. uart_rx_sem' \in {uart_rx_sem, uart_rx_sem - 1} /\ Len(cmd_rb) <= uart_rx_sem' + 1
    BY <1>4 DEF TakeRxSem
<1>8. TokensForChars'
    <2>1. CASE t = "cmd"
        <3>1. pc'["cmd"] = l
            BY <1>1, <2>1
        <3> QED
            BY <1>3, <3>1 DEF TokensForChars
    <2>2. CASE t = "shell"
        <3>1. pc["cmd"] = "off" /\ pc'["cmd"] = "off" /\ pc'["shell"] = l /\ l \in Getting
            BY <1>1, <1>2, <2>2 DEF CharInv, ReadersTakeTurns
        <3> QED
            BY <1>7, <3>1 DEF TokensForChars
    <2> QED
        BY <2>1, <2>2
<1>9. SleepsEmpty'
    <2>1. CASE uart_rx_sem > 0
        <3>1. \A u \in Threads : blocked[u] # "uart_rx_sem"
            BY <1>4, <2>1 DEF CharInv, SleepsEmpty
        <3> QED
            BY <2>1, <3>1 DEF TakeRxSem, SleepsEmpty
    <2>2. CASE ~(uart_rx_sem > 0)
        <3>1. uart_rx_sem = 0 /\ uart_rx_sem' = 0 /\ cmd_rb = <<>> /\ cmd_rb' = <<>>
            BY <1>4, <2>2 DEF TakeRxSem
        <3>2. pc'[t] \in Getting \cup {"get"}
            BY <1>1
        <3>3. \A u \in Threads : u # t => blocked'[u] = blocked[u] /\ pc'[u] = pc[u]
            BY <1>1, <1>5
        <3> QED
            BY <3>1, <3>2, <3>3 DEF CharInv, SleepsEmpty
    <2> QED
        BY <2>1, <2>2
<1> QED
    BY <1>6, <1>8, <1>9 DEF CharInv

\* A reader takes characters out, or all of them, and moves on to a point
\* where they have their tokens.
LEMMA DrainKeepsChars ==
    ASSUME CharInv, ObjectsOK, LockInv, LockInv', NEW t \in {"shell", "cmd"}, blocked[t] = "no",
           pc' = [pc EXCEPT ![t] = pc'[t]], UNCHANGED <<uart_rx_sem, blocked>>,
           pc[t] \notin {"off", "done"}, pc'[t] \notin {"off", "done"},
           t = "shell" => pc'[t] \in ShellLabels,
           Len(cmd_rb') \in Nat,
           \/ cmd_rb' = <<>>
           \/ t = "cmd" /\ pc'[t] \notin {"waitX", "waitO", "take", "release"}
           \/ t = "shell" /\ pc[t] \in Getting /\ Len(cmd_rb') < Len(cmd_rb)
    PROVE  CharInv'
<1>1. "shell" \in Threads /\ "lcd" \in Threads /\ "cmd" \in Threads /\ "key" \in Threads
    BY DEF Threads
<1>2. pc \in [Threads -> Labels] /\ uart_rx_sem \in Nat /\ Len(cmd_rb) \in Nat
    BY DEF ObjectsOK, LockInv, LockTypeOK
<1>3. ReadersTakeTurns'
    BY <1>1, <1>2 DEF CharInv, ReadersTakeTurns
<1>4. \A u \in Threads : blocked[u] # "uart_rx_sem"
    BY <1>1 DEF CharInv, ReadersTakeTurns, SleepsEmpty, Threads, Getting
<1>5. SleepsEmpty'
    BY <1>4 DEF SleepsEmpty
<1>6. TokensForChars'
    <2>1. CASE cmd_rb' = <<>>
        <3>1. Len(cmd_rb') = 0 /\ uart_rx_sem' = uart_rx_sem
            BY <2>1
        <3> QED
            BY <1>2, <3>1 DEF TokensForChars
    <2>2. CASE t = "cmd" /\ pc'[t] \notin {"waitX", "waitO", "take", "release"}
        BY <2>2 DEF TokensForChars
    <2>3. CASE t = "shell" /\ pc[t] \in Getting /\ Len(cmd_rb') < Len(cmd_rb)
        <3>1. pc["cmd"] = "off" /\ pc'["cmd"] = "off"
            BY <1>1, <1>2, <2>3 DEF CharInv, ReadersTakeTurns
        <3>2. Len(cmd_rb) <= uart_rx_sem + 1
            BY <2>3, <3>1 DEF CharInv, TokensForChars
        <3>3. Len(cmd_rb') <= uart_rx_sem
            BY <1>2, <2>3, <3>2
        <3> QED
            BY <1>2, <3>1, <3>3 DEF TokensForChars
    <2> QED
        BY <2>1, <2>2, <2>3
<1> QED
    BY <1>3, <1>5, <1>6 DEF CharInv

LEMMA ResetGameKeepsChars ==
    ASSUME CharInv, ObjectsOK, LockInv, LockInv', NEW t \in {"shell", "lcd", "cmd"}, ResetGame(t)
    PROVE  CharInv'
<1> USE DEF At
<1>0. t \in Threads /\ pc \in [Threads -> Labels]
    BY DEF Threads, LockInv, LockTypeOK
<1>1. /\ t = "shell" => pc[t] \in ShellLabels
      /\ t = "lcd" => pc[t] \in LcdLabels
    BY DEF CharInv, ReadersTakeTurns
<1>2. CASE ResetTake(t)
    <2>1. PICK l \in {"clearFull", "clearCurrent"} :
              /\ Take(t, l) /\ blocked[t] = "no" /\ pc[t] \in {"resetFull", "resetCurrent"}
              /\ pc[t] = "resetFull" <=> l = "clearFull"
        BY <1>2 DEF ResetTake
    <2>2. (t = "shell" => l \in ShellLabels) /\ (t = "lcd" => l \in LcdLabels)
        BY <1>1, <2>1 DEF ShellLabels, LcdLabels, Naming
    <2>3. UNCHANGED <<cmd_rb, uart_rx_sem>> /\ Goto(t, l)
        BY <1>2, <2>1 DEF ResetTake, Take, semVars
    <2>4. \A u \in Threads : blocked'[u] = "uart_rx_sem" => blocked[u] = "uart_rx_sem"
        BY <2>1, TakeBlocks
    <2> QED
        BY <1>0, <2>1, <2>2, <2>3, <2>4, OtherKeepsChars DEF Getting
<1>3. CASE ResetReturn(t)
    <2>1. PICK l : l = AfterReset(t) /\ l \in {"start", "relock", "unlock"}
        BY DEF AfterReset
    <2>2. (t = "shell" => l \in ShellLabels) /\ (t = "lcd" => l \in LcdLabels)
        BY <2>1 DEF ShellLabels, LcdLabels, AfterReset
    <2>3. /\ Goto(t, l) /\ blocked[t] = "no" /\ pc[t] = "resetDelay" /\ Release
          /\ UNCHANGED <<cmd_rb, uart_rx_sem>>
        BY <1>3, <2>1 DEF ResetReturn, Goto, semVars
    <2>4. \A u \in Threads : blocked'[u] = "uart_rx_sem" => blocked[u] = "uart_rx_sem"
        BY <2>3, ReleaseBlocks
    <2> QED
        BY <1>0, <2>1, <2>2, <2>3, <2>4, OtherKeepsChars DEF Getting
<1>4. CASE ResetClear(t)
    <2>1. PICK l \in {"flushX", "resetDelay"} :
              /\ Goto(t, l) /\ blocked[t] = "no" /\ pc[t] \in {"clearFull", "clearCurrent"}
              /\ pc[t] = "clearFull" <=> l = "flushX"
        BY <1>4 DEF ResetClear
    <2>2. (t = "shell" => l \in ShellLabels) /\ (t = "lcd" => l \in LcdLabels)
        BY <1>1, <2>1 DEF ShellLabels, LcdLabels, Naming
    <2>3. UNCHANGED <<cmd_rb, uart_rx_sem, blocked>>
        BY <1>4 DEF ResetClear, semVars
    <2> QED
        BY <1>0, <2>1, <2>2, <2>3, OtherKeepsChars DEF Getting
<1>5. ASSUME pc[t] \in Naming
      PROVE  t \in {"shell", "cmd"} /\ pc[t] \notin {"off", "done"}
    BY <1>1, <1>5 DEF Naming, LcdLabels
<1>6. CASE NameFlush(t)
    <2>1. /\ pc[t] \in Naming /\ blocked[t] = "no" /\ cmd_rb' = <<>> /\ UNCHANGED <<uart_rx_sem, blocked>>
          /\ Goto(t, "getX") \/ Goto(t, "getO")
        BY <1>6 DEF NameFlush, Naming, semVars
    <2>2. pc' = [pc EXCEPT ![t] = pc'[t]] /\ pc'[t] \in Getting
        BY <1>0, <2>1 DEF Goto, Getting
    <2>3. Len(cmd_rb') \in Nat
        BY <2>1
    <2> QED
        BY <1>5, <2>1, <2>2, <2>3, DrainKeepsChars DEF Getting, ShellLabels, Naming
<1>7. CASE NameEmpty(t)
    <2>1. /\ pc[t] \in Naming /\ blocked[t] = "no" /\ cmd_rb' = <<>> /\ UNCHANGED <<uart_rx_sem, blocked>>
          /\ Goto(t, "waitX") \/ Goto(t, "waitO")
        BY <1>7 DEF NameEmpty, Naming, semVars
    <2>2. pc' = [pc EXCEPT ![t] = pc'[t]] /\ pc'[t] \in {"waitX", "waitO"}
        BY <1>0, <2>1 DEF Goto
    <2>3. Len(cmd_rb') \in Nat
        BY <2>1
    <2> QED
        BY <1>5, <2>1, <2>2, <2>3, DrainKeepsChars DEF ShellLabels, Naming
<1>8. CASE NameWait(t)
    <2>1. PICK l \in Getting : TakeRxSem(t, l)
        BY <1>8 DEF NameWait, Getting
    <2>2. pc[t] \in {"waitX", "waitO"} /\ blocked[t] = "no" /\ UNCHANGED cmd_rb
        BY <1>8 DEF NameWait
    <2>3. Len(cmd_rb) <= uart_rx_sem
        <3>1. CASE t = "cmd"
            BY <2>2, <3>1 DEF CharInv, TokensForChars
        <3>2. CASE t = "shell"
            <4>1. pc["cmd"] = "off"
                BY <2>2, <3>2 DEF CharInv, ReadersTakeTurns
            <4> QED
                BY <2>2, <3>2, <4>1 DEF CharInv, TokensForChars, Getting
        <3> QED
            BY <1>5, <2>2, <3>1, <3>2 DEF Naming
    <2> QED
        BY <1>5, <2>1, <2>2, <2>3, TakeRxSemKeepsChars DEF Naming
<1>9. CASE NameChar(t)
    <2>1. /\ pc[t] \in Getting /\ blocked[t] = "no" /\ cmd_rb # <<>> /\ cmd_rb' = Tail(cmd_rb)
          /\ UNCHANGED <<uart_rx_sem, blocked>>
          /\ pc' = pc \/ Goto(t, "flushO") \/ Goto(t, "resetDelay")
        BY <1>9 DEF NameChar, Getting, semVars
    <2>2. pc' = [pc EXCEPT ![t] = pc'[t]] /\ pc'[t] \in Getting \cup {"flushO", "resetDelay"}
        BY <1>0, <2>1 DEF Goto
    <2>3. Len(cmd_rb') \in Nat /\ Len(cmd_rb') < Len(cmd_rb)
        BY <2>1 DEF ObjectsOK
    <2> QED
        BY <1>5, <2>1, <2>2, <2>3, DrainKeepsChars DEF Getting, ShellLabels, Naming
<1> QED
    BY <1>2, <1>3, <1>4, <1>6, <1>7, <1>8, <1>9 DEF ResetGame

LEMMA ThreadsKeepChars ==
    ASSUME CharInv, ObjectsOK, LockInv, LockInv', Start \/ KeyThread \/ LcdThread \/ CmdThread
    PROVE  CharInv'
<1> USE DEF At
<1>0. /\ "key" \in Threads /\ "lcd" \in Threads /\ "cmd" \in Threads /\ "shell" \in Threads
      /\ pc \in [Threads -> Labels] /\ uart_rx_sem \in Nat
    BY DEF Threads, LockInv, LockTypeOK, ObjectsOK
<1>1. CASE Start
    <2>1. /\ pc["shell"] = "start" /\ pc["cmd"] = "off" /\ UNCHANGED <<cmd_rb, uart_rx_sem, blocked>>
          /\ pc' = [shell |-> "done", key |-> "take", lcd |-> "lock", cmd |-> "take"]
        BY <1>1 DEF Start, LockInv, OffUntilStarted, semVars
    <2>2. Len(cmd_rb) <= uart_rx_sem
        BY <2>1 DEF CharInv, TokensForChars, Getting
    <2>3. \A u \in Threads : blocked[u] # "uart_rx_sem"
        BY <2>1 DEF CharInv, ReadersTakeTurns, SleepsEmpty, Threads, Getting
    <2> QED
        BY <2>1, <2>2, <2>3 DEF CharInv, ReadersTakeTurns, TokensForChars, SleepsEmpty, ShellLabels,
                                LcdLabels, Threads
<1>2. CASE KeyThread
    <2>1. PICK l \in {"debounce", "scan", "settle", "enable", "take"} : Goto("key", l)
        BY <1>2 DEF KeyThread, KeyTake, KeyLock, KeyScan, SettlePiece, KeyEnable, Take
    <2>2. /\ blocked["key"] = "no" /\ UNCHANGED <<cmd_rb, uart_rx_sem>>
          /\ pc["key"] \in {"debounce", "scan", "settle", "enable", "take"}
        BY <1>2 DEF KeyThread, KeyTake, KeyLock, KeyScan, SettlePiece, KeyEnable, semVars
    <2>3. \A u \in Threads : blocked'[u] = "uart_rx_sem" => blocked[u] = "uart_rx_sem"
        <3>1. CASE KeyTake
            BY <3>1 DEF KeyTake, LockInv, LockTypeOK
        <3> QED
            BY <1>2, <3>1, TakeBlocks, ReleaseBlocks
               DEF KeyThread, KeyLock, KeyScan, SettlePiece, KeyEnable
    <2> QED
        BY <1>0, <2>1, <2>2, <2>3, OtherKeepsChars
<1>3. CASE LcdThread
    <2>1. CASE LcdLock \/ LcdDraw \/ LcdAnnounced \/ LcdUnlock
        <3>1. PICK l \in {"draw", "unlock", "lock", "announce", "resetCurrent"} : Goto("lcd", l)
            BY <2>1 DEF LcdLock, LcdDraw, LcdAnnounced, LcdUnlock, Take
        <3>2. /\ blocked["lcd"] = "no" /\ UNCHANGED <<cmd_rb, uart_rx_sem>>
              /\ pc["lcd"] \in {"lock", "relock", "draw", "announce", "unlock"}
            BY <2>1 DEF LcdLock, LcdDraw, LcdAnnounced, LcdUnlock, semVars
        <3>3. \A u \in Threads : blocked'[u] = "uart_rx_sem" => blocked[u] = "uart_rx_sem"
            BY <2>1, TakeBlocks, ReleaseBlocks DEF LcdLock, LcdDraw, LcdAnnounced, LcdUnlock
        <3> QED
            BY <1>0, <3>1, <3>2, <3>3, OtherKeepsChars DEF LcdLabels
    <2> QED
        BY <1>3, <2>1, ResetGameKeepsChars DEF LcdThread
<1>4. CASE CmdThread
    <2>1. CASE CmdLock \/ CmdExec \/ SettlePiece("cmd") \/ CmdReset \/ CmdUnlock
        <3>1. PICK l \in {"exec", "settle", "get", "resetFull", "resetCurrent"} : Goto("cmd", l)
            BY <2>1 DEF CmdLock, CmdExec, SettlePiece, CmdReset, CmdUnlock, Take
        <3>2. /\ blocked["cmd"] = "no" /\ UNCHANGED <<cmd_rb, uart_rx_sem>>
              /\ pc["cmd"] \in {"lock", "exec", "settle", "unlock"}
            BY <2>1 DEF CmdLock, CmdExec, SettlePiece, CmdReset, CmdUnlock, semVars
        <3>3. \A u \in Threads : blocked'[u] = "uart_rx_sem" => blocked[u] = "uart_rx_sem"
            BY <2>1, TakeBlocks, ReleaseBlocks DEF CmdLock, CmdExec, SettlePiece, CmdReset, CmdUnlock
        <3> QED
            BY <1>0, <3>1, <3>2, <3>3, OtherKeepsChars
    <2>2. CASE CmdTake
        <3>1. Len(cmd_rb) <= uart_rx_sem
            BY <2>2 DEF CmdTake, CharInv, TokensForChars
        <3> QED
            BY <2>2, <3>1, TakeRxSemKeepsChars DEF CmdTake
    <2>3. CASE CmdGet
        <3>1. /\ pc["cmd"] = "get" /\ blocked["cmd"] = "no" /\ UNCHANGED <<uart_rx_sem, blocked>>
              /\ \/ cmd_rb' = <<>> /\ Goto("cmd", "release")
                 \/ cmd_rb # <<>> /\ cmd_rb' = Tail(cmd_rb) /\ Goto("cmd", "lock")
            BY <2>3 DEF CmdGet, semVars
        <3>2. /\ pc' = [pc EXCEPT !["cmd"] = pc'["cmd"]]
              /\ \/ pc'["cmd"] = "release" /\ cmd_rb' = <<>>
                 \/ pc'["cmd"] = "lock"
            BY <1>0, <3>1 DEF Goto
        <3>3. Len(cmd_rb') \in Nat
            BY <3>1 DEF ObjectsOK
        <3> QED
            BY <3>1, <3>2, <3>3, DrainKeepsChars
    <2>4. CASE CmdRelease
        <3>1. /\ pc["cmd"] = "release" /\ blocked["cmd"] = "no" /\ cmd_rb' = cmd_rb
              /\ pc' = [pc EXCEPT !["cmd"] = "take"]
            BY <2>4 DEF CmdRelease, Goto
        <3>2. pc["shell"] = "done" /\ \A u \in Threads : blocked[u] # "uart_rx_sem"
            BY <3>1 DEF CharInv, ReadersTakeTurns, SleepsEmpty, Threads, Getting
        <3>3. blocked' = blocked /\ uart_rx_sem' \in {uart_rx_sem, uart_rx_sem + 1}
            BY <2>4, <3>2 DEF CmdRelease, ReleaseRxSem
        <3>4. Len(cmd_rb) <= uart_rx_sem /\ Len(cmd_rb) \in Nat
            BY <3>1 DEF CharInv, TokensForChars, ObjectsOK
        <3>5. ReadersTakeTurns'
            BY <1>0, <3>1, <3>2, <3>3 DEF CharInv, ReadersTakeTurns
        <3>6. TokensForChars'
            BY <1>0, <3>1, <3>3, <3>4 DEF TokensForChars
        <3>7. SleepsEmpty'
            BY <3>2, <3>3 DEF SleepsEmpty
        <3> QED
            BY <3>5, <3>6, <3>7 DEF CharInv
    <2> QED
        BY <1>4, <2>1, <2>2, <2>3, <2>4, ResetGameKeepsChars DEF CmdThread
<1> QED
    BY <1>1, <1>2, <1>3, <1>4

\* One character arrives, and one token with it or one reader woken.
LEMMA CharArrives ==
    ASSUME CharInv, ObjectsOK, LockInv, LockInv', RbSize <= SemMax,
           NEW n \in Nat, n = 1, NEW s \in [1..n -> Chars], uart_rx_ind(s)
    PROVE  CharInv'
<1>0. /\ "key" \in Threads /\ "lcd" \in Threads /\ "cmd" \in Threads /\ "shell" \in Threads
      /\ uart_rx_sem \in Nat /\ Len(cmd_rb) \in Nat /\ SemMax \in Nat /\ RbSize \in Nat
      /\ blocked \in [Threads -> {"no", "mutex", "key_sem", "uart_rx_sem"}]
    BY SizesAssumption DEF Threads, LockInv, LockTypeOK, ObjectsOK
<1>1. /\ Len(cmd_rb') \in Nat /\ Len(cmd_rb') <= RbSize /\ Len(cmd_rb') <= Len(cmd_rb) + 1
    <2> DEFINE k == IF Len(s) < RbSize - Len(cmd_rb) THEN Len(s) ELSE RbSize - Len(cmd_rb)
    <2>0. s \in Seq(Chars) /\ Len(s) = n
        BY CharsAreSeq
    <2>1. s \in Seq(Chars) /\ Len(s) = 1 /\ cmd_rb \in Seq(Chars) /\ Len(cmd_rb) <= RbSize
        BY <2>0 DEF ObjectsOK
    <2>2. k \in 0..1 /\ k <= RbSize - Len(cmd_rb)
        BY <1>0, <2>1
    <2>3. cmd_rb' = cmd_rb \o SubSeq(s, 1, k)
        BY DEF uart_rx_ind, PutChars
    <2> HIDE DEF k
    <2>4. SubSeq(s, 1, k) \in Seq(Chars) /\ Len(SubSeq(s, 1, k)) = k
        BY <2>1, <2>2
    <2>5. Len(cmd_rb') = Len(cmd_rb) + k
        BY <2>1, <2>3, <2>4
    <2> QED
        BY <1>0, <2>2, <2>5
<1>2. pc' = pc /\ ReleaseRxSem
    BY DEF uart_rx_ind
<1>3. CASE \E t \in Threads : blocked[t] = "uart_rx_sem"
    <2>1. PICK t \in Threads : blocked[t] = "uart_rx_sem"
        BY <1>3
    <2>2. /\ uart_rx_sem = 0 /\ uart_rx_sem' = 0 /\ cmd_rb = <<>> /\ pc[t] \in Getting \cup {"get"}
          /\ \A u \in Threads : blocked'[u] # "uart_rx_sem"
        BY <1>2, <1>3, <2>1 DEF ReleaseRxSem, CharInv, SleepsEmpty
    <2>3. Len(cmd_rb') <= 1
        BY <1>1, <2>2
    <2>4. t \in {"shell", "cmd"}
        BY <2>1 DEF CharInv, ReadersTakeTurns, Threads
    <2>5. TokensForChars'
        <3>1. CASE t = "cmd"
            BY <1>2, <2>2, <3>1 DEF TokensForChars, Getting
        <3>2. CASE t = "shell"
            <4>1. pc["cmd"] = "off" /\ pc["shell"] \in Getting
                BY <2>2, <3>2 DEF CharInv, ReadersTakeTurns, ShellLabels, Naming, Getting
            <4> QED
                BY <1>2, <2>2, <2>3, <4>1 DEF TokensForChars
        <3> QED
            BY <2>4, <3>1, <3>2
    <2> QED
        BY <1>0, <1>2, <2>2, <2>5 DEF CharInv, ReadersTakeTurns, SleepsEmpty
<1>4. CASE ~ \E t \in Threads : blocked[t] = "uart_rx_sem"
    <2>1. blocked' = blocked /\ uart_rx_sem' = IF uart_rx_sem < SemMax THEN uart_rx_sem + 1 ELSE uart_rx_sem
        BY <1>2, <1>4 DEF ReleaseRxSem
    <2>2. \/ uart_rx_sem' = uart_rx_sem + 1
          \/ uart_rx_sem' = uart_rx_sem /\ Len(cmd_rb') <= uart_rx_sem
        BY <1>0, <1>1, <2>1
    <2>3. uart_rx_sem' \in Nat
        BY <1>0, <2>2
    <2>4. TokensForChars'
        <3>1. Len(cmd_rb) <= uart_rx_sem => Len(cmd_rb') <= uart_rx_sem'
            BY <1>0, <1>1, <2>2
        <3>2. Len(cmd_rb) <= uart_rx_sem + 1 => Len(cmd_rb') <= uart_rx_sem' + 1
            BY <1>0, <1>1, <2>2
        <3> QED
            BY <1>2, <3>1, <3>2 DEF CharInv, TokensForChars
    <2> QED
        BY <1>2, <1>4, <2>1, <2>4 DEF CharInv, ReadersTakeTurns, SleepsEmpty
<1> QED
    BY <1>3, <1>4

LEMMA CharInvNext ==
    ASSUME CharInv, ObjectsOK, LockInv, LockInv', [Next]_vars, Batch = 1, RbSize <= SemMax
    PROVE  CharInv'
<1>1. ASSUME pc' = pc, UNCHANGED <<cmd_rb, uart_rx_sem>>,
             \A u \in Threads : blocked'[u] = "uart_rx_sem" => blocked[u] = "uart_rx_sem"
      PROVE  CharInv'
    BY <1>1 DEF CharInv, ReadersTakeTurns, TokensForChars, SleepsEmpty, Threads
<1>2. CASE UNCHANGED vars
    BY <1>1, <1>2 DEF vars, semVars
<1>3. ASSUME NEW p, Press(p) \/ LetGo(p)
      PROVE  CharInv'
    <2>1. \A u \in Threads : blocked'[u] = "uart_rx_sem" => blocked[u] = "uart_rx_sem"
        BY <1>3 DEF Press, LetGo, LockInv, LockTypeOK
    <2> QED
        BY <1>1, <1>3, <2>1 DEF Press, LetGo, semVars
<1>4. ASSUME NEW n \in 1..Batch, NEW s \in [1..n -> Chars], uart_rx_ind(s)
      PROVE  CharInv'
    <2>1. n = 1
        OBVIOUS
    <2> QED
        BY <1>4, <2>1, CharArrives
<1> QED
    BY <1>2, <1>3, <1>4, ResetGameKeepsChars, ThreadsKeepChars DEF Next, ShellThread, Environment

\* The command thread never sleeps on uart_rx_sem beside a character, as long as
\* an indication brings one character and the limit of the semaphore is not
\* below the size of the buffer: for every size of the buffer, and across the
\* prompts that flush it and the shell's use of the same semaphore.
THEOREM NoCharIsForgotten ==
    ASSUME Batch = 1, RbSize <= SemMax
    PROVE  Spec => []NoCharForgotten
<1>1. Init => CharInv
    <2> SUFFICES ASSUME Init PROVE CharInv
        OBVIOUS
    <2>1. cmd_rb = <<>> /\ uart_rx_sem = 0 /\ blocked = [t \in Threads |-> "no"]
        BY DEF Init, InitObjects
    <2>2. /\ pc["shell"] \in ShellLabels /\ pc["lcd"] \in LcdLabels
          /\ pc["cmd"] = "off" <=> pc["shell"] # "done"
        BY DEF Init, FreshStart, GameUnderWay, ShellLabels, LcdLabels
    <2>3. Len(cmd_rb) = 0
        BY <2>1
    <2> QED
        BY <2>1, <2>2, <2>3 DEF CharInv, ReadersTakeTurns, TokensForChars, SleepsEmpty, Threads
<1>2. CharInv /\ ObjectsOK /\ LockInv /\ LockInv' /\ [Next]_vars => CharInv'
    BY CharInvNext
<1>3. CharInv => NoCharForgotten
    BY DEF CharInv, SleepsEmpty, NoCharForgotten, Threads
<1> QED
    BY <1>1, <1>2, <1>3, LockInvariance, ObjectsInvariance, PTL DEF Spec

=============================================================================
