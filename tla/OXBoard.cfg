SPECIFICATION BoardSpec
INVARIANTS
    BoardTypeOK
    StepsCountPieces
    TurnsAlternate
    StateIsOutcome
PROPERTY
    PiecesStay
