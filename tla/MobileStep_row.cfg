\* Rows that share an id, on a screen that does not move.
SPECIFICATION Spec
CONSTANTS
    Word <- Words
    Letters <- LettersOf
    FieldWord <- FieldWords
    Scripts <- RowApps
    Polls = 1
    MaxChanges = 0
    MaxErrors = 0
INVARIANT TapLandsOnNamed
