\* Bodies of up to three lines and the provider's own, cut anywhere.
CONSTANTS
    None = None
    MaxLines = 3
    PreviewPieces = 2
    Calls <- MCCalls
SPECIFICATION Spec
INVARIANTS ChunksDoNotMatter SameFigures HonestStream LoggedUnless
CHECK_DEADLOCK FALSE
