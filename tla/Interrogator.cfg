\* Two strikes that may overlap, replies of two tokens.
SPECIFICATION Spec
CONSTANTS
    Strikes = 2
    Tokens = 2
    Capacity = 2
INVARIANTS TypeOK DeckShowsReply RepliesInOrder
CHECK_DEADLOCK FALSE
