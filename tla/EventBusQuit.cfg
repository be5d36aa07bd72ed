\* `q` and nothing after it.
SPECIFICATION FairSpec
CONSTANTS
    Scripts <- JustQuit
    Feeds = {}
    Capacity = 1
PROPERTIES QuitEnds
CHECK_DEADLOCK FALSE
