\* Two commands, a command before `q`, and a key after it; the journal competes with
\* the others for the channel.
SPECIFICATION FairSpec
CONSTANTS
    Scripts <- MCScripts
    Feeds = {"journal"}
    Capacity = 1
INVARIANTS TypeOK LastCommandWins
PROPERTIES ImplementsTelemetry KeysTakeEffect
CHECK_DEADLOCK FALSE
