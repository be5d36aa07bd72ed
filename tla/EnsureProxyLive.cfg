\* Every request is answered, and what the TUI shows, with two presets that fit.
SPECIFICATION FairSpec
CONSTANTS
    r1 = r1  r2 = r2  s1 = s1
    small = small  other = other  huge = huge  ghost = ghost
    NoModel = NoModel  NoOne = NoOne
    Requests <- Reqs
    Swaps = {}
    Names = {small, other, ghost}
    Profiles = {small, other}
    RouterModels = {small, other}
    Kinds = {"ensure", "stream", "chat"}
    Forces = {TRUE, FALSE}
    ModelsMax = 1
    ChanCap = 2
    NeedVram <- Vram  NeedRam <- Ram
    File <- FileOfProfile  Files <- AllFiles  Hints <- AllHints
    ReserveVram = 10  ReserveRam = 20  TotalVram = 120  TotalRam = 320
    UnknownVram = 0
INVARIANTS TuiFollowsEnsures
PROPERTIES EveryRequestAnswered
CHECK_DEADLOCK FALSE
