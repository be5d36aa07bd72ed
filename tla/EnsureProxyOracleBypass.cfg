\* An oversized model picked by hot-swap, and chats for it and beside it.
SPECIFICATION Spec
CONSTANTS
    r1 = r1  r2 = r2  s1 = s1
    small = small  other = other  huge = huge  ghost = ghost
    NoModel = NoModel  NoOne = NoOne
    Requests <- Reqs
    Swaps = {s1}
    Names <- Box
    Profiles = {small, huge}
    RouterModels = {small, huge}
    Kinds = {"ensure", "chat"}
    Forces = {TRUE, FALSE}
    ModelsMax = 1
    ChanCap = 1
    NeedVram <- Vram  NeedRam <- Ram
    File <- FileOfProfile  Files <- AllFiles  Hints <- AllHints
    ReserveVram = 10  ReserveRam = 20  TotalVram = 120  TotalRam = 320
    UnknownVram = 0
PROPERTIES ForwardNeverLoadsOversized
CHECK_DEADLOCK FALSE
