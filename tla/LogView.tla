------------------------------- MODULE LogView -------------------------------
(***************************************************************************)
(* The log pane of the TUI (app.rs, ui.rs): the last lines, the filter over*)
(* them and the highlighted one, which follows new lines until the operator*)
(* scrolls up.  A line is the length of the longest filter text it still   *)
(* contains, texts being prefixes of one another.  Indices count from 0    *)
(* among the lines shown, as in ratatui's ListState.                       *)
(***************************************************************************)
EXTENDS Naturals, Sequences, FiniteSets

CONSTANTS
    LogCap,      \* 100
    Nothing      \* no selection

ASSUME LogAssumption == LogCap \in Nat \ {0} /\ Nothing \notin Nat

VARIABLES
    logs,        \* the lines, oldest first
    query,       \* search_query: how much of the text is typed
    at,          \* log_state, as the last draw left it
    auto_scroll

viewVars == <<logs, query, at, auto_scroll>>

Shown(lines, q) == {i \in DOMAIN lines : lines[i] >= q}

\* Rendering a List puts a selection past its end on the last item, and drops that of
\* an empty one.
Drawn(i, n) == IF n = 0 THEN Nothing ELSE IF i # Nothing /\ i >= n THEN n - 1 ELSE i

\* A turn of the loop that selects i, and the draw that follows it.
View(lines, q, i) ==
    /\ logs' = lines /\ query' = q
    /\ at' = Drawn(i, Cardinality(Shown(lines, q)))

LastLine(lines) == IF lines = <<>> THEN 0 ELSE Len(lines) - 1

\* Mutant: the last line is selected before the new one is there.
AddLogSelectsFirst(line) ==
    LET lines == Append(IF Len(logs) = LogCap THEN Tail(logs) ELSE logs, line)
    IN  /\ View(lines, query, IF auto_scroll THEN LastLine(logs) ELSE at)
        /\ UNCHANGED auto_scroll

AddLog(line) ==
    LET lines == Append(IF Len(logs) = LogCap THEN Tail(logs) ELSE logs, line)
    IN  /\ View(lines, query, IF auto_scroll THEN LastLine(lines) ELSE at)
        /\ UNCHANGED auto_scroll

ScrollUp ==
    /\ auto_scroll' = FALSE
    /\ View(logs, query, IF at = Nothing \/ at = 0 THEN 0 ELSE at - 1)

\* The end it looks for is that of the whole log.
ScrollDown ==
    IF at # Nothing /\ at >= LastLine(logs)
    THEN auto_scroll' = TRUE /\ View(logs, query, LastLine(logs))
    ELSE /\ View(logs, query, IF at = Nothing THEN 0 ELSE at + 1)
         /\ UNCHANGED auto_scroll

Filter(q) == View(logs, q, at) /\ UNCHANGED auto_scroll

\* The selection at 0 does not survive the first draw, of an empty log.
LogInit == logs = <<>> /\ query = 0 /\ at = Nothing /\ auto_scroll = TRUE

------------------------------------------------------------------------------
(* Properties.                                                             *)

LogTypeOK ==
    /\ logs \in Seq(Nat) /\ Len(logs) <= LogCap
    /\ query \in Nat
    /\ at = Nothing \/ at \in 0..Cardinality(Shown(logs, query)) - 1
    /\ auto_scroll \in BOOLEAN

\* The line that is number i of those shown, from 0; the one that is highlighted.
LineAt(lines, q, i) ==
    CHOOSE p \in {p \in Shown(lines, q) :
                     Cardinality({j \in Shown(lines, q) : j < p}) = i} : TRUE

Highlighted == LineAt(logs, query, at)

\* When a line comes, a view that follows highlights the newest line that is shown,
\* whatever the filter hides and although the oldest line goes; one that is scrolled up
\* keeps its line, until the log is full.
FollowOrStay ==
    logs' # logs /\ logs' # <<>> =>
        IF auto_scroll
        THEN \/ at' = Nothing /\ Shown(logs, query)' = {}
             \/ at' # Nothing /\ \A i \in Shown(logs, query)' : i <= Highlighted'
        ELSE at # Nothing /\ Len(logs) < LogCap => at' # Nothing /\ Highlighted' = Highlighted

\* Every step does so.
LinesFollowOrStay == [][FollowOrStay]_viewVars

------------------------------------------------------------------------------
(* What the code's words claim and the code does not do.                   *)

\* "scroll logs (auto-scroll off / resumes at bottom)" (BEHAVIOR.md): scrolled down on
\* the last line shown, the view follows again.  ScrollDown looks for the end of the
\* whole log, which a filter that hides a line puts out of reach.
ResumesAtBottom ==
    at # Nothing /\ at = Cardinality(Shown(logs, query)) - 1 => at >= LastLine(logs)
==============================================================================
