----------------------------- MODULE TuiConsole -----------------------------
(***************************************************************************)
(* The bottom deck of the TUI: the console's line editor and its history,  *)
(* the hot-swap list, and the tuner's draft model, over a model list that  *)
(* a background task replaces at any time (main.rs, app.rs, ui.rs).  One   *)
(* step is one turn of the loop, which draws before it takes an event.     *)
(*                                                                         *)
(* Text is a sequence of symbols; the ready-made payload for a model is    *)
(* one symbol of its own.  Indices count from 0 as in the code.  The       *)
(* terminal is large enough to be drawn on; the inspectors' keys are left  *)
(* to ProcessControl.                                                      *)
(***************************************************************************)
EXTENDS LogView, SequencesExt

CONSTANTS
    Models,       \* model ids; "None" is not one
    Chars,        \* what is typed; " " is a blank
    HistoryCap,   \* 10
    Sessions      \* bounds of what an operator does in one session

ASSUME BoundsAssumption ==
    /\ HistoryCap \in Nat \ {0, 1}
    /\ Sessions \subseteq [typed : Nat, fired : Nat, listed : Nat, searched : Nat]
    /\ IsFiniteSet(Models) /\ "None" \notin Models

VARIABLES
    session,     \* bounds: of a line, of payloads fired, of a list and of a filter; a log
                 \* is scrolled only where it is filtered
    focus,       \* "main", "tuner" (show_tuner), "console" (console_focused), "help"
                 \* (show_help) or "search" (is_searching)
    tab,         \* bottom_tab_mode: "interrogator" or "hot-swap"
    page,        \* tuner_page
    input, cursor,            \* console_input, console_cursor
    history, history_index,
    models,      \* available_models
    active,      \* active_model
    selected,    \* hot_swap_state: an index, or Nothing
    draft,       \* draft_model_idx
    crashed,     \* a handler panicked
    file,        \* the history file
    saved, fired \* history: the lines loaded at a start and those fired since

lineVars == <<input, cursor>>
historyVars == <<history, history_index, file, saved, fired>>
listVars == <<models, active, selected, draft>>
paneVars == <<session, focus, tab, page>>
vars == <<paneVars, lineVars, historyVars, listVars, viewVars, crashed>>

Payload(m) == <<m>>
Blank(text) == \A i \in DOMAIN text : text[i] = " "

Replace(text) == input' = text /\ cursor' = Len(text)

------------------------------------------------------------------------------
(* Drawing.                                                                *)

\* Page 2 of the tuner names the draft model, number 0 being none.
DrawPanics ==
    focus = "tuner" /\ page = 1 /\ draft > 0 /\ models # <<>> /\ draft > Len(models)

Running == ~crashed /\ ~DrawPanics

------------------------------------------------------------------------------
(* Keys of the dashboard, the search, the help and the tuner.              *)

editVars == <<lineVars, historyVars>>

OnMain ==
    /\ Running /\ focus = "main"
    /\ \/ focus' \in {"tuner", "console", "help"} /\ UNCHANGED tab
       \/ tab' = (IF tab = "interrogator" THEN "hot-swap" ELSE "interrogator")
          /\ UNCHANGED focus
    /\ UNCHANGED <<session, page, editVars, listVars, viewVars, crashed>>

\* Esc everywhere but on the dashboard.
Leave ==
    /\ Running /\ focus # "main"
    /\ focus' = "main"
    /\ UNCHANGED <<session, tab, page, editVars, listVars, viewVars, crashed>>

\* PageUp and PageDown.
Scroll ==
    /\ Running /\ focus = "main" /\ session.searched > 0
    /\ ScrollUp \/ ScrollDown
    /\ UNCHANGED <<paneVars, editVars, listVars, crashed>>

\* `/` starts from an empty filter; Enter or Esc leave it in force.
Search ==
    /\ Running
    /\ \/ /\ focus = "main" /\ session.searched > 0
          /\ focus' = "search" /\ Filter(0)
       \/ /\ focus = "search"
          /\ \/ query < session.searched /\ Filter(query + 1)
             \/ query > 0 /\ Filter(query - 1)
          /\ UNCHANGED focus
    /\ UNCHANGED <<session, tab, page, editVars, listVars, crashed>>

TunerTab ==
    /\ Running /\ focus = "tuner"
    /\ page' = (page + 1) % 3
    /\ UNCHANGED <<session, focus, tab, editVars, listVars, viewVars, crashed>>

\* What a line may contain of the filter.
Lines == 0..session.searched

\* The settings go to the active model's section, if there are one and a file.
TunerEnter ==
    /\ Running /\ focus = "tuner"
    /\ focus' \in IF active = "None" THEN {"tuner"} ELSE {"tuner", "main"}
    /\ \E line \in Lines : AddLog(line)
    /\ UNCHANGED <<session, tab, page, editVars, listVars, crashed>>

\* Left and Right on the draft model's row.
PickDraft ==
    /\ Running /\ focus = "tuner" /\ page = 1
    /\ \/ draft < Len(models) /\ draft' = draft + 1
       \/ draft > 0 /\ draft' = draft - 1
    /\ UNCHANGED <<paneVars, editVars, models, active, selected, viewVars, crashed>>

------------------------------------------------------------------------------
(* The hot-swap list.                                                      *)

Swapping == Running /\ focus = "console" /\ tab = "hot-swap"

LastIndex == IF models = <<>> THEN 0 ELSE Len(models) - 1

Up(i) == IF i = 0 THEN LastIndex ELSE i - 1
Down(i) == IF i >= LastIndex THEN 0 ELSE i + 1

SwapMove ==
    /\ Swapping
    /\ \E i \in IF selected = Nothing THEN {0} ELSE {Up(selected), Down(selected)} :
          selected' = Drawn(i, Len(models))
    /\ UNCHANGED <<paneVars, editVars, models, active, draft, viewVars, crashed>>

SwapEnter ==
    /\ Swapping /\ selected # Nothing /\ selected < Len(models)
    /\ focus' = "main"
    /\ active' = models[selected + 1]
    /\ Replace(Payload(active'))
    /\ \E line \in Lines : AddLog(line)
    /\ UNCHANGED <<session, tab, page, historyVars, models, selected, draft, crashed>>

------------------------------------------------------------------------------
(* The console.                                                            *)

Typing == Running /\ focus = "console" /\ tab = "interrogator"

CursorMove ==
    /\ Typing
    /\ \/ cursor > 0 /\ cursor' = cursor - 1
       \/ cursor < Len(input) /\ cursor' = cursor + 1
    /\ UNCHANGED <<paneVars, input, historyVars, listVars, viewVars, crashed>>

HistoryUp ==
    /\ Typing /\ history # <<>> /\ history_index > 0
    /\ history_index' = history_index - 1
    /\ Replace(history[history_index])
    /\ UNCHANGED <<paneVars, history, file, saved, fired, listVars, viewVars, crashed>>

HistoryDown ==
    /\ Typing /\ history_index < Len(history)
    /\ history_index' = history_index + 1
    /\ Replace(IF history_index' = Len(history) THEN <<>> ELSE history[history_index' + 1])
    /\ UNCHANGED <<paneVars, history, file, saved, fired, listVars, viewVars, crashed>>

\* Vec::insert panics past the end.
Char(c) ==
    /\ Typing /\ Len(input) < session.typed
    /\ IF cursor > Len(input)
       THEN crashed' = TRUE /\ UNCHANGED lineVars
       ELSE /\ input' = InsertAt(input, cursor + 1, c)
            /\ cursor' = cursor + 1
            /\ UNCHANGED crashed
    /\ UNCHANGED <<paneVars, historyVars, listVars, viewVars>>

\* Mutant: the cursor stays where it was.
BackspaceInPlace ==
    /\ Typing /\ cursor > 0
    /\ IF cursor > Len(input)
       THEN crashed' = TRUE /\ UNCHANGED input
       ELSE input' = RemoveAt(input, cursor) /\ UNCHANGED crashed
    /\ UNCHANGED <<cursor, paneVars, historyVars, listVars, viewVars>>

\* Vec::remove panics past the end.
Backspace ==
    /\ Typing /\ cursor > 0
    /\ IF cursor > Len(input)
       THEN crashed' = TRUE /\ UNCHANGED lineVars
       ELSE /\ input' = RemoveAt(input, cursor)
            /\ cursor' = cursor - 1
            /\ UNCHANGED crashed
    /\ UNCHANGED <<paneVars, historyVars, listVars, viewVars>>

Delete ==
    /\ Typing /\ cursor < Len(input)
    /\ input' = RemoveAt(input, cursor + 1)
    /\ UNCHANGED <<cursor, paneVars, historyVars, listVars, viewVars, crashed>>

\* Mutant: compared with the oldest line.
RecordAgain(lines, line) ==
    IF lines # <<>> /\ Head(lines) = line THEN lines
    ELSE LET longer == Append(lines, line)
         IN  IF Len(longer) > HistoryCap THEN Tail(longer) ELSE longer

Record(lines, line) ==
    IF lines # <<>> /\ Last(lines) = line THEN lines
    ELSE LET longer == Append(lines, line)
         IN  IF Len(longer) > HistoryCap THEN Tail(longer) ELSE longer

\* The payload is fired; a blank one is not remembered.
Enter ==
    /\ Typing /\ Len(fired) < session.fired
    /\ history' = IF Blank(input) THEN history ELSE Record(history, input)
    /\ history_index' = IF Blank(input) THEN history_index ELSE Len(history')
    /\ fired' = Append(fired, input)
    /\ UNCHANGED <<paneVars, lineVars, file, saved, listVars, viewVars, crashed>>

------------------------------------------------------------------------------
(* Events of the background tasks.                                         *)

\* Mutant: only an empty list moves the cursor of the hot-swap list.
ModelsFetchedKeepsCursor(list) ==
    /\ Running
    /\ models' = list
    /\ IF active = "None" /\ list # <<>>
       THEN active' = list[1] /\ Replace(Payload(list[1]))
       ELSE UNCHANGED <<active, lineVars>>
    /\ selected' = IF list = <<>> THEN Nothing ELSE IF selected = Nothing THEN 0 ELSE selected
    /\ UNCHANGED <<paneVars, historyVars, draft, viewVars, crashed>>

\* Event::ModelsFetched: the first model is taken if there is none, and the
\* cursor of the hot-swap list is kept inside it.
ModelsFetched(list) ==
    /\ Running
    /\ models' = list
    /\ IF active = "None" /\ list # <<>>
       THEN active' = list[1] /\ Replace(Payload(list[1]))
       ELSE UNCHANGED <<active, lineVars>>
    /\ selected' = IF list = <<>> THEN Nothing
                   ELSE IF selected = Nothing THEN 0
                   ELSE IF selected >= Len(list) THEN Len(list) - 1
                   ELSE selected
    /\ UNCHANGED <<paneVars, historyVars, draft, viewVars, crashed>>

ActiveModelSet ==
    /\ Running
    /\ active' \in Models
    /\ \E line \in Lines : AddLog(line)
    /\ UNCHANGED <<paneVars, editVars, models, selected, draft, crashed>>

\* Event::LogLine, Event::Error and every key whose command leaves a line.
Logged ==
    /\ Running
    /\ \E line \in Lines : AddLog(line)
    /\ UNCHANGED <<paneVars, editVars, listVars, crashed>>

------------------------------------------------------------------------------
(* Starting and quitting.                                                  *)

\* App::new, with the lines of the history file.  The payload of "None" has one
\* character less than its cursor says.
Init ==
    /\ session \in Sessions
    /\ focus = "main" /\ tab = "interrogator" /\ page = 0
    /\ input = Payload("None") /\ cursor = Len(input) + 1
    /\ file \in {<<>>, <<<<"x">>, <<"x", "x">>>>}
    /\ history = file /\ history_index = Len(file)
    /\ saved = file /\ fired = <<>>
    /\ models = <<>> /\ active = "None" /\ selected = Nothing /\ draft = 0
    /\ crashed = FALSE
    /\ LogInit

Restart ==
    /\ focus' = "main" /\ tab' = "interrogator" /\ page' = 0
    /\ input' = Payload("None") /\ cursor' = Len(input') + 1
    /\ history' = file' /\ history_index' = Len(file')
    /\ models' = <<>> /\ active' = "None" /\ selected' = Nothing /\ draft' = 0
    /\ crashed' = FALSE
    /\ logs' = <<>> /\ query' = 0 /\ at' = Nothing /\ auto_scroll' = TRUE
    /\ UNCHANGED session

\* A history without lines is not written; a write that fails leaves the file as it was,
\* or some of the new lines.
SaveHistory(written) ==
    IF history = <<>> THEN written /\ UNCHANGED file
    ELSE IF written THEN file' = history
    ELSE \/ UNCHANGED file
         \/ \E n \in 0..Len(history) - 1 : file' = SubSeq(history, 1, n)

\* `q`, and the next start.
Quit ==
    /\ Running /\ focus = "main" /\ session.fired > 0
    /\ \E written \in BOOLEAN :
        /\ SaveHistory(written)
        /\ IF written THEN UNCHANGED <<saved, fired>> ELSE saved' = file' /\ fired' = <<>>
    /\ Restart

\* A start after a panic, which saves nothing.
Recover ==
    /\ ~Running /\ session.fired > 0
    /\ saved' = file /\ fired' = <<>>
    /\ UNCHANGED file
    /\ Restart

\* The router lists its presets without repeating one.
Lists == UNION {Injection(1..n, Models) : n \in 0..Min({session.listed, Cardinality(Models)})}

Next ==
    \/ OnMain \/ Leave \/ Scroll \/ Search
    \/ TunerTab \/ PickDraft \/ TunerEnter
    \/ SwapMove \/ SwapEnter
    \/ CursorMove \/ HistoryUp \/ HistoryDown \/ Backspace \/ Delete \/ Enter
    \/ \E c \in Chars : Char(c)
    \/ \E l \in Lists : ModelsFetched(l)
    \/ ActiveModelSet \/ Logged
    \/ Quit \/ Recover

Spec == Init /\ [][Next]_vars

------------------------------------------------------------------------------
(* Properties.                                                             *)

\* Indices stay where they can be used: the history's, the hot-swap cursor's and the
\* log's within what they index.
TypeOK ==
    /\ focus \in {"main", "tuner", "console", "help", "search"}
    /\ tab \in {"interrogator", "hot-swap"}
    /\ page \in 0..2
    /\ cursor \in Nat /\ draft \in 0..Cardinality(Models)
    /\ history_index \in 0..Len(history)
    /\ selected = Nothing \/ selected \in 0..Len(models) - 1
    /\ active \in Models \cup {"None"}
    /\ crashed \in BOOLEAN
    /\ LogTypeOK

\* No key, no history line and no model list puts the cursor past the text once it
\* is within it, so that no later key can panic.
CursorStays ==
    [][cursor <= Len(input) => \/ Quit \/ Recover
                               \/ cursor' <= Len(input') /\ ~crashed']_vars

\* What is remembered with one more line fired: blank lines and repetitions of the
\* line before are not, ...
Kept(lines, line) ==
    IF Blank(line) \/ (lines # <<>> /\ Last(lines) = line) THEN lines ELSE Append(lines, line)

\* ... with those fired one after the other onto those loaded, ...
AllLines(old, new) ==
    LET upTo[n \in 0..Len(new)] == IF n = 0 THEN old ELSE Kept(upTo[n - 1], new[n])
    IN  upTo[Len(new)]

Newest(lines) ==
    IF Len(lines) <= HistoryCap THEN lines
    ELSE SubSeq(lines, Len(lines) - HistoryCap + 1, Len(lines))

\* ... the history is the last HistoryCap of the lines fired that are not blank ("The
\* last 10 commands are saved on exit", README.md).
HistoryIsTheLastLines == history = Newest(AllLines(saved, fired))

------------------------------------------------------------------------------
(* What the code's words claim and the code does not do.                   *)

\* "Ready. Press 'i' to focus console, Enter to fire.": the console takes every
\* key.
ConsoleTakesKeys == ~crashed

\* A shrinking model list moves no index out of bounds, the draft model's included
\* ("Prevent out-of-bounds", ModelsFetched).
ListShrinksSafely == ~DrawPanics
==============================================================================
