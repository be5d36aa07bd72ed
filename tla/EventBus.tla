------------------------------ MODULE EventBus ------------------------------
(***************************************************************************)
(* The TUI's event loop and the tasks that feed it through one bounded     *)
(* channel (main.rs): the keyboard, the hardware poller with its edge of   *)
(* GPU failures, the journal, the models and the port auditor, and a       *)
(* systemctl command for each of Shift+S, Shift+X, Shift+R and Ctrl+K.     *)
(*                                                                         *)
(* A step is what a task does between two awaits.  Keys are those of the   *)
(* main dashboard; "other" stands for every key that neither quits nor     *)
(* runs systemctl.  tokio's runtime, systemd and the terminal are          *)
(* external.  The machine has an NVIDIA GPU.                               *)
(***************************************************************************)
EXTENDS Naturals, Sequences

CONSTANTS
    Scripts,     \* bound: the sequences of keys an operator may press
    Feeds,       \* of "journal", "models" and "port"
    Capacity     \* of the event channel

ASSUME BusAssumption ==
    /\ Scripts \subseteq Seq({"S", "X", "R", "K", "q", "other"})
    /\ Feeds \subseteq {"journal", "models", "port"}
    /\ Capacity \in Nat \ {0}

VARIABLES
    typed,         \* the keys of this operator
    pressed,       \* how many of them have been pressed
    keyTask,       \* where the keyboard task is, and how many keys it has read
    poller,        \* where the hardware poller is, and what its last poll found
    gpu_failing,   \* the poller's memory of the last poll
    feed,          \* where each other feeder is
    cmd,           \* the systemctl command of each key
    unit,          \* the service's unit
    chan,          \* the event channel
    main,          \* main(): "loop", "teardown" (the receiver is gone), "exited"
    gpu_measured,  \* App: the GPU's numbers are measurements
    told,          \* history: the GPU failure the operator was last told, or "none"
    errors,        \* history: other sources of errors shown
    handled,       \* history: keys handled
    overlapped     \* history: a command was started while another was under way

taskVars == <<keyTask, poller, gpu_failing, feed>>
appVars == <<gpu_measured, told, errors, handled>>
keyVars == <<typed, pressed>>
vars == <<keyVars, taskVars, cmd, unit, chan, main, appVars, overlapped>>

Presses == UNION {DOMAIN s : s \in Scripts}

KeyEvent(i) == [kind |-> "key", key |-> i]
HardwareUpdate(sample) == [kind |-> "update", sample |-> sample]
Tick == [kind |-> "tick"]
Restored == [kind |-> "restored"]
FromFeed == [kind |-> "feed"]
Report(i, outcome) == [kind |-> "report", key |-> i, outcome |-> outcome]
ErrorEvent(source, why) == [kind |-> "error", source |-> source, why |-> why]

\* Mutant: an unbounded channel.
SendUnbounded(e) ==
    /\ main = "loop"
    /\ chan' = Append(chan, e)

\* tx.send(e).await: waits for room.
Send(e) ==
    /\ main = "loop"
    /\ Len(chan) < Capacity
    /\ chan' = Append(chan, e)

------------------------------------------------------------------------------
(* The operator, and the keyboard task: it polls the terminal without ever   *)
(* giving way to the runtime, and awaits only to send a key.                 *)

Press ==
    /\ main # "exited" /\ pressed < Len(typed)
    /\ pressed' = pressed + 1
    /\ UNCHANGED <<typed, taskVars, cmd, unit, chan, main, appVars, overlapped>>

\* Mutant: Event::Key is sent only if there is room at once.
KeyReadDrops ==
    /\ keyTask.at = "poll" /\ keyTask.read < pressed
    /\ keyTask' = [at |-> IF Len(chan) < Capacity THEN "send" ELSE "poll",
                   read |-> keyTask.read + 1]
    /\ UNCHANGED <<keyVars, poller, gpu_failing, feed, cmd, unit, chan, main, appVars, overlapped>>

KeyRead ==
    /\ keyTask.at = "poll" /\ keyTask.read < pressed
    /\ keyTask' = [at |-> "send", read |-> keyTask.read + 1]
    /\ UNCHANGED <<keyVars, poller, gpu_failing, feed, cmd, unit, chan, main, appVars, overlapped>>

KeySend ==
    /\ keyTask.at = "send"
    /\ Send(KeyEvent(keyTask.read))
    /\ keyTask' = [keyTask EXCEPT !.at = "poll"]
    /\ UNCHANGED <<keyVars, poller, gpu_failing, feed, cmd, unit, main, appVars, overlapped>>

\* The receiver is gone: the task ends.
KeyBreak ==
    /\ keyTask.at = "send" /\ main # "loop"
    /\ keyTask' = [keyTask EXCEPT !.at = "ended"]
    /\ UNCHANGED <<keyVars, poller, gpu_failing, feed, cmd, unit, chan, main, appVars, overlapped>>

\* The terminal cannot be read.
KeyFails ==
    /\ keyTask.at = "poll"
    /\ keyTask' = [keyTask EXCEPT !.at = "error"]
    /\ UNCHANGED <<keyVars, poller, gpu_failing, feed, cmd, unit, chan, main, appVars, overlapped>>

KeyTell ==
    /\ keyTask.at = "error"
    /\ Send(ErrorEvent("keys", "terminal"))
    /\ keyTask' = [keyTask EXCEPT !.at = "ended"]
    /\ UNCHANGED <<keyVars, poller, gpu_failing, feed, cmd, unit, main, appVars, overlapped>>

------------------------------------------------------------------------------
(* The hardware poller.  A poll asks nvidia-smi twice: for the sample, and   *)
(* for the processes; the first that fails is the problem.                   *)

Asleep == [at |-> "sleep", sample |-> FALSE, problem |-> "none"]
Dropped == [Asleep EXCEPT !.at = "gone"]

Edge(problem) == (problem # "none") # gpu_failing

Poll ==
    /\ main = "loop" /\ poller.at = "sleep"
    /\ \E sample, apps \in BOOLEAN :
        LET problem == IF ~sample THEN "sample" ELSE IF ~apps THEN "apps" ELSE "none"
        IN  poller' = [at |-> IF Edge(problem) THEN "edge" ELSE "update",
                       sample |-> sample, problem |-> problem]
    /\ UNCHANGED <<keyVars, keyTask, gpu_failing, feed, cmd, unit, chan, main, appVars, overlapped>>

\* Only the transition is reported.
PollEdge ==
    /\ poller.at = "edge"
    /\ Send(IF poller.problem = "none" THEN Restored ELSE ErrorEvent("gpu", poller.problem))
    /\ gpu_failing' = (poller.problem # "none")
    /\ poller' = [poller EXCEPT !.at = "update"]
    /\ UNCHANGED <<keyVars, keyTask, feed, cmd, unit, main, appVars, overlapped>>

\* Mutant: the numbers go before the news.
PollUpdateFirst ==
    /\ poller.at \in {"edge", "update"}
    /\ Send(HardwareUpdate(poller.sample))
    /\ poller' = [poller EXCEPT !.at = IF @ = "edge" THEN "edge" ELSE "tick"]
    /\ UNCHANGED <<keyVars, keyTask, gpu_failing, feed, cmd, unit, main, appVars, overlapped>>

PollUpdate ==
    /\ poller.at = "update"
    /\ Send(HardwareUpdate(poller.sample))
    /\ poller' = [poller EXCEPT !.at = "tick"]
    /\ UNCHANGED <<keyVars, keyTask, gpu_failing, feed, cmd, unit, main, appVars, overlapped>>

PollTick ==
    /\ poller.at = "tick"
    /\ Send(Tick)
    /\ poller' = [poller EXCEPT !.at = "sleep"]
    /\ UNCHANGED <<keyVars, keyTask, gpu_failing, feed, cmd, unit, main, appVars, overlapped>>

------------------------------------------------------------------------------
(* The journal's lines, the list of models and the state of the port.        *)

Feeding(f, from, to) ==
    /\ main = "loop" /\ feed[f] = from
    /\ feed' = [feed EXCEPT ![f] = to]
    /\ UNCHANGED <<keyVars, keyTask, poller, gpu_failing, cmd, unit, main, appVars, overlapped>>

SpawnJournal ==
    /\ Feeding("journal", "start", "work") \/ Feeding("journal", "start", "error")
    /\ UNCHANGED chan

FeedFails(f) == Feeding(f, "error", "ended") /\ Send(ErrorEvent(f, "spawn"))

\* A line, a list or an audit has come.
FeedGets(f) == Feeding(f, "work", "send") /\ UNCHANGED chan

FeedSends(f) == Feeding(f, "send", "work") /\ Send(FromFeed)

\* journalctl has ended, or a line of it is no text: the task ends without a word.
JournalEnds == Feeding("journal", "work", "over") /\ UNCHANGED chan

------------------------------------------------------------------------------
(* A spawned systemctl task.  The command is a process of its own, which     *)
(* goes on when saltnitor is gone.                                           *)

Commands == {"S", "X", "R", "K"}
Active == {"spawned", "running"}
Succeeded == {"ok", "sent ok", "told ok"}

Working(i, from, to) ==
    /\ cmd[i] = from
    /\ cmd' = [cmd EXCEPT ![i] = to]
    /\ UNCHANGED <<keyVars, taskVars, main, appVars, overlapped>>

Launch(i) ==
    /\ main # "exited"
    /\ Working(i, "spawned", "running") \/ Working(i, "spawned", "failed")
    /\ UNCHANGED <<unit, chan>>

\* What a command makes of the unit.  Ctrl+K stops it: a killed one would be started
\* again (Restart=always).
\* Mutant: it kills it.
EffectKills(k) == IF k = "X" THEN "down" ELSE "up"

Effect(k) == IF k \in {"X", "K"} THEN "down" ELSE "up"

Finish(i) ==
    /\ \/ Working(i, "running", "ok") /\ unit' = Effect(typed[i])
       \/ Working(i, "running", "failed") /\ UNCHANGED unit
    /\ UNCHANGED chan

\* run_and_report's send.
SendReport(i) ==
    /\ \/ Working(i, "ok", "sent ok") /\ Send(Report(i, "told ok"))
       \/ Working(i, "failed", "sent failed") /\ Send(Report(i, "told failed"))
    /\ UNCHANGED unit

------------------------------------------------------------------------------
(* main(): one event, to its end.                                            *)

Receive ==
    /\ main = "loop" /\ chan # <<>>
    /\ chan' = Tail(chan)
    /\ UNCHANGED <<keyVars, taskVars, unit>>

TuiKey ==
    LET e == Head(chan)
        k == typed[e.key]
    IN  /\ Receive /\ e.kind = "key" /\ k # "q"
        /\ cmd' = IF k \in Commands THEN [cmd EXCEPT ![e.key] = "spawned"] ELSE cmd
        /\ overlapped' = (overlapped \/ (k \in Commands /\ \E i \in Presses : cmd[i] \in Active))
        /\ handled' = e.key
        /\ UNCHANGED <<main, gpu_measured, told, errors>>

\* `q` ends the loop: the receiver is dropped with what is in the channel, and the
\* tasks that await it with the runtime.
TuiQuit ==
    LET e == Head(chan)
    IN  /\ main = "loop" /\ chan # <<>>
        /\ e.kind = "key" /\ typed[e.key] = "q"
        /\ main' = "teardown" /\ chan' = <<>>
        /\ handled' = e.key
        /\ poller' = Dropped
        /\ feed' = [f \in Feeds |-> "over"]
        /\ UNCHANGED <<keyVars, keyTask, gpu_failing, unit, cmd, overlapped, gpu_measured, told, errors>>

TuiUpdate ==
    LET e == Head(chan)
    IN  /\ Receive /\ e.kind = "update"
        /\ gpu_measured' = e.sample
        /\ UNCHANGED <<main, cmd, overlapped, told, errors, handled>>

TuiError ==
    LET e == Head(chan)
    IN  /\ Receive /\ e.kind = "error"
        /\ IF e.source = "gpu"
           THEN told' = e.why /\ UNCHANGED errors
           ELSE errors' = errors \cup {e.source} /\ UNCHANGED told
        /\ UNCHANGED <<main, cmd, overlapped, gpu_measured, handled>>

\* What becomes a line of the log, or is no more than a redraw.
TuiOther ==
    LET e == Head(chan)
    IN  /\ Receive /\ e.kind \in {"restored", "report", "feed", "tick"}
        /\ told' = IF e.kind = "restored" THEN "none" ELSE told
        /\ cmd' = IF e.kind = "report" THEN [cmd EXCEPT ![e.key] = e.outcome] ELSE cmd
        /\ UNCHANGED <<main, overlapped, gpu_measured, errors, handled>>

TuiRecv == TuiKey \/ TuiQuit \/ TuiUpdate \/ TuiError \/ TuiOther

\* The runtime drops every task at its next await, and waits for that.
Exit ==
    /\ main = "teardown" /\ keyTask.at # "poll"
    /\ main' = "exited"
    /\ UNCHANGED <<keyVars, taskVars, cmd, unit, chan, appVars, overlapped>>

------------------------------------------------------------------------------
Init ==
    /\ typed \in Scripts /\ pressed = 0
    /\ keyTask = [at |-> "poll", read |-> 0]
    /\ poller = Asleep
    /\ gpu_failing = FALSE
    /\ feed = [f \in Feeds |-> IF f = "journal" THEN "start" ELSE "work"]
    /\ cmd = [i \in Presses |-> "none"]
    /\ unit = "up"
    /\ chan = <<>> /\ main = "loop"
    /\ gpu_measured = FALSE /\ told = "none" /\ errors = {}
    /\ handled = 0 /\ overlapped = FALSE

KeyTask == KeyRead \/ KeySend \/ KeyBreak \/ KeyTell
HardwarePoller == Poll \/ PollEdge \/ PollUpdate \/ PollTick
Journal == "journal" \in Feeds /\ (SpawnJournal \/ JournalEnds)
Feeder == Journal \/ \E f \in Feeds : FeedFails(f) \/ FeedGets(f) \/ FeedSends(f)
Command(i) == Launch(i) \/ Finish(i) \/ SendReport(i)

Next == \/ Press
        \/ KeyTask \/ KeyFails \/ HardwarePoller \/ Feeder
        \/ \E i \in Presses : Command(i)
        \/ TuiRecv \/ Exit

Spec == Init /\ [][Next]_vars

\* The runtime runs what is ready, and a systemctl ends.  Room in the channel is given
\* in the order of asking, so whoever can send again and again does (SF); the TUI
\* waits for nothing but the channel.
FairSpec ==
    /\ Spec
    /\ SF_vars(KeyTask)
    /\ \A i \in Presses : SF_vars(Command(i))
    /\ WF_vars(TuiRecv \/ Exit)

------------------------------------------------------------------------------
(* Properties.                                                             *)

\* Every task is at a place of its own, and the keys handled are among those read.
TypeOK ==
    /\ keyTask.at \in {"poll", "send", "error", "ended"}
    /\ handled <= keyTask.read /\ keyTask.read <= pressed /\ pressed <= Len(typed)
    /\ poller.at \in {"sleep", "edge", "update", "tick", "gone"}
    /\ poller.problem \in {"none", "sample", "apps"}
    /\ feed \in [Feeds -> {"start", "work", "send", "error", "ended", "over"}]
    /\ \A i \in Presses : cmd[i] # "none" => typed[i] \in Commands
    /\ Len(chan) <= Capacity
    /\ main \in {"loop", "teardown", "exited"}

\* The poller with its memory of the last poll, the channel and the TUI keep the promise
\* of Telemetry: each change between working and failing is told once, before the
\* numbers come or go with it, and no poll is lost or overtaken.
Says(why) == <<[says |-> TRUE, why |-> why, sample |-> FALSE]>>
Shows(sample) == <<[says |-> FALSE, why |-> "none", sample |-> sample]>>

Carried(e) ==
    CASE e.kind = "restored" -> Says("none")
      [] e.kind = "error" /\ e.source = "gpu" -> Says(e.why)
      [] e.kind = "update" -> Shows(e.sample)
      [] OTHER -> <<>>

Unsent ==
    (IF poller.at = "edge" THEN Says(poller.problem) ELSE <<>>)
        \o (IF poller.at \in {"edge", "update"} THEN Shows(poller.sample) ELSE <<>>)

News(c) ==
    LET upTo[n \in 0..Len(c)] == IF n = 0 THEN <<>> ELSE upTo[n - 1] \o Carried(c[n])
    IN  upTo[Len(c)]

Operator == INSTANCE Telemetry WITH
    news <- News(chan) \o Unsent,
    measured <- gpu_measured

ImplementsTelemetry == Operator!Spec

\* When no command is under way and none was started while another was, the unit is
\* as the last one that succeeded left it: after Ctrl+K it is down and stays so.
LastCommandWins ==
    \A i \in Presses :
        /\ cmd[i] = "told ok" /\ ~overlapped
        /\ \A j \in Presses : cmd[j] \notin Active /\ (j > i => cmd[j] \notin Succeeded)
        => unit = IF typed[i] \in {"X", "K"} THEN "down" ELSE "up"

\* A key that is pressed is handled, and the outcome of the systemctl command it starts
\* is shown ("Every outcome is reported", systemctl.rs), unless the operator quits or
\* was told that the terminal cannot be read.
KeysTakeEffect ==
    \A i \in Presses :
        /\ pressed >= i ~> handled >= i \/ main # "loop" \/ "keys" \in errors
        /\ cmd[i] = "spawned" ~> cmd[i] \in {"told ok", "told failed"} \/ main # "loop"

------------------------------------------------------------------------------
(* The safety half of KeysTakeEffect.                                        *)

\* Keys are handled one by one in the order they were pressed, whatever else is in the
\* channel and however long they wait for room in it: none is lost, none comes twice.
KeysInTurn == [][handled' \in {handled, handled + 1}]_vars

\* While the loop runs, a key that was read and not handled, the news of a terminal that
\* cannot be read, and the report of a command that was sent are in the channel.
NothingLost == main = "loop" =>
    /\ \A i \in handled + 1..keyTask.read :
          \/ keyTask.at = "send" /\ i = keyTask.read
          \/ \E a \in DOMAIN chan : chan[a] = KeyEvent(i)
    /\ keyTask.at = "ended" =>
          \/ "keys" \in errors
          \/ \E a \in DOMAIN chan : chan[a] = ErrorEvent("keys", "terminal")
    /\ \A i \in Presses : cmd[i] \in {"sent ok", "sent failed"} =>
          \E a \in DOMAIN chan : chan[a].kind = "report" /\ chan[a].key = i

\* The loop is never left with something to do and nobody to do it: when the channel is
\* empty, a key that was pressed and not handled can be read or sent at once, or the
\* operator has been told that keys cannot be read; and no command waits for its report
\* to be shown.
NobodyForgotten == main = "loop" /\ chan = <<>> =>
    /\ handled < pressed =>
          \/ keyTask.at \in {"send", "error"}
          \/ keyTask.at = "poll" /\ keyTask.read < pressed
          \/ "keys" \in errors
    /\ \A i \in Presses : cmd[i] \notin {"sent ok", "sent failed"}

------------------------------------------------------------------------------
(* What the code's words claim and the code does not do.                   *)

\* "`q`: Quit Program" (README): the program ends.  The keyboard task never awaits
\* while no key comes, and the runtime waits for it.
QuitEnds == main = "teardown" ~> main = "exited"

\* "a failed query is `None` plus ONE error event on the transition to failing": when
\* the sample is missing, the operator was told why.  A failure of the second query
\* hides a later one of the first.
OutageHasItsReason == [][gpu_measured /\ ~gpu_measured' => told = "sample"]_vars

\* "stopping the unit wins and stays down": also over a restart under way.
StopIsFinal ==
    \A i \in Presses :
        /\ cmd[i] = "told ok" /\ typed[i] = "K"
        /\ \A j \in Presses : j > i => cmd[j] = "none"
        => unit = "down"
==============================================================================
