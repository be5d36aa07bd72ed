----------------------------- MODULE TunerApply -----------------------------
(***************************************************************************)
(* Enter in the tuner (main.rs): a task reads router.ini, edits the active *)
(* model's section, writes the file in place and restarts the router.  The *)
(* reads, the writes and the restart are awaits: other tasks, the keys and *)
(* the router come between any two.                                        *)
(*                                                                         *)
(* Of the tuner's settings two are told apart: `ctx`, always written, and  *)
(* `mlock`, written while it is on.  Where two writes overlap, their bytes *)
(* are modelled as whole lines.  router_ini is configured.                 *)
(***************************************************************************)
EXTENDS IniFile, FiniteSets

CONSTANTS
    Sections,    \* the models, each with its section
    Sizes,       \* values of ctx-size in the tuner
    Enters,      \* bound: how often Enter is pressed
    Original,    \* router.ini at the start
    Files,       \* what else may be in a router.ini that is edited, ...
    Settings     \* ... and what else may be written to it

ASSUME EntersAssumption == Enters \in Nat

\* A file is a sequence of lines, and settings are entries of different keys.
ASSUME FilesAssumption ==
    /\ \A file \in Files \cup {Original} : file \in Seq(Range(file))
    /\ \A kv \in Settings : kv \in Seq(Range(kv)) /\ Writable(kv)

Tasks == 1..Enters

VARIABLES
    show_tuner, ctx, mlock,    \* App's tuner
    active_model,
    quit,
    ini,                       \* router.ini, as it is on disk
    running,                   \* as the router has last read it
    task,                      \* the spawned tasks
    overlapped                 \* history: two of them were under way at once

appVars == <<show_tuner, ctx, mlock, active_model, quit>>
vars == <<appVars, ini, running, task, overlapped>>

Tuned == {"ctx", "mlock"}

\* The settings that go to the file: a flag that is off is not among them.
Kv == <<Entry("ctx", ctx)>> \o (IF mlock THEN <<Entry("mlock", "true")>> ELSE <<>>)

Idle == [at |-> "none", section |-> "None", kv |-> <<>>, updated |-> <<>>]
UnderWay == {"read", "write", "writing", "restart"}
Updated == {"restart", "restarted", "not restarted"}
Active(t) == task[t].at \in UnderWay

Move(t, at) == task' = [task EXCEPT ![t].at = at]

------------------------------------------------------------------------------
(* The operator and other events.                                          *)

Toggle == /\ ~quit
          /\ show_tuner' = ~show_tuner
          /\ UNCHANGED <<ctx, mlock, active_model, quit, ini, running, task, overlapped>>

Tune ==
    /\ ~quit /\ show_tuner
    /\ \/ ctx' \in Sizes /\ UNCHANGED mlock
       \/ mlock' = ~mlock /\ UNCHANGED ctx
    /\ UNCHANGED <<show_tuner, active_model, quit, ini, running, task, overlapped>>

\* ActiveModelSet, or Enter in the hot-swap list.
SetActive ==
    /\ ~quit
    /\ active_model' \in Sections
    /\ UNCHANGED <<show_tuner, ctx, mlock, quit, ini, running, task, overlapped>>

\* Mutant: no model need be active.
EnterWithoutModel(t) ==
    /\ ~quit /\ show_tuner
    /\ task[t].at = "none" /\ \A u \in Tasks : u < t => task[u].at # "none"
    /\ task' = [task EXCEPT ![t] =
                    [at |-> "read", section |-> active_model, kv |-> Kv, updated |-> <<>>]]
    /\ show_tuner' = FALSE
    /\ overlapped' = (overlapped \/ \E u \in Tasks : Active(u))
    /\ UNCHANGED <<ctx, mlock, active_model, quit, ini, running>>

Enter(t) ==
    /\ ~quit /\ show_tuner /\ active_model # "None"
    /\ task[t].at = "none" /\ \A u \in Tasks : u < t => task[u].at # "none"
    /\ task' = [task EXCEPT ![t] =
                    [at |-> "read", section |-> active_model, kv |-> Kv, updated |-> <<>>]]
    /\ show_tuner' = FALSE
    /\ overlapped' = (overlapped \/ \E u \in Tasks : Active(u))
    /\ UNCHANGED <<ctx, mlock, active_model, quit, ini, running>>

\* `q`: the runtime is dropped and no task goes on, but for a write on its way.
Quit ==
    /\ ~quit
    /\ quit' = TRUE
    /\ UNCHANGED <<show_tuner, ctx, mlock, active_model, ini, running, task, overlapped>>

\* The router restarts on its own, or with Shift+R.
RouterRestart ==
    /\ running' = ini
    /\ UNCHANGED <<appVars, ini, task, overlapped>>

------------------------------------------------------------------------------
(* The task.                                                               *)

Read(t) ==
    /\ ~quit /\ task[t].at = "read"
    /\ IF StartOf(ini, task[t].section) = 0
       THEN Move(t, "no section")
       ELSE task' = [task EXCEPT ![t].at = "write",
                        ![t].updated = Upsert(ini, task[t].section, task[t].kv)]
    /\ UNCHANGED <<appVars, ini, running, overlapped>>

ReadFails(t) ==
    /\ ~quit /\ task[t].at = "read"
    /\ Move(t, "no file")
    /\ UNCHANGED <<appVars, ini, running, overlapped>>

\* tokio::fs::write opens the file, which empties it, ...
Truncate(t) ==
    /\ ~quit /\ task[t].at = "write"
    /\ ini' = <<>>
    /\ Move(t, "writing")
    /\ UNCHANGED <<appVars, running, overlapped>>

\* ... and writes from its start: over what another task wrote meanwhile.
Write(t) ==
    LET new == task[t].updated
    IN  /\ task[t].at = "writing"
        /\ ini' = new \o SubSeq(ini, Len(new) + 1, Len(ini))
        /\ Move(t, "restart")
        /\ UNCHANGED <<appVars, running, overlapped>>

\* The file cannot be opened, or the disk is full once it is empty.
WriteFails(t) ==
    /\ \/ ~quit /\ task[t].at = "write"
       \/ task[t].at = "writing"
    /\ Move(t, IF task[t].at = "write" THEN "not opened" ELSE "not written")
    /\ UNCHANGED <<appVars, ini, running, overlapped>>

\* Mutant: the router is asked to restart while the file is written.
RestartEarly(t) ==
    /\ ~quit /\ task[t].at \in {"writing", "restart"}
    /\ running' = ini
    /\ Move(t, "restarted")
    /\ UNCHANGED <<appVars, ini, overlapped>>

\* run_and_report("restart"): the router reads the file anew.
Restart(t) ==
    /\ ~quit /\ task[t].at = "restart"
    /\ running' = ini
    /\ Move(t, "restarted")
    /\ UNCHANGED <<appVars, ini, overlapped>>

RestartFails(t) ==
    /\ ~quit /\ task[t].at = "restart"
    /\ Move(t, "not restarted")
    /\ UNCHANGED <<appVars, ini, running, overlapped>>

------------------------------------------------------------------------------
Init ==
    /\ show_tuner = FALSE /\ ctx \in Sizes /\ mlock = FALSE
    /\ active_model = "None" /\ quit = FALSE
    /\ ini = Original /\ running = Original
    /\ task = [t \in Tasks |-> Idle]
    /\ overlapped = FALSE

Step(t) == \/ Read(t) \/ ReadFails(t) \/ Truncate(t) \/ Write(t) \/ WriteFails(t)
           \/ Restart(t) \/ RestartFails(t)

Next == \/ Toggle \/ Tune \/ SetActive \/ Quit \/ RouterRestart
        \/ \E t \in Tasks : Enter(t) \/ Step(t)

Spec == Init /\ [][Next]_vars

------------------------------------------------------------------------------
(* Properties.                                                             *)

\* The lines router.ini may have.
FileLines == Range(Original) \cup {Entry("ctx", size) : size \in Sizes}
                \cup {Entry("mlock", "true")}

\* Files stay sequences of such lines, and a task keeps the section and the settings it
\* was given.
TypeOK ==
    /\ show_tuner \in BOOLEAN /\ mlock \in BOOLEAN /\ quit \in BOOLEAN
    /\ overlapped \in BOOLEAN
    /\ ctx \in Sizes
    /\ active_model \in Sections \cup {"None"}
    /\ ini \in Seq(FileLines) /\ running \in Seq(FileLines)
    /\ task \in [Tasks -> [at : UnderWay \cup Updated \cup
                                {"none", "no section", "no file", "not opened", "not written"},
                           section : Sections \cup {"None"},
                           kv : Seq(FileLines), updated : Seq(FileLines)]]
    /\ \A t \in Tasks : task[t].at # "none" => task[t].section \in Sections /\ task[t].kv # <<>>

InPlace == \A t \in Tasks : task[t].at \notin {"writing", "not written"}

\* Between writes, the file's other lines (model paths, comments, headers) are the
\* ones it had, if no write failed and no two tasks overlapped: "preserving its
\* model path and the other sections" (main.rs).
OthersPreserved ==
    InPlace /\ ~overlapped => Without(ini, Tuned) = Without(Original, Tuned)

\* A task that was never alone with another reports "router restarted" only when
\* the router has read the file with its settings, whoever else restarts it.
RestartApplies ==
    [][\A t \in Tasks :
        task'[t].at = "restarted" /\ task[t].at # "restarted" /\ ~overlapped =>
            \A i \in DOMAIN task[t].kv : Holds(running', task[t].section, task[t].kv[i])]_vars

\* An edit of router.ini, as it stands at any time, by the settings that stand in the
\* tuner, and of any other file by any settings, is exact: comments and other sections
\* stay in their places ("preserving every other line ... and all other sections
\* untouched", main.rs).
FilesEditExactly ==
    \A file \in Files, s \in Sections, kv \in Settings :
        StartOf(file, s) # 0 => Exact(file, s, kv)
EditIsExact ==
    /\ FilesEditExactly
    /\ \A s \in Sections : StartOf(ini, s) # 0 => Exact(ini, s, Kv)

------------------------------------------------------------------------------
(* What the code's words claim and the code does not do.                   *)

\* "A paginated editor that writes the tuned flags into the active model's
\* [section]": after an apply that nothing disturbed, mlock is in the section just
\* if it was on.
FlagsAreWritten ==
    \A t \in Tasks :
        task[t].at = "restarted" /\ ~overlapped /\ InPlace
        /\ (\A u \in Tasks : u > t => task[u].at = "none") =>
            (Values(ini, task[t].section, "mlock") = <<>>) = (Len(task[t].kv) = 1)

\* ">>> TUNER: [..] updated.": when no task is under way, the section of an apply
\* that was reported so, and not overtaken by a later one, has its settings.
UpdatesSurvive ==
    (\A t \in Tasks : ~Active(t)) /\ (\A t \in Tasks : task[t].at # "not written") =>
        \A t \in Tasks :
            task[t].at \in Updated
            /\ (\A u \in Tasks : u > t => task[u].section # task[t].section) =>
                \A i \in DOMAIN task[t].kv : Holds(ini, task[t].section, task[t].kv[i])

\* So an update that was reported is lost only to one that overlaps it, or to a write
\* that fails.
LoneUpdatesSurvive == ~overlapped => UpdatesSurvive

\* "preserving its model path and the other sections": so too by an apply that
\* fails.
FileSurvivesFailure ==
    (\A t \in Tasks : ~Active(t)) /\ ~overlapped =>
        Without(ini, Tuned) = Without(Original, Tuned)

------------------------------------------------------------------------------
(* Why the properties hold.                                                *)

\* What a task without another does is what it read, edited: until it is written the
\* others' lines are in what it holds or in the file, and then the file is what it holds.
Alone ==
    /\ \A t, u \in Tasks : Active(t) /\ Active(u) => t = u
    /\ \A t \in Tasks :
        /\ task[t].at = "writing" => ini = <<>>
        /\ task[t].at = "restart" => ini = task[t].updated
    /\ InPlace => Without(ini, Tuned) = Without(Original, Tuned)
    /\ (\A u \in Tasks : task[u].at # "not written") =>
        \A t \in Tasks : task[t].at \in {"write", "writing"} =>
            Without(task[t].updated, Tuned) = Without(Original, Tuned)

\* Whatever the others do, a task has settings of the tuner, and what it edited has them.
Edits ==
    \A t \in Tasks :
        /\ Writable(task[t].kv)
        /\ \A i \in DOMAIN task[t].kv : task[t].kv[i].name \in Tuned
        /\ task[t].at \in {"write", "writing", "restart"} =>
            \A i \in DOMAIN task[t].kv : Holds(task[t].updated, task[t].section, task[t].kv[i])

IndInv == TypeOK /\ Edits /\ (~overlapped => Alone)

\* Tasks come one after the other: without overlap, none before the one before is over.
InOrder ==
    /\ \A t \in Tasks : IF task[t].at = "none" THEN task[t] = Idle ELSE task[t].section # "None"
    /\ \A t, u \in Tasks : u < t /\ task[t].at # "none" =>
          task[u].at # "none" /\ (Active(u) => overlapped)

Holding(lines, t) ==
    \A i \in DOMAIN task[t].kv : Holds(lines, task[t].section, task[t].kv[i])
NotOvertaken(t) == \A u \in Tasks : u > t => task[u].section # task[t].section

\* What was written last into a section is there until a write fails, and in what another
\* task has made of the file.
Survives ==
    ~overlapped /\ (\A t \in Tasks : task[t].at # "not written") =>
        \A t \in Tasks : task[t].at \in Updated /\ NotOvertaken(t) =>
            /\ InPlace => Holding(ini, t)
            /\ \A u \in Tasks :
                  task[u].at \in {"write", "writing"} => Holding(task[u].updated, t)

KeptInv == IndInv /\ InOrder /\ Survives
==============================================================================
