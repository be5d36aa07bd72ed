--------------------------- MODULE ProcessControl ---------------------------
(***************************************************************************)
(* The process inspectors' `x` (SIGTERM) and `X` (SIGKILL): process.rs,    *)
(* the row and cursor keeping of app.rs and the key handling of main.rs,   *)
(* while the kernel starts and ends processes and reuses their PIDs.       *)
(*                                                                         *)
(* A process is told from every other by the tick it started at: two that  *)
(* have the same PID never start in the same tick.  Each read of /proc, of *)
(* the service manager and each system call is a step of its own, so the   *)
(* machine may change between any two of them; and each may fail, say on a *)
(* full descriptor table.                                                  *)
(***************************************************************************)
EXTENDS Naturals, FiniteSets

CONSTANTS
    Pids,       \* the PIDs in use
    InitPid,    \* PID 1
    SelfPid,    \* saltnitor
    Uids,
    OwnUids,    \* {euid, ruid, SUDO_UID}
    Acts,       \* inspector actions, each used once
    Movers,     \* PIDs whose row may be missing, and that nvidia-smi may report
    Forkers,    \* bound: the PIDs whose process starts others, or threads
    Changers,   \* bound: the PIDs whose process changes its uid
    HasPidfd,   \* the kernel has pidfd_open(2)
    Ticks       \* bound: how many processes start

Fixed == {InitPid, SelfPid}

ASSUME PidsAssumption ==
    /\ Pids \subseteq Nat \ {0} /\ Fixed \subseteq Pids
    /\ {Movers, Forkers, Changers} \subseteq SUBSET Pids
    /\ Uids \subseteq Nat /\ OwnUids \subseteq Uids /\ OwnUids # {}
    /\ HasPidfd \in BOOLEAN
    /\ Ticks \in Nat

VARIABLES
    proc,      \* the kernel's process table
    clock,     \* the last start tick given out
    main_pid,  \* the service manager's: the unit's main process, 0 for none
    listed,    \* the PIDs the running poll got from sysinfo
    polled,    \* the start ticks it has read from their /proc/<pid>/stat
    update,    \* the HardwareUpdate on its way to the TUI: its rows, if there is one
    rows,      \* the inspector's rows
    selected,  \* the PID the cursor is on, 0 for none
    chosen,    \* history: start tick of the row the cursor was moved to
    act,       \* where each action is
    target,    \* its Target
    runtime,   \* its Guard's runtime_pids
    unlisted,  \* those of them whose children runtime_tree() has still to read
    mark,      \* history: the clock when runtime_tree() asked for the main PID
    whole,     \* history: systemctl answered then, and no read failed since
    result,    \* what it reported
    misread,   \* history: actions whose wait ended on a failed read
    hits,      \* history: the signals that reached a process
    setuids    \* history: start ticks of processes that changed their uid

vars == <<proc, clock, main_pid, listed, polled, update, rows, selected, chosen, act, target,
          runtime, unlisted, mark, whole, result, misread, hits, setuids>>

kernelVars == <<proc, clock, main_pid, setuids>>
pollVars   == <<listed, polled, update>>
tuiVars    == <<rows, selected, chosen>>
treeVars   == <<runtime, unlisted, mark, whole>>
actVars    == <<target, treeVars, result, misread>>

------------------------------------------------------------------------------
(* Types.                                                                  *)

Free == [start |-> 0, uid |-> 0, state |-> "free", parent |-> 0, leader |-> 0]
Process == [start : 0..Ticks, uid : Uids, state : {"alive", "zombie"},
            parent : Pids \cup {0}, \* PPid
            leader : Pids]          \* Tgid: a thread has another process's PID
Row == [pid : Pids, start : 0..Ticks, uid : Uids]
Errors == {"none", "changed", "signal"}
Target == [pid : Pids, start : 0..Ticks, uid : Uids, fd : 0..Ticks, pinned : BOOLEAN,
           open_error : Errors, sig : {"TERM", "KILL"}, chosen : 0..Ticks]
NoTarget == [sig |-> "none"]
Places == {"idle", "armed", "tree", "walk", "check", "stat", "status", "send", "wait", "done"}
Results == {"none", "exited", "still_running", "sent", "cancelled", "changed",
            "protected", "signal"}
Hit == [act : Acts, sig : {"TERM", "KILL"}, pid : Pids, start : 0..Ticks,
        leader : Pids, linked : BOOLEAN]

Alive(p) == proc[p].state = "alive"
IsThread(p) == proc[p].leader # p

\* identity(pid) as one read: nothing for a PID that is gone or a zombie, and
\* nothing either when one of its files cannot be read.
Identity(p) == IF Alive(p) THEN {[start |-> proc[p].start, uid |-> proc[p].uid]} ELSE {}
Readings(p) == {Identity(p), {}}

\* The process p descends from the unit's main process.
Descends(p) ==
    /\ main_pid # 0
    /\ \A T \in SUBSET Pids :
          /\ main_pid \in T
          /\ \A q \in Pids : ~IsThread(q) /\ proc[q].parent \in T => q \in T
          => p \in T

Goto(a, l) == act' = [act EXCEPT ![a] = l]
Finish(a, o) == Goto(a, "done") /\ result' = [result EXCEPT ![a] = o]

------------------------------------------------------------------------------
(* The kernel (external).                                                  *)

\* A process starts under a free PID, or a thread of one, with its parent's
\* uid.  A child of PID 1 may be the unit's new main process.
Spawn(p) ==
    /\ proc[p] = Free /\ clock < Ticks
    /\ clock' = clock + 1
    /\ \E q \in Forkers :
          /\ Alive(q) /\ ~IsThread(q)
          /\ \/ /\ proc' = [proc EXCEPT ![p] = [proc[q] EXCEPT !.start = clock + 1]]
                /\ UNCHANGED main_pid
             \/ /\ proc' = [proc EXCEPT ![p] =
                              [proc[q] EXCEPT !.start = clock + 1, !.parent = q, !.leader = p]]
                /\ main_pid' \in IF q = InitPid /\ main_pid = 0 THEN {0, p} ELSE {main_pid}
    /\ UNCHANGED <<setuids, pollVars, tuiVars, act, actVars, hits>>

\* The process table after the group of PID p has ended: threads vanish, the
\* process stays as a zombie until its parent has waited for it, and its
\* children become children of PID 1.
Ended(p) ==
    [q \in Pids |->
        IF proc[q] = Free THEN Free
        ELSE IF proc[q].leader = proc[p].leader
        THEN IF IsThread(q) THEN Free ELSE [proc[q] EXCEPT !.state = "zombie"]
        ELSE IF proc[q].parent = proc[p].leader THEN [proc[q] EXCEPT !.parent = InitPid]
        ELSE proc[q]]

Exit(p) ==
    /\ p \notin Fixed /\ Alive(p)
    /\ proc' = IF IsThread(p) THEN [proc EXCEPT ![p] = Free] ELSE Ended(p)
    /\ UNCHANGED <<clock, main_pid, setuids, pollVars, tuiVars, act, actVars, hits>>

\* The service manager is told of its main process as it waits for it.
Reap(p) ==
    /\ proc[p].state = "zombie"
    /\ proc' = [proc EXCEPT ![p] = Free]
    /\ main_pid' = IF main_pid = p THEN 0 ELSE main_pid
    /\ UNCHANGED <<clock, setuids, pollVars, tuiVars, act, actVars, hits>>

SetUid(p) ==
    /\ p \in Changers \ Fixed /\ Alive(p) /\ ~IsThread(p)
    /\ \E u \in Uids \ {proc[p].uid} :
          proc' = [q \in Pids |-> IF proc[q].leader = p THEN [proc[q] EXCEPT !.uid = u]
                                  ELSE proc[q]]
    /\ setuids' = setuids \cup {proc[q].start : q \in {x \in Pids : proc[x].leader = p}}
    /\ UNCHANGED <<clock, main_pid, pollVars, tuiVars, act, actVars, hits>>

------------------------------------------------------------------------------
(* The poll: sysinfo's list without threads, then each PID's identity,     *)
(* which is two files: the start tick first, the uid after it.             *)

\* What sysinfo lists; a PID may be another's by the time it is looked into.
PollList ==
    /\ listed = {} /\ polled = <<>> /\ update = {}
    /\ listed' = {p \in Pids : proc[p] # Free /\ ~IsThread(p)}
    /\ UNCHANGED <<kernelVars, polled, update, tuiVars, act, actVars, hits>>

\* The PIDs nvidia-smi reports are looked into as well.
PollStat ==
    /\ listed # {}
    /\ polled' = [p \in {q \in listed \cup Movers : Alive(q)} |-> proc[p].start]
    /\ listed' = {}
    /\ UNCHANGED <<kernelVars, update, tuiVars, act, actVars, hits>>

\* Mutant: a PID that is gone when its uid is read still gets a row.
PollStatusOfTheGone ==
    /\ polled # <<>>
    /\ update' = {{[pid |-> p, start |-> polled[p], uid |-> proc[p].uid] : p \in DOMAIN polled}}
    /\ polled' = <<>>
    /\ UNCHANGED <<kernelVars, listed, tuiVars, act, actVars, hits>>

\* snapshot_from_sysinfo, table: the rows, sent as a HardwareUpdate.  A PID
\* gets none when one of its two files cannot be read, and which of the others
\* a pane shows (gpu_rows, ram_rows) is up to their memory.
PollStatus ==
    /\ polled # <<>>
    /\ \E missing \in SUBSET Movers :
          update' = {{[pid |-> p, start |-> polled[p], uid |-> proc[p].uid] :
                        p \in {q \in DOMAIN polled \ missing : proc[q] # Free}}}
    /\ polled' = <<>>
    /\ UNCHANGED <<kernelVars, listed, tuiVars, act, actVars, hits>>

\* App::set_processes, refind: the cursor stays with its PID, and is cleared
\* when no row has it.
Update ==
    /\ update # {}
    /\ rows' = UNION update
    /\ update' = {}
    /\ selected' = IF \E r \in UNION update : r.pid = selected THEN selected ELSE 0
    /\ UNCHANGED <<kernelVars, listed, polled, chosen, act, actVars, hits>>

------------------------------------------------------------------------------
(* The operator's keys.  While a SIGKILL waits for its confirmation every  *)
(* key goes there.                                                         *)

Armed == \E a \in Acts : act[a] = "armed"

\* App::move_proc_cursor: to another row, in whatever order they are shown.
MoveCursor ==
    /\ ~Armed
    /\ IF rows = {}
       THEN selected' = 0 /\ UNCHANGED chosen
       ELSE \E r \in rows : selected' = r.pid /\ chosen' = r.start
    /\ UNCHANGED <<kernelVars, pollVars, rows, act, actVars, hits>>

\* Target::select: the row's identity and a pidfd of whoever has the PID now.
\* Without pidfd support there is none; a thread's PID and a full descriptor
\* table fail with an error that `check` reports.
SelectRow(r, sig) ==
    LET t == [pid |-> r.pid, start |-> r.start, uid |-> r.uid, fd |-> 0, pinned |-> FALSE,
              open_error |-> "none", sig |-> sig, chosen |-> chosen]
    IN  IF ~HasPidfd THEN {t}
        ELSE IF proc[r.pid] = Free THEN {[t EXCEPT !.open_error = "changed"]}
        ELSE {[t EXCEPT !.open_error = "signal"]} \cup
             IF IsThread(r.pid) THEN {}
             ELSE {[t EXCEPT !.fd = proc[r.pid].start, !.pinned = TRUE]}

\* The row the cursor's PID has now (App::selected_proc).
SelectedRows == {r \in rows : r.pid = selected}

\* `x`: start_terminate.  `X`: ask_kill.
Press(a, sig) ==
    /\ ~Armed /\ act[a] = "idle"
    /\ \E r \in SelectedRows : \E t \in SelectRow(r, sig) :
          target' = [target EXCEPT ![a] = t]
    /\ Goto(a, IF sig = "TERM" THEN "tree" ELSE "armed")
    /\ UNCHANGED <<kernelVars, pollVars, tuiVars, treeVars, result, misread, hits>>

\* `y`: confirm_kill.
Confirm(a) ==
    /\ act[a] = "armed"
    /\ Goto(a, "tree")
    /\ UNCHANGED <<kernelVars, pollVars, tuiVars, actVars, hits>>

\* Any other key.
Cancel(a) ==
    /\ act[a] = "armed"
    /\ Finish(a, "cancelled")
    /\ UNCHANGED <<kernelVars, pollVars, tuiVars, target, treeVars, misread, hits>>

------------------------------------------------------------------------------
(* The blocking task of an action.                                         *)

\* Mutant: the unit's main process alone is taken for the runtime.
RuntimeRootAlone(a) ==
    /\ act[a] = "tree"
    /\ runtime' = [runtime EXCEPT ![a] = {main_pid} \ {0}]
    /\ whole' = [whole EXCEPT ![a] = TRUE]
    /\ mark' = [mark EXCEPT ![a] = clock]
    /\ Goto(a, "check")
    /\ UNCHANGED <<kernelVars, pollVars, tuiVars, target, unlisted, result, misread, hits>>

\* runtime_tree, its root: the unit's main PID, or nothing when it has none,
\* systemctl fails or its answer is no PID.
RuntimeRoot(a) ==
    /\ act[a] = "tree"
    /\ LET main == {main_pid} \ {0}
       IN  \E root \in {main, {}} :
              /\ runtime' = [runtime EXCEPT ![a] = root]
              /\ unlisted' = [unlisted EXCEPT ![a] = root]
              /\ whole' = [whole EXCEPT ![a] = (root = main)]
              /\ Goto(a, IF root = {} THEN "check" ELSE "walk")
    /\ mark' = [mark EXCEPT ![a] = clock]
    /\ UNCHANGED <<kernelVars, pollVars, tuiVars, target, result, misread, hits>>

\* runtime_tree, one turn of its loop: the processes whose PPid is `q`, those of
\* them whose status file could be read, or none when /proc itself could not.  The
\* turn is one step: a process keeps its parent until one of the two ends.
RuntimeChildren(a) ==
    /\ act[a] = "walk"
    /\ \E q \in unlisted[a] :
          LET children == {p \in Pids : ~IsThread(p) /\ proc[p].parent = q} \ runtime[a]
          IN  \E read \in SUBSET children :
                 /\ runtime' = [runtime EXCEPT ![a] = @ \cup read]
                 /\ unlisted' = [unlisted EXCEPT ![a] = (@ \ {q}) \cup read]
                 /\ whole' = [whole EXCEPT ![a] = @ /\ read = children]
    /\ Goto(a, IF unlisted'[a] = {} THEN "check" ELSE "walk")
    /\ UNCHANGED <<kernelVars, pollVars, tuiVars, target, mark, result, misread, hits>>

\* process::check up to the identity: the leader's protection (that of the PID
\* itself when its Tgid cannot be read), threads, and the error pidfd_open gave
\* at selection.
Check(a) ==
    /\ act[a] = "check"
    /\ LET t == target[a]
           tgid == IF proc[t.pid] = Free THEN {} ELSE {proc[t.pid].leader}
       IN  \E leader \in tgid \cup {t.pid} :
              IF leader \in Fixed \cup runtime[a] \/ leader # t.pid
              THEN Finish(a, "protected")
              ELSE IF t.open_error # "none" THEN Finish(a, t.open_error)
              ELSE Goto(a, "stat") /\ UNCHANGED result
    /\ UNCHANGED <<kernelVars, pollVars, tuiVars, target, treeVars, misread, hits>>

\* identity(), first file: the state and the start tick.  What cannot be read
\* has changed.
ReadStat(a) ==
    /\ act[a] = "stat"
    /\ \/ /\ Alive(target[a].pid) /\ proc[target[a].pid].start = target[a].start
          /\ Goto(a, "status") /\ UNCHANGED result
       \/ Finish(a, "changed")
    /\ UNCHANGED <<kernelVars, pollVars, tuiVars, target, treeVars, misread, hits>>

\* identity(), second file: the uid; then the ownership check.
ReadStatus(a) ==
    /\ act[a] = "status"
    /\ \/ /\ proc[target[a].pid] # Free /\ proc[target[a].pid].uid = target[a].uid
          /\ IF target[a].uid \in OwnUids THEN Goto(a, "send") /\ UNCHANGED result
             ELSE Finish(a, "protected")
       \/ Finish(a, "changed")
    /\ UNCHANGED <<kernelVars, pollVars, tuiVars, target, treeVars, misread, hits>>

\* The kernel delivers a signal to whoever is process p, and a KILL ends it,
\* unless it is PID 1.
Deliver(a, p) ==
    /\ hits' = hits \cup {[act |-> a, sig |-> target[a].sig, pid |-> p,
                           start |-> proc[p].start, leader |-> proc[p].leader,
                           linked |-> Descends(proc[p].leader)]}
    /\ proc' = IF target[a].sig = "KILL" /\ Alive(p) /\ proc[p].leader # InitPid
               THEN Ended(p) ELSE proc
    /\ IF target[a].sig = "KILL" THEN Finish(a, "sent")
       ELSE Goto(a, "wait") /\ UNCHANGED result

\* Mutant: the pidfd is opened when the signal is sent, not at selection.
SendByPid(a) ==
    /\ act[a] = "send"
    /\ IF proc[target[a].pid] # Free THEN Deliver(a, target[a].pid)
       ELSE Finish(a, "signal") /\ UNCHANGED <<proc, hits>>
    /\ UNCHANGED <<clock, main_pid, setuids, pollVars, tuiVars, target, treeVars, misread>>

\* Mutant: the result of the signal is dropped.
SendUnheeded(a) ==
    /\ act[a] = "send"
    /\ IF proc[target[a].pid] # Free /\ proc[target[a].pid].start = target[a].fd
       THEN Deliver(a, target[a].pid)
       ELSE Goto(a, "wait") /\ UNCHANGED <<proc, hits, result>>
    /\ UNCHANGED <<clock, main_pid, setuids, pollVars, tuiVars, target, treeVars, misread>>

\* process::send: through the pidfd, which names one process for good, or
\* kill(2), which names whoever has the PID.  A process that is gone, or that
\* the kernel protects, makes it fail.
Send(a) ==
    /\ act[a] = "send"
    /\ LET t == target[a]
           there == proc[t.pid] # Free /\ (t.pinned => proc[t.pid].start = t.fd)
       IN  \/ there /\ Deliver(a, t.pid)
           \/ /\ ~there \/ proc[t.pid].uid \notin OwnUids
              /\ Finish(a, "signal")
              /\ UNCHANGED <<proc, hits>>
    /\ UNCHANGED <<clock, main_pid, setuids, pollVars, tuiVars, target, treeVars, misread>>

\* Mutant: a wait that never ends at the deadline.
WaitForever(a) ==
    /\ act[a] = "wait"
    /\ [start |-> target[a].start, uid |-> target[a].uid] \notin Identity(target[a].pid)
    /\ Finish(a, "exited")
    /\ UNCHANGED <<kernelVars, pollVars, tuiVars, target, treeVars, misread, hits>>

\* terminate_guarded's loop: exited as soon as the PID's identity is not the
\* target's, be it another's, gone or not to be read; still running when it is
\* the same and the grace period is over.
Wait(a) ==
    /\ act[a] = "wait"
    /\ \E now \in Readings(target[a].pid) :
          /\ Finish(a, IF [start |-> target[a].start, uid |-> target[a].uid] \in now
                       THEN "still_running" ELSE "exited")
          /\ misread' = IF now = Identity(target[a].pid) THEN misread ELSE misread \cup {a}
    /\ UNCHANGED <<kernelVars, pollVars, tuiVars, target, treeVars, hits>>

------------------------------------------------------------------------------
Init ==
    /\ proc = [p \in Pids |->
                 IF p \in Fixed
                 THEN [start |-> 0, uid |-> CHOOSE u \in OwnUids : TRUE, state |-> "alive",
                       parent |-> IF p = InitPid THEN 0 ELSE InitPid, leader |-> p]
                 ELSE Free]
    /\ clock = 0
    /\ main_pid = 0
    /\ listed = {}
    /\ polled = <<>>
    /\ update = {}
    /\ rows = {}
    /\ selected = 0
    /\ chosen = 0
    /\ act = [a \in Acts |-> "idle"]
    /\ target = [a \in Acts |-> NoTarget]
    /\ runtime = [a \in Acts |-> {}]
    /\ unlisted = [a \in Acts |-> {}]
    /\ mark = [a \in Acts |-> 0]
    /\ whole = [a \in Acts |-> FALSE]
    /\ result = [a \in Acts |-> "none"]
    /\ misread = {}
    /\ hits = {}
    /\ setuids = {}

Kernel == \E p \in Pids : Spawn(p) \/ Exit(p) \/ Reap(p) \/ SetUid(p)
Poll == PollList \/ PollStat \/ PollStatus \/ Update
Key(a) == Press(a, "TERM") \/ Press(a, "KILL") \/ Confirm(a) \/ Cancel(a)
Task(a) == \/ RuntimeRoot(a) \/ RuntimeChildren(a) \/ Check(a)
           \/ ReadStat(a) \/ ReadStatus(a) \/ Send(a) \/ Wait(a)

\* Bound: the rows are followed as long as there is an action left to press.
Followed == \E a \in Acts : act[a] = "idle"

Next == Kernel \/ (Followed /\ (Poll \/ MoveCursor)) \/ \E a \in Acts : Key(a) \/ Task(a)

Spec == Init /\ [][Next]_vars

\* A blocking task runs to its end.  It waits for nobody but systemctl, which is
\* taken to end, and for room in the TUI's channel when it reports.
FairSpec == Spec /\ \A a \in Acts : WF_vars(Task(a))

------------------------------------------------------------------------------
(* Properties.                                                             *)

\* Every variable holds a value of its type.
TypeOK ==
    /\ proc \in [Pids -> Process \cup {Free}]
    /\ clock \in 0..Ticks
    /\ main_pid \in Pids \cup {0}
    /\ listed \in SUBSET Pids
    /\ DOMAIN polled \subseteq Pids
    /\ \A p \in DOMAIN polled : polled[p] \in 0..Ticks
    /\ update \in SUBSET SUBSET Row
    /\ rows \in SUBSET Row
    /\ selected \in Pids \cup {0}
    /\ chosen \in 0..Ticks
    /\ act \in [Acts -> Places]
    /\ target \in [Acts -> Target \cup {NoTarget}]
    /\ runtime \in [Acts -> SUBSET Pids]
    /\ unlisted \in [Acts -> SUBSET Pids]
    /\ mark \in [Acts -> 0..Ticks]
    /\ whole \in [Acts -> BOOLEAN]
    /\ result \in [Acts -> Results]
    /\ misread \in SUBSET Acts
    /\ hits \in SUBSET Hit
    /\ setuids \in SUBSET (0..Ticks)

\* A signal sent through a pidfd reaches the very process whose row the
\* operator acted on, however the PID was reused between poll, key press,
\* check and signal (process.rs: "Every action targets one PID, is
\* identity-checked against the snapshot the operator acted on").
HitsTheRowsProcess ==
    \A h \in hits : target[h.act].pinned =>
        h.pid = target[h.act].pid /\ h.start = target[h.act].start

\* A start tick that was read of PID p: not later than that of the process
\* that has the PID now, or of any to come.
ReadOf(p, tick) == tick <= clock /\ (proc[p] # Free => tick <= proc[p].start)

\* Why that is so: what the poll, the rows and the pidfds say of a PID is never
\* of the future, a pidfd is never older than the row it was opened for, and an
\* identity check that passes pins both to the same process.
Pinning ==
    /\ \A p \in Pids : proc[p].start <= clock
    /\ \A p \in DOMAIN polled : ReadOf(p, polled[p])
    /\ \A R \in update : \A r \in R : ReadOf(r.pid, r.start)
    /\ \A r \in rows : ReadOf(r.pid, r.start)
    /\ \A a \in Acts :
          LET t == target[a]
          IN  /\ act[a] # "idle" => t \in Target
              /\ act[a] # "idle" /\ t.pinned => ReadOf(t.pid, t.fd) /\ t.start <= t.fd
              /\ act[a] \in {"status", "send"} /\ t.pinned => t.fd = t.start
    /\ \A h \in hits : act[h.act] \in {"wait", "done"}

\* What ProcessControlProofs carries from step to step: types, the order of
\* what was read, and the signals already sent.
IndInv == TypeOK /\ Pinning /\ HitsTheRowsProcess

\* No signal reaches PID 1, saltnitor or a thread of either, even when a selected PID
\* comes back as such a thread; ...
SparesInitAndSelf == HasPidfd => \A h \in hits : h.leader \notin Fixed

\* ... and no process that descends from the unit's main process gets one, unless systemctl
\* or a read of /proc failed under the walk: the tree is read before the identity, so a
\* process that passes the identity check, and every ancestor of it, was there to be
\* seen, whoever starts, ends, is orphaned or takes over a PID meanwhile.  (A descendant
\* whose parent has ended is PID 1's child, to the walk as to the kernel.)
SparesKnownRuntime ==
    HasPidfd => \A h \in hits : whole[h.act] => ~h.linked

\* With pidfd support, what check() protects is spared whatever a PID becomes between
\* the key press, the checks and the signal.
SparesProtected == SparesInitAndSelf /\ SparesKnownRuntime

\* The process behind the pidfd of an action is still there.
There(a) == /\ act[a] # "idle" /\ target[a].pinned
            /\ proc[target[a].pid] # Free /\ proc[target[a].pid].start = target[a].fd

\* Why the last two hold.  A process is younger than its parent, unless that is PID 1,
\* the parent is alive, and the unit's main process is there.
Family ==
    /\ proc[InitPid].start = 0 /\ proc[InitPid].state = "alive"
    /\ proc[InitPid].parent = 0 /\ proc[InitPid].leader = InitPid
    /\ \A p \in Pids : proc[p] # Free /\ proc[p].parent \notin {0, InitPid} =>
          LET q == proc[p].parent
          IN  Alive(q) /\ ~IsThread(q) /\ proc[q].start < proc[p].start
    /\ main_pid # 0 => main_pid # InitPid /\ proc[main_pid] # Free /\ ~IsThread(main_pid)

\* What runtime_tree has read, if nothing failed, of the processes there were when it
\* asked for the main PID: that one, and the children of all that it has gone through.
Walked(a) ==
    /\ InitPid \notin runtime[a]
    /\ mark[a] <= clock
    /\ target[a].pinned => target[a].fd <= mark[a]
    /\ main_pid # 0 => main_pid \in runtime[a] \/ proc[main_pid].start > mark[a]
    /\ \A p \in Pids : ~IsThread(p) /\ proc[p].parent \in runtime[a] \ unlisted[a] =>
          p \in runtime[a] \/ proc[p].start > mark[a]

\* The process behind the pidfd leads its own group; past `check` its PID is neither
\* protected nor in the tree that was read.
GuardedAct(a) ==
    /\ act[a] # "idle" => target[a].pinned \/ target[a].open_error # "none"
    /\ There(a) => proc[target[a].pid].leader = target[a].pid
    /\ act[a] \in {"stat", "status", "send"} =>
          target[a].open_error = "none" /\ target[a].pid \notin Fixed \cup runtime[a]
    /\ act[a] \in {"idle", "armed", "tree"} => ~whole[a]
    /\ act[a] # "walk" => unlisted[a] = {}
    /\ whole[a] => Walked(a)

Guarded == /\ SparesInitAndSelf /\ SparesKnownRuntime
           /\ HasPidfd => \A a \in Acts : GuardedAct(a)

Signals(a) == {h.sig : h \in {x \in hits : x.act = a}}

\* The process that was read of the target's PID still has it.
Same(a) == /\ proc[target[a].pid] # Free
           /\ proc[target[a].pid].start = target[a].start

TrueReport(a) ==
    /\ CASE result[a] \in {"exited", "still_running"} -> Signals(a) = {"TERM"}
         [] result[a] = "sent" -> Signals(a) = {"KILL"}
         [] result[a] = "none" -> TRUE
         [] OTHER -> Signals(a) = {}
    /\ result[a] = "exited" /\ Same(a) /\ Alive(target[a].pid)
           => target[a].start \in setuids \/ a \in misread

\* What is reported of an action is true.  "exited" and "still_running" are only said
\* of a process that got the SIGTERM, "sent" only of one that got the SIGKILL; a refused
\* or cancelled action has signalled nobody ("Nothing is signalled on `Err`"); and who
\* is said to have exited runs no more, unless it changed its uid, which makes it
\* another process in the code's eyes, or its last read failed, which the code takes
\* for an exit (process.rs:385).
ReportsAreTrue == \A a \in Acts : TrueReport(a)

\* Why they are: past the identity check the process had the row's uid.
Traced(a) ==
    /\ act[a] # "done" => result[a] = "none"
    /\ act[a] = "wait" => Signals(a) = {"TERM"} /\ target[a].sig = "TERM"
    /\ act[a] # "idle" => ReadOf(target[a].pid, target[a].start)
    /\ act[a] \in {"send", "wait"} /\ Same(a)
           => proc[target[a].pid].uid = target[a].uid \/ target[a].start \in setuids

Told == ReportsAreTrue /\ \A a \in Acts : Traced(a)

\* Whoever presses `x`, or `X` and `y`, is told how it went.
EveryActionReported ==
    \A a \in Acts : act[a] = "tree" ~> act[a] = "done"

\* How far along its path an action is.
Place == [idle |-> 0, armed |-> 1, tree |-> 2, walk |-> 3, check |-> 4, stat |-> 5,
          status |-> 6, send |-> 7, wait |-> 8, done |-> 9]

\* The PIDs of the runtime's tree whose children have been read.
Listed(a) == runtime[a] \ unlisted[a]

\* The safety half of it: an action only ever goes forward, each turn of the walk reads the
\* children of a PID it had not read before, so that there are no more of them than PIDs,
\* and what was reported of an action is not taken back.
OnlyForward ==
    [][\A a \in Acts :
          /\ act'[a] = act[a] \/ Place[act'[a]] > Place[act[a]]
          /\ Task(a) /\ act'[a] = act[a] =>
                Listed(a) \subseteq Listed(a)' /\ Listed(a) # Listed(a)'
          /\ result[a] # "none" => result'[a] = result[a]]_vars

\* One key press signals one process at most, and once: nothing is sent again, neither
\* when the grace period is over nor when the PID is another's by then.
OneSignal == \A h1, h2 \in hits : h1.act = h2.act => h1 = h2

------------------------------------------------------------------------------
(* What the documents say and the code does not keep.                      *)

\* README: "`x` sends SIGTERM and escalates after `[process] term_grace_ms`" --
\* a process that outlives the grace period gets a SIGKILL as well.
TermEscalates ==
    \A a \in Acts : result[a] = "still_running" =>
        \E h \in hits : h.act = a /\ h.sig = "KILL"

\* process.rs: identity is "`None` when the PID is gone or a zombie" -- who is reported to
\* have exited runs no more.
ExitedIsGone ==
    \A a \in Acts : result[a] = "exited" /\ Same(a) /\ Alive(target[a].pid)
                        => target[a].start \in setuids

\* README: "the llama-server runtime processes ... are refused with a reason".
RuntimeIsRefused == \A h \in hits : ~h.linked

\* README: "Both act on the exact PID you selected (checked against its start
\* time and owner ...)" -- the process signalled is the one the cursor was put
\* on.
ActsOnTheSelectedProcess ==
    \A h \in hits : h.start = target[h.act].chosen
==============================================================================
