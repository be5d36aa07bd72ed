------------------------ MODULE ProcessControlProofs ------------------------
(***************************************************************************)
(* Proofs about ProcessControl for every set of PIDs, users and actions:   *)
(* its types; that a signal sent through a pidfd reaches the process of    *)
(* the row it was meant for, whatever happens to the PID in between; that  *)
(* the runtime is spared unless systemctl or a read of /proc failed; that  *)
(* the reports are true; and that an action only goes forward and signals  *)
(* at most once.                                                           *)
(***************************************************************************)
EXTENDS ProcessControl, TLAPS

\* The first state is well typed, and nothing has been read or signalled.
LEMMA InitInv == Init => IndInv
<1> SUFFICES ASSUME Init PROVE IndInv
  OBVIOUS
<1> USE PidsAssumption DEF Init
<1>1. TypeOK
  <2>1. proc \in [Pids -> Process \cup {Free}]
    <3>1. (CHOOSE u \in OwnUids : TRUE) \in Uids
      OBVIOUS
    <3>2. 0 \in 0..Ticks
      OBVIOUS
    <3> QED
      BY <3>1, <3>2 DEF Process, Fixed
  <2> QED
    BY <2>1 DEF TypeOK, Target, NoTarget, Places, Results, Hit, Row
<1>2. Pinning
  BY DEF Pinning, Free, ReadOf
<1> QED
  BY <1>1, <1>2 DEF IndInv, HitsTheRowsProcess

\* What the kernel does to its table: a PID that is in use after a step was in
\* use before by the same process, or is given to one with a tick of its own.
LEMMA KernelKeepsOrder ==
    ASSUME IndInv,
           proc' \in [Pids -> Process \cup {Free}], clock' \in 0..Ticks,
           clock <= clock',
           \A p \in Pids : \/ proc'[p] = Free
                           \/ proc'[p].start = proc[p].start /\ proc[p] # Free
                           \/ proc'[p].start = clock' /\ clock < clock',
           setuids' \in SUBSET (0..Ticks), main_pid' \in Pids \cup {0},
           UNCHANGED <<listed, polled, update, rows, selected, chosen, act, target, runtime,
                       unlisted, mark, whole, result, misread, hits>>
    PROVE  IndInv'
<1> USE PidsAssumption DEF IndInv
<1>1. \A p \in Pids, tick \in 0..Ticks : ReadOf(p, tick) => ReadOf(p, tick)'
  BY DEF ReadOf, TypeOK, Process, Free
<1>2. TypeOK'
  BY DEF TypeOK
<1>3. Pinning'
  <2>1. \A p \in Pids : proc'[p].start <= clock'
    <3>1. SUFFICES ASSUME NEW p \in Pids PROVE proc'[p].start <= clock'
      OBVIOUS
    <3>2. proc[p].start <= clock /\ clock \in Nat /\ clock' \in Nat /\ proc[p].start \in Nat
      BY DEF TypeOK, Pinning, Process, Free
    <3>3. CASE proc'[p] = Free
      BY <3>2, <3>3 DEF Free
    <3>4. CASE proc'[p].start = proc[p].start
      BY <3>2, <3>4
    <3>5. CASE proc'[p].start = clock'
      BY <3>2, <3>5
    <3> QED
      BY <3>3, <3>4, <3>5
  <2>2. \A p \in DOMAIN polled' : ReadOf(p, polled[p])'
    BY <1>1 DEF TypeOK, Pinning
  <2>3. ASSUME NEW R \in update', NEW r \in R PROVE ReadOf(r.pid, r.start)'
    <3>1. r \in Row /\ ReadOf(r.pid, r.start)
      BY <2>3 DEF TypeOK, Pinning
    <3>2. r.pid \in Pids /\ r.start \in 0..Ticks
      BY <3>1 DEF Row
    <3> QED
      BY <1>1, <3>1, <3>2
  <2>4. \A r \in rows' : ReadOf(r.pid, r.start)'
    BY <1>1 DEF TypeOK, Pinning, Row
  <2>5. \A a \in Acts : act[a] # "idle" /\ target[a].pinned => ReadOf(target[a].pid, target[a].fd)'
    BY <1>1 DEF Pinning, Target
  <2> QED
    BY <2>1, <2>2, <2>3, <2>4, <2>5 DEF Pinning
<1>4. HitsTheRowsProcess'
  BY DEF HitsTheRowsProcess
<1> QED
  BY <1>2, <1>3, <1>4

\* A thread group that ends gives its PIDs to nobody.
LEMMA EndedKeeps ==
    ASSUME IndInv, NEW p \in Pids
    PROVE  /\ Ended(p) \in [Pids -> Process \cup {Free}]
           /\ \A q \in Pids : \/ Ended(p)[q] = Free
                              \/ Ended(p)[q].start = proc[q].start /\ proc[q] # Free
<1>1. proc \in [Pids -> Process \cup {Free}]
  BY DEF IndInv, TypeOK
<1>2. ASSUME NEW q \in Pids
      PROVE  /\ Ended(p)[q] \in Process \cup {Free}
             /\ \/ Ended(p)[q] = Free
                \/ Ended(p)[q].start = proc[q].start /\ proc[q] # Free
  <2>1. CASE proc[q] = Free
    BY <2>1 DEF Ended
  <2>2. CASE proc[q] # Free
    <3>1. Ended(p)[q] \in {proc[q], Free, [proc[q] EXCEPT !.state = "zombie"],
                           [proc[q] EXCEPT !.parent = InitPid]}
      BY <2>2 DEF Ended
    <3> QED
      BY <1>1, <2>2, <3>1, PidsAssumption DEF Process, Fixed
  <2> QED
    BY <2>1, <2>2
<1>3. Ended(p) = [q \in Pids |-> Ended(p)[q]]
  BY DEF Ended
<1>4. Ended(p) \in [Pids -> Process \cup {Free}]
  BY <1>2, <1>3
<1> QED
  BY <1>2, <1>4

\* A new process, or thread, has a tick of its own and is otherwise what it was started by.
LEMMA SpawnGives ==
    ASSUME IndInv, NEW p \in Pids, Spawn(p)
    PROVE  /\ proc' \in [Pids -> Process \cup {Free}]
           /\ proc'[p].start = clock' /\ clock' = clock + 1 /\ clock' \in 0..Ticks
           /\ \A q \in Pids : q # p => proc'[q] = proc[q]
           /\ main_pid' \in {0, main_pid, p}
<1>1. clock' = clock + 1 /\ clock' \in 0..Ticks /\ proc \in [Pids -> Process \cup {Free}]
  BY PidsAssumption DEF Spawn, IndInv, TypeOK
<1>2. PICK q \in Forkers :
         /\ Alive(q) /\ ~IsThread(q)
         /\ \/ /\ proc' = [proc EXCEPT ![p] = [proc[q] EXCEPT !.start = clock + 1]]
               /\ UNCHANGED main_pid
            \/ /\ proc' = [proc EXCEPT ![p] =
                             [proc[q] EXCEPT !.start = clock + 1, !.parent = q, !.leader = p]]
               /\ main_pid' \in IF q = InitPid /\ main_pid = 0 THEN {0, p} ELSE {main_pid}
  BY DEF Spawn
<1>3. q \in Pids /\ proc[q] \in Process
  BY <1>1, <1>2, PidsAssumption DEF Alive, Free
<1>4. PICK new \in Process : proc' = [proc EXCEPT ![p] = new] /\ new.start = clock + 1
  <2>1. /\ [proc[q] EXCEPT !.start = clock + 1] \in Process
        /\ [proc[q] EXCEPT !.start = clock + 1].start = clock + 1
    BY <1>1, <1>3 DEF Process
  <2>2. /\ [proc[q] EXCEPT !.start = clock + 1, !.parent = q, !.leader = p] \in Process
        /\ [proc[q] EXCEPT !.start = clock + 1, !.parent = q, !.leader = p].start = clock + 1
    BY <1>1, <1>3 DEF Process
  <2> QED
    BY <1>2, <2>1, <2>2
<1>5. main_pid' \in {0, main_pid, p}
  BY <1>2
<1> QED
  BY <1>1, <1>4, <1>5

\* So the kernel's own steps keep the invariant.
LEMMA KernelSteps ==
    ASSUME IndInv, NEW p \in Pids, Spawn(p) \/ Exit(p) \/ Reap(p) \/ SetUid(p)
    PROVE  IndInv'
<1> USE PidsAssumption DEF IndInv, TypeOK
<1>1. CASE Spawn(p)
  <2>1. /\ proc' \in [Pids -> Process \cup {Free}] /\ main_pid' \in Pids \cup {0}
        /\ \A q \in Pids : proc'[q] = proc[q] \/ proc'[q].start = clock'
        /\ clock' \in 0..Ticks /\ clock < clock'
    BY <1>1, SpawnGives
  <2>2. /\ UNCHANGED <<listed, polled, update, rows, selected, chosen, act, target, runtime,
                       unlisted, mark, whole, result, misread, hits>>
        /\ setuids' \in SUBSET (0..Ticks)
    BY <1>1 DEF Spawn, pollVars, tuiVars, actVars, treeVars
  <2> QED
    BY <2>1, <2>2, KernelKeepsOrder
<1>2. Ended(p) \in [Pids -> Process \cup {Free}] /\
      \A q \in Pids : \/ Ended(p)[q] = Free
                      \/ Ended(p)[q].start = proc[q].start /\ proc[q] # Free
  BY EndedKeeps
<1>3. CASE Exit(p)
  BY <1>2, <1>3, KernelKeepsOrder DEF Exit, pollVars, tuiVars, actVars, treeVars
<1>4. CASE Reap(p)
  BY <1>4, KernelKeepsOrder DEF Reap, pollVars, tuiVars, actVars, treeVars
<1>5. CASE SetUid(p)
  <2>1. PICK u \in Uids :
          proc' = [q \in Pids |-> IF proc[q].leader = p THEN [proc[q] EXCEPT !.uid = u]
                                  ELSE proc[q]]
    BY <1>5 DEF SetUid
  <2>2. \A q \in Pids : proc[q] = Free => proc[q].leader # p
    BY DEF Free
  <2>3. proc' \in [Pids -> Process \cup {Free}]
    BY <2>1, <2>2 DEF Process
  <2>4. \A q \in Pids : \/ proc'[q] = Free
                        \/ proc'[q].start = proc[q].start /\ proc[q] # Free
    BY <2>1, <2>2 DEF Process
  <2>5. setuids' \in SUBSET (0..Ticks)
    BY <1>5 DEF SetUid, Alive, Process, Free
  <2> QED
    BY <1>5, <2>3, <2>4, <2>5, KernelKeepsOrder DEF SetUid, pollVars, tuiVars, actVars, treeVars
<1> QED
  BY <1>1, <1>3, <1>4, <1>5

\* What is read of a PID in use is not of the future.
LEMMA ReadNow ==
    ASSUME IndInv, NEW p \in Pids, proc[p] # Free
    PROVE  proc[p] \in Process /\ ReadOf(p, proc[p].start)
BY DEF IndInv, TypeOK, Pinning, Process, ReadOf

\* The poll and the cursor copy what was read and invent nothing.
LEMMA PollSteps ==
    ASSUME IndInv, Poll \/ MoveCursor
    PROVE  IndInv'
<1> USE PidsAssumption DEF IndInv, kernelVars, pollVars, tuiVars, actVars, treeVars
<1>1. ASSUME UNCHANGED <<kernelVars, act, actVars, hits>>,
             TypeOK',
             \A p \in DOMAIN polled' : ReadOf(p, polled'[p]),
             \A R \in update' : \A r \in R : ReadOf(r.pid, r.start),
             \A r \in rows' : ReadOf(r.pid, r.start)
      PROVE  IndInv'
  <2>1. Pinning'
    BY <1>1 DEF Pinning, ReadOf
  <2>2. HitsTheRowsProcess'
    BY <1>1 DEF HitsTheRowsProcess
  <2> QED
    BY <1>1, <2>1, <2>2
<1>0. CASE PollList
  <2>1. listed' \in SUBSET Pids /\ UNCHANGED <<kernelVars, polled, update,
            rows, selected, chosen, act, actVars, hits>>
    BY <1>0 DEF PollList
  <2>2. TypeOK'
    BY <2>1 DEF TypeOK
  <2> QED
    BY <1>1, <2>1, <2>2 DEF Pinning
<1>2. CASE PollStat
  <2> DEFINE seen == {q \in listed \cup Movers : Alive(q)}
  <2>1. polled' = [p \in seen |-> proc[p].start] /\ listed' = {} /\ UNCHANGED <<kernelVars, update,
            rows, selected, chosen, act, actVars, hits>>
    BY <1>2 DEF PollStat
  <2>2. \A p \in seen : p \in Pids /\ proc[p] # Free
    BY DEF Alive, Free, TypeOK
  <2>3. \A p \in seen : proc[p].start \in 0..Ticks /\ ReadOf(p, proc[p].start)
    BY <2>2, ReadNow DEF Process
  <2> HIDE DEF seen
  <2>4. TypeOK'
    BY <2>1, <2>3 DEF TypeOK, seen
  <2> QED
    BY <1>1, <2>1, <2>3, <2>4 DEF Pinning
<1>3. CASE PollStatus
  <2>1. PICK hidden \in SUBSET Movers :
          update' = {{[pid |-> p, start |-> polled[p], uid |-> proc[p].uid] :
                        p \in {q \in DOMAIN polled \ hidden : proc[q] # Free}}}
    BY <1>3 DEF PollStatus
  <2>2. polled' = <<>> /\ UNCHANGED <<listed, kernelVars, rows, selected, chosen, act,
            actVars, hits>>
    BY <1>3 DEF PollStatus
  <2>3. \A R \in update' : \A r \in R : r \in Row /\ ReadOf(r.pid, r.start)
    <3>1. SUFFICES ASSUME NEW p \in DOMAIN polled, proc[p] # Free
                   PROVE  /\ [pid |-> p, start |-> polled[p], uid |-> proc[p].uid] \in Row
                          /\ ReadOf(p, polled[p])
      BY <2>1
    <3>2. p \in Pids /\ polled[p] \in 0..Ticks /\ proc[p].uid \in Uids
      BY <3>1, ReadNow DEF TypeOK, Process
    <3> QED
      BY <3>2 DEF Row, Pinning
  <2>4. TypeOK'
    BY <2>2, <2>3 DEF TypeOK
  <2> QED
    BY <1>1, <2>2, <2>3, <2>4 DEF Pinning
<1>4. CASE Update
  <2>1. rows' = UNION update /\ update' = {} /\ UNCHANGED <<listed, kernelVars, polled, chosen,
            act, actVars, hits>>
    BY <1>4 DEF Update
  <2>2. selected' \in Pids \cup {0}
    BY <1>4 DEF Update, TypeOK
  <2>3. TypeOK'
    BY <2>1, <2>2 DEF TypeOK
  <2> QED
    BY <1>1, <2>1, <2>3 DEF Pinning
<1>5. CASE MoveCursor
  <2>1. selected' \in Pids \cup {0} /\ chosen' \in 0..Ticks
    BY <1>5 DEF MoveCursor, TypeOK, Row
  <2>2. TypeOK'
    BY <1>5, <2>1 DEF MoveCursor, TypeOK
  <2> QED
    BY <1>1, <1>5, <2>2 DEF MoveCursor, Pinning
<1> QED
  BY <1>0, <1>2, <1>3, <1>4, <1>5 DEF Poll

\* A pidfd opened at selection names a process that is not older than the row.
LEMMA PressStep ==
    ASSUME IndInv, NEW a \in Acts, NEW sig \in {"TERM", "KILL"}, Press(a, sig)
    PROVE  IndInv'
<1> USE PidsAssumption DEF IndInv, kernelVars, pollVars, tuiVars, actVars, treeVars
<1>0. PICK r \in SelectedRows : \E t \in SelectRow(r, sig) : target' = [target EXCEPT ![a] = t]
  BY DEF Press
<1>1. PICK t \in SelectRow(r, sig) : target' = [target EXCEPT ![a] = t]
  BY <1>0
<1>2. /\ act[a] = "idle"
      /\ act' = [act EXCEPT ![a] = IF sig = "TERM" THEN "tree" ELSE "armed"]
      /\ UNCHANGED <<kernelVars, listed, polled, update, rows, selected, chosen, treeVars, result,
                     misread, hits>>
  BY DEF Press, Goto
<1>3. r \in rows /\ r \in Row /\ ReadOf(r.pid, r.start)
  BY DEF SelectedRows, TypeOK, Pinning
<1> DEFINE base == [pid |-> r.pid, start |-> r.start, uid |-> r.uid, fd |-> 0, pinned |-> FALSE,
                    open_error |-> "none", sig |-> sig, chosen |-> chosen]
<1>d. \/ t = base
      \/ t = [base EXCEPT !.open_error = "changed"]
      \/ t = [base EXCEPT !.open_error = "signal"]
      \/ proc[r.pid] # Free /\ t = [base EXCEPT !.fd = proc[r.pid].start, !.pinned = TRUE]
  BY <1>1 DEF SelectRow
<1>4. t \in Target /\ (t.pinned => ReadOf(t.pid, t.fd) /\ t.start <= t.fd)
  <2>1. r.pid \in Pids /\ r.start \in 0..Ticks /\ r.uid \in Uids /\ chosen \in 0..Ticks
    BY <1>3 DEF TypeOK, Row
  <2>2. CASE t.pinned
    <3>0. proc[r.pid] # Free /\ t = [base EXCEPT !.fd = proc[r.pid].start, !.pinned = TRUE]
      <4>1. ~base.pinned
        OBVIOUS
      <4>2. ~[base EXCEPT !.open_error = "changed"].pinned
        OBVIOUS
      <4>3. ~[base EXCEPT !.open_error = "signal"].pinned
        OBVIOUS
      <4> QED
        BY <1>d, <2>2, <4>1, <4>2, <4>3
    <3>1. t = [pid |-> r.pid, start |-> r.start, uid |-> r.uid,
             fd |-> proc[r.pid].start, pinned |-> TRUE, open_error |-> "none", sig |-> sig,
             chosen |-> chosen]
      BY <3>0
    <3>2. proc[r.pid].start \in 0..Ticks /\ ReadOf(r.pid, proc[r.pid].start)
      BY <2>1, <3>0, ReadNow DEF Process
    <3>3. r.start <= proc[r.pid].start
      BY <1>3, <3>0 DEF ReadOf
    <3> QED
      BY <2>1, <3>1, <3>2, <3>3 DEF Target, Errors
  <2>3. CASE ~t.pinned
    <3>1. PICK e \in Errors :
             t = [pid |-> r.pid, start |-> r.start, uid |-> r.uid, fd |-> 0, pinned |-> FALSE,
                  open_error |-> e, sig |-> sig, chosen |-> chosen]
      BY <1>d, <2>3 DEF Errors
    <3> QED
      BY <2>1, <3>1 DEF Target
  <2> QED
    BY <2>2, <2>3
<1>5. TypeOK'
  BY <1>1, <1>2, <1>4 DEF TypeOK, Places
<1>6. Pinning'
  BY <1>1, <1>2, <1>4 DEF Pinning, TypeOK, ReadOf
<1>7. HitsTheRowsProcess'
  BY <1>1, <1>2 DEF HitsTheRowsProcess, Pinning, TypeOK, Hit
<1> QED
  BY <1>5, <1>6, <1>7

\* An action that goes on without signalling keeps the invariant, if by the
\* time it is past the first read its pidfd and its row name the same process.
LEMMA GoesOn ==
    ASSUME IndInv, NEW a \in Acts, NEW l \in Places \ {"idle"},
           act[a] # "idle", act[a] \in {"wait", "done"} => l \in {"wait", "done"},
           l \in {"status", "send"} /\ target[a].pinned => target[a].fd = target[a].start,
           act' = [act EXCEPT ![a] = l],
           runtime' \in [Acts -> SUBSET Pids], unlisted' \in [Acts -> SUBSET Pids],
           mark' \in [Acts -> 0..Ticks], whole' \in [Acts -> BOOLEAN],
           result' \in [Acts -> Results], misread' \in SUBSET Acts,
           UNCHANGED <<kernelVars, listed, polled, update, rows, selected, chosen, target, hits>>
    PROVE  IndInv'
<1> USE PidsAssumption DEF IndInv, kernelVars
<1>1. TypeOK'
  BY DEF TypeOK
<1>2. Pinning'
  BY DEF Pinning, ReadOf, TypeOK, Hit
<1>3. HitsTheRowsProcess'
  BY DEF HitsTheRowsProcess
<1> QED
  BY <1>1, <1>2, <1>3

\* Everything an action does but the signal itself.
LEMMA ActionSteps ==
    ASSUME IndInv, NEW a \in Acts,
           \/ Confirm(a) \/ Cancel(a) \/ RuntimeRoot(a) \/ RuntimeChildren(a) \/ Check(a)
           \/ ReadStat(a) \/ ReadStatus(a) \/ Wait(a)
    PROVE  IndInv'
<1> USE DEF pollVars, tuiVars, actVars, treeVars, Goto, Finish
<1>t. TypeOK
  BY DEF IndInv
<1>1. CASE Confirm(a)
  BY <1>t, <1>1, GoesOn DEF Confirm, TypeOK, Places
<1>2. CASE Cancel(a)
  BY <1>t, <1>2, GoesOn DEF Cancel, TypeOK, Places, Results
<1>3. CASE RuntimeRoot(a)
  <2>1. PICK root \in {{main_pid} \ {0}, {}} :
          /\ runtime' = [runtime EXCEPT ![a] = root]
          /\ unlisted' = [unlisted EXCEPT ![a] = root]
          /\ whole' = [whole EXCEPT ![a] = (root = {main_pid} \ {0})]
          /\ act' = [act EXCEPT ![a] = IF root = {} THEN "check" ELSE "walk"]
    BY <1>3 DEF RuntimeRoot
  <2>2. /\ act[a] = "tree" /\ mark' = [mark EXCEPT ![a] = clock]
        /\ UNCHANGED <<kernelVars, listed, polled, update, rows, selected, chosen, target, hits,
                       result, misread>>
    BY <1>3 DEF RuntimeRoot
  <2>3. root \in SUBSET Pids
    BY <1>t DEF TypeOK
  <2>4. /\ runtime' \in [Acts -> SUBSET Pids] /\ unlisted' \in [Acts -> SUBSET Pids]
        /\ whole' \in [Acts -> BOOLEAN]
    BY <1>t, <2>1, <2>3, Zenon DEF TypeOK
  <2>5. mark' \in [Acts -> 0..Ticks] /\ result' \in [Acts -> Results] /\ misread' \in SUBSET Acts
    BY <1>t, <2>2 DEF TypeOK
  <2>6. PICK l \in {"check", "walk"} : act' = [act EXCEPT ![a] = l]
    BY <2>1
  <2> QED
    BY <2>2, <2>4, <2>5, <2>6, GoesOn DEF Places
<1>8. CASE RuntimeChildren(a)
  <2>1. PICK q \in unlisted[a], read \in SUBSET Pids :
          /\ runtime' = [runtime EXCEPT ![a] = @ \cup read]
          /\ unlisted' = [unlisted EXCEPT ![a] = (@ \ {q}) \cup read]
    BY <1>8 DEF RuntimeChildren
  <2>2. /\ act[a] = "walk" /\ whole' \in [Acts -> BOOLEAN]
        /\ UNCHANGED <<kernelVars, listed, polled, update, rows, selected, chosen, target, hits,
                       mark, result, misread>>
    BY <1>t, <1>8 DEF RuntimeChildren, TypeOK
  <2>3. read \in SUBSET Pids
    OBVIOUS
  <2>4. runtime' \in [Acts -> SUBSET Pids] /\ unlisted' \in [Acts -> SUBSET Pids]
    BY <1>t, <2>1, <2>3 DEF TypeOK
  <2>5. mark' \in [Acts -> 0..Ticks] /\ result' \in [Acts -> Results] /\ misread' \in SUBSET Acts
    BY <1>t, <2>2 DEF TypeOK
  <2>6. PICK l \in {"check", "walk"} : act' = [act EXCEPT ![a] = l]
    BY <1>8 DEF RuntimeChildren
  <2> QED
    BY <2>2, <2>4, <2>5, <2>6, GoesOn DEF Places
<1>4. CASE Check(a)
  <2>1. act[a] = "check" /\ target[a].open_error \in Errors
    BY <1>4 DEF Check, IndInv, Pinning, Target
  <2>2. PICK l \in {"done", "stat"} : act' = [act EXCEPT ![a] = l]
    BY <1>4 DEF Check
  <2>3. result' \in [Acts -> Results]
    BY <1>t, <1>4, <2>1 DEF Check, TypeOK, Results, Errors
  <2> QED
    BY <1>t, <1>4, <2>1, <2>2, <2>3, GoesOn DEF Check, TypeOK, Places
<1>5. CASE ReadStat(a)
  <2>1. act[a] = "stat" /\ target[a] \in Target
    BY <1>5 DEF ReadStat, IndInv, Pinning
  <2>2. result' \in [Acts -> Results]
    BY <1>t, <1>5 DEF ReadStat, TypeOK, Results
  <2>3. CASE act' = [act EXCEPT ![a] = "done"]
    BY <1>t, <1>5, <2>1, <2>2, <2>3, GoesOn DEF ReadStat, TypeOK, Places
  <2>4. CASE /\ act' = [act EXCEPT ![a] = "status"]
             /\ Alive(target[a].pid) /\ proc[target[a].pid].start = target[a].start
    <3>1. proc[target[a].pid] # Free
      BY <2>4 DEF Alive, Free
    <3>2. target[a].pinned => target[a].fd = target[a].start
      BY <2>1, <2>4, <3>1 DEF IndInv, Pinning, ReadOf, Target
    <3> QED
      BY <1>t, <1>5, <2>1, <2>2, <2>4, <3>2, GoesOn DEF ReadStat, TypeOK, Places
  <2> QED
    BY <1>5, <2>3, <2>4 DEF ReadStat
<1>6. CASE ReadStatus(a)
  <2>1. act[a] = "status" /\ (target[a].pinned => target[a].fd = target[a].start)
    BY <1>6 DEF ReadStatus, IndInv, Pinning
  <2>2. PICK l \in {"done", "send"} : act' = [act EXCEPT ![a] = l]
    BY <1>6 DEF ReadStatus
  <2>3. result' \in [Acts -> Results]
    BY <1>t, <1>6 DEF ReadStatus, TypeOK, Results
  <2> QED
    BY <1>t, <1>6, <2>1, <2>2, <2>3, GoesOn DEF ReadStatus, TypeOK, Places
<1>7. CASE Wait(a)
  <2>1. act[a] = "wait" /\ act' = [act EXCEPT ![a] = "done"]
        /\ result' \in [Acts -> Results] /\ misread' \in SUBSET Acts
    BY <1>t, <1>7 DEF Wait, TypeOK, Results
  <2> QED
    BY <1>t, <1>7, <2>1, GoesOn DEF Wait, TypeOK, Places
<1> QED
  BY <1>1, <1>2, <1>3, <1>4, <1>5, <1>6, <1>7, <1>8

\* The signal: it is sent only after both reads of the identity, so the
\* process behind the pidfd is the row's.
LEMMA SendStep ==
    ASSUME IndInv, NEW a \in Acts, Send(a)
    PROVE  IndInv'
<1> USE PidsAssumption DEF IndInv
<1> DEFINE t == target[a]
           hit == [act |-> a, sig |-> t.sig, pid |-> t.pid, start |-> proc[t.pid].start,
                   leader |-> proc[t.pid].leader, linked |-> Descends(proc[t.pid].leader)]
<1>1. act[a] = "send" /\ t \in Target /\ (t.pinned => t.fd = t.start)
  BY DEF Send, Pinning
<1>2. UNCHANGED <<clock, main_pid, setuids, listed, polled, update, rows, selected, chosen, target,
                  treeVars, misread>>
  BY DEF Send, pollVars, tuiVars
<1>3. CASE /\ Finish(a, "signal") /\ UNCHANGED <<proc, hits>>
  BY <1>1, <1>2, <1>3, GoesOn DEF Finish, Goto, TypeOK, Places, Results, kernelVars, treeVars
<1>4. CASE proc[t.pid] # Free /\ (t.pinned => proc[t.pid].start = t.fd) /\ Deliver(a, t.pid)
  <2>1. PICK l \in {"wait", "done"} : act' = [act EXCEPT ![a] = l]
    BY <1>4 DEF Deliver, Finish, Goto
  <2>2. result' \in [Acts -> Results]
    BY <1>4 DEF Deliver, Finish, TypeOK, Results
  <2>3. hits' = hits \cup {hit} /\ hit \in Hit
    <3>1. Descends(proc[t.pid].leader) \in BOOLEAN
      BY DEF Descends
    <3>2. hits' = hits \cup {hit}
      BY <1>4 DEF Deliver
    <3> QED
      BY <1>1, <1>4, <3>1, <3>2, ReadNow DEF Hit, Target, Process
  <2>4. /\ proc' \in [Pids -> Process \cup {Free}]
        /\ \A p \in Pids : \/ proc'[p] = Free
                           \/ proc'[p].start = proc[p].start /\ proc[p] # Free
    <3>1. proc' \in {proc, Ended(t.pid)}
      BY <1>4 DEF Deliver
    <3>2. Ended(t.pid) \in [Pids -> Process \cup {Free}] /\
          \A q \in Pids : \/ Ended(t.pid)[q] = Free
                          \/ Ended(t.pid)[q].start = proc[q].start /\ proc[q] # Free
      BY <1>1, EndedKeeps DEF Target
    <3> QED
      BY <3>1, <3>2 DEF TypeOK
  <2>5. TypeOK'
    BY <1>2, <2>1, <2>2, <2>3, <2>4 DEF TypeOK, Places, treeVars
  <2>6. \A p \in Pids, tick \in 0..Ticks : ReadOf(p, tick) => ReadOf(p, tick)'
    BY <1>2, <2>4 DEF ReadOf, TypeOK
  <2>7. Pinning'
    <3>1. \A p \in Pids : proc'[p].start <= clock'
      BY <1>2, <2>4 DEF Pinning, TypeOK, Free
    <3>2. \A p \in DOMAIN polled' : ReadOf(p, polled[p])'
      BY <1>2, <2>6 DEF TypeOK, Pinning
    <3>3. ASSUME NEW R \in update', NEW r \in R PROVE ReadOf(r.pid, r.start)'
      <4>1. r \in Row /\ ReadOf(r.pid, r.start)
        BY <1>2, <3>3 DEF TypeOK, Pinning
      <4>2. r.pid \in Pids /\ r.start \in 0..Ticks
        BY <4>1 DEF Row
      <4> QED
        BY <2>6, <4>1, <4>2
    <3>4. \A r \in rows' : ReadOf(r.pid, r.start)'
      BY <1>2, <2>6 DEF TypeOK, Pinning, Row
    <3>5. \A b \in Acts : act[b] # "idle" /\ target[b].pinned
              => ReadOf(target[b].pid, target[b].fd)'
      <4>1. SUFFICES ASSUME NEW b \in Acts, act[b] # "idle", target[b].pinned
                     PROVE ReadOf(target[b].pid, target[b].fd)'
        BY <1>2 DEF ReadOf
      <4>2. target[b] \in Target /\ ReadOf(target[b].pid, target[b].fd)
        BY <4>1 DEF Pinning
      <4>3. target[b].pid \in Pids /\ target[b].fd \in 0..Ticks
        BY <4>2 DEF Target
      <4> QED
        BY <1>2, <2>6, <4>2, <4>3 DEF ReadOf
    <3>6. \A b \in Acts : act[b] = "idle" <=> act'[b] = "idle"
      BY <1>1, <2>1 DEF TypeOK
    <3>7. \A b \in Acts : act'[b] \in {"status", "send"} => act[b] \in {"status", "send"}
      BY <1>1, <2>1 DEF TypeOK
    <3>8. \A h \in hits' : act'[h.act] \in {"wait", "done"}
      BY <1>1, <2>1, <2>3 DEF Pinning, TypeOK, Hit
    <3> QED
      BY <1>2, <3>1, <3>2, <3>3, <3>4, <3>5, <3>6, <3>7, <3>8 DEF Pinning
  <2>8. HitsTheRowsProcess'
    BY <1>1, <1>2, <1>4, <2>3 DEF HitsTheRowsProcess
  <2> QED
    BY <2>5, <2>7, <2>8
<1> QED
  BY <1>3, <1>4 DEF Send

\* The strengthened invariant holds in every reachable state.
THEOREM Inductive == Spec => []IndInv
<1>1. IndInv /\ [Next]_vars => IndInv'
  <2> SUFFICES ASSUME IndInv, [Next]_vars PROVE IndInv'
    OBVIOUS
  <2>1. CASE Kernel
    BY <2>1, KernelSteps DEF Kernel
  <2>2. CASE Poll \/ MoveCursor
    BY <2>2, PollSteps
  <2>3. ASSUME NEW a \in Acts, Key(a) PROVE IndInv'
    BY <2>3, PressStep, ActionSteps DEF Key
  <2>4. ASSUME NEW a \in Acts, Task(a) PROVE IndInv'
    BY <2>4, ActionSteps, SendStep DEF Task
  <2>5. CASE UNCHANGED vars
    BY <2>5 DEF vars, IndInv, TypeOK, Pinning, ReadOf, HitsTheRowsProcess
  <2> QED
    BY <2>1, <2>2, <2>3, <2>4, <2>5 DEF Next
<1> QED
  BY <1>1, InitInv, PTL DEF Spec

\* Every variable holds a value of its type, for any PIDs, users and actions.
THEOREM TypeCorrect == Spec => []TypeOK
<1>1. IndInv => TypeOK
  BY DEF IndInv
<1> QED
  BY <1>1, Inductive, PTL

\* A signal sent through a pidfd reaches the process of the row, whatever the
\* kernel did to its PID between the poll, the key press and the signal.
THEOREM PidfdExact == Spec => []HitsTheRowsProcess
<1>1. IndInv => HitsTheRowsProcess
  BY DEF IndInv
<1> QED
  BY <1>1, Inductive, PTL

------------------------------------------------------------------------------
(* The table of processes.                                                 *)

\* The end of a thread group, other than PID 1's, leaves the rest of the family alone.
LEMMA EndedFamily ==
    ASSUME IndInv, Family, NEW p \in Pids, Alive(p), proc[p].leader # InitPid,
           proc' = Ended(p), main_pid' = main_pid
    PROVE  Family'
<1> DEFINE l == proc[p].leader
<1>t. /\ proc \in [Pids -> Process \cup {Free}] /\ InitPid \in Pids /\ 0 \notin Pids
      /\ main_pid \in Pids \cup {0}
  BY PidsAssumption DEF IndInv, TypeOK, Fixed
<1>l. l \in Pids /\ l # InitPid
  BY <1>t DEF Alive, Free, Process
<1>1. \A q \in Pids : proc[q] # Free /\ ~IsThread(q) /\ q # l => q = proc[q].leader /\ proc[q].leader # l
  BY DEF IsThread
<1> HIDE DEF l
<1>2. \A q \in Pids : proc'[q] =
          IF proc[q] = Free THEN Free
          ELSE IF proc[q].leader = l
          THEN IF IsThread(q) THEN Free ELSE [proc[q] EXCEPT !.state = "zombie"]
          ELSE IF proc[q].parent = l THEN [proc[q] EXCEPT !.parent = InitPid]
          ELSE proc[q]
  BY DEF Ended, l
\* Whoever is not of the group is as it was, but for a parent in it.
<1>3. ASSUME NEW q \in Pids, proc[q] # Free, proc[q].leader # l
      PROVE  /\ proc'[q] # Free /\ proc'[q].start = proc[q].start /\ proc'[q].state = proc[q].state
             /\ proc'[q].leader = proc[q].leader
             /\ proc'[q].parent = IF proc[q].parent = l THEN InitPid ELSE proc[q].parent
  <2>1. proc[q] \in Process
    BY <1>t, <1>3
  <2>2. CASE proc[q].parent = l
    <3>1. proc'[q] = [proc[q] EXCEPT !.parent = InitPid]
      BY <1>2, <1>3, <2>2
    <3>2. proc'[q].state # "free"
      BY <2>1, <3>1 DEF Process
    <3> QED
      BY <2>1, <2>2, <3>1, <3>2 DEF Process, Free
  <2>3. CASE proc[q].parent # l
    BY <1>2, <1>3, <2>3
  <2> QED
    BY <2>2, <2>3
<1>4. ASSUME NEW q \in Pids, proc[q] # Free, proc[q].leader = l, ~IsThread(q)
      PROVE  /\ proc'[q] # Free /\ proc'[q].start = proc[q].start
             /\ proc'[q].leader = proc[q].leader /\ proc'[q].parent = proc[q].parent
  <2>1. proc[q] \in Process /\ proc'[q] = [proc[q] EXCEPT !.state = "zombie"]
    BY <1>2, <1>4, <1>t
  <2>2. proc'[q].state # "free"
    BY <2>1 DEF Process
  <2> QED
    BY <2>1, <2>2 DEF Process, Free
<1>5. ASSUME NEW q \in Pids, proc[q] # Free, proc[q].leader = l, IsThread(q) PROVE proc'[q] = Free
  BY <1>2, <1>5
<1>6. proc'[InitPid].start = 0 /\ proc'[InitPid].state = "alive"
      /\ proc'[InitPid].parent = 0 /\ proc'[InitPid].leader = InitPid
  <2>1. proc[InitPid] # Free /\ proc[InitPid].leader # l /\ proc[InitPid].parent # l
    BY <1>t, <1>l DEF Family, Free
  <2> QED
    BY <1>3, <1>t, <2>1 DEF Family
<1>7. ASSUME NEW q \in Pids, proc'[q] # Free, proc'[q].parent \notin {0, InitPid}
      PROVE  LET r == proc'[q].parent
             IN  /\ proc'[r].state = "alive" /\ proc'[r].leader = r
                 /\ proc'[r].start < proc'[q].start
  <2>1. proc[q] # Free
    BY <1>2, <1>7
  <2>2. /\ proc'[q].start = proc[q].start /\ proc'[q].parent = proc[q].parent
        /\ proc[q].leader # l => proc[q].parent # l
        /\ proc[q].leader = l => q = l
    BY <1>3, <1>4, <1>5, <1>7, <2>1 DEF IsThread
  <2> DEFINE r == proc[q].parent
  <2>3. Alive(r) /\ ~IsThread(r) /\ proc[r].start < proc[q].start
    BY <1>7, <2>1, <2>2 DEF Family
  <2>4. r \in Pids
    BY <1>t, <1>7, <2>1, <2>2 DEF Process
  <2>5. r # l
    BY <1>t, <2>1, <2>2, <2>3 DEF Process
  <2>6. proc[r] # Free /\ proc[r].leader # l
    BY <1>1, <2>3, <2>4, <2>5 DEF Alive, Free
  <2> HIDE DEF r
  <2>7. proc'[r].state = proc[r].state /\ proc'[r].leader = proc[r].leader
        /\ proc'[r].start = proc[r].start
    BY <1>3, <2>4, <2>6
  <2> QED
    BY <2>2, <2>3, <2>7 DEF Alive, IsThread, r
<1>8. main_pid' # 0 => main_pid' # InitPid /\ proc'[main_pid'] # Free /\ proc'[main_pid'].leader = main_pid'
  <2> SUFFICES ASSUME main_pid # 0
               PROVE main_pid # InitPid /\ proc'[main_pid] # Free /\ proc'[main_pid].leader = main_pid
    BY DEF IsThread
  <2>1. main_pid \in Pids /\ main_pid # InitPid /\ proc[main_pid] # Free /\ ~IsThread(main_pid)
    BY <1>t DEF Family
  <2> QED
    BY <1>3, <1>4, <2>1 DEF IsThread
<1> QED
  BY <1>6, <1>7, <1>8 DEF Family, Alive, IsThread

\* A new process is younger than its parent, a new thread than its process's.
LEMMA SpawnFamily ==
    ASSUME IndInv, Family, NEW p \in Pids, Spawn(p)
    PROVE  Family'
<1>t. /\ proc \in [Pids -> Process \cup {Free}] /\ InitPid \in Pids /\ 0 \notin Pids
      /\ main_pid \in Pids \cup {0} /\ clock \in Nat /\ \A q \in Pids : proc[q].start <= clock
  BY PidsAssumption DEF IndInv, TypeOK, Fixed, Pinning
<1>1. PICK q \in Forkers :
         /\ Alive(q) /\ ~IsThread(q)
         /\ \/ /\ proc' = [proc EXCEPT ![p] = [proc[q] EXCEPT !.start = clock + 1]]
               /\ UNCHANGED main_pid
            \/ /\ proc' = [proc EXCEPT ![p] =
                             [proc[q] EXCEPT !.start = clock + 1, !.parent = q, !.leader = p]]
               /\ main_pid' \in IF q = InitPid /\ main_pid = 0 THEN {0, p} ELSE {main_pid}
  BY DEF Spawn
<1>2. q \in Pids /\ proc[q] \in Process /\ proc[q] # Free /\ proc[p] = Free /\ q # p
  BY <1>t, <1>1, PidsAssumption DEF Alive, Free, Spawn
<1>3. /\ proc'[p].start = clock + 1 /\ proc'[p].state = "alive"
      /\ \A r \in Pids : r # p => proc'[r] = proc[r]
      /\ \/ /\ proc'[p].parent = proc[q].parent /\ main_pid' = main_pid
         \/ /\ proc'[p].parent = q /\ proc'[p].leader = p /\ main_pid' \in {0, main_pid, p}
  <2>1. CASE /\ proc' = [proc EXCEPT ![p] = [proc[q] EXCEPT !.start = clock + 1]]
             /\ UNCHANGED main_pid
    BY <1>1, <1>2, <1>t, <2>1 DEF Process, Alive
  <2>2. CASE /\ proc' = [proc EXCEPT ![p] =
                           [proc[q] EXCEPT !.start = clock + 1, !.parent = q, !.leader = p]]
             /\ main_pid' \in IF q = InitPid /\ main_pid = 0 THEN {0, p} ELSE {main_pid}
    BY <1>1, <1>2, <1>t, <2>2 DEF Process, Alive
  <2> QED
    BY <1>1, <2>1, <2>2
<1>4. p # InitPid /\ proc'[InitPid] = proc[InitPid]
  BY <1>2, <1>3, <1>t DEF Family, Free
<1>5. ASSUME NEW c \in Pids, proc'[c] # Free, proc'[c].parent \notin {0, InitPid}
      PROVE  LET r == proc'[c].parent
             IN  /\ proc'[r].state = "alive" /\ proc'[r].leader = r
                 /\ proc'[r].start < proc'[c].start
  <2>1. ASSUME NEW r \in Pids, Alive(r), ~IsThread(r)
        PROVE  /\ proc'[r].state = "alive" /\ proc'[r].leader = r /\ proc'[r] = proc[r]
    BY <1>2, <1>3, <2>1 DEF Alive, IsThread, Free
  <2>2. CASE c # p
    <3>1. proc'[c] = proc[c]
      BY <1>3, <2>2
    <3>2. proc[c].parent \in Pids
      BY <1>t, <1>5, <3>1 DEF Process
    <3>3. Alive(proc[c].parent) /\ ~IsThread(proc[c].parent)
          /\ proc[proc[c].parent].start < proc[c].start
      BY <1>5, <3>1 DEF Family
    <3> QED
      BY <2>1, <3>1, <3>2, <3>3
  <2>3. CASE c = p /\ proc'[p].parent = proc[q].parent
    <3>1. proc[q].parent \in Pids
      BY <1>2, <1>5, <2>3 DEF Process
    <3>2. Alive(proc[q].parent) /\ ~IsThread(proc[q].parent)
          /\ proc[proc[q].parent].start < proc[q].start
      BY <1>2, <1>5, <2>3 DEF Family
    <3>3. proc[proc[q].parent].start <= clock /\ proc[proc[q].parent].start \in Nat
      BY <1>t, <3>1, <3>2 DEF Process, Alive, Free
    <3> QED
      BY <1>3, <1>t, <2>1, <2>3, <3>1, <3>2, <3>3
  <2>4. CASE c = p /\ proc'[p].parent = q
    <3>1. proc[q].start <= clock /\ proc[q].start \in Nat
      BY <1>t, <1>2 DEF Process
    <3> QED
      BY <1>1, <1>2, <1>3, <1>t, <2>1, <2>4, <3>1
  <2> QED
    BY <1>3, <2>2, <2>3, <2>4
<1>6. main_pid' # 0 => main_pid' # InitPid /\ proc'[main_pid'] # Free /\ proc'[main_pid'].leader = main_pid'
  <2>1. CASE main_pid' = main_pid /\ main_pid # 0
    BY <1>2, <1>3, <1>t, <2>1 DEF Family, IsThread
  <2>2. CASE main_pid' = p /\ proc'[p].leader = p
    <3>1. proc'[p] # Free
      BY <1>3 DEF Free
    <3> QED
      BY <1>4, <2>2, <3>1 DEF IsThread
  <2> QED
    BY <1>3, <2>1, <2>2
<1> QED
  BY <1>4, <1>5, <1>6 DEF Family, Alive, IsThread

\* The other steps of the kernel.
LEMMA KernelFamily ==
    ASSUME IndInv, Family, NEW p \in Pids, Exit(p) \/ Reap(p) \/ SetUid(p)
    PROVE  Family'
<1>t. /\ proc \in [Pids -> Process \cup {Free}] /\ InitPid \in Pids /\ 0 \notin Pids
      /\ main_pid \in Pids \cup {0}
  BY PidsAssumption DEF IndInv, TypeOK, Fixed
\* A PID is given up that is nobody's parent and not the unit's main process.
<1>0. ASSUME proc' = [proc EXCEPT ![p] = Free], ~Alive(p) \/ IsThread(p), p # InitPid,
             (main_pid' = main_pid /\ main_pid # p) \/ main_pid' = 0
      PROVE  Family'
  <2>1. \A q \in Pids : q # p => proc'[q] = proc[q]
    BY <1>t, <1>0
  <2>2. proc'[p] = Free
    BY <1>t, <1>0
  <2>3. \A q \in Pids : proc[q].parent \in Pids => proc[q].parent # p \/ proc[q] = Free \/ proc[q].parent = InitPid
    BY <1>0, <1>t DEF Family
  <2>4. ASSUME NEW c \in Pids, proc'[c] # Free, proc'[c].parent \notin {0, InitPid}
        PROVE  LET r == proc'[c].parent
               IN  /\ proc'[r].state = "alive" /\ proc'[r].leader = r
                 /\ proc'[r].start < proc'[c].start
    <3>1. proc'[c] = proc[c] /\ proc[c].parent \in Pids /\ proc[c].parent # p
      BY <1>t, <2>1, <2>2, <2>3, <2>4 DEF Process
    <3> QED
      BY <2>1, <2>4, <3>1 DEF Family, Alive, IsThread
  <2>5. main_pid' # 0 => main_pid' # InitPid /\ proc'[main_pid'] # Free /\ proc'[main_pid'].leader = main_pid'
    BY <1>0, <1>t, <2>1 DEF Family, IsThread
  <2> QED
    BY <1>0, <1>t, <2>1, <2>4, <2>5 DEF Family, Alive, IsThread
<1>1. CASE Exit(p)
  <2>1. p # InitPid /\ Alive(p) /\ main_pid' = main_pid
    BY <1>1 DEF Exit, Fixed
  <2>2. CASE IsThread(p)
    <3>1. main_pid # p \/ main_pid = 0
      BY <2>2 DEF Family
    <3> QED
      BY <1>0, <1>1, <1>t, <2>1, <2>2, <3>1 DEF Exit
  <2>3. CASE ~IsThread(p)
    BY <1>1, <2>1, <2>3, EndedFamily DEF Exit, IsThread
  <2> QED
    BY <2>2, <2>3
<1>2. CASE Reap(p)
  <2>1. ~Alive(p) /\ p # InitPid
    BY <1>2 DEF Reap, Alive, Family
  <2> QED
    BY <1>0, <1>2, <2>1 DEF Reap
<1>3. CASE SetUid(p)
  <2>1. PICK u \in Uids :
          proc' = [q \in Pids |-> IF proc[q].leader = p THEN [proc[q] EXCEPT !.uid = u]
                                  ELSE proc[q]]
    BY <1>3 DEF SetUid
  <2>2. \A q \in Pids : /\ proc'[q].start = proc[q].start /\ proc'[q].state = proc[q].state
                        /\ proc'[q].leader = proc[q].leader /\ proc'[q].parent = proc[q].parent
    <3>1. \A q \in Pids : proc[q].leader = p => proc[q] \in Process
      BY <1>t DEF Free
    <3> QED
      BY <2>1, <3>1 DEF Process
  <2>3. \A q \in Pids : proc'[q] = Free <=> proc[q] = Free
    <3>1. \A q \in Pids : proc[q] = Free <=> proc[q].state = "free"
      BY <1>t DEF Free, Process
    <3>2. \A q \in Pids : proc[q] = Free => proc'[q] = Free
      BY <1>t, <2>1 DEF Free
    <3>3. \A q \in Pids : proc'[q] = Free => proc'[q].state = "free"
      BY DEF Free
    <3> QED
      BY <2>2, <3>1, <3>2, <3>3
  <2>4. main_pid' = main_pid
    BY <1>3 DEF SetUid
  <2>5. \A c \in Pids : proc[c] # Free /\ proc[c].parent # 0 => proc[c].parent \in Pids
    BY <1>t DEF Process
  <2> QED
    BY <1>t, <2>2, <2>3, <2>4, <2>5 DEF Family, Alive, IsThread
<1> QED
  BY <1>1, <1>2, <1>3

\* In every reachable state a process that is not PID 1's child has a living, older parent.
LEMMA FamilyHolds == Spec => []Family
<1>1. Init => Family
  BY PidsAssumption DEF Init, Family, Fixed, Free
<1>2. ASSUME IndInv, Family, [Next]_vars PROVE Family'
  <2>1. CASE Kernel
    BY <1>2, <2>1, SpawnFamily, KernelFamily DEF Kernel
  <2>2. CASE UNCHANGED <<proc, main_pid>>
    BY <1>2, <2>2 DEF Family, Alive, IsThread
  <2>3. ASSUME NEW a \in Acts, Send(a) PROVE Family'
    <3>1. main_pid' = main_pid /\ target[a].pid \in Pids
      BY <1>2, <2>3 DEF Send, IndInv, Pinning, Target
    <3>2. proc' = proc \/ (Alive(target[a].pid) /\ proc[target[a].pid].leader # InitPid
                           /\ proc' = Ended(target[a].pid))
      BY <2>3 DEF Send, Deliver
    <3> QED
      BY <1>2, <2>2, <3>1, <3>2, EndedFamily
  <2> QED
    BY <1>2, <2>1, <2>2, <2>3 DEF Next, Poll, PollList, PollStat, PollStatus, Update, MoveCursor,
        Key, Press, Confirm, Cancel, Task, RuntimeRoot, RuntimeChildren, Check, ReadStat,
        ReadStatus, Wait, kernelVars, vars
<1> QED
  BY <1>1, <1>2, Inductive, PTL DEF Spec

------------------------------------------------------------------------------
(* What is never signalled.                                                *)

\* Nothing that leaves the actions alone, gives PIDs only to new processes, and a
\* process no other parent than PID 1, can break it.
LEMMA GuardKept ==
    ASSUME IndInv, Family, Family', NEW a \in Acts, GuardedAct(a), clock' \in Nat, clock <= clock',
           main_pid' \in Pids \cup {0},
           \A p \in Pids : \/ proc'[p] = Free
                           \/ /\ proc[p] # Free /\ proc'[p].start = proc[p].start
                              /\ proc'[p].leader = proc[p].leader
                              /\ proc'[p].parent \in {proc[p].parent, InitPid}
                           \/ proc'[p].start = clock' /\ clock < clock',
           main_pid' \in {0, main_pid} \/ (proc'[main_pid'].start = clock' /\ clock < clock'),
           act[a] = "idle" <=> act'[a] = "idle",
           act'[a] \in {"stat", "status", "send"} => act'[a] = act[a],
           act'[a] \in {"tree", "armed"} => act'[a] = act[a],
           act'[a] # "walk" => act[a] # "walk",
           target'[a] = target[a], runtime'[a] = runtime[a], unlisted'[a] = unlisted[a],
           mark'[a] = mark[a], whole'[a] = whole[a]
    PROVE  GuardedAct(a)'
<1>t. clock \in Nat /\ proc \in [Pids -> Process \cup {Free}] /\ runtime[a] \subseteq Pids
      /\ mark[a] \in Nat /\ 0 \notin Pids
  BY PidsAssumption DEF IndInv, TypeOK
<1>1. ASSUME There(a)'
      PROVE  There(a) /\ proc'[target[a].pid].leader = proc[target[a].pid].leader
  <2>1. act[a] # "idle" /\ target[a].pinned /\ proc'[target[a].pid] # Free
        /\ proc'[target[a].pid].start = target[a].fd
    BY <1>1 DEF There
  <2>2. target[a] \in Target /\ target[a].fd <= clock
    BY <2>1 DEF IndInv, Pinning, ReadOf
  <2>3. target[a].pid \in Pids /\ target[a].fd \in Nat
    BY <2>2, PidsAssumption DEF Target
  <2>4. ~(target[a].fd = clock' /\ clock < clock')
    BY <1>t, <2>2, <2>3
  <2> QED
    BY <2>1, <2>3, <2>4 DEF There
<1>2. ASSUME whole[a] PROVE Walked(a)'
  <2>w. Walked(a)
    BY <1>2 DEF GuardedAct
  <2>1. main_pid' # 0 => main_pid' \in runtime[a] \/ proc'[main_pid'].start > mark[a]
    <3> SUFFICES ASSUME main_pid' # 0
                 PROVE  main_pid' \in runtime[a] \/ proc'[main_pid'].start > mark[a]
      OBVIOUS
    <3>1. main_pid' \in Pids /\ proc'[main_pid'] # Free
      BY DEF Family
    <3>2. CASE main_pid' = main_pid
      BY <1>t, <2>w, <3>1, <3>2 DEF Walked
    <3>3. CASE proc'[main_pid'].start = clock' /\ clock < clock'
      BY <1>t, <2>w, <3>3 DEF Walked
    <3> QED
      BY <3>2, <3>3
  <2>2. ASSUME NEW p \in Pids, proc'[p].leader = p,
               proc'[p].parent \in runtime[a] \ unlisted[a]
        PROVE  p \in runtime[a] \/ proc'[p].start > mark[a]
    <3>1. proc'[p] # Free
      BY <1>t, <2>2 DEF Free
    <3>2. CASE /\ proc[p] # Free /\ proc'[p].start = proc[p].start
               /\ proc'[p].leader = proc[p].leader
               /\ proc'[p].parent \in {proc[p].parent, InitPid}
      <4>1. proc'[p].parent = proc[p].parent /\ ~IsThread(p)
        BY <2>2, <2>w, <3>2 DEF Walked, IsThread
      <4> QED
        BY <2>2, <2>w, <3>2, <4>1 DEF Walked
    <3>3. CASE proc'[p].start = clock' /\ clock < clock'
      BY <1>t, <2>w, <3>3 DEF Walked
    <3> QED
      BY <3>1, <3>2, <3>3
  <2>3. mark[a] <= clock'
    BY <1>t, <2>w DEF Walked
  <2> QED
    BY <2>w, <2>1, <2>2, <2>3 DEF Walked, IsThread
<1>3. act'[a] \in {"idle", "armed", "tree"} => act[a] \in {"idle", "armed", "tree"}
  OBVIOUS
<1> QED
  BY <1>1, <1>2, <1>3 DEF GuardedAct

\* A process table whose every entry is as it was, but for the state and a parent that
\* ended.
LEMMA EndedSame ==
    ASSUME IndInv, NEW p \in Pids
    PROVE  \A q \in Pids : \/ Ended(p)[q] = Free
                           \/ /\ proc[q] # Free /\ Ended(p)[q].start = proc[q].start
                              /\ Ended(p)[q].leader = proc[q].leader
                              /\ Ended(p)[q].parent \in {proc[q].parent, InitPid}
                              /\ Ended(p)[q].state = "alive" => proc[q].state = "alive"
                              /\ Ended(p)[q].uid = proc[q].uid
<1> SUFFICES ASSUME NEW q \in Pids, Ended(p)[q] # Free
             PROVE  /\ proc[q] # Free /\ Ended(p)[q].start = proc[q].start
                    /\ Ended(p)[q].leader = proc[q].leader
                    /\ Ended(p)[q].parent \in {proc[q].parent, InitPid}
                    /\ Ended(p)[q].state = "alive" => proc[q].state = "alive"
                    /\ Ended(p)[q].uid = proc[q].uid
  OBVIOUS
<1>1. proc[q] # Free /\ Ended(p)[q] \in {proc[q], [proc[q] EXCEPT !.state = "zombie"],
                                         [proc[q] EXCEPT !.parent = InitPid]}
  BY DEF Ended
<1>2. proc[q] \in Process
  BY <1>1 DEF IndInv, TypeOK
<1> QED
  BY <1>1, <1>2 DEF Process

\* A change of uid changes nothing else, and is noted.
LEMMA SetUidSame ==
    ASSUME IndInv, NEW p \in Pids, SetUid(p)
    PROVE  \A q \in Pids : \/ proc'[q] = Free
                           \/ /\ proc[q] # Free /\ proc'[q].start = proc[q].start
                              /\ proc'[q].leader = proc[q].leader
                              /\ proc'[q].parent = proc[q].parent
                              /\ proc'[q].state = proc[q].state
                              /\ proc'[q].uid = proc[q].uid \/ proc[q].start \in setuids'
<1>1. PICK u \in Uids :
        proc' = [q \in Pids |-> IF proc[q].leader = p THEN [proc[q] EXCEPT !.uid = u]
                                ELSE proc[q]]
  BY DEF SetUid
<1>2. \A q \in Pids : proc[q].leader = p => proc[q].start \in setuids'
  BY DEF SetUid
<1>3. \A q \in Pids : proc[q] = Free => proc[q].leader # p
  BY PidsAssumption DEF Free
<1>4. \A q \in Pids : proc[q] \in Process \cup {Free}
  BY DEF IndInv, TypeOK
<1> QED
  BY <1>1, <1>2, <1>3, <1>4 DEF Process

\* The kernel's own steps.
LEMMA KernelGuard ==
    ASSUME IndInv, IndInv', Family, Family', Guarded, NEW p \in Pids,
           Spawn(p) \/ Exit(p) \/ Reap(p) \/ SetUid(p)
    PROVE  Guarded'
<1>t. /\ proc \in [Pids -> Process \cup {Free}] /\ clock \in Nat /\ clock' \in Nat
      /\ main_pid' \in Pids \cup {0}
  BY PidsAssumption DEF IndInv, TypeOK
<1>u. UNCHANGED <<act, target, runtime, unlisted, mark, whole, hits>>
  BY DEF Spawn, Exit, Reap, SetUid, actVars, treeVars
<1>p. /\ clock <= clock'
      /\ \A q \in Pids : \/ proc'[q] = Free
                         \/ /\ proc[q] # Free /\ proc'[q].start = proc[q].start
                            /\ proc'[q].leader = proc[q].leader
                            /\ proc'[q].parent \in {proc[q].parent, InitPid}
                         \/ proc'[q].start = clock' /\ clock < clock'
      /\ main_pid' \in {0, main_pid} \/ (proc'[main_pid'].start = clock' /\ clock < clock')
  <2>1. CASE Spawn(p)
    <3>1. /\ proc'[p].start = clock' /\ clock < clock'
          /\ \A q \in Pids : q # p => proc'[q] = proc[q]
          /\ main_pid' \in {0, main_pid, p}
      BY <1>t, <2>1, SpawnGives
    <3> QED
      BY <1>t, <3>1
  <2>2. CASE Exit(p)
    <3>1. proc' = [proc EXCEPT ![p] = Free] \/ proc' = Ended(p)
      BY <2>2 DEF Exit
    <3> QED
      BY <1>t, <2>2, <3>1, EndedSame DEF Exit
  <2>3. CASE Reap(p)
    BY <1>t, <2>3 DEF Reap
  <2>4. CASE SetUid(p)
    <3>1. clock' = clock /\ main_pid' = main_pid
      BY <2>4 DEF SetUid
    <3> QED
      BY <1>t, <2>4, <3>1, SetUidSame
  <2> QED
    BY <2>1, <2>2, <2>3, <2>4
<1>1. SparesInitAndSelf' /\ SparesKnownRuntime'
  BY <1>u DEF Guarded, SparesInitAndSelf, SparesKnownRuntime
<1>2. ASSUME HasPidfd, NEW a \in Acts PROVE GuardedAct(a)'
  <2>1. GuardedAct(a)
    BY <1>2 DEF Guarded
  <2> QED
    BY <1>p, <1>t, <1>u, <2>1, GuardKept
<1> QED
  BY <1>1, <1>2 DEF Guarded

\* Steps of one action leave the guards of the others as they are.
LEMMA OthersGuarded ==
    ASSUME IndInv, Guarded, HasPidfd, NEW a \in Acts, NEW l \in Places,
           act' = [act EXCEPT ![a] = l],
           UNCHANGED <<proc, clock, main_pid>>,
           \A b \in Acts \ {a} :
               /\ target'[b] = target[b] /\ runtime'[b] = runtime[b]
               /\ unlisted'[b] = unlisted[b] /\ mark'[b] = mark[b] /\ whole'[b] = whole[b]
    PROVE  \A b \in Acts \ {a} : GuardedAct(b)'
<1> SUFFICES ASSUME NEW b \in Acts \ {a} PROVE GuardedAct(b)'
  OBVIOUS
<1>1. GuardedAct(b) /\ act'[b] = act[b] /\ target'[b] = target[b] /\ runtime'[b] = runtime[b]
      /\ unlisted'[b] = unlisted[b] /\ mark'[b] = mark[b] /\ whole'[b] = whole[b]
  BY DEF Guarded, IndInv, TypeOK
<1>2. Walked(b)' <=> Walked(b)
  BY <1>1 DEF Walked, IsThread
<1> QED
  BY <1>1, <1>2 DEF GuardedAct, There

\* At selection: a pidfd is only opened of a process, never of a thread.
LEMMA PressGuard ==
    ASSUME IndInv, Guarded, NEW a \in Acts, NEW sig \in {"TERM", "KILL"}, Press(a, sig)
    PROVE  Guarded'
<1> USE DEF kernelVars, pollVars, tuiVars, treeVars
<1>1. PICK r \in SelectedRows : \E t \in SelectRow(r, sig) : target' = [target EXCEPT ![a] = t]
  BY DEF Press
<1>2. PICK t \in SelectRow(r, sig) : target' = [target EXCEPT ![a] = t]
  BY <1>1
<1>0. PICK l \in {"tree", "armed"} : act' = [act EXCEPT ![a] = l]
  BY DEF Press, Goto
<1>3. /\ act[a] = "idle"
      /\ UNCHANGED <<proc, clock, main_pid, treeVars, hits>>
  BY DEF Press
<1>4. act'[a] = l /\ target'[a] = t
  BY <1>0, <1>2 DEF IndInv, TypeOK
<1>5. \A b \in Acts : b # a => target'[b] = target[b]
  BY <1>2 DEF IndInv, TypeOK
<1>6. SparesInitAndSelf' /\ SparesKnownRuntime'
  BY <1>3 DEF Guarded, SparesInitAndSelf, SparesKnownRuntime
<1>7. ASSUME HasPidfd, NEW b \in Acts, b # a PROVE GuardedAct(b)'
  BY <1>0, <1>3, <1>5, <1>7, OthersGuarded DEF Places
<1>8. ASSUME HasPidfd PROVE GuardedAct(a)'
  <2>1. /\ t.pid = r.pid
        /\ t.pinned \/ t.open_error # "none"
        /\ t.pinned => proc[r.pid] # Free /\ ~IsThread(r.pid)
    <3> DEFINE base == [pid |-> r.pid, start |-> r.start, uid |-> r.uid, fd |-> 0,
                        pinned |-> FALSE, open_error |-> "none", sig |-> sig, chosen |-> chosen]
    <3>1. CASE t = [base EXCEPT !.open_error = "changed"]
      BY <3>1
    <3>2. CASE t = [base EXCEPT !.open_error = "signal"]
      BY <3>2
    <3>3. CASE /\ proc[r.pid] # Free /\ ~IsThread(r.pid)
               /\ t = [base EXCEPT !.fd = proc[r.pid].start, !.pinned = TRUE]
      BY <3>3
    <3> QED
      BY <1>2, <1>8, <3>1, <3>2, <3>3 DEF SelectRow
  <2>2. ~whole[a] /\ unlisted[a] = {}
    BY <1>3, <1>8 DEF Guarded, GuardedAct
  <2> QED
    BY <1>3, <1>4, <2>1, <2>2 DEF GuardedAct, There, IsThread
<1> QED
  BY <1>6, <1>7, <1>8 DEF Guarded

\* An action that goes on without signalling and without a look at the runtime: past
\* `check` it must have passed it.
LEMMA GuardGoesOn ==
    ASSUME IndInv, Guarded, NEW a \in Acts, NEW l \in Places \ {"idle", "walk"},
           act[a] \notin {"idle", "walk"}, l \in {"armed", "tree"} => act[a] \in {"armed", "tree"},
           HasPidfd /\ l \in {"stat", "status", "send"} =>
               target[a].open_error = "none" /\ target[a].pid \notin Fixed \cup runtime[a],
           act' = [act EXCEPT ![a] = l],
           UNCHANGED <<kernelVars, target, treeVars, hits>>
    PROVE  Guarded'
<1> USE DEF kernelVars, treeVars
<1>1. act'[a] = l
  BY DEF IndInv, TypeOK
<1>2. SparesInitAndSelf' /\ SparesKnownRuntime'
  BY DEF Guarded, SparesInitAndSelf, SparesKnownRuntime
<1>3. ASSUME HasPidfd, NEW b \in Acts, b # a PROVE GuardedAct(b)'
  BY <1>3, OthersGuarded
<1>4. ASSUME HasPidfd PROVE GuardedAct(a)'
  <2>1. GuardedAct(a) /\ (There(a)' <=> There(a))
    BY <1>1, <1>4 DEF Guarded, There
  <2>2. Walked(a)' <=> Walked(a)
    BY DEF Walked, IsThread
  <2> QED
    BY <1>1, <1>4, <2>1, <2>2 DEF GuardedAct
<1> QED
  BY <1>2, <1>3, <1>4 DEF Guarded

\* runtime_tree: a tree is whole as long as nothing has failed.
LEMMA TreeGuard ==
    ASSUME IndInv, Family, Guarded, HasPidfd, NEW a \in Acts, RuntimeRoot(a) \/ RuntimeChildren(a)
    PROVE  Guarded'
<1> USE DEF kernelVars
<1>t. /\ runtime[a] \subseteq Pids /\ unlisted[a] \subseteq Pids /\ main_pid \in Pids \cup {0}
      /\ 0 \notin Pids /\ clock \in Nat /\ act[a] \in {"tree", "walk"} /\ act[a] # "idle"
  BY PidsAssumption DEF IndInv, TypeOK, RuntimeRoot, RuntimeChildren
<1>g. GuardedAct(a)
  BY DEF Guarded
<1>u. UNCHANGED <<proc, clock, main_pid, target, hits>>
  BY DEF RuntimeRoot, RuntimeChildren
<1>0. PICK l \in {"check", "walk"} : act' = [act EXCEPT ![a] = l]
  BY DEF RuntimeRoot, RuntimeChildren, Goto
<1>l. act'[a] = l
  BY <1>0 DEF IndInv, TypeOK
<1>1. \A b \in Acts \ {a} :
         /\ target'[b] = target[b] /\ runtime'[b] = runtime[b]
         /\ unlisted'[b] = unlisted[b] /\ mark'[b] = mark[b] /\ whole'[b] = whole[b]
  BY DEF RuntimeRoot, RuntimeChildren, IndInv, TypeOK
<1>2. \A b \in Acts \ {a} : GuardedAct(b)'
  BY <1>0, <1>1, <1>u, OthersGuarded DEF Places
<1>3. SparesInitAndSelf'
  BY <1>u DEF Guarded, SparesInitAndSelf
<1>4. SparesKnownRuntime'
  <2>1. \A h \in hits : h.act # a /\ h.act \in Acts
    BY <1>t DEF IndInv, Pinning, TypeOK, Hit
  <2> QED
    BY <1>1, <1>u, <2>1 DEF Guarded, SparesKnownRuntime
<1>5. ASSUME l # "walk" => unlisted'[a] = {}, whole'[a] => Walked(a)'
      PROVE  GuardedAct(a)'
  <2>1. There(a)' <=> There(a)
    BY <1>l, <1>t, <1>u DEF There
  <2> QED
    BY <1>5, <1>g, <1>l, <1>t, <1>u, <2>1 DEF GuardedAct
<1>6. CASE RuntimeRoot(a)
  <2>1. PICK root \in {{main_pid} \ {0}, {}} :
          /\ runtime' = [runtime EXCEPT ![a] = root]
          /\ unlisted' = [unlisted EXCEPT ![a] = root]
          /\ whole' = [whole EXCEPT ![a] = (root = {main_pid} \ {0})]
          /\ act' = [act EXCEPT ![a] = IF root = {} THEN "check" ELSE "walk"]
    BY <1>6 DEF RuntimeRoot, Goto
  <2>2. /\ runtime'[a] = root /\ unlisted'[a] = root /\ whole'[a] = (root = {main_pid} \ {0})
        /\ act'[a] = IF root = {} THEN "check" ELSE "walk"
    BY <2>1 DEF IndInv, TypeOK
  <2>3. mark'[a] = clock
    BY <1>6 DEF RuntimeRoot, IndInv, TypeOK
  <2>4. l # "walk" => unlisted'[a] = {}
    BY <1>l, <2>2
  <2>5. ASSUME whole'[a] PROVE Walked(a)'
    <3>1. root = {main_pid} \ {0}
      BY <2>2, <2>5
    <3>2. InitPid \notin root /\ 0 \notin root /\ (main_pid # 0 => main_pid \in root)
      BY <3>1, <1>t DEF Family
    <3>3. target[a].pinned => target[a].fd <= clock
      BY <1>t DEF IndInv, Pinning, ReadOf
    <3> QED
      BY <1>t, <1>u, <2>2, <2>3, <3>2, <3>3 DEF Walked
  <2> QED
    BY <1>2, <1>3, <1>4, <1>5, <2>4, <2>5 DEF Guarded
<1>7. CASE RuntimeChildren(a)
  <2>1. PICK q \in unlisted[a] :
          LET children == {p \in Pids : ~IsThread(p) /\ proc[p].parent = q} \ runtime[a]
          IN  \E read \in SUBSET children :
                 /\ runtime' = [runtime EXCEPT ![a] = @ \cup read]
                 /\ unlisted' = [unlisted EXCEPT ![a] = (@ \ {q}) \cup read]
                 /\ whole' = [whole EXCEPT ![a] = @ /\ read = children]
    BY <1>7 DEF RuntimeChildren
  <2> DEFINE children == {p \in Pids : ~IsThread(p) /\ proc[p].parent = q} \ runtime[a]
  <2>2. PICK read \in SUBSET children :
          /\ runtime' = [runtime EXCEPT ![a] = @ \cup read]
          /\ unlisted' = [unlisted EXCEPT ![a] = (@ \ {q}) \cup read]
          /\ whole' = [whole EXCEPT ![a] = @ /\ read = children]
    BY <2>1
  <2>3. /\ runtime'[a] = runtime[a] \cup read /\ unlisted'[a] = (unlisted[a] \ {q}) \cup read
        /\ whole'[a] = (whole[a] /\ read = children) /\ mark'[a] = mark[a]
    BY <1>7, <2>2 DEF RuntimeChildren, IndInv, TypeOK
  <2>4. l # "walk" => unlisted'[a] = {}
    BY <1>7, <1>l DEF RuntimeChildren, Goto, IndInv, TypeOK
  <2>5. ASSUME whole'[a] PROVE Walked(a)'
    <3>1. Walked(a) /\ read = children
      BY <1>g, <2>3, <2>5 DEF GuardedAct
    <3>2. InitPid \notin read
      BY <1>t DEF Family
    <3>3. ASSUME NEW p \in Pids, ~IsThread(p), proc[p].parent \in runtime'[a] \ unlisted'[a]
          PROVE  p \in runtime'[a] \/ proc[p].start > mark[a]
      <4>1. proc[p].parent = q \/ proc[p].parent \in runtime[a] \ unlisted[a]
        BY <2>3, <3>3
      <4>2. proc[p].parent = q => p \in runtime'[a]
        BY <2>3, <3>1, <3>3
      <4> QED
        BY <2>3, <3>1, <3>3, <4>1, <4>2 DEF Walked
    <3> HIDE DEF children
    <3> QED
      BY <1>u, <2>3, <3>1, <3>2, <3>3 DEF Walked, IsThread
  <2> QED
    BY <1>2, <1>3, <1>4, <1>5, <2>4, <2>5 DEF Guarded
<1> QED
  BY <1>6, <1>7

\* Everything an action does but the signal itself.
LEMMA ActionGuard ==
    ASSUME IndInv, Family, Guarded, NEW a \in Acts,
           \/ Confirm(a) \/ Cancel(a) \/ RuntimeRoot(a) \/ RuntimeChildren(a) \/ Check(a)
           \/ ReadStat(a) \/ ReadStatus(a) \/ Wait(a)
    PROVE  Guarded'
<1> USE DEF actVars, Goto, Finish
<1>n. CASE ~HasPidfd
  BY <1>n DEF Guarded, SparesInitAndSelf, SparesKnownRuntime
<1>h. CASE HasPidfd
  <2>g. GuardedAct(a)
    BY <1>h DEF Guarded
  <2>1. CASE Confirm(a)
    BY <2>1, GuardGoesOn DEF Confirm, Places
  <2>2. CASE Cancel(a)
    BY <2>2, GuardGoesOn DEF Cancel, Places
  <2>3. CASE RuntimeRoot(a) \/ RuntimeChildren(a)
    BY <1>h, <2>3, TreeGuard
  <2>4. CASE Check(a)
    <3>1. act[a] = "check" /\ UNCHANGED <<kernelVars, target, treeVars, hits>>
      BY <2>4 DEF Check
    <3>2. \/ act' = [act EXCEPT ![a] = "done"]
          \/ /\ act' = [act EXCEPT ![a] = "stat"]
             /\ target[a].open_error = "none"
             /\ target[a].pid \notin Fixed \cup runtime[a]
      BY <2>4 DEF Check
    <3> QED
      BY <3>1, <3>2, GuardGoesOn DEF Places
  <2>5. CASE ReadStat(a)
    <3>1. act[a] = "stat" /\ UNCHANGED <<kernelVars, target, treeVars, hits>>
      BY <2>5 DEF ReadStat
    <3>2. PICK l \in {"done", "status"} : act' = [act EXCEPT ![a] = l]
      BY <2>5 DEF ReadStat
    <3> QED
      BY <2>g, <3>1, <3>2, GuardGoesOn DEF Places, GuardedAct
  <2>6. CASE ReadStatus(a)
    <3>1. act[a] = "status" /\ UNCHANGED <<kernelVars, target, treeVars, hits>>
      BY <2>6 DEF ReadStatus
    <3>2. PICK l \in {"done", "send"} : act' = [act EXCEPT ![a] = l]
      BY <2>6 DEF ReadStatus
    <3> QED
      BY <2>g, <3>1, <3>2, GuardGoesOn DEF Places, GuardedAct
  <2>7. CASE Wait(a)
    <3>1. act[a] = "wait" /\ UNCHANGED <<kernelVars, target, treeVars, hits>>
      BY <2>7 DEF Wait
    <3>2. act' = [act EXCEPT ![a] = "done"]
      BY <2>7 DEF Wait
    <3> QED
      BY <3>1, <3>2, GuardGoesOn DEF Places
  <2> QED
    BY <2>1, <2>2, <2>3, <2>4, <2>5, <2>6, <2>7
<1> QED
  BY <1>n, <1>h

\* Every descendant of the unit's main process is in the tree that was read, or younger
\* than the walk.
LEMMA TreeIsWhole ==
    ASSUME IndInv, Family, NEW a \in Acts, Walked(a), unlisted[a] = {},
           NEW p \in Pids, proc[p].start <= mark[a], p \notin runtime[a]
    PROVE  ~Descends(p)
<1> DEFINE T == runtime[a] \cup {q \in Pids : proc[q].start > mark[a]}
<1>t. /\ proc \in [Pids -> Process \cup {Free}] /\ runtime[a] \subseteq Pids /\ mark[a] \in Nat
      /\ main_pid \in Pids \cup {0} /\ 0 \notin Pids /\ InitPid \in Pids
  BY PidsAssumption DEF IndInv, TypeOK, Fixed
<1>n. \A q \in Pids : proc[q].start \in Nat
  BY <1>t, PidsAssumption DEF Process, Free
<1>1. T \in SUBSET Pids
  BY <1>t
<1>2. main_pid # 0 => main_pid \in T
  BY <1>t DEF Walked
<1>3. ASSUME NEW q \in Pids, ~IsThread(q), proc[q].parent \in T PROVE q \in T
  <2>1. CASE proc[q].parent \in runtime[a]
    BY <1>3, <2>1 DEF Walked
  <2>2. CASE proc[q].parent \in Pids /\ proc[proc[q].parent].start > mark[a]
    <3>1. proc[q] # Free /\ proc[q].parent # 0
      BY <1>t, <2>2 DEF Free
    <3>2. proc[q].parent # InitPid
      BY <1>t, <2>2 DEF Family
    <3>3. proc[proc[q].parent].start < proc[q].start
      BY <3>1, <3>2 DEF Family
    <3>4. proc[q].start > mark[a]
      BY <1>n, <1>t, <2>2, <3>3
    <3> QED
      BY <3>4
  <2> QED
    BY <1>3, <2>1, <2>2
<1>4. p \notin T
  BY <1>n, <1>t
<1> HIDE DEF T
<1> QED
  BY <1>1, <1>2, <1>3, <1>4 DEF Descends

\* The signal: with pidfd support there is a pidfd by now, so whom it reaches
\* is whom `check` has let pass.
LEMMA SendGuard ==
    ASSUME IndInv, IndInv', Family, Family', Guarded, NEW a \in Acts, Send(a)
    PROVE  Guarded'
<1> DEFINE t == target[a]
           hit == [act |-> a, sig |-> t.sig, pid |-> t.pid, start |-> proc[t.pid].start,
                   leader |-> proc[t.pid].leader, linked |-> Descends(proc[t.pid].leader)]
<1>n. CASE ~HasPidfd
  BY <1>n DEF Guarded, SparesInitAndSelf, SparesKnownRuntime
<1>h. CASE HasPidfd
  <2>1. act[a] = "send" /\ UNCHANGED <<target, treeVars, clock, main_pid, setuids>>
    BY DEF Send
  <2>2. GuardedAct(a) /\ t.pinned /\ t.pid \in Pids
    BY <1>h, <2>1 DEF Guarded, GuardedAct, IndInv, Pinning, Target
  <2>3. CASE Finish(a, "signal") /\ UNCHANGED <<proc, hits>>
    <3>1. act' = [act EXCEPT ![a] = "done"]
      BY <2>3 DEF Finish, Goto
    <3> QED
      BY <2>1, <2>3, <3>1, GuardGoesOn DEF Places, kernelVars
  <2>4. CASE proc[t.pid] # Free /\ (t.pinned => proc[t.pid].start = t.fd) /\ Deliver(a, t.pid)
    <3>1. PICK l \in {"wait", "done"} : act' = [act EXCEPT ![a] = l]
      BY <2>4 DEF Deliver, Finish, Goto
    <3>2. act'[a] = l /\ \A b \in Acts : b # a => act'[b] = act[b]
      BY <3>1 DEF IndInv, TypeOK
    <3>3. hits' = hits \cup {hit}
      BY <2>4 DEF Deliver
    <3>4. There(a)
      BY <2>1, <2>2, <2>4 DEF There
    <3>5. proc[t.pid].leader = t.pid /\ t.pid \notin Fixed \cup runtime[a] /\ unlisted[a] = {}
      BY <2>1, <2>2, <3>4 DEF GuardedAct
    <3>6. whole[a] => ~Descends(t.pid)
      <4>1. whole[a] => Walked(a) /\ proc[t.pid].start <= mark[a]
        BY <2>2, <2>4 DEF GuardedAct, Walked
      <4> QED
        BY <2>2, <3>5, <4>1, TreeIsWhole
    <3>7. SparesInitAndSelf'
      BY <3>3, <3>5 DEF Guarded, SparesInitAndSelf
    <3>8. SparesKnownRuntime'
      <4>1. hit.act = a /\ hit.linked = Descends(t.pid)
        BY <3>5
      <4>2. \A h \in hits : whole[h.act] => ~h.linked
        BY <1>h DEF Guarded, SparesKnownRuntime
      <4> HIDE DEF hit
      <4> QED
        BY <2>1, <3>3, <3>6, <4>1, <4>2 DEF SparesKnownRuntime, treeVars
    <3>9. \A q \in Pids : \/ proc'[q] = Free
                          \/ /\ proc[q] # Free /\ proc'[q].start = proc[q].start
                             /\ proc'[q].leader = proc[q].leader
                             /\ proc'[q].parent \in {proc[q].parent, InitPid}
      <4>1. proc' = proc \/ proc' = Ended(t.pid)
        BY <2>4 DEF Deliver
      <4> QED
        BY <2>2, <4>1, EndedSame
    <3>10. ASSUME NEW b \in Acts PROVE GuardedAct(b)'
      <4>1. /\ act[b] = "idle" <=> act'[b] = "idle"
            /\ act'[b] \in {"stat", "status", "send"} => act'[b] = act[b]
            /\ act'[b] \in {"tree", "armed"} => act'[b] = act[b]
            /\ act'[b] # "walk" => act[b] # "walk"
        BY <2>1, <3>2
      <4>2. GuardedAct(b)
        BY <1>h DEF Guarded
      <4>3. clock' \in Nat /\ clock <= clock' /\ main_pid' \in Pids \cup {0} /\ main_pid' = main_pid
        BY <2>1 DEF IndInv, TypeOK
      <4> QED
        BY <2>1, <3>9, <4>1, <4>2, <4>3, GuardKept DEF treeVars
    <3> QED
      BY <3>7, <3>8, <3>10 DEF Guarded
  <2> QED
    BY <2>3, <2>4 DEF Send
<1> QED
  BY <1>n, <1>h

\* No signal is sent to anyone that Guarded says is spared.
THEOREM GuardInductive == Spec => []Guarded
<1>1. Init => Guarded
  BY DEF Init, Guarded, GuardedAct, There, SparesInitAndSelf, SparesKnownRuntime
<1>2. ASSUME IndInv, IndInv', Family, Family', Guarded, [Next]_vars PROVE Guarded'
  <2>1. CASE Kernel
    BY <1>2, <2>1, KernelGuard DEF Kernel
  <2>2. CASE Poll \/ MoveCursor \/ UNCHANGED vars
    <3>1. UNCHANGED <<proc, clock, main_pid, act, target, runtime, unlisted, mark, whole, hits>>
      BY <2>2 DEF Poll, PollList, PollStat, PollStatus, Update, MoveCursor, vars, kernelVars,
                  actVars, treeVars
    <3>2. \A a \in Acts : Walked(a)' <=> Walked(a)
      BY <3>1 DEF Walked, IsThread
    <3> QED
      BY <1>2, <3>1, <3>2 DEF Guarded, GuardedAct, There, SparesInitAndSelf, SparesKnownRuntime
  <2>3. ASSUME NEW a \in Acts, Key(a) PROVE Guarded'
    BY <1>2, <2>3, PressGuard, ActionGuard DEF Key
  <2>4. ASSUME NEW a \in Acts, Task(a) PROVE Guarded'
    BY <1>2, <2>4, ActionGuard, SendGuard DEF Task
  <2> QED
    BY <1>2, <2>1, <2>2, <2>3, <2>4 DEF Next
<1> QED
  BY <1>1, <1>2, Inductive, FamilyHolds, PTL DEF Spec

\* With pidfd support no signal reaches PID 1, saltnitor, one of their threads or, if
\* neither systemctl nor a read of /proc failed, a process that then descends from the
\* unit's main process, for any PIDs, users and actions.
THEOREM ProtectedSpared == Spec => []SparesProtected
<1>1. Guarded => SparesProtected
  BY DEF Guarded, SparesProtected
<1> QED
  BY <1>1, GuardInductive, PTL

------------------------------------------------------------------------------
(* What is reported.                                                       *)

\* An action that does not move, while processes keep their starts and do not come to
\* life again, and changes of uid are noted.
LEMMA ActKept ==
    ASSUME IndInv, Told, NEW a \in Acts, clock' \in Nat, clock <= clock',
           setuids \subseteq setuids', misread \subseteq misread',
           \A p \in Pids :
              \/ proc'[p] = Free
              \/ /\ proc[p] # Free /\ proc'[p].start = proc[p].start
                 /\ proc'[p].state = "alive" => proc[p].state = "alive"
                 /\ proc'[p].uid = proc[p].uid \/ proc[p].start \in setuids'
              \/ proc'[p].start = clock' /\ clock < clock',
           act'[a] = act[a], target'[a] = target[a], result'[a] = result[a],
           Signals(a)' = Signals(a)
    PROVE  TrueReport(a)' /\ Traced(a)'
<1>g. TrueReport(a) /\ Traced(a)
  BY DEF Told, ReportsAreTrue
<1>s. Signals(a)' = Signals(a)
  OBVIOUS
<1>1. CASE act[a] = "idle"
  <2>1. result[a] = "none"
    BY <1>g, <1>1 DEF Traced
  <2> QED
    BY <1>1, <2>1 DEF TrueReport, Traced
<1>2. CASE act[a] # "idle"
  <2> DEFINE p == target[a].pid
  <2>1. target[a] \in Target /\ ReadOf(p, target[a].start)
    BY <1>g, <1>2 DEF IndInv, Pinning, Traced
  <2>2. p \in Pids /\ target[a].start \in Nat /\ clock \in Nat /\ target[a].start <= clock
    BY <2>1, PidsAssumption DEF Target, IndInv, TypeOK, ReadOf
  <2> HIDE DEF p
  <2>3. ~(target[a].start = clock' /\ clock < clock')
    BY <2>2
  <2>4. Same(a)' => /\ Same(a)
                    /\ proc'[p].state = "alive" => proc[p].state = "alive"
                    /\ proc'[p].uid = proc[p].uid \/ target[a].start \in setuids'
    BY <2>2, <2>3 DEF Same, p
  <2>5. ReadOf(p, target[a].start)'
    <3>1. proc[p] # Free => target[a].start <= proc[p].start
      BY <2>1 DEF ReadOf
    <3>2. proc'[p] # Free => target[a].start <= proc'[p].start
      BY <2>2, <3>1
    <3> QED
      BY <2>2, <3>2 DEF ReadOf, p
  <2>6. TrueReport(a)'
    <3>1. result[a] = "exited" /\ Same(a)' /\ proc'[p].state = "alive"
              => target[a].start \in setuids' \/ a \in misread'
      BY <1>g, <2>4 DEF TrueReport, Alive, p
    <3> QED
      BY <1>g, <1>s, <3>1 DEF TrueReport, Alive, p
  <2>7. Traced(a)'
    <3>1. act[a] \in {"send", "wait"} /\ Same(a)' =>
             proc'[p].uid = target[a].uid \/ target[a].start \in setuids'
      BY <1>g, <2>4 DEF Traced, p
    <3> QED
      BY <1>g, <1>s, <2>5, <3>1 DEF Traced, p
  <2> QED
    BY <2>6, <2>7
<1> QED
  BY <1>1, <1>2

\* So the kernel breaks nothing.
LEMMA ToldKept ==
    ASSUME IndInv, Told, clock' \in Nat, clock <= clock',
           setuids \subseteq setuids', misread \subseteq misread',
           \A p \in Pids :
              \/ proc'[p] = Free
              \/ /\ proc[p] # Free /\ proc'[p].start = proc[p].start
                 /\ proc'[p].state = "alive" => proc[p].state = "alive"
                 /\ proc'[p].uid = proc[p].uid \/ proc[p].start \in setuids'
              \/ proc'[p].start = clock' /\ clock < clock',
           UNCHANGED <<act, target, result, hits>>
    PROVE  Told'
<1> SUFFICES ASSUME NEW a \in Acts PROVE TrueReport(a)' /\ Traced(a)'
  BY DEF Told, ReportsAreTrue
<1>1. Signals(a)' = Signals(a)
  BY DEF Signals
<1> QED
  BY <1>1, ActKept

\* What the kernel does between two reads makes no report untrue.
LEMMA KernelTold ==
    ASSUME IndInv, Told, NEW p \in Pids, Spawn(p) \/ Exit(p) \/ Reap(p) \/ SetUid(p)
    PROVE  Told'
<1> USE PidsAssumption DEF actVars
<1>t. proc \in [Pids -> Process \cup {Free}] /\ clock \in Nat
  BY DEF IndInv, TypeOK
<1>1. CASE Spawn(p)
  <2>1. /\ proc'[p].start = clock' /\ clock' = clock + 1
        /\ \A q \in Pids : q # p => proc'[q] = proc[q]
    BY <1>1, SpawnGives
  <2>2. UNCHANGED <<setuids, act, target, result, misread, hits>>
    BY <1>1 DEF Spawn
  <2>3. clock' \in Nat /\ clock < clock'
    BY <1>t, <2>1
  <2>4. \A q \in Pids : \/ proc'[q] = Free
                        \/ /\ proc[q] # Free /\ proc'[q].start = proc[q].start
                           /\ proc'[q].state = "alive" => proc[q].state = "alive"
                           /\ proc'[q].uid = proc[q].uid \/ proc[q].start \in setuids'
                        \/ proc'[q].start = clock' /\ clock < clock'
    BY <2>1, <2>3
  <2> QED
    BY <1>t, <2>2, <2>3, <2>4, ToldKept
<1>3. CASE Exit(p)
  <2>1. proc' = [proc EXCEPT ![p] = Free] \/ proc' = Ended(p)
    BY <1>3 DEF Exit
  <2> QED
    BY <1>3, <1>t, <2>1, EndedSame, ToldKept DEF Exit
<1>4. CASE Reap(p)
  BY <1>4, <1>t, ToldKept DEF Reap
<1>5. CASE SetUid(p)
  <2>1. setuids \subseteq setuids' /\ clock' = clock
    BY <1>5 DEF SetUid
  <2>2. UNCHANGED <<act, target, result, misread, hits>>
    BY <1>5 DEF SetUid
  <2>3. \A q \in Pids : \/ proc'[q] = Free
                        \/ /\ proc[q] # Free /\ proc'[q].start = proc[q].start
                           /\ proc'[q].state = proc[q].state
                           /\ proc'[q].uid = proc[q].uid \/ proc[q].start \in setuids'
    BY <1>5, SetUidSame
  <2> QED
    BY <1>t, <2>1, <2>2, <2>3, ToldKept
<1> QED
  BY <1>1, <1>3, <1>4, <1>5

\* At selection the row's start was read of its PID.
LEMMA PressTold ==
    ASSUME IndInv, Told, NEW a \in Acts, NEW sig \in {"TERM", "KILL"}, Press(a, sig)
    PROVE  Told'
<1> USE DEF kernelVars
<1>1. PICK r \in SelectedRows : \E t \in SelectRow(r, sig) : target' = [target EXCEPT ![a] = t]
  BY DEF Press
<1>2. PICK t \in SelectRow(r, sig) : target' = [target EXCEPT ![a] = t]
  BY <1>1
<1>3. /\ act[a] = "idle"
      /\ act' = [act EXCEPT ![a] = IF sig = "TERM" THEN "tree" ELSE "armed"]
      /\ UNCHANGED <<kernelVars, result, misread, hits>>
  BY DEF Press, Goto
<1>4. act'[a] \in {"tree", "armed"} /\ target'[a] = t
  BY <1>2, <1>3 DEF IndInv, TypeOK
<1>5. \A b \in Acts : b # a => act'[b] = act[b] /\ target'[b] = target[b]
  BY <1>2, <1>3 DEF IndInv, TypeOK
<1>6. t.pid = r.pid /\ t.start = r.start
  <2> DEFINE base == [pid |-> r.pid, start |-> r.start, uid |-> r.uid, fd |-> 0,
                      pinned |-> FALSE, open_error |-> "none", sig |-> sig, chosen |-> chosen]
  <2>1. CASE t = base
    BY <2>1
  <2>2. CASE t = [base EXCEPT !.open_error = "changed"]
    BY <2>2
  <2>3. CASE t = [base EXCEPT !.open_error = "signal"]
    BY <2>3
  <2>4. CASE t = [base EXCEPT !.fd = proc[r.pid].start, !.pinned = TRUE]
    BY <2>4
  <2> QED
    BY <1>2, <2>1, <2>2, <2>3, <2>4 DEF SelectRow
<1>7. ReadOf(r.pid, r.start)
  BY DEF SelectedRows, IndInv, Pinning
<1>8. ASSUME NEW b \in Acts, b # a PROVE TrueReport(b)' /\ Traced(b)'
  <2>1. TrueReport(b) /\ Traced(b) /\ Signals(b)' = Signals(b)
    BY <1>3 DEF Told, ReportsAreTrue, Signals
  <2> QED
    BY <1>3, <1>5, <1>8, <2>1 DEF TrueReport, Traced, Same, Alive, ReadOf
<1>9. TrueReport(a)' /\ Traced(a)'
  <2>1. result[a] = "none"
    BY <1>3 DEF Told, Traced
  <2> QED
    BY <1>3, <1>4, <1>6, <1>7, <2>1 DEF TrueReport, Traced, ReadOf
<1> QED
  BY <1>8, <1>9 DEF Told, ReportsAreTrue

\* An action that goes on or ends without a signal.
LEMMA ToldGoesOn ==
    ASSUME IndInv, Told, NEW a \in Acts, NEW l \in Places \ {"idle", "wait"}, NEW o \in Results,
           act[a] \notin {"idle", "done"}, act' = [act EXCEPT ![a] = l],
           result' = [result EXCEPT ![a] = o], o # "sent", l # "done" => o = "none",
           o \in {"exited", "still_running"} => act[a] = "wait",
           act[a] = "wait" => o \in {"exited", "still_running"},
           o = "exited" /\ Same(a) /\ Alive(target[a].pid)
               => target[a].start \in setuids \/ a \in misread',
           misread \subseteq misread',
           l = "send" /\ Same(a)
               => proc[target[a].pid].uid = target[a].uid \/ target[a].start \in setuids,
           UNCHANGED <<kernelVars, target, hits>>
    PROVE  Told'
<1> USE DEF kernelVars
<1>1. act'[a] = l /\ result'[a] = o
      /\ \A b \in Acts : b # a => act'[b] = act[b] /\ result'[b] = result[b]
  BY DEF IndInv, TypeOK
<1>2. ASSUME NEW b \in Acts
      PROVE  Signals(b)' = Signals(b) /\ TrueReport(b) /\ Traced(b)
  BY DEF Told, ReportsAreTrue, Signals
<1>3. ASSUME NEW b \in Acts, b # a PROVE TrueReport(b)' /\ Traced(b)'
  BY <1>1, <1>2, <1>3 DEF TrueReport, Traced, Same, Alive, ReadOf
<1>4. act[a] # "wait" => Signals(a) = {}
  BY DEF Signals, IndInv, Pinning
<1>5. TrueReport(a)'
  BY <1>1, <1>2, <1>4 DEF TrueReport, Traced, Same, Alive
<1>6. Traced(a)'
  BY <1>1, <1>2 DEF Traced, Same, ReadOf
<1> QED
  BY <1>3, <1>5, <1>6 DEF Told, ReportsAreTrue

\* Everything an action does but the signal itself.
LEMMA ActionTold ==
    ASSUME IndInv, Told, NEW a \in Acts,
           \/ Confirm(a) \/ Cancel(a) \/ RuntimeRoot(a) \/ RuntimeChildren(a) \/ Check(a)
           \/ ReadStat(a) \/ ReadStatus(a) \/ Wait(a)
    PROVE  Told'
<1> USE DEF actVars, Goto, Finish, Places, Results
<1> DEFINE p == target[a].pid
<1>g. Traced(a)
  BY DEF Told
<1>n. /\ act[a] # "done" => result[a] = "none"
      /\ UNCHANGED result /\ act[a] # "done" => result' = [result EXCEPT ![a] = "none"]
  BY <1>g DEF Traced, IndInv, TypeOK
<1>1. CASE Confirm(a)
  BY <1>n, <1>1, ToldGoesOn DEF Confirm
<1>2. CASE Cancel(a)
  BY <1>2, ToldGoesOn DEF Cancel
<1>3. CASE RuntimeRoot(a) \/ RuntimeChildren(a)
  <2>1. /\ act[a] \in {"tree", "walk"} /\ UNCHANGED <<kernelVars, target, result, misread, hits>>
        /\ \E l \in {"check", "walk"} : act' = [act EXCEPT ![a] = l]
    BY <1>3 DEF RuntimeRoot, RuntimeChildren
  <2> QED
    BY <1>n, <2>1, ToldGoesOn
<1>4. CASE Check(a)
  <2>1. act[a] = "check" /\ UNCHANGED <<kernelVars, target, misread, hits>>
    BY <1>4 DEF Check
  <2>2. target[a].open_error \in {"none", "changed", "signal"}
    BY <2>1 DEF IndInv, Pinning, Target, Errors
  <2>3. CASE act' = [act EXCEPT ![a] = "stat"] /\ UNCHANGED result
    BY <1>n, <2>1, <2>3, ToldGoesOn
  <2>4. CASE \E o \in {"protected", "changed", "signal"} :
                /\ act' = [act EXCEPT ![a] = "done"] /\ result' = [result EXCEPT ![a] = o]
    BY <2>1, <2>4, ToldGoesOn
  <2> QED
    BY <1>4, <2>2, <2>3, <2>4 DEF Check
<1>5. CASE ReadStat(a)
  <2>1. act[a] = "stat" /\ UNCHANGED <<kernelVars, target, misread, hits>>
    BY <1>5 DEF ReadStat
  <2>2. CASE act' = [act EXCEPT ![a] = "status"] /\ UNCHANGED result
    BY <1>n, <2>1, <2>2, ToldGoesOn
  <2>3. CASE act' = [act EXCEPT ![a] = "done"] /\ result' = [result EXCEPT ![a] = "changed"]
    BY <2>1, <2>3, ToldGoesOn
  <2> QED
    BY <1>5, <2>2, <2>3 DEF ReadStat
<1>6. CASE ReadStatus(a)
  <2>1. act[a] = "status" /\ UNCHANGED <<kernelVars, target, misread, hits>>
    BY <1>6 DEF ReadStatus
  <2>2. CASE act' = [act EXCEPT ![a] = "send"] /\ UNCHANGED result
             /\ proc[p].uid = target[a].uid
    BY <1>n, <2>1, <2>2, ToldGoesOn
  <2>3. CASE \E o \in {"protected", "changed"} :
                /\ act' = [act EXCEPT ![a] = "done"] /\ result' = [result EXCEPT ![a] = o]
    BY <2>1, <2>3, ToldGoesOn
  <2> QED
    BY <1>6, <2>2, <2>3 DEF ReadStatus
<1>7. CASE Wait(a)
  <2>1. act[a] = "wait" /\ UNCHANGED <<kernelVars, target, hits>>
        /\ act' = [act EXCEPT ![a] = "done"]
    BY <1>7 DEF Wait
  <2>2. PICK now \in Readings(p) :
          /\ result' = [result EXCEPT ![a] =
               IF [start |-> target[a].start, uid |-> target[a].uid] \in now
               THEN "still_running" ELSE "exited"]
          /\ misread' = IF now = Identity(p) THEN misread ELSE misread \cup {a}
    BY <1>7 DEF Wait
  <2>3. CASE [start |-> target[a].start, uid |-> target[a].uid] \in now
    BY <2>1, <2>2, <2>3, ToldGoesOn
  <2>4. CASE [start |-> target[a].start, uid |-> target[a].uid] \notin now
    <3>1. result' = [result EXCEPT ![a] = "exited"] /\ misread \subseteq misread'
      BY <2>2, <2>4
    <3>2. now # Identity(p) => a \in misread'
      BY <2>2
    <3>3. now = Identity(p) /\ Same(a) /\ Alive(p) => proc[p].uid # target[a].uid
      BY <2>4 DEF Same, Identity
    <3>4. Same(a) /\ Alive(p) => target[a].start \in setuids \/ a \in misread'
      BY <1>g, <2>1, <3>2, <3>3 DEF Traced
    <3> QED
      BY <2>1, <3>1, <3>4, ToldGoesOn
  <2> QED
    BY <2>3, <2>4
<1> QED
  BY <1>1, <1>2, <1>3, <1>4, <1>5, <1>6, <1>7

\* The signal: it is the action's first.
LEMMA SendTold ==
    ASSUME IndInv, Told, NEW a \in Acts, Send(a)
    PROVE  Told'
<1> DEFINE t == target[a]
           p == t.pid
           hit == [act |-> a, sig |-> t.sig, pid |-> p, start |-> proc[p].start,
                   leader |-> proc[p].leader, linked |-> Descends(proc[p].leader)]
<1>1. act[a] = "send" /\ UNCHANGED <<target, clock, main_pid, setuids, misread>>
  BY DEF Send
<1>2. t \in Target /\ p \in Pids /\ t.sig \in {"TERM", "KILL"} /\ Traced(a)
  BY <1>1 DEF IndInv, Pinning, Target, Told
<1>3. CASE Finish(a, "signal") /\ UNCHANGED <<proc, hits>>
  BY <1>1, <1>3, ToldGoesOn DEF Finish, Goto, Places, Results, kernelVars
<1>4. CASE proc[p] # Free /\ Deliver(a, p)
  <2>1. hits' = hits \cup {hit}
    BY <1>4 DEF Deliver
  <2>2. Signals(a) = {}
    BY <1>1 DEF Signals, IndInv, Pinning
  <2>3. Signals(a)' = {t.sig} /\ \A b \in Acts : b # a => Signals(b)' = Signals(b)
    <3>1. hit.act = a /\ hit.sig = t.sig
      OBVIOUS
    <3> HIDE DEF hit
    <3>2. \A h \in hits : h.act # a
      BY <2>2 DEF Signals
    <3>3. \A h \in hits' : h \in hits \/ h = hit
      BY <2>1
    <3>4. {x \in hits' : x.act = a} = {hit}
      BY <2>1, <3>1, <3>2
    <3>5. Signals(a)' = {h.sig : h \in {hit}}
      BY <3>4 DEF Signals
    <3>6. ASSUME NEW b \in Acts, b # a PROVE Signals(b)' = Signals(b)
      <4>1. {x \in hits' : x.act = b} = {x \in hits : x.act = b}
        BY <2>1, <3>1, <3>6
      <4> QED
        BY <4>1 DEF Signals
    <3> QED
      BY <3>1, <3>5, <3>6
  <2>4. \/ t.sig = "KILL" /\ act' = [act EXCEPT ![a] = "done"] /\ result' = [result EXCEPT ![a] = "sent"]
        \/ t.sig = "TERM" /\ act' = [act EXCEPT ![a] = "wait"] /\ result' = result /\ proc' = proc
    BY <1>2, <1>4 DEF Deliver, Finish, Goto
  <2>5. \A b \in Acts : b # a => act'[b] = act[b] /\ result'[b] = result[b]
    BY <2>4 DEF IndInv, TypeOK
  <2>6. \A q \in Pids : \/ proc'[q] = Free
                        \/ /\ proc[q] # Free /\ proc'[q].start = proc[q].start
                           /\ proc'[q].state = "alive" => proc[q].state = "alive"
                           /\ proc'[q].uid = proc[q].uid
    BY <1>2, <1>4, EndedSame DEF Deliver
  <2>7. clock' \in Nat /\ clock <= clock'
    BY <1>1 DEF IndInv, TypeOK
  <2>8. ASSUME NEW b \in Acts, b # a PROVE TrueReport(b)' /\ Traced(b)'
    BY <1>1, <2>3, <2>5, <2>6, <2>7, <2>8, ActKept
  <2>9. ReadOf(p, t.start)'
    <3>1. ReadOf(p, t.start)
      BY <1>1, <1>2 DEF Traced
    <3> QED
      BY <1>1, <1>2, <2>6, <3>1 DEF ReadOf
  <2>10. CASE t.sig = "KILL" /\ act' = [act EXCEPT ![a] = "done"] /\ result' = [result EXCEPT ![a] = "sent"]
    <3>1. act'[a] = "done" /\ result'[a] = "sent"
      BY <2>10 DEF IndInv, TypeOK
    <3> QED
      BY <1>1, <2>3, <2>8, <2>9, <2>10, <3>1 DEF Told, ReportsAreTrue, TrueReport, Traced
  <2>11. CASE t.sig = "TERM" /\ act' = [act EXCEPT ![a] = "wait"] /\ result' = result /\ proc' = proc
    <3>1. act'[a] = "wait" /\ result'[a] = "none"
      BY <1>1, <1>2, <2>11 DEF IndInv, TypeOK, Traced
    <3>2. TrueReport(a)' /\ Traced(a)'
      BY <1>1, <1>2, <2>3, <2>9, <2>11, <3>1 DEF TrueReport, Traced, Same
    <3> QED
      BY <2>8, <3>2 DEF Told, ReportsAreTrue
  <2> QED
    BY <2>4, <2>10, <2>11
<1> QED
  BY <1>3, <1>4 DEF Send

\* What was told is true, and why, in every reachable state.
LEMMA ToldHolds == Spec => []Told
<1>1. Init => Told
  BY DEF Init, Told, ReportsAreTrue, TrueReport, Traced
<1>2. IndInv /\ Told /\ [Next]_vars => Told'
  <2> SUFFICES ASSUME IndInv, Told, [Next]_vars PROVE Told'
    OBVIOUS
  <2>1. CASE Kernel
    BY <2>1, KernelTold DEF Kernel
  <2>2. CASE Poll \/ MoveCursor \/ UNCHANGED vars
    <3>1. UNCHANGED <<proc, clock, setuids, act, target, result, misread, hits>>
      BY <2>2 DEF Poll, PollList, PollStat, PollStatus, Update, MoveCursor, vars, kernelVars,
                  actVars
    <3> QED
      BY <3>1 DEF Told, ReportsAreTrue, TrueReport, Traced, Signals, Same, Alive, ReadOf
  <2>3. ASSUME NEW a \in Acts, Key(a) PROVE Told'
    BY <2>3, PressTold, ActionTold DEF Key
  <2>4. ASSUME NEW a \in Acts, Task(a) PROVE Told'
    BY <2>4, ActionTold, SendTold DEF Task
  <2> QED
    BY <2>1, <2>2, <2>3, <2>4 DEF Next
<1> QED
  BY <1>1, <1>2, Inductive, PTL DEF Spec

\* What process control tells the operator of an action is what happened, however PIDs
\* are reused meanwhile.
THEOREM TruthTold == Spec => []ReportsAreTrue
<1>1. Told => ReportsAreTrue
  BY DEF Told
<1> QED
  BY <1>1, ToldHolds, PTL

------------------------------------------------------------------------------
(* That actions come to an end.                                            *)

\* What is still to be walked is in the tree.
LEMMA WalkInTree == Spec => [](\A a \in Acts : unlisted[a] \subseteq runtime[a])
<1> DEFINE In == \A a \in Acts : unlisted[a] \subseteq runtime[a]
<1>1. Init => In
  BY DEF Init
<1>2. ASSUME IndInv, In, [Next]_vars PROVE In'
  <2>1. CASE UNCHANGED <<runtime, unlisted>>
    BY <1>2, <2>1
  <2>2. ASSUME NEW a \in Acts, RuntimeRoot(a) \/ RuntimeChildren(a) PROVE In'
    <3>1. \A b \in Acts : b # a => runtime'[b] = runtime[b] /\ unlisted'[b] = unlisted[b]
      BY <1>2, <2>2 DEF RuntimeRoot, RuntimeChildren, IndInv, TypeOK
    <3>2. unlisted'[a] \subseteq runtime'[a]
      BY <1>2, <2>2 DEF RuntimeRoot, RuntimeChildren, IndInv, TypeOK
    <3> QED
      BY <1>2, <3>1, <3>2
  <2> HIDE DEF In
  <2> QED
    BY <1>2, <2>1, <2>2 DEF Next, Kernel, Spawn, Exit, Reap, SetUid, Poll, PollList, PollStat,
        PollStatus, Update, MoveCursor, Key, Press, Confirm, Cancel, Task, Check, ReadStat,
        ReadStatus, Send, Wait, vars, actVars, treeVars
<1> QED
  BY <1>1, <1>2, Inductive, PTL DEF Spec

\* One turn of the walk reads the children of a PID it had not read before.
LEMMA WalkGoesOn ==
    ASSUME IndInv, NEW a \in Acts, unlisted[a] \subseteq runtime[a], RuntimeChildren(a)
    PROVE  Listed(a) \subseteq Listed(a)' /\ Listed(a) # Listed(a)'
<1>1. PICK q \in unlisted[a], read \in SUBSET Pids :
         /\ read \cap runtime[a] = {}
         /\ runtime' = [runtime EXCEPT ![a] = @ \cup read]
         /\ unlisted' = [unlisted EXCEPT ![a] = (@ \ {q}) \cup read]
  <2> DEFINE Children(q) == {p \in Pids : ~IsThread(p) /\ proc[p].parent = q} \ runtime[a]
  <2>1. \E q \in unlisted[a] : \E read \in SUBSET Children(q) :
           /\ runtime' = [runtime EXCEPT ![a] = @ \cup read]
           /\ unlisted' = [unlisted EXCEPT ![a] = (@ \ {q}) \cup read]
    BY Zenon DEF RuntimeChildren
  <2>2. \A q : Children(q) \subseteq Pids /\ Children(q) \cap runtime[a] = {}
    OBVIOUS
  <2> QED
    <3> HIDE DEF Children
    <3> QED
      BY <2>1, <2>2
<1>2. runtime'[a] = runtime[a] \cup read /\ unlisted'[a] = (unlisted[a] \ {q}) \cup read
  BY <1>1 DEF IndInv, TypeOK
<1>3. q \in runtime[a] /\ q \notin read
  BY <1>1
<1>4. q \in Listed(a)' /\ q \notin Listed(a)
  BY <1>2, <1>3 DEF Listed
<1> QED
  BY <1>1, <1>2, <1>4 DEF Listed

\* Every action goes through its steps once, from the key press to the report, the walk
\* over the runtime's tree takes no more turns than there are PIDs, and the report
\* stands: nothing is tried again (terminate_guarded, kill_guarded, runtime_tree).
THEOREM ActionsEnd == Spec => OnlyForward
<1> DEFINE Walks == \A a \in Acts : unlisted[a] \subseteq runtime[a]
           On == \A a \in Acts :
                    /\ act'[a] = act[a] \/ Place[act'[a]] > Place[act[a]]
                    /\ Task(a) /\ act'[a] = act[a] =>
                          Listed(a) \subseteq Listed(a)' /\ Listed(a) # Listed(a)'
                    /\ result[a] # "none" => result'[a] = result[a]
<1>1. ASSUME IndInv, Told, Walks, [Next]_vars PROVE [On]_vars
  <2>0. /\ act \in [Acts -> Places] /\ result \in [Acts -> Results]
        /\ \A a \in Acts : act[a] # "done" => result[a] = "none"
    BY <1>1 DEF IndInv, TypeOK, Told, Traced
\* A task either walks on or leaves its place.
  <2>1. ASSUME NEW a \in Acts, Task(a), act'[a] = act[a]
        PROVE  Listed(a) \subseteq Listed(a)' /\ Listed(a) # Listed(a)'
    <3>1. ~(RuntimeRoot(a) \/ Check(a) \/ ReadStat(a) \/ ReadStatus(a) \/ Send(a) \/ Wait(a))
      BY <2>0, <2>1 DEF RuntimeRoot, Check, ReadStat, ReadStatus, Send, Deliver, Wait, Goto, Finish
    <3>2. RuntimeChildren(a) /\ unlisted[a] \subseteq runtime[a]
      BY <1>1, <2>1, <3>1 DEF Task
    <3> QED
      BY <1>1, <3>2, WalkGoesOn
  <2>2. ASSUME NEW a \in Acts, NEW l \in Places, act' = [act EXCEPT ![a] = l],
               act[a] # "done", l = act[a] \/ Place[l] > Place[act[a]],
               result' = result \/ \E o : result' = [result EXCEPT ![a] = o]
        PROVE  \A b \in Acts : /\ act'[b] = act[b] \/ Place[act'[b]] > Place[act[b]]
                               /\ result[b] # "none" => result'[b] = result[b]
    BY <2>0, <2>2
  <2>3. CASE UNCHANGED <<act, result>>
    BY <2>0, <2>1, <2>3
  <2>4. ASSUME NEW a \in Acts, NEW from \in Places \ {"done"}, act[a] = from,
               \E l \in Places : Goto(a, l) /\ (l = from \/ Place[l] > Place[from]),
               result' = result \/ \E o : result' = [result EXCEPT ![a] = o]
        PROVE  On
    BY <2>1, <2>2, <2>4 DEF Goto
  <2> HIDE DEF On
  <2>5. CASE Kernel \/ Poll \/ MoveCursor \/ UNCHANGED vars
    BY <2>3, <2>5 DEF Kernel, Spawn, Exit, Reap, SetUid, Poll, PollList, PollStat, PollStatus,
        Update, MoveCursor, actVars, vars
  <2>6. ASSUME NEW a \in Acts, Key(a) PROVE On
    BY <2>4, <2>6 DEF Key, Press, Confirm, Cancel, Goto, Finish, Places, Place, actVars
  <2>7. ASSUME NEW a \in Acts, Task(a) PROVE On
    <3>1. CASE RuntimeRoot(a) \/ RuntimeChildren(a)
      BY <2>4, <3>1 DEF RuntimeRoot, RuntimeChildren, Goto, Places, Place
    <3>2. CASE Check(a) \/ ReadStat(a)
      BY <2>4, <3>2 DEF Check, ReadStat, Goto, Finish, Places, Place
    <3>3. CASE ReadStatus(a) \/ Wait(a)
      BY <2>4, <3>3 DEF ReadStatus, Wait, Goto, Finish, Places, Place
    <3>4. CASE Send(a)
      BY <2>4, <3>4 DEF Send, Deliver, Goto, Finish, Places, Place
    <3> QED
      BY <2>7, <3>1, <3>2, <3>3, <3>4 DEF Task
  <2> QED
    BY <1>1, <2>5, <2>6, <2>7 DEF Next
<1> QED
  BY <1>1, Inductive, ToldHolds, WalkInTree, PTL DEF Spec, OnlyForward

\* One key press, one signal: an action never signals twice, nor two processes.
THEOREM SignalledOnce == Spec => []OneSignal
<1>1. ASSUME IndInv, OneSignal, [Next]_vars PROVE OneSignal'
  <2>1. CASE UNCHANGED hits
    BY <1>1, <2>1 DEF OneSignal
  <2>2. ASSUME NEW a \in Acts, Send(a), hits' # hits PROVE OneSignal'
    <3>1. act[a] = "send" /\ Deliver(a, target[a].pid)
      BY <2>2 DEF Send
    <3>2. \A h \in hits : act[h.act] \in {"wait", "done"}
      BY <1>1 DEF IndInv, Pinning
    <3>3. PICK new : new.act = a /\ hits' = hits \cup {new}
      BY <3>1 DEF Deliver
    <3> QED
      BY <1>1, <3>1, <3>2, <3>3 DEF OneSignal
  <2> QED
    BY <1>1, <2>1, <2>2 DEF Next, Kernel, Spawn, Exit, Reap, SetUid, Poll, PollList, PollStat,
        PollStatus, Update, MoveCursor, Key, Press, Confirm, Cancel, Task, RuntimeRoot,
        RuntimeChildren, Check,
        ReadStat, ReadStatus, Wait, vars
<1>2. Init => OneSignal
  BY DEF Init, OneSignal
<1> QED
  BY <1>1, <1>2, Inductive, PTL DEF Spec
=============================================================================
