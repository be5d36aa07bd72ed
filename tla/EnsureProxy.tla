----------------------------- MODULE EnsureProxy -----------------------------
(***************************************************************************)
(* The guarded path of the control API (control_api.rs): every ensure,     *)
(* ensure/stream and chat request takes `ensure_lock`, asks the router     *)
(* what is loaded, asks the oracle, warm-loads the preset, tells the TUI   *)
(* and lets go of the lock; a chat request is then forwarded to the        *)
(* router with no lock held.  Beside it runs the unguarded path: the TUI's *)
(* hot-swap (hotswap.rs, main.rs), which warm-loads through the router     *)
(* directly.  The router (llama-server --models-max) is external: what is  *)
(* modelled is what the repository's stand-in, tools/fake-llama-server,    *)
(* does with its list of loaded models.                                    *)
(*                                                                         *)
(* One step is what happens between two awaits of one task.                *)
(***************************************************************************)
EXTENDS Naturals, Sequences, SequencesExt

CONSTANTS
    Requests,      \* handler invocations, each used once
    Swaps,         \* hot-swap tasks the TUI spawns, each used once
    Names,         \* every model name a caller may write
    Profiles,      \* names with oracle metadata ([profiles] of the config)
    RouterModels,  \* names the router has a preset for
    Kinds,         \* which of the three endpoints are called
    Forces,        \* the values of the `force` field that are sent
    ModelsMax,     \* the router's --models-max
    ChanCap,       \* capacity of the event channel to the TUI
    NeedVram, NeedRam,          \* footprint estimates per profile
    ReserveVram, ReserveRam,    \* headroom kept free
    TotalVram, TotalRam,        \* what the box has
    UnknownVram,   \* the total assumed when nvidia-smi cannot be asked
    NoModel,       \* the TUI's "None"
    NoOne          \* nobody holds the lock

Callers == Requests \cup Swaps

ASSUME SetsAssumption ==
    /\ Profiles \subseteq Names
    /\ RouterModels \subseteq Names
    /\ Requests \cap Swaps = {}
    /\ NoModel \notin Names
    /\ NoOne \notin Callers
    /\ Kinds \subseteq {"ensure", "stream", "chat"}
    /\ Forces \subseteq BOOLEAN
    /\ FALSE \in Forces

ASSUME NumbersAssumption ==
    /\ ModelsMax \in Nat \ {0}
    /\ ChanCap \in Nat \ {0}
    /\ NeedVram \in [Profiles -> Nat]
    /\ NeedRam \in [Profiles -> Nat]
    /\ {ReserveVram, ReserveRam, TotalVram, TotalRam, UnknownVram} \subseteq Nat
    /\ UnknownVram <= TotalVram

VARIABLES
    pc,        \* where each request's handler is
    req,       \* what it was asked for
    outcome,   \* what it answered
    holder,    \* who holds ensure_lock
    waiters,   \* who waits for it, first come first served
    post,      \* each caller's chat POST to the router
    loaded,    \* the router's loaded models, oldest first
    spc,       \* where each hot-swap task is
    smodel,    \* the model it was spawned for
    chan,      \* events on their way to the TUI
    active,    \* the TUI's active_model
    bypassed,  \* history: models forced past the oracle or hot-swapped
    disturbed  \* history: residency changed behind the TUI's back

vars == <<pc, req, outcome, holder, waiters, post, loaded, spc, smodel,
          chan, active, bypassed, disturbed>>

ensureVars == <<pc, req, outcome, holder, waiters>>
swapVars   == <<spc, smodel>>
histVars   == <<bypassed, disturbed>>

------------------------------------------------------------------------------
(* Types.                                                                  *)

EnsureRequest == [kind : Kinds, profile : Names, force : Forces]
NoRequest == [kind |-> "none", profile |-> NoModel, force |-> FALSE]

Critical == {"probe", "oracle", "hung", "log_forced", "log_loading", "warm",
             "set_active", "log_warm"}
PcValues == Critical \cup {"new", "lock", "forward", "reply", "done"}
Outcomes == {"none", "already_resident", "loaded", "oom", "bad", "err",
             "relayed", "unhealthy", "upstream_timeout", "cancelled"}

\* "warm" and "forward": the POST is out and the router has not answered it.
PostValues == {"idle", "warm", "forward", "ok", "failed"}
Outstanding(c) == post[c] \in {"warm", "forward"}

LogLine == [type |-> "LogLine", model |-> NoModel]
ErrorEvent == [type |-> "Error", model |-> NoModel]
ActiveModelSet(m) == [type |-> "ActiveModelSet", model |-> m]
Events == {LogLine, ErrorEvent} \cup {ActiveModelSet(m) : m \in Names}

ModelOf(c) == IF c \in Requests THEN req[c].profile ELSE smodel[c]

------------------------------------------------------------------------------
(* Operators of the code.                                                  *)

\* ControlApi::oracle against a reading `v` of the box's total VRAM.
OraclePasses(p, v) == /\ NeedVram[p] + ReserveVram <= v
                      /\ NeedRam[p] + ReserveRam <= TotalRam

Fits(m) == m \in Profiles /\ OraclePasses(m, TotalVram)

\* Shared::load of the stand-in router: a loaded model stays where it is, a
\* new one goes last and the oldest make room for it.
Load(l, m) ==
    IF m \in Range(l) THEN l
    ELSE IF Len(l) < ModelsMax THEN Append(l, m)
    ELSE Append(SubSeq(l, Len(l) - ModelsMax + 2, Len(l)), m)

\* Mutant: an unbounded channel.
SendUnbounded(e) == chan' = Append(chan, e)

\* tx.send(e).await: waits for room in the bounded channel.
Send(e) == /\ Len(chan) < ChanCap
           /\ chan' = Append(chan, e)

Goto(r, l) == pc' = [pc EXCEPT ![r] = l]

\* Mutant: a request that fails forgets to give the lock back.
ReturnKeepsLock(r, o) ==
    /\ outcome' = [outcome EXCEPT ![r] = o]
    /\ holder' = IF o = "err" THEN holder ELSE NoOne
    /\ Goto(r, IF req[r].kind = "chat" /\ o \in {"already_resident", "loaded"}
               THEN "forward" ELSE "done")

\* ensure() returns `o`, which drops the guard of ensure_lock; a chat request
\* goes on to the forward when the model was there or was loaded.
Return(r, o) ==
    /\ outcome' = [outcome EXCEPT ![r] = o]
    /\ holder' = NoOne
    /\ Goto(r, IF req[r].kind = "chat" /\ o \in {"already_resident", "loaded"}
               THEN "forward" ELSE "done")

------------------------------------------------------------------------------
(* The handlers.                                                           *)

\* h_ensure, h_ensure_stream and h_chat up to the lock.  An unknown profile is
\* answered at once; h_chat never sends `force`.
Arrive(r) ==
    /\ pc[r] = "new"
    /\ \E q \in EnsureRequest :
          /\ q.kind = "chat" => ~q.force
          /\ req' = [req EXCEPT ![r] = q]
          /\ IF q.profile \in Profiles
             THEN /\ Goto(r, "lock")
                  /\ waiters' = Append(waiters, r)
                  /\ UNCHANGED outcome
             ELSE /\ Goto(r, "done")
                  /\ outcome' = [outcome EXCEPT ![r] = "bad"]
                  /\ UNCHANGED waiters
    /\ UNCHANGED <<holder, post, loaded, swapVars, chan, active, histVars>>

\* ensure_lock.lock().await: tokio's mutex serves its waiters in order.
Acquire(r) ==
    /\ pc[r] = "lock"
    /\ holder = NoOne
    /\ waiters # <<>> /\ Head(waiters) = r
    /\ holder' = r
    /\ waiters' = Tail(waiters)
    /\ Goto(r, "probe")
    /\ UNCHANGED <<req, outcome, post, loaded, swapVars, chan, active, histVars>>

\* router_loaded(): the names the router reports at this instant, or none at
\* all when the GET fails, times out or cannot be parsed.
Probe(r) ==
    /\ pc[r] = "probe"
    /\ \E names \in {Range(loaded), {}} :
          IF req[r].profile \in names
          THEN Return(r, "already_resident")
          ELSE Goto(r, "oracle") /\ UNCHANGED <<outcome, holder>>
    /\ UNCHANGED <<req, waiters, post, loaded, swapVars, chan, active, histVars>>

\* Mutant: the oracle only warns.
OracleWarns(r) ==
    /\ pc[r] = "oracle"
    /\ Goto(r, "log_loading")
    /\ UNCHANGED <<outcome, holder>>
    /\ UNCHANGED <<req, waiters, post, loaded, swapVars, chan, active, histVars>>

\* The oracle gate.  vram_total_gb() is the box's total, or next to nothing
\* when nvidia-smi cannot be run.
Oracle(r) ==
    /\ pc[r] = "oracle"
    /\ \E v \in {TotalVram, UnknownVram} :
          IF OraclePasses(req[r].profile, v)
          THEN Goto(r, "log_loading") /\ UNCHANGED <<outcome, holder>>
          ELSE IF req[r].force
          THEN Goto(r, "log_forced") /\ UNCHANGED <<outcome, holder>>
          ELSE Return(r, "oom")
    /\ UNCHANGED <<req, waiters, post, loaded, swapVars, chan, active, histVars>>

\* nvidia-smi never ends (external): vram_total_gb() waits for its output with no
\* timer, and ensure_lock is held meanwhile.
SmiHangs(r) ==
    /\ pc[r] = "oracle"
    /\ Goto(r, "hung")
    /\ UNCHANGED <<req, outcome, holder, waiters, post, loaded, swapVars, chan, active, histVars>>

\* The log line of a load forced past the oracle.
LogForced(r) ==
    /\ pc[r] = "log_forced"
    /\ Send(LogLine)
    /\ bypassed' = bypassed \cup {req[r].profile}
    /\ Goto(r, "log_loading")
    /\ UNCHANGED <<req, outcome, holder, waiters, post, loaded, swapVars,
                   active, disturbed>>

\* The "loading preset" log line, then warm_load's POST goes out.
LogLoading(r) ==
    /\ pc[r] = "log_loading"
    /\ Send(LogLine)
    /\ post' = [post EXCEPT ![r] = "warm"]
    /\ Goto(r, "warm")
    /\ UNCHANGED <<req, outcome, holder, waiters, loaded, swapVars, active, histVars>>

\* Mutant: any reply of the router is taken for success.
WarmReplyAnyStatus(r) ==
    /\ pc[r] = "warm" /\ post[r] \in {"ok", "failed"}
    /\ Goto(r, "set_active")
    /\ post' = [post EXCEPT ![r] = "idle"]
    /\ UNCHANGED <<outcome, holder, req, waiters, loaded, swapVars, chan, active, histVars>>

\* Mutant: the lock is given back as soon as the router has answered.
WarmReplyUnlocks(r) ==
    /\ pc[r] = "warm"
    /\ \/ /\ post[r] = "ok"
          /\ Goto(r, "set_active")
          /\ holder' = NoOne
          /\ UNCHANGED outcome
       \/ /\ post[r] = "failed"
          /\ Return(r, "err")
    /\ post' = [post EXCEPT ![r] = "idle"]
    /\ UNCHANGED <<req, waiters, loaded, swapVars, chan, active, histVars>>

\* warm_load returns: a success status, or an error of any kind.
WarmReply(r) ==
    /\ pc[r] = "warm"
    /\ \/ /\ post[r] = "ok"
          /\ Goto(r, "set_active")
          /\ UNCHANGED <<outcome, holder>>
       \/ /\ post[r] = "failed"
          /\ Return(r, "err")
    /\ post' = [post EXCEPT ![r] = "idle"]
    /\ UNCHANGED <<req, waiters, loaded, swapVars, chan, active, histVars>>

\* Mutant: the warm-up POST has no timeout.
NoWarmTimeout(r) == FALSE

\* The POST's 120 s are over.  The client gives up; the router does not.
WarmTimeout(r) ==
    /\ pc[r] = "warm" /\ post[r] = "warm"
    /\ Return(r, "err")
    /\ disturbed' = TRUE
    /\ UNCHANGED <<req, waiters, post, loaded, swapVars, chan, active, bypassed>>

\* The TUI is told about the swap ...
SetActive(r) ==
    /\ pc[r] = "set_active"
    /\ Send(ActiveModelSet(req[r].profile))
    /\ Goto(r, "log_warm")
    /\ UNCHANGED <<req, outcome, holder, waiters, post, loaded, swapVars,
                   active, histVars>>

\* ... and gets a log line before ensure() returns.
LogWarm(r) ==
    /\ pc[r] = "log_warm"
    /\ Send(LogLine)
    /\ Return(r, "loaded")
    /\ UNCHANGED <<req, waiters, post, loaded, swapVars, active, histVars>>

\* forward(): the request's own bytes go to the router, no lock held.
Forward(r) ==
    /\ pc[r] = "forward"
    /\ post' = [post EXCEPT ![r] = "forward"]
    /\ Goto(r, "reply")
    /\ UNCHANGED <<req, outcome, holder, waiters, loaded, swapVars, chan,
                   active, histVars>>

\* The router's response headers (any status) are relayed; a connection that
\* failed before them is answered with 502.
ForwardReply(r) ==
    /\ pc[r] = "reply"
    /\ \/ /\ post[r] = "ok"
          /\ outcome' = [outcome EXCEPT ![r] = "relayed"]
       \/ /\ post[r] = "failed"
          /\ \E o \in {"relayed", "unhealthy"} :
                outcome' = [outcome EXCEPT ![r] = o]
    /\ Goto(r, "done")
    /\ post' = [post EXCEPT ![r] = "idle"]
    /\ UNCHANGED <<req, holder, waiters, loaded, swapVars, chan, active, histVars>>

\* No headers within first_byte: 504, and the router is left to itself.
ForwardTimeout(r) ==
    /\ pc[r] = "reply" /\ post[r] = "forward"
    /\ outcome' = [outcome EXCEPT ![r] = "upstream_timeout"]
    /\ Goto(r, "done")
    /\ UNCHANGED <<req, holder, waiters, post, loaded, swapVars, chan, active,
                   histVars>>

\* The client disconnects and the server drops the handler's future where it
\* stands: a waiter leaves the queue, the holder's guard is dropped, a POST
\* already sent stays with the router.  ensure/stream runs in a task of its
\* own, which nobody drops.
ClientGone(r) ==
    /\ pc[r] \notin {"new", "done"}
    /\ req[r].kind # "stream"
    /\ Goto(r, "done")
    /\ outcome' = [outcome EXCEPT ![r] = "cancelled"]
    /\ IF pc[r] = "lock"
       THEN \E i \in 1..Len(waiters) : /\ waiters[i] = r
                                       /\ waiters' = RemoveAt(waiters, i)
       ELSE UNCHANGED waiters
    /\ holder' = IF holder = r THEN NoOne ELSE holder
    /\ disturbed' = (disturbed \/ pc[r] \in {"warm", "set_active"})
    /\ UNCHANGED <<req, post, loaded, swapVars, chan, active, bypassed>>

------------------------------------------------------------------------------
(* The TUI: its event loop and the hot-swap.                               *)

\* One event off the channel.  Only ActiveModelSet touches this state.
TuiRecv ==
    /\ chan # <<>>
    /\ chan' = Tail(chan)
    /\ active' = IF Head(chan).type = "ActiveModelSet" THEN Head(chan).model
                 ELSE active
    /\ UNCHANGED <<ensureVars, post, loaded, swapVars, histVars>>

\* The first non-empty model list picks an active model if there is none.
ModelsFetched ==
    /\ active = NoModel
    /\ \E m \in RouterModels : active' = m
    /\ UNCHANGED <<ensureVars, post, loaded, swapVars, chan, histVars>>

\* Enter in the hot-swap list: the TUI already shows the chosen model, and a
\* task warm-loads it with neither the lock nor the oracle.
SwapEnter(s) ==
    /\ spc[s] = "new"
    /\ \E m \in RouterModels :
          /\ smodel' = [smodel EXCEPT ![s] = m]
          /\ active' = m
          /\ bypassed' = bypassed \cup {m}
    /\ spc' = [spc EXCEPT ![s] = "warm"]
    /\ post' = [post EXCEPT ![s] = "warm"]
    /\ disturbed' = TRUE
    /\ UNCHANGED <<ensureVars, loaded, chan>>

\* hotswap::warm_load returns Ok, or an error that the TUI is sent.
SwapReply(s) ==
    /\ spc[s] = "warm"
    /\ \/ post[s] = "ok" /\ spc' = [spc EXCEPT ![s] = "set_active"]
       \/ post[s] = "failed" /\ spc' = [spc EXCEPT ![s] = "error"]
    /\ post' = [post EXCEPT ![s] = "idle"]
    /\ UNCHANGED <<ensureVars, loaded, smodel, chan, active, histVars>>

\* WARM_LOAD_TIMEOUT.
SwapTimeout(s) ==
    /\ spc[s] = "warm" /\ post[s] = "warm"
    /\ spc' = [spc EXCEPT ![s] = "error"]
    /\ UNCHANGED <<ensureVars, post, loaded, smodel, chan, active, histVars>>

\* The task's events: the new resident model and a log line, or the error.
SwapSend(s) ==
    /\ \/ /\ spc[s] = "set_active"
          /\ Send(ActiveModelSet(smodel[s]))
          /\ spc' = [spc EXCEPT ![s] = "log"]
       \/ /\ spc[s] = "log"
          /\ Send(LogLine)
          /\ spc' = [spc EXCEPT ![s] = "done"]
       \/ /\ spc[s] = "error"
          /\ Send(ErrorEvent)
          /\ spc' = [spc EXCEPT ![s] = "done"]
    /\ UNCHANGED <<ensureVars, post, loaded, smodel, active, histVars>>

------------------------------------------------------------------------------
(* The router (external).                                                  *)

\* A POST is served: its model is loaded first if it is not there, whoever
\* sent the POST and whether or not the sender still waits for the answer.
RouterServe(c) ==
    /\ Outstanding(c)
    /\ ModelOf(c) \in RouterModels
    /\ loaded' = Load(loaded, ModelOf(c))
    /\ disturbed' = (disturbed \/ (post[c] = "forward" /\ loaded' # loaded))
    /\ post' = [post EXCEPT ![c] = "ok"]
    /\ UNCHANGED <<ensureVars, swapVars, chan, active, bypassed>>

\* A POST is refused or its load fails.
RouterRefuse(c) ==
    /\ Outstanding(c)
    /\ post' = [post EXCEPT ![c] = "failed"]
    /\ UNCHANGED <<ensureVars, loaded, swapVars, chan, active, histVars>>

\* The service restarts (the tuner does that, and so does systemd).
RouterRestart ==
    /\ loaded # <<>> \/ \E c \in Callers : Outstanding(c)
    /\ loaded' = <<>>
    /\ post' = [c \in Callers |-> IF Outstanding(c) THEN "failed" ELSE post[c]]
    /\ UNCHANGED <<ensureVars, swapVars, chan, active, histVars>>

------------------------------------------------------------------------------
Init ==
    /\ pc = [r \in Requests |-> "new"]
    /\ req = [r \in Requests |-> NoRequest]
    /\ outcome = [r \in Requests |-> "none"]
    /\ holder = NoOne
    /\ waiters = <<>>
    /\ post = [c \in Callers |-> "idle"]
    /\ loaded = <<>>
    /\ spc = [s \in Swaps |-> "new"]
    /\ smodel = [s \in Swaps |-> NoModel]
    /\ chan = <<>>
    /\ active = NoModel
    /\ bypassed = {}
    /\ disturbed = FALSE

\* What the handler of a request does once it has been called.
Handle(r) ==
    \/ Acquire(r) \/ Probe(r) \/ Oracle(r) \/ LogForced(r) \/ LogLoading(r)
    \/ WarmReply(r) \/ WarmTimeout(r) \/ SetActive(r) \/ LogWarm(r)
    \/ Forward(r) \/ ForwardReply(r) \/ ForwardTimeout(r)

SwapTask(s) == SwapReply(s) \/ SwapTimeout(s) \/ SwapSend(s)

Next ==
    \/ \E r \in Requests : Arrive(r) \/ Handle(r) \/ SmiHangs(r) \/ ClientGone(r)
    \/ \E s \in Swaps : SwapEnter(s) \/ SwapTask(s)
    \/ TuiRecv \/ ModelsFetched
    \/ \E c \in Callers : RouterServe(c) \/ RouterRefuse(c)
    \/ RouterRestart

Spec == Init /\ [][Next]_vars

\* Tasks that can go on are scheduled, both POST timers fire, and the TUI
\* drains its channel.  Nothing is assumed of clients, user or router, nor that
\* nvidia-smi ends: SmiHangs may come before Oracle does.
Fairness ==
    /\ \A r \in Requests : WF_vars(Handle(r))
    /\ \A s \in Swaps : WF_vars(SwapTask(s))
    /\ WF_vars(TuiRecv)

FairSpec == Spec /\ Fairness

------------------------------------------------------------------------------
(* Properties.                                                             *)

\* Every variable holds a value of its type; the channel never exceeds its
\* capacity and the router never keeps more than ModelsMax models.
TypeOK ==
    /\ pc \in [Requests -> PcValues]
    /\ req \in [Requests -> EnsureRequest \cup {NoRequest}]
    /\ outcome \in [Requests -> Outcomes]
    /\ holder \in Requests \cup {NoOne}
    /\ waiters \in Seq(Requests)
    /\ post \in [Callers -> PostValues]
    /\ loaded \in Seq(Names) /\ Len(loaded) <= ModelsMax
    /\ spc \in [Swaps -> {"new", "warm", "set_active", "log", "error", "done"}]
    /\ smodel \in [Swaps -> Names \cup {NoModel}]
    /\ chan \in Seq(Events) /\ Len(chan) <= ChanCap
    /\ active \in Names \cup {NoModel}
    /\ bypassed \in SUBSET Names
    /\ disturbed \in BOOLEAN

\* A request is between taking ensure_lock and returning from ensure() exactly when it
\* holds the lock; ...
Alone == \A r \in Requests : pc[r] \in Critical <=> holder = r

\* ... whoever waits for it is in line, once, and nobody else is.
InLine ==
    /\ \A r \in Requests : pc[r] = "lock" <=> r \in Range(waiters)
    /\ \A i, j \in 1..Len(waiters) : waiters[i] = waiters[j] => i = j

\* Ensures are serialized, and `ensure_lock` is neither lost nor kept: whatever
\* cancellations, timeouts and errors meet, the lock is held by nobody who is not
\* there, and a caller that hangs up while waiting leaves no ticket behind that would
\* block those after it.
EnsuresSerialized == Alone /\ InLine

\* The oracle holds for the whole path: a model whose estimate does not fit is
\* resident, or on its way to the router, only if somebody forced it or picked
\* it in the hot-swap list at some time.  No interleaving of requests,
\* timeouts, disconnects and restarts lets an unforced request be the first to
\* bring it in.
OversizedOnlyByBypass ==
    /\ \A m \in Range(loaded) : Fits(m) \/ m \in bypassed
    /\ \A c \in Callers : Outstanding(c) => \/ Fits(ModelOf(c))
                                            \/ ModelOf(c) \in bypassed

\* Nothing is under way and no event is left.
Quiescent ==
    /\ \A r \in Requests : pc[r] \in {"new", "done"}
    /\ \A s \in Swaps : spc[s] \in {"new", "done"}
    /\ \A c \in Callers : ~Outstanding(c)
    /\ chan = <<>>

\* Headless swaps show in the TUI: if every load came from an ensure that
\* stayed to the end, then, once all is quiet, the model the TUI names as
\* active is a resident one.  It needs ActiveModelSet to be sent before the
\* lock is given back, or two events could overtake each other.
TuiFollowsEnsures ==
    Quiescent /\ ~disturbed /\ loaded # <<>> => active \in Range(loaded)

\* `r` waits in the oracle for an nvidia-smi that never ends, or in line behind a
\* request that does.
HeldUp(r) == /\ pc[r] \in {"lock", "hung"}
             /\ \E h \in Requests : pc[h] = "hung"

\* Every request gets an answer, however the router behaves: no lock is kept
\* by a dead handler, no waiter is forgotten, and each wait for the router has its timer.
\* The oracle's wait for nvidia-smi has none (control_api.rs:187): when that program
\* hangs, its request and those in line behind it wait as long as it does; no other
\* request does, and they go on if its client hangs up (an ensure/stream has none that could).
EveryRequestAnswered ==
    \A r \in Requests : pc[r] # "new" ~> (pc[r] = "done" \/ []HeldUp(r))

------------------------------------------------------------------------------
(* The safety half of EveryRequestAnswered: nobody waits for ever on nobody, and  *)
(* nobody goes round in circles.                                           *)

\* The POST a handler waits for is with the router, or answered.
PostedFor ==
    \A r \in Requests :
        /\ pc[r] = "warm"  => post[r] \in {"warm", "ok", "failed"}
        /\ pc[r] = "reply" => post[r] \in {"forward", "ok", "failed"}

\* The handler of `r` can take its next step: the guards of Handle.
Ready(r) ==
    \/ pc[r] = "lock" /\ holder = NoOne /\ waiters # <<>> /\ Head(waiters) = r
    \/ pc[r] \in {"probe", "oracle", "forward"}
    \/ pc[r] \in {"log_forced", "log_loading", "set_active", "log_warm"}
           /\ Len(chan) < ChanCap
    \/ pc[r] = "warm" /\ post[r] \in {"warm", "ok", "failed"}
    \/ pc[r] = "reply" /\ post[r] \in {"forward", "ok", "failed"}

\* A request under way is never stuck: its own handler can go on, or the handler that
\* holds `ensure_lock` or is first in line for it can, or an event waits for the TUI to
\* make room, or the lock's holder is in the oracle with an nvidia-smi that hangs.  No
\* answer of the router is needed for it.
SomebodyGoesOn ==
    \A r \in Requests : pc[r] \notin {"new", "done"} =>
        \/ chan # <<>>
        \/ Ready(r)
        \/ HeldUp(r)
        \/ pc[r] = "lock" /\ \E h \in {holder, Head(waiters)} : h \in Requests /\ Ready(h)

\* How far along its path a handler is.
Place == [new |-> 0, lock |-> 1, probe |-> 2, oracle |-> 3, hung |-> 4, log_forced |-> 5,
          log_loading |-> 6, warm |-> 7, set_active |-> 8, log_warm |-> 9,
          forward |-> 10, reply |-> 11, done |-> 12]

\* A handler only ever goes forward, at most twelve steps in all: nothing is tried
\* again, and no step of a request moves another.
OnlyForward ==
    [][/\ \A r \in Requests : pc'[r] = pc[r] \/ Place[pc'[r]] > Place[pc[r]]
       /\ \A r \in Requests : Handle(r) =>
              /\ pc'[r] # pc[r]
              /\ \A q \in Requests \ {r} : pc'[q] = pc[q]]_vars

------------------------------------------------------------------------------
(* The inductive invariant behind the first three.                         *)

Allowed(m) == Fits(m) \/ m \in bypassed

\* A request at work has been asked something, for a profile that exists, and
\* so has a hot-swap at work.
AskedFor ==
    /\ \A r \in Requests :
          /\ pc[r] = "new" => post[r] = "idle"
          /\ pc[r] # "new" => req[r] \in EnsureRequest
          /\ pc[r] \notin {"new", "done"} => req[r].profile \in Profiles
    /\ \A s \in Swaps : smodel[s] = NoModel <=> spc[s] = "new"
    /\ \A s \in Swaps : smodel[s] # NoModel => smodel[s] \in bypassed
    /\ \A s \in Swaps : spc[s] = "new" => post[s] = "idle"

\* A request that is past the oracle, or was told its model is there, is for a
\* model that may be loaded.
PastOracle ==
    \A r \in Requests :
        pc[r] \in {"log_loading", "warm", "set_active", "log_warm", "forward",
                   "reply"} => Allowed(req[r].profile)

\* A request has been told nothing before its ensure returns, and that its model is
\* there if it is to be forwarded.
ToldSoFar ==
    \A r \in Requests :
        /\ pc[r] = "new" => req[r] = NoRequest
        /\ pc[r] \in Critical \cup {"new", "lock"} => outcome[r] = "none"
        /\ pc[r] \in {"forward", "reply"} => outcome[r] \in {"already_resident", "loaded"}

\* The router has loaded the model of `r`, and the TUI has not been sent word of it.
Unannounced(r) == pc[r] = "set_active" \/ (pc[r] = "warm" /\ post[r] = "ok")

\* What the TUI names when it has taken all that is in the channel.
WillShow(m) ==
    \/ active = m /\ \A i \in 1..Len(chan) : chan[i].type # "ActiveModelSet"
    \/ \E i \in 1..Len(chan) :
          /\ chan[i] = ActiveModelSet(m)
          /\ \A j \in i + 1..Len(chan) : chan[j].type # "ActiveModelSet"

\* As long as nothing came behind the TUI's back, it will name a resident model, or an
\* ensure whose model is resident is still to tell it so.
TuiUpToDate ==
    /\ \A s \in Swaps : spc[s] = "new"
    /\ \A r \in Requests : post[r] = "warm" => pc[r] = "warm"
    /\ loaded # <<>> =>
          /\ \A r \in Requests : Unannounced(r) => req[r].profile \in Range(loaded)
          /\ \/ \E r \in Requests : Unannounced(r)
             \/ \E m \in Range(loaded) : WillShow(m)
InSight == disturbed \/ TuiUpToDate

\* What the proofs in EnsureProxyProofs carry from step to step: types, the
\* lock, the oracle's verdict along the path of every request, what it has been told,
\* and what the TUI is going to show.
IndInv == /\ TypeOK /\ AskedFor /\ EnsuresSerialized /\ PastOracle /\ OversizedOnlyByBypass
          /\ ToldSoFar /\ InSight

------------------------------------------------------------------------------
(* The abstract service this implements.                                   *)

\* The requests that know their model to have been resident during the call.
ReadyOutcomes == {"already_resident", "loaded", "relayed", "unhealthy",
                  "upstream_timeout"}

AnswerOf(o) ==
    IF o = "none" THEN "none"
    ELSE IF o \in ReadyOutcomes THEN "ready"
    ELSE IF o = "cancelled" THEN "gone"
    ELSE "not_ready"

Asked     == [c \in Callers |-> ModelOf(c)]
Answer    == [r \in Requests |-> AnswerOf(outcome[r])]
Knows(r)  == \/ outcome[r] \in ReadyOutcomes
             \/ pc[r] = "warm" /\ post[r] = "ok"
             \/ pc[r] \in {"set_active", "log_warm"}
Witnessed == {r \in Requests : Knows(r)}

Service == INSTANCE ResidentService WITH
    asked     <- Asked,
    answer    <- Answer,
    resident  <- Range(loaded),
    witnessed <- Witnessed

\* Every behaviour of the handlers, the hot-swap and the router is one of the
\* abstract service: "ready" is only ever said of a model that was resident
\* during the call, and only what was asked for is loaded.
ImplementsService == Service!Spec

------------------------------------------------------------------------------
(* What comments and documents say and the code does not keep.             *)

\* control_api.rs, on ensure_lock: "serialize ensures (don't fire two loads at
\* once)" -- two warm-up POSTs of ensures are never with the router together.
OneLoadAtTheRouter ==
    \A r1, r2 \in Requests :
        post[r1] = "warm" /\ post[r2] = "warm" => r1 = r2

\* control_api.rs, on h_chat: every request "first makes the requested model
\* resident (idempotent, oracle-gated, ...) and is THEN forwarded" -- the
\* forward itself never makes the router load a model that does not fit.
ForwardNeverLoadsOversized ==
    [][\A r \in Requests :
          (post[r] = "forward" /\ RouterServe(r) /\ loaded' # loaded)
              => Fits(req[r].profile)]_vars

\* events.rs, on ActiveModelSet: "the currently-resident model changed (reflects
\* headless swaps in the TUI)" -- when all is quiet the TUI names a resident
\* model.
TuiShowsResident ==
    Quiescent /\ loaded # <<>> => active \in Range(loaded)
==============================================================================
