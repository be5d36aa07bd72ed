# Saltnitor: formal models, checks and proofs

Saltnitor is a terminal dashboard for a `llama-server` router together with a
control API that makes a model resident before it forwards a chat request. This
directory holds TLA+ modules of its parts, the TLC configurations that check them
on small instances, and TLAPS proofs of what matters most for every instance.

    tlc -workers 2 -config EnsureProxy.cfg MCEnsureProxy     # one run (the runs are in PROJECT.json)
    tlapm EnsureProxyProofs.tla                              # the proofs

## 1. Inventory

| Part | Code | State | Operations | Talks to | What is hard | What makes it correct |
|---|---|---|---|---|---|---|
| Control API and its oracle | `control_api.rs` | `ensure_lock`, profiles, budgets | `ensure`, `ensure/stream`, `chat`, `status`, `models` | router (HTTP), nvidia-smi, TUI (event channel) | handlers are futures that clients drop anywhere; a lock held over 120 s POSTs and an nvidia-smi without a timeout; verdicts used after the lock | one ensure at a time; nothing that does not fit is loaded unasked; "ready" is never a lie; every request is answered |
| Hot-swap | `hotswap.rs`, `main.rs` 782-824 | the chosen model | warm-load through the router | router, event channel | takes neither the lock nor the oracle | the TUI shows what is resident |
| Router | external; stand-in `tools/fake-llama-server` | loaded models | serve, load, evict, restart | - | finishes what its callers gave up | keeps at most `--models-max` models |
| Process control | `process.rs` | target (row, pidfd), guard | select, check, send, wait, runtime tree | kernel, systemctl | PIDs are reused and processes orphaned between any two reads; each read may fail | only the chosen process is signalled; protected ones never |
| Inspectors | `app.rs` 292-424, `main.rs` 637-661, `proc_keys.rs` | rows, cursor PID, pending kill | poll, move, `x`, `X`, `y` | process control | rows are a second old | the cursor stays with its process |
| Streaming proxy | `proxy_stream.rs`, `h_chat` | deadline, `failed` | body limit, validation, header filters, ids, forward, relay | router, client, event channel | idle timer against a slow client; failure mid-stream; three filters over client's headers | a cut reply never looks complete; no abort without silence; only what was checked is forwarded |
| Authentication | `auth.rs`, `control_api.rs` 661-743 | token, last failure per peer | policy, decide, log, redact | every route, configuration | three tables that must agree; rate-limited log shared by requests | what passes is what the configuration entitles; one line per peer and second |
| TUI console, hot-swap list and log view | `main.rs` 764-888 and 973-1012, `app.rs`, `ui.rs` | input, cursor, history, lists, log, filter | keys, model lists, stream events, log lines | event channel, interrogator | lists change under cursors; a log at its limit shifts under its highlight | cursors stay inside what they index and with what they mean |
| Tuner and router.ini | `main.rs` 128-165, 663-763 | tuner fields, the file | edit, apply, restart | file system, systemctl | read-modify-write by tasks; restart between | the file holds what was applied |
| Interrogator | `interrogate.rs` | stream parser | strike, render, history file | control API, event channel | two strikes at once | the deck shows one reply |
| Event bus and pollers | `main.rs` 357-628 and 902-1068, `events.rs`, `systemctl.rs` | bounded channel, `gpu_failing`, quit | send, receive, poll, run a command, quit | every task | full channel; edge-triggered errors; commands that overlap; a task that never awaits | no key or outcome is lost; numbers go only with a reason |
| Configuration | `config_v1.rs` | - | resolve, load, validate, token | files, environment | a file that is there but no good | the daemon starts as its file says, or not |
| Errors and telemetry | `error.rs`, `gpu.rs` | - | map, parse | commands | - | each failure has its code |
| Stand-in server | `tools/fake-llama-server` | scenario, record | serve, record | tests | - | deterministic replies |
| Rendering | `ui.rs` | - | draw | terminal | - | - |
| Scripts | `scripts/`, `docs/specs/vnext/tools` | - | lint, install | - | - | - |

How the parts interact. Every background task and handler talks to the TUI through
one bounded channel of 100 events; the TUI's loop draws, takes one event, and handles
it to the end. HTTP handlers are futures: the server drops one where it stands when
its client goes away, so each `await` is a place where a request may vanish. The
router is a process of its own, reached by HTTP from the control API, the hot-swap
and the model poller, and restarted through `systemctl` by the tuner and by keys.
Process control runs as blocking tasks against the kernel. Nothing is persisted but
`router.ini` (tuner) and the console's history (written at exit).

Line numbers are those of the files under `src/src/`.

## 2. Modules

| Module | Models | Proofs | Runs |
|---|---|---|---|
| `EnsureProxy` (`MCEnsureProxy`) | control API, hot-swap, event channel, router | `EnsureProxyProofs` | `ensure`, `ensure_live`, `ensure_oracle_bypass` |
| `ResidentService` | abstract: what the control API promises about residency | `EnsureProxyProofs` | implemented by `EnsureProxy` in `ensure`, and proved |
| `Footprint` | the oracle's arithmetic and the list's own estimate, as operators | `EnsureProxyProofs` | `ensure`, through `Admission` |
| `Admission` | the profiles of `EnsureProxy` with the needs that `Footprint` estimates for their files | `EnsureProxyProofs` | `ensure`, through `MCEnsureProxy` |
| `ProcessControl` | inspectors, process control, kernel | `ProcessControlProofs` | `process` |
| `StreamRelay` | `forward` and `AbortOnError` | `ChatRequestProofs` | `stream`, through `ChatRequest` |
| `ChatRequest` (`MCChatRequest`) | one chat request: id, body, validation, headers, the answer and the note of an abort; extends `StreamRelay` | `ChatRequestProofs` | `stream` |
| `BytePipe` | abstract: what a streamed reply promises | `ChatRequestProofs` | implemented by `ChatRequest` in `stream`, and proved |
| `IniFile` | `upsert_ini_section` as operators | `TunerApplyProofs` | `tuner_apply` |
| `TunerApply` (`MCTunerApply`) | tuner, its tasks, `router.ini`, the restart; uses `IniFile` | `TunerApplyProofs` | `tuner_apply`, `tuner_lost` |
| `LogView` | the log pane: its lines, filter and highlight | `TuiConsoleProofs` | `console`, through `TuiConsole` |
| `TuiConsole` (`MCTuiConsole`) | console editor, history and its file, hot-swap list, draft model, focus; extends `LogView` | `TuiConsoleProofs` | `console` |
| `Interrogator` | strikes, channel, deck and the numbers beside it | `InterrogatorProofs` | `strike_deck` |
| `Telemetry` | abstract: what the hardware pane promises of the GPU | `EventBusProofs` | implemented by `EventBus` in `event_bus`, and proved |
| `EventBus` (`MCEventBus`) | event loop, keyboard, pollers, systemctl commands, quitting | `EventBusProofs` | `event_bus`, `quit_hangs` |
| `ConfigV1` | `config_v1.rs` as operators on what is found at the start | `AuthGateProofs` | `access` |
| `AuthGate` (`MCAuthGate`) | start-up, the authentication layer, its log; uses `ConfigV1` | `AuthGateProofs` | `access` |

In each module a step is what its task does between two awaits (or, for the TUI, one
turn of its loop). A definition named *Mutant* is not part of the specification: it is
the one before or after it with a plausible mistake, with which TLC must refute the
property `PROJECT.json` pairs it with.

### EnsureProxy

`pc[r]` is where the handler of request r is: `new`, `lock` (waiting for
`ensure_lock`), the seven critical places between taking the lock and returning from
`ensure()`, then, for a chat request, `forward` and `reply`. `holder` and `waiters`
are tokio's mutex, which serves its waiters in order. `post[c]` is a caller's POST as
the router sees it: it outlives the caller. `chan` is the event channel; a `Send`
waits for room. `ClientGone` is the dropped future; `ensure/stream` runs in a spawned
task and has none. The router's part follows `Shared::load` of the repository's
stand-in; refusals, failed loads and restarts are free. A probe may come back empty
(it failed), and the box's VRAM may read as `UnknownVram` (no nvidia-smi). The oracle
awaits nvidia-smi under `ensure_lock` with no timeout (187, 808): `SmiHangs` puts a request
into the place `hung`, which only its client's leaving ends. `HeldUp` are such a request and
those that wait for the lock it keeps.

What a profile needs, `NeedVram` and `NeedRam`, are constants here; the instances take
them from `Footprint`, and `Admission` says what follows for the profiles whose need is
such an estimate. Left out: the read-only routes, and the frames of `ensure/stream`
(at most four into a channel of sixteen, so that none ever waits).

`bypassed` and `disturbed` are history: models somebody forced or hot-swapped to, and
whether residency changed with no event to follow.

### Footprint and Admission

A file is what its name says: its size, the words and quantization marks in it, in
integers (tenths of a GB, hundredths of a bit per weight); `Params`, `Bpw` and `Estimate`
are the oracle's, `DeckReads`, `DeckBits` and `DeckWarns` those of the hot-swap list,
which reads the same name otherwise. `f64::round` is `RoundDiv`; sizes and tables are
such that the sums are exact. `Admission` gives each profile its `File`; `ByName` are
those that leave the rest to the oracle, and `AdmittedFit` compares the weights their
files name with the room of the card. `Files` and `Hints` are further names and hints to
estimate.

### ProcessControl

`proc` is the kernel's table; a process is told from all others by its start tick. The
kernel may spawn, end, reap and re-uid between any two steps of the code; the children of a
process that ends become PID 1's. `main_pid` is the service manager's, a child of PID 1.
The poll is three steps (list, `stat`, `status`). An action asks for the main PID
(`RuntimeRoot`), walks its tree one turn of the code's loop at a time (`RuntimeChildren`),
then checks, reads `stat` and `status`, sends and waits. Each read of /proc may fail, and is
taken as the code takes it: a tree that is empty or partial, an identity that has changed,
a process that has exited. `target[a]` is the code's `Target`: the row's pid, start and uid,
the process its pidfd names (`fd`), and the error of `pidfd_open`. A thread has the PID
space of processes and a leader, as `Tgid` says.

`whole` and `misread` are history: whether systemctl and every read of the tree answered,
and whose wait ended on a failed read; `mark` is the clock when systemctl answered. `linked`
in a signal says whether the process descended from the main process when it was sent
(`Descends`, by parents, as the walk goes: a descendant whose parent has ended is PID 1's
child to both).

Abstractions: two processes with one PID have different start ticks; one turn of the walk,
and the identity read at the end of a wait, are one step each; one inspector pane stands for
both.

### StreamRelay

`phase` is where `forward` is, `left` the armed deadline, `ready` what has arrived,
`out` what the client has not read. The body is polled only when there is room on the
client's side (`Polled`). Ticks are abstract; chunks are counted.

### ChatRequest

`stage` is where the handler is before the forward: reading the body frame by frame
against the limit, ensuring, forwarded, over. A body is its size, whether the size was
declared, and what `validate_chat_body` finds in it; a header map is a function from
names to the values under them. The forward itself is StreamRelay's `Start`, taken with
`Ensured`. `waiting` counts the event channel; the note of an abort is a `try_send`, kept
or dropped (`note`). `ensure()` answers what EnsureProxy says it may.

### IniFile and TunerApply

A file is a sequence of header, entry and note lines; whitespace is left out.
`EditLines` is the code's loop over the section, `Upsert` the file around it, and `Exact`
what an edit should do, said by lines. `Files` and `Settings` are further files and
settings to edit. `TunerApply` makes read, truncate, write and
restart steps of their own: `tokio::fs::write` opens with truncation, then writes.
Overlapping writes are at line granularity. The tuner's settings are two: one always
written and one written only while on.

### TuiConsole

A step is one turn of the loop, which draws before it takes an event, so a panic in
drawing stops everything after it. Indices count from 0 as in the code. A ready-made
payload is one symbol, so that the start value of the cursor (69, for a payload of 68
characters) is `Len(input) + 1`. `Vec::insert` and `Vec::remove` past the end set
`crashed`. The list of models may be replaced, and a line logged, between any two keys;
`Restart` leaves the history file and the next session begins from it. `session` bounds
what an operator does. In `LogView` a line is the length of the longest filter text it
contains, texts being prefixes of one another; `at` is the selection as the last draw,
which clamps it, left it.

### Interrogator

A strike's events wait in `out` until the channel has room. `deck` is
`last_api_result` as a sequence of tokens, `metrics` the numbers beside it and whose they
are. A chunk of the reply ends a line with a token, one with timings, or none.
`overlapped` is history: a strike was fired before everything of the last had arrived.

### EventBus

A step is what a task does between two awaits: `keyTask`, `poller`, `feed[f]` and
`cmd[i]` are the places of the keyboard task, the hardware poller, the journal, model
and port tasks, and the systemctl command of the i-th key; `main` is where `main()` is.
A `Send` waits for room and, once the receiver is dropped, for nothing. The hardware
poller asks nvidia-smi twice a poll (`sample`, `problem`) and sends the edge of
`gpu_failing` before the numbers. The keyboard task polls the terminal without an
await: `Exit`, the end of tokio's runtime, waits until it is elsewhere. A journal that
ends, or whose line is no text, ends its task silently, as in the code. `told` and
`errors` are history: what the operator has been told. Of `Telemetry` the news are the
poller's events, those it is about to send and those in the channel.

### ConfigV1 and AuthGate

`world` is what is found at the start: the flag, `XDG_CONFIG_HOME`, the file at each of
the three places (absent, unreadable, malformed, or a configuration), the variable and
the key file that a token may come from. `Load` and `ResolveControlToken` give what
`main()` takes from it, or `Refused`. Whether paths expand is a flag of a file
(`expands`). A request is a record of what the layer looks at; a query is a sequence of
name-value pairs. The layer has no await and its log a mutex, so a request is one step,
and concurrent requests are the orders of such steps. A line that `log_failure` gives to
its closure counts as logged; the closure drops it when the event channel is full. axum's
`get` takes HEAD too, which the policy denies; no request uses it here.

## 3. Runs

| Run | Instance and why it is enough | Shows |
|---|---|---|
| `ensure` | two requests of any endpoint with or without `force`, one hot-swap, a fitting, an oversized and an unknown name, `--models-max 1`, a channel of one event. Two requests make every contention for the lock; a channel of one makes every send block. Symmetry over the requests: nothing orders them but the queue, which holds them by name. | types, the lock and its queue are exact, the oracle cannot be got past without `force` or a hot-swap, what it lets in fits by the weights the file names, refinement of `ResidentService` |
| `ensure_live` | two requests, two presets that fit (the oracle still refuses when VRAM cannot be read), a channel of two | every request is answered; undisturbed ensures leave the TUI naming a resident model |
| `process` | PIDs 1, saltnitor and two more, two uids, two process starts, of children or threads of PID 1 or of the third: a main process and its child, which may be the selected one, an orphan of it, or one PID reused once by a process or a thread, which is what a stale row needs | types, who may be hit and who never (PID 1, saltnitor, a descendant of the main process unless a read failed), what is reported, and that something is |
| `stream` | one chat request: bodies up to one past the limit, declared or not, of every validity; plain headers, and laden ones with two `connection` lines, two ids and credentials; up to four chunks, buffers of two, `idle` of three ticks: a stalled client can outlast the deadline with both buffers full; an event channel of one, full or empty | only what was checked reaches the runtime, headers and ids are kept apart, a complete reply is complete, no cut for idleness without silence, each end told, an end |
| `tuner_apply` | two applies, failures, restarts by others and a quit; for the edit, also every file of up to four lines over two sections and two keys, which hold a duplicate key, a note and a second section | other lines survive; "restarted" means the settings were read; the comment of `upsert_ini_section` |
| `console` | four kinds of sessions over two models: one fires two payloads onto up to two loaded lines and restarts; one has a list that grows to two and shrinks; one edits two symbols beside a list of one; one scrolls and filters a log of three lines, so that lines are dropped under the highlight. A kind of its own for what does not touch, since all at once only multiplies. | indices stay good; the cursor stays in the text once inside; the history is the last lines over any number of starts; the log's highlight follows or stays |
| `strike_deck` | two strikes of up to two tokens, a channel of two | the deck shows a reply whole or visibly failed, with its own numbers; mixed replies keep their order |
| `event_bus` | three operators (restart then Ctrl+K; Ctrl+K then quit; quit then a key), GPU polls of every outcome, the journal, a channel of one event, so that every send may block. The model and port tasks send as the journal does and fail less, and are left to another instance. | refinement of `Telemetry`: what is shown of the GPU and what is told of it agree; every key takes effect and every outcome is told; the last of commands that do not overlap wins |
| `access` | 276 worlds: each kind of file at each place, and each set of token sources with each state of its secret; 80-odd requests over every route, both methods, right, wrong, missing and doubled tokens; two peers, a second of two ticks | starts as configured; the gate is exact; no token goes downstream; one line per second, and one for each quiet second |

`CHECK_DEADLOCK FALSE` is set throughout: each request, action or strike of an
instance is used once, and a behaviour may stop when all are done or when the
operator does nothing.

Bounds, by name: `Requests`, `Swaps`, `Acts`, `Enters`, `Strikes` (how often an actor
acts), `Ticks` (process starts), `Chunks`, `Tokens` (length of a reply), `MaxLines`
(of a file to edit), `Scripts` (what the operator presses), `Worlds`, `Requests` of
`AuthGate`, `Second`, `Requests`, `Replies`, `MaxBody` and `ChannelCap` of `ChatRequest`,
`Sessions` (what is typed, fired, listed and searched), `LogCap`, `HistoryCap` (console),
`Files` and `Hints` of `Admission` (whose estimates are computed: whole sizes from 1 to 40
billion and some larger, every quantization), `Files` and `Settings` of `TunerApply`. Of `process`: `Movers` (whose row may be
missing while its process lives, and whom nvidia-smi may report beside sysinfo), `Forkers`
(whose process starts others, or threads), `Changers` (whose process changes its uid), each
any set of PIDs in the proofs, and `Followed`: the rows are followed as long as an action is
left to press. With `Forkers = {1, 2, 3}` and `Movers = {3, 4}` TLC finds the same, in
three times as long.

Fairness. `EnsureProxy`: a handler or hot-swap task that can go on does, its timers
fire (120 s, first_byte), and the TUI empties its channel: tokio schedules woken tasks
and the TUI's loop waits for nothing but its channel. That nvidia-smi ends is not assumed:
it has no timer in the code, so EveryRequestAnswered says that a request is answered or held
up for ever by one that hangs under `ensure_lock` (`HeldUp`). `ProcessControl`: a blocking
task goes on; the code waits for `systemctl show` without a timeout and for room in the TUI's
channel at the report, and both are taken to come. `ChatRequest`: the proxy's task runs, time
passes, `ensure()` answers (which it does unless nvidia-smi hangs, as `ensure_live` shows),
the client sends its body and reads what is there, or leaves. `EventBus`: a task that wants
to send does in the end, although others send before it (strong fairness: tokio gives room in
the order of asking), a systemctl ends, and the TUI takes its events; a terminal that fails,
a key and a poll are never owed.
No fairness is assumed of clients, operator, router, runtime or kernel.

### What the code does otherwise than its words say

Three runs expect a violation; their findings are in `PROJECT.json`.

| Run | Statement | What happens |
|---|---|---|
| `ensure_oracle_bypass` | `h_chat` forwards only what the oracle let pass | the model found resident is gone at the forward, which loads it again |
| `tuner_lost` | two reported updates are both in the file | overlapping read-modify-write loses one; only that, or a write that fails, can (`LostOnlyToOverlap`) |
| `quit_hangs` | `q` quits the program | the runtime waits for the keyboard task, which does not await until another key comes |

The modules state further disagreements, which TLC refutes just so when they are put
in a cfg, and which have no run of their own: `ConsoleTakesKeys` (`TuiConsole.cfg`: the
first character typed into a session without models is inserted past the end and
panics), `TermEscalates` (`ProcessControl.cfg`: README says `x` escalates after the
grace period, the code reports "still running"), `OutageHasItsReason` and `StopIsFinal`
(`EventBus.cfg`: an earlier failure of the second query hides the reason of the first;
a restart under way undoes Ctrl+K), `ResumesAtBottom` (`TuiConsole.cfg`: under a filter
that hides a line, scrolling to the last one shown does not follow again), `OneLoadAtTheRouter` and `TuiShowsResident` (a
warm-up that outlives its timeout or its client, two fitting presets, no hot-swap),
`RuntimeIsRefused` (`ProcessControl.cfg`: the tree is empty or partial after a systemctl or
a read of /proc that failed), `ExitedIsGone` (there too: a read that fails in the wait is
reported as the exit of a process that runs) and `ActsOnTheSelectedProcess` (there too: the
cursor stays with a PID that is another's), `FlagsAreWritten` and `FileSurvivesFailure` (`TunerApply.cfg`),
`ListShrinksSafely` (`TuiConsole.cfg`) and `MetricsAreCurrent` (`Interrogator.cfg`). Of
`Footprint`, over the files of `MCEnsureProxy` and such with experts or a fraction:
`EstimatesAnyName` ("8x7B" counts as 8 billion, "70.6B" as 6), `HintsCount` (one hint
alone is ignored) and `DeckAgrees` (the list does not warn of all the oracle refuses).
Also met while modelling: `router_loaded` takes a model for loaded by a `status` that
is a string, and does not know the object form.

## 4. Proofs

All by `tlapm`, for every value of the constants that the modules' named assumptions
allow: `SetsAssumption` and `NumbersAssumption` (disjoint sets of callers, natural
numbers, a router limit and a channel of at least one), `PidsAssumption`,
`LimitsAssumption`, `RequestsAssumption` (header maps over the names there are, header
names of no special meaning apart from the tables), `LogAssumption`, `BoundsAssumption`
(finitely many models, none called "None"; natural bounds, a channel of at least one; a
history of at least two lines, the code's being of ten), `BusAssumption`, `GateAssumption`
(a query is a sequence of names and values), `WorldsAssumption` (a file that parses has
the sources it has, and a literal token if that is one; a variable, a key file or a
literal holds one secret at most), and two called `FilesAssumption`: of `Admission` (a
name is one that `Footprint` reads, a hint at most one number) and of `TunerApply` (a
file is a sequence of lines, settings are entries of different keys, as `Kv` is). Each
inductive invariant was first checked by TLC as an INVARIANT of the module's passing run.

Several lemmas are about what the code computes over a sequence of any length: the lines
of a section, the parameters of a query, the events in a channel, the lines of a history.
The library's induction theorems cannot be used for them, as they take an operator; but
`NatLessThanWellFounded` and `WFMin` give that a set of numbers has a least one (`Least`),
from which `UpTo` follows: a set with 0, and with n if with n - 1, has all numbers to a
bound. What is computed is written as a recursive function, and the lemma says for which
lengths it is right.

* **EnsureProxyProofs.** `TypeCorrect`, `Serialized` (EnsuresSerialized) and
  `OracleGuards` (OversizedOnlyByBypass) follow from `Inductive`. OversizedOnlyByBypass
  is not inductive: a POST sent by a request says nothing of how it got that far. IndInv
  adds AskedFor (a request at work has been asked for a known profile, and a hot-swap's
  model is among the bypassed) and PastOracle (from `log_loading` on, the model of a
  request fits or was bypassed); the latter needs that an "already resident" answer is
  about a loaded model, which OversizedOnlyByBypass itself gives. EnsuresSerialized is
  Alone (the lock) and InLine (its queue). `Implements` (the refinement of
  ResidentService) needs ToldSoFar, that nobody has an answer before its ensure returns;
  ServiceStep then maps every step to one of the service or to a stutter. `TuiFollows`
  (TuiFollowsEnsures) rests on InSight: unless a load came behind the TUI's back, what it
  shows once it has read its channel is resident, or an ensure that holds the lock is
  still to send it the name. `AdmittedFits` (AdmittedFit) adds the arithmetic: a size
  that stands first is the one that counts (`PlainParams`), estimates cover the weights
  for every file, hint and placement (`CoversWhole`, `CoversSplit`), and so does what
  passes the oracle (`FitsWeights`). `NobodyStuck` (SomebodyGoesOn) follows from the queue
  and the lock: who waits is in the queue, so it has a first one, and the holder is past
  the queue; PostedFor adds that a POST waited for is with the router. It excepts, as
  EveryRequestAnswered does, whom an nvidia-smi that hangs under the lock holds up. With
  `PathsEnd` (OnlyForward, by case over the handler's actions) it is what
  EveryRequestAnswered needs besides fairness. `ReadyWasResident` and `ResidentInCall` are proved of ResidentService
  and hold of the ensure path by `Implements`.
* **ProcessControlProofs.** `PidfdExact` (HitsTheRowsProcess) follows from `Inductive`:
  Pinning orders what was read of a PID in time (a row is never younger than its PID's
  process, a pidfd never older than its row), so a passed identity check squeezes row,
  pidfd and process into one. `ProtectedSpared` (SparesProtected) follows from
  `GuardInductive`: the process behind the pidfd leads its own group, is not in the tree that
  was read, and is not younger than the walk. For the runtime that is enough by
  `TreeIsWhole`: take the tree with all processes younger than the walk. By Walked, if no
  read failed, the main process is among them and so are the children of what the tree has;
  by Family (`FamilyHolds`: a process is younger than its parent, unless that is PID 1, and
  its parent lives) so are those of the young ones. So all that descends from the main
  process is, whatever was started, ended or orphaned during the walk and since.
  `TruthTold` (ReportsAreTrue) follows from Told, whose part Traced says why a report is
  true: past the identity check the process had the uid of its row, and changes of uid are
  noted, so that "exited" is said of one that is gone, changed its uid, or could not be read.
  `ActionsEnd` (OnlyForward) needs of Told that nothing is reported before an action is over,
  and `WalkInTree`, by which each turn of the walk takes a PID not taken before;
  `SignalledOnce` (OneSignal) needs of Pinning that an action that has sent is past sending.
* **ChatRequestProofs.** Of the relay, `TypeCorrect`, `NoFalseIdle` (IdleMeansSilence) and
  `Implements` (the refinement of BytePipe, every step by case) follow from `Inductive`.
  DeadlineAfterSilence is why an idle cut is right: the ticks of silence and those left
  of the deadline always make up `idle` while nothing waits. `ImplementsRelay`: a chat
  request is a StreamRelay whatever comes before, so NoFalseIdle and the refinement carry
  over (`ChatImplementsPipe`). `ChatTypeCorrect`, `OnlyChecked`, `HeadersSeparated` and
  `EndsTold` follow from `ChatInductive`, whose part Progress says how far the request
  has come and what has been found out by then. The header filters are proved for
  every map of headers, not for the laden one of the run. `WholeReplies` and `FinalEnds`
  are proved of BytePipe and hold by the refinement. `Deadlines` (DeadlineStands) and
  `NobodyStuck` (NeverStuck: Progress says at which stage the request is, and each stage
  has a step, a deadline or a client to wait for) are what EveryRequestEnds needs besides
  fairness.
* **TunerApplyProofs.** `EditsExact` (EditIsExact) is about any file and settings. A file
  with the section has three parts (`Splits`, Laid); the loop replaces just the first
  entry of each key (`LinesEdited`, by induction over the lines: IsEdit says what is
  written and what is left after each), so every setting comes first among the entries of
  its key (`SettingFirst`), what is no such entry stays (`OthersStay`), and a second edit
  finds all in place (`EditAgain`). `TypeCorrect`, `OthersKept` (OthersPreserved) and
  `AppliedOnRestart` (RestartApplies) follow from `Inductive`. Neither property is
  inductive: they say nothing of what a task holds between its awaits. IndInv adds Edits
  (what a task is to write has its settings, whatever the others do) and Alone: without
  overlap what it is to write has the other lines, the file is empty while it writes and
  what it wrote until the restart. `LostOnlyToOverlap` (LoneUpdatesSurvive) is the other
  half of the run `tuner_lost`. An edit leaves every value of the other sections as it
  was (`OtherSections`, from `Elsewhere`: a section's values do not depend on another's
  block); Survives says that what was written last into a section is in the file and in
  whatever another task has made of it, InOrder that a task alone comes after all that
  are over, so that it writes elsewhere or overtakes. KeptInv, their conjunction with
  IndInv, and LoneUpdatesSurvive hold in the instance of `TunerApply.cfg`, where TLC
  checks them when they are put among its invariants.
* **TuiConsoleProofs.** `TypeCorrect`, `CursorSafe` and `LogShows` follow from
  `Inductive`; TypeInv adds the kinds of texts, lists and files, without which a
  recalled or restored line is nothing. For the highlight, the number of a line among
  those shown is a cardinality: the lemmas HasHighest, LastShown and OlderKeepNumbers
  say which number the newest one has, and that a new line renumbers nothing before it.
  `HistoryKept` (HistoryIsTheLastLines) has an invariant of its own, HistoryInv, which
  adds what is in the file. `AllLinesAdd` and `AllLinesJoin` unfold what is remembered of
  a session, `NewestSlides` says that the last lines are a window that moves by one, and
  `RecordNewest` that this is what recording a line does.
* **EventBusProofs.** `TypeCorrect` and `LastWins` follow from `Inductive`.
  LastCommandWins is not inductive: it says nothing while a command runs. KeysInOrder
  and CommandsKnown say which keys the channel holds and that a command is at work only
  for a key handled; LastOneActs that, without overlap, nobody after the one at work
  has begun. `Implements` (the refinement of Telemetry) maps the channel to the news in
  it: `NewsJoins` and `NewsLeaves` say what a send and a receive do to them. MemoryTold is
  why it holds: `gpu_failing`, with what the poller is about to send, is what the operator
  believes once all news is heard. `OutagesTold` (OutageIsTold) is about Telemetry:
  Explained says of each sample yet to be shown that what is believed when its turn comes
  (`BeliefAt`) gives a reason if it is missing; what is found is explained by what is
  believed then (`SaysExplained`), and what is heard takes its explanation along
  (`HeardExplained`). `KeysTurnByTurn` (KeysInTurn) and `LoopGoesOn` (NobodyForgotten) rest
  on NothingLost: every key read and not yet handled is in the channel, or is the one the
  task is sending; KeysInOrder then makes the first of them the next.
* **InterrogatorProofs.** `RepliesOrdered` and `ReplyShown` follow from `Inductive`.
  Neither is inductive: of what the channel holds they say nothing. IndInv numbers the
  parts of a reply, its failure being the last; ChannelInOrder and DeckInOrder say that
  of what has been sent each part's successor is on the deck or still comes, behind it;
  AloneKnown that a strike without overlap has its first parts on the deck, each in its
  place, and that the start, which clears the deck, comes before any of them. `PartTaken`
  moves one part from channel to deck, for tokens and failures alike.

* **AuthGateProofs.** `TypeCorrect`, `AsConfigured`, `ExactGate`, `RateLimited` and
  `Surfacing` follow from `Inductive`. Neither the gate's exactness nor the start's is
  inductive alone: IndInv adds AsResolved (who serves has what `Load` and
  `ResolveControlToken` gave for the world found) and that the remembered time of a
  failure is the time of its line. The lemmas on the way: `Loaded` and `Resolved` (what
  an accepted setup is made of), `OnlySource` (sources that are not two are one),
  `Table` (policy and handlers agree, path by path) and `Exact` (one request).
  `TokenRedacted` (NoTokenDownstream) is `StripRedacts`, for a query of any length, with
  `OneToken`: the secret a query is compared with is the only one there is.

Only model-checked: liveness under fairness (EveryRequestAnswered, EveryRequestEnds,
EveryActionReported, KeysTakeEffect), since the prover does not reason about ENABLED. Their
safety halves are proved: that nobody is stuck, that a path is only gone forward, that
nothing is lost or sent twice. What is left to TLC is the step from "can go on" to "goes
on", which is the fairness itself. Where a definition stands for ENABLED (Ready of
EnsureProxy, NeverStuck of ChatRequest), TLC finds it to agree with ENABLED in the
instances of `EnsureProxy.cfg` and `ChatRequest.cfg`. Every safety property, action
property and refinement that a passing run checks is stated by a theorem; the safety
halves and what is proved of the abstract specifications are no properties of a run, and
hold in the runs' instances when they are put into the configurations.

## 5. Not modelled

The error table, the parsing of nvidia-smi's text, redaction, the expansion of paths, the
building of the proxy's HTTP client, `status`, `models` and `healthz`, which only read, the
bounds of the tuner's settings, keys of the dashboard that only change a view, the
stand-in's scenarios and recordings, the layout that rendering makes, scripts. The reasons
are in `PROJECT.json` under `components`. Three simplifications a reader may miss: of a
request's `connection` lines the code looks at the first only, and so does the model; any
failure to read a body is answered as 413; a client that neither reads nor leaves holds
its request, and the runtime's, for as long as it likes. Below the models' grain are two
hazards of bytes: a character split over two chunks (`interrogate.rs` 224) and a model name
cut inside one (`ui.rs` 881).

## 6. Plan

Order so far: the ensure path (it decides what is loaded), process control (it kills),
the relay, the tuner (it writes), console and interrogator, the event bus, access from
configuration to handler, then the chat request around the relay, the log view, the
abstract telemetry, the oracle's arithmetic, and the proofs of each component. Next:

1. Leads-to proofs from the safety halves, should the prover come to reason about ENABLED.
2. The stand-in server's engine as a detailed router under `EnsureProxy`.
3. The inspectors' opening and closing, two panes with a cursor each.
