--------------------------- MODULE EventBusProofs ---------------------------
(***************************************************************************)
(* Proofs about EventBus for any operators, feeders and channel capacity:  *)
(* its types, that the unit is as the last systemctl command left it, that *)
(* it implements Telemetry, that no key is lost, doubled or overtaken, and *)
(* that an outage of the GPU is told.                                      *)
(***************************************************************************)
EXTENDS EventBus, WellFoundedInduction, NaturalsInduction, SequenceTheorems, TLAPS

Whys == {"terminal", "spawn", "none", "sample", "apps"}
KeyEvents == [kind : {"key"}, key : Nat]
Reports == [kind : {"report"}, key : Presses, outcome : {"told ok", "told failed"}]
Quiets == [kind : {"update"}, sample : BOOLEAN]
          \cup [kind : {"tick", "restored", "feed"}]
          \cup [kind : {"error"}, source : {"keys", "gpu"} \cup Feeds, why : Whys]
Events == KeyEvents \cup Reports \cup Quiets

KeyPlaces == {"poll", "send", "error", "ended"}
Polls == [at : {"sleep", "edge", "update", "tick", "gone"}, sample : BOOLEAN,
          problem : {"none", "sample", "apps"}]
FeedPlaces == {"start", "work", "send", "error", "ended", "over"}
CmdPlaces == {"none", "spawned", "running", "ok", "failed", "sent ok", "sent failed",
              "told ok", "told failed"}

\* The kinds of things, as far as TypeOK leaves them open.
Kinds ==
    /\ typed \in Scripts /\ pressed \in Nat /\ handled \in Nat
    /\ keyTask \in [at : KeyPlaces, read : Nat]
    /\ poller \in Polls
    /\ feed \in [Feeds -> FeedPlaces]
    /\ cmd \in [Presses -> CmdPlaces]
    /\ chan \in Seq(Events)
    /\ overlapped \in BOOLEAN

IsKey(a) == chan[a].kind = "key"
IsReport(a) == chan[a].kind = "report"

\* The keys in the channel are those read and not yet handled, in order.
KeysInOrder ==
    /\ \A a \in DOMAIN chan : IsKey(a) =>
          /\ handled < chan[a].key /\ chan[a].key <= keyTask.read
          /\ keyTask.at = "send" => chan[a].key < keyTask.read
    /\ \A a, b \in DOMAIN chan : a < b /\ IsKey(a) /\ IsKey(b) => chan[a].key < chan[b].key
    /\ keyTask.at = "send" => handled < keyTask.read

\* A command was started by a key that was handled; its report is in the channel at
\* most once, and only until it is shown.
CommandsKnown ==
    /\ \A i \in Presses : cmd[i] # "none" => i <= handled
    /\ \A a \in DOMAIN chan : IsReport(a) =>
          cmd[chan[a].key] = (IF chan[a].outcome = "told ok" THEN "sent ok" ELSE "sent failed")
    /\ \A a, b \in DOMAIN chan : a < b /\ IsReport(a) /\ IsReport(b) => chan[a].key # chan[b].key

\* Without overlap the command under way is the last one, and the unit is as the last
\* one that succeeded left it.
LastOneActs ==
    ~overlapped =>
        /\ \A i, j \in Presses : cmd[i] \in Active /\ j > i => cmd[j] = "none"
        /\ \A i \in Presses :
              /\ cmd[i] \in Succeeded
              /\ \A j \in Presses : j > i => cmd[j] \notin Succeeded
              => unit = (IF typed[i] \in {"X", "K"} THEN "down" ELSE "up")

IndInv == TypeOK /\ Kinds /\ KeysInOrder /\ CommandsKnown /\ LastOneActs

------------------------------------------------------------------------------
(* Lemmas.                                                                 *)

\* The assumptions about constants, in the form the steps below use.
LEMMA Constants ==
    /\ Capacity \in Nat \ {0}
    /\ Feeds \subseteq {"journal", "models", "port"}
    /\ \A s \in Scripts : /\ s \in Seq({"S", "X", "R", "K", "q", "other"})
                           /\ DOMAIN s = 1..Len(s) /\ DOMAIN s \subseteq Presses
    /\ Presses \subseteq Nat
<1>1. \A s \in Scripts : /\ s \in Seq({"S", "X", "R", "K", "q", "other"})
                         /\ DOMAIN s = 1..Len(s) /\ DOMAIN s \subseteq Nat
  BY BusAssumption
<1> QED BY <1>1, BusAssumption DEF Presses

\* What joins the channel comes last, ...
LEMMA Joined ==
    ASSUME NEW c \in Seq(Events), NEW e \in Events
    PROVE  /\ Append(c, e) \in Seq(Events) /\ Len(Append(c, e)) = Len(c) + 1
           /\ \A a \in DOMAIN Append(c, e) :
                \/ a \in DOMAIN c /\ Append(c, e)[a] = c[a]
                \/ a = Len(c) + 1 /\ Append(c, e)[a] = e
           /\ \A a \in DOMAIN c : a \in Nat /\ a < Len(c) + 1 /\ c[a] \in Events
           /\ Len(c) \in Nat /\ (Len(c) < Capacity => Len(Append(c, e)) <= Capacity)
           /\ \A a, b \in DOMAIN Append(c, e) :
                a < b => a \in DOMAIN c /\ Append(c, e)[a] = c[a]
<1> DEFINE E == Events
<1> HIDE DEF E
<1>0. Capacity \in Nat BY Constants
<1>1. ASSUME NEW d \in Seq(E), NEW x \in E
      PROVE  /\ Append(d, x) \in Seq(E) /\ Len(Append(d, x)) = Len(d) + 1
             /\ \A a \in DOMAIN Append(d, x) :
                  \/ a \in DOMAIN d /\ Append(d, x)[a] = d[a]
                  \/ a = Len(d) + 1 /\ Append(d, x)[a] = x
             /\ \A a \in DOMAIN d : a \in Nat /\ a < Len(d) + 1 /\ d[a] \in E
             /\ Len(d) \in Nat
             /\ \A a, b \in DOMAIN Append(d, x) :
                  a < b => a \in DOMAIN d /\ Append(d, x)[a] = d[a]
  OBVIOUS
<1> QED BY <1>0, <1>1 DEF E

\* What stands in a channel is an event.
LEMMA Member ==
    ASSUME NEW c \in Seq(Events), NEW a \in DOMAIN c
    PROVE  c[a] \in Events
<1> DEFINE E == Events
<1> HIDE DEF E
<1>1. \A d \in Seq(E) : \A x \in DOMAIN d : d[x] \in E OBVIOUS
<1> QED BY <1>1 DEF E

\* ... and what leaves it was first.
LEMMA Left ==
    ASSUME NEW c \in Seq(Events), c # <<>>
    PROVE  /\ Tail(c) \in Seq(Events) /\ Len(Tail(c)) = Len(c) - 1
           /\ \A a \in DOMAIN Tail(c) :
                a \in Nat /\ a + 1 \in DOMAIN c /\ 1 < a + 1 /\ Tail(c)[a] = c[a + 1]
           /\ 1 \in DOMAIN c /\ Head(c) = c[1] /\ Head(c) \in Events
<1> DEFINE E == Events
<1> HIDE DEF E
<1>1. ASSUME NEW d \in Seq(E), d # <<>>
      PROVE  /\ Tail(d) \in Seq(E) /\ Len(Tail(d)) = Len(d) - 1
             /\ \A a \in DOMAIN Tail(d) :
                  a \in Nat /\ a + 1 \in DOMAIN d /\ 1 < a + 1 /\ Tail(d)[a] = d[a + 1]
             /\ 1 \in DOMAIN d /\ Head(d) = d[1] /\ Head(d) \in E
  <2>1. Len(d) \in Nat /\ Len(d) # 0 /\ DOMAIN d = 1..Len(d) BY <1>1
  <2>2. Tail(d) \in Seq(E) /\ Len(Tail(d)) = Len(d) - 1 BY <1>1, <2>1
  <2>3. \A a \in 1..Len(d) - 1 : Tail(d)[a] = d[a + 1] BY <1>1, <2>1
  <2>4. DOMAIN Tail(d) = 1..Len(d) - 1 BY <2>2
  <2>5. Head(d) = d[1] /\ d[1] \in E /\ 1 \in DOMAIN d BY <1>1, <2>1
  <2> QED BY <2>1, <2>2, <2>3, <2>4, <2>5
<1> QED BY <1>1 DEF E

\* The kind of an event tells what it is.
LEMMA EventKinds ==
    /\ \A e \in Events : /\ e.kind = "key" => e.key \in Nat
                         /\ e.kind = "report" => /\ e.key \in Presses
                                                 /\ e.outcome \in {"told ok", "told failed"}
    /\ \A e \in Quiets : e.kind # "key" /\ e.kind # "report"
    /\ \A i \in Nat : KeyEvent(i) \in Events /\ KeyEvent(i).kind = "key" /\ KeyEvent(i).key = i
    /\ \A i \in Presses, o \in {"told ok", "told failed"} :
          /\ Report(i, o) \in Events /\ Report(i, o).kind = "report"
          /\ Report(i, o).key = i /\ Report(i, o).outcome = o
    /\ Quiets \subseteq Events
BY DEF Events, KeyEvents, Reports, Quiets, KeyEvent, Report

\* A report is an event that names its key and its outcome.
LEMMA ReportKinds ==
    ASSUME NEW i \in Presses, NEW o \in {"told ok", "told failed"}
    PROVE  /\ Report(i, o) \in Events /\ Report(i, o).kind = "report"
           /\ Report(i, o).key = i /\ Report(i, o).outcome = o
BY EventKinds, ZenonT(60)

\* What the pollers, the feeders and the failing keyboard task send.
LEMMA QuietKinds ==
    /\ \A b \in BOOLEAN : HardwareUpdate(b) \in Quiets
    /\ Tick \in Quiets /\ Restored \in Quiets /\ FromFeed \in Quiets
    /\ \A f \in {"keys", "gpu"} \cup Feeds, w \in Whys : ErrorEvent(f, w) \in Quiets
BY DEF Quiets, Whys, HardwareUpdate, Tick, Restored, FromFeed, ErrorEvent

\* What the invariant says of the channel, in one.
ChannelInv ==
    /\ chan \in Seq(Events) /\ Len(chan) <= Capacity
    /\ KeysInOrder /\ CommandsKnown

\* An event that is neither a key nor a report joins it without disturbing it, ...
LEMMA QuietJoins ==
    ASSUME IndInv, NEW e \in Quiets, Send(e), UNCHANGED <<handled, cmd>>,
           keyTask'.read = keyTask.read, keyTask'.at = "send" => keyTask.at = "send"
    PROVE  ChannelInv'
<1> USE DEF IsKey, IsReport
<1>1. chan \in Seq(Events) /\ Len(chan) < Capacity /\ chan' = Append(chan, e)
  BY DEF IndInv, Kinds, Send
<1>2. e \in Events /\ e.kind # "key" /\ e.kind # "report" BY EventKinds
<1>3. /\ chan' \in Seq(Events) /\ Len(chan') <= Capacity
      /\ \A a \in DOMAIN chan' :
            \/ a \in DOMAIN chan /\ chan'[a] = chan[a]
            \/ chan'[a] = e
  BY <1>1, <1>2, Joined
<1>4. KeysInOrder' BY <1>2, <1>3 DEF IndInv, KeysInOrder
<1>5. CommandsKnown' BY <1>2, <1>3, ZenonT(60) DEF IndInv, CommandsKnown
<1> QED BY <1>3, <1>4, <1>5 DEF ChannelInv

\* ... and leaving it alone keeps it.
LEMMA ChannelKept ==
    ASSUME IndInv, UNCHANGED <<chan, handled, cmd>>,
           keyTask'.read = keyTask.read, keyTask'.at = "send" => keyTask.at = "send"
    PROVE  ChannelInv'
<1> USE DEF IsKey, IsReport
<1>1. KeysInOrder' BY DEF IndInv, KeysInOrder
<1>2. CommandsKnown' BY DEF IndInv, CommandsKnown
<1> QED BY <1>1, <1>2 DEF ChannelInv, IndInv, Kinds, TypeOK

\* The part about commands is kept by all that leave them alone.
LEMMA LastOneKept ==
    ASSUME LastOneActs, UNCHANGED <<overlapped, cmd, unit, typed>>
    PROVE  LastOneActs'
BY DEF LastOneActs

------------------------------------------------------------------------------
(* Steps.                                                                  *)

\* Every step of the operator and the keyboard task keeps the invariant, ...
LEMMA KeysKeep ==
    ASSUME IndInv, Press \/ KeyTask \/ KeyFails
    PROVE  IndInv'
<1> USE DEF keyVars, taskVars, appVars
<1>0. /\ keyTask \in [at : KeyPlaces, read : Nat] /\ pressed \in Nat /\ handled \in Nat
      /\ handled <= keyTask.read /\ keyTask.read <= pressed
  BY DEF IndInv, Kinds, TypeOK
<1>1. CASE Press
  <2>1. ChannelInv' /\ LastOneActs'
    BY <1>1, ChannelKept, LastOneKept DEF Press, IndInv
  <2>2. pressed' \in Nat /\ keyTask.read <= pressed' /\ pressed' <= Len(typed)
    <3>1. Len(typed) \in Nat BY Constants DEF IndInv, Kinds
    <3> QED BY <1>0, <1>1, <3>1 DEF Press
  <2> QED BY <1>1, <2>1, <2>2 DEF Press, IndInv, TypeOK, Kinds, ChannelInv
<1>2. CASE KeyRead
  <2>1. /\ keyTask' = [at |-> "send", read |-> keyTask.read + 1]
        /\ UNCHANGED <<chan, handled, cmd, pressed, overlapped, unit, typed>>
    BY <1>2 DEF KeyRead
  <2>2. keyTask'.at = "send" /\ keyTask'.read = keyTask.read + 1 /\ keyTask'.read <= pressed
    BY <1>0, <1>2, <2>1 DEF KeyRead
  <2>3. KeysInOrder'
    <3>1. ASSUME NEW a \in DOMAIN chan, IsKey(a)
          PROVE  chan[a].key \in Nat /\ chan[a].key <= keyTask.read
      <4>1. chan[a] \in Events BY DEF IndInv, Kinds
      <4> QED BY <3>1, <4>1, EventKinds DEF IndInv, KeysInOrder, IsKey
    <3> QED BY <1>0, <2>1, <2>2, <3>1 DEF IndInv, KeysInOrder, IsKey
  <2>4. CommandsKnown' /\ LastOneActs'
    BY <2>1, LastOneKept DEF IndInv, CommandsKnown, IsReport
  <2> QED BY <1>0, <1>2, <2>1, <2>2, <2>3, <2>4 DEF KeyRead, IndInv, TypeOK, Kinds, KeyPlaces
<1>3. CASE KeySend
  <2> DEFINE e == KeyEvent(keyTask.read)
  <2>1. /\ chan' = Append(chan, e) /\ Len(chan) < Capacity /\ keyTask.at = "send"
        /\ keyTask' = [keyTask EXCEPT !.at = "poll"]
        /\ UNCHANGED <<handled, cmd, overlapped, unit, typed>>
    BY <1>3 DEF KeySend, Send
  <2>2. e \in Events /\ e.kind = "key" /\ e.key = keyTask.read BY <1>0, EventKinds
  <2>3. keyTask'.at = "poll" /\ keyTask'.read = keyTask.read BY <1>0, <2>1
  <2> HIDE DEF e
  <2>4. chan \in Seq(Events) BY DEF IndInv, Kinds
  <2>5. /\ chan' \in Seq(Events) /\ Len(chan') <= Capacity
        /\ \A a \in DOMAIN chan' :
              \/ a \in DOMAIN chan /\ chan'[a] = chan[a]
              \/ a = Len(chan) + 1 /\ chan'[a] = e
        /\ \A a \in DOMAIN chan : a \in Nat /\ a < Len(chan) + 1
        /\ Len(chan) \in Nat
    BY <2>1, <2>2, <2>4, Joined
  <2>6. KeysInOrder'
    <3>1. handled < keyTask.read /\ \A a \in DOMAIN chan : IsKey(a) => chan[a].key < keyTask.read
      BY <2>1 DEF IndInv, KeysInOrder
    <3>2. \A a, b \in DOMAIN chan' : a < b => a \in DOMAIN chan BY <2>5
    <3> QED BY <1>0, <2>1, <2>2, <2>3, <2>5, <3>1, <3>2 DEF IndInv, KeysInOrder, IsKey
  <2>7. CommandsKnown' /\ LastOneActs'
    <3>1. \A a \in DOMAIN chan' : IsReport(a)' => a \in DOMAIN chan /\ chan'[a] = chan[a]
      BY <2>2, <2>5 DEF IsReport
    <3>2. \A a \in DOMAIN chan' : IsReport(a)' =>
              cmd'[chan'[a].key] =
                  (IF chan'[a].outcome = "told ok" THEN "sent ok" ELSE "sent failed")
      <4> SUFFICES ASSUME NEW a \in DOMAIN chan', IsReport(a)'
                   PROVE  cmd'[chan'[a].key] =
                            (IF chan'[a].outcome = "told ok" THEN "sent ok" ELSE "sent failed")
        OBVIOUS
      <4>1. a \in DOMAIN chan /\ IsReport(a) /\ chan'[a] = chan[a] BY <3>1 DEF IsReport
      <4>2. cmd[chan[a].key] = (IF chan[a].outcome = "told ok" THEN "sent ok" ELSE "sent failed")
        BY <4>1 DEF IndInv, CommandsKnown
      <4> QED BY <2>1, <4>1, <4>2
    <3>3. \A a, b \in DOMAIN chan' :
              a < b /\ IsReport(a)' /\ IsReport(b)' => chan'[a].key # chan'[b].key
      <4> SUFFICES ASSUME NEW a \in DOMAIN chan', NEW b \in DOMAIN chan',
                          a < b, IsReport(a)', IsReport(b)'
                   PROVE  chan'[a].key # chan'[b].key
        OBVIOUS
      <4>1. /\ a \in DOMAIN chan /\ IsReport(a) /\ chan'[a] = chan[a]
            /\ b \in DOMAIN chan /\ IsReport(b) /\ chan'[b] = chan[b]
        BY <3>1 DEF IsReport
      <4> QED BY <4>1 DEF IndInv, CommandsKnown
    <3>4. CommandsKnown' BY <2>1, <3>2, <3>3 DEF IndInv, CommandsKnown
    <3> QED BY <2>1, <3>4, LastOneKept DEF IndInv
  <2> QED BY <1>0, <1>3, <2>1, <2>3, <2>5, <2>6, <2>7 DEF KeySend, IndInv, TypeOK, Kinds, KeyPlaces
<1>4. CASE KeyBreak \/ KeyFails
  <2>1. /\ keyTask' \in [at : KeyPlaces, read : Nat] /\ keyTask'.read = keyTask.read
        /\ keyTask'.at \in {"ended", "error"}
    BY <1>0, <1>4 DEF KeyBreak, KeyFails, KeyPlaces
  <2>2. ChannelInv' /\ LastOneActs'
    BY <1>4, <2>1, ChannelKept, LastOneKept DEF KeyBreak, KeyFails, IndInv
  <2> QED BY <1>4, <2>1, <2>2 DEF KeyBreak, KeyFails, IndInv, TypeOK, Kinds, ChannelInv
<1>5. CASE KeyTell
  <2>1. /\ keyTask' \in [at : KeyPlaces, read : Nat] /\ keyTask'.read = keyTask.read
        /\ keyTask'.at = "ended"
    BY <1>0, <1>5 DEF KeyTell, KeyPlaces
  <2>2. ErrorEvent("keys", "terminal") \in Quiets BY QuietKinds DEF Whys
  <2>3. ChannelInv' /\ LastOneActs'
    BY <1>5, <2>1, <2>2, QuietJoins, LastOneKept DEF KeyTell, IndInv
  <2> QED BY <1>5, <2>1, <2>3 DEF KeyTell, IndInv, TypeOK, Kinds, ChannelInv
<1> QED BY <1>1, <1>2, <1>3, <1>4, <1>5 DEF KeyTask

\* ... of the pollers and feeders, ...
LEMMA PollersKeep ==
    ASSUME IndInv, HardwarePoller \/ Feeder
    PROVE  IndInv'
<1> USE DEF keyVars, taskVars, appVars
<1>0. poller \in Polls /\ feed \in [Feeds -> FeedPlaces] BY DEF IndInv, Kinds
<1> DEFINE Calm == /\ UNCHANGED <<typed, pressed, handled, keyTask, cmd, unit, main, overlapped>>
                   /\ poller' \in Polls /\ feed' \in [Feeds -> FeedPlaces]
                   /\ chan' = chan \/ \E e \in Quiets : Send(e)
<1>1. ASSUME Calm PROVE IndInv'
  <2>1. ChannelInv' BY <1>1, QuietJoins, ChannelKept
  <2>2. LastOneActs' BY <1>1, LastOneKept DEF IndInv
  <2> QED BY <1>1, <2>1, <2>2 DEF IndInv, TypeOK, Kinds, ChannelInv, Polls, FeedPlaces
<1>2. CASE Poll
  <2>1. poller' \in Polls BY <1>2 DEF Poll, Polls
  <2> QED BY <1>0, <1>1, <1>2, <2>1 DEF Poll
<1>3. CASE PollEdge
  <2>1. poller' \in Polls BY <1>0, <1>3 DEF PollEdge, Polls
  <2>2. poller.problem \in Whys BY <1>0 DEF Polls, Whys
  <2>3. \E e \in Quiets : Send(e) BY <1>3, <2>2, QuietKinds DEF PollEdge
  <2> QED BY <1>0, <1>1, <1>3, <2>1, <2>3 DEF PollEdge
<1>4. CASE PollUpdate
  <2>1. poller' \in Polls /\ poller.sample \in BOOLEAN BY <1>0, <1>4 DEF PollUpdate, Polls
  <2>2. \E e \in Quiets : Send(e) BY <1>4, <2>1, QuietKinds DEF PollUpdate
  <2> QED BY <1>0, <1>1, <1>4, <2>1, <2>2 DEF PollUpdate
<1>5. CASE PollTick
  <2>1. poller' \in Polls BY <1>0, <1>5 DEF PollTick, Polls
  <2>2. \E e \in Quiets : Send(e) BY <1>5, QuietKinds DEF PollTick
  <2> QED BY <1>0, <1>1, <1>5, <2>1, <2>2 DEF PollTick
<1>6. ASSUME NEW f \in Feeds, NEW from, NEW to \in FeedPlaces, Feeding(f, from, to),
             chan' = chan \/ \E e \in Quiets : Send(e)
      PROVE  IndInv'
  <2>1. feed' \in [Feeds -> FeedPlaces] BY <1>0, <1>6 DEF Feeding
  <2> QED BY <1>0, <1>1, <1>6, <2>1 DEF Feeding
<1>7. CASE Journal BY <1>6, <1>7 DEF Journal, SpawnJournal, JournalEnds, FeedPlaces
<1>8. ASSUME NEW f \in Feeds, FeedFails(f) \/ FeedGets(f) \/ FeedSends(f) PROVE IndInv'
  <2>1. ErrorEvent(f, "spawn") \in Quiets /\ FromFeed \in Quiets BY QuietKinds DEF Whys
  <2> QED BY <1>6, <1>8, <2>1 DEF FeedFails, FeedGets, FeedSends, FeedPlaces
<1> QED BY <1>2, <1>3, <1>4, <1>5, <1>7, <1>8 DEF HardwarePoller, Feeder

\* ... of the commands, ...
LEMMA CommandsKeep ==
    ASSUME IndInv, NEW i \in Presses, Command(i)
    PROVE  IndInv'
<1> USE DEF keyVars, taskVars, appVars
<1>0. cmd \in [Presses -> CmdPlaces] BY DEF IndInv, Kinds
<1>1. ASSUME NEW from \in CmdPlaces \ {"none", "sent ok", "sent failed"},
             NEW to \in CmdPlaces \ {"none", "sent ok", "sent failed"},
             Working(i, from, to), chan' = chan, LastOneActs'
      PROVE  IndInv'
  <2>1. cmd[i] = from /\ cmd' = [cmd EXCEPT ![i] = to] BY <1>1 DEF Working
  <2>2. /\ UNCHANGED <<handled, keyTask, typed, pressed, poller, feed, main, overlapped>>
        /\ cmd' \in [Presses -> CmdPlaces] /\ cmd'[i] = to
        /\ \A j \in Presses : j # i => cmd'[j] = cmd[j]
    BY <1>0, <1>1, <2>1 DEF Working
  <2>3. CommandsKnown'
    <3>1. \A a \in DOMAIN chan : IsReport(a) => chan[a].key \in Presses /\ chan[a].key # i
      <4> SUFFICES ASSUME NEW a \in DOMAIN chan, IsReport(a)
                   PROVE  chan[a].key \in Presses /\ chan[a].key # i
        OBVIOUS
      <4>1. chan[a] \in Events BY Member DEF IndInv, Kinds
      <4>2. chan[a].key \in Presses BY <4>1, EventKinds DEF IsReport
      <4>3. cmd[chan[a].key] \in {"sent ok", "sent failed"} BY DEF IndInv, CommandsKnown
      <4> QED BY <1>1, <2>1, <4>2, <4>3
    <3>2. \A j \in Presses : cmd'[j] # "none" => j <= handled
      BY <2>1, <2>2 DEF IndInv, CommandsKnown
    <3> QED BY <1>1, <2>2, <3>1, <3>2 DEF IndInv, CommandsKnown, IsReport
  <2>4. \A j \in Presses : cmd'[j] # "none" => typed[j] \in Commands
    BY <2>1, <2>2 DEF IndInv, TypeOK
  <2>5. KeysInOrder' BY <1>1, <2>2 DEF IndInv, KeysInOrder, IsKey
  <2> QED BY <1>1, <2>2, <2>3, <2>4, <2>5 DEF IndInv, TypeOK, Kinds
<1>2. CASE Launch(i)
  <2>1. \/ Working(i, "spawned", "running") \/ Working(i, "spawned", "failed")
    BY <1>2 DEF Launch
  <2>2. cmd[i] = "spawned" /\ cmd'[i] \in {"running", "failed"}
        /\ \A j \in Presses : j # i => cmd'[j] = cmd[j]
    BY <1>0, <2>1 DEF Working
  <2>3. UNCHANGED <<typed, unit, chan, overlapped>> BY <1>2, <2>1 DEF Launch, Working
  <2>4. LastOneActs' BY <2>2, <2>3 DEF IndInv, LastOneActs, Active, Succeeded
  <2> QED BY <1>1, <2>1, <2>3, <2>4 DEF CmdPlaces
<1>3. CASE Finish(i)
  <2>1. \/ Working(i, "running", "ok") /\ unit' = Effect(typed[i])
        \/ Working(i, "running", "failed") /\ unit' = unit
    BY <1>3 DEF Finish
  <2>2. cmd[i] = "running" /\ UNCHANGED <<typed, chan, overlapped>>
        /\ \A j \in Presses : j # i => cmd'[j] = cmd[j]
    BY <1>0, <1>3, <2>1 DEF Finish, Working
  <2>3. CASE cmd'[i] = "failed" /\ unit' = unit
    <3>1. LastOneActs' BY <2>2, <2>3 DEF IndInv, LastOneActs, Active, Succeeded
    <3> QED BY <1>1, <2>1, <2>2, <3>1 DEF CmdPlaces
  <2>4. CASE cmd'[i] = "ok" /\ unit' = Effect(typed[i])
    <3>1. LastOneActs'
      <4> SUFFICES ASSUME ~overlapped PROVE LastOneActs'
        BY <2>2 DEF LastOneActs
      <4>1. \A j \in Presses : j > i => cmd[j] = "none"
        BY <2>2 DEF IndInv, LastOneActs, Active
      <4>2. \A j \in Presses : j \in Nat BY Constants
      <4>3. ASSUME NEW j \in Presses, cmd'[j] \in Succeeded,
                   \A k \in Presses : k > j => cmd'[k] \notin Succeeded
            PROVE  j = i
        <5>1. ~(i > j) BY <2>4, <4>3 DEF Succeeded
        <5>2. ~(j > i) BY <2>2, <4>1, <4>3 DEF Succeeded
        <5> QED BY <4>2, <5>1, <5>2
      <4>4. unit' = (IF typed[i] \in {"X", "K"} THEN "down" ELSE "up")
        BY <2>4 DEF Effect
      <4>5. \A j, k \in Presses : cmd'[j] \in Active /\ k > j => cmd'[k] = "none"
        BY <2>2, <2>4, <4>1 DEF IndInv, LastOneActs, Active
      <4> QED BY <2>2, <4>3, <4>4, <4>5 DEF LastOneActs
    <3> QED BY <1>1, <2>1, <2>2, <3>1 DEF CmdPlaces
  <2> QED BY <1>0, <2>1, <2>3, <2>4 DEF Working
<1>4. CASE SendReport(i)
  <2>1. PICK to \in {"sent ok", "sent failed"}, o \in {"told ok", "told failed"} :
          /\ cmd[i] = (IF to = "sent ok" THEN "ok" ELSE "failed")
          /\ to = (IF o = "told ok" THEN "sent ok" ELSE "sent failed")
          /\ Working(i, cmd[i], to) /\ Send(Report(i, o))
    <3>1. CASE Working(i, "ok", "sent ok") /\ Send(Report(i, "told ok"))
      BY <3>1 DEF Working
    <3>2. CASE Working(i, "failed", "sent failed") /\ Send(Report(i, "told failed"))
      BY <3>2 DEF Working
    <3> QED BY <1>4, <3>1, <3>2 DEF SendReport
  <2> DEFINE e == Report(i, o)
  <2>2. /\ UNCHANGED <<handled, keyTask, typed, pressed, poller, feed, unit, main, overlapped>>
        /\ cmd' = [cmd EXCEPT ![i] = to]
        /\ chan' = Append(chan, e) /\ Len(chan) < Capacity
    BY <1>4, <2>1 DEF SendReport, Working, Send
  <2>3. /\ cmd' \in [Presses -> CmdPlaces] /\ cmd'[i] = to
        /\ \A j \in Presses : j # i => cmd'[j] = cmd[j]
    BY <1>0, <2>2 DEF CmdPlaces
  <2>4. e \in Events /\ e.kind = "report" /\ e.key = i /\ e.outcome = o
    BY <2>1, ReportKinds
  <2>5. chan \in Seq(Events) BY DEF IndInv, Kinds
  <2> HIDE DEF e
  <2>6. /\ chan' \in Seq(Events) /\ Len(chan') <= Capacity
        /\ \A a \in DOMAIN chan' :
              \/ a \in DOMAIN chan /\ chan'[a] = chan[a]
              \/ a = Len(chan) + 1 /\ chan'[a] = e
        /\ \A a \in DOMAIN chan : a \in Nat /\ a < Len(chan) + 1
        /\ \A a, b \in DOMAIN chan' : a < b => a \in DOMAIN chan /\ chan'[a] = chan[a]
    BY <2>2, <2>4, <2>5, Joined
  <2>7. \A a \in DOMAIN chan : IsReport(a) => chan[a].key \in Presses /\ chan[a].key # i
    <3> SUFFICES ASSUME NEW a \in DOMAIN chan, IsReport(a)
                 PROVE  chan[a].key \in Presses /\ chan[a].key # i
      OBVIOUS
    <3>1. chan[a] \in Events BY <2>5, Member
    <3>2. chan[a].key \in Presses BY <3>1, EventKinds DEF IsReport
    <3>3. cmd[chan[a].key] \in {"sent ok", "sent failed"} BY DEF IndInv, CommandsKnown
    <3> QED BY <2>1, <3>2, <3>3
  <2>8. CommandsKnown'
    <3>1. \A j \in Presses : cmd'[j] # "none" => j <= handled
      BY <2>1, <2>3 DEF IndInv, CommandsKnown
    <3>2. \A a \in DOMAIN chan' : IsReport(a)' =>
              cmd'[chan'[a].key] =
                  (IF chan'[a].outcome = "told ok" THEN "sent ok" ELSE "sent failed")
      <4> SUFFICES ASSUME NEW a \in DOMAIN chan', IsReport(a)'
                   PROVE  cmd'[chan'[a].key] =
                            (IF chan'[a].outcome = "told ok" THEN "sent ok" ELSE "sent failed")
        OBVIOUS
      <4>1. CASE a \in DOMAIN chan /\ chan'[a] = chan[a]
        <5>1. IsReport(a) BY <4>1 DEF IsReport
        <5>2. cmd[chan[a].key] = (IF chan[a].outcome = "told ok" THEN "sent ok" ELSE "sent failed")
          BY <4>1, <5>1 DEF IndInv, CommandsKnown
        <5> QED BY <2>3, <2>7, <4>1, <5>1, <5>2
      <4>2. CASE chan'[a] = e BY <2>1, <2>3, <2>4, <4>2
      <4> QED BY <2>6, <4>1, <4>2
    <3>4. \A a, b \in DOMAIN chan' :
              a < b /\ IsReport(a)' /\ IsReport(b)' => chan'[a].key # chan'[b].key
      <4> SUFFICES ASSUME NEW a \in DOMAIN chan', NEW b \in DOMAIN chan',
                          a < b, IsReport(a)', IsReport(b)'
                   PROVE  chan'[a].key # chan'[b].key
        OBVIOUS
      <4>1. a \in DOMAIN chan /\ chan'[a] = chan[a] /\ IsReport(a) BY <2>6 DEF IsReport
      <4>2. CASE b \in DOMAIN chan /\ chan'[b] = chan[b]
        <5>1. IsReport(b) BY <4>2 DEF IsReport
        <5> QED BY <4>1, <4>2, <5>1 DEF IndInv, CommandsKnown
      <4>3. CASE chan'[b] = e BY <2>4, <2>7, <4>1, <4>3
      <4> QED BY <2>6, <4>2, <4>3
    <3> QED BY <2>2, <3>1, <3>2, <3>4 DEF CommandsKnown
  <2>9. KeysInOrder'
    <3>1. \A a \in DOMAIN chan' : IsKey(a)' => a \in DOMAIN chan /\ chan'[a] = chan[a]
      BY <2>4, <2>6 DEF IsKey
    <3> QED BY <2>2, <3>1, ZenonT(60) DEF IndInv, KeysInOrder, IsKey
  <2>10. LastOneActs'
    BY <2>1, <2>2, <2>3 DEF IndInv, LastOneActs, Active, Succeeded
  <2>11. \A j \in Presses : cmd'[j] # "none" => typed[j] \in Commands
    BY <2>1, <2>3 DEF IndInv, TypeOK
  <2> QED BY <2>2, <2>3, <2>6, <2>8, <2>9, <2>10, <2>11 DEF IndInv, TypeOK, Kinds
<1> QED BY <1>2, <1>3, <1>4 DEF Command

\* ... and of the TUI.
LEMMA TuiKeeps ==
    ASSUME IndInv, TuiRecv \/ Exit
    PROVE  IndInv'
<1> USE DEF keyVars, taskVars, appVars
<1> DEFINE e == Head(chan)
<1>0. /\ chan \in Seq(Events) /\ Len(chan) <= Capacity /\ Capacity \in Nat
      /\ cmd \in [Presses -> CmdPlaces] /\ handled \in Nat
      /\ keyTask \in [at : KeyPlaces, read : Nat]
  BY Constants DEF IndInv, Kinds, TypeOK
<1>1. CASE Exit
  <2>1. ChannelInv' BY <1>1, ChannelKept DEF Exit
  <2>2. LastOneActs' BY <1>1, LastOneKept DEF Exit, IndInv
  <2> QED BY <1>1, <2>1, <2>2 DEF Exit, IndInv, TypeOK, Kinds, ChannelInv
<1>2. ASSUME chan # <<>>, chan' = Tail(chan)
      PROVE  /\ chan' \in Seq(Events) /\ Len(chan') <= Capacity
             /\ \A a \in DOMAIN chan' :
                   a \in Nat /\ a + 1 \in DOMAIN chan /\ 1 < a + 1 /\ chan'[a] = chan[a + 1]
             /\ 1 \in DOMAIN chan /\ e = chan[1] /\ e \in Events
  <2>1. Len(chan) \in Nat BY <1>0
  <2> QED BY <1>0, <1>2, <2>1, Left
<1>3. ASSUME chan # <<>>, chan' = Tail(chan), UNCHANGED <<handled, keyTask>>
      PROVE  KeysInOrder'
  <2>1. ASSUME NEW a \in DOMAIN chan', IsKey(a)'
        PROVE  a + 1 \in DOMAIN chan /\ IsKey(a + 1) /\ chan'[a] = chan[a + 1] /\ a \in Nat
    BY <1>2, <1>3, <2>1 DEF IsKey
  <2>2. ASSUME NEW a \in DOMAIN chan', NEW b \in DOMAIN chan', a < b, IsKey(a)', IsKey(b)'
        PROVE  chan'[a].key < chan'[b].key
    <3>1. a + 1 < b + 1 BY <2>1, <2>2
    <3> QED BY <2>1, <2>2, <3>1 DEF IndInv, KeysInOrder
  <2> QED BY <1>3, <2>1, <2>2 DEF IndInv, KeysInOrder
<1>4. ASSUME chan # <<>>, chan' = Tail(chan), handled <= handled', cmd' = cmd,
             handled' \in Nat
      PROVE  CommandsKnown'
  <2>1. ASSUME NEW a \in DOMAIN chan', IsReport(a)'
        PROVE  a + 1 \in DOMAIN chan /\ IsReport(a + 1) /\ chan'[a] = chan[a + 1] /\ a \in Nat
    BY <1>2, <1>4, <2>1 DEF IsReport
  <2>2. ASSUME NEW a \in DOMAIN chan', NEW b \in DOMAIN chan', a < b, IsReport(a)', IsReport(b)'
        PROVE  chan'[a].key # chan'[b].key
    <3>1. /\ a + 1 \in DOMAIN chan /\ IsReport(a + 1) /\ chan'[a] = chan[a + 1] /\ a \in Nat
          /\ b + 1 \in DOMAIN chan /\ IsReport(b + 1) /\ chan'[b] = chan[b + 1] /\ b \in Nat
      BY <2>1, <2>2
    <3>2. a + 1 < b + 1 BY <2>2, <3>1
    <3> QED BY <3>1, <3>2 DEF IndInv, CommandsKnown
  <2>3. ASSUME NEW i \in Presses, cmd[i] # "none" PROVE i <= handled'
    <3>1. i <= handled /\ i \in Nat BY <2>3, Constants DEF IndInv, CommandsKnown
    <3> QED BY <1>0, <1>4, <3>1
  <2>4. ASSUME NEW a \in DOMAIN chan', IsReport(a)'
        PROVE  cmd'[chan'[a].key] =
                  (IF chan'[a].outcome = "told ok" THEN "sent ok" ELSE "sent failed")
    <3>1. a + 1 \in DOMAIN chan /\ IsReport(a + 1) /\ chan'[a] = chan[a + 1] BY <2>1, <2>4
    <3>2. cmd[chan[a + 1].key] =
              (IF chan[a + 1].outcome = "told ok" THEN "sent ok" ELSE "sent failed")
      BY <3>1 DEF IndInv, CommandsKnown
    <3> QED BY <1>4, <3>1, <3>2
  <2> QED BY <1>4, <2>2, <2>3, <2>4 DEF CommandsKnown
<1> HIDE DEF e
<1>5. CASE TuiUpdate \/ TuiError \/ (TuiOther /\ cmd' = cmd)
  <2>1. /\ chan # <<>> /\ chan' = Tail(chan)
        /\ UNCHANGED <<typed, pressed, handled, keyTask, poller, feed, cmd, unit, main, overlapped>>
    BY <1>5 DEF TuiUpdate, TuiError, TuiOther, Receive
  <2>2. LastOneActs' BY <2>1, LastOneKept DEF IndInv
  <2>3. KeysInOrder' /\ CommandsKnown'
    <3>1. handled <= handled' /\ handled' \in Nat BY <1>0, <2>1
    <3> QED BY <1>3, <1>4, <2>1, <3>1
  <2> QED BY <1>2, <2>1, <2>2, <2>3 DEF IndInv, TypeOK, Kinds
<1>6. CASE TuiOther /\ e.kind = "report"
  <2>1. /\ chan # <<>> /\ chan' = Tail(chan) /\ cmd' = [cmd EXCEPT ![e.key] = e.outcome]
        /\ UNCHANGED <<typed, pressed, handled, keyTask, poller, feed, unit, main, overlapped>>
    BY <1>6 DEF TuiOther, Receive, e
  <2>2. e.key \in Presses /\ e.outcome \in {"told ok", "told failed"}
    BY <1>2, <1>6, <2>1, EventKinds
  <2>3. /\ cmd[e.key] = (IF e.outcome = "told ok" THEN "sent ok" ELSE "sent failed")
        /\ IsReport(1) /\ 1 \in DOMAIN chan /\ chan[1] = e
    BY <1>2, <1>6, <2>1 DEF IndInv, CommandsKnown, IsReport
  <2>4. /\ cmd' \in [Presses -> CmdPlaces] /\ cmd'[e.key] = e.outcome
        /\ \A j \in Presses : j # e.key => cmd'[j] = cmd[j]
    BY <1>0, <2>1, <2>2 DEF CmdPlaces
  <2>5. ASSUME NEW a \in DOMAIN chan', IsReport(a)'
        PROVE  /\ a + 1 \in DOMAIN chan /\ IsReport(a + 1) /\ chan'[a] = chan[a + 1] /\ a \in Nat
               /\ chan[a + 1].key \in Presses /\ chan[a + 1].key # e.key
    <3>1. /\ a + 1 \in DOMAIN chan /\ IsReport(a + 1) /\ chan'[a] = chan[a + 1] /\ a \in Nat
          /\ 1 < a + 1
      BY <1>2, <2>1, <2>5 DEF IsReport
    <3>2. chan[a + 1] \in Events BY <1>0, <3>1, Member
    <3>3. chan[a + 1].key \in Presses BY <3>1, <3>2, EventKinds DEF IsReport
    <3>4. chan[1].key # chan[a + 1].key BY <2>3, <3>1 DEF IndInv, CommandsKnown
    <3> QED BY <2>3, <3>1, <3>3, <3>4
  <2>6. CommandsKnown'
    <3>1. ASSUME NEW a \in DOMAIN chan', IsReport(a)'
          PROVE  cmd'[chan'[a].key] =
                    (IF chan'[a].outcome = "told ok" THEN "sent ok" ELSE "sent failed")
      <4>1. cmd[chan[a + 1].key] =
                (IF chan[a + 1].outcome = "told ok" THEN "sent ok" ELSE "sent failed")
        BY <2>5, <3>1 DEF IndInv, CommandsKnown
      <4> QED BY <2>4, <2>5, <3>1, <4>1
    <3>2. ASSUME NEW a \in DOMAIN chan', NEW b \in DOMAIN chan', a < b, IsReport(a)', IsReport(b)'
          PROVE  chan'[a].key # chan'[b].key
      <4>1. a + 1 < b + 1 BY <2>5, <3>2
      <4> QED BY <2>5, <3>2, <4>1 DEF IndInv, CommandsKnown
    <3>3. \A i \in Presses : cmd'[i] # "none" => i <= handled
      BY <2>3, <2>4 DEF IndInv, CommandsKnown
    <3> QED BY <2>1, <3>1, <3>2, <3>3 DEF CommandsKnown
  <2>7. LastOneActs'
    BY <2>1, <2>2, <2>3, <2>4, ZenonT(60) DEF IndInv, LastOneActs, Active, Succeeded
  <2>8. KeysInOrder' BY <1>3, <2>1
  <2>9. \A i \in Presses : cmd'[i] # "none" => typed[i] \in Commands
    BY <2>3, <2>4 DEF IndInv, TypeOK
  <2> QED BY <1>2, <2>1, <2>4, <2>6, <2>7, <2>8, <2>9 DEF IndInv, TypeOK, Kinds
<1>7. ASSUME chan # <<>>, e.kind = "key"
      PROVE  /\ e.key \in Presses /\ e.key \in Nat /\ handled < e.key /\ e.key <= keyTask.read
             /\ keyTask.at = "send" => e.key < keyTask.read
             /\ \A i \in Presses : cmd[i] # "none" => i < e.key
             /\ 1 \in DOMAIN chan /\ chan[1] = e /\ IsKey(1)
  <2>1. Len(chan) \in Nat BY <1>0
  <2>2. 1 \in DOMAIN chan /\ e = chan[1] /\ e \in Events BY <1>0, <1>7, Left DEF e
  <2>3. e.key \in Nat BY <1>7, <2>2, EventKinds
  <2>4. /\ handled < e.key /\ e.key <= keyTask.read
        /\ keyTask.at = "send" => e.key < keyTask.read
    BY <1>7, <2>2 DEF IndInv, KeysInOrder, IsKey
  <2>5. e.key \in Presses
    <3>1. keyTask.read <= pressed /\ pressed <= Len(typed) /\ pressed \in Nat /\ typed \in Scripts
      BY DEF IndInv, TypeOK, Kinds
    <3>2. DOMAIN typed = 1..Len(typed) /\ DOMAIN typed \subseteq Presses /\ Len(typed) \in Nat
      BY <3>1, Constants
    <3>3. e.key \in 1..Len(typed) BY <1>0, <2>3, <2>4, <3>1, <3>2
    <3> QED BY <3>2, <3>3
  <2>6. ASSUME NEW i \in Presses, cmd[i] # "none" PROVE i < e.key
    <3>1. i <= handled /\ i \in Nat BY <2>6, Constants DEF IndInv, CommandsKnown
    <3> QED BY <1>0, <2>3, <2>4, <3>1
  <2> QED BY <1>7, <2>2, <2>3, <2>4, <2>5, <2>6 DEF IsKey
<1>8. CASE TuiKey
  <2> DEFINE starts == typed[e.key] \in Commands
  <2>1. /\ chan # <<>> /\ chan' = Tail(chan) /\ e.kind = "key" /\ handled' = e.key
        /\ cmd' = IF starts THEN [cmd EXCEPT ![e.key] = "spawned"] ELSE cmd
        /\ overlapped' = (overlapped \/ (starts /\ \E i \in Presses : cmd[i] \in Active))
        /\ UNCHANGED <<typed, pressed, keyTask, poller, feed, unit, main>>
    BY <1>8 DEF TuiKey, Receive, e
  <2>2. /\ e.key \in Presses /\ e.key \in Nat /\ handled < e.key /\ e.key <= keyTask.read
        /\ keyTask.at = "send" => e.key < keyTask.read
        /\ \A i \in Presses : cmd[i] # "none" => i < e.key
        /\ 1 \in DOMAIN chan /\ chan[1] = e /\ IsKey(1)
    BY <1>7, <2>1
  <2>3. /\ cmd' \in [Presses -> CmdPlaces] /\ cmd[e.key] = "none"
        /\ cmd'[e.key] = IF starts THEN "spawned" ELSE "none"
        /\ \A j \in Presses : j # e.key => cmd'[j] = cmd[j]
    <3>1. cmd[e.key] = "none" BY <2>2
    <3>2. CASE starts BY <1>0, <2>1, <2>2, <3>1, <3>2 DEF CmdPlaces
    <3>3. CASE ~starts BY <1>0, <2>1, <2>2, <3>1, <3>3 DEF CmdPlaces
    <3> QED BY <3>2, <3>3
  <2>4. KeysInOrder'
    <3>1. ASSUME NEW a \in DOMAIN chan', IsKey(a)'
          PROVE  /\ a + 1 \in DOMAIN chan /\ IsKey(a + 1) /\ chan'[a] = chan[a + 1] /\ a \in Nat
                 /\ e.key < chan[a + 1].key
      <4>1. /\ a + 1 \in DOMAIN chan /\ chan'[a] = chan[a + 1] /\ a \in Nat /\ 1 < a + 1
        BY <1>2, <2>1, <3>1
      <4>2. IsKey(a + 1) BY <3>1, <4>1 DEF IsKey
      <4>3. chan[1].key < chan[a + 1].key BY <2>2, <4>1, <4>2 DEF IndInv, KeysInOrder
      <4> QED BY <2>2, <4>1, <4>2, <4>3
    <3>2. ASSUME NEW a \in DOMAIN chan', NEW b \in DOMAIN chan', a < b, IsKey(a)', IsKey(b)'
          PROVE  chan'[a].key < chan'[b].key
      <4>1. a + 1 < b + 1 BY <3>1, <3>2
      <4> QED BY <3>1, <3>2, <4>1 DEF IndInv, KeysInOrder
    <3> QED BY <2>1, <2>2, <3>1, <3>2 DEF IndInv, KeysInOrder
  <2>5. CommandsKnown'
    <3>1. ASSUME NEW a \in DOMAIN chan', IsReport(a)'
          PROVE  /\ a + 1 \in DOMAIN chan /\ IsReport(a + 1) /\ chan'[a] = chan[a + 1] /\ a \in Nat
                 /\ cmd'[chan[a + 1].key] =
                       (IF chan[a + 1].outcome = "told ok" THEN "sent ok" ELSE "sent failed")
      <4>1. a + 1 \in DOMAIN chan /\ chan'[a] = chan[a + 1] /\ a \in Nat BY <1>2, <2>1, <3>1
      <4>2. IsReport(a + 1) BY <3>1, <4>1 DEF IsReport
      <4>3. chan[a + 1].key \in Presses BY <1>0, <4>1, <4>2, Member, EventKinds DEF IsReport
      <4>4. cmd[chan[a + 1].key] =
                (IF chan[a + 1].outcome = "told ok" THEN "sent ok" ELSE "sent failed")
        BY <4>1, <4>2 DEF IndInv, CommandsKnown
      <4>5. chan[a + 1].key # e.key BY <2>3, <4>4
      <4> QED BY <2>3, <4>1, <4>2, <4>3, <4>4, <4>5
    <3>2. ASSUME NEW a \in DOMAIN chan', NEW b \in DOMAIN chan', a < b, IsReport(a)', IsReport(b)'
          PROVE  chan'[a].key # chan'[b].key
      <4>1. /\ a + 1 \in DOMAIN chan /\ IsReport(a + 1) /\ chan'[a] = chan[a + 1] /\ a \in Nat
            /\ b + 1 \in DOMAIN chan /\ IsReport(b + 1) /\ chan'[b] = chan[b + 1] /\ b \in Nat
        BY <3>1, <3>2
      <4>2. a + 1 < b + 1 BY <3>2, <4>1
      <4> QED BY <4>1, <4>2 DEF IndInv, CommandsKnown
    <3>3. ASSUME NEW i \in Presses, cmd'[i] # "none" PROVE i <= handled'
      <4>1. CASE i = e.key BY <2>1, <2>2, <4>1
      <4>2. CASE i # e.key
        <5>1. i < e.key /\ i \in Nat BY <2>2, <2>3, <3>3, <4>2, Constants
        <5> QED BY <2>1, <2>2, <5>1
      <4> QED BY <4>1, <4>2
    <3> QED BY <3>1, <3>2, <3>3 DEF CommandsKnown
  <2>6. LastOneActs'
    <3> SUFFICES ASSUME ~overlapped' PROVE LastOneActs' BY DEF LastOneActs
    <3>1. ~overlapped /\ (starts => \A i \in Presses : cmd[i] \notin Active) BY <2>1
    <3>2. \A i \in Presses : cmd'[i] \in Succeeded <=> cmd[i] \in Succeeded
      BY <2>3 DEF Succeeded
    <3>3. ASSUME NEW i \in Presses, NEW j \in Presses, cmd'[i] \in Active, j > i
          PROVE  cmd'[j] = "none"
      <4>1. i \in Nat /\ j \in Nat BY Constants
      <4>2. CASE starts
        <5>1. i = e.key BY <2>3, <3>1, <3>3, <4>2
        <5>2. ~(j < e.key) BY <3>3, <4>1, <5>1
        <5> QED BY <2>2, <2>3, <3>3, <4>1, <5>1, <5>2
      <4>3. CASE ~starts
        <5>1. cmd' = cmd BY <2>1, <4>3
        <5> QED BY <3>1, <3>3, <5>1 DEF IndInv, LastOneActs
      <4> QED BY <4>2, <4>3
    <3> QED BY <2>1, <3>1, <3>2, <3>3 DEF IndInv, LastOneActs
  <2>7. \A i \in Presses : cmd'[i] # "none" => typed'[i] \in Commands
    BY <2>1, <2>3 DEF IndInv, TypeOK
  <2>8. overlapped' \in BOOLEAN BY <2>1 DEF IndInv, Kinds
  <2> QED BY <1>2, <2>1, <2>2, <2>3, <2>4, <2>5, <2>6, <2>7, <2>8 DEF IndInv, TypeOK, Kinds
<1>9. CASE TuiQuit
  <2>1. /\ chan # <<>> /\ e.kind = "key" /\ chan' = <<>> /\ handled' = e.key
        /\ main' = "teardown" /\ poller' = Dropped /\ feed' = [f \in Feeds |-> "over"]
        /\ UNCHANGED <<typed, pressed, keyTask, cmd, unit, overlapped>>
    BY <1>9 DEF TuiQuit, e
  <2>2. /\ e.key \in Presses /\ e.key \in Nat /\ handled < e.key /\ e.key <= keyTask.read
        /\ keyTask.at = "send" => e.key < keyTask.read
        /\ \A i \in Presses : cmd[i] # "none" => i < e.key
    BY <1>7, <2>1
  <2>3. chan' \in Seq(Events) /\ Len(chan') = 0 /\ DOMAIN chan' = {} BY <2>1
  <2>4. KeysInOrder' BY <2>1, <2>2, <2>3 DEF KeysInOrder
  <2>5. CommandsKnown'
    <3>1. \A i \in Presses : cmd[i] # "none" => i <= e.key BY <2>2, Constants
    <3> QED BY <2>1, <2>3, <3>1 DEF CommandsKnown
  <2>6. LastOneActs' BY <2>1, LastOneKept DEF IndInv
  <2>7. poller' \in Polls /\ feed' \in [Feeds -> FeedPlaces]
    BY <2>1 DEF Dropped, Asleep, Polls, FeedPlaces
  <2> QED BY <1>0, <2>1, <2>2, <2>3, <2>4, <2>5, <2>6, <2>7
          DEF IndInv, TypeOK, Kinds, Polls, FeedPlaces
<1>10. CASE TuiOther /\ e.kind # "report"
  <2>1. cmd' = cmd BY <1>10 DEF TuiOther, e
  <2> QED BY <1>5, <1>10, <2>1
<1> QED BY <1>1, <1>5, <1>6, <1>8, <1>9, <1>10 DEF TuiRecv

------------------------------------------------------------------------------
(* Theorems.                                                               *)

\* The strengthened invariant holds in every reachable state, whatever the operator
\* presses, the commands do and the channel holds.
THEOREM Inductive == Spec => []IndInv
<1>1. Init => IndInv
  <2> SUFFICES ASSUME Init PROVE IndInv OBVIOUS
  <2>1. /\ typed \in Scripts /\ pressed = 0 /\ handled = 0 /\ keyTask = [at |-> "poll", read |-> 0]
        /\ poller = Asleep /\ feed = [f \in Feeds |-> IF f = "journal" THEN "start" ELSE "work"]
        /\ cmd = [i \in Presses |-> "none"] /\ chan = <<>> /\ main = "loop" /\ overlapped = FALSE
    BY DEF Init
  <2>2. Len(typed) \in Nat BY <2>1, Constants
  <2>3. chan \in Seq(Events) /\ Len(chan) = 0 /\ DOMAIN chan = {} BY <2>1
  <2>4. Kinds BY <2>1, <2>3 DEF Kinds, KeyPlaces, Polls, Asleep, FeedPlaces, CmdPlaces
  <2>5. TypeOK BY <2>1, <2>2, <2>3, Constants DEF TypeOK, Asleep
  <2>6. KeysInOrder /\ CommandsKnown BY <2>1, <2>3 DEF KeysInOrder, CommandsKnown
  <2>7. LastOneActs BY <2>1 DEF LastOneActs, Active, Succeeded
  <2> QED BY <2>4, <2>5, <2>6, <2>7 DEF IndInv
<1>2. IndInv /\ [Next]_vars => IndInv'
  <2> SUFFICES ASSUME IndInv, [Next]_vars PROVE IndInv' OBVIOUS
  <2>1. CASE UNCHANGED vars
    <3>1. ChannelInv' /\ LastOneActs'
      BY <2>1, ChannelKept, LastOneKept DEF IndInv, vars, keyVars, taskVars, appVars
    <3> QED BY <2>1, <3>1
            DEF IndInv, TypeOK, Kinds, ChannelInv, vars, keyVars, taskVars, appVars
  <2> QED BY <2>1, KeysKeep, PollersKeep, CommandsKeep, TuiKeeps DEF Next
<1> QED BY <1>1, <1>2, PTL DEF Spec

\* Every task is at a place of its own, the keys handled are among those read, and the
\* channel within its capacity.
THEOREM TypeCorrect == Spec => []TypeOK
<1>1. IndInv => TypeOK BY DEF IndInv
<1> QED BY <1>1, Inductive, PTL

\* With no command under way, and none that was started during another, the unit is as
\* the last one that succeeded left it: a stop that is last wins and stays.
THEOREM LastWins == Spec => []LastCommandWins
<1>1. IndInv => LastCommandWins
  BY DEF IndInv, LastOneActs, LastCommandWins, Succeeded
<1> QED BY <1>1, Inductive, PTL

------------------------------------------------------------------------------
(* Induction, and the news in a channel.                                   *)

\* Some number is the least of them.
LEMMA Least ==
    ASSUME NEW T, T \subseteq Nat, T # {}
    PROVE  \E x \in T : \A y \in T : x <= y
<1> DEFINE Less == {p \in Nat \X Nat : p[1] < p[2]}
<1>1. OpToRel(<, Nat) = Less
  BY DEF OpToRel
<1>2. IsWellFoundedOn(Less, Nat)
  BY <1>1, NatLessThanWellFounded
<1>3. PICK x \in T : \A y \in T : <<y, x>> \notin Less
  BY <1>2, WFMin
<1>4. \A y \in T : y \in Nat /\ x \in Nat /\ ~(y < x)
  BY <1>3
<1> QED
  BY <1>3, <1>4

\* Induction up to a bound: what holds of 0, and of n if it does of n - 1.
LEMMA UpTo ==
    ASSUME NEW N \in Nat, NEW T, 0 \in T, \A n \in 1..N : n - 1 \in T => n \in T
    PROVE  0..N \subseteq T
<1> SUFFICES ASSUME 0..N \ T # {} PROVE FALSE
  OBVIOUS
<1> DEFINE R == 0..N \ T
<1>1. R \subseteq Nat /\ R # {}
  OBVIOUS
<1>2. PICK x \in R : \A y \in R : x <= y
  <2> HIDE DEF R
  <2> QED
    BY <1>1, Least
<1>3. x \in 1..N /\ x - 1 \in 0..N
  BY <1>2
<1>4. x - 1 \in T
  BY <1>2, <1>3
<1> QED
  BY <1>2, <1>3, <1>4

Items == [says : BOOLEAN, why : Whys, sample : BOOLEAN]
Adds(c, f) == f[0] = <<>> /\ \A n \in 1..Len(c) : f[n] = f[n - 1] \o Carried(c[n])

\* An event is at most one piece of news.
LEMMA CarriedType ==
    ASSUME NEW e \in Events
    PROVE  Carried(e) \in Seq(Items) /\ Len(Carried(e)) <= 1
<1>1. /\ e.kind = "error" => e.why \in Whys
      /\ e.kind = "update" => e.sample \in BOOLEAN
  BY DEF Events, KeyEvents, Reports, Quiets
<1>2. \A w \in Whys : Says(w) \in Seq(Items) /\ Len(Says(w)) = 1
  BY DEF Says, Items
<1>3. \A b \in BOOLEAN : Shows(b) \in Seq(Items) /\ Len(Shows(b)) = 1
  BY DEF Shows, Items, Whys
<1> QED
  BY <1>1, <1>2, <1>3 DEF Carried, Whys

\* The news up to each event of a channel adds up, ...
LEMMA NewsAdds ==
    ASSUME NEW c \in Seq(Events)
    PROVE  \E f : /\ Adds(c, f) /\ \A n \in 0..Len(c) : f[n] \in Seq(Items)
                  /\ News(c) = f[Len(c)]
<1> DEFINE Summed(f, k) == f = [n \in 0..k |-> IF n = 0 THEN <<>> ELSE f[n - 1] \o Carried(c[n])]
           T == {k \in 0..Len(c) : \E f : Summed(f, k)}
<1>0. Len(c) \in Nat
  OBVIOUS
<1>1. \E f : Summed(f, 0)
  <2>1. Summed([n \in 0..0 |-> <<>>], 0)
    OBVIOUS
  <2> QED
    BY <2>1
<1>2. ASSUME NEW k \in 1..Len(c), NEW f, Summed(f, k - 1) PROVE \E g : Summed(g, k)
  <2> DEFINE g == [n \in 0..k |-> IF n = k THEN f[k - 1] \o Carried(c[k]) ELSE f[n]]
  <2>1. ASSUME NEW n \in 0..k
        PROVE  g[n] = IF n = 0 THEN <<>> ELSE g[n - 1] \o Carried(c[n])
    <3>1. CASE n = k
      BY <3>1
    <3>2. CASE n # k
      <4>1. n \in 0..k - 1 /\ (n # 0 => n - 1 \in 0..k /\ n - 1 # k)
        BY <3>2
      <4>2. f[n] = IF n = 0 THEN <<>> ELSE f[n - 1] \o Carried(c[n])
        BY <1>2, <4>1
      <4> QED
        BY <3>2, <4>1, <4>2
    <3> QED
      BY <3>1, <3>2
  <2>2. Summed(g, k)
    BY <2>1
  <2> QED
    BY <2>2
<1>3. \E f : Summed(f, Len(c))
  <2> HIDE DEF Summed
  <2>1. 0 \in T /\ \A k \in 1..Len(c) : k - 1 \in T => k \in T
    BY <1>0, <1>1, <1>2
  <2>2. 0..Len(c) \subseteq T
    <3> HIDE DEF T
    <3> QED
      BY <1>0, <2>1, UpTo
  <2>3. Len(c) \in T
    BY <1>0, <2>2
  <2> QED
    BY <2>3
<1> DEFINE F == CHOOSE f : Summed(f, Len(c))
<1>4. Summed(F, Len(c))
  BY <1>3
<1>5. News(c) = F[Len(c)]
  BY DEF News
<1> HIDE DEF F
<1>6. Adds(c, F)
  <2>1. F[0] = <<>>
    BY <1>0, <1>4
  <2>2. ASSUME NEW n \in 1..Len(c) PROVE F[n] = F[n - 1] \o Carried(c[n])
    <3>1. n \in 0..Len(c) /\ n # 0
      BY <1>0
    <3> QED
      BY <1>4, <3>1
  <2> QED
    BY <2>1, <2>2 DEF Adds
<1> HIDE DEF Summed
<1>7. ASSUME NEW n \in 1..Len(c), F[n - 1] \in Seq(Items) PROVE F[n] \in Seq(Items)
  <2>1. F[n] = F[n - 1] \o Carried(c[n])
    BY <1>6 DEF Adds
  <2>2. Carried(c[n]) \in Seq(Items)
    BY CarriedType, Member
  <2> QED
    BY <1>7, <2>1, <2>2
<1>8. F[0] \in Seq(Items)
  BY <1>6 DEF Adds
<1>9. \A n \in 0..Len(c) : F[n] \in Seq(Items)
  <2> DEFINE U == {n \in 0..Len(c) : F[n] \in Seq(Items)}
  <2>1. 0 \in U /\ \A n \in 1..Len(c) : n - 1 \in U => n \in U
    BY <1>0, <1>7, <1>8
  <2>2. 0..Len(c) \subseteq U
    <3> HIDE DEF U
    <3> QED
      BY <1>0, <2>1, UpTo
  <2> QED
    BY <2>2
<1> QED
  BY <1>5, <1>6, <1>9

\* Channels that agree up to an event have the same news up to there.
LEMMA SameNews ==
    ASSUME NEW c, NEW d, NEW f, NEW g, Adds(c, f), Adds(d, g), Len(c) \in Nat, Len(d) \in Nat,
           NEW k \in Nat, k <= Len(c), k <= Len(d), \A i \in 1..k : c[i] = d[i]
    PROVE  f[k] = g[k]
<1> DEFINE T == {n \in 0..k : f[n] = g[n]}
<1>1. 0 \in T
  BY DEF Adds
<1>2. ASSUME NEW n \in 1..k, n - 1 \in T PROVE n \in T
  <2>1. n \in 1..Len(c) /\ n \in 1..Len(d) /\ f[n - 1] = g[n - 1] /\ c[n] = d[n]
    BY <1>2
  <2>2. f[n] = f[n - 1] \o Carried(c[n]) /\ g[n] = g[n - 1] \o Carried(d[n])
    BY <2>1 DEF Adds
  <2>3. f[n] = g[n] /\ n \in 0..k
    BY <2>1, <2>2
  <2> QED
    BY <2>3
<1>3. 0..k \subseteq T
  <2> HIDE DEF T
  <2> QED
    BY <1>1, <1>2, UpTo
<1> QED
  BY <1>3

\* What is sent comes last, ...
LEMMA NewsJoins ==
    ASSUME NEW c \in Seq(Events), NEW e \in Events
    PROVE  News(Append(c, e)) = News(c) \o Carried(e)
<1> DEFINE d == Append(c, e)
<1>1. /\ d \in Seq(Events) /\ Len(c) \in Nat /\ Len(d) = Len(c) + 1 /\ d[Len(c) + 1] = e
      /\ \A i \in 1..Len(c) : d[i] = c[i]
  <2> DEFINE E == Events
  <2> HIDE DEF E
  <2>1. \A q \in Seq(E), x \in E :
           /\ Append(q, x) \in Seq(E) /\ Len(q) \in Nat /\ Len(Append(q, x)) = Len(q) + 1
           /\ Append(q, x)[Len(q) + 1] = x
           /\ \A i \in 1..Len(q) : Append(q, x)[i] = q[i]
    OBVIOUS
  <2> QED
    BY <2>1 DEF E
<1> HIDE DEF d
<1>2. PICK f : Adds(c, f) /\ News(c) = f[Len(c)]
  BY NewsAdds
<1>3. PICK g : Adds(d, g) /\ News(d) = g[Len(d)]
  BY <1>1, NewsAdds
<1>4. f[Len(c)] = g[Len(c)]
  BY <1>1, <1>2, <1>3, SameNews
<1>5. ASSUME NEW m, m = Len(c) + 1 PROVE g[m] = g[Len(c)] \o Carried(d[m])
  <2>1. m \in 1..Len(d) /\ m - 1 = Len(c)
    BY <1>1, <1>5
  <2>2. g[m] = g[m - 1] \o Carried(d[m])
    BY <1>3, <2>1 DEF Adds
  <2> QED
    BY <2>1, <2>2
<1>6. News(d) = News(c) \o Carried(e)
  BY <1>1, <1>2, <1>3, <1>4, <1>5
<1> QED
  BY <1>6 DEF d

\* ... and what is received was first.
LEMMA NewsLeaves ==
    ASSUME NEW c \in Seq(Events), c # <<>>
    PROVE  News(c) = Carried(Head(c)) \o News(Tail(c))
<1> DEFINE d == Tail(c)
<1>1. /\ d \in Seq(Events) /\ Len(c) \in Nat \ {0} /\ Len(d) = Len(c) - 1 /\ Head(c) = c[1]
      /\ \A i \in 1..Len(d) : d[i] = c[i + 1]
  <2> DEFINE E == Events
  <2> HIDE DEF E
  <2>1. ASSUME NEW q \in Seq(E), q # <<>>
        PROVE  /\ Tail(q) \in Seq(E) /\ Len(q) \in Nat \ {0} /\ Len(Tail(q)) = Len(q) - 1
               /\ Head(q) = q[1] /\ \A i \in 1..Len(Tail(q)) : Tail(q)[i] = q[i + 1]
    BY <2>1
  <2> QED
    BY <2>1 DEF E
<1> HIDE DEF d
<1>2. PICK f : Adds(c, f) /\ News(c) = f[Len(c)]
  BY NewsAdds
<1>3. PICK g : Adds(d, g) /\ News(d) = g[Len(d)] /\ \A n \in 0..Len(d) : g[n] \in Seq(Items)
  BY <1>1, NewsAdds
<1> DEFINE a == Carried(c[1])
           Moved(n) == \A m \in Nat : m = n + 1 => f[m] = a \o g[n]
           T == {n \in 0..Len(d) : Moved(n)}
<1>4. a \in Seq(Items)
  BY <1>1, CarriedType, Member
<1>5. \A m \in 1..Len(c) : f[m] = f[m - 1] \o Carried(c[m])
  BY <1>2 DEF Adds
<1>6. 0 \in T
  <2>1. 1 \in 1..Len(c) /\ 1 - 1 = 0 /\ f[0] = <<>> /\ g[0] = <<>>
    BY <1>1, <1>2, <1>3 DEF Adds
  <2>2. f[1] = <<>> \o a
    BY <1>5, <2>1
  <2>3. f[1] = a \o g[0]
    BY <1>4, <2>1, <2>2, ConcatEmptySeq
  <2>4. \A m \in Nat : m = 0 + 1 => m = 1
    OBVIOUS
  <2>5. Moved(0)
    BY <2>3, <2>4
  <2> HIDE DEF Moved
  <2> QED
    BY <1>1, <2>5
<1>7. ASSUME NEW n \in 1..Len(d), Moved(n - 1), NEW m \in Nat, m = n + 1
      PROVE  f[m] = a \o g[n]
  <2> DEFINE b == Carried(d[n])
             h == g[n - 1]
  <2>1. m \in 1..Len(c) /\ m - 1 = n /\ c[m] = d[n] /\ n \in Nat /\ n = n - 1 + 1
    BY <1>1, <1>7
  <2>2. f[m] = f[n] \o b
    BY <1>5, <2>1
  <2>3. g[n] = h \o b
    BY <1>3 DEF Adds
  <2>4. f[n] = a \o h
    BY <1>7, <2>1
  <2>5. a \in Seq(Items) /\ b \in Seq(Items) /\ h \in Seq(Items)
    BY <1>1, <1>3, <1>4, CarriedType, Member, SMTT(30)
  <2> HIDE DEF a, b, h
  <2>6. (a \o h) \o b = a \o (h \o b)
    BY <2>5, ConcatAssociative, SMTT(30)
  <2> QED
    BY <2>2, <2>3, <2>4, <2>6
<1>8. \A n \in 1..Len(d) : n - 1 \in T => n \in T
  <2>1. \A n \in 1..Len(d) : Moved(n - 1) => Moved(n)
    BY <1>7
  <2> HIDE DEF Moved
  <2> QED
    BY <1>1, <2>1
<1>9. f[Len(c)] = a \o g[Len(d)]
  <2>1. Len(d) \in Nat /\ Len(c) \in Nat /\ Len(c) = Len(d) + 1
    BY <1>1
  <2>2. 0..Len(d) \subseteq T
    <3> HIDE DEF T
    <3> QED
      BY <1>6, <1>8, <2>1, UpTo
  <2>3. Moved(Len(d))
    <3> HIDE DEF Moved
    <3> QED
      BY <2>1, <2>2
  <2> QED
    BY <2>1, <2>3
<1> QED
  BY <1>1, <1>2, <1>3, <1>9 DEF d

\* An empty channel has none.
LEMMA NewsNone == News(<<>>) = <<>>
<1>1. <<>> \in Seq(Events) /\ Len(<<>>) = 0
  OBVIOUS
<1> QED
  BY <1>1, NewsAdds DEF Adds

------------------------------------------------------------------------------
(* What the operator will have been told.                                  *)

Belief(n, t) ==
    LET said == {i \in DOMAIN n : n[i].says}
    IN  IF said = {} THEN t ELSE n[CHOOSE i \in said : \A j \in said : j <= i].why

IsLastSaid(n, i) ==
    i \in DOMAIN n /\ n[i].says /\ \A j \in DOMAIN n : n[j].says => j <= i

\* The last piece of news counts, if there is one.
LEMMA BeliefIs ==
    ASSUME NEW n \in Seq(Items), NEW t
    PROVE  /\ (\A i \in DOMAIN n : ~n[i].says) => Belief(n, t) = t
           /\ \A i : IsLastSaid(n, i) => Belief(n, t) = n[i].why
           /\ (\A i \in DOMAIN n : ~n[i].says) \/ \E i : IsLastSaid(n, i)
<1> DEFINE said == {i \in DOMAIN n : n[i].says}
<1>0. Len(n) \in Nat /\ DOMAIN n = 1..Len(n)
  OBVIOUS
<1>1. said = {} => Belief(n, t) = t
  BY DEF Belief
<1>2. ASSUME NEW i, IsLastSaid(n, i) PROVE Belief(n, t) = n[i].why
  <2>1. i \in said /\ \A j \in said : j <= i
    BY <1>2 DEF IsLastSaid
  <2>2. \A k \in said : (\A j \in said : j <= k) => k = i
    BY <1>0, <2>1
  <2>3. (CHOOSE k \in said : \A j \in said : j <= k) = i
    BY <2>1, <2>2
  <2> QED
    BY <2>1, <2>3 DEF Belief
<1>3. ASSUME NEW i \in said PROVE \E k : IsLastSaid(n, k)
  <2> DEFINE T == {d \in 0..Len(n) : Len(n) - d \in said}
  <2>1. T \subseteq Nat /\ Len(n) - i \in T
    BY <1>0
  <2>2. PICK d \in T : \A y \in T : d <= y
    <3> HIDE DEF T
    <3> QED
      BY <2>1, Least
  <2>3. ASSUME NEW j \in said PROVE j <= Len(n) - d
    <3>1. Len(n) - j \in T
      BY <1>0
    <3> QED
      BY <1>0, <2>2, <3>1, SMTT(30)
  <2>4. IsLastSaid(n, Len(n) - d)
    BY <2>2, <2>3 DEF IsLastSaid
  <2> QED
    BY <2>4
<1> QED
  BY <1>1, <1>2, <1>3

\* News that is found replaces what was believed, ...
LEMMA BeliefFound ==
    ASSUME NEW n \in Seq(Items), NEW e \in Items, NEW t
    PROVE  Belief(n \o <<e>>, t) = IF e.says THEN e.why ELSE Belief(n, t)
<1> DEFINE m == n \o <<e>>
<1>1. /\ m \in Seq(Items) /\ Len(n) \in Nat /\ Len(m) = Len(n) + 1 /\ m[Len(n) + 1] = e
      /\ \A i \in 1..Len(n) : m[i] = n[i]
      /\ DOMAIN m = 1..Len(n) + 1 /\ DOMAIN n = 1..Len(n)
  <2> DEFINE E == Items
  <2> HIDE DEF E
  <2>1. ASSUME NEW q \in Seq(E), NEW x \in E
        PROVE  /\ q \o <<x>> \in Seq(E) /\ Len(q) \in Nat /\ Len(q \o <<x>>) = Len(q) + 1
               /\ (q \o <<x>>)[Len(q) + 1] = x
               /\ \A i \in 1..Len(q) : (q \o <<x>>)[i] = q[i]
               /\ DOMAIN (q \o <<x>>) = 1..Len(q) + 1 /\ DOMAIN q = 1..Len(q)
    OBVIOUS
  <2> QED
    BY <2>1 DEF E
<1> HIDE DEF m
<1>2. CASE e.says
  <2>1. IsLastSaid(m, Len(n) + 1)
    BY <1>1, <1>2 DEF IsLastSaid
  <2>2. Belief(m, t) = m[Len(n) + 1].why
    BY <1>1, <2>1, BeliefIs
  <2> QED
    BY <1>1, <1>2, <2>2 DEF m
<1>3. CASE ~e.says
  <2>1. CASE \A i \in DOMAIN n : ~n[i].says
    <3>1. \A i \in DOMAIN m : ~m[i].says
      BY <1>1, <1>3, <2>1
    <3> QED
      BY <1>1, <1>3, <2>1, <3>1, BeliefIs, ZenonT(60) DEF m
  <2>2. ASSUME NEW i, IsLastSaid(n, i) PROVE Belief(m, t) = Belief(n, t)
    <3>1. IsLastSaid(m, i) /\ m[i] = n[i]
      BY <1>1, <1>3, <2>2 DEF IsLastSaid
    <3> QED
      BY <1>1, <2>2, <3>1, BeliefIs
  <2>3. (\A i \in DOMAIN n : ~n[i].says) \/ \E i : IsLastSaid(n, i)
    BY BeliefIs
  <2> QED
    BY <1>3, <2>1, <2>2, <2>3 DEF m
<1> QED
  BY <1>2, <1>3

\* ... and news that is heard changes nothing of it.
LEMMA BeliefHeard ==
    ASSUME NEW n \in Seq(Items), NEW e \in Items, NEW t
    PROVE  Belief(<<e>> \o n, t) = Belief(n, IF e.says THEN e.why ELSE t)
<1> DEFINE m == <<e>> \o n
           u == IF e.says THEN e.why ELSE t
<1>1. /\ m \in Seq(Items) /\ Len(n) \in Nat /\ m[1] = e
      /\ \A i \in 1..Len(n) : m[i + 1] = n[i]
      /\ \A i \in 2..Len(n) + 1 : m[i] = n[i - 1]
      /\ DOMAIN m = 1..Len(n) + 1 /\ DOMAIN n = 1..Len(n)
  <2> DEFINE E == Items
  <2> HIDE DEF E
  <2>1. ASSUME NEW q \in Seq(E), NEW x \in E
        PROVE  /\ <<x>> \o q \in Seq(E) /\ Len(q) \in Nat
               /\ (<<x>> \o q)[1] = x
               /\ \A i \in 1..Len(q) : (<<x>> \o q)[i + 1] = q[i]
               /\ \A i \in 2..Len(q) + 1 : (<<x>> \o q)[i] = q[i - 1]
               /\ DOMAIN (<<x>> \o q) = 1..Len(q) + 1 /\ DOMAIN q = 1..Len(q)
    OBVIOUS
  <2> QED
    BY <2>1 DEF E
<1> HIDE DEF m
<1>2. CASE \A i \in DOMAIN n : ~n[i].says
  <2>1. Belief(n, u) = u
    BY <1>2, BeliefIs
  <2>2. CASE e.says
    <3>1. IsLastSaid(m, 1)
      BY <1>1, <1>2, <2>2 DEF IsLastSaid
    <3>2. Belief(m, t) = m[1].why
      BY <1>1, <3>1, BeliefIs
    <3> QED
      BY <1>1, <2>1, <2>2, <3>2 DEF m
  <2>3. CASE ~e.says
    <3>1. \A i \in DOMAIN m : ~m[i].says
      BY <1>1, <1>2, <2>3, SMTT(30)
    <3> QED
      BY <1>1, <2>1, <2>3, <3>1, BeliefIs DEF m
  <2> QED
    BY <2>2, <2>3
<1>3. ASSUME NEW i, IsLastSaid(n, i) PROVE Belief(m, t) = Belief(n, u)
  <2>1. IsLastSaid(m, i + 1) /\ m[i + 1] = n[i]
    <3>1. i \in 1..Len(n) /\ n[i].says /\ i + 1 \in DOMAIN m /\ m[i + 1] = n[i]
      BY <1>1, <1>3 DEF IsLastSaid
    <3>2. ASSUME NEW j \in DOMAIN m, m[j].says PROVE j <= i + 1
      <4>1. CASE j = 1
        BY <1>1, <3>1, <4>1
      <4>2. CASE j # 1
        <5>1. j \in 2..Len(n) + 1 /\ j - 1 \in DOMAIN n
          BY <1>1, <4>2
        <5>2. n[j - 1].says
          BY <1>1, <3>2, <5>1
        <5>3. j - 1 <= i
          BY <1>3, <5>1, <5>2 DEF IsLastSaid
        <5> QED
          BY <1>1, <3>1, <5>1, <5>3
      <4> QED
        BY <4>1, <4>2
    <3> QED
      BY <3>1, <3>2 DEF IsLastSaid
  <2> HIDE DEF u
  <2> QED
    BY <1>1, <1>3, <2>1, BeliefIs
<1>4. (\A i \in DOMAIN n : ~n[i].says) \/ \E i : IsLastSaid(n, i)
  BY BeliefIs
<1> QED
  BY <1>2, <1>3, <1>4 DEF m

------------------------------------------------------------------------------
(* The refinement of Telemetry.                                            *)

Held == News(chan) \o Unsent

\* The poller's memory, with what it is about to tell, is what the operator will have
\* been told.
MemoryTold ==
    /\ gpu_failing \in BOOLEAN
    /\ main = "loop" => ((Belief(Held, told) # "none") <=>
                         IF poller.at = "edge" THEN poller.problem # "none" ELSE gpu_failing)

\* What is told and shown, as sequences of items.
LEMMA ItemKinds ==
    /\ \A w \in Whys : /\ Says(w) = <<Operator!Says(w)>> /\ Operator!Says(w) \in Items
                       /\ Operator!Says(w).says /\ Operator!Says(w).why = w
    /\ \A b \in BOOLEAN : /\ Shows(b) = <<Operator!Shows(b)>> /\ Operator!Shows(b) \in Items
                          /\ ~Operator!Shows(b).says /\ Operator!Shows(b).sample = b
    /\ \A x \in Items : <<x>> \in Seq(Items)
<1>1. \A E : \A x \in E : <<x>> \in Seq(E)
  OBVIOUS
<1> QED
  BY <1>1 DEF Says, Shows, Operator!Says, Operator!Shows, Items, Whys

\* What is found and not yet shown is a sequence of such items, ...
LEMMA HeldType ==
    ASSUME IndInv
    PROVE  /\ chan \in Seq(Events) /\ News(chan) \in Seq(Items) /\ Unsent \in Seq(Items)
           /\ Held \in Seq(Items)
           /\ poller.problem \in Whys /\ poller.sample \in BOOLEAN
<1>1. chan \in Seq(Events) /\ poller \in Polls
  BY DEF IndInv, Kinds
<1>2. News(chan) \in Seq(Items)
  <2>1. Len(chan) \in Nat /\ Len(chan) \in 0..Len(chan)
    BY <1>1
  <2> QED
    BY <1>1, <2>1, NewsAdds
<1>3. poller.problem \in Whys /\ poller.sample \in BOOLEAN
  BY <1>1 DEF Polls, Whys
<1>4. Unsent \in Seq(Items)
  <2>1. Says(poller.problem) \in Seq(Items) /\ Shows(poller.sample) \in Seq(Items)
    BY <1>3, ItemKinds
  <2> QED
    BY <2>1 DEF Unsent
<1> QED
  BY <1>1, <1>2, <1>3, <1>4 DEF Held

\* ... and Telemetry's Believed is what it makes of them.
LEMMA BelievedIs == Operator!Believed = Belief(Held, told)
BY DEF Operator!Believed, Belief, Held

\* What tells nothing of the GPU is nothing to the operator.
LEMMA Silent ==
    ASSUME MemoryTold, Held' = Held, UNCHANGED <<gpu_failing, gpu_measured, told>>,
           main' = "loop" => main = "loop" /\ UNCHANGED poller
    PROVE  [Operator!Next]_(Operator!vars) /\ MemoryTold'
<1>1. UNCHANGED Operator!vars
  BY DEF Operator!vars, Held
<1>2. MemoryTold'
  BY DEF MemoryTold
<1> QED
  BY <1>1, <1>2

\* Sending changes the news only by what the event carries, ...
LEMMA SendTells ==
    ASSUME IndInv, NEW e \in Events, Send(e)
    PROVE  News(chan') = News(chan) \o Carried(e) /\ main = "loop"
BY HeldType, NewsJoins DEF Send

\* ... and for most that is nothing.
LEMMA CarriesNothing ==
    /\ \A i \in Nat : KeyEvent(i) \in Events /\ Carried(KeyEvent(i)) = <<>>
    /\ \A i \in Presses, o \in {"told ok", "told failed"} :
          Report(i, o) \in Events /\ Carried(Report(i, o)) = <<>>
    /\ Tick \in Events /\ Carried(Tick) = <<>>
    /\ FromFeed \in Events /\ Carried(FromFeed) = <<>>
    /\ \A f \in {"keys"} \cup Feeds, w \in Whys :
          ErrorEvent(f, w) \in Events /\ Carried(ErrorEvent(f, w)) = <<>>
BY EventKinds, QuietKinds, Constants
   DEF Carried, KeyEvent, Report, Tick, FromFeed, ErrorEvent

\* Nor does it reach the operator when such an event is sent.
LEMMA SilentSend ==
    ASSUME IndInv, MemoryTold, NEW e \in Events, Send(e), Carried(e) = <<>>,
           UNCHANGED <<poller, gpu_failing, gpu_measured, told, main>>
    PROVE  [Operator!Next]_(Operator!vars) /\ MemoryTold'
<1>1. News(chan') = News(chan)
  BY SendTells, HeldType, ConcatEmptySeq
<1>2. Held' = Held
  BY <1>1 DEF Held, Unsent
<1> QED
  BY <1>2, Silent

\* A poll that changes nothing in the channel, and what it tells.
LEMMA PollTells ==
    ASSUME IndInv, MemoryTold, Poll
    PROVE  [Operator!Next]_(Operator!vars) /\ MemoryTold'
<1>1. PICK sample \in BOOLEAN, apps \in BOOLEAN, why \in {"none", "sample", "apps"} :
        /\ why = IF ~sample THEN "sample" ELSE IF ~apps THEN "apps" ELSE "none"
        /\ poller' = [at |-> IF Edge(why) THEN "edge" ELSE "update",
                      sample |-> sample, problem |-> why]
  BY DEF Poll
<1>2. /\ main = "loop" /\ main' = "loop" /\ poller.at = "sleep"
      /\ UNCHANGED <<chan, gpu_failing, gpu_measured, told>>
  BY DEF Poll, appVars
<1>3. why \in Whys
  BY DEF Whys
<1>4. Held = News(chan) /\ Held \in Seq(Items)
  <2>1. Unsent = <<>> \o <<>>
    BY <1>2 DEF Unsent
  <2>2. Unsent = <<>>
    BY <2>1
  <2> QED
    BY <2>2, HeldType, ConcatEmptySeq DEF Held
<1>5. Edge(why) <=> ~((why = "none") = (Belief(Held, told) = "none"))
  <2>1. (Belief(Held, told) # "none") <=> gpu_failing
    BY <1>2 DEF MemoryTold
  <2>2. gpu_failing \in BOOLEAN
    BY DEF MemoryTold
  <2> QED
    BY <2>1, <2>2 DEF Edge
<1> DEFINE x == IF Edge(why) THEN <<Operator!Says(why)>> ELSE <<>>
           y == <<Operator!Shows(sample)>>
<1>6. Unsent' = x \o y
  BY <1>1, <1>3, ItemKinds DEF Unsent
<1>7. x \in Seq(Items) /\ y \in Seq(Items)
  BY <1>3, ItemKinds
<1>8. Held' = (Held \o x) \o y
  <2> HIDE DEF x, y
  <2>1. Held' = Held \o (x \o y)
    BY <1>2, <1>4, <1>6 DEF Held
  <2> QED
    BY <1>4, <1>7, <2>1, ConcatAssociative, SMTT(30)
<1>9. Operator!Poll(sample, why)
  <2>1. x = IF (why = "none") = (Operator!Believed = "none") THEN <<>> ELSE <<Operator!Says(why)>>
    BY <1>5, BelievedIs
  <2>2. ~sample => why # "none"
    BY <1>1
  <2> QED
    BY <1>2, <1>8, <2>1, <2>2 DEF Operator!Poll, Held
<1>10. Belief(Held', told) = IF Edge(why) THEN why ELSE Belief(Held, told)
  <2>1. Held \o x \in Seq(Items)
    BY <1>4, <1>7
  <2>2. Belief((Held \o x) \o y, told) = Belief(Held \o x, told)
    <3>1. Operator!Shows(sample) \in Items /\ ~Operator!Shows(sample).says
      BY ItemKinds
    <3> QED
      BY <2>1, <3>1, BeliefFound
  <2>3. CASE Edge(why)
    BY <1>3, <1>4, <1>8, <2>2, <2>3, BeliefFound, ItemKinds, SMTT(30)
  <2>4. CASE ~Edge(why)
    <3>1. Held \o x = Held
      BY <1>4, <2>4, ConcatEmptySeq
    <3> QED
      BY <1>8, <2>2, <2>4, <3>1
  <2> QED
    BY <2>3, <2>4
<1>11. MemoryTold'
  <2>1. poller'.at = (IF Edge(why) THEN "edge" ELSE "update") /\ poller'.problem = why
    BY <1>1
  <2>2. (Belief(Held', told') # "none") <=> IF Edge(why) THEN why # "none" ELSE gpu_failing
    BY <1>2, <1>10 DEF MemoryTold
  <2> QED
    BY <1>2, <2>1, <2>2 DEF MemoryTold
<1> QED
  BY <1>9, <1>11 DEF Operator!Next

\* The rest of the poller's round: the news was found when it was polled, and only moves on.
LEMMA RoundTells ==
    ASSUME IndInv, MemoryTold, PollEdge \/ PollUpdate \/ PollTick
    PROVE  [Operator!Next]_(Operator!vars) /\ MemoryTold'
<1> DEFINE w == poller.problem
           b == poller.sample
<1>0. /\ poller \in Polls /\ w \in Whys /\ b \in BOOLEAN /\ News(chan) \in Seq(Items)
      /\ Says(w) \in Seq(Items) /\ Shows(b) \in Seq(Items)
  <2>1. poller \in Polls /\ w \in Whys /\ b \in BOOLEAN /\ News(chan) \in Seq(Items)
    BY HeldType DEF IndInv, Kinds
  <2> QED
    BY <2>1, ItemKinds
<1>1. CASE PollEdge
  <2> DEFINE e == IF w = "none" THEN Restored ELSE ErrorEvent("gpu", w)
  <2>1. /\ Send(e) /\ poller.at = "edge" /\ poller'.at = "update" /\ poller'.sample = b
        /\ gpu_failing' = (w # "none") /\ UNCHANGED <<main, gpu_measured, told>>
    BY <1>0, <1>1 DEF PollEdge, appVars, Polls
  <2>2. e \in Events /\ Carried(e) = Says(w)
    <3>1. Restored \in Events /\ ErrorEvent("gpu", w) \in Events
      BY <1>0, QuietKinds, EventKinds
    <3> QED
      BY <3>1 DEF Carried, Restored, ErrorEvent
  <2>3. News(chan') = News(chan) \o Says(w) /\ main = "loop"
    <3> HIDE DEF e
    <3> QED
      BY <2>1, <2>2, SendTells
  <2>4. Unsent = Says(w) \o Shows(b) /\ Unsent' = Shows(b)
    <3>1. Unsent' = <<>> \o Shows(b)
      BY <2>1 DEF Unsent
    <3> QED
      BY <1>0, <2>1, <3>1, ConcatEmptySeq DEF Unsent
  <2>5. Held' = Held
    <3> HIDE DEF w, b
    <3>1. (News(chan) \o Says(w)) \o Shows(b) = News(chan) \o (Says(w) \o Shows(b))
      BY <1>0, ConcatAssociative, SMTT(30)
    <3> QED
      BY <2>3, <2>4, <3>1 DEF Held
  <2>6. UNCHANGED Operator!vars
    BY <2>1, <2>5 DEF Operator!vars, Held
  <2>7. MemoryTold'
    <3>1. Belief(Held', told') = Belief(Held, told)
      BY <2>1, <2>5
    <3> QED
      BY <2>1, <2>3, <3>1 DEF MemoryTold
  <2> QED
    BY <2>6, <2>7
<1>2. CASE PollUpdate
  <2>1. /\ Send(HardwareUpdate(b)) /\ poller.at = "update" /\ poller'.at = "tick"
        /\ UNCHANGED <<main, gpu_failing, gpu_measured, told>>
    BY <1>0, <1>2 DEF PollUpdate, appVars, Polls
  <2>2. HardwareUpdate(b) \in Events /\ Carried(HardwareUpdate(b)) = Shows(b)
    <3>1. HardwareUpdate(b) \in Events
      BY <1>0, QuietKinds, EventKinds
    <3> QED
      BY <3>1 DEF Carried, HardwareUpdate
  <2>3. News(chan') = News(chan) \o Shows(b) /\ main = "loop"
    BY <2>1, <2>2, SendTells
  <2>4. Unsent = Shows(b) /\ Unsent' = <<>>
    <3>1. Unsent = <<>> \o Shows(b) /\ Unsent' = <<>> \o <<>>
      BY <2>1 DEF Unsent
    <3> QED
      BY <1>0, <3>1, ConcatEmptySeq
  <2>5. Held' = Held
    <3>1. News(chan') \in Seq(Items)
      BY <1>0, <2>3
    <3> QED
      BY <2>3, <2>4, <3>1, ConcatEmptySeq DEF Held
  <2>6. UNCHANGED Operator!vars
    BY <2>1, <2>5 DEF Operator!vars, Held
  <2>7. MemoryTold'
    <3>1. Belief(Held', told') = Belief(Held, told)
      BY <2>1, <2>5
    <3> QED
      BY <2>1, <2>3, <3>1 DEF MemoryTold
  <2> QED
    BY <2>6, <2>7
<1>3. CASE PollTick
  <2>1. /\ Send(Tick) /\ poller.at = "tick" /\ poller'.at = "sleep"
        /\ UNCHANGED <<main, gpu_failing, gpu_measured, told>>
    BY <1>0, <1>3 DEF PollTick, appVars, Polls
  <2>2. News(chan') = News(chan) /\ main = "loop"
    <3>1. News(chan') = News(chan) \o <<>> /\ main = "loop"
      BY <2>1, SendTells, CarriesNothing
    <3> QED
      BY <1>0, <3>1, ConcatEmptySeq
  <2>3. Unsent' = Unsent
    BY <2>1 DEF Unsent
  <2>4. Held' = Held
    BY <2>2, <2>3 DEF Held
  <2>5. UNCHANGED Operator!vars
    BY <2>1, <2>4 DEF Operator!vars, Held
  <2>6. MemoryTold'
    <3>1. Belief(Held', told') = Belief(Held, told)
      BY <2>1, <2>4
    <3> QED
      BY <2>1, <2>2, <3>1 DEF MemoryTold
  <2> QED
    BY <2>5, <2>6
<1> QED
  BY <1>1, <1>2, <1>3

\* An event off the channel: if it is about the GPU the operator learns of it, in the
\* order in which it was found.
LEMMA TuiLearns ==
    ASSUME IndInv, MemoryTold, TuiRecv
    PROVE  [Operator!Next]_(Operator!vars) /\ MemoryTold'
<1> DEFINE e == Head(chan)
<1>0. /\ chan \in Seq(Events) /\ chan # <<>> /\ e \in Events /\ main = "loop"
      /\ Carried(e) \in Seq(Items) /\ Unsent \in Seq(Items)
      /\ Tail(chan) \in Seq(Events) /\ News(Tail(chan)) \in Seq(Items)
  <2>1. chan \in Seq(Events) /\ Unsent \in Seq(Items)
    BY HeldType
  <2>2. chan # <<>> /\ main = "loop"
    BY DEF TuiRecv, TuiKey, TuiQuit, TuiUpdate, TuiError, TuiOther, Receive
  <2>3. e \in Events /\ Tail(chan) \in Seq(Events)
    BY <2>1, <2>2, Left
  <2>4. News(Tail(chan)) \in Seq(Items)
    <3>1. Len(Tail(chan)) \in 0..Len(Tail(chan))
      BY <2>3
    <3> QED
      BY <2>3, <3>1, NewsAdds
  <2> QED
    BY <2>1, <2>2, <2>3, <2>4, CarriedType
<1> HIDE DEF e
<1>1. Held = Carried(e) \o (News(Tail(chan)) \o Unsent)
  <2>1. News(chan) = Carried(e) \o News(Tail(chan))
    BY <1>0, NewsLeaves DEF e
  <2> QED
    BY <1>0, <2>1, ConcatAssociative, SMTT(30) DEF Held
<1>2. /\ e.kind \in {"key", "report", "feed", "tick"} => Carried(e) = <<>>
      /\ e.kind = "error" => Carried(e) = IF e.source = "gpu" THEN Says(e.why) ELSE <<>>
      /\ e.kind = "restored" => Carried(e) = Says("none")
      /\ e.kind = "update" => Carried(e) = Shows(e.sample)
      /\ e.kind = "error" => e.why \in Whys
      /\ e.kind = "update" => e.sample \in BOOLEAN
  BY <1>0 DEF Carried, Events, KeyEvents, Reports, Quiets
<1>3. CASE TuiQuit
  <2>1. /\ chan' = <<>> /\ poller' = Dropped /\ main' = "teardown"
        /\ UNCHANGED <<gpu_measured, told, gpu_failing>>
    BY <1>3 DEF TuiQuit
  <2>2. Unsent' = <<>> \o <<>>
    BY <2>1 DEF Unsent, Dropped, Asleep
  <2>3. Held' = <<>> \o (<<>> \o <<>>)
    BY <2>1, <2>2, NewsNone DEF Held
  <2>4. Operator!Drop
    BY <2>1, <2>3 DEF Operator!Drop, Held
  <2>5. MemoryTold'
    BY <2>1 DEF MemoryTold
  <2> QED
    BY <2>4, <2>5 DEF Operator!Next
\* All others take the event and leave the poller alone.
<1>4. ASSUME chan' = Tail(chan), UNCHANGED <<poller, gpu_failing, main>>
      PROVE  Held' = News(Tail(chan)) \o Unsent /\ Held' \in Seq(Items)
  BY <1>0, <1>4 DEF Held, Unsent
<1>5. ASSUME chan' = Tail(chan), UNCHANGED <<poller, gpu_failing, main>>, Carried(e) = <<>>,
             UNCHANGED <<gpu_measured, told>>
      PROVE  [Operator!Next]_(Operator!vars) /\ MemoryTold'
  <2>1. Held' = Held
    BY <1>1, <1>4, <1>5, ConcatEmptySeq
  <2> QED
    BY <1>5, <2>1, Silent
<1>6. ASSUME chan' = Tail(chan), UNCHANGED <<poller, gpu_failing, main>>,
             NEW x \in Items, Carried(e) = <<x>>,
             IF x.says THEN told' = x.why /\ UNCHANGED gpu_measured
                       ELSE gpu_measured' = x.sample /\ UNCHANGED told
      PROVE  [Operator!Next]_(Operator!vars) /\ MemoryTold'
  <2>1. Held = <<x>> \o Held' /\ Held' \in Seq(Items)
    BY <1>1, <1>4, <1>6
  <2>2. Held # <<>> /\ Head(Held) = x /\ Tail(Held) = Held'
    <3>1. \A E : \A a \in E, s \in Seq(E) :
             <<a>> \o s # <<>> /\ Head(<<a>> \o s) = a /\ Tail(<<a>> \o s) = s
      OBVIOUS
    <3> QED
      BY <2>1, <3>1
  <2>3. Operator!Learn
    BY <1>6, <2>2 DEF Operator!Learn, Held
  <2>4. Belief(Held', told') = Belief(Held, told)
    BY <1>6, <2>1, BeliefHeard
  <2>5. MemoryTold'
    BY <1>0, <1>6, <2>4 DEF MemoryTold
  <2> QED
    BY <2>3, <2>5 DEF Operator!Next
<1>7. CASE TuiKey
  BY <1>2, <1>5, <1>7 DEF TuiKey, Receive, taskVars, e
<1>8. CASE TuiUpdate
  <2>1. /\ chan' = Tail(chan) /\ UNCHANGED <<poller, gpu_failing, main, told>>
        /\ e.kind = "update" /\ gpu_measured' = e.sample
    BY <1>8 DEF TuiUpdate, Receive, taskVars, e
  <2> QED
    BY <1>2, <1>6, <2>1, ItemKinds
<1>9. CASE TuiError
  <2>1. /\ chan' = Tail(chan) /\ UNCHANGED <<poller, gpu_failing, main, gpu_measured>>
        /\ e.kind = "error" /\ told' = IF e.source = "gpu" THEN e.why ELSE told
    BY <1>9 DEF TuiError, Receive, taskVars, e
  <2>2. CASE e.source = "gpu"
    BY <1>2, <1>6, <2>1, <2>2, ItemKinds
  <2>3. CASE e.source # "gpu"
    BY <1>2, <1>5, <2>1, <2>3
  <2> QED
    BY <2>2, <2>3
<1>10. CASE TuiOther
  <2>1. /\ chan' = Tail(chan) /\ UNCHANGED <<poller, gpu_failing, main, gpu_measured>>
        /\ e.kind \in {"restored", "report", "feed", "tick"}
        /\ told' = IF e.kind = "restored" THEN "none" ELSE told
    BY <1>10 DEF TuiOther, Receive, taskVars, e
  <2>2. CASE e.kind = "restored"
    <3>1. "none" \in Whys
      BY DEF Whys
    <3> QED
      BY <1>2, <1>6, <2>1, <2>2, <3>1, ItemKinds
  <2>3. CASE e.kind # "restored"
    BY <1>2, <1>5, <2>1, <2>3
  <2> QED
    BY <2>2, <2>3
<1> QED
  BY <1>3, <1>7, <1>8, <1>9, <1>10 DEF TuiRecv

\* Each step is one of Telemetry's, or none.
LEMMA TelemetryStep ==
    ASSUME IndInv, MemoryTold, [Next]_vars
    PROVE  [Operator!Next]_(Operator!vars) /\ MemoryTold'
<1> USE DEF taskVars, appVars
<1>0. keyTask.read \in Nat /\ Presses \subseteq Nat /\ "terminal" \in Whys /\ "spawn" \in Whys
  BY Constants DEF IndInv, Kinds, Whys
<1>1. ASSUME UNCHANGED <<chan, poller, gpu_failing, gpu_measured, told>>,
             main' = "loop" => main = "loop"
      PROVE  [Operator!Next]_(Operator!vars) /\ MemoryTold'
  <2>1. Held' = Held
    BY <1>1 DEF Held, Unsent
  <2> QED
    BY <1>1, <2>1, Silent
<1>2. CASE Press \/ KeyRead \/ KeyBreak \/ KeyFails
  BY <1>1, <1>2 DEF Press, KeyRead, KeyBreak, KeyFails
<1>3. CASE KeySend
  BY <1>0, <1>3, SilentSend, CarriesNothing DEF KeySend
<1>4. CASE KeyTell
  BY <1>0, <1>4, SilentSend, CarriesNothing DEF KeyTell
<1>5. CASE Journal
  BY <1>1, <1>5 DEF Journal, SpawnJournal, JournalEnds, Feeding
<1>6. ASSUME NEW f \in Feeds, FeedFails(f) PROVE [Operator!Next]_(Operator!vars) /\ MemoryTold'
  BY <1>0, <1>6, SilentSend, CarriesNothing DEF FeedFails, Feeding
<1>7. ASSUME NEW f \in Feeds, FeedGets(f) PROVE [Operator!Next]_(Operator!vars) /\ MemoryTold'
  BY <1>1, <1>7 DEF FeedGets, Feeding
<1>8. ASSUME NEW f \in Feeds, FeedSends(f) PROVE [Operator!Next]_(Operator!vars) /\ MemoryTold'
  BY <1>8, SilentSend, CarriesNothing DEF FeedSends, Feeding
<1>9. ASSUME NEW i \in Presses, Launch(i) \/ Finish(i)
      PROVE  [Operator!Next]_(Operator!vars) /\ MemoryTold'
  BY <1>1, <1>9 DEF Launch, Finish, Working
<1>10. ASSUME NEW i \in Presses, SendReport(i)
       PROVE  [Operator!Next]_(Operator!vars) /\ MemoryTold'
  BY <1>10, SilentSend, CarriesNothing DEF SendReport, Working
<1>11. CASE Exit \/ UNCHANGED vars
  BY <1>1, <1>11 DEF Exit, vars
<1> QED
  BY <1>2, <1>3, <1>4, <1>5, <1>6, <1>7, <1>8, <1>9, <1>10, <1>11, PollTells, RoundTells,
     TuiLearns DEF Next, KeyTask, HardwarePoller, Feeder, Command

\* The poller, its memory, the channel and the TUI keep the promise of the hardware pane:
\* each change between working and failing is told once, before the numbers come or go
\* with it, and no poll is lost or overtaken, whatever else is in the channel.
THEOREM Implements == Spec => ImplementsTelemetry
<1>1. Init => Operator!Init /\ MemoryTold
  <2> SUFFICES ASSUME Init PROVE Operator!Init /\ MemoryTold
    OBVIOUS
  <2>1. /\ chan = <<>> /\ poller = Asleep /\ gpu_failing = FALSE
        /\ gpu_measured = FALSE /\ told = "none"
    BY DEF Init
  <2>2. Unsent = <<>> \o <<>>
    BY <2>1 DEF Unsent, Asleep
  <2>3. Held = <<>>
    BY <2>1, <2>2, NewsNone DEF Held
  <2>4. Operator!Init
    BY <2>1, <2>3 DEF Operator!Init, Held
  <2>5. Belief(Held, told) = "none"
    <3>1. Held \in Seq(Items) /\ DOMAIN Held = {}
      BY <2>3
    <3> QED
      BY <2>1, <3>1, BeliefIs
  <2> QED
    BY <2>1, <2>4, <2>5 DEF MemoryTold, Asleep
<1>2. IndInv /\ MemoryTold /\ [Next]_vars => [Operator!Next]_(Operator!vars) /\ MemoryTold'
  BY TelemetryStep
<1> QED
  BY <1>1, <1>2, Inductive, PTL DEF Spec, ImplementsTelemetry, Operator!Spec

------------------------------------------------------------------------------
(* That nothing is forgotten.                                              *)

\* What is in the channel stays there when something joins it, ...
LEMMA StaysIn ==
    ASSUME NEW c \in Seq(Events), NEW e \in Events
    PROVE  /\ \A a \in DOMAIN c : a \in DOMAIN Append(c, e) /\ Append(c, e)[a] = c[a]
           /\ \E a \in DOMAIN Append(c, e) : Append(c, e)[a] = e
<1> DEFINE E == Events
<1> HIDE DEF E
<1>1. ASSUME NEW d \in Seq(E), NEW x \in E
      PROVE  /\ \A a \in DOMAIN d : a \in DOMAIN Append(d, x) /\ Append(d, x)[a] = d[a]
             /\ Len(d) + 1 \in DOMAIN Append(d, x) /\ Append(d, x)[Len(d) + 1] = x
  OBVIOUS
<1> QED BY <1>1 DEF E

\* ... and all but the first when the first leaves.
LEMMA StaysBehind ==
    ASSUME NEW c \in Seq(Events), c # <<>>
    PROVE  \A a \in DOMAIN c : a # 1 =>
                a - 1 \in DOMAIN Tail(c) /\ Tail(c)[a - 1] = c[a]
<1> DEFINE E == Events
<1> HIDE DEF E
<1>1. ASSUME NEW d \in Seq(E), d # <<>>, NEW a \in DOMAIN d, a # 1
      PROVE  a - 1 \in DOMAIN Tail(d) /\ Tail(d)[a - 1] = d[a]
  <2>1. Len(d) \in Nat /\ DOMAIN d = 1..Len(d) /\ a \in 2..Len(d) BY <1>1
  <2>2. Tail(d) \in Seq(E) /\ Len(Tail(d)) = Len(d) - 1 BY <1>1, <2>1
  <2>3. \A k \in 1..Len(d) - 1 : Tail(d)[k] = d[k + 1] BY <1>1, <2>1
  <2>4. a - 1 \in 1..Len(d) - 1 /\ (a - 1) + 1 = a BY <2>1
  <2> QED BY <2>2, <2>3, <2>4
<1> QED BY <1>1 DEF E

KeysThere ==
    \A i \in handled + 1..keyTask.read :
        \/ keyTask.at = "send" /\ i = keyTask.read
        \/ \E a \in DOMAIN chan : chan[a] = KeyEvent(i)
BadTerminalThere ==
    keyTask.at = "ended" =>
        \/ "keys" \in errors
        \/ \E a \in DOMAIN chan : chan[a] = ErrorEvent("keys", "terminal")
ReportThere(i) == \E a \in DOMAIN chan : chan[a].kind = "report" /\ chan[a].key = i
ReportsThere == \A i \in Presses : cmd[i] \in {"sent ok", "sent failed"} => ReportThere(i)

LEMMA NothingLostIs ==
    NothingLost <=> (main = "loop" => KeysThere /\ BadTerminalThere /\ ReportsThere)
BY DEF NothingLost, KeysThere, BadTerminalThere, ReportsThere, ReportThere

\* Whoever leaves the channel alone or adds to it loses nothing.
LEMMA NothingTaken ==
    ASSUME chan \in Seq(Events), chan' = chan \/ \E e \in Events : Send(e)
    PROVE  \A a \in DOMAIN chan : a \in DOMAIN chan' /\ chan'[a] = chan[a]
BY StaysIn DEF Send

LEMMA ReportKept ==
    ASSUME NEW i, ReportThere(i),
           \A a \in DOMAIN chan : a \in DOMAIN chan' /\ chan'[a] = chan[a]
    PROVE  ReportThere(i)'
<1>1. PICK a \in DOMAIN chan : chan[a].kind = "report" /\ chan[a].key = i BY DEF ReportThere
<1>2. a \in DOMAIN chan' /\ chan'[a].kind = "report" /\ chan'[a].key = i BY <1>1
<1> QED BY <1>2 DEF ReportThere

\* The keyboard task passes on what it has read.
LEMMA KeysStay ==
    ASSUME IndInv, NothingLost, Press \/ KeyTask \/ KeyFails
    PROVE  NothingLost'
<1> USE DEF keyVars, taskVars, appVars
<1> SUFFICES ASSUME main' = "loop" PROVE KeysThere' /\ BadTerminalThere' /\ ReportsThere'
  BY DEF NothingLost, KeysThere, BadTerminalThere, ReportsThere, ReportThere
<1>0. /\ keyTask \in [at : KeyPlaces, read : Nat] /\ handled \in Nat /\ chan \in Seq(Events)
      /\ cmd' = cmd /\ handled' = handled /\ errors' = errors /\ main = "loop"
      /\ KeysThere /\ BadTerminalThere /\ ReportsThere
  BY NothingLostIs DEF IndInv, Kinds, Press, KeyTask, KeyRead, KeySend, KeyBreak, KeyTell, KeyFails
<1>1. ASSUME \A a \in DOMAIN chan : a \in DOMAIN chan' /\ chan'[a] = chan[a]
      PROVE  ReportsThere'
  <2>1. \A i : ReportThere(i) => ReportThere(i)' BY <1>1, ReportKept
  <2>2. \A i \in Presses : cmd'[i] \in {"sent ok", "sent failed"} => ReportThere(i)
    BY <1>0 DEF ReportsThere
  <2> QED BY <2>1, <2>2 DEF ReportsThere
<1>2. CASE Press \/ KeyFails \/ KeyRead
  <2>1. /\ chan' = chan /\ keyTask'.read \in {keyTask.read, keyTask.read + 1}
        /\ keyTask'.read = keyTask.read + 1 => keyTask'.at = "send"
        /\ keyTask.at = "send" => keyTask' = keyTask
        /\ keyTask'.at = "ended" => keyTask.at = "ended"
    BY <1>0, <1>2 DEF Press, KeyFails, KeyRead
  <2>2. KeysThere' /\ BadTerminalThere'
    BY <1>0, <2>1 DEF KeysThere, BadTerminalThere
  <2> QED BY <1>1, <2>1, <2>2
<1>3. CASE KeySend
  <2>1. /\ chan' = Append(chan, KeyEvent(keyTask.read)) /\ keyTask.at = "send"
        /\ keyTask'.read = keyTask.read /\ keyTask'.at = "poll"
    BY <1>0, <1>3 DEF KeySend, Send
  <2>2. KeyEvent(keyTask.read) \in Events BY <1>0, EventKinds
  <2>3. /\ \A a \in DOMAIN chan : a \in DOMAIN chan' /\ chan'[a] = chan[a]
        /\ \E a \in DOMAIN chan' : chan'[a] = KeyEvent(keyTask.read)
    BY <1>0, <2>1, <2>2, StaysIn
  <2>4. KeysThere' /\ BadTerminalThere'
    BY <1>0, <2>1, <2>3 DEF KeysThere, BadTerminalThere
  <2> QED BY <1>1, <2>3, <2>4
<1>4. CASE KeyTell
  <2> DEFINE e == ErrorEvent("keys", "terminal")
  <2>1. /\ chan' = Append(chan, e) /\ keyTask.at = "error"
        /\ keyTask'.read = keyTask.read /\ keyTask'.at = "ended"
    BY <1>0, <1>4 DEF KeyTell, Send
  <2>2. e \in Events BY QuietKinds DEF Whys, Events
  <2> HIDE DEF e
  <2>3. /\ \A a \in DOMAIN chan : a \in DOMAIN chan' /\ chan'[a] = chan[a]
        /\ \E a \in DOMAIN chan' : chan'[a] = e
    BY <1>0, <2>1, <2>2, StaysIn
  <2>4. KeysThere' BY <1>0, <2>1, <2>3 DEF KeysThere
  <2>5. BadTerminalThere' BY <2>3 DEF BadTerminalThere, e
  <2> QED BY <1>1, <2>3, <2>4, <2>5
<1>5. CASE KeyBreak BY <1>0, <1>5 DEF KeyBreak
<1> QED BY <1>2, <1>3, <1>4, <1>5 DEF KeyTask

LEMMA EveryKind ==
    /\ \A w \in Whys : ErrorEvent("gpu", w) \in Events
    /\ \A f \in Feeds : ErrorEvent(f, "spawn") \in Events
    /\ {Tick, Restored, FromFeed, HardwareUpdate(TRUE), HardwareUpdate(FALSE)} \subseteq Events
    /\ \A i \in Presses : Report(i, "told ok") \in Events /\ Report(i, "told failed") \in Events
<1>1. \A w \in Whys : ErrorEvent("gpu", w) \in Events BY QuietKinds DEF Events
<1>2. \A f \in Feeds : ErrorEvent(f, "spawn") \in Events BY QuietKinds DEF Events, Whys
<1>3. {Tick, Restored, FromFeed, HardwareUpdate(TRUE), HardwareUpdate(FALSE)} \subseteq Events
  BY QuietKinds DEF Events
<1>4. \A i \in Presses : Report(i, "told ok") \in Events /\ Report(i, "told failed") \in Events
  BY ReportKinds
<1> QED BY <1>1, <1>2, <1>3, <1>4

\* The other tasks add to the channel.
LEMMA OthersLoseNothing ==
    ASSUME IndInv, NothingLost, HardwarePoller \/ Feeder \/ \E i \in Presses : Command(i)
    PROVE  NothingLost'
<1> USE DEF keyVars, taskVars, appVars
<1> SUFFICES ASSUME main' = "loop" PROVE KeysThere' /\ BadTerminalThere' /\ ReportsThere'
  BY DEF NothingLost, KeysThere, BadTerminalThere, ReportsThere, ReportThere
<1>0. /\ chan \in Seq(Events) /\ cmd \in [Presses -> CmdPlaces] /\ poller \in Polls
      /\ \A w \in Whys : ErrorEvent("gpu", w) \in Events
      /\ \A f \in Feeds : ErrorEvent(f, "spawn") \in Events
      /\ {Tick, Restored, FromFeed, HardwareUpdate(TRUE), HardwareUpdate(FALSE)} \subseteq Events
      /\ \A i \in Presses : Report(i, "told ok") \in Events /\ Report(i, "told failed") \in Events
  <2>1. /\ chan \in Seq(Events) /\ cmd \in [Presses -> CmdPlaces] /\ poller \in Polls
    BY DEF IndInv, Kinds
  <2> QED BY <2>1, EveryKind
<1>1. ASSUME chan' = chan \/ \E e \in Events : Send(e), UNCHANGED <<keyTask, handled, errors, main>>
      PROVE  /\ \A a \in DOMAIN chan : a \in DOMAIN chan' /\ chan'[a] = chan[a]
             /\ KeysThere' /\ BadTerminalThere' /\ main = "loop"
  <2>1. \A a \in DOMAIN chan : a \in DOMAIN chan' /\ chan'[a] = chan[a]
    BY <1>0, <1>1, NothingTaken
  <2>2. main = "loop" /\ KeysThere /\ BadTerminalThere BY <1>1, NothingLostIs
  <2> QED BY <1>1, <2>1, <2>2 DEF KeysThere, BadTerminalThere
<1>2. CASE HardwarePoller \/ Feeder
  <2>1. /\ UNCHANGED <<keyTask, handled, errors, main, cmd>>
        /\ chan' = chan \/ \E e \in Events : Send(e)
    <3>1. poller.problem \in Whys /\ poller.sample \in BOOLEAN BY <1>0 DEF Polls, Whys
    <3>2. CASE HardwarePoller
      BY <1>0, <3>1, <3>2 DEF HardwarePoller, Poll, PollEdge, PollUpdate, PollTick
    <3>3. CASE Feeder
      BY <1>0, <3>3 DEF Feeder, Journal, SpawnJournal, JournalEnds, FeedFails, FeedGets,
          FeedSends, Feeding
    <3> QED BY <1>2, <3>2, <3>3
  <2>2. ReportsThere BY <1>1, <2>1, NothingLostIs
  <2>3. main = "loop" /\ KeysThere' /\ BadTerminalThere' BY <1>1, <2>1
  <2>4. \A j : ReportThere(j) => ReportThere(j)' BY <1>1, <2>1, ReportKept
  <2>5. ReportsThere' BY <2>1, <2>2, <2>4 DEF ReportsThere
  <2> QED BY <2>3, <2>5
<1>3. ASSUME NEW i \in Presses, Launch(i) \/ Finish(i)
      PROVE  KeysThere' /\ BadTerminalThere' /\ ReportsThere'
  <2>1. /\ UNCHANGED <<keyTask, handled, errors, main, chan>>
        /\ \A j \in Presses : cmd'[j] \in {"sent ok", "sent failed"} => cmd'[j] = cmd[j]
    BY <1>0, <1>3 DEF Launch, Finish, Working
  <2>2. ReportsThere BY <1>1, <2>1, NothingLostIs
  <2> QED BY <1>1, <2>1, <2>2 DEF ReportsThere, ReportThere
<1>4. ASSUME NEW i \in Presses, SendReport(i)
      PROVE  KeysThere' /\ BadTerminalThere' /\ ReportsThere'
  <2>1. PICK o \in {"told ok", "told failed"} : Send(Report(i, o)) BY <1>4 DEF SendReport
  <2>2. /\ UNCHANGED <<keyTask, handled, errors, main>>
        /\ \A j \in Presses : j # i => cmd'[j] = cmd[j]
    BY <1>0, <1>4 DEF SendReport, Working
  <2>3. ReportThere(i)'
    <3>1. chan' = Append(chan, Report(i, o)) BY <2>1 DEF Send
    <3>2. Report(i, o) \in Events BY <1>0
    <3>3. PICK a \in DOMAIN chan' : chan'[a] = Report(i, o) BY <1>0, <3>1, <3>2, StaysIn
    <3>4. Report(i, o).kind = "report" /\ Report(i, o).key = i BY ReportKinds
    <3> QED BY <3>3, <3>4 DEF ReportThere
  <2>4. \E x \in Events : Send(x) BY <1>0, <2>1
  <2>5. /\ main = "loop" /\ \A a \in DOMAIN chan : a \in DOMAIN chan' /\ chan'[a] = chan[a]
        /\ KeysThere' /\ BadTerminalThere'
    BY <1>1, <2>2, <2>4
  <2>6. ReportsThere BY <2>5, NothingLostIs
  <2>7. \A j : ReportThere(j) => ReportThere(j)' BY <2>5, ReportKept
  <2>8. ASSUME NEW j \in Presses, cmd'[j] \in {"sent ok", "sent failed"} PROVE ReportThere(j)'
    BY <2>2, <2>3, <2>6, <2>7, <2>8 DEF ReportsThere
  <2> QED BY <2>5, <2>8 DEF ReportsThere
<1> QED BY <1>2, <1>3, <1>4 DEF Command

\* What the TUI takes off the channel is dealt with.
LEMMA TuiForgetsNothing ==
    ASSUME IndInv, NothingLost, TuiRecv \/ Exit
    PROVE  NothingLost' /\ handled' \in {handled, handled + 1}
<1> USE DEF keyVars, taskVars, appVars
<1> DEFINE e == Head(chan)
<1>0. /\ chan \in Seq(Events) /\ cmd \in [Presses -> CmdPlaces] /\ handled \in Nat
      /\ keyTask \in [at : KeyPlaces, read : Nat]
  BY DEF IndInv, Kinds
<1>1. CASE Exit BY <1>1 DEF Exit, NothingLost
<1>2. ASSUME TuiRecv
      PROVE  /\ main = "loop" /\ chan # <<>> /\ 1 \in DOMAIN chan /\ chan[1] = e /\ e \in Events
             /\ KeysThere /\ BadTerminalThere /\ ReportsThere /\ keyTask' = keyTask
    BY <1>0, <1>2, Left, NothingLostIs
       DEF TuiRecv, TuiKey, TuiQuit, TuiUpdate, TuiError, TuiOther, Receive
<1>3. ASSUME chan # <<>>, chan' = Tail(chan)
      PROVE  \A x : (\E a \in DOMAIN chan : chan[a] = x) /\ x # chan[1] =>
                        \E a \in DOMAIN chan' : chan'[a] = x
  BY <1>0, <1>3, StaysBehind
<1>4. ASSUME chan # <<>>, chan' = Tail(chan), NEW i \in Presses, ReportThere(i),
             ~(chan[1].kind = "report" /\ chan[1].key = i)
      PROVE  ReportThere(i)'
  <2>1. PICK a \in DOMAIN chan : chan[a].kind = "report" /\ chan[a].key = i
    BY <1>4 DEF ReportThere
  <2>2. a # 1 BY <1>4, <2>1
  <2>3. a - 1 \in DOMAIN chan' /\ chan'[a - 1] = chan[a] BY <1>0, <1>4, <2>2, StaysBehind
  <2>4. chan'[a - 1].kind = "report" /\ chan'[a - 1].key = i BY <2>1, <2>3
  <2> QED BY <2>3, <2>4 DEF ReportThere
<1> HIDE DEF e
<1>5. ASSUME TuiRecv, e.kind = "key"
      PROVE  e.key = handled + 1
  <2>1. /\ e.key \in Nat /\ handled < e.key /\ e.key <= keyTask.read
        /\ keyTask.at = "send" => e.key < keyTask.read
        /\ IsKey(1)
    BY <1>2, <1>5, EventKinds DEF IndInv, KeysInOrder, IsKey
  <2>2. handled + 1 \in handled + 1..keyTask.read BY <1>0, <2>1
  <2>3. CASE keyTask.at = "send" /\ handled + 1 = keyTask.read BY <1>0, <2>1, <2>3
  <2>4. ASSUME NEW a \in DOMAIN chan, chan[a] = KeyEvent(handled + 1) PROVE e.key = handled + 1
    <3>1. IsKey(a) /\ chan[a].key = handled + 1 BY <2>4 DEF IsKey, KeyEvent
    <3>2. CASE a = 1 BY <1>2, <1>5, <3>1, <3>2
    <3>3. CASE a # 1
      <4>1. a \in Nat /\ 1 < a BY <1>0, <3>3
      <4>2. e.key < handled + 1 BY <1>2, <1>5, <2>1, <3>1, <4>1 DEF IndInv, KeysInOrder
      <4> QED BY <1>0, <2>1, <4>2
    <3> QED BY <3>2, <3>3
  <2> QED BY <1>2, <1>5, <2>2, <2>3, <2>4 DEF KeysThere
<1>6. CASE TuiKey
  <2>1. /\ chan # <<>> /\ chan' = Tail(chan) /\ e.kind = "key" /\ handled' = e.key
        /\ errors' = errors /\ keyTask' = keyTask
        /\ \A j \in Presses : cmd'[j] \in {"sent ok", "sent failed"} => cmd'[j] = cmd[j]
    BY <1>0, <1>6 DEF TuiKey, Receive, e
  <2>2. e.key = handled + 1 /\ chan[1] = e /\ TuiRecv BY <1>2, <1>5, <1>6, <2>1 DEF TuiRecv
  <2>3. KeysThere'
    <3>1. \A i \in e.key + 1..keyTask.read : i \in handled + 1..keyTask.read /\ KeyEvent(i) # chan[1]
      BY <1>0, <2>2 DEF KeyEvent
    <3> QED BY <1>2, <1>3, <2>1, <2>2, <3>1 DEF KeysThere
  <2>4. BadTerminalThere'
    <3>1. ErrorEvent("keys", "terminal").kind = "error" BY DEF ErrorEvent
    <3>2. ErrorEvent("keys", "terminal") # chan[1] BY <2>1, <2>2, <3>1
    <3> QED BY <1>2, <1>3, <2>1, <2>2, <3>2 DEF BadTerminalThere
  <2>5. ReportsThere' BY <1>2, <1>4, <2>1, <2>2 DEF ReportsThere
  <2> QED BY <2>1, <2>2, <2>3, <2>4, <2>5 DEF NothingLost, KeysThere, BadTerminalThere,
      ReportsThere, ReportThere
<1>7. CASE TuiQuit
  <2>1. main' # "loop" /\ e.kind = "key" /\ handled' = e.key /\ TuiRecv
    BY <1>7 DEF TuiQuit, TuiRecv, e
  <2> QED BY <1>5, <2>1 DEF NothingLost
<1>8. CASE TuiUpdate \/ TuiError \/ TuiOther
  <2>1. /\ chan # <<>> /\ chan' = Tail(chan) /\ e.kind # "key" /\ handled' = handled
        /\ keyTask' = keyTask /\ chan[1] = e /\ TuiRecv
    BY <1>2, <1>8 DEF TuiUpdate, TuiError, TuiOther, TuiRecv, Receive, e
  <2>2. KeysThere'
    <3>1. \A i : KeyEvent(i) # chan[1] BY <2>1 DEF KeyEvent
    <3> QED BY <1>2, <1>3, <2>1, <3>1 DEF KeysThere
  <2>3. BadTerminalThere'
    <3>1. errors \subseteq errors' /\ (e = ErrorEvent("keys", "terminal") => "keys" \in errors')
      BY <1>8, <2>1 DEF TuiUpdate, TuiError, TuiOther, ErrorEvent, e
    <3> QED BY <1>2, <1>3, <2>1, <3>1 DEF BadTerminalThere
  <2>4. ReportsThere'
    <3>1. CASE e.kind = "report"
      <4>1. cmd' = [cmd EXCEPT ![e.key] = e.outcome] BY <1>8, <3>1 DEF TuiUpdate, TuiError, TuiOther, e
      <4>2. e.outcome \in {"told ok", "told failed"} BY <1>2, <2>1, <3>1, EventKinds
      <4>3. \A j \in Presses : cmd'[j] \in {"sent ok", "sent failed"} => cmd'[j] = cmd[j] /\ j # e.key
        BY <1>0, <4>1, <4>2
      <4> QED BY <1>2, <1>4, <2>1, <4>3 DEF ReportsThere
    <3>2. CASE e.kind # "report"
      <4>1. cmd' = cmd BY <1>8, <3>2 DEF TuiUpdate, TuiError, TuiOther, e
      <4> QED BY <1>2, <1>4, <2>1, <3>2, <4>1 DEF ReportsThere
    <3> QED BY <3>1, <3>2
  <2> QED BY <2>1, <2>2, <2>3, <2>4 DEF NothingLost, KeysThere, BadTerminalThere,
      ReportsThere, ReportThere
<1> QED BY <1>1, <1>6, <1>7, <1>8 DEF TuiRecv, Exit

\* Nothing that was read or sent is lost on its way.
LEMMA NothingLostHolds == Spec => []NothingLost
<1>1. Init => NothingLost
  <2> SUFFICES ASSUME Init PROVE NothingLost OBVIOUS
  <2>1. handled = 0 /\ keyTask = [at |-> "poll", read |-> 0] /\ cmd = [i \in Presses |-> "none"]
    BY DEF Init
  <2>2. handled + 1..keyTask.read = {} BY <2>1
  <2> QED BY <2>1, <2>2 DEF NothingLost
<1>2. IndInv /\ NothingLost /\ [Next]_vars => NothingLost'
  <2> SUFFICES ASSUME IndInv, NothingLost, [Next]_vars PROVE NothingLost' OBVIOUS
  <2>1. CASE UNCHANGED vars
    BY <2>1 DEF vars, keyVars, taskVars, appVars, NothingLost
  <2> QED BY <2>1, KeysStay, OthersLoseNothing, TuiForgetsNothing DEF Next
<1> QED BY <1>1, <1>2, Inductive, PTL DEF Spec

\* Every key is handled in its turn, the first pressed first: no key is lost between the
\* terminal and the loop, none is handled twice, and none overtakes another, whoever else
\* fills the channel (main.rs).
THEOREM KeysTurnByTurn == Spec => KeysInTurn
<1>1. ASSUME IndInv, NothingLost, [Next]_vars PROVE [handled' \in {handled, handled + 1}]_vars
  <2>1. CASE TuiRecv \/ Exit BY <1>1, <2>1, TuiForgetsNothing
  <2>2. CASE Press \/ KeyTask \/ KeyFails \/ HardwarePoller
    BY <2>2 DEF Press, KeyTask, KeyRead, KeySend, KeyBreak, KeyTell, KeyFails, HardwarePoller,
        Poll, PollEdge, PollUpdate, PollTick, appVars
  <2>3. CASE Feeder \/ \E i \in Presses : Command(i)
    BY <2>3 DEF Feeder, Journal, SpawnJournal, JournalEnds, FeedFails, FeedGets, FeedSends,
        Feeding, Command, Launch, Finish, SendReport, Working, appVars
  <2> QED BY <1>1, <2>1, <2>2, <2>3 DEF Next
<1> QED BY <1>1, Inductive, NothingLostHolds, PTL DEF Spec, KeysInTurn

\* When the loop has nothing to take, every key pressed has been handled, is with a
\* keyboard task that can go on, or cannot be read, which was told; and no report of a
\* command is outstanding.
THEOREM LoopGoesOn == Spec => []NobodyForgotten
<1>1. ASSUME IndInv, NothingLost PROVE NobodyForgotten
  <2> SUFFICES ASSUME main = "loop", chan = <<>> PROVE NobodyForgotten
    BY DEF NobodyForgotten
  <2>0. /\ keyTask \in [at : KeyPlaces, read : Nat] /\ handled \in Nat /\ pressed \in Nat
        /\ handled <= keyTask.read /\ keyTask.read <= pressed /\ DOMAIN chan = {}
        /\ KeysThere /\ BadTerminalThere /\ ReportsThere
    BY <1>1, NothingLostIs DEF IndInv, Kinds, TypeOK
  <2>1. ASSUME handled < pressed, keyTask.at = "poll" PROVE keyTask.read < pressed
    <3>1. CASE handled < keyTask.read
      <4>1. handled + 1 \in handled + 1..keyTask.read BY <2>0, <3>1
      <4> QED BY <2>0, <2>1, <4>1 DEF KeysThere
    <3> QED BY <2>0, <2>1, <3>1
  <2>2. keyTask.at = "ended" => "keys" \in errors BY <2>0 DEF BadTerminalThere
  <2>3. \A i \in Presses : cmd[i] \notin {"sent ok", "sent failed"}
    BY <2>0 DEF ReportsThere, ReportThere
  <2> QED BY <2>0, <2>1, <2>2, <2>3 DEF NobodyForgotten, KeyPlaces
<1> QED BY <1>1, Inductive, NothingLostHolds, PTL

------------------------------------------------------------------------------
(* That an outage is told.                                                 *)

\* What the operator will have been told when the first k pieces of news are out.
BeliefAt(n, k, t) == Belief(SubSeq(n, 1, k), t)

\* Before numbers go a reason will have been told.
Explained(n, t) ==
    \A i \in DOMAIN n : ~n[i].says /\ ~n[i].sample => BeliefAt(n, i - 1, t) # "none"

\* News that is found does not change what comes before it, ...
LEMMA FoundLast ==
    ASSUME NEW n \in Seq(Items), NEW e \in Items
    PROVE  /\ n \o <<e>> \in Seq(Items) /\ Len(n) \in Nat
           /\ DOMAIN n = 1..Len(n) /\ DOMAIN (n \o <<e>>) = 1..Len(n) + 1
           /\ (n \o <<e>>)[Len(n) + 1] = e
           /\ \A i \in 1..Len(n) : (n \o <<e>>)[i] = n[i]
           /\ \A i \in 1..Len(n) + 1 : SubSeq(n \o <<e>>, 1, i - 1) = SubSeq(n, 1, i - 1)
           /\ SubSeq(n, 1, Len(n)) = n
<1> DEFINE E == Items
<1> HIDE DEF E
<1>1. ASSUME NEW q \in Seq(E), NEW x \in E
      PROVE  /\ q \o <<x>> \in Seq(E) /\ Len(q) \in Nat
             /\ DOMAIN q = 1..Len(q) /\ DOMAIN (q \o <<x>>) = 1..Len(q) + 1
             /\ (q \o <<x>>)[Len(q) + 1] = x
             /\ \A i \in 1..Len(q) : (q \o <<x>>)[i] = q[i]
  OBVIOUS
<1>2. ASSUME NEW q \in Seq(E), NEW x \in E, NEW i \in 1..Len(q) + 1
      PROVE  SubSeq(q \o <<x>>, 1, i - 1) = SubSeq(q, 1, i - 1)
  OBVIOUS
<1>3. ASSUME NEW q \in Seq(E) PROVE SubSeq(q, 1, Len(q)) = q
  OBVIOUS
<1> QED BY <1>1, <1>2, <1>3 DEF E

\* ... and what is heard first leaves the rest in its order.
LEMMA HeardFirst ==
    ASSUME NEW n \in Seq(Items), n # <<>>
    PROVE  /\ Tail(n) \in Seq(Items) /\ Len(n) \in Nat /\ Head(n) \in Items
           /\ DOMAIN n = 1..Len(n) /\ DOMAIN Tail(n) = 1..Len(n) - 1
           /\ n[1] = Head(n) /\ SubSeq(n, 1, 0) = <<>>
           /\ \A i \in 1..Len(n) - 1 : Tail(n)[i] = n[i + 1]
           /\ \A i \in 1..Len(n) - 1 : /\ SubSeq(n, 1, i) = <<Head(n)>> \o SubSeq(Tail(n), 1, i - 1)
                                       /\ SubSeq(Tail(n), 1, i - 1) \in Seq(Items)
<1> DEFINE E == Items
<1> HIDE DEF E
<1>1. ASSUME NEW q \in Seq(E), q # <<>>
      PROVE  /\ Tail(q) \in Seq(E) /\ Len(q) \in Nat /\ Head(q) \in E /\ q[1] = Head(q)
             /\ DOMAIN q = 1..Len(q) /\ DOMAIN Tail(q) = 1..Len(q) - 1
             /\ SubSeq(q, 1, 0) = <<>>
             /\ \A i \in 1..Len(q) - 1 : Tail(q)[i] = q[i + 1]
  <2>1. Tail(q) \in Seq(E) /\ Len(q) \in Nat /\ Head(q) \in E /\ q[1] = Head(q) BY <1>1
  <2>2. DOMAIN q = 1..Len(q) BY <1>1
  <2>3. Len(Tail(q)) = Len(q) - 1 /\ \A i \in 1..Len(q) - 1 : Tail(q)[i] = q[i + 1] BY <1>1
  <2>4. DOMAIN Tail(q) = 1..Len(q) - 1 BY <2>1, <2>3
  <2>5. SubSeq(q, 1, 0) = <<>> BY <1>1
  <2> QED BY <2>1, <2>2, <2>3, <2>4, <2>5
<1>2. ASSUME NEW q \in Seq(E), q # <<>>, NEW i \in 1..Len(q) - 1
      PROVE  /\ SubSeq(q, 1, i) = <<Head(q)>> \o SubSeq(Tail(q), 1, i - 1)
             /\ SubSeq(Tail(q), 1, i - 1) \in Seq(E)
  <2> DEFINE h == <<Head(q)>>
             r == Tail(q)
             s == SubSeq(r, 1, i - 1)
             z == SubSeq(q, 1, i)
  <2>1. /\ Len(q) \in Nat /\ i \in Nat /\ 1 <= i /\ i < Len(q) /\ h \in Seq(E) /\ Len(h) = 1
        /\ h[1] = q[1] /\ r \in Seq(E) /\ Len(r) = Len(q) - 1
        /\ \A k \in 1..Len(q) - 1 : r[k] = q[k + 1]
    OBVIOUS
  <2> HIDE DEF h, r
  <2>2. s \in Seq(E) /\ Len(s) = i - 1 /\ \A k \in 1..i - 1 : s[k] = r[k] BY <2>1
  <2>3. z \in Seq(E) /\ Len(z) = i /\ \A k \in 1..i : z[k] = q[k] BY <2>1
  <2> HIDE DEF s, z
  <2>4. /\ h \o s \in Seq(E) /\ Len(h \o s) = i
        /\ \A k \in 1..i : (h \o s)[k] = IF k = 1 THEN h[1] ELSE s[k - 1]
    <3>1. ASSUME NEW u \in Seq(E), NEW v \in Seq(E), Len(u) = 1
          PROVE  /\ u \o v \in Seq(E) /\ Len(u \o v) = Len(v) + 1
                 /\ \A k \in 1..Len(v) + 1 : (u \o v)[k] = IF k = 1 THEN u[1] ELSE v[k - 1]
      <4>0. Len(v) \in Nat OBVIOUS
      <4>1. /\ u \o v \in Seq(E) /\ Len(u \o v) = Len(u) + Len(v)
            /\ \A k \in 1..Len(u) + Len(v) : (u \o v)[k] = IF k <= Len(u) THEN u[k] ELSE v[k - Len(u)]
        BY ConcatProperties
      <4>2. Len(u) + Len(v) = Len(v) + 1 /\ \A k \in 1..Len(v) + 1 : k <= Len(u) <=> k = 1
        BY <3>1, <4>0
      <4> QED BY <3>1, <4>1, <4>2
    <3>2. (i - 1) + 1 = i BY <2>1
    <3> QED BY <2>1, <2>2, <3>1, <3>2
  <2>5. ASSUME NEW k \in 1..i PROVE z[k] = (h \o s)[k]
    <3>1. CASE k = 1 BY <2>1, <2>3, <2>4, <3>1
    <3>2. CASE k # 1
      <4>1. k - 1 \in 1..i - 1 /\ k - 1 \in 1..Len(q) - 1 /\ (k - 1) + 1 = k BY <2>1, <3>2
      <4>2. (h \o s)[k] = s[k - 1] BY <2>4, <3>2
      <4>3. s[k - 1] = r[k - 1] BY <2>2, <4>1
      <4>4. r[k - 1] = q[k] BY <2>1, <4>1
      <4> QED BY <2>3, <4>2, <4>3, <4>4
    <3> QED BY <3>1, <3>2
  <2>6. z = h \o s
    <3>1. \A u \in Seq(E), v \in Seq(E) :
            Len(u) = Len(v) /\ (\A k \in 1..Len(u) : u[k] = v[k]) => u = v
      BY SeqEqual, Zenon
    <3> QED BY <2>3, <2>4, <2>5, <3>1, Zenon
  <2> QED BY <2>2, <2>6 DEF h, r, s, z
<1> QED BY <1>1, <1>2 DEF E

\* Piece by piece the news stays explained: as something is told, ...
LEMMA SaysExplained ==
    ASSUME NEW n \in Seq(Items), NEW t, NEW e \in Items, Explained(n, t),
           e.says \/ e.sample \/ Belief(n, t) # "none"
    PROVE  Explained(n \o <<e>>, t)
<1> DEFINE m == n \o <<e>>
<1> SUFFICES ASSUME NEW i \in DOMAIN m, ~m[i].says, ~m[i].sample
             PROVE  BeliefAt(m, i - 1, t) # "none"
  BY DEF Explained
<1>1. /\ Len(n) \in Nat /\ DOMAIN n = 1..Len(n) /\ i \in 1..Len(n) + 1 /\ m[Len(n) + 1] = e
      /\ BeliefAt(m, i - 1, t) = BeliefAt(n, i - 1, t) /\ SubSeq(n, 1, Len(n)) = n
      /\ i # Len(n) + 1 => m[i] = n[i]
  <2>1. /\ Len(n) \in Nat /\ DOMAIN n = 1..Len(n) /\ i \in 1..Len(n) + 1 /\ m[Len(n) + 1] = e
        /\ SubSeq(n, 1, Len(n)) = n /\ i # Len(n) + 1 => m[i] = n[i]
    BY FoundLast
  <2>2. SubSeq(m, 1, i - 1) = SubSeq(n, 1, i - 1) BY <2>1, FoundLast
  <2>3. BeliefAt(m, i - 1, t) = BeliefAt(n, i - 1, t) BY <2>2, Zenon DEF BeliefAt
  <2> QED BY <2>1, <2>3
<1> HIDE DEF m
<1>2. CASE i = Len(n) + 1
  <2>1. i - 1 = Len(n) BY <1>1, <1>2
  <2> QED BY <1>1, <1>2, <2>1 DEF BeliefAt
<1>3. CASE i # Len(n) + 1
  <2>1. i \in DOMAIN n BY <1>1, <1>3
  <2> QED BY <1>1, <1>3, <2>1 DEF Explained
<1> QED BY <1>2, <1>3

\* ... and as it is heard, what was explained is told.
LEMMA HeardExplained ==
    ASSUME NEW n \in Seq(Items), NEW t, n # <<>>, Explained(n, t)
    PROVE  /\ Explained(Tail(n), IF Head(n).says THEN Head(n).why ELSE t)
           /\ Head(n).says \/ Head(n).sample \/ t # "none"
<1> DEFINE u == IF Head(n).says THEN Head(n).why ELSE t
           m == Tail(n)
<1>1. ASSUME NEW i \in DOMAIN m, ~m[i].says, ~m[i].sample PROVE BeliefAt(m, i - 1, u) # "none"
  <2>1. i + 1 \in DOMAIN n /\ m[i] = n[i + 1] /\ i \in 1..Len(n) - 1 /\ (i + 1) - 1 = i
    BY HeardFirst
  <2>2. BeliefAt(n, (i + 1) - 1, t) # "none" BY <1>1, <2>1 DEF Explained
  <2>3. BeliefAt(n, i, t) # "none" BY <2>1, <2>2
  <2>4. Belief(<<Head(n)>> \o SubSeq(m, 1, i - 1), t) = Belief(SubSeq(m, 1, i - 1), u)
    BY <2>1, HeardFirst, BeliefHeard
  <2>5. SubSeq(n, 1, i) = <<Head(n)>> \o SubSeq(m, 1, i - 1) BY <2>1, HeardFirst
  <2>6. Belief(SubSeq(n, 1, i), t) = Belief(SubSeq(m, 1, i - 1), u) BY <2>4, <2>5, Zenon
  <2> HIDE DEF m, u
  <2> QED BY <2>3, <2>6, Zenon DEF BeliefAt
<1>2. ASSUME ~Head(n).says, ~Head(n).sample PROVE t # "none"
  <2>1. 1 \in DOMAIN n /\ n[1] = Head(n) /\ SubSeq(n, 1, 1 - 1) = <<>>
    BY HeardFirst
  <2>2. Belief(<<>>, t) = t
    <3>1. <<>> \in Seq(Items) /\ DOMAIN <<>> = {} OBVIOUS
    <3> QED BY <3>1, BeliefIs
  <2> QED BY <1>2, <2>1, <2>2 DEF Explained, BeliefAt
<1> QED BY <1>1, <1>2 DEF Explained

\* The promise keeps its news explained, and so tells before it takes numbers away.
LEMMA ExplainedStep ==
    ASSUME Held \in Seq(Items), Explained(Held, told), [Operator!Next]_(Operator!vars)
    PROVE  Explained(Held, told)' /\ (Operator!Told \/ UNCHANGED Operator!vars)
<1>1. CASE UNCHANGED Operator!vars
  <2>1. Held' = Held /\ told' = told BY <1>1 DEF Operator!vars, Held
  <2> QED BY <1>1, <2>1
<1>2. ASSUME NEW b \in BOOLEAN, NEW w \in {"none", "sample", "apps"}, Operator!Poll(b, w)
      PROVE  Explained(Held, told)' /\ Operator!Told
  <2> DEFINE x == Operator!Says(w)
             y == Operator!Shows(b)
  <2>1. /\ x \in Items /\ x.says /\ x.why = w /\ y \in Items /\ ~y.says /\ y.sample = b
    BY ItemKinds DEF Whys
  <2> HIDE DEF x, y
  <2>2. ~b => w # "none" BY <1>2 DEF Operator!Poll
  <2>5. told' = told /\ Operator!Told BY <1>2 DEF Operator!Poll, Operator!Told
  <2>6. Held' = Held \o (IF (w = "none") = (Belief(Held, told) = "none")
                         THEN <<>> ELSE <<x>>) \o <<y>>
    BY <1>2, BelievedIs DEF Operator!Poll, Held, x, y
  <2>3. CASE (w = "none") = (Belief(Held, told) = "none")
    <3>1. Held \o <<>> = Held BY ConcatEmptySeq
    <3>2. Held' = Held \o <<y>> BY <2>3, <2>6, <3>1
    <3>3. y.says \/ y.sample \/ Belief(Held, told) # "none" BY <2>1, <2>2, <2>3
    <3>4. Explained(Held \o <<y>>, told) BY <2>1, <3>3, SaysExplained
    <3> QED BY <2>5, <3>2, <3>4, Zenon
  <2>4. CASE ~((w = "none") = (Belief(Held, told) = "none"))
    <3> DEFINE m == Held \o <<x>>
    <3>1. Held' = m \o <<y>> BY <2>4, <2>6
    <3>2. m \in Seq(Items) /\ Belief(m, told) = w BY <2>1, FoundLast, BeliefFound
    <3>3. Explained(m, told) BY <2>1, SaysExplained
    <3> HIDE DEF m
    <3>4. Explained(m \o <<y>>, told) BY <2>1, <2>2, <3>2, <3>3, SaysExplained
    <3> QED BY <2>5, <3>1, <3>4, Zenon
  <2> QED BY <2>3, <2>4
<1>3. CASE Operator!Learn
  <2>1. /\ Held # <<>> /\ Held' = Tail(Held)
        /\ told' = IF Head(Held).says THEN Head(Held).why ELSE told
        /\ gpu_measured' = IF Head(Held).says THEN gpu_measured ELSE Head(Held).sample
    BY <1>3 DEF Operator!Learn, Held
  <2>2. /\ Explained(Tail(Held), IF Head(Held).says THEN Head(Held).why ELSE told)
        /\ Head(Held).says \/ Head(Held).sample \/ told # "none"
    BY <2>1, HeardExplained
  <2>3. Explained(Held, told)' BY <2>1, <2>2
  <2>4. Operator!Told BY <2>1, <2>2 DEF Operator!Told
  <2> QED BY <2>3, <2>4
<1>4. CASE Operator!Drop
  <2>1. Held' = <<>> /\ gpu_measured' = gpu_measured BY <1>4 DEF Operator!Drop, Held
  <2> QED BY <2>1 DEF Operator!Told, Explained
<1> QED BY <1>1, <1>2, <1>3, <1>4 DEF Operator!Next

\* The numbers of the GPU never give way to "n/a" unless the operator has been told that
\* something failed and nothing since: the edge of the poller, its memory, the order of
\* the channel and the loop together (main.rs).
THEOREM OutagesTold == Spec => Operator!OutageIsTold
<1>1. Init => Explained(Held, told)
  <2> SUFFICES ASSUME Init PROVE Explained(Held, told) OBVIOUS
  <2>1. chan = <<>> /\ poller.at = "sleep" BY DEF Init, Asleep
  <2>2. Unsent = <<>> \o <<>> BY <2>1 DEF Unsent
  <2>3. Held = <<>> BY <2>1, <2>2, NewsNone DEF Held
  <2> QED BY <2>3 DEF Explained
<1>2. IndInv => Held \in Seq(Items) BY HeldType
<1>3. Held \in Seq(Items) /\ Explained(Held, told) /\ [Operator!Next]_(Operator!vars)
        => Explained(Held, told)' /\ [Operator!Told]_(Operator!vars)
  BY ExplainedStep
<1> QED
  BY <1>1, <1>2, <1>3, Inductive, Implements, PTL
     DEF Spec, ImplementsTelemetry, Operator!Spec, Operator!OutageIsTold
==============================================================================
