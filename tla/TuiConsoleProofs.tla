-------------------------- MODULE TuiConsoleProofs --------------------------
(***************************************************************************)
(* Proofs about TuiConsole (and the LogView in it) for any models, typed   *)
(* symbols, limits and sessions: no index leaves what it indexes, no key   *)
(* makes the cursor leave the text, the highlighted line of the log        *)
(* follows or stays, and the history is the last lines fired.  What is     *)
(* remembered of a session is a recursive function: the lemmas about it    *)
(* are by induction up to the number of lines, through the least one for   *)
(* which they would fail.                                                  *)
(***************************************************************************)
EXTENDS TuiConsole, FiniteSetTheorems, SequenceTheorems, TLAPS

\* What the constants are, as the steps below use it.
LEMMA Bounds ==
    /\ LogCap \in Nat /\ LogCap > 0 /\ Nothing \notin Nat
    /\ IsFiniteSet(Models) /\ Cardinality(Models) \in Nat
    /\ \A s \in Sessions : s.listed \in Nat /\ s.searched \in Nat
<1>1. Cardinality(Models) \in Nat
  BY BoundsAssumption, FS_CardinalityType
<1> QED BY <1>1, BoundsAssumption, LogAssumption

------------------------------------------------------------------------------
(* The log view.                                                           *)

\* The lines shown are finitely many, and no more than there are.
LEMMA ShownFinite ==
    ASSUME NEW lines \in Seq(Nat), NEW q \in Nat
    PROVE  /\ IsFiniteSet(Shown(lines, q))
           /\ Cardinality(Shown(lines, q)) \in 0..Len(lines)
           /\ Shown(lines, q) = {} <=> Cardinality(Shown(lines, q)) = 0
<1>1. IsFiniteSet(1..Len(lines)) /\ Cardinality(1..Len(lines)) = Len(lines)
  <2>1. Len(lines) \in Nat OBVIOUS
  <2>2. /\ IsFiniteSet(1..Len(lines))
        /\ Cardinality(1..Len(lines)) = IF 1 > Len(lines) THEN 0 ELSE Len(lines) - 1 + 1
    BY <2>1, FS_Interval, SMTT(30)
  <2> QED BY <2>1, <2>2
<1>2. Shown(lines, q) \in SUBSET (1..Len(lines))
  BY DEF Shown
<1>3. IsFiniteSet(Shown(lines, q)) /\ Cardinality(Shown(lines, q)) <= Len(lines)
  BY <1>1, <1>2, FS_Subset
<1>4. Cardinality(Shown(lines, q)) \in Nat
  BY <1>3, FS_CardinalityType
<1>5. Shown(lines, q) = {} <=> Cardinality(Shown(lines, q)) = 0
  BY <1>3, FS_EmptySet
<1> QED BY <1>3, <1>4, <1>5

\* A draw leaves the selection inside the lines shown.
LEMMA ViewType ==
    ASSUME NEW lines \in Seq(Nat), Len(lines) <= LogCap, NEW q \in Nat,
           NEW i, i = Nothing \/ i \in Nat,
           View(lines, q, i), auto_scroll' \in BOOLEAN
    PROVE  LogTypeOK'
<1> DEFINE n == Cardinality(Shown(lines, q))
<1>1. n \in Nat BY ShownFinite
<1>2. logs' = lines /\ query' = q /\ at' = Drawn(i, n) BY DEF View
<1>3. Drawn(i, n) = Nothing \/ Drawn(i, n) \in 0..n - 1
  BY <1>1, Bounds DEF Drawn
<1> QED BY <1>2, <1>3 DEF LogTypeOK

\* A log left alone keeps its types.
LEMMA LogKept ==
    ASSUME LogTypeOK, UNCHANGED viewVars
    PROVE  LogTypeOK'
BY DEF LogTypeOK, viewVars

\* A log that takes a line stays within its limit, and its last line has a number.
LEMMA AddedLines ==
    ASSUME LogTypeOK, NEW line \in Nat
    PROVE  LET lines == Append(IF Len(logs) = LogCap THEN Tail(logs) ELSE logs, line)
           IN  lines \in Seq(Nat) /\ Len(lines) \in 1..LogCap /\ LastLine(lines) \in Nat
<1> DEFINE old == IF Len(logs) = LogCap THEN Tail(logs) ELSE logs
           lines == Append(old, line)
<1>1. logs \in Seq(Nat) /\ Len(logs) <= LogCap /\ LogCap \in Nat /\ LogCap > 0
  BY Bounds DEF LogTypeOK
<1>2. old \in Seq(Nat) /\ Len(old) < LogCap
  <2>1. CASE Len(logs) = LogCap
    <3>1. logs # <<>> BY <1>1, <2>1
    <3> QED BY <1>1, <2>1, <3>1
  <2> QED BY <1>1, <2>1
<1> HIDE DEF old
<1>3. lines \in Seq(Nat) /\ Len(lines) = Len(old) + 1
  BY <1>2
<1>4. Len(lines) \in 1..LogCap BY <1>1, <1>2, <1>3
<1>5. LastLine(lines) \in Nat BY <1>3, <1>4 DEF LastLine
<1> QED BY <1>3, <1>4, <1>5 DEF old

\* What is done to the log keeps its types.
LEMMA AddLogType ==
    ASSUME LogTypeOK, NEW line \in Nat, AddLog(line)
    PROVE  LogTypeOK'
<1> DEFINE lines == Append(IF Len(logs) = LogCap THEN Tail(logs) ELSE logs, line)
<1>1. lines \in Seq(Nat) /\ Len(lines) \in 1..LogCap /\ LastLine(lines) \in Nat
  BY AddedLines
<1>2. View(lines, query, IF auto_scroll THEN LastLine(lines) ELSE at) /\ auto_scroll' = auto_scroll
  BY DEF AddLog
<1>3. /\ query \in Nat /\ auto_scroll \in BOOLEAN
      /\ at = Nothing \/ at \in Nat
      /\ Len(lines) <= LogCap
  <2>1. Cardinality(Shown(logs, query)) \in Nat BY ShownFinite DEF LogTypeOK
  <2> QED BY <1>1, <2>1, Bounds DEF LogTypeOK
<1> HIDE DEF lines
<1>4. CASE auto_scroll BY <1>1, <1>2, <1>3, <1>4, ViewType
<1>5. CASE ~auto_scroll BY <1>1, <1>2, <1>3, <1>5, ViewType
<1> QED BY <1>4, <1>5

\* Scrolling stays within the lines shown.
LEMMA ScrollType ==
    ASSUME LogTypeOK, ScrollUp \/ ScrollDown
    PROVE  LogTypeOK'
<1>1. /\ logs \in Seq(Nat) /\ Len(logs) <= LogCap /\ query \in Nat
      /\ auto_scroll \in BOOLEAN
      /\ at = Nothing \/ at \in Nat
  <2>1. Cardinality(Shown(logs, query)) \in Nat BY ShownFinite DEF LogTypeOK
  <2> QED BY <2>1 DEF LogTypeOK
<1>2. CASE ScrollUp
  <2> DEFINE i == IF at = Nothing \/ at = 0 THEN 0 ELSE at - 1
  <2>1. i \in Nat BY <1>1
  <2>2. View(logs, query, i) /\ auto_scroll' \in BOOLEAN BY <1>2 DEF ScrollUp
  <2> HIDE DEF i
  <2> QED BY <1>1, <2>1, <2>2, ViewType
<1>3. CASE ScrollDown
  <2>1. LastLine(logs) \in Nat BY <1>1 DEF LastLine
  <2>2. CASE at # Nothing /\ at >= LastLine(logs)
    BY <1>1, <1>3, <2>1, <2>2, ViewType DEF ScrollDown
  <2>3. CASE ~(at # Nothing /\ at >= LastLine(logs))
    <3> DEFINE i == IF at = Nothing THEN 0 ELSE at + 1
    <3>1. i \in Nat BY <1>1
    <3>2. View(logs, query, i) /\ auto_scroll' \in BOOLEAN
      BY <1>1, <1>3, <2>3 DEF ScrollDown
    <3> HIDE DEF i
    <3> QED BY <1>1, <3>1, <3>2, ViewType
  <2> QED BY <2>2, <2>3
<1> QED BY <1>2, <1>3

\* A new filter draws the selection into what it shows.
LEMMA FilterType ==
    ASSUME LogTypeOK, NEW q \in Nat, Filter(q)
    PROVE  LogTypeOK'
<1>1. /\ logs \in Seq(Nat) /\ Len(logs) <= LogCap
      /\ auto_scroll' \in BOOLEAN
      /\ at = Nothing \/ at \in Nat
  <2>1. Cardinality(Shown(logs, query)) \in Nat BY ShownFinite DEF LogTypeOK
  <2> QED BY <2>1 DEF LogTypeOK, Filter
<1> QED BY <1>1, ViewType DEF Filter

\* A finite set of numbers that is not empty has a highest member, ...
LEMMA HasHighest ==
    ASSUME NEW S \in SUBSET Nat, IsFiniteSet(S), S # {}, NEW n \in Nat,
           \A i \in S : i <= n
    PROVE  \E p \in S : \A i \in S : i <= p
<1> DEFINE T == {n - i : i \in S}
           R == OpToRel(<, Nat)
<1>1. T \subseteq Nat /\ T # {}
  <2>1. \A i \in S : i \in Nat /\ i <= n OBVIOUS
  <2>2. \A i \in S : n - i \in Nat BY <2>1
  <2> QED BY <2>2
<1>2. PICK x \in T : \A y \in T : ~(<<y, x>> \in R)
  <2> HIDE DEF T
  <2>1. IsWellFoundedOn(R, Nat) BY NatLessThanWellFounded
  <2> QED BY <1>1, <2>1, WFMin
<1>3. \A y \in T : ~(y < x)
  BY <1>1, <1>2 DEF OpToRel
<1>4. PICK p \in S : x = n - p
  BY <1>2
<1>5. \A i \in S : ~(n - i < n - p)
  BY <1>3, <1>4
<1> QED BY <1>5

\* ... the only one with all others before it.
LEMMA HighestIsLast ==
    ASSUME NEW S \in SUBSET Nat, IsFiniteSet(S), NEW p \in S
    PROVE  (\A i \in S : i <= p) <=> Cardinality({i \in S : i < p}) = Cardinality(S) - 1
<1> DEFINE D == {i \in S : i < p}
<1>1. Cardinality(S) \in Nat BY FS_CardinalityType
<1>2. IsFiniteSet(S \ {p}) /\ Cardinality(S \ {p}) = Cardinality(S) - 1
  BY FS_RemoveElement
<1>3. ASSUME \A i \in S : i <= p PROVE Cardinality(D) = Cardinality(S) - 1
  <2>1. \A i \in S : i < p <=> i # p BY <1>3
  <2>2. D = S \ {p} BY <2>1
  <2> QED BY <1>2, <2>2
<1>4. ASSUME NEW j \in S, ~(j <= p), Cardinality(D) = Cardinality(S) - 1 PROVE FALSE
  <2> DEFINE rest == (S \ {p}) \ {j}
  <2>1. j \in S \ {p} BY <1>4
  <2>2. IsFiniteSet(rest) /\ Cardinality(rest) = Cardinality(S) - 2
    <3>1. IsFiniteSet(rest) /\ Cardinality(rest) = Cardinality(S \ {p}) - 1
      BY <1>2, <2>1, FS_RemoveElement
    <3> QED BY <1>1, <1>2, <3>1
  <2>3. D \in SUBSET rest BY <1>4
  <2>4. Cardinality(D) <= Cardinality(rest) BY <2>2, <2>3, FS_Subset
  <2> QED BY <1>1, <1>4, <2>2, <2>4
<1> QED BY <1>3, <1>4

\* The last number of those shown is that of the newest line shown.
LEMMA LastShown ==
    ASSUME NEW lines \in Seq(Nat), NEW q \in Nat, Shown(lines, q) # {}
    PROVE  \A i \in Shown(lines, q) :
              i <= LineAt(lines, q, Cardinality(Shown(lines, q)) - 1)
<1> DEFINE S == Shown(lines, q)
           n == Cardinality(S)
           T == {p \in S : Cardinality({j \in S : j < p}) = n - 1}
<1>1. S \in SUBSET Nat /\ IsFiniteSet(S) /\ Len(lines) \in Nat /\ \A i \in S : i <= Len(lines)
  BY ShownFinite DEF Shown
<1>2. LineAt(lines, q, n - 1) = CHOOSE p \in T : TRUE
  BY DEF LineAt
<1> HIDE DEF S
<1>3. S # {} BY DEF S
<1>4. PICK p \in S : \A i \in S : i <= p BY <1>1, <1>3, HasHighest
<1>5. p \in T BY <1>1, <1>4, HighestIsLast
<1> DEFINE h == CHOOSE x \in T : TRUE
<1>6. h \in T BY <1>5
<1>7. h \in S /\ Cardinality({j \in S : j < h}) = n - 1 BY <1>6
<1> HIDE DEF h, n, T
<1>8. \A i \in S : i <= h BY <1>1, <1>7, HighestIsLast DEF n
<1> QED BY <1>2, <1>8 DEF S, n, h

\* A new line takes no number from an older one.
LEMMA OlderKeepNumbers ==
    ASSUME NEW lines \in Seq(Nat), NEW q \in Nat, NEW line \in Nat,
           NEW i \in 0..Cardinality(Shown(lines, q)) - 1
    PROVE  /\ i < Cardinality(Shown(Append(lines, line), q))
           /\ LineAt(Append(lines, line), q, i) = LineAt(lines, q, i)
<1> DEFINE S == Shown(lines, q)
           longer == Append(lines, line)
           U == Shown(longer, q)
           new == Len(lines) + 1
<1>1. /\ longer \in Seq(Nat) /\ Len(lines) \in Nat /\ DOMAIN longer = 1..new
      /\ \A j \in 1..Len(lines) : longer[j] = lines[j]
  OBVIOUS
<1>2. S \subseteq 1..Len(lines) /\ S \subseteq U /\ U \subseteq S \cup {new}
  BY <1>1 DEF Shown
<1>3. IsFiniteSet(S) /\ IsFiniteSet(U) /\ Cardinality(S) \in Nat /\ Cardinality(U) \in Nat
  <2> HIDE DEF longer
  <2> QED BY <1>1, ShownFinite
<1>4. Cardinality(S) <= Cardinality(U)
  <2> HIDE DEF S, U
  <2> QED BY <1>2, <1>3, FS_Subset
<1>5. {p \in U : Cardinality({j \in U : j < p}) = i} = {p \in S : Cardinality({j \in S : j < p}) = i}
  <2> HIDE DEF S, U
  <2>1. /\ \A j \in S : j \in Nat /\ j < new
        /\ \A j \in U \ S : j = new
    BY <1>1, <1>2
  <2>2. ASSUME NEW p \in S
        PROVE  {j \in U : j < p} = {j \in S : j < p}
    <3>1. \A j \in U : j < p => j \in S BY <1>1, <2>1
    <3> QED BY <1>2, <3>1
  <2>3. ASSUME NEW p \in U, p \notin S
        PROVE  Cardinality({j \in U : j < p}) # i
    <3>1. p = new BY <2>1, <2>3
    <3>2. \A j \in U : j < p <=> j \in S BY <1>1, <1>2, <2>1, <3>1
    <3>3. {j \in U : j < p} = S BY <1>2, <3>2
    <3>4. i # Cardinality(S) BY <1>3 DEF S
    <3> QED BY <3>3, <3>4
  <2> DEFINE inU(p) == Cardinality({j \in U : j < p})
             inS(p) == Cardinality({j \in S : j < p})
  <2>4. \A p \in S : inU(p) = inS(p) BY <2>2
  <2>5. \A p \in U : p \in S \/ inU(p) # i BY <2>3
  <2> HIDE DEF inU, inS
  <2>6. {p \in U : inU(p) = i} = {p \in S : inS(p) = i} BY <1>2, <2>4, <2>5
  <2> QED BY <2>6 DEF inU, inS
<1>6. i < Cardinality(U)
  <2> HIDE DEF S, U
  <2>1. i \in Nat /\ i < Cardinality(S) BY <1>3 DEF S
  <2> QED BY <1>3, <1>4, <2>1
<1>7. LineAt(longer, q, i) = LineAt(lines, q, i)
  <2> HIDE DEF longer
  <2>1. LineAt(longer, q, i) = CHOOSE p \in {p \in U : Cardinality({j \in U : j < p}) = i} : TRUE
    BY DEF LineAt
  <2>2. LineAt(lines, q, i) = CHOOSE p \in {p \in S : Cardinality({j \in S : j < p}) = i} : TRUE
    BY DEF LineAt
  <2> QED BY <1>5, <2>1, <2>2
<1> QED BY <1>6, <1>7

------------------------------------------------------------------------------
(* Types.                                                                  *)

Symbols == Models \cup {"None", "x"} \cup Chars

\* TypeOK, and what it leaves open: the kinds of texts, and how long a list may be.
TypeInv ==
    /\ TypeOK
    /\ session \in Sessions
    /\ input \in Seq(Symbols)
    /\ history \in Seq(Seq(Symbols)) /\ file \in Seq(Seq(Symbols))
    /\ models \in Seq(Models) /\ Len(models) <= Cardinality(Models)

\* A list is a sequence of models, no longer than there are models.
LEMMA ListType ==
    ASSUME session \in Sessions, NEW l \in Lists
    PROVE  l \in Seq(Models) /\ Len(l) \in 0..Cardinality(Models)
<1> DEFINE c == Cardinality(Models)
           m == Min({session.listed, c})
<1>1. session.listed \in Nat /\ c \in Nat BY Bounds
<1>2. m \in Nat /\ m <= c
  <2>1. \E x \in {session.listed, c} : \A y \in {session.listed, c} : x <= y
    BY <1>1
  <2>2. m \in {session.listed, c} /\ \A y \in {session.listed, c} : m <= y
    BY <2>1 DEF Min
  <2> QED BY <1>1, <2>2
<1>3. PICK n \in 0..m : l \in Injection(1..n, Models) BY DEF Lists
<1>4. l \in [1..n -> Models] /\ n \in Nat BY <1>2, <1>3 DEF Injection
<1>5. l \in Seq(Models) /\ Len(l) = n BY <1>4
<1> QED BY <1>1, <1>2, <1>3, <1>5

\* Editing a text makes a text.
LEMMA InsertType ==
    ASSUME NEW S, NEW s \in Seq(S), NEW i \in 1..Len(s) + 1, NEW c \in S
    PROVE  InsertAt(s, i, c) \in Seq(S) /\ Len(InsertAt(s, i, c)) = Len(s) + 1
<1> DEFINE a == SubSeq(s, 1, i - 1)
           b == SubSeq(s, i, Len(s))
<1>1. a \in Seq(S) /\ Len(a) = i - 1 OBVIOUS
<1>2. b \in Seq(S) /\ Len(b) = Len(s) - i + 1 OBVIOUS
<1>3. InsertAt(s, i, c) = (a \o <<c>>) \o b BY DEF InsertAt
<1> HIDE DEF a, b
<1>4. <<c>> \in Seq(S) /\ Len(<<c>>) = 1 OBVIOUS
<1>5. a \o <<c>> \in Seq(S) /\ Len(a \o <<c>>) = i BY <1>1, <1>4
<1>6. (a \o <<c>>) \o b \in Seq(S) /\ Len((a \o <<c>>) \o b) = Len(s) + 1 BY <1>2, <1>5
<1> QED BY <1>3, <1>6

\* So does taking a symbol out of one.
LEMMA RemoveType ==
    ASSUME NEW S, NEW s \in Seq(S), NEW i \in 1..Len(s)
    PROVE  RemoveAt(s, i) \in Seq(S) /\ Len(RemoveAt(s, i)) = Len(s) - 1
<1> DEFINE a == SubSeq(s, 1, i - 1)
           b == SubSeq(s, i + 1, Len(s))
<1>1. a \in Seq(S) /\ Len(a) = i - 1 OBVIOUS
<1>2. b \in Seq(S) /\ Len(b) = Len(s) - i OBVIOUS
<1>3. RemoveAt(s, i) = a \o b BY DEF RemoveAt
<1> HIDE DEF a, b
<1>4. a \o b \in Seq(S) /\ Len(a \o b) = Len(s) - 1 BY <1>1, <1>2
<1> QED BY <1>3, <1>4

\* Recording a line makes a history.
LEMMA RecordType ==
    ASSUME NEW S, NEW lines \in Seq(S), NEW line \in S
    PROVE  Record(lines, line) \in Seq(S)
<1> DEFINE longer == Append(lines, line)
<1>1. longer \in Seq(S) /\ Len(longer) = Len(lines) + 1 OBVIOUS
<1> HIDE DEF longer
<1>2. longer # <<>> BY <1>1
<1>3. Tail(longer) \in Seq(S) BY <1>1, <1>2
<1>4. Record(lines, line) \in {lines, longer, Tail(longer)} BY DEF Record, longer
<1> QED BY <1>1, <1>3, <1>4

\* A payload, and the cursor after it.
LEMMA PayloadType ==
    ASSUME NEW m \in Models \cup {"None"}
    PROVE  Payload(m) \in Seq(Symbols) /\ Len(Payload(m)) = 1
<1>1. m \in Symbols BY DEF Symbols
<1> QED BY <1>1 DEF Payload

\* The types hold at first.
LEMMA TypeInit == Init => TypeInv
<1> SUFFICES ASSUME Init PROVE TypeInv OBVIOUS
<1>1. LogTypeOK
  <2>1. logs = <<>> /\ query = 0 /\ at = Nothing /\ auto_scroll = TRUE BY DEF Init, LogInit
  <2> QED BY <2>1, Bounds DEF LogTypeOK
<1>2. /\ input = Payload("None") /\ cursor = Len(input) + 1
      /\ input \in Seq(Symbols) /\ Len(input) = 1
  BY PayloadType DEF Init
<1>3. file \in Seq(Seq(Symbols)) /\ history = file /\ history_index = Len(history)
  <2>1. file = <<>> \/ file = <<<<"x">>, <<"x", "x">>>> BY DEF Init
  <2>2. "x" \in Symbols BY DEF Symbols
  <2>3. <<"x">> \in Seq(Symbols) /\ <<"x", "x">> \in Seq(Symbols) BY <2>2
  <2>4. <<<<"x">>, <<"x", "x">>>> \in Seq(Seq(Symbols)) BY <2>3
  <2>5. <<>> \in Seq(Seq(Symbols)) OBVIOUS
  <2> QED BY <2>1, <2>4, <2>5 DEF Init
<1>4. models = <<>> /\ models \in Seq(Models) /\ Len(models) = 0 BY DEF Init
<1>5. /\ session \in Sessions /\ focus = "main" /\ tab = "interrogator" /\ page = 0
      /\ active = "None" /\ selected = Nothing /\ draft = 0 /\ crashed = FALSE
  BY DEF Init
<1>6. history_index \in 0..Len(history) /\ cursor \in Nat BY <1>2, <1>3
<1>7. page \in 0..2 /\ draft \in 0..Cardinality(Models) BY <1>5, Bounds
<1>8. TypeOK BY <1>1, <1>5, <1>6, <1>7, Zenon DEF TypeOK
<1> QED BY <1>2, <1>3, <1>4, <1>5, <1>8, Bounds DEF TypeInv

\* So do they after a start, given the file there is.
LEMMA RestartType ==
    ASSUME TypeInv, Restart, file' \in Seq(Seq(Symbols))
    PROVE  TypeInv'
<1>1. LogTypeOK'
  <2>1. logs' = <<>> /\ query' = 0 /\ at' = Nothing /\ auto_scroll' = TRUE BY DEF Restart
  <2> QED BY <2>1, Bounds DEF LogTypeOK
<1>2. /\ cursor' = Len(input') + 1
      /\ input' \in Seq(Symbols) /\ Len(input') = 1
  BY PayloadType DEF Restart
<1>3. history' \in Seq(Seq(Symbols)) /\ history_index' = Len(history') /\ Len(history') \in Nat
  BY DEF Restart
<1>4. models' = <<>> /\ models' \in Seq(Models) /\ Len(models') = 0 BY DEF Restart
<1>5. /\ session' = session /\ focus' = "main" /\ tab' = "interrogator" /\ page' = 0
      /\ active' = "None" /\ selected' = Nothing /\ draft' = 0 /\ crashed' = FALSE
  BY DEF Restart
<1>6. history_index' \in 0..Len(history') /\ cursor' \in Nat BY <1>2, <1>3
<1>7. page' \in 0..2 /\ draft' \in 0..Cardinality(Models) BY <1>5, Bounds
<1>8. TypeOK' BY <1>1, <1>5, <1>6, <1>7, Zenon DEF TypeOK
<1> QED BY <1>2, <1>3, <1>4, <1>5, <1>8, Bounds DEF TypeInv

\* What CursorStays says of a step.
CursorKept == cursor <= Len(input) => cursor' <= Len(input') /\ ~crashed'

\* Keys of the dashboard, the search, the help and the tuner keep them, ...
LEMMA DashboardType ==
    ASSUME TypeInv,
           OnMain \/ Leave \/ Scroll \/ Search \/ TunerTab \/ TunerEnter \/ PickDraft
    PROVE  TypeInv' /\ CursorKept
<1> USE DEF TypeInv, TypeOK, CursorKept, Running, editVars, lineVars, historyVars, listVars, paneVars
<1>1. CASE OnMain BY <1>1, LogKept DEF OnMain
<1>2. CASE Leave BY <1>2, LogKept DEF Leave
<1>3. CASE Scroll
  <2>1. LogTypeOK' BY <1>3, ScrollType DEF Scroll
  <2> QED BY <1>3, <2>1 DEF Scroll
<1>4. CASE Search
  <2>1. LogTypeOK'
    <3>1. query \in Nat /\ 0 \in Nat BY DEF LogTypeOK
    <3>2. \E q \in Nat : Filter(q)
      <4>1. CASE Filter(0) BY <4>1
      <4>2. CASE query < session.searched /\ Filter(query + 1) BY <3>1, <4>2
      <4>3. CASE query > 0 /\ Filter(query - 1)
        <5>1. query - 1 \in Nat BY <3>1, <4>3
        <5> QED BY <4>3, <5>1
      <4> QED BY <1>4, <4>1, <4>2, <4>3 DEF Search
    <3> QED BY <3>2, FilterType
  <2>2. focus' \in {"main", "tuner", "console", "help", "search"} BY <1>4 DEF Search
  <2> QED BY <1>4, <2>1, <2>2 DEF Search
<1>5. CASE TunerTab
  <2>1. page' \in 0..2 BY <1>5 DEF TunerTab
  <2> QED BY <1>5, <2>1, LogKept DEF TunerTab
<1>6. CASE TunerEnter
  <2>1. PICK line \in Lines : AddLog(line) BY <1>6 DEF TunerEnter
  <2>2. line \in Nat BY Bounds DEF Lines
  <2>3. LogTypeOK' BY <2>1, <2>2, AddLogType
  <2>4. focus' \in {"main", "tuner"} BY <1>6 DEF TunerEnter
  <2> QED BY <1>6, <2>3, <2>4 DEF TunerEnter
<1>7. CASE PickDraft
  <2>1. draft' \in 0..Cardinality(Models) BY <1>7, Bounds DEF PickDraft
  <2> QED BY <1>7, <2>1, LogKept DEF PickDraft
<1> QED BY <1>1, <1>2, <1>3, <1>4, <1>5, <1>6, <1>7

\* ... and so do those of the hot-swap list ...
LEMMA SwapType ==
    ASSUME TypeInv, SwapMove \/ SwapEnter
    PROVE  TypeInv' /\ CursorKept
<1> USE DEF TypeInv, TypeOK, CursorKept, Running, Swapping,
            editVars, lineVars, historyVars, listVars, paneVars
<1>1. CASE SwapMove
  <2>1. PICK i \in IF selected = Nothing THEN {0} ELSE {Up(selected), Down(selected)} :
            selected' = Drawn(i, Len(models))
    BY <1>1 DEF SwapMove
  <2>2. Len(models) \in Nat OBVIOUS
  <2>3. i \in Nat BY <2>1, <2>2 DEF Up, Down, LastIndex
  <2>4. selected' = Nothing \/ selected' \in 0..Len(models) - 1
    BY <2>1, <2>2, <2>3, Bounds DEF Drawn
  <2> QED BY <1>1, <2>4, LogKept DEF SwapMove
<1>2. CASE SwapEnter
  <2>1. PICK line \in Lines : AddLog(line) BY <1>2 DEF SwapEnter
  <2>2. line \in Nat BY Bounds DEF Lines
  <2>3. LogTypeOK' BY <2>1, <2>2, AddLogType
  <2>4. selected \in 0..Len(models) - 1 BY <1>2 DEF SwapEnter
  <2>5. active' \in Models BY <1>2, <2>4 DEF SwapEnter
  <2>6. /\ input' \in Seq(Symbols) /\ cursor' = Len(input') /\ cursor' \in Nat
    BY <1>2, <2>5, PayloadType DEF SwapEnter, Replace
  <2> QED BY <1>2, <2>3, <2>5, <2>6 DEF SwapEnter
<1> QED BY <1>1, <1>2

\* ... and of the console ...
LEMMA ConsoleType ==
    ASSUME TypeInv,
           \/ CursorMove \/ HistoryUp \/ HistoryDown \/ Backspace \/ Delete \/ Enter
           \/ \E c \in Chars : Char(c)
    PROVE  TypeInv' /\ CursorKept
<1> USE DEF TypeInv, TypeOK, CursorKept, Running, Typing,
            lineVars, historyVars, listVars, paneVars
<1>0. Len(input) \in Nat /\ Len(history) \in Nat OBVIOUS
<1>1. CASE CursorMove
  <2>1. cursor' \in Nat /\ (cursor <= Len(input) => cursor' <= Len(input))
    BY <1>0, <1>1 DEF CursorMove
  <2> QED BY <1>1, <2>1, LogKept DEF CursorMove
<1>2. CASE HistoryUp
  <2>1. history[history_index] \in Seq(Symbols) BY <1>0, <1>2 DEF HistoryUp
  <2>2. input' \in Seq(Symbols) /\ cursor' = Len(input') /\ cursor' \in Nat
    BY <1>2, <2>1 DEF HistoryUp, Replace
  <2>3. history_index' \in 0..Len(history) BY <1>0, <1>2 DEF HistoryUp
  <2> QED BY <1>2, <2>2, <2>3, LogKept DEF HistoryUp
<1>3. CASE HistoryDown
  <2>1. history_index' \in 1..Len(history) /\ history_index' = history_index + 1
    BY <1>0, <1>3 DEF HistoryDown
  <2> DEFINE text == IF history_index' = Len(history) THEN <<>> ELSE history[history_index' + 1]
  <2>2. text \in Seq(Symbols) BY <1>0, <2>1
  <2>3. Replace(text) BY <1>3 DEF HistoryDown
  <2> HIDE DEF text
  <2>4. input' \in Seq(Symbols) /\ cursor' = Len(input') /\ cursor' \in Nat
    BY <2>2, <2>3 DEF Replace
  <2> QED BY <1>0, <1>3, <2>1, <2>4, LogKept DEF HistoryDown
<1>4. CASE Backspace
  <2>1. CASE cursor > Len(input) BY <1>0, <1>4, <2>1, LogKept DEF Backspace
  <2>2. CASE ~(cursor > Len(input))
    <3>1. cursor \in 1..Len(input) BY <1>0, <1>4, <2>2 DEF Backspace
    <3>2. input' = RemoveAt(input, cursor) /\ cursor' = cursor - 1 /\ crashed' = crashed
      BY <1>4, <2>2 DEF Backspace
    <3>3. input' \in Seq(Symbols) /\ Len(input') = Len(input) - 1
      BY <3>1, <3>2, RemoveType
    <3> QED BY <1>0, <1>4, <3>1, <3>2, <3>3, LogKept DEF Backspace
  <2> QED BY <2>1, <2>2
<1>5. CASE Delete
  <2>1. cursor + 1 \in 1..Len(input) /\ input' = RemoveAt(input, cursor + 1)
    BY <1>0, <1>5 DEF Delete
  <2>2. input' \in Seq(Symbols) /\ Len(input') = Len(input) - 1
    BY <2>1, RemoveType
  <2> QED BY <1>0, <1>5, <2>1, <2>2, LogKept DEF Delete
<1>6. CASE Enter
  <2>1. history' \in Seq(Seq(Symbols)) /\ (history' = history \/ history_index' = Len(history'))
    BY <1>6, RecordType DEF Enter
  <2>2. history_index' \in 0..Len(history') BY <1>0, <1>6, <2>1 DEF Enter
  <2> QED BY <1>6, <2>1, <2>2, LogKept DEF Enter
<1>7. ASSUME NEW c \in Chars, Char(c) PROVE TypeInv' /\ CursorKept
  <2>1. CASE cursor > Len(input) BY <1>0, <1>7, <2>1, LogKept DEF Char
  <2>2. CASE ~(cursor > Len(input))
    <3>1. cursor + 1 \in 1..Len(input) + 1 /\ c \in Symbols BY <1>0, <2>2 DEF Symbols
    <3>2. input' = InsertAt(input, cursor + 1, c) /\ cursor' = cursor + 1 /\ crashed' = crashed
      BY <1>7, <2>2 DEF Char
    <3>3. input' \in Seq(Symbols) /\ Len(input') = Len(input) + 1
      BY <3>1, <3>2, InsertType, ZenonT(60)
    <3> QED BY <1>0, <1>7, <3>1, <3>2, <3>3, LogKept DEF Char
  <2> QED BY <2>1, <2>2
<1> QED BY <1>1, <1>2, <1>3, <1>4, <1>5, <1>6, <1>7

\* ... and the events of the background tasks.
LEMMA EventType ==
    ASSUME TypeInv,
           (\E l \in Lists : ModelsFetched(l)) \/ ActiveModelSet \/ Logged
    PROVE  TypeInv' /\ CursorKept
<1> USE DEF TypeInv, TypeOK, CursorKept, Running,
            editVars, lineVars, historyVars, listVars, paneVars
<1>1. ASSUME NEW l \in Lists, ModelsFetched(l) PROVE TypeInv' /\ CursorKept
  <2>1. l \in Seq(Models) /\ Len(l) \in 0..Cardinality(Models) BY ListType
  <2>2. /\ active' \in Models \cup {"None"} /\ input' \in Seq(Symbols) /\ cursor' \in Nat
        /\ cursor <= Len(input) => cursor' <= Len(input')
    <3>1. CASE active = "None" /\ l # <<>>
      <4>1. l[1] \in Models BY <2>1, <3>1
      <4>2. active' = l[1] /\ input' = Payload(l[1]) /\ cursor' = Len(input')
        BY <1>1, <3>1 DEF ModelsFetched, Replace
      <4> QED BY <4>1, <4>2, PayloadType
    <3>2. CASE ~(active = "None" /\ l # <<>>) BY <1>1, <3>2 DEF ModelsFetched
    <3> QED BY <3>1, <3>2
  <2>3. selected' = Nothing \/ selected' \in 0..Len(l) - 1
    <3>1. CASE l = <<>> BY <1>1, <3>1 DEF ModelsFetched
    <3>2. CASE l # <<>>
      <4>1. Len(l) > 0 BY <2>1, <3>2
      <4> QED BY <1>1, <2>1, <3>2, <4>1 DEF ModelsFetched
    <3> QED BY <3>1, <3>2
  <2>4. models' = l /\ ~crashed' BY <1>1 DEF ModelsFetched
  <2> QED BY <1>1, <2>1, <2>2, <2>3, <2>4, LogKept, Bounds DEF ModelsFetched
<1>2. CASE ActiveModelSet \/ Logged
  <2>1. PICK line \in Lines : AddLog(line) BY <1>2 DEF ActiveModelSet, Logged
  <2>2. line \in Nat BY Bounds DEF Lines
  <2>3. LogTypeOK' BY <2>1, <2>2, AddLogType
  <2> QED BY <1>2, <2>3, SMTT(30) DEF ActiveModelSet, Logged
<1> QED BY <1>1, <1>2

\* What a quit leaves in the file is a history, whether it could be written or not.
LEMMA StartType ==
    ASSUME TypeInv, Quit \/ Recover
    PROVE  TypeInv'
<1>1. history \in Seq(Seq(Symbols)) /\ file \in Seq(Seq(Symbols)) BY DEF TypeInv
<1>2. file' \in Seq(Seq(Symbols))
  <2>1. CASE Recover BY <1>1, <2>1 DEF Recover
  <2>2. ASSUME NEW written, SaveHistory(written) PROVE file' \in Seq(Seq(Symbols))
    <3>1. ASSUME NEW n \in 0..Len(history) - 1
          PROVE  SubSeq(history, 1, n) \in Seq(Seq(Symbols))
      BY <1>1
    <3> QED BY <1>1, <2>2, <3>1 DEF SaveHistory
  <2> QED BY <2>1, <2>2 DEF Quit
<1> QED BY <1>2, RestartType DEF Quit, Recover

\* Every step keeps the types, and each but a start the cursor.
LEMMA Step ==
    ASSUME TypeInv, [Next]_vars
    PROVE  TypeInv' /\ (Quit \/ Recover \/ CursorKept \/ UNCHANGED vars)
<1>1. CASE OnMain \/ Leave \/ Scroll \/ Search \/ TunerTab \/ TunerEnter \/ PickDraft
  BY <1>1, DashboardType
<1>2. CASE SwapMove \/ SwapEnter BY <1>2, SwapType
<1>3. CASE \/ CursorMove \/ HistoryUp \/ HistoryDown \/ Backspace \/ Delete \/ Enter
           \/ \E c \in Chars : Char(c)
  BY <1>3, ConsoleType
<1>4. CASE (\E l \in Lists : ModelsFetched(l)) \/ ActiveModelSet \/ Logged
  BY <1>4, EventType
<1>5. CASE Quit \/ Recover BY <1>5, StartType
<1>6. CASE UNCHANGED vars
  BY <1>6, LogKept DEF vars, lineVars, historyVars, listVars, paneVars, TypeInv, TypeOK
<1> QED BY <1>1, <1>2, <1>3, <1>4, <1>5, <1>6 DEF Next

------------------------------------------------------------------------------
(* What the log shows.                                                     *)

\* A line that is added does what LinesFollowOrStay says.
LEMMA AddLogShows ==
    ASSUME LogTypeOK, NEW line \in Nat, AddLog(line)
    PROVE  FollowOrStay
<1> DEFINE lines == Append(IF Len(logs) = LogCap THEN Tail(logs) ELSE logs, line)
           S == Shown(lines, query)
           n == Cardinality(S)
<1>1. lines \in Seq(Nat) /\ Len(lines) \in 1..LogCap BY AddedLines
<1>2. /\ View(lines, query, IF auto_scroll THEN LastLine(lines) ELSE at)
      /\ logs \in Seq(Nat) /\ query \in Nat
      /\ at = Nothing \/ at \in 0..Cardinality(Shown(logs, query)) - 1
  BY DEF AddLog, LogTypeOK
<1>3. CASE auto_scroll
  <2>0. logs' = lines /\ query' = query /\ at' = Drawn(LastLine(lines), n)
    BY <1>2, <1>3 DEF View
  <2> HIDE DEF lines
  <2>1. IsFiniteSet(S) /\ n \in 0..Len(lines) /\ (S = {} <=> n = 0)
    BY <1>1, <1>2, ShownFinite
  <2>2. LastLine(lines) = Len(lines) - 1 /\ LastLine(lines) \in Nat BY <1>1 DEF LastLine
  <2>3. CASE n = 0
    <3>1. at' = Nothing BY <2>0, <2>3 DEF Drawn
    <3> QED BY <1>3, <2>0, <2>1, <2>3, <3>1 DEF FollowOrStay
  <2>4. CASE n # 0
    <3> HIDE DEF n
    <3>1. at' = n - 1 /\ n - 1 \in Nat
      BY <2>0, <2>1, <2>2, <2>4, Bounds DEF Drawn
    <3>2. \A i \in S : i <= LineAt(lines, query, n - 1)
      BY <1>1, <1>2, <2>1, <2>4, LastShown DEF n
    <3>3. Highlighted' = LineAt(lines, query, n - 1) BY <2>0, <3>1 DEF Highlighted
    <3> QED BY <1>3, <2>0, <3>1, <3>2, <3>3, Bounds DEF FollowOrStay
  <2> QED BY <2>3, <2>4
<1>4. CASE ~auto_scroll
  <2> SUFFICES ASSUME at # Nothing, Len(logs) < LogCap
               PROVE  at' # Nothing /\ Highlighted' = Highlighted
    BY <1>4 DEF FollowOrStay
  <2>1. lines = Append(logs, line) BY Bounds
  <2>2. logs' = lines /\ query' = query /\ at' = Drawn(at, n) BY <1>2, <1>4 DEF View
  <2> HIDE DEF lines
  <2>3. at < n /\ LineAt(lines, query, at) = LineAt(logs, query, at)
    BY <1>2, <2>1, OlderKeepNumbers
  <2>4. n \in Nat /\ at \in Nat
    <3>1. Cardinality(Shown(logs, query)) \in Nat BY <1>2, ShownFinite
    <3> QED BY <1>1, <1>2, <3>1, ShownFinite
  <2> HIDE DEF n
  <2>5. at' = at BY <2>2, <2>3, <2>4 DEF Drawn
  <2> QED BY <2>2, <2>3, <2>5 DEF Highlighted
<1> QED BY <1>3, <1>4

\* Nothing else adds a line.
LEMMA LogStep ==
    ASSUME TypeInv, [Next]_vars
    PROVE  FollowOrStay
<1>0. LogTypeOK /\ session \in Sessions BY DEF TypeInv, TypeOK
<1>1. ASSUME NEW line \in Lines, AddLog(line) PROVE FollowOrStay
  <2>1. line \in Nat BY <1>0, Bounds DEF Lines
  <2> QED BY <1>0, <1>1, <2>1, AddLogShows
<1>2. CASE logs' = logs \/ logs' = <<>> BY <1>2 DEF FollowOrStay
<1>3. CASE UNCHANGED viewVars BY <1>2, <1>3 DEF viewVars
<1>4. CASE TunerEnter BY <1>1, <1>4 DEF TunerEnter
<1>5. CASE SwapEnter BY <1>1, <1>5 DEF SwapEnter
<1>6. CASE ActiveModelSet \/ Logged BY <1>1, <1>6 DEF ActiveModelSet, Logged
<1>7. CASE Scroll \/ Search
  BY <1>2, <1>7 DEF Scroll, Search, ScrollUp, ScrollDown, Filter, View
<1>8. CASE Quit \/ Recover BY <1>2, <1>8 DEF Quit, Recover, Restart
<1>9. CASE OnMain \/ Leave \/ TunerTab \/ PickDraft \/ SwapMove
  BY <1>3, <1>9 DEF OnMain, Leave, TunerTab, PickDraft, SwapMove
<1>10. CASE \/ CursorMove \/ HistoryUp \/ HistoryDown \/ Backspace \/ Delete \/ Enter
            \/ \E c \in Chars : Char(c)
  BY <1>3, <1>10 DEF CursorMove, HistoryUp, HistoryDown, Backspace, Delete, Enter, Char
<1>11. CASE \E l \in Lists : ModelsFetched(l) BY <1>3, <1>11 DEF ModelsFetched
<1>12. CASE UNCHANGED vars BY <1>3, <1>12 DEF vars
<1> QED BY <1>4, <1>5, <1>6, <1>7, <1>8, <1>9, <1>10, <1>11, <1>12 DEF Next

------------------------------------------------------------------------------
(* The history.                                                            *)

\* A set of numbers that is not empty has a least member.
LEMMA Least ==
    ASSUME NEW T, T \subseteq Nat, T # {}
    PROVE  \E x \in T : \A y \in T : x <= y
<1> DEFINE Less == {p \in Nat \X Nat : p[1] < p[2]}
<1>1. OpToRel(<, Nat) = Less
  BY DEF OpToRel
<1>2. IsWellFoundedOn(Less, Nat)
  BY <1>1, NatLessThanWellFounded
<1>3. PICK x \in T : \A y \in T : <<y, x>> \notin Less
  BY <1>2, WFMin
<1>4. \A y \in T : y \in Nat /\ x \in Nat /\ ~(y < x)
  BY <1>3
<1> QED
  BY <1>3, <1>4

\* Induction up to a bound: what holds of 0, and of n if it does of n - 1.
LEMMA UpTo ==
    ASSUME NEW N \in Nat, NEW T, 0 \in T, \A n \in 1..N : n - 1 \in T => n \in T
    PROVE  0..N \subseteq T
<1> SUFFICES ASSUME 0..N \ T # {} PROVE FALSE
  OBVIOUS
<1> DEFINE R == 0..N \ T
<1>1. R \subseteq Nat /\ R # {}
  OBVIOUS
<1>2. PICK x \in R : \A y \in R : x <= y
  <2> HIDE DEF R
  <2> QED
    BY <1>1, Least
<1>3. x \in 1..N /\ x - 1 \in 0..N
  BY <1>2
<1>4. x - 1 \in T
  BY <1>2, <1>3
<1> QED
  BY <1>2, <1>3, <1>4

Texts == Seq(Symbols)

\* f has what is remembered after each of the lines of new.
Remembers(old, new, f) ==
    f[0] = old /\ \A n \in 1..Len(new) : f[n] = Kept(f[n - 1], new[n])

\* A line joins what is remembered, or leaves it.
LEMMA KeptType ==
    ASSUME NEW lines \in Seq(Texts), NEW line \in Texts
    PROVE  Kept(lines, line) \in Seq(Texts)
BY DEF Kept

\* What is remembered after each line adds up, ...
LEMMA AllLinesAdd ==
    ASSUME NEW old \in Seq(Texts), NEW new \in Seq(Texts)
    PROVE  \E f : /\ Remembers(old, new, f)
                  /\ \A n \in 0..Len(new) : f[n] \in Seq(Texts)
                  /\ AllLines(old, new) = f[Len(new)]
<1> DEFINE Summed(f, k) == f = [n \in 0..k |-> IF n = 0 THEN old ELSE Kept(f[n - 1], new[n])]
           T == {k \in 0..Len(new) : \E f : Summed(f, k)}
<1>0. Len(new) \in Nat
  OBVIOUS
<1>1. \E f : Summed(f, 0)
  <2>1. Summed([n \in 0..0 |-> old], 0)
    OBVIOUS
  <2> QED
    BY <2>1
<1>2. ASSUME NEW k \in 1..Len(new), NEW f, Summed(f, k - 1) PROVE \E g : Summed(g, k)
  <2> DEFINE g == [n \in 0..k |-> IF n = k THEN Kept(f[k - 1], new[k]) ELSE f[n]]
  <2>1. ASSUME NEW n \in 0..k
        PROVE  g[n] = IF n = 0 THEN old ELSE Kept(g[n - 1], new[n])
    <3>1. CASE n = k
      BY <3>1
    <3>2. CASE n # k
      <4>1. n \in 0..k - 1 /\ (n # 0 => n - 1 \in 0..k /\ n - 1 # k)
        BY <3>2
      <4>2. f[n] = IF n = 0 THEN old ELSE Kept(f[n - 1], new[n])
        BY <1>2, <4>1
      <4> QED
        BY <3>2, <4>1, <4>2
    <3> QED
      BY <3>1, <3>2
  <2>2. Summed(g, k)
    BY <2>1
  <2> QED
    BY <2>2
<1>3. \E f : Summed(f, Len(new))
  <2> HIDE DEF Summed
  <2>1. 0 \in T /\ \A k \in 1..Len(new) : k - 1 \in T => k \in T
    BY <1>0, <1>1, <1>2
  <2>2. 0..Len(new) \subseteq T
    <3> HIDE DEF T
    <3> QED
      BY <1>0, <2>1, UpTo
  <2>3. Len(new) \in T
    BY <1>0, <2>2
  <2> QED
    BY <2>3
<1> DEFINE F == CHOOSE f : Summed(f, Len(new))
<1>4. Summed(F, Len(new))
  BY <1>3
<1>5. AllLines(old, new) = F[Len(new)]
  BY DEF AllLines
<1> HIDE DEF F
<1>6. Remembers(old, new, F)
  <2>1. F[0] = old
    BY <1>0, <1>4
  <2>2. ASSUME NEW n \in 1..Len(new) PROVE F[n] = Kept(F[n - 1], new[n])
    <3>1. n \in 0..Len(new) /\ n # 0
      BY <1>0
    <3> QED
      BY <1>4, <3>1
  <2> QED
    BY <2>1, <2>2 DEF Remembers
<1> HIDE DEF Summed
<1>7. ASSUME NEW n \in 1..Len(new), F[n - 1] \in Seq(Texts) PROVE F[n] \in Seq(Texts)
  <2>1. F[n] = Kept(F[n - 1], new[n])
    BY <1>6 DEF Remembers
  <2>2. new[n] \in Texts
    BY <1>0
  <2> QED
    BY <1>7, <2>1, <2>2, KeptType
<1>8. F[0] \in Seq(Texts)
  BY <1>6 DEF Remembers
<1>9. \A n \in 0..Len(new) : F[n] \in Seq(Texts)
  <2> DEFINE U == {n \in 0..Len(new) : F[n] \in Seq(Texts)}
  <2>1. 0 \in U /\ \A n \in 1..Len(new) : n - 1 \in U => n \in U
    BY <1>0, <1>7, <1>8
  <2>2. 0..Len(new) \subseteq U
    <3> HIDE DEF U
    <3> QED
      BY <1>0, <2>1, UpTo
  <2> QED
    BY <2>2
<1> QED
  BY <1>5, <1>6, <1>9

\* ... starts with what was loaded, ...
LEMMA AllLinesNone ==
    ASSUME NEW old \in Seq(Texts)
    PROVE  AllLines(old, <<>>) = old
<1>1. <<>> \in Seq(Texts) /\ Len(<<>>) = 0
  OBVIOUS
<1>2. PICK f : Remembers(old, <<>>, f) /\ AllLines(old, <<>>) = f[0]
  BY <1>1, AllLinesAdd
<1> QED
  BY <1>2 DEF Remembers

\* ... and takes in each line that is fired.
LEMMA AllLinesJoin ==
    ASSUME NEW old \in Seq(Texts), NEW new \in Seq(Texts), NEW line \in Texts
    PROVE  /\ AllLines(old, new) \in Seq(Texts)
           /\ AllLines(old, Append(new, line)) = Kept(AllLines(old, new), line)
<1> DEFINE longer == Append(new, line)
           N == Len(new)
           m == N + 1
<1>1. /\ longer \in Seq(Texts) /\ Len(longer) = m /\ N \in Nat /\ longer[m] = line
      /\ \A n \in 1..N : longer[n] = new[n]
  OBVIOUS
<1>2. PICK f : Remembers(old, new, f) /\ AllLines(old, new) = f[N]
               /\ \A n \in 0..N : f[n] \in Seq(Texts)
  BY AllLinesAdd
<1> HIDE DEF longer
<1>3. PICK g : Remembers(old, longer, g) /\ AllLines(old, longer) = g[m]
  BY <1>1, AllLinesAdd
<1>4. f[N] = g[N]
  <2> DEFINE T == {n \in 0..N : f[n] = g[n]}
  <2>1. 0 \in T
    BY <1>1, <1>2, <1>3 DEF Remembers
  <2>2. ASSUME NEW n \in 1..N, n - 1 \in T PROVE n \in T
    <3>1. n \in 1..Len(longer) /\ f[n - 1] = g[n - 1] /\ longer[n] = new[n]
      BY <1>1, <2>2
    <3>2. f[n] = Kept(f[n - 1], new[n]) /\ g[n] = Kept(g[n - 1], longer[n])
      BY <1>2, <1>3, <3>1 DEF Remembers
    <3>3. f[n] = g[n] /\ n \in 0..N
      BY <3>1, <3>2
    <3> QED
      BY <3>3
  <2>3. 0..N \subseteq T
    <3> HIDE DEF T
    <3> QED
      BY <1>1, <2>1, <2>2, UpTo
  <2>4. N \in T
    BY <1>1, <2>3
  <2> QED
    BY <2>4
<1>5. g[m] = Kept(g[N], line)
  <2>1. m \in 1..Len(longer) /\ m - 1 = N
    BY <1>1
  <2>2. g[m] = Kept(g[m - 1], longer[m])
    BY <1>3, <2>1 DEF Remembers
  <2> QED
    BY <1>1, <2>1, <2>2
<1>6. f[N] \in Seq(Texts)
  BY <1>1, <1>2
<1> QED
  BY <1>2, <1>3, <1>4, <1>5, <1>6 DEF longer

\* The limit leaves room for two lines.
LEMMA CapBound == HistoryCap \in Nat /\ HistoryCap >= 2
BY BoundsAssumption

\* The newest lines are a window onto all of them: ...
LEMMA NewestIs ==
    ASSUME NEW S, NEW all \in Seq(S)
    PROVE  LET h == Newest(all)
           IN  /\ h \in Seq(S) /\ Len(h) <= HistoryCap
               /\ all = <<>> <=> h = <<>>
               /\ all # <<>> => Last(h) = Last(all)
               /\ Len(all) >= HistoryCap =>
                    /\ Len(h) = HistoryCap
                    /\ \A i \in 1..HistoryCap : h[i] = all[Len(all) - HistoryCap + i]
<1> DEFINE h == Newest(all)
           n == Len(all)
<1>1. n \in Nat /\ HistoryCap \in Nat /\ HistoryCap >= 2
  BY CapBound
<1>2. CASE n <= HistoryCap
  <2>1. h = all
    BY <1>2 DEF Newest
  <2>2. n >= HistoryCap => n = HistoryCap /\ \A i \in 1..HistoryCap : n - HistoryCap + i = i
    BY <1>1, <1>2
  <2> QED
    BY <1>1, <1>2, <2>1, <2>2
<1>3. CASE n > HistoryCap
  <2>1. h = SubSeq(all, n - HistoryCap + 1, n)
    BY <1>1, <1>3 DEF Newest
  <2>2. /\ h \in Seq(S) /\ Len(h) = HistoryCap
        /\ \A i \in 1..HistoryCap : h[i] = all[n - HistoryCap + i]
    BY <1>1, <1>3, <2>1
  <2>3. h[HistoryCap] = all[n]
    BY <1>1, <2>2
  <2> HIDE DEF h
  <2>4. h # <<>> /\ all # <<>> /\ Last(h) = Last(all)
    BY <1>1, <1>3, <2>2, <2>3 DEF Last
  <2>5. h = Newest(all)
    BY DEF h
  <2> QED
    BY <1>1, <2>2, <2>4, <2>5
<1> QED
  BY <1>1, <1>2, <1>3

\* ... of HistoryCap lines once there are as many, ...
LEMMA NewestSpan ==
    ASSUME NEW S, NEW all \in Seq(S), Len(all) >= HistoryCap
    PROVE  /\ Newest(all) \in Seq(S) /\ Len(Newest(all)) = HistoryCap
           /\ \A i \in 1..HistoryCap : Newest(all)[i] = all[Len(all) - HistoryCap + i]
BY NewestIs

\* ... and sliding as one line joins.
LEMMA NewestSlides ==
    ASSUME NEW S, NEW all \in Seq(S), NEW line \in S
    PROVE  LET longer == Append(Newest(all), line)
           IN  Newest(Append(all, line)) =
                 IF Len(longer) > HistoryCap THEN Tail(longer) ELSE longer
<1> DEFINE h == Newest(all)
           n == Len(all)
           longer == Append(h, line)
           more == Append(all, line)
<1>1. n \in Nat /\ HistoryCap \in Nat /\ HistoryCap >= 2
  BY CapBound
<1>2. h \in Seq(S)
  BY NewestIs
<1>3. more \in Seq(S) /\ Len(more) = n + 1 /\ more[n + 1] = line
      /\ \A i \in 1..n : more[i] = all[i]
  BY <1>1
<1>4. CASE n < HistoryCap
  <2>1. h = all
    BY <1>1, <1>4 DEF Newest
  <2>2. Newest(more) = more
    BY <1>1, <1>3, <1>4 DEF Newest
  <2>3. ~(Len(more) > HistoryCap) /\ longer = more
    BY <1>1, <1>3, <1>4, <2>1
  <2> QED
    BY <2>2, <2>3
<1>5. CASE n >= HistoryCap
  <2>1. Len(h) = HistoryCap /\ \A i \in 1..HistoryCap : h[i] = all[n - HistoryCap + i]
    BY <1>5, NewestIs
  <2>2. /\ longer \in Seq(S) /\ Len(longer) = HistoryCap + 1
        /\ longer[HistoryCap + 1] = line
        /\ \A i \in 1..HistoryCap : longer[i] = h[i]
    <3> HIDE DEF h
    <3> QED
      BY <1>1, <1>2, <2>1
  <2> DEFINE a == Newest(more)
             b == Tail(longer)
  <2>3. /\ a \in Seq(S) /\ Len(a) = HistoryCap
        /\ \A i \in 1..HistoryCap : a[i] = more[n + 1 - HistoryCap + i]
    <3> HIDE DEF more
    <3>1. Len(more) >= HistoryCap
      BY <1>1, <1>3, <1>5
    <3>2. more \in Seq(S)
      BY <1>3
    <3>3. /\ a \in Seq(S) /\ Len(a) = HistoryCap
          /\ \A i \in 1..HistoryCap : a[i] = more[Len(more) - HistoryCap + i]
      BY <3>1, <3>2, NewestSpan
    <3>4. Len(more) = n + 1
      BY <1>3
    <3> QED
      BY <3>3, <3>4
  <2>4. /\ b \in Seq(S) /\ Len(b) = HistoryCap
        /\ \A i \in 1..HistoryCap : b[i] = longer[i + 1]
    <3> HIDE DEF longer
    <3>1. longer # <<>>
      BY <1>1, <2>2
    <3> QED
      BY <1>1, <2>2, <3>1
  <2> HIDE DEF more, longer, h, a, b
  <2>5. ASSUME NEW i \in 1..HistoryCap PROVE a[i] = b[i]
    <3>1. a[i] = more[n + 1 - HistoryCap + i] /\ b[i] = longer[i + 1]
      BY <2>3, <2>4
    <3>2. CASE i = HistoryCap
      <4>1. n + 1 - HistoryCap + i = n + 1
        BY <1>1, <3>2
      <4> QED
        BY <1>3, <2>2, <3>1, <3>2, <4>1
    <3>3. CASE i < HistoryCap
      <4> DEFINE j == i + 1
      <4>1. j \in 1..HistoryCap /\ n + 1 - HistoryCap + i = n - HistoryCap + j
            /\ n - HistoryCap + j \in 1..n
        BY <1>1, <1>5, <3>3
      <4> HIDE DEF j
      <4>2. longer[j] = all[n - HistoryCap + j]
        BY <2>1, <2>2, <4>1
      <4>3. more[n - HistoryCap + j] = all[n - HistoryCap + j]
        BY <1>3, <4>1
      <4> QED
        BY <3>1, <4>1, <4>2, <4>3 DEF j
    <3> QED
      BY <1>1, <3>2, <3>3
  <2>6. a = b
    BY <2>3, <2>4, <2>5, SeqEqual
  <2>7. Len(longer) > HistoryCap
    BY <1>1, <2>2
  <2> QED
    BY <2>6, <2>7 DEF a, b, longer, more, h
<1> QED
  BY <1>1, <1>4, <1>5

\* Recording a line in the window is to remember it among all lines.
LEMMA RecordNewest ==
    ASSUME NEW all \in Seq(Texts), NEW line \in Texts
    PROVE  (IF Blank(line) THEN Newest(all) ELSE Record(Newest(all), line))
             = Newest(Kept(all, line))
<1> DEFINE h == Newest(all)
<1>1. h \in Seq(Texts) /\ (all = <<>> <=> h = <<>>) /\ (all # <<>> => Last(h) = Last(all))
  BY NewestIs
<1>2. CASE Blank(line)
  BY <1>2 DEF Kept
<1>3. CASE ~Blank(line) /\ all # <<>> /\ Last(all) = line
  <2>1. Kept(all, line) = all /\ Record(h, line) = h
    BY <1>1, <1>3 DEF Kept, Record
  <2> QED
    BY <1>3, <2>1
<1>4. CASE ~Blank(line) /\ ~(all # <<>> /\ Last(all) = line)
  <2>1. Kept(all, line) = Append(all, line)
    BY <1>4 DEF Kept
  <2>2. ~(h # <<>> /\ Last(h) = line)
    BY <1>1, <1>4
  <2> DEFINE longer == Append(h, line)
  <2>3. Record(h, line) = IF Len(longer) > HistoryCap THEN Tail(longer) ELSE longer
    BY <2>2 DEF Record
  <2>4. Newest(Append(all, line)) = IF Len(longer) > HistoryCap THEN Tail(longer) ELSE longer
    BY NewestSlides
  <2> QED
    BY <1>4, <2>1, <2>3, <2>4
<1> QED
  BY <1>2, <1>3, <1>4

\* HistoryIsTheLastLines with what its steps need: the file is never longer than the
\* limit, and a session without lines has found an empty one.
HistoryInv ==
    /\ saved \in Seq(Texts) /\ fired \in Seq(Texts)
    /\ Len(file) <= HistoryCap
    /\ history = <<>> => file = <<>>
    /\ HistoryIsTheLastLines

\* A start takes the history over from the file.
LEMMA LoadedIs ==
    ASSUME NEW old \in Seq(Texts), Len(old) <= HistoryCap
    PROVE  old = Newest(AllLines(old, <<>>))
<1>1. AllLines(old, <<>>) = old
  BY AllLinesNone
<1> QED
  BY <1>1 DEF Newest

\* At the start the history is what the file holds.
LEMMA HistoryInit == TypeInv /\ Init => HistoryInv
<1> SUFFICES ASSUME TypeInv, Init PROVE HistoryInv
  OBVIOUS
<1>1. file \in Seq(Texts) /\ history = file /\ saved = file /\ fired = <<>>
  BY DEF Init, TypeInv, Texts
<1>2. Len(file) <= HistoryCap
  <2> DEFINE a == <<"x">>
             b == <<"x", "x">>
  <2>1. file = <<>> \/ file = <<a, b>>
    BY DEF Init
  <2> HIDE DEF a, b
  <2>2. Len(<<>>) <= 2 /\ Len(<<a, b>>) <= 2
    OBVIOUS
  <2>3. Len(file) <= 2
    BY <2>1, <2>2
  <2> QED
    BY <1>1, <2>3, CapBound
<1>3. history = Newest(AllLines(saved, fired))
  BY <1>1, <1>2, LoadedIs
<1> QED
  BY <1>1, <1>2, <1>3 DEF HistoryInv, HistoryIsTheLastLines

\* A payload that is fired is recorded in the window.
LEMMA EnterKeeps ==
    ASSUME TypeInv, HistoryInv, Enter
    PROVE  HistoryInv'
<1> DEFINE all == AllLines(saved, fired)
<1>1. saved \in Seq(Texts) /\ fired \in Seq(Texts) /\ input \in Texts /\ history = Newest(all)
  BY DEF TypeInv, HistoryInv, HistoryIsTheLastLines, Texts
<1>2. saved' = saved /\ fired' = Append(fired, input) /\ file' = file
  BY DEF Enter
<1>3. history' = IF Blank(input) THEN Newest(all) ELSE Record(Newest(all), input)
  BY <1>1 DEF Enter
<1>4. all \in Seq(Texts) /\ AllLines(saved', fired') = Kept(all, input)
  BY <1>1, <1>2, AllLinesJoin
<1>5. history' = Newest(AllLines(saved', fired'))
  <2> HIDE DEF all
  <2> QED
    BY <1>1, <1>3, <1>4, RecordNewest
<1>6. fired' \in Seq(Texts)
  BY <1>1, <1>2
<1>7. history' = <<>> => history = <<>>
  <2> HIDE DEF all
  <2>1. Kept(all, input) = <<>> => all = <<>>
    BY <1>1, <1>4 DEF Kept
  <2>2. Kept(all, input) \in Seq(Texts)
    BY <1>1, <1>4, KeptType
  <2>3. history' = Newest(Kept(all, input))
    BY <1>4, <1>5
  <2>4. history' = <<>> => Kept(all, input) = <<>>
    BY <2>2, <2>3, NewestIs
  <2>5. all = <<>> => history = <<>>
    BY <1>1, <1>4, NewestIs
  <2> QED
    BY <2>1, <2>4, <2>5
<1> QED
  BY <1>1, <1>2, <1>5, <1>6, <1>7 DEF HistoryInv, HistoryIsTheLastLines

\* What a quit writes is the window, what it fails to write is the start of a new history,
\* and a panic leaves the file as it was read.
LEMMA StartKeeps ==
    ASSUME TypeInv, HistoryInv, Quit \/ Recover
    PROVE  HistoryInv'
<1>1. /\ saved \in Seq(Texts) /\ fired \in Seq(Texts) /\ Len(file) <= HistoryCap
      /\ history \in Seq(Texts) /\ file \in Seq(Texts)
      /\ history = <<>> => file = <<>>
      /\ history = Newest(AllLines(saved, fired))
  BY DEF TypeInv, HistoryInv, HistoryIsTheLastLines, Texts
<1>2. history' = file'
  BY DEF Quit, Recover, Restart
<1>3. Len(history) <= HistoryCap
  <2>1. AllLines(saved, fired) \in Seq(Texts)
    <3>1. <<>> \in Texts
      BY DEF Texts
    <3> QED
      BY <1>1, <3>1, AllLinesJoin
  <2> QED
    BY <1>1, <2>1, NewestIs
<1>4. ASSUME saved' = file', fired' = <<>>, file' \in Seq(Texts), Len(file') <= HistoryCap
      PROVE  HistoryInv'
  <2>1. history' = Newest(AllLines(saved', fired'))
    BY <1>2, <1>4, LoadedIs
  <2> QED
    BY <1>2, <1>4, <2>1 DEF HistoryInv, HistoryIsTheLastLines
<1>5. CASE Recover
  BY <1>1, <1>4, <1>5 DEF Recover
<1>6. CASE Quit
  <2>1. PICK written \in BOOLEAN :
            /\ SaveHistory(written)
            /\ IF written THEN UNCHANGED <<saved, fired>> ELSE saved' = file' /\ fired' = <<>>
    BY <1>6 DEF Quit
  <2>2. CASE written
    <3>1. file' = history /\ saved' = saved /\ fired' = fired
      BY <1>1, <2>1, <2>2 DEF SaveHistory
    <3> QED
      BY <1>1, <1>2, <1>3, <3>1 DEF HistoryInv, HistoryIsTheLastLines
  <2>3. CASE ~written
    <3>1. ASSUME NEW n \in 0..Len(history) - 1
          PROVE  SubSeq(history, 1, n) \in Seq(Texts) /\ Len(SubSeq(history, 1, n)) <= HistoryCap
      BY <1>1, <1>3, CapBound
    <3>2. file' \in Seq(Texts) /\ Len(file') <= HistoryCap
      BY <1>1, <2>1, <2>3, <3>1 DEF SaveHistory
    <3> QED
      BY <1>4, <2>1, <2>3, <3>2
  <2> QED
    BY <2>2, <2>3
<1> QED
  BY <1>5, <1>6

\* Nothing else touches the history, the file or what was fired.
LEMMA HistoryStep ==
    ASSUME TypeInv, HistoryInv, [Next]_vars
    PROVE  HistoryInv'
<1>1. CASE Enter
  BY <1>1, EnterKeeps
<1>2. CASE Quit \/ Recover
  BY <1>2, StartKeeps
<1>3. CASE UNCHANGED <<history, file, saved, fired>>
  BY <1>3 DEF HistoryInv, HistoryIsTheLastLines
<1>4. CASE \/ OnMain \/ Leave \/ Scroll \/ Search \/ TunerTab \/ PickDraft \/ TunerEnter
           \/ SwapMove \/ SwapEnter
  BY <1>3, <1>4 DEF OnMain, Leave, Scroll, Search, TunerTab, PickDraft, TunerEnter,
                    SwapMove, SwapEnter, editVars, historyVars
<1>5. CASE CursorMove \/ HistoryUp \/ HistoryDown \/ Backspace \/ Delete
  BY <1>3, <1>5 DEF CursorMove, HistoryUp, HistoryDown, Backspace, Delete, historyVars
<1>6. ASSUME NEW c \in Chars, Char(c) PROVE HistoryInv'
  BY <1>3, <1>6 DEF Char, historyVars
<1>7. ASSUME NEW l \in Lists, ModelsFetched(l) PROVE HistoryInv'
  BY <1>3, <1>7 DEF ModelsFetched, historyVars
<1>8. CASE ActiveModelSet \/ Logged
  BY <1>3, <1>8 DEF ActiveModelSet, Logged, editVars, historyVars
<1>9. CASE UNCHANGED vars
  BY <1>3, <1>9 DEF vars, historyVars
<1> QED
  BY <1>1, <1>2, <1>4, <1>5, <1>6, <1>7, <1>8, <1>9 DEF Next

------------------------------------------------------------------------------
(* Theorems.                                                               *)

\* The types with their strengthening hold in every reachable state.
THEOREM Inductive == Spec => []TypeInv
<1>1. Init => TypeInv BY TypeInit
<1>2. TypeInv /\ [Next]_vars => TypeInv' BY Step
<1> QED BY <1>1, <1>2, PTL DEF Spec

\* Whatever the operator types and the tasks deliver, the indices into history,
\* hot-swap list and log stay within them.
THEOREM TypeCorrect == Spec => []TypeOK
<1>1. TypeInv => TypeOK BY DEF TypeInv
<1> QED BY <1>1, Inductive, PTL

\* Once within the text, the cursor stays within it and no key can panic, until the
\* next start.
THEOREM CursorSafe == Spec => CursorStays
<1>1. TypeInv /\ [Next]_vars =>
        [cursor <= Len(input) => \/ Quit \/ Recover
                                 \/ cursor' <= Len(input') /\ ~crashed']_vars
  BY Step DEF CursorKept
<1> QED BY <1>1, Inductive, PTL DEF Spec, CursorStays

\* With each new line the highlight of a view that follows is on the newest line shown,
\* and that of one scrolled up stays where it is, for every log, filter and limit.
THEOREM LogShows == Spec => LinesFollowOrStay
<1>1. TypeInv /\ [Next]_vars => [FollowOrStay]_viewVars BY LogStep
<1> QED BY <1>1, Inductive, PTL DEF Spec, LinesFollowOrStay

\* Over any number of quits and panics, and whatever of a save fails, the history is the
\* last lines fired since the file was last read whole.
THEOREM HistoryKept == Spec => []HistoryIsTheLastLines
<1>1. Init => TypeInv /\ HistoryInv
  BY TypeInit, HistoryInit
<1>2. TypeInv /\ HistoryInv /\ [Next]_vars => TypeInv' /\ HistoryInv'
  BY Step, HistoryStep
<1>3. HistoryInv => HistoryIsTheLastLines
  BY DEF HistoryInv
<1> QED
  BY <1>1, <1>2, <1>3, PTL DEF Spec
==============================================================================
