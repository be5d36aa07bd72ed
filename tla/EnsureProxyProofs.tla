-------------------------- MODULE EnsureProxyProofs --------------------------
(***************************************************************************)
(* Proofs about EnsureProxy for every set of requests, hot-swaps, models,  *)
(* estimates and channel capacity: its types, that ensures are serialized, *)
(* that the oracle cannot be got round by interleaving, that it implements *)
(* ResidentService, that nobody is ever stuck, and that the TUI comes to   *)
(* name a resident model; and, for every file name, that what the oracle   *)
(* lets in fits.                                                           *)
(***************************************************************************)
EXTENDS Admission, FiniteSetTheorems, SequenceTheorems, TLAPS

\* The assumptions about constants, in the form the steps below use.
LEMMA Constants ==
    /\ Profiles \subseteq Names /\ RouterModels \subseteq Names
    /\ NoModel \notin Names /\ NoOne \notin Requests
    /\ Requests \subseteq Callers /\ Swaps \subseteq Callers
    /\ Requests \cap Swaps = {}
    /\ ModelsMax \in Nat \ {0} /\ ChanCap \in Nat \ {0}
BY SetsAssumption, NumbersAssumption DEF Callers

------------------------------------------------------------------------------
(* Lemmas about the operators.                                             *)

\* Loading keeps a sequence of names within the router's limit, and brings in
\* nothing but the model it was asked for.
LEMMA LoadType ==
    ASSUME NEW l \in Seq(Names), Len(l) <= ModelsMax, NEW m \in Names
    PROVE  /\ Load(l, m) \in Seq(Names)
           /\ Len(Load(l, m)) <= ModelsMax
           /\ Range(Load(l, m)) \subseteq Range(l) \cup {m}
<1>0. ModelsMax \in Nat \ {0} /\ Len(l) \in Nat
  BY Constants
<1>1. CASE m \in Range(l)
  BY <1>1 DEF Load
<1>2. CASE m \notin Range(l) /\ Len(l) < ModelsMax
  BY <1>0, <1>2 DEF Load, Range
<1>3. CASE m \notin Range(l) /\ ~(Len(l) < ModelsMax)
  <2> DEFINE from == Len(l) - ModelsMax + 2
             tail == SubSeq(l, from, Len(l))
  <2>1. Len(l) = ModelsMax /\ from = 2
    BY <1>0, <1>3
  <2>2. /\ tail \in Seq(Names) /\ Len(tail) = Len(l) - 1
        /\ \A i \in 1..Len(tail) : tail[i] = l[i + 1]
    BY <1>0, <2>1
  <2>3. Load(l, m) = Append(tail, m)
    BY <1>3 DEF Load
  <2> HIDE DEF tail
  <2>4. Range(Append(tail, m)) \subseteq Range(l) \cup {m}
    BY <1>0, <2>2, SMTT(30) DEF Range
  <2> QED
    BY <1>0, <2>1, <2>2, <2>3, <2>4
<1> QED
  BY <1>1, <1>2, <1>3

\* What joins a queue makes a queue.
LEMMA AppendType ==
    ASSUME NEW S, NEW q \in Seq(S), NEW x \in S
    PROVE  Append(q, x) \in Seq(S)
OBVIOUS

\* What leaves the queue leaves a queue.
LEMMA RemoveAtType ==
    ASSUME NEW S, NEW q \in Seq(S), NEW i \in 1..Len(q)
    PROVE  RemoveAt(q, i) \in Seq(S)
BY DEF RemoveAt

------------------------------------------------------------------------------
(* Types.                                                                  *)

TypeInv == TypeOK /\ AskedFor

\* The types, and that whoever is at work was asked something, hold at first.
LEMMA TypeInit == Init => TypeInv
<1> SUFFICES ASSUME Init PROVE TypeInv
  OBVIOUS
<1> USE Constants DEF Init
<1>1. TypeOK
  <2>1. NoRequest \in EnsureRequest \cup {NoRequest}
    OBVIOUS
  <2>2. /\ waiters \in Seq(Requests) /\ loaded \in Seq(Names) /\ chan \in Seq(Events)
        /\ Len(loaded) <= ModelsMax /\ Len(chan) <= ChanCap
    OBVIOUS
  <2> QED
    BY <2>1, <2>2 DEF TypeOK, PcValues, Outcomes, PostValues
<1>2. AskedFor
  BY DEF AskedFor
<1> QED
  BY <1>1, <1>2 DEF TypeInv

\* Every step keeps them.
LEMMA TypeStep == TypeInv /\ [Next]_vars => TypeInv'
<1> SUFFICES ASSUME TypeInv, [Next]_vars PROVE TypeInv'
  OBVIOUS
<1> USE Constants DEF TypeInv, TypeOK, AskedFor
<1>1. ASSUME NEW r \in Requests, Arrive(r) PROVE TypeInv'
  <2>1. PICK q \in EnsureRequest :
          /\ req' = [req EXCEPT ![r] = q]
          /\ IF q.profile \in Profiles
             THEN /\ Goto(r, "lock")
                  /\ waiters' = Append(waiters, r)
                  /\ UNCHANGED outcome
             ELSE /\ Goto(r, "done")
                  /\ outcome' = [outcome EXCEPT ![r] = "bad"]
                  /\ UNCHANGED waiters
    BY <1>1 DEF Arrive
  <2>2. UNCHANGED <<holder, post, loaded, spc, smodel, chan, active, bypassed, disturbed>>
    BY <1>1 DEF Arrive, histVars, swapVars
  <2>3. CASE q.profile \in Profiles
    <3>1. waiters' = Append(waiters, r) /\ waiters \in Seq(Requests)
      BY <2>1, <2>3
    <3>2. /\ pc' = [pc EXCEPT ![r] = "lock"] /\ req' = [req EXCEPT ![r] = q]
          /\ outcome' = outcome
      BY <2>1, <2>3 DEF Goto
    <3>3. TypeOK'
      BY <2>2, <3>1, <3>2, AppendType DEF PcValues
    <3>4. AskedFor'
      BY <1>1, <2>2, <2>3, <3>2 DEF Arrive
    <3> QED
      BY <3>3, <3>4
  <2>4. CASE q.profile \notin Profiles
    <3>1. /\ pc' = [pc EXCEPT ![r] = "done"] /\ outcome' = [outcome EXCEPT ![r] = "bad"]
          /\ req' = [req EXCEPT ![r] = q] /\ waiters' = waiters
      BY <2>1, <2>4 DEF Goto
    <3>2. "done" \in PcValues /\ "bad" \in Outcomes
      BY DEF PcValues, Outcomes
    <3>3. TypeOK'
      BY <2>2, <3>1, <3>2
    <3>4. AskedFor'
      BY <1>1, <2>2, <2>4, <3>1 DEF Arrive
    <3> QED
      BY <3>3, <3>4
  <2> QED
    BY <2>3, <2>4
<1>2. ASSUME NEW r \in Requests, Acquire(r) PROVE TypeInv'
  BY <1>2 DEF Acquire, Goto, PcValues, Critical, histVars, swapVars
<1>3. ASSUME NEW r \in Requests, NEW o \in Outcomes, pc[r] \in Critical, Return(r, o),
             UNCHANGED <<req, waiters, loaded, spc, smodel, chan, active, bypassed>>,
             \A c \in Callers \ {r} : post'[c] = post[c],
             post' \in [Callers -> PostValues], disturbed' \in BOOLEAN
      PROVE  TypeInv'
  BY <1>3 DEF Return, Goto, PcValues, Critical
<1>4. ASSUME NEW r \in Requests, NEW l \in PcValues \ {"new", "done"}, Goto(r, l),
             pc[r] \notin {"new", "done"},
             UNCHANGED <<req, outcome, holder, waiters, loaded, spc, smodel, active>>,
             chan' \in Seq(Events), Len(chan') <= ChanCap,
             bypassed \subseteq bypassed', bypassed' \subseteq Names,
             \A c \in Callers \ {r} : post'[c] = post[c],
             post' \in [Callers -> PostValues], disturbed' \in BOOLEAN
      PROVE  TypeInv'
  BY <1>4 DEF Goto, PcValues, Critical
<1>5. ASSUME NEW r \in Requests, Probe(r) PROVE TypeInv'
  <2>1. CASE Return(r, "already_resident")
    BY <1>3, <1>5, <2>1 DEF Probe, Critical, Outcomes, histVars, swapVars
  <2>2. CASE Goto(r, "oracle") /\ UNCHANGED <<outcome, holder>>
    BY <1>4, <1>5, <2>2 DEF Probe, PcValues, Critical, histVars, swapVars
  <2> QED
    BY <1>5, <2>1, <2>2 DEF Probe
<1>6. ASSUME NEW r \in Requests, Oracle(r) PROVE TypeInv'
  <2>1. CASE Return(r, "oom")
    BY <1>3, <1>6, <2>1 DEF Oracle, Critical, Outcomes, histVars, swapVars
  <2>2. ASSUME NEW l \in {"log_loading", "log_forced"}, Goto(r, l), UNCHANGED <<outcome, holder>>
        PROVE  TypeInv'
    BY <1>4, <1>6, <2>2 DEF Oracle, PcValues, Critical, histVars, swapVars
  <2> QED
    BY <1>6, <2>1, <2>2 DEF Oracle
<1>27. ASSUME NEW r \in Requests, SmiHangs(r) PROVE TypeInv'
  BY <1>4, <1>27 DEF SmiHangs, PcValues, Critical, histVars, swapVars
<1>7. ASSUME NEW e \in Events, Send(e) PROVE chan' \in Seq(Events) /\ Len(chan') <= ChanCap
  BY <1>7 DEF Send
<1>8. LogLine \in Events /\ ErrorEvent \in Events /\ \A m \in Names : ActiveModelSet(m) \in Events
  BY DEF Events
<1>9. ASSUME NEW r \in Requests, LogForced(r) PROVE TypeInv'
  BY <1>4, <1>7, <1>8, <1>9 DEF LogForced, PcValues, Critical, swapVars
<1>10. ASSUME NEW r \in Requests, LogLoading(r) PROVE TypeInv'
  BY <1>4, <1>7, <1>8, <1>10 DEF LogLoading, PcValues, Critical, PostValues, histVars, swapVars, Callers
<1>11. ASSUME NEW r \in Requests, WarmReply(r) PROVE TypeInv'
  <2>1. /\ \A c \in Callers \ {r} : post'[c] = post[c]
        /\ post' \in [Callers -> PostValues]
    BY <1>11 DEF WarmReply, PostValues
  <2>2. CASE Return(r, "err")
    BY <1>3, <1>11, <2>1, <2>2 DEF WarmReply, Critical, Outcomes, histVars, swapVars
  <2>3. CASE Goto(r, "set_active") /\ UNCHANGED <<outcome, holder>>
    BY <1>4, <1>11, <2>1, <2>3 DEF WarmReply, PcValues, Critical, histVars, swapVars
  <2> QED
    BY <1>11, <2>2, <2>3 DEF WarmReply
<1>12. ASSUME NEW r \in Requests, WarmTimeout(r) PROVE TypeInv'
  BY <1>3, <1>12 DEF WarmTimeout, Critical, Outcomes, swapVars
<1>13. ASSUME NEW r \in Requests, SetActive(r) PROVE TypeInv'
  <2>1. req[r].profile \in Names
    BY <1>13 DEF SetActive, EnsureRequest
  <2> QED
    BY <1>4, <1>7, <1>8, <1>13, <2>1 DEF SetActive, PcValues, Critical, histVars, swapVars
<1>14. ASSUME NEW r \in Requests, LogWarm(r) PROVE TypeInv'
  BY <1>7, <1>8, <1>14 DEF LogWarm, Return, Goto, PcValues, Critical, Outcomes, histVars, swapVars
<1>15. ASSUME NEW r \in Requests, Forward(r) PROVE TypeInv'
  BY <1>4, <1>15 DEF Forward, PcValues, PostValues, histVars, swapVars
<1>16. ASSUME NEW r \in Requests, ForwardReply(r) PROVE TypeInv'
  BY <1>16 DEF ForwardReply, Goto, PcValues, PostValues, Outcomes, histVars, swapVars
<1>17. ASSUME NEW r \in Requests, ForwardTimeout(r) PROVE TypeInv'
  BY <1>17 DEF ForwardTimeout, Goto, PcValues, Outcomes, histVars, swapVars
<1>18. ASSUME NEW r \in Requests, ClientGone(r) PROVE TypeInv'
  <2>1. waiters' \in Seq(Requests)
    BY <1>18, RemoveAtType DEF ClientGone
  <2> QED
    BY <1>18, <2>1 DEF ClientGone, Goto, PcValues, Outcomes, swapVars
<1>19. ASSUME NEW s \in Swaps, SwapEnter(s) PROVE TypeInv'
  BY <1>19 DEF SwapEnter, PostValues, ensureVars
<1>20. ASSUME NEW s \in Swaps, SwapTask(s) PROVE TypeInv'
  <2>1. smodel[s] \in Names \/ spc[s] = "new"
    OBVIOUS
  <2>2. CASE SwapReply(s)
    BY <1>20, <2>2 DEF SwapReply, PostValues, ensureVars, histVars
  <2>3. CASE SwapTimeout(s)
    BY <1>20, <2>3 DEF SwapTimeout, ensureVars, histVars
  <2>4. CASE SwapSend(s)
    <3>1. chan' \in Seq(Events) /\ Len(chan') <= ChanCap
      BY <1>7, <1>8, <2>1, <2>4 DEF SwapSend
    <3> QED
      BY <2>4, <3>1 DEF SwapSend, ensureVars, histVars
  <2> QED
    BY <1>20, <2>2, <2>3, <2>4 DEF SwapTask
<1>21. CASE TuiRecv
  <2>1. Head(chan) \in Events
    BY <1>21 DEF TuiRecv
  <2>2. Head(chan).type = "ActiveModelSet" => Head(chan).model \in Names
    BY <2>1 DEF Events, LogLine, ErrorEvent, ActiveModelSet
  <2> QED
    BY <1>21, <2>2 DEF TuiRecv, ensureVars, histVars, swapVars
<1>22. CASE ModelsFetched
  BY <1>22 DEF ModelsFetched, ensureVars, histVars, swapVars
<1>23. ASSUME NEW c \in Callers, RouterServe(c) PROVE TypeInv'
  <2>1. loaded' \in Seq(Names) /\ Len(loaded') <= ModelsMax
    BY <1>23, LoadType DEF RouterServe
  <2> QED
    BY <1>23, <2>1 DEF RouterServe, Outstanding, PostValues, ensureVars, swapVars
<1>24. ASSUME NEW c \in Callers, RouterRefuse(c) PROVE TypeInv'
  BY <1>24 DEF RouterRefuse, Outstanding, PostValues, ensureVars, swapVars, histVars
<1>25. CASE RouterRestart
  BY <1>25 DEF RouterRestart, Outstanding, PostValues, ensureVars, swapVars, histVars
<1>26. CASE UNCHANGED vars
  BY <1>26 DEF vars, ensureVars
<1> QED
  BY <1>1, <1>2, <1>5, <1>6, <1>9, <1>10, <1>11, <1>12, <1>13, <1>14, <1>15, <1>16, <1>17,
     <1>18, <1>19, <1>20, <1>21, <1>22, <1>23, <1>24, <1>25, <1>26, <1>27 DEF Next, Handle

\* The variables keep their types, the channel its capacity and the router its
\* limit (control_api.rs, hotswap.rs and the router they talk to).
THEOREM TypeCorrect == Spec => []TypeOK
<1>1. Spec => []TypeInv
  BY TypeInit, TypeStep, PTL DEF Spec
<1> QED
  BY <1>1, PTL DEF TypeInv

------------------------------------------------------------------------------
(* The lock.                                                               *)

\* A step of one handler is the business of that handler alone, and keeps the
\* lock with whoever stands between taking it and returning.
LEMMA LockStep ==
    TypeInv /\ Alone /\ [Next]_vars => Alone'
<1> SUFFICES ASSUME TypeInv, Alone, [Next]_vars PROVE Alone'
  OBVIOUS
<1> USE Constants DEF TypeInv, TypeOK, Alone, Critical
<1>1. ASSUME NEW r \in Requests, Arrive(r) PROVE Alone'
  BY <1>1 DEF Arrive, Goto
<1>2. ASSUME NEW r \in Requests, Acquire(r) PROVE Alone'
  BY <1>2 DEF Acquire, Goto
<1>3. ASSUME NEW r \in Requests, NEW o, pc[r] \in Critical, Return(r, o)
      PROVE  Alone'
  BY <1>3 DEF Return, Goto
<1>4. ASSUME NEW r \in Requests, NEW l \in Critical, pc[r] \in Critical, Goto(r, l),
             UNCHANGED holder
      PROVE  Alone'
  BY <1>4 DEF Goto
<1>5. ASSUME NEW r \in Requests, Handle(r), pc[r] \in Critical PROVE Alone'
  BY <1>3, <1>4, <1>5 DEF Handle, Acquire, Probe, Oracle, LogForced, LogLoading, WarmReply,
        WarmTimeout, SetActive, LogWarm, Forward, ForwardReply, ForwardTimeout
<1>6. ASSUME NEW r \in Requests, Forward(r) \/ ForwardReply(r) \/ ForwardTimeout(r)
      PROVE  Alone'
  BY <1>6 DEF Forward, ForwardReply, ForwardTimeout, Goto
<1>7. ASSUME NEW r \in Requests, Handle(r), pc[r] \notin Critical PROVE Alone'
  BY <1>2, <1>6, <1>7 DEF Handle, Probe, Oracle, LogForced, LogLoading, WarmReply,
        WarmTimeout, SetActive, LogWarm
<1>8. ASSUME NEW r \in Requests, ClientGone(r) PROVE Alone'
  BY <1>8 DEF ClientGone, Goto
<1>9. CASE UNCHANGED ensureVars
  BY <1>9 DEF ensureVars
<1>10. ASSUME NEW r \in Requests, SmiHangs(r) PROVE Alone'
  BY <1>4, <1>10 DEF SmiHangs
<1> QED
  BY <1>1, <1>5, <1>7, <1>8, <1>9, <1>10 DEF Next, SwapEnter, SwapTask, SwapReply, SwapTimeout,
        SwapSend, TuiRecv, ModelsFetched, RouterServe, RouterRefuse, RouterRestart, vars,
        ensureVars

\* Nothing stands twice in q; t is q without its item k.
Once(q) == \A i, j \in 1..Len(q) : q[i] = q[j] => i = j

Without(t, q, k) ==
    /\ Len(t) = Len(q) - 1 /\ DOMAIN t = 1..Len(q) - 1
    /\ \A i \in 1..Len(q) - 1 : t[i] = IF i < k THEN q[i] ELSE q[i + 1]

\* Who joins the queue is the last in it.
LEMMA JoinLine ==
    ASSUME NEW S, NEW q \in Seq(S), NEW x \in S, x \notin Range(q), Once(q)
    PROVE  Range(Append(q, x)) = Range(q) \cup {x} /\ Once(Append(q, x))
<1> DEFINE n == Len(q)
           t == Append(q, x)
<1>1. /\ n \in Nat /\ Len(t) = n + 1 /\ t[n + 1] = x
      /\ \A i \in 1..n : t[i] = q[i]
      /\ DOMAIN t = 1..n + 1 /\ DOMAIN q = 1..n
  OBVIOUS
<1> HIDE DEF t, n
<1>2. \A i \in 1..n : q[i] # x
  BY <1>1 DEF Range
<1>3. Range(t) = Range(q) \cup {x}
  BY <1>1 DEF Range
<1>4. Once(t)
  BY <1>1, <1>2 DEF n, Once
<1> QED
  BY <1>3, <1>4 DEF t

\* Whoever leaves the queue is in it no more; the others stay, once each.
LEMMA LeaveLine ==
    ASSUME NEW S, NEW q \in Seq(S), NEW k \in 1..Len(q), NEW t, Without(t, q, k), Once(q)
    PROVE  Range(t) = Range(q) \ {q[k]} /\ Once(t)
<1> USE DEF Without, Once
<1>1. Len(q) \in Nat /\ DOMAIN q = 1..Len(q)
  OBVIOUS
<1>2. ASSUME NEW y \in Range(t) PROVE y \in Range(q) \ {q[k]}
  BY <1>1, <1>2 DEF Range
<1>3. ASSUME NEW y \in Range(q) \ {q[k]} PROVE y \in Range(t)
  <2>1. PICK i \in 1..Len(q) : q[i] = y /\ i # k
    BY <1>1, <1>3 DEF Range
  <2>2. CASE i < k
    <3>1. i \in DOMAIN t /\ t[i] = y
      BY <1>1, <2>1, <2>2
    <3> QED
      BY <3>1 DEF Range
  <2>3. CASE i > k
    <3>1. i - 1 \in 1..Len(q) - 1 /\ ~(i - 1 < k) /\ (i - 1) + 1 = i
      BY <1>1, <2>1, <2>3
    <3>2. t[i - 1] = y
      BY <2>1, <3>1
    <3> QED
      BY <3>1, <3>2 DEF Range
  <2> QED
    BY <2>1, <2>2, <2>3
<1>4. Once(t)
  BY <1>1
<1> QED
  BY <1>2, <1>3, <1>4

\* The head leaves by Tail, ...
LEMMA TailWithout ==
    ASSUME NEW S, NEW q \in Seq(S), q # <<>>
    PROVE  1 \in 1..Len(q) /\ q[1] = Head(q) /\ Without(Tail(q), q, 1)
BY DEF Without

\* ... and whoever hangs up by RemoveAt.
LEMMA RemoveAtWithout ==
    ASSUME NEW S, NEW q \in Seq(S), NEW k \in 1..Len(q)
    PROVE  Without(RemoveAt(q, k), q, k)
<1> DEFINE a == SubSeq(q, 1, k - 1)
           b == SubSeq(q, k + 1, Len(q))
<1>1. /\ a \in Seq(S) /\ Len(a) = k - 1 /\ \A i \in 1..k - 1 : a[i] = q[i]
      /\ b \in Seq(S) /\ Len(b) = Len(q) - k /\ \A i \in 1..Len(q) - k : b[i] = q[k + i]
  OBVIOUS
<1>2. RemoveAt(q, k) = a \o b
  BY DEF RemoveAt
<1> HIDE DEF a, b
<1> DEFINE c == a \o b
<1>c. /\ c \in Seq(S) /\ Len(c) = Len(a) + Len(b)
      /\ \A i \in 1..Len(a) + Len(b) : c[i] = IF i <= Len(a) THEN a[i] ELSE b[i - Len(a)]
  <2>1. a \in Seq(S) /\ b \in Seq(S)
    BY <1>1
  <2> QED
    BY <2>1, ConcatProperties
<1> HIDE DEF c
<1>3. /\ Len(c) = Len(q) - 1 /\ DOMAIN c = 1..Len(q) - 1
      /\ \A i \in 1..Len(q) - 1 : c[i] = IF i < k THEN a[i] ELSE b[i - (k - 1)]
  BY <1>1, <1>c
<1>4. ASSUME NEW i \in 1..Len(q) - 1 PROVE c[i] = IF i < k THEN q[i] ELSE q[i + 1]
  <2>1. CASE i < k
    <3>1. i \in 1..k - 1
      BY <2>1
    <3>2. a[i] = q[i] /\ c[i] = a[i]
      BY <1>1, <1>3, <2>1, <3>1
    <3> QED
      BY <2>1, <3>2
  <2>2. CASE ~(i < k)
    <3>1. i - (k - 1) \in 1..Len(q) - k /\ k + (i - (k - 1)) = i + 1
      BY <2>2
    <3> QED
      BY <1>1, <1>3, <2>2, <3>1
  <2> QED
    BY <2>1, <2>2
<1> QED
  BY <1>2, <1>3, <1>4 DEF Without, c

\* The queue changes hands only where the code waits for the lock: one joins it on
\* arrival, its head leaves with the lock, and whoever hangs up leaves from the middle.
LEMMA LineStep ==
    TypeInv /\ InLine /\ [Next]_vars => InLine'
<1> SUFFICES ASSUME TypeInv, InLine, [Next]_vars PROVE InLine'
  OBVIOUS
<1>0. /\ waiters \in Seq(Requests) /\ pc \in [Requests -> PcValues]
      /\ Once(waiters)
      /\ \A r \in Requests : pc[r] = "lock" <=> r \in Range(waiters)
  BY DEF TypeInv, TypeOK, InLine, Once
<1> USE <1>0
<1>1. ASSUME NEW r \in Requests, NEW l, pc' = [pc EXCEPT ![r] = l], Once(waiters'),
             \/ l = "lock" /\ Range(waiters') = Range(waiters) \cup {r}
             \/ l # "lock" /\ Range(waiters') = Range(waiters) \ {r}
      PROVE  InLine'
  BY <1>1 DEF InLine, Once
<1>2. ASSUME NEW r \in Requests, Arrive(r) PROVE InLine'
  <2>1. pc[r] = "new" /\ r \notin Range(waiters)
    BY <1>2 DEF Arrive
  <2>2. CASE pc' = [pc EXCEPT ![r] = "lock"] /\ waiters' = Append(waiters, r)
    BY <1>1, <2>1, <2>2, JoinLine, ZenonT(60)
  <2>3. CASE pc' = [pc EXCEPT ![r] = "done"] /\ waiters' = waiters
    BY <1>1, <2>1, <2>3
  <2> QED
    BY <1>2, <2>2, <2>3 DEF Arrive, Goto
<1>3. ASSUME NEW r \in Requests, Acquire(r) PROVE InLine'
  <2>1. /\ waiters # <<>> /\ Head(waiters) = r /\ waiters' = Tail(waiters)
        /\ pc' = [pc EXCEPT ![r] = "probe"]
    BY <1>3 DEF Acquire, Goto
  <2>2. Range(waiters') = Range(waiters) \ {r} /\ Once(waiters')
    BY <2>1, TailWithout, LeaveLine
  <2> QED
    BY <1>1, <2>1, <2>2
<1>4. ASSUME NEW r \in Requests, NEW l, l # "lock", pc[r] # "lock",
             pc' = [pc EXCEPT ![r] = l], waiters' = waiters
      PROVE  InLine'
  BY <1>1, <1>4
<1>5. ASSUME NEW r \in Requests, ClientGone(r) PROVE InLine'
  <2>1. pc' = [pc EXCEPT ![r] = "done"]
    BY <1>5 DEF ClientGone, Goto
  <2>2. CASE pc[r] = "lock"
    <3>1. PICK k \in 1..Len(waiters) : waiters[k] = r /\ waiters' = RemoveAt(waiters, k)
      BY <1>5, <2>2 DEF ClientGone
    <3>2. Without(RemoveAt(waiters, k), waiters, k)
      BY RemoveAtWithout
    <3>3. Range(waiters') = Range(waiters) \ {r} /\ Once(waiters')
      BY <3>1, <3>2, LeaveLine
    <3> QED
      BY <1>1, <2>1, <3>3
  <2>3. CASE pc[r] # "lock"
    BY <1>4, <1>5, <2>1, <2>3 DEF ClientGone
  <2> QED
    BY <2>2, <2>3
<1>6. ASSUME NEW r \in Requests, Handle(r), ~Acquire(r) PROVE InLine'
  BY <1>4, <1>6 DEF Handle, Probe, Oracle, LogForced, LogLoading, WarmReply, WarmTimeout,
        SetActive, LogWarm, Forward, ForwardReply, ForwardTimeout, Return, Goto
<1>7. CASE UNCHANGED ensureVars
  BY <1>7 DEF ensureVars, InLine, Once
<1>8. ASSUME NEW r \in Requests, SmiHangs(r) PROVE InLine'
  BY <1>4, <1>8 DEF SmiHangs, Goto
<1> QED
  BY <1>2, <1>3, <1>5, <1>6, <1>7, <1>8 DEF Next, SwapEnter, SwapTask, SwapReply, SwapTimeout,
        SwapSend, TuiRecv, ModelsFetched, RouterServe, RouterRefuse, RouterRestart, vars,
        ensureVars

\* Ensures are serialized: whoever is between lock and return holds the lock, nobody
\* who left it, by whatever way, still does, and the queue for it is that of the
\* requests that wait, once each (`ensure_lock`).
THEOREM Serialized == Spec => []EnsuresSerialized
<1>1. Init => EnsuresSerialized
  BY Constants DEF Init, EnsuresSerialized, Alone, InLine, Critical, Range
<1>2. TypeInv /\ EnsuresSerialized /\ [Next]_vars => (TypeInv /\ EnsuresSerialized)'
  BY TypeStep, LockStep, LineStep DEF EnsuresSerialized
<1> QED
  BY <1>1, <1>2, TypeInit, PTL DEF Spec

------------------------------------------------------------------------------
(* The oracle.                                                             *)

\* The oracle can only be more severe when nvidia-smi is silent.
LEMMA OracleSound ==
    ASSUME NEW p \in Profiles, NEW v \in {TotalVram, UnknownVram}, OraclePasses(p, v)
    PROVE  Fits(p)
BY NumbersAssumption DEF OraclePasses, Fits

GateInv == TypeInv /\ PastOracle /\ OversizedOnlyByBypass

\* What is allowed stays allowed, since nothing is forgotten.
LEMMA AllowedStays ==
    ASSUME bypassed \subseteq bypassed', NEW m, Allowed(m)
    PROVE  Allowed(m)'
BY DEF Allowed, Fits, OraclePasses

\* Every step keeps the oracle's verdict along the path of each request.
LEMMA GateStep == GateInv /\ [Next]_vars => GateInv'
<1> SUFFICES ASSUME GateInv, [Next]_vars PROVE GateInv'
  OBVIOUS
<1> USE Constants DEF GateInv
<1> DEFINE Past == {"log_loading", "warm", "set_active", "log_warm", "forward", "reply"}
<1>1. /\ \A c \in Callers : Outstanding(c) => Allowed(ModelOf(c))
      /\ \A m \in Range(loaded) : Allowed(m)
      /\ \A r \in Requests : pc[r] \in Past => Allowed(req[r].profile)
  BY DEF OversizedOnlyByBypass, Allowed, PastOracle
<1>2. TypeInv'
  BY TypeStep
<1>3. ASSUME NEW r \in Requests, NEW l, Goto(r, l), UNCHANGED req, bypassed \subseteq bypassed',
             l \in Past => Allowed(req[r].profile)
      PROVE  PastOracle'
  <2>1. SUFFICES ASSUME NEW q \in Requests, pc'[q] \in Past PROVE Allowed(req[q].profile)'
    BY DEF PastOracle
  <2>2. Allowed(req[q].profile)
    BY <1>1, <1>3, <2>1 DEF Goto, TypeInv, TypeOK
  <2> QED
    BY <1>3, <2>2, AllowedStays
<1>4. ASSUME UNCHANGED <<req, smodel, loaded>>, bypassed \subseteq bypassed',
             \A c \in Callers : Outstanding(c)' => Outstanding(c) \/ Allowed(ModelOf(c))
      PROVE  OversizedOnlyByBypass'
  <2>1. \A c \in Callers : ModelOf(c)' = ModelOf(c)
    BY <1>4 DEF ModelOf
  <2>2. \A c \in Callers : Outstanding(c)' => Allowed(ModelOf(c))'
    BY <1>1, <1>4, <2>1, AllowedStays
  <2>3. \A m \in Range(loaded') : Allowed(m)'
    BY <1>1, <1>4, AllowedStays
  <2> QED
    BY <2>2, <2>3 DEF OversizedOnlyByBypass, Allowed
<1>5. ASSUME NEW r \in Requests, Arrive(r) PROVE GateInv'
  <2>1. PastOracle'
    <3>1. SUFFICES ASSUME NEW q \in Requests, pc'[q] \in Past PROVE Allowed(req[q].profile)'
      BY DEF PastOracle
    <3>2. q # r /\ pc'[q] = pc[q] /\ req'[q] = req[q]
      BY <1>5, <3>1 DEF Arrive, Goto, TypeInv, TypeOK
    <3> QED
      BY <1>1, <1>5, <3>1, <3>2, AllowedStays DEF Arrive, histVars
  <2>2. OversizedOnlyByBypass'
    <3>1. UNCHANGED <<post, loaded, smodel, bypassed>> /\ ~Outstanding(r)
      BY <1>5 DEF Arrive, histVars, swapVars, Outstanding, TypeInv, AskedFor
    <3>2. \A c \in Callers : c # r => ModelOf(c)' = ModelOf(c)
      BY <1>5, <3>1 DEF ModelOf, Arrive, TypeInv, TypeOK
    <3>3. \A c \in Callers : Outstanding(c)' => Allowed(ModelOf(c))'
      BY <1>1, <3>1, <3>2, AllowedStays DEF Outstanding
    <3>4. \A m \in Range(loaded') : Allowed(m)'
      BY <1>1, <3>1, AllowedStays
    <3> QED
      BY <3>3, <3>4 DEF OversizedOnlyByBypass, Allowed
  <2> QED
    BY <1>2, <2>1, <2>2
<1>6. ASSUME NEW r \in Requests, Acquire(r) PROVE GateInv'
  BY <1>2, <1>3, <1>4, <1>6 DEF Acquire, histVars, swapVars, Outstanding
<1>7. ASSUME NEW r \in Requests, Probe(r) PROVE GateInv'
  <2>1. UNCHANGED <<req, loaded, post, smodel, bypassed>>
    BY <1>7 DEF Probe, histVars, swapVars
  <2>2. CASE req[r].profile \in Range(loaded)
    BY <1>1, <1>2, <1>3, <1>4, <1>7, <2>1, <2>2 DEF Probe, Return, Outstanding
  <2>3. CASE Goto(r, "oracle")
    BY <1>2, <1>3, <1>4, <2>1, <2>3 DEF Outstanding
  <2> QED
    BY <1>7, <2>2, <2>3 DEF Probe
<1>8. ASSUME NEW r \in Requests, Oracle(r) PROVE GateInv'
  <2>1. UNCHANGED <<req, loaded, post, smodel, bypassed>> /\ req[r].profile \in Profiles
    BY <1>8 DEF Oracle, histVars, swapVars, TypeInv, AskedFor
  <2>2. CASE Goto(r, "log_loading") /\ Fits(req[r].profile)
    BY <1>2, <1>3, <1>4, <2>1, <2>2 DEF Outstanding, Allowed
  <2>3. CASE Goto(r, "log_forced")
    BY <1>2, <1>3, <1>4, <2>1, <2>3 DEF Outstanding
  <2>4. CASE Return(r, "oom")
    BY <1>2, <1>3, <1>4, <2>1, <2>4 DEF Outstanding, Return
  <2> QED
    BY <1>8, <2>1, <2>2, <2>3, <2>4, OracleSound DEF Oracle
<1>26. ASSUME NEW r \in Requests, SmiHangs(r) PROVE GateInv'
  BY <1>2, <1>3, <1>4, <1>26 DEF SmiHangs, histVars, swapVars, Outstanding
<1>9. ASSUME NEW r \in Requests, LogForced(r) PROVE GateInv'
  <2>1. Goto(r, "log_loading") /\ UNCHANGED <<req, loaded, post, smodel>>
    BY <1>9 DEF LogForced, swapVars
  <2>2. bypassed \subseteq bypassed' /\ req[r].profile \in bypassed'
    BY <1>9 DEF LogForced
  <2>3. PastOracle'
    <3>1. SUFFICES ASSUME NEW q \in Requests, pc'[q] \in Past PROVE Allowed(req[q].profile)'
      BY DEF PastOracle
    <3>2. CASE q = r
      BY <2>1, <2>2, <3>2 DEF Allowed
    <3>3. CASE q # r
      BY <1>1, <2>1, <2>2, <3>1, <3>3, AllowedStays DEF Goto, TypeInv, TypeOK
    <3> QED
      BY <3>2, <3>3
  <2> QED
    BY <1>2, <1>4, <2>1, <2>2, <2>3 DEF Outstanding
<1>10. ASSUME NEW r \in Requests, LogLoading(r) PROVE GateInv'
  <2>1. Allowed(req[r].profile) /\ ModelOf(r) = req[r].profile
    BY <1>1, <1>10 DEF LogLoading, ModelOf
  <2>2. \A c \in Callers : Outstanding(c)' => Outstanding(c) \/ c = r
    BY <1>10 DEF LogLoading, Outstanding, TypeInv, TypeOK
  <2> QED
    BY <1>2, <1>3, <1>4, <1>10, <2>1, <2>2 DEF LogLoading, histVars, swapVars
<1>11. ASSUME NEW r \in Requests, WarmReply(r) PROVE GateInv'
  <2>1. \A c \in Callers : Outstanding(c)' => Outstanding(c)
    BY <1>11 DEF WarmReply, Outstanding, TypeInv, TypeOK
  <2>2. UNCHANGED <<req, loaded, smodel, bypassed>> /\ pc[r] = "warm"
    BY <1>11 DEF WarmReply, histVars, swapVars
  <2>3. PastOracle'
    BY <1>1, <1>3, <1>11, <2>2 DEF WarmReply, Return
  <2> QED
    BY <1>2, <1>4, <2>1, <2>2, <2>3
<1>12. ASSUME NEW r \in Requests, WarmTimeout(r) PROVE GateInv'
  BY <1>1, <1>2, <1>3, <1>4, <1>12 DEF WarmTimeout, Return, swapVars, Outstanding
<1>13. ASSUME NEW r \in Requests, SetActive(r) PROVE GateInv'
  BY <1>1, <1>2, <1>3, <1>4, <1>13 DEF SetActive, swapVars, histVars, Outstanding
<1>14. ASSUME NEW r \in Requests, LogWarm(r) PROVE GateInv'
  BY <1>1, <1>2, <1>3, <1>4, <1>14 DEF LogWarm, Return, swapVars, histVars, Outstanding
<1>15. ASSUME NEW r \in Requests, Forward(r) PROVE GateInv'
  <2>1. Allowed(req[r].profile) /\ ModelOf(r) = req[r].profile
    BY <1>1, <1>15 DEF Forward, ModelOf
  <2>2. \A c \in Callers : Outstanding(c)' => Outstanding(c) \/ c = r
    BY <1>15 DEF Forward, Outstanding, TypeInv, TypeOK
  <2> QED
    BY <1>2, <1>3, <1>4, <1>15, <2>1, <2>2 DEF Forward, histVars, swapVars
<1>16. ASSUME NEW r \in Requests, ForwardReply(r) PROVE GateInv'
  <2>1. \A c \in Callers : Outstanding(c)' => Outstanding(c)
    BY <1>16 DEF ForwardReply, Outstanding, TypeInv, TypeOK
  <2> QED
    BY <1>2, <1>3, <1>4, <1>16, <2>1 DEF ForwardReply, histVars, swapVars
<1>17. ASSUME NEW r \in Requests, ForwardTimeout(r) PROVE GateInv'
  BY <1>2, <1>3, <1>4, <1>17 DEF ForwardTimeout, histVars, swapVars, Outstanding
<1>18. ASSUME NEW r \in Requests, ClientGone(r) PROVE GateInv'
  BY <1>2, <1>3, <1>4, <1>18 DEF ClientGone, swapVars, Outstanding
<1>19. ASSUME NEW s \in Swaps, SwapEnter(s) PROVE GateInv'
  <2>1. /\ UNCHANGED <<pc, req, loaded>> /\ bypassed \subseteq bypassed'
        /\ smodel'[s] \in bypassed'
    BY <1>19 DEF SwapEnter, ensureVars, TypeInv, TypeOK
  <2>2. PastOracle'
    BY <1>1, <2>1, AllowedStays DEF PastOracle
  <2>3. ASSUME NEW c \in Callers, Outstanding(c)' PROVE Allowed(ModelOf(c))'
    <3>1. CASE c = s
      BY <2>1, <3>1 DEF ModelOf, Allowed
    <3>2. CASE c # s
      <4>1. Outstanding(c) /\ ModelOf(c)' = ModelOf(c)
        BY <1>19, <2>1, <2>3, <3>2 DEF SwapEnter, Outstanding, ModelOf, TypeInv, TypeOK
      <4> QED
        BY <1>1, <2>1, <4>1, AllowedStays
    <3> QED
      BY <3>1, <3>2
  <2>4. \A m \in Range(loaded') : Allowed(m)'
    BY <1>1, <2>1, AllowedStays
  <2> QED
    BY <1>2, <2>2, <2>3, <2>4 DEF OversizedOnlyByBypass, Allowed
<1>20. ASSUME UNCHANGED <<pc, req, loaded, smodel, bypassed>>,
              \A c \in Callers : Outstanding(c)' => Outstanding(c)
       PROVE  GateInv'
  <2>1. PastOracle'
    BY <1>1, <1>20, AllowedStays DEF PastOracle
  <2> QED
    BY <1>2, <1>4, <1>20, <2>1
<1>21. ASSUME NEW s \in Swaps, SwapTask(s) PROVE GateInv'
  BY <1>20, <1>21 DEF SwapTask, SwapReply, SwapTimeout, SwapSend, ensureVars, histVars,
        Outstanding, TypeInv, TypeOK
<1>22. CASE TuiRecv \/ ModelsFetched \/ UNCHANGED vars
  BY <1>20, <1>22 DEF TuiRecv, ModelsFetched, vars, ensureVars, swapVars, histVars, Outstanding
<1>23. ASSUME NEW c \in Callers, RouterServe(c) PROVE GateInv'
  <2>1. /\ UNCHANGED <<pc, req, smodel, bypassed>> /\ Outstanding(c)
        /\ \A d \in Callers : Outstanding(d)' => Outstanding(d)
    BY <1>23 DEF RouterServe, ensureVars, swapVars, Outstanding, TypeInv, TypeOK
  <2>2. Range(loaded') \subseteq Range(loaded) \cup {ModelOf(c)}
    BY <1>23, LoadType DEF RouterServe, TypeInv, TypeOK
  <2>3. \A m \in Range(loaded') : Allowed(m)'
    BY <1>1, <2>1, <2>2, AllowedStays
  <2>4. \A d \in Callers : ModelOf(d)' = ModelOf(d)
    BY <2>1 DEF ModelOf
  <2>5. \A d \in Callers : Outstanding(d)' => Allowed(ModelOf(d))'
    BY <1>1, <2>1, <2>4, AllowedStays
  <2>6. PastOracle'
    BY <1>1, <2>1, AllowedStays DEF PastOracle
  <2> QED
    BY <1>2, <2>3, <2>5, <2>6 DEF OversizedOnlyByBypass, Allowed
<1>24. ASSUME NEW c \in Callers, RouterRefuse(c) PROVE GateInv'
  BY <1>20, <1>24 DEF RouterRefuse, ensureVars, swapVars, histVars, Outstanding, TypeInv, TypeOK
<1>25. CASE RouterRestart
  <2>1. /\ UNCHANGED <<pc, req, smodel, bypassed>> /\ loaded' = <<>>
        /\ \A d \in Callers : ~Outstanding(d)'
    BY <1>25 DEF RouterRestart, ensureVars, swapVars, histVars, Outstanding
  <2>2. PastOracle'
    BY <1>1, <2>1, AllowedStays DEF PastOracle
  <2>3. OversizedOnlyByBypass'
    BY <2>1 DEF OversizedOnlyByBypass, Range
  <2> QED
    BY <1>2, <2>2, <2>3
<1> QED
  BY <1>5, <1>6, <1>7, <1>8, <1>9, <1>10, <1>11, <1>12, <1>13, <1>14, <1>15, <1>16, <1>17,
     <1>18, <1>19, <1>21, <1>22, <1>23, <1>24, <1>25, <1>26 DEF Next, Handle

\* So the gate's invariant holds throughout.
LEMMA GateHolds == Spec => []GateInv
<1>1. Init => PastOracle /\ OversizedOnlyByBypass
  BY Constants DEF Init, PastOracle, OversizedOnlyByBypass, Outstanding, Range, Callers
<1>2. Init => GateInv
  BY <1>1, TypeInit DEF GateInv
<1> QED
  BY <1>2, GateStep, PTL DEF Spec

\* The oracle cannot be got round by interleaving: a model that does not fit is
\* resident, or asked of the router, only if it was forced or hot-swapped at
\* some time (ControlApi::oracle on the path of ensure() and h_chat).
THEOREM OracleGuards == Spec => []OversizedOnlyByBypass
<1>1. GateInv => OversizedOnlyByBypass
  BY DEF GateInv
<1> QED
  BY <1>1, GateHolds, PTL

------------------------------------------------------------------------------
(* What a request has been told.                                           *)

\* A handler answers as it returns, and no sooner.
LEMMA ToldStep ==
    TypeInv /\ ToldSoFar /\ [Next]_vars => ToldSoFar'
<1> SUFFICES ASSUME TypeInv, ToldSoFar, [Next]_vars PROVE ToldSoFar'
  OBVIOUS
<1>0. /\ pc \in [Requests -> PcValues] /\ outcome \in [Requests -> Outcomes]
      /\ req \in [Requests -> EnsureRequest \cup {NoRequest}]
  BY DEF TypeInv, TypeOK
<1> USE <1>0 DEF Critical
<1>1. ASSUME NEW r \in Requests, NEW l, NEW o,
             pc' = [pc EXCEPT ![r] = l], outcome' = [outcome EXCEPT ![r] = o],
             \A q \in Requests : q # r => req'[q] = req[q],
             l # "new", l \in Critical \cup {"lock"} => o = "none",
             l \in {"forward", "reply"} => o \in {"already_resident", "loaded"}
      PROVE  ToldSoFar'
  BY <1>1 DEF ToldSoFar
<1>2. ASSUME NEW r \in Requests, NEW o, Return(r, o), pc[r] \in Critical, UNCHANGED req,
             o # "none"
      PROVE  ToldSoFar'
  <2> DEFINE l == IF req[r].kind = "chat" /\ o \in {"already_resident", "loaded"}
                  THEN "forward" ELSE "done"
  <2>1. /\ pc' = [pc EXCEPT ![r] = l] /\ outcome' = [outcome EXCEPT ![r] = o]
        /\ l \in {"forward", "done"}
        /\ l = "forward" => o \in {"already_resident", "loaded"}
    BY <1>2 DEF Return, Goto
  <2> HIDE DEF l
  <2> QED
    BY <1>1, <1>2, <2>1
<1>3. ASSUME NEW r \in Requests, NEW l, Goto(r, l), UNCHANGED <<outcome, req>>,
             l # "new", l \in Critical \cup {"lock"} => outcome[r] = "none",
             l \in {"forward", "reply"} => outcome[r] \in {"already_resident", "loaded"}
      PROVE  ToldSoFar'
  <2>1. outcome' = [outcome EXCEPT ![r] = outcome[r]]
    BY <1>3
  <2> QED
    BY <1>1, <1>3, <2>1 DEF Goto
<1>4. ASSUME NEW r \in Requests, Arrive(r) PROVE ToldSoFar'
  <2>1. outcome[r] = "none" /\ \A q \in Requests : q # r => req'[q] = req[q]
    BY <1>4 DEF Arrive, ToldSoFar
  <2>2. CASE Goto(r, "lock") /\ UNCHANGED outcome
    <3>1. outcome' = [outcome EXCEPT ![r] = "none"]
      BY <2>1, <2>2
    <3> QED
      BY <1>1, <2>1, <2>2, <3>1 DEF Goto
  <2>3. CASE Goto(r, "done") /\ outcome' = [outcome EXCEPT ![r] = "bad"]
    BY <1>1, <2>1, <2>3 DEF Goto
  <2> QED
    BY <1>4, <2>2, <2>3 DEF Arrive
<1>5. ASSUME NEW r \in Requests, Acquire(r) PROVE ToldSoFar'
  BY <1>3, <1>5 DEF Acquire, ToldSoFar
<1>6. ASSUME NEW r \in Requests, Probe(r) \/ Oracle(r) PROVE ToldSoFar'
  BY <1>2, <1>3, <1>6 DEF Probe, Oracle, ToldSoFar
<1>12. ASSUME NEW r \in Requests, SmiHangs(r) PROVE ToldSoFar'
  BY <1>3, <1>12 DEF SmiHangs, ToldSoFar
<1>7. ASSUME NEW r \in Requests, LogForced(r) \/ LogLoading(r) \/ SetActive(r) PROVE ToldSoFar'
  BY <1>3, <1>7 DEF LogForced, LogLoading, SetActive, ToldSoFar
<1>8. ASSUME NEW r \in Requests, WarmReply(r) \/ WarmTimeout(r) \/ LogWarm(r) PROVE ToldSoFar'
  BY <1>2, <1>3, <1>8 DEF WarmReply, WarmTimeout, LogWarm, ToldSoFar
<1>9. ASSUME NEW r \in Requests, Forward(r) PROVE ToldSoFar'
  BY <1>3, <1>9 DEF Forward, ToldSoFar
<1>10. ASSUME NEW r \in Requests, ForwardReply(r) \/ ForwardTimeout(r) \/ ClientGone(r)
       PROVE  ToldSoFar'
  BY <1>1, <1>10 DEF ForwardReply, ForwardTimeout, ClientGone, Goto
<1>11. CASE UNCHANGED ensureVars
  BY <1>11 DEF ensureVars, ToldSoFar
<1> QED
  BY <1>4, <1>5, <1>6, <1>7, <1>8, <1>9, <1>10, <1>11, <1>12 DEF Next, Handle, SwapEnter, SwapTask,
     SwapReply, SwapTimeout, SwapSend, TuiRecv, ModelsFetched, RouterServe, RouterRefuse,
     RouterRestart, vars, ensureVars

\* Nobody has been told anything at the start.
LEMMA ToldInit == Init => ToldSoFar
BY DEF Init, ToldSoFar, Critical

------------------------------------------------------------------------------
(* The refinement of ResidentService.                                      *)

\* A sequence has no more items than places.
LEMMA RangeBound ==
    ASSUME NEW S, NEW q \in Seq(S)
    PROVE  IsFiniteSet(Range(q)) /\ Cardinality(Range(q)) <= Len(q)
<1>1. q \in Surjection(1..Len(q), Range(q)) /\ Len(q) \in Nat
  BY DEF Surjection, Range
<1>2. ExistsSurjection(1..Len(q), Range(q))
  BY <1>1 DEF ExistsSurjection
<1> QED
  BY <1>1, <1>2, FS_NatSurjection, FS_SurjCardinalityBound

\* A loaded model is there, beside some of those that were.
LEMMA LoadKeeps ==
    ASSUME NEW l \in Seq(Names), Len(l) <= ModelsMax, NEW m \in Names
    PROVE  /\ m \in Range(Load(l, m))
           /\ Cardinality(Range(Load(l, m))) <= ModelsMax
           /\ \E kept \in SUBSET Range(l) : Range(Load(l, m)) = kept \cup {m}
<1>1. /\ Load(l, m) \in Seq(Names) /\ Len(Load(l, m)) <= ModelsMax
      /\ Range(Load(l, m)) \subseteq Range(l) \cup {m}
  BY LoadType
<1>2. m \in Range(Load(l, m))
  <2>1. ASSUME NEW t \in Seq(Names) PROVE m \in Range(Append(t, m))
    <3>1. Len(t) + 1 \in DOMAIN Append(t, m) /\ Append(t, m)[Len(t) + 1] = m
      OBVIOUS
    <3> QED
      BY <3>1 DEF Range
  <2>2. m \in Range(l) \/ \E t \in Seq(Names) : Load(l, m) = Append(t, m)
    <3>1. SubSeq(l, Len(l) - ModelsMax + 2, Len(l)) \in Seq(Names) \/ Len(l) < ModelsMax
      BY Constants
    <3> QED
      BY <3>1 DEF Load
  <2> QED
    BY <2>1, <2>2 DEF Load
<1>3. Cardinality(Range(Load(l, m))) <= ModelsMax
  <2>1. IsFiniteSet(Range(Load(l, m))) /\ Cardinality(Range(Load(l, m))) <= Len(Load(l, m))
    BY <1>1, RangeBound
  <2>2. Cardinality(Range(Load(l, m))) \in Nat /\ Len(Load(l, m)) \in Nat
    BY <1>1, <2>1, FS_CardinalityType
  <2> QED
    BY <1>1, <2>1, <2>2, Constants
<1>4. Range(Load(l, m)) \cap Range(l) \in SUBSET Range(l)
  OBVIOUS
<1> QED
  BY <1>1, <1>2, <1>3, <1>4

\* A request's step concerns no other request's answer.
LEMMA Mapped ==
    ASSUME TypeInv, NEW r \in Requests, NEW l, NEW o,
           pc' = [pc EXCEPT ![r] = l], outcome' = [outcome EXCEPT ![r] = o],
           \A c \in Callers : c # r => post'[c] = post[c]
    PROVE  /\ Answer' = [Answer EXCEPT ![r] = AnswerOf(o)]
           /\ Witnessed' = IF Knows(r)' THEN Witnessed \cup {r} ELSE Witnessed \ {r}
<1>1. pc \in [Requests -> PcValues] /\ outcome \in [Requests -> Outcomes]
  BY DEF TypeInv, TypeOK
<1>2. \A q \in Requests : q # r => outcome'[q] = outcome[q] /\ (Knows(q)' <=> Knows(q))
  BY <1>1, Constants DEF Knows
<1>3. outcome'[r] = o
  BY <1>1
<1> QED
  BY <1>2, <1>3 DEF Answer, Witnessed, AnswerOf, ReadyOutcomes

\* Whoever has asked, has asked for what was read of the request.
LEMMA StillAsked ==
    ASSUME UNCHANGED <<req, smodel>> PROVE Asked' = Asked
BY DEF Asked, ModelOf

\* Each step of the handlers, the hot-swap and the router is one of the service or
\* leaves it alone.
LEMMA ServiceStep ==
    ASSUME TypeInv, ToldSoFar, [Next]_vars
    PROVE  [Service!Next]_(Service!vars)
<1>0. /\ pc \in [Requests -> PcValues] /\ outcome \in [Requests -> Outcomes]
      /\ post \in [Callers -> PostValues]
      /\ loaded \in Seq(Names) /\ Len(loaded) <= ModelsMax
      /\ \A r \in Requests : pc[r] # "new" => req[r].profile \in Names
      /\ \A r \in Requests : Asked[r] = req[r].profile
      /\ \A r \in Requests : Answer[r] = AnswerOf(outcome[r])
      /\ Witnessed \subseteq Requests
      /\ DOMAIN Asked = Callers
  BY Constants DEF TypeInv, TypeOK, AskedFor, EnsureRequest, Asked, Answer, ModelOf, Witnessed
<1> DEFINE Silent == UNCHANGED <<Asked, Answer, Range(loaded), Witnessed>>
<1>1. Silent => [Service!Next]_(Service!vars)
  BY DEF Service!vars
<1>2. /\ \A r \in Requests : pc[r] # "new" => Asked[r] # NoModel /\ Asked[r] \in Names
      /\ \A r \in Requests : pc[r] \in Critical \cup {"new", "lock"} => Answer[r] = "none"
      /\ \A r \in Requests : pc[r] # "new" /\ pc[r] # "done" => Answer[r] # "gone"
  BY <1>0, Constants DEF ToldSoFar, AnswerOf, ReadyOutcomes, Critical, PcValues
<1>3. ASSUME NEW r \in Requests, NEW l, NEW o,
             pc' = [pc EXCEPT ![r] = l], outcome' = [outcome EXCEPT ![r] = o],
             \A c \in Callers : c # r => post'[c] = post[c],
             UNCHANGED <<req, smodel, loaded>>,
             AnswerOf(o) = AnswerOf(outcome[r]), Knows(r)' <=> Knows(r)
      PROVE  [Service!Next]_(Service!vars)
  <2>1. /\ Answer' = [Answer EXCEPT ![r] = AnswerOf(o)]
        /\ Witnessed' = IF Knows(r)' THEN Witnessed \cup {r} ELSE Witnessed \ {r}
    BY <1>3, Mapped
  <2>2. Answer' = Answer
    BY <1>0, <1>3, <2>1 DEF Answer
  <2>3. Witnessed' = Witnessed
    BY <1>3, <2>1 DEF Witnessed
  <2> QED
    BY <1>1, <1>3, <2>2, <2>3, StillAsked
<1>4. ASSUME NEW r \in Requests, NEW l,
             pc' = [pc EXCEPT ![r] = l], UNCHANGED <<outcome, req, smodel, loaded>>,
             \A c \in Callers : c # r => post'[c] = post[c], Knows(r)' <=> Knows(r)
      PROVE  [Service!Next]_(Service!vars)
  <2>1. outcome' = [outcome EXCEPT ![r] = outcome[r]]
    BY <1>0, <1>4
  <2> QED
    BY <1>3, <1>4, <2>1
\* What a return is to the service.
<1>5. ASSUME NEW r \in Requests, NEW o, Return(r, o), pc[r] \in Critical,
             UNCHANGED <<req, smodel, loaded>>,
             \A c \in Callers : c # r => post'[c] = post[c],
             \/ o \in {"already_resident", "loaded"} /\ (Knows(r) \/ req[r].profile \in Range(loaded))
             \/ o \in {"oom", "err"} /\ ~Knows(r)
      PROVE  [Service!Next]_(Service!vars)
  <2> DEFINE l == IF req[r].kind = "chat" /\ o \in {"already_resident", "loaded"}
                  THEN "forward" ELSE "done"
  <2>1. /\ pc' = [pc EXCEPT ![r] = l] /\ outcome' = [outcome EXCEPT ![r] = o]
        /\ l \in {"forward", "done"}
    BY <1>5 DEF Return, Goto
  <2> HIDE DEF l
  <2>2. /\ Answer' = [Answer EXCEPT ![r] = AnswerOf(o)]
        /\ Witnessed' = IF Knows(r)' THEN Witnessed \cup {r} ELSE Witnessed \ {r}
    BY <1>5, <2>1, Mapped
  <2>3. /\ Asked' = Asked /\ Range(loaded') = Range(loaded)
        /\ Answer[r] = "none" /\ Asked[r] # NoModel
        /\ pc'[r] = l /\ outcome'[r] = o
    BY <1>0, <1>2, <1>5, <2>1, StillAsked DEF Critical
  <2>4. CASE o \in {"already_resident", "loaded"}
    <3>1. Knows(r)' /\ AnswerOf(o) = "ready"
      BY <2>3, <2>4 DEF Knows, AnswerOf, ReadyOutcomes
    <3>2. r \in Witnessed \/ Asked[r] \in Range(loaded)
      BY <1>0, <1>5, <2>4 DEF Witnessed
    <3>3. Service!Ready(r)
      BY <2>2, <2>3, <3>1, <3>2 DEF Service!Ready
    <3> QED
      BY <3>3 DEF Service!Next
  <2>5. CASE o \in {"oom", "err"}
    <3>1. ~Knows(r)' /\ AnswerOf(o) = "not_ready" /\ r \notin Witnessed
      BY <1>5, <2>1, <2>3, <2>5 DEF Knows, AnswerOf, ReadyOutcomes, Witnessed
    <3>2. Service!NotReady(r)
      BY <2>2, <2>3, <3>1 DEF Service!NotReady
    <3> QED
      BY <3>2 DEF Service!Next
  <2> QED
    BY <1>5, <2>4, <2>5
<1>6. ASSUME NEW r \in Requests, Arrive(r) PROVE [Service!Next]_(Service!vars)
  <2>1. PICK q \in EnsureRequest :
          /\ req' = [req EXCEPT ![r] = q]
          /\ \/ Goto(r, "lock") /\ UNCHANGED outcome
             \/ Goto(r, "done") /\ outcome' = [outcome EXCEPT ![r] = "bad"]
    BY <1>6 DEF Arrive
  <2>2. /\ UNCHANGED <<post, loaded, smodel>> /\ pc[r] = "new" /\ outcome[r] = "none"
        /\ req[r] = NoRequest /\ q.profile \in Names
    BY <1>6, <2>1 DEF Arrive, swapVars, ToldSoFar, EnsureRequest
  <2>3. /\ Asked' = [Asked EXCEPT ![r] = q.profile]
        /\ Asked[r] = NoModel /\ Answer[r] = "none" /\ r \notin Witnessed
    <3>1. req' \in [Requests -> EnsureRequest \cup {NoRequest}] /\ req'[r] = q
          /\ \A p \in Requests : p # r => req'[p] = req[p]
      BY <2>1 DEF TypeInv, TypeOK
    <3>2. Asked' = [Asked EXCEPT ![r] = q.profile]
      BY <2>2, <3>1, Constants DEF Asked, ModelOf
    <3>3. Asked[r] = NoModel /\ Answer[r] = "none"
      BY <1>0, <1>2, <2>2 DEF NoRequest
    <3>4. r \notin Witnessed
      BY <2>2 DEF Witnessed, Knows, ReadyOutcomes
    <3> QED
      BY <3>2, <3>3, <3>4
  <2>4. CASE Goto(r, "lock") /\ UNCHANGED outcome
    <3>1. outcome' = [outcome EXCEPT ![r] = "none"] /\ pc' = [pc EXCEPT ![r] = "lock"]
      BY <1>0, <2>2, <2>4 DEF Goto
    <3>2. /\ Answer' = [Answer EXCEPT ![r] = AnswerOf("none")]
          /\ Witnessed' = IF Knows(r)' THEN Witnessed \cup {r} ELSE Witnessed \ {r}
      BY <2>2, <3>1, Mapped
    <3>3. ~Knows(r)' /\ AnswerOf("none") = "none"
      BY <1>0, <3>1 DEF Knows, AnswerOf, ReadyOutcomes
    <3>4. Answer' = Answer /\ Witnessed' = Witnessed
      BY <2>3, <3>2, <3>3 DEF Answer
    <3>5. Service!Ask(r, q.profile)
      BY <2>2, <2>3, <3>4 DEF Service!Ask
    <3> QED
      BY <2>2, <3>5 DEF Service!Next, Service!Callers
  <2>5. CASE Goto(r, "done") /\ outcome' = [outcome EXCEPT ![r] = "bad"]
    <3>1. /\ Answer' = [Answer EXCEPT ![r] = AnswerOf("bad")]
          /\ Witnessed' = IF Knows(r)' THEN Witnessed \cup {r} ELSE Witnessed \ {r}
      BY <2>2, <2>5, Mapped DEF Goto
    <3>2. ~Knows(r)' /\ AnswerOf("bad") = "not_ready"
      BY <1>0, <2>5 DEF Knows, AnswerOf, ReadyOutcomes, Goto
    <3>3. Service!AskRefused(r, q.profile)
      BY <2>2, <2>3, <3>1, <3>2 DEF Service!AskRefused
    <3> QED
      BY <2>2, <3>3 DEF Service!Next
  <2> QED
    BY <2>1, <2>4, <2>5
<1>7. ASSUME NEW r \in Requests, Acquire(r) PROVE [Service!Next]_(Service!vars)
  BY <1>0, <1>4, <1>7 DEF Acquire, Goto, swapVars, Knows
<1>8. ASSUME NEW r \in Requests, Probe(r) PROVE [Service!Next]_(Service!vars)
  <2>1. CASE req[r].profile \in Range(loaded) /\ Return(r, "already_resident")
    BY <1>5, <1>8, <2>1 DEF Probe, swapVars, Critical
  <2>2. CASE Goto(r, "oracle") /\ UNCHANGED <<outcome, holder>>
    BY <1>0, <1>4, <1>8, <2>2 DEF Probe, Goto, swapVars, Knows
  <2> QED
    BY <1>8, <2>1, <2>2 DEF Probe
<1>9. ASSUME NEW r \in Requests, pc[r] \in Critical \cup {"new", "lock"},
             pc[r] \notin {"warm", "set_active", "log_warm"}
      PROVE  ~Knows(r)
  BY <1>9 DEF Knows, ToldSoFar, ReadyOutcomes
<1>10. ASSUME NEW r \in Requests, Oracle(r) PROVE [Service!Next]_(Service!vars)
  <2>1. CASE Return(r, "oom")
    BY <1>5, <1>9, <1>10, <2>1 DEF Oracle, swapVars, Critical
  <2>2. ASSUME NEW l \in {"log_loading", "log_forced"}, Goto(r, l), UNCHANGED outcome
        PROVE  [Service!Next]_(Service!vars)
    BY <1>0, <1>4, <1>10, <2>2 DEF Oracle, Goto, swapVars, Knows
  <2> QED
    BY <1>10, <2>1, <2>2 DEF Oracle
<1>27. ASSUME NEW r \in Requests, SmiHangs(r) PROVE [Service!Next]_(Service!vars)
  BY <1>0, <1>4, <1>27 DEF SmiHangs, Goto, swapVars, Knows
<1>11. ASSUME NEW r \in Requests, LogForced(r) PROVE [Service!Next]_(Service!vars)
  BY <1>0, <1>4, <1>11 DEF LogForced, Goto, swapVars, Knows
<1>12. ASSUME NEW r \in Requests, LogLoading(r) PROVE [Service!Next]_(Service!vars)
  BY <1>0, <1>4, <1>12, Constants DEF LogLoading, Goto, swapVars, Knows
<1>13. ASSUME NEW r \in Requests, WarmReply(r) PROVE [Service!Next]_(Service!vars)
  <2>1. /\ pc[r] = "warm" /\ UNCHANGED <<req, smodel, loaded>> /\ outcome[r] = "none"
        /\ \A c \in Callers : c # r => post'[c] = post[c]
        /\ pc[r] \in Critical
    BY <1>0, <1>13 DEF WarmReply, swapVars, ToldSoFar, Critical
  <2>2. CASE post[r] = "ok" /\ Goto(r, "set_active") /\ UNCHANGED outcome
    BY <1>0, <1>4, <2>1, <2>2 DEF Goto, Knows
  <2>3. CASE post[r] = "failed" /\ Return(r, "err")
    BY <1>5, <2>1, <2>3 DEF Knows, ReadyOutcomes
  <2> QED
    BY <1>13, <2>2, <2>3 DEF WarmReply
<1>14. ASSUME NEW r \in Requests, WarmTimeout(r) PROVE [Service!Next]_(Service!vars)
  <2>1. /\ pc[r] \in Critical /\ ~Knows(r) /\ UNCHANGED <<req, smodel, loaded, post>>
    BY <1>14 DEF WarmTimeout, swapVars, Critical, Knows, ToldSoFar, ReadyOutcomes
  <2> QED
    BY <1>5, <1>14, <2>1 DEF WarmTimeout
<1>15. ASSUME NEW r \in Requests, SetActive(r) PROVE [Service!Next]_(Service!vars)
  BY <1>0, <1>4, <1>15 DEF SetActive, Goto, swapVars, Knows
<1>16. ASSUME NEW r \in Requests, LogWarm(r) PROVE [Service!Next]_(Service!vars)
  BY <1>5, <1>16 DEF LogWarm, swapVars, Critical, Knows
<1>17. ASSUME NEW r \in Requests, Forward(r) PROVE [Service!Next]_(Service!vars)
  BY <1>0, <1>4, <1>17, Constants DEF Forward, Goto, swapVars, Knows
<1>18. ASSUME NEW r \in Requests, ForwardReply(r) \/ ForwardTimeout(r)
       PROVE  [Service!Next]_(Service!vars)
  <2>1. PICK o \in {"relayed", "unhealthy", "upstream_timeout"} :
           outcome' = [outcome EXCEPT ![r] = o]
    BY <1>18 DEF ForwardReply, ForwardTimeout
  <2>2. /\ pc' = [pc EXCEPT ![r] = "done"] /\ UNCHANGED <<req, smodel, loaded>>
        /\ \A c \in Callers : c # r => post'[c] = post[c]
        /\ outcome[r] \in {"already_resident", "loaded"}
    BY <1>0, <1>18 DEF ForwardReply, ForwardTimeout, Goto, swapVars, ToldSoFar
  <2>3. AnswerOf(o) = AnswerOf(outcome[r]) /\ Knows(r) /\ Knows(r)'
    BY <1>0, <2>1, <2>2 DEF AnswerOf, ReadyOutcomes, Knows
  <2> QED
    BY <1>3, <2>1, <2>2, <2>3
<1>19. ASSUME NEW r \in Requests, ClientGone(r) PROVE [Service!Next]_(Service!vars)
  <2>1. /\ pc[r] \notin {"new", "done"} /\ UNCHANGED <<req, smodel, loaded, post>>
        /\ pc' = [pc EXCEPT ![r] = "done"] /\ outcome' = [outcome EXCEPT ![r] = "cancelled"]
    BY <1>19 DEF ClientGone, Goto, swapVars
  <2>2. /\ Answer' = [Answer EXCEPT ![r] = AnswerOf("cancelled")]
        /\ Witnessed' = IF Knows(r)' THEN Witnessed \cup {r} ELSE Witnessed \ {r}
    BY <2>1, Mapped
  <2>3. ~Knows(r)' /\ AnswerOf("cancelled") = "gone"
    BY <1>0, <2>1 DEF Knows, AnswerOf, ReadyOutcomes
  <2>4. Service!HangUp(r)
    BY <1>2, <2>1, <2>2, <2>3, StillAsked DEF Service!HangUp
  <2> QED
    BY <2>4 DEF Service!Next
<1>20. CASE TuiRecv \/ ModelsFetched \/ UNCHANGED vars
  BY <1>1, <1>20 DEF TuiRecv, ModelsFetched, vars, ensureVars, swapVars, Asked, ModelOf,
     Answer, Witnessed, Knows
\* What concerns hot-swaps alone.
<1>21. ASSUME UNCHANGED <<pc, req, outcome, loaded>>,
              \A r \in Requests : post'[r] = "ok" <=> post[r] = "ok"
       PROVE  UNCHANGED <<Answer, Range(loaded), Witnessed>>
  BY <1>21 DEF Answer, Witnessed, Knows
<1>22. ASSUME NEW s \in Swaps, SwapEnter(s) PROVE [Service!Next]_(Service!vars)
  <2>1. PICK m \in RouterModels : smodel' = [smodel EXCEPT ![s] = m]
    BY <1>22 DEF SwapEnter
  <2>2. Asked' = [Asked EXCEPT ![s] = m] /\ Asked[s] = NoModel /\ m \in Names /\ s \in Callers
    BY <1>22, <2>1, Constants, SMTT(30)
       DEF SwapEnter, ensureVars, Asked, ModelOf, TypeInv, TypeOK, AskedFor
  <2>3. UNCHANGED <<Answer, Range(loaded), Witnessed>>
    BY <1>0, <1>21, <1>22, Constants DEF SwapEnter, ensureVars
  <2>4. Service!Ask(s, m)
    BY <2>2, <2>3 DEF Service!Ask
  <2> QED
    BY <2>2, <2>4 DEF Service!Next, Service!Callers, Callers
<1>23. ASSUME NEW s \in Swaps, SwapTask(s) PROVE [Service!Next]_(Service!vars)
  <2>1. UNCHANGED <<pc, req, outcome, loaded, smodel>>
    BY <1>23 DEF SwapTask, SwapReply, SwapTimeout, SwapSend, ensureVars
  <2>2. \A r \in Requests : post'[r] = "ok" <=> post[r] = "ok"
    BY <1>0, <1>23, Constants DEF SwapTask, SwapReply, SwapTimeout, SwapSend
  <2> QED
    BY <1>1, <1>21, <2>1, <2>2, StillAsked
<1>24. ASSUME NEW c \in Callers, RouterServe(c) PROVE [Service!Next]_(Service!vars)
  <2>1. /\ UNCHANGED <<pc, req, outcome, smodel>> /\ loaded' = Load(loaded, ModelOf(c))
        /\ ModelOf(c) \in Names /\ post' = [post EXCEPT ![c] = "ok"]
    BY <1>24, Constants DEF RouterServe, ensureVars, swapVars
  <2>2. Asked' = Asked /\ Answer' = Answer /\ Asked[c] = ModelOf(c) /\ Asked[c] # NoModel
    BY <2>1, StillAsked, Constants DEF Answer, Asked
  <2>3. Witnessed' \in {Witnessed, Witnessed \cup {c}}
    <3>1. \A r \in Requests : r # c => (Knows(r)' <=> Knows(r))
      BY <1>0, <2>1, Constants DEF Knows
    <3>2. c \in Requests => (Knows(c) => Knows(c)')
      BY <1>0, <2>1 DEF Knows
    <3> QED
      BY <3>1, <3>2 DEF Witnessed
  <2>4. PICK kept \in SUBSET Range(loaded) : Range(loaded') = kept \cup {Asked[c]}
    <3>1. /\ Cardinality(Range(Load(loaded, ModelOf(c)))) <= ModelsMax
          /\ \E kept \in SUBSET Range(loaded) :
                Range(Load(loaded, ModelOf(c))) = kept \cup {ModelOf(c)}
      BY <1>0, <2>1, LoadKeeps
    <3> QED
      BY <2>1, <2>2, <3>1
  <2>5. Cardinality(kept \cup {Asked[c]}) <= ModelsMax
    BY <1>0, <2>1, <2>4, LoadKeeps
  <2>6. Service!Load(c)
    <3>1. \E k \in SUBSET Range(loaded) :
            /\ Cardinality(k \cup {Asked[c]}) <= ModelsMax
            /\ Range(loaded') = k \cup {Asked[c]}
      BY <2>4, <2>5
    <3>2. Service!Cardinality(kept \cup {Asked[c]}) = Cardinality(kept \cup {Asked[c]})
      BY DEF Service!Cardinality, Cardinality
    <3> QED
      BY <2>2, <2>3, <2>4, <2>5, <3>2 DEF Service!Load
  <2> QED
    BY <2>6 DEF Service!Next, Service!Callers, Callers
<1>25. ASSUME NEW c \in Callers, RouterRefuse(c) PROVE [Service!Next]_(Service!vars)
  <2>1. UNCHANGED <<pc, req, outcome, loaded, smodel>>
    BY <1>25 DEF RouterRefuse, ensureVars, swapVars
  <2>2. \A r \in Requests : post'[r] = "ok" <=> post[r] = "ok"
    BY <1>0, <1>25, Constants DEF RouterRefuse, Outstanding
  <2> QED
    BY <1>1, <1>21, <2>1, <2>2, StillAsked
<1>26. CASE RouterRestart
  <2>1. UNCHANGED <<pc, req, outcome, smodel>> /\ Range(loaded') = {}
    BY <1>26 DEF RouterRestart, ensureVars, swapVars, Range
  <2>2. \A r \in Requests : post'[r] = "ok" <=> post[r] = "ok"
    BY <1>0, <1>26, Constants DEF RouterRestart, Outstanding
  <2>3. Service!UnloadAll
    BY <2>1, <2>2, StillAsked DEF Service!UnloadAll, Answer, Witnessed, Knows
  <2> QED
    BY <2>3 DEF Service!Next
<1> QED
  BY <1>6, <1>7, <1>8, <1>10, <1>11, <1>12, <1>13, <1>14, <1>15, <1>16, <1>17, <1>18, <1>19,
     <1>20, <1>22, <1>23, <1>24, <1>25, <1>26, <1>27 DEF Next, Handle

\* The control API keeps what ResidentService promises: whoever is told that its model is
\* ready had it resident during the call, and nothing is loaded that nobody asked for.
THEOREM Implements == Spec => ImplementsService
<1>1. Init => Service!Init
  BY Constants DEF Init, Service!Init, Service!Callers, Asked, ModelOf, Answer, AnswerOf,
     Witnessed, Knows, ReadyOutcomes, NoRequest, Callers, Range
<1>2. Init => TypeInv /\ ToldSoFar
  BY TypeInit, ToldInit
<1>3. TypeInv /\ ToldSoFar /\ [Next]_vars => (TypeInv /\ ToldSoFar)'
  BY TypeStep, ToldStep
<1>4. TypeInv /\ ToldSoFar /\ [Next]_vars => [Service!Next]_(Service!vars)
  BY ServiceStep
<1> QED
  BY <1>1, <1>2, <1>3, <1>4, PTL DEF Spec, ImplementsService, Service!Spec

\* Whoever is told that its model is ready had it resident during the call (control_api.rs,
\* "ensure resident"): it was witnessed, ...
THEOREM ReadyWasResident == Spec => []Service!ReadyIsWitnessed
<1>1. Service!Init => Service!ReadyIsWitnessed
  BY DEF Service!Init, Service!ReadyIsWitnessed
<1>2. Service!ReadyIsWitnessed /\ [Service!Next]_(Service!vars) => Service!ReadyIsWitnessed'
  <2> SUFFICES ASSUME Service!ReadyIsWitnessed, [Service!Next]_(Service!vars)
               PROVE  Service!ReadyIsWitnessed'
    OBVIOUS
  <2>0. Answer \in [Requests -> {"none", "ready", "gone", "not_ready"}]
    BY DEF Answer, AnswerOf
  <2> HIDE DEF Answer
  <2> USE <2>0 DEF Service!ReadyIsWitnessed
  <2>1. ASSUME NEW c \in Callers, Service!Load(c) PROVE Service!ReadyIsWitnessed'
    BY <2>1 DEF Service!Load
  <2>2. ASSUME NEW c \in Callers, NEW m \in Names, Service!Ask(c, m)
        PROVE  Service!ReadyIsWitnessed'
    BY <2>2 DEF Service!Ask
  <2>3. ASSUME NEW r \in Requests, NEW m \in Names, Service!AskRefused(r, m)
        PROVE  Service!ReadyIsWitnessed'
    BY <2>3 DEF Service!AskRefused
  <2>4. ASSUME NEW r \in Requests, Service!Ready(r) \/ Service!NotReady(r) \/ Service!HangUp(r)
        PROVE  Service!ReadyIsWitnessed'
    BY <2>4 DEF Service!Ready, Service!NotReady, Service!HangUp
  <2>5. CASE Service!UnloadAll
    BY <2>5 DEF Service!UnloadAll
  <2>6. CASE UNCHANGED Service!vars
    BY <2>6 DEF Service!vars
  <2> QED
    BY <2>1, <2>2, <2>3, <2>4, <2>5, <2>6 DEF Service!Next, Service!Callers, Callers
<1> QED
  BY <1>1, <1>2, Implements, PTL DEF Service!Spec, ImplementsService

\* ... by the request itself, at a moment at which the model it asked for was there, after
\* it had asked.
THEOREM ResidentInCall == Spec => Service!WitnessedInCall /\ Service!AskedOnce
<1>1. [Service!Next]_(Service!vars) => [Service!SeenThere]_(Service!vars)
  <2> SUFFICES ASSUME [Service!Next]_(Service!vars) PROVE [Service!SeenThere]_(Service!vars)
    OBVIOUS
  <2> USE DEF Service!SeenThere
  <2>1. ASSUME NEW c \in Callers, Service!Load(c) PROVE Service!SeenThere
    BY <2>1 DEF Service!Load
  <2>2. ASSUME NEW r \in Requests, Service!Ready(r) PROVE Service!SeenThere
    BY <2>2 DEF Service!Ready
  <2>3. ASSUME Witnessed' \subseteq Witnessed PROVE Service!SeenThere
    BY <2>3
  <2> QED
    BY <2>1, <2>2, <2>3 DEF Service!Next, Service!Callers, Callers, Service!Ask,
        Service!AskRefused, Service!NotReady, Service!HangUp, Service!UnloadAll
<1>2. [Service!Next]_(Service!vars) => [Service!StillAsked]_(Service!vars)
  <2> SUFFICES ASSUME [Service!Next]_(Service!vars) PROVE [Service!StillAsked]_(Service!vars)
    OBVIOUS
  <2>0. Asked = [c \in Callers |-> Asked[c]]
    BY DEF Asked
  <2> USE <2>0 DEF Service!StillAsked
  <2>1. ASSUME Asked' = Asked PROVE Service!StillAsked
    BY <2>1
  <2>2. ASSUME NEW c \in Callers, NEW m, Asked[c] = NoModel, Asked' = [Asked EXCEPT ![c] = m]
        PROVE  Service!StillAsked
    BY <2>2 DEF Service!Callers, Callers
  <2> QED
    BY <2>1, <2>2, Constants DEF Service!Next, Service!Callers, Callers, Service!Ask,
        Service!AskRefused, Service!NotReady, Service!HangUp, Service!UnloadAll, Service!Load,
        Service!Ready
<1> QED
  BY <1>1, <1>2, Implements, PTL DEF Service!Spec, ImplementsService, Service!WitnessedInCall,
     Service!AskedOnce

------------------------------------------------------------------------------
(* What the TUI is going to show.                                          *)

\* The last ActiveModelSet sent is the one that counts, and the other events do not.
LEMMA SendShows ==
    ASSUME TypeInv, NEW e \in Events, Send(e)
    PROVE  /\ \A m \in Names : e = ActiveModelSet(m) => WillShow(m)'
           /\ e.type # "ActiveModelSet" /\ UNCHANGED active
                => \A m \in Names : WillShow(m) => WillShow(m)'
<1>1. /\ chan \in Seq(Events) /\ chan' = Append(chan, e) /\ Len(chan) \in Nat
      /\ Len(chan') = Len(chan) + 1 /\ chan'[Len(chan) + 1] = e
      /\ \A i \in 1..Len(chan) : chan'[i] = chan[i]
  BY DEF TypeInv, TypeOK, Send
<1>2. ASSUME NEW m \in Names, e = ActiveModelSet(m) PROVE WillShow(m)'
  <2>1. Len(chan) + 1 \in 1..Len(chan') /\ Len(chan) + 1 + 1..Len(chan') = {}
    BY <1>1
  <2> QED
    BY <1>1, <1>2, <2>1 DEF WillShow
<1>3. ASSUME e.type # "ActiveModelSet", UNCHANGED active, NEW m \in Names, WillShow(m)
      PROVE  WillShow(m)'
  <2>1. CASE active = m /\ \A i \in 1..Len(chan) : chan[i].type # "ActiveModelSet"
    <3>1. \A i \in 1..Len(chan') : chan'[i].type # "ActiveModelSet"
      BY <1>1, <1>3, <2>1
    <3> QED
      BY <1>3, <2>1, <3>1 DEF WillShow
  <2>2. ASSUME NEW i \in 1..Len(chan), chan[i] = ActiveModelSet(m),
               \A j \in i + 1..Len(chan) : chan[j].type # "ActiveModelSet"
        PROVE  WillShow(m)'
    <3>1. /\ i \in 1..Len(chan') /\ chan'[i] = ActiveModelSet(m)
          /\ \A j \in i + 1..Len(chan') : chan'[j].type # "ActiveModelSet"
      BY <1>1, <1>3, <2>2
    <3> QED
      BY <3>1 DEF WillShow, ActiveModelSet
  <2> QED
    BY <1>3, <2>1, <2>2 DEF WillShow
<1> QED
  BY <1>2, <1>3

\* Taking an event brings the TUI nearer to what it will show, and changes nothing of it.
LEMMA RecvShows ==
    ASSUME TypeInv, TuiRecv, NEW m \in Names, WillShow(m)
    PROVE  WillShow(m)'
<1>1. /\ chan \in Seq(Events) /\ chan # <<>> /\ chan' = Tail(chan) /\ Len(chan) \in Nat \ {0}
      /\ Len(chan') = Len(chan) - 1 /\ \A i \in 1..Len(chan') : chan'[i] = chan[i + 1]
      /\ Head(chan) = chan[1]
      /\ active' = IF chan[1].type = "ActiveModelSet" THEN chan[1].model ELSE active
  BY DEF TypeInv, TypeOK, TuiRecv
<1>2. CASE active = m /\ \A i \in 1..Len(chan) : chan[i].type # "ActiveModelSet"
  <2>1. active' = m /\ \A i \in 1..Len(chan') : chan'[i].type # "ActiveModelSet"
    BY <1>1, <1>2
  <2> QED
    BY <2>1 DEF WillShow
<1>3. ASSUME NEW i \in 1..Len(chan), chan[i] = ActiveModelSet(m),
             \A j \in i + 1..Len(chan) : chan[j].type # "ActiveModelSet"
      PROVE  WillShow(m)'
  <2>1. CASE i = 1
    <3>1. active' = m
      BY <1>1, <1>3, <2>1 DEF ActiveModelSet
    <3>2. \A j \in 1..Len(chan') : chan'[j].type # "ActiveModelSet"
      BY <1>1, <1>3, <2>1
    <3> QED
      BY <3>1, <3>2 DEF WillShow
  <2>2. CASE i # 1
    <3>1. /\ i - 1 \in 1..Len(chan') /\ chan'[i - 1] = ActiveModelSet(m)
          /\ \A j \in i - 1 + 1..Len(chan') : chan'[j].type # "ActiveModelSet"
      BY <1>1, <1>3, <2>2, SMTT(30)
    <3> QED
      BY <3>1 DEF WillShow, ActiveModelSet
  <2> QED
    BY <2>1, <2>2
<1> QED
  BY <1>2, <1>3 DEF WillShow

\* Only loads behind the TUI's back take from it what it would have shown.
LEMMA SightStep ==
    ASSUME TypeInv, Alone, InSight, [Next]_vars
    PROVE  InSight'
<1>0. /\ pc \in [Requests -> PcValues] /\ post \in [Callers -> PostValues]
      /\ loaded \in Seq(Names) /\ Len(loaded) <= ModelsMax /\ Range(loaded) \subseteq Names
      /\ \A r \in Requests : pc[r] # "new" => req[r].profile \in Names
      /\ \A r \in Requests : pc[r] = "new" => post[r] = "idle"
      /\ \A s \in Swaps : spc[s] = "new" => post[s] = "idle"
      /\ LogLine \in Events /\ ErrorEvent \in Events
      /\ LogLine.type # "ActiveModelSet"
      /\ \A m \in Names : ActiveModelSet(m) \in Events
  BY DEF TypeInv, TypeOK, AskedFor, EnsureRequest, Events, LogLine, Range
<1>1. disturbed => disturbed'
  BY DEF Next, Handle, SwapTask, Arrive, Acquire, Probe, Oracle, LogForced, LogLoading, WarmReply,
     WarmTimeout, SetActive, LogWarm, Forward, ForwardReply, ForwardTimeout, SmiHangs, ClientGone,
     SwapEnter, SwapReply, SwapTimeout, SwapSend, TuiRecv, ModelsFetched, RouterServe,
     RouterRefuse, RouterRestart, histVars, vars
<1> SUFFICES ASSUME TuiUpToDate, ~disturbed, ~disturbed' PROVE TuiUpToDate'
  BY <1>1 DEF InSight
<1>2. /\ \A s \in Swaps : spc[s] = "new"
      /\ \A r \in Requests : post[r] = "warm" => pc[r] = "warm"
      /\ loaded # <<>> => \A r \in Requests : Unannounced(r) => req[r].profile \in Range(loaded)
      /\ loaded # <<>> => \/ \E r \in Requests : Unannounced(r)
                          \/ \E m \in Range(loaded) : WillShow(m)
  BY DEF TuiUpToDate
\* What neither loads nor tells of a load.
<1>3. ASSUME UNCHANGED <<loaded, spc>>,
             \A r \in Requests : post'[r] = "warm" => pc'[r] = "warm",
             \A r \in Requests : Unannounced(r)' <=> Unannounced(r),
             \A r \in Requests : Unannounced(r) => req'[r].profile = req[r].profile,
             \A m \in Names : WillShow(m) => WillShow(m)'
      PROVE  TuiUpToDate'
  <2>1. ASSUME loaded' # <<>>
        PROVE  /\ \A r \in Requests : Unannounced(r)' => req'[r].profile \in Range(loaded')
               /\ \/ \E r \in Requests : Unannounced(r)'
                  \/ \E m \in Range(loaded') : WillShow(m)'
    <3>1. Range(loaded') = Range(loaded)
      BY <1>3
    <3> QED
      BY <1>0, <1>2, <1>3, <2>1, <3>1
  <2> QED
    BY <1>2, <1>3, <2>1 DEF TuiUpToDate
<1>4. UNCHANGED <<chan, active>> => \A m \in Names : WillShow(m) => WillShow(m)'
  BY DEF WillShow
<1>5. ASSUME NEW r \in Requests, NEW l, pc' = [pc EXCEPT ![r] = l],
             UNCHANGED <<loaded, spc, req>>,
             \A q \in Requests : q # r => post'[q] = post[q],
             post'[r] = "warm" => l = "warm",
             Unannounced(r)' <=> Unannounced(r),
             UNCHANGED <<chan, active>> \/ (Send(LogLine) /\ UNCHANGED active)
      PROVE  TuiUpToDate'
  <2>1. \A q \in Requests : post'[q] = "warm" => pc'[q] = "warm"
    BY <1>0, <1>2, <1>5
  <2>2. \A q \in Requests : Unannounced(q)' <=> Unannounced(q)
    BY <1>0, <1>5 DEF Unannounced
  <2>3. \A m \in Names : WillShow(m) => WillShow(m)'
    BY <1>0, <1>4, <1>5, SendShows
  <2> QED
    BY <1>3, <1>5, <2>1, <2>2, <2>3
<1>6. ASSUME NEW r \in Requests, Arrive(r) PROVE TuiUpToDate'
  <2>1. PICK l \in {"lock", "done"} : pc' = [pc EXCEPT ![r] = l]
    BY <1>6 DEF Arrive, Goto
  <2>2. /\ UNCHANGED <<loaded, spc, post, chan, active>> /\ pc[r] = "new" /\ post[r] = "idle"
        /\ \A q \in Requests : q # r => req'[q] = req[q]
    BY <1>0, <1>6 DEF Arrive, swapVars, TypeInv, TypeOK
  <2>3. \A q \in Requests : /\ Unannounced(q)' <=> Unannounced(q)
                            /\ post'[q] = "warm" => pc'[q] = "warm"
    BY <1>0, <1>2, <2>1, <2>2 DEF Unannounced
  <2>4. ~Unannounced(r)
    BY <2>2 DEF Unannounced
  <2> QED
    BY <1>3, <1>4, <2>2, <2>3, <2>4
<1>7. ASSUME NEW r \in Requests, Acquire(r) PROVE TuiUpToDate'
  BY <1>0, <1>2, <1>5, <1>7 DEF Acquire, Goto, swapVars, Unannounced
<1>8. ASSUME NEW r \in Requests, Probe(r) \/ Oracle(r) PROVE TuiUpToDate'
  <2>1. PICK l : pc' = [pc EXCEPT ![r] = l] /\ l \in {"oracle", "log_loading", "log_forced",
                                                      "done", "forward"}
    BY <1>8 DEF Probe, Oracle, Return, Goto
  <2>2. UNCHANGED <<loaded, spc, req, post, chan, active>> /\ pc[r] \in {"probe", "oracle"}
    BY <1>8 DEF Probe, Oracle, swapVars
  <2> QED
    BY <1>0, <1>2, <1>5, <2>1, <2>2 DEF Unannounced
<1>27. ASSUME NEW r \in Requests, SmiHangs(r) PROVE TuiUpToDate'
  BY <1>0, <1>2, <1>5, <1>27 DEF SmiHangs, Goto, swapVars, Unannounced
<1>9. ASSUME NEW r \in Requests, LogForced(r) PROVE TuiUpToDate'
  BY <1>0, <1>2, <1>5, <1>9 DEF LogForced, Goto, swapVars, Unannounced
<1>10. ASSUME NEW r \in Requests, LogLoading(r) PROVE TuiUpToDate'
  <2>1. /\ pc[r] = "log_loading" /\ pc' = [pc EXCEPT ![r] = "warm"]
        /\ post'[r] = "warm" /\ \A q \in Requests : q # r => post'[q] = post[q]
    BY <1>0, <1>10, Constants DEF LogLoading, Goto
  <2>2. ~Unannounced(r) /\ ~Unannounced(r)'
    BY <1>0, <2>1 DEF Unannounced
  <2> QED
    BY <1>5, <1>10, <2>1, <2>2 DEF LogLoading, swapVars
<1>11. ASSUME NEW r \in Requests, WarmReply(r) PROVE TuiUpToDate'
  <2>1. /\ pc[r] = "warm" /\ UNCHANGED <<req, loaded, spc, chan, active>> /\ post'[r] = "idle"
        /\ \A q \in Requests : q # r => post'[q] = post[q]
    BY <1>0, <1>11, Constants DEF WarmReply, swapVars
  <2>2. CASE post[r] = "ok" /\ Goto(r, "set_active")
    <3>1. Unannounced(r) /\ Unannounced(r)'
      BY <1>0, <2>1, <2>2 DEF Unannounced, Goto
    <3> QED
      BY <1>5, <2>1, <2>2, <3>1 DEF Goto
  <2>3. CASE post[r] = "failed" /\ Return(r, "err")
    <3>1. pc' = [pc EXCEPT ![r] = "done"]
      BY <2>3 DEF Return, Goto
    <3>2. ~Unannounced(r) /\ ~Unannounced(r)'
      BY <1>0, <2>1, <2>3, <3>1 DEF Unannounced
    <3> QED
      BY <1>5, <2>1, <3>1, <3>2
  <2> QED
    BY <1>11, <2>2, <2>3 DEF WarmReply
<1>12. ASSUME NEW r \in Requests PROVE ~WarmTimeout(r)
  BY DEF WarmTimeout
<1>13. ASSUME NEW r \in Requests, SetActive(r) PROVE TuiUpToDate'
  <2>1. /\ UNCHANGED <<loaded, spc, req, post>> /\ pc[r] = "set_active"
        /\ pc' = [pc EXCEPT ![r] = "log_warm"] /\ Unannounced(r)
        /\ Send(ActiveModelSet(req[r].profile)) /\ req[r].profile \in Names
    BY <1>0, <1>13 DEF SetActive, Goto, swapVars, Unannounced
  <2>2. WillShow(req[r].profile)'
    BY <1>0, <2>1, SendShows
  <2>3. \A q \in Requests : post'[q] = "warm" => pc'[q] = "warm"
    BY <1>0, <1>2, <2>1
  <2>4. \A q \in Requests : Unannounced(q)' => Unannounced(q)
    BY <1>0, <2>1 DEF Unannounced
  <2> QED
    BY <1>2, <2>1, <2>2, <2>3, <2>4 DEF TuiUpToDate
<1>14. ASSUME NEW r \in Requests, LogWarm(r) PROVE TuiUpToDate'
  <2>1. PICK l \in {"done", "forward"} : pc' = [pc EXCEPT ![r] = l]
    BY <1>14 DEF LogWarm, Return, Goto
  <2>2. /\ UNCHANGED <<loaded, spc, req, post, active>> /\ pc[r] = "log_warm" /\ Send(LogLine)
    BY <1>14 DEF LogWarm, swapVars
  <2> QED
    BY <1>0, <1>2, <1>5, <2>1, <2>2 DEF Unannounced
<1>15. ASSUME NEW r \in Requests, Forward(r) PROVE TuiUpToDate'
  BY <1>0, <1>5, <1>15, Constants DEF Forward, Goto, swapVars, Unannounced
<1>16. ASSUME NEW r \in Requests, ForwardReply(r) PROVE TuiUpToDate'
  BY <1>0, <1>5, <1>16, Constants DEF ForwardReply, Goto, swapVars, Unannounced
<1>17. ASSUME NEW r \in Requests, ForwardTimeout(r) PROVE TuiUpToDate'
  BY <1>0, <1>5, <1>17 DEF ForwardTimeout, Goto, swapVars, Unannounced
<1>18. ASSUME NEW r \in Requests, ClientGone(r) PROVE TuiUpToDate'
  <2>1. /\ pc[r] \notin {"warm", "set_active"} /\ pc' = [pc EXCEPT ![r] = "done"]
        /\ UNCHANGED <<loaded, spc, req, post, chan, active>>
    BY <1>18 DEF ClientGone, Goto, swapVars
  <2> QED
    BY <1>0, <1>2, <1>5, <2>1 DEF Unannounced
<1>19. ASSUME NEW s \in Swaps PROVE ~SwapEnter(s) /\ ~SwapTask(s)
  BY <1>2 DEF SwapEnter, SwapTask, SwapReply, SwapTimeout, SwapSend
<1>20. ASSUME UNCHANGED <<pc, req, post, loaded, spc>>,
              \A m \in Names : WillShow(m) => WillShow(m)'
       PROVE  TuiUpToDate'
  BY <1>2, <1>3, <1>20 DEF Unannounced
<1>21. CASE TuiRecv
  BY <1>20, <1>21, RecvShows DEF TuiRecv, ensureVars, swapVars
<1>22. CASE ModelsFetched
  BY <1>20, <1>22, Constants DEF ModelsFetched, WillShow, ensureVars, swapVars
<1>23. CASE UNCHANGED vars
  BY <1>4, <1>20, <1>23 DEF vars
<1>24. ASSUME NEW c \in Callers, RouterServe(c) PROVE TuiUpToDate'
  <2>1. /\ c \in Requests /\ UNCHANGED <<pc, req, spc, chan, active>>
        /\ post[c] \in {"warm", "forward"} /\ post'[c] = "ok"
        /\ \A q \in Requests : q # c => post'[q] = post[q]
    BY <1>0, <1>2, <1>24, Constants DEF RouterServe, Outstanding, ensureVars, swapVars, Callers
  <2>2. loaded' = Load(loaded, req[c].profile) /\ req[c].profile \in Names
    BY <1>24, <2>1, Constants DEF RouterServe, ModelOf
  <2>3. req[c].profile \in Range(loaded')
    BY <1>0, <2>2, LoadKeeps
  <2>4. CASE pc[c] = "warm"
    <3>1. Unannounced(c)'
      BY <2>1, <2>4 DEF Unannounced
    <3>2. \A q \in Requests : Unannounced(q)' => q = c
      BY <2>1, <2>4 DEF Unannounced, Alone, Critical
    <3>3. \A q \in Requests : post'[q] = "warm" => pc'[q] = "warm"
      BY <1>2, <2>1
    <3> QED
      BY <1>2, <2>1, <2>3, <3>1, <3>2, <3>3 DEF TuiUpToDate
  <2>5. CASE pc[c] # "warm"
    <3>1. post[c] = "forward" /\ loaded' = loaded
      BY <1>2, <1>24, <2>1, <2>5 DEF RouterServe
    <3>2. \A q \in Requests : /\ Unannounced(q)' <=> Unannounced(q)
                              /\ post'[q] = "warm" => pc'[q] = "warm"
      BY <1>2, <2>1, <2>5 DEF Unannounced
    <3> QED
      BY <1>3, <1>4, <2>1, <3>1, <3>2
  <2> QED
    BY <2>4, <2>5
<1>25. ASSUME NEW c \in Callers, RouterRefuse(c) PROVE TuiUpToDate'
  <2>1. /\ UNCHANGED <<pc, req, spc, loaded, chan, active>>
        /\ \A q \in Requests : /\ post'[q] = "ok" <=> post[q] = "ok"
                               /\ post'[q] = "warm" => post[q] = "warm"
    BY <1>0, <1>25, Constants DEF RouterRefuse, Outstanding, ensureVars, swapVars
  <2> QED
    BY <1>2, <1>3, <1>4, <2>1 DEF Unannounced
<1>26. CASE RouterRestart
  BY <1>0, <1>2, <1>26, Constants
     DEF RouterRestart, Outstanding, ensureVars, swapVars, TuiUpToDate
<1> QED
  BY <1>6, <1>7, <1>8, <1>9, <1>10, <1>11, <1>12, <1>13, <1>14, <1>15, <1>16, <1>17, <1>18,
     <1>19, <1>21, <1>22, <1>23, <1>24, <1>25, <1>26, <1>27 DEF Next, Handle

\* So the TUI is going to name a resident model, or an ensure is still to tell it so.
LEMMA SightHolds == Spec => []InSight
<1>1. Init => InSight
  BY Constants DEF Init, InSight, TuiUpToDate
<1>2. TypeInv /\ EnsuresSerialized /\ InSight /\ [Next]_vars => InSight'
  BY SightStep DEF EnsuresSerialized
<1>3. Spec => []TypeInv
  BY TypeInit, TypeStep, PTL DEF Spec
<1> QED
  BY <1>1, <1>2, <1>3, Serialized, PTL DEF Spec

\* Headless swaps show in the TUI: once all is quiet, and unless a load came behind its
\* back, the model it names is a resident one (ActiveModelSet, sent before ensure_lock is
\* given back).
THEOREM TuiFollows == Spec => []TuiFollowsEnsures
<1>1. ASSUME InSight PROVE TuiFollowsEnsures
  <2> SUFFICES ASSUME Quiescent, ~disturbed, loaded # <<>> PROVE active \in Range(loaded)
    BY DEF TuiFollowsEnsures
  <2>1. \A r \in Requests : ~Unannounced(r)
    BY DEF Quiescent, Unannounced
  <2>2. PICK m \in Range(loaded) : WillShow(m)
    BY <1>1, <2>1 DEF InSight, TuiUpToDate
  <2>3. Len(chan) = 0
    BY DEF Quiescent
  <2> QED
    BY <2>2, <2>3 DEF WillShow
<1> QED
  BY <1>1, SightHolds, PTL

------------------------------------------------------------------------------
(* That requests come to an end: what is not a matter of fairness.         *)

\* A caller's POST stays with the router until the router or its own handler answers for it.
LEMMA PostedStep == TypeInv /\ PostedFor /\ [Next]_vars => PostedFor'
<1> SUFFICES ASSUME TypeInv, PostedFor, [Next]_vars, NEW q \in Requests
             PROVE  /\ pc'[q] = "warm"  => post'[q] \in {"warm", "ok", "failed"}
                    /\ pc'[q] = "reply" => post'[q] \in {"forward", "ok", "failed"}
  BY DEF PostedFor
<1> DEFINE Goal == /\ pc'[q] = "warm"  => post'[q] \in {"warm", "ok", "failed"}
                   /\ pc'[q] = "reply" => post'[q] \in {"forward", "ok", "failed"}
<1>0. /\ pc[q] = "warm"  => post[q] \in {"warm", "ok", "failed"}
      /\ pc[q] = "reply" => post[q] \in {"forward", "ok", "failed"}
      /\ q \in Callers /\ post \in [Callers -> PostValues] /\ pc \in [Requests -> PcValues]
      /\ Requests \subseteq Callers /\ Swaps \subseteq Callers /\ Requests \cap Swaps = {}
  BY Constants DEF PostedFor, TypeInv, TypeOK
<1> USE <1>0
<1>1. ASSUME NEW r \in Requests, NEW l \in {"lock", "probe", "oracle", "hung", "log_forced", "log_loading",
                 "set_active", "log_warm", "forward", "done"}, Goto(r, l),
             \A c \in Callers \ {r} : post'[c] = post[c]
      PROVE  Goal
  BY <1>1 DEF Goto
<1>2. ASSUME NEW r \in Requests, LogLoading(r) PROVE Goal
  BY <1>2 DEF LogLoading, Goto
<1>3. ASSUME NEW r \in Requests, Forward(r) PROVE Goal
  BY <1>3 DEF Forward, Goto
<1>4. ASSUME NEW r \in Requests, NEW o, Return(r, o), \A c \in Callers \ {r} : post'[c] = post[c]
      PROVE  Goal
  BY <1>1, <1>4 DEF Return
<1>5. ASSUME NEW r \in Requests, Handle(r), ~LogLoading(r), ~Forward(r) PROVE Goal
  BY <1>1, <1>4, <1>5 DEF Handle, Acquire, Probe, Oracle, LogForced, WarmReply,
        WarmTimeout, SetActive, LogWarm, ForwardReply, ForwardTimeout
<1>6. ASSUME NEW r \in Requests, Arrive(r) \/ SmiHangs(r) \/ ClientGone(r) PROVE Goal
  BY <1>1, <1>6 DEF Arrive, SmiHangs, ClientGone
<1>7. ASSUME NEW s \in Swaps, SwapEnter(s) \/ SwapTask(s) PROVE Goal
  BY <1>7 DEF SwapEnter, SwapTask, SwapReply, SwapTimeout, SwapSend, ensureVars
<1>8. ASSUME NEW c \in Callers, RouterServe(c) \/ RouterRefuse(c) PROVE Goal
  BY <1>8 DEF RouterServe, RouterRefuse, Outstanding, ensureVars
<1>9. CASE RouterRestart
  BY <1>9 DEF RouterRestart, Outstanding, ensureVars
<1>10. CASE UNCHANGED <<pc, post>>
  BY <1>10
<1> QED
  BY <1>2, <1>3, <1>5, <1>6, <1>7, <1>8, <1>9, <1>10 DEF Next, TuiRecv, ModelsFetched, vars,
        ensureVars

\* No request is ever stuck, whatever the other requests, the hot-swaps, the clients and the
\* router do or fail to do: its handler can go on, or the one it waits for at `ensure_lock`,
\* or the TUI has an event to take; all but for the oracle's wait for nvidia-smi, which has
\* no timer and keeps the lock (control_api.rs).
THEOREM NobodyStuck == Spec => []SomebodyGoesOn
<1>1. ASSUME TypeInv, EnsuresSerialized, PostedFor PROVE SomebodyGoesOn
  <2> SUFFICES ASSUME NEW r \in Requests, pc[r] \notin {"new", "done"}, chan = <<>>
               PROVE  \/ Ready(r)
                      \/ HeldUp(r)
                      \/ /\ pc[r] = "lock"
                         /\ \E h \in {holder, Head(waiters)} : h \in Requests /\ Ready(h)
    BY DEF SomebodyGoesOn
  <2>1. Len(chan) < ChanCap
    BY Constants
  <2>2. ASSUME NEW h \in Requests, pc[h] \notin {"new", "done", "lock", "hung"} PROVE Ready(h)
    BY <1>1, <2>1, <2>2 DEF TypeInv, TypeOK, PcValues, Critical, PostedFor, Ready
  <2>3. CASE pc[r] = "lock" /\ holder # NoOne
    <3>1. holder \in Requests /\ pc[holder] \in Critical
      BY <1>1, <2>3 DEF TypeInv, TypeOK, EnsuresSerialized, Alone
    <3> QED
      BY <2>2, <2>3, <3>1 DEF Critical, HeldUp
  <2>4. CASE pc[r] = "lock" /\ holder = NoOne
    <3>1. waiters \in Seq(Requests) /\ r \in Range(waiters)
      BY <1>1, <2>4 DEF TypeInv, TypeOK, EnsuresSerialized, InLine
    <3>2. waiters # <<>> /\ Head(waiters) \in Requests /\ Head(waiters) \in Range(waiters)
      BY <3>1 DEF Range
    <3>3. pc[Head(waiters)] = "lock"
      BY <1>1, <3>2 DEF EnsuresSerialized, InLine
    <3> QED
      BY <2>4, <3>2, <3>3 DEF Ready
  <2>5. CASE pc[r] = "hung"
    BY <2>5 DEF HeldUp
  <2> QED
    BY <2>2, <2>3, <2>4, <2>5
<1>2. Init => PostedFor
  BY DEF Init, PostedFor
<1>3. Spec => []PostedFor
  BY <1>2, TypeInit, TypeStep, PostedStep, PTL DEF Spec
<1> QED
  BY <1>1, <1>3, TypeInit, TypeStep, Serialized, PTL DEF Spec

\* Every handler goes through its path once, from `lock` to its answer, and nothing sends it
\* back: with NobodyStuck, all that is left for a request to be answered is that the tasks
\* that can go on are scheduled and that nvidia-smi ends.
THEOREM PathsEnd == Spec => OnlyForward
<1> DEFINE On == /\ \A r \in Requests : pc'[r] = pc[r] \/ Place[pc'[r]] > Place[pc[r]]
                 /\ \A r \in Requests : Handle(r) =>
                        /\ pc'[r] # pc[r]
                        /\ \A q \in Requests \ {r} : pc'[q] = pc[q]
<1>1. ASSUME TypeInv, [Next]_vars PROVE [On]_vars
  <2>0. pc \in [Requests -> PcValues]
    BY <1>1 DEF TypeInv, TypeOK
  <2>1. ASSUME NEW r \in Requests, NEW l \in PcValues, Goto(r, l)
        PROVE  pc'[r] = l /\ \A q \in Requests \ {r} : pc'[q] = pc[q]
    BY <2>0, <2>1 DEF Goto
  <2>2. ASSUME NEW r \in Requests, NEW o, Return(r, o)
        PROVE  pc'[r] \in {"forward", "done"} /\ \A q \in Requests \ {r} : pc'[q] = pc[q]
    BY <2>0, <2>1, <2>2 DEF Return, PcValues
  <2>3. ASSUME NEW r \in Requests, Handle(r)
        PROVE  /\ Place[pc'[r]] > Place[pc[r]]
               /\ \A q \in Requests \ {r} : pc'[q] = pc[q]
    BY <2>1, <2>2, <2>3 DEF Handle, Acquire, Probe, Oracle, LogForced, LogLoading, WarmReply,
        WarmTimeout, SetActive, LogWarm, Forward, ForwardReply, ForwardTimeout, Place, PcValues,
        Critical
  <2>4. ASSUME NEW r \in Requests, Arrive(r) \/ SmiHangs(r) \/ ClientGone(r)
        PROVE  /\ Place[pc'[r]] > Place[pc[r]]
               /\ \A q \in Requests \ {r} : pc'[q] = pc[q]
    BY <2>0, <2>1, <2>4 DEF Arrive, SmiHangs, ClientGone, Place, PcValues, Critical
  <2>5. \A r \in Requests : ~(Place[pc[r]] > Place[pc[r]])
    BY <2>0 DEF Place, PcValues, Critical
  <2>6. CASE UNCHANGED pc
    BY <2>3, <2>5, <2>6
  <2>7. ASSUME NEW r \in Requests, Arrive(r) \/ Handle(r) \/ SmiHangs(r) \/ ClientGone(r)
        PROVE  On
    BY <2>3, <2>4, <2>5, <2>7
  <2> QED
    BY <1>1, <2>6, <2>7 DEF Next, SwapEnter, SwapTask, SwapReply, SwapTimeout, SwapSend,
        TuiRecv, ModelsFetched, RouterServe, RouterRefuse, RouterRestart, vars, ensureVars
<1> QED
  BY <1>1, TypeInit, TypeStep, PTL DEF Spec, OnlyForward

------------------------------------------------------------------------------
(* What the oracle's arithmetic is worth.                                      *)

\* A set of numbers that is not empty has a least member.
LEMMA Least ==
    ASSUME NEW T, T \subseteq Nat, T # {}
    PROVE  \E x \in T : \A y \in T : x <= y
<1> DEFINE Less == {p \in Nat \X Nat : p[1] < p[2]}
<1>1. OpToRel(<, Nat) = Less
  BY DEF OpToRel
<1>2. IsWellFoundedOn(Less, Nat)
  BY <1>1, NatLessThanWellFounded
<1>3. PICK x \in T : \A y \in T : <<y, x>> \notin Less
  BY <1>2, WFMin
<1>4. \A y \in T : y \in Nat /\ x \in Nat /\ ~(y < x)
  BY <1>3
<1> QED
  BY <1>3, <1>4

\* The least and the greatest of what is asked of the estimates.
LEMMA MinIs ==
    ASSUME NEW T, T \subseteq Nat, T # {}
    PROVE  TheOracle!Min(T) \in T /\ \A y \in T : TheOracle!Min(T) <= y
<1>1. \E x \in T : \A y \in T : x <= y
  BY Least
<1> QED
  BY <1>1 DEF TheOracle!Min

\* A hint counts only if it is for more than the two GB that count anyway.
LEMMA MaxIs ==
    ASSUME NEW n \in Nat
    PROVE  TheOracle!Max({20, n}) = IF n >= 20 THEN n ELSE 20
<1>1. \E x \in {20, n} : \A y \in {20, n} : x >= y
  OBVIOUS
<1>2. /\ TheOracle!Max({20, n}) \in {20, n}
      /\ TheOracle!Max({20, n}) >= 20 /\ TheOracle!Max({20, n}) >= n
  BY <1>1 DEF TheOracle!Max
<1> QED
  BY <1>2

\* A row of a table.
LEMMA TableMember ==
    ASSUME NEW S, NEW t \in Seq(S), NEW i \in 1..Len(t)
    PROVE  t[i] \in S
OBVIOUS

\* A table gives bits, whichever of its rows is found.
LEMMA BitsType ==
    ASSUME NEW Marks, NEW table \in Seq([marks : SUBSET Marks, bits : Nat]), NEW f, NEW default \in Nat
    PROVE  TheOracle!Bits(table, f, default) \in Nat
<1> DEFINE I == {i \in 1..Len(table) : table[i].marks \cap f.marks # {}}
           row == IF I # {} THEN TheOracle!Min(I) ELSE 0
<1>1. row = 0 \/ row \in 1..Len(table)
  <2>1. I \subseteq Nat /\ I \subseteq 1..Len(table)
    OBVIOUS
  <2> HIDE DEF I
  <2> QED
    BY <2>1, MinIs
<1>2. TheOracle!Bits(table, f, default) = IF row = 0 THEN default ELSE table[row].bits
  BY DEF TheOracle!Bits, TheOracle!SelectInSeq
<1> HIDE DEF row
<1>3. ASSUME NEW i \in 1..Len(table) PROVE table[i].bits \in Nat
  <2> DEFINE Row == [marks : SUBSET Marks, bits : Nat]
  <2>1. table[i] \in Row
    <3> HIDE DEF Row, I
    <3> QED
      BY TableMember DEF Row
  <2> DEFINE r == table[i]
  <2> HIDE DEF r
  <2>2. r \in Row
    BY <2>1 DEF r
  <2>3. r.bits \in Nat
    BY <2>2
  <2> QED
    BY <2>3 DEF r
<1> QED
  BY <1>1, <1>2, <1>3

\* So every file has its bits per weight.
LEMMA BpwType ==
    ASSUME NEW f
    PROVE  TheOracle!Bpw(f) \in Nat
<1> DEFINE table ==
       << [marks |-> {"Q2_K"}, bits |-> 260], [marks |-> {"Q3_K", "IQ3"}, bits |-> 350],
          [marks |-> {"IQ4_XS"}, bits |-> 430], [marks |-> {"Q4_K", "IQ4"}, bits |-> 485],
          [marks |-> {"Q5_"}, bits |-> 550], [marks |-> {"Q6_K"}, bits |-> 660],
          [marks |-> {"Q8_0"}, bits |-> 850], [marks |-> {"F16"}, bits |-> 1600] >>
<1> DEFINE Marks == {"Q2_K", "Q3_K", "IQ3", "IQ4_XS", "Q4_K", "IQ4", "Q5_", "Q6_K", "Q8_0", "F16"}
           Row == [marks : SUBSET Marks, bits : Nat]
<1>1. table \in Seq(Row)
  <2> DEFINE row(marks, bits) == [marks |-> marks, bits |-> bits]
  <2>1. \A marks \in SUBSET Marks, bits \in Nat : row(marks, bits) \in Row
    OBVIOUS
  <2>2. \A a, b, c, d, e, g, h, i \in Row : <<a, b, c, d, e, g, h, i>> \in Seq(Row)
    <3> HIDE DEF Row, table
    <3> QED
      OBVIOUS
  <2>3. table = << row({"Q2_K"}, 260), row({"Q3_K", "IQ3"}, 350), row({"IQ4_XS"}, 430),
                   row({"Q4_K", "IQ4"}, 485), row({"Q5_"}, 550), row({"Q6_K"}, 660),
                   row({"Q8_0"}, 850), row({"F16"}, 1600) >>
    OBVIOUS
  <2>4. /\ {"Q2_K"} \in SUBSET Marks /\ {"Q3_K", "IQ3"} \in SUBSET Marks
        /\ {"IQ4_XS"} \in SUBSET Marks /\ {"Q4_K", "IQ4"} \in SUBSET Marks
        /\ {"Q5_"} \in SUBSET Marks /\ {"Q6_K"} \in SUBSET Marks
        /\ {"Q8_0"} \in SUBSET Marks /\ {"F16"} \in SUBSET Marks
    OBVIOUS
  <2> HIDE DEF Row, row, table
  <2>5. /\ row({"Q2_K"}, 260) \in Row /\ row({"Q3_K", "IQ3"}, 350) \in Row
        /\ row({"IQ4_XS"}, 430) \in Row /\ row({"Q4_K", "IQ4"}, 485) \in Row
        /\ row({"Q5_"}, 550) \in Row /\ row({"Q6_K"}, 660) \in Row
        /\ row({"Q8_0"}, 850) \in Row /\ row({"F16"}, 1600) \in Row
    BY <2>1, <2>4
  <2> QED
    BY <2>2, <2>3, <2>5
<1>2. TheOracle!Bpw(f) = TheOracle!Bits(table, f, 500)
  BY DEF TheOracle!Bpw
<1> HIDE DEF table, Marks
<1> QED
  BY <1>1, <1>2, BitsType

\* What a plain name is.
LEMMA PlainIs ==
    ASSUME NEW f, TheOracle!Plain(f)
    PROVE  f.size \in TheOracle!WholeSizes /\ ~f.experts
BY Zenon DEF TheOracle!Plain

\* Sizes are in tenths of billions.
LEMMA Tenth == ASSUME NEW n \in Nat PROVE (10 * n) % 10 = 0 /\ (10 * n) \div 10 = n
OBVIOUS

\* A size that stands first is the one that counts.
LEMMA PlainParams ==
    ASSUME NEW f \in TheOracle!FileNames, TheOracle!Plain(f)
    PROVE  TheOracle!Params(f) \in 1..1999 /\ f.size = 10 * TheOracle!Params(f)
<1> DEFINE s == f.size
           w == TheOracle!Words(f)
           I == {i \in 1..Len(w) : w[i] \in 1..1999}
           first == IF I # {} THEN TheOracle!Min(I) ELSE 0
<1>1. f.later \in Seq(Nat)
  BY DEF TheOracle!FileNames
<1>2. s \in TheOracle!WholeSizes /\ ~f.experts
  BY PlainIs, Zenon
<1>3. w = (IF f.experts \/ s = 0 THEN <<0>>
           ELSE IF s % 10 = 0 THEN <<s \div 10>> ELSE <<0, s % 10>>) \o f.later
  BY Zenon DEF TheOracle!Words
<1>4. TheOracle!Params(f) = IF first = 0 THEN 8 ELSE w[first]
  BY DEF TheOracle!Params, TheOracle!SelectInSeq
<1> HIDE DEF s, w, first
<1> DEFINE b == s \div 10
<1>5. b \in 1..1999 /\ s = 10 * b /\ s # 0 /\ s % 10 = 0
  <2>1. PICK n \in 1..1999 : s = 10 * n
    BY <1>2 DEF TheOracle!WholeSizes
  <2>2. n \in Nat /\ n >= 1 /\ n <= 1999
    OBVIOUS
  <2>3. s % 10 = 0 /\ b = n
    BY <2>1, <2>2, Tenth
  <2> HIDE DEF b
  <2> QED
    BY <2>1, <2>2, <2>3
<1>6. w = <<b>> \o f.later
  <2>1. s # 0 /\ s % 10 = 0
    BY <1>5
  <2> QED
    BY <1>2, <1>3, <2>1, Zenon
<1> HIDE DEF b
<1>7. w \in Seq(Nat) /\ Len(w) >= 1 /\ w[1] = b
  <2> DEFINE later == f.later
  <2> HIDE DEF later
  <2>1. later \in Seq(Nat) /\ w = <<b>> \o later /\ b \in Nat
    BY <1>1, <1>5, <1>6 DEF later
  <2> QED
    BY <2>1
<1>8. 1 \in I /\ I \subseteq Nat /\ \A i \in I : i >= 1
  <2>1. \A i \in I : i \in Nat /\ i >= 1
    BY <1>7
  <2> DEFINE counted == 1..1999
  <2>2. b \in counted
    BY <1>5
  <2> HIDE DEF counted
  <2>3. 1 \in 1..Len(w) /\ w[1] \in counted
    BY <1>7, <2>2
  <2>4. 1 \in {i \in 1..Len(w) : w[i] \in counted}
    BY <2>3
  <2>5. 1 \in I
    BY <2>4 DEF counted
  <2> HIDE DEF I
  <2> QED
    BY <2>1, <2>5
<1> HIDE DEF I
<1>9. first = 1
  <2>1. TheOracle!Min(I) \in I /\ TheOracle!Min(I) <= 1
    BY <1>8, MinIs
  <2>2. TheOracle!Min(I) \in Nat /\ TheOracle!Min(I) >= 1
    BY <1>8, <2>1
  <2>3. TheOracle!Min(I) = 1
    BY <2>1, <2>2
  <2> QED
    BY <1>8, <2>3 DEF first
<1>10. TheOracle!Params(f) = b
  BY <1>4, <1>7, <1>9
<1> QED
  BY <1>5, <1>10 DEF s

\* Rounding is to the nearest.
LEMMA RoundsSplit ==
    ASSUME NEW a \in Nat, NEW q, q = TheOracle!RoundDiv(a, 1600)
    PROVE  q \in Nat /\ 3200 * q <= 2 * a + 1600 /\ 3200 * q > 2 * a - 1600
BY DEF TheOracle!RoundDiv

\* A hint is at most one number.
LEMMA HintIs ==
    ASSUME NEW hint, hint = {} \/ \E n \in hint : n \in Nat /\ hint = {n}
    PROVE  TheOracle!The(hint, 0) \in Nat
<1>1. ASSUME NEW n \in Nat, hint = {n} PROVE TheOracle!The(hint, 0) \in Nat
  <2>1. hint # {} /\ (CHOOSE x \in hint : TRUE) \in hint
    BY <1>1
  <2>2. TheOracle!The(hint, 0) = CHOOSE x \in hint : TRUE
    BY <2>1 DEF TheOracle!The
  <2> QED
    BY <1>1, <2>1, <2>2
<1>2. CASE hint = {}
  BY <1>2 DEF TheOracle!The
<1> QED
  BY <1>1, <1>2

\* What the oracle makes of a model without hints, kept whole, and what it takes on top, in
\* VRAM and in RAM, of one with its experts in RAM.
Whole(f) == TheOracle!Estimate(f, FALSE, {}, {}).vram
Extra(hint) == TheOracle!Max({20, TheOracle!The(hint, 0)})
SplitVram(f, hint) == TheOracle!Estimate(f, TRUE, hint, {}).vram
SplitRam(f, hint) == TheOracle!Estimate(f, TRUE, hint, {}).ram
Billions(f) == TheOracle!Params(f) * TheOracle!Bpw(f)

\* A model kept whole takes its weights and a margin, rounded once.
LEMMA WholeIs ==
    ASSUME NEW f
    PROVE  Whole(f) = TheOracle!RoundDiv(Billions(f) + 80 * 15, 80)
BY DEF TheOracle!Estimate, Whole, Billions

\* One with its experts in RAM takes a part of its weights there.
LEMMA SplitIs ==
    ASSUME NEW f, NEW hint
    PROVE  /\ SplitVram(f, hint) = TheOracle!RoundDiv(3 * Billions(f) + 1600 * Extra(hint), 1600)
           /\ SplitRam(f, hint) = TheOracle!RoundDiv(17 * Billions(f), 1600)
BY DEF TheOracle!Estimate, SplitVram, SplitRam, Extra, Billions

\* The weights of a plain file, in both units.
LEMMA PlainWeights ==
    ASSUME NEW f \in TheOracle!FileNames, TheOracle!Plain(f)
    PROVE  Billions(f) \in Nat /\ f.size * TheOracle!Bpw(f) = 10 * Billions(f)
<1> DEFINE p == TheOracle!Params(f)
           b == TheOracle!Bpw(f)
<1>1. p \in Nat /\ f.size = 10 * p
  BY PlainParams, SMTT(30)
<1>2. b \in Nat
  BY BpwType
<1>3. f.size * b = (10 * p) * b
  BY <1>1
<1> HIDE DEF p, b
<1>4. p * b \in Nat /\ (10 * p) * b = 10 * (p * b)
  BY <1>1, <1>2
<1> QED
  BY <1>3, <1>4 DEF p, b, Billions

\* What a profile may hint at.
IsHint(hint) == hint = {} \/ \E n \in hint : n \in Nat /\ hint = {n}

\* For every file that names a whole size first the estimate covers the weights and what
\* comes on top of them, ...
LEMMA CoversWhole ==
    ASSUME NEW f \in TheOracle!FileNames, TheOracle!Plain(f)
    PROVE  /\ Whole(f) \in Nat /\ 80 * Whole(f) <= Billions(f) + 1240
           /\ 800 * (Whole(f) - 15) >= 10 * Billions(f) - 400
           /\ TheOracle!WholeCovers(f)
<1> DEFINE w == Billions(f)
           whole == Whole(f)
           weights == f.size * TheOracle!Bpw(f)
<1>1. w \in Nat /\ weights = 10 * w
  BY PlainWeights
<1>2. whole = TheOracle!RoundDiv(w + 80 * 15, 80)
  BY WholeIs
<1> HIDE DEF w, whole, weights
<1>3. whole = (2 * (w + 1200) + 80) \div 160
  BY <1>1, <1>2 DEF TheOracle!RoundDiv
<1>4. whole \in Nat /\ 160 * whole <= 2 * (w + 1200) + 80 /\ 160 * whole > 2 * (w + 1200) - 80
  BY <1>1, <1>3
<1>5. 800 * (whole - 15) >= 10 * w - 400 /\ 80 * whole <= w + 1240
  BY <1>1, <1>3, <1>4
<1>6. 800 * (whole - 15) >= weights - 400
  BY <1>1, <1>5
<1>7. TheOracle!WholeCovers(f)
  BY <1>6 DEF TheOracle!WholeCovers, whole, Whole, weights
<1> QED
  BY <1>4, <1>5, <1>7 DEF whole, w

\* ... and for every hint does so with the experts in RAM, where no memory is lost.
LEMMA CoversSplit ==
    ASSUME NEW f \in TheOracle!FileNames, TheOracle!Plain(f), NEW hint, IsHint(hint)
    PROVE  TheOracle!SplitCovers(f, hint)
<1> DEFINE w == Billions(f)
           whole == Whole(f)
           weights == f.size * TheOracle!Bpw(f)
           v == SplitVram(f, hint)
           r == SplitRam(f, hint)
           m == Extra(hint)
<1>1. m \in Nat /\ m >= 20
  <2>1. TheOracle!The(hint, 0) \in Nat
    BY HintIs DEF IsHint
  <2> QED
    BY <2>1, MaxIs DEF Extra
<1>2. w \in Nat /\ weights = 10 * w
  BY PlainWeights
<1>3. whole \in Nat /\ 80 * whole <= w + 1240
  BY CoversWhole
<1>4. v = TheOracle!RoundDiv(3 * w + 1600 * m, 1600) /\ r = TheOracle!RoundDiv(17 * w, 1600)
  BY SplitIs
<1> HIDE DEF w, whole, weights, v, r, m
<1>5. 3 * w + 1600 * m \in Nat /\ 17 * w \in Nat
  BY <1>1, <1>2
<1>6. v \in Nat /\ 3200 * v > 2 * (3 * w + 1600 * m) - 1600
  BY <1>4, <1>5, RoundsSplit
<1>7. r \in Nat /\ 3200 * r > 2 * (17 * w) - 1600
  BY <1>4, <1>5, RoundsSplit
<1>8. v + r >= whole /\ 800 * (v + r - m) >= weights - 800
  BY <1>1, <1>2, <1>3, <1>6, <1>7
<1> QED
  BY <1>8 DEF TheOracle!SplitCovers, v, r, m, whole, weights, SplitVram, SplitRam, Extra, Whole

\* So do the estimates the oracle is asked for, ...
LEMMA EstimatesHold == EstimatesCover
<1>1. \A f \in Files : f \in TheOracle!FileNames
  BY FilesAssumption
<1>2. \A hint \in Hints : IsHint(hint)
  BY FilesAssumption DEF IsHint
<1> QED
  BY <1>1, <1>2, CoversWhole, CoversSplit DEF EstimatesCover, TheOracle!EstimatesCover

\* ... and what passes the oracle by its name has the room.
LEMMA FitsWeights ==
    ASSUME NEW p \in ByName, Fits(p)
    PROVE  Weights[p] <= 800 * (TotalVram - ReserveVram)
<1> DEFINE f == File[p]
           weights == f.size * TheOracle!Bpw(f)
           need == NeedVram[p]
<1>1. p \in Profiles /\ TheOracle!Plain(f) /\ need = Whole(f)
  BY DEF ByName, Whole
<1>2. f \in TheOracle!FileNames
  BY <1>1, FilesAssumption
<1>3. Weights[p] = weights
  BY DEF Weights
<1>4. need + ReserveVram <= TotalVram /\ TotalVram \in Nat /\ ReserveVram \in Nat
  BY NumbersAssumption DEF Fits, OraclePasses
<1> HIDE DEF f, need
<1>5. /\ Billions(f) \in Nat /\ weights = 10 * Billions(f)
      /\ need \in Nat /\ 800 * (need - 15) >= 10 * Billions(f) - 400
  BY <1>1, <1>2, PlainWeights, CoversWhole
<1> HIDE DEF weights
<1>6. weights <= 800 * (TotalVram - ReserveVram)
  BY <1>4, <1>5
<1> QED
  BY <1>3, <1>6

\* What the oracle lets in fits: no interleaving, timeout or restart leaves a model resident
\* that nobody forced or hot-swapped and whose weights, as its file names them, are more
\* than the card has beside the reserve; and the estimates cover the weights, for every
\* file that names a whole size first, every quantization, placement and hint.
THEOREM AdmittedFits == Spec => []AdmittedFit
<1>1. OversizedOnlyByBypass => AdmittedFit
  BY EstimatesHold, FitsWeights DEF OversizedOnlyByBypass, AdmittedFit
<1> QED
  BY <1>1, OracleGuards, PTL

------------------------------------------------------------------------------
\* The invariant the others rest on, as the model checker sees it: types, lock, oracle,
\* what each request was told and what the TUI will show, along every path of the handlers.
THEOREM Inductive == Spec => []IndInv
<1>1. GateInv /\ EnsuresSerialized /\ ToldSoFar /\ InSight => IndInv
  BY DEF GateInv, TypeInv, IndInv
<1>2. Spec => []ToldSoFar
  BY TypeInit, TypeStep, ToldInit, ToldStep, PTL DEF Spec
<1> QED
  BY <1>1, <1>2, GateHolds, Serialized, SightHolds, PTL
=============================================================================
