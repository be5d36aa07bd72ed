------------------------- MODULE InterrogatorProofs ------------------------
(***************************************************************************)
(* Proofs about Interrogator for any number of strikes, tokens and any     *)
(* channel capacity: what the deck shows of one reply is in order however  *)
(* strikes overlap, and without overlap it is the whole reply.             *)
(***************************************************************************)
EXTENDS Interrogator, SequenceTheorems, TLAPS

Origins == {"measured", "estimated", "n/a"}
Events == [kind : {"start", "error"}, strike : All]
          \cup [kind : {"chunk"}, strike : All, token : 1..Tokens]
          \cup [kind : {"end"}, strike : All, source : Origins]
Lines == [strike : 0..Strikes, token : 0..Tokens]

Kinds ==
    /\ chan \in Seq(Events)
    /\ out \in [All -> Seq(Events)]
    /\ deck \in Seq(Lines)
    /\ metrics \in [of : 0..Strikes, source : Origins]

Failed(s) == fate[s] \in {"refused", "cut"}

\* Where a strike is tells what it has read and what became of it, and what waits to
\* be sent is what its last step left.
PlaceKnown(s) ==
    /\ at[s] = "none" <=> s > fired
    /\ at[s] \in {"none", "asking"} => got[s] = 0 /\ ~first[s] /\ out[s] = <<>>
    /\ at[s] \in {"none", "asking", "reading"} => fate[s] = "open"
    /\ at[s] \in {"ending", "done"} => fate[s] # "open"
    /\ at[s] = "done" => out[s] = <<>>
    /\ ~first[s] => got[s] = 0
    /\ at[s] = "reading" =>
          \/ out[s] = <<>>
          \/ first[s] /\ out[s] = <<ApiStreamStart(s)>> /\ got[s] = 0
          \/ first[s] /\ out[s] = <<ApiStreamStart(s), ApiStreamChunk(s, got[s])>> /\ got[s] = 1
          \/ first[s] /\ out[s] = <<ApiStreamChunk(s, got[s])>> /\ got[s] > 0
    /\ at[s] = "ending" =>
          \/ out[s] = <<>>
          \/ \E o \in Origins :
                \/ Failed(s) /\ out[s] = <<Error(s), ApiStreamEnd(s, o)>>
                \/ out[s] = <<ApiStreamEnd(s, o)>>

\* What carries a part of a reply has a number: a token its own, a failure the next
\* after the last token.
Part(e) == e.kind \in {"chunk", "error"}
Number(g, e) == IF e.kind = "chunk" THEN e.token ELSE g[e.strike] + 1
LineNumber(g, x) == IF x.token # 0 THEN x.token ELSE g[x.strike] + 1

\* How many parts of the reply there are, and how many have been sent.
Parts(s) == IF Failed(s) THEN got[s] + 1 ELSE got[s]
Sent(s) == IF \E j \in DOMAIN out[s] : Part(out[s][j]) THEN Parts(s) - 1 ELSE Parts(s)

OnTheWay(s, n) == \E i \in DOMAIN chan : Part(chan[i]) /\ chan[i].strike = s /\ Number(got, chan[i]) = n
OnTheDeck(s, n) == \E i \in DOMAIN deck : deck[i].strike = s /\ LineNumber(got, deck[i]) = n

\* Only what was fired has anything under way, and only the failed fail.
KnownEvent(e) ==
    /\ e.strike <= fired
    /\ Part(e) => Number(got, e) \in 1..Sent(e.strike)
    /\ e.kind \in {"start", "chunk"} => first[e.strike]
    /\ e.kind = "chunk" => e.token <= got[e.strike]
    /\ e.kind = "error" => Failed(e.strike)
    /\ e.kind = "end" => fate[e.strike] # "open"
KnownLine(x) ==
    /\ LineNumber(got, x) \in 1..Sent(x.strike)
    /\ x.token <= got[x.strike]
    /\ x.token = 0 => Failed(x.strike)
Known == /\ \A i \in DOMAIN chan : KnownEvent(chan[i])
         /\ \A i \in DOMAIN deck : deck[i].strike # 0 => KnownLine(deck[i])

\* The parts of a reply pass the channel in order and without a gap, ...
ChannelInOrder ==
    /\ \A i, j \in DOMAIN chan :
          i < j /\ Part(chan[i]) /\ Part(chan[j]) /\ chan[i].strike = chan[j].strike
             => Number(got, chan[i]) < Number(got, chan[j])
    /\ \A i \in DOMAIN chan :
          Part(chan[i]) /\ Number(got, chan[i]) < Sent(chan[i].strike)
             => OnTheWay(chan[i].strike, Number(got, chan[i]) + 1)

\* ... and what the deck has of it comes before what is on the way.
DeckInOrder ==
    /\ \A i, j \in DOMAIN deck :
          i < j /\ deck[i].strike # 0 /\ deck[i].strike = deck[j].strike
             => LineNumber(got, deck[i]) < LineNumber(got, deck[j])
    /\ \A i \in DOMAIN deck, j \in DOMAIN chan :
          Part(chan[j]) /\ deck[i].strike = chan[j].strike => LineNumber(got, deck[i]) < Number(got, chan[j])
    /\ \A i \in DOMAIN deck :
          deck[i].strike # 0 /\ LineNumber(got, deck[i]) < Sent(deck[i].strike)
             => \/ OnTheDeck(deck[i].strike, LineNumber(got, deck[i]) + 1)
                \/ OnTheWay(deck[i].strike, LineNumber(got, deck[i]) + 1)

\* Numbers are of a strike that has them.
Fits(s, source) == /\ source = "measured" => timed[s]
                   /\ source = "estimated" => first[s] /\ got[s] > 0
NumbersFit ==
    /\ \A i \in DOMAIN chan : chan[i].kind = "end" => Fits(chan[i].strike, chan[i].source)
    /\ \A s \in All : \A j \in DOMAIN out[s] : out[s][j].kind = "end" => Fits(s, out[s][j].source)
    /\ metrics.of # 0 => Fits(metrics.of, metrics.source)

\* A strike that is alone: the deck has the first parts of its reply, each in its
\* place, the channel has the next, and the start of the reply comes before any.
StartToCome(s) == \/ \E i \in DOMAIN chan : chan[i].kind = "start"
                  \/ \E j \in DOMAIN out[s] : out[s][j].kind = "start"
EndToCome(s) == \/ \E i \in DOMAIN chan : chan[i].kind = "end"
                \/ \E j \in DOMAIN out[s] : out[s][j].kind = "end"
Waiting == deck = <<Sending>>
Shown == IF Waiting THEN 0 ELSE Len(deck)

AloneKnown(s) ==
    /\ \A r \in All : r < s => at[r] = "done"
    /\ \A i \in DOMAIN chan : chan[i].strike = s
    /\ \A i \in DOMAIN chan : chan[i].kind = "start" => i = 1
    /\ \A j \in DOMAIN out[s] : out[s][j].kind = "start" => chan = <<>>
    /\ StartToCome(s) => Waiting
    /\ Waiting /\ first[s] => StartToCome(s)
    /\ deck = <<>> => first[s]
    /\ ~Waiting => \A i \in DOMAIN deck : deck[i].strike = s /\ LineNumber(got, deck[i]) = i
    /\ \A i \in DOMAIN chan : Part(chan[i]) => Shown < Number(got, chan[i])
    /\ Shown < Sent(s) => OnTheWay(s, Shown + 1)
    /\ at[s] \in {"ending", "done"} => EndToCome(s) \/ metrics.of = s

Alone == ~overlapped /\ fired > 0 => AloneKnown(fired)

IndInv == /\ TypeOK /\ Kinds /\ (\A s \in All : PlaceKnown(s))
          /\ Known /\ ChannelInOrder /\ DeckInOrder /\ NumbersFit /\ Alone

------------------------------------------------------------------------------
(* Lemmas about constants, sequences and events.                           *)

\* The bounds, in the form the steps below use.
LEMMA Constants == Strikes \in Nat /\ Tokens \in Nat /\ Capacity \in Nat \ {0}
                   /\ All = 1..Strikes /\ All \subseteq Nat
BY BoundsAssumption DEF All

\* What stands in a sequence is one of its kind, at a place within it.
LEMMA Member ==
    ASSUME NEW E, NEW c \in Seq(E), NEW i \in DOMAIN c
    PROVE  c[i] \in E /\ i \in Nat /\ 1 <= i /\ i <= Len(c) /\ Len(c) \in Nat
OBVIOUS

\* What joins a sequence comes last, ...
LEMMA Joined ==
    ASSUME NEW E, NEW c \in Seq(E), NEW e \in E
    PROVE  /\ Append(c, e) \in Seq(E) /\ Len(Append(c, e)) = Len(c) + 1 /\ Len(c) \in Nat
           /\ \A i \in DOMAIN c : i \in DOMAIN Append(c, e) /\ Append(c, e)[i] = c[i]
           /\ \A i \in DOMAIN Append(c, e) :
                \/ i \in DOMAIN c /\ i < Len(c) + 1 /\ Append(c, e)[i] = c[i]
                \/ i = Len(c) + 1 /\ Append(c, e)[i] = e
           /\ Len(c) + 1 \in DOMAIN Append(c, e) /\ Append(c, e)[Len(c) + 1] = e
           /\ Append(c, e) # <<>>
OBVIOUS

\* ... and what leaves it was first.
LEMMA Left ==
    ASSUME NEW E, NEW c \in Seq(E), c # <<>>
    PROVE  /\ Tail(c) \in Seq(E) /\ Len(Tail(c)) = Len(c) - 1
           /\ \A i \in DOMAIN Tail(c) :
                i \in Nat /\ i + 1 \in DOMAIN c /\ 1 < i + 1 /\ Tail(c)[i] = c[i + 1]
           /\ \A i \in DOMAIN c : i # 1 => \E k \in DOMAIN Tail(c) : i = k + 1
           /\ 1 \in DOMAIN c /\ Head(c) = c[1] /\ Head(c) \in E /\ Len(c) \in Nat
<1>1. Len(c) \in Nat /\ Len(c) # 0 /\ DOMAIN c = 1..Len(c) OBVIOUS
<1>2. Tail(c) \in Seq(E) /\ Len(Tail(c)) = Len(c) - 1 BY <1>1
<1>3. \A i \in 1..Len(c) - 1 : Tail(c)[i] = c[i + 1] BY <1>1
<1>4. DOMAIN Tail(c) = 1..Len(c) - 1 BY <1>2
<1>5. Head(c) = c[1] /\ c[1] \in E /\ 1 \in DOMAIN c BY <1>1
<1>6. ASSUME NEW i \in DOMAIN c, i # 1 PROVE \E k \in DOMAIN Tail(c) : i = k + 1
  <2>1. i - 1 \in DOMAIN Tail(c) /\ i = (i - 1) + 1 BY <1>1, <1>4, <1>6
  <2> QED BY <2>1
<1> QED BY <1>1, <1>2, <1>3, <1>4, <1>5, <1>6

\* The kind of an event tells what it is and whose.
LEMMA EventKinds ==
    /\ \A e \in Events : /\ e.strike \in All /\ e.kind \in {"start", "error", "chunk", "end"}
                         /\ e.kind = "chunk" => e.token \in 1..Tokens
                         /\ e.kind = "end" => e.source \in Origins
    /\ \A s \in All : /\ ApiStreamStart(s) \in Events /\ ApiStreamStart(s).kind = "start"
                      /\ ApiStreamStart(s).strike = s
                      /\ Error(s) \in Events /\ Error(s).kind = "error" /\ Error(s).strike = s
    /\ \A s \in All, o \in Origins :
          /\ ApiStreamEnd(s, o) \in Events /\ ApiStreamEnd(s, o).kind = "end"
          /\ ApiStreamEnd(s, o).strike = s /\ ApiStreamEnd(s, o).source = o
    /\ \A s \in All, i \in 1..Tokens :
          /\ ApiStreamChunk(s, i) \in Events /\ ApiStreamChunk(s, i).kind = "chunk"
          /\ ApiStreamChunk(s, i).strike = s /\ ApiStreamChunk(s, i).token = i
BY DEF Events, ApiStreamStart, ApiStreamChunk, ApiStreamEnd, Error

\* So do the lines of the deck.
LEMMA LineKinds ==
    /\ \A x \in Lines : x.strike \in 0..Strikes /\ x.token \in 0..Tokens
    /\ Sending \in Lines /\ Sending.strike = 0
    /\ \A s \in All : /\ Failure(s) \in Lines /\ Failure(s).strike = s /\ Failure(s).token = 0
                      /\ \A i \in 1..Tokens : /\ Token(s, i) \in Lines /\ Token(s, i).strike = s
                                              /\ Token(s, i).token = i
BY Constants DEF Lines, Sending, Failure, Token

\* How many parts have been sent is a number, and no more than the reply has.
LEMMA SentKnown ==
    ASSUME IndInv, NEW s \in All
    PROVE  Sent(s) \in Nat /\ got[s] \in 0..Tokens /\ Sent(s) <= got[s] + 1
           /\ (~Failed(s) => Sent(s) <= got[s])
<1>1. got[s] \in 0..Tokens /\ got[s] \in Nat
  BY Constants DEF IndInv, TypeOK
<1>2. PlaceKnown(s)
  BY DEF IndInv
<1>3. CASE \E j \in DOMAIN out[s] : Part(out[s][j])
  <2>1. Failed(s) \/ got[s] > 0
    BY <1>1, <1>2, <1>3, EventKinds DEF PlaceKnown, Part, IndInv, TypeOK
  <2> QED
    BY <1>1, <1>3, <2>1 DEF Sent, Parts
<1>4. CASE ~\E j \in DOMAIN out[s] : Part(out[s][j])
  BY <1>1, <1>4 DEF Sent, Parts
<1> QED
  BY <1>1, <1>3, <1>4

\* Nothing has been sent or shown yet.
LEMMA InitInv == Init => IndInv
<1> SUFFICES ASSUME Init PROVE IndInv
  OBVIOUS
<1> USE Constants DEF Init
<1>1. TypeOK
  <2>1. Len(chan) <= Capacity
    OBVIOUS
  <2>2. fired \in 0..Strikes /\ metrics.of \in 0..Strikes /\ got \in [All -> 0..Tokens]
    BY DEF NoMetrics
  <2>3. /\ first \in [All -> BOOLEAN] /\ timed \in [All -> BOOLEAN] /\ overlapped \in BOOLEAN
        /\ at \in [All -> {"none", "asking", "reading", "ending", "done"}]
        /\ fate \in [All -> {"open", "refused", "whole", "cut"}]
    OBVIOUS
  <2> QED
    BY <2>1, <2>2, <2>3 DEF TypeOK
<1>2. Kinds
  BY DEF Kinds, NoMetrics, Origins
<1>3. \A s \in All : PlaceKnown(s)
  BY DEF PlaceKnown
<1> QED
  BY <1>1, <1>2, <1>3
     DEF IndInv, Known, ChannelInOrder, DeckInOrder, NumbersFit, NoMetrics, Alone

------------------------------------------------------------------------------
(* What a strike does before anything of it is sent.                       *)

\* A reply only grows before it fails, and a failure is for good: the numbers of what
\* was sent stay what they are.
Grows ==
    \A r \in All : /\ got'[r] \in Nat /\ got[r] <= got'[r]
                   /\ (first[r] => first'[r]) /\ (timed[r] => timed'[r])
                   /\ fate[r] # "open" => got'[r] = got[r] /\ fate'[r] = fate[r]
                   /\ Sent(r)' = Sent(r)

\* When more of a reply has been sent, the parts already under way keep their numbers.
LEMMA SameNumbers ==
    ASSUME IndInv, Grows
    PROVE  /\ \A i \in DOMAIN chan : Part(chan[i]) => Number(got', chan[i]) = Number(got, chan[i])
           /\ \A i \in DOMAIN deck : deck[i].strike # 0 =>
                LineNumber(got', deck[i]) = LineNumber(got, deck[i])
<1>1. ASSUME NEW i \in DOMAIN chan, Part(chan[i])
      PROVE  Number(got', chan[i]) = Number(got, chan[i])
  <2>1. chan[i] \in Events
    BY <1>1, Member DEF IndInv, Kinds
  <2>2. chan[i].strike \in All
    BY <2>1, EventKinds
  <2>3. chan[i].kind = "error" => fate[chan[i].strike] # "open"
    BY <1>1 DEF IndInv, Known, KnownEvent, Failed
  <2> QED
    BY <1>1, <2>2, <2>3 DEF Number, Part, Grows
<1>2. ASSUME NEW i \in DOMAIN deck, deck[i].strike # 0
      PROVE  LineNumber(got', deck[i]) = LineNumber(got, deck[i])
  <2>1. deck[i] \in Lines
    BY <1>2, Member DEF IndInv, Kinds
  <2>2. deck[i].strike \in All
    BY <1>2, <2>1, LineKinds, Constants
  <2>3. deck[i].token = 0 => fate[deck[i].strike] # "open"
    BY <1>2 DEF IndInv, Known, KnownLine, Failed
  <2> QED
    BY <2>2, <2>3 DEF LineNumber, Grows
<1> QED
  BY <1>1, <1>2

\* So they stay in order.
LEMMA GrowsInOrder ==
    ASSUME IndInv, Grows, UNCHANGED <<fired, chan, deck>>
    PROVE  Known' /\ ChannelInOrder' /\ DeckInOrder'
<1>n. /\ \A i \in DOMAIN chan : Part(chan[i]) => Number(got', chan[i]) = Number(got, chan[i])
      /\ \A i \in DOMAIN deck : deck[i].strike # 0 =>
           LineNumber(got', deck[i]) = LineNumber(got, deck[i])
  BY SameNumbers
<1>s. \A i \in DOMAIN chan : chan[i].strike \in All
  BY Member, EventKinds DEF IndInv, Kinds
<1>d. \A i \in DOMAIN deck : deck[i].strike # 0 => deck[i].strike \in All
  BY Member, LineKinds, Constants DEF IndInv, Kinds
<1>t. \A r \in All : /\ got[r] \in Nat /\ got'[r] \in Nat /\ got[r] <= got'[r]
                    /\ Sent(r)' = Sent(r)
  BY SentKnown, Constants DEF Grows
<1>1. \A e \in Events : /\ KnownEvent(e) /\ (Part(e) => Number(got', e) = Number(got, e))
                        => KnownEvent(e)'
  <2> SUFFICES ASSUME NEW e \in Events, KnownEvent(e),
                      Part(e) => Number(got', e) = Number(got, e)
               PROVE  KnownEvent(e)'
    OBVIOUS
  <2>1. e.strike \in All /\ (e.kind = "chunk" => e.token \in Nat)
    BY EventKinds, Constants
  <2>2. Sent(e.strike)' = Sent(e.strike) /\ got'[e.strike] \in Nat
    BY <1>t, <2>1 DEF Grows
  <2> QED
    BY <1>t, <2>1, <2>2 DEF KnownEvent, Grows, Failed
<1>2. \A x \in Lines : /\ x.strike # 0 /\ KnownLine(x)
                       /\ LineNumber(got', x) = LineNumber(got, x)
                       => KnownLine(x)'
  <2> SUFFICES ASSUME NEW x \in Lines, x.strike # 0, KnownLine(x),
                      LineNumber(got', x) = LineNumber(got, x)
               PROVE  KnownLine(x)'
    OBVIOUS
  <2>1. x.strike \in All /\ x.token \in Nat
    BY LineKinds, Constants
  <2>2. Sent(x.strike)' = Sent(x.strike)
    BY <1>t, <2>1
  <2> QED
    BY <1>t, <2>1, <2>2 DEF KnownLine, Grows, Failed
<1>3. Known'
  BY <1>n, <1>1, <1>2, Member DEF IndInv, Kinds, Known
<1>4. ChannelInOrder'
  BY <1>n, <1>s, <1>t DEF IndInv, ChannelInOrder, OnTheWay
<1>5. DeckInOrder'
  <2>1. ASSUME NEW i \in DOMAIN deck, NEW j \in DOMAIN deck,
               i < j, deck[i].strike # 0, deck[i].strike = deck[j].strike
        PROVE  LineNumber(got', deck[i]) < LineNumber(got', deck[j])
    BY <1>n, <2>1 DEF IndInv, DeckInOrder
  <2>2. ASSUME NEW i \in DOMAIN deck, NEW j \in DOMAIN chan,
               Part(chan[j]), deck[i].strike = chan[j].strike
        PROVE  LineNumber(got', deck[i]) < Number(got', chan[j])
    <3>1. deck[i].strike # 0
      BY <1>s, <2>2, Constants
    <3> QED
      BY <1>n, <2>2, <3>1 DEF IndInv, DeckInOrder
  <2>3. ASSUME NEW i \in DOMAIN deck,
               deck[i].strike # 0, LineNumber(got', deck[i]) < Sent(deck[i].strike)'
        PROVE  \/ OnTheDeck(deck[i].strike, LineNumber(got, deck[i]) + 1)'
               \/ OnTheWay(deck[i].strike, LineNumber(got, deck[i]) + 1)'
    <3>1. \/ OnTheDeck(deck[i].strike, LineNumber(got, deck[i]) + 1)
          \/ OnTheWay(deck[i].strike, LineNumber(got, deck[i]) + 1)
      BY <1>n, <1>d, <1>t, <2>3 DEF IndInv, DeckInOrder
    <3> QED
      BY <1>n, <2>3, <3>1 DEF OnTheDeck, OnTheWay
  <2> QED
    BY <2>1, <2>2, <2>3 DEF DeckInOrder
<1> QED
  BY <1>3, <1>4, <1>5

\* Without overlap whoever acts is the last that was fired.
LEMMA LastActs ==
    ASSUME IndInv, ~overlapped, NEW s \in All, at[s] \in {"asking", "reading", "ending"}
    PROVE  fired > 0 /\ s = fired /\ AloneKnown(s)
<1>1. s <= fired /\ s \in Nat /\ s > 0 /\ fired \in Nat
  BY Constants DEF IndInv, PlaceKnown, TypeOK
<1>2. AloneKnown(fired)
  BY <1>1 DEF IndInv, Alone
<1>3. ~(s < fired)
  BY <1>2 DEF AloneKnown
<1> QED
  BY <1>1, <1>2, <1>3

\* What is shown of a strike that is alone has been sent.
LEMMA ShownSent ==
    ASSUME IndInv, NEW s \in All, AloneKnown(s)
    PROVE  Shown \in Nat /\ Shown <= Sent(s)
<1>1. Sent(s) \in Nat /\ s # 0
  BY SentKnown, Constants
<1>2. CASE Waiting
  BY <1>1, <1>2 DEF Shown
<1>3. CASE ~Waiting
  <2>1. Len(deck) \in Nat /\ DOMAIN deck = 1..Len(deck)
    BY DEF IndInv, Kinds
  <2>2. CASE Len(deck) = 0
    BY <1>1, <1>3, <2>2 DEF Shown
  <2>3. CASE Len(deck) > 0
    <3>1. LET i == Len(deck) IN i \in DOMAIN deck /\ deck[i].strike = s
                                /\ LineNumber(got, deck[i]) = i
      BY <1>3, <2>1, <2>3 DEF AloneKnown
    <3> QED
      BY <1>1, <1>3, <2>1, <3>1 DEF Shown, IndInv, Known, KnownLine
  <2> QED
    BY <2>1, <2>2, <2>3
<1> QED
  BY <1>2, <1>3

\* A strike that is alone stays so: the start of its reply is the first it sends.
LEMMA GrowsAlone ==
    ASSUME IndInv, Grows, UNCHANGED <<fired, chan, deckVars, overlapped>>,
           NEW s \in All, at[s] \in {"asking", "reading", "ending"}, out[s] = <<>>,
           \A r \in All \ {s} : at'[r] = at[r] /\ out'[r] = out[r] /\ first'[r] = first[r],
           \A j \in DOMAIN out'[s] :
              out'[s][j].kind = "start" => ~first[s] /\ first'[s] /\ at[s] # "ending",
           first'[s] /\ ~first[s] => \E j \in DOMAIN out'[s] : out'[s][j].kind = "start",
           at'[s] \in {"ending", "done"} =>
              at[s] = "ending" \/ \E j \in DOMAIN out'[s] : out'[s][j].kind = "end"
    PROVE  Alone'
<1> SUFFICES ASSUME ~overlapped PROVE AloneKnown(s)' /\ fired = s
  <2>1. fired' = fired /\ overlapped' = overlapped
    OBVIOUS
  <2> QED
    BY <2>1 DEF Alone
<1>1. fired > 0 /\ s = fired /\ AloneKnown(s)
  BY LastActs
<1> USE DEF deckVars
<1>n. /\ \A i \in DOMAIN chan : Part(chan[i]) => Number(got', chan[i]) = Number(got, chan[i])
      /\ \A i \in DOMAIN deck : deck[i].strike # 0 =>
           LineNumber(got', deck[i]) = LineNumber(got, deck[i])
  BY SameNumbers
<1>2. PlaceKnown(s) /\ s # 0 /\ s \in Nat
  BY Constants DEF IndInv
<1>3. ASSUME ~first[s], at[s] # "ending" PROVE chan = <<>> /\ Waiting
  <2>1. ~Failed(s) /\ fate[s] = "open" /\ got[s] = 0
    BY <1>2, <1>3 DEF PlaceKnown, Failed
  <2>2. ASSUME NEW i \in DOMAIN chan PROVE FALSE
    <3>1. KnownEvent(chan[i]) /\ chan[i] \in Events /\ chan[i].strike = s
      BY <1>1, Member DEF IndInv, Kinds, Known, AloneKnown
    <3>2. chan[i].kind \in {"start", "error", "chunk", "end"}
      BY <3>1, EventKinds
    <3> QED
      BY <1>3, <2>1, <3>1, <3>2 DEF KnownEvent
  <2>3. chan = <<>>
    BY <2>2 DEF IndInv, Kinds
  <2>4. Waiting
    <3>1. SUFFICES ASSUME ~Waiting PROVE FALSE
      OBVIOUS
    <3>2. Len(deck) # 0 /\ Len(deck) \in Nat
      BY <1>1, <1>3 DEF AloneKnown, IndInv, Kinds
    <3>3. Sent(s) <= 0 /\ Shown <= Sent(s) /\ Sent(s) \in Nat
      BY <1>1, <2>1, SentKnown, ShownSent
    <3> QED
      BY <3>1, <3>2, <3>3 DEF Shown
  <2> QED
    BY <2>3, <2>4
<1>4. /\ \A r \in All : r < s => at'[r] = "done"
      /\ \A i \in DOMAIN chan : chan[i].strike = s
      /\ \A i \in DOMAIN chan : chan[i].kind = "start" => i = 1
      /\ \A j \in DOMAIN out'[s] : out'[s][j].kind = "start" => chan = <<>>
  BY <1>1, <1>2, <1>3 DEF AloneKnown
<1>5. /\ StartToCome(s)' => Waiting
      /\ Waiting /\ first'[s] => StartToCome(s)'
      /\ deck = <<>> => first'[s]
  BY <1>1, <1>3 DEF AloneKnown, StartToCome, Grows
<1>6. ~Waiting => \A i \in DOMAIN deck : deck[i].strike = s /\ LineNumber(got', deck[i]) = i
  BY <1>1, <1>2, <1>n DEF AloneKnown
<1>7. \A i \in DOMAIN chan : Part(chan[i]) => Shown < Number(got', chan[i])
  BY <1>1, <1>n DEF AloneKnown
<1>8. Shown < Sent(s)' => OnTheWay(s, Shown + 1)'
  <2>1. Sent(s)' = Sent(s) /\ Shown' = Shown
    BY DEF Grows, Shown, Waiting
  <2>2. Shown < Sent(s) => OnTheWay(s, Shown + 1)
    BY <1>1 DEF AloneKnown
  <2> QED
    BY <1>n, <2>1, <2>2 DEF OnTheWay
<1>9. at'[s] \in {"ending", "done"} => EndToCome(s)' \/ metrics.of = s
  BY <1>1 DEF AloneKnown, EndToCome
<1>10. Waiting' = Waiting /\ Shown' = Shown
  BY DEF Waiting, Shown
<1> QED
  BY <1>1, <1>4, <1>5, <1>6, <1>7, <1>8, <1>9, <1>10 DEF AloneKnown

\* A step of a strike that sends nothing keeps the invariant, if what it leaves to be
\* sent fits the place it leaves the strike at.
LEMMA GrowsInv ==
    ASSUME IndInv, Grows, UNCHANGED <<fired, chan, deckVars, overlapped>>,
           NEW s \in All, at[s] \in {"asking", "reading", "ending"}, out[s] = <<>>,
           \A r \in All \ {s} : /\ at'[r] = at[r] /\ out'[r] = out[r] /\ first'[r] = first[r]
                                /\ got'[r] = got[r] /\ fate'[r] = fate[r],
           \A j \in DOMAIN out'[s] :
              out'[s][j].kind = "start" => ~first[s] /\ first'[s] /\ at[s] # "ending",
           first'[s] /\ ~first[s] => \E j \in DOMAIN out'[s] : out'[s][j].kind = "start",
           at'[s] \in {"ending", "done"} =>
              at[s] = "ending" \/ \E j \in DOMAIN out'[s] : out'[s][j].kind = "end",
           TypeOK', out' \in [All -> Seq(Events)], PlaceKnown(s)',
           \A j \in DOMAIN out'[s] : out'[s][j].kind = "end" => Fits(s, out'[s][j].source)
    PROVE  IndInv'
<1>1. Known' /\ ChannelInOrder' /\ DeckInOrder' /\ Alone'
  BY GrowsInOrder, GrowsAlone DEF deckVars
<1>2. Kinds'
  BY DEF IndInv, Kinds, deckVars
<1>3. ASSUME NEW r \in All PROVE PlaceKnown(r)'
  <2>1. CASE r = s
    BY <2>1
  <2>2. CASE r # s
    <3>1. /\ PlaceKnown(r) /\ at'[r] = at[r] /\ out'[r] = out[r] /\ first'[r] = first[r]
          /\ got'[r] = got[r] /\ fate'[r] = fate[r] /\ fired' = fired
      BY <2>2 DEF IndInv
    <3> QED
      BY <3>1 DEF PlaceKnown, Failed
  <2> QED
    BY <2>1, <2>2
<1>4. NumbersFit'
  <2>1. \A r \in All : got[r] \in Nat /\ got'[r] \in Nat
    BY SentKnown, Constants DEF Grows
  <2>2. \A r \in All, o \in Origins : Fits(r, o) => Fits(r, o)'
    BY <2>1 DEF Fits, Grows
  <2>3. \A i \in DOMAIN chan : chan[i].kind = "end" => Fits(chan[i].strike, chan[i].source)'
    BY <2>2, Member, EventKinds DEF IndInv, Kinds, NumbersFit
  <2>4. ASSUME NEW r \in All, r # s, NEW j \in DOMAIN out[r], out[r][j].kind = "end"
        PROVE  Fits(r, out[r][j].source)'
    <3>1. out[r][j] \in Events
      BY <2>4, Member DEF IndInv, Kinds
    <3> QED
      BY <2>2, <2>4, <3>1, EventKinds DEF IndInv, NumbersFit
  <2>5. metrics.of # 0 => Fits(metrics.of, metrics.source)'
    <3>1. metrics.of # 0 => metrics.of \in All /\ metrics.source \in Origins
      BY Constants DEF IndInv, Kinds
    <3>2. metrics.of # 0 => Fits(metrics.of, metrics.source) /\ metrics' = metrics
      BY DEF IndInv, NumbersFit, deckVars
    <3> QED
      BY <2>2, <3>1, <3>2 DEF Fits
  <2>6. ASSUME NEW r \in All, NEW j \in DOMAIN out'[r], out'[r][j].kind = "end"
        PROVE  Fits(r, out[r][j].source)'
    <3>1. CASE r = s
      <4>1. out'[s][j] \in Events /\ out'[s][j].source \in Origins
        BY <2>6, <3>1, Member, EventKinds
      <4>2. Fits(s, out'[s][j].source)
        BY <2>6, <3>1
      <4> QED
        BY <2>2, <3>1, <4>1, <4>2 DEF Fits
    <3>2. CASE r # s
      <4>1. out'[r] = out[r]
        BY <3>2
      <4> QED
        BY <2>4, <2>6, <3>2, <4>1 DEF Fits
    <3> QED
      BY <3>1, <3>2
  <2>7. \A i \in DOMAIN chan' : chan'[i].kind = "end" => Fits(chan[i].strike, chan[i].source)'
    BY <2>3
  <2>8. metrics'.of # 0 => Fits(metrics.of, metrics.source)'
    BY <2>5 DEF deckVars
  <2> QED
    BY <2>6, <2>7, <2>8 DEF NumbersFit
<1> QED
  BY <1>1, <1>2, <1>3, <1>4 DEF IndInv

\* The sources metrics_from_transcript may name fit the strike.
LEMMA SourcesFit ==
    ASSUME NEW s \in All, NEW o \in Sources(s)
    PROVE  o \in Origins /\ Fits(s, o)
BY DEF Sources, Fits, Origins

\* An answer that begins sends nothing yet.
LEMMA AcceptedStep ==
    ASSUME IndInv, NEW s \in All, Accepted(s)
    PROVE  IndInv'
<1>1. /\ at[s] = "asking" /\ out[s] = <<>> /\ at' = [at EXCEPT ![s] = "reading"]
      /\ UNCHANGED <<fired, first, got, timed, fate, out, chan, deckVars, overlapped>>
  BY DEF Accepted, Ready
<1>2. Grows
  BY <1>1, SentKnown, Constants DEF Grows, Sent, Parts, Failed
<1>3. /\ TypeOK' /\ out' \in [All -> Seq(Events)] /\ out'[s] = <<>> /\ at'[s] = "reading"
      /\ DOMAIN out'[s] = {}
  BY <1>1 DEF IndInv, TypeOK, Kinds, deckVars
<1>4. PlaceKnown(s)'
  BY <1>1, <1>3 DEF IndInv, PlaceKnown
<1> QED
  BY <1>1, <1>2, <1>3, <1>4, GrowsInv DEF IndInv, TypeOK

\* A task that returns has sent all it had.
LEMMA ReturnStep ==
    ASSUME IndInv, NEW s \in All, Return(s)
    PROVE  IndInv'
<1>1. /\ at[s] = "ending" /\ out[s] = <<>> /\ at' = [at EXCEPT ![s] = "done"]
      /\ UNCHANGED <<fired, first, got, timed, fate, out, chan, deckVars, overlapped>>
  BY DEF Return, Ready
<1>2. Grows
  BY <1>1, SentKnown, Constants DEF Grows, Sent, Parts, Failed
<1>3. /\ TypeOK' /\ out' \in [All -> Seq(Events)] /\ out'[s] = <<>> /\ at'[s] = "done"
      /\ DOMAIN out'[s] = {}
  BY <1>1 DEF IndInv, TypeOK, Kinds, deckVars
<1>4. PlaceKnown(s)'
  BY <1>1, <1>3 DEF IndInv, PlaceKnown
<1> QED
  BY <1>1, <1>2, <1>3, <1>4, GrowsInv DEF IndInv, TypeOK

\* A strike that ends leaves its failure, if it failed, and its numbers to be sent.
LEMMA EndingStep ==
    ASSUME IndInv, NEW s \in All, at[s] \in {"asking", "reading"}, out[s] = <<>>,
           NEW f \in {"refused", "whole", "cut"}, NEW o \in Origins, Fits(s, o),
           at' = [at EXCEPT ![s] = "ending"], fate' = [fate EXCEPT ![s] = f],
           out' = [out EXCEPT ![s] = IF f = "whole" THEN <<ApiStreamEnd(s, o)>>
                                     ELSE <<Error(s), ApiStreamEnd(s, o)>>],
           UNCHANGED <<fired, first, got, timed, chan, deckVars, overlapped>>
    PROVE  IndInv'
<1> DEFINE q == IF f = "whole" THEN <<ApiStreamEnd(s, o)>>
                ELSE <<Error(s), ApiStreamEnd(s, o)>>
           e == ApiStreamEnd(s, o)
           x == Error(s)
<1>e. /\ e \in Events /\ e.kind = "end" /\ e.source = o
      /\ x \in Events /\ x.kind = "error"
  BY EventKinds
<1>1. PlaceKnown(s) /\ fate[s] = "open"
  BY DEF IndInv, PlaceKnown
<1>2. at'[s] = "ending" /\ fate'[s] = f /\ out'[s] = q
  BY DEF IndInv, TypeOK, Kinds
<1>3. \A r \in All \ {s} : at'[r] = at[r] /\ out'[r] = out[r] /\ fate'[r] = fate[r]
  BY DEF IndInv, TypeOK, Kinds
<1>4. q \in Seq(Events) /\ \A j \in DOMAIN q : q[j] = e \/ (q[j] = x /\ f # "whole")
  BY <1>e
<1>5. /\ \E j \in DOMAIN q : q[j] = e
      /\ f # "whole" => \E j \in DOMAIN q : q[j] = x
  <2>1. 1 \in DOMAIN <<e>> /\ <<e>>[1] = e /\ 2 \in DOMAIN <<x, e>> /\ <<x, e>>[2] = e
        /\ 1 \in DOMAIN <<x, e>> /\ <<x, e>>[1] = x
    OBVIOUS
  <2> QED
    BY <2>1
<1> HIDE DEF q, e, x
<1>6. Grows
  <2>1. got[s] \in Nat /\ Sent(s) = got[s]
    BY <1>1, SentKnown, Constants DEF Sent, Parts, Failed
  <2>2. (\E j \in DOMAIN out'[s] : Part(out'[s][j])) <=> f # "whole"
    BY <1>2, <1>4, <1>5, <1>e DEF Part
  <2>3. Sent(s)' = Sent(s)
    BY <1>2, <2>1, <2>2 DEF Sent, Parts, Failed
  <2>4. \A r \in All \ {s} : Sent(r)' = Sent(r)
    BY <1>3 DEF Sent, Parts, Failed
  <2> QED
    BY <1>1, <1>3, <2>3, <2>4, SentKnown, Constants DEF Grows
<1>7. TypeOK'
  BY DEF IndInv, TypeOK, deckVars
<1>8. out' \in [All -> Seq(Events)]
  BY <1>4 DEF IndInv, Kinds, q, e, x
<1>9. PlaceKnown(s)'
  BY <1>1, <1>2 DEF PlaceKnown, Failed, q, e, x
<1>10. \A j \in DOMAIN out'[s] : out'[s][j].kind = "end" => Fits(s, out'[s][j].source)
  BY <1>2, <1>4, <1>e
<1> QED
  BY <1>2, <1>3, <1>4, <1>5, <1>6, <1>7, <1>8, <1>9, <1>10, <1>e, GrowsInv, SMTT(30)

\* The end of a reply, however it comes, is sent after its last part.
LEMMA EndSteps ==
    ASSUME IndInv, NEW s \in All, Fail(s) \/ End(s) \/ Aborted(s)
    PROVE  IndInv'
<1>1. CASE Fail(s)
  <2>1. Fits(s, "n/a") /\ "n/a" \in Origins
    BY DEF Fits, Origins
  <2> QED
    BY <1>1, <2>1, EndingStep DEF Fail, Ready
<1>2. CASE End(s)
  <2>1. PICK o \in Sources(s) : out' = [out EXCEPT ![s] = <<ApiStreamEnd(s, o)>>]
    BY <1>2 DEF End
  <2> QED
    BY <1>2, <2>1, SourcesFit, EndingStep DEF End, Ready
<1>3. CASE Aborted(s)
  <2>1. PICK o \in Sources(s) : out' = [out EXCEPT ![s] = <<Error(s), ApiStreamEnd(s, o)>>]
    BY <1>3 DEF Aborted
  <2> QED
    BY <1>3, <2>1, SourcesFit, EndingStep DEF Aborted, Ready
<1> QED
  BY <1>1, <1>2, <1>3

\* The next token, if a chunk ends a line with one, is all that waits to be sent.
LEMMA Joins ==
    ASSUME NEW x, NEW y
    PROVE  Append(<<>>, y) = <<y>> /\ Append(<<x>>, y) = <<x, y>>
<1> DEFINE S == {x, y}
<1>1. /\ <<>> \in Seq(S) /\ <<x>> \in Seq(S) /\ <<y>> \in Seq(S) /\ <<x, y>> \in Seq(S)
      /\ Len(<<>>) = 0 /\ Len(<<x>>) = 1 /\ Len(<<y>>) = 1 /\ Len(<<x, y>>) = 2
  OBVIOUS
<1>2. x \in S /\ y \in S
  OBVIOUS
<1>3. /\ <<x>>[1] = x /\ <<y>>[1] = y /\ <<x, y>>[1] = x /\ <<x, y>>[2] = y
  OBVIOUS
<1> HIDE DEF S
<1>4. Append(<<>>, y) = <<y>>
  BY <1>1, <1>2, <1>3, AppendProperties, SeqEqual
<1>5. Append(<<x>>, y) = <<x, y>>
  <2> DEFINE a == Append(<<x>>, y)
             b == <<x, y>>
  <2>1. a \in Seq(S) /\ Len(a) = 2 /\ a[2] = y /\ a[1] = x
    BY <1>1, <1>2, <1>3, AppendProperties
  <2>2. b \in Seq(S) /\ Len(b) = 2 /\ b[2] = y /\ b[1] = x
    BY <1>1, <1>3
  <2> HIDE DEF a, b
  <2>3. \A i \in 1..Len(a) : a[i] = b[i]
    BY <2>1, <2>2
  <2>4. a = b
    BY <2>1, <2>2, <2>3, SeqEqual
  <2> QED
    BY <2>4 DEF a, b
<1> QED
  BY <1>4, <1>5

\* A chunk brings at most one token, the next one, behind the start of its reply.
LEMMA ChunkStep ==
    ASSUME IndInv, NEW s \in All, Chunk(s)
    PROVE  IndInv'
<1>1. PICK n \in {0, 1} :
        /\ got[s] + n <= Tokens
        /\ got' = [got EXCEPT ![s] = @ + n]
        /\ LET start == IF first[s] THEN <<>> ELSE <<ApiStreamStart(s)>>
           IN  out' = [out EXCEPT ![s] =
                          IF n = 0 THEN start ELSE Append(start, ApiStreamChunk(s, got'[s]))]
  BY DEF Chunk
<1>2. PICK b \in BOOLEAN : timed' = [timed EXCEPT ![s] = @ \/ b]
  BY DEF Chunk
<1>3. /\ at[s] = "reading" /\ out[s] = <<>> /\ first' = [first EXCEPT ![s] = TRUE]
      /\ UNCHANGED <<fired, at, fate, chan, deckVars, overlapped>>
  BY DEF Chunk, Ready
<1>4. PlaceKnown(s) /\ fate[s] = "open" /\ got[s] \in Nat /\ Tokens \in Nat
  BY <1>3, SentKnown, Constants, SMTT(30) DEF IndInv, PlaceKnown
<1>5. got'[s] = got[s] + n /\ got'[s] \in 0..Tokens /\ (n = 1 => got'[s] \in 1..Tokens)
  BY <1>1, <1>4 DEF IndInv, TypeOK
<1>6. /\ first'[s] /\ (timed[s] => timed'[s])
      /\ \A r \in All \ {s} : /\ out'[r] = out[r] /\ first'[r] = first[r]
                              /\ got'[r] = got[r] /\ timed'[r] = timed[r]
  BY <1>1, <1>2, <1>3 DEF IndInv, TypeOK, Kinds
<1> DEFINE c == ApiStreamChunk(s, got'[s])
           b0 == ApiStreamStart(s)
           q == IF n = 0 THEN IF first[s] THEN <<>> ELSE <<b0>>
                ELSE IF first[s] THEN <<c>> ELSE <<b0, c>>
<1>7. out'[s] = q /\ out' = [out EXCEPT ![s] = q]
  <2>1. Append(<<>>, c) = <<c>> /\ Append(<<b0>>, c) = <<b0, c>>
    BY Joins
  <2>2. q = IF n = 0 THEN IF first[s] THEN <<>> ELSE <<b0>>
            ELSE Append(IF first[s] THEN <<>> ELSE <<b0>>, c)
    <3> HIDE DEF c, b0
    <3> QED
      BY <2>1
  <2>3. out' = [out EXCEPT ![s] = q]
    BY <1>1, <2>2
  <2> QED
    BY <2>3 DEF IndInv, Kinds
<1>8. /\ b0 \in Events /\ b0.kind = "start"
      /\ n = 1 => c \in Events /\ c.kind = "chunk"
  BY <1>5, EventKinds
<1>9. /\ q \in Seq(Events)
      /\ \A j \in DOMAIN q : (q[j] = c /\ n = 1) \/ (q[j] = b0 /\ ~first[s])
      /\ n = 1 => \E j \in DOMAIN q : q[j] = c
      /\ ~first[s] => \E j \in DOMAIN q : q[j] = b0
  <2> HIDE DEF c, b0
  <2>1. /\ 1 \in DOMAIN <<c>> /\ <<c>>[1] = c /\ 2 \in DOMAIN <<b0, c>> /\ <<b0, c>>[2] = c
        /\ 1 \in DOMAIN <<b0, c>> /\ <<b0, c>>[1] = b0 /\ 1 \in DOMAIN <<b0>> /\ <<b0>>[1] = b0
    OBVIOUS
  <2>2. q \in Seq(Events)
    BY <1>8
  <2>3. ASSUME NEW j \in DOMAIN q PROVE (q[j] = c /\ n = 1) \/ (q[j] = b0 /\ ~first[s])
    <3>1. CASE n = 0 /\ first[s]
      BY <3>1
    <3>2. CASE n = 0 /\ ~first[s]
      BY <3>2
    <3>3. CASE n = 1 /\ first[s]
      BY <3>3
    <3>4. CASE n = 1 /\ ~first[s]
      BY <3>4
    <3> QED
      BY <3>1, <3>2, <3>3, <3>4
  <2>4. n = 1 => \E j \in DOMAIN q : q[j] = c
    <3>1. CASE n = 1 /\ first[s]
      BY <2>1, <3>1
    <3>2. CASE n = 1 /\ ~first[s]
      BY <2>1, <3>2
    <3> QED
      BY <3>1, <3>2
  <2>5. ~first[s] => \E j \in DOMAIN q : q[j] = b0
    <3>1. CASE n = 0 /\ ~first[s]
      BY <2>1, <3>1
    <3>2. CASE n = 1 /\ ~first[s]
      BY <2>1, <3>2
    <3> QED
      BY <3>1, <3>2
  <2> QED
    BY <2>2, <2>3, <2>4, <2>5
<1>10. PlaceKnown(s)'
  <2>1. at'[s] = "reading" /\ fate'[s] = "open" /\ fired' = fired /\ first'[s]
    BY <1>3, <1>4, <1>6
  <2>2. ~first[s] => got[s] = 0
    BY <1>4 DEF PlaceKnown
  <2>3. \/ out'[s] = <<>>
        \/ out'[s] = <<ApiStreamStart(s)>> /\ got'[s] = 0
        \/ out'[s] = <<ApiStreamStart(s), ApiStreamChunk(s, got'[s])>> /\ got'[s] = 1
        \/ out'[s] = <<ApiStreamChunk(s, got'[s])>> /\ got'[s] > 0
    <3>1. CASE n = 0
      BY <1>4, <1>5, <1>7, <2>2, <3>1
    <3>2. CASE n = 1
      BY <1>4, <1>5, <1>7, <2>2, <3>2
    <3> QED
      BY <3>1, <3>2
  <2>4. at[s] # "none" => ~(s > fired)
    BY <1>4 DEF PlaceKnown
  <2> QED
    BY <1>3, <2>1, <2>3, <2>4 DEF PlaceKnown
<1> HIDE DEF c, b0, q
<1>11. Grows
  <2>1. (\E j \in DOMAIN out'[s] : Part(out'[s][j])) <=> n = 1
    BY <1>7, <1>8, <1>9 DEF Part
  <2>2. fate'[s] = "open" /\ Sent(s) = got[s]
    BY <1>3, <1>4 DEF Sent, Parts, Failed
  <2>3. Sent(s)' = got[s]
    BY <1>4, <1>5, <2>1, <2>2 DEF Sent, Parts, Failed
  <2>4. \A r \in All \ {s} : Sent(r)' = Sent(r)
    BY <1>3, <1>6 DEF Sent, Parts, Failed
  <2> QED
    BY <1>3, <1>4, <1>5, <1>6, <2>2, <2>3, <2>4, SentKnown, Constants, SMTT(30) DEF Grows
<1>12. TypeOK'
  BY <1>1, <1>2, <1>3, <1>5 DEF IndInv, TypeOK, deckVars
<1>13. out' \in [All -> Seq(Events)]
  BY <1>7, <1>9 DEF IndInv, Kinds
<1>14. \A j \in DOMAIN out'[s] : out'[s][j].kind = "end" => Fits(s, out'[s][j].source)
  BY <1>7, <1>8, <1>9
<1>15. \A j \in DOMAIN out'[s] : out'[s][j].kind = "start" => ~first[s]
  BY <1>7, <1>8, <1>9
<1>16. first'[s] /\ ~first[s] => \E j \in DOMAIN out'[s] : out'[s][j].kind = "start"
  BY <1>7, <1>8, <1>9
<1> QED
  BY <1>3, <1>6, <1>10, <1>11, <1>12, <1>13, <1>14, <1>15, <1>16, GrowsInv

------------------------------------------------------------------------------
(* The operator fires a strike.                                            *)

\* A strike clears the deck, and overlaps if anything of another is still to come.
LEMMA EnterStep ==
    ASSUME IndInv, Enter
    PROVE  IndInv'
<1>0. fired + 1 \in All
  BY Constants DEF Enter, IndInv, TypeOK
<1>f. PICK f \in All : f = fired + 1
  BY <1>0
<1>1. /\ fired' = f /\ at' = [at EXCEPT ![f] = "asking"] /\ deck' = <<Sending>>
      /\ overlapped' = (overlapped \/ ~Quiet)
      /\ UNCHANGED <<first, got, timed, fate, out, chan, metrics>>
  BY <1>f DEF Enter
<1>2. fired \in Nat /\ fired < Strikes /\ f \in All /\ f > 0
  BY <1>f, Constants DEF Enter, IndInv, TypeOK
<1>3. at[f] = "none" /\ PlaceKnown(f)
  BY <1>f, <1>2 DEF IndInv, PlaceKnown
<1>4. got[f] = 0 /\ ~first[f] /\ out[f] = <<>> /\ fate[f] = "open"
  BY <1>3 DEF PlaceKnown
<1>5. at'[f] = "asking" /\ \A r \in All \ {f} : at'[r] = at[r]
  BY <1>1, <1>2 DEF IndInv, TypeOK
<1>6. DOMAIN deck' = {1} /\ deck'[1] = Sending /\ deck' \in Seq(Lines) /\ deck'[1].strike = 0
  BY <1>1, LineKinds
<1>7. TypeOK'
  <2>1. fired' \in 0..Strikes
    BY <1>1, <1>2, Constants
  <2>2. overlapped' \in BOOLEAN
    BY <1>1 DEF Quiet
  <2> QED
    BY <1>1, <2>1, <2>2 DEF IndInv, TypeOK
<1>8. Kinds'
  BY <1>1, <1>6 DEF IndInv, Kinds
<1>9. ASSUME NEW r \in All PROVE PlaceKnown(r)'
  <2>1. CASE r = f
    <3>1. ~(f > fired')
      BY <1>1, <1>2, <1>f
    <3>2. at'[f] = "asking" /\ got'[f] = 0 /\ out'[f] = <<>> /\ fate'[f] = "open"
      BY <1>1, <1>4, <1>5
    <3>3. ~first'[f]
      BY <1>1, <1>4
    <3> QED
      BY <2>1, <3>1, <3>2, <3>3 DEF PlaceKnown
  <2>2. CASE r # f
    <3>1. PlaceKnown(r) /\ at'[r] = at[r] /\ (r > fired <=> r > fired')
      BY <1>1, <1>2, <1>5, <1>f, <2>2, Constants DEF IndInv
    <3> QED
      BY <1>1, <3>1 DEF PlaceKnown, Failed
  <2> QED
    BY <2>1, <2>2
<1>s. \A r \in All : Sent(r)' = Sent(r)
  BY <1>1 DEF Sent, Parts, Failed
<1>e. \A i \in DOMAIN chan : chan[i] \in Events /\ chan[i].strike \in All
  BY Member, EventKinds DEF IndInv, Kinds
<1>10. Known'
  <2>1. ASSUME NEW e \in Events, KnownEvent(e) PROVE KnownEvent(e)'
    <3>1. e.strike \in All /\ e.strike <= fired' /\ Sent(e.strike)' = Sent(e.strike)
      BY <1>1, <1>2, <1>s, <2>1, <1>f, EventKinds, Constants DEF KnownEvent
    <3> QED
      BY <1>1, <2>1, <3>1 DEF KnownEvent, Failed
  <2> QED
    BY <1>1, <1>6, <1>e, <2>1 DEF IndInv, Known
<1>11. ChannelInOrder'
  BY <1>1, <1>s, <1>e DEF IndInv, ChannelInOrder, OnTheWay
<1>12. DeckInOrder'
  BY <1>1, <1>6, <1>e, Constants DEF DeckInOrder
<1>13. NumbersFit'
  BY <1>1 DEF IndInv, NumbersFit, Fits
<1>14. Alone'
  <2>1. SUFFICES ASSUME ~overlapped, Quiet PROVE AloneKnown(f)'
    BY <1>1, <1>2 DEF Alone
  <2>2. ASSUME NEW r \in All, r < f PROVE at'[r] = "done"
    <3>1. PlaceKnown(r) /\ r <= fired /\ r # f
      BY <1>2, <1>f, <2>2, Constants DEF IndInv
    <3> QED
      BY <1>5, <2>1, <3>1, <1>2, Constants DEF PlaceKnown, Quiet
  <2>3. chan' = <<>> /\ out'[f] = <<>> /\ Waiting' /\ Shown' = 0 /\ deck' # <<>>
    BY <1>1, <1>4, <2>1, <1>6 DEF Quiet, Waiting, Shown
  <2>4. Sent(f)' = 0
    <3>1. DOMAIN out'[f] = {}
      BY <2>3
    <3> QED
      BY <1>1, <1>4, <3>1 DEF Sent, Parts, Failed
  <2>5. DOMAIN chan' = {} /\ DOMAIN out'[f] = {}
    BY <2>3
  <2> QED
    BY <1>1, <1>4, <1>5, <2>2, <2>3, <2>4, <2>5 DEF AloneKnown, StartToCome, EndToCome
<1> QED
  BY <1>7, <1>8, <1>9, <1>10, <1>11, <1>12, <1>13, <1>14 DEF IndInv

------------------------------------------------------------------------------
(* A strike sends what waits.                                              *)

\* Short sequences, taken apart.
LEMMA Tuples ==
    ASSUME NEW x, NEW y
    PROVE  /\ Head(<<x>>) = x /\ Tail(<<x>>) = <<>> /\ DOMAIN <<x>> = {1} /\ <<x>>[1] = x
           /\ Head(<<x, y>>) = x /\ Tail(<<x, y>>) = <<y>>
           /\ DOMAIN <<x, y>> = {1, 2} /\ <<x, y>>[1] = x /\ <<x, y>>[2] = y
           /\ DOMAIN <<>> = {}
OBVIOUS

\* What is sent next, and what waits after it.
NextOut(s, h, q) ==
    /\ h = Head(out[s]) /\ q = Tail(out[s])
    /\ h.strike = s /\ at[s] \in {"reading", "ending"}
    /\ h.kind \in {"start", "chunk"} => first[s]
    /\ h.kind = "chunk" => h.token = got[s] /\ fate[s] = "open"
    /\ h.kind = "error" => Failed(s)
    /\ h.kind = "end" => fate[s] # "open"
    /\ h \in {out[s][j] : j \in DOMAIN out[s]}
    /\ \A j \in DOMAIN q : /\ q[j].kind # "start" /\ (Part(h) => ~Part(q[j]))
                           /\ q[j] \in {out[s][k] : k \in DOMAIN out[s]}
    /\ \A k \in DOMAIN out[s] : out[s][k] = h \/ out[s][k] \in {q[j] : j \in DOMAIN q}
    /\ at[s] = "reading" =>
          q = <<>> \/ (first[s] /\ q = <<ApiStreamChunk(s, got[s])>> /\ got[s] > 0)
    /\ at[s] = "ending" => q = <<>> \/ \E o \in Origins : q = <<ApiStreamEnd(s, o)>>

\* What a task has to send next is the part after those it has sent.
LEMMA OutKnown ==
    ASSUME IndInv, NEW s \in All, out[s] # <<>>
    PROVE  \E h \in Events, q \in Seq(Events) : NextOut(s, h, q)
<1>1. PlaceKnown(s) /\ at[s] \in {"none", "asking", "reading", "ending", "done"}
      /\ got[s] \in 0..Tokens /\ Tokens \in Nat
  BY SentKnown, Constants DEF IndInv, TypeOK
<1>2. at[s] \in {"reading", "ending"}
  BY <1>1 DEF PlaceKnown
<1>r. at[s] = "reading" => fate[s] = "open"
  BY <1>1 DEF PlaceKnown
<1>z. at[s] = "ending" => fate[s] # "open"
  BY <1>1 DEF PlaceKnown
<1>s. <<>> \in Seq(Events)
  OBVIOUS
<1> DEFINE b == ApiStreamStart(s)
           c == ApiStreamChunk(s, got[s])
           x == Error(s)
           e(o) == ApiStreamEnd(s, o)
<1>3. CASE at[s] = "reading" /\ first[s] /\ out[s] = <<b>>
  <2>1. b \in Events /\ b.kind = "start" /\ b.strike = s
    BY EventKinds
  <2>5. NextOut(s, b, <<>>)
    <3> HIDE DEF b
    <3> QED
      BY <1>3, <2>1, Tuples DEF Part, NextOut
  <2> QED
    BY <1>s, <2>1, <2>5
<1>4. CASE at[s] = "reading" /\ first[s] /\ out[s] = <<b, c>> /\ got[s] > 0
  <2>1. /\ b \in Events /\ b.kind = "start" /\ b.strike = s
        /\ c \in Events /\ c.kind = "chunk" /\ c.strike = s
    BY <1>1, <1>4, EventKinds
  <2>0. <<c>> \in Seq(Events)
    BY <2>1
  <2>3. out[s] = <<b, c>>
    BY <1>4
  <2>4. <<c>> = <<ApiStreamChunk(s, got[s])>>
    OBVIOUS
  <2>5. NextOut(s, b, <<c>>)
    <3> HIDE DEF b, c
    <3> QED
      BY <1>4, <2>1, <2>4, <2>3, Tuples DEF Part, NextOut
  <2> QED
    BY <2>1, <2>0, <2>5
<1>5. CASE at[s] = "reading" /\ first[s] /\ out[s] = <<c>> /\ got[s] > 0
  <2>1. c \in Events /\ c.kind = "chunk" /\ c.strike = s /\ c.token = got[s]
    BY <1>1, <1>5, EventKinds
  <2>5. NextOut(s, c, <<>>)
    <3> HIDE DEF c
    <3> QED
      BY <1>r, <1>5, <2>1, Tuples DEF Part, NextOut
  <2> QED
    BY <1>s, <2>1, <2>5
<1>6. CASE at[s] = "ending" /\ Failed(s) /\ \E o \in Origins : out[s] = <<x, e(o)>>
  <2>o. PICK o \in Origins : out[s] = <<x, e(o)>>
    BY <1>6
  <2>1. /\ x \in Events /\ x.kind = "error" /\ x.strike = s
        /\ e(o) \in Events /\ e(o).kind = "end" /\ e(o).strike = s
    BY EventKinds
  <2>0. <<e(o)>> \in Seq(Events)
    BY <2>1
  <2>4. \E p \in Origins : <<e(o)>> = <<ApiStreamEnd(s, p)>>
    OBVIOUS
  <2>5. NextOut(s, x, <<e(o)>>)
    <3> HIDE DEF x, e
    <3> QED
      BY <1>6, <2>o, <2>1, <2>4, Tuples DEF Part, NextOut
  <2> QED
    BY <2>1, <2>0, <2>5
<1>7. CASE at[s] = "ending" /\ \E o \in Origins : out[s] = <<e(o)>>
  <2>o. PICK o \in Origins : out[s] = <<e(o)>>
    BY <1>7
  <2>1. e(o) \in Events /\ e(o).kind = "end" /\ e(o).strike = s
    BY EventKinds
  <2>5. NextOut(s, e(o), <<>>)
    <3> HIDE DEF e
    <3> QED
      BY <1>z, <1>7, <2>o, <2>1, Tuples DEF Part, NextOut
  <2> QED
    BY <1>s, <2>1, <2>5
<1> QED
  BY <1>1, <1>2, <1>3, <1>4, <1>5, <1>6, <1>7 DEF PlaceKnown

\* What is sent is the next part of the reply, or none.
LEMMA SentNext ==
    ASSUME IndInv, NEW s \in All, NEW h \in Events, NEW q \in Seq(Events), NextOut(s, h, q),
           out' = [out EXCEPT ![s] = q], UNCHANGED <<got, fate>>
    PROVE  /\ \A r \in All \ {s} : Sent(r)' = Sent(r)
           /\ Part(h) => Sent(s)' = Sent(s) + 1 /\ Number(got, h) = Sent(s) + 1
           /\ ~Part(h) => Sent(s)' = Sent(s)
           /\ \A r \in All : Sent(r) \in Nat /\ Sent(r)' \in Nat /\ Sent(r) <= Sent(r)'
<1>1. out'[s] = q /\ \A r \in All \ {s} : out'[r] = out[r]
  BY DEF IndInv, Kinds
<1>2. \A r \in All \ {s} : Sent(r)' = Sent(r)
  BY <1>1 DEF Sent, Parts, Failed
<1>3. Sent(s) \in Nat /\ got[s] \in Nat
  BY SentKnown, Constants
<1>4. ASSUME Part(h) PROVE Sent(s)' = Sent(s) + 1 /\ Number(got, h) = Sent(s) + 1
  <2>1. \E j \in DOMAIN out[s] : Part(out[s][j])
    BY <1>4 DEF NextOut
  <2>2. ~\E j \in DOMAIN q : Part(q[j])
    BY <1>4 DEF NextOut
  <2>3. Sent(s) = Parts(s) - 1 /\ Sent(s)' = Parts(s)
    BY <1>1, <2>1, <2>2 DEF Sent, Parts, Failed
  <2>4. Number(got, h) = Parts(s) /\ Parts(s) \in Nat
    BY <1>3, <1>4 DEF Number, Part, NextOut, Parts, Failed
  <2> QED
    BY <1>3, <2>3, <2>4
<1>5. ASSUME ~Part(h) PROVE Sent(s)' = Sent(s)
  <2>1. (\E j \in DOMAIN out[s] : Part(out[s][j])) <=> (\E j \in DOMAIN q : Part(q[j]))
    BY <1>5 DEF NextOut
  <2> QED
    BY <1>1, <2>1 DEF Sent, Parts, Failed
<1> QED
  BY <1>2, <1>3, <1>4, <1>5, SentKnown

\* It joins the channel in its place.
LEMMA SendStep ==
    ASSUME IndInv, NEW s \in All, Send(s)
    PROVE  IndInv'
<1>1. /\ out[s] # <<>> /\ Len(chan) < Capacity
      /\ UNCHANGED <<fired, at, first, got, timed, fate, deck, metrics, overlapped>>
  BY DEF Send, deckVars
<1>2. PICK h \in Events, q \in Seq(Events) : NextOut(s, h, q)
  BY <1>1, OutKnown
<1>3. chan' = Append(chan, h) /\ out' = [out EXCEPT ![s] = q]
  BY <1>2 DEF Send, NextOut
<1>4. out'[s] = q /\ \A r \in All \ {s} : out'[r] = out[r]
  BY <1>3 DEF IndInv, Kinds
<1>c. chan \in Seq(Events) /\ h.strike = s /\ s # 0 /\ Tokens \in Nat
  BY <1>2, Constants DEF IndInv, Kinds, NextOut
<1> DEFINE n == Len(chan) + 1
<1>j. /\ chan' \in Seq(Events) /\ Len(chan') = n
      /\ \A i \in DOMAIN chan : i \in DOMAIN chan' /\ chan'[i] = chan[i]
      /\ \A i \in DOMAIN chan' : \/ i \in DOMAIN chan /\ i < n /\ chan'[i] = chan[i]
                                 \/ i = n /\ chan'[i] = h
      /\ n \in DOMAIN chan' /\ chan'[n] = h /\ n \in Nat
  BY <1>c, <1>3, Joined
<1> HIDE DEF n
<1>s. /\ \A r \in All \ {s} : Sent(r)' = Sent(r)
      /\ Part(h) => Sent(s)' = Sent(s) + 1 /\ Number(got, h) = Sent(s) + 1
      /\ ~Part(h) => Sent(s)' = Sent(s)
      /\ \A r \in All : Sent(r) \in Nat /\ Sent(r)' \in Nat /\ Sent(r) <= Sent(r)'
  BY <1>1, <1>2, <1>3, SentNext
<1>e. \A i \in DOMAIN chan : chan[i] \in Events /\ chan[i].strike \in All
  BY Member, EventKinds DEF IndInv, Kinds
<1>d. \A i \in DOMAIN deck : deck[i] \in Lines /\ (deck[i].strike # 0 => deck[i].strike \in All)
  BY Member, LineKinds, Constants DEF IndInv, Kinds
<1>g. \A r \in All : got[r] \in Nat
  BY SentKnown, Constants
<1>5. TypeOK' /\ Kinds'
  <2>1. Len(chan') <= Capacity
    BY <1>1, <1>j, Constants DEF n
  <2> QED
    BY <1>1, <1>3, <1>j, <2>1 DEF IndInv, TypeOK, Kinds
<1>6. ASSUME NEW r \in All PROVE PlaceKnown(r)'
  <2>1. CASE r # s
    BY <1>1, <1>4, <2>1 DEF IndInv, PlaceKnown, Failed
  <2>2. CASE r = s
    <3>1. PlaceKnown(s) /\ at[s] \in {"reading", "ending"} /\ Failed(s)' = Failed(s)
      BY <1>1, <1>2 DEF IndInv, NextOut, Failed
    <3>2. at[s] = "reading" =>
             out'[s] = <<>> \/ (first[s] /\ out'[s] = <<ApiStreamChunk(s, got[s])>> /\ got[s] > 0)
      BY <1>2, <1>4 DEF NextOut
    <3>3. at[s] = "ending" => out'[s] = <<>> \/ \E o \in Origins : out'[s] = <<ApiStreamEnd(s, o)>>
      BY <1>2, <1>4 DEF NextOut
    <3> QED
      BY <1>1, <2>2, <3>1, <3>2, <3>3 DEF PlaceKnown
  <2> QED
    BY <2>1, <2>2
<1>7. Known'
  <2>1. ASSUME NEW e \in Events, KnownEvent(e) PROVE KnownEvent(e)'
    <3>1. e.strike \in All /\ (Part(e) => Number(got, e) \in 1..Sent(e.strike)')
      <4>1. e.strike \in All
        BY EventKinds
      <4> QED
        BY <1>s, <2>1, <4>1 DEF KnownEvent
    <3> QED
      BY <1>1, <2>1, <3>1 DEF KnownEvent, Failed
  <2>2. KnownEvent(h)'
    <3>1. s <= fired
      <4>1. at[s] # "none" /\ s \in Nat /\ fired \in Nat
        BY <1>2, Constants DEF IndInv, TypeOK, NextOut
      <4> QED
        BY <4>1 DEF IndInv, PlaceKnown
    <3>2. Part(h) => Number(got, h) \in 1..Sent(s)'
      BY <1>s
    <3> QED
      BY <1>1, <1>2, <1>c, <1>g, <3>1, <3>2 DEF KnownEvent, NextOut, Failed
  <2>3. ASSUME NEW x \in Lines, x.strike # 0, KnownLine(x) PROVE KnownLine(x)'
    <3>1. x.strike \in All
      BY <2>3, LineKinds, Constants
    <3> QED
      BY <1>1, <1>s, <2>3, <3>1 DEF KnownLine, Failed
  <2> QED
    BY <1>1, <1>e, <1>d, <1>j, <2>1, <2>2, <2>3 DEF IndInv, Known
<1>8. ChannelInOrder'
  <2>1. ASSUME NEW i \in DOMAIN chan', NEW j \in DOMAIN chan',
               i < j, Part(chan'[i]), Part(chan'[j]), chan'[i].strike = chan'[j].strike
        PROVE  Number(got, chan'[i]) < Number(got, chan'[j])
    <3>1. i \in DOMAIN chan /\ chan'[i] = chan[i] /\ KnownEvent(chan[i])
      BY <1>j, <1>c, <2>1, Member DEF IndInv, Known
    <3>2. CASE j \in DOMAIN chan
      BY <1>j, <2>1, <3>1, <3>2 DEF IndInv, ChannelInOrder
    <3>3. CASE j = n
      BY <1>j, <1>c, <1>s, <2>1, <3>1, <3>3 DEF KnownEvent
    <3> QED
      BY <1>j, <3>2, <3>3
  <2>2. ASSUME NEW i \in DOMAIN chan', Part(chan'[i]),
               (Number(got, chan[i]) < Sent(chan[i].strike))'
        PROVE  \E k \in DOMAIN chan' : /\ Part(chan'[k]) /\ chan'[k].strike = chan'[i].strike
                                       /\ Number(got, chan'[k]) = Number(got, chan'[i]) + 1
    <3>0. i # n
      BY <1>1, <1>j, <1>c, <1>s, <2>2
    <3>1. i \in DOMAIN chan /\ chan'[i] = chan[i] /\ KnownEvent(chan[i])
      BY <1>j, <3>0 DEF IndInv, Known
    <3>2. CASE Number(got, chan[i]) < Sent(chan[i].strike)
      <4>1. OnTheWay(chan[i].strike, Number(got, chan[i]) + 1)
        BY <2>2, <3>1, <3>2 DEF IndInv, ChannelInOrder
      <4> QED
        BY <1>j, <3>1, <4>1 DEF OnTheWay
    <3>3. CASE ~(Number(got, chan[i]) < Sent(chan[i].strike))
      <4>1. chan[i].strike = s /\ Part(h) /\ Number(got, h) = Number(got, chan[i]) + 1
        <5>1. /\ chan[i].strike \in All /\ Number(got, chan[i]) \in 1..Sent(chan[i].strike)
              /\ Number(got, chan[i]) < Sent(chan[i].strike)'
          BY <1>1, <1>e, <2>2, <3>1 DEF KnownEvent
        <5>2. chan[i].strike = s /\ Part(h)
          BY <1>s, <3>1, <3>3, <5>1
        <5>3. Number(got, chan[i]) = Sent(s) /\ Sent(s) \in Nat
          BY <1>s, <3>3, <5>1, <5>2
        <5> QED
          BY <1>s, <5>2, <5>3
      <4> QED
        BY <1>c, <1>j, <3>1, <4>1
    <3> QED
      BY <3>2, <3>3
  <2> QED
    BY <1>1, <2>1, <2>2 DEF ChannelInOrder, OnTheWay
<1>9. DeckInOrder'
  <2>1. ASSUME NEW i \in DOMAIN deck, NEW j \in DOMAIN chan',
               Part(chan'[j]), deck[i].strike = chan'[j].strike
        PROVE  LineNumber(got, deck[i]) < Number(got, chan'[j])
    <3>1. CASE j \in DOMAIN chan
      BY <1>j, <2>1, <3>1 DEF IndInv, DeckInOrder
    <3>2. CASE j = n
      <4>1. KnownLine(deck[i]) /\ deck[i].strike = s /\ Part(h)
        BY <1>c, <1>j, <2>1, <3>2 DEF IndInv, Known
      <4> QED
        BY <1>j, <1>s, <3>2, <4>1 DEF KnownLine
    <3> QED
      BY <1>j, <3>1, <3>2
  <2>2. ASSUME NEW i \in DOMAIN deck,
               deck[i].strike # 0, LineNumber(got, deck[i]) < Sent(deck[i].strike)'
        PROVE  \/ OnTheDeck(deck[i].strike, LineNumber(got, deck[i]) + 1)
               \/ \E k \in DOMAIN chan' : /\ Part(chan'[k]) /\ chan'[k].strike = deck[i].strike
                                          /\ Number(got, chan'[k]) = LineNumber(got, deck[i]) + 1
    <3>1. KnownLine(deck[i]) /\ deck[i].strike \in All
      BY <1>d, <2>2 DEF IndInv, Known
    <3>2. CASE LineNumber(got, deck[i]) < Sent(deck[i].strike)
      BY <1>j, <2>2, <3>1, <3>2 DEF IndInv, DeckInOrder, OnTheWay
    <3>3. CASE ~(LineNumber(got, deck[i]) < Sent(deck[i].strike))
      <4>1. deck[i].strike = s /\ Part(h) /\ Number(got, h) = LineNumber(got, deck[i]) + 1
        <5>1. LineNumber(got, deck[i]) \in 1..Sent(deck[i].strike)
          BY <3>1 DEF KnownLine
        <5>2. deck[i].strike = s /\ Part(h)
          BY <1>1, <1>s, <2>2, <3>1, <3>3, <5>1
        <5>3. LineNumber(got, deck[i]) = Sent(s) /\ Sent(s) \in Nat
          BY <1>s, <3>3, <5>1, <5>2
        <5> QED
          BY <1>s, <5>2, <5>3
      <4> QED
        BY <1>c, <1>j, <3>1, <4>1
    <3> QED
      BY <3>2, <3>3
  <2>3. DeckInOrder
    BY DEF IndInv
  <2> QED
    BY <1>1, <2>1, <2>2, <2>3 DEF DeckInOrder, OnTheDeck, OnTheWay
<1>10. NumbersFit'
  <2>1. \A i \in DOMAIN chan : chan[i].kind = "end" => Fits(chan[i].strike, chan[i].source)
    BY DEF IndInv, NumbersFit
  <2>2. \A r \in All : \A j \in DOMAIN out[r] : out[r][j].kind = "end" => Fits(r, out[r][j].source)
    BY DEF IndInv, NumbersFit
  <2>3. h.kind = "end" => Fits(s, h.source)
    BY <1>2, <2>2 DEF NextOut
  <2>4. \A j \in DOMAIN q : q[j].kind = "end" => Fits(s, q[j].source)
    BY <1>2, <2>2 DEF NextOut
  <2>5. \A i \in DOMAIN chan' : chan'[i].kind = "end" => Fits(chan'[i].strike, chan'[i].source)
    BY <1>c, <1>j, <2>1, <2>3
  <2>6. \A r \in All : \A j \in DOMAIN out'[r] :
           out'[r][j].kind = "end" => Fits(r, out'[r][j].source)
    BY <1>4, <2>2, <2>4
  <2>7. metrics.of # 0 => Fits(metrics.of, metrics.source)
    BY DEF IndInv, NumbersFit
  <2> QED
    BY <1>1, <2>5, <2>6, <2>7 DEF NumbersFit, Fits
<1>11. Alone'
  <2>1. SUFFICES ASSUME ~overlapped PROVE AloneKnown(s)' /\ fired = s
    BY <1>1 DEF Alone
  <2>2. s = fired /\ AloneKnown(s)
    BY <1>2, <2>1, LastActs DEF NextOut
  <2>3. Shown \in Nat /\ Shown <= Sent(s) /\ Shown' = Shown /\ (Waiting <=> Waiting')
    BY <1>1, <2>2, ShownSent DEF Shown, Waiting
  <2>4. /\ \A r \in All : r < s => at[r] = "done"
        /\ \A i \in DOMAIN chan' : chan'[i].strike = s
    BY <1>c, <1>j, <2>2 DEF AloneKnown
  <2>5. h.kind = "start" => chan = <<>>
    BY <1>2, <2>2 DEF AloneKnown, NextOut
  <2>6. \A i \in DOMAIN chan' : chan'[i].kind = "start" => i = 1
    <3>1. chan = <<>> => n = 1
      BY DEF n
    <3> QED
      BY <1>j, <2>2, <2>5, <3>1 DEF AloneKnown
  <2>7. \A j \in DOMAIN out'[s] : out'[s][j].kind # "start"
    BY <1>2, <1>4 DEF NextOut
  <2>8. StartToCome(s)' <=> StartToCome(s)
    <3>1. h.kind = "start" <=> \E j \in DOMAIN out[s] : out[s][j].kind = "start"
      BY <1>2, SMTT(30) DEF NextOut
    <3> QED
      BY <1>j, <2>7, <3>1 DEF StartToCome
  <2>9. EndToCome(s) => EndToCome(s)'
    <3>1. (\E j \in DOMAIN out[s] : out[s][j].kind = "end") =>
             h.kind = "end" \/ \E j \in DOMAIN q : q[j].kind = "end"
      BY <1>2, SMTT(30) DEF NextOut
    <3> QED
      BY <1>4, <1>j, <3>1 DEF EndToCome
  <2>10. \A i \in DOMAIN chan' : Part(chan'[i]) => Shown < Number(got, chan'[i])
    BY <1>j, <1>s, <2>2, <2>3 DEF AloneKnown
  <2>11. Shown < Sent(s)' =>
            \E k \in DOMAIN chan' : /\ Part(chan'[k]) /\ chan'[k].strike = s
                                    /\ Number(got, chan'[k]) = Shown + 1
    <3>1. CASE Shown < Sent(s)
      BY <1>j, <2>2, <3>1 DEF AloneKnown, OnTheWay
    <3>2. CASE ~(Shown < Sent(s))
      BY <1>c, <1>j, <1>s, <2>3, <3>2
    <3> QED
      BY <3>1, <3>2
  <2>12. OnTheWay(s, Shown + 1)' <=>
            \E k \in DOMAIN chan' : /\ Part(chan'[k]) /\ chan'[k].strike = s
                                    /\ Number(got, chan'[k]) = Shown + 1
    BY <1>1, <2>3 DEF OnTheWay
  <2>13. ~Waiting => \A i \in DOMAIN deck : deck[i].strike = s /\ LineNumber(got, deck[i]) = i
    BY <2>2 DEF AloneKnown
  <2>14. (StartToCome(s) => Waiting) /\ (Waiting /\ first[s] => StartToCome(s))
         /\ (deck = <<>> => first[s])
    BY <2>2 DEF AloneKnown
  <2>15. at[s] \in {"ending", "done"} => EndToCome(s) \/ metrics.of = s
    BY <2>2 DEF AloneKnown
  <2> QED
    BY <1>1, <2>2, <2>3, <2>4, <2>6, <2>7, <2>8, <2>9, <2>10, <2>11, <2>12, <2>13, <2>14, <2>15
       DEF AloneKnown
<1> QED
  BY <1>5, <1>6, <1>7, <1>8, <1>9, <1>10, <1>11 DEF IndInv

------------------------------------------------------------------------------
(* The TUI takes an event.                                                 *)

\* What is left in the channel, and that it is as good as before.
LEMMA TakenLeaves ==
    ASSUME IndInv, Taken
    PROVE  /\ chan \in Seq(Events) /\ chan' \in Seq(Events) /\ Len(chan') <= Capacity
           /\ 1 \in DOMAIN chan /\ Head(chan) = chan[1] /\ chan[1] \in Events
           /\ chan[1].strike \in All
           /\ \A i \in DOMAIN chan' : i + 1 \in DOMAIN chan /\ 1 < i + 1 /\ chan'[i] = chan[i + 1]
           /\ \A i \in DOMAIN chan : i # 1 => \E k \in DOMAIN chan' : chan'[k] = chan[i]
<1>1. chan \in Seq(Events) /\ chan # <<>> /\ chan' = Tail(chan)
      /\ Len(chan) <= Capacity /\ Capacity \in Nat
  BY Constants DEF IndInv, Kinds, TypeOK, Taken
<1>2. Len(chan') <= Capacity
  BY <1>1, Left
<1> QED
  BY <1>1, <1>2, Left, EventKinds

\* Taking an event off the channel leaves the others in their order.
LEMMA TakenInOrder ==
    ASSUME IndInv, Taken, UNCHANGED <<fired, taskVars>>
    PROVE  /\ \A r \in All : PlaceKnown(r)' /\ Sent(r)' = Sent(r)
           /\ \A i \in DOMAIN chan' : KnownEvent(chan'[i])
           /\ \A e \in Events : KnownEvent(e) => KnownEvent(e)'
           /\ \A x \in Lines : KnownLine(x) => KnownLine(x)'
           /\ ChannelInOrder'
<1> USE DEF taskVars
<1>l. /\ 1 \in DOMAIN chan /\ chan[1].strike \in All
      /\ \A i \in DOMAIN chan' : i + 1 \in DOMAIN chan /\ 1 < i + 1 /\ chan'[i] = chan[i + 1]
      /\ \A i \in DOMAIN chan : i # 1 => \E k \in DOMAIN chan' : chan'[k] = chan[i]
  BY TakenLeaves
<1>e. \A i \in DOMAIN chan : chan[i] \in Events /\ chan[i].strike \in All /\ i \in Nat
  BY Member, EventKinds DEF IndInv, Kinds
<1>1. \A r \in All : PlaceKnown(r)'
  BY DEF IndInv, PlaceKnown, Failed
<1>2. \A r \in All : Sent(r)' = Sent(r)
  BY DEF Sent, Parts, Failed
<1>3. \A i \in DOMAIN chan' : KnownEvent(chan'[i])
  BY <1>l DEF IndInv, Known
<1>4. ASSUME NEW e \in Events, KnownEvent(e) PROVE KnownEvent(e)'
  <2>1. Sent(e.strike)' = Sent(e.strike)
    BY <1>2, EventKinds
  <2> QED
    BY <1>4, <2>1 DEF KnownEvent, Failed
<1>5. ASSUME NEW x \in Lines, KnownLine(x) PROVE KnownLine(x)'
  <2>1. Sent(x.strike)' = Sent(x.strike)
    BY DEF Sent, Parts, Failed
  <2> QED
    BY <1>5, <2>1 DEF KnownLine, Failed
<1>6. ChannelInOrder'
  <2>1. ASSUME NEW i \in DOMAIN chan', NEW j \in DOMAIN chan',
               i < j, Part(chan'[i]), Part(chan'[j]), chan'[i].strike = chan'[j].strike
        PROVE  Number(got, chan'[i]) < Number(got, chan'[j])
    <3>1. i \in Nat /\ j \in Nat
      BY Member, TakenLeaves
    <3>2. i + 1 < j + 1
      BY <2>1, <3>1
    <3> QED
      BY <1>l, <2>1, <3>2 DEF IndInv, ChannelInOrder
  <2>2. ASSUME NEW i \in DOMAIN chan', Part(chan'[i]),
               Number(got, chan'[i]) < Sent(chan'[i].strike)
        PROVE  \E k \in DOMAIN chan' : /\ Part(chan'[k]) /\ chan'[k].strike = chan'[i].strike
                                       /\ Number(got, chan'[k]) = Number(got, chan'[i]) + 1
    <3>1. i + 1 \in DOMAIN chan /\ 1 < i + 1 /\ chan'[i] = chan[i + 1]
      BY <1>l
    <3>2. PICK k \in DOMAIN chan : /\ Part(chan[k]) /\ chan[k].strike = chan'[i].strike
                                   /\ Number(got, chan[k]) = Number(got, chan'[i]) + 1
      BY <2>2, <3>1 DEF IndInv, ChannelInOrder, OnTheWay
    <3>3. k # 1
      <4>1. SUFFICES ASSUME k = 1 PROVE FALSE
        OBVIOUS
      <4>2. Number(got, chan[k]) < Number(got, chan'[i])
        BY <2>2, <3>1, <3>2, <4>1 DEF IndInv, ChannelInOrder
      <4>3. Number(got, chan'[i]) \in Nat
        BY <1>3, <1>e, <2>2, <3>1, SentKnown DEF KnownEvent
      <4> QED
        BY <3>2, <4>2, <4>3
    <3> QED
      BY <1>l, <3>2, <3>3
  <2>3. ASSUME NEW i \in DOMAIN chan' PROVE Sent(chan[i].strike)' = Sent(chan'[i].strike)
    <3>1. chan'[i].strike \in All
      BY <1>l, <1>e
    <3> QED
      BY <1>2, <3>1
  <2> QED
    BY <2>1, <2>2, <2>3 DEF ChannelInOrder, OnTheWay
<1> QED
  BY <1>1, <1>2, <1>3, <1>4, <1>5, <1>6

\* Without overlap the start of a reply is taken before anything else of it.
LEMMA NoStartLeft ==
    ASSUME IndInv, Taken, NEW s \in All, AloneKnown(s), chan[1].kind # "start"
    PROVE  ~StartToCome(s)
<1>1. 1 \in DOMAIN chan /\ chan # <<>>
  BY TakenLeaves DEF Taken
<1> QED
  BY <1>1 DEF AloneKnown, StartToCome

\* An event that is no part of a reply may clear the deck, or leaves it.
LEMMA QuietTaken ==
    ASSUME IndInv, Taken, UNCHANGED <<fired, taskVars, overlapped>>, ~Part(chan[1]),
           deck' = deck \/ deck' = <<>>
    PROVE  Known' /\ ChannelInOrder' /\ DeckInOrder'
<1> USE DEF taskVars
<1>l. /\ \A i \in DOMAIN chan' : i + 1 \in DOMAIN chan /\ 1 < i + 1 /\ chan'[i] = chan[i + 1]
      /\ \A i \in DOMAIN chan : i # 1 => \E k \in DOMAIN chan' : chan'[k] = chan[i]
      /\ chan' \in Seq(Events)
  BY TakenLeaves
<1>o. /\ \A r \in All : Sent(r)' = Sent(r)
      /\ \A i \in DOMAIN chan' : KnownEvent(chan'[i])
      /\ \A e \in Events : KnownEvent(e) => KnownEvent(e)'
      /\ \A x \in Lines : KnownLine(x) => KnownLine(x)'
      /\ ChannelInOrder'
  BY TakenInOrder
<1>d. \A i \in DOMAIN deck' : /\ i \in DOMAIN deck /\ deck'[i] = deck[i] /\ deck[i] \in Lines
                              /\ deck[i].strike # 0 => deck[i].strike \in All
  BY Member, LineKinds, Constants DEF IndInv, Kinds
<1>c. \A i \in DOMAIN chan' : chan'[i] \in Events
  BY <1>l, Member
<1>1. Known'
  BY <1>o, <1>d, <1>c DEF IndInv, Known
<1>2. DeckInOrder'
  <2>1. CASE deck' = <<>>
    BY <2>1 DEF DeckInOrder
  <2>2. CASE deck' = deck
    <3>1. ASSUME NEW i \in DOMAIN deck, NEW j \in DOMAIN chan',
                 Part(chan'[j]), deck[i].strike = chan'[j].strike
          PROVE  LineNumber(got, deck[i]) < Number(got, chan'[j])
      BY <1>l, <3>1 DEF IndInv, DeckInOrder
    <3>2. ASSUME NEW i \in DOMAIN deck,
                 deck[i].strike # 0, LineNumber(got, deck[i]) < Sent(deck[i].strike)
          PROVE  \/ OnTheDeck(deck[i].strike, LineNumber(got, deck[i]) + 1)
                 \/ \E k \in DOMAIN chan' : /\ Part(chan'[k]) /\ chan'[k].strike = deck[i].strike
                                            /\ Number(got, chan'[k]) = LineNumber(got, deck[i]) + 1
      BY <1>l, <3>2 DEF IndInv, DeckInOrder, OnTheWay
    <3>3. ASSUME NEW i \in DOMAIN deck, deck[i].strike # 0
          PROVE  Sent(deck[i].strike)' = Sent(deck[i].strike)
      BY <1>o, <1>d, <2>2, <3>3
    <3>4. DeckInOrder
      BY DEF IndInv
    <3> QED
      BY <2>2, <3>1, <3>2, <3>3, <3>4 DEF DeckInOrder, OnTheDeck, OnTheWay
  <2> QED
    BY <2>1, <2>2
<1> QED
  BY <1>o, <1>1, <1>2

\* A strike that is alone goes on alone, and nothing is left of the start of its reply.
LEMMA TakenAlone ==
    ASSUME IndInv, Taken, UNCHANGED <<fired, taskVars, overlapped>>, NEW s \in All, AloneKnown(s)
    PROVE  /\ chan[1].strike = s
           /\ \A r \in All : r < s => at'[r] = "done"
           /\ \A i \in DOMAIN chan' : chan'[i].strike = s /\ chan'[i].kind # "start"
           /\ \A j \in DOMAIN out'[s] : out'[s][j].kind # "start"
           /\ ~StartToCome(s)'
           /\ chan[1].kind # "end" /\ EndToCome(s) => EndToCome(s)'
<1> USE DEF taskVars
<1>l. /\ 1 \in DOMAIN chan /\ chan # <<>>
      /\ \A i \in DOMAIN chan' : i + 1 \in DOMAIN chan /\ 1 < i + 1 /\ chan'[i] = chan[i + 1]
      /\ \A i \in DOMAIN chan : i # 1 => \E k \in DOMAIN chan' : chan'[k] = chan[i]
  BY TakenLeaves DEF Taken
<1>1. \A i \in DOMAIN chan' : chan'[i].strike = s /\ chan'[i].kind # "start"
  BY <1>l DEF AloneKnown
<1>2. \A j \in DOMAIN out'[s] : out'[s][j].kind # "start"
  BY <1>l DEF AloneKnown
<1>3. ~StartToCome(s)'
  BY <1>1, <1>2 DEF StartToCome
<1>4. chan[1].kind # "end" /\ EndToCome(s) => EndToCome(s)'
  BY <1>l DEF EndToCome
<1>5. chan[1].strike = s /\ \A r \in All : r < s => at'[r] = "done"
  BY <1>l DEF AloneKnown
<1> QED
  BY <1>1, <1>2, <1>3, <1>4, <1>5

\* The numbers that fit a strike stay its own.
LEMMA TakenFits ==
    ASSUME IndInv, Taken, UNCHANGED <<fired, taskVars>>,
           metrics' = metrics \/ (metrics'.of # 0 => Fits(metrics'.of, metrics'.source))
    PROVE  NumbersFit'
<1> USE DEF taskVars
<1>1. \A i \in DOMAIN chan' : i + 1 \in DOMAIN chan /\ chan'[i] = chan[i + 1]
  BY TakenLeaves
<1>2. \A i \in DOMAIN chan' : chan'[i].kind = "end" => Fits(chan'[i].strike, chan'[i].source)
  BY <1>1 DEF IndInv, NumbersFit
<1>3. \A s \in All : \A j \in DOMAIN out'[s] : out'[s][j].kind = "end" => Fits(s, out'[s][j].source)
  BY DEF IndInv, NumbersFit
<1>4. metrics'.of # 0 => Fits(metrics'.of, metrics'.source)
  BY DEF IndInv, NumbersFit
<1> QED
  BY <1>2, <1>3, <1>4 DEF NumbersFit, Fits

\* A start clears the deck before any part of its reply.
LEMMA OnStartStep ==
    ASSUME IndInv, OnStart
    PROVE  IndInv'
<1>1. /\ Taken /\ chan[1].kind = "start" /\ deck' = <<>>
      /\ UNCHANGED <<fired, taskVars, metrics, overlapped>>
  BY TakenLeaves DEF OnStart
<1>l. /\ chan' \in Seq(Events) /\ Len(chan') <= Capacity /\ 1 \in DOMAIN chan /\ chan[1].strike \in All
      /\ \A i \in DOMAIN chan' : i + 1 \in DOMAIN chan /\ 1 < i + 1 /\ chan'[i] = chan[i + 1]
      /\ \A i \in DOMAIN chan : i # 1 => \E k \in DOMAIN chan' : chan'[k] = chan[i]
  BY <1>1, TakenLeaves
<1>2. TypeOK' /\ Kinds'
  BY <1>1, <1>l DEF IndInv, TypeOK, Kinds, taskVars
<1>3. \A r \in All : PlaceKnown(r)' /\ Sent(r)' = Sent(r)
  BY <1>1, TakenInOrder
<1>4. Known' /\ ChannelInOrder' /\ DeckInOrder'
  BY <1>1, QuietTaken DEF Part
<1>5. NumbersFit'
  <2>1. metrics' = metrics
    BY <1>1
  <2> QED
    BY <1>1, <2>1, TakenFits
<1>6. Alone'
  <2>1. SUFFICES ASSUME ~overlapped, fired > 0 PROVE AloneKnown(fired)'
    BY <1>1 DEF Alone
  <2>s. PICK s \in All : s = fired
    BY <2>1, Constants DEF IndInv, TypeOK
  <2>2. AloneKnown(s)
    BY <2>1, <2>s DEF IndInv, Alone
  <2>3. /\ chan[1].strike = s /\ \A r \in All : r < s => at'[r] = "done"
        /\ \A i \in DOMAIN chan' : chan'[i].strike = s /\ chan'[i].kind # "start"
        /\ \A j \in DOMAIN out'[s] : out'[s][j].kind # "start"
        /\ ~StartToCome(s)' /\ (EndToCome(s) => EndToCome(s)')
    BY <1>1, <2>2, TakenAlone
  <2>4. first[s] /\ Waiting
    BY <1>1, <1>l, <2>2, <2>3 DEF IndInv, Known, KnownEvent, AloneKnown, StartToCome
  <2>5. Shown = 0 /\ Shown' = 0 /\ ~Waiting'
    BY <1>1, <2>4 DEF Shown, Waiting
  <2>6. \A i \in DOMAIN chan' : Part(chan'[i]) => 0 < Number(got, chan'[i])
    BY <1>l, <2>2, <2>5 DEF AloneKnown
  <2>7. 0 < Sent(s) => \E i \in DOMAIN chan' : /\ Part(chan'[i]) /\ chan'[i].strike = s
                                               /\ Number(got, chan'[i]) = 1
    BY <1>1, <1>l, <2>2, <2>5 DEF AloneKnown, OnTheWay, Part
  <2>8. Sent(s)' = Sent(s) /\ got' = got /\ (OnTheWay(s, 1)' <=>
           \E i \in DOMAIN chan' : /\ Part(chan'[i]) /\ chan'[i].strike = s
                                   /\ Number(got, chan'[i]) = 1)
    BY <1>1, <1>3 DEF OnTheWay, taskVars
  <2>9. at[s] \in {"ending", "done"} => EndToCome(s) \/ metrics.of = s
    BY <2>2 DEF AloneKnown
  <2>10. AloneKnown(s)'
    <3>1. (Shown + 1)' = 1
      BY <2>5
    <3> QED
      BY <1>1, <2>3, <2>4, <2>5, <2>6, <2>7, <2>8, <2>9, <3>1 DEF AloneKnown, OnTheWay, taskVars
  <2> QED
    BY <1>1, <2>s, <2>10
<1> QED
  BY <1>2, <1>3, <1>4, <1>5, <1>6 DEF IndInv

\* An end changes the numbers and no line.
LEMMA OnEndStep ==
    ASSUME IndInv, OnEnd
    PROVE  IndInv'
<1>1. /\ Taken /\ chan[1].kind = "end" /\ deck' = deck
      /\ metrics' = [of |-> chan[1].strike, source |-> chan[1].source]
      /\ UNCHANGED <<fired, taskVars, overlapped>>
  BY TakenLeaves DEF OnEnd
<1>l. /\ chan' \in Seq(Events) /\ Len(chan') <= Capacity /\ 1 \in DOMAIN chan /\ chan[1].strike \in All
      /\ \A i \in DOMAIN chan' : i + 1 \in DOMAIN chan /\ 1 < i + 1 /\ chan'[i] = chan[i + 1]
      /\ \A i \in DOMAIN chan : i # 1 => \E k \in DOMAIN chan' : chan'[k] = chan[i]
      /\ chan[1] \in Events
  BY <1>1, TakenLeaves
<1>m. metrics'.of = chan[1].strike /\ metrics'.source = chan[1].source
      /\ metrics'.of \in 0..Strikes /\ metrics' \in [of : 0..Strikes, source : Origins]
  BY <1>1, <1>l, EventKinds, Constants
<1>2. TypeOK' /\ Kinds'
  BY <1>1, <1>l, <1>m DEF IndInv, TypeOK, Kinds, taskVars
<1>3. \A r \in All : PlaceKnown(r)' /\ Sent(r)' = Sent(r)
  BY <1>1, TakenInOrder
<1>4. Known' /\ ChannelInOrder' /\ DeckInOrder'
  BY <1>1, QuietTaken DEF Part
<1>5. NumbersFit'
  <2>1. Fits(metrics'.of, metrics'.source)
    BY <1>1, <1>l, <1>m DEF IndInv, NumbersFit
  <2> QED
    BY <1>1, <2>1, TakenFits
<1>6. Alone'
  <2>1. SUFFICES ASSUME ~overlapped, fired > 0 PROVE AloneKnown(fired)'
    BY <1>1 DEF Alone
  <2>s. PICK s \in All : s = fired
    BY <2>1, Constants DEF IndInv, TypeOK
  <2>2. AloneKnown(s)
    BY <2>1, <2>s DEF IndInv, Alone
  <2>3. /\ chan[1].strike = s /\ \A r \in All : r < s => at'[r] = "done"
        /\ \A i \in DOMAIN chan' : chan'[i].strike = s /\ chan'[i].kind # "start"
        /\ \A j \in DOMAIN out'[s] : out'[s][j].kind # "start"
        /\ ~StartToCome(s)'
    BY <1>1, <2>2, TakenAlone
  <2>4. ~StartToCome(s)
    BY <1>1, <2>2, NoStartLeft
  <2>5. Shown' = Shown /\ (Waiting <=> Waiting') /\ Shown \in Nat
    BY <1>1, <2>2, ShownSent DEF Shown, Waiting
  <2>6. \A i \in DOMAIN chan' : Part(chan'[i]) => Shown < Number(got, chan'[i])
    BY <1>l, <2>2 DEF AloneKnown
  <2>7. Shown < Sent(s) => \E i \in DOMAIN chan' : /\ Part(chan'[i]) /\ chan'[i].strike = s
                                                   /\ Number(got, chan'[i]) = Shown + 1
    BY <1>1, <1>l, <2>2 DEF AloneKnown, OnTheWay, Part
  <2>8. ~Waiting => \A i \in DOMAIN deck : deck[i].strike = s /\ LineNumber(got, deck[i]) = i
    BY <2>2 DEF AloneKnown
  <2>9. Sent(s)' = Sent(s) /\ got' = got /\ first' = first
    BY <1>1, <1>3 DEF taskVars
  <2>10. (Waiting => ~first[s]) /\ (deck = <<>> => first[s])
    BY <2>2, <2>4 DEF AloneKnown
  <2>11. metrics'.of = s
    BY <1>m, <2>3
  <2>12. AloneKnown(s)'
    BY <1>1, <2>3, <2>5, <2>6, <2>7, <2>8, <2>9, <2>10, <2>11 DEF AloneKnown, OnTheWay
  <2> QED
    BY <1>1, <2>s, <2>12
<1> QED
  BY <1>2, <1>3, <1>4, <1>5, <1>6 DEF IndInv

\* A part of a reply moves from the head of the channel to the end of the deck.
LEMMA PartTaken ==
    ASSUME IndInv, Taken, UNCHANGED <<fired, taskVars, metrics, overlapped>>, Part(chan[1]),
           NEW d, d = deck \/ (Waiting /\ d = <<>>), ~overlapped /\ Waiting => d = <<>>,
           NEW x \in Lines, x.strike = chan[1].strike, KnownLine(x),
           LineNumber(got, x) = Number(got, chan[1]), deck' = Append(d, x)
    PROVE  IndInv'
<1> DEFINE n == Len(d) + 1
<1>l. /\ chan' \in Seq(Events) /\ Len(chan') <= Capacity /\ 1 \in DOMAIN chan /\ chan[1].strike \in All
      /\ \A i \in DOMAIN chan' : i + 1 \in DOMAIN chan /\ 1 < i + 1 /\ chan'[i] = chan[i + 1]
      /\ \A i \in DOMAIN chan : i # 1 => \E k \in DOMAIN chan' : chan'[k] = chan[i]
      /\ chan[1] \in Events
  BY TakenLeaves
<1>u. /\ fired' = fired /\ got' = got /\ first' = first /\ at' = at /\ timed' = timed
      /\ fate' = fate /\ out' = out /\ metrics' = metrics /\ overlapped' = overlapped
  BY DEF taskVars
<1>d. d \in Seq(Lines)
  <2>1. deck \in Seq(Lines) /\ <<>> \in Seq(Lines)
    BY DEF IndInv, Kinds
  <2> QED
    BY <2>1
<1>j. /\ deck' \in Seq(Lines) /\ Len(deck') = n /\ n \in Nat /\ Len(d) \in Nat /\ deck' # <<>>
      /\ \A i \in DOMAIN deck' : \/ i \in DOMAIN d /\ i < n /\ deck'[i] = d[i]
                                 \/ i = n /\ deck'[i] = x
      /\ \A i \in DOMAIN d : i \in DOMAIN deck' /\ deck'[i] = d[i]
      /\ n \in DOMAIN deck' /\ deck'[n] = x
  BY <1>d, Joined DEF n
<1> HIDE DEF n
<1>o. \A i \in DOMAIN d : i \in DOMAIN deck /\ deck[i] = d[i] /\ deck[i] \in Lines
  BY <1>d, Member
<1>k. \A i \in DOMAIN deck : deck[i].strike # 0 => i \in DOMAIN deck' /\ deck'[i] = deck[i]
  <2>1. CASE d = deck
    BY <1>j, <2>1
  <2>2. CASE Waiting
    <3>1. \A i \in DOMAIN deck : deck[i] = Sending
      BY <2>2, Tuples DEF Waiting
    <3> QED
      BY <3>1, LineKinds
  <2> QED
    BY <2>1, <2>2
<1>1. TypeOK' /\ Kinds'
  BY <1>l, <1>j, <1>u DEF IndInv, TypeOK, Kinds
<1>2. /\ \A r \in All : PlaceKnown(r)' /\ Sent(r)' = Sent(r)
      /\ \A i \in DOMAIN chan' : KnownEvent(chan'[i])
      /\ \A e \in Events : KnownEvent(e) => KnownEvent(e)'
      /\ \A y \in Lines : KnownLine(y) => KnownLine(y)'
      /\ ChannelInOrder'
  BY TakenInOrder
<1>s. x.strike \in All /\ x.strike # 0 /\ LineNumber(got, x) \in Nat /\ Sent(x.strike) \in Nat
      /\ LineNumber(got, x) <= Sent(x.strike) /\ LineNumber(got, x) > 0
  BY <1>l, SentKnown, Constants DEF KnownLine
<1>c. /\ \A i \in DOMAIN chan' : chan'[i] \in Events
      /\ \A i \in DOMAIN deck' : /\ deck'[i] \in Lines
                                /\ deck'[i].strike # 0 => deck'[i].strike \in All
  BY <1>l, <1>j, Member, LineKinds, Constants
<1>3. Known'
  BY <1>j, <1>o, <1>2, <1>c DEF IndInv, Known
<1>4. DeckInOrder'
  <2>1. ASSUME NEW i \in DOMAIN deck', NEW j \in DOMAIN deck',
               i < j, deck'[i].strike # 0, deck'[i].strike = deck'[j].strike
        PROVE  LineNumber(got, deck'[i]) < LineNumber(got, deck'[j])
    <3>1. i \in DOMAIN d /\ deck'[i] = d[i] /\ deck[i] = d[i] /\ i \in DOMAIN deck
      <4>1. i \in Nat /\ j \in Nat /\ j <= n
        BY <1>j
      <4> QED
        BY <1>j, <1>o, <2>1, <4>1
    <3>2. CASE j \in DOMAIN d /\ deck'[j] = d[j]
      BY <1>o, <2>1, <3>1, <3>2 DEF IndInv, DeckInOrder
    <3>3. CASE deck'[j] = x
      BY <1>l, <2>1, <3>1, <3>3 DEF IndInv, DeckInOrder
    <3> QED
      BY <1>j, <3>2, <3>3
  <2>2. ASSUME NEW i \in DOMAIN deck', NEW j \in DOMAIN chan',
               Part(chan'[j]), deck'[i].strike = chan'[j].strike
        PROVE  LineNumber(got, deck'[i]) < Number(got, chan'[j])
    <3>1. CASE i \in DOMAIN d /\ deck'[i] = d[i]
      BY <1>l, <1>o, <2>2, <3>1 DEF IndInv, DeckInOrder
    <3>2. CASE deck'[i] = x
      BY <1>l, <2>2, <3>2 DEF IndInv, ChannelInOrder
    <3> QED
      BY <1>j, <3>1, <3>2
  <2>3. ASSUME NEW r \in All, NEW m,
               \/ OnTheDeck(r, m)
               \/ OnTheWay(r, m)
        PROVE  \/ \E k \in DOMAIN deck' : deck'[k].strike = r /\ LineNumber(got, deck'[k]) = m
               \/ \E k \in DOMAIN chan' : /\ Part(chan'[k]) /\ chan'[k].strike = r
                                          /\ Number(got, chan'[k]) = m
    <3>0. r # 0
      BY Constants
    <3>1. CASE OnTheDeck(r, m)
      BY <1>k, <3>0, <3>1 DEF OnTheDeck
    <3>2. CASE OnTheWay(r, m)
      BY <1>l, <1>j, <3>2 DEF OnTheWay
    <3> QED
      BY <2>3, <3>1, <3>2
  <2>4. ASSUME NEW i \in DOMAIN deck',
               deck'[i].strike # 0, LineNumber(got, deck'[i]) < Sent(deck'[i].strike)
        PROVE  \/ \E k \in DOMAIN deck' : /\ deck'[k].strike = deck'[i].strike
                                          /\ LineNumber(got, deck'[k]) = LineNumber(got, deck'[i]) + 1
               \/ \E k \in DOMAIN chan' : /\ Part(chan'[k]) /\ chan'[k].strike = deck'[i].strike
                                          /\ Number(got, chan'[k]) = LineNumber(got, deck'[i]) + 1
    <3>1. deck'[i].strike \in All
      BY <1>j, <2>4, Member, LineKinds, Constants
    <3>2. CASE i \in DOMAIN d /\ deck'[i] = d[i]
      <4>1. \/ OnTheDeck(deck'[i].strike, LineNumber(got, deck'[i]) + 1)
            \/ OnTheWay(deck'[i].strike, LineNumber(got, deck'[i]) + 1)
        BY <1>o, <2>4, <3>2 DEF IndInv, DeckInOrder
      <4> QED
        BY <2>3, <3>1, <4>1
    <3>3. CASE deck'[i] = x
      <4>1. OnTheWay(x.strike, LineNumber(got, x) + 1)
        BY <1>l, <2>4, <3>3 DEF IndInv, ChannelInOrder
      <4> QED
        BY <2>3, <3>1, <3>3, <4>1
    <3> QED
      BY <1>j, <3>2, <3>3
  <2>5. ASSUME NEW i \in DOMAIN deck', deck'[i].strike # 0
        PROVE  Sent(deck[i].strike)' = Sent(deck'[i].strike)
    <3>1. deck'[i] \in Lines
      BY <1>j, <2>5, Member
    <3>2. deck'[i].strike \in All
      BY <2>5, <3>1, LineKinds, Constants
    <3> QED
      BY <1>2, <3>2
  <2> QED
    BY <1>u, <2>1, <2>2, <2>4, <2>5 DEF DeckInOrder, OnTheDeck, OnTheWay
<1>5. NumbersFit'
  BY <1>u, TakenFits
<1>6. Alone'
  <2>1. SUFFICES ASSUME ~overlapped, fired > 0 PROVE AloneKnown(fired)'
    BY <1>u DEF Alone
  <2>s. PICK s \in All : s = fired
    BY <2>1, Constants DEF IndInv, TypeOK
  <2>2. AloneKnown(s)
    BY <2>1, <2>s DEF IndInv, Alone
  <2>3. /\ chan[1].strike = s /\ \A r \in All : r < s => at'[r] = "done"
        /\ \A i \in DOMAIN chan' : chan'[i].strike = s /\ chan'[i].kind # "start"
        /\ \A j \in DOMAIN out'[s] : out'[s][j].kind # "start"
        /\ ~StartToCome(s)' /\ (EndToCome(s) => EndToCome(s)')
    BY <2>2, TakenAlone DEF Part
  <2>4. Shown \in Nat /\ Len(d) = Shown /\ (d = deck \/ d = <<>>)
    BY <1>d, <2>1, <2>2, ShownSent DEF Shown
  <2>5. LineNumber(got, x) = Shown + 1
    <3>1. Shown < LineNumber(got, x)
      BY <1>l, <2>2 DEF AloneKnown
    <3>2. PICK k \in DOMAIN chan : /\ Part(chan[k]) /\ chan[k].strike = s
                                   /\ Number(got, chan[k]) = Shown + 1
      BY <1>s, <2>2, <2>3, <2>4, <3>1 DEF AloneKnown, OnTheWay
    <3>3. k = 1
      <4>1. SUFFICES ASSUME k # 1 PROVE FALSE
        OBVIOUS
      <4>2. 1 < k
        BY <4>1, Member DEF IndInv, Kinds
      <4>3. LineNumber(got, x) < Shown + 1
        BY <1>l, <2>3, <3>2, <4>2 DEF IndInv, ChannelInOrder
      <4> QED
        BY <1>s, <2>4, <3>1, <4>3
    <3> QED
      BY <3>2, <3>3
  <2>6. ~Waiting' /\ Shown' = Shown + 1
    <3>1. ~Waiting'
      <4>1. SUFFICES ASSUME deck' = <<Sending>> PROVE FALSE
        BY DEF Waiting
      <4>2. x = Sending
        BY <1>j, <4>1, Tuples
      <4> QED
        BY <1>s, <4>2, LineKinds
    <3> QED
      BY <1>j, <2>4, <3>1 DEF Shown, n
  <2>7. \A i \in DOMAIN deck' : deck'[i].strike = s /\ LineNumber(got, deck'[i]) = i
    <3>1. ASSUME NEW i \in DOMAIN d PROVE d[i].strike = s /\ LineNumber(got, d[i]) = i
      <4>1. ~Waiting
        BY <1>o, <2>1
      <4> QED
        BY <1>o, <2>2, <4>1 DEF AloneKnown
    <3> QED
      BY <1>j, <2>3, <2>4, <2>5, <3>1 DEF n
  <2>8. \A i \in DOMAIN chan' : Part(chan'[i]) => Shown + 1 < Number(got, chan'[i])
    BY <1>l, <2>3, <2>5, ZenonT(60) DEF IndInv, ChannelInOrder
  <2>9. Shown + 1 < Sent(s) => \E k \in DOMAIN chan' : /\ Part(chan'[k]) /\ chan'[k].strike = s
                                                       /\ Number(got, chan'[k]) = (Shown + 1) + 1
    <3>1. SUFFICES ASSUME Shown + 1 < Sent(s)
                   PROVE  \E k \in DOMAIN chan' : /\ Part(chan'[k]) /\ chan'[k].strike = s
                                                  /\ Number(got, chan'[k]) = (Shown + 1) + 1
      OBVIOUS
    <3>2. PICK k \in DOMAIN chan : /\ Part(chan[k]) /\ chan[k].strike = s
                                   /\ Number(got, chan[k]) = (Shown + 1) + 1
      <4>1. /\ 1 \in DOMAIN chan /\ Part(chan[1]) /\ chan[1].strike = s
            /\ Number(got, chan[1]) = Shown + 1
        BY <1>l, <2>3, <2>5
      <4>2. OnTheWay(chan[1].strike, Number(got, chan[1]) + 1)
        BY <3>1, <4>1 DEF IndInv, ChannelInOrder
      <4> QED
        BY <4>1, <4>2 DEF OnTheWay
    <3>3. k # 1
      <4>1. SUFFICES ASSUME k = 1 PROVE FALSE
        OBVIOUS
      <4>2. LineNumber(got, x) = (Shown + 1) + 1
        BY <3>2, <4>1
      <4> QED
        BY <2>4, <2>5, <4>2
    <3> QED
      BY <1>l, <3>2, <3>3
  <2>10. (OnTheWay(s, Shown + 1)' <=>
            \E k \in DOMAIN chan' : /\ Part(chan'[k]) /\ chan'[k].strike = s
                                    /\ Number(got, chan'[k]) = (Shown + 1) + 1)
         /\ Sent(s)' = Sent(s)
    BY <1>u, <1>2, <2>6 DEF OnTheWay
  <2>11. at[s] \in {"ending", "done"} => EndToCome(s) \/ metrics.of = s
    BY <2>2 DEF AloneKnown
  <2>12. AloneKnown(s)'
    BY <1>u, <1>j, <2>3, <2>6, <2>7, <2>8, <2>9, <2>10, <2>11 DEF AloneKnown
  <2> QED
    BY <1>u, <2>s, <2>12
<1> QED
  BY <1>1, <1>2, <1>3, <1>4, <1>5, <1>6 DEF IndInv

\* A token goes to the end of the deck.
LEMMA OnChunkStep ==
    ASSUME IndInv, OnChunk
    PROVE  IndInv'
<1> DEFINE e == chan[1]
           x == Token(e.strike, e.token)
<1>1. /\ Taken /\ e.kind = "chunk" /\ deck' = Append(deck, x)
      /\ UNCHANGED <<fired, taskVars, metrics, overlapped>>
  BY TakenLeaves DEF OnChunk
<1>2. 1 \in DOMAIN chan /\ e \in Events /\ e.strike \in All /\ KnownEvent(e) /\ e.token \in 1..Tokens
  BY <1>1, TakenLeaves, EventKinds DEF IndInv, Known
<1>3. x \in Lines /\ x.strike = e.strike /\ x.token = e.token /\ x.token # 0
  BY <1>2, LineKinds, Constants
<1> HIDE DEF x
<1>4. LineNumber(got, x) = Number(got, e) /\ Part(e)
  BY <1>1, <1>3 DEF LineNumber, Number, Part
<1>5. KnownLine(x)
  BY <1>1, <1>2, <1>3, <1>4 DEF KnownLine, KnownEvent
<1>6. ~overlapped => ~Waiting
  <2>1. SUFFICES ASSUME ~overlapped PROVE ~Waiting
    OBVIOUS
  <2>2. fired \in Nat /\ fired > 0
    BY <1>2, Constants DEF KnownEvent, IndInv, TypeOK
  <2>3. AloneKnown(fired) /\ fired \in All
    BY <2>1, <2>2, Constants DEF IndInv, Alone, TypeOK
  <2>4. e.strike = fired /\ first[e.strike]
    BY <1>1, <1>2, <2>3 DEF AloneKnown, KnownEvent
  <2>5. ~StartToCome(fired)
    BY <1>1, <2>3, NoStartLeft
  <2> QED
    BY <2>3, <2>4, <2>5 DEF AloneKnown
<1> QED
  BY <1>1, <1>3, <1>4, <1>5, <1>6, PartTaken

\* So does a failure, and it replaces the word of a strike being sent.
LEMMA OnErrorStep ==
    ASSUME IndInv, OnError
    PROVE  IndInv'
<1> DEFINE e == chan[1]
           x == Failure(e.strike)
           d == IF deck = <<Sending>> THEN <<>> ELSE deck
<1>1. /\ Taken /\ e.kind = "error" /\ deck' = Append(d, x)
      /\ UNCHANGED <<fired, taskVars, metrics, overlapped>>
  BY TakenLeaves DEF OnError
<1>2. 1 \in DOMAIN chan /\ e \in Events /\ e.strike \in All /\ KnownEvent(e)
  BY <1>1, TakenLeaves DEF IndInv, Known
<1>3. x \in Lines /\ x.strike = e.strike /\ x.token = 0
  BY <1>2, LineKinds
<1>d. (d = deck \/ (Waiting /\ d = <<>>)) /\ (Waiting => d = <<>>)
  BY DEF Waiting
<1> HIDE DEF x, d
<1>4. LineNumber(got, x) = Number(got, e) /\ Part(e)
  BY <1>1, <1>3 DEF LineNumber, Number, Part
<1>5. KnownLine(x)
  <2>1. got[e.strike] \in Nat
    BY <1>2, SentKnown, Constants
  <2> QED
    BY <1>1, <1>2, <1>3, <1>4, <2>1 DEF KnownLine, KnownEvent
<1> QED
  BY <1>1, <1>3, <1>d, <1>4, <1>5, PartTaken

------------------------------------------------------------------------------
(* The theorems.                                                           *)

\* The invariant all the rest follows from: the parts of each reply pass the channel
\* to the deck in order and without a gap, whoever else fires.
THEOREM Inductive == Spec => []IndInv
<1>1. Init => IndInv
  BY InitInv
<1>2. IndInv /\ [Next]_vars => IndInv'
  <2>1. SUFFICES ASSUME IndInv, [Next]_vars PROVE IndInv'
    OBVIOUS
  <2>2. CASE Enter
    BY <2>1, <2>2, EnterStep
  <2>3. CASE OnStart
    BY <2>1, <2>3, OnStartStep
  <2>4. CASE OnChunk
    BY <2>1, <2>4, OnChunkStep
  <2>5. CASE OnEnd
    BY <2>1, <2>5, OnEndStep
  <2>6. CASE OnError
    BY <2>1, <2>6, OnErrorStep
  <2>7. ASSUME NEW s \in All, Strike(s) PROVE IndInv'
    <3>1. CASE Fail(s) \/ End(s) \/ Aborted(s)
      BY <2>1, <3>1, EndSteps
    <3>2. CASE Accepted(s)
      BY <2>1, <3>2, AcceptedStep
    <3>3. CASE Chunk(s)
      BY <2>1, <3>3, ChunkStep
    <3>4. CASE Send(s)
      BY <2>1, <3>4, SendStep
    <3>5. CASE Return(s)
      BY <2>1, <3>5, ReturnStep
    <3> QED
      BY <2>7, <3>1, <3>2, <3>3, <3>4, <3>5 DEF Strike
  <2>8. CASE UNCHANGED vars
    <3>1. Grows /\ UNCHANGED <<fired, chan, deck>>
      BY <2>1, <2>8, SentKnown, Constants DEF Grows, vars, taskVars, deckVars, Sent, Parts, Failed
    <3>2. Known' /\ ChannelInOrder' /\ DeckInOrder'
      BY <2>1, <3>1, GrowsInOrder
    <3>3. TypeOK' /\ Kinds' /\ (\A s \in All : PlaceKnown(s)') /\ NumbersFit'
      <4>1. TypeOK /\ Kinds /\ (\A s \in All : PlaceKnown(s)) /\ NumbersFit
        BY <2>1 DEF IndInv
      <4>2. TypeOK' /\ Kinds'
        BY <2>8, <4>1 DEF vars, taskVars, deckVars, TypeOK, Kinds
      <4>3. \A s \in All : PlaceKnown(s)'
        BY <2>8, <4>1 DEF vars, taskVars, deckVars, PlaceKnown, Failed
      <4>4. NumbersFit'
        BY <2>8, <4>1 DEF vars, taskVars, deckVars, NumbersFit, Fits
      <4> QED
        BY <4>2, <4>3, <4>4
    <3>4. Alone'
      <4>1. Alone
        BY <2>1 DEF IndInv
      <4> QED
        BY <2>8, <4>1 DEF vars, taskVars, deckVars, Alone, AloneKnown, StartToCome, EndToCome, Waiting,
               Shown, Sent, Parts, Failed, OnTheWay
    <3> QED
      BY <3>2, <3>3, <3>4 DEF IndInv
  <2> QED
    BY <2>1, <2>2, <2>3, <2>4, <2>5, <2>6, <2>7, <2>8 DEF Next
<1> QED
  BY <1>1, <1>2, PTL DEF Spec

\* Every variable keeps its type and the event channel its capacity (main.rs:90).
THEOREM TypeCorrect == Spec => []TypeOK
<1>1. IndInv => TypeOK
  BY DEF IndInv
<1> QED
  BY <1>1, Inductive, PTL

\* Replies that mix on the deck are each in order (main.rs:485): the neighbours of a
\* reply have neighbouring numbers, since the next part is on the deck or still comes.
THEOREM RepliesOrdered == Spec => []RepliesInOrder
<1>1. IndInv => RepliesInOrder
  <2>1. SUFFICES ASSUME IndInv, NEW s \in 1..fired, NEW i \in DOMAIN deck, NEW j \in DOMAIN deck,
                        i < j, deck[i].strike = s, deck[j].strike = s,
                        \A k \in DOMAIN deck : i < k /\ k < j => deck[k].strike # s
                 PROVE  deck[i].token # 0 /\ deck[j].token \in {0, deck[i].token + 1}
    BY DEF RepliesInOrder
  <2>2. s \in All /\ s # 0 /\ got[s] \in Nat /\ Sent(s) \in Nat /\ Sent(s) <= got[s] + 1
    BY <2>1, SentKnown, Constants DEF IndInv, TypeOK
  <2>3. /\ LineNumber(got, deck[i]) \in 1..Sent(s) /\ LineNumber(got, deck[j]) \in 1..Sent(s)
        /\ LineNumber(got, deck[i]) < LineNumber(got, deck[j])
    BY <2>1, <2>2 DEF IndInv, Known, KnownLine, DeckInOrder
  <2>4. deck[i].token # 0 /\ LineNumber(got, deck[i]) = deck[i].token
    BY <2>1, <2>2, <2>3 DEF LineNumber
  <2>5. LineNumber(got, deck[j]) = deck[i].token + 1
    <3>1. PICK m \in Nat : m = deck[i].token
      BY <2>3, <2>4
    <3>2. ~OnTheWay(s, m + 1)
      <4>1. SUFFICES ASSUME NEW k \in DOMAIN chan, Part(chan[k]), chan[k].strike = s,
                            Number(got, chan[k]) = m + 1
                     PROVE  FALSE
        BY DEF OnTheWay
      <4>2. LineNumber(got, deck[j]) < m + 1
        BY <2>1, <4>1 DEF IndInv, DeckInOrder
      <4> QED
        BY <2>3, <2>4, <3>1, <4>2
    <3>3. OnTheDeck(s, m + 1)
      BY <2>1, <2>2, <2>3, <2>4, <3>1, <3>2 DEF IndInv, DeckInOrder
    <3>4. PICK k \in DOMAIN deck : deck[k].strike = s /\ LineNumber(got, deck[k]) = m + 1
      BY <3>3 DEF OnTheDeck
    <3>5. i \in Nat /\ j \in Nat /\ k \in Nat
      BY <2>1, Member DEF IndInv, Kinds
    <3>6. ~(k < i) /\ ~(j < k) /\ k # i
      <4>1. /\ k < i => m + 1 < m
            /\ j < k => LineNumber(got, deck[j]) < m + 1
        BY <2>1, <2>2, <2>4, <3>1, <3>4 DEF IndInv, DeckInOrder
      <4> QED
        BY <2>3, <2>4, <3>1, <3>4, <4>1
    <3> QED
      BY <2>1, <3>1, <3>4, <3>5, <3>6
  <2> QED
    BY <2>4, <2>5 DEF LineNumber
<1> QED
  BY <1>1, Inductive, PTL

\* What is left on the deck when all is quiet is the whole reply of the last strike, and
\* the numbers beside it are its own (main.rs:478, interrogate.rs:117), if no two overlapped.
THEOREM ReplyShown == Spec => []DeckShowsReply
<1>1. IndInv => DeckShowsReply
  <2>1. SUFFICES ASSUME IndInv, Quiet, fired > 0, ~overlapped
                 PROVE  /\ deck = IF fate[fired] # "whole" THEN Append(Reply(fired), Failure(fired))
                                  ELSE IF first[fired] THEN Reply(fired) ELSE <<Sending>>
                        /\ metrics.of = fired
                        /\ metrics.source = "measured" => timed[fired]
                        /\ metrics.source = "estimated" => deck # <<Sending>> /\ got[fired] > 0
    BY DEF DeckShowsReply
  <2>s. PICK s \in All : s = fired
    BY <2>1, Constants DEF IndInv, TypeOK
  <2>2. AloneKnown(s) /\ PlaceKnown(s) /\ s # 0
    BY <2>1, <2>s, Constants DEF IndInv, Alone
  <2>3. at[s] = "done" /\ out[s] = <<>> /\ chan = <<>> /\ fate[s] \in {"refused", "whole", "cut"}
    <3>1. at[s] = "done"
      BY <2>1, <2>2, <2>s, Constants DEF Quiet, PlaceKnown
    <3> QED
      BY <2>1, <2>2, <3>1 DEF Quiet, PlaceKnown, IndInv, TypeOK
  <2>4. ~StartToCome(s) /\ ~EndToCome(s)
    BY <2>3 DEF StartToCome, EndToCome
  <2>5. Shown = Parts(s) /\ Shown \in Nat /\ got[s] \in Nat
    <3>1. Sent(s) = Parts(s)
      BY <2>3 DEF Sent
    <3>2. ~(Shown < Sent(s))
      BY <2>2, <2>3 DEF AloneKnown, OnTheWay
    <3>3. Shown \in Nat /\ Shown <= Sent(s) /\ Sent(s) \in Nat /\ got[s] \in Nat
      BY <2>1, <2>2, ShownSent, SentKnown, Constants
    <3> QED
      BY <3>1, <3>2, <3>3
  <2>6. ~Waiting => /\ Len(deck) = Parts(s) /\ deck \in Seq(Lines)
                    /\ \A i \in DOMAIN deck : /\ deck[i].strike = s /\ LineNumber(got, deck[i]) = i
                                              /\ deck[i].token <= got[s] /\ deck[i] \in Lines
                                              /\ deck[i].token = 0 => Failed(s)
    BY <2>1, <2>2, <2>5, Member DEF Shown, AloneKnown, IndInv, Kinds, Known, KnownLine
  <2>7. metrics.of = s /\ Fits(s, metrics.source)
    BY <2>1, <2>2, <2>3, <2>4 DEF AloneKnown, IndInv, NumbersFit
  <2>8. Waiting => ~first[s]
    BY <2>2, <2>4 DEF AloneKnown
  <2>9. CASE Failed(s)
    <3>1. Parts(s) = got[s] + 1 /\ ~Waiting
      BY <2>5, <2>9 DEF Parts, Shown
    <3>2. Reply(s) \in Seq(Lines) /\ Len(Reply(s)) = got[s] /\ Failure(s) \in Lines
          /\ \A i \in 1..got[s] : Reply(s)[i] = Token(s, i)
      <4>1. \A i \in 1..got[s] : Token(s, i) \in Lines
        BY <2>1, SentKnown, LineKinds, Constants
      <4> QED
        BY <2>5, <4>1, LineKinds DEF Reply
    <3>3. \A i \in 1..got[s] + 1 : deck[i] = IF i = got[s] + 1 THEN Failure(s) ELSE Token(s, i)
      <4>1. ASSUME NEW i \in 1..got[s] + 1
            PROVE  deck[i].token = IF i = got[s] + 1 THEN 0 ELSE i
        BY <2>5, <2>6, <3>1, Constants, SMTT(30) DEF LineNumber, Lines
      <4>2. ASSUME NEW i \in 1..got[s] + 1
            PROVE  deck[i] = [strike |-> s, token |-> deck[i].token]
        BY <2>5, <2>6, <3>1 DEF Lines
      <4> QED
        BY <4>1, <4>2 DEF Failure, Token
    <3>4. deck = Append(Reply(s), Failure(s))
      <4> DEFINE whole == Append(Reply(s), Failure(s))
      <4>1. /\ whole \in Seq(Lines) /\ Len(whole) = got[s] + 1
            /\ \A i \in 1..got[s] : whole[i] = Token(s, i)
            /\ whole[got[s] + 1] = Failure(s)
        BY <2>5, <3>2, AppendProperties
      <4> HIDE DEF whole
      <4>2. ASSUME NEW i \in 1..Len(deck) PROVE deck[i] = whole[i]
        <5>1. i = got[s] + 1 \/ i \in 1..got[s]
          BY <2>5, <2>6, <3>1
        <5> QED
          BY <2>5, <3>3, <4>1, <5>1
      <4>3. deck = whole
        BY <2>6, <3>1, <4>1, <4>2, SeqEqual
      <4> QED
        BY <4>3 DEF whole
    <3> QED
      BY <2>7, <2>8, <2>9, <2>s, <3>1, <3>4 DEF Failed, Fits, Waiting
  <2>10. CASE ~Failed(s)
    <3>1. fate[s] = "whole" /\ Parts(s) = got[s]
      BY <2>3, <2>10 DEF Failed, Parts
    <3>2. CASE first[s]
      <4>1. \A i \in 1..got[s] : deck[i] = Token(s, i)
        BY <2>5, <2>6, <2>8, <2>10, <3>1, <3>2 DEF LineNumber, Lines, Token
      <4>2. deck = Reply(s)
        BY <2>5, <2>6, <2>8, <3>1, <3>2, <4>1 DEF Reply
      <4> QED
        BY <2>7, <2>8, <2>s, <3>1, <3>2, <4>2 DEF Fits, Waiting
    <3>3. CASE ~first[s]
      <4>1. Waiting
        BY <2>2, <2>5, <2>6, <3>1, <3>3 DEF PlaceKnown, AloneKnown
      <4> QED
        BY <2>7, <2>s, <3>1, <3>3, <4>1 DEF Fits, Waiting
    <3> QED
      BY <3>2, <3>3
  <2> QED
    BY <2>9, <2>10
<1> QED
  BY <1>1, Inductive, PTL
=============================================================================
