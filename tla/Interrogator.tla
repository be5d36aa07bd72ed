---------------------------- MODULE Interrogator ----------------------------
(***************************************************************************)
(* Enter in the console spawns a strike (interrogate.rs), which asks       *)
(* saltnitor's own endpoint and sends what comes back through the event    *)
(* channel; the TUI paints it into the one deck (main.rs).  Nothing keeps  *)
(* the operator from firing again while a strike is under way.             *)
(*                                                                         *)
(* A token is its strike and its number; the endpoint is external.         *)
(***************************************************************************)
EXTENDS Naturals, Sequences

CONSTANTS
    Strikes,    \* bound: how often Enter is pressed
    Tokens,     \* bound: tokens of a reply
    Capacity    \* of the event channel

ASSUME BoundsAssumption ==
    /\ {Strikes, Tokens} \subseteq Nat
    /\ Capacity \in Nat \ {0}

VARIABLES
    fired,      \* strikes fired
    at,         \* where each strike is
    first,      \* first_at is set: a chunk has come
    got,        \* tokens of each reply
    timed,      \* the reply had timings
    fate,       \* what became of it: "open", "refused", "whole" or "cut"
    out,        \* what each strike has yet to send
    chan,       \* the event channel
    deck,       \* last_api_result
    metrics,    \* last_metrics, and whose they are
    overlapped  \* history: a strike was fired before all of the last had come

taskVars == <<at, first, got, timed, fate, out>>
deckVars == <<deck, metrics>>
vars == <<fired, taskVars, chan, deckVars, overlapped>>

All == 1..Strikes
\* What the deck is made of: "Sending payload...", tokens, and "ERROR: ...".
Sending == [strike |-> 0, token |-> 0]
Token(s, i) == [strike |-> s, token |-> i]
Failure(s) == [strike |-> s, token |-> 0]

NoMetrics == [of |-> 0, source |-> "n/a"]
ApiStreamStart(s) == [kind |-> "start", strike |-> s]
ApiStreamChunk(s, i) == [kind |-> "chunk", strike |-> s, token |-> i]
ApiStreamEnd(s, source) == [kind |-> "end", strike |-> s, source |-> source]
Error(s) == [kind |-> "error", strike |-> s]

\* metrics_from_transcript: measured by the runtime, else estimated from the
\* tokens and the time since the first chunk, which may be zero.
Sources(s) ==
    IF timed[s] THEN {"measured"}
    ELSE IF first[s] /\ got[s] > 0 THEN {"estimated", "n/a"}
    ELSE {"n/a"}

------------------------------------------------------------------------------
(* The operator.                                                           *)

Quiet == chan = <<>> /\ \A s \in All : at[s] \in {"none", "done"}

Enter ==
    /\ fired < Strikes
    /\ fired' = fired + 1
    /\ at' = [at EXCEPT ![fired'] = "asking"]
    /\ deck' = <<Sending>>
    /\ overlapped' = (overlapped \/ ~Quiet)
    /\ UNCHANGED <<first, got, timed, fate, out, chan, metrics>>

------------------------------------------------------------------------------
(* strike().  What it sends waits in `out` for room in the channel; it goes  *)
(* on when all is sent.                                                      *)

Ready(s, where) == at[s] = where /\ out[s] = <<>>

\* fail(): no payload, no connection, or no success.
Fail(s) ==
    /\ Ready(s, "asking")
    /\ at' = [at EXCEPT ![s] = "ending"] /\ fate' = [fate EXCEPT ![s] = "refused"]
    /\ out' = [out EXCEPT ![s] = <<Error(s), ApiStreamEnd(s, "n/a")>>]
    /\ UNCHANGED <<fired, first, got, timed, chan, deckVars, overlapped>>

Accepted(s) ==
    /\ Ready(s, "asking")
    /\ at' = [at EXCEPT ![s] = "reading"]
    /\ UNCHANGED <<fired, first, got, timed, fate, out, chan, deckVars, overlapped>>

\* A chunk ends a line with a token, or one with timings, or none.
Chunk(s) ==
    /\ Ready(s, "reading")
    /\ first' = [first EXCEPT ![s] = TRUE]
    /\ \E n \in {0, 1} :
        /\ got[s] + n <= Tokens
        /\ got' = [got EXCEPT ![s] = @ + n]
        /\ LET start == IF first[s] THEN <<>> ELSE <<ApiStreamStart(s)>>
           IN  out' = [out EXCEPT ![s] =
                          IF n = 0 THEN start ELSE Append(start, ApiStreamChunk(s, got'[s]))]
    /\ \E b \in BOOLEAN : timed' = [timed EXCEPT ![s] = @ \/ b]
    /\ UNCHANGED <<fired, at, fate, chan, deckVars, overlapped>>

End(s) ==
    /\ Ready(s, "reading")
    /\ at' = [at EXCEPT ![s] = "ending"] /\ fate' = [fate EXCEPT ![s] = "whole"]
    /\ \E source \in Sources(s) : out' = [out EXCEPT ![s] = <<ApiStreamEnd(s, source)>>]
    /\ UNCHANGED <<fired, first, got, timed, chan, deckVars, overlapped>>

\* Mutant: an aborted stream ends like any other.
AbortedSilently(s) ==
    /\ Ready(s, "reading")
    /\ at' = [at EXCEPT ![s] = "ending"] /\ fate' = [fate EXCEPT ![s] = "cut"]
    /\ \E source \in Sources(s) : out' = [out EXCEPT ![s] = <<ApiStreamEnd(s, source)>>]
    /\ UNCHANGED <<fired, first, got, timed, chan, deckVars, overlapped>>

\* Mutant: it goes on reading after the failure.
AbortedGoesOn(s) ==
    /\ Ready(s, "reading")
    /\ fate' = [fate EXCEPT ![s] = "cut"]
    /\ out' = [out EXCEPT ![s] = <<Error(s)>>]
    /\ UNCHANGED <<fired, at, first, got, timed, chan, deckVars, overlapped>>

Aborted(s) ==
    /\ Ready(s, "reading")
    /\ at' = [at EXCEPT ![s] = "ending"] /\ fate' = [fate EXCEPT ![s] = "cut"]
    /\ \E source \in Sources(s) :
        out' = [out EXCEPT ![s] = <<Error(s), ApiStreamEnd(s, source)>>]
    /\ UNCHANGED <<fired, first, got, timed, chan, deckVars, overlapped>>

\* Mutant: the channel is taken to be unbounded.
SendUnbounded(s) ==
    /\ out[s] # <<>>
    /\ chan' = Append(chan, Head(out[s]))
    /\ out' = [out EXCEPT ![s] = Tail(@)]
    /\ UNCHANGED <<fired, at, first, got, timed, fate, deckVars, overlapped>>

Send(s) ==
    /\ out[s] # <<>> /\ Len(chan) < Capacity
    /\ chan' = Append(chan, Head(out[s]))
    /\ out' = [out EXCEPT ![s] = Tail(@)]
    /\ UNCHANGED <<fired, at, first, got, timed, fate, deckVars, overlapped>>

Return(s) ==
    /\ Ready(s, "ending")
    /\ at' = [at EXCEPT ![s] = "done"]
    /\ UNCHANGED <<fired, first, got, timed, fate, out, chan, deckVars, overlapped>>

------------------------------------------------------------------------------
(* The TUI's loop.                                                         *)

Taken == chan # <<>> /\ chan' = Tail(chan)

OnStart ==
    /\ Taken /\ Head(chan).kind = "start"
    /\ deck' = <<>>
    /\ UNCHANGED <<fired, taskVars, metrics, overlapped>>

OnChunk ==
    /\ Taken /\ Head(chan).kind = "chunk"
    /\ deck' = Append(deck, Token(Head(chan).strike, Head(chan).token))
    /\ UNCHANGED <<fired, taskVars, metrics, overlapped>>

OnEnd ==
    /\ Taken /\ Head(chan).kind = "end"
    /\ metrics' = [of |-> Head(chan).strike, source |-> Head(chan).source]
    /\ UNCHANGED <<fired, taskVars, deck, overlapped>>

OnError ==
    /\ Taken /\ Head(chan).kind = "error"
    /\ deck' = Append(IF deck = <<Sending>> THEN <<>> ELSE deck, Failure(Head(chan).strike))
    /\ UNCHANGED <<fired, taskVars, metrics, overlapped>>

------------------------------------------------------------------------------
Init ==
    /\ fired = 0
    /\ at = [s \in All |-> "none"] /\ fate = [s \in All |-> "open"]
    /\ first = [s \in All |-> FALSE] /\ timed = [s \in All |-> FALSE]
    /\ got = [s \in All |-> 0] /\ out = [s \in All |-> <<>>]
    /\ chan = <<>> /\ deck = <<>> /\ metrics = NoMetrics
    /\ overlapped = FALSE

Strike(s) == \/ Fail(s) \/ Accepted(s) \/ Chunk(s) \/ End(s) \/ Aborted(s)
             \/ Send(s) \/ Return(s)

Next == \/ Enter \/ OnStart \/ OnChunk \/ OnEnd \/ OnError
        \/ \E s \in All : Strike(s)

Spec == Init /\ [][Next]_vars

------------------------------------------------------------------------------
(* Properties.                                                             *)

\* Every variable has its type and the channel its capacity.
TypeOK ==
    /\ fired \in 0..Strikes
    /\ at \in [All -> {"none", "asking", "reading", "ending", "done"}]
    /\ fate \in [All -> {"open", "refused", "whole", "cut"}]
    /\ first \in [All -> BOOLEAN] /\ timed \in [All -> BOOLEAN]
    /\ got \in [All -> 0..Tokens]
    /\ Len(chan) <= Capacity
    /\ metrics.of \in 0..Strikes
    /\ overlapped \in BOOLEAN

Reply(s) == [i \in 1..got[s] |-> Token(s, i)]

\* When all is quiet, the deck shows the last strike's reply, whole and in order,
\* after it the failure of one that failed, and beside it the numbers of that strike,
\* measured only if the runtime measured them, if strikes never overlapped.
DeckShowsReply ==
    Quiet /\ fired > 0 /\ ~overlapped =>
        /\ deck = IF fate[fired] # "whole" THEN Append(Reply(fired), Failure(fired))
                  ELSE IF first[fired] THEN Reply(fired)
                  ELSE <<Sending>>
        /\ metrics.of = fired
        /\ metrics.source = "measured" => timed[fired]
        /\ metrics.source = "estimated" => deck # <<Sending>> /\ got[fired] > 0

\* Even with overlapping strikes, what the deck has of one reply is a stretch of it
\* in order, and nothing of it follows its failure.
RepliesInOrder ==
    \A s \in 1..fired : \A i, j \in DOMAIN deck :
        /\ i < j /\ deck[i].strike = s /\ deck[j].strike = s
        /\ \A k \in DOMAIN deck : i < k /\ k < j => deck[k].strike # s
        => deck[i].token # 0 /\ deck[j].token \in {0, deck[i].token + 1}

------------------------------------------------------------------------------
(* What the code's words claim and the code does not do.                   *)

\* "Anything not measured or received shows as null/n/a" (INV-18): the numbers
\* beside a reply are its own.
MetricsAreCurrent == metrics.source # "n/a" => metrics.of = fired
==============================================================================
