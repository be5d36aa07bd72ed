---------------------------- MODULE StreamRelay ----------------------------
(***************************************************************************)
(* One forwarded chat request (proxy_stream.rs): `forward` waits at most   *)
(* first_byte for the runtime's response headers, then `AbortOnError`      *)
(* relays the body chunk by chunk.  The body is polled only when the       *)
(* client's side has room, and a deadline of `idle`, set again by every    *)
(* chunk, ends a stalled reply with an error.  The runtime and the client  *)
(* are external.                                                           *)
(*                                                                         *)
(* Time is counted in ticks; chunks are counted, not told apart, as a      *)
(* connection keeps their order.                                           *)
(***************************************************************************)
EXTENDS Naturals

CONSTANTS
    FirstByte,   \* first_byte_ms, in ticks
    Idle,        \* idle_ms, in ticks
    Chunks,      \* bound: chunks in a reply
    Window,      \* chunks that fit between the runtime and the proxy
    Room         \* chunks that fit between the proxy and the client

ASSUME LimitsAssumption ==
    /\ {FirstByte, Idle, Chunks} \subseteq Nat
    /\ {Window, Room} \subseteq Nat \ {0}

VARIABLES
    phase,    \* where the request is
    up,       \* what the runtime does with it
    sent,     \* chunks the runtime has produced
    ready,    \* chunks that can be polled
    passed,   \* chunks handed to the client's connection
    out,      \* those the client has not read
    left,     \* ticks until the armed deadline, first_byte or idle
    quiet,    \* history: ticks the runtime has been silent, up to Idle
    end       \* how it ended

vars == <<phase, up, sent, ready, passed, out, left, quiet, end>>

upVars == <<up, sent, quiet>>

Ends == {"none", "complete", "cut", "idle", "timeout", "unhealthy", "gone"}

\* The handler answers or the body ends; whatever happens after is nobody's.
Done(e) == phase' = "done" /\ end' = e

------------------------------------------------------------------------------
(* The runtime (external).                                                 *)

Listening == phase \in {"headers", "body"}

UpHeaders ==
    /\ Listening /\ up = "thinking"
    /\ up' = "streaming"
    /\ quiet' = 0
    /\ UNCHANGED <<phase, sent, ready, passed, out, left, end>>

UpChunk ==
    /\ Listening /\ up = "streaming" /\ sent < Chunks /\ ready < Window
    /\ sent' = sent + 1 /\ ready' = ready + 1
    /\ quiet' = 0
    /\ UNCHANGED <<phase, up, passed, out, left, end>>

UpEnd ==
    /\ Listening /\ up = "streaming"
    /\ up' = "ended"
    /\ UNCHANGED <<phase, sent, ready, passed, out, left, quiet, end>>

\* It dies or closes too early; what it sent last may be lost with it.
UpFail ==
    /\ Listening /\ up \in {"thinking", "streaming"}
    /\ up' = IF up = "thinking" THEN "refused" ELSE "failed"
    /\ \E n \in 0..ready : ready' = n
    /\ UNCHANGED <<phase, sent, passed, out, left, quiet, end>>

------------------------------------------------------------------------------
(* forward().                                                              *)

Start ==
    /\ phase = "new"
    /\ phase' = "headers"
    /\ left' = FirstByte
    /\ UNCHANGED <<upVars, ready, passed, out, end>>

\* The headers are there, late or not: the timeout asks the request first.
\* AbortOnError::new arms the idle deadline.
GotHeaders ==
    /\ phase = "headers" /\ up \in {"streaming", "ended", "failed"}
    /\ phase' = "body"
    /\ left' = Idle
    /\ UNCHANGED <<upVars, ready, passed, out, end>>

\* 504: no headers within first_byte.
NoHeaders ==
    /\ phase = "headers" /\ up = "thinking" /\ left = 0
    /\ Done("timeout")
    /\ UNCHANGED <<upVars, ready, passed, out, left>>

\* 502, or 504 when connecting timed out.
Refused ==
    /\ phase = "headers" /\ up = "refused"
    /\ \E e \in {"unhealthy", "timeout"} : Done(e)
    /\ UNCHANGED <<upVars, ready, passed, out, left>>

------------------------------------------------------------------------------
(* AbortOnError::poll_next.  The client's connection polls when it has     *)
(* room.                                                                   *)

\* Mutant: polled whether or not there is room.
PolledAnytime == phase = "body"

Polled == phase = "body" /\ out < Room

PollChunk ==
    /\ Polled /\ ready > 0
    /\ ready' = ready - 1 /\ passed' = passed + 1 /\ out' = out + 1
    /\ left' = Idle
    /\ UNCHANGED <<upVars, phase, end>>

PollEnd ==
    /\ Polled /\ ready = 0 /\ up = "ended"
    /\ Done("complete")
    /\ UNCHANGED <<upVars, ready, passed, out, left>>

\* Mutant: a failed reply ends like a complete one.
PollErrorEnds ==
    /\ Polled /\ ready = 0 /\ up = "failed"
    /\ Done("complete")
    /\ UNCHANGED <<upVars, ready, passed, out, left>>

\* abort("upstream failed mid-stream"): the body ends with an error and hyper
\* aborts the connection.
PollError ==
    /\ Polled /\ ready = 0 /\ up = "failed"
    /\ Done("cut")
    /\ UNCHANGED <<upVars, ready, passed, out, left>>

\* Mutants: the deadline is looked at before the body, or never.
PollIdleFirst ==
    /\ Polled /\ up = "streaming" /\ left = 0
    /\ Done("idle")
    /\ UNCHANGED <<upVars, ready, passed, out, left>>
PollIdleNever == FALSE

\* abort("idle timeout between chunks"): only if the body has nothing.
PollIdle ==
    /\ Polled /\ ready = 0 /\ up = "streaming" /\ left = 0
    /\ Done("idle")
    /\ UNCHANGED <<upVars, ready, passed, out, left>>

------------------------------------------------------------------------------
(* Time and the client (external).                                         *)

Tick ==
    /\ Listening
    /\ left' = IF left = 0 THEN 0 ELSE left - 1
    /\ quiet' = IF quiet = Idle THEN Idle ELSE quiet + 1
    /\ UNCHANGED <<phase, up, sent, ready, passed, out, end>>

ClientReads ==
    /\ out > 0
    /\ out' = out - 1
    /\ UNCHANGED <<upVars, phase, ready, passed, left, end>>

\* The client disconnects: handler or body are dropped.
ClientGone ==
    /\ Listening
    /\ Done("gone")
    /\ UNCHANGED <<upVars, ready, passed, out, left>>

------------------------------------------------------------------------------
Init ==
    /\ phase = "new" /\ up = "thinking"
    /\ sent = 0 /\ ready = 0 /\ passed = 0 /\ out = 0
    /\ left = 0 /\ quiet = 0
    /\ end = "none"

Runtime == UpHeaders \/ UpChunk \/ UpEnd \/ UpFail
Proxy == \/ GotHeaders \/ NoHeaders \/ Refused
         \/ PollChunk \/ PollEnd \/ PollError \/ PollIdle

Next == Start \/ Runtime \/ Proxy \/ Tick \/ ClientReads \/ ClientGone

Spec == Init /\ [][Next]_vars

------------------------------------------------------------------------------
(* Properties.                                                             *)

\* Every variable holds a value of its type and the buffers their bounds.
TypeOK ==
    /\ phase \in {"new", "headers", "body", "done"}
    /\ up \in {"thinking", "streaming", "ended", "failed", "refused"}
    /\ sent \in 0..Chunks
    /\ ready \in 0..Window
    /\ passed \in 0..Chunks
    /\ out \in 0..Room
    /\ left \in Nat
    /\ quiet \in 0..Idle
    /\ end \in Ends

\* A reply is cut for idleness only if the runtime was silent for all of
\* `idle`: a client that stalls longer than that, while chunks wait for it,
\* is not taken for a stalled runtime (REQ-PRX-010, "the idle gap between body
\* chunks").
IdleMeansSilence == end = "idle" => quiet = Idle

\* The deadline is put off only by a chunk that is handed on, or when the wait for the
\* headers or for the body begins, and no chunk is taken back: so it is put off no more
\* than Chunks + 2 times, whatever the runtime sends and however time passes.
DeadlineStands ==
    [][/\ left' > left => passed' > passed \/ phase' # phase
       /\ passed' >= passed
       /\ phase' # phase => \/ phase = "new" /\ phase' = "headers"
                            \/ phase = "headers" /\ phase' \in {"body", "done"}
                            \/ phase = "body" /\ phase' = "done"]_vars

\* The promise of BytePipe: chunks in order, one end, and a complete one only
\* if nothing is missing ("nothing fabricated", AbortOnError).
Pipe == INSTANCE BytePipe WITH
    given    <- sent,
    finished <- up = "ended",
    got      <- passed,
    end      <- IF phase # "done" THEN "open"
                ELSE IF end = "complete" THEN "complete" ELSE "cut"
ImplementsPipe == Pipe!Spec

------------------------------------------------------------------------------
(* What the proofs carry from step to step.                                *)

\* A chunk is lost only with a runtime that fails, and nothing is passed on or
\* ended before the headers.
NothingLost ==
    /\ passed + ready <= sent
    /\ up # "failed" => sent = passed + ready
    /\ up \in {"thinking", "refused"} => sent = 0
    /\ phase \in {"new", "headers"} => passed = 0 /\ end = "none"
    /\ phase = "body" => up \notin {"thinking", "refused"} /\ end = "none"

\* When no chunk waits, the deadline is never nearer than the runtime's silence
\* explains: the silence and what is left of the deadline make up `idle`.
DeadlineAfterSilence ==
    phase = "body" /\ ready = 0 /\ up = "streaming" => Idle <= quiet + left

IndInv ==
    /\ TypeOK
    /\ NothingLost
    /\ DeadlineAfterSilence
    /\ IdleMeansSilence
==============================================================================
