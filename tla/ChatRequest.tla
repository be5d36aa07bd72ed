---------------------------- MODULE ChatRequest ----------------------------
(***************************************************************************)
(* One POST /v1/chat/completions from its first byte to its end (h_chat,   *)
(* proxy_stream.rs): the id, the bounded read of the body, its validation, *)
(* the ensure, and the forward, which is StreamRelay's.  An aborted reply  *)
(* is noted through the bounded event channel, which other tasks fill and  *)
(* the TUI empties.                                                        *)
(*                                                                         *)
(* A header map is a function from names to the values under that name, in *)
(* order; a value of `connection` is the set of names it lists.  A body is *)
(* its size and what the validation finds in it.                           *)
(***************************************************************************)
EXTENDS StreamRelay, Sequences

CONSTANTS
    EndToEnd,     \* header names of no special meaning
    Requests,     \* the requests a client may send
    Replies,      \* the headers the runtime may reply with
    MaxBody,      \* max_body_bytes
    Bearer,       \* infer_bearer: a sequence of at most one value
    ChannelCap    \* room in the event channel

HOP_BY_HOP == {"connection", "keep-alive", "proxy-connection", "te", "trailer",
               "transfer-encoding", "upgrade"}
CLIENT_CREDENTIALS == {"authorization", "cookie", "proxy-authorization"}
Owned == {"host", "content-length", "x-request-id"}

Names == HOP_BY_HOP \cup CLIENT_CREDENTIALS \cup Owned \cup EndToEnd

\* "model": a JSON object with a non-empty string `model`.
Bodies == {"model", "no object", "no model", "no string", "empty"}

ASSUME RequestsAssumption ==
    /\ MaxBody \in Nat /\ ChannelCap \in Nat \ {0}
    /\ Bearer \in Seq(STRING) /\ Len(Bearer) <= 1
    /\ EndToEnd \cap (HOP_BY_HOP \cup CLIENT_CREDENTIALS \cup Owned) = {}
    /\ \A r \in Requests :
          /\ DOMAIN r = {"size", "declared", "body", "wellFormed", "headers"}
          /\ r.size \in Nat /\ r.declared \in BOOLEAN /\ r.wellFormed \in BOOLEAN
          /\ r.body \in Bodies /\ DOMAIN r.headers = Names
    /\ \A h \in Replies : DOMAIN h = Names

VARIABLES
    req,        \* what the client sends
    stage,      \* "reading", "ensuring", "forwarded" or "over"
    read,       \* how much of the body has been buffered
    answer,     \* the status answered; 200 stands for the runtime's own
    toRuntime,  \* the headers forwarded, once they are
    toClient,   \* the headers answered, once they are
    waiting,    \* events in the channel
    note        \* "none", "queued" or "dropped": the note of an aborted reply

chatVars == <<vars, req, stage, read, answer, toRuntime, toClient, waiting, note>>
relayVars == vars

------------------------------------------------------------------------------
(* Ids and headers.                                                        *)

\* request_id_for, by the middleware: the first id that came, if it is well
\* formed, and a new one otherwise.
RequestId(r) ==
    IF r.wellFormed /\ r.headers["x-request-id"] # <<>>
    THEN r.headers["x-request-id"][1] ELSE "minted"

\* The names the first `connection` line lists; `get` finds no other.
Connection(h) == IF h["connection"] = <<>> THEN {} ELSE h["connection"][1]

\* Mutant: only the table counts.
IsHopByHopTable(n, h) == n \in HOP_BY_HOP

IsHopByHop(n, h) == n \in HOP_BY_HOP \cup Connection(h)

\* forwardable_request_headers and what `forward` adds.
Forwarded(h, id) ==
    LET kept == [n \in Names |->
                    IF IsHopByHop(n, h) \/ n \in CLIENT_CREDENTIALS \cup Owned
                    THEN <<>> ELSE h[n]]
    IN  [kept EXCEPT !["x-request-id"] = Append(@, id), !["authorization"] = @ \o Bearer]

\* forwardable_response_headers and the id.
Relayed(h, id) ==
    LET kept == [n \in Names |->
                    IF IsHopByHop(n, h) \/ n = "x-request-id" THEN <<>> ELSE h[n]]
    IN  [kept EXCEPT !["x-request-id"] = Append(@, id)]

Empty == [n \in Names |-> <<>>]
Envelope(id) == [Empty EXCEPT !["x-request-id"] = <<id>>]

------------------------------------------------------------------------------
(* Before the forward.                                                     *)

\* An error envelope; the middleware adds the id to it.
Reject(code) ==
    /\ stage' = "over" /\ answer' = code
    /\ toClient' = Envelope(RequestId(req))
    /\ UNCHANGED <<relayVars, req, toRuntime, waiting, note>>

DeclaredTooLarge == req.declared /\ req.size > MaxBody

\* read_body_limited: what is declared too large is not read at all.
RefuseDeclared ==
    /\ stage = "reading" /\ DeclaredTooLarge
    /\ Reject(413) /\ UNCHANGED read

\* to_bytes: the next frame of the body, refused if it would exceed the limit.
ReadFrame ==
    /\ stage = "reading" /\ ~DeclaredTooLarge
    /\ \E n \in 1..(req.size - read) :
          IF read + n > MaxBody
          THEN Reject(413) /\ UNCHANGED read
          ELSE /\ read' = read + n
               /\ UNCHANGED <<relayVars, req, stage, answer, toRuntime, toClient, waiting, note>>

\* Every failure of the read is answered as too large a body.
ReadFails ==
    /\ stage = "reading" /\ ~DeclaredTooLarge /\ read < req.size
    /\ Reject(413) /\ UNCHANGED read

\* Mutant: an empty model name is taken.
ValidOrEmpty(r) == r.body \in {"model", "empty"}

\* validate_chat_body.
Valid(r) == r.body = "model"

ReadAll ==
    /\ stage = "reading" /\ ~DeclaredTooLarge /\ read = req.size
    /\ IF Valid(req)
       THEN /\ stage' = "ensuring"
            /\ UNCHANGED <<relayVars, req, answer, toRuntime, toClient, waiting, note>>
       ELSE Reject(400)
    /\ UNCHANGED read

\* ensure() refuses: unknown model, oracle, or a load that failed.
NotEnsured ==
    /\ stage = "ensuring"
    /\ \E code \in {404, 507, 502} : Reject(code)
    /\ UNCHANGED read

\* It is resident, now or a moment ago, and `forward` sends the bytes read.
Ensured ==
    /\ stage = "ensuring"
    /\ stage' = "forwarded"
    /\ Start
    /\ toRuntime' = Forwarded(req.headers, RequestId(req))
    /\ UNCHANGED <<req, read, answer, toClient, waiting, note>>

\* The client disconnects and the handler is dropped where it awaits.
GoneEarly ==
    /\ stage \in {"reading", "ensuring"}
    /\ stage' = "over"
    /\ UNCHANGED <<relayVars, req, read, answer, toRuntime, toClient, waiting, note>>

------------------------------------------------------------------------------
(* The forward.                                                            *)

Unanswered == UNCHANGED <<req, stage, read, answer, toRuntime, toClient, waiting, note>>

\* The runtime's status and headers are passed on.
BeginReply ==
    /\ GotHeaders
    /\ answer' = 200
    /\ \E h \in Replies : toClient' = Relayed(h, RequestId(req))
    /\ UNCHANGED <<req, stage, read, toRuntime, waiting, note>>

\* No reply came: 504 or 502.
NoReply ==
    /\ NoHeaders \/ Refused
    /\ answer' = IF end' = "timeout" THEN 504 ELSE 502
    /\ toClient' = Envelope(RequestId(req))
    /\ UNCHANGED <<req, stage, read, toRuntime, waiting, note>>

\* Mutant: the note is left out when the channel is not empty.
AbortIfQuiet ==
    /\ PollError \/ PollIdle
    /\ IF waiting = 0
       THEN waiting' = waiting + 1 /\ note' = "queued"
       ELSE UNCHANGED <<waiting, note>>
    /\ UNCHANGED <<req, stage, read, answer, toRuntime, toClient>>

\* The body ends with an error, which is noted if the channel has room (try_send).
Abort ==
    /\ PollError \/ PollIdle
    /\ IF waiting < ChannelCap
       THEN waiting' = waiting + 1 /\ note' = "queued"
       ELSE note' = "dropped" /\ UNCHANGED waiting
    /\ UNCHANGED <<req, stage, read, answer, toRuntime, toClient>>

RelayBody == (PollChunk \/ PollEnd) /\ Unanswered

Forward == BeginReply \/ NoReply \/ RelayBody \/ Abort

------------------------------------------------------------------------------
(* The event channel.                                                      *)

OthersSend ==
    /\ waiting < ChannelCap
    /\ waiting' = waiting + 1
    /\ UNCHANGED <<relayVars, req, stage, read, answer, toRuntime, toClient, note>>

TuiTakes ==
    /\ waiting > 0
    /\ waiting' = waiting - 1
    /\ UNCHANGED <<relayVars, req, stage, read, answer, toRuntime, toClient, note>>

------------------------------------------------------------------------------
ChatInit ==
    /\ Init
    /\ req \in Requests
    /\ stage = "reading" /\ read = 0 /\ answer = 0
    /\ toRuntime = Empty /\ toClient = Empty
    /\ waiting \in {0, ChannelCap} /\ note = "none"

Upload == RefuseDeclared \/ ReadFrame \/ ReadAll

ChatNext ==
    \/ Upload \/ ReadFails
    \/ NotEnsured \/ Ensured \/ GoneEarly
    \/ Forward
    \/ (Runtime \/ Tick \/ ClientReads \/ ClientGone) /\ Unanswered
    \/ OthersSend \/ TuiTakes

ChatSpec == ChatInit /\ [][ChatNext]_chatVars

\* As for the relay; besides, a client goes on sending its body or leaves, and
\* ensure() answers (EveryRequestAnswered of EnsureProxy).
ChatFairSpec ==
    /\ ChatSpec
    /\ WF_chatVars(Upload) /\ WF_chatVars(NotEnsured \/ Ensured)
    /\ WF_chatVars(Forward)
    /\ WF_chatVars(Tick /\ Unanswered) /\ WF_chatVars(ClientReads /\ Unanswered)

------------------------------------------------------------------------------
(* Properties.                                                             *)

ChatTypeOK ==
    /\ TypeOK
    /\ req \in Requests
    /\ stage \in {"reading", "ensuring", "forwarded", "over"}
    /\ read \in Nat
    /\ answer \in {0, 200, 400, 404, 413, 502, 504, 507}
    /\ waiting \in 0..ChannelCap
    /\ note \in {"none", "queued", "dropped"}

\* No more than max_body_bytes is ever buffered, and a request that fails a check
\* does not reach the runtime (REQ-PRX-007, "no bytes SHALL reach the upstream"):
\* what does is a whole valid body within the limit.
OnlyCheckedForwarded ==
    /\ read <= MaxBody
    /\ phase # "new" => /\ stage = "forwarded"
                        /\ req.body = "model" /\ read = req.size

\* Of the request ...
RequestHeaders == phase # "new" =>
    /\ toRuntime["x-request-id"] = <<RequestId(req)>>
    /\ toRuntime["authorization"] = Bearer
    /\ \A n \in {"cookie", "proxy-authorization"} \cup HOP_BY_HOP : toRuntime[n] = <<>>
    /\ \A n \in EndToEnd :
          toRuntime[n] = IF n \in Connection(req.headers) THEN <<>> ELSE req.headers[n]
\* ... and of the answer, ...
ReplyHeaders == answer # 0 =>
    /\ toClient["x-request-id"] = <<RequestId(req)>>
    /\ \A n \in HOP_BY_HOP : toClient[n] = <<>>
\* ... the client's credentials and per-hop headers stop at the proxy, its other
\* headers do not; the runtime and the client see one and the same request id,
\* whatever ids either of them sent (REQ-PRX-004, REQ-PRX-009, REQ-SEC-012).
HeadersEndToEnd == RequestHeaders /\ ReplyHeaders

\* The status tells how the request ended, and exactly the replies that broke off
\* after their headers are noted as aborted, or their note was dropped.
EndsAreTold ==
    /\ end = "timeout" => answer = 504
    /\ end = "unhealthy" => answer = 502
    /\ end \in {"complete", "cut", "idle"} => answer = 200
    /\ stage = "over" => phase = "new" /\ answer # 200
    /\ note # "none" <=> end \in {"cut", "idle"}

\* Whatever the runtime does, each request comes to its end, provided that the
\* client sends its body and reads its reply, or leaves.
EveryRequestEnds == stage = "reading" ~> (stage = "over" \/ phase = "done")

\* The safety half of it: a request that has not come to its end needs nothing but its
\* own next step, time or a client that reads -- never the runtime.
NeverStuck ==
    \/ stage = "over" \/ phase = "done"
    \/ stage = "reading" /\ (DeclaredTooLarge \/ read <= req.size)
    \/ stage = "ensuring"
    \/ phase = "headers" /\ (up # "thinking" \/ left = 0)
    \/ phase = "body" /\ out < Room /\ (ready > 0 \/ up \in {"ended", "failed"} \/ left = 0)
    \/ Listening /\ left > 0
    \/ out > 0

------------------------------------------------------------------------------
(* What the proofs carry from step to step.                                *)

\* How far the request has come, and what was found out on the way.
Progress ==
    /\ stage = "forwarded" <=> phase # "new"
    /\ read <= req.size /\ read <= MaxBody
    /\ stage \in {"ensuring", "forwarded"} => Valid(req) /\ read = req.size
    /\ stage \in {"reading", "ensuring"} \/ phase = "headers" => answer = 0
    /\ phase = "body" => answer = 200
    /\ phase # "done" => end = "none"
    /\ phase = "done" => end # "none"

ChatInv == ChatTypeOK /\ Progress /\ HeadersEndToEnd /\ EndsAreTold
==============================================================================
