-------------------------- MODULE ChatRequestProofs --------------------------
(***************************************************************************)
(* Proofs about StreamRelay and ChatRequest for any limits, deadlines,     *)
(* buffers, requests and replies.  The relay has its inductive invariant   *)
(* and implements BytePipe; a chat request is a relay, so what is proved   *)
(* of that holds here, and what is checked before the forward and told     *)
(* after it is so in every behaviour.                                      *)
(***************************************************************************)
EXTENDS ChatRequest, TLAPS

------------------------------------------------------------------------------
(* The relay.                                                              *)

\* What the constants are, as the steps below use it.
LEMMA Limits ==
    /\ FirstByte \in Nat /\ Idle \in Nat /\ Window \in Nat /\ Room \in Nat
    /\ Chunks \in Nat
    /\ Window > 0 /\ Room > 0
BY LimitsAssumption

\* The runtime's steps keep the invariant: what it sends is counted once, and
\* each sign of life starts its silence anew.
LEMMA RuntimeKeeps ==
    ASSUME IndInv, Runtime
    PROVE  IndInv'
<1> USE Limits DEF IndInv, TypeOK, NothingLost, DeadlineAfterSilence,
                   IdleMeansSilence, Listening, Ends
<1>1. CASE UpHeaders BY <1>1 DEF UpHeaders
<1>2. CASE UpChunk BY <1>2 DEF UpChunk
<1>3. CASE UpEnd BY <1>3 DEF UpEnd
<1>4. CASE UpFail
  <2>1. PICK n \in 0..ready : ready' = n BY <1>4 DEF UpFail
  <2>2. CASE up = "thinking" BY <1>4, <2>1, <2>2 DEF UpFail
  <2>3. CASE up = "streaming" BY <1>4, <2>1, <2>3 DEF UpFail
  <2> QED BY <1>4, <2>2, <2>3 DEF UpFail
<1> QED BY <1>1, <1>2, <1>3, <1>4 DEF Runtime

\* The proxy's steps keep the invariant: a deadline is armed with the headers
\* and with every chunk, and a reply ends once.
LEMMA ProxyKeeps ==
    ASSUME IndInv, Proxy
    PROVE  IndInv'
<1> USE Limits DEF IndInv, TypeOK, NothingLost, DeadlineAfterSilence,
                   IdleMeansSilence, Ends, Done, upVars
<1>1. CASE GotHeaders BY <1>1 DEF GotHeaders
<1>2. CASE NoHeaders BY <1>2 DEF NoHeaders
<1>3. CASE Refused BY <1>3 DEF Refused
<1>4. CASE PollChunk BY <1>4 DEF PollChunk, Polled
<1>5. CASE PollEnd BY <1>5 DEF PollEnd, Polled
<1>6. CASE PollError BY <1>6 DEF PollError, Polled
<1>7. CASE PollIdle
  <2>1. quiet' = Idle BY <1>7 DEF PollIdle, Polled
  <2> QED BY <1>7, <2>1 DEF PollIdle, Polled
<1> QED BY <1>1, <1>2, <1>3, <1>4, <1>5, <1>6, <1>7 DEF Proxy

\* So do the clock, which shortens the deadline by what it adds to the silence,
\* and the client.
LEMMA OthersKeep ==
    ASSUME IndInv, Start \/ Tick \/ ClientReads \/ ClientGone
    PROVE  IndInv'
<1> USE Limits DEF IndInv, TypeOK, NothingLost, DeadlineAfterSilence,
                   IdleMeansSilence, Ends, Done, upVars, Listening
<1>1. CASE Start BY <1>1 DEF Start
<1>2. CASE Tick
  <2>1. /\ left' \in Nat /\ quiet' \in 0..Idle
        /\ Idle <= quiet + left => Idle <= quiet' + left'
    BY <1>2 DEF Tick
  <2> QED BY <1>2, <2>1 DEF Tick
<1>3. CASE ClientReads BY <1>3 DEF ClientReads
<1>4. CASE ClientGone BY <1>4 DEF ClientGone
<1> QED BY <1>1, <1>2, <1>3, <1>4

\* The strengthened invariant holds in every reachable state of a forwarded
\* request, whatever the runtime and the client do.
THEOREM Inductive == Spec => []IndInv
<1>1. Init => IndInv
  BY Limits DEF Init, IndInv, TypeOK, NothingLost, DeadlineAfterSilence,
                IdleMeansSilence, Ends
<1>2. IndInv /\ [Next]_vars => IndInv'
  <2> SUFFICES ASSUME IndInv, [Next]_vars PROVE IndInv' OBVIOUS
  <2>1. CASE Next BY <2>1, RuntimeKeeps, ProxyKeeps, OthersKeep DEF Next
  <2>2. CASE UNCHANGED vars
    BY <2>2 DEF vars, IndInv, TypeOK, NothingLost, DeadlineAfterSilence,
                IdleMeansSilence
  <2> QED BY <2>1, <2>2
<1> QED BY <1>1, <1>2, PTL DEF Spec

\* Every variable keeps its type and the buffers their bounds.
THEOREM TypeCorrect == Spec => []TypeOK
<1>1. IndInv => TypeOK BY DEF IndInv
<1> QED BY <1>1, Inductive, PTL

\* AbortOnError cuts a reply for idleness only after the runtime has been silent
\* for all of idle_ms, however slowly the client reads.
THEOREM NoFalseIdle == Spec => []IdleMeansSilence
<1>1. IndInv => IdleMeansSilence BY DEF IndInv
<1> QED BY <1>1, Inductive, PTL

\* Each step of the relay is a step of the pipe or leaves it alone.
LEMMA StepImplements ==
    ASSUME IndInv, [Next]_vars
    PROVE  [Pipe!Next]_(Pipe!vars)
<1> USE Limits DEF Pipe!vars
<1>1. CASE Runtime
  <2>1. CASE UpHeaders BY <2>1 DEF UpHeaders
  <2>2. CASE UpChunk BY <2>2 DEF UpChunk, Pipe!Next, Pipe!Give
  <2>3. CASE UpEnd BY <2>3 DEF UpEnd, Pipe!Next, Pipe!Finish
  <2>4. CASE UpFail BY <2>4 DEF UpFail
  <2> QED BY <1>1, <2>1, <2>2, <2>3, <2>4 DEF Runtime
<1>2. CASE Proxy
  <2> USE DEF upVars, Done, Polled, Pipe!Next
  <2>1. CASE GotHeaders BY <2>1 DEF GotHeaders
  <2>2. CASE NoHeaders BY <2>2 DEF NoHeaders, Pipe!Cut
  <2>3. CASE Refused BY <2>3 DEF Refused, Pipe!Cut
  <2>4. CASE PollChunk
    <3>1. passed < sent BY <2>4 DEF PollChunk, IndInv, TypeOK, NothingLost
    <3> QED BY <2>4, <3>1 DEF PollChunk, Pipe!Pass
  <2>5. CASE PollEnd
    <3>1. passed = sent BY <2>5 DEF PollEnd, IndInv, TypeOK, NothingLost
    <3> QED BY <2>5, <3>1 DEF PollEnd, Pipe!Complete
  <2>6. CASE PollError BY <2>6 DEF PollError, Pipe!Cut
  <2>7. CASE PollIdle BY <2>7 DEF PollIdle, Pipe!Cut
  <2> QED BY <1>2, <2>1, <2>2, <2>3, <2>4, <2>5, <2>6, <2>7 DEF Proxy
<1>3. CASE Start BY <1>3 DEF Start, upVars
<1>4. CASE Tick BY <1>4 DEF Tick
<1>5. CASE ClientReads BY <1>5 DEF ClientReads, upVars
<1>6. CASE ClientGone BY <1>6 DEF ClientGone, upVars, Done, Listening, Pipe!Next, Pipe!Cut
<1>7. CASE UNCHANGED vars BY <1>7 DEF vars
<1> QED BY <1>1, <1>2, <1>3, <1>4, <1>5, <1>6, <1>7 DEF Next

\* The relay implements BytePipe: the client gets the runtime's chunks in order,
\* and a reply that ends as a complete one is complete.
THEOREM Implements == Spec => ImplementsPipe
<1>1. Init => Pipe!Init BY DEF Init, Pipe!Init
<1>2. IndInv /\ [Next]_vars => [Pipe!Next]_(Pipe!vars) BY StepImplements
<1> QED BY <1>1, <1>2, Inductive, PTL DEF Spec, ImplementsPipe, Pipe!Spec

------------------------------------------------------------------------------
(* The chat request.                                                       *)


\* What the constants are, as the steps below use it.
LEMMA ChatLimits ==
    /\ MaxBody \in Nat /\ ChannelCap \in Nat /\ ChannelCap > 0
    /\ \A r \in Requests : r.size \in Nat
BY RequestsAssumption

\* Each step of a request is a step of the relay or leaves it alone.
LEMMA StepRelays ==
    ASSUME [ChatNext]_chatVars
    PROVE  [Next]_vars
<1> USE DEF relayVars
<1>1. CASE Upload BY <1>1 DEF Upload, RefuseDeclared, ReadFrame, ReadAll, Reject
<1>2. CASE ReadFails BY <1>2 DEF ReadFails, Reject
<1>3. CASE NotEnsured BY <1>3 DEF NotEnsured, Reject
<1>4. CASE Ensured BY <1>4 DEF Ensured, Next
<1>5. CASE GoneEarly BY <1>5 DEF GoneEarly
<1>6. CASE Forward
  BY <1>6 DEF Forward, BeginReply, NoReply, RelayBody, Abort, Next, Proxy
<1>7. CASE (Runtime \/ Tick \/ ClientReads \/ ClientGone) /\ Unanswered
  BY <1>7 DEF Next
<1>8. CASE OthersSend BY <1>8 DEF OthersSend
<1>9. CASE TuiTakes BY <1>9 DEF TuiTakes
<1>10. CASE UNCHANGED chatVars BY <1>10 DEF chatVars
<1> QED
  BY <1>1, <1>2, <1>3, <1>4, <1>5, <1>6, <1>7, <1>8, <1>9, <1>10 DEF ChatNext

\* A chat request, once forwarded, is a StreamRelay and nothing else.
THEOREM ImplementsRelay == ChatSpec => Spec
<1>1. ChatInit => Init BY DEF ChatInit
<1> QED BY <1>1, StepRelays, PTL DEF ChatSpec, Spec

\* Whatever headers come, those forwarded are what HeadersEndToEnd says.
LEMMA ForwardedHeaders ==
    ASSUME NEW r \in Requests, NEW id
    PROVE  LET f == Forwarded(r.headers, id)
           IN  /\ f["x-request-id"] = <<id>> /\ f["authorization"] = Bearer
               /\ \A n \in {"cookie", "proxy-authorization"} \cup HOP_BY_HOP : f[n] = <<>>
               /\ \A n \in EndToEnd :
                     f[n] = IF n \in Connection(r.headers) THEN <<>> ELSE r.headers[n]
<1> DEFINE h == r.headers
           kept == [n \in Names |->
                       IF IsHopByHop(n, h) \/ n \in CLIENT_CREDENTIALS \cup Owned
                       THEN <<>> ELSE h[n]]
           f == Forwarded(h, id)
<1>1. f = [kept EXCEPT !["x-request-id"] = Append(@, id), !["authorization"] = @ \o Bearer]
  BY DEF Forwarded
<1>2. /\ {"x-request-id", "authorization", "cookie", "proxy-authorization"} \subseteq Names
      /\ HOP_BY_HOP \subseteq Names /\ EndToEnd \subseteq Names
  BY DEF Names, Owned, CLIENT_CREDENTIALS
<1>3. kept["x-request-id"] = <<>> /\ kept["authorization"] = <<>>
  BY <1>2 DEF Owned, CLIENT_CREDENTIALS
<1>4. f["x-request-id"] = <<id>> /\ f["authorization"] = Bearer
  <2>1. f["x-request-id"] = Append(<<>>, id) BY <1>1, <1>2, <1>3
  <2>2. f["authorization"] = <<>> \o Bearer BY <1>1, <1>2, <1>3
  <2>3. Bearer \in Seq(STRING) BY RequestsAssumption
  <2>4. <<>> \o Bearer = Bearer BY <2>3
  <2> QED BY <2>1, <2>2, <2>4
<1>5. ASSUME NEW n \in Names, n \notin {"x-request-id", "authorization"}
      PROVE  f[n] = kept[n]
  BY <1>1, <1>5
<1>6. ASSUME NEW n \in {"cookie", "proxy-authorization"} \cup HOP_BY_HOP
      PROVE  f[n] = <<>>
  <2>1. kept[n] = <<>> BY <1>2 DEF IsHopByHop, CLIENT_CREDENTIALS
  <2>2. n \notin {"x-request-id", "authorization"} BY DEF HOP_BY_HOP
  <2> QED BY <1>2, <1>5, <2>1, <2>2
<1>7. ASSUME NEW n \in EndToEnd
      PROVE  f[n] = IF n \in Connection(h) THEN <<>> ELSE h[n]
  <2>1. n \notin HOP_BY_HOP \cup CLIENT_CREDENTIALS \cup Owned BY RequestsAssumption
  <2>2. n \notin {"x-request-id", "authorization"}
    BY <2>1 DEF Owned, CLIENT_CREDENTIALS
  <2>3. kept[n] = IF n \in Connection(h) THEN <<>> ELSE h[n]
    BY <1>2, <2>1 DEF IsHopByHop
  <2> QED BY <1>2, <1>5, <2>2, <2>3
<1> HIDE DEF f
<1>8. QED BY <1>4, <1>6, <1>7 DEF f

\* So are those of an answer, the runtime's own ...
LEMMA RelayedHeaders ==
    ASSUME NEW h, NEW id
    PROVE  /\ Relayed(h, id)["x-request-id"] = <<id>>
           /\ \A n \in HOP_BY_HOP : Relayed(h, id)[n] = <<>>
<1>1. "x-request-id" \in Names /\ HOP_BY_HOP \subseteq Names BY DEF Names, Owned
<1>2. "x-request-id" \notin HOP_BY_HOP BY DEF HOP_BY_HOP
<1>3. Relayed(h, id)["x-request-id"] = Append(<<>>, id) BY <1>1 DEF Relayed
<1>4. \A n \in HOP_BY_HOP : Relayed(h, id)[n] = <<>>
  BY <1>1, <1>2 DEF Relayed, IsHopByHop
<1> QED BY <1>3, <1>4

\* ... or an envelope's.
LEMMA EnvelopeHeaders ==
    ASSUME NEW id
    PROVE  /\ Envelope(id)["x-request-id"] = <<id>>
           /\ \A n \in HOP_BY_HOP : Envelope(id)[n] = <<>>
<1>1. "x-request-id" \in Names /\ HOP_BY_HOP \subseteq Names BY DEF Names, Owned
<1>2. "x-request-id" \notin HOP_BY_HOP BY DEF HOP_BY_HOP
<1> QED BY <1>1, <1>2 DEF Envelope, Empty

\* Headers once sent are left alone.
LEMMA HeadersKept ==
    ASSUME HeadersEndToEnd, UNCHANGED <<req, toRuntime, toClient>>,
           phase' # "new" => phase # "new", answer' # 0 => answer # 0
    PROVE  HeadersEndToEnd'
<1>1. RequestHeaders' BY DEF HeadersEndToEnd, RequestHeaders
<1>2. ReplyHeaders' BY DEF HeadersEndToEnd, ReplyHeaders
<1> QED BY <1>1, <1>2 DEF HeadersEndToEnd

\* The initial states keep the invariant.
LEMMA ChatStarts == ASSUME ChatInit PROVE ChatInv
<1>1. TypeOK BY Limits DEF ChatInit, Init, TypeOK, Ends
<1>2. ChatTypeOK BY <1>1, ChatLimits DEF ChatInit, ChatTypeOK
<1>3. Progress /\ HeadersEndToEnd /\ EndsAreTold
  BY ChatLimits DEF ChatInit, Init, Progress, HeadersEndToEnd, RequestHeaders,
                    ReplyHeaders, EndsAreTold
<1> QED BY <1>2, <1>3 DEF ChatInv

\* What comes before the forward keeps it: a request is turned away once and with
\* its id, or goes on checked.
LEMMA ChecksKeep ==
    ASSUME ChatInv, TypeOK', Upload \/ ReadFails \/ NotEnsured \/ GoneEarly
    PROVE  ChatInv'
<1> USE ChatLimits DEF ChatInv, ChatTypeOK, Progress, EndsAreTold, relayVars, vars
<1> DEFINE Rejected == \E code \in {400, 404, 413, 502, 507} : Reject(code) /\ read' = read
<1>1. CASE Rejected /\ stage \in {"reading", "ensuring"}
  <2>1. PICK code \in {400, 404, 413, 502, 507} : Reject(code) /\ read' = read BY <1>1
  <2>2. HeadersEndToEnd'
    <3>1. RequestHeaders' BY <1>1, <2>1 DEF Reject, HeadersEndToEnd, RequestHeaders
    <3>2. toClient' = Envelope(RequestId(req)) /\ req' = req BY <2>1 DEF Reject
    <3>3. ReplyHeaders' BY <3>2, EnvelopeHeaders DEF ReplyHeaders
    <3> QED BY <3>1, <3>3 DEF HeadersEndToEnd
  <2>3. ChatTypeOK' /\ Progress' /\ EndsAreTold' BY <1>1, <2>1 DEF Reject
  <2> QED BY <2>2, <2>3
<1>2. CASE ReadFrame /\ ~Rejected
  <2>1. PICK n \in 1..(req.size - read) :
           IF read + n > MaxBody
           THEN Reject(413) /\ UNCHANGED read
           ELSE /\ read' = read + n
                /\ UNCHANGED <<relayVars, req, stage, answer, toRuntime, toClient, waiting, note>>
    BY <1>2 DEF ReadFrame
  <2>2. /\ read + n <= MaxBody /\ read' = read + n /\ stage = "reading"
        /\ UNCHANGED <<relayVars, req, stage, answer, toRuntime, toClient, waiting, note>>
    BY <1>2, <2>1 DEF ReadFrame
  <2>3. HeadersEndToEnd' BY <2>2, HeadersKept
  <2> QED BY <2>2, <2>3
<1>3. CASE ReadAll /\ ~Rejected
  <2>1. HeadersEndToEnd' BY <1>3, HeadersKept DEF ReadAll
  <2> QED BY <1>3, <2>1 DEF ReadAll
<1>4. CASE GoneEarly
  <2>1. HeadersEndToEnd' BY <1>4, HeadersKept DEF GoneEarly
  <2> QED BY <1>4, <2>1 DEF GoneEarly
<1>5. CASE RefuseDeclared \/ ReadFails \/ NotEnsured
  BY <1>1, <1>5 DEF RefuseDeclared, ReadFails, NotEnsured
<1> QED BY <1>1, <1>2, <1>3, <1>4, <1>5 DEF Upload, ReadFrame, ReadAll

\* So does the forward: an answer is given once, and an abort noted once.
LEMMA ForwardKeeps ==
    ASSUME ChatInv, TypeOK', Ensured \/ Forward
    PROVE  ChatInv'
<1> USE ChatLimits DEF ChatInv, ChatTypeOK, Progress, EndsAreTold, relayVars
<1>1. CASE Ensured
  <2>1. HeadersEndToEnd'
    <3>1. RequestHeaders'
      <4>1. /\ toRuntime' = Forwarded(req.headers, RequestId(req))
            /\ req' = req /\ req \in Requests
        BY <1>1 DEF Ensured
      <4> DEFINE f == Forwarded(req.headers, RequestId(req))
      <4> HIDE DEF ChatInv, ChatTypeOK, Progress, EndsAreTold
      <4>2. /\ f["x-request-id"] = <<RequestId(req)>> /\ f["authorization"] = Bearer
            /\ \A n \in {"cookie", "proxy-authorization"} \cup HOP_BY_HOP : f[n] = <<>>
            /\ \A n \in EndToEnd :
                  f[n] = IF n \in Connection(req.headers) THEN <<>> ELSE req.headers[n]
        BY <4>1, ForwardedHeaders
      <4>3. RequestId(req)' = RequestId(req) BY <4>1
      <4> HIDE DEF f
      <4> QED BY <4>1, <4>2, <4>3, Zenon DEF RequestHeaders, f
    <3>2. ReplyHeaders' BY <1>1 DEF Ensured, HeadersEndToEnd, ReplyHeaders
    <3> QED BY <3>1, <3>2 DEF HeadersEndToEnd
  <2> QED BY <1>1, <2>1 DEF Ensured, Start, upVars
<1>2. CASE BeginReply
  <2>1. phase = "headers" /\ phase' = "body" /\ end' = end
    BY <1>2 DEF BeginReply, GotHeaders
  <2>2. HeadersEndToEnd'
    <3>1. RequestHeaders' BY <1>2, <2>1 DEF BeginReply, HeadersEndToEnd, RequestHeaders
    <3>2. PICK h \in Replies : toClient' = Relayed(h, RequestId(req)) BY <1>2 DEF BeginReply
    <3>3. req' = req BY <1>2 DEF BeginReply
    <3>4. ReplyHeaders' BY <3>2, <3>3, RelayedHeaders DEF ReplyHeaders
    <3> QED BY <3>1, <3>4 DEF HeadersEndToEnd
  <2> QED BY <1>2, <2>1, <2>2 DEF BeginReply
<1>3. CASE NoReply
  <2>1. phase = "headers" /\ phase' = "done" /\ end' \in {"timeout", "unhealthy"}
    BY <1>3 DEF NoReply, NoHeaders, Refused, Done
  <2>2. HeadersEndToEnd'
    <3>1. RequestHeaders' BY <1>3, <2>1 DEF NoReply, HeadersEndToEnd, RequestHeaders
    <3>2. toClient' = Envelope(RequestId(req)) /\ req' = req BY <1>3 DEF NoReply
    <3>3. ReplyHeaders' BY <3>2, EnvelopeHeaders DEF ReplyHeaders
    <3> QED BY <3>1, <3>3 DEF HeadersEndToEnd
  <2> QED BY <1>3, <2>1, <2>2 DEF NoReply
<1>4. CASE RelayBody
  <2>1. /\ phase = "body"
        /\ \/ phase' = phase /\ end' = end
           \/ phase' = "done" /\ end' = "complete"
    BY <1>4 DEF RelayBody, PollChunk, PollEnd, Polled, Done
  <2>2. HeadersEndToEnd' BY <1>4, <2>1, HeadersKept DEF RelayBody, Unanswered
  <2> QED BY <1>4, <2>1, <2>2 DEF RelayBody, Unanswered
<1>5. CASE Abort
  <2>1. phase = "body" /\ phase' = "done" /\ end' \in {"cut", "idle"}
    BY <1>5 DEF Abort, PollError, PollIdle, Polled, Done
  <2>2. HeadersEndToEnd' BY <1>5, <2>1, HeadersKept DEF Abort
  <2> QED BY <1>5, <2>1, <2>2 DEF Abort
<1> QED BY <1>1, <1>2, <1>3, <1>4, <1>5 DEF Forward

\* So do the runtime, the clock, the client, the other tasks and the TUI.
LEMMA SurroundingsKeep ==
    ASSUME ChatInv, TypeOK',
           \/ (Runtime \/ Tick \/ ClientReads \/ ClientGone) /\ Unanswered
           \/ OthersSend \/ TuiTakes \/ UNCHANGED chatVars
    PROVE  ChatInv'
<1> USE ChatLimits DEF ChatInv, ChatTypeOK, Progress, EndsAreTold, relayVars
<1>1. CASE (Runtime \/ Tick \/ ClientReads) /\ Unanswered
  <2>1. phase' = phase /\ end' = end
    BY <1>1 DEF Runtime, UpHeaders, UpChunk, UpEnd, UpFail, Tick, ClientReads
  <2>2. HeadersEndToEnd' BY <1>1, <2>1, HeadersKept DEF Unanswered
  <2> QED BY <1>1, <2>1, <2>2 DEF Unanswered
<1>2. CASE ClientGone /\ Unanswered
  <2>1. phase \in {"headers", "body"} /\ phase' = "done" /\ end' = "gone"
    BY <1>2 DEF ClientGone, Listening, Done
  <2>2. HeadersEndToEnd' BY <1>2, <2>1, HeadersKept DEF Unanswered
  <2> QED BY <1>2, <2>1, <2>2 DEF Unanswered
<1>3. CASE OthersSend \/ TuiTakes
  <2>1. HeadersEndToEnd' BY <1>3, HeadersKept DEF OthersSend, TuiTakes, vars
  <2> QED BY <1>3, <2>1 DEF OthersSend, TuiTakes, vars
<1>4. CASE UNCHANGED chatVars
  <2>1. HeadersEndToEnd' BY <1>4, HeadersKept DEF chatVars, vars
  <2> QED BY <1>4, <2>1 DEF chatVars, vars
<1> QED BY <1>1, <1>2, <1>3, <1>4

\* The strengthened invariant holds for every request, reply and limit.
THEOREM ChatInductive == ChatSpec => []ChatInv
<1>1. ChatInit => ChatInv BY ChatStarts
<1>2. ChatInv /\ TypeOK' /\ [ChatNext]_chatVars => ChatInv'
  BY ChecksKeep, ForwardKeeps, SurroundingsKeep DEF ChatNext
<1> QED BY <1>1, <1>2, ImplementsRelay, TypeCorrect, PTL DEF ChatSpec

\* Every variable of a chat request keeps its type.
THEOREM ChatTypeCorrect == ChatSpec => []ChatTypeOK
<1>1. ChatInv => ChatTypeOK BY DEF ChatInv
<1> QED BY <1>1, ChatInductive, PTL

\* Only a whole, valid body within max_body_bytes reaches the runtime, and no more
\* than that is ever buffered.
THEOREM OnlyChecked == ChatSpec => []OnlyCheckedForwarded
<1>1. ChatInv => OnlyCheckedForwarded
  BY DEF ChatInv, Progress, Valid, OnlyCheckedForwarded
<1> QED BY <1>1, ChatInductive, PTL

\* Credentials and per-hop headers stop at the proxy and one id goes both ways.
THEOREM HeadersSeparated == ChatSpec => []HeadersEndToEnd
<1>1. ChatInv => HeadersEndToEnd BY DEF ChatInv
<1> QED BY <1>1, ChatInductive, PTL

\* The status tells the end, and each abort is noted or its note dropped.
THEOREM EndsTold == ChatSpec => []EndsAreTold
<1>1. ChatInv => EndsAreTold BY DEF ChatInv
<1> QED BY <1>1, ChatInductive, PTL

\* What is proved of the relay holds of every chat request: its body is cut for
\* idleness only after the runtime's silence, ...
THEOREM ChatNoFalseIdle == ChatSpec => []IdleMeansSilence
BY ImplementsRelay, NoFalseIdle, PTL

\* ... and it gets the runtime's chunks as a BytePipe promises.
THEOREM ChatImplementsPipe == ChatSpec => ImplementsPipe
BY ImplementsRelay, Implements, PTL

------------------------------------------------------------------------------
(* What follows for the client.                                            *)

\* A complete reply is all of what the runtime had to say, and none holds more than that,
\* whatever windows, deadlines and failures meet (AbortOnError, "nothing fabricated").
THEOREM WholeReplies == ChatSpec => []Pipe!CompleteIsWhole
<1>1. Pipe!Init => Pipe!CompleteIsWhole
  BY DEF Pipe!Init, Pipe!CompleteIsWhole
<1>2. IndInv /\ Pipe!CompleteIsWhole /\ [Pipe!Next]_(Pipe!vars) => Pipe!CompleteIsWhole'
  <2> SUFFICES ASSUME IndInv, Pipe!CompleteIsWhole, [Pipe!Next]_(Pipe!vars)
               PROVE  Pipe!CompleteIsWhole'
    OBVIOUS
  <2> USE DEF Pipe!CompleteIsWhole
  <2>0. sent \in Nat /\ passed \in Nat
    BY Limits DEF IndInv, TypeOK
  <2>1. CASE Pipe!Give \/ Pipe!Finish
    BY <2>0, <2>1 DEF Pipe!Give, Pipe!Finish
  <2>2. CASE Pipe!Pass
    BY <2>0, <2>2 DEF Pipe!Pass
  <2>3. CASE Pipe!Complete \/ Pipe!Cut
    BY <2>0, <2>3 DEF Pipe!Complete, Pipe!Cut
  <2>4. CASE UNCHANGED Pipe!vars
    BY <2>4 DEF Pipe!vars
  <2> QED
    BY <2>1, <2>2, <2>3, <2>4 DEF Pipe!Next
<1>3. Spec => Pipe!Spec
  BY Implements DEF ImplementsPipe
<1>4. Spec => []Pipe!CompleteIsWhole
  BY <1>1, <1>2, <1>3, Inductive, PTL DEF Pipe!Spec
<1> QED
  BY <1>4, ImplementsRelay, PTL

\* A reply ends once: after its end nothing is passed on, and a reply that was cut never
\* becomes a complete one.
THEOREM FinalEnds == ChatSpec => Pipe!EndIsFinal
<1>1. [Pipe!Next]_(Pipe!vars) => [Pipe!Final]_(Pipe!vars)
  BY DEF Pipe!Next, Pipe!Give, Pipe!Finish, Pipe!Pass, Pipe!Complete, Pipe!Cut, Pipe!Final
<1> QED
  BY <1>1, ChatImplementsPipe, PTL DEF Pipe!Spec, ImplementsPipe, Pipe!EndIsFinal

\* The deadline is put off by nothing but progress: the first byte of a forward, the start
\* of its body, and each chunk handed on (first_byte_ms, idle_ms).
THEOREM Deadlines == ChatSpec => DeadlineStands
<1> DEFINE Stands ==
      /\ left' > left => passed' > passed \/ phase' # phase
      /\ passed' >= passed
      /\ phase' # phase => \/ phase = "new" /\ phase' = "headers"
                           \/ phase = "headers" /\ phase' \in {"body", "done"}
                           \/ phase = "body" /\ phase' = "done"
<1>1. ASSUME IndInv, [Next]_vars PROVE [Stands]_vars
  <2>0. left \in Nat /\ passed \in Nat
    BY <1>1, Limits DEF IndInv, TypeOK
  <2> USE <2>0 DEF upVars, Done, Listening
  <2>1. CASE Start BY <2>1 DEF Start
  <2>2. CASE Runtime BY <2>2 DEF Runtime, UpHeaders, UpChunk, UpEnd, UpFail
  <2>3. CASE GotHeaders \/ NoHeaders \/ Refused BY <2>3 DEF GotHeaders, NoHeaders, Refused
  <2>4. CASE PollChunk BY <2>4 DEF PollChunk, Polled
  <2>5. CASE PollEnd \/ PollError \/ PollIdle
    BY <2>5 DEF PollEnd, PollError, PollIdle, Polled
  <2>6. CASE Tick BY <2>6 DEF Tick
  <2>7. CASE ClientReads \/ ClientGone BY <2>7 DEF ClientReads, ClientGone
  <2> QED BY <1>1, <2>1, <2>2, <2>3, <2>4, <2>5, <2>6, <2>7 DEF Next, Proxy
<1>2. Spec => DeadlineStands
  BY <1>1, Inductive, PTL DEF Spec, DeadlineStands
<1> QED
  BY <1>2, ImplementsRelay, PTL

\* No request is ever stuck: until it is over its own next step can be taken, a deadline
\* runs, or its client has something to read -- whatever the runtime does or fails to do.
THEOREM NobodyStuck == ChatSpec => []NeverStuck
<1>1. IndInv /\ ChatInv => NeverStuck
  BY Limits, RequestsAssumption, LimitsAssumption
     DEF IndInv, TypeOK, NothingLost, ChatInv, ChatTypeOK, Progress, NeverStuck, Listening
<1>2. ChatSpec => []IndInv
  BY ImplementsRelay, Inductive, PTL
<1> QED
  BY <1>1, <1>2, ChatInductive, PTL
==============================================================================
