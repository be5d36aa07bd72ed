--------------------------- MODULE MCChatRequest ---------------------------
(* Requests and replies for model-checking ChatRequest. *)
EXTENDS ChatRequest, TLC

MCEndToEnd == {"accept", "x-hop"}
MCBearer == <<"router key">>

Map(given) == [n \in Names |-> IF n \in DOMAIN given THEN given[n] ELSE <<>>]

Plain == Map("accept" :> <<"any">>)

\* Per-hop headers named by two connection lines, two ids, credentials.
Laden == Map([accept |-> <<"any">>, te |-> <<"trailers">>, cookie |-> <<"c">>,
              authorization |-> <<"client key">>]
             @@ "connection" :> <<{"x-hop"}, {"accept"}>> @@ "x-hop" :> <<"h">>
             @@ "x-request-id" :> <<"id", "other id">>)

Request(size, declared, body, wellFormed, headers) ==
    [size |-> size, declared |-> declared, body |-> body,
     wellFormed |-> wellFormed, headers |-> headers]

\* Sizes around MaxBody and all bodies with plain headers; then laden ones.
MCRequests ==
    {Request(0, d, "no object", FALSE, Plain) : d \in BOOLEAN}
    \cup {Request(s, d, b, FALSE, Plain) :
        s \in 1..(MaxBody + 1), d \in BOOLEAN, b \in Bodies}
    \cup {Request(1, TRUE, "model", w, Laden) : w \in BOOLEAN}

MCReplies == {Plain, Laden}
=============================================================================
