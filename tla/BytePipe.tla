------------------------------ MODULE BytePipe ------------------------------
(***************************************************************************)
(* What a streamed reply promises the client ("Bytes in, bytes out",       *)
(* proxy_stream.rs): it gets the runtime's chunks in order and none twice, *)
(* the reply ends once, and it ends as a complete one only if the runtime  *)
(* had finished and nothing is missing; otherwise it is visibly cut.       *)
(***************************************************************************)
EXTENDS Naturals

VARIABLES
    given,      \* chunks the runtime has produced
    finished,   \* the runtime has ended its reply
    got,        \* chunks passed on to the client
    end         \* "open", "complete" or "cut"

vars == <<given, finished, got, end>>

Init == given = 0 /\ finished = FALSE /\ got = 0 /\ end = "open"

Give == ~finished /\ given' = given + 1 /\ UNCHANGED <<finished, got, end>>

Finish == finished' = TRUE /\ UNCHANGED <<given, got, end>>

Pass ==
    /\ end = "open" /\ got < given
    /\ got' = got + 1
    /\ UNCHANGED <<given, finished, end>>

Complete ==
    /\ end = "open" /\ finished /\ got = given
    /\ end' = "complete"
    /\ UNCHANGED <<given, finished, got>>

Cut == end = "open" /\ end' = "cut" /\ UNCHANGED <<given, finished, got>>

Next == Give \/ Finish \/ Pass \/ Complete \/ Cut

Spec == Init /\ [][Next]_vars

------------------------------------------------------------------------------
(* What follows from it.                                                   *)

\* The client never gets what the runtime has not produced, and a reply that ends as a
\* complete one is all of what the runtime had to say.
CompleteIsWhole ==
    /\ got <= given
    /\ end = "complete" => finished /\ got = given

\* A reply ends once, and nothing is passed on after its end.
Final == end # "open" => UNCHANGED <<got, end>>
EndIsFinal == [][Final]_vars
=============================================================================
