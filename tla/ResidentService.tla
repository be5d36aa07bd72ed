--------------------------- MODULE ResidentService ---------------------------
(***************************************************************************)
(* What the control API promises about residency, with no word about locks,*)
(* POSTs, timers or events: callers ask for a model, the service loads     *)
(* only what somebody asked for and keeps at most ModelsMax of them, and a *)
(* request is told its model is ready only if it was resident at some      *)
(* moment of the call ("ensure resident", control_api.rs).                 *)
(***************************************************************************)
EXTENDS Naturals, FiniteSets

CONSTANTS Requests, Swaps, Names, NoModel, ModelsMax

Callers == Requests \cup Swaps

VARIABLES
    asked,      \* the model each caller asked for
    answer,     \* what each request was told
    resident,   \* the models that are loaded
    witnessed   \* requests whose model was resident during the call

vars == <<asked, answer, resident, witnessed>>

Init ==
    /\ asked = [c \in Callers |-> NoModel]
    /\ answer = [r \in Requests |-> "none"]
    /\ resident = {}
    /\ witnessed = {}

Ask(c, m) ==
    /\ asked[c] = NoModel
    /\ asked' = [asked EXCEPT ![c] = m]
    /\ UNCHANGED <<answer, resident, witnessed>>

\* A request for a name nobody knows is turned away as it comes in.
AskRefused(r, m) ==
    /\ asked[r] = NoModel
    /\ asked' = [asked EXCEPT ![r] = m]
    /\ answer' = [answer EXCEPT ![r] = "not_ready"]
    /\ UNCHANGED <<resident, witnessed>>

\* A model somebody asked for comes in, others may have to go; the caller's
\* request may take note of it.
Load(c) ==
    /\ asked[c] # NoModel
    /\ \E kept \in SUBSET resident :
          /\ Cardinality(kept \cup {asked[c]}) <= ModelsMax
          /\ resident' = kept \cup {asked[c]}
    /\ witnessed' \in {witnessed, witnessed \cup {c}}
    /\ UNCHANGED <<asked, answer>>

UnloadAll == resident' = {} /\ UNCHANGED <<asked, answer, witnessed>>

Ready(r) ==
    /\ answer[r] = "none" /\ asked[r] # NoModel
    /\ r \in witnessed \/ asked[r] \in resident
    /\ answer' = [answer EXCEPT ![r] = "ready"]
    /\ witnessed' = witnessed \cup {r}
    /\ UNCHANGED <<asked, resident>>

NotReady(r) ==
    /\ answer[r] = "none" /\ asked[r] # NoModel
    /\ answer' = [answer EXCEPT ![r] = "not_ready"]
    /\ UNCHANGED <<asked, resident, witnessed>>

\* The client goes away; what it would have been told no longer counts.
HangUp(r) ==
    /\ asked[r] # NoModel /\ answer[r] # "gone"
    /\ answer' = [answer EXCEPT ![r] = "gone"]
    /\ witnessed' = witnessed \ {r}
    /\ UNCHANGED <<asked, resident>>

Next ==
    \/ \E c \in Callers : (\E m \in Names : Ask(c, m)) \/ Load(c)
    \/ \E r \in Requests : \/ \E m \in Names : AskRefused(r, m)
                           \/ Ready(r) \/ NotReady(r) \/ HangUp(r)
    \/ UnloadAll

Spec == Init /\ [][Next]_vars

------------------------------------------------------------------------------
(* What follows from it.                                                   *)

\* Who is told that its model is ready has it witnessed, ...
ReadyIsWitnessed == \A r \in Requests : answer[r] = "ready" => r \in witnessed

\* ... nobody's model is witnessed but while it is resident, in the call of who asked ...
SeenThere ==
    \A r \in Requests : r \in witnessed' \ witnessed =>
        asked[r] # NoModel /\ asked[r] \in resident'
WitnessedInCall == [][SeenThere]_vars

\* ... and nobody asks for another, so that it is the model that was asked for.
StillAsked == \A c \in Callers : asked[c] # NoModel => asked'[c] = asked[c]
AskedOnce == [][StillAsked]_vars
==============================================================================
