----------------------------- MODULE MCEventBus -----------------------------
(* The keys pressed: two commands of opposite effect in either order of        *)
(* effect, one overtaken by `q`, and a key that follows `q`.                   *)
EXTENDS EventBus

MCScripts == {<<"R", "K">>, <<"K", "q">>, <<"q", "other">>}
JustQuit == {<<"q">>}
=============================================================================
