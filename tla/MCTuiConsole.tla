---------------------------- MODULE MCTuiConsole ----------------------------
(* Four kinds of sessions: the operator fires and restarts; the list of models   *)
(* grows and shrinks; a longer line is edited beside a short list; the log is    *)
(* scrolled and filtered.                                                        *)
EXTENDS TuiConsole

MCSessions ==
    {[typed |-> 1, fired |-> 2, listed |-> 0, searched |-> 0],
     [typed |-> 1, fired |-> 0, listed |-> 2, searched |-> 0],
     [typed |-> 2, fired |-> 0, listed |-> 1, searched |-> 0],
     [typed |-> 0, fired |-> 0, listed |-> 0, searched |-> 2]}
=============================================================================
