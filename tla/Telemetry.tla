------------------------------ MODULE Telemetry ------------------------------
(***************************************************************************)
(* What the hardware pane promises of the GPU, with no word about tasks,   *)
(* flags or a channel: every poll's result reaches the operator, in order; *)
(* before it comes news of a change between working and failing, and only  *)
(* of a change, so that numbers never go without a reason having been told *)
(* ("a failed query is `None` plus ONE error event on the transition to    *)
(* failing", main.rs).                                                     *)
(***************************************************************************)
EXTENDS Naturals, Sequences

VARIABLES
    news,       \* found, and not yet shown
    measured,   \* numbers are shown, not "n/a"
    told        \* why not, as the operator was last told; "none" when all is well

vars == <<news, measured, told>>

Says(why) == [says |-> TRUE, why |-> why, sample |-> FALSE]
Shows(sample) == [says |-> FALSE, why |-> "none", sample |-> sample]

\* What the operator will have been told when all the news is out.
Believed ==
    LET said == {i \in DOMAIN news : news[i].says}
    IN  IF said = {} THEN told
        ELSE news[CHOOSE i \in said : \A j \in said : j <= i].why

Init == news = <<>> /\ measured = FALSE /\ told = "none"

\* The sample can be missing only for a reason.
Poll(sample, why) ==
    /\ ~sample => why # "none"
    /\ news' = news \o (IF (why = "none") = (Believed = "none") THEN <<>> ELSE <<Says(why)>>)
                    \o <<Shows(sample)>>
    /\ UNCHANGED <<measured, told>>

Learn ==
    /\ news # <<>>
    /\ news' = Tail(news)
    /\ IF Head(news).says
       THEN told' = Head(news).why /\ UNCHANGED measured
       ELSE measured' = Head(news).sample /\ UNCHANGED told

\* The operator has quit.
Drop == news' = <<>> /\ UNCHANGED <<measured, told>>

Next ==
    \/ \E sample \in BOOLEAN, why \in {"none", "sample", "apps"} : Poll(sample, why)
    \/ Learn \/ Drop

Spec == Init /\ [][Next]_vars

------------------------------------------------------------------------------
(* What follows from it.                                                   *)

\* Numbers never go without a reason having been told: when "n/a" takes the place of a
\* measurement, the operator was last told that something failed.
Told == measured /\ ~measured' => told # "none"
OutageIsTold == [][Told]_vars
=============================================================================
