--------------------------- MODULE MCEnsureProxy ---------------------------
(* Small instances of EnsureProxy: two models that fit, one that does not, and *)
(* a name that no profile knows.  What they need is what the oracle makes of   *)
(* three files.                                                                *)
EXTENDS Admission, TLC

CONSTANTS r1, r2, s1, small, other, huge, ghost

Reqs == {r1, r2}
Box == {small, huge, ghost}
TwoSmall == {small, other}

\* qwen3-9b-Q5_K_XL, llama-2-7b-Q8_0 and qwen3-30b-A3B-Q4_K_XL-draft-1b, without hints.
FileOf(size, marks, later) ==
    [size |-> size, experts |-> FALSE, dot |-> FALSE, later |-> later, marks |-> marks]
FileOfProfile ==
    [p \in Profiles |->
        IF p = huge THEN FileOf(300, {"Q4", "Q4_K"}, <<0, 1>>)
        ELSE IF p = small THEN FileOf(90, {"Q5", "Q5_"}, <<>>)
        ELSE FileOf(70, {"Q8", "Q8_0"}, <<>>)]

\* In tenths of a GB, against a box of 12 GB with one in reserve.
Vram == [p \in Profiles |-> TheOracle!Estimate(FileOfProfile[p], FALSE, {}, {}).vram]
Ram == [p \in Profiles |-> TheOracle!Estimate(FileOfProfile[p], FALSE, {}, {}).ram]

\* The sizes, quantizations and hints there are, some files naming the size of their draft
\* model after their own.
AllFiles ==
    [size : {10 * n : n \in 1..40} \cup {700, 4050, 19990}, experts : {FALSE},
     dot : {FALSE}, later : {<<0>>, <<1>>},
     marks : {{}, {"Q2", "Q2_K"}, {"Q3", "Q3_K"}, {"Q3", "IQ3"}, {"Q4", "IQ4", "IQ4_XS"},
              {"Q4", "Q4_K"}, {"Q5", "Q5_"}, {"Q6", "Q6_K"}, {"Q8", "Q8_0"}, {"F16"}}]
AllHints == {{}, {0}, {20}, {30}, {90}}

SymReqs == Permutations(Reqs)
============================================================================
