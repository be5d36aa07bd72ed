------------------------------ MODULE Footprint ------------------------------
(***************************************************************************)
(* The oracle's arithmetic: what a model is estimated to need, from the    *)
(* name of its file and the hints of its profile (control_api.rs), and     *)
(* the second estimate, which marks the hot-swap list (ui.rs).             *)
(*                                                                         *)
(* Memory is in tenths of a GB, as it is reported, and bits per weight in  *)
(* hundredths.  A file is what its name says: `size` in tenths of a        *)
(* billion parameters (0 where there is none), whether that is of one of   *)
(* several experts ("8x7B"), whether a dot follows it, the sizes `later`   *)
(* in the name, and which quantization marks are found anywhere in it.  A  *)
(* hint is a set of at most one number.                                    *)
(***************************************************************************)
EXTENDS Integers, SequencesExt

\* f64::round of a quotient.
RoundDiv(a, b) == (2 * a + b) \div (2 * b)

\* The first row of a table with a mark of the file.
Bits(table, f, default) ==
    LET row == SelectInSeq(table, LAMBDA q : q.marks \cap f.marks # {})
    IN  IF row = 0 THEN default ELSE table[row].bits

The(hint, default) == IF hint = {} THEN default ELSE CHOOSE n \in hint : TRUE

------------------------------------------------------------------------------
(* The oracle.                                                             *)

\* The words of a name between '-', '_' and '.': n for "<n>B", 0 for every other one.
\* "1.5B" falls apart, and "8x7B" is not a number.
Words(f) ==
    (IF f.experts \/ f.size = 0 THEN <<0>>
     ELSE IF f.size % 10 = 0 THEN <<f.size \div 10>>
     ELSE <<0, f.size % 10>>) \o f.later

\* Mutant: the last size in the name counts.
ParamsLast(f) ==
    LET size == SelectLastInSeq(Words(f), LAMBDA n : n \in 1..1999)
    IN  IF size = 0 THEN 8 ELSE Words(f)[size]

\* The first one does.
Params(f) ==
    LET size == SelectInSeq(Words(f), LAMBDA n : n \in 1..1999)
    IN  IF size = 0 THEN 8 ELSE Words(f)[size]

Bpw(f) ==
    Bits(<< [marks |-> {"Q2_K"}, bits |-> 260], [marks |-> {"Q3_K", "IQ3"}, bits |-> 350],
            [marks |-> {"IQ4_XS"}, bits |-> 430], [marks |-> {"Q4_K", "IQ4"}, bits |-> 485],
            [marks |-> {"Q5_"}, bits |-> 550], [marks |-> {"Q6_K"}, bits |-> 660],
            [marks |-> {"Q8_0"}, bits |-> 850], [marks |-> {"F16"}, bits |-> 1600] >>, f, 500)

\* Both hints are taken as they are.  With the experts in RAM, the hint for the VRAM alone
\* stands for what comes on top, 2 GB at least; without, one hint alone is ignored.
Estimate(f, offload, hintVram, hintRam) ==
    LET weights == Params(f) * Bpw(f)     \* in 1/800 GB
    IN  IF hintVram # {} /\ hintRam # {}
        THEN [vram |-> The(hintVram, 0), ram |-> The(hintRam, 0)]
        ELSE IF offload
        THEN [vram |-> RoundDiv(3 * weights + 1600 * Max({20, The(hintVram, 0)}), 1600),
              ram |-> RoundDiv(17 * weights, 1600)]
        ELSE [vram |-> RoundDiv(weights + 80 * 15, 80), ram |-> 0]

------------------------------------------------------------------------------
(* The mark beside the highlighted model of the hot-swap list.             *)

\* Here '.' is part of a word: a size is read as it stands, unless a dot follows it
\* ("7B.gguf").
DeckReads(f) == f.size # 0 /\ ~f.experts /\ ~f.dot

DeckBits(f) ==
    Bits(<< [marks |-> {"Q2"}, bits |-> 250], [marks |-> {"Q3"}, bits |-> 350],
            [marks |-> {"Q4"}, bits |-> 450], [marks |-> {"Q5"}, bits |-> 550],
            [marks |-> {"Q6"}, bits |-> 650], [marks |-> {"Q8"}, bits |-> 850] >>, f, 1600)

\* "HYBRID" and not "SAFE": the weights and 0.125 GB for each 1024 tokens of context are
\* more than the card has.
DeckWarns(f, ctx, total) ==
    /\ DeckReads(f) /\ total > 0
    /\ 1024 * f.size * DeckBits(f) + 1000 * ctx > 819200 * total

------------------------------------------------------------------------------
(* Properties.                                                             *)

\* What is read off a file.
FileNames == [size : Nat, experts : BOOLEAN, dot : BOOLEAN, later : Seq(Nat), marks : SUBSET STRING]

\* A file that names its size in whole billions first.
WholeSizes == {10 * n : n \in 1..1999}
Plain(f) == f.size \in WholeSizes /\ ~f.experts

\* The estimate covers the weights and what comes on top of them, up to the rounding; ...
WholeCovers(f) == 800 * (Estimate(f, FALSE, {}, {}).vram - 15) >= f.size * Bpw(f) - 400

\* ... moving the experts to RAM moves memory, and makes none disappear.
SplitCovers(f, hint) ==
    LET split == Estimate(f, TRUE, hint, {})
    IN  /\ split.vram + split.ram >= Estimate(f, FALSE, {}, {}).vram
        /\ 800 * (split.vram + split.ram - Max({20, The(hint, 0)})) >= f.size * Bpw(f) - 800

EstimatesCover(files, hints) ==
    \A f \in files : Plain(f) => WholeCovers(f) /\ \A hint \in hints : SplitCovers(f, hint)

------------------------------------------------------------------------------
(* What the code's words claim and the code does not do.                   *)

\* "A VRAM oracle estimates the footprint (from the file name ...)" (README): whatever size
\* it names, the weights are covered.  "8x7B" counts as 8, and "70.6B" as 6.
EstimatesAnyName(files) ==
    \A f \in files : f.size > 0 =>
        800 * Estimate(f, FALSE, {}, {}).vram >= (IF f.experts THEN 8 ELSE 1) * f.size * Bpw(f)

\* "... (from the file name, or from est_vram_gb / est_ram_gb in the profile)" (README): a
\* hint is used.
HintsCount(files, hints) ==
    \A f \in files, hint \in hints \ {{}} : Estimate(f, FALSE, hint, {}).vram = The(hint, 0)

\* "... and warns before you swap" (README): the hot-swap list warns of what the oracle
\* refuses.
DeckAgrees(files, total) ==
    \A f \in files : Estimate(f, FALSE, {}, {}).vram > total => DeckWarns(f, 0, total)
==============================================================================
