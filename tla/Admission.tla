----------------------------- MODULE Admission -----------------------------
(***************************************************************************)
(* What the requests of EnsureProxy are admitted by: the needs of profiles *)
(* that the oracle estimates (Footprint) from the names of their files.    *)
(***************************************************************************)
EXTENDS EnsureProxy

CONSTANTS
    File,          \* the file of each profile, as its name reads
    Files, Hints   \* bounds: the files and hints estimates are asked for

TheOracle == INSTANCE Footprint

ASSUME FilesAssumption ==
    /\ File \in [Profiles -> TheOracle!FileNames]
    /\ Files \subseteq TheOracle!FileNames
    /\ \A hint \in Hints : hint = {} \/ \E n \in hint : n \in Nat /\ hint = {n}

\* The profiles whose file names its size and that leave the rest to the oracle: they give
\* no hint and keep no experts in RAM.
ByName ==
    {p \in Profiles : /\ TheOracle!Plain(File[p])
                      /\ NeedVram[p] = TheOracle!Estimate(File[p], FALSE, {}, {}).vram}

\* Their weights, in 1/8000 GB.
Weights == [p \in ByName |-> File[p].size * TheOracle!Bpw(File[p])]

EstimatesCover == TheOracle!EstimatesCover(Files, Hints)

\* What the oracle lets in fits: no load that nobody forced or hot-swapped leaves a model
\* resident whose weights, as its file names them, are more than the card has beside the
\* reserve; and the estimates that decide it cover the weights, whatever size,
\* quantization, placement and hint a file and a profile name.
AdmittedFit ==
    /\ \A m \in (Range(loaded) \ bypassed) \cap ByName :
          Weights[m] <= 800 * (TotalVram - ReserveVram)
    /\ EstimatesCover
============================================================================
