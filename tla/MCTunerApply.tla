---------------------------- MODULE MCTunerApply ----------------------------
(* Two sections with a model path each; one of them has a ctx-size.  And, as  *)
(* the edit is a pure function, every short file over two sections and two    *)
(* keys with every list of one or two settings.                               *)
EXTENDS TunerApply

CONSTANTS MaxLines   \* bound: lines of a file to edit

ASSUME MaxLinesAssumption == MaxLines \in Nat

MCSections == {"A", "B"}
MCSizes == {"8k", "16k"}
MCOriginal == <<Header("A"), Entry("model", "a.gguf"), Entry("ctx", "4k"), Note,
                Header("B"), Entry("model", "b.gguf")>>

Keys == {"k", "m"}
Lines == {Header(s) : s \in {"A", "B"}} \cup {Entry(k, "old") : k \in Keys} \cup {Note}
MCFiles == UNION {[1..n -> Lines] : n \in 0..MaxLines}
MCSettings == {<<Entry(k, "new")>> : k \in Keys} \cup
              {<<Entry(k, "new"), Entry(CHOOSE j \in Keys : j # k, "new")>> : k \in Keys}
=============================================================================
