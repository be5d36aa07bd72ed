------------------------------- MODULE IniFile -------------------------------
(***************************************************************************)
(* upsert_ini_section (main.rs): how the tuner edits router.ini.  A line   *)
(* is a header, an entry, or anything else (a comment, a blank); the       *)
(* spacing of headers and entries is left out.                             *)
(***************************************************************************)
EXTENDS Naturals, SequencesExt

Header(s) == [kind |-> "header", name |-> s, val |-> "-"]
Entry(k, v) == [kind |-> "entry", name |-> k, val |-> v]
Note == [kind |-> "note", name |-> "-", val |-> "-"]

IsHeader(l) == l.kind = "header"
IsEntry(l, keys) == l.kind = "entry" /\ l.name \in keys

\* Where [s] first stands, and where its block stops; 0 if it is nowhere.
StartOf(lines, s) == SelectInSeq(lines, LAMBDA l : l = Header(s))

Block(lines, start) ==
    LET next == SelectInSubSeq(lines, start + 1, Len(lines), IsHeader)
    IN  SubSeq(lines, start + 1, IF next = 0 THEN Len(lines) ELSE next - 1)

\* One line of the section: an entry whose key is still to be written takes its
\* new value, every other line stays.
ReplaceLine(acc, line) ==
    LET pos == SelectInSeq(acc.remaining, LAMBDA e : e.name = line.name)
    IN  IF line.kind = "entry" /\ pos # 0
        THEN [out |-> Append(acc.out, acc.remaining[pos]),
              remaining |-> RemoveAt(acc.remaining, pos)]
        ELSE [out |-> Append(acc.out, line), remaining |-> acc.remaining]

\* The lines of a section edited in their order, and the settings still to be written.
EditLines(lines, kv) ==
    LET acc[n \in 0..Len(lines)] ==
            IF n = 0 THEN [out |-> <<>>, remaining |-> kv]
            ELSE ReplaceLine(acc[n - 1], lines[n])
    IN  acc[Len(lines)]

\* Mutant: the section is taken to last to the end of the file.
UpsertToTheEnd(lines, s, kv) ==
    LET start == StartOf(lines, s)
        edited == EditLines(SubSeq(lines, start + 1, Len(lines)), kv)
    IN  SubSeq(lines, 1, start) \o edited.out \o edited.remaining

\* Mutant: the lines after the section are forgotten.
UpsertForgetsTheRest(lines, s, kv) ==
    LET start == StartOf(lines, s)
        edited == EditLines(Block(lines, start), kv)
    IN  SubSeq(lines, 1, start) \o edited.out \o edited.remaining

\* The file with kv written into [s]; only for a file that has the section.
Upsert(lines, s, kv) ==
    LET start == StartOf(lines, s)
        block == Block(lines, start)
        edited == EditLines(block, kv)
    IN  SubSeq(lines, 1, start) \o edited.out \o edited.remaining
          \o SubSeq(lines, start + Len(block) + 1, Len(lines))

------------------------------------------------------------------------------
(* What a reader finds.                                                    *)

\* The lines that are entries of some keys ("in"), or those that are not ("out").
Taken(line, keys, which) == IsEntry(line, keys) <=> which = "in"

Part(lines, keys, which) ==
    LET kept[n \in 0..Len(lines)] ==
            IF n = 0 THEN <<>>
            ELSE IF Taken(lines[n], keys, which) THEN Append(kept[n - 1], lines[n])
            ELSE kept[n - 1]
    IN  kept[Len(lines)]

Entries(lines, keys) == Part(lines, keys, "in")
Without(lines, keys) == Part(lines, keys, "out")

\* The values of a key in a section; the first one counts.
Values(lines, s, k) ==
    LET start == StartOf(lines, s)
    IN  IF start = 0 THEN <<>> ELSE Entries(Block(lines, start), {k})
Holds(lines, s, e) ==
    /\ Values(lines, s, e.name) # <<>>
    /\ Head(Values(lines, s, e.name)).val = e.val

------------------------------------------------------------------------------
(* What an edit promises.                                                  *)

\* Settings: entries, each of a key of its own.
Writable(kv) ==
    /\ \A i \in DOMAIN kv : kv[i].kind = "entry"
    /\ \A i, j \in DOMAIN kv : kv[i].name = kv[j].name => i = j

\* The lines of a file without the entries of kv in [s].
TheRest(lines, s, kv) ==
    LET start == StartOf(lines, s)
        block == Block(lines, start)
    IN  SubSeq(lines, 1, start) \o Without(block, {kv[i].name : i \in DOMAIN kv})
          \o SubSeq(lines, start + Len(block) + 1, Len(lines))

\* What an edit does, said by lines: take away the keys it writes and the file is the
\* one it was, every setting is written where a reader looks first, with a line of its
\* own only if its key had none, and the same edit again changes nothing.
Exact(file, s, kv) ==
    LET edited == Upsert(file, s, kv)
    IN  /\ TheRest(edited, s, kv) = TheRest(file, s, kv)
        /\ \A i \in DOMAIN kv :
            /\ Holds(edited, s, kv[i])
            /\ LET old == Len(Values(file, s, kv[i].name))
               IN  Len(Values(edited, s, kv[i].name)) = IF old = 0 THEN 1 ELSE old
        /\ Upsert(edited, s, kv) = edited
==============================================================================
