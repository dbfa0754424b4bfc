------------------------- MODULE FilesSinceJournal -------------------------
(***************************************************************************)
(* The FilesSince journal (progressive-lsp-watch/src/journal.rs): a bounded *)
(* list of (path, generation, time) entries that a client replays from a   *)
(* cursor.  The journal is a value; the coalescer and the serve host each  *)
(* keep one, so its operations are operators from journals to journals.    *)
(***************************************************************************)
EXTENDS Integers, Sequences, FiniteSets

CONSTANTS
  Paths,   \* the file paths that may be reported
  Limit    \* FilesSinceJournal.limit; new() raises 0 to 1

ASSUME LimitAssumption == Limit \in Nat \ {0}

Entry == [path : Paths, generation : Nat, unix_ms : Nat]

Journal ==
  [entries : Seq(Entry), current_generation : Nat, overflowed : BOOLEAN,
   retained_from_generation : Nat]

EmptyJournal ==
  [entries |-> << >>, current_generation |-> 0, overflowed |-> FALSE,
   retained_from_generation |-> 0]

(* Mutant: trims one entry early. *)
TrimAtLimit(j) ==
  LET drop == Len(j.entries) - 2 * Limit
  IN  IF Len(j.entries) < 4 * Limit
        THEN j
        ELSE [j EXCEPT
               !.entries = SubSeq(@, drop + 1, Len(@)),
               !.retained_from_generation = j.entries[drop + 1].generation]

(***************************************************************************)
(* trim() halves a list that has outgrown four times the limit, and raises *)
(* the retained generation to that of the oldest entry it keeps.           *)
(***************************************************************************)
Trim(j) ==
  LET drop == Len(j.entries) - 2 * Limit
  IN  IF Len(j.entries) <= 4 * Limit
        THEN j
        ELSE [j EXCEPT
               !.entries = SubSeq(@, drop + 1, Len(@)),
               !.retained_from_generation = j.entries[drop + 1].generation]

(* record(): append one entry, raise the current generation, trim.         *)
Record(j, p, g, ms) ==
  Trim([j EXCEPT
         !.entries = Append(@, [path |-> p, generation |-> g, unix_ms |-> ms]),
         !.current_generation = IF g > @ THEN g ELSE @])

(***************************************************************************)
(* The loop `for ev in events { journal.record(ev.path, g, ms) }`, in      *)
(* closed form: every trim removes 2*Limit + 1 entries, so the loop leaves *)
(* the suffix that is left after the last whole number of trims.           *)
(***************************************************************************)
DroppedBy(total) ==
  IF total < 2 * Limit
    THEN 0
    ELSE (total - 2 * Limit) - ((total - 2 * Limit) % (2 * Limit + 1))

(* Mutant: a trim forgets to raise the retained generation. *)
RecordAllKeepsRetained(j, ps, g, ms) ==
  LET all  == j.entries \o [i \in 1 .. Len(ps) |->
                 [path |-> ps[i], generation |-> g, unix_ms |-> ms]]
  IN  IF ps = << >>
        THEN j
        ELSE [j EXCEPT !.entries = SubSeq(all, DroppedBy(Len(all)) + 1, Len(all)),
                       !.current_generation = IF g > @ THEN g ELSE @]

RecordAll(j, ps, g, ms) ==
  LET new  == [i \in 1 .. Len(ps) |->
                 [path |-> ps[i], generation |-> g, unix_ms |-> ms]]
      all  == j.entries \o new
      drop == DroppedBy(Len(all))
  IN  IF ps = << >>
        THEN j
        ELSE [entries |-> SubSeq(all, drop + 1, Len(all)),
              current_generation |->
                IF g > j.current_generation THEN g ELSE j.current_generation,
              overflowed |-> j.overflowed,
              retained_from_generation |->
                IF drop = 0 THEN j.retained_from_generation
                            ELSE all[drop + 1].generation]

(* mark_overflow(): forget everything up to and including this generation. *)
MarkOverflow(j, g) ==
  [entries |-> << >>, current_generation |-> g, overflowed |-> TRUE,
   retained_from_generation |-> g]

(***************************************************************************)
(* query(): the three cursors are separate operators.  An answer is the    *)
(* set of paths that match (the code also caps it at Limit, which always   *)
(* sets `truncated`), whether it admits to being incomplete, and the new   *)
(* watermark.                                                              *)
(***************************************************************************)
Answer(j, matches, gap) ==
  LET found == {e.path : e \in {j.entries[i] : i \in matches}}
  IN  [paths |-> found,
       truncated |-> gap \/ Cardinality(found) > Limit,
       generation |-> j.current_generation]

GenerationGap(j, g) ==
  \/ g < j.retained_from_generation
  \/ j.overflowed /\ g < j.current_generation

SinceGeneration(j, g) ==
  Answer(j, {i \in DOMAIN j.entries : j.entries[i].generation > g},
         GenerationGap(j, g))

SinceUnixMs(j, ms) ==
  Answer(j, {i \in DOMAIN j.entries : j.entries[i].unix_ms > ms},
         j.overflowed)

SinceStart(j) == Answer(j, DOMAIN j.entries, FALSE)
=============================================================================
