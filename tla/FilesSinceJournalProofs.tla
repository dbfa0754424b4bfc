----------------------- MODULE FilesSinceJournalProofs -----------------------
(* Lemmas about the journal operators, for every Limit.                    *)
EXTENDS FilesSinceJournal, SequenceTheorems, TLAPS

(* A remainder never exceeds the number it was taken from.                 *)
LEMMA RemainderBound ==
  ASSUME NEW a \in Nat, NEW b \in Nat \ {0}
  PROVE  a % b \in 0 .. a
OBVIOUS

(* trim() drops at most what exceeds twice the limit: of a list that is    *)
(* not empty it keeps an entry.                                            *)
LEMMA DroppedByRange ==
  ASSUME NEW t \in Nat
  PROVE  /\ DroppedBy(t) \in 0 .. t
         /\ t > 0 => DroppedBy(t) < t
<1>1. Limit \in Nat \ {0}
  BY LimitAssumption
<1>2. CASE t < 2 * Limit
  BY <1>1, <1>2 DEF DroppedBy
<1>3. CASE ~(t < 2 * Limit)
  <2>1. t - 2 * Limit \in Nat /\ 2 * Limit + 1 \in Nat \ {0}
    BY <1>1, <1>3
  <2>2. (t - 2 * Limit) % (2 * Limit + 1) \in 0 .. (t - 2 * Limit)
    BY <2>1, RemainderBound
  <2>. QED
    BY <1>1, <1>3, <2>2 DEF DroppedBy
<1>. QED
  BY <1>2, <1>3

(* What the record loop leaves: the list with the new entries at its end,  *)
(* without its first `drop` entries; when some were dropped the retained   *)
(* generation is that of the oldest entry left.                            *)
Recorded(j, ps, g, ms, drop) ==
  LET r == RecordAll(j, ps, g, ms)
      n == Len(j.entries)
  IN  /\ r \in Journal
      /\ Len(r.entries) = n + Len(ps) - drop
      /\ \A i \in 1 .. Len(r.entries) :
           r.entries[i] =
             IF i + drop <= n
               THEN j.entries[i + drop]
               ELSE [path |-> ps[i + drop - n], generation |-> g,
                     unix_ms |-> ms]
      /\ r.current_generation = IF g > j.current_generation
                                  THEN g ELSE j.current_generation
      /\ r.overflowed = j.overflowed
      /\ r.retained_from_generation =
           IF drop = 0 THEN j.retained_from_generation
                       ELSE r.entries[1].generation

(* Recording a batch of paths leaves such a journal, for the drop of       *)
(* DroppedBy.                                                              *)
LEMMA RecordAllDrops ==
  ASSUME NEW j \in Journal, NEW ps \in Seq(Paths), ps # << >>,
         NEW g \in Nat, NEW ms \in Nat
  PROVE  /\ DroppedBy(Len(j.entries) + Len(ps)) \in 0 .. (Len(j.entries) + Len(ps) - 1)
         /\ Recorded(j, ps, g, ms, DroppedBy(Len(j.entries) + Len(ps)))
<1>. DEFINE n    == Len(j.entries)
            new  == [i \in 1 .. Len(ps) |->
                       [path |-> ps[i], generation |-> g, unix_ms |-> ms]]
            all  == j.entries \o new
            drop == DroppedBy(Len(all))
            kept == SubSeq(all, drop + 1, Len(all))
            r    == RecordAll(j, ps, g, ms)
<1>. HIDE DEF n, new, all, drop, kept, r
<1>1. j.entries \in Seq(Entry) /\ n \in Nat /\ Len(ps) \in Nat \ {0}
  BY DEF Journal, n
<1>2. new \in Seq(Entry) /\ Len(new) = Len(ps)
  BY <1>1 DEF Entry, new
<1>3. /\ all \in Seq(Entry)
      /\ Len(all) = n + Len(ps)
      /\ \A i \in 1 .. n + Len(ps) :
           all[i] = IF i <= n THEN j.entries[i] ELSE new[i - n]
  BY <1>1, <1>2, ConcatProperties DEF all, n
<1>4. drop \in 0 .. (n + Len(ps) - 1)
  BY <1>1, <1>3, DroppedByRange DEF drop
<1>5. /\ kept \in Seq(Entry)
      /\ Len(kept) = n + Len(ps) - drop
      /\ \A i \in 1 .. Len(kept) : kept[i] = all[i + drop]
  <2>1. \A i \in drop + 1 .. Len(all) : all[i] \in Entry
    BY <1>1, <1>3, <1>4
  <2>2. /\ kept \in Seq(Entry)
        /\ Len(kept) = IF drop + 1 <= Len(all)
                         THEN Len(all) - (drop + 1) + 1 ELSE 0
        /\ \A i \in 1 .. Len(all) - (drop + 1) + 1 :
             kept[i] = all[drop + 1 + i - 1]
    BY <1>1, <1>3, <1>4, <2>1, SubSeqProperties DEF kept
  <2>. QED
    BY <1>1, <1>3, <1>4, <2>2
<1>6. \A i \in 1 .. Len(kept) :
        kept[i] = IF i + drop <= n THEN j.entries[i + drop]
                  ELSE [path |-> ps[i + drop - n], generation |-> g,
                        unix_ms |-> ms]
  <2>. SUFFICES ASSUME NEW i \in 1 .. Len(kept)
                PROVE  kept[i] = IF i + drop <= n THEN j.entries[i + drop]
                                 ELSE [path |-> ps[i + drop - n],
                                       generation |-> g, unix_ms |-> ms]
    OBVIOUS
  <2>1. i + drop \in 1 .. n + Len(ps)
    BY <1>1, <1>4, <1>5
  <2>2. kept[i] = IF i + drop <= n THEN j.entries[i + drop]
                  ELSE new[i + drop - n]
    <3>1. kept[i] = all[i + drop]
      BY <1>5
    <3>2. \A k \in 1 .. n + Len(ps) :
            all[k] = IF k <= n THEN j.entries[k] ELSE new[k - n]
      BY <1>3
    <3>. QED
      BY <1>1, <1>4, <2>1, <3>1, <3>2
  <2>3. ~(i + drop <= n) => i + drop - n \in 1 .. Len(ps)
    BY <1>1, <1>4, <2>1
  <2>. QED
    BY <2>2, <2>3 DEF new
<1>7. /\ r.entries = kept
      /\ r.current_generation = IF g > j.current_generation
                                  THEN g ELSE j.current_generation
      /\ r.overflowed = j.overflowed
      /\ r.retained_from_generation =
           IF drop = 0 THEN j.retained_from_generation
                       ELSE all[drop + 1].generation
      /\ r = [entries |-> r.entries,
               current_generation |-> r.current_generation,
               overflowed |-> r.overflowed,
               retained_from_generation |-> r.retained_from_generation]
  BY DEF RecordAll, kept, drop, all, new, r
<1>8. kept[1] = all[drop + 1]
  BY <1>1, <1>4, <1>5
<1>9. r \in Journal
  <2>1. all[drop + 1] \in Entry
    BY <1>1, <1>3, <1>4
  <2>. QED
    BY <1>5, <1>7, <2>1 DEF Journal, Entry
<1>10. /\ Len(r.entries) = n + Len(ps) - drop
       /\ \A i \in 1 .. Len(r.entries) :
            r.entries[i] = IF i + drop <= n THEN j.entries[i + drop]
                           ELSE [path |-> ps[i + drop - n], generation |-> g,
                                 unix_ms |-> ms]
       /\ r.retained_from_generation =
            IF drop = 0 THEN j.retained_from_generation
                        ELSE r.entries[1].generation
  BY <1>5, <1>6, <1>7, <1>8
<1>11. drop = DroppedBy(Len(j.entries) + Len(ps))
  BY <1>3 DEF drop, n
<1>. QED
  BY <1>4, <1>7, <1>9, <1>10, <1>11 DEF n, r, Recorded

(* Recording keeps at least one entry.                                     *)
LEMMA RecordAllResult ==
  ASSUME NEW j \in Journal, NEW ps \in Seq(Paths), ps # << >>,
         NEW g \in Nat, NEW ms \in Nat
  PROVE  \E drop \in 0 .. (Len(j.entries) + Len(ps) - 1) :
           Recorded(j, ps, g, ms, drop)
BY RecordAllDrops

-----------------------------------------------------------------------------
(***************************************************************************)
(* What a journal knows of the changes H that were written to it: its      *)
(* entries are in the order of their generations, each is a change, and    *)
(* every change after the retained generation is still an entry.           *)
(***************************************************************************)
Ordered(j) ==
  \A i, k \in 1 .. Len(j.entries) :
    i <= k => j.entries[i].generation <= j.entries[k].generation

Bounded(j, H) ==
  /\ j.retained_from_generation <= j.current_generation
  /\ \A i \in 1 .. Len(j.entries) :
       /\ j.retained_from_generation <= j.entries[i].generation
       /\ j.entries[i].generation <= j.current_generation
  /\ \A c \in H : c.generation \in Nat /\ c.generation <= j.current_generation

EntriesAreChanges(j, H) ==
  \A i \in 1 .. Len(j.entries) : \E c \in H :
    c.path = j.entries[i].path /\ c.generation = j.entries[i].generation

ChangesAreEntries(j, H) ==
  \A c \in H : c.generation > j.retained_from_generation =>
    \E i \in 1 .. Len(j.entries) :
      j.entries[i].path = c.path /\ j.entries[i].generation = c.generation

Remembers(j, H) ==
  /\ Ordered(j)
  /\ Bounded(j, H)
  /\ EntriesAreChanges(j, H)
  /\ ChangesAreEntries(j, H)

(* An empty journal remembers that nothing happened.                       *)
LEMMA RemembersEmpty == Remembers(EmptyJournal, {})
BY DEF Remembers, Ordered, Bounded, EntriesAreChanges, ChangesAreEntries,
       EmptyJournal

(* A journal that overflows at a new generation g remembers whatever       *)
(* happened up to g: it retains nothing before g + 1.                      *)
LEMMA RemembersOverflow ==
  ASSUME NEW j \in Journal, NEW H, NEW N, NEW g \in Nat,
         Remembers(j, H), g > j.current_generation,
         \A c \in N : c.generation = g
  PROVE  Remembers(MarkOverflow(j, g), H \union N)
BY DEF Journal, Remembers, Ordered, Bounded, EntriesAreChanges,
       ChangesAreEntries, MarkOverflow

(* A journal that records one batch of paths, under a generation no older  *)
(* than its own, remembers that batch too, whether or not it is trimmed on *)
(* the way.                                                                *)
LEMMA RemembersRecordAll ==
  ASSUME NEW j \in Journal, NEW H, NEW N,
         NEW ps \in Seq(Paths), ps # << >>, NEW g \in Nat, NEW ms \in Nat,
         Remembers(j, H), g >= j.current_generation,
         \A c \in N : c.generation = g /\ \E i \in 1 .. Len(ps) : c.path = ps[i],
         \A i \in 1 .. Len(ps) : \E c \in N : c.path = ps[i] /\ c.generation = g
  PROVE  Remembers(RecordAll(j, ps, g, ms), H \union N)
<1>. DEFINE n == Len(j.entries)
            r == RecordAll(j, ps, g, ms)
            m == Len(r.entries)
<1>. HIDE DEF n, r, m
<1>0. PICK drop \in 0 .. (n + Len(ps) - 1) : Recorded(j, ps, g, ms, drop)
  BY RecordAllResult DEF n
<1>1. /\ r \in Journal
      /\ m = n + Len(ps) - drop
      /\ \A i \in 1 .. m :
           r.entries[i] = IF i + drop <= n THEN j.entries[i + drop]
                          ELSE [path |-> ps[i + drop - n], generation |-> g,
                                unix_ms |-> ms]
      /\ r.current_generation = IF g > j.current_generation
                                  THEN g ELSE j.current_generation
      /\ r.retained_from_generation =
           IF drop = 0 THEN j.retained_from_generation
                       ELSE r.entries[1].generation
  BY <1>0 DEF Recorded, n, r, m
<1>2. /\ n \in Nat
      /\ \A i \in 1 .. n : j.entries[i] \in Entry
      /\ j.current_generation \in Nat
      /\ j.retained_from_generation \in Nat
  BY DEF Journal, n
<1>2a. /\ j.retained_from_generation <= j.current_generation
       /\ j.retained_from_generation <= g
       /\ \A c \in H : c.generation \in Nat /\ c.generation <= j.current_generation
  <2>1. /\ j.retained_from_generation <= j.current_generation
        /\ \A c \in H : c.generation \in Nat /\ c.generation <= j.current_generation
    BY DEF Remembers, Bounded
  <2>. QED
    BY <1>2, <2>1
<1>3. Len(ps) \in Nat \ {0}
  OBVIOUS
<1>4. m \in Nat \ {0} /\ 1 \in 1 .. m
  BY <1>1, <1>2, <1>3
<1>5. ASSUME NEW i \in 1 .. m, i + drop <= n
      PROVE  /\ i + drop \in 1 .. n
             /\ r.entries[i] = j.entries[i + drop]
             /\ r.entries[i].generation \in Nat
             /\ j.retained_from_generation <= r.entries[i].generation
             /\ r.entries[i].generation <= j.current_generation
  <2>1. i + drop \in 1 .. n
    BY <1>2, <1>3, <1>4, <1>5
  <2>2. r.entries[i] = j.entries[i + drop]
    BY <1>1, <1>5
  <2>3. j.entries[i + drop] \in Entry
    BY <1>2, <2>1
  <2>4. /\ j.retained_from_generation <= j.entries[i + drop].generation
        /\ j.entries[i + drop].generation <= j.current_generation
    BY <2>1 DEF Remembers, Bounded, n
  <2>. QED
    BY <2>1, <2>2, <2>3, <2>4 DEF Entry
<1>6. ASSUME NEW i \in 1 .. m, ~(i + drop <= n)
      PROVE  /\ i + drop - n \in 1 .. Len(ps)
             /\ r.entries[i].path = ps[i + drop - n]
             /\ r.entries[i].generation = g
  <2>1. i + drop - n \in 1 .. Len(ps)
    BY <1>1, <1>2, <1>3, <1>4, <1>6
  <2>2. r.entries[i] = [path |-> ps[i + drop - n], generation |-> g,
                        unix_ms |-> ms]
    BY <1>1, <1>6
  <2>. QED
    BY <2>1, <2>2
<1>6a. ASSUME NEW i \in 1 .. m
       PROVE  r.entries[i].generation \in Nat /\ r.entries[i].generation <= g
  <2>1. CASE i + drop <= n
    BY <1>2, <1>5, <2>1
  <2>2. CASE ~(i + drop <= n)
    BY <1>6, <2>2
  <2>. QED
    BY <2>1, <2>2
<1>7. /\ r.current_generation = g
      /\ r.retained_from_generation \in Nat
      /\ j.retained_from_generation <= r.retained_from_generation
      /\ drop = 0 => r.retained_from_generation = j.retained_from_generation
      /\ drop # 0 => r.retained_from_generation = r.entries[1].generation
  <2>1. r.current_generation = g /\ r.retained_from_generation \in Nat
    <3>1. (IF g > j.current_generation THEN g ELSE j.current_generation) = g
      BY <1>2
    <3>2. r.retained_from_generation \in Nat
      BY <1>1 DEF Journal
    <3>. QED
      BY <1>1, <3>1, <3>2
  <2>2. CASE drop = 0
    BY <1>1, <1>2, <2>1, <2>2
  <2>3. CASE drop # 0
    <3>1. r.retained_from_generation = r.entries[1].generation
      BY <1>1, <2>3
    <3>2. j.retained_from_generation <= r.entries[1].generation
      <4>1. CASE 1 + drop <= n
        BY <1>4, <1>5, <4>1
      <4>2. CASE ~(1 + drop <= n)
        <5>1. r.entries[1].generation = g
          BY <1>4, <1>6, <4>2
        <5>. QED
          BY <1>2, <1>2a, <5>1
      <4>. QED
        BY <4>1, <4>2
    <3>. QED
      BY <2>1, <2>3, <3>1, <3>2
  <2>. QED
    BY <2>2, <2>3
<1>8. Ordered(r)
  <2>. SUFFICES ASSUME NEW i \in 1 .. m, NEW k \in 1 .. m, i <= k
                PROVE  r.entries[i].generation <= r.entries[k].generation
    BY DEF Ordered, m
  <2>1. CASE k + drop <= n
    <3>1. i + drop <= n /\ i + drop <= k + drop
      BY <1>2, <1>4, <2>1
    <3>2. j.entries[i + drop].generation <= j.entries[k + drop].generation
      BY <1>5, <2>1, <3>1 DEF Remembers, Ordered, n
    <3>. QED
      BY <1>5, <2>1, <3>1, <3>2
  <2>2. CASE ~(k + drop <= n)
    <3>1. r.entries[k].generation = g
      BY <1>6, <2>2
    <3>2. r.entries[i].generation <= g
      BY <1>6a
    <3>. QED
      BY <3>1, <3>2
  <2>. QED
    BY <2>1, <2>2
<1>9. Bounded(r, H \union N)
  <2>1. r.retained_from_generation <= r.current_generation
    <3>1. r.entries[1].generation <= g
      BY <1>4, <1>6a
    <3>. QED
      BY <1>2, <1>2a, <1>7, <3>1
  <2>2. ASSUME NEW i \in 1 .. m
        PROVE  /\ r.retained_from_generation <= r.entries[i].generation
               /\ r.entries[i].generation <= g
    <3>1. r.entries[i].generation <= g /\ r.entries[i].generation \in Nat
      BY <1>6a
    <3>2. CASE drop = 0
      <4>1. CASE i + drop <= n
        BY <1>5, <1>7, <3>1, <3>2, <4>1
      <4>2. CASE ~(i + drop <= n)
        BY <1>2, <1>2a, <1>6, <1>7, <3>1, <3>2, <4>2
      <4>. QED
        BY <4>1, <4>2
    <3>3. CASE drop # 0
      <4>1. r.entries[1].generation <= r.entries[i].generation
        BY <1>4, <1>8 DEF Ordered, m
      <4>. QED
        BY <1>7, <3>1, <3>3, <4>1
    <3>. QED
      BY <3>2, <3>3
  <2>3. \A c \in H \union N : c.generation \in Nat /\ c.generation <= g
    BY <1>2, <1>2a
  <2>. QED
    BY <1>7, <2>1, <2>2, <2>3 DEF Bounded, m
<1>10. EntriesAreChanges(r, H \union N)
  <2>. SUFFICES ASSUME NEW i \in 1 .. m
                PROVE  \E c \in H \union N :
                         /\ c.path = r.entries[i].path
                         /\ c.generation = r.entries[i].generation
    BY DEF EntriesAreChanges, m
  <2>1. CASE i + drop <= n
    <3>1. \E c \in H : /\ c.path = j.entries[i + drop].path
                        /\ c.generation = j.entries[i + drop].generation
      BY <1>5, <2>1 DEF Remembers, EntriesAreChanges, n
    <3>. QED
      BY <1>5, <2>1, <3>1
  <2>2. CASE ~(i + drop <= n)
    <3>1. \E c \in N : /\ c.path = ps[i + drop - n]
                        /\ c.generation = g
      BY <1>6, <2>2
    <3>. QED
      BY <1>6, <2>2, <3>1
  <2>. QED
    BY <2>1, <2>2
<1>11. ChangesAreEntries(r, H \union N)
  <2>. SUFFICES ASSUME NEW c \in H \union N,
                       c.generation > r.retained_from_generation
                PROVE  \E i \in 1 .. m :
                         /\ r.entries[i].path = c.path
                         /\ r.entries[i].generation = c.generation
    BY DEF ChangesAreEntries, m
  <2>1. CASE c \in H
    <3>1. c.generation \in Nat /\ c.generation > j.retained_from_generation
      BY <1>2, <1>2a, <1>7, <2>1
    <3>2. PICK k \in 1 .. n : /\ j.entries[k].path = c.path
                              /\ j.entries[k].generation = c.generation
      BY <2>1, <3>1 DEF Remembers, ChangesAreEntries, n
    <3>3. k > drop
      <4>1. SUFFICES ASSUME k <= drop  PROVE FALSE
        BY <1>2
      <4>2. drop # 0 /\ r.retained_from_generation = r.entries[1].generation
        BY <1>2, <1>7, <4>1
      <4>3. CASE 1 + drop <= n
        <5>1. r.entries[1] = j.entries[1 + drop]
          BY <1>4, <1>5, <4>3
        <5>2. j.entries[k].generation <= j.entries[1 + drop].generation
          BY <1>2, <4>1, <4>3 DEF Remembers, Ordered, n
        <5>. QED
          BY <1>7, <3>1, <3>2, <4>2, <5>1, <5>2
      <4>4. CASE ~(1 + drop <= n)
        <5>1. r.entries[1].generation = g
          BY <1>4, <1>6, <4>4
        <5>2. c.generation <= j.current_generation
          BY <1>2a, <2>1
        <5>. QED
          BY <1>2, <3>1, <4>2, <5>1, <5>2
      <4>. QED
        BY <4>3, <4>4
    <3>4. k - drop \in 1 .. m /\ (k - drop) + drop = k
      BY <1>1, <1>2, <1>3, <1>4, <3>3
    <3>5. r.entries[k - drop] = j.entries[k]
      <4>1. (k - drop) + drop <= n
        BY <1>2, <3>4
      <4>2. r.entries[k - drop] = j.entries[(k - drop) + drop]
        BY <1>5, <3>4, <4>1
      <4>. QED
        BY <3>4, <4>2
    <3>. QED
      BY <3>2, <3>4, <3>5
  <2>2. CASE c \in N
    <3>1. PICK k \in 1 .. Len(ps) : c.path = ps[k]
      BY <2>2
    <3>2. SUFFICES ASSUME k + n > drop
                   PROVE  \E i \in 1 .. m :
                            /\ r.entries[i].path = c.path
                            /\ r.entries[i].generation = c.generation
      <4>1. SUFFICES ASSUME ~(k + n > drop)  PROVE FALSE
        OBVIOUS
      <4>2. r.retained_from_generation = g
        <5>1. drop # 0 /\ ~(1 + drop <= n)
          BY <1>2, <3>1, <4>1
        <5>2. r.entries[1].generation = g
          BY <1>4, <1>6, <5>1
        <5>. QED
          BY <1>7, <5>1, <5>2
      <4>. QED
        BY <2>2, <4>2
    <3>3. k + n - drop \in 1 .. m /\ (k + n - drop) + drop - n = k
      BY <1>1, <1>2, <1>3, <1>4, <3>2
    <3>4. ~((k + n - drop) + drop <= n)
      BY <1>2, <3>1
    <3>5. /\ r.entries[k + n - drop].path = ps[k]
          /\ r.entries[k + n - drop].generation = g
      BY <1>6, <3>3, <3>4
    <3>. QED
      BY <2>2, <3>1, <3>3, <3>5
  <2>. QED
    BY <2>1, <2>2
<1>. QED
  BY <1>8, <1>9, <1>10, <1>11 DEF Remembers, r

(* query() on such a journal: an answer that does not say truncated names  *)
(* exactly the paths that changed after the cursor.                        *)
LEMMA RemembersCatchUp ==
  ASSUME NEW j \in Journal, NEW H, Remembers(j, H), NEW g \in Nat,
         ~SinceGeneration(j, g).truncated
  PROVE  SinceGeneration(j, g).paths
           = {h.path : h \in {c \in H : c.generation > g}}
<1>. DEFINE late == {i \in DOMAIN j.entries : j.entries[i].generation > g}
            found == {e.path : e \in {j.entries[i] : i \in late}}
<1>1. SinceGeneration(j, g).paths = found
  BY DEF SinceGeneration, Answer
<1>2. ~GenerationGap(j, g)
  BY DEF SinceGeneration, Answer
<1>3. g >= j.retained_from_generation
  BY <1>2 DEF GenerationGap, Journal
<1>4. DOMAIN j.entries = 1 .. Len(j.entries)
  BY DEF Journal
<1>5. ASSUME NEW p \in found
      PROVE  p \in {h.path : h \in {c \in H : c.generation > g}}
  <2>1. PICK i \in 1 .. Len(j.entries) :
          j.entries[i].generation > g /\ j.entries[i].path = p
    BY <1>4, <1>5
  <2>2. PICK c \in H : /\ c.path = j.entries[i].path
                       /\ c.generation = j.entries[i].generation
    BY DEF Remembers, EntriesAreChanges
  <2>. QED
    BY <2>1, <2>2
<1>6. ASSUME NEW c \in H, c.generation > g
      PROVE  c.path \in found
  <2>1. c.generation > j.retained_from_generation
    BY <1>3, <1>6 DEF Journal, Remembers, Bounded
  <2>2. PICK i \in 1 .. Len(j.entries) :
          j.entries[i].path = c.path /\ j.entries[i].generation = c.generation
    BY <2>1 DEF Remembers, ChangesAreEntries
  <2>. QED
    BY <1>4, <1>6, <2>2
<1>. QED
  BY <1>1, <1>5, <1>6

(***************************************************************************)
(* The entries of a generation carry the time at which its changes were    *)
(* written: record() is given one time for a whole batch.                  *)
(***************************************************************************)
TimesAgree(j, H) ==
  \A i \in 1 .. Len(j.entries) : \A c \in H :
    c.generation = j.entries[i].generation => c.unix_ms = j.entries[i].unix_ms

(* Recording one batch at one time, under a new generation, keeps that so. *)
LEMMA TimesAgreeRecordAll ==
  ASSUME NEW j \in Journal, NEW H, NEW N,
         NEW ps \in Seq(Paths), ps # << >>, NEW g \in Nat, NEW ms \in Nat,
         Remembers(j, H), TimesAgree(j, H), g > j.current_generation,
         \A c \in N : c.generation = g /\ c.unix_ms = ms
  PROVE  TimesAgree(RecordAll(j, ps, g, ms), H \union N)
<1>. DEFINE n == Len(j.entries)
            r == RecordAll(j, ps, g, ms)
<1>1. /\ n \in Nat /\ Len(ps) \in Nat \ {0} /\ j.current_generation \in Nat
      /\ \A i \in 1 .. n : j.entries[i].generation \in Nat
                            /\ j.entries[i].generation <= j.current_generation
      /\ \A c \in H : c.generation \in Nat /\ c.generation <= j.current_generation
  <2>1. \A i \in 1 .. n : j.entries[i] \in Entry
    BY DEF Journal
  <2>. QED
    BY <2>1 DEF Journal, Entry, Remembers, Bounded
<1>2. PICK drop \in 0 .. (n + Len(ps) - 1) : Recorded(j, ps, g, ms, drop)
  BY RecordAllResult
<1>3. \A i \in 1 .. Len(r.entries) :
        r.entries[i] = IF i + drop <= n THEN j.entries[i + drop]
                       ELSE [path |-> ps[i + drop - n], generation |-> g,
                             unix_ms |-> ms]
  BY <1>2 DEF Recorded
<1>3a. Len(r.entries) \in Nat
  BY <1>2 DEF Recorded, Journal
<1>. HIDE DEF r, n
<1>4. ASSUME NEW i \in 1 .. Len(r.entries), NEW c \in H \union N,
             c.generation = r.entries[i].generation
      PROVE  c.unix_ms = r.entries[i].unix_ms
  <2>1. CASE i + drop <= n
    <3>1. i + drop \in 1 .. n
      BY <1>1, <1>3a, <2>1
    <3>1a. r.entries[i] = j.entries[i + drop]
      BY <1>3, <2>1
    <3>2. c \in H
      BY <1>1, <1>4, <3>1, <3>1a
    <3>. QED
      BY <1>4, <3>1, <3>1a, <3>2 DEF TimesAgree, n
  <2>2. CASE ~(i + drop <= n)
    <3>1. r.entries[i].generation = g /\ r.entries[i].unix_ms = ms
      <4>1. r.entries[i] = [path |-> ps[i + drop - n], generation |-> g,
                            unix_ms |-> ms]
        BY <1>3, <2>2
      <4>. QED
        BY <4>1
    <3>2. c \in N
      BY <1>1, <1>4, <3>1
    <3>. QED
      BY <3>1, <3>2
  <2>. QED
    BY <2>1, <2>2
<1>. QED
  BY <1>4 DEF TimesAgree, r, n

-----------------------------------------------------------------------------
(***************************************************************************)
(* The closed form of the loop.  A list of t entries is trimmed whenever   *)
(* it has 4*Limit + 1 of them, and keeps 2*Limit: what DroppedBy says that *)
(* all trims together have dropped grows by 2*Limit + 1 at each of them.   *)
(***************************************************************************)
LEMMA ProductOrder ==
  ASSUME NEW k \in Nat \ {0}, NEW a \in Int, NEW b \in Int, a < b
  PROVE  k * a + k <= k * b
<1>1. k * (b - a - 1) >= 0
  <2>1. \A x, y \in Nat : x * y \in Nat
    OBVIOUS
  <2>2. b - a - 1 \in Nat
    OBVIOUS
  <2>3. k * (b - a - 1) \in Nat
    BY <2>1, <2>2
  <2>. QED
    BY <2>3
<1>2. k * (b - a - 1) = k * b - k * a - k
  OBVIOUS
<1>3. k * a \in Int /\ k * b \in Int
  OBVIOUS
<1>. QED
  BY <1>1, <1>2, <1>3

(* Quotient and remainder.                                                 *)
LEMMA DivMod ==
  ASSUME NEW k \in Nat \ {0}, NEW m \in Nat
  PROVE  /\ m = k * (m \div k) + (m % k)
         /\ (m % k) \in 0 .. k - 1
         /\ m \div k \in Int
OBVIOUS

(* The remainder counts up and starts again.                               *)
LEMMA NextRemainder ==
  ASSUME NEW k \in Nat \ {0}, NEW m \in Nat
  PROVE  (m + 1) % k = IF (m % k) + 1 = k THEN 0 ELSE (m % k) + 1
<1>1. PICK q \in Int : q = m \div k
  OBVIOUS
<1>2. PICK p \in Int : p = (m + 1) \div k
  OBVIOUS
<1>3. PICK r \in 0 .. k - 1 : r = m % k
  OBVIOUS
<1>4. PICK s \in 0 .. k - 1 : s = (m + 1) % k
  OBVIOUS
<1>5. m = k * q + r /\ m + 1 = k * p + s
  BY DivMod, <1>1, <1>2, <1>3, <1>4
<1>6. PICK a \in Int : a = k * q
  OBVIOUS
<1>7. PICK b \in Int : b = k * p
  OBVIOUS
<1>8. a + r + 1 = b + s
  BY <1>5, <1>6, <1>7
<1>9. CASE p < q
  <2>1. b + k <= a
    BY <1>6, <1>7, <1>9, ProductOrder
  <2>. QED
    BY <1>8, <2>1
<1>10. CASE p = q
  <2>1. a = b
    BY <1>10, <1>6, <1>7
  <2>. QED
    BY <2>1, <1>8, <1>3, <1>4
<1>11. CASE q < p
  <2>1. a + k <= b
    BY <1>6, <1>7, <1>11, ProductOrder
  <2>. QED
    BY <2>1, <1>8, <1>3, <1>4
<1>. QED
  BY <1>9, <1>10, <1>11

(* One entry more: either it fits, or one trim drops 2*Limit + 1.          *)
LEMMA DroppedNext ==
  ASSUME NEW t \in Nat
  PROVE  /\ t <= 4 * Limit => DroppedBy(t) = 0
         /\ t - DroppedBy(t) <= 4 * Limit
         /\ DroppedBy(t + 1) = IF t - DroppedBy(t) < 4 * Limit
                                 THEN DroppedBy(t)
                                 ELSE DroppedBy(t) + 2 * Limit + 1
<1>1. PICK k \in Nat \ {0} : k = 2 * Limit + 1
  BY LimitAssumption
<1>2. 2 * Limit = k - 1 /\ 4 * Limit = 2 * k - 2 /\ Limit \in Nat \ {0}
  BY <1>1, LimitAssumption
<1>3. CASE t < 2 * Limit
  <2>1. DroppedBy(t) = 0
    BY <1>3 DEF DroppedBy
  <2>2. CASE t + 1 < 2 * Limit
    <3>1. DroppedBy(t + 1) = 0
      BY <2>2 DEF DroppedBy
    <3>. QED
      BY <1>2, <1>3, <2>1, <3>1
  <2>3. CASE t + 1 = 2 * Limit
    <3>1. DroppedBy(t + 1) = 0 - (0 % k)
      BY <1>2, <2>3 DEF DroppedBy
    <3>2. 0 % k = 0
      BY RemainderBound
    <3>. QED
      BY <1>2, <1>3, <2>1, <3>1, <3>2
  <2>. QED
    BY <1>2, <1>3, <2>2, <2>3
<1>4. CASE t >= 2 * Limit
  <2>1. PICK m \in Nat : m = t - 2 * Limit
    BY <1>2, <1>4
  <2>2. PICK r \in 0 .. k - 1 : r = m % k
    BY DivMod
  <2>3. DroppedBy(t) = m - r
    BY <1>2, <1>4, <2>1, <2>2 DEF DroppedBy
  <2>4. DroppedBy(t + 1) = (m + 1) - ((m + 1) % k)
    <3>1. t + 1 - 2 * Limit = m + 1 /\ ~ (t + 1 < 2 * Limit)
      BY <1>2, <1>4, <2>1
    <3>. QED
      BY <1>2, <3>1 DEF DroppedBy
  <2>5. (m + 1) % k = IF r + 1 = k THEN 0 ELSE r + 1
    BY <2>2, NextRemainder
  <2>6. t - DroppedBy(t) = k - 1 + r
    BY <1>2, <2>1, <2>3
  <2>7. t <= 4 * Limit => r = m
    <3>1. PICK q \in Int : m = k * q + r
      BY <2>2, DivMod
    <3>2. ASSUME t <= 4 * Limit
          PROVE  q = 0
      <4>1. m < k
        BY <1>2, <2>1, <3>2
      <4>2. q < 0 => k * q + k <= k * 0
        BY ProductOrder
      <4>3. 0 < q => k * 0 + k <= k * q
        BY ProductOrder
      <4>4. PICK a \in Int : a = k * q
        OBVIOUS
      <4>. QED
        BY <2>2, <3>1, <4>1, <4>2, <4>3, <4>4
    <3>3. ASSUME q = 0
          PROVE  r = m
      <4>1. k * q = 0
        BY <3>3
      <4>. QED
        BY <3>1, <4>1
    <3>. QED
      BY <3>2, <3>3
  <2>. QED
    BY <1>2, <2>1, <2>3, <2>4, <2>5, <2>6, <2>7
<1>. QED
  BY <1>2, <1>3, <1>4

(***************************************************************************)
(* The journal after the first i record() calls of the loop over ps.       *)
(***************************************************************************)
Looped(j, ps, g, ms, i, r) ==
  LET n == Len(j.entries)
      d == DroppedBy(n + i)
  IN  /\ r \in Journal
      /\ Len(r.entries) = n + i - d
      /\ \A k \in 1 .. n + i - d :
           r.entries[k] =
             IF k + d <= n
               THEN j.entries[k + d]
               ELSE [path |-> ps[k + d - n], generation |-> g, unix_ms |-> ms]
      /\ r.current_generation =
           IF i > 0 /\ g > j.current_generation THEN g ELSE j.current_generation
      /\ r.overflowed = j.overflowed
      /\ r.retained_from_generation =
           IF d = 0 THEN j.retained_from_generation ELSE r.entries[1].generation

(* Looped leaves no choice of the journal.                                 *)
LEMMA LoopedOnce ==
  ASSUME NEW j \in Journal, NEW ps, NEW g, NEW ms, NEW i \in Nat,
         NEW r, Looped(j, ps, g, ms, i, r), NEW s, Looped(j, ps, g, ms, i, s)
  PROVE  r = s
<1>1. r \in Journal /\ s \in Journal
  BY DEF Looped
<1>2. r.entries \in Seq(Entry) /\ s.entries \in Seq(Entry)
  BY <1>1 DEF Journal
<1>3. Len(r.entries) = Len(s.entries)
      /\ \A k \in 1 .. Len(r.entries) : r.entries[k] = s.entries[k]
  BY DEF Looped
<1>4. r.entries = s.entries
  BY <1>2, <1>3, SeqEqual
<1>5. /\ r.current_generation = s.current_generation
      /\ r.overflowed = s.overflowed
      /\ r.retained_from_generation = s.retained_from_generation
  BY <1>4 DEF Looped
<1>. QED
  BY <1>1, <1>4, <1>5 DEF Journal

(* Before the loop: nothing is dropped of a list that trim() has left.     *)
LEMMA LoopedStarts ==
  ASSUME NEW j \in Journal, Len(j.entries) <= 4 * Limit, NEW ps, NEW g, NEW ms
  PROVE  Looped(j, ps, g, ms, 0, j)
<1>1. Len(j.entries) \in Nat
  BY DEF Journal
<1>2. DroppedBy(Len(j.entries)) = 0
  BY <1>1, DroppedNext
<1>. QED
  BY <1>1, <1>2 DEF Looped

(* One record() call of the loop.                                          *)
LEMMA LoopedNext ==
  ASSUME NEW j \in Journal, NEW ps \in Seq(Paths), NEW g \in Nat, NEW ms \in Nat,
         NEW i \in 0 .. Len(ps) - 1, NEW r, Looped(j, ps, g, ms, i, r)
  PROVE  Looped(j, ps, g, ms, i + 1, Record(r, ps[i + 1], g, ms))
<1>0. PICK n \in Nat : n = Len(j.entries)
  BY DEF Journal
<1>. DEFINE new == [path |-> ps[i + 1], generation |-> g, unix_ms |-> ms]
            all == Append(r.entries, new)
            cur == IF g > r.current_generation THEN g ELSE r.current_generation
            full == [r EXCEPT !.entries = all, !.current_generation = cur]
<1>1. i \in Nat /\ i + 1 \in 1 .. Len(ps) /\ Limit \in Nat \ {0}
  BY LimitAssumption
<1>2. PICK d \in 0 .. n + i : d = DroppedBy(n + i)
  <2>1. n + i \in Nat
    BY <1>1
  <2>. QED
    BY <2>1, DroppedByRange
<1>3. PICK e \in 0 .. n + (i + 1) : e = DroppedBy(n + (i + 1))
  <2>1. n + (i + 1) \in Nat
    BY <1>1
  <2>. QED
    BY <2>1, DroppedByRange
<1>4. d \in Nat /\ e \in Nat /\ n + i - d \in Nat
  BY <1>1, <1>2, <1>3
<1>5. /\ n + i - d <= 4 * Limit
      /\ e = IF n + i - d < 4 * Limit THEN d ELSE d + 2 * Limit + 1
  <2>1. PICK t \in Nat : t = n + i
    BY <1>1
  <2>2. t + 1 = n + (i + 1)
    BY <1>1, <2>1
  <2>3. /\ t - DroppedBy(t) <= 4 * Limit
        /\ DroppedBy(t + 1) = IF t - DroppedBy(t) < 4 * Limit
                                THEN DroppedBy(t)
                                ELSE DroppedBy(t) + 2 * Limit + 1
    BY DroppedNext
  <2>4. DroppedBy(t) = d /\ DroppedBy(t + 1) = e
    BY <1>2, <1>3, <2>1, <2>2
  <2>. QED
    BY <2>1, <2>3, <2>4
<1>6. /\ r \in Journal /\ r.entries \in Seq(Entry) /\ Len(r.entries) = n + i - d
      /\ \A k \in 1 .. n + i - d :
           r.entries[k] =
             IF k + d <= n THEN j.entries[k + d]
             ELSE [path |-> ps[k + d - n], generation |-> g, unix_ms |-> ms]
      /\ r.current_generation =
           IF i > 0 /\ g > j.current_generation THEN g ELSE j.current_generation
      /\ r.overflowed = j.overflowed
      /\ r.retained_from_generation =
           IF d = 0 THEN j.retained_from_generation ELSE r.entries[1].generation
  BY <1>0, <1>2 DEF Looped, Journal
<1>7. new \in Entry /\ cur \in Nat
  <2>1. ps[i + 1] \in Paths
    BY <1>1
  <2>2. r.current_generation \in Nat
    BY <1>6 DEF Journal
  <2>. QED
    BY <2>1, <2>2 DEF Entry
<1>8. cur = IF i + 1 > 0 /\ g > j.current_generation THEN g ELSE j.current_generation
  <2>1. PICK a \in Nat : a = j.current_generation
    BY DEF Journal
  <2>2. r.current_generation = IF i > 0 /\ g > a THEN g ELSE a
    BY <1>6, <2>1
  <2>3. CASE g > a
    <3>1. r.current_generation \in {g, a}
      BY <2>2
    <3>2. cur = g
      BY <2>3, <3>1
    <3>. QED
      BY <1>1, <2>1, <2>3, <3>2
  <2>4. CASE ~(g > a)
    <3>1. r.current_generation = a
      BY <2>2, <2>4
    <3>2. cur = a
      BY <2>4, <3>1
    <3>. QED
      BY <2>1, <2>4, <3>2
  <2>. QED
    BY <2>3, <2>4
<1>9. /\ all \in Seq(Entry) /\ Len(all) = n + i - d + 1
      /\ \A k \in 1 .. n + i - d + 1 :
           all[k] = IF k + d <= n THEN j.entries[k + d]
                    ELSE [path |-> ps[k + d - n], generation |-> g, unix_ms |-> ms]
  <2>1. /\ all \in Seq(Entry) /\ Len(all) = n + i - d + 1
        /\ all[n + i - d + 1] = new
        /\ \A k \in 1 .. n + i - d : all[k] = r.entries[k]
    <3>1. PICK l \in Nat : l = n + i - d
      BY <1>4
    <3>2. new \in Entry /\ r.entries \in Seq(Entry) /\ Len(r.entries) = l
      BY <1>6, <1>7, <3>1
    <3>. HIDE DEF new
    <3>. QED
      BY <3>1, <3>2
  <2>2. ASSUME NEW k \in 1 .. n + i - d + 1
        PROVE  all[k] = IF k + d <= n THEN j.entries[k + d]
                        ELSE [path |-> ps[k + d - n], generation |-> g, unix_ms |-> ms]
    <3>1. CASE k = n + i - d + 1
      <4>1. k + d = n + i + 1 /\ ~ (k + d <= n) /\ k + d - n = i + 1
        BY <1>1, <1>4, <3>1
      <4>. QED
        BY <2>1, <3>1, <4>1
    <3>2. CASE k # n + i - d + 1
      <4>1. k \in 1 .. n + i - d
        BY <1>1, <1>4, <3>2
      <4>. QED
        BY <1>6, <2>1, <4>1
    <3>. QED
      BY <3>1, <3>2
  <2>. HIDE DEF all
  <2>. QED
    BY <2>1, <2>2
<1>10. Record(r, ps[i + 1], g, ms) = Trim(full)
  BY DEF Record
<1>11. /\ full \in Journal /\ full.entries = all /\ full.current_generation = cur
       /\ full.overflowed = j.overflowed
       /\ full.retained_from_generation = r.retained_from_generation
  BY <1>6, <1>7, <1>9 DEF Journal
<1>. HIDE DEF new, all, cur, full
<1>12. CASE n + i - d < 4 * Limit
  <2>1. Trim(full) = full
    <3>1. n + i - d + 1 <= 4 * Limit
      BY <1>1, <1>4, <1>12
    <3>. QED
      BY <1>9, <1>11, <3>1 DEF Trim
  <2>2. e = d /\ n + (i + 1) - e = n + i - d + 1
    BY <1>1, <1>4, <1>5, <1>12
  <2>3. d # 0 => r.entries[1] = all[1]
    <3>. SUFFICES ASSUME d # 0 PROVE r.entries[1] = all[1]
      OBVIOUS
    <3>1. PICK t \in Nat : t = n + i
      BY <1>1
    <3>2. t > 0 => d < t
      BY <1>2, <3>1, DroppedByRange
    <3>3. 1 \in 1 .. n + i - d /\ 1 \in 1 .. n + i - d + 1
      BY <1>2, <3>1, <3>2
    <3>4. r.entries[1] = IF 1 + d <= n THEN j.entries[1 + d]
                         ELSE [path |-> ps[1 + d - n], generation |-> g, unix_ms |-> ms]
      BY <1>6, <3>3
    <3>5. all[1] = IF 1 + d <= n THEN j.entries[1 + d]
                   ELSE [path |-> ps[1 + d - n], generation |-> g, unix_ms |-> ms]
      BY <1>9, <3>3
    <3>. QED
      BY <3>4, <3>5
  <2>. QED
    BY <1>0, <1>3, <1>6, <1>8, <1>9, <1>10, <1>11, <2>1, <2>2, <2>3 DEF Looped
<1>13. CASE n + i - d = 4 * Limit
  <2>1. e = d + 2 * Limit + 1 /\ n + (i + 1) - e = 2 * Limit
        /\ n + i - d + 1 = 4 * Limit + 1
    BY <1>1, <1>4, <1>5, <1>13
  <2>. DEFINE kept == SubSeq(all, 2 * Limit + 2, 4 * Limit + 1)
  <2>2. /\ kept \in Seq(Entry) /\ Len(kept) = 2 * Limit
        /\ \A k \in 1 .. 2 * Limit : kept[k] = all[k + (2 * Limit + 1)]
    <3>1. \A k \in 2 * Limit + 2 .. 4 * Limit + 1 : all[k] \in Entry
      BY <1>1, <1>9, <2>1
    <3>2. PICK a \in Nat, b \in Nat : a = 2 * Limit + 2 /\ b = 4 * Limit + 1
      BY <1>1
    <3>3. \A k \in a .. b : all[k] \in Entry
      BY <3>1, <3>2
    <3>4. kept = SubSeq(all, a, b)
      BY <3>2
    <3>. HIDE DEF kept
    <3>5. /\ kept \in Seq(Entry)
          /\ Len(kept) = IF a <= b THEN b - a + 1 ELSE 0
          /\ \A k \in 1 .. b - a + 1 : kept[k] = all[a + k - 1]
      BY <3>3, <3>4, SubSeqProperties
    <3>6. b - a + 1 = 2 * Limit /\ a <= b
      BY <1>1, <3>2
    <3>7. \A k \in 1 .. 2 * Limit : a + k - 1 = k + (2 * Limit + 1)
      BY <1>1, <3>2
    <3>. QED
      BY <3>5, <3>6, <3>7
  <2>3. Trim(full) = [full EXCEPT !.entries = kept,
                         !.retained_from_generation = all[2 * Limit + 2].generation]
    <3>1. Len(all) = 4 * Limit + 1 /\ (4 * Limit + 1) - 2 * Limit = 2 * Limit + 1
          /\ ~ (4 * Limit + 1 <= 4 * Limit) /\ (2 * Limit + 1) + 1 = 2 * Limit + 2
      BY <1>1, <1>9, <2>1
    <3>. QED
      BY <1>11, <3>1 DEF Trim
  <2>4. all[2 * Limit + 2] = kept[1] /\ kept[1] \in Entry
    <3>. HIDE DEF kept
    <3>1. 1 \in 1 .. 2 * Limit /\ 1 + (2 * Limit + 1) = 2 * Limit + 2
      BY <1>1
    <3>. QED
      BY <2>2, <3>1
  <2>5. ASSUME NEW k \in 1 .. 2 * Limit
        PROVE  kept[k] = IF k + e <= n THEN j.entries[k + e]
                         ELSE [path |-> ps[k + e - n], generation |-> g, unix_ms |-> ms]
    <3>. HIDE DEF kept
    <3>1. PICK c \in Int : c = k + (2 * Limit + 1)
      BY <1>1
    <3>2. c \in 1 .. n + i - d + 1 /\ c + d = k + e
      BY <1>1, <1>4, <2>1, <3>1
    <3>3. kept[k] = all[c]
      BY <2>2, <3>1
    <3>4. all[c] = IF c + d <= n THEN j.entries[c + d]
                   ELSE [path |-> ps[c + d - n], generation |-> g, unix_ms |-> ms]
      BY <1>9, <3>2
    <3>5. all[c] = IF k + e <= n THEN j.entries[k + e]
                   ELSE [path |-> ps[k + e - n], generation |-> g, unix_ms |-> ms]
      BY <3>2, <3>4
    <3>. QED
      BY <3>3, <3>5
  <2>. HIDE DEF kept
  <2>6. PICK t : t = Trim(full)
    OBVIOUS
  <2>7. /\ t \in Journal /\ t.entries = kept /\ t.current_generation = cur
        /\ t.overflowed = j.overflowed
        /\ t.retained_from_generation = kept[1].generation
    BY <1>11, <2>2, <2>3, <2>4, <2>6 DEF Journal, Entry
  <2>8. e # 0
    BY <1>1, <1>4, <2>1
  <2>9. \A k \in 1 .. n + (i + 1) - e :
          t.entries[k] = IF k + e <= n THEN j.entries[k + e]
                         ELSE [path |-> ps[k + e - n], generation |-> g, unix_ms |-> ms]
    BY <2>1, <2>5, <2>7
  <2>. QED
    BY <1>0, <1>3, <1>8, <1>10, <2>1, <2>2, <2>6, <2>7, <2>8, <2>9 DEF Looped
<1>. QED
  BY <1>1, <1>4, <1>5, <1>12, <1>13

(* RecordAll is what the whole loop leaves.                                *)
LEMMA RecordAllLooped ==
  ASSUME NEW j \in Journal, NEW ps \in Seq(Paths), ps # << >>,
         NEW g \in Nat, NEW ms \in Nat
  PROVE  Looped(j, ps, g, ms, Len(ps), RecordAll(j, ps, g, ms))
<1>1. Len(ps) \in Nat \ {0}
  OBVIOUS
<1>. DEFINE d == DroppedBy(Len(j.entries) + Len(ps))
<1>2. Recorded(j, ps, g, ms, d)
  BY RecordAllDrops
<1>. QED
  BY <1>1, <1>2 DEF Recorded, Looped
=============================================================================
