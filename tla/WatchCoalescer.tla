--------------------------- MODULE WatchCoalescer ---------------------------
(***************************************************************************)
(* WatchCoalescer (progressive-lsp-watch/src/coalescer.rs): events are     *)
(* gathered while a window is open, then leave as one batch that carries a *)
(* new generation and is written to the FilesSince journal.  More pending  *)
(* events than the limit overflow: all of them are dropped, the generation *)
(* is raised and the journal forgets what it held.                         *)
(*                                                                         *)
(* Here the coalescer runs alone under a clock, the way SharedCoalescer    *)
(* and coalesce_injected use it; WatchHub runs it inside the hub thread.   *)
(***************************************************************************)
EXTENDS FilesSinceJournal

CONSTANTS
  OverflowLimit,  \* overflow_limit: pending events above it overflow
  Window,         \* window_ms
  MaxEvents,      \* bound: events ever ingested
  MaxTime         \* bound: the clock

ASSUME OverflowAssumption == OverflowLimit \in Nat \ {0}
ASSUME WindowAssumption   == Window \in Nat \ {0}
ASSUME BoundsAssumption   == MaxEvents \in Nat /\ MaxTime \in Nat

VARIABLES
  now,         \* ClockPort::unix_ms
  pending,     \* events gathered since the last flush
  window_opened_at_ms,
  generation,
  journal,
  last_batch,
  emitted,     \* the batches handed to the caller, in order
  history,     \* every change that left `pending`, journaled or dropped
  ingested     \* how many events were offered so far

cvars == << pending, window_opened_at_ms, generation, journal, last_batch,
            emitted, history >>
vars  == << now, cvars, ingested >>

NoWindow == -1

Sources == {"buffer", "disk"}

(* `seq` numbers the events in the order they were produced; the code has  *)
(* no such field.                                                          *)
Event == [path : Paths, source : Sources, seq : Nat]

Batch == [events : Seq(Event), overflow : BOOLEAN, need_rescan : BOOLEAN,
          generation : Nat]

EmptyBatch == [events |-> << >>, overflow |-> FALSE, need_rescan |-> FALSE,
               generation |-> 0]

(* A change as the journal should remember it: `lost` when the coalescer   *)
(* dropped it before it was ever recorded.                                 *)
Change == [path : Paths, generation : Nat, unix_ms : Nat, lost : BOOLEAN]

PathsOf(evs) == [i \in 1 .. Len(evs) |-> evs[i].path]

Changes(evs, g, lost) ==
  {[path |-> evs[i].path, generation |-> g, unix_ms |-> now, lost |-> lost] :
     i \in 1 .. Len(evs)}

CoalescerInit ==
  /\ pending = << >>
  /\ window_opened_at_ms = NoWindow
  /\ generation = 0
  /\ journal = EmptyJournal
  /\ last_batch = EmptyBatch
  /\ emitted = << >>
  /\ history = {}

-----------------------------------------------------------------------------
(* Mutant: a new event goes in front of the pending ones. *)
AbsorbInFront(evs) ==
  /\ Len(pending) + Len(evs) <= OverflowLimit
  /\ pending' = evs \o pending
  /\ window_opened_at_ms' =
       IF pending = << >> /\ evs # << >> THEN now ELSE window_opened_at_ms
  /\ UNCHANGED << generation, journal, last_batch, emitted, history >>

(* ingest() when every event fits: the first one opens the window.         *)
Absorb(evs) ==
  /\ Len(pending) + Len(evs) <= OverflowLimit
  /\ pending' = pending \o evs
  /\ window_opened_at_ms' =
       IF pending = << >> /\ evs # << >> THEN now ELSE window_opened_at_ms
  /\ UNCHANGED << generation, journal, last_batch, emitted, history >>

(* Mutant: an overflow does not raise the generation. *)
ForceOverflowSameGeneration(evs) ==
  /\ Len(pending) + Len(evs) > OverflowLimit
  /\ journal' = MarkOverflow(journal, generation)
  /\ last_batch' = [events |-> SubSeq(pending \o evs, 1, OverflowLimit),
                    overflow |-> TRUE, need_rescan |-> TRUE,
                    generation |-> generation]
  /\ pending' = << >>
  /\ window_opened_at_ms' = NoWindow
  /\ history' = history \union Changes(pending \o evs, generation, TRUE)
  /\ UNCHANGED << generation, emitted >>

(***************************************************************************)
(* ingest() when an event finds the list full: force_overflow() takes the  *)
(* full list into last_batch, which is not returned to anyone, and the     *)
(* `return` drops that event and the rest of the burst.                    *)
(***************************************************************************)
ForceOverflow(evs) ==
  LET g == generation + 1
  IN  /\ Len(pending) + Len(evs) > OverflowLimit
      /\ generation' = g
      /\ journal' = MarkOverflow(journal, g)
      /\ last_batch' = [events |-> SubSeq(pending \o evs, 1, OverflowLimit),
                        overflow |-> TRUE, need_rescan |-> TRUE,
                        generation |-> g]
      /\ pending' = << >>
      /\ window_opened_at_ms' = NoWindow
      /\ history' = history \union Changes(pending \o evs, g, TRUE)
      /\ UNCHANGED emitted

Ingest(evs) == Absorb(evs) \/ ForceOverflow(evs)

(* flush_pending(false): the whole list becomes one batch.                 *)
FlushPending ==
  LET g == generation + 1
      batch == [events |-> pending, overflow |-> FALSE, need_rescan |-> FALSE,
                generation |-> g]
  IN  /\ generation' = g
      /\ journal' = RecordAll(journal, PathsOf(pending), g, now)
      /\ last_batch' = batch
      /\ emitted' = Append(emitted, batch)
      /\ pending' = << >>
      /\ window_opened_at_ms' = NoWindow
      /\ history' = history \union Changes(pending, g, FALSE)

FlushNow == pending # << >> /\ FlushPending

FlushDue ==
  /\ window_opened_at_ms # NoWindow
  /\ pending # << >>
  /\ now - window_opened_at_ms >= Window
  /\ FlushPending

-----------------------------------------------------------------------------
(* The environment: a burst of events from the backend, and time.          *)
NewEvent(p, src, k) == [path |-> p, source |-> src, seq |-> k]

Burst(paths) ==
  [i \in 1 .. Len(paths) |-> NewEvent(paths[i], "disk", ingested + i)]

IngestBurst(paths) ==
  /\ ingested + Len(paths) <= MaxEvents
  /\ Ingest(Burst(paths))
  /\ ingested' = ingested + Len(paths)
  /\ UNCHANGED now

Tick ==
  /\ now < MaxTime
  /\ now' = now + 1
  /\ UNCHANGED << cvars, ingested >>

Bursts == UNION {[1 .. n -> Paths] : n \in 1 .. MaxEvents}

Init == CoalescerInit /\ now = 0 /\ ingested = 0

Next ==
  \/ \E paths \in Bursts : IngestBurst(paths)
  \/ FlushNow /\ UNCHANGED << now, ingested >>
  \/ FlushDue /\ UNCHANGED << now, ingested >>
  \/ Tick

Spec == Init /\ [][Next]_vars

-----------------------------------------------------------------------------
(* Every variable stays within its type; `pending` never exceeds the limit *)
(* and a window is open exactly while something is pending.                *)
TypeOK ==
  /\ now \in Nat
  /\ pending \in Seq(Event)
  /\ Len(pending) <= OverflowLimit
  /\ window_opened_at_ms \in Nat \union {NoWindow}
  /\ (window_opened_at_ms = NoWindow) <=> (pending = << >>)
  /\ generation \in Nat
  /\ journal \in Journal
  /\ last_batch \in Batch
  /\ emitted \in Seq(Batch)
  /\ history \in SUBSET Change
  /\ ingested \in Nat

(***************************************************************************)
(* A client that asks FilesSince(since_generation = g) is either told that *)
(* the answer is truncated or gets exactly the paths that changed after g, *)
(* whatever was trimmed, overflowed or dropped in between (query(), trim() *)
(* and mark_overflow() together).                                          *)
(***************************************************************************)
CatchUpComplete ==
  \A g \in 0 .. generation :
    LET answer == SinceGeneration(journal, g)
    IN  answer.truncated \/
        answer.paths = {h.path : h \in {c \in history : c.generation > g}}

(***************************************************************************)
(* An overflow is visible to a reader of batches as a hole in the          *)
(* generations: no batch ever carries a generation in which changes were   *)
(* dropped, and every other generation up to the current one was emitted   *)
(* as one batch (force_overflow() and flush_pending() share the counter).  *)
(***************************************************************************)
EmittedGenerations == {emitted[i].generation : i \in DOMAIN emitted}

DropLeavesGap ==
  /\ \A c \in history : c.lost => c.generation \notin EmittedGenerations
  /\ \A g \in 1 .. generation :
       g \in EmittedGenerations
       \/ \E c \in history : c.lost /\ c.generation = g

(***************************************************************************)
(* The other two cursors promise less.  FilesSince(since_unix_ms = t), and *)
(* FilesSince with no cursor, name every matching change of a generation   *)
(* after the retained one, or say truncated; what a trim or an overflow    *)
(* removed they may leave out silently (query() and trim() together).      *)
(***************************************************************************)
Names(answer, changes) ==
  answer.truncated \/ {c.path : c \in changes} \subseteq answer.paths

RetainedAnswered ==
  LET kept == {c \in history :
                 c.generation > journal.retained_from_generation}
  IN  /\ Names(SinceStart(journal), kept)
      /\ \A t \in 0 .. now :
           Names(SinceUnixMs(journal, t), {c \in kept : c.unix_ms > t})

(***************************************************************************)
(* The closed form RecordAll is the code's loop of record() calls, checked *)
(* from every reachable journal on every path list of up to MaxEvents.     *)
(***************************************************************************)
RecordLoop(j, ps, g, ms) ==
  LET loop[i \in 0 .. Len(ps)] ==
        IF i = 0 THEN j ELSE Record(loop[i - 1], ps[i], g, ms)
  IN  loop[Len(ps)]

RecordAllIsLoop ==
  \A ps \in Bursts :
    RecordAll(journal, ps, generation + 1, now)
      = RecordLoop(journal, ps, generation + 1, now)

-----------------------------------------------------------------------------
(***************************************************************************)
(* The coalescer with its journal implements the feed: its generations are *)
(* the feed's, each one a batch or an overflow, and FilesSince by          *)
(* generation answers as the feed allows, an expired cursor included.      *)
(***************************************************************************)
Feed ==
  INSTANCE WatchFeed WITH
    Events    <- Event,
    unsent    <- pending,
    delivered <- emitted,
    changed   <- {[path |-> c.path, generation |-> c.generation] : c \in history},
    catchUp   <- [g \in 0 .. generation |-> SinceGeneration(journal, g)]

ImplementsFeed == Feed!Spec
=============================================================================
