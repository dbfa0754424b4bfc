---------------------------- MODULE WatchHubProofs ----------------------------
(***************************************************************************)
(* What holds of every coalescer and of the hub thread around it, whatever *)
(* the limits, the window and the paths.                                   *)
(* The coalescer: TypeOK is inductive.  CatchUpComplete is not: a journal  *)
(* that answers well now may hold entries that a later trim misjudges, so  *)
(* the inductive invariant also says that the journal Remembers the        *)
(* history (its entries are ordered, and complete after the retained       *)
(* generation).  It implements WatchFeed, step by step.                    *)
(* The hub: whatever the publishers, the disk, the clock and a stop do     *)
(* meanwhile, the coalescer inside it goes through coalescer steps only.   *)
(* So its invariant and its refinement of the feed carry over, the channel *)
(* keeps its capacity, and what was published is on its way or emitted, in *)
(* order.                                                                  *)
(***************************************************************************)
EXTENDS WatchHub, FilesSinceJournalProofs, FiniteSetTheorems, WellFoundedInduction

(* What the burst of an IngestBurst step is: at least one event.           *)
LEMMA BurstType ==
  ASSUME ingested \in Nat, NEW paths \in Bursts
  PROVE  /\ Burst(paths) \in Seq(Event)
         /\ Len(Burst(paths)) \in Nat \ {0}
<1>1. PICK n \in 1 .. MaxEvents : paths \in [1 .. n -> Paths]
  BY DEF Bursts
<1>2. n \in Nat \ {0}
  BY <1>1, BoundsAssumption
<1>3. Len(paths) = n
  BY <1>1, <1>2
<1>4. \A i \in 1 .. n : NewEvent(paths[i], "disk", ingested + i) \in Event
  BY <1>1, <1>2 DEF NewEvent, Event, Sources
<1>. QED
  BY <1>2, <1>3, <1>4 DEF Burst

(* The paths of a list of events are a list of paths of the same length.   *)
LEMMA PathsOfType ==
  ASSUME NEW evs \in Seq(Event)
  PROVE  /\ PathsOf(evs) \in Seq(Paths)
         /\ Len(PathsOf(evs)) = Len(evs)
         /\ \A i \in 1 .. Len(evs) : PathsOf(evs)[i] = evs[i].path
<1>1. Len(evs) \in Nat /\ \A i \in 1 .. Len(evs) : evs[i].path \in Paths
  <2>1. \A i \in 1 .. Len(evs) : evs[i] \in Event
    OBVIOUS
  <2>. QED
    BY <2>1 DEF Event
<1>. QED
  BY <1>1 DEF PathsOf

(* Changes are changes, one path of the list each, and all of them.        *)
LEMMA ChangesType ==
  ASSUME NEW evs \in Seq(Event), NEW g \in Nat, NEW lost \in BOOLEAN,
         now \in Nat
  PROVE  /\ Changes(evs, g, lost) \in SUBSET Change
         /\ \A c \in Changes(evs, g, lost) :
              /\ c.generation = g /\ c.lost = lost
              /\ \E i \in 1 .. Len(evs) : c.path = evs[i].path
         /\ \A i \in 1 .. Len(evs) : \E c \in Changes(evs, g, lost) :
              c.path = evs[i].path /\ c.generation = g /\ c.lost = lost
<1>1. Len(evs) \in Nat /\ \A i \in 1 .. Len(evs) : evs[i].path \in Paths
  <2>1. \A i \in 1 .. Len(evs) : evs[i] \in Event
    OBVIOUS
  <2>. QED
    BY <2>1 DEF Event
<1>. DEFINE change(i) == [path |-> evs[i].path, generation |-> g,
                          unix_ms |-> now, lost |-> lost]
<1>2. \A i \in 1 .. Len(evs) : change(i) \in Change
  BY <1>1 DEF Change
<1>3. Changes(evs, g, lost) = {change(i) : i \in 1 .. Len(evs)}
  BY DEF Changes
<1>4. \A i \in 1 .. Len(evs) :
        /\ change(i).path = evs[i].path
        /\ change(i).generation = g /\ change(i).lost = lost
  OBVIOUS
<1>. HIDE DEF change
<1>. QED
  BY <1>2, <1>3, <1>4

-----------------------------------------------------------------------------
(* The coalescer starts in a typed state.                                  *)
LEMMA InitTypeOK == Init => TypeOK
<1>1. EmptyJournal \in Journal
  BY DEF EmptyJournal, Journal
<1>2. EmptyBatch \in Batch
  BY DEF EmptyBatch, Batch
<1>. QED
  BY <1>1, <1>2, OverflowAssumption DEF Init, CoalescerInit, TypeOK, NoWindow

(* Events that fit keep the list within its limit, and the window opens    *)
(* with the first of them.                                                 *)
LEMMA AbsorbTypeOK ==
  ASSUME TypeOK, NEW evs \in Seq(Event), Absorb(evs),
         now' = now, ingested' \in Nat
  PROVE  TypeOK'
<1>1. /\ pending \in Seq(Event) /\ pending \o evs \in Seq(Event)
      /\ Len(pending \o evs) = Len(pending) + Len(evs)
  BY ConcatProperties DEF TypeOK
<1>2. (pending \o evs = << >>) <=> (pending = << >> /\ evs = << >>)
  BY <1>1
<1>3. window_opened_at_ms' \in Nat \union {NoWindow}
  BY DEF Absorb, TypeOK
<1>4. (window_opened_at_ms' = NoWindow) <=> (pending' = << >>)
  BY <1>2 DEF Absorb, TypeOK, NoWindow
<1>. QED
  BY <1>1, <1>3, <1>4 DEF Absorb, TypeOK

(* An overflow empties the list and raises the generation.                 *)
LEMMA ForceOverflowTypeOK ==
  ASSUME TypeOK, NEW evs \in Seq(Event), ForceOverflow(evs),
         now' = now, ingested' \in Nat
  PROVE  TypeOK'
<1>. DEFINE g == generation + 1
            all == pending \o evs
<1>1. g \in Nat
  BY DEF TypeOK
<1>2. /\ pending \o evs \in Seq(Event)
      /\ Len(pending \o evs) = Len(pending) + Len(evs)
      /\ Len(pending) \in Nat /\ Len(evs) \in Nat
  BY ConcatProperties DEF TypeOK
<1>3. journal' \in Journal
  BY <1>1 DEF ForceOverflow, MarkOverflow, Journal
<1>4. last_batch' \in Batch
  <2>1. \A i \in 1 .. OverflowLimit : (pending \o evs)[i] \in Event
    BY <1>2, OverflowAssumption DEF ForceOverflow
  <2>. HIDE DEF all
  <2>2. \A i \in 1 .. OverflowLimit : all[i] \in Event
    BY <2>1 DEF all
  <2>3. SubSeq(all, 1, OverflowLimit) \in Seq(Event)
    BY <2>2, OverflowAssumption, SubSeqProperties
  <2>. QED
    BY <1>1, <2>3 DEF ForceOverflow, Batch, all
<1>5. history' \in SUBSET Change
  BY <1>1, <1>2, ChangesType DEF ForceOverflow, TypeOK
<1>6. /\ pending' = << >> /\ pending' \in Seq(Event)
      /\ Len(pending') <= OverflowLimit
      /\ window_opened_at_ms' = NoWindow
  BY OverflowAssumption DEF ForceOverflow
<1>7. generation' = g /\ emitted' \in Seq(Batch)
  BY <1>4 DEF ForceOverflow, TypeOK
<1>. QED
  BY <1>1, <1>3, <1>4, <1>5, <1>6, <1>7 DEF TypeOK

(* A flush moves the list into a batch and into the journal.               *)
LEMMA FlushTypeOK ==
  ASSUME TypeOK, pending # << >>, FlushPending, now' = now,
         ingested' = ingested
  PROVE  TypeOK'
<1>. DEFINE g == generation + 1
            ps == PathsOf(pending)
<1>1. g \in Nat /\ pending \in Seq(Event) /\ journal \in Journal /\ now \in Nat
  BY DEF TypeOK
<1>2. ps \in Seq(Paths) /\ ps # << >>
  BY <1>1, PathsOfType
<1>3. journal' \in Journal
  <2>1. journal' = RecordAll(journal, ps, g, now)
    BY DEF FlushPending
  <2>2. \E drop \in 0 .. (Len(journal.entries) + Len(ps) - 1) :
          Recorded(journal, ps, g, now, drop)
    BY <1>1, <1>2, RecordAllResult
  <2>. QED
    BY <2>1, <2>2 DEF Recorded
<1>4. last_batch' \in Batch /\ emitted' \in Seq(Batch)
  <2>1. [events |-> pending, overflow |-> FALSE, need_rescan |-> FALSE,
         generation |-> g] \in Batch
    BY <1>1 DEF Batch
  <2>. QED
    BY <2>1 DEF FlushPending, TypeOK
<1>5. history' \in SUBSET Change
  BY <1>1, ChangesType DEF FlushPending, TypeOK
<1>6. /\ pending' = << >> /\ pending' \in Seq(Event)
      /\ Len(pending') <= OverflowLimit
      /\ window_opened_at_ms' = NoWindow
  BY OverflowAssumption DEF FlushPending
<1>7. generation' = g /\ emitted' \in Seq(Batch)
  BY <1>4 DEF FlushPending, TypeOK
<1>. QED
  BY <1>1, <1>3, <1>4, <1>5, <1>6, <1>7 DEF TypeOK

(* Each step of the coalescer keeps every variable within its type.        *)
LEMMA NextTypeOK ==
  ASSUME TypeOK, [Next]_vars
  PROVE  TypeOK'
<1>1. ASSUME NEW paths \in Bursts, IngestBurst(paths)
      PROVE  TypeOK'
  <2>1. /\ Burst(paths) \in Seq(Event)
        /\ now' = now /\ ingested' \in Nat
    <3>1. ingested \in Nat
      BY DEF TypeOK
    <3>2. \E n \in 1 .. MaxEvents : paths \in [1 .. n -> Paths]
      BY DEF Bursts
    <3>3. Len(paths) \in Nat
      BY <3>2, BoundsAssumption
    <3>. QED
      BY <1>1, <3>1, <3>3, BurstType DEF IngestBurst
  <2>2. CASE Absorb(Burst(paths))
    BY <2>1, <2>2, AbsorbTypeOK
  <2>3. CASE ForceOverflow(Burst(paths))
    BY <2>1, <2>3, ForceOverflowTypeOK
  <2>. QED
    BY <1>1, <2>2, <2>3 DEF IngestBurst, Ingest
<1>2. CASE FlushNow /\ UNCHANGED << now, ingested >>
  BY <1>2, FlushTypeOK DEF FlushNow
<1>3. CASE FlushDue /\ UNCHANGED << now, ingested >>
  BY <1>3, FlushTypeOK DEF FlushDue
<1>4. CASE Tick
  BY <1>4 DEF Tick, cvars, TypeOK
<1>5. CASE UNCHANGED vars
  BY <1>5 DEF vars, cvars, TypeOK
<1>. QED
  BY <1>1, <1>2, <1>3, <1>4, <1>5 DEF Next

(***************************************************************************)
(* Every variable of the coalescer keeps its type, `pending` never exceeds *)
(* the overflow limit, and a window is open exactly while something is     *)
(* pending.                                                                *)
(***************************************************************************)
THEOREM CoalescerTypeCorrect == Spec => []TypeOK
<1>1. Init => TypeOK
  BY InitTypeOK
<1>2. TypeOK /\ [Next]_vars => TypeOK'
  BY NextTypeOK
<1>. QED
  BY <1>1, <1>2, PTL DEF Spec

-----------------------------------------------------------------------------
(***************************************************************************)
(* The inductive invariant behind CatchUpComplete and DropLeavesGap: the   *)
(* journal has kept up with the generation and Remembers the history, and  *)
(* no batch and no change is ahead of the generation.                      *)
(***************************************************************************)
JournalKeepsUp ==
  /\ journal.current_generation = generation
  /\ Remembers(journal, history)

GenerationsUsed ==
  /\ \A c \in history : c.generation \in 1 .. generation
  /\ \A i \in 1 .. Len(emitted) : emitted[i].generation \in 1 .. generation

IndInv == TypeOK /\ JournalKeepsUp /\ GenerationsUsed /\ DropLeavesGap

(* The empty coalescer satisfies the inductive invariant.                  *)
LEMMA InitIndInv == Init => IndInv
<1>. SUFFICES ASSUME Init  PROVE IndInv
  OBVIOUS
<1>1. TypeOK
  BY InitTypeOK
<1>2. JournalKeepsUp
  BY RemembersEmpty DEF Init, CoalescerInit, EmptyJournal, JournalKeepsUp
<1>3. GenerationsUsed /\ DropLeavesGap
  BY DEF Init, CoalescerInit, GenerationsUsed, DropLeavesGap
<1>. QED
  BY <1>1, <1>2, <1>3 DEF IndInv

(* What an overflow adds to the history: changes of the new generation,    *)
(* all lost, and at least one.                                             *)
LEMMA OverflowChanges ==
  ASSUME IndInv, NEW evs \in Seq(Event), ForceOverflow(evs)
  PROVE  /\ generation' = generation + 1
         /\ history' = history \union Changes(pending \o evs, generation + 1, TRUE)
         /\ \A c \in Changes(pending \o evs, generation + 1, TRUE) :
              c.generation = generation + 1 /\ c.lost
         /\ \E c \in history' : c.lost /\ c.generation = generation + 1
<1>. DEFINE all == pending \o evs
<1>1. generation + 1 \in Nat /\ now \in Nat /\ pending \in Seq(Event)
  BY DEF IndInv, TypeOK
<1>2. all \in Seq(Event) /\ Len(all) \in Nat \ {0}
  BY <1>1, ConcatProperties, OverflowAssumption DEF ForceOverflow
<1>. HIDE DEF all
<1>3. /\ \A c \in Changes(all, generation + 1, TRUE) :
           c.generation = generation + 1 /\ c.lost = TRUE
      /\ \A i \in 1 .. Len(all) : \E c \in Changes(all, generation + 1, TRUE) :
           c.generation = generation + 1 /\ c.lost = TRUE
  BY <1>1, <1>2, ChangesType
<1>4. \E c \in Changes(all, generation + 1, TRUE) :
        c.lost /\ c.generation = generation + 1
  <2>1. 1 \in 1 .. Len(all)
    BY <1>2
  <2>2. PICK c \in Changes(all, generation + 1, TRUE) :
          c.generation = generation + 1 /\ c.lost = TRUE
    BY <1>3, <2>1
  <2>. QED
    BY <2>2, Zenon
<1>. QED
  BY <1>3, <1>4 DEF ForceOverflow, all

(* An overflow restarts the journal above every change it ever held, and  *)
(* its lost changes take a generation that no batch will ever carry.       *)
LEMMA ForceOverflowIndInv ==
  ASSUME IndInv, NEW evs \in Seq(Event), ForceOverflow(evs)
  PROVE  JournalKeepsUp' /\ GenerationsUsed' /\ DropLeavesGap'
<1>. DEFINE g == generation + 1
            N == Changes(pending \o evs, g, TRUE)
<1>1. g \in Nat /\ generation \in Nat /\ journal \in Journal /\ emitted \in Seq(Batch)
  BY DEF IndInv, TypeOK
<1>2. /\ generation' = g /\ history' = history \union N /\ emitted' = emitted
      /\ \A c \in N : c.generation = g /\ c.lost
      /\ \E c \in history' : c.lost /\ c.generation = g
      /\ journal' = MarkOverflow(journal, g)
  BY OverflowChanges DEF ForceOverflow
<1>. HIDE DEF N
<1>3. JournalKeepsUp'
  <2>1. Remembers(journal, history) /\ g > journal.current_generation
    BY <1>1 DEF IndInv, JournalKeepsUp
  <2>2. \A c \in N : c.generation = g
    BY <1>2
  <2>. HIDE DEF g
  <2>3. Remembers(MarkOverflow(journal, g), history \union N)
    BY <1>1, <2>1, <2>2, RemembersOverflow
  <2>. QED
    BY <1>2, <2>3 DEF JournalKeepsUp, MarkOverflow
<1>4. GenerationsUsed'
  BY <1>1, <1>2 DEF IndInv, GenerationsUsed
<1>5. DropLeavesGap'
  <2>1. EmittedGenerations' = EmittedGenerations
    BY <1>2 DEF EmittedGenerations
  <2>2. g \notin EmittedGenerations
    BY <1>1 DEF IndInv, GenerationsUsed, EmittedGenerations
  <2>3. \A c \in history' : c.lost => c.generation \notin EmittedGenerations
    BY <1>2, <2>2 DEF IndInv, DropLeavesGap
  <2>4. ASSUME NEW k \in 1 .. g
        PROVE  k \in EmittedGenerations
               \/ \E c \in history' : c.lost /\ c.generation = k
    BY <1>1, <1>2 DEF IndInv, DropLeavesGap
  <2>. QED
    BY <1>2, <2>1, <2>3, <2>4 DEF DropLeavesGap
<1>. QED
  BY <1>3, <1>4, <1>5

(* The changes of any event list that is flushed under a generation.       *)
LEMMA FlushChanges ==
  ASSUME NEW evs \in Seq(Event), NEW k \in Nat, now \in Nat
  PROVE  /\ \A c \in Changes(evs, k, FALSE) : c.generation = k /\ c.lost = FALSE
         /\ \A c \in Changes(evs, k, FALSE) :
              \E i \in 1 .. Len(evs) : c.path = evs[i].path
         /\ \A i \in 1 .. Len(evs) : \E c \in Changes(evs, k, FALSE) :
              c.path = evs[i].path /\ c.generation = k
<1>. DEFINE change(i) == [path |-> evs[i].path, generation |-> k,
                          unix_ms |-> now, lost |-> FALSE]
<1>1. Changes(evs, k, FALSE) = {change(i) : i \in 1 .. Len(evs)}
  BY DEF Changes
<1>2. \A i \in 1 .. Len(evs) :
        /\ change(i).path = evs[i].path
        /\ change(i).generation = k /\ change(i).lost = FALSE
  OBVIOUS
<1>. HIDE DEF change
<1>. QED
  BY <1>1, <1>2

(* What a flush adds to the history: one change per pending event, under   *)
(* the new generation, none of them lost.                                  *)
LEMMA FlushIndInv ==
  ASSUME IndInv, pending # << >>, FlushPending
  PROVE  JournalKeepsUp' /\ GenerationsUsed' /\ DropLeavesGap'
<1>. DEFINE g == generation + 1
            ps == PathsOf(pending)
            N == Changes(pending, g, FALSE)
            batch == [events |-> pending, overflow |-> FALSE,
                      need_rescan |-> FALSE, generation |-> g]
<1>1. /\ g \in Nat /\ generation \in Nat /\ now \in Nat
      /\ journal \in Journal /\ pending \in Seq(Event) /\ emitted \in Seq(Batch)
  BY DEF IndInv, TypeOK
<1>2. /\ ps \in Seq(Paths) /\ ps # << >> /\ Len(ps) = Len(pending)
      /\ \A i \in 1 .. Len(pending) : ps[i] = pending[i].path
  BY <1>1, PathsOfType
<1>3. /\ \A c \in N : c.generation = g /\ c.lost = FALSE
      /\ \A c \in N : \E i \in 1 .. Len(ps) : c.path = ps[i]
      /\ \A i \in 1 .. Len(ps) : \E c \in N : c.path = ps[i] /\ c.generation = g
  <2>1. /\ \A c \in Changes(pending, g, FALSE) : c.generation = g /\ c.lost = FALSE
        /\ \A c \in Changes(pending, g, FALSE) :
             \E i \in 1 .. Len(pending) : c.path = pending[i].path
        /\ \A i \in 1 .. Len(pending) : \E c \in Changes(pending, g, FALSE) :
             c.path = pending[i].path /\ c.generation = g
    <3>0. g \in Nat /\ pending \in Seq(Event) /\ now \in Nat
      BY <1>1
    <3>. QED
      BY <3>0, FlushChanges
  <2>. HIDE DEF g, ps
  <2>2. ASSUME NEW c \in N
        PROVE  \E i \in 1 .. Len(ps) : c.path = ps[i]
    <3>1. PICK i \in 1 .. Len(pending) : c.path = pending[i].path
      BY <2>1
    <3>2. i \in 1 .. Len(ps) /\ ps[i] = pending[i].path
      BY <1>2
    <3>. QED
      BY <3>1, <3>2
  <2>3. ASSUME NEW i \in 1 .. Len(ps)
        PROVE  \E c \in N : c.path = ps[i] /\ c.generation = g
    <3>1. i \in 1 .. Len(pending) /\ ps[i] = pending[i].path
      BY <1>2
    <3>. QED
      BY <2>1, <3>1
  <2>. QED
    BY <2>1, <2>2, <2>3
<1>4. /\ generation' = g
      /\ history' = history \union N
      /\ journal' = RecordAll(journal, ps, g, now)
      /\ emitted' = Append(emitted, batch)
  BY DEF FlushPending
<1>5. batch.generation = g
  OBVIOUS
<1>6. JournalKeepsUp'
  <2>1. Remembers(journal, history) /\ g > journal.current_generation
    BY <1>1 DEF IndInv, JournalKeepsUp
  <2>2. PICK drop \in 0 .. (Len(journal.entries) + Len(ps) - 1) :
          Recorded(journal, ps, g, now, drop)
    BY <1>1, <1>2, RecordAllResult
  <2>3. journal'.current_generation = g
    BY <1>1, <1>4, <2>1, <2>2 DEF Recorded
  <2>. HIDE DEF g, ps, N
  <2>4. Remembers(RecordAll(journal, ps, g, now), history \union N)
    <3>1. journal.current_generation \in Nat
      BY <1>1 DEF Journal
    <3>2. g >= journal.current_generation
      BY <1>1, <2>1, <3>1
    <3>3. \A c \in N : c.generation = g /\ \E i \in 1 .. Len(ps) : c.path = ps[i]
      BY <1>3
    <3>. QED
      BY <1>1, <1>2, <1>3, <2>1, <3>2, <3>3, RemembersRecordAll
  <2>. QED
    BY <1>4, <2>3, <2>4 DEF JournalKeepsUp
<1>. HIDE DEF N, ps, batch
<1>7. /\ Len(emitted') = Len(emitted) + 1 /\ Len(emitted) \in Nat
      /\ emitted'[Len(emitted) + 1] = batch
      /\ \A i \in 1 .. Len(emitted) : emitted'[i] = emitted[i]
      /\ emitted' \in Seq(Batch \union {batch})
  <2>1. /\ emitted \in Seq(Batch \union {batch})
        /\ batch \in Batch \union {batch}
    BY <1>1
  <2>. QED
    BY <1>1, <1>4, <2>1
<1>8. GenerationsUsed'
  <2>1. \A c \in history' : c.generation \in 1 .. g
    BY <1>1, <1>3, <1>4 DEF IndInv, GenerationsUsed
  <2>2. \A i \in 1 .. Len(emitted') : emitted'[i].generation \in 1 .. g
    BY <1>1, <1>5, <1>7 DEF IndInv, GenerationsUsed
  <2>. QED
    BY <1>4, <2>1, <2>2 DEF GenerationsUsed
<1>9. EmittedGenerations' = EmittedGenerations \union {g}
  <2>1. DOMAIN emitted = 1 .. Len(emitted)
    BY <1>1
  <2>2. DOMAIN emitted' = 1 .. Len(emitted) + 1
    BY <1>7
  <2>. QED
    BY <1>5, <1>7, <2>1, <2>2 DEF EmittedGenerations
<1>10. DropLeavesGap'
  <2>1. ASSUME NEW c \in history', c.lost
        PROVE  c.generation \notin EmittedGenerations'
    <3>1. c \in history
      BY <1>3, <1>4, <2>1
    <3>2. c.generation \in 1 .. generation
      BY <3>1 DEF IndInv, GenerationsUsed
    <3>. QED
      BY <1>1, <1>9, <2>1, <3>1, <3>2 DEF IndInv, DropLeavesGap
  <2>2. ASSUME NEW k \in 1 .. g
        PROVE  k \in EmittedGenerations'
               \/ \E c \in history' : c.lost /\ c.generation = k
    BY <1>1, <1>4, <1>9 DEF IndInv, DropLeavesGap
  <2>. QED
    BY <1>4, <2>1, <2>2 DEF DropLeavesGap
<1>. QED
  BY <1>6, <1>8, <1>10

(* Steps that touch neither the journal nor the batches keep both facts.   *)
LEMMA UnchangedIndInv ==
  ASSUME IndInv, UNCHANGED << generation, journal, emitted, history >>
  PROVE  JournalKeepsUp' /\ GenerationsUsed' /\ DropLeavesGap'
BY DEF IndInv, JournalKeepsUp, GenerationsUsed, DropLeavesGap, EmittedGenerations

(* Every step of the coalescer and of its environment keeps the invariant. *)
LEMMA NextIndInv ==
  ASSUME IndInv, [Next]_vars
  PROVE  IndInv'
<1>1. TypeOK'
  BY NextTypeOK DEF IndInv
<1>2. ASSUME NEW paths \in Bursts, IngestBurst(paths)
      PROVE  JournalKeepsUp' /\ GenerationsUsed' /\ DropLeavesGap'
  <2>1. Burst(paths) \in Seq(Event)
    BY BurstType DEF IndInv, TypeOK
  <2>2. CASE Absorb(Burst(paths))
    BY <2>2, UnchangedIndInv DEF Absorb
  <2>3. CASE ForceOverflow(Burst(paths))
    BY <2>1, <2>3, ForceOverflowIndInv
  <2>. QED
    BY <1>2, <2>2, <2>3 DEF IngestBurst, Ingest
<1>3. CASE FlushNow /\ UNCHANGED << now, ingested >>
  BY <1>1, <1>3, FlushIndInv DEF FlushNow, IndInv
<1>4. CASE FlushDue /\ UNCHANGED << now, ingested >>
  BY <1>1, <1>4, FlushIndInv DEF FlushDue, IndInv
<1>5. CASE Tick
  BY <1>1, <1>5, UnchangedIndInv DEF Tick, cvars, IndInv
<1>6. CASE UNCHANGED vars
  BY <1>1, <1>6, UnchangedIndInv DEF vars, cvars, IndInv
<1>. QED
  BY <1>1, <1>2, <1>3, <1>4, <1>5, <1>6 DEF Next, IndInv

(* The journal's answer to any cursor is complete or admits that it is not *)
LEMMA IndInvCatchUp == IndInv => CatchUpComplete
<1>. SUFFICES ASSUME IndInv, NEW g \in 0 .. generation,
                     ~SinceGeneration(journal, g).truncated
              PROVE  SinceGeneration(journal, g).paths
                       = {h.path : h \in {c \in history : c.generation > g}}
  BY DEF CatchUpComplete
<1>1. g \in Nat /\ journal \in Journal /\ Remembers(journal, history)
  BY DEF IndInv, TypeOK, JournalKeepsUp
<1>. QED
  BY <1>1, RemembersCatchUp

(***************************************************************************)
(* Whatever is trimmed, overflowed or dropped, FilesSince from any         *)
(* generation answers with exactly the paths that changed since, or says   *)
(* truncated.                                                              *)
(***************************************************************************)
THEOREM CatchUpAlwaysComplete == Spec => []CatchUpComplete
<1>1. Init => IndInv
  BY InitIndInv
<1>2. IndInv /\ [Next]_vars => IndInv'
  BY NextIndInv
<1>3. IndInv => CatchUpComplete
  BY IndInvCatchUp
<1>. QED
  BY <1>1, <1>2, <1>3, PTL DEF Spec

(***************************************************************************)
(* A generation in which changes were dropped is never the generation of a *)
(* batch, and every other generation is: a reader of batches sees each     *)
(* overflow as a hole.                                                     *)
(***************************************************************************)
THEOREM DropAlwaysLeavesGap == Spec => []DropLeavesGap
<1>1. Init => IndInv
  BY InitIndInv
<1>2. IndInv /\ [Next]_vars => IndInv'
  BY NextIndInv
<1>3. IndInv => DropLeavesGap
  BY DEF IndInv
<1>. QED
  BY <1>1, <1>2, <1>3, PTL DEF Spec

-----------------------------------------------------------------------------
(***************************************************************************)
(* Behind RetainedAnswered: the changes of one generation happened at one  *)
(* time, and the journal's entries tell that time (TimesAgree), so a       *)
(* change that is still an entry is found by its time as well.             *)
(***************************************************************************)
LEMMA NextTimesAgree ==
  ASSUME IndInv, TimesAgree(journal, history), [Next]_vars
  PROVE  TimesAgree(journal, history)'
<1>1. /\ generation + 1 \in Nat /\ now \in Nat /\ pending \in Seq(Event)
      /\ generation + 1 > journal.current_generation
      /\ journal \in Journal /\ Remembers(journal, history)
  BY DEF IndInv, TypeOK, JournalKeepsUp
<1>2. CASE UNCHANGED << journal, history >>
  BY <1>2 DEF TimesAgree
<1>3. ASSUME NEW evs, ForceOverflow(evs)
      PROVE  TimesAgree(journal, history)'
  <2>1. journal'.entries = << >>
    BY <1>3 DEF ForceOverflow, MarkOverflow
  <2>. QED
    BY <2>1 DEF TimesAgree
<1>4. CASE pending # << >> /\ FlushPending
  <2>. DEFINE N == Changes(pending, generation + 1, FALSE)
              ps == PathsOf(pending)
  <2>1. ps \in Seq(Paths) /\ ps # << >>
    BY <1>1, <1>4, PathsOfType
  <2>2. \A c \in N : c.generation = generation + 1 /\ c.unix_ms = now
    BY DEF Changes
  <2>3. /\ journal' = RecordAll(journal, ps, generation + 1, now)
        /\ history' = history \union N
    BY <1>4 DEF FlushPending
  <2>. HIDE DEF N, ps
  <2>4. TimesAgree(RecordAll(journal, ps, generation + 1, now), history \union N)
    BY <1>1, <2>1, <2>2, TimesAgreeRecordAll
  <2>. QED
    BY <2>3, <2>4
<1>5. ASSUME NEW paths, IngestBurst(paths)
      PROVE  TimesAgree(journal, history)'
  BY <1>2, <1>3, <1>5 DEF IngestBurst, Ingest, Absorb
<1>6. Tick \/ UNCHANGED vars => UNCHANGED << journal, history >>
  BY DEF Tick, vars, cvars
<1>. QED
  BY <1>2, <1>4, <1>5, <1>6 DEF Next, FlushNow, FlushDue

(***************************************************************************)
(* Behind RecordAllIsLoop: the loop of record() calls, call by call, from  *)
(* a journal that trim() has left.                                         *)
(***************************************************************************)
LoopOf(j, ps, g, ms, n, loop) ==
  loop = [i \in 0 .. n |-> IF i = 0 THEN j ELSE Record(loop[i - 1], ps[i], g, ms)]

(* Some number is the least of any.                                        *)
LEMMA LeastOf ==
  ASSUME NEW S \in SUBSET Nat, S # {}
  PROVE  \E n \in S : \A i \in S : n <= i
<1>1. PICK n \in S : \A i \in S : <<i, n>> \notin OpToRel(<, Nat)
  BY WFMin, NatLessThanWellFounded
<1>2. \A i, j \in Nat : <<j, i>> \notin OpToRel(<, Nat) => i <= j
  BY DEF OpToRel
<1>. QED
  BY <1>1, <1>2

(* The loop ends, however many calls it makes.                             *)
LEMMA LoopEnds ==
  ASSUME NEW j, NEW ps, NEW g, NEW ms, NEW k \in Nat
  PROVE  \E loop : LoopOf(j, ps, g, ms, k, loop)
<1>. DEFINE Stuck == {n \in Nat : ~ \E loop : LoopOf(j, ps, g, ms, n, loop)}
<1>1. SUFFICES ASSUME Stuck # {} PROVE FALSE
  BY <1>1
<1>2. PICK n \in Stuck : \A i \in Stuck : n <= i
  <2>1. Stuck \in SUBSET Nat
    OBVIOUS
  <2>. HIDE DEF Stuck
  <2>. QED
    BY <1>1, <2>1, LeastOf
<1>3. n \in Nat /\ ~ \E loop : LoopOf(j, ps, g, ms, n, loop)
  OBVIOUS
<1>4. CASE n = 0
  <2>1. LoopOf(j, ps, g, ms, 0, [i \in 0 .. 0 |-> j])
    BY DEF LoopOf
  <2>. QED
    BY <1>3, <1>4, <2>1
<1>5. CASE n # 0
  <2>1. n - 1 \in Nat /\ n - 1 \notin Stuck
    BY <1>2, <1>3, <1>5
  <2>2. PICK s : LoopOf(j, ps, g, ms, n - 1, s)
    BY <2>1
  <2>. DEFINE r == [i \in 0 .. n |-> IF i = n THEN Record(s[n - 1], ps[n], g, ms) ELSE s[i]]
  <2>3. \A i \in 0 .. n - 1 : s[i] = IF i = 0 THEN j ELSE Record(s[i - 1], ps[i], g, ms)
    BY <2>2 DEF LoopOf
  <2>4. \A i \in 0 .. n : r[i] = IF i = 0 THEN j ELSE Record(r[i - 1], ps[i], g, ms)
    BY <1>3, <1>5, <2>3
  <2>5. r = [i \in 0 .. n |-> IF i = 0 THEN j ELSE Record(r[i - 1], ps[i], g, ms)]
    BY <2>4
  <2>. HIDE DEF r
  <2>. QED
    BY <1>3, <2>5 DEF LoopOf
<1>. QED
  BY <1>4, <1>5

(* The loop and the closed form leave the same journal.                    *)
LEMMA RecordLoopIs ==
  ASSUME NEW j \in Journal, Len(j.entries) <= 4 * Limit,
         NEW ps \in Seq(Paths), ps # << >>, NEW g \in Nat, NEW ms \in Nat
  PROVE  RecordAll(j, ps, g, ms) = RecordLoop(j, ps, g, ms)
<1>. DEFINE s == CHOOSE s : LoopOf(j, ps, g, ms, Len(ps), s)
<1>1. Len(ps) \in Nat
  OBVIOUS
<1>2. LoopOf(j, ps, g, ms, Len(ps), s)
  BY <1>1, LoopEnds
<1>3. RecordLoop(j, ps, g, ms) = s[Len(ps)]
  BY DEF RecordLoop, LoopOf
<1>. HIDE DEF s
<1>4. s[0] = j /\ \A i \in 0 .. Len(ps) - 1 : s[i + 1] = Record(s[i], ps[i + 1], g, ms)
  BY <1>1, <1>2 DEF LoopOf
<1>. DEFINE Wrong == {i \in 0 .. Len(ps) : ~ Looped(j, ps, g, ms, i, s[i])}
<1>5. ASSUME Wrong # {}
      PROVE  FALSE
  <2>1. PICK i \in Wrong : \A k \in Wrong : i <= k
    <3>1. Wrong \in SUBSET Nat
      BY <1>1
    <3>. HIDE DEF Wrong
    <3>. QED
      BY <1>5, <3>1, LeastOf
  <2>2. CASE i = 0
    BY <1>4, <2>1, <2>2, LoopedStarts
  <2>3. CASE i # 0
    <3>1. i - 1 \in 0 .. Len(ps) - 1 /\ i - 1 \notin Wrong /\ (i - 1) + 1 = i
      BY <1>1, <2>1, <2>3
    <3>2. Looped(j, ps, g, ms, i - 1, s[i - 1])
      BY <1>1, <3>1
    <3>3. s[i] = Record(s[i - 1], ps[i], g, ms)
      BY <1>4, <3>1
    <3>. QED
      BY <2>1, <3>1, <3>2, <3>3, LoopedNext
  <2>. QED
    BY <2>2, <2>3
<1>6. Looped(j, ps, g, ms, Len(ps), s[Len(ps)])
  BY <1>1, <1>5
<1>. QED
  BY <1>1, <1>3, <1>6, RecordAllLooped, LoopedOnce

(* trim() leaves no list longer than four times the limit.                 *)
NeverLong == Len(journal.entries) <= 4 * Limit

(* Every step leaves the journal within its bound.                         *)
LEMMA NextNeverLong ==
  ASSUME IndInv, NeverLong, [Next]_vars
  PROVE  NeverLong'
<1>1. /\ generation + 1 \in Nat /\ now \in Nat /\ pending \in Seq(Event)
      /\ journal \in Journal
  BY DEF IndInv, TypeOK
<1>2. CASE UNCHANGED journal
  BY <1>2 DEF NeverLong
<1>3. ASSUME NEW evs, ForceOverflow(evs)
      PROVE  NeverLong'
  <2>1. journal'.entries = << >>
    BY <1>3 DEF ForceOverflow, MarkOverflow
  <2>. QED
    BY <2>1, LimitAssumption DEF NeverLong
<1>4. CASE pending # << >> /\ FlushPending
  <2>. DEFINE ps == PathsOf(pending)
  <2>1. ps \in Seq(Paths) /\ ps # << >>
    BY <1>1, <1>4, PathsOfType
  <2>2. journal' = RecordAll(journal, ps, generation + 1, now)
    BY <1>4 DEF FlushPending
  <2>. HIDE DEF ps
  <2>3. Looped(journal, ps, generation + 1, now, Len(ps), journal')
    BY <1>1, <2>1, <2>2, RecordAllLooped
  <2>4. PICK t \in Nat : t = Len(journal.entries) + Len(ps)
    BY <1>1, <2>1 DEF Journal
  <2>5. Len(journal'.entries) = t - DroppedBy(t)
    <3>1. PICK r : r = journal'
      OBVIOUS
    <3>2. Looped(journal, ps, generation + 1, now, Len(ps), r)
      BY <2>3, <3>1
    <3>3. Len(r.entries) = Len(journal.entries) + Len(ps)
                             - DroppedBy(Len(journal.entries) + Len(ps))
      BY <3>2 DEF Looped
    <3>4. DroppedBy(t) = DroppedBy(Len(journal.entries) + Len(ps))
      BY <2>4, Zenon
    <3>5. Len(r.entries) = t - DroppedBy(t)
      <4>1. PICK d \in Nat : d = DroppedBy(t)
        BY DroppedByRange
      <4>2. PICK a \in Nat, b \in Nat : a = Len(journal.entries) /\ b = Len(ps)
        BY <1>1, <2>1 DEF Journal
      <4>3. Len(r.entries) = a + b - d
        BY <3>3, <3>4, <4>1, <4>2, Zenon
      <4>4. t = a + b
        BY <2>4, <4>2
      <4>5. Len(r.entries) = t - d
        BY <4>3, <4>4
      <4>. QED
        BY <4>1, <4>5
    <3>. QED
      BY <3>1, <3>5, Zenon
  <2>. QED
    BY <2>5, DroppedNext DEF NeverLong
<1>5. ASSUME NEW paths, IngestBurst(paths)
      PROVE  NeverLong'
  BY <1>2, <1>3, <1>5 DEF IngestBurst, Ingest, Absorb
<1>6. Tick \/ UNCHANGED vars => UNCHANGED journal
  BY DEF Tick, vars, cvars
<1>. QED
  BY <1>2, <1>4, <1>5, <1>6 DEF Next, FlushNow, FlushDue

(***************************************************************************)
(* From every journal a run reaches, the closed form that the model uses   *)
(* for the loop of record() calls is that loop.                            *)
(***************************************************************************)
THEOREM RecordAllAlwaysLoop == Spec => []RecordAllIsLoop
<1>1. Init => IndInv /\ NeverLong
  BY InitIndInv, LimitAssumption DEF Init, CoalescerInit, EmptyJournal, NeverLong
<1>2. IndInv /\ NeverLong /\ [Next]_vars => IndInv' /\ NeverLong'
  BY NextIndInv, NextNeverLong
<1>3. IndInv /\ NeverLong => RecordAllIsLoop
  <2>. SUFFICES ASSUME IndInv, NeverLong, NEW ps \in Bursts
                PROVE  RecordAll(journal, ps, generation + 1, now)
                         = RecordLoop(journal, ps, generation + 1, now)
    BY DEF RecordAllIsLoop
  <2>1. journal \in Journal /\ generation + 1 \in Nat /\ now \in Nat
    BY DEF IndInv, TypeOK
  <2>2. PICK n \in 1 .. MaxEvents : ps \in [1 .. n -> Paths]
    BY DEF Bursts
  <2>3. n \in Nat \ {0}
    BY <2>2, BoundsAssumption
  <2>4. ps \in Seq(Paths) /\ ps # << >>
    BY <2>2, <2>3
  <2>. QED
    BY <2>1, <2>4, RecordLoopIs DEF NeverLong
<1>. QED
  BY <1>1, <1>2, <1>3, PTL DEF Spec

(***************************************************************************)
(* FilesSince with a time, or with no cursor, names every matching change  *)
(* that is later than the retained generation, or says truncated.          *)
(***************************************************************************)
THEOREM RetainedAlwaysAnswered == Spec => []RetainedAnswered
<1>1. Init => IndInv /\ TimesAgree(journal, history)
  BY InitIndInv DEF Init, CoalescerInit, EmptyJournal, TimesAgree
<1>2. IndInv /\ TimesAgree(journal, history) /\ [Next]_vars
        => IndInv' /\ TimesAgree(journal, history)'
  BY NextIndInv, NextTimesAgree
<1>3. IndInv /\ TimesAgree(journal, history) => RetainedAnswered
  <2>. SUFFICES ASSUME IndInv, TimesAgree(journal, history)
                PROVE  RetainedAnswered
    OBVIOUS
  <2>. DEFINE kept == {c \in history :
                         c.generation > journal.retained_from_generation}
  <2>1. journal \in Journal /\ Remembers(journal, history)
    BY DEF IndInv, TypeOK, JournalKeepsUp
  <2>2. ASSUME NEW c \in kept
        PROVE  \E i \in DOMAIN journal.entries :
                 /\ journal.entries[i].path = c.path
                 /\ journal.entries[i].unix_ms = c.unix_ms
    <3>1. DOMAIN journal.entries = 1 .. Len(journal.entries)
      BY <2>1 DEF Journal
    <3>2. PICK i \in 1 .. Len(journal.entries) :
             /\ journal.entries[i].path = c.path
             /\ journal.entries[i].generation = c.generation
      BY <2>1 DEF Remembers, ChangesAreEntries
    <3>3. journal.entries[i].unix_ms = c.unix_ms
      BY <3>2 DEF TimesAgree
    <3>. QED
      BY <3>1, <3>2, <3>3
  <2>. HIDE DEF kept
  <2>3. Names(SinceStart(journal), kept)
    <3>1. SinceStart(journal).paths
            = {e.path : e \in {journal.entries[i] : i \in DOMAIN journal.entries}}
      BY DEF SinceStart, Answer
    <3>. QED
      BY <2>2, <3>1 DEF Names
  <2>4. ASSUME NEW t \in 0 .. now
        PROVE  Names(SinceUnixMs(journal, t), {c \in kept : c.unix_ms > t})
    <3>. DEFINE late == {i \in DOMAIN journal.entries :
                           journal.entries[i].unix_ms > t}
    <3>1. SinceUnixMs(journal, t).paths
            = {e.path : e \in {journal.entries[i] : i \in late}}
      BY DEF SinceUnixMs, Answer
    <3>2. \A c \in kept : c.unix_ms > t => \E i \in late : journal.entries[i].path = c.path
      BY <2>2
    <3>. HIDE DEF late
    <3>. QED
      BY <3>1, <3>2 DEF Names
  <2>. QED
    BY <2>3, <2>4 DEF RetainedAnswered, kept
<1>. QED
  BY <1>1, <1>2, <1>3, PTL DEF Spec

-----------------------------------------------------------------------------
(***************************************************************************)
(* The coalescer implements WatchFeed.  Under the invariant above, an      *)
(* ingest that fits is an Offer, an overflow a GiveUp and a flush a        *)
(* Deliver.  The part that is not in the invariant is that a truncated     *)
(* cursor stays so.                                                        *)
(***************************************************************************)
(* An answer has the type of an answer, its paths are finitely many, and   *)
(* each of them is the path of a change after the cursor.                  *)
LEMMA AnswerOfJournal ==
  ASSUME NEW j \in Journal, NEW H, Remembers(j, H), NEW g \in Nat
  PROVE  LET a == SinceGeneration(j, g)
         IN  /\ a = [paths |-> a.paths, truncated |-> a.truncated,
                     generation |-> j.current_generation]
             /\ a.truncated \in BOOLEAN
             /\ a.truncated <=> \/ GenerationGap(j, g)
                                \/ Cardinality(a.paths) > Limit
             /\ a.paths \subseteq Paths
             /\ a.paths \subseteq {h.path : h \in {c \in H : c.generation > g}}
             /\ IsFiniteSet(a.paths)
<1>. DEFINE late == {i \in 1 .. Len(j.entries) : j.entries[i].generation > g}
            found == {e.path : e \in {j.entries[i] : i \in late}}
            f == [i \in late |-> j.entries[i].path]
<1>1. /\ j.entries \in Seq(Entry) /\ Len(j.entries) \in Nat
      /\ DOMAIN j.entries = 1 .. Len(j.entries)
  BY DEF Journal
<1>2. SinceGeneration(j, g)
        = [paths |-> found,
           truncated |-> GenerationGap(j, g) \/ Cardinality(found) > Limit,
           generation |-> j.current_generation]
  BY <1>1 DEF SinceGeneration, Answer
<1>3. ASSUME NEW p \in found
      PROVE  \E i \in late : p = j.entries[i].path
  OBVIOUS
<1>4. \A i \in late : j.entries[i].path \in found
  OBVIOUS
<1>5. found \subseteq Paths
  <2>0. \A i \in 1 .. Len(j.entries) : j.entries[i] \in Entry
    BY <1>1
  <2>1. \A i \in late : j.entries[i].path \in Paths
    BY <2>0 DEF Entry
  <2>2. \A p \in found : \E i \in late : p = j.entries[i].path
    BY <1>3
  <2>. HIDE DEF late, found
  <2>. QED
    BY <2>1, <2>2
<1>6. ASSUME NEW i \in late
      PROVE  \E c \in H : c.generation > g /\ c.path = j.entries[i].path
  BY DEF Remembers, EntriesAreChanges
<1>7. found \subseteq {h.path : h \in {c \in H : c.generation > g}}
  <2>1. ASSUME NEW p \in found
        PROVE  \E c \in H : c.generation > g /\ p = c.path
    <3>1. PICK i \in late : p = j.entries[i].path
      BY <1>3
    <3>. HIDE DEF late, found
    <3>. QED
      BY <1>6, <3>1
  <2>. HIDE DEF found
  <2>. QED
    BY <2>1
<1>8. IsFiniteSet(late)
  <2>1. IsFiniteSet(1 .. Len(j.entries))
    BY <1>1, FS_Interval
  <2>. QED
    BY <2>1, FS_Subset
<1>9. IsFiniteSet(found)
  <2>. HIDE DEF found
  <2>1. f \in [late -> found] /\ \A p \in found : \E i \in late : f[i] = p
    BY <1>3, <1>4
  <2>. HIDE DEF f, late
  <2>2. f \in Surjection(late, found)
    BY <2>1 DEF Surjection
  <2>. QED
    BY <1>8, <2>2, FS_Surjection
<1>10. GenerationGap(j, g) \in BOOLEAN /\ (Cardinality(found) > Limit) \in BOOLEAN
  BY DEF GenerationGap, Journal
<1>. HIDE DEF found, late, f
<1>. DEFINE gap == GenerationGap(j, g)
            many == Cardinality(found) > Limit
<1>11. gap \in BOOLEAN /\ many \in BOOLEAN
  BY <1>10
<1>12. SinceGeneration(j, g)
         = [paths |-> found, truncated |-> gap \/ many,
            generation |-> j.current_generation]
  BY <1>2
<1>13. Cardinality(found) > Limit <=> many
  OBVIOUS
<1>14. GenerationGap(j, g) <=> gap
  OBVIOUS
<1>. HIDE DEF gap, many
<1>15. SinceGeneration(j, g).paths = found
       /\ SinceGeneration(j, g).generation = j.current_generation
  BY <1>12
<1>16. SinceGeneration(j, g).truncated = (gap \/ many)
  BY <1>12
<1>17. SinceGeneration(j, g) = [paths |-> found,
         truncated |-> SinceGeneration(j, g).truncated,
         generation |-> j.current_generation]
  BY <1>12, <1>16
<1>. QED
  BY <1>5, <1>7, <1>9, <1>11, <1>13, <1>14, <1>15, <1>16, <1>17

(***************************************************************************)
(* A cursor that a journal has lost stays lost: a later journal, that      *)
(* remembers all that this one did and retains no more, may not answer it  *)
(* as complete (trim() and mark_overflow() only raise what is retained).   *)
(***************************************************************************)
LEMMA TruncatedStays ==
  ASSUME NEW j \in Journal, NEW H, Remembers(j, H),
         NEW k \in Journal, NEW N, Remembers(k, H \union N),
         k.retained_from_generation >= j.retained_from_generation,
         k.current_generation >= j.current_generation,
         j.overflowed => k.overflowed,
         NEW g \in Nat, SinceGeneration(j, g).truncated
  PROVE  SinceGeneration(k, g).truncated
<1>. SUFFICES ASSUME ~SinceGeneration(k, g).truncated  PROVE FALSE
  OBVIOUS
<1>. DEFINE old == SinceGeneration(j, g).paths
            new == SinceGeneration(k, g).paths
<1>1. new = {h.path : h \in {c \in H \union N : c.generation > g}}
  BY RemembersCatchUp
<1>2. /\ old \subseteq {h.path : h \in {c \in H : c.generation > g}}
      /\ GenerationGap(j, g) \/ Cardinality(old) > Limit
      /\ IsFiniteSet(old)
  BY AnswerOfJournal
<1>3. /\ ~GenerationGap(k, g)
      /\ ~(Cardinality(new) > Limit)
      /\ IsFiniteSet(new)
  BY AnswerOfJournal
<1>4. old \subseteq new
  BY <1>1, <1>2
<1>5. ~GenerationGap(j, g)
  BY <1>3 DEF GenerationGap, Journal
<1>. HIDE DEF old, new
<1>6. /\ Cardinality(old) <= Cardinality(new)
      /\ Cardinality(old) \in Nat /\ Cardinality(new) \in Nat
  BY <1>2, <1>3, <1>4, FS_Subset, FS_CardinalityType
<1>. QED
  BY <1>2, <1>3, <1>5, <1>6, LimitAssumption

-----------------------------------------------------------------------------
(* The coalescer starts as an empty feed.                                  *)
LEMMA InitFeed == Init => Feed!Init
<1>. SUFFICES ASSUME Init  PROVE Feed!Init
  OBVIOUS
<1>1. /\ pending = << >> /\ generation = 0 /\ emitted = << >> /\ history = {}
      /\ journal = EmptyJournal
  BY DEF Init, CoalescerInit
<1>2. SinceGeneration(EmptyJournal, 0)
        = [paths |-> {}, truncated |-> FALSE, generation |-> 0]
  <2>1. Cardinality({}) = 0
    BY FS_EmptySet
  <2>2. ~(Cardinality({}) > Limit)
    BY <2>1, LimitAssumption
  <2>3. /\ {e.path : e \in {EmptyJournal.entries[i] :
              i \in {k \in DOMAIN EmptyJournal.entries :
                      EmptyJournal.entries[k].generation > 0}}} = {}
        /\ GenerationGap(EmptyJournal, 0) = FALSE
        /\ EmptyJournal.current_generation = 0
    BY DEF EmptyJournal, GenerationGap
  <2>. QED
    BY <2>2, <2>3 DEF SinceGeneration, Answer
<1>3. [g \in 0 .. generation |-> SinceGeneration(journal, g)]
        = [g \in {0} |-> [paths |-> {}, truncated |-> FALSE, generation |-> 0]]
  BY <1>1, <1>2
<1>4. {[path |-> c.path, generation |-> c.generation] : c \in history} = {}
  BY <1>1
<1>. QED
  BY <1>1, <1>3, <1>4 DEF Feed!Init

(***************************************************************************)
(* A step that opens generation g + 1 for these paths, and leaves a        *)
(* journal that remembers them and retains no more than before, is a       *)
(* NewGeneration of the feed.                                              *)
(***************************************************************************)
LEMMA NewGenerationFeed ==
  ASSUME IndInv, IndInv',
         NEW paths, paths \subseteq Paths, NEW N, history' = history \union N,
         \A c \in N : c.path \in paths /\ c.generation = generation + 1,
         \A p \in paths : \E c \in N : c.path = p,
         pending' = << >>, generation' = generation + 1,
         journal'.retained_from_generation >= journal.retained_from_generation,
         journal.overflowed => journal'.overflowed
  PROVE  /\ Feed!NewGeneration
         /\ {[path |-> c.path, generation |-> c.generation] : c \in history'}
              = {[path |-> c.path, generation |-> c.generation] : c \in history}
                \union [path : paths, generation : {generation + 1}]
<1>. DEFINE g == generation + 1
            old == [k \in 0 .. generation |-> SinceGeneration(journal, k)]
            new == [k \in 0 .. generation' |-> SinceGeneration(journal', k)]
            before == {[path |-> c.path, generation |-> c.generation] : c \in history}
            after == {[path |-> c.path, generation |-> c.generation] : c \in history'}
<1>1. /\ generation \in Nat /\ journal \in Journal /\ journal' \in Journal
      /\ journal.current_generation = generation
      /\ journal'.current_generation = g
      /\ Remembers(journal, history) /\ Remembers(journal', history \union N)
  BY DEF IndInv, TypeOK, JournalKeepsUp
<1>2. after = before \union [path : paths, generation : {g}]
  <2>1. \A x \in after : x \in before \union [path : paths, generation : {g}]
    OBVIOUS
  <2>2. ASSUME NEW x \in [path : paths, generation : {g}]
        PROVE  x \in after
    <3>1. PICK c \in N : c.path = x.path
      OBVIOUS
    <3>2. x = [path |-> c.path, generation |-> c.generation] /\ c \in history'
      BY <3>1
    <3>. QED
      BY <3>2
  <2>3. before \subseteq after
    OBVIOUS
  <2>. HIDE DEF before, after
  <2>. QED
    BY <2>1, <2>2, <2>3
<1>3. \A k \in 0 .. g : Feed!Since(after, k)
                          = {h.path : h \in {c \in history' : c.generation > k}}
  <2>. SUFFICES ASSUME NEW k \in 0 .. g
                PROVE  Feed!Since(after, k)
                         = {h.path : h \in {c \in history' : c.generation > k}}
    OBVIOUS
  <2>1. ASSUME NEW p \in Feed!Since(after, k)
        PROVE  \E c \in history' : c.generation > k /\ p = c.path
    BY DEF Feed!Since
  <2>2. ASSUME NEW c \in history', c.generation > k
        PROVE  c.path \in Feed!Since(after, k)
    <3>1. [path |-> c.path, generation |-> c.generation] \in after
      OBVIOUS
    <3>. DEFINE d == [path |-> c.path, generation |-> c.generation]
    <3>2. d \in after /\ d.path = c.path /\ d.generation > k
      BY <2>2, <3>1
    <3>. HIDE DEF d, after
    <3>. QED
      BY <3>2 DEF Feed!Since
  <2>. HIDE DEF after
  <2>. QED
    BY <2>1, <2>2
<1>4. new \in [0 .. g -> Feed!Answer]
  BY <1>1, AnswerOfJournal DEF Feed!Answer
<1>5. ASSUME NEW k \in 0 .. g
      PROVE  /\ new[k].generation = g
             /\ new[k].truncated \/ new[k].paths = Feed!Since(after, k)
  <2>1. new[k] = SinceGeneration(journal', k) /\ k \in Nat
    BY <1>1
  <2>2. new[k].generation = g
    BY <1>1, <2>1, AnswerOfJournal
  <2>3. ~new[k].truncated => new[k].paths = Feed!Since(after, k)
    BY <1>1, <1>3, <2>1, RemembersCatchUp
  <2>. QED
    BY <2>2, <2>3
<1>6. ASSUME NEW k \in 0 .. generation, old[k].truncated
      PROVE  new[k].truncated
  <2>1. /\ old[k] = SinceGeneration(journal, k) /\ k \in Nat
        /\ new[k] = SinceGeneration(journal', k)
    BY <1>1
  <2>2. SinceGeneration(journal, k).truncated
    BY <1>6, <2>1
  <2>3. SinceGeneration(journal', k).truncated
    <3>1. /\ journal \in Journal /\ journal' \in Journal /\ k \in Nat
          /\ Remembers(journal, history) /\ Remembers(journal', history \union N)
          /\ journal'.current_generation >= journal.current_generation
      BY <1>1, <2>1
    <3>. HIDE DEF old, new, before, after, g
    <3>. QED
      BY <2>2, <3>1, TruncatedStays
  <2>. QED
    BY <2>1, <2>3
<1>. HIDE DEF old, new, before, after
<1>7. /\ pending' = << >> /\ generation' = g
      /\ after = before \union [path : paths, generation : {g}]
      /\ new \in [0 .. g -> Feed!Answer]
      /\ \A k \in 0 .. g :
           /\ new[k].generation = g
           /\ new[k].truncated \/ new[k].paths = Feed!Since(after, k)
      /\ \A k \in 0 .. generation : old[k].truncated => new[k].truncated
  BY <1>2, <1>4, <1>5, <1>6
<1>. QED
  BY <1>7 DEF Feed!NewGeneration, old, new, before, after

-----------------------------------------------------------------------------
(* Events that fit are offered: they come after what was pending.          *)
LEMMA AbsorbFeed ==
  ASSUME TypeOK, NEW evs \in Seq(Event), Len(evs) \in Nat \ {0}, Absorb(evs)
  PROVE  Feed!Offer
<1>1. /\ pending \in Seq(Event) /\ pending' = pending \o evs
      /\ UNCHANGED << generation, journal, emitted, history >>
  BY DEF TypeOK, Absorb
<1>2. /\ pending' \in Seq(Event)
      /\ Len(pending') > Len(pending)
      /\ SubSeq(pending', 1, Len(pending)) = pending
  <2>1. /\ pending' \in Seq(Event) /\ Len(pending) \in Nat
        /\ Len(pending') = Len(pending) + Len(evs)
        /\ \A i \in 1 .. Len(pending) : pending'[i] = pending[i]
    BY <1>1
  <2>2. /\ SubSeq(pending', 1, Len(pending)) \in Seq(Event)
        /\ Len(SubSeq(pending', 1, Len(pending))) = Len(pending)
        /\ \A i \in 1 .. Len(pending) :
             SubSeq(pending', 1, Len(pending))[i] = pending[i]
    BY <2>1
  <2>. DEFINE front == SubSeq(pending', 1, Len(pending))
  <2>3. front \in Seq(Event) /\ Len(front) = Len(pending)
        /\ \A i \in 1 .. Len(pending) : front[i] = pending[i]
    BY <2>2
  <2>. HIDE DEF front
  <2>4. front = pending
    BY <1>1, <2>3, SeqEqual
  <2>. QED
    BY <2>1, <2>4 DEF front
<1>. QED
  BY <1>1, <1>2 DEF Feed!Offer

(* The paths of a list of events and of the changes it leaves are the same *)
LEMMA ChangesPaths ==
  ASSUME NEW evs \in Seq(Event), NEW k \in Nat, NEW lost
  PROVE  /\ Feed!PathsIn(evs) \subseteq Paths
         /\ \A i \in 1 .. Len(evs) : evs[i].path \in Feed!PathsIn(evs)
         /\ \A c \in Changes(evs, k, lost) :
              c.path \in Feed!PathsIn(evs) /\ c.generation = k
         /\ \A p \in Feed!PathsIn(evs) :
              \E c \in Changes(evs, k, lost) : c.path = p
<1>. DEFINE paths == Feed!PathsIn(evs)
            N == Changes(evs, k, lost)
<1>1. /\ \A c \in N : /\ c.generation = k
                       /\ \E i \in 1 .. Len(evs) : c.path = evs[i].path
      /\ \A i \in 1 .. Len(evs) : \E c \in N : c.path = evs[i].path
  <2>. DEFINE change(i) == [path |-> evs[i].path, generation |-> k,
                            unix_ms |-> now, lost |-> lost]
  <2>1. N = {change(i) : i \in 1 .. Len(evs)}
    BY DEF Changes
  <2>2. \A i \in 1 .. Len(evs) :
          change(i).path = evs[i].path /\ change(i).generation = k
    OBVIOUS
  <2>. HIDE DEF change, N
  <2>. QED
    BY <2>1, <2>2
<1>2. /\ \A i \in 1 .. Len(evs) : evs[i].path \in paths
      /\ \A p \in paths : \E i \in 1 .. Len(evs) : p = evs[i].path
  BY DEF Feed!PathsIn
<1>3. \A i \in 1 .. Len(evs) : evs[i].path \in Paths
  <2>1. \A i \in 1 .. Len(evs) : evs[i] \in Event
    OBVIOUS
  <2>. QED
    BY <2>1 DEF Event
<1>. HIDE DEF paths, N
<1>4. ASSUME NEW c \in N
      PROVE  c.path \in paths /\ c.generation = k
  BY <1>1, <1>2
<1>5. ASSUME NEW p \in paths
      PROVE  (\E c \in N : c.path = p) /\ p \in Paths
  <2>1. PICK i \in 1 .. Len(evs) : p = evs[i].path
    BY <1>2
  <2>. QED
    BY <1>1, <1>3, <2>1
<1>. QED
  BY <1>2, <1>4, <1>5 DEF paths, N

(* An overflow gives up what was pending and the burst, and every cursor   *)
(* before it is told so.                                                   *)
LEMMA OverflowFeed ==
  ASSUME IndInv, IndInv', NEW evs \in Seq(Event), Len(evs) \in Nat \ {0},
         ForceOverflow(evs)
  PROVE  Feed!GiveUp
<1>. DEFINE all == pending \o evs
            given_up == TRUE
            paths == Feed!PathsIn(all)
            N == Changes(all, generation + 1, given_up)
<1>1. /\ generation \in Nat /\ now \in Nat /\ pending \in Seq(Event)
      /\ journal \in Journal /\ journal.current_generation = generation
      /\ Remembers(journal, history)
  BY DEF IndInv, TypeOK, JournalKeepsUp
<1>2. /\ pending' = << >> /\ generation' = generation + 1
      /\ history' = history \union N /\ emitted' = emitted
      /\ journal' = MarkOverflow(journal, generation + 1)
  BY DEF ForceOverflow
<1>3. /\ all \in Seq(Event) /\ Len(all) \in Nat \ {0}
      /\ \A i \in 1 .. Len(pending) : i \in 1 .. Len(all) /\ all[i] = pending[i]
  BY <1>1
<1>. HIDE DEF all, given_up
<1>4. /\ paths \subseteq Paths
      /\ \A i \in 1 .. Len(all) : all[i].path \in paths
      /\ \A c \in N : c.path \in paths /\ c.generation = generation + 1
      /\ \A p \in paths : \E c \in N : c.path = p
  <2>1. generation + 1 \in Nat /\ all \in Seq(Event)
    BY <1>1, <1>3
  <2>. QED
    BY <2>1, ChangesPaths
<1>5. paths # {} /\ Feed!PathsIn(pending) \subseteq paths
  <2>1. paths # {}
    BY <1>3, <1>4
  <2>2. ASSUME NEW p \in Feed!PathsIn(pending)
        PROVE  p \in paths
    <3>1. PICK i \in 1 .. Len(pending) : p = pending[i].path
      BY <1>1 DEF Feed!PathsIn
    <3>. HIDE DEF paths
    <3>. QED
      BY <1>3, <1>4, <3>1
  <2>. QED
    BY <2>1, <2>2
<1>6. /\ journal'.retained_from_generation = generation + 1
      /\ journal'.current_generation = generation + 1
      /\ journal'.overflowed = TRUE
      /\ journal'.retained_from_generation >= journal.retained_from_generation
  BY <1>1, <1>2 DEF MarkOverflow, Journal, Remembers, Bounded
<1>. HIDE DEF paths, N
<1>7. /\ Feed!NewGeneration
      /\ {[path |-> c.path, generation |-> c.generation] : c \in history'}
           = {[path |-> c.path, generation |-> c.generation] : c \in history}
             \union [path : paths, generation : {generation + 1}]
  <2>1. journal.overflowed => journal'.overflowed
    BY <1>6
  <2>. QED
    BY <1>2, <1>4, <1>6, <2>1, NewGenerationFeed
<1>8. \A k \in 0 .. generation : SinceGeneration(journal', k).truncated
  <2>. SUFFICES ASSUME NEW k \in 0 .. generation
                PROVE  SinceGeneration(journal', k).truncated
    OBVIOUS
  <2>1. k < journal'.retained_from_generation
    BY <1>1, <1>6
  <2>2. GenerationGap(journal', k)
    BY <2>1 DEF GenerationGap
  <2>. QED
    BY <2>2 DEF SinceGeneration, Answer
<1>9. \A k \in 0 .. generation :
        [i \in 0 .. generation' |-> SinceGeneration(journal', i)][k].truncated
  <2>1. \A k \in 0 .. generation : k \in 0 .. generation'
    BY <1>1, <1>2
  <2>. QED
    BY <1>8, <2>1
<1>10. \E q \in (SUBSET Paths) \ {{}} :
         /\ Feed!PathsIn(pending) \subseteq q
         /\ {[path |-> c.path, generation |-> c.generation] : c \in history'}
              = {[path |-> c.path, generation |-> c.generation] : c \in history}
                \union [path : q, generation : {generation + 1}]
  <2>1. paths \in (SUBSET Paths) \ {{}}
    BY <1>4, <1>5
  <2>. WITNESS paths \in (SUBSET Paths) \ {{}}
  <2>. QED
    BY <1>5, <1>7
<1>. QED
  BY <1>2, <1>7, <1>9, <1>10 DEF Feed!GiveUp, Feed!Changed

(* A flush delivers what was pending.                                      *)
LEMMA FlushFeed ==
  ASSUME IndInv, IndInv', pending # << >>, FlushPending
  PROVE  Feed!Deliver
<1>. DEFINE paths == Feed!PathsIn(pending)
            given_up == FALSE
            N == Changes(pending, generation + 1, given_up)
            ps == PathsOf(pending)
<1>1. /\ generation \in Nat /\ now \in Nat /\ pending \in Seq(Event)
      /\ journal \in Journal /\ journal.current_generation = generation
      /\ Remembers(journal, history)
  BY DEF IndInv, TypeOK, JournalKeepsUp
<1>2. /\ pending' = << >> /\ generation' = generation + 1
      /\ history' = history \union N
      /\ journal' = RecordAll(journal, ps, generation + 1, now)
      /\ emitted' = Append(emitted,
                      [events |-> pending, overflow |-> FALSE,
                       need_rescan |-> FALSE, generation |-> generation + 1])
  BY DEF FlushPending
<1>3. ps \in Seq(Paths) /\ ps # << >> /\ Len(ps) = Len(pending)
  BY <1>1, PathsOfType
<1>. HIDE DEF given_up
<1>4. /\ paths \subseteq Paths
      /\ \A c \in N : c.path \in paths /\ c.generation = generation + 1
      /\ \A p \in paths : \E c \in N : c.path = p
  <2>1. generation + 1 \in Nat /\ pending \in Seq(Event)
    BY <1>1
  <2>. QED
    BY <2>1, ChangesPaths
<1>. HIDE DEF ps, paths, N
<1>5. /\ journal'.retained_from_generation >= journal.retained_from_generation
      /\ journal'.overflowed = journal.overflowed
  <2>1. PICK drop \in 0 .. (Len(journal.entries) + Len(ps) - 1) :
          Recorded(journal, ps, generation + 1, now, drop)
    <3>1. generation + 1 \in Nat
      BY <1>1
    <3>. QED
      BY <1>1, <1>3, <3>1, RecordAllResult
  <2>2. journal' \in Journal /\ journal'.overflowed = journal.overflowed
        /\ journal'.retained_from_generation =
             IF drop = 0 THEN journal.retained_from_generation
                         ELSE journal'.entries[1].generation
    BY <1>2, <2>1 DEF Recorded
  <2>3. drop # 0 =>
          \/ journal'.entries[1].generation = generation + 1
          \/ \E i \in 1 .. Len(journal.entries) :
               journal'.entries[1].generation = journal.entries[i].generation
    <3>. SUFFICES ASSUME drop # 0
                  PROVE  \/ journal'.entries[1].generation = generation + 1
                         \/ \E i \in 1 .. Len(journal.entries) :
                              journal'.entries[1].generation
                                = journal.entries[i].generation
      OBVIOUS
    <3>1. Len(journal.entries) \in Nat /\ Len(ps) \in Nat
      BY <1>1, <1>3 DEF Journal
    <3>. DEFINE k == journal'
    <3>0. Recorded(journal, ps, generation + 1, now, drop)
          /\ k = RecordAll(journal, ps, generation + 1, now)
      BY <1>2, <2>1
    <3>5. Len(k.entries) \in Nat \ {0} /\ 1 \in 1 .. Len(k.entries)
      BY <3>0, <3>1 DEF Recorded
    <3>2. journal'.entries[1] =
            IF 1 + drop <= Len(journal.entries)
              THEN journal.entries[1 + drop]
              ELSE [path |-> ps[1 + drop - Len(journal.entries)],
                    generation |-> generation + 1, unix_ms |-> now]
      BY <3>0, <3>1, <3>5 DEF Recorded
    <3>3. CASE 1 + drop <= Len(journal.entries)
      BY <3>1, <3>2, <3>3
    <3>4. CASE ~(1 + drop <= Len(journal.entries))
      BY <3>2, <3>4
    <3>. QED
      BY <3>3, <3>4
  <2>4. /\ journal.retained_from_generation \in Nat
        /\ journal.retained_from_generation <= generation
        /\ \A i \in 1 .. Len(journal.entries) :
             journal.retained_from_generation <= journal.entries[i].generation
    BY <1>1 DEF Remembers, Bounded, Journal
  <2>. QED
    BY <1>1, <2>2, <2>3, <2>4
<1>6. /\ Feed!NewGeneration
      /\ {[path |-> c.path, generation |-> c.generation] : c \in history'}
           = {[path |-> c.path, generation |-> c.generation] : c \in history}
             \union [path : paths, generation : {generation + 1}]
  <2>1. journal.overflowed => journal'.overflowed
    BY <1>5
  <2>2. /\ IndInv /\ IndInv'
        /\ paths \subseteq Paths /\ history' = history \union N
    BY <1>2, <1>4
  <2>3. /\ \A c \in N : c.path \in paths /\ c.generation = generation + 1
        /\ \A p \in paths : \E c \in N : c.path = p
    BY <1>4
  <2>4. pending' = << >> /\ generation' = generation + 1
    BY <1>2
  <2>5. journal'.retained_from_generation >= journal.retained_from_generation
    BY <1>5
  <2>. QED
    BY <2>1, <2>2, <2>3, <2>4, <2>5, NewGenerationFeed
<1>. QED
  BY <1>2, <1>6 DEF Feed!Deliver, Feed!Changed, paths

(***************************************************************************)
(* The coalescer with its journal implements the feed: batches and         *)
(* overflows are the feed's generations, in order, and what FilesSince     *)
(* answers at any moment is what the feed allows.                          *)
(***************************************************************************)
THEOREM CoalescerImplementsFeed == Spec => ImplementsFeed
<1>1. Init => IndInv /\ Feed!Init
  BY InitIndInv, InitFeed
<1>2. IndInv /\ [Next]_vars => IndInv'
  BY NextIndInv
<1>3. IndInv /\ IndInv' /\ [Next]_vars => [Feed!Next]_Feed!feed
  <2>. SUFFICES ASSUME IndInv, IndInv', [Next]_vars
                PROVE  [Feed!Next]_Feed!feed
    OBVIOUS
  <2>1. ASSUME NEW burst \in Bursts, IngestBurst(burst)
        PROVE  Feed!Next
    <3>1. /\ TypeOK /\ Burst(burst) \in Seq(Event)
          /\ Len(Burst(burst)) \in Nat \ {0}
      BY BurstType DEF IndInv, TypeOK
    <3>2. Absorb(Burst(burst)) => Feed!Offer
      BY <3>1, AbsorbFeed
    <3>3. ForceOverflow(Burst(burst)) => Feed!GiveUp
      BY <3>1, OverflowFeed
    <3>. QED
      BY <2>1, <3>2, <3>3 DEF IngestBurst, Ingest, Feed!Next
  <2>2. FlushNow \/ FlushDue => Feed!Next
    BY FlushFeed DEF FlushNow, FlushDue, Feed!Next
  <2>3. Tick \/ UNCHANGED vars => UNCHANGED Feed!feed
    BY DEF Tick, vars, cvars, Feed!feed
  <2>. QED
    BY <2>1, <2>2, <2>3 DEF Next
<1>. QED
  BY <1>1, <1>2, <1>3, PTL DEF Spec, ImplementsFeed, Feed!Spec

-----------------------------------------------------------------------------
(***************************************************************************)
(* The hub thread.                                                         *)
(***************************************************************************)
Around ==
  /\ chan \in Seq(Commands)
  /\ Len(chan) <= ChanCap
  /\ raw \in Seq(Event)
  /\ connected \in BOOLEAN
  /\ pc \in {"recv", "drain", "poll", "flush", "stopped"}

HubInv == IndInv /\ Around

(* What a step of the hub does to the coalescer: it ingests, maybe nothing, *)
(* or flushes, or leaves it alone.                                          *)
Inner ==
  \/ \E evs \in Seq(Event) : Ingest(evs) /\ UNCHANGED << now, ingested >>
  \/ pending # << >> /\ FlushPending /\ UNCHANGED << now, ingested >>
  \/ UNCHANGED cvars /\ now' \in Nat /\ ingested' \in Nat

(* The hub starts with an empty channel around an empty coalescer.         *)
LEMMA InitHubInv == HubInit => HubInv
<1>. SUFFICES ASSUME HubInit  PROVE HubInv
  OBVIOUS
<1>1. IndInv
  BY InitIndInv DEF HubInit
<1>. QED
  BY <1>1, ChanCapAssumption DEF HubInit, HubInv, Around

(* Every step of the hub is such a step of the coalescer.                  *)
LEMMA HubNextInner ==
  ASSUME HubInv, [HubNext]_hubvars
  PROVE  Inner
<1>1. /\ now \in Nat /\ ingested \in Nat
      /\ chan \in Seq(Commands) /\ raw \in Seq(Event)
  BY DEF HubInv, IndInv, TypeOK, Around
<1>2. ASSUME NEW here, Receive(here)
      PROVE  Inner
  <2>1. CASE Head(chan) = Stop
    BY <1>1, <1>2, <2>1 DEF Receive, Inner, thread
  <2>2. CASE Head(chan) # Stop
    <3>1. Head(chan) \in Commands
      BY <1>1, <1>2 DEF Receive
    <3>2. Head(chan).event \in Event
      BY <2>2, <3>1 DEF Commands, Stop
    <3>3. << Head(chan).event >> \in Seq(Event)
      BY <3>2
    <3>. QED
      BY <1>2, <2>2, <3>3 DEF Receive, Inner, thread
  <2>. QED
    BY <2>1, <2>2
<1>3. CASE PollBackend
  BY <1>1, <1>3 DEF PollBackend, Inner, thread
<1>4. CASE Dispatch
  BY <1>1, <1>4 DEF Dispatch, FlushDue, FlushNow, Inner, thread
<1>5. CASE RecvTimeout \/ RecvDisconnected \/ Drained
  BY <1>1, <1>5 DEF RecvTimeout, RecvDisconnected, Drained, Inner, vars
<1>6. ASSUME NEW p \in Paths, PublishModify(p) \/ DiskChange(p)
      PROVE  Inner
  BY <1>1, <1>6 DEF PublishModify, DiskChange, Inner
<1>7. CASE SendStop \/ DropHandles
  BY <1>1, <1>7 DEF SendStop, DropHandles, Inner, vars
<1>8. CASE HubTick
  BY <1>1, <1>8 DEF HubTick, Tick, Inner
<1>9. CASE UNCHANGED hubvars
  BY <1>1, <1>9 DEF hubvars, vars, Inner
<1>. QED
  BY <1>2, <1>3, <1>4, <1>5, <1>6, <1>7, <1>8, <1>9 DEF HubNext, HubStep

(* The thread's own variables: send() waits for room, and only a receive   *)
(* takes from the channel.                                                 *)
LEMMA HubNextAround ==
  ASSUME HubInv, [HubNext]_hubvars
  PROVE  Around'
<1>1. /\ chan \in Seq(Commands) /\ Len(chan) <= ChanCap /\ raw \in Seq(Event)
      /\ connected \in BOOLEAN /\ ingested \in Nat /\ ChanCap \in Nat \ {0}
      /\ pc \in {"recv", "drain", "poll", "flush", "stopped"}
  BY ChanCapAssumption DEF HubInv, IndInv, TypeOK, Around
<1>2. ASSUME NEW p \in Paths, NEW src \in Sources
      PROVE  NewEvent(p, src, ingested + 1) \in Event
  BY <1>1 DEF NewEvent, Event
<1>3. ASSUME NEW here, Receive(here)
      PROVE  Around'
  <2>1. chan' \in Seq(Commands) /\ Len(chan') <= ChanCap
    BY <1>1, <1>3 DEF Receive
  <2>. QED
    BY <1>1, <1>3, <2>1 DEF Receive, Around
<1>4. CASE PollBackend \/ Dispatch \/ RecvTimeout \/ RecvDisconnected \/ Drained
  <2>1. /\ chan' = chan /\ connected' = connected /\ raw' \in {raw, << >>}
        /\ pc' \in {"recv", "drain", "poll", "flush", "stopped"}
    BY <1>4 DEF PollBackend, Dispatch, RecvTimeout, RecvDisconnected, Drained
  <2>2. raw' \in Seq(Event)
    <3>1. << >> \in Seq(Event)
      OBVIOUS
    <3>. QED
      BY <1>1, <2>1, <3>1, Zenon
  <2>3. connected' \in BOOLEAN
    BY <1>1, <2>1, Zenon
  <2>4. chan' \in Seq(Commands) /\ Len(chan') <= ChanCap
    BY <1>1, <2>1
  <2>. QED
    BY <2>1, <2>2, <2>3, <2>4 DEF Around
<1>5. ASSUME NEW p \in Paths, PublishModify(p)
      PROVE  Around'
  <2>1. Publish(NewEvent(p, "buffer", ingested + 1)) \in Commands
    BY <1>2 DEF Publish, Commands, Sources
  <2>2. chan' \in Seq(Commands) /\ Len(chan') <= ChanCap
    <3>. DEFINE m == Publish(NewEvent(p, "buffer", ingested + 1))
    <3>1. \/ chan' = chan
          \/ Len(chan) < ChanCap /\ chan' = Append(chan, m)
      BY <1>5 DEF PublishModify
    <3>2. m \in Commands
      BY <2>1
    <3>. HIDE DEF m
    <3>. QED
      BY <1>1, <3>1, <3>2
  <2>. QED
    BY <1>1, <1>5, <2>2 DEF PublishModify, Around
<1>6. ASSUME NEW p \in Paths, DiskChange(p)
      PROVE  Around'
  <2>1. NewEvent(p, "disk", ingested + 1) \in Event
    BY <1>2 DEF Sources
  <2>2. raw' \in Seq(Event)
    BY <1>1, <1>6, <2>1 DEF DiskChange
  <2>. QED
    BY <1>1, <1>6, <2>2 DEF DiskChange, Around
<1>7. CASE SendStop
  <2>1. Stop \in Commands
    BY DEF Commands
  <2>2. chan' \in Seq(Commands) /\ Len(chan') <= ChanCap
    BY <1>1, <1>7, <2>1 DEF SendStop
  <2>. QED
    BY <1>1, <1>7, <2>2 DEF SendStop, Around
<1>8. CASE DropHandles \/ HubTick \/ UNCHANGED hubvars
  BY <1>1, <1>8 DEF DropHandles, HubTick, hubvars, Around
<1>. QED
  BY <1>3, <1>4, <1>5, <1>6, <1>7, <1>8 DEF HubNext, HubStep

(* The invariant is inductive.                                             *)
LEMMA HubNextInv ==
  ASSUME HubInv, [HubNext]_hubvars
  PROVE  HubInv'
<1>1. Inner /\ Around' /\ IndInv /\ TypeOK
  BY HubNextInner, HubNextAround DEF HubInv, IndInv
<1>2. ASSUME NEW evs \in Seq(Event), Ingest(evs), UNCHANGED << now, ingested >>
      PROVE  IndInv'
  <2>1. ingested' \in Nat
    BY <1>1, <1>2 DEF TypeOK
  <2>2. CASE Absorb(evs)
    <3>1. TypeOK'
      BY <1>1, <1>2, <2>1, <2>2, AbsorbTypeOK
    <3>. QED
      BY <1>1, <2>2, <3>1, UnchangedIndInv DEF Absorb, IndInv
  <2>3. CASE ForceOverflow(evs)
    <3>1. TypeOK'
      BY <1>1, <1>2, <2>1, <2>3, ForceOverflowTypeOK
    <3>. QED
      BY <1>1, <2>3, <3>1, ForceOverflowIndInv DEF IndInv
  <2>. QED
    BY <1>2, <2>2, <2>3 DEF Ingest
<1>3. ASSUME pending # << >>, FlushPending, UNCHANGED << now, ingested >>
      PROVE  IndInv'
  BY <1>1, <1>3, FlushTypeOK, FlushIndInv DEF IndInv
<1>4. ASSUME UNCHANGED cvars, now' \in Nat, ingested' \in Nat
      PROVE  IndInv'
  <2>1. TypeOK'
    BY <1>1, <1>4 DEF cvars, TypeOK
  <2>. QED
    BY <1>1, <1>4, <2>1, UnchangedIndInv DEF cvars, IndInv
<1>. QED
  BY <1>1, <1>2, <1>3, <1>4 DEF Inner, HubInv

(***************************************************************************)
(* The channel never holds more than its capacity, and the coalescer in    *)
(* the hub keeps its types and limits.                                     *)
(***************************************************************************)
THEOREM HubTypeCorrect == HubSpec => []HubTypeOK
<1>1. HubInit => HubInv
  BY InitHubInv
<1>2. HubInv /\ [HubNext]_hubvars => HubInv'
  BY HubNextInv
<1>3. HubInv => HubTypeOK
  BY DEF HubInv, Around, IndInv, HubTypeOK
<1>. QED
  BY <1>1, <1>2, <1>3, PTL DEF HubSpec

(***************************************************************************)
(* FilesSince by generation stays complete, or truncated, when edits come  *)
(* through the channel and disk events from the backend.                   *)
(***************************************************************************)
THEOREM HubCatchUpComplete == HubSpec => []CatchUpComplete
<1>1. HubInit => HubInv
  BY InitHubInv
<1>2. HubInv /\ [HubNext]_hubvars => HubInv'
  BY HubNextInv
<1>3. HubInv => CatchUpComplete
  BY IndInvCatchUp DEF HubInv
<1>. QED
  BY <1>1, <1>2, <1>3, PTL DEF HubSpec

(***************************************************************************)
(* The hub implements the feed: what its subscribers and FilesSince see is *)
(* what a feed of the same events could show.                              *)
(***************************************************************************)
THEOREM HubImplementsFeed == HubSpec => ImplementsFeed
<1>1. HubInit => HubInv /\ Feed!Init
  BY InitHubInv, InitFeed DEF HubInit
<1>2. HubInv /\ [HubNext]_hubvars => HubInv'
  BY HubNextInv
<1>3. HubInv /\ HubInv' /\ [HubNext]_hubvars => [Feed!Next]_Feed!feed
  <2>. SUFFICES ASSUME HubInv, HubInv', [HubNext]_hubvars
                PROVE  [Feed!Next]_Feed!feed
    OBVIOUS
  <2>1. Inner /\ IndInv /\ IndInv' /\ TypeOK
    BY HubNextInner DEF HubInv, IndInv
  <2>2. ASSUME NEW evs \in Seq(Event), Ingest(evs)
        PROVE  [Feed!Next]_Feed!feed
    <3>1. CASE evs = << >>
      <4>1. Absorb(evs)
        <5>1. pending \in Seq(Event) /\ Len(pending) <= OverflowLimit
          BY <2>1 DEF TypeOK
        <5>2. Len(pending) + Len(evs) = Len(pending)
          BY <3>1, <5>1
        <5>3. ForceOverflow(evs) => Len(pending) + Len(evs) > OverflowLimit
          BY DEF ForceOverflow
        <5>4. ~ForceOverflow(evs)
          BY <5>1, <5>2, <5>3, OverflowAssumption
        <5>. QED
          BY <2>2, <5>4 DEF Ingest
      <4>2. pending' = pending
        BY <2>1, <3>1, <4>1 DEF Absorb, TypeOK
      <4>. QED
        BY <4>1, <4>2 DEF Absorb, Feed!feed
    <3>2. CASE evs # << >>
      <4>1. Len(evs) \in Nat \ {0}
        BY <3>2
      <4>2. Absorb(evs) => Feed!Offer
        BY <2>1, <4>1, AbsorbFeed
      <4>3. ForceOverflow(evs) => Feed!GiveUp
        BY <2>1, <4>1, OverflowFeed
      <4>. QED
        BY <2>2, <4>2, <4>3 DEF Ingest, Feed!Next
    <3>. QED
      BY <3>1, <3>2
  <2>3. CASE pending # << >> /\ FlushPending
    BY <2>1, <2>3, FlushFeed DEF Feed!Next
  <2>4. CASE UNCHANGED cvars
    BY <2>4 DEF cvars, Feed!feed
  <2>. QED
    BY <2>1, <2>2, <2>3, <2>4 DEF Inner
<1>. QED
  BY <1>1, <1>2, <1>3, PTL DEF HubSpec, ImplementsFeed, Feed!Spec
-----------------------------------------------------------------------------
(***************************************************************************)
(* Why deliveries are in order.  The order has to be known along the whole *)
(* way of an event: what is out (pending or emitted) is in order, what     *)
(* waits in the channel or in the backend is in order, comes after all     *)
(* that is out, and no event has a number that is still to be given.       *)
(***************************************************************************)
Out(e) ==
  \/ \E i \in DOMAIN emitted : \E m \in DOMAIN emitted[i].events :
       e = emitted[i].events[m]
  \/ \E n \in DOMAIN pending : e = pending[n]

OutInOrder ==
  /\ DeliveredInOrder
  /\ \A i \in DOMAIN emitted :
       \A m \in DOMAIN emitted[i].events, n \in DOMAIN pending :
         Before(emitted[i].events[m], pending[n])
  /\ \A m, n \in DOMAIN pending : m < n => Before(pending[m], pending[n])

ChanInOrder ==
  /\ \A i \in DOMAIN chan : chan[i] # Stop =>
       /\ chan[i].event.source = "buffer"
       /\ chan[i].event.seq <= ingested
       /\ \A e \in Event : Out(e) => Before(e, chan[i].event)
  /\ \A i, j \in DOMAIN chan :
       i < j /\ chan[i] # Stop /\ chan[j] # Stop =>
         chan[i].event.seq < chan[j].event.seq

RawInOrder ==
  /\ \A i \in DOMAIN raw :
       /\ raw[i].source = "disk"
       /\ raw[i].seq <= ingested
       /\ \A e \in Event : Out(e) => Before(e, raw[i])
  /\ \A i, j \in DOMAIN raw : i < j => raw[i].seq < raw[j].seq

OutNumbered == \A e \in Event : Out(e) => e.seq <= ingested

InOrder == OutInOrder /\ OutNumbered /\ ChanInOrder /\ RawInOrder

(* Events that are in order and come after all that is out are appended in *)
(* order.                                                                  *)
LEMMA AbsorbOut ==
  ASSUME TypeOK, OutInOrder, NEW evs \in Seq(Event), Absorb(evs),
         \A m, n \in 1 .. Len(evs) : m < n => Before(evs[m], evs[n]),
         \A e \in Event : Out(e) => \A n \in 1 .. Len(evs) : Before(e, evs[n])
  PROVE  /\ OutInOrder'
         /\ \A e \in Event : Out(e)' => Out(e) \/ \E n \in 1 .. Len(evs) : e = evs[n]
<1>1. /\ pending \in Seq(Event) /\ emitted \in Seq(Batch)
      /\ emitted' = emitted /\ pending' = pending \o evs
      /\ Len(pending) \in Nat /\ Len(evs) \in Nat
  BY DEF TypeOK, Absorb
<1>2. /\ DOMAIN pending = 1 .. Len(pending)
      /\ DOMAIN pending' = 1 .. Len(pending) + Len(evs)
      /\ \A n \in 1 .. Len(pending) + Len(evs) :
           \/ n \in 1 .. Len(pending) /\ pending'[n] = pending[n]
           \/ /\ n - Len(pending) \in 1 .. Len(evs)
              /\ n > Len(pending)
              /\ pending'[n] = evs[n - Len(pending)]
  BY <1>1
<1>3. \A i \in DOMAIN emitted : \A m \in DOMAIN emitted[i].events :
        emitted[i].events[m] \in Event /\ Out(emitted[i].events[m])
  <2>1. \A i \in DOMAIN emitted : emitted[i] \in Batch
    BY <1>1
  <2>2. \A i \in DOMAIN emitted : emitted[i].events \in Seq(Event)
    BY <2>1 DEF Batch
  <2>. QED
    BY <2>2 DEF Out
<1>4. \A n \in 1 .. Len(pending) : pending[n] \in Event /\ Out(pending[n])
  <2>1. \A n \in 1 .. Len(pending) : pending[n] \in Event
    BY <1>1
  <2>. QED
    BY <1>2, <2>1 DEF Out
<1>5. DeliveredInOrder'
  <2>1. DeliveredInOrder /\ emitted' = emitted
    BY <1>1 DEF OutInOrder
  <2>. QED
    BY <2>1 DEF DeliveredInOrder, Before
<1>6. ASSUME NEW i \in DOMAIN emitted, NEW m \in DOMAIN emitted[i].events,
             NEW n \in DOMAIN pending'
      PROVE  Before(emitted[i].events[m], pending'[n])
  <2>1. CASE n \in 1 .. Len(pending) /\ pending'[n] = pending[n]
    BY <1>2, <2>1 DEF OutInOrder
  <2>2. CASE n - Len(pending) \in 1 .. Len(evs)
             /\ pending'[n] = evs[n - Len(pending)]
    BY <1>3, <2>2
  <2>. QED
    BY <1>2, <2>1, <2>2
<1>7. ASSUME NEW m \in DOMAIN pending', NEW n \in DOMAIN pending', m < n
      PROVE  Before(pending'[m], pending'[n])
  <2>1. CASE n \in 1 .. Len(pending) /\ pending'[n] = pending[n]
    <3>1. m \in 1 .. Len(pending) /\ pending'[m] = pending[m]
      BY <1>1, <1>2, <1>7, <2>1
    <3>. QED
      BY <1>2, <1>7, <2>1, <3>1 DEF OutInOrder
  <2>2. CASE /\ n - Len(pending) \in 1 .. Len(evs)
             /\ pending'[n] = evs[n - Len(pending)]
    <3>1. CASE m \in 1 .. Len(pending) /\ pending'[m] = pending[m]
      BY <1>4, <2>2, <3>1
    <3>2. CASE /\ m - Len(pending) \in 1 .. Len(evs)
               /\ pending'[m] = evs[m - Len(pending)]
      <4>1. m - Len(pending) < n - Len(pending)
        BY <1>1, <1>2, <1>7
      <4>. QED
        BY <2>2, <3>2, <4>1
    <3>. QED
      BY <1>2, <3>1, <3>2
  <2>. QED
    BY <1>2, <2>1, <2>2
<1>8. OutInOrder'
  BY <1>1, <1>5, <1>6, <1>7 DEF OutInOrder, Before
<1>9. ASSUME NEW e \in Event, Out(e)'
      PROVE  Out(e) \/ \E n \in 1 .. Len(evs) : e = evs[n]
  <2>1. CASE \E n \in DOMAIN pending' : e = pending'[n]
    BY <1>2, <1>4, <2>1
  <2>2. CASE \E i \in DOMAIN emitted : \E m \in DOMAIN emitted[i].events :
               e = emitted[i].events[m]
    BY <2>2 DEF Out
  <2>. QED
    BY <1>1, <1>9, <2>1, <2>2 DEF Out
<1>. QED
  BY <1>8, <1>9

(* What an overflow drops leaves the rest in order.                        *)
LEMMA OverflowOut ==
  ASSUME TypeOK, OutInOrder, NEW evs \in Seq(Event), ForceOverflow(evs)
  PROVE  OutInOrder' /\ \A e \in Event : Out(e)' => Out(e)
<1>1. pending' = << >> /\ emitted' = emitted /\ DOMAIN pending' = {}
  BY DEF ForceOverflow
<1>. QED
  BY <1>1 DEF OutInOrder, DeliveredInOrder, Before, Out

(* A flush moves the pending events behind the emitted ones.               *)
LEMMA FlushOut ==
  ASSUME TypeOK, OutInOrder, FlushPending
  PROVE  OutInOrder' /\ \A e \in Event : Out(e)' => Out(e)
<1>. DEFINE batch == [events |-> pending, overflow |-> FALSE,
                      need_rescan |-> FALSE, generation |-> generation + 1]
<1>1. emitted \in Seq(Batch) /\ pending \in Seq(Event) /\ generation \in Nat
  BY DEF TypeOK
<1>2. pending' = << >> /\ DOMAIN pending' = {} /\ emitted' = Append(emitted, batch)
  BY DEF FlushPending
<1>3. batch.events = pending /\ batch \in Batch
  BY <1>1 DEF Batch
<1>. HIDE DEF batch
<1>4. /\ DOMAIN emitted = 1 .. Len(emitted) /\ Len(emitted) \in Nat
      /\ DOMAIN emitted' = 1 .. Len(emitted) + 1
      /\ \A i \in 1 .. Len(emitted) : emitted'[i].events = emitted[i].events
      /\ emitted'[Len(emitted) + 1].events = pending
  BY <1>1, <1>2, <1>3
<1>5. ASSUME NEW i \in DOMAIN emitted', NEW j \in DOMAIN emitted',
             NEW m \in DOMAIN emitted'[i].events,
             NEW n \in DOMAIN emitted'[j].events,
             i < j \/ (i = j /\ m < n)
      PROVE  Before(emitted'[i].events[m], emitted'[j].events[n])
  <2>1. CASE j \in 1 .. Len(emitted)
    <3>1. i \in 1 .. Len(emitted)
      BY <1>4, <1>5, <2>1
    <3>2. i \in DOMAIN emitted /\ j \in DOMAIN emitted
      BY <1>4, <2>1, <3>1
    <3>. QED
      BY <1>4, <1>5, <2>1, <3>1, <3>2 DEF OutInOrder, DeliveredInOrder
  <2>2. CASE j = Len(emitted) + 1 /\ i \in 1 .. Len(emitted)
    BY <1>4, <2>2 DEF OutInOrder
  <2>3. CASE j = Len(emitted) + 1 /\ i = Len(emitted) + 1
    BY <1>4, <1>5, <2>3 DEF OutInOrder
  <2>. QED
    BY <1>4, <2>1, <2>2, <2>3
<1>6. DeliveredInOrder'
  BY <1>5 DEF DeliveredInOrder, Before
<1>7. ASSUME NEW e \in Event, Out(e)'
      PROVE  Out(e)
  <2>1. PICK i \in DOMAIN emitted' : \E m \in DOMAIN emitted'[i].events :
               e = emitted'[i].events[m]
    BY <1>2, <1>7 DEF Out
  <2>. QED
    BY <1>4, <2>1 DEF Out
<1>. QED
  BY <1>2, <1>6, <1>7 DEF OutInOrder
(* What the ordering says once nothing more is out, nothing waits longer,  *)
(* and no number is taken back.                                            *)
LEMMA FewerInOrder ==
  ASSUME HubInv, InOrder, OutInOrder',
         \A e \in Event : Out(e)' => Out(e),
         UNCHANGED << chan, ingested >>, raw' \in {raw, << >>}
  PROVE  InOrder'
<1>1. OutNumbered'
  BY DEF InOrder, OutNumbered
<1>2. ChanInOrder'
  BY DEF InOrder, ChanInOrder, Before
<1>3. RawInOrder'
  <2>1. CASE raw' = raw
    BY <2>1 DEF InOrder, RawInOrder, Before
  <2>2. CASE raw' = << >>
    <3>1. DOMAIN raw' = {}
      BY <2>2
    <3>. QED
      BY <3>1 DEF RawInOrder
  <2>. QED
    BY <2>1, <2>2
<1>. QED
  BY <1>1, <1>2, <1>3 DEF InOrder

(* A publisher numbers its edit above all others and puts it last.         *)
LEMMA PublishInOrder ==
  ASSUME HubInv, InOrder, NEW p \in Paths, PublishModify(p)
  PROVE  InOrder'
<1>. DEFINE ev == NewEvent(p, "buffer", ingested + 1)
            m == Publish(ev)
<1>1. /\ chan \in Seq(Commands) /\ raw \in Seq(Event) /\ ingested \in Nat
      /\ emitted' = emitted /\ pending' = pending /\ raw' = raw
      /\ ingested' = ingested + 1
      /\ chan' = chan \/ chan' = Append(chan, m)
  BY DEF PublishModify, cvars, HubInv, Around, IndInv, TypeOK
<1>2. m.event = ev /\ ev.source = "buffer" /\ ev.seq = ingested + 1
      /\ m \in Commands
  <2>1. ev \in Event
    BY <1>1 DEF NewEvent, Event, Sources
  <2>. HIDE DEF ev
  <2>2. m.event = ev /\ m \in Commands
    BY <2>1 DEF Publish, Commands
  <2>. QED
    BY <2>2 DEF ev, NewEvent
<1>. HIDE DEF m, ev
<1>3. OutInOrder' /\ \A e \in Event : Out(e)' <=> Out(e)
  BY <1>1 DEF InOrder, OutInOrder, DeliveredInOrder, Before, Out
<1>4. \A e \in Event : e.seq \in Nat
  BY DEF Event
<1>5. OutNumbered'
  BY <1>1, <1>3, <1>4 DEF InOrder, OutNumbered
<1>6. RawInOrder'
  <2>1. \A i \in DOMAIN raw : raw[i].seq \in Nat
    BY <1>1, <1>4
  <2>. QED
    BY <1>1, <1>3, <2>1 DEF InOrder, RawInOrder, Before
<1>7. \A i \in DOMAIN chan : chan[i] # Stop => chan[i].event.seq \in Nat
  BY <1>1, <1>4 DEF Commands, Stop
<1>8. ChanInOrder'
  <2>1. CASE chan' = chan
    BY <1>1, <1>3, <1>7, <2>1 DEF InOrder, ChanInOrder, Before
  <2>2. CASE chan' = Append(chan, m)
    <3>1. /\ DOMAIN chan = 1 .. Len(chan) /\ Len(chan) \in Nat
          /\ DOMAIN chan' = 1 .. Len(chan) + 1
          /\ \A i \in 1 .. Len(chan) : chan'[i] = chan[i]
          /\ chan'[Len(chan) + 1] = m
      BY <1>1, <1>2, <2>2
    <3>2. ASSUME NEW i \in DOMAIN chan', chan'[i] # Stop
          PROVE  /\ chan'[i].event.source = "buffer"
                 /\ chan'[i].event.seq <= ingested'
                 /\ \A e \in Event : Out(e)' => Before(e, chan'[i].event)
      <4>1. CASE i \in 1 .. Len(chan)
        BY <1>1, <1>3, <1>7, <3>1, <3>2, <4>1 DEF InOrder, ChanInOrder
      <4>2. CASE i = Len(chan) + 1
        BY <1>1, <1>2, <1>3, <1>4, <3>1, <4>2 DEF InOrder, OutNumbered, Before
      <4>. QED
        BY <3>1, <4>1, <4>2
    <3>3. ASSUME NEW i \in DOMAIN chan', NEW j \in DOMAIN chan',
                 i < j, chan'[i] # Stop, chan'[j] # Stop
          PROVE  chan'[i].event.seq < chan'[j].event.seq
      <4>1. CASE j \in 1 .. Len(chan)
        <5>1. i \in 1 .. Len(chan)
          BY <3>1, <3>3, <4>1
        <5>. QED
          BY <3>1, <3>3, <4>1, <5>1 DEF InOrder, ChanInOrder
      <4>2. CASE j = Len(chan) + 1
        <5>1. i \in 1 .. Len(chan)
          BY <3>1, <3>3, <4>2
        <5>2. chan[i].event.seq <= ingested
          BY <3>1, <3>3, <5>1 DEF InOrder, ChanInOrder
        <5>. QED
          BY <1>1, <1>2, <1>7, <3>1, <3>3, <4>2, <5>1, <5>2
      <4>. QED
        BY <3>1, <4>1, <4>2
    <3>. QED
      BY <3>2, <3>3 DEF ChanInOrder, Before
  <2>. QED
    BY <1>1, <2>1, <2>2
<1>. QED
  BY <1>3, <1>5, <1>6, <1>8 DEF InOrder

(* So does the disk with what the backend will report.                     *)
LEMMA DiskInOrder ==
  ASSUME HubInv, InOrder, NEW p \in Paths, DiskChange(p)
  PROVE  InOrder'
<1>. DEFINE ev == NewEvent(p, "disk", ingested + 1)
<1>1. /\ chan \in Seq(Commands) /\ raw \in Seq(Event) /\ ingested \in Nat
      /\ emitted' = emitted /\ pending' = pending /\ chan' = chan
      /\ ingested' = ingested + 1
      /\ raw' = Append(raw, ev)
  BY DEF DiskChange, cvars, HubInv, Around, IndInv, TypeOK
<1>2. ev.source = "disk" /\ ev.seq = ingested + 1 /\ ev \in Event
  BY <1>1 DEF NewEvent, Event, Sources
<1>. HIDE DEF ev
<1>3. OutInOrder' /\ \A e \in Event : Out(e)' <=> Out(e)
  BY <1>1 DEF InOrder, OutInOrder, DeliveredInOrder, Before, Out
<1>4. \A e \in Event : e.seq \in Nat
  BY DEF Event
<1>5. OutNumbered'
  BY <1>1, <1>3, <1>4 DEF InOrder, OutNumbered
<1>6. ChanInOrder'
  <2>1. \A i \in DOMAIN chan : chan[i] # Stop => chan[i].event.seq \in Nat
    BY <1>1, <1>4 DEF Commands, Stop
  <2>. QED
    BY <1>1, <1>3, <2>1 DEF InOrder, ChanInOrder, Before
<1>7. /\ DOMAIN raw = 1 .. Len(raw) /\ Len(raw) \in Nat
      /\ DOMAIN raw' = 1 .. Len(raw) + 1
      /\ \A i \in 1 .. Len(raw) : raw'[i] = raw[i] /\ raw[i].seq \in Nat
      /\ raw'[Len(raw) + 1] = ev
  BY <1>1, <1>2, <1>4
<1>8. ASSUME NEW i \in DOMAIN raw'
      PROVE  /\ raw'[i].source = "disk"
             /\ raw'[i].seq <= ingested'
             /\ \A e \in Event : Out(e)' => Before(e, raw'[i])
  <2>1. CASE i \in 1 .. Len(raw)
    BY <1>1, <1>3, <1>7, <2>1 DEF InOrder, RawInOrder
  <2>2. CASE i = Len(raw) + 1
    BY <1>1, <1>2, <1>3, <1>4, <1>7, <2>2 DEF InOrder, OutNumbered, Before
  <2>. QED
    BY <1>7, <2>1, <2>2
<1>9. ASSUME NEW i \in DOMAIN raw', NEW j \in DOMAIN raw', i < j
      PROVE  raw'[i].seq < raw'[j].seq
  <2>0. i \in 1 .. Len(raw)
    BY <1>7, <1>9
  <2>1. CASE j \in 1 .. Len(raw)
    BY <1>7, <1>9, <2>0, <2>1 DEF InOrder, RawInOrder
  <2>2. CASE j = Len(raw) + 1
    <3>1. raw[i].seq <= ingested
      BY <1>7, <2>0 DEF InOrder, RawInOrder
    <3>. QED
      BY <1>1, <1>2, <1>7, <2>0, <2>2, <3>1
  <2>. QED
    BY <1>7, <2>1, <2>2
<1>. QED
  BY <1>3, <1>5, <1>6, <1>8, <1>9 DEF InOrder, RawInOrder, Before
(* What a receive takes is what the channel holds first.                   *)
LEMMA ReceiveTail ==
  ASSUME HubInv, NEW here, Receive(here)
  PROVE  /\ 1 \in DOMAIN chan /\ Head(chan) = chan[1]
         /\ \A i \in DOMAIN chan' :
              i + 1 \in DOMAIN chan /\ chan'[i] = chan[i + 1] /\ i \in Nat \ {0}
         /\ \A i \in DOMAIN chan :
              i = 1 \/ (i - 1 \in DOMAIN chan' /\ chan'[i - 1] = chan[i])
         /\ Head(chan) # Stop => Head(chan).event \in Event
<1>1. chan \in Seq(Commands) /\ chan # << >> /\ chan' = Tail(chan)
  BY DEF HubInv, Around, Receive
<1>2. /\ DOMAIN chan = 1 .. Len(chan) /\ Len(chan) \in Nat \ {0}
      /\ DOMAIN chan' = 1 .. Len(chan) - 1
      /\ \A i \in 1 .. Len(chan) - 1 : chan'[i] = chan[i + 1]
      /\ Head(chan) = chan[1] /\ Head(chan) \in Commands
  BY <1>1
<1>3. Head(chan) # Stop => Head(chan).event \in Event
  BY <1>2 DEF Commands, Stop
<1>. QED
  BY <1>2, <1>3

(* A received edit is appended after all that is out; what is left in the  *)
(* channel comes after it.                                                 *)
LEMMA ReceiveInOrder ==
  ASSUME HubInv, InOrder, NEW here, Receive(here)
  PROVE  InOrder'
<1>. DEFINE ev == Head(chan).event
<1>1. /\ raw' = raw /\ ingested' = ingested /\ raw \in Seq(Event)
      /\ TypeOK
      /\ 1 \in DOMAIN chan /\ Head(chan) = chan[1]
      /\ \A i \in DOMAIN chan' :
           i + 1 \in DOMAIN chan /\ chan'[i] = chan[i + 1] /\ i \in Nat \ {0}
      /\ Head(chan) # Stop => ev \in Event
  <2>1. raw' = raw /\ ingested' = ingested
    BY DEF Receive, thread
  <2>2. raw \in Seq(Event) /\ TypeOK
    BY DEF HubInv, Around, IndInv
  <2>. QED
    BY <2>1, <2>2, ReceiveTail
<1>2. Stop # Head(chan) =>
        /\ ev.source = "buffer" /\ ev.seq <= ingested
        /\ \A e \in Event : Out(e) => Before(e, ev)
  BY <1>1 DEF InOrder, ChanInOrder
<1>3. /\ OutInOrder'
      /\ \A e \in Event : Out(e)' =>
           Out(e) \/ (Stop # Head(chan) /\ e = ev)
  <2>1. CASE Head(chan) = Stop
    <3>1. pending' = pending /\ emitted' = emitted
      BY <2>1 DEF Receive, cvars
    <3>. QED
      BY <3>1 DEF InOrder, OutInOrder, DeliveredInOrder, Before, Out
  <2>2. CASE Head(chan) # Stop
    <3>. DEFINE evs == << ev >>
    <3>1. Ingest(evs)
      BY <2>2 DEF Receive
    <3>2. /\ evs \in Seq(Event) /\ Len(evs) = 1
          /\ \A n \in 1 .. Len(evs) : n = 1 /\ evs[n] = ev
      BY <1>1, <2>2
    <3>. HIDE DEF evs
    <3>3. /\ \A m, n \in 1 .. Len(evs) : m < n => Before(evs[m], evs[n])
          /\ \A e \in Event : Out(e) => \A n \in 1 .. Len(evs) : Before(e, evs[n])
      BY <1>2, <2>2, <3>2
    <3>4. CASE Absorb(evs)
      <4>1. /\ OutInOrder'
            /\ \A e \in Event : Out(e)' => Out(e) \/ \E n \in 1 .. Len(evs) : e = evs[n]
        BY <1>1, <3>2, <3>3, <3>4, AbsorbOut DEF InOrder
      <4>. QED
        BY <2>2, <3>2, <4>1
    <3>5. CASE ForceOverflow(evs)
      BY <1>1, <3>2, <3>5, OverflowOut DEF InOrder
    <3>. QED
      BY <3>1, <3>4, <3>5 DEF Ingest
  <2>. QED
    BY <2>1, <2>2
<1>4. OutNumbered'
  BY <1>1, <1>2, <1>3 DEF InOrder, OutNumbered
<1>5. RawInOrder'
  <2>1. Stop # Head(chan) => \A i \in DOMAIN raw : Before(ev, raw[i])
    BY <1>2 DEF InOrder, RawInOrder, Before
  <2>2. ASSUME NEW i \in DOMAIN raw, NEW e \in Event, Out(e)'
        PROVE  Before(e, raw[i])
    BY <1>3, <2>1, <2>2 DEF InOrder, RawInOrder
  <2>. QED
    BY <1>1, <2>2 DEF InOrder, RawInOrder, Before
<1>6. ChanInOrder'
  <2>1. ASSUME NEW i \in DOMAIN chan', chan'[i] # Stop
        PROVE  /\ chan'[i].event.source = "buffer"
               /\ chan'[i].event.seq <= ingested
               /\ \A e \in Event : Out(e)' => Before(e, chan'[i].event)
    <3>1. /\ i + 1 \in DOMAIN chan /\ 1 < i + 1
          /\ chan'[i] = chan[i + 1] /\ chan[i + 1] # Stop
      BY <1>1, <2>1
    <3>2. Stop # Head(chan) => ev.seq < chan[i + 1].event.seq
      BY <1>1, <3>1 DEF InOrder, ChanInOrder
    <3>. QED
      BY <1>3, <3>1, <3>2 DEF InOrder, ChanInOrder, Before
  <2>2. ASSUME NEW i \in DOMAIN chan', NEW j \in DOMAIN chan',
               i < j, chan'[i] # Stop, chan'[j] # Stop
        PROVE  chan'[i].event.seq < chan'[j].event.seq
    <3>1. /\ i + 1 \in DOMAIN chan /\ j + 1 \in DOMAIN chan /\ i + 1 < j + 1
          /\ chan'[i] = chan[i + 1] /\ chan'[j] = chan[j + 1]
      BY <1>1, <2>2
    <3>. QED
      BY <2>2, <3>1 DEF InOrder, ChanInOrder
  <2>. QED
    BY <1>1, <2>1, <2>2 DEF ChanInOrder, Before
<1>. QED
  BY <1>3, <1>4, <1>5, <1>6 DEF InOrder

(* The events of a poll are appended after all that is out; edits in the   *)
(* channel have another source.                                            *)
LEMMA PollInOrder ==
  ASSUME HubInv, InOrder, PollBackend
  PROVE  InOrder'
<1>1. /\ raw \in Seq(Event) /\ raw' = << >> /\ DOMAIN raw' = {}
      /\ DOMAIN raw = 1 .. Len(raw)
      /\ chan' = chan /\ ingested' = ingested /\ TypeOK /\ Ingest(raw)
  BY DEF PollBackend, thread, HubInv, Around, IndInv
<1>2. /\ \A m, n \in 1 .. Len(raw) : m < n => Before(raw[m], raw[n])
      /\ \A e \in Event : Out(e) => \A n \in 1 .. Len(raw) : Before(e, raw[n])
  BY <1>1 DEF InOrder, RawInOrder, Before
<1>3. /\ OutInOrder'
      /\ \A e \in Event : Out(e)' => Out(e) \/ \E n \in DOMAIN raw : e = raw[n]
  <2>1. CASE Absorb(raw)
    <3>1. /\ OutInOrder'
          /\ \A e \in Event : Out(e)' => Out(e) \/ \E n \in 1 .. Len(raw) : e = raw[n]
      BY <1>1, <1>2, <2>1, AbsorbOut DEF InOrder
    <3>. QED
      BY <1>1, <3>1
  <2>2. CASE ForceOverflow(raw)
    BY <1>1, <2>2, OverflowOut DEF InOrder
  <2>. QED
    BY <1>1, <2>1, <2>2 DEF Ingest
<1>4. OutNumbered'
  BY <1>1, <1>3 DEF InOrder, OutNumbered, RawInOrder
<1>5. RawInOrder'
  BY <1>1 DEF RawInOrder
<1>6. ASSUME NEW i \in DOMAIN chan, chan[i] # Stop, NEW e \in Event, Out(e)'
      PROVE  Before(e, chan[i].event)
  <2>1. CASE Out(e)
    BY <1>6, <2>1 DEF InOrder, ChanInOrder
  <2>2. CASE \E n \in DOMAIN raw : e = raw[n]
    BY <1>6, <2>2 DEF InOrder, ChanInOrder, RawInOrder, Before
  <2>. QED
    BY <1>3, <1>6, <2>1, <2>2
<1>7. ChanInOrder'
  BY <1>1, <1>6 DEF InOrder, ChanInOrder, Before
<1>. QED
  BY <1>3, <1>4, <1>5, <1>7 DEF InOrder

(* A request to stop is no event.                                          *)
LEMMA StopInOrder ==
  ASSUME HubInv, InOrder, SendStop
  PROVE  InOrder'
<1>1. /\ chan \in Seq(Commands) /\ chan' = Append(chan, Stop)
      /\ raw' = raw /\ ingested' = ingested
      /\ pending' = pending /\ emitted' = emitted
  BY DEF SendStop, vars, cvars, HubInv, Around
<1>2. /\ DOMAIN chan = 1 .. Len(chan)
      /\ \A i \in DOMAIN chan' : chan'[i] # Stop =>
           i \in DOMAIN chan /\ chan'[i] = chan[i]
  <2>1. Stop \in Commands
    BY DEF Commands
  <2>. QED
    BY <1>1, <2>1
<1>3. OutInOrder' /\ \A e \in Event : Out(e)' <=> Out(e)
  BY <1>1 DEF InOrder, OutInOrder, DeliveredInOrder, Before, Out
<1>4. OutNumbered' /\ RawInOrder'
  BY <1>1, <1>3 DEF InOrder, OutNumbered, RawInOrder, Before
<1>5. ChanInOrder'
  BY <1>1, <1>2, <1>3 DEF InOrder, ChanInOrder, Before
<1>. QED
  BY <1>3, <1>4, <1>5 DEF InOrder

(* Every step of the hub and around it keeps the order.                    *)
LEMMA HubNextInOrder ==
  ASSUME HubInv, InOrder, [HubNext]_hubvars
  PROVE  InOrder'
<1>1. ASSUME NEW p \in Paths, PublishModify(p) \/ DiskChange(p)
      PROVE  InOrder'
  BY <1>1, PublishInOrder, DiskInOrder
<1>2. ASSUME NEW here, Receive(here)
      PROVE  InOrder'
  BY <1>2, ReceiveInOrder
<1>3. CASE PollBackend
  BY <1>3, PollInOrder
<1>4. CASE Dispatch /\ FlushPending
  <2>1. UNCHANGED << chan, ingested >> /\ raw' \in {raw, << >>} /\ TypeOK
    BY <1>4 DEF Dispatch, thread, HubInv, IndInv
  <2>. QED
    BY <1>4, <2>1, FlushOut, FewerInOrder DEF InOrder
<1>5. CASE SendStop
  BY <1>5, StopInOrder
<1>6. CASE UNCHANGED << cvars, chan, raw, ingested >>
  <2>1. OutInOrder' /\ \A e \in Event : Out(e)' <=> Out(e)
    BY <1>6 DEF cvars, InOrder, OutInOrder, DeliveredInOrder, Before, Out
  <2>2. UNCHANGED << chan, ingested >> /\ raw' \in {raw, << >>}
    BY <1>6
  <2>. QED
    BY <2>1, <2>2, FewerInOrder
<1>7. Dispatch => FlushPending \/ UNCHANGED << cvars, chan, raw, ingested >>
  BY DEF Dispatch, FlushDue, FlushNow, thread
<1>8. \/ RecvTimeout \/ RecvDisconnected \/ Drained \/ DropHandles \/ HubTick
      \/ UNCHANGED hubvars
      => UNCHANGED << cvars, chan, raw, ingested >>
  BY DEF RecvTimeout, RecvDisconnected, Drained, DropHandles, HubTick, Tick,
         hubvars, vars
<1>. QED
  BY <1>1, <1>2, <1>3, <1>4, <1>5, <1>6, <1>7, <1>8 DEF HubNext, HubStep

(***************************************************************************)
(* Whatever the capacity of the channel, the window and the limit, and     *)
(* however publishers, disk, polls and flushes interleave, subscribers see *)
(* the events of each source in order and each at most once.               *)
(***************************************************************************)
THEOREM AlwaysDeliveredInOrder == HubSpec => []DeliveredInOrder
<1>1. HubInit => HubInv /\ InOrder
  <2>. SUFFICES ASSUME HubInit  PROVE HubInv /\ InOrder
    OBVIOUS
  <2>1. HubInv
    BY InitHubInv
  <2>2. /\ DOMAIN emitted = {} /\ DOMAIN pending = {}
        /\ DOMAIN chan = {} /\ DOMAIN raw = {}
    BY DEF HubInit, Init, CoalescerInit
  <2>. QED
    BY <2>1, <2>2 DEF InOrder, OutInOrder, OutNumbered, ChanInOrder,
                      RawInOrder, DeliveredInOrder, Out
<1>2. HubInv /\ InOrder /\ [HubNext]_hubvars => HubInv' /\ InOrder'
  BY HubNextInv, HubNextInOrder
<1>3. InOrder => DeliveredInOrder
  BY DEF InOrder, OutInOrder
<1>. QED
  BY <1>1, <1>2, <1>3, PTL DEF HubSpec
-----------------------------------------------------------------------------
(***************************************************************************)
(* Why nothing is lost without a gap.  A flush raises the generation and   *)
(* the number of batches together and an overflow only the generation, so  *)
(* once they differ they differ for ever; and while they agree each step   *)
(* only moves events on.                                                   *)
(***************************************************************************)
NoLoss == Len(emitted) <= generation /\ NoGapNoLoss

(* Of the steps that move events, each keeps the events it does not drop.  *)
LEMMA MovesNoLoss ==
  ASSUME HubInv, NoLoss, ingested' = ingested,
         generation' = generation \/ generation' = generation + 1,
         \/ Len(emitted') = Len(emitted) /\ generation' = generation + 1
         \/ /\ Len(emitted') - Len(emitted) = generation' - generation
            /\ Len(emitted') \in Nat
            /\ pc' = "stopped" \/ pc # "stopped"
            /\ pc' # "stopped" => \A k \in 1 .. ingested :
                 Delivered(k) \/ InTransit(k) => Delivered(k)' \/ InTransit(k)'
  PROVE  NoLoss'
<1>1. Len(emitted) \in Nat /\ generation \in Nat
  BY DEF HubInv, IndInv, TypeOK
<1>2. CASE Len(emitted') = Len(emitted) /\ generation' = generation + 1
  BY <1>1, <1>2 DEF NoLoss, NoGapNoLoss
<1>3. CASE /\ Len(emitted') - Len(emitted) = generation' - generation
           /\ Len(emitted') \in Nat
           /\ pc' = "stopped" \/ pc # "stopped"
           /\ pc' # "stopped" => \A k \in 1 .. ingested :
                Delivered(k) \/ InTransit(k) => Delivered(k)' \/ InTransit(k)'
  <2>1. /\ Len(emitted') <= generation'
        /\ Len(emitted') = generation' => Len(emitted) = generation
    BY <1>1, <1>3 DEF NoLoss
  <2>2. NoGapNoLoss'
    BY <1>3, <2>1 DEF NoLoss, NoGapNoLoss
  <2>. QED
    BY <2>1, <2>2 DEF NoLoss
<1>. QED
  BY <1>2, <1>3

(* An ingest puts its events in `pending`, or overflows.                   *)
LEMMA IngestMoves ==
  ASSUME HubInv, NEW evs \in Seq(Event), Ingest(evs)
  PROVE  /\ emitted' = emitted
         /\ \/ generation' = generation + 1
            \/ /\ generation' = generation
               /\ \A n \in DOMAIN pending : \E m \in DOMAIN pending' :
                    pending'[m] = pending[n]
               /\ \A n \in DOMAIN evs : \E m \in DOMAIN pending' :
                    pending'[m] = evs[n]
<1>1. CASE Absorb(evs)
  <2>1. /\ pending \in Seq(Event) /\ pending' = pending \o evs
        /\ emitted' = emitted /\ generation' = generation
    BY <1>1 DEF Absorb, HubInv, IndInv, TypeOK
  <2>2. /\ Len(pending) \in Nat /\ Len(evs) \in Nat
        /\ DOMAIN pending = 1 .. Len(pending) /\ DOMAIN evs = 1 .. Len(evs)
        /\ DOMAIN pending' = 1 .. Len(pending) + Len(evs)
        /\ \A n \in 1 .. Len(pending) : pending'[n] = pending[n]
        /\ \A n \in 1 .. Len(evs) : pending'[Len(pending) + n] = evs[n]
    BY <2>1
  <2>3. ASSUME NEW n \in DOMAIN pending
        PROVE  n \in DOMAIN pending' /\ pending'[n] = pending[n]
    BY <2>2
  <2>4. ASSUME NEW n \in DOMAIN evs
        PROVE  /\ Len(pending) + n \in DOMAIN pending'
               /\ pending'[Len(pending) + n] = evs[n]
    BY <2>2
  <2>. QED
    BY <2>1, <2>3, <2>4
<1>2. CASE ForceOverflow(evs)
  BY <1>2 DEF ForceOverflow
<1>. QED
  BY <1>1, <1>2 DEF Ingest

(* A flush puts what was pending in the last batch.                        *)
LEMMA FlushMoves ==
  ASSUME HubInv, FlushPending
  PROVE  /\ Len(emitted') = Len(emitted) + 1 /\ Len(emitted) \in Nat
         /\ generation' = generation + 1
         /\ \A i \in DOMAIN emitted : i \in DOMAIN emitted'
                                       /\ emitted'[i] = emitted[i]
         /\ \A n \in DOMAIN pending : \E i \in DOMAIN emitted' :
              emitted'[i].events = pending
<1>. DEFINE batch == [events |-> pending, overflow |-> FALSE,
                      need_rescan |-> FALSE, generation |-> generation + 1]
<1>1. emitted \in Seq(Batch) /\ pending \in Seq(Event) /\ generation \in Nat
  BY DEF HubInv, IndInv, TypeOK
<1>2. emitted' = Append(emitted, batch) /\ generation' = generation + 1
  BY DEF FlushPending
<1>3. batch.events = pending /\ batch \in Batch
  BY <1>1 DEF Batch
<1>. HIDE DEF batch
<1>. QED
  BY <1>1, <1>2, <1>3

(* A new event is on its way, or meets a stopped hub.                      *)
LEMMA PublishNoLoss ==
  ASSUME HubInv, NoLoss, NEW p \in Paths, PublishModify(p) \/ DiskChange(p)
  PROVE  NoLoss'
<1>0. ingested + 1 \in Nat
  BY DEF HubInv, IndInv, TypeOK
<1>. PICK k \in Nat : k = ingested + 1
  BY <1>0
<1>. DEFINE cmd == Publish(NewEvent(p, "buffer", k))
            ev == NewEvent(p, "disk", k)
<1>1. /\ chan \in Seq(Commands) /\ raw \in Seq(Event) /\ ingested \in Nat
      /\ UNCHANGED << emitted, pending, generation, pc >>
      /\ ingested' = k
      /\ pc # "stopped" => \/ chan' = Append(chan, cmd) /\ raw' = raw
                           \/ chan' = chan /\ raw' = Append(raw, ev)
  BY DEF PublishModify, DiskChange, cvars, HubInv, Around, IndInv, TypeOK
<1>2. cmd # Stop /\ cmd.event.seq = k /\ ev.seq = k /\ cmd \in Commands /\ ev \in Event
  <2>1. NewEvent(p, "buffer", k) \in Event /\ ev \in Event
    BY <1>1 DEF NewEvent, Event, Sources
  <2>2. NewEvent(p, "buffer", k).seq = k /\ ev.seq = k
    BY DEF NewEvent
  <2>. HIDE DEF ev
  <2>. QED
    BY <2>1, <2>2 DEF Publish, Stop, Commands
<1>. HIDE DEF cmd, ev
<1>3. ASSUME NEW n \in 1 .. ingested, pc # "stopped", Delivered(n) \/ InTransit(n)
      PROVE  Delivered(n)' \/ InTransit(n)'
  <2>1. /\ \A i \in DOMAIN chan : i \in DOMAIN chan' /\ chan'[i] = chan[i]
        /\ \A i \in DOMAIN raw : i \in DOMAIN raw' /\ raw'[i] = raw[i]
    <3>1. CASE chan' = Append(chan, cmd) /\ raw' = raw
      BY <1>1, <1>2, <3>1
    <3>2. CASE chan' = chan /\ raw' = Append(raw, ev)
      BY <1>1, <1>2, <3>2
    <3>. QED
      BY <1>1, <1>3, <3>1, <3>2
  <2>. QED
    BY <1>1, <1>3, <2>1 DEF Delivered, InTransit
<1>4. ASSUME pc # "stopped"
      PROVE  InTransit(k)'
  <2>1. CASE chan' = Append(chan, cmd)
    <3>1. /\ Len(chan) + 1 \in DOMAIN chan'
          /\ chan'[Len(chan) + 1] = cmd
      BY <1>1, <1>2, <2>1
    <3>. QED
      BY <1>2, <3>1 DEF InTransit
  <2>2. CASE raw' = Append(raw, ev)
    <3>1. /\ Len(raw) + 1 \in DOMAIN raw'
          /\ raw'[Len(raw) + 1] = ev
      BY <1>1, <1>2, <2>2
    <3>. QED
      BY <1>2, <3>1 DEF InTransit
  <2>. QED
    BY <1>1, <1>4, <2>1, <2>2
<1>5. \A n \in 1 .. ingested' : n \in 1 .. ingested \/ n = k
  BY <1>1
<1>6. NoGapNoLoss'
  BY <1>1, <1>3, <1>4, <1>5 DEF NoLoss, NoGapNoLoss
<1>. QED
  BY <1>1, <1>6 DEF NoLoss

(* Every step of the hub and around it keeps the count.                    *)
LEMMA HubNextNoLoss ==
  ASSUME HubInv, NoLoss, [HubNext]_hubvars
  PROVE  NoLoss'
<1>. DEFINE Kept == \A k \in 1 .. ingested :
                      Delivered(k) \/ InTransit(k) => Delivered(k)' \/ InTransit(k)'
<1>0. Len(emitted) \in Nat /\ generation \in Nat
  BY DEF HubInv, IndInv, TypeOK
<1>1. ASSUME NEW p \in Paths, PublishModify(p) \/ DiskChange(p)
      PROVE  NoLoss'
  BY <1>1, PublishNoLoss
<1>2. ASSUME NEW here, here # "stopped", Receive(here)
      PROVE  NoLoss'
  <2>1. CASE Head(chan) = Stop
    <3>1. /\ UNCHANGED << emitted, generation, ingested >> /\ pc' = "stopped"
      BY <1>2, <2>1 DEF Receive, cvars, thread
    <3>. QED
      BY <1>0, <3>1, MovesNoLoss
  <2>2. CASE Head(chan) # Stop
    <3>. DEFINE ev == Head(chan).event
                evs == << ev >>
    <3>1. /\ Ingest(evs) /\ ev \in Event /\ ev = chan[1].event
          /\ UNCHANGED << raw, ingested >>
          /\ pc # "stopped"
      BY <1>2, <2>2, ReceiveTail DEF Receive, thread
    <3>2. evs \in Seq(Event) /\ 1 \in DOMAIN evs /\ evs[1] = ev
      BY <3>1
    <3>. HIDE DEF evs, ev
    <3>3. /\ emitted' = emitted
          /\ \/ generation' = generation + 1
             \/ /\ generation' = generation
                /\ \A n \in DOMAIN pending : \E m \in DOMAIN pending' :
                     pending'[m] = pending[n]
                /\ \A n \in DOMAIN evs : \E m \in DOMAIN pending' :
                     pending'[m] = evs[n]
      BY <3>1, <3>2, IngestMoves
    <3>4. ASSUME generation' = generation,
                 \A n \in DOMAIN pending : \E m \in DOMAIN pending' :
                   pending'[m] = pending[n],
                 \A n \in DOMAIN evs : \E m \in DOMAIN pending' :
                   pending'[m] = evs[n]
          PROVE  Kept
      <4>. SUFFICES ASSUME NEW k \in 1 .. ingested, Delivered(k) \/ InTransit(k)
                    PROVE  Delivered(k)' \/ InTransit(k)'
        OBVIOUS
      <4>1. CASE Delivered(k)
        BY <3>3, <4>1 DEF Delivered
      <4>2. CASE \E i \in DOMAIN chan : chan[i] # Stop /\ chan[i].event.seq = k
        <5>1. PICK i \in DOMAIN chan : chan[i] # Stop /\ chan[i].event.seq = k
          BY <4>2
        <5>2. CASE i = 1
          BY <3>1, <3>2, <3>4, <5>1, <5>2 DEF InTransit
        <5>3. CASE i - 1 \in DOMAIN chan' /\ chan'[i - 1] = chan[i]
          BY <5>1, <5>3 DEF InTransit
        <5>. QED
          BY <1>2, <5>2, <5>3, ReceiveTail
      <4>3. CASE \E i \in DOMAIN raw : raw[i].seq = k
        BY <3>1, <4>3 DEF InTransit
      <4>4. CASE \E i \in DOMAIN pending : pending[i].seq = k
        BY <3>4, <4>4 DEF InTransit
      <4>. QED
        BY <4>1, <4>2, <4>3, <4>4 DEF InTransit
    <3>. QED
      BY <1>0, <3>1, <3>3, <3>4, MovesNoLoss
  <2>. QED
    BY <2>1, <2>2
<1>3. CASE PollBackend
  <2>1. /\ Ingest(raw) /\ raw \in Seq(Event)
        /\ UNCHANGED << chan, ingested >> /\ pc # "stopped"
    BY <1>3 DEF PollBackend, thread, HubInv, Around
  <2>2. /\ emitted' = emitted
        /\ \/ generation' = generation + 1
           \/ /\ generation' = generation
              /\ \A n \in DOMAIN pending : \E m \in DOMAIN pending' :
                   pending'[m] = pending[n]
              /\ \A n \in DOMAIN raw : \E m \in DOMAIN pending' :
                   pending'[m] = raw[n]
    BY <2>1, IngestMoves
  <2>3. ASSUME \A n \in DOMAIN pending : \E m \in DOMAIN pending' :
                 pending'[m] = pending[n],
               \A n \in DOMAIN raw : \E m \in DOMAIN pending' :
                 pending'[m] = raw[n]
        PROVE  Kept
    BY <2>1, <2>2, <2>3 DEF Delivered, InTransit
  <2>. QED
    BY <1>0, <2>1, <2>2, <2>3, MovesNoLoss
<1>4. CASE Dispatch /\ FlushPending
  <2>1. /\ UNCHANGED << chan, raw, ingested >> /\ pc # "stopped"
    BY <1>4 DEF Dispatch, thread
  <2>2. /\ Len(emitted') = Len(emitted) + 1 /\ Len(emitted) \in Nat
        /\ generation' = generation + 1
        /\ \A i \in DOMAIN emitted : i \in DOMAIN emitted'
                                      /\ emitted'[i] = emitted[i]
        /\ \A n \in DOMAIN pending : \E i \in DOMAIN emitted' :
             emitted'[i].events = pending
    BY <1>4, FlushMoves
  <2>3. Kept
    BY <2>1, <2>2 DEF Delivered, InTransit
  <2>. QED
    BY <1>0, <2>1, <2>2, <2>3, MovesNoLoss
<1>5. CASE SendStop
  <2>1. /\ UNCHANGED << emitted, generation, pending, raw, ingested, pc >>
        /\ pc # "stopped"
        /\ chan \in Seq(Commands) /\ chan' = Append(chan, Stop)
    BY <1>5 DEF SendStop, vars, cvars, HubInv, Around
  <2>2. \A i \in DOMAIN chan : i \in DOMAIN chan' /\ chan'[i] = chan[i]
    BY <2>1 DEF Commands
  <2>3. Kept
    BY <2>1, <2>2 DEF Delivered, InTransit
  <2>. QED
    BY <1>0, <2>1, <2>3, MovesNoLoss
<1>6. CASE UNCHANGED << cvars, chan, raw, ingested >>
           /\ (pc' = "stopped" \/ pc # "stopped")
  <2>1. Kept
    BY <1>6 DEF cvars, Delivered, InTransit
  <2>. QED
    BY <1>0, <1>6, <2>1, MovesNoLoss DEF cvars
<1>7. Dispatch => \/ FlushPending
                  \/ UNCHANGED << cvars, chan, raw, ingested >> /\ pc # "stopped"
  BY DEF Dispatch, FlushDue, FlushNow, thread
<1>8. \/ RecvTimeout \/ RecvDisconnected \/ Drained \/ DropHandles \/ HubTick
      \/ UNCHANGED hubvars
      => UNCHANGED << cvars, chan, raw, ingested >>
         /\ (pc' = "stopped" \/ pc # "stopped")
  BY DEF RecvTimeout, RecvDisconnected, Drained, DropHandles, HubTick, Tick,
         hubvars, vars
<1>. QED
  BY <1>1, <1>2, <1>3, <1>4, <1>5, <1>6, <1>7, <1>8 DEF HubNext, HubStep

(***************************************************************************)
(* While the hub thread runs, a subscriber that has seen as many batches   *)
(* as there are generations has missed nothing, whatever the limits: each  *)
(* event is in a batch or still on its way.                                *)
(***************************************************************************)
THEOREM NoLossWithoutGap == HubSpec => []NoGapNoLoss
<1>1. HubInit => HubInv /\ NoLoss
  <2>. SUFFICES ASSUME HubInit  PROVE HubInv /\ NoLoss
    OBVIOUS
  <2>1. HubInv
    BY InitHubInv
  <2>2. ingested = 0 /\ generation = 0 /\ Len(emitted) = 0
    BY DEF HubInit, Init, CoalescerInit
  <2>. QED
    BY <2>1, <2>2 DEF NoLoss, NoGapNoLoss
<1>2. HubInv /\ NoLoss /\ [HubNext]_hubvars => HubInv' /\ NoLoss'
  BY HubNextInv, HubNextNoLoss
<1>3. NoLoss => NoGapNoLoss
  BY DEF NoLoss
<1>. QED
  BY <1>1, <1>2, <1>3, PTL DEF HubSpec
=============================================================================
